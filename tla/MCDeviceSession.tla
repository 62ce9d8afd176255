--------------------------- MODULE MCDeviceSession ---------------------------
(* Small instances of DeviceSession. *)
EXTENDS DeviceSession

CONSTANTS c1, c2

Drive(k, n) == [kind |-> k, name |-> n]

\* Two SATA drives whose attributes have different names, one whose look-up
\* in the database fails, and an NVMe drive.
MCDevices == {Drive("sat", "A"), Drive("sat", "B"), Drive("sat", "X"), Drive("nvme", "C")}
MCBad     == {Drive("sat", "X")}

\* No handle fits more than ServesAssumption says of these devices.
MCServes  == ({"nvme"} \X MCDevices)
                \cup ({"sata", "scsi"} \X {d \in MCDevices : d.kind = "sat"})
=============================================================================
