---------------------------- MODULE MCDeviceOpen ----------------------------
(* Small instances of DeviceOpen. *)
EXTENDS DeviceOpen, TLC

CONSTANTS c1, c2

Drive(k) == [kind |-> k]

MCDevices == {Drive(k) : k \in Kinds}

\* No handle fits more than ServesAssumption says when callers go through Open.
OpenServes == {<<"nvme", Drive("nvme")>>}
                \cup ({"sata", "scsi"} \X {Drive(k) : k \in DirectAccess \cup {"tape"}})

MCFaults == {{}, {"transport"}, {"transport", "device"}}

\* Callers may be renamed: neither invariants nor ImplementsHandle tell them apart.
Symmetry == Permutations(Callers)
=============================================================================
