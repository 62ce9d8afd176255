------------------------------ MODULE MCNumbers ------------------------------
(***************************************************************************)
(* Small instances of the two modules about numbers, side by side: a timer *)
(* is set, and a device is queried.  Neither knows of the other.           *)
(***************************************************************************)
EXTENDS SpinDownTimer, DeviceQueries

\* Since they are independent, not every device needs every duration.
MCInit ==
  /\ TimerInit /\ Init
  /\ asked = 0 \/ (device \in Disks /\ device.blocks = 1)
MCNext ==
  \/ Encode /\ UNCHANGED qvars
  \/ Send /\ UNCHANGED timerVars
  \/ Answer /\ UNCHANGED timerVars
MCSpec == MCInit /\ [][MCNext]_<<timerVars, qvars>>

-----------------------------------------------------------------------------
(* Durations around every boundary of Table 52, and off the grid.          *)

Grid == {5 * Second * k : k \in -2..260} \cup {30 * Minute * k : k \in 0..13}
          \cup {decodeAtaSpinDownTimeout(v) : v \in Codes}

MCDurations == Grid \cup {d - 1 : d \in Grid} \cup {d + 1 : d \in Grid}

-----------------------------------------------------------------------------
(* Devices: a uint32 of 16 values, 28-bit numbers up to 7, an int up to 31 *)
(* and a log of three fields.                                              *)

Disk(blocks, serial) == [blocks |-> blocks, size |-> 4, serial |-> serial]
MCDisks == {Disk(b, 20) : b \in {1, 15, 16, 17}} \cup {Disk(5, s) : s \in {0, 251, 252, 255}}

\* The log of a drive: the same seven bytes, other flags in each field.
Log(flags) ==
  [i \in 0..23 |-> IF i % 8 = 7 THEN flags[i \div 8 + 1] ELSE i % 8]

Ata(sectors, bogus, logical, exponent, features, words, blank) ==
  [lba |-> TRUE, sectors |-> sectors, bogus |-> bogus, logical |-> logical,
   exponent |-> exponent, offset |-> exponent, features |-> features,
   words |-> words, blank |-> blank, log |-> Log(<<0, 192, 193>>)]

All == {"gpl", "epc", "epcOn", "apm", "apmOn", "unload"}

MCAtaDrives ==
  {[Ata(0, 0, 512, 0, {"apm"}, {}, {}) EXCEPT !.lba = FALSE],
   Ata(5, 0, 512, 0, {}, {}, {}),
   Ata(5, 0, 512, 3, {"apm", "apmOn"}, {}, Bits),
   Ata(0, 0, 512, 0, {"gpl"}, {87}, Bits),
   Ata(7, 0, 512, 0, {"lba48", "gpl", "unload"}, {84}, Bits),
   Ata(20, 0, 512, 3, {"lba48"} \cup All, {84, 87, 119}, Bits),
   [Ata(20, 0, 4096, 0, {"lba48", "epc"}, {84, 119}, {}) EXCEPT !.log = Log(<<128, 64, 255>>)],
   Ata(20, 160, 4096, 0, {"lba48"}, {84, 119}, Bits)}

MCOffsets == {-32, -1, 0, 8, 13, 15, 16, 17, 23, 24, 25, 30, 31}
=============================================================================
