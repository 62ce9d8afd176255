----------------------------- MODULE MCNvmeAdmin -----------------------------
(***************************************************************************)
(* Small instances of NvmeAdmin: namespaces of two sizes and formats; logs *)
(* of a warm and of a freezing drive, one with a counter beyond 64 bits.   *)
(***************************************************************************)
EXTENDS NvmeAdmin

CONSTANT c1

AllKernels == SUBSET Ioctls

MCActive == {[Nsze |-> 1, Flbas |-> 0], [Nsze |-> 2, Flbas |-> 1]}

Log(kelvin, read, written, high) ==
  [Temperature |-> kelvin, DataUnitsRead |-> <<read, high>>, DataUnitsWritten |-> <<written, 0>>,
   PowerOnHours |-> <<7, 0>>, PowerCycles |-> <<8, 0>>]

MCLogs == {Log(313, 1, 2, 0), Log(272, 3, 4, 1)}
=============================================================================
