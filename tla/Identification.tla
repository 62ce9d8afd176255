---------------------------- MODULE Identification ----------------------------
(***************************************************************************)
(* IDENTIFY DEVICE data (src/sata.go): what AtaIdentifyDevice's methods    *)
(* say of a drive.  A word of flags is the set of the bits that are 1;     *)
(* a word that the drive does not implement has none of them or all.       *)
(*                                                                         *)
(* Numbers of sectors are natural numbers: products that would not fit 64  *)
(* bits need sectors of gigabytes.                                         *)
(***************************************************************************)
EXTENDS Integers

CONSTANT Lba28Max   \* the largest number of sectors words 60..61 can hold

ASSUME Lba28Assumption == Lba28Max \in Nat

Bits == 0..15

\* The identification in a buffer that nothing was read into.
NoIdentification ==
  [Capabilities |-> {}, CommandsSupported2 |-> {}, CommandsSupported3 |-> {},
   CommandsSupported4 |-> {}, CommandsEnabled2 |-> {}, CommandsEnabled3 |-> {},
   CommandsEnabled4 |-> {}, CapacityLba28 |-> 0, CapacityLba48 |-> 0,
   LogicalPerPhysicalSectors |-> [bits |-> {}, exponent |-> 0],
   LogicalSectorSize |-> 0, LogicalSectorOffset |-> 0]

isWordSignatureValid_Ignored(word) == TRUE
isWordSignatureValid(word) == 14 \in word /\ 15 \notin word

\* The first of words 84 and 87 that is valid decides.
IsGeneralPurposeLoggingCapable(i) ==
  IF isWordSignatureValid(i.CommandsSupported3) THEN 5 \in i.CommandsSupported3
  ELSE isWordSignatureValid(i.CommandsEnabled3) /\ 5 \in i.CommandsEnabled3

\* Bit 15 of word 86 says that words 119 and 120 are valid.
EpcSupported(i) ==
  15 \in i.CommandsEnabled2 /\ isWordSignatureValid(i.CommandsSupported4) /\ 7 \in i.CommandsSupported4
EpcEnabled(i) ==
  15 \in i.CommandsEnabled2 /\ isWordSignatureValid(i.CommandsEnabled4) /\ 7 \in i.CommandsEnabled4

ApmSupported(i) == isWordSignatureValid(i.CommandsSupported2) /\ 3 \in i.CommandsSupported2
ApmEnabled(i) == 3 \in i.CommandsEnabled2
UnloadSupported(i) == isWordSignatureValid(i.CommandsSupported3) /\ 13 \in i.CommandsSupported3

Features(i) ==
  {f \in {"gpl", "epc", "epcOn", "apm", "apmOn", "unload"} :
     CASE f = "gpl"    -> IsGeneralPurposeLoggingCapable(i)
       [] f = "epc"    -> EpcSupported(i)
       [] f = "epcOn"  -> EpcEnabled(i)
       [] f = "apm"    -> ApmSupported(i)
       [] f = "apmOn"  -> ApmEnabled(i)
       [] f = "unload" -> UnloadSupported(i)}

-----------------------------------------------------------------------------
(* Capacity.                                                               *)

Unknown == [sectors |-> 0, capacity |-> 0, logical |-> 0, physical |-> 0, offset |-> 0]

\* The 48-bit count, if the drive has one; its word may hold anything if not.
Lba48(i) == IF 10 \in i.CommandsSupported2 THEN i.CapacityLba48 ELSE 0

LogicalSize(i) ==
  IF 12 \in i.LogicalPerPhysicalSectors.bits THEN 2 * i.LogicalSectorSize ELSE 512

PhysicalSize(i) ==
  LogicalSize(i) *
    (IF 13 \in i.LogicalPerPhysicalSectors.bits
     THEN 2 ^ i.LogicalPerPhysicalSectors.exponent ELSE 1)

\* Some drives with long sectors return a bogus 28-bit count.
Sectors_Larger(i) == IF Lba48(i) >= i.CapacityLba28 THEN Lba48(i) ELSE i.CapacityLba28
Sectors(i) ==
  IF Lba48(i) >= i.CapacityLba28 \/ (Lba48(i) # 0 /\ LogicalSize(i) > 512)
  THEN Lba48(i) ELSE i.CapacityLba28

Capacity_AlwaysKnown(i) ==
  [sectors |-> Sectors(i), capacity |-> Sectors(i) * LogicalSize(i), logical |-> LogicalSize(i),
   physical |-> PhysicalSize(i), offset |-> (i.LogicalSectorOffset % 16384) * LogicalSize(i)]
Capacity(i) ==
  IF 9 \notin i.Capabilities \/ (i.CapacityLba28 = 0 /\ Lba48(i) = 0) THEN Unknown
  ELSE [sectors  |-> Sectors(i),
        capacity |-> Sectors(i) * LogicalSize(i),
        logical  |-> LogicalSize(i),
        physical |-> PhysicalSize(i),
        offset   |-> (i.LogicalSectorOffset % 16384) * LogicalSize(i)]

-----------------------------------------------------------------------------
(* Drives, and the identification that each of them returns.               *)

\* A drive says what it has in words it implements, counts its sectors in one
\* of the two numbers, and has a bogus number in the other one at most.
WellFormed(d) ==
  /\ d.lba \in BOOLEAN /\ d.sectors \in Nat /\ d.bogus \in Nat /\ d.exponent \in Nat
  /\ d.logical \in Nat /\ d.logical >= 512 /\ d.logical % 2 = 0
  /\ d.offset \in Nat /\ d.offset < 16384
  /\ d.blank \in {{}, Bits}
  /\ d.features \subseteq {"lba48", "gpl", "epc", "epcOn", "apm", "apmOn", "unload"}
  /\ "gpl" \in d.features => d.words \cap {84, 87} # {}
  /\ "unload" \in d.features => 84 \in d.words
  /\ d.features \cap {"epc", "epcOn"} # {} => 119 \in d.words
  /\ "lba48" \notin d.features => d.sectors <= Lba28Max /\ d.bogus = 0
  /\ d.bogus # 0 => d.sectors # 0 /\ d.logical > 512

\* A drive without 48-bit addresses may have anything in words 100..103; one
\* with long sectors may have a bogus number in words 60..61.
Word28(d) ==
  IF d.bogus # 0 THEN d.bogus ELSE IF d.sectors < Lba28Max THEN d.sectors ELSE Lba28Max

\* A word of flags with a signature, if the drive implements it.
Flags(d, word, bits) == IF word \in d.words THEN {14} \cup bits ELSE d.blank

Having(d, f, bit) == IF f \in d.features THEN {bit} ELSE {}

IdentifyData(d) ==
  [Capabilities       |-> IF d.lba THEN {9} ELSE {},
   CommandsSupported2 |-> {14} \cup Having(d, "apm", 3) \cup Having(d, "lba48", 10),
   CommandsSupported3 |-> Flags(d, 84, Having(d, "gpl", 5) \cup Having(d, "unload", 13)),
   CommandsSupported4 |-> Flags(d, 119, Having(d, "epc", 7)),
   CommandsEnabled2   |-> Having(d, "apmOn", 3) \cup (IF 119 \in d.words THEN {15} ELSE {}),
   CommandsEnabled3   |-> Flags(d, 87, Having(d, "gpl", 5)),
   CommandsEnabled4   |-> Flags(d, 119, Having(d, "epcOn", 7)),
   CapacityLba28      |-> IF d.lba THEN Word28(d) ELSE 0,
   CapacityLba48      |-> IF "lba48" \in d.features THEN d.sectors ELSE 1,
   LogicalPerPhysicalSectors |->
     [bits |-> (IF d.logical = 512 THEN {} ELSE {12}) \cup (IF d.exponent = 0 THEN {} ELSE {13}),
      exponent |-> d.exponent],
   LogicalSectorSize   |-> IF d.logical = 512 THEN 0 ELSE d.logical \div 2,
   LogicalSectorOffset |-> 16384 + d.offset]

\* What the drive is, as Capacity should say it.
TrueCapacity(d) ==
  IF ~d.lba \/ d.sectors = 0 THEN Unknown
  ELSE [sectors |-> d.sectors, capacity |-> d.sectors * d.logical, logical |-> d.logical,
        physical |-> d.logical * 2 ^ d.exponent, offset |-> d.offset * d.logical]
=============================================================================
