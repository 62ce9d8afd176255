---------------------------- MODULE DeviceQueries ----------------------------
(***************************************************************************)
(* Queries of an open device: Capacity and SerialNumber of a SCSI disk     *)
(* (src/scsi_linux.go), Identify with Capacity and the feature tests, and  *)
(* ReadStatistics with Get, of a SATA drive (src/sata.go, sata_linux.go).  *)
(* Each sends one command and computes with the numbers in the data.       *)
(*                                                                         *)
(* A panic (Go's slice bounds out of range) is an answer of its own.       *)
(***************************************************************************)
EXTENDS SgIo, Identification

CONSTANTS Uint32,      \* the number of values of a uint32
          MaxInt,      \* the largest int
          LogLength,   \* bytes of the statistics log
          Disks,       \* SCSI disks: [blocks, size, serial]
          AtaDrives,   \* SATA drives, see Identification, with their statistics
          Offsets      \* what Get is asked for

ASSUME QueriesAssumption ==
  /\ Uint32 \in Nat \ {0} /\ MaxInt \in Nat /\ LogLength \in 0..MaxInt
  /\ \A d \in Disks : d.blocks \in Nat \ {0} /\ d.size \in Nat /\ d.serial \in 0..255
  /\ Offsets \subseteq -(MaxInt + 1)..MaxInt
  /\ \A d \in AtaDrives : d.log \in [0..LogLength - 1 -> 0..255]

ASSUME DrivesAssumption == \A d \in AtaDrives : WellFormed(d)

VARIABLES device,   \* the open device
          stage,    \* "idle" or "sent"
          query,    \* the query at hand: [name, offset]
          reply,    \* what SG_IO returned
          answer    \* what the query returned

qvars == <<device, stage, query, reply, answer>>

Error == [kind |-> "error"]
Panic == [kind |-> "panic"]
Value(x) == [kind |-> "value", value |-> x]

DiskQueries == {"Capacity", "SerialNumber"}
Queries == [name : {"Capacity", "SerialNumber", "Identify", "Features"}, offset : {0}]
             \cup [name : {"Statistic"}, offset : Offsets]

-----------------------------------------------------------------------------
(* SCSI.                                                                   *)

\* A disk of more blocks than READ CAPACITY (10) can number returns the
\* largest number.
ReadCapacity(d) ==
  [LastLba |-> IF d.blocks < Uint32 THEN d.blocks - 1 ELSE Uint32 - 1, LbSize |-> d.size]

\* r.LastLba + 1 is computed as a uint32.
ScsiCapacity_Last(r) == Value(r.LastLba * r.LbSize)
ScsiCapacity(r) == Value(((r.LastLba + 1) % Uint32) * r.LbSize)

\* The bytes that buf[4 : 4+length] has; 4 + length is computed as a byte.
SerialNumber(r) ==
  IF r.page # 128 THEN Error
  ELSE IF (4 + r.length) % 256 < 4 THEN Panic
  ELSE Value(((4 + r.length) % 256) - 4)

-----------------------------------------------------------------------------
(* Device statistics.                                                      *)

Wraps(n) == IF n > MaxInt THEN n - 2 * (MaxInt + 1) ELSE n

IsPresent_Supported(flags) == flags \div 128 = 1
IsPresent(flags) == flags \div 64 = 3   \* supported (bit 7) and valid (bit 6)

\* AtaDeviceStatistics.Get: eight bytes, the last one has the flags.
OutOfRange_LastByte(offset) == offset < 0 \/ Wraps(offset + 7) > LogLength
OutOfRange(offset) == offset < 0 \/ Wraps(offset + 8) > LogLength

Absent == [ok |-> FALSE]
Statistic(v) == [ok |-> TRUE, value |-> v]

Get(log, offset) ==
  IF OutOfRange(offset) THEN Value(Absent)
  ELSE IF offset + 8 > LogLength THEN Panic
  ELSE IF ~IsPresent(log[offset + 7]) THEN Value(Absent)
  ELSE Value(Statistic([i \in 0..6 |-> log[offset + i]]))

-----------------------------------------------------------------------------
(* Commands and their answers.                                             *)

\* What the device sends, and what the buffer has if it sends nothing.
Data(d, q) ==
  CASE q.name = "Capacity"     -> ReadCapacity(d)
    [] q.name = "SerialNumber" -> [page |-> 128, length |-> d.serial]
    [] q.name = "Statistic"    -> d.log
    [] OTHER                   -> IdentifyData(d)

ZeroBuffer(q) ==
  CASE q.name = "Capacity"     -> [LastLba |-> 0, LbSize |-> 0]
    [] q.name = "SerialNumber" -> [page |-> 0, length |-> 0]
    [] q.name = "Statistic"    -> [i \in 0..LogLength - 1 |-> 0]
    [] OTHER                   -> NoIdentification

\* What a query makes of the buffer.
Decode(q, data) ==
  CASE q.name = "Capacity"     -> ScsiCapacity(data)
    [] q.name = "SerialNumber" -> SerialNumber(data)
    [] q.name = "Statistic"    -> Get(data, q.offset)
    [] q.name = "Identify"     -> Value(Capacity(data))
    [] q.name = "Features"     -> Value(Features(data))

Init ==
  /\ device \in Disks \cup AtaDrives
  /\ stage = "idle" /\ query = [name |-> "Identify", offset |-> 0]
  /\ reply = Errno /\ answer = Error

\* A query is made and its command sent, which may fail in any way.
Send ==
  /\ stage = "idle"
  /\ query' \in {q \in Queries : device \in Disks <=> q.name \in DiskQueries}
  /\ reply' \in {Good(Data(device, query'))} \cup Failures
  /\ stage' = "sent" /\ answer' = Error
  /\ UNCHANGED device

Answer ==
  /\ stage = "sent"
  /\ answer' = IF ScsiSendCdb(reply) THEN Error
               ELSE Decode(query, IF reply.data = Zeroed THEN ZeroBuffer(query) ELSE reply.data)
  /\ stage' = "idle"
  /\ UNCHANGED <<device, query, reply>>

Next == Send \/ Answer

Spec == Init /\ [][Next]_qvars

-----------------------------------------------------------------------------
(* Properties.                                                             *)

\* What the query at hand has returned for the device's data.
Answers(name) == stage = "idle" /\ query.name = name /\ reply.data # Zeroed /\ answer # Error

\* Capacity of a SCSI disk is its size, or 0 if READ CAPACITY (10) cannot tell
\* it: never the size of another disk.  A serial number is returned whole.
DiskIsExact ==
  /\ Answers("Capacity") =>
       answer = Value(IF device.blocks < Uint32 THEN device.blocks * device.size ELSE 0)
  /\ Answers("SerialNumber") => answer \in {Panic, Value(device.serial)}

\* Capacity of a SATA drive is its size, whichever of the two counts it has,
\* and whatever the other one holds.
AtaCapacityIsExact == Answers("Identify") => answer = Value(TrueCapacity(device))

\* The feature tests report what the drive has, also of a drive that leaves
\* words unimplemented, with all bits 0 or all bits 1.
FeaturesAreTrue == Answers("Features") => answer = Value(device.features \ {"lba48"})

\* Get returns a statistic only from inside the log, and if and only if the
\* device marks it as supported and valid; any other answer is "not present".
\* (Offsets at the end of the integers: see PanicsOnlyByOverflow.)
StatisticsAreMarked ==
  Answers("Statistic") /\ answer.kind = "value" =>
    (answer.value.ok <=> /\ query.offset \in 0..LogLength - 8
                         /\ device.log[query.offset + 7] \in 192..255)

\* A command that the device rejects is no error for scsiSendCdb; still no
\* query answers it with a size, a statistic or a feature, and SerialNumber
\* returns an error.
NothingInvented ==
  stage = "idle" /\ reply.data = Zeroed /\ answer.kind = "value" =>
    /\ query.name # "SerialNumber"
    /\ answer = Value(
         CASE query.name = "Capacity"  -> 0
           [] query.name = "Statistic" -> Absent
           [] query.name = "Identify"  -> Unknown
           [] query.name = "Features"  -> {})

\* The only inputs that make a query panic are serial numbers of more than 251
\* bytes and offsets less than 8 below the largest int: where sums wrap around.
PanicsOnlyByOverflow ==
  answer = Panic =>
    \/ query.name = "SerialNumber" /\ device.serial > 251
    \/ query.name = "Statistic" /\ query.offset > MaxInt - 8
=============================================================================
