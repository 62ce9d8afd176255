------------------------- MODULE DeviceQueriesProofs -------------------------
(***************************************************************************)
(* Which inputs make a query panic, and that its answer is right else, for *)
(* every width of the numbers, every disk and every well formed drive.     *)
(***************************************************************************)
EXTENDS DeviceQueries, TLAPS

\* Get slices outside the log only if offset + 8 wraps around.
LEMMA SliceOutside ==
  ASSUME NEW offset \in Offsets, ~OutOfRange(offset), offset + 8 > LogLength
  PROVE  offset > MaxInt - 8
<1>1. offset \in Int /\ offset <= MaxInt /\ LogLength \in Int /\ MaxInt \in Int
  BY QueriesAssumption
<1>2. SUFFICES ASSUME offset <= MaxInt - 8 PROVE FALSE
  BY <1>1
<1>3. Wraps(offset + 8) = offset + 8
  BY <1>1, <1>2 DEF Wraps
<1>4. QED
  BY <1>1, <1>3 DEF OutOfRange

\* The queries that can panic at all, and on what data.
LEMMA DecodePanics ==
  ASSUME NEW q \in Queries, NEW data, Decode(q, data) = Panic
  PROVE  \/ q.name = "SerialNumber" /\ (4 + data.length) % 256 < 4
         \/ q.name = "Statistic" /\ q.offset > MaxInt - 8
<1>1. \A x : Value(x) # Panic
  BY DEF Value, Panic
<1>2. Error # Panic
  BY DEF Error, Panic
<1>3. CASE q.name = "Capacity"
  BY <1>1, <1>3 DEF Decode, ScsiCapacity
<1>4. CASE q.name = "SerialNumber"
  BY <1>1, <1>2, <1>4 DEF Decode, SerialNumber
<1>5. CASE q.name = "Statistic"
  <2>1. Get(data, q.offset) = Panic
    BY <1>5 DEF Decode
  <2>2. ~OutOfRange(q.offset) /\ q.offset + 8 > LogLength
    BY <2>1, <1>1 DEF Get
  <2>3. q.offset \in Offsets
    BY <1>5 DEF Queries
  <2>4. QED
    BY <1>5, <2>2, <2>3, SliceOutside
<1>6. CASE q.name \in {"Identify", "Features"}
  BY <1>1, <1>6 DEF Decode
<1>7. QED
  BY <1>3, <1>4, <1>5, <1>6 DEF Queries

-----------------------------------------------------------------------------
(* The invariant: a query is for the device it is made of, what has arrived *)
(* for it is what that device sends or nothing, and no answer is kept from  *)
(* one query to the next.                                                   *)

Sent ==
  /\ query \in Queries
  /\ query.name \in DiskQueries /\ answer # Error => device \in Disks
  /\ stage = "sent" =>
       /\ answer = Error
       /\ query.name \in DiskQueries => device \in Disks
       /\ reply.data \in {Zeroed, Data(device, query)}

LEMMA InitSent == Init => Sent
BY DEF Init, Sent, Queries, DiskQueries, Error

LEMMA StepSent ==
  ASSUME Sent, [Next]_qvars
  PROVE  Sent'
<1>1. CASE Send
  <2>1. query' \in Queries /\ (query'.name \in DiskQueries => device' \in Disks) /\ answer' = Error
    BY <1>1 DEF Send
  <2>2. reply'.data \in {Zeroed, Data(device, query')}
    BY <1>1 DEF Send, Failures, Unserved, Good, Check, Broken, Errno, HostError, Silent
  <2>3. device' = device
    BY <1>1 DEF Send
  <2>4. Data(device, query)' = Data(device, query')
    BY <2>3 DEF Data
  <2>5. QED
    BY <2>1, <2>2, <2>4 DEF Sent
<1>2. CASE Answer
  <2>1. UNCHANGED <<device, query, reply>> /\ stage' = "idle" /\ stage = "sent"
    BY <1>2 DEF Answer
  <2>2. QED
    BY <2>1 DEF Sent
<1>3. CASE UNCHANGED qvars
  <2>1. Data(device, query)' = Data(device, query)
    BY <1>3 DEF qvars, Data
  <2>2. QED
    BY <1>3, <2>1 DEF qvars, Sent
<1>4. QED
  BY <1>1, <1>2, <1>3 DEF Next

\* What Answer returns: an error, or the query decoded from the device's data
\* or from a buffer nothing was read into.
LEMMA Answered ==
  ASSUME Sent, Answer
  PROVE  \/ answer' = Error
         \/ answer' = Decode(query, ZeroBuffer(query)) /\ reply.data = Zeroed
         \/ answer' = Decode(query, Data(device, query)) /\ reply.data # Zeroed
BY DEF Sent, Answer

-----------------------------------------------------------------------------

LEMMA StepPanics ==
  ASSUME Sent, PanicsOnlyByOverflow, [Next]_qvars
  PROVE  PanicsOnlyByOverflow'
<1>1. CASE Send
  BY <1>1 DEF Send, PanicsOnlyByOverflow, Error, Panic
<1>2. CASE Answer
  <2> SUFFICES ASSUME answer' = Panic
               PROVE  \/ query.name = "SerialNumber" /\ device.serial > 251
                      \/ query.name = "Statistic" /\ query.offset > MaxInt - 8
    BY <1>2 DEF Answer, PanicsOnlyByOverflow
  <2>1. query \in Queries /\ stage = "sent"
    BY <1>2 DEF Sent, Answer
  <2>2. CASE Decode(query, ZeroBuffer(query)) = Panic
    <3>1. query.name = "SerialNumber" => ZeroBuffer(query).length = 0
      BY DEF ZeroBuffer
    <3>2. QED
      BY <2>1, <2>2, <3>1, DecodePanics
  <2>3. CASE Decode(query, Data(device, query)) = Panic
    <3>1. query.name = "SerialNumber" => Data(device, query).length = device.serial
      BY DEF Data
    <3>2. query.name = "SerialNumber" => device.serial \in 0..255
      BY <2>1, QueriesAssumption DEF Sent, DiskQueries
    <3>3. \A n \in 0..255 : (4 + n) % 256 < 4 => n > 251
      OBVIOUS
    <3>4. QED
      BY <2>1, <2>3, <3>1, <3>2, <3>3, DecodePanics
  <2>4. QED
    BY <1>2, <2>2, <2>3, Answered DEF Error, Panic
<1>3. CASE UNCHANGED qvars
  BY <1>3 DEF qvars, PanicsOnlyByOverflow
<1>4. QED
  BY <1>1, <1>2, <1>3 DEF Next

\* Capacity, SerialNumber, Get and the methods of an identification panic for
\* no device and no offset other than those where a sum wraps around.
THEOREM PanicsAreOverflows == Spec => []PanicsOnlyByOverflow
<1>1. Init => Sent /\ PanicsOnlyByOverflow
  BY InitSent DEF Init, PanicsOnlyByOverflow, Error, Panic
<1>2. Sent /\ PanicsOnlyByOverflow /\ [Next]_qvars => (Sent /\ PanicsOnlyByOverflow)'
  BY StepSent, StepPanics
<1>3. QED
  BY <1>1, <1>2, PTL DEF Spec

-----------------------------------------------------------------------------
(* Capacity and serial number of a SCSI disk.                              *)

LEMMA Modulo ==
  ASSUME NEW m \in Nat \ {0}
  PROVE  m % m = 0 /\ \A n \in 0..m-1 : n % m = n
OBVIOUS

\* The sum of a uint32 that wraps around does so to 0.
LEMMA CapacityOfDisk ==
  ASSUME NEW d \in Disks
  PROVE  ScsiCapacity(ReadCapacity(d)) =
           Value(IF d.blocks < Uint32 THEN d.blocks * d.size ELSE 0)
<1>1. d.blocks \in Nat \ {0} /\ d.size \in Nat /\ Uint32 \in Nat \ {0}
  BY QueriesAssumption
<1>2. CASE d.blocks < Uint32
  <2>1. ReadCapacity(d) = [LastLba |-> d.blocks - 1, LbSize |-> d.size]
    BY <1>2 DEF ReadCapacity
  <2>2. (d.blocks - 1) + 1 = d.blocks /\ d.blocks \in 0..Uint32 - 1
    BY <1>1, <1>2
  <2>3. ((d.blocks - 1) + 1) % Uint32 = d.blocks
    BY <1>1, <2>2, Modulo
  <2>4. QED
    BY <1>2, <2>1, <2>3 DEF ScsiCapacity
<1>3. CASE ~(d.blocks < Uint32)
  <2>1. ReadCapacity(d) = [LastLba |-> Uint32 - 1, LbSize |-> d.size]
    BY <1>3 DEF ReadCapacity
  <2>2. (Uint32 - 1) + 1 = Uint32
    BY <1>1
  <2>3. ((Uint32 - 1) + 1) % Uint32 = 0
    BY <1>1, <2>2, Modulo
  <2>4. 0 * d.size = 0
    BY <1>1
  <2>5. QED
    BY <1>3, <2>1, <2>3, <2>4 DEF ScsiCapacity
<1>4. QED
  BY <1>2, <1>3

LEMMA SerialOfDisk ==
  ASSUME NEW d \in Disks
  PROVE  SerialNumber([page |-> 128, length |-> d.serial]) \in {Panic, Value(d.serial)}
<1>1. d.serial \in 0..255
  BY QueriesAssumption
<1>2. \A n \in 0..255 : (4 + n) % 256 >= 4 => ((4 + n) % 256) - 4 = n
  OBVIOUS
<1>3. CASE (4 + d.serial) % 256 < 4
  BY <1>3 DEF SerialNumber
<1>4. CASE (4 + d.serial) % 256 >= 4
  BY <1>1, <1>2, <1>4 DEF SerialNumber
<1>5. QED
  BY <1>1, <1>3, <1>4

LEMMA StepDisk ==
  ASSUME Sent, DiskIsExact, [Next]_qvars
  PROVE  DiskIsExact'
<1>1. CASE Send
  BY <1>1 DEF Send, DiskIsExact, Answers
<1>2. CASE Answer
  <2>1. UNCHANGED <<device, query, reply>> /\ stage = "sent"
    BY <1>2 DEF Answer
  <2>2. ASSUME Answers("Capacity")'
        PROVE  answer' = Value(IF device.blocks < Uint32 THEN device.blocks * device.size ELSE 0)
    <3>1. query.name = "Capacity" /\ reply.data # Zeroed /\ answer' # Error
      BY <2>1, <2>2 DEF Answers, Error
    <3>2. answer' = Decode(query, Data(device, query)) /\ device \in Disks
      BY <1>2, <2>1, <3>1, Answered DEF Sent, DiskQueries
    <3>3. QED
      BY <3>1, <3>2, CapacityOfDisk DEF Decode, Data
  <2>3. ASSUME Answers("SerialNumber")'
        PROVE  answer' \in {Panic, Value(device.serial)}
    <3>1. query.name = "SerialNumber" /\ reply.data # Zeroed /\ answer' # Error
      BY <2>1, <2>3 DEF Answers, Error
    <3>2. answer' = Decode(query, Data(device, query)) /\ device \in Disks
      BY <1>2, <2>1, <3>1, Answered DEF Sent, DiskQueries
    <3>3. QED
      BY <3>1, <3>2, SerialOfDisk DEF Decode, Data
  <2>4. QED
    BY <2>1, <2>2, <2>3 DEF DiskIsExact, Value, Panic
<1>3. CASE UNCHANGED qvars
  BY <1>3 DEF qvars, DiskIsExact, Answers, Value, Panic, Error
<1>4. QED
  BY <1>1, <1>2, <1>3 DEF Next

\* Capacity of a SCSI disk of any size returns the size, or 0 if it is beyond
\* READ CAPACITY (10); SerialNumber returns the whole number or panics.
THEOREM DisksAreExact == Spec => []DiskIsExact
<1>1. Init => Sent /\ DiskIsExact
  BY InitSent DEF Init, DiskIsExact, Answers
<1>2. Sent /\ DiskIsExact /\ [Next]_qvars => (Sent /\ DiskIsExact)'
  BY StepSent, StepDisk
<1>3. QED
  BY <1>1, <1>2, PTL DEF Spec
-----------------------------------------------------------------------------
(* Statistics, capacity and features of a SATA drive.                      *)

\* Which device a query is made of, kept with Sent.
Fits ==
  /\ device \in Disks \cup AtaDrives
  /\ stage = "sent" => (device \in Disks <=> query.name \in DiskQueries)
  /\ answer # Error => (device \in Disks <=> query.name \in DiskQueries)

LEMMA InitFits == Init => Fits
BY DEF Init, Fits

LEMMA StepFits ==
  ASSUME Fits, [Next]_qvars
  PROVE  Fits'
<1>1. CASE Send
  BY <1>1 DEF Send, Fits
<1>2. CASE Answer
  BY <1>2 DEF Answer, Fits
<1>3. CASE UNCHANGED qvars
  BY <1>3 DEF qvars, Fits, Error
<1>4. QED
  BY <1>1, <1>2, <1>3 DEF Next

\* Get on bytes: a statistic exactly where the flags inside the log say so.
LEMMA GetIsMarked ==
  ASSUME NEW log \in [0..LogLength - 1 -> 0..255], NEW offset \in Offsets,
         Get(log, offset).kind = "value"
  PROVE  Get(log, offset).value.ok <=>
           offset \in 0..LogLength - 8 /\ log[offset + 7] \in 192..255
<1>1. offset \in -(MaxInt + 1)..MaxInt /\ LogLength \in 0..MaxInt /\ MaxInt \in Nat
  BY QueriesAssumption
<1>2. CASE OutOfRange(offset)
  <2>1. Get(log, offset) = Value(Absent)
    BY <1>2 DEF Get
  <2>2. offset < 0 \/ offset + 8 > LogLength
    <3>1. CASE offset + 8 > MaxInt
      BY <1>1, <3>1
    <3>2. CASE ~(offset + 8 > MaxInt)
      BY <1>1, <1>2, <3>2 DEF OutOfRange, Wraps
    <3>3. QED
      BY <3>1, <3>2
  <2>3. QED
    BY <1>1, <2>1, <2>2 DEF Value, Absent
<1>3. CASE ~OutOfRange(offset) /\ offset + 8 > LogLength
  BY <1>3 DEF Get, Panic
<1>4. CASE ~OutOfRange(offset) /\ ~(offset + 8 > LogLength)
  <2>1. offset \in 0..LogLength - 8 /\ log[offset + 7] \in 0..255
    <3>1. offset \in Int /\ offset >= 0 /\ LogLength \in Int /\ offset + 8 <= LogLength
      BY <1>1, <1>4 DEF OutOfRange
    <3>2. offset \in 0..LogLength - 8 /\ offset + 7 \in 0..LogLength - 1
      BY <3>1
    <3>3. QED
      BY <3>1, <3>2
  <2>2. \A b \in 0..255 : IsPresent(b) <=> b \in 192..255
    BY DEF IsPresent
  <2>3. CASE IsPresent(log[offset + 7])
    <3>1. log[offset + 7] \in 192..255
      BY <1>1, <2>1, <2>2, <2>3
    <3>2. Get(log, offset).value.ok
      BY <1>4, <2>3 DEF Get, Value, Statistic
    <3>3. QED
      BY <2>1, <3>1, <3>2
  <2>4. CASE ~IsPresent(log[offset + 7])
    <3>1. log[offset + 7] \notin 192..255
      BY <1>1, <2>1, <2>2, <2>4
    <3>2. ~Get(log, offset).value.ok
      BY <1>4, <2>4 DEF Get, Value, Absent
    <3>3. QED
      BY <3>1, <3>2
  <2>5. QED
    BY <2>3, <2>4
<1>5. QED
  BY <1>2, <1>3, <1>4

LEMMA TwoHalves == ASSUME NEW n \in Nat, n % 2 = 0 PROVE 2 * (n \div 2) = n
OBVIOUS

\* The sectors that Capacity finds are those the drive has.
LEMMA SectorsOfDrive ==
  ASSUME NEW d, WellFormed(d), d.lba
  PROVE  /\ LogicalSize(IdentifyData(d)) = d.logical
         /\ Sectors(IdentifyData(d)) = d.sectors
         /\ d.sectors = 0 <=> IdentifyData(d).CapacityLba28 = 0 /\ Lba48(IdentifyData(d)) = 0
<1> DEFINE i == IdentifyData(d)
<1>1. LogicalSize(i) = d.logical
  <2>1. d.logical \in Nat /\ d.logical >= 512 /\ 2 * (d.logical \div 2) = d.logical
    BY TwoHalves DEF WellFormed
  <2>2. (12 \in i.LogicalPerPhysicalSectors.bits) <=> d.logical # 512
    BY DEF IdentifyData
  <2>3. i.LogicalSectorSize = IF d.logical = 512 THEN 0 ELSE d.logical \div 2
    BY DEF IdentifyData
  <2>4. QED
    BY <2>1, <2>2, <2>3 DEF LogicalSize
<1>2. i.CapacityLba28 = Word28(d)
  BY DEF IdentifyData
<1>3. Lba48(i) = IF "lba48" \in d.features THEN d.sectors ELSE 0
  <2>1. 10 \in i.CommandsSupported2 <=> "lba48" \in d.features
    BY DEF IdentifyData, Having
  <2>2. "lba48" \in d.features => i.CapacityLba48 = d.sectors
    BY DEF IdentifyData
  <2>3. QED
    BY <2>1, <2>2 DEF Lba48
<1>4. /\ d.sectors \in Nat /\ d.bogus \in Nat /\ d.logical \in Nat /\ Lba28Max \in Nat
      /\ "lba48" \notin d.features => d.sectors <= Lba28Max /\ d.bogus = 0
      /\ d.bogus # 0 => d.sectors # 0 /\ d.logical > 512
  BY Lba28Assumption DEF WellFormed
<1>5. CASE "lba48" \in d.features
  <2>1. Lba48(i) = d.sectors
    BY <1>3, <1>5
  <2>2. CASE d.bogus = 0
    BY <1>1, <1>2, <1>4, <2>1, <2>2 DEF Sectors, Word28
  <2>3. CASE d.bogus # 0
    BY <1>1, <1>2, <1>4, <2>1, <2>3 DEF Sectors, Word28
  <2>4. QED
    BY <2>2, <2>3
<1>6. CASE "lba48" \notin d.features
  <2>1. Word28(d) = d.sectors
    BY <1>4, <1>6 DEF Word28
  <2>2. QED
    BY <1>1, <1>2, <1>3, <1>4, <1>6, <2>1 DEF Sectors
<1>7. QED
  BY <1>5, <1>6

LEMMA CapacityOfDrive ==
  ASSUME NEW d \in AtaDrives
  PROVE  Capacity(IdentifyData(d)) = TrueCapacity(d)
<1> DEFINE i == IdentifyData(d)
<1>1. WellFormed(d)
  BY DrivesAssumption
<1>2. CASE ~d.lba
  BY <1>2 DEF Capacity, TrueCapacity, IdentifyData
<1>3. CASE d.lba
  <2>1. 9 \in i.Capabilities
    BY <1>3 DEF IdentifyData
  <2>2. LogicalSize(i) = d.logical /\ Sectors(i) = d.sectors
    BY <1>1, <1>3, SectorsOfDrive
  <2>3. d.sectors = 0 <=> i.CapacityLba28 = 0 /\ Lba48(i) = 0
    BY <1>1, <1>3, SectorsOfDrive
  <2>4. i.LogicalSectorOffset % 16384 = d.offset
    <3>1. d.offset \in Nat /\ d.offset < 16384
      BY <1>1 DEF WellFormed
    <3>2. (16384 + d.offset) % 16384 = d.offset
      BY <3>1
    <3>3. i.LogicalSectorOffset = 16384 + d.offset
      BY DEF IdentifyData
    <3>4. QED
      BY <3>2, <3>3
  <2>5. PhysicalSize(i) = d.logical * 2 ^ d.exponent
    <3>1. 13 \in i.LogicalPerPhysicalSectors.bits <=> d.exponent # 0
      BY DEF IdentifyData
    <3>2. i.LogicalPerPhysicalSectors.exponent = d.exponent
      BY DEF IdentifyData
    <3>3. 2 ^ 0 = 1
      OBVIOUS
    <3>4. QED
      BY <2>2, <3>1, <3>2, <3>3 DEF PhysicalSize
  <2>6. QED
    BY <1>3, <2>1, <2>2, <2>3, <2>4, <2>5 DEF Capacity, TrueCapacity
<1>4. QED
  BY <1>1, <1>2, <1>3 DEF WellFormed

\* A word the drive does not implement has no valid signature.
LEMMA WordOfFlags ==
  ASSUME NEW d, WellFormed(d), NEW word, NEW bits
  PROVE  /\ word \in d.words => Flags(d, word, bits) = {14} \cup bits
         /\ isWordSignatureValid(Flags(d, word, bits)) <=> word \in d.words /\ 15 \notin bits
<1>1. CASE word \in d.words
  BY <1>1 DEF Flags, isWordSignatureValid
<1>2. CASE word \notin d.words
  BY <1>2 DEF WellFormed, Flags, isWordSignatureValid, Bits
<1>3. QED
  BY <1>1, <1>2

LEMMA FeaturesOfDrive ==
  ASSUME NEW d \in AtaDrives
  PROVE  Features(IdentifyData(d)) = d.features \ {"lba48"}
<1> DEFINE i == IdentifyData(d)
<1>1. WellFormed(d)
  BY DrivesAssumption
<1>2. IsGeneralPurposeLoggingCapable(i) <=> "gpl" \in d.features
  <2>1. /\ i.CommandsSupported3 = Flags(d, 84, Having(d, "gpl", 5) \cup Having(d, "unload", 13))
        /\ i.CommandsEnabled3 = Flags(d, 87, Having(d, "gpl", 5))
    BY DEF IdentifyData
  <2>2. 15 \notin Having(d, "gpl", 5) \cup Having(d, "unload", 13) /\ 15 \notin Having(d, "gpl", 5)
    BY DEF Having
  <2>3. /\ isWordSignatureValid(i.CommandsSupported3) <=> 84 \in d.words
        /\ isWordSignatureValid(i.CommandsEnabled3) <=> 87 \in d.words
        /\ 84 \in d.words => (5 \in i.CommandsSupported3 <=> "gpl" \in d.features)
        /\ 87 \in d.words => (5 \in i.CommandsEnabled3 <=> "gpl" \in d.features)
    BY <1>1, <2>1, <2>2, WordOfFlags DEF Having
  <2>4. "gpl" \in d.features => 84 \in d.words \/ 87 \in d.words
    BY <1>1 DEF WellFormed
  <2>5. QED
    BY <2>3, <2>4 DEF IsGeneralPurposeLoggingCapable
<1>3. UnloadSupported(i) <=> "unload" \in d.features
  <2>1. i.CommandsSupported3 = Flags(d, 84, Having(d, "gpl", 5) \cup Having(d, "unload", 13))
    BY DEF IdentifyData
  <2>2. 15 \notin Having(d, "gpl", 5) \cup Having(d, "unload", 13)
    BY DEF Having
  <2>3. /\ isWordSignatureValid(i.CommandsSupported3) <=> 84 \in d.words
        /\ 84 \in d.words => (13 \in i.CommandsSupported3 <=> "unload" \in d.features)
    BY <1>1, <2>1, <2>2, WordOfFlags DEF Having
  <2>4. QED
    BY <1>1, <2>3 DEF UnloadSupported, WellFormed
<1>4. /\ EpcSupported(i) <=> "epc" \in d.features
      /\ EpcEnabled(i) <=> "epcOn" \in d.features
  <2>1. /\ i.CommandsSupported4 = Flags(d, 119, Having(d, "epc", 7))
        /\ i.CommandsEnabled4 = Flags(d, 119, Having(d, "epcOn", 7))
        /\ 15 \in i.CommandsEnabled2 <=> 119 \in d.words
    BY DEF IdentifyData, Having
  <2>2. 15 \notin Having(d, "epc", 7) /\ 15 \notin Having(d, "epcOn", 7)
    BY DEF Having
  <2>3. /\ isWordSignatureValid(i.CommandsSupported4) <=> 119 \in d.words
        /\ isWordSignatureValid(i.CommandsEnabled4) <=> 119 \in d.words
        /\ 119 \in d.words => (7 \in i.CommandsSupported4 <=> "epc" \in d.features)
        /\ 119 \in d.words => (7 \in i.CommandsEnabled4 <=> "epcOn" \in d.features)
    BY <1>1, <2>1, <2>2, WordOfFlags DEF Having
  <2>4. QED
    BY <1>1, <2>1, <2>3 DEF EpcSupported, EpcEnabled, WellFormed
<1>5. /\ ApmSupported(i) <=> "apm" \in d.features
      /\ ApmEnabled(i) <=> "apmOn" \in d.features
  BY DEF ApmSupported, ApmEnabled, isWordSignatureValid, IdentifyData, Having
<1>6. d.features \subseteq {"lba48", "gpl", "epc", "epcOn", "apm", "apmOn", "unload"}
  BY <1>1 DEF WellFormed
<1>7. \A f : f \in Features(i) <=> f \in d.features \ {"lba48"}
  <2>0. Features(i) \subseteq {"gpl", "epc", "epcOn", "apm", "apmOn", "unload"}
    BY DEF Features
  <2> SUFFICES ASSUME NEW f \in {"gpl", "epc", "epcOn", "apm", "apmOn", "unload"}
               PROVE  f \in Features(i) <=> f \in d.features
    BY <1>6, <2>0
  <2>1. CASE f = "gpl"
    BY <1>2, <2>1 DEF Features
  <2>2. CASE f = "unload"
    BY <1>3, <2>2 DEF Features
  <2>3. CASE f \in {"epc", "epcOn"}
    BY <1>4, <2>3 DEF Features
  <2>4. CASE f \in {"apm", "apmOn"}
    BY <1>5, <2>4 DEF Features
  <2>5. QED
    BY <2>1, <2>2, <2>3, <2>4
<1>8. QED
  BY <1>7

-----------------------------------------------------------------------------
(* What a query makes of a buffer that nothing was read into.              *)

LEMMA NothingRead ==
  ASSUME NEW q \in Queries, Decode(q, ZeroBuffer(q)).kind = "value"
  PROVE  /\ q.name # "SerialNumber"
         /\ Decode(q, ZeroBuffer(q)) = Value(
              CASE q.name = "Capacity"  -> 0
                [] q.name = "Statistic" -> Absent
                [] q.name = "Identify"  -> Unknown
                [] q.name = "Features"  -> {})
<1>1. CASE q.name = "Capacity"
  <2>1. (0 + 1) % Uint32 \in Int
    BY QueriesAssumption
  <2>2. ((0 + 1) % Uint32) * 0 = 0
    BY <2>1
  <2>3. QED
    BY <1>1, <2>2 DEF Decode, ZeroBuffer, ScsiCapacity
<1>2. CASE q.name = "SerialNumber"
  BY <1>2 DEF Decode, ZeroBuffer, SerialNumber, Error
<1>3. CASE q.name = "Statistic"
  <2>1. q.offset \in Offsets
    BY <1>3 DEF Queries
  <2>2. Decode(q, ZeroBuffer(q)) = Get([n \in 0..LogLength - 1 |-> 0], q.offset)
    BY <1>3 DEF Decode, ZeroBuffer
  <2>3. CASE OutOfRange(q.offset)
    BY <1>3, <2>2, <2>3 DEF Get
  <2>4. CASE ~OutOfRange(q.offset) /\ q.offset + 8 > LogLength
    BY <2>2, <2>4 DEF Get, Panic
  <2>5. CASE ~OutOfRange(q.offset) /\ ~(q.offset + 8 > LogLength)
    <3>1. q.offset + 7 \in 0..LogLength - 1
      <4>1. /\ MaxInt \in Nat /\ LogLength \in 0..MaxInt
            /\ q.offset \in -(MaxInt + 1)..MaxInt
        BY <2>1, QueriesAssumption, Zenon
      <4>2. q.offset >= 0 /\ q.offset + 8 <= LogLength
        BY <2>5, <4>1 DEF OutOfRange
      <4>3. QED
        BY <4>1, <4>2
    <3>2. ~IsPresent([n \in 0..LogLength - 1 |-> 0][q.offset + 7])
      BY <3>1 DEF IsPresent
    <3>3. QED
      BY <1>3, <2>2, <2>5, <3>2 DEF Get
  <2>6. QED
    BY <2>3, <2>4, <2>5
<1>4. CASE q.name = "Identify"
  BY <1>4 DEF Decode, ZeroBuffer, Capacity, NoIdentification
<1>5. CASE q.name = "Features"
  <2>1. Features(NoIdentification) = {}
    BY DEF Features, NoIdentification, isWordSignatureValid, IsGeneralPurposeLoggingCapable,
           EpcSupported, EpcEnabled, ApmSupported, ApmEnabled, UnloadSupported
  <2>2. QED
    BY <1>5, <2>1 DEF Decode, ZeroBuffer
<1>6. QED
  BY <1>1, <1>2, <1>3, <1>4, <1>5 DEF Queries

-----------------------------------------------------------------------------
(* The same of the states of a query.                                      *)

\* A decoded answer to one of a drive's queries is decoded from its data.
LEMMA AnsweredByDrive ==
  ASSUME Sent, Fits, Answer, NEW name, name \notin DiskQueries, Answers(name)'
  PROVE  query.name = name /\ device \in AtaDrives /\ answer' = Decode(query, Data(device, query))
<1>1. UNCHANGED <<device, query, reply>> /\ stage = "sent"
  BY DEF Answer
<1>2. query.name = name /\ reply.data # Zeroed /\ answer' # Error
  BY <1>1 DEF Answers, Error
<1>3. answer' = Decode(query, Data(device, query))
  BY <1>2, Answered
<1>4. device \in AtaDrives
  BY <1>1, <1>2 DEF Fits
<1>5. QED
  BY <1>2, <1>3, <1>4

AtaAnswers == AtaCapacityIsExact /\ FeaturesAreTrue /\ StatisticsAreMarked

LEMMA StepAta ==
  ASSUME Sent, Fits, AtaAnswers, [Next]_qvars
  PROVE  AtaAnswers'
<1>1. CASE Send
  BY <1>1 DEF Send, AtaAnswers, AtaCapacityIsExact, FeaturesAreTrue, StatisticsAreMarked, Answers
<1>2. CASE Answer
  <2>1. UNCHANGED <<device, query>>
    BY <1>2 DEF Answer
  <2>2. AtaCapacityIsExact'
    <3> SUFFICES ASSUME Answers("Identify")' PROVE answer' = Value(TrueCapacity(device'))
      BY DEF AtaCapacityIsExact, Value, TrueCapacity, Unknown
    <3>1. query.name = "Identify" /\ device \in AtaDrives /\ answer' = Decode(query, Data(device, query))
      BY <1>2, AnsweredByDrive DEF DiskQueries
    <3>2. QED
      BY <2>1, <3>1, CapacityOfDrive DEF Decode, Data
  <2>3. FeaturesAreTrue'
    <3> SUFFICES ASSUME Answers("Features")' PROVE answer' = Value(device'.features \ {"lba48"})
      BY DEF FeaturesAreTrue, Value
    <3>1. query.name = "Features" /\ device \in AtaDrives /\ answer' = Decode(query, Data(device, query))
      BY <1>2, AnsweredByDrive DEF DiskQueries
    <3>2. QED
      BY <2>1, <3>1, FeaturesOfDrive DEF Decode, Data
  <2>4. StatisticsAreMarked'
    <3> SUFFICES ASSUME Answers("Statistic")', answer'.kind = "value"
                 PROVE  answer'.value.ok <=> /\ query.offset \in 0..LogLength - 8
                                             /\ device.log[query.offset + 7] \in 192..255
      BY <2>1 DEF StatisticsAreMarked
    <3>1. query.name = "Statistic" /\ device \in AtaDrives /\ answer' = Decode(query, Data(device, query))
      BY <1>2, AnsweredByDrive DEF DiskQueries
    <3>2. answer' = Get(device.log, query.offset)
      BY <3>1 DEF Decode, Data
    <3>3. query.offset \in Offsets
      BY <3>1 DEF Sent, Queries
    <3>4. device.log \in [0..LogLength - 1 -> 0..255]
      BY <3>1, QueriesAssumption
    <3>5. Get(device.log, query.offset).kind = "value"
      BY <3>2
    <3>6. Get(device.log, query.offset).value.ok <=>
            /\ query.offset \in 0..LogLength - 8
            /\ device.log[query.offset + 7] \in 192..255
      BY <3>3, <3>4, <3>5, GetIsMarked
    <3>7. QED
      BY <3>2, <3>6
  <2>5. QED
    BY <2>2, <2>3, <2>4 DEF AtaAnswers
<1>3. CASE UNCHANGED qvars
  BY <1>3 DEF qvars, AtaAnswers, AtaCapacityIsExact, FeaturesAreTrue, StatisticsAreMarked, Answers,
             Value, Error, TrueCapacity, Unknown
<1>4. QED
  BY <1>1, <1>2, <1>3 DEF Next

LEMMA AtaInvariance == Spec => []AtaAnswers
<1>1. Init => Sent /\ Fits /\ AtaAnswers
  BY InitSent, InitFits DEF Init, AtaAnswers, AtaCapacityIsExact, FeaturesAreTrue, StatisticsAreMarked,
                            Answers
<1>2. Sent /\ Fits /\ AtaAnswers /\ [Next]_qvars => (Sent /\ Fits /\ AtaAnswers)'
  BY StepSent, StepFits, StepAta
<1>3. QED
  BY <1>1, <1>2, PTL DEF Spec

\* AtaIdentifyDevice.Capacity (src/sata.go) finds the size of every drive that
\* is well formed, however large and whichever of its two counts is bogus.
THEOREM DrivesAreMeasured == Spec => []AtaCapacityIsExact
<1>1. AtaAnswers => AtaCapacityIsExact
  BY DEF AtaAnswers
<1>2. QED
  BY <1>1, AtaInvariance, PTL

\* The feature tests of src/sata.go report the features of every well formed
\* drive, whichever of the words it implements.
THEOREM FeaturesAreReported == Spec => []FeaturesAreTrue
<1>1. AtaAnswers => FeaturesAreTrue
  BY DEF AtaAnswers
<1>2. QED
  BY <1>1, AtaInvariance, PTL

\* For logs of any length and content and offsets of any width, Get
\* (src/sata.go) returns the statistics marked valid inside the log.
THEOREM StatisticsAreInside == Spec => []StatisticsAreMarked
<1>1. AtaAnswers => StatisticsAreMarked
  BY DEF AtaAnswers
<1>2. QED
  BY <1>1, AtaInvariance, PTL

LEMMA StepNothing ==
  ASSUME Sent, NothingInvented, [Next]_qvars
  PROVE  NothingInvented'
<1>1. CASE Send
  BY <1>1 DEF Send, NothingInvented
<1>2. CASE Answer
  <2>1. UNCHANGED <<device, query, reply>> /\ query \in Queries
    BY <1>2 DEF Answer, Sent
  <2> SUFFICES ASSUME reply.data = Zeroed, answer'.kind = "value"
               PROVE  /\ query.name # "SerialNumber"
                      /\ answer' = Value(
                           CASE query.name = "Capacity"  -> 0
                             [] query.name = "Statistic" -> Absent
                             [] query.name = "Identify"  -> Unknown
                             [] query.name = "Features"  -> {})
    BY <2>1 DEF NothingInvented, Value, Unknown, Absent
  <2>2. answer' = Decode(query, ZeroBuffer(query))
    BY <1>2, Answered DEF Error
  <2>3. QED
    BY <2>1, <2>2, NothingRead
<1>3. CASE UNCHANGED qvars
  BY <1>3 DEF qvars, NothingInvented, Value, Unknown, Absent
<1>4. QED
  BY <1>1, <1>2, <1>3 DEF Next

\* A command that the device rejected, which scsiSendCdb takes for a success
\* (src/scsi_linux.go), makes no query return a size, a statistic or a feature.
THEOREM RejectionsAnswerNothing == Spec => []NothingInvented
<1>1. Init => Sent /\ NothingInvented
  BY InitSent DEF Init, NothingInvented, Error
<1>2. Sent /\ NothingInvented /\ [Next]_qvars => (Sent /\ NothingInvented)'
  BY StepSent, StepNothing
<1>3. QED
  BY <1>1, <1>2, PTL DEF Spec
=============================================================================
