------------------------- MODULE SmartAttributesProofs -------------------------
(***************************************************************************)
(* What holds of ReadSMARTData, ReadSMARTThresholds and ReadGeneric-       *)
(* Attributes for every drive, every database, tables of any number of     *)
(* entries and any readings.  The recursive sum of a checksum is reasoned  *)
(* about by the induction of SenseAnswerProofs.  At the end, what holds of *)
(* the database that DatabaseGenerator writes for them, for every          *)
(* drivedb.h.                                                              *)
(***************************************************************************)
EXTENDS SmartAttributes, DatabaseGenerator, SenseAnswerProofs, TLAPS

-----------------------------------------------------------------------------
(* Ranges of temperatures.                                                 *)

IsPlausible(t) ==
  \/ t.lo = 0 /\ t.hi = 0
  \/ -60 <= t.lo /\ t.lo <= t.val /\ t.val <= t.hi /\ t.hi <= 120

\* A range that checkTempRange has let through lies around its temperature.
LEMMA RangedPlausible ==
  ASSUME NEW t, NEW t1, NEW t2, NEW n, checkTempRange(t, t1, t2).ok
  PROVE  IsPlausible(Ranged(t, checkTempRange(t, t1, t2), n))
BY DEF checkTempRange, Plausible, Ranged, IsPlausible

\* Whatever form TempMinMax takes six bytes for, the range is plausible.
LEMMA MinMaxPlausible ==
  ASSUME NEW raw
  PROVE  IsPlausible(TempMinMax(raw))
<1> DEFINE b(i)  == Int8(raw[i + 1])
           range(i, j) == checkTempRange(b(0), b(i), b(j))
<1>1. \A v : IsPlausible(Temperature(v))
  BY DEF IsPlausible, Temperature
<1>2. \A i, j, n : range(i, j).ok => IsPlausible(Ranged(b(0), range(i, j), n))
  BY RangedPlausible
<1>3. \/ TempMinMax(raw) = Temperature(b(0))
      \/ range(2, 3).ok /\ TempMinMax(raw) = Ranged(b(0), range(2, 3), 0)
      \/ range(1, 2).ok /\ TempMinMax(raw) = Ranged(b(0), range(1, 2), 0)
      \/ range(2, 4).ok /\ TempMinMax(raw) = Ranged(b(0), range(2, 4), 0)
      \/ range(2, 3).ok /\ TempMinMax(raw) = Ranged(b(0), range(2, 3), Word(raw, 2))
  BY DEF TempMinMax
<1> HIDE DEF range, b
<1> QED
  BY <1>1, <1>2, <1>3

\* ParseAsTemperature of any attribute.
LEMMA ParsedPlausible ==
  ASSUME NEW attr
  PROVE  IsPlausible(ParseAsTemperature(attr))
<1>1. CASE attr.type = "Temp10X"
  BY <1>1 DEF ParseAsTemperature, IsPlausible, Temperature
<1>2. CASE attr.type = "TempMinMax"
  BY <1>2, MinMaxPlausible DEF ParseAsTemperature
<1>3. CASE attr.type \notin {"Temp10X", "TempMinMax"}
  BY <1>3 DEF ParseAsTemperature, IsPlausible, NoTemperature
<1> QED
  BY <1>1, <1>2, <1>3

\* Whatever ParseAsTemperature guesses about an attribute (src/sata.go, the overlapping
\* forms of TempMinMax), the range it returns lies around the temperature.
THEOREM RangesArePlausible == Spec => []RangesPlausible
<1>1. RangesPlausible
  BY ParsedPlausible DEF RangesPlausible, IsPlausible
<1> QED
  BY <1>1, PTL

-----------------------------------------------------------------------------
(* The loops.                                                              *)

\* Where a call is says what it has so far.
Calls ==
  /\ pc \in {"idle", "ioctl", "table", "generic"}
  /\ pc # "idle" => result = Refused
  /\ pc = "ioctl" => attrs = Empty /\ slot = 1
  /\ pc \in {"ioctl", "table"} => generic = Nothing
  /\ pc = "generic" => op = "ReadGenericAttributes" /\ todo \subseteq DOMAIN attrs
  /\ DOMAIN generic = Fields

\* The loop over the table: attrs is what the entries before slot say.
Before == 1..slot - 1

Walk ==
  pc = "table" =>
    /\ slot \in 1..Slots + 1
    /\ \A i \in Before : got.slots[i].id # 0
    /\ DOMAIN attrs = {got.slots[i].id : i \in Before}
    /\ \A i \in Before :
         (\A j \in Before : got.slots[j].id = got.slots[i].id => j <= i)
           => attrs[got.slots[i].id] = Kept(op, got.slots[i])

\* The loop over the map: generic is what the visited attributes say, and none
\* of them is a temperature of another type.
Visits == DOMAIN attrs \ todo
SaidOf(ids, n) == {Says(attrs[id]) : id \in {i \in ids : Field(attrs[i]) = n}}

Round ==
  pc = "generic" =>
    /\ \A id \in Visits : ~IsNoTemperature(attrs[id])
    /\ \A n \in Fields : IF SaidOf(Visits, n) = {} THEN generic[n] = Zero
                         ELSE generic[n] \in SaidOf(Visits, n)

AInv == Calls /\ Walk /\ Round /\ TableDecoded /\ GenericAnswers /\ FailsInAnyOrder

\* A field of Picked is what the attribute says, or what it was.
LEMMA PickedField ==
  ASSUME NEW g, DOMAIN g = Fields, NEW attr, NEW n \in Fields
  PROVE  /\ DOMAIN Picked(g, attr) = Fields
         /\ Picked(g, attr)[n] = IF Field(attr) = n THEN Says(attr) ELSE g[n]
<1>1. "none" \notin Fields
  BY DEF Fields
<1> QED
  BY <1>1 DEF Picked

\* The initial states.
LEMMA AInitially == Init => AInv
<1> SUFFICES ASSUME Init PROVE AInv
  OBVIOUS
<1> USE DEF Init
<1>1. Calls
  BY DEF Calls, Nothing
<1>2. Walk /\ Round
  BY DEF Walk, Round
<1>3. TableDecoded /\ GenericAnswers /\ FailsInAnyOrder
  BY DEF TableDecoded, GenericAnswers, FailsInAnyOrder, Returned, Refused
<1> QED
  BY <1>1, <1>2, <1>3 DEF AInv

\* Every step keeps Calls.
LEMMA CallsStep == AInv /\ [Next]_vars => Calls'
<1> SUFFICES ASSUME Calls, [Next]_vars PROVE Calls'
  BY DEF AInv
<1> USE DEF Calls
<1>1. ASSUME NEW o \in Ops, Request(o) PROVE Calls'
  BY <1>1 DEF Request, Nothing
<1>2. CASE Transfer
  BY <1>2 DEF Transfer, Return, device
<1>3. CASE Decode
  BY <1>3 DEF Decode, device
<1>4. CASE Decoded
  BY <1>4 DEF Decoded, Return, device, Fields, Nothing
<1>5. CASE Visit
  <2>1. PICK id \in todo :
           \/ Return(Refused) /\ todo' = todo \ {id}
           \/ /\ todo' = todo \ {id} /\ generic' = Picked(generic, attrs[id])
              /\ UNCHANGED <<pc, op, attrs, slot, result>>
    BY <1>5 DEF Visit, device
  <2>2. DOMAIN Picked(generic, attrs[id]) = Fields
    BY PickedField DEF Fields
  <2> QED
    BY <1>5, <2>1, <2>2 DEF Visit, Return
<1>6. CASE Visited
  BY <1>6 DEF Visited, Return, device
<1>7. CASE UNCHANGED vars
  BY <1>7 DEF vars
<1> QED
  BY <1>1, <1>2, <1>3, <1>4, <1>5, <1>6, <1>7 DEF Next

\* What an entry says depends on the mapping alone, which no call changes.
LEMMA KeptSame ==
  ASSUME UNCHANGED device, NEW o, NEW e
  PROVE  Kept(o, e)' = Kept(o, e)
BY DEF Kept, Attribute, device

\* Every step keeps Walk.
LEMMA WalkStep == AInv /\ [Next]_vars => Walk'
<1> SUFFICES ASSUME Calls, Walk, [Next]_vars PROVE Walk'
  BY DEF AInv
<1>1. CASE Transfer
  <2> SUFFICES ASSUME pc' = "table" PROVE Walk'
    BY DEF Walk
  <2>1. slot' = 1 /\ attrs' = Empty
    BY <1>1 DEF Transfer, Return, Calls
  <2> QED
    BY <2>1, AttributesAssumption DEF Walk, Before, Empty
<1>2. CASE Decode
  <2> DEFINE e == got.slots[slot]
  <2>1. /\ pc = "table" /\ slot <= Slots /\ e.id # 0
        /\ attrs' = [id \in DOMAIN attrs \cup {e.id} |-> IF id = e.id THEN Kept(op, e) ELSE attrs[id]]
        /\ slot' = slot + 1 /\ got' = got /\ op' = op /\ UNCHANGED device
    BY <1>2 DEF Decode, HasEntry
  <2>2. slot \in 1..Slots + 1 /\ Slots \in Nat
    BY <2>1, AttributesAssumption DEF Walk
  <2>3. Before' = Before \cup {slot} /\ slot \notin Before /\ Before \subseteq Int
    BY <2>1, <2>2 DEF Before
  <2>4. slot' \in 1..Slots + 1
    BY <2>1, <2>2
  <2>5. DOMAIN attrs' = {got.slots[i].id : i \in Before'}
    BY <2>1, <2>3 DEF Walk
  <2>6. \A i \in Before' : got.slots[i].id # 0
    BY <2>1, <2>3 DEF Walk
  <2>7. ASSUME NEW i \in Before', \A j \in Before' : got.slots[j].id = got.slots[i].id => j <= i
        PROVE  attrs'[got.slots[i].id] = Kept(op, got.slots[i])
    <3>1. CASE i = slot
      BY <2>1, <3>1
    <3>2. CASE i # slot
      <4>1. i \in Before /\ i < slot
        BY <3>2, <2>2, <2>3 DEF Before
      <4>2. got.slots[i].id # e.id
        <5>1. slot \in Before' /\ ~(slot <= i)
          BY <2>2, <2>3, <4>1
        <5> QED
          BY <5>1, <2>7
      <4>3. attrs[got.slots[i].id] = Kept(op, got.slots[i])
        BY <2>1, <2>3, <2>7, <4>1 DEF Walk
      <4> QED
        BY <2>1, <4>1, <4>2, <4>3 DEF Walk
    <3> QED
      BY <3>1, <3>2
  <2>8. \A o, x : Kept(o, x)' = Kept(o, x)
    BY <2>1, KeptSame
  <2> QED
    BY <2>1, <2>4, <2>5, <2>6, <2>7, <2>8 DEF Walk
<1>3. CASE UNCHANGED vars
  <2>1. \A o, x : Kept(o, x)' = Kept(o, x)
    BY <1>3, KeptSame DEF vars, device
  <2> QED
    BY <1>3, <2>1 DEF vars, Walk, Before
<1>4. CASE \/ \E o \in Ops : Request(o)
           \/ Decoded \/ Visit \/ Visited
  BY <1>4 DEF Walk, Request, Decoded, Visit, Visited, Return
<1> QED
  BY <1>1, <1>2, <1>3, <1>4 DEF Next

\* Every step keeps TableDecoded: when the loop over the table ends, all
\* entries before the first one without an id have been visited.
LEMMA DecodedStep == AInv /\ [Next]_vars => TableDecoded'
<1> SUFFICES ASSUME Calls, Walk, TableDecoded, [Next]_vars PROVE TableDecoded'
  BY DEF AInv
<1>1. CASE Decoded /\ op # "ReadGenericAttributes"
  <2>1. /\ pc = "table" /\ ~HasEntry(got, slot)
        /\ result' = Answer(attrs) /\ got' = got /\ op' = op /\ UNCHANGED device
    BY <1>1 DEF Decoded, Return, device
  <2>2. slot \in 1..Slots + 1 /\ Slots \in Nat
    BY <2>1, AttributesAssumption DEF Walk
  <2>3. ASSUME NEW i \in 1..Slots PROVE i \in Before <=> \A j \in 1..i : got.slots[j].id # 0
    BY <2>1, <2>2 DEF Before, HasEntry, Walk
  <2>4. Listed' = Before
    BY <2>1, <2>2, <2>3 DEF Listed, Before
  <2>5. \A o, x : Kept(o, x)' = Kept(o, x)
    BY <2>1, KeptSame
  <2> QED
    BY <2>1, <2>4, <2>5 DEF TableDecoded, Returned, Answer, Walk
<1>2. CASE Transfer \/ Visit \/ Visited \/ (Decoded /\ op = "ReadGenericAttributes")
  BY <1>2 DEF Transfer, Visit, Visited, Decoded, Return, TableDecoded, Returned, Refused, Calls
<1>3. CASE UNCHANGED vars
  <2>1. /\ \A o, x : Kept(o, x)' = Kept(o, x)
        /\ Listed' = Listed
    BY <1>3, KeptSame DEF vars, device, Listed
  <2> QED
    BY <1>3, <2>1 DEF vars, TableDecoded, Returned
<1>4. CASE Decode \/ \E o \in Ops : Request(o)
  BY <1>4 DEF Decode, Request, TableDecoded, Returned
<1> QED
  BY <1>1, <1>2, <1>3, <1>4 DEF Next

-----------------------------------------------------------------------------
(* The order of the map.                                                   *)

\* One more attribute has been visited: the fields are what the visited ones
\* say, if they have been before.
LEMMA OneMore ==
  ASSUME NEW S, NEW id, NEW g, DOMAIN g = Fields, NEW n \in Fields,
         IF SaidOf(S, n) = {} THEN g[n] = Zero ELSE g[n] \in SaidOf(S, n)
  PROVE  LET said == SaidOf(S \cup {id}, n)
             h    == Picked(g, attrs[id])
         IN  IF said = {} THEN h[n] = Zero ELSE h[n] \in said
<1>1. Picked(g, attrs[id])[n] = IF Field(attrs[id]) = n THEN Says(attrs[id]) ELSE g[n]
  BY PickedField
<1>2. CASE Field(attrs[id]) = n
  <2>1. Says(attrs[id]) \in SaidOf(S \cup {id}, n)
    BY <1>2 DEF SaidOf
  <2> QED
    BY <1>1, <1>2, <2>1
<1>3. CASE Field(attrs[id]) # n
  <2>1. SaidOf(S \cup {id}, n) = SaidOf(S, n)
    BY <1>3 DEF SaidOf
  <2> QED
    BY <1>1, <1>3, <2>1
<1> QED
  BY <1>2, <1>3

\* Every step keeps Round.
LEMMA RoundStep == AInv /\ [Next]_vars => Round'
<1> SUFFICES ASSUME Calls, Round, [Next]_vars PROVE Round'
  BY DEF AInv
<1>1. CASE Decoded
  <2> SUFFICES ASSUME pc' = "generic" PROVE Round'
    BY DEF Round
  <2>1. pc = "table" /\ todo' = DOMAIN attrs /\ attrs' = attrs /\ generic' = generic
    BY <1>1 DEF Decoded, Return
  <2>2. Visits' = {} /\ generic' = Nothing
    BY <2>1 DEF Visits, Calls
  <2> QED
    BY <2>2 DEF Round, SaidOf, Nothing
<1>2. CASE Visit
  <2> SUFFICES ASSUME pc' = "generic" PROVE Round'
    BY DEF Round
  <2>1. PICK id \in todo :
           /\ pc = "generic" /\ ~IsNoTemperature(attrs[id])
           /\ todo' = todo \ {id} /\ attrs' = attrs
           /\ generic' = Picked(generic, attrs[id])
    BY <1>2 DEF Visit, Return, GivesUp
  <2>2. Visits' = Visits \cup {id}
    BY <2>1 DEF Visits, Calls
  <2>3. \A i \in Visits' : ~IsNoTemperature(attrs'[i])
    BY <2>1, <2>2 DEF Round
  <2>4. ASSUME NEW n \in Fields
        PROVE  IF SaidOf(Visits \cup {id}, n) = {} THEN generic'[n] = Zero
               ELSE generic'[n] \in SaidOf(Visits \cup {id}, n)
    <3>1. IF SaidOf(Visits, n) = {} THEN generic[n] = Zero ELSE generic[n] \in SaidOf(Visits, n)
      BY <2>1 DEF Round
    <3> QED
      BY <2>1, <3>1, OneMore DEF Calls
  <2> QED
    BY <2>1, <2>2, <2>3, <2>4 DEF Round, SaidOf
<1>3. CASE UNCHANGED vars
  BY <1>3 DEF vars, Round, Visits, SaidOf
<1>4. CASE \/ \E o \in Ops : Request(o)
           \/ Transfer \/ Decode \/ Visited
  BY <1>4 DEF Request, Transfer, Decode, Visited, Return, Round
<1> QED
  BY <1>1, <1>2, <1>3, <1>4 DEF Next

\* Every step keeps what ReadGenericAttributes promises of its answers.
LEMMA AnswersStep == AInv /\ [Next]_vars => GenericAnswers' /\ FailsInAnyOrder'
<1> SUFFICES ASSUME Calls, Round, GenericAnswers, FailsInAnyOrder, [Next]_vars
             PROVE  GenericAnswers' /\ FailsInAnyOrder'
  BY DEF AInv
<1>1. CASE Visited
  <2>1. /\ op' = op /\ attrs' = attrs /\ result' = Answer(generic)
        /\ Visits = DOMAIN attrs /\ pc = "generic"
    BY <1>1 DEF Visited, Return, Visits
  <2>2. GenericAnswers'
    BY <2>1 DEF GenericAnswers, Answer, Round, SaidOf
  <2>3. FailsInAnyOrder'
    BY <2>1 DEF FailsInAnyOrder, Answer, Round
  <2> QED
    BY <2>2, <2>3
<1>2. CASE Visit
  <2> SUFFICES ASSUME pc' = "idle" PROVE GenericAnswers' /\ FailsInAnyOrder'
    BY DEF GenericAnswers, FailsInAnyOrder, Returned
  <2>1. PICK id \in todo :
           /\ pc = "generic" /\ IsNoTemperature(attrs[id])
           /\ attrs' = attrs /\ result' = Refused
    BY <1>2 DEF Visit, Return, GivesUp
  <2>2. id \in DOMAIN attrs'
    BY <2>1 DEF Calls
  <2> QED
    BY <2>1, <2>2 DEF GenericAnswers, FailsInAnyOrder, Returned, Refused
<1>3. CASE Transfer
  BY <1>3 DEF Transfer, Return, Calls, GenericAnswers, FailsInAnyOrder, Returned, Refused
<1>4. CASE Decoded
  BY <1>4 DEF Decoded, Return, GenericAnswers, FailsInAnyOrder, Returned
<1>5. CASE UNCHANGED vars
  BY <1>5 DEF vars, GenericAnswers, FailsInAnyOrder, Returned
<1>6. CASE Decode \/ \E o \in Ops : Request(o)
  BY <1>6 DEF Decode, Request, Calls, GenericAnswers, FailsInAnyOrder, Returned
<1> QED
  BY <1>1, <1>2, <1>3, <1>4, <1>5, <1>6 DEF Next

-----------------------------------------------------------------------------

\* The inductive invariant.
LEMMA AInvariance == Spec => []AInv
<1>1. Init => AInv
  BY AInitially
<1>2. AInv /\ [Next]_vars => AInv'
  BY CallsStep, WalkStep, RoundStep, DecodedStep, AnswersStep DEF AInv
<1> QED
  BY <1>1, <1>2, PTL DEF Spec

\* For tables of any length: ReadSMARTData and ReadSMARTThresholds (src/sata.go) return
\* the last entry of each id that is listed before the first entry without one.
THEOREM TablesAreDecoded == Spec => []TableDecoded
<1>1. AInv => TableDecoded
  BY DEF AInv
<1> QED
  BY <1>1, AInvariance, PTL

\* Whatever order Go visits the map of attributes in, ReadGenericAttributes fills each
\* field from an attribute of that field, and leaves 0 only where there is none.
THEOREM GenericIsAnswered == Spec => []GenericAnswers
<1>1. AInv => GenericAnswers
  BY DEF AInv
<1> QED
  BY <1>1, AInvariance, PTL

\* Whether ReadGenericAttributes fails at a temperature of another type does not depend
\* on the order of the visits.
THEOREM FailureIsOrderless == Spec => []FailsInAnyOrder
<1>1. AInv => FailsInAnyOrder
  BY DEF AInv
<1> QED
  BY <1>1, AInvariance, PTL

-----------------------------------------------------------------------------
(* Types.                                                                  *)

Readings       == [id : Byte, current : Byte, worst : Byte, vendor : [1..6 -> Byte], reserved : Byte]
Limits         == [id : Byte, threshold : Byte]
LimitTables    == [1..Slots -> Limits]
SlotsOf(o)     == IF o = "ReadSMARTThresholds" THEN LimitTables ELSE [1..Slots -> Readings]

LEMMA EntriesType ==
  /\ Slots \in Nat /\ Damage \subseteq 1..255
  /\ Entries \cup {NoEntry} \subseteq Readings
  /\ Thresholds \cup {NoThreshold} \subseteq Limits
<1>1. /\ Slots \in Nat /\ Damage \subseteq 1..255
      /\ Entries \subseteq Readings /\ Thresholds \subseteq Limits
  <2>1. 1..255 \subseteq Byte
    BY DEF Byte
  <2>2. QED
    BY <2>1, AttributesAssumption DEF Readings, Limits
<1>2. NoThreshold \in Limits
  BY DEF NoThreshold, Limits, Byte
<1>3. <<0, 0, 0, 0, 0, 0>> \in [1..6 -> Byte]
  BY DEF Byte
<1>4. NoEntry \in Readings
  BY <1>3 DEF NoEntry, Readings, Byte
<1>5. QED
  BY <1>1, <1>2, <1>4

LEMMA EntriesOfCommand ==
  ASSUME NEW o \in Ops
  PROVE  /\ ZeroTable(o).slots \in SlotsOf(o)
         /\ \A t \in DriveTables(o) : t.slots \in SlotsOf(o)
<1>1. CASE o = "ReadSMARTThresholds"
  BY <1>1, EntriesType DEF ZeroTable, DriveTables, SlotsOf, LimitTables, Blank
<1>2. CASE o # "ReadSMARTThresholds"
  BY <1>2, EntriesType DEF ZeroTable, DriveTables, SlotsOf, Blank
<1>3. QED
  BY <1>1, <1>2

LEMMA SumOfBytes ==
  ASSUME NEW x \in Byte, NEW d \in 1..255
  PROVE  (x + d) % 256 \in Byte
<1>1. x + d \in Int
  BY DEF Byte
<1>2. \A n \in Int : n % 256 \in 0..255
  OBVIOUS
<1>3. QED
  BY <1>1, <1>2 DEF Byte

\* Damage leaves a table what it is.
LEMMA DamagedType ==
  ASSUME NEW o \in Ops, NEW t \in DriveTables(o), NEW u \in Damaged(o, t)
  PROVE  u.slots \in SlotsOf(o)
<1>1. o = "ReadSMARTThresholds" /\ t.slots \in LimitTables
  BY EntriesOfCommand DEF Damaged, SlotsOf
<1>2. DOMAIN t = {"slots", "chksum"}
  BY <1>1 DEF DriveTables
<1>3. ASSUME NEW i \in 1..Slots, NEW d \in Damage,
             \/ u = [t EXCEPT !.slots[i].id = (@ + d) % 256]
             \/ u = [t EXCEPT !.slots[i].threshold = (@ + d) % 256]
      PROVE  u.slots \in LimitTables
  <2>1. t.slots[i] \in Limits /\ t.slots[i].id \in Byte /\ t.slots[i].threshold \in Byte
    BY <1>1 DEF LimitTables, Limits
  <2>2. (t.slots[i].id + d) % 256 \in Byte /\ (t.slots[i].threshold + d) % 256 \in Byte
    BY <2>1, EntriesType, SumOfBytes
  <2>3. /\ [t.slots[i] EXCEPT !.id = (@ + d) % 256] \in Limits
        /\ [t.slots[i] EXCEPT !.threshold = (@ + d) % 256] \in Limits
    BY <2>1, <2>2 DEF Limits
  <2>4. \/ u.slots = [t.slots EXCEPT ![i] = [t.slots[i] EXCEPT !.id = (@ + d) % 256]]
        \/ u.slots = [t.slots EXCEPT ![i] = [t.slots[i] EXCEPT !.threshold = (@ + d) % 256]]
    BY <1>2, <1>3
  <2>5. QED
    BY <1>1, <2>3, <2>4 DEF LimitTables
<1>4. ASSUME NEW d \in Damage, u = [t EXCEPT !.chksum = (@ + d) % 256]
      PROVE  u.slots \in LimitTables
  BY <1>1, <1>2, <1>4
<1>5. QED
  BY <1>1, <1>3, <1>4 DEF Damaged, SlotsOf

\* What arrives is what the drive sent, damaged or not, or nothing.
LEMMA Arrivals ==
  ASSUME NEW o \in Ops, NEW t, NEW r \in Replies(o, t)
  PROVE  \/ Received(o, r) = ZeroTable(o)
         \/ Received(o, r) \in {t} \cup Damaged(o, t)
BY DEF Replies, Received, Failures, Unserved, Good, Check, Broken, Errno, HostError, Silent

LEMMA UInt64Type ==
  ASSUME NEW n \in Int
  PROVE  UInt64(n) \in Raw
<1>1. ASSUME NEW i \in 1..4 PROVE (n \div Weight[i]) % 256 \in 0..255
  <2>1. i = 1 \/ i = 2 \/ i = 3 \/ i = 4
    OBVIOUS
  <2>2. Weight[i] \in {1, 256, 65536, 16777216}
    BY <2>1 DEF Weight
  <2>3. n \div Weight[i] \in Int
    BY <2>2
  <2>4. QED
    BY <2>3
<1>2. \A i \in 1..8 : i <= 4 => i \in 1..4
  BY SMT
<1>3. QED
  BY <1>1, <1>2 DEF UInt64, Raw

LEMMA SelectedType ==
  ASSUME NEW e \in Readings, NEW c
  PROVE  Selected(c, e) \in 0..255
<1>1. /\ e.current \in 0..255 /\ e.worst \in 0..255 /\ e.reserved \in 0..255
      /\ \A i \in 1..6 : e.vendor[i] \in 0..255
  BY DEF Readings, Byte
<1>2. QED
  BY <1>1 DEF Selected

\* The raw value of an attribute is eight bytes, whatever the database says of it.
LEMMA AttributeType ==
  ASSUME NEW e \in Readings
  PROVE  Attribute(e).raw \in Raw
<1>1. ASSUME NEW order PROVE Assembled(order, e) \in Raw
  <2>1. ASSUME NEW i \in 1..8
        PROVE  (IF i <= Len(order) THEN Selected(order[Len(order) + 1 - i], e) ELSE 0) \in 0..255
    <3>1. Selected(order[Len(order) + 1 - i], e) \in 0..255
      BY SelectedType, Zenon
    <3>2. QED
      BY <3>1
  <2>2. QED
    BY <2>1, Zenon DEF Assembled, Raw
<1>2. \A m : computeAttributeRawValue(m, e) \in Raw
  BY <1>1 DEF computeAttributeRawValue
<1>3. Zero \in Raw
  BY DEF Zero, Raw
<1>4. QED
  BY <1>2, <1>3 DEF Attribute

LEMMA WordType ==
  ASSUME NEW raw \in Raw
  PROVE  /\ Word(raw, 0) \in Nat /\ Word(raw, 1) \in Nat
         /\ \A i \in 1..8 : raw[i] \in Nat
         /\ Int8(raw[1]) \in Int
<1>1. \A i \in 1..8 : raw[i] \in 0..255
  BY DEF Raw
<1>2. /\ raw[1] \in 0..255 /\ raw[2] \in 0..255
      /\ raw[3] \in 0..255 /\ raw[4] \in 0..255
  BY <1>1
<1>3. 2 * 0 + 1 = 1 /\ 2 * 0 + 2 = 2 /\ 2 * 1 + 1 = 3 /\ 2 * 1 + 2 = 4
  OBVIOUS
<1>4. Word(raw, 0) = raw[1] + 256 * raw[2] /\ Word(raw, 1) = raw[3] + 256 * raw[4]
  BY <1>3 DEF Word
<1>5. raw[1] + 256 * raw[2] \in Nat /\ raw[3] + 256 * raw[4] \in Nat
  <2>1. \A a, b \in 0..255 : a + 256 * b \in Nat
    BY SMT
  <2>2. raw[1] + 256 * raw[2] \in Nat
    BY <1>2, <2>1, Zenon
  <2>3. raw[3] + 256 * raw[4] \in Nat
    BY <1>2, <2>1, Zenon
  <2>4. QED
    BY <2>2, <2>3, Zenon
<1>6. Int8(raw[1]) \in Int
  BY <1>2 DEF Int8
<1>7. \A n \in 0..255 : n \in Nat
  OBVIOUS
<1>8. QED
  <2>1. \A i \in 1..8 : raw[i] \in Nat
    BY <1>1, <1>7, Zenon
  <2>2. Word(raw, 0) \in Nat /\ Word(raw, 1) \in Nat
    BY <1>4, <1>5, Zenon
  <2>3. QED
    BY <1>6, <2>1, <2>2, Zenon

LEMMA TemperatureType ==
  ASSUME NEW attr, attr.raw \in Raw
  PROVE  ParseAsTemperature(attr).val \in Int
<1>1. TempMinMax(attr.raw).val = Int8(attr.raw[1])
  BY DEF TempMinMax, Temperature, Ranged
<1>2. CASE attr.type = "Temp10X"
  BY <1>2, WordType DEF ParseAsTemperature, Temperature
<1>3. CASE attr.type = "TempMinMax"
  BY <1>1, <1>3, WordType DEF ParseAsTemperature
<1>4. CASE attr.type \notin {"Temp10X", "TempMinMax"}
  BY <1>4 DEF ParseAsTemperature, NoTemperature
<1>5. QED
  BY <1>2, <1>3, <1>4

LEMMA QuotientType ==
  ASSUME NEW hi \in Nat, NEW lo \in Nat, NEW d \in {3600, 120, 60}
  PROVE  Quotient(hi, lo, d) \in Int
<1>1. hi \div d \in Int /\ hi % d \in Int
  OBVIOUS
<1>2. ((hi % d) * 65536 + lo) \div d \in Int
  BY <1>1
<1>3. QED
  BY <1>1, <1>2 DEF Quotient

LEMMA DurationType ==
  ASSUME NEW attr, attr.raw \in Raw
  PROVE  ParseAsDuration(attr).hours \in Int
<1> SUFFICES ASSUME attr.type \in DOMAIN Limit
             PROVE  HoursOf(attr.type, attr.raw) \in Int
  BY DEF ParseAsDuration
<1> DEFINE raw == attr.raw
           type == attr.type
           lo == Word(raw, 0)
           hi == IF type \in {"Min2Hour", "Msec24Hour32"} THEN Word(raw, 1)
                 ELSE Word(raw, 1) + 65536 * raw[5]
           ms == raw[5] + 256 * raw[6] + 65536 * raw[7]
<1>1. lo \in Nat /\ hi \in Nat /\ ms \in Nat
  BY WordType
<1>2. \/ HoursOf(type, raw) = Wrapped
      \/ HoursOf(type, raw) = hi * 65536 + lo + ms \div 3600000
      \/ type # "Msec24Hour32" /\ HoursOf(type, raw) = Quotient(hi, lo, Counters[type])
  BY DEF HoursOf
<1> HIDE DEF lo, hi, ms
<1>3. hi * 65536 + lo + ms \div 3600000 \in Int /\ Wrapped \in Int
  BY <1>1 DEF Wrapped
<1>4. type # "Msec24Hour32" => Counters[type] \in {3600, 120, 60}
  BY DEF Limit, Counters
<1>5. QED
  BY <1>1, <1>2, <1>3, <1>4, QuotientType

LEMMA SaysType ==
  ASSUME NEW attr, attr.raw \in Raw
  PROVE  Says(attr) \in Raw
<1>1. UInt64(ParseAsTemperature(attr).val) \in Raw /\ UInt64(ParseAsDuration(attr).hours) \in Raw
  BY TemperatureType, DurationType, UInt64Type
<1>2. QED
  BY <1>1 DEF Says

\* The tables at hand are tables of the command; attributes have raw values.
Tables  == page \in DriveTables(op) /\ got.slots \in SlotsOf(op)
RawKept == op # "ReadSMARTThresholds" => \A id \in DOMAIN attrs : attrs[id].raw \in Raw

TypeInv == TypeOK /\ Tables /\ RawKept

LEMMA TypeInitially == Init => TypeInv
<1> SUFFICES ASSUME Init PROVE TypeInv
  OBVIOUS
<1>1. op = "ReadSMARTData" /\ op \in Ops /\ page = ZeroTable(op) /\ got = page /\ attrs = Empty
  BY DEF Init, Ops
<1>2. got.slots \in SlotsOf(op)
  BY <1>1, EntriesOfCommand
<1>3. page \in DriveTables(op)
  <2>1. ZeroTable(op).slots \in [1..Slots -> Entries \cup {NoEntry}]
    BY <1>1 DEF ZeroTable, Blank
  <2>2. QED
    BY <1>1, <2>1 DEF DriveTables, ZeroTable
<1>4. Nothing \in [Fields -> Raw]
  BY DEF Nothing, Zero, Raw
<1>5. TypeOK
  BY <1>1, <1>4, EntriesType DEF Init, TypeOK, Empty
<1>6. RawKept
  BY <1>1 DEF RawKept, Empty
<1>7. QED
  BY <1>1, <1>2, <1>3, <1>5, <1>6 DEF TypeInv, Tables

LEMMA TypeStep == AInv /\ TypeInv /\ [Next]_vars => TypeInv'
<1> SUFFICES ASSUME AInv, TypeInv, [Next]_vars PROVE TypeInv'
  OBVIOUS
<1> USE DEF TypeInv
<1>1. ASSUME NEW o \in Ops, Request(o) PROVE TypeInv'
  <2>1. /\ pc' = "ioctl" /\ op' = o /\ page' \in DriveTables(o) /\ got' = ZeroTable(o)
        /\ slot' = 1 /\ attrs' = Empty /\ todo' = {} /\ generic' = Nothing /\ result' = Refused
    BY <1>1 DEF Request
  <2>2. Nothing \in [Fields -> Raw]
    BY DEF Nothing, Zero, Raw
  <2>3. TypeOK'
    BY <2>1, <2>2, EntriesType DEF TypeOK, Empty
  <2>4. Tables'
    BY <2>1, EntriesOfCommand DEF Tables
  <2>5. RawKept'
    BY <2>1 DEF RawKept, Empty
  <2>6. QED
    BY <2>3, <2>4, <2>5
<1>2. CASE Transfer
  <2>1. PICK r \in Replies(op, page) : got' = Received(op, r)
    BY <1>2 DEF Transfer
  <2>2. /\ pc' \in {"idle", "table"} /\ result' \in {result, Refused}
        /\ op' = op /\ page' = page /\ slot' = slot /\ attrs' = attrs
        /\ todo' = todo /\ generic' = generic
    BY <1>2 DEF Transfer, Return
  <2>3. TypeOK'
    BY <2>2 DEF TypeOK
  <2>4. Tables'
    <3>1. op \in Ops /\ page \in DriveTables(op)
      BY DEF TypeOK, Tables
    <3>2. got'.slots \in SlotsOf(op)
      BY <2>1, <3>1, Arrivals, EntriesOfCommand, DamagedType
    <3>3. QED
      BY <2>2, <3>1, <3>2 DEF Tables
  <2>5. RawKept'
    BY <2>2 DEF RawKept
  <2>6. QED
    BY <2>3, <2>4, <2>5
<1>3. CASE Decode
  <2> DEFINE e == got.slots[slot]
  <2>1. /\ pc = "table" /\ slot <= Slots /\ e.id # 0
        /\ attrs' = [id \in DOMAIN attrs \cup {e.id} |-> IF id = e.id THEN Kept(op, e) ELSE attrs[id]]
        /\ slot' = slot + 1
        /\ UNCHANGED <<pc, op, page, got, todo, generic, result>>
    BY <1>3 DEF Decode, HasEntry
  <2>2. slot \in 1..Slots /\ slot + 1 \in 1..Slots + 1
    BY <2>1, EntriesType DEF TypeOK
  <2>3. e \in IF op = "ReadSMARTThresholds" THEN Limits ELSE Readings
    BY <2>2 DEF Tables, SlotsOf, LimitTables
  <2> HIDE DEF e
  <2>4. e.id \in 1..255
    BY <2>1, <2>3 DEF Limits, Readings, Byte
  <2>5. result = Refused
    BY <2>1 DEF AInv, Calls
  <2>6. TypeOK'
    BY <2>1, <2>2, <2>4, <2>5 DEF TypeOK
  <2>7. RawKept'
    <3>1. op # "ReadSMARTThresholds" => Kept(op, e).raw \in Raw
      BY <2>3, AttributeType DEF Kept
    <3>2. QED
      BY <2>1, <3>1 DEF RawKept
  <2>8. QED
    BY <2>1, <2>6, <2>7 DEF Tables
<1>4. CASE Decoded
  <2>1. /\ pc' \in {"idle", "generic"} /\ result' \in {result, Answer(attrs)}
        /\ UNCHANGED <<op, page, got, slot, attrs, generic>>
        /\ todo' \in {todo, DOMAIN attrs}
    BY <1>4 DEF Decoded, Return
  <2>2. TypeOK'
    BY <2>1 DEF TypeOK
  <2>3. QED
    BY <2>1, <2>2 DEF Tables, RawKept
<1>5. CASE Visit
  <2>1. PICK id \in todo :
           /\ todo' = todo \ {id} /\ UNCHANGED <<op, page, got, slot, attrs>>
           /\ \/ pc' = "idle" /\ result' = Refused /\ generic' = generic
              \/ pc' = pc /\ result' = result /\ generic' = Picked(generic, attrs[id])
    BY <1>5 DEF Visit, Return
  <2>2. pc = "generic" /\ result = Refused /\ op = "ReadGenericAttributes" /\ id \in DOMAIN attrs
    BY <1>5, <2>1 DEF Visit, AInv, Calls
  <2>3. Says(attrs[id]) \in Raw
    BY <2>2, SaysType DEF RawKept
  <2>4. Picked(generic, attrs[id]) \in [Fields -> Raw]
    BY <2>3 DEF TypeOK, Picked
  <2>5. TypeOK'
    BY <2>1, <2>2, <2>4 DEF TypeOK
  <2>6. QED
    BY <2>1, <2>5 DEF Tables, RawKept
<1>6. CASE Visited
  <2>1. /\ pc' = "idle" /\ result' = Answer(generic)
        /\ UNCHANGED <<op, page, got, slot, attrs, todo, generic>>
    BY <1>6 DEF Visited, Return
  <2>2. TypeOK'
    BY <2>1 DEF TypeOK
  <2>3. QED
    BY <2>1, <2>2 DEF Tables, RawKept
<1>7. CASE UNCHANGED vars
  BY <1>7 DEF vars, TypeOK, Tables, RawKept
<1>8. QED
  BY <1>1, <1>2, <1>3, <1>4, <1>5, <1>6, <1>7 DEF Next

LEMMA TypeInvariance == Spec => []TypeInv
<1>1. Init => TypeInv
  BY TypeInitially
<1>2. AInv /\ TypeInv /\ [Next]_vars => TypeInv'
  BY TypeStep
<1>3. QED
  BY <1>1, <1>2, AInvariance, PTL DEF Spec

\* For any database and tables: what ReadSMARTData, ReadSMARTThresholds and
\* ReadGenericAttributes (src/sata.go) keep has the types that the code declares,
\* whatever a type of the database makes of the bytes of an entry.
THEOREM AttributesTypeCorrect == Spec => []TypeOK
<1>1. TypeInv => TypeOK
  BY DEF TypeInv
<1>2. QED
  BY <1>1, TypeInvariance, PTL

-----------------------------------------------------------------------------
(* The checksum.                                                           *)

\* A sum over a table exists, whatever its length.
LEMMA Summation ==
  ASSUME NEW N \in Nat, NEW w \in [1..N -> Int]
  PROVE  \E f \in [0..N -> Int] : f[0] = 0 /\ \A n \in 1..N : f[n] = f[n - 1] + w[n]
<1> DEFINE Adds(f, m) == f[0] = 0 /\ \A n \in 1..m : f[n] = f[n - 1] + w[n]
           Exists(m) == \E f \in [0..m -> Int] : Adds(f, m)
           S == {m \in Nat : m <= N => Exists(m)}
<1>1. Exists(0)
  <2>1. [n \in 0..0 |-> 0] \in [0..0 -> Int] /\ Adds([n \in 0..0 |-> 0], 0)
    OBVIOUS
  <2>2. QED
    BY <2>1
<1>2. ASSUME NEW m \in Nat, m + 1 <= N, Exists(m) PROVE Exists(m + 1)
  <2>1. PICK f \in [0..m -> Int] : Adds(f, m)
    BY <1>2
  <2> DEFINE g == [n \in 0..(m + 1) |-> IF n <= m THEN f[n] ELSE f[m] + w[m + 1]]
  <2>2. f[m] + w[m + 1] \in Int
    <3>1. m \in 0..m /\ m + 1 \in 1..N
      BY <1>2
    <3>2. f[m] \in Int /\ w[m + 1] \in Int
      BY <3>1
    <3>3. QED
      BY <3>2
  <2>3. g \in [0..(m + 1) -> Int]
    BY <2>2
  <2>4. Adds(g, m + 1)
    <3>1. g[0] = 0
      BY <2>1
    <3>2. ASSUME NEW n \in 1..(m + 1) PROVE g[n] = g[n - 1] + w[n]
      <4>1. CASE n <= m
        <5>1. n \in 1..m /\ n \in 0..(m + 1) /\ n - 1 \in 0..(m + 1) /\ n - 1 <= m
          BY <4>1
        <5>2. g[n] = f[n] /\ g[n - 1] = f[n - 1]
          BY <4>1, <5>1
        <5>3. QED
          BY <2>1, <5>1, <5>2
      <4>2. CASE n = m + 1
        BY <4>2
      <4>3. QED
        BY <4>1, <4>2
    <3>3. QED
      BY <3>1, <3>2
  <2>5. QED
    BY <2>3, <2>4
<1> HIDE DEF Exists
<1>3. 0 \in S /\ \A m \in Nat : m \in S => m + 1 \in S
  <2>1. \A m \in Nat : m + 1 <= N => m <= N
    OBVIOUS
  <2>2. QED
    BY <1>1, <1>2, <2>1
<1> HIDE DEF S
<1>4. N \in S
  BY <1>3, Induction
<1>5. QED
  BY <1>4 DEF S, Exists

\* An entry of a table of thresholds is two bytes.
LEMMA LimitFields ==
  ASSUME NEW s \in LimitTables, NEW n \in 1..Slots
  PROVE  /\ s[n] \in Limits
         /\ s[n].id \in Int /\ s[n].threshold \in Int /\ s[n].threshold \in Byte
<1>1. s[n] \in Limits
  BY DEF LimitTables
<1>2. s[n].id \in Byte /\ s[n].threshold \in Byte
  BY <1>1 DEF Limits
<1>3. QED
  BY <1>1, <1>2 DEF Byte

\* Sums is what its recursion says.
LEMMA SumsOf ==
  ASSUME NEW s \in LimitTables
  PROVE  /\ Sums(s)[0] = 0
         /\ \A n \in 0..Slots : Sums(s)[n] \in Int
         /\ \A n \in 1..Slots : Sums(s)[n] = Sums(s)[n - 1] + s[n].id + s[n].threshold
<1> DEFINE w == [n \in 1..Slots |-> s[n].id + s[n].threshold]
           Chain(g) == [n \in 0..Slots |->
                          IF n = 0 THEN 0 ELSE g[n - 1] + s[n].id + s[n].threshold]
           sum == Sums(s)
<1>1. Slots \in Nat /\ \A n \in 1..Slots : s[n].id \in Int /\ s[n].threshold \in Int
  BY EntriesType, LimitFields
<1>2. w \in [1..Slots -> Int]
  BY <1>1
<1>3. PICK f \in [0..Slots -> Int] : f[0] = 0 /\ \A n \in 1..Slots : f[n] = f[n - 1] + w[n]
  <2> HIDE DEF w
  <2>1. QED
    BY <1>1, <1>2, Summation
<1>4. f = Chain(f)
  <2>1. ASSUME NEW n \in 0..Slots PROVE f[n] = Chain(f)[n]
    <3>1. CASE n = 0
      BY <1>3, <3>1
    <3>2. CASE n # 0
      <4>1. n \in 1..Slots /\ n - 1 \in 0..Slots
        BY <1>1, <3>2
      <4>2. f[n] = f[n - 1] + (s[n].id + s[n].threshold) /\ f[n - 1] \in Int
        BY <1>3, <4>1
      <4>3. QED
        BY <1>1, <3>2, <4>1, <4>2
    <3>3. QED
      BY <3>1, <3>2
  <2>2. QED
    BY <2>1
<1>5. sum = Chain(sum)
  <2>1. sum = CHOOSE g : g = Chain(g)
    BY DEF Sums
  <2> HIDE DEF sum, Chain
  <2>2. QED
    BY <1>4, <2>1
<1>6. sum[0] = 0
  <2>1. Chain(sum)[0] = 0
    BY <1>1
  <2> HIDE DEF sum, Chain
  <2>2. QED
    BY <1>5, <2>1
<1>7. ASSUME NEW n \in 1..Slots PROVE sum[n] = sum[n - 1] + s[n].id + s[n].threshold
  <2>1. Chain(sum)[n] = sum[n - 1] + s[n].id + s[n].threshold
    BY <1>1
  <2> HIDE DEF sum, Chain
  <2>2. QED
    BY <1>5, <2>1
<1> HIDE DEF sum
<1> DEFINE S == {n \in Nat : n <= Slots => sum[n] \in Int}
<1>8. 0 \in S
  BY <1>6
<1>9. ASSUME NEW n \in Nat, n \in S PROVE n + 1 \in S
  <2> SUFFICES ASSUME n + 1 <= Slots PROVE sum[n + 1] \in Int
    OBVIOUS
  <2>1. n + 1 \in 1..Slots /\ (n + 1) - 1 = n /\ n <= Slots
    BY <1>1
  <2>2. sum[n + 1] = sum[n] + s[n + 1].id + s[n + 1].threshold /\ sum[n] \in Int
    BY <1>7, <1>9, <2>1
  <2>3. s[n + 1].id \in Int /\ s[n + 1].threshold \in Int
    BY <1>1, <2>1
  <2>4. QED
    BY <2>2, <2>3
<1> HIDE DEF S
<1>10. \A n \in 0..Slots : n \in S
  BY <1>8, <1>9, Induction
<1>11. \A n \in 0..Slots : sum[n] \in Int
  BY <1>10 DEF S
<1>12. QED
  BY <1>6, <1>7, <1>11 DEF sum

\* Other bytes in one entry change the sum by as much.
LEMMA SumOfChanged ==
  ASSUME NEW s \in LimitTables, NEW i \in 1..Slots, NEW d \in Int, NEW t \in LimitTables,
         t[i].id + t[i].threshold = s[i].id + s[i].threshold + d,
         \A n \in 1..Slots \ {i} : t[n] = s[n]
  PROVE  /\ Sum(s) \in Int
         /\ Sum(t) = Sum(s) + d
<1> DEFINE a == Sums(s)
           b == Sums(t)
           S == {n \in Nat : n <= Slots => b[n] = a[n] + IF n < i THEN 0 ELSE d}
<1>1. /\ Slots \in Nat /\ i \in 1..Slots
      /\ \A n \in 1..Slots : /\ s[n].id \in Int /\ s[n].threshold \in Int
                             /\ t[n].id \in Int /\ t[n].threshold \in Int
  BY EntriesType, LimitFields DEF Byte
<1>2. /\ a[0] = 0 /\ b[0] = 0
      /\ \A n \in 0..Slots : a[n] \in Int /\ b[n] \in Int
      /\ \A n \in 1..Slots : /\ a[n] = a[n - 1] + s[n].id + s[n].threshold
                             /\ b[n] = b[n - 1] + t[n].id + t[n].threshold
  BY SumsOf
<1> HIDE DEF a, b
<1>4. 0 \in S
  BY <1>1, <1>2
<1>5. ASSUME NEW n \in Nat, n \in S PROVE n + 1 \in S
  <2> SUFFICES ASSUME n + 1 <= Slots
               PROVE  b[n + 1] = a[n + 1] + IF n + 1 < i THEN 0 ELSE d
    OBVIOUS
  <2>1. n + 1 \in 1..Slots /\ n \in 0..Slots /\ (n + 1) - 1 = n
    BY <1>1
  <2>2. b[n] = a[n] + IF n < i THEN 0 ELSE d
    BY <1>5, <2>1
  <2>3. /\ a[n] \in Int /\ b[n] \in Int
        /\ a[n + 1] = a[n] + s[n + 1].id + s[n + 1].threshold
        /\ b[n + 1] = b[n] + t[n + 1].id + t[n + 1].threshold
    BY <1>2, <2>1
  <2>4. /\ s[n + 1].id \in Int /\ s[n + 1].threshold \in Int
        /\ t[n + 1].id \in Int /\ t[n + 1].threshold \in Int
    BY <1>1, <2>1
  <2>5. CASE n + 1 = i
    <3>1. t[n + 1].id + t[n + 1].threshold = s[n + 1].id + s[n + 1].threshold + d
      BY <2>5
    <3>2. b[n] = a[n]
      BY <1>1, <2>2, <2>3, <2>5
    <3>3. b[n + 1] = a[n + 1] + d
      BY <2>3, <2>4, <3>1, <3>2
    <3>4. QED
      BY <1>1, <2>5, <3>3
  <2>6. CASE n + 1 # i
    <3>1. t[n + 1] = s[n + 1]
      BY <2>1, <2>6
    <3>2. (n < i) <=> (n + 1 < i)
      BY <1>1, <2>6
    <3>3. QED
      BY <1>1, <2>2, <2>3, <2>4, <3>1, <3>2
  <2>7. QED
    BY <2>5, <2>6
<1> HIDE DEF S
<1>6. Slots \in S
  BY <1>1, <1>4, <1>5, Induction
<1>7. b[Slots] = a[Slots] + d /\ a[Slots] \in Int
  BY <1>1, <1>2, <1>6 DEF S
<1>8. QED
  BY <1>7 DEF a, b, Sum

\* Numbers that are not the same byte do not add up to the same.
LEMMA Congruence ==
  ASSUME NEW a \in Int, NEW x \in Byte, NEW d \in 1..255
  PROVE  /\ (a + ((-a) % 256) + (((x + d) % 256) - x)) % 256 # 0
         /\ (a + ((((-a) % 256) + d) % 256)) % 256 # 0
<1>1. PICK k \in Int : (-a) % 256 = 256 * k - a
  <2>1. (-a) \div 256 \in Int /\ -a = 256 * ((-a) \div 256) + ((-a) % 256)
    OBVIOUS
  <2>2. (-a) % 256 = 256 * (-((-a) \div 256)) - a
    BY <2>1
  <2>3. QED
    BY <2>1, <2>2
<1>2. ASSUME NEW y \in 0..255 PROVE (y + d) % 256 \in {y + d, y + d - 256}
  OBVIOUS
<1>3. \A m \in Int : (256 * m + d) % 256 = d
  OBVIOUS
<1>4. (a + ((-a) % 256) + (((x + d) % 256) - x)) % 256 # 0
  <2>1. ((x + d) % 256) - x \in {d, d - 256}
    <3>1. x \in 0..255
      BY DEF Byte
    <3>2. (x + d) % 256 \in {x + d, x + d - 256}
      BY <1>2, <3>1, Zenon
    <3>3. QED
      BY <3>1, <3>2
  <2>2. a + ((-a) % 256) + (((x + d) % 256) - x) \in {256 * k + d, 256 * (k - 1) + d}
    BY <1>1, <2>1
  <2>3. QED
    BY <1>3, <2>2
<1>5. (a + ((((-a) % 256) + d) % 256)) % 256 # 0
  <2>1. (-a) % 256 \in 0..255
    OBVIOUS
  <2>2. (((-a) % 256) + d) % 256 \in {((-a) % 256) + d, ((-a) % 256) + d - 256}
    BY <1>2, <2>1
  <2>3. a + ((((-a) % 256) + d) % 256) \in {256 * k + d, 256 * (k - 1) + d}
    BY <1>1, <2>2
  <2>4. QED
    BY <1>3, <2>3
<1>6. QED
  BY <1>4, <1>5

\* The checksum shows every byte that is not what the drive sent.
LEMMA DamageIsSeen ==
  ASSUME NEW t \in DriveTables("ReadSMARTThresholds"),
         NEW u \in Damaged("ReadSMARTThresholds", t)
  PROVE  ~checksum(u)
<1>1. t.slots \in LimitTables /\ u.slots \in LimitTables
  BY EntriesOfCommand, DamagedType DEF SlotsOf, Ops
<1>2. PICK s : t = [slots |-> s, chksum |-> (-Sum(s)) % 256]
  BY DEF DriveTables
<1>3. s = t.slots /\ t.chksum = (-Sum(s)) % 256
  BY <1>2
<1>4. ASSUME NEW i \in 1..Slots, NEW d \in Damage, NEW x \in Byte,
             u.chksum = (-Sum(s)) % 256, \A n \in 1..Slots \ {i} : u.slots[n] = s[n],
             u.slots[i].id + u.slots[i].threshold
               = s[i].id + s[i].threshold + (((x + d) % 256) - x)
      PROVE  ~checksum(u)
  <2> DEFINE v == (x + d) % 256
  <2>1. d \in 1..255 /\ x \in Byte
    BY EntriesType
  <2>2. v \in Byte
    BY <2>1, SumOfBytes
  <2>3. u.chksum = (-Sum(s)) % 256
    BY <1>4
  <2>4. u.slots[i].id + u.slots[i].threshold = s[i].id + s[i].threshold + (v - x)
    BY <1>4
  <2> HIDE DEF v
  <2>5. Sum(s) \in Int /\ Sum(u.slots) = Sum(s) + (v - x)
    <3>1. v - x \in Int
      BY <2>2 DEF Byte
    <3>2. QED
      BY <1>1, <1>3, <1>4, <2>4, <3>1, SumOfChanged
  <2>6. (Sum(s) + ((-Sum(s)) % 256) + (v - x)) % 256 # 0
    <3> DEFINE Differs(a, y, e) == (a + ((-a) % 256) + (((y + e) % 256) - y)) % 256 # 0
    <3>1. \A a \in Int, y \in Byte, e \in 1..255 : Differs(a, y, e)
      BY Congruence
    <3> HIDE DEF Differs
    <3>2. Differs(Sum(s), x, d)
      BY <2>1, <2>5, <3>1, Zenon
    <3>3. QED
      BY <3>2 DEF Differs, v
  <2>7. Sum(u.slots) + u.chksum = Sum(s) + ((-Sum(s)) % 256) + (v - x)
    <3>1. v - x \in Int
      <4>1. \A m, n \in Byte : m - n \in Int
        BY DEF Byte
      <4>2. QED
        BY <2>1, <2>2, <4>1, Zenon
    <3>2. (-Sum(s)) % 256 \in Int
      BY <2>5
    <3>3. QED
      BY <2>3, <2>5, <3>1, <3>2
  <2>8. QED
    BY <2>6, <2>7 DEF checksum
<1>5. ASSUME NEW d \in Damage, u = [t EXCEPT !.chksum = (@ + d) % 256]
      PROVE  ~checksum(u)
  <2>1. u.slots = s /\ u.chksum = (((-Sum(s)) % 256) + d) % 256
    BY <1>2, <1>5
  <2>2. Sum(s) \in Int
    BY <1>1, <1>3, SumsOf, EntriesType DEF Sum
  <2>3. d \in 1..255 /\ 0 \in Byte
    BY EntriesType DEF Byte
  <2>4. QED
    BY <2>1, <2>2, <2>3, Congruence DEF checksum
<1>6. ASSUME NEW i \in 1..Slots, NEW d \in Damage, NEW f \in {"id", "threshold"},
             u.chksum = t.chksum, u.slots = [s EXCEPT ![i] = [s[i] EXCEPT ![f] = (@ + d) % 256]]
      PROVE  ~checksum(u)
  <2>1. DOMAIN s = 1..Slots /\ s[i] \in Limits /\ d \in 1..255
    BY <1>1, <1>3, EntriesType DEF LimitTables
  <2>a. s[i].id \in Byte /\ s[i].threshold \in Byte
    BY <2>1 DEF Limits
  <2>b. (s[i].id + d) % 256 \in Byte /\ (s[i].threshold + d) % 256 \in Byte
    BY <2>1, <2>a, SumOfBytes
  <2>c. \A w, x, y \in Byte : w + y = x + y + (w - x) /\ y + w = y + x + (w - x)
    BY DEF Byte
  <2>2. /\ u.slots[i] = [s[i] EXCEPT ![f] = (@ + d) % 256]
        /\ \A n \in 1..Slots \ {i} : u.slots[n] = s[n]
    BY <1>6, <2>1
  <2>3. CASE f = "id"
    <3>1. u.slots[i].id = (s[i].id + d) % 256 /\ u.slots[i].threshold = s[i].threshold
      BY <2>1, <2>2, <2>3 DEF Limits
    <3>2. u.slots[i].id + u.slots[i].threshold
             = s[i].id + s[i].threshold + (((s[i].id + d) % 256) - s[i].id)
      BY <2>a, <2>b, <2>c, <3>1
    <3>3. QED
      BY <1>3, <1>4, <1>6, <2>a, <2>2, <3>2
  <2>4. CASE f = "threshold"
    <3>1. u.slots[i].threshold = (s[i].threshold + d) % 256 /\ u.slots[i].id = s[i].id
      BY <2>1, <2>2, <2>4 DEF Limits
    <3>2. u.slots[i].id + u.slots[i].threshold
             = s[i].id + s[i].threshold + (((s[i].threshold + d) % 256) - s[i].threshold)
      BY <2>a, <2>b, <2>c, <3>1
    <3>3. QED
      BY <1>3, <1>4, <1>6, <2>a, <2>2, <3>2
  <2>5. QED
    BY <2>3, <2>4
<1>7. ASSUME NEW i \in 1..Slots, NEW d \in Damage,
             \/ u = [t EXCEPT !.slots[i].id = (@ + d) % 256]
             \/ u = [t EXCEPT !.slots[i].threshold = (@ + d) % 256]
      PROVE  ~checksum(u)
  <2>1. CASE u = [t EXCEPT !.slots[i].id = (@ + d) % 256]
    <3>1. u.chksum = t.chksum /\ u.slots = [s EXCEPT ![i] = [s[i] EXCEPT !.id = (@ + d) % 256]]
      BY <1>2, <2>1
    <3>2. QED
      BY <1>6, <3>1
  <2>2. CASE u = [t EXCEPT !.slots[i].threshold = (@ + d) % 256]
    <3>1. /\ u.chksum = t.chksum
          /\ u.slots = [s EXCEPT ![i] = [s[i] EXCEPT !.threshold = (@ + d) % 256]]
      BY <1>2, <2>2
    <3>2. QED
      BY <1>6, <3>1
  <2>3. QED
    BY <1>7, <2>1, <2>2
<1>8. QED
  BY <1>5, <1>7 DEF Damaged

\* The table of thresholds that is decoded is the one the drive sent, or none.
Verified ==
  /\ op = "ReadSMARTThresholds" /\ pc = "table" => got \in {page, ZeroTable(op)}
  /\ ThresholdsIntact

LEMMA VerifiedStep == AInv /\ TypeInv /\ Verified /\ [Next]_vars => Verified'
<1> SUFFICES ASSUME Calls, TypeInv, Verified, [Next]_vars PROVE Verified'
  BY DEF AInv
<1>1. CASE Transfer
  <2>1. PICK r \in Replies(op, page) :
           /\ got' = Received(op, r)
           /\ \/ pc' = "idle" /\ result' = Refused
              \/ pc' = "table" /\ (op = "ReadSMARTThresholds" => checksum(got'))
    BY <1>1 DEF Transfer, Return
  <2>2. op' = op /\ page' = page
    BY <1>1 DEF Transfer, Return
  <2>3. page \in DriveTables(op) /\ op \in Ops
    BY DEF TypeInv, TypeOK, Tables
  <2>4. op = "ReadSMARTThresholds" /\ pc' = "table" => got' \in {page, ZeroTable(op)}
    BY <2>1, <2>3, Arrivals, DamageIsSeen
  <2>5. ThresholdsIntact'
    BY <2>1 DEF ThresholdsIntact, Returned, Refused
  <2>6. ZeroTable(op)' = ZeroTable(op)
    BY <2>2 DEF ZeroTable, Blank
  <2>7. QED
    BY <2>2, <2>4, <2>5, <2>6 DEF Verified
<1>2. ASSUME NEW o \in Ops, Request(o) PROVE Verified'
  BY <1>2 DEF Request, Verified, ThresholdsIntact, Returned
<1>3. CASE Decode \/ Decoded
  <2>1. /\ pc = "table" /\ op' = op /\ page' = page /\ got' = got
        /\ pc' = "table" \/ pc' = "idle" \/ op # "ReadSMARTThresholds"
    BY <1>3 DEF Decode, Decoded, Return
  <2>2. ZeroTable(op)' = ZeroTable(op)
    BY <2>1 DEF ZeroTable, Blank
  <2>3. QED
    BY <2>1, <2>2 DEF Verified, ThresholdsIntact, Returned
<1>4. CASE Visit \/ Visited
  BY <1>4 DEF Visit, Visited, Return, Calls, Verified, ThresholdsIntact, Returned
<1>5. CASE UNCHANGED vars
  BY <1>5 DEF vars, Verified, ThresholdsIntact, Returned, ZeroTable, Blank
<1>6. QED
  BY <1>1, <1>2, <1>3, <1>4, <1>5 DEF Next

\* For tables of thresholds of any length and any byte of damage: ReadSMARTThresholds
\* (src/sata.go, checksum) returns what the drive sent, or nothing.
THEOREM ThresholdsAreIntact == Spec => []ThresholdsIntact
<1>1. Init => Verified
  BY DEF Init, Verified, ThresholdsIntact, Returned, Refused
<1>2. AInv /\ TypeInv /\ Verified /\ [Next]_vars => Verified'
  BY VerifiedStep
<1>3. Verified => ThresholdsIntact
  BY DEF Verified
<1>4. QED
  BY <1>1, <1>2, <1>3, AInvariance, TypeInvariance, PTL DEF Spec

-----------------------------------------------------------------------------
(* The database: what the generator has written, and what a program that   *)
(* was built from it serves.                                               *)

DefaultsOf(u) == printPresets(u[2].presets, FALSE, NoNames)
PresetsOf(u, i) == printPresets(u[i].presets, TRUE, NamesOf(DefaultsOf(u)))
DeviceOf(u, i) == [modelRe |-> u[i].modelRe, firmwareRe |-> u[i].firmwareRe,
                   presets |-> PresetsOf(u, i), bug |-> BugsOf(u[i].presets)]
DevicesOf(u) == {DeviceOf(u, i) : i \in DrivesOf(u)}

\* of[k] is the k-th record before n that is kept.
Orders(of, N, u, lost, n) ==
  /\ of \in [1..N -> Remaining(u, lost)]
  /\ \A k, m \in 1..N : k < m => of[k] < of[m]
  /\ \A k \in 1..N : of[k] < n
  /\ \A i \in Remaining(u, lost) : i < n => \E k \in 1..N : of[k] = i

Written(devs, u, lost, n) ==
  /\ devs \in Seq(DevicesOf(u))
  /\ \E of : /\ Orders(of, Len(devs), u, lost, n)
             /\ \A k \in 1..Len(devs) : devs[k] = DeviceOf(u, of[k])

\* A file that is not torn, once it has its end, is what the generator makes of one
\* drivedb.h without the records that are lost.
Complete(f) ==
  /\ f.of \in Upstreams /\ HasHeader(f.of)
  /\ f.begun => f.defaults = DefaultsOf(f.of)
  /\ Written(f.devices, f.of, f.lost, Len(f.of) + 1)

\* How far a file that is not torn has come.
Intact ==
  /\ gpc \in {"defaults", "devices", "gofmt"} => file.of = upstream
  /\ gpc \in {"defaults", "devices"} => ~file.whole
  /\ gpc = "defaults" => file.devices = <<>> /\ file.lost = {} /\ ~file.begun
  /\ gpc = "devices" =>
       /\ file.begun => file.defaults = DefaultsOf(upstream)
       /\ file.lost \subseteq 3..next - 1
       /\ Written(file.devices, upstream, file.lost, next)
  /\ file.whole => Complete(file)
  /\ outcome = "ok" => file.begun /\ file.whole /\ file.of = upstream

Progress ==
  /\ gpc = "extract" => upstream \in Upstreams \cup {Garbage}
  /\ gpc \in {"create", "defaults", "devices", "gofmt"} => upstream \in Upstreams
  /\ gpc \in {"defaults", "devices", "gofmt"} => HasHeader(upstream)
  /\ gpc = "defaults" => next = 3
  /\ gpc = "devices" => names = NamesOf(DefaultsOf(upstream)) /\ next \in 3..Len(upstream) + 1
  /\ outcome = "ok" => gpc = "idle"

FileInv ==
  /\ DOMAIN file = {"begun", "whole", "torn", "defaults", "devices", "lost", "of"}
  /\ ~file.torn => Intact

\* The program is what drivedb.h says, record by record.
Entry(u, i) == [DeviceOf(u, i) EXCEPT !.presets = Literal(@)]
Records(u, of, N) == [k \in 1..N |-> Entry(u, of[k])]
BuiltOf(u, lost) ==
  /\ u \in Upstreams /\ HasHeader(u)
  /\ DefaultsOf(u) # NoPresets /\ NoKeyTwice(DefaultsOf(u))
  /\ ataDefaultAttributes = Literal(DefaultsOf(u))
  /\ \E N \in Nat : \E of :
       /\ Orders(of, N, u, lost, Len(u) + 1)
       /\ \A k \in 1..N : NoKeyTwice(PresetsOf(u, of[k]))
       /\ ataDevicesDatabase = Records(u, of, N)
Built == served.of # Unknown => BuiltOf(served.of, served.lost)

GInv == Progress /\ FileInv /\ Built

\* A drivedb.h is a sequence of records.
LEMMA UpstreamLength ==
  ASSUME NEW u \in Upstreams
  PROVE  /\ Len(u) \in Nat /\ DOMAIN u = 1..Len(u)
         /\ DrivesOf(u) \subseteq 3..Len(u)
         /\ \A lost : Remaining(u, lost) \subseteq DrivesOf(u)
<1>1. u \in Seq({u[i] : i \in DOMAIN u})
  BY GeneratorAssumption
<1>2. QED
  BY <1>1 DEF DrivesOf, Remaining

\* A round of the loop adds a record that is not for USB devices.
LEMMA OneMoreDevice ==
  ASSUME NEW u \in Upstreams, NEW lost, NEW n \in Remaining(u, lost), NEW devs,
         Written(devs, u, lost, n)
  PROVE  Written(Append(devs, DeviceOf(u, n)), u, lost, n + 1)
<1> DEFINE N == Len(devs)
           more == Append(devs, DeviceOf(u, n))
<1>1. PICK of : Orders(of, N, u, lost, n) /\ \A k \in 1..N : devs[k] = DeviceOf(u, of[k])
  BY DEF Written
<1> DEFINE g == [k \in 1..(N + 1) |-> IF k <= N THEN of[k] ELSE n]
<1>2. devs \in Seq(DevicesOf(u)) /\ DeviceOf(u, n) \in DevicesOf(u)
  BY UpstreamLength DEF Written, DevicesOf
<1>3. /\ N \in Nat /\ more \in Seq(DevicesOf(u)) /\ Len(more) = N + 1
      /\ \A k \in 1..N : more[k] = devs[k]
      /\ more[N + 1] = DeviceOf(u, n)
  BY <1>2
<1>4. Remaining(u, lost) \subseteq Int
  BY UpstreamLength
<1>5. \A k \in 1..(N + 1) : k \in 1..N \/ k = N + 1
  BY <1>3
<1>6. \A k \in 1..N : g[k] = of[k] /\ g[k] \in Remaining(u, lost) /\ g[k] < n
  BY <1>1, <1>3 DEF Orders
<1>7. g[N + 1] = n
  BY <1>3
<1> HIDE DEF more
<1>8. Orders(g, N + 1, u, lost, n + 1)
  <2>1. g \in [1..(N + 1) -> Remaining(u, lost)]
    BY <1>5, <1>6, <1>7
  <2> HIDE DEF g
  <2>2. ASSUME NEW k \in 1..(N + 1), NEW m \in 1..(N + 1), k < m PROVE g[k] < g[m]
    <3>1. k \in 1..N
      BY <1>3, <2>2
    <3>2. CASE m \in 1..N
      BY <1>1, <1>6, <2>2, <3>1, <3>2 DEF Orders
    <3>3. CASE m = N + 1
      BY <1>6, <1>7, <3>1, <3>3
    <3>4. QED
      BY <1>5, <3>2, <3>3
  <2>3. ASSUME NEW k \in 1..(N + 1) PROVE g[k] < n + 1
    BY <1>4, <1>5, <1>6, <1>7
  <2>4. ASSUME NEW i \in Remaining(u, lost), i < n + 1 PROVE \E k \in 1..(N + 1) : g[k] = i
    <3>1. CASE i < n
      <4>1. PICK k \in 1..N : of[k] = i
        BY <1>1, <3>1 DEF Orders
      <4>2. k \in 1..(N + 1) /\ g[k] = i
        BY <1>3, <1>6, <4>1
      <4>3. QED
        BY <4>2
    <3>2. CASE i = n
      <4>1. N + 1 \in 1..(N + 1)
        BY <1>3
      <4>2. QED
        BY <1>7, <3>2, <4>1
    <3>3. QED
      BY <1>4, <2>4, <3>1, <3>2
  <2>5. QED
    BY <2>1, <2>2, <2>3, <2>4 DEF Orders
<1>9. ASSUME NEW k \in 1..(N + 1) PROVE more[k] = DeviceOf(u, g[k])
  <2>1. CASE k \in 1..N
    BY <1>1, <1>3, <1>6, <2>1
  <2>2. CASE k = N + 1
    BY <1>3, <1>7, <2>2
  <2>3. QED
    BY <1>5, <2>1, <2>2
<1> HIDE DEF g
<1>10. QED
  BY <1>3, <1>8, <1>9 DEF Written, more

\* A record for USB devices is passed over, one that is lost is not there.
LEMMA NoMoreDevice ==
  ASSUME NEW u \in Upstreams, NEW lost, NEW less, NEW n \in Int, NEW devs,
         Written(devs, u, lost, n), Remaining(u, less) = Remaining(u, lost) \ {n}
  PROVE  Written(devs, u, less, n + 1)
<1>1. PICK of : /\ Orders(of, Len(devs), u, lost, n)
                /\ \A k \in 1..Len(devs) : devs[k] = DeviceOf(u, of[k])
  BY DEF Written
<1>2. Remaining(u, lost) \subseteq Int
  BY UpstreamLength
<1>3. \A k \in 1..Len(devs) : of[k] < n + 1 /\ of[k] \in Remaining(u, less)
  BY <1>1, <1>2 DEF Orders
<1>4. \A i \in Remaining(u, less) : i < n + 1 => i < n /\ i \in Remaining(u, lost)
  BY <1>2
<1>5. Orders(of, Len(devs), u, less, n + 1)
  BY <1>1, <1>3, <1>4 DEF Orders
<1>6. QED
  BY <1>1, <1>5 DEF Written

\* Nothing is written before the first record.
LEMMA NothingWritten ==
  ASSUME NEW u \in Upstreams, NEW lost
  PROVE  Written(<<>>, u, lost, 3)
<1> DEFINE of == [k \in 1..0 |-> 3]
<1>1. \A i \in Remaining(u, lost) : ~(i < 3)
  BY UpstreamLength
<1>2. Orders(of, 0, u, lost, 3)
  BY <1>1 DEF Orders
<1>3. QED
  BY <1>2 DEF Written

LEMMA BuiltKept ==
  ASSUME Built, UNCHANGED <<database, served>>
  PROVE  Built'
BY DEF Built, BuiltOf, database

LEMMA GInitially == GenInit => GInv
BY DEF GenInit, GInv, Progress, FileInv, Intact, Built, Unknown, EmptyFile

\* Of a torn file nothing is known.
LEMMA TornFile ==
  ASSUME FileInv, file' = Torn(file) \/ (file.torn /\ file' = file)
  PROVE  FileInv' /\ file'.torn
BY DEF FileInv, Torn

\* A run that ends leaves the file as it is, or torn.
LEMMA RunEnds ==
  ASSUME Progress, FileInv, gpc' = "idle", outcome' # "ok", Stopped \/ UNCHANGED file
  PROVE  Progress' /\ FileInv'
<1>1. Progress'
  BY DEF Progress
<1>2. CASE file' = Torn(file)
  BY <1>1, <1>2, TornFile
<1>3. CASE file' = file
  BY <1>1, <1>3 DEF FileInv, Intact, Complete, Written, Orders
<1>4. QED
  BY <1>2, <1>3 DEF Stopped

\* The parts of a run.
LEMMA CreateKeeps == Progress /\ FileInv /\ Create => Progress' /\ FileInv'
<1> SUFFICES ASSUME Progress, FileInv, Create PROVE Progress' /\ FileInv'
  OBVIOUS
<1>1. gpc = "create" /\ upstream \in Upstreams /\ outcome # "ok" /\ upstream' = upstream
  BY DEF Create, Progress
<1>2. CASE Fail /\ UNCHANGED file
  BY <1>2, RunEnds DEF Fail
<1>3. CASE /\ HasHeader(upstream) /\ gpc' = "defaults" /\ outcome' = outcome /\ next' = 3
           /\ file' = EmptyFile(upstream)
  <2>1. /\ DOMAIN file' = {"begun", "whole", "torn", "defaults", "devices", "lost", "of"}
        /\ file'.begun = FALSE /\ file'.whole = FALSE /\ file'.devices = <<>> /\ file'.lost = {}
        /\ file'.of = upstream
    BY <1>3 DEF EmptyFile
  <2>2. QED
    BY <1>1, <1>3, <2>1 DEF Progress, FileInv, Intact
<1>4. QED
  BY <1>2, <1>3 DEF Create, Proceed

LEMMA DefaultsKeep == Progress /\ FileInv /\ Defaults => Progress' /\ FileInv'
<1> SUFFICES ASSUME Progress, FileInv, Defaults PROVE Progress' /\ FileInv'
  OBVIOUS
<1>1. /\ gpc = "defaults" /\ upstream \in Upstreams /\ outcome # "ok" /\ HasHeader(upstream)
      /\ next = 3 /\ upstream' = upstream
  BY DEF Defaults, Progress
<1>2. CASE Fail /\ Stopped
  BY <1>2, RunEnds DEF Fail
<1> DEFINE more == [file EXCEPT !.begun = TRUE, !.defaults = DefaultsOf(upstream)]
<1>3. CASE /\ gpc' = "devices" /\ outcome' = outcome /\ next' = next
           /\ Write(more, file) /\ names' = NamesOf(DefaultsOf(upstream))
  <2>1. Progress'
    <3>1. 3 \in 3..Len(upstream) + 1
      BY <1>1, UpstreamLength DEF HasHeader
    <3>2. QED
      BY <1>1, <1>3, <3>1 DEF Progress
  <2>2. CASE file'.torn
    <3>1. file' = Torn(file) \/ (file.torn /\ file' = file)
      BY <1>3, <2>2 DEF Write, FileInv
    <3>2. QED
      BY <2>1, <3>1, TornFile
  <2>3. CASE ~file'.torn
    <3>1. ~file.torn /\ file' \in {more, file}
      <4>1. ~file.torn
        BY <1>3, <2>3 DEF Write
      <4>2. file' # Torn(file)
        BY <2>3 DEF Torn, FileInv
      <4>3. QED
        BY <1>3, <4>1, <4>2 DEF Write
    <3>2. /\ DOMAIN file' = DOMAIN file /\ file'.whole = file.whole /\ file'.devices = file.devices
          /\ file'.lost = file.lost /\ file'.of = file.of
          /\ file' = file \/ file'.defaults = DefaultsOf(upstream)
      BY <3>1 DEF FileInv
    <3>3. /\ file.of = upstream /\ ~file.whole /\ file.devices = <<>> /\ file.lost = {}
          /\ ~file.begun
      BY <1>1, <3>1 DEF FileInv, Intact
    <3>4. Written(file.devices, upstream, file.lost, next)
      BY <1>1, <3>3, NothingWritten
    <3> HIDE DEF more
    <3>5. Written(file.devices, upstream, file.lost, next)'
      <4>1. Written(file'.devices, upstream', file'.lost, next')
        BY <1>1, <1>3, <3>2, <3>4
      <4>2. QED
        BY <4>1 DEF Written, Orders, DevicesOf, DeviceOf, PresetsOf, DefaultsOf
    <3>6. (file.begun => file.defaults = DefaultsOf(upstream))'
      BY <1>1, <3>2, <3>3 DEF DefaultsOf
    <3>7. Intact'
      BY <1>1, <1>3, <3>2, <3>3, <3>5, <3>6 DEF Intact
    <3>8. QED
      BY <2>1, <3>2, <3>7 DEF FileInv
  <2>4. QED
    BY <2>1, <2>2, <2>3, TornFile DEF Write
<1>4. QED
  BY <1>2, <1>3 DEF Defaults, Proceed, DefaultsOf

LEMMA DeviceKeeps == Progress /\ FileInv /\ Device => Progress' /\ FileInv'
<1> SUFFICES ASSUME Progress, FileInv, Device PROVE Progress' /\ FileInv'
  OBVIOUS
<1>1. /\ gpc = "devices" /\ upstream \in Upstreams /\ outcome # "ok" /\ HasHeader(upstream)
      /\ names = NamesOf(DefaultsOf(upstream))
      /\ next \in 3..Len(upstream) + 1 /\ next <= Len(upstream) /\ upstream' = upstream
  BY DEF Device, Progress
<1>2. next \in 3..Len(upstream) /\ next + 1 \in 3..Len(upstream) + 1
  BY <1>1, UpstreamLength
<1>3. CASE Fail /\ Stopped
  BY <1>3, RunEnds DEF Fail
<1> DEFINE more == [file EXCEPT !.devices = Append(@, DeviceOf(upstream, next))]
           less == [file EXCEPT !.lost = @ \cup {next}]
<1>4. CASE /\ next' = next + 1 /\ UNCHANGED <<gpc, outcome, names>>
           /\ \/ upstream[next].family = "USB" /\ UNCHANGED file
              \/ upstream[next].family # "USB" /\ Write(more, less)
  <2>1. Progress'
    BY <1>1, <1>2, <1>4 DEF Progress
  <2>2. CASE file'.torn
    <3>1. file' = Torn(file) \/ (file.torn /\ file' = file)
      BY <1>4, <2>2 DEF Write, FileInv
    <3>2. QED
      BY <2>1, <3>1, TornFile
  <2>3. CASE ~file'.torn
    <3>1. ~file.torn /\ file' # Torn(file)
      BY <1>4, <2>3 DEF Write, Torn, FileInv
    <3>2. /\ file.of = upstream /\ ~file.whole /\ file.lost \subseteq 3..next - 1
          /\ file.begun => file.defaults = DefaultsOf(upstream)
          /\ Written(file.devices, upstream, file.lost, next)
      BY <1>1, <3>1 DEF FileInv, Intact
    <3>3. CASE upstream[next].family = "USB" /\ UNCHANGED file
      <4>1. Remaining(upstream, file.lost) = Remaining(upstream, file.lost) \ {next}
        BY <3>3 DEF Remaining, DrivesOf
      <4>2. Written(file.devices, upstream, file.lost, next + 1)
        BY <1>1, <3>2, <4>1, NoMoreDevice
      <4>3. file.lost \subseteq 3..(next + 1) - 1
        BY <1>1, <1>2, <3>2
      <4>4. QED
        BY <1>1, <1>4, <2>1, <3>1, <3>2, <3>3, <4>2, <4>3 DEF FileInv, Intact
    <3>4. CASE upstream[next].family # "USB" /\ file' = more
      <4>1. /\ DOMAIN file' = DOMAIN file /\ file'.whole = file.whole /\ file'.of = file.of
            /\ file'.lost = file.lost /\ file'.begun = file.begun /\ file'.defaults = file.defaults
            /\ file'.devices = Append(file.devices, DeviceOf(upstream, next))
        BY <3>4 DEF FileInv
      <4>2. next \in Remaining(upstream, file.lost)
        BY <1>2, <3>2, <3>4 DEF Remaining, DrivesOf
      <4>3. Written(Append(file.devices, DeviceOf(upstream, next)), upstream, file.lost, next + 1)
        BY <1>1, <3>2, <4>2, OneMoreDevice
      <4>4. file.lost \subseteq 3..(next + 1) - 1
        BY <1>1, <1>2, <3>2
      <4>5. QED
        BY <1>1, <1>4, <2>1, <3>1, <3>2, <4>1, <4>3, <4>4 DEF FileInv, Intact
    <3>5. CASE upstream[next].family # "USB" /\ file' = less
      <4>1. /\ DOMAIN file' = DOMAIN file /\ file'.whole = file.whole /\ file'.of = file.of
            /\ file'.devices = file.devices /\ file'.begun = file.begun /\ file'.defaults = file.defaults
            /\ file'.lost = file.lost \cup {next}
        BY <3>5 DEF FileInv
      <4>2. Remaining(upstream, file.lost \cup {next}) = Remaining(upstream, file.lost) \ {next}
        BY DEF Remaining
      <4>3. \A all : Remaining(upstream, all) = Remaining(upstream, file.lost) \ {next}
                       => Written(file.devices, upstream, all, next + 1)
        BY <1>1, <3>2, NoMoreDevice
      <4>4. Written(file.devices, upstream, file.lost \cup {next}, next + 1)
        BY <4>2, <4>3
      <4>5. file.lost \cup {next} \subseteq 3..(next + 1) - 1
        BY <1>1, <1>2, <3>2
      <4>6. QED
        BY <1>1, <1>4, <2>1, <3>1, <3>2, <4>1, <4>4, <4>5 DEF FileInv, Intact
    <3>6. QED
      BY <1>4, <3>1, <3>3, <3>4, <3>5 DEF Write
  <2>4. QED
    BY <2>2, <2>3
<1>5. QED
  BY <1>1, <1>3, <1>4 DEF Device, DeviceInfo, DeviceOf, PresetsOf

LEMMA FinishKeeps == Progress /\ FileInv /\ Finish => Progress' /\ FileInv'
<1> SUFFICES ASSUME Progress, FileInv, Finish PROVE Progress' /\ FileInv'
  OBVIOUS
<1>1. /\ gpc = "devices" /\ upstream \in Upstreams /\ outcome # "ok" /\ HasHeader(upstream)
      /\ next \in 3..Len(upstream) + 1 /\ next > Len(upstream)
      /\ gpc' = "gofmt" /\ outcome' = outcome /\ upstream' = upstream
  BY DEF Finish, Proceed, Progress
<1>2. next = Len(upstream) + 1
  BY <1>1, UpstreamLength
<1>3. /\ DOMAIN file' = DOMAIN file /\ file'.torn = file.torn /\ file'.begun = file.begun
      /\ file'.defaults = file.defaults /\ file'.devices = file.devices
      /\ file'.lost = file.lost /\ file'.of = file.of
  BY DEF Finish, FileInv
<1>4. ~file.torn => Complete(file')
  BY <1>1, <1>2, <1>3 DEF Complete, FileInv, Intact
<1>5. Complete(file') => Complete(file)'
  BY DEF Complete, Written, Orders, DevicesOf, DeviceOf, PresetsOf, DefaultsOf
<1>6. QED
  BY <1>1, <1>3, <1>4, <1>5 DEF Progress, FileInv, Intact

\* The compiler takes no other file than the generator's, unless it is torn.
LEMMA BuildServes == FileInv /\ Build => Built' \/ UNCHANGED <<database, served>>
<1> SUFFICES ASSUME FileInv, Build, ~UNCHANGED <<database, served>> PROVE Built'
  OBVIOUS
<1>1. CASE served'.of = Unknown
  BY <1>1 DEF Built
<1>2. CASE served'.of # Unknown
  <2>1. /\ ~file.torn /\ Compiles(file)
        /\ ataDefaultAttributes' = Literal(file.defaults)
        /\ ataDevicesDatabase' = [k \in DOMAIN file.devices |->
                                    [file.devices[k] EXCEPT !.presets = Literal(@)]]
        /\ served'.of = file.of /\ served'.lost = file.lost
    BY <1>2 DEF Build
  <2>2. Complete(file)
    BY <2>1 DEF Compiles, FileInv, Intact
  <2>3. PICK of : /\ Orders(of, Len(file.devices), file.of, file.lost, Len(file.of) + 1)
                  /\ \A k \in 1..Len(file.devices) : file.devices[k] = DeviceOf(file.of, of[k])
    BY <2>2 DEF Complete, Written
  <2> DEFINE N == Len(file.devices)
  <2>4. N \in Nat /\ DOMAIN file.devices = 1..N
    BY <2>2 DEF Complete, Written
  <2>5. ASSUME NEW k \in 1..N PROVE NoKeyTwice(PresetsOf(file.of, of[k]))
    <3>1. NoKeyTwice(file.devices[k].presets)
      BY <2>1, <2>4 DEF Compiles
    <3>2. file.devices[k] = DeviceOf(file.of, of[k])
      BY <2>3
    <3>3. file.devices[k].presets = PresetsOf(file.of, of[k])
      BY <3>2 DEF DeviceOf
    <3>4. QED
      BY <3>1, <3>3
  <2>6. ataDevicesDatabase' = Records(file.of, of, N)
    BY <2>1, <2>3, <2>4 DEF Entry, Records
  <2>7. /\ file.of \in Upstreams /\ HasHeader(file.of)
        /\ DefaultsOf(file.of) # NoPresets /\ NoKeyTwice(DefaultsOf(file.of))
        /\ ataDefaultAttributes' = Literal(DefaultsOf(file.of))
    BY <2>1, <2>2 DEF Compiles, Complete
  <2> HIDE DEF N
  <2>8. \E n \in Nat : \E f :
          /\ Orders(f, n, file.of, file.lost, Len(file.of) + 1)
          /\ \A k \in 1..n : NoKeyTwice(PresetsOf(file.of, f[k]))
          /\ ataDevicesDatabase' = Records(file.of, f, n)
    <3>1. Orders(of, N, file.of, file.lost, Len(file.of) + 1)
      BY <2>3 DEF N
    <3>2. QED
      BY <2>4, <2>5, <2>6, <3>1
  <2>9. QED
    BY <2>1, <2>7, <2>8 DEF Built, BuiltOf
<1>3. QED
  BY <1>1, <1>2

LEMMA GStep == GInv /\ [GenNext]_gvars => GInv'
<1> SUFFICES ASSUME Progress, FileInv, Built, [GenNext]_gvars PROVE GInv'
  BY DEF GInv
<1>1. CASE Run
  <2>1. /\ gpc = "idle" /\ gpc' = "extract" /\ outcome' = "none"
        /\ upstream' \in Upstreams \cup {Garbage} /\ file' = file
    BY <1>1 DEF Run
  <2>2. Progress'
    BY <2>1 DEF Progress
  <2>3. FileInv'
    BY <2>1 DEF FileInv, Intact, Complete, Written, Orders
  <2>4. QED
    BY <1>1, <2>2, <2>3, BuiltKept DEF Run, GInv
<1>2. CASE Extract
  <2>1. CASE Fail
    BY <1>2, <2>1, RunEnds, BuiltKept DEF Extract, Fail, GInv
  <2>2. CASE gpc' = "create" /\ outcome' = outcome /\ upstream # Garbage
    <3>1. gpc = "extract" /\ UNCHANGED <<upstream, file>>
      BY <1>2 DEF Extract
    <3>2. Progress'
      BY <2>2, <3>1 DEF Progress
    <3>3. FileInv'
      BY <2>2, <3>1 DEF FileInv, Intact, Complete, Written, Orders
    <3>4. QED
      BY <1>2, <3>2, <3>3, BuiltKept DEF Extract, GInv
  <2>3. QED
    BY <1>2, <2>1, <2>2 DEF Extract, Proceed
<1>3. CASE Create \/ Defaults \/ Device \/ Finish
  <2>1. Progress' /\ FileInv'
    BY <1>3, CreateKeeps, DefaultsKeep, DeviceKeeps, FinishKeeps
  <2>2. UNCHANGED <<database, served>>
    BY <1>3 DEF Create, Defaults, Device, Finish
  <2>3. QED
    BY <2>1, <2>2, BuiltKept DEF GInv
<1>4. CASE Gofmt
  <2>1. CASE Fail /\ Stopped
    BY <1>4, <2>1, RunEnds, BuiltKept DEF Gofmt, Fail, GInv
  <2>2. CASE ~GofmtFails /\ gpc' = "idle" /\ outcome' = "ok" /\ UNCHANGED file
    <3>1. gpc = "gofmt" /\ upstream' = upstream
      BY <1>4 DEF Gofmt
    <3>2. Progress'
      BY <2>2 DEF Progress
    <3>3. FileInv'
      BY <2>2, <3>1 DEF FileInv, Intact, GofmtFails, Complete, Written, Orders
    <3>4. QED
      BY <1>4, <3>2, <3>3, BuiltKept DEF Gofmt, GInv
  <2>3. QED
    BY <1>4, <2>1, <2>2 DEF Gofmt
<1>5. CASE Kill
  <2>1. /\ gpc' = "idle" /\ outcome' # "ok" /\ (Stopped \/ UNCHANGED file)
        /\ UNCHANGED <<database, served>>
    BY <1>5 DEF Kill, Fail
  <2>2. QED
    BY <2>1, RunEnds, BuiltKept DEF GInv
<1>6. CASE Build \/ UNCHANGED gvars
  <2>1. UNCHANGED <<gpc, upstream, next, names, file, outcome>>
    BY <1>6 DEF Build, gvars
  <2>2. Progress'
    BY <2>1 DEF Progress
  <2>3. FileInv'
    BY <2>1 DEF FileInv, Intact, Complete, Written, Orders
  <2>4. Built'
    BY <1>6, BuildServes, BuiltKept DEF gvars
  <2>5. QED
    BY <2>2, <2>3, <2>4 DEF GInv
<1>7. QED
  BY <1>1, <1>2, <1>3, <1>4, <1>5, <1>6 DEF GenNext

LEMMA GInvariance == GenSpec => []GInv
<1>1. QED
  BY GInitially, GStep, PTL DEF GenSpec

\* Whatever the downloads, the failures of the programs the generator calls, the writes that
\* fail and the moments a run is killed at: a run of src/generator/ata_attributes.go that
\* ends without an error, and in which no write failed within a part of the file, has
\* written its beginning and its end and between them, in their order, the records that are
\* not for USB devices but for those that were lost as a whole.
THEOREM SuccessIsWritten == GenSpec => []SuccessMeansWritten
<1>1. ASSUME GInv PROVE SuccessMeansWritten
  <2> SUFFICES ASSUME outcome = "ok", ~file.torn
               PROVE  /\ file.begun /\ file.whole
                      /\ \E of \in [DOMAIN file.devices -> Remaining(upstream, file.lost)] :
                           /\ \A k, m \in DOMAIN of : k < m => of[k] < of[m]
                           /\ \A i \in Remaining(upstream, file.lost) : \E k \in DOMAIN of : of[k] = i
                           /\ \A k \in DOMAIN of : /\ file.devices[k].modelRe = upstream[of[k]].modelRe
                                                   /\ file.devices[k].firmwareRe = upstream[of[k]].firmwareRe
    BY DEF SuccessMeansWritten
  <2>1. /\ file.begun /\ file.whole /\ upstream \in Upstreams
        /\ Written(file.devices, upstream, file.lost, Len(upstream) + 1)
    BY <1>1 DEF GInv, FileInv, Intact, Complete
  <2>2. PICK of : /\ Orders(of, Len(file.devices), upstream, file.lost, Len(upstream) + 1)
                  /\ \A k \in 1..Len(file.devices) : file.devices[k] = DeviceOf(upstream, of[k])
    BY <2>1 DEF Written
  <2>3. DOMAIN file.devices = 1..Len(file.devices)
    BY <2>1 DEF Written
  <2>4. \A i \in Remaining(upstream, file.lost) : i < Len(upstream) + 1
    BY <2>1, UpstreamLength
  <2>5. /\ of \in [DOMAIN file.devices -> Remaining(upstream, file.lost)]
        /\ \A k, m \in DOMAIN of : k < m => of[k] < of[m]
        /\ \A i \in Remaining(upstream, file.lost) : \E k \in DOMAIN of : of[k] = i
    BY <2>2, <2>3, <2>4 DEF Orders
  <2>6. \A k \in DOMAIN of : /\ file.devices[k].modelRe = upstream[of[k]].modelRe
                             /\ file.devices[k].firmwareRe = upstream[of[k]].firmwareRe
    <3>1. ASSUME NEW i PROVE /\ DeviceOf(upstream, i).modelRe = upstream[i].modelRe
                             /\ DeviceOf(upstream, i).firmwareRe = upstream[i].firmwareRe
      BY DEF DeviceOf
    <3>2. \A k \in DOMAIN of : file.devices[k] = DeviceOf(upstream, of[k])
      BY <2>2, <2>3, <2>5
    <3>3. QED
      BY <3>1, <3>2
  <2>7. QED
    BY <2>1, <2>5, <2>6
<1>2. QED
  BY <1>1, GInvariance, PTL


-----------------------------------------------------------------------------
(* What the generator prints, as the program reads it.                     *)

\* nil is not a map.
NilIsNoMap == NoPresets # [k \in DOMAIN NoPresets |-> NoPresets[k]]

\* An option as the generator prints it, but for a name that it leaves open.
LEMMA ModernFields ==
  ASSUME NEW o, DOMAIN o = {"key", "fields", "id", "type", "order", "name"}
  PROVE  Modern(o).order = o.order
<1> DEFINE old == oldAttrValue[<<o.id, o.type>>]
<1>1. Modern(o) = o \/ Modern(o) = [o EXCEPT !.type = old[1], !.name = old[2]]
  BY DEF Modern
<1> HIDE DEF old
<1>2. QED
  BY <1>1

\* An option as an entry of a map literal, and the literal of the options of record i.
Entered(o, known) ==
  [id |-> o.id, name |-> Inherited(known, o.id, Modern(o).name),
   type |-> attributeTypeId[Modern(o).type], order |-> o.order]
Prints(q, u, i, known) ==
  IF u[i].presets = <<>> THEN q = NoPresets
  ELSE q = [k \in OptionsAt(u[i].presets, "-v") |-> Entered(u[i].presets[k], known)]

LEMMA NothingKnown == \A id, name : Inherited(NoNames, id, name) = name
BY Zenon DEF Inherited, NoNames

LEMMA DefaultsArePrinted == ASSUME NEW u PROVE Prints(DefaultsOf(u), u, 2, NoNames)
<1>1. \A o : Printed(o, FALSE, NoNames) = Entered(o, NoNames)
  BY NothingKnown, Zenon DEF Printed, Entered
<1>2. QED
  BY <1>1 DEF Prints, DefaultsOf, printPresets

LEMMA PresetsArePrinted ==
  ASSUME NEW u, NEW i PROVE Prints(PresetsOf(u, i), u, i, NamesOf(DefaultsOf(u)))
<1>1. \A o, known : Printed(o, TRUE, known) = Entered(o, known)
  BY DEF Printed, Entered
<1>2. QED
  BY <1>1 DEF Prints, PresetsOf, printPresets

\* The keys of a map literal.
KeysOf(q) == {q[k].id : k \in DOMAIN q}

\* The options of a record, by their places.
LEMMA PrintedOptions ==
  ASSUME NilIsNoMap, NEW u \in Upstreams, NEW i \in DOMAIN u, NEW known,
         NEW q, Prints(q, u, i, known)
  PROVE  /\ q = NoPresets <=> u[i].presets = <<>>
         /\ q # NoPresets => KeysOf(q) = IdsOf(u, i)
         /\ q = NoPresets => IdsOf(u, i) = {}
         /\ q # NoPresets => \A k \in DOMAIN q : /\ k \in OptionsAt(u[i].presets, "-v")
                                                 /\ q[k] = Entered(u[i].presets[k], known)
                                                 /\ q[k].id = u[i].presets[k].id
         /\ q # NoPresets => DOMAIN q = OptionsAt(u[i].presets, "-v")
<1> DEFINE p == u[i].presets
<1>1. CASE p = <<>>
  <2>1. q = NoPresets
    BY <1>1 DEF Prints
  <2>2. IdsOf(u, i) = {}
    BY <1>1 DEF IdsOf, OptionsAt
  <2>3. QED
    BY <1>1, <2>1, <2>2
<1>2. CASE p # <<>>
  <2>1. q = [k \in OptionsAt(p, "-v") |-> Entered(p[k], known)]
    BY <1>2 DEF Prints
  <2>2. q = [k \in DOMAIN q |-> q[k]]
    BY <2>1
  <2>3. q # NoPresets
    BY <2>2 DEF NilIsNoMap
  <2>4. /\ DOMAIN q = OptionsAt(p, "-v")
        /\ \A k \in DOMAIN q : q[k] = Entered(p[k], known)
    BY <2>1
  <2> HIDE DEF p
  <2>5. ASSUME NEW k \in DOMAIN q PROVE q[k].id = p[k].id
    <3>1. q[k] = Entered(p[k], known)
      BY <2>4
    <3>2. QED
      BY <3>1 DEF Entered
  <2>6. KeysOf(q) = IdsOf(u, i)
    BY <2>4, <2>5 DEF IdsOf, KeysOf, p
  <2>7. QED
    BY <1>2, <2>3, <2>4, <2>5, <2>6 DEF p
<1>3. QED
  BY <1>1, <1>2

\* A map literal without a key twice has the entries that are written in it.
LEMMA LiteralEntries ==
  ASSUME NEW q, q # NoPresets, NoKeyTwice(q), NEW k \in DOMAIN q
  PROVE  /\ q[k].id \in DOMAIN Literal(q)
         /\ Literal(q)[q[k].id] = [name |-> q[k].name, type |-> q[k].type, order |-> q[k].order]
<1> DEFINE c == CHOOSE m \in DOMAIN q : q[m].id = q[k].id
<1>1. c \in DOMAIN q /\ q[c].id = q[k].id
  OBVIOUS
<1>2. c = k
  BY <1>1 DEF NoKeyTwice
<1>3. q[k].id \in {q[m].id : m \in DOMAIN q}
  OBVIOUS
<1>4. QED
  BY <1>2, <1>3 DEF Literal

LEMMA LiteralDomain ==
  ASSUME NEW q
  PROVE  /\ q = NoPresets => Literal(q) = NoPresets
         /\ q # NoPresets => DOMAIN Literal(q) = KeysOf(q)
         /\ NilIsNoMap /\ q # NoPresets => Literal(q) # NoPresets
<1>1. CASE q = NoPresets
  BY <1>1 DEF Literal
<1>2. CASE q # NoPresets
  <2>1. Literal(q) = [id \in {q[k].id : k \in DOMAIN q} |->
          LET a == q[CHOOSE k \in DOMAIN q : q[k].id = id]
          IN  [name |-> a.name, type |-> a.type, order |-> a.order]]
    BY <1>2 DEF Literal
  <2>2. Literal(q) = [id \in DOMAIN Literal(q) |-> Literal(q)[id]]
    BY <2>1
  <2>3. NilIsNoMap => Literal(q) # NoPresets
    BY <2>2 DEF NilIsNoMap
  <2>4. DOMAIN Literal(q) = KeysOf(q)
    BY <2>1 DEF KeysOf
  <2>5. QED
    BY <1>2, <2>3, <2>4
<1>3. QED
  BY <1>1, <1>2

\* The one option of a record for an attribute.
LEMMA OneOption ==
  ASSUME NilIsNoMap, NEW u \in Upstreams, NEW i \in DOMAIN u, NEW known,
         NEW q, Prints(q, u, i, known), q # NoPresets, NoKeyTwice(q),
         NEW k \in DOMAIN q
  PROVE  /\ Options(u, i, q[k].id) = {Modern(u[i].presets[k])}
         /\ DOMAIN u[i].presets[k] = {"key", "fields", "id", "type", "order", "name"}
         /\ q[k] = Entered(u[i].presets[k], known)
<1> DEFINE p == u[i].presets
<1>1. /\ DOMAIN q = OptionsAt(p, "-v")
      /\ \A m \in DOMAIN q : q[m] = Entered(p[m], known)
  BY PrintedOptions
<1>2. \A m \in DOMAIN q : q[m].id = p[m].id
  BY PrintedOptions
<1>3. \A m \in DOMAIN q : p[m].id = q[k].id => m = k
  BY <1>2 DEF NoKeyTwice
<1>4. AttributesAt(u, i, q[k].id) = {k}
  BY <1>1, <1>2, <1>3 DEF AttributesAt
<1>5. k \in DOMAIN p
  BY <1>1 DEF OptionsAt
<1>6. DOMAIN p[k] = {"key", "fields", "id", "type", "order", "name"}
  BY <1>5, GeneratorAssumption
<1>7. QED
  BY <1>1, <1>4, <1>6 DEF Options

LEMMA NoOption ==
  ASSUME NEW u, NEW i, NEW id, id \notin IdsOf(u, i)
  PROVE  Options(u, i, id) = {}
<1>1. AttributesAt(u, i, id) = {}
  BY DEF AttributesAt, IdsOf
<1>2. QED
  BY <1>1 DEF Options

\* What the defaults say of an attribute: one option, or none; and its name.
LEMMA DefaultOption ==
  ASSUME NilIsNoMap, NEW u \in Upstreams, HasHeader(u),
         DefaultsOf(u) # NoPresets, NoKeyTwice(DefaultsOf(u)), NEW id \in IdsOf(u, 2)
  PROVE  \E o : /\ Options(u, 2, id) = {o}
                /\ id \in DOMAIN NamesOf(DefaultsOf(u)) /\ NamesOf(DefaultsOf(u))[id] = o.name
                /\ id \in DOMAIN Literal(DefaultsOf(u))
                /\ Literal(DefaultsOf(u))[id] =
                     [name |-> o.name, type |-> attributeTypeId[o.type], order |-> o.order]
<1> DEFINE q == DefaultsOf(u)
           p == u[2].presets
<1>1. 2 \in DOMAIN u
  BY UpstreamLength DEF HasHeader
<1>2. Prints(q, u, 2, NoNames)
  BY DefaultsArePrinted
<1>3. q # NoPresets
  OBVIOUS
<1> HIDE DEF q
<1>30. KeysOf(q) = IdsOf(u, 2)
  BY <1>1, <1>2, <1>3, PrintedOptions
<1>4. PICK k \in DOMAIN q : id = q[k].id
  BY <1>30 DEF KeysOf
<1>5. /\ Options(u, 2, id) = {Modern(p[k])} /\ q[k] = Entered(p[k], NoNames)
      /\ Modern(p[k]).order = p[k].order
  <2>1. q # NoPresets /\ NoKeyTwice(q)
    BY DEF q
  <2>2. /\ Options(u, 2, q[k].id) = {Modern(p[k])} /\ q[k] = Entered(p[k], NoNames)
        /\ DOMAIN p[k] = {"key", "fields", "id", "type", "order", "name"}
    BY <1>1, <1>2, <1>4, <2>1, OneOption
  <2>3. QED
    BY <1>4, <2>2, ModernFields
<1> HIDE DEF p
<1>6. /\ q[k].name = Modern(p[k]).name /\ q[k].type = attributeTypeId[Modern(p[k]).type]
      /\ q[k].order = Modern(p[k]).order
  BY <1>5, NothingKnown DEF Entered
<1>7. /\ id \in DOMAIN Literal(q)
      /\ Literal(q)[id] = [name |-> q[k].name, type |-> q[k].type, order |-> q[k].order]
  BY <1>4, LiteralEntries DEF q
<1>8. id \in DOMAIN NamesOf(q) /\ NamesOf(q)[id] = q[k].name
  BY <1>7 DEF NamesOf, q
<1>9. QED
  BY <1>5, <1>6, <1>7, <1>8 DEF q

\* The names of the defaults are those of their attributes.
LEMMA NamesDomain ==
  ASSUME NilIsNoMap, NEW u \in Upstreams, HasHeader(u), DefaultsOf(u) # NoPresets
  PROVE  DOMAIN NamesOf(DefaultsOf(u)) = IdsOf(u, 2) /\ DOMAIN Literal(DefaultsOf(u)) = IdsOf(u, 2)
<1>1. 2 \in DOMAIN u
  BY UpstreamLength DEF HasHeader
<1>2. Prints(DefaultsOf(u), u, 2, NoNames)
  BY DefaultsArePrinted
<1>3. KeysOf(DefaultsOf(u)) = IdsOf(u, 2)
  BY <1>1, <1>2, PrintedOptions
<1>4. QED
  BY <1>3, LiteralDomain DEF NamesOf

\* An attribute that the record of the drive does not have.
LEMMA AttributeOfDefaults ==
  ASSUME NilIsNoMap, NEW u \in Upstreams, HasHeader(u),
         DefaultsOf(u) # NoPresets, NoKeyTwice(DefaultsOf(u)),
         NEW i, NEW id \in IdsOf(u, 2), i = 2 \/ id \notin IdsOf(u, i)
  PROVE  AttributeOf(u, i, id) = {Literal(DefaultsOf(u))[id]}
<1>1. PICK o : /\ Options(u, 2, id) = {o}
               /\ Literal(DefaultsOf(u))[id] =
                    [name |-> o.name, type |-> attributeTypeId[o.type], order |-> o.order]
  BY DefaultOption
<1>2. (IF Options(u, i, id) # {} THEN Options(u, i, id) ELSE Options(u, 2, id)) = {o}
  BY <1>1, NoOption
<1>3. {x.name : x \in {o}} = {o.name} /\ {o.name} # {} /\ (CHOOSE n \in {o.name} : TRUE) = o.name
  OBVIOUS
<1>4. AttributeOf(u, i, id) =
        {[name |-> IF x.name = "" /\ {o.name} # {} THEN o.name ELSE x.name,
          type |-> attributeTypeId[x.type], order |-> x.order] : x \in {o}}
  BY <1>1, <1>2, <1>3, Zenon DEF AttributeOf
<1>5. QED
  BY <1>1, <1>4

\* An attribute that the record of the drive has.
LEMMA AttributeOfRecord ==
  ASSUME NilIsNoMap, NEW u \in Upstreams, HasHeader(u),
         DefaultsOf(u) # NoPresets, NoKeyTwice(DefaultsOf(u)),
         NEW i \in DrivesOf(u), NoKeyTwice(PresetsOf(u, i)), NEW id \in IdsOf(u, i)
  PROVE  /\ PresetsOf(u, i) # NoPresets /\ id \in DOMAIN Literal(PresetsOf(u, i))
         /\ AttributeOf(u, i, id) = {Literal(PresetsOf(u, i))[id]}
<1> DEFINE q == PresetsOf(u, i)
           p == u[i].presets
           names0 == NamesOf(DefaultsOf(u))
<1>1. i \in DOMAIN u
  BY UpstreamLength
<1>2. Prints(q, u, i, names0)
  BY PresetsArePrinted
<1> HIDE DEF q, names0
<1>3. q # NoPresets /\ KeysOf(q) = IdsOf(u, i)
  BY <1>1, <1>2, PrintedOptions
<1>4. PICK k \in DOMAIN q : id = q[k].id
  BY <1>3 DEF KeysOf
<1> DEFINE o == Modern(p[k])
<1>5. /\ Options(u, i, id) = {o} /\ q[k] = Entered(p[k], names0) /\ o.order = p[k].order
      /\ id = p[k].id
  <2>1. NoKeyTwice(q)
    BY DEF q
  <2>2. /\ Options(u, i, q[k].id) = {o} /\ q[k] = Entered(p[k], names0)
        /\ DOMAIN p[k] = {"key", "fields", "id", "type", "order", "name"}
    BY <1>1, <1>2, <1>3, <1>4, <2>1, OneOption
  <2>3. q[k].id = p[k].id
    BY <1>1, <1>2, <1>3, <1>4, PrintedOptions
  <2>4. QED
    BY <1>4, <2>2, <2>3, ModernFields
<1> HIDE DEF p
<1>6. /\ q[k].name = Inherited(names0, id, o.name) /\ q[k].type = attributeTypeId[o.type]
      /\ q[k].order = o.order
  BY <1>5 DEF Entered
<1>7. /\ id \in DOMAIN Literal(q)
      /\ Literal(q)[id] = [name |-> q[k].name, type |-> q[k].type, order |-> q[k].order]
  BY <1>3, <1>4, LiteralEntries DEF q
<1> DEFINE known == {x.name : x \in Options(u, 2, id)}
<1>8. (IF o.name = "" /\ known # {} THEN CHOOSE n \in known : TRUE ELSE o.name) = q[k].name
  <2>1. CASE id \in IdsOf(u, 2)
    <3>1. PICK d : Options(u, 2, id) = {d} /\ id \in DOMAIN names0 /\ names0[id] = d.name
      BY <2>1, DefaultOption DEF names0
    <3>2. known = {d.name}
      BY <3>1
    <3> HIDE DEF known, o
    <3>3. known # {} /\ (CHOOSE n \in known : TRUE) = d.name
      BY <3>2
    <3>4. QED
      BY <1>6, <3>1, <3>3, Zenon DEF Inherited
  <2>2. CASE id \notin IdsOf(u, 2)
    <3>1. known = {} /\ id \notin DOMAIN names0
      BY <2>2, NoOption, NamesDomain DEF names0
    <3> HIDE DEF known, o
    <3>2. QED
      BY <1>6, <3>1 DEF Inherited
  <2>3. QED
    BY <2>1, <2>2, Zenon
<1>9. AttributeOf(u, i, id) =
        {[name |-> IF x.name = "" /\ known # {} THEN CHOOSE n \in known : TRUE ELSE x.name,
          type |-> attributeTypeId[x.type], order |-> x.order] : x \in {o}}
  BY <1>5 DEF AttributeOf
<1> HIDE DEF known, o
<1>10. AttributeOf(u, i, id) = {Literal(q)[id]}
  BY <1>6, <1>7, <1>8, <1>9, Zenon
<1>11. QED
  BY <1>3, <1>7, <1>10 DEF q

\* How the program came about: by Built, from the records of[1], ..., of[N] of u
\* that are kept.
From(u, lost, of, N) ==
  /\ u \in Upstreams /\ HasHeader(u)
  /\ DefaultsOf(u) # NoPresets /\ NoKeyTwice(DefaultsOf(u))
  /\ ataDefaultAttributes = Literal(DefaultsOf(u))
  /\ N \in Nat /\ Orders(of, N, u, lost, Len(u) + 1)
  /\ \A k \in 1..N : NoKeyTwice(PresetsOf(u, of[k]))
  /\ ataDevicesDatabase = Records(u, of, N)

\* The records at which the loop of findMatchingDbRecord ends.
Ends(model, firmware) ==
  {k \in DOMAIN ataDevicesDatabase :
     IsMalformed(ataDevicesDatabase[k], model) \/ IsMatch(ataDevicesDatabase[k], model, firmware)}
LeastOf(S) == CHOOSE i \in S : \A j \in S : i <= j

LEMMA LeastIs ==
  ASSUME NEW S \in SUBSET Nat, NEW n \in S, \A m \in S : n <= m
  PROVE  LeastOf(S) = n
<1>1. LeastOf(S) \in S /\ \A m \in S : LeastOf(S) <= m
  BY DEF LeastOf
<1>2. n \in Nat /\ LeastOf(S) \in Nat
  BY <1>1
<1>3. n <= LeastOf(S) /\ LeastOf(S) <= n
  BY <1>1
<1>4. QED
  BY <1>2, <1>3

\* The database is the records, in their order.
LEMMA SameRecords ==
  ASSUME NEW u, NEW lost, NEW of, NEW N, From(u, lost, of, N)
  PROVE  /\ N \in Nat /\ DOMAIN ataDevicesDatabase = 1..N
         /\ \A k \in 1..N :
              /\ of[k] \in Remaining(u, lost) /\ of[k] \in Nat /\ of[k] > 2
              /\ ataDevicesDatabase[k] = Entry(u, of[k])
              /\ NoKeyTwice(PresetsOf(u, of[k]))
         /\ \A k, m \in 1..N : k < m => of[k] < of[m]
         /\ \A i \in Remaining(u, lost) : \E k \in 1..N : of[k] = i
<1>1. /\ N \in Nat /\ of \in [1..N -> Remaining(u, lost)] /\ u \in Upstreams
      /\ \A k, m \in 1..N : k < m => of[k] < of[m]
      /\ \A i \in Remaining(u, lost) : i < Len(u) + 1 => \E k \in 1..N : of[k] = i
      /\ \A k \in 1..N : NoKeyTwice(PresetsOf(u, of[k]))
  BY DEF From, Orders
<1>2. Remaining(u, lost) \subseteq 3..Len(u) /\ Len(u) \in Nat
  BY <1>1, UpstreamLength
<1>3. DOMAIN ataDevicesDatabase = 1..N /\ \A k \in 1..N : ataDevicesDatabase[k] = Entry(u, of[k])
  BY DEF From, Records
<1>4. \A i \in Remaining(u, lost) : i < Len(u) + 1 /\ i \in Nat /\ i > 2
  BY <1>2
<1>5. QED
  BY <1>1, <1>3, <1>4

LEMMA SameExpressions ==
  ASSUME NEW u, NEW i, NEW model, NEW firmware
  PROVE  /\ IsMatch(Entry(u, i), model, firmware) <=> IsMatch(u[i], model, firmware)
         /\ IsMalformed(Entry(u, i), model) <=> IsMalformed(u[i], model)
         /\ Entry(u, i).presets = Literal(PresetsOf(u, i)) /\ Entry(u, i).bug = BugsOf(u[i].presets)
<1>1. /\ Entry(u, i).modelRe = u[i].modelRe /\ Entry(u, i).firmwareRe = u[i].firmwareRe
      /\ Entry(u, i).presets = Literal(PresetsOf(u, i)) /\ Entry(u, i).bug = BugsOf(u[i].presets)
  BY DEF Entry, DeviceOf
<1>2. QED
  BY <1>1 DEF IsMatch, IsMalformed, ModelMatches

LEMMA MatchOrMalformed ==
  ASSUME NEW db, NEW model, NEW firmware, IsMatch(db, model, firmware)
  PROVE  ~IsMalformed(db, model)
BY GeneratorAssumption DEF IsMatch, IsMalformed, ModelMatches

\* The loop goes through all records: none of them is for the drive.
LEMMA NoneFound ==
  ASSUME NEW u, NEW lost, NEW of, NEW N, From(u, lost, of, N), NEW model, NEW firmware, Ends(model, firmware) = {}
  PROVE  /\ findMatchingDbRecord(model, firmware) = NotFound
         /\ FirstFor(u, lost, model, firmware) = 2
<1>1. RecordsFor(u, lost, model, firmware) = {}
  <2> SUFFICES ASSUME NEW i \in Remaining(u, lost), IsMatch(u[i], model, firmware) PROVE FALSE
    BY DEF RecordsFor
  <2>1. PICK k \in 1..N : of[k] = i
    BY SameRecords
  <2>2. ataDevicesDatabase[k] = Entry(u, i) /\ k \in DOMAIN ataDevicesDatabase
    BY <2>1, SameRecords
  <2>3. IsMatch(ataDevicesDatabase[k], model, firmware)
    BY <2>2, SameExpressions
  <2>4. QED
    BY <2>2, <2>3 DEF Ends
<1>2. QED
  BY <1>1 DEF FirstFor, findMatchingDbRecord, Ends

\* The loop ends at record k.
LEMMA FirstEnd ==
  ASSUME NEW u, NEW lost, NEW of, NEW N, From(u, lost, of, N), NEW model, NEW firmware, Ends(model, firmware) # {}
  PROVE  \E k \in 1..N :
           /\ IsMalformed(u[of[k]], model) \/ IsMatch(u[of[k]], model, firmware)
           /\ \A i \in RecordsFor(u, lost, model, firmware) : of[k] <= i
           /\ IsMalformed(u[of[k]], model) =>
                findMatchingDbRecord(model, firmware) = [err |-> TRUE, found |-> FALSE]
           /\ ~IsMalformed(u[of[k]], model) =>
                findMatchingDbRecord(model, firmware) = [err |-> FALSE, found |-> TRUE, db |-> Entry(u, of[k])]
<1> DEFINE E == Ends(model, firmware)
<1>1. E \subseteq 1..N /\ N \in Nat /\ E \in SUBSET Nat
  BY SameRecords DEF Ends
<1> HIDE DEF E
<1>2. PICK k \in E : \A m \in E : k <= m
  BY <1>1, LeastNatural DEF E
<1>3. LeastOf(E) = k
  BY <1>1, <1>2, LeastIs
<1>4. /\ k \in 1..N /\ ataDevicesDatabase[k] = Entry(u, of[k])
      /\ IsMalformed(ataDevicesDatabase[k], model) \/ IsMatch(ataDevicesDatabase[k], model, firmware)
  BY <1>1, <1>2, SameRecords DEF E, Ends
<1>5. /\ IsMalformed(ataDevicesDatabase[k], model) <=> IsMalformed(u[of[k]], model)
      /\ IsMatch(ataDevicesDatabase[k], model, firmware) <=> IsMatch(u[of[k]], model, firmware)
  BY <1>4, SameExpressions
<1>6. ASSUME NEW i \in RecordsFor(u, lost, model, firmware) PROVE of[k] <= i
  <2>1. i \in Remaining(u, lost) /\ IsMatch(u[i], model, firmware)
    BY DEF RecordsFor
  <2>2. PICK m \in 1..N : of[m] = i
    BY <2>1, SameRecords
  <2>3. ataDevicesDatabase[m] = Entry(u, i) /\ m \in DOMAIN ataDevicesDatabase
    BY <2>2, SameRecords
  <2>4. m \in E
    BY <2>1, <2>3, SameExpressions DEF E, Ends
  <2>5. k = m \/ k < m
    BY <1>1, <1>2, <2>4
  <2>6. of[k] \in Nat /\ of[m] \in Nat /\ (k < m => of[k] < of[m])
    BY <1>4, SameRecords
  <2>7. QED
    BY <2>2, <2>5, <2>6
<1>7. findMatchingDbRecord(model, firmware) =
        IF IsMalformed(ataDevicesDatabase[k], model) THEN [err |-> TRUE, found |-> FALSE]
        ELSE [err |-> FALSE, found |-> TRUE, db |-> ataDevicesDatabase[k]]
  <2>1. E # {}
    BY DEF E
  <2>2. findMatchingDbRecord(model, firmware) =
          IF E = {} THEN NotFound
          ELSE IF IsMalformed(ataDevicesDatabase[LeastOf(E)], model) THEN [err |-> TRUE, found |-> FALSE]
          ELSE [err |-> FALSE, found |-> TRUE, db |-> ataDevicesDatabase[LeastOf(E)]]
    BY Zenon DEF findMatchingDbRecord, E, Ends, LeastOf
  <2>3. QED
    BY <1>3, <2>1, <2>2
<1>8. QED
  BY <1>4, <1>5, <1>6, <1>7

\* What the look-up answers, of a record for the drive or (i = 2) of none.
LEMMA ServedAttributes ==
  ASSUME NilIsNoMap, NEW u, NEW lost, NEW of, NEW N, From(u, lost, of, N), NEW i, NEW found,
         \/ i = 2 /\ found = ataDefaultAttributes
         \/ /\ i \in DrivesOf(u) /\ NoKeyTwice(PresetsOf(u, i))
            /\ found = IF Literal(PresetsOf(u, i)) = NoPresets THEN ataDefaultAttributes
                         ELSE Merged(Literal(PresetsOf(u, i)))
  PROVE  /\ DOMAIN found = IdsOf(u, i) \cup IdsOf(u, 2)
         /\ \A id \in IdsOf(u, i) \cup IdsOf(u, 2) : {found[id]} = AttributeOf(u, i, id)
<1>1. /\ u \in Upstreams /\ HasHeader(u) /\ DefaultsOf(u) # NoPresets /\ NoKeyTwice(DefaultsOf(u))
      /\ ataDefaultAttributes = Literal(DefaultsOf(u))
  BY DEF From
<1>2. DOMAIN ataDefaultAttributes = IdsOf(u, 2)
  BY <1>1, NamesDomain
<1>3. ASSUME NEW id \in IdsOf(u, 2), i = 2 \/ id \notin IdsOf(u, i)
      PROVE  {ataDefaultAttributes[id]} = AttributeOf(u, i, id)
  BY <1>1, <1>3, AttributeOfDefaults
<1>4. CASE i = 2 /\ found = ataDefaultAttributes
  BY <1>2, <1>3, <1>4
<1> DEFINE q == PresetsOf(u, i)
<1>5. CASE /\ i \in DrivesOf(u) /\ NoKeyTwice(q)
           /\ found = IF Literal(q) = NoPresets THEN ataDefaultAttributes ELSE Merged(Literal(q))
  <2>1. i \in DOMAIN u /\ Prints(q, u, i, NamesOf(DefaultsOf(u)))
    BY <1>1, <1>5, UpstreamLength, PresetsArePrinted
  <2> HIDE DEF q
  <2>2. /\ q # NoPresets => KeysOf(q) = IdsOf(u, i)
        /\ q = NoPresets => IdsOf(u, i) = {}
    BY <1>1, <2>1, PrintedOptions
  <2>3. CASE q = NoPresets
    <3>1. found = ataDefaultAttributes /\ IdsOf(u, i) = {}
      BY <1>5, <2>2, <2>3, LiteralDomain
    <3>2. QED
      BY <1>2, <1>3, <3>1
  <2>4. CASE q # NoPresets
    <3>1. found = Merged(Literal(q)) /\ DOMAIN Literal(q) = IdsOf(u, i)
      BY <1>5, <2>2, <2>4, LiteralDomain
    <3>2. found = [id \in IdsOf(u, i) \cup IdsOf(u, 2) |->
                       IF id \in IdsOf(u, i) THEN Literal(q)[id] ELSE ataDefaultAttributes[id]]
      BY <1>2, <3>1 DEF Merged
    <3>3. ASSUME NEW id \in IdsOf(u, i) PROVE {found[id]} = AttributeOf(u, i, id)
      <4>1. AttributeOf(u, i, id) = {Literal(q)[id]}
        BY <1>1, <1>5, AttributeOfRecord DEF q
      <4>2. QED
        BY <3>2, <4>1
    <3>4. ASSUME NEW id \in IdsOf(u, 2), id \notin IdsOf(u, i)
          PROVE  {found[id]} = AttributeOf(u, i, id)
      BY <1>3, <3>2, <3>4
    <3>5. QED
      BY <3>2, <3>3, <3>4
  <2>5. QED
    BY <2>3, <2>4
<1>6. QED
  BY <1>4, <1>5

\* What LibraryServes says of one drive.
ServesDrive(u, lost, model, firmware) ==
  LET r     == findAttributesMapping(model, firmware)
      first == FirstFor(u, lost, model, firmware)
      ids   == IdsOf(u, first) \cup IdsOf(u, 2)
  IN  IF r.err THEN \E i \in Unreadable(u, lost) : first = 2 \/ i < first
      ELSE /\ DOMAIN r.mapping = ids
           /\ \A id \in ids : {r.mapping[id]} = AttributeOf(u, first, id)
           /\ first # 2 => r.bug = BugsOf(u[first].presets)

LEMMA DriveIsServed ==
  ASSUME NilIsNoMap, NEW u, NEW lost, NEW of, NEW N, From(u, lost, of, N), NEW model, NEW firmware
  PROVE  ServesDrive(u, lost, model, firmware)
<1> DEFINE r == findAttributesMapping(model, firmware)
           first == FirstFor(u, lost, model, firmware)
           for == RecordsFor(u, lost, model, firmware)
<1>1. Remaining(u, lost) \subseteq Nat \ {2} /\ Remaining(u, lost) \subseteq DrivesOf(u)
  BY UpstreamLength DEF From
<1>2. CASE Ends(model, firmware) = {}
  <2>1. findMatchingDbRecord(model, firmware) = NotFound /\ first = 2
    BY <1>2, NoneFound
  <2>2. r = [err |-> FALSE, mapping |-> ataDefaultAttributes, bug |-> {}]
    BY <2>1 DEF findAttributesMapping, NotFound
  <2>3. /\ DOMAIN ataDefaultAttributes = IdsOf(u, 2) \cup IdsOf(u, 2)
        /\ \A id \in IdsOf(u, 2) \cup IdsOf(u, 2) : {ataDefaultAttributes[id]} = AttributeOf(u, 2, id)
    BY ServedAttributes
  <2>4. QED
    BY <2>1, <2>2, <2>3 DEF ServesDrive
<1>3. CASE Ends(model, firmware) # {}
  <2>1. PICK k \in 1..N :
           /\ IsMalformed(u[of[k]], model) \/ IsMatch(u[of[k]], model, firmware)
           /\ \A i \in for : of[k] <= i
           /\ IsMalformed(u[of[k]], model) =>
                findMatchingDbRecord(model, firmware) = [err |-> TRUE, found |-> FALSE]
           /\ ~IsMalformed(u[of[k]], model) =>
                findMatchingDbRecord(model, firmware) = [err |-> FALSE, found |-> TRUE, db |-> Entry(u, of[k])]
    BY <1>3, FirstEnd
  <2>2. of[k] \in Remaining(u, lost) /\ NoKeyTwice(PresetsOf(u, of[k]))
    BY SameRecords
  <2>3. for \subseteq Remaining(u, lost) /\ for \in SUBSET Nat /\ of[k] \in Nat \ {2}
    BY <1>1, <2>2 DEF RecordsFor
  <2>4. CASE IsMalformed(u[of[k]], model)
    <3>1. r.err = TRUE
      BY <2>1, <2>4 DEF findAttributesMapping
    <3>2. of[k] \in Unreadable(u, lost)
      BY <2>2, <2>4 DEF Unreadable, IsMalformed
    <3>3. CASE for = {}
      <4>1. first = 2
        BY <3>3 DEF FirstFor
      <4>2. QED
        BY <3>1, <3>2, <4>1 DEF ServesDrive
    <3>4. CASE for # {}
      <4>1. PICK n \in for : \A m \in for : n <= m
        BY <2>3, <3>4, LeastNatural
      <4>2. first = n
        <5>1. LeastOf(for) = n
          BY <2>3, <4>1, LeastIs
        <5>2. QED
          BY <3>4, <5>1 DEF FirstFor, LeastOf
      <4>3. IsMatch(u[n], model, firmware)
        BY <4>1 DEF RecordsFor
      <4>4. n # of[k]
        BY <2>4, <4>3, MatchOrMalformed
      <4>5. of[k] < first
        BY <2>1, <2>3, <4>1, <4>2, <4>4
      <4>6. QED
        BY <3>1, <3>2, <4>5 DEF ServesDrive
    <3>5. QED
      BY <3>3, <3>4
  <2>5. CASE ~IsMalformed(u[of[k]], model)
    <3>1. of[k] \in for
      BY <2>1, <2>2, <2>5 DEF RecordsFor
    <3>2. first = of[k]
      <4>1. LeastOf(for) = of[k]
        BY <2>1, <2>3, <3>1, LeastIs
      <4>2. QED
        BY <3>1, <4>1 DEF FirstFor, LeastOf
    <3>3. findMatchingDbRecord(model, firmware) = [err |-> FALSE, found |-> TRUE, db |-> Entry(u, first)]
      BY <2>1, <2>5, <3>2
    <3>4. /\ r.err = FALSE /\ r.bug = BugsOf(u[first].presets)
          /\ r.mapping = IF Literal(PresetsOf(u, first)) = NoPresets THEN ataDefaultAttributes
                         ELSE Merged(Literal(PresetsOf(u, first)))
      <4>1. /\ Entry(u, first).presets = Literal(PresetsOf(u, first))
            /\ Entry(u, first).bug = BugsOf(u[first].presets)
        BY SameExpressions
      <4>2. QED
        BY <3>3, <4>1 DEF findAttributesMapping
    <3>5. /\ DOMAIN r.mapping = IdsOf(u, first) \cup IdsOf(u, 2)
          /\ \A id \in IdsOf(u, first) \cup IdsOf(u, 2) : {r.mapping[id]} = AttributeOf(u, first, id)
      <4> DEFINE found == r.mapping
      <4>1. /\ first \in DrivesOf(u) /\ NoKeyTwice(PresetsOf(u, first))
            /\ found = IF Literal(PresetsOf(u, first)) = NoPresets THEN ataDefaultAttributes
                         ELSE Merged(Literal(PresetsOf(u, first)))
        BY <1>1, <2>2, <3>2, <3>4
      <4> HIDE DEF found, first, r
      <4>2. /\ DOMAIN found = IdsOf(u, first) \cup IdsOf(u, 2)
            /\ \A id \in IdsOf(u, first) \cup IdsOf(u, 2) : {found[id]} = AttributeOf(u, first, id)
        BY <4>1, ServedAttributes
      <4>3. QED
        BY <4>2 DEF found
    <3>6. QED
      BY <3>4, <3>5 DEF ServesDrive
  <2>6. QED
    BY <2>4, <2>5
<1>4. QED
  BY <1>2, <1>3

\* Whatever else became of the runs of the generator, a package that was built from a file
\* that is not torn answers findAttributesMapping (src/sata.go) for every drive with what
\* one drivedb.h says, without the records that were lost in writing: the options of the
\* first record left for the drive over the defaults.
THEOREM LibraryIsServed == NilIsNoMap => (GenSpec => []LibraryServes)
<1> SUFFICES ASSUME NilIsNoMap PROVE GenSpec => []LibraryServes
  OBVIOUS
<1>1. GInv => LibraryServes
  <2> SUFFICES ASSUME GInv, served.of # Unknown, NEW model \in Models, NEW firmware \in Firmwares
               PROVE  ServesDrive(served.of, served.lost, model, firmware)
    BY DEF LibraryServes, ServesDrive
  <2>1. \E N, of : From(served.of, served.lost, of, N)
    BY DEF GInv, Built, BuiltOf, From
  <2>2. QED
    BY <2>1, DriveIsServed
<1>2. QED
  BY <1>1, GInvariance, PTL
=============================================================================
