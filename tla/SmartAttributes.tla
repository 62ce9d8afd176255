---------------------------- MODULE SmartAttributes ----------------------------
(***************************************************************************)
(* The SMART attributes of a SATA drive (src/sata.go, src/sata_linux.go):  *)
(* ReadSMARTData decodes the attribute table, ReadSMARTThresholds the      *)
(* thresholds, and ReadGenericAttributes goes over the decoded attributes  *)
(* in the order of a Go map, which is any order, and picks what they say   *)
(* by name.  A step is one command or one round of a loop.                 *)
(*                                                                         *)
(* A table is read in one command, so a call sees the drive at one moment; *)
(* each command may find another table, none, or be disturbed.             *)
(***************************************************************************)
EXTENDS TemperatureWords, DriveDatabase, SgIo

CONSTANTS Drives,      \* the drives' identifications: [model, firmware]
          Slots,       \* number of entries of a table (30 in the code)
          Entries,     \* entries of attribute tables; NoEntry has id 0
          Thresholds,  \* entries of threshold tables: [id, threshold]
          Damage       \* what a byte may be changed by on its way

NoEntry     == [id |-> 0, current |-> 0, worst |-> 0, vendor |-> <<0, 0, 0, 0, 0, 0>>, reserved |-> 0]
NoThreshold == [id |-> 0, threshold |-> 0]

ASSUME AttributesAssumption ==
  /\ Slots \in Nat
  /\ Entries \subseteq [id : 1..255, current : Byte, worst : Byte,
                         vendor : [1..6 -> Byte], reserved : Byte]
  /\ Thresholds \subseteq [id : 1..255, threshold : Byte]
  /\ Damage \subseteq 1..255

VARIABLES mapping,  \* d.attributeMapping
          pc, op,   \* where the call is: "idle", "ioctl", "table" or "generic"; the method
          page,     \* the table as the drive sent it
          got,      \* the table as it arrived
          slot,     \* the loop over the table
          attrs,    \* page.Attrs or page.Thresholds so far
          todo,     \* the attributes ReadGenericAttributes has not visited
          generic,  \* what it has picked so far
          result    \* what the last call returned

device == <<database, mapping>>
vars == <<database, mapping, pc, op, page, got, slot, attrs, todo, generic, result>>

Ops    == {"ReadSMARTData", "ReadSMARTThresholds", "ReadGenericAttributes"}
Fields == {"Temperature", "Read", "Written", "PowerOnHours", "PowerCycles"}

Refused == [ok |-> FALSE]
Answer(x) == [ok |-> TRUE, answer |-> x]
Nothing == [n \in Fields |-> Zero]
Empty   == [id \in {} |-> Zero]

-----------------------------------------------------------------------------
(* Tables.                                                                 *)

Blank(o) == IF o = "ReadSMARTThresholds" THEN NoThreshold ELSE NoEntry

\* A buffer nothing was read into.
ZeroTable(o) == [slots |-> [i \in 1..Slots |-> Blank(o)], chksum |-> 0]

\* The sum of the bytes of a threshold table, without its checksum.
Sums(slots) ==
  LET sum[n \in 0..Slots] == IF n = 0 THEN 0 ELSE sum[n - 1] + slots[n].id + slots[n].threshold
  IN  sum
Sum(slots) == Sums(slots)[Slots]

checksum_Ignored(table) == TRUE
checksum(table) == (Sum(table.slots) + table.chksum) % 256 = 0

\* The tables a drive may send: those of thresholds sum up to 0.
DriveTables(o) ==
  IF o = "ReadSMARTThresholds"
  THEN {[slots |-> s, chksum |-> (-Sum(s)) % 256] :
          s \in [1..Slots -> Thresholds \cup {NoThreshold}]}
  ELSE [slots : [1..Slots -> Entries \cup {NoEntry}], chksum : {0}]

\* What may become of one on its way: of a threshold table, that a byte is not
\* what the drive sent.  (chksum stands for every byte that is only summed: the
\* revision, what is reserved, the checksum.)
Damaged(o, table) ==
  IF o # "ReadSMARTThresholds" THEN {}
  ELSE {[table EXCEPT !.slots[i].id = (@ + d) % 256] : i \in 1..Slots, d \in Damage}
         \cup {[table EXCEPT !.slots[i].threshold = (@ + d) % 256] : i \in 1..Slots, d \in Damage}
         \cup {[table EXCEPT !.chksum = (@ + d) % 256] : d \in Damage}

\* The command as SG_IO answers it: a table, no table although there is no
\* error (see SgIo), or an error.
Replies(o, table) ==
  {Good(t) : t \in {table} \cup Damaged(o, table)} \cup Failures

Received(o, reply) == IF reply.data = Zeroed THEN ZeroTable(o) ELSE reply.data

-----------------------------------------------------------------------------
(* The entries.                                                            *)

\* One entry as ReadSMARTData and ReadSMARTThresholds keep it.
Attribute(e) ==
  IF e.id \in DOMAIN mapping
  THEN [name |-> mapping[e.id].name, type |-> mapping[e.id].type,
        raw |-> computeAttributeRawValue(mapping[e.id], e)]
  ELSE [name |-> "", type |-> "", raw |-> Zero]

Kept(o, e) == IF o = "ReadSMARTThresholds" THEN e.threshold ELSE Attribute(e)

\* The loops stop at the first entry without an id.
HasEntry_AllSlots(table, i) == i <= Slots
HasEntry_LastMissing(table, i) == i < Slots /\ table.slots[i].id # 0
HasEntry(table, i) == i <= Slots /\ table.slots[i].id # 0

\* The field of GenericAttributes an attribute is for.
Field(attr) ==
  CASE attr.name \in {"Airflow_Temperature_Cel", "Temperature_Celsius",
                      "Temperature_Celsius_X10"} -> "Temperature"
    [] attr.name = "Total_LBAs_Read"             -> "Read"
    [] attr.name = "Total_LBAs_Written"          -> "Written"
    [] attr.name = "Power_On_Hours"              -> "PowerOnHours"
    [] attr.name = "Power_Cycle_Count"           -> "PowerCycles"
    [] OTHER                                     -> "none"

\* What it says there.
Says(attr) ==
  CASE Field(attr) = "Temperature"  -> UInt64(ParseAsTemperature(attr).val)
    [] Field(attr) = "PowerOnHours" -> LET d == ParseAsDuration(attr)
                                       IN  IF d.ok THEN UInt64(d.hours) ELSE attr.raw
    [] OTHER                        -> attr.raw

\* ReadGenericAttributes gives up at an attribute that has the name of a
\* temperature, but not the type of one.
IsNoTemperature(attr) == Field(attr) = "Temperature" /\ ~ParseAsTemperature(attr).ok
GivesUp_Never(attr) == FALSE
GivesUp(attr) == IsNoTemperature(attr)

Picked_LeavesTheOthers(g, attr) ==
  IF Field(attr) = "none" THEN g ELSE [Nothing EXCEPT ![Field(attr)] = Says(attr)]
Picked(g, attr) ==
  IF Field(attr) = "none" THEN g ELSE [g EXCEPT ![Field(attr)] = Says(attr)]

-----------------------------------------------------------------------------

Init ==
  /\ DatabaseInit
  /\ \E d \in Drives :
       LET found == findAttributesMapping(d.model, d.firmware)
       IN  ~found.err /\ mapping = found.mapping
  /\ pc = "idle" /\ op = "ReadSMARTData"
  /\ page = ZeroTable(op) /\ got = page
  /\ slot = 1 /\ attrs = Empty /\ todo = {}
  /\ generic = Nothing /\ result = Refused

\* A method is called, for a drive whose table is as it is now.
Request(o) ==
  /\ pc = "idle"
  /\ pc' = "ioctl" /\ op' = o
  /\ page' \in DriveTables(o)
  /\ got' = ZeroTable(o)
  /\ slot' = 1 /\ attrs' = Empty /\ todo' = {}
  /\ generic' = Nothing /\ result' = Refused
  /\ UNCHANGED device

Return(r) ==
  /\ pc' = "idle"
  /\ result' = r
  /\ UNCHANGED <<device, op, page, slot, attrs, generic>>

\* readSMARTData and readSMARTThresholds.
Transfer ==
  /\ pc = "ioctl"
  /\ \E r \in Replies(op, page) :
       /\ got' = Received(op, r)
       /\ \/ ScsiSendCdb(r) /\ Return(Refused)
          \/ /\ ~ScsiSendCdb(r)
             /\ op = "ReadSMARTThresholds" /\ ~checksum(got')
             /\ Return(Refused)
          \/ /\ ~ScsiSendCdb(r)
             /\ op = "ReadSMARTThresholds" => checksum(got')
             /\ pc' = "table"
             /\ UNCHANGED <<device, op, page, slot, attrs, generic, result>>
  /\ UNCHANGED todo

\* A round of the loop over the table.  An id that comes again overwrites.
Decode ==
  /\ pc = "table" /\ HasEntry(got, slot)
  /\ LET e == got.slots[slot]
     IN  attrs' = [id \in DOMAIN attrs \cup {e.id} |-> IF id = e.id THEN Kept(op, e) ELSE attrs[id]]
  /\ slot' = slot + 1
  /\ UNCHANGED <<device, pc, op, page, got, todo, generic, result>>

\* The loop ends: the methods return, ReadGenericAttributes goes on.
Decoded ==
  /\ pc = "table" /\ ~HasEntry(got, slot)
  /\ \/ op # "ReadGenericAttributes" /\ Return(Answer(attrs)) /\ UNCHANGED todo
     \/ /\ op = "ReadGenericAttributes"
        /\ pc' = "generic" /\ todo' = DOMAIN attrs
        /\ UNCHANGED <<device, op, page, slot, attrs, generic, result>>
  /\ UNCHANGED got

\* A round of the loop over the map: the attribute Go's iteration takes next.
Visit ==
  /\ pc = "generic"
  /\ \E id \in todo :
       /\ todo' = todo \ {id}
       /\ \/ GivesUp(attrs[id]) /\ Return(Refused)
          \/ /\ ~GivesUp(attrs[id])
             /\ generic' = Picked(generic, attrs[id])
             /\ UNCHANGED <<device, pc, op, page, slot, attrs, result>>
  /\ UNCHANGED got

\* Every attribute has been visited.
Visited ==
  /\ pc = "generic" /\ todo = {}
  /\ Return(Answer(generic))
  /\ UNCHANGED <<got, todo>>

Next ==
  \/ \E o \in Ops : Request(o)
  \/ Transfer
  \/ Decode
  \/ Decoded
  \/ Visit
  \/ Visited

Spec == Init /\ [][Next]_vars

-----------------------------------------------------------------------------
(* Properties.                                                             *)

\* The variables keep their types; an attribute's id is never 0.
TypeOK ==
  /\ pc \in {"idle", "ioctl", "table", "generic"}
  /\ op \in Ops
  /\ slot \in 1..Slots + 1
  /\ DOMAIN attrs \subseteq 1..255 /\ todo \subseteq DOMAIN attrs
  /\ generic \in [Fields -> Raw]
  /\ result = Refused \/ result \in {Answer(attrs), Answer(generic)}

Returned(o) == pc = "idle" /\ op = o /\ result.ok

\* The entries before the first one without an id.
Listed == {i \in 1..Slots : \A j \in 1..i : got.slots[j].id # 0}

\* ReadSMARTData and ReadSMARTThresholds return the table that arrived: what
\* the last listed entry of each id says, and no id that is not listed.
TableDecoded ==
  \A o \in Ops \ {"ReadGenericAttributes"} : Returned(o) =>
    /\ DOMAIN result.answer = {got.slots[i].id : i \in Listed}
    /\ \A i \in Listed :
         (\A j \in Listed : got.slots[j].id = got.slots[i].id => j <= i)
           => result.answer[got.slots[i].id] = Kept(o, got.slots[i])

\* A table of thresholds with a byte that is not what the drive sent is
\* refused.  (A command that is rejected yields an empty one, see SgIo.)
ThresholdsIntact ==
  Returned("ReadSMARTThresholds") => got \in {page, ZeroTable(op)}

\* ReadGenericAttributes does not depend on the order of the map more than it
\* must: each field is what an attribute of that field says, the only one if
\* there is one, and 0 if there is none.
GenericAnswers ==
  Returned("ReadGenericAttributes") => \A n \in Fields :
    LET says == {Says(attrs[id]) : id \in {i \in DOMAIN attrs : Field(attrs[i]) = n}}
    IN  IF says = {} THEN result.answer[n] = Zero ELSE result.answer[n] \in says

\* Whether ReadGenericAttributes fails does not depend on the order of the map
\* either: once it has a table, it fails if, and only if, that has an attribute
\* with the name of a temperature and another type, however late it comes.
FailsInAnyOrder ==
  pc = "idle" /\ op = "ReadGenericAttributes" /\ attrs # Empty =>
    (result.ok <=> \A id \in DOMAIN attrs : ~IsNoTemperature(attrs[id]))

\* ParseAsTemperature guesses which of the overlapping forms an attribute has;
\* whatever it guesses, the minimum and the maximum it returns are those of a
\* drive (-60 to 120) and lie around the temperature, or are both 0.
RangesPlausible ==
  op # "ReadSMARTThresholds" => \A id \in DOMAIN attrs :
    LET t == ParseAsTemperature(attrs[id])
    IN  \/ t.lo = 0 /\ t.hi = 0
        \/ -60 <= t.lo /\ t.lo <= t.val /\ t.val <= t.hi /\ t.hi <= 120

\* smart.go, "Temperature represents the device temperature in Celsius": if
\* the drive reports a temperature, the field is one that it reports.
TemperatureReported ==
  Returned("ReadGenericAttributes") =>
    LET temps == {ParseAsTemperature(attrs[id]) : id \in DOMAIN attrs}
        known == {t.val : t \in {u \in temps : u.ok}}
    IN  known # {} => \E v \in known : result.answer["Temperature"] = UInt64(v)

\* sata.go:958, "Certain attribute types override the per-device byteOrder from the
\* database": the raw value of an attribute of another type has the byte order that the
\* database gives, if it gives one.
ByteOrderKept ==
  Returned("ReadSMARTData") => \A i \in Listed :
    LET e == got.slots[i]
    IN  /\ e.id \in DOMAIN mapping
        /\ mapping[e.id].order # <<>> /\ mapping[e.id].type \notin Wide64 \cup Wide56
        /\ \A j \in Listed : got.slots[j].id = e.id => j <= i
        => result.answer[e.id].raw = Assembled(mapping[e.id].order, e)
=============================================================================
