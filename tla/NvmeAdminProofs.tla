--------------------------- MODULE NvmeAdminProofs ---------------------------
(***************************************************************************)
(* The NVMe admin commands for any number of callers and namespaces and    *)
(* any SMART logs: no command is executed twice, Identify's list is        *)
(* current, and generic attributes are measured.                           *)
(***************************************************************************)
EXTENDS NvmeAdmin, TLAPS

\* The variables the code of a caller assigns when an ioctl returns.
Locals ==
  /\ pc \in [Callers -> {"idle"} \cup Ioctls]
  /\ nsid \in [Callers -> 0..MaxNamespaces]
  /\ count \in [Callers -> 0..MaxNamespaces]
  /\ ns \in [Callers -> Seq(Entry)]
  /\ result \in [Callers -> Results]

\* The range of a uint16, as inequalities.
LEMMA Uint16Bounds ==
  ASSUME NEW k \in Int
  PROVE  k \in Uint16 <=> 0 <= k /\ k < 65536
BY DEF Uint16

LEMMA Uint16Int ==
  ASSUME NEW k \in Uint16
  PROVE  k \in Int /\ 0 <= k /\ k < 65536
BY DEF Uint16

\* A difference of two uint16: it wraps below 273 Kelvin, and only there is it 65263
\* or more.
LEMMA CelsiusValue ==
  ASSUME NEW kelvin \in Int, 0 <= kelvin, kelvin < 65536
  PROVE  /\ Celsius(kelvin) \in Int /\ 0 <= Celsius(kelvin) /\ Celsius(kelvin) < 65536
         /\ Celsius(kelvin) < 65536 - 273 => kelvin = Celsius(kelvin) + 273
         /\ kelvin = 0 => Celsius(kelvin) = 65263
<1>1. CASE kelvin >= 273
  <2>1. (kelvin - 273) % 65536 = kelvin - 273
    BY <1>1
  <2>2. QED
    BY <1>1, <2>1 DEF Celsius
<1>2. CASE kelvin < 273
  <2>1. (kelvin - 273) % 65536 = kelvin - 273 + 65536
    BY <1>2
  <2>2. QED
    BY <1>2, <2>1 DEF Celsius
<1>3. QED
  BY <1>1, <1>2

\* The results of calls have the type TypeOK gives them.
LEMMA ResultTypes ==
  /\ Failed \in Results
  /\ \A l \in Seq(Entry) : Done(l) \in Results
  /\ \A l \in SmartLogs : Read(l) \in Results /\ Picked(Generic(l)) \in Results
<1>1. ASSUME NEW l \in SmartLogs PROVE Generic(l) \in Generics
  <2>1. Celsius(l.Temperature) \in Uint16
    <3>0. l.Temperature \in Uint16
      BY DEF SmartLogs
    <3>1. l.Temperature \in Int /\ 0 <= l.Temperature /\ l.Temperature < 65536
      BY <3>0, Uint16Int
    <3>2. QED
      BY <3>1, CelsiusValue, Uint16Bounds
  <2>2. /\ l.DataUnitsRead[1] \in Nat /\ l.DataUnitsWritten[1] \in Nat
        /\ l.PowerOnHours[1] \in Nat /\ l.PowerCycles[1] \in Nat
    BY DEF SmartLogs
  <2>3. QED
    BY <2>1, <2>2 DEF Generic, Generics
<1>2. QED
  BY <1>1 DEF Results, Done, Read, Picked

\* An inactive namespace leaves the list alone, an active one is appended.
LEMMA CollectedType ==
  ASSUME NEW l \in Seq(Entry), NEW i \in Namespaces, NEW d \in Active \cup {Inactive}
  PROVE  Collected(l, i, d) \in Seq(Entry)
<1>1. CASE d.Nsze = 0
  BY <1>1 DEF Collected
<1>2. CASE d.Nsze # 0
  <2>1. [nsid |-> i, data |-> d] \in Entry
    BY <1>2 DEF Entry, Inactive
  <2>2. QED
    BY <1>2, <2>1 DEF Collected
<1>3. QED
  BY <1>1, <1>2

\* Returning keeps the types.
LEMMA ReturnTypes ==
  ASSUME Locals, NEW c \in Callers,
         NEW r \in Results, Return(c, r)
  PROVE  Locals'
BY DEF Locals, Return

\* The loop of Identify keeps the types.
LEMMA ProceedTypes ==
  ASSUME Locals, NEW c \in Callers, NEW i \in Nat, NEW n \in 0..MaxNamespaces,
         NEW l \in Seq(Entry), Proceed(c, i, n, l)
  PROVE  Locals'
<1>1. CASE ~HasMore(i, n) /\ Return(c, Done(l))
  BY <1>1, ResultTypes, ReturnTypes
<1>2. CASE HasMore(i, n) /\ pc' = [pc EXCEPT ![c] = "admin64"]
             /\ nsid' = [nsid EXCEPT ![c] = i] /\ count' = [count EXCEPT ![c] = n]
             /\ ns' = [ns EXCEPT ![c] = l] /\ UNCHANGED result
  <2>1. i \in 0..MaxNamespaces
    BY <1>2, NvmeAssumption DEF HasMore
  <2>2. pc' \in [Callers -> {"idle"} \cup Ioctls]
    BY <1>2 DEF Locals, Ioctls
  <2>3. nsid' \in [Callers -> 0..MaxNamespaces] /\ count' \in [Callers -> 0..MaxNamespaces]
    BY <1>2, <2>1 DEF Locals
  <2>4. ns' \in [Callers -> Seq(Entry)] /\ result' = result
    BY <1>2 DEF Locals
  <2>5. QED
    BY <2>2, <2>3, <2>4 DEF Locals
<1>3. QED
  BY <1>1, <1>2 DEF Proceed

\* What a command says, if anything, has the type of what the drive says.
LEMMA ReceivedTypes ==
  ASSUME TypeOK, NEW answered \in BOOLEAN
  PROVE  /\ (IF answered THEN log ELSE NoLog) \in SmartLogs
         /\ (IF answered THEN Nn ELSE 0) \in 0..MaxNamespaces
         /\ \A i \in Namespaces :
              (IF answered THEN data[i] ELSE Inactive) \in Active \cup {Inactive}
<1>1. NoLog \in SmartLogs
  <2>1. 0 \in Uint16 /\ <<0, 0>> \in Nat \X Nat
    BY DEF Uint16
  <2>2. QED
    BY <2>1 DEF NoLog, SmartLogs
<1>2. QED
  BY <1>1, NvmeAssumption DEF TypeOK

\* Whatever an ioctl returns, the types are kept.
LEMMA FinishTypes ==
  ASSUME TypeOK, NEW c \in Callers, NEW o, o.data \in BOOLEAN, Finish(c, o)
  PROVE  Locals' /\ rejected' \in [Callers -> SUBSET (0..MaxNamespaces)]
<1>1. Locals
  BY DEF TypeOK, Locals
<1>2. rejected' \in [Callers -> SUBSET (0..MaxNamespaces)]
  BY DEF Finish, TypeOK
<1>3. CASE o.err # "nil"
  BY <1>1, <1>2, <1>3, ResultTypes, ReturnTypes DEF Finish
<1>4. CASE o.err = "nil"
  <2> DEFINE a == o.data
  <2>0. a \in BOOLEAN /\ Receive(c, a)
    BY <1>4 DEF Finish
  <2> HIDE DEF a
  <2>1. CASE \/ Return(c, Read(IF a THEN log ELSE NoLog))
             \/ Return(c, Picked(Generic(IF a THEN log ELSE NoLog)))
    <3> DEFINE l == IF a THEN log ELSE NoLog
    <3>1. l \in SmartLogs
      BY <2>0, ReceivedTypes
    <3> HIDE DEF l
    <3>2. Return(c, Read(l)) \/ Return(c, Picked(Generic(l)))
      BY <2>1 DEF l
    <3>3. QED
      BY <1>1, <1>2, <3>1, <3>2, ResultTypes, ReturnTypes
  <2>2. CASE Proceed(c, 1, IF a THEN Nn ELSE 0, <<>>)
    <3> DEFINE n == IF a THEN Nn ELSE 0
    <3>1. n \in 0..MaxNamespaces /\ 1 \in Nat /\ <<>> \in Seq(Entry)
      BY <2>0, ReceivedTypes
    <3> HIDE DEF n
    <3>2. Proceed(c, 1, n, <<>>)
      BY <2>2 DEF n
    <3>3. QED
      BY <1>1, <1>2, <3>1, <3>2, ProceedTypes
  <2>3. CASE /\ nsid[c] # 0
             /\ LET i == nsid[c]
                    d == IF a THEN data[i] ELSE Inactive
                IN  Proceed(c, Following(i, d), count[c], Collected(ns[c], i, d))
    <3> DEFINE i == nsid[c]
               d == IF a THEN data[i] ELSE Inactive
    <3>1. i \in Namespaces /\ count[c] \in 0..MaxNamespaces /\ ns[c] \in Seq(Entry)
      BY <2>3, NvmeAssumption DEF TypeOK, Namespaces
    <3>2. d \in Active \cup {Inactive}
      BY <2>0, <3>1, ReceivedTypes
    <3>3. Proceed(c, Following(i, d), count[c], Collected(ns[c], i, d))
      BY <2>3
    <3> HIDE DEF i, d
    <3>4. Following(i, d) \in Nat
      BY <3>1, NvmeAssumption DEF Following, Namespaces
    <3>5. Collected(ns[c], i, d) \in Seq(Entry)
      BY <3>1, <3>2, CollectedType
    <3>6. QED
      BY <1>1, <1>2, <3>1, <3>3, <3>4, <3>5, ProceedTypes
  <2>4. QED
    BY <2>0, <2>1, <2>2, <2>3 DEF Receive
<1>5. QED
  BY <1>3, <1>4

\* An ioctl has executed the command once or not at all, and not at all when
\* the kernel does not know it.
LEMMA OutcomeTypes ==
  ASSUME NEW ioctl, NEW o \in Outcomes(ioctl)
  PROVE  o.executed \in {0, 1} /\ o.data \in BOOLEAN /\ (FallsBack(o.err) => o.executed = 0)
<1>1. CASE ioctl \notin kernel
  <2>1. o = [err |-> "ENOTTY", executed |-> 0, data |-> FALSE]
    BY <1>1 DEF Outcomes
  <2>2. QED
    BY <2>1
<1>2. CASE ioctl \in kernel
  <2>1. \/ o = [err |-> "nil", executed |-> 1, data |-> TRUE]
        \/ o = [err |-> "nil", executed |-> 1, data |-> FALSE]
        \/ o \in [err : {"EIO"}, executed : {0, 1}, data : {FALSE}]
    BY <1>2 DEF Outcomes
  <2>2. CASE o \in [err : {"EIO"}, executed : {0, 1}, data : {FALSE}]
    BY <2>2 DEF FallsBack
  <2>3. CASE o = [err |-> "nil", executed |-> 1, data |-> TRUE]
    BY <2>3 DEF FallsBack
  <2>4. CASE o = [err |-> "nil", executed |-> 1, data |-> FALSE]
    BY <2>4 DEF FallsBack
  <2>5. QED
    BY <2>1, <2>2, <2>3, <2>4
<1>3. QED
  BY <1>1, <1>2

\* Every step keeps the types.
LEMMA StepTypes == TypeOK /\ [Next]_vars => TypeOK'
<1> SUFFICES ASSUME TypeOK, [Next]_vars PROVE TypeOK'
  OBVIOUS
<1>1. ASSUME NEW c \in Callers, Call(c) PROVE TypeOK'
  <2>1. /\ op' \in [Callers -> Ops] /\ pc' \in [Callers -> {"idle"} \cup Ioctls]
        /\ executed' \in [Callers -> Nat]
    BY <1>1 DEF TypeOK, Call, Ioctls
  <2>0. 0 \in 0..MaxNamespaces
    BY NvmeAssumption
  <2>6. nsid' \in [Callers -> 0..MaxNamespaces]
    BY <1>1, <2>0 DEF TypeOK, Call
  <2>2. <<>> \in Seq(Entry)
    OBVIOUS
  <2>3. ns' \in [Callers -> Seq(Entry)]
    BY <1>1, <2>2 DEF TypeOK, Call
  <2>4. /\ since' \in [Callers -> [Namespaces -> SUBSET (Active \cup {Inactive})]]
        /\ shown' \in [Callers -> SUBSET Logs] /\ rejected' \in [Callers -> SUBSET (0..MaxNamespaces)]
    BY <1>1 DEF TypeOK, Call
  <2>5. QED
    BY <1>1, <2>1, <2>3, <2>4, <2>6 DEF TypeOK, Call, drive
<1>2. ASSUME NEW c \in Callers, Admin64(c) PROVE TypeOK'
  <2>1. PICK o \in Outcomes("admin64") :
          /\ executed' = [executed EXCEPT ![c] = o.executed]
          /\ IF FallsBack(o.err)
             THEN pc' = [pc EXCEPT ![c] = "admin"] /\ UNCHANGED <<nsid, count, ns, result, rejected>>
             ELSE Finish(c, o)
    BY <1>2 DEF Admin64
  <2>2. executed' \in [Callers -> Nat]
    BY <2>1, OutcomeTypes DEF TypeOK
  <2>3. Locals' /\ rejected' \in [Callers -> SUBSET (0..MaxNamespaces)]
    <3>1. CASE FallsBack(o.err)
      BY <2>1, <3>1 DEF TypeOK, Locals, Ioctls
    <3>2. CASE ~FallsBack(o.err)
      BY <2>1, <3>2, FinishTypes, OutcomeTypes
    <3>3. QED
      BY <3>1, <3>2
  <2>4. QED
    BY <1>2, <2>2, <2>3 DEF TypeOK, Locals, Admin64, drive, ghosts
<1>3. ASSUME NEW c \in Callers, Admin(c) PROVE TypeOK'
  <2>1. PICK o \in Outcomes("admin") :
          /\ executed' = [executed EXCEPT ![c] = @ + o.executed]
          /\ Finish(c, o)
    BY <1>3 DEF Admin
  <2>2. executed' \in [Callers -> Nat]
    <3>1. o.executed \in {0, 1} /\ executed[c] \in Nat
      BY OutcomeTypes DEF TypeOK
    <3>2. executed[c] + o.executed \in Nat
      BY <3>1
    <3>3. QED
      BY <2>1, <3>2 DEF TypeOK
  <2>3. Locals' /\ rejected' \in [Callers -> SUBSET (0..MaxNamespaces)]
    BY <2>1, FinishTypes, OutcomeTypes
  <2>4. QED
    BY <1>3, <2>2, <2>3 DEF TypeOK, Locals, Admin, drive, ghosts
<1>4. ASSUME NEW n \in Namespaces, Resize(n) PROVE TypeOK'
  <2>1. PICK d \in (Active \cup {Inactive}) \ {data[n]} :
          /\ data' = [data EXCEPT ![n] = d]
          /\ since' = [c \in Callers |-> IF Walking(c) THEN [since[c] EXCEPT ![n] = @ \cup {d}]
                                         ELSE since[c]]
    BY <1>4 DEF Resize
  <2>2. data' \in [Namespaces -> Active \cup {Inactive}]
    BY <2>1 DEF TypeOK
  <2>3. since' \in [Callers -> [Namespaces -> SUBSET (Active \cup {Inactive})]]
    BY <2>1 DEF TypeOK
  <2>4. QED
    BY <1>4, <2>2, <2>3 DEF TypeOK, Resize, drive
<1>5. CASE UNCHANGED vars
  BY <1>5 DEF TypeOK, vars
<1>6. CASE Use
  BY <1>6 DEF TypeOK, Use, drive
<1>7. QED
  BY <1>1, <1>2, <1>3, <1>4, <1>5, <1>6 DEF Next, Running

\* The initial states have the right types.
LEMMA InitTypes == Init => TypeOK
<1> SUFFICES ASSUME Init PROVE TypeOK
  OBVIOUS
<1>1. <<>> \in Seq(Entry)
  OBVIOUS
<1>2. ns \in [Callers -> Seq(Entry)]
  BY <1>1 DEF Init
<1>3. /\ pc \in [Callers -> {"idle"} \cup Ioctls] /\ op \in [Callers -> Ops]
      /\ nsid \in [Callers -> 0..MaxNamespaces] /\ count \in [Callers -> 0..MaxNamespaces]
      /\ executed \in [Callers -> Nat]
  BY NvmeAssumption DEF Init, Ops
<1>4. /\ since \in [Callers -> [Namespaces -> SUBSET (Active \cup {Inactive})]]
      /\ shown \in [Callers -> SUBSET Logs] /\ rejected \in [Callers -> SUBSET (0..MaxNamespaces)]
      /\ result \in [Callers -> Results]
  BY ResultTypes DEF Init
<1>5. QED
  BY <1>2, <1>3, <1>4 DEF Init, TypeOK

\* TypeOK holds always: nsid and count never leave the namespaces, and every
\* entry of a list names one.
THEOREM TypeCorrect == Spec => []TypeOK
BY InitTypes, StepTypes, PTL DEF Spec

-----------------------------------------------------------------------------
(* The fallback.                                                           *)

\* A caller issues the older ioctl only for a command that was not executed.
Once ==
  \A c \in Callers : executed[c] <= 1 /\ (pc[c] = "admin" => executed[c] = 0)

\* Once an ioctl has been answered, its command is not repeated.
LEMMA FinishEnds ==
  ASSUME TypeOK, NEW c \in Callers, NEW o, Finish(c, o)
  PROVE  pc' = [pc EXCEPT ![c] = "idle"] \/ pc' = [pc EXCEPT ![c] = "admin64"]
BY DEF Finish, Receive, Proceed, Return

LEMMA StepOnce == TypeOK /\ Once /\ [Next]_vars => Once'
<1> SUFFICES ASSUME TypeOK, Once, [Next]_vars PROVE Once'
  OBVIOUS
<1>1. ASSUME NEW c \in Callers, Call(c) PROVE Once'
  BY <1>1 DEF Once, Call, TypeOK
<1>2. ASSUME NEW c \in Callers, Admin64(c) PROVE Once'
  <2>1. PICK o \in Outcomes("admin64") :
          /\ executed' = [executed EXCEPT ![c] = o.executed]
          /\ IF FallsBack(o.err)
             THEN pc' = [pc EXCEPT ![c] = "admin"] /\ UNCHANGED <<nsid, count, ns, result, rejected>>
             ELSE Finish(c, o)
    BY <1>2 DEF Admin64
  <2>2. o.executed \in {0, 1} /\ (FallsBack(o.err) => o.executed = 0)
    BY OutcomeTypes
  <2>3. CASE FallsBack(o.err)
    BY <2>1, <2>2, <2>3 DEF Once, TypeOK
  <2>4. CASE ~FallsBack(o.err)
    <3>1. pc' = [pc EXCEPT ![c] = "idle"] \/ pc' = [pc EXCEPT ![c] = "admin64"]
      BY <2>1, <2>4, FinishEnds
    <3>2. QED
      BY <2>1, <2>2, <3>1 DEF Once, TypeOK
  <2>5. QED
    BY <2>3, <2>4
<1>3. ASSUME NEW c \in Callers, Admin(c) PROVE Once'
  <2>1. PICK o \in Outcomes("admin") :
          /\ executed' = [executed EXCEPT ![c] = @ + o.executed]
          /\ Finish(c, o)
    BY <1>3 DEF Admin
  <2>2. o.executed \in {0, 1} /\ executed[c] = 0
    BY <1>3, OutcomeTypes DEF Admin, Once
  <2>3. pc' = [pc EXCEPT ![c] = "idle"] \/ pc' = [pc EXCEPT ![c] = "admin64"]
    BY <2>1, FinishEnds
  <2>4. QED
    BY <2>1, <2>2, <2>3 DEF Once, TypeOK
<1>4. CASE Use \/ \E n \in Namespaces : Resize(n)
  BY <1>4 DEF Once, Resize, Use
<1>5. CASE UNCHANGED vars
  BY <1>5 DEF Once, vars
<1>6. QED
  BY <1>1, <1>2, <1>3, <1>4, <1>5 DEF Next, Running

\* The drive executes each command at most once: the fallback for old kernels
\* never repeats one, even if the first ioctl failed after executing it.
THEOREM FallbackIsSafe == Spec => []NeverTwice
<1>1. ASSUME Init PROVE Once
  <2>1. executed = [c \in Callers |-> 0] /\ pc = [c \in Callers |-> "idle"]
    BY <1>1 DEF Init
  <2>2. \A c \in Callers : executed[c] = 0 /\ pc[c] # "admin"
    BY <2>1, Zenon
  <2>3. 0 <= 1
    OBVIOUS
  <2>4. QED
    BY <2>2, <2>3, Zenon DEF Once
<1>2. Once => NeverTwice
  BY Zenon DEF Once, NeverTwice
<1>3. QED
  BY <1>1, <1>2, InitTypes, StepTypes, StepOnce, PTL DEF Spec

-----------------------------------------------------------------------------
(* The list of namespaces.                                                 *)

\* Namespaces the controller does not have stay inactive, and what a
\* namespace is now it has been during every call.
Tracked ==
  /\ \A n \in Namespaces : n > Nn => data[n] = Inactive
  /\ \A c \in Callers : Walking(c) => \A n \in Namespaces : data[n] \in since[c][n]

\* In the loop of Identify the list accounts for the namespaces before the
\* one asked for.
Walks ==
  \A c \in Callers : Walking(c) /\ nsid[c] # 0 =>
    count[c] = Nn /\ Collects(c, ns[c], nsid[c], rejected[c])

\* One more namespace: the list with it, or without it if it is inactive or its
\* command was rejected, accounts for the namespaces up to it.
LEMMA CollectsOneMore ==
  ASSUME TypeOK, NEW c \in Callers, NEW l \in Seq(Entry), NEW i \in Namespaces,
         NEW refused, NEW d \in Active \cup {Inactive},
         d = Inactive => Inactive \in since[c][i] \/ i \in refused,
         d # Inactive => d \in since[c][i],
         Collects(c, l, i, refused)
  PROVE  Collects(c, Collected(l, i, d), i + 1, refused)
<1>1. i \in Nat /\ \A n \in Namespaces : n \in Nat
  BY NvmeAssumption DEF Namespaces
<1>2. \A j \in 1..Len(l) : l[j].nsid \in Nat
  <2>1. \A j \in 1..Len(l) : l[j] \in Entry
    OBVIOUS
  <2>2. QED
    BY <1>1, <2>1 DEF Entry
<1>3. CASE d = Inactive
  <2>1. \A j \in 1..Len(l) : l[j].nsid < i + 1
    BY <1>1, <1>2 DEF Collects
  <2>2. \A n \in Namespaces :
          n < i + 1 /\ Inactive \notin since[c][n] /\ refused \cap {0, n} = {}
            => \E j \in 1..Len(l) : l[j].nsid = n
    BY <1>1, <1>3 DEF Collects
  <2>3. Collected(l, i, d) = l
    BY <1>3 DEF Collected, Inactive
  <2>4. QED
    BY <2>1, <2>2, <2>3 DEF Collects
<1>4. CASE d # Inactive
  <2> DEFINE e == [nsid |-> i, data |-> d]
             m == Append(l, e)
  <2>1. e \in Entry /\ e.nsid = i /\ e.data = d
    BY <1>4 DEF Entry
  <2> HIDE DEF e
  <2>2. /\ Len(l) \in Nat /\ Len(m) = Len(l) + 1 /\ m[Len(l) + 1] = e
        /\ \A j \in 1..Len(l) : m[j] = l[j]
    BY <2>1
  <2> HIDE DEF m
  <2>3. \A j, k \in 1..Len(m) : j < k => m[j].nsid < m[k].nsid
    <3>1. \A j \in 1..Len(l) : m[j].nsid < m[Len(l) + 1].nsid
      BY <1>1, <1>2, <2>1, <2>2 DEF Collects
    <3>2. \A j, k \in 1..Len(l) : j < k => m[j].nsid < m[k].nsid
      BY <2>2 DEF Collects
    <3>3. \A j \in 1..Len(m) : j \in 1..Len(l) \/ j = Len(l) + 1
      BY <2>2
    <3>4. ASSUME NEW j \in 1..Len(m), NEW k \in 1..Len(m), j < k PROVE j \in 1..Len(l)
      BY <2>2, <3>4
    <3>5. QED
      BY <3>1, <3>2, <3>3, <3>4
  <2>4. \A j \in 1..Len(m) :
          m[j].nsid < i + 1 /\ m[j].data # Inactive /\ m[j].data \in since[c][m[j].nsid]
    BY <1>1, <1>2, <1>4, <2>1, <2>2 DEF Collects
  <2>5. \A n \in Namespaces :
          n < i + 1 /\ Inactive \notin since[c][n] /\ refused \cap {0, n} = {}
            => \E j \in 1..Len(m) : m[j].nsid = n
    BY <1>1, <2>1, <2>2 DEF Collects
  <2>6. Collected(l, i, d) = m
    <3>1. d.Nsze # 0
      BY <1>4, NvmeAssumption
    <3>2. QED
      BY <3>1 DEF Collected, e, m
  <2>7. QED
    BY <2>3, <2>4, <2>5, <2>6 DEF Collects
<1>5. QED
  BY <1>3, <1>4

\* A command that is rejected asks less of the list.
LEMMA CollectsLess ==
  ASSUME NEW c \in Callers, NEW l, NEW i, NEW more, NEW fewer, fewer \subseteq more,
         Collects(c, l, i, fewer)
  PROVE  Collects(c, l, i, more)
BY DEF Collects

\* The last namespace of the controller: the list accounts for all of them.
LEMMA CollectsAll ==
  ASSUME TypeOK, Tracked, NEW c \in Callers, Walking(c), NEW l \in Seq(Entry),
         NEW i \in Nat, NEW refused, i > Nn \/ 0 \in refused, Collects(c, l, i, refused)
  PROVE  Collects(c, l, MaxNamespaces + 1, refused)
<1>1. Nn \in Nat /\ MaxNamespaces \in Nat /\ \A n \in Namespaces : n \in 1..MaxNamespaces
  BY NvmeAssumption DEF Namespaces, TypeOK
<1>2. \A j \in 1..Len(l) : l[j].nsid \in 1..MaxNamespaces
  <2>1. \A j \in 1..Len(l) : l[j] \in Entry
    OBVIOUS
  <2>2. QED
    BY <1>1, <2>1 DEF Entry
<1>3. \A n \in Namespaces : Inactive \notin since[c][n] /\ 0 \notin refused => n < i
  BY <1>1 DEF Tracked
<1>4. \A j \in 1..Len(l) : l[j].nsid < MaxNamespaces + 1
  BY <1>1, <1>2
<1>5. QED
  BY <1>3, <1>4 DEF Collects

\* Where the answer to an ioctl takes the loop: one step on, or to its end with a
\* list that accounts for all namespaces.
Moved(c) ==
  \/ pc'[c] = "idle" /\ Collects(c, result'[c].ns, MaxNamespaces + 1, rejected'[c])
  \/ pc'[c] # "idle" /\ count'[c] = Nn /\ Collects(c, ns'[c], nsid'[c], rejected'[c])

LEMMA ProceedMoves ==
  ASSUME TypeOK, Tracked, NEW c \in Callers, Walking(c), NEW i \in Nat, NEW n \in Nat,
         NEW l \in Seq(Entry), Collects(c, l, i, rejected'[c]), Proceed(c, i, n, l),
         n = Nn \/ (0 \in rejected'[c] /\ i > n)
  PROVE  Moved(c)
<1>1. CASE HasMore(i, n) /\ pc' = [pc EXCEPT ![c] = "admin64"]
             /\ nsid' = [nsid EXCEPT ![c] = i] /\ count' = [count EXCEPT ![c] = n]
             /\ ns' = [ns EXCEPT ![c] = l]
  BY <1>1 DEF TypeOK, Moved, HasMore
<1>2. CASE ~HasMore(i, n) /\ Return(c, Done(l))
  <2>1. i > Nn \/ 0 \in rejected'[c]
    BY <1>2 DEF HasMore, TypeOK
  <2>2. Collects(c, l, MaxNamespaces + 1, rejected'[c])
    BY <2>1, CollectsAll
  <2>3. pc'[c] = "idle" /\ result'[c].ns = l
    BY <1>2 DEF Return, Done, TypeOK
  <2>4. QED
    BY <2>2, <2>3 DEF Moved
<1>3. QED
  BY <1>1, <1>2 DEF Proceed

LEMMA FinishCollects ==
  ASSUME TypeOK, Tracked, Walks, NEW c \in Callers, NEW o, o.data \in BOOLEAN, Finish(c, o),
         Walking(c), UNCHANGED <<Nn, since>>
  PROVE  (pc'[c] = "idle" /\ ~result'[c].ok) \/ Moved(c)
<1>0. rejected[c] \subseteq rejected'[c] /\ (o.err = "nil" /\ ~o.data => nsid[c] \in rejected'[c])
  BY DEF Finish, TypeOK
<1>1. CASE o.err # "nil"
  BY <1>1 DEF Finish, Return, Failed, TypeOK
<1>2. CASE o.err = "nil" /\ nsid[c] = 0
  <2> DEFINE n == IF o.data THEN Nn ELSE 0
  <2>1. Proceed(c, 1, n, <<>>)
    BY <1>2 DEF Finish, Receive, Walking
  <2>2. <<>> \in Seq(Entry) /\ Len(<<>>) = 0
    OBVIOUS
  <2>3. \A k \in Namespaces : ~(k < 1)
    BY DEF Namespaces
  <2>4. Collects(c, <<>>, 1, rejected'[c])
    BY <2>2, <2>3 DEF Collects
  <2>5. n \in Nat /\ (n = Nn \/ (0 \in rejected'[c] /\ 1 > n))
    BY <1>0, <1>2, NvmeAssumption DEF TypeOK
  <2> HIDE DEF n
  <2>6. QED
    BY <2>1, <2>2, <2>4, <2>5, ProceedMoves
<1>3. CASE o.err = "nil" /\ nsid[c] # 0
  <2> DEFINE i == nsid[c]
             d == IF o.data THEN data[i] ELSE Inactive
             l == Collected(ns[c], i, d)
  <2>1. /\ i \in Namespaces /\ i \in Nat /\ ns[c] \in Seq(Entry)
        /\ count[c] = Nn /\ Nn \in Nat /\ Collects(c, ns[c], i, rejected'[c])
    BY <1>0, <1>3, NvmeAssumption, CollectsLess DEF Walks, TypeOK, Namespaces
  <2>2. d \in Active \cup {Inactive}
    BY <2>1 DEF TypeOK
  <2>3. (d = Inactive => Inactive \in since[c][i] \/ i \in rejected'[c])
          /\ (d # Inactive => d \in since[c][i])
    BY <1>0, <1>3, <2>1 DEF TypeOK, Tracked
  <2>4. Proceed(c, i + 1, Nn, l)
    BY <1>3, <2>1 DEF Finish, Receive, Following, Walking
  <2> HIDE DEF d
  <2>5. Collects(c, l, i + 1, rejected'[c]) /\ l \in Seq(Entry)
    BY <2>1, <2>2, <2>3, CollectsOneMore, CollectedType
  <2> HIDE DEF l
  <2>6. i + 1 \in Nat
    BY <2>1
  <2>7. QED
    BY <2>1, <2>4, <2>5, <2>6, ProceedMoves
<1>4. QED
  BY <1>1, <1>2, <1>3

\* Identify's loop invariant.
Current == TypeOK /\ Tracked /\ Walks

\* An ioctl of one caller leaves the others where they are.
LEMMA FinishAlone ==
  ASSUME TypeOK, NEW c \in Callers, NEW o, Finish(c, o), NEW b \in Callers, b # c
  PROVE  /\ pc'[b] = pc[b] /\ nsid'[b] = nsid[b] /\ count'[b] = count[b]
         /\ ns'[b] = ns[b] /\ result'[b] = result[b] /\ rejected'[b] = rejected[b]
<1>1. rejected'[b] = rejected[b]
  BY DEF Finish, TypeOK
<1>2. ASSUME NEW r, Return(c, r)
      PROVE  /\ pc'[b] = pc[b] /\ nsid'[b] = nsid[b] /\ count'[b] = count[b]
             /\ ns'[b] = ns[b] /\ result'[b] = result[b]
  BY <1>2 DEF Return, TypeOK
<1>3. ASSUME NEW i, NEW n, NEW l, Proceed(c, i, n, l)
      PROVE  /\ pc'[b] = pc[b] /\ nsid'[b] = nsid[b] /\ count'[b] = count[b]
             /\ ns'[b] = ns[b] /\ result'[b] = result[b]
  BY <1>2, <1>3 DEF Proceed, TypeOK
<1>4. QED
  BY <1>1, <1>2, <1>3 DEF Finish, Receive

\* What the step of an ioctl does to the caller that issues it.
Advances(c) ==
  /\ UNCHANGED <<Nn, data, log, op, since, shown>>
  /\ \A b \in Callers \ {c} :
       /\ pc'[b] = pc[b] /\ nsid'[b] = nsid[b] /\ count'[b] = count[b] /\ ns'[b] = ns[b]
       /\ rejected'[b] = rejected[b]
  /\ pc[c] # "idle"
  /\ op[c] = "Identify" =>
       \/ pc'[c] = "idle" /\ ~result'[c].ok
       \/ Moved(c)
       \/ /\ pc'[c] # "idle" /\ count'[c] = count[c] /\ ns'[c] = ns[c] /\ nsid'[c] = nsid[c]
          /\ rejected'[c] = rejected[c]

\* Both ioctls advance the call.
LEMMA RunningAdvances ==
  ASSUME Current, NEW c \in Callers, Running(c)
  PROVE  Advances(c)
<1> USE DEF Current
<1>1. CASE Admin64(c)
  <2>1. PICK o \in Outcomes("admin64") :
          IF FallsBack(o.err)
          THEN pc' = [pc EXCEPT ![c] = "admin"] /\ UNCHANGED <<nsid, count, ns, result, rejected>>
          ELSE Finish(c, o)
    BY <1>1 DEF Admin64
  <2>2. pc[c] # "idle" /\ UNCHANGED <<Nn, data, log, op, since, shown>>
    BY <1>1 DEF Admin64, drive, ghosts
  <2>3. CASE FallsBack(o.err)
    BY <2>1, <2>2, <2>3 DEF Advances, TypeOK
  <2>4. CASE ~FallsBack(o.err)
    BY <2>1, <2>2, <2>4, OutcomeTypes, FinishAlone, FinishCollects DEF Advances, Walking
  <2>5. QED
    BY <2>3, <2>4
<1>2. CASE Admin(c)
  <2>1. PICK o \in Outcomes("admin") : Finish(c, o)
    BY <1>2 DEF Admin
  <2>2. pc[c] # "idle" /\ UNCHANGED <<Nn, data, log, op, since, shown>>
    BY <1>2 DEF Admin, drive, ghosts
  <2>3. QED
    BY <2>1, <2>2, OutcomeTypes, FinishAlone, FinishCollects DEF Advances, Walking
<1>3. QED
  BY <1>1, <1>2 DEF Running

\* A namespace that changes does not upset a list: what the list says of it
\* was true during the call, and so is what it says now.
LEMMA ResizeCollects ==
  ASSUME TypeOK, NEW n \in Namespaces, Resize(n), NEW c \in Callers,
         NEW l \in Seq(Entry), NEW i, NEW refused, Collects(c, l, i, refused)
  PROVE  /\ \A m \in Namespaces : since[c][m] \subseteq since'[c][m]
         /\ Collects(c, l, i, refused)'
<1>1. \A m \in Namespaces : since[c][m] \subseteq since'[c][m]
  BY DEF Resize, TypeOK
<1>2. \A j \in 1..Len(l) : l[j] \in Entry
  OBVIOUS
<1>3. \A j \in 1..Len(l) : l[j].nsid \in Namespaces
  BY <1>2 DEF Entry
<1>4. QED
  BY <1>1, <1>3 DEF Collects

\* A caller that a step leaves alone keeps what holds of it.
LEMMA KeepsWalking ==
  ASSUME Current, NEW b \in Callers, UNCHANGED <<Nn, data>>,
         pc'[b] = pc[b], op'[b] = op[b], nsid'[b] = nsid[b], count'[b] = count[b],
         ns'[b] = ns[b], rejected'[b] = rejected[b], since'[b] = since[b]
  PROVE  /\ Walking(b)' => \A n \in Namespaces : data'[n] \in since'[b][n]
         /\ Walking(b)' /\ nsid'[b] # 0 =>
              count'[b] = Nn' /\ Collects(b, ns[b], nsid[b], rejected[b])'
BY DEF Current, Tracked, Walks, Walking, Collects

\* The loop invariant is inductive.
LEMMA StepCurrent == Current /\ [Next]_vars => Current'
<1> SUFFICES ASSUME Current, [Next]_vars PROVE Tracked' /\ Walks'
  BY StepTypes DEF Current
<1>1. ASSUME NEW c \in Callers, Call(c) PROVE Tracked' /\ Walks'
  <2>1. /\ UNCHANGED <<Nn, data>> /\ nsid'[c] = 0
        /\ Walking(c)' => since'[c] = [n \in Namespaces |-> {data[n]}]
    BY <1>1 DEF Call, drive, Current, TypeOK, Walking
  <2>2. \A b \in Callers \ {c} :
          /\ pc'[b] = pc[b] /\ op'[b] = op[b] /\ nsid'[b] = nsid[b] /\ count'[b] = count[b]
          /\ ns'[b] = ns[b] /\ rejected'[b] = rejected[b] /\ since'[b] = since[b]
    BY <1>1 DEF Call, Current, TypeOK
  <2>3. Tracked'
    BY <2>1, <2>2, KeepsWalking DEF Tracked, Current
  <2>4. Walks'
    BY <2>1, <2>2, KeepsWalking DEF Walks
  <2>5. QED
    BY <2>3, <2>4
<1>2. ASSUME NEW c \in Callers, Running(c) PROVE Tracked' /\ Walks'
  <2>1. Advances(c)
    BY <1>2, RunningAdvances
  <2>2. Tracked'
    BY <2>1 DEF Advances, Tracked, Walking, Current
  <2>3. ASSUME NEW b \in Callers, Walking(b)', nsid'[b] # 0
        PROVE  (count[b] = Nn /\ Collects(b, ns[b], nsid[b], rejected[b]))'
    <3>0. UNCHANGED <<Nn, op, since>>
      BY <2>1 DEF Advances
    <3>1. SUFFICES count'[b] = Nn /\ Collects(b, ns'[b], nsid'[b], rejected'[b])
      BY <3>0 DEF Collects
    <3>2. Walking(b) /\ nsid[b] # 0 => count[b] = Nn /\ Collects(b, ns[b], nsid[b], rejected[b])
      BY DEF Current, Walks
    <3>3. CASE b = c
      <4>1. pc[c] # "idle" /\ op[c] = "Identify" /\ pc'[c] # "idle"
        BY <2>1, <2>3, <3>0, <3>3 DEF Advances, Walking
      <4>2. CASE Moved(c)
        BY <3>3, <4>1, <4>2 DEF Moved
      <4>3. CASE count'[c] = count[c] /\ ns'[c] = ns[c] /\ nsid'[c] = nsid[c] /\ rejected'[c] = rejected[c]
        BY <2>3, <3>2, <3>3, <4>1, <4>3 DEF Walking
      <4>4. QED
        BY <2>1, <4>1, <4>2, <4>3 DEF Advances
    <3>4. CASE b # c
      <4>1. /\ pc'[b] = pc[b] /\ nsid'[b] = nsid[b] /\ count'[b] = count[b] /\ ns'[b] = ns[b]
            /\ rejected'[b] = rejected[b]
        BY <2>1, <3>4 DEF Advances
      <4>2. Walking(b) /\ nsid[b] # 0
        BY <2>3, <3>0, <4>1 DEF Walking
      <4>3. QED
        BY <3>2, <4>1, <4>2
    <3>5. QED
      BY <3>3, <3>4
  <2>4. QED
    BY <2>2, <2>3 DEF Walks
<1>3. ASSUME NEW n \in Namespaces, Resize(n) PROVE Tracked' /\ Walks'
  <2>1. UNCHANGED <<Nn, pc, op, nsid, count, ns, rejected>>
    BY <1>3 DEF Resize, drive
  <2>2. PICK d \in (Active \cup {Inactive}) \ {data[n]} :
          /\ data' = [data EXCEPT ![n] = d]
          /\ since' = [c \in Callers |-> IF Walking(c) THEN [since[c] EXCEPT ![n] = @ \cup {d}]
                                         ELSE since[c]]
    BY <1>3 DEF Resize
  <2>3. \A m \in Namespaces : m > Nn' => data'[m] = Inactive
    <3>1. n <= Nn /\ Nn' = Nn /\ Nn \in Nat /\ \A m \in Namespaces : m \in Nat
      BY <1>3, <2>1, NvmeAssumption DEF Current, Resize, TypeOK, Namespaces
    <3>2. ASSUME NEW m \in Namespaces, m > Nn' PROVE data'[m] = Inactive
      <4>1. m # n
        BY <3>1, <3>2
      <4>2. QED
        BY <2>2, <3>1, <3>2, <4>1 DEF Current, Tracked, TypeOK
    <3>3. QED
      BY <3>2
  <2>4. \A c \in Callers : Walking(c)' => \A m \in Namespaces : data'[m] \in since'[c][m]
    BY <2>1, <2>2 DEF Current, Tracked, TypeOK, Walking
  <2>5. Walks'
    BY <1>3, <2>1, ResizeCollects DEF Current, Walks, TypeOK, Walking
  <2>6. QED
    BY <2>3, <2>4, <2>5 DEF Tracked
<1>4. CASE Use \/ UNCHANGED vars
  <2>1. UNCHANGED <<Nn, data, pc, op, nsid, count, ns, rejected, since>>
    BY <1>4 DEF vars, Use, drive
  <2>2. QED
    BY <2>1 DEF Current, Tracked, Walks, Collects, Walking
<1>5. QED
  BY <1>1, <1>2, <1>3, <1>4 DEF Next

\* One step of ListIsCurrent.
ReturnsCurrent ==
  \A c \in Callers :
    pc[c] # "idle" /\ pc'[c] = "idle" /\ op[c] = "Identify" /\ result'[c].ok
      => Collects(c, result'[c].ns, MaxNamespaces + 1, rejected'[c])

\* A step that ends a call of Identify returns such a list.
LEMMA StepReturns == Current /\ [Next]_vars => ReturnsCurrent
<1> SUFFICES ASSUME Current, [Next]_vars,
                    NEW c \in Callers, pc[c] # "idle", pc'[c] = "idle",
                    op[c] = "Identify", result'[c].ok
             PROVE  Collects(c, result'[c].ns, MaxNamespaces + 1, rejected'[c])
  BY DEF ReturnsCurrent
<1>1. CASE \E b \in Callers : Running(b)
  BY <1>1, RunningAdvances DEF Advances, Moved
<1>2. CASE \E b \in Callers : Call(b)
  BY <1>2 DEF Call, Current, TypeOK
<1>3. CASE UNCHANGED vars \/ Use \/ \E n \in Namespaces : Resize(n)
  BY <1>3 DEF vars, Use, Resize
<1>4. QED
  BY <1>1, <1>2, <1>3 DEF Next

\* Identify's list is consistent with the time of the call, for any number of
\* namespaces and whatever happens to them while the loop runs.
THEOREM IdentifyIsCurrent == Spec => ListIsCurrent
<1>1. ASSUME Init PROVE Tracked /\ Walks
  <2>1. pc = [c \in Callers |-> "idle"] /\ \A n \in Namespaces : n > Nn => data[n] = Inactive
    BY <1>1 DEF Init
  <2>2. \A c \in Callers : ~Walking(c)
    BY <2>1, Zenon DEF Walking
  <2>3. QED
    BY <2>1, <2>2 DEF Tracked, Walks
<1>2. Init => Current
  BY <1>1, InitTypes DEF Current
<1>3. Current /\ [Next]_vars => [ReturnsCurrent]_vars
  BY StepReturns
<1>4. QED
  BY <1>2, <1>3, StepCurrent, PTL DEF Spec, ListIsCurrent, ReturnsCurrent

-----------------------------------------------------------------------------
(* Generic attributes.                                                     *)

\* A call that reads the log has been shown what it says now.
Shows == \A c \in Callers : Reading(c) => log \in shown[c]

LEMMA StepShows == TypeOK /\ Shows /\ [Next]_vars => Shows'
<1> SUFFICES ASSUME TypeOK, Shows, [Next]_vars PROVE Shows'
  OBVIOUS
<1>1. ASSUME NEW c \in Callers, Call(c) PROVE Shows'
  BY <1>1 DEF Shows, Reading, Call, TypeOK
<1>2. ASSUME NEW c \in Callers, Running(c) PROVE Shows'
  <2>1. UNCHANGED <<log, op, shown>> /\ pc[c] # "idle"
    BY <1>2 DEF Running, Admin64, Admin, ghosts
  <2>2. \A b \in Callers \ {c} : pc'[b] = pc[b]
    <3>1. CASE \E o : Finish(c, o)
      BY <3>1, FinishAlone
    <3>2. CASE pc' = [pc EXCEPT ![c] = "admin"]
      BY <3>2 DEF TypeOK
    <3>3. QED
      BY <1>2, <3>1, <3>2 DEF Running, Admin64, Admin
  <2>3. QED
    BY <2>1, <2>2 DEF Shows, Reading
<1>3. CASE UNCHANGED vars \/ \E n \in Namespaces : Resize(n)
  BY <1>3 DEF Shows, Reading, Resize, vars
<1>4. CASE Use
  BY <1>4 DEF Shows, Reading, Use, TypeOK
<1>5. QED
  BY <1>1, <1>2, <1>3, <1>4 DEF Next

\* One step of GenericIsMeasured.
ReturnsMeasured ==
  \A c \in Callers :
    /\ pc[c] # "idle" /\ pc'[c] = "idle" /\ op[c] = "ReadGenericAttributes"
    /\ result'[c].ok /\ result'[c].generic.Temperature < 65536 - 273
    => LET g == result'[c].generic
       IN  \E l \in shown[c] :
             /\ l.Temperature = g.Temperature + 273
             /\ <<l.DataUnitsRead[1], l.DataUnitsWritten[1], l.PowerOnHours[1], l.PowerCycles[1]>>
                  = <<g.Read, g.Written, g.PowerOnHours, g.PowerCycles>>

\* What ReadGenericAttributes returns is made of what the drive said, or of a buffer
\* that nothing was read into.
LEMMA FinishMeasures ==
  ASSUME TypeOK, NEW c \in Callers, NEW o, Finish(c, o), pc'[c] = "idle",
         op[c] = "ReadGenericAttributes", result'[c].ok
  PROVE  result'[c].generic = Generic(log) \/ result'[c].generic = Generic(NoLog)
<1>1. o.err = "nil"
  BY DEF Finish, Return, Failed, TypeOK
<1>2. Return(c, Picked(Generic(IF o.data THEN log ELSE NoLog)))
  BY <1>1 DEF Finish, Receive
<1>3. result'[c] = Picked(Generic(IF o.data THEN log ELSE NoLog))
  BY <1>2 DEF Return, TypeOK
<1>4. QED
  BY <1>3 DEF Picked

LEMMA StepMeasures == TypeOK /\ Shows /\ [Next]_vars => ReturnsMeasured
<1> SUFFICES ASSUME TypeOK, Shows, [Next]_vars,
                    NEW c \in Callers, pc[c] # "idle", pc'[c] = "idle",
                    op[c] = "ReadGenericAttributes", result'[c].ok,
                    result'[c].generic.Temperature < 65536 - 273
             PROVE  LET g == result'[c].generic
                    IN  \E l \in shown[c] :
                          /\ l.Temperature = g.Temperature + 273
                          /\ <<l.DataUnitsRead[1], l.DataUnitsWritten[1], l.PowerOnHours[1],
                               l.PowerCycles[1]>>
                               = <<g.Read, g.Written, g.PowerOnHours, g.PowerCycles>>
  BY DEF ReturnsMeasured
<1>1. Running(c)
  <2>1. ~UNCHANGED vars /\ ~Use /\ ~\E n \in Namespaces : Resize(n)
    BY DEF vars, Use, Resize
  <2>2. ~\E b \in Callers : Call(b)
    BY DEF Call, TypeOK
  <2>3. PICK b \in Callers : Running(b)
    BY <2>1, <2>2 DEF Next
  <2>4. CASE b # c
    <3>1. pc'[c] = pc[c]
      <4>1. CASE \E o : Finish(b, o)
        BY <2>4, <4>1, FinishAlone
      <4>2. CASE pc' = [pc EXCEPT ![b] = "admin"]
        BY <2>4, <4>2 DEF TypeOK
      <4>3. QED
        BY <2>3, <4>1, <4>2 DEF Running, Admin64, Admin
    <3>2. QED
      BY <3>1
  <2>5. QED
    BY <2>3, <2>4
<1>2. PICK o : Finish(c, o)
  <2>1. ~(pc' = [pc EXCEPT ![c] = "admin"])
    BY DEF TypeOK
  <2>2. QED
    BY <1>1, <2>1 DEF Running, Admin64, Admin
<1>3. log \in SmartLogs /\ log \in shown[c]
  BY NvmeAssumption DEF TypeOK, Shows, Reading
<1>4. result'[c].generic = Generic(log)
  <2>1. Celsius(0) = 65263
    BY CelsiusValue
  <2>2. Generic(NoLog).Temperature = 65263
    BY <2>1 DEF Generic, NoLog
  <2>3. QED
    BY <1>2, <2>2, FinishMeasures
<1>5. log.Temperature = Generic(log).Temperature + 273
  <2>0. log.Temperature \in Uint16
    BY <1>3 DEF SmartLogs
  <2>1. log.Temperature \in Int /\ 0 <= log.Temperature /\ log.Temperature < 65536
    BY <2>0, Uint16Int
  <2>2. Generic(log).Temperature = Celsius(log.Temperature)
    BY DEF Generic
  <2>3. QED
    BY <1>4, <2>1, <2>2, CelsiusValue
<1>6. QED
  BY <1>3, <1>4, <1>5 DEF Generic

\* ReadGenericAttributes says what the drive has measured during the call, for any
\* SMART logs and any number of callers, or gives a temperature no drive has.
THEOREM GenericIsTrue == Spec => GenericIsMeasured
<1>1. ASSUME Init PROVE Shows
  <2>1. \A c \in Callers : pc[c] = "idle"
    BY <1>1, Zenon DEF Init
  <2>2. QED
    BY <2>1 DEF Shows, Reading
<1>2. TypeOK /\ Shows /\ [Next]_vars => [ReturnsMeasured]_vars
  BY StepMeasures
<1>3. QED
  BY <1>1, <1>2, InitTypes, StepTypes, StepShows, PTL DEF Spec, GenericIsMeasured, ReturnsMeasured

-----------------------------------------------------------------------------
(* Old kernels.  A caller is at the older ioctl only because the kernel     *)
(* does not know the newer one.                                            *)

FellBack == \A c \in Callers : pc[c] = "admin" => "admin64" \notin kernel

ReturnsServed ==
  ~faulty /\ kernel # {} => \A c \in Callers :
    pc[c] # "idle" /\ pc'[c] = "idle" => result'[c].ok

\* Whatever comes after an ioctl that has returned, the call goes on with the
\* newer ioctl or has succeeded.
LEMMA ReceiveServes ==
  ASSUME TypeOK, NEW c \in Callers, NEW a \in BOOLEAN, Receive(c, a)
  PROVE  /\ pc'[c] \in {"admin64", "idle"}
         /\ pc'[c] = "idle" => result'[c].ok
         /\ \A b \in Callers \ {c} : pc'[b] = pc[b]
<1>1. ASSUME NEW r, r.ok = TRUE, Return(c, r)
      PROVE  pc'[c] = "idle" /\ result'[c].ok /\ \A b \in Callers \ {c} : pc'[b] = pc[b]
  BY <1>1 DEF Return, TypeOK
<1>2. ASSUME NEW i, NEW n, NEW l, Proceed(c, i, n, l)
      PROVE  /\ pc'[c] \in {"admin64", "idle"}
             /\ pc'[c] = "idle" => result'[c].ok
             /\ \A b \in Callers \ {c} : pc'[b] = pc[b]
  <2>1. CASE Return(c, Done(l))
    BY <1>1, <2>1 DEF Done
  <2>2. CASE pc' = [pc EXCEPT ![c] = "admin64"]
    BY <2>2 DEF TypeOK
  <2>3. QED
    BY <1>2, <2>1, <2>2 DEF Proceed
<1>3. \A l : Read(l).ok = TRUE /\ Picked(l).ok = TRUE
  BY DEF Read, Picked
<1>4. QED
  BY <1>1, <1>2, <1>3 DEF Receive

\* The callers other than the one that takes the step stay where they are.
LEMMA OneMoves ==
  ASSUME TypeOK, NEW c \in Callers, Call(c) \/ Running(c)
  PROVE  \A b \in Callers \ {c} : pc'[b] = pc[b]
<1>1. CASE Call(c)
  BY <1>1 DEF Call, TypeOK
<1>2. ASSUME NEW ioctl \in Ioctls, NEW o \in Outcomes(ioctl), Finish(c, o)
      PROVE  \A b \in Callers \ {c} : pc'[b] = pc[b]
  <2>1. o.data \in BOOLEAN
    BY OutcomeTypes
  <2>2. CASE o.err = "nil"
    BY <1>2, <2>1, <2>2, ReceiveServes DEF Finish
  <2>3. CASE o.err # "nil"
    BY <1>2, <2>3 DEF Finish, Return, TypeOK
  <2>4. QED
    BY <2>2, <2>3
<1>3. CASE Admin64(c)
  <2>1. PICK o \in Outcomes("admin64") :
          IF FallsBack(o.err) THEN pc' = [pc EXCEPT ![c] = "admin"] ELSE Finish(c, o)
    BY <1>3 DEF Admin64
  <2>2. QED
    BY <1>2, <2>1 DEF Ioctls, TypeOK
<1>4. CASE Admin(c)
  BY <1>2, <1>4 DEF Admin, Ioctls
<1>5. QED
  BY <1>1, <1>3, <1>4 DEF Running

\* Only an ioctl that the kernel does not know makes a caller fall back; one that it
\* knows, to a drive that executes its commands, returns.
LEMMA IoctlOutcome ==
  ASSUME NEW ioctl \in Ioctls, NEW o \in Outcomes(ioctl)
  PROVE  /\ FallsBack(o.err) <=> ioctl \notin kernel
         /\ ioctl \in kernel /\ ~faulty => o.err = "nil"
<1>1. CASE ioctl \notin kernel
  <2>1. o = [err |-> "ENOTTY", executed |-> 0, data |-> FALSE]
    BY <1>1 DEF Outcomes
  <2>2. QED
    BY <1>1, <2>1 DEF FallsBack
<1>2. CASE ioctl \in kernel /\ faulty
  <2>1. \/ o = [err |-> "nil", executed |-> 1, data |-> TRUE]
        \/ o \in [err : {"EIO"}, executed : {0, 1}, data : {FALSE}]
        \/ o = [err |-> "nil", executed |-> 1, data |-> FALSE]
    BY <1>2 DEF Outcomes
  <2>2. CASE o \in [err : {"EIO"}, executed : {0, 1}, data : {FALSE}]
    BY <1>2, <2>2 DEF FallsBack
  <2>3. CASE o = [err |-> "nil", executed |-> 1, data |-> TRUE]
    BY <1>2, <2>3 DEF FallsBack
  <2>4. CASE o = [err |-> "nil", executed |-> 1, data |-> FALSE]
    BY <1>2, <2>4 DEF FallsBack
  <2>5. QED
    BY <2>1, <2>2, <2>3, <2>4
<1>3. CASE ioctl \in kernel /\ ~faulty
  <2>1. o = [err |-> "nil", executed |-> 1, data |-> TRUE]
    BY <1>3 DEF Outcomes
  <2>2. QED
    BY <1>3, <2>1 DEF FallsBack
<1>4. QED
  BY <1>1, <1>2, <1>3

\* A caller falls back, and returns, as the kernel and the drive let it.
LEMMA RunningServes ==
  ASSUME TypeOK, FellBack, NEW c \in Callers, Running(c)
  PROVE  /\ pc'[c] = "admin" => "admin64" \notin kernel
         /\ ~faulty /\ kernel # {} /\ pc'[c] = "idle" => result'[c].ok
<1>1. ASSUME NEW ioctl \in Ioctls, NEW o \in Outcomes(ioctl), Finish(c, o)
      PROVE  /\ pc'[c] # "admin"
             /\ ~faulty /\ ioctl \in kernel /\ pc'[c] = "idle" => result'[c].ok
  <2>1. o.data \in BOOLEAN
    BY OutcomeTypes
  <2>2. CASE o.err = "nil"
    BY <1>1, <2>1, <2>2, ReceiveServes DEF Finish
  <2>3. CASE o.err # "nil"
    <3>1. pc'[c] = "idle"
      BY <1>1, <2>3 DEF Finish, Return, TypeOK
    <3>2. QED
      BY <1>1, <2>3, <3>1, IoctlOutcome
  <2>4. QED
    BY <2>2, <2>3
<1>2. CASE Admin64(c)
  <2>1. PICK o \in Outcomes("admin64") :
          IF FallsBack(o.err) THEN pc' = [pc EXCEPT ![c] = "admin"] ELSE Finish(c, o)
    BY <1>2 DEF Admin64
  <2>2. CASE FallsBack(o.err)
    <3>1. pc'[c] = "admin"
      BY <2>1, <2>2 DEF TypeOK
    <3>2. "admin64" \notin kernel
      BY <2>2, IoctlOutcome DEF Ioctls
    <3>3. QED
      BY <3>1, <3>2
  <2>3. CASE ~FallsBack(o.err)
    <3>1. "admin64" \in kernel
      BY <2>3, IoctlOutcome DEF Ioctls
    <3>2. QED
      BY <1>1, <2>1, <2>3, <3>1 DEF Ioctls
  <2>4. QED
    BY <2>2, <2>3
<1>3. CASE Admin(c)
  <2>1. "admin64" \notin kernel
    BY <1>3 DEF Admin, FellBack
  <2>2. kernel # {} => "admin" \in kernel
    BY <2>1, NvmeAssumption DEF TypeOK, Ioctls
  <2>3. PICK o \in Outcomes("admin") : Finish(c, o)
    BY <1>3 DEF Admin
  <2>4. QED
    BY <1>1, <2>1, <2>2, <2>3 DEF Ioctls
<1>4. QED
  BY <1>2, <1>3 DEF Running

\* Every step keeps callers at the ioctl their kernel calls for.
LEMMA StepServes ==
  TypeOK /\ FellBack /\ [Next]_vars => FellBack' /\ (UNCHANGED vars \/ ReturnsServed)
<1> SUFFICES ASSUME TypeOK, FellBack, [Next]_vars
             PROVE  FellBack' /\ (UNCHANGED vars \/ ReturnsServed)
  OBVIOUS
<1>1. ASSUME NEW c \in Callers, Call(c) PROVE FellBack' /\ ReturnsServed
  <2>1. pc'[c] = "admin64" /\ kernel' = kernel
    BY <1>1 DEF Call, TypeOK, drive
  <2>2. QED
    BY <1>1, <2>1, OneMoves DEF FellBack, ReturnsServed
<1>2. ASSUME NEW c \in Callers, Running(c) PROVE FellBack' /\ ReturnsServed
  <2>1. kernel' = kernel
    BY <1>2 DEF Running, Admin64, Admin, drive
  <2>2. QED
    BY <1>2, <2>1, OneMoves, RunningServes DEF FellBack, ReturnsServed
<1>3. CASE UNCHANGED <<kernel, pc>>
  BY <1>3 DEF FellBack, ReturnsServed
<1>4. QED
  BY <1>1, <1>2, <1>3 DEF Next, Resize, Use, drive, vars

\* On every kernel that knows one of the two ioctls, no call to a drive that
\* executes its commands fails, for any number of callers.
THEOREM KernelsServe == Spec => OldKernelsServe
<1>1. Init => FellBack
  BY DEF Init, FellBack
<1>2. TypeOK /\ FellBack /\ [Next]_vars => [ReturnsServed]_vars
  BY StepServes
<1>3. QED
  BY <1>1, <1>2, InitTypes, StepTypes, StepServes, PTL DEF Spec, OldKernelsServe, ReturnsServed

-----------------------------------------------------------------------------
(* The walk goes on: what a weakly fair call needs in order to return.     *)

\* The answer to an ioctl ends the call or takes it to the next namespace.
LEMMA FinishGoesOn ==
  ASSUME TypeOK, NEW c \in Callers, NEW o, Finish(c, o)
  PROVE  pc'[c] = "idle" \/ NextCommand(c)
<1>1. ASSUME NEW r, Return(c, r) PROVE pc'[c] = "idle"
  BY <1>1 DEF Return, TypeOK
<1>2. ASSUME NEW n \in Nat, NEW l, Proceed(c, nsid[c] + 1, n, l), nsid[c] # 0 => n = count[c]
      PROVE  pc'[c] = "idle" \/ NextCommand(c)
  BY <1>1, <1>2 DEF Proceed, HasMore, NextCommand, TypeOK
<1>3. ASSUME Receive(c, o.data) PROVE pc'[c] = "idle" \/ NextCommand(c)
  <2>1. CASE op[c] = "Identify" /\ nsid[c] = 0 /\ Proceed(c, 1, IF o.data THEN Nn ELSE 0, <<>>)
    <3>1. (IF o.data THEN Nn ELSE 0) \in Nat
      BY NvmeAssumption DEF TypeOK
    <3>2. QED
      BY <1>2, <2>1, <3>1
  <2>2. CASE op[c] = "Identify" /\ nsid[c] # 0
    <3>1. nsid[c] \in Nat /\ count[c] \in Nat
      BY NvmeAssumption DEF TypeOK
    <3>2. PICK l : Proceed(c, nsid[c] + 1, count[c], l)
      BY <1>3, <2>2 DEF Receive, Following
    <3>3. QED
      BY <1>2, <3>1, <3>2
  <2>3. QED
    BY <1>1, <1>3, <2>1, <2>2 DEF Receive
<1>4. QED
  BY <1>1, <1>3 DEF Finish

\* Every ioctl takes its call on, and no other.
LEMMA RunningGoesOn ==
  ASSUME TypeOK, NEW c \in Callers, Running(c)
  PROVE  /\ pc'[c] = "idle" \/ OlderIoctl(c) \/ NextCommand(c)
         /\ \A b \in Callers \ {c} : UNCHANGED <<pc[b], nsid[b], count[b]>>
<1>1. ASSUME NEW o, Finish(c, o)
      PROVE  /\ pc'[c] = "idle" \/ NextCommand(c)
             /\ \A b \in Callers \ {c} : UNCHANGED <<pc[b], nsid[b], count[b]>>
  BY <1>1, FinishGoesOn, FinishAlone
<1>2. CASE Admin64(c)
  <2>1. CASE pc' = [pc EXCEPT ![c] = "admin"] /\ UNCHANGED <<nsid, count>>
    BY <1>2, <2>1 DEF Admin64, OlderIoctl, TypeOK
  <2>2. CASE \E o : Finish(c, o)
    BY <1>1, <2>2
  <2>3. QED
    BY <1>2, <2>1, <2>2 DEF Admin64
<1>3. CASE Admin(c)
  BY <1>1, <1>3 DEF Admin
<1>4. QED
  BY <1>2, <1>3 DEF Running

\* For any number of callers and namespaces, whatever fails or changes: every ioctl
\* ends its call or takes it to a command that it has not sent yet.  With the fairness
\* of FairSpec, under which a call issues its ioctls, this is why calls return.
THEOREM CallsAdvance == Spec => WalkGoesOn
<1>1. TypeOK /\ [Next]_vars =>
        [\A c \in Callers : pc[c] # "idle" =>
           IF Running(c) THEN pc'[c] = "idle" \/ OlderIoctl(c) \/ NextCommand(c)
           ELSE UNCHANGED <<pc[c], nsid[c], count[c]>>]_vars
  <2> SUFFICES ASSUME TypeOK, [Next]_vars, NEW c \in Callers, pc[c] # "idle", ~Running(c)
               PROVE  UNCHANGED <<pc[c], nsid[c], count[c]>>
    BY RunningGoesOn
  <2>1. ASSUME NEW b \in Callers, Running(b) PROVE UNCHANGED <<pc[c], nsid[c], count[c]>>
    BY <2>1, RunningGoesOn
  <2>2. ASSUME NEW b \in Callers, Call(b) PROVE UNCHANGED <<pc[c], nsid[c], count[c]>>
    BY <2>2 DEF Call, TypeOK
  <2>3. CASE UNCHANGED <<pc, nsid, count>>
    BY <2>3
  <2>4. QED
    BY <2>1, <2>2, <2>3 DEF Next, Resize, Use, vars
<1>2. QED
  BY <1>1, InitTypes, StepTypes, PTL DEF Spec, WalkGoesOn
=============================================================================
