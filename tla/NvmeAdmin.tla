------------------------------ MODULE NvmeAdmin ------------------------------
(***************************************************************************)
(* The admin commands of an NVMe drive (src/nvme_linux.go, src/nvme.go):   *)
(* callers run Identify, ReadSMART and ReadGenericAttributes on one        *)
(* controller.  Each command goes out by the 64-bit passthrough ioctl and, *)
(* on a kernel that does not know it (ENOTTY), by the older one.           *)
(*                                                                         *)
(* Identify asks for the controller and then for one namespace after the   *)
(* other, with an ioctl each.  Namespaces are created, formatted and       *)
(* deleted by others in between.  A step is one ioctl.                     *)
(*                                                                         *)
(* The drive may reject a command.  The passthrough ioctl then returns its *)
(* status, a positive number, and sets no errno: the function ioctl        *)
(* (src/ioctl_linux.go) looks at errno only, and the buffer stays zero.    *)
(***************************************************************************)
EXTENDS Integers, Sequences

CONSTANTS Callers,
          MaxNamespaces,   \* bound on Nn, the namespaces a controller supports
          Active,          \* what active namespaces say: [Nsze, Flbas]
          Logs,            \* SMART logs; a 128-bit counter is <<low, high>>
          Kernels          \* the sets of ioctls the kernel may know

Namespaces == 1..MaxNamespaces
Uint16 == {k \in Nat : k < 65536}
Ioctls == {"admin64", "admin"}

\* A buffer that nothing was read into, as a namespace and as a log.
Inactive == [Nsze |-> 0, Flbas |-> 0]
NoLog == [Temperature |-> 0, DataUnitsRead |-> <<0, 0>>, DataUnitsWritten |-> <<0, 0>>,
          PowerOnHours |-> <<0, 0>>, PowerCycles |-> <<0, 0>>]

NamespaceData == [Nsze : Nat, Flbas : 0..255]
SmartLogs == [Temperature : Uint16, DataUnitsRead : Nat \X Nat, DataUnitsWritten : Nat \X Nat,
              PowerOnHours : Nat \X Nat, PowerCycles : Nat \X Nat]

ASSUME NvmeAssumption ==
  /\ MaxNamespaces \in Nat
  /\ Active \subseteq NamespaceData /\ \A d \in Active : d.Nsze # 0
  /\ Logs \subseteq SmartLogs
  /\ Kernels \subseteq SUBSET Ioctls

VARIABLES faulty,    \* whether commands may fail at any time
          kernel,    \* the passthrough ioctls the kernel knows
          Nn,        \* number of namespaces the controller supports
          data,      \* what each namespace says, or Inactive
          log,       \* the drive's SMART log
          pc,        \* the ioctl each caller is about to issue, or "idle"
          op,        \* what it runs
          nsid,      \* the namespace it asks for; 0 is the controller or the log
          count,     \* controller.Nn as it has read it
          ns,        \* the namespaces it has collected
          result,    \* what its last call returned
          executed,  \* how often the drive has seen the command at hand
          rejected,  \* the namespaces (or 0) whose command it has rejected
          since,     \* what each namespace has said since a call of Identify
          shown      \* the SMART logs since another call

vars == <<faulty, kernel, Nn, data, log, pc, op, nsid, count, ns, result, executed,
          rejected, since, shown>>
drive == <<faulty, kernel, Nn>>
ghosts == <<since, shown>>

Ops == {"Identify", "ReadSMART", "ReadGenericAttributes"}

Entry  == [nsid : Namespaces, data : Active]
Failed == [ok |-> FALSE]
Done(l) == [ok |-> TRUE, ns |-> l]
Read(l) == [ok |-> TRUE, log |-> l]
Picked(g) == [ok |-> TRUE, generic |-> g]

\* What an ioctl does to the command and returns.  A command that fails may
\* have been executed all the same: it timed out, or its data was not copied.
Outcomes(ioctl) ==
  IF ioctl \notin kernel THEN {[err |-> "ENOTTY", executed |-> 0, data |-> FALSE]}
  ELSE {[err |-> "nil", executed |-> 1, data |-> TRUE]}
         \cup IF faulty THEN [err : {"EIO"}, executed : {0, 1}, data : {FALSE}]
                             \cup {[err |-> "nil", executed |-> 1, data |-> FALSE]} ELSE {}

FallsBack_OnAnyError(err) == err # "nil"
FallsBack_Never(err) == FALSE
FallsBack(err) == err = "ENOTTY"

\* The loop over the namespaces of Identify, and its test that leaves an
\* inactive one out.
HasMore_OffByOne(i, n) == i < n
HasMore(i, n) == i <= n

Following_WaitsForActive(i, d) == IF d.Nsze = 0 THEN i ELSE i + 1
Following(i, d) == i + 1

Collected_Inactive(l, i, d) == Append(l, [nsid |-> i, data |-> d])
Collected(l, i, d) == IF d.Nsze = 0 THEN l ELSE Append(l, [nsid |-> i, data |-> d])

\* uint64(log.Temperature - 273), a difference of uint16.
Celsius(kelvin) == (kelvin - 273) % 65536

\* What ReadGenericAttributes makes of a log.
Generic_Swapped(l) ==
  [Temperature |-> Celsius(l.Temperature), Read |-> l.DataUnitsWritten[1],
   Written |-> l.DataUnitsRead[1], PowerOnHours |-> l.PowerOnHours[1],
   PowerCycles |-> l.PowerCycles[1]]
Generic(l) ==
  [Temperature |-> Celsius(l.Temperature), Read |-> l.DataUnitsRead[1],
   Written |-> l.DataUnitsWritten[1], PowerOnHours |-> l.PowerOnHours[1],
   PowerCycles |-> l.PowerCycles[1]]

-----------------------------------------------------------------------------

Init ==
  /\ faulty \in BOOLEAN
  /\ kernel \in Kernels
  /\ Nn \in 0..MaxNamespaces
  /\ data \in [Namespaces -> Active \cup {Inactive}]
  /\ \A n \in Namespaces : n > Nn => data[n] = Inactive
  /\ log \in Logs
  /\ pc = [c \in Callers |-> "idle"]
  /\ op = [c \in Callers |-> "Identify"]
  /\ nsid = [c \in Callers |-> 0]
  /\ count = [c \in Callers |-> 0]
  /\ ns = [c \in Callers |-> <<>>]
  /\ result = [c \in Callers |-> Failed]
  /\ executed = [c \in Callers |-> 0]
  /\ rejected = [c \in Callers |-> {}]
  /\ since = [c \in Callers |-> [n \in Namespaces |-> {}]]
  /\ shown = [c \in Callers |-> {}]

\* Identify, ReadSMART or ReadGenericAttributes is called.
Call(c) ==
  /\ pc[c] = "idle"
  /\ \E o \in Ops :
       /\ op' = [op EXCEPT ![c] = o]
       /\ since' = [since EXCEPT ![c] = [n \in Namespaces |-> IF o = "Identify" THEN {data[n]} ELSE {}]]
       /\ shown' = [shown EXCEPT ![c] = IF o = "Identify" THEN {} ELSE {log}]
  /\ pc' = [pc EXCEPT ![c] = "admin64"]
  /\ nsid' = [nsid EXCEPT ![c] = 0]
  /\ ns' = [ns EXCEPT ![c] = <<>>]
  /\ executed' = [executed EXCEPT ![c] = 0]
  /\ rejected' = [rejected EXCEPT ![c] = {}]
  /\ UNCHANGED <<drive, data, log, count, result>>

Return(c, r) ==
  /\ pc' = [pc EXCEPT ![c] = "idle"]
  /\ result' = [result EXCEPT ![c] = r]
  /\ UNCHANGED <<nsid, count, ns>>

\* Identify goes on to namespace i of n, with the list l, or is at its end.
Proceed(c, i, n, l) ==
  \/ /\ HasMore(i, n)
     /\ pc' = [pc EXCEPT ![c] = "admin64"]
     /\ nsid' = [nsid EXCEPT ![c] = i]
     /\ count' = [count EXCEPT ![c] = n]
     /\ ns' = [ns EXCEPT ![c] = l]
     /\ UNCHANGED result
  \/ ~HasMore(i, n) /\ Return(c, Done(l))

\* A command has returned without errno: with what the drive says now, or
\* with nothing if the drive has rejected it.
Receive(c, answered) ==
  \/ op[c] = "ReadSMART" /\ Return(c, Read(IF answered THEN log ELSE NoLog))
  \/ op[c] = "ReadGenericAttributes" /\ Return(c, Picked(Generic(IF answered THEN log ELSE NoLog)))
  \/ op[c] = "Identify" /\ nsid[c] = 0 /\ Proceed(c, 1, IF answered THEN Nn ELSE 0, <<>>)
  \/ /\ op[c] = "Identify" /\ nsid[c] # 0
     /\ LET i == nsid[c]
            d == IF answered THEN data[i] ELSE Inactive
        IN  Proceed(c, Following(i, d), count[c], Collected(ns[c], i, d))

Finish(c, o) ==
  /\ IF o.err = "nil" THEN Receive(c, o.data) ELSE Return(c, Failed)
  /\ rejected' = [rejected EXCEPT ![c] = IF o.err = "nil" /\ ~o.data THEN @ \cup {nsid[c]} ELSE @]

\* The ioctl with the 64-bit structure.
Admin64(c) ==
  /\ pc[c] = "admin64"
  /\ \E o \in Outcomes("admin64") :
       /\ executed' = [executed EXCEPT ![c] = o.executed]
       /\ IF FallsBack(o.err)
          THEN pc' = [pc EXCEPT ![c] = "admin"] /\ UNCHANGED <<nsid, count, ns, result, rejected>>
          ELSE Finish(c, o)
  /\ UNCHANGED <<drive, data, log, op, ghosts>>

\* The fallback: whatever it returns is the answer.
Admin(c) ==
  /\ pc[c] = "admin"
  /\ \E o \in Outcomes("admin") :
       /\ executed' = [executed EXCEPT ![c] = @ + o.executed]
       /\ Finish(c, o)
  /\ UNCHANGED <<drive, data, log, op, ghosts>>

Walking(c) == pc[c] # "idle" /\ op[c] = "Identify"
Reading(c) == pc[c] # "idle" /\ op[c] # "Identify"

\* A namespace is created, formatted or deleted.
Resize(n) ==
  /\ n <= Nn
  /\ \E d \in (Active \cup {Inactive}) \ {data[n]} :
       /\ data' = [data EXCEPT ![n] = d]
       /\ since' = [c \in Callers |-> IF Walking(c) THEN [since[c] EXCEPT ![n] = @ \cup {d}]
                                      ELSE since[c]]
  /\ UNCHANGED <<drive, log, pc, op, nsid, count, ns, result, executed, rejected, shown>>

\* The drive is used: its log changes.
Use ==
  /\ log' \in Logs \ {log}
  /\ shown' = [c \in Callers |-> IF Reading(c) THEN shown[c] \cup {log'} ELSE shown[c]]
  /\ UNCHANGED <<drive, data, pc, op, nsid, count, ns, result, executed, rejected, since>>

Running(c) == Admin64(c) \/ Admin(c)

Next ==
  \/ \E c \in Callers : Call(c) \/ Running(c)
  \/ \E n \in Namespaces : Resize(n)
  \/ Use

Spec == Init /\ [][Next]_vars

\* The kernel times admin commands out, and goroutines are scheduled.
FairSpec == Spec /\ \A c \in Callers : WF_vars(Running(c))

-----------------------------------------------------------------------------
(* Properties.                                                             *)

Generics == [Temperature : Uint16, Read : Nat, Written : Nat, PowerOnHours : Nat,
             PowerCycles : Nat]
Results == {Failed} \cup [ok : {TRUE}, ns : Seq(Entry)] \cup [ok : {TRUE}, log : SmartLogs]
             \cup [ok : {TRUE}, generic : Generics]

\* The variables keep their types.
TypeOK ==
  /\ faulty \in BOOLEAN
  /\ kernel \in Kernels
  /\ Nn \in 0..MaxNamespaces
  /\ data \in [Namespaces -> Active \cup {Inactive}]
  /\ log \in Logs
  /\ pc \in [Callers -> {"idle"} \cup Ioctls]
  /\ op \in [Callers -> Ops]
  /\ nsid \in [Callers -> 0..MaxNamespaces]
  /\ count \in [Callers -> 0..MaxNamespaces]
  /\ ns \in [Callers -> Seq(Entry)]
  /\ result \in [Callers -> Results]
  /\ executed \in [Callers -> Nat]
  /\ rejected \in [Callers -> SUBSET (0..MaxNamespaces)]
  /\ since \in [Callers -> [Namespaces -> SUBSET (Active \cup {Inactive})]]
  /\ shown \in [Callers -> SUBSET Logs]

\* The fallback never repeats a command the drive has executed, although the
\* first ioctl may fail after that: a drive sees each command at most once.
NeverTwice == \A c \in Callers : executed[c] <= 1

\* What Identify has collected of the namespaces before i, and returns at the
\* end: one entry for each namespace that was active throughout (unless the drive
\* has rejected a command about it), none for one that was inactive throughout, in the
\* order of their ids, and nothing the namespace did not say during the call.
Collects(c, l, i, refused) ==
  /\ \A j, k \in 1..Len(l) : j < k => l[j].nsid < l[k].nsid
  /\ \A j \in 1..Len(l) : l[j].nsid < i /\ l[j].data # Inactive /\ l[j].data \in since[c][l[j].nsid]
  /\ \A n \in Namespaces :
       n < i /\ Inactive \notin since[c][n] /\ refused \cap {0, n} = {}
         => \E j \in 1..Len(l) : l[j].nsid = n

\* The list Identify returns is consistent with the time of the call, whatever
\* happens to the namespaces meanwhile.
ListIsCurrent ==
  [][\A c \in Callers :
       pc[c] # "idle" /\ pc'[c] = "idle" /\ op[c] = "Identify" /\ result'[c].ok
         => Collects(c, result'[c].ns, MaxNamespaces + 1, rejected'[c])]_vars

\* ReadGenericAttributes never misleads about the temperature: one that a drive can
\* have, the drive has had during the call, and the counters next to it (their lower
\* 64 bits) are of the same moment.  Below 0 degrees, and if the drive has rejected the
\* command, the answer is one that no drive has: 65263 and more.
GenericIsMeasured ==
  [][\A c \in Callers :
       /\ pc[c] # "idle" /\ pc'[c] = "idle" /\ op[c] = "ReadGenericAttributes"
       /\ result'[c].ok /\ result'[c].generic.Temperature < 65536 - 273
       => LET g == result'[c].generic
          IN  \E l \in shown[c] :
                /\ l.Temperature = g.Temperature + 273
                /\ <<l.DataUnitsRead[1], l.DataUnitsWritten[1], l.PowerOnHours[1], l.PowerCycles[1]>>
                     = <<g.Read, g.Written, g.PowerOnHours, g.PowerCycles>>]_vars

\* On every kernel that has a passthrough ioctl at all, with a drive that
\* executes its commands, no call fails.
OldKernelsServe ==
  [][~faulty /\ kernel # {} => \A c \in Callers :
       pc[c] # "idle" /\ pc'[c] = "idle" => result'[c].ok]_vars

\* A call never asks again: each ioctl ends it, is followed by the older one for the
\* same command, or takes it to the next of the namespaces that the controller has
\* named first, however their number looks later and whatever others do.  So a call
\* takes two ioctls for the controller and for each namespace at most.
NextCommand(c) ==
  /\ pc'[c] = "admin64"
  /\ nsid'[c] = nsid[c] + 1 /\ nsid'[c] <= count'[c]
  /\ nsid[c] # 0 => count'[c] = count[c]
OlderIoctl(c) ==
  pc[c] = "admin64" /\ pc'[c] = "admin" /\ UNCHANGED <<nsid[c], count[c]>>

WalkGoesOn ==
  [][\A c \in Callers : pc[c] # "idle" =>
       IF Running(c) THEN pc'[c] = "idle" \/ OlderIoctl(c) \/ NextCommand(c)
       ELSE UNCHANGED <<pc[c], nsid[c], count[c]>>]_vars

\* Every call returns: the walk over the namespaces comes to its end although
\* they change.
CallReturns == \A c \in Callers : pc[c] # "idle" ~> pc[c] = "idle"
=============================================================================
