-------------------------- MODULE DeviceOpenProofs --------------------------
(***************************************************************************)
(* Opening and closing devices for any number of callers, paths, devices,  *)
(* descriptors and replacements: the descriptor table stays sound.         *)
(***************************************************************************)
EXTENDS DeviceOpen, FiniteSetTheorems, TLAPS

\* The shapes the control flow of the drivers can give to step, driver, errs
\* and seen, whichever action of a caller takes it.
Control ==
  /\ driver \in [Callers -> Drivers]
  /\ step \in [Callers -> Steps]
  /\ errs \in [Callers -> SUBSET Drivers]
  /\ seen \in [Callers -> SUBSET Devices]

\* The first driver of a call, and the one after a failure, are drivers.
LEMMA DriverTypes ==
  /\ \A e \in Entries, p \in Paths : FirstDriver(e, p) \in Drivers
  /\ \A d \in Drivers : NextDriver(d) \in Drivers
BY OpenAssumption DEF FirstDriver, NextDriver, Drivers, Direct

\* Every way on from a step of a driver keeps the types of the control state.
LEMMA ControlTypes ==
  ASSUME TypeOK, NEW c \in Callers,
         \/ \E s \in Steps : GoTo(c, s)
         \/ Succeed(c) \/ DriverFails(c) \/ Abandon(c)
  PROVE  Control'
<1>1. CASE \E s \in Steps : GoTo(c, s)
  BY <1>1 DEF TypeOK, GoTo, Control
<1>2. CASE Succeed(c)
  BY <1>2 DEF TypeOK, Succeed, Control, Steps
<1>3. CASE DriverFails(c)
  <2>1. errs' \in [Callers -> SUBSET Drivers]
    BY <1>3 DEF TypeOK, DriverFails
  <2>2. CASE entry[c] = "Open" /\ driver[c] # "scsi"
    <3>1. NextDriver(driver[c]) \in Drivers
      BY DriverTypes DEF TypeOK
    <3>2. driver' \in [Callers -> Drivers]
      BY <1>3, <2>2, <3>1 DEF TypeOK, DriverFails
    <3>3. step' \in [Callers -> Steps] /\ UNCHANGED seen
      BY <1>3, <2>2 DEF TypeOK, DriverFails, Steps
    <3>4. QED
      BY <2>1, <3>2, <3>3 DEF TypeOK, Control
  <2>3. CASE ~(entry[c] = "Open" /\ driver[c] # "scsi")
    BY <1>3, <2>1, <2>3 DEF TypeOK, DriverFails, Control, Steps
  <2>4. QED
    BY <2>2, <2>3
<1>4. CASE Abandon(c)
  BY <1>4 DEF TypeOK, Abandon, GoTo, Control, Steps
<1>5. QED
  BY <1>1, <1>2, <1>3, <1>4

\* A command that fails leaves the buffer as it was.
LEMMA FailuresAreEmpty == \A r \in Failures : r.data = Zeroed
BY DEF Failures, Broken, Unserved, Errno, HostError, Silent, Good, Check

\* What an ATA command returns is data of a device, or nothing.
LEMMA AtaDataTypes ==
  ASSUME TypeOK, NEW c \in Callers, NEW r \in AtaData(c)
  PROVE  r.data \in Devices \cup {Zeroed}
<1>1. CASE ~Reachable(c) \/ Dev(c).kind = "nvme"
  BY <1>1 DEF AtaData, Broken, Errno, HostError, Silent
<1>2. CASE ~(~Reachable(c) \/ Dev(c).kind = "nvme")
  <2>1. Dev(c) \in Devices
    BY <1>2 DEF Reachable, Dev, File, TypeOK, Files
  <2>2. r = Good(Dev(c)) \/ r \in Failures
    BY <1>2 DEF AtaData, Faulty, Failures, Unserved, RefusalSenses
  <2>3. QED
    BY <2>1, <2>2, FailuresAreEmpty DEF Good
<1>3. QED
  BY <1>1, <1>2

\* The initial states have the right types.
LEMMA InitTypes == Init => TypeOK
<1> SUFFICES ASSUME Init PROVE TypeOK
  OBVIOUS
<1>1. /\ faulty \in Faults /\ replacements \in 0..MaxReplacements
      /\ wedged \subseteq Paths
      /\ at \in [Paths -> Devices]
  BY OpenAssumption DEF Init
<1>2. fds \in [FDs -> Files \cup {NoFile}]
  BY DEF Init
<1>3. /\ entry \in [Callers -> Entries] /\ path \in [Callers -> Paths]
      /\ fd \in [Callers -> FDs]
  BY DEF Init
<1>4. /\ driver \in [Callers -> Drivers] /\ step \in [Callers -> Steps]
      /\ errs \in [Callers -> SUBSET Drivers]
      /\ identity \in [Callers -> Devices \cup {Zeroed}]
      /\ seen \in [Callers -> SUBSET Devices]
  BY DEF Init, Drivers, Steps
<1>5. QED
  BY <1>1, <1>2, <1>3, <1>4 DEF TypeOK

\* Every step keeps the types.
LEMMA StepTypes == TypeOK /\ [Next]_vars => TypeOK'
<1> SUFFICES ASSUME TypeOK, [Next]_vars PROVE TypeOK'
  OBVIOUS
<1>1. ASSUME NEW c \in Callers, Start(c) PROVE TypeOK'
  <2>1. /\ entry' \in [Callers -> Entries] /\ path' \in [Callers -> Paths]
        /\ driver' \in [Callers -> Drivers] /\ seen' \in [Callers -> SUBSET Devices]
    BY <1>1, DriverTypes DEF Start, TypeOK
  <2>2. /\ step' \in [Callers -> Steps] /\ errs' \in [Callers -> SUBSET Drivers]
    BY <1>1 DEF Start, TypeOK, Steps
  <2>3. QED
    BY <1>1, <2>1, <2>2 DEF Start, TypeOK, world, notes
<1>2. ASSUME NEW c \in Callers, OpenFile(c) PROVE TypeOK'
  <2>1. UNCHANGED <<faulty, at, replacements, entry, path, wedged>>
    BY <1>2 DEF OpenFile, world, call
  <2>2. Control'
    BY <1>2, ControlTypes DEF OpenFile, Steps
  <2>3. fds' \in [FDs -> Files \cup {NoFile}] /\ fd' \in [Callers -> FDs]
    <3>1. CASE \E f \in FDs : Opened(c, f)
      <4>1. PICK f \in FDs : Opened(c, f)
        BY <3>1
      <4>2. [dev |-> at[path[c]], path |-> path[c], live |-> TRUE] \in Files
        BY DEF TypeOK, Files
      <4>3. QED
        BY <4>1, <4>2 DEF Opened, TypeOK
    <3>2. CASE UNCHANGED <<fds, fd>>
      BY <3>2 DEF TypeOK
    <3>3. QED
      BY <1>2, <3>1, <3>2 DEF OpenFile
  <2>4. identity' \in [Callers -> Devices \cup {Zeroed}]
    BY <1>2 DEF OpenFile, TypeOK
  <2>5. QED
    BY <2>1, <2>2, <2>3, <2>4 DEF TypeOK, Control
<1>3. ASSUME NEW c \in Callers, NvmeIdentify(c) PROVE TypeOK'
  <2>1. UNCHANGED <<faulty, at, replacements, entry, path, fds, fd>>
    BY <1>3 DEF NvmeIdentify, world, call
  <2>2. Control'
    BY <1>3, ControlTypes DEF NvmeIdentify
  <2>3. identity' \in [Callers -> Devices \cup {Zeroed}]
    BY <1>3 DEF NvmeIdentify, TypeOK
  <2>4. wedged' \subseteq Paths
    <3>1. File(c) # NoFile => File(c).path \in Paths
      BY DEF TypeOK, Files, File
    <3>2. QED
      BY <1>3, <3>1 DEF NvmeIdentify, Wedging, Reachable, TypeOK
  <2>5. QED
    BY <2>1, <2>2, <2>3, <2>4 DEF TypeOK, Control
<1>4. ASSUME NEW c \in Callers, Inquire(c) PROVE TypeOK'
  <2>1. UNCHANGED <<faulty, at, replacements, entry, path, fds, fd, identity, wedged>>
    BY <1>4 DEF Inquire, world, call, notes
  <2>2. Control'
    BY <1>4, ControlTypes DEF Inquire, Steps
  <2>3. QED
    BY <2>1, <2>2 DEF TypeOK, Control
<1>5. ASSUME NEW c \in Callers, Probe(c) PROVE TypeOK'
  <2>1. UNCHANGED <<faulty, at, replacements, entry, path, fds, fd, identity, wedged>>
    BY <1>5 DEF Probe, world, call, notes
  <2>2. Control'
    BY <1>5, ControlTypes DEF Probe, Steps
  <2>3. QED
    BY <2>1, <2>2 DEF TypeOK, Control
<1>6. ASSUME NEW c \in Callers, SataIdentify(c) PROVE TypeOK'
  <2>1. UNCHANGED <<faulty, at, replacements, entry, path, fds, fd, wedged>>
    BY <1>6 DEF SataIdentify, world, call
  <2>2. Control'
    BY <1>6, ControlTypes DEF SataIdentify
  <2>3. identity' \in [Callers -> Devices \cup {Zeroed}]
    BY <1>6, AtaDataTypes DEF SataIdentify, TypeOK
  <2>4. QED
    BY <2>1, <2>2, <2>3 DEF TypeOK, Control
<1>7. ASSUME NEW c \in Callers, CloseOnError(c) PROVE TypeOK'
  <2>1. UNCHANGED <<faulty, at, replacements, entry, path, fd, identity, wedged>>
    BY <1>7 DEF CloseOnError, world, call, notes
  <2>2. Control'
    BY <1>7, ControlTypes DEF CloseOnError
  <2>3. fds' \in [FDs -> Files \cup {NoFile}]
    BY <1>7 DEF CloseOnError, TypeOK
  <2>4. QED
    BY <2>1, <2>2, <2>3 DEF TypeOK, Control
<1>8. ASSUME NEW c \in Callers, Close(c) PROVE TypeOK'
  <2>1. UNCHANGED <<faulty, at, replacements, entry, path, fd, identity, wedged>>
    BY <1>8 DEF Close, world, call, notes
  <2>2. Control'
    BY <1>8, ControlTypes DEF Close, AfterClose, Steps
  <2>3. fds' \in [FDs -> Files \cup {NoFile}]
    BY <1>8 DEF Close, TypeOK
  <2>4. QED
    BY <2>1, <2>2, <2>3 DEF TypeOK, Control
<1>9. ASSUME NEW p \in Paths, Replace(p) PROVE TypeOK'
  <2>1. UNCHANGED <<faulty, entry, path, driver, step, fd, errs, identity>>
    BY <1>9 DEF Replace, call
  <2>2. replacements' \in 0..MaxReplacements
    BY <1>9, OpenAssumption DEF Replace, TypeOK
  <2>3. at' \in [Paths -> Devices] /\ seen' \in [Callers -> SUBSET Devices]
    BY <1>9 DEF Replace, TypeOK
  <2>4. fds' \in [FDs -> Files \cup {NoFile}]
    <3>1. \A f \in FDs : fds[f] # NoFile => [fds[f] EXCEPT !.live = FALSE] \in Files
      BY DEF TypeOK, Files
    <3>2. QED
      BY <1>9, <3>1 DEF Replace, TypeOK
  <2>5. wedged' \subseteq Paths
    BY <1>9 DEF Replace, TypeOK
  <2>6. QED
    BY <2>1, <2>2, <2>3, <2>4, <2>5 DEF TypeOK
<1>10. CASE UNCHANGED vars
  BY <1>10 DEF vars, TypeOK
<1>11. QED
  BY <1>1, <1>2, <1>3, <1>4, <1>5, <1>6, <1>7, <1>8, <1>9, <1>10 DEF Next, Opening

\* Every variable keeps its type, whatever the drivers do.
THEOREM TypeCorrect == Spec => []TypeOK
<1>1. QED
  BY InitTypes, StepTypes, PTL DEF Spec

-----------------------------------------------------------------------------
(* Descriptors.  FdsAccounted is inductive given the types: a descriptor   *)
(* is handed out only if it is free, and given back only by its owner.     *)

\* A caller that neither opens nor closes anything keeps what it has.
LEMMA FilesKept ==
  ASSUME TypeOK, FdsAccounted, UNCHANGED <<fds, fd>>,
         NEW c \in Callers, HasFile(c) /\ HasFile(c)',
         \A b \in Callers \ {c} : step'[b] = step[b],
         path' = path
  PROVE  FdsAccounted'
<1>1. \A b \in Callers : HasFile(b)' <=> HasFile(b)
  BY DEF HasFile
<1>2. QED
  BY <1>1 DEF FdsAccounted, File

\* A step of a driver moves its own caller only.
LEMMA OwnStep ==
  ASSUME TypeOK, NEW c \in Callers,
         \/ \E s \in Steps : GoTo(c, s)
         \/ Succeed(c) \/ DriverFails(c) \/ Abandon(c)
  PROVE  \A b \in Callers \ {c} : step'[b] = step[b]
BY DEF TypeOK, GoTo, Succeed, DriverFails, Abandon

\* Going on with a descriptor: the caller still has it after the step.
LEMMA HoldsOn ==
  ASSUME TypeOK, NEW c \in Callers,
         \/ \E s \in {"inquiry", "probe", "identify", "close", "held"} : GoTo(c, s)
         \/ Succeed(c) \/ Abandon(c)
  PROVE  HasFile(c)'
BY DEF TypeOK, GoTo, Succeed, Abandon, HasFile

\* Closing: a driver fails, or Close returns, and its descriptor is free.
LEMMA FilesClosed ==
  ASSUME TypeOK, FdsAccounted, NEW c \in Callers, HasFile(c), ~HasFile(c)',
         fds' = [fds EXCEPT ![fd[c]] = NoFile],
         UNCHANGED <<fd, path>>,
         \A b \in Callers \ {c} : step'[b] = step[b]
  PROVE  FdsAccounted'
<1>1. \A b \in Callers : HasFile(b)' <=> HasFile(b) /\ b # c
  BY DEF HasFile
<1>2. \A b \in Callers : HasFile(b) /\ b # c => File(b)' = File(b)
  BY DEF FdsAccounted, File, TypeOK
<1>3. fd[c] \in FDs /\ fds'[fd[c]] = NoFile /\ \A f \in FDs : f # fd[c] => fds'[f] = fds[f]
  BY DEF TypeOK
<1>4. QED
  BY <1>1, <1>2, <1>3 DEF FdsAccounted

\* Before the first call no caller has a descriptor and none is open.
LEMMA InitFiles == Init => FdsAccounted
BY DEF Init, FdsAccounted, HasFile

\* Every step keeps the descriptors accounted for.
LEMMA StepFiles == TypeOK /\ FdsAccounted /\ [Next]_vars => FdsAccounted'
<1> SUFFICES ASSUME TypeOK, FdsAccounted, [Next]_vars PROVE FdsAccounted'
  OBVIOUS
<1>1. ASSUME NEW c \in Callers, Start(c) PROVE FdsAccounted'
  <2>1. \A b \in Callers : HasFile(b)' <=> HasFile(b)
    BY <1>1 DEF Start, HasFile, TypeOK
  <2>2. \A b \in Callers : HasFile(b) => path'[b] = path[b]
    BY <1>1 DEF Start, HasFile, TypeOK
  <2>3. UNCHANGED <<fds, fd>>
    BY <1>1 DEF Start
  <2>4. QED
    BY <2>1, <2>2, <2>3 DEF FdsAccounted, File
<1>2. ASSUME NEW c \in Callers, OpenFile(c) PROVE FdsAccounted'
  <2>1. ~HasFile(c) /\ UNCHANGED path
    BY <1>2 DEF OpenFile, HasFile, call
  <2>2. CASE /\ \E f \in FDs : Opened(c, f)
             /\ \/ \E s \in {"inquiry", "probe", "identify", "close", "held"} : GoTo(c, s)
                \/ Succeed(c)
    <3>1. PICK f \in FDs : Opened(c, f)
      BY <2>2
    <3>2. HasFile(c)'
      BY <2>2, HoldsOn
    <3>3. \A b \in Callers \ {c} : step'[b] = step[b]
      BY <2>2, OwnStep DEF Steps
    <3>4. fds[f] = NoFile /\ fd' = [fd EXCEPT ![c] = f]
          /\ \A g \in FDs : g # f => fds'[g] = fds[g]
      BY <3>1 DEF Opened, TypeOK
    <3>5. fds'[f] # NoFile /\ fds'[f].path = path[c]
      <4> DEFINE new == [dev |-> at[path[c]], path |-> path[c], live |-> TRUE]
      <4>1. new \in Files
        BY DEF TypeOK, Files
      <4>2. new # NoFile /\ new.path = path[c]
        BY <4>1, OpenAssumption DEF Files
      <4>3. fds'[f] = new
        BY <3>1 DEF Opened, TypeOK
      <4>4. QED
        BY <4>2, <4>3
    <3>6. \A b \in Callers \ {c} : /\ HasFile(b)' <=> HasFile(b)
                                   /\ fd'[b] = fd[b]
                                   /\ HasFile(b) => fd[b] # f
      BY <3>3, <3>4 DEF HasFile, FdsAccounted, File, TypeOK
    <3>7. fd'[c] = f
      BY <3>4 DEF TypeOK
    <3>8. QED
      BY <2>1, <3>2, <3>4, <3>5, <3>6, <3>7 DEF FdsAccounted, File, TypeOK
  <2>3. CASE DriverFails(c) /\ UNCHANGED <<fds, fd>>
    <3>1. \A b \in Callers \ {c} : step'[b] = step[b]
      BY <2>3, OwnStep
    <3>2. ~HasFile(c)'
      BY <2>3 DEF DriverFails, HasFile, TypeOK
    <3>3. \A b \in Callers : HasFile(b)' <=> HasFile(b)
      BY <2>1, <3>1, <3>2 DEF HasFile
    <3>4. QED
      BY <2>1, <2>3, <3>3 DEF FdsAccounted, File
  <2>4. QED
    BY <1>2, <2>2, <2>3 DEF OpenFile
<1>3. ASSUME NEW c \in Callers, NvmeIdentify(c) \/ Inquire(c) \/ Probe(c) \/ SataIdentify(c)
      PROVE  FdsAccounted'
  <2>1. HasFile(c) /\ UNCHANGED <<path, fds, fd>>
    BY <1>3 DEF NvmeIdentify, Inquire, Probe, SataIdentify, HasFile, call
  <2>2. \/ \E s \in {"inquiry", "probe", "identify", "close", "held"} : GoTo(c, s)
        \/ Succeed(c) \/ Abandon(c)
    BY <1>3 DEF NvmeIdentify, Inquire, Probe, SataIdentify
  <2>3. HasFile(c)'
    BY <2>2, HoldsOn
  <2>4. \A b \in Callers \ {c} : step'[b] = step[b]
    BY <2>2, OwnStep DEF Steps
  <2>5. QED
    BY <2>1, <2>3, <2>4, FilesKept
<1>4. ASSUME NEW c \in Callers, CloseOnError(c) PROVE FdsAccounted'
  <2>1. HasFile(c) /\ ~HasFile(c)'
    BY <1>4 DEF CloseOnError, DriverFails, HasFile, TypeOK
  <2>2. \A b \in Callers \ {c} : step'[b] = step[b]
    BY <1>4, OwnStep DEF CloseOnError
  <2>3. QED
    BY <1>4, <2>1, <2>2, FilesClosed DEF CloseOnError, call
<1>5. ASSUME NEW c \in Callers, Close(c) PROVE FdsAccounted'
  <2>1. HasFile(c) /\ ~HasFile(c)'
    BY <1>5 DEF Close, AfterClose, GoTo, HasFile, TypeOK
  <2>2. \A b \in Callers \ {c} : step'[b] = step[b]
    BY <1>5, OwnStep DEF Close, AfterClose, Steps
  <2>3. QED
    BY <1>5, <2>1, <2>2, FilesClosed DEF Close, call
<1>6. ASSUME NEW p \in Paths, Replace(p) PROVE FdsAccounted'
  <2>1. UNCHANGED <<step, fd, path>>
    BY <1>6 DEF Replace, call
  <2>2. \A f \in FDs : /\ fds'[f] # NoFile <=> fds[f] # NoFile
                       /\ fds[f] # NoFile => fds'[f].path = fds[f].path
    <3>1. \A f \in FDs : fds[f] # NoFile => fds[f] \in Files
      BY DEF TypeOK
    <3>2. \A x \in Files : /\ [x EXCEPT !.live = FALSE] \in Files
                           /\ [x EXCEPT !.live = FALSE].path = x.path
      BY DEF Files
    <3>3. NoFile \notin Files
      BY OpenAssumption DEF Files
    <3>4. QED
      BY <1>6, <3>1, <3>2, <3>3 DEF Replace
  <2>3. \A b \in Callers : (HasFile(b)' <=> HasFile(b)) /\ fd[b] \in FDs
    BY <2>1 DEF HasFile, TypeOK
  <2>4. QED
    BY <2>1, <2>2, <2>3 DEF FdsAccounted, File
<1>7. CASE UNCHANGED vars
  BY <1>7 DEF vars, FdsAccounted, File, HasFile
<1>8. QED
  BY <1>1, <1>2, <1>3, <1>4, <1>5, <1>6, <1>7 DEF Next, Opening

\* No descriptor is leaked or shared, on any error path of any driver, however
\* the calls interleave and whatever the devices answer.
THEOREM NoLeaks == Spec => []FdsAccounted
<1>1. Init => TypeOK /\ FdsAccounted
  BY InitTypes, InitFiles
<1>2. TypeOK /\ FdsAccounted /\ [Next]_vars => (TypeOK /\ FdsAccounted)'
  BY StepTypes, StepFiles
<1>3. QED
  BY <1>1, <1>2, PTL DEF Spec

-----------------------------------------------------------------------------
(* USB bridges.  That Open sends no NVMe command elsewhere than to an NVMe *)
(* path needs to know how the NVMe driver comes to run at all.             *)

\* In the NVMe driver, Open has an NVMe path, and only Open goes on to ask the
\* device anything after opening it.
NvmeGuard ==
  \A c \in Callers :
    driver[c] = "nvme" /\ step[c] # "idle" =>
      /\ entry[c] = "Open" => path[c] \in NvmePaths
      /\ step[c] \notin {"open", "held"} => entry[c] = "Open"

\* The callers that do not take the step stay guarded.
LEMMA OthersGuarded ==
  ASSUME TypeOK, NvmeGuard, NEW c \in Callers,
         UNCHANGED <<entry, path>>,
         \A b \in Callers \ {c} : step'[b] = step[b] /\ driver'[b] = driver[b],
         driver'[c] = "nvme" /\ step'[c] # "idle" =>
           /\ driver[c] = "nvme" /\ step[c] # "idle"
           /\ step'[c] \notin {"open", "held"} => entry[c] = "Open"
  PROVE  NvmeGuard'
BY DEF NvmeGuard

\* The driver after a failure is never the NVMe driver.
LEMMA FailureLeavesNvme ==
  ASSUME TypeOK, NEW c \in Callers, DriverFails(c)
  PROVE  driver'[c] = "nvme" => step'[c] = "idle"
BY DEF TypeOK, DriverFails, NextDriver

\* A step of a driver leaves the drivers of other callers alone.
LEMMA OwnDriver ==
  ASSUME TypeOK, NEW c \in Callers,
         \/ \E s \in Steps : GoTo(c, s)
         \/ Succeed(c) \/ DriverFails(c) \/ Abandon(c)
  PROVE  \A b \in Callers \ {c} : driver'[b] = driver[b]
BY DEF TypeOK, GoTo, Succeed, DriverFails, Abandon

\* A driver that is past opening the file and goes on, or gives up, stays
\* guarded.
LEMMA GuardGoesOn ==
  ASSUME TypeOK, NvmeGuard, NEW c \in Callers,
         step[c] \notin {"idle", "open", "held"},
         \/ \E s \in Steps : GoTo(c, s)
         \/ Succeed(c) \/ DriverFails(c) \/ Abandon(c),
         UNCHANGED <<entry, path>>
  PROVE  NvmeGuard'
<1>1. \A b \in Callers \ {c} : step'[b] = step[b] /\ driver'[b] = driver[b]
  BY OwnStep, OwnDriver
<1>2. CASE DriverFails(c)
  BY <1>1, <1>2, FailureLeavesNvme, OthersGuarded
<1>3. CASE (\E s \in Steps : GoTo(c, s)) \/ Succeed(c) \/ Abandon(c)
  <2>1. driver'[c] = driver[c]
    BY <1>3 DEF GoTo, Succeed, Abandon
  <2>2. driver[c] = "nvme" => entry[c] = "Open"
    BY DEF NvmeGuard
  <2>3. QED
    BY <1>1, <2>1, <2>2, OthersGuarded
<1>4. QED
  BY <1>2, <1>3

\* The guard holds initially and after every step.
LEMMA GuardHolds ==
  /\ Init => NvmeGuard
  /\ TypeOK /\ NvmeGuard /\ [Next]_vars => NvmeGuard'
<1>1. Init => NvmeGuard
  BY DEF Init, NvmeGuard
<1> SUFFICES ASSUME TypeOK, NvmeGuard, [Next]_vars PROVE NvmeGuard'
  BY <1>1
<1>2. ASSUME NEW c \in Callers, Start(c) PROVE NvmeGuard'
  <2>1. PICK e \in Entries, p \in Paths :
          /\ entry' = [entry EXCEPT ![c] = e] /\ path' = [path EXCEPT ![c] = p]
          /\ driver' = [driver EXCEPT ![c] = FirstDriver(e, p)]
    BY <1>2 DEF Start
  <2>2. step' = [step EXCEPT ![c] = "open"]
    BY <1>2 DEF Start
  <2>3. e = "Open" /\ FirstDriver(e, p) = "nvme" => p \in NvmePaths
    BY DEF FirstDriver
  <2>4. QED
    BY <2>1, <2>2, <2>3 DEF NvmeGuard, TypeOK
<1>3. ASSUME NEW c \in Callers, OpenFile(c) PROVE NvmeGuard'
  <2>1. step[c] = "open" /\ UNCHANGED <<entry, path>>
    BY <1>3 DEF OpenFile, call
  <2>2. CASE DriverFails(c)
    <3>1. \A b \in Callers \ {c} : step'[b] = step[b] /\ driver'[b] = driver[b]
      BY <2>2, OwnStep, OwnDriver
    <3>2. QED
      BY <2>1, <2>2, <3>1, FailureLeavesNvme, OthersGuarded
  <2>3. CASE IF driver[c] # "nvme" THEN GoTo(c, "inquiry")
             ELSE IF entry[c] = "Open" THEN GoTo(c, "identify") ELSE Succeed(c)
    <3>1. \A b \in Callers \ {c} : step'[b] = step[b] /\ driver'[b] = driver[b]
      BY <2>3, OwnStep, OwnDriver DEF Steps
    <3>2. driver'[c] = driver[c]
      BY <2>3 DEF GoTo, Succeed
    <3>3. driver[c] = "nvme" /\ entry[c] # "Open" => step'[c] = "held"
      BY <2>3 DEF Succeed, TypeOK
    <3>4. QED
      BY <2>1, <3>1, <3>2, <3>3, OthersGuarded
  <2>4. QED
    BY <1>3, <2>2, <2>3 DEF OpenFile
<1>4. ASSUME NEW c \in Callers,
             NvmeIdentify(c) \/ Inquire(c) \/ Probe(c) \/ SataIdentify(c) \/ CloseOnError(c)
      PROVE  NvmeGuard'
  <2>1. step[c] \notin {"idle", "open", "held"} /\ UNCHANGED <<entry, path>>
    BY <1>4 DEF NvmeIdentify, Inquire, Probe, SataIdentify, CloseOnError, call
  <2>2. \/ \E s \in Steps : GoTo(c, s)
        \/ Succeed(c) \/ DriverFails(c) \/ Abandon(c)
    BY <1>4 DEF NvmeIdentify, Inquire, Probe, SataIdentify, CloseOnError, Steps
  <2>3. QED
    BY <2>1, <2>2, GuardGoesOn
<1>5. ASSUME NEW c \in Callers, Close(c) PROVE NvmeGuard'
  BY <1>5 DEF Close, AfterClose, GoTo, NvmeGuard, TypeOK, call
<1>6. ASSUME NEW p \in Paths, Replace(p) PROVE NvmeGuard'
  BY <1>6 DEF Replace, NvmeGuard, call
<1>7. CASE UNCHANGED vars
  BY <1>7 DEF vars, NvmeGuard
<1>8. QED
  BY <1>2, <1>3, <1>4, <1>5, <1>6, <1>7 DEF Next, Opening

\* Only an NVMe path's transport is ever at risk.
LEMMA StepSpares ==
  TypeOK /\ FdsAccounted /\ NvmeGuard /\ UsbBridgesSurvive /\ [Next]_vars
    => UsbBridgesSurvive'
<1> SUFFICES ASSUME FdsAccounted, NvmeGuard, UsbBridgesSurvive, [Next]_vars
             PROVE  UsbBridgesSurvive'
  OBVIOUS
<1>1. ASSUME NEW c \in Callers, NvmeIdentify(c) PROVE UsbBridgesSurvive'
  <2>1. path[c] \in NvmePaths /\ File(c).path = path[c]
    BY <1>1 DEF NvmeIdentify, NvmeGuard, FdsAccounted, HasFile
  <2>2. QED
    BY <1>1, <2>1 DEF NvmeIdentify, Wedging, UsbBridgesSurvive
<1>2. ASSUME NEW p \in Paths, Replace(p) PROVE UsbBridgesSurvive'
  BY <1>2 DEF Replace, UsbBridgesSurvive
<1>3. CASE UNCHANGED wedged
  BY <1>3 DEF UsbBridgesSurvive
<1>4. QED
  BY <1>1, <1>2, <1>3
    DEF Next, Opening, vars, notes, Start, OpenFile, Inquire, Probe, SataIdentify,
        CloseOnError, Close

\* Opening a device never breaks the transport of a USB bridge whose path is
\* not an NVMe path, whatever devices come and go and whatever commands fail.
THEOREM BridgesSurvive == Spec => []UsbBridgesSurvive
<1>1. Init => TypeOK /\ FdsAccounted /\ NvmeGuard /\ UsbBridgesSurvive
  BY InitTypes, InitFiles, GuardHolds DEF Init, UsbBridgesSurvive
<1>2. TypeOK /\ FdsAccounted /\ NvmeGuard /\ UsbBridgesSurvive /\ [Next]_vars
        => (TypeOK /\ FdsAccounted /\ NvmeGuard /\ UsbBridgesSurvive)'
  BY StepTypes, StepFiles, GuardHolds, StepSpares
<1>3. QED
  BY <1>1, <1>2, PTL DEF Spec

-----------------------------------------------------------------------------
(* Errors.  What the drivers have collected so far tells which of them have *)
(* been tried, so that the joined error is complete when the chain ends.    *)

TriedNvme(c) == IF path[c] \in NvmePaths THEN {"nvme"} ELSE {}

\* The errors of a call that has come to its present driver.
Tried(c) ==
  IF entry[c] # "Open" \/ driver[c] = "nvme" THEN {}
  ELSE TriedNvme(c) \cup IF driver[c] = "scsi" THEN {"sata"} ELSE {}

Explains ==
  /\ \A c \in Callers : Running(c) =>
       /\ errs[c] = Tried(c)
       /\ entry[c] # "Open" => driver[c] = Direct[entry[c]]
       /\ entry[c] = "Open" /\ driver[c] = "nvme" => path[c] \in NvmePaths
  /\ \A c \in Callers : step[c] = "held" => errs[c] = {}
  /\ FailureExplained

\* A caller whose control state does not change keeps its errors explained.
LEMMA OthersExplained ==
  ASSUME TypeOK, Explains, NEW c \in Callers,
         \A b \in Callers \ {c} :
           /\ step'[b] = step[b] /\ driver'[b] = driver[b] /\ errs'[b] = errs[b]
           /\ entry'[b] = entry[b] /\ path'[b] = path[b],
         Running(c)' => /\ errs'[c] = Tried(c)'
                        /\ entry'[c] # "Open" => driver'[c] = Direct[entry'[c]]
                        /\ entry'[c] = "Open" /\ driver'[c] = "nvme" => path'[c] \in NvmePaths,
         step'[c] = "held" => errs'[c] = {},
         step'[c] = "idle" /\ errs'[c] # {} =>
           errs'[c] = IF entry'[c] # "Open" THEN {Direct[entry'[c]]}
                      ELSE {"sata", "scsi"} \cup IF path'[c] \in NvmePaths THEN {"nvme"} ELSE {}
  PROVE  Explains'
<1>1. ASSUME NEW b \in Callers \ {c} PROVE Tried(b)' = Tried(b) /\ (Running(b)' <=> Running(b))
  BY <1>1 DEF Tried, TriedNvme, Running
<1>2. ASSUME NEW b \in Callers, Running(b)'
      PROVE  /\ errs'[b] = Tried(b)'
             /\ entry'[b] # "Open" => driver'[b] = Direct[entry'[b]]
             /\ entry'[b] = "Open" /\ driver'[b] = "nvme" => path'[b] \in NvmePaths
  <2>1. CASE b = c
    BY <1>2, <2>1
  <2>2. CASE b # c
    <3>1. Running(b) /\ errs'[b] = Tried(b)'
      BY <1>1, <1>2, <2>2 DEF Explains
    <3>2. QED
      BY <2>2, <3>1 DEF Explains
  <2>3. QED
    BY <2>1, <2>2
<1>3. ASSUME NEW b \in Callers, step'[b] = "held" PROVE errs'[b] = {}
  BY <1>3 DEF Explains
<1>4. ASSUME NEW b \in Callers, step'[b] = "idle", errs'[b] # {}
      PROVE  errs'[b] = IF entry'[b] # "Open" THEN {Direct[entry'[b]]}
                        ELSE {"sata", "scsi"} \cup IF path'[b] \in NvmePaths THEN {"nvme"} ELSE {}
  <2>1. CASE b = c
    BY <1>4, <2>1
  <2>2. CASE b # c
    <3>1. /\ step'[b] = step[b] /\ errs'[b] = errs[b]
          /\ entry'[b] = entry[b] /\ path'[b] = path[b]
      BY <2>2
    <3>2. QED
      BY <1>4, <3>1 DEF Explains, FailureExplained
  <2>3. QED
    BY <2>1, <2>2
<1>5. FailureExplained'
  BY <1>4 DEF FailureExplained
<1>6. QED
  BY <1>2, <1>3, <1>5 DEF Explains

\* A call that is running goes on, succeeds, or has one driver fail.
LEMMA StepExplains ==
  ASSUME TypeOK, Explains, NEW c \in Callers, Running(c), UNCHANGED call,
         \/ \E s \in Steps \ {"idle", "held"} : GoTo(c, s)
         \/ Succeed(c) \/ DriverFails(c) \/ Abandon(c)
  PROVE  Explains'
<1>1. CASE \E s \in Steps \ {"idle", "held"} : GoTo(c, s)
  BY <1>1, OthersExplained DEF GoTo, Explains, Running, Tried, TriedNvme, TypeOK, call
<1>2. CASE Abandon(c)
  BY <1>2, OthersExplained DEF Abandon, GoTo, Explains, Running, Tried, TriedNvme, TypeOK, call
<1>3. CASE Succeed(c)
  BY <1>3, OthersExplained DEF Succeed, Running, TypeOK, call
<1>4. CASE DriverFails(c)
  <2>1. UNCHANGED <<entry, path>> /\ errs' = [errs EXCEPT ![c] = @ \cup {driver[c]}]
    BY <1>4 DEF DriverFails, call
  <2>2. errs'[c] = Tried(c) \cup {driver[c]}
    BY <2>1 DEF Explains, TypeOK
  <2>3. \A b \in Callers \ {c} :
           /\ step'[b] = step[b] /\ driver'[b] = driver[b] /\ errs'[b] = errs[b]
           /\ entry'[b] = entry[b] /\ path'[b] = path[b]
    BY <1>4, <2>1 DEF DriverFails, TypeOK
  <2>4. CASE entry[c] = "Open" /\ driver[c] # "scsi"
    <3>1. step'[c] = "open" /\ driver'[c] = IF driver[c] = "nvme" THEN "sata" ELSE "scsi"
      BY <1>4, <2>4 DEF DriverFails, NextDriver, TypeOK
    <3>2. driver[c] \in {"nvme", "sata"} /\ (driver[c] = "nvme" => path[c] \in NvmePaths)
      BY <2>4 DEF TypeOK, Drivers, Explains
    <3>3. errs'[c] = Tried(c)'
      BY <2>1, <2>2, <2>4, <3>1, <3>2 DEF Tried, TriedNvme
    <3>4. QED
      BY <2>1, <2>3, <2>4, <3>1, <3>3, OthersExplained DEF Running
  <2>5. CASE ~(entry[c] = "Open" /\ driver[c] # "scsi")
    <3>1. step'[c] = "idle"
      BY <1>4, <2>5 DEF DriverFails, TypeOK
    <3>2. CASE entry[c] # "Open"
      <4>1. errs'[c] = {Direct[entry[c]]}
        BY <2>2, <3>2 DEF Tried, Explains
      <4>2. QED
        BY <2>1, <2>3, <3>1, <3>2, <4>1, OthersExplained DEF Running
    <3>3. CASE entry[c] = "Open" /\ driver[c] = "scsi"
      <4>1. errs'[c] = {"sata", "scsi"} \cup TriedNvme(c)
        BY <2>2, <3>3 DEF Tried
      <4>2. QED
        BY <2>1, <2>3, <3>1, <3>3, <4>1, OthersExplained DEF Running, TriedNvme
    <3>4. QED
      BY <2>5, <3>2, <3>3
  <2>6. QED
    BY <2>4, <2>5
<1>5. QED
  BY <1>1, <1>2, <1>3, <1>4

\* Steps outside the drivers leave the errors explained.
LEMMA ErrorsUntouched ==
  Explains /\ UNCHANGED <<step, driver, errs, entry, path>> => Explains'
BY DEF Explains, FailureExplained, Running, Tried, TriedNvme

\* Every step keeps the errors explained.
LEMMA ErrorsHold ==
  /\ Init => Explains
  /\ TypeOK /\ Explains /\ [Next]_vars => Explains'
<1>1. Init => Explains
  BY DEF Init, Explains, Running, FailureExplained
<1> SUFFICES ASSUME TypeOK, Explains, [Next]_vars PROVE Explains'
  BY <1>1
<1>2. ASSUME NEW c \in Callers, Start(c) PROVE Explains'
  <2>1. PICK e \in Entries, p \in Paths :
          /\ entry' = [entry EXCEPT ![c] = e] /\ path' = [path EXCEPT ![c] = p]
          /\ driver' = [driver EXCEPT ![c] = FirstDriver(e, p)]
    BY <1>2 DEF Start
  <2>2. step' = [step EXCEPT ![c] = "open"] /\ errs' = [errs EXCEPT ![c] = {}]
    BY <1>2 DEF Start
  <2>3. entry'[c] = e /\ path'[c] = p /\ step'[c] = "open" /\ errs'[c] = {}
        /\ driver'[c] = FirstDriver(e, p)
    BY <2>1, <2>2 DEF TypeOK
  <2>4. Tried(c)' = {}
    BY <2>3 DEF Tried, TriedNvme, FirstDriver
  <2>5. \A b \in Callers \ {c} :
           /\ step'[b] = step[b] /\ driver'[b] = driver[b] /\ errs'[b] = errs[b]
           /\ entry'[b] = entry[b] /\ path'[b] = path[b]
    BY <2>1, <2>2 DEF TypeOK
  <2>6. /\ entry'[c] # "Open" => driver'[c] = Direct[entry'[c]]
        /\ entry'[c] = "Open" /\ driver'[c] = "nvme" => path'[c] \in NvmePaths
    BY <2>3 DEF FirstDriver
  <2>7. QED
    BY <2>3, <2>4, <2>5, <2>6, OthersExplained
<1>3. ASSUME NEW c \in Callers, Opening(c) PROVE Explains'
  <2>1. Running(c) /\ UNCHANGED call
    BY <1>3 DEF Opening, OpenFile, NvmeIdentify, Inquire, Probe, SataIdentify, CloseOnError, Running
  <2>2. \/ \E s \in Steps \ {"idle", "held"} : GoTo(c, s)
        \/ Succeed(c) \/ DriverFails(c) \/ Abandon(c)
    BY <1>3 DEF Opening, OpenFile, NvmeIdentify, Inquire, Probe, SataIdentify, CloseOnError, Steps
  <2>3. QED
    BY <2>1, <2>2, StepExplains
<1>4. ASSUME NEW c \in Callers, Close(c) PROVE Explains'
  <2>1. step' = [step EXCEPT ![c] = "idle"] /\ step[c] = "held" /\ UNCHANGED <<errs, driver, entry, path>>
    BY <1>4 DEF Close, AfterClose, GoTo, call
  <2>2. errs[c] = {}
    BY <2>1 DEF Explains
  <2>3. QED
    BY <2>1, <2>2, OthersExplained DEF Running, TypeOK
<1>5. CASE UNCHANGED <<step, driver, errs, entry, path>>
  BY <1>5, ErrorsUntouched
<1>6. QED
  BY <1>2, <1>3, <1>4, <1>5 DEF Next, Replace, vars, call

\* The error of a failed call names every driver that its entry point and its
\* path call for, and no other, whichever way each of them has failed.
THEOREM ErrorsExplained == Spec => []FailureExplained
<1>1. Init => TypeOK /\ Explains
  BY InitTypes, ErrorsHold
<1>2. TypeOK /\ Explains /\ [Next]_vars => (TypeOK /\ Explains)'
  BY StepTypes, ErrorsHold
<1>3. Explains => FailureExplained
  BY DEF Explains
<1>4. QED
  BY <1>1, <1>2, <1>3, PTL DEF Spec
-----------------------------------------------------------------------------
(* Opening implements DeviceHandle.  What a driver has found out about the  *)
(* device on its descriptor, and where that device came from, is what makes *)
(* the handle fit when it is returned.                                      *)

\* INQUIRY can tell of device type 0: a tape that does not serve it as well.
Passes(d) == d.kind \in DirectAccess \/ (d.kind = "tape" /\ "device" \in faulty)

Fits(c) ==
  /\ Running(c) => at[path[c]] \in seen[c]
  /\ HasFile(c) => Dev(c).kind # "none"
  /\ HasFile(c) /\ Running(c) => Dev(c) \in seen[c]
  /\ (\/ step[c] = "probe"
      \/ step[c] = "identify" /\ driver[c] = "sata"
      \/ step[c] = "held" /\ driver[c] # "nvme") => Passes(Dev(c))
  /\ step[c] = "held" => <<driver[c], Dev(c)>> \in Serves

OpenInv ==
  /\ TypeOK
  /\ FdsAccounted
  /\ Explains
  /\ \A c \in Callers : Fits(c)

\* What may fail is settled from the beginning.
LEMMA FaultyFixed == [Next]_vars => faulty' = faulty
BY DEF Next, Opening, vars, Start, OpenFile, NvmeIdentify, Inquire, Probe, SataIdentify, CloseOnError,
       Close, Replace, world

\* A device that passes fits the handles of both drivers that ask for INQUIRY.
LEMMA PassesServes ==
  ASSUME TypeOK, NEW d \in Devices, Passes(d)
  PROVE  <<"sata", d>> \in Serves /\ <<"scsi", d>> \in Serves
<1>1. faulty \in Faults
  BY DEF TypeOK
<1>2. QED
  BY <1>1, ServesAssumption DEF Passes

\* The devices that descriptors lead to are devices.
LEMMA DevTypes ==
  ASSUME TypeOK, FdsAccounted, NEW c \in Callers, HasFile(c)
  PROVE  Dev(c) \in Devices /\ File(c) \in Files
BY DEF TypeOK, FdsAccounted, Dev, File, Files

\* Whoever takes the step, an open descriptor leads to the same device
\* afterwards.
LEMMA DevKept ==
  ASSUME TypeOK, FdsAccounted, [Next]_vars, NEW b \in Callers, HasFile(b), HasFile(b)'
  PROVE  Dev(b)' = Dev(b)
<1>0. fd[b] \in FDs /\ fds[fd[b]] # NoFile
  BY DEF TypeOK, FdsAccounted, File
<1>1. SUFFICES fd'[b] = fd[b] /\ fds'[fd[b]].dev = fds[fd[b]].dev
  BY DEF Dev, File
<1>2. ASSUME NEW c \in Callers, NEW f \in FDs, step[c] = "open", Opened(c, f)
      PROVE  fd'[b] = fd[b] /\ fds'[fd[b]] = fds[fd[b]]
  <2>1. b # c
    BY <1>2 DEF HasFile
  <2>2. f # fd[b]
    BY <1>0, <1>2 DEF Opened
  <2>3. QED
    BY <1>0, <1>2, <2>1, <2>2 DEF Opened, TypeOK
<1>3. ASSUME NEW c \in Callers, CloseOnError(c) \/ Close(c)
      PROVE  fd'[b] = fd[b] /\ fds'[fd[b]] = fds[fd[b]]
  <2>1. HasFile(c) /\ ~HasFile(c)'
    BY <1>3 DEF CloseOnError, Close, AfterClose, GoTo, DriverFails, HasFile, TypeOK
  <2>2. fd[b] # fd[c] /\ fd' = fd /\ fds' = [fds EXCEPT ![fd[c]] = NoFile]
    BY <1>3, <2>1 DEF FdsAccounted, CloseOnError, Close
  <2>3. QED
    BY <1>0, <2>2 DEF TypeOK
<1>4. ASSUME NEW p \in Paths, Replace(p)
      PROVE  fd'[b] = fd[b] /\ fds'[fd[b]].dev = fds[fd[b]].dev
  <2>1. fds[fd[b]] \in Files
    BY <1>0 DEF TypeOK
  <2>2. [fds[fd[b]] EXCEPT !.live = FALSE].dev = fds[fd[b]].dev
    BY <2>1 DEF Files
  <2>3. QED
    BY <1>0, <1>4, <2>2 DEF Replace
<1>5. CASE UNCHANGED <<fds, fd>>
  BY <1>5
<1>6. ASSUME NEW c \in Callers, OpenFile(c)
      PROVE  fd'[b] = fd[b] /\ fds'[fd[b]].dev = fds[fd[b]].dev
  BY <1>2, <1>5, <1>6 DEF OpenFile
<1>7. QED
  BY <1>3, <1>4, <1>5, <1>6
    DEF Next, Opening, vars, Start, NvmeIdentify, Inquire, Probe, SataIdentify

\* What the transport does to a command is an error.
LEMMA BrokenIsError == \A r \in Broken : ScsiSendCdb(r)
BY DEF Broken, Errno, HostError, Silent, ScsiSendCdb, ScsiSendCdbSense, CheckCondition, InfoOk

\* A device behind INQUIRY that passes the checks of OpenSata and OpenScsi is a
\* direct access device, or a tape that has not served the command.
LEMMA InquiryAccepts ==
  ASSUME TypeOK, FdsAccounted, NEW c \in Callers, HasFile(c), Dev(c).kind # "none",
         NEW r \in Inquiry(c), ~(ScsiSendCdb(r) \/ Peripheral(r.data) # 0)
  PROVE  Passes(Dev(c))
<1>1. r \notin Broken
  BY BrokenIsError
<1>2. Dev(c).kind # "nvme" /\ (r = Good(InquiryData(Dev(c).kind)) \/ "device" \in faulty)
  BY <1>1 DEF Inquiry, Faulty
<1>3. Dev(c).kind = "tape" => "device" \in faulty
  <2> SUFFICES ASSUME Dev(c).kind = "tape", r = Good(InquiryData("tape")) PROVE FALSE
    BY <1>2
  <2>1. r.data = [type |-> 1, ata |-> FALSE]
    BY DEF Good, InquiryData
  <2>2. [type |-> 1, ata |-> FALSE] \in [type : {0, 1}, ata : BOOLEAN]
    OBVIOUS
  <2>3. r.data # Zeroed /\ r.data.type = 1
    BY <2>1, <2>2, OpenAssumption
  <2>4. QED
    BY <2>3 DEF Peripheral
<1>4. Dev(c).kind \in Kinds
  BY DevTypes, OpenAssumption
<1>5. QED
  BY <1>2, <1>3, <1>4 DEF Kinds, Passes

\* A handle that is returned leads to a device that was seen behind the path,
\* and its driver serves it.
LEMMA SucceedFits ==
  ASSUME OpenInv, NEW c \in Callers, Opening(c), Succeed(c)
  PROVE  /\ HasFile(c)' /\ Dev(c)'.kind # "none"
         /\ Dev(c)' \in seen[c]
         /\ <<driver[c], Dev(c)'>> \in Serves
         /\ driver[c] # "nvme" => Passes(Dev(c)')
<1>1. step' = [step EXCEPT ![c] = "held"] /\ step'[c] = "held"
  BY DEF Succeed, OpenInv, TypeOK
<1>2. HasFile(c)' /\ ~DriverFails(c) /\ ~Abandon(c) /\ \A s \in Steps \ {"held"} : ~GoTo(c, s)
  BY <1>1 DEF HasFile, DriverFails, Abandon, GoTo, OpenInv, TypeOK
<1>3. CASE OpenFile(c)
  <2>1. PICK f \in FDs : Opened(c, f)
    BY <1>2, <1>3 DEF OpenFile
  <2>2. Dev(c)' = at[path[c]]
    BY <2>1 DEF Opened, Dev, File, OpenInv, TypeOK
  <2>3. at[path[c]].kind # "none" /\ driver[c] = "nvme" /\ entry[c] # "Open"
    BY <1>2, <1>3 DEF OpenFile, Steps
  <2>4. at[path[c]] \in Devices /\ entry[c] \in Entries
    BY DEF OpenInv, TypeOK
  <2>5. Running(c)
    BY <1>3 DEF OpenFile, Running
  <2>6. entry[c] = "OpenNVMe"
    <3>1. driver[c] = Direct[entry[c]]
      BY <2>3, <2>5 DEF OpenInv, Explains
    <3>2. entry[c] \in {"OpenNVMe", "OpenSata", "OpenScsi"}
      BY <2>3, <2>4, OpenAssumption DEF Direct
    <3>3. QED
      BY <2>3, <3>1, <3>2 DEF Direct
  <2>7. <<"nvme", at[path[c]]>> \in Serves
    BY <2>3, <2>4, <2>6, ServesAssumption
  <2>8. at[path[c]] \in seen[c]
    BY <2>5 DEF OpenInv, Fits
  <2>9. QED
    BY <1>2, <2>2, <2>3, <2>7, <2>8
<1>4. CASE NvmeIdentify(c) \/ Inquire(c) \/ Probe(c) \/ SataIdentify(c)
  <2>1. HasFile(c) /\ Running(c) /\ UNCHANGED <<fds, fd>>
    BY <1>4 DEF NvmeIdentify, Inquire, Probe, SataIdentify, HasFile, Running
  <2>2. Dev(c)' = Dev(c) /\ Dev(c) \in Devices /\ Dev(c) \in seen[c] /\ Dev(c).kind # "none"
    BY <2>1, DevTypes DEF Dev, File, OpenInv, Fits
  <2>3. CASE NvmeIdentify(c)
    <3>1. driver[c] = "nvme" /\ Dev(c).kind = "nvme"
      BY <1>2, <2>3 DEF NvmeIdentify, AnswersNvme
    <3>2. QED
      BY <1>2, <2>2, <3>1, ServesAssumption
  <2>4. CASE Inquire(c)
    <3>1. PICK r \in Inquiry(c) : ~(ScsiSendCdb(r) \/ Peripheral(r.data) # 0) /\ driver[c] = "scsi"
      BY <1>2, <2>4 DEF Inquire, Steps
    <3>2. Passes(Dev(c))
      BY <2>1, <2>2, <3>1, InquiryAccepts DEF OpenInv
    <3>3. QED
      BY <1>2, <2>2, <3>1, <3>2, PassesServes DEF OpenInv
  <2>5. CASE Probe(c)
    BY <1>2, <2>5 DEF Probe, Steps
  <2>6. CASE SataIdentify(c)
    <3>1. driver[c] = "sata" /\ Passes(Dev(c))
      BY <2>6 DEF SataIdentify, OpenInv, Fits
    <3>2. QED
      BY <1>2, <2>2, <3>1, PassesServes DEF OpenInv
  <2>7. QED
    BY <1>4, <2>3, <2>4, <2>5, <2>6
<1>5. CASE CloseOnError(c)
  BY <1>2, <1>5 DEF CloseOnError
<1>6. QED
  BY <1>3, <1>4, <1>5 DEF Opening

\* Going on with a descriptor: the device on it is present, was seen, and has
\* passed the check of its type as soon as the SATA driver sends it ATA commands.
LEMMA GoOnFits ==
  ASSUME OpenInv, NEW c \in Callers, Opening(c), NEW s \in Steps \ {"idle", "held"}, GoTo(c, s)
  PROVE  Fits(c)'
<1>1. step' = [step EXCEPT ![c] = s] /\ step'[c] = s /\ UNCHANGED <<driver, seen>>
  BY DEF GoTo, OpenInv, TypeOK
<1>2. Running(c) /\ UNCHANGED <<faulty, at, path>>
  BY DEF Opening, OpenFile, NvmeIdentify, Inquire, Probe, SataIdentify, CloseOnError, Running,
         world, call
<1>3. (at[path[c]] \in seen[c])'
  BY <1>1, <1>2 DEF OpenInv, Fits
<1>4. ~Succeed(c) /\ (DriverFails(c) => s = "open")
  BY <1>1 DEF Succeed, DriverFails, OpenInv, TypeOK
<1>5. CASE OpenFile(c)
  <2>1. CASE DriverFails(c)
    BY <1>1, <1>3, <1>4, <2>1 DEF Fits, HasFile
  <2>2. CASE \E f \in FDs : Opened(c, f) /\ at[path[c]].kind # "none" /\ ~DriverFails(c)
    <3>1. PICK f \in FDs : Opened(c, f) /\ at[path[c]].kind # "none" /\ ~DriverFails(c)
      BY <2>2
    <3>2. Dev(c)' = at[path[c]]
      BY <3>1 DEF Opened, Dev, File, OpenInv, TypeOK
    <3>3. s # "probe" /\ (s = "identify" => driver[c] = "nvme")
      BY <1>1, <1>5, <3>1 DEF OpenFile, GoTo, Succeed, OpenInv, TypeOK
    <3>4. QED
      BY <1>1, <1>2, <1>3, <3>1, <3>2, <3>3 DEF Fits
  <2>3. QED
    BY <1>5, <2>1, <2>2 DEF OpenFile
<1>6. CASE NvmeIdentify(c) \/ Inquire(c) \/ Probe(c) \/ SataIdentify(c)
  <2>1. HasFile(c) /\ UNCHANGED <<fds, fd>> /\ step[c] # "open"
    BY <1>6 DEF NvmeIdentify, Inquire, Probe, SataIdentify, HasFile
  <2>2. Dev(c)' = Dev(c) /\ Dev(c) \in seen[c] /\ Dev(c).kind # "none"
    BY <1>2, <2>1 DEF Dev, File, OpenInv, Fits
  <2>3. s \in {"probe", "identify"} => Passes(Dev(c))
    <3>1. CASE NvmeIdentify(c) \/ SataIdentify(c)
      BY <1>1, <3>1 DEF NvmeIdentify, SataIdentify, Abandon, GoTo, Succeed, OpenInv, TypeOK
    <3>2. CASE Probe(c)
      BY <3>2 DEF Probe, OpenInv, Fits
    <3>3. CASE Inquire(c)
      <4>1. PICK r \in Inquiry(c) :
              IF ScsiSendCdb(r) \/ Peripheral(r.data) # 0 THEN Abandon(c)
              ELSE IF driver[c] = "scsi" THEN Succeed(c)
              ELSE IF VendorIsAta(r.data) THEN GoTo(c, "identify") ELSE GoTo(c, "probe")
        BY <3>3 DEF Inquire
      <4>2. Abandon(c) => s = "close"
        BY <1>1 DEF Abandon, GoTo, OpenInv, TypeOK
      <4>3. s \in {"probe", "identify"} => ~(ScsiSendCdb(r) \/ Peripheral(r.data) # 0)
        BY <4>1, <4>2
      <4>4. QED
        BY <2>1, <2>2, <4>3, InquiryAccepts DEF OpenInv
    <3>4. QED
      BY <1>6, <3>1, <3>2, <3>3
  <2>4. Passes(Dev(c)) => Passes(Dev(c))'
    BY <1>2, <2>2 DEF Passes
  <2>5. QED
    BY <1>1, <1>3, <2>2, <2>3, <2>4 DEF Fits
<1>7. CASE CloseOnError(c)
  BY <1>1, <1>3, <1>4, <1>7 DEF CloseOnError, Fits, HasFile
<1>8. QED
  BY <1>5, <1>6, <1>7 DEF Opening

\* A caller that another's step, or the exchange of a device, leaves in place
\* keeps a device that fits.
LEMMA FitsKept ==
  ASSUME OpenInv, [Next]_vars, NEW b \in Callers,
         step'[b] = step[b], driver'[b] = driver[b], path'[b] = path[b],
         seen[b] \subseteq seen'[b],
         Running(b) => at'[path[b]] \in seen'[b]
  PROVE  Fits(b)'
<1>1. (HasFile(b)' <=> HasFile(b)) /\ (Running(b)' <=> Running(b))
  BY DEF HasFile, Running
<1>2. HasFile(b) => Dev(b)' = Dev(b)
  BY <1>1, DevKept DEF OpenInv
<1>3. step[b] \in {"probe", "identify", "held"} => HasFile(b)
  BY DEF HasFile
<1>4. Fits(b)
  BY DEF OpenInv
<1>5. faulty' = faulty
  BY FaultyFixed
<1>6. QED
  BY <1>1, <1>2, <1>3, <1>4, <1>5 DEF Fits, Passes

\* A step of one caller leaves the others in place.
LEMMA OthersFit ==
  ASSUME OpenInv, [Next]_vars, NEW c \in Callers, Start(c) \/ Opening(c) \/ Close(c)
  PROVE  \A b \in Callers \ {c} :
           /\ step'[b] = step[b] /\ driver'[b] = driver[b]
           /\ path'[b] = path[b] /\ seen'[b] = seen[b]
           /\ Fits(b)'
<1>1. at' = at /\ \A b \in Callers \ {c} : path'[b] = path[b]
  BY DEF Start, Opening, OpenFile, NvmeIdentify, Inquire, Probe, SataIdentify, CloseOnError, Close,
         world, call, OpenInv, TypeOK
<1>2. \/ Start(c) \/ Succeed(c) \/ DriverFails(c) \/ \E s \in Steps : GoTo(c, s)
  BY DEF Opening, OpenFile, NvmeIdentify, Inquire, Probe, SataIdentify, CloseOnError, Close,
         AfterClose, Abandon, Steps
<1>3. \A b \in Callers \ {c} :
         step'[b] = step[b] /\ driver'[b] = driver[b] /\ seen'[b] = seen[b]
  <2>1. CASE Start(c)
    BY <2>1 DEF Start, OpenInv, TypeOK
  <2>2. CASE Succeed(c) \/ DriverFails(c) \/ \E s \in Steps : GoTo(c, s)
    BY <2>2 DEF Succeed, DriverFails, GoTo, OpenInv, TypeOK
  <2>3. QED
    BY <1>2, <2>1, <2>2
<1>4. ASSUME NEW b \in Callers \ {c} PROVE Fits(b)'
  <2>1. Running(b) => at'[path[b]] \in seen'[b]
    BY <1>1, <1>3 DEF OpenInv, Fits
  <2>2. QED
    BY <1>1, <1>3, <2>1, FitsKept
<1>5. QED
  BY <1>1, <1>3, <1>4

\* OpenInv is inductive.
LEMMA OpenInvHolds ==
  /\ Init => OpenInv
  /\ OpenInv /\ [Next]_vars => OpenInv'
<1>1. Init => OpenInv
  BY InitTypes, InitFiles, ErrorsHold DEF Init, OpenInv, Fits, HasFile, Running
<1> SUFFICES ASSUME OpenInv, [Next]_vars PROVE OpenInv'
  BY <1>1
<1>2. TypeOK' /\ FdsAccounted' /\ Explains'
  BY StepTypes, StepFiles, ErrorsHold DEF OpenInv
<1>3. SUFFICES \A b \in Callers : Fits(b)'
  BY <1>2 DEF OpenInv
<1>4. ASSUME NEW c \in Callers, Start(c) PROVE \A b \in Callers : Fits(b)'
  <2>1. step'[c] = "open" /\ at'[path'[c]] \in seen'[c]
    BY <1>4 DEF Start, world, OpenInv, TypeOK
  <2>2. Fits(c)'
    BY <2>1 DEF Fits, HasFile
  <2>3. QED
    BY <1>4, <2>2, OthersFit
<1>5. ASSUME NEW c \in Callers, Opening(c) PROVE \A b \in Callers : Fits(b)'
  <2>1. \/ \E s \in Steps \ {"idle", "held"} : GoTo(c, s)
        \/ Succeed(c) \/ DriverFails(c)
    BY <1>5 DEF Opening, OpenFile, NvmeIdentify, Inquire, Probe, SataIdentify, CloseOnError,
                Abandon, Steps
  <2>2. CASE \E s \in Steps \ {"idle", "held"} : GoTo(c, s)
    BY <1>5, <2>2, GoOnFits, OthersFit
  <2>3. CASE Succeed(c)
    <3>1. step'[c] = "held" /\ driver' = driver
      BY <2>3 DEF Succeed, OpenInv, TypeOK
    <3>2. driver[c] # "nvme" => Passes(Dev(c))'
      BY <1>5, <2>3, SucceedFits, FaultyFixed DEF Passes
    <3>3. Fits(c)'
      BY <1>5, <2>3, <3>1, <3>2, SucceedFits DEF Fits, Running
    <3>4. QED
      BY <1>5, <3>3, OthersFit
  <2>4. CASE DriverFails(c)
    <3>1. /\ step'[c] \in {"open", "idle"}
          /\ step'[c] = "open" => seen' = seen
      BY <2>4 DEF DriverFails, OpenInv, TypeOK
    <3>2. Running(c) /\ UNCHANGED <<at, path>>
      BY <1>5 DEF Opening, OpenFile, NvmeIdentify, Inquire, Probe, SataIdentify, CloseOnError,
                  Running, world, call
    <3>3. Fits(c)'
      BY <3>1, <3>2 DEF Fits, HasFile, Running, OpenInv
    <3>4. QED
      BY <1>5, <3>3, OthersFit
  <2>5. QED
    BY <2>1, <2>2, <2>3, <2>4
<1>6. ASSUME NEW c \in Callers, Close(c) PROVE \A b \in Callers : Fits(b)'
  <2>1. step'[c] = "idle"
    BY <1>6 DEF Close, AfterClose, GoTo, OpenInv, TypeOK
  <2>2. Fits(c)'
    BY <2>1 DEF Fits, HasFile, Running
  <2>3. QED
    BY <1>6, <2>2, OthersFit
<1>7. ASSUME NEW p \in Paths, Replace(p), NEW b \in Callers PROVE Fits(b)'
  <2>1. step' = step /\ driver' = driver /\ path' = path
    BY <1>7 DEF Replace, call
  <2>2. PICK d \in Devices : /\ at' = [at EXCEPT ![p] = d]
                             /\ seen' = [c \in Callers |->
                                           IF step[c] \notin {"idle", "held"} /\ path[c] = p
                                           THEN seen[c] \cup {d} ELSE seen[c]]
    BY <1>7 DEF Replace
  <2>3. seen[b] \subseteq seen'[b]
    BY <2>2
  <2>4. Running(b) => at'[path[b]] \in seen'[b]
    BY <2>2 DEF Running, OpenInv, Fits, TypeOK
  <2>5. QED
    BY <2>1, <2>3, <2>4, FitsKept
<1>8. CASE UNCHANGED vars
  BY <1>8, FitsKept DEF vars, OpenInv, Fits
<1>9. QED
  BY <1>4, <1>5, <1>6, <1>7, <1>8 DEF Next

\* The abstract variables, as functions of the state.
CallOf(c)   == IF step[c] = "idle" THEN "none" ELSE IF step[c] = "held" THEN "held" ELSE "open"
HandleOf(c) == IF step[c] = "held" THEN <<driver[c], Dev(c)>> ELSE <<>>
Calls   == [c \in Callers |-> CallOf(c)]
Handles == [c \in Callers |-> HandleOf(c)]

\* A step of one caller leaves the calls and the handles of others alone.
LEMMA OthersMapped ==
  ASSUME OpenInv, [Next]_vars, NEW c \in Callers, Start(c) \/ Opening(c) \/ Close(c)
  PROVE  /\ Calls' = [Calls EXCEPT ![c] = CallOf(c)']
         /\ Handles' = [Handles EXCEPT ![c] = HandleOf(c)']
<1>1. ASSUME NEW b \in Callers \ {c} PROVE CallOf(b)' = CallOf(b) /\ HandleOf(b)' = HandleOf(b)
  <2>1. step'[b] = step[b] /\ driver'[b] = driver[b]
    BY OthersFit
  <2>2. step[b] = "held" => Dev(b)' = Dev(b)
    BY <2>1, DevKept DEF HasFile, OpenInv
  <2>3. QED
    BY <2>1, <2>2 DEF CallOf, HandleOf
<1>2. QED
  BY <1>1 DEF Calls, Handles

\* Each way on from a step of a driver is a step of DeviceHandle, or internal.
LEMMA OpeningMapped ==
  ASSUME OpenInv, [Next]_vars, NEW c \in Callers, Opening(c)
  PROVE  \/ Handle!Succeed(c)
         \/ Handle!Fail(c)
         \/ UNCHANGED <<at, Calls, path, seen, Handles>>
<1>1. Running(c) /\ UNCHANGED <<at, path>>
  BY DEF Opening, OpenFile, NvmeIdentify, Inquire, Probe, SataIdentify, CloseOnError, Running,
         world, call
<1>2. CallOf(c) = "open" /\ HandleOf(c) = <<>>
  BY <1>1 DEF CallOf, HandleOf, Running
<1>3. \/ \E s \in Steps \ {"idle", "held"} : GoTo(c, s)
      \/ Succeed(c) \/ DriverFails(c)
  BY DEF Opening, OpenFile, NvmeIdentify, Inquire, Probe, SataIdentify, CloseOnError, Abandon, Steps
<1>4. CASE step'[c] \notin {"idle", "held"} /\ seen' = seen
  <2>1. CallOf(c)' = CallOf(c) /\ HandleOf(c)' = HandleOf(c)
    BY <1>2, <1>4 DEF CallOf, HandleOf
  <2>2. QED
    BY <1>1, <1>4, <2>1, OthersMapped DEF Calls, Handles
<1>5. CASE Succeed(c)
  <2>1. step'[c] = "held" /\ driver' = driver /\ seen' = [seen EXCEPT ![c] = {}]
    BY <1>5 DEF Succeed, OpenInv, TypeOK
  <2> DEFINE h == <<driver[c], Dev(c)'>>
  <2>2. h \in Serves /\ h[2] \in seen[c]
    BY <1>5, SucceedFits
  <2>3. CallOf(c)' = "held" /\ HandleOf(c)' = h
    BY <2>1 DEF CallOf, HandleOf
  <2> HIDE DEF h
  <2>4. Calls' = [Calls EXCEPT ![c] = "held"] /\ Handles' = [Handles EXCEPT ![c] = h]
    BY <2>3, OthersMapped
  <2>5. Calls[c] = "open"
    BY <1>2 DEF Calls
  <2>6. QED
    BY <1>1, <2>1, <2>2, <2>4, <2>5, Zenon DEF Handle!Succeed, Calls, Handles, CallOf, HandleOf
<1>6. CASE DriverFails(c) /\ step'[c] = "idle"
  <2>1. seen' = [seen EXCEPT ![c] = {}]
    BY <1>6 DEF DriverFails, OpenInv, TypeOK
  <2>2. CallOf(c)' = "none" /\ HandleOf(c)' = <<>>
    BY <1>6 DEF CallOf, HandleOf
  <2>3. Calls' = [Calls EXCEPT ![c] = "none"]
    BY <2>2, OthersMapped
  <2>4. Handles' = Handles
    BY <1>2, <2>2, OthersMapped DEF Handles
  <2>5. Calls[c] = "open"
    BY <1>2 DEF Calls
  <2>6. QED
    BY <1>1, <2>1, <2>3, <2>4, <2>5, Zenon DEF Handle!Fail, Calls, Handles, CallOf, HandleOf
<1>7. DriverFails(c) => step'[c] = "idle" \/ (step'[c] = "open" /\ seen' = seen)
  BY DEF DriverFails, OpenInv, TypeOK
<1>8. ASSUME NEW s \in Steps \ {"idle", "held"}, GoTo(c, s)
      PROVE  step'[c] \notin {"idle", "held"} /\ seen' = seen
  BY <1>8 DEF GoTo, OpenInv, TypeOK
<1>9. QED
  BY <1>3, <1>4, <1>5, <1>6, <1>7, <1>8

\* Every step of the drivers is a step of DeviceHandle, or internal.
LEMMA StepMapped ==
  ASSUME OpenInv, [Next]_vars
  PROVE  [Handle!Next]_(Handle!vars)
<1> DEFINE Same == UNCHANGED <<at, Calls, path, seen, Handles>>
<1>1. SUFFICES Handle!Next \/ Same
  BY Zenon DEF Handle!vars, Calls, Handles, CallOf, HandleOf
<1>2. ASSUME NEW c \in Callers, Start(c) PROVE Handle!Begin(c)
  <2>1. step[c] = "idle" /\ step'[c] = "open" /\ UNCHANGED at
    BY <1>2 DEF Start, world, OpenInv, TypeOK
  <2>2. CallOf(c)' = "open" /\ HandleOf(c)' = <<>> /\ CallOf(c) = "none" /\ HandleOf(c) = <<>>
    BY <2>1 DEF CallOf, HandleOf
  <2>3. Calls' = [Calls EXCEPT ![c] = "open"]
    BY <1>2, <2>2, OthersMapped
  <2>4. Handles' = Handles
    BY <1>2, <2>2, OthersMapped DEF Handles
  <2>5. Calls[c] = "none"
    BY <2>2 DEF Calls
  <2>6. \E p \in Paths : /\ path' = [path EXCEPT ![c] = p]
                         /\ seen' = [seen EXCEPT ![c] = {at[p]}]
    BY <1>2 DEF Start
  <2>7. QED
    BY <2>1, <2>3, <2>4, <2>5, <2>6, Zenon DEF Handle!Begin, Calls, Handles, CallOf, HandleOf
<1>3. ASSUME NEW c \in Callers, Close(c) PROVE Handle!Close(c)
  <2>1. step[c] = "held" /\ step'[c] = "idle" /\ UNCHANGED <<at, path, seen>>
    BY <1>3 DEF Close, AfterClose, GoTo, world, call, OpenInv, TypeOK
  <2>2. CallOf(c)' = "none" /\ HandleOf(c)' = <<>> /\ CallOf(c) = "held"
    BY <2>1 DEF CallOf, HandleOf
  <2>3. Calls' = [Calls EXCEPT ![c] = "none"] /\ Handles' = [Handles EXCEPT ![c] = <<>>]
    BY <1>3, <2>2, OthersMapped
  <2>4. Calls[c] = "held"
    BY <2>2 DEF Calls
  <2>5. QED
    BY <2>1, <2>3, <2>4, Zenon DEF Handle!Close, Handle!NoHandle, Calls, Handles, CallOf, HandleOf
<1>4. ASSUME NEW p \in Paths, Replace(p) PROVE Handle!Replace(p)
  <2>1. UNCHANGED <<step, driver, path>>
    BY <1>4 DEF Replace, call
  <2>2. ASSUME NEW b \in Callers PROVE CallOf(b)' = CallOf(b) /\ HandleOf(b)' = HandleOf(b)
    <3>1. step[b] = "held" => Dev(b)' = Dev(b)
      BY <2>1, DevKept DEF HasFile, OpenInv
    <3>2. QED
      BY <2>1, <3>1 DEF CallOf, HandleOf
  <2>3. Calls' = Calls /\ Handles' = Handles
    BY <2>2 DEF Calls, Handles
  <2>4. \A b \in Callers : Calls[b] = "open" <=> step[b] \notin {"idle", "held"}
    BY DEF Calls, CallOf
  <2>5. \E d \in Devices :
          /\ at' = [at EXCEPT ![p] = d]
          /\ seen' = [b \in Callers |-> IF Calls[b] = "open" /\ path[b] = p
                                        THEN seen[b] \cup {d} ELSE seen[b]]
    <3>1. PICK d \in Devices : /\ at' = [at EXCEPT ![p] = d]
                               /\ seen' = [b \in Callers |->
                                             IF step[b] \notin {"idle", "held"} /\ path[b] = p
                                             THEN seen[b] \cup {d} ELSE seen[b]]
      BY <1>4 DEF Replace
    <3>2. [b \in Callers |-> IF step[b] \notin {"idle", "held"} /\ path[b] = p
                             THEN seen[b] \cup {d} ELSE seen[b]]
            = [b \in Callers |-> IF Calls[b] = "open" /\ path[b] = p
                                 THEN seen[b] \cup {d} ELSE seen[b]]
      BY <2>4
    <3>3. QED
      BY <3>1, <3>2, Zenon
  <2>6. QED
    BY <2>1, <2>3, <2>5, Zenon DEF Handle!Replace, Calls, Handles, CallOf, HandleOf
<1>5. CASE UNCHANGED vars
  <2>1. \A b \in Callers : CallOf(b)' = CallOf(b) /\ HandleOf(b)' = HandleOf(b)
    BY <1>5 DEF vars, CallOf, HandleOf, Dev, File
  <2>2. QED
    BY <1>5, <2>1 DEF vars, Calls, Handles
<1>6. QED
  BY <1>2, <1>3, <1>4, <1>5, OpeningMapped DEF Next, Handle!Next, Handle!vars

\* Opening devices implements what DeviceHandle promises: a handle is bound to
\* one device that was behind the path during the call and that its driver
\* serves, from Open to Close; for any number of callers, paths and devices.
THEOREM OpenImplementsHandle == Spec => ImplementsHandle
<1>1. Init => Handle!Init
  BY InitTypes DEF Init, Handle!Init, Handle!NoHandle, TypeOK
<1>2. OpenInv /\ [Next]_vars => [Handle!Next]_(Handle!vars)
  BY StepMapped
<1>3. QED
  BY <1>1, <1>2, OpenInvHolds, PTL DEF Spec, ImplementsHandle, Handle!Spec

-----------------------------------------------------------------------------
(* Healthy devices.  When nothing fails and nothing is exchanged, a driver  *)
(* gives up on a device only if it cannot serve it.                        *)

\* What HealthyOpens takes for granted: callers go through Open, every drive's
\* look-up in the database succeeds, and descriptors suffice for all callers.
Undisturbed ==
  /\ Entries = {"Open"} /\ BadModels = {}
  /\ IsFiniteSet(FDs) /\ IsFiniteSet(Callers)
  /\ Cardinality(Callers) <= Cardinality(FDs)

KindOf(c) == at[path[c]].kind

\* A driver that has failed could not serve the device; to a bridge that an
\* NVMe ioctl has broken, nobody gets through.
NotServed(d, c) ==
  /\ d = "nvme" => KindOf(c) # "nvme"
  /\ d = "sata" => KindOf(c) # "sat"
  /\ d = "scsi" => KindOf(c) \notin {"sat", "disk"}
  /\ KindOf(c) = "bridge" => path[c] \in wedged

Served(c) ==
  \/ driver[c] = "nvme" /\ KindOf(c) = "nvme"
  \/ driver[c] = "sata" /\ KindOf(c) \in DirectAccess
  \/ driver[c] = "scsi" /\ KindOf(c) = "disk"

Sane(c) ==
  /\ HasFile(c) => File(c).live /\ Dev(c) = at[path[c]]
  /\ \A d \in errs[c] : NotServed(d, c)
  /\ step[c] = "close" => NotServed(driver[c], c)
  /\ step[c] = "inquiry" => driver[c] # "nvme"
  /\ step[c] = "probe" => driver[c] = "sata"
  /\ step[c] = "identify" => driver[c] # "scsi"
  /\ step[c] = "held" => Served(c)

Quiet == faulty = {} /\ replacements = 0

HealthyInv ==
  /\ OpenInv
  /\ UsbBridgesSurvive
  /\ NvmeGuard
  /\ Quiet => /\ \A p \in wedged : at[p].kind = "bridge"
              /\ \A c \in Callers : Sane(c)

\* A caller without a descriptor finds a free one.
LEMMA FreeDescriptor ==
  ASSUME Undisturbed, TypeOK, FdsAccounted, NEW c \in Callers, ~HasFile(c)
  PROVE  \E f \in FDs : fds[f] = NoFile
<1> SUFFICES ASSUME \A f \in FDs : fds[f] # NoFile PROVE FALSE
  OBVIOUS
<1> DEFINE Others == Callers \ {c}
           owner == [f \in FDs |-> CHOOSE b \in Others : HasFile(b) /\ fd[b] = f]
<1>1. \A f \in FDs : \E b \in Others : HasFile(b) /\ fd[b] = f
  BY DEF FdsAccounted
<1>2. \A f \in FDs : owner[f] \in Others /\ fd[owner[f]] = f
  BY <1>1
<1>3. owner \in [FDs -> Others]
  BY <1>2
<1> HIDE DEF owner
<1>4. IsFiniteSet(Others) /\ Cardinality(Others) = Cardinality(Callers) - 1
  BY FS_RemoveElement DEF Undisturbed
<1>5. Cardinality(Callers) \in Nat /\ Cardinality(FDs) \in Nat
  BY FS_CardinalityType DEF Undisturbed
<1> HIDE DEF Others
<1>6. Cardinality(Others) < Cardinality(FDs)
  BY <1>4, <1>5 DEF Undisturbed
<1>7. \E f, g \in FDs : f # g /\ owner[f] = owner[g]
  BY <1>3, <1>4, <1>6, FS_PigeonHole DEF Undisturbed
<1>8. QED
  BY <1>2, <1>7

\* A caller in place, whose device stays, stays sane while others open, close
\* and break things.
LEMMA SaneKept ==
  ASSUME OpenInv, [Next]_vars, NEW b \in Callers, Sane(b),
         step'[b] = step[b], driver'[b] = driver[b], path'[b] = path[b], errs'[b] = errs[b],
         at' = at, wedged \subseteq wedged',
         HasFile(b) => File(b)' = File(b)
  PROVE  Sane(b)'
<1>1. KindOf(b)' = KindOf(b) /\ (HasFile(b)' <=> HasFile(b)) /\ (Served(b)' <=> Served(b))
  BY DEF KindOf, HasFile, Served
<1>2. \A d : NotServed(d, b) => NotServed(d, b)'
  BY <1>1 DEF NotServed
<1>3. QED
  BY <1>1, <1>2 DEF Sane, Dev

\* The files of others stay the same, as long as no device is exchanged.
LEMMA FilesOfOthers ==
  ASSUME OpenInv, [Next]_vars, NEW c \in Callers, Start(c) \/ Opening(c) \/ Close(c),
         NEW b \in Callers \ {c}, HasFile(b)
  PROVE  File(b)' = File(b)
<1>0. fd[b] \in FDs /\ fds[fd[b]] # NoFile
  BY DEF OpenInv, TypeOK, FdsAccounted, File
<1>1. CASE \E f \in FDs : Opened(c, f)
  BY <1>0, <1>1 DEF Opened, File, OpenInv, TypeOK
<1>2. CASE CloseOnError(c) \/ Close(c)
  <2>1. HasFile(c)
    BY <1>2 DEF CloseOnError, Close, HasFile
  <2>2. fd[b] # fd[c] /\ fd' = fd /\ fds' = [fds EXCEPT ![fd[c]] = NoFile]
    BY <1>2, <2>1 DEF OpenInv, FdsAccounted, CloseOnError, Close
  <2>3. QED
    BY <1>0, <2>2 DEF File, OpenInv, TypeOK
<1>3. CASE UNCHANGED <<fds, fd>>
  BY <1>3 DEF File
<1>4. QED
  BY <1>1, <1>2, <1>3
    DEF Opening, OpenFile, Start, NvmeIdentify, Inquire, Probe, SataIdentify

\* In a quiet world a descriptor leads to the device behind the path, which
\* answers unless it is a bridge that an NVMe ioctl has broken.
LEMMA QuietFiles ==
  ASSUME HealthyInv, Quiet, NEW c \in Callers, HasFile(c)
  PROVE  /\ Dev(c) = at[path[c]] /\ KindOf(c) \in Kinds \ {"none"}
         /\ File(c) # NoFile /\ File(c).path = path[c]
         /\ Reachable(c) <=> path[c] \notin wedged
         /\ path[c] \in wedged => KindOf(c) = "bridge"
<1>1. Dev(c) = at[path[c]] /\ File(c).live
  BY DEF HealthyInv, Sane
<1>2. File(c) # NoFile /\ File(c).path = path[c]
  BY DEF HealthyInv, OpenInv, FdsAccounted
<1>3. Dev(c).kind \in Kinds \ {"none"}
  <2>1. Dev(c) \in Devices
    BY DevTypes DEF HealthyInv, OpenInv
  <2>2. Dev(c).kind # "none"
    BY DEF HealthyInv, OpenInv, Fits
  <2>3. QED
    BY <2>1, <2>2, OpenAssumption
<1>4. path[c] \in wedged => KindOf(c) = "bridge"
  BY DEF HealthyInv, KindOf
<1>5. QED
  BY <1>1, <1>2, <1>3, <1>4 DEF Reachable, KindOf

\* The command of an ATA drive fails for lack of an answer only.
LEMMA AtaAnswers ==
  ASSUME HealthyInv, Quiet, NEW c \in Callers, HasFile(c), KindOf(c) \in DirectAccess,
         NEW r \in AtaData(c), ScsiSendCdb(r)
  PROVE  path[c] \in wedged /\ KindOf(c) = "bridge"
<1>1. SUFFICES ASSUME Reachable(c) PROVE FALSE
  BY QuietFiles
<1>2. Dev(c).kind # "nvme" /\ Faulty = {}
  BY QuietFiles DEF KindOf, DirectAccess, Quiet, Faulty
<1>3. r \in {Good(Dev(c)), Check(IllegalRequest)}
  BY <1>1, <1>2 DEF AtaData
<1>4. IllegalRequest # <<>>
  BY DEF IllegalRequest, SenseHeader
<1>5. QED
  BY <1>3, <1>4 DEF Good, Check, ScsiSendCdb, ScsiSendCdbSense, CheckCondition, InfoOk

\* INQUIRY fails, or tells of another type, for lack of an answer or because the
\* device is no direct access device.
LEMMA InquiryAnswers ==
  ASSUME HealthyInv, Quiet, NEW c \in Callers, HasFile(c),
         NEW r \in Inquiry(c), ScsiSendCdb(r) \/ Peripheral(r.data) # 0
  PROVE  \/ path[c] \in wedged /\ KindOf(c) = "bridge"
         \/ KindOf(c) \in {"nvme", "tape"}
<1>1. SUFFICES ASSUME Reachable(c), KindOf(c) \in DirectAccess PROVE FALSE
  BY QuietFiles DEF Kinds
<1>2. Dev(c).kind \in DirectAccess /\ Dev(c).kind # "nvme" /\ Faulty = {}
  BY <1>1, QuietFiles DEF KindOf, DirectAccess, Quiet, Faulty
<1>3. r = Good(InquiryData(Dev(c).kind))
  BY <1>1, <1>2 DEF Inquiry
<1>4. r.data.type = 0
  BY <1>2, <1>3 DEF InquiryData, Good, DirectAccess
<1>5. QED
  BY <1>3, <1>4 DEF Good, ScsiSendCdb, ScsiSendCdbSense, CheckCondition, InfoOk, Peripheral

\* The steps of a driver leave the world and the call's arguments as they are,
\* and only an NVMe ioctl to a bridge breaks anything.
LEMMA OpeningFrame ==
  ASSUME NEW c \in Callers, Opening(c)
  PROVE  /\ UNCHANGED <<faulty, at, replacements, entry, path>>
         /\ Running(c)
         /\ wedged' \in {wedged, Wedging(c)}
         /\ \/ \E s \in Steps \ {"idle", "held"} : GoTo(c, s)
            \/ Succeed(c) \/ DriverFails(c)
BY DEF Opening, OpenFile, NvmeIdentify, Inquire, Probe, SataIdentify, CloseOnError, Abandon, Steps,
       Running, world, call, notes

\* A driver gives up on a device it cannot serve.
LEMMA AbandonNotServed ==
  ASSUME HealthyInv, Undisturbed, Quiet, NEW c \in Callers, Opening(c), Abandon(c)
  PROVE  NotServed(driver[c], c)'
<1>1. step' = [step EXCEPT ![c] = "close"] /\ step'[c] = "close" /\ driver' = driver
  BY DEF Abandon, GoTo, HealthyInv, OpenInv, TypeOK
<1>2. ~Succeed(c) /\ ~DriverFails(c) /\ \A s \in Steps \ {"close"} : ~GoTo(c, s)
  BY <1>1 DEF Succeed, DriverFails, GoTo, HealthyInv, OpenInv, TypeOK
<1>3. KindOf(c)' = KindOf(c) /\ path' = path
  BY OpeningFrame DEF KindOf
<1>4. CASE NvmeIdentify(c)
  <2>1. driver[c] = "nvme" /\ HasFile(c) /\ ~AnswersNvme(c) /\ wedged' = Wedging(c)
    BY <1>2, <1>4 DEF NvmeIdentify, HasFile, Quiet
  <2>2. KindOf(c) # "nvme"
    BY <2>1, QuietFiles DEF AnswersNvme, KindOf
  <2>3. KindOf(c) = "bridge" => path[c] \in wedged'
    BY <2>1, QuietFiles DEF Wedging, KindOf
  <2>4. QED
    BY <1>1, <1>3, <2>1, <2>2, <2>3 DEF NotServed
<1>5. CASE Inquire(c)
  <2>1. HasFile(c) /\ driver[c] # "nvme" /\ wedged' = wedged
    BY <1>5 DEF Inquire, HasFile, notes, HealthyInv, Sane
  <2>2. \E r \in Inquiry(c) : ScsiSendCdb(r) \/ Peripheral(r.data) # 0
    BY <1>2, <1>5 DEF Inquire, Steps
  <2>3. \/ path[c] \in wedged /\ KindOf(c) = "bridge"
        \/ KindOf(c) \in {"nvme", "tape"}
    BY <2>1, <2>2, InquiryAnswers
  <2>4. QED
    BY <1>1, <1>3, <2>1, <2>3 DEF NotServed
<1>6. CASE Probe(c) \/ SataIdentify(c)
  <2>1. HasFile(c) /\ driver[c] = "sata" /\ wedged' = wedged
    BY <1>6 DEF Probe, SataIdentify, HasFile, notes, HealthyInv, Sane
  <2>2. \E r \in AtaData(c) : ScsiSendCdb(r)
    BY <1>2, <1>6 DEF Probe, SataIdentify, Undisturbed, Steps
  <2>3. KindOf(c) \in DirectAccess
    BY <1>6, <2>1, QuietFiles DEF Probe, SataIdentify, HealthyInv, OpenInv, Fits, KindOf, Passes, Quiet
  <2>4. path[c] \in wedged /\ KindOf(c) = "bridge"
    BY <2>1, <2>2, <2>3, AtaAnswers
  <2>5. QED
    BY <1>1, <1>3, <2>1, <2>4 DEF NotServed
<1>7. CASE OpenFile(c) \/ CloseOnError(c)
  BY <1>2, <1>7 DEF OpenFile, CloseOnError, Steps
<1>8. QED
  BY <1>4, <1>5, <1>6, <1>7 DEF Opening

\* A driver that returns a handle serves the device.
LEMMA SucceedServes ==
  ASSUME HealthyInv, Undisturbed, Quiet, NEW c \in Callers, Opening(c), Succeed(c)
  PROVE  Served(c) /\ HasFile(c) /\ UNCHANGED <<fds, fd>>
<1>1. step' = [step EXCEPT ![c] = "held"] /\ step'[c] = "held"
  BY DEF Succeed, HealthyInv, OpenInv, TypeOK
<1>2. ~DriverFails(c) /\ ~Abandon(c) /\ \A s \in Steps \ {"held"} : ~GoTo(c, s)
  BY <1>1 DEF DriverFails, Abandon, GoTo, HealthyInv, OpenInv, TypeOK
<1>3. entry[c] = "Open"
  BY DEF Undisturbed, HealthyInv, OpenInv, TypeOK
<1>4. CASE OpenFile(c) \/ Probe(c) \/ CloseOnError(c)
  BY <1>2, <1>3, <1>4 DEF OpenFile, Probe, CloseOnError, Steps
<1>5. CASE NvmeIdentify(c)
  <2>1. HasFile(c) /\ driver[c] = "nvme" /\ Dev(c).kind = "nvme" /\ UNCHANGED <<fds, fd>>
    BY <1>2, <1>5 DEF NvmeIdentify, AnswersNvme, HasFile
  <2>2. QED
    BY <2>1, QuietFiles DEF Served, KindOf
<1>6. CASE Inquire(c)
  <2>1. HasFile(c) /\ Running(c) /\ UNCHANGED <<fds, fd>>
    BY <1>6 DEF Inquire, HasFile, Running
  <2>2. PICK r \in Inquiry(c) : ~(ScsiSendCdb(r) \/ Peripheral(r.data) # 0) /\ driver[c] = "scsi"
    BY <1>2, <1>6 DEF Inquire, Steps
  <2>3. Dev(c).kind \in DirectAccess
    BY <2>1, <2>2, QuietFiles, InquiryAccepts DEF HealthyInv, OpenInv, KindOf, Passes, Quiet
  <2>4. Reachable(c)
    BY <2>2 DEF Inquiry, Broken, Errno, HostError, Silent, ScsiSendCdb, ScsiSendCdbSense,
                CheckCondition, InfoOk
  <2>5. "sata" \in errs[c]
    BY <1>3, <2>1, <2>2 DEF HealthyInv, OpenInv, Explains, Tried
  <2>6. NotServed("sata", c)
    BY <2>5 DEF HealthyInv, Sane
  <2>7. KindOf(c) = "disk"
    BY <2>1, <2>3, <2>4, <2>6, QuietFiles DEF NotServed, KindOf, DirectAccess
  <2>8. QED
    BY <2>1, <2>2, <2>7 DEF Served
<1>7. CASE SataIdentify(c)
  <2>1. HasFile(c) /\ driver[c] = "sata" /\ step[c] = "identify" /\ UNCHANGED <<fds, fd>>
    BY <1>7 DEF SataIdentify, HasFile
  <2>2. Dev(c).kind \in DirectAccess
    BY <2>1 DEF HealthyInv, OpenInv, Fits, Passes, Quiet
  <2>3. QED
    BY <2>1, <2>2, QuietFiles DEF Served, KindOf
<1>8. QED
  BY <1>4, <1>5, <1>6, <1>7 DEF Opening

\* A step of a driver keeps its own caller sane.
LEMMA MoverSane ==
  ASSUME HealthyInv, Undisturbed, Quiet, [Next]_vars, NEW c \in Callers, Opening(c)
  PROVE  Sane(c)'
<1>1. /\ KindOf(c)' = KindOf(c) /\ path' = path /\ at' = at /\ Running(c)
      /\ wedged \subseteq wedged'
  BY OpeningFrame DEF KindOf, Wedging
<1>2. \A d : NotServed(d, c) => NotServed(d, c)'
  BY <1>1 DEF NotServed
<1>3. \A d \in errs[c] : NotServed(d, c)'
  BY <1>2 DEF HealthyInv, Sane
<1>4. CASE DriverFails(c)
  <2>1. ~HasFile(c)' /\ step'[c] \in {"idle", "open"} /\ errs'[c] = errs[c] \cup {driver[c]}
    BY <1>4 DEF DriverFails, HasFile, HealthyInv, OpenInv, TypeOK
  <2>2. ASSUME NEW d, d = driver[c] PROVE NotServed(d, c)'
    <3>1. CASE CloseOnError(c)
      BY <1>2, <2>2, <3>1 DEF CloseOnError, HealthyInv, Sane
    <3>2. CASE OpenFile(c)
      <4>1. step[c] = "open" /\ ~HasFile(c) /\ KindOf(c) = at[path[c]].kind
        BY <3>2 DEF OpenFile, HasFile, KindOf
      <4>2. \E f \in FDs : fds[f] = NoFile
        BY <4>1, FreeDescriptor DEF HealthyInv, OpenInv
      <4>3. ~Succeed(c) /\ ~GoTo(c, "inquiry") /\ ~GoTo(c, "identify")
        BY <2>1 DEF Succeed, GoTo, HealthyInv, OpenInv, TypeOK
      <4>4. KindOf(c) = "none"
        BY <3>2, <4>1, <4>2, <4>3 DEF OpenFile, Quiet
      <4>5. QED
        BY <1>1, <4>4 DEF NotServed
    <3>3. CASE NvmeIdentify(c) \/ Inquire(c) \/ Probe(c) \/ SataIdentify(c)
      BY <2>1, <3>3 DEF NvmeIdentify, Inquire, Probe, SataIdentify, Abandon, Succeed, GoTo, HealthyInv,
                        OpenInv, TypeOK
    <3>4. QED
      BY <3>1, <3>2, <3>3 DEF Opening
  <2>3. \A d \in errs'[c] : NotServed(d, c)'
    BY <1>3, <2>1, <2>2
  <2>4. QED
    BY <2>1, <2>3 DEF Sane
<1>5. CASE Succeed(c)
  <2>1. step'[c] = "held" /\ driver' = driver /\ errs'[c] = {}
    BY <1>5 DEF Succeed, HealthyInv, OpenInv, TypeOK
  <2>2. Served(c) /\ HasFile(c) /\ File(c)' = File(c)
    BY <1>5, SucceedServes DEF File
  <2>3. Served(c)'
    BY <1>1, <2>1, <2>2 DEF Served
  <2>4. File(c)'.live /\ Dev(c)' = at'[path'[c]]
    BY <1>1, <2>2 DEF Dev, HealthyInv, Sane
  <2>5. QED
    BY <2>1, <2>3, <2>4 DEF Sane
<1>6. ASSUME NEW s \in Steps \ {"idle", "held"}, GoTo(c, s), ~DriverFails(c)
      PROVE  Sane(c)'
  <2>1. step' = [step EXCEPT ![c] = s] /\ step'[c] = s /\ UNCHANGED <<driver, errs>>
    BY <1>6 DEF GoTo, HealthyInv, OpenInv, TypeOK
  <2>2. ~Succeed(c) /\ \A t \in Steps \ {s} : ~GoTo(c, t)
    BY <1>6, <2>1 DEF Succeed, GoTo, HealthyInv, OpenInv, TypeOK
  <2>3. s = "close" => NotServed(driver[c], c)'
    BY <1>6, AbandonNotServed DEF Abandon
  <2>4. CASE OpenFile(c)
    <3>1. PICK f \in FDs : Opened(c, f)
      BY <1>6, <2>4 DEF OpenFile
    <3>2. File(c)' = [dev |-> at[path[c]], path |-> path[c], live |-> TRUE]
      BY <3>1 DEF Opened, File, HealthyInv, OpenInv, TypeOK
    <3>3. File(c)'.live /\ Dev(c)' = at'[path'[c]]
      BY <1>1, <3>2 DEF Dev
    <3>4. s = IF driver[c] # "nvme" THEN "inquiry" ELSE "identify"
      BY <1>6, <2>2, <2>4 DEF OpenFile, Steps
    <3>5. QED
      BY <1>3, <2>1, <3>3, <3>4 DEF Sane
  <2>5. CASE NvmeIdentify(c) \/ Inquire(c) \/ Probe(c) \/ SataIdentify(c)
    <3>1. HasFile(c) /\ UNCHANGED <<fds, fd>>
      BY <2>5 DEF NvmeIdentify, Inquire, Probe, SataIdentify, HasFile
    <3>2. File(c)'.live /\ Dev(c)' = at'[path'[c]]
      BY <1>1, <3>1 DEF File, Dev, HealthyInv, Sane
    <3>3. \/ s = "close"
          \/ s = "probe" /\ driver[c] = "sata"
          \/ s = "identify" /\ driver[c] # "scsi"
      <4>1. CASE NvmeIdentify(c) \/ SataIdentify(c)
        BY <2>2, <4>1 DEF NvmeIdentify, SataIdentify, Abandon, Steps
      <4>2. CASE Probe(c)
        <5>1. driver[c] = "sata"
          BY <4>2 DEF Probe, HealthyInv, Sane
        <5>2. QED
          BY <2>2, <4>2, <5>1 DEF Probe, Abandon, Steps
      <4>3. CASE Inquire(c)
        <5>1. driver[c] \in Drivers \ {"nvme"}
          BY <4>3 DEF Inquire, HealthyInv, Sane, OpenInv, TypeOK
        <5>2. QED
          BY <2>2, <4>3, <5>1 DEF Inquire, Abandon, Steps, Drivers
      <4>4. QED
        BY <2>5, <4>1, <4>2, <4>3
    <3>4. QED
      BY <1>3, <2>1, <2>3, <3>2, <3>3 DEF Sane
  <2>6. CASE CloseOnError(c)
    BY <1>6, <2>6 DEF CloseOnError
  <2>7. QED
    BY <2>4, <2>5, <2>6 DEF Opening
<1>7. QED
  BY <1>4, <1>5, <1>6, OpeningFrame

\* HealthyInv is inductive.
LEMMA HealthyInvHolds ==
  ASSUME Undisturbed
  PROVE  /\ Init => HealthyInv
         /\ HealthyInv /\ [Next]_vars => HealthyInv'
<1>1. Init => HealthyInv
  BY OpenInvHolds, GuardHolds
    DEF Init, HealthyInv, UsbBridgesSurvive, Sane, HasFile
<1> SUFFICES ASSUME HealthyInv, [Next]_vars PROVE HealthyInv'
  BY <1>1
<1>2. OpenInv' /\ UsbBridgesSurvive' /\ NvmeGuard'
  BY OpenInvHolds, GuardHolds, StepSpares DEF HealthyInv, OpenInv
<1>3. SUFFICES ASSUME Quiet'
               PROVE  /\ \A p \in wedged' : at'[p].kind = "bridge"
                      /\ \A b \in Callers : Sane(b)'
  BY <1>2 DEF HealthyInv
<1>4. ASSUME NEW c \in Callers, Start(c) \/ Opening(c) \/ Close(c),
             Quiet, at' = at, wedged \subseteq wedged', NEW b \in Callers \ {c}
      PROVE  Sane(b)'
  <2>1. errs'[b] = errs[b]
    BY <1>4, OpeningFrame
      DEF Start, Close, AfterClose, GoTo, Succeed, DriverFails, HealthyInv, OpenInv, TypeOK
  <2>2. Sane(b) /\ OpenInv
    BY <1>4 DEF HealthyInv
  <2>3. /\ step'[b] = step[b] /\ driver'[b] = driver[b] /\ path'[b] = path[b]
        /\ HasFile(b) => File(b)' = File(b)
    BY <1>4, <2>2, OthersFit, FilesOfOthers
  <2>4. QED
    BY <1>4, <2>1, <2>2, <2>3, SaneKept
<1>5. ASSUME NEW c \in Callers, Start(c)
      PROVE  /\ \A p \in wedged' : at'[p].kind = "bridge"
             /\ \A b \in Callers : Sane(b)'
  <2>1. Quiet /\ at' = at /\ wedged' = wedged
    BY <1>3, <1>5 DEF Start, world, notes, Quiet
  <2>2. step'[c] = "open" /\ errs'[c] = {}
    BY <1>5 DEF Start, HealthyInv, OpenInv, TypeOK
  <2>3. Sane(c)'
    BY <2>2 DEF Sane, HasFile
  <2>4. QED
    BY <1>4, <1>5, <2>1, <2>3 DEF HealthyInv
<1>6. ASSUME NEW c \in Callers, Opening(c)
      PROVE  /\ \A p \in wedged' : at'[p].kind = "bridge"
             /\ \A b \in Callers : Sane(b)'
  <2>1. Quiet /\ at' = at /\ wedged' \in {wedged, Wedging(c)}
    BY <1>3, <1>6, OpeningFrame DEF Quiet
  <2>2. wedged \subseteq wedged'
    BY <2>1 DEF Wedging
  <2>3. Sane(c)'
    BY <1>6, <2>1, MoverSane
  <2>4. \A p \in wedged' : at'[p].kind = "bridge"
    <3>1. CASE wedged' = wedged
      BY <2>1, <3>1 DEF HealthyInv
    <3>2. CASE wedged' # wedged
      <4>1. wedged' = wedged \cup {File(c).path} /\ Dev(c).kind = "bridge" /\ HasFile(c)
        BY <1>6, <2>1, <3>2
          DEF Opening, OpenFile, NvmeIdentify, Inquire, Probe, SataIdentify, CloseOnError, Wedging,
              HasFile, notes
      <4>2. at[File(c).path].kind = "bridge"
        BY <2>1, <4>1, QuietFiles
      <4>3. QED
        BY <2>1, <4>1, <4>2 DEF HealthyInv
    <3>3. QED
      BY <3>1, <3>2
  <2>5. QED
    BY <1>4, <1>6, <2>1, <2>2, <2>3, <2>4
<1>7. ASSUME NEW c \in Callers, Close(c)
      PROVE  /\ \A p \in wedged' : at'[p].kind = "bridge"
             /\ \A b \in Callers : Sane(b)'
  <2>1. Quiet /\ at' = at /\ wedged' = wedged
    BY <1>3, <1>7 DEF Close, world, notes, Quiet
  <2>2. step'[c] = "idle" /\ errs'[c] = errs[c] /\ path' = path
    BY <1>7 DEF Close, AfterClose, GoTo, call, HealthyInv, OpenInv, TypeOK
  <2>3. \A d : NotServed(d, c)' <=> NotServed(d, c)
    BY <2>1, <2>2 DEF NotServed, KindOf
  <2>4. Sane(c)'
    BY <2>1, <2>2, <2>3 DEF HealthyInv, Sane, HasFile
  <2>5. QED
    BY <1>4, <1>7, <2>1, <2>4 DEF HealthyInv
<1>8. ASSUME NEW p \in Paths, Replace(p) PROVE FALSE
  BY <1>3, <1>8 DEF Replace, Quiet, HealthyInv, OpenInv, TypeOK
<1>9. CASE UNCHANGED vars
  <2>1. Quiet /\ at' = at /\ wedged' = wedged
    BY <1>3, <1>9 DEF vars, Quiet
  <2>2. \A b \in Callers : Sane(b)'
    BY <1>9, <2>1, SaneKept DEF vars, HealthyInv, File
  <2>3. QED
    BY <2>1, <2>2 DEF HealthyInv
<1>10. QED
  BY <1>5, <1>6, <1>7, <1>8, <1>9 DEF Next

\* Without faults and exchanged devices, Open ends with a handle of the right
\* driver for every drive that is not behind the wrong name: for any number of
\* callers and devices, as long as there is a descriptor for each caller.
THEOREM HealthyDrivesOpen ==
  ASSUME Undisturbed
  PROVE  Spec => []HealthyOpens
<1>1. ASSUME HealthyInv PROVE HealthyOpens
  <2> SUFFICES ASSUME Quiet, NEW c \in Callers
               PROVE  /\ step[c] = "idle" /\ errs[c] # {} =>
                           \/ KindOf(c) \in {"none", "tape"}
                           \/ KindOf(c) = "nvme" /\ path[c] \notin NvmePaths
                           \/ KindOf(c) = "bridge" /\ path[c] \in NvmePaths
                      /\ step[c] = "held" =>
                           driver[c] \in CASE KindOf(c) = "nvme"               -> {"nvme"}
                                           [] KindOf(c) \in {"sat", "bridge"} -> {"sata"}
                                           [] KindOf(c) = "disk"              -> {"sata", "scsi"}
                                           [] OTHER                           -> {}
    BY Zenon DEF HealthyOpens, Quiet, KindOf
  <2>1. Sane(c) /\ entry[c] = "Open"
    BY <1>1 DEF HealthyInv, OpenInv, TypeOK, Undisturbed
  <2>2. ASSUME step[c] = "idle", errs[c] # {}
        PROVE  \/ KindOf(c) \in {"none", "tape"}
               \/ KindOf(c) = "nvme" /\ path[c] \notin NvmePaths
               \/ KindOf(c) = "bridge" /\ path[c] \in NvmePaths
    <3>1. errs[c] = {"sata", "scsi"} \cup IF path[c] \in NvmePaths THEN {"nvme"} ELSE {}
      BY <1>1, <2>1, <2>2 DEF HealthyInv, OpenInv, Explains, FailureExplained
    <3>2. /\ NotServed("sata", c) /\ NotServed("scsi", c)
          /\ path[c] \in NvmePaths => NotServed("nvme", c)
      BY <2>1, <3>1 DEF Sane
    <3>3. KindOf(c) \in Kinds
      BY <1>1, OpenAssumption DEF KindOf, HealthyInv, OpenInv, TypeOK
    <3>4. wedged \subseteq NvmePaths
      BY <1>1 DEF HealthyInv, UsbBridgesSurvive
    <3>5. QED
      BY <3>2, <3>3, <3>4 DEF NotServed, Kinds, DirectAccess
  <2>3. ASSUME step[c] = "held"
        PROVE  driver[c] \in CASE KindOf(c) = "nvme"               -> {"nvme"}
                               [] KindOf(c) \in {"sat", "bridge"} -> {"sata"}
                               [] KindOf(c) = "disk"              -> {"sata", "scsi"}
                               [] OTHER                           -> {}
    BY <2>1, <2>3 DEF Sane, Served, DirectAccess
  <2>4. QED
    BY <2>2, <2>3
<1>2. QED
  BY <1>1, HealthyInvHolds, PTL DEF Spec

-----------------------------------------------------------------------------
(* Calls go on: what a weakly fair call needs in order to return.          *)

\* A driver that fails ends the call or hands over to a later one.
LEMMA FailureGoesOn ==
  ASSUME TypeOK, NEW c \in Callers, DriverFails(c)
  PROVE  ~Running(c)' \/ GoesOn(c)
<1>1. CASE entry[c] = "Open" /\ driver[c] # "scsi"
  <2>1. driver[c] \in {"nvme", "sata"} /\ driver'[c] = NextDriver(driver[c])
    BY <1>1 DEF DriverFails, TypeOK, Drivers
  <2>2. QED
    BY <2>1 DEF NextDriver, GoesOn, DriverOrder
<1>2. CASE ~(entry[c] = "Open" /\ driver[c] # "scsi")
  BY <1>2 DEF DriverFails, TypeOK, Running
<1>3. QED
  BY <1>1, <1>2

\* Going to a later step of the same driver is going on.
LEMMA LaterStep ==
  ASSUME TypeOK, NEW c \in Callers,
         \/ step[c] = "open" /\ \E s \in {"inquiry", "identify"} : GoTo(c, s)
         \/ step[c] = "inquiry" /\ \E s \in {"probe", "identify", "close"} : GoTo(c, s)
         \/ step[c] = "probe" /\ \E s \in {"identify", "close"} : GoTo(c, s)
         \/ step[c] = "identify" /\ GoTo(c, "close")
  PROVE  GoesOn(c)
<1>1. driver'[c] = driver[c]
  BY DEF GoTo
<1>2. StepOrder[step'[c]] > StepOrder[step[c]]
  BY DEF GoTo, TypeOK, StepOrder
<1>3. QED
  BY <1>1, <1>2 DEF GoesOn

\* Every step of a call goes on.
LEMMA OpeningGoesOn ==
  ASSUME TypeOK, NEW c \in Callers, Opening(c)
  PROVE  ~Running(c)' \/ GoesOn(c)
<1>1. Succeed(c) => ~Running(c)'
  BY DEF Succeed, TypeOK, Running
<1>2. CASE OpenFile(c)
  BY <1>1, <1>2, FailureGoesOn, LaterStep DEF OpenFile
<1>3. CASE NvmeIdentify(c)
  BY <1>1, <1>3, LaterStep DEF NvmeIdentify, Abandon
<1>4. CASE Inquire(c)
  BY <1>1, <1>4, LaterStep DEF Inquire, Abandon
<1>5. CASE Probe(c)
  BY <1>5, LaterStep DEF Probe, Abandon
<1>6. CASE SataIdentify(c)
  BY <1>1, <1>6, LaterStep DEF SataIdentify, Abandon
<1>7. CASE CloseOnError(c)
  BY <1>7, FailureGoesOn DEF CloseOnError
<1>8. QED
  BY <1>2, <1>3, <1>4, <1>5, <1>6, <1>7 DEF Opening

\* Steps of others do not move a call.
LEMMA OthersStay ==
  ASSUME TypeOK, [Next]_vars, NEW c \in Callers, Running(c), ~Opening(c)
  PROVE  UNCHANGED <<driver[c], step[c]>>
<1>1. ASSUME NEW b \in Callers, Start(b) \/ Opening(b) \/ Close(b)
      PROVE  UNCHANGED <<driver[c], step[c]>>
  <2>1. b # c
    BY <1>1 DEF Running, Start, Close
  <2>2. CASE Start(b)
    BY <2>1, <2>2 DEF Start, TypeOK
  <2>3. CASE Opening(b) \/ Close(b)
    <3>1. Succeed(b) \/ DriverFails(b) \/ \E s \in Steps : GoTo(b, s)
      BY <2>3 DEF Opening, OpenFile, NvmeIdentify, Inquire, Probe, SataIdentify, CloseOnError, Close,
                  AfterClose, Abandon, Steps
    <3>2. QED
      BY <2>1, <3>1 DEF Succeed, DriverFails, GoTo, TypeOK
  <2>4. QED
    BY <1>1, <2>2, <2>3
<1>2. CASE (\E p \in Paths : Replace(p)) \/ UNCHANGED vars
  BY <1>2 DEF Replace, vars
<1>3. QED
  BY <1>1, <1>2 DEF Next

\* For any number of callers, paths and devices: every step of a call ends it or goes
\* on to a later step or driver, and nobody else moves it.  With the fairness of
\* FairSpec, under which a call takes its steps, this is why calls return.
THEOREM CallsAdvance == Spec => CallsGoOn
<1>1. TypeOK /\ [Next]_vars =>
        [\A c \in Callers : Running(c) =>
           IF Opening(c) THEN ~Running(c)' \/ GoesOn(c)
           ELSE UNCHANGED <<driver[c], step[c]>>]_vars
  BY OpeningGoesOn, OthersStay
<1>2. QED
  BY <1>1, InitTypes, StepTypes, PTL DEF Spec, CallsGoOn

-----------------------------------------------------------------------------
(* Handles without an identification.                                      *)

\* The steps that end in the SATA driver with a handle: only one does.
LEMMA SataHandles ==
  ASSUME OpenInv, NEW c \in Callers, Opening(c), (step[c] = "held" /\ driver[c] = "sata")'
  PROVE  SataIdentify(c) /\ Succeed(c)
<1>1. DriverFails(c) => step'[c] # "held"
  BY DEF DriverFails, OpenInv, TypeOK
<1>2. \A s \in Steps \ {"held"} : GoTo(c, s) => step'[c] # "held"
  BY DEF GoTo, OpenInv, TypeOK
<1>3. Succeed(c) => driver'[c] = driver[c]
  BY DEF Succeed
<1>4. ~OpenFile(c)
  BY <1>1, <1>2, <1>3 DEF OpenFile, Steps
<1>5. ~NvmeIdentify(c)
  BY <1>2, <1>3 DEF NvmeIdentify, Abandon, Steps
<1>6. ~Inquire(c)
  BY <1>2, <1>3 DEF Inquire, Abandon, Steps
<1>7. ~Probe(c)
  BY <1>2 DEF Probe, Abandon, Steps
<1>8. ~CloseOnError(c)
  BY <1>1 DEF CloseOnError
<1>9. SataIdentify(c)
  BY <1>4, <1>5, <1>6, <1>7, <1>8 DEF Opening
<1>10. Succeed(c)
  BY <1>2, <1>9 DEF SataIdentify, Abandon, Steps
<1>11. QED
  BY <1>9, <1>10

\* A reply to an ATA command that is no error and has no data comes from a device
\* that is no ATA drive, or that may leave commands unserved.
LEMMA SilentAnswer ==
  ASSUME NEW c \in Callers, NEW r \in AtaData(c), ~ScsiSendCdb(r), r.data = Zeroed,
         Dev(c) # Zeroed, "device" \notin faulty
  PROVE  Dev(c).kind \notin {"sat", "bridge"}
<1>1. r \notin Broken
  BY BrokenIsError
<1>2. r # Good(Dev(c))
  BY DEF Good
<1>3. Faulty \subseteq Broken
  BY DEF Faulty
<1>4. QED
  BY <1>1, <1>2, <1>3 DEF AtaData

\* SATA handles without an identification, as long as all devices serve commands.
OnlyDisksUnnamed ==
  "device" \notin faulty => \A c \in Callers :
    step[c] = "held" /\ driver[c] = "sata" /\ identity[c] = Zeroed => Dev(c).kind = "disk"

LEMMA UnnamedStep ==
  OpenInv /\ OnlyDisksUnnamed /\ [Next]_vars => OnlyDisksUnnamed'
<1> SUFFICES ASSUME OpenInv, OnlyDisksUnnamed, [Next]_vars, ("device" \notin faulty)',
                    NEW b \in Callers,
                    (step[b] = "held" /\ driver[b] = "sata" /\ identity[b] = Zeroed)'
             PROVE  Dev(b)'.kind = "disk"
  BY DEF OnlyDisksUnnamed
<1>0. "device" \notin faulty
  BY FaultyFixed
<1>1. CASE Opening(b)
  <2>1. SataIdentify(b) /\ Succeed(b)
    BY <1>1, SataHandles
  <2>2. HasFile(b) /\ UNCHANGED <<fds, fd>> /\ Passes(Dev(b))
    BY <2>1 DEF SataIdentify, HasFile, OpenInv, Fits
  <2>3. Dev(b) \in Devices /\ Dev(b) # Zeroed /\ Dev(b)' = Dev(b)
    BY <2>2, DevTypes, OpenAssumption DEF OpenInv, Dev, File
  <2>4. ~Abandon(b)
    BY <2>1 DEF Succeed, Abandon, GoTo, OpenInv, TypeOK
  <2>5. PICK r \in AtaData(b) : ~ScsiSendCdb(r) /\ identity'[b] = r.data
    BY <2>1, <2>4 DEF SataIdentify, OpenInv, TypeOK
  <2>6. QED
    BY <1>0, <2>2, <2>3, <2>5, SilentAnswer DEF DirectAccess, Passes
<1>2. CASE UNCHANGED <<step[b], driver[b], identity[b]>>
  <2>1. HasFile(b) /\ HasFile(b)'
    BY <1>2 DEF HasFile
  <2>2. Dev(b)' = Dev(b)
    BY <2>1, DevKept DEF OpenInv
  <2>3. QED
    BY <1>0, <1>2, <2>2 DEF OnlyDisksUnnamed
<1>3. ASSUME NEW c \in Callers, c # b, Start(c) \/ Opening(c) \/ Close(c)
      PROVE  UNCHANGED <<step[b], driver[b], identity[b]>>
  <2>1. step'[b] = step[b] /\ driver'[b] = driver[b]
    BY <1>3, OthersFit
  <2>2. identity'[b] = identity[b]
    BY <1>3 DEF Start, Opening, OpenFile, NvmeIdentify, Inquire, Probe, SataIdentify, CloseOnError,
                Close, notes, OpenInv, TypeOK
  <2>3. QED
    BY <2>1, <2>2
<1>4. ~Start(b) /\ ~Close(b)
  BY DEF Start, Close, AfterClose, GoTo, OpenInv, TypeOK
<1>5. CASE (\E p \in Paths : Replace(p)) \/ UNCHANGED vars
  BY <1>2, <1>5 DEF Replace, vars
<1>6. QED
  BY <1>1, <1>2, <1>3, <1>4, <1>5 DEF Next

\* What the findings about dropped sense data amount to, for any number of callers, paths
\* and devices: as long as devices serve what they are asked, no failure of a transport,
\* exchange of a device or reuse of a descriptor gets a device that is no disk a SATA or
\* SCSI handle, and a SATA handle without an identification is a handle to a SCSI disk.
THEOREM MistakesAreComplaints == Spec => []OnlyComplaintsMislead
<1>1. Init => OnlyDisksUnnamed
  BY DEF Init, OnlyDisksUnnamed
<1>2. OpenInv /\ OnlyDisksUnnamed => OnlyComplaintsMislead
  BY DEF OpenInv, OnlyDisksUnnamed, OnlyComplaintsMislead, Fits, Passes
<1>3. QED
  BY <1>1, <1>2, OpenInvHolds, UnnamedStep, PTL DEF Spec
=============================================================================
