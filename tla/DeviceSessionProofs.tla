-------------------------- MODULE DeviceSessionProofs --------------------------
(***************************************************************************)
(* Handles in use, for any number of callers, devices and descriptors:     *)
(* whoever closes every handle once hears from the device it has opened.   *)
(***************************************************************************)
EXTENDS DeviceSession, DeviceOpenProofs

\* What a caller may rely on between open and Close: its descriptor still leads
\* to the device that it was opened on, and so does what that device has said.
Bound ==
  \A c \in Callers : HasFile(c) =>
    /\ Dev(c) = opened[c]
    /\ identity[c] \in {opened[c], Zeroed}

SessionInv ==
  /\ SessionTypeOK
  /\ misuses = 0 => FdsAccounted /\ Bound
  /\ OwnAnswers

-----------------------------------------------------------------------------
(* Types.                                                                  *)

\* The data a handle returns is of the right type.
LEMMA HearingTypes ==
  ASSUME SessionTypeOK, NEW c \in Callers, Reachable(c), driver[c] \in {"nvme", "sata"}
  PROVE  Hearing(c) \in Hearings
<1>1. Dev(c) \in Devices
  BY DEF SessionTypeOK, TypeOK, Reachable, Dev, File, Files
<1>2. opened[c] \in Devices \cup {NoFile} /\ identity[c] \in Devices \cup {Zeroed}
  BY DEF SessionTypeOK, TypeOK
<1>3. QED
  BY <1>1, <1>2 DEF Hearing, Hearings

\* Data comes from a device that can be reached.
LEMMA DataFromDevice ==
  ASSUME NEW c \in Callers, NEW r \in AtaData(c), r.data # Zeroed
  PROVE  Reachable(c) /\ r.data = Dev(c)
<1>1. r \notin Failures
  BY FailuresAreEmpty
<1>2. Reachable(c) /\ Dev(c).kind # "nvme"
  BY <1>1 DEF AtaData, Failures
<1>3. Faulty \subseteq Failures /\ Check(IllegalRequest) \in Failures
  BY DEF Faulty, Failures, Unserved, RefusalSenses
<1>4. QED
  BY <1>1, <1>2, <1>3 DEF AtaData, Good

\* A step of DeviceOpen within a session is one of DeviceOpen.
LEMMA OpeningSteps ==
  /\ \A c \in Callers : Begin(c) \/ Step(c) \/ CloseHandle(c) \/ ReadSata(c) => [Next]_vars
  /\ \A p \in Paths : Exchange(p) => [Next]_vars
BY DEF Begin, Step, CloseHandle, ReadSata, Exchange, Next

\* Every step keeps the types, misuse included.
LEMMA SessionTypes ==
  ASSUME SessionTypeOK, [SessionNext]_sessionVars
  PROVE  SessionTypeOK'
<1> USE DEF SessionTypeOK
<1>1. ASSUME NEW c \in Callers, Begin(c) PROVE SessionTypeOK'
  BY <1>1, OpeningSteps, StepTypes DEF Begin
<1>2. ASSUME NEW c \in Callers, Step(c) PROVE SessionTypeOK'
  <2>1. opened' \in [Callers -> Devices \cup {NoFile}]
    BY <1>2 DEF Step, TypeOK
  <2>2. QED
    BY <1>2, <2>1, OpeningSteps, StepTypes DEF Step
<1>3. ASSUME NEW c \in Callers, CloseHandle(c) PROVE SessionTypeOK'
  <2>1. TypeOK'
    BY <1>3, OpeningSteps, StepTypes
  <2>2. fd[c] \in FDs
    BY DEF TypeOK
  <2>3. /\ stale' \in [Callers -> SUBSET FDs]
        /\ opened' \in [Callers -> Devices \cup {NoFile}]
    BY <1>3, <2>2 DEF CloseHandle
  <2>4. QED
    BY <1>3, <2>1, <2>3 DEF CloseHandle
<1>4. ASSUME NEW p \in Paths, Exchange(p) PROVE SessionTypeOK'
  BY <1>4, OpeningSteps, StepTypes DEF Exchange
<1>5. ASSUME NEW c \in Callers, ReadSata(c) PROVE SessionTypeOK'
  <2>1. heard' \in {NothingHeard} \cup Hearings
    BY <1>5, DataFromDevice, HearingTypes DEF ReadSata
  <2>2. QED
    BY <1>5, <2>1, OpeningSteps, StepTypes DEF ReadSata
<1>6. ASSUME NEW c \in Callers, ReadNvme(c) PROVE SessionTypeOK'
  <2>1. heard' \in {NothingHeard} \cup Hearings
    BY <1>6, HearingTypes DEF ReadNvme, AnswersNvme
  <2>2. wedged' \subseteq Paths
    <3>1. File(c) # NoFile => File(c).path \in Paths
      BY DEF TypeOK, Files, File
    <3>2. QED
      BY <1>6, <3>1 DEF ReadNvme, Wedging, Reachable, TypeOK
  <2>3. QED
    BY <1>6, <2>1, <2>2 DEF ReadNvme, TypeOK, world, call
<1>7. ASSUME NEW c \in Callers, CloseAgain(c) PROVE SessionTypeOK'
  <2>1. fds' \in [FDs -> Files \cup {NoFile}]
    BY <1>7 DEF CloseAgain, TypeOK
  <2>2. misuses' \in 0..MaxMisuses
    BY <1>7, SessionAssumption DEF CloseAgain
  <2>3. stale' \in [Callers -> SUBSET FDs]
    BY <1>7 DEF CloseAgain
  <2>4. QED
    BY <1>7, <2>1, <2>2, <2>3 DEF CloseAgain, TypeOK, world, call, notes
<1>8. CASE UNCHANGED sessionVars
  BY <1>8, StepTypes DEF sessionVars
<1>9. QED
  BY <1>1, <1>2, <1>3, <1>4, <1>5, <1>6, <1>7, <1>8 DEF SessionNext

-----------------------------------------------------------------------------
(* Handles stay bound.                                                     *)

\* A caller that another's step leaves alone keeps its binding.
LEMMA BindingKept ==
  ASSUME TypeOK, FdsAccounted, Bound, NEW b \in Callers,
         HasFile(b)' => HasFile(b),
         fd'[b] = fd[b], fds'[fd[b]] = fds[fd[b]],
         opened'[b] = opened[b], identity'[b] = identity[b]
  PROVE  HasFile(b)' => Dev(b)' = opened'[b] /\ identity'[b] \in {opened'[b], Zeroed}
BY DEF Bound, Dev, File

\* A step of a driver keeps handles and descriptors bound.
LEMMA StepBinds ==
  ASSUME SessionTypeOK, FdsAccounted, Bound, NEW c \in Callers, Step(c)
  PROVE  Bound'
<1> USE DEF SessionTypeOK
<1> DEFINE B(b) == HasFile(b)' => Dev(b)' = opened'[b] /\ identity'[b] \in {opened'[b], Zeroed}
<1>1. CASE OpenFile(c)
  <2>0. step[c] = "open" /\ opened \in [Callers -> Devices \cup {NoFile}]
    BY <1>1 DEF OpenFile
  <2>1. CASE \E f \in FDs : Opened(c, f) /\ identity' = [identity EXCEPT ![c] = Zeroed]
    <3>1. PICK f \in FDs : Opened(c, f) /\ identity' = [identity EXCEPT ![c] = Zeroed]
      BY <2>1
    <3>2. \A b \in Callers \ {c} : step'[b] = step[b]
      BY <1>1, OwnStep DEF OpenFile, Steps
    <3>3. \A b \in Callers \ {c} : HasFile(b) => fd[b] # f
      BY <3>1 DEF Opened, FdsAccounted, File
    <3>4. ASSUME NEW b \in Callers \ {c} PROVE B(b)
      <4>1. HasFile(b)' => HasFile(b)
        BY <3>2 DEF HasFile
      <4>2. fd'[b] = fd[b] /\ identity'[b] = identity[b] /\ opened'[b] = opened[b]
        BY <3>1 DEF Opened, TypeOK, Step
      <4>3. HasFile(b) => fds'[fd[b]] = fds[fd[b]]
        BY <3>1, <3>3 DEF Opened, TypeOK
      <4>4. QED
        BY <4>1, <4>2, <4>3, BindingKept
    <3>5. B(c)
      <4>1. fd'[c] = f /\ fds'[f] = [dev |-> at[path[c]], path |-> path[c], live |-> TRUE]
        BY <3>1 DEF Opened, TypeOK
      <4>2. HasFile(c)' => opened'[c] = at[path[c]]
        BY <2>0 DEF Step
      <4>3. identity'[c] = Zeroed
        BY <3>1 DEF TypeOK
      <4>4. QED
        BY <4>1, <4>2, <4>3 DEF Dev, File
    <3>6. QED
      BY <3>4, <3>5 DEF Bound
  <2>2. CASE DriverFails(c) /\ UNCHANGED <<fds, fd, identity>>
    <3>1. ~HasFile(c)' /\ \A b \in Callers \ {c} : step'[b] = step[b]
      BY <2>2, OwnStep DEF DriverFails, HasFile, TypeOK
    <3>2. \A b \in Callers \ {c} : opened'[b] = opened[b]
      BY DEF Step
    <3>3. ASSUME NEW b \in Callers \ {c} PROVE B(b)
      BY <2>2, <3>1, <3>2, BindingKept DEF HasFile
    <3>4. QED
      BY <3>1, <3>3 DEF Bound
  <2>3. QED
    BY <1>1, <2>1, <2>2 DEF OpenFile
<1>2. CASE NvmeIdentify(c) \/ Inquire(c) \/ Probe(c) \/ SataIdentify(c)
  <2>1. HasFile(c) /\ step[c] # "open" /\ UNCHANGED <<fds, fd>>
    BY <1>2 DEF NvmeIdentify, Inquire, Probe, SataIdentify, HasFile
  <2>2. \A b \in Callers \ {c} : step'[b] = step[b]
    BY <1>2, OwnStep DEF NvmeIdentify, Inquire, Probe, SataIdentify, Steps
  <2>3. \A b \in Callers \ {c} : identity'[b] = identity[b] /\ opened'[b] = opened[b]
    BY <1>2 DEF NvmeIdentify, Inquire, Probe, SataIdentify, Step, notes, TypeOK
  <2>4. ASSUME NEW b \in Callers \ {c} PROVE B(b)
    BY <2>1, <2>2, <2>3, BindingKept DEF HasFile
  <2>5. identity'[c] \in {identity[c], Dev(c), Zeroed}
    BY <1>2, DataFromDevice DEF NvmeIdentify, Inquire, Probe, SataIdentify, notes, TypeOK
  <2>6. HasFile(c)' => opened'[c] = opened[c]
    BY <2>1 DEF Step
  <2>7. B(c)
    BY <2>1, <2>5, <2>6 DEF Bound, Dev, File
  <2>8. QED
    BY <2>4, <2>7 DEF Bound
<1>3. CASE CloseOnError(c)
  <2>1. HasFile(c) /\ ~HasFile(c)'
    BY <1>3 DEF CloseOnError, DriverFails, HasFile, TypeOK
  <2>2. \A b \in Callers \ {c} : step'[b] = step[b] /\ opened'[b] = opened[b]
    BY <1>3, OwnStep DEF CloseOnError, Step
  <2>3. \A b \in Callers \ {c} : HasFile(b) => fds'[fd[b]] = fds[fd[b]]
    BY <1>3, <2>1 DEF CloseOnError, FdsAccounted, TypeOK
  <2>4. ASSUME NEW b \in Callers \ {c} PROVE B(b)
    BY <1>3, <2>2, <2>3, BindingKept DEF HasFile, CloseOnError, notes
  <2>5. QED
    BY <2>1, <2>4 DEF Bound
<1>4. QED
  BY <1>1, <1>2, <1>3 DEF Step, Opening

\* Closing one handle leaves the others bound.
LEMMA CloseBinds ==
  ASSUME SessionTypeOK, FdsAccounted, Bound, NEW c \in Callers, CloseHandle(c)
  PROVE  Bound'
<1> USE DEF SessionTypeOK
<1>1. HasFile(c) /\ ~HasFile(c)'
  BY DEF CloseHandle, Close, AfterClose, GoTo, HasFile, TypeOK
<1>2. \A b \in Callers \ {c} : step'[b] = step[b] /\ opened'[b] = opened[b]
  BY OwnStep DEF CloseHandle, Close, AfterClose, Steps
<1>3. \A b \in Callers \ {c} : HasFile(b) => fds'[fd[b]] = fds[fd[b]]
  BY <1>1 DEF CloseHandle, Close, FdsAccounted, TypeOK
<1>4. ASSUME NEW b \in Callers \ {c}
      PROVE  HasFile(b)' => Dev(b)' = opened'[b] /\ identity'[b] \in {opened'[b], Zeroed}
  BY <1>2, <1>3, BindingKept DEF HasFile, CloseHandle, Close, notes
<1>5. QED
  BY <1>1, <1>4 DEF Bound

\* A device that is exchanged takes no handle with it to the next device.
LEMMA ExchangeBinds ==
  ASSUME SessionTypeOK, FdsAccounted, Bound, NEW p \in Paths, Exchange(p)
  PROVE  Bound'
<1>1. UNCHANGED <<step, fd, opened, identity>>
  BY DEF Exchange, Replace
<1>2. \A f \in FDs : fds[f] # NoFile => fds'[f].dev = fds[f].dev
  <2>1. \A f \in FDs : fds[f] # NoFile => [fds[f] EXCEPT !.live = FALSE].dev = fds[f].dev
    BY DEF SessionTypeOK, TypeOK, Files
  <2>2. QED
    BY <2>1 DEF Exchange, Replace
<1>3. \A b \in Callers : fd[b] \in FDs /\ (HasFile(b)' <=> HasFile(b))
  BY <1>1 DEF SessionTypeOK, TypeOK, HasFile
<1>4. QED
  BY <1>1, <1>2, <1>3 DEF Bound, Dev, File, FdsAccounted

-----------------------------------------------------------------------------

\* SessionInv is inductive.
LEMMA SessionInvInit == SessionInit => SessionInv
<1>1. SessionInit => SessionTypeOK
  BY InitTypes, SessionAssumption DEF SessionInit, SessionTypeOK
<1>2. SessionInit => FdsAccounted /\ Bound
  BY InitFiles DEF SessionInit, Bound, Init, HasFile
<1>3. QED
  BY <1>1, <1>2 DEF SessionInv, SessionInit, OwnAnswers

LEMMA SessionInvStep ==
  ASSUME SessionInv, [SessionNext]_sessionVars
  PROVE  SessionInv'
<1>0. SessionTypeOK'
  BY SessionTypes DEF SessionInv
<1> USE DEF SessionInv, SessionTypeOK
<1>1. ASSUME NEW c \in Callers, Begin(c) PROVE SessionInv'
  <2>1. misuses = 0 => FdsAccounted'
    BY <1>1, OpeningSteps, StepFiles
  <2>2. \A b \in Callers : HasFile(b)' <=> HasFile(b)
    BY <1>1 DEF Begin, Start, HasFile, TypeOK
  <2>3. misuses = 0 => Bound'
    BY <1>1, <2>2 DEF Begin, Start, Bound, Dev, File, notes
  <2>4. QED
    BY <1>0, <1>1, <2>1, <2>3 DEF Begin, OwnAnswers
<1>2. ASSUME NEW c \in Callers, Step(c) PROVE SessionInv'
  BY <1>0, <1>2, OpeningSteps, StepFiles, StepBinds DEF Step, OwnAnswers
<1>3. ASSUME NEW c \in Callers, CloseHandle(c) PROVE SessionInv'
  BY <1>0, <1>3, OpeningSteps, StepFiles, CloseBinds DEF CloseHandle, OwnAnswers
<1>4. ASSUME NEW p \in Paths, Exchange(p) PROVE SessionInv'
  BY <1>0, <1>4, OpeningSteps, StepFiles, ExchangeBinds DEF Exchange, OwnAnswers
<1>5. ASSUME NEW c \in Callers, ReadSata(c) \/ ReadNvme(c) PROVE SessionInv'
  <2>1. UNCHANGED <<fds, fd, path, step, opened, identity, misuses>>
    BY <1>5 DEF ReadSata, ReadNvme, vars, call
  <2>2. misuses = 0 => FdsAccounted' /\ Bound'
    BY <2>1 DEF FdsAccounted, Bound, HasFile, Dev, File
  <2>3. HasFile(c) /\ heard' \in {NothingHeard, Hearing(c)}
    BY <1>5 DEF ReadSata, ReadNvme, HasFile
  <2>4. OwnAnswers'
    <3>1. SUFFICES ASSUME misuses = 0, heard' = Hearing(c)
                   PROVE  heard'.from = heard'.opened /\ heard'.identity \in {heard'.from, Zeroed}
      BY <2>1, <2>3 DEF OwnAnswers
    <3>2. Dev(c) = opened[c] /\ identity[c] \in {opened[c], Zeroed}
      BY <2>3, <3>1 DEF Bound
    <3>3. QED
      BY <3>1, <3>2 DEF Hearing
  <2>5. QED
    BY <1>0, <2>1, <2>2, <2>4
<1>6. ASSUME NEW c \in Callers, CloseAgain(c) PROVE SessionInv'
  <2>1. misuses' # 0
    BY <1>6, SessionAssumption DEF CloseAgain
  <2>2. QED
    BY <1>0, <2>1 DEF OwnAnswers
<1>7. CASE UNCHANGED sessionVars
  BY <1>0, <1>7, StepFiles
    DEF sessionVars, vars, Bound, Dev, File, HasFile, OwnAnswers, FdsAccounted
<1>8. QED
  BY <1>1, <1>2, <1>3, <1>4, <1>5, <1>6, <1>7 DEF SessionNext

\* Callers that close each handle once always hear from the device they have
\* opened, and see its attributes under its own names.
THEOREM SessionsAreSound == SessionSpec => [](SessionTypeOK /\ OwnAnswers)
<1>1. SessionInv => SessionTypeOK /\ OwnAnswers
  BY DEF SessionInv
<1>2. QED
  BY <1>1, SessionInvInit, SessionInvStep, PTL DEF SessionSpec

\* The errors of failed calls stay explained when handles are in use and even
\* when they are closed twice: descriptors are confused then, errors are not.
THEOREM SessionErrorsExplained == SessionSpec => []FailureExplained
<1>1. SessionInit => SessionTypeOK /\ Explains
  BY SessionInvInit, ErrorsHold DEF SessionInit, SessionInv
<1>2. SessionTypeOK /\ Explains /\ [SessionNext]_sessionVars => (SessionTypeOK /\ Explains)'
  <2> SUFFICES ASSUME SessionTypeOK, Explains, [SessionNext]_sessionVars PROVE Explains'
    BY SessionTypes
  <2>1. CASE \E c \in Callers : ReadNvme(c) \/ CloseAgain(c)
    BY <2>1, ErrorsUntouched DEF ReadNvme, CloseAgain, call
  <2>2. CASE [Next]_vars
    BY <2>2, ErrorsHold DEF SessionTypeOK
  <2>3. QED
    BY <2>1, <2>2, OpeningSteps DEF SessionNext, sessionVars
<1>3. Explains => FailureExplained
  BY DEF Explains
<1>4. QED
  BY <1>1, <1>2, <1>3, PTL DEF SessionSpec

-----------------------------------------------------------------------------
(* Handles in use implement DeviceHandle.  A step of DeviceOpen does so by  *)
(* its own proof; the others do not touch what a handle stands for, unless  *)
(* a number is closed that is another's by now.                             *)

HandleInv ==
  /\ SessionTypeOK
  /\ misuses = 0 => OpenInv

\* A command on a handle, which may wedge the path of a bridge, leaves the calls,
\* the descriptors and the devices alone.
LEMMA ReadKeeps ==
  ASSUME OpenInv, NEW c \in Callers, ReadNvme(c), TypeOK'
  PROVE  OpenInv' /\ UNCHANGED Handle!vars
<1>1. UNCHANGED <<faulty, at, entry, path, fds, driver, step, fd, errs, seen>>
  BY DEF ReadNvme, world, call
<1>2. FdsAccounted'
  BY <1>1 DEF OpenInv, FdsAccounted, HasFile, File
<1>3. Explains'
  BY <1>1, ErrorsUntouched DEF OpenInv
<1>4. \A b \in Callers : Fits(b)'
  BY <1>1 DEF OpenInv, Fits, Passes, Running, HasFile, Dev, File
<1>5. OpenInv'
  BY <1>2, <1>3, <1>4 DEF OpenInv
<1>6. Calls' = Calls /\ Handles' = Handles
  BY <1>1 DEF Calls, Handles, CallOf, HandleOf, Dev, File
<1>7. QED
  BY <1>1, <1>5, <1>6, Zenon DEF Handle!vars, Calls, Handles, CallOf, HandleOf

\* HandleInv is inductive, and what it says makes every step before a misuse one of
\* DeviceHandle.
LEMMA SessionStepMapped ==
  ASSUME HandleInv, [SessionNext]_sessionVars
  PROVE  /\ HandleInv'
         /\ misuses' = 0 => [Handle!Next]_(Handle!vars)
<1>1. SessionTypeOK'
  BY SessionTypes DEF HandleInv
<1> SUFFICES ASSUME misuses' = 0 PROVE OpenInv' /\ [Handle!Next]_(Handle!vars)
  BY <1>1 DEF HandleInv
<1>2. ASSUME OpenInv, [Next]_vars PROVE OpenInv' /\ [Handle!Next]_(Handle!vars)
  BY <1>2, OpenInvHolds, StepMapped
<1>3. ASSUME NEW c \in Callers, Begin(c) \/ Step(c) \/ CloseHandle(c) \/ ReadSata(c)
      PROVE  OpenInv' /\ [Handle!Next]_(Handle!vars)
  <2>1. misuses' = misuses
    BY <1>3 DEF Begin, Step, CloseHandle, ReadSata
  <2>2. QED
    BY <1>2, <1>3, <2>1, OpeningSteps DEF HandleInv
<1>4. ASSUME NEW p \in Paths, Exchange(p) PROVE OpenInv' /\ [Handle!Next]_(Handle!vars)
  <2>1. misuses' = misuses
    BY <1>4 DEF Exchange
  <2>2. QED
    BY <1>2, <1>4, <2>1, OpeningSteps DEF HandleInv
<1>5. ASSUME NEW c \in Callers, ReadNvme(c) PROVE OpenInv' /\ [Handle!Next]_(Handle!vars)
  <2>1. misuses' = misuses
    BY <1>5 DEF ReadNvme
  <2>2. QED
    BY <1>1, <1>5, <2>1, ReadKeeps DEF HandleInv, SessionTypeOK
<1>6. ASSUME NEW c \in Callers, CloseAgain(c) PROVE FALSE
  BY <1>6, SessionAssumption DEF CloseAgain, HandleInv, SessionTypeOK
<1>7. CASE UNCHANGED sessionVars
  <2>1. misuses' = misuses /\ UNCHANGED vars
    BY <1>7 DEF sessionVars
  <2>2. QED
    BY <1>2, <2>1 DEF HandleInv
<1>8. QED
  BY <1>3, <1>4, <1>5, <1>6, <1>7 DEF SessionNext

\* Until a handle is closed twice, handles in use implement DeviceHandle: whatever is
\* read on them, whatever is exchanged and whatever numbers closed handles keep, each
\* stays bound to one device that was behind its path during the call and that its
\* driver serves, from Open to Close.
THEOREM SessionsKeepHandles == SessionSpec => SessionsImplementHandle
<1>1. SessionInit => Handle!Init
  <2>1. Init => Handle!Init
    BY InitTypes DEF Init, Handle!Init, Handle!NoHandle, TypeOK
  <2>2. QED
    BY <2>1 DEF SessionInit
<1>2. SessionInit => HandleInv
  BY SessionInvInit, OpenInvHolds DEF SessionInit, SessionInv, HandleInv
<1>3. HandleInv /\ [SessionNext]_sessionVars
        => HandleInv' /\ [misuses' = 0 => Handle!Next \/ UNCHANGED Handle!vars]_sessionVars
  BY SessionStepMapped
<1>4. QED
  BY <1>1, <1>2, <1>3, PTL DEF SessionSpec, SessionsImplementHandle
=============================================================================
