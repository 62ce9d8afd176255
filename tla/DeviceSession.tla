---------------------------- MODULE DeviceSession ----------------------------
(***************************************************************************)
(* Handles in use: opening and closing (DeviceOpen) together with the      *)
(* commands that callers send on the handles they hold, and with callers   *)
(* that close a handle twice (an explicit Close before the deferred one).  *)
(* A handle is no more than a descriptor number and, for SATA, the mapping *)
(* of attributes that OpenSata looked up; the process may give the number  *)
(* to another file as soon as the handle is closed.                        *)
(***************************************************************************)
EXTENDS DeviceOpen

CONSTANT MaxMisuses        \* bound on handles closed twice

ASSUME SessionAssumption == MaxMisuses \in Nat

VARIABLES opened,     \* the device each caller's descriptor was opened on
          stale,      \* the numbers in handles that were closed
          misuses,    \* how often one of those was closed again
          heard       \* the SMART data the last step has returned

sessionVars == <<vars, opened, stale, misuses, heard>>

NothingHeard == <<>>
Hearings == [driver : {"nvme", "sata"}, opened : Devices \cup {NoFile}, from : Devices,
             identity : Devices \cup {Zeroed}]

Hearing(c) == [driver |-> driver[c], opened |-> opened[c], from |-> Dev(c),
               identity |-> identity[c]]

-----------------------------------------------------------------------------

SessionInit ==
  /\ Init
  /\ opened = [c \in Callers |-> NoFile]
  /\ stale = [c \in Callers |-> {}]
  /\ misuses = 0
  /\ heard = NothingHeard

\* The steps of DeviceOpen return no SMART data.
Begin(c) == Start(c) /\ heard' = NothingHeard /\ UNCHANGED <<opened, stale, misuses>>

Step(c) ==
  /\ Opening(c)
  /\ opened' = [opened EXCEPT ![c] = IF ~HasFile(c)' THEN NoFile
                                     ELSE IF step[c] = "open" THEN at[path[c]] ELSE @]
  /\ heard' = NothingHeard
  /\ UNCHANGED <<stale, misuses>>

\* Close, after which the caller still has the handle.
CloseHandle(c) ==
  /\ Close(c)
  /\ stale' = [stale EXCEPT ![c] = {fd[c]}]
  /\ opened' = [opened EXCEPT ![c] = NoFile]
  /\ heard' = NothingHeard
  /\ UNCHANGED misuses

Exchange(p) == Replace(p) /\ heard' = NothingHeard /\ UNCHANGED <<opened, stale, misuses>>

\* ReadSMARTData of a SATA handle: a table, or an error.
ReadSata(c) ==
  /\ step[c] = "held" /\ driver[c] = "sata"
  /\ \E r \in AtaData(c) :
       heard' = IF ScsiSendCdb(r) \/ r.data = Zeroed THEN NothingHeard ELSE Hearing(c)
  /\ UNCHANGED <<vars, opened, stale, misuses>>

\* ReadSMART of an NVMe handle; a USB bridge does not survive that either.
ReadNvme(c) ==
  /\ step[c] = "held" /\ driver[c] = "nvme"
  /\ \/ /\ AnswersNvme(c)
        /\ heard' = Hearing(c)
     \/ /\ faulty # {} \/ ~AnswersNvme(c)
        /\ heard' = NothingHeard
  /\ wedged' = Wedging(c)
  /\ UNCHANGED <<world, call, fds, driver, step, fd, errs, identity, seen, opened, stale, misuses>>

\* Close of a handle that is closed: its number may be anybody's by now.
CloseAgain(c) ==
  /\ misuses < MaxMisuses
  /\ \E f \in stale[c] : fds' = [fds EXCEPT ![f] = NoFile]
  /\ stale' = [stale EXCEPT ![c] = {}]
  /\ misuses' = misuses + 1
  /\ heard' = NothingHeard
  /\ UNCHANGED <<world, call, driver, step, fd, errs, notes, seen, opened>>

SessionNext ==
  \/ \E c \in Callers : \/ Begin(c) \/ Step(c) \/ CloseHandle(c)
                        \/ ReadSata(c) \/ ReadNvme(c) \/ CloseAgain(c)
  \/ \E p \in Paths : Exchange(p)

SessionSpec == SessionInit /\ [][SessionNext]_sessionVars

\* As in DeviceOpen: calls that have begun go on.
FairSessionSpec == SessionSpec /\ \A c \in Callers : WF_sessionVars(Step(c))

-----------------------------------------------------------------------------
(* Properties.                                                             *)

\* The variables keep their types, whatever callers do.
SessionTypeOK ==
  /\ TypeOK
  /\ opened \in [Callers -> Devices \cup {NoFile}]
  /\ stale \in [Callers -> SUBSET FDs]
  /\ misuses \in 0..MaxMisuses
  /\ heard \in {NothingHeard} \cup Hearings

\* As long as no handle has been closed twice, what a handle returns is what the
\* device it was opened on says, read with the attribute names of that device:
\* however descriptor numbers are reused and devices exchanged.  The names are
\* those of a drive without a name where IDENTIFY was not answered (see
\* SataAnsweredIdentify).
OwnAnswers ==
  misuses = 0 /\ heard # NothingHeard =>
    /\ heard.from = heard.opened
    /\ heard.driver = "sata" => heard.identity \in {heard.from, Zeroed}

\* As long as no handle has been closed twice, handles in use are what DeviceHandle
\* promises: no command that is sent on one, and no descriptor number that a closed
\* handle keeps, binds a handle to another device or ends its life before Close.
SessionsImplementHandle ==
  /\ Handle!Init
  /\ [][misuses' = 0 => Handle!Next \/ UNCHANGED Handle!vars]_sessionVars
=============================================================================
