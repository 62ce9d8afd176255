------------------------------ MODULE SataPower ------------------------------
(***************************************************************************)
(* Power management of a SATA drive: callers (goroutines, or programs with *)
(* handles of their own) run the methods of src/sata_power_linux.go on one *)
(* drive, which meanwhile serves I/O, spins down by its Standby timer and  *)
(* is reset.                                                               *)
(*                                                                         *)
(* A method builds a CDB, sends it with SG_IO and decodes the sense data.  *)
(* The drive executes the command at one moment of the ioctl; by the time  *)
(* the method returns its state may be another.  The transport may lose    *)
(* the command or only its report.                                         *)
(***************************************************************************)
EXTENDS AtaDrive

CONSTANTS Callers,
          Workloads,  \* what each caller may ask for, one of these functions:
                      \* requests are [op, arg]
          SatLayers   \* the SAT layers the drive may be behind

\* The methods and the types of their arguments: none, a duration, or a byte.
Requests ==
  [op : {"CheckPowerMode", "Standby", "Idle", "Sleep", "IdleUnload", "DisableAPM"}, arg : {0}]
    \cup [op : {"SetStandbyTimer", "SetIdleTimer"}, arg : Int]
    \cup [op : {"SetStandbyTimerRaw", "SetIdleTimerRaw", "SetAPMLevel", "SetPowerMode"}, arg : Byte]

ASSUME PowerAssumption ==
  /\ SatLayers \subseteq Layers
  /\ \A w \in Workloads : DOMAIN w = Callers /\ \A c \in Callers : w[c] \subseteq Requests

VARIABLES workload, \* what each caller asks for
          faulty,   \* whether SG_IO may fail at any time
          drive,    \* the drive, see AtaDrive
          layer,    \* the SAT layer in front of it
          pc,       \* where each caller is: "idle", "ioctl" or "replied"
          request,  \* its request
          reply,    \* what SG_IO has returned to it
          result,   \* what its last call returned
          earned    \* what the call may return, by what the drive did for it

vars == <<workload, faulty, drive, layer, pc, request, reply, result, earned>>
environment == <<workload, faulty, layer>>

NoRequest == [op |-> "none", arg |-> 0]
Nil       == [ok |-> TRUE]                   \* a setter's nil error
Mode(m)   == [ok |-> TRUE, mode |-> m]       \* an answer of CheckPowerMode

\* What a setter asks for, in terms of the drive: the documentation of the
\* method, not its code.
IsSpinning(d) == d.mode \in {Idle, IdleA}

Reached(r, d) ==
  CASE r.op = "Standby"            -> d.mode = Standby
    [] r.op = "Idle"               -> IsSpinning(d)
    [] r.op = "Sleep"              -> d.mode = Asleep
    [] r.op = "IdleUnload"         -> IsSpinning(d) /\ d.unloaded
    [] r.op = "SetPowerMode"       -> d.mode = r.arg \/ (r.arg = Idle /\ IsSpinning(d))
    [] r.op = "SetStandbyTimer"    -> d.mode = Standby
                                        /\ decodeAtaSpinDownTimeout(d.timer) = r.arg
    [] r.op = "SetStandbyTimerRaw" -> d.mode = Standby /\ d.timer = r.arg
    [] r.op = "SetIdleTimer"       -> IsSpinning(d)
                                        /\ decodeAtaSpinDownTimeout(d.timer) = r.arg
    [] r.op = "SetIdleTimerRaw"    -> IsSpinning(d) /\ d.timer = r.arg
    [] r.op = "SetAPMLevel"        -> d.apm = r.arg /\ ~d.epc
    [] r.op = "DisableAPM"         -> d.apm = 0

Earned(r, e) ==
  IF ~e.ok THEN Failed
  ELSE IF r.op = "CheckPowerMode" THEN Mode(e.drive.mode)
  ELSE IF Reached(r, e.drive) THEN Nil ELSE Failed

\* How a method answers: ataPowerModeFromSense, or ataSenseStatus without the
\* registers it returns.
Decoded_IgnoresStatus(r, sense) ==
  IF r.op = "CheckPowerMode" THEN ataPowerModeFromSense(sense) ELSE Nil

Decoded(r, sense) ==
  IF r.op = "CheckPowerMode" THEN ataPowerModeFromSense(sense)
  ELSE IF ataSenseStatus(sense).ok THEN Nil ELSE Failed

-----------------------------------------------------------------------------

NewDrive(epc) ==
  [mode |-> ActiveOrIdle, epc |-> epc, apm |-> 0, timer |-> 0, unloaded |-> FALSE]

Init ==
  /\ workload \in Workloads
  /\ faulty \in BOOLEAN
  /\ drive \in {NewDrive(epc) : epc \in BOOLEAN}
  /\ layer \in SatLayers
  /\ pc = [c \in Callers |-> "idle"]
  /\ request = [c \in Callers |-> NoRequest]
  /\ reply = [c \in Callers |-> Errno]
  /\ result = [c \in Callers |-> Failed]
  /\ earned = [c \in Callers |-> Failed]

\* A method is called: it sends its command, or returns an error at once.
Call(c) ==
  /\ pc[c] = "idle"
  /\ \E r \in workload[c] :
       \/ /\ Command(r).ok
          /\ pc' = [pc EXCEPT ![c] = "ioctl"]
          /\ request' = [request EXCEPT ![c] = r]
          /\ UNCHANGED result
       \/ /\ ~Command(r).ok
          /\ result' = [result EXCEPT ![c] = Failed]
          /\ UNCHANGED <<pc, request>>
  /\ UNCHANGED <<environment, drive, reply, earned>>

Replies(c, r) ==
  /\ reply' = [reply EXCEPT ![c] = r]
  /\ pc' = [pc EXCEPT ![c] = "replied"]

\* The command does not reach the drive: it fails on the way, the drive is
\* asleep, or a bridge rejects commands with CK_COND.
Lose(c) ==
  /\ pc[c] = "ioctl"
  /\ \/ /\ faulty \/ drive.mode = Asleep
        /\ \E r \in Failures : Replies(c, r)
     \/ /\ layer.kind = "rejects" /\ drive.mode # Asleep
        /\ Replies(c, Check(IllegalRequest))
  /\ UNCHANGED <<environment, drive, request, result, earned>>

\* The drive executes the command.  Its report may be lost.
Execute(c) ==
  /\ pc[c] = "ioctl"
  /\ drive.mode # Asleep /\ layer.kind # "rejects"
  /\ LET regs == Registers(Command(request[c]).cdb)
         e    == Execution(drive, regs)
     IN  /\ drive' = e.drive
         /\ earned' = [earned EXCEPT ![c] = Earned(request[c], e)]
         /\ \E r \in {Answer(layer, regs, e)} \cup IF faulty THEN Failures ELSE {} : Replies(c, r)
  /\ UNCHANGED <<environment, request, result>>

\* SG_IO returns and the method decodes what it got.
Receive(c) ==
  /\ pc[c] = "replied"
  /\ LET got == ScsiSendCdbSense(reply[c])
     IN  result' = [result EXCEPT ![c] = IF got.err THEN Failed ELSE Decoded(request[c], got.sense)]
  /\ pc' = [pc EXCEPT ![c] = "idle"]
  /\ request' = [request EXCEPT ![c] = NoRequest]
  /\ reply' = [reply EXCEPT ![c] = Errno]
  /\ earned' = [earned EXCEPT ![c] = Failed]
  /\ UNCHANGED <<environment, drive>>

\* Read or write of the medium.
MediaAccess ==
  /\ drive.mode # Asleep
  /\ drive' = [drive EXCEPT !.mode = ActiveOrIdle, !.unloaded = FALSE]
  /\ UNCHANGED <<environment, pc, request, reply, result, earned>>

\* The Standby timer runs out; a Standby timer of 0 is off.
SpinDown ==
  /\ drive.timer # 0 /\ drive.mode \notin {Asleep, Standby}
  /\ drive' = [drive EXCEPT !.mode = Standby]
  /\ UNCHANGED <<environment, pc, request, reply, result, earned>>

\* A reset: the only way out of sleep.
Reset ==
  /\ drive' = [drive EXCEPT !.mode = ActiveOrIdle, !.unloaded = FALSE]
  /\ drive' # drive
  /\ UNCHANGED <<environment, pc, request, reply, result, earned>>

Next ==
  \/ \E c \in Callers : Call(c) \/ Lose(c) \/ Execute(c) \/ Receive(c)
  \/ MediaAccess
  \/ SpinDown
  \/ Reset

Spec == Init /\ [][Next]_vars

-----------------------------------------------------------------------------
(* Properties.                                                             *)

\* The variables keep their types.
TypeOK ==
  /\ workload \in Workloads
  /\ faulty \in BOOLEAN
  /\ drive \in Drives
  /\ layer \in Layers
  /\ pc \in [Callers -> {"idle", "ioctl", "replied"}]
  /\ \A c \in Callers : request[c] \in workload[c] \cup {NoRequest}
  /\ \A c \in Callers : {result[c], earned[c]} \subseteq {Failed, Nil} \cup {Mode(m) : m \in PowerModes}

Returns(c) == pc[c] = "replied" /\ pc'[c] = "idle"

\* CheckPowerMode never invents a mode: the one it returns is the mode the
\* drive was in at the moment of the call when it executed the command, however
\* the calls of others, I/O and timers interleave and whatever the report's form.
ReportedModeWasHeld ==
  [][\A c \in Callers :
       Returns(c) /\ request[c].op = "CheckPowerMode" /\ result'[c].ok
         => result'[c] = earned[c]]_vars

\* "all of them return an error if the drive rejects the command" (README.md),
\* and if it never saw it: a setter returns nil only when the drive has
\* executed its command during the call and was then in the state asked for.
NilMeansDone ==
  [][\A c \in Callers :
       Returns(c) /\ request[c].op # "CheckPowerMode" /\ result'[c].ok
         => earned[c] = Nil]_vars

\* With a SAT layer that reports and a transport that works, an answer the
\* call has earned is never turned into an error.
NoFalseAlarm ==
  [][~faulty /\ layer \in Reporting =>
       \A c \in Callers : Returns(c) /\ earned[c].ok => result'[c].ok]_vars

\* Requests the documentation excludes never reach the drive: durations that
\* Table 52 has no code for, APM levels 0 and 255, modes no command selects.
InvalidNeverSent ==
  \A c \in Callers :
    LET r == request[c]
    IN  pc[c] # "idle" =>
          CASE r.op \in {"SetStandbyTimer", "SetIdleTimer"} ->
                 \E v \in 0..251 : decodeAtaSpinDownTimeout(v) = r.arg
            [] r.op = "SetAPMLevel"  -> r.arg \in 1..254
            [] r.op = "SetPowerMode" -> r.arg \in PowerModes \ {ActiveOrIdle}
            [] OTHER                 -> TRUE

-----------------------------------------------------------------------------
(* What documentation and tests say that the code does not do.             *)

\* examples/sata_power_linux_test.go: after SetPowerMode(AtaPowerModeIdleA)
\* returns nil, the drive is in that mode.
SetPowerModeTransitions ==
  [][\A c \in Callers :
       Returns(c) /\ request[c].op = "SetPowerMode" /\ result'[c].ok => earned[c] = Nil]_vars

\* sata_power.go: IDLE IMMEDIATE with Unload has "LBA 055_4E4Ch".
UnloadNamesItsLba ==
  \A c \in Callers :
    pc[c] = "ioctl" /\ request[c].op = "IdleUnload"
      => Registers(Command(request[c]).cdb).lba = UnloadLba
=============================================================================
