---------------------------- MODULE PowerCommands ----------------------------
(***************************************************************************)
(* The power management methods of SataDevice (src/sata_power_linux.go) as *)
(* far as the command they build: Command(request) is the 16-byte CDB sent *)
(* for a call, or a refusal when the call returns an error before sending  *)
(* anything.                                                               *)
(*                                                                         *)
(* A request is [op, arg]: the method and its argument, 0 if it has none.  *)
(*                                                                         *)
(* A definition Name_Mistake is a mutant of Name: the same operator with a *)
(* plausible bug, put in its place to see that a property notices.  So it  *)
(* is in every module.                                                     *)
(***************************************************************************)
EXTENDS SpinDownTimeout

\* ATA command codes.
CheckPowerModeCode   == 229   \* e5h
StandbyImmediateCode == 224   \* e0h
IdleImmediateCode    == 225   \* e1h
StandbyCode          == 226   \* e2h
IdleCode             == 227   \* e3h
SleepCode            == 230   \* e6h
SetFeaturesCode      == 239   \* efh

\* SET FEATURES subcommands, and the feature and LBA of IDLE with Unload.
EnableApm  == 5
DisableApm == 133   \* 85h
Epc        == 74    \* 4ah
Unload     == [feature |-> 68, low |-> 76, mid |-> 78, high |-> 85]   \* 44h, 55_4e4ch

\* AtaPowerMode values.
Standby      == 0
StandbyY     == 1
Idle         == 128
IdleA        == 129
IdleB        == 130
IdleC        == 131
ActiveOrIdle == 255

Refused   == [ok |-> FALSE]
Send(cdb) == [ok |-> TRUE, cdb |-> cdb]

\* ATA PASS-THROUGH(16), protocol non-data, CK_COND = 1; cdb[i] is Go's.
ataNonDataCdb(cmd) ==
  [i \in 0..15 |-> CASE i = 0 -> 133 [] i = 1 -> 6 [] i = 2 -> 32 [] i = 14 -> cmd [] OTHER -> 0]

\* The power condition ID of a mode only the EPC feature set knows.
powerConditionForMode(m) ==
  CASE m = StandbyY -> 1
    [] m = IdleA    -> 129
    [] m = IdleB    -> 130
    [] m = IdleC    -> 131
HasPowerCondition(m) == m \in {StandbyY, IdleA, IdleB, IdleC}

setPowerCondition(cond) ==
  Send([ataNonDataCdb(SetFeaturesCode) EXCEPT ![4] = Epc, ![6] = cond])

SetPowerMode(mode) ==
  IF mode = Idle THEN Send(ataNonDataCdb(IdleImmediateCode))
  ELSE IF mode = Standby THEN Send(ataNonDataCdb(StandbyImmediateCode))
  ELSE IF HasPowerCondition(mode) THEN setPowerCondition(powerConditionForMode(mode))
  ELSE Refused

setSpinDownTimer(count) == Send([ataNonDataCdb(StandbyCode) EXCEPT ![6] = count])
setIdleTimerRaw(count)  == Send([ataNonDataCdb(IdleCode) EXCEPT ![6] = count])

SetStandbyTimer(timeout) ==
  LET count == encodeAtaSpinDownTimeout(timeout)
  IN  IF count.ok THEN setSpinDownTimer(count.code) ELSE Refused

SetIdleTimer(timeout) ==
  LET count == encodeAtaSpinDownTimeout(timeout)
  IN  IF count.ok THEN setIdleTimerRaw(count.code) ELSE Refused

SetAPMLevel_NoUpperBound(level) ==
  IF level < 1 THEN Refused
  ELSE Send([ataNonDataCdb(SetFeaturesCode) EXCEPT ![4] = EnableApm, ![6] = level])
SetAPMLevel(level) ==
  IF level < 1 \/ level > 254 THEN Refused
  ELSE Send([ataNonDataCdb(SetFeaturesCode) EXCEPT ![4] = EnableApm, ![6] = level])

DisableAPM == Send([ataNonDataCdb(SetFeaturesCode) EXCEPT ![4] = DisableApm])

IdleUnload ==
  Send([ataNonDataCdb(IdleImmediateCode) EXCEPT
          ![4] = Unload.feature, ![7] = Unload.low, ![9] = Unload.mid, ![11] = Unload.high])

Command(r) ==
  CASE r.op = "CheckPowerMode"     -> Send(ataNonDataCdb(CheckPowerModeCode))
    [] r.op = "Standby"            -> Send(ataNonDataCdb(StandbyImmediateCode))
    [] r.op = "Idle"               -> Send(ataNonDataCdb(IdleImmediateCode))
    [] r.op = "Sleep"              -> Send(ataNonDataCdb(SleepCode))
    [] r.op = "IdleUnload"         -> IdleUnload
    [] r.op = "SetPowerMode"       -> SetPowerMode(r.arg)
    [] r.op = "SetStandbyTimer"    -> SetStandbyTimer(r.arg)
    [] r.op = "SetStandbyTimerRaw" -> setSpinDownTimer(r.arg)
    [] r.op = "SetIdleTimer"       -> SetIdleTimer(r.arg)
    [] r.op = "SetIdleTimerRaw"    -> setIdleTimerRaw(r.arg)
    [] r.op = "SetAPMLevel"        -> SetAPMLevel(r.arg)
    [] r.op = "DisableAPM"         -> DisableAPM
=============================================================================
