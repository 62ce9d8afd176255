---------------------------- MODULE SpinDownTimer ----------------------------
(***************************************************************************)
(* One call of SetStandbyTimer or SetIdleTimer up to the command: it asks  *)
(* for a duration and gets a timer value or an error.                      *)
(***************************************************************************)
EXTENDS SpinDownTimeout

CONSTANT Durations

ASSUME DurationsAssumption == Durations \subseteq Int

VARIABLES asked,    \* the duration asked for
          timer,    \* what encoding it gave
          encoded   \* whether it has been encoded yet

timerVars == <<asked, timer, encoded>>

TimerInit == asked \in Durations /\ timer = Invalid /\ encoded = FALSE

Encode ==
  /\ ~encoded /\ encoded' = TRUE
  /\ timer' = encodeAtaSpinDownTimeout(asked)
  /\ UNCHANGED asked

TimerSpec == TimerInit /\ [][Encode]_timerVars

\* Requests are never rounded, and none is refused that could be met: what is sent is a
\* standard code of Table 52 (0 to 251) for the very duration asked for, and an error
\* means that there is none.  So the two ranges of the encoding leave no gap at 20
\* minutes, and no division truncates.
ExactOrRefused ==
  encoded =>
    \/ timer = Invalid /\ \A v \in 0..251 : decodeAtaSpinDownTimeout(v) # asked
    \/ \E v \in 0..251 : timer = Code(v) /\ decodeAtaSpinDownTimeout(v) = asked
=============================================================================
