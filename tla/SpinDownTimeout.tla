--------------------------- MODULE SpinDownTimeout ---------------------------
(***************************************************************************)
(* The count field of the STANDBY and IDLE commands (ACS-3 Table 52): how  *)
(* src/sata_power.go turns a duration into it and back.                    *)
(*                                                                         *)
(* A duration is a number of milliseconds.  Go's time.Duration counts      *)
(* nanoseconds, but a duration that is no whole number of milliseconds is  *)
(* no multiple of 5 s either, and takes the same path as any other one     *)
(* that is not.                                                            *)
(***************************************************************************)
EXTENDS Integers

Second == 1000
Minute == 60 * Second
Hour   == 60 * Minute

Codes == 0..255

Invalid  == [ok |-> FALSE]
Code(b)  == [ok |-> TRUE, code |-> b % 256]   \* byte(b)

encodeAtaSpinDownTimeout_Rounds(d) ==
  IF d = 0 THEN Code(0)
  ELSE IF d < 0 THEN Invalid
  ELSE IF d <= 20 * Minute THEN Code(d \div (5 * Second))
  ELSE IF d <= 5 * Hour + 30 * Minute /\ d % (30 * Minute) = 0
       THEN Code((d \div (30 * Minute)) + 240)
  ELSE Invalid

encodeAtaSpinDownTimeout(d) ==
  IF d = 0 THEN Code(0)
  ELSE IF d < 0 THEN Invalid
  ELSE IF d <= 20 * Minute /\ d % (5 * Second) = 0 THEN Code(d \div (5 * Second))
  ELSE IF d <= 5 * Hour + 30 * Minute /\ d % (30 * Minute) = 0
       THEN Code((d \div (30 * Minute)) + 240)
  ELSE Invalid

\* 253 is vendor specific and 254 reserved: no duration.
decodeAtaSpinDownTimeout(v) ==
  IF v <= 240 THEN v * 5 * Second
  ELSE IF v <= 251 THEN (v - 240) * 30 * Minute
  ELSE IF v = 252 THEN 21 * Minute
  ELSE IF v = 255 THEN 21 * Minute + 15 * Second
  ELSE 0
=============================================================================
