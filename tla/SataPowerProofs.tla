--------------------------- MODULE SataPowerProofs ---------------------------
(***************************************************************************)
(* The timer encoding is exact for every duration, and what a power method *)
(* that returns an answer, nil or an error, or that sends anything at all, *)
(* vouches for: for any number of callers, any requests and any SAT layer. *)
(***************************************************************************)
EXTENDS SataPower, SpinDownTimer, SenseAnswerProofs

\* encodeAtaSpinDownTimeout with Table 52 written out in milliseconds.
LEMMA EncodeInMilliseconds ==
  ASSUME NEW d \in Int
  PROVE  encodeAtaSpinDownTimeout(d) =
           IF d = 0 THEN Code(0)
           ELSE IF d < 0 THEN Invalid
           ELSE IF d <= 1200000 /\ d % 5000 = 0 THEN Code(d \div 5000)
           ELSE IF d <= 19800000 /\ d % 1800000 = 0 THEN Code((d \div 1800000) + 240)
           ELSE Invalid
<1>1. /\ 5 * Second = 5000 /\ 20 * Minute = 1200000 /\ 30 * Minute = 1800000
      /\ 5 * Hour + 30 * Minute = 19800000
  BY SMT DEF Second, Minute, Hour
<1>2. QED
  BY <1>1, SMT DEF encodeAtaSpinDownTimeout

\* A code that fits a byte is stored as it is.
LEMMA CodeOfByte ==
  ASSUME NEW n \in 0..255
  PROVE  Code(n) = [ok |-> TRUE, code |-> n]
<1>1. n % 256 = n
  BY SMT
<1>2. QED
  BY <1>1 DEF Code

\* A duration is rejected or gets a standard code that decodes to it: nothing is
\* rounded, and the conversion to a byte loses nothing.
LEMMA DecodeOfEncode ==
  ASSUME NEW d \in Int
  PROVE  \/ encodeAtaSpinDownTimeout(d) = Invalid
         \/ \E v \in 0..251 : /\ encodeAtaSpinDownTimeout(d) = [ok |-> TRUE, code |-> v]
                              /\ decodeAtaSpinDownTimeout(v) = d
<1>1. CASE d = 0
  <2>1. encodeAtaSpinDownTimeout(d) = [ok |-> TRUE, code |-> 0]
    <3>1. encodeAtaSpinDownTimeout(d) = Code(0)
      BY <1>1, EncodeInMilliseconds
    <3>2. 0 % 256 = 0
      OBVIOUS
    <3>3. QED
      BY <3>1, <3>2 DEF Code
  <2>2. decodeAtaSpinDownTimeout(0) = d
    BY <1>1, SMT DEF decodeAtaSpinDownTimeout, Second
  <2>3. QED
    BY <2>1, <2>2, SMT
<1>2. CASE d > 0 /\ d <= 1200000 /\ d % 5000 = 0
  <2> DEFINE k == d \div 5000
  <2>1. k \in 1..240 /\ k * 5000 = d
    BY <1>2, SMT
  <2>2. encodeAtaSpinDownTimeout(d) = [ok |-> TRUE, code |-> k]
    <3>1. encodeAtaSpinDownTimeout(d) = Code(k)
      BY <1>2, EncodeInMilliseconds, SMT
    <3>2. k \in 0..255
      BY <2>1, SMT
    <3> HIDE DEF k
    <3>3. QED
      BY <3>1, <3>2, CodeOfByte
  <2>3. decodeAtaSpinDownTimeout(k) = d
    BY <2>1, SMT DEF decodeAtaSpinDownTimeout, Second
  <2>4. k \in 0..251
    BY <2>1, SMT
  <2> HIDE DEF k
  <2>5. QED
    BY <2>2, <2>3, <2>4
<1>3. CASE d > 1200000 /\ d <= 19800000 /\ d % 1800000 = 0
  <2> DEFINE n == d \div 1800000
             k == n + 240
  <2>1. n \in 1..11 /\ n * 1800000 = d
    BY <1>3, SMT
  <2>2. encodeAtaSpinDownTimeout(d) = [ok |-> TRUE, code |-> k]
    <3>1. encodeAtaSpinDownTimeout(d) = Code(k)
      BY <1>3, EncodeInMilliseconds, SMT
    <3>2. k \in 0..255
      BY <2>1, SMT
    <3> HIDE DEF k
    <3>3. QED
      BY <3>1, <3>2, CodeOfByte
  <2>3. decodeAtaSpinDownTimeout(k) = d
    BY <2>1, SMT DEF decodeAtaSpinDownTimeout, Minute, Second
  <2>4. k \in 0..251
    BY <2>1, SMT
  <2> HIDE DEF n, k
  <2>5. QED
    BY <2>2, <2>3, <2>4
<1>4. CASE /\ d # 0
           /\ ~(d > 0 /\ d <= 1200000 /\ d % 5000 = 0)
           /\ ~(d > 1200000 /\ d <= 19800000 /\ d % 1800000 = 0)
  <2>1. d >= 1 /\ d % 1800000 = 0 => d > 1200000
    BY SMT
  <2>2. encodeAtaSpinDownTimeout(d) = Invalid
    BY <1>4, <2>1, EncodeInMilliseconds, SMT
  <2>3. QED
    BY <2>2, SMT
<1>5. QED
  BY <1>1, <1>2, <1>3, <1>4, SMT

\* Every standard code is the code of the duration it stands for.
LEMMA EncodeOfDecode ==
  ASSUME NEW v \in 0..251
  PROVE  encodeAtaSpinDownTimeout(decodeAtaSpinDownTimeout(v)) = Code(v)
<1>1. CASE v \in 0..240
  <2>1. decodeAtaSpinDownTimeout(v) = v * 5000
    BY <1>1, SMT DEF decodeAtaSpinDownTimeout, Second
  <2>2. (v * 5000) % 5000 = 0 /\ (v * 5000) \div 5000 = v
    BY <1>1, SMT
  <2>3. QED
    BY <1>1, <2>1, <2>2, SMT DEF encodeAtaSpinDownTimeout, Second, Minute, Hour
<1>2. CASE v \in 241..251
  <2>1. decodeAtaSpinDownTimeout(v) = (v - 240) * 1800000
    BY <1>2, SMT DEF decodeAtaSpinDownTimeout, Second, Minute
  <2>2. ((v - 240) * 1800000) % 1800000 = 0 /\ ((v - 240) * 1800000) \div 1800000 = v - 240
    BY <1>2, SMT
  <2>3. QED
    BY <1>2, <2>1, <2>2, SMT DEF encodeAtaSpinDownTimeout, Second, Minute, Hour
<1>3. QED
  BY <1>1, <1>2, SMT

\* SetStandbyTimer and SetIdleTimer never round and refuse nothing they could ask for: a
\* timer value is sent just for the durations that have a standard code, and is that code.
THEOREM TimerIsExact == TimerSpec => []ExactOrRefused
<1>1. TimerInit => asked \in Int /\ ExactOrRefused
  BY DurationsAssumption DEF TimerInit, ExactOrRefused
<1>2. asked \in Int /\ ExactOrRefused /\ [Encode]_timerVars => (asked \in Int /\ ExactOrRefused)'
  <2> SUFFICES ASSUME asked \in Int, ExactOrRefused, [Encode]_timerVars
               PROVE  asked' \in Int /\ ExactOrRefused'
    OBVIOUS
  <2>1. CASE Encode
    <3>1. asked' = asked /\ timer' = encodeAtaSpinDownTimeout(asked)
      BY <2>1 DEF Encode
    <3>2. CASE \E v \in 0..251 : timer' = [ok |-> TRUE, code |-> v]
                                 /\ decodeAtaSpinDownTimeout(v) = asked
      <4>1. \A v \in 0..251 : Code(v) = [ok |-> TRUE, code |-> v]
        BY CodeOfByte
      <4>2. QED
        BY <3>1, <3>2, <4>1 DEF ExactOrRefused
    <3>3. CASE timer' = Invalid
      <4>1. ASSUME NEW v \in 0..251, decodeAtaSpinDownTimeout(v) = asked PROVE FALSE
        <5>1. timer' = Code(v)
          BY <3>1, <4>1, EncodeOfDecode
        <5>2. Code(v) # Invalid
          <6>1. Code(v).ok = TRUE
            BY DEF Code
          <6>2. Invalid.ok = FALSE
            BY DEF Invalid
          <6>3. QED
            BY <6>1, <6>2
        <5>3. QED
          BY <3>3, <5>1, <5>2
      <4>2. QED
        BY <3>1, <3>3, <4>1 DEF ExactOrRefused
    <3>4. QED
      BY <3>1, <3>2, <3>3, DecodeOfEncode
  <2>2. CASE UNCHANGED timerVars
    BY <2>2 DEF timerVars, ExactOrRefused
  <2>3. QED
    BY <2>1, <2>2
<1>3. QED
  BY <1>1, <1>2, PTL DEF TimerSpec

-----------------------------------------------------------------------------

\* The modes that SetPowerMode cannot select: see SetPowerModeTransitions.
EpcModes == {StandbyY, IdleA, IdleB, IdleC}

-----------------------------------------------------------------------------
(* The commands, as the registers that the drive finds in them.            *)

Regs(cmd, feature, count) == [cmd |-> cmd, feature |-> feature, count |-> count, lba |-> 0]

LEMMA NonData ==
  ASSUME NEW cmd \in Int
  PROVE  Registers(ataNonDataCdb(cmd)) = Regs(cmd, 0, 0)
BY DEF Registers, ataNonDataCdb, Regs

LEMMA NonDataCount ==
  ASSUME NEW cmd \in Int, NEW count
  PROVE  Registers([ataNonDataCdb(cmd) EXCEPT ![6] = count]) = Regs(cmd, 0, count)
BY DEF Registers, ataNonDataCdb, Regs

LEMMA NonDataFeature ==
  ASSUME NEW cmd \in Int, NEW feature
  PROVE  Registers([ataNonDataCdb(cmd) EXCEPT ![4] = feature]) = Regs(cmd, feature, 0)
BY DEF Registers, ataNonDataCdb, Regs

LEMMA NonDataBoth ==
  ASSUME NEW cmd \in Int, NEW feature, NEW count
  PROVE  Registers([ataNonDataCdb(cmd) EXCEPT ![4] = feature, ![6] = count])
           = Regs(cmd, feature, count)
<1> DEFINE a == ataNonDataCdb(cmd)
           b == [a EXCEPT ![4] = feature, ![6] = count]
<1>1. a = [i \in 0..15 |-> CASE i = 0 -> 133 [] i = 1 -> 6 [] i = 2 -> 32 [] i = 14 -> cmd [] OTHER -> 0]
  BY DEF ataNonDataCdb
<1>2. DOMAIN a = 0..15 /\ a[14] = cmd /\ a[8] = 0 /\ a[10] = 0 /\ a[12] = 0
  BY <1>1
<1> HIDE DEF a
<1>3. b[4] = feature /\ b[6] = count /\ \A i \in {8, 10, 12, 14} : b[i] = a[i]
  BY <1>2
<1> HIDE DEF b
<1>4. Registers(b) = Regs(cmd, feature, count)
  BY <1>2, <1>3 DEF Registers, Regs
<1>5. QED
  BY <1>4 DEF a, b

\* IdleUnload puts the LBA where a 28-bit command has none.
LEMMA UnloadRegisters == Registers(IdleUnload.cdb) = Regs(225, 68, 0)
<1> DEFINE a == ataNonDataCdb(225)
           b == [a EXCEPT ![4] = 68, ![7] = 76, ![9] = 78, ![11] = 85]
<1>1. a = [i \in 0..15 |-> CASE i = 0 -> 133 [] i = 1 -> 6 [] i = 2 -> 32 [] i = 14 -> 225 [] OTHER -> 0]
  BY DEF ataNonDataCdb
<1>2. DOMAIN a = 0..15 /\ a[14] = 225 /\ \A i \in {6, 8, 10, 12} : a[i] = 0
  BY <1>1
<1> HIDE DEF a
<1>3. b[4] = 68 /\ \A i \in {6, 8, 10, 12, 14} : b[i] = a[i]
  BY <1>2
<1> HIDE DEF b
<1>4. Registers(b) = Regs(225, 68, 0)
  BY <1>2, <1>3 DEF Registers, Regs
<1>5. IdleUnload.cdb = b
  BY DEF IdleUnload, Send, Unload, IdleImmediateCode, a, b
<1>6. QED
  BY <1>4, <1>5

\* The request's registers, if the method sends it.
LEMMA RegistersOf ==
  ASSUME NEW r \in Requests, Command(r).ok
  PROVE  LET regs == Registers(Command(r).cdb) IN
         /\ r.op = "CheckPowerMode" => regs = Regs(229, 0, 0)
         /\ r.op = "Standby"    => regs = Regs(224, 0, 0)
         /\ r.op = "Idle"       => regs = Regs(225, 0, 0)
         /\ r.op = "Sleep"      => regs = Regs(230, 0, 0)
         /\ r.op = "IdleUnload" => regs = Regs(225, 68, 0)
         /\ r.op = "DisableAPM" => regs = Regs(239, 133, 0)
         /\ r.op = "SetStandbyTimerRaw" => regs = Regs(226, 0, r.arg)
         /\ r.op = "SetIdleTimerRaw"    => regs = Regs(227, 0, r.arg)
         /\ r.op = "SetAPMLevel" => r.arg \in 1..254 /\ regs = Regs(239, 5, r.arg)
         /\ r.op = "SetPowerMode" =>
              \/ r.arg = Idle /\ regs = Regs(225, 0, 0)
              \/ r.arg = Standby /\ regs = Regs(224, 0, 0)
              \/ r.arg \in EpcModes /\ \E cond \in Byte : regs = Regs(239, 74, cond)
         /\ r.op \in {"SetStandbyTimer", "SetIdleTimer"} =>
              \E v \in 0..251 : /\ decodeAtaSpinDownTimeout(v) = r.arg
                                /\ regs = Regs(IF r.op = "SetStandbyTimer" THEN 226 ELSE 227, 0, v)
<1> DEFINE regs == Registers(Command(r).cdb)
<1> USE DEF CheckPowerModeCode, StandbyImmediateCode, IdleImmediateCode, StandbyCode, IdleCode,
            SleepCode, SetFeaturesCode
<1>1. \A cdb : Send(cdb).cdb = cdb
  BY DEF Send
<1>2. r.op = "CheckPowerMode" => regs = Regs(229, 0, 0)
  BY <1>1, NonData DEF Command
<1>3. r.op = "Standby" => regs = Regs(224, 0, 0)
  BY <1>1, NonData DEF Command
<1>4. r.op = "Idle" => regs = Regs(225, 0, 0)
  BY <1>1, NonData DEF Command
<1>5. r.op = "Sleep" => regs = Regs(230, 0, 0)
  BY <1>1, NonData DEF Command
<1>6. r.op = "IdleUnload" => regs = Regs(225, 68, 0)
  BY UnloadRegisters DEF Command
<1>7. r.op = "DisableAPM" => regs = Regs(239, 133, 0)
  BY <1>1, NonDataFeature DEF Command, DisableAPM, DisableApm
<1>8. r.op = "SetStandbyTimerRaw" => regs = Regs(226, 0, r.arg)
  BY <1>1, NonDataCount DEF Command, setSpinDownTimer
<1>9. r.op = "SetIdleTimerRaw" => regs = Regs(227, 0, r.arg)
  BY <1>1, NonDataCount DEF Command, setIdleTimerRaw
<1>10. ASSUME r.op = "SetAPMLevel"
       PROVE  r.arg \in 1..254 /\ regs = Regs(239, 5, r.arg)
  <2>1. r.arg \in 0..255
    BY <1>10 DEF Requests, Byte
  <2>2. Command(r) = SetAPMLevel(r.arg)
    BY <1>10 DEF Command
  <2>3. ~(r.arg < 1 \/ r.arg > 254)
    BY <2>2 DEF SetAPMLevel, Refused
  <2>4. Command(r) = Send([ataNonDataCdb(239) EXCEPT ![4] = 5, ![6] = r.arg])
    BY <2>2, <2>3 DEF SetAPMLevel, EnableApm
  <2>5. QED
    BY <1>1, <2>1, <2>3, <2>4, NonDataBoth
<1>11. ASSUME r.op = "SetPowerMode"
       PROVE  \/ r.arg = Idle /\ regs = Regs(225, 0, 0)
              \/ r.arg = Standby /\ regs = Regs(224, 0, 0)
              \/ r.arg \in EpcModes /\ \E cond \in Byte : regs = Regs(239, 74, cond)
  <2>1. Command(r) = SetPowerMode(r.arg)
    BY <1>11 DEF Command
  <2>2. CASE r.arg = Idle
    <3>1. Command(r) = Send(ataNonDataCdb(225))
      BY <2>1, <2>2 DEF SetPowerMode
    <3>2. QED
      BY <1>1, <2>2, <3>1, NonData
  <2>3. CASE r.arg # Idle /\ r.arg = Standby
    <3>1. Command(r) = Send(ataNonDataCdb(224))
      BY <2>1, <2>3 DEF SetPowerMode
    <3>2. QED
      BY <1>1, <2>3, <3>1, NonData
  <2>4. CASE r.arg # Idle /\ r.arg # Standby
    <3>1. HasPowerCondition(r.arg)
      BY <2>1, <2>4 DEF SetPowerMode, Refused
    <3>2. Command(r) = setPowerCondition(powerConditionForMode(r.arg))
      BY <2>1, <2>4, <3>1 DEF SetPowerMode
    <3>3. r.arg \in EpcModes /\ powerConditionForMode(r.arg) \in Byte
      BY <3>1 DEF HasPowerCondition, EpcModes, powerConditionForMode, Byte, StandbyY, IdleA, IdleB, IdleC
    <3>4. regs = Regs(239, 74, powerConditionForMode(r.arg))
      BY <1>1, <3>2, NonDataBoth DEF setPowerCondition, Epc
    <3>5. QED
      BY <3>3, <3>4
  <2>5. QED
    BY <2>2, <2>3, <2>4
<1>12. ASSUME r.op \in {"SetStandbyTimer", "SetIdleTimer"}
       PROVE  \E v \in 0..251 : /\ decodeAtaSpinDownTimeout(v) = r.arg
                                /\ regs = Regs(IF r.op = "SetStandbyTimer" THEN 226 ELSE 227, 0, v)
  <2>1. r.arg \in Int
    BY <1>12 DEF Requests, Byte
  <2>2. encodeAtaSpinDownTimeout(r.arg) # Invalid
    <3>1. ~Invalid.ok /\ ~Refused.ok
      BY DEF Invalid, Refused
    <3>2. CASE r.op = "SetStandbyTimer"
      <4>1. Command(r) = SetStandbyTimer(r.arg)
        BY <3>2 DEF Command
      <4>2. QED
        BY <3>1, <4>1 DEF SetStandbyTimer
    <3>3. CASE r.op = "SetIdleTimer"
      <4>1. Command(r) = SetIdleTimer(r.arg)
        BY <3>3 DEF Command
      <4>2. QED
        BY <3>1, <4>1 DEF SetIdleTimer
    <3>4. QED
      BY <1>12, <3>2, <3>3
  <2>3. PICK v \in 0..251 : /\ encodeAtaSpinDownTimeout(r.arg) = [ok |-> TRUE, code |-> v]
                            /\ decodeAtaSpinDownTimeout(v) = r.arg
    BY <2>1, <2>2, DecodeOfEncode
  <2>4. CASE r.op = "SetStandbyTimer"
    <3>1. Command(r) = setSpinDownTimer(v)
      <4>1. Command(r) = SetStandbyTimer(r.arg)
        BY <2>4 DEF Command
      <4>2. QED
        BY <2>3, <4>1 DEF SetStandbyTimer
    <3>2. QED
      BY <1>1, <2>3, <2>4, <3>1, NonDataCount DEF setSpinDownTimer
  <2>5. CASE r.op = "SetIdleTimer"
    <3>1. Command(r) = setIdleTimerRaw(v)
      <4>1. Command(r) = SetIdleTimer(r.arg)
        BY <2>5 DEF Command
      <4>2. QED
        BY <2>3, <4>1 DEF SetIdleTimer
    <3>2. QED
      BY <1>1, <2>3, <2>5, <3>1, NonDataCount DEF setIdleTimerRaw
  <2>6. QED
    BY <1>12, <2>4, <2>5
<1> HIDE DEF regs
<1>13. QED
  BY <1>2, <1>3, <1>4, <1>5, <1>6, <1>7, <1>8, <1>9, <1>10, <1>11, <1>12 DEF regs

-----------------------------------------------------------------------------
(* What the drive makes of them.                                           *)

LEMMA ChangedDrive ==
  ASSUME NEW d \in Drives
  PROVE  /\ \A m \in PowerStates : [d EXCEPT !.mode = m] \in Drives
         /\ \A t \in Byte : [d EXCEPT !.timer = t] \in Drives
         /\ \A m \in PowerStates, t \in Byte : [d EXCEPT !.mode = m, !.timer = t] \in Drives
         /\ [d EXCEPT !.unloaded = TRUE] \in Drives
         /\ \A m \in PowerStates : [d EXCEPT !.mode = m, !.unloaded = FALSE] \in Drives
         /\ \A a \in 0..254 : /\ [d EXCEPT !.apm = a] \in Drives
                              /\ [d EXCEPT !.apm = a, !.epc = FALSE] \in Drives
<1>1. Byte = Codes
  BY DEF Byte, Codes
<1>2. \A m \in PowerStates : [d EXCEPT !.mode = m] \in Drives
  BY DEF Drives
<1>3. \A t \in Codes : [d EXCEPT !.timer = t] \in Drives
  BY DEF Drives
<1>4. \A m \in PowerStates, t \in Codes : [d EXCEPT !.mode = m, !.timer = t] \in Drives
  BY DEF Drives
<1>5. [d EXCEPT !.unloaded = TRUE] \in Drives
  BY DEF Drives
<1>6. \A m \in PowerStates : [d EXCEPT !.mode = m, !.unloaded = FALSE] \in Drives
  BY DEF Drives
<1>7. \A a \in 0..254 : [d EXCEPT !.apm = a] \in Drives
  BY DEF Drives
<1>8. \A a \in 0..254 : [d EXCEPT !.apm = a, !.epc = FALSE] \in Drives
  BY DEF Drives
<1>9. QED
  BY <1>1, <1>2, <1>3, <1>4, <1>5, <1>6, <1>7, <1>8, Zenon

LEMMA SpinningDrive ==
  ASSUME NEW d \in Drives
  PROVE  Spinning(d) \in Drives /\ IsSpinning(Spinning(d))
BY DEF Drives, Spinning, IsSpinning, PowerStates

\* A method that the drive does not abort leaves it in the state asked for,
\* unless it is one of the modes only the EPC feature set knows.
LEMMA DoneIsReached ==
  ASSUME NEW r \in Requests, Command(r).ok, NEW d \in Drives,
         Execution(d, Registers(Command(r).cdb)).ok,
         r.op # "CheckPowerMode", r.op = "SetPowerMode" => r.arg \notin EpcModes
  PROVE  Reached(r, Execution(d, Registers(Command(r).cdb)).drive)
<1> DEFINE regs == Registers(Command(r).cdb)
           e == Execution(d, regs)
<1>1. \A x : Accepted(x).drive = x /\ ~Aborted(x).ok
  BY DEF Accepted, Aborted
<1>2. /\ Spinning(d) \in Drives /\ IsSpinning(Spinning(d))
      /\ d \in [mode : PowerStates, epc : BOOLEAN, apm : 0..254, timer : Codes, unloaded : BOOLEAN]
  BY SpinningDrive DEF Drives
<1>3. ASSUME NEW count, regs = Regs(224, 0, count) \/ regs = Regs(226, 0, count)
      PROVE  e.drive.mode = Standby /\ (regs = Regs(226, 0, count) => e.drive.timer = count)
  <2>1. regs = Regs(224, 0, count) => e.drive = [d EXCEPT !.mode = Standby]
    BY <1>1 DEF Execution, Ata, Regs
  <2>2. regs = Regs(226, 0, count) => e.drive = [d EXCEPT !.mode = Standby, !.timer = count]
    BY <1>1 DEF Execution, Ata, Regs
  <2>3. CASE regs = Regs(224, 0, count)
    <3>1. Regs(224, 0, count) # Regs(226, 0, count)
      BY DEF Regs
    <3>2. e.drive.mode = Standby
      BY <1>2, <2>1, <2>3
    <3>3. QED
      BY <2>3, <3>1, <3>2
  <2>4. CASE regs = Regs(226, 0, count)
    <3>1. [d EXCEPT !.mode = Standby, !.timer = count].mode = Standby
      BY <1>2
    <3>2. [d EXCEPT !.mode = Standby, !.timer = count].timer = count
      BY <1>2
    <3>3. QED
      BY <2>2, <2>4, <3>1, <3>2, Zenon
  <2>5. QED
    BY <1>3, <2>3, <2>4
<1>4. ASSUME NEW count, regs = Regs(227, 0, count)
      PROVE  IsSpinning(e.drive) /\ e.drive.timer = count
  <2>1. e.drive = [Spinning(d) EXCEPT !.timer = count]
    BY <1>1, <1>4 DEF Execution, Ata, Regs
  <2>2. QED
    BY <1>2, <2>1 DEF IsSpinning, Drives
<1>5. ASSUME NEW count, regs = Regs(225, 0, count)
      PROVE  IsSpinning(e.drive)
  <2>1. e.drive = Spinning(d)
    BY <1>1, <1>5 DEF Execution, Ata, Regs, Feature
  <2>2. QED
    BY <1>2, <2>1
<1>6. CASE r.op = "Standby"
  BY <1>3, <1>6, RegistersOf DEF Reached
<1>7. CASE r.op = "Idle"
  BY <1>5, <1>7, RegistersOf DEF Reached
<1>8. CASE r.op = "Sleep"
  <2>1. regs = Regs(230, 0, 0)
    BY <1>8, RegistersOf
  <2>2. e.drive = [d EXCEPT !.mode = Asleep]
    BY <1>1, <2>1 DEF Execution, Ata, Regs
  <2>3. QED
    BY <1>2, <1>8, <2>2 DEF Reached
<1>9. CASE r.op = "IdleUnload"
  <2>1. regs = Regs(225, 68, 0)
    BY <1>9, RegistersOf
  <2>2. e = Aborted(d)
    BY <2>1 DEF Execution, Ata, Regs, Feature, UnloadLba
  <2>3. QED
    BY <1>1, <2>2
<1>10. CASE r.op = "DisableAPM"
  <2>1. regs = Regs(239, 133, 0)
    BY <1>10, RegistersOf
  <2>2. e.drive = [d EXCEPT !.apm = 0]
    BY <1>1, <2>1 DEF Execution, SetFeatures, Ata, Regs, Feature
  <2>3. QED
    BY <1>2, <1>10, <2>2 DEF Reached
<1>11. CASE r.op = "SetAPMLevel"
  <2>1. regs = Regs(239, 5, r.arg)
    BY <1>11, RegistersOf
  <2>2. e.drive = [d EXCEPT !.apm = r.arg, !.epc = FALSE]
    BY <1>1, <2>1 DEF Execution, SetFeatures, Ata, Regs, Feature
  <2>3. QED
    BY <1>2, <1>11, <2>2 DEF Reached
<1>12. CASE r.op = "SetStandbyTimerRaw"
  BY <1>3, <1>12, RegistersOf DEF Reached
<1>13. CASE r.op = "SetIdleTimerRaw"
  BY <1>4, <1>13, RegistersOf DEF Reached
<1>14. CASE r.op = "SetStandbyTimer"
  <2>1. PICK v \in 0..251 : decodeAtaSpinDownTimeout(v) = r.arg /\ regs = Regs(226, 0, v)
    BY <1>14, RegistersOf
  <2>2. QED
    BY <1>3, <1>14, <2>1 DEF Reached
<1>15. CASE r.op = "SetIdleTimer"
  <2>1. PICK v \in 0..251 : decodeAtaSpinDownTimeout(v) = r.arg /\ regs = Regs(227, 0, v)
    BY <1>15, RegistersOf
  <2>2. QED
    BY <1>4, <1>15, <2>1 DEF Reached
<1>16. CASE r.op = "SetPowerMode"
  <2>1. \/ r.arg = Idle /\ regs = Regs(225, 0, 0)
        \/ r.arg = Standby /\ regs = Regs(224, 0, 0)
    BY <1>16, RegistersOf
  <2>2. CASE r.arg = Idle /\ regs = Regs(225, 0, 0)
    BY <1>5, <1>16, <2>2 DEF Reached
  <2>3. CASE r.arg = Standby /\ regs = Regs(224, 0, 0)
    BY <1>3, <1>16, <2>3 DEF Reached
  <2>4. QED
    BY <2>1, <2>2, <2>3
<1>17. QED
  BY <1>6, <1>7, <1>8, <1>9, <1>10, <1>11, <1>12, <1>13, <1>14, <1>15, <1>16 DEF Requests

\* A request that is sent: its registers.
LEMMA RegistersFit ==
  ASSUME NEW r \in Requests, Command(r).ok
  PROVE  \E cmd, feature, count :
           /\ Registers(Command(r).cdb) = Regs(cmd, feature, count)
           /\ count \in Byte
           /\ cmd = 239 /\ feature = 5 => count \in 1..254
           /\ r.op = "CheckPowerMode" => cmd = 229
<1> DEFINE regs == Registers(Command(r).cdb)
<1>1. 0 \in Byte /\ \A v \in 0..251 : v \in Byte
  BY DEF Byte
<1>2. r.op \in {"SetStandbyTimerRaw", "SetIdleTimerRaw"} => r.arg \in Byte
  BY DEF Requests
<1>3. 1..254 \subseteq Byte
  BY DEF Byte
<1> DEFINE Fits(cmd, feature, count) ==
      /\ regs = Regs(cmd, feature, count)
      /\ count \in Byte
      /\ cmd = 239 /\ feature = 5 => count \in 1..254
      /\ r.op = "CheckPowerMode" => cmd = 229
<1>4. CASE r.op \in {"CheckPowerMode", "Standby", "Idle", "Sleep", "IdleUnload", "DisableAPM"}
  <2>1. Fits(229, 0, 0) \/ Fits(224, 0, 0) \/ Fits(225, 0, 0) \/ Fits(230, 0, 0)
          \/ Fits(225, 68, 0) \/ Fits(239, 133, 0)
    BY <1>1, <1>4, RegistersOf
  <2>2. QED
    BY <2>1
<1>5. CASE r.op \in {"SetStandbyTimerRaw", "SetIdleTimerRaw", "SetAPMLevel"}
  <2>1. Fits(226, 0, r.arg) \/ Fits(227, 0, r.arg) \/ Fits(239, 5, r.arg)
    BY <1>2, <1>3, <1>5, RegistersOf
  <2>2. QED
    BY <2>1
<1>6. CASE r.op = "SetPowerMode"
  <2>1. Fits(225, 0, 0) \/ Fits(224, 0, 0) \/ \E cond \in Byte : Fits(239, 74, cond)
    BY <1>1, <1>6, RegistersOf
  <2>2. QED
    BY <2>1
<1>7. CASE r.op \in {"SetStandbyTimer", "SetIdleTimer"}
  <2>1. PICK v \in 0..251 : regs = Regs(IF r.op = "SetStandbyTimer" THEN 226 ELSE 227, 0, v)
    BY <1>7, RegistersOf
  <2>2. Fits(226, 0, v) \/ Fits(227, 0, v)
    BY <1>1, <1>7, <2>1
  <2>3. QED
    BY <2>2
<1>8. QED
  BY <1>4, <1>5, <1>6, <1>7 DEF Requests

\* The drive keeps its type, and a check of its mode leaves it alone.
LEMMA ExecutionKeepsType ==
  ASSUME NEW r \in Requests, Command(r).ok, NEW d \in Drives
  PROVE  /\ Execution(d, Registers(Command(r).cdb)).drive \in Drives
         /\ r.op = "CheckPowerMode" => Execution(d, Registers(Command(r).cdb)) = Accepted(d)
<1> DEFINE regs == Registers(Command(r).cdb)
           e == Execution(d, regs)
<1>1. \A x : Accepted(x).drive = x /\ Aborted(x).drive = x
  BY DEF Accepted, Aborted
<1>2. PICK cmd, feature, count :
         /\ regs = Regs(cmd, feature, count)
         /\ count \in Byte
         /\ cmd = 239 /\ feature = 5 => count \in 1..254
         /\ r.op = "CheckPowerMode" => cmd = 229
  BY RegistersFit
<1>3. Spinning(d) \in Drives
  BY SpinningDrive
<1>4. e.drive \in Drives
  <2>1. CASE cmd = 239
    <3> DEFINE enabled  == [d EXCEPT !.apm = count, !.epc = FALSE]
               disabled == [d EXCEPT !.apm = 0]
    <3>1. e = SetFeatures(d, regs) /\ regs.feature = feature /\ regs.count = count /\ regs.lba = 0
      BY <1>2, <2>1 DEF Execution, Ata, Regs
    <3>2. feature = 5 => e.drive = enabled
      BY <1>1, <3>1 DEF SetFeatures, Feature
    <3>3. feature = 133 => e.drive = disabled
      BY <1>1, <3>1 DEF SetFeatures, Feature
    <3>4. feature \notin {5, 133} => e.drive = d
      BY <1>1, <3>1 DEF SetFeatures, Feature, GoToPowerCondition
    <3>5. feature = 5 => enabled \in Drives
      <4>1. feature = 5 => count \in 0..254
        BY <1>2, <2>1
      <4>2. \A a \in 0..254 : [d EXCEPT !.apm = a, !.epc = FALSE] \in Drives
        BY ChangedDrive, Zenon
      <4>3. QED
        BY <4>1, <4>2, Zenon
    <3>6. disabled \in Drives
      BY DEF Drives
    <3>7. QED
      BY <3>2, <3>3, <3>4, <3>5, <3>6, Zenon
  <2>2. CASE cmd # 239
    <3>1. e.drive \in {d, Spinning(d), [d EXCEPT !.mode = Standby], [d EXCEPT !.mode = Asleep],
                       [d EXCEPT !.mode = Standby, !.timer = count],
                       [Spinning(d) EXCEPT !.timer = count], [Spinning(d) EXCEPT !.unloaded = TRUE]}
      BY <1>1, <1>2, <2>2 DEF Execution, Ata, Regs
    <3>2. QED
      <4>1. Standby \in PowerStates /\ Asleep \in PowerStates
        BY DEF PowerStates
      <4>2. [d EXCEPT !.mode = Standby] \in Drives /\ [d EXCEPT !.mode = Asleep] \in Drives
        BY <4>1, ChangedDrive, Zenon
      <4>3. [d EXCEPT !.mode = Standby, !.timer = count] \in Drives
        BY <1>2, <4>1, ChangedDrive, Zenon
      <4>4. [Spinning(d) EXCEPT !.timer = count] \in Drives
        BY <1>2, <1>3, ChangedDrive, Zenon
      <4>5. [Spinning(d) EXCEPT !.unloaded = TRUE] \in Drives
        BY <1>3, ChangedDrive, Zenon
      <4>6. QED
        BY <1>3, <3>1, <4>2, <4>3, <4>4, <4>5, Zenon
  <2>3. QED
    BY <2>1, <2>2
<1>5. r.op = "CheckPowerMode" => e = Accepted(d)
  BY <1>2 DEF Execution, Ata, Regs
<1>6. QED
  BY <1>4, <1>5

-----------------------------------------------------------------------------
(* What a setter takes for success.                                        *)

\* Sense data that ataSenseStatus cannot decode, whatever the walk would find.
LEMMA NothingDecoded ==
  ASSUME NEW s, ~IsAtaPassThroughInfo(s)
  PROVE  ~ataSenseStatus(s).ok /\ ~ataPowerModeFromSense(s).ok
BY DEF ataSenseStatus, ataPowerModeFromSense, CarriesRegisters, Failed

\* The buffers without a report: no sense at all, and a command that was refused.
LEMMA NoReport ==
  ASSUME NEW s \in {NoSense} \cup RefusalSenses
  PROVE  ~ataSenseStatus(s).ok /\ ~ataPowerModeFromSense(s).ok
<1>1. CASE s = NoSense
  <2>1. \A i \in 0..95 : At(NoSense, i) = 0
    BY DEF At, NoSense
  <2>2. ~IsAtaPassThroughInfo(NoSense)
    BY <2>1 DEF IsAtaPassThroughInfo, RecoveredError
  <2>3. QED
    BY <1>1, <2>2, NothingDecoded
<1>2. CASE s \in {IllegalRequest, AbortedCommand}
  <2>1. At(s, 0) = 114 /\ At(s, 1) \in {5, 11}
    BY <1>2 DEF IllegalRequest, AbortedCommand, SenseHeader, At, DescriptorFormat
  <2>2. ~IsFixedFormat(s)
    BY <2>1 DEF IsFixedFormat, Format, ResponseCode, FixedFormat
  <2>3. ~IsAtaPassThroughInfo(s)
    BY <2>1, <2>2 DEF IsAtaPassThroughInfo, RecoveredError
  <2>4. QED
    BY <2>3, NothingDecoded
<1>3. CASE s = UnitAttention
  <2>1. At(s, 0) = 112 /\ At(s, 2) = 6
    BY <1>3 DEF UnitAttention, At, FixedFormat
  <2>2. IsFixedFormat(s)
    BY <2>1 DEF IsFixedFormat, Format, ResponseCode, FixedFormat
  <2>3. ~IsAtaPassThroughInfo(s)
    BY <2>1, <2>2 DEF IsAtaPassThroughInfo, RecoveredError
  <2>4. QED
    BY <2>3, NothingDecoded
<1>4. QED
  BY <1>1, <1>2, <1>3 DEF RefusalSenses

\* None of them is empty, so that it is all that is left of the reply.
LEMMA RefusalsHaveSense ==
  ASSUME NEW s \in RefusalSenses
  PROVE  ScsiSendCdbSense(Check(s)) = [err |-> FALSE, sense |-> s]
<1>1. IllegalRequest # <<>> /\ AbortedCommand # <<>> /\ UnitAttention # <<>>
  BY DEF IllegalRequest, AbortedCommand, UnitAttention, SenseHeader
<1>2. s # <<>>
  BY <1>1 DEF RefusalSenses
<1>3. QED
  BY <1>2 DEF Check, ScsiSendCdbSense

\* The report of a command that the drive aborted has another sense key.
LEMMA AbortedReport ==
  ASSUME NEW layer_ \in Reporting, NEW regs \in AtaRegisters
  PROVE  ~ataSenseStatus(AsIllegal(Report(layer_, regs))).ok
<1>1. CASE layer_.kind = "fixed"
  <2> DEFINE f == FixedReport(regs)
             s == [f EXCEPT ![3] = 5, ![13] = 36, ![14] = 0]
  <2>1. f[1] = 112 /\ 1 \in DOMAIN f /\ 3 \in DOMAIN f
    BY DEF FixedReport, FixedFormat
  <2>2. IsFixedFormat(f)
    BY <2>1 DEF IsFixedFormat, Format, ResponseCode, At, FixedFormat
  <2>3. AsIllegal(Report(layer_, regs)) = s
    BY <1>1, <2>2 DEF AsIllegal, Report
  <2> HIDE DEF f
  <2>4. s[1] = 112 /\ s[3] = 5
    BY <2>1
  <2> HIDE DEF s
  <2>5. ~IsAtaPassThroughInfo(s)
    BY <2>4 DEF IsAtaPassThroughInfo, IsFixedFormat, Format, ResponseCode, At, FixedFormat, RecoveredError
  <2>6. QED
    BY <2>3, <2>5, NothingDecoded
<1>2. CASE layer_ \in [kind : {"descriptor"}, before : Leading]
  <2>1. PICK before \in Leading : Report(layer_, regs) = DescriptorReport(before, regs)
    BY <1>2 DEF Report
  <2> DEFINE f == DescriptorReport(before, regs)
             s == [f EXCEPT ![2] = 5, ![3] = 36, ![4] = 0]
  <2>2. f[1] = 114 /\ 1 \in DOMAIN f /\ 2 \in DOMAIN f
    <3>1. before \in Seq(Byte) /\ Len(before) <= 241
      BY LeadingAssumption DEF MayLead, MaxLeading, descHeaderLen, descAtaReturnPayloadLen
    <3>2. f \in Seq(Byte) /\ Len(f) = 22 + Len(before) /\ f[1] = 114
      BY <3>1, ReportBytes, ZenonT(60)
    <3> HIDE DEF f
    <3>3. QED
      BY <3>1, <3>2
  <2> HIDE DEF f
  <2>3. ~IsFixedFormat(f)
    BY <2>2 DEF IsFixedFormat, Format, ResponseCode, At, FixedFormat
  <2>4. AsIllegal(Report(layer_, regs)) = s
    BY <2>1, <2>3 DEF AsIllegal, f
  <2>5. s[1] = 114 /\ s[2] = 5
    BY <2>2
  <2> HIDE DEF s
  <2>6. ~IsAtaPassThroughInfo(s)
    BY <2>5 DEF IsAtaPassThroughInfo, IsFixedFormat, Format, ResponseCode, At, FixedFormat, RecoveredError
  <2>7. QED
    BY <2>4, <2>6, NothingDecoded
<1>3. QED
  BY <1>1, <1>2 DEF Reporting

\* A reply that a setter takes for success.
Succeeds(r) == ~ScsiSendCdbSense(r).err /\ ataSenseStatus(ScsiSendCdbSense(r).sense).ok

LEMMA FailureFails ==
  ASSUME NEW r \in Failures
  PROVE  ~Succeeds(r)
<1>2. CASE r \in {Errno, HostError, Silent}
  BY <1>2 DEF Errno, HostError, Silent, Succeeds, ScsiSendCdbSense, InfoOk, CheckCondition
<1>3. ASSUME NEW s \in RefusalSenses, r = Check(s) PROVE ~Succeeds(r)
  <2>1. ScsiSendCdbSense(r).sense = s
    BY <1>3, RefusalsHaveSense
  <2>2. QED
    BY <2>1, NoReport DEF Succeeds
<1>4. CASE r = Good(Zeroed)
  <2>1. ScsiSendCdbSense(r).sense = NoSense
    BY <1>4 DEF Good, ScsiSendCdbSense, InfoOk, CheckCondition
  <2>2. QED
    BY <2>1, NoReport DEF Succeeds
<1>5. QED
  BY <1>2, <1>3, <1>4 DEF Failures, Broken, Unserved

\* No SAT layer reports success of a command that the drive has aborted.
LEMMA AbortFails ==
  ASSUME NEW l \in Layers, l.kind # "rejects", NEW regs, regs.count \in Byte,
         regs.cmd # Ata.checkPowerMode, NEW e, ~e.ok
  PROVE  ~Succeeds(Answer(l, regs, e))
<1>1. CASE l.kind = "silent"
  BY <1>1, FailureFails DEF Answer, Failures, Unserved, RefusalSenses
<1>2. CASE l.kind # "silent"
  <2>1. l \in Reporting
    BY <1>2 DEF Layers
  <2>a. ResultRegisters(regs, e) \in AtaRegisters
    BY DEF ResultRegisters, Status, AtaRegisters, Byte
  <2> DEFINE s == AsIllegal(Report(l, ResultRegisters(regs, e)))
  <2>2. Answer(l, regs, e) = Check(s)
    BY <1>2 DEF Answer
  <2>3. ~ataSenseStatus(s).ok
    BY <2>1, <2>a, AbortedReport
  <2> HIDE DEF s
  <2>4. CASE s = <<>>
    BY <2>2, <2>4 DEF Succeeds, Check, ScsiSendCdbSense, InfoOk
  <2>5. CASE s # <<>>
    BY <2>2, <2>3, <2>5 DEF Succeeds, Check, ScsiSendCdbSense, InfoOk
  <2>6. QED
    BY <2>4, <2>5
<1>3. QED
  BY <1>1, <1>2

-----------------------------------------------------------------------------
(* The invariant: a command is under way only for a request that the method *)
(* does not refuse, and a setter whose reply will be taken for success has  *)
(* been executed with the effect it asks for.                               *)

Sent ==
  \A c \in Callers : pc[c] # "idle" => request[c] \in workload[c] /\ Command(request[c]).ok

NeedsEpc(r) == r.op = "SetPowerMode" /\ r.arg \in EpcModes

Vouched(c) ==
  pc[c] = "replied" /\ Succeeds(reply[c]) /\ request[c].op # "CheckPowerMode" /\ ~NeedsEpc(request[c])
    => earned[c] = Nil

PInv ==
  /\ TypeOK
  /\ DOMAIN request = Callers /\ DOMAIN reply = Callers
  /\ DOMAIN result = Callers /\ DOMAIN earned = Callers
  /\ Sent
  /\ \A c \in Callers : Vouched(c)

Results == {Failed, Nil} \cup {Mode(m) : m \in PowerModes}

\* A request under way is one of the methods' requests.
LEMMA RequestsOf ==
  ASSUME TypeOK, NEW c \in Callers, NEW r \in workload[c]
  PROVE  r \in Requests
<1>1. \A w \in Workloads : \A d \in Callers : w[d] \subseteq Requests
  BY PowerAssumption
<1>2. workload \in Workloads
  BY DEF TypeOK
<1>3. QED
  BY <1>1, <1>2

\* The invariant needs checking for the caller that moves only.
LEMMA OneCaller ==
  ASSUME PInv, NEW c \in Callers,
         UNCHANGED environment, drive' \in Drives,
         \/ UNCHANGED pc
         \/ \E p \in {"idle", "ioctl", "replied"} : pc' = [pc EXCEPT ![c] = p],
         \/ UNCHANGED request
         \/ \E r \in workload[c] \cup {NoRequest} : request' = [request EXCEPT ![c] = r],
         UNCHANGED reply \/ \E r : reply' = [reply EXCEPT ![c] = r],
         UNCHANGED result \/ \E x \in Results : result' = [result EXCEPT ![c] = x],
         UNCHANGED earned \/ \E x \in Results : earned' = [earned EXCEPT ![c] = x],
         pc'[c] # "idle" => request'[c] \in workload[c] /\ Command(request'[c]).ok,
         Vouched(c)'
  PROVE  PInv'
<1>1. /\ pc' \in [Callers -> {"idle", "ioctl", "replied"}]
      /\ \A d \in Callers : d # c => pc'[d] = pc[d]
  BY DEF PInv, TypeOK
<1>2. /\ DOMAIN request' = Callers
      /\ request'[c] \in workload[c] \cup {NoRequest}
      /\ \A d \in Callers : d # c => request'[d] = request[d]
  BY DEF PInv, TypeOK
<1>3. /\ DOMAIN reply' = Callers
      /\ \A d \in Callers : d # c => reply'[d] = reply[d]
  BY DEF PInv
<1>4. /\ DOMAIN result' = Callers /\ result'[c] \in Results
      /\ \A d \in Callers : d # c => result'[d] = result[d]
  BY DEF PInv, TypeOK, Results
<1>5. /\ DOMAIN earned' = Callers /\ earned'[c] \in Results
      /\ \A d \in Callers : d # c => earned'[d] = earned[d]
  BY DEF PInv, TypeOK, Results
<1>6. TypeOK'
  <2>1. workload' = workload /\ faulty' = faulty /\ layer' = layer
    BY DEF environment
  <2>2. \A d \in Callers : request'[d] \in workload'[d] \cup {NoRequest}
    BY <1>2, <2>1 DEF PInv, TypeOK
  <2>3. \A d \in Callers : {result'[d], earned'[d]} \subseteq Results
    BY <1>4, <1>5 DEF PInv, TypeOK, Results
  <2>4. QED
    BY <1>1, <2>1, <2>2, <2>3 DEF PInv, TypeOK, Results
<1>7. Sent'
  BY <1>1, <1>2 DEF PInv, Sent, environment
<1>8. \A d \in Callers : Vouched(d)'
  BY <1>1, <1>2, <1>3, <1>5 DEF PInv, Vouched
<1>9. QED
  BY <1>2, <1>3, <1>4, <1>5, <1>6, <1>7, <1>8 DEF PInv

\* What the drive's execution lets a call return.
LEMMA EarnedResult ==
  ASSUME NEW r \in Requests, Command(r).ok, NEW d \in Drives, d.mode # Asleep
  PROVE  LET e == Execution(d, Registers(Command(r).cdb)) IN
         /\ Earned(r, e) \in Results
         /\ e.ok /\ r.op # "CheckPowerMode" /\ ~NeedsEpc(r) => Earned(r, e) = Nil
<1> DEFINE e == Execution(d, Registers(Command(r).cdb))
<1>1. d.mode \in PowerModes
  BY DEF Drives, PowerStates, PowerModes, Asleep, Standby, StandbyY, Idle, IdleA, IdleB, IdleC, ActiveOrIdle
<1>2. r.op = "CheckPowerMode" => e.drive.mode \in PowerModes
  <2>1. r.op = "CheckPowerMode" => e = Accepted(d)
    BY ExecutionKeepsType
  <2>2. QED
    BY <1>1, <2>1 DEF Accepted
<1>3. e.ok /\ r.op # "CheckPowerMode" /\ ~NeedsEpc(r) => Reached(r, e.drive)
  BY DoneIsReached DEF NeedsEpc
<1> HIDE DEF e
<1>4. QED
  BY <1>2, <1>3 DEF Earned, Results, e

-----------------------------------------------------------------------------

LEMMA InitPInv == Init => PInv
<1> SUFFICES ASSUME Init PROVE PInv
  OBVIOUS
<1>1. SatLayers \subseteq Layers
  BY PowerAssumption
<1>2. \A epc \in BOOLEAN : NewDrive(epc) \in Drives
  BY DEF NewDrive, Drives, PowerStates, Codes
<1>3. TypeOK
  BY <1>1, <1>2 DEF Init, TypeOK
<1>4. QED
  BY <1>3 DEF Init, PInv, Sent, Vouched

LEMMA CallPInv ==
  ASSUME PInv, NEW c \in Callers, Call(c)
  PROVE  PInv'
<1>1. /\ UNCHANGED <<environment, drive, reply, earned>>
      /\ drive' \in Drives
  BY DEF Call, PInv, TypeOK
<1>2. PICK r \in workload[c] :
        \/ /\ Command(r).ok
           /\ pc' = [pc EXCEPT ![c] = "ioctl"]
           /\ request' = [request EXCEPT ![c] = r]
           /\ UNCHANGED result
        \/ /\ ~Command(r).ok
           /\ result' = [result EXCEPT ![c] = Failed]
           /\ UNCHANGED <<pc, request>>
  BY DEF Call
<1>3. CASE Command(r).ok /\ pc' = [pc EXCEPT ![c] = "ioctl"] /\ request' = [request EXCEPT ![c] = r] /\ UNCHANGED result
  <2>1. pc'[c] = "ioctl" /\ request'[c] = r
    BY <1>3 DEF PInv, TypeOK
  <2>2. Vouched(c)'
    BY <2>1 DEF Vouched
  <2>3. QED
    BY <1>1, <1>3, <2>1, <2>2, OneCaller
<1>4. CASE result' = [result EXCEPT ![c] = Failed] /\ UNCHANGED <<pc, request>>
  <2>1. Vouched(c)'
    BY <1>1, <1>4 DEF Vouched, PInv
  <2>2. pc'[c] # "idle" => request'[c] \in workload[c] /\ Command(request'[c]).ok
    BY <1>4 DEF PInv, Sent
  <2>3. Failed \in Results
    BY DEF Results
  <2>4. QED
    BY <1>1, <1>4, <2>1, <2>2, <2>3, OneCaller
<1>5. QED
  BY <1>2, <1>3, <1>4

LEMMA LosePInv ==
  ASSUME PInv, NEW c \in Callers, Lose(c)
  PROVE  PInv'
<1>1. PICK r \in Failures : Replies(c, r)
  BY DEF Lose, Failures, Unserved, RefusalSenses
<1>2. /\ UNCHANGED <<environment, drive, request, result, earned>>
      /\ drive' \in Drives /\ pc[c] = "ioctl"
  BY DEF Lose, PInv, TypeOK
<1>3. reply' = [reply EXCEPT ![c] = r] /\ pc' = [pc EXCEPT ![c] = "replied"] /\ reply'[c] = r
  BY <1>1 DEF Replies, PInv
<1>4. ~Succeeds(r)
  BY FailureFails
<1>5. Vouched(c)'
  <2>1. ~Succeeds(reply[c])'
    BY <1>3, <1>4 DEF Succeeds
  <2>2. QED
    BY <2>1 DEF Vouched
<1>6. request'[c] \in workload[c] /\ Command(request'[c]).ok
  BY <1>2 DEF PInv, Sent
<1>7. QED
  BY <1>2, <1>3, <1>5, <1>6, OneCaller

LEMMA ExecutePInv ==
  ASSUME PInv, NEW c \in Callers, Execute(c)
  PROVE  PInv'
<1> DEFINE regs == Registers(Command(request[c]).cdb)
           e    == Execution(drive, regs)
<1>1. /\ UNCHANGED <<environment, request, result>> /\ pc[c] = "ioctl"
      /\ drive.mode # Asleep /\ layer.kind # "rejects" /\ layer \in Layers /\ drive \in Drives
      /\ drive' = e.drive /\ earned' = [earned EXCEPT ![c] = Earned(request[c], e)]
  BY DEF Execute, PInv, TypeOK
<1>2. PICK r \in {Answer(layer, regs, e)} \cup Failures : Replies(c, r)
  BY DEF Execute
<1>3. reply' = [reply EXCEPT ![c] = r] /\ pc' = [pc EXCEPT ![c] = "replied"] /\ reply'[c] = r
  BY <1>2 DEF Replies, PInv
<1>4. request[c] \in workload[c] /\ Command(request[c]).ok /\ request[c] \in Requests
  BY <1>1, RequestsOf DEF PInv, Sent
<1>5. /\ Earned(request[c], e) \in Results
      /\ e.ok /\ request[c].op # "CheckPowerMode" /\ ~NeedsEpc(request[c]) => Earned(request[c], e) = Nil
  BY <1>1, <1>4, EarnedResult
<1>6. drive' \in Drives
  BY <1>1, <1>4, ExecutionKeepsType
<1>7. Succeeds(r) => e.ok
  <2>1. regs.count \in Byte
    <3>1. PICK cmd, feature, count : regs = Regs(cmd, feature, count) /\ count \in Byte
      BY <1>4, RegistersFit
    <3> HIDE DEF regs
    <3>2. QED
      BY <3>1 DEF Regs
  <2>2. ~e.ok => regs.cmd # Ata.checkPowerMode
    <3> HIDE DEF regs
    <3>1. regs.cmd = Ata.checkPowerMode => e = Accepted(drive)
      BY DEF Execution, Ata
    <3>2. QED
      BY <3>1 DEF Accepted
  <2> HIDE DEF e, regs
  <2>3. ~e.ok => ~Succeeds(Answer(layer, regs, e))
    BY <1>1, <2>1, <2>2, AbortFails
  <2>4. QED
    BY <2>3, FailureFails DEF e, regs
<1> HIDE DEF e, regs
<1>8. Vouched(c)'
  <2>1. Succeeds(reply[c])' => e.ok
    BY <1>3, <1>7 DEF Succeeds
  <2>2. earned'[c] = Earned(request[c], e) /\ request' = request
    BY <1>1 DEF PInv
  <2>3. QED
    BY <1>5, <2>1, <2>2 DEF Vouched, NeedsEpc
<1>9. QED
  BY <1>1, <1>3, <1>4, <1>5, <1>6, <1>8, OneCaller

LEMMA ReceivePInv ==
  ASSUME PInv, NEW c \in Callers, Receive(c)
  PROVE  PInv'
<1>1. PICK x : /\ x \in Results
               /\ result' = [result EXCEPT ![c] = x]
  <2> DEFINE got == ScsiSendCdbSense(reply[c])
  <2>1. result' = [result EXCEPT ![c] = IF got.err THEN Failed ELSE Decoded(request[c], got.sense)]
    BY DEF Receive
  <2>2. Decoded(request[c], got.sense) \in Results
    BY DEF Decoded, Results, ataPowerModeFromSense, Mode
  <2>3. Failed \in Results
    BY DEF Results
  <2> HIDE DEF got
  <2>4. QED
    BY <2>1, <2>2, <2>3
<1>2. /\ pc' = [pc EXCEPT ![c] = "idle"] /\ request' = [request EXCEPT ![c] = NoRequest]
      /\ reply' = [reply EXCEPT ![c] = Errno] /\ earned' = [earned EXCEPT ![c] = Failed]
      /\ UNCHANGED <<environment, drive>> /\ drive' \in Drives
  BY DEF Receive, PInv, TypeOK
<1>3. pc'[c] = "idle"
  BY <1>2 DEF PInv, TypeOK
<1>4. Vouched(c)'
  BY <1>3 DEF Vouched
<1>5. Failed \in Results
  BY DEF Results
<1>6. QED
  BY <1>1, <1>2, <1>3, <1>4, <1>5, OneCaller

\* Other steps leave the callers alone.
LEMMA OtherPInv ==
  ASSUME PInv, drive' \in Drives, UNCHANGED <<environment, pc, request, reply, result, earned>>
  PROVE  PInv'
<1>1. TypeOK'
  BY DEF PInv, TypeOK, environment
<1>2. Sent'
  BY DEF PInv, Sent, environment
<1>3. \A c \in Callers : Vouched(c)'
  BY DEF PInv, Vouched, Succeeds, NeedsEpc
<1>4. QED
  BY <1>1, <1>2, <1>3 DEF PInv

LEMMA StepPInv ==
  ASSUME PInv, [Next]_vars
  PROVE  PInv'
<1> USE DEF PowerStates
<1>1. drive \in Drives
  BY DEF PInv, TypeOK
<1>2. CASE \E c \in Callers : Call(c) \/ Lose(c) \/ Execute(c) \/ Receive(c)
  BY <1>2, CallPInv, LosePInv, ExecutePInv, ReceivePInv
<1>3. CASE MediaAccess \/ Reset
  <2>1. \A m \in PowerStates : [drive EXCEPT !.mode = m, !.unloaded = FALSE] \in Drives
    BY <1>1, ChangedDrive, Zenon
  <2>2. drive' = [drive EXCEPT !.mode = ActiveOrIdle, !.unloaded = FALSE]
    BY <1>3 DEF MediaAccess, Reset
  <2>3. drive' \in Drives
    BY <2>1, <2>2, Zenon
  <2>4. QED
    BY <1>3, <2>3, OtherPInv DEF MediaAccess, Reset
<1>4. CASE SpinDown
  <2>1. drive' \in Drives
    BY <1>1, <1>4, ChangedDrive, Zenon DEF SpinDown
  <2>2. QED
    BY <1>4, <2>1, OtherPInv DEF SpinDown
<1>5. CASE UNCHANGED vars
  BY <1>1, <1>5, OtherPInv DEF vars, environment
<1>6. QED
  BY <1>2, <1>3, <1>4, <1>5 DEF Next

LEMMA PInvariance == Spec => []PInv
<1>1. QED
  BY InitPInv, StepPInv, PTL DEF Spec

-----------------------------------------------------------------------------

\* The variables keep their types: in particular, the drive of which the power
\* methods speak never gets a timer value or a level that is no byte.
THEOREM PowerTypeCorrect == Spec => []TypeOK
<1>1. PInv => TypeOK
  BY DEF PInv
<1>2. QED
  BY <1>1, PInvariance, PTL

\* For every request: a duration that Table 52 has no code for, an APM level
\* out of range and a mode that cannot be selected are refused by the methods of
\* src/sata_power_linux.go before anything is sent.
THEOREM InvalidStaysHome == Spec => []InvalidNeverSent
<1>1. ASSUME PInv PROVE InvalidNeverSent
  <2> SUFFICES ASSUME NEW c \in Callers, pc[c] # "idle"
               PROVE  LET r == request[c] IN
                      /\ r.op \in {"SetStandbyTimer", "SetIdleTimer"} =>
                            \E v \in 0..251 : decodeAtaSpinDownTimeout(v) = r.arg
                      /\ r.op = "SetAPMLevel" => r.arg \in 1..254
                      /\ r.op = "SetPowerMode" => r.arg \in PowerModes \ {ActiveOrIdle}
    BY DEF InvalidNeverSent
  <2>1. request[c] \in Requests /\ Command(request[c]).ok
    BY <1>1, RequestsOf DEF PInv, Sent
  <2>2. {Idle, Standby} \cup EpcModes \subseteq PowerModes \ {ActiveOrIdle}
    BY DEF EpcModes, Idle, Standby, StandbyY, IdleA, IdleB, IdleC, PowerModes, ActiveOrIdle
  <2>3. QED
    BY <2>1, <2>2, RegistersOf
<1>2. QED
  BY <1>1, PInvariance, PTL

\* A call returns by decoding what SG_IO has given it.
LEMMA ReturnIsReceive ==
  ASSUME PInv, Next, NEW c \in Callers, Returns(c)
  PROVE  Receive(c)
<1>1. pc[c] = "replied" /\ pc'[c] = "idle" /\ pc \in [Callers -> {"idle", "ioctl", "replied"}]
  BY DEF Returns, PInv, TypeOK
<1>2. ASSUME NEW d \in Callers, Call(d) \/ Lose(d) \/ Execute(d)
      PROVE  pc'[c] # "idle"
  BY <1>1, <1>2 DEF Call, Lose, Execute, Replies
<1>3. ASSUME NEW d \in Callers, Receive(d)
      PROVE  d = c
  BY <1>1, <1>3 DEF Receive
<1>4. ~(MediaAccess \/ SpinDown \/ Reset)
  BY <1>1 DEF MediaAccess, SpinDown, Reset
<1>5. QED
  BY <1>1, <1>2, <1>3, <1>4 DEF Next

\* Nobody asks for a mode of the EPC feature set, which SetPowerMode does not
\* reach (see SetPowerModeTransitions).
NoEpcRequests == \A w \in Workloads : \A c \in Callers : \A r \in w[c] : ~NeedsEpc(r)

\* README.md, "all of them return an error if the drive rejects the command": a
\* setter returns nil only after the drive has executed its command during the call and
\* was in the state asked for, for any number of callers, faults and SAT layers.
THEOREM SettersAreHonest ==
  ASSUME NoEpcRequests
  PROVE  Spec => NilMeansDone
<1> DEFINE Honest ==
      \A c \in Callers :
        Returns(c) /\ request[c].op # "CheckPowerMode" /\ result'[c].ok => earned[c] = Nil
<1>1. ASSUME PInv, Next
      PROVE  Honest
  <2> SUFFICES ASSUME NEW c \in Callers, Returns(c), request[c].op # "CheckPowerMode", result'[c].ok
               PROVE  earned[c] = Nil
    OBVIOUS
  <2>1. pc[c] = "replied"
    BY DEF Returns
  <2>2. Receive(c)
    BY <1>1, ReturnIsReceive
  <2>3. Succeeds(reply[c])
    <3> DEFINE got == ScsiSendCdbSense(reply[c])
    <3>1. result'[c] = IF got.err THEN Failed ELSE Decoded(request[c], got.sense)
      BY <1>1, <2>2 DEF Receive, PInv
    <3>2. ~got.err /\ Decoded(request[c], got.sense).ok
      BY <3>1 DEF Failed
    <3>3. ataSenseStatus(got.sense).ok
      BY <3>2 DEF Decoded, Failed
    <3>4. QED
      BY <3>2, <3>3 DEF Succeeds
  <2>4. request[c] \in workload[c] /\ workload \in Workloads
    BY <1>1, <2>1 DEF PInv, Sent, TypeOK
  <2>5. ~NeedsEpc(request[c])
    BY <2>4 DEF NoEpcRequests
  <2>6. QED
    BY <1>1, <2>1, <2>3, <2>5 DEF PInv, Vouched
<1>2. PInv /\ [Next]_vars => [Honest]_vars
  BY <1>1
<1>3. QED
  BY <1>2, PInvariance, PTL DEF Spec, NilMeansDone

-----------------------------------------------------------------------------
(* The answers: CHECK POWER MODE returns what the drive reported, and what   *)
(* a call has earned is not lost on the way back.                            *)

\* What a method makes of a reply.
AnswerTo(r, answered) ==
  LET got == ScsiSendCdbSense(answered)
  IN  IF got.err THEN Failed ELSE Decoded(r, got.sense)

\* The reports of the SAT layers that send any are read as what they say.
LEMMA ReportIsRead ==
  ASSUME NEW l \in Reporting, NEW regs \in AtaRegisters
  PROVE  Report(l, regs) # <<>> /\ Reports(Report(l, regs), regs)
<1>1. CASE l \in [kind : {"descriptor"}, before : Leading]
  <2>1. MayLead(l.before)
    BY <1>1, LeadingAssumption
  <2>2. Report(l, regs) = DescriptorReport(l.before, regs)
    BY <1>1 DEF Report
  <2>3. QED
    BY <2>1, <2>2, DescriptorIsRead
<1>2. CASE l \in [kind : {"fixed"}]
  BY <1>2, FixedIsRead DEF Report
<1>3. QED
  BY <1>1, <1>2 DEF Reporting

\* Without a report CheckPowerMode returns an error.
LEMMA FailureAnswer ==
  ASSUME NEW x \in Failures,
         NEW r, r.op = "CheckPowerMode"
  PROVE  ~AnswerTo(r, x).ok
<1>2. ~Failed.ok
  BY DEF Failed
<1>3. CASE x \in {Errno, HostError, Silent}
  BY <1>2, <1>3 DEF Errno, HostError, Silent, AnswerTo, ScsiSendCdbSense, InfoOk, CheckCondition
<1>4. ASSUME NEW s \in RefusalSenses, x = Check(s) PROVE ~AnswerTo(r, x).ok
  <2>1. ScsiSendCdbSense(x) = [err |-> FALSE, sense |-> s]
    BY <1>4, RefusalsHaveSense
  <2>2. QED
    BY <1>2, <2>1, NoReport DEF AnswerTo, Decoded
<1>5. CASE x = Good(Zeroed)
  <2>1. ScsiSendCdbSense(x) = [err |-> FALSE, sense |-> NoSense]
    BY <1>5 DEF Good, ScsiSendCdbSense, InfoOk, CheckCondition
  <2>2. QED
    BY <1>2, <2>1, NoReport DEF AnswerTo, Decoded
<1>6. QED
  BY <1>3, <1>4, <1>5 DEF Failures, Broken, Unserved

\* The report of an executed command yields what the call has earned by it.
LEMMA ExecutedAnswer ==
  ASSUME NEW r \in Requests, Command(r).ok, NEW d \in Drives, d.mode # Asleep,
         NEW l \in Layers, l.kind # "rejects"
  PROVE  LET regs == Registers(Command(r).cdb)
             e == Execution(d, regs)
             a == AnswerTo(r, Answer(l, regs, e))
         IN  /\ r.op = "CheckPowerMode" /\ a.ok => a = Earned(r, e)
             /\ l \in Reporting /\ Earned(r, e).ok => a.ok
<1> DEFINE regs == Registers(Command(r).cdb)
           e == Execution(d, regs)
           rr == ResultRegisters(regs, e)
           s == Report(l, rr)
           a == AnswerTo(r, Answer(l, regs, e))
<1>1. PICK cmd, feature, count :
         regs = Regs(cmd, feature, count) /\ count \in Byte /\ (r.op = "CheckPowerMode" => cmd = 229)
  BY RegistersFit
<1>2. d.mode \in PowerModes /\ PowerModes \subseteq Byte
  BY DEF Drives, PowerStates, PowerModes, Byte, Asleep, Standby, StandbyY, Idle, IdleA, IdleB, IdleC, ActiveOrIdle
<1>3. r.op = "CheckPowerMode" => e = Accepted(d)
  BY ExecutionKeepsType
<1>4. ~Failed.ok /\ Accepted(d).ok /\ Accepted(d).drive = d /\ Nil.ok /\ \A m : Mode(m).ok
  BY DEF Failed, Accepted, Nil, Mode
<1>5. Earned(r, e).ok => e.ok
  BY <1>4 DEF Earned
<1>6. CASE l \in Reporting /\ e.ok
  <2>1. IF cmd = 229 THEN rr.count = d.mode ELSE rr.count = count
    BY <1>1, <1>4 DEF ResultRegisters, Execution, Ata, Regs
  <2>2. rr \in AtaRegisters
    <3>1. rr.count \in Byte
      BY <1>1, <1>2, <2>1
    <3>2. rr = [status |-> 80, error |-> 0, count |-> rr.count]
      BY <1>6 DEF ResultRegisters, Status
    <3>3. 80 \in Byte /\ 0 \in Byte
      BY DEF Byte
    <3> HIDE DEF rr
    <3>4. QED
      BY <3>1, <3>2, <3>3 DEF AtaRegisters
  <2>3. Answer(l, regs, e) = Check(s)
    BY <1>6 DEF Answer, Reporting
  <2>4. s # <<>> /\ Reports(s, rr)
    BY <1>6, <2>2, ReportIsRead
  <2> HIDE DEF s
  <2>5. ScsiSendCdbSense(Check(s)) = [err |-> FALSE, sense |-> s]
    BY <2>4 DEF Check, ScsiSendCdbSense
  <2>6. a = Decoded(r, s)
    BY <2>3, <2>5 DEF AnswerTo
  <2>7. CASE r.op = "CheckPowerMode"
    <3>1. rr.count = d.mode
      BY <1>1, <1>3, <1>4, <2>7 DEF ResultRegisters, Ata, Regs
    <3>2. Decoded(r, s) = [ok |-> TRUE, mode |-> d.mode]
      BY <1>2, <2>4, <2>7, <3>1 DEF Decoded, ataPowerModeFromSense, Reports
    <3>3. Earned(r, e) = Mode(d.mode)
      BY <1>3, <1>4, <2>7 DEF Earned
    <3>4. QED
      BY <2>6, <2>7, <3>2, <3>3 DEF Mode
  <2>8. CASE r.op # "CheckPowerMode"
    <3>1. Decoded(r, s) = Nil
      BY <2>4, <2>8 DEF Decoded, ataSenseStatus, Reports
    <3>2. QED
      BY <1>4, <2>6, <2>8, <3>1
  <2>9. QED
    BY <2>7, <2>8
<1>7. CASE l \in Reporting /\ ~e.ok
  BY <1>3, <1>4, <1>5, <1>7
<1>8. CASE l \notin Reporting
  <2>1. l.kind = "silent"
    BY <1>8 DEF Layers
  <2>2. ASSUME r.op = "CheckPowerMode" PROVE ~a.ok
    <3>1. Answer(l, regs, e) = Good(Zeroed)
      BY <1>3, <1>4, <2>1, <2>2 DEF Answer
    <3>2. QED
      BY <2>2, <3>1, FailureAnswer DEF Failures, Unserved
  <2>3. QED
    BY <1>8, <2>2
<1>9. QED
  BY <1>6, <1>7, <1>8

\* What a caller will be told: nothing that was not earned, and, if the
\* transport works and the SAT layer reports, everything that was.
Told(c) ==
  LET a == AnswerTo(request[c], reply[c])
  IN  pc[c] = "replied" =>
        /\ request[c].op = "CheckPowerMode" /\ a.ok => a = earned[c]
        /\ ~faulty /\ layer \in Reporting /\ earned[c].ok => a.ok

Unearned(c) == pc[c] # "replied" => earned[c] = Failed

AnswersInv == \A c \in Callers : Told(c) /\ Unearned(c)

\* What concerns a caller that does not move stays true.
LEMMA OthersTold ==
  ASSUME AnswersInv, NEW c \in Callers, UNCHANGED <<faulty, layer>>,
         pc'[c] = pc[c], request'[c] = request[c], reply'[c] = reply[c], earned'[c] = earned[c]
  PROVE  Told(c)' /\ Unearned(c)'
BY DEF AnswersInv, Told, Unearned, AnswerTo

LEMMA StepAnswersInv ==
  ASSUME PInv, AnswersInv, [Next]_vars
  PROVE  AnswersInv'
<1> SUFFICES ASSUME NEW b \in Callers PROVE Told(b)' /\ Unearned(b)'
  BY DEF AnswersInv
<1>1. /\ pc \in [Callers -> {"idle", "ioctl", "replied"}] /\ DOMAIN request = Callers
      /\ DOMAIN reply = Callers /\ DOMAIN earned = Callers
  BY DEF PInv, TypeOK
<1>2. UNCHANGED <<faulty, layer>>
  BY DEF Next, Call, Lose, Execute, Receive, MediaAccess, SpinDown, Reset, environment, vars
<1>3. ~Failed.ok
  BY DEF Failed
<1>4. ASSUME NEW c \in Callers, Call(c) PROVE Told(b)' /\ Unearned(b)'
  <2>1. CASE b = c
    <3>1. pc[c] = "idle" /\ pc'[c] # "replied" /\ earned' = earned
      BY <1>1, <1>4 DEF Call
    <3>2. QED
      BY <2>1, <3>1 DEF AnswersInv, Told, Unearned
  <2>2. CASE b # c
    BY <1>1, <1>2, <1>4, <2>2, OthersTold DEF Call
  <2>3. QED
    BY <2>1, <2>2
<1>5. ASSUME NEW c \in Callers, Lose(c) PROVE Told(b)' /\ Unearned(b)'
  <2>1. PICK x \in Failures : Replies(c, x)
    BY <1>5 DEF Lose, Failures, Unserved, RefusalSenses
  <2>2. UNCHANGED <<request, earned>> /\ pc[c] = "ioctl"
    BY <1>5 DEF Lose
  <2>3. CASE b = c
    <3>1. pc'[c] = "replied" /\ reply'[c] = x
      BY <1>1, <2>1 DEF Replies
    <3>2. earned'[c] = Failed
      BY <2>2 DEF AnswersInv, Unearned
    <3>3. request[c].op = "CheckPowerMode" => ~AnswerTo(request[c], x).ok
      BY FailureAnswer
    <3>4. QED
      BY <1>3, <2>2, <2>3, <3>1, <3>2, <3>3 DEF Told, Unearned, AnswerTo
  <2>4. CASE b # c
    BY <1>1, <1>2, <2>1, <2>2, <2>4, OthersTold DEF Replies
  <2>5. QED
    BY <2>3, <2>4
<1>6. ASSUME NEW c \in Callers, Execute(c) PROVE Told(b)' /\ Unearned(b)'
  <2> DEFINE regs == Registers(Command(request[c]).cdb)
             e    == Execution(drive, regs)
  <2>1. /\ UNCHANGED request /\ pc[c] = "ioctl" /\ drive \in Drives
        /\ drive.mode # Asleep /\ layer.kind # "rejects" /\ layer \in Layers
        /\ earned' = [earned EXCEPT ![c] = Earned(request[c], e)]
    BY <1>6 DEF Execute, PInv, TypeOK
  <2>2. PICK x \in {Answer(layer, regs, e)} \cup (IF faulty THEN Failures ELSE {}) : Replies(c, x)
    BY <1>6 DEF Execute
  <2>3. CASE b = c
    <3>1. pc'[c] = "replied" /\ reply'[c] = x /\ earned'[c] = Earned(request[c], e)
      BY <1>1, <2>1, <2>2 DEF Replies
    <3>2. request[c] \in Requests /\ Command(request[c]).ok
      BY <2>1, RequestsOf DEF PInv, Sent
    <3>3. x = Answer(layer, regs, e) =>
            /\ request[c].op = "CheckPowerMode" /\ AnswerTo(request[c], x).ok
                 => AnswerTo(request[c], x) = Earned(request[c], e)
            /\ layer \in Reporting /\ Earned(request[c], e).ok => AnswerTo(request[c], x).ok
      BY <2>1, <3>2, ExecutedAnswer
    <3>4. x # Answer(layer, regs, e) =>
            faulty /\ (request[c].op = "CheckPowerMode" => ~AnswerTo(request[c], x).ok)
      BY <2>2, FailureAnswer
    <3> HIDE DEF e, regs
    <3>5. QED
      BY <1>2, <2>1, <2>3, <3>1, <3>3, <3>4 DEF Told, Unearned, AnswerTo
  <2>4. CASE b # c
    BY <1>1, <1>2, <2>1, <2>2, <2>4, OthersTold DEF Replies
  <2>5. QED
    BY <2>3, <2>4
<1>7. ASSUME NEW c \in Callers, Receive(c) PROVE Told(b)' /\ Unearned(b)'
  <2>1. CASE b = c
    <3>1. pc'[c] = "idle" /\ earned'[c] = Failed
      BY <1>1, <1>7 DEF Receive
    <3>2. QED
      BY <2>1, <3>1 DEF Told, Unearned
  <2>2. CASE b # c
    BY <1>1, <1>2, <1>7, <2>2, OthersTold DEF Receive
  <2>3. QED
    BY <2>1, <2>2
<1>8. CASE MediaAccess \/ SpinDown \/ Reset \/ UNCHANGED vars
  <2>1. UNCHANGED <<pc, request, reply, earned>>
    BY <1>8 DEF MediaAccess, SpinDown, Reset, vars
  <2>2. QED
    BY <1>2, <2>1, OthersTold
<1>9. QED
  BY <1>4, <1>5, <1>6, <1>7, <1>8 DEF Next

LEMMA AnswersInvariance == Spec => []AnswersInv
<1>1. Init => AnswersInv
  BY DEF Init, AnswersInv, Told, Unearned
<1>2. QED
  BY <1>1, StepAnswersInv, PInvariance, PTL DEF Spec

\* A call returns what the method makes of the reply.
LEMMA ReturnsAnswer ==
  ASSUME PInv, Next, NEW c \in Callers, Returns(c)
  PROVE  pc[c] = "replied" /\ result'[c] = AnswerTo(request[c], reply[c])
<1>1. Receive(c)
  BY ReturnIsReceive
<1>2. QED
  BY <1>1 DEF Receive, PInv, AnswerTo

\* CheckPowerMode (src/sata_power.go) never invents a mode: for any callers, requests,
\* faults and SAT layers, the one it returns is the mode the drive was in when it executed
\* the command during that call.
THEOREM ModesAreHeld == Spec => ReportedModeWasHeld
<1> DEFINE Held == \A c \in Callers :
      Returns(c) /\ request[c].op = "CheckPowerMode" /\ result'[c].ok => result'[c] = earned[c]
<1>1. ASSUME PInv, AnswersInv, Next PROVE Held
  BY <1>1, ReturnsAnswer DEF AnswersInv, Told
<1>2. PInv /\ AnswersInv /\ [Next]_vars => [Held]_vars
  BY <1>1
<1>3. QED
  BY <1>2, PInvariance, AnswersInvariance, PTL DEF Spec, ReportedModeWasHeld

\* With a SAT layer that reports and a transport that works, no call whose command
\* the drive has executed as asked returns an error.
THEOREM ErrorsAreReal == Spec => NoFalseAlarm
<1> DEFINE Real == ~faulty /\ layer \in Reporting =>
      \A c \in Callers : Returns(c) /\ earned[c].ok => result'[c].ok
<1>1. ASSUME PInv, AnswersInv, Next PROVE Real
  BY <1>1, ReturnsAnswer DEF AnswersInv, Told
<1>2. PInv /\ AnswersInv /\ [Next]_vars => [Real]_vars
  BY <1>1
<1>3. QED
  BY <1>2, PInvariance, AnswersInvariance, PTL DEF Spec, NoFalseAlarm
=============================================================================
