------------------------- MODULE SenseDecoderProofs -------------------------
(***************************************************************************)
(* The sense decoder is memory safe for every set of buffers: no sequence  *)
(* of bytes makes it index outside the slice.  The type invariant is not   *)
(* inductive alone (a register is a byte only if its index is inside the   *)
(* buffer), so it is proved together with Established: IInv.  And what the *)
(* loop answers is what SenseAnswer defines by recursion.                  *)
(***************************************************************************)
EXTENDS SenseDecoder, SenseAnswerProofs

\* The buffer of the call is a byte string.
LEMMA SenseIsBytes ==
  ASSUME TypeOK
  PROVE  sense \in Seq(Byte)
BY BuffersAssumption DEF TypeOK

\* A response code is of one format at most: masking bit 0 cannot turn 7Xh
\* into both.
LEMMA FormatsDisjoint == ~(IsFixedFormat(sense) /\ IsDescriptorFormat(sense))
BY DEF IsFixedFormat, IsDescriptorFormat, FixedFormat, DescriptorFormat

\* In a valid descriptor format buffer the additional length is a byte and
\* the descriptor area is inside the buffer.
LEMMA PayloadInBuffer ==
  ASSUME TypeOK, DescriptorIsValid(sense)
  PROVE  /\ PayloadLen \in Byte
         /\ \A i \in 0..(PayloadLen - 1) :
              /\ senseHeaderLen + i \in 0..(Len(sense) - 1)
              /\ PayloadAt(i) \in Byte
<1>1. sense \in Seq(Byte) /\ Len(sense) \in Nat
  BY SenseIsBytes
<1>2. PayloadLen \in Byte
  BY <1>1, ByteAt DEF DescriptorIsValid, senseHeaderLen, PayloadLen, AdditionalSenseLength
<1>3. ASSUME NEW i \in 0..(PayloadLen - 1)
      PROVE  senseHeaderLen + i \in 0..(Len(sense) - 1)
  <2>1. Len(sense) >= 8 + PayloadLen
    BY DEF DescriptorIsValid, senseHeaderLen, PayloadLen
  <2>2. PayloadLen \in Nat
    BY <1>2 DEF Byte
  <2>3. QED
    BY <1>1, <2>1, <2>2 DEF senseHeaderLen
<1>4. ASSUME NEW i \in 0..(PayloadLen - 1)
      PROVE  PayloadAt(i) \in Byte
  BY <1>1, <1>3, ByteAt DEF PayloadAt
<1>5. QED
  BY <1>2, <1>3, <1>4

\* The registers of a report whose descriptor was found, or that has fixed
\* format, are inside the buffer.
LEMMA RegisterInBuffer ==
  ASSUME IInv, pc \in {"signature", "registers"}, ReportsRegisters,
         NEW reg \in {"status", "error", "count"}
  PROVE  RegisterIndex(reg) \in 0..(Len(sense) - 1)
<1>1. sense \in Seq(Byte) /\ Len(sense) \in Nat
  BY SenseIsBytes DEF IInv
<1>2. CASE IsDescriptorFormat(sense)
  <2>1. /\ found /\ DescriptorIsValid(sense) /\ offset \in Nat
        /\ HeaderFits(offset) /\ BodyFits(offset) /\ IsAtaReturn(offset)
    BY <1>2, FormatsDisjoint DEF IInv, Established, ReportsRegisters, TypeOK
  <2>2. PayloadLen \in Byte
    BY <2>1, PayloadInBuffer DEF IInv
  <2>. offset + 1 \in 0..(PayloadLen - 1)
    BY <2>1, <2>2 DEF HeaderFits, descHeaderLen, Byte
  <2>. PayloadAt(offset + 1) \in Byte
    BY <2>1, PayloadInBuffer DEF IInv
  <2>3. offset + 14 <= PayloadLen
    BY <2>1, <2>2 DEF BodyFits, NextOffset, IsAtaReturn, DescPayloadLen,
       descHeaderLen, descAtaReturnPayloadLen, Byte
  <2>4. Len(sense) >= 8 + PayloadLen
    BY <2>1 DEF DescriptorIsValid, PayloadLen, senseHeaderLen
  <2>5. DescriptorRegister[reg] \in 0..13
    BY DEF DescriptorRegister
  <2>6. RegisterIndex(reg) = 8 + offset + DescriptorRegister[reg]
    BY <1>2 DEF RegisterIndex, senseHeaderLen
  <2>7. PayloadLen \in Nat
    BY <2>2 DEF Byte
  <2> DEFINE length == Len(sense)
             area == PayloadLen
             register == DescriptorRegister[reg]
  <2>8. length \in Nat /\ area \in Nat /\ offset \in Nat /\ register \in 0..13
    BY <1>1, <2>1, <2>5, <2>7
  <2>9. offset + 14 <= area /\ length >= 8 + area /\ RegisterIndex(reg) = 8 + offset + register
    BY <2>3, <2>4, <2>6
  <2> HIDE DEF length, area, register
  <2>10. RegisterIndex(reg) \in 0..(length - 1)
    BY <2>8, <2>9
  <2>11. QED
    BY <2>10 DEF length
<1>3. CASE ~IsDescriptorFormat(sense)
  <2>1. Len(sense) >= 14
    BY <1>3 DEF IInv, Established, Labels, FixedIsValid, fixedSenseMinLen
  <2>2. FixedRegister[reg] \in 0..13
    BY DEF FixedRegister
  <2>3. QED
    BY <1>1, <1>3, <2>1, <2>2, SMT DEF RegisterIndex
<1>4. QED
  BY <1>2, <1>3

-----------------------------------------------------------------------------

LEMMA InitInv == Init => IInv
<1> SUFFICES ASSUME Init PROVE IInv
  OBVIOUS
<1>1. TypeOK
  BY DEF Init, TypeOK, Labels
<1>2. Established
  BY DEF Init, Established, Labels
<1>3. QED
  BY <1>1, <1>2 DEF IInv

\* The buffer and the entry point never change, so neither does anything
\* that depends on them only.
LEMMA StepInv == IInv /\ [Next]_vars => IInv'
<1> SUFFICES ASSUME IInv, [Next]_vars PROVE IInv'
  OBVIOUS
<1>a. ~(IsFixedFormat(sense) /\ IsDescriptorFormat(sense))
  BY FormatsDisjoint
<1>b. DescriptorIsValid(sense) =>
        /\ PayloadLen \in Nat
        /\ \A i \in 0..(PayloadLen - 1) : PayloadAt(i) \in Nat
  <2>1. Byte \subseteq Nat
    BY DEF Byte
  <2>2. QED
    BY <2>1, PayloadInBuffer DEF IInv
<1>c. pc = "registers" =>
        \A reg \in {"status", "error", "count"} : At(sense, RegisterIndex(reg)) \in Byte
  <2>1. pc = "registers" => ReportsRegisters
    BY DEF IInv, Established, Labels, ReportsRegisters
  <2>2. sense \in Seq(Byte)
    BY SenseIsBytes DEF IInv
  <2>3. QED
    BY <2>1, <2>2, RegisterInBuffer, ByteAt
\* Whether the found descriptor is a whole one depends on the buffer and the
\* offset only.
<1>d. UNCHANGED <<sense, offset>> =>
        /\ UNCHANGED PayloadLen
        /\ UNCHANGED <<HeaderFits(offset), BodyFits(offset), IsAtaReturn(offset)>>
  BY DEF PayloadLen, PayloadAt, HeaderFits, DescPayloadLen, NextOffset, BodyFits, IsAtaReturn
<1> USE DEF IInv, GoTo, Return, args, walk
<1>1. CASE CheckFormat
  <2>1. TypeOK'
    BY <1>1 DEF CheckFormat, TypeOK, Labels
  <2>2. Established'
    BY <1>1, <1>d DEF CheckFormat, Established, Labels, TypeOK
  <2>3. QED
    BY <2>1, <2>2
<1>2. CASE CheckLength
  <2>1. TypeOK'
    BY <1>2 DEF CheckLength, TypeOK, Labels
  <2>2. Established'
    BY <1>2, <1>a, <1>b, <1>d DEF CheckLength, Established, Labels, TypeOK, Ops
  <2>3. QED
    BY <2>1, <2>2
<1>3. CASE WalkChain
  <2>1. /\ pc = "walk" /\ IsDescriptorFormat(sense) /\ DescriptorIsValid(sense)
        /\ ~IsFixedFormat(sense) /\ offset \in Nat /\ ~found /\ HasResponseCode(sense)
    BY <1>3, <1>a DEF WalkChain, Established, TypeOK, Labels
  <2>2. offset + 1 < PayloadLen => DescPayloadLen(offset) \in Nat
    BY <2>1, <1>b DEF DescPayloadLen
  <2>3. CASE UNCHANGED offset
    <3>1. TypeOK'
      BY <1>3, <2>3 DEF WalkChain, WalkReturns, TypeOK, Labels
    <3>2. Established'
      BY <1>3, <2>1, <2>3, <1>d DEF WalkChain, WalkReturns, Established, Labels, TypeOK, Ops
    <3>3. QED
      BY <3>1, <3>2
  <2>4. CASE /\ offset < PayloadLen /\ HeaderFits(offset) /\ BodyFits(offset)
             /\ offset' = NextOffset(offset) /\ GoTo("walk") /\ UNCHANGED <<found, args>>
    <3>1. NextOffset(offset) \in Nat /\ NextOffset(offset) <= PayloadLen
      BY <2>1, <2>2, <2>4, <1>b DEF NextOffset, HeaderFits, BodyFits, descHeaderLen
    <3>2. TypeOK'
      BY <2>4, <3>1 DEF TypeOK, Labels
    <3>3. Established'
      BY <2>1, <2>4, <3>1 DEF Established, Labels, PayloadLen
    <3>4. QED
      BY <3>2, <3>3
  <2>5. QED
    BY <1>3, <2>3, <2>4 DEF WalkChain
<1>4. CASE CheckSignature
  <2>1. TypeOK'
    BY <1>4 DEF CheckSignature, TypeOK, Labels
  <2>2. Established'
    BY <1>4, <1>a, <1>b, <1>d DEF CheckSignature, Established, Labels, TypeOK, Ops
  <2>3. QED
    BY <2>1, <2>2
<1>5. CASE ReadRegisters
  <2>1. pc = "registers" /\ pc' = "done" /\ UNCHANGED <<sense, op, offset, found>>
    BY <1>5 DEF ReadRegisters
  <2>2. ret' \in {Failed} \cup (IF op = "status" THEN StatusRet ELSE ModeRet)
    <3>1. CASE op = "status"
      <4> DEFINE st == At(sense, RegisterIndex("status"))
                 er == At(sense, RegisterIndex("error"))
      <4>1. ret' = [ok |-> TRUE, status |-> st, error |-> er]
        BY <1>5, <3>1 DEF ReadRegisters
      <4>2. st \in Byte /\ er \in Byte
        BY <1>c, <2>1
      <4> HIDE DEF st, er
      <4>3. ret' \in StatusRet
        BY <4>1, <4>2 DEF StatusRet
      <4>4. QED
        BY <3>1, <4>3
    <3>2. CASE op = "powerMode"
      <4> DEFINE count == At(sense, RegisterIndex("count"))
      <4>1. ret' = IF count \in PowerModes THEN [ok |-> TRUE, mode |-> count] ELSE Failed
        BY <1>5, <3>2 DEF ReadRegisters, ModeReport
      <4> HIDE DEF count
      <4>2. ret' \in {Failed} \cup ModeRet
        BY <4>1 DEF ModeRet
      <4>3. QED
        BY <3>2, <4>2
    <3>3. QED
      BY <3>1, <3>2 DEF TypeOK, Ops
  <2>3. TypeOK'
    BY <2>1, <2>2 DEF TypeOK, Labels
  <2>4. Established'
    BY <2>1, <1>d DEF Established, Labels
  <2>5. QED
    BY <2>3, <2>4
<1>6. CASE UNCHANGED vars
  <2>1. TypeOK'
    BY <1>6 DEF vars, TypeOK
  <2>2. Established'
    BY <1>6, <1>d DEF vars, Established
  <2>3. QED
    BY <2>1, <2>2
<1>7. QED
  BY <1>1, <1>2, <1>3, <1>4, <1>5, <1>6 DEF Next

-----------------------------------------------------------------------------

\* A step reads only indexes the buffer has, given what the steps before it
\* established (the length checks of IsValid and of the walk).
LEMMA InvImpliesNoPanic == IInv => NoPanic
<1> SUFFICES ASSUME IInv PROVE Reads \subseteq 0..(Len(sense) - 1)
  BY DEF NoPanic
<1>1. sense \in Seq(Byte) /\ Len(sense) \in Nat
  BY SenseIsBytes DEF IInv
<1>2. ~(IsFixedFormat(sense) /\ IsDescriptorFormat(sense))
  BY FormatsDisjoint
<1>3. CASE pc = "format"
  BY <1>1, <1>3 DEF Reads, HasResponseCode
<1>4. CASE pc = "length"
  BY <1>1, <1>4 DEF Reads, senseHeaderLen
<1>5. CASE pc = "walk"
  <2>1. DescriptorIsValid(sense) /\ offset \in Nat
    BY <1>5 DEF IInv, Established, TypeOK, Labels
  <2>2. /\ PayloadLen \in Nat
        /\ \A i \in 0..(PayloadLen - 1) : senseHeaderLen + i \in 0..(Len(sense) - 1)
    <3>1. Byte \subseteq Nat
      BY DEF Byte
    <3>2. QED
      BY <2>1, <3>1, PayloadInBuffer DEF IInv
  <2>3. CASE offset >= PayloadLen
    BY <1>5, <2>3 DEF Reads
  <2>4. CASE offset < PayloadLen /\ ~HeaderFits(offset)
    BY <1>5, <2>1, <2>2, <2>4 DEF Reads, senseHeaderLen
  <2>5. CASE offset < PayloadLen /\ HeaderFits(offset)
    <3>1. offset \in 0..(PayloadLen - 1) /\ offset + 1 \in 0..(PayloadLen - 1)
      BY <2>1, <2>2, <2>5 DEF HeaderFits, descHeaderLen
    <3>2. /\ senseHeaderLen + offset \in 0..(Len(sense) - 1)
          /\ senseHeaderLen + (offset + 1) \in 0..(Len(sense) - 1)
      BY <2>2, <3>1
    <3>3. Reads = {senseHeaderLen + offset, senseHeaderLen + offset + 1}
      BY <1>5, <2>1, <2>2, <2>5 DEF Reads, senseHeaderLen
    <3>4. QED
      BY <2>1, <3>2, <3>3 DEF senseHeaderLen
  <2>6. QED
    BY <2>1, <2>2, <2>3, <2>4, <2>5
<1>6. CASE pc = "signature"
  <2>1. SignatureIndexes(sense) \subseteq 0..(Len(sense) - 1)
    <3>1. CASE IsFixedFormat(sense)
      <4>1. Len(sense) >= 14
        BY <1>6, <3>1 DEF IInv, Established, Labels, FixedIsValid, fixedSenseMinLen
      <4>2. QED
        BY <1>1, <3>1, <4>1 DEF SignatureIndexes
    <3>2. CASE ~IsFixedFormat(sense)
      <4>1. Len(sense) >= 8
        BY <1>6, <3>2 DEF IInv, Established, Labels, DescriptorIsValid, senseHeaderLen
      <4>2. QED
        BY <1>1, <3>2, <4>1 DEF SignatureIndexes
    <3>3. QED
      BY <3>1, <3>2
  <2>2. ReportsRegisters => /\ RegisterIndex("status") \in 0..(Len(sense) - 1)
                            /\ RegisterIndex("error") \in 0..(Len(sense) - 1)
    BY <1>6, RegisterInBuffer
  <2>3. QED
    BY <1>6, <2>1, <2>2 DEF Reads
<1>7. CASE pc = "registers"
  <2>1. ReportsRegisters
    BY <1>7 DEF IInv, Established, Labels, ReportsRegisters
  <2>2. \A reg \in {"status", "error", "count"} : RegisterIndex(reg) \in 0..(Len(sense) - 1)
    BY <1>7, <2>1, RegisterInBuffer
  <2>3. QED
    BY <1>7, <2>2 DEF Reads
<1>8. CASE pc = "done"
  BY <1>8 DEF Reads
<1>9. QED
  BY <1>3, <1>4, <1>5, <1>6, <1>7, <1>8 DEF IInv, TypeOK, Labels

\* Throughout every call, for every set of buffers, each step finds what it
\* relies on, and the variables keep their types; in particular a success
\* carries byte values, and a power mode that exists.
THEOREM Invariance == Spec => []IInv
BY InitInv, StepInv, PTL DEF Spec

\* No byte string, of any length, makes ataSenseStatus or
\* ataPowerModeFromSense panic with an index out of range.
THEOREM NeverPanics == Spec => []NoPanic
BY Invariance, InvImpliesNoPanic, PTL

-----------------------------------------------------------------------------
(* The answers.  Between the steps the walk has visited the descriptors of  *)
(* the chain one after the other, none of them a return so far; what it     *)
(* found, or that it found nothing, is kept until the registers are read.   *)

\* The offset is the start of the n-th descriptor; those in front are others.
Visiting(n) ==
  /\ Starts(sense)[n] = offset
  /\ \A m \in 0..(n - 1) : m \notin ReturnNumbers(sense)

Walked ==
  /\ pc = "walk" => \E n \in Nat : Visiting(n)
  /\ found => ReturnNumbers(sense) # {} /\ FirstReturn(sense) = offset
  /\ pc = "signature" /\ op = "status" /\ IsDescriptorFormat(sense) /\ ~found
       => ReturnNumbers(sense) = {}
  /\ pc = "registers" \/ (pc = "walk" /\ op = "powerMode") => IsAtaPassThroughInfo(sense)

AnswerInv == Walked /\ AnswersFirstReturn

\* The index of the code is that of SenseAnswer.
LEMMA RegisterIs ==
  ASSUME IInv, Walked, pc = "registers"
  PROVE  /\ CarriesRegisters(sense)
         /\ \A reg : At(sense, RegisterIndex(reg)) = Register(sense, reg)
<1>1. /\ HasResponseCode(sense) /\ IsAtaPassThroughInfo(sense)
      /\ IsDescriptorFormat(sense) \/ IsFixedFormat(sense)
      /\ IsDescriptorFormat(sense) => DescriptorIsValid(sense) /\ found
      /\ IsFixedFormat(sense) => FixedIsValid(sense)
  BY DEF IInv, Established, Walked, Labels
<1>2. ~(IsFixedFormat(sense) /\ IsDescriptorFormat(sense))
  BY FormatsDisjoint
<1>3. found => ReturnNumbers(sense) # {} /\ FirstReturn(sense) = offset
  BY DEF Walked
<1>4. QED
  BY <1>1, <1>2, <1>3 DEF CarriesRegisters, Register, RegisterIndex

\* A round of the loop keeps to the chain, and both ways out of it are right.
LEMMA WalkAnswers ==
  ASSUME IInv, AnswerInv, WalkChain
  PROVE  AnswerInv'
<1>1. /\ pc = "walk" /\ IsDescriptorFormat(sense) /\ DescriptorIsValid(sense)
      /\ HasResponseCode(sense) /\ ~IsFixedFormat(sense) /\ offset \in Nat /\ ~found
      /\ UNCHANGED <<sense, op>>
  BY FormatsDisjoint DEF WalkChain, args, IInv, Established, TypeOK, Labels
<1>2. PICK n \in Nat : Visiting(n)
  BY <1>1 DEF AnswerInv, Walked
<1>3. sense \in Seq(Byte) /\ PayloadLen \in Nat
  BY <1>1, SenseIsBytes, AreaInBuffer, BytesAreNat DEF IInv, PayloadLen
<1>4. PayloadAt(offset) = At(sense, senseHeaderLen + offset)
        /\ PayloadAt(offset + 1) = At(sense, senseHeaderLen + offset + 1)
  <2>1. senseHeaderLen + (offset + 1) = senseHeaderLen + offset + 1
    BY <1>1 DEF senseHeaderLen
  <2>2. QED
    BY <2>1 DEF PayloadAt
<1>5. HeaderFits(offset) /\ BodyFits(offset) <=> IsComplete(sense, offset)
  BY <1>4 DEF HeaderFits, BodyFits, NextOffset, DescPayloadLen, PayloadLen, IsComplete, DescriptorEnd
<1>6. HeaderFits(offset) => offset < PayloadLen /\ ~(offset >= PayloadLen)
  BY <1>1, <1>3 DEF HeaderFits, descHeaderLen
<1>7. IsAtaReturn(offset) <=> IsReturn(sense, offset)
  BY <1>4 DEF IsAtaReturn, IsReturn, DescPayloadLen
<1>8. /\ Starts(sense)[n] = offset /\ offset # -1
      /\ \A m \in 0..(n - 1) : m \notin ReturnNumbers(sense)
  BY <1>1, <1>2 DEF Visiting
<1>9. CASE WalkReturns(FALSE) /\ UNCHANGED offset /\ ~IsComplete(sense, offset)
  <2>1. ReturnNumbers(sense) = {}
    BY <1>1, <1>3, <1>8, <1>9, WalkFindsNone
  <2>2. ataPowerModeFromSense(sense) = Failed
    BY <1>1, <2>1 DEF ataPowerModeFromSense, CarriesRegisters
  <2>3. ~found'
    BY <1>9, Zenon DEF WalkReturns
  <2>4. IF op = "status" THEN pc' = "signature" ELSE pc' = "done" /\ ret' = Failed
    BY <1>9 DEF WalkReturns, GoTo, Return
  <2>5. QED
    BY <1>1, <2>1, <2>2, <2>3, <2>4 DEF AnswerInv, Walked, AnswersFirstReturn
<1>10. CASE WalkReturns(TRUE) /\ UNCHANGED offset /\ IsComplete(sense, offset) /\ IsAtaReturn(offset)
  <2>1. ReturnNumbers(sense) # {} /\ FirstReturn(sense) = offset
    BY <1>1, <1>3, <1>7, <1>8, <1>10, WalkFinds
  <2>2. IF op = "status" THEN pc' = "signature" ELSE pc' = "registers"
    BY <1>10 DEF WalkReturns, GoTo
  <2>3. found'
    BY <1>10, Zenon DEF WalkReturns
  <2>4. op = "powerMode" => IsAtaPassThroughInfo(sense)
    BY <1>1 DEF AnswerInv, Walked
  <2>5. op \in {"status", "powerMode"}
    BY DEF IInv, TypeOK, Ops
  <2>6. QED
    BY <1>1, <1>10, <2>1, <2>2, <2>3, <2>4, <2>5 DEF AnswerInv, Walked, AnswersFirstReturn
<1>11. CASE /\ IsComplete(sense, offset) /\ ~IsAtaReturn(offset)
            /\ offset' = NextOffset(offset) /\ GoTo("walk") /\ UNCHANGED found
  <2>1. Starts(sense)[n + 1] = NextOffset(offset)
    <3>1. Starts(sense)[n + 1] = After(sense, offset)
      BY <1>1, <1>3, <1>8, StartsOf
    <3>2. QED
      BY <1>4, <1>8, <1>11, <3>1 DEF After, NextOffset, DescPayloadLen, DescriptorEnd
  <2>2. n \notin ReturnNumbers(sense)
    BY <1>7, <1>8, <1>11 DEF ReturnNumbers, IsReturn
  <2>3. \A m \in 0..(n + 1 - 1) : m \notin ReturnNumbers(sense)
    <3>1. \A m \in 0..(n + 1 - 1) : m = n \/ m \in 0..(n - 1)
      OBVIOUS
    <3>2. QED
      BY <1>8, <2>2, <3>1
  <2>4. \E k \in Nat : Starts(sense)[k] = NextOffset(offset) /\ \A m \in 0..(k - 1) : m \notin ReturnNumbers(sense)
    BY <2>1, <2>3
  <2>5. \E k \in Nat : Visiting(k)'
    BY <1>1, <1>11, <2>4 DEF Visiting
  <2>6. ~found' /\ pc' = "walk"
    BY <1>1, <1>11 DEF GoTo
  <2>7. op = "powerMode" => IsAtaPassThroughInfo(sense)
    BY <1>1 DEF AnswerInv, Walked
  <2>8. QED
    BY <1>1, <2>5, <2>6, <2>7 DEF AnswerInv, Walked, AnswersFirstReturn
<1>12. QED
  BY <1>5, <1>6, <1>9, <1>10, <1>11 DEF WalkChain

\* The calls answer as SenseAnswer says.
LEMMA StepAnswers ==
  ASSUME IInv, AnswerInv, [Next]_vars
  PROVE  AnswerInv'
<1>1. ~(IsFixedFormat(sense) /\ IsDescriptorFormat(sense)) /\ op \in {"status", "powerMode"}
  BY FormatsDisjoint DEF IInv, TypeOK, Ops
<1>2. CASE CheckFormat
  <2>1. pc = "format" /\ UNCHANGED <<sense, op, offset, found>> /\ ~found
    BY <1>2 DEF CheckFormat, args, walk, IInv, Established
  <2>2. CASE pc' = "length"
    BY <2>1, <2>2 DEF AnswerInv, Walked, AnswersFirstReturn
  <2>3. CASE /\ HasResponseCode(sense) => ~IsDescriptorFormat(sense) /\ ~IsFixedFormat(sense)
             /\ Return(Failed)
    <3>1. ~CarriesRegisters(sense)
      BY <2>3 DEF CarriesRegisters
    <3>2. pc' = "done" /\ ret' = Failed
      BY <2>3 DEF Return
    <3>3. QED
      BY <1>1, <2>1, <3>1, <3>2 DEF AnswerInv, Walked, AnswersFirstReturn, ataSenseStatus, ataPowerModeFromSense
  <2>4. QED
    BY <1>2, <2>2, <2>3 DEF CheckFormat, GoTo
<1>3. CASE CheckLength
  <2>1. pc = "length" /\ UNCHANGED <<sense, op, offset, found>> /\ ~found /\ offset = 0
    BY <1>3 DEF CheckLength, args, walk, IInv, Established
  <2>2. CASE /\ IsDescriptorFormat(sense) /\ DescriptorIsValid(sense)
             /\ GoTo(IF op = "status" THEN "walk" ELSE "signature")
    <3>1. Visiting(0)
      BY <2>1, <2>2, SenseIsBytes, StartsOf, SMT DEF Visiting, IInv
    <3>2. \E n \in Nat : Visiting(n)'
      BY <2>1, <3>1 DEF Visiting
    <3>3. pc' = IF op = "status" THEN "walk" ELSE "signature"
      BY <2>2 DEF GoTo
    <3>4. QED
      BY <1>1, <2>1, <3>2, <3>3 DEF AnswerInv, Walked, AnswersFirstReturn
  <2>3. CASE IsFixedFormat(sense) /\ FixedIsValid(sense) /\ GoTo("signature")
    <3>1. pc' = "signature"
      BY <2>3 DEF GoTo
    <3>2. QED
      BY <1>1, <2>1, <2>3, <3>1 DEF AnswerInv, Walked, AnswersFirstReturn
  <2>4. CASE /\ IsDescriptorFormat(sense) => ~DescriptorIsValid(sense)
             /\ IsFixedFormat(sense) => ~FixedIsValid(sense)
             /\ Return(Failed)
    <3>1. ~CarriesRegisters(sense)
      BY <2>4 DEF CarriesRegisters
    <3>2. pc' = "done" /\ ret' = Failed
      BY <2>4 DEF Return
    <3>3. QED
      BY <1>1, <2>1, <3>1, <3>2 DEF AnswerInv, Walked, AnswersFirstReturn, ataSenseStatus, ataPowerModeFromSense
  <2>5. QED
    BY <1>3, <2>2, <2>3, <2>4 DEF CheckLength
<1>4. CASE WalkChain
  BY <1>4, WalkAnswers
<1>5. CASE CheckSignature
  <2>1. pc = "signature" /\ UNCHANGED <<sense, op, offset, found>>
    BY <1>5 DEF CheckSignature, args, walk
  <2>2. CASE ~IsAtaPassThroughInfo(sense) /\ Return(Failed)
    <3>1. ~CarriesRegisters(sense)
      BY <2>2 DEF CarriesRegisters
    <3>2. pc' = "done" /\ ret' = Failed
      BY <2>2 DEF Return
    <3>3. QED
      BY <2>1, <3>1, <3>2 DEF AnswerInv, Walked, AnswersFirstReturn, ataSenseStatus, ataPowerModeFromSense
  <2>3. CASE IsAtaPassThroughInfo(sense) /\ GoTo("registers")
    <3>1. pc' = "registers"
      BY <2>3 DEF GoTo
    <3>2. QED
      BY <2>1, <2>3, <3>1 DEF AnswerInv, Walked, AnswersFirstReturn
  <2>4. CASE /\ IsAtaPassThroughInfo(sense) /\ IsDescriptorFormat(sense) /\ op = "powerMode"
             /\ GoTo("walk")
    <3>1. pc' = "walk" /\ offset = 0 /\ ~found /\ DescriptorIsValid(sense)
      BY <2>1, <2>4 DEF GoTo, IInv, Established
    <3>2. Visiting(0)
      BY <3>1, SenseIsBytes, StartsOf DEF Visiting, IInv
    <3>3. \E n \in Nat : Visiting(n)'
      BY <2>1, <3>2 DEF Visiting
    <3>4. QED
      BY <2>1, <2>4, <3>1, <3>3 DEF AnswerInv, Walked, AnswersFirstReturn
  <2>5. CASE IsDescriptorFormat(sense) /\ op = "status" /\ ~found /\ Return(Failed)
    <3>1. ReturnNumbers(sense) = {}
      BY <2>1, <2>5 DEF AnswerInv, Walked
    <3>2. ataSenseStatus(sense) = Failed
      BY <1>1, <2>5, <3>1 DEF ataSenseStatus, CarriesRegisters
    <3>3. pc' = "done" /\ ret' = Failed
      BY <2>5 DEF Return
    <3>4. QED
      BY <2>1, <2>5, <3>2, <3>3 DEF AnswerInv, Walked, AnswersFirstReturn
  <2>6. QED
    BY <1>5, <2>2, <2>3, <2>4, <2>5 DEF CheckSignature
<1>6. CASE ReadRegisters
  <2>1. pc = "registers" /\ pc' = "done" /\ UNCHANGED <<sense, op, offset, found>>
    BY <1>6 DEF ReadRegisters, Return, args, walk
  <2>2. /\ CarriesRegisters(sense)
        /\ \A reg : At(sense, RegisterIndex(reg)) = Register(sense, reg)
    BY <2>1, RegisterIs DEF AnswerInv
  <2>3. ret' = IF op = "status" THEN ataSenseStatus(sense) ELSE ataPowerModeFromSense(sense)
    <3>1. CASE op = "status"
      BY <1>6, <2>2, <3>1 DEF ReadRegisters, Return, ataSenseStatus
    <3>2. CASE op = "powerMode"
      BY <1>6, <2>2, <3>2 DEF ReadRegisters, Return, ModeReport, ataPowerModeFromSense
    <3>3. QED
      BY <1>1, <3>1, <3>2
  <2>4. QED
    BY <2>1, <2>3 DEF AnswerInv, Walked, AnswersFirstReturn
<1>7. CASE UNCHANGED vars
  BY <1>7 DEF vars, AnswerInv, Walked, AnswersFirstReturn, Visiting
<1>8. QED
  BY <1>2, <1>3, <1>4, <1>5, <1>6, <1>7 DEF Next

\* For every byte string: ataSenseStatus and ataPowerModeFromSense answer the
\* registers of the first whole ATA Status Return descriptor of the chain, or of
\* fixed format sense data, and an error when there are none.
THEOREM DecodersAnswer == Spec => []AnswersFirstReturn
<1>1. Init => AnswerInv
  BY DEF Init, AnswerInv, Walked, AnswersFirstReturn
<1>2. AnswerInv => AnswersFirstReturn
  BY DEF AnswerInv
<1>3. QED
  BY <1>1, <1>2, InitInv, StepInv, StepAnswers, PTL DEF Spec

-----------------------------------------------------------------------------
(* Reports, whole and cut short.                                           *)

Begins(s, report) == Len(s) \in 0..Len(report) /\ \A i \in 1..Len(s) : s[i] = report[i]

LEMMA CutBytes ==
  ASSUME NEW report \in Seq(Byte), NEW s \in Seq(Byte), IsCut(s, report)
  PROVE  Begins(s, report)
<1>1. /\ Len(s) \in Nat /\ Len(report) \in Nat /\ Len(s) <= Len(report)
      /\ s = SubSeq(report, 1, Len(s))
  BY DEF IsCut
<1>2. \A n \in 0..Len(report) : \A i \in 1..n : SubSeq(report, 1, n)[i] = report[i]
  OBVIOUS
<1>3. QED
  BY <1>1, <1>2 DEF Begins

\* The area of descriptors is never complete in a report that is cut short.
LEMMA CutDescriptorReport ==
  ASSUME NEW regs \in AtaRegisters, NEW before \in Seq(Byte), Len(before) <= 241,
         NEW s \in Seq(Byte), IsCut(s, DescriptorReport(before, regs)), CarriesRegisters(s)
  PROVE  s = DescriptorReport(before, regs)
<1> DEFINE report == DescriptorReport(before, regs)
           k == Len(before)
<1>1. /\ report \in Seq(Byte) /\ Len(report) = 22 + k
      /\ report[1] = 114 /\ report[2] = 1 /\ report[3] = 0 /\ report[4] = 29 /\ report[8] = 14 + k
      /\ \A i \in 1..k : report[8 + i] = before[i]
      /\ report[9 + k] = 9 /\ report[10 + k] = 12
      /\ report[12 + k] = regs.error /\ report[14 + k] = regs.count /\ report[22 + k] = regs.status
  BY ReportBytes, Zenon
<1>2. k \in Nat
  OBVIOUS
<1> HIDE DEF report, k
<1>3. Len(s) \in 0..(22 + k) /\ \A i \in 1..Len(s) : s[i] = report[i]
  <2>1. IsCut(s, report)
    BY DEF report
  <2>2. Begins(s, report)
    BY <1>1, <2>1, CutBytes
  <2>3. QED
    BY <1>1, <2>2 DEF Begins
<1>4. Len(s) >= 1
  BY DEF CarriesRegisters, HasResponseCode
<1>5. s[1] = 114
  <2>1. 1 \in 1..Len(s)
    BY <1>2, <1>3, <1>4
  <2>2. QED
    BY <1>1, <1>3, <2>1
<1>6. DescriptorIsValid(s)
  BY <1>5 DEF CarriesRegisters, IsFixedFormat, Format, ResponseCode, At, FixedFormat
<1>7. Len(s) >= 8
  BY <1>6 DEF DescriptorIsValid, senseHeaderLen
<1>8. s[8] = 14 + k
  BY <1>1, <1>2, <1>3, <1>7
<1>9. Len(s) = 22 + k
  BY <1>2, <1>3, <1>6, <1>8 DEF DescriptorIsValid, senseHeaderLen, AdditionalSenseLength, At
<1>10. s = SubSeq(report, 1, Len(report))
  BY <1>1, <1>9 DEF IsCut, report
<1>11. QED
  BY <1>1, <1>10 DEF report

\* The first 14 bytes of fixed format sense data hold all registers.
LEMMA CutFixedReport ==
  ASSUME NEW regs \in AtaRegisters,
         NEW s \in Seq(Byte), IsCut(s, FixedReport(regs)), CarriesRegisters(s)
  PROVE  Reports(s, regs)
<1> DEFINE report == FixedReport(regs)
<1>1. /\ report \in Seq(Byte) /\ Len(report) = 18 /\ report[1] = 112
      /\ report[4] = regs.error /\ report[5] = regs.status /\ report[7] = regs.count
  BY DEF FixedReport, FixedFormat, RecoveredError, AtaPtInfoASC, AtaPtInfoASCQ, AtaRegisters, Byte
<1> HIDE DEF report
<1>2. Len(s) \in 0..18 /\ \A i \in 1..Len(s) : s[i] = report[i]
  <2>1. IsCut(s, report)
    BY DEF report
  <2>2. Begins(s, report)
    BY <1>1, <2>1, CutBytes
  <2>3. QED
    BY <1>1, <2>2 DEF Begins
<1>3. Len(s) >= 1
  BY DEF CarriesRegisters, HasResponseCode
<1>4. s[1] = 112
  BY <1>1, <1>2, <1>3
<1>5. IsFixedFormat(s) /\ ~IsDescriptorFormat(s)
  BY <1>4 DEF IsFixedFormat, IsDescriptorFormat, Format, ResponseCode, At, FixedFormat, DescriptorFormat
<1>6. Len(s) >= 14
  BY <1>5 DEF CarriesRegisters, FixedIsValid, fixedSenseMinLen
<1>7. s[4] = regs.error /\ s[5] = regs.status /\ s[7] = regs.count
  BY <1>1, <1>2, <1>6
<1>8. \A reg : Register(s, reg) = At(s, FixedRegister[reg])
  BY <1>5 DEF Register
<1>9. FixedRegister["error"] = 3 /\ FixedRegister["status"] = 4 /\ FixedRegister["count"] = 6
  BY DEF FixedRegister
<1>10. QED
  BY <1>7, <1>8, <1>9 DEF Reports, At

LEMMA ReportsAreRead ==
  ASSUME NEW regs \in Registers, NEW report \in ReportsOf(regs), NEW s \in Seq(Byte)
  PROVE  /\ Reports(report, regs)
         /\ IsCut(s, report) /\ CarriesRegisters(s) => Reports(s, regs)
<1>1. regs \in AtaRegisters
  BY ReportsAssumption
<1>2. CASE report = FixedReport(regs)
  BY <1>1, <1>2, FixedIsRead, CutFixedReport
<1>3. ASSUME NEW before \in Leading, report = DescriptorReport(before, regs)
      PROVE  /\ Reports(report, regs)
             /\ IsCut(s, report) /\ CarriesRegisters(s) => Reports(s, regs)
  <2>1. MayLead(before) /\ before \in Seq(Byte) /\ Len(before) <= 241
    BY ReportsAssumption DEF MayLead, MaxLeading, descHeaderLen, descAtaReturnPayloadLen
  <2>2. Reports(report, regs)
    BY <1>1, <1>3, <2>1, DescriptorIsRead
  <2>3. IsCut(s, report) /\ CarriesRegisters(s) => s = report
    BY <1>1, <1>3, <2>1, CutDescriptorReport
  <2>4. QED
    BY <2>2, <2>3
<1>4. QED
  BY <1>2, <1>3 DEF ReportsOf

\* For all registers, in both formats and after any chain of other descriptors: a report
\* that is cut short anywhere is refused by ataSenseStatus and ataPowerModeFromSense or read
\* as what it says, and a whole one is accepted.
THEOREM ReportsAreDecoded == Spec => []ReportsDecoded
<1>1. TypeOK /\ AnswersFirstReturn => ReportsDecoded
  <2> SUFFICES ASSUME TypeOK, AnswersFirstReturn, pc = "done",
                      NEW regs \in Registers, NEW report \in ReportsOf(regs)
               PROVE  /\ ret.ok /\ IsCut(sense, report)
                           => ret = IF op = "status"
                                    THEN [ok |-> TRUE, status |-> regs.status, error |-> regs.error]
                                    ELSE [ok |-> TRUE, mode |-> regs.count]
                      /\ sense = report => (ret.ok <=> op = "status" \/ regs.count \in PowerModes)
    BY DEF ReportsDecoded
  <2>1. sense \in Seq(Byte)
    BY SenseIsBytes
  <2>2. ret = IF op = "status" THEN ataSenseStatus(sense) ELSE ataPowerModeFromSense(sense)
    BY DEF AnswersFirstReturn
  <2>3. ret.ok => CarriesRegisters(sense)
    BY <2>2 DEF ataSenseStatus, ataPowerModeFromSense, Failed
  <2>4. ASSUME Reports(sense, regs)
        PROVE  /\ ret.ok => ret = IF op = "status"
                                  THEN [ok |-> TRUE, status |-> regs.status, error |-> regs.error]
                                  ELSE [ok |-> TRUE, mode |-> regs.count]
               /\ ret.ok <=> op = "status" \/ regs.count \in PowerModes
    BY <2>2, <2>4 DEF Reports, ataSenseStatus, ataPowerModeFromSense, Failed
  <2>5. QED
    BY <2>1, <2>3, <2>4, ReportsAreRead
<1>2. IInv => TypeOK
  BY DEF IInv
<1>3. QED
  BY <1>1, <1>2, Invariance, DecodersAnswer, PTL

-----------------------------------------------------------------------------
(* The call goes on: what a weakly fair call needs in order to return.     *)

\* A round of the walk that goes on passes a header, inside the descriptor area.
LEMMA RoundGoesOn ==
  ASSUME IInv, pc = "walk", offset < PayloadLen, HeaderFits(offset), BodyFits(offset)
  PROVE  /\ offset + descHeaderLen <= NextOffset(offset)
         /\ NextOffset(offset) <= PayloadLen
<1>1. offset \in Nat /\ DescriptorIsValid(sense)
  BY DEF IInv, Established, TypeOK
<1>2. PayloadLen \in Nat /\ DescPayloadLen(offset) \in Nat
  <2>0. Byte \subseteq Nat
    BY DEF Byte
  <2>1. PayloadLen \in Nat /\ \A i \in 0..(PayloadLen - 1) : PayloadAt(i) \in Nat
    BY <1>1, <2>0, PayloadInBuffer DEF IInv
  <2>2. offset + 1 \in 0..(PayloadLen - 1)
    BY <1>1, <2>1 DEF HeaderFits, descHeaderLen
  <2>3. QED
    BY <2>1, <2>2 DEF DescPayloadLen
<1>3. QED
  BY <1>1, <1>2 DEF NextOffset, BodyFits, descHeaderLen

\* Every step takes the call to a later stage, or is such a round.
LEMMA StepGoesOn ==
  ASSUME IInv, Next
  PROVE  \/ StageOrder[pc'] > StageOrder[pc]
         \/ /\ pc = "walk" /\ pc' = "walk"
            /\ offset + descHeaderLen <= offset' /\ offset' <= PayloadLen
<1>1. op \in Ops
  BY DEF IInv, TypeOK
<1> USE DEF StageOrder, GoTo, Return
<1>2. CASE CheckFormat
  BY <1>1, <1>2 DEF CheckFormat, Ops
<1>3. CASE CheckLength
  BY <1>1, <1>3 DEF CheckLength, Ops
<1>4. CASE WalkChain
  <2>1. CASE \E ok \in BOOLEAN : WalkReturns(ok)
    BY <1>1, <1>4, <2>1 DEF WalkChain, WalkReturns, Ops
  <2>2. CASE /\ offset < PayloadLen /\ HeaderFits(offset) /\ BodyFits(offset)
             /\ offset' = NextOffset(offset) /\ GoTo("walk")
    BY <1>4, <2>2, RoundGoesOn DEF WalkChain
  <2>3. QED
    BY <1>4, <2>1, <2>2 DEF WalkChain
<1>5. CASE CheckSignature
  BY <1>1, <1>5 DEF CheckSignature, Ops
<1>6. CASE ReadRegisters
  BY <1>1, <1>6 DEF ReadRegisters, Ops
<1>7. QED
  BY <1>2, <1>3, <1>4, <1>5, <1>6 DEF Next

\* For every byte string: each step takes a decoder to a later stage or past a descriptor
\* of the area, so that no lengths make it walk in circles or stand still.
THEOREM DecodersAdvance == Spec => CallGoesOn
<1>1. IInv /\ [Next]_vars =>
        [\/ StageOrder[pc'] > StageOrder[pc]
         \/ /\ pc = "walk" /\ pc' = "walk"
            /\ offset + descHeaderLen <= offset' /\ offset' <= PayloadLen]_vars
  BY StepGoesOn
<1>2. QED
  BY <1>1, InitInv, StepInv, PTL DEF Spec, CallGoesOn
=============================================================================
