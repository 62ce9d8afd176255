---------------------------- MODULE SenseDecoder ----------------------------
(***************************************************************************)
(* Decoding the sense data of a CK_COND ATA PASS-THROUGH command: the two  *)
(* entry points ataSenseStatus (src/sata_sense.go) and                     *)
(* ataPowerModeFromSense (src/sata_power.go), and the loop of              *)
(* findAtaReturnDescriptor, which walks a chain of descriptors whose       *)
(* lengths come from the device.                                           *)
(*                                                                         *)
(* A behaviour is one call.  The buffer is any byte string: whatever the   *)
(* drive, the SAT layer or a USB bridge wrote, cut to the length the sg    *)
(* driver reports.  Reads is the set of indexes the step from the current  *)
(* state takes from the buffer; Go panics when one of them is outside it.  *)
(***************************************************************************)
EXTENDS SenseAnswer

CONSTANTS Buffers,    \* the sense buffers the call may be given
          Registers,  \* what a report may carry
          Leading     \* what may be in front of its ATA Status Return

ASSUME BuffersAssumption == Buffers \subseteq Seq(Byte)
ASSUME ReportsAssumption ==
  /\ Registers \subseteq AtaRegisters
  /\ \A before \in Leading : MayLead(before)

VARIABLES sense,   \* the argument
          op,      \* which entry point was called
          pc,      \* what the call does next
          offset,  \* findAtaReturnDescriptor: offset into the payload
          found,   \* findAtaReturnDescriptor: its second result
          ret      \* what the call returns

vars == <<sense, op, pc, offset, found, ret>>
args == <<sense, op>>
walk == <<offset, found>>

Ops == {"status", "powerMode"}
Labels == {"format", "length", "walk", "signature", "registers", "done"}

StatusRet == [ok : {TRUE}, status : Byte, error : Byte]
ModeRet   == [ok : {TRUE}, mode : PowerModes]

GoTo(label)    == pc' = label /\ ret' = ret
Return(result) == pc' = "done" /\ ret' = result

-----------------------------------------------------------------------------
(* The descriptor area: payload[i] is sense[senseHeaderLen + i].           *)

PayloadLen   == AdditionalSenseLength(sense)
PayloadAt(i) == At(sense, senseHeaderLen + i)

HeaderFits(o)     == o + descHeaderLen <= PayloadLen
DescPayloadLen(o) == PayloadAt(o + 1)
NextOffset_WithoutHeader(o) == o + DescPayloadLen(o)
NextOffset(o)     == o + descHeaderLen + DescPayloadLen(o)
BodyFits(o)       == NextOffset(o) <= PayloadLen

IsAtaReturn_ExactLength(o) ==
  /\ PayloadAt(o) = AtaReturnDescriptor
  /\ DescPayloadLen(o) = descAtaReturnPayloadLen
IsAtaReturn(o) ==
  /\ PayloadAt(o) = AtaReturnDescriptor
  /\ DescPayloadLen(o) >= descAtaReturnPayloadLen

\* Where a register of the report is in the buffer.
RegisterIndex(reg) ==
  IF IsDescriptorFormat(sense)
  THEN senseHeaderLen + offset + DescriptorRegister[reg]
  ELSE FixedRegister[reg]

-----------------------------------------------------------------------------

Init ==
  /\ sense \in Buffers
  /\ op \in Ops
  /\ pc = "format"
  /\ offset = 0
  /\ found = FALSE
  /\ ret = Failed

\* HasResponseCode and the switch on the format.
CheckFormat ==
  /\ pc = "format"
  /\ \/ /\ HasResponseCode(sense)
        /\ IsDescriptorFormat(sense) \/ IsFixedFormat(sense)
        /\ GoTo("length")
     \/ /\ HasResponseCode(sense) => ~IsDescriptorFormat(sense) /\ ~IsFixedFormat(sense)
        /\ Return(Failed)
  /\ UNCHANGED <<args, walk>>

\* IsValid of the format.  With descriptor format sense data ataSenseStatus
\* walks the chain first; ataPowerModeFromSense looks at the signature first.
CheckLength ==
  /\ pc = "length"
  /\ \/ /\ IsDescriptorFormat(sense) /\ DescriptorIsValid(sense)
        /\ GoTo(IF op = "status" THEN "walk" ELSE "signature")
     \/ /\ IsFixedFormat(sense) /\ FixedIsValid(sense)
        /\ GoTo("signature")
     \/ /\ IsDescriptorFormat(sense) => ~DescriptorIsValid(sense)
        /\ IsFixedFormat(sense) => ~FixedIsValid(sense)
        /\ Return(Failed)
  /\ UNCHANGED <<args, walk>>

\* findAtaReturnDescriptor returns: ataSenseStatus goes on to the signature,
\* ataPowerModeFromSense to the registers if there is a descriptor.
WalkReturns(ok) ==
  /\ found' = ok
  /\ IF op = "status" THEN GoTo("signature")
     ELSE IF ok THEN GoTo("registers") ELSE Return(Failed)

\* One evaluation of the loop condition and, if it holds, of the loop body.
WalkChain ==
  /\ pc = "walk"
  /\ \/ /\ \/ offset >= PayloadLen
           \/ offset < PayloadLen /\ ~(HeaderFits(offset) /\ BodyFits(offset))
        /\ WalkReturns(FALSE)
        /\ UNCHANGED offset
     \/ /\ offset < PayloadLen /\ HeaderFits(offset) /\ BodyFits(offset)
        /\ IsAtaReturn(offset)
        /\ WalkReturns(TRUE)
        /\ UNCHANGED offset
     \/ /\ offset < PayloadLen /\ HeaderFits(offset) /\ BodyFits(offset)
        /\ ~IsAtaReturn(offset)
        /\ offset' = NextOffset(offset)
        /\ GoTo("walk") /\ UNCHANGED found
  /\ UNCHANGED args

\* IsAtaPassThroughInfo.  In ataSenseStatus a report without the signature is
\* a failed command, and one with it but without a descriptor is malformed.
CheckSignature ==
  /\ pc = "signature"
  /\ \/ ~IsAtaPassThroughInfo(sense) /\ Return(Failed)
     \/ IsAtaPassThroughInfo(sense) /\ IsFixedFormat(sense) /\ GoTo("registers")
     \/ /\ IsAtaPassThroughInfo(sense) /\ IsDescriptorFormat(sense) /\ op = "powerMode"
        /\ GoTo("walk")
     \/ /\ IsAtaPassThroughInfo(sense) /\ IsDescriptorFormat(sense) /\ op = "status"
        /\ IF found THEN GoTo("registers") ELSE Return(Failed)
  /\ UNCHANGED <<args, walk>>

\* CHECK POWER MODE must name a power mode.
ModeReport(count) ==
  IF count \in PowerModes THEN [ok |-> TRUE, mode |-> count] ELSE Failed

\* The registers the caller gets.
ReadRegisters ==
  /\ pc = "registers"
  /\ \/ /\ op = "status"
        /\ Return([ok |-> TRUE,
                   status |-> At(sense, RegisterIndex("status")),
                   error  |-> At(sense, RegisterIndex("error"))])
     \/ /\ op = "powerMode"
        /\ Return(ModeReport(At(sense, RegisterIndex("count"))))
  /\ UNCHANGED <<args, walk>>

Next ==
  \/ CheckFormat
  \/ CheckLength
  \/ WalkChain
  \/ CheckSignature
  \/ ReadRegisters

Spec     == Init /\ [][Next]_vars
FairSpec == Spec /\ WF_vars(Next)

-----------------------------------------------------------------------------
(* The indexes of the buffer the step from the current state reads.  The   *)
(* status and error registers of a report without the signature are read   *)
(* as well, for the error message.                                         *)

ReportsRegisters == found \/ IsFixedFormat(sense)

Reads ==
  CASE pc = "format"    -> IF HasResponseCode(sense) THEN {0} ELSE {}
    [] pc = "length"    -> IF IsDescriptorFormat(sense) /\ Len(sense) >= senseHeaderLen
                           THEN {7} ELSE {}
    [] pc = "walk"      -> {senseHeaderLen + offset + i :
                             i \in IF offset >= PayloadLen THEN {}
                                   ELSE IF HeaderFits(offset) THEN {0, 1} ELSE {0}}
    [] pc = "signature" -> SignatureIndexes(sense)
                             \cup IF op = "status" /\ ReportsRegisters
                                  THEN {RegisterIndex("status"), RegisterIndex("error")} ELSE {}
    [] pc = "registers" -> IF op = "status"
                           THEN {RegisterIndex("status"), RegisterIndex("error")}
                           ELSE {RegisterIndex("count")}
    [] pc = "done"      -> {}

-----------------------------------------------------------------------------
(* Properties.                                                             *)

\* The variables keep their types; a result other than a failure has the
\* shape of its entry point.
TypeOK ==
  /\ sense \in Buffers
  /\ op \in Ops
  /\ pc \in Labels
  /\ offset \in Nat
  /\ found \in BOOLEAN
  /\ ret \in {Failed} \cup (IF op = "status" THEN StatusRet ELSE ModeRet)

\* Whatever the device wrote and however the report was cut, the decoder
\* never indexes outside the buffer: no Go panic in ataSenseStatus or
\* ataPowerModeFromSense.
NoPanic == Reads \subseteq 0..(Len(sense) - 1)

\* What the earlier steps have established when a step relies on it: the
\* format is known, the buffer is long enough for it, the walk has not left
\* the descriptor area, and a found descriptor lies wholly inside that area,
\* so that no byte after the additional length is taken for a register.
Established ==
  /\ pc \in Labels \ {"format", "done"} =>
       /\ HasResponseCode(sense)
       /\ IsDescriptorFormat(sense) \/ IsFixedFormat(sense)
  /\ pc \in {"walk", "signature", "registers"} =>
       /\ IsDescriptorFormat(sense) => DescriptorIsValid(sense)
       /\ IsFixedFormat(sense) => FixedIsValid(sense)
  /\ pc \in {"format", "length"} \/ (pc = "signature" /\ op = "powerMode")
       => offset = 0 /\ ~found
  /\ pc = "walk" => IsDescriptorFormat(sense) /\ offset <= PayloadLen
  /\ pc = "registers" /\ IsDescriptorFormat(sense) => found
  /\ found => /\ pc \in {"signature", "registers", "done"}
              /\ IsDescriptorFormat(sense) /\ DescriptorIsValid(sense)
              /\ HeaderFits(offset) /\ BodyFits(offset) /\ IsAtaReturn(offset)

\* The loop invariant of both decoders: the types, which depend on registers
\* being read inside the buffer, and what has been established.
IInv == TypeOK /\ Established

\* The calls answer what SenseAnswer says: the loop finds the first ATA Status
\* Return descriptor the chain leads to, or none, and nothing after it or in
\* front of it is taken for a register.
AnswersFirstReturn ==
  pc = "done" => ret = IF op = "status" THEN ataSenseStatus(sense)
                       ELSE ataPowerModeFromSense(sense)

\* A report cut short anywhere is rejected or read as what it says: the
\* decoder never returns registers other than the drive's.  A whole one is
\* accepted, unless CHECK POWER MODE reports a count that is no power mode.
ReportsOf(regs) ==
  {FixedReport(regs)} \cup {DescriptorReport(before, regs) : before \in Leading}
IsCut(s, report) == Len(s) <= Len(report) /\ s = SubSeq(report, 1, Len(s))

ReportsDecoded ==
  pc = "done" =>
    \A regs \in Registers : \A report \in ReportsOf(regs) :
      /\ ret.ok /\ IsCut(sense, report)
           => ret = IF op = "status"
                    THEN [ok |-> TRUE, status |-> regs.status, error |-> regs.error]
                    ELSE [ok |-> TRUE, mode |-> regs.count]
      /\ sense = report => (ret.ok <=> op = "status" \/ regs.count \in PowerModes)

\* The stages of a call, which walks before or after it looks at the signature.
StageOrder ==
  [format |-> 1, length |-> 2, walk |-> IF op = "status" THEN 3 ELSE 4,
   signature |-> IF op = "status" THEN 4 ELSE 3, registers |-> 5, done |-> 6]

\* A call never comes back: each of its steps takes it to a later stage, and each round
\* of the walk past a header at least, and not past the end of the descriptor area.  So
\* a walk has no more rounds than headers fit in that area, plus one for its end, whatever
\* the device has written.  (A round that left offset where it is would change
\* nothing and be no step; Returns is violated by one.)
CallGoesOn ==
  [][\/ StageOrder[pc'] > StageOrder[pc]
     \/ /\ pc = "walk" /\ pc' = "walk"
        /\ offset + descHeaderLen <= offset' /\ offset' <= PayloadLen]_vars

\* Every call returns, whatever lengths the descriptors claim: none of them
\* makes the walk stand still.
Returns == <>(pc = "done")
=============================================================================
