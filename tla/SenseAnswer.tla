----------------------------- MODULE SenseAnswer -----------------------------
(***************************************************************************)
(* What the two decoders of ATA sense data answer, as functions of the     *)
(* buffer: the loop, the order of the checks and the early returns of the  *)
(* code are in SenseDecoder, which is checked against these definitions.   *)
(***************************************************************************)
EXTENDS SenseReports

Failed == [ok |-> FALSE]

\* A descriptor at offset o of the descriptor area lies wholly in it.
DescriptorEnd(s, o) == o + descHeaderLen + At(s, senseHeaderLen + o + 1)
IsComplete(s, o) ==
  /\ o + descHeaderLen <= AdditionalSenseLength(s)
  /\ DescriptorEnd(s, o) <= AdditionalSenseLength(s)

\* The descriptors of the chain are at Starts(s)[0], Starts(s)[1], ...; -1
\* when the one before runs over the end.
Starts(s) ==
  LET start[n \in Nat] ==
        IF n = 0 THEN 0
        ELSE LET o == start[n - 1]
             IN  IF o # -1 /\ IsComplete(s, o) THEN DescriptorEnd(s, o) ELSE -1
  IN  start

\* The numbers of the ATA Status Return descriptors among those that can be
\* reached, and where the first of them is.
ReturnNumbers_LongerOnly(s) ==
  {n \in 0..(AdditionalSenseLength(s) \div descHeaderLen) :
     LET o == Starts(s)[n]
     IN  /\ o # -1 /\ IsComplete(s, o)
         /\ At(s, senseHeaderLen + o) = AtaReturnDescriptor
         /\ At(s, senseHeaderLen + o + 1) > descAtaReturnPayloadLen}

ReturnNumbers(s) ==
  {n \in 0..(AdditionalSenseLength(s) \div descHeaderLen) :
     LET o == Starts(s)[n]
     IN  /\ o # -1 /\ IsComplete(s, o)
         /\ At(s, senseHeaderLen + o) = AtaReturnDescriptor
         /\ At(s, senseHeaderLen + o + 1) >= descAtaReturnPayloadLen}

FirstReturn(s) ==
  Starts(s)[CHOOSE n \in ReturnNumbers(s) : \A m \in ReturnNumbers(s) : n <= m]

\* What a SAT layer may put in front of its ATA Status Return: nothing, or a chain
\* of descriptors that fills its bytes and has no whole ATA Status Return in it.
MayLead(before) ==
  LET area == SenseHeader(DescriptorFormat, RecoveredError, AtaPtInfoASC, AtaPtInfoASCQ,
                          Len(before)) \o before
  IN  /\ before \in Seq(Byte) /\ Len(before) <= MaxLeading
      /\ ReturnNumbers(area) = {}
      /\ \E n \in 0..Len(before) : Starts(area)[n] = Len(before)

\* The buffer reports the registers of a command that succeeded.
CarriesRegisters(s) ==
  /\ HasResponseCode(s)
  /\ \/ /\ IsDescriptorFormat(s) /\ DescriptorIsValid(s)
        /\ IsAtaPassThroughInfo(s) /\ ReturnNumbers(s) # {}
     \/ IsFixedFormat(s) /\ FixedIsValid(s) /\ IsAtaPassThroughInfo(s)

Register(s, reg) ==
  IF IsFixedFormat(s) THEN At(s, FixedRegister[reg])
  ELSE At(s, senseHeaderLen + FirstReturn(s) + DescriptorRegister[reg])

ataSenseStatus(s) ==
  IF CarriesRegisters(s)
  THEN [ok |-> TRUE, status |-> Register(s, "status"), error |-> Register(s, "error")]
  ELSE Failed

ataPowerModeFromSense(s) ==
  IF CarriesRegisters(s) /\ Register(s, "count") \in PowerModes
  THEN [ok |-> TRUE, mode |-> Register(s, "count")]
  ELSE Failed
=============================================================================
