----------------------------- MODULE SenseLayout -----------------------------
(***************************************************************************)
(* The byte layout of SCSI sense data that carries the ATA registers of an *)
(* ATA PASS-THROUGH command: the constants of src/sata_sense.go and        *)
(* src/scsi.go, and the accessors of the three views of a sense buffer     *)
(* (ataSense, ataSenseDescriptorFormat, ataSenseFixedFormat) and of the    *)
(* ATA Status Return descriptor.                                           *)
(*                                                                         *)
(* A buffer is a sequence of bytes.  Go indexes from 0, so At(s, i) is the *)
(* Go expression s[i].  The accessors do not check bounds, as in Go; the   *)
(* module that calls them says which indexes it touches.                   *)
(***************************************************************************)
EXTENDS Integers, Sequences

Byte == 0..255

senseHeaderLen          == 8
descHeaderLen           == 2
descAtaReturnPayloadLen == 12
fixedSenseMinLen        == 14

FixedFormat         == 112   \* 70h
DescriptorFormat    == 114   \* 72h
RecoveredError      == 1
AtaPtInfoASC        == 0
AtaPtInfoASCQ       == 29    \* 1Dh
AtaReturnDescriptor == 9

At(s, i) == s[i + 1]

\* The response code without the VALID bit, and the format it selects: bit 0
\* tells current from deferred sense and is masked off as well.
ResponseCode(s) == At(s, 0) % 128
Format(s)       == ResponseCode(s) - (ResponseCode(s) % 2)

HasResponseCode(s)    == Len(s) >= 1
IsFixedFormat(s)      == Format(s) = FixedFormat
IsDescriptorFormat(s) == Format(s) = DescriptorFormat

AdditionalSenseLength(s) == At(s, 7)

DescriptorIsValid_HeaderOnly(s) == Len(s) >= senseHeaderLen
DescriptorIsValid(s) ==
  /\ Len(s) >= senseHeaderLen
  /\ Len(s) >= senseHeaderLen + AdditionalSenseLength(s)

FixedIsValid(s) == Len(s) >= fixedSenseMinLen

\* The indexes SenseKey, ASC and ASCQ read, and the signature they are
\* compared with: RECOVERED ERROR, ATA PASS-THROUGH INFORMATION AVAILABLE.
SignatureIndexes(s) == IF IsFixedFormat(s) THEN {2, 12, 13} ELSE {1, 2, 3}

IsAtaPassThroughInfo(s) ==
  IF IsFixedFormat(s)
  THEN /\ At(s, 2) % 16 = RecoveredError
       /\ At(s, 12) = AtaPtInfoASC
       /\ At(s, 13) = AtaPtInfoASCQ
  ELSE /\ At(s, 1) = RecoveredError
       /\ At(s, 2) = AtaPtInfoASC
       /\ At(s, 3) = AtaPtInfoASCQ

\* Offsets of the ATA registers in fixed format sense data and, relative to
\* its first byte, in an ATA Status Return descriptor.
FixedRegister      == [error |-> 3, status |-> 4, count |-> 6]
DescriptorRegister_HighByte == [error |-> 3, status |-> 13, count |-> 4]
DescriptorRegister == [error |-> 3, status |-> 13, count |-> 5]

\* The sector count values CHECK POWER MODE may report: standby, standby_y,
\* idle, idle_a, idle_b, idle_c and active-or-idle.
PowerModes == {0, 1, 128, 129, 130, 131, 255}
=============================================================================
