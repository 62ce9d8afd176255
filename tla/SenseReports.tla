---------------------------- MODULE SenseReports ----------------------------
(***************************************************************************)
(* The sense data that comes back from SG_IO, as the code and its tests    *)
(* know it: register reports in both formats (the builders of              *)
(* src/sata_sense_test.go, which follow libata and USB bridges), and the   *)
(* all-zero buffer a command that ends with GOOD status leaves.            *)
(***************************************************************************)
EXTENDS SenseLayout

\* ATA registers a report carries.
AtaRegisters == [status : Byte, error : Byte, count : Byte]

\* An ATA Status Return descriptor: code, length, extend, error, count,
\* lba low, mid, high, device, status (16-bit registers, high byte first).
ReturnDescriptor(regs) ==
  <<AtaReturnDescriptor, descAtaReturnPayloadLen, 0, regs.error, 0, regs.count,
    0, 17, 0, 34, 0, 51, 64, regs.status>>

SenseHeader(code, key, asc, ascq, len) == <<code, key, asc, ascq, 0, 0, 0, len>>

\* buildStatusReturnDescriptorSenseFull, after descriptors the SAT layer may
\* put in front of it.
DescriptorReport(before, regs) ==
  LET payload == before \o ReturnDescriptor(regs)
  IN  SenseHeader(DescriptorFormat, RecoveredError, AtaPtInfoASC, AtaPtInfoASCQ,
                  Len(payload)) \o payload

\* The additional length is a byte, which leaves this much for them.
MaxLeading == 255 - descHeaderLen - descAtaReturnPayloadLen

\* buildFixedSense: 18 bytes, of which the code needs the first 14.
FixedReport(regs) ==
  <<FixedFormat, 0, RecoveredError, regs.error, regs.status, 64, regs.count, 10,
    0, 17, 34, 51, AtaPtInfoASC, AtaPtInfoASCQ, 0, 0, 0, 0>>

\* A descriptor format report of a rejected command: ILLEGAL REQUEST/24h/00h.
IllegalRequest == SenseHeader(DescriptorFormat, 5, 36, 0, 0)

\* Reports of commands that failed on the way: ABORTED COMMAND, and in fixed
\* format UNIT ATTENTION/29h/00h (after a reset).
AbortedCommand == SenseHeader(DescriptorFormat, 11, 0, 0, 0)
UnitAttention  == <<FixedFormat, 0, 6, 0, 0, 0, 0, 10, 0, 0, 0, 0, 41, 0, 0, 0, 0, 0>>

RefusalSenses == {IllegalRequest, AbortedCommand, UnitAttention}

\* make([]byte, _scsiSenseBufSize), untouched.
NoSense == [i \in 1..96 |-> 0]
=============================================================================
