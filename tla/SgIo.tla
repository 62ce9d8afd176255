-------------------------------- MODULE SgIo --------------------------------
(***************************************************************************)
(* SG_IO as src/scsi_linux.go uses it: what scsiSendCdbSense makes of the  *)
(* header the sg driver fills in, and what scsiSendCdb keeps of that.      *)
(*                                                                         *)
(* A reply is [errno, status, info, sense, data]: the ioctl failed; the    *)
(* SCSI status; the OK bit of hdr.info; senseBuf[:hdr.sbLenWr]; and what   *)
(* is in the caller's data buffer afterwards (Zeroed if nothing arrived).  *)
(***************************************************************************)
EXTENDS SenseReports

CONSTANT Zeroed   \* a data buffer as make([]byte, n) returns it

CheckCondition == 2
InfoOk == 0

\* [err, sense]: CHECK CONDITION with sense data is no error here, and a
\* command without any sense leaves the zeroed 96-byte buffer.
ScsiSendCdbSense(reply) ==
  IF reply.errno THEN [err |-> TRUE, sense |-> <<>>]
  ELSE IF reply.status = CheckCondition /\ reply.sense # <<>>
       THEN [err |-> FALSE, sense |-> reply.sense]
  ELSE IF reply.info # InfoOk THEN [err |-> TRUE, sense |-> <<>>]
  ELSE [err |-> FALSE, sense |-> NoSense]

\* The error only: the sense data is dropped.
ScsiSendCdb_IgnoresError(reply) == FALSE
ScsiSendCdb(reply) == ScsiSendCdbSense(reply).err

-----------------------------------------------------------------------------
(* The replies of the sg driver.                                           *)

Errno      == [errno |-> TRUE,  status |-> 0, info |-> 0, sense |-> <<>>, data |-> Zeroed]
HostError  == [errno |-> FALSE, status |-> 0, info |-> 1, sense |-> <<>>, data |-> Zeroed]
Silent     == [errno |-> FALSE, status |-> CheckCondition, info |-> 1, sense |-> <<>>,
               data |-> Zeroed]
Good(data) == [errno |-> FALSE, status |-> 0, info |-> 0, sense |-> <<>>, data |-> data]
Check(s)   == [errno |-> FALSE, status |-> CheckCondition, info |-> 1, sense |-> s,
               data |-> Zeroed]

\* The transport or the host adapter failed, or the device is gone: no sense.
Broken == {Errno, HostError, Silent}

\* The device ends a command without serving it: CHECK CONDITION with sense,
\* or GOOD with nothing transferred (hdr.resid is not looked at).
Unserved == {Good(Zeroed)} \cup {Check(s) : s \in RefusalSenses}

\* What any command may meet.
Failures == Broken \cup Unserved
=============================================================================
