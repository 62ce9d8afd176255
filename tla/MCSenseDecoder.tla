--------------------------- MODULE MCSenseDecoder ---------------------------
(* Buffers for SenseDecoder: reports of both formats, whole and cut short at *)
(* every length, and descriptor areas whose lengths disagree with it.        *)
EXTENDS SenseDecoder

MCRegisters == [status : {80, 81}, error : {0, 4}, count : {0, 255, 127}]

ZeroRegs == [status |-> 80, error |-> 0, count |-> 128]

\* Descriptors other than a whole ATA Status Return: an information
\* descriptor, an empty one, an ATA return one byte too short.
Information == <<0, 10, 128, 0, 1, 2, 3, 4, 5, 6, 7, 8>>
Empty       == <<2, 0>>
ShortReturn == <<AtaReturnDescriptor, 11, 0, 4, 0, 255, 0, 0, 0, 0, 0, 0, 64>>
LongReturn  == <<AtaReturnDescriptor, 14, 1, 4, 0, 129, 0, 0, 0, 0, 0, 0, 64, 81, 7, 7>>

Others     == {<<>>, Information, Empty, ShortReturn}
MCLeading  == Others \cup {ShortReturn \o Empty \o Information, Empty \o Empty \o ShortReturn}
Candidates == Others \cup {LongReturn, ReturnDescriptor(ZeroRegs)}
Payloads   == {a \o b : a \in Candidates, b \in Candidates}
                \cup {Empty \o Information \o c : c \in Candidates}

Prefixed(s) == {SubSeq(s, 1, n) : n \in 0..Len(s)}

\* Headers whose response code is current or deferred, with the VALID bit, or
\* of no known format, and whose additional length is off by up to three.
Malformed ==
  {SenseHeader(code, key[1], key[2], key[3], len) \o p :
     code \in {114, 243, 116},
     key \in {<<1, 0, 29>>, <<5, 36, 0>>},
     len \in {0, 1, 13, 14, 15, 27, 28},
     p \in Payloads}

Truncated == UNION {Prefixed(r) : r \in UNION {ReportsOf(regs) : regs \in MCRegisters}}
               \cup UNION {Prefixed(SenseHeader(114, 1, 0, 29, Len(p)) \o p) : p \in Payloads}

Deferred == {[FixedReport(ZeroRegs) EXCEPT ![1] = c, ![3] = k] :
               c \in {112, 113, 240, 241}, k \in {1, 5, 241, 245}}

MCBuffers == Malformed \cup Truncated \cup Deferred \cup {NoSense, IllegalRequest}
=============================================================================
