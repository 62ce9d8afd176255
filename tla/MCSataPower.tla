----------------------------- MODULE MCSataPower -----------------------------
(* Small instances of SataPower. *)
EXTENDS SataPower, TLC

CONSTANTS c1, c2

Ask(op, args) == {[op |-> op, arg |-> a] : a \in args}

\* Durations with a code in either range and at its ends, and without one.
Encodable   == {0, 20 * Minute, 30 * Minute}
Unencodable == {-5 * Second, Second, 21 * Minute}

\* Every method; the EPC modes and IdleUnload have instances of their own.
AllRequests ==
  Ask("CheckPowerMode", {0}) \cup Ask("Standby", {0}) \cup Ask("Idle", {0})
    \cup Ask("Sleep", {0}) \cup Ask("IdleUnload", {0}) \cup Ask("DisableAPM", {0})
    \cup Ask("SetPowerMode", {Standby, Idle, ActiveOrIdle})
    \cup Ask("SetStandbyTimer", Encodable \cup Unencodable)
    \cup Ask("SetIdleTimer", Encodable \cup Unencodable)
    \cup Ask("SetStandbyTimerRaw", {0, 253}) \cup Ask("SetIdleTimerRaw", {0, 253})
    \cup Ask("SetAPMLevel", {0, 1, 254, 255})

\* What two callers ask for concurrently.
FewRequests ==
  Ask("CheckPowerMode", {0}) \cup Ask("Idle", {0}) \cup Ask("Sleep", {0})
    \cup Ask("SetStandbyTimer", {10 * Second})

\* Two callers at once, or one that calls every method.
MixedWorkloads ==
  {[c \in Callers |-> FewRequests]}
    \cup {[c \in Callers |-> IF c = d THEN AllRequests ELSE {}] : d \in Callers}

\* An information descriptor and an empty one in front, or none.
MCLeading == {<<>>, <<0, 10, 128, 0, 1, 2, 3, 4, 5, 6, 7, 8>> \o <<2, 0>>}
Plain     == {[kind |-> "descriptor", before |-> <<>>]}

Symmetry == Permutations(Callers)

EpcWorkload == {[c \in Callers |-> Ask("SetPowerMode", {StandbyY, IdleA, IdleB, IdleC})]}
UnloadWorkload == {[c \in Callers |-> Ask("IdleUnload", {0}) \cup Ask("Idle", {0})]}
=============================================================================
