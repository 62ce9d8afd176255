---------------------------- MODULE DeviceHandle ----------------------------
(***************************************************************************)
(* What opening a device promises, whatever probes it takes: a call either *)
(* fails, or returns a handle to one device that was behind the path at    *)
(* some moment of the call and that the handle's type can serve.  The      *)
(* handle stays bound to that device until it is closed, even when another *)
(* device appears under the same path.                                     *)
(***************************************************************************)
CONSTANTS Callers, Paths, Devices,
          Serves        \* <<type, device>>: this type of handle fits this device

VARIABLES at,           \* the device behind each path
          call,         \* the call of each caller: "none", "open" or "held"
          path,         \* the path of the call
          seen,         \* the devices behind that path since the call began
          handle        \* what a caller holds

vars == <<at, call, path, seen, handle>>

NoHandle == <<>>

Init ==
  /\ at \in [Paths -> Devices]
  /\ call = [c \in Callers |-> "none"]
  /\ path \in [Callers -> Paths]
  /\ seen = [c \in Callers |-> {}]
  /\ handle = [c \in Callers |-> NoHandle]

Begin(c) ==
  /\ call[c] = "none"
  /\ \E p \in Paths :
       /\ path' = [path EXCEPT ![c] = p]
       /\ seen' = [seen EXCEPT ![c] = {at[p]}]
  /\ call' = [call EXCEPT ![c] = "open"]
  /\ UNCHANGED <<at, handle>>

Succeed(c) ==
  /\ call[c] = "open"
  /\ \E h \in Serves :
       /\ h[2] \in seen[c]
       /\ handle' = [handle EXCEPT ![c] = h]
  /\ call' = [call EXCEPT ![c] = "held"]
  /\ seen' = [seen EXCEPT ![c] = {}]
  /\ UNCHANGED <<at, path>>

Fail(c) ==
  /\ call[c] = "open"
  /\ call' = [call EXCEPT ![c] = "none"]
  /\ seen' = [seen EXCEPT ![c] = {}]
  /\ UNCHANGED <<at, path, handle>>

Close(c) ==
  /\ call[c] = "held"
  /\ call' = [call EXCEPT ![c] = "none"]
  /\ handle' = [handle EXCEPT ![c] = NoHandle]
  /\ UNCHANGED <<at, path, seen>>

Replace(p) ==
  /\ \E d \in Devices :
       /\ at' = [at EXCEPT ![p] = d]
       /\ seen' = [c \in Callers |->
                     IF call[c] = "open" /\ path[c] = p THEN seen[c] \cup {d} ELSE seen[c]]
  /\ UNCHANGED <<call, path, handle>>

Next ==
  \/ \E c \in Callers : Begin(c) \/ Succeed(c) \/ Fail(c) \/ Close(c)
  \/ \E p \in Paths : Replace(p)

Spec == Init /\ [][Next]_vars
=============================================================================
