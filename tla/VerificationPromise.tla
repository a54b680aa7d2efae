------------------------ MODULE VerificationPromise ------------------------
(***************************************************************************)
(* What the verification service promises its tenants, without requests,   *)
(* channels, codes or clocks: a token is granted only for a session whose  *)
(* phone has been proven, and, as long as the store is reliable, only      *)
(* after the session has been confirmed.                                   *)
(***************************************************************************)
CONSTANTS
  SessionIds,
  Durable,     \* the store survives a restart
  Reliable     \* the store never refuses a write

VARIABLES
  status,      \* of each session
  proven,      \* sessions whose phone has been proven
  granted      \* sessions a token has been granted for

pvars == <<status, proven, granted>>

Init ==
  /\ status = [s \in SessionIds |-> "absent"]
  /\ proven = {}
  /\ granted = {}

Stored(s) == status[s] \in {"pending", "verified", "expired"}

Open(s) ==
  /\ status[s] = "absent"
  /\ status' = [status EXCEPT ![s] = "pending"]
  /\ UNCHANGED <<proven, granted>>

Prove(s) ==
  /\ Stored(s)
  /\ proven' = proven \union {s}
  /\ UNCHANGED <<status, granted>>

Confirm(s) ==
  /\ Stored(s) /\ s \in proven
  /\ status' = [status EXCEPT ![s] = "verified"]
  /\ UNCHANGED <<proven, granted>>

Lapse(s) ==
  /\ Stored(s)
  /\ status' = [status EXCEPT ![s] = "expired"]
  /\ UNCHANGED <<proven, granted>>

Grant(s) ==
  /\ Stored(s) /\ s \in proven
  /\ Reliable => status[s] # "pending"
  /\ granted' = granted \union {s}
  /\ UNCHANGED <<status, proven>>

\* A restart without a durable store loses every session.
Lose ==
  /\ ~Durable
  /\ status' = [s \in SessionIds |-> IF status[s] = "absent" THEN "absent" ELSE "lost"]
  /\ UNCHANGED <<proven, granted>>

Next ==
  \/ \E s \in SessionIds : Open(s) \/ Prove(s) \/ Confirm(s) \/ Lapse(s) \/ Grant(s)
  \/ Lose

Spec == Init /\ [][Next]_pvars
=============================================================================
