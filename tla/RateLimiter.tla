---------------------------- MODULE RateLimiter ----------------------------
(***************************************************************************)
(* The in-memory rate limiter in front of /v1 (middleware/ratelimit.go).   *)
(* allow holds the mutex from before it reads the clock to its return, so  *)
(* a call is one step.                                                     *)
(***************************************************************************)
EXTENDS Integers, Sequences, FiniteSets

CONSTANTS
  Keys,      \* client addresses (or tenants)
  Limit, Window,
  NoAnswer,
  MaxClock   \* bound of the model

ASSUME LimiterAssumption ==
  /\ Limit \in Nat /\ Window \in Nat /\ MaxClock \in Nat
  /\ NoAnswer \notin [key : Keys, ok : BOOLEAN, at : Nat]

VARIABLES
  now,        \* the wall clock
  requests,   \* requests[k]: the times kept for key k
  admitted,   \* history: when requests with key k were admitted
  answer      \* the last answer given

vars == <<now, requests, admitted, answer>>

Answers == [key : Keys, ok : BOOLEAN, at : Nat]

Sorted(s) == \A i, j \in 1 .. Len(s) : i <= j => s[i] <= s[j]

TypeOK ==
  /\ now \in Nat
  /\ requests \in [Keys -> Seq(Nat)]
  /\ admitted \in [Keys -> Seq(Nat)]
  /\ answer \in Answers \union {NoAnswer}

Init ==
  /\ now = 0
  /\ requests = [k \in Keys |-> << >>]
  /\ admitted = [k \in Keys |-> << >>]
  /\ answer = NoAnswer

\* (Definitions named Bug_... are plausible mistakes, which the properties must catch.)
\* An entry exactly one window old is kept.
Bug_Stale(s) == {i \in 1 .. Len(s) : s[i] < now - Window}

\* The entries cleaned out: those not after the cutoff.
Stale(s) == {i \in 1 .. Len(s) : s[i] <= now - Window}

\* The loop that keeps the others.  As the times are in order, these are the last.
Valid(s) == SubSeq(s, Cardinality(Stale(s)) + 1, Len(s))

\* The comparison with the limit lets one more through.
Bug_Allow(k) ==
  LET valid == Valid(requests[k])
      ok == Len(valid) <= Limit
  IN /\ requests' = [requests EXCEPT ![k] = IF ok THEN Append(valid, now) ELSE valid]
     /\ admitted' = IF ok THEN [admitted EXCEPT ![k] = Append(@, now)] ELSE admitted
     /\ answer' = [key |-> k, ok |-> ok, at |-> now]
     /\ UNCHANGED now

\* allow: forget what is too old, then admit if fewer than Limit are left.
Allow(k) ==
  LET valid == Valid(requests[k])
      ok == Len(valid) < Limit
  IN /\ requests' = [requests EXCEPT ![k] = IF ok THEN Append(valid, now) ELSE valid]
     /\ admitted' = IF ok THEN [admitted EXCEPT ![k] = Append(@, now)] ELSE admitted
     /\ answer' = [key |-> k, ok |-> ok, at |-> now]
     /\ UNCHANGED now

Tick == now < MaxClock /\ now' = now + 1 /\ UNCHANGED <<requests, admitted, answer>>

Next == Tick \/ \E k \in Keys : Allow(k)

Spec == Init /\ [][Next]_vars
-----------------------------------------------------------------------------
(* Properties *)

\* However requests arrive, of Limit + 1 admissions of a key in a row the last is
\* at least a window after the first: no window of time ever holds more than Limit.
WindowRespected ==
  \A k \in Keys : \A i \in 1 .. Len(admitted[k]) :
    i + Limit <= Len(admitted[k]) => admitted[k][i + Limit] - admitted[k][i] >= Window

\* allow decides as if it remembered every admission: discarding entries during
\* one call never admits or denies a later call wrongly, with any clock.
Sliding == INSTANCE SlidingWindow
KeepsSlidingWindow == Sliding!Spec

\* What is kept for a key is the end of its admissions, and what is not is too old.
Forgotten(k) == Len(admitted[k]) - Len(requests[k])

Remembers ==
  \A k \in Keys :
    /\ Len(requests[k]) <= Len(admitted[k])
    /\ \A i \in 1 .. Len(requests[k]) : requests[k][i] = admitted[k][Forgotten(k) + i]
    /\ \A i \in 1 .. Forgotten(k) : admitted[k][i] <= now - Window

InOrder ==
  \A k \in Keys : Sorted(admitted[k]) /\ \A i \in 1 .. Len(admitted[k]) : admitted[k][i] <= now

\* The inductive invariant of the proofs.
IInv == TypeOK /\ InOrder /\ Remembers /\ WindowRespected
=============================================================================
