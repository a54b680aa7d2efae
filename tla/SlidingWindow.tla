--------------------------- MODULE SlidingWindow ---------------------------
(***************************************************************************)
(* What a sliding-window rate limit promises: a request is admitted exactly *)
(* when fewer than Limit requests with its key were admitted during the     *)
(* last Window units of time.  Nothing is said of how this is kept track of.*)
(***************************************************************************)
EXTENDS Integers, Sequences, FiniteSets

CONSTANTS Keys, Limit, Window

VARIABLES
  now,        \* the clock
  admitted,   \* admitted[k]: when requests with key k were admitted
  answer      \* the last answer: [key, ok, at]

wvars == <<now, admitted, answer>>

Recent(k) == {i \in 1 .. Len(admitted[k]) : admitted[k][i] > now - Window}

Init ==
  /\ now \in Nat
  /\ admitted = [k \in Keys |-> << >>]
  /\ answer \notin [key : Keys, ok : BOOLEAN, at : Nat]

Admit(k) ==
  /\ Cardinality(Recent(k)) < Limit
  /\ admitted' = [admitted EXCEPT ![k] = Append(@, now)]
  /\ answer' = [key |-> k, ok |-> TRUE, at |-> now]
  /\ UNCHANGED now

Deny(k) ==
  /\ Cardinality(Recent(k)) >= Limit
  /\ answer' = [key |-> k, ok |-> FALSE, at |-> now]
  /\ UNCHANGED <<now, admitted>>

Advance ==
  /\ now' \in Nat /\ now' > now
  /\ UNCHANGED <<admitted, answer>>

Next == Advance \/ \E k \in Keys : Admit(k) \/ Deny(k)

Spec == Init /\ [][Next]_wvars
=============================================================================
