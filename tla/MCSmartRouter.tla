--------------------------- MODULE MCSmartRouter ---------------------------
(* Small instances of SmartRouter. *)
EXTENDS SmartRouter, TLC

CONSTANTS a1, a2, r1, r2

MCBoth == "ID" :> <<a1, a2>> @@ "TH" :> <<a2>>
MCOne == "ID" :> <<a1>>

Symmetry == Permutations(Requests)

\* Of two adapters, the one that is no worse in successes and in latency is never
\* beaten, up to the 1000 ms at which the latency counts for nothing.
Outcomes == {s \in [total : 1 .. 3, success : 0 .. 3, failure : {0}, latency : {0, 500, 1000, 2500}] :
               s.success <= s.total}
ASSUME \A s, t \in Outcomes :
  /\ s.success * t.total >= t.success * s.total
  /\ s.latency * t.total <= t.latency * s.total
  => ~Exceeds(t, s)
=============================================================================
