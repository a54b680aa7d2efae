---------------------------- MODULE SmartRouter ----------------------------
(***************************************************************************)
(* The carrier router with statistics and circuit breakers                 *)
(* (adapter/telco/smart_router.go).  Choosing an adapter, calling it and   *)
(* recording the outcome are three steps under two locks: circuits open    *)
(* and close, and cooldowns run out, between them.                         *)
(***************************************************************************)
EXTENDS Integers, Sequences

CONSTANTS
  Adapters,
  Countries,
  AdaptersFor,   \* AdaptersFor[c]: the adapters registered for c, in order
  Requests,      \* goroutines that call the router
  Kinds,         \* "silent" asks IsSupported first, "simswap" does not
  Latencies,     \* milliseconds a call may take
  MinRequests,   \* calls before the failure rate counts (10)
  Cooldown,      \* of an open circuit (30 s)
  Streak,        \* failures in a row said to open a circuit (5)
  Totals,        \* the numbers of calls that are told apart: all, but for a bound of the model
  None

ASSUME RouterAssumption ==
  /\ AdaptersFor \in [Countries -> Seq(Adapters)]
  /\ Latencies \subseteq Nat
  /\ MinRequests \in Nat /\ Cooldown \in Nat /\ Streak \in Nat \ {0} /\ Totals \subseteq Nat
  /\ None \notin Adapters

VARIABLES
  stats,      \* the counters of each adapter
  open,       \* the adapters with circuitOpen
  remaining,  \* circuitUntil, as the time left until then; -1 is past
  failing,    \* history: failures recorded in a row, up to Streak
  req         \* what each caller is doing

vars == <<stats, open, remaining, failing, req>>

Stats == [total : Nat, success : Nat, failure : Nat, latency : Nat]
NoStats == [total |-> 0, success |-> 0, failure |-> 0, latency |-> 0]

Idle == [pc |-> "idle", country |-> None, adapter |-> None]

\* The types of the counters, and the arithmetic between them.
CountersOK ==
  /\ stats \in [Adapters -> Stats]
  /\ \A a \in Adapters : stats[a].total = stats[a].success + stats[a].failure
  /\ failing \in [Adapters -> Nat]

Init ==
  /\ stats = [a \in Adapters |-> NoStats]
  /\ open = {}
  /\ remaining = [a \in Adapters |-> -1]
  /\ failing = [a \in Adapters |-> 0]
  /\ req = [r \in Requests |-> Idle]
-----------------------------------------------------------------------------
(* The choice of an adapter *)

AtLeast0(n) == IF n > 0 THEN n ELSE 0

\* computeScore as a fraction: 70 % success rate, 30 % latency, 50 if unknown.
Score(s) ==
  IF s.total = 0 THEN [num |-> 50, den |-> 1]
  ELSE [num |-> 7000 * s.success + AtLeast0(3000 * s.total - 3 * s.latency),
        den |-> 100 * s.total]

Exceeds(s, t) == Score(s).num * Score(t).den > Score(t).num * Score(s).den

\* selectBest takes what is open for as long as now is before circuitUntil as closed off.
Cooling(a) == a \in open /\ remaining[a] > 0

\* The first of the best adapters of the list that is not closed off; if all are, the
\* first of those that recover soonest.
SelectBest(list) ==
  LET all == 1 .. Len(list)
      free == {i \in all : ~Cooling(list[i])}
      choices == IF free # {} THEN free ELSE all
      beats(i, j) == IF free # {} THEN Exceeds(stats[list[i]], stats[list[j]])
                     ELSE remaining[list[i]] < remaining[list[j]]
  IN list[CHOOSE i \in choices : \A j \in choices :
            ~beats(j, i) /\ (j < i => beats(i, j))]

\* (Definitions named Bug_... are plausible mistakes, which the properties must catch.)
\* The cooldown forgotten.
Bug_IsSupported(c) == \E i \in 1 .. Len(AdaptersFor[c]) : AdaptersFor[c][i] \notin open

\* At the very instant circuitUntil, IsSupported still refuses what selectBest takes.
IsSupported(c) ==
  \E i \in 1 .. Len(AdaptersFor[c]) :
    AdaptersFor[c][i] \notin open \/ remaining[AdaptersFor[c][i]] < 0
-----------------------------------------------------------------------------
(* Calls *)

\* A silent verification is begun only if the country is supported; a swap check is
\* begun in any case.
Begin(r, kind, c) ==
  /\ req[r] = Idle
  /\ kind = "silent" => IsSupported(c)
  /\ req' = [req EXCEPT ![r] = [pc |-> "select", country |-> c, adapter |-> None]]
  /\ UNCHANGED <<stats, open, remaining, failing>>

Select(r) ==
  /\ req[r].pc = "select"
  /\ LET list == AdaptersFor[req[r].country] IN
       req' = [req EXCEPT ![r] = IF list = << >> THEN Idle
                                 ELSE [@ EXCEPT !.pc = "call", !.adapter = SelectBest(list)]]
  /\ UNCHANGED <<stats, open, remaining, failing>>

Finish(r) == req' = [req EXCEPT ![r] = Idle]

\* The counters after one more call that took ms milliseconds, up to where a model counts:
\* from there on, one more call changes the rates no further.
Counted(s, ok, ms) ==
  IF s.total + 1 \notin Totals THEN s
  ELSE [total |-> s.total + 1, latency |-> s.latency + ms,
        success |-> s.success + IF ok THEN 1 ELSE 0,
        failure |-> s.failure + IF ok THEN 0 ELSE 1]

\* The circuit stays as it is.
Bug_RecordSuccess(r) ==
  /\ req[r].pc = "call"
  /\ \E ms \in Latencies :
       stats' = [stats EXCEPT ![req[r].adapter] = Counted(@, TRUE, ms)]
  /\ failing' = [failing EXCEPT ![req[r].adapter] = 0]
  /\ Finish(r)
  /\ UNCHANGED <<open, remaining>>

\* The carrier answers: count it, and close the circuit, whoever opened it meanwhile.
RecordSuccess(r) ==
  /\ req[r].pc = "call"
  /\ LET a == req[r].adapter IN
       /\ \E ms \in Latencies : stats' = [stats EXCEPT ![a] = Counted(stats[a], TRUE, ms)]
       /\ open' = open \ {a}
       /\ failing' = [failing EXCEPT ![a] = 0]
  /\ Finish(r)
  /\ UNCHANGED remaining

\* An error, or a silent verification that failed: count it, and open the circuit if
\* most of the calls so far have failed.  A circuit already open is held open longer.
RecordFailure(r) ==
  /\ req[r].pc = "call"
  /\ LET a == req[r].adapter IN
       /\ \E ms \in Latencies : stats' = [stats EXCEPT ![a] = Counted(stats[a], FALSE, ms)]
       /\ failing' = [failing EXCEPT ![a] = IF @ < Streak THEN @ + 1 ELSE Streak]
       /\ IF stats'[a].total > MinRequests /\ 2 * stats'[a].failure > stats'[a].total
          THEN /\ open' = open \union {a}
               /\ remaining' = [remaining EXCEPT ![a] = Cooldown]
          ELSE UNCHANGED <<open, remaining>>
  /\ Finish(r)

\* Time goes by.
Tick ==
  /\ \E a \in Adapters : remaining[a] > -1
  /\ remaining' = [a \in Adapters |-> IF remaining[a] > -1 THEN remaining[a] - 1 ELSE -1]
  /\ UNCHANGED <<stats, open, failing, req>>

Work(r) == Select(r) \/ RecordSuccess(r) \/ RecordFailure(r)

Next ==
  \/ Tick
  \/ \E r \in Requests : Work(r) \/ \E kind \in Kinds, c \in Countries : Begin(r, kind, c)

Spec == Init /\ [][Next]_vars

\* Time goes by, and every call ends, at the latest with the HTTP client's timeout.
FairSpec == Spec /\ WF_vars(Tick) /\ \A r \in Requests : WF_vars(Work(r))
-----------------------------------------------------------------------------
(* Properties *)

\* In whatever order answers come in, also from calls sent before a circuit opened,
\* a circuit is open exactly if the last answer was a failure and, of more than
\* MinRequests calls, more than half have failed.
CircuitReflectsStats ==
  \A a \in Adapters :
    a \in open <=> /\ failing[a] > 0
                   /\ stats[a].total > MinRequests
                   /\ 2 * stats[a].failure > stats[a].total

\* The inductive invariant of the proofs, which need not know what requests do.
IInv == CountersOK /\ CircuitReflectsStats

\* The comment in recordFailure (smart_router.go:153): "Open circuit breaker after 5
\* consecutive failures or >50% failure rate".  Failures in a row are not looked at.
StreakOpensCircuit == \A a \in Adapters : failing[a] >= Streak => a \in open

\* A call of the adapter has failed.
CallFails(a) == \E r \in Requests : req[r].adapter = a /\ RecordFailure(r)

\* A country none of whose carriers may be tried is served again in the end, unless every
\* one of them fails again and again: an outage cannot outlast the failures of a carrier.
\* (It can last with them: swap checks are not refused, the carrier that recovers soonest
\* is tried at any time, and each failure begins the cooldown anew.)
OutageEnds ==
  \A c \in Countries : \A i \in 1 .. Len(AdaptersFor[c]) :
    (~IsSupported(c) ~> IsSupported(c)) \/ []<><<CallFails(AdaptersFor[c][i])>>_vars
=============================================================================
