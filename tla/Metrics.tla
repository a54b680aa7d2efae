------------------------------ MODULE Metrics ------------------------------
(***************************************************************************)
(* Request counters and duration histograms, and the page that reports     *)
(* them (metrics/metrics.go).  A counter is created and added to in two    *)
(* steps; a histogram is observed under its lock.  The page reads counters *)
(* one by one, in any order, and then the histograms under their lock.     *)
(***************************************************************************)
EXTENDS Integers, Sequences, FiniteSets

CONSTANTS
  Labels,      \* combinations of method, path and status
  Handlers,    \* goroutines that serve requests, each one time
  Durations,
  Bounds       \* upper bounds of the buckets, in order

ASSUME MetricsAssumption ==
  IsFiniteSet(Handlers) /\ Durations \subseteq Nat /\ Bounds \in Seq(Nat)

VARIABLES
  counter,     \* counter[l] for the labels that have one
  histogram,   \* histogram[l]: count, sum and count of each bucket
  request,     \* what each request is doing
  scrape       \* the page being written: counters and histograms read so far

metricsVars == <<counter, histogram, request, scrape>>

NoData == [count |-> 0, sum |-> 0, buckets |-> [i \in DOMAIN Bounds |-> 0]]

\* A map of labels with one entry more, or another.
Stored(map, l, value) == [k \in DOMAIN map \union {l} |-> IF k = l THEN value ELSE map[k]]

NoPage == [pc |-> "idle", due |-> {}, counters |-> << >>, observed |-> << >>, pending |-> {}]

MetricsInit ==
  /\ counter = << >>
  /\ histogram = << >>
  /\ request = [r \in Handlers |-> [pc |-> "serve"]]
  /\ scrape = NoPage
-----------------------------------------------------------------------------
(* RequestMetrics, after the handler *)

\* (Definitions named Bug_... are plausible mistakes, which the properties must catch.)
\* Store instead of LoadOrStore.
Bug_CreateCounter(r, l, d) ==
  /\ request[r].pc = "serve"
  /\ counter' = Stored(counter, l, 0)
  /\ request' = [request EXCEPT ![r] = [pc |-> "add", label |-> l, duration |-> d]]
  /\ UNCHANGED <<histogram, scrape>>

CreateCounter(r, l, d) ==
  /\ request[r].pc = "serve"
  /\ counter' = IF l \in DOMAIN counter THEN counter ELSE Stored(counter, l, 0)
  /\ request' = [request EXCEPT ![r] = [pc |-> "add", label |-> l, duration |-> d]]
  /\ UNCHANGED <<histogram, scrape>>

Add(r) ==
  /\ request[r].pc = "add"
  /\ counter' = [counter EXCEPT ![request[r].label] = @ + 1]
  /\ request' = [request EXCEPT ![r].pc = "observe"]
  /\ UNCHANGED <<histogram, scrape>>

Observed(data, d) ==
  [count |-> data.count + 1, sum |-> data.sum + d,
   buckets |-> [i \in DOMAIN Bounds |-> data.buckets[i] + IF d <= Bounds[i] THEN 1 ELSE 0]]

\* The first observation of a series only creates it.
Bug_Observe(r) ==
  /\ request[r].pc = "observe"
  /\ LET l == request[r].label
         data == IF l \in DOMAIN histogram THEN Observed(histogram[l], request[r].duration)
                 ELSE NoData
     IN histogram' = Stored(histogram, l, data)
  /\ request' = [request EXCEPT ![r].pc = "done"]
  /\ UNCHANGED <<counter, scrape>>

Observe(r) ==
  /\ request[r].pc = "observe"
  /\ LET l == request[r].label
         data == IF l \in DOMAIN histogram THEN histogram[l] ELSE NoData
     IN histogram' = Stored(histogram, l, Observed(data, request[r].duration))
  /\ request' = [request EXCEPT ![r].pc = "done"]
  /\ UNCHANGED <<counter, scrape>>
-----------------------------------------------------------------------------
(* The page *)

BeginScrape ==
  /\ scrape.pc \in {"idle", "done"}
  /\ scrape' = [NoPage EXCEPT !.pc = "counters", !.due = DOMAIN counter]
  /\ UNCHANGED <<counter, histogram, request>>

ReadCounter(l) ==
  /\ scrape.pc = "counters" /\ l \in DOMAIN counter \ DOMAIN scrape.counters
  /\ scrape' = [scrape EXCEPT !.counters = Stored(@, l, counter[l])]
  /\ UNCHANGED <<counter, histogram, request>>

\* Range has passed all counters there were; those stored meanwhile it may miss.
ReadHistograms ==
  /\ scrape.pc = "counters" /\ scrape.due \subseteq DOMAIN scrape.counters
  /\ scrape' = [scrape EXCEPT !.pc = "done", !.due = {},
       !.observed = [l \in DOMAIN histogram |-> histogram[l].count],
       !.pending = {r \in Handlers : request[r].pc = "observe"}]
  /\ UNCHANGED <<counter, histogram, request>>

MetricsNext ==
  \/ \E r \in Handlers : \/ \E l \in Labels, d \in Durations : CreateCounter(r, l, d)
                         \/ Add(r) \/ Observe(r)
  \/ BeginScrape \/ ReadHistograms \/ \E l \in Labels : ReadCounter(l)

MetricsSpec == MetricsInit /\ [][MetricsNext]_metricsVars
-----------------------------------------------------------------------------
(* Properties *)

RequestsOf(l, pcs) == {r \in Handlers : request[r].pc \in pcs /\ request[r].label = l}

Lasted(l, bound) == {r \in RequestsOf(l, {"done"}) : request[r].duration <= bound}

\* However creations and additions interleave, no request is lost: the counters hold
\* those that have been added, and each bucket those observed that lasted up to its
\* bound, that one included.
NoRequestLost ==
  /\ \A l \in DOMAIN counter : counter[l] = Cardinality(RequestsOf(l, {"observe", "done"}))
  /\ \A l \in DOMAIN histogram :
       /\ histogram[l].count = Cardinality(RequestsOf(l, {"done"}))
       /\ \A i \in DOMAIN Bounds : histogram[l].buckets[i] = Cardinality(Lasted(l, Bounds[i]))

\* On one page, whatever happened while it was written, a counter is ahead of the
\* histogram of the same requests at most by those that have not been observed yet.
PageConsistent ==
  scrape.pc = "done" =>
    \A l \in DOMAIN scrape.counters :
      LET observed == IF l \in DOMAIN scrape.observed THEN scrape.observed[l] ELSE 0
      IN scrape.counters[l] <= observed + Cardinality({r \in scrape.pending : request[r].label = l})
=============================================================================
