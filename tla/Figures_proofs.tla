--------------------------- MODULE Figures_proofs ---------------------------
(*****************************************************************************)
(* For any number of requests, recorders, labels, buckets, entries and       *)
(* settings: the figures on the page of metrics, on the dashboard and in the *)
(* log, and the prices.                                                      *)
(*****************************************************************************)
EXTENDS Metrics, Statistics, Pricing, Induction

(* The page of metrics *)

(* The inductive invariant *)

Serving == [pc : {"serve"}]
Counting == [pc : {"add", "observe", "done"}, label : Labels, duration : Durations]
Series == [count : Nat, sum : Nat, buckets : [DOMAIN Bounds -> Nat]]
Page == [pc : {"idle", "counters", "done"}, due : SUBSET Labels,
         counters : UNION {[D -> Nat] : D \in SUBSET Labels},
         observed : UNION {[D -> Nat] : D \in SUBSET Labels},
         pending : SUBSET Handlers]

MetricsTypeOK ==
  /\ counter \in UNION {[D -> Nat] : D \in SUBSET Labels}
  /\ histogram \in UNION {[D -> Series] : D \in SUBSET Labels}
  /\ request \in [Handlers -> Serving \union Counting]
  /\ scrape \in Page

\* A request has a counter as soon as it is counting, and series as soon as it is done.
CountersThere ==
  \A r \in Handlers :
    /\ request[r].pc \in {"add", "observe", "done"} => request[r].label \in DOMAIN counter
    /\ request[r].pc = "done" => request[r].label \in DOMAIN histogram

\* What the page has read is not ahead of the counters, which only grow.
PageBehind ==
  \A l \in DOMAIN scrape.counters : l \in DOMAIN counter /\ scrape.counters[l] <= counter[l]

\* The requests the page missed have been counted under the label they keep.
PendingCounted == \A r \in scrape.pending : request[r].pc \in {"observe", "done"}

MetricsInv ==
  /\ MetricsTypeOK /\ CountersThere /\ PageBehind /\ PendingCounted
  /\ NoRequestLost /\ PageConsistent
-----------------------------------------------------------------------------
(* Lemmas about the operators *)

\* What Stored makes of a map is a map.
LEMMA StoredType ==
  ASSUME NEW S, NEW V, NEW map \in UNION {[D -> V] : D \in SUBSET S}, NEW l \in S, NEW v \in V
  PROVE  Stored(map, l, v) \in UNION {[D -> V] : D \in SUBSET S}
<1> PICK D \in SUBSET S : map \in [D -> V]
  OBVIOUS
<1> DEFINE E == D \union {l}
<1>1. Stored(map, l, v) \in [E -> V] /\ E \in SUBSET S
  BY DEF Stored
<1> QED
  BY <1>1

\* The two kinds of maps that are kept.
LEMMA CountStored ==
  ASSUME NEW map \in UNION {[D -> Nat] : D \in SUBSET Labels}, NEW l \in Labels, NEW n \in Nat
  PROVE  Stored(map, l, n) \in UNION {[D -> Nat] : D \in SUBSET Labels}
BY StoredType

LEMMA SeriesStored ==
  ASSUME NEW map \in UNION {[D -> Series] : D \in SUBSET Labels}, NEW l \in Labels,
         NEW data \in Series
  PROVE  Stored(map, l, data) \in UNION {[D -> Series] : D \in SUBSET Labels}
BY StoredType

\* What such a map gives.
LEMMA MapApplies ==
  ASSUME NEW S, NEW V, NEW map \in UNION {[D -> V] : D \in SUBSET S}
  PROVE  DOMAIN map \subseteq S /\ \A k \in DOMAIN map : map[k] \in V
OBVIOUS

\* A set of requests that gains or keeps a member has one more or as many.
LEMMA OneMore ==
  ASSUME NEW S, IsFiniteSet(S), NEW r, NEW T
  PROVE  /\ T = S \union {r} /\ r \notin S => Cardinality(T) = Cardinality(S) + 1
         /\ Cardinality(S) \in Nat
BY FS_AddElement, FS_CardinalityType

\* Requests of a label are finitely many.
LEMMA FiniteRequests ==
  ASSUME NEW l, NEW pcs
  PROVE  IsFiniteSet(RequestsOf(l, pcs)) /\ Cardinality(RequestsOf(l, pcs)) \in Nat
<1>1. RequestsOf(l, pcs) \in SUBSET Handlers
  BY DEF RequestsOf
<1> QED
  BY <1>1, MetricsAssumption, FS_Subset, FS_CardinalityType
-----------------------------------------------------------------------------
(* The invariant is kept *)

\* So are those that lasted up to a bound.
LEMMA FiniteLasted ==
  ASSUME NEW l, NEW bound
  PROVE  IsFiniteSet(Lasted(l, bound)) /\ Cardinality(Lasted(l, bound)) \in Nat
<1>1. Lasted(l, bound) \in SUBSET Handlers
  BY DEF Lasted, RequestsOf
<1> QED
  BY <1>1, MetricsAssumption, FS_Subset, FS_CardinalityType

LEMMA InitOK == MetricsInit => MetricsInv
<1> SUFFICES ASSUME MetricsInit PROVE MetricsInv
  OBVIOUS
<1> USE DEF MetricsInit, NoPage
<1>1. << >> \in [{} -> Nat] /\ << >> \in [{} -> Series] /\ DOMAIN << >> = {}
  OBVIOUS
<1>2. MetricsTypeOK
  BY <1>1 DEF MetricsTypeOK, Serving, Page
<1>3. CountersThere /\ PageBehind /\ PendingCounted
  BY <1>1 DEF CountersThere, PageBehind, PendingCounted
<1>4. NoRequestLost /\ PageConsistent
  BY <1>1 DEF NoRequestLost, PageConsistent
<1> QED
  BY <1>2, <1>3, <1>4 DEF MetricsInv

LEMMA StutterOK == MetricsInv /\ UNCHANGED metricsVars => MetricsInv'
<1> SUFFICES ASSUME MetricsInv, UNCHANGED metricsVars PROVE MetricsInv'
  OBVIOUS
<1> USE DEF metricsVars
<1>1. MetricsTypeOK' /\ CountersThere' /\ PageBehind' /\ PendingCounted'
  BY DEF MetricsInv, MetricsTypeOK, CountersThere, PageBehind, PendingCounted
<1>2. NoRequestLost'
  BY DEF MetricsInv, NoRequestLost, RequestsOf, Lasted
<1>3. PageConsistent'
  BY DEF MetricsInv, PageConsistent
<1> QED
  BY <1>1, <1>2, <1>3 DEF MetricsInv

\* Who is counted and what lasted, after a step that leaves one request elsewhere.
LEMMA CreateOK ==
  ASSUME MetricsInv, NEW r \in Handlers, NEW l \in Labels, NEW d \in Durations,
         CreateCounter(r, l, d)
  PROVE  MetricsInv'
<1> USE DEF MetricsInv, MetricsTypeOK
<1> DEFINE new == [pc |-> "add", label |-> l, duration |-> d]
<1>1. /\ request' = [request EXCEPT ![r] = new] /\ request[r].pc = "serve"
      /\ UNCHANGED <<histogram, scrape>>
  BY DEF CreateCounter
<1>2. new \in Counting /\ new.pc = "add" /\ new.label = l
  BY DEF Counting
<1>3. request'[r] = new /\ \A q \in Handlers \ {r} : request'[q] = request[q]
  BY <1>1
<1>4. /\ counter' \in UNION {[D -> Nat] : D \in SUBSET Labels}
      /\ DOMAIN counter' = DOMAIN counter \union {l}
      /\ \A k \in DOMAIN counter : counter'[k] = counter[k]
      /\ l \notin DOMAIN counter => counter'[l] = 0
  <2>1. CASE l \in DOMAIN counter
    BY <2>1 DEF CreateCounter
  <2>2. CASE l \notin DOMAIN counter
    <3>1. counter' = Stored(counter, l, 0)
      BY <2>2 DEF CreateCounter
    <3>2. Stored(counter, l, 0) \in UNION {[D -> Nat] : D \in SUBSET Labels}
      BY CountStored, 0 \in Nat
    <3>3. /\ DOMAIN Stored(counter, l, 0) = DOMAIN counter \union {l}
          /\ Stored(counter, l, 0)[l] = 0
          /\ \A k \in DOMAIN counter \ {l} : Stored(counter, l, 0)[k] = counter[k]
      BY DEF Stored
    <3> QED
      BY <2>2, <3>1, <3>2, <3>3
  <2> QED
    BY <2>1, <2>2
<1>5. MetricsTypeOK'
  BY <1>1, <1>2, <1>4
<1>6. CountersThere' /\ PageBehind' /\ PendingCounted'
  <2>1. CountersThere'
    BY <1>1, <1>2, <1>3, <1>4 DEF CountersThere
  <2>2. PageBehind'
    BY <1>1, <1>4 DEF PageBehind
  <2>3. PendingCounted'
    BY <1>1, <1>3 DEF PendingCounted, Page
  <2> QED
    BY <2>1, <2>2, <2>3
<1>7. \A k, pcs : "serve" \notin pcs /\ "add" \notin pcs
                     => RequestsOf(k, pcs)' = RequestsOf(k, pcs)
  BY <1>1, <1>2, <1>3 DEF RequestsOf
<1>8. l \notin DOMAIN counter => RequestsOf(l, {"observe", "done"}) = {}
  BY DEF CountersThere, RequestsOf
<1>9. NoRequestLost'
  <2>1. \A k \in DOMAIN counter' : counter'[k] = Cardinality(RequestsOf(k, {"observe", "done"}))'
    <3> SUFFICES ASSUME NEW k \in DOMAIN counter'
                 PROVE  counter'[k] = Cardinality(RequestsOf(k, {"observe", "done"})')
      OBVIOUS
    <3>1. RequestsOf(k, {"observe", "done"})' = RequestsOf(k, {"observe", "done"})
      BY <1>7
    <3>2. CASE k \in DOMAIN counter
      BY <3>1, <3>2, <1>4 DEF NoRequestLost
    <3>3. CASE k \notin DOMAIN counter
      BY <3>1, <3>3, <1>4, <1>8, FS_EmptySet
    <3> QED
      BY <3>2, <3>3
  <2>2. \A k : RequestsOf(k, {"done"})' = RequestsOf(k, {"done"})
    BY <1>7
  <2>3. \A k, b : Lasted(k, b)' = Lasted(k, b)
    BY <2>2, <1>3, <1>1 DEF RequestsOf, Lasted
  <2> QED
    BY <2>1, <2>2, <2>3, <1>1 DEF NoRequestLost
<1>10. PageConsistent'
  <2>1. \A k : {q \in scrape.pending : request[q].label = k}'
                 = {q \in scrape.pending : request[q].label = k}
    BY <1>1, <1>3 DEF PendingCounted, Page
  <2> QED
    BY <2>1, <1>1 DEF PageConsistent
<1> QED
  BY <1>5, <1>6, <1>9, <1>10

\* The counter and the set of requests that it counts grow by one.
LEMMA AddOK ==
  ASSUME MetricsInv, NEW r \in Handlers, Add(r)
  PROVE  MetricsInv'
<1> USE DEF MetricsInv, MetricsTypeOK
<1> DEFINE l == request[r].label
           n == counter[l] + 1
<1>1. /\ request[r].pc = "add" /\ counter' = [counter EXCEPT ![l] = n]
      /\ request' = [request EXCEPT ![r].pc = "observe"] /\ UNCHANGED <<histogram, scrape>>
  BY DEF Add
<1>2. request[r] \in Counting /\ l \in Labels /\ l \in DOMAIN counter
  BY <1>1 DEF Serving, Counting, CountersThere
<1>3. n \in Nat
  BY <1>2
<1>4. /\ request'[r] = [request[r] EXCEPT !.pc = "observe"]
      /\ request'[r] \in Counting /\ request'[r].pc = "observe"
      /\ request'[r].label = l /\ request'[r].duration = request[r].duration
      /\ \A q \in Handlers \ {r} : request'[q] = request[q]
  BY <1>1, <1>2 DEF Counting
<1>5. /\ counter' \in UNION {[D -> Nat] : D \in SUBSET Labels}
      /\ DOMAIN counter' = DOMAIN counter /\ counter'[l] = n
      /\ \A k \in DOMAIN counter \ {l} : counter'[k] = counter[k]
  BY <1>1, <1>2, <1>3
<1>6. MetricsTypeOK'
  BY <1>1, <1>4, <1>5
<1>7. CountersThere' /\ PageBehind' /\ PendingCounted'
  <2>1. CountersThere'
    BY <1>1, <1>2, <1>4, <1>5 DEF CountersThere
  <2>2. PageBehind'
    <3> SUFFICES ASSUME NEW k \in DOMAIN scrape.counters
                 PROVE  k \in DOMAIN counter' /\ scrape.counters[k] <= counter'[k]
      BY <1>1 DEF PageBehind
    <3>1. k \in DOMAIN counter /\ scrape.counters[k] <= counter[k] /\ scrape.counters[k] \in Nat
      BY DEF PageBehind, Page
    <3> QED
      BY <3>1, <1>3, <1>5
  <2>3. PendingCounted'
    BY <1>1, <1>4 DEF PendingCounted, Page
  <2> QED
    BY <2>1, <2>2, <2>3
<1>8. NoRequestLost'
  <2> DEFINE counted(k) == RequestsOf(k, {"observe", "done"})
  <2>1. \A k : /\ k = l => r \notin counted(k) /\ counted(k)' = counted(k) \union {r}
               /\ k # l => counted(k)' = counted(k)
    BY <1>1, <1>4 DEF RequestsOf
  <2>2. \A k \in DOMAIN counter' : counter'[k] = Cardinality(counted(k))'
    <3> SUFFICES ASSUME NEW k \in DOMAIN counter'
                 PROVE  counter'[k] = Cardinality(counted(k)')
      OBVIOUS
    <3>1. counter[k] = Cardinality(counted(k))
      BY <1>5 DEF NoRequestLost
    <3>2. CASE k = l
      <4>1. Cardinality(counted(k)') = Cardinality(counted(k)) + 1
        BY <2>1, <3>2, FiniteRequests, OneMore
      <4>2. counter'[k] = counter[k] + 1
        BY <1>5, <3>2
      <4> QED
        BY <3>1, <4>1, <4>2
    <3>3. CASE k # l
      BY <3>1, <3>3, <2>1, <1>5
    <3> QED
      BY <3>2, <3>3
  <2>3. \A k : RequestsOf(k, {"done"})' = RequestsOf(k, {"done"})
    BY <1>1, <1>4 DEF RequestsOf
  <2>4. \A k, b : Lasted(k, b)' = Lasted(k, b)
    BY <2>3, <1>1, <1>4 DEF RequestsOf, Lasted
  <2> QED
    BY <2>2, <2>3, <2>4, <1>1 DEF NoRequestLost
<1>9. PageConsistent'
  <2>1. \A k : {q \in scrape.pending : request[q].label = k}'
                 = {q \in scrape.pending : request[q].label = k}
    BY <1>1, <1>4 DEF PendingCounted, Page
  <2> QED
    BY <2>1, <1>1 DEF PageConsistent
<1> QED
  BY <1>6, <1>7, <1>8, <1>9

\* What one more observation does to a series.
LEMMA ObservedType ==
  ASSUME NEW data \in Series, NEW d \in Durations
  PROVE  /\ Observed(data, d) \in Series
         /\ Observed(data, d).count = data.count + 1
         /\ \A i \in DOMAIN Bounds : Observed(data, d).buckets[i]
              = data.buckets[i] + IF d <= Bounds[i] THEN 1 ELSE 0
BY MetricsAssumption DEF Observed, Series

\* Count, buckets and the sets of requests they count grow together.
LEMMA ObserveOK ==
  ASSUME MetricsInv, NEW r \in Handlers, Observe(r)
  PROVE  MetricsInv'
<1> USE DEF MetricsInv, MetricsTypeOK
<1> DEFINE l == request[r].label
           d == request[r].duration
           before == IF l \in DOMAIN histogram THEN histogram[l] ELSE NoData
           after == Observed(before, d)
<1>1. /\ request[r].pc = "observe" /\ histogram' = Stored(histogram, l, after)
      /\ request' = [request EXCEPT ![r].pc = "done"] /\ UNCHANGED <<counter, scrape>>
  BY DEF Observe
<1>2. request[r] \in Counting /\ l \in Labels /\ d \in Durations
  BY <1>1 DEF Serving, Counting
<1>3. before \in Series
  BY DEF NoData, Series
<1>4. /\ after \in Series /\ after.count = before.count + 1
      /\ \A i \in DOMAIN Bounds :
           after.buckets[i] = before.buckets[i] + IF d <= Bounds[i] THEN 1 ELSE 0
  BY <1>2, <1>3, ObservedType
<1>5. /\ request'[r] = [request[r] EXCEPT !.pc = "done"]
      /\ request'[r] \in Counting /\ request'[r].pc = "done"
      /\ request'[r].label = l /\ request'[r].duration = d
      /\ \A q \in Handlers \ {r} : request'[q] = request[q]
  BY <1>1, <1>2 DEF Counting
<1> HIDE DEF after, before
<1>6. /\ histogram' \in UNION {[D -> Series] : D \in SUBSET Labels}
      /\ DOMAIN histogram' = DOMAIN histogram \union {l} /\ histogram'[l] = after
      /\ \A k \in DOMAIN histogram \ {l} : histogram'[k] = histogram[k]
  <2>1. Stored(histogram, l, after) \in UNION {[D -> Series] : D \in SUBSET Labels}
    BY <1>2, <1>4, SeriesStored
  <2>2. /\ DOMAIN Stored(histogram, l, after) = DOMAIN histogram \union {l}
        /\ Stored(histogram, l, after)[l] = after
        /\ \A k \in DOMAIN histogram \ {l} : Stored(histogram, l, after)[k] = histogram[k]
    BY DEF Stored
  <2> QED
    BY <2>1, <2>2, <1>1
<1>7. MetricsTypeOK'
  BY <1>1, <1>5, <1>6
<1>8. CountersThere' /\ PageBehind' /\ PendingCounted'
  <2>1. CountersThere'
    BY <1>1, <1>2, <1>5, <1>6 DEF CountersThere
  <2>2. PageBehind'
    BY <1>1 DEF PageBehind
  <2>3. PendingCounted'
    BY <1>1, <1>5 DEF PendingCounted, Page
  <2> QED
    BY <2>1, <2>2, <2>3
<1>9. \A k : RequestsOf(k, {"observe", "done"})' = RequestsOf(k, {"observe", "done"})
  BY <1>1, <1>5 DEF RequestsOf
<1>10. \A k : /\ k = l => /\ r \notin RequestsOf(k, {"done"})
                          /\ RequestsOf(k, {"done"})' = RequestsOf(k, {"done"}) \union {r}
              /\ k # l => RequestsOf(k, {"done"})' = RequestsOf(k, {"done"})
  BY <1>1, <1>5 DEF RequestsOf
<1>11. \A k, b : /\ k = l /\ d <= b => /\ r \notin Lasted(k, b)
                                       /\ Lasted(k, b)' = Lasted(k, b) \union {r}
                 /\ ~(k = l /\ d <= b) => Lasted(k, b)' = Lasted(k, b)
  BY <1>1, <1>5 DEF Lasted, RequestsOf
\* The series before the observation counts the requests before it, if there is one or not.
<1>12. \A k : k = l => 
         /\ before.count = Cardinality(RequestsOf(k, {"done"}))
         /\ \A i \in DOMAIN Bounds : before.buckets[i] = Cardinality(Lasted(k, Bounds[i]))
  <2> SUFFICES ASSUME NEW k, k = l
               PROVE  /\ before.count = Cardinality(RequestsOf(k, {"done"}))
                      /\ \A i \in DOMAIN Bounds :
                           before.buckets[i] = Cardinality(Lasted(k, Bounds[i]))
    OBVIOUS
  <2>1. CASE k \in DOMAIN histogram
    <3>1. before = histogram[k]
      BY <2>1 DEF before
    <3> QED
      BY <2>1, <3>1 DEF NoRequestLost
  <2>2. CASE k \notin DOMAIN histogram
    <3>1. RequestsOf(k, {"done"}) = {} /\ \A b : Lasted(k, b) = {}
      BY <2>2 DEF CountersThere, RequestsOf, Lasted
    <3> QED
      BY <2>2, <3>1, FS_EmptySet DEF before, NoData
  <2> QED
    BY <2>1, <2>2
<1>13. NoRequestLost'
  <2>1. ASSUME NEW k \in DOMAIN histogram'
        PROVE  /\ histogram'[k].count = Cardinality(RequestsOf(k, {"done"})')
               /\ \A i \in DOMAIN Bounds :
                    histogram'[k].buckets[i] = Cardinality(Lasted(k, Bounds[i])')
    <3>1. CASE k = l
      <4>1. histogram'[k] = after
        BY <1>6, <3>1
      <4>2. after.count = Cardinality(RequestsOf(k, {"done"})')
        <5>1. after.count = Cardinality(RequestsOf(k, {"done"})) + 1
          BY <1>4, <1>12, <3>1
        <5> QED
          BY <5>1, <1>10, <3>1, FiniteRequests, OneMore
      <4>3. ASSUME NEW i \in DOMAIN Bounds
            PROVE  after.buckets[i] = Cardinality(Lasted(k, Bounds[i])')
        <5>1. /\ after.buckets[i] = before.buckets[i] + IF d <= Bounds[i] THEN 1 ELSE 0
              /\ before.buckets[i] = Cardinality(Lasted(k, Bounds[i]))
          BY <1>4, <1>12, <3>1
        <5>2. IsFiniteSet(Lasted(k, Bounds[i])) /\ Cardinality(Lasted(k, Bounds[i])) \in Nat
          BY FiniteLasted
        <5>3. CASE d <= Bounds[i]
          <6>1. /\ r \notin Lasted(k, Bounds[i])
                /\ Lasted(k, Bounds[i])' = Lasted(k, Bounds[i]) \union {r}
            BY <1>11, <5>3, <3>1
          <6> QED
            BY <6>1, <5>1, <5>2, <5>3, OneMore
        <5>4. CASE ~(d <= Bounds[i])
          <6>1. Lasted(k, Bounds[i])' = Lasted(k, Bounds[i])
            BY <1>11, <5>4
          <6> QED
            BY <6>1, <5>1, <5>2, <5>4
        <5> QED
          BY <5>3, <5>4
      <4> QED
        BY <4>1, <4>2, <4>3
    <3>2. CASE k # l
      <4>1. k \in DOMAIN histogram /\ histogram'[k] = histogram[k]
        BY <3>2, <1>6
      <4>2. \A b : Lasted(k, b)' = Lasted(k, b)
        BY <3>2, <1>11
      <4> QED
        BY <3>2, <4>1, <4>2, <1>10 DEF NoRequestLost
    <3> QED
      BY <3>1, <3>2
  <2>2. \A k \in DOMAIN counter' : counter'[k] = Cardinality(RequestsOf(k, {"observe", "done"})')
    BY <1>1, <1>9 DEF NoRequestLost
  <2> QED
    BY <2>1, <2>2 DEF NoRequestLost
<1>14. PageConsistent'
  <2>1. \A k : {q \in scrape.pending : request[q].label = k}'
                 = {q \in scrape.pending : request[q].label = k}
    BY <1>1, <1>5 DEF PendingCounted, Page
  <2> QED
    BY <2>1, <1>1 DEF PageConsistent
<1> QED
  BY <1>7, <1>8, <1>13, <1>14

\* Writing the page changes nothing that is counted.
LEMMA OnlyThePage ==
  ASSUME MetricsInv, UNCHANGED <<counter, histogram, request>>, scrape' \in Page
  PROVE  MetricsTypeOK' /\ CountersThere' /\ NoRequestLost'
<1>1. MetricsTypeOK' /\ CountersThere'
  BY DEF MetricsInv, MetricsTypeOK, CountersThere
<1>2. NoRequestLost'
  BY DEF MetricsInv, NoRequestLost, RequestsOf, Lasted
<1> QED
  BY <1>1, <1>2

\* A new page has read nothing.
LEMMA BeginOK == ASSUME MetricsInv, BeginScrape PROVE MetricsInv'
<1> USE DEF MetricsInv
<1>1. /\ scrape' = [NoPage EXCEPT !.pc = "counters", !.due = DOMAIN counter]
      /\ UNCHANGED <<counter, histogram, request>>
  BY DEF BeginScrape
<1>2. << >> \in [{} -> Nat] /\ DOMAIN << >> = {} /\ DOMAIN counter \subseteq Labels
  BY DEF MetricsTypeOK
<1>3. scrape' \in Page /\ scrape'.counters = << >> /\ scrape'.pending = {} /\ scrape'.pc = "counters"
  BY <1>1, <1>2 DEF NoPage, Page
<1>4. PageBehind' /\ PendingCounted' /\ PageConsistent'
  BY <1>2, <1>3 DEF PageBehind, PendingCounted, PageConsistent
<1> QED
  BY <1>1, <1>3, <1>4, OnlyThePage

\* What is read of a counter is what it holds.
LEMMA ReadCounterOK ==
  ASSUME MetricsInv, NEW l \in Labels, ReadCounter(l)
  PROVE  MetricsInv'
<1> USE DEF MetricsInv
<1> DEFINE read == Stored(scrape.counters, l, counter[l])
<1>1. /\ scrape.pc = "counters" /\ l \in DOMAIN counter /\ l \notin DOMAIN scrape.counters
      /\ scrape' = [scrape EXCEPT !.counters = read]
      /\ UNCHANGED <<counter, histogram, request>>
  BY DEF ReadCounter
<1>2. counter[l] \in Nat /\ scrape.counters \in UNION {[D -> Nat] : D \in SUBSET Labels}
  BY <1>1 DEF MetricsTypeOK, Page
<1>3. read \in UNION {[D -> Nat] : D \in SUBSET Labels}
  BY <1>2, CountStored
<1>4. /\ DOMAIN read = DOMAIN scrape.counters \union {l} /\ read[l] = counter[l]
      /\ \A k \in DOMAIN scrape.counters : read[k] = scrape.counters[k]
  BY <1>1 DEF Stored
<1> HIDE DEF read
<1>5. /\ scrape' \in Page /\ scrape'.counters = read /\ scrape'.pending = scrape.pending
      /\ scrape'.pc = "counters"
  BY <1>1, <1>3 DEF MetricsTypeOK, Page
<1>6. PageBehind'
  <2> SUFFICES ASSUME NEW k \in DOMAIN read
               PROVE  k \in DOMAIN counter /\ read[k] <= counter[k]
    BY <1>1, <1>5 DEF PageBehind
  <2> QED
    BY <1>1, <1>2, <1>4 DEF PageBehind
<1>7. PendingCounted' /\ PageConsistent'
  BY <1>1, <1>5 DEF PendingCounted, PageConsistent
<1> QED
  BY <1>1, <1>5, <1>6, <1>7, OnlyThePage

\* Between two looks at the same label, a counter is ahead of its histogram by those
\* that have not been observed yet.
LEMMA AheadByUnobserved ==
  ASSUME MetricsInv, NEW l \in DOMAIN counter
  PROVE  counter[l] = (IF l \in DOMAIN histogram THEN histogram[l].count ELSE 0)
                        + Cardinality(RequestsOf(l, {"observe"}))
<1> USE DEF MetricsInv
<1> DEFINE done == RequestsOf(l, {"done"})
           rest == RequestsOf(l, {"observe"})
<1>1. counter[l] = Cardinality(RequestsOf(l, {"observe", "done"}))
  BY DEF NoRequestLost
<1>2. RequestsOf(l, {"observe", "done"}) = done \union rest /\ done \intersect rest = {}
  BY DEF RequestsOf
<1>3. IsFiniteSet(done) /\ IsFiniteSet(rest) /\ Cardinality(done) \in Nat /\ Cardinality(rest) \in Nat
  BY FiniteRequests
<1>4. Cardinality(done \union rest) = Cardinality(done) + Cardinality(rest)
  <2>1. Cardinality(done \union rest)
          = Cardinality(done) + Cardinality(rest) - Cardinality(done \intersect rest)
    BY <1>3, FS_Union
  <2>2. Cardinality(done \intersect rest) = 0
    BY <1>2, FS_EmptySet
  <2> QED
    BY <2>1, <2>2, <1>3
<1>5. Cardinality(done) = IF l \in DOMAIN histogram THEN histogram[l].count ELSE 0
  <2>1. l \notin DOMAIN histogram => done = {}
    BY DEF CountersThere, RequestsOf
  <2> QED
    BY <2>1, FS_EmptySet DEF NoRequestLost
<1> QED
  BY <1>1, <1>2, <1>4, <1>5

\* The histograms are read while no request observes: the requests pending are
\* those between the addition to their counter and their observation.
LEMMA ReadHistogramsOK == ASSUME MetricsInv, ReadHistograms PROVE MetricsInv'
<1> USE DEF MetricsInv
<1> DEFINE observed == [l \in DOMAIN histogram |-> histogram[l].count]
           pending == {r \in Handlers : request[r].pc = "observe"}
<1>1. /\ scrape.pc = "counters" /\ UNCHANGED <<counter, histogram, request>>
      /\ scrape' = [scrape EXCEPT !.pc = "done", !.due = {}, !.observed = observed,
                                  !.pending = pending]
  BY DEF ReadHistograms
<1>2. observed \in UNION {[D -> Nat] : D \in SUBSET Labels}
  <2>1. DOMAIN histogram \in SUBSET Labels /\ \A l \in DOMAIN histogram : histogram[l].count \in Nat
    BY DEF MetricsTypeOK, Series
  <2>2. observed \in [DOMAIN histogram -> Nat]
    BY <2>1
  <2> QED
    BY <2>1, <2>2
<1>3. DOMAIN observed = DOMAIN histogram /\ \A l \in DOMAIN histogram : observed[l] = histogram[l].count
  OBVIOUS
<1>4. pending \in SUBSET Handlers
  OBVIOUS
<1> HIDE DEF observed, pending
<1>5. /\ scrape' \in Page /\ scrape'.counters = scrape.counters
      /\ scrape'.observed = observed /\ scrape'.pending = pending
  BY <1>1, <1>2, <1>4 DEF MetricsTypeOK, Page
<1>6. PageBehind' /\ PendingCounted'
  BY <1>1, <1>5 DEF PageBehind, PendingCounted, pending
<1>7. PageConsistent'
  <2> DEFINE missed(l) == {r \in pending : request[r].label = l}
  <2> SUFFICES ASSUME NEW l \in DOMAIN scrape.counters
               PROVE  scrape.counters[l]
                        <= (IF l \in DOMAIN observed THEN observed[l] ELSE 0) + Cardinality(missed(l))
    BY <1>1, <1>5 DEF PageConsistent
  <2>1. l \in DOMAIN counter /\ scrape.counters[l] <= counter[l]
    BY DEF PageBehind
  <2>2. missed(l) = RequestsOf(l, {"observe"})
    BY DEF pending, RequestsOf
  <2> QED
    BY <2>1, <2>2, <1>3, AheadByUnobserved
<1> QED
  BY <1>1, <1>5, <1>6, <1>7, OnlyThePage
-----------------------------------------------------------------------------
\* Every step keeps the invariant.
LEMMA MetricsStep == MetricsInv /\ [MetricsNext]_metricsVars => MetricsInv'
<1> SUFFICES ASSUME MetricsInv, [MetricsNext]_metricsVars PROVE MetricsInv'
  OBVIOUS
<1>1. ASSUME NEW r \in Handlers, NEW l \in Labels, NEW d \in Durations, CreateCounter(r, l, d)
      PROVE  MetricsInv'
  BY <1>1, CreateOK
<1>2. ASSUME NEW r \in Handlers, Add(r) PROVE MetricsInv'
  BY <1>2, AddOK
<1>3. ASSUME NEW r \in Handlers, Observe(r) PROVE MetricsInv'
  BY <1>3, ObserveOK
<1>4. CASE BeginScrape
  BY <1>4, BeginOK
<1>5. ASSUME NEW l \in Labels, ReadCounter(l) PROVE MetricsInv'
  BY <1>5, ReadCounterOK
<1>6. CASE ReadHistograms
  BY <1>6, ReadHistogramsOK
<1>7. CASE UNCHANGED metricsVars
  BY <1>7, StutterOK
<1> QED
  BY <1>1, <1>2, <1>3, <1>4, <1>5, <1>6, <1>7 DEF MetricsNext

\* The parts of the invariant hold at all times.
THEOREM MetricsInvariance == MetricsSpec => []MetricsInv
<1>1. MetricsInit => MetricsInv
  BY InitOK
<1>2. MetricsInv /\ [MetricsNext]_metricsVars => MetricsInv'
  BY MetricsStep
<1> QED
  BY <1>1, <1>2, PTL DEF MetricsSpec

\* However the creations of counters (LoadOrStore) and the additions of requests
\* interleave, every request is in its counter, its histogram and the right buckets,
\* for any number of requests, labels and buckets.
THEOREM CountsAreExact == MetricsSpec => []NoRequestLost
<1>1. MetricsInv => NoRequestLost
  BY DEF MetricsInv
<1> QED
  BY <1>1, MetricsInvariance, PTL

\* A page of metrics written while requests are served shows no counter ahead of its
\* histogram by more than the requests between the two.
THEOREM PagesAreConsistent == MetricsSpec => []PageConsistent
<1>1. MetricsInv => PageConsistent
  BY DEF MetricsInv
<1> QED
  BY <1>1, MetricsInvariance, PTL

-----------------------------------------------------------------------------
(* The dashboard and the log *)

(* The inductive invariant *)

Silent == {"silentSuccess", "silentFallback"}

\* The recorders of these kinds that have added to at least n counters.
Added(kinds, n) == {r \in Recorders : recorder[r].kind \in kinds /\ recorder[r].added >= n}

Entry == [n : Nat, session : Sessions \union {Absent}]

StatsTypeOK ==
  /\ stats \in [DOMAIN Seeded -> Nat]
  /\ recorder \in [Recorders -> [kind : Kinds \union {Absent}, added : 0 .. 2]]
  /\ \A r \in Recorders :
       IF recorder[r].kind = Absent THEN recorder[r].added = 0
       ELSE recorder[r].added \in 1 .. Len(Adds[recorder[r].kind])
  /\ dashboard \in Seq(Nat) /\ Len(dashboard) <= Len(Loads)
  /\ busy \in SUBSET Recorders
  /\ entries \in Seq(Entry) /\ appended \in Seq(Entry)

\* What was recorded is what the recorders added.
CountersAddUp ==
  /\ stats.silentSuccess = Seeded.silentSuccess + Cardinality(Added({"silentSuccess"}, 1))
  /\ stats.silentFallback = Seeded.silentFallback + Cardinality(Added({"silentFallback"}, 1))
  /\ stats.totalRequests = Seeded.totalRequests + Cardinality(Added(Silent, 2))

\* Whoever is not busy had finished before the dashboard loaded the total, which counts it.
TotalCountsSettled ==
  dashboard # << >> =>
    /\ \A r \in Recorders \ busy : ~UnderWay(r)
    /\ dashboard[1] >= Seeded.totalRequests + Cardinality(Added(Silent, 2) \ busy)

\* What was loaded later is at least what belongs to the total, and is still exceeded.
LaterLoadsCover ==
  /\ Len(dashboard) >= 1 => dashboard[1] <= stats.silentSuccess + stats.silentFallback
  /\ Len(dashboard) >= 2 => /\ dashboard[1] <= dashboard[2] + stats.silentFallback
                            /\ dashboard[2] <= stats.silentSuccess
  /\ Len(dashboard) >= 3 => /\ dashboard[1] <= dashboard[2] + dashboard[3]
                            /\ dashboard[3] <= stats.silentFallback

\* The log holds the newest entries, newest first.
LogIsNewest ==
  /\ Len(entries) = IF Len(appended) > Cap THEN Cap ELSE Len(appended)
  /\ \A i \in 1 .. Len(appended) : appended[i].n = i - 1
  /\ \A i \in 1 .. Len(entries) : entries[i] = appended[Len(appended) + 1 - i]

StatsInv ==
  /\ StatsTypeOK /\ CountersAddUp /\ TotalCountsSettled /\ LaterLoadsCover /\ LogIsNewest
-----------------------------------------------------------------------------
(* Lemmas about numbers *)

\* Part of an interval is finite.
LEMMA FiniteInterval ==
  ASSUME NEW S, NEW n \in Nat
  PROVE  IsFiniteSet(S \intersect 1 .. n) /\ Cardinality(S \intersect 1 .. n) \in Nat
<1>1. IsFiniteSet(1 .. n)
  BY FS_Interval
<1>2. S \intersect 1 .. n \subseteq 1 .. n
  OBVIOUS
<1> QED
  BY <1>1, <1>2, FS_Subset, FS_CardinalityType

\* The elements of S among the first n numbers, and those of them that are taken.
Of(S, n) == S \intersect 1 .. n
Taken(S, limit, n) == {j \in Of(S, n) : Cardinality(Of(S, j)) <= limit}

\* Taken are as many as there are, up to the limit.
LEMMA FirstOnes ==
  ASSUME NEW S, NEW limit \in Nat
  PROVE  \A n \in Nat : Cardinality(Taken(S, limit, n))
           = IF Cardinality(Of(S, n)) <= limit THEN Cardinality(Of(S, n)) ELSE limit
<1> DEFINE C(n) == Cardinality(Of(S, n))
           T == {n \in Nat : Cardinality(Taken(S, limit, n)) = IF C(n) <= limit THEN C(n) ELSE limit}
<1>0. \A n \in Nat : IsFiniteSet(Of(S, n)) /\ C(n) \in Nat
  BY FiniteInterval DEF Of
<1>1. 0 \in T
  <2>1. Of(S, 0) = {} /\ Taken(S, limit, 0) = {}
    BY DEF Of, Taken
  <2>2. Cardinality(Of(S, 0)) = 0 /\ Cardinality(Taken(S, limit, 0)) = 0
    BY <2>1, FS_EmptySet
  <2> QED
    BY <2>2
<1>2. ASSUME NEW n \in Nat, n \in T PROVE n + 1 \in T
  <2>1. Cardinality(Taken(S, limit, n)) = IF C(n) <= limit THEN C(n) ELSE limit
    BY <1>2
  <2>2. CASE n + 1 \in S
    <3>1. Of(S, n + 1) = Of(S, n) \union {n + 1} /\ n + 1 \notin Of(S, n)
      BY <2>2 DEF Of
    <3>2. C(n + 1) = C(n) + 1
      BY <1>0, <3>1, FS_AddElement
    <3>3. CASE C(n + 1) <= limit
      <4>1. Taken(S, limit, n + 1) = Taken(S, limit, n) \union {n + 1}
        BY <3>1, <3>3 DEF Taken
      <4>2. n + 1 \notin Taken(S, limit, n) /\ IsFiniteSet(Taken(S, limit, n))
        BY <1>0, <3>1, FS_Subset DEF Taken
      <4>3. Cardinality(Taken(S, limit, n + 1)) = Cardinality(Taken(S, limit, n)) + 1
        BY <4>1, <4>2, FS_AddElement
      <4> QED
        BY <1>0, <2>1, <3>2, <3>3, <4>3
    <3>4. CASE ~ (C(n + 1) <= limit)
      <4>1. Taken(S, limit, n + 1) = Taken(S, limit, n)
        BY <3>1, <3>4 DEF Taken
      <4> QED
        BY <1>0, <2>1, <3>2, <3>4, <4>1
    <3> QED
      BY <3>3, <3>4
  <2>3. CASE n + 1 \notin S
    <3>1. Of(S, n + 1) = Of(S, n)
      BY <2>3 DEF Of
    <3>2. Taken(S, limit, n + 1) = Taken(S, limit, n)
      BY <3>1 DEF Taken
    <3> QED
      BY <2>1, <3>1, <3>2
  <2> QED
    BY <2>2, <2>3
<1> HIDE DEF T
<1>3. Nat \subseteq T
  BY <1>1, <1>2, NatSetInduction
<1> QED
  BY <1>3 DEF T
-----------------------------------------------------------------------------
(* Lemmas about the counters *)

\* What a recorder adds to, and when.
LEMMA AddsTo ==
  ASSUME NEW kind \in DOMAIN Adds
  PROVE  /\ Len(Adds[kind]) \in 1 .. 2
         /\ \A n \in 1 .. Len(Adds[kind]) :
              /\ Adds[kind][n] \in DOMAIN Seeded
              /\ Adds[kind][n] = "silentSuccess" <=> kind = "silentSuccess" /\ n = 1
              /\ Adds[kind][n] = "silentFallback" <=> kind = "silentFallback" /\ n = 1
              /\ Adds[kind][n] = "totalRequests" <=> kind \in Silent /\ n = 2
<1>1. kind \in {"silentSuccess", "silentFallback", "otpSent", "otpVerified", "riskBlocked",
                "simSwapDetected"}
  BY DEF Adds
<1> QED
  BY <1>1 DEF Adds, Seeded, Silent

\* The order in which the dashboard loads.
LEMMA LoadsOrder ==
  /\ Len(Loads) = 4
  /\ Loads[1] = "totalRequests" /\ Loads[2] = "silentSuccess" /\ Loads[3] = "silentFallback"
  /\ Loads[4] = "riskBlocked"
BY DEF Loads

\* Arithmetic, of numbers with names: the prover does not see through Len and Cardinality.
LEMMA OneLess ==
  /\ \A n \in Nat : n <= 4 /\ n # 4 => n \in 0 .. 3
  /\ \A n \in 0 .. 3 : n + 1 <= 4
OBVIOUS

\* Numbers: the total was loaded before what it consists of, which only grows.
LEMMA Excess ==
  \A t, s, f, success, fallback, most \in Nat :
    /\ t <= s + f /\ s <= success /\ f <= fallback
    /\ success + fallback <= t + most
    => s + f - t \in 0 .. most
OBVIOUS

\* A sequence is empty if its length is 0.
LEMMA EmptyLog ==
  /\ << >> \in Seq(Nat) /\ Len(<< >>) = 0
  /\ \A s \in Seq(Nat) : s = << >> <=> Len(s) = 0
OBVIOUS

\* The counters the server starts with.
LEMMA SeededCounters ==
  /\ Seeded.totalRequests = 124892 /\ Seeded.silentSuccess = 105825 /\ Seeded.silentFallback = 19067
  /\ {"totalRequests", "silentSuccess", "silentFallback", "riskBlocked"} \subseteq DOMAIN Seeded
BY DEF Seeded

\* Recorders are finitely many.
LEMMA FiniteRecorders ==
  ASSUME NEW S \in SUBSET Recorders
  PROVE  IsFiniteSet(S) /\ Cardinality(S) \in Nat
BY StatisticsAssumption, FS_Subset, FS_CardinalityType

\* Who has added is a recorder.
LEMMA AddedAreRecorders == \A kinds, n : Added(kinds, n) \in SUBSET Recorders
BY DEF Added

\* A record moves its recorder into at most one of the sets that are counted.
LEMMA RecordAdds ==
  ASSUME StatsTypeOK, NEW r \in Recorders, NEW kind \in Kinds, Record(r, kind)
  PROVE  LET n == recorder[r].added + 1 IN
         /\ n \in 1 .. Len(Adds[kind]) /\ recorder[r].kind \in {Absent, kind}
         /\ recorder' = [recorder EXCEPT ![r] = [kind |-> kind, added |-> n]]
         /\ \A kinds : \A m \in {1, 2} :
              /\ kind \in kinds /\ n = m => /\ r \notin Added(kinds, m)
                                            /\ Added(kinds, m)' = Added(kinds, m) \union {r}
              /\ ~(kind \in kinds /\ n = m) => Added(kinds, m)' = Added(kinds, m)
<1> DEFINE n == recorder[r].added + 1
<1> USE DEF StatsTypeOK
<1>1. kind \in DOMAIN Adds /\ kind # Absent /\ Len(Adds[kind]) \in 1 .. 2
  BY StatisticsAssumption, AddsTo
<1>2. recorder' = [recorder EXCEPT ![r] = [kind |-> kind, added |-> n]]
  BY DEF Record
<1>3. recorder[r].added \in 0 .. 2 /\ recorder[r].kind \in {Absent, kind} /\ n \in 1 .. Len(Adds[kind])
  BY <1>1 DEF Record, UnderWay
<1>4. recorder'[r].kind = kind /\ recorder'[r].added = n
      /\ \A q \in Recorders \ {r} : recorder'[q] = recorder[q]
  BY <1>2
<1>5. ASSUME NEW kinds, NEW m \in {1, 2}, kind \in kinds, n = m
      PROVE  r \notin Added(kinds, m) /\ Added(kinds, m)' = Added(kinds, m) \union {r}
  BY <1>3, <1>4, <1>5 DEF Added
<1>6. ASSUME NEW kinds, NEW m \in {1, 2}, ~(kind \in kinds /\ n = m)
      PROVE  Added(kinds, m)' = Added(kinds, m)
  <2>1. kind \notin kinds => (recorder[r].kind \in kinds => recorder[r].added < m)
    BY <1>3
  <2>2. (recorder[r].kind \in kinds /\ recorder[r].added >= m) <=> (kind \in kinds /\ n >= m)
    BY <1>1, <1>3, <1>6
  <2> QED
    BY <1>4, <2>2 DEF Added
<1> QED
  BY <1>2, <1>3, <1>5, <1>6
\* Every silent event has been added to its own counter before the total.
LEMMA AddedSplit ==
  ASSUME StatsTypeOK, CountersAddUp
  PROVE  /\ stats.silentSuccess + stats.silentFallback
              = Seeded.totalRequests + Cardinality(Added(Silent, 1))
         /\ stats.totalRequests <= stats.silentSuccess + stats.silentFallback
         /\ stats.silentSuccess \in Nat /\ stats.silentFallback \in Nat /\ stats.totalRequests \in Nat
<1> DEFINE A == Added({"silentSuccess"}, 1)
           B == Added({"silentFallback"}, 1)
<1>1. Added(Silent, 1) = A \union B /\ A \intersect B = {} /\ Added(Silent, 2) \subseteq A \union B
  BY DEF Added, Silent, StatsTypeOK
<1>2. /\ IsFiniteSet(A) /\ IsFiniteSet(B) /\ IsFiniteSet(Added(Silent, 2)) /\ IsFiniteSet(A \union B)
      /\ Cardinality(A) \in Nat /\ Cardinality(B) \in Nat /\ Cardinality(Added(Silent, 2)) \in Nat
      /\ Cardinality(A \union B) \in Nat
  BY AddedAreRecorders, FiniteRecorders
<1>3. Cardinality(A \union B) = Cardinality(A) + Cardinality(B)
  <2>1. Cardinality(A \union B) = Cardinality(A) + Cardinality(B) - Cardinality(A \intersect B)
    BY <1>2, FS_Union
  <2>2. Cardinality(A \intersect B) = 0
    BY <1>1, FS_EmptySet
  <2> QED
    BY <1>2, <2>1, <2>2
<1>4. Cardinality(Added(Silent, 2)) <= Cardinality(A \union B)
  BY <1>1, <1>2, FS_Subset
<1>5. /\ stats.silentSuccess = 105825 + Cardinality(A) /\ stats.silentFallback = 19067 + Cardinality(B)
      /\ stats.totalRequests = 124892 + Cardinality(Added(Silent, 2))
  BY DEF CountersAddUp, Seeded
<1> HIDE DEF A, B
<1> QED
  BY <1>1, <1>2, <1>3, <1>4, <1>5 DEF Seeded

\* Whatever is in the counters and not in the total loaded is of busy recorders.
LEMMA ExcessIsBusy ==
  ASSUME StatsTypeOK, CountersAddUp, TotalCountsSettled, dashboard # << >>
  PROVE  /\ stats.silentSuccess + stats.silentFallback <= dashboard[1] + Cardinality(busy)
         /\ Cardinality(busy) \in Nat
<1> DEFINE S == Added(Silent, 2) \ busy
<1>1. Added(Silent, 1) \subseteq S \union busy
  <2> SUFFICES ASSUME NEW r \in Added(Silent, 1), r \notin busy PROVE r \in Added(Silent, 2)
    OBVIOUS
  <2>1. r \in Recorders /\ ~UnderWay(r) /\ recorder[r].kind \in Silent /\ recorder[r].added >= 1
    BY DEF TotalCountsSettled, Added
  <2>2. recorder[r].kind \in Kinds /\ recorder[r].kind # Absent /\ recorder[r].added \in Nat
    BY <2>1 DEF StatsTypeOK
  <2>3. Len(Adds[recorder[r].kind]) = 2
    BY <2>1 DEF Silent, Adds
  <2> QED
    BY <2>1, <2>2, <2>3 DEF UnderWay, Added
<1>2. /\ S \in SUBSET Recorders /\ busy \in SUBSET Recorders /\ S \union busy \in SUBSET Recorders
      /\ Added(Silent, 1) \in SUBSET Recorders
  BY AddedAreRecorders DEF StatsTypeOK
<1>3. /\ Cardinality(Added(Silent, 1)) <= Cardinality(S \union busy)
      /\ Cardinality(S \union busy) <= Cardinality(S) + Cardinality(busy)
      /\ Cardinality(S) \in Nat /\ Cardinality(busy) \in Nat /\ Cardinality(S \union busy) \in Nat
      /\ Cardinality(Added(Silent, 1)) \in Nat
  <2>1. /\ IsFiniteSet(S) /\ IsFiniteSet(busy) /\ IsFiniteSet(S \union busy)
        /\ Cardinality(S) \in Nat /\ Cardinality(busy) \in Nat /\ Cardinality(S \union busy) \in Nat
        /\ Cardinality(Added(Silent, 1)) \in Nat
    BY <1>2, FiniteRecorders
  <2>2. Cardinality(Added(Silent, 1)) <= Cardinality(S \union busy)
    BY <1>1, <2>1, FS_Subset
  <2>3. /\ Cardinality(S \union busy)
             = Cardinality(S) + Cardinality(busy) - Cardinality(S \intersect busy)
        /\ Cardinality(S \intersect busy) \in Nat
    BY <2>1, FS_Union, FS_Intersection, FS_CardinalityType
  <2> QED
    BY <2>1, <2>2, <2>3
<1>4. dashboard[1] >= 124892 + Cardinality(S) /\ dashboard[1] \in Nat
  <2>1. Len(dashboard) >= 1
    BY DEF StatsTypeOK
  <2> QED
    BY <2>1 DEF TotalCountsSettled, StatsTypeOK, Seeded
<1>5. stats.silentSuccess + stats.silentFallback = 124892 + Cardinality(Added(Silent, 1))
  BY AddedSplit DEF Seeded
<1> HIDE DEF S
<1> QED
  BY <1>3, <1>4, <1>5
-----------------------------------------------------------------------------
(* The invariant is kept *)

LEMMA StatsInitOK == StatsInit => StatsInv
<1> SUFFICES ASSUME StatsInit PROVE StatsInv
  OBVIOUS
<1> USE DEF StatsInit
<1>1. StatsTypeOK
  <2>1. SeededEntries \in Seq(Entry)
    BY DEF SeededEntries, Entry
  <2> QED
    BY <2>1 DEF StatsTypeOK, Seeded, Loads
<1>2. Added({"silentSuccess"}, 1) = {} /\ Added({"silentFallback"}, 1) = {} /\ Added(Silent, 2) = {}
  BY DEF Added
<1>3. CountersAddUp
  <2>1. /\ Cardinality(Added({"silentSuccess"}, 1)) = 0 /\ Cardinality(Added({"silentFallback"}, 1)) = 0
        /\ Cardinality(Added(Silent, 2)) = 0
    BY <1>2, FS_EmptySet
  <2> QED
    BY <2>1, SeededCounters DEF CountersAddUp
<1>4. TotalCountsSettled /\ LaterLoadsCover
  BY DEF TotalCountsSettled, LaterLoadsCover
<1>5. LogIsNewest
  BY StatisticsAssumption DEF LogIsNewest, SeededEntries
<1> QED
  BY <1>1, <1>3, <1>4, <1>5 DEF StatsInv

\* A counter and the set of recorders that have added to it grow by one.
LEMMA RecordOK ==
  ASSUME StatsInv, NEW r \in Recorders, NEW kind \in Kinds, Record(r, kind)
  PROVE  StatsInv'
<1> USE DEF StatsInv
<1> DEFINE n == recorder[r].added + 1
           c == Adds[kind][n]
<1>1. /\ n \in 1 .. Len(Adds[kind]) /\ recorder[r].kind \in {Absent, kind}
      /\ recorder' = [recorder EXCEPT ![r] = [kind |-> kind, added |-> n]]
      /\ \A kinds : \A m \in {1, 2} :
           /\ kind \in kinds /\ n = m => /\ r \notin Added(kinds, m)
                                         /\ Added(kinds, m)' = Added(kinds, m) \union {r}
           /\ ~(kind \in kinds /\ n = m) => Added(kinds, m)' = Added(kinds, m)
  BY RecordAdds
<1>2. /\ stats' = [stats EXCEPT ![c] = @ + 1] /\ UNCHANGED <<dashboard, entries, appended>>
      /\ busy' = IF dashboard = << >> THEN busy ELSE busy \union {r}
  BY DEF Record
<1>3. /\ kind \in DOMAIN Adds /\ kind # Absent /\ Len(Adds[kind]) \in 1 .. 2 /\ n \in 1 .. 2
      /\ c \in DOMAIN Seeded
      /\ c = "silentSuccess" <=> kind = "silentSuccess" /\ n = 1
      /\ c = "silentFallback" <=> kind = "silentFallback" /\ n = 1
      /\ c = "totalRequests" <=> kind \in Silent /\ n = 2
  BY <1>1, StatisticsAssumption, AddsTo
<1> HIDE DEF n, c
<1>4. /\ stats' \in [DOMAIN Seeded -> Nat] /\ stats'[c] = stats[c] + 1 /\ stats[c] \in Nat
      /\ \A x \in DOMAIN Seeded \ {c} : stats'[x] = stats[x]
      /\ {"silentSuccess", "silentFallback", "totalRequests"} \subseteq DOMAIN Seeded
  BY <1>2, <1>3 DEF StatsTypeOK, Seeded
<1>5. StatsTypeOK'
  <2>1. [kind |-> kind, added |-> n] \in [kind : Kinds \union {Absent}, added : 0 .. 2]
    BY <1>3
  <2>2. recorder' \in [Recorders -> [kind : Kinds \union {Absent}, added : 0 .. 2]]
    BY <1>1, <2>1 DEF StatsTypeOK
  <2>3. \A q \in Recorders : IF recorder'[q].kind = Absent THEN recorder'[q].added = 0
                             ELSE recorder'[q].added \in 1 .. Len(Adds[recorder'[q].kind])
    BY <1>1, <1>3 DEF StatsTypeOK
  <2>4. busy' \in SUBSET Recorders
    BY <1>2 DEF StatsTypeOK
  <2> QED
    BY <1>2, <1>4, <2>2, <2>3, <2>4 DEF StatsTypeOK
<1>6. CountersAddUp'
  <2>1. ASSUME NEW x \in DOMAIN Seeded, NEW kinds, NEW m \in {1, 2},
               c = x <=> kind \in kinds /\ n = m,
               stats[x] = Seeded[x] + Cardinality(Added(kinds, m))
        PROVE  stats'[x] = Seeded[x] + Cardinality(Added(kinds, m)')
    <3>1. IsFiniteSet(Added(kinds, m)) /\ Cardinality(Added(kinds, m)) \in Nat
      BY AddedAreRecorders, FiniteRecorders
    <3>2. CASE c = x
      <4>1. r \notin Added(kinds, m) /\ Added(kinds, m)' = Added(kinds, m) \union {r}
        BY <1>1, <2>1, <3>2
      <4>2. Cardinality(Added(kinds, m)') = Cardinality(Added(kinds, m)) + 1
        BY <3>1, <4>1, FS_AddElement
      <4>3. Seeded[x] \in Nat
        BY DEF Seeded
      <4> QED
        BY <1>4, <2>1, <3>1, <3>2, <4>2, <4>3
    <3>3. CASE c # x
      <4>1. Added(kinds, m)' = Added(kinds, m)
        BY <1>1, <2>1, <3>3
      <4> QED
        BY <1>4, <2>1, <3>3, <4>1
    <3> QED
      BY <3>2, <3>3
  <2>2. stats'["silentSuccess"]
          = Seeded["silentSuccess"] + Cardinality(Added({"silentSuccess"}, 1)')
    BY <1>3, <1>4, <2>1 DEF CountersAddUp
  <2>3. stats'["silentFallback"]
          = Seeded["silentFallback"] + Cardinality(Added({"silentFallback"}, 1)')
    BY <1>3, <1>4, <2>1 DEF CountersAddUp
  <2>4. stats'["totalRequests"] = Seeded["totalRequests"] + Cardinality(Added(Silent, 2)')
    BY <1>3, <1>4, <2>1 DEF CountersAddUp
  <2> QED
    BY <2>2, <2>3, <2>4 DEF CountersAddUp
<1>7. TotalCountsSettled'
  <2> SUFFICES ASSUME dashboard # << >>
               PROVE  /\ \A q \in Recorders \ busy' : ~UnderWay(q)'
                      /\ dashboard[1] >= Seeded.totalRequests + Cardinality((Added(Silent, 2) \ busy)')
    BY <1>2 DEF TotalCountsSettled
  <2>1. busy' = busy \union {r}
    BY <1>2
  <2>2. \A q \in Recorders \ busy' : ~UnderWay(q)'
    BY <1>1, <2>1 DEF TotalCountsSettled, UnderWay, StatsTypeOK
  <2>3. (Added(Silent, 2) \ busy)' \subseteq Added(Silent, 2) \ busy
    <3>1. Added(Silent, 2)' \subseteq Added(Silent, 2) \union {r}
      BY <1>1
    <3> QED
      BY <3>1, <2>1
  <2>4. /\ IsFiniteSet(Added(Silent, 2) \ busy) /\ Cardinality(Added(Silent, 2) \ busy) \in Nat
        /\ Cardinality((Added(Silent, 2) \ busy)') <= Cardinality(Added(Silent, 2) \ busy)
        /\ Cardinality((Added(Silent, 2) \ busy)') \in Nat
    <3>1. Added(Silent, 2) \ busy \in SUBSET Recorders
      BY AddedAreRecorders
    <3> QED
      BY <3>1, <2>3, FiniteRecorders, FS_Subset, FS_CardinalityType
  <2>5. dashboard[1] \in Nat /\ dashboard[1] >= Seeded.totalRequests + Cardinality(Added(Silent, 2) \ busy)
    BY DEF TotalCountsSettled, StatsTypeOK
  <2> QED
    BY <2>2, <2>4, <2>5 DEF Seeded
<1>8. LaterLoadsCover'
  <2>1. /\ stats'["silentSuccess"] >= stats["silentSuccess"]
        /\ stats'["silentFallback"] >= stats["silentFallback"]
        /\ stats["silentSuccess"] \in Nat /\ stats["silentFallback"] \in Nat
        /\ stats'["silentSuccess"] \in Nat /\ stats'["silentFallback"] \in Nat
    <3>1. \A x \in DOMAIN Seeded : stats[x] \in Nat /\ stats'[x] \in Nat /\ stats'[x] >= stats[x]
      <4> SUFFICES ASSUME NEW x \in DOMAIN Seeded
                   PROVE  stats[x] \in Nat /\ stats'[x] \in Nat /\ stats'[x] >= stats[x]
        OBVIOUS
      <4>1. stats[x] \in Nat
        BY DEF StatsTypeOK
      <4> QED
        BY <4>1, <1>4
    <3> QED
      BY <3>1, SeededCounters
  <2>2. \A i \in 1 .. Len(dashboard) : dashboard[i] \in Nat
    BY DEF StatsTypeOK
  <2>3. Len(dashboard) \in Nat
    BY DEF StatsTypeOK
  <2> DEFINE good == stats["silentSuccess"]  good1 == stats'["silentSuccess"]
             bad == stats["silentFallback"]  bad1 == stats'["silentFallback"]
             loaded == Len(dashboard)
  <2>4. /\ loaded >= 1 => dashboard[1] <= good + bad
        /\ loaded >= 2 => dashboard[1] <= dashboard[2] + bad /\ dashboard[2] <= good
        /\ loaded >= 3 => dashboard[1] <= dashboard[2] + dashboard[3] /\ dashboard[3] <= bad
    BY DEF LaterLoadsCover
  <2>5. /\ good \in Nat /\ bad \in Nat /\ good1 \in Nat /\ bad1 \in Nat /\ loaded \in Nat
        /\ good <= good1 /\ bad <= bad1
        /\ \A i \in 1 .. loaded : dashboard[i] \in Nat
    BY <2>1, <2>2, <2>3
  <2> HIDE DEF good, bad, good1, bad1, loaded
  <2>6. loaded >= 1 => dashboard[1] <= good1 + bad1
    BY <2>4, <2>5
  <2>7. loaded >= 2 => dashboard[1] <= dashboard[2] + bad1 /\ dashboard[2] <= good1
    BY <2>4, <2>5
  <2>8. loaded >= 3 => dashboard[1] <= dashboard[2] + dashboard[3] /\ dashboard[3] <= bad1
    BY <2>4, <2>5
  <2> QED
    BY <1>2, <2>6, <2>7, <2>8 DEF LaterLoadsCover, good1, bad1, loaded
<1>9. LogIsNewest'
  BY <1>2 DEF LogIsNewest
<1> QED
  BY <1>5, <1>6, <1>7, <1>8, <1>9

\* What is loaded covers, with what is still to be loaded, what has been loaded.
LEMMA LoadOK == ASSUME StatsInv, Load PROVE StatsInv'
<1> DEFINE loaded == IF Len(dashboard) = Len(Loads) THEN << >> ELSE dashboard
           x == stats[Loads[Len(loaded) + 1]]
<1>0. StatsTypeOK /\ CountersAddUp /\ TotalCountsSettled /\ LaterLoadsCover /\ LogIsNewest
  BY DEF StatsInv
<1>1. /\ dashboard' = Append(loaded, x) /\ UNCHANGED <<stats, recorder, entries, appended>>
      /\ busy' = IF loaded = << >> THEN {r \in Recorders : UnderWay(r)} ELSE busy
  BY DEF Load
<1>2. /\ loaded \in Seq(Nat) /\ Len(loaded) \in 0 .. 3
      /\ loaded # << >> => loaded = dashboard /\ Len(dashboard) \in 1 .. 3
      /\ loaded = << >> => Len(loaded) = 0
  <2>1. dashboard \in Seq(Nat) /\ Len(dashboard) <= Len(Loads)
    BY <1>0 DEF StatsTypeOK
  <2>2. Len(Loads) = 4
    BY LoadsOrder
  <2>3. loaded = IF Len(dashboard) = 4 THEN << >> ELSE dashboard
    BY <2>2
  <2>4. Len(dashboard) \in Nat /\ Len(dashboard) <= 4
    BY <2>1, <2>2
  <2> HIDE DEF loaded
  <2>5. CASE Len(dashboard) = 4
    <3>1. loaded = << >>
      BY <2>3, <2>5
    <3>2. Len(loaded) = 0 /\ loaded \in Seq(Nat)
      BY <3>1, EmptyLog
    <3> QED
      BY <3>1, <3>2
  <2>6. CASE Len(dashboard) # 4
    <3>1. loaded = dashboard
      BY <2>3, <2>6
    <3>2. dashboard = << >> <=> Len(dashboard) = 0
      BY <2>1, EmptyLog
    <3>3. Len(dashboard) \in 0 .. 3
      BY <2>4, <2>6, OneLess
    <3>4. dashboard # << >> => Len(dashboard) \in 1 .. 3
      BY <3>2, <3>3
    <3> QED
      BY <2>1, <3>1, <3>2, <3>3, <3>4
  <2> QED
    BY <2>5, <2>6
<1>3. stats \in [DOMAIN Seeded -> Nat]
  BY <1>0 DEF StatsTypeOK
<1> HIDE DEF loaded
<1>4. /\ x \in Nat
      /\ Len(loaded) = 0 => x = stats["totalRequests"]
      /\ Len(loaded) = 1 => x = stats["silentSuccess"]
      /\ Len(loaded) = 2 => x = stats["silentFallback"]
  <2>1. Len(loaded) = 0 \/ Len(loaded) = 1 \/ Len(loaded) = 2 \/ Len(loaded) = 3
    BY <1>2
  <2>2. \A n \in 0 .. 3 : Loads[n + 1] \in DOMAIN Seeded
    BY LoadsOrder, SeededCounters
  <2>3. x \in Nat
    BY <1>2, <1>3, <2>2
  <2>4. Len(loaded) = 0 => x = stats["totalRequests"]
    BY LoadsOrder
  <2>5. Len(loaded) = 1 => x = stats["silentSuccess"]
    BY LoadsOrder
  <2>6. Len(loaded) = 2 => x = stats["silentFallback"]
    BY LoadsOrder
  <2> QED
    BY <2>3, <2>4, <2>5, <2>6
<1> HIDE DEF x
<1>5. /\ dashboard' \in Seq(Nat) /\ Len(dashboard') = Len(loaded) + 1 /\ dashboard' # << >>
      /\ \A i \in 1 .. Len(loaded) : dashboard'[i] = loaded[i]
      /\ dashboard'[Len(loaded) + 1] = x
  BY <1>1, <1>2, <1>4
<1>6. StatsTypeOK'
  <2>1. dashboard' \in Seq(Nat) /\ Len(dashboard') <= Len(Loads)
    <3>1. Len(Loads) = 4
      BY LoadsOrder
    <3>2. Len(dashboard') <= 4
      BY <1>2, <1>5, OneLess
    <3> QED
      BY <1>5, <3>1, <3>2
  <2>2. busy' \in SUBSET Recorders
    BY <1>0, <1>1 DEF StatsTypeOK
  <2> QED
    BY <1>0, <1>1, <2>1, <2>2 DEF StatsTypeOK
<1>7. CountersAddUp'
  BY <1>0, <1>1 DEF CountersAddUp, Added
<1>8. LogIsNewest'
  BY <1>0, <1>1 DEF LogIsNewest
<1>9. /\ stats.totalRequests <= stats.silentSuccess + stats.silentFallback
      /\ stats.silentSuccess \in Nat /\ stats.silentFallback \in Nat /\ stats.totalRequests \in Nat
  BY <1>0, AddedSplit
<1>10. CASE loaded = << >>
  <2>1. Len(dashboard') = 1 /\ dashboard'[1] = stats.totalRequests
    BY <1>2, <1>4, <1>5, <1>10
  <2>2. busy' = {r \in Recorders : UnderWay(r)} /\ Added(Silent, 2)' = Added(Silent, 2)
    BY <1>1, <1>10 DEF Added
  <2>3. /\ Cardinality(Added(Silent, 2) \ busy') <= Cardinality(Added(Silent, 2))
        /\ Cardinality(Added(Silent, 2) \ busy') \in Nat /\ Cardinality(Added(Silent, 2)) \in Nat
    <3>1. Added(Silent, 2) \in SUBSET Recorders /\ Added(Silent, 2) \ busy' \in SUBSET Recorders
      BY AddedAreRecorders
    <3>2. /\ IsFiniteSet(Added(Silent, 2)) /\ Cardinality(Added(Silent, 2)) \in Nat
          /\ Cardinality(Added(Silent, 2) \ busy') \in Nat
      BY <3>1, FiniteRecorders
    <3> QED
      BY <3>2, FS_Subset
  <2>4. stats.totalRequests = Seeded.totalRequests + Cardinality(Added(Silent, 2))
    BY <1>0 DEF CountersAddUp
  <2>5. \A r \in Recorders \ busy' : ~UnderWay(r)'
    BY <1>1, <2>2 DEF UnderWay
  <2>6. TotalCountsSettled'
    <3>1. dashboard'[1] >= 124892 + Cardinality(Added(Silent, 2) \ busy')
      BY <2>1, <2>3, <2>4, SeededCounters
    <3>2. (Added(Silent, 2) \ busy)' = Added(Silent, 2) \ busy'
      BY <2>2
    <3>3. dashboard'[1] >= Seeded.totalRequests + Cardinality((Added(Silent, 2) \ busy)')
      BY <3>1, <3>2, SeededCounters
    <3>4. \A r \in Recorders \ busy' : ~(UnderWay(r)')
      BY <2>5
    <3> QED
      BY <3>3, <3>4 DEF TotalCountsSettled
  <2>7. LaterLoadsCover'
    BY <1>1, <1>9, <2>1 DEF LaterLoadsCover
  <2> QED
    BY <1>6, <1>7, <1>8, <2>6, <2>7 DEF StatsInv
<1>11. CASE loaded # << >>
  <2>1. loaded = dashboard /\ Len(dashboard) \in 1 .. 3 /\ busy' = busy /\ dashboard # << >>
    BY <1>1, <1>2, <1>11
  <2>2. \A i \in 1 .. Len(dashboard) : dashboard'[i] = dashboard[i] /\ dashboard[i] \in Nat
    BY <1>2, <1>5, <2>1
  <2>3. dashboard'[1] = dashboard[1] /\ dashboard[1] \in Nat
    BY <2>1, <2>2
  <2>4. TotalCountsSettled'
    BY <1>0, <1>1, <2>1, <2>3 DEF TotalCountsSettled, UnderWay, Added
  <2>5. LaterLoadsCover'
    <3>1. CASE Len(dashboard) = 1
      <4>1. Len(dashboard') = 2 /\ dashboard'[2] = stats.silentSuccess
        BY <1>4, <1>5, <2>1, <3>1
      <4> QED
        BY <1>0, <1>1, <1>9, <2>3, <3>1, <4>1 DEF LaterLoadsCover
    <3>2. CASE Len(dashboard) = 2
      <4>1. /\ Len(dashboard') = 3 /\ dashboard'[3] = stats.silentFallback
            /\ dashboard'[2] = dashboard[2] /\ dashboard[2] \in Nat
        BY <1>4, <1>5, <2>1, <2>2, <3>2
      <4> QED
        BY <1>0, <1>1, <1>9, <2>3, <3>2, <4>1 DEF LaterLoadsCover
    <3>3. CASE Len(dashboard) = 3
      <4>1. /\ Len(dashboard') = 4
            /\ dashboard'[2] = dashboard[2] /\ dashboard[2] \in Nat
            /\ dashboard'[3] = dashboard[3] /\ dashboard[3] \in Nat
        BY <1>5, <2>1, <2>2, <3>3
      <4> QED
        BY <1>0, <1>1, <1>9, <2>3, <3>3, <4>1 DEF LaterLoadsCover
    <3> QED
      BY <2>1, <3>1, <3>2, <3>3
  <2> QED
    BY <1>6, <1>7, <1>8, <2>4, <2>5 DEF StatsInv
<1> QED
  BY <1>10, <1>11

\* The log moves on by one entry and drops the oldest.
LEMMA AppendEntryOK ==
  ASSUME StatsInv, NEW session \in Sessions, AppendEntry(session)
  PROVE  StatsInv'
<1> USE DEF StatsInv
<1> DEFINE entry == [n |-> Len(appended), session |-> session]
           longer == <<entry>> \o entries
           keep == IF Len(longer) > Cap THEN Cap ELSE Len(longer)
<1>1. /\ entries' = SubSeq(longer, 1, keep) /\ appended' = Append(appended, entry)
      /\ UNCHANGED <<stats, recorder, dashboard, busy>>
  BY DEF AppendEntry, Kept
<1>2. /\ entries \in Seq(Entry) /\ appended \in Seq(Entry) /\ entry \in Entry
      /\ Len(entries) \in Nat /\ Len(appended) \in Nat /\ Cap \in Nat \ {0}
  BY StatisticsAssumption DEF StatsTypeOK, Entry
<1>3. /\ longer \in Seq(Entry) /\ Len(longer) = Len(entries) + 1 /\ longer[1] = entry
      /\ \A i \in 1 .. Len(entries) : longer[i + 1] = entries[i]
  BY <1>2
<1>4. keep \in Nat /\ keep <= Len(longer)
  BY <1>2, <1>3
<1> HIDE DEF longer
<1>5. /\ entries' \in Seq(Entry) /\ Len(entries') = keep
      /\ \A i \in 1 .. keep : entries'[i] = longer[i]
  BY <1>1, <1>3, <1>4
<1>6. /\ appended' \in Seq(Entry) /\ Len(appended') = Len(appended) + 1
      /\ appended'[Len(appended) + 1] = entry
      /\ \A i \in 1 .. Len(appended) : appended'[i] = appended[i]
  BY <1>1, <1>2
<1>7. StatsTypeOK'
  BY <1>1, <1>5, <1>6 DEF StatsTypeOK
<1>8. CountersAddUp' /\ TotalCountsSettled' /\ LaterLoadsCover'
  BY <1>1 DEF CountersAddUp, TotalCountsSettled, LaterLoadsCover, Added, UnderWay
<1>9. LogIsNewest'
  <2>1. Len(entries') = IF Len(appended') > Cap THEN Cap ELSE Len(appended')
    BY <1>2, <1>3, <1>5, <1>6 DEF LogIsNewest
  <2>2. \A i \in 1 .. Len(appended') : appended'[i].n = i - 1
    BY <1>2, <1>6 DEF LogIsNewest
  <2>3. ASSUME NEW i \in 1 .. Len(entries')
        PROVE  entries'[i] = appended'[Len(appended') + 1 - i]
    <3>1. entries'[i] = longer[i] /\ i \in 1 .. Len(longer)
      BY <1>4, <1>5, <1>3, <1>2
    <3>2. CASE i = 1
      BY <3>1, <3>2, <1>2, <1>3, <1>6
    <3>3. CASE i # 1
      <4>1. i - 1 \in 1 .. Len(entries) /\ longer[i] = entries[i - 1]
        BY <3>1, <3>3, <1>2, <1>3
      <4>2. entries[i - 1] = appended[Len(appended) + 1 - (i - 1)]
            /\ Len(appended) + 1 - (i - 1) \in 1 .. Len(appended)
        BY <4>1, <1>2 DEF LogIsNewest
      <4> QED
        BY <3>1, <4>1, <4>2, <1>2, <1>6
    <3> QED
      BY <3>2, <3>3
  <2> QED
    BY <2>1, <2>2, <2>3 DEF LogIsNewest
<1> QED
  BY <1>7, <1>8, <1>9

\* Every step keeps the invariant.
LEMMA StatsStep == StatsInv /\ [StatsNext]_statsVars => StatsInv'
<1> SUFFICES ASSUME StatsInv, [StatsNext]_statsVars PROVE StatsInv'
  OBVIOUS
<1>1. CASE Load
  BY <1>1, LoadOK
<1>2. ASSUME NEW r \in Recorders, NEW kind \in Kinds, Record(r, kind) PROVE StatsInv'
  BY <1>2, RecordOK
<1>3. ASSUME NEW session \in Sessions, AppendEntry(session) PROVE StatsInv'
  BY <1>3, AppendEntryOK
<1>4. CASE UNCHANGED statsVars
  BY <1>4 DEF statsVars, StatsInv, StatsTypeOK, CountersAddUp, TotalCountsSettled, LaterLoadsCover,
              LogIsNewest, Added, UnderWay
<1> QED
  BY <1>1, <1>2, <1>3, <1>4 DEF StatsNext

\* The parts of the invariant hold at all times.
THEOREM StatsInvariance == StatsSpec => []StatsInv
<1>1. StatsInit => StatsInv
  BY StatsInitOK
<1>2. StatsInv /\ [StatsNext]_statsVars => StatsInv'
  BY StatsStep
<1> QED
  BY <1>1, <1>2, PTL DEF StatsSpec

\* A rate shown is at most the share it stands for, and less by at most a hundredth.
LEMMA PercentBounds ==
  ASSUME NEW n \in Nat, NEW total \in Nat, total > 0, NEW x \in Percent(n, total)
  PROVE  x \in Int /\ x * total <= 10000 * n /\ 10000 * n <= (x + 1) * total
<1> DEFINE m == 10000 * n
           cut == m \div total
<1>1. m \in Nat
  OBVIOUS
<1> HIDE DEF m
<1>2. cut \in Int
  BY <1>1
<1>3. cut * total <= m /\ m < (cut + 1) * total
  BY <1>1, SMTT(30)
<1> HIDE DEF cut
<1>4. x = cut \/ (x = cut - 1 /\ cut * total = m)
  BY DEF Percent, m, cut
<1>5. CASE x = cut
  BY <1>2, <1>3, <1>5 DEF m
<1>6. CASE x = cut - 1 /\ cut * total = m
  <2>1. x + 1 = cut /\ x \in Int /\ (x + 1) * total = m
    BY <1>2, <1>6
  <2>2. (x + 1) * total = x * total + total
    BY <2>1
  <2> QED BY <1>1, <2>1, <2>2 DEF m
<1> QED BY <1>4, <1>5, <1>6

\* Two rates of shares that make up the total lack at most 0.02 of 100 %.
LEMMA RatesMakeUp ==
  ASSUME NEW ok \in Nat, NEW fallback \in Nat, NEW total \in Nat, NEW events \in Nat,
         total > 0, ok + fallback - total \in 0 .. events,
         NEW x \in Percent(ok, total), NEW y \in Percent(fallback, total)
  PROVE  x + y >= 9998 /\ (x + y - 10000) * total <= 10000 * events
<1>1. /\ x \in Int /\ x * total <= 10000 * ok /\ 10000 * ok <= (x + 1) * total
      /\ y \in Int /\ y * total <= 10000 * fallback /\ 10000 * fallback <= (y + 1) * total
  BY PercentBounds
<1>2. /\ (x + 1) * total + (y + 1) * total = (x + y + 2) * total
      /\ x * total + y * total - 10000 * total = (x + y - 10000) * total
  BY <1>1
<1>3. total <= ok + fallback /\ ok + fallback <= total + events
  OBVIOUS
<1>4. (x + y - 10000) * total <= 10000 * events
  <2>1. x * total \in Int /\ y * total \in Int /\ (x + y - 10000) * total \in Int
    BY <1>1
  <2> QED BY <1>1, <1>2, <1>3, <2>1
<1>5. x + y >= 9998
  <2> DEFINE p == x + y + 2
             a == (x + 1) * total
             b == (y + 1) * total
  <2>1. a \in Int /\ b \in Int /\ p \in Int /\ a + b = p * total
    BY <1>1, <1>2
  <2>2. 10000 * ok <= a /\ 10000 * fallback <= b
    BY <1>1
  <2> HIDE DEF a, b
  <2>3. 10000 * total <= p * total
    BY <1>3, <2>1, <2>2
  <2> HIDE DEF p
  <2>4. ASSUME p < 10000 PROVE FALSE
    <3>1. p <= 9999
      BY <2>1, <2>4
    <3>2. (9999 - p) * total >= 0
      BY <2>1, <3>1
    <3>3. (9999 - p) * total = 9999 * total - p * total /\ p * total \in Int
      BY <2>1
    <3> QED BY <2>3, <3>2, <3>3
  <2> QED BY <1>1, <2>1, <2>4 DEF p
<1> QED BY <1>4, <1>5

\* What a dashboard loads while events are recorded never falls short of its total, and
\* exceeds it by at most the events of that time, however many recorders there are; and
\* so for the rates it shows, up to the two hundredths that cutting them off may cost.
THEOREM RatesAreConsistent == StatsSpec => []RatesAddUp
<1>1. StatsInv => RatesAddUp
  <2> SUFFICES ASSUME StatsInv, Len(dashboard) = Len(Loads) PROVE RatesAddUp
    BY DEF RatesAddUp
  <2>0. StatsTypeOK /\ CountersAddUp /\ TotalCountsSettled /\ LaterLoadsCover
    BY DEF StatsInv
  <2>1. Len(dashboard) = 4 /\ dashboard # << >> /\ \A i \in 1 .. 4 : dashboard[i] \in Nat
    <3>1. dashboard \in Seq(Nat)
      BY <2>0 DEF StatsTypeOK
    <3>2. Len(dashboard) = 4
      BY LoadsOrder
    <3>3. dashboard # << >>
      BY <3>1, <3>2, EmptyLog
    <3>4. \A i \in 1 .. Len(dashboard) : dashboard[i] \in Nat
      BY <3>1
    <3> QED
      BY <3>2, <3>3, <3>4
  <2>2. /\ Loaded("totalRequests") = dashboard[1] /\ Loaded("silentSuccess") = dashboard[2]
        /\ Loaded("silentFallback") = dashboard[3]
    BY DEF Loaded, Loads
  <2>3. /\ stats.silentSuccess + stats.silentFallback <= dashboard[1] + Cardinality(busy)
        /\ Cardinality(busy) \in Nat /\ stats.silentSuccess \in Nat /\ stats.silentFallback \in Nat
    BY <2>0, <2>1, ExcessIsBusy, AddedSplit
  <2>4. /\ dashboard[1] <= dashboard[2] + dashboard[3]
        /\ dashboard[2] <= stats.silentSuccess /\ dashboard[3] <= stats.silentFallback
    BY <2>0, <2>1 DEF LaterLoadsCover
  <2>5. Loaded("silentSuccess") + Loaded("silentFallback") - Loaded("totalRequests")
          \in 0 .. Cardinality(busy)
    <3>1. dashboard[1] \in Nat /\ dashboard[2] \in Nat /\ dashboard[3] \in Nat
      BY <2>1
    <3>2. dashboard[2] + dashboard[3] - dashboard[1] \in 0 .. Cardinality(busy)
      BY <2>3, <2>4, <3>1, Excess
    <3> QED
      BY <2>2, <3>2
  <2>6. dashboard[1] \in Nat /\ dashboard[1] > 0 /\ dashboard[2] \in Nat /\ dashboard[3] \in Nat
    <3>1. Added(Silent, 2) \ busy \in SUBSET Recorders
      BY <2>0, AddedAreRecorders
    <3>2. Cardinality(Added(Silent, 2) \ busy) \in Nat
      BY <3>1, FiniteRecorders
    <3>3. dashboard[1] >= 124892 + Cardinality(Added(Silent, 2) \ busy)
      BY <2>0, <2>1, SeededCounters DEF TotalCountsSettled
    <3> QED
      BY <2>1, <3>2, <3>3
  <2>7. ASSUME NEW x \in Percent(Loaded("silentSuccess"), Loaded("totalRequests")),
               NEW y \in Percent(Loaded("silentFallback"), Loaded("totalRequests"))
        PROVE  /\ x + y >= 9998
               /\ (x + y - 10000) * Loaded("totalRequests") <= 10000 * Cardinality(busy)
    <3> DEFINE total == Loaded("totalRequests")
               ok == Loaded("silentSuccess")
               fallback == Loaded("silentFallback")
               events == Cardinality(busy)
    <3>1. ok \in Nat /\ fallback \in Nat /\ total \in Nat /\ events \in Nat /\ total > 0
      BY <2>2, <2>3, <2>6
    <3>2. ok + fallback - total \in 0 .. events
      BY <2>5
    <3>3. x \in Percent(ok, total) /\ y \in Percent(fallback, total)
      BY <2>7
    <3> HIDE DEF total, ok, fallback, events
    <3>4. x + y >= 9998 /\ (x + y - 10000) * total <= 10000 * events
      BY <3>1, <3>2, <3>3, RatesMakeUp
    <3> QED BY <3>4 DEF total, events
  <2> QED
    BY <2>5, <2>7 DEF RatesAddUp
<1> QED
  BY <1>1, StatsInvariance, PTL

\* What a query leaves out of those entries of the session that the log has.
LEMMA LeftOut ==
  ASSUME StatsInv, NEW session \in Sessions, NEW i \in 1 .. Len(entries),
         IsOf(session, entries[i]), i \notin Query(session)
  PROVE  /\ Cardinality(Query(session)) = Limit
         /\ \A x \in Query(session) : x \in 1 .. Len(entries) /\ x < i
<1> DEFINE L == Len(entries)
           S == {j \in 1 .. L : IsOf(session, entries[j])}
<1>1. L \in Nat /\ DOMAIN entries = 1 .. L /\ Limit \in Nat /\ i \in 1 .. L
  BY StatisticsAssumption DEF StatsInv, StatsTypeOK
<1> HIDE DEF L
<1>2. \A j \in 1 .. L : Of(S, j) = {q \in 1 .. j : IsOf(session, entries[q])}
  BY <1>1 DEF Of
<1>3. Query(session) = Taken(S, Limit, L)
  BY <1>1, <1>2 DEF Query, Taken, Of
<1>4. \A j \in 1 .. L : IsFiniteSet(Of(S, j)) /\ Cardinality(Of(S, j)) \in Nat
  BY <1>1, FiniteInterval DEF Of
<1>5. \A j, k \in 1 .. L : j <= k => Cardinality(Of(S, j)) <= Cardinality(Of(S, k))
  <2> SUFFICES ASSUME NEW j \in 1 .. L, NEW k \in 1 .. L, j <= k
               PROVE  Cardinality(Of(S, j)) <= Cardinality(Of(S, k))
    OBVIOUS
  <2>1. Of(S, j) \subseteq Of(S, k)
    BY <1>1 DEF Of
  <2> QED
    BY <1>4, <2>1, FS_Subset
<1>6. ~ (Cardinality(Of(S, i)) <= Limit)
  BY <1>1, <1>3 DEF Taken, Of
<1>7. ~ (Cardinality(Of(S, L)) <= Limit)
  BY <1>1, <1>4, <1>5, <1>6
<1>8. Cardinality(Query(session)) = Limit
  BY <1>1, <1>3, <1>7, FirstOnes
<1>9. \A x \in Query(session) : x \in 1 .. L /\ Cardinality(Of(S, x)) <= Limit
  BY <1>3 DEF Taken, Of
<1>10. \A x \in Query(session) : x \in 1 .. L /\ x < i
  <2> SUFFICES ASSUME NEW x \in Query(session), ~ (x < i) PROVE FALSE
    BY <1>9
  <2>1. x \in 1 .. L /\ Cardinality(Of(S, x)) <= Limit
    BY <1>9
  <2>2. x \in Nat /\ i \in Nat
    BY <1>1, <2>1
  <2>3. i <= x
    BY <2>2
  <2>4. Cardinality(Of(S, i)) <= Cardinality(Of(S, x))
    BY <1>1, <1>5, <2>1, <2>3
  <2>5. Cardinality(Of(S, i)) \in Nat /\ Cardinality(Of(S, x)) \in Nat
    BY <1>1, <1>4, <2>1
  <2> QED
    BY <1>1, <1>6, <2>1, <2>4, <2>5
<1> QED
  BY <1>8, <1>10 DEF L

\* However many entries the log keeps and returns, a query leaves out an entry only for
\* newer ones of the same session, or when the log itself has dropped it.
THEOREM QueriesFindNewest == StatsSpec => []QueryFindsNewest
<1>1. StatsInv => QueryFindsNewest
  <2> SUFFICES ASSUME StatsInv, NEW session \in Sessions, NEW e \in Range(appended),
                      e.session = session, e \notin {entries[i] : i \in Query(session)}
               PROVE  \/ e.n + Cap < Len(appended)
                      \/ /\ Cardinality(Query(session)) = Limit
                         /\ \A x \in {entries[i] : i \in Query(session)} :
                              x.n > e.n /\ x.session = session
    BY DEF QueryFindsNewest
  <2> DEFINE L == Len(entries)
             M == Len(appended)
  <2>1. /\ M \in Nat /\ L \in Nat /\ DOMAIN appended = 1 .. M /\ DOMAIN entries = 1 .. L
        /\ Cap \in Nat \ {0}
    BY StatisticsAssumption DEF StatsInv, StatsTypeOK
  <2>2. /\ L = IF M > Cap THEN Cap ELSE M
        /\ \A i \in 1 .. M : appended[i].n = i - 1
        /\ \A i \in 1 .. L : entries[i] = appended[M + 1 - i]
    BY DEF StatsInv, LogIsNewest
  <2> HIDE DEF L, M
  <2>3. PICK k \in 1 .. M : e = appended[k]
    BY <2>1 DEF Range
  <2> DEFINE i == M + 1 - k
  <2>4. e.n = k - 1 /\ i \in 1 .. M /\ M + 1 - i = k
    BY <2>1, <2>2, <2>3
  <2>5. CASE i \in 1 .. L
    <3>1. entries[i] = e
      BY <2>2, <2>3, <2>4, <2>5
    <3>2. IsOf(session, entries[i]) /\ i \notin Query(session)
      BY <3>1 DEF IsOf
    <3>3. /\ Cardinality(Query(session)) = Limit
          /\ \A x \in Query(session) : x \in 1 .. L /\ x < i
      BY <2>5, <3>2, LeftOut DEF L
    <3>4. ASSUME NEW x \in Query(session)
          PROVE  entries[x].n > e.n /\ entries[x].session = session
      <4>1. x \in 1 .. L /\ x < i /\ M + 1 - x \in 1 .. M
        <5>1. x \in 1 .. L /\ x < i
          BY <3>3
        <5>2. M \in Nat /\ L \in Nat /\ Cap \in Nat
          BY <2>1
        <5>3. L <= M
          BY <2>2, <5>2
        <5> QED
          BY <5>1, <5>2, <5>3
      <4>2. entries[x].n = (M + 1 - x) - 1
        BY <2>2, <4>1
      <4>3. entries[x].n > e.n
        BY <2>1, <2>3, <2>4, <4>1, <4>2
      <4>4. IsOf(session, entries[x]) /\ session # Absent
        BY StatisticsAssumption DEF Query
      <4> QED
        BY <4>3, <4>4 DEF IsOf
    <3> QED
      BY <3>3, <3>4
  <2>6. CASE i \notin 1 .. L
    <3>1. M > Cap /\ i > Cap
      BY <2>1, <2>2, <2>4, <2>6
    <3>2. e.n + Cap < M
      BY <2>1, <2>3, <2>4, <3>1
    <3> QED
      BY <3>2 DEF M
  <2> QED
    BY <2>5, <2>6
<1> QED
  BY <1>1, StatsInvariance, PTL

-----------------------------------------------------------------------------
(* Prices *)

(* Settings *)

Setting ==
  [tenant : Customers, plan : DOMAIN Plans \union {UnknownPlan}, discount : Discounts]
  \union [tenant : Customers, of : Products \X PricedCountries, price : CustomPrices]

\* The settings of a tenant, of the first n.
PlansOf(s, t, n) == {i \in 1 .. n : s[i].tenant = t /\ "plan" \in DOMAIN s[i]}
PricesOf(s, t, n, of) ==
  {i \in 1 .. n : s[i].tenant = t /\ "plan" \notin DOMAIN s[i] /\ s[i].of = of}

\* own is what the first n settings make of a tenant.
Follows(own, s, t, n) ==
  LET p == Latest(PlansOf(s, t, n)) IN
    /\ own.plan = IF p = 0 THEN "payg" ELSE s[p].plan
    /\ own.discount = IF p = 0 THEN 0 ELSE s[p].discount
    /\ \A of : LET c == Latest(PricesOf(s, t, n, of)) IN
         /\ of \in DOMAIN own.custom <=> c > p
         /\ c > p => own.custom[of] = s[c].price

\* Latest is the greatest of some numbers, or 0.
LEMMA TheLatest ==
  ASSUME NEW n \in Nat, NEW S \in SUBSET (1 .. n)
  PROVE  /\ Latest(S) \in 0 .. n
         /\ Latest(S) = 0 <=> S = {}
         /\ S # {} => Latest(S) \in S
         /\ \A i \in S : i <= Latest(S)
<1>1. CASE S = {}
  BY <1>1 DEF Latest
<1>2. CASE S # {}
  <2>1. Max(S) \in S /\ \A i \in S : i <= Max(S)
    BY <1>2, Greatest
  <2>2. Latest(S) = Max(S)
    BY <1>2 DEF Latest
  <2>3. \A i \in S : i \in 0 .. n /\ i # 0
    OBVIOUS
  <2> QED
    BY <1>2, <2>1, <2>2, <2>3
<1> QED
  BY <1>1, <1>2

\* The newest is the latest.
LEMMA LatestIs ==
  ASSUME NEW n \in Nat, NEW S \in SUBSET (1 .. n + 1), n + 1 \in S
  PROVE  Latest(S) = n + 1
<1>1. Latest(S) \in 0 .. n + 1 /\ n + 1 <= Latest(S)
  BY TheLatest
<1> QED
  BY <1>1

\* A setting more: what is the latest of a kind, if it is or is not of that kind.
LEMMA LatestOfMore ==
  ASSUME NEW n \in Nat, NEW S \in SUBSET (1 .. n), NEW T \in SUBSET (1 .. n + 1),
         \A i \in 1 .. n : i \in S <=> i \in T
  PROVE  /\ n + 1 \in T => Latest(T) = n + 1
         /\ n + 1 \notin T => Latest(T) = Latest(S)
<1>1. n + 1 \notin T => T = S
  <2>1. \A i \in 1 .. n + 1 : i = n + 1 \/ i \in 1 .. n
    OBVIOUS
  <2> QED
    BY <2>1
<1> QED
  BY <1>1, LatestIs

\* What a setting more changes in what is latest for a tenant q.
More(s, d, q, of) ==
  LET n == Len(s)  s2 == Append(s, d) IN
    /\ n \in Nat /\ Len(s2) = n + 1 /\ s2[n + 1] = d /\ \A i \in 1 .. n : s2[i] = s[i]
    /\ Latest(PlansOf(s, q, n)) \in 0 .. n /\ Latest(PricesOf(s, q, n, of)) \in 0 .. n
    /\ Latest(PlansOf(s2, q, n + 1)) =
         IF d.tenant = q /\ "plan" \in DOMAIN d THEN n + 1 ELSE Latest(PlansOf(s, q, n))
    /\ Latest(PricesOf(s2, q, n + 1, of)) =
         IF d.tenant = q /\ "plan" \notin DOMAIN d /\ d.of = of THEN n + 1
         ELSE Latest(PricesOf(s, q, n, of))

\* What one more setting adds to the sets of settings that count.
LEMMA OneSettingMore ==
  ASSUME NEW s \in Seq(Setting), NEW d \in Setting, NEW q, NEW of
  PROVE  More(s, d, q, of)
<1> DEFINE n == Len(s)
           s2 == Append(s, d)
           S == PlansOf(s, q, n)
           T == PlansOf(s2, q, n + 1)
           U == PricesOf(s, q, n, of)
           V == PricesOf(s2, q, n + 1, of)
<1>1. n \in Nat /\ Len(s2) = n + 1 /\ s2[n + 1] = d /\ \A i \in 1 .. n : s2[i] = s[i]
  OBVIOUS
<1> HIDE DEF n, s2
<1>2. n + 1 \in 1 .. n + 1 /\ \A i \in 1 .. n : i \in 1 .. n + 1
  BY <1>1
<1>3. /\ S \in SUBSET (1 .. n) /\ T \in SUBSET (1 .. n + 1)
      /\ U \in SUBSET (1 .. n) /\ V \in SUBSET (1 .. n + 1)
  BY DEF PlansOf, PricesOf
<1>4. /\ \A i \in 1 .. n : i \in S <=> i \in T
      /\ \A i \in 1 .. n : i \in U <=> i \in V
  BY <1>1, <1>2 DEF PlansOf, PricesOf
<1>5. /\ n + 1 \in T <=> d.tenant = q /\ "plan" \in DOMAIN d
      /\ n + 1 \in V <=> d.tenant = q /\ "plan" \notin DOMAIN d /\ d.of = of
  BY <1>1, <1>2 DEF PlansOf, PricesOf
<1> HIDE DEF S, T, U, V
<1>6. Latest(S) \in 0 .. n /\ Latest(U) \in 0 .. n
  BY <1>1, <1>3, TheLatest
<1>7. /\ n + 1 \in T => Latest(T) = n + 1
      /\ n + 1 \notin T => Latest(T) = Latest(S)
  BY <1>1, <1>3, <1>4, LatestOfMore
<1>8. /\ n + 1 \in V => Latest(V) = n + 1
      /\ n + 1 \notin V => Latest(V) = Latest(U)
  BY <1>1, <1>3, <1>4, LatestOfMore
<1> QED
  BY <1>1, <1>5, <1>6, <1>7, <1>8 DEF n, s2, S, T, U, V, More

\* What the settings make of a tenant that the latest is not of.
LEMMA OthersFollow ==
  ASSUME NEW s \in Seq(Setting), NEW d \in Setting, NEW q, d.tenant # q,
         NEW own, Follows(own, s, q, Len(s))
  PROVE  Follows(own, Append(s, d), q, Len(s) + 1)
<1> DEFINE n == Len(s)
           s2 == Append(s, d)
           p == Latest(PlansOf(s, q, n))
           c(of) == Latest(PricesOf(s, q, n, of))
<1>1. /\ n \in Nat /\ \A i \in 1 .. n : s2[i] = s[i]
      /\ p \in 0 .. n /\ \A of : c(of) \in 0 .. n
      /\ Latest(PlansOf(s2, q, n + 1)) = p
      /\ \A of : Latest(PricesOf(s2, q, n + 1, of)) = c(of)
  <2>1. \A of : More(s, d, q, of)
    BY OneSettingMore
  <2> QED
    BY <2>1 DEF More
<1>2. /\ own.plan = IF p = 0 THEN "payg" ELSE s[p].plan
      /\ own.discount = IF p = 0 THEN 0 ELSE s[p].discount
      /\ \A of : (of \in DOMAIN own.custom <=> c(of) > p) /\ (c(of) > p => own.custom[of] = s[c(of)].price)
  BY DEF Follows
<1> HIDE DEF n, s2, p, c
<1>3. p # 0 => s2[p] = s[p]
  BY <1>1
<1>4. \A of : c(of) > p => s2[c(of)] = s[c(of)]
  BY <1>1
<1>5. Follows(own, s2, q, n + 1)
  BY <1>1, <1>2, <1>3, <1>4 DEF Follows
<1> QED
  BY <1>5 DEF n, s2

\* What SetTenantPlan stores follows the settings with the new one.
LEMMA PlanFollows ==
  ASSUME NEW s \in Seq(Setting), NEW t \in Customers, NEW plan \in DOMAIN Plans \union {UnknownPlan},
         NEW discount \in Discounts
  PROVE  Follows([plan |-> plan, discount |-> discount, custom |-> << >>],
                 Append(s, [tenant |-> t, plan |-> plan, discount |-> discount]), t, Len(s) + 1)
<1> DEFINE n == Len(s)
           d == [tenant |-> t, plan |-> plan, discount |-> discount]
           s2 == Append(s, d)
           own == [plan |-> plan, discount |-> discount, custom |-> << >>]
           c(of) == Latest(PricesOf(s2, t, n + 1, of))
<1>1. d \in Setting /\ d.tenant = t /\ "plan" \in DOMAIN d /\ d.plan = plan /\ d.discount = discount
  <2>1. DOMAIN d = {"tenant", "plan", "discount"}
    OBVIOUS
  <2> QED
    BY <2>1 DEF Setting
<1> HIDE DEF d
<1>2. /\ n \in Nat /\ s2[n + 1] = d
      /\ Latest(PlansOf(s2, t, n + 1)) = n + 1
      /\ \A of : c(of) \in 0 .. n
  <2>1. \A of : More(s, d, t, of)
    BY <1>1, OneSettingMore
  <2> QED
    BY <1>1, <2>1 DEF More
<1> HIDE DEF n, s2, c
<1>3. n + 1 # 0 /\ \A of : ~(c(of) > n + 1)
  BY <1>2
<1>4. DOMAIN own.custom = {}
  OBVIOUS
<1>5. own.plan = plan /\ own.discount = discount
  OBVIOUS
<1> HIDE DEF own
<1>6. Follows(own, s2, t, n + 1)
  BY <1>1, <1>2, <1>3, <1>4, <1>5 DEF Follows, c
<1> QED
  BY <1>6 DEF n, s2, d, own

\* What SetCustomPrice stores follows them, if what it changes did.
LEMMA PriceFollows ==
  ASSUME NEW s \in Seq(Setting), NEW t \in Customers, NEW of \in Products \X PricedCountries,
         NEW price \in CustomPrices, NEW own, Follows(own, s, t, Len(s)),
         NEW new, new.plan = own.plan, new.discount = own.discount,
         new.custom = With(own.custom, of, price)
  PROVE  Follows(new, Append(s, [tenant |-> t, of |-> of, price |-> price]), t, Len(s) + 1)
<1> DEFINE n == Len(s)
           d == [tenant |-> t, of |-> of, price |-> price]
           s2 == Append(s, d)
           p == Latest(PlansOf(s, t, n))
           c(o) == Latest(PricesOf(s, t, n, o))
           c2(o) == Latest(PricesOf(s2, t, n + 1, o))
<1>1. d \in Setting /\ d.tenant = t /\ "plan" \notin DOMAIN d /\ d.of = of /\ d.price = price
  <2>1. DOMAIN d = {"tenant", "of", "price"}
    OBVIOUS
  <2> QED
    BY <2>1 DEF Setting
<1> HIDE DEF d
<1>2. /\ n \in Nat /\ s2[n + 1] = d /\ \A i \in 1 .. n : s2[i] = s[i]
      /\ p \in 0 .. n /\ \A o : c(o) \in 0 .. n
      /\ Latest(PlansOf(s2, t, n + 1)) = p
      /\ \A o : c2(o) = IF o = of THEN n + 1 ELSE c(o)
  <2>1. \A o : More(s, d, t, o)
    BY <1>1, OneSettingMore
  <2>2. ASSUME NEW o
        PROVE  /\ n \in Nat /\ s2[n + 1] = d /\ \A i \in 1 .. n : s2[i] = s[i]
               /\ p \in 0 .. n /\ c(o) \in 0 .. n
               /\ Latest(PlansOf(s2, t, n + 1)) =
                    IF d.tenant = t /\ "plan" \in DOMAIN d THEN n + 1 ELSE p
               /\ c2(o) = IF d.tenant = t /\ "plan" \notin DOMAIN d /\ d.of = o THEN n + 1 ELSE c(o)
    BY <2>1 DEF More
  <2> HIDE DEF n, s2, p, c, c2
  <2> QED
    BY <1>1, <2>2
<1>3. /\ own.plan = IF p = 0 THEN "payg" ELSE s[p].plan
      /\ own.discount = IF p = 0 THEN 0 ELSE s[p].discount
      /\ \A o : (o \in DOMAIN own.custom <=> c(o) > p) /\ (c(o) > p => own.custom[o] = s[c(o)].price)
  BY DEF Follows
<1> HIDE DEF n, s2, p, c, c2
<1>5. /\ \A o : o \in DOMAIN new.custom <=> o = of \/ o \in DOMAIN own.custom
      /\ new.custom[of] = price
      /\ \A o \in DOMAIN own.custom : o # of => new.custom[o] = own.custom[o]
  BY DEF With
<1>6. p # 0 => s2[p] = s[p]
  BY <1>2
<1>7. ASSUME NEW o
      PROVE  /\ o \in DOMAIN new.custom <=> c2(o) > p
             /\ c2(o) > p => new.custom[o] = s2[c2(o)].price
  <2>1. CASE o = of
    <3>1. c2(o) = n + 1 /\ c2(o) > p
      BY <1>2, <2>1
    <3> QED
      BY <1>1, <1>2, <1>5, <2>1, <3>1
  <2>2. CASE o # of
    <3>1. c2(o) = c(o)
      BY <1>2, <2>2
    <3>2. c(o) > p => s2[c(o)] = s[c(o)]
      BY <1>2
    <3> QED
      BY <1>3, <1>5, <2>2, <3>1, <3>2
  <2> QED
    BY <2>1, <2>2
<1>8. Follows(new, s2, t, n + 1)
  BY <1>2, <1>3, <1>6, <1>7 DEF Follows, c2
<1> QED
  BY <1>8 DEF n, s2, d

\* A later setting does not change what followed up to now.
LEMMA FollowsStill ==
  ASSUME NEW s \in Seq(Setting), NEW d \in Setting, NEW t, NEW n \in 0 .. Len(s), NEW own,
         Follows(own, s, t, n)
  PROVE  Follows(own, Append(s, d), t, n)
<1> DEFINE s2 == Append(s, d)
<1>1. n \in Nat /\ \A i \in 1 .. n : s2[i] = s[i]
  OBVIOUS
<1> HIDE DEF s2
<1>2. PlansOf(s2, t, n) = PlansOf(s, t, n) /\ \A of : PricesOf(s2, t, n, of) = PricesOf(s, t, n, of)
  BY <1>1 DEF PlansOf, PricesOf
<1>3. /\ Latest(PlansOf(s, t, n)) \in 0 .. n
      /\ \A of : Latest(PricesOf(s, t, n, of)) \in 0 .. n
  <2>1. PlansOf(s, t, n) \in SUBSET (1 .. n) /\ \A of : PricesOf(s, t, n, of) \in SUBSET (1 .. n)
    BY DEF PlansOf, PricesOf
  <2> QED
    BY <1>1, <2>1, TheLatest
<1> DEFINE p == Latest(PlansOf(s, t, n))
           c(of) == Latest(PricesOf(s, t, n, of))
<1>4. p # 0 => s2[p] = s[p]
  BY <1>1, <1>3
<1>5. \A of : c(of) > p => s2[c(of)] = s[c(of)]
  <2> HIDE DEF p, c
  <2> SUFFICES ASSUME NEW of, c(of) > p PROVE s2[c(of)] = s[c(of)]
    OBVIOUS
  <2>1. c(of) \in 0 .. n /\ p \in 0 .. n
    BY <1>3 DEF p, c
  <2>2. c(of) \in 1 .. n
    BY <1>1, <2>1
  <2> QED
    BY <1>1, <2>2
<1>6. /\ own.plan = IF p = 0 THEN "payg" ELSE s[p].plan
      /\ own.discount = IF p = 0 THEN 0 ELSE s[p].discount
      /\ \A of : (of \in DOMAIN own.custom <=> c(of) > p) /\ (c(of) > p => own.custom[of] = s[c(of)].price)
  BY DEF Follows
<1> HIDE DEF p, c
<1>7. /\ p = Latest(PlansOf(s2, t, n))
      /\ \A of : c(of) = Latest(PricesOf(s2, t, n, of))
  BY <1>2 DEF p, c
<1>8. Follows(own, s2, t, n)
  BY <1>4, <1>5, <1>6, <1>7 DEF Follows
<1> QED
  BY <1>8 DEF s2
-----------------------------------------------------------------------------
(* Types *)

Partial(K, R) == UNION {[D -> R] : D \in SUBSET K}

Assigned(next, map, key, value) ==
  /\ DOMAIN next = DOMAIN map \union {key} /\ next[key] = value
  /\ \A k \in DOMAIN map : k # key => next[k] = map[k]

\* An assignment to a partial map.
LEMMA WithType ==
  ASSUME NEW K, NEW R, NEW map \in Partial(K, R), NEW key \in K, NEW value \in R
  PROVE  With(map, key, value) \in Partial(K, R) /\ Assigned(With(map, key, value), map, key, value)
<1>1. PICK D \in SUBSET K : map \in [D -> R]
  BY DEF Partial
<1>2. With(map, key, value) \in [D \union {key} -> R]
  BY <1>1 DEF With
<1>3. D \union {key} \in SUBSET K
  OBVIOUS
<1> QED
  BY <1>1, <1>2, <1>3 DEF With, Partial, Assigned

Tenant ==
  [plan : DOMAIN Plans \union {UnknownPlan}, discount : 0 .. 100,
   custom : Partial(Products \X PricedCountries, CustomPrices)]

\* The empty map is one.
LEMMA Nothing == \A K, R : << >> \in Partial(K, R)
<1> SUFFICES ASSUME NEW K, NEW R PROVE << >> \in Partial(K, R)
  OBVIOUS
<1>1. << >> \in [{} -> R] /\ {} \in SUBSET K
  OBVIOUS
<1> QED
  BY <1>1 DEF Partial

\* The plans there are.
LEMMA PlanNames == DOMAIN Plans = {"payg", "growth", "enterprise"}
BY DEF Plans

\* A tenant without settings has what is typed like settings.
LEMMA NewTenantType == NewTenant \in Tenant
<1>1. "payg" \in DOMAIN Plans
  BY PlanNames
<1>2. << >> \in Partial(Products \X PricedCountries, CustomPrices)
  BY Nothing
<1> DEFINE names == DOMAIN Plans \union {UnknownPlan}
           none == << >>
           own == Partial(Products \X PricedCountries, CustomPrices)
<1>3. "payg" \in names /\ none \in own
  BY <1>1, <1>2
<1>4. NewTenant = [plan |-> "payg", discount |-> 0, custom |-> none] /\ 0 \in 0 .. 100
  BY DEF NewTenant
<1> HIDE DEF names, none, own
<1>5. NewTenant \in [plan : names, discount : 0 .. 100, custom : own]
  BY <1>3, <1>4
<1> QED
  BY <1>5 DEF Tenant, names, own

\* So has any tenant.
LEMMA OwnType ==
  ASSUME pricing \in Partial(Customers, Tenant), NEW t \in Customers
  PROVE  Own(t) \in Tenant
<1>1. t \in DOMAIN pricing => pricing[t] \in Tenant
  BY DEF Partial
<1> QED
  BY <1>1, NewTenantType DEF Own
-----------------------------------------------------------------------------
(* Quotes *)

\* There is the tenant the quote is for, as the settings were then.
Quoted ==
  /\ quote.after \in 0 .. Len(settings)
  /\ \E own \in Tenant :
       /\ Follows(own, settings, quote.tenant, quote.after)
       /\ quote.result = PriceFor(own, quote.product, quote.country, quote.volume)

PricingIInv ==
  /\ settings \in Seq(Setting)
  /\ pricing \in Partial(Customers, Tenant)
  /\ \A t \in Customers : Follows(Own(t), settings, t, Len(settings))
  /\ quote = Unset \/ (quote.volume \in Volumes /\ Quoted)

\* At first nobody has settings, which follows none.
LEMMA FirstSettings ==
  ASSUME PricingInit
  PROVE  PricingIInv
<1>1. pricing = << >> /\ quote = Unset /\ settings = << >>
  BY DEF PricingInit
<1>2. settings \in Seq(Setting) /\ Len(settings) = 0 /\ DOMAIN pricing = {}
  BY <1>1
<1>3. pricing \in Partial(Customers, Tenant)
  BY <1>1, Nothing
<1>4. ASSUME NEW t \in Customers PROVE Follows(Own(t), settings, t, Len(settings))
  <2>1. Own(t) = NewTenant
    BY <1>2 DEF Own
  <2>2. PlansOf(settings, t, 0) = {} /\ \A of : PricesOf(settings, t, 0, of) = {}
    BY DEF PlansOf, PricesOf
  <2>3. Latest({}) = 0
    BY DEF Latest
  <2>4. NewTenant.plan = "payg" /\ NewTenant.discount = 0 /\ DOMAIN NewTenant.custom = {}
    BY DEF NewTenant
  <2>5. Follows(NewTenant, settings, t, 0)
    BY <2>2, <2>3, <2>4 DEF Follows
  <2> QED
    BY <1>2, <2>1, <2>5
<1> QED
  BY <1>1, <1>2, <1>3, <1>4 DEF PricingIInv

\* A setting d of tenant t makes it new.
LEMMA SettingOK ==
  ASSUME PricingIInv, NEW t \in Customers, NEW new \in Tenant, NEW d \in Setting, d.tenant = t,
         pricing' = With(pricing, t, new), settings' = Append(settings, d), UNCHANGED quote,
         Follows(new, Append(settings, d), t, Len(settings) + 1)
  PROVE  PricingIInv'
<1>1. /\ settings \in Seq(Setting) /\ pricing \in Partial(Customers, Tenant)
      /\ \A q \in Customers : Follows(Own(q), settings, q, Len(settings))
      /\ quote = Unset \/ (quote.volume \in Volumes /\ Quoted)
  BY DEF PricingIInv
<1>2. settings' \in Seq(Setting) /\ Len(settings') = Len(settings) + 1 /\ Len(settings) \in Nat
  BY <1>1
<1>3. /\ pricing' \in Partial(Customers, Tenant)
      /\ DOMAIN pricing' = DOMAIN pricing \union {t} /\ pricing'[t] = new
      /\ \A q \in DOMAIN pricing : q # t => pricing'[q] = pricing[q]
  <2>1. pricing' \in Partial(Customers, Tenant) /\ Assigned(pricing', pricing, t, new)
    BY <1>1, WithType
  <2> QED
    BY <2>1 DEF Assigned
<1>4. ASSUME NEW q \in Customers PROVE Follows(Own(q)', settings', q, Len(settings'))
  <2>1. CASE q = t
    <3>1. Own(q)' = new
      BY <1>3, <2>1 DEF Own
    <3> QED
      BY <1>2, <2>1, <3>1
  <2>2. CASE q # t
    <3>1. Own(q)' = Own(q)
      BY <1>3, <2>2 DEF Own
    <3>2. Follows(Own(q), Append(settings, d), q, Len(settings) + 1)
      BY <1>1, <2>2, OthersFollow
    <3> QED
      BY <1>2, <3>1, <3>2
  <2> QED
    BY <2>1, <2>2
<1>5. ASSUME Quoted PROVE Quoted'
  <2>1. quote.after \in 0 .. Len(settings) /\ quote' = quote
    BY <1>5 DEF Quoted
  <2>2. quote.after \in 0 .. Len(settings')
    BY <1>2, <2>1
  <2>3. PICK own \in Tenant :
          /\ Follows(own, settings, quote.tenant, quote.after)
          /\ quote.result = PriceFor(own, quote.product, quote.country, quote.volume)
    BY <1>5 DEF Quoted
  <2>4. Follows(own, settings', quote.tenant, quote.after)
    BY <1>1, <2>1, <2>3, FollowsStill
  <2> QED
    BY <2>1, <2>2, <2>3, <2>4 DEF Quoted
<1> QED
  BY <1>1, <1>2, <1>3, <1>4, <1>5 DEF PricingIInv

\* A plan is set for one tenant, and the others keep theirs.
LEMMA SetPlanOK ==
  ASSUME PricingIInv, NEW t \in Customers, NEW plan \in DOMAIN Plans \union {UnknownPlan},
         NEW discount \in Discounts, SetTenantPlan(t, plan, discount)
  PROVE  PricingIInv'
<1> DEFINE new == [plan |-> plan, discount |-> discount, custom |-> << >>]
           d == [tenant |-> t, plan |-> plan, discount |-> discount]
<1>1. pricing' = With(pricing, t, new) /\ settings' = Append(settings, d) /\ UNCHANGED quote
  BY DEF SetTenantPlan
<1>2. settings \in Seq(Setting)
  BY DEF PricingIInv
<1>3. Follows(new, Append(settings, d), t, Len(settings) + 1)
  BY <1>2, PlanFollows
<1>4. d \in Setting /\ d.tenant = t
  BY DEF Setting
<1>5. new \in Tenant
  <2>1. discount \in 0 .. 100 /\ << >> \in Partial(Products \X PricedCountries, CustomPrices)
    BY PricingAssumption, Nothing
  <2> QED
    BY <2>1 DEF Tenant
<1> HIDE DEF new, d
<1> QED
  BY <1>1, <1>3, <1>4, <1>5, SettingOK

\* So is a price.
LEMMA SetPriceOK ==
  ASSUME PricingIInv, NEW t \in Customers, NEW product \in Products, NEW country \in PricedCountries,
         NEW price \in CustomPrices, SetCustomPrice(t, product, country, price)
  PROVE  PricingIInv'
<1> DEFINE of == <<product, country>>
           own == Own(t)
           new == [own EXCEPT !.custom = With(@, of, price)]
           d == [tenant |-> t, of |-> of, price |-> price]
<1>1. pricing' = With(pricing, t, new) /\ settings' = Append(settings, d) /\ UNCHANGED quote
  BY DEF SetCustomPrice
<1>2. settings \in Seq(Setting) /\ own \in Tenant /\ Follows(own, settings, t, Len(settings))
  BY OwnType DEF PricingIInv
<1>3. of \in Products \X PricedCountries
  OBVIOUS
<1>4. d \in Setting /\ d.tenant = t
  BY DEF Setting
<1> HIDE DEF own, of
<1>5. own.custom \in Partial(Products \X PricedCountries, CustomPrices)
  BY <1>2 DEF Tenant
<1>6. With(own.custom, of, price) \in Partial(Products \X PricedCountries, CustomPrices)
  BY <1>3, <1>5, WithType
<1>7. /\ new \in Tenant /\ new.plan = own.plan /\ new.discount = own.discount
      /\ new.custom = With(own.custom, of, price)
  BY <1>2, <1>6 DEF Tenant
<1> HIDE DEF new
<1>8. Follows(new, Append(settings, d), t, Len(settings) + 1)
  BY <1>2, <1>3, <1>7, PriceFollows
<1> HIDE DEF d
<1> QED
  BY <1>1, <1>4, <1>7, <1>8, SettingOK

\* A quote is made of settings that follow those so far.
LEMMA CalculateOK ==
  ASSUME PricingIInv, NEW t \in Customers, NEW product \in Products, NEW country \in PricedCountries,
         NEW volume \in Volumes, CalculatePrice(t, product, country, volume)
  PROVE  PricingIInv'
<1>1. /\ settings \in Seq(Setting) /\ pricing \in Partial(Customers, Tenant)
      /\ \A q \in Customers : Follows(Own(q), settings, q, Len(settings))
  BY DEF PricingIInv
<1>2. pricing' = pricing /\ settings' = settings
  BY DEF CalculatePrice
<1>3. /\ quote'.tenant = t /\ quote'.product = product /\ quote'.country = country
      /\ quote'.volume = volume /\ quote'.after = Len(settings)
      /\ quote'.result = PriceFor(Own(t), product, country, volume)
  BY DEF CalculatePrice
<1>4. Own(t) \in Tenant /\ Follows(Own(t), settings, t, Len(settings))
  BY <1>1, OwnType
<1>5. Len(settings) \in 0 .. Len(settings)
  BY <1>1
<1>6. Quoted'
  BY <1>2, <1>3, <1>4, <1>5 DEF Quoted
<1>7. \A q \in Customers : Own(q)' = Own(q)
  BY <1>2 DEF Own
<1> QED
  BY <1>1, <1>2, <1>3, <1>6, <1>7 DEF PricingIInv

\* What is stored for a tenant follows the settings so far, and the last quote those before it.
THEOREM PricingInvariance == PricingSpec => []PricingIInv
<1>1. PricingInit => PricingIInv
  BY FirstSettings
<1>2. PricingIInv /\ [PricingNext]_pricingVars => PricingIInv'
  <2> SUFFICES ASSUME PricingIInv, [PricingNext]_pricingVars PROVE PricingIInv'
    OBVIOUS
  <2>1. ASSUME NEW t \in Customers, NEW plan \in DOMAIN Plans \union {UnknownPlan}, NEW d \in Discounts,
               SetTenantPlan(t, plan, d)
        PROVE  PricingIInv'
    BY <2>1, SetPlanOK
  <2>2. ASSUME NEW t \in Customers, NEW product \in Products, NEW country \in PricedCountries,
               NEW price \in CustomPrices, SetCustomPrice(t, product, country, price)
        PROVE  PricingIInv'
    BY <2>2, SetPriceOK
  <2>3. ASSUME NEW t \in Customers, NEW product \in Products, NEW country \in PricedCountries,
               NEW volume \in Volumes, CalculatePrice(t, product, country, volume)
        PROVE  PricingIInv'
    BY <2>3, CalculateOK
  <2>4. CASE UNCHANGED pricingVars
    BY <2>4 DEF pricingVars, PricingIInv, Quoted, Own
  <2> QED
    BY <2>1, <2>2, <2>3, <2>4 DEF PricingNext
<1> QED
  BY <1>1, <1>2, PTL DEF PricingSpec

\* A price of the tenant's own, and the plan, count from when they are set.
THEOREM PricesFollowSettings == PricingSpec => []PriceFollowsSettings
<1>1. PricingIInv => PriceFollowsSettings
  <2> SUFFICES ASSUME PricingIInv, quote # Unset PROVE PriceFollowsSettings
    BY DEF PriceFollowsSettings
  <2> DEFINE t == quote.tenant
             n == quote.after
             of == <<quote.product, quote.country>>
             p == Latest(PlansOf(settings, t, n))
             c == Latest(PricesOf(settings, t, n, of))
             r == quote.result
  <2>1. PICK own \in Tenant : Follows(own, settings, t, n)
                              /\ r = PriceFor(own, quote.product, quote.country, quote.volume)
    BY DEF PricingIInv, Quoted
  <2>2. n \in Nat /\ p \in 0 .. n /\ c \in 0 .. n
    <3>1. n \in 0 .. Len(settings) /\ settings \in Seq(Setting)
      BY DEF PricingIInv, Quoted
    <3>2. PlansOf(settings, t, n) \in SUBSET (1 .. n) /\ PricesOf(settings, t, n, of) \in SUBSET (1 .. n)
      BY DEF PlansOf, PricesOf
    <3>3. n \in Nat
      BY <3>1
    <3> HIDE DEF n, t, of
    <3> QED
      BY <3>2, <3>3, TheLatest
  <2>3. PlansSet = PlansOf(settings, t, n) /\ PricesSet = PricesOf(settings, t, n, of)
    BY DEF PlansSet, PricesSet, Mine, PlansOf, PricesOf
  <2>4. /\ own.plan = IF p = 0 THEN "payg" ELSE settings[p].plan
        /\ own.discount = IF p = 0 THEN 0 ELSE settings[p].discount
        /\ of \in DOMAIN own.custom <=> c > p
        /\ c > p => own.custom[of] = settings[c].price
    BY <2>1 DEF Follows
  <2>5. "payg" \in DOMAIN Plans
    BY PlanNames
  <2>6. /\ of \in DOMAIN own.custom => r.tier = "custom" /\ r.unitPrice = own.custom[of]
        /\ of \notin DOMAIN own.custom => r.tier = IF own.plan \in DOMAIN Plans THEN own.plan ELSE "payg"
        /\ r.discount = own.discount
    BY <2>1 DEF PriceFor, Result
  <2>7. PriceFollowsSettings <=>
          (quote # Unset =>
             /\ c > p => r.tier = "custom" /\ r.unitPrice = settings[c].price
             /\ c <= p => r.tier = IF p # 0 /\ settings[p].plan \in DOMAIN Plans
                                   THEN settings[p].plan ELSE "payg"
             /\ r.discount = IF p = 0 THEN 0 ELSE settings[p].discount)
    BY <2>3 DEF PriceFollowsSettings
  <2> HIDE DEF p, c, r, of, n, t
  <2>8. c <= p <=> ~(c > p)
    BY <2>2
  <2> QED
    BY <2>4, <2>5, <2>6, <2>7, <2>8
<1> QED
  BY <1>1, PricingInvariance, PTL
-----------------------------------------------------------------------------
(* Tiers *)

\* One tier ends before the next begins.
WellTiered(tiers) ==
  /\ \E n \in Nat : DOMAIN tiers = 1 .. n
  /\ \A i \in DOMAIN tiers : /\ tiers[i].minVolume \in Int /\ tiers[i].maxVolume \in Int
                             /\ tiers[i].unitPrice \in Int
  /\ \A i, j \in DOMAIN tiers : i < j => tiers[i].maxVolume < tiers[j].minVolume

\* One tier,
LEMMA FlatTier == \A price \in Int : WellTiered(Flat(price))
<1> SUFFICES ASSUME NEW price \in Int PROVE WellTiered(Flat(price))
  OBVIOUS
<1> DEFINE tiers == << Tier(0, Unlimited, price) >>
<1>1. DOMAIN tiers = 1 .. 1 /\ tiers[1] = Tier(0, Unlimited, price)
  OBVIOUS
<1>2. /\ tiers[1].minVolume \in Int /\ tiers[1].maxVolume \in Int /\ tiers[1].unitPrice \in Int
  BY <1>1 DEF Tier, Unlimited
<1> HIDE DEF tiers
<1>3. WellTiered(tiers)
  BY <1>1, <1>2 DEF WellTiered
<1> QED
  BY <1>3 DEF Flat, tiers

\* two of them, one after the other,
LEMMA TwoTiers ==
  ASSUME NEW a \in Int, NEW b \in Int, NEW c \in Int, NEW d \in Int, b < c,
         NEW x \in Int, NEW y \in Int
  PROVE  WellTiered(<< Tier(a, b, x), Tier(c, d, y) >>)
<1> DEFINE tiers == << Tier(a, b, x), Tier(c, d, y) >>
<1>1. DOMAIN tiers = 1 .. 2 /\ tiers[1] = Tier(a, b, x) /\ tiers[2] = Tier(c, d, y)
  OBVIOUS
<1> HIDE DEF tiers
<1>2. /\ tiers[1].minVolume = a /\ tiers[1].maxVolume = b /\ tiers[1].unitPrice = x
      /\ tiers[2].minVolume = c /\ tiers[2].maxVolume = d /\ tiers[2].unitPrice = y
  BY <1>1 DEF Tier
<1>3. WellTiered(tiers)
  BY <1>1, <1>2 DEF WellTiered
<1> QED
  BY <1>3 DEF tiers

\* or three.
LEMMA ThreeTiers ==
  ASSUME NEW a \in Int, NEW b \in Int, NEW c \in Int, NEW d \in Int, NEW e \in Int, NEW f \in Int,
         b < c, d < e, b < e, NEW x \in Int, NEW y \in Int, NEW z \in Int
  PROVE  WellTiered(<< Tier(a, b, x), Tier(c, d, y), Tier(e, f, z) >>)
<1> DEFINE tiers == << Tier(a, b, x), Tier(c, d, y), Tier(e, f, z) >>
<1>1. DOMAIN tiers = 1 .. 3 /\ tiers[1] = Tier(a, b, x) /\ tiers[2] = Tier(c, d, y)
      /\ tiers[3] = Tier(e, f, z)
  OBVIOUS
<1> HIDE DEF tiers
<1>2. /\ tiers[1].minVolume = a /\ tiers[1].maxVolume = b /\ tiers[1].unitPrice = x
      /\ tiers[2].minVolume = c /\ tiers[2].maxVolume = d /\ tiers[2].unitPrice = y
      /\ tiers[3].minVolume = e /\ tiers[3].maxVolume = f /\ tiers[3].unitPrice = z
  BY <1>1 DEF Tier
<1>3. WellTiered(tiers)
  BY <1>1, <1>2 DEF WellTiered
<1> QED
  BY <1>3 DEF tiers

\* All the seeded tiers are such.
LEMMA SeededTiers ==
  \A name \in DOMAIN Plans : \A product \in DOMAIN Plans[name] : WellTiered(Plans[name][product])
<1>1. \A product \in DOMAIN Plans.payg : WellTiered(Plans.payg[product])
  <2> DEFINE plan == [silent_verify |-> Flat(30000), sms_otp |-> Flat(45000),
                      whatsapp_otp |-> Flat(60000), sim_swap |-> Flat(10000)]
  <2>1. Plans.payg = plan
    BY DEF Plans
  <2>2. /\ WellTiered(Flat(30000)) /\ WellTiered(Flat(45000)) /\ WellTiered(Flat(60000))
        /\ WellTiered(Flat(10000))
    BY FlatTier
  <2>3. \A product \in DOMAIN plan : WellTiered(plan[product])
    BY <2>2
  <2> QED
    BY <2>1, <2>3
<1>2. \A product \in DOMAIN Plans.growth : WellTiered(Plans.growth[product])
  <2> DEFINE three == << Tier(0, 10000, 25000), Tier(10001, 100000, 20000),
                         Tier(100001, Unlimited, 15000) >>
             two == << Tier(0, 10000, 40000), Tier(10001, Unlimited, 30000) >>
             plan == [silent_verify |-> three, sms_otp |-> two, sim_swap |-> Flat(8000)]
  <2>1. Plans.growth = plan
    BY DEF Plans
  <2>2. Unlimited \in Int
    BY DEF Unlimited
  <2>3. WellTiered(three)
    <3> DEFINE a == 0  b == 10000  c == 10001  d == 100000  e == 100001
               x == 25000  y == 20000  z == 15000
    <3>1. /\ a \in Int /\ b \in Int /\ c \in Int /\ d \in Int /\ e \in Int
          /\ x \in Int /\ y \in Int /\ z \in Int /\ b < c /\ d < e /\ b < e
      OBVIOUS
    <3> HIDE DEF a, b, c, d, e, x, y, z
    <3>2. WellTiered(<< Tier(a, b, x), Tier(c, d, y), Tier(e, Unlimited, z) >>)
      BY <2>2, <3>1, ThreeTiers
    <3>3. three = << Tier(a, b, x), Tier(c, d, y), Tier(e, Unlimited, z) >>
      BY DEF a, b, c, d, e, x, y, z
    <3> QED
      BY <3>2, <3>3
  <2>4. WellTiered(two)
    <3> DEFINE a == 0  b == 10000  c == 10001  x == 40000  y == 30000
    <3>1. /\ a \in Int /\ b \in Int /\ c \in Int /\ x \in Int /\ y \in Int /\ b < c
      OBVIOUS
    <3> HIDE DEF a, b, c, x, y
    <3>2. WellTiered(<< Tier(a, b, x), Tier(c, Unlimited, y) >>)
      BY <2>2, <3>1, TwoTiers
    <3>3. two = << Tier(a, b, x), Tier(c, Unlimited, y) >>
      BY DEF a, b, c, x, y
    <3> QED
      BY <3>2, <3>3
  <2>5. WellTiered(Flat(8000))
    <3> DEFINE price == 8000
    <3>1. price \in Int
      OBVIOUS
    <3> HIDE DEF price
    <3>2. WellTiered(Flat(price))
      BY <3>1, FlatTier
    <3> QED
      BY <3>2 DEF price
  <2> HIDE DEF three, two
  <2>6. \A product \in DOMAIN plan : WellTiered(plan[product])
    BY <2>3, <2>4, <2>5
  <2> HIDE DEF plan
  <2> QED
    BY <2>1, <2>6
<1>3. \A product \in DOMAIN Plans.enterprise : WellTiered(Plans.enterprise[product])
  <2> DEFINE plan == [silent_verify |-> Flat(12000), sms_otp |-> Flat(25000), sim_swap |-> Flat(5000)]
  <2>1. Plans.enterprise = plan
    BY DEF Plans
  <2>2. WellTiered(Flat(12000)) /\ WellTiered(Flat(25000)) /\ WellTiered(Flat(5000))
    BY FlatTier
  <2>3. \A product \in DOMAIN plan : WellTiered(plan[product])
    BY <2>2
  <2> QED
    BY <2>1, <2>3
<1> QED
  BY <1>1, <1>2, <1>3, PlanNames

\* The last tier that a volume reaches is the one that holds it.
LEMMA FindsTier ==
  ASSUME NEW plan, NEW product \in DOMAIN plan, WellTiered(plan[product]), NEW volume \in Int,
         NEW i \in DOMAIN plan[product],
         plan[product][i].minVolume <= volume, volume <= plan[product][i].maxVolume
  PROVE  FindPrice(plan, product, volume) = plan[product][i].unitPrice
<1> DEFINE tiers == plan[product]
           reached == {j \in DOMAIN tiers : volume >= tiers[j].minVolume}
<1>1. PICK n \in Nat : DOMAIN tiers = 1 .. n
  BY DEF WellTiered
<1>2. \A j \in DOMAIN tiers : /\ tiers[j].minVolume \in Int /\ tiers[j].maxVolume \in Int
                              /\ i < j => tiers[i].maxVolume < tiers[j].minVolume
  BY DEF WellTiered
<1>3. FindPrice(plan, product, volume) = tiers[IF reached = {} THEN 1 ELSE Max(reached)].unitPrice
  BY DEF FindPrice
<1> HIDE DEF tiers
<1>4. i \in reached
  <2>1. i \in DOMAIN tiers /\ tiers[i].minVolume <= volume
    BY DEF tiers
  <2> QED
    BY <1>2, <2>1
<1>5. reached \in SUBSET (1 .. n)
  BY <1>1
<1>6. Max(reached) \in reached /\ i <= Max(reached)
  BY <1>4, <1>5, Greatest
<1> DEFINE k == Max(reached)
<1>7. k \in 1 .. n /\ k \in DOMAIN tiers /\ volume >= tiers[k].minVolume /\ i \in 1 .. n /\ i <= k
  BY <1>1, <1>4, <1>6
<1> HIDE DEF k, reached
<1>8. ~(i < k)
  <2>1. ASSUME i < k PROVE FALSE
    <3>1. tiers[i].maxVolume < tiers[k].minVolume /\ volume <= tiers[i].maxVolume
      BY <1>2, <1>7, <2>1 DEF tiers
    <3>2. tiers[i].maxVolume \in Int /\ tiers[k].minVolume \in Int
      BY <1>1, <1>2, <1>7
    <3> QED
      BY <1>7, <3>1, <3>2
  <2> QED
    BY <2>1
<1>9. k = i
  BY <1>7, <1>8
<1> QED
  BY <1>3, <1>4, <1>9 DEF k, tiers

\* What rounding to the microcent leaves.
LEMMA Rounding ==
  \A price \in Int, d \in 0 .. 100 :
    price * (100 - d) - 100 * Discounted(price, d) \in 0 .. 99
<1> SUFFICES ASSUME NEW price \in Int, NEW d \in 0 .. 100
             PROVE  price * (100 - d) - 100 * Discounted(price, d) \in 0 .. 99
  OBVIOUS
<1> DEFINE full == price * (100 - d)
<1>1. full \in Int
  OBVIOUS
<1>2. CASE d > 0
  <2>1. Discounted(price, d) = full \div 100
    BY <1>2 DEF Discounted
  <2> HIDE DEF full
  <2>2. full - 100 * (full \div 100) \in 0 .. 99
    BY <1>1
  <2> QED
    BY <2>1, <2>2 DEF full
<1>3. CASE ~(d > 0)
  <2>1. d = 0 /\ Discounted(price, d) = price
    BY <1>3 DEF Discounted
  <2>2. price * (100 - 0) - 100 * price = 0
    OBVIOUS
  <2> QED
    BY <2>1, <2>2
<1> QED
  BY <1>2, <1>3

\* The price is that of the tier that holds the volume, less the discount.
THEOREM TiersHoldVolumes == PricingSpec => []TierHoldsVolume
<1>1. PricingIInv => TierHoldsVolume
  <2> SUFFICES ASSUME PricingIInv, quote # Unset, quote.result.tier # "custom",
                      quote.product \in DOMAIN Plans[quote.result.tier],
                      NEW i \in DOMAIN Plans[quote.result.tier][quote.product],
                      Plans[quote.result.tier][quote.product][i].minVolume <= quote.volume,
                      quote.volume <= Plans[quote.result.tier][quote.product][i].maxVolume
               PROVE  Plans[quote.result.tier][quote.product][i].unitPrice
                        * (100 - quote.result.discount) - 100 * quote.result.unitPrice \in 0 .. 99
    BY DEF TierHoldsVolume
  <2> DEFINE plan == Plans[quote.result.tier]
             product == quote.product
             volume == quote.volume
  <2>1. PICK own \in Tenant : quote.result = PriceFor(own, product, quote.country, volume)
    BY DEF PricingIInv, Quoted
  <2>2. volume \in Int
    BY PricingAssumption DEF PricingIInv
  <2>3. own.discount \in 0 .. 100
    BY DEF Tenant
  <2> DEFINE name == IF own.plan \in DOMAIN Plans THEN own.plan ELSE "payg"
  <2>4. name \in DOMAIN Plans
    BY PlanNames
  <2>5. /\ quote.result.tier = name /\ quote.result.discount = own.discount
        /\ quote.result.unitPrice = Discounted(FindPrice(Plans[name], product, volume), own.discount)
    BY <2>1 DEF PriceFor, Result
  <2>6. plan = Plans[name] /\ product \in DOMAIN plan /\ i \in DOMAIN plan[product]
        /\ plan[product][i].minVolume <= volume /\ volume <= plan[product][i].maxVolume
    BY <2>5
  <2>7. WellTiered(plan[product])
    BY <2>4, <2>6, SeededTiers
  <2> HIDE DEF plan, product, volume, name
  <2>8. FindPrice(plan, product, volume) = plan[product][i].unitPrice
    BY <2>2, <2>6, <2>7, FindsTier
  <2>9. plan[product][i].unitPrice \in Int
    BY <2>6, <2>7 DEF WellTiered
  <2> DEFINE price == plan[product][i].unitPrice
             discount == own.discount
  <2>10. quote.result.unitPrice = Discounted(price, discount) /\ quote.result.discount = discount
    BY <2>5, <2>6, <2>8
  <2> HIDE DEF price, discount
  <2>11. price * (100 - discount) - 100 * Discounted(price, discount) \in 0 .. 99
    BY <2>3, <2>9, Rounding DEF price, discount
  <2> QED
    BY <2>10, <2>11 DEF price, plan, product
<1> QED
  BY <1>1, PricingInvariance, PTL
=============================================================================
