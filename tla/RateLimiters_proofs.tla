------------------------ MODULE RateLimiters_proofs ------------------------
(*****************************************************************************)
(* For any limit and window, and any arrival of requests: what the rate      *)
(* limiter of one server and the one shared by all of them let through.      *)
(* Requests may come at any times; the pipelines to Redis may interleave,    *)
(* fail and be sent again.                                                   *)
(*****************************************************************************)
EXTENDS RateLimiter, RedisRateLimiter, FiniteSetTheorems, SequenceTheorems, TLAPS

(* In memory: allow decides exactly as SlidingWindow does. *)

\* Facts about differences of natural numbers.
LEMMA Difference == \A x, y \in Nat : x <= y => y - x \in 0 .. y /\ y - (y - x) = x
  OBVIOUS

LEMMA UpToNext == \A y \in Nat : \A i \in 1 .. y + 1 : i = y + 1 \/ i \in 1 .. y
  OBVIOUS

LEMMA NotLast ==
  \A y, l, i \in Nat : i >= 1 /\ i + l <= y + 1 /\ i + l # y + 1
                        => i + l <= y /\ i + l \in 1 .. y /\ i \in 1 .. y
  OBVIOUS

LEMMA IntervalSize ==
  ASSUME NEW x \in Nat, NEW y \in Nat, x <= y PROVE Cardinality((x + 1) .. y) = y - x
<1>1. Cardinality((x + 1) .. y) = IF x + 1 > y THEN 0 ELSE y - (x + 1) + 1
  BY FS_Interval
<1> QED BY <1>1

\* The stale entries of a sequence in order are its first ones.
LEMMA StalePrefix ==
  ASSUME NEW s \in Seq(Nat), Sorted(s), now \in Nat
  PROVE  /\ Cardinality(Stale(s)) \in 0 .. Len(s)
         /\ Stale(s) = 1 .. Cardinality(Stale(s))
<1> DEFINE n == Cardinality(Stale(s))
<1> USE LimiterAssumption
<1>1. Len(s) \in Nat /\ \A i \in 1 .. Len(s) : s[i] \in Nat
  OBVIOUS
<1>2. IsFiniteSet(1 .. Len(s)) /\ Cardinality(1 .. Len(s)) = Len(s)
  BY <1>1, FS_Interval
<1>3. Stale(s) \in SUBSET (1 .. Len(s))
  BY DEF Stale
<1>4. IsFiniteSet(Stale(s)) /\ n <= Len(s) /\ n \in Nat
  BY <1>2, <1>3, FS_Subset, FS_CardinalityType
<1>5. ASSUME NEW i \in Stale(s) PROVE i <= n
  <2>1. i \in 1 .. Len(s)
    BY <1>3
  <2>2. ASSUME NEW j \in 1 .. i PROVE j \in Stale(s)
    <3>1. j \in 1 .. Len(s) /\ s[j] <= s[i] /\ s[i] <= now - Window
      BY <1>1, <2>1 DEF Stale, Sorted
    <3> QED BY <1>1, <2>1, <3>1 DEF Stale
  <2>3. 1 .. i \in SUBSET Stale(s)
    BY <2>2
  <2>4. Cardinality(1 .. i) <= n
    BY <1>4, <2>3, FS_Subset
  <2>5. Cardinality(1 .. i) = i
    BY <2>1, FS_Interval
  <2> QED BY <2>4, <2>5
<1>6. Stale(s) \in SUBSET (1 .. n)
  BY <1>3, <1>4, <1>5
<1>7. IsFiniteSet(1 .. n) /\ Cardinality(1 .. n) = n
  BY <1>4, FS_Interval
<1>8. Stale(s) = 1 .. n
  BY <1>6, <1>7, FS_Subset
<1> QED BY <1>1, <1>4, <1>8

\* What the cleaning loop keeps of a sequence s in order: its entries that are fresh.
LEMMA ValidProperties ==
  ASSUME NEW s \in Seq(Nat), Sorted(s), now \in Nat
  PROVE  \E n \in 0 .. Len(s) :
           /\ Valid(s) \in Seq(Nat)
           /\ Len(Valid(s)) = Len(s) - n
           /\ \A i \in 1 .. Len(s) - n : Valid(s)[i] = s[n + i]
           /\ \A i \in 1 .. Len(s) : i <= n <=> s[i] <= now - Window
<1> USE LimiterAssumption
<1>1. PICK n \in 0 .. Len(s) : n = Cardinality(Stale(s)) /\ Stale(s) = 1 .. n
  BY StalePrefix
<1>2. Len(s) \in Nat /\ n + 1 \in Int /\ \A i \in (n + 1) .. Len(s) : s[i] \in Nat
  BY <1>1
<1>3. /\ SubSeq(s, n + 1, Len(s)) \in Seq(Nat)
      /\ Len(SubSeq(s, n + 1, Len(s))) = IF n + 1 <= Len(s) THEN Len(s) - (n + 1) + 1 ELSE 0
      /\ \A i \in 1 .. Len(s) - (n + 1) + 1 : SubSeq(s, n + 1, Len(s))[i] = s[(n + 1) + i - 1]
  BY <1>2, SubSeqProperties
<1>4. Valid(s) = SubSeq(s, n + 1, Len(s))
  BY <1>1 DEF Valid
<1>5. Len(Valid(s)) = Len(s) - n
  BY <1>2, <1>3, <1>4
<1>6. ASSUME NEW i \in 1 .. Len(s) - n PROVE Valid(s)[i] = s[n + i]
  <2>1. i \in 1 .. Len(s) - (n + 1) + 1 /\ (n + 1) + i - 1 = n + i
    BY <1>2
  <2> QED BY <1>3, <1>4, <2>1
<1>7. \A i \in 1 .. Len(s) : i <= n <=> s[i] <= now - Window
  BY <1>1, <1>2 DEF Stale
<1> QED BY <1>3, <1>4, <1>5, <1>6, <1>7

\* The same, seen from the admissions a of which s is the end.
LEMMA SuffixOfFresh ==
  ASSUME NEW s \in Seq(Nat), NEW a \in Seq(Nat), NEW d \in Nat, now \in Nat,
         Sorted(a), Len(a) = d + Len(s),
         \A i \in 1 .. Len(s) : s[i] = a[d + i],
         \A i \in 1 .. d : a[i] <= now - Window
  PROVE  \E m \in 0 .. Len(a) :
           /\ Valid(s) \in Seq(Nat)
           /\ Len(Valid(s)) = Len(a) - m
           /\ \A i \in 1 .. Len(a) - m : Valid(s)[i] = a[m + i]
           /\ \A i \in 1 .. Len(a) : i <= m <=> a[i] <= now - Window
<1> USE LimiterAssumption
<1>1. Len(s) \in Nat /\ Len(a) \in Nat
  OBVIOUS
<1>2. Sorted(s)
  <2> SUFFICES ASSUME NEW i \in 1 .. Len(s), NEW j \in 1 .. Len(s), i <= j PROVE s[i] <= s[j]
    BY DEF Sorted
  <2>1. d + i \in 1 .. Len(a) /\ d + j \in 1 .. Len(a) /\ d + i <= d + j
    BY <1>1
  <2>2. a[d + i] <= a[d + j]
    BY <2>1 DEF Sorted
  <2> QED BY <2>2
<1>3. PICK n \in 0 .. Len(s) :
        /\ Valid(s) \in Seq(Nat)
        /\ Len(Valid(s)) = Len(s) - n
        /\ \A i \in 1 .. Len(s) - n : Valid(s)[i] = s[n + i]
        /\ \A i \in 1 .. Len(s) : i <= n <=> s[i] <= now - Window
  BY <1>2, ValidProperties
<1>4. d + n \in 0 .. Len(a) /\ Len(Valid(s)) = Len(a) - (d + n) /\ Len(a) - (d + n) = Len(s) - n
  BY <1>1, <1>3
<1>5. ASSUME NEW i \in 1 .. Len(a) - (d + n) PROVE Valid(s)[i] = a[(d + n) + i]
  <2>1. i \in 1 .. Len(s) - n /\ n + i \in 1 .. Len(s) /\ d + (n + i) = (d + n) + i
    BY <1>1, <1>4
  <2> QED BY <1>3, <2>1
<1>6. ASSUME NEW i \in 1 .. Len(a) PROVE i <= d + n <=> a[i] <= now - Window
  <2>1. CASE i <= d
    BY <1>1, <2>1
  <2>2. CASE i > d
    <3>1. i - d \in 1 .. Len(s) /\ d + (i - d) = i
      BY <1>1, <2>2
    <3>2. (i - d) <= n <=> a[i] <= now - Window
      BY <1>3, <3>1
    <3> QED BY <1>1, <1>3, <3>1, <3>2
  <2> QED BY <1>1, <2>1, <2>2
<1> QED BY <1>3, <1>4, <1>5, <1>6

\* The parts of the inductive invariant that speak of one key, at time t.
UpTo(a, t) == \A i \in 1 .. Len(a) : a[i] <= t
Spaced(a) == \A i \in 1 .. Len(a) : i + Limit <= Len(a) => a[i + Limit] - a[i] >= Window
Ends(s, a, m) == Len(s) = Len(a) - m /\ \A i \in 1 .. Len(a) - m : s[i] = a[m + i]
Old(a, m, t) == \A i \in 1 .. m : a[i] <= t - Window
Fresh(a, m, t) == \A i \in m + 1 .. Len(a) : a[i] > t - Window

KeyInv(t, s, a) ==
  /\ s \in Seq(Nat) /\ a \in Seq(Nat) /\ Sorted(a) /\ UpTo(a, t) /\ Spaced(a)
  /\ \E m \in 0 .. Len(a) : Ends(s, a, m) /\ Old(a, m, t)

ByKey ==
  /\ now \in Nat /\ answer \in Answers \union {NoAnswer}
  /\ DOMAIN requests = Keys /\ requests = [k \in Keys |-> requests[k]]
  /\ DOMAIN admitted = Keys /\ admitted = [k \in Keys |-> admitted[k]]
  /\ \A k \in Keys : KeyInv(now, requests[k], admitted[k])

LEMMA InvByKey == IInv <=> ByKey
<1> DEFINE Part(k) ==
      /\ requests[k] \in Seq(Nat) /\ admitted[k] \in Seq(Nat)
      /\ Sorted(admitted[k]) /\ UpTo(admitted[k], now) /\ Spaced(admitted[k])
      /\ Len(requests[k]) <= Len(admitted[k])
      /\ \A i \in 1 .. Len(requests[k]) : requests[k][i] = admitted[k][Forgotten(k) + i]
      /\ Old(admitted[k], Forgotten(k), now)
<1>1. ASSUME NEW k \in Keys PROVE Part(k) <=> KeyInv(now, requests[k], admitted[k])
  <2>1. ASSUME NEW s \in Seq(Nat), NEW a \in Seq(Nat), NEW m \in 0 .. Len(a), Ends(s, a, m)
        PROVE  Len(s) <= Len(a) /\ Len(a) - Len(s) = m
    BY <2>1 DEF Ends
  <2>2. ASSUME Part(k) PROVE KeyInv(now, requests[k], admitted[k])
    <3>1. Len(requests[k]) \in Nat /\ Len(admitted[k]) \in Nat
      BY <2>2
    <3>2. /\ Forgotten(k) \in 0 .. Len(admitted[k])
          /\ Len(admitted[k]) - Forgotten(k) = Len(requests[k])
      <4>1. Len(requests[k]) <= Len(admitted[k])
        BY <2>2
      <4> QED BY <3>1, <4>1, Difference DEF Forgotten
    <3>3. Ends(requests[k], admitted[k], Forgotten(k))
      BY <2>2, <3>2 DEF Ends
    <3> QED BY <2>2, <3>2, <3>3 DEF KeyInv
  <2>3. ASSUME KeyInv(now, requests[k], admitted[k]) PROVE Part(k)
    <3>1. PICK m \in 0 .. Len(admitted[k]) :
            Ends(requests[k], admitted[k], m) /\ Old(admitted[k], m, now)
      BY <2>3 DEF KeyInv
    <3>2. requests[k] \in Seq(Nat) /\ admitted[k] \in Seq(Nat)
      BY <2>3 DEF KeyInv
    <3>3. Len(requests[k]) <= Len(admitted[k]) /\ Forgotten(k) = m
      BY <2>1, <3>1, <3>2 DEF Forgotten
    <3> QED BY <2>3, <3>1, <3>2, <3>3 DEF KeyInv, Ends
  <2> QED BY <2>2, <2>3
<1>2. IInv <=> /\ TypeOK /\ \A k \in Keys : Part(k)
  BY DEF IInv, InOrder, Remembers, WindowRespected, TypeOK, UpTo, Spaced, Old
<1> HIDE DEF Part
<1>3. (\A k \in Keys : Part(k)) <=> \A k \in Keys : KeyInv(now, requests[k], admitted[k])
  BY <1>1
<1>4. TypeOK <=> /\ now \in Nat /\ answer \in Answers \union {NoAnswer}
                 /\ DOMAIN requests = Keys /\ requests = [k \in Keys |-> requests[k]]
                 /\ DOMAIN admitted = Keys /\ admitted = [k \in Keys |-> admitted[k]]
                 /\ \A k \in Keys : requests[k] \in Seq(Nat) /\ admitted[k] \in Seq(Nat)
  BY DEF TypeOK
<1>5. \A k \in Keys : KeyInv(now, requests[k], admitted[k])
                        => requests[k] \in Seq(Nat) /\ admitted[k] \in Seq(Nat)
  BY DEF KeyInv
<1> QED BY <1>2, <1>3, <1>4, <1>5 DEF ByKey

\* What the cleaning loop keeps for a key is the end of the key's admissions that
\* is still fresh; all admissions before it are too old.
LEMMA ValidIsFresh ==
  ASSUME IInv, NEW k \in Keys
  PROVE  \E m \in 0 .. Len(admitted[k]) :
           /\ Valid(requests[k]) \in Seq(Nat) /\ Ends(Valid(requests[k]), admitted[k], m)
           /\ Old(admitted[k], m, now) /\ Fresh(admitted[k], m, now)
<1> DEFINE s == requests[k]
           a == admitted[k]
<1>1. now \in Nat /\ KeyInv(now, s, a)
  BY InvByKey DEF ByKey
<1>2. PICK d \in 0 .. Len(a) : Ends(s, a, d) /\ Old(a, d, now)
  BY <1>1 DEF KeyInv
<1>3. s \in Seq(Nat) /\ a \in Seq(Nat) /\ Sorted(a)
  BY <1>1 DEF KeyInv
<1> HIDE DEF s, a
<1>4. Len(a) = d + Len(s) /\ d \in Nat
  BY <1>2, <1>3 DEF Ends
<1>5. \A i \in 1 .. Len(s) : s[i] = a[d + i]
  BY <1>2 DEF Ends
<1>6. \A i \in 1 .. d : a[i] <= now - Window
  BY <1>2 DEF Old
<1>7. PICK m \in 0 .. Len(a) :
        /\ Valid(s) \in Seq(Nat)
        /\ Len(Valid(s)) = Len(a) - m
        /\ \A i \in 1 .. Len(a) - m : Valid(s)[i] = a[m + i]
        /\ \A i \in 1 .. Len(a) : i <= m <=> a[i] <= now - Window
  BY <1>1, <1>3, <1>4, <1>5, <1>6, SuffixOfFresh
<1>8. Ends(Valid(s), a, m)
  BY <1>7 DEF Ends
<1>9. Len(a) \in Nat /\ Window \in Nat /\ \A i \in 1 .. Len(a) : a[i] \in Nat
  BY <1>3, LimiterAssumption
<1>10. Old(a, m, now) /\ Fresh(a, m, now)
  BY <1>1, <1>7, <1>9 DEF Old, Fresh
<1> QED BY <1>7, <1>8, <1>10 DEF s, a

\* Admitting a request, if fewer than Limit of the admissions before are fresh.
LEMMA AdmittedOK ==
  ASSUME NEW t \in Nat, NEW a \in Seq(Nat), NEW v \in Seq(Nat), NEW m \in 0 .. Len(a),
         Sorted(a), UpTo(a, t), Spaced(a), Ends(v, a, m), Old(a, m, t), Len(v) < Limit
  PROVE  KeyInv(t, Append(v, t), Append(a, t))
<1> DEFINE b == Append(a, t)
           w == Append(v, t)
<1>0. Limit \in Nat /\ Window \in Nat
  BY LimiterAssumption
<1>1. Len(a) \in Nat /\ Len(v) \in Nat /\ Len(a) = m + Len(v) /\ m \in Nat
  BY DEF Ends
<1>2. /\ b \in Seq(Nat) /\ Len(b) = Len(a) + 1
      /\ b[Len(a) + 1] = t /\ \A i \in 1 .. Len(a) : b[i] = a[i]
  OBVIOUS
<1>3. /\ w \in Seq(Nat) /\ Len(w) = Len(v) + 1
      /\ w[Len(v) + 1] = t /\ \A i \in 1 .. Len(v) : w[i] = v[i]
  OBVIOUS
<1> HIDE DEF b, w
<1>a. Len(b) = Len(a) + 1 /\ \A i \in 1 .. Len(b) : i = Len(a) + 1 \/ i \in 1 .. Len(a)
  BY <1>1, <1>2, UpToNext
<1>4. UpTo(b, t)
  <2> SUFFICES ASSUME NEW i \in 1 .. Len(b) PROVE b[i] <= t
    BY DEF UpTo
  <2>1. CASE i = Len(a) + 1
    BY <1>2, <2>1
  <2>2. CASE i \in 1 .. Len(a)
    BY <1>2, <2>2 DEF UpTo
  <2> QED BY <1>a, <2>1, <2>2
<1>5. Sorted(b)
  <2> SUFFICES ASSUME NEW i \in 1 .. Len(b), NEW j \in 1 .. Len(b), i <= j PROVE b[i] <= b[j]
    BY DEF Sorted
  <2>1. CASE j = Len(a) + 1
    BY <1>2, <1>4, <2>1 DEF UpTo
  <2>2. CASE j # Len(a) + 1
    <3>1. i \in 1 .. Len(a) /\ j \in 1 .. Len(a)
      <4>1. j \in 1 .. Len(a)
        BY <1>a, <2>2
      <4> QED BY <1>1, <4>1
    <3>2. a[i] <= a[j]
      BY <3>1 DEF Sorted
    <3> QED BY <1>2, <3>1, <3>2
  <2> QED BY <2>1, <2>2
<1>6. Len(b) - m = Len(v) + 1 /\ m \in 0 .. Len(b)
  BY <1>1, <1>2
<1>7. ASSUME NEW i \in 1 .. Len(v) + 1 PROVE w[i] = b[m + i]
  <2>1. CASE i = Len(v) + 1
    <3>1. m + i = Len(a) + 1
      BY <1>1, <2>1
    <3> QED BY <1>2, <1>3, <2>1, <3>1
  <2>2. CASE i # Len(v) + 1
    <3>1. i \in 1 .. Len(v) /\ i \in 1 .. Len(a) - m /\ m + i \in 1 .. Len(a)
      BY <1>1, <2>2
    <3>2. v[i] = a[m + i]
      BY <3>1 DEF Ends
    <3> QED BY <1>2, <1>3, <3>1, <3>2
  <2> QED BY <2>1, <2>2
<1>8. Ends(w, b, m)
  BY <1>3, <1>6, <1>7 DEF Ends
<1>9. ASSUME NEW i \in 1 .. m PROVE i \in 1 .. Len(a) /\ b[i] = a[i] /\ a[i] <= t - Window
  BY <1>1, <1>2 DEF Old
<1>10. Old(b, m, t)
  BY <1>9 DEF Old
<1>11. ASSUME NEW i \in 1 .. Len(b), i + Limit <= Len(b) PROVE b[i + Limit] - b[i] >= Window
  <2>1. CASE i + Limit = Len(a) + 1
    <3>1. i \in 1 .. m
      BY <1>0, <1>1, <2>1
    <3>2. b[i] <= t - Window /\ b[i + Limit] = t
      BY <1>2, <1>9, <2>1, <3>1
    <3>3. b[i] \in Nat
      BY <1>2
    <3> QED BY <1>0, <3>2, <3>3
  <2>2. CASE i + Limit # Len(a) + 1
    <3>1. i + Limit <= Len(a) /\ i + Limit \in 1 .. Len(a) /\ i \in 1 .. Len(a)
      <4>1. i \in Nat /\ i >= 1 /\ i + Limit <= Len(a) + 1
        BY <1>a, <1>11
      <4> QED BY <1>0, <1>1, <2>2, <4>1, NotLast
    <3>2. a[i + Limit] - a[i] >= Window
      BY <3>1 DEF Spaced
    <3> QED BY <1>2, <3>1, <3>2
  <2> QED BY <2>1, <2>2
<1>12. Spaced(b)
  BY <1>11 DEF Spaced
<1>13. KeyInv(t, w, b)
  BY <1>2, <1>3, <1>4, <1>5, <1>6, <1>8, <1>10, <1>12 DEF KeyInv
<1> QED BY <1>13 DEF b, w

\* Time going by only makes old entries older.
LEMMA TickOK ==
  ASSUME NEW t \in Nat, NEW s, NEW a, KeyInv(t, s, a)
  PROVE  KeyInv(t + 1, s, a)
<1>1. PICK m \in 0 .. Len(a) : Ends(s, a, m) /\ Old(a, m, t)
  BY DEF KeyInv
<1>2. a \in Seq(Nat) /\ Len(a) \in Nat /\ Window \in Nat /\ \A i \in 1 .. Len(a) : a[i] \in Nat
  BY LimiterAssumption DEF KeyInv
<1>3. UpTo(a, t + 1)
  BY <1>2 DEF KeyInv, UpTo
<1>4. Old(a, m, t + 1)
  <2> SUFFICES ASSUME NEW i \in 1 .. m PROVE a[i] <= (t + 1) - Window
    BY DEF Old
  <2>1. a[i] <= t - Window /\ a[i] \in Nat
    BY <1>1, <1>2 DEF Old
  <2> QED BY <1>2, <2>1
<1> QED BY <1>1, <1>3, <1>4 DEF KeyInv

\* What a call of allow makes of the entries and the admissions of its key.
LEMMA AllowKey ==
  ASSUME IInv, NEW k \in Keys, Allow(k)
  PROVE  /\ now' = now /\ answer' \in Answers
         /\ \E s, a : /\ KeyInv(now, s, a)
                      /\ requests' = [requests EXCEPT ![k] = s]
                      /\ admitted' = [admitted EXCEPT ![k] = a]
<1> DEFINE a == admitted[k]
           v == Valid(requests[k])
<1>1. /\ now \in Nat /\ answer \in Answers \union {NoAnswer}
      /\ KeyInv(now, requests[k], a) /\ admitted = [j \in Keys |-> admitted[j]]
  BY InvByKey DEF ByKey
<1>2. PICK m \in 0 .. Len(a) :
        v \in Seq(Nat) /\ Ends(v, a, m) /\ Old(a, m, now) /\ Fresh(a, m, now)
  BY ValidIsFresh
<1>3. a \in Seq(Nat) /\ Sorted(a) /\ UpTo(a, now) /\ Spaced(a)
  BY <1>1 DEF KeyInv
<1>4. now' = now /\ answer' \in Answers
  BY <1>1 DEF Allow, Answers
<1>5. CASE Len(v) < Limit
  <2>1. /\ requests' = [requests EXCEPT ![k] = Append(v, now)]
        /\ admitted' = [admitted EXCEPT ![k] = Append(a, now)]
    BY <1>5 DEF Allow
  <2>2. KeyInv(now, Append(v, now), Append(a, now))
    BY <1>1, <1>2, <1>3, <1>5, AdmittedOK
  <2> QED BY <1>4, <2>1, <2>2
<1>6. CASE ~ (Len(v) < Limit)
  <2>1. /\ requests' = [requests EXCEPT ![k] = v]
        /\ admitted' = admitted
    BY <1>6 DEF Allow
  <2>2. admitted' = [admitted EXCEPT ![k] = a]
    BY <1>1, <2>1
  <2>3. KeyInv(now, v, a)
    BY <1>2, <1>3 DEF KeyInv
  <2> QED BY <1>4, <2>1, <2>2, <2>3
<1> QED BY <1>5, <1>6

\* The invariant holds initially and every step keeps it.
LEMMA InvInit == Init => IInv
  BY LimiterAssumption DEF Init, IInv, TypeOK, InOrder, Sorted, Remembers, Forgotten, WindowRespected

LEMMA InvStep == IInv /\ [Next]_vars => IInv'
<1> SUFFICES ASSUME IInv, [Next]_vars PROVE IInv'
  OBVIOUS
<1>0. ByKey
  BY InvByKey
<1>a. SUFFICES ByKey'
  <2>1. IInv' <=> ByKey'
    BY InvByKey, PTL
  <2> QED BY <2>1
<1>1. CASE Tick
  <2>1. now' = now + 1 /\ requests' = requests /\ admitted' = admitted /\ answer' = answer
    BY <1>1 DEF Tick
  <2> QED BY <1>0, <2>1, TickOK DEF ByKey
<1>2. ASSUME NEW k \in Keys, Allow(k) PROVE ByKey'
  <2>1. now' = now /\ answer' \in Answers
    BY <1>2, AllowKey
  <2>2. PICK s, a : /\ KeyInv(now, s, a)
                    /\ requests' = [requests EXCEPT ![k] = s]
                    /\ admitted' = [admitted EXCEPT ![k] = a]
    BY <1>2, AllowKey
  <2> QED BY <1>0, <2>1, <2>2 DEF ByKey
<1>3. CASE UNCHANGED vars
  BY <1>0, <1>3 DEF vars, ByKey
<1> QED BY <1>1, <1>2, <1>3 DEF Next

\* In every reachable state, for any limit, window, keys and timing of requests.
THEOREM Invariance == Spec => []IInv
  BY InvInit, InvStep, PTL DEF Spec

\* No window of time ever holds more than Limit admissions of a key.
THEOREM LimitHolds == Spec => []WindowRespected
<1>1. IInv => WindowRespected
  BY DEF IInv
<1> QED BY <1>1, Invariance, PTL
-----------------------------------------------------------------------------
LEMMA SameCardinality == \A S : Sliding!Cardinality(S) = Cardinality(S)
  BY DEF Sliding!Cardinality, Cardinality, Sliding!IsFiniteSet, IsFiniteSet

\* allow counts exactly the admissions SlidingWindow counts.
LEMMA CountsRecent ==
  ASSUME IInv, NEW k \in Keys
  PROVE  Cardinality(Sliding!Recent(k)) = Len(Valid(requests[k]))
<1> USE LimiterAssumption
<1>1. PICK m \in 0 .. Len(admitted[k]) :
        /\ Ends(Valid(requests[k]), admitted[k], m)
        /\ Old(admitted[k], m, now) /\ Fresh(admitted[k], m, now)
  BY ValidIsFresh
<1>2. now \in Nat /\ admitted[k] \in Seq(Nat)
  BY DEF IInv, TypeOK
<1>3. Len(admitted[k]) \in Nat /\ \A i \in 1 .. Len(admitted[k]) : admitted[k][i] \in Nat
  BY <1>2
<1>4. Sliding!Recent(k) = (m + 1) .. Len(admitted[k])
  BY <1>1, <1>2, <1>3 DEF Sliding!Recent, Old, Fresh
<1>5. Cardinality((m + 1) .. Len(admitted[k])) = Len(admitted[k]) - m
  <2>1. m \in Nat /\ m <= Len(admitted[k])
    BY <1>1, <1>3
  <2> QED BY <1>3, <2>1, IntervalSize
<1> QED BY <1>1, <1>4, <1>5 DEF Ends

\* The limiter implements SlidingWindow: it decides as if no entry were ever discarded.
THEOREM Implementation == Spec => KeepsSlidingWindow
<1>1. Init => Sliding!Init
  BY LimiterAssumption DEF Init, Sliding!Init
<1>2. IInv /\ [Next]_vars => [Sliding!Next]_(Sliding!wvars)
  <2> SUFFICES ASSUME IInv, [Next]_vars PROVE [Sliding!Next]_(Sliding!wvars)
    OBVIOUS
  <2>1. CASE Tick
    <3>1. Sliding!Advance
      BY <2>1 DEF Tick, Sliding!Advance, IInv, TypeOK
    <3> QED BY <3>1 DEF Sliding!Next
  <2>2. ASSUME NEW k \in Keys, Allow(k) PROVE Sliding!Next
    <3>1. Cardinality(Sliding!Recent(k)) = Len(Valid(requests[k]))
      BY CountsRecent
    <3>2. CASE Len(Valid(requests[k])) < Limit
      <4>1. Sliding!Admit(k)
        <5>1. Sliding!Cardinality(Sliding!Recent(k)) < Limit
          BY <3>1, <3>2, SameCardinality
        <5>2. (Len(Valid(requests[k])) < Limit) = TRUE
          BY <3>2
        <5>3. /\ admitted' = [admitted EXCEPT ![k] = Append(admitted[k], now)]
              /\ answer' = [key |-> k, ok |-> TRUE, at |-> now] /\ now' = now
          BY <2>2, <5>2, Zenon DEF Allow
        <5> QED BY <5>1, <5>3 DEF Sliding!Admit
      <4> QED BY <4>1 DEF Sliding!Next
    <3>3. CASE ~ (Len(Valid(requests[k])) < Limit)
      <4>1. Len(Valid(requests[k])) \in Nat
        <5>1. Valid(requests[k]) \in Seq(Nat)
          BY ValidIsFresh
        <5> QED BY <5>1
      <4>2. Cardinality(Sliding!Recent(k)) >= Limit
        BY <3>1, <3>3, <4>1, LimiterAssumption
      <4>3. Sliding!Deny(k)
        <5>1. Sliding!Cardinality(Sliding!Recent(k)) >= Limit
          BY <4>2, SameCardinality
        <5>2. (Len(Valid(requests[k])) < Limit) = FALSE
          BY <3>3
        <5>3. /\ admitted' = admitted
              /\ answer' = [key |-> k, ok |-> FALSE, at |-> now] /\ now' = now
          BY <2>2, <5>2, Zenon DEF Allow
        <5> QED BY <5>1, <5>3 DEF Sliding!Deny
      <4> QED BY <4>3 DEF Sliding!Next
    <3> QED BY <3>2, <3>3
  <2>3. CASE UNCHANGED vars
    BY <2>3 DEF vars, Sliding!wvars
  <2> QED BY <2>1, <2>2, <2>3 DEF Next
<1> QED BY <1>1, <1>2, Invariance, PTL DEF Spec, KeepsSlidingWindow, Sliding!Spec

-----------------------------------------------------------------------------
(* In Redis: what the counter of a window of the wall clock admits. *)

\* Who was admitted on time on the counter of b, and who is about to be.
Adm(b) == {i \in 1 .. Len(passed) : OnTime(i) /\ passed[i].bucket = b}
Awaiting(q, b) == q.pc = "expire" /\ q.bucket = b /\ Bucket(q.at) = b /\ q.count <= RedisLimit
Pend(b) == {r \in Requests : Awaiting(req[r], b)}

\* The sum never exceeds the limit; until b is over, neither does it exceed the counter,
\* which Redis does not drop before.
BucketOK(b) ==
  /\ Cardinality(Adm(b)) + Cardinality(Pend(b)) <= RedisLimit
  /\ Bucket(clock) <= b => Cardinality(Adm(b)) + Cardinality(Pend(b)) <= count[b]
  /\ deadline[b] # None => Bucket(deadline[b]) > b

RedisIInv ==
  /\ RedisTypeOK
  /\ \A r \in Requests : req[r].pc # "idle" => req[r].bucket <= Bucket(clock)
  /\ \A b \in Buckets : BucketOK(b)
  /\ NoOrphanCounter
-----------------------------------------------------------------------------
(* Windows of the clock *)

LEMMA DivBounds ==
  ASSUME NEW t \in Nat, NEW w \in Nat \ {0}
  PROVE  /\ t \div w \in Nat
         /\ (t \div w) * w <= t /\ t < (t \div w) * w + w
  OBVIOUS

LEMMA Smaller ==
  ASSUME NEW x \in Nat, NEW y \in Nat, NEW w \in Nat \ {0}, x * w < y * w + w
  PROVE  x <= y
<1> SUFFICES ASSUME x >= y + 1 PROVE FALSE
  OBVIOUS
<1>1. PICK k \in Nat : x = y + 1 + k
  <2>1. x - (y + 1) \in Nat /\ x = y + 1 + (x - (y + 1))
    OBVIOUS
  <2> QED BY <2>1
<1>2. x * w = y * w + w + k * w /\ k * w \in Nat
  BY <1>1
<1> QED BY <1>2

LEMMA BucketGrows ==
  ASSUME RedisAssumption, NEW s \in Nat, NEW t \in Nat, s <= t
  PROVE  Bucket(s) \in Nat /\ Bucket(t) \in Nat /\ Bucket(s) <= Bucket(t)
<1> DEFINE x == s \div RedisWindow
           y == t \div RedisWindow
<1>1. RedisWindow \in Nat \ {0}
  BY DEF RedisAssumption
<1>2. x \in Nat /\ y \in Nat /\ x * RedisWindow <= s /\ t < y * RedisWindow + RedisWindow
  BY <1>1, DivBounds
<1> HIDE DEF x, y
<1>3. x * RedisWindow < y * RedisWindow + RedisWindow
  BY <1>1, <1>2
<1>4. x <= y
  BY <1>1, <1>2, <1>3, Smaller
<1> QED BY <1>2, <1>4 DEF Bucket, x, y

LEMMA NextBucket ==
  ASSUME RedisAssumption, NEW t \in Nat
  PROVE  Bucket(t + RedisWindow) > Bucket(t)
<1> DEFINE x == t \div RedisWindow
           y == (t + RedisWindow) \div RedisWindow
<1>1. RedisWindow \in Nat \ {0} /\ t + RedisWindow \in Nat
  BY DEF RedisAssumption
<1>2. x \in Nat /\ y \in Nat /\ x * RedisWindow <= t /\ t + RedisWindow < y * RedisWindow + RedisWindow
  BY <1>1, DivBounds
<1> HIDE DEF x, y
<1>3. (x + 1) * RedisWindow < y * RedisWindow + RedisWindow
  <2>1. (x + 1) * RedisWindow = x * RedisWindow + RedisWindow
    BY <1>1, <1>2
  <2> QED BY <1>1, <1>2, <2>1
<1>4. x + 1 <= y
  BY <1>1, <1>2, <1>3, Smaller
<1> QED BY <1>2, <1>4 DEF Bucket, x, y

LEMMA ClockBuckets ==
  ASSUME RedisAssumption, NEW t \in 0 .. RedisMaxClock
  PROVE  Bucket(t) \in Buckets /\ Bucket(t) \in Nat
<1>1. t \in Nat /\ RedisMaxClock \in Nat /\ t <= RedisMaxClock
  BY DEF RedisAssumption
<1> QED BY <1>1, BucketGrows DEF Buckets
-----------------------------------------------------------------------------
(* The two sets, step by step *)

LEMMA Sizes ==
  ASSUME RedisAssumption, RedisTypeOK, NEW b
  PROVE  /\ IsFiniteSet(Adm(b)) /\ IsFiniteSet(Pend(b))
         /\ Cardinality(Adm(b)) \in Nat /\ Cardinality(Pend(b)) \in Nat
<1>1. IsFiniteSet(1 .. Len(passed))
  <2>1. Len(passed) \in Nat
    BY DEF RedisTypeOK
  <2> QED BY <2>1, FS_Interval
<1>2. IsFiniteSet(Adm(b))
  BY <1>1, FS_Subset DEF Adm
<1>3. IsFiniteSet(Pend(b))
  BY FS_Subset DEF Pend, RedisAssumption
<1> QED BY <1>2, <1>3, FS_CardinalityType

LEMMA PendSteps ==
  ASSUME RedisTypeOK, NEW r \in Requests, NEW q, req' = [req EXCEPT ![r] = q], NEW b
  PROVE  Pend(b)' = IF Awaiting(q, b) THEN Pend(b) \union {r} ELSE Pend(b) \ {r}
<1>1. \A x \in Requests : req'[x] = IF x = r THEN q ELSE req[x]
  BY DEF RedisTypeOK
<1>2. \A x : x \in Pend(b)' <=> x \in Requests /\ (IF x = r THEN Awaiting(q, b) ELSE Awaiting(req[x], b))
  BY <1>1 DEF Pend, Awaiting, Bucket
<1>3. \A x : x \in Pend(b) <=> x \in Requests /\ Awaiting(req[x], b)
  BY DEF Pend
<1> HIDE DEF Awaiting, Pend
<1>4. CASE Awaiting(q, b)
  <2>1. \A x : x \in Pend(b)' <=> x \in Pend(b) \union {r}
    BY <1>2, <1>3, <1>4, Zenon
  <2> QED BY <1>4, <2>1
<1>5. CASE ~Awaiting(q, b)
  <2>1. \A x : x \in Pend(b)' <=> x \in Pend(b) \ {r}
    BY <1>2, <1>3, <1>5, Zenon
  <2> QED BY <1>5, <2>1
<1> QED BY <1>4, <1>5

LEMMA AdmSteps ==
  ASSUME RedisTypeOK, NEW q, NEW c \in BOOLEAN, Admit(q, c), NEW b
  PROVE  /\ Len(passed) + 1 \notin Adm(b)
         /\ Adm(b)' = IF c /\ Bucket(q.at) = q.bucket /\ q.bucket = b
                      THEN Adm(b) \union {Len(passed) + 1} ELSE Adm(b)
<1> DEFINE n == Len(passed)
           new == [bucket |-> q.bucket, at |-> q.at, counted |-> c]
<1>1. n \in Nat /\ passed \in Seq(Admission)
  BY DEF RedisTypeOK
<1>2. /\ Len(passed') = n + 1
      /\ \A i \in 1 .. n : passed'[i] = passed[i]
      /\ passed'[n + 1] = new
  BY <1>1 DEF Admit
<1>3. \A i : i \in 1 .. n + 1 <=> i \in 1 .. n \/ i = n + 1
  BY <1>1
<1>4. n + 1 \notin 1 .. n
  BY <1>1
<1>5. \A i : OnTime(i)' <=> passed'[i].counted /\ Bucket(passed'[i].at) = passed'[i].bucket
  BY DEF OnTime, Bucket
<1>a. \A i : i \in Adm(b)' <=> i \in 1 .. n + 1 /\ OnTime(i)' /\ passed'[i].bucket = b
  BY <1>2 DEF Adm
<1>b. \A i : i \in Adm(b) <=> i \in 1 .. n /\ OnTime(i) /\ passed[i].bucket = b
  BY DEF Adm
<1>c. \A i \in 1 .. n : i \in Adm(b)' <=> i \in Adm(b)
  BY <1>2, <1>3, <1>5, <1>a, <1>b DEF OnTime
<1>d. n + 1 \in Adm(b)' <=> c /\ Bucket(q.at) = q.bucket /\ q.bucket = b
  <2>1. new.counted = c /\ new.at = q.at /\ new.bucket = q.bucket
    OBVIOUS
  <2> HIDE DEF new
  <2> QED BY <1>2, <1>3, <1>5, <1>a, <2>1
<1>6. \A i : i \in Adm(b)' <=> \/ i \in Adm(b)
                               \/ i = n + 1 /\ c /\ Bucket(q.at) = q.bucket /\ q.bucket = b
  BY <1>3, <1>4, <1>a, <1>b, <1>c, <1>d
<1>7. n + 1 \notin Adm(b)
  BY <1>4 DEF Adm
<1> HIDE DEF n, Adm
<1>8. CASE c /\ Bucket(q.at) = q.bucket /\ q.bucket = b
  <2>1. \A i : i \in Adm(b)' <=> i \in Adm(b) \union {n + 1}
    BY <1>6, <1>8
  <2> QED BY <1>7, <1>8, <2>1 DEF n
<1>9. CASE ~(c /\ Bucket(q.at) = q.bucket /\ q.bucket = b)
  <2>1. \A i : i \in Adm(b)' <=> i \in Adm(b)
    BY <1>6, <1>9
  <2> QED BY <1>7, <1>9, <2>1 DEF n
<1> QED BY <1>8, <1>9

\* Nobody is added unless the counter has counted them.
LEMMA KeepsTotal ==
  ASSUME RedisAssumption, RedisTypeOK, NEW b,
         Adm(b)' = Adm(b), Pend(b)' \subseteq Pend(b)
  PROVE  /\ Cardinality(Adm(b)') + Cardinality(Pend(b)') <= Cardinality(Adm(b)) + Cardinality(Pend(b))
         /\ Cardinality(Adm(b)') + Cardinality(Pend(b)') \in Nat
<1>1. Cardinality(Pend(b)') <= Cardinality(Pend(b)) /\ IsFiniteSet(Pend(b)')
  BY Sizes, FS_Subset
<1>2. Cardinality(Pend(b)') \in Nat
  BY <1>1, FS_CardinalityType
<1> QED BY <1>1, <1>2, Sizes
-----------------------------------------------------------------------------
(* Types *)

LEMMA Busy ==
  ASSUME RedisTypeOK, NEW r \in Requests, req[r].pc # "idle"
  PROVE  /\ req[r] \in Active /\ req[r].bucket \in Buckets /\ req[r].at \in 0 .. RedisMaxClock
         /\ req[r].count \in Nat /\ req[r].tries \in 0 .. MaxRetries
         /\ req[r].pc \in {"incr", "expire"}
<1>1. req[r] \in Active
  BY DEF RedisTypeOK, Idle
<1> QED BY <1>1 DEF Active

LEMMA AdmitTypes ==
  ASSUME RedisTypeOK, NEW q \in Active, NEW c \in BOOLEAN, Admit(q, c)
  PROVE  passed' \in Seq(Admission)
<1>1. [bucket |-> q.bucket, at |-> q.at, counted |-> c] \in Admission
  BY DEF Active, Admission
<1> QED BY <1>1 DEF RedisTypeOK, Admit

LEMMA ReqTypes ==
  ASSUME RedisTypeOK, NEW r \in Requests, NEW q \in {Idle} \union Active, req' = [req EXCEPT ![r] = q]
  PROVE  req' \in [Requests -> {Idle} \union Active] /\ req'[r] = q
         /\ \A o \in Requests : o # r => req'[o] = req[o]
BY DEF RedisTypeOK

LEMMA NewTypes ==
  ASSUME RedisAssumption, RedisTypeOK, NEW b \in Buckets, NEW n \in 0 .. MaxRetries, NEW c \in Nat
  PROVE  Asking(b, n) \in Active /\ Counted(b, n, c) \in Active
<1>1. 0 \in 0 .. RedisMaxClock /\ clock \in 0 .. RedisMaxClock
  BY DEF RedisAssumption, RedisTypeOK
<1> QED BY <1>1 DEF Asking, Counted, Active

LEMMA TypeStep == ASSUME RedisAssumption, RedisTypeOK, [RedisNext]_redisVars PROVE RedisTypeOK'
<1>1. CASE UNCHANGED redisVars
  BY <1>1 DEF redisVars, RedisTypeOK, Active, Buckets, Bucket
<1>2. CASE RedisTick
  <2>1. clock' \in 0 .. RedisMaxClock
    BY <1>2 DEF RedisTick, RedisTypeOK, RedisAssumption
  <2>2. count' \in [Buckets -> Nat] /\ deadline' \in [Buckets -> Nat \union {None}]
    BY <1>2 DEF RedisTick, RedisTypeOK
  <2> QED BY <1>2, <2>1, <2>2 DEF RedisTick, RedisTypeOK
<1>3. ASSUME NEW r \in Requests, Arrive(r) PROVE RedisTypeOK'
  <2>1. Bucket(clock) \in Buckets /\ 0 \in 0 .. MaxRetries
    BY ClockBuckets DEF RedisTypeOK, RedisAssumption
  <2>2. Asking(Bucket(clock), 0) \in Active
    BY <2>1, NewTypes
  <2>3. req' \in [Requests -> {Idle} \union Active]
    BY <1>3, <2>2, ReqTypes DEF Arrive
  <2>4. arrivals' \in 0 .. MaxArrivals
    BY <1>3 DEF Arrive, RedisTypeOK, RedisAssumption
  <2> QED BY <1>3, <2>3, <2>4 DEF Arrive, RedisTypeOK
<1>4. ASSUME NEW r \in Requests, Incr(r) PROVE RedisTypeOK'
  <2> DEFINE b == req[r].bucket
             q == Counted(b, req[r].tries, count[b] + 1)
  <2>1. b \in Buckets /\ req[r].tries \in 0 .. MaxRetries
    BY <1>4, Busy DEF Incr
  <2>2. count[b] + 1 \in Nat /\ count' = [count EXCEPT ![b] = count[b] + 1]
    BY <1>4, <2>1 DEF RedisTypeOK, Incr
  <2>3. q \in Active
    BY <2>1, <2>2, NewTypes
  <2>4. req' = [req EXCEPT ![r] = q]
    BY <1>4 DEF Incr
  <2> HIDE DEF q
  <2>5. req' \in [Requests -> {Idle} \union Active]
    BY <2>3, <2>4, ReqTypes
  <2>6. count' \in [Buckets -> Nat]
    BY <2>2 DEF RedisTypeOK
  <2> QED BY <1>4, <2>5, <2>6 DEF Incr, RedisTypeOK
<1>5. ASSUME NEW r \in Requests, Expire(r) PROVE RedisTypeOK'
  <2>1. req[r] \in Active
    BY <1>5, Busy DEF Expire
  <2>2. passed' \in Seq(Admission)
    BY <1>5, <2>1, AdmitTypes DEF Expire, RedisTypeOK
  <2>3. req' \in [Requests -> {Idle} \union Active]
    BY <1>5, ReqTypes DEF Expire
  <2>4. clock + RedisWindow \in Nat
    BY DEF RedisTypeOK, RedisAssumption
  <2>5. deadline' \in [Buckets -> Nat \union {None}]
    BY <1>5, <2>4 DEF Expire, RedisTypeOK
  <2> QED BY <1>5, <2>2, <2>3, <2>5 DEF Expire, RedisTypeOK
<1>6. ASSUME NEW r \in Requests, Fail(r) PROVE RedisTypeOK'
  <2>1. req[r] \in Active /\ req[r].bucket \in Buckets
    BY <1>6, Busy DEF Fail
  <2>2. passed' \in Seq(Admission)
    BY <1>6, <2>1, AdmitTypes DEF Fail
  <2>3. req' \in [Requests -> {Idle} \union Active]
    BY <1>6, ReqTypes DEF Fail
  <2>4. broken' \subseteq Buckets
    BY <1>6, <2>1 DEF Fail, Break, RedisTypeOK
  <2> QED BY <1>6, <2>2, <2>3, <2>4 DEF Fail, RedisTypeOK
<1>7. ASSUME NEW r \in Requests, Retry(r) PROVE RedisTypeOK'
  <2> DEFINE q == Asking(req[r].bucket, req[r].tries + 1)
  <2>1. /\ req[r].bucket \in Buckets /\ req[r].tries \in 0 .. MaxRetries /\ req[r].tries < MaxRetries
    BY <1>7, Busy DEF Retry
  <2>2. req[r].tries + 1 \in 0 .. MaxRetries
    BY <2>1 DEF RedisAssumption
  <2>3. q \in Active
    BY <2>1, <2>2, NewTypes
  <2>4. req' = [req EXCEPT ![r] = q]
    BY <1>7 DEF Retry
  <2> HIDE DEF q
  <2>5. req' \in [Requests -> {Idle} \union Active]
    BY <2>3, <2>4, ReqTypes
  <2>6. broken' \subseteq Buckets
    BY <1>7, <2>1 DEF Retry, Break, RedisTypeOK
  <2> QED BY <1>7, <2>5, <2>6 DEF Retry, RedisTypeOK
<1> QED BY <1>1, <1>2, <1>3, <1>4, <1>5, <1>6, <1>7 DEF RedisNext
-----------------------------------------------------------------------------
(* Requests, buckets and keys *)

LEMMA BucketsAreNat ==
  ASSUME RedisAssumption, RedisTypeOK
  PROVE  Buckets \subseteq Nat /\ Bucket(clock) \in Buckets
BY ClockBuckets DEF Buckets, RedisTypeOK

\* No request works on a bucket that has not begun.
LEMMA NoneAhead ==
  ASSUME RedisAssumption, RedisIInv, [RedisNext]_redisVars
  PROVE  (\A r \in Requests : req[r].pc # "idle" => req[r].bucket <= Bucket(clock))'
<1>1. RedisTypeOK /\ Bucket(clock) \in Buckets /\ Buckets \subseteq Nat
      /\ \A r \in Requests : req[r].pc # "idle" => req[r].bucket <= Bucket(clock)
  BY BucketsAreNat DEF RedisIInv
<1>2. ASSUME req' = req PROVE \A r \in Requests : req'[r].pc # "idle" => req'[r].bucket <= Bucket(clock)
  BY <1>1, <1>2
<1>3. ASSUME NEW r \in Requests, NEW q \in {Idle} \union Active, req' = [req EXCEPT ![r] = q],
             q.pc # "idle" => q.bucket <= Bucket(clock)
      PROVE  \A o \in Requests : req'[o].pc # "idle" => req'[o].bucket <= Bucket(clock)
  BY <1>1, <1>3, ReqTypes
<1>4. CASE RedisTick
  <2>1. clock \in Nat /\ clock' = clock + 1 /\ clock + 1 \in Nat /\ req' = req
    BY <1>1, <1>4 DEF RedisTick, RedisTypeOK
  <2>2. Bucket(clock) <= Bucket(clock + 1) /\ Bucket(clock + 1) \in Nat /\ Bucket(clock)' = Bucket(clock + 1)
    BY <2>1, BucketGrows DEF Bucket
  <2> HIDE DEF Bucket
  <2>3. \A r \in Requests : req[r].pc # "idle" => req[r].bucket \in Nat
    BY <1>1, Busy
  <2>4. ASSUME NEW r \in Requests, req[r].pc # "idle" PROVE req[r].bucket <= Bucket(clock + 1)
    <3> DEFINE x == req[r].bucket
               y == Bucket(clock)
               z == Bucket(clock + 1)
    <3>1. x \in Nat /\ y \in Nat /\ z \in Nat /\ x <= y /\ y <= z
      BY <1>1, <2>2, <2>3, <2>4
    <3> HIDE DEF x, y, z
    <3>2. x <= z
      BY <3>1
    <3> QED BY <3>2 DEF x, z
  <2> QED BY <2>1, <2>2, <2>4
<1>5. ASSUME NEW r \in Requests, Arrive(r) \/ Incr(r) \/ Expire(r) \/ Fail(r) \/ Retry(r)
      PROVE  \A o \in Requests : req'[o].pc # "idle" => req'[o].bucket <= Bucket(clock)
  <2>1. CASE Arrive(r)
    <3>0. 0 \in 0 .. MaxRetries
      BY DEF RedisAssumption
    <3>1. Asking(Bucket(clock), 0) \in Active
      BY <1>1, <3>0, NewTypes
    <3>2. \A y \in Nat : Asking(y, 0).bucket <= y
      BY DEF Asking
    <3>3. Bucket(clock) \in Nat
      BY <1>1
    <3>5. Asking(Bucket(clock), 0).bucket <= Bucket(clock)
      BY <3>2, <3>3
    <3>4. req' = [req EXCEPT ![r] = Asking(Bucket(clock), 0)]
      BY <2>1 DEF Arrive
    <3> QED BY <1>3, <3>1, <3>4, <3>5
  <2>2. CASE Incr(r)
    <3> DEFINE q == Counted(req[r].bucket, req[r].tries, count[req[r].bucket] + 1)
    <3>1. req[r].bucket \in Buckets /\ req[r].tries \in 0 .. MaxRetries /\ req[r].pc = "incr"
      BY <1>1, <2>2, Busy DEF Incr
    <3>0. count \in [Buckets -> Nat]
      BY <1>1 DEF RedisTypeOK
    <3>2. count[req[r].bucket] + 1 \in Nat
      BY <3>0, <3>1
    <3>3. q \in Active
      BY <1>1, <3>1, <3>2, NewTypes
    <3>4. q.bucket = req[r].bucket /\ req' = [req EXCEPT ![r] = q]
      BY <2>2 DEF Incr, Counted
    <3> HIDE DEF q
    <3> QED BY <1>1, <1>3, <3>1, <3>3, <3>4
  <2>3. CASE Expire(r) \/ Fail(r)
    <3>1. req' = [req EXCEPT ![r] = Idle] /\ Idle.pc = "idle"
      BY <2>3 DEF Expire, Fail, Idle
    <3> QED BY <1>3, <3>1
  <2>4. CASE Retry(r)
    <3> DEFINE q == Asking(req[r].bucket, req[r].tries + 1)
    <3>1. /\ req[r].bucket \in Buckets /\ req[r].tries \in 0 .. MaxRetries /\ req[r].tries < MaxRetries
          /\ req[r].pc = "expire"
      BY <1>1, <2>4, Busy DEF Retry
    <3>2. req[r].tries + 1 \in 0 .. MaxRetries
      BY <3>1 DEF RedisAssumption
    <3>3. q \in Active
      BY <1>1, <3>1, <3>2, NewTypes
    <3>4. q.bucket = req[r].bucket /\ req' = [req EXCEPT ![r] = q]
      BY <2>4 DEF Retry, Asking
    <3> HIDE DEF q
    <3> QED BY <1>1, <1>3, <3>1, <3>3, <3>4
  <2> QED BY <1>5, <2>1, <2>2, <2>3, <2>4
<1>6. ASSUME NEW r \in Requests, Arrive(r) \/ Incr(r) \/ Expire(r) \/ Fail(r) \/ Retry(r)
      PROVE  clock' = clock
  BY <1>6 DEF Arrive, Incr, Expire, Fail, Retry
<1>7. CASE UNCHANGED redisVars
  BY <1>1, <1>7 DEF redisVars, Bucket
<1>8. ASSUME clock' = clock PROVE Bucket(clock)' = Bucket(clock)
  BY <1>8 DEF Bucket
<1>9. ASSUME NEW r \in Requests, Arrive(r) \/ Incr(r) \/ Expire(r) \/ Fail(r) \/ Retry(r)
      PROVE  (\A o \in Requests : req[o].pc # "idle" => req[o].bucket <= Bucket(clock))'
  BY <1>5, <1>6, <1>8, <1>9
<1> QED BY <1>4, <1>7, <1>9 DEF RedisNext

\* A failed pipeline, or one that waits for its EXPIRE, accounts for any key without a TTL.
LEMMA OrphanStep ==
  ASSUME RedisAssumption, RedisIInv, [RedisNext]_redisVars
  PROVE  NoOrphanCounter'
<1> SUFFICES ASSUME NEW b \in Buckets, count'[b] # 0, deadline'[b] = None
             PROVE  \/ \E r \in Requests : req'[r].pc = "expire" /\ req'[r].bucket = b
                    \/ b \in broken'
  BY DEF NoOrphanCounter, Buckets, Bucket
<1>1. RedisTypeOK
  BY DEF RedisIInv
<1>2. count[b] # 0 => \/ deadline[b] # None
                      \/ \E r \in Requests : req[r].pc = "expire" /\ req[r].bucket = b
                      \/ b \in broken
  BY DEF RedisIInv, NoOrphanCounter
<1>3. CASE UNCHANGED redisVars
  BY <1>2, <1>3 DEF redisVars
<1>4. CASE RedisTick
  <2>1. count[b] # 0 /\ deadline[b] = None
    BY <1>1, <1>4 DEF RedisTick, RedisTypeOK
  <2> QED BY <1>2, <1>4, <2>1 DEF RedisTick
<1>5. ASSUME NEW r \in Requests, Arrive(r) \/ Incr(r) \/ Expire(r) \/ Fail(r) \/ Retry(r)
      PROVE  \/ \E o \in Requests : req'[o].pc = "expire" /\ req'[o].bucket = b
             \/ b \in broken'
  <2>1. \A o \in Requests : o # r => req'[o] = req[o]
    BY <1>1, <1>5 DEF RedisTypeOK, Arrive, Incr, Expire, Fail, Retry
  <2>2. CASE Arrive(r)
    <3>1. req[r].pc # "expire" /\ count' = count /\ deadline' = deadline /\ broken' = broken
      BY <2>2 DEF Arrive, Idle
    <3> QED BY <1>2, <2>1, <3>1
  <2>3. CASE Incr(r)
    <3>1. req[r].bucket \in Buckets /\ req[r].pc = "incr"
      BY <1>1, <2>3, Busy DEF Incr
    <3>2. CASE req[r].bucket = b
      <4>1. req'[r].pc = "expire" /\ req'[r].bucket = b
        BY <1>1, <2>3, <3>2 DEF Incr, Counted, RedisTypeOK
      <4> QED BY <4>1
    <3>3. CASE req[r].bucket # b
      <4>1. count'[b] = count[b] /\ deadline' = deadline /\ broken' = broken
        BY <1>1, <2>3, <3>3 DEF Incr, RedisTypeOK
      <4> QED BY <1>2, <2>1, <3>1, <4>1
    <3> QED BY <3>2, <3>3
  <2>4. CASE Expire(r)
    <3>1. count' = count /\ broken' = broken /\ clock + RedisWindow \in Nat /\ None \notin Nat
      BY <1>1, <2>4 DEF Expire, RedisTypeOK, RedisAssumption
    <3>2. req[r].bucket # b /\ deadline[b] = None
      BY <1>1, <2>4, <3>1 DEF Expire, RedisTypeOK
    <3> QED BY <1>2, <2>1, <3>1, <3>2
  <2>5. CASE Fail(r) \/ Retry(r)
    <3>1. /\ count' = count /\ deadline' = deadline /\ broken \subseteq broken'
          /\ req[r].pc = "expire" => req[r].bucket \in broken'
      BY <2>5 DEF Fail, Retry, Break
    <3> QED BY <1>2, <2>1, <3>1
  <2> QED BY <1>5, <2>2, <2>3, <2>4, <2>5
<1> QED BY <1>3, <1>4, <1>5 DEF RedisNext
-----------------------------------------------------------------------------
(* What a counter admits *)

\* Steps that count nobody, and let the counter of b be while b lasts.
LEMMA Keeps ==
  ASSUME RedisAssumption, RedisTypeOK, RedisTypeOK', NEW b \in Buckets, BucketOK(b),
         Adm(b)' = Adm(b), Pend(b)' \subseteq Pend(b),
         Bucket(clock)' <= b => Bucket(clock) <= b /\ count'[b] >= count[b],
         deadline'[b] # None => Bucket(deadline'[b]) > b
  PROVE  BucketOK(b)'
<1> DEFINE old == Cardinality(Adm(b)) + Cardinality(Pend(b))
           new == Cardinality(Adm(b)') + Cardinality(Pend(b)')
<1>1. new <= old /\ new \in Nat /\ old \in Nat
  BY KeepsTotal, Sizes
<1>2. old <= RedisLimit /\ (Bucket(clock) <= b => old <= count[b])
  BY DEF BucketOK
<1>3. RedisLimit \in Nat /\ count[b] \in Nat /\ count'[b] \in Nat
  BY DEF RedisAssumption, RedisTypeOK, Buckets, Bucket
<1> HIDE DEF old, new
<1>4. new <= RedisLimit /\ (Bucket(clock)' <= b => new <= count'[b])
  BY <1>1, <1>2, <1>3
<1> QED BY <1>4 DEF BucketOK, new, Bucket

\* The request's own place passes from those who await admission to the admitted.
LEMMA ExpireOK ==
  ASSUME RedisAssumption, RedisIInv, RedisTypeOK', NEW r \in Requests, Expire(r), NEW b \in Buckets
  PROVE  BucketOK(b)'
<1>1. RedisTypeOK /\ BucketOK(b) /\ req[r].pc = "expire"
  BY DEF RedisIInv, Expire
<1>2. /\ req[r] \in Active /\ req[r].bucket \in Buckets /\ req[r].count \in Nat
      /\ req[r].bucket <= Bucket(clock)
  BY <1>1, Busy DEF RedisIInv
<1>3. Pend(b)' = Pend(b) \ {r}
  <2>1. req' = [req EXCEPT ![r] = Idle] /\ ~Awaiting(Idle, b)
    BY DEF Expire, Awaiting, Idle
  <2> QED BY <1>1, <2>1, PendSteps
<1>4. count' = count /\ clock' = clock /\ Bucket(clock)' = Bucket(clock)
  BY DEF Expire, Bucket
<1>5. deadline'[b] # None => Bucket(deadline'[b]) > b
  <2>1. clock \in Nat /\ RedisWindow \in Nat
    BY <1>1 DEF RedisTypeOK, RedisAssumption
  <2>2. Bucket(clock + RedisWindow) > Bucket(clock) /\ Bucket(clock) \in Nat /\ Bucket(clock + RedisWindow) \in Nat
    BY <2>1, NextBucket, BucketGrows
  <2>3. CASE deadline'[b] = deadline[b]
    BY <1>1, <2>3 DEF BucketOK
  <2>4. CASE b = req[r].bucket /\ deadline'[b] = clock + RedisWindow
    <3>1. b \in Nat
      BY <1>1, BucketsAreNat
    <3> QED BY <1>2, <2>2, <2>4, <3>1
  <2> QED BY <1>1, <1>2, <2>3, <2>4 DEF Expire, RedisTypeOK
<1>6. count'[b] \in Nat /\ count'[b] >= count[b]
  BY <1>1, <1>4 DEF RedisTypeOK
<1>7. CASE Awaiting(req[r], b)
  <2>1. Admit(req[r], TRUE) /\ Bucket(req[r].at) = req[r].bucket /\ req[r].bucket = b
    <3>1. req[r].count <= RedisLimit /\ RedisLimit \in Nat
      BY <1>7 DEF Awaiting, RedisAssumption
    <3>2. ~(req[r].count > RedisLimit)
      BY <1>2, <3>1
    <3> QED BY <1>7, <3>2 DEF Awaiting, Expire
  <2>2. Len(passed) + 1 \notin Adm(b) /\ Adm(b)' = Adm(b) \union {Len(passed) + 1}
    BY <1>1, <2>1, AdmSteps
  <2>3. r \in Pend(b)
    BY <1>7 DEF Pend
  <2>4. /\ IsFiniteSet(Adm(b)) /\ IsFiniteSet(Pend(b))
        /\ Cardinality(Adm(b)) \in Nat /\ Cardinality(Pend(b)) \in Nat
    BY <1>1, Sizes
  <2>5. Cardinality(Adm(b)') = Cardinality(Adm(b)) + 1
    BY <2>2, <2>4, FS_AddElement
  <2>6. Cardinality(Pend(b)') = Cardinality(Pend(b)) - 1
    BY <1>3, <2>3, <2>4, FS_RemoveElement
  <2>7. Cardinality(Adm(b)') + Cardinality(Pend(b)') = Cardinality(Adm(b)) + Cardinality(Pend(b))
    BY <2>4, <2>5, <2>6
  <2> QED BY <1>1, <1>4, <1>5, <2>7 DEF BucketOK
<1>8. CASE ~Awaiting(req[r], b)
  <2>1. Adm(b)' = Adm(b)
    <3>1. CASE Admit(req[r], TRUE) /\ req[r].count <= RedisLimit
      <4>1. ~(Bucket(req[r].at) = req[r].bucket /\ req[r].bucket = b)
        BY <1>1, <1>8, <3>1 DEF Awaiting
      <4> QED BY <1>1, <3>1, <4>1, AdmSteps
    <3>2. CASE passed' = passed
      BY <3>2 DEF Adm, OnTime, Bucket
    <3>3. req[r].count > RedisLimit \/ req[r].count <= RedisLimit
      BY <1>2 DEF RedisAssumption
    <3>4. IF req[r].count > RedisLimit THEN passed' = passed ELSE Admit(req[r], TRUE)
      BY DEF Expire
    <3> QED BY <3>1, <3>2, <3>3, <3>4, Zenon
  <2> QED BY <1>1, <1>3, <1>4, <1>5, <1>6, <2>1, Keeps
<1> QED BY <1>7, <1>8

\* The counter grows with the request, which is on time only while its bucket lasts.
LEMMA IncrOK ==
  ASSUME RedisAssumption, RedisIInv, RedisTypeOK', NEW r \in Requests, Incr(r), NEW b \in Buckets
  PROVE  BucketOK(b)'
<1> DEFINE q == Counted(req[r].bucket, req[r].tries, count[req[r].bucket] + 1)
<1>1. RedisTypeOK /\ BucketOK(b) /\ req[r].pc = "incr" /\ req' = [req EXCEPT ![r] = q]
  BY DEF RedisIInv, Incr
<1>2. req[r].bucket \in Buckets
  BY <1>1, Busy
<1>3. q.pc = "expire" /\ q.bucket = req[r].bucket /\ q.at = clock /\ q.count = count[req[r].bucket] + 1
  BY DEF Counted
<1> HIDE DEF q
<1>4. /\ Bucket(clock)' = Bucket(clock) /\ deadline' = deadline /\ passed' = passed
  BY DEF Incr, Bucket
<1>5. Adm(b)' = Adm(b)
  BY <1>4 DEF Adm, OnTime, Bucket
<1>6. count[b] \in Nat /\ count'[b] = IF b = req[r].bucket THEN count[b] + 1 ELSE count[b]
  BY <1>1, <1>2 DEF Incr, RedisTypeOK
<1>7. r \notin Pend(b)
  BY <1>1 DEF Pend, Awaiting
<1>8. deadline'[b] # None => Bucket(deadline'[b]) > b
  BY <1>1, <1>4 DEF BucketOK
<1>9. CASE Awaiting(q, b)
  <2>1. Pend(b)' = Pend(b) \union {r}
    BY <1>1, <1>9, PendSteps
  <2>2. /\ IsFiniteSet(Adm(b)) /\ IsFiniteSet(Pend(b))
        /\ Cardinality(Adm(b)) \in Nat /\ Cardinality(Pend(b)) \in Nat
    BY <1>1, Sizes
  <2>3. Cardinality(Pend(b)') = Cardinality(Pend(b)) + 1
    BY <1>7, <2>1, <2>2, FS_AddElement
  <2>4. b = req[r].bucket /\ Bucket(clock) = b /\ count[b] + 1 <= RedisLimit
    BY <1>3, <1>9 DEF Awaiting
  <2>5. b \in Nat /\ RedisLimit \in Nat
    BY <1>1, BucketsAreNat DEF RedisAssumption
  <2>6. Cardinality(Adm(b)) + Cardinality(Pend(b)) <= count[b]
    BY <1>1, <2>4, <2>5 DEF BucketOK
  <2>7. /\ Cardinality(Adm(b)') + Cardinality(Pend(b)') <= RedisLimit
        /\ Cardinality(Adm(b)') + Cardinality(Pend(b)') <= count'[b]
    BY <1>5, <1>6, <2>2, <2>3, <2>4, <2>5, <2>6
  <2> QED BY <1>8, <2>7 DEF BucketOK
<1>10. CASE ~Awaiting(q, b)
  <2>1. Pend(b)' \subseteq Pend(b)
    BY <1>1, <1>10, PendSteps
  <2>2. count'[b] >= count[b]
    BY <1>6
  <2>3. Bucket(clock)' <= b => Bucket(clock) <= b
    BY <1>4
  <2> QED BY <1>1, <1>5, <1>8, <2>1, <2>2, <2>3, Keeps
<1> QED BY <1>9, <1>10

\* A request that leaves its place is admitted on nobody's count, or counted again.
LEMMA LeaveOK ==
  ASSUME RedisAssumption, RedisIInv, RedisTypeOK', NEW r \in Requests,
         Arrive(r) \/ Fail(r) \/ Retry(r), NEW b \in Buckets
  PROVE  BucketOK(b)'
<1>1. RedisTypeOK /\ BucketOK(b)
  BY DEF RedisIInv
<1>2. /\ Bucket(clock)' = Bucket(clock) /\ deadline' = deadline /\ count' = count /\ clock' = clock
  BY DEF Arrive, Fail, Retry, Bucket
<1>3. Pend(b)' \subseteq Pend(b)
  <2>1. CASE Arrive(r)
    <3> DEFINE q == Asking(Bucket(clock), 0)
    <3>1. req' = [req EXCEPT ![r] = q] /\ ~Awaiting(q, b)
      BY <2>1 DEF Arrive, Asking, Awaiting
    <3> HIDE DEF q
    <3> QED BY <1>1, <3>1, PendSteps
  <2>2. CASE Fail(r)
    <3>1. req' = [req EXCEPT ![r] = Idle] /\ ~Awaiting(Idle, b)
      BY <2>2 DEF Fail, Idle, Awaiting
    <3> QED BY <1>1, <3>1, PendSteps
  <2>3. CASE Retry(r)
    <3> DEFINE q == Asking(req[r].bucket, req[r].tries + 1)
    <3>1. req' = [req EXCEPT ![r] = q] /\ ~Awaiting(q, b)
      BY <2>3 DEF Retry, Asking, Awaiting
    <3> HIDE DEF q
    <3> QED BY <1>1, <3>1, PendSteps
  <2> QED BY <2>1, <2>2, <2>3
<1>4. Adm(b)' = Adm(b)
  <2>1. CASE passed' = passed
    BY <2>1 DEF Adm, OnTime, Bucket
  <2>2. CASE Admit(req[r], FALSE)
    BY <1>1, <2>2, AdmSteps
  <2> QED BY <2>1, <2>2 DEF Arrive, Fail, Retry
<1>5. deadline'[b] # None => Bucket(deadline'[b]) > b
  BY <1>1, <1>2 DEF BucketOK
<1>6. count'[b] >= count[b]
  BY <1>1, <1>2 DEF RedisTypeOK
<1> QED BY <1>1, <1>2, <1>3, <1>4, <1>5, <1>6, Keeps

\* A key goes only when its bucket is over.
LEMMA RedisTickOK ==
  ASSUME RedisAssumption, RedisIInv, RedisTypeOK', RedisTick, NEW b \in Buckets
  PROVE  BucketOK(b)'
<1>1. RedisTypeOK /\ BucketOK(b) /\ clock \in Nat /\ clock + 1 \in Nat /\ clock' = clock + 1 /\ b \in Nat
  BY BucketsAreNat DEF RedisIInv, RedisTick, RedisTypeOK
<1>2. Bucket(clock) \in Nat /\ Bucket(clock + 1) \in Nat /\ Bucket(clock) <= Bucket(clock + 1)
      /\ Bucket(clock)' = Bucket(clock + 1)
  BY <1>1, BucketGrows DEF Bucket
<1>3. Adm(b)' = Adm(b) /\ Pend(b)' = Pend(b)
  BY DEF RedisTick, Adm, Pend, OnTime, Awaiting, Bucket
<1>4. /\ deadline'[b] \in {deadline[b], None}
      /\ deadline[b] = None \/ deadline[b] > clock + 1 => count'[b] = count[b]
      /\ deadline[b] \in Nat \union {None} /\ count[b] \in Nat
  BY <1>1 DEF RedisTick, RedisTypeOK
<1>5. Bucket(clock + 1) <= b => count'[b] = count[b]
  <2> SUFFICES ASSUME Bucket(clock + 1) <= b, deadline[b] # None, deadline[b] <= clock + 1
               PROVE  FALSE
    BY <1>1, <1>4
  <2>1. deadline[b] \in Nat
    BY <1>4
  <2>2. Bucket(deadline[b]) \in Nat /\ Bucket(deadline[b]) <= Bucket(clock + 1)
    BY <1>1, <2>1, BucketGrows
  <2>3. Bucket(deadline[b]) > b
    BY <1>1 DEF BucketOK
  <2> QED BY <1>1, <1>2, <2>2, <2>3
<1>6. deadline'[b] # None => Bucket(deadline'[b]) > b
  BY <1>1, <1>4 DEF BucketOK
<1>7. Bucket(clock)' <= b => Bucket(clock) <= b /\ count'[b] >= count[b]
  BY <1>1, <1>2, <1>4, <1>5
<1> QED BY <1>1, <1>3, <1>6, <1>7, Keeps
-----------------------------------------------------------------------------
(* The theorems *)

LEMMA RedisInvInit == ASSUME RedisAssumption, RedisInit PROVE RedisIInv
<1>1. RedisTypeOK
  BY DEF RedisInit, RedisTypeOK, RedisAssumption
<1>2. \A b \in Buckets : BucketOK(b)
  <2> TAKE b \in Buckets
  <2>1. Adm(b) = {} /\ Pend(b) = {} /\ count[b] = 0 /\ deadline[b] = None
    BY DEF RedisInit, Adm, Pend, Awaiting, Idle
  <2>2. Cardinality(Adm(b)) = 0 /\ Cardinality(Pend(b)) = 0
    BY <2>1, FS_EmptySet
  <2> QED BY <2>1, <2>2 DEF BucketOK, RedisAssumption
<1>3. NoOrphanCounter
  BY DEF RedisInit, NoOrphanCounter
<1>4. \A r \in Requests : req[r].pc = "idle"
  BY DEF RedisInit, Idle
<1> QED BY <1>1, <1>2, <1>3, <1>4 DEF RedisIInv

LEMMA RedisInvNext == ASSUME RedisAssumption, RedisIInv, [RedisNext]_redisVars PROVE RedisIInv'
<1>1. RedisTypeOK /\ RedisTypeOK'
  BY TypeStep DEF RedisIInv
<1>2. ASSUME NEW b \in Buckets PROVE BucketOK(b)'
  <2>1. CASE UNCHANGED redisVars
    <3>1. Adm(b)' = Adm(b) /\ Pend(b)' = Pend(b)
      BY <2>1 DEF redisVars, Adm, Pend, OnTime, Awaiting, Bucket
    <3> QED BY <2>1, <3>1 DEF redisVars, RedisIInv, BucketOK, Bucket
  <2>2. CASE RedisTick
    BY <1>1, <2>2, RedisTickOK
  <2>3. ASSUME NEW r \in Requests, Arrive(r) \/ Incr(r) \/ Expire(r) \/ Fail(r) \/ Retry(r)
        PROVE  BucketOK(b)'
    BY <1>1, <2>3, IncrOK, ExpireOK, LeaveOK
  <2> QED BY <2>1, <2>2, <2>3 DEF RedisNext
<1>3. Buckets' = Buckets
  BY DEF Buckets, Bucket
<1> QED BY <1>1, <1>2, <1>3, NoneAhead, OrphanStep DEF RedisIInv

LEMMA RedisInvariance == ASSUME RedisAssumption PROVE RedisSpec => []RedisIInv
BY RedisInvInit, RedisInvNext, PTL DEF RedisSpec

\* Types, for any number of servers, requests and retries.
THEOREM RedisTypeCorrect == ASSUME RedisAssumption PROVE RedisSpec => []RedisTypeOK
<1>1. RedisIInv => RedisTypeOK
  BY DEF RedisIInv
<1> QED BY <1>1, RedisInvariance, PTL

\* No more than Limit requests pass on a window's counter while the window lasts: INCR
\* counts every request, and EXPIRE never lets the key go before the window is over.
THEOREM RedisLimitHolds == ASSUME RedisAssumption PROVE RedisSpec => []BucketLimit
<1>1. RedisIInv => BucketLimit
  <2> SUFFICES ASSUME RedisIInv, NEW b \in Buckets PROVE Cardinality(Adm(b)) <= RedisLimit
    BY DEF BucketLimit, Adm
  <2>1. Cardinality(Adm(b)) \in Nat /\ Cardinality(Pend(b)) \in Nat
    BY Sizes DEF RedisIInv
  <2>2. Cardinality(Adm(b)) + Cardinality(Pend(b)) <= RedisLimit /\ RedisLimit \in Nat
    BY DEF RedisIInv, BucketOK, RedisAssumption
  <2> QED BY <2>1, <2>2
<1> QED BY <1>1, RedisInvariance, PTL

\* Only a pipeline that failed half way leaves a counter that Redis never drops.
THEOREM CountersEnd == ASSUME RedisAssumption PROVE RedisSpec => []NoOrphanCounter
<1>1. RedisIInv => NoOrphanCounter
  BY DEF RedisIInv
<1> QED BY <1>1, RedisInvariance, PTL
=============================================================================
