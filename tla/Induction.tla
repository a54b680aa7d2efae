------------------------------ MODULE Induction ------------------------------
(***************************************************************************)
(* Induction over numbers, and what it gives: recursive functions are what *)
(* their equations say, and lists are sorted by counting.  The provers do  *)
(* not instantiate theorems about operators, so that these are stated with *)
(* sets and functions.                                                     *)
(***************************************************************************)
EXTENDS Integers, Sequences, FiniteSetsExt, FiniteSetTheorems, WellFoundedInduction, TLAPS

\* Every set of numbers has a least one: descending chains of finite intervals end.
LEMMA LeastElement ==
  ASSUME NEW S \in SUBSET Nat, S # {}
  PROVE  \E x \in S : \A y \in S : x <= y
<1> PICK n \in S : TRUE
  OBVIOUS
<1> DEFINE R == StrictSubsetOrdering(0 .. n)
           C == {0 .. x : x \in {y \in S : y <= n}}
<1>1. IsWellFoundedOn(R, SUBSET (0 .. n))
  <2>1. IsFiniteSet(0 .. n)
    BY FS_Interval
  <2>2. FiniteSubsetsOf(0 .. n) = SUBSET (0 .. n)
    BY <2>1, FS_FiniteSubsetsOfFinite
  <2>3. IsWellFoundedOn(R, FiniteSubsetsOf(0 .. n))
    BY FS_StrictSubsetOrderingWellFounded
  <2> QED
    BY <2>2, <2>3
<1>2. C \subseteq SUBSET (0 .. n) /\ 0 .. n \in C
  OBVIOUS
<1>3. \E t \in C : \A u \in C : ~ (<<u, t>> \in R)
  <2> HIDE DEF R, C
  <2> QED
    BY <1>1, <1>2, WFMin
<1>4. PICK x \in S : x <= n /\ \A u \in C : ~ (<<u, 0 .. x>> \in R)
  BY <1>3
<1>5. ASSUME NEW y \in S, y < x PROVE FALSE
  <2>1. 0 .. y \in C /\ 0 .. y \subseteq 0 .. x /\ 0 .. x \subseteq 0 .. n
        /\ x \in 0 .. x /\ x \notin 0 .. y
    BY <1>4, <1>5
  <2> QED
    BY <2>1, <1>4 DEF StrictSubsetOrdering
<1> QED
  BY <1>5

\* What the community's Max chooses.
LEMMA Greatest ==
  ASSUME NEW N \in Nat, NEW S \in SUBSET (1 .. N), S # {}
  PROVE  Max(S) \in S /\ \A i \in S : i <= Max(S)
<1> DEFINE D == {N - i : i \in S}
<1>1. D \in SUBSET Nat /\ D # {}
  <2>1. \A i \in 1 .. N : N - i \in Nat
    OBVIOUS
  <2>2. \A i \in S : N - i \in Nat
    BY <2>1
  <2> QED
    BY <2>2
<1>2. PICK d \in D : \A e \in D : d <= e
  BY <1>1, LeastElement
<1>3. PICK x \in S : d = N - x
  BY <1>2
<1>4. \A y \in S : x >= y
  <2> SUFFICES ASSUME NEW y \in S PROVE x >= y
    OBVIOUS
  <2>1. N - y \in D /\ x \in Nat /\ y \in Nat
    OBVIOUS
  <2>2. N - x <= N - y
    BY <1>2, <1>3, <2>1
  <2> QED
    BY <2>1, <2>2
<1>5. Max(S) \in S /\ \A y \in S : Max(S) >= y
  BY <1>4 DEF Max
<1>6. \A y \in S : y \in Int
  OBVIOUS
<1> QED
  BY <1>5, <1>6

\* Induction over the numbers, for sets.
LEMMA NatSetInduction ==
  ASSUME NEW T, 0 \in T, \A n \in Nat : n \in T => n + 1 \in T
  PROVE  Nat \subseteq T
<1> SUFFICES ASSUME Nat \ T # {} PROVE FALSE
  OBVIOUS
<1>1. PICK x \in Nat \ T : \A y \in Nat \ T : x <= y
  BY LeastElement
<1>2. x # 0 /\ x - 1 \in Nat /\ x - 1 \notin Nat \ T
  BY <1>1
<1> QED
  BY <1>2

\* 1 .. n is a finite set of n numbers.
LEMMA IntervalSize ==
  \A n \in Nat : IsFiniteSet(1 .. n) /\ Cardinality(1 .. n) = n /\ 1 .. n \subseteq Nat
<1> SUFFICES ASSUME NEW n \in Nat
             PROVE  IsFiniteSet(1 .. n) /\ Cardinality(1 .. n) = n /\ 1 .. n \subseteq Nat
  OBVIOUS
<1>1. IsFiniteSet(1 .. n) /\ Cardinality(1 .. n) = IF 1 > n THEN 0 ELSE n - 1 + 1
  BY FS_Interval
<1> QED
  BY <1>1

\* The same from 0 up to a bound.
LEMMA IntervalInduction ==
  ASSUME NEW N \in Nat, NEW T, 0 \in T, \A n \in 1 .. N : n - 1 \in T => n \in T
  PROVE  0 .. N \subseteq T
<1> DEFINE U == {n \in Nat : n <= N => n \in T}
<1>1. 0 \in U
  OBVIOUS
<1>2. ASSUME NEW n \in Nat, n \in U PROVE n + 1 \in U
  <2> SUFFICES ASSUME n + 1 <= N PROVE n + 1 \in T
    OBVIOUS
  <2>1. n + 1 \in 1 .. N /\ (n + 1) - 1 = n /\ n \in T
    BY <1>2
  <2> QED
    BY <2>1
<1> HIDE DEF U
<1>3. Nat \subseteq U
  BY <1>1, <1>2, NatSetInduction
<1> QED
  BY <1>3 DEF U

\* f is what the recursion computes that starts with init and goes on with step.
Steps(N, S) == [(1 .. N) \X S -> S]
Computes(f, N, S, init, step) ==
  f \in [0 .. N -> S] /\ f[0] = init /\ \A n \in 1 .. N : f[n] = step[<<n, f[n - 1]>>]

\* There is such a function, so that whatever is chosen to satisfy the equation does.
LEMMA Recursion ==
  ASSUME NEW N \in Nat, NEW S, NEW init \in S, NEW step \in Steps(N, S)
  PROVE  \E f : Computes(f, N, S, init, step)
<1> USE DEF Steps, Computes
<1> DEFINE Good(n, f) == f[0] = init /\ \A m \in 1 .. n : f[m] = step[<<m, f[m - 1]>>]
           T == {n \in Nat : \E f \in [0 .. n -> S] : Good(n, f)}
<1>1. 0 \in T
  <2>1. [m \in 0 .. 0 |-> init] \in [0 .. 0 -> S] /\ Good(0, [m \in 0 .. 0 |-> init])
    OBVIOUS
  <2> QED
    BY <2>1
<1>2. ASSUME NEW n \in 1 .. N, n - 1 \in T PROVE n \in T
  <2>1. PICK f \in [0 .. n - 1 -> S] : Good(n - 1, f)
    BY <1>2
  <2> DEFINE g == [m \in 0 .. n |-> IF m = n THEN step[<<n, f[n - 1]>>] ELSE f[m]]
  <2>2. step[<<n, f[n - 1]>>] \in S
    OBVIOUS
  <2>3. g \in [0 .. n -> S] /\ g[0] = init /\ g[n] = step[<<n, f[n - 1]>>]
        /\ \A m \in 0 .. n - 1 : g[m] = f[m]
    BY <2>1, <2>2
  <2> HIDE DEF g
  <2>4. ASSUME NEW m \in 1 .. n PROVE g[m] = step[<<m, g[m - 1]>>]
    <3>1. m - 1 \in 0 .. n - 1 /\ g[m - 1] = f[m - 1]
      BY <2>3
    <3>2. CASE m = n
      BY <2>3, <3>1, <3>2
    <3>3. CASE m # n
      <4>1. m \in 1 .. n - 1
        BY <3>3
      <4> QED
        BY <2>1, <2>3, <3>1, <4>1
    <3> QED
      BY <3>2, <3>3
  <2> QED
    BY <2>3, <2>4
<1> HIDE DEF T
<1>3. 0 .. N \subseteq T
  BY <1>1, <1>2, IntervalInduction
<1> QED
  BY <1>3 DEF T

\* And there is no other one.
LEMMA Unique ==
  ASSUME NEW N \in Nat, NEW S, NEW init \in S, NEW step \in Steps(N, S), NEW f, NEW h,
         Computes(f, N, S, init, step), h = [n \in 0 .. N |-> h[n]], h[0] = init,
         \A n \in 1 .. N : h[n - 1] \in S => h[n] = step[<<n, h[n - 1]>>]
  PROVE  h = f
<1> DEFINE T == {n \in 0 .. N : h[n] = f[n]}
<1>1. /\ f \in [0 .. N -> S] /\ f[0] = init
      /\ \A n \in 1 .. N : f[n] = step[<<n, f[n - 1]>>]
  BY DEF Computes
<1>2. 0 \in T
  BY <1>1
<1>3. ASSUME NEW n \in 1 .. N, n - 1 \in T PROVE n \in T
  <2>1. h[n - 1] = f[n - 1] /\ n - 1 \in 0 .. N
    BY <1>3
  <2>2. h[n - 1] \in S
    BY <1>1, <2>1
  <2>3. h[n] = step[<<n, f[n - 1]>>]
    BY <2>1, <2>2
  <2>4. f[n] = step[<<n, f[n - 1]>>]
    BY <1>1
  <2> QED
    BY <2>3, <2>4
<1> HIDE DEF T
<1>4. 0 .. N \subseteq T
  BY <1>2, <1>3, IntervalInduction
<1>5. \A n \in 0 .. N : h[n] = f[n]
  BY <1>4 DEF T
<1> QED
  BY <1>1, <1>5

\* Counting those before it gives every element of a finite set a place of its own, if any
\* two are in order; and no place is empty.
IsOrder(before, S) ==
  /\ before \in SUBSET (S \X S)
  /\ \A i \in S : <<i, i>> \notin before
  /\ \A i, j, k \in S : <<i, j>> \in before /\ <<j, k>> \in before => <<i, k>> \in before
  /\ \A i, j \in S : i = j \/ <<i, j>> \in before \/ <<j, i>> \in before

Place(before, S, i) == Cardinality({j \in S : <<j, i>> \in before})

\* The number of elements before it is the place of an element, one for each place.
LEMMA Places ==
  ASSUME NEW S, IsFiniteSet(S), NEW before, IsOrder(before, S)
  PROVE  /\ Cardinality(S) \in Nat
         /\ \A i \in S : Place(before, S, i) \in Nat /\ Place(before, S, i) + 1 \in 1 .. Cardinality(S)
         /\ \A i, j \in S : Place(before, S, i) = Place(before, S, j) => i = j
         /\ \A n \in 1 .. Cardinality(S) : \E i \in S : Place(before, S, i) = n - 1
<1> USE DEF IsOrder, Place
<1> DEFINE B(i) == {j \in S : <<j, i>> \in before}
           place(i) == Cardinality(B(i))
           N == Cardinality(S)
<1>1. N \in Nat
  BY FS_CardinalityType
<1>2. \A i \in S : IsFiniteSet(B(i)) /\ place(i) \in Nat
  <2> SUFFICES ASSUME NEW i \in S PROVE IsFiniteSet(B(i)) /\ place(i) \in Nat
    OBVIOUS
  <2>1. B(i) \subseteq S
    OBVIOUS
  <2>2. IsFiniteSet(B(i))
    BY <2>1, FS_Subset
  <2> QED
    BY <2>2, FS_CardinalityType
<1>3. ASSUME NEW i \in S, NEW j \in S, <<i, j>> \in before PROVE place(i) # place(j)
  <2>1. B(i) \subseteq B(j) /\ i \in B(j) /\ i \notin B(i)
    BY <1>3
  <2>2. B(i) # B(j)
    BY <2>1
  <2> HIDE DEF B
  <2> QED
    BY <1>2, <2>1, <2>2, FS_Subset
<1>4. \A i, j \in S : place(i) = place(j) => i = j
  <2> HIDE DEF B
  <2> QED
    BY <1>3
<1>5. ASSUME NEW i \in S PROVE place(i) + 1 \in 1 .. N
  <2>1. B(i) \subseteq S /\ B(i) # S
    OBVIOUS
  <2> HIDE DEF B
  <2>2. place(i) <= N /\ place(i) # N
    BY <2>1, FS_Subset
  <2> HIDE DEF N, place
  <2> QED
    BY <1>1, <1>2, <2>2
<1> DEFINE p == [i \in S |-> place(i) + 1]
<1>6. p \in Injection(S, 1 .. N)
  <2> HIDE DEF B, N, place
  <2>1. p \in [S -> 1 .. N]
    BY <1>5
  <2>2. ASSUME NEW i \in S, NEW j \in S, p[i] = p[j] PROVE i = j
    <3>1. place(i) = place(j)
      BY <1>2, <2>2
    <3> QED
      BY <1>4, <3>1
  <2> HIDE DEF p
  <2> QED
    BY <2>1, <2>2 DEF Injection, IsInjective
<1>7. IsFiniteSet(1 .. N) /\ Cardinality(1 .. N) = N
  BY <1>1, FS_Interval
<1>8. p \in Surjection(S, 1 .. N)
  <2> HIDE DEF p
  <2> QED
    BY <1>6, <1>7, FS_Injection
<1>9. \A n \in 1 .. N : \E i \in S : place(i) = n - 1
  <2> HIDE DEF B, N, place
  <2> SUFFICES ASSUME NEW n \in 1 .. N PROVE \E i \in S : place(i) = n - 1
    OBVIOUS
  <2>1. PICK i \in S : p[i] = n
    BY <1>8 DEF Surjection
  <2> QED
    BY <1>1, <1>2, <2>1
<1> QED
  BY <1>1, <1>2, <1>4, <1>5, <1>9
=============================================================================
