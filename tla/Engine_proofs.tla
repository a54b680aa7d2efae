---------------------------- MODULE Engine_proofs ----------------------------
(***************************************************************************)
(* The policy engine, for any inputs, policies and rules.                  *)
(***************************************************************************)
EXTENDS PolicyEngine, Induction

(* Types *)

\* STRING; the provers are told of the strings the engine itself writes.
Word == STRING \union {"allow", "challenge", "block"}

Result == [risk : Int, verdict : Word]

\* Severities are numbers; that their order is one is stated here once for all.
LEMMA Severe ==
  /\ \A v : Severity(v) \in Nat
  /\ \A v, w : Severity(v) <= Severity(w) \/ Severity(w) < Severity(v)
  /\ \A v, w : Severity(v) > Severity(w) <=> Severity(w) < Severity(v)
  /\ \A v, w : Severity(v) < Severity(w) => Severity(v) <= Severity(w)
  /\ \A v : Severity(v) <= Severity(v)
  /\ \A v, w, x : Severity(v) <= Severity(w) /\ Severity(w) <= Severity(x)
                   => Severity(v) <= Severity(x)
<1>1. \A v : Severity(v) \in Nat
  BY DEF Severity, Severities
<1> QED
  BY <1>1

\* What meeting a demand does, and a demand that is not there.
Raised(q, r, score, v) ==
  /\ q \in Result /\ q.risk = r.risk + score
  /\ Severity(r.verdict) <= Severity(q.verdict)
  /\ Severity(v) <= Severity(q.verdict)
  /\ q.verdict = r.verdict \/ q.verdict = v

\* A demand that is there is met: the score is added, and the verdict no milder.
LEMMA Met ==
  ASSUME NEW r \in Result, NEW score \in Int, NEW v \in Word, NEW there, there
  PROVE  Raised(Meet(r, Demand(there, score, v)), r, score, v)
<1> DEFINE q == Meet(r, Demand(there, score, v))
<1>1. r.risk \in Int /\ r.verdict \in Word
  BY DEF Result
<1>2. q = IF Severity(v) > Severity(r.verdict) THEN [risk |-> r.risk + score, verdict |-> v]
          ELSE [risk |-> r.risk + score, verdict |-> r.verdict]
  BY DEF Meet, Demand, Escalate, AddRisk
<1> HIDE DEF q
<1>3. CASE Severity(v) > Severity(r.verdict)
  <2>1. q.risk = r.risk + score /\ q.verdict = v /\ q \in Result
    BY <1>1, <1>2, <1>3 DEF Result
  <2>2. Severity(r.verdict) <= Severity(q.verdict) /\ Severity(v) <= Severity(q.verdict)
    BY <1>3, <2>1, Severe
  <2> QED
    BY <2>1, <2>2 DEF q, Raised
<1>4. CASE ~ (Severity(v) > Severity(r.verdict))
  <2>1. q.risk = r.risk + score /\ q.verdict = r.verdict /\ q \in Result
    BY <1>1, <1>2, <1>4 DEF Result
  <2>2. Severity(r.verdict) <= Severity(q.verdict) /\ Severity(v) <= Severity(q.verdict)
    BY <1>4, <2>1, Severe
  <2> QED
    BY <2>1, <2>2 DEF q, Raised
<1> QED
  BY <1>3, <1>4

\* A demand that is not there changes nothing.
LEMMA Unmet ==
  ASSUME NEW r, NEW score, NEW v, NEW there, ~there
  PROVE  Meet(r, Demand(there, score, v)) = r
BY DEF Meet, Demand

\* Either way a result comes out.
LEMMA MeetType ==
  ASSUME NEW r \in Result, NEW there, NEW score \in Int, NEW v \in Word
  PROVE  Meet(r, Demand(there, score, v)) \in Result
BY Met, Unmet DEF Raised

-----------------------------------------------------------------------------
(* Lists by priority *)

\* s has what is at the positions S of the list, and nothing else.
Holds(s, list, S, X) ==
  /\ s \in Seq(X) /\ Len(s) = Cardinality(S) /\ DOMAIN s = 1 .. Len(s)
  /\ \A n \in 1 .. Len(s) : \E i \in S : s[n] = list[i]
  /\ \A i \in S : \E n \in 1 .. Len(s) : s[n] = list[i]

\* Sorting by priority, whatever becomes of equals, keeps what there is.
LEMMA Sorting ==
  ASSUME NEW X, NEW list \in Seq(X), \A x \in X : x.priority \in Int,
         NEW S \in SUBSET (DOMAIN list)
  PROVE  Holds(ByPriority(list, S), list, S, X)
<1> DEFINE N == Cardinality(S)
           before == {e \in S \X S : Before(list, e[1], e[2])}
           place(i) == Place(before, S, i)
<1>1. IsFiniteSet(S) /\ S \subseteq Nat
  <2>1. DOMAIN list = 1 .. Len(list) /\ Len(list) \in Nat
    OBVIOUS
  <2>2. IsFiniteSet(DOMAIN list) /\ DOMAIN list \subseteq Nat
    BY <2>1, IntervalSize
  <2> QED
    BY <2>2, FS_Subset
<1>2. \A i \in S : list[i] \in X /\ list[i].priority \in Int /\ i \in Nat
  BY <1>1
<1>3. \A i, j \in S : <<i, j>> \in before <=> Before(list, i, j)
  OBVIOUS
<1>4. before \in SUBSET (S \X S)
  OBVIOUS
<1>5. IsOrder(before, S)
  <2> HIDE DEF before
  <2> QED
    BY <1>2, <1>3, <1>4 DEF Before, IsOrder
<1>6. /\ N \in Nat
      /\ \A i \in S : place(i) \in Nat /\ place(i) + 1 \in 1 .. N
      /\ \A i, j \in S : place(i) = place(j) => i = j
      /\ \A n \in 1 .. N : \E i \in S : place(i) = n - 1
  <2> HIDE DEF before
  <2> QED
    BY <1>1, <1>5, Places
<1>7. ByPriority(list, S) = [n \in 1 .. N |-> list[CHOOSE i \in S : place(i) = n - 1]]
  <2>1. \A i \in S : Cardinality({j \in S : Before(list, j, i)}) = place(i)
    <3> SUFFICES ASSUME NEW i \in S PROVE Cardinality({j \in S : Before(list, j, i)}) = place(i)
      OBVIOUS
    <3>1. {j \in S : Before(list, j, i)} = {j \in S : <<j, i>> \in before}
      OBVIOUS
    <3> QED
      BY <3>1 DEF Place
  <2> DEFINE first(n) == CHOOSE i \in S : Cardinality({j \in S : Before(list, j, i)}) = n - 1
             second(n) == CHOOSE i \in S : place(i) = n - 1
  <2>2. ByPriority(list, S) = [n \in 1 .. N |-> list[first(n)]]
    BY DEF ByPriority
  <2>3. \A n : first(n) = second(n)
    <3> HIDE DEF place
    <3> QED
      BY <2>1
  <2> HIDE DEF first, second
  <2>4. ByPriority(list, S) = [n \in 1 .. N |-> list[second(n)]]
    BY <2>2, <2>3
  <2> QED
    BY <2>4 DEF second
<1> DEFINE at(n) == CHOOSE i \in S : place(i) = n - 1
           s == [n \in 1 .. N |-> list[at(n)]]
<1> HIDE DEF place, N
<1>8. \A n \in 1 .. N : at(n) \in S /\ place(at(n)) = n - 1
  BY <1>6
<1>9. \A i \in S : at(place(i) + 1) = i
  <2> SUFFICES ASSUME NEW i \in S PROVE at(place(i) + 1) = i
    OBVIOUS
  <2>1. place(at(place(i) + 1)) = (place(i) + 1) - 1 /\ at(place(i) + 1) \in S
    BY <1>6, <1>8
  <2>2. place(at(place(i) + 1)) = place(i)
    BY <2>1, <1>6
  <2> QED
    BY <2>1, <2>2, <1>6
<1> HIDE DEF at
<1>10. s \in Seq(X) /\ Len(s) = N /\ DOMAIN s = 1 .. N
  <2>1. s \in [1 .. N -> X]
    BY <1>2, <1>8
  <2> QED
    BY <2>1, <1>6
<1>11. \A n \in 1 .. N : s[n] = list[at(n)]
  OBVIOUS
<1> HIDE DEF s
<1>12. \A i \in S : s[place(i) + 1] = list[i] /\ place(i) + 1 \in 1 .. N
  BY <1>6, <1>9, <1>11
<1>13. ByPriority(list, S) = s
  BY <1>7 DEF s, at
<1>14. Holds(s, list, S, X)
  BY <1>8, <1>10, <1>11, <1>12 DEF Holds, N
<1> QED
  BY <1>13, <1>14
-----------------------------------------------------------------------------
(* Rules one after the other *)

\* The sorted rules of a policy are its rules.
LEMMA RulesSorted ==
  ASSUME NEW p \in Policy
  PROVE  /\ Len(p.rules) \in Nat
         /\ \A n \in 1 .. Len(p.rules) : SortedRules(p)[n] \in Rule /\ SortedRules(p)[n] \in Range(p.rules)
         /\ \A rule \in Range(p.rules) : \E n \in 1 .. Len(p.rules) : SortedRules(p)[n] = rule
<1> DEFINE N == Len(p.rules)
           rules == SortedRules(p)
<1>1. p.rules \in Seq(Rule) /\ \A x \in Rule : x.priority \in Int
  BY DEF Policy, Rule
<1>2. DOMAIN p.rules = 1 .. N /\ N \in Nat
  BY <1>1
<1>3. Cardinality(DOMAIN p.rules) = N
  BY <1>2, IntervalSize
<1>4. /\ rules \in Seq(Rule) /\ Len(rules) = N
      /\ \A n \in 1 .. N : \E i \in DOMAIN p.rules : rules[n] = p.rules[i]
      /\ \A i \in DOMAIN p.rules : \E n \in 1 .. N : rules[n] = p.rules[i]
  <2>1. rules = ByPriority(p.rules, DOMAIN p.rules) /\ DOMAIN p.rules \in SUBSET (DOMAIN p.rules)
    BY DEF SortedRules
  <2> HIDE DEF rules, N
  <2>2. Holds(rules, p.rules, DOMAIN p.rules, Rule)
    BY <1>1, <2>1, Sorting
  <2> QED
    BY <1>3, <2>2 DEF Holds
<1> HIDE DEF rules
<1>5. \A n \in 1 .. N : rules[n] \in Rule
  BY <1>4
<1>6. \A n \in 1 .. N : rules[n] \in Range(p.rules)
  BY <1>4 DEF Range
<1>7. \A rule \in Range(p.rules) : \E n \in 1 .. N : rules[n] = rule
  BY <1>4 DEF Range
<1> QED
  BY <1>2, <1>5, <1>6, <1>7 DEF rules

\* The results after each rule.
RunsRules(after, p, in, hour, before) ==
  /\ after \in [0 .. Len(p.rules) -> Result]
  /\ after[0] = before
  /\ \A n \in 1 .. Len(p.rules) :
       after[n] = ApplyRule(after[n - 1], SortedRules(p)[n], in, hour)
  /\ EvaluateRules(p, in, hour, before) = after[Len(p.rules)]

\* The results after each rule: the function that EvaluateRules defines exists.
LEMMA RulesInOrder ==
  ASSUME NEW p \in Policy, NEW in \in PolicyInput, NEW hour \in Int, NEW before \in Result
  PROVE  \E after : RunsRules(after, p, in, hour, before)
<1> DEFINE N == Len(p.rules)
           rules == SortedRules(p)
<1>1. N \in Nat /\ \A n \in 1 .. N : rules[n] \in Rule
  BY RulesSorted
<1> DEFINE step == [e \in (1 .. N) \X Result |-> ApplyRule(e[2], rules[e[1]], in, hour)]
           Eq(f) == f = [n \in 0 .. N |-> IF n = 0 THEN before
                                          ELSE ApplyRule(f[n - 1], rules[n], in, hour)]
<1> HIDE DEF N, rules
<1>3. step \in Steps(N, Result)
  <2>1. ASSUME NEW n \in 1 .. N, NEW r \in Result PROVE ApplyRule(r, rules[n], in, hour) \in Result
    <3>1. rules[n].riskAdjustment \in Int /\ rules[n].verdict \in Word
      BY <1>1 DEF Rule, Word
    <3> QED
      BY <3>1, MeetType DEF ApplyRule
  <2> QED
    BY <2>1 DEF Steps
<1>4. PICK f : Computes(f, N, Result, before, step)
  <2> HIDE DEF step
  <2> QED
    BY <1>1, <1>3, Recursion
<1>5. /\ f \in [0 .. N -> Result] /\ f[0] = before
      /\ \A n \in 1 .. N : f[n] = ApplyRule(f[n - 1], rules[n], in, hour)
  <2>1. ASSUME NEW n \in 1 .. N PROVE n - 1 \in 0 .. N
    BY <1>1
  <2>2. f \in [0 .. N -> Result] /\ f[0] = before
    BY <1>4 DEF Computes
  <2>3. \A n \in 1 .. N : <<n, f[n - 1]>> \in (1 .. N) \X Result
    BY <2>1, <2>2
  <2> QED
    BY <1>4, <2>2, <2>3 DEF Computes
<1> DEFINE after == CHOOSE g : Eq(g)
<1>6. Eq(f)
  BY <1>5
<1>7. Eq(after)
  <2> HIDE DEF Eq
  <2> QED
    BY <1>6
<1>8. EvaluateRules(p, in, hour, before) = after[N]
  BY DEF EvaluateRules, N, rules
<1> HIDE DEF after
<1>9. after = f
  <2>1. after = [n \in 0 .. N |-> after[n]] /\ after[0] = before
    BY <1>1, <1>7
  <2>2. \A n \in 1 .. N : after[n] = ApplyRule(after[n - 1], rules[n], in, hour)
    BY <1>1, <1>7
  <2>3. \A n \in 1 .. N : after[n - 1] \in Result => after[n] = step[<<n, after[n - 1]>>]
    BY <2>2
  <2> HIDE DEF step
  <2> QED
    BY <1>1, <1>3, <1>4, <2>1, <2>3, Unique
<1> QED
  BY <1>5, <1>8, <1>9 DEF N, rules, RunsRules

SumsRules(sum, p, sign) ==
  /\ sum \in [0 .. Len(p.rules) -> Int]
  /\ sum[0] = 0
  /\ \A n \in 1 .. Len(p.rules) :
       sum[n] = sum[n - 1] + Part(SortedRules(p)[n].riskAdjustment, sign)
  /\ RuleAdjustments(p, sign) = sum[Len(p.rules)]

\* The running sums of the adjustments of a policy's rules exist.
LEMMA RuleSums ==
  ASSUME NEW p \in Policy, NEW sign \in {-1, 1}
  PROVE  \E sum : SumsRules(sum, p, sign)
<1> DEFINE N == Len(p.rules)
           zero == 0
           part(n) == Part(SortedRules(p)[n].riskAdjustment, sign)
<1>1. N \in Nat /\ \A n \in 1 .. N : part(n) \in Int
  BY RulesSorted DEF Part, Rule
<1> DEFINE step == [e \in (1 .. N) \X Int |-> e[2] + part(e[1])]
           Eq(f) == f = [n \in 0 .. N |-> IF n = 0 THEN 0 ELSE f[n - 1] + part(n)]
<1> HIDE DEF N, part
<1>2. step \in Steps(N, Int)
  BY <1>1 DEF Steps
<1>3. PICK f : Computes(f, N, Int, zero, step)
  <2>1. zero \in Int
    OBVIOUS
  <2> HIDE DEF step, zero
  <2> QED
    BY <1>1, <1>2, <2>1, Recursion
<1>4. f \in [0 .. N -> Int] /\ f[0] = 0 /\ \A n \in 1 .. N : f[n] = f[n - 1] + part(n)
  <2>1. ASSUME NEW n \in 1 .. N PROVE n - 1 \in 0 .. N
    BY <1>1
  <2>2. f \in [0 .. N -> Int] /\ f[0] = 0
    BY <1>3 DEF Computes
  <2>3. \A n \in 1 .. N : <<n, f[n - 1]>> \in (1 .. N) \X Int
    BY <2>1, <2>2
  <2> QED
    BY <1>3, <2>2, <2>3 DEF Computes
<1> DEFINE sum == CHOOSE g : Eq(g)
<1>5. Eq(f)
  BY <1>4
<1>6. Eq(sum)
  <2> HIDE DEF Eq
  <2> QED
    BY <1>5
<1>7. RuleAdjustments(p, sign) = sum[N]
  BY DEF RuleAdjustments, N, part
<1> HIDE DEF sum
<1>8. sum = f
  <2>1. sum = [n \in 0 .. N |-> sum[n]] /\ sum[0] = 0
    BY <1>1, <1>6
  <2>2. \A n \in 1 .. N : sum[n] = sum[n - 1] + part(n)
    BY <1>1, <1>6
  <2>3. \A n \in 1 .. N : sum[n - 1] \in Int => sum[n] = step[<<n, sum[n - 1]>>]
    BY <2>2
  <2>4. zero \in Int /\ Computes(f, N, Int, zero, step) /\ sum[0] = zero
    BY <1>3, <2>1
  <2> HIDE DEF step, zero
  <2> QED
    BY <1>1, <1>2, <2>1, <2>3, <2>4, Unique
<1> QED
  BY <1>4, <1>7, <1>8 DEF N, part, SumsRules

\* A running sum of what lowers, or raises, goes one way only.
LEMMA Falling ==
  ASSUME NEW N \in Nat, NEW sum \in [0 .. N -> Int], \A n \in 1 .. N : sum[n] <= sum[n - 1]
  PROVE  \A n \in 0 .. N : sum[N] <= sum[n]
<1> DEFINE T == {n \in 0 .. N : \A m \in 0 .. n : sum[n] <= sum[m]}
<1>1. 0 \in T
  OBVIOUS
<1>2. ASSUME NEW n \in 1 .. N, n - 1 \in T PROVE n \in T
  <2> SUFFICES ASSUME NEW m \in 0 .. n PROVE sum[n] <= sum[m]
    OBVIOUS
  <2>1. CASE m = n
    BY <2>1
  <2>2. CASE m # n
    <3>1. m \in 0 .. n - 1 /\ sum[n - 1] <= sum[m] /\ sum[n] <= sum[n - 1]
      BY <1>2, <2>2
    <3>2. sum[n] \in Int /\ sum[n - 1] \in Int /\ sum[m] \in Int
      BY <3>1
    <3> QED
      BY <3>1, <3>2
  <2> QED
    BY <2>1, <2>2
<1> HIDE DEF T
<1>3. 0 .. N \subseteq T
  BY <1>1, <1>2, IntervalInduction
<1> QED
  BY <1>3 DEF T

\* What goes up is at most what it ends at.
LEMMA Rising ==
  ASSUME NEW N \in Nat, NEW sum \in [0 .. N -> Int], \A n \in 1 .. N : sum[n - 1] <= sum[n]
  PROVE  \A n \in 0 .. N : sum[n] <= sum[N]
<1> DEFINE T == {n \in 0 .. N : \A m \in 0 .. n : sum[m] <= sum[n]}
<1>1. 0 \in T
  OBVIOUS
<1>2. ASSUME NEW n \in 1 .. N, n - 1 \in T PROVE n \in T
  <2> SUFFICES ASSUME NEW m \in 0 .. n PROVE sum[m] <= sum[n]
    OBVIOUS
  <2>1. CASE m = n
    BY <2>1
  <2>2. CASE m # n
    <3>1. m \in 0 .. n - 1 /\ sum[m] <= sum[n - 1] /\ sum[n - 1] <= sum[n]
      BY <1>2, <2>2
    <3>2. sum[n] \in Int /\ sum[n - 1] \in Int /\ sum[m] \in Int
      BY <3>1
    <3> QED
      BY <3>1, <3>2
  <2> QED
    BY <2>1, <2>2
<1> HIDE DEF T
<1>3. 0 .. N \subseteq T
  BY <1>1, <1>2, IntervalInduction
<1> QED
  BY <1>3 DEF T

\* What lowers the score is at most an adjustment, and what raises it at least that.
LEMMA PartSign ==
  \A n \in Int : /\ Part(n, -1) \in Int /\ Part(n, 1) \in Int
                 /\ Part(n, -1) <= 0 /\ Part(n, 1) >= 0
                 /\ Part(n, -1) <= n /\ n <= Part(n, 1)
BY DEF Part

\* A rule that matches at a score matches at a higher one.
LEMMA MatchesMore ==
  ASSUME NEW c \in Condition, NEW in, NEW hour, NEW s \in Int, NEW t \in Int, s <= t,
         MatchesCondition(c, in, s, hour)
  PROVE  MatchesCondition(c, in, t, hour)
<1>1. \A limit \in c.riskScoreAbove : limit \in Int
  BY DEF Condition
<1>2. \A limit \in c.riskScoreAbove : t > limit
  BY <1>1 DEF MatchesCondition
<1> QED
  BY <1>2 DEF MatchesCondition

\* What a rule asks for, given the lowest and the highest score at which it may be looked at.
LEMMA RuleEffect ==
  ASSUME NEW r \in Result, NEW rule \in Rule, NEW in, NEW hour, NEW low \in Int, NEW high \in Int,
         low <= r.risk, r.risk <= high
  PROVE  LET q == ApplyRule(r, rule, in, hour) IN
         /\ q \in Result
         /\ r.risk + Part(rule.riskAdjustment, -1) <= q.risk
         /\ q.risk <= r.risk + Part(rule.riskAdjustment, 1)
         /\ Severity(r.verdict) <= Severity(q.verdict)
         /\ rule.enabled /\ MatchesCondition(rule.condition, in, low, hour)
              => Severity(rule.verdict) <= Severity(q.verdict)
         /\ q.verdict = r.verdict
            \/ /\ rule.enabled /\ MatchesCondition(rule.condition, in, high, hour)
               /\ q.verdict = rule.verdict
<1> DEFINE q == ApplyRule(r, rule, in, hour)
           there == rule.enabled /\ MatchesCondition(rule.condition, in, r.risk, hour)
           adj == rule.riskAdjustment
<1>1. adj \in Int /\ rule.verdict \in Word /\ rule.condition \in Condition /\ r.risk \in Int
  BY DEF Rule, Result, Word
<1>2. q = Meet(r, Demand(there, adj, rule.verdict))
  BY DEF ApplyRule
<1>3. Part(adj, -1) \in Int /\ Part(adj, 1) \in Int /\ Part(adj, -1) <= 0 /\ Part(adj, 1) >= 0
      /\ Part(adj, -1) <= adj /\ adj <= Part(adj, 1)
  BY <1>1, PartSign
<1>4. there => rule.enabled /\ MatchesCondition(rule.condition, in, high, hour)
  BY <1>1, MatchesMore
<1>5. rule.enabled /\ MatchesCondition(rule.condition, in, low, hour) => there
  BY <1>1, MatchesMore
<1> HIDE DEF q, there, adj
<1>6. CASE there
  <2>1. /\ q \in Result /\ q.risk = r.risk + adj
        /\ Severity(r.verdict) <= Severity(q.verdict)
        /\ Severity(rule.verdict) <= Severity(q.verdict)
        /\ q.verdict = r.verdict \/ q.verdict = rule.verdict
    <3>1. Raised(q, r, adj, rule.verdict)
      BY <1>1, <1>2, <1>6, Met
    <3> QED
      BY <3>1 DEF Raised
  <2>2. r.risk + Part(adj, -1) <= q.risk /\ q.risk <= r.risk + Part(adj, 1)
    BY <1>1, <1>3, <2>1
  <2> QED
    BY <1>4, <1>6, <2>1, <2>2 DEF q, adj
<1>7. CASE ~there
  <2>1. q = r
    BY <1>2, <1>7, Unmet
  <2>2. r.risk + Part(adj, -1) <= q.risk /\ q.risk <= r.risk + Part(adj, 1)
    BY <1>1, <1>3, <2>1
  <2>3. Severity(r.verdict) <= Severity(q.verdict) /\ q \in Result /\ q.verdict = r.verdict
    BY <2>1, Severe
  <2> QED
    BY <1>5, <1>7, <2>2, <2>3 DEF q, adj
<1> QED
  BY <1>6, <1>7

\* A policy lowers the score by no more than its sum that lowers, and raises likewise.
LEMMA AdjustmentsOfRules ==
  ASSUME NEW p \in Policy
  PROVE  /\ RuleAdjustments(p, -1) \in Int /\ RuleAdjustments(p, 1) \in Int
         /\ RuleAdjustments(p, -1) <= 0 /\ RuleAdjustments(p, 1) >= 0
<1> DEFINE N == Len(p.rules)
           adj(n) == SortedRules(p)[n].riskAdjustment
<1>1. N \in Nat /\ \A n \in 1 .. N : adj(n) \in Int
  BY RulesSorted DEF Rule
<1>2. PICK lo : /\ lo \in [0 .. N -> Int] /\ lo[0] = 0
                /\ \A n \in 1 .. N : lo[n] = lo[n - 1] + Part(adj(n), -1)
                /\ RuleAdjustments(p, -1) = lo[N]
  <2>1. PICK lo : SumsRules(lo, p, -1)
    BY RuleSums
  <2> QED
    BY <2>1 DEF SumsRules
<1>3. PICK hi : /\ hi \in [0 .. N -> Int] /\ hi[0] = 0
                /\ \A n \in 1 .. N : hi[n] = hi[n - 1] + Part(adj(n), 1)
                /\ RuleAdjustments(p, 1) = hi[N]
  <2>1. PICK hi : SumsRules(hi, p, 1)
    BY RuleSums
  <2> QED
    BY <2>1 DEF SumsRules
<1> HIDE DEF N, adj
<1>4. \A n \in 1 .. N : lo[n] <= lo[n - 1] /\ hi[n - 1] <= hi[n]
  <2> SUFFICES ASSUME NEW n \in 1 .. N PROVE lo[n] <= lo[n - 1] /\ hi[n - 1] <= hi[n]
    OBVIOUS
  <2>1. lo[n - 1] \in Int /\ hi[n - 1] \in Int /\ adj(n) \in Int
    BY <1>1, <1>2, <1>3
  <2>2. lo[n] = lo[n - 1] + Part(adj(n), -1) /\ hi[n] = hi[n - 1] + Part(adj(n), 1)
    BY <1>2, <1>3
  <2>3. Part(adj(n), -1) \in Int /\ Part(adj(n), 1) \in Int /\ Part(adj(n), -1) <= 0 /\ Part(adj(n), 1) >= 0
    BY <2>1, PartSign
  <2> QED
    BY <2>1, <2>2, <2>3
<1>5. lo[N] <= lo[0] /\ hi[0] <= hi[N] /\ lo[N] \in Int /\ hi[N] \in Int
  <2>1. \A n \in 0 .. N : lo[N] <= lo[n]
    BY <1>1, <1>2, <1>4, Falling
  <2>2. \A n \in 0 .. N : hi[n] <= hi[N]
    BY <1>1, <1>3, <1>4, Rising
  <2>3. 0 \in 0 .. N /\ N \in 0 .. N
    BY <1>1
  <2> QED
    BY <1>2, <1>3, <2>1, <2>2, <2>3
<1> QED
  BY <1>2, <1>3, <1>5

\* The same of the rules of a policy, one after the other.
LEMMA RulesEffect ==
  ASSUME NEW p \in Policy, NEW in \in PolicyInput, NEW hour \in Int, NEW before \in Result,
         NEW low \in Int, NEW high \in Int,
         low <= before.risk + RuleAdjustments(p, -1), before.risk + RuleAdjustments(p, 1) <= high
  PROVE  LET q == EvaluateRules(p, in, hour, before) IN
         /\ q \in Result
         /\ before.risk + RuleAdjustments(p, -1) <= q.risk
         /\ q.risk <= before.risk + RuleAdjustments(p, 1)
         /\ Severity(before.verdict) <= Severity(q.verdict)
         /\ \A rule \in Range(p.rules) :
              rule.enabled /\ MatchesCondition(rule.condition, in, low, hour)
                => Severity(rule.verdict) <= Severity(q.verdict)
         /\ q.verdict = before.verdict
            \/ \E rule \in Range(p.rules) :
                 /\ rule.enabled /\ MatchesCondition(rule.condition, in, high, hour)
                 /\ q.verdict = rule.verdict
<1> DEFINE N == Len(p.rules)
           rules == SortedRules(p)
           Low(rule) == rule.enabled /\ MatchesCondition(rule.condition, in, low, hour)
           High(rule) == rule.enabled /\ MatchesCondition(rule.condition, in, high, hour)
<1>1. /\ N \in Nat
      /\ \A n \in 1 .. N : rules[n] \in Rule /\ rules[n] \in Range(p.rules)
      /\ \A rule \in Range(p.rules) : \E n \in 1 .. N : rules[n] = rule
  BY RulesSorted
<1>2. PICK after : /\ after \in [0 .. N -> Result] /\ after[0] = before
                   /\ \A n \in 1 .. N : after[n] = ApplyRule(after[n - 1], rules[n], in, hour)
                   /\ EvaluateRules(p, in, hour, before) = after[N]
  <2>1. PICK after : RunsRules(after, p, in, hour, before)
    BY RulesInOrder
  <2> QED
    BY <2>1 DEF RunsRules
<1>3. PICK lo : /\ lo \in [0 .. N -> Int] /\ lo[0] = 0
                /\ \A n \in 1 .. N : lo[n] = lo[n - 1] + Part(rules[n].riskAdjustment, -1)
                /\ RuleAdjustments(p, -1) = lo[N]
  <2>1. PICK lo : SumsRules(lo, p, -1)
    BY RuleSums
  <2> QED
    BY <2>1 DEF SumsRules
<1>4. PICK hi : /\ hi \in [0 .. N -> Int] /\ hi[0] = 0
                /\ \A n \in 1 .. N : hi[n] = hi[n - 1] + Part(rules[n].riskAdjustment, 1)
                /\ RuleAdjustments(p, 1) = hi[N]
  <2>1. PICK hi : SumsRules(hi, p, 1)
    BY RuleSums
  <2> QED
    BY <2>1 DEF SumsRules
<1> HIDE DEF N, rules
<1>5. \A n \in 1 .. N : /\ n - 1 \in 0 .. N /\ n \in 0 .. N
                        /\ lo[n - 1] \in Int /\ hi[n - 1] \in Int /\ lo[n] \in Int /\ hi[n] \in Int
                        /\ after[n - 1] \in Result /\ rules[n].riskAdjustment \in Int
                        /\ after[n - 1].risk \in Int
  <2> SUFFICES ASSUME NEW n \in 1 .. N
               PROVE  /\ n - 1 \in 0 .. N /\ n \in 0 .. N
                      /\ lo[n - 1] \in Int /\ hi[n - 1] \in Int /\ lo[n] \in Int /\ hi[n] \in Int
                      /\ after[n - 1] \in Result /\ rules[n].riskAdjustment \in Int
                      /\ after[n - 1].risk \in Int
    OBVIOUS
  <2>1. n - 1 \in 0 .. N /\ n \in 0 .. N
    BY <1>1
  <2>2. after[n - 1] \in Result /\ rules[n] \in Rule
    BY <1>1, <1>2, <2>1
  <2>3. lo[n - 1] \in Int /\ hi[n - 1] \in Int /\ lo[n] \in Int /\ hi[n] \in Int
    BY <1>3, <1>4, <2>1
  <2> QED
    BY <2>1, <2>2, <2>3 DEF Rule, Result
<1>6. \A n \in 1 .. N : lo[n] <= lo[n - 1] /\ hi[n - 1] <= hi[n]
  <2> SUFFICES ASSUME NEW n \in 1 .. N PROVE lo[n] <= lo[n - 1] /\ hi[n - 1] <= hi[n]
    OBVIOUS
  <2> DEFINE adj == rules[n].riskAdjustment
  <2>1. lo[n] = lo[n - 1] + Part(adj, -1) /\ hi[n] = hi[n - 1] + Part(adj, 1) /\ adj \in Int
    BY <1>3, <1>4, <1>5
  <2> HIDE DEF adj
  <2>2. Part(adj, -1) \in Int /\ Part(adj, 1) \in Int /\ Part(adj, -1) <= 0 /\ Part(adj, 1) >= 0
    BY <2>1, PartSign
  <2> QED
    BY <1>5, <2>1, <2>2
<1>7. \A n \in 0 .. N : lo[N] <= lo[n] /\ hi[n] <= hi[N]
  BY <1>1, <1>3, <1>4, <1>6, Falling, Rising
<1>8. before.risk \in Int /\ lo[N] \in Int /\ hi[N] \in Int
  BY <1>1, <1>3, <1>4 DEF Result
<1> DEFINE Between(n) == before.risk + lo[n] <= after[n].risk /\ after[n].risk <= before.risk + hi[n]
           Met1(n) == /\ Severity(before.verdict) <= Severity(after[n].verdict)
                      /\ \A m \in 1 .. n : Low(rules[m]) => Severity(rules[m].verdict) <= Severity(after[n].verdict)
           From(n) == \/ after[n].verdict = before.verdict
                      \/ \E m \in 1 .. n : High(rules[m]) /\ after[n].verdict = rules[m].verdict
           T == {n \in 0 .. N : Between(n) /\ Met1(n) /\ From(n)}
<1>9. 0 \in T
  <2>1. 0 \in 0 .. N
    BY <1>1
  <2>2. Between(0)
    BY <1>2, <1>3, <1>4, <1>8
  <2>3. Met1(0) /\ From(0)
    BY <1>2, Severe
  <2> QED
    BY <2>1, <2>2, <2>3
<1>10. ASSUME NEW n \in 1 .. N, n - 1 \in T PROVE n \in T
  <2> DEFINE r == after[n - 1]
             q == after[n]
  <2>1. Between(n - 1) /\ Met1(n - 1) /\ From(n - 1)
    BY <1>10
  <2>2. low <= r.risk /\ r.risk <= high
    <3>1. n - 1 \in 0 .. N /\ lo[n - 1] \in Int /\ hi[n - 1] \in Int /\ r.risk \in Int
      BY <1>5
    <3>2. lo[N] <= lo[n - 1] /\ hi[n - 1] <= hi[N]
      BY <1>7, <3>1
    <3>3. before.risk + lo[n - 1] <= r.risk /\ r.risk <= before.risk + hi[n - 1]
      BY <2>1
    <3>4. low <= before.risk + lo[N] /\ before.risk + hi[N] <= high
      BY <1>3, <1>4
    <3> HIDE DEF r
    <3> QED
      BY <1>8, <3>1, <3>2, <3>3, <3>4
  <2>3. r \in Result /\ rules[n] \in Rule /\ q = ApplyRule(r, rules[n], in, hour)
    BY <1>1, <1>2, <1>5
  <2> HIDE DEF Low, High, r, q
  <2>4. /\ q \in Result
        /\ r.risk + Part(rules[n].riskAdjustment, -1) <= q.risk
        /\ q.risk <= r.risk + Part(rules[n].riskAdjustment, 1)
        /\ Severity(r.verdict) <= Severity(q.verdict)
        /\ Low(rules[n]) => Severity(rules[n].verdict) <= Severity(q.verdict)
        /\ q.verdict = r.verdict \/ (High(rules[n]) /\ q.verdict = rules[n].verdict)
    BY <2>2, <2>3, RuleEffect DEF Low, High
  <2>5. Between(n)
    <3>1. /\ Part(rules[n].riskAdjustment, -1) \in Int /\ Part(rules[n].riskAdjustment, 1) \in Int
          /\ q.risk \in Int /\ r.risk \in Int
      BY <1>5, <2>3, <2>4, PartSign DEF Result
    <3>2. before.risk + lo[n - 1] <= r.risk /\ r.risk <= before.risk + hi[n - 1]
      BY <2>1 DEF r
    <3>3. before.risk + lo[n] <= q.risk /\ q.risk <= before.risk + hi[n]
      <4> DEFINE d == Part(rules[n].riskAdjustment, -1)
                 u == Part(rules[n].riskAdjustment, 1)
      <4>1. lo[n] = lo[n - 1] + d /\ hi[n] = hi[n - 1] + u
        BY <1>3, <1>4
      <4>2. r.risk + d <= q.risk /\ q.risk <= r.risk + u /\ d \in Int /\ u \in Int
        BY <2>4, <3>1
      <4> HIDE DEF d, u
      <4> QED
        BY <1>5, <1>8, <3>1, <3>2, <4>1, <4>2
    <3> QED
      BY <3>3 DEF q
  <2>6. Met1(n)
    <3>1. Severity(before.verdict) <= Severity(r.verdict)
      BY <2>1 DEF r
    <3>2. Severity(before.verdict) <= Severity(q.verdict)
      BY <2>4, <3>1, Severe
    <3>3. ASSUME NEW m \in 1 .. n, Low(rules[m])
          PROVE  Severity(rules[m].verdict) <= Severity(q.verdict)
      <4>1. CASE m = n
        BY <2>4, <3>3, <4>1
      <4>2. CASE m # n
        <5>1. m \in 1 .. n - 1
          BY <4>2
        <5>2. Severity(rules[m].verdict) <= Severity(r.verdict)
          BY <2>1, <3>3, <5>1 DEF r
        <5> QED
          BY <2>4, <5>2, Severe
      <4> QED
        BY <4>1, <4>2
    <3> QED
      BY <3>2, <3>3 DEF q
  <2>7. From(n)
    <3>1. r.verdict = before.verdict \/ \E m \in 1 .. n - 1 : High(rules[m]) /\ r.verdict = rules[m].verdict
      BY <2>1 DEF r
    <3>2. n \in 1 .. n /\ 1 .. n - 1 \subseteq 1 .. n
      OBVIOUS
    <3> QED
      BY <2>4, <3>1, <3>2 DEF q
  <2> QED
    BY <1>5, <2>5, <2>6, <2>7
<1> HIDE DEF T
<1>11. 0 .. N \subseteq T
  BY <1>1, <1>9, <1>10, IntervalInduction
<1>12. Between(N) /\ Met1(N) /\ From(N)
  BY <1>1, <1>11 DEF T
<1> HIDE DEF Low, High
<1>13. \A rule \in Range(p.rules) : Low(rule) => Severity(rule.verdict) <= Severity(after[N].verdict)
  BY <1>1, <1>12
<1>14. \/ after[N].verdict = before.verdict
       \/ \E rule \in Range(p.rules) : High(rule) /\ after[N].verdict = rule.verdict
  BY <1>1, <1>12
<1>15. after[N] \in Result
  BY <1>1, <1>2
<1> QED
  BY <1>2, <1>3, <1>4, <1>12, <1>13, <1>14, <1>15 DEF Low, High
-----------------------------------------------------------------------------
(* Policies one after the other *)

\* The verdicts a policy asks for if its rules compare a given score.
Asks(p, in, score, hour) ==
  {v \in Word :
     \/ Swapped(in) /\ v = p.simSwapAction
     \/ \E rule \in Range(p.rules) :
          rule.enabled /\ MatchesCondition(rule.condition, in, score, hour) /\ v = rule.verdict}

\* q is what a policy makes of r.
Effect(q, r, p, in, hour, low, high) ==
  /\ q \in Result
  /\ r.risk + RuleAdjustments(p, -1) <= q.risk
  /\ q.risk <= r.risk + RuleAdjustments(p, 1)
  /\ Severity(r.verdict) <= Severity(q.verdict)
  /\ \A v \in Asks(p, in, low, hour) : Severity(v) <= Severity(q.verdict)
  /\ q.verdict = r.verdict \/ q.verdict \in Asks(p, in, high, hour)

\* The policy's action on a SIM swap leaves the score alone.
LEMMA SwapAction ==
  ASSUME NEW r \in Result, NEW p \in Policy, NEW in
  PROVE  LET q == Meet(r, Demand(Swapped(in), 0, p.simSwapAction)) IN
         /\ q \in Result /\ q.risk = r.risk
         /\ Severity(r.verdict) <= Severity(q.verdict)
         /\ Swapped(in) => Severity(p.simSwapAction) <= Severity(q.verdict)
         /\ q.verdict = r.verdict \/ (Swapped(in) /\ q.verdict = p.simSwapAction)
<1> DEFINE q == Meet(r, Demand(Swapped(in), 0, p.simSwapAction))
<1>1. r.risk \in Int /\ p.simSwapAction \in Word
  BY DEF Result, Policy, Word
<1>2. CASE Swapped(in)
  <2>1. Raised(q, r, 0, p.simSwapAction)
    <3> DEFINE zero == 0
               there == Swapped(in)
    <3>1. zero \in Int /\ there
      BY <1>2
    <3> HIDE DEF zero, there, q
    <3>2. Raised(Meet(r, Demand(there, zero, p.simSwapAction)), r, zero, p.simSwapAction)
      BY <1>1, <3>1, Met
    <3> QED
      BY <3>2 DEF zero, there, q
  <2> HIDE DEF q
  <2>2. q \in Result /\ q.risk = r.risk
    BY <1>1, <2>1 DEF Raised
  <2>3. /\ Severity(r.verdict) <= Severity(q.verdict)
        /\ Severity(p.simSwapAction) <= Severity(q.verdict)
        /\ q.verdict = r.verdict \/ q.verdict = p.simSwapAction
    BY <2>1 DEF Raised
  <2> QED
    BY <1>2, <2>2, <2>3 DEF q
<1>3. CASE ~Swapped(in)
  <2>1. q = r
    BY <1>3, Unmet
  <2> HIDE DEF q
  <2> QED
    BY <1>3, <2>1, Severe DEF q
<1> QED
  BY <1>2, <1>3

\* The same of a policy as a whole.
LEMMA PolicyEffect ==
  ASSUME NEW r \in Result, NEW p \in Policy, NEW in \in PolicyInput, NEW hour \in Int,
         NEW low \in Int, NEW high \in Int,
         low <= r.risk + RuleAdjustments(p, -1), r.risk + RuleAdjustments(p, 1) <= high
  PROVE  Effect(ApplyPolicy(r, p, in, hour), r, p, in, hour, low, high)
<1> DEFINE m == Meet(r, Demand(Swapped(in), 0, p.simSwapAction))
           q == EvaluateRules(p, in, hour, m)
<1>1. /\ m \in Result /\ m.risk = r.risk
      /\ Severity(r.verdict) <= Severity(m.verdict)
      /\ Swapped(in) => Severity(p.simSwapAction) <= Severity(m.verdict)
      /\ m.verdict = r.verdict \/ (Swapped(in) /\ m.verdict = p.simSwapAction)
  BY SwapAction
<1>2. ApplyPolicy(r, p, in, hour) = q
  BY DEF ApplyPolicy
<1>3. p.simSwapAction \in Word /\ \A rule \in Range(p.rules) : rule.verdict \in Word
  <2>1. \A n \in 1 .. Len(p.rules) : SortedRules(p)[n] \in Rule
    BY RulesSorted
  <2>2. \A rule \in Range(p.rules) : rule \in Rule
    BY <2>1, RulesSorted
  <2> QED
    BY <2>2 DEF Policy, Rule, Word
<1> HIDE DEF m
<1>4. low <= m.risk + RuleAdjustments(p, -1) /\ m.risk + RuleAdjustments(p, 1) <= high
  BY <1>1
<1>5. /\ q \in Result
      /\ m.risk + RuleAdjustments(p, -1) <= q.risk
      /\ q.risk <= m.risk + RuleAdjustments(p, 1)
      /\ Severity(m.verdict) <= Severity(q.verdict)
      /\ \A rule \in Range(p.rules) :
           rule.enabled /\ MatchesCondition(rule.condition, in, low, hour)
             => Severity(rule.verdict) <= Severity(q.verdict)
      /\ q.verdict = m.verdict
         \/ \E rule \in Range(p.rules) :
              /\ rule.enabled /\ MatchesCondition(rule.condition, in, high, hour)
              /\ q.verdict = rule.verdict
  BY <1>1, <1>4, RulesEffect
<1> HIDE DEF q
<1>6. Severity(r.verdict) <= Severity(q.verdict)
  BY <1>1, <1>5, Severe
<1>7. \A v \in Asks(p, in, low, hour) : Severity(v) <= Severity(q.verdict)
  <2>1. Swapped(in) => Severity(p.simSwapAction) <= Severity(q.verdict)
    BY <1>1, <1>5, Severe
  <2> QED
    BY <1>5, <2>1 DEF Asks
<1>8. q.verdict = r.verdict \/ q.verdict \in Asks(p, in, high, hour)
  <2>1. q.verdict \in Word
    BY <1>5 DEF Result
  <2> QED
    BY <1>1, <1>5, <2>1 DEF Asks
<1>9. r.risk + RuleAdjustments(p, -1) <= q.risk /\ q.risk <= r.risk + RuleAdjustments(p, 1)
  BY <1>1, <1>5
<1>10. Effect(q, r, p, in, hour, low, high)
  BY <1>5, <1>6, <1>7, <1>8, <1>9 DEF Effect
<1> QED
  BY <1>2, <1>10

\* A policy makes a result of a result.
LEMMA PolicyType ==
  ASSUME NEW r \in Result, NEW p \in Policy, NEW in \in PolicyInput, NEW hour \in Int
  PROVE  ApplyPolicy(r, p, in, hour) \in Result
<1>1. r.risk \in Int /\ RuleAdjustments(p, -1) \in Int /\ RuleAdjustments(p, 1) \in Int
  BY AdjustmentsOfRules DEF Result
<1> DEFINE low == r.risk + RuleAdjustments(p, -1)
           high == r.risk + RuleAdjustments(p, 1)
<1>2. low \in Int /\ high \in Int /\ low <= low /\ high <= high
  BY <1>1
<1>3. Effect(ApplyPolicy(r, p, in, hour), r, p, in, hour, low, high)
  BY <1>2, PolicyEffect
<1> QED
  BY <1>3 DEF Effect

\* The results after each policy.
RunsPolicies(after, list, in, hour, before) ==
  /\ after \in [0 .. Len(list) -> Result]
  /\ after[0] = before
  /\ \A n \in 1 .. Len(list) : after[n] = ApplyPolicy(after[n - 1], list[n], in, hour)
  /\ EvaluatePolicyRules(list, in, hour, before) = after[Len(list)]

\* The results after each policy: the function that EvaluatePolicyRules defines exists.
LEMMA PoliciesInOrder ==
  ASSUME NEW list \in Seq(Policy), NEW in \in PolicyInput, NEW hour \in Int, NEW before \in Result
  PROVE  \E after : RunsPolicies(after, list, in, hour, before)
<1> DEFINE N == Len(list)
<1>1. N \in Nat /\ \A n \in 1 .. N : list[n] \in Policy
  OBVIOUS
<1> DEFINE step == [e \in (1 .. N) \X Result |-> ApplyPolicy(e[2], list[e[1]], in, hour)]
           Eq(f) == f = [n \in 0 .. N |-> IF n = 0 THEN before
                                          ELSE ApplyPolicy(f[n - 1], list[n], in, hour)]
<1> HIDE DEF N
<1>3. step \in Steps(N, Result)
  <2>1. \A n \in 1 .. N, r \in Result : ApplyPolicy(r, list[n], in, hour) \in Result
    BY <1>1, PolicyType
  <2> QED
    BY <2>1 DEF Steps
<1>4. PICK f : Computes(f, N, Result, before, step)
  <2> HIDE DEF step
  <2> QED
    BY <1>1, <1>3, Recursion
<1>5. /\ f \in [0 .. N -> Result] /\ f[0] = before
      /\ \A n \in 1 .. N : f[n] = ApplyPolicy(f[n - 1], list[n], in, hour)
  <2>1. ASSUME NEW n \in 1 .. N PROVE n - 1 \in 0 .. N
    BY <1>1
  <2>2. f \in [0 .. N -> Result] /\ f[0] = before
    BY <1>4 DEF Computes
  <2>3. \A n \in 1 .. N : <<n, f[n - 1]>> \in (1 .. N) \X Result
    BY <2>1, <2>2
  <2> QED
    BY <1>4, <2>2, <2>3 DEF Computes
<1> DEFINE after == CHOOSE g : Eq(g)
<1>6. Eq(f)
  BY <1>5
<1>7. Eq(after)
  <2> HIDE DEF Eq
  <2> QED
    BY <1>6
<1>8. EvaluatePolicyRules(list, in, hour, before) = after[N]
  BY DEF EvaluatePolicyRules, N
<1> HIDE DEF after
<1>9. after = f
  <2>1. after = [n \in 0 .. N |-> after[n]] /\ after[0] = before
    BY <1>1, <1>7
  <2>2. \A n \in 1 .. N : after[n] = ApplyPolicy(after[n - 1], list[n], in, hour)
    BY <1>1, <1>7
  <2>3. \A n \in 1 .. N : after[n - 1] \in Result => after[n] = step[<<n, after[n - 1]>>]
    BY <2>2
  <2> HIDE DEF step
  <2> QED
    BY <1>1, <1>3, <1>4, <2>1, <2>3, Unique
<1> QED
  BY <1>5, <1>8, <1>9 DEF N, RunsPolicies

SumsPolicies(sum, list, sign) ==
  /\ sum \in [0 .. Len(list) -> Int]
  /\ sum[0] = 0
  /\ \A n \in 1 .. Len(list) : sum[n] = sum[n - 1] + RuleAdjustments(list[n], sign)
  /\ Adjustments(list, sign) = sum[Len(list)]

\* The running sums of the adjustments of a list exist.
LEMMA PolicySums ==
  ASSUME NEW list \in Seq(Policy), NEW sign \in {-1, 1}
  PROVE  \E sum : SumsPolicies(sum, list, sign)
<1> DEFINE N == Len(list)
           zero == 0
           part(n) == RuleAdjustments(list[n], sign)
<1>1. N \in Nat /\ \A n \in 1 .. N : part(n) \in Int
  <2>1. N \in Nat /\ \A n \in 1 .. N : list[n] \in Policy
    OBVIOUS
  <2>2. \A p \in Policy : RuleAdjustments(p, sign) \in Int
    BY AdjustmentsOfRules
  <2> QED
    BY <2>1, <2>2
<1> DEFINE step == [e \in (1 .. N) \X Int |-> e[2] + part(e[1])]
           Eq(f) == f = [n \in 0 .. N |-> IF n = 0 THEN 0 ELSE f[n - 1] + part(n)]
<1> HIDE DEF N, part
<1>2. step \in Steps(N, Int)
  BY <1>1 DEF Steps
<1>3. PICK f : Computes(f, N, Int, zero, step)
  <2>1. zero \in Int
    OBVIOUS
  <2> HIDE DEF step, zero
  <2> QED
    BY <1>1, <1>2, <2>1, Recursion
<1>4. f \in [0 .. N -> Int] /\ f[0] = 0 /\ \A n \in 1 .. N : f[n] = f[n - 1] + part(n)
  <2>1. ASSUME NEW n \in 1 .. N PROVE n - 1 \in 0 .. N
    BY <1>1
  <2>2. f \in [0 .. N -> Int] /\ f[0] = 0
    BY <1>3 DEF Computes
  <2>3. \A n \in 1 .. N : <<n, f[n - 1]>> \in (1 .. N) \X Int
    BY <2>1, <2>2
  <2> QED
    BY <1>3, <2>2, <2>3 DEF Computes
<1> DEFINE sum == CHOOSE g : Eq(g)
<1>5. Eq(f)
  BY <1>4
<1>6. Eq(sum)
  <2> HIDE DEF Eq
  <2> QED
    BY <1>5
<1>7. Adjustments(list, sign) = sum[N]
  BY DEF Adjustments, N, part
<1> HIDE DEF sum
<1>8. sum = f
  <2>1. sum = [n \in 0 .. N |-> sum[n]] /\ sum[0] = 0
    BY <1>1, <1>6
  <2>2. \A n \in 1 .. N : sum[n] = sum[n - 1] + part(n)
    BY <1>1, <1>6
  <2>3. \A n \in 1 .. N : sum[n - 1] \in Int => sum[n] = step[<<n, sum[n - 1]>>]
    BY <2>2
  <2>4. zero \in Int /\ Computes(f, N, Int, zero, step) /\ sum[0] = zero
    BY <1>3, <2>1
  <2> HIDE DEF step, zero
  <2> QED
    BY <1>1, <1>2, <2>1, <2>3, <2>4, Unique
<1> QED
  BY <1>4, <1>7, <1>8 DEF N, part, SumsPolicies

\* What all the policies of a list make of r.
ListEffect(q, r, list, in, hour, low, high) ==
  /\ q \in Result
  /\ Severity(r.verdict) <= Severity(q.verdict)
  /\ \A n \in 1 .. Len(list) : \A v \in Asks(list[n], in, low, hour) :
       Severity(v) <= Severity(q.verdict)
  /\ q.verdict = r.verdict \/ \E n \in 1 .. Len(list) : q.verdict \in Asks(list[n], in, high, hour)

\* Numbers: adding the same keeps an order, orders chain.
LEMMA Sums ==
  \A b, l, k, r, d \in Int :
    /\ b + l <= r /\ k = l + d => b + k <= r + d
    /\ r <= b + l /\ k = l + d => r + d <= b + k
OBVIOUS

LEMMA Chain ==
  \A b, j, k \in Int : j <= k => b + j <= b + k
OBVIOUS

LEMMA Through ==
  \A x, y, z \in Int : x <= y /\ y <= z => x <= z
OBVIOUS

\* The same of all policies, one after the other.
LEMMA PoliciesEffect ==
  ASSUME NEW list \in Seq(Policy), NEW in \in PolicyInput, NEW hour \in Int, NEW before \in Result,
         NEW low \in Int, NEW high \in Int,
         low <= before.risk + Adjustments(list, -1), before.risk + Adjustments(list, 1) <= high
  PROVE  ListEffect(EvaluatePolicyRules(list, in, hour, before), before, list, in, hour, low, high)
<1> DEFINE N == Len(list)
           Low(n) == Asks(list[n], in, low, hour)
           High(n) == Asks(list[n], in, high, hour)
           down(n) == RuleAdjustments(list[n], -1)
           up(n) == RuleAdjustments(list[n], 1)
<1>1. N \in Nat /\ \A n \in 1 .. N : list[n] \in Policy
  OBVIOUS
<1>2. PICK after : /\ after \in [0 .. N -> Result] /\ after[0] = before
                   /\ \A n \in 1 .. N : after[n] = ApplyPolicy(after[n - 1], list[n], in, hour)
                   /\ EvaluatePolicyRules(list, in, hour, before) = after[N]
  <2>1. PICK after : RunsPolicies(after, list, in, hour, before)
    BY PoliciesInOrder
  <2> QED
    BY <2>1 DEF RunsPolicies
<1>3. PICK lo : /\ lo \in [0 .. N -> Int] /\ lo[0] = 0
                /\ \A n \in 1 .. N : lo[n] = lo[n - 1] + down(n)
                /\ Adjustments(list, -1) = lo[N]
  <2>1. PICK lo : SumsPolicies(lo, list, -1)
    BY PolicySums
  <2> QED
    BY <2>1 DEF SumsPolicies
<1>4. PICK hi : /\ hi \in [0 .. N -> Int] /\ hi[0] = 0
                /\ \A n \in 1 .. N : hi[n] = hi[n - 1] + up(n)
                /\ Adjustments(list, 1) = hi[N]
  <2>1. PICK hi : SumsPolicies(hi, list, 1)
    BY PolicySums
  <2> QED
    BY <2>1 DEF SumsPolicies
<1>5. \A n \in 1 .. N : down(n) \in Int /\ up(n) \in Int /\ down(n) <= 0 /\ up(n) >= 0
  BY <1>1, AdjustmentsOfRules
<1> HIDE DEF N, down, up, Low, High
<1>6. \A n \in 1 .. N : /\ n - 1 \in 0 .. N /\ n \in 0 .. N
                        /\ lo[n - 1] \in Int /\ hi[n - 1] \in Int /\ lo[n] \in Int /\ hi[n] \in Int
                        /\ after[n - 1] \in Result /\ after[n - 1].risk \in Int
  <2> SUFFICES ASSUME NEW n \in 1 .. N
               PROVE  /\ n - 1 \in 0 .. N /\ n \in 0 .. N
                      /\ lo[n - 1] \in Int /\ hi[n - 1] \in Int /\ lo[n] \in Int /\ hi[n] \in Int
                      /\ after[n - 1] \in Result /\ after[n - 1].risk \in Int
    OBVIOUS
  <2>1. n - 1 \in 0 .. N /\ n \in 0 .. N
    BY <1>1
  <2>2. after[n - 1] \in Result
    BY <1>2, <2>1
  <2>3. lo[n - 1] \in Int /\ hi[n - 1] \in Int /\ lo[n] \in Int /\ hi[n] \in Int
    BY <1>3, <1>4, <2>1
  <2> QED
    BY <2>1, <2>2, <2>3 DEF Result
<1>7. \A n \in 1 .. N : lo[n] <= lo[n - 1] /\ hi[n - 1] <= hi[n]
  <2> SUFFICES ASSUME NEW n \in 1 .. N PROVE lo[n] <= lo[n - 1] /\ hi[n - 1] <= hi[n]
    OBVIOUS
  <2>1. lo[n] = lo[n - 1] + down(n) /\ hi[n] = hi[n - 1] + up(n)
    BY <1>3, <1>4
  <2> QED
    BY <1>5, <1>6, <2>1
<1>8. \A n \in 0 .. N : lo[N] <= lo[n] /\ hi[n] <= hi[N]
  BY <1>1, <1>3, <1>4, <1>7, Falling, Rising
<1>9. before.risk \in Int /\ lo[N] \in Int /\ hi[N] \in Int
  BY <1>1, <1>3, <1>4 DEF Result
<1> DEFINE Between(n) == before.risk + lo[n] <= after[n].risk /\ after[n].risk <= before.risk + hi[n]
           Kept(n) == /\ Severity(before.verdict) <= Severity(after[n].verdict)
                      /\ \A m \in 1 .. n : \A v \in Low(m) : Severity(v) <= Severity(after[n].verdict)
           From(n) == after[n].verdict = before.verdict \/ \E m \in 1 .. n : after[n].verdict \in High(m)
           T == {n \in 0 .. N : Between(n) /\ Kept(n) /\ From(n)}
<1>10. 0 \in T
  <2>1. 0 \in 0 .. N
    BY <1>1
  <2>2. Between(0)
    BY <1>2, <1>3, <1>4, <1>9
  <2>3. Kept(0) /\ From(0)
    BY <1>2, Severe
  <2> QED
    BY <2>1, <2>2, <2>3
<1>11. ASSUME NEW n \in 1 .. N, n - 1 \in T PROVE n \in T
  <2> DEFINE r == after[n - 1]
             q == after[n]
  <2>1. Between(n - 1) /\ Kept(n - 1) /\ From(n - 1)
    BY <1>11
  <2>2. /\ before.risk + lo[n - 1] <= r.risk /\ r.risk <= before.risk + hi[n - 1]
        /\ lo[n] = lo[n - 1] + down(n) /\ hi[n] = hi[n - 1] + up(n)
        /\ lo[N] <= lo[n] /\ hi[n] <= hi[N] /\ r.risk \in Int
        /\ lo[n - 1] \in Int /\ hi[n - 1] \in Int /\ lo[n] \in Int /\ hi[n] \in Int
    BY <1>3, <1>4, <1>6, <1>8, <2>1
  <2>3. low <= before.risk + lo[N] /\ before.risk + hi[N] <= high
    BY <1>3, <1>4
  <2>4. r \in Result /\ list[n] \in Policy /\ q = ApplyPolicy(r, list[n], in, hour)
    BY <1>1, <1>2, <1>6
  <2> HIDE DEF r, q
  <2> DEFINE b == before.risk
             x == r.risk
             d == down(n)
             u == up(n)
             ln == lo[n]
             hn == hi[n]
             lN == lo[N]
             hN == hi[N]
  <2>5. /\ b \in Int /\ x \in Int /\ d \in Int /\ u \in Int /\ ln \in Int /\ hn \in Int
        /\ lN \in Int /\ hN \in Int /\ lN <= ln /\ hn <= hN
    BY <1>5, <1>9, <2>2
  <2>6. b + ln <= x + d /\ x + u <= b + hn
    BY <1>5, <1>9, <2>2, Sums
  <2>7. low <= b + lN /\ b + hN <= high
    BY <2>3
  <2> HIDE DEF b, x, d, u, ln, hn, lN, hN
  <2>8. b + lN <= b + ln /\ b + hn <= b + hN
    BY <2>5, Chain
  <2>9. /\ b + ln \in Int /\ b + hn \in Int /\ b + lN \in Int /\ b + hN \in Int
        /\ x + d \in Int /\ x + u \in Int
    BY <2>5
  <2>10. low <= x + d /\ x + u <= high
    BY <2>5, <2>6, <2>7, <2>8, <2>9, Through
  <2>11. low <= r.risk + down(n) /\ r.risk + up(n) <= high
    BY <2>10 DEF x, d, u
  <2>12. Effect(q, r, list[n], in, hour, low, high)
    BY <2>4, <2>11, PolicyEffect DEF down, up
  <2>13. /\ q \in Result /\ r.risk + down(n) <= q.risk /\ q.risk <= r.risk + up(n)
         /\ Severity(r.verdict) <= Severity(q.verdict)
         /\ \A v \in Low(n) : Severity(v) <= Severity(q.verdict)
         /\ q.verdict = r.verdict \/ q.verdict \in High(n)
    BY <2>12 DEF Effect, Low, High, down, up
  <2>14. Between(n)
    <3>1. q.risk \in Int
      BY <2>13 DEF Result
    <3>2. x + d <= q.risk /\ q.risk <= x + u
      BY <2>13 DEF x, d, u
    <3>3. b + ln <= q.risk /\ q.risk <= b + hn
      BY <2>6, <2>9, <3>1, <3>2, Through
    <3> QED
      BY <3>3 DEF q, b, ln, hn
  <2>15. Kept(n)
    <3>1. Severity(before.verdict) <= Severity(r.verdict)
      BY <2>1 DEF r
    <3>2. Severity(before.verdict) <= Severity(q.verdict)
      BY <2>13, <3>1, Severe
    <3>3. ASSUME NEW m \in 1 .. n, NEW v \in Low(m) PROVE Severity(v) <= Severity(q.verdict)
      <4>1. CASE m = n
        BY <2>13, <4>1
      <4>2. CASE m # n
        <5>1. m \in 1 .. n - 1
          BY <4>2
        <5>2. Severity(v) <= Severity(r.verdict)
          BY <2>1, <5>1 DEF r
        <5> QED
          BY <2>13, <5>2, Severe
      <4> QED
        BY <4>1, <4>2
    <3> QED
      BY <3>2, <3>3 DEF q
  <2>16. From(n)
    <3>1. r.verdict = before.verdict \/ \E m \in 1 .. n - 1 : r.verdict \in High(m)
      BY <2>1 DEF r
    <3>2. n \in 1 .. n /\ 1 .. n - 1 \subseteq 1 .. n
      OBVIOUS
    <3> QED
      BY <2>13, <3>1, <3>2 DEF q
  <2> QED
    BY <1>6, <2>14, <2>15, <2>16
<1> HIDE DEF T
<1>12. 0 .. N \subseteq T
  BY <1>1, <1>10, <1>11, IntervalInduction
<1>13. Kept(N) /\ From(N)
  BY <1>1, <1>12 DEF T
<1>14. after[N] \in Result
  BY <1>1, <1>2
<1>15. ListEffect(after[N], before, list, in, hour, low, high)
  BY <1>13, <1>14 DEF ListEffect, Low, High, N
<1> QED
  BY <1>2, <1>15

-----------------------------------------------------------------------------
(* The built-in signals *)

\* q is what a demand makes of r.
Took(q, r, d) ==
  /\ q \in Result
  /\ q.risk = r.risk + (IF d.there THEN d.score ELSE 0)
  /\ Severity(r.verdict) <= Severity(q.verdict)
  /\ d.there => Severity(d.verdict) <= Severity(q.verdict)
  /\ q.verdict = r.verdict \/ (d.there /\ q.verdict = d.verdict)

\* A signal that is there is met, another is not.
LEMMA Taking ==
  ASSUME NEW r \in Result, NEW d, d.score \in Int, d.verdict \in Word
  PROVE  Took(Meet(r, d), r, d)
<1> DEFINE q == Meet(r, d)
           there == d.there
           score == d.score
           v == d.verdict
<1>1. r.risk \in Int /\ score \in Int /\ v \in Word
  BY DEF Result
<1>2. Meet(r, Demand(there, score, v)) = q
  BY DEF Meet, Demand
<1>3. CASE there
  <2> HIDE DEF q, there, score, v
  <2>1. Raised(q, r, score, v)
    BY <1>1, <1>2, <1>3, Met
  <2>2. /\ q \in Result /\ q.risk = r.risk + score
        /\ Severity(r.verdict) <= Severity(q.verdict)
        /\ Severity(v) <= Severity(q.verdict)
        /\ q.verdict = r.verdict \/ q.verdict = v
    BY <2>1 DEF Raised
  <2>3. Took(q, r, d)
    BY <1>3, <2>2 DEF Took, there, score, v
  <2> QED
    BY <2>3 DEF q
<1>4. CASE ~there
  <2>1. q = r
    BY <1>4 DEF Meet
  <2>2. Severity(r.verdict) <= Severity(r.verdict) /\ r.risk + 0 = r.risk
    BY <1>1, Severe
  <2> HIDE DEF q
  <2>3. Took(q, r, d)
    BY <1>4, <2>1, <2>2 DEF Took
  <2> QED
    BY <2>3 DEF q
<1> QED
  BY <1>3, <1>4

\* There are four built-in signals, which only raise the score.
LEMMA Signals ==
  ASSUME NEW in
  PROVE  /\ DOMAIN BuiltinSignals(in) = 1 .. 4
         /\ \A n \in 1 .. 4 : /\ BuiltinSignals(in)[n].score \in Nat
                              /\ BuiltinSignals(in)[n].verdict \in Word
<1> DEFINE signal == BuiltinSignals(in)
           harsh == IF in.swap = "high" THEN "block" ELSE "challenge"
           there1 == Swapped(in)
           there2 == in.result = "failed"
           there3 == in.confidence > 0 /\ in.confidence < 70
<1>1. signal = << Demand(there1, 50, harsh), Demand(there2, 20, "challenge"),
                  Demand(there3, 15, "challenge"), Demand(in.deviceChanged, 10, "allow") >>
  BY DEF BuiltinSignals
<1>2. harsh \in Word
  BY DEF Word
<1> HIDE DEF signal, harsh, there1, there2, there3
<1>3. DOMAIN signal = 1 .. 4
  BY <1>1
<1>4. /\ signal[1].score = 50 /\ signal[1].verdict = harsh
      /\ signal[2].score = 20 /\ signal[2].verdict = "challenge"
      /\ signal[3].score = 15 /\ signal[3].verdict = "challenge"
      /\ signal[4].score = 10 /\ signal[4].verdict = "allow"
  BY <1>1 DEF Demand
<1>5. \A n \in 1 .. 4 : signal[n].score \in Nat /\ signal[n].verdict \in Word
  BY <1>2, <1>4 DEF Word
<1> QED
  BY <1>3, <1>5 DEF signal

\* The results after each signal.
Steps4(in, r0, r1, r2, r3, r4) ==
  /\ r0 \in Result /\ r0.risk = in.risk /\ r0.verdict = "allow"
  /\ Took(r1, r0, BuiltinSignals(in)[1]) /\ Took(r2, r1, BuiltinSignals(in)[2])
  /\ Took(r3, r2, BuiltinSignals(in)[3]) /\ Took(r4, r3, BuiltinSignals(in)[4])
  /\ EvaluateBuiltinSignals(in) = r4

\* The results after each signal.
LEMMA SignalsInOrder ==
  ASSUME NEW in \in PolicyInput
  PROVE  \E r0, r1, r2, r3, r4 : Steps4(in, r0, r1, r2, r3, r4)
<1> DEFINE signal == BuiltinSignals(in)
           r0 == [risk |-> in.risk, verdict |-> "allow"]
           r1 == Meet(r0, signal[1])
           r2 == Meet(r1, signal[2])
           r3 == Meet(r2, signal[3])
           r4 == Meet(r3, signal[4])
<1>1. r0 \in Result /\ r0.risk = in.risk /\ r0.verdict = "allow"
  <2>1. in.risk \in Int
    BY DEF PolicyInput
  <2> QED
    BY <2>1 DEF Result, Word
<1>2. \A n \in 1 .. 4 : signal[n].score \in Int /\ signal[n].verdict \in Word
  BY Signals
<1>3. EvaluateBuiltinSignals(in) = r4
  BY DEF EvaluateBuiltinSignals
<1> HIDE DEF signal, r0
<1>4. Took(r1, r0, signal[1])
  BY <1>1, <1>2, Taking
<1>5. r1 \in Result
  BY <1>4 DEF Took
<1> HIDE DEF r1
<1>6. Took(r2, r1, signal[2])
  BY <1>2, <1>5, Taking
<1>7. r2 \in Result
  BY <1>6 DEF Took
<1> HIDE DEF r2
<1>8. Took(r3, r2, signal[3])
  BY <1>2, <1>7, Taking
<1>9. r3 \in Result
  BY <1>8 DEF Took
<1> HIDE DEF r3
<1>10. Took(r4, r3, signal[4])
  BY <1>2, <1>9, Taking
<1> HIDE DEF r4
<1>11. Steps4(in, r0, r1, r2, r3, r4)
  BY <1>1, <1>3, <1>4, <1>6, <1>8, <1>10 DEF Steps4, signal
<1> QED
  BY <1>11

\* The signals that are there are met, and nothing harsher is said.
LEMMA BuiltinEffect ==
  ASSUME NEW in \in PolicyInput
  PROVE  LET b == EvaluateBuiltinSignals(in) IN
         /\ b \in Result
         /\ \A d \in Range(BuiltinSignals(in)) : d.there => Severity(d.verdict) <= Severity(b.verdict)
         /\ \/ b.verdict = "allow"
            \/ \E d \in Range(BuiltinSignals(in)) : d.there /\ d.verdict = b.verdict
<1> DEFINE signal == BuiltinSignals(in)
<1>1. PICK r0, r1, r2, r3, r4 : Steps4(in, r0, r1, r2, r3, r4)
  BY SignalsInOrder
<1>2. /\ Took(r1, r0, signal[1]) /\ Took(r2, r1, signal[2])
      /\ Took(r3, r2, signal[3]) /\ Took(r4, r3, signal[4])
      /\ r0.verdict = "allow" /\ EvaluateBuiltinSignals(in) = r4
  BY <1>1 DEF Steps4
<1>3. DOMAIN signal = 1 .. 4
  BY Signals
<1> HIDE DEF signal
<1>4. /\ Severity(r1.verdict) <= Severity(r2.verdict)
      /\ Severity(r2.verdict) <= Severity(r3.verdict)
      /\ Severity(r3.verdict) <= Severity(r4.verdict)
      /\ r4 \in Result
  BY <1>2 DEF Took
<1>5. /\ signal[1].there => Severity(signal[1].verdict) <= Severity(r1.verdict)
      /\ signal[2].there => Severity(signal[2].verdict) <= Severity(r2.verdict)
      /\ signal[3].there => Severity(signal[3].verdict) <= Severity(r3.verdict)
      /\ signal[4].there => Severity(signal[4].verdict) <= Severity(r4.verdict)
  BY <1>2 DEF Took
<1>6. \A n \in 1 .. 4 : signal[n].there => Severity(signal[n].verdict) <= Severity(r4.verdict)
  <2>1. signal[1].there => Severity(signal[1].verdict) <= Severity(r4.verdict)
    BY <1>4, <1>5, Severe
  <2>2. signal[2].there => Severity(signal[2].verdict) <= Severity(r4.verdict)
    BY <1>4, <1>5, Severe
  <2>3. signal[3].there => Severity(signal[3].verdict) <= Severity(r4.verdict)
    BY <1>4, <1>5, Severe
  <2> QED
    BY <1>5, <2>1, <2>2, <2>3
<1>7. r4.verdict = "allow" \/ \E n \in 1 .. 4 : signal[n].there /\ signal[n].verdict = r4.verdict
  <2>1. /\ r1.verdict = r0.verdict \/ (signal[1].there /\ r1.verdict = signal[1].verdict)
        /\ r2.verdict = r1.verdict \/ (signal[2].there /\ r2.verdict = signal[2].verdict)
        /\ r3.verdict = r2.verdict \/ (signal[3].there /\ r3.verdict = signal[3].verdict)
        /\ r4.verdict = r3.verdict \/ (signal[4].there /\ r4.verdict = signal[4].verdict)
    BY <1>2 DEF Took
  <2>2. 1 \in 1 .. 4 /\ 2 \in 1 .. 4 /\ 3 \in 1 .. 4 /\ 4 \in 1 .. 4
    OBVIOUS
  <2> QED
    BY <1>2, <2>1, <2>2
<1>8. /\ \A n \in 1 .. 4 : signal[n] \in Range(signal)
      /\ \A d \in Range(signal) : \E n \in 1 .. 4 : d = signal[n]
  BY <1>3 DEF Range
<1> QED
  BY <1>2, <1>4, <1>6, <1>7, <1>8 DEF signal
-----------------------------------------------------------------------------
(* The policies that apply *)

\* The policies applied are those of the list that apply.
LEMMA Filtering ==
  ASSUME NEW list \in Seq(Policy), NEW in
  PROVE  LET kept == FilterPolicies(list, in) IN
         /\ kept \in Seq(Policy)
         /\ \A n \in 1 .. Len(kept) : kept[n] \in Range(list) /\ Applies(kept[n], in)
         /\ \A p \in Range(list) : Applies(p, in) => \E n \in 1 .. Len(kept) : kept[n] = p
<1> DEFINE S == {i \in DOMAIN list : Applies(list[i], in)}
           kept == ByPriority(list, S)
<1>1. FilterPolicies(list, in) = kept
  BY DEF FilterPolicies
<1>2. S \in SUBSET (DOMAIN list) /\ \A p \in Policy : p.priority \in Int
  BY DEF Policy
<1>3. \A i \in S : list[i] \in Range(list) /\ Applies(list[i], in)
  BY DEF Range
<1>4. \A p \in Range(list) : Applies(p, in) => \E i \in S : p = list[i]
  BY DEF Range
<1> HIDE DEF S
<1>5. Holds(kept, list, S, Policy)
  BY <1>2, Sorting
<1> HIDE DEF kept
<1>6. /\ kept \in Seq(Policy)
      /\ \A n \in 1 .. Len(kept) : \E i \in S : kept[n] = list[i]
      /\ \A i \in S : \E n \in 1 .. Len(kept) : kept[n] = list[i]
  BY <1>5 DEF Holds
<1>7. \A n \in 1 .. Len(kept) : kept[n] \in Range(list) /\ Applies(kept[n], in)
  BY <1>3, <1>6
<1>8. \A p \in Range(list) : Applies(p, in) => \E n \in 1 .. Len(kept) : kept[n] = p
  BY <1>4, <1>6
<1> QED
  BY <1>1, <1>6, <1>7, <1>8

\* The sums of a list are numbers.
LEMMA Summing ==
  ASSUME NEW list \in Seq(Policy)
  PROVE  Adjustments(list, -1) \in Int /\ Adjustments(list, 1) \in Int
<1> DEFINE N == Len(list)
<1>1. N \in Nat
  OBVIOUS
<1>2. PICK lo : /\ lo \in [0 .. N -> Int]
                /\ Adjustments(list, -1) = lo[N]
  <2>1. PICK lo : SumsPolicies(lo, list, -1)
    BY PolicySums
  <2> QED
    BY <2>1 DEF SumsPolicies
<1>3. PICK hi : /\ hi \in [0 .. N -> Int]
                /\ Adjustments(list, 1) = hi[N]
  <2>1. PICK hi : SumsPolicies(hi, list, 1)
    BY PolicySums
  <2> QED
    BY <2>1 DEF SumsPolicies
<1> HIDE DEF N
<1> QED
  BY <1>1, <1>2, <1>3

\* The whole evaluation, with the scores at which rules may be looked at.
LEMMA Evaluating ==
  ASSUME NEW list \in Seq(Policy), NEW in \in PolicyInput, NEW hour \in Int
  PROVE  LET b == EvaluateBuiltinSignals(in)
             kept == FilterPolicies(list, in)
             q == EvaluatePolicyRules(kept, in, hour, b)
         IN /\ ListEffect(q, b, kept, in, hour, b.risk + Adjustments(kept, -1),
                          b.risk + Adjustments(kept, 1))
            /\ Evaluate(list, in, hour) = [verdict |-> q.verdict, riskLevel |-> RiskLevel(q.risk)]
<1> DEFINE b == EvaluateBuiltinSignals(in)
           kept == FilterPolicies(list, in)
           q == EvaluatePolicyRules(kept, in, hour, b)
           low == b.risk + Adjustments(kept, -1)
           high == b.risk + Adjustments(kept, 1)
<1>1. b \in Result /\ kept \in Seq(Policy)
  BY BuiltinEffect, Filtering
<1>2. Evaluate(list, in, hour) = [verdict |-> q.verdict, riskLevel |-> RiskLevel(q.risk)]
  BY DEF Evaluate
<1> HIDE DEF b, kept
<1>3. b.risk \in Int /\ Adjustments(kept, -1) \in Int /\ Adjustments(kept, 1) \in Int
  BY <1>1, Summing DEF Result
<1>4. low \in Int /\ high \in Int /\ low <= low /\ high <= high
  BY <1>3
<1>5. ListEffect(q, b, kept, in, hour, low, high)
  BY <1>1, <1>4, PoliciesEffect
<1> QED
  BY <1>2, <1>5 DEF b, kept
-----------------------------------------------------------------------------
(* What the engine answers *)

EngineIInv ==
  \/ ask = NoAsk
  \/ /\ ask.in \in Inputs /\ ask.list \in Lists /\ ask.hour \in Hours
     /\ answer = Evaluate(ask.list, ask.in, ask.hour)

\* An answer is that of the input, list and hour that were asked.
THEOREM EngineInvariance == EngineSpec => []EngineIInv
<1>1. EngineInit => EngineIInv
  BY DEF EngineInit, EngineIInv
<1>2. EngineIInv /\ [EngineNext]_engineVars => EngineIInv'
  <2> SUFFICES ASSUME EngineIInv, [EngineNext]_engineVars PROVE EngineIInv'
    OBVIOUS
  <2>1. ASSUME NEW in \in Inputs, NEW list \in Lists, NEW hour \in Hours,
               EvaluateVerdict(in, list, hour)
        PROVE  EngineIInv'
    BY <2>1 DEF EvaluateVerdict, EngineIInv
  <2>2. CASE Forget
    BY <2>2 DEF Forget, EngineIInv, NoAsk
  <2>3. CASE UNCHANGED engineVars
    BY <2>3 DEF engineVars, EngineIInv, NoAsk
  <2> QED
    BY <2>1, <2>2, <2>3 DEF EngineNext
<1> QED
  BY <1>1, <1>2, PTL DEF EngineSpec

\* One evaluation.  The score a rule looks at lies between the lowest and the highest,
\* and a rule that matches at a score matches at a higher one.
LEMMA Wins ==
  ASSUME NEW list \in Seq(Policy), NEW in \in PolicyInput, NEW hour \in Int,
         ask.in = in, ask.list = list, ask.hour = hour, answer = Evaluate(list, in, hour)
  PROVE  MostRestrictiveWins
<1> DEFINE b == EvaluateBuiltinSignals(in)
           kept == FilterPolicies(list, in)
           q == EvaluatePolicyRules(kept, in, hour, b)
           low == b.risk + Adjustments(kept, -1)
           high == b.risk + Adjustments(kept, 1)
           v0 == answer.verdict
<1>1. ListEffect(q, b, kept, in, hour, low, high) /\ v0 = q.verdict
  <2>1. answer = [verdict |-> q.verdict, riskLevel |-> RiskLevel(q.risk)]
    BY Evaluating
  <2> QED
    BY <2>1, Evaluating
<1>2. /\ kept \in Seq(Policy)
      /\ \A n \in 1 .. Len(kept) : kept[n] \in Range(list) /\ Applies(kept[n], in)
      /\ \A p \in Range(list) : Applies(p, in) => \E n \in 1 .. Len(kept) : kept[n] = p
  BY Filtering
<1>3. /\ \A d \in Range(BuiltinSignals(in)) : d.there => Severity(d.verdict) <= Severity(b.verdict)
      /\ b.verdict = "allow" \/ \E d \in Range(BuiltinSignals(in)) : d.there /\ d.verdict = b.verdict
  BY BuiltinEffect
<1>4. \A p \in Applied : /\ p \in Range(list) /\ Applies(p, in)
                         /\ p.simSwapAction \in STRING
                         /\ \A rule \in Range(p.rules) : rule.verdict \in STRING
  <2> SUFFICES ASSUME NEW p \in Applied
               PROVE  /\ p \in Range(list) /\ Applies(p, in)
                      /\ p.simSwapAction \in STRING
                      /\ \A rule \in Range(p.rules) : rule.verdict \in STRING
    OBVIOUS
  <2>1. p \in Range(list) /\ Applies(p, in)
    BY DEF Applied
  <2>2. p \in Policy
    BY <2>1 DEF Range
  <2>3. \A rule \in Range(p.rules) : rule \in Rule
    BY <2>2 DEF Range, Policy
  <2> QED
    BY <2>1, <2>2, <2>3 DEF Policy, Rule
<1>5. \A n \in 1 .. Len(kept) : kept[n] \in Applied
  BY <1>2 DEF Applied
<1>6. MostRestrictiveWins <=> (Evaluated =>
        /\ \A v \in AskedFor(low) : Severity(v) <= Severity(v0)
        /\ \E v \in AskedFor(high) \union {"allow"} : Severity(v) >= Severity(v0))
  BY DEF MostRestrictiveWins
<1> HIDE DEF b, kept, q, low, high, v0
<1>7. /\ Severity(b.verdict) <= Severity(v0)
      /\ \A n \in 1 .. Len(kept) : \A v \in Asks(kept[n], in, low, hour) : Severity(v) <= Severity(v0)
      /\ v0 = b.verdict \/ \E n \in 1 .. Len(kept) : v0 \in Asks(kept[n], in, high, hour)
  BY <1>1 DEF ListEffect
<1>8. ASSUME NEW v \in AskedFor(low) PROVE Severity(v) <= Severity(v0)
  <2>1. CASE v \in {d.verdict : d \in {e \in Range(BuiltinSignals(ask.in)) : e.there}}
    <3>1. Severity(v) <= Severity(b.verdict)
      BY <1>3, <2>1
    <3> QED
      BY <1>7, <3>1, Severe
  <2>2. CASE v \in {p.simSwapAction : p \in {p \in Applied : Swapped(ask.in)}}
    <3>1. PICK p \in Applied : Swapped(in) /\ v = p.simSwapAction
      BY <2>2
    <3>2. PICK n \in 1 .. Len(kept) : kept[n] = p
      BY <1>2, <1>4
    <3>3. v \in Asks(kept[n], in, low, hour)
      BY <1>4, <3>1, <3>2 DEF Asks, Word
    <3> QED
      BY <1>7, <3>3
  <2>3. CASE v \in {rule.verdict : rule \in {rl \in Rules :
                      rl.enabled /\ MatchesCondition(rl.condition, ask.in, low, ask.hour)}}
    <3>1. PICK rule \in Rules : rule.enabled /\ MatchesCondition(rule.condition, in, low, hour)
                                /\ v = rule.verdict
      BY <2>3
    <3>2. PICK p \in Applied : rule \in Range(p.rules)
      BY DEF Rules
    <3>3. PICK n \in 1 .. Len(kept) : kept[n] = p
      BY <1>2, <1>4
    <3>4. v \in Asks(kept[n], in, low, hour)
      BY <1>4, <3>1, <3>2, <3>3 DEF Asks, Word
    <3> QED
      BY <1>7, <3>4
  <2> QED
    BY <1>8, <2>1, <2>2, <2>3 DEF AskedFor
<1>9. v0 \in AskedFor(high) \union {"allow"}
  <2>1. CASE v0 = b.verdict
    BY <1>3, <2>1 DEF AskedFor
  <2>2. CASE \E n \in 1 .. Len(kept) : v0 \in Asks(kept[n], in, high, hour)
    <3>1. PICK n \in 1 .. Len(kept) : v0 \in Asks(kept[n], in, high, hour)
      BY <2>2
    <3> DEFINE p == kept[n]
    <3>2. p \in Applied
      BY <1>5
    <3> HIDE DEF p
    <3>3. CASE Swapped(in) /\ v0 = p.simSwapAction
      BY <3>2, <3>3 DEF AskedFor
    <3>4. CASE \E rule \in Range(p.rules) :
                 rule.enabled /\ MatchesCondition(rule.condition, in, high, hour) /\ v0 = rule.verdict
      <4>1. PICK rule \in Range(p.rules) :
                 rule.enabled /\ MatchesCondition(rule.condition, in, high, hour) /\ v0 = rule.verdict
        BY <3>4
      <4>2. rule \in Rules
        BY <3>2, <4>1 DEF Rules
      <4> QED
        BY <4>1, <4>2 DEF AskedFor
    <3> QED
      BY <3>1, <3>3, <3>4 DEF Asks, p
  <2> QED
    BY <1>7, <2>1, <2>2
<1>10. Severity(v0) >= Severity(v0)
  BY Severe
<1> QED
  BY <1>6, <1>8, <1>9, <1>10

\* "Most restrictive verdict wins", whatever the order of policies and rules.
THEOREM TheMostRestrictiveWins == EngineSpec => []MostRestrictiveWins
<1>1. EngineIInv => MostRestrictiveWins
  <2> SUFFICES ASSUME EngineIInv, Evaluated PROVE MostRestrictiveWins
    BY DEF MostRestrictiveWins
  <2>1. /\ ask.in \in PolicyInput /\ ask.list \in Seq(Policy) /\ ask.hour \in Int
        /\ answer = Evaluate(ask.list, ask.in, ask.hour)
    BY EngineAssumption DEF EngineIInv, Evaluated
  <2> QED
    BY <2>1, Wins
<1> QED
  BY <1>1, EngineInvariance, PTL

\* An hour belongs to exactly one of a range and the range back.
THEOREM TheRangesPartTheDay == EngineSpec => []RangesPartTheDay
<1>1. EngineIInv => RangesPartTheDay
  <2> SUFFICES ASSUME EngineIInv, Evaluated,
                      NEW p \in Range(ask.list), NEW rule \in Range(p.rules),
                      NEW range \in rule.condition.hourRange, range[1] # range[2]
               PROVE  InHours(range, ask.hour) <=> ~InHours(<<range[2], range[1]>>, ask.hour)
    BY DEF RangesPartTheDay
  <2>1. ask.list \in Seq(Policy) /\ ask.hour \in Int
    BY EngineAssumption DEF EngineIInv, Evaluated
  <2>2. p \in Policy
    BY <2>1 DEF Range
  <2>3. rule \in Rule
    BY <2>2 DEF Range, Policy
  <2>4. range \in Int \X Int
    BY <2>3 DEF Rule, Condition
  <2> DEFINE from == range[1]
             to == range[2]
             hour == ask.hour
             back == <<range[2], range[1]>>
  <2>5. from \in Int /\ to \in Int /\ hour \in Int /\ back[1] = to /\ back[2] = from /\ from # to
    BY <2>1, <2>4
  <2>6. InHours(range, hour) <=> IF from <= to THEN from <= hour /\ hour < to
                                 ELSE from <= hour \/ hour < to
    BY DEF InHours
  <2>7. InHours(back, hour) <=> IF to <= from THEN to <= hour /\ hour < from
                                ELSE to <= hour \/ hour < from
    BY <2>5 DEF InHours
  <2> HIDE DEF from, to, hour, back
  <2>8. InHours(range, hour) <=> ~InHours(back, hour)
    BY <2>5, <2>6, <2>7
  <2> QED
    BY <2>8 DEF hour, back
<1> QED
  BY <1>1, EngineInvariance, PTL
-----------------------------------------------------------------------------
(* More signals *)

Milder(a, b) ==
  /\ a \in Result /\ b \in Result
  /\ a.risk <= b.risk /\ Severity(a.verdict) <= Severity(b.verdict)

\* Nothing the demand d asks for is not asked for by e, too.
Softer(d, e) ==
  /\ d.score \in Int /\ e.score \in Nat /\ d.verdict \in Word /\ e.verdict \in Word
  /\ d.there => /\ e.there /\ d.score = e.score
                /\ Severity(d.verdict) <= Severity(e.verdict)

\* Meeting a demand that is no softer keeps a result no milder.
LEMMA MeetsMilder ==
  ASSUME NEW a, NEW b, Milder(a, b), NEW d, NEW e, Softer(d, e)
  PROVE  Milder(Meet(a, d), Meet(b, e))
<1> DEFINE p == Meet(a, d)
           q == Meet(b, e)
<1>1. a \in Result /\ b \in Result /\ a.risk \in Int /\ b.risk \in Int
      /\ a.risk <= b.risk /\ Severity(a.verdict) <= Severity(b.verdict)
  BY DEF Milder, Result
<1>2. /\ d.score \in Int /\ e.score \in Nat /\ d.verdict \in Word /\ e.verdict \in Word
      /\ d.there => e.there /\ d.score = e.score /\ Severity(d.verdict) <= Severity(e.verdict)
  BY DEF Softer
<1>3. Took(p, a, d) /\ Took(q, b, e)
  BY <1>1, <1>2, Taking
<1> HIDE DEF p, q
<1>4. /\ p \in Result /\ q \in Result
      /\ p.risk = a.risk + (IF d.there THEN d.score ELSE 0)
      /\ q.risk = b.risk + (IF e.there THEN e.score ELSE 0)
      /\ Severity(b.verdict) <= Severity(q.verdict)
      /\ e.there => Severity(e.verdict) <= Severity(q.verdict)
      /\ p.verdict = a.verdict \/ (d.there /\ p.verdict = d.verdict)
  BY <1>3 DEF Took
<1>5. p.risk <= q.risk
  <2> DEFINE down == IF d.there THEN d.score ELSE 0
             up == IF e.there THEN e.score ELSE 0
  <2>1. down \in Int /\ up \in Int /\ down <= up
    BY <1>2
  <2>2. p.risk = a.risk + down /\ q.risk = b.risk + up
    BY <1>4
  <2> HIDE DEF down, up
  <2> QED
    BY <1>1, <2>1, <2>2
<1>6. Severity(p.verdict) <= Severity(q.verdict)
  <2>1. CASE p.verdict = a.verdict
    BY <1>1, <1>4, <2>1, Severe
  <2>2. CASE d.there /\ p.verdict = d.verdict
    <3>1. Severity(p.verdict) <= Severity(e.verdict) /\ e.there
      BY <1>2, <2>2
    <3> QED
      BY <1>4, <3>1, Severe
  <2> QED
    BY <1>4, <2>1, <2>2
<1>7. Milder(p, q)
  BY <1>4, <1>5, <1>6 DEF Milder
<1> QED
  BY <1>7 DEF p, q

\* More signals are at least the same signals.
LEMMA SwapOfMore ==
  ASSUME NEW in, NEW less, AtLeast(in, less)
  PROVE  /\ Swapped(less) => Swapped(in)
         /\ less.swap = "high" => in.swap = "high"
         /\ less.result = "failed" => in.result = "failed"
         /\ less.deviceChanged => in.deviceChanged
BY DEF AtLeast, Swapped

\* All that the two inputs may differ in.
LEMMA Alike ==
  ASSUME NEW in \in PolicyInput, NEW less \in PolicyInput, AtLeast(in, less)
  PROVE  /\ in.country = less.country /\ in.operator = less.operator
         /\ in.useCase = less.useCase /\ in.channel = less.channel
         /\ in.confidence = less.confidence /\ in.risk = less.risk
BY DEF AtLeast, PolicyInput

\* Signals more never make what the built-in signals say milder.
LEMMA SignalsMilder ==
  ASSUME NEW in \in PolicyInput, NEW less \in PolicyInput, AtLeast(in, less)
  PROVE  Milder(EvaluateBuiltinSignals(less), EvaluateBuiltinSignals(in))
<1> DEFINE s == BuiltinSignals(less)
           t == BuiltinSignals(in)
           harsh == IF less.swap = "high" THEN "block" ELSE "challenge"
           harsher == IF in.swap = "high" THEN "block" ELSE "challenge"
           there1 == Swapped(less)
           more1 == Swapped(in)
           there2 == less.result = "failed"
           more2 == in.result = "failed"
           there3 == less.confidence > 0 /\ less.confidence < 70
           more3 == in.confidence > 0 /\ in.confidence < 70
           there4 == less.deviceChanged
           more4 == in.deviceChanged
<1>1. /\ s = << Demand(there1, 50, harsh), Demand(there2, 20, "challenge"),
                Demand(there3, 15, "challenge"), Demand(there4, 10, "allow") >>
      /\ t = << Demand(more1, 50, harsher), Demand(more2, 20, "challenge"),
                Demand(more3, 15, "challenge"), Demand(more4, 10, "allow") >>
  BY DEF BuiltinSignals
<1>2. /\ there1 => more1
      /\ there2 => more2
      /\ there3 => more3
      /\ there4 => more4
  BY SwapOfMore, Alike
<1>3. Severity(harsh) <= Severity(harsher)
  <2>1. harsh = harsher \/ (harsh = "challenge" /\ harsher = "block")
    BY SwapOfMore
  <2>2. Severity("challenge") <= Severity("block")
    BY DEF Severity, Severities
  <2> HIDE DEF harsh, harsher
  <2> QED
    BY <2>1, <2>2, Severe
<1>4. \A n \in 1 .. 4 : /\ s[n].score \in Int /\ s[n].verdict \in Word
                        /\ t[n].score \in Nat /\ t[n].verdict \in Word
  BY Signals
<1> HIDE DEF s, t, harsh, harsher, there1, more1, there2, more2, there3, more3, there4, more4
<1>5. /\ s[1] = Demand(there1, 50, harsh) /\ t[1] = Demand(more1, 50, harsher)
      /\ s[2] = Demand(there2, 20, "challenge") /\ t[2] = Demand(more2, 20, "challenge")
      /\ s[3] = Demand(there3, 15, "challenge") /\ t[3] = Demand(more3, 15, "challenge")
      /\ s[4] = Demand(there4, 10, "allow") /\ t[4] = Demand(more4, 10, "allow")
  BY <1>1
<1>6. Softer(s[1], t[1]) /\ Softer(s[2], t[2]) /\ Softer(s[3], t[3]) /\ Softer(s[4], t[4])
  <2>1. Softer(s[1], t[1])
    BY <1>2, <1>3, <1>4, <1>5 DEF Softer, Demand
  <2>2. Softer(s[2], t[2])
    BY <1>2, <1>4, <1>5, Severe DEF Softer, Demand
  <2>3. Softer(s[3], t[3])
    BY <1>2, <1>4, <1>5, Severe DEF Softer, Demand
  <2>4. Softer(s[4], t[4])
    BY <1>2, <1>4, <1>5, Severe DEF Softer, Demand
  <2> QED
    BY <2>1, <2>2, <2>3, <2>4
<1> DEFINE a == [risk |-> less.risk, verdict |-> "allow"]
           b == [risk |-> in.risk, verdict |-> "allow"]
<1>7. Milder(a, b)
  <2>1. less.risk = in.risk /\ in.risk \in Int /\ in.risk <= in.risk
    BY Alike DEF PolicyInput
  <2>2. a \in Result /\ b = a
    BY <2>1 DEF Result, Word
  <2> QED
    BY <2>1, <2>2, Severe DEF Milder
<1>8. /\ EvaluateBuiltinSignals(less) = Meet(Meet(Meet(Meet(a, s[1]), s[2]), s[3]), s[4])
      /\ EvaluateBuiltinSignals(in) = Meet(Meet(Meet(Meet(b, t[1]), t[2]), t[3]), t[4])
  BY DEF EvaluateBuiltinSignals, s, t
<1> HIDE DEF a, b
<1>9. Milder(Meet(a, s[1]), Meet(b, t[1]))
  BY <1>6, <1>7, MeetsMilder
<1>10. Milder(Meet(Meet(a, s[1]), s[2]), Meet(Meet(b, t[1]), t[2]))
  BY <1>6, <1>9, MeetsMilder
<1>11. Milder(Meet(Meet(Meet(a, s[1]), s[2]), s[3]), Meet(Meet(Meet(b, t[1]), t[2]), t[3]))
  BY <1>6, <1>10, MeetsMilder
<1>12. Milder(Meet(Meet(Meet(Meet(a, s[1]), s[2]), s[3]), s[4]),
              Meet(Meet(Meet(Meet(b, t[1]), t[2]), t[3]), t[4]))
  BY <1>6, <1>11, MeetsMilder
<1> QED
  BY <1>8, <1>12

\* A rule that is for no absence and matches, matches when more signals are there.
LEMMA MatchesWithMore ==
  ASSUME NEW rule \in Rule, OnlyRaises(rule), NEW in \in PolicyInput, NEW less \in PolicyInput,
         AtLeast(in, less), NEW hour, NEW s \in Int, NEW t \in Int, s <= t,
         MatchesCondition(rule.condition, less, s, hour)
  PROVE  MatchesCondition(rule.condition, in, t, hour)
<1> DEFINE c == rule.condition
           there == Swapped(less)
           more == Swapped(in)
           failed == less.result = "failed"
           failedMore == in.result = "failed"
           changed == less.deviceChanged
           changedMore == in.deviceChanged
<1>1. c \in Condition
  BY DEF Rule
<1>2. /\ c.swapDetected \in SUBSET BOOLEAN /\ c.verificationFailed \in SUBSET BOOLEAN
      /\ c.deviceChanged \in SUBSET BOOLEAN
  BY <1>1 DEF Condition
<1>3. /\ FALSE \notin c.swapDetected /\ FALSE \notin c.verificationFailed
      /\ FALSE \notin c.deviceChanged
  BY DEF OnlyRaises
<1>4. MatchesCondition(c, less, t, hour)
  BY <1>1, MatchesMore
<1>5. (there => more) /\ (failed => failedMore) /\ (changed => changedMore)
  BY SwapOfMore
<1>6. /\ there \in BOOLEAN /\ more \in BOOLEAN /\ failed \in BOOLEAN /\ failedMore \in BOOLEAN
      /\ changed \in BOOLEAN /\ changedMore \in BOOLEAN
  BY DEF PolicyInput, Swapped
<1>7. Admits(c.swapDetected, there) /\ Admits(c.verificationFailed, failed)
      /\ Admits(c.deviceChanged, changed)
  BY <1>4 DEF MatchesCondition
<1>8. MatchesCondition(c, in, t, hour) <=>
        /\ Admits(c.countries, in.country) /\ Admits(c.operators, in.operator)
        /\ Admits(c.useCases, in.useCase) /\ Admits(c.channels, in.channel)
        /\ Admits(c.swapDetected, more) /\ Admits(c.verificationFailed, failedMore)
        /\ \A limit \in c.confidenceBelow : in.confidence < limit
        /\ Admits(c.deviceChanged, changedMore)
        /\ \A limit \in c.riskScoreAbove : t > limit
        /\ \A range \in c.hourRange : InHours(range, hour)
  BY DEF MatchesCondition
<1>9. /\ Admits(c.countries, in.country) /\ Admits(c.operators, in.operator)
      /\ Admits(c.useCases, in.useCase) /\ Admits(c.channels, in.channel)
      /\ \A limit \in c.confidenceBelow : in.confidence < limit
      /\ \A limit \in c.riskScoreAbove : t > limit
      /\ \A range \in c.hourRange : InHours(range, hour)
  BY <1>4, Alike DEF MatchesCondition
<1> HIDE DEF c, there, more, failed, failedMore, changed, changedMore
<1>10. ASSUME NEW X \in SUBSET BOOLEAN, FALSE \notin X, NEW x \in BOOLEAN, NEW y \in BOOLEAN,
              x => y, Admits(X, x)
       PROVE  Admits(X, y)
  BY <1>10 DEF Admits
<1>11. /\ Admits(c.swapDetected, more) /\ Admits(c.verificationFailed, failedMore)
       /\ Admits(c.deviceChanged, changedMore)
  BY <1>2, <1>3, <1>5, <1>6, <1>7, <1>10
<1> QED
  BY <1>8, <1>9, <1>11 DEF c

\* Nor what a rule makes of it,
LEMMA RuleMilder ==
  ASSUME NEW a, NEW b, Milder(a, b), NEW rule \in Rule, OnlyRaises(rule),
         NEW in \in PolicyInput, NEW less \in PolicyInput, AtLeast(in, less), NEW hour
  PROVE  Milder(ApplyRule(a, rule, less, hour), ApplyRule(b, rule, in, hour))
<1> DEFINE there == rule.enabled /\ MatchesCondition(rule.condition, less, a.risk, hour)
           more == rule.enabled /\ MatchesCondition(rule.condition, in, b.risk, hour)
           d == Demand(there, rule.riskAdjustment, rule.verdict)
           e == Demand(more, rule.riskAdjustment, rule.verdict)
<1>1. a.risk \in Int /\ b.risk \in Int /\ a.risk <= b.risk
  BY DEF Milder, Result
<1>2. there => more
  BY <1>1, MatchesWithMore
<1>3. rule.riskAdjustment \in Nat /\ rule.riskAdjustment \in Int /\ rule.verdict \in Word
  BY DEF OnlyRaises, Rule, Word
<1>4. ApplyRule(a, rule, less, hour) = Meet(a, d) /\ ApplyRule(b, rule, in, hour) = Meet(b, e)
  BY DEF ApplyRule
<1> HIDE DEF there, more
<1>5. Softer(d, e)
  BY <1>2, <1>3, Severe DEF Softer, Demand
<1> HIDE DEF d, e
<1> QED
  BY <1>4, <1>5, MeetsMilder

\* nor the rules of a policy,
LEMMA RulesMilder ==
  ASSUME NEW a, NEW b, Milder(a, b), NEW p \in Policy, \A rule \in Range(p.rules) : OnlyRaises(rule),
         NEW in \in PolicyInput, NEW less \in PolicyInput, AtLeast(in, less), NEW hour \in Int
  PROVE  Milder(EvaluateRules(p, less, hour, a), EvaluateRules(p, in, hour, b))
<1> DEFINE N == Len(p.rules)
           rules == SortedRules(p)
<1>1. N \in Nat /\ \A n \in 1 .. N : rules[n] \in Rule /\ OnlyRaises(rules[n])
  BY RulesSorted
<1>2. a \in Result /\ b \in Result
  BY DEF Milder
<1>3. PICK f : /\ f \in [0 .. N -> Result] /\ f[0] = a
               /\ \A n \in 1 .. N : f[n] = ApplyRule(f[n - 1], rules[n], less, hour)
               /\ EvaluateRules(p, less, hour, a) = f[N]
  <2>1. PICK f : RunsRules(f, p, less, hour, a)
    BY <1>2, RulesInOrder
  <2> QED
    BY <2>1 DEF RunsRules
<1>4. PICK g : /\ g \in [0 .. N -> Result] /\ g[0] = b
               /\ \A n \in 1 .. N : g[n] = ApplyRule(g[n - 1], rules[n], in, hour)
               /\ EvaluateRules(p, in, hour, b) = g[N]
  <2>1. PICK g : RunsRules(g, p, in, hour, b)
    BY <1>2, RulesInOrder
  <2> QED
    BY <2>1 DEF RunsRules
<1> HIDE DEF N, rules
<1> DEFINE T == {n \in 0 .. N : Milder(f[n], g[n])}
<1>5. 0 \in T
  BY <1>1, <1>3, <1>4
<1>6. ASSUME NEW n \in 1 .. N, n - 1 \in T PROVE n \in T
  <2>1. Milder(f[n - 1], g[n - 1])
    BY <1>6
  <2>2. Milder(ApplyRule(f[n - 1], rules[n], less, hour), ApplyRule(g[n - 1], rules[n], in, hour))
    BY <1>1, <2>1, RuleMilder
  <2>3. n \in 0 .. N
    BY <1>1
  <2> QED
    BY <1>3, <1>4, <2>2, <2>3
<1> HIDE DEF T
<1>7. 0 .. N \subseteq T
  BY <1>1, <1>5, <1>6, IntervalInduction
<1>8. N \in 0 .. N
  BY <1>1
<1>9. Milder(f[N], g[N])
  BY <1>7, <1>8 DEF T
<1> QED
  BY <1>3, <1>4, <1>9

\* nor a policy,
LEMMA PolicyMilder ==
  ASSUME NEW a, NEW b, Milder(a, b), NEW p \in Policy, \A rule \in Range(p.rules) : OnlyRaises(rule),
         NEW in \in PolicyInput, NEW less \in PolicyInput, AtLeast(in, less), NEW hour \in Int
  PROVE  Milder(ApplyPolicy(a, p, less, hour), ApplyPolicy(b, p, in, hour))
<1> DEFINE there == Swapped(less)
           more == Swapped(in)
           d == Demand(there, 0, p.simSwapAction)
           e == Demand(more, 0, p.simSwapAction)
<1>1. there => more
  BY SwapOfMore
<1>2. p.simSwapAction \in Word
  BY DEF Policy, Word
<1>3. /\ ApplyPolicy(a, p, less, hour) = EvaluateRules(p, less, hour, Meet(a, d))
      /\ ApplyPolicy(b, p, in, hour) = EvaluateRules(p, in, hour, Meet(b, e))
  BY DEF ApplyPolicy
<1> HIDE DEF there, more
<1>4. Softer(d, e)
  BY <1>1, <1>2, Severe DEF Softer, Demand
<1> HIDE DEF d, e
<1>5. Milder(Meet(a, d), Meet(b, e))
  BY <1>4, MeetsMilder
<1> QED
  BY <1>3, <1>5, RulesMilder

\* nor a list of policies.
LEMMA PoliciesMilder ==
  ASSUME NEW a, NEW b, Milder(a, b), NEW list \in Seq(Policy),
         \A n \in 1 .. Len(list) : \A rule \in Range(list[n].rules) : OnlyRaises(rule),
         NEW in \in PolicyInput, NEW less \in PolicyInput, AtLeast(in, less), NEW hour \in Int
  PROVE  Milder(EvaluatePolicyRules(list, less, hour, a), EvaluatePolicyRules(list, in, hour, b))
<1> DEFINE N == Len(list)
<1>1. N \in Nat /\ \A n \in 1 .. N : list[n] \in Policy /\ \A rule \in Range(list[n].rules) : OnlyRaises(rule)
  OBVIOUS
<1>2. a \in Result /\ b \in Result
  BY DEF Milder
<1>3. PICK f : /\ f \in [0 .. N -> Result] /\ f[0] = a
               /\ \A n \in 1 .. N : f[n] = ApplyPolicy(f[n - 1], list[n], less, hour)
               /\ EvaluatePolicyRules(list, less, hour, a) = f[N]
  <2>1. PICK f : RunsPolicies(f, list, less, hour, a)
    BY <1>2, PoliciesInOrder
  <2> QED
    BY <2>1 DEF RunsPolicies
<1>4. PICK g : /\ g \in [0 .. N -> Result] /\ g[0] = b
               /\ \A n \in 1 .. N : g[n] = ApplyPolicy(g[n - 1], list[n], in, hour)
               /\ EvaluatePolicyRules(list, in, hour, b) = g[N]
  <2>1. PICK g : RunsPolicies(g, list, in, hour, b)
    BY <1>2, PoliciesInOrder
  <2> QED
    BY <2>1 DEF RunsPolicies
<1> HIDE DEF N
<1> DEFINE T == {n \in 0 .. N : Milder(f[n], g[n])}
<1>5. 0 \in T
  BY <1>1, <1>3, <1>4
<1>6. ASSUME NEW n \in 1 .. N, n - 1 \in T PROVE n \in T
  <2>1. Milder(f[n - 1], g[n - 1])
    BY <1>6
  <2>2. Milder(ApplyPolicy(f[n - 1], list[n], less, hour), ApplyPolicy(g[n - 1], list[n], in, hour))
    BY <1>1, <2>1, PolicyMilder
  <2>3. n \in 0 .. N
    BY <1>1
  <2> QED
    BY <1>3, <1>4, <2>2, <2>3
<1> HIDE DEF T
<1>7. 0 .. N \subseteq T
  BY <1>1, <1>5, <1>6, IntervalInduction
<1>8. N \in 0 .. N
  BY <1>1
<1>9. Milder(f[N], g[N])
  BY <1>7, <1>8 DEF T
<1> QED
  BY <1>3, <1>4, <1>9

\* Hence not the answer: the policies applied are the same.
LEMMA Raising ==
  ASSUME NEW list \in Seq(Policy), NEW in \in PolicyInput, NEW less \in PolicyInput, AtLeast(in, less),
         \A p \in Range(list) : Applies(p, in) => \A rule \in Range(p.rules) : OnlyRaises(rule),
         NEW hour \in Int
  PROVE  LET milder == Evaluate(list, less, hour)  answered == Evaluate(list, in, hour) IN
         /\ Severity(milder.verdict) <= Severity(answered.verdict)
         /\ answered.riskLevel = "low" => milder.riskLevel = "low"
         /\ milder.riskLevel = "high" => answered.riskLevel = "high"
<1> DEFINE kept == FilterPolicies(list, in)
           a == EvaluateBuiltinSignals(less)
           b == EvaluateBuiltinSignals(in)
           x == EvaluatePolicyRules(kept, less, hour, a)
           y == EvaluatePolicyRules(kept, in, hour, b)
<1>1. FilterPolicies(list, less) = kept
  <2>1. \A p : Applies(p, in) <=> Applies(p, less)
    BY Alike DEF Applies
  <2>2. {i \in DOMAIN list : Applies(list[i], in)} = {i \in DOMAIN list : Applies(list[i], less)}
    BY <2>1
  <2> QED
    BY <2>2 DEF FilterPolicies
<1>2. /\ kept \in Seq(Policy)
      /\ \A n \in 1 .. Len(kept) : \A rule \in Range(kept[n].rules) : OnlyRaises(rule)
  BY Filtering
<1>3. Milder(a, b)
  BY SignalsMilder
<1>4. /\ Evaluate(list, less, hour) = [verdict |-> x.verdict, riskLevel |-> RiskLevel(x.risk)]
      /\ Evaluate(list, in, hour) = [verdict |-> y.verdict, riskLevel |-> RiskLevel(y.risk)]
  BY <1>1 DEF Evaluate
<1> HIDE DEF kept, a, b
<1>5. Milder(x, y)
  BY <1>2, <1>3, PoliciesMilder
<1>6. x.risk \in Int /\ y.risk \in Int /\ x.risk <= y.risk
      /\ Severity(x.verdict) <= Severity(y.verdict)
  BY <1>5 DEF Milder, Result
<1> HIDE DEF x, y
<1>7. /\ RiskLevel(y.risk) = "low" => RiskLevel(x.risk) = "low"
      /\ RiskLevel(x.risk) = "high" => RiskLevel(y.risk) = "high"
  BY <1>6 DEF RiskLevel
<1> QED
  BY <1>4, <1>6, <1>7

\* A signal more never makes a verdict milder or a risk level lower, if no rule is
\* for its absence.
THEOREM TheSignalsNeverHelp == EngineSpec => []SignalsNeverHelp
<1>1. EngineIInv => SignalsNeverHelp
  <2> SUFFICES ASSUME EngineIInv, Evaluated, \A rule \in Rules : OnlyRaises(rule),
                      NEW less \in Inputs, AtLeast(ask.in, less)
               PROVE  LET milder == Evaluate(ask.list, less, ask.hour) IN
                      /\ Severity(milder.verdict) <= Severity(answer.verdict)
                      /\ answer.riskLevel = "low" => milder.riskLevel = "low"
                      /\ milder.riskLevel = "high" => answer.riskLevel = "high"
    BY DEF SignalsNeverHelp
  <2>1. /\ ask.in \in PolicyInput /\ ask.list \in Seq(Policy) /\ ask.hour \in Int
        /\ answer = Evaluate(ask.list, ask.in, ask.hour) /\ less \in PolicyInput
    BY EngineAssumption DEF EngineIInv, Evaluated
  <2>2. \A p \in Range(ask.list) : Applies(p, ask.in) => \A rule \in Range(p.rules) : OnlyRaises(rule)
    BY DEF Rules, Applied
  <2> QED
    BY <2>1, <2>2, Raising
<1> QED
  BY <1>1, EngineInvariance, PTL
=============================================================================
