------------------------------ MODULE Verdicts ------------------------------
(***************************************************************************)
(* How the policy engine reaches a verdict (service/policy/engine.go), as  *)
(* operators on an input, a list of policies and the hour of the day.      *)
(*                                                                         *)
(* An optional field of a condition is the set of the values it admits,    *)
(* empty if the field is not given.  Scores are whole numbers, confidence  *)
(* is in percent.  swap is "none" (no result), "no" (no swap detected) or  *)
(* the risk level of a detected swap.                                      *)
(***************************************************************************)
EXTENDS Integers, Sequences, FiniteSets, Functions

Severities == [challenge |-> 1, review |-> 2, block |-> 3]

\* Of a verdict; any other string counts as little as "allow".
Severity(v) == IF v \in DOMAIN Severities THEN Severities[v] ELSE 0

\* (Definitions named Bug_... are plausible mistakes, which the properties must catch.)
\* The latest demand wins.
Bug_Escalate(r, v) == IF v # "allow" THEN [risk |-> r.risk, verdict |-> v] ELSE r

Escalate(r, v) ==
  IF Severity(v) > Severity(r.verdict) THEN [risk |-> r.risk, verdict |-> v] ELSE r

AddRisk(r, score) == [risk |-> r.risk + score, verdict |-> r.verdict]

\* What one signal or rule asks for, if it is there.
Demand(there, score, v) == [there |-> there, score |-> score, verdict |-> v]

Meet(r, d) == IF d.there THEN Escalate(AddRisk(r, d.score), d.verdict) ELSE r

Swapped(in) == in.swap \notin {"none", "no"}

BuiltinSignals(in) ==
  << Demand(Swapped(in), 50, IF in.swap = "high" THEN "block" ELSE "challenge"),
     Demand(in.result = "failed", 20, "challenge"),
     Demand(in.confidence > 0 /\ in.confidence < 70, 15, "challenge"),
     Demand(in.deviceChanged, 10, "allow") >>

EvaluateBuiltinSignals(in) ==
  LET signal == BuiltinSignals(in)  r == [risk |-> in.risk, verdict |-> "allow"] IN
    Meet(Meet(Meet(Meet(r, signal[1]), signal[2]), signal[3]), signal[4])
-----------------------------------------------------------------------------
(* Rules *)

\* The hour at the end counted in.
Bug_InHours(range, hour) ==
  IF range[1] <= range[2] THEN range[1] <= hour /\ hour <= range[2]
  ELSE range[1] <= hour \/ hour < range[2]

InHours(range, hour) ==
  IF range[1] <= range[2] THEN range[1] <= hour /\ hour < range[2]
  ELSE range[1] <= hour \/ hour < range[2]

Admits(field, value) == field = {} \/ value \in field

MatchesCondition(c, in, score, hour) ==
  /\ Admits(c.countries, in.country) /\ Admits(c.operators, in.operator)
  /\ Admits(c.useCases, in.useCase) /\ Admits(c.channels, in.channel)
  /\ Admits(c.swapDetected, Swapped(in))
  /\ Admits(c.verificationFailed, in.result = "failed")
  /\ \A limit \in c.confidenceBelow : in.confidence < limit
  /\ Admits(c.deviceChanged, in.deviceChanged)
  /\ \A limit \in c.riskScoreAbove : score > limit
  /\ \A range \in c.hourRange : InHours(range, hour)

\* Whether a policy is applied; an empty use case or country of the input fits all.
Applies(p, in) ==
  /\ p.active
  /\ in.useCase \in {"", p.useCase}
  /\ in.country = "" \/ Admits(p.countries, in.country) \/ "*" \in p.countries

\* sort.Slice by priority: nothing is said of the order of equals, which the order
\* of the unsorted list stands for.
Before(list, i, j) ==
  \/ list[i].priority > list[j].priority
  \/ list[i].priority = list[j].priority /\ i < j

\* What is at the positions S of a list, in that order.
ByPriority(list, S) ==
  [k \in 1 .. Cardinality(S) |->
     list[CHOOSE i \in S : Cardinality({j \in S : Before(list, j, i)}) = k - 1]]

FilterPolicies(list, in) == ByPriority(list, {i \in DOMAIN list : Applies(list[i], in)})

SortedRules(p) == ByPriority(p.rules, DOMAIN p.rules)

ApplyRule(r, rule, in, hour) ==
  Meet(r, Demand(rule.enabled /\ MatchesCondition(rule.condition, in, r.risk, hour),
                 rule.riskAdjustment, rule.verdict))

EvaluateRules(p, in, hour, before) ==
  LET after[n \in 0 .. Len(p.rules)] ==
        IF n = 0 THEN before ELSE ApplyRule(after[n - 1], SortedRules(p)[n], in, hour)
  IN after[Len(p.rules)]

\* The policy's own action on a SIM swap, then its rules.
ApplyPolicy(r, p, in, hour) ==
  EvaluateRules(p, in, hour, Meet(r, Demand(Swapped(in), 0, p.simSwapAction)))

EvaluatePolicyRules(list, in, hour, before) ==
  LET after[n \in 0 .. Len(list)] ==
        IF n = 0 THEN before ELSE ApplyPolicy(after[n - 1], list[n], in, hour)
  IN after[Len(list)]

RiskLevel(score) == IF score >= 50 THEN "high" ELSE IF score >= 20 THEN "medium" ELSE "low"

\* Engine.Evaluate with what the resolver listed (nothing, if it failed).
Evaluate(list, in, hour) ==
  LET r == EvaluatePolicyRules(FilterPolicies(list, in), in, hour, EvaluateBuiltinSignals(in))
  IN [verdict |-> r.verdict, riskLevel |-> RiskLevel(r.risk)]
=============================================================================
