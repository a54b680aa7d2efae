---------------------------- MODULE PolicyEngine ----------------------------
(***************************************************************************)
(* Evaluation of one input after another against lists of policies with    *)
(* rules (service/policy/engine.go).  The hour of the day does not change  *)
(* during an evaluation.  The running server stores no rules and leaves    *)
(* most of the input empty (see PolicyStore); the engine is written, and   *)
(* tested, for all of it.                                                  *)
(***************************************************************************)
EXTENDS Verdicts

CONSTANTS
  Inputs,   \* what may be asked
  Lists,    \* what the resolver may list, in any order
  Hours     \* hours of the day

Condition ==
  [countries : SUBSET STRING, operators : SUBSET STRING, useCases : SUBSET STRING,
   channels : SUBSET STRING, swapDetected : SUBSET BOOLEAN, verificationFailed : SUBSET BOOLEAN,
   confidenceBelow : SUBSET Int, deviceChanged : SUBSET BOOLEAN, riskScoreAbove : SUBSET Int,
   hourRange : SUBSET (Int \X Int)]

Rule ==
  [condition : Condition, priority : Int, riskAdjustment : Int, verdict : STRING,
   enabled : BOOLEAN]

Policy ==
  [active : BOOLEAN, useCase : STRING, countries : SUBSET STRING, priority : Int,
   simSwapAction : STRING, rules : Seq(Rule)]

PolicyInput ==
  [swap : STRING, result : STRING, confidence : Int, deviceChanged : BOOLEAN,
   country : STRING, operator : STRING, useCase : STRING, channel : STRING, risk : Int]

ASSUME EngineAssumption ==
  Inputs \subseteq PolicyInput /\ Lists \subseteq Seq(Policy) /\ Hours \subseteq Int

VARIABLES ask, answer

engineVars == <<ask, answer>>

NoAsk == [in |-> [swap |-> "none"], list |-> << >>, hour |-> 0]

NoAnswer == [verdict |-> "allow", riskLevel |-> "low"]

EngineInit == ask = NoAsk /\ answer = NoAnswer

EvaluateVerdict(in, list, hour) ==
  /\ ask = NoAsk
  /\ ask' = [in |-> in, list |-> list, hour |-> hour]
  /\ answer' = Evaluate(list, in, hour)

\* The answer goes out; nothing is kept.
Forget == ask # NoAsk /\ ask' = NoAsk /\ answer' = NoAnswer

EngineNext ==
  \/ \E in \in Inputs, list \in Lists, hour \in Hours : EvaluateVerdict(in, list, hour)
  \/ Forget

EngineSpec == EngineInit /\ [][EngineNext]_engineVars
-----------------------------------------------------------------------------
(* Properties *)

Evaluated == ask # NoAsk

Applied == {p \in Range(ask.list) : Applies(p, ask.in)}

Rules == UNION {Range(p.rules) : p \in Applied}

\* The sums of the adjustments that lower (sign < 0) or raise the score.
Part(n, sign) == IF n < 0 <=> sign < 0 THEN n ELSE 0

RuleAdjustments(p, sign) ==
  LET sum[n \in 0 .. Len(p.rules)] ==
        IF n = 0 THEN 0 ELSE sum[n - 1] + Part(SortedRules(p)[n].riskAdjustment, sign)
  IN sum[Len(p.rules)]

Adjustments(list, sign) ==
  LET sum[n \in 0 .. Len(list)] ==
        IF n = 0 THEN 0 ELSE sum[n - 1] + RuleAdjustments(list[n], sign)
  IN sum[Len(list)]

\* The verdicts asked for if rules compare a given score.
AskedFor(score) ==
  {d.verdict : d \in {e \in Range(BuiltinSignals(ask.in)) : e.there}}
  \union {p.simSwapAction : p \in {q \in Applied : Swapped(ask.in)}}
  \union {rule.verdict : rule \in {rl \in Rules :
            rl.enabled /\ MatchesCondition(rl.condition, ask.in, score, ask.hour)}}

\* "Most restrictive verdict wins", whatever the order of policies and rules: what
\* must be asked for at the lowest score that can occur is met, and nothing
\* harsher is answered than what may be asked for at the highest.
MostRestrictiveWins ==
  Evaluated =>
    LET base == EvaluateBuiltinSignals(ask.in).risk
        list == FilterPolicies(ask.list, ask.in)
        low == base + Adjustments(list, -1)
        high == base + Adjustments(list, 1)
    IN /\ \A v \in AskedFor(low) : Severity(v) <= Severity(answer.verdict)
       /\ \E v \in AskedFor(high) \union {"allow"} : Severity(v) >= Severity(answer.verdict)

\* No rule is content with the absence of a signal, or lowers the score.
OnlyRaises(rule) ==
  /\ FALSE \notin rule.condition.swapDetected \union rule.condition.verificationFailed
                  \union rule.condition.deviceChanged
  /\ rule.riskAdjustment >= 0

\* in has all the signals of less, and is otherwise alike.
AtLeast(in, less) ==
  /\ in.swap # less.swap => ~Swapped(less) \/ in.swap = "high"
  /\ in.result # less.result => in.result = "failed"
  /\ less.deviceChanged => in.deviceChanged
  /\ in = [less EXCEPT !.swap = in.swap, !.result = in.result,
                       !.deviceChanged = in.deviceChanged]

\* A signal more never makes a verdict milder or a risk level lower, although it
\* moves the score that later rules look at, if no rule is for its absence.
SignalsNeverHelp ==
  Evaluated /\ (\A rule \in Rules : OnlyRaises(rule)) =>
    \A less \in Inputs : AtLeast(ask.in, less) =>
      LET milder == Evaluate(ask.list, less, ask.hour) IN
        /\ Severity(milder.verdict) <= Severity(answer.verdict)
        /\ answer.riskLevel = "low" => milder.riskLevel = "low"
        /\ milder.riskLevel = "high" => answer.riskLevel = "high"

\* An hour belongs to exactly one of the ranges from one end to the other and back,
\* of which at least one wraps midnight; "HourRange [2]int // [startHour, endHour]".
RangesPartTheDay ==
  Evaluated => \A p \in Range(ask.list) : \A rule \in Range(p.rules) :
    \A range \in rule.condition.hourRange :
      range[1] # range[2] =>
        (InHours(range, ask.hour) <=> ~InHours(<<range[2], range[1]>>, ask.hour))
=============================================================================
