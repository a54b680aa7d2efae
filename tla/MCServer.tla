------------------------------ MODULE MCServer ------------------------------
(***************************************************************************)
(* Small instances of the parts of the server that share no state with     *)
(* each other: each behaviour is one of one part, chosen at first, while   *)
(* the others rest.                                                        *)
(***************************************************************************)
EXTENDS PolicyEngine, PolicyStore, Account, Pricing, Metrics, Statistics, Carriers,
        SequencesExt, TLC

CONSTANTS
  Parts,   \* the parts to look at
  t1, t2, w1, w2, w3

VARIABLE part
-----------------------------------------------------------------------------
(* Rules, policies, inputs and configurations *)

Anything ==
  [countries |-> {}, operators |-> {}, useCases |-> {}, channels |-> {}, swapDetected |-> {},
   verificationFailed |-> {}, confidenceBelow |-> {}, deviceChanged |-> {},
   riskScoreAbove |-> {}, hourRange |-> {}]

NewRule(condition, priority, score, verdict) ==
  [condition |-> condition, priority |-> priority, riskAdjustment |-> score,
   verdict |-> verdict, enabled |-> TRUE]

NewPolicy(countries, priority, action, rules) ==
  [active |-> TRUE, useCase |-> "login", countries |-> countries, priority |-> priority,
   simSwapAction |-> action, rules |-> rules]

\* Rules that look at the score and rules that raise or lower it, in policies of equal
\* and of different priorities.
MCPolicies ==
  { NewPolicy({"ID"}, 10, "challenge",
      << NewRule([Anything EXCEPT !.riskScoreAbove = {20}], 1, 0, "block"),
         NewRule([Anything EXCEPT !.deviceChanged = {TRUE}], 2, 15, "review"),
         [NewRule(Anything, 3, 99, "block") EXCEPT !.enabled = FALSE] >>),
    NewPolicy({"*"}, 10, "review",
      << NewRule([Anything EXCEPT !.hourRange = {<<22, 6>>}], 1, 10, "challenge"),
         NewRule([Anything EXCEPT !.hourRange = {<<6, 22>>}, !.operators = {"op"}], 1, 0, "allow") >>),
    NewPolicy({}, 5, "allow",
      << NewRule([Anything EXCEPT !.countries = {"ID"}], 0, -30, "allow"),
         NewRule([Anything EXCEPT !.verificationFailed = {TRUE}, !.confidenceBelow = {60}], 0, 0, "block") >>),
    [NewPolicy({}, 20, "block", << NewRule(Anything, 0, 50, "block") >>) EXCEPT !.active = FALSE] }

\* Pairs of any policies, and all the active ones, in every order.
MCLists ==
  UNION {SetToSeqs(S) : S \in {T \in SUBSET MCPolicies :
                                 Cardinality(T) <= 2 \/ \A p \in T : p.active}}

MCInputs ==
  [swap : {"none", "no", "low", "high"}, result : {"verified", "failed"}, confidence : {0, 50},
   deviceChanged : BOOLEAN, country : {"ID", "TH"}, operator : {"op"}, useCase : {"login"},
   channel : {"sms"}, risk : {0}]

Provider(type, countries, key) ==
  [type |-> type, enabled |-> type # "unknown", countries |-> countries, key |-> key]

\* Countries listed twice, the sandbox overridden, a token that cannot be signed, and a
\* key that cannot be read amid other entries.
MCFiles ==
  { Missing, Unreadable,
    << Provider("camara", {"ID", "DE"}, "good"), Provider("vonage", {"ID"}, "garbage") >>,
    << Provider("camara", {"ID", "DE"}, "good"), Provider("vonage", {"FR"}, "unreadable"),
       Provider("ipification", {"DE"}, "good") >>,
    << Provider("sandbox", {}, "good"), Provider("ipification", {"ID"}, "good"),
       Provider("vonage", {"DE"}, "good") >>,
    << Provider("unknown", {"ID"}, "good"), Provider("vonage", {"DE"}, "good"),
       Provider("camara", {"DE"}, "good") >> }
-----------------------------------------------------------------------------
(* Sequences, which the configuration cannot hold *)

MCBounds == <<50, 100>>

ASSUME AccountAssumed == AccountAssumption
ASSUME StoreAssumed == StoreAssumption

Symmetry == Permutations({w1, w2}) \union Permutations({t1, t2})

vars == <<part, engineVars, storeVars, accountVars, pricingVars, metricsVars,
          statsVars, carrierVars>>

AtRest == [action |-> CHOOSE a \in Actions : TRUE, active |-> TRUE]

Init ==
  /\ part \in Parts
  /\ EngineInit /\ AccountInit /\ PricingInit /\ MetricsInit /\ StatsInit
  /\ StoreInit /\ (part # "store" => backend = "postgres" /\ policy = [p \in Ids |-> AtRest])
  /\ CarriersInit /\ (part # "carriers" => file = Missing)
-----------------------------------------------------------------------------
(* The actions of the parts, each by itself *)

OnlyEngine ==
  /\ part = "engine"
  /\ UNCHANGED <<part, storeVars, accountVars, pricingVars, metricsVars, statsVars, carrierVars>>
EngineEvaluate ==
  OnlyEngine /\ \E in \in Inputs, list \in Lists, hour \in Hours : EvaluateVerdict(in, list, hour)
EngineForget == OnlyEngine /\ Forget

OnlyStore ==
  /\ part = "store"
  /\ UNCHANGED <<part, engineVars, accountVars, pricingVars, metricsVars, statsVars, carrierVars>>
StoreCreate == OnlyStore /\ \E p \in Ids, t \in Tenants, a \in Actions : Create(p, t, a)
StoreBeginUpdate ==
  OnlyStore /\ \E w \in Writers, p \in Ids, q \in Requests : BeginUpdate(w, p, q)
StoreEndUpdate == OnlyStore /\ \E w \in Writers : EndUpdate(w)
StoreDelete == OnlyStore /\ \E p \in Ids : Delete(p)
StoreList ==
  /\ OnlyStore
  /\ \E r \in Readers, t \in Tenants, swap \in Swaps, result \in Results :
       ListPolicies(r, t, swap, result)
StoreFilter == OnlyStore /\ \E r \in Readers, p \in Ids : Filter(r, p)
StoreApply == OnlyStore /\ \E r \in Readers, p \in Ids : Apply(r, p)
StoreAnswer == OnlyStore /\ \E r \in Readers : Answer(r)

OnlyAccount ==
  /\ part = "account"
  /\ UNCHANGED <<part, engineVars, storeVars, pricingVars, metricsVars, statsVars, carrierVars>>
AccountCheckEmail == OnlyAccount /\ \E q \in Registrations, e \in Emails : CheckEmail(q, e)
AccountCreateUser == OnlyAccount /\ \E q \in Registrations : CreateUser(q)
AccountCreateTenant == OnlyAccount /\ \E q \in Registrations : CreateTenant(q)
AccountLinkOwner == OnlyAccount /\ \E q \in Registrations : LinkOwner(q)
AccountStoreKey == OnlyAccount /\ \E q \in Registrations : StoreDefaultKey(q)
AccountFindUser ==
  OnlyAccount /\ \E l \in Logins, e \in Emails, q \in Registrations : FindUser(l, e, q)
AccountFirstTenant == OnlyAccount /\ \E l \in Logins : FirstTenant(l)
AccountFindInvited ==
  /\ OnlyAccount
  /\ \E i \in Invitations, c \in Callers, e \in Emails, role \in Roles : FindInvited(i, c, e, role)
AccountAddUser == OnlyAccount /\ \E i \in Invitations : AddUser(i)
AccountCreateAPIKey == OnlyAccount /\ \E c \in Callers, k \in NewKeys : CreateAPIKey(c, k)
AccountDeleteAPIKey ==
  OnlyAccount /\ \E c \in Callers, k \in Registrations \union NewKeys : DeleteAPIKey(c, k)

OnlyPricing ==
  /\ part = "pricing"
  /\ UNCHANGED <<part, engineVars, storeVars, accountVars, metricsVars, statsVars, carrierVars>>
PricingSetPlan ==
  /\ OnlyPricing
  /\ \E t \in Customers, plan \in DOMAIN Plans \union {UnknownPlan}, d \in Discounts :
       SetTenantPlan(t, plan, d)
PricingSetPrice ==
  /\ OnlyPricing
  /\ \E t \in Customers, product \in Products, c \in PricedCountries, price \in CustomPrices :
       SetCustomPrice(t, product, c, price)
PricingCalculate ==
  /\ OnlyPricing
  /\ \E t \in Customers, product \in Products, c \in PricedCountries, volume \in Volumes :
       CalculatePrice(t, product, c, volume)

OnlyMetrics ==
  /\ part = "metrics"
  /\ UNCHANGED <<part, engineVars, storeVars, accountVars, pricingVars, statsVars, carrierVars>>
MetricsCreate ==
  OnlyMetrics /\ \E h \in Handlers, l \in Labels, d \in Durations : CreateCounter(h, l, d)
MetricsAdd == OnlyMetrics /\ \E h \in Handlers : Add(h)
MetricsObserve == OnlyMetrics /\ \E h \in Handlers : Observe(h)
MetricsBegin == OnlyMetrics /\ BeginScrape
MetricsRead == OnlyMetrics /\ \E l \in Labels : ReadCounter(l)
MetricsEnd == OnlyMetrics /\ ReadHistograms

OnlyStatistics ==
  /\ part = "statistics"
  /\ UNCHANGED <<part, engineVars, storeVars, accountVars, pricingVars, metricsVars, carrierVars>>
StatsRecord == OnlyStatistics /\ \E r \in Recorders, kind \in Kinds : Record(r, kind)
StatsLoad == OnlyStatistics /\ Load
StatsAppend == OnlyStatistics /\ \E s \in Sessions : AppendEntry(s)

OnlyCarriers ==
  /\ part = "carriers"
  /\ UNCHANGED <<part, engineVars, storeVars, accountVars, pricingVars, metricsVars, statsVars>>
CarriersAsk ==
  OnlyCarriers /\ \E q \in Calls, kind \in {"silent", "simswap"}, c \in CallCountries : Ask(q, kind, c)
CarriersSimulate == OnlyCarriers /\ \E q \in Calls : Simulate(q)
CarriersAuthorize == OnlyCarriers /\ \E q \in Calls : Authorize(q)
CarriersReply == OnlyCarriers /\ \E q \in Calls, reply \in Replies : Reply(q, reply)
CarriersDate == OnlyCarriers /\ \E q \in Calls, reply \in Replies : RetrieveDate(q, reply)

Next ==
  \/ EngineEvaluate \/ EngineForget
  \/ StoreCreate \/ StoreBeginUpdate \/ StoreEndUpdate \/ StoreDelete \/ StoreList
    \/ StoreFilter \/ StoreApply \/ StoreAnswer
  \/ AccountCheckEmail \/ AccountCreateUser \/ AccountCreateTenant \/ AccountLinkOwner
    \/ AccountStoreKey \/ AccountFindUser \/ AccountFirstTenant \/ AccountFindInvited
    \/ AccountAddUser \/ AccountCreateAPIKey \/ AccountDeleteAPIKey
  \/ PricingSetPlan \/ PricingSetPrice \/ PricingCalculate
  \/ MetricsCreate \/ MetricsAdd \/ MetricsObserve \/ MetricsBegin \/ MetricsRead \/ MetricsEnd
  \/ StatsRecord \/ StatsLoad \/ StatsAppend
  \/ CarriersAsk \/ CarriersSimulate \/ CarriersAuthorize \/ CarriersReply \/ CarriersDate

Spec == Init /\ [][Next]_vars
=============================================================================
