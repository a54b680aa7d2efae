------------------------------ MODULE Pricing ------------------------------
(***************************************************************************)
(* The pricing engine (service/pricing/engine.go): plans with tiers by     *)
(* volume, discounts and prices of their own for tenants.  Prices are in   *)
(* microcents.  All seeded rules are for every country, "*".               *)
(***************************************************************************)
EXTENDS Integers, Sequences, FiniteSetsExt

CONSTANTS
  Customers, Products, PricedCountries, Volumes,
  CustomPrices, Discounts,   \* in percent
  UnknownPlan, Unset,        \* Unset: no price has been asked for
  MaxSettings                \* bound of the model

\* A larger discount would make a negative price, which Go rounds the other way.
ASSUME PricingAssumption ==
  Volumes \subseteq Int /\ CustomPrices \subseteq Int /\ Discounts \subseteq 0 .. 100

VARIABLES
  pricing,    \* pricing[t]: the plan, discount and own prices of a tenant with settings
  quote,      \* the last price calculated
  settings    \* history: what tenants were given, in order

pricingVars == <<pricing, quote, settings>>

\* An assignment to a map.
With(map, key, value) ==
  [k \in DOMAIN map \union {key} |-> IF k = key THEN value ELSE map[k]]

Tier(from, to, price) == [minVolume |-> from, maxVolume |-> to, unitPrice |-> price]
Unlimited == 1000000000   \* stands for a MaxVolume of nil
Flat(price) == << Tier(0, Unlimited, price) >>

\* The seeded plans: for each product, its tiers.
Plans ==
  [payg |-> [silent_verify |-> Flat(30000), sms_otp |-> Flat(45000),
             whatsapp_otp |-> Flat(60000), sim_swap |-> Flat(10000)],
   growth |-> [silent_verify |-> << Tier(0, 10000, 25000), Tier(10001, 100000, 20000),
                                    Tier(100001, Unlimited, 15000) >>,
               sms_otp |-> << Tier(0, 10000, 40000), Tier(10001, Unlimited, 30000) >>,
               sim_swap |-> Flat(8000)],
   enterprise |-> [silent_verify |-> Flat(12000), sms_otp |-> Flat(25000),
                   sim_swap |-> Flat(5000)]]

\* The seeded costs of carriers and providers.
Upstream ==
  [silent_verify |-> [ID |-> 15000, TH |-> 18000, PH |-> 20000, MY |-> 16000, SG |-> 12000],
   sms_otp |-> [ID |-> 25000, TH |-> 30000], whatsapp_otp |-> With(<< >>, "*", 35000),
   sim_swap |-> With(<< >>, "*", 5000), voice_otp |-> With(<< >>, "*", 45000)]

GetUpstreamCost(product, country) ==
  LET costs == IF product \in DOMAIN Upstream THEN Upstream[product] ELSE << >> IN
    IF country \in DOMAIN costs THEN costs[country]
    ELSE IF "*" \in DOMAIN costs THEN costs["*"] ELSE 10000

\* (Definitions named Bug_... are plausible mistakes, which the properties must catch.)
\* The first unit of a tier is charged as the tier before.
Bug_FindPrice(plan, product, volume) ==
  IF product \notin DOMAIN plan THEN 30000
  ELSE LET tiers == plan[product]
           reached == {i \in DOMAIN tiers : volume > tiers[i].minVolume}
       IN tiers[IF reached = {} THEN 1 ELSE Max(reached)].unitPrice

\* The last tier, in the order of MinVolume, that the volume reaches.
FindPrice(plan, product, volume) ==
  IF product \notin DOMAIN plan THEN 30000
  ELSE LET tiers == plan[product]
           reached == {i \in DOMAIN tiers : volume >= tiers[i].minVolume}
       IN tiers[IF reached = {} THEN 1 ELSE Max(reached)].unitPrice

\* What a tenant without settings is taken to have.
NewTenant == [plan |-> "payg", discount |-> 0, custom |-> << >>]

Own(t) == IF t \in DOMAIN pricing THEN pricing[t] ELSE NewTenant

Discounted(price, discount) ==
  IF discount > 0 THEN (price * (100 - discount)) \div 100 ELSE price

Result(price, product, country, tier, discount) ==
  [unitPrice |-> price, upstreamCost |-> GetUpstreamCost(product, country),
   margin |-> price - GetUpstreamCost(product, country), tier |-> tier, discount |-> discount]

\* A price of the tenant's own is not discounted.
PriceFor(own, product, country, volume) ==
  LET plan == IF own.plan \in DOMAIN Plans THEN own.plan ELSE "payg"
      price == Discounted(FindPrice(Plans[plan], product, volume), own.discount)
  IN IF <<product, country>> \in DOMAIN own.custom
     THEN Result(own.custom[<<product, country>>], product, country, "custom", own.discount)
     ELSE Result(price, product, country, plan, own.discount)
-----------------------------------------------------------------------------
PricingInit ==
  /\ pricing = << >>
  /\ quote = Unset
  /\ settings = << >>

CalculatePrice(t, product, country, volume) ==
  /\ quote' = [tenant |-> t, product |-> product, country |-> country, volume |-> volume,
               after |-> Len(settings), result |-> PriceFor(Own(t), product, country, volume)]
  /\ UNCHANGED <<pricing, settings>>

\* The plan is replaced, but prices of the tenant's own are kept.
Bug_SetTenantPlan(t, plan, discount) ==
  /\ Len(settings) < MaxSettings
  /\ pricing' = With(pricing, t, [plan |-> plan, discount |-> discount, custom |-> Own(t).custom])
  /\ settings' = Append(settings, [tenant |-> t, plan |-> plan, discount |-> discount])
  /\ UNCHANGED quote

\* A new plan, whether there is such a plan or not; prices of the tenant's own are gone.
SetTenantPlan(t, plan, discount) ==
  /\ Len(settings) < MaxSettings
  /\ pricing' = With(pricing, t, [plan |-> plan, discount |-> discount, custom |-> << >>])
  /\ settings' = Append(settings, [tenant |-> t, plan |-> plan, discount |-> discount])
  /\ UNCHANGED quote

SetCustomPrice(t, product, country, price) ==
  /\ Len(settings) < MaxSettings
  /\ pricing' = With(pricing, t,
                     [Own(t) EXCEPT !.custom = With(@, <<product, country>>, price)])
  /\ settings' = Append(settings, [tenant |-> t, of |-> <<product, country>>, price |-> price])
  /\ UNCHANGED quote

PricingNext ==
  \E t \in Customers :
    \/ \E plan \in DOMAIN Plans \union {UnknownPlan}, d \in Discounts : SetTenantPlan(t, plan, d)
    \/ \E product \in Products, country \in PricedCountries :
         \/ \E price \in CustomPrices : SetCustomPrice(t, product, country, price)
         \/ \E volume \in Volumes : CalculatePrice(t, product, country, volume)

PricingSpec == PricingInit /\ [][PricingNext]_pricingVars
-----------------------------------------------------------------------------
(* Properties *)

\* The settings of the quote's tenant when it was made, the latest of a kind.
Mine == {i \in 1 .. quote.after : settings[i].tenant = quote.tenant}
PlansSet == {i \in Mine : "plan" \in DOMAIN settings[i]}
PricesSet == {i \in Mine \ PlansSet : settings[i].of = <<quote.product, quote.country>>}
Latest(S) == IF S = {} THEN 0 ELSE Max(S)

\* A price of the tenant's own counts from when it is set until the tenant is given
\* another plan; the plan counts from when it is given, or is the first, "payg".
PriceFollowsSettings ==
  quote # Unset =>
    LET p == Latest(PlansSet)  c == Latest(PricesSet)  r == quote.result IN
      /\ c > p => r.tier = "custom" /\ r.unitPrice = settings[c].price
      /\ c <= p => r.tier = IF p # 0 /\ settings[p].plan \in DOMAIN Plans
                            THEN settings[p].plan ELSE "payg"
      /\ r.discount = IF p = 0 THEN 0 ELSE settings[p].discount

\* Although MaxVolume is not looked at, the price is that of the one tier whose range
\* `min_volume` .. `max_volume` holds the volume, less the discount to the microcent.
TierHoldsVolume ==
  quote # Unset /\ quote.result.tier # "custom" =>
    LET r == quote.result  plan == Plans[r.tier] IN
      quote.product \in DOMAIN plan =>
        \A i \in DOMAIN plan[quote.product] :
          LET tier == plan[quote.product][i]
              rest == tier.unitPrice * (100 - r.discount) - 100 * r.unitPrice
          IN tier.minVolume <= quote.volume /\ quote.volume <= tier.maxVolume
               => rest \in 0 .. 99
=============================================================================
