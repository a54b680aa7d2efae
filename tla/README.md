# SilentPass in TLA+

SilentPass is a server that verifies phone numbers: silently, by asking the
carrier, or with a one-time code. This directory holds TLA+ models of its parts,
the configurations that check them with TLC, and theorems proved with TLAPS. The
models follow the source; `PROJECT.json` names, for each definition, the lines it
stands for.

## The system

| Component (path under `src/internal`) | State | Operations | Interacts with |
|---|---|---|---|
| Verification service (`service/verification`, `handler/verification.go`) | none of its own | CreateSession, SilentVerify, SendOTP, CheckOTP | session store, carrier router, OTP router, token service |
| Session stores (`repository/session.go`, `pg_session.go`) | sessions by id, in memory or in PostgreSQL | create, get, update the status | written by all verification requests |
| OTP router and providers (`adapter/otp`) | the code last sent to each phone, per provider | Send, Verify | shared by all sessions, tenants and channels |
| Token service (`pkg/auth/jwt.go`) | none | Generate, Validate | verification service, account handler |
| Carrier router and adapters (`adapter/telco`) | adapter per country | SilentVerify, CheckSIMSwap | verification and risk services, carriers over HTTP |
| Smart router (`adapter/telco/smart_router.go`) | counters and a circuit breaker per adapter | IsSupported, SilentVerify, CheckSIMSwap, Register | made to stand in for the carrier router; the server does not use it |
| OAuth2 client (`adapter/telco/oauth2.go`) | the carrier's access token and its end | GetToken | adapters; a token endpoint over HTTP |
| Rate limiters (`middleware/ratelimit.go`, `ratelimit_redis.go`) | admission times per client, or a counter per client and window in Redis | one decision per request | in front of the `/v1` routes with an API key (not of `/v1/auth/*`) |
| Webhooks (`service/webhook`, `handler/webhook.go`) | subscriptions; a goroutine per delivery | Create, Emit, deliver | endpoints of tenants over HTTP; no handler emits events yet |
| Risk service and policy engine (`service/risk`, `service/policy`) | none | EvaluateVerdict, CheckSIMSwap | policy store, carrier router |
| Policy store (`handler/policy.go`, `repository/pg_policy.go`) | policies, in memory or in PostgreSQL | List, Create, Update, Delete | read by the engine while it is written; no operation of the server stores rules |
| Pricing engine (`service/pricing`) | plans, prices of tenants | CalculatePrice, SetTenantPlan, SetCustomPrice | the pricing handler; nothing in the server gives plans or prices to tenants |
| Accounts (`handler/account.go`) | users, organisations, memberships, API keys, always in memory | Register, Login, API keys, InviteUser | token service; the keys it makes are not those that authenticate requests |
| Statistics, logs, metrics (`handler/stats.go`, `logs.go`, `metrics`) | counters, the last 1000 entries, histograms | record, report | all requests are measured; nothing in the server records statistics or log entries yet |
| Authentication (`middleware/auth.go`, `rbac.go`), billing and reporting queries, server assembly | none | – | – |
| SDKs (`sdk/android`, `sdk/ios`), web dashboard | the step of the flow | verify, sendOTP, checkOTP | the HTTP API |

What is hard here:

* **Interleaving.** Every HTTP request is a goroutine. The code stores and the
  session store lock single reads and writes, never a whole operation: a request
  reads a session or a code, waits, and writes later what may not fit any more.
* **Sharing by phone.** Codes are kept by phone. Sessions of different tenants
  for one phone overwrite, answer and delete each other's codes.
* **Failure.** Status updates may fail and their errors are ignored; Redis may
  fail between two commands of one pipeline; HTTP answers are late or lost;
  a restart loses what was in memory and leaves ids and tokens with clients.
* **Time.** Sessions, codes, access tokens, windows and circuits all expire, each
  with a comparison of its own at the boundary, and clocks move between the
  comparison and its use.
* **Ordering.** Answers of carriers arrive in another order than the calls were
  made, after circuits have opened or closed. An invitation reaches a user before
  the registration that made it has ended; of settings of prices, of rules that look
  at the score, of entries of a configuration file the order decides.
* **Reading what is being written.** The policy store in memory hands out its own
  policies; a metrics page and a dashboard read counters one after the other.

What makes each modelled component correct is stated at the end of its module
and summed up under *Runs*. The hazards, each at its line, are in `PROJECT.json`.

## Modules

### Verification, VerificationPromise

`Verification` is the core: sessions, carrier calls, codes and tokens. A request
`r` is a record `req[r]` whose `pc` says where it stands, and every action is the
code between two points at which others may run (the wait for a message API is no
step of its own):

| Action | Code |
|---|---|
| `CreateSession` | `Service.CreateSession`; one write to the store |
| `BeginSilent`, `ExpireSession`, `TelcoAnswer`, `MarkVerified`, `IssueToken` | `Service.SilentVerify`: read and check the session; write `expired`; the carrier's answer; write `verified`; token |
| `BeginSend`, `StoreCode` | `Service.SendOTP`, `Router.Send` and `Send` of a provider |
| `BeginCheck`, `ReadCode`, `DropCode`, `ConsumeCode`, then `MarkVerified`, `IssueToken` | `Service.CheckOTP`, the loop of `Router.Verify` over a map in random order, `Verify` of a provider: read under the read lock, delete under the write lock |
| `Tick`, `Restart` | the clock; the end of the process |

`status` and `expiresAt` are the session table, `codes` the maps of the
providers (an index into `sent`, so that two sendings of equal digits differ),
`tokens` what clients hold. `proofs` is a history of the proofs of possession.
Constants say which deployment is meant: which provider serves a channel
(`ProviderOf`), which providers are sandboxes (no expiry, but the universal code),
whether sessions are in PostgreSQL (`Durable`), whether its updates may fail
(`StoreMayFail`) and whether the server may restart (`Crashes`).

Not in the model: request validation (a rejected request changes nothing), the
wording of answers, locales, and a failing `Send` (the code stays stored, so to
others it looks like a success). A session is of one phone, one tenant and one
country for good; the model makes this a constant of the session id.

`VerificationPromise` is what tenants rely on: sessions are opened, proven,
confirmed and granted a token, a token only after a proof and, unless the store
refuses writes, after a confirmation. `Verification` implements it with
`proven` and `granted` read off `proofs` and `tokens`.

### Verdicts, PolicyEngine

`Verdicts` has the policy engine as operators on an input, a list of policies and
an hour: the built-in signals, every field of a rule's condition, the choice and
order of policies, the order of rules, the scores between them. An optional field of
a condition is the set of the values it admits. `sort.Slice` is `ByPriority`, which finds
what belongs at a place by counting what comes `Before` it; policies and rules are then
applied one after the other (`EvaluatePolicyRules`, `EvaluateRules`). `PolicyEngine` evaluates one input
after the other against any list in any order. The lists include what the running
server cannot have yet, policies with rules: the engine is written and tested for them.

`MostRestrictiveWins` is a reference definition that does not follow the
evaluation: it bounds the answer from both sides by the demands of signals and rules
at the lowest and highest score that can occur, so that it does not depend on orders.

### PolicyStore

The store and the evaluations of the server, where no policy has rules. `backend` is
chosen at the start: in memory an update takes the lock, writes and releases it
(`BeginUpdate`, `EndUpdate`), during which readers may see old fields, new fields, or
a string torn between both, as the engine reads what `List` handed out without any
lock; in PostgreSQL the two steps are the read and the write of the row, and readers
have copies, which may be incomplete as `List` does not ask for `rows.Err()`.

| Action | Code |
|---|---|
| `Create`, `Delete` | one call of the store |
| `BeginUpdate`, `EndUpdate` | `Update` of either store |
| `ListPolicies` | the request, `EvaluateVerdict`, the built-in signals and `List` |
| `Filter`, `Apply` | one policy of `filterPolicies`, of `evaluatePolicyRules` |
| `Answer` | the response |

`seen` is a history of what an evaluation could have read since it listed the
policies: those active at some time, those nobody touched, the actions held.

### Account

`Register`, `Login` and `InviteUser` call the user store, the tenant store and the key
store one after the other; each call is an action (`CheckEmail`, `CreateUser`,
`CreateTenant`, `LinkOwner`, `StoreDefaultKey`; `FindUser`, `FirstTenant`;
`FindInvited`, `AddUser`), and API keys are created and deleted. The hash of the
password is what takes long between `CheckEmail` and `CreateUser`. Users and tenants
are named after the registration that makes them. Passwords are compared by identity.
The callers of `InviteUser` and of the key handlers are the tenants of the tenant
repository, which are not those that registrations make.

### Pricing

The seeded plans with their tiers, `SetTenantPlan`, `SetCustomPrice` and
`CalculatePrice`, with integer division where the code truncates. `pricing` has, like the
map of the code, entries for tenants with settings only; `Own` is what another tenant is
taken to have and `PriceFor` the price itself. `settings` is the history a quote is
compared with.

### Metrics, Statistics

`Metrics`: a request creates its counter if there is none, adds to it, and observes
its duration, in three steps; a page reads counter by counter and then the
histograms. `Statistics`: each `Record...` adds to its counters in the order of the
code and the dashboard loads them in the order of the code; the log keeps its newest
entries (with PostgreSQL the dashboard falls back on the counters in memory), and `Query`
is the set of the positions whose entries are returned. `Percent` is what the dashboard
may show of two counters: `round2` cuts off after two digits, and floating point may fall
a hundredth short of a quotient that comes out even. The seeded counters alone show
84.73 % and 15.26 %, so `RatesAddUp` bounds the sum of what is shown by 99.98 % from below.

### Carriers

`Registered` builds adapters from a configuration (`BuildAdapters`): entries in
order, each taking its countries from those before; an entry that cannot be built ends
it (`BuildFailed`), and `router.New` then registers the sandbox over what is there.
`RouterSupports` is IsSupported of the plain router. A call is
`Ask`ed of the country's adapter, which may be denied a token (`Authorize`), and gets
any reply with any status and any body, or none (`Reply`, `RetrieveDate` for the
second request of a SIM swap check). The smart router of `SmartRouter` would stand in its place.

### RateLimiter, SlidingWindow

`RateLimiter` is `allow`, atomic under its mutex: `requests` is the map of the
code, `admitted` a history. Times are discrete, several requests may have the
same time. `SlidingWindow` remembers all admissions and counts those inside the
window; the limiter, which discards entries, implements it.

### RedisRateLimiter

One client, many servers. The two commands of a pipeline are two actions, as
Redis may serve other clients between them. `Fail` and `Retry` are errors before
or after INCR took effect, seen by a server that lets the request pass and by the
client library that sends the pipeline again. `RedisTick` lets keys expire. The servers
and Redis share one clock: that their clocks agree is an assumption of the model.

### OAuth2Client

`GetToken` step by step: the look at the cache under the read lock (`Read`), the
second look under the write lock (`Lock`), the HTTP call during which the lock is
held, and its end (`Answer`, `Fail`). A token is known by the time the endpoint
issued it and its lifetime, so that the property speaks of the carrier's clock
and not of the cache's. `Tick` lets no call outlive the client's timeout. The
assumption `HttpTimeout <= Margin` is 10 s and 60 s in the code.

### SmartRouter

`Begin` (IsSupported), `Select`, and `RecordSuccess` or `RecordFailure` are the
steps of a call under separate locks. `remaining` counts down to `circuitUntil`.
Scores are compared as fractions; the code uses floating point, which may order
scores differently that differ by rounding only. `Register` happens before the
first request and is a constant (`AdaptersFor`), `Stats` only reports. Adapters report
a carrier's HTTP failure as a fallback without an error, which the router counts as a
success: in the model every call ends in either outcome. Calls have no bound. `Counted`
counts as long as the total is among `Totals`, all numbers in the code and in the
theorems; TLC's instances count up to a bound, from where on one more call changes the
rates no further.

`OutageEnds` has a proviso because an outage need not end: swap checks do not ask
IsSupported, the adapter that recovers soonest is tried at any time, another country may
use it, and each failure restarts the 30 seconds. The property says that nothing but
such failures, of every carrier of the country and without end, makes an outage last.
Without the proviso TLC finds in the instance of `smart_router` how two callers keep a country out.

### WebhookDelivery

Subscriptions, emission, and one delivery per matching subscription. What decides
about retries is whether the request's body has been read: `Transmit` reads it,
`Refused` (no connection) leaves it, and with a body that has been read an attempt
either finds an open connection and the transport reads the body anew
(`Transmit`), or fails without sending (`Mismatch`). If no request can be made of the
subscription's URL or the event (`Postable`: the handler accepts any URL that is not
empty), deliver returns before its loop and the delivery is `dropped`. `sent` counts what
went out; `got` is what endpoints have received, be it late.

### MC modules and proof modules

`MC...` modules give the constants their values for TLC. Three of them hold parts
that share no state, so that a product of their behaviours would say nothing more:
each behaviour is one of one part, chosen at the start, while the variables of the
others rest. `MCRateLimiters` chooses the limiter that `router.New` installs
(`installed`), `MCOutbound` one of the two clients of HTTP endpoints (`part`),
`MCServer` one of `PolicyEngine`, `PolicyStore`, `Account`, `Pricing`, `Metrics`,
`Statistics` and `Carriers` (`part`). They extend the parts, so that the properties checked
are the very ones the theorems are about and TLC evaluates the assumptions of the parts,
which is why parts prefix names such as `RedisNext` or `StoreSpec`. A resting part keeps
its initial values, or a fixed value where it has no history of its own.

| Proof module | Proves about |
|---|---|
| `Verification_proofs` | `Verification`, which implements `VerificationPromise` |
| `RateLimiters_proofs` | `RateLimiter`, which implements `SlidingWindow`, and `RedisRateLimiter` |
| `Outbound_proofs` | `OAuth2Client` and `WebhookDelivery` |
| `Stores_proofs` | `Account` and `PolicyStore` |
| `Routing_proofs` | `SmartRouter` and `Carriers` |
| `Engine_proofs` | `Verdicts` and `PolicyEngine` |
| `Figures_proofs` | `Metrics`, `Statistics` and `Pricing` |
| `Induction` | lemmas about natural numbers, recursive functions and orders, for the last three |

## Runs

| Run | Shows | Bounds |
|---|---|---|
| `verification_sandbox` | a session that yielded a token stays confirmed; statuses move along the lifecycle | 2 sessions of 2 tenants with one phone, one in an unsupported country; 2 requests, 2 codes sent, 3 instants, restarts |
| `verification_postgres` | tokens and proofs belong together although updates fail and the server restarts; wrong guesses cost nothing; the promise is kept | 2 sessions with 2 phones, one provider whose codes expire; 2 requests, 2 codes sent, 3 instants |
| `verification_providers` | an accepted code is gone; every request is answered, every proof yields a token | one session, a sandbox and a WhatsApp provider, 2 codes sent; session and codes outlive one instant of two; no restart |
| `verification_code_once` | *violated*: two concurrent checks both use one code | one provider, 2 codes, restarts |
| `rate_limiters` | in memory: no window holds more than the limit, and forgetting is invisible; in Redis: the limit of a bucket, counters without TTL only after a broken pipeline | memory: 2 clients, limit 2, window 2, 7 instants; Redis: 2 requests at a time and 4 in all, failures and a retry, 5 instants |
| `redis_limiter_sliding` | *violated*: twice the limit within one window around a boundary | limit 1, 4 instants, no failures |
| `outbound` | cached tokens are valid, one refresh at a time, every caller returns; events stay with their tenant, none is sent after a success or, if it can be posted, given up without a try; deliveries end | 2 callers, tokens that live 1 or 3, margin and timeout 2, 5 instants; 2 tenants, 3 subscriptions, one of them with a URL that cannot be parsed, 2 events, 3 attempts, restarts |
| `webhook_retries` | *violated*: attempts that send nothing | one tenant, 2 subscriptions, one event, no restarts |
| `smart_router` | circuits agree with counters; an outage ends unless every carrier of the country goes on failing | 2 adapters, 2 countries, 2 callers with calls of both kinds and without end; 4 calls of each adapter counted, threshold 1 instead of 10, one latency, a cooldown of 2 instants |
| `smart_router_streak` | *violated*: five failures in a row leave the circuit closed | one adapter, the code's threshold of 10, 5 calls counted |
| `server`, engine | the harshest demand decides, a signal more never helps, ranges of hours part the day | all pairs of 4 policies and all active ones, in every order; 64 inputs; hours at, before and after the ends of ranges |
| `server`, store | untouched policies are obeyed, verdicts are justified, updates kept | 2 policies, 2 tenants, 2 updates, one evaluation at a time, both stores |
| `server`, account | duplicates only from overlapping registrations; logins refused only meanwhile, and always for one tenant | 2 registrations, 2 addresses, 2 invitations, one login at a time, one new key |
| `server`, pricing | a quote follows the latest settings; the tier is that of the volume | all seeded plans and an unknown one, 2 tenants, 2 settings, volumes at and after boundaries |
| `server`, metrics and statistics | no request is lost, pages are consistent, rates add up, queries find the newest | 3 requests with 2 labels and durations at and above bounds; 3 recorders; a log that keeps 3 of 5 entries |
| `server`, carriers | verified only on a carrier's word; reported swaps block; countries are served as listed | 6 configurations, 3 countries, every reply |
| `account_duplicates` | *violated*: two users with one address | the account part of `server` |

Why the bounds are enough: the races of the code are between two requests on one
phone, session or key, and a third actor adds no new pair of steps; where three
take part (a code sent between another request's read and delete), the third is
over before or begins after one of the two, and two goroutines play all three.
Two codes sent are an old and a new one. The clock has an instant before, at and
after each expiry. Thresholds and limits are small so that they are crossed in
both directions. The rules of `server` have every kind of condition, raise and lower
scores, and stand in policies of equal and of different priorities. The proofs do away
with the bounds for the properties they cover.

Sets of request goroutines, of the limiters' clients and, in `server`, of tenants are
symmetric where a run has no liveness property; runs with one use no symmetry.

`CHECK_DEADLOCK FALSE` stands where a bounded model comes to rest: in
`MCRateLimiters`, `MCRedisRateLimiter`, `MCOutbound`,
`MCWebhookDelivery` and `MCServer` the numbers of arrivals, instants, events, updates,
registrations or entries are bounded, and when they are used up and all requests have
been answered nothing is left to do. That no request gets stuck is what the liveness
properties say, and in `verification_...` and `smart_router...` the check for deadlocks.

## Fairness

* `Verification`: weak fairness of what a request under way does. The Go runtime
  schedules every goroutine; locks are held for single map accesses; carrier and
  message calls end with the HTTP client's timeout.
* `OAuth2Client`: strong fairness of getting the lock, as `sync.RWMutex` lets
  neither readers nor writers starve; weak fairness of the end of an HTTP call,
  which has a timeout of 10 s.
* `SmartRouter`: weak fairness of the clock and of the steps of a call, which ends with
  the HTTP client's timeout; no bound ends the calls.
* `WebhookDelivery`: weak fairness of a delivery: sleeps end, and an attempt ends
  with the client's timeout of 10 s.
* The parts of `MCServer` have safety properties only: their handlers wait for
  nobody but for locks held during single calls.

No arrival of a request is assumed, nor that a carrier or endpoint answers well.
`verification_providers` leaves restarts out, as a restart ends requests without an
answer; `outbound` has them, and counts a delivery that a restart loses as ended.

## What the runs refute

* A code can be used twice by concurrent checks (`CodeUsedOnce`), while a provider
  test says "code should be consumed after verification".
* The Redis limiter is documented as a sliding window and is a fixed one
  (`SlidingWindowHolds`).
* The circuit breaker's comment speaks of five consecutive failures; the code
  waits for more than ten calls, more than half of them failed (`StreakOpensCircuit`).
* Webhook retries after an answer that is no success may send nothing
  (`RetriedInFull`).
* Two registrations at the same time make two users with one address, while the schema
  declares addresses unique (`OneAccountPerEmail`, migrations/003_users_rbac.sql:5).

## Proofs

Every safety property of the runs, invariant or action property, and both refinements are
proved. The theorems hold for any number of sessions, phones, requests, callers, adapters,
clients, servers, subscriptions, policies, rules, registrations, entries of a configuration
and labels, any clock and any list of bounds, from the named assumptions on the constants.
`VerificationAssumption`, `LimiterAssumption`, `OAuthAssumption`, `RouterAssumption`,
`EngineAssumption`, `MetricsAssumption`, `StatisticsAssumption`, `PricingAssumption` and
`CarriersAssumption` are assumed by their modules; `RedisAssumption`, `WebhookAssumption`,
`AccountAssumption` and `StoreAssumption` are stated by the theorems and assumed by the MC
modules. TLC evaluates them all. Nearly all give constants their types, say that
special values are not ordinary ones, or that the requests or recorders that are counted
are finitely many; the others are that the HTTP timeout is within the
margin of `OAuth2Client` and that discounts are percentages: with a larger one prices are
negative, and integer division in Go rounds those the other way.

**`Verification_proofs`.** The properties are not inductive: that a token is backed
needs to know what a request at `mark` or `issue` has proven. `IInv` adds
`RequestsOK` (what a request in flight knows: its tenant owns the session, its
code index is a code sent to the session's phone, a request about to write
`expired` is past the session's end, and the session of one about to issue a
token is confirmed) and `CodesPlaced` (a provider's entry for a phone is a code sent to that
phone by that provider). `TypeCorrect`, `ProofsAreSound`, `TokensAreBacked`,
`SpentCodesAreGone`, `TokensAreSettled` (under `~StoreMayFail`), `StatusMovement` and
`Implementation` (the promise) follow. `WrongGuessesAreFree` needs a second invariant,
`AllRemember`: what a check has read of a code is no newer than what is stored, and
what it found about it, a match or an expiry, stays so; codes are sent in order, so
a newer one never becomes older than what a check has read.

**`RateLimiters_proofs`.** In memory, `IInv` says that what the map keeps is the end of the
history and what it dropped is too old. With it the number of kept entries is
the number of admissions inside the window, which gives `Implementation`, and
the entry `Limit` places back is outside the window, which gives `LimitHolds`.
In Redis, `RedisIInv` counts, for each bucket, the admissions on time
and the requests between INCR and EXPIRE that will be admitted: together they exceed
neither the limit nor, while the bucket lasts, the counter, whose deadline always
lies in a later bucket. Cardinalities of these sets change by one at a time.
`RedisLimitHolds` and `CountersEnd` (with `NoOrphanCounter` itself inductive) follow.

**`Outbound_proofs`.** Of `OAuth2Client`, `IInv`: the lock is held by whoever is in an HTTP
call, no call is older than the timeout, and the cached end is before the token's real end.
`CacheIsFresh` and `SingleFlight` follow. Of `WebhookDelivery`, `WebhookIInv` relates a
delivery's attempt number and body to what has been sent and refused (`Good`), says that
only meant deliveries have begun or reached anybody, that only those that cannot be
posted are dropped, and that thanked ones are delivered.
`EventsStayWithTheirTenant`, `GivingUpIsEarned` and `SuccessIsFinal` follow.

**`Stores_proofs`.** `AccountIInv` ties the progress of each registration to what is in each
store, memberships and tokens to registrations, and overlapping registrations to each other
(`rivals`). The first membership of a user, which a login takes, never changes, as
the list only grows: hence `TenantIsSettled`. `DuplicatesAreRaces` and `RefusalsAreBrief` follow too, and
`DefaultKeysAreKept`, which only the proof states.
Of `PolicyStore`, `UpdatesInv` says what an update in progress has read, and which
updates exclude each other, for `UpdatesAreKept`. `Sound` says of an evaluation that what
it may still read (`Foreseen`) is in its history, that each steady policy is still to be
applied or already obeyed, and that its verdict so far is justified; a torn string
has no severity. `SteadyPoliciesObeyed` and `VerdictsAreJustified` follow.

**`Induction`.** The library's induction takes an operator as its parameter, which no prover
here can instantiate. A set of natural numbers can be: `LeastElement` is proved from the
well-foundedness of the subset order on finite sets, and from it `NatSetInduction` (a set
with 0 and the successor of each member has every number) and `IntervalInduction`. A
proof by induction takes as that set the numbers for which its claim holds. `Recursion` and
`Unique` say that there is exactly one function with a given first value and step, so that
a recursive function of the model is what its equation says. `Places`: for any strict total
order of a finite set, the number of members before a member is its place, and every place
has one, so that sorting by counting is a permutation that respects the order.

**`Engine_proofs`.** The states are single evaluations, so `EngineIInv` only says that
question and answer are of each other; the work is in lemmas on `Verdicts`.
`SortedRules` and `FilterPolicies` have the same rules and policies as the lists
(`RulesSorted`, `Filtering`) whatever their order. `Effect` says of a rule, a policy or
a list what it does to a result whose score lies between a lowest and a highest value: no
severity is lost, whatever is asked for even at the lowest score is granted, what
is granted was there before or asked for at the highest, and the score moves by no more
than the adjustments allow. By induction over positions it carries from rules
(`RulesEffect`) to a policy (`PolicyEffect`) and to lists (`ListEffect`, `PoliciesEffect`);
with the built-in signals before (`BuiltinEffect`) this is `TheMostRestrictiveWins`.
`TheSignalsNeverHelp` compares two runs: `Milder` relates the two results,
as no higher score and no greater severity, and goes through every signal, rule and policy
(`SignalsMilder`, `RulesMilder`, `PoliciesMilder`), given the property's hypotheses on
scores. `TheRangesPartTheDay` is arithmetic on `InHours`. Verdicts are of the set
`Word`, strings and the three literals, because no backend proves that a literal is a string.

**`Figures_proofs`.** `MetricsInv` adds to the types that a request past its start has its
counter (`CountersThere`), that a page has read no more than there is (`PageBehind`), and
that the requests a page need not show yet have been counted (`PendingCounted`). Requests
move between the sets counted one at a time, so cardinalities grow by one with the
counters: `CountsAreExact`, `PagesAreConsistent`. `StatsInv`: each counter is the number of
recorders that have added to it (`CountersAddUp`), the total a dashboard loaded counts all
who had finished by then (`TotalCountsSettled`), what it loads later covers what it loaded
before (`LaterLoadsCover`), and the log holds the newest entries (`LogIsNewest`).
`RatesAreConsistent` and `QueriesFindNewest` follow, the former with `PercentBounds` and
`RatesMakeUp` about what is cut off of a rate. `PricingIInv`: what a tenant has follows
its settings (`Follows`: its latest plan, and the latest of each price since), and so does
the last quote (`Quoted`): `PricesFollowSettings`. Each seeded tier ends before the next
begins (`WellTiered`): `TiersHoldVolumes`.

**`Routing_proofs`.** Of `SmartRouter`, `IInv` is the property itself with the arithmetic of
the counters (a circuit can only be open above the threshold, and a failure never
brings it below, whether or not it is counted any more): `CircuitsAreHonest`. Of `Carriers`, `CarriersIInv` says what each call has
asked and been answered (`Truthful`: a verified phone has a carrier's or the sandbox's
word, a reported swap is in the result): `PhonesAreVerifiedByCarriers` and, with
`HighSwapBlocks` on the engine, `ReportedSwapsBlock`. `Serving` says of the first `n` entries of a
configuration which adapter each country has; by induction over entries (`Building`,
`Listing`) `CountriesAreServedAsListed`.

Type invariants are proved rather than checked by a run: `TypeCorrect`, `RedisTypeCorrect`,
`WebhookTypeCorrect` and `AccountTypeCorrect`, and as part of the invariants elsewhere. In
`SmartRouter` only the counters are typed, which is all that `CircuitsAreHonest` needs.

Only model-checked: liveness (`EveryRequestAnswered`, `ProofYieldsToken`,
`EveryCallerReturns`, `OutageEnds`, `EveryDeliveryEnds`), since TLAPS does not
reason about fairness and ENABLED; and that the smart router's choice of an adapter is
sensible (an assumption checked in `MCSmartRouter`).

## What could follow

1. The smart router in the place of the plain one in `Carriers`, once the server uses it,
   and a theorem about its choice with `Greatest` of `Induction`.
2. Rules in `PolicyStore`, once a handler stores them; log entries and statistics of
   requests, once handlers record them: then `Verification` composed with both.
3. The step from `PolicyStore`'s evaluation to `Evaluate` of `Verdicts` for policies
   without rules, as a refinement.

## Not modelled, and why

* Twilio and Vonage as providers of one-time codes, and `otp/config.go`: codes are kept,
  or checked, at the provider, and the server does not install them. `router.New` wires
  the sandbox provider for every channel (`verification_sandbox`).
* Authentication (`middleware/auth.go`, `rbac.go`): functions of one request; their
  result, the tenant, is an input. `JWTAuth` and `RequireRole` are used by no route.
* Billing and reporting queries, and the queries of logs and statistics in PostgreSQL:
  single SQL statements and constant answers. The delivery log of
  `webhook/pg_store.go` is never written.
* Server assembly: which adapters and which limiter are wired in is modelled
  (`Carriers`, `MCRateLimiters`); the rest of `router.New` and `main.go` passes values on.
* Gauges, which nothing sets; `ListPlans`, `FormatPrice` and `Stats`, which report.
* The bodies that `CAMARAAdapter` leaves open, and the limiter's entries for clients
  that never come back: resources outside of what the modules count.
* The SDKs call the API, one screen each, and keep nothing the server relies on.
* The dashboard shows what the API answers; migrations are declarations.
* Cryptography: tokens, hashes and signatures are taken as unforgeable and opaque.
