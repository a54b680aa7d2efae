-------------------------- MODULE Outbound_proofs --------------------------
(*****************************************************************************)
(* For any number of callers, token lifetimes and delays within the HTTP     *)
(* timeout, and for any subscriptions, events, attempts and restarts: which  *)
(* tokens are served, and which deliveries are made and given up.            *)
(*****************************************************************************)
EXTENDS OAuth2Client, WebhookDelivery, TLAPS

(* Tokens *)

LEMMA InvInit == Init => IInv
  BY OAuthAssumption
  DEF Init, IInv, TypeOK, LockHeld, InFlight, CacheOK, CachedTokenValid, OneRefreshAtATime

\* Serving the cached token records a token that is not due yet.
LEMMA ServeOK ==
  ASSUME IInv, NEW c \in Callers, Serve(c), pc[c] # "http",
         UNCHANGED <<now, accessToken, expiresAt>>
  PROVE  IInv'
<1>1. /\ served' = served \union {[token |-> accessToken, at |-> now]}
      /\ pc' = [pc EXCEPT ![c] = "idle"] /\ writer' = writer /\ asked' = asked
  BY DEF Serve, Goto
<1>2. accessToken \in Tokens /\ accessToken # None /\ now < expiresAt /\ now \in Nat
  BY DEF IInv, TypeOK, Serve, Cached
<1>3. TypeOK'
  BY <1>1, <1>2 DEF IInv, TypeOK
<1>4. LockHeld' /\ InFlight' /\ CacheOK' /\ OneRefreshAtATime'
  BY <1>1 DEF IInv, TypeOK, LockHeld, InFlight, CacheOK, OneRefreshAtATime
<1>5. now < accessToken.issued + accessToken.lifetime
  <2>1. accessToken.issued \in Nat /\ accessToken.lifetime \in Nat
    BY <1>2, OAuthAssumption DEF Tokens
  <2>2. expiresAt <= accessToken.issued + accessToken.lifetime /\ expiresAt \in Int
    BY <1>2 DEF IInv, CacheOK, TypeOK
  <2> QED BY <1>2, <2>1, <2>2
<1>6. CachedTokenValid'
  BY <1>1, <1>5 DEF IInv, CachedTokenValid
<1> QED BY <1>3, <1>4, <1>6 DEF IInv

\* The endpoint's answer: what is cached is given up before the carrier ends it.
LEMMA AnswerOK ==
  ASSUME IInv, NEW c \in Callers, Answer(c)
  PROVE  IInv'
<1>1. PICK lifetime \in Lifetimes, issued \in asked[c] .. now :
        /\ accessToken' \in {[issued |-> issued, lifetime |-> lifetime], None}
        /\ expiresAt' = now + lifetime - Margin
  BY DEF Answer
<1>2. /\ pc[c] = "http" /\ writer' = None /\ pc' = [pc EXCEPT ![c] = "idle"]
      /\ now' = now /\ asked' = asked /\ served' = served
  BY DEF Answer, Unlock, Goto
<1>3. now \in Nat /\ asked[c] \in Nat /\ asked[c] <= now /\ now - asked[c] <= HttpTimeout
  BY <1>2 DEF IInv, TypeOK, InFlight
<1>4. lifetime \in Nat /\ issued \in Nat /\ issued >= asked[c]
      /\ Margin \in Nat /\ HttpTimeout \in Nat /\ HttpTimeout <= Margin
  BY <1>1, <1>3, OAuthAssumption
<1>5. TypeOK'
  <2>1. [issued |-> issued, lifetime |-> lifetime] \in Tokens
    BY <1>1, <1>4 DEF Tokens
  <2> QED BY <1>1, <1>2, <1>3, <1>4, <2>1 DEF IInv, TypeOK
<1>6. \A d \in Callers : pc'[d] # "http"
  BY <1>2 DEF IInv, TypeOK, LockHeld
<1>7. CacheOK'
  <2> SUFFICES ASSUME accessToken' # None
               PROVE  expiresAt' <= accessToken'.issued + accessToken'.lifetime
    BY DEF CacheOK
  <2>1. accessToken'.issued = issued /\ accessToken'.lifetime = lifetime
    BY <1>1
  <2>2. now + lifetime - Margin <= issued + lifetime
    BY <1>3, <1>4
  <2> QED BY <1>1, <2>1, <2>2
<1> QED BY <1>2, <1>5, <1>6, <1>7
        DEF IInv, LockHeld, InFlight, CachedTokenValid, OneRefreshAtATime

LEMMA InvStep == IInv /\ [Next]_vars => IInv'
<1> SUFFICES ASSUME IInv, [Next]_vars PROVE IInv'
  OBVIOUS
<1> USE OAuthAssumption
<1>1. CASE Tick
  <2>1. TypeOK' /\ LockHeld' /\ CacheOK' /\ CachedTokenValid' /\ OneRefreshAtATime'
    BY <1>1 DEF Tick, IInv, TypeOK, LockHeld, CacheOK, CachedTokenValid, OneRefreshAtATime
  <2>2. InFlight'
    BY <1>1 DEF Tick, IInv, TypeOK, InFlight
  <2> QED BY <2>1, <2>2 DEF IInv
<1>2. ASSUME NEW c \in Callers, GetToken(c) PROVE IInv'
  BY <1>2 DEF GetToken, Goto, IInv, TypeOK, LockHeld, InFlight, CacheOK, CachedTokenValid,
              OneRefreshAtATime
<1>3. ASSUME NEW c \in Callers, Read(c) PROVE IInv'
  <2>1. CASE Serve(c)
    BY <1>3, <2>1, ServeOK DEF Read
  <2>2. CASE ~Cached /\ Goto(c, "lock") /\ UNCHANGED <<writer, asked, served>>
    BY <1>3, <2>2 DEF Read, Goto, IInv, TypeOK, LockHeld, InFlight, CacheOK,
                      CachedTokenValid, OneRefreshAtATime
  <2> QED BY <1>3, <2>1, <2>2 DEF Read
<1>4. ASSUME NEW c \in Callers, Lock(c) PROVE IInv'
  <2>1. CASE Serve(c)
    BY <1>4, <2>1, ServeOK DEF Lock
  <2>2. CASE ~Cached /\ writer' = c /\ Goto(c, "http") /\ asked' = [asked EXCEPT ![c] = now]
             /\ UNCHANGED served
    <3>1. /\ writer = None /\ UNCHANGED <<now, accessToken, expiresAt>>
      BY <1>4 DEF Lock
    <3>2. \A d \in Callers : pc[d] # "http"
      BY <3>1 DEF IInv, LockHeld
    <3>3. TypeOK'
      BY <2>2, <3>1 DEF Goto, IInv, TypeOK
    <3>4. LockHeld' /\ InFlight'
      BY <2>2, <3>1, <3>2 DEF Goto, IInv, TypeOK, LockHeld, InFlight
    <3>5. CacheOK' /\ CachedTokenValid'
      BY <2>2, <3>1 DEF IInv, CacheOK, CachedTokenValid
    <3>6. accessToken # None => now >= expiresAt
      BY <2>2 DEF Cached, IInv, TypeOK
    <3>7. OneRefreshAtATime'
      BY <2>2, <3>1, <3>2, <3>6 DEF Goto, IInv, TypeOK, OneRefreshAtATime
    <3> QED BY <3>3, <3>4, <3>5, <3>7 DEF IInv
  <2> QED BY <1>4, <2>1, <2>2 DEF Lock
<1>5. ASSUME NEW c \in Callers, Answer(c) PROVE IInv'
  BY <1>5, AnswerOK
<1>6. ASSUME NEW c \in Callers, Fail(c) PROVE IInv'
  BY <1>6 DEF Fail, Unlock, Goto, IInv, TypeOK, LockHeld, InFlight, CacheOK, CachedTokenValid,
              OneRefreshAtATime
<1>7. CASE UNCHANGED vars
  BY <1>7 DEF vars, IInv, TypeOK, LockHeld, InFlight, CacheOK, CachedTokenValid,
              OneRefreshAtATime
<1> QED BY <1>1, <1>2, <1>3, <1>4, <1>5, <1>6, <1>7 DEF Next, Http

\* In every reachable state, for any set of callers and any lifetimes.
THEOREM Invariance == Spec => []IInv
  BY InvInit, InvStep, PTL DEF Spec

\* The cache serves no token that has run out, as the margin covers the timeout.
THEOREM CacheIsFresh == Spec => []CachedTokenValid
<1>1. IInv => CachedTokenValid
  BY DEF IInv
<1> QED BY <1>1, Invariance, PTL

\* Callers never race each other to the endpoint, nor refresh a token that is not due.
THEOREM SingleFlight == Spec => []OneRefreshAtATime
<1>1. IInv => OneRefreshAtATime
  BY DEF IInv
<1> QED BY <1>1, Invariance, PTL

-----------------------------------------------------------------------------
(* Deliveries *)

\* What a delivery q has done: s attempts sent, f found nobody.
Good(q, s, f) ==
  /\ q \in States
  /\ s \in 0 .. MaxAttempts /\ f \in 0 .. MaxAttempts
  /\ q.pc = "none" => s = 0 /\ f = 0
  /\ q.pc \in {"send", "wait", "sleep"} => q.attempt < MaxAttempts /\ f <= q.attempt
  /\ q.pc \in {"send", "sleep"} => s <= q.attempt /\ (q.body = "full" => f = q.attempt)
  /\ q.pc = "wait" => s <= q.attempt + 1 /\ s > 0
  /\ q.body = "spent" => s > 0
  /\ q.pc = "failed" => s > 0 \/ f = MaxAttempts

Meant(s, e) == SubTenant[s] = EventTenant[e] /\ Wanted[s] \intersect {EventType[e], "*"} # {}

Typed ==
  /\ stored \subseteq Subs /\ emitted \subseteq Events /\ thanked \subseteq Deliveries
  /\ delivery \in [Deliveries -> States]
  /\ sent \in [Deliveries -> 0 .. MaxAttempts] /\ refused \in [Deliveries -> 0 .. MaxAttempts]
  /\ got \subseteq Deliveries

WebhookIInv ==
  /\ Typed
  /\ \A d \in Deliveries : Good(delivery[d], sent[d], refused[d])
  /\ \A d \in Deliveries : delivery[d].pc = "dropped" => ~Postable(d)
  /\ \A s \in Subs, e \in Events : delivery[<<s, e>>].pc # "none" => e \in emitted /\ Meant(s, e)
  /\ \A d \in thanked : delivery[d].pc = "delivered"
  /\ \A d \in got : delivery[d].pc # "none"

LEMMA WebhookInvInit == ASSUME WebhookAssumption, WebhookInit PROVE WebhookIInv
<1>1. NoDelivery \in States /\ 0 \in 0 .. MaxAttempts /\ NoDelivery.pc = "none"
      /\ NoDelivery.body = "full"
  BY DEF NoDelivery, States, WebhookAssumption
<1>2. Good(NoDelivery, 0, 0)
  BY <1>1 DEF Good
<1>3. \A s \in Subs, e \in Events : <<s, e>> \in Deliveries
  BY DEF Deliveries
<1> QED BY <1>1, <1>2, <1>3 DEF WebhookInit, WebhookIInv, Typed

\* It is enough to look at the delivery that takes a step.
LEMMA OneDelivery ==
  ASSUME WebhookIInv, NEW d \in Deliveries, NEW q, NEW s, NEW f,
         delivery[d].pc # "none", Good(q, s, f), q.pc \notin {"none", "dropped"},
         delivery' = [delivery EXCEPT ![d] = q], sent' = [sent EXCEPT ![d] = s],
         refused' = [refused EXCEPT ![d] = f], got' \in {got, got \union {d}},
         thanked' = thanked \/ thanked' = thanked \union {d}, d \in thanked' => q.pc = "delivered",
         stored' = stored, emitted' = emitted
  PROVE  WebhookIInv'
<1>1. /\ q \in States /\ s \in 0 .. MaxAttempts /\ f \in 0 .. MaxAttempts
  BY DEF Good
<1>2. Typed'
  BY <1>1 DEF WebhookIInv, Typed
<1>3. \A x \in Deliveries :
        IF x = d THEN delivery'[x] = q /\ sent'[x] = s /\ refused'[x] = f
        ELSE delivery'[x] = delivery[x] /\ sent'[x] = sent[x] /\ refused'[x] = refused[x]
  BY DEF WebhookIInv, Typed
<1>4. \A x \in Deliveries : Good(delivery[x], sent[x], refused[x])'
  <2> TAKE x \in Deliveries
  <2>1. CASE x = d
    BY <1>3, <2>1 DEF Good
  <2>2. CASE x # d
    BY <1>3, <2>2 DEF WebhookIInv, Good
  <2> QED BY <2>1, <2>2
<1>5. \A x \in Subs, e \in Events : delivery'[<<x, e>>].pc # "none" => e \in emitted' /\ Meant(x, e)
  <2> TAKE x \in Subs, e \in Events
  <2>1. <<x, e>> \in Deliveries
    BY DEF Deliveries
  <2>2. CASE <<x, e>> = d
    BY <2>2 DEF WebhookIInv
  <2>3. CASE <<x, e>> # d
    BY <1>3, <2>1, <2>3 DEF WebhookIInv
  <2> QED BY <2>2, <2>3
<1>6. \A x \in thanked' : delivery'[x].pc = "delivered"
  BY <1>3 DEF WebhookIInv, Typed
<1>7. \A x \in got' : delivery'[x].pc # "none"
  BY <1>3 DEF WebhookIInv, Typed
<1>8. \A x \in Deliveries : delivery'[x].pc = "dropped" => ~Postable(x)
  BY <1>3 DEF WebhookIInv
<1> QED BY <1>2, <1>4, <1>5, <1>6, <1>7, <1>8 DEF WebhookIInv

\* An attempt that has ended leads to another one, or to the end.
LEMMA Again ==
  ASSUME WebhookAssumption, NEW q \in States, NEW body \in {"full", "spent"},
         q.attempt < MaxAttempts
  PROVE  LET n == NextAttempt(q, body) IN
           /\ n \in States /\ n.attempt = q.attempt + 1 /\ n.body = body
           /\ n.pc = IF q.attempt + 1 = MaxAttempts THEN "failed" ELSE "sleep"
           /\ n.attempt <= MaxAttempts
<1>1. q.attempt \in 0 .. MaxAttempts /\ MaxAttempts \in Nat \ {0}
  BY DEF States, WebhookAssumption
<1> QED BY <1>1 DEF NextAttempt, States

LEMMA WorkOK ==
  ASSUME WebhookAssumption, WebhookIInv, NEW d \in Deliveries, Work(d)
  PROVE  WebhookIInv'
<1> DEFINE q == delivery[d]
<1>1. /\ Good(q, sent[d], refused[d]) /\ q \in States
      /\ MaxAttempts \in Nat \ {0} /\ q.attempt \in 0 .. MaxAttempts
      /\ q.body \in {"full", "spent"}
  BY DEF WebhookIInv, Good, States, WebhookAssumption
<1>2. /\ sent = [sent EXCEPT ![d] = sent[d]] /\ refused = [refused EXCEPT ![d] = refused[d]]
  BY DEF WebhookIInv, Typed
<1>3. d \in thanked => q.pc = "delivered"
  BY DEF WebhookIInv
<1>4. sent[d] \in Nat /\ refused[d] \in Nat
  BY <1>1 DEF Good
<1>12. \A p : [q EXCEPT !.pc = p] = [pc |-> p, attempt |-> q.attempt, body |-> q.body]
  BY <1>1 DEF States
<1>5. CASE Wake(d)
  <2> DEFINE n == [pc |-> "send", attempt |-> q.attempt, body |-> q.body]
  <2>1. q.pc = "sleep" /\ delivery' = [delivery EXCEPT ![d] = n]
    BY <1>12, <1>5 DEF Wake
  <2>2. Good(n, sent[d], refused[d]) /\ n.pc = "send"
    BY <1>1, <2>1 DEF Good, States
  <2> HIDE DEF n
  <2>8. /\ sent' = [sent EXCEPT ![d] = sent[d]] /\ refused' = [refused EXCEPT ![d] = refused[d]]
        /\ got' = got /\ thanked' = thanked /\ stored' = stored /\ emitted' = emitted
    BY <1>2, <1>5 DEF Wake
  <2>9. q.pc # "none" /\ d \notin thanked'
    BY <1>3, <2>1, <2>8
  <2> QED BY <2>1, <2>2, <2>8, <2>9, OneDelivery
<1>6. CASE Refused(d)
  <2> DEFINE n == NextAttempt(q, q.body)
  <2>1. q.pc = "send" /\ q.attempt < MaxAttempts /\ delivery' = [delivery EXCEPT ![d] = n]
        /\ refused' = [refused EXCEPT ![d] = refused[d] + 1]
    BY <1>1, <1>6 DEF Refused, Good
  <2>2. n \in States /\ n.attempt = q.attempt + 1 /\ n.body = q.body
        /\ n.pc = IF q.attempt + 1 = MaxAttempts THEN "failed" ELSE "sleep"
    BY <1>1, <2>1, Again
  <2> HIDE DEF n
  <2>3. Good(n, sent[d], refused[d] + 1) /\ n.pc \notin {"none", "dropped"}
    BY <1>1, <1>4, <2>1, <2>2 DEF Good
  <2>8. /\ sent' = [sent EXCEPT ![d] = sent[d]] /\ got' = got
        /\ thanked' = thanked /\ stored' = stored /\ emitted' = emitted
    BY <1>2, <1>6 DEF Refused
  <2>9. q.pc # "none" /\ d \notin thanked'
    BY <1>3, <2>1, <2>8
  <2> QED BY <2>1, <2>3, <2>8, <2>9, OneDelivery
<1>7. CASE Transmit(d)
  <2> DEFINE n == [pc |-> "wait", attempt |-> q.attempt, body |-> "spent"]
  <2>1. q.pc = "send" /\ delivery' = [delivery EXCEPT ![d] = n]
        /\ sent' = [sent EXCEPT ![d] = sent[d] + 1]
    BY <1>7 DEF Transmit
  <2>2. Good(n, sent[d] + 1, refused[d]) /\ n.pc = "wait"
    BY <1>1, <1>4, <2>1 DEF Good, States
  <2> HIDE DEF n
  <2>8. /\ refused' = [refused EXCEPT ![d] = refused[d]] /\ got' = got
        /\ thanked' = thanked /\ stored' = stored /\ emitted' = emitted
    BY <1>2, <1>7 DEF Transmit
  <2>9. q.pc # "none" /\ d \notin thanked'
    BY <1>3, <2>1, <2>8
  <2> QED BY <2>1, <2>2, <2>8, <2>9, OneDelivery
<1>8. CASE Mismatch(d)
  <2> DEFINE n == NextAttempt(q, "spent")
  <2>1. q.pc = "send" /\ q.body = "spent" /\ q.attempt < MaxAttempts
        /\ delivery' = [delivery EXCEPT ![d] = n]
    BY <1>1, <1>8 DEF Mismatch, Good
  <2>2. n \in States /\ n.attempt = q.attempt + 1 /\ n.body = "spent"
        /\ n.pc = IF q.attempt + 1 = MaxAttempts THEN "failed" ELSE "sleep"
    BY <1>1, <2>1, Again
  <2> HIDE DEF n
  <2>3. Good(n, sent[d], refused[d]) /\ n.pc \notin {"none", "dropped"}
    BY <1>1, <1>4, <2>1, <2>2 DEF Good
  <2>8. /\ sent' = [sent EXCEPT ![d] = sent[d]] /\ refused' = [refused EXCEPT ![d] = refused[d]]
        /\ got' = got /\ thanked' = thanked /\ stored' = stored /\ emitted' = emitted
    BY <1>2, <1>8 DEF Mismatch
  <2>9. q.pc # "none" /\ d \notin thanked'
    BY <1>3, <2>1, <2>8
  <2> QED BY <2>1, <2>3, <2>8, <2>9, OneDelivery
<1>9. ASSUME q.pc = "wait", got' \in {got, got \union {d}},
             delivery' = [delivery EXCEPT ![d] = NextAttempt(q, "spent")],
             UNCHANGED <<stored, emitted, sent, refused, thanked>>
      PROVE  WebhookIInv'
  <2> DEFINE n == NextAttempt(q, "spent")
  <2>1. n \in States /\ n.attempt = q.attempt + 1 /\ n.body = "spent"
        /\ n.pc = IF q.attempt + 1 = MaxAttempts THEN "failed" ELSE "sleep"
    BY <1>1, <1>9, Again DEF Good
  <2> HIDE DEF n
  <2>2. Good(n, sent[d], refused[d]) /\ n.pc \notin {"none", "dropped"}
    BY <1>1, <1>4, <1>9, <2>1 DEF Good
  <2> QED BY <1>2, <1>3, <1>9, <2>2, OneDelivery DEF n
<1>10. CASE EndpointAnswers(d)
  <2>1. /\ q.pc = "wait" /\ got' = got \union {d}
        /\ UNCHANGED <<stored, emitted, sent, refused>>
        /\ \/ /\ delivery' = [delivery EXCEPT ![d] = [q EXCEPT !.pc = "delivered"]]
              /\ thanked' = thanked \union {d}
           \/ /\ delivery' = [delivery EXCEPT ![d] = NextAttempt(q, "spent")]
              /\ thanked' = thanked
    BY <1>10 DEF EndpointAnswers
  <2>2. CASE thanked' = thanked /\ delivery' = [delivery EXCEPT ![d] = NextAttempt(q, "spent")]
    BY <1>9, <2>1, <2>2
  <2>3. CASE /\ delivery' = [delivery EXCEPT ![d] = [q EXCEPT !.pc = "delivered"]]
             /\ thanked' = thanked \union {d}
    <3> DEFINE n == [pc |-> "delivered", attempt |-> q.attempt, body |-> q.body]
    <3>1. delivery' = [delivery EXCEPT ![d] = n]
      BY <1>12, <2>3
    <3>2. Good(n, sent[d], refused[d]) /\ n.pc = "delivered"
      BY <1>1, <1>4, <2>1 DEF Good, States
    <3> HIDE DEF n
    <3>3. /\ sent' = [sent EXCEPT ![d] = sent[d]] /\ refused' = [refused EXCEPT ![d] = refused[d]]
          /\ stored' = stored /\ emitted' = emitted
      BY <1>2, <2>1
    <3>4. got' = got \union {d} /\ q.pc # "none" /\ n.pc \notin {"none", "dropped"}
          /\ thanked' = thanked \union {d}
      BY <2>1, <2>3, <3>2
    <3> QED BY <3>1, <3>2, <3>3, <3>4, OneDelivery
  <2> QED BY <2>1, <2>2, <2>3
<1>11. CASE Lost(d)
  <2>1. /\ q.pc = "wait" /\ delivery' = [delivery EXCEPT ![d] = NextAttempt(q, "spent")]
        /\ got' \in {got, got \union {d}}
        /\ UNCHANGED <<stored, emitted, sent, refused, thanked>>
    BY <1>11 DEF Lost
  <2> QED BY <1>2, <1>9, <2>1
<1> QED BY <1>5, <1>6, <1>7, <1>8, <1>10, <1>11 DEF Work

LEMMA SubscribeOK ==
  ASSUME WebhookIInv, NEW s \in Subs, Subscribe(s)
  PROVE  WebhookIInv'
BY DEF Subscribe, WebhookIInv, Typed, Good, Postable

\* The deliveries of an event start only when it is emitted, and it is emitted once.
LEMMA EmitOK ==
  ASSUME WebhookAssumption, WebhookIInv, NEW e \in Events, Emit(e)
  PROVE  WebhookIInv'
<1> DEFINE n(d) == [NoDelivery EXCEPT !.pc = IF Postable(d) THEN "send" ELSE "dropped"]
<1>1. \A d \in Deliveries :
        n(d) = [pc |-> IF Postable(d) THEN "send" ELSE "dropped", attempt |-> 0, body |-> "full"]
  BY DEF NoDelivery
<1>2. 0 \in 0 .. MaxAttempts /\ 0 < MaxAttempts
  BY DEF WebhookAssumption
<1>3. \A d \in Deliveries : /\ n(d) \in States /\ Good(n(d), 0, 0)
                            /\ n(d).pc = "dropped" => ~Postable(d)
                            /\ n(d).pc # "none"
  <2> TAKE d \in Deliveries
  <2>1. CASE Postable(d)
    <3>1. n(d) = [pc |-> "send", attempt |-> 0, body |-> "full"]
      BY <1>1, <2>1
    <3> HIDE DEF n
    <3> QED BY <1>2, <3>1 DEF Good, States
  <2>2. CASE ~Postable(d)
    <3>1. n(d) = [pc |-> "dropped", attempt |-> 0, body |-> "full"]
      BY <1>1, <2>2
    <3> HIDE DEF n
    <3> QED BY <1>2, <2>2, <3>1 DEF Good, States
  <2> QED BY <2>1, <2>2
<1>4. \A d \in Deliveries : d \in Matching(e) \X {e} => delivery[d].pc = "none"
  BY DEF Emit, WebhookIInv, Deliveries
<1>5. \A d \in Deliveries : d \in Matching(e) \X {e} => Good(n(d), sent[d], refused[d])
  <2> TAKE d \in Deliveries
  <2> HAVE d \in Matching(e) \X {e}
  <2>1. sent[d] = 0 /\ refused[d] = 0
    BY <1>4 DEF WebhookIInv, Good
  <2> HIDE DEF n
  <2> QED BY <1>3, <2>1
<1> HIDE DEF n
<1>6. \A d \in Deliveries : delivery'[d] = IF d \in Matching(e) \X {e} THEN n(d) ELSE delivery[d]
  BY DEF Emit, WebhookIInv, Typed, n
<1>7. /\ stored' = stored /\ emitted' = emitted \union {e} /\ thanked' = thanked
      /\ sent' = sent /\ refused' = refused /\ got' = got
  BY DEF Emit
<1>8. Typed'
  <2>1. delivery' \in [Deliveries -> States]
    BY <1>3, <1>6 DEF Emit, WebhookIInv, Typed
  <2> QED BY <1>7, <2>1 DEF WebhookIInv, Typed
<1>9. \A d \in Deliveries : Good(delivery[d], sent[d], refused[d])'
  <2> TAKE d \in Deliveries
  <2>1. CASE d \in Matching(e) \X {e}
    BY <1>5, <1>6, <1>7, <2>1 DEF Good
  <2>2. CASE d \notin Matching(e) \X {e}
    BY <1>6, <1>7, <2>2 DEF WebhookIInv, Good
  <2> QED BY <2>1, <2>2
<1>10. \A s \in Subs, x \in Events : delivery'[<<s, x>>].pc # "none" => x \in emitted' /\ Meant(s, x)
  <2> TAKE s \in Subs, x \in Events
  <2>1. <<s, x>> \in Deliveries
    BY DEF Deliveries
  <2>2. CASE <<s, x>> \in Matching(e) \X {e}
    <3>1. x = e /\ s \in Matching(e)
      BY <2>2
    <3> QED BY <1>7, <3>1 DEF Matching, Meant
  <2>3. CASE <<s, x>> \notin Matching(e) \X {e}
    BY <1>6, <1>7, <2>1, <2>3 DEF WebhookIInv
  <2> QED BY <2>2, <2>3
<1>11. \A d \in thanked' : delivery'[d].pc = "delivered"
  BY <1>4, <1>6, <1>7 DEF WebhookIInv, Typed
<1>12. \A d \in got' : delivery'[d].pc # "none"
  BY <1>3, <1>6, <1>7 DEF WebhookIInv, Typed
<1>13. \A d \in Deliveries : delivery'[d].pc = "dropped" => ~Postable(d)
  BY <1>3, <1>6 DEF WebhookIInv
<1> QED BY <1>8, <1>9, <1>10, <1>11, <1>12, <1>13 DEF WebhookIInv

\* A restart loses the deliveries under way and no other.
LEMMA RestartOK ==
  ASSUME WebhookAssumption, WebhookIInv, Restart
  PROVE  WebhookIInv'
<1> DEFINE n == [NoDelivery EXCEPT !.pc = "lost"]
<1>1. n = [pc |-> "lost", attempt |-> 0, body |-> "full"]
  BY DEF NoDelivery
<1>2. 0 \in 0 .. MaxAttempts
  BY DEF WebhookAssumption
<1>3. n \in States /\ n.pc = "lost" /\ n.body = "full"
  BY <1>1, <1>2 DEF States
<1> HIDE DEF n
<1>4. \A d \in Deliveries : delivery'[d] = IF Running(d) THEN n ELSE delivery[d]
  BY DEF Restart, n
<1>5. /\ stored' = {} /\ emitted' = emitted /\ thanked' = thanked
      /\ sent' = sent /\ refused' = refused /\ got' = got
  BY DEF Restart
<1>6. Typed'
  <2>1. delivery' \in [Deliveries -> States]
    BY <1>3, <1>4 DEF Restart, WebhookIInv, Typed
  <2> QED BY <1>5, <2>1 DEF WebhookIInv, Typed
<1>7. \A d \in Deliveries : Good(delivery[d], sent[d], refused[d])'
  <2> TAKE d \in Deliveries
  <2>1. CASE Running(d)
    BY <1>3, <1>4, <1>5, <2>1 DEF WebhookIInv, Good
  <2>2. CASE ~Running(d)
    BY <1>4, <1>5, <2>2 DEF WebhookIInv, Good
  <2> QED BY <2>1, <2>2
<1>8. \A s \in Subs, x \in Events : delivery'[<<s, x>>].pc # "none" => x \in emitted' /\ Meant(s, x)
  <2> TAKE s \in Subs, x \in Events
  <2>1. <<s, x>> \in Deliveries
    BY DEF Deliveries
  <2>2. delivery'[<<s, x>>].pc # "none" => delivery[<<s, x>>].pc # "none"
    BY <1>4, <2>1 DEF Running
  <2> QED BY <1>5, <2>2 DEF WebhookIInv
<1>9. \A d \in thanked' : delivery'[d].pc = "delivered"
  BY <1>4, <1>5 DEF WebhookIInv, Typed, Running
<1>10. \A d \in got' : delivery'[d].pc # "none"
  BY <1>3, <1>4, <1>5 DEF WebhookIInv, Typed
<1>11. \A d \in Deliveries : delivery'[d].pc = "dropped" => ~Postable(d)
  BY <1>3, <1>4 DEF WebhookIInv
<1> QED BY <1>6, <1>7, <1>8, <1>9, <1>10, <1>11 DEF WebhookIInv

LEMMA WebhookInvNext == ASSUME WebhookAssumption, WebhookIInv, [WebhookNext]_webhookVars PROVE WebhookIInv'
<1>1. CASE UNCHANGED webhookVars
  BY <1>1 DEF webhookVars, WebhookIInv, Typed, Good, Postable
<1>2. ASSUME NEW s \in Subs, Subscribe(s) PROVE WebhookIInv'
  BY <1>2, SubscribeOK
<1>3. ASSUME NEW e \in Events, Emit(e) PROVE WebhookIInv'
  BY <1>3, EmitOK
<1>4. ASSUME NEW d \in Deliveries, Work(d) PROVE WebhookIInv'
  BY <1>4, WorkOK
<1>5. CASE Restart
  BY <1>5, RestartOK
<1> QED BY <1>1, <1>2, <1>3, <1>4, <1>5 DEF WebhookNext

LEMMA WebhookInvariance == ASSUME WebhookAssumption PROVE WebhookSpec => []WebhookIInv
BY WebhookInvInit, WebhookInvNext, PTL DEF WebhookSpec

\* Every variable keeps its type, and no history variable passes the number of
\* attempts, although the loop's counter starts again with no event.
THEOREM WebhookTypeCorrect == ASSUME WebhookAssumption PROVE WebhookSpec => []WebhookTypeOK
<1>1. WebhookIInv => WebhookTypeOK
  BY DEF WebhookIInv, Typed, WebhookTypeOK
<1> QED BY <1>1, WebhookInvariance, PTL

\* An event reaches only endpoints of its tenant that asked for it (GetSubscriptions),
\* for any subscriptions, events and owners.
THEOREM EventsStayWithTheirTenant == ASSUME WebhookAssumption PROVE WebhookSpec => []OnlyForTheTenant
<1>1. WebhookIInv => OnlyForTheTenant
  <2> SUFFICES ASSUME WebhookIInv, NEW s \in Subs, NEW e \in Events, <<s, e>> \in got
               PROVE  Meant(s, e)
    BY DEF OnlyForTheTenant, Meant
  <2>2. delivery[<<s, e>>].pc # "none"
    BY DEF WebhookIInv
  <2> QED BY <2>2 DEF WebhookIInv
<1> QED BY <1>1, WebhookInvariance, PTL

\* However many attempts there are, a delivery of which deliver can make a request is
\* given up only after the whole event has been sent, or each attempt has found nobody;
\* a body that is spent, or a restart, never takes all its attempts away.
THEOREM GivingUpIsEarned == ASSUME WebhookAssumption PROVE WebhookSpec => []GivenUpAfterATry
<1>1. WebhookIInv => GivenUpAfterATry
  BY DEF WebhookIInv, Good, GivenUpAfterATry
<1> QED BY <1>1, WebhookInvariance, PTL

\* A success ends the loop: no attempt, and no restart, sends the event again, whatever
\* became of the attempts before.
THEOREM SuccessIsFinal == ASSUME WebhookAssumption PROVE WebhookSpec => NotSentAgain
<1> DEFINE Kept == \A d \in thanked : sent'[d] = sent[d]
<1>1. ASSUME WebhookIInv, [WebhookNext]_webhookVars PROVE Kept
  <2> SUFFICES ASSUME NEW d \in thanked PROVE sent'[d] = sent[d]
    OBVIOUS
  <2>1. d \in Deliveries /\ delivery[d].pc = "delivered" /\ sent \in [Deliveries -> 0 .. MaxAttempts]
    BY <1>1 DEF WebhookIInv, Typed
  <2>2. ASSUME NEW x \in Deliveries, Work(x) PROVE sent'[d] = sent[d]
    <3>1. CASE sent' = sent
      BY <3>1
    <3>2. CASE Transmit(x)
      BY <2>1, <3>2 DEF Transmit
    <3> QED BY <2>2, <3>1, <3>2
            DEF Work, Wake, Refused, Mismatch, EndpointAnswers, Lost
  <2> QED BY <1>1, <2>2 DEF WebhookNext, webhookVars, Subscribe, Emit, Restart
<1>2. ASSUME WebhookIInv, [WebhookNext]_webhookVars PROVE [Kept]_webhookVars
  BY <1>1, <1>2
<1> HIDE DEF Kept
<1>3. WebhookSpec => [][Kept]_webhookVars
  BY <1>2, WebhookInvariance, PTL DEF WebhookSpec
<1> QED BY <1>3 DEF Kept, NotSentAgain
=============================================================================
