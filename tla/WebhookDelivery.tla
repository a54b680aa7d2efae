-------------------------- MODULE WebhookDelivery --------------------------
(***************************************************************************)
(* Webhooks (internal/service/webhook): an event is handed to a goroutine  *)
(* per matching subscription, which posts it to the endpoint up to three   *)
(* times.  All attempts share one http.Request, and with it a body that    *)
(* can be read only once.                                                  *)
(***************************************************************************)
EXTENDS Integers, FiniteSets

CONSTANTS
  Subs, Events,
  SubTenant, EventTenant,   \* who owns a subscription, an event
  Wanted,                   \* the event types a subscription names, or "*"
  EventType,
  ValidURL,                 \* the subscriptions whose URL http.NewRequest accepts
  Encodable,                \* the events json.Marshal accepts
  MaxAttempts,              \* 3
  Crashes                   \* the server may restart

WebhookAssumption == MaxAttempts \in Nat \ {0} /\ Crashes \in BOOLEAN

VARIABLES
  stored,     \* the subscriptions in the store
  emitted,    \* events emitted so far
  delivery,   \* delivery[d]: the goroutine for a subscription and an event
  sent,       \* history: attempts that sent the whole event
  refused,    \* history: attempts that found nobody listening
  got,        \* history: deliveries whose endpoint received the event
  thanked     \* history: deliveries whose success the server has seen

webhookVars == <<stored, emitted, delivery, sent, refused, got, thanked>>

Deliveries == Subs \X Events

NoDelivery == [pc |-> "none", attempt |-> 0, body |-> "full"]
States == [pc : {"none", "send", "wait", "sleep", "delivered", "failed", "dropped", "lost"},
           attempt : 0 .. MaxAttempts, body : {"full", "spent"}]

WebhookTypeOK ==
  /\ stored \subseteq Subs /\ emitted \subseteq Events
  /\ delivery \in [Deliveries -> States]
  /\ sent \in [Deliveries -> 0 .. MaxAttempts]
  /\ refused \in [Deliveries -> 0 .. MaxAttempts]
  /\ got \subseteq Deliveries /\ thanked \subseteq Deliveries

WebhookInit ==
  /\ stored = {} /\ emitted = {} /\ got = {} /\ thanked = {}
  /\ delivery = [d \in Deliveries |-> NoDelivery]
  /\ sent = [d \in Deliveries |-> 0] /\ refused = [d \in Deliveries |-> 0]
-----------------------------------------------------------------------------
(* Subscriptions and events *)

\* (Definitions named Bug_... are plausible mistakes, which the properties must catch.)
\* The tenant left out for subscriptions to everything.
Bug_Matching(e) ==
  {s \in stored : "*" \in Wanted[s] \/ (SubTenant[s] = EventTenant[e] /\ EventType[e] \in Wanted[s])}

\* GetSubscriptions; there is no operation that makes a subscription inactive.
Matching(e) ==
  {s \in stored : SubTenant[s] = EventTenant[e] /\ Wanted[s] \cap {EventType[e], "*"} # {}}

Subscribe(s) ==
  /\ s \notin stored
  /\ stored' = stored \union {s}
  /\ UNCHANGED <<emitted, delivery, sent, refused, got, thanked>>

\* There is something to post, and somewhere to post it: any URL that is not empty may
\* be subscribed, also one that cannot be parsed.
Postable(d) == d[1] \in ValidURL /\ d[2] \in Encodable

\* Emit starts a goroutine for each subscription there is at that moment.  What deliver
\* does before its loop is of no concern to others: if there can be no request, it returns.
Emit(e) ==
  /\ e \notin emitted
  /\ emitted' = emitted \union {e}
  /\ delivery' = [d \in Deliveries |->
       IF d \in Matching(e) \X {e}
       THEN [NoDelivery EXCEPT !.pc = IF Postable(d) THEN "send" ELSE "dropped"]
       ELSE delivery[d]]
  /\ UNCHANGED <<stored, sent, refused, got, thanked>>
-----------------------------------------------------------------------------
(* Attempts *)

\* The loop goes on, after a pause, or gives up.
NextAttempt(q, body) ==
  [pc |-> IF q.attempt + 1 = MaxAttempts THEN "failed" ELSE "sleep",
   attempt |-> q.attempt + 1, body |-> body]

Wake(d) ==
  /\ delivery[d].pc = "sleep"
  /\ delivery' = [delivery EXCEPT ![d] = [@ EXCEPT !.pc = "send"]]
  /\ UNCHANGED <<stored, emitted, sent, refused, got, thanked>>

\* The body consumed by an attempt that reached nobody.
Bug_Refused(d) ==
  /\ delivery[d].pc = "send"
  /\ delivery' = [delivery EXCEPT ![d] = NextAttempt(@, "spent")]
  /\ refused' = [refused EXCEPT ![d] = @ + 1]
  /\ UNCHANGED <<stored, emitted, sent, got, thanked>>

\* No connection, or a URL that leads to none: nothing of the body has been read.
Refused(d) ==
  /\ delivery[d].pc = "send"
  /\ delivery' = [delivery EXCEPT ![d] = NextAttempt(@, @.body)]
  /\ refused' = [refused EXCEPT ![d] = @ + 1]
  /\ UNCHANGED <<stored, emitted, sent, got, thanked>>

\* The request goes out.  A body that has been read before is read anew only if a
\* connection left open by an earlier answer is there to be used again.
Transmit(d) ==
  /\ delivery[d].pc = "send"
  /\ delivery' = [delivery EXCEPT ![d] = [pc |-> "wait", attempt |-> @.attempt, body |-> "spent"]]
  /\ sent' = [sent EXCEPT ![d] = @ + 1]
  /\ UNCHANGED <<stored, emitted, refused, got, thanked>>

\* An attempt that sent nothing is not counted.
Bug_Mismatch(d) ==
  /\ delivery[d].pc = "send" /\ delivery[d].body = "spent"
  /\ delivery' = [delivery EXCEPT ![d] = [@ EXCEPT !.pc = "sleep"]]
  /\ UNCHANGED <<stored, emitted, sent, refused, got, thanked>>

\* On a new connection the transport finds less of a body than ContentLength says,
\* and fails before anything is sent (over HTTP/2 the endpoint gets, and rejects, a
\* request without its body).
Mismatch(d) ==
  /\ delivery[d].pc = "send" /\ delivery[d].body = "spent"
  /\ delivery' = [delivery EXCEPT ![d] = NextAttempt(@, "spent")]
  /\ UNCHANGED <<stored, emitted, sent, refused, got, thanked>>

\* Only one of the answers that mean success accepted as such.
Bug_EndpointAnswers(d) ==
  /\ delivery[d].pc = "wait"
  /\ got' = got \union {d}
  /\ \E code \in {200, 204, 500} :
       /\ delivery' = [delivery EXCEPT ![d] =
            IF code = 200 THEN [@ EXCEPT !.pc = "delivered"] ELSE NextAttempt(@, "spent")]
       /\ thanked' = IF code < 300 THEN thanked \union {d} ELSE thanked
  /\ UNCHANGED <<stored, emitted, sent, refused>>

\* The endpoint answers, and any 2xx is a success.
EndpointAnswers(d) ==
  /\ delivery[d].pc = "wait"
  /\ got' = got \union {d}
  /\ \E code \in {200, 204, 500} :
       /\ delivery' = [delivery EXCEPT ![d] =
            IF code < 300 THEN [@ EXCEPT !.pc = "delivered"] ELSE NextAttempt(@, "spent")]
       /\ thanked' = IF code < 300 THEN thanked \union {d} ELSE thanked
  /\ UNCHANGED <<stored, emitted, sent, refused>>

\* The connection breaks or ten seconds pass, whether or not the endpoint gets it, then
\* or later.
Lost(d) ==
  /\ delivery[d].pc = "wait"
  /\ got' \in {got, got \union {d}}
  /\ delivery' = [delivery EXCEPT ![d] = NextAttempt(@, "spent")]
  /\ UNCHANGED <<stored, emitted, sent, refused, thanked>>

Running(d) == delivery[d].pc \in {"send", "wait", "sleep"}

\* The process starts again: subscriptions and deliveries were in memory only.
Restart ==
  /\ Crashes
  /\ stored' = {}
  /\ delivery' = [d \in Deliveries |-> IF Running(d) THEN [NoDelivery EXCEPT !.pc = "lost"] ELSE delivery[d]]
  /\ UNCHANGED <<emitted, sent, refused, got, thanked>>

Work(d) ==
  \/ Wake(d) \/ Refused(d) \/ Transmit(d) \/ Mismatch(d)
  \/ EndpointAnswers(d) \/ Lost(d)

WebhookNext ==
  \/ \E s \in Subs : Subscribe(s)
  \/ \E e \in Events : Emit(e)
  \/ \E d \in Deliveries : Work(d)
  \/ Restart

WebhookSpec == WebhookInit /\ [][WebhookNext]_webhookVars

\* Sleeps end, and so does an attempt, at the latest with the client's timeout.
WebhookFairSpec == WebhookSpec /\ \A d \in Deliveries : WF_webhookVars(Work(d))
-----------------------------------------------------------------------------
(* Properties *)

\* An event reaches only endpoints of its own tenant that asked for its type,
\* whatever is subscribed, retried or restarted meanwhile.
OnlyForTheTenant ==
  \A s \in Subs, e \in Events : <<s, e>> \in got =>
    SubTenant[s] = EventTenant[e] /\ Wanted[s] \cap {EventType[e], "*"} # {}

\* If a request can be made of the subscription and the event, the server gives up only
\* after the whole event has been on its way to the endpoint, or nobody was listening
\* three times: the body that is spent never costs an endpoint all of its attempts.
\* (Otherwise deliver returns without an attempt, and only the log says so.)
GivenUpAfterATry ==
  \A d \in Deliveries : Postable(d) /\ delivery[d].pc \in {"failed", "dropped"} =>
    sent[d] > 0 \/ refused[d] = MaxAttempts

\* Once the server has seen any success, it does not send the event again.  (What was
\* sent before, by an attempt that timed out, may still arrive.)
NotSentAgain == [][\A d \in thanked : sent'[d] = sent[d]]_webhookVars

\* Every delivery comes to an end, whatever the endpoints of other subscriptions do.
EveryDeliveryEnds == \A d \in Deliveries : []<>~Running(d)

\* The comment in deliver (service.go:88): "Retry up to 3 times with exponential
\* backoff", and the log's "delivery failed after 3 attempts".  An attempt that finds
\* the body spent sends nothing.
RetriedInFull == \A d \in Deliveries : delivery[d].pc = "failed" => sent[d] + refused[d] = MaxAttempts
=============================================================================
