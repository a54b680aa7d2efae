----------------------------- MODULE MCOutbound -----------------------------
(***************************************************************************)
(* Small instances of the two parts that wait for HTTP endpoints, the      *)
(* OAuth2 client and webhook delivery.  They share nothing: a behaviour is *)
(* one of either, and the other's variables keep their initial values.     *)
(* One of the two tenants listens to one type of event, the other to all;  *)
(* a third subscription has a URL that cannot be parsed.                   *)
(***************************************************************************)
EXTENDS OAuth2Client, WebhookDelivery, TLC

CONSTANTS c1, c2, s1, s2, s3, e1, e2

VARIABLE part   \* "token" or "webhook"

bothVars == <<part, vars, webhookVars>>

MCSubTenant == s1 :> "t1" @@ s2 :> "t2" @@ s3 :> "t1"
MCEventTenant == e1 :> "t1" @@ e2 :> "t2"
MCWanted == s1 :> {"otp.sent"} @@ s2 :> {"*"} @@ s3 :> {"otp.sent"}
MCEventType == e1 :> "otp.sent" @@ e2 :> "otp.verified"

ASSUME WebhookAssumed == WebhookAssumption

EitherInit == part \in {"token", "webhook"} /\ Init /\ WebhookInit

OnlyToken == part = "token" /\ UNCHANGED <<part, webhookVars>>
TokenTick == OnlyToken /\ Tick
TokenGet == OnlyToken /\ \E c \in Callers : GetToken(c)
TokenRead(c) == OnlyToken /\ Read(c)
TokenLock(c) == OnlyToken /\ Lock(c)
TokenAnswer(c) == OnlyToken /\ Answer(c)
TokenFail(c) == OnlyToken /\ Fail(c)

OnlyWebhook == part = "webhook" /\ UNCHANGED <<part, vars>>
WebhookSubscribe == OnlyWebhook /\ \E s \in Subs : Subscribe(s)
WebhookEmit == OnlyWebhook /\ \E e \in Events : Emit(e)
WebhookWake(d) == OnlyWebhook /\ Wake(d)
WebhookRefused(d) == OnlyWebhook /\ Refused(d)
WebhookTransmit(d) == OnlyWebhook /\ Transmit(d)
WebhookMismatch(d) == OnlyWebhook /\ Mismatch(d)
WebhookAnswer(d) == OnlyWebhook /\ EndpointAnswers(d)
WebhookLost(d) == OnlyWebhook /\ Lost(d)
WebhookRestart == OnlyWebhook /\ Restart

TokenHttp(c) == TokenAnswer(c) \/ TokenFail(c)

WebhookWork(d) ==
  \/ WebhookWake(d) \/ WebhookRefused(d) \/ WebhookTransmit(d)
  \/ WebhookMismatch(d) \/ WebhookAnswer(d) \/ WebhookLost(d)

EitherNext ==
  \/ TokenTick \/ TokenGet \/ \E c \in Callers : TokenRead(c) \/ TokenLock(c) \/ TokenHttp(c)
  \/ WebhookSubscribe \/ WebhookEmit \/ WebhookRestart
  \/ \E d \in Deliveries : WebhookWork(d)

\* The fairness of OAuth2Client and of WebhookDelivery.
EitherSpec ==
  /\ EitherInit /\ [][EitherNext]_bothVars
  /\ \A c \in Callers : /\ SF_bothVars(TokenRead(c)) /\ SF_bothVars(TokenLock(c))
                        /\ WF_bothVars(TokenHttp(c))
  /\ \A d \in Deliveries : WF_bothVars(WebhookWork(d))
=============================================================================
