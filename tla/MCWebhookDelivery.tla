------------------------- MODULE MCWebhookDelivery -------------------------
(* A small instance of WebhookDelivery: two tenants, one of which listens to *)
(* one type of event and the other to everything.                           *)
EXTENDS WebhookDelivery, TLC

CONSTANTS s1, s2, e1, e2

MCSubTenant == s1 :> "t1" @@ s2 :> "t2"
MCSameTenant == s1 :> "t1" @@ s2 :> "t1"
MCWanted == s1 :> {"otp.sent"} @@ s2 :> {"*"}
MCEventTenant == e1 :> "t1" @@ e2 :> "t2"
MCEventType == e1 :> "otp.sent" @@ e2 :> "otp.verified"
=============================================================================
