--------------------------- MODULE MCVerification ---------------------------
(* Small instances of Verification: two sessions of two tenants. *)
EXTENDS Verification, TLC

CONSTANTS t1, t2, p1, p2, s1, s2, r1, r2, sms, wa, sandbox, whatsapp

\* s1 is in a country a carrier adapter serves, s2 is not.
MCTenantOf == [s \in SessionIds |-> IF s = s1 THEN t1 ELSE t2]
MCPhoneOf == [s \in SessionIds |-> p1]
MCTwoPhones == [s \in SessionIds |-> IF s = s1 THEN p1 ELSE p2]
MCCountryOf == [s \in SessionIds |-> IF s = s1 THEN "ID" ELSE "XX"]

\* router.New registers one sandbox provider for every channel.
MCSandboxOnly == [ch \in {sms, wa} |-> sandbox]
\* A deployment that sends WhatsApp codes through the Business API.
MCMixed == sms :> sandbox @@ wa :> whatsapp
MCWhatsAppOnly == [ch \in {sms} |-> whatsapp]

Symmetry == Permutations({r1, r2})
=============================================================================
