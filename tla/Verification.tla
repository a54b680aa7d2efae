---------------------------- MODULE Verification ----------------------------
(***************************************************************************)
(* The verification service of SilentPass: sessions, silent (carrier)      *)
(* verification, one-time codes and the tokens handed out for a proof of   *)
(* possession.  Source: internal/service/verification, the session         *)
(* repositories, and the in-memory code stores of internal/adapter/otp.    *)
(*                                                                         *)
(* Every HTTP request runs in a goroutine of its own; a request is split   *)
(* at each point where it gives up a lock or waits for a peer, so that any *)
(* two requests interleave there.  A server restart may hit any of them.   *)
(***************************************************************************)
EXTENDS Integers, Sequences, FiniteSets

CONSTANTS
  Tenants, Phones,
  SessionIds,      \* the uuids CreateSession may draw
  TenantOf,        \* TenantOf[s], PhoneOf[s], CountryOf[s]: what the caller of
  PhoneOf,         \* CreateSession supplies, never changed afterwards
  CountryOf,
  Supported,       \* countries some telco adapter serves
  Requests,        \* request goroutines
  Codes,           \* what the code generators may draw
  UniversalCode,   \* "000000"
  Providers,       \* code stores: the sandbox and the WhatsApp provider
  Sandbox,         \* those of the sandbox kind
  ProviderOf,      \* the OTP router's map from channel to provider
  Channels,        \* channels a caller may name
  SMS,             \* the channel the router falls back to
  SessionTTL, CodeTTL,
  Durable,         \* sessions live in PostgreSQL and survive a restart
  StoreMayFail,    \* an UPDATE of PostgreSQL may fail
  Crashes,         \* the server may restart
  None,            \* "no value"
  MaxClock, MaxSends   \* bounds of the model

ASSUME VerificationAssumption ==
  /\ TenantOf \in [SessionIds -> Tenants]
  /\ PhoneOf \in [SessionIds -> Phones]
  /\ Sandbox \subseteq Providers
  /\ \A ch \in DOMAIN ProviderOf : ProviderOf[ch] \in Providers
  /\ None \notin Providers \union SessionIds
  /\ SessionTTL \in Nat /\ CodeTTL \in Nat
  /\ MaxClock \in Nat /\ MaxSends \in Nat
  /\ Durable \in BOOLEAN /\ StoreMayFail \in BOOLEAN /\ Crashes \in BOOLEAN

VARIABLES
  now,        \* the wall clock
  status,     \* status[s] of a stored session; "absent" before, "lost" after
  expiresAt,  \* ExpiresAt of the session
  codes,      \* codes[p][ph]: index in sent of the code p holds for ph, 0 if none
  sent,       \* every code generated so far, in order
  req,        \* what each request goroutine is doing
  proofs,     \* history: every proof of possession obtained
  tokens      \* every token handed out

vars == <<now, status, expiresAt, codes, sent, req, proofs, tokens>>
-----------------------------------------------------------------------------
Status == {"absent", "pending", "verified", "expired", "lost"}

SentCode == [phone : Phones, prov : Providers, code : Codes, expiresAt : Nat]

\* A proof of possession: the carrier's answer (gen = Silent), or the match of
\* the gen-th code sent.
Silent == 0
Proof == [sess : SessionIds, gen : Nat]
Token == [proof : Proof, tenant : Tenants]

\* A goroutine: where it stands, the arguments of its request and, for a code,
\* the provider it deals with, the channels it has still to ask, the code it read.
Idle == [pc |-> "idle", sess |-> None, tenant |-> None, code |-> None,
         prov |-> None, todo |-> {}, gen |-> 0]
Presentable == Codes \union {UniversalCode}
Active == [pc : {"expire", "telco", "store", "read", "drop", "consume", "mark", "issue"},
           sess : SessionIds, tenant : Tenants, code : Presentable \union {None},
           prov : Providers \union {None}, todo : SUBSET DOMAIN ProviderOf, gen : Nat]

EmptyCodes == [p \in Providers |-> [ph \in Phones |-> 0]]

TypeOK ==
  /\ now \in 0 .. MaxClock
  /\ status \in [SessionIds -> Status]
  /\ expiresAt \in [SessionIds -> Nat]
  /\ sent \in Seq(SentCode)
  /\ codes \in [Providers -> [Phones -> 0 .. Len(sent)]]
  /\ req \in [Requests -> {Idle} \union Active]
  /\ proofs \subseteq Proof
  /\ tokens \subseteq Token

Init ==
  /\ now = 0
  /\ status = [s \in SessionIds |-> "absent"]
  /\ expiresAt = [s \in SessionIds |-> 0]
  /\ codes = EmptyCodes
  /\ sent = << >>
  /\ req = [r \in Requests |-> Idle]
  /\ proofs = {}
  /\ tokens = {}
-----------------------------------------------------------------------------
(* Helpers *)

\* (Definitions named Bug_... are plausible mistakes, which the properties must catch.)
\* No comparison of the session's tenant with the caller's.
Bug_Found(s, t) == status[s] \notin {"absent", "lost"}

\* GetSession finds s, and the handler's tenant check passes.
Found(s, t) == status[s] \notin {"absent", "lost"} /\ TenantOf[s] = t

\* UpdateSessionStatus: an unconditional overwrite, whose error the callers ignore.
SetStatus(s, st) ==
  \/ status' = [status EXCEPT ![s] = st]
  \/ StoreMayFail /\ UNCHANGED status

Finish(r) == req' = [req EXCEPT ![r] = Idle]
Goto(r, pc) == req' = [req EXCEPT ![r].pc = pc]

Start(pc, s, t) == [Idle EXCEPT !.pc = pc, !.sess = s, !.tenant = t]

\* The router's choice of provider for a channel; None is ErrNoProvider.
Route(ch) ==
  IF ch \in DOMAIN ProviderOf THEN ProviderOf[ch]
  ELSE IF SMS \in DOMAIN ProviderOf THEN ProviderOf[SMS] ELSE None

\* Only the WhatsApp provider dates its codes; only the sandbox takes "000000".
Stale(p, g) == p \notin Sandbox /\ now > sent[g].expiresAt
Matches(p, g, code) == code = sent[g].code \/ (p \in Sandbox /\ code = UniversalCode)

\* A wrong code treated like an expired one.
Bug_Lookup(p, ph, code) ==
  LET g == codes[p][ph]
  IN IF g = 0 THEN "miss" ELSE IF ~Matches(p, g, code) THEN "stale" ELSE "hit"

\* What Verify of provider p makes of the entry it reads for phone ph.
Lookup(p, ph, code) ==
  LET g == codes[p][ph]
  IN IF g = 0 THEN "miss"
     ELSE IF Stale(p, g) THEN "stale"
     ELSE IF Matches(p, g, code) THEN "hit" ELSE "miss"

\* The loop over the providers starts over instead of giving up.
Bug_NextProvider(q, rest) ==
  [q EXCEPT !.pc = "read", !.prov = None, !.gen = 0,
            !.todo = IF rest = {} THEN DOMAIN ProviderOf ELSE rest]

\* The router moves on to the providers left, or answers that the check failed.
NextProvider(q, rest) ==
  IF rest = {} THEN Idle ELSE [q EXCEPT !.pc = "read", !.prov = None, !.todo = rest, !.gen = 0]
-----------------------------------------------------------------------------
(* Sessions and silent verification *)

\* CreateSession: store a pending session under a fresh uuid.
CreateSession(s) ==
  /\ status[s] = "absent"
  /\ status' = [status EXCEPT ![s] = "pending"]
  /\ expiresAt' = [expiresAt EXCEPT ![s] = now + SessionTTL]
  /\ UNCHANGED <<now, codes, sent, req, proofs, tokens>>

\* ExpiresAt taken as the first expired instant.
Bug_BeginSilent(r, s, t) ==
  /\ req[r] = Idle
  /\ Found(s, t)
  /\ \/ now >= expiresAt[s] /\ req' = [req EXCEPT ![r] = Start("expire", s, t)]
     \/ /\ now < expiresAt[s]
        /\ CountryOf[s] \in Supported
        /\ req' = [req EXCEPT ![r] = Start("telco", s, t)]
  /\ UNCHANGED <<now, status, expiresAt, codes, sent, proofs, tokens>>

\* SilentVerify up to the status write of an expired session or the carrier call.
BeginSilent(r, s, t) ==
  /\ req[r] = Idle
  /\ Found(s, t)
  /\ \/ now > expiresAt[s] /\ req' = [req EXCEPT ![r] = Start("expire", s, t)]
     \/ /\ now <= expiresAt[s]
        /\ CountryOf[s] \in Supported
        /\ req' = [req EXCEPT ![r] = Start("telco", s, t)]
  /\ UNCHANGED <<now, status, expiresAt, codes, sent, proofs, tokens>>

\* SilentVerify of an expired session: write the status, answer "failed".
ExpireSession(r) ==
  /\ req[r].pc = "expire"
  /\ SetStatus(req[r].sess, "expired")
  /\ Finish(r)
  /\ UNCHANGED <<now, expiresAt, codes, sent, proofs, tokens>>

\* Any answer without an error taken for a success.
Bug_TelcoAnswer(r) ==
  /\ req[r].pc = "telco"
  /\ Goto(r, "mark")
  /\ \/ proofs' = proofs \union {[sess |-> req[r].sess, gen |-> Silent]}
     \/ UNCHANGED proofs
  /\ UNCHANGED <<now, status, expiresAt, codes, sent, tokens>>

\* The token handed out without the status update.
Bug_TelcoAnswer_unmarked(r) ==
  /\ req[r].pc = "telco"
  /\ Goto(r, "issue")
  /\ proofs' = proofs \union {[sess |-> req[r].sess, gen |-> Silent]}
  /\ UNCHANGED <<now, status, expiresAt, codes, sent, tokens>>

\* The carrier's answer: verified, or anything else (an error counts as fallback).
TelcoAnswer(r) ==
  /\ req[r].pc = "telco"
  /\ \/ /\ Goto(r, "mark")
        /\ proofs' = proofs \union {[sess |-> req[r].sess, gen |-> Silent]}
     \/ Finish(r) /\ UNCHANGED proofs
  /\ UNCHANGED <<now, status, expiresAt, codes, sent, tokens>>

\* The success thrown away if the session has been marked expired meanwhile.
Bug_MarkVerified(r) ==
  /\ req[r].pc = "mark"
  /\ IF status[req[r].sess] = "expired" THEN UNCHANGED status /\ Finish(r)
     ELSE SetStatus(req[r].sess, "verified") /\ Goto(r, "issue")
  /\ UNCHANGED <<now, expiresAt, codes, sent, proofs, tokens>>

\* SilentVerify and CheckOTP: record the success, whatever the status says by now.
MarkVerified(r) ==
  /\ req[r].pc = "mark"
  /\ SetStatus(req[r].sess, "verified")
  /\ Goto(r, "issue")
  /\ UNCHANGED <<now, expiresAt, codes, sent, proofs, tokens>>

\* generateToken and the answer that carries it.
IssueToken(r) ==
  /\ req[r].pc = "issue"
  /\ tokens' = tokens \union
       {[proof |-> [sess |-> req[r].sess, gen |-> req[r].gen], tenant |-> req[r].tenant]}
  /\ Finish(r)
  /\ UNCHANGED <<now, status, expiresAt, codes, sent, proofs>>
-----------------------------------------------------------------------------
(* One-time codes *)

\* SendOTP up to the provider's generation of a code; the session's ExpiresAt
\* and status are not consulted.
BeginSend(r, s, t, ch) ==
  /\ req[r] = Idle
  /\ Found(s, t)
  /\ Route(ch) # None
  /\ Len(sent) + Cardinality({q \in Requests : req[q].pc = "store"}) < MaxSends
  /\ req' = [req EXCEPT ![r] = [Start("store", s, t) EXCEPT !.prov = Route(ch)]]
  /\ UNCHANGED <<now, status, expiresAt, codes, sent, proofs, tokens>>

\* The code kept for every phone.
Bug_StoreCode(r) ==
  /\ req[r].pc = "store"
  /\ \E c \in Codes :
       sent' = Append(sent, [phone |-> PhoneOf[req[r].sess], prov |-> req[r].prov,
                             code |-> c, expiresAt |-> now + CodeTTL])
  /\ codes' = [codes EXCEPT ![req[r].prov] = [ph \in Phones |-> Len(sent) + 1]]
  /\ Finish(r)
  /\ UNCHANGED <<now, status, expiresAt, proofs, tokens>>

\* Send of a provider: a new code replaces the one stored for the phone.  It is
\* stored before it is delivered, and stays stored if the delivery fails.
StoreCode(r) ==
  /\ req[r].pc = "store"
  /\ \E c \in Codes :
       sent' = Append(sent, [phone |-> PhoneOf[req[r].sess], prov |-> req[r].prov,
                             code |-> c, expiresAt |-> now + CodeTTL])
  /\ codes' = [codes EXCEPT ![req[r].prov][PhoneOf[req[r].sess]] = Len(sent) + 1]
  /\ Finish(r)
  /\ UNCHANGED <<now, status, expiresAt, proofs, tokens>>

\* CheckOTP up to the router's first provider; ExpiresAt is not consulted.
BeginCheck(r, s, t, code) ==
  /\ req[r] = Idle
  /\ Found(s, t)
  /\ DOMAIN ProviderOf # {}
  /\ req' = [req EXCEPT ![r] = [Start("read", s, t) EXCEPT
                                  !.code = code, !.todo = DOMAIN ProviderOf]]
  /\ UNCHANGED <<now, status, expiresAt, codes, sent, proofs, tokens>>

\* Verify of the provider of one of the channels left, in no particular order:
\* read the entry under the read lock and decide.
ReadCode(r) ==
  /\ req[r].pc = "read"
  /\ \E ch \in req[r].todo :
       LET p == ProviderOf[ch]
           ph == PhoneOf[req[r].sess]
           rest == req[r].todo \ {ch}
           found == Lookup(p, ph, req[r].code)
           holding(pc) == [req[r] EXCEPT !.pc = pc, !.prov = p, !.todo = rest,
                                         !.gen = codes[p][ph]]
       IN \/ found = "miss" /\ req' = [req EXCEPT ![r] = NextProvider(@, rest)]
          \/ found = "stale" /\ req' = [req EXCEPT ![r] = holding("drop")]
          \/ found = "hit" /\ req' = [req EXCEPT ![r] = holding("consume")]
  /\ UNCHANGED <<now, status, expiresAt, codes, sent, proofs, tokens>>

\* A code accepted without being deleted.
Bug_RemoveCode(r) == UNCHANGED codes

\* Both deletions take the lock anew and remove whatever is stored by then.
RemoveCode(r) == codes' = [codes EXCEPT ![req[r].prov][PhoneOf[req[r].sess]] = 0]

\* Verify found the entry expired: delete, answer no.
DropCode(r) ==
  /\ req[r].pc = "drop"
  /\ RemoveCode(r)
  /\ req' = [req EXCEPT ![r] = NextProvider(@, @.todo)]
  /\ UNCHANGED <<now, status, expiresAt, sent, proofs, tokens>>

\* Verify found a match: delete, answer yes.
ConsumeCode(r) ==
  /\ req[r].pc = "consume"
  /\ RemoveCode(r)
  /\ req' = [req EXCEPT ![r].pc = "mark", ![r].prov = None, ![r].todo = {}, ![r].code = None]
  /\ proofs' = proofs \union {[sess |-> req[r].sess, gen |-> req[r].gen]}
  /\ UNCHANGED <<now, status, expiresAt, sent, tokens>>
-----------------------------------------------------------------------------
(* Environment *)

Tick == now < MaxClock /\ now' = now + 1
        /\ UNCHANGED <<status, expiresAt, codes, sent, req, proofs, tokens>>

\* The process dies and starts again: requests and in-memory codes are gone, and
\* the sessions with them unless they are in PostgreSQL.  Tokens stay with clients.
Restart ==
  /\ Crashes
  /\ req' = [r \in Requests |-> Idle]
  /\ codes' = EmptyCodes
  /\ status' = IF Durable THEN status
               ELSE [s \in SessionIds |-> IF status[s] = "absent" THEN "absent" ELSE "lost"]
  /\ UNCHANGED <<now, expiresAt, sent, proofs, tokens>>

\* What the server does of itself once a request is under way.
Work(r) ==
  \/ ExpireSession(r) \/ TelcoAnswer(r) \/ MarkVerified(r) \/ IssueToken(r)
  \/ StoreCode(r) \/ ReadCode(r) \/ DropCode(r) \/ ConsumeCode(r)

Arrive(r) == \E s \in SessionIds, t \in Tenants :
  \/ BeginSilent(r, s, t)
  \/ \E ch \in Channels : BeginSend(r, s, t, ch)
  \/ \E code \in Presentable : BeginCheck(r, s, t, code)

Next ==
  \/ \E s \in SessionIds : CreateSession(s)
  \/ \E r \in Requests : Arrive(r) \/ Work(r)
  \/ Tick
  \/ Restart

\* The runtime schedules every goroutine, and a carrier call ends in an answer
\* or in the HTTP client's timeout.
Fairness == \A r \in Requests : WF_vars(Work(r))

Spec == Init /\ [][Next]_vars
FairSpec == Spec /\ Fairness
-----------------------------------------------------------------------------
(* Properties *)

Opened(s) == status[s] \in {"pending", "verified", "expired"}

\* Marked verified, and at most overwritten by an expiry that is due.
Confirmed(s) == status[s] \in {"verified", "lost"} \/ (status[s] = "expired" /\ now > expiresAt[s])

\* A proof obtained with a code rests on a code that was sent to the phone of the
\* session it proves, whichever session, tenant or channel asked for it.
ProofsSound ==
  \A p \in proofs : p.gen # Silent =>
    p.gen \in 1 .. Len(sent) /\ sent[p.gen].phone = PhoneOf[p.sess]

\* Every token stands for a proof of possession of its own session, and went to
\* the tenant that owns the session (SilentVerify, CheckOTP, generateToken).
TokensBacked ==
  \A t \in tokens : t.proof \in proofs /\ t.tenant = TenantOf[t.proof.sess]

\* Only a proof makes a session verified.
VerifiedIsProven == \A s \in SessionIds : status[s] = "verified" => \E p \in proofs : p.sess = s

\* A session a token was handed out for never looks unverified again while the
\* store holds it, except once it has outlived ExpiresAt: writes of concurrent
\* requests to the status, in whatever order, lead to no other result.
SettledStatus ==
  \A t \in tokens : Confirmed(t.proof.sess)

\* Once Verify has answered yes for a code, that code is in no store any more:
\* no check that starts afterwards can succeed with it.
SpentCodeNotStored ==
  \A p \in Providers, ph \in Phones :
    codes[p][ph] # 0 => \A q \in proofs : q.gen # codes[p][ph]

\* The test of the WhatsApp provider says of a code that has been verified:
\* "code should be consumed after verification" (adapter_test.go:148).  Two checks
\* that both read the entry before either deletes it are both answered yes.
CodeUsedOnce ==
  \A r \in Requests : req[r].pc = "consume" => \A p \in proofs : p.gen # req[r].gen

\* A stored session moves along the lifecycle only: it never becomes pending again,
\* expires only after ExpiresAt, and is verified only once somebody has proven it.
StatusMoves ==
  [][\A s \in SessionIds : status'[s] # status[s] =>
       CASE status'[s] = "pending"  -> status[s] = "absent"
         [] status'[s] = "expired"  -> Opened(s) /\ now > expiresAt[s]
         [] status'[s] = "verified" -> Opened(s) /\ \E p \in proofs : p.sess = s
         [] OTHER                   -> status'[s] = "lost" /\ ~Durable
    ]_vars

\* As long as the server runs, a stored code disappears only at the hand of a check
\* that read this very entry and found it to match or to be expired, or that read
\* an older entry of the same phone: guessing wrong never costs the user the code.
WrongGuessesKeepCode ==
  [][\A p \in Providers, ph \in Phones :
       LET g == codes[p][ph] IN
       g # 0 /\ codes'[p][ph] = 0 => Restart \/
         \E r \in Requests :
           /\ req[r].prov = p /\ req[r].sess # None /\ PhoneOf[req[r].sess] = ph
           /\ req[r].gen \in 1 .. g
           /\ req[r].gen = g => Stale(p, g) \/ Matches(p, g, req[r].code)
    ]_vars

\* Every request is answered: neither the loop over the providers nor a code that
\* keeps being replaced can hold a request for ever.
EveryRequestAnswered ==
  \A r \in Requests : req[r].pc # "idle" ~> req[r].pc = "idle"

\* As long as the server runs, whoever proved possession gets the token for it,
\* even if the session expires or its status is overwritten meanwhile.
ProofYieldsToken ==
  \A p \in [sess : SessionIds, gen : 0 .. MaxSends] :
    p \in proofs ~> \E t \in tokens : t.proof = p

\* The inductive invariant of the proofs: what a request in flight knows, and
\* where a stored code belongs.
RequestOK(q) ==
  /\ q.pc # "idle" => q.tenant = TenantOf[q.sess] /\ Opened(q.sess)
  /\ q.pc = "store" => q.prov \in Providers
  /\ q.pc \in {"drop", "consume"} =>
       /\ q.gen \in 1 .. Len(sent)
       /\ sent[q.gen].phone = PhoneOf[q.sess] /\ sent[q.gen].prov = q.prov
  /\ q.pc = "telco" => q.gen = Silent
  /\ q.pc \in {"mark", "issue"} => [sess |-> q.sess, gen |-> q.gen] \in proofs
  /\ q.pc = "expire" => now > expiresAt[q.sess]
  /\ q.pc = "issue" /\ ~StoreMayFail => Confirmed(q.sess)

CodesPlaced ==
  \A p \in Providers, ph \in Phones :
    codes[p][ph] # 0 => sent[codes[p][ph]].phone = ph /\ sent[codes[p][ph]].prov = p

RequestsOK == \A r \in Requests : RequestOK(req[r])

IInv ==
  /\ TypeOK /\ CodesPlaced /\ RequestsOK
  /\ ProofsSound /\ TokensBacked /\ VerifiedIsProven /\ SpentCodeNotStored
  /\ ~StoreMayFail => SettledStatus

\* The service keeps the promise of VerificationPromise.
Promise == INSTANCE VerificationPromise WITH
  proven  <- {p.sess : p \in proofs},
  granted <- {t.proof.sess : t \in tokens},
  Reliable <- ~StoreMayFail

KeepsPromise == Promise!Spec
=============================================================================
