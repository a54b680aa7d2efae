-------------------------- MODULE Verification_proofs --------------------------
(***************************************************************************)
(* Proofs about Verification, for every number of sessions, tenants,       *)
(* phones, requests, providers and channels and for every length of run.   *)
(***************************************************************************)
EXTENDS Verification, TLAPS

\* What a goroutine's record may become: every step of a request stays in the type.
LEMMA RequestTypes ==
  ASSUME NEW r \in Requests, req \in [Requests -> {Idle} \union Active],
         NEW q \in {Idle} \union Active, req' = [req EXCEPT ![r] = q]
  PROVE  /\ req' \in [Requests -> {Idle} \union Active]
         /\ req'[r] = q
         /\ \A o \in Requests \ {r} : req'[o] = req[o]
  OBVIOUS

\* A working goroutine is not idle, so its record is an Active one.
LEMMA Working ==
  ASSUME NEW r \in Requests, req \in [Requests -> {Idle} \union Active], req[r].pc # "idle"
  PROVE  req[r] \in Active
  BY DEF Idle

\* A goroutine about to remove a code holds the number of one that was sent to its
\* phone by its provider.
LEMMA Holding ==
  ASSUME NEW r \in Requests, TypeOK, RequestsOK, req[r].pc \in {"drop", "consume"}
  PROVE  /\ req[r].gen \in 1 .. Len(sent)
         /\ sent[req[r].gen] \in SentCode
         /\ sent[req[r].gen].phone = PhoneOf[req[r].sess]
         /\ sent[req[r].gen].prov = req[r].prov
         /\ req[r].prov \in Providers
<1>1. RequestOK(req[r])
  BY DEF RequestsOK
<1>2. req[r].gen \in 1 .. Len(sent) /\ sent[req[r].gen].prov = req[r].prov
      /\ sent[req[r].gen].phone = PhoneOf[req[r].sess]
  BY <1>1 DEF RequestOK
<1>3. sent[req[r].gen] \in SentCode
  BY <1>2 DEF TypeOK
<1> QED BY <1>2, <1>3 DEF SentCode

\* Removing a code keeps the type of the code stores.
LEMMA RemoveTypes ==
  ASSUME NEW r \in Requests, TypeOK, req[r].prov \in Providers,
         PhoneOf[req[r].sess] \in Phones, RemoveCode(r)
  PROVE  codes' \in [Providers -> [Phones -> 0 .. Len(sent)]]
<1>1. Len(sent) \in Nat /\ codes \in [Providers -> [Phones -> 0 .. Len(sent)]]
  BY DEF TypeOK
<1> QED BY <1>1 DEF RemoveCode

\* Type correctness is preserved by every step.
LEMMA TypeStep == IInv /\ [Next]_vars => TypeOK'
<1> SUFFICES ASSUME IInv, [Next]_vars PROVE TypeOK'
  OBVIOUS
<1> USE VerificationAssumption
<1>t. TypeOK /\ RequestsOK BY DEF IInv
<1>1. ASSUME NEW s \in SessionIds, CreateSession(s) PROVE TypeOK'
  BY <1>t, <1>1 DEF CreateSession, TypeOK, Status
<1>2. ASSUME NEW r \in Requests, NEW s \in SessionIds, NEW t \in Tenants, BeginSilent(r, s, t)
      PROVE  TypeOK'
  <2>1. Start("expire", s, t) \in Active /\ Start("telco", s, t) \in Active
    BY DEF Start, Idle, Active, Presentable
  <2>2. req' \in [Requests -> {Idle} \union Active]
    BY <1>t, <1>2, <2>1 DEF BeginSilent, TypeOK
  <2> QED BY <1>t, <1>2, <2>2 DEF BeginSilent, TypeOK
<1>3. ASSUME NEW r \in Requests, NEW s \in SessionIds, NEW t \in Tenants,
             NEW ch \in Channels, BeginSend(r, s, t, ch)
      PROVE  TypeOK'
  <2>1. [Start("store", s, t) EXCEPT !.prov = Route(ch)] \in Active
    BY DEF Start, Idle, Active, Presentable, Route
  <2>2. req' \in [Requests -> {Idle} \union Active]
    BY <1>t, <1>3, <2>1 DEF BeginSend, TypeOK
  <2> QED BY <1>t, <1>3, <2>2 DEF BeginSend, TypeOK
<1>4. ASSUME NEW r \in Requests, NEW s \in SessionIds, NEW t \in Tenants,
             NEW code \in Presentable, BeginCheck(r, s, t, code)
      PROVE  TypeOK'
  <2>1. [Start("read", s, t) EXCEPT !.code = code, !.todo = DOMAIN ProviderOf] \in Active
    BY DEF Start, Idle, Active, Presentable
  <2>2. req' \in [Requests -> {Idle} \union Active]
    BY <1>t, <1>4, <2>1 DEF BeginCheck, TypeOK
  <2> QED BY <1>t, <1>4, <2>2 DEF BeginCheck, TypeOK
<1>5. ASSUME NEW r \in Requests, Work(r) PROVE TypeOK'
  <2>a. req[r].pc # "idle" /\ req[r] \in Active
    BY <1>t, <1>5, Working DEF Work, ExpireSession, TelcoAnswer, MarkVerified, IssueToken,
       StoreCode, ReadCode, DropCode, ConsumeCode, TypeOK
  <2>b. req[r].sess \in SessionIds /\ req[r].tenant \in Tenants /\ PhoneOf[req[r].sess] \in Phones
    BY <2>a DEF Active
  <2>1. CASE ExpireSession(r)
    BY <1>t, <2>1, <2>b DEF ExpireSession, SetStatus, Finish, TypeOK, Status
  <2>2. CASE TelcoAnswer(r)
    <3>1. [req[r] EXCEPT !.pc = "mark"] \in Active
      BY <2>a DEF Active
    <3>2. req' \in [Requests -> {Idle} \union Active]
      BY <1>t, <2>2, <3>1 DEF TelcoAnswer, Goto, Finish, TypeOK
    <3>3. proofs' \subseteq Proof
      BY <1>t, <2>2, <2>b DEF TelcoAnswer, Proof, Silent, TypeOK
    <3> QED BY <1>t, <2>2, <3>2, <3>3 DEF TelcoAnswer, TypeOK
  <2>3. CASE MarkVerified(r)
    <3>1. [req[r] EXCEPT !.pc = "issue"] \in Active
      BY <2>a DEF Active
    <3>2. req' \in [Requests -> {Idle} \union Active]
      BY <1>t, <2>3, <3>1 DEF MarkVerified, Goto, TypeOK
    <3>3. status' \in [SessionIds -> Status]
      BY <1>t, <2>3, <2>b DEF MarkVerified, SetStatus, TypeOK, Status
    <3> QED BY <1>t, <2>3, <3>2, <3>3 DEF MarkVerified, TypeOK
  <2>4. CASE IssueToken(r)
    <3>1. req[r].gen \in Nat
      BY <2>a DEF Active
    <3>2. tokens' \subseteq Token
      BY <1>t, <2>4, <2>b, <3>1 DEF IssueToken, TypeOK, Token, Proof
    <3> QED BY <1>t, <2>4, <3>2 DEF IssueToken, Finish, TypeOK
  <2>5. CASE StoreCode(r)
    <3>1. req[r].prov \in Providers
      BY <1>t, <2>5 DEF StoreCode, RequestsOK, RequestOK
    <3>2. /\ sent' \in Seq(SentCode) /\ Len(sent') = Len(sent) + 1
      BY <1>t, <2>5, <2>b, <3>1 DEF StoreCode, TypeOK, SentCode
    <3>3. codes' \in [Providers -> [Phones -> 0 .. Len(sent')]]
      BY <1>t, <2>5, <2>b, <3>1, <3>2 DEF StoreCode, TypeOK
    <3> QED BY <1>t, <2>5, <3>2, <3>3 DEF StoreCode, Finish, TypeOK
  <2>6. CASE ReadCode(r)
    <3>1. PICK ch \in req[r].todo :
            LET p == ProviderOf[ch]
                rest == req[r].todo \ {ch}
                holding(pc) == [req[r] EXCEPT !.pc = pc, !.prov = p, !.todo = rest,
                                              !.gen = codes[p][PhoneOf[req[r].sess]]]
            IN \/ req' = [req EXCEPT ![r] = NextProvider(@, rest)]
               \/ req' = [req EXCEPT ![r] = holding("drop")]
               \/ req' = [req EXCEPT ![r] = holding("consume")]
      BY <2>6 DEF ReadCode
    <3> DEFINE p == ProviderOf[ch]
               rest == req[r].todo \ {ch}
               holding(pc) == [req[r] EXCEPT !.pc = pc, !.prov = p, !.todo = rest,
                                             !.gen = codes[p][PhoneOf[req[r].sess]]]
    <3>2. ch \in DOMAIN ProviderOf /\ p \in Providers /\ rest \in SUBSET DOMAIN ProviderOf
      BY <2>a DEF Active
    <3>3. codes[p][PhoneOf[req[r].sess]] \in Nat
      BY <1>t, <2>b, <3>2 DEF TypeOK
    <3>4. holding("drop") \in Active /\ holding("consume") \in Active
      BY <2>a, <3>2, <3>3 DEF Active
    <3>5. NextProvider(req[r], rest) \in {Idle} \union Active
      BY <2>a, <3>2 DEF Active, NextProvider
    <3>6. req' \in [Requests -> {Idle} \union Active]
      BY <1>t, <3>1, <3>4, <3>5 DEF TypeOK
    <3> QED BY <1>t, <2>6, <3>6 DEF ReadCode, TypeOK
  <2>7. CASE DropCode(r)
    <3>1. NextProvider(req[r], req[r].todo) \in {Idle} \union Active
      BY <2>a DEF Active, NextProvider
    <3>2. req' \in [Requests -> {Idle} \union Active]
      BY <1>t, <2>7, <3>1 DEF DropCode, TypeOK
    <3>3. codes' \in [Providers -> [Phones -> 0 .. Len(sent)]]
      BY <1>t, <2>7, <2>b, Holding, RemoveTypes DEF DropCode
    <3> QED BY <1>t, <2>7, <3>2, <3>3 DEF DropCode, TypeOK
  <2>8. CASE ConsumeCode(r)
    <3>1. [req[r] EXCEPT !.pc = "mark", !.prov = None, !.todo = {}, !.code = None] \in Active
      BY <2>a DEF Active
    <3>2. req' \in [Requests -> {Idle} \union Active]
      BY <1>t, <2>8, <3>1 DEF ConsumeCode, TypeOK
    <3>3. codes' \in [Providers -> [Phones -> 0 .. Len(sent)]]
      BY <1>t, <2>8, <2>b, Holding, RemoveTypes DEF ConsumeCode
    <3>4. proofs' \subseteq Proof
      BY <1>t, <2>8, <2>a DEF ConsumeCode, Proof, Active, TypeOK
    <3> QED BY <1>t, <2>8, <3>2, <3>3, <3>4 DEF ConsumeCode, TypeOK
  <2> QED BY <1>5, <2>1, <2>2, <2>3, <2>4, <2>5, <2>6, <2>7, <2>8 DEF Work
<1>6. CASE Tick
  BY <1>t, <1>6 DEF Tick, TypeOK
<1>7. CASE Restart
  BY <1>t, <1>7 DEF Restart, TypeOK, EmptyCodes, Status
<1>8. CASE UNCHANGED vars
  BY <1>t, <1>8 DEF vars, TypeOK
<1> QED
  BY <1>1, <1>2, <1>3, <1>4, <1>5, <1>6, <1>7, <1>8 DEF Next, Arrive
-----------------------------------------------------------------------------
\* The history only grows: codes once sent keep their number, proofs are kept.
HistoryGrows ==
  /\ Len(sent) <= Len(sent') /\ \A i \in 1 .. Len(sent) : sent'[i] = sent[i]
  /\ proofs \subseteq proofs'

LEMMA HistoryStep == TypeOK /\ [Next]_vars => HistoryGrows
<1> SUFFICES ASSUME TypeOK, [Next]_vars PROVE HistoryGrows
  OBVIOUS
<1>1. Len(sent) \in Nat
  BY DEF TypeOK
<1>2. ASSUME UNCHANGED sent, proofs \subseteq proofs' PROVE HistoryGrows
  BY <1>1, <1>2 DEF HistoryGrows
<1>3. ASSUME NEW r \in Requests, StoreCode(r) PROVE HistoryGrows
  <2>1. PICK e : sent' = Append(sent, e)
    BY <1>3 DEF StoreCode
  <2>2. Len(sent') = Len(sent) + 1 /\ \A i \in 1 .. Len(sent) : sent'[i] = sent[i]
    BY <2>1 DEF TypeOK
  <2> QED BY <1>1, <1>3, <2>2 DEF StoreCode, HistoryGrows
<1>4. CASE UNCHANGED vars
  BY <1>2, <1>4 DEF vars
<1>5. CASE Tick \/ Restart \/ \E s \in SessionIds : CreateSession(s)
  BY <1>2, <1>5 DEF Tick, Restart, CreateSession
<1>6. ASSUME NEW r \in Requests, Arrive(r) PROVE HistoryGrows
  BY <1>2, <1>6 DEF Arrive, BeginSilent, BeginSend, BeginCheck
<1>7. ASSUME NEW r \in Requests, Work(r) PROVE HistoryGrows
  BY <1>2, <1>3, <1>7 DEF Work, ExpireSession, TelcoAnswer, MarkVerified, IssueToken,
     ReadCode, DropCode, ConsumeCode
<1> QED BY <1>4, <1>5, <1>6, <1>7 DEF Next

\* While the server runs, an open session stays open with its ExpiresAt, and what
\* has been confirmed stays confirmed.
SessionsKept ==
  /\ now' \in Nat /\ now' >= now
  /\ \A s \in SessionIds : Opened(s) =>
       Opened(s)' /\ expiresAt'[s] = expiresAt[s]
  /\ \A s \in SessionIds : Confirmed(s) => Confirmed(s)'

LEMMA SessionsStep == IInv /\ [Next]_vars /\ ~Restart => SessionsKept
<1> SUFFICES ASSUME IInv, [Next]_vars, ~Restart PROVE SessionsKept
  OBVIOUS
<1>t. TypeOK /\ RequestsOK
  BY DEF IInv
<1>n. now \in Nat /\ expiresAt \in [SessionIds -> Nat] /\ status \in [SessionIds -> Status]
  BY <1>t DEF TypeOK
<1>1. ASSUME UNCHANGED <<now, status, expiresAt>> PROVE SessionsKept
  BY <1>1, <1>n DEF SessionsKept, Opened, Confirmed
<1>2. ASSUME NEW s \in SessionIds, CreateSession(s) PROVE SessionsKept
  BY <1>2, <1>n DEF CreateSession, SessionsKept, Opened, Confirmed
<1>3. CASE Tick
  BY <1>3, <1>n DEF Tick, SessionsKept, Opened, Confirmed
<1>4. ASSUME NEW r \in Requests, Work(r) PROVE SessionsKept
  <2>1. CASE ExpireSession(r)
    <3>1. now > expiresAt[req[r].sess] /\ Opened(req[r].sess)
      BY <1>t, <2>1 DEF ExpireSession, RequestsOK, RequestOK
    <3> QED BY <1>n, <2>1, <3>1 DEF ExpireSession, SetStatus, SessionsKept, Opened, Confirmed, Status
  <2>2. CASE MarkVerified(r)
    BY <1>n, <2>2 DEF MarkVerified, SetStatus, SessionsKept, Opened, Confirmed, Status
  <2>3. CASE UNCHANGED <<now, status, expiresAt>>
    BY <1>1, <2>3
  <2> QED BY <1>4, <2>1, <2>2, <2>3 DEF Work, TelcoAnswer, IssueToken, StoreCode, ReadCode,
     DropCode, ConsumeCode
<1>5. ASSUME NEW r \in Requests, Arrive(r) PROVE SessionsKept
  BY <1>1, <1>5 DEF Arrive, BeginSilent, BeginSend, BeginCheck
<1>6. CASE UNCHANGED vars
  BY <1>1, <1>6 DEF vars
<1> QED BY <1>2, <1>3, <1>4, <1>5, <1>6 DEF Next

\* A request the step does not touch still knows what it knew.
LEMMA OthersOK ==
  ASSUME TypeOK, RequestsOK, HistoryGrows, SessionsKept,
         NEW o \in Requests, req'[o] = req[o]
  PROVE  RequestOK(req[o])'
<1>1. RequestOK(req[o])
  BY DEF RequestsOK
<1>2. req[o].pc # "idle" => req[o].sess \in SessionIds
  BY Working DEF TypeOK, Active
<1>3. now \in Nat /\ now' \in Nat /\ now' >= now /\ expiresAt \in [SessionIds -> Nat] /\ Len(sent) \in Nat
  BY DEF TypeOK, SessionsKept
<1>4. req[o].pc # "idle" =>
        /\ Opened(req[o].sess)' /\ expiresAt'[req[o].sess] = expiresAt[req[o].sess]
        /\ Confirmed(req[o].sess) => Confirmed(req[o].sess)'
  BY <1>1, <1>2 DEF RequestOK, SessionsKept, Opened, Confirmed
<1>5. (req[o].pc \in {"drop", "consume"} =>
        /\ req[o].gen \in 1 .. Len(sent)
        /\ sent[req[o].gen].phone = PhoneOf[req[o].sess] /\ sent[req[o].gen].prov = req[o].prov)'
  BY <1>1, <1>3 DEF RequestOK, HistoryGrows
<1>6. (req[o].pc \in {"mark", "issue"} => [sess |-> req[o].sess, gen |-> req[o].gen] \in proofs)'
  BY <1>1 DEF RequestOK, HistoryGrows
<1>7. (req[o].pc = "expire" => now > expiresAt[req[o].sess])'
  BY <1>1, <1>2, <1>3, <1>4 DEF RequestOK
<1>8. (req[o].pc = "issue" /\ ~StoreMayFail => Confirmed(req[o].sess))'
  BY <1>1, <1>4 DEF RequestOK, Confirmed
<1>9. (req[o].pc # "idle" => req[o].tenant = TenantOf[req[o].sess] /\ Opened(req[o].sess))'
  BY <1>1, <1>4 DEF RequestOK, Opened
<1>10. (/\ req[o].pc = "store" => req[o].prov \in Providers
        /\ req[o].pc = "telco" => req[o].gen = Silent)'
  BY <1>1 DEF RequestOK
<1> QED BY <1>5, <1>6, <1>7, <1>8, <1>9, <1>10 DEF RequestOK

\* An idle goroutine knows nothing that could be wrong.
LEMMA IdleOK == ASSUME NEW r \in Requests, req'[r] = Idle PROVE RequestOK(req[r])'
  BY DEF RequestOK, Idle

\* A request that has just passed the session lookup knows what it should.
LEMMA StartedOK ==
  ASSUME TypeOK, NEW r \in Requests, NEW s \in SessionIds, NEW t \in Tenants, Found(s, t),
         UNCHANGED <<now, status, expiresAt>>,
         req'[r].sess = s, req'[r].tenant = t, req'[r].gen = 0,
         req'[r].pc \in {"expire", "telco", "store", "read"},
         req'[r].pc = "expire" => now > expiresAt[s],
         req'[r].pc = "store" => req'[r].prov \in Providers
  PROVE  RequestOK(req[r])'
<1>1. Opened(s)'
  BY DEF TypeOK, Found, Status, Opened
<1> QED BY <1>1 DEF RequestOK, Found, Silent, Opened

\* What the requests in flight know stays true.
LEMMA RequestsStep == IInv /\ [Next]_vars => RequestsOK'
<1> SUFFICES ASSUME IInv, [Next]_vars PROVE RequestsOK'
  OBVIOUS
<1>t. TypeOK /\ RequestsOK
  BY DEF IInv
<1>h. HistoryGrows
  BY <1>t, HistoryStep
<1>1. CASE Restart
  BY <1>1, IdleOK DEF Restart, RequestsOK
<1>2. ASSUME SessionsKept, UNCHANGED req PROVE RequestsOK'
  BY <1>t, <1>h, <1>2, OthersOK DEF RequestsOK
<1>3. ASSUME ~Restart, NEW r \in Requests, NEW q, req' = [req EXCEPT ![r] = q],
             RequestOK(req[r])'
      PROVE  RequestsOK'
  <2>1. SessionsKept
    BY <1>3, SessionsStep
  <2>2. \A o \in Requests \ {r} : req'[o] = req[o]
    BY <1>t, <1>3 DEF TypeOK
  <2> QED BY <1>t, <1>h, <1>3, <2>1, <2>2, OthersOK DEF RequestsOK
<1>4. ASSUME ~Restart, NEW r \in Requests, Arrive(r) PROVE RequestsOK'
  <2>1. PICK s \in SessionIds, t \in Tenants :
          \/ BeginSilent(r, s, t)
          \/ \E ch \in Channels : BeginSend(r, s, t, ch)
          \/ \E code \in Presentable : BeginCheck(r, s, t, code)
    BY <1>4 DEF Arrive
  <2>2. ASSUME BeginSilent(r, s, t) PROVE RequestsOK'
    <3>1. PICK pc \in {"expire", "telco"} : /\ req' = [req EXCEPT ![r] = Start(pc, s, t)]
                                            /\ pc = "expire" => now > expiresAt[s]
      BY <2>2 DEF BeginSilent
    <3>2. req'[r].pc = pc /\ req'[r].sess = s /\ req'[r].tenant = t /\ req'[r].gen = 0
      BY <1>t, <3>1 DEF TypeOK, Start, Idle
    <3>3. RequestOK(req[r])'
      BY <1>t, <2>2, <3>1, <3>2, StartedOK DEF BeginSilent
    <3> QED BY <1>3, <1>4, <3>1, <3>3
  <2>3. ASSUME NEW ch \in Channels, BeginSend(r, s, t, ch) PROVE RequestsOK'
    <3>1. /\ req'[r].pc = "store" /\ req'[r].sess = s /\ req'[r].tenant = t /\ req'[r].gen = 0
          /\ req'[r].prov = Route(ch)
      BY <1>t, <2>3 DEF BeginSend, TypeOK, Start, Idle
    <3>2. Route(ch) \in Providers
      BY <2>3, VerificationAssumption DEF BeginSend, Route
    <3>3. RequestOK(req[r])'
      BY <1>t, <2>3, <3>1, <3>2, StartedOK DEF BeginSend
    <3> QED BY <1>3, <1>4, <2>3, <3>3 DEF BeginSend
  <2>4. ASSUME NEW code \in Presentable, BeginCheck(r, s, t, code) PROVE RequestsOK'
    <3>1. req'[r].pc = "read" /\ req'[r].sess = s /\ req'[r].tenant = t /\ req'[r].gen = 0
      BY <1>t, <2>4 DEF BeginCheck, TypeOK, Start, Idle
    <3>2. RequestOK(req[r])'
      BY <1>t, <2>4, <3>1, StartedOK DEF BeginCheck
    <3> QED BY <1>3, <1>4, <2>4, <3>2 DEF BeginCheck
  <2> QED BY <2>1, <2>2, <2>3, <2>4
<1>5. ASSUME ~Restart, NEW r \in Requests, Work(r) PROVE RequestsOK'
  <2>q. RequestOK(req[r]) /\ SessionsKept
    BY <1>t, <1>5, SessionsStep DEF RequestsOK
  <2>a. req[r] \in Active
    BY <1>t, <1>5, Working DEF Work, ExpireSession, TelcoAnswer, MarkVerified, IssueToken,
       StoreCode, ReadCode, DropCode, ConsumeCode, TypeOK
  <2>b. /\ req[r].sess \in SessionIds /\ req[r].tenant = TenantOf[req[r].sess]
        /\ Opened(req[r].sess)
        /\ status'[req[r].sess] \in {"pending", "verified", "expired"}
    <3>1. req[r].pc # "idle" /\ req[r].sess \in SessionIds
      BY <2>a DEF Active
    <3>2. Opened(req[r].sess) /\ req[r].tenant = TenantOf[req[r].sess]
      BY <2>q, <3>1 DEF RequestOK
    <3> QED BY <2>q, <3>1, <3>2 DEF SessionsKept, Opened
  <2>f. ASSUME Finish(r) PROVE RequestsOK'
    <3>1. req'[r] = Idle
      BY <1>t, <2>f DEF Finish, TypeOK
    <3> QED BY <1>3, <1>5, <2>f, <3>1, IdleOK DEF Finish
  <2>1. CASE ExpireSession(r) \/ IssueToken(r) \/ StoreCode(r)
    BY <2>1, <2>f DEF ExpireSession, IssueToken, StoreCode
  <2>2. CASE TelcoAnswer(r)
    <3>1. CASE Finish(r)
      BY <3>1, <2>f
    <3>2. CASE Goto(r, "mark") /\ proofs' = proofs \union {[sess |-> req[r].sess, gen |-> Silent]}
      <4>1. req'[r] = [req[r] EXCEPT !.pc = "mark"] /\ req' = [req EXCEPT ![r] = req'[r]]
        BY <1>t, <3>2 DEF Goto, TypeOK
      <4>2. /\ req'[r].pc = "mark" /\ req'[r].sess = req[r].sess
            /\ req'[r].tenant = req[r].tenant /\ req'[r].gen = Silent
        BY <2>2, <2>a, <2>q, <4>1 DEF TelcoAnswer, RequestOK, Active
      <4>3. RequestOK(req[r])'
        BY <2>b, <3>2, <4>2 DEF RequestOK, Opened
      <4> QED BY <1>3, <1>5, <4>1, <4>3
    <3> QED BY <2>2, <3>1, <3>2 DEF TelcoAnswer
  <2>3. CASE MarkVerified(r)
    <3>1. req'[r] = [req[r] EXCEPT !.pc = "issue"] /\ req' = [req EXCEPT ![r] = req'[r]]
      BY <1>t, <2>3 DEF MarkVerified, Goto, TypeOK
    <3>2. /\ req'[r].pc = "issue" /\ req'[r].sess = req[r].sess
          /\ req'[r].tenant = req[r].tenant /\ req'[r].gen = req[r].gen
      BY <2>a, <3>1 DEF Active
    <3>3. ~StoreMayFail => status'[req[r].sess] = "verified"
      BY <1>t, <2>3, <2>b DEF MarkVerified, SetStatus, TypeOK
    <3>4. [sess |-> req[r].sess, gen |-> req[r].gen] \in proofs'
      BY <2>3, <2>q DEF MarkVerified, RequestOK
    <3>5. RequestOK(req[r])'
      BY <2>b, <3>2, <3>3, <3>4 DEF RequestOK, Opened, Confirmed
    <3> QED BY <1>3, <1>5, <3>1, <3>5
  <2>n. ASSUME NEW rest, req' = [req EXCEPT ![r] = NextProvider(req[r], rest)] PROVE RequestsOK'
    <3>1. req'[r] = NextProvider(req[r], rest) /\ req' = [req EXCEPT ![r] = req'[r]]
      BY <1>t, <2>n DEF TypeOK
    <3>2. CASE rest = {}
      BY <1>3, <1>5, <3>1, <3>2, IdleOK DEF NextProvider
    <3>3. CASE rest # {}
      <4>1. req'[r].pc = "read" /\ req'[r].sess = req[r].sess /\ req'[r].tenant = req[r].tenant
        BY <2>a, <3>1, <3>3 DEF NextProvider, Active
      <4>2. RequestOK(req[r])'
        BY <2>b, <4>1 DEF RequestOK, Opened
      <4> QED BY <1>3, <1>5, <3>1, <4>2
    <3> QED BY <3>2, <3>3
  <2>4. CASE ReadCode(r)
    <3>1. PICK ch \in req[r].todo :
            LET p == ProviderOf[ch]
                ph == PhoneOf[req[r].sess]
                rest == req[r].todo \ {ch}
                holding(pc) == [req[r] EXCEPT !.pc = pc, !.prov = p, !.todo = rest,
                                              !.gen = codes[p][ph]]
            IN \/ req' = [req EXCEPT ![r] = NextProvider(@, rest)]
               \/ codes[p][ph] # 0 /\ req' = [req EXCEPT ![r] = holding("drop")]
               \/ codes[p][ph] # 0 /\ req' = [req EXCEPT ![r] = holding("consume")]
      BY <2>4 DEF ReadCode, Lookup
    <3> DEFINE p == ProviderOf[ch]
               ph == PhoneOf[req[r].sess]
               rest == req[r].todo \ {ch}
               holding(pc) == [req[r] EXCEPT !.pc = pc, !.prov = p, !.todo = rest,
                                             !.gen = codes[p][ph]]
    <3>2. p \in Providers /\ ph \in Phones
      BY <2>a, <2>b, VerificationAssumption DEF Active
    <3>3. CASE req' = [req EXCEPT ![r] = NextProvider(@, rest)]
      BY <3>3, <2>n
    <3>4. ASSUME NEW pc \in {"drop", "consume"}, codes[p][ph] # 0,
                 req' = [req EXCEPT ![r] = holding(pc)]
          PROVE  RequestsOK'
      <4>1. codes[p][ph] \in 1 .. Len(sent) /\ sent[codes[p][ph]].phone = ph
            /\ sent[codes[p][ph]].prov = p
        BY <3>2, <3>4 DEF IInv, CodesPlaced, TypeOK
      <4>2. req'[r] = holding(pc) /\ req' = [req EXCEPT ![r] = req'[r]]
        BY <1>t, <3>4 DEF TypeOK
      <4>3. /\ req'[r].pc = pc /\ req'[r].sess = req[r].sess /\ req'[r].tenant = req[r].tenant
            /\ req'[r].prov = p /\ req'[r].gen = codes[p][ph]
        BY <2>a, <4>2 DEF Active
      <4>4. UNCHANGED sent
        BY <2>4 DEF ReadCode
      <4>5. RequestOK(req[r])'
        BY <2>b, <3>4, <4>1, <4>3, <4>4 DEF RequestOK, Opened
      <4> QED BY <1>3, <1>5, <4>2, <4>5
    <3> QED BY <3>1, <3>3, <3>4
  <2>5. CASE DropCode(r)
    BY <2>5, <2>n DEF DropCode
  <2>6. CASE ConsumeCode(r)
    <3>1. /\ req'[r] = [req[r] EXCEPT !.pc = "mark", !.prov = None, !.todo = {}, !.code = None]
          /\ req' = [req EXCEPT ![r] = req'[r]]
      BY <1>t, <2>6 DEF ConsumeCode, TypeOK
    <3>2. /\ req'[r].pc = "mark" /\ req'[r].sess = req[r].sess
          /\ req'[r].tenant = req[r].tenant /\ req'[r].gen = req[r].gen
      BY <2>a, <3>1 DEF Active
    <3>3. [sess |-> req[r].sess, gen |-> req[r].gen] \in proofs'
      BY <2>6 DEF ConsumeCode
    <3>4. RequestOK(req[r])'
      BY <2>b, <3>2, <3>3 DEF RequestOK, Opened
    <3> QED BY <1>3, <1>5, <3>1, <3>4
  <2> QED BY <1>5, <2>1, <2>2, <2>3, <2>4, <2>5, <2>6 DEF Work
<1>6. CASE ~Restart /\ (Tick \/ UNCHANGED vars \/ \E s \in SessionIds : CreateSession(s))
  <2>1. SessionsKept
    BY <1>6, SessionsStep
  <2> QED BY <1>2, <1>6, <2>1 DEF Tick, vars, CreateSession
<1> QED BY <1>1, <1>4, <1>5, <1>6 DEF Next
-----------------------------------------------------------------------------
\* Which variables a step can touch, and through which action.
LEMMA Touched ==
  ASSUME [Next]_vars
  PROVE  /\ UNCHANGED <<codes, sent>> \/ Restart
            \/ \E r \in Requests : StoreCode(r) \/ DropCode(r) \/ ConsumeCode(r)
         /\ UNCHANGED proofs \/ \E r \in Requests : TelcoAnswer(r) \/ ConsumeCode(r)
         /\ UNCHANGED tokens \/ \E r \in Requests : IssueToken(r)
         /\ UNCHANGED status \/ Restart \/ (\E s \in SessionIds : CreateSession(s))
            \/ \E r \in Requests : ExpireSession(r) \/ MarkVerified(r)
<1>1. ASSUME NEW r \in Requests, Work(r)
      PROVE  /\ UNCHANGED <<codes, sent>> \/ StoreCode(r) \/ DropCode(r) \/ ConsumeCode(r)
             /\ UNCHANGED proofs \/ TelcoAnswer(r) \/ ConsumeCode(r)
             /\ UNCHANGED tokens \/ IssueToken(r)
             /\ UNCHANGED status \/ ExpireSession(r) \/ MarkVerified(r)
  BY <1>1 DEF Work, ExpireSession, TelcoAnswer, MarkVerified, IssueToken, StoreCode, ReadCode,
     DropCode, ConsumeCode
<1>2. ASSUME NEW r \in Requests, Arrive(r) PROVE UNCHANGED <<codes, sent, proofs, tokens, status>>
  BY <1>2 DEF Arrive, BeginSilent, BeginSend, BeginCheck
<1>3. CASE UNCHANGED vars
  BY <1>3 DEF vars
<1>4. CASE Tick
  BY <1>4 DEF Tick
<1>5. CASE Restart
  BY <1>5 DEF Restart
<1>6. ASSUME NEW s \in SessionIds, CreateSession(s)
      PROVE UNCHANGED <<codes, sent, proofs, tokens>>
  BY <1>6 DEF CreateSession
<1> QED BY <1>1, <1>2, <1>3, <1>4, <1>5, <1>6 DEF Next

\* A stored code is the one of its provider and phone, and none that has been used.
LEMMA CodesStep == IInv /\ [Next]_vars => CodesPlaced' /\ SpentCodeNotStored'
<1> SUFFICES ASSUME IInv, [Next]_vars PROVE CodesPlaced' /\ SpentCodeNotStored'
  OBVIOUS
<1>t. /\ TypeOK /\ TypeOK' /\ RequestsOK /\ CodesPlaced /\ SpentCodeNotStored /\ ProofsSound
      /\ Len(sent) \in Nat /\ codes \in [Providers -> [Phones -> 0 .. Len(sent)]]
  BY TypeStep DEF IInv, TypeOK
<1>1. ASSUME UNCHANGED <<codes, sent>>, \A q \in proofs' : q \in proofs \/ q.gen = Silent
      PROVE  CodesPlaced' /\ SpentCodeNotStored'
  BY <1>1, <1>t DEF CodesPlaced, SpentCodeNotStored, Silent
<1>2. CASE Restart
  BY <1>2 DEF Restart, EmptyCodes, CodesPlaced, SpentCodeNotStored
<1>3. ASSUME NEW r \in Requests, StoreCode(r) PROVE CodesPlaced' /\ SpentCodeNotStored'
  <2> DEFINE prov == req[r].prov
             phone == PhoneOf[req[r].sess]
  <2>1. req[r] \in Active /\ prov \in Providers
    BY <1>t, <1>3, Working DEF StoreCode, TypeOK, RequestsOK, RequestOK
  <2>2. phone \in Phones
    BY <2>1, VerificationAssumption DEF Active
  <2>3. PICK c \in Codes :
          sent' = Append(sent, [phone |-> phone, prov |-> prov,
                                code |-> c, expiresAt |-> now + CodeTTL])
    BY <1>3 DEF StoreCode
  <2>4. /\ sent'[Len(sent) + 1].phone = phone /\ sent'[Len(sent) + 1].prov = prov
        /\ \A i \in 1 .. Len(sent) : sent'[i] = sent[i]
    BY <1>t, <2>3 DEF TypeOK
  <2>5. codes' = [codes EXCEPT ![prov][phone] = Len(sent) + 1] /\ UNCHANGED proofs
    BY <1>3 DEF StoreCode
  <2>6. CodesPlaced'
    <3>1. ASSUME NEW p \in Providers, NEW ph \in Phones, codes'[p][ph] # 0
          PROVE  sent'[codes'[p][ph]].phone = ph /\ sent'[codes'[p][ph]].prov = p
      <4>1. CASE p = prov /\ ph = phone
        <5>1. codes'[p][ph] = Len(sent) + 1
          BY <1>t, <2>1, <2>2, <2>5, <4>1
        <5> QED BY <2>4, <4>1, <5>1
      <4>2. CASE ~(p = prov /\ ph = phone)
        <5>1. codes'[p][ph] = codes[p][ph] /\ codes[p][ph] \in 1 .. Len(sent)
          BY <1>t, <2>1, <2>2, <2>5, <3>1, <4>2
        <5>2. sent[codes[p][ph]].phone = ph /\ sent[codes[p][ph]].prov = p
          BY <1>t, <5>1 DEF CodesPlaced
        <5> QED BY <2>4, <5>1, <5>2
      <4> QED BY <4>1, <4>2
    <3> QED BY <3>1 DEF CodesPlaced
  <2>7. \A q \in proofs : q.gen # Len(sent) + 1
    BY <1>t DEF ProofsSound, Silent
  <2> QED BY <1>t, <2>1, <2>2, <2>5, <2>6, <2>7 DEF SpentCodeNotStored
<1>4. ASSUME NEW r \in Requests, DropCode(r) \/ ConsumeCode(r)
      PROVE  CodesPlaced' /\ SpentCodeNotStored'
  <2> DEFINE prov == req[r].prov
             phone == PhoneOf[req[r].sess]
  <2>1. req[r] \in Active
    BY <1>t, <1>4, Working DEF DropCode, ConsumeCode, TypeOK
  <2>2. /\ prov \in Providers /\ phone \in Phones
        /\ sent[req[r].gen].phone = phone /\ sent[req[r].gen].prov = prov
    BY <1>t, <1>4, <2>1, Holding, VerificationAssumption DEF DropCode, ConsumeCode, Active
  <2>3. codes' = [codes EXCEPT ![prov][phone] = 0] /\ UNCHANGED sent
    BY <1>4 DEF DropCode, ConsumeCode, RemoveCode
  <2>4. \A p \in Providers, ph \in Phones :
          codes'[p][ph] # 0 => codes'[p][ph] = codes[p][ph] /\ <<p, ph>> # <<prov, phone>>
    BY <1>t, <2>2, <2>3
  <2>5. CodesPlaced'
    BY <1>t, <2>3, <2>4 DEF CodesPlaced
  <2>6. \A q \in proofs' : q \in proofs \/ q.gen = req[r].gen
    BY <1>4 DEF DropCode, ConsumeCode
  <2>7. \A p \in Providers, ph \in Phones :
          codes'[p][ph] # 0 => codes'[p][ph] # req[r].gen
    BY <1>t, <2>2, <2>4 DEF CodesPlaced
  <2> QED BY <1>t, <2>4, <2>5, <2>6, <2>7 DEF SpentCodeNotStored
<1>5. ASSUME NEW r \in Requests, TelcoAnswer(r) PROVE CodesPlaced' /\ SpentCodeNotStored'
  BY <1>1, <1>5 DEF TelcoAnswer
<1>6. CASE UNCHANGED <<codes, sent, proofs>>
  BY <1>1, <1>6
<1> QED BY <1>2, <1>3, <1>4, <1>5, <1>6, Touched

\* Proofs and tokens stay sound.
LEMMA ProofsStep == IInv /\ [Next]_vars => ProofsSound' /\ TokensBacked' /\ VerifiedIsProven'
<1> SUFFICES ASSUME IInv, [Next]_vars PROVE ProofsSound' /\ TokensBacked' /\ VerifiedIsProven'
  OBVIOUS
<1>t. TypeOK /\ RequestsOK /\ ProofsSound /\ TokensBacked /\ VerifiedIsProven /\ HistoryGrows
      /\ Len(sent) \in Nat
  BY HistoryStep DEF IInv, TypeOK
<1>1. ProofsSound'
  <2>1. CASE UNCHANGED proofs
    BY <1>t, <2>1 DEF ProofsSound, HistoryGrows
  <2>2. ASSUME NEW r \in Requests, TelcoAnswer(r) PROVE ProofsSound'
    BY <1>t, <2>2 DEF TelcoAnswer, ProofsSound, Silent
  <2>3. ASSUME NEW r \in Requests, ConsumeCode(r) PROVE ProofsSound'
    <3>1. req[r].gen \in 1 .. Len(sent) /\ sent[req[r].gen].phone = PhoneOf[req[r].sess]
      BY <1>t, <2>3, Holding DEF ConsumeCode
    <3> QED BY <1>t, <2>3, <3>1 DEF ConsumeCode, ProofsSound
  <2> QED BY <2>1, <2>2, <2>3, Touched
<1>2. TokensBacked'
  <2>1. CASE UNCHANGED tokens
    BY <1>t, <2>1 DEF TokensBacked, HistoryGrows
  <2>2. ASSUME NEW r \in Requests, IssueToken(r) PROVE TokensBacked'
    <3>1. RequestOK(req[r])
      BY <1>t DEF RequestsOK
    <3>2. [sess |-> req[r].sess, gen |-> req[r].gen] \in proofs
          /\ req[r].tenant = TenantOf[req[r].sess]
      BY <2>2, <3>1 DEF IssueToken, RequestOK
    <3> QED BY <1>t, <2>2, <3>2 DEF IssueToken, TokensBacked
  <2> QED BY <2>1, <2>2, Touched
<1>3. VerifiedIsProven'
  <2>1. ASSUME \A s \in SessionIds : status'[s] = "verified" => status[s] = "verified"
        PROVE  VerifiedIsProven'
    BY <1>t, <2>1 DEF VerifiedIsProven, HistoryGrows
  <2>2. CASE Restart
    BY <2>1, <2>2 DEF Restart
  <2>3. ASSUME NEW s \in SessionIds, CreateSession(s) PROVE VerifiedIsProven'
    BY <1>t, <2>1, <2>3 DEF CreateSession, TypeOK
  <2>4. ASSUME NEW r \in Requests, ExpireSession(r) PROVE VerifiedIsProven'
    BY <1>t, <2>1, <2>4 DEF ExpireSession, SetStatus, TypeOK
  <2>5. ASSUME NEW r \in Requests, MarkVerified(r) PROVE VerifiedIsProven'
    <3>1. [sess |-> req[r].sess, gen |-> req[r].gen] \in proofs
      BY <1>t, <2>5 DEF RequestsOK, RequestOK, MarkVerified
    <3>2. \A s \in SessionIds : s # req[r].sess => status'[s] = status[s]
      BY <1>t, <2>5 DEF MarkVerified, SetStatus, TypeOK
    <3> QED BY <1>t, <2>5, <3>1, <3>2 DEF VerifiedIsProven, MarkVerified
  <2> QED BY <2>1, <2>2, <2>3, <2>4, <2>5, Touched
<1> QED BY <1>1, <1>2, <1>3

\* With a store that does not fail, the session of a token stays confirmed.
LEMMA SettledStep ==
  IInv /\ [Next]_vars => (~StoreMayFail => SettledStatus')
<1> SUFFICES ASSUME IInv, [Next]_vars, ~StoreMayFail PROVE SettledStatus'
  OBVIOUS
<1>t. TypeOK /\ RequestsOK /\ SettledStatus
  BY DEF IInv
<1>s. \A t \in tokens : t.proof.sess \in SessionIds
  BY <1>t DEF TypeOK, Token, Proof
<1>1. \A s \in SessionIds : Confirmed(s) => Confirmed(s)'
  <2>1. CASE ~Restart
    BY <2>1, SessionsStep DEF SessionsKept
  <2>2. CASE Restart
    BY <1>t, <2>2 DEF Restart, Confirmed, TypeOK
  <2> QED BY <2>1, <2>2
<1>2. CASE UNCHANGED tokens
  BY <1>t, <1>s, <1>1, <1>2 DEF SettledStatus
<1>3. ASSUME NEW r \in Requests, IssueToken(r) PROVE SettledStatus'
  <2>1. req[r].sess \in SessionIds
    BY <1>t, <1>3, Working DEF IssueToken, TypeOK, Active
  <2>2. Confirmed(req[r].sess)
    BY <1>t, <1>3 DEF RequestsOK, RequestOK, IssueToken
  <2>3. \A t \in tokens' : t \in tokens \/ t.proof.sess = req[r].sess
    BY <1>3 DEF IssueToken
  <2>4. \A t \in tokens' : t.proof.sess \in SessionIds /\ Confirmed(t.proof.sess)
    BY <1>t, <1>s, <2>1, <2>2, <2>3 DEF SettledStatus
  <2> QED BY <1>1, <2>4 DEF SettledStatus
<1> QED BY <1>2, <1>3, Touched
-----------------------------------------------------------------------------
\* The invariant holds initially and is kept by every step.
THEOREM Invariance == Spec => []IInv
<1>1. Init => IInv
  <2> SUFFICES ASSUME Init PROVE IInv
    OBVIOUS
  <2>1. TypeOK
    BY VerificationAssumption DEF Init, TypeOK, EmptyCodes, Status
  <2>2. CodesPlaced /\ SpentCodeNotStored
    BY DEF Init, EmptyCodes, CodesPlaced, SpentCodeNotStored
  <2>3. RequestsOK
    BY DEF Init, Idle, RequestsOK, RequestOK
  <2> QED BY <2>1, <2>2, <2>3 DEF Init, IInv, ProofsSound, TokensBacked, VerifiedIsProven,
          SettledStatus
<1>2. IInv /\ [Next]_vars => IInv'
  BY TypeStep, CodesStep, RequestsStep, ProofsStep, SettledStep DEF IInv
<1> QED BY <1>1, <1>2, PTL DEF Spec

\* Every variable keeps its type, for every number of actors and any length of run.
THEOREM TypeCorrect == Spec => []TypeOK
<1>1. IInv => TypeOK
  BY DEF IInv
<1> QED BY <1>1, Invariance, PTL

\* A proof by code rests on a code sent to the phone of the session it proves (Send,
\* Verify of the providers).
THEOREM ProofsAreSound == Spec => []ProofsSound
<1>1. IInv => ProofsSound
  BY DEF IInv
<1> QED BY <1>1, Invariance, PTL

\* A token always stands for a proof of possession of its session's phone, obtained
\* for the tenant the token went to (SilentVerify, CheckOTP, generateToken).
THEOREM TokensAreBacked == Spec => [](ProofsSound /\ TokensBacked /\ VerifiedIsProven)
<1>1. IInv => ProofsSound /\ TokensBacked /\ VerifiedIsProven
  BY DEF IInv
<1> QED BY <1>1, Invariance, PTL

\* A code that has been accepted is in no store any more (Verify of the providers).
THEOREM SpentCodesAreGone == Spec => []SpentCodeNotStored
<1>1. IInv => SpentCodeNotStored
  BY DEF IInv
<1> QED BY <1>1, Invariance, PTL

\* With the in-memory repository, or a database that does not refuse an update, the
\* session of a token is never seen unverified again before its expiry.
THEOREM TokensAreSettled == ASSUME ~StoreMayFail PROVE Spec => []SettledStatus
<1>1. IInv => SettledStatus
  BY DEF IInv
<1> QED BY <1>1, Invariance, PTL
-----------------------------------------------------------------------------
\* One session's status in one step.
Move(s) ==
  status'[s] # status[s] =>
    CASE status'[s] = "pending"  -> status[s] = "absent"
      [] status'[s] = "expired"  -> Opened(s) /\ now > expiresAt[s]
      [] status'[s] = "verified" -> Opened(s) /\ \E p \in proofs : p.sess = s
      [] OTHER                   -> status'[s] = "lost" /\ ~Durable

LEMMA MoveStep == IInv /\ [Next]_vars => \A s \in SessionIds : Move(s)
<1> SUFFICES ASSUME IInv, [Next]_vars, NEW s \in SessionIds PROVE Move(s)
  OBVIOUS
<1>t. TypeOK /\ RequestsOK /\ status \in [SessionIds -> Status]
  BY DEF IInv, TypeOK
<1>1. CASE UNCHANGED status
  BY <1>1 DEF Move
<1>2. CASE Restart
  BY <1>t, <1>2 DEF Restart, Move
<1>3. ASSUME NEW c \in SessionIds, CreateSession(c) PROVE Move(s)
  BY <1>t, <1>3 DEF CreateSession, Move
<1>4. ASSUME NEW r \in Requests, ExpireSession(r) PROVE Move(s)
  <2>1. Opened(req[r].sess) /\ now > expiresAt[req[r].sess]
    BY <1>t, <1>4 DEF ExpireSession, RequestsOK, RequestOK
  <2> QED BY <1>t, <1>4, <2>1 DEF ExpireSession, SetStatus, Move
<1>5. ASSUME NEW r \in Requests, MarkVerified(r) PROVE Move(s)
  <2>1. Opened(req[r].sess) /\ [sess |-> req[r].sess, gen |-> req[r].gen] \in proofs
    BY <1>t, <1>5 DEF MarkVerified, RequestsOK, RequestOK
  <2>2. \E p \in proofs : p.sess = req[r].sess
    BY <2>1
  <2> QED BY <1>t, <1>5, <2>1, <2>2 DEF MarkVerified, SetStatus, Move
<1> QED BY <1>1, <1>2, <1>3, <1>4, <1>5, Touched

\* Whatever requests write concurrently, a session moves along its lifecycle only.
THEOREM StatusMovement == Spec => StatusMoves
<1>1. IInv /\ [Next]_vars => [\A s \in SessionIds : Move(s)]_vars
  BY MoveStep
<1> QED BY <1>1, Invariance, PTL DEF Spec, StatusMoves, Move
-----------------------------------------------------------------------------
\* A session with a proof is a proven one of the promise.
LEMMA ProvenSession ==
  ASSUME NEW s, NEW g, [sess |-> s, gen |-> g] \in proofs PROVE s \in {p.sess : p \in proofs}
  OBVIOUS

\* The sessions of proofs and of tokens when one more comes in.
LEMMA OneMoreProof ==
  ASSUME NEW P, NEW q PROVE {p.sess : p \in P \union {q}} = {p.sess : p \in P} \union {q.sess}
  BY Zenon

LEMMA OneMoreToken ==
  ASSUME NEW T, NEW u
  PROVE  {t.proof.sess : t \in T \union {u}} = {t.proof.sess : t \in T} \union {u.proof.sess}
  BY Zenon

\* Every step of the service is a step of its promise, or none.
LEMMA PromiseStep == IInv /\ [Next]_vars => [Promise!Next]_Promise!pvars
<1> SUFFICES ASSUME IInv, [Next]_vars PROVE [Promise!Next]_Promise!pvars
  OBVIOUS
<1> DEFINE proven == {p.sess : p \in proofs}
           granted == {t.proof.sess : t \in tokens}
<1>t. TypeOK /\ RequestsOK
  BY DEF IInv
<1>1. CASE UNCHANGED <<status, proofs, tokens>>
  BY <1>1 DEF Promise!pvars
<1>2. CASE Restart
  <2>1. UNCHANGED <<proofs, tokens>>
    BY <1>2 DEF Restart
  <2> QED BY <1>1, <1>2, <2>1 DEF Restart, Promise!Lose, Promise!Next, Promise!pvars
<1>3. ASSUME NEW s \in SessionIds, CreateSession(s) PROVE Promise!Next
  BY <1>3 DEF CreateSession, Promise!Open, Promise!Next
<1>4. ASSUME NEW r \in Requests, Work(r) PROVE [Promise!Next]_Promise!pvars
  <2>a. req[r] \in Active /\ RequestOK(req[r])
    BY <1>t, <1>4, Working DEF Work, ExpireSession, TelcoAnswer, MarkVerified, IssueToken,
       StoreCode, ReadCode, DropCode, ConsumeCode, TypeOK, RequestsOK
  <2> DEFINE s == req[r].sess
  <2>b. s \in SessionIds /\ Opened(s)
    BY <2>a DEF Active, RequestOK
  <2>s. Promise!Stored(s)
    BY <2>b DEF Opened, Promise!Stored
  <2>1. CASE ExpireSession(r)
    <3>1. UNCHANGED <<proofs, tokens>> /\ (UNCHANGED status \/ status' = [status EXCEPT ![s] = "expired"])
      BY <2>1 DEF ExpireSession, SetStatus
    <3>2. ASSUME status' = [status EXCEPT ![s] = "expired"] PROVE Promise!Next
      <4>1. {p.sess : p \in proofs'} = proven /\ {t.proof.sess : t \in tokens'} = granted
        BY <3>1
      <4>2. Promise!Lapse(s)
        BY <2>s, <3>2, <4>1 DEF Promise!Lapse
      <4> QED BY <2>b, <4>2 DEF Promise!Next
    <3> QED BY <1>1, <3>1, <3>2
  <2>2. CASE MarkVerified(r)
    <3>1. UNCHANGED <<proofs, tokens>> /\ (UNCHANGED status \/ status' = [status EXCEPT ![s] = "verified"])
      BY <2>2 DEF MarkVerified, SetStatus
    <3>2. s \in proven
      BY <2>2, <2>a, ProvenSession DEF MarkVerified, RequestOK
    <3>3. ASSUME status' = [status EXCEPT ![s] = "verified"] PROVE Promise!Next
      <4>1. {p.sess : p \in proofs'} = proven /\ {t.proof.sess : t \in tokens'} = granted
        BY <3>1
      <4>2. Promise!Confirm(s)
        BY <2>s, <3>3, <4>1, <3>2 DEF Promise!Confirm
      <4> QED BY <2>b, <4>2 DEF Promise!Next
    <3> QED BY <1>1, <3>1, <3>3
  <2>3. ASSUME NEW g, UNCHANGED <<status, tokens>>, proofs' = proofs \union {[sess |-> s, gen |-> g]}
        PROVE  Promise!Next
    <3>1. {p.sess : p \in proofs'} = proven \union {s}
      BY <2>3, OneMoreProof
    <3>2. \E x \in SessionIds : Promise!Prove(x)
      BY <2>b, <2>s, <2>3, <3>1 DEF Promise!Prove
    <3> QED BY <3>2 DEF Promise!Next
  <2>4. CASE IssueToken(r)
    <3>1. s \in proven
      BY <2>4, <2>a, ProvenSession DEF IssueToken, RequestOK
    <3>2. ~StoreMayFail => status[s] # "pending"
      BY <2>4, <2>a DEF IssueToken, RequestOK, Confirmed
    <3>3. {t.proof.sess : t \in tokens'} = granted \union {s}
      BY <2>4, OneMoreToken DEF IssueToken
    <3>4. UNCHANGED <<status, proofs>>
      BY <2>4 DEF IssueToken
    <3>5. \E x \in SessionIds : Promise!Grant(x)
      BY <2>b, <2>s, <3>1, <3>2, <3>3, <3>4 DEF Promise!Grant
    <3> QED BY <3>5 DEF Promise!Next
  <2>5. CASE TelcoAnswer(r) \/ ConsumeCode(r)
    BY <1>1, <2>3, <2>5 DEF TelcoAnswer, ConsumeCode
  <2> QED BY <1>1, <1>4, <2>1, <2>2, <2>4, <2>5 DEF Work, StoreCode, ReadCode, DropCode
<1>5. ASSUME NEW r \in Requests, Arrive(r) PROVE UNCHANGED <<status, proofs, tokens>>
  BY <1>5 DEF Arrive, BeginSilent, BeginSend, BeginCheck
<1> QED BY <1>1, <1>2, <1>3, <1>4, <1>5 DEF Next, Tick, vars

\* The service implements its promise: a token is granted only for a proven session,
\* and only after the session has been confirmed if the store is reliable.
THEOREM Implementation == Spec => KeepsPromise
<1>1. Init => Promise!Init
  BY DEF Init, Promise!Init
<1>2. IInv /\ [Next]_vars => [Promise!Next]_Promise!pvars
  BY PromiseStep
<1> QED BY <1>1, <1>2, Invariance, PTL DEF Spec, KeepsPromise, Promise!Spec
-----------------------------------------------------------------------------
\* What a check about to delete a code remembers of the entry it read: it is the one
\* stored, or one that has been replaced, and what was found about it is still so.
Remembers(r) ==
  req[r].pc \in {"drop", "consume"} =>
    /\ codes[req[r].prov][PhoneOf[req[r].sess]] # 0 =>
         req[r].gen <= codes[req[r].prov][PhoneOf[req[r].sess]]
    /\ Stale(req[r].prov, req[r].gen) \/ Matches(req[r].prov, req[r].gen, req[r].code)

AllRemember == \A r \in Requests : Remembers(r)

\* A store keeps a code, forgets it, or replaces it by the newest.
LEMMA CodesMove ==
  ASSUME IInv, [Next]_vars
  PROVE  \A p \in Providers, ph \in Phones :
           codes'[p][ph] \in {0, codes[p][ph], Len(sent) + 1}
<1>t. TypeOK /\ codes \in [Providers -> [Phones -> 0 .. Len(sent)]]
  BY DEF IInv, TypeOK
<1>1. CASE UNCHANGED codes
  BY <1>1
<1>2. CASE Restart
  BY <1>2 DEF Restart, EmptyCodes
<1>3. ASSUME NEW r \in Requests, NEW n, codes' = [codes EXCEPT ![req[r].prov][PhoneOf[req[r].sess]] = n],
             n \in {0, Len(sent) + 1}
      PROVE  \A p \in Providers, ph \in Phones :
               codes'[p][ph] \in {0, codes[p][ph], Len(sent) + 1}
  BY <1>t, <1>3
<1>4. ASSUME NEW r \in Requests, StoreCode(r) \/ DropCode(r) \/ ConsumeCode(r)
      PROVE  \A p \in Providers, ph \in Phones :
               codes'[p][ph] \in {0, codes[p][ph], Len(sent) + 1}
  BY <1>3, <1>4 DEF StoreCode, DropCode, ConsumeCode, RemoveCode
<1> QED BY <1>1, <1>2, <1>4, Touched

\* Only the reading of a code makes a request one that is about to delete it.
LEMMA OnlyReading ==
  ASSUME TypeOK, [Next]_vars, NEW o \in Requests, req'[o].pc \in {"drop", "consume"}
  PROVE  req'[o] = req[o] \/ ReadCode(o)
<1>t. req \in [Requests -> {Idle} \union Active]
  BY DEF TypeOK
<1>1. ASSUME NEW r \in Requests, NEW q, req' = [req EXCEPT ![r] = q], q.pc \notin {"drop", "consume"}
      PROVE  req'[o] = req[o]
  BY <1>t, <1>1
<1>2. CASE UNCHANGED req
  BY <1>2
<1>3. CASE Restart
  BY <1>3 DEF Restart, Idle
<1>4. ASSUME NEW r \in Requests, Arrive(r) PROVE req'[o] = req[o]
  <2>1. PICK s \in SessionIds, t \in Tenants :
          \/ BeginSilent(r, s, t)
          \/ \E ch \in Channels : BeginSend(r, s, t, ch)
          \/ \E code \in Presentable : BeginCheck(r, s, t, code)
    BY <1>4 DEF Arrive
  <2>2. CASE BeginSilent(r, s, t)
    BY <1>1, <2>2 DEF BeginSilent, Start, Idle
  <2>3. ASSUME NEW ch \in Channels, BeginSend(r, s, t, ch) PROVE req'[o] = req[o]
    BY <1>1, <2>3 DEF BeginSend, Start, Idle
  <2>4. ASSUME NEW code \in Presentable, BeginCheck(r, s, t, code) PROVE req'[o] = req[o]
    BY <1>1, <2>4 DEF BeginCheck, Start, Idle
  <2> QED BY <2>1, <2>2, <2>3, <2>4
<1>5. ASSUME NEW r \in Requests, Work(r) PROVE req'[o] = req[o] \/ ReadCode(o)
  <2>a. req[r] \in Active
    BY <1>t, <1>5, Working DEF Work, ExpireSession, TelcoAnswer, MarkVerified, IssueToken,
       StoreCode, ReadCode, DropCode, ConsumeCode
  <2>1. CASE Finish(r)
    BY <1>1, <2>1 DEF Finish, Idle
  <2>2. ASSUME NEW pc \in {"mark", "issue"}, Goto(r, pc) PROVE req'[o] = req[o]
    <3>1. req' = [req EXCEPT ![r] = [req[r] EXCEPT !.pc = pc]]
      BY <1>t, <2>2 DEF Goto
    <3>2. [req[r] EXCEPT !.pc = pc].pc = pc
      BY <2>a DEF Active
    <3> QED BY <1>1, <3>1, <3>2
  <2>3. CASE ReadCode(r)
    <3>1. o # r => req'[o] = req[o]
      BY <1>t, <2>3 DEF ReadCode
    <3> QED BY <2>3, <3>1
  <2>4. CASE DropCode(r)
    <3>1. req' = [req EXCEPT ![r] = NextProvider(req[r], req[r].todo)]
      BY <1>t, <2>4 DEF DropCode
    <3>2. NextProvider(req[r], req[r].todo).pc \in {"idle", "read"}
      BY <2>a DEF NextProvider, Idle, Active
    <3> QED BY <1>1, <3>1, <3>2
  <2>5. CASE ConsumeCode(r)
    <3>1. o = r => req'[o].pc = "mark"
      BY <1>t, <2>5, <2>a DEF ConsumeCode, Active
    <3>2. o # r => req'[o] = req[o]
      BY <1>t, <2>5 DEF ConsumeCode
    <3> QED BY <3>1, <3>2
  <2> QED BY <1>5, <2>1, <2>2, <2>3, <2>4, <2>5 DEF Work, ExpireSession, TelcoAnswer,
       MarkVerified, IssueToken, StoreCode
<1>6. CASE Tick \/ (\E s \in SessionIds : CreateSession(s)) \/ UNCHANGED vars
  BY <1>2, <1>6 DEF Tick, CreateSession, vars
<1> QED BY <1>3, <1>4, <1>5, <1>6 DEF Next

\* What checks remember stays true, whoever else acts.
LEMMA RememberStep == IInv /\ AllRemember /\ [Next]_vars => AllRemember'
<1> SUFFICES ASSUME IInv, AllRemember, [Next]_vars, NEW o \in Requests,
                    req'[o].pc \in {"drop", "consume"}
             PROVE  Remembers(o)'
  BY DEF AllRemember, Remembers
<1>t. /\ TypeOK /\ RequestsOK /\ HistoryGrows /\ Len(sent) \in Nat /\ now \in Nat
      /\ codes \in [Providers -> [Phones -> 0 .. Len(sent)]]
  BY HistoryStep DEF IInv, TypeOK
<1>n. now' \in Nat /\ now' >= now
  <2>1. CASE Restart
    BY <1>t, <2>1 DEF Restart
  <2> QED BY <2>1, SessionsStep DEF SessionsKept
<1>1. CASE req'[o] = req[o]
  <2> DEFINE p == req[o].prov
             ph == PhoneOf[req[o].sess]
             g == req[o].gen
  <2>a. req[o] \in Active
    BY <1>1, <1>t, Working DEF TypeOK
  <2>h. /\ g \in 1 .. Len(sent) /\ p \in Providers /\ ph \in Phones
        /\ sent[g] \in SentCode
    BY <1>1, <1>t, <2>a, Holding, VerificationAssumption DEF Active
  <2>r. Remembers(o)
    BY DEF AllRemember
  <2>1. codes'[p][ph] # 0 => g <= codes'[p][ph]
    <3>1. codes'[p][ph] \in {0, codes[p][ph], Len(sent) + 1}
      BY <2>h, CodesMove
    <3>2. codes[p][ph] # 0 => g <= codes[p][ph]
      BY <1>1, <2>r DEF Remembers
    <3> QED BY <1>t, <2>h, <3>1, <3>2
  <2>2. sent'[g] = sent[g]
    BY <1>t, <2>h DEF HistoryGrows
  <2>3. Stale(p, g) \/ Matches(p, g, req[o].code)
    BY <1>1, <2>r DEF Remembers
  <2>4. Stale(p, g) => (p \notin Sandbox /\ now' > sent'[g].expiresAt)
    <3>1. sent[g].expiresAt \in Nat
      BY <2>h DEF SentCode
    <3> QED BY <1>t, <1>n, <2>2, <3>1 DEF Stale
  <2>5. Matches(p, g, req[o].code) =>
          (req[o].code = sent'[g].code \/ (p \in Sandbox /\ req[o].code = UniversalCode))
    BY <2>2 DEF Matches
  <2> QED BY <1>1, <2>1, <2>3, <2>4, <2>5 DEF Remembers, Stale, Matches
<1>2. CASE ReadCode(o)
  <2>a. req[o] \in Active
    BY <1>2, <1>t, Working DEF TypeOK, ReadCode
  <2>1. PICK ch \in req[o].todo :
          LET p == ProviderOf[ch]
              ph == PhoneOf[req[o].sess]
              rest == req[o].todo \ {ch}
              found == Lookup(p, ph, req[o].code)
              holding(pc) == [req[o] EXCEPT !.pc = pc, !.prov = p, !.todo = rest,
                                            !.gen = codes[p][ph]]
          IN \/ found = "miss" /\ req' = [req EXCEPT ![o] = NextProvider(@, rest)]
             \/ found = "stale" /\ req' = [req EXCEPT ![o] = holding("drop")]
             \/ found = "hit" /\ req' = [req EXCEPT ![o] = holding("consume")]
    BY <1>2 DEF ReadCode
  <2> DEFINE p == ProviderOf[ch]
             ph == PhoneOf[req[o].sess]
             rest == req[o].todo \ {ch}
             holding(pc) == [req[o] EXCEPT !.pc = pc, !.prov = p, !.todo = rest,
                                           !.gen = codes[p][ph]]
  <2>u. UNCHANGED <<codes, sent, now>>
    BY <1>2 DEF ReadCode
  <2>2. p \in Providers /\ ph \in Phones /\ codes[p][ph] \in Nat
    BY <1>t, <2>a, VerificationAssumption DEF Active
  <2>3. CASE req' = [req EXCEPT ![o] = NextProvider(@, rest)]
    <3>1. req'[o] = NextProvider(req[o], rest)
      BY <1>t, <2>3 DEF TypeOK
    <3> QED BY <2>a, <3>1 DEF NextProvider, Idle, Active
  <2>4. ASSUME NEW pc \in {"drop", "consume"}, req' = [req EXCEPT ![o] = holding(pc)],
               Lookup(p, ph, req[o].code) \in {"stale", "hit"}
        PROVE  Remembers(o)'
    <3>1. req'[o] = holding(pc)
      BY <1>t, <2>4 DEF TypeOK
    <3>2. /\ req'[o].prov = p /\ req'[o].gen = codes[p][ph]
          /\ req'[o].sess = req[o].sess /\ req'[o].code = req[o].code
      BY <2>a, <3>1 DEF Active
    <3>3. Stale(p, codes[p][ph]) \/ Matches(p, codes[p][ph], req[o].code)
      BY <2>4 DEF Lookup
    <3>4. /\ Stale(p, codes[p][ph]) => (p \notin Sandbox /\ now' > sent'[codes[p][ph]].expiresAt)
          /\ Matches(p, codes[p][ph], req[o].code) =>
               (req[o].code = sent'[codes[p][ph]].code \/ (p \in Sandbox /\ req[o].code = UniversalCode))
      BY <2>u DEF Stale, Matches
    <3>5. codes'[req'[o].prov][PhoneOf[req'[o].sess]] = codes[p][ph]
      BY <2>u, <3>2
    <3>6. codes[p][ph] <= codes[p][ph]
      BY <2>2
    <3> HIDE DEF holding, p, ph, rest
    <3> QED BY <3>2, <3>3, <3>4, <3>5, <3>6 DEF Remembers, Stale, Matches
  <2> QED BY <2>1, <2>3, <2>4
<1> QED BY <1>1, <1>2, <1>t, OnlyReading

\* A stored code disappears only by a restart, or by a check that read this entry and
\* found it to match or to be expired, or that read an older one of the same phone
\* (Verify of the providers): a wrong guess never costs the user the code.
THEOREM WrongGuessesAreFree == Spec => WrongGuessesKeepCode
<1> DEFINE Kept ==
      \A p \in Providers, ph \in Phones :
        LET g == codes[p][ph] IN
        g # 0 /\ codes'[p][ph] = 0 => Restart \/
          \E r \in Requests :
            /\ req[r].prov = p /\ req[r].sess # None /\ PhoneOf[req[r].sess] = ph
            /\ req[r].gen \in 1 .. g
            /\ req[r].gen = g => Stale(p, g) \/ Matches(p, g, req[r].code)
<1>1. Init => AllRemember
  BY DEF Init, Idle, AllRemember, Remembers
<1>2. IInv /\ AllRemember /\ [Next]_vars => [Kept]_vars
  <2> SUFFICES ASSUME IInv, AllRemember, [Next]_vars, ~Restart,
                      NEW p \in Providers, NEW ph \in Phones,
                      codes[p][ph] # 0, codes'[p][ph] = 0
               PROVE  \E r \in Requests :
                        /\ req[r].prov = p /\ req[r].sess # None /\ PhoneOf[req[r].sess] = ph
                        /\ req[r].gen \in 1 .. codes[p][ph]
                        /\ req[r].gen = codes[p][ph] =>
                             Stale(p, codes[p][ph]) \/ Matches(p, codes[p][ph], req[r].code)
    OBVIOUS
  <2>t. /\ TypeOK /\ RequestsOK /\ Len(sent) \in Nat
        /\ codes \in [Providers -> [Phones -> 0 .. Len(sent)]]
    BY DEF IInv, TypeOK
  <2>1. \A r \in Requests : ~StoreCode(r)
    <3> SUFFICES ASSUME NEW r \in Requests, StoreCode(r) PROVE FALSE
      OBVIOUS
    <3> QED BY <2>t DEF StoreCode
  <2>2. PICK r \in Requests : DropCode(r) \/ ConsumeCode(r)
    BY <2>1, Touched
  <2>3. codes' = [codes EXCEPT ![req[r].prov][PhoneOf[req[r].sess]] = 0]
    BY <2>2 DEF DropCode, ConsumeCode, RemoveCode
  <2>4. req[r].prov = p /\ PhoneOf[req[r].sess] = ph
    BY <2>t, <2>3
  <2>5. req[r].sess # None
    <3>1. req[r] \in Active
      BY <2>2, <2>t, Working DEF DropCode, ConsumeCode, TypeOK
    <3> QED BY <3>1, VerificationAssumption DEF Active
  <2>6. /\ req[r].gen \in 1 .. codes[p][ph]
        /\ Stale(p, req[r].gen) \/ Matches(p, req[r].gen, req[r].code)
    <3>1. req[r].gen \in 1 .. Len(sent)
      BY <2>2, <2>t, Holding DEF DropCode, ConsumeCode
    <3>2. Remembers(r) /\ req[r].pc \in {"drop", "consume"}
      BY <2>2 DEF AllRemember, DropCode, ConsumeCode
    <3> QED BY <2>t, <2>4, <3>1, <3>2 DEF Remembers
  <2> QED BY <2>4, <2>5, <2>6
<1>3. IInv /\ AllRemember /\ [Next]_vars => AllRemember'
  BY RememberStep
<1>4. [][Kept]_vars => WrongGuessesKeepCode
  BY DEF WrongGuessesKeepCode
<1> QED BY <1>1, <1>2, <1>3, <1>4, Invariance, PTL DEF Spec
=============================================================================
