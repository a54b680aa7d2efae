--------------------------- MODULE Stores_proofs ---------------------------
(*****************************************************************************)
(* For any number of people, addresses, organisations, policies and          *)
(* requests: what crossing handlers can do to accounts and policies, and     *)
(* what they cannot.                                                         *)
(*****************************************************************************)
EXTENDS Account, PolicyStore, TLAPS

(* Accounts *)

RegStates == {Idle} \union [pc : {"conflict", "hash", "tenant", "link", "key", "done"}, email : Emails]

InStore(r) == reg[r].pc \in {"tenant", "link", "key", "done"}
Passed(r) == reg[r].pc \in {"hash", "tenant", "link", "key", "done"}

\* How far a registration has come shows in the stores.
RegistrationsOK ==
  /\ reg \in [Registrations -> RegStates]
  /\ users = {r \in Registrations : InStore(r)}
  /\ tenants = {r \in Registrations : reg[r].pc \in {"link", "key", "done"}}
  /\ byEmail \in [Emails -> users \union {None}]
  /\ \A r \in users : byEmail[reg[r].email] # None

\* Registrations of one address that have passed the check know of each other.
RivalsOK ==
  /\ rivals \in [Registrations -> SUBSET Registrations]
  /\ \A u, v \in Registrations :
       u # v /\ Passed(u) /\ Passed(v) /\ reg[u].email = reg[v].email =>
         u \in rivals[v] \/ v \in rivals[u]

\* A user's first membership exists, and is that of the user's own tenant, unless an
\* invitation was first; a registration that is past that step has left one.
MembershipsOK ==
  /\ memberships \in Seq(Membership)
  /\ \A i \in DOMAIN memberships :
       memberships[i].user \in users /\ memberships[i].tenant \in tenants \union Callers
  /\ \A u \in Registrations : reg[u].pc \in {"key", "done"} => Of(u) # {}
  /\ \A u \in Registrations : Of(u) # {} => FirstOf(u) \in Of(u)
  /\ \A u \in Registrations : Of(u) # {} /\ u \notin early => memberships[FirstOf(u)].tenant = u

\* What logins and invitations under way know.
LoginStates == {Idle} \union [pc : {"member", "forbidden"}, user : Registrations]
InviteStates == {Idle, [pc |-> "done"]} \union [pc : {"add"}, member : Membership]

HandlersOK ==
  /\ login \in [Logins -> LoginStates]
  /\ \A l \in Logins : login[l].pc = "member" => login[l].user \in users
  /\ invite \in [Invitations -> InviteStates]
  /\ \A i \in Invitations : invite[i].pc = "add" =>
       invite[i].member.user \in users /\ invite[i].member.tenant \in Callers

\* What tokens were given out for.
TokensOK ==
  \A t \in tokens :
    /\ t.user \in Registrations
    /\ t.from = "register" => t.tenant = t.user
    /\ t.from # "register" =>
         t.from = "login" /\ Of(t.user) # {} /\ t.tenant = memberships[FirstOf(t.user)].tenant

KeysOK == keys \subseteq Key /\ DefaultKeysStay

AccountIInv == RegistrationsOK /\ RivalsOK /\ MembershipsOK /\ HandlersOK /\ TokensOK /\ KeysOK
-----------------------------------------------------------------------------
(* The list of memberships *)

\* A membership that is added comes last: it is the first of a user only if it is the
\* user's only one.
LEMMA Grown ==
  ASSUME memberships \in Seq(Membership), NEW m \in Membership,
         memberships' = Append(memberships, m),
         NEW u, Of(u) # {} => FirstOf(u) \in Of(u)
  PROVE  /\ Of(u) # {} => /\ Of(u)' # {} /\ FirstOf(u)' \in Of(u)'
                          /\ memberships'[FirstOf(u)'] = memberships[FirstOf(u)]
         /\ Of(u) = {} /\ m.user # u => Of(u)' = {}
         /\ Of(u) = {} /\ m.user = u =>
              Of(u)' # {} /\ FirstOf(u)' \in Of(u)' /\ memberships'[FirstOf(u)'] = m
<1> DEFINE n == Len(memberships)
<1>1. /\ n \in Nat /\ DOMAIN memberships = 1 .. n /\ DOMAIN memberships' = 1 .. n + 1
      /\ \A i \in 1 .. n : memberships'[i] = memberships[i]
      /\ memberships'[n + 1] = m
  OBVIOUS
<1>2. /\ Of(u) = {i \in 1 .. n : memberships[i].user = u}
      /\ Of(u)' = {i \in 1 .. n + 1 : memberships'[i].user = u}
  BY <1>1 DEF Of
<1> HIDE DEF n
<1>3. Of(u) \subseteq 1 .. n /\ Of(u)' = Of(u) \union (IF m.user = u THEN {n + 1} ELSE {})
  BY <1>1, <1>2
<1>4. CASE Of(u) # {}
  <2>1. FirstOf(u) \in Of(u) /\ FirstOf(u) \in 1 .. n
    BY <1>3, <1>4
  <2>2. \A x : (x \in Of(u) /\ \A y \in Of(u) : x <= y) <=>
               (x \in Of(u)' /\ \A y \in Of(u)' : x <= y)
    BY <1>1, <1>3, <2>1
  <2>3. FirstOf(u)' = FirstOf(u)
    BY <2>2 DEF FirstOf
  <2> QED BY <1>1, <1>3, <1>4, <2>1, <2>3
<1>5. CASE Of(u) = {} /\ m.user # u
  BY <1>3, <1>5
<1>6. CASE Of(u) = {} /\ m.user = u
  <2>1. Of(u)' = {n + 1}
    BY <1>3, <1>6
  <2>2. FirstOf(u)' = n + 1
    BY <1>1, <2>1 DEF FirstOf
  <2> QED BY <1>1, <1>6, <2>1, <2>2
<1> QED BY <1>4, <1>5, <1>6

\* Without a new membership nothing changes about them.
LEMMA AccountSteady ==
  ASSUME memberships' = memberships
  PROVE  \A u : Of(u)' = Of(u) /\ FirstOf(u)' = FirstOf(u)
BY DEF Of, FirstOf
-----------------------------------------------------------------------------
(* The invariant is inductive *)

LEMMA AccountInvInit == ASSUME AccountAssumption, AccountInit PROVE AccountIInv
<1>1. RegistrationsOK /\ RivalsOK
  BY DEF AccountInit, AccountAssumption, RegistrationsOK, RivalsOK, RegStates, InStore, Passed, Idle
<1>2. memberships = << >> /\ \A u \in Registrations : Of(u) = {}
  BY DEF AccountInit, Of
<1>3. MembershipsOK
  BY <1>2 DEF AccountInit, MembershipsOK, Idle
<1>4. HandlersOK /\ TokensOK /\ KeysOK
  BY DEF AccountInit, HandlersOK, TokensOK, KeysOK, DefaultKeysStay, LoginStates, InviteStates, Idle
<1> QED BY <1>1, <1>3, <1>4 DEF AccountIInv

\* A step that leaves registrations, users and memberships alone.
LEMMA Aside ==
  ASSUME AccountIInv, UNCHANGED <<byEmail, users, tenants, memberships, reg, rivals, early>>
  PROVE  RegistrationsOK' /\ RivalsOK' /\ MembershipsOK'
<1>1. RegistrationsOK' /\ RivalsOK'
  BY DEF AccountIInv, RegistrationsOK, RivalsOK, InStore, Passed
<1>2. MembershipsOK'
  BY AccountSteady DEF AccountIInv, MembershipsOK
<1> QED BY <1>1, <1>2
\* What Go does to the registrations.
LEMMA Moved ==
  ASSUME reg \in [Registrations -> RegStates], NEW r \in Registrations,
         NEW pc \in {"hash", "tenant", "link", "key", "done"}, reg[r].pc # "idle", Go(r, pc)
  PROVE  /\ reg' \in [Registrations -> RegStates]
         /\ reg'[r].pc = pc /\ reg'[r].email = reg[r].email /\ reg[r].email \in Emails
         /\ \A q \in Registrations : q # r => reg'[q] = reg[q]
<1>1. reg[r] \in [pc : {"conflict", "hash", "tenant", "link", "key", "done"}, email : Emails]
  BY DEF RegStates, Idle
<1>2. reg' = [reg EXCEPT ![r] = [reg[r] EXCEPT !.pc = pc]]
  BY DEF Go
<1>3. [reg[r] EXCEPT !.pc = pc] = [pc |-> pc, email |-> reg[r].email]
  BY <1>1
<1>4. [pc |-> pc, email |-> reg[r].email] \in RegStates
  BY <1>1 DEF RegStates
<1> QED BY <1>1, <1>2, <1>3, <1>4

LEMMA CheckEmailOK ==
  ASSUME AccountAssumption, AccountIInv, NEW r \in Registrations, NEW e \in Emails, CheckEmail(r, e)
  PROVE  AccountIInv'
<1> DEFINE pc == IF byEmail[e] = None THEN "hash" ELSE "conflict"
<1>1. /\ reg[r] = Idle /\ reg' = [reg EXCEPT ![r] = [pc |-> pc, email |-> e]]
      /\ rivals' = [rivals EXCEPT ![r] =
           {q \in Registrations : reg[q].pc = "hash" /\ reg[q].email = e}]
      /\ UNCHANGED <<byEmail, users, tenants, memberships, keys, login, invite, tokens, early>>
  BY DEF CheckEmail
<1>2. /\ reg' \in [Registrations -> RegStates] /\ reg[r].pc = "idle"
      /\ reg'[r].pc = pc /\ reg'[r].email = e
      /\ \A q \in Registrations : q # r => reg'[q] = reg[q]
  BY <1>1 DEF AccountIInv, RegistrationsOK, RegStates, Idle
<1>3. RegistrationsOK'
  BY <1>1, <1>2 DEF AccountIInv, RegistrationsOK, InStore
<1>4. RivalsOK'
  <2>1. rivals' \in [Registrations -> SUBSET Registrations]
    BY <1>1 DEF AccountIInv, RivalsOK
  <2>2. ASSUME NEW u \in Registrations, u # r, Passed(u)', Passed(r)', reg'[u].email = e
        PROVE  u \in rivals'[r]
    <3>1. byEmail[e] = None /\ Passed(u) /\ reg[u].email = e
      BY <1>2, <2>2 DEF Passed
    <3>2. ~InStore(u)
      BY <3>1 DEF AccountIInv, RegistrationsOK
    <3> QED BY <1>1, <3>1, <3>2 DEF Passed, InStore, AccountIInv, RivalsOK
  <2>3. ASSUME NEW u \in Registrations, NEW v \in Registrations, u # r, v # r, u # v,
               Passed(u)', Passed(v)', reg'[u].email = reg'[v].email
        PROVE  u \in rivals'[v] \/ v \in rivals'[u]
    BY <1>1, <1>2, <2>3 DEF AccountIInv, RivalsOK, Passed
  <2> QED BY <1>2, <2>1, <2>2, <2>3 DEF RivalsOK
<1>5. MembershipsOK'
  BY <1>1, <1>2, AccountSteady DEF AccountIInv, MembershipsOK
<1>6. HandlersOK' /\ TokensOK'
  BY <1>1, AccountSteady DEF AccountIInv, HandlersOK, TokensOK
<1>7. KeysOK'
  BY <1>1, <1>2 DEF AccountIInv, KeysOK, DefaultKeysStay
<1> QED BY <1>3, <1>4, <1>5, <1>6, <1>7 DEF AccountIInv

\* RivalsOK is about registrations that have passed the check, wherever they stand.
LEMMA StillRivals ==
  ASSUME AccountIInv, NEW r \in Registrations, reg[r].pc # "idle", Passed(r), rivals' = rivals,
         reg'[r].email = reg[r].email, \A q \in Registrations : q # r => reg'[q] = reg[q]
  PROVE  RivalsOK'
BY DEF AccountIInv, RivalsOK, Passed

LEMMA CreateUserOK ==
  ASSUME AccountAssumption, AccountIInv, NEW r \in Registrations, CreateUser(r)
  PROVE  AccountIInv'
<1>1. /\ reg[r].pc = "hash" /\ Go(r, "tenant")
      /\ byEmail' = [byEmail EXCEPT ![reg[r].email] = r] /\ users' = users \union {r}
      /\ UNCHANGED <<tenants, memberships, keys, login, invite, tokens, rivals, early>>
  BY DEF CreateUser
<1>2. /\ reg' \in [Registrations -> RegStates]
      /\ reg'[r].pc = "tenant" /\ reg'[r].email = reg[r].email /\ reg[r].email \in Emails
      /\ \A q \in Registrations : q # r => reg'[q] = reg[q]
  BY <1>1, Moved DEF AccountIInv, RegistrationsOK
<1>3. RegistrationsOK'
  <2>1. byEmail' \in [Emails -> users' \union {None}]
    BY <1>1, <1>2 DEF AccountIInv, RegistrationsOK
  <2>2. users' = {q \in Registrations : InStore(q)'}
    BY <1>1, <1>2 DEF AccountIInv, RegistrationsOK, InStore
  <2>3. tenants' = {q \in Registrations : reg'[q].pc \in {"link", "key", "done"}}
    BY <1>1, <1>2 DEF AccountIInv, RegistrationsOK
  <2>4. \A q \in users' : byEmail'[reg'[q].email] # None
    <3>1. r # None /\ \A q \in users : q \in Registrations
      BY DEF AccountAssumption, AccountIInv, RegistrationsOK
    <3>2. \A q \in users : q # r
      BY <1>1 DEF AccountIInv, RegistrationsOK, InStore
    <3>3. \A q \in users : reg[q].email \in Emails /\ byEmail[reg[q].email] # None
      BY DEF AccountIInv, RegistrationsOK, InStore, RegStates, Idle
    <3> QED BY <1>1, <1>2, <3>1, <3>2, <3>3 DEF AccountIInv, RegistrationsOK
  <2> QED BY <1>2, <2>1, <2>2, <2>3, <2>4 DEF RegistrationsOK
<1>4. RivalsOK'
  BY <1>1, <1>2, StillRivals DEF Passed
<1>5. MembershipsOK'
  BY <1>1, <1>2, AccountSteady DEF AccountIInv, MembershipsOK
<1>6. HandlersOK' /\ TokensOK'
  BY <1>1, AccountSteady DEF AccountIInv, HandlersOK, TokensOK
<1>7. KeysOK'
  BY <1>1, <1>2 DEF AccountIInv, KeysOK, DefaultKeysStay
<1> QED BY <1>3, <1>4, <1>5, <1>6, <1>7 DEF AccountIInv

LEMMA CreateTenantOK ==
  ASSUME AccountAssumption, AccountIInv, NEW r \in Registrations, CreateTenant(r)
  PROVE  AccountIInv'
<1>1. /\ reg[r].pc = "tenant" /\ Go(r, "link") /\ tenants' = tenants \union {r}
      /\ UNCHANGED <<byEmail, users, memberships, keys, login, invite, tokens, rivals, early>>
  BY DEF CreateTenant
<1>2. /\ reg' \in [Registrations -> RegStates]
      /\ reg'[r].pc = "link" /\ reg'[r].email = reg[r].email
      /\ \A q \in Registrations : q # r => reg'[q] = reg[q]
  BY <1>1, Moved DEF AccountIInv, RegistrationsOK
<1>3. RegistrationsOK'
  BY <1>1, <1>2 DEF AccountIInv, RegistrationsOK, InStore
<1>4. RivalsOK'
  BY <1>1, <1>2, StillRivals DEF Passed
<1>5. MembershipsOK'
  BY <1>1, <1>2, AccountSteady DEF AccountIInv, MembershipsOK
<1>6. HandlersOK' /\ TokensOK'
  BY <1>1, AccountSteady DEF AccountIInv, HandlersOK, TokensOK
<1>7. KeysOK'
  BY <1>1, <1>2 DEF AccountIInv, KeysOK, DefaultKeysStay
<1> QED BY <1>3, <1>4, <1>5, <1>6, <1>7 DEF AccountIInv
\* Another membership in the list.
LEMMA MemberAdded ==
  ASSUME AccountIInv, NEW m \in Membership, m.user \in users, m.tenant \in tenants \union Callers,
         memberships' = Append(memberships, m),
         users' = users, tenants' = tenants, tokens' = tokens,
         early \subseteq early',
         Of(m.user) = {} => m.tenant = m.user \/ m.user \in early',
         \A u \in Registrations :
           reg'[u].pc \in {"key", "done"} => reg[u].pc \in {"key", "done"} \/ u = m.user
  PROVE  MembershipsOK' /\ TokensOK'
<1>1. memberships \in Seq(Membership)
  BY DEF AccountIInv, MembershipsOK
<1>2. ASSUME NEW u \in Registrations
      PROVE  /\ Of(u) # {} => /\ Of(u)' # {} /\ FirstOf(u)' \in Of(u)'
                              /\ memberships'[FirstOf(u)'] = memberships[FirstOf(u)]
             /\ Of(u) = {} /\ m.user # u => Of(u)' = {}
             /\ Of(u) = {} /\ m.user = u =>
                  Of(u)' # {} /\ FirstOf(u)' \in Of(u)' /\ memberships'[FirstOf(u)'] = m
  BY <1>1, Grown DEF AccountIInv, MembershipsOK
<1>3. memberships' \in Seq(Membership)
  BY <1>1
<1>4. \A i \in DOMAIN memberships' :
        memberships'[i].user \in users' /\ memberships'[i].tenant \in tenants' \union Callers
  <2>1. \A i \in DOMAIN memberships' :
          memberships'[i] = m \/ (i \in DOMAIN memberships /\ memberships'[i] = memberships[i])
    BY <1>1
  <2> QED BY <2>1 DEF AccountIInv, MembershipsOK
<1>5. \A u \in Registrations : reg'[u].pc \in {"key", "done"} => Of(u)' # {}
  BY <1>2 DEF AccountIInv, MembershipsOK
<1>6. \A u \in Registrations : Of(u)' # {} => FirstOf(u)' \in Of(u)'
  BY <1>2
<1>7. \A u \in Registrations :
        Of(u)' # {} /\ u \notin early' => memberships'[FirstOf(u)'].tenant = u
  BY <1>2 DEF AccountIInv, MembershipsOK
<1>8. TokensOK'
  BY <1>2 DEF AccountIInv, TokensOK
<1> QED BY <1>3, <1>4, <1>5, <1>6, <1>7, <1>8 DEF MembershipsOK

LEMMA LinkOwnerOK ==
  ASSUME AccountAssumption, AccountIInv, NEW r \in Registrations, LinkOwner(r)
  PROVE  AccountIInv'
<1> DEFINE m == Member(r, r, "owner")
<1>1. /\ reg[r].pc = "link" /\ Go(r, "key") /\ memberships' = Append(memberships, m)
      /\ UNCHANGED <<byEmail, users, tenants, keys, login, invite, tokens, rivals, early>>
  BY DEF LinkOwner
<1>2. /\ reg' \in [Registrations -> RegStates]
      /\ reg'[r].pc = "key" /\ reg'[r].email = reg[r].email
      /\ \A q \in Registrations : q # r => reg'[q] = reg[q]
  BY <1>1, Moved DEF AccountIInv, RegistrationsOK
<1>3. RegistrationsOK'
  BY <1>1, <1>2 DEF AccountIInv, RegistrationsOK, InStore
<1>4. RivalsOK'
  BY <1>1, <1>2, StillRivals DEF Passed
<1>5. m \in Membership /\ m.user = r /\ m.tenant = r /\ r \in users /\ r \in tenants
  BY <1>1 DEF Member, Membership, AccountIInv, RegistrationsOK, InStore
<1> HIDE DEF m
<1>6. MembershipsOK' /\ TokensOK'
  BY <1>1, <1>2, <1>5, MemberAdded
<1>7. HandlersOK'
  BY <1>1 DEF AccountIInv, HandlersOK
<1>8. KeysOK'
  BY <1>1, <1>2 DEF AccountIInv, KeysOK, DefaultKeysStay
<1> QED BY <1>3, <1>4, <1>6, <1>7, <1>8 DEF AccountIInv

LEMMA StoreDefaultKeyOK ==
  ASSUME AccountAssumption, AccountIInv, NEW r \in Registrations, StoreDefaultKey(r)
  PROVE  AccountIInv'
<1>1. /\ reg[r].pc = "key" /\ Go(r, "done") /\ keys' = keys \union {[id |-> r, tenant |-> r]}
      /\ tokens' = tokens \union {[user |-> r, tenant |-> r, from |-> "register"]}
      /\ UNCHANGED <<byEmail, users, tenants, memberships, login, invite, rivals, early>>
  BY DEF StoreDefaultKey
<1>2. /\ reg' \in [Registrations -> RegStates]
      /\ reg'[r].pc = "done" /\ reg'[r].email = reg[r].email
      /\ \A q \in Registrations : q # r => reg'[q] = reg[q]
  BY <1>1, Moved DEF AccountIInv, RegistrationsOK
<1>3. RegistrationsOK'
  BY <1>1, <1>2 DEF AccountIInv, RegistrationsOK, InStore
<1>4. RivalsOK'
  BY <1>1, <1>2, StillRivals DEF Passed
<1>5. MembershipsOK'
  BY <1>1, <1>2, AccountSteady DEF AccountIInv, MembershipsOK
<1>6. HandlersOK'
  BY <1>1 DEF AccountIInv, HandlersOK
<1>7. TokensOK'
  BY <1>1, AccountSteady DEF AccountIInv, TokensOK
<1>8. KeysOK'
  <2>1. keys' \subseteq Key
    BY <1>1 DEF AccountIInv, KeysOK, Key
  <2> QED BY <1>1, <1>2, <2>1 DEF AccountIInv, KeysOK, DefaultKeysStay
<1> QED BY <1>3, <1>4, <1>5, <1>6, <1>7, <1>8 DEF AccountIInv

LEMMA FindUserOK ==
  ASSUME AccountAssumption, AccountIInv, NEW l \in Logins, NEW e \in Emails,
         NEW password \in Registrations, FindUser(l, e, password)
  PROVE  AccountIInv'
<1>1. /\ byEmail[e] = password /\ password # None
      /\ login' = [login EXCEPT ![l] = [pc |-> "member", user |-> password]]
      /\ UNCHANGED <<byEmail, users, tenants, memberships, keys, reg, invite, tokens, rivals, early>>
  BY DEF FindUser
<1>2. RegistrationsOK' /\ RivalsOK' /\ MembershipsOK'
  BY <1>1, Aside
<1>3. password \in users
  BY <1>1 DEF AccountIInv, RegistrationsOK
<1>4. HandlersOK'
  <2>1. [pc |-> "member", user |-> password] \in LoginStates
    BY DEF LoginStates
  <2>2. login' \in [Logins -> LoginStates]
    BY <1>1, <2>1 DEF AccountIInv, HandlersOK
  <2>3. \A k \in Logins : login'[k] = login[k] \/ login'[k] = [pc |-> "member", user |-> password]
    BY <1>1 DEF AccountIInv, HandlersOK
  <2> QED BY <1>1, <1>3, <2>2, <2>3 DEF AccountIInv, HandlersOK
<1>5. TokensOK' /\ KeysOK'
  BY <1>1, AccountSteady DEF AccountIInv, TokensOK, KeysOK, DefaultKeysStay
<1> QED BY <1>2, <1>4, <1>5 DEF AccountIInv

LEMMA FirstTenantOK ==
  ASSUME AccountAssumption, AccountIInv, NEW l \in Logins, FirstTenant(l)
  PROVE  AccountIInv'
<1> DEFINE user == login[l].user
           t == [user |-> user, tenant |-> memberships[FirstOf(user)].tenant, from |-> "login"]
<1>1. /\ login[l].pc = "member"
      /\ UNCHANGED <<byEmail, users, tenants, memberships, keys, reg, invite, rivals, early>>
      /\ \/ /\ Of(user) = {} /\ tokens' = tokens
            /\ login' = [login EXCEPT ![l] = [pc |-> "forbidden", user |-> user]]
         \/ /\ Of(user) # {} /\ tokens' = tokens \union {t}
            /\ login' = [login EXCEPT ![l] = Idle]
  BY DEF FirstTenant
<1>2. RegistrationsOK' /\ RivalsOK' /\ MembershipsOK'
  BY <1>1, Aside
<1>3. user \in Registrations
  BY <1>1 DEF AccountIInv, HandlersOK, RegistrationsOK
<1>4. HandlersOK'
  <2>1. [pc |-> "forbidden", user |-> user] \in LoginStates /\ Idle \in LoginStates
    BY <1>3 DEF LoginStates
  <2> HIDE DEF user
  <2>2. login' \in [Logins -> LoginStates]
    BY <1>1, <2>1 DEF AccountIInv, HandlersOK
  <2>3. \A k \in Logins : login'[k] = login[k] \/ login'[k].pc # "member"
    BY <1>1 DEF AccountIInv, HandlersOK, Idle
  <2> QED BY <1>1, <2>2, <2>3 DEF AccountIInv, HandlersOK
<1>5. TokensOK'
  <2> HIDE DEF user
  <2>1. \A s \in tokens' : s \in tokens \/ (s = t /\ Of(user) # {})
    BY <1>1
  <2>2. t.user = user /\ t.from = "login" /\ t.tenant = memberships[FirstOf(user)].tenant
    OBVIOUS
  <2> HIDE DEF t
  <2> QED BY <1>1, <1>3, <2>1, <2>2, AccountSteady DEF AccountIInv, TokensOK
<1>6. KeysOK'
  BY <1>1 DEF AccountIInv, KeysOK, DefaultKeysStay
<1> QED BY <1>2, <1>4, <1>5, <1>6 DEF AccountIInv
LEMMA FindInvitedOK ==
  ASSUME AccountAssumption, AccountIInv, NEW i \in Invitations, NEW t \in Callers, NEW e \in Emails,
         NEW role \in Roles, FindInvited(i, t, e, role)
  PROVE  AccountIInv'
<1> DEFINE m == Member(byEmail[e], t, role)
<1>1. /\ byEmail[e] # None /\ invite' = [invite EXCEPT ![i] = [pc |-> "add", member |-> m]]
      /\ UNCHANGED <<byEmail, users, tenants, memberships, keys, reg, login, tokens, rivals, early>>
  BY DEF FindInvited
<1>2. RegistrationsOK' /\ RivalsOK' /\ MembershipsOK'
  BY <1>1, Aside
<1>3. byEmail[e] \in users /\ users \subseteq Registrations
  BY <1>1 DEF AccountIInv, RegistrationsOK
<1>4. m \in Membership /\ m.user \in users /\ m.tenant \in Callers
  BY <1>3 DEF Member, Membership
<1>5. HandlersOK'
  <2> HIDE DEF m
  <2> DEFINE q == [pc |-> "add", member |-> m]
  <2>1. q \in InviteStates /\ q.member = m
    BY <1>4 DEF InviteStates
  <2> HIDE DEF q
  <2>2. invite' \in [Invitations -> InviteStates]
    BY <1>1, <2>1 DEF AccountIInv, HandlersOK, q
  <2>3. \A j \in Invitations : invite'[j] = invite[j] \/ invite'[j] = q
    BY <1>1 DEF AccountIInv, HandlersOK, q
  <2> QED BY <1>1, <1>4, <2>1, <2>2, <2>3 DEF AccountIInv, HandlersOK
<1>6. TokensOK' /\ KeysOK'
  BY <1>1, AccountSteady DEF AccountIInv, TokensOK, KeysOK, DefaultKeysStay
<1> QED BY <1>2, <1>5, <1>6 DEF AccountIInv

LEMMA AddUserOK ==
  ASSUME AccountAssumption, AccountIInv, NEW i \in Invitations, AddUser(i)
  PROVE  AccountIInv'
<1> DEFINE m == invite[i].member
<1>1. /\ invite[i].pc = "add" /\ memberships' = Append(memberships, m)
      /\ early' = IF Of(m.user) = {} THEN early \union {m.user} ELSE early
      /\ invite' = [invite EXCEPT ![i] = [pc |-> "done"]]
      /\ UNCHANGED <<byEmail, users, tenants, keys, reg, login, tokens, rivals>>
  BY DEF AddUser
<1>2. RegistrationsOK' /\ RivalsOK'
  BY <1>1 DEF AccountIInv, RegistrationsOK, RivalsOK, InStore, Passed
<1>3. m \in Membership /\ m.user \in users /\ m.tenant \in Callers
  BY <1>1 DEF AccountIInv, HandlersOK, InviteStates, Idle
<1>4. MembershipsOK' /\ TokensOK'
  <2> HIDE DEF m
  <2> QED BY <1>1, <1>3, MemberAdded
<1>5. HandlersOK'
  <2>1. [pc |-> "done"] \in InviteStates
    BY DEF InviteStates
  <2>2. invite' \in [Invitations -> InviteStates]
    BY <1>1, <2>1 DEF AccountIInv, HandlersOK
  <2>3. \A j \in Invitations : invite'[j] = invite[j] \/ invite'[j].pc # "add"
    BY <1>1 DEF AccountIInv, HandlersOK
  <2> QED BY <1>1, <2>2, <2>3 DEF AccountIInv, HandlersOK
<1>6. KeysOK'
  BY <1>1 DEF AccountIInv, KeysOK, DefaultKeysStay
<1> QED BY <1>2, <1>4, <1>5, <1>6 DEF AccountIInv

\* A caller's tenant is no registration's, so that its deletions miss the default keys.
LEMMA APIKeysOK ==
  ASSUME AccountAssumption, AccountIInv, NEW t \in Callers, NEW k \in NewKeys \union Registrations,
         \/ k \in NewKeys /\ CreateAPIKey(t, k)
         \/ DeleteAPIKey(t, k)
  PROVE  AccountIInv'
<1>1. /\ keys' = keys \union {[id |-> k, tenant |-> t]} \/ keys' = keys \ {[id |-> k, tenant |-> t]}
      /\ UNCHANGED <<byEmail, users, tenants, memberships, reg, login, invite, tokens, rivals, early>>
  BY DEF CreateAPIKey, DeleteAPIKey
<1>2. RegistrationsOK' /\ RivalsOK' /\ MembershipsOK'
  BY <1>1, Aside
<1>3. HandlersOK' /\ TokensOK'
  BY <1>1, AccountSteady DEF AccountIInv, HandlersOK, TokensOK
<1>4. KeysOK'
  <2>1. [id |-> k, tenant |-> t] \in Key
    BY DEF Key
  <2>2. ASSUME NEW r \in Registrations
        PROVE  [id |-> r, tenant |-> r] # [id |-> k, tenant |-> t]
    BY DEF AccountAssumption
  <2> QED BY <1>1, <2>1, <2>2 DEF AccountIInv, KeysOK, DefaultKeysStay
<1> QED BY <1>2, <1>3, <1>4 DEF AccountIInv

LEMMA AccountInvNext == ASSUME AccountAssumption, AccountIInv, [AccountNext]_accountVars PROVE AccountIInv'
<1>1. ASSUME NEW r \in Registrations, Register(r)
      PROVE  AccountIInv'
  BY <1>1, CheckEmailOK, CreateUserOK, CreateTenantOK, LinkOwnerOK, StoreDefaultKeyOK DEF Register
<1>2. ASSUME NEW l \in Logins,
             FirstTenant(l) \/ \E e \in Emails, password \in Registrations : FindUser(l, e, password)
      PROVE  AccountIInv'
  BY <1>2, FirstTenantOK, FindUserOK
<1>3. ASSUME NEW i \in Invitations,
             AddUser(i) \/ \E t \in Callers, e \in Emails, role \in Roles : FindInvited(i, t, e, role)
      PROVE  AccountIInv'
  BY <1>3, AddUserOK, FindInvitedOK
<1>4. ASSUME NEW t \in Callers, NEW k \in NewKeys, CreateAPIKey(t, k)
      PROVE  AccountIInv'
  BY <1>4, APIKeysOK
<1>5. ASSUME NEW t \in Callers, NEW k \in NewKeys \union Registrations, DeleteAPIKey(t, k)
      PROVE  AccountIInv'
  BY <1>5, APIKeysOK
<1>6. CASE UNCHANGED accountVars
  <2>1. RegistrationsOK' /\ RivalsOK' /\ MembershipsOK'
    BY <1>6, Aside DEF accountVars
  <2>2. HandlersOK' /\ TokensOK' /\ KeysOK'
    BY <1>6, AccountSteady DEF accountVars, AccountIInv, HandlersOK, TokensOK, KeysOK, DefaultKeysStay
  <2> QED BY <2>1, <2>2 DEF AccountIInv
<1> QED BY <1>1, <1>2, <1>3, <1>4, <1>5, <1>6 DEF AccountNext

LEMMA AccountInvariance == ASSUME AccountAssumption PROVE AccountSpec => []AccountIInv
<1>1. AccountInit => AccountIInv
  BY AccountInvInit
<1>2. AccountIInv /\ [AccountNext]_accountVars => AccountIInv'
  BY AccountInvNext
<1> QED BY <1>1, <1>2, PTL DEF AccountSpec
-----------------------------------------------------------------------------
(* The theorems *)

\* The type invariant of Account.
THEOREM AccountTypeCorrect == ASSUME AccountAssumption PROVE AccountSpec => []TypeOK
<1>1. AccountIInv => TypeOK
  BY DEF AccountIInv, RegistrationsOK, MembershipsOK, KeysOK, InStore, TypeOK
<1> QED BY <1>1, AccountInvariance, PTL

\* Two users share an address only if both registrations had passed the look-up
\* before either stored its user: no other crossing of handlers duplicates an account.
THEOREM DuplicatesAreRaces == ASSUME AccountAssumption PROVE AccountSpec => []DuplicatesOnlyFromRaces
<1>1. AccountIInv => DuplicatesOnlyFromRaces
  BY DEF AccountIInv, RegistrationsOK, RivalsOK, InStore, Passed, DuplicatesOnlyFromRaces
<1> QED BY <1>1, AccountInvariance, PTL

\* All logins of a user are for one tenant, which is that of the registration's token
\* unless an invitation came before the registration had linked the owner.
THEOREM TenantIsSettled == ASSUME AccountAssumption PROVE AccountSpec => []OneTenantPerUser
<1>1. AccountIInv => OneTenantPerUser
  <2> SUFFICES ASSUME AccountIInv, NEW s \in tokens, NEW t \in tokens, s.user = t.user
               PROVE  s.tenant = t.tenant \/ (s.from # t.from /\ s.user \in early)
    BY DEF OneTenantPerUser
  <2>1. s.user \in Registrations
        /\ (Of(s.user) # {} /\ s.user \notin early => memberships[FirstOf(s.user)].tenant = s.user)
    BY DEF AccountIInv, TokensOK, MembershipsOK
  <2>2. CASE s.from = "register" /\ t.from = "register"
    BY <2>2 DEF AccountIInv, TokensOK
  <2>3. CASE s.from # "register" /\ t.from # "register"
    BY <2>3 DEF AccountIInv, TokensOK
  <2>4. CASE s.from = "register" /\ t.from # "register"
    BY <2>1, <2>4 DEF AccountIInv, TokensOK
  <2>5. CASE s.from # "register" /\ t.from = "register"
    BY <2>1, <2>5 DEF AccountIInv, TokensOK
  <2> QED BY <2>2, <2>3, <2>4, <2>5
<1> QED BY <1>1, AccountInvariance, PTL

\* The key of a registration is never deleted by anybody's request.
THEOREM DefaultKeysAreKept == ASSUME AccountAssumption PROVE AccountSpec => []DefaultKeysStay
<1>1. AccountIInv => DefaultKeysStay
  BY DEF AccountIInv, KeysOK
<1> QED BY <1>1, AccountInvariance, PTL

\* A login that finds its user is refused only while the registration is under way.
THEOREM RefusalsAreBrief == ASSUME AccountAssumption PROVE AccountSpec => RefusedOnlyMeanwhile
<1>1. AccountIInv /\ [AccountNext]_accountVars => [RefusalOfLogin]_accountVars
  <2> SUFFICES ASSUME AccountIInv, AccountNext, NEW l \in Logins,
                      login'[l].pc = "forbidden", login[l].pc # "forbidden"
               PROVE  reg[login[l].user].pc \in {"tenant", "link"}
    BY DEF RefusalOfLogin
  <2>1. FirstTenant(l)
    <3>1. ASSUME NEW k \in Logins, NEW e \in Emails, NEW password \in Registrations,
                 FindUser(k, e, password)
          PROVE  FALSE
      BY <3>1 DEF FindUser, AccountIInv, HandlersOK
    <3>2. ASSUME NEW k \in Logins, k # l, FirstTenant(k)
          PROVE  FALSE
      BY <3>2 DEF FirstTenant, AccountIInv, HandlersOK
    <3>3. ASSUME login' = login
          PROVE  FALSE
      BY <3>3
    <3> QED BY <3>1, <3>2, <3>3
            DEF AccountNext, Register, CheckEmail, CreateUser, CreateTenant, LinkOwner, StoreDefaultKey,
                AddUser, FindInvited, CreateAPIKey, DeleteAPIKey
  <2>2. login[l].pc = "member" /\ Of(login[l].user) = {}
    BY <2>1 DEF FirstTenant, Idle, AccountIInv, HandlersOK
  <2>3. login[l].user \in users
    BY <2>2 DEF AccountIInv, HandlersOK
  <2> QED BY <2>2, <2>3 DEF AccountIInv, RegistrationsOK, MembershipsOK, InStore
<1> QED BY <1>1, AccountInvariance, PTL DEF RefusedOnlyMeanwhile, AccountSpec

-----------------------------------------------------------------------------
(* Policies *)

Known == stored \union deleted

Updating(w) == writer[w].pc = "update"

\* The functions have their domains, and updates are of policies there are or were.
Domains ==
  /\ backend \in {"memory", "postgres"}
  /\ stored \subseteq Ids /\ deleted \subseteq Ids
  /\ DOMAIN policy = Ids /\ DOMAIN intended = Ids /\ DOMAIN tenant = Ids
  /\ DOMAIN writer = Writers /\ DOMAIN reader = Readers /\ DOMAIN seen = Readers
  /\ \A w \in Writers : Updating(w) => writer[w].id \in Known

\* In memory, updates exclude one another and deletions.
Exclusive ==
  backend = "memory" =>
    /\ \A v, w \in Writers : Updating(v) /\ Updating(w) => v = w
    /\ \A w \in Writers : Updating(w) => writer[w].id \in stored

\* While updates of a policy do not overlap, it is as intended, and an update knows it.
Orderly(p) ==
  /\ policy[p] = intended[p]
  /\ \A w \in Writers : Updating(w) /\ writer[w].id = p => writer[w].read = policy[p]
  /\ \A v, w \in Writers : Updating(v) /\ writer[v].id = p /\ Updating(w) /\ writer[w].id = p => v = w

UpdatesInv ==
  /\ Domains /\ Exclusive
  /\ \A p \in stored : backend = "memory" \/ p \notin clash => Orderly(p)

LEMMA UpdatesInit == ASSUME StoreAssumption, StoreInit PROVE UpdatesInv
<1>1. \A w \in Writers : ~Updating(w)
  BY DEF StoreInit, Updating, IdleWriter
<1>2. DOMAIN policy = Ids /\ intended = policy /\ stored \subseteq Ids /\ deleted = {}
  BY DEF StoreInit, StoreAssumption
<1> QED BY <1>1, <1>2 DEF StoreInit, UpdatesInv, Domains, Exclusive, Orderly

LEMMA Unlocked ==
  ASSUME Domains, backend = "memory", ~Locked, NEW w \in Writers
  PROVE  ~Updating(w)
BY DEF Domains, Known, Locked, Updates, Updating

LEMMA UpdatesNext == ASSUME UpdatesInv, [StoreNext]_storeVars PROVE UpdatesInv'
<1>1. Domains /\ Exclusive /\ \A p \in stored : backend = "memory" \/ p \notin clash => Orderly(p)
  BY DEF UpdatesInv
<1>2. ASSUME UNCHANGED <<backend, stored, deleted, tenant, policy, writer, intended, clash>>,
             DOMAIN reader' = Readers, DOMAIN seen' = Readers
      PROVE  UpdatesInv'
  BY <1>1, <1>2 DEF UpdatesInv, Domains, Exclusive, Orderly, Known, Updating
<1>3. ASSUME NEW p \in Ids, NEW t \in Tenants, NEW a \in Actions, Create(p, t, a) PROVE UpdatesInv'
  <2>1. /\ backend' = backend /\ stored' = stored \union {p} /\ deleted' = deleted /\ p \notin Known
        /\ writer' = writer /\ clash' = clash /\ reader' = reader /\ seen' = seen /\ ~Locked
        /\ DOMAIN tenant' = Ids
    BY <1>1, <1>3 DEF Create, Known, Domains
  <2>2. /\ DOMAIN policy' = Ids /\ DOMAIN intended' = Ids /\ policy'[p] = intended'[p]
        /\ \A x \in Ids : x # p => policy'[x] = policy[x] /\ intended'[x] = intended[x]
    BY <1>1, <1>3 DEF Create, Domains
  <2>3. Domains'
    BY <1>1, <2>1, <2>2 DEF Domains, Known, Updating
  <2>4. Exclusive'
    BY <1>1, <2>1 DEF Exclusive, Updating
  <2>5. ASSUME NEW x \in stored', backend' = "memory" \/ x \notin clash' PROVE Orderly(x)'
    <3>1. CASE x = p
      <4>1. \A w \in Writers : Updating(w) => writer[w].id # p
        BY <1>1, <2>1 DEF Domains
      <4> QED BY <2>1, <2>2, <3>1, <4>1 DEF Orderly, Updating
    <3>2. CASE x # p
      <4>1. Orderly(x) /\ x \in Ids
        BY <1>1, <2>1, <2>5, <3>2 DEF Domains
      <4> QED BY <2>1, <2>2, <3>2, <4>1 DEF Orderly, Updating
    <3> QED BY <3>1, <3>2
  <2> QED BY <2>3, <2>4, <2>5 DEF UpdatesInv
<1>4. ASSUME NEW w \in Writers, NEW p \in Ids, NEW q \in Requests, BeginUpdate(w, p, q)
      PROVE  UpdatesInv'
  <2>1. /\ backend' = backend /\ stored' = stored /\ deleted' = deleted /\ policy' = policy
        /\ tenant' = tenant /\ intended' = intended /\ reader' = reader /\ ~Locked
        /\ clash' = (IF Updates(p) = {} THEN clash ELSE clash \union {p})
        /\ p \in stored /\ DOMAIN seen' = Readers /\ DOMAIN writer' = Writers
    BY <1>1, <1>4 DEF BeginUpdate, Domains
  <2>2. /\ Updating(w)' /\ writer'[w].id = p /\ writer'[w].read = policy[p]
        /\ \A v \in Writers : v # w => writer'[v] = writer[v]
    BY <1>1, <1>4 DEF BeginUpdate, Domains, Updating
  <2>3. Domains'
    BY <1>1, <2>1, <2>2 DEF Domains, Known, Updating
  <2>4. Exclusive'
    BY <1>1, <2>1, <2>2, Unlocked DEF Exclusive, Updating
  <2>5. ASSUME NEW x \in stored', backend' = "memory" \/ x \notin clash' PROVE Orderly(x)'
    <3>1. Orderly(x) /\ x \in stored
      BY <1>1, <2>1, <2>5
    <3>2. CASE x = p
      <4>1. \A v \in Writers : Updating(v) => writer[v].id # p
        <5>1. CASE backend = "memory"
          BY <1>1, <2>1, <5>1, Unlocked
        <5>2. CASE backend # "memory"
          <6>1. Updates(p) = {}
            BY <2>1, <2>5, <3>2, <5>2
          <6> QED BY <6>1 DEF Updates, Updating
        <5> QED BY <5>1, <5>2
      <4> QED BY <2>1, <2>2, <3>1, <3>2, <4>1 DEF Orderly, Updating
    <3>3. CASE x # p
      BY <2>1, <2>2, <3>1, <3>3 DEF Orderly, Updating
    <3> QED BY <3>2, <3>3
  <2> QED BY <2>3, <2>4, <2>5 DEF UpdatesInv
<1>5. ASSUME NEW w \in Writers, EndUpdate(w) PROVE UpdatesInv'
  <2> DEFINE p == writer[w].id
             fields == Updated(writer[w].read, writer[w].req)
  <2>1. /\ backend' = backend /\ stored' = stored /\ deleted' = deleted /\ tenant' = tenant
        /\ reader' = reader /\ seen' = seen /\ clash' = clash
        /\ Updating(w) /\ p \in Ids /\ DOMAIN writer' = Writers
    BY <1>1, <1>5 DEF EndUpdate, Domains, Updating, Known
  <2>2. /\ ~Updating(w)' /\ \A v \in Writers : v # w => writer'[v] = writer[v]
    BY <1>1, <1>5 DEF EndUpdate, Domains, Updating, IdleWriter
  <2>3. /\ DOMAIN policy' = Ids /\ DOMAIN intended' = Ids
        /\ \A x \in Ids : x # p => policy'[x] = policy[x] /\ intended'[x] = intended[x]
        /\ p \in stored => policy'[p] = fields
        /\ intended'[p] = Updated(intended[p], writer[w].req)
    BY <1>1, <1>5, <2>1 DEF EndUpdate, Domains
  <2>4. Domains'
    BY <1>1, <2>1, <2>2, <2>3 DEF Domains, Known, Updating
  <2>5. Exclusive'
    BY <1>1, <2>1, <2>2 DEF Exclusive, Updating
  <2>6. ASSUME NEW x \in stored', backend' = "memory" \/ x \notin clash' PROVE Orderly(x)'
    <3>1. Orderly(x) /\ x \in stored /\ x \in Ids
      BY <1>1, <2>1, <2>6 DEF Domains
    <3>2. CASE x = p
      <4>1. writer[w].read = policy[x] /\ policy[x] = intended[x]
        BY <2>1, <3>1, <3>2 DEF Orderly
      <4>2. policy'[x] = intended'[x]
        BY <2>3, <3>1, <3>2, <4>1
      <4>3. \A v \in Writers : Updating(v)' => writer'[v].id # p
        BY <2>1, <2>2, <3>1, <3>2 DEF Orderly, Updating
      <4> QED BY <3>2, <4>2, <4>3 DEF Orderly, Updating
    <3>3. CASE x # p
      BY <2>2, <2>3, <3>1, <3>3 DEF Orderly, Updating
    <3> QED BY <3>2, <3>3
  <2> QED BY <2>4, <2>5, <2>6 DEF UpdatesInv
<1>6. ASSUME NEW p \in Ids, Delete(p) PROVE UpdatesInv'
  <2>1. /\ backend' = backend /\ stored' = stored \ {p} /\ deleted' = deleted \union {p}
        /\ policy' = policy /\ tenant' = tenant /\ intended' = intended /\ reader' = reader
        /\ seen' = seen /\ clash' = clash /\ writer' = writer /\ ~Locked /\ p \in stored
    BY <1>6 DEF Delete
  <2>2. Domains'
    BY <1>1, <2>1 DEF Domains, Known, Updating
  <2>3. Exclusive'
    BY <1>1, <2>1, Unlocked DEF Exclusive, Updating
  <2> QED BY <1>1, <2>1, <2>2, <2>3 DEF UpdatesInv, Orderly, Updating
<1>7. ASSUME NEW r \in Readers, NEW t \in Tenants, NEW swap \in Swaps, NEW result \in Results,
             ListPolicies(r, t, swap, result)
      PROVE  UpdatesInv'
  BY <1>1, <1>2, <1>7 DEF ListPolicies, Domains
<1>8. ASSUME NEW r \in Readers, NEW p \in Ids, Filter(r, p) \/ Apply(r, p) PROVE UpdatesInv'
  BY <1>1, <1>2, <1>8 DEF Filter, Apply, Domains
<1>9. ASSUME NEW r \in Readers, Answer(r) PROVE UpdatesInv'
  BY <1>1, <1>2, <1>9 DEF Answer, Domains
<1>10. CASE UNCHANGED storeVars
  BY <1>1, <1>2, <1>10 DEF storeVars, Domains
<1> QED BY <1>3, <1>4, <1>5, <1>6, <1>7, <1>8, <1>9, <1>10 DEF StoreNext

\* What updates ask for is kept, except that of overlapping updates of one row in
\* PostgreSQL: the lock in memory, and the read of the whole row, see to it.
THEOREM UpdatesAreKept == ASSUME StoreAssumption PROVE StoreSpec => []UpdatesKept
<1>1. UpdatesInv => UpdatesKept
  BY DEF UpdatesInv, Domains, Orderly, UpdatesKept
<1> QED BY <1>1, UpdatesInit, UpdatesNext, PTL DEF StoreSpec
-----------------------------------------------------------------------------
(* Verdicts *)

LEMMA SeverityRange == \A v : Severity(v) \in 0 .. 3
<1>1. DOMAIN Severities = {"challenge", "review", "block"}
  BY DEF Severities
<1>2. Severities["challenge"] = 1 /\ Severities["review"] = 2 /\ Severities["block"] = 3
  BY DEF Severities
<1> QED BY <1>1, <1>2 DEF Severity

LEMMA Escalated ==
  ASSUME NEW e, NEW v
  PROVE  /\ Severity(v) <= Severity(Escalate(e, v).verdict)
         /\ Severity(e.verdict) <= Severity(Escalate(e, v).verdict)
         /\ Escalate(e, v).verdict = e.verdict \/ (Escalate(e, v).verdict = v /\ Severity(v) # 0)
<1>1. Severity(v) \in 0 .. 3 /\ Severity(e.verdict) \in 0 .. 3
  BY SeverityRange
<1>2. CASE Severity(v) > Severity(e.verdict)
  <2>1. Escalate(e, v).verdict = v
    BY <1>2 DEF Escalate
  <2> QED BY <1>1, <1>2, <2>1
<1>3. CASE ~(Severity(v) > Severity(e.verdict))
  <2>1. Escalate(e, v) = e
    BY <1>3 DEF Escalate
  <2> QED BY <1>1, <1>3, <2>1
<1> QED BY <1>2, <1>3

\* The reason for a verdict that VerdictJustified asks for.
Justified(r) ==
  LET q == reader[r] IN
  \/ q.result.verdict = EvaluateBuiltinSignals(q.request.in).verdict
  \/ \E h \in seen[r].held :
       /\ h[2] = q.result.verdict /\ h[1] \in seen[r].live /\ Swapped(q.request.in)
       /\ backend = "postgres" => tenant[h[1]] = q.request.tenant

Ahead(r) == reader[r].todo \union reader[r].matching

\* What evaluation r may still read is in its history.
Foreseen(r) ==
  /\ \A p \in Ahead(r) : backend = "postgres" => tenant[p] = reader[r].request.tenant
  /\ \A p \in Ahead(r) : \A a \in ActionRead(reader[r], p) : a # Torn => <<p, a>> \in seen[r].held
  /\ \A p \in reader[r].todo : \A a \in ActiveRead(reader[r], p) : a => p \in seen[r].live
  /\ reader[r].matching \subseteq seen[r].live

\* A steady policy is going to be read as it is, or has had its effect.
Steady(r) ==
  \A h \in seen[r].steady :
    \/ /\ h[1] \in reader[r].todo
       /\ \A a \in ActiveRead(reader[r], h[1]) : a
       /\ \A a \in ActionRead(reader[r], h[1]) : a = h[2]
    \/ h[1] \in reader[r].matching /\ \A a \in ActionRead(reader[r], h[1]) : a = h[2]
    \/ Severity(h[2]) <= Severity(reader[r].result.verdict)

Sound(r) ==
  /\ Ahead(r) \subseteq Known
  /\ \A h \in seen[r].held : h[1] \in Known
  /\ \A h \in seen[r].steady : h[1] \in Known
  /\ Justified(r) /\ Foreseen(r) /\ Steady(r)

ReadersInv == \A r \in Readers : reader[r].pc = "busy" => Sound(r)

\* Steps that bring an evaluation nothing new to read do not disturb it.
LEMMA Frame ==
  ASSUME NEW r, Sound(r), reader'[r] = reader[r], seen'[r] = seen[r],
         backend' = backend, Known \subseteq Known',
         \A p \in Known : tenant'[p] = tenant[p],
         \A p \in Known : ActionRead(reader[r], p)' \subseteq ActionRead(reader[r], p),
         \A p \in Known : ActiveRead(reader[r], p)' \subseteq ActiveRead(reader[r], p)
  PROVE  Sound(r)'
<1> USE DEF Ahead
<1>1. Justified(r)'
  BY DEF Sound, Justified
<1>2. Foreseen(r)'
  BY DEF Sound, Foreseen
<1>3. Steady(r)'
  BY DEF Sound, Steady
<1> HIDE DEF Known
<1> QED BY <1>1, <1>2, <1>3 DEF Sound

\* Until an update ends a read finds what was there or what the update writes, and
\* afterwards what it has written.
LEMMA EndReads ==
  ASSUME UpdatesInv, NEW w \in Writers, EndUpdate(w), NEW r, NEW p \in Known
  PROVE  /\ ActionRead(reader[r], p)' \subseteq ActionRead(reader[r], p)
         /\ ActiveRead(reader[r], p)' \subseteq ActiveRead(reader[r], p)
<1>1. Domains /\ Exclusive /\ p \in Ids /\ backend' = backend /\ stored' = stored /\ reader' = reader
  BY DEF UpdatesInv, Domains, Known, EndUpdate
<1>2. CASE backend = "postgres"
  BY <1>1, <1>2 DEF ActionRead, ActiveRead
<1>3. CASE backend # "postgres"
  <2> DEFINE x == writer[w].id
             new == Updated(policy[x], writer[w].req)
  <2>1. backend = "memory" /\ Updating(w) /\ x \in stored /\ x \in Ids
    BY <1>1, <1>3 DEF Domains, Exclusive, EndUpdate, Updating
  <2>2. writer[w].read = policy[x]
    BY <2>1 DEF UpdatesInv, Orderly
  <2>3. \A v \in Writers : Updating(v) => v = w
    BY <1>1, <2>1 DEF Exclusive
  <2>4. /\ \A v \in Writers : ~Updating(v)'
        /\ \A y \in Ids : policy'[y] = IF y = x THEN new ELSE policy[y]
    BY <1>1, <2>1, <2>2, <2>3 DEF EndUpdate, Domains, Updating, IdleWriter
  <2>5. Updates(p)' = {}
    BY <2>4 DEF Updates, Updating
  <2>6. /\ ActionRead(reader[r], p)' = {policy'[p].action}
        /\ ActiveRead(reader[r], p)' = {policy'[p].active}
    BY <1>1, <1>3, <2>5 DEF ActionRead, ActiveRead
  <2>7. CASE p # x
    <3>1. policy'[p] = policy[p]
      BY <1>1, <2>4, <2>7
    <3> QED BY <1>3, <2>6, <3>1 DEF ActionRead, ActiveRead
  <2>8. CASE p = x
    <3>1. w \in Updates(p) /\ policy'[p] = new
      BY <2>1, <2>4, <2>8 DEF Updates, Updating
    <3>2. new.active \in ActiveRead(reader[r], p)
      BY <1>3, <2>8, <3>1 DEF ActiveRead
    <3>3. new.action \in ActionRead(reader[r], p)
      BY <1>3, <2>8, <3>1 DEF ActionRead
    <3> QED BY <2>6, <3>1, <3>2, <3>3
  <2> QED BY <2>7, <2>8
<1> QED BY <1>2, <1>3

\* Other policies are read as before.
LEMMA SameReads ==
  ASSUME backend' = backend, NEW r, reader'[r] = reader[r], NEW p, policy'[p] = policy[p],
         backend = "postgres" \/ Updates(p)' = Updates(p),
         \A w \in Updates(p) : writer'[w] = writer[w]
  PROVE  /\ ActionRead(reader[r], p)' = ActionRead(reader[r], p)
         /\ ActiveRead(reader[r], p)' = ActiveRead(reader[r], p)
<1>1. CASE backend = "postgres"
  BY <1>1 DEF ActionRead, ActiveRead
<1>2. CASE backend # "postgres"
  BY <1>2 DEF ActionRead, ActiveRead
<1> QED BY <1>1, <1>2

\* What an update may write is put into the history of the evaluations under way.
LEMMA BeginOK ==
  ASSUME UpdatesInv, ReadersInv,
         NEW w \in Writers, NEW p \in Ids, NEW req \in Requests, BeginUpdate(w, p, req),
         NEW r \in Readers, reader'[r].pc = "busy"
  PROVE  Sound(r)'
<1> DEFINE q == reader[r]
           new == Updated(policy[p], req)
           m == seen[r]
<1>1. /\ Domains /\ Exclusive /\ reader' = reader /\ backend' = backend /\ policy' = policy
      /\ tenant' = tenant /\ stored' = stored /\ deleted' = deleted /\ p \in stored
      /\ Known' = Known /\ p \in Known /\ ~Locked
  BY DEF UpdatesInv, BeginUpdate, Known
<1>2. Sound(r)
  BY <1>1 DEF ReadersInv
<1>3. \A v \in Writers : v # w => writer'[v] = writer[v]
  BY <1>1 DEF BeginUpdate, Domains
<1>4. /\ Updating(w)' /\ writer'[w].id = p /\ writer'[w].req = req /\ writer[w] = IdleWriter
  BY <1>1 DEF BeginUpdate, Domains, Updating
<1>5. CASE backend = "postgres"
  <2>1. seen'[r] = seen[r]
    BY <1>5 DEF BeginUpdate
  <2>2. \A x : /\ ActionRead(reader[r], x)' = ActionRead(reader[r], x)
               /\ ActiveRead(reader[r], x)' = ActiveRead(reader[r], x)
    BY <1>1, <1>5 DEF ActionRead, ActiveRead
  <2> QED BY <1>1, <1>2, <2>1, <2>2, Frame
<1>6. CASE backend = "memory"
  <2>1. reader[r] # IdleReader
    BY <1>1 DEF IdleReader
  <2>2. /\ seen'[r].live = IF new.active THEN m.live \union {p} ELSE m.live
        /\ seen'[r].steady = {h \in m.steady : h[1] # p}
        /\ seen'[r].held = m.held \union {<<p, new.action>>}
    BY <1>6, <2>1 DEF BeginUpdate
  <2>3. /\ Updates(p)' = {w} /\ \A x : x # p => Updates(x)' = {}
        /\ \A x : Updates(x) = {}
    BY <1>1, <1>3, <1>4, <1>6, Unlocked DEF Updates, Updating
  <2>4. /\ \A a \in ActionRead(q, p)' : a \in {policy[p].action, new.action, Torn}
        /\ \A a \in ActiveRead(q, p)' : a = policy[p].active \/ a = new.active
    BY <1>1, <1>4, <1>6, <2>3 DEF ActionRead, ActiveRead
  <2>5. policy[p].action \in ActionRead(q, p) /\ policy[p].active \in ActiveRead(q, p)
    BY <1>6 DEF ActionRead, ActiveRead
  <2>6. \A x : x # p => /\ ActionRead(reader[r], x)' = ActionRead(reader[r], x)
                        /\ ActiveRead(reader[r], x)' = ActiveRead(reader[r], x)
    BY <1>1, <2>3, SameReads
  <2> HIDE DEF new, m
  <2>7. Justified(r)'
    BY <1>1, <1>2, <2>2 DEF Sound, Justified, m
  <2>8. Foreseen(r)'
    <3>1. \A x \in Ahead(r)' : \A a \in ActionRead(reader[r], x)' : a # Torn => <<x, a>> \in seen'[r].held
      BY <1>1, <1>2, <2>2, <2>4, <2>5, <2>6 DEF Sound, Foreseen, Ahead, m
    <3>2. \A x \in reader[r].todo : \A a \in ActiveRead(reader[r], x)' : a => x \in seen'[r].live
      BY <1>1, <1>2, <2>2, <2>4, <2>5, <2>6 DEF Sound, Foreseen, m
    <3>3. reader[r].matching \subseteq seen'[r].live
      BY <1>2, <2>2 DEF Sound, Foreseen, m
    <3>4. \A x \in Ahead(r)' : backend' = "postgres" => tenant'[x] = reader'[r].request.tenant
      BY <1>1, <1>6
    <3> QED BY <1>1, <3>1, <3>2, <3>3, <3>4 DEF Foreseen
  <2>9. Steady(r)'
    BY <1>1, <1>2, <2>2, <2>6 DEF Sound, Steady, m
  <2>10. (\A h \in seen[r].held : h[1] \in Known)' /\ (\A h \in seen[r].steady : h[1] \in Known)'
    BY <1>1, <1>2, <2>2 DEF Sound, m
  <2>11. (Ahead(r) \subseteq Known)'
    BY <1>1, <1>2 DEF Sound, Ahead
  <2> HIDE DEF Known
  <2> QED BY <2>7, <2>8, <2>9, <2>10, <2>11 DEF Sound
<1> QED BY <1>1, <1>5, <1>6 DEF Domains

\* Creations, deletions and the ends of updates.
LEMMA StoreOK ==
  ASSUME UpdatesInv, ReadersInv, NEW r \in Readers, reader'[r].pc = "busy",
         \/ \E p \in Ids, t \in Tenants, a \in Actions : Create(p, t, a)
         \/ \E p \in Ids : Delete(p)
         \/ \E w \in Writers : EndUpdate(w)
  PROVE  Sound(r)'
<1>1. Domains
  BY DEF UpdatesInv
<1>2. ASSUME NEW p \in Ids, NEW t \in Tenants, NEW a \in Actions, Create(p, t, a) PROVE Sound(r)'
  <2>1. /\ reader' = reader /\ seen' = seen /\ backend' = backend /\ writer' = writer
        /\ Known' = Known \union {p} /\ p \notin Known
    BY <1>2 DEF Create, Known
  <2>2. \A x \in Known : tenant'[x] = tenant[x] /\ policy'[x] = policy[x]
    BY <1>1, <1>2, <2>1 DEF Create, Domains, Known
  <2>3. \A x \in Known : /\ ActionRead(reader[r], x)' = ActionRead(reader[r], x)
                         /\ ActiveRead(reader[r], x)' = ActiveRead(reader[r], x)
    BY <2>1, <2>2, SameReads DEF Updates
  <2>4. Sound(r)
    BY <2>1 DEF ReadersInv
  <2> QED BY <2>1, <2>2, <2>3, <2>4, Frame
<1>3. ASSUME NEW p \in Ids, Delete(p) PROVE Sound(r)'
  <2>1. /\ reader' = reader /\ seen' = seen /\ backend' = backend /\ writer' = writer
        /\ Known' = Known /\ tenant' = tenant /\ policy' = policy
    BY <1>3 DEF Delete, Known
  <2>2. \A x \in Known : /\ ActionRead(reader[r], x)' = ActionRead(reader[r], x)
                         /\ ActiveRead(reader[r], x)' = ActiveRead(reader[r], x)
    BY <2>1, SameReads DEF Updates
  <2>3. Sound(r)
    BY <2>1 DEF ReadersInv
  <2> QED BY <2>1, <2>2, <2>3, Frame
<1>4. ASSUME NEW w \in Writers, EndUpdate(w) PROVE Sound(r)'
  <2>1. /\ reader' = reader /\ seen' = seen /\ backend' = backend /\ tenant' = tenant
        /\ Known' = Known
    BY <1>4 DEF EndUpdate, Known
  <2>2. Sound(r)
    BY <2>1 DEF ReadersInv
  <2>3. \A x \in Known : /\ ActionRead(reader[r], x)' \subseteq ActionRead(reader[r], x)
                         /\ ActiveRead(reader[r], x)' \subseteq ActiveRead(reader[r], x)
    BY <1>4, EndReads
  <2> QED BY <2>1, <2>2, <2>3, Frame
<1> QED BY <1>2, <1>3, <1>4

\* An evaluation begins with the policies as they are.
LEMMA ListOK ==
  ASSUME UpdatesInv, NEW r \in Readers, NEW t \in Tenants, NEW swap \in Swaps, NEW result \in Results,
         ListPolicies(r, t, swap, result)
  PROVE  Sound(r)'
<1>1. /\ Domains /\ ~Locked /\ backend' = backend /\ stored' = stored /\ deleted' = deleted
      /\ policy' = policy /\ writer' = writer /\ tenant' = tenant
  BY DEF UpdatesInv, ListPolicies
<1>2. PICK list \in Brought(t) :
        /\ reader'[r] = [pc |-> "busy", todo |-> list, matching |-> {},
             result |-> EvaluateBuiltinSignals(Input(swap, result)),
             request |-> [tenant |-> t, in |-> Input(swap, result), copy |->
               IF backend = "postgres" THEN [p \in list |-> policy[p]] ELSE << >>]]
        /\ seen'[r] = [live |-> {p \in list : policy[p].active},
             steady |-> {h \in {<<p, policy[p].action>> : p \in list} : policy[h[1]].active},
             held |-> {<<p, policy[p].action>> : p \in list}]
  BY <1>1 DEF ListPolicies, Domains
<1>3. list \subseteq stored /\ (backend = "postgres" => \A p \in list : tenant[p] = t)
  BY <1>1 DEF Brought, Listed, Domains
<1>4. /\ reader'[r].todo = list /\ reader'[r].matching = {} /\ reader'[r].request.tenant = t
      /\ reader'[r].result.verdict = EvaluateBuiltinSignals(reader'[r].request.in).verdict
      /\ backend = "postgres" => reader'[r].request.copy = [p \in list |-> policy[p]]
  BY <1>2
<1>5. ASSUME NEW p \in list
      PROVE  ActionRead(reader[r], p)' = {policy[p].action} /\ ActiveRead(reader[r], p)' = {policy[p].active}
  <2>1. CASE backend = "postgres"
    BY <1>1, <1>4, <2>1 DEF ActionRead, ActiveRead
  <2>2. CASE backend = "memory"
    <3>1. Updates(p)' = {}
      BY <1>1, <2>2, Unlocked DEF Updates, Updating
    <3> QED BY <1>1, <2>2, <3>1 DEF ActionRead, ActiveRead
  <2> QED BY <1>1, <2>1, <2>2 DEF Domains
<1>6. /\ seen'[r].live = {p \in list : policy[p].active}
      /\ \A p \in list : <<p, policy[p].action>> \in seen'[r].held
      /\ \A h \in seen'[r].held : \E p \in list : h = <<p, policy[p].action>>
      /\ \A h \in seen'[r].steady : \E p \in list : h = <<p, policy[p].action>> /\ policy[p].active
  BY <1>2
<1>7. (Ahead(r) \subseteq Known)' /\ (\A h \in seen[r].held : h[1] \in Known)'
      /\ (\A h \in seen[r].steady : h[1] \in Known)'
  BY <1>1, <1>3, <1>4, <1>6 DEF Ahead, Known
<1>8. Justified(r)'
  BY <1>4 DEF Justified
<1>9. Foreseen(r)'
  <2>1. \A p \in Ahead(r)' : p \in list
    BY <1>4 DEF Ahead
  <2>2. \A p \in list : \A a \in ActionRead(reader[r], p)' : <<p, a>> \in seen'[r].held
    BY <1>5, <1>6
  <2>3. \A p \in list : \A a \in ActiveRead(reader[r], p)' : a => p \in seen'[r].live
    BY <1>5, <1>6
  <2> QED BY <1>1, <1>3, <1>4, <2>1, <2>2, <2>3 DEF Foreseen
<1>10. Steady(r)'
  <2> SUFFICES ASSUME NEW h \in seen'[r].steady
               PROVE  /\ h[1] \in reader'[r].todo
                      /\ \A a \in ActiveRead(reader[r], h[1])' : a
                      /\ \A a \in ActionRead(reader[r], h[1])' : a = h[2]
    BY DEF Steady
  <2>1. PICK p \in list : h = <<p, policy[p].action>> /\ policy[p].active
    BY <1>6
  <2>2. h[1] = p /\ h[2] = policy[p].action
    BY <2>1
  <2> QED BY <1>4, <1>5, <2>1, <2>2
<1> HIDE DEF Known
<1> QED BY <1>7, <1>8, <1>9, <1>10 DEF Sound

LEMMA FilterOK ==
  ASSUME UpdatesInv, ReadersInv, NEW r \in Readers, NEW p \in Ids, Filter(r, p)
  PROVE  Sound(r)'
<1> DEFINE q == reader[r]
<1>1. /\ Domains /\ backend' = backend /\ stored' = stored /\ deleted' = deleted
      /\ policy' = policy /\ writer' = writer /\ tenant' = tenant /\ seen' = seen /\ Known' = Known
      /\ Sound(r) /\ p \in q.todo
  BY DEF UpdatesInv, Filter, ReadersInv, Known
<1>2. PICK active \in ActiveRead(q, p) :
        reader'[r] = [pc |-> "busy", todo |-> q.todo \ {p},
          matching |-> IF active THEN q.matching \union {p} ELSE q.matching,
          result |-> q.result, request |-> q.request]
  BY <1>1 DEF Filter, Domains
<1>3. /\ reader'[r].todo = q.todo \ {p} /\ reader'[r].result = q.result /\ reader'[r].request = q.request
      /\ reader'[r].matching = IF active THEN q.matching \union {p} ELSE q.matching
  BY <1>2
<1>4. \A x : /\ ActionRead(reader[r], x)' = ActionRead(reader[r], x)
             /\ ActiveRead(reader[r], x)' = ActiveRead(reader[r], x)
  BY <1>1, <1>3 DEF ActionRead, ActiveRead, Updates
<1>5. Ahead(r)' \subseteq Ahead(r)
  BY <1>1, <1>3 DEF Ahead
<1>6. Justified(r)'
  BY <1>1, <1>3 DEF Sound, Justified
<1>7. Foreseen(r)'
  <2>1. Foreseen(r) /\ (active => p \in seen[r].live)
    BY <1>1 DEF Sound, Foreseen
  <2> QED BY <1>1, <1>3, <1>4, <1>5, <2>1 DEF Foreseen
<1>8. Steady(r)'
  <2> SUFFICES ASSUME NEW h \in seen[r].steady
               PROVE  \/ /\ h[1] \in reader'[r].todo
                         /\ \A a \in ActiveRead(reader[r], h[1]) : a
                         /\ \A a \in ActionRead(reader[r], h[1]) : a = h[2]
                      \/ h[1] \in reader'[r].matching /\ \A a \in ActionRead(reader[r], h[1]) : a = h[2]
                      \/ Severity(h[2]) <= Severity(reader'[r].result.verdict)
    BY <1>1, <1>4 DEF Steady
  <2> QED BY <1>1, <1>2, <1>3 DEF Sound, Steady
<1>9. (Ahead(r) \subseteq Known)' /\ (\A h \in seen[r].held : h[1] \in Known)'
      /\ (\A h \in seen[r].steady : h[1] \in Known)'
  BY <1>1, <1>5 DEF Sound
<1> HIDE DEF Known
<1> QED BY <1>6, <1>7, <1>8, <1>9 DEF Sound

\* The action of a steady policy counts; a torn one does not.
LEMMA ApplyOK ==
  ASSUME StoreAssumption, UpdatesInv, ReadersInv, NEW r \in Readers, NEW p \in Ids, Apply(r, p)
  PROVE  Sound(r)'
<1> DEFINE q == reader[r]
<1>1. /\ Domains /\ backend' = backend /\ stored' = stored /\ deleted' = deleted
      /\ policy' = policy /\ writer' = writer /\ tenant' = tenant /\ seen' = seen /\ Known' = Known
      /\ Sound(r) /\ q.todo = {} /\ p \in q.matching /\ Swapped(q.request.in)
  BY DEF UpdatesInv, Apply, ReadersInv, Known
<1>2. PICK a \in ActionRead(q, p) :
        reader'[r] = [pc |-> "busy", todo |-> {}, matching |-> q.matching \ {p},
          result |-> Escalate(q.result, a), request |-> q.request]
  BY <1>1 DEF Apply, Domains
<1>3. /\ reader'[r].todo = {} /\ reader'[r].result = Escalate(q.result, a)
      /\ reader'[r].request = q.request /\ reader'[r].matching = q.matching \ {p}
  BY <1>2
<1>4. \A x : /\ ActionRead(reader[r], x)' = ActionRead(reader[r], x)
             /\ ActiveRead(reader[r], x)' = ActiveRead(reader[r], x)
  BY <1>1, <1>3 DEF ActionRead, ActiveRead, Updates
<1>5. /\ Severity(a) <= Severity(reader'[r].result.verdict)
      /\ Severity(q.result.verdict) <= Severity(reader'[r].result.verdict)
      /\ \/ reader'[r].result.verdict = q.result.verdict
         \/ reader'[r].result.verdict = a /\ Severity(a) # 0
  BY <1>3, Escalated
<1>6. Ahead(r)' \subseteq Ahead(r)
  BY <1>1, <1>3 DEF Ahead
<1>7. Justified(r)'
  <2>1. CASE reader'[r].result.verdict = q.result.verdict
    BY <1>1, <1>3, <2>1 DEF Sound, Justified
  <2>2. CASE reader'[r].result.verdict = a /\ Severity(a) # 0
    <3>1. a # Torn
      BY <2>2 DEF Severity, StoreAssumption
    <3>2. p \in Ahead(r) /\ p \in seen[r].live /\ Foreseen(r)
      BY <1>1 DEF Sound, Foreseen, Ahead
    <3>3. <<p, a>> \in seen[r].held /\ (backend = "postgres" => tenant[p] = q.request.tenant)
      BY <1>1, <3>1, <3>2 DEF Foreseen
    <3>4. <<p, a>>[1] = p /\ <<p, a>>[2] = a
      OBVIOUS
    <3> QED BY <1>1, <1>3, <2>2, <3>2, <3>3, <3>4 DEF Justified
  <2> QED BY <1>5, <2>1, <2>2
<1>8. Foreseen(r)'
  BY <1>1, <1>3, <1>4, <1>6 DEF Sound, Foreseen
<1>9. Steady(r)'
  <2> SUFFICES ASSUME NEW h \in seen[r].steady
               PROVE  \/ h[1] \in reader'[r].matching /\ \A b \in ActionRead(reader[r], h[1]) : b = h[2]
                      \/ Severity(h[2]) <= Severity(reader'[r].result.verdict)
    BY <1>1, <1>4 DEF Steady
  <2>1. \/ h[1] \in q.matching /\ \A b \in ActionRead(reader[r], h[1]) : b = h[2]
        \/ Severity(h[2]) <= Severity(q.result.verdict)
    BY <1>1 DEF Sound, Steady
  <2>2. CASE h[1] = p /\ \A b \in ActionRead(reader[r], h[1]) : b = h[2]
    BY <1>2, <1>5, <2>2
  <2>3. CASE h[1] # p /\ h[1] \in q.matching /\ \A b \in ActionRead(reader[r], h[1]) : b = h[2]
    BY <1>3, <2>3
  <2>4. CASE Severity(h[2]) <= Severity(q.result.verdict)
    <3>1. /\ Severity(h[2]) \in 0 .. 3 /\ Severity(q.result.verdict) \in 0 .. 3
          /\ Severity(reader'[r].result.verdict) \in 0 .. 3
      BY SeverityRange
    <3> QED BY <1>5, <2>4, <3>1
  <2> QED BY <2>1, <2>2, <2>3, <2>4
<1>10. (Ahead(r) \subseteq Known)' /\ (\A h \in seen[r].held : h[1] \in Known)'
       /\ (\A h \in seen[r].steady : h[1] \in Known)'
  BY <1>1, <1>6 DEF Sound
<1> HIDE DEF Known
<1> QED BY <1>7, <1>8, <1>9, <1>10 DEF Sound
-----------------------------------------------------------------------------
(* The theorems about verdicts *)

StoreIInv == UpdatesInv /\ ReadersInv

LEMMA StoreInvInit == ASSUME StoreAssumption, StoreInit PROVE StoreIInv
BY UpdatesInit DEF StoreInit, StoreIInv, ReadersInv, IdleReader

LEMMA StoreInvNext == ASSUME StoreAssumption, StoreIInv, [StoreNext]_storeVars PROVE StoreIInv'
<1>1. UpdatesInv /\ ReadersInv /\ Domains /\ UpdatesInv'
  BY UpdatesNext DEF StoreIInv, UpdatesInv
<1>2. ASSUME NEW r \in Readers, reader'[r].pc = "busy" PROVE Sound(r)'
  <2>1. CASE UNCHANGED storeVars
    <3>1. /\ reader' = reader /\ seen' = seen /\ backend' = backend /\ writer' = writer
          /\ Known' = Known /\ tenant' = tenant /\ policy' = policy
      BY <2>1 DEF storeVars, Known
    <3>2. \A x \in Known : /\ ActionRead(reader[r], x)' = ActionRead(reader[r], x)
                           /\ ActiveRead(reader[r], x)' = ActiveRead(reader[r], x)
      BY <3>1, SameReads DEF Updates
    <3>3. Sound(r)
      BY <1>1, <1>2, <3>1 DEF ReadersInv
    <3> QED BY <3>1, <3>2, <3>3, Frame
  <2>2. CASE \/ \E p \in Ids, t \in Tenants, a \in Actions : Create(p, t, a)
             \/ \E p \in Ids : Delete(p)
             \/ \E w \in Writers : EndUpdate(w)
    BY <1>1, <1>2, <2>2, StoreOK
  <2>3. ASSUME NEW w \in Writers, NEW p \in Ids, NEW q \in Requests, BeginUpdate(w, p, q)
        PROVE  Sound(r)'
    BY <1>1, <1>2, <2>3, BeginOK
  <2>4. ASSUME NEW x \in Readers, reader'[r] = reader[r], seen'[r] = seen[r],
               UNCHANGED <<backend, stored, tenant, policy, writer, writes, intended, clash, deleted>>
        PROVE  Sound(r)'
    <3>1. Known' = Known
      BY <2>4 DEF Known
    <3>2. \A y \in Known : /\ ActionRead(reader[r], y)' = ActionRead(reader[r], y)
                           /\ ActiveRead(reader[r], y)' = ActiveRead(reader[r], y)
      BY <2>4, SameReads DEF Updates
    <3>3. Sound(r)
      BY <1>1, <1>2, <2>4 DEF ReadersInv
    <3> QED BY <2>4, <3>1, <3>2, <3>3, Frame
  <2>5. ASSUME NEW x \in Readers, NEW t \in Tenants, NEW swap \in Swaps, NEW result \in Results,
               ListPolicies(x, t, swap, result)
        PROVE  Sound(r)'
    <3>1. CASE x = r
      BY <1>1, <2>5, <3>1, ListOK
    <3>2. CASE x # r
      <4>1. /\ reader'[r] = reader[r] /\ seen'[r] = seen[r]
            /\ UNCHANGED <<backend, stored, tenant, policy, writer, writes, intended, clash, deleted>>
        BY <1>1, <2>5, <3>2 DEF ListPolicies, Domains
      <4> QED BY <2>4, <4>1
    <3> QED BY <3>1, <3>2
  <2>6. ASSUME NEW x \in Readers, NEW p \in Ids, Filter(x, p) \/ Apply(x, p) PROVE Sound(r)'
    <3>1. CASE x = r
      BY <1>1, <2>6, <3>1, FilterOK, ApplyOK
    <3>2. CASE x # r
      <4>1. /\ reader'[r] = reader[r] /\ seen'[r] = seen[r]
            /\ UNCHANGED <<backend, stored, tenant, policy, writer, writes, intended, clash, deleted>>
        BY <1>1, <2>6, <3>2 DEF Filter, Apply, Domains
      <4> QED BY <2>4, <4>1
    <3> QED BY <3>1, <3>2
  <2>7. ASSUME NEW x \in Readers, Answer(x) PROVE Sound(r)'
    <3>1. CASE x = r
      BY <1>1, <1>2, <2>7, <3>1 DEF Answer, Domains, IdleReader
    <3>2. CASE x # r
      <4>1. /\ reader'[r] = reader[r] /\ seen'[r] = seen[r]
            /\ UNCHANGED <<backend, stored, tenant, policy, writer, writes, intended, clash, deleted>>
        BY <1>1, <2>7, <3>2 DEF Answer, Domains
      <4> QED BY <2>4, <4>1
    <3> QED BY <3>1, <3>2
  <2> QED BY <2>1, <2>2, <2>3, <2>5, <2>6, <2>7 DEF StoreNext
<1> QED BY <1>1, <1>2 DEF StoreIInv, ReadersInv

LEMMA StoreInvariance == ASSUME StoreAssumption PROVE StoreSpec => []StoreIInv
BY StoreInvInit, StoreInvNext, PTL DEF StoreSpec

\* A policy nobody touches during an evaluation is obeyed, whatever other policies are
\* written, created or deleted meanwhile, and in whatever order the map yields them.
THEOREM SteadyPoliciesObeyed == ASSUME StoreAssumption PROVE StoreSpec => []PolicyRespected
<1>1. StoreIInv => PolicyRespected
  <2> SUFFICES ASSUME StoreIInv, NEW r \in Readers, Finished(r), Swapped(reader[r].request.in),
                      NEW h \in seen[r].steady
               PROVE  Severity(h[2]) <= Severity(reader[r].result.verdict)
    BY DEF PolicyRespected, Verdict
  <2> QED BY DEF StoreIInv, ReadersInv, Sound, Steady, Finished
<1> QED BY <1>1, StoreInvariance, PTL

\* No verdict is harsher than the signals and the policies that could be read account for.
THEOREM VerdictsAreJustified == ASSUME StoreAssumption PROVE StoreSpec => []VerdictJustified
<1>1. StoreIInv => VerdictJustified
  BY DEF StoreIInv, ReadersInv, Sound, Justified, Finished, VerdictJustified, Verdict
<1> QED BY <1>1, StoreInvariance, PTL
=============================================================================
