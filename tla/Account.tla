------------------------------ MODULE Account ------------------------------
(***************************************************************************)
(* Registration, login, invitations and API keys (handler/account.go),     *)
(* with their stores, which are always in memory.  Handlers take the lock  *)
(* of a store for one call at a time; everything happens between calls.    *)
(* Each registration makes a user and a tenant, named after the request.   *)
(* Requests with an API key come from the tenants that middleware/auth.go  *)
(* finds in the tenant repository, where registration stores nothing.      *)
(***************************************************************************)
EXTENDS Integers, Sequences

CONSTANTS
  Registrations, Emails,
  Callers,       \* tenants of the tenant repository, that API keys resolve to
  NewKeys,       \* API keys created later
  Roles,         \* roles invitations give
  Logins, Invitations,   \* goroutines
  None

\* Users are no tenants of the tenant repository, and ids of keys are drawn once.
AccountAssumption ==
  /\ Registrations \intersect (Callers \union NewKeys) = {}
  /\ None \notin Registrations

VARIABLES
  byEmail,       \* byEmail[e]: the user found under an address
  users,         \* users by id
  tenants,       \* tenants stored by registrations
  memberships,   \* the list of memberships
  keys,          \* the API keys
  reg,           \* what each registration is doing
  login,         \* what each login is doing
  invite,        \* what each invitation is doing
  tokens,        \* history: the tokens given out
  rivals,        \* history: rivals[r], registrations of r's address that had passed
                 \* the check and not stored their user when r passed it
  early          \* history: users invited before they belonged to their own tenant

accountVars == <<byEmail, users, tenants, memberships, keys, reg, login, invite, tokens,
                 rivals, early>>

Idle == [pc |-> "idle"]

Membership == [user : Registrations, tenant : Registrations \union Callers,
               role : Roles \union {"owner"}]
Key == [id : Registrations \union NewKeys, tenant : Registrations \union Callers]

TypeOK ==
  /\ byEmail \in [Emails -> users \union {None}]
  /\ users \subseteq Registrations
  /\ tenants \subseteq users
  /\ memberships \in Seq(Membership)
  /\ \A i \in DOMAIN memberships :
       memberships[i].user \in users /\ memberships[i].tenant \in tenants \union Callers
  /\ keys \subseteq Key

AccountInit ==
  /\ byEmail = [e \in Emails |-> None]
  /\ users = {} /\ tenants = {}
  /\ memberships = << >> /\ keys = {}
  /\ reg = [r \in Registrations |-> Idle]
  /\ login = [l \in Logins |-> Idle]
  /\ invite = [i \in Invitations |-> Idle]
  /\ tokens = {}
  /\ rivals = [r \in Registrations |-> {}]
  /\ early = {}
-----------------------------------------------------------------------------
(* Register *)

Go(r, pc) == reg' = [reg EXCEPT ![r].pc = pc]

\* (Definitions named Bug_... are plausible mistakes, which the properties must catch.)
\* Two registrations at once refused, but not the second after the first.
Bug_CheckEmail(r, e) ==
  /\ reg[r] = Idle
  /\ \A q \in Registrations : reg[q].pc = "hash" => reg[q].email # e
  /\ reg' = [reg EXCEPT ![r] = [pc |-> "hash", email |-> e]]
  /\ UNCHANGED <<byEmail, users, tenants, memberships, keys, login, invite, tokens, rivals, early>>

\* The address is looked up; a conflict ends the request.  Then the password is hashed.
CheckEmail(r, e) ==
  /\ reg[r] = Idle
  /\ reg' = [reg EXCEPT ![r] = [pc |-> IF byEmail[e] = None THEN "hash" ELSE "conflict", email |-> e]]
  /\ rivals' = [rivals EXCEPT ![r] =
       {q \in Registrations : reg[q].pc = "hash" /\ reg[q].email = e}]
  /\ UNCHANGED <<byEmail, users, tenants, memberships, keys, login, invite, tokens, early>>

\* The user is stored under its id and, whoever is there, under its address.
CreateUser(r) ==
  /\ reg[r].pc = "hash"
  /\ byEmail' = [byEmail EXCEPT ![reg[r].email] = r]
  /\ users' = users \union {r}
  /\ Go(r, "tenant")
  /\ UNCHANGED <<tenants, memberships, keys, login, invite, tokens, rivals, early>>

CreateTenant(r) ==
  /\ reg[r].pc = "tenant"
  /\ tenants' = tenants \union {r}
  /\ Go(r, "link")
  /\ UNCHANGED <<byEmail, users, memberships, keys, login, invite, tokens, rivals, early>>

Member(user, t, role) == [user |-> user, tenant |-> t, role |-> role]

\* The owner is linked by the key alone.
Bug_LinkOwner(r) ==
  /\ reg[r].pc = "link"
  /\ Go(r, "key")
  /\ UNCHANGED <<byEmail, users, tenants, memberships, keys, login, invite, tokens, rivals, early>>

LinkOwner(r) ==
  /\ reg[r].pc = "link"
  /\ memberships' = Append(memberships, Member(r, r, "owner"))
  /\ Go(r, "key")
  /\ UNCHANGED <<byEmail, users, tenants, keys, login, invite, tokens, rivals, early>>

\* The default key is stored and the answer carries a token for the new tenant.
StoreDefaultKey(r) ==
  /\ reg[r].pc = "key"
  /\ keys' = keys \union {[id |-> r, tenant |-> r]}
  /\ tokens' = tokens \union {[user |-> r, tenant |-> r, from |-> "register"]}
  /\ Go(r, "done")
  /\ UNCHANGED <<byEmail, users, tenants, memberships, login, invite, rivals, early>>

Register(r) ==
  \/ \E e \in Emails : CheckEmail(r, e)
  \/ CreateUser(r) \/ CreateTenant(r) \/ LinkOwner(r) \/ StoreDefaultKey(r)
-----------------------------------------------------------------------------
(* Login and invitations *)

\* The user found under the address, if the password is that of its registration.
FindUser(l, e, password) ==
  /\ login[l].pc # "member"
  /\ byEmail[e] = password /\ password # None
  /\ login' = [login EXCEPT ![l] = [pc |-> "member", user |-> password]]
  /\ UNCHANGED <<byEmail, users, tenants, memberships, keys, reg, invite, tokens, rivals, early>>

\* The memberships of a user, by their places in the list.
Of(user) == {i \in DOMAIN memberships : memberships[i].user = user}

\* The membership that came last is taken.
Bug_FirstOf(user) == CHOOSE i \in Of(user) : \A j \in Of(user) : j <= i

FirstOf(user) == CHOOSE i \in Of(user) : \A j \in Of(user) : i <= j

\* A token for the first of the user's memberships; without any, 403.
FirstTenant(l) ==
  /\ login[l].pc = "member"
  /\ LET user == login[l].user IN
       IF Of(user) = {}
       THEN login' = [login EXCEPT ![l] = [pc |-> "forbidden", user |-> user]] /\ UNCHANGED tokens
       ELSE /\ login' = [login EXCEPT ![l] = Idle]
            /\ tokens' = tokens \union
                 {[user |-> user, tenant |-> memberships[FirstOf(user)].tenant, from |-> "login"]}
  /\ UNCHANGED <<byEmail, users, tenants, memberships, keys, reg, invite, rivals, early>>

FindInvited(i, t, e, role) ==
  /\ invite[i] = Idle /\ byEmail[e] # None
  /\ invite' = [invite EXCEPT ![i] =
                 [pc |-> "add", member |-> Member(byEmail[e], t, role)]]
  /\ UNCHANGED <<byEmail, users, tenants, memberships, keys, reg, login, tokens, rivals, early>>

\* Another row even if the user is a member already.
AddUser(i) ==
  /\ invite[i].pc = "add"
  /\ memberships' = Append(memberships, invite[i].member)
  /\ early' = IF Of(invite[i].member.user) = {} THEN early \union {invite[i].member.user}
              ELSE early
  /\ invite' = [invite EXCEPT ![i] = [pc |-> "done"]]
  /\ UNCHANGED <<byEmail, users, tenants, keys, reg, login, tokens, rivals>>
-----------------------------------------------------------------------------
(* API keys of the calling tenant *)

CreateAPIKey(t, k) ==
  /\ k \notin {key.id : key \in keys}
  /\ keys' = keys \union {[id |-> k, tenant |-> t]}
  /\ UNCHANGED <<byEmail, users, tenants, memberships, reg, login, invite, tokens, rivals, early>>

DeleteAPIKey(t, k) ==
  /\ [id |-> k, tenant |-> t] \in keys
  /\ keys' = keys \ {[id |-> k, tenant |-> t]}
  /\ UNCHANGED <<byEmail, users, tenants, memberships, reg, login, invite, tokens, rivals, early>>

AccountNext ==
  \/ \E r \in Registrations : Register(r)
  \/ \E l \in Logins :
       FirstTenant(l) \/ \E e \in Emails, password \in Registrations : FindUser(l, e, password)
  \/ \E i \in Invitations :
       AddUser(i) \/ \E t \in Callers, e \in Emails, role \in Roles : FindInvited(i, t, e, role)
  \/ \E t \in Callers, k \in NewKeys : CreateAPIKey(t, k)
  \/ \E t \in Callers, k \in NewKeys \union Registrations : DeleteAPIKey(t, k)

AccountSpec == AccountInit /\ [][AccountNext]_accountVars
-----------------------------------------------------------------------------
(* Properties *)

\* The column `email VARCHAR(255) NOT NULL UNIQUE` (migrations/003_users_rbac.sql:5),
\* which the stores in memory do not enforce.
OneAccountPerEmail ==
  \A u, v \in users : reg[u].email = reg[v].email => u = v

\* Two users have one address only if both registrations had passed the check before
\* either stored its user.
DuplicatesOnlyFromRaces ==
  \A u, v \in users : u # v /\ reg[u].email = reg[v].email =>
    u \in rivals[v] \/ v \in rivals[u]

\* A login with the right password, between the calls that a registration makes to three
\* stores, is refused for want of an organisation only while that registration of its
\* user is still under way; invitations that come meanwhile never cause a refusal.
RefusalOfLogin ==
  \A l \in Logins : login'[l].pc = "forbidden" /\ login[l].pc # "forbidden" =>
    reg[login[l].user].pc \in {"tenant", "link"}

\* The same of every step: once its registration is over, no login of a user is refused.
RefusedOnlyMeanwhile == [][RefusalOfLogin]_accountVars

\* Every login of a user is for one and the same tenant, whatever invitations come;
\* it is the tenant of the registration's own token, unless an invitation came
\* before the registration had made the user an owner.
OneTenantPerUser ==
  \A s, t \in tokens : s.user = t.user =>
    s.tenant = t.tenant \/ (s.from # t.from /\ s.user \in early)

\* The key that came with a registration stays: no caller can be its tenant.
DefaultKeysStay ==
  \A r \in Registrations : reg[r].pc = "done" => [id |-> r, tenant |-> r] \in keys
=============================================================================
