---------------------------- MODULE OAuth2Client ----------------------------
(***************************************************************************)
(* The client of a carrier's token endpoint (adapter/telco/oauth2.go): a   *)
(* token shared by all requests behind a readers-writer lock.  The write   *)
(* lock is held across the HTTP call, so all callers wait for the one that *)
(* refreshes the token.                                                    *)
(***************************************************************************)
EXTENDS Integers

CONSTANTS
  Callers,       \* goroutines that call GetToken
  Lifetimes,     \* the values of expires_in the endpoint may answer
  Margin,        \* how long before its end a token is given up (60 s)
  HttpTimeout,   \* of the HTTP client (10 s)
  None,
  MaxClock       \* bound of the model

ASSUME OAuthAssumption ==
  /\ Lifetimes \subseteq Nat /\ Margin \in Nat /\ HttpTimeout \in Nat /\ MaxClock \in Nat
  /\ HttpTimeout <= Margin
  /\ None \notin Callers /\ None \notin [issued : Nat, lifetime : Lifetimes]

VARIABLES
  now,
  accessToken, expiresAt,   \* the cache; None is the empty string
  writer,                   \* who holds the write lock
  pc, asked,                \* where each caller stands, when it sent its HTTP request
  served                    \* history: what the callers got from the cache, and when

vars == <<now, accessToken, expiresAt, writer, pc, asked, served>>

Tokens == [issued : Nat, lifetime : Lifetimes]

TypeOK ==
  /\ now \in Nat
  /\ accessToken \in Tokens \union {None}
  /\ expiresAt \in Int
  /\ writer \in Callers \union {None}
  /\ pc \in [Callers -> {"idle", "read", "lock", "http"}]
  /\ asked \in [Callers -> Nat]
  /\ served \subseteq [token : Tokens, at : Nat]

Init ==
  /\ now = 0
  /\ accessToken = None /\ expiresAt = 0
  /\ writer = None
  /\ pc = [c \in Callers |-> "idle"]
  /\ asked = [c \in Callers |-> 0]
  /\ served = {}

Cached == accessToken # None /\ now < expiresAt

Goto(c, where) == pc' = [pc EXCEPT ![c] = where]

GetToken(c) ==
  /\ pc[c] = "idle"
  /\ Goto(c, "read")
  /\ UNCHANGED <<now, accessToken, expiresAt, writer, asked, served>>

\* The cached token is returned.
Serve(c) ==
  /\ Cached
  /\ served' = served \union {[token |-> accessToken, at |-> now]}
  /\ Goto(c, "idle")
  /\ UNCHANGED <<writer, asked>>

\* The look at the cache under the read lock, which nobody holds for long.
Read(c) ==
  /\ pc[c] = "read" /\ writer = None
  /\ \/ Serve(c)
     \/ ~Cached /\ Goto(c, "lock") /\ UNCHANGED <<writer, asked, served>>
  /\ UNCHANGED <<now, accessToken, expiresAt>>

\* (Definitions named Bug_... are plausible mistakes, which the properties must catch.)
\* No second look at the cache.
Bug_Lock(c) ==
  /\ pc[c] = "lock" /\ writer = None
  /\ writer' = c /\ Goto(c, "http") /\ asked' = [asked EXCEPT ![c] = now]
  /\ UNCHANGED <<now, accessToken, expiresAt, served>>

\* refreshToken takes the write lock, looks at the cache again, and sends the request.
Lock(c) ==
  /\ pc[c] = "lock" /\ writer = None
  /\ \/ Serve(c)
     \/ /\ ~Cached
        /\ writer' = c /\ Goto(c, "http") /\ asked' = [asked EXCEPT ![c] = now]
        /\ UNCHANGED served
  /\ UNCHANGED <<now, accessToken, expiresAt>>

Unlock(c) == writer' = None /\ Goto(c, "idle")

\* expires_in taken as it is.
Bug_Answer(c) ==
  /\ pc[c] = "http"
  /\ \E lifetime \in Lifetimes, issued \in asked[c] .. now :
       /\ accessToken' = [issued |-> issued, lifetime |-> lifetime]
       /\ expiresAt' = now + lifetime
  /\ Unlock(c)
  /\ UNCHANGED <<now, asked, served>>

\* A decodable answer with status 200: it is taken over, even without a token in it.
\* The endpoint issued the token at some time since it was asked.
Answer(c) ==
  /\ pc[c] = "http"
  /\ \E lifetime \in Lifetimes, issued \in asked[c] .. now :
       /\ accessToken' \in {[issued |-> issued, lifetime |-> lifetime], None}
       /\ expiresAt' = now + lifetime - Margin
  /\ Unlock(c)
  /\ UNCHANGED <<now, asked, served>>

\* The lock released on the success path only.
Bug_Fail(c) ==
  /\ pc[c] = "http"
  /\ Goto(c, "idle")
  /\ UNCHANGED <<now, accessToken, expiresAt, writer, asked, served>>

\* Any other answer, a timeout, or a caller that has gone: an error, the cache stays.
Fail(c) ==
  /\ pc[c] = "http"
  /\ Unlock(c)
  /\ UNCHANGED <<now, accessToken, expiresAt, asked, served>>

\* Time goes by, but no HTTP call outlives its timeout.
Tick ==
  /\ now < MaxClock
  /\ \A c \in Callers : pc[c] = "http" => now - asked[c] < HttpTimeout
  /\ now' = now + 1
  /\ UNCHANGED <<accessToken, expiresAt, writer, pc, asked, served>>

Http(c) == Answer(c) \/ Fail(c)

Next == Tick \/ \E c \in Callers : GetToken(c) \/ Read(c) \/ Lock(c) \/ Http(c)

Spec == Init /\ [][Next]_vars

\* sync.RWMutex lets every waiting reader and, in turn, every waiting writer in; an
\* HTTP call ends with its timeout.
FairSpec ==
  Spec /\ \A c \in Callers : SF_vars(Read(c)) /\ SF_vars(Lock(c)) /\ WF_vars(Http(c))
-----------------------------------------------------------------------------
(* Properties *)

\* A token served from the cache has not run out at the carrier, however long the
\* answer that brought it was on its way: the margin covers the HTTP timeout.
CachedTokenValid ==
  \A x \in served : x.at < x.token.issued + x.token.lifetime

\* However many callers find the cache stale at the same time, one of them asks the
\* endpoint and the others get what it brings: a request is under way alone, and was
\* sent when the cached token, if there is one, was due.
OneRefreshAtATime ==
  \A c \in Callers : pc[c] = "http" =>
    /\ \A d \in Callers : pc[d] = "http" => d = c
    /\ accessToken # None => asked[c] >= expiresAt

\* Every caller returns, though all wait for one lock that is held across an HTTP call.
EveryCallerReturns == \A c \in Callers : pc[c] # "idle" ~> pc[c] = "idle"

\* The inductive invariant of the proofs.
LockHeld == \A c \in Callers : pc[c] = "http" => writer = c

InFlight == \A c \in Callers : pc[c] = "http" => asked[c] <= now /\ now - asked[c] <= HttpTimeout

CacheOK == accessToken # None => expiresAt <= accessToken.issued + accessToken.lifetime

IInv == TypeOK /\ LockHeld /\ InFlight /\ CacheOK /\ CachedTokenValid /\ OneRefreshAtATime
=============================================================================
