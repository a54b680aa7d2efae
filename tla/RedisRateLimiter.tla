-------------------------- MODULE RedisRateLimiter --------------------------
(***************************************************************************)
(* The rate limiter shared by all servers (middleware/ratelimit_redis.go), *)
(* seen for one client: a counter per window of the wall clock, kept in    *)
(* Redis.  INCR and EXPIRE travel in one pipeline, which is no transaction.*)
(***************************************************************************)
EXTENDS Integers, Sequences, FiniteSets

CONSTANTS
  Requests,      \* request goroutines of all servers
  RedisLimit, RedisWindow,
  Errors,        \* Redis or the connection to it may fail
  MaxRetries,    \* how often the Redis client sends a failed pipeline again
  None,
  RedisMaxClock, MaxArrivals   \* bounds of the model

RedisAssumption ==
  /\ RedisLimit \in Nat /\ RedisWindow \in Nat \ {0} /\ Errors \in BOOLEAN
  /\ RedisMaxClock \in Nat /\ MaxArrivals \in Nat /\ MaxRetries \in Nat
  /\ IsFiniteSet(Requests) /\ None \notin Nat

VARIABLES
  clock,      \* the wall clock
  count,      \* count[b]: the counter of bucket b, 0 if Redis has no such key
  deadline,   \* deadline[b]: when Redis drops the key, None if it has no TTL
  req,        \* what each request is doing
  arrivals,   \* requests so far
  passed,     \* history: the requests admitted
  broken      \* history: buckets of a pipeline that failed between INCR and EXPIRE

redisVars == <<clock, count, deadline, req, arrivals, passed, broken>>

Bucket(t) == t \div RedisWindow
Buckets == 0 .. Bucket(RedisMaxClock)

Idle == [pc |-> "idle", bucket |-> 0, count |-> 0, at |-> 0, tries |-> 0]
Asking(b, n) == [pc |-> "incr", bucket |-> b, count |-> 0, at |-> 0, tries |-> n]
Counted(b, n, c) == [pc |-> "expire", bucket |-> b, count |-> c, at |-> clock, tries |-> n]
Active == [pc : {"incr", "expire"}, bucket : Buckets, count : Nat, at : 0 .. RedisMaxClock,
           tries : 0 .. MaxRetries]

\* counted: let through by the counter, rather than because Redis did not answer;
\* at: when it was counted.
Admission == [bucket : Buckets, at : 0 .. RedisMaxClock, counted : BOOLEAN]

RedisTypeOK ==
  /\ clock \in 0 .. RedisMaxClock
  /\ count \in [Buckets -> Nat]
  /\ deadline \in [Buckets -> Nat \union {None}]
  /\ req \in [Requests -> {Idle} \union Active]
  /\ arrivals \in 0 .. MaxArrivals
  /\ passed \in Seq(Admission)
  /\ broken \subseteq Buckets

RedisInit ==
  /\ clock = 0
  /\ count = [b \in Buckets |-> 0]
  /\ deadline = [b \in Buckets |-> None]
  /\ req = [r \in Requests |-> Idle]
  /\ arrivals = 0
  /\ passed = << >>
  /\ broken = {}

Admit(q, counted) ==
  passed' = Append(passed, [bucket |-> q.bucket, at |-> q.at, counted |-> counted])

\* The key is computed from the server's clock, before Redis is asked.
Arrive(r) ==
  /\ req[r] = Idle
  /\ arrivals < MaxArrivals
  /\ arrivals' = arrivals + 1
  /\ req' = [req EXCEPT ![r] = Asking(Bucket(clock), 0)]
  /\ UNCHANGED <<clock, count, deadline, passed, broken>>

\* (Definitions named Bug_... are plausible mistakes, which the properties must catch.)
\* GET and SET instead of INCR: the value goes by the number of admissions read.
Bug_Incr(r) ==
  /\ req[r].pc = "incr"
  /\ LET b == req[r].bucket
         seen == Cardinality({i \in 1 .. Len(passed) : passed[i].bucket = b}) + 1
     IN /\ count' = [count EXCEPT ![b] = seen]
        /\ req' = [req EXCEPT ![r] = Counted(b, @.tries, seen)]
  /\ UNCHANGED <<clock, deadline, arrivals, passed, broken>>

\* INCR, which creates the key if it is missing.
Incr(r) ==
  /\ req[r].pc = "incr"
  /\ LET b == req[r].bucket IN
       /\ count' = [count EXCEPT ![b] = @ + 1]
       /\ req' = [req EXCEPT ![r] = Counted(b, @.tries, count[b] + 1)]
  /\ UNCHANGED <<clock, deadline, arrivals, passed, broken>>

\* The TTL set only by the request that created the key, and lost if that is denied.
Bug_Expire(r) ==
  /\ req[r].pc = "expire"
  /\ LET b == req[r].bucket IN
       deadline' = IF count[b] = 1 THEN [deadline EXCEPT ![b] = clock + RedisWindow] ELSE deadline
  /\ IF req[r].count > RedisLimit THEN UNCHANGED passed ELSE Admit(req[r], TRUE)
  /\ req' = [req EXCEPT ![r] = Idle]
  /\ UNCHANGED <<clock, count, arrivals, broken>>

\* EXPIRE (of no effect on a missing key), and the decision on INCR's result.
Expire(r) ==
  /\ req[r].pc = "expire"
  /\ LET b == req[r].bucket IN
       deadline' = IF count[b] = 0 THEN deadline ELSE [deadline EXCEPT ![b] = clock + RedisWindow]
  /\ IF req[r].count > RedisLimit THEN UNCHANGED passed ELSE Admit(req[r], TRUE)
  /\ req' = [req EXCEPT ![r] = Idle]
  /\ UNCHANGED <<clock, count, arrivals, broken>>

Break(r) ==
  broken' = IF req[r].pc = "expire" THEN broken \union {req[r].bucket} ELSE broken

\* The pipeline fails, before or after its INCR took effect: the request passes.
Fail(r) ==
  /\ Errors
  /\ req[r].pc \in {"incr", "expire"}
  /\ Admit(req[r], FALSE)
  /\ Break(r)
  /\ req' = [req EXCEPT ![r] = Idle]
  /\ UNCHANGED <<clock, count, deadline, arrivals>>

\* The reply is lost, and the client library sends the whole pipeline again.
Retry(r) ==
  /\ Errors
  /\ req[r].pc = "expire" /\ req[r].tries < MaxRetries
  /\ Break(r)
  /\ req' = [req EXCEPT ![r] = Asking(@.bucket, @.tries + 1)]
  /\ UNCHANGED <<clock, count, deadline, arrivals, passed>>

\* Time goes by, and Redis drops the keys whose TTL is over.
RedisTick ==
  /\ clock < RedisMaxClock
  /\ clock' = clock + 1
  /\ LET gone == {b \in Buckets : deadline[b] # None /\ deadline[b] <= clock + 1} IN
       /\ count' = [b \in Buckets |-> IF b \in gone THEN 0 ELSE count[b]]
       /\ deadline' = [b \in Buckets |-> IF b \in gone THEN None ELSE deadline[b]]
  /\ UNCHANGED <<req, arrivals, passed, broken>>

RedisNext == RedisTick \/ \E r \in Requests : Arrive(r) \/ Incr(r) \/ Expire(r) \/ Fail(r) \/ Retry(r)

RedisSpec == RedisInit /\ [][RedisNext]_redisVars
-----------------------------------------------------------------------------
(* Properties *)

\* Admissions counted while their bucket was the current one.
OnTime(i) == passed[i].counted /\ Bucket(passed[i].at) = passed[i].bucket

\* Whatever servers count at the same time, and however TTLs are renewed, no more
\* than Limit requests are admitted on a bucket's counter while the bucket lasts:
\* the key never expires, and never loses a count, before its bucket is over.
BucketLimit ==
  \A b \in Buckets :
    Cardinality({i \in 1 .. Len(passed) : OnTime(i) /\ passed[i].bucket = b}) <= RedisLimit

\* The comment on RedisRateLimit (ratelimit_redis.go:13): "distributed rate limiting
\* with sliding window".  The counter starts over at a boundary of the wall clock, so
\* that Limit requests before it and Limit after it all pass.
SlidingWindowHolds ==
  \A t \in 0 .. RedisMaxClock :
    Cardinality({i \in 1 .. Len(passed) : OnTime(i) /\ passed[i].at \in t .. t + RedisWindow - 1})
      <= RedisLimit

\* A counter is bound to disappear, unless a pipeline failed half way: in whatever
\* order the commands of concurrent pipelines reach Redis, a key that exists has a
\* TTL or is about to get one, so that the keys of past windows do not pile up.
NoOrphanCounter ==
  \A b \in Buckets :
    count[b] # 0 => \/ deadline[b] # None
                    \/ \E r \in Requests : req[r].pc = "expire" /\ req[r].bucket = b
                    \/ b \in broken
=============================================================================
