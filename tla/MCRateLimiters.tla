--------------------------- MODULE MCRateLimiters ---------------------------
(***************************************************************************)
(* Small instances of both rate limiters, of which router.New installs one *)
(* (router.go:135): the variables of the other keep their initial values.  *)
(***************************************************************************)
EXTENDS RateLimiter, RedisRateLimiter, TLC

CONSTANTS k1, k2, r1, r2

VARIABLE installed   \* "memory" or "redis"

ASSUME RedisAssumed == RedisAssumption

MCNoAnswer == [key |-> "none"]

SortedSeqs == {s \in UNION {[1 .. n -> 0 .. 3] : n \in 0 .. 3} : Sorted(s)}

\* The loop of allow, element by element, keeps what Valid keeps.
ASSUME LoopKeepsValid ==
  \A s \in SortedSeqs, cutoff \in -2 .. 4 :
    SelectSeq(s, LAMBDA t : t > cutoff) =
      SubSeq(s, Cardinality({i \in 1 .. Len(s) : s[i] <= cutoff}) + 1, Len(s))

Symmetry == Permutations({k1, k2}) \union Permutations({r1, r2})

EitherInit == installed \in {"memory", "redis"} /\ Init /\ RedisInit

InMemory == installed = "memory" /\ UNCHANGED <<installed, redisVars>>
MemoryTick == InMemory /\ Tick
MemoryAllow == InMemory /\ \E k \in Keys : Allow(k)

InRedis == installed = "redis" /\ UNCHANGED <<installed, vars>>
OneTick == InRedis /\ RedisTick
OneArrive == InRedis /\ \E r \in Requests : Arrive(r)
OneIncr == InRedis /\ \E r \in Requests : Incr(r)
OneExpire == InRedis /\ \E r \in Requests : Expire(r)
OneFail == InRedis /\ \E r \in Requests : Fail(r)
OneRetry == InRedis /\ \E r \in Requests : Retry(r)

EitherNext ==
  \/ MemoryTick \/ MemoryAllow
  \/ OneTick \/ OneArrive \/ OneIncr \/ OneExpire \/ OneFail \/ OneRetry

EitherSpec == EitherInit /\ [][EitherNext]_<<installed, vars, redisVars>>
=============================================================================
