------------------------- MODULE MCRedisRateLimiter -------------------------
(* A small instance of RedisRateLimiter. *)
EXTENDS RedisRateLimiter, TLC

CONSTANTS r1, r2, r3

Symmetry == Permutations(Requests)
=============================================================================
