---------------------------- MODULE MCRedisLock ----------------------------
(* Model checking of RedisLock on small instances. *)
EXTENDS RedisLock, TLC

Symm == Permutations(Waiters) \cup Permutations(Procs \ Waiters)
=============================================================================
