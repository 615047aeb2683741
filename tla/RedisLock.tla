----------------------------- MODULE RedisLock -----------------------------
(***************************************************************************)
(* The lock that the cron jobs of csghub-server (telemetry, multi-source   *)
(* sync, mirror progress) hold while they run, so that the same job of     *)
(* another instance does not: one Redis key per resource, set with SETNX,  *)
(* an expiration and a random string, and deleted by a script that         *)
(* compares the string.  One resource; time is counted in ticks.           *)
(***************************************************************************)
EXTENDS Integers

CONSTANTS
  Procs,        \* processes that call RunWhileLocked or WaitLockToRun
  Waiters,      \* those that call WaitLockToRun
  Nobody,       \* owner of a key that is not set
  Expiration,   \* of the key, in ticks
  MaxCalls      \* bound on the calls of one process

ASSUME LockAssumption ==
  /\ Waiters \subseteq Procs
  /\ Nobody \notin Procs
  /\ Expiration \in Nat \ {0}
  /\ MaxCalls \in Nat

VARIABLES
  key,     \* external: the random string stored in Redis
  ttl,     \* external: ticks until the key expires
  pc,      \* where each process is
  calls,   \* how often each process has asked for the lock
  age,     \* ticks since its SETNX succeeded, counted up to Expiration
  turns,   \* history: how often the key has been set
  turn     \* history: turns when each process set it

vars == <<key, ttl, pc, calls, age, turns, turn>>

\* uuid.New() differs from call to call: the owner and the number of the call.
NoKey == <<Nobody, 0>>
randomStr(p) == <<p, calls[p]>>

Init ==
  /\ key = NoKey /\ ttl = 0
  /\ pc = [p \in Procs |-> "idle"]
  /\ calls = [p \in Procs |-> 0]
  /\ age = [p \in Procs |-> Expiration]
  /\ turns = 0
  /\ turn = [p \in Procs |-> 0]

----------------------------------------------------------------------------
(* acquireLock. *)

lockAndRun(p) ==
  /\ pc[p] = "idle" /\ calls[p] < MaxCalls
  /\ calls' = [calls EXCEPT ![p] = @ + 1]
  /\ pc' = [pc EXCEPT ![p] = "try"]
  /\ UNCHANGED <<key, ttl, age, turns, turn>>

\* Mutant: the key never expires (a TTL of -1 in Redis).
SetWithoutExpiration(p) ==
  /\ key = NoKey
  /\ key' = randomStr(p) /\ ttl' = -1
  /\ turns' = turns + 1

\* SETNX finds no key and sets it.
SetNX(p) ==
  /\ key = NoKey
  /\ key' = randomStr(p) /\ ttl' = Expiration
  /\ turns' = turns + 1

acquireLock(p) ==
  /\ pc[p] = "try"
  /\ SetNX(p)
  /\ pc' = [pc EXCEPT ![p] = "run"]
  /\ age' = [age EXCEPT ![p] = 0]
  /\ turn' = [turn EXCEPT ![p] = turns + 1]
  /\ UNCHANGED calls

\* SETNX fails: WaitLockToRun waits, RunWhileLocked returns ErrResourceAlreadyLocked.
AlreadyLocked(p) ==
  /\ pc[p] = "try" /\ key # NoKey
  /\ pc' = [pc EXCEPT ![p] = IF p \in Waiters THEN "wait" ELSE "idle"]
  /\ UNCHANGED <<key, ttl, calls, age, turns, turn>>

TimerFires(p) ==
  /\ pc[p] = "wait"
  /\ pc' = [pc EXCEPT ![p] = "try"]
  /\ UNCHANGED <<key, ttl, calls, age, turns, turn>>

\* The context ends while the caller waits.
ContextDone(p) ==
  /\ pc[p] = "wait"
  /\ pc' = [pc EXCEPT ![p] = "idle"]
  /\ UNCHANGED <<key, ttl, calls, age, turns, turn>>

\* The call of SETNX returns an error; the key may have been set all the same.
SetNXError(p) ==
  /\ pc[p] = "try"
  /\ SetNX(p) \/ UNCHANGED <<key, ttl, turns>>
  /\ pc' = [pc EXCEPT ![p] = "idle"]
  /\ UNCHANGED <<calls, age, turn>>

----------------------------------------------------------------------------
(* The callback, and releaseLock, which is deferred. *)

\* fn returns, or panics; nothing ends it when the key expires.
fn(p) ==
  /\ pc[p] = "run"
  /\ pc' = [pc EXCEPT ![p] = "release"]
  /\ UNCHANGED <<key, ttl, calls, age, turns, turn>>

\* Mutant: the key is deleted whatever string it holds.
DeleteAny(p) == key' = NoKey /\ ttl' = 0

\* The script deletes the key only if it holds the caller's string (ErrResourceNotLocked
\* and ErrResourceConflict otherwise).
releaseLockScript(p) ==
  \/ key = randomStr(p) /\ key' = NoKey /\ ttl' = 0
  \/ key # randomStr(p) /\ UNCHANGED <<key, ttl>>

releaseLock(p) ==
  /\ pc[p] = "release"
  /\ releaseLockScript(p)
  /\ pc' = [pc EXCEPT ![p] = "idle"]
  /\ UNCHANGED <<calls, age, turns, turn>>

\* The script cannot be run within three seconds, or its answer is lost.
ReleaseError(p) ==
  /\ pc[p] = "release"
  /\ pc' = [pc EXCEPT ![p] = "idle"]
  /\ releaseLockScript(p) \/ UNCHANGED <<key, ttl>>
  /\ UNCHANGED <<calls, age, turns, turn>>

----------------------------------------------------------------------------
\* The process dies without releasing anything.
Crash(p) ==
  /\ pc[p] # "idle"
  /\ pc' = [pc EXCEPT ![p] = "idle"]
  /\ UNCHANGED <<key, ttl, calls, age, turns, turn>>

\* Time passes; Redis drops the key when its time is over.
Tick ==
  /\ ttl > 0
  /\ ttl' = ttl - 1
  /\ key' = IF ttl = 1 THEN NoKey ELSE key
  /\ age' = [p \in Procs |-> IF age[p] < Expiration THEN age[p] + 1 ELSE age[p]]
  /\ UNCHANGED <<pc, calls, turns, turn>>

Step(p) ==
  \/ acquireLock(p) \/ AlreadyLocked(p) \/ TimerFires(p) \/ ContextDone(p) \/ SetNXError(p)
  \/ fn(p) \/ releaseLock(p) \/ ReleaseError(p) \/ Crash(p)

Next == Tick \/ \E p \in Procs : lockAndRun(p) \/ Step(p)

Spec == Init /\ [][Next]_vars
\* Only time is sure to pass: a job may hang or die.
FairSpec == Spec /\ WF_vars(Tick)

----------------------------------------------------------------------------
Running(p) == pc[p] \in {"run", "release"}
InLease(p) == Running(p) /\ age[p] < Expiration

\* The key holds the string of a call that was made, and its time is not over.
TypeOK ==
  /\ key \in (Procs \X (1..MaxCalls)) \cup {NoKey}
  /\ ttl \in 0..Expiration
  /\ pc \in [Procs -> {"idle", "try", "wait", "run", "release"}]
  /\ calls \in [Procs -> 0..MaxCalls]
  /\ age \in [Procs -> 0..Expiration]
  /\ turns \in Nat
  /\ turn \in [Procs -> Nat]

\* Two processes never run their jobs within their leases at the same time, also
\* when earlier jobs overran their expiration and release afterwards.
OneInLease == \A p, q \in Procs : InLease(p) /\ InLease(q) => p = q

\* A job whose release succeeds had the lock to itself from start to end: no other
\* call set the key while it ran, however long that took.
CleanRelease ==
  [][\A p \in Procs : releaseLock(p) /\ key' # key => turn[p] = turns]_vars

\* A key that was set is not kept for ever, whatever becomes of its owner.
LockFreed ==
  \A p \in Procs, n \in 1..MaxCalls : key = <<p, n>> ~> key # <<p, n>>

\* The lock implements a lease: the holder is the process within its lease.
holder == IF \E p \in Procs : InLease(p) THEN CHOOSE p \in Procs : InLease(p) ELSE Nobody
AbstractLease == INSTANCE Lease WITH holder <- holder
ImplementsLease == AbstractLease!Spec
=============================================================================
