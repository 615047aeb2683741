-------------------------- MODULE RedisLockProofs --------------------------
(***************************************************************************)
(* Proofs about RedisLock for any number of processes, calls and ticks.    *)
(* The inductive invariant says that within its lease a process finds its  *)
(* own string in the key, with as many ticks left as the lease has, and    *)
(* that nobody has set the key since a running process whose string it is. *)
(***************************************************************************)
EXTENDS RedisLock, TLAPS

\* The key expires with the lease of the process whose string it holds.
LeaseHeld == \A p \in Procs : InLease(p) => key = randomStr(p) /\ ttl + age[p] = Expiration

\* A key that is set has time left.
KeyLives == key = NoKey <=> ttl = 0

\* A running process whose string is in the key was the last to set it.
LastToSet == \A p \in Procs : Running(p) /\ key = randomStr(p) => turn[p] = turns

\* A process that is not idle has made a call.
Called == \A p \in Procs : pc[p] # "idle" => calls[p] \in 1..MaxCalls

LockInv == TypeOK /\ LeaseHeld /\ KeyLives /\ LastToSet /\ Called

LEMMA NoKeyOfNobody == \A p \in Procs : \A n : <<p, n>> # NoKey
BY LockAssumption DEF NoKey

LEMMA InitLockInv == Init => LockInv
BY LockAssumption DEF Init, LockInv, TypeOK, LeaseHeld, KeyLives, LastToSet, Called,
   InLease, Running, NoKey

\* What the steps of a process do to the key.
LEMMA SetNXKey ==
  ASSUME LockInv, NEW p \in Procs, pc[p] = "try", SetNX(p)
  PROVE  /\ key' \in (Procs \X (1..MaxCalls)) \cup {NoKey} /\ ttl' \in 0..Expiration
         /\ KeyLives' /\ turns' \in Nat
         /\ \A q \in Procs : ~InLease(q)
<1>1. key' = <<p, calls[p]>> /\ key' # NoKey /\ ttl' = Expiration /\ turns' = turns + 1
  BY NoKeyOfNobody DEF SetNX, randomStr
<1>2. \A q \in Procs : ~InLease(q)
  BY NoKeyOfNobody DEF LockInv, LeaseHeld, SetNX, randomStr
<1> QED BY <1>1, <1>2, LockAssumption DEF KeyLives, LockInv, TypeOK, Called, NoKey

LEMMA ScriptKey ==
  ASSUME LockInv, NEW p \in Procs, releaseLockScript(p) \/ UNCHANGED <<key, ttl>>
  PROVE  /\ key' \in (Procs \X (1..MaxCalls)) \cup {NoKey} /\ ttl' \in 0..Expiration
         /\ KeyLives'
         /\ \A q \in Procs \ {p} : key = randomStr(q) => UNCHANGED <<key, ttl>>
         /\ key' \in {key, NoKey}
<1>1. \A q \in Procs \ {p} : randomStr(q) # randomStr(p)
  BY DEF randomStr
<1> QED BY <1>1, LockAssumption DEF releaseLockScript, LockInv, TypeOK, KeyLives

\* A step of p other than a successful SETNX, after which p is not within its lease
\* unless it was: it may delete the key if it holds p's string.
LEMMA QuietStep ==
  ASSUME LockInv, NEW p \in Procs,
         pc' = [pc EXCEPT ![p] = pc'[p]],
         pc'[p] \in {"idle", "try", "wait", "run", "release"},
         Running(p)' => Running(p) /\ UNCHANGED <<key, ttl>>,
         pc'[p] # "idle" => pc[p] # "idle",
         releaseLockScript(p) \/ UNCHANGED <<key, ttl>>,
         UNCHANGED <<calls, age, turns, turn>>
  PROVE  LockInv'
<1>1. /\ key' \in (Procs \X (1..MaxCalls)) \cup {NoKey} /\ ttl' \in 0..Expiration
      /\ KeyLives'
      /\ \A q \in Procs \ {p} : key = randomStr(q) => UNCHANGED <<key, ttl>>
      /\ key' \in {key, NoKey}
  BY ScriptKey
<1>2. \A q \in Procs : randomStr(q)' = randomStr(q) /\ randomStr(q) # NoKey
  BY NoKeyOfNobody DEF randomStr
<1>3. \A q \in Procs \ {p} : pc'[q] = pc[q]
  BY DEF LockInv, TypeOK
<1>4. TypeOK'
  BY <1>1 DEF LockInv, TypeOK
<1>5. LeaseHeld'
  BY <1>1, <1>2, <1>3 DEF LockInv, LeaseHeld, InLease, Running
<1>6. LastToSet'
  BY <1>1, <1>2, <1>3 DEF LockInv, LastToSet, Running
<1>7. Called'
  BY <1>3 DEF LockInv, Called
<1> QED BY <1>1, <1>4, <1>5, <1>6, <1>7 DEF LockInv

LEMMA SetNXInv ==
  ASSUME LockInv, NEW p \in Procs, acquireLock(p)  PROVE LockInv'
<1>1. /\ key' \in (Procs \X (1..MaxCalls)) \cup {NoKey} /\ ttl' \in 0..Expiration
      /\ KeyLives' /\ turns' \in Nat
      /\ \A q \in Procs : ~InLease(q)
  BY SetNXKey DEF acquireLock
<1>2. /\ pc' = [pc EXCEPT ![p] = "run"] /\ age' = [age EXCEPT ![p] = 0]
      /\ turn' = [turn EXCEPT ![p] = turns + 1] /\ turns' = turns + 1
      /\ calls' = calls /\ key' = <<p, calls[p]>> /\ ttl' = Expiration
  BY DEF acquireLock, SetNX, randomStr
<1>3. TypeOK'
  BY <1>1, <1>2, LockAssumption DEF LockInv, TypeOK
<1>4. LeaseHeld'
  BY <1>1, <1>2, LockAssumption DEF LockInv, TypeOK, LeaseHeld, InLease, Running, randomStr
<1>5. LastToSet'
  BY <1>2 DEF LockInv, TypeOK, LastToSet, Running, randomStr
<1>6. Called'
  BY <1>2 DEF LockInv, TypeOK, Called, acquireLock
<1> QED BY <1>1, <1>3, <1>4, <1>5, <1>6 DEF LockInv

LEMMA LostAnswerInv ==
  ASSUME LockInv, NEW p \in Procs, SetNXError(p), SetNX(p)  PROVE LockInv'
<1>1. /\ key' \in (Procs \X (1..MaxCalls)) \cup {NoKey} /\ ttl' \in 0..Expiration
      /\ KeyLives' /\ turns' \in Nat
      /\ \A q \in Procs : ~InLease(q)
  BY SetNXKey DEF SetNXError
<1>2. /\ pc' = [pc EXCEPT ![p] = "idle"] /\ key' = <<p, calls[p]>>
      /\ UNCHANGED <<calls, age, turn>>
  BY DEF SetNXError, SetNX, randomStr
<1>3. TypeOK' /\ Called'
  BY <1>1, <1>2 DEF LockInv, TypeOK, Called
<1>4. LeaseHeld' /\ LastToSet'
  BY <1>1, <1>2 DEF LockInv, TypeOK, LeaseHeld, LastToSet, InLease, Running, randomStr
<1> QED BY <1>1, <1>3, <1>4 DEF LockInv

LEMMA CallInv ==
  ASSUME LockInv, NEW p \in Procs, lockAndRun(p)  PROVE LockInv'
<1>1. /\ pc' = [pc EXCEPT ![p] = "try"] /\ calls' = [calls EXCEPT ![p] = @ + 1]
      /\ calls[p] < MaxCalls /\ UNCHANGED <<key, ttl, age, turns, turn>>
  BY DEF lockAndRun
<1>2. TypeOK' /\ Called'
  BY <1>1, LockAssumption DEF LockInv, TypeOK, Called
<1>3. LeaseHeld' /\ LastToSet' /\ KeyLives'
  BY <1>1 DEF LockInv, TypeOK, LeaseHeld, LastToSet, InLease, Running, randomStr, KeyLives
<1> QED BY <1>2, <1>3 DEF LockInv

LEMMA TickInv ==
  ASSUME LockInv, Tick  PROVE LockInv'
<1>1. /\ ttl > 0 /\ ttl' = ttl - 1 /\ key' = (IF ttl = 1 THEN NoKey ELSE key)
      /\ age' = [p \in Procs |-> IF age[p] < Expiration THEN age[p] + 1 ELSE age[p]]
      /\ UNCHANGED <<pc, calls, turns, turn>>
  BY DEF Tick
<1>2. TypeOK' /\ Called' /\ KeyLives'
  BY <1>1, LockAssumption DEF LockInv, TypeOK, Called, KeyLives
<1>3. LeaseHeld'
  BY <1>1, LockAssumption DEF LockInv, TypeOK, LeaseHeld, InLease, Running, randomStr
<1>4. LastToSet'
  BY <1>1, NoKeyOfNobody DEF LockInv, LastToSet, Running, randomStr
<1> QED BY <1>2, <1>3, <1>4 DEF LockInv

LEMMA NextLockInv == LockInv /\ [Next]_vars => LockInv'
<1> SUFFICES ASSUME LockInv, [Next]_vars PROVE LockInv'
  OBVIOUS
<1>0. pc \in [Procs -> {"idle", "try", "wait", "run", "release"}]
  BY DEF LockInv, TypeOK
<1>1. ASSUME NEW p \in Procs, AlreadyLocked(p) \/ TimerFires(p) \/ ContextDone(p) \/ fn(p) \/ Crash(p)
      PROVE  LockInv'
  BY <1>0, <1>1, QuietStep DEF AlreadyLocked, TimerFires, ContextDone, fn, Crash, Running
<1>2. ASSUME NEW p \in Procs, releaseLock(p) \/ ReleaseError(p) PROVE LockInv'
  BY <1>0, <1>2, QuietStep DEF releaseLock, ReleaseError, Running
<1>3. ASSUME NEW p \in Procs, SetNXError(p) PROVE LockInv'
  <2>1. CASE SetNX(p)
    BY <1>3, <2>1, LostAnswerInv
  <2>2. CASE UNCHANGED <<key, ttl, turns>>
    BY <1>0, <1>3, <2>2, QuietStep DEF SetNXError, Running
  <2> QED BY <1>3, <2>1, <2>2 DEF SetNXError
<1>4. ASSUME UNCHANGED vars PROVE LockInv'
  BY <1>4 DEF vars, LockInv, TypeOK, LeaseHeld, KeyLives, LastToSet, Called, InLease, Running, randomStr
<1> QED BY <1>1, <1>2, <1>3, <1>4, SetNXInv, CallInv, TickInv DEF Next, Step

\* Keys, ages, and the time that is left stay of their types, and calls within the bound.
THEOREM TypeCorrect == Spec => []TypeOK
<1>1. LockInv => TypeOK
  BY DEF LockInv
<1> QED BY <1>1, InitLockInv, NextLockInv, PTL DEF Spec

\* Two processes are never within their leases together, for any number of processes.
THEOREM LeaseExclusive == Spec => []OneInLease
<1>1. LockInv => OneInLease
  BY DEF LockInv, LeaseHeld, OneInLease, randomStr
<1> QED BY <1>1, InitLockInv, NextLockInv, PTL DEF Spec

\* A release that succeeds shows that the job had the lock to itself.
THEOREM ReleaseClean == Spec => CleanRelease
<1>1. LockInv /\ [Next]_vars
        => [\A p \in Procs : releaseLock(p) /\ key' # key => turn[p] = turns]_vars
  BY DEF LockInv, LastToSet, Running, releaseLock, releaseLockScript
<1> QED BY <1>1, InitLockInv, NextLockInv, PTL DEF Spec, CleanRelease

----------------------------------------------------------------------------
(* The lock implements the lease. *)

\* Only a SETNX that found no key brings a process into its lease.
LEMMA EnterLease ==
  ASSUME LockInv, [Next]_vars, NEW q \in Procs, InLease(q)', ~InLease(q)
  PROVE  \A p \in Procs : ~InLease(p)
<1>0. /\ pc \in [Procs -> {"idle", "try", "wait", "run", "release"}]
      /\ age \in [Procs -> 0..Expiration]
  BY DEF LockInv, TypeOK
<1>1. ASSUME NEW p \in Procs, lockAndRun(p) \/ AlreadyLocked(p) \/ TimerFires(p) \/ ContextDone(p)
             \/ SetNXError(p) \/ fn(p) \/ releaseLock(p) \/ ReleaseError(p) \/ Crash(p)
      PROVE  FALSE
  BY <1>0, <1>1 DEF lockAndRun, AlreadyLocked, TimerFires, ContextDone, SetNXError, fn, releaseLock,
     ReleaseError, Crash, InLease, Running
<1>2. ASSUME Tick PROVE FALSE
  BY <1>0, <1>2, LockAssumption DEF Tick, InLease, Running
<1>3. ASSUME NEW p \in Procs, acquireLock(p) PROVE \A r \in Procs : ~InLease(r)
  BY <1>3, SetNXKey DEF acquireLock
<1>4. ASSUME UNCHANGED vars PROVE FALSE
  BY <1>4 DEF vars, InLease, Running
<1> QED BY <1>1, <1>2, <1>3, <1>4 DEF Next, Step

LEMMA HolderIs ==
  ASSUME LockInv
  PROVE  /\ \A p \in Procs : InLease(p) => holder = p
         /\ (\A p \in Procs : ~InLease(p)) => holder = Nobody
<1>1. \A p, q \in Procs : InLease(p) /\ InLease(q) => p = q
  BY DEF LockInv, LeaseHeld, randomStr
<1> QED BY <1>1 DEF holder

\* Every behaviour of the lock is one of the lease.
THEOREM LockImplementsLease == Spec => ImplementsLease
<1>1. Init => AbstractLease!Init
  BY DEF Init, AbstractLease!Init, holder, InLease, Running
<1>2. LockInv /\ LockInv' /\ [Next]_vars => [AbstractLease!Next]_holder
  <2> SUFFICES ASSUME LockInv, LockInv', [Next]_vars, holder' # holder
               PROVE  AbstractLease!Next
    OBVIOUS
  <2>1. CASE \A p \in Procs : ~InLease(p)'
    <3>1. holder' = Nobody
      BY <2>1, HolderIs DEF holder
    <3> QED BY <3>1 DEF AbstractLease!Next, AbstractLease!End
  <2>2. ASSUME NEW q \in Procs, InLease(q)' PROVE AbstractLease!Next
    <3>1. holder' = q
      BY <2>2 DEF holder, LockInv, LeaseHeld, randomStr
    <3>2. ~InLease(q)
      BY <3>1, HolderIs
    <3>3. holder = Nobody
      BY <2>2, <3>2, EnterLease, HolderIs
    <3> QED BY <3>1, <3>3 DEF AbstractLease!Next, AbstractLease!Grant
  <2> QED BY <2>1, <2>2
<1> QED BY <1>1, <1>2, InitLockInv, NextLockInv, PTL DEF Spec, ImplementsLease, AbstractLease!Spec
=============================================================================
