---------------------------- MODULE ThreadProofs ----------------------------
(***************************************************************************)
(* Proofs about the Windows half of src/src/dmr/thread.c: the mutexes and  *)
(* condition variables (module ThreadSync), dmr_call_once (CallOnce), the  *)
(* timeouts (ThreadTime) and thread-specific storage (ThreadLocals), for   *)
(* any number of threads, which need not even be finite, and any numbers.  *)
(***************************************************************************)
EXTENDS ThreadSync, CallOnce, ThreadLocals, ThreadTime, FiniteSetTheorems, TLAPS

(***************************************************************************)
(* Mutexes and condition variables.  MutualExclusion and Reacquirable are  *)
(* about where the threads are; what keeps them is how the handle is held  *)
(* at each of these places, and how often.                                 *)
(***************************************************************************)
\* Points at which the calling thread holds the handle.
Inside == Holding \cup {"mark"}

\* The handle belongs to whoever is inside, twice if its lock is nested.  Others
\* may own it too: a kernel mutex that trylock was refused stays granted, and an
\* abandoned one is granted with an error.
HoldersOwn ==
    /\ \A t \in Thread : at[t] \in Inside => owner = t
    /\ \A t \in Thread : at[t] = "nested" => depth >= 2
    /\ owner = Nobody <=> depth = 0

\* A critical section is held by nobody else, and exactly as often.
SectionsHeld ==
    ~ mTimed =>
        /\ \A t \in Thread : at[t] # "gone"
        /\ owner # Nobody => /\ at[owner] \in Inside
                             /\ depth = IF at[owner] = "nested" THEN 2 ELSE 1
        /\ mAlreadyLocked => owner # Nobody

Waiters == {t \in Thread : at[t] \in Waiting}

\* The count is one of finitely many waiters, however many threads there are.
WaitersInv == IsFiniteSet(Waiters) /\ Cardinality(Waiters) =< mWaitersCount

SyncInv == SyncTypeOK /\ goods =< made /\ HoldersOwn /\ SectionsHeld /\ WaitersInv

\* The steps that leave the mutex alone: they move a thread from one point outside
\* to another, or from one inside to another.
Elsewhere(t) ==
    \/ dmr_mutex_lock(t) \/ dmr_mutex_timedlock(t) \/ LockTimesOut(t)
    \/ Work(t) \/ WakeByOne(t) \/ WakeByAll(t) \/ WaitTimesOut(t) \/ Uncount(t)
    \/ ResetAll(t) \/ HaveWaiters(t) \/ dmr_cond_signal(t) \/ dmr_cond_broadcast(t)

USE DEF Holding, Waiting, Point, Inside

\* Such a step moves its thread and does not let it into the mutex or out of it.
LEMMA ElsewhereMoves ==
    ASSUME SyncTypeOK, NEW t \in Thread, Elsewhere(t)
    PROVE  /\ UNCHANGED mutex
           /\ \E p \in Point \ {"nested", "gone"} :
                /\ Move(t, p)
                /\ at[t] \notin {"nested", "gone"}
                /\ at[t] \in Inside <=> p \in Inside
  <1> USE DEF SyncTypeOK
  <1>1. CASE dmr_mutex_lock(t) \/ dmr_mutex_timedlock(t) \/ LockTimesOut(t)
    BY <1>1 DEF dmr_mutex_lock, dmr_mutex_timedlock, LockTimesOut
  <1>2. CASE Work(t)
    BY <1>2 DEF Work, Take, dmr_cond_wait, CountWaiter, Put, Idle, mutex
  <1>3. CASE WakeByOne(t) \/ WakeByAll(t) \/ WaitTimesOut(t)
    BY <1>3 DEF WakeByOne, WakeByAll, WaitTimesOut
  <1>4. CASE Uncount(t)
    BY <1>4 DEF Uncount
  <1>5. CASE ResetAll(t) \/ HaveWaiters(t) \/ dmr_cond_signal(t) \/ dmr_cond_broadcast(t)
    BY <1>5 DEF ResetAll, HaveWaiters, dmr_cond_signal, dmr_cond_broadcast
  <1> QED
    BY <1>1, <1>2, <1>3, <1>4, <1>5 DEF Elsewhere

\* Such a step keeps what the mutex says of its owner, and the sections held.
LEMMA ElsewhereOwns ==
    ASSUME SyncInv, NEW t \in Thread, Elsewhere(t)
    PROVE  HoldersOwn' /\ SectionsHeld'
  <1>1. UNCHANGED mutex
    BY ElsewhereMoves DEF SyncInv
  <1>2. PICK p \in Point \ {"nested", "gone"} :
            /\ Move(t, p)
            /\ at[t] \notin {"nested", "gone"}
            /\ at[t] \in Inside <=> p \in Inside
    BY ElsewhereMoves DEF SyncInv
  <1>3. at' = [at EXCEPT ![t] = p] /\ at \in [Thread -> Point]
    BY <1>2 DEF Move, SyncInv, SyncTypeOK
  <1>4. UNCHANGED <<owner, depth, mTimed, mAlreadyLocked>>
    BY <1>1 DEF mutex
  <1>5. owner \in Thread \cup {Nobody}
    BY DEF SyncInv, SyncTypeOK
  <1>6. HoldersOwn'
    BY <1>2, <1>3, <1>4 DEF SyncInv, HoldersOwn
  <1>7. SectionsHeld'
    BY <1>2, <1>3, <1>4, <1>5 DEF SyncInv, SectionsHeld
  <1> QED
    BY <1>6, <1>7

\* Whoever is granted the handle finds nobody inside: a handle is free, the
\* caller's or abandoned, and the dead are not inside.
LEMMA GrantedOwns ==
    ASSUME SyncInv, NEW t \in Thread, Granted(t)
    PROVE  /\ \A u \in Thread : at[u] \in Inside => u = t
           /\ owner' = t /\ depth' \in 1 .. MaxDepth
           /\ at[t] \in Inside => depth' = depth + 1
           /\ ~ mTimed /\ at[t] \notin Inside => owner = Nobody /\ depth' = 1
           /\ ~ mTimed => ~ Abandoned
  <1>1. \A u \in Thread : at[u] \in Inside => owner = u
    BY DEF SyncInv, HoldersOwn
  <1>2. owner # Nobody => owner \in Thread
    BY DEF SyncInv, SyncTypeOK
  <1>3. \A u \in Thread : at[u] \in Inside => u = t
    BY <1>1, SyncAssumption DEF Granted, Abandoned
  <1>4. owner' = t /\ depth' \in 1 .. MaxDepth
    BY SyncAssumption DEF Granted, SyncInv, SyncTypeOK
  <1>5. at[t] \in Inside => depth' = depth + 1
    BY <1>1 DEF Granted
  <1>6. ~ mTimed => ~ Abandoned
    BY <1>2 DEF SyncInv, SectionsHeld, Abandoned
  <1>7. ~ mTimed /\ at[t] \notin Inside => owner = Nobody /\ depth' = 1
    BY <1>6, SyncAssumption DEF Granted, SyncInv, SectionsHeld
  <1> QED
    BY <1>3, <1>4, <1>5, <1>6, <1>7

\* The handle is granted and the caller comes in, one lock deeper if it was inside.
LEMMA ComesIn ==
    ASSUME SyncInv, NEW t \in Thread, NEW p \in Inside, Granted(t), Move(t, p),
           at[t] \notin {"nested", "gone"}, p = "nested" <=> at[t] \in Inside,
           UNCHANGED mTimed
    PROVE  HoldersOwn' /\ SectionsHeld'
  <1>1. /\ \A u \in Thread : at[u] \in Inside => u = t
        /\ owner' = t /\ depth' \in 1 .. MaxDepth
        /\ at[t] \in Inside => depth' = depth + 1
        /\ ~ mTimed /\ at[t] \notin Inside => owner = Nobody /\ depth' = 1
    BY GrantedOwns
  <1>2. at' = [at EXCEPT ![t] = p] /\ at \in [Thread -> Point] /\ depth \in Nat /\ MaxDepth \in Nat
    BY SyncAssumption DEF Move, SyncInv, SyncTypeOK
  <1>3. at[t] \in Inside => owner = t /\ depth # 0
    BY SyncAssumption DEF SyncInv, HoldersOwn
  <1>4. p = "nested" => depth' >= 2
    BY <1>1, <1>2, <1>3
  <1>5. HoldersOwn'
    BY <1>1, <1>2, <1>4, SyncAssumption DEF HoldersOwn
  <1>6. ~ mTimed => depth' = IF p = "nested" THEN 2 ELSE 1
    BY <1>1, <1>2, <1>3, SyncAssumption DEF SyncInv, SectionsHeld
  <1>7. SectionsHeld'
    BY <1>1, <1>2, <1>6, SyncAssumption DEF SyncInv, SectionsHeld
  <1> QED
    BY <1>5, <1>7

\* The handle is granted although the call says that it is not: only a kernel
\* mutex is, and its caller stays where it was or goes back to "idle".
LEMMA RefusedOwns ==
    ASSUME SyncInv, NEW t \in Thread, Granted(t), mTimed,
           at[t] # "nested", at' = at \/ (Move(t, "idle") /\ at[t] \notin Inside),
           UNCHANGED mTimed
    PROVE  HoldersOwn' /\ SectionsHeld'
  <1>1. /\ \A u \in Thread : at[u] \in Inside => u = t
        /\ owner' = t /\ depth' \in 1 .. MaxDepth
    BY GrantedOwns
  <1>2. at \in [Thread -> Point] /\ MaxDepth \in Nat
    BY SyncAssumption DEF SyncInv, SyncTypeOK
  <1>3. HoldersOwn'
    BY <1>1, <1>2, SyncAssumption DEF HoldersOwn, Move
  <1>4. SectionsHeld'
    BY DEF SectionsHeld
  <1> QED
    BY <1>3, <1>4

\* dmr_mutex_lock, dmr_mutex_timedlock and the end of a wait.
LEMMA EnterOwns ==
    ASSUME SyncInv, NEW t \in Thread, Enter(t)
    PROVE  HoldersOwn' /\ SectionsHeld'
  <1>1. /\ at[t] \in {"enter", "timed", "relock"} /\ Granted(t)
        /\ Move(t, AfterGrant(t)) /\ UNCHANGED mTimed
    BY DEF Enter
  <1>2. CASE AfterGrant(t) \in {"critical", "mark"}
    BY <1>1, <1>2, ComesIn
  <1>3. CASE AfterGrant(t) = "idle"
    <2>1. Abandoned
      BY <1>3 DEF AfterGrant
    <2>2. mTimed
      BY <1>1, <2>1, GrantedOwns DEF SyncInv, SyncTypeOK
    <2> QED
      BY <1>1, <1>3, <2>2, RefusedOwns
  <1> QED
    BY <1>2, <1>3 DEF AfterGrant

\* dmr_mutex_trylock, from outside or by a holder.
LEMMA TrylockOwns ==
    ASSUME SyncInv, NEW t \in Thread, dmr_mutex_trylock(t)
    PROVE  HoldersOwn' /\ SectionsHeld'
  <1>1. PICK won \in {"critical", "nested"} :
            /\ Trylock(t, won)
            /\ at[t] = IF won = "critical" THEN "idle" ELSE "critical"
    BY DEF dmr_mutex_trylock
  <1>2. UNCHANGED mTimed
    BY <1>1 DEF Trylock
  <1>3. CASE Abandoned /\ Granted(t) /\ UNCHANGED at
    BY <1>1, <1>2, <1>3, GrantedOwns, RefusedOwns DEF SyncInv, SyncTypeOK
  <1>4. CASE Granted(t) /\ Move(t, won)
    BY <1>1, <1>2, <1>4, ComesIn
  <1>5. CASE ~ Abandoned /\ ~ mRecursive /\ TryMark(t, won)
    <2>1. CASE mAlreadyLocked /\ ~ mTimed
      <3>1. UNCHANGED <<owner, depth>> /\ at' = at
        BY <1>5, <2>1 DEF TryMark, Move, SyncInv, SyncTypeOK
      <3> QED
        BY <1>2, <2>1, <3>1 DEF SyncInv, HoldersOwn, SectionsHeld
    <2>2. CASE mAlreadyLocked /\ mTimed
      <3>1. Granted(t) /\ at' = at
        BY <1>5, <2>2 DEF TryMark, Move, SyncInv, SyncTypeOK
      <3> QED
        BY <1>1, <1>2, <2>2, <3>1, RefusedOwns
    <2>3. CASE ~ mAlreadyLocked
      BY <1>4, <1>5, <2>3 DEF TryMark
    <2> QED
      BY <2>1, <2>2, <2>3
  <1> QED
    BY <1>1, <1>3, <1>4, <1>5 DEF Trylock

\* Marking a mutex as locked, and the death of a holder.
LEMMA MarkOrExitOwns ==
    ASSUME SyncInv, NEW t \in Thread, Mark(t) \/ ExitHolding(t)
    PROVE  HoldersOwn' /\ SectionsHeld'
  <1>1. at \in [Thread -> Point] /\ owner \in Thread \cup {Nobody}
    BY DEF SyncInv, SyncTypeOK
  <1>2. CASE Mark(t)
    <2>1. at' = [at EXCEPT ![t] = "critical"] /\ at[t] = "mark"
            /\ UNCHANGED <<owner, depth, mTimed>>
      BY <1>2 DEF Mark, Move
    <2>2. owner = t
      BY <2>1 DEF SyncInv, HoldersOwn
    <2> QED
      BY <1>1, <2>1, <2>2, SyncAssumption DEF SyncInv, HoldersOwn, SectionsHeld
  <1>3. CASE ExitHolding(t)
    <2>1. at' = [at EXCEPT ![t] = "gone"] /\ mTimed /\ UNCHANGED <<owner, depth, mTimed>>
      BY <1>3 DEF ExitHolding, Move, mutex
    <2> QED
      BY <1>1, <2>1 DEF SyncInv, HoldersOwn, SectionsHeld
  <1> QED
    BY <1>2, <1>3

\* Unlocking, by dmr_mutex_unlock or at the beginning of a wait.
LEMMA ReleaseOwns ==
    ASSUME SyncInv, NEW t \in Thread, dmr_mutex_unlock(t) \/ Block(t)
    PROVE  HoldersOwn' /\ SectionsHeld' /\ depth' \in 0 .. MaxDepth
  <1>1. PICK p \in {"critical", "done", "idle", "blocked"} :
            /\ Move(t, p)
            /\ at[t] \in {"nested", "leave", "counted"}
            /\ p = "critical" <=> at[t] = "nested"
    BY DEF dmr_mutex_unlock, Block
  <1>2. Release(t) /\ UNCHANGED mTimed
    BY DEF dmr_mutex_unlock, Block, WaitUnlock
  <1>3. at' = [at EXCEPT ![t] = p] /\ at \in [Thread -> Point] /\ depth \in 0 .. MaxDepth
    BY <1>1 DEF Move, SyncInv, SyncTypeOK
  <1>4. owner = t /\ depth >= 1 /\ (at[t] = "nested" => depth >= 2) /\ t # Nobody
    BY <1>1, <1>3, SyncAssumption DEF SyncInv, HoldersOwn
  <1>5. \A u \in Thread : at[u] \in Inside => u = t
    BY <1>4 DEF SyncInv, HoldersOwn
  <1>6. /\ depth' = depth - 1 /\ mAlreadyLocked' = FALSE
        /\ owner' = IF depth = 1 THEN Nobody ELSE t
    BY <1>2, <1>4 DEF Release
  <1>7. HoldersOwn'
    BY <1>1, <1>3, <1>4, <1>5, <1>6 DEF HoldersOwn
  <1>8. SectionsHeld'
    <2>1. ~ mTimed => depth = IF at[t] = "nested" THEN 2 ELSE 1
      BY <1>4 DEF SyncInv, SectionsHeld
    <2> QED
      BY <1>1, <1>2, <1>3, <1>4, <1>6, <2>1 DEF SyncInv, SectionsHeld
  <1> QED
    BY <1>3, <1>4, <1>6, <1>7, <1>8, SyncAssumption

\* How the handle is held stays right.
LEMMA OwnsStep == SyncInv /\ [SyncNext]_syncVars => HoldersOwn' /\ SectionsHeld'
  <1> SUFFICES ASSUME SyncInv, [SyncNext]_syncVars
               PROVE  HoldersOwn' /\ SectionsHeld'
    OBVIOUS
  <1>1. CASE UNCHANGED syncVars
    BY <1>1 DEF syncVars, mutex, SyncInv, HoldersOwn, SectionsHeld
  <1>2. ASSUME NEW t \in Thread,
               \/ Elsewhere(t) \/ Enter(t) \/ dmr_mutex_trylock(t) \/ Mark(t)
               \/ ExitHolding(t) \/ dmr_mutex_unlock(t) \/ Block(t)
        PROVE  HoldersOwn' /\ SectionsHeld'
    BY <1>2, ElsewhereOwns, EnterOwns, TrylockOwns, MarkOrExitOwns, ReleaseOwns
  <1> QED
    BY <1>1, <1>2 DEF SyncNext, Progress, Elsewhere

\* The handle's depth stays in its bounds.
LEMMA DepthStep ==
    ASSUME SyncInv, [SyncNext]_syncVars
    PROVE  owner' \in Thread \cup {Nobody} /\ depth' \in 0 .. MaxDepth
  <1>1. ASSUME NEW t \in Thread, Granted(t)
        PROVE  owner' \in Thread \cup {Nobody} /\ depth' \in 0 .. MaxDepth
    BY <1>1, GrantedOwns, SyncAssumption
  <1>2. ASSUME NEW t \in Thread, dmr_mutex_unlock(t) \/ Block(t)
        PROVE  owner' \in Thread \cup {Nobody} /\ depth' \in 0 .. MaxDepth
    <2>1. owner' \in {owner, Nobody}
      BY <1>2 DEF dmr_mutex_unlock, Block, WaitUnlock, Release
    <2> QED
      BY <1>2, <2>1, ReleaseOwns DEF SyncInv, SyncTypeOK
  <1>3. CASE UNCHANGED <<owner, depth>>
    BY <1>3 DEF SyncInv, SyncTypeOK
  <1>4. ASSUME NEW t \in Thread,
               Elsewhere(t) \/ Enter(t) \/ dmr_mutex_trylock(t) \/ Mark(t) \/ ExitHolding(t)
        PROVE  UNCHANGED <<owner, depth>> \/ Granted(t)
    <2>1. CASE Elsewhere(t)
      BY <2>1, ElsewhereMoves DEF SyncInv, mutex
    <2>2. CASE Enter(t)
      BY <2>2 DEF Enter
    <2>3. CASE dmr_mutex_trylock(t)
      BY <2>3 DEF dmr_mutex_trylock, Trylock, TryMark
    <2>4. CASE Mark(t) \/ ExitHolding(t)
      BY <2>4 DEF Mark, ExitHolding, mutex
    <2> QED
      BY <1>4, <2>1, <2>2, <2>3, <2>4
  <1> QED
    BY <1>1, <1>2, <1>3, <1>4 DEF SyncNext, Progress, Elsewhere, syncVars, mutex

\* Every thread stays at a point of the program, and the flags stay flags.
LEMMA FlagsStep ==
    ASSUME SyncTypeOK, [SyncNext]_syncVars
    PROVE  /\ mTimed' \in BOOLEAN /\ mRecursive' \in BOOLEAN /\ mAlreadyLocked' \in BOOLEAN
           /\ one' \in BOOLEAN /\ all' \in BOOLEAN /\ merged' \in BOOLEAN
           /\ at' \in [Thread -> Point]
  <1> USE DEF SyncTypeOK
  <1>1. CASE UNCHANGED syncVars
    BY <1>1 DEF syncVars, mutex, cond
  <1>2. ASSUME NEW t \in Thread, Elsewhere(t)
        PROVE  /\ UNCHANGED mutex /\ at' \in [Thread -> Point]
               /\ one' \in BOOLEAN /\ all' \in BOOLEAN /\ merged' \in BOOLEAN
    <2>1. UNCHANGED mutex /\ at' \in [Thread -> Point]
      BY <1>2, ElsewhereMoves DEF Move
    <2>2. one' \in BOOLEAN /\ all' \in BOOLEAN /\ merged' \in BOOLEAN
      BY <1>2 DEF Elsewhere, dmr_mutex_lock, dmr_mutex_timedlock, LockTimesOut, Work,
         Take, dmr_cond_wait, Put, Idle, WakeByOne, WakeByAll, WaitTimesOut, Uncount,
         ResetAll, HaveWaiters, dmr_cond_signal, dmr_cond_broadcast, cond
    <2> QED
      BY <2>1, <2>2
  <1>3. ASSUME NEW t \in Thread, Enter(t) \/ Mark(t) \/ ExitHolding(t)
        PROVE  /\ mTimed' \in BOOLEAN /\ mRecursive' \in BOOLEAN /\ mAlreadyLocked' \in BOOLEAN
               /\ one' \in BOOLEAN /\ all' \in BOOLEAN /\ merged' \in BOOLEAN /\ at' \in [Thread -> Point]
    <2>1. AfterGrant(t) \in Point
      BY DEF AfterGrant
    <2>2. CASE Enter(t)
      BY <2>1, <2>2 DEF Enter, Move, cond
    <2>3. CASE Mark(t)
      BY <2>3 DEF Mark, Move, cond
    <2>4. CASE ExitHolding(t)
      BY <2>4 DEF ExitHolding, Move, mutex, cond
    <2> QED
      BY <1>3, <2>2, <2>3, <2>4
  <1>4. ASSUME NEW t \in Thread, dmr_mutex_trylock(t)
        PROVE  /\ mTimed' \in BOOLEAN /\ mRecursive' \in BOOLEAN /\ mAlreadyLocked' \in BOOLEAN
               /\ one' \in BOOLEAN /\ all' \in BOOLEAN /\ merged' \in BOOLEAN /\ at' \in [Thread -> Point]
    BY <1>4 DEF dmr_mutex_trylock, Trylock, TryMark, Move, cond
  <1>5. ASSUME NEW t \in Thread, dmr_mutex_unlock(t) \/ Block(t)
        PROVE  /\ mTimed' \in BOOLEAN /\ mRecursive' \in BOOLEAN /\ mAlreadyLocked' \in BOOLEAN
               /\ one' \in BOOLEAN /\ all' \in BOOLEAN /\ merged' \in BOOLEAN /\ at' \in [Thread -> Point]
    BY <1>5 DEF dmr_mutex_unlock, Block, WaitUnlock, Release, Move, cond
  <1>6. ASSUME UNCHANGED mutex
        PROVE  mTimed' \in BOOLEAN /\ mRecursive' \in BOOLEAN /\ mAlreadyLocked' \in BOOLEAN
    BY <1>6 DEF mutex
  <1> QED
    BY <1>1, <1>2, <1>3, <1>4, <1>5, <1>6 DEF SyncNext, Progress, Elsewhere

\* There is never more to take than was made, and not more than the bound.
LEMMA GoodsStep ==
    ASSUME SyncInv, [SyncNext]_syncVars
    PROVE  /\ mode' \in WakeModes /\ goods' \in 0 .. MaxGoods /\ made' \in 0 .. MaxGoods
           /\ goods' =< made'
  <1> USE DEF SyncInv, SyncTypeOK
  <1>1. CASE UNCHANGED client
    BY <1>1 DEF client
  <1>2. ASSUME NEW t \in Thread, Take(t)
        PROVE  /\ mode' \in WakeModes /\ goods' \in 0 .. MaxGoods /\ made' \in 0 .. MaxGoods
               /\ goods' =< made'
    BY <1>2, SyncAssumption DEF Take
  <1>3. ASSUME NEW t \in Thread, Put(t)
        PROVE  /\ mode' \in WakeModes /\ goods' \in 0 .. MaxGoods /\ made' \in 0 .. MaxGoods
               /\ goods' =< made'
    <2>1. made < MaxGoods
      <3>1. CASE mode = "latch"
        BY <1>3, <3>1, SyncAssumption DEF Put, Busy
      <3>2. CASE mode = "signal"
        BY <1>3, <3>2, SyncAssumption DEF Put, Busy
      <3>3. CASE mode = "broadcast"
        BY <1>3, <3>3, SyncAssumption DEF Put, Busy
      <3> QED
        BY <3>1, <3>2, <3>3 DEF WakeModes
    <2> QED
      BY <1>3, <2>1, SyncAssumption DEF Put
  <1>4. ASSUME NEW t \in Thread,
               \/ dmr_mutex_lock(t) \/ dmr_mutex_timedlock(t) \/ dmr_mutex_trylock(t)
               \/ Enter(t) \/ ExitHolding(t) \/ WaitTimesOut(t) \/ Progress(t)
               \/ dmr_cond_wait(t) \/ Idle(t)
        PROVE  UNCHANGED client
    BY <1>4 DEF dmr_mutex_lock, dmr_mutex_timedlock, dmr_mutex_trylock, Trylock, Enter,
       ExitHolding, WaitTimesOut, Progress, Mark, dmr_mutex_unlock, LockTimesOut, Block,
       WakeByOne, WakeByAll, Uncount, ResetAll, HaveWaiters, dmr_cond_signal,
       dmr_cond_broadcast, dmr_cond_wait, Idle, client
  <1> QED
    BY <1>1, <1>2, <1>3, <1>4 DEF SyncNext, Work, syncVars

\* A thread begins to wait, or does not wait any more.
LEMMA WaitersChange ==
    ASSUME SyncInv, NEW t \in Thread, NEW p \in Point, Move(t, p)
    PROVE  /\ p \in Waiting => Waiters' = Waiters \cup {t}
           /\ p \notin Waiting => Waiters' = Waiters \ {t}
  BY DEF Move, Waiters, SyncInv, SyncTypeOK

\* The count is at least the number of the waiters that were not woken.
LEMMA WaitersStep ==
    ASSUME SyncInv, [SyncNext]_syncVars
    PROVE  WaitersInv' /\ mWaitersCount' \in 0 .. MaxWaiters
  <1> USE DEF SyncInv, WaitersInv
  <1>1. mWaitersCount \in 0 .. MaxWaiters /\ MaxWaiters \in Nat /\ Cardinality(Waiters) \in Nat
    BY SyncAssumption, FS_CardinalityType DEF SyncTypeOK
  <1>2. CASE UNCHANGED <<at, mWaitersCount>>
    BY <1>1, <1>2 DEF Waiters
  <1>3. ASSUME NEW t \in Thread, NEW p \in Point, Move(t, p),
               at[t] \in Waiting <=> p \in Waiting, UNCHANGED mWaitersCount
        PROVE  WaitersInv' /\ mWaitersCount' \in 0 .. MaxWaiters
    <2>1. Waiters' = Waiters
      BY <1>3, WaitersChange DEF Waiters
    <2> QED
      BY <1>1, <1>3, <2>1
  <1>4. ASSUME NEW t \in Thread, NEW p \in Point, Move(t, p),
               at[t] \in Waiting, p \notin Waiting, mWaitersCount' \in {mWaitersCount, mWaitersCount - 1}
        PROVE  WaitersInv' /\ mWaitersCount' \in 0 .. MaxWaiters
    <2>1. Waiters' = Waiters \ {t} /\ t \in Waiters
      BY <1>4, WaitersChange DEF Waiters
    <2>2. IsFiniteSet(Waiters') /\ Cardinality(Waiters') = Cardinality(Waiters) - 1
      BY <2>1, FS_RemoveElement
    <2>3. Cardinality(Waiters') \in Nat
      BY <2>2, FS_CardinalityType
    <2> QED
      BY <1>1, <1>4, <2>2, <2>3
  <1>5. ASSUME NEW t \in Thread, dmr_cond_wait(t)
        PROVE  WaitersInv' /\ mWaitersCount' \in 0 .. MaxWaiters
    <2>1. mWaitersCount' = mWaitersCount + 1 /\ mWaitersCount < MaxWaiters /\ Move(t, "counted")
      BY <1>5 DEF dmr_cond_wait, CountWaiter
    <2>2. Waiters' = Waiters \cup {t} /\ t \notin Waiters
      BY <1>5, <2>1, WaitersChange DEF dmr_cond_wait, Waiters
    <2>3. IsFiniteSet(Waiters') /\ Cardinality(Waiters') = Cardinality(Waiters) + 1
      BY <2>2, FS_AddElement
    <2> QED
      BY <1>1, <2>1, <2>3
  <1>6. ASSUME NEW t \in Thread, WaitTimesOut(t) \/ Uncount(t)
        PROVE  WaitersInv' /\ mWaitersCount' \in 0 .. MaxWaiters
    <2>1. CASE WaitTimesOut(t)
      BY <1>4, <2>1 DEF WaitTimesOut, cond
    <2>2. CASE Uncount(t)
      BY <1>4, <2>2 DEF Uncount
    <2> QED
      BY <1>6, <2>1, <2>2
  <1>7. ASSUME NEW t \in Thread,
               \/ dmr_mutex_lock(t) \/ dmr_mutex_timedlock(t) \/ dmr_mutex_trylock(t)
               \/ Enter(t) \/ ExitHolding(t) \/ Take(t) \/ Put(t) \/ Idle(t)
               \/ Mark(t) \/ dmr_mutex_unlock(t) \/ LockTimesOut(t) \/ Block(t)
               \/ WakeByOne(t) \/ WakeByAll(t) \/ ResetAll(t) \/ HaveWaiters(t)
               \/ dmr_cond_signal(t) \/ dmr_cond_broadcast(t)
        PROVE  /\ UNCHANGED mWaitersCount
               /\ \/ UNCHANGED at
                  \/ \E p \in Point : Move(t, p) /\ (at[t] \in Waiting <=> p \in Waiting)
    <2>1. CASE \/ dmr_mutex_lock(t) \/ dmr_mutex_timedlock(t) \/ ExitHolding(t) \/ Take(t)
               \/ Put(t) \/ Idle(t) \/ Mark(t) \/ LockTimesOut(t) \/ Block(t)
      BY <2>1 DEF dmr_mutex_lock, dmr_mutex_timedlock, ExitHolding, Take, Put, Idle, Mark,
         LockTimesOut, Block, WaitUnlock, cond
    <2>2. CASE \/ dmr_mutex_unlock(t) \/ WakeByOne(t) \/ WakeByAll(t) \/ ResetAll(t)
               \/ HaveWaiters(t) \/ dmr_cond_signal(t) \/ dmr_cond_broadcast(t)
      BY <2>2 DEF dmr_mutex_unlock, WakeByOne, WakeByAll, ResetAll, HaveWaiters,
         dmr_cond_signal, dmr_cond_broadcast, cond
    <2>3. CASE Enter(t)
      <3>1. AfterGrant(t) \in {"critical", "idle", "mark"}
        BY DEF AfterGrant
      <3> QED
        BY <2>3, <3>1 DEF Enter, cond
    <2>4. CASE dmr_mutex_trylock(t)
      <3>1. PICK won \in {"critical", "nested"} : Trylock(t, won) /\ at[t] \in {"idle", "critical"}
        BY <2>4 DEF dmr_mutex_trylock
      <3>2. UNCHANGED at \/ Move(t, won) \/ Move(t, at[t])
        BY <3>1 DEF Trylock, TryMark
      <3> QED
        BY <3>1, <3>2 DEF Trylock, cond
    <2> QED
      BY <1>7, <2>1, <2>2, <2>3, <2>4
  <1> QED
    BY <1>2, <1>3, <1>5, <1>6, <1>7 DEF SyncNext, Work, Progress, syncVars, cond

\* The strengthening of LocksSound that every step keeps.
LEMMA SyncStep == SyncInv /\ [SyncNext]_syncVars => SyncInv'
  BY OwnsStep, DepthStep, FlagsStep, GoodsStep, WaitersStep DEF SyncInv, SyncTypeOK

\* One holder at a time, none left behind, and nobody waiting uncounted, whichever
\* lock calls the threads use on whichever of the four mutex types, and although
\* holders of a kernel mutex may die (dmr_mutex_*, _dmr_cond_timedwait_win32).
THEOREM LocksAreSound == SyncSpec => []LocksSound
  <1>1. SyncInit => SyncInv
    <2> SUFFICES ASSUME SyncInit PROVE SyncInv
      OBVIOUS
    <2>1. Waiters = {}
      BY DEF SyncInit, Waiters
    <2>2. WaitersInv
      BY <2>1, FS_EmptySet DEF SyncInit, WaitersInv
    <2>3. SyncTypeOK /\ goods =< made
      <3>1. at \in [Thread -> Point]
        BY DEF SyncInit
      <3>2. mode \in WakeModes
        BY SyncAssumption DEF SyncInit
      <3>3. /\ mTimed \in BOOLEAN /\ mRecursive \in BOOLEAN /\ mAlreadyLocked \in BOOLEAN
            /\ one \in BOOLEAN /\ all \in BOOLEAN /\ merged \in BOOLEAN
        BY DEF SyncInit
      <3>4. /\ owner \in Thread \cup {Nobody} /\ depth \in 0 .. MaxDepth
            /\ mWaitersCount \in 0 .. MaxWaiters
            /\ goods \in 0 .. MaxGoods /\ made \in 0 .. MaxGoods /\ goods =< made
        BY SyncAssumption DEF SyncInit
      <3> QED
        BY <3>1, <3>2, <3>3, <3>4 DEF SyncTypeOK
    <2>4. HoldersOwn /\ SectionsHeld
      BY DEF SyncInit, HoldersOwn, SectionsHeld
    <2> QED
      BY <2>2, <2>3, <2>4 DEF SyncInv
  <1>2. SyncInv => LocksSound
    <2> SUFFICES ASSUME SyncInv PROVE LocksSound
      OBVIOUS
    <2>1. MutualExclusion
      BY DEF SyncInv, HoldersOwn, MutualExclusion
    <2>2. WaitersCounted
      BY DEF SyncInv, WaitersInv, WaitersCounted, Waiters
    <2>3. Reacquirable
      BY DEF SyncInv, SyncTypeOK, HoldersOwn, SectionsHeld, Reacquirable
    <2> QED
      BY <2>1, <2>2, <2>3 DEF SyncInv, LocksSound
  <1> QED
    BY <1>1, <1>2, SyncStep, PTL DEF SyncSpec

----------------------------------------------------------------------------
(***************************************************************************)
(* dmr_call_once.  One caller at most wins the compare-and-swap; where it  *)
(* is tells the status, whether the lock exists and whether the callback   *)
(* was called and has returned.                                            *)
(***************************************************************************)
Winning == {"init", "lock", "publish", "func", "infunc", "close", "unlock"}

\* What the place t has reached says of the flag.
StageFits(t) ==
    /\ stage[t] \in {"init", "lock", "publish"} => status = 1
    /\ stage[t] \in {"func", "infunc", "close"} => status = 2
    /\ stage[t] \in {"unlock", "returned"} => status = 3
    /\ stage[t] \in {"enter", "exit"} => status >= 2
    /\ stage[t] \in {"lock", "publish"} => created
    /\ stage[t] \in {"init", "lock", "publish", "func"} => calls = 0
    /\ stage[t] = "close" => finished

OnceInv ==
    /\ OnceTypeOK
    /\ \A t, u \in Caller : stage[t] \in Winning /\ stage[u] \in Winning => t = u
    /\ \A t \in Caller : StageFits(t)
    /\ status = 0 => calls = 0
    /\ status >= 2 => created
    /\ status = 3 => finished

\* A step of a caller outside the winner's part changes only where it is.
LEMMA LoserStep ==
    ASSUME OnceInv, NEW t \in Caller, NEW p \in Stage \ Winning,
           stage' = [stage EXCEPT ![t] = p],
           UNCHANGED <<status, created, calls, finished>>,
           inside' \in Caller \cup {NoCaller},
           p = "returned" => status = 3,
           p \in {"enter", "exit"} => status >= 2
    PROVE  OnceInv'
  BY DEF OnceInv, OnceTypeOK, StageFits, Stage, Winning

\* A step of the winner, to the next of its places.
LEMMA WinnerStep ==
    ASSUME OnceInv, NEW t \in Caller, NEW p \in Stage,
           stage' = [stage EXCEPT ![t] = p],
           stage[t] \in Winning \/ status = 0,
           OnceTypeOK', StageFits(t)',
           \A u \in Caller \ {t} : StageFits(u)',
           status' # 0, status' >= 2 => created', status' = 3 => finished'
    PROVE  OnceInv'
  <1>1. \A u \in Caller : stage[u] \in Winning => status # 0
    BY DEF OnceInv, StageFits, Winning
  <1>2. \A u \in Caller \ {t} : stage'[u] \notin Winning
    BY <1>1 DEF OnceInv, OnceTypeOK
  <1> QED
    BY <1>2 DEF OnceInv

\* Every step of dmr_call_once, of a winner or of a loser of the exchange, keeps
\* the invariant.
LEMMA OnceInvStep == OnceInv /\ [OnceNext]_onceVars => OnceInv'
  <1> SUFFICES ASSUME OnceInv, [OnceNext]_onceVars
               PROVE  OnceInv'
    OBVIOUS
  <1>1. CASE UNCHANGED onceVars
    BY <1>1 DEF onceVars, OnceInv, OnceTypeOK, StageFits
  <1>2. ASSUME NEW t \in Caller, OnceStep(t)
        PROVE  OnceInv'
    <2>1. status \in 0 .. 3 /\ stage \in [Caller -> Stage] /\ calls \in 0 .. 1
            /\ inside \in Caller \cup {NoCaller} /\ StageFits(t)
      BY DEF OnceInv, OnceTypeOK
    <2>2. CASE LoopTest(t)
      <3>1. PICK p \in {"switch", "returned"} :
                stage' = [stage EXCEPT ![t] = p] /\ (p = "returned" => status = 3)
        <4>1. CASE status < 3
          BY <2>2, <4>1 DEF LoopTest, Go
        <4>2. CASE status = 3
          BY <2>2, <4>2 DEF LoopTest, Go
        <4> QED
          BY <2>1, <4>1, <4>2
      <3> QED
        BY <2>1, <2>2, <3>1, LoserStep DEF LoopTest, Stage, Winning
    <2>3. CASE Switch(t)
      <3>1. SwitchTo[status + 1] \in {"cas", "loop", "enter"}
                /\ (SwitchTo[status + 1] = "enter" => status >= 2)
        <4>1. status = 0 \/ status = 1 \/ status = 2 \/ status = 3
          BY <2>1
        <4> QED
          BY <4>1 DEF SwitchTo
      <3> QED
        BY <2>1, <2>3, <3>1, LoserStep DEF Switch, Go, Stage, Winning
    <2>4. CASE CompareExchange(t)
      <3>1. CASE status = 0
        <4>1. /\ stage' = [stage EXCEPT ![t] = "init"] /\ status' = 1
              /\ UNCHANGED <<created, inside, calls, finished>>
          BY <2>4, <3>1 DEF CompareExchange, Go, Swap
        <4>2. \A u \in Caller \ {t} : StageFits(u)'
          BY <2>1, <3>1, <4>1 DEF StageFits, OnceInv
        <4>3. StageFits(t)'
          BY <2>1, <3>1, <4>1 DEF StageFits, OnceInv
        <4>4. OnceTypeOK'
          BY <4>1 DEF OnceInv, OnceTypeOK, Stage
        <4>5. "init" \in Stage /\ status' # 0 /\ ~ (status' >= 2) /\ status' # 3
          BY <4>1 DEF Stage
        <4> QED
          BY <3>1, <4>1, <4>2, <4>3, <4>4, <4>5, WinnerStep
      <3>2. CASE status # 0
        BY <2>1, <2>4, <3>2, LoserStep DEF CompareExchange, Go, Swap, Stage, Winning
      <3> QED
        BY <3>1, <3>2
    <2>5. CASE Go(t, "enter", "exit") /\ EnterLock(t)
      BY <2>1, <2>5, LoserStep DEF EnterLock, Go, StageFits, Stage, Winning
    <2>6. CASE Go(t, "exit", "loop") /\ LeaveLock(t)
      BY <2>1, <2>6, LoserStep DEF LeaveLock, Go, Stage, Winning
    <2>7. CASE Go(t, "unlock", "returned") /\ LeaveLock(t)
      BY <2>1, <2>7, LoserStep DEF LeaveLock, Go, StageFits, Stage, Winning
    <2>8. CASE \/ InitLock(t) \/ (Go(t, "lock", "publish") /\ EnterLock(t)) \/ Publish(t)
               \/ CallFunc(t) \/ FuncReturns(t) \/ Close(t)
      <3>1. PICK p \in {"lock", "publish", "func", "infunc", "close", "unlock"} :
                stage' = [stage EXCEPT ![t] = p] /\ stage[t] \in Winning
        BY <2>8 DEF InitLock, Publish, CallFunc, FuncReturns, Close, Go, Winning
      <3>2. \A u \in Caller \ {t} : stage[u] \notin Winning /\ stage'[u] = stage[u]
        BY <2>1, <3>1 DEF OnceInv
      <3>3. OnceTypeOK' /\ StageFits(t)' /\ status' # 0
            /\ (status' >= 2 => created') /\ (status' = 3 => finished')
        <4> USE DEF OnceInv, OnceTypeOK, StageFits, Stage, Go
        <4>1. CASE InitLock(t)
          BY <2>1, <4>1 DEF InitLock
        <4>2. CASE Go(t, "lock", "publish") /\ EnterLock(t)
          BY <2>1, <4>2 DEF EnterLock
        <4>3. CASE Publish(t)
          BY <2>1, <4>3 DEF Publish
        <4>4. CASE CallFunc(t)
          BY <2>1, <4>4 DEF CallFunc
        <4>5. CASE FuncReturns(t)
          BY <2>1, <4>5 DEF FuncReturns
        <4>6. CASE Close(t)
          BY <2>1, <4>6 DEF Close
        <4> QED
          BY <2>8, <4>1, <4>2, <4>3, <4>4, <4>5, <4>6
      <3>4. \A u \in Caller \ {t} : StageFits(u)'
        <4>1. status < 3 => \A u \in Caller \ {t} : stage[u] # "returned"
          BY DEF OnceInv, StageFits
        <4>2. status' >= status
          BY <2>1, <2>8 DEF InitLock, EnterLock, Publish, CallFunc, FuncReturns, Close,
             Go, StageFits
        <4>3. status = 3 => status' = 3
          BY <2>1, <2>8 DEF InitLock, EnterLock, Publish, CallFunc, FuncReturns, Close,
             Go, StageFits
        <4>4. status' \in 0 .. 3
          BY <3>3 DEF OnceTypeOK
        <4> QED
          BY <2>1, <3>2, <4>1, <4>2, <4>3, <4>4 DEF StageFits, OnceInv, Winning
      <3> QED
        BY <3>1, <3>3, <3>4, WinnerStep DEF Stage
    <2> QED
      BY <1>2, <2>2, <2>3, <2>4, <2>5, <2>6, <2>7, <2>8 DEF OnceStep, EnterLock, LeaveLock
  <1> QED
    BY <1>1, <1>2 DEF OnceNext

\* dmr_call_once calls its function once, behind a lock that exists, and lets no
\* caller return before the function has, however many callers race.
THEOREM OnceIsBeforeUse == OnceSpec => []OnceBeforeUse
  <1>1. OnceInit => OnceInv
    <2> SUFFICES ASSUME OnceInit PROVE OnceInv
      OBVIOUS
    <2>1. \A t \in Caller : stage[t] = "loop"
      BY DEF OnceInit
    <2>2. stage \in [Caller -> Stage]
      BY DEF OnceInit, Stage
    <2>3. created \in BOOLEAN /\ finished \in BOOLEAN
      BY DEF OnceInit
    <2>4. status = 0 /\ calls = 0 /\ inside = NoCaller
      BY DEF OnceInit
    <2>5. OnceTypeOK
      BY <2>2, <2>3, <2>4 DEF OnceTypeOK
    <2> QED
      BY <2>1, <2>4, <2>5 DEF OnceInv, StageFits, Winning
  <1>2. OnceInv => OnceBeforeUse
    <2> SUFFICES ASSUME OnceInv PROVE OnceBeforeUse
      OBVIOUS
    <2>1. ReturnsInitialised
      BY DEF OnceInv, OnceTypeOK, StageFits, ReturnsInitialised
    <2>2. LockCreated
      BY DEF OnceInv, StageFits, LockCreated
    <2> QED
      BY <2>1, <2>2 DEF OnceInv, OnceBeforeUse
  <1> QED
    BY <1>1, <1>2, OnceInvStep, PTL DEF OnceSpec

----------------------------------------------------------------------------
(***************************************************************************)
(* Timeouts.  Each of the computations multiplied back to nanoseconds is   *)
(* what is left, up to the remainders that its divisions dropped.          *)
(***************************************************************************)
\* Quotient and remainder by a positive number.
LEMMA Division ==
    ASSUME NEW x \in Int, NEW p \in Nat \ {0}
    PROVE  /\ x \div p \in Int /\ x % p \in 0 .. p - 1
           /\ x = (x \div p) * p + (x % p)
           /\ x >= 0 => x \div p >= 0
  <1>1. x \div p \in Int /\ x % p \in 0 .. p - 1 /\ x = p * (x \div p) + (x % p)
    OBVIOUS
  <1> DEFINE q == x \div p
             r == x % p
  <1> HIDE DEF q, r
  <1>2. q \in Int /\ r \in 0 .. p - 1 /\ x = p * q + r
    BY <1>1 DEF q, r
  <1>3. x >= 0 => q >= 0
    <2>1. CASE q =< -1
      <3>1. p * q =< - p
        BY <1>2, <2>1
      <3> QED
        BY <1>2, <3>1
    <2> QED
      BY <1>2, <2>1
  <1>4. p * q = q * p
    BY <1>2
  <1> QED
    BY <1>2, <1>3, <1>4 DEF q, r

\* A positive factor does not change an order.
LEMMA Scaled ==
    ASSUME NEW x \in Int, NEW y \in Int, NEW p \in Nat \ {0}, x * p < y * p
    PROVE  x < y
  <1>1. CASE x >= y
    <2>1. (x - y) * p >= 0
      BY <1>1
    <2>2. (x - y) * p = x * p - y * p
      OBVIOUS
    <2>3. x * p \in Int /\ y * p \in Int
      OBVIOUS
    <2> QED
      BY <2>1, <2>2, <2>3
  <1> QED
    BY <1>1

\* A number of milliseconds that is less than two of them longer than a wait fits
\* the DWORD if the wait does.
LEMMA FitsDword ==
    ASSUME NEW v \in Int, NEW left \in Int, v >= 0, v * NsPerMs < left + 2 * NsPerMs,
           Representable(left \div NsPerMs + 1)
    PROVE  v % Dword = v
  <1> DEFINE q == left \div NsPerMs
             r == left % NsPerMs
  <1>1. q \in Int /\ r \in 0 .. NsPerMs - 1 /\ left = q * NsPerMs + r
    BY Division, TimeAssumption
  <1>2. q + 1 < Dword - 1
    BY DEF Representable
  <1> HIDE DEF q, r
  <1>3. (q + 3) * NsPerMs = q * NsPerMs + 3 * NsPerMs
    BY <1>1, TimeAssumption
  <1>4. v * NsPerMs < (q + 3) * NsPerMs
    BY <1>1, <1>3, TimeAssumption
  <1>5. v < q + 3
    BY <1>1, <1>4, Scaled, TimeAssumption
  <1>6. v < Dword
    BY <1>1, <1>2, <1>5, TimeAssumption
  <1> QED
    BY <1>6, TimeAssumption

\* The clock and the deadline are normalised times.
TimeInv ==
    /\ now \in [sec : Nat, nsec : 0 .. NsPerSec - 1]
    /\ ts \in [sec : Nat, nsec : 0 .. NsPerSec - 1]

\* A second has nanoseconds.
LEMMA SecondIsPositive == NsPerSec \in Nat \ {0}
  <1>1. \A a, b \in Nat \ {0} : a * b \in Nat \ {0}
    OBVIOUS
  <1> QED
    BY <1>1, TimeAssumption DEF NsPerSec

\* What is left, split into the seconds and the nanoseconds of the two times; it
\* is positive as long as the deadline is not reached.
LEMMA LeftParts ==
    ASSUME TimeInv
    PROVE  LET left == Ns(ts) - Ns(now) IN
           /\ left \in Int
           /\ left = (ts.sec - now.sec) * MsPerSec * NsPerMs + (ts.nsec - now.nsec)
           /\ left > 0 <=> ~ Reached(now)
  <1> DEFINE a == ts.sec  b == ts.nsec  c == now.sec  d == now.nsec  S == NsPerSec
  <1>1. a \in Nat /\ c \in Nat /\ b \in 0 .. S - 1 /\ d \in 0 .. S - 1
    BY DEF TimeInv
  <1>2. Ns(ts) = a * S + b /\ Ns(now) = c * S + d
    BY DEF Ns
  <1>3. Reached(now) <=> c > a \/ (c = a /\ d >= b)
    BY DEF Reached
  <1>4. S \in Nat \ {0} /\ \A n \in Int : n * S = n * MsPerSec * NsPerMs
    BY SecondIsPositive, TimeAssumption DEF NsPerSec
  <1>5. Ns(ts) \in Int /\ Ns(now) \in Int
    <2> HIDE DEF a, b, c, d, S
    <2> QED
      BY <1>1, <1>2, <1>4
  <1> DEFINE left == Ns(ts) - Ns(now)
  <1> HIDE DEF a, b, c, d, S
  <1>6. left = (a - c) * S + (b - d)
    BY <1>1, <1>2, <1>4
  <1>7. (a - c) * S = (a - c) * MsPerSec * NsPerMs
    BY <1>1, <1>4
  <1>8. left > 0 <=> ~ (c > a \/ (c = a /\ d >= b))
    <2>1. CASE c > a
      <3>1. (a - c) * S =< - S
        BY <1>1, <1>4, <2>1
      <3> QED
        BY <1>1, <1>4, <1>6, <2>1, <3>1
    <2>2. CASE c = a
      <3>1. (a - c) * S = 0
        BY <1>1, <1>4, <2>2
      <3> QED
        BY <1>1, <1>6, <2>2, <3>1
    <2>3. CASE c < a
      <3>1. (a - c) * S >= S
        BY <1>1, <1>4, <2>3
      <3> QED
        BY <1>1, <1>4, <1>6, <2>3, <3>1
    <2> QED
      BY <1>1, <2>1, <2>2, <2>3
  <1> QED
    BY <1>3, <1>5, <1>6, <1>7, <1>8 DEF a, b, c, d

\* dmr_mutex_timedlock on Windows: the quotient is cut towards zero, so the whole
\* millisecond that is added makes up for it on either side of the borrow.
LEMMA LockCovers ==
    ASSUME TimeInv, Ns(ts) - Ns(now) > 0,
           Representable((Ns(ts) - Ns(now)) \div NsPerMs + 1)
    PROVE  /\ LockTimeoutMs(now) * NsPerMs >= Ns(ts) - Ns(now)
           /\ LockTimeoutMs(now) * NsPerMs < (Ns(ts) - Ns(now)) + 2 * NsPerMs
  <1> DEFINE left == Ns(ts) - Ns(now)
             n == (ts.sec - now.sec) * MsPerSec
             e == ts.nsec - now.nsec
             q == Quotient(e, NsPerMs)
             v == n + q + 1
  <1>1. left \in Int /\ left = n * NsPerMs + e /\ ~ Reached(now)
    BY LeftParts
  <1>2. n \in Int /\ e \in Int
    <2>1. \A x, y \in Nat : (x - y) * MsPerSec \in Int
      BY TimeAssumption
    <2> QED
      BY <2>1, SecondIsPositive DEF TimeInv
  <1>3. LockTimeoutMs(now) = v % Dword
    BY <1>1 DEF LockTimeoutMs
  <1> HIDE DEF n, e
  <1>4. q \in Int /\ e - NsPerMs < q * NsPerMs /\ q * NsPerMs < e + NsPerMs
    <2>1. CASE e >= 0
      <3>1. q = e \div NsPerMs
        BY <2>1 DEF Quotient
      <3>2. /\ e \div NsPerMs \in Int /\ e % NsPerMs \in 0 .. NsPerMs - 1
            /\ e = (e \div NsPerMs) * NsPerMs + (e % NsPerMs)
        BY <1>2, Division, TimeAssumption
      <3> QED
        BY <1>2, <3>1, <3>2, TimeAssumption
    <2>2. CASE e < 0
      <3> DEFINE k == (-e) \div NsPerMs
                 r == (-e) % NsPerMs
      <3>1. k \in Int /\ r \in 0 .. NsPerMs - 1 /\ -e = k * NsPerMs + r
        <4>1. -e \in Int /\ NsPerMs \in Nat \ {0}
          BY <1>2, TimeAssumption
        <4> QED
          BY <4>1, Division, Zenon
      <3>2. q = -k
        BY <1>2, <2>2 DEF Quotient
      <3> HIDE DEF k, r, q
      <3>3. q * NsPerMs = -(k * NsPerMs) /\ q \in Int
        BY <3>1, <3>2, TimeAssumption
      <3>4. k * NsPerMs \in Int
        BY <3>1, TimeAssumption
      <3> QED
        BY <1>2, <3>1, <3>3, <3>4, TimeAssumption
    <2> QED
      BY <1>2, <2>1, <2>2
  <1> HIDE DEF q
  <1>5. v * NsPerMs = n * NsPerMs + q * NsPerMs + NsPerMs /\ v \in Int
    BY <1>2, <1>4, TimeAssumption
  <1>6. n * NsPerMs \in Int /\ q * NsPerMs \in Int
    BY <1>2, <1>4, TimeAssumption
  <1> HIDE DEF left, v
  <1>7. v * NsPerMs > left /\ v * NsPerMs < left + 2 * NsPerMs
    BY <1>1, <1>2, <1>4, <1>5, <1>6, TimeAssumption
  <1>8. 0 * NsPerMs < v * NsPerMs
    <2>1. 0 * NsPerMs = 0 /\ v * NsPerMs \in Int
      BY <1>5, TimeAssumption
    <2>2. left \in Int /\ left > 0 /\ v * NsPerMs > left
      BY <1>1, <1>7 DEF left
    <2> QED
      BY <2>1, <2>2
  <1>9. v >= 0
    BY <1>5, <1>8, Scaled, TimeAssumption
  <1>10. v % Dword = v
    BY <1>1, <1>5, <1>7, <1>9, FitsDword DEF left
  <1> QED
    BY <1>1, <1>3, <1>5, <1>7, <1>10, TimeAssumption DEF left

\* dmr_thread_sleep on Windows: a part of a millisecond counts as a whole one.
LEMMA SleepCovers ==
    ASSUME TimeInv, Representable(Ns(ts) \div NsPerMs + 1)
    PROVE  SleepMs * NsPerMs >= Ns(ts)
  <1> DEFINE n == ts.sec * MsPerSec
             b == ts.nsec
             q == b \div NsPerMs
             r == b % NsPerMs
             v == n + q + (IF r = 0 THEN 0 ELSE 1)
  <1>1. SleepMs = v % Dword
    BY DEF SleepMs
  <1>2. n \in Nat /\ b \in Nat
    <2>1. \A x \in Nat : x * MsPerSec \in Nat
      BY TimeAssumption
    <2> QED
      BY <2>1, SecondIsPositive DEF TimeInv
  <1>3. Ns(ts) = n * NsPerMs + b
    <2>1. \A x \in Nat : x * (NsPerMs * MsPerSec) = x * MsPerSec * NsPerMs
      BY TimeAssumption
    <2> QED
      BY <2>1 DEF Ns, NsPerSec, TimeInv
  <1> HIDE DEF n, b
  <1>4. q \in Int /\ q >= 0 /\ r \in 0 .. NsPerMs - 1 /\ b = q * NsPerMs + r
    <2>1. b \in Int /\ b >= 0 /\ NsPerMs \in Nat \ {0}
      BY <1>2, TimeAssumption
    <2> QED
      BY <2>1, Division, Zenon
  <1> HIDE DEF q, r
  <1>5. v \in Int /\ v >= 0 /\ n * NsPerMs \in Int /\ q * NsPerMs \in Int
    BY <1>2, <1>4, TimeAssumption
  <1>6. v * NsPerMs = n * NsPerMs + q * NsPerMs + (IF r = 0 THEN 0 ELSE NsPerMs)
    BY <1>2, <1>4, TimeAssumption
  <1> HIDE DEF v
  <1>7. Ns(ts) \in Int /\ v * NsPerMs >= Ns(ts) /\ v * NsPerMs < Ns(ts) + 2 * NsPerMs
    BY <1>2, <1>3, <1>4, <1>5, <1>6, TimeAssumption
  <1>8. v % Dword = v
    BY <1>5, <1>7, FitsDword
  <1> QED
    BY <1>1, <1>7, <1>8

\* dmr_cond_timedwait on Windows: the two remainders differ by less than a
\* millisecond either way, and the wait is too short by as much as the deadline's
\* is the greater.
LEMMA CondCovers ==
    ASSUME TimeInv, Ns(ts) - Ns(now) > 0,
           Representable((Ns(ts) - Ns(now)) \div NsPerMs + 1)
    PROVE  /\ CondTimeoutMs(now) * NsPerMs < Ns(ts) - Ns(now) <=> now.nsec % NsPerMs < ts.nsec % NsPerMs
           /\ CondTimeoutMs(now) * NsPerMs > (Ns(ts) - Ns(now)) - NsPerMs
           /\ CondTimeoutMs(now) * NsPerMs < (Ns(ts) - Ns(now)) + NsPerMs
  <1> DEFINE left == Ns(ts) - Ns(now)
             a == ts.sec * MsPerSec
             c == now.sec * MsPerSec
             b == ts.nsec
             d == now.nsec
             u == (a + b \div NsPerMs) - (c + d \div NsPerMs)
  <1>1. a \in Int /\ c \in Int /\ b \in Nat /\ d \in Nat
    <2>1. \A x \in Nat : x * MsPerSec \in Int
      BY TimeAssumption
    <2> QED
      BY <2>1, SecondIsPositive DEF TimeInv
  <1>2. left \in Int /\ left = (a - c) * NsPerMs + (b - d)
    <2>1. \A x, y \in Nat : (x - y) * MsPerSec = x * MsPerSec - y * MsPerSec
      BY TimeAssumption
    <2> QED
      BY <2>1, LeftParts DEF TimeInv
  <1>3. CondTimeoutMs(now) = IF a + b \div NsPerMs > c + d \div NsPerMs THEN u % Dword ELSE 0
    BY DEF CondTimeoutMs
  <1> HIDE DEF a, c, left
  <1> SUFFICES /\ CondTimeoutMs(now) * NsPerMs < left <=> d % NsPerMs < b % NsPerMs
               /\ CondTimeoutMs(now) * NsPerMs > left - NsPerMs
               /\ CondTimeoutMs(now) * NsPerMs < left + NsPerMs
    BY DEF left
  <1> HIDE DEF b, d
  <1>4. /\ b \div NsPerMs \in Int /\ b % NsPerMs \in 0 .. NsPerMs - 1
        /\ b = (b \div NsPerMs) * NsPerMs + (b % NsPerMs)
    <2>1. b \in Int /\ NsPerMs \in Nat \ {0}
      BY <1>1, TimeAssumption
    <2> QED
      BY <2>1, Division, Zenon
  <1>5. /\ d \div NsPerMs \in Int /\ d % NsPerMs \in 0 .. NsPerMs - 1
        /\ d = (d \div NsPerMs) * NsPerMs + (d % NsPerMs)
    <2>1. d \in Int /\ NsPerMs \in Nat \ {0}
      BY <1>1, TimeAssumption
    <2> QED
      BY <2>1, Division, Zenon
  <1>6. u \in Int
    BY <1>1, <1>4, <1>5
  <1>7. u * NsPerMs = (a - c) * NsPerMs + (b \div NsPerMs) * NsPerMs - (d \div NsPerMs) * NsPerMs
    <2> DEFINE y == b \div NsPerMs
               w == d \div NsPerMs
    <2>2. y \in Int /\ w \in Int
      BY <1>4, <1>5
    <2> HIDE DEF y, w
    <2>3. NsPerMs \in Int
      BY TimeAssumption
    <2>4. (a + y) - (c + w) = (a - c) + (y - w)
      BY <1>1, <2>2
    <2>5. ((a + y) - (c + w)) * NsPerMs = (a - c) * NsPerMs + (y - w) * NsPerMs
      BY <1>1, <2>2, <2>3, <2>4
    <2>6. (y - w) * NsPerMs = y * NsPerMs - w * NsPerMs
      BY <2>2, <2>3
    <2> QED
      BY <2>5, <2>6 DEF y, w
  <1>8. /\ (a - c) * NsPerMs \in Int /\ (b \div NsPerMs) * NsPerMs \in Int
        /\ (d \div NsPerMs) * NsPerMs \in Int
    BY <1>1, <1>4, <1>5, TimeAssumption
  <1>9. u > 0 <=> a + b \div NsPerMs > c + d \div NsPerMs
    BY <1>1, <1>4, <1>5
  <1> HIDE DEF u
  <1>10. /\ u * NsPerMs > left - NsPerMs /\ u * NsPerMs < left + NsPerMs
         /\ u * NsPerMs < left <=> d % NsPerMs < b % NsPerMs
    BY <1>1, <1>2, <1>4, <1>5, <1>7, <1>8, TimeAssumption
  <1>11. CASE u > 0
    <2>1. u * NsPerMs < left + 2 * NsPerMs
      <3>1. u * NsPerMs \in Int
        BY <1>6, TimeAssumption
      <3> QED
        BY <1>2, <1>10, <3>1, TimeAssumption
    <2>2. u % Dword = u
      BY <1>2, <1>6, <1>11, <2>1, FitsDword DEF left
    <2> QED
      BY <1>3, <1>9, <1>10, <1>11, <2>2
  <1>12. CASE ~ (u > 0)
    <2>1. u * NsPerMs =< 0
      BY <1>6, <1>12, TimeAssumption
    <2>2. left > 0 /\ u * NsPerMs \in Int
      BY <1>6, TimeAssumption DEF left
    <2>3. 0 > left - NsPerMs /\ 0 < left + NsPerMs
      BY <1>2, <1>10, <2>1, <2>2, TimeAssumption
    <2>4. CondTimeoutMs(now) = 0
      BY <1>3, <1>9, <1>12
    <2>5. 0 * NsPerMs = 0 /\ d % NsPerMs < b % NsPerMs
      BY <1>2, <1>10, <2>1, <2>2, TimeAssumption
    <2> QED
      BY <1>2, <2>2, <2>3, <2>4, <2>5
  <1> QED
    BY <1>11, <1>12

\* The poll of the POSIX lock without pthread_mutex_timedlock: what is left, with
\* the borrow, bounds the sleep.
LEMMA PollCovers ==
    ASSUME TimeInv, ~ Reached(now)
    PROVE  /\ PollSleepNs(now) \in 1 .. PollMs * NsPerMs
           /\ Ns(now) + PollSleepNs(now) =< Ns(ts)
  <1> DEFINE a == ts.sec  b == ts.nsec  c == now.sec  d == now.nsec  S == NsPerSec
             poll == PollMs * NsPerMs
             sec == IF b < d THEN a - c - 1 ELSE a - c
             nsec == IF b < d THEN b - d + S ELSE b - d
  <1>1. a \in Nat /\ c \in Nat /\ b \in 0 .. S - 1 /\ d \in 0 .. S - 1
    BY DEF TimeInv
  <1>2. Ns(ts) = a * S + b /\ Ns(now) = c * S + d
    BY DEF Ns
  <1>3. a > c \/ (a = c /\ b > d)
    BY <1>1, SecondIsPositive DEF Reached
  <1>4. S \in Nat \ {0} /\ poll \in Nat \ {0} /\ poll =< S
    <2>1. \A x \in 1 .. MsPerSec : x * NsPerMs \in Nat \ {0} /\ x * NsPerMs =< NsPerMs * MsPerSec
      BY TimeAssumption
    <2> QED
      BY <2>1, SecondIsPositive, TimeAssumption DEF NsPerSec
  <1>5. PollSleepNs(now) = IF sec # 0 \/ nsec > poll THEN poll ELSE nsec
    BY DEF PollSleepNs, Left
  <1> HIDE DEF a, b, c, d, S, poll
  <1>6. sec \in Nat /\ nsec \in 0 .. S - 1
    BY <1>1, <1>3, <1>4
  <1>7. Ns(ts) - Ns(now) = sec * S + nsec
    <2>1. CASE b < d
      <3>1. (a - c - 1) * S = a * S - c * S - S
        BY <1>1, <1>4
      <3>2. a * S \in Int /\ c * S \in Int
        BY <1>1, <1>4
      <3> QED
        BY <1>1, <1>2, <1>4, <2>1, <3>1, <3>2
    <2>2. CASE ~ (b < d)
      <3>1. (a - c) * S = a * S - c * S
        BY <1>1, <1>4
      <3>2. a * S \in Int /\ c * S \in Int
        BY <1>1, <1>4
      <3> QED
        BY <1>1, <1>2, <1>4, <2>2, <3>1, <3>2
    <2> QED
      BY <2>1, <2>2
  <1>8. Ns(ts) \in Int /\ Ns(now) \in Int
    BY <1>1, <1>2, <1>4
  <1>9. sec = 0 => nsec > 0
    BY <1>1, <1>3, <1>4
  <1> HIDE DEF sec, nsec
  <1>10. sec * S >= 0 /\ (sec # 0 => sec * S >= S)
    BY <1>4, <1>6
  <1>11. sec * S \in Int
    BY <1>4, <1>6
  <1>12. PollSleepNs(now) \in 1 .. poll
    BY <1>4, <1>5, <1>6, <1>9
  <1>13. PollSleepNs(now) =< sec * S + nsec
    BY <1>4, <1>5, <1>6, <1>10, <1>11
  <1>14. PollSleepNs(now) \in Int
    BY <1>4, <1>12
  <1> QED
    BY <1>6, <1>7, <1>8, <1>11, <1>12, <1>13, <1>14 DEF poll

\* A second's tick keeps the clock normalised.
LEMMA TickKeeps == TimeInv /\ [TimeNext]_timeVars => TimeInv'
  <1> SUFFICES ASSUME TimeInv, TimeNext \/ UNCHANGED timeVars PROVE TimeInv'
    OBVIOUS
  <1>1. CASE UNCHANGED timeVars
    BY <1>1 DEF TimeInv, timeVars
  <1>2. CASE TimeNext
    <2>1. Ns(now) + 1 \in Nat
      <3>1. \A x, y \in Nat : x * NsPerSec + y + 1 \in Nat
        BY SecondIsPositive
      <3> QED
        BY <3>1, SecondIsPositive DEF TimeInv, Ns
    <2>2. (Ns(now) + 1) \div NsPerSec \in Nat /\ (Ns(now) + 1) % NsPerSec \in 0 .. NsPerSec - 1
      <3> DEFINE x == Ns(now) + 1
      <3>1. x \in Int /\ x >= 0
        BY <2>1
      <3> HIDE DEF x
      <3>2. x \div NsPerSec \in Int /\ x % NsPerSec \in 0 .. NsPerSec - 1
            /\ x \div NsPerSec >= 0
        BY <3>1, SecondIsPositive, Division, Zenon
      <3>3. \A k \in Int : k >= 0 => k \in Nat
        OBVIOUS
      <3> QED
        BY <3>2, <3>3, Zenon DEF x
    <2> QED
      BY <1>2, <2>2 DEF TimeInv, TimeNext, Tick
  <1> QED
    BY <1>1, <1>2

\* Whatever the clock and the deadline, a timed lock, a timed wait, a sleep and the
\* polling lock end within a millisecond or two of the deadline, the locks and the
\* sleep never before it, and the timed wait exactly when the part of a millisecond
\* of its deadline is greater than the clock's (thread.c).
THEOREM DeadlinesAreKept == TimeSpec => []DeadlinesKept
  <1>1. TimeInit => TimeInv
    BY SecondIsPositive, TimeAssumption DEF TimeInit, TimeInv, Timespec
  <1>2. TimeInv => DeadlinesKept
    <2> SUFFICES ASSUME TimeInv PROVE DeadlinesKept
      OBVIOUS
    <2>1. TimeoutsCoverDeadline
      BY LockCovers, SleepCovers DEF TimeoutsCoverDeadline
    <2>2. CondTimeoutToTheMs
      BY CondCovers DEF CondTimeoutToTheMs
    <2>3. PollNeverOversleeps
      BY PollCovers DEF PollNeverOversleeps
    <2> QED
      BY <2>1, <2>2, <2>3 DEF DeadlinesKept
  <1> QED
    BY <1>1, <1>2, TickKeeps, PTL DEF TimeSpec
----------------------------------------------------------------------------
(***************************************************************************)
(* Thread-specific storage, for any number of threads, keys and nodes.     *)
(***************************************************************************)
Nodes == [by : Owner, key : Key, value : Nat, next : Node \cup {Null}]

LocalsTyped ==
    /\ LocalsTypeOK
    /\ gen \in [Key -> Nat] /\ dtors \in [Key -> Nat] /\ sets \in [Owner -> Nat]

\* The two ends of a thread's list are the same node, or it is being freed: the
\* tail does not move, so a list is at most two nodes long.
ListsLinked ==
    /\ \A t \in Owner :
        /\ first[t] # Null => first[t] \in Allocated /\ node[first[t]].by = t
        /\ phase[t] # "frees" => last[t] = first[t]
        /\ phase[t] \in {"cleanup", "destroys", "frees"} => first[t] # Null
        /\ phase[t] = "gone" => first[t] = Null
    /\ \A n \in Allocated : node[n].next # Null =>
        /\ n = first[node[n].by]
        /\ node[n].next \in Allocated \ {n}
        /\ node[node[n].next].by = node[n].by /\ node[node[n].next].next = Null

\* The cleanup of a thread stands at a node of its own, or at the end.
CursorsOwn ==
    \A t \in Owner :
        /\ phase[t] \in {"cleanup", "destroys"} /\ cursor[t] # Null =>
            cursor[t] \in Allocated /\ node[cursor[t]].by = t
        /\ phase[t] = "destroys" => cursor[t] # Null /\ again[t]

\* Phases in which a thread's slots are still its own: freed nodes may be
\* allocated again for others.
Alive == {"runs", "cleanup", "destroys"}

\* A slot of a key in use holds the caller's node for that key.
SlotsOwn ==
    \A t \in Owner : \A k \in keys :
        phase[t] \in Alive /\ slot[t][k] # Null =>
            /\ slot[t][k] \in Allocated
            /\ node[slot[t][k]].key = k /\ node[slot[t][k]].by = t

\* A destructor is that of the key's last creation, and so is a value, unless a
\* key was deleted that another thread had a value for.
ValuesCurrent ==
    /\ \A k \in Key : dtors[k] \in {0, gen[k]}
    /\ ~ orphaned =>
        /\ ~ wrong
        /\ \A n \in Allocated : node[n].key \in keys /\ node[n].value \in {0, gen[node[n].key]}

LocalsInv == LocalsTyped /\ ListsLinked /\ CursorsOwn /\ SlotsOwn /\ ValuesCurrent

\* A node is in the list of its thread or lost, and lost only from a full list.
NodesInLists ==
    /\ lost \subseteq Allocated
    /\ \A n \in Allocated :
        LET t == node[n].by IN
        /\ n \in lost <=> n \notin Listed(t)
        /\ n \in lost /\ phase[t] \in Alive => Listed(t) \ {first[t]} # {}

\* The nodes that the cleanup of t has still to visit in this pass.
Ahead(t) == IF cursor[t] = Null THEN {} ELSE {cursor[t], node[cursor[t]].next}

\* What a pass has visited without calling a destructor has no value, and what
\* the last pass leaves has none unless there were no more passes.
VisitedEmpty ==
    \A n \in Allocated \ lost :
        LET t == node[n].by
        IN  /\ phase[t] = "cleanup" /\ ~ again[t] /\ n \notin Ahead(t) => node[n].value = 0
            /\ phase[t] = "frees" => node[n].value = 0 \/ pass[t] = Iterations

ListsComplete == NodesInLists /\ VisitedEmpty
----------------------------------------------------------------------------
\* Setting the value of a node, by dmr_locals_set or by the cleanup, leaves the
\* lists as they are.
LEMMA ValueChanges ==
    ASSUME LocalsTyped, NEW n \in Allocated, NEW v \in Nat,
           node' = [node EXCEPT ![n].value = v]
    PROVE  /\ Allocated' = Allocated
           /\ \A m \in Allocated : /\ node'[m] \in Nodes
                                   /\ node'[m].by = node[m].by /\ node'[m].key = node[m].key
                                   /\ node'[m].next = node[m].next
                                   /\ node'[m].value = IF m = n THEN v ELSE node[m].value
  <1>1. Allocated' = Allocated
    BY DEF Allocated
  <1>2. \A m \in Allocated : node[m] \in Nodes
    BY DEF LocalsTyped, LocalsTypeOK, Nodes
  <1>3. ASSUME NEW m \in Allocated
        PROVE  node'[m] = IF m = n THEN [node[n] EXCEPT !.value = v] ELSE node[m]
    BY DEF Allocated
  <1>4. ASSUME NEW m \in Allocated
        PROVE  /\ node'[m] \in Nodes
               /\ node'[m].by = node[m].by /\ node'[m].key = node[m].key
               /\ node'[m].next = node[m].next
               /\ node'[m].value = IF m = n THEN v ELSE node[m].value
    BY <1>2, <1>3 DEF Nodes
  <1> QED
    BY <1>1, <1>4

\* A new node becomes the second of its thread's list, in the place of any other.
LEMMA NodeLinked ==
    ASSUME LocalsTyped, NEW t \in Owner, NEW k \in Key,
           NEW n \in Node \ Allocated, Link(t, n, NewNode(t, k))
    PROVE  /\ Allocated' = Allocated \cup {n}
           /\ node'[n] = NewNode(t, k) /\ node'[n] \in Nodes
           /\ \A m \in Allocated : /\ node'[m] \in Nodes
                                   /\ node'[m].by = node[m].by /\ node'[m].key = node[m].key
                                   /\ node'[m].value = node[m].value
                                   /\ node'[m].next = IF m = last[t] THEN n ELSE node[m].next
           /\ \A u \in Owner :
                /\ last'[u] = IF u = t /\ last[t] = Null THEN n ELSE last[u]
                /\ first'[u] = IF u = t /\ first[t] = Null THEN n ELSE first[u]
           /\ first' \in [Owner -> Node \cup {Null}] /\ last' \in [Owner -> Node \cup {Null}]
           /\ lost' = lost \cup (IF last[t] = Null THEN {} ELSE {node[last[t]].next} \ {Null})
  <1>1. Allocated' = Allocated \cup {n}
    BY DEF Link, Allocated
  <1>2. \A m \in Allocated : node[m] \in Nodes
    BY DEF LocalsTyped, LocalsTypeOK, Nodes
  <1>3. node'[n] = NewNode(t, k)
    BY DEF Link
  <1>4. NewNode(t, k) \in Nodes
    BY DEF NewNode, Nodes, LocalsTyped
  <1>5. ASSUME NEW m \in Allocated
        PROVE  node'[m] = IF m = last[t] THEN [node[m] EXCEPT !.next = n] ELSE node[m]
    BY DEF Link
  <1>6. ASSUME NEW m \in Allocated
        PROVE  /\ node'[m] \in Nodes
               /\ node'[m].by = node[m].by /\ node'[m].key = node[m].key
               /\ node'[m].value = node[m].value
               /\ node'[m].next = IF m = last[t] THEN n ELSE node[m].next
    BY <1>2, <1>5 DEF Nodes
  <1>7. /\ \A u \in Owner :
                /\ last'[u] = IF u = t /\ last[t] = Null THEN n ELSE last[u]
                /\ first'[u] = IF u = t /\ first[t] = Null THEN n ELSE first[u]
        /\ first' \in [Owner -> Node \cup {Null}] /\ last' \in [Owner -> Node \cup {Null}]
        /\ lost' = lost \cup (IF last[t] = Null THEN {} ELSE {node[last[t]].next} \ {Null})
    BY DEF Link, LocalsTyped, LocalsTypeOK
  <1> QED
    BY <1>1, <1>3, <1>4, <1>6, <1>7

\* The types, node by node.
LEMMA NodesTyped ==
    ASSUME LocalsTyped
    PROVE  /\ \A n \in Allocated : /\ n \in Node /\ node[n] \in Nodes
                                   /\ node[n].by \in Owner /\ node[n].key \in Key
                                   /\ node[n].value \in Nat /\ node[n].next \in Node \cup {Null}
           /\ Null \notin Allocated
  BY LocalsAssumption DEF LocalsTyped, LocalsTypeOK, Nodes
----------------------------------------------------------------------------
(***************************************************************************)
(* One lemma for each action: what it does to the lists, the slots and the *)
(* values.                                                                 *)
(***************************************************************************)
\* dmr_locals_create: the index is new, so no list holds a value for it.
LEMMA CreateKeepsLocals ==
    ASSUME LocalsInv, NEW t \in Owner, NEW k \in Key, NEW d \in BOOLEAN,
           dmr_locals_create(t, k, d)
    PROVE  LocalsInv'
  <1>1. /\ k \notin keys /\ gen[k] < MaxGen[k] /\ keys' = keys \cup {k}
        /\ gen' = [gen EXCEPT ![k] = @ + 1]
        /\ dtors' = [dtors EXCEPT ![k] = Register(k, d)]
        /\ slot' = [u \in Owner |-> [slot[u] EXCEPT ![k] = Null]]
        /\ UNCHANGED <<node, first, last, lost, phase, cursor, pass, again, sets, sound,
                       wrong, orphaned>>
    BY DEF dmr_locals_create
  <1>2. /\ MaxGen \in [Key -> Nat] /\ gen \in [Key -> Nat] /\ dtors \in [Key -> Nat]
        /\ slot \in [Owner -> [Key -> Node \cup {Null}]]
    BY LocalsAssumption DEF LocalsInv, LocalsTyped, LocalsTypeOK
  <1>3. /\ gen'[k] = gen[k] + 1 /\ gen' \in [Key -> Nat] /\ dtors' \in [Key -> Nat]
        /\ dtors'[k] \in {0, gen'[k]}
        /\ \A i \in Key \ {k} : gen'[i] = gen[i] /\ dtors'[i] = dtors[i]
    BY <1>1, <1>2 DEF Register
  <1>4. /\ slot' \in [Owner -> [Key -> Node \cup {Null}]]
        /\ \A u \in Owner : /\ slot'[u][k] = Null
                            /\ \A i \in Key \ {k} : slot'[u][i] = slot[u][i]
    BY <1>1, <1>2
  <1>5. LocalsTyped'
    <2>1. \A i \in Key : gen'[i] \in 0 .. MaxGen[i] /\ dtors'[i] \in 0 .. MaxGen[i]
      BY <1>1, <1>2, <1>3 DEF LocalsInv, LocalsTyped, LocalsTypeOK
    <2>2. keys' \subseteq Key
      BY <1>1 DEF LocalsInv, LocalsTyped, LocalsTypeOK
    <2> QED
      BY <1>1, <1>3, <1>4, <2>1, <2>2 DEF LocalsInv, LocalsTyped, LocalsTypeOK, Allocated
  <1>6. ListsLinked' /\ CursorsOwn'
    BY <1>1 DEF LocalsInv, ListsLinked, CursorsOwn, Allocated
  <1>7. keys \subseteq Key \ {k}
    BY <1>1 DEF LocalsInv, LocalsTyped, LocalsTypeOK
  <1>8. SlotsOwn'
    BY <1>1, <1>4, <1>7 DEF LocalsInv, SlotsOwn, Allocated
  <1>9. ValuesCurrent'
    BY <1>1, <1>3, <1>7 DEF LocalsInv, ValuesCurrent, Allocated
  <1> QED
    BY <1>5, <1>6, <1>8, <1>9 DEF LocalsInv

\* dmr_locals_delete: as long as nobody has a value for the key.
LEMMA DeleteKeepsLocals ==
    ASSUME LocalsInv, NEW t \in Owner, NEW k \in Key, dmr_locals_delete(t, k)
    PROVE  LocalsInv'
  <1>1. /\ dtors' = [dtors EXCEPT ![k] = 0] /\ keys' = keys \ {k}
        /\ sound' \in BOOLEAN
        /\ orphaned' = (orphaned \/ \E n \in Allocated : node[n].key = k)
        /\ UNCHANGED <<gen, slot, node, first, last, lost, phase, cursor, pass, again, sets, wrong>>
    BY DEF dmr_locals_delete
  <1>2. /\ dtors' \in [Key -> Nat] /\ dtors'[k] = 0 /\ \A i \in Key \ {k} : dtors'[i] = dtors[i]
    BY <1>1 DEF LocalsInv, LocalsTyped
  <1>3. MaxGen \in [Key -> Nat]
    BY LocalsAssumption
  <1>4. LocalsTyped'
    <2>1. \A i \in Key : gen'[i] \in 0 .. MaxGen[i] /\ dtors'[i] \in 0 .. MaxGen[i]
      BY <1>1, <1>2, <1>3 DEF LocalsInv, LocalsTyped, LocalsTypeOK
    <2>2. keys' \subseteq Key /\ orphaned' \in BOOLEAN
      BY <1>1 DEF LocalsInv, LocalsTyped, LocalsTypeOK
    <2> QED
      BY <1>1, <1>2, <2>1, <2>2 DEF LocalsInv, LocalsTyped, LocalsTypeOK, Allocated
  <1>5. ListsLinked' /\ CursorsOwn'
    BY <1>1 DEF LocalsInv, ListsLinked, CursorsOwn, Allocated
  <1>6. SlotsOwn'
    BY <1>1 DEF LocalsInv, SlotsOwn, Allocated
  <1>7. ValuesCurrent'
    BY <1>1, <1>2 DEF LocalsInv, ValuesCurrent, Allocated
  <1> QED
    BY <1>4, <1>5, <1>6, <1>7 DEF LocalsInv

\* dmr_locals_set and a caller's node that is there: its value is changed.
LEMMA OldValueKeepsLocals ==
    ASSUME LocalsInv, NEW t \in Owner, NEW k \in Key, dmr_locals_set(t, k),
           slot[t][k] # Null
    PROVE  LocalsInv'
  <1> DEFINE n == slot[t][k]
  <1>1. /\ phase[t] \in Alive /\ k \in keys /\ sets[t] < MaxSets[t]
        /\ sets' = [sets EXCEPT ![t] = @ + 1]
        /\ node' = [node EXCEPT ![n].value = gen[k]]
        /\ UNCHANGED <<gen, keys, dtors, slot, first, last, lost, phase, cursor, pass, again,
                       sound, wrong, orphaned>>
    BY DEF dmr_locals_set, Sets, Alive
  <1>2. n \in Allocated /\ node[n].key = k /\ node[n].by = t
    BY <1>1 DEF LocalsInv, SlotsOwn
  <1>3. LocalsTyped /\ gen[k] \in Nat
    BY DEF LocalsInv, LocalsTyped
  <1> HIDE DEF n
  <1>4. /\ Allocated' = Allocated
        /\ \A m \in Allocated : /\ node'[m] \in Nodes
                                /\ node'[m].by = node[m].by /\ node'[m].key = node[m].key
                                /\ node'[m].next = node[m].next
                                /\ node'[m].value = IF m = n THEN gen[k] ELSE node[m].value
    BY <1>1, <1>2, <1>3, ValueChanges
  <1>5. LocalsTyped'
    <2>1. MaxSets \in [Owner -> Nat] /\ sets \in [Owner -> Nat]
      BY LocalsAssumption DEF LocalsInv, LocalsTyped
    <2>2. sets' \in [Owner -> Nat] /\ \A u \in Owner : sets'[u] \in 0 .. MaxSets[u]
      BY <1>1, <2>1 DEF LocalsInv, LocalsTyped, LocalsTypeOK
    <2> QED
      BY <1>1, <1>4, <2>2 DEF LocalsInv, LocalsTyped, LocalsTypeOK, Nodes
  <1>6. \A m \in Allocated : node[m].by \in Owner
    BY <1>3, NodesTyped
  <1>7. ListsLinked' /\ CursorsOwn'
    BY <1>1, <1>4, <1>6 DEF LocalsInv, ListsLinked, CursorsOwn
  <1>8. SlotsOwn'
    BY <1>1, <1>4 DEF LocalsInv, SlotsOwn
  <1>9. ValuesCurrent'
    BY <1>1, <1>2, <1>4 DEF LocalsInv, ValuesCurrent
  <1> QED
    BY <1>5, <1>7, <1>8, <1>9 DEF LocalsInv

\* dmr_locals_set and no node yet: one is linked behind the tail.
LEMMA NewValueKeepsLocals ==
    ASSUME LocalsInv, NEW t \in Owner, NEW k \in Key, dmr_locals_set(t, k),
           slot[t][k] = Null
    PROVE  /\ LocalsInv'
           /\ \E n \in Node \ Allocated :
                Link(t, n, NewNode(t, k)) /\ slot' = [slot EXCEPT ![t][k] = n]
  <1>1. /\ phase[t] \in Alive /\ k \in keys /\ sets[t] < MaxSets[t] /\ Allocated # Node
        /\ sets' = [sets EXCEPT ![t] = @ + 1]
        /\ UNCHANGED <<gen, keys, dtors, phase, cursor, pass, again, sound, wrong, orphaned>>
    BY DEF dmr_locals_set, Sets, Alive
  <1>2. PICK n \in Node \ Allocated :
            Link(t, n, NewNode(t, k)) /\ slot' = [slot EXCEPT ![t][k] = n]
    <2>1. \E n \in Node : n \notin Allocated
      BY <1>1 DEF LocalsInv, LocalsTyped, LocalsTypeOK
    <2>2. (CHOOSE n \in Node : n \notin Allocated) \in Node \ Allocated
      BY <2>1
    <2> QED
      BY <2>2 DEF dmr_locals_set
  <1>3. /\ LocalsTyped /\ slot \in [Owner -> [Key -> Node \cup {Null}]]
        /\ \A m \in Allocated : /\ m \in Node /\ m # n /\ node[m].by \in Owner
                                /\ node[m].next \in Node \cup {Null}
        /\ Null \notin Allocated /\ n # Null
    BY NodesTyped, LocalsAssumption DEF LocalsInv, LocalsTyped, LocalsTypeOK
  <1>4. /\ Allocated' = Allocated \cup {n}
        /\ node'[n] = NewNode(t, k) /\ node'[n] \in Nodes
        /\ \A m \in Allocated : /\ node'[m] \in Nodes
                                /\ node'[m].by = node[m].by /\ node'[m].key = node[m].key
                                /\ node'[m].value = node[m].value
                                /\ node'[m].next = IF m = last[t] THEN n ELSE node[m].next
        /\ \A u \in Owner :
             /\ last'[u] = IF u = t /\ last[t] = Null THEN n ELSE last[u]
             /\ first'[u] = IF u = t /\ first[t] = Null THEN n ELSE first[u]
        /\ first' \in [Owner -> Node \cup {Null}] /\ last' \in [Owner -> Node \cup {Null}]
    BY <1>2, <1>3, NodeLinked
  <1>5. node'[n].by = t /\ node'[n].key = k /\ node'[n].value = gen[k] /\ node'[n].next = Null
    BY <1>4 DEF NewNode
  <1>6. /\ slot' \in [Owner -> [Key -> Node \cup {Null}]]
        /\ \A u \in Owner, i \in Key : slot'[u][i] = IF u = t /\ i = k THEN n ELSE slot[u][i]
    BY <1>2, <1>3
  <1>7. LocalsTyped'
    <2>1. MaxSets \in [Owner -> Nat] /\ sets \in [Owner -> Nat]
      BY LocalsAssumption DEF LocalsInv, LocalsTyped
    <2>2. sets' \in [Owner -> Nat] /\ \A u \in Owner : sets'[u] \in 0 .. MaxSets[u]
      BY <1>1, <2>1 DEF LocalsInv, LocalsTyped, LocalsTypeOK
    <2>3. /\ Allocated' \subseteq Node
          /\ \A m \in Allocated' : node'[m] \in Nodes
      BY <1>3, <1>4
    <2>4. lost' \subseteq Node
      <3>1. last[t] # Null => last[t] \in Allocated
        BY <1>1 DEF Alive, LocalsInv, ListsLinked
      <3>2. lost \subseteq Node
        BY DEF LocalsInv, LocalsTyped, LocalsTypeOK
      <3> QED
        BY <1>2, <1>3, <3>1, <3>2, NodeLinked
    <2> QED
      BY <1>1, <1>4, <1>6, <2>2, <2>3, <2>4 DEF LocalsInv, LocalsTyped, LocalsTypeOK, Nodes
  <1>8. phase[t] # "frees" /\ last[t] = first[t]
    BY <1>1 DEF Alive, LocalsInv, ListsLinked
  <1>9. ListsLinked'
    <2>1. ASSUME NEW u \in Owner
          PROVE  /\ first'[u] # Null => first'[u] \in Allocated' /\ node'[first'[u]].by = u
                 /\ phase'[u] # "frees" => last'[u] = first'[u]
                 /\ phase'[u] \in {"cleanup", "destroys", "frees"} => first'[u] # Null
                 /\ phase'[u] = "gone" => first'[u] = Null
      <3>1. CASE u = t /\ first[t] = Null
        <4>1. phase[t] # "gone"
          BY <1>1 DEF Alive
        <4> QED
          BY <1>1, <1>3, <1>4, <1>5, <1>8, <3>1, <4>1
      <3>2. CASE ~ (u = t /\ first[t] = Null)
        <4>1. first'[u] = first[u] /\ last'[u] = last[u]
          BY <1>4, <1>8, <3>2
        <4> QED
          BY <1>1, <1>3, <1>4, <3>2, <4>1 DEF LocalsInv, ListsLinked
      <3> QED
        BY <3>1, <3>2
    <2>2. ASSUME NEW m \in Allocated', node'[m].next # Null
          PROVE  /\ m = first'[node'[m].by]
                 /\ node'[m].next \in Allocated' \ {m}
                 /\ node'[node'[m].next].by = node'[m].by
                 /\ node'[node'[m].next].next = Null
      <3>1. m \in Allocated /\ m # n
        BY <1>3, <1>4, <1>5, <2>2
      <3>2. CASE m = last[t]
        <4>1. first[t] = m /\ node[m].by = t /\ first'[t] = m
          BY <1>3, <1>4, <1>8, <3>1, <3>2 DEF LocalsInv, ListsLinked
        <4>2. node'[m].next = n /\ node'[m].by = t
          BY <1>4, <3>1, <3>2, <4>1
        <4> QED
          BY <1>4, <1>5, <3>1, <4>1, <4>2
      <3>3. CASE m # last[t]
        <4> DEFINE x == node[m].next
        <4>1. node'[m].next = x /\ node'[m].by = node[m].by
          BY <1>4, <3>1, <3>3
        <4>2. /\ m = first[node[m].by] /\ x \in Allocated \ {m}
              /\ node[x].by = node[m].by /\ node[x].next = Null
          BY <2>2, <3>1, <4>1 DEF LocalsInv, ListsLinked
        <4>3. node[m].by # t /\ node[m].by \in Owner
          BY <1>3, <1>8, <3>1, <3>3, <4>2
        <4>4. first'[node[m].by] = m
          BY <1>4, <4>2, <4>3
        <4>5. x # last[t]
          <5>1. ASSUME x = last[t] PROVE FALSE
            <6>1. first[t] # Null /\ first[t] = x
              BY <1>3, <1>8, <4>2, <5>1
            <6>2. node[x].by = t
              BY <6>1 DEF LocalsInv, ListsLinked
            <6> QED
              BY <4>2, <4>3, <6>2
          <5> QED
            BY <5>1
        <4>6. node'[x].by = node[x].by /\ node'[x].next = Null /\ x \in Allocated'
          BY <1>4, <4>2, <4>5
        <4> QED
          BY <4>1, <4>2, <4>4, <4>6
      <3> QED
        BY <3>2, <3>3
    <2> QED
      BY <2>1, <2>2 DEF ListsLinked
  <1>10. CursorsOwn'
    BY <1>1, <1>4 DEF LocalsInv, CursorsOwn
  <1>11. SlotsOwn'
    <2> SUFFICES ASSUME NEW u \in Owner, NEW i \in keys, phase[u] \in Alive, slot'[u][i] # Null
                 PROVE  /\ slot'[u][i] \in Allocated'
                        /\ node'[slot'[u][i]].key = i /\ node'[slot'[u][i]].by = u
      BY <1>1 DEF SlotsOwn
    <2>1. i \in Key
      BY DEF LocalsInv, LocalsTyped, LocalsTypeOK
    <2>2. CASE u = t /\ i = k
      BY <1>4, <1>5, <1>6, <2>1, <2>2
    <2>3. CASE ~ (u = t /\ i = k)
      <3>1. slot'[u][i] = slot[u][i]
        BY <1>6, <2>1, <2>3
      <3> QED
        BY <1>4, <3>1 DEF LocalsInv, SlotsOwn
    <2> QED
      BY <2>2, <2>3
  <1>12. ValuesCurrent'
    BY <1>1, <1>4, <1>5 DEF LocalsInv, ValuesCurrent
  <1> QED
    BY <1>2, <1>7, <1>9, <1>10, <1>11, <1>12 DEF LocalsInv

\* dmr_locals_set whose TlsSetValue fails.
LEMMA SetFailsKeepsLocals ==
    ASSUME LocalsInv, NEW t \in Owner, NEW k \in Key, SetFails(t, k)
    PROVE  LocalsInv'
  <1>1. /\ sets[t] < MaxSets[t] /\ sets' = [sets EXCEPT ![t] = @ + 1] /\ sound' \in BOOLEAN
        /\ UNCHANGED <<gen, keys, dtors, slot, node, first, last, lost, phase, cursor, pass, again,
                       wrong, orphaned>>
    BY DEF SetFails, Sets
  <1>2. LocalsTyped'
    <2>1. MaxSets \in [Owner -> Nat] /\ sets \in [Owner -> Nat]
      BY LocalsAssumption DEF LocalsInv, LocalsTyped
    <2>2. sets' \in [Owner -> Nat] /\ \A u \in Owner : sets'[u] \in 0 .. MaxSets[u]
      BY <1>1, <2>1 DEF LocalsInv, LocalsTyped, LocalsTypeOK
    <2> QED
      BY <1>1, <2>2 DEF LocalsInv, LocalsTyped, LocalsTypeOK, Allocated
  <1> QED
    BY <1>1, <1>2 DEF LocalsInv, ListsLinked, CursorsOwn, SlotsOwn, ValuesCurrent, Allocated

\* A thread exits: the cleanup starts at the head of its list, if it has one.
LEMMA ExitKeepsLocals ==
    ASSUME LocalsInv, NEW t \in Owner, Exits(t)
    PROVE  LocalsInv'
  <1>1. /\ phase[t] = "runs"
        /\ phase' = [phase EXCEPT ![t] = IF first[t] = Null THEN "gone" ELSE "cleanup"]
        /\ cursor' = [cursor EXCEPT ![t] = first[t]] /\ pass' = [pass EXCEPT ![t] = 1]
        /\ UNCHANGED <<gen, keys, dtors, slot, node, first, last, lost, again, sets, sound,
                       wrong, orphaned>>
    BY DEF Exits
  <1>2. LocalsTyped
    BY DEF LocalsInv
  <1>3. /\ phase' \in [Owner -> {"runs", "cleanup", "destroys", "frees", "gone"}]
        /\ cursor' \in [Owner -> Node \cup {Null}] /\ pass' \in [Owner -> 0 .. Iterations]
        /\ phase'[t] = IF first[t] = Null THEN "gone" ELSE "cleanup"
        /\ cursor'[t] = first[t]
        /\ \A u \in Owner \ {t} : phase'[u] = phase[u] /\ cursor'[u] = cursor[u]
    BY <1>1, <1>2, LocalsAssumption DEF LocalsTyped, LocalsTypeOK
  <1>4. LocalsTyped'
    BY <1>1, <1>2, <1>3 DEF LocalsTyped, LocalsTypeOK, Allocated
  <1>5. ListsLinked'
    BY <1>1, <1>3 DEF LocalsInv, ListsLinked, Allocated
  <1>6. CursorsOwn'
    BY <1>1, <1>3 DEF LocalsInv, CursorsOwn, ListsLinked, Allocated
  <1>7. SlotsOwn'
    BY <1>1, <1>3 DEF LocalsInv, SlotsOwn, Alive, Allocated
  <1>8. ValuesCurrent'
    BY <1>1 DEF LocalsInv, ValuesCurrent, Allocated
  <1> QED
    BY <1>4, <1>5, <1>6, <1>7, <1>8 DEF LocalsInv

\* _dmr_thread_locals_cleanup at one node: the destructor that is called is that
\* of the key under which the value was set.
LEMMA VisitKeepsLocals ==
    ASSUME LocalsInv, NEW t \in Owner, VisitNode(t)
    PROVE  LocalsInv'
  <1> DEFINE n == cursor[t]
             called == node[n].value # 0 /\ DtorOf(n) # 0
  <1>1. /\ phase[t] = "cleanup" /\ n \in Allocated
        /\ node' = [node EXCEPT ![n].value = 0]
        /\ again' = [again EXCEPT ![t] = @ \/ called]
        /\ wrong' = (wrong \/ (called /\ DtorOf(n) # node[n].value))
        /\ phase' = [phase EXCEPT ![t] = IF called THEN "destroys" ELSE @]
        /\ cursor' = IF called THEN cursor ELSE [cursor EXCEPT ![t] = node[n].next]
        /\ UNCHANGED <<gen, keys, dtors, slot, first, last, lost, pass, sets, sound, orphaned>>
    BY DEF VisitNode
  <1>2. LocalsTyped /\ node[n].by = t
    BY <1>1, NodesTyped, LocalsAssumption DEF LocalsInv, CursorsOwn
  <1>3. /\ Allocated' = Allocated
        /\ \A m \in Allocated : /\ node'[m] \in Nodes
                                /\ node'[m].by = node[m].by /\ node'[m].key = node[m].key
                                /\ node'[m].next = node[m].next
                                /\ node'[m].value = IF m = n THEN 0 ELSE node[m].value
    <2>1. 0 \in Nat /\ n \in Allocated /\ node' = [node EXCEPT ![n].value = 0]
      BY <1>1
    <2> HIDE DEF n
    <2> QED
      BY <1>2, <2>1, ValueChanges
  <1>4. /\ called \in BOOLEAN /\ node[n].next \in Node \cup {Null}
        /\ node[n].key \in Key /\ n # Null
        /\ \A m \in Allocated : node[m].by \in Owner
    BY <1>1, <1>2, NodesTyped
  <1>5. DtorOf(n) = dtors[node[n].key]
    BY DEF DtorOf
  <1>6. ASSUME ~ orphaned, called PROVE DtorOf(n) = node[n].value
    BY <1>1, <1>4, <1>5, <1>6 DEF LocalsInv, ValuesCurrent
  <1>7. ~ orphaned => ~ wrong'
    BY <1>1, <1>6 DEF LocalsInv, ValuesCurrent
  <1> HIDE DEF n, called
  <1>8. /\ phase' \in [Owner -> {"runs", "cleanup", "destroys", "frees", "gone"}]
        /\ cursor' \in [Owner -> Node \cup {Null}] /\ again' \in [Owner -> BOOLEAN]
        /\ phase'[t] = IF called THEN "destroys" ELSE "cleanup"
        /\ cursor'[t] = IF called THEN n ELSE node[n].next
        /\ called => again'[t]
        /\ \A u \in Owner \ {t} :
             phase'[u] = phase[u] /\ cursor'[u] = cursor[u] /\ again'[u] = again[u]
    BY <1>1, <1>2, <1>4 DEF LocalsTyped, LocalsTypeOK, n
  <1>9. wrong' \in BOOLEAN
    BY <1>1, <1>2, <1>4 DEF LocalsTyped, LocalsTypeOK
  <1>10. LocalsTyped'
    BY <1>1, <1>2, <1>3, <1>8, <1>9 DEF LocalsTyped, LocalsTypeOK, Nodes
  <1>11. ListsLinked'
    <2>1. ASSUME NEW u \in Owner
          PROVE  /\ first'[u] # Null => first'[u] \in Allocated' /\ node'[first'[u]].by = u
                 /\ phase'[u] # "frees" => last'[u] = first'[u]
                 /\ phase'[u] \in {"cleanup", "destroys", "frees"} => first'[u] # Null
                 /\ phase'[u] = "gone" => first'[u] = Null
      BY <1>1, <1>3, <1>8 DEF LocalsInv, ListsLinked
    <2>2. ASSUME NEW m \in Allocated', node'[m].next # Null
          PROVE  /\ m = first'[node'[m].by]
                 /\ node'[m].next \in Allocated' \ {m}
                 /\ node'[node'[m].next].by = node'[m].by
                 /\ node'[node'[m].next].next = Null
      BY <1>1, <1>3, <2>2 DEF LocalsInv, ListsLinked
    <2> QED
      BY <2>1, <2>2 DEF ListsLinked
  <1>12. CursorsOwn'
    <2>1. node[n].next # Null => node[n].next \in Allocated /\ node[node[n].next].by = t
      BY <1>1, <1>2 DEF LocalsInv, ListsLinked
    <2>2. ASSUME NEW u \in Owner
          PROVE  /\ phase'[u] \in {"cleanup", "destroys"} /\ cursor'[u] # Null =>
                     cursor'[u] \in Allocated' /\ node'[cursor'[u]].by = u
                 /\ phase'[u] = "destroys" => cursor'[u] # Null /\ again'[u]
      <3>1. CASE u = t
        BY <1>1, <1>2, <1>3, <1>4, <1>8, <2>1, <3>1
      <3>2. CASE u # t
        BY <1>3, <1>8, <3>2 DEF LocalsInv, CursorsOwn
      <3> QED
        BY <3>1, <3>2
    <2> QED
      BY <2>2 DEF CursorsOwn
  <1>13. SlotsOwn'
    <2>1. \A u \in Owner : phase'[u] \in Alive => phase[u] \in Alive
      BY <1>1, <1>8 DEF Alive
    <2> QED
      BY <1>1, <1>3, <2>1 DEF LocalsInv, SlotsOwn
  <1>14. ValuesCurrent'
    BY <1>1, <1>3, <1>7 DEF LocalsInv, ValuesCurrent
  <1> QED
    BY <1>10, <1>11, <1>12, <1>13, <1>14 DEF LocalsInv

\* The destructor returns, and the walk goes on.
LEMMA ReturnKeepsLocals ==
    ASSUME LocalsInv, NEW t \in Owner, DtorReturns(t)
    PROVE  LocalsInv'
  <1>1. /\ phase[t] = "destroys" /\ phase' = [phase EXCEPT ![t] = "cleanup"]
        /\ cursor' = [cursor EXCEPT ![t] = node[@].next]
        /\ UNCHANGED <<gen, keys, dtors, slot, node, first, last, lost, pass, again, sets,
                       sound, wrong, orphaned>>
    BY DEF DtorReturns
  <1>2. LocalsTyped /\ cursor[t] \in Allocated /\ node[cursor[t]].by = t
    BY <1>1 DEF LocalsInv, CursorsOwn
  <1>3. /\ node[cursor[t]].next \in Node \cup {Null}
        /\ node[cursor[t]].next # Null =>
             node[cursor[t]].next \in Allocated /\ node[node[cursor[t]].next].by = t
    BY <1>2, NodesTyped DEF LocalsInv, ListsLinked
  <1>4. /\ phase' \in [Owner -> {"runs", "cleanup", "destroys", "frees", "gone"}]
        /\ cursor' \in [Owner -> Node \cup {Null}]
        /\ phase'[t] = "cleanup" /\ cursor'[t] = node[cursor[t]].next
        /\ \A u \in Owner \ {t} : phase'[u] = phase[u] /\ cursor'[u] = cursor[u]
    BY <1>1, <1>2, <1>3 DEF LocalsTyped, LocalsTypeOK
  <1>5. LocalsTyped'
    BY <1>1, <1>2, <1>4 DEF LocalsTyped, LocalsTypeOK, Allocated
  <1>6. ListsLinked'
    BY <1>1, <1>4 DEF LocalsInv, ListsLinked, Allocated
  <1>7. CursorsOwn'
    BY <1>1, <1>3, <1>4 DEF LocalsInv, CursorsOwn, Allocated
  <1>8. SlotsOwn'
    BY <1>1, <1>4 DEF LocalsInv, SlotsOwn, Alive, Allocated
  <1>9. ValuesCurrent'
    BY <1>1 DEF LocalsInv, ValuesCurrent, Allocated
  <1> QED
    BY <1>5, <1>6, <1>7, <1>8, <1>9 DEF LocalsInv

\* The end of a pass: another one, or the nodes are freed.
LEMMA PassKeepsLocals ==
    ASSUME LocalsInv, NEW t \in Owner, EndOfPass(t)
    PROVE  LocalsInv'
  <1>1. /\ phase[t] = "cleanup" /\ again' = [again EXCEPT ![t] = FALSE]
        /\ \/ /\ pass[t] < Iterations /\ pass' = [pass EXCEPT ![t] = @ + 1]
              /\ cursor' = [cursor EXCEPT ![t] = first[t]] /\ phase' = phase
           \/ phase' = [phase EXCEPT ![t] = "frees"] /\ pass' = pass /\ cursor' = cursor
        /\ UNCHANGED <<gen, keys, dtors, slot, node, first, last, lost, sets, sound, wrong, orphaned>>
    BY DEF EndOfPass, NextPass
  <1>2. LocalsTyped
    BY DEF LocalsInv
  <1>3. /\ phase' \in [Owner -> {"runs", "cleanup", "destroys", "frees", "gone"}]
        /\ cursor' \in [Owner -> Node \cup {Null}] /\ again' \in [Owner -> BOOLEAN]
        /\ phase'[t] \in {"cleanup", "frees"} /\ phase'[t] = "cleanup" => cursor'[t] = first[t]
        /\ \A u \in Owner \ {t} :
             phase'[u] = phase[u] /\ cursor'[u] = cursor[u] /\ again'[u] = again[u]
    BY <1>1, <1>2 DEF LocalsTyped, LocalsTypeOK
  <1>4. pass' \in [Owner -> 0 .. Iterations]
    <2>1. pass \in [Owner -> 0 .. Iterations] /\ Iterations \in Nat
      BY <1>2, LocalsAssumption DEF LocalsTyped, LocalsTypeOK
    <2>2. pass[t] < Iterations => pass[t] + 1 \in 0 .. Iterations
      BY <2>1
    <2> QED
      BY <1>1, <2>1, <2>2
  <1>5. LocalsTyped'
    BY <1>1, <1>2, <1>3, <1>4 DEF LocalsTyped, LocalsTypeOK, Allocated
  <1>6. ListsLinked'
    BY <1>1, <1>3 DEF LocalsInv, ListsLinked, Allocated
  <1>7. CursorsOwn'
    BY <1>1, <1>3 DEF LocalsInv, CursorsOwn, ListsLinked, Allocated
  <1>8. SlotsOwn'
    BY <1>1, <1>3 DEF LocalsInv, SlotsOwn, Alive, Allocated
  <1>9. ValuesCurrent'
    BY <1>1 DEF LocalsInv, ValuesCurrent, Allocated
  <1> QED
    BY <1>5, <1>6, <1>7, <1>8, <1>9 DEF LocalsInv

\* The head of the list is freed: it is in no other list and nobody's cursor.
LEMMA FreeKeepsLocals ==
    ASSUME LocalsInv, NEW t \in Owner, FreeNode(t)
    PROVE  LocalsInv'
  <1> DEFINE n == first[t]
  <1>1. /\ phase[t] = "frees" /\ n \in Allocated
        /\ first' = [first EXCEPT ![t] = node[@].next]
        /\ node' = [m \in Allocated \ {n} |-> node[m]]
        /\ phase' = [phase EXCEPT ![t] = IF first'[t] = Null THEN "gone" ELSE @]
        /\ last' = [last EXCEPT ![t] = IF first'[t] = Null THEN Null ELSE @]
        /\ UNCHANGED <<gen, keys, dtors, slot, lost, cursor, pass, again, sets, sound, wrong, orphaned>>
    BY DEF FreeNode
  <1>2. /\ LocalsTyped /\ node[n].next \in Node \cup {Null}
        /\ \A m \in Allocated : node[m].by \in Owner
    BY <1>1, NodesTyped DEF LocalsInv
  <1>3. /\ Allocated' = Allocated \ {n} /\ \A m \in Allocated' : node'[m] = node[m]
    BY <1>1 DEF Allocated
  <1>4. /\ phase' \in [Owner -> {"runs", "cleanup", "destroys", "frees", "gone"}]
        /\ first' \in [Owner -> Node \cup {Null}] /\ last' \in [Owner -> Node \cup {Null}]
        /\ first'[t] = node[n].next
        /\ phase'[t] = IF node[n].next = Null THEN "gone" ELSE "frees"
        /\ \A u \in Owner \ {t} :
             first'[u] = first[u] /\ phase'[u] = phase[u] /\ last'[u] = last[u]
        /\ node[n].next = Null => last'[t] = Null
    BY <1>1, <1>2 DEF LocalsTyped, LocalsTypeOK
  <1>5. /\ n # Null /\ node[n].by = t
        /\ node[n].next # Null => /\ node[n].next \in Allocated \ {n} /\ node[node[n].next].by = t
                                  /\ node[node[n].next].next = Null
    BY <1>1, <1>2, NodesTyped DEF LocalsInv, ListsLinked
  <1> HIDE DEF n
  <1>6. \A u \in Owner \ {t} : first[u] # Null => first[u] \in Allocated' /\ node[first[u]].by = u
    BY <1>3, <1>5 DEF LocalsInv, ListsLinked
  <1>7. LocalsTyped'
    BY <1>1, <1>2, <1>3, <1>4 DEF LocalsTyped, LocalsTypeOK
  <1>8. ListsLinked'
    <2>1. ASSUME NEW u \in Owner
          PROVE  /\ first'[u] # Null => first'[u] \in Allocated' /\ node'[first'[u]].by = u
                 /\ phase'[u] # "frees" => last'[u] = first'[u]
                 /\ phase'[u] \in {"cleanup", "destroys", "frees"} => first'[u] # Null
                 /\ phase'[u] = "gone" => first'[u] = Null
      <3>1. CASE u = t
        BY <1>3, <1>4, <1>5, <3>1
      <3>2. CASE u # t
        BY <1>3, <1>4, <1>6, <3>2 DEF LocalsInv, ListsLinked
      <3> QED
        BY <3>1, <3>2
    <2>2. ASSUME NEW m \in Allocated', node'[m].next # Null
          PROVE  /\ m = first'[node'[m].by]
                 /\ node'[m].next \in Allocated' \ {m}
                 /\ node'[node'[m].next].by = node'[m].by
                 /\ node'[node'[m].next].next = Null
      <3> DEFINE x == node[m].next
      <3>1. m \in Allocated /\ m # n /\ node'[m] = node[m] /\ x # Null
        BY <1>3, <2>2
      <3>2. /\ m = first[node[m].by] /\ x \in Allocated \ {m}
            /\ node[x].by = node[m].by /\ node[x].next = Null
        BY <3>1 DEF LocalsInv, ListsLinked
      <3>3. node[m].by \in Owner \ {t}
        BY <1>2, <3>1, <3>2 DEF n
      <3>4. x # n
        BY <1>5, <3>2, <3>3
      <3>5. x \in Allocated' /\ node'[x] = node[x]
        BY <1>3, <3>2, <3>4
      <3> QED
        BY <1>4, <3>1, <3>2, <3>3, <3>5
    <2> QED
      BY <2>1, <2>2 DEF ListsLinked
  <1>9. CursorsOwn'
    <2> SUFFICES ASSUME NEW u \in Owner, phase'[u] \in {"cleanup", "destroys"}
                 PROVE  /\ cursor[u] # Null => cursor[u] \in Allocated' /\ node'[cursor[u]].by = u
                        /\ phase'[u] = "destroys" => cursor[u] # Null /\ again[u]
      BY <1>1 DEF CursorsOwn
    <2>1. u # t /\ phase'[u] = phase[u]
      BY <1>4
    <2>2. /\ cursor[u] # Null => cursor[u] \in Allocated /\ node[cursor[u]].by = u
          /\ phase[u] = "destroys" => cursor[u] # Null /\ again[u]
      BY <2>1 DEF LocalsInv, CursorsOwn
    <2> QED
      BY <1>3, <1>5, <2>1, <2>2
  <1>10. SlotsOwn'
    <2>0. keys' = keys /\ slot' = slot
      BY <1>1
    <2> SUFFICES ASSUME NEW u \in Owner, NEW k \in keys, phase'[u] \in Alive, slot[u][k] # Null
                 PROVE  /\ slot[u][k] \in Allocated'
                        /\ node'[slot[u][k]].key = k /\ node'[slot[u][k]].by = u
      BY <2>0 DEF SlotsOwn
    <2>1. u # t /\ phase[u] \in Alive
      BY <1>4 DEF Alive
    <2>2. slot[u][k] \in Allocated /\ node[slot[u][k]].key = k /\ node[slot[u][k]].by = u
      BY <2>1 DEF LocalsInv, SlotsOwn
    <2> QED
      BY <1>3, <1>5, <2>1, <2>2
  <1>11. ValuesCurrent'
    BY <1>1, <1>3 DEF LocalsInv, ValuesCurrent
  <1> QED
    BY <1>7, <1>8, <1>9, <1>10, <1>11 DEF LocalsInv

\* At first nothing is stored and nobody exits.
LEMMA LocalsInitially == LocalsInit => LocalsInv
  <1> SUFFICES ASSUME LocalsInit PROVE LocalsInv
    OBVIOUS
  <1>1. Allocated = {}
    BY DEF LocalsInit, Allocated
  <1>2. LocalsTyped
    <2>1. MaxGen \in [Key -> Nat] /\ MaxSets \in [Owner -> Nat] /\ Iterations \in Nat \ {0}
      BY LocalsAssumption
    <2>2. /\ gen \in [Key -> Nat] /\ dtors \in [Key -> Nat] /\ sets \in [Owner -> Nat]
          /\ \A k \in Key : gen[k] \in 0 .. MaxGen[k] /\ dtors[k] \in 0 .. MaxGen[k]
          /\ \A t \in Owner : sets[t] \in 0 .. MaxSets[t]
      BY <2>1 DEF LocalsInit
    <2>3. /\ slot \in [Owner -> [Key -> Node \cup {Null}]]
          /\ first \in [Owner -> Node \cup {Null}] /\ last \in [Owner -> Node \cup {Null}]
          /\ phase \in [Owner -> {"runs", "cleanup", "destroys", "frees", "gone"}]
          /\ cursor \in [Owner -> Node \cup {Null}]
          /\ pass \in [Owner -> 0 .. Iterations] /\ again \in [Owner -> BOOLEAN]
      BY <2>1 DEF LocalsInit
    <2>4. keys \subseteq Key /\ lost \subseteq Node /\ {sound, wrong, orphaned} \subseteq BOOLEAN
      BY DEF LocalsInit
    <2> QED
      BY <1>1, <2>2, <2>3, <2>4 DEF LocalsTyped, LocalsTypeOK
  <1> QED
    BY <1>1, <1>2 DEF LocalsInit, LocalsInv, ListsLinked, CursorsOwn, SlotsOwn, ValuesCurrent

\* Every step of any thread keeps the invariant.
LEMMA LocalsStep == LocalsInv /\ [LocalsNext]_localsVars => LocalsInv'
  <1> SUFFICES ASSUME LocalsInv, [LocalsNext]_localsVars PROVE LocalsInv'
    OBVIOUS
  <1>1. CASE UNCHANGED localsVars
    BY <1>1 DEF localsVars, LocalsInv, LocalsTyped, LocalsTypeOK, ListsLinked, CursorsOwn,
       SlotsOwn, ValuesCurrent, Allocated
  <1>2. ASSUME NEW t \in Owner, NEW k \in Key, NEW dtor \in BOOLEAN, dmr_locals_create(t, k, dtor)
        PROVE  LocalsInv'
    BY <1>2, CreateKeepsLocals
  <1>3. ASSUME NEW t \in Owner, NEW k \in Key, dmr_locals_delete(t, k) PROVE LocalsInv'
    BY <1>3, DeleteKeepsLocals
  <1>4. ASSUME NEW t \in Owner, NEW k \in Key, dmr_locals_set(t, k) PROVE LocalsInv'
    BY <1>4, OldValueKeepsLocals, NewValueKeepsLocals
  <1>5. ASSUME NEW t \in Owner, NEW k \in Key, SetFails(t, k) PROVE LocalsInv'
    BY <1>5, SetFailsKeepsLocals
  <1>6. ASSUME NEW t \in Owner, Exits(t) PROVE LocalsInv'
    BY <1>6, ExitKeepsLocals
  <1>7. ASSUME NEW t \in Owner, VisitNode(t) PROVE LocalsInv'
    BY <1>7, VisitKeepsLocals
  <1>8. ASSUME NEW t \in Owner, DtorReturns(t) PROVE LocalsInv'
    BY <1>8, ReturnKeepsLocals
  <1>9. ASSUME NEW t \in Owner, EndOfPass(t) PROVE LocalsInv'
    BY <1>9, PassKeepsLocals
  <1>10. ASSUME NEW t \in Owner, FreeNode(t) PROVE LocalsInv'
    BY <1>10, FreeKeepsLocals
  <1> QED
    BY <1>1, <1>2, <1>3, <1>4, <1>5, <1>6, <1>7, <1>8, <1>9, <1>10 DEF LocalsNext

\* For any number of threads, keys and nodes, and however the threads' exits and
\* the reuse of indexes interleave: a destructor is only called with a value of
\* its own key, unless a key was deleted that some thread had a value for
\* (_dmr_thread_locals_cleanup).
THEOREM DestructorsOwnValues == LocalsSpec => [](LocalsTypeOK /\ DtorOwnsValue)
  <1>1. LocalsInv => LocalsTypeOK /\ DtorOwnsValue
    BY DEF LocalsInv, LocalsTyped, LocalsTypeOK, ValuesCurrent, DtorOwnsValue
  <1> QED
    BY <1>1, LocalsInitially, LocalsStep, PTL DEF LocalsSpec
----------------------------------------------------------------------------
(***************************************************************************)
(* The lists are complete but for the nodes that are lost.                 *)
(***************************************************************************)
\* Steps that leave the ends of the lists and the links between nodes alone leave
\* the lists alone.
LEMMA ListsStand ==
    ASSUME LocalsInv, NodesInLists, first' = first, lost' = lost, Allocated' = Allocated,
           \A m \in Allocated : node'[m].by = node[m].by /\ node'[m].next = node[m].next,
           \A u \in Owner : phase'[u] \in Alive => phase[u] \in Alive
    PROVE  NodesInLists' /\ \A u \in Owner : Listed(u)' = Listed(u)
  <1>1. \A u \in Owner : first[u] # Null => first[u] \in Allocated
    BY DEF LocalsInv, ListsLinked
  <1>2. \A u \in Owner : Listed(u)' = Listed(u)
    BY <1>1 DEF Listed
  <1>3. \A m \in Allocated : node[m].by \in Owner
    BY NodesTyped DEF LocalsInv
  <1> QED
    BY <1>2, <1>3 DEF NodesInLists

\* dmr_locals_set links the node where the cleanup will find it.
LEMMA NewValueComplete ==
    ASSUME LocalsInv, ListsComplete, NEW t \in Owner, NEW k \in Key,
           dmr_locals_set(t, k), slot[t][k] = Null
    PROVE  ListsComplete'
  <1>1. /\ phase[t] \in {"runs", "destroys"} /\ k \in keys
        /\ UNCHANGED <<phase, cursor, pass, again>>
    BY DEF dmr_locals_set, Sets
  <1>2. PICK n \in Node \ Allocated :
            Link(t, n, NewNode(t, k)) /\ slot' = [slot EXCEPT ![t][k] = n]
    BY NewValueKeepsLocals
  <1>3. /\ LocalsTyped /\ slot \in [Owner -> [Key -> Node \cup {Null}]]
        /\ \A m \in Allocated : m # n /\ node[m].by \in Owner /\ node[m].key \in Key
        /\ Null \notin Allocated /\ n # Null
    BY NodesTyped, LocalsAssumption DEF LocalsInv, LocalsTyped, LocalsTypeOK
  <1>4. /\ Allocated' = Allocated \cup {n}
        /\ node'[n] = NewNode(t, k)
        /\ \A m \in Allocated : /\ node'[m].by = node[m].by /\ node'[m].key = node[m].key
                                /\ node'[m].value = node[m].value
                                /\ node'[m].next = IF m = last[t] THEN n ELSE node[m].next
        /\ \A u \in Owner : first'[u] = IF u = t /\ first[t] = Null THEN n ELSE first[u]
        /\ lost' = lost \cup (IF last[t] = Null THEN {} ELSE {node[last[t]].next} \ {Null})
    BY <1>2, <1>3, NodeLinked
  <1>5. node'[n].by = t /\ node'[n].next = Null
    BY <1>4 DEF NewNode
  <1>7. phase[t] \in Alive /\ last[t] = first[t]
    BY <1>1 DEF Alive, LocalsInv, ListsLinked
  <1>6. \A u \in Owner : first[u] # Null => first[u] \in Allocated /\ node[first[u]].by = u
    BY DEF LocalsInv, ListsLinked
  <1>8. ASSUME NEW u \in Owner \ {t} PROVE Listed(u)' = Listed(u)
    <2>1. first'[u] = first[u]
      BY <1>4
    <2>2. first[u] # Null => node'[first[u]].next = node[first[u]].next
      BY <1>4, <1>6, <1>7
    <2> QED
      BY <2>1, <2>2 DEF Listed
  <1>9. NodesInLists'
    <2> DEFINE a == first[t]
               b == node[a].next
    <2>1. lost \subseteq Allocated
      BY DEF ListsComplete, NodesInLists
    <2>2. ASSUME NEW u \in Owner \ {t}, NEW m \in Allocated, node[m].by = u
          PROVE  /\ node'[m].by = u
                 /\ m \in lost' <=> m \notin Listed(u)'
                 /\ m \in lost' /\ phase[u] \in Alive => Listed(u)' \ {first'[u]} # {}
      <3>1. node'[m].by = u
        BY <1>3, <1>4, <2>2
      <3>2. m \in lost' => m \in lost
        <4>1. CASE a = Null
          BY <1>4, <1>7, <4>1
        <4>2. CASE a # Null
          <5>1. a \in Allocated /\ node[a].by = t
            BY <1>6, <4>2
          <5>2. b # Null => node[b].by = t
            BY <5>1 DEF LocalsInv, ListsLinked
          <5>3. m \in lost' => m \in lost \/ m = b
            BY <1>4, <1>7
          <5> QED
            BY <1>3, <2>2, <5>2, <5>3
        <4> QED
          BY <4>1, <4>2
      <3>3. m \in lost => m \in lost'
        BY <1>4
      <3>4. Listed(u)' = Listed(u) /\ first'[u] = first[u]
        BY <1>4, <1>8
      <3>5. /\ m \in lost <=> m \notin Listed(u)
            /\ m \in lost /\ phase[u] \in Alive => Listed(u) \ {first[u]} # {}
        BY <2>2 DEF ListsComplete, NodesInLists
      <3> QED
        BY <3>1, <3>2, <3>3, <3>4, <3>5
    <2>3. ASSUME NEW m \in Allocated, node[m].by = t
          PROVE  /\ m \in lost <=> m \notin Listed(t)
                 /\ m \in lost => Listed(t) \ {first[t]} # {}
      BY <1>7, <2>3 DEF ListsComplete, NodesInLists
    <2>4. ASSUME NEW m \in Allocated', node'[m].by = t
          PROVE  /\ m \in lost' <=> m \notin Listed(t)'
                 /\ m \in lost' => Listed(t)' \ {first'[t]} # {}
      <3>1. m = n \/ (m \in Allocated /\ m # n /\ node[m].by = t)
        BY <1>3, <1>4, <2>4
      <3>2. CASE a = Null
        <4>1. first'[t] = n /\ lost' = lost /\ Listed(t) = {} /\ Listed(t)' = {n}
          BY <1>3, <1>4, <1>5, <1>7, <3>2 DEF Listed
        <4>2. m \in Allocated => node[m].by # t
          BY <2>3, <4>1
        <4> QED
          BY <1>3, <2>1, <3>1, <4>1, <4>2
      <3>3. CASE a # Null
        <4>1. /\ a \in Allocated /\ node[a].by = t /\ first'[t] = a /\ node'[a].next = n
              /\ Listed(t) = {a, b} \ {Null} /\ lost' = lost \cup ({b} \ {Null})
          BY <1>4, <1>6, <1>7, <3>3 DEF Listed
        <4>2. Listed(t)' = {a, n} /\ a # n
          BY <1>3, <3>3, <4>1 DEF Listed
        <4>3. b # Null => b \in Allocated /\ b # a
          BY <4>1 DEF LocalsInv, ListsLinked
        <4>4. Listed(t)' \ {first'[t]} # {}
          BY <4>1, <4>2
        <4>5. n \notin lost'
          BY <1>3, <2>1, <4>1, <4>3
        <4>6. a \notin lost'
          BY <1>3, <2>3, <3>3, <4>1, <4>3
        <4>7. m \notin {a, n} => m \in lost'
          BY <1>3, <2>3, <3>1, <4>1
        <4> HIDE DEF a, b
        <4> QED
          BY <4>2, <4>4, <4>5, <4>6, <4>7
      <3> QED
        BY <3>2, <3>3
    <2>5. lost' \subseteq Allocated'
      <3>1. a # Null /\ b # Null => b \in Allocated
        <4>1. a # Null => a \in Allocated
          BY <1>6
        <4> QED
          BY <4>1 DEF LocalsInv, ListsLinked
      <3> QED
        BY <1>4, <1>7, <2>1, <3>1
    <2> HIDE DEF a, b
    <2>6. \A m \in Allocated' : (m \in Allocated /\ node[m].by # t) \/ node'[m].by = t
      BY <1>4, <1>5
    <2>7. phase' = phase
      BY <1>1
    <2>8. ASSUME NEW u, NEW m \in Allocated', node'[m].by = u
          PROVE  /\ m \in lost' <=> m \notin Listed(u)'
                 /\ m \in lost' /\ phase'[u] \in Alive => Listed(u)' \ {first'[u]} # {}
      <3>1. CASE u = t
        BY <2>4, <2>8, <3>1
      <3>2. CASE u # t
        <4>1. m \in Allocated /\ node[m].by # t
          BY <2>6, <2>8, <3>2
        <4>2. node[m].by \in Owner
          BY <1>3, <4>1
        <4>3. node[m].by = u
          BY <2>2, <2>8, <4>1, <4>2
        <4> QED
          BY <2>2, <2>7, <3>2, <4>1, <4>2, <4>3
      <3> QED
        BY <3>1, <3>2
    <2> QED
      BY <2>5, <2>8 DEF NodesInLists
  <1>10. VisitedEmpty'
    <2> SUFFICES ASSUME NEW m \in Allocated' \ lost', NEW u, u = node'[m].by
                 PROVE  /\ phase[u] = "cleanup" /\ ~ again[u] /\ m \notin Ahead(u)' =>
                            node'[m].value = 0
                        /\ phase[u] = "frees" => node'[m].value = 0 \/ pass[u] = Iterations
      BY <1>1 DEF VisitedEmpty
    <2>1. CASE m = n
      BY <1>1, <1>5, <2>1
    <2>2. CASE m # n
      <3>1. /\ m \in Allocated \ lost /\ u = node[m].by /\ u \in Owner
            /\ node'[m].value = node[m].value
        BY <1>3, <1>4, <2>2
      <3>2. ASSUME phase[u] = "cleanup" PROVE Ahead(u)' = Ahead(u)
        <4>1. u # t
          BY <1>1, <3>2
        <4>2. cursor[u] # Null => cursor[u] \in Allocated /\ node[cursor[u]].by = u
          BY <3>1, <3>2 DEF LocalsInv, CursorsOwn
        <4>3. last[t] # Null => node[last[t]].by = t
          BY <1>7 DEF LocalsInv, ListsLinked
        <4>4. cursor[u] # Null => node'[cursor[u]].next = node[cursor[u]].next
          BY <1>4, <4>1, <4>2, <4>3
        <4> QED
          BY <1>1, <4>4 DEF Ahead
      <3> QED
        BY <3>1, <3>2 DEF ListsComplete, VisitedEmpty
    <2> QED
      BY <2>1, <2>2
  <1> QED
    BY <1>9, <1>10 DEF ListsComplete

\* dmr_locals_set changes no list when the node is there.
LEMMA OldValueComplete ==
    ASSUME LocalsInv, ListsComplete, NEW t \in Owner, NEW k \in Key,
           dmr_locals_set(t, k), slot[t][k] # Null
    PROVE  ListsComplete'
  <1> DEFINE n == slot[t][k]
  <1>1. /\ phase[t] \in {"runs", "destroys"} /\ k \in keys
        /\ node' = [node EXCEPT ![n].value = gen[k]]
        /\ UNCHANGED <<slot, first, lost, phase, cursor, pass, again>>
    BY DEF dmr_locals_set, Sets
  <1>2. n \in Allocated /\ node[n].by = t
    BY <1>1 DEF LocalsInv, SlotsOwn, Alive
  <1>3. LocalsTyped /\ gen[k] \in Nat
    BY DEF LocalsInv, LocalsTyped
  <1> HIDE DEF n
  <1>4. /\ Allocated' = Allocated
        /\ \A m \in Allocated : /\ node'[m] \in Nodes
                                /\ node'[m].by = node[m].by /\ node'[m].key = node[m].key
                                /\ node'[m].next = node[m].next
                                /\ node'[m].value = IF m = n THEN gen[k] ELSE node[m].value
    <2>1. node' = [node EXCEPT ![n].value = gen[k]]
      BY <1>1
    <2> QED
      BY <1>2, <1>3, <2>1, ValueChanges
  <1>6. \A m \in Allocated : node[m].by \in Owner
    BY <1>3, NodesTyped
  <1>7. NodesInLists'
    BY <1>1, <1>4, ListsStand DEF ListsComplete
  <1>8. ASSUME NEW u \in Owner, phase[u] = "cleanup" PROVE Ahead(u)' = Ahead(u)
    <2>1. cursor[u] # Null => cursor[u] \in Allocated
      BY <1>8 DEF LocalsInv, CursorsOwn
    <2>2. cursor' = cursor /\ (cursor[u] # Null => node'[cursor[u]].next = node[cursor[u]].next)
      BY <1>1, <1>4, <2>1
    <2> QED
      BY <2>2 DEF Ahead
  <1>9. VisitedEmpty'
    <2> SUFFICES ASSUME NEW m \in Allocated \ lost, NEW u \in Owner, u = node[m].by
                 PROVE  /\ phase[u] = "cleanup" /\ ~ again[u] /\ m \notin Ahead(u)' =>
                            node'[m].value = 0
                        /\ phase[u] = "frees" => node'[m].value = 0 \/ pass[u] = Iterations
      BY <1>1, <1>4, <1>6 DEF VisitedEmpty
    <2>1. CASE m = n
      BY <1>1, <1>2, <2>1
    <2>2. CASE m # n
      BY <1>4, <1>8, <2>2 DEF ListsComplete, VisitedEmpty
    <2> QED
      BY <2>1, <2>2
  <1> QED
    BY <1>7, <1>9 DEF ListsComplete

\* A cleanup starts at the head, with all of the thread's nodes ahead.
LEMMA ExitComplete ==
    ASSUME LocalsInv, ListsComplete, NEW t \in Owner, Exits(t)
    PROVE  ListsComplete'
  <1>1. /\ phase[t] = "runs"
        /\ phase' = [phase EXCEPT ![t] = IF first[t] = Null THEN "gone" ELSE "cleanup"]
        /\ cursor' = [cursor EXCEPT ![t] = first[t]] /\ pass' = [pass EXCEPT ![t] = 1]
        /\ UNCHANGED <<slot, node, first, lost, again>>
    BY DEF Exits
  <1>2. LocalsTyped /\ \A m \in Allocated : node[m].by \in Owner
    BY NodesTyped DEF LocalsInv
  <1>3. /\ phase'[t] = (IF first[t] = Null THEN "gone" ELSE "cleanup") /\ cursor'[t] = first[t]
        /\ \A u \in Owner \ {t} :
             phase'[u] = phase[u] /\ cursor'[u] = cursor[u] /\ pass'[u] = pass[u]
    BY <1>1, <1>2 DEF LocalsTyped, LocalsTypeOK
  <1>4. Allocated' = Allocated
    BY <1>1 DEF Allocated
  <1>6. NodesInLists'
    BY <1>1, <1>3, <1>4, ListsStand DEF ListsComplete, Alive
  <1>7. VisitedEmpty'
    <2> SUFFICES ASSUME NEW m \in Allocated \ lost, NEW u \in Owner, u = node[m].by
                 PROVE  /\ phase'[u] = "cleanup" /\ ~ again[u] /\ m \notin Ahead(u)' =>
                            node[m].value = 0
                        /\ phase'[u] = "frees" => node[m].value = 0 \/ pass'[u] = Iterations
      BY <1>1, <1>2, <1>4 DEF VisitedEmpty
    <2>1. CASE u = t
      <3>1. first[t] # Null /\ m \in {first[t], node[first[t]].next}
        BY <2>1 DEF ListsComplete, NodesInLists, Listed
      <3>2. cursor'[t] = first[t] /\ node' = node
        BY <1>1, <1>3
      <3>3. m \in Ahead(t)'
        BY <3>1, <3>2 DEF Ahead
      <3> QED
        BY <1>3, <2>1, <3>1, <3>3
    <2>2. CASE u # t
      <3>1. Ahead(u)' = Ahead(u)
        BY <1>1, <1>3, <2>2 DEF Ahead
      <3> QED
        BY <1>3, <2>2, <3>1 DEF ListsComplete, VisitedEmpty
    <2> QED
      BY <2>1, <2>2
  <1> QED
    BY <1>6, <1>7 DEF ListsComplete

\* A node that is visited loses its value.
LEMMA VisitComplete ==
    ASSUME LocalsInv, ListsComplete, NEW t \in Owner, VisitNode(t)
    PROVE  ListsComplete'
  <1> DEFINE n == cursor[t]
             called == node[n].value # 0 /\ DtorOf(n) # 0
  <1>1. /\ phase[t] = "cleanup" /\ n \in Allocated
        /\ node' = [node EXCEPT ![n].value = 0]
        /\ again' = [again EXCEPT ![t] = @ \/ called]
        /\ phase' = [phase EXCEPT ![t] = IF called THEN "destroys" ELSE @]
        /\ cursor' = IF called THEN cursor ELSE [cursor EXCEPT ![t] = node[n].next]
        /\ UNCHANGED <<slot, first, lost, pass>>
    BY DEF VisitNode
  <1>2. /\ LocalsTyped /\ n # Null /\ node[n].by = t /\ 0 \in Nat
        /\ \A m \in Allocated : node[m].by \in Owner
    BY <1>1, NodesTyped DEF LocalsInv, CursorsOwn
  <1> HIDE DEF n, called
  <1>3. /\ Allocated' = Allocated
        /\ \A m \in Allocated : /\ node'[m] \in Nodes
                                /\ node'[m].by = node[m].by /\ node'[m].key = node[m].key
                                /\ node'[m].next = node[m].next
                                /\ node'[m].value = IF m = n THEN 0 ELSE node[m].value
    <2>1. LocalsTyped /\ n \in Allocated /\ 0 \in Nat /\ node' = [node EXCEPT ![n].value = 0]
      BY <1>1, <1>2
    <2> QED
      BY <2>1, ValueChanges
  <1>4. /\ phase'[t] = (IF called THEN "destroys" ELSE "cleanup")
        /\ cursor'[t] = (IF called THEN n ELSE node[n].next)
        /\ again'[t] = (again[t] \/ called)
        /\ \A u \in Owner \ {t} :
             phase'[u] = phase[u] /\ cursor'[u] = cursor[u] /\ again'[u] = again[u]
    BY <1>1, <1>2 DEF LocalsTyped, LocalsTypeOK, n
  <1>7. NodesInLists'
    BY <1>1, <1>3, <1>4, ListsStand DEF ListsComplete, Alive
  <1>8. VisitedEmpty'
    <2> SUFFICES ASSUME NEW m \in Allocated \ lost, NEW u \in Owner, u = node[m].by
                 PROVE  /\ phase'[u] = "cleanup" /\ ~ again'[u] /\ m \notin Ahead(u)' =>
                            node'[m].value = 0
                        /\ phase'[u] = "frees" => node'[m].value = 0 \/ pass[u] = Iterations
      BY <1>1, <1>2, <1>3 DEF VisitedEmpty
    <2>1. CASE u = t
      <3>1. phase'[t] # "frees"
        BY <1>4
      <3>2. ASSUME phase'[t] = "cleanup", ~ again'[t], m \notin Ahead(t)', m # n
            PROVE  node[m].value = 0
        <4>1. ~ called /\ ~ again[t] /\ cursor'[t] = node[n].next
          BY <1>4, <3>2
        <4>2. node[n].next # Null => m # node[n].next
          BY <3>2, <4>1 DEF Ahead
        <4>3. node[n].next = Null => m # node[n].next
          BY <1>2, NodesTyped
        <4>4. m \notin Ahead(t)
          BY <1>2, <3>2, <4>2, <4>3 DEF Ahead, n
        <4> QED
          BY <1>1, <2>1, <4>1, <4>4 DEF ListsComplete, VisitedEmpty
      <3> QED
        BY <1>3, <2>1, <3>1, <3>2
    <2>2. CASE u # t
      <3>1. ASSUME phase[u] = "cleanup" PROVE Ahead(u)' = Ahead(u)
        <4>1. cursor'[u] = cursor[u] /\ (cursor[u] # Null => cursor[u] \in Allocated)
          BY <1>4, <2>2, <3>1 DEF LocalsInv, CursorsOwn
        <4>2. cursor[u] # Null => node'[cursor[u]].next = node[cursor[u]].next
          BY <1>3, <4>1
        <4> QED
          BY <4>1, <4>2 DEF Ahead
      <3>2. m # n
        BY <1>2, <2>2
      <3> QED
        BY <1>3, <1>4, <2>2, <3>1, <3>2 DEF ListsComplete, VisitedEmpty
    <2> QED
      BY <2>1, <2>2
  <1> QED
    BY <1>7, <1>8 DEF ListsComplete

\* After a destructor there is another pass to come, if passes are left.
LEMMA ReturnComplete ==
    ASSUME LocalsInv, ListsComplete, NEW t \in Owner, DtorReturns(t)
    PROVE  ListsComplete'
  <1>1. /\ phase[t] = "destroys" /\ phase' = [phase EXCEPT ![t] = "cleanup"]
        /\ cursor' = [cursor EXCEPT ![t] = node[@].next]
        /\ UNCHANGED <<slot, node, first, lost, pass, again>>
    BY DEF DtorReturns
  <1>2. LocalsTyped /\ again[t] /\ \A m \in Allocated : node[m].by \in Owner
    BY <1>1, NodesTyped DEF LocalsInv, CursorsOwn
  <1>3. /\ phase'[t] = "cleanup"
        /\ \A u \in Owner \ {t} : phase'[u] = phase[u] /\ cursor'[u] = cursor[u]
    BY <1>1, <1>2 DEF LocalsTyped, LocalsTypeOK
  <1>4. Allocated' = Allocated
    BY <1>1 DEF Allocated
  <1>6. NodesInLists'
    BY <1>1, <1>3, <1>4, ListsStand DEF ListsComplete, Alive
  <1>7. \A u \in Owner \ {t} : Ahead(u)' = Ahead(u)
    BY <1>1, <1>3 DEF Ahead
  <1>8. VisitedEmpty'
    BY <1>1, <1>2, <1>3, <1>4, <1>7 DEF ListsComplete, VisitedEmpty
  <1> QED
    BY <1>6, <1>8 DEF ListsComplete

\* A pass that called no destructor has emptied every node.
LEMMA PassComplete ==
    ASSUME LocalsInv, ListsComplete, NEW t \in Owner, EndOfPass(t)
    PROVE  ListsComplete'
  <1>1. /\ phase[t] = "cleanup" /\ cursor[t] = Null
        /\ \/ /\ phase' = phase /\ cursor' = [cursor EXCEPT ![t] = first[t]]
              /\ pass' = [pass EXCEPT ![t] = @ + 1]
           \/ /\ ~ (again[t] /\ pass[t] < Iterations)
              /\ phase' = [phase EXCEPT ![t] = "frees"] /\ cursor' = cursor /\ pass' = pass
        /\ again' = [again EXCEPT ![t] = FALSE]
        /\ UNCHANGED <<slot, node, first, lost>>
    BY DEF EndOfPass, NextPass
  <1>2. /\ LocalsTyped /\ \A m \in Allocated : node[m].by \in Owner
        /\ pass[t] \in 0 .. Iterations /\ Iterations \in Nat /\ again[t] \in BOOLEAN
    BY NodesTyped, LocalsAssumption DEF LocalsInv, LocalsTyped, LocalsTypeOK
  <1>3. /\ \/ phase'[t] = "cleanup" /\ cursor'[t] = first[t]
           \/ phase'[t] = "frees" /\ pass'[t] = pass[t] /\ (again[t] => pass[t] = Iterations)
        /\ \A u \in Owner \ {t} : /\ phase'[u] = phase[u] /\ cursor'[u] = cursor[u]
                                  /\ again'[u] = again[u] /\ pass'[u] = pass[u]
    <2>1. /\ t \in DOMAIN phase /\ t \in DOMAIN cursor
          /\ \A u \in Owner :
               u \in DOMAIN phase /\ u \in DOMAIN cursor /\ u \in DOMAIN again /\ u \in DOMAIN pass
      BY <1>2 DEF LocalsTyped, LocalsTypeOK
    <2>2. again[t] /\ ~ (pass[t] < Iterations) => pass[t] = Iterations
      BY <1>2
    <2>3. CASE /\ phase' = phase /\ cursor' = [cursor EXCEPT ![t] = first[t]]
               /\ pass' = [pass EXCEPT ![t] = @ + 1]
      BY <1>1, <2>1, <2>3
    <2>4. CASE /\ ~ (again[t] /\ pass[t] < Iterations)
               /\ phase' = [phase EXCEPT ![t] = "frees"] /\ cursor' = cursor /\ pass' = pass
      BY <1>1, <2>1, <2>2, <2>4
    <2> QED
      BY <1>1, <2>3, <2>4
  <1>4. Allocated' = Allocated
    BY <1>1 DEF Allocated
  <1>6. NodesInLists'
    BY <1>1, <1>3, <1>4, ListsStand DEF ListsComplete, Alive
  <1>7. VisitedEmpty'
    <2> SUFFICES ASSUME NEW m \in Allocated \ lost, NEW u \in Owner, u = node[m].by
                 PROVE  /\ phase'[u] = "cleanup" /\ ~ again'[u] /\ m \notin Ahead(u)' =>
                            node[m].value = 0
                        /\ phase'[u] = "frees" => node[m].value = 0 \/ pass'[u] = Iterations
      BY <1>1, <1>2, <1>4 DEF VisitedEmpty
    <2>1. CASE u = t /\ phase'[t] = "cleanup"
      <3>1. cursor'[t] = first[t]
        BY <1>3, <2>1
      <3>2. m \in Ahead(t)'
        BY <1>1, <2>1, <3>1 DEF Ahead, ListsComplete, NodesInLists, Listed
      <3> QED
        BY <2>1, <3>2
    <2>2. CASE u = t /\ phase'[t] # "cleanup"
      <3>1. ~ again[t] => node[m].value = 0
        BY <1>1, <2>2 DEF Ahead, ListsComplete, VisitedEmpty
      <3> QED
        BY <1>3, <2>2, <3>1
    <2>3. CASE u # t
      <3>1. Ahead(u)' = Ahead(u)
        BY <1>1, <1>3, <2>3 DEF Ahead
      <3> QED
        BY <1>3, <2>3, <3>1 DEF ListsComplete, VisitedEmpty
    <2> QED
      BY <2>1, <2>2, <2>3
  <1> QED
    BY <1>6, <1>7 DEF ListsComplete

\* After the head the next node is the head.
LEMMA FreeComplete ==
    ASSUME LocalsInv, ListsComplete, NEW t \in Owner, FreeNode(t)
    PROVE  ListsComplete'
  <1> DEFINE n == first[t]
  <1>1. /\ phase[t] = "frees" /\ n \in Allocated
        /\ first' = [first EXCEPT ![t] = node[@].next]
        /\ node' = [m \in Allocated \ {n} |-> node[m]]
        /\ phase' = [phase EXCEPT ![t] = IF first'[t] = Null THEN "gone" ELSE @]
        /\ UNCHANGED <<slot, lost, cursor, pass, again>>
    BY DEF FreeNode
  <1>2. /\ LocalsTyped /\ \A m \in Allocated : node[m].by \in Owner /\ m # Null
        /\ node[n].by = t
    BY <1>1, NodesTyped DEF LocalsInv, ListsLinked
  <1>3. /\ Allocated' = Allocated \ {n} /\ \A m \in Allocated' : node'[m] = node[m]
    BY <1>1 DEF Allocated
  <1>4. /\ first'[t] = node[n].next /\ phase'[t] \in {"gone", "frees"}
        /\ \A u \in Owner \ {t} : first'[u] = first[u] /\ phase'[u] = phase[u]
    BY <1>1, <1>2 DEF LocalsTyped, LocalsTypeOK
  <1> HIDE DEF n
  <1>5. /\ node[n].next # Null => node[n].next \in Allocated \ {n} /\ node[node[n].next].next = Null
        /\ \A u \in Owner : first[u] # Null => first[u] \in Allocated /\ node[first[u]].by = u
    BY <1>1 DEF LocalsInv, ListsLinked
  <1>6. NodesInLists'
    <2>1. Listed(t) = {n, node[n].next} \ {Null} /\ n \notin lost /\ n # Null
      BY <1>1, <1>2 DEF Listed, ListsComplete, NodesInLists, n
    <2>2. Listed(t)' = {node[n].next} \ {Null}
      BY <1>3, <1>4, <1>5 DEF Listed
    <2>3. ASSUME NEW u \in Owner \ {t} PROVE Listed(u)' = Listed(u)
      <3>1. first'[u] = first[u] /\ first[u] # n
        BY <1>2, <1>4, <1>5, <2>1
      <3>2. first[u] # Null => node'[first[u]].next = node[first[u]].next
        BY <1>3, <1>5, <3>1
      <3> QED
        BY <3>1, <3>2 DEF Listed
    <2>4. ASSUME NEW m \in Allocated, m # n, NEW u \in Owner, u = node[m].by
          PROVE  /\ m \in lost <=> m \notin Listed(u)'
                 /\ m \in lost /\ phase'[u] \in Alive => Listed(u)' \ {first'[u]} # {}
      <3>1. /\ m \in lost <=> m \notin Listed(u)
            /\ m \in lost /\ phase[u] \in Alive => Listed(u) \ {first[u]} # {}
        BY <2>4 DEF ListsComplete, NodesInLists
      <3>2. CASE u = t
        BY <1>2, <1>4, <2>1, <2>2, <2>4, <3>1, <3>2 DEF Alive
      <3>3. CASE u # t
        BY <1>4, <2>3, <3>1, <3>3
      <3> QED
        BY <3>2, <3>3
    <2>5. lost' = lost /\ lost \subseteq Allocated'
      BY <1>1, <1>3, <2>1 DEF ListsComplete, NodesInLists
    <2> QED
      BY <1>2, <1>3, <2>4, <2>5 DEF NodesInLists
  <1>7. VisitedEmpty'
    <2> SUFFICES ASSUME NEW m \in Allocated \ lost, m # n, NEW u \in Owner, u = node[m].by
                 PROVE  /\ phase'[u] = "cleanup" /\ ~ again[u] /\ m \notin Ahead(u)' =>
                            node[m].value = 0
                        /\ phase'[u] = "frees" => node[m].value = 0 \/ pass[u] = Iterations
      BY <1>1, <1>2, <1>3 DEF VisitedEmpty
    <2>1. CASE u = t
      <3>1. node[m].value = 0 \/ pass[t] = Iterations
        BY <1>1, <2>1 DEF ListsComplete, VisitedEmpty
      <3>2. phase'[t] # "cleanup"
        BY <1>4
      <3> QED
        BY <2>1, <3>1, <3>2
    <2>2. CASE u # t
      <3>1. ASSUME phase[u] = "cleanup" PROVE Ahead(u)' = Ahead(u)
        <4>1. cursor[u] # Null => cursor[u] \in Allocated /\ node[cursor[u]].by = u
          BY <3>1 DEF LocalsInv, CursorsOwn
        <4>2. cursor[u] # Null => cursor[u] \in Allocated'
          BY <1>2, <1>3, <2>2, <4>1
        <4> QED
          BY <1>1, <1>3, <4>2 DEF Ahead
      <3> QED
        BY <1>4, <2>2, <3>1 DEF ListsComplete, VisitedEmpty
    <2> QED
      BY <2>1, <2>2
  <1> QED
    BY <1>6, <1>7 DEF ListsComplete

\* Every step keeps the lists complete but for the lost nodes.
LEMMA ListsStep ==
    ASSUME LocalsInv, ListsComplete, [LocalsNext]_localsVars
    PROVE  ListsComplete'
  <1>1. ASSUME UNCHANGED <<node, first, lost, phase, cursor, pass, again>>
        PROVE  ListsComplete'
    BY <1>1 DEF ListsComplete, NodesInLists, Listed, VisitedEmpty, Ahead, Allocated
  <1>2. CASE UNCHANGED localsVars
    BY <1>1, <1>2 DEF localsVars
  <1>3. ASSUME NEW t \in Owner, NEW k \in Key,
               \/ \E dtor \in BOOLEAN : dmr_locals_create(t, k, dtor)
               \/ dmr_locals_delete(t, k) \/ SetFails(t, k)
        PROVE  ListsComplete'
    BY <1>1, <1>3 DEF dmr_locals_create, dmr_locals_delete, SetFails, Sets
  <1>4. ASSUME NEW t \in Owner, NEW k \in Key, dmr_locals_set(t, k) PROVE ListsComplete'
    BY <1>4, OldValueComplete, NewValueComplete
  <1>5. ASSUME NEW t \in Owner,
               Exits(t) \/ VisitNode(t) \/ DtorReturns(t) \/ EndOfPass(t) \/ FreeNode(t)
        PROVE  ListsComplete'
    BY <1>5, ExitComplete, VisitComplete, ReturnComplete, PassComplete, FreeComplete
  <1> QED
    BY <1>2, <1>3, <1>4, <1>5 DEF LocalsNext

\* For any number of threads, keys, nodes and passes: when a thread exits, the values
\* of the first key it has set and of the last are destroyed by their key's
\* destructor and their nodes freed; the nodes of all other keys are lost, since the
\* tail of the list is moved only once (dmr_locals_set, _dmr_thread_locals_cleanup).
THEOREM ValuesAreDestroyed == LocalsSpec => []ValuesDestroyed
  <1> DEFINE ValuesInv == LocalsInv /\ ListsComplete
  <1>1. LocalsInit => ValuesInv
    <2>1. ASSUME LocalsInit PROVE Allocated = {} /\ lost = {}
      BY <2>1 DEF LocalsInit, Allocated
    <2> QED
      BY <2>1, LocalsInitially DEF ListsComplete, NodesInLists, VisitedEmpty
  <1>2. ValuesInv /\ [LocalsNext]_localsVars => ValuesInv'
    BY LocalsStep, ListsStep
  <1>3. ValuesInv => ValuesDestroyed
    <2> SUFFICES ASSUME ValuesInv PROVE ValuesDestroyed
      OBVIOUS
    <2>1. LocalsTypeOK /\ DtorOwnsValue
      BY DEF LocalsInv, LocalsTyped, LocalsTypeOK, ValuesCurrent, DtorOwnsValue
    <2>2. FirstAndLatestListed
      BY DEF ListsComplete, NodesInLists, FirstAndLatestListed, Alive
    <2>3. ExitLeavesTheLost
      BY DEF ListsComplete, NodesInLists, Listed, LocalsInv, ListsLinked, ExitLeavesTheLost
    <2>4. FreedValuesDestroyed
      BY DEF ListsComplete, VisitedEmpty, FreedValuesDestroyed
    <2> QED
      BY <2>1, <2>2, <2>3, <2>4 DEF ValuesDestroyed
  <1> HIDE DEF ValuesInv
  <1> QED
    BY <1>1, <1>2, <1>3, PTL DEF LocalsSpec
=============================================================================
