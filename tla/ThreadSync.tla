----------------------------- MODULE ThreadSync -----------------------------
(***************************************************************************)
(* Mutexes and condition variables on Windows: the _DMR_THREAD_WIN32_ half *)
(* of src/src/dmr/thread.c, which builds both from a critical section or a *)
(* kernel mutex, two events and a count of waiters.  (On POSIX systems     *)
(* every call is one pthread call.)                                        *)
(*                                                                         *)
(* The threads are the usual users of such a pair: consumers that wait     *)
(* while there is nothing to take, producers that add and wake.  A thread  *)
(* may exit while it holds a kernel mutex, which abandons it.              *)
(*                                                                         *)
(* External: EnterCriticalSection and WaitForSingleObject grant a handle   *)
(* that is free or held by the caller, an auto-reset event wakes one       *)
(* thread and a manual-reset one all of them, the lowest index first.  The *)
(* events are created, so dmr_cond_init succeeds and SetEvent, ResetEvent  *)
(* and ReleaseMutex by the owner do not fail.                              *)
(***************************************************************************)
EXTENDS Integers, FiniteSets

CONSTANTS
    Consumer, Producer,     \* threads
    Impatient,              \* consumers that wait with dmr_cond_timedwait
    Nobody,                 \* no owner
    Modes,                  \* what the producers do: a subset of WakeModes
    MaxGoods,               \* bound on what the producers add
    MaxSignals,             \* the same when they wake with dmr_cond_signal
    MaxDepth,               \* bound on the recursion of the handle
    MaxWaiters              \* bound on mWaitersCount

Thread == Consumer \cup Producer

\* "latch": one producer opens a latch and broadcasts, nothing is taken.
WakeModes == {"latch", "signal", "broadcast"}

ASSUME SyncAssumption ==
    /\ Consumer \cap Producer = {}
    /\ Impatient \subseteq Consumer
    /\ Nobody \notin Thread
    /\ Modes \subseteq WakeModes
    /\ MaxGoods \in Nat \ {0} /\ MaxSignals \in 0 .. MaxGoods
    /\ MaxDepth \in Nat /\ MaxWaiters \in Nat

VARIABLES
    mTimed, mRecursive,     \* the type given to dmr_mutex_init
    mAlreadyLocked,
    owner, depth,           \* mHandle: who holds it and how many times
    mWaitersCount,
    one, all,               \* mEvents: is the event set?
    merged,                 \* history: was a signal sent while the last one was pending?
    at,                     \* where each thread is
    mode, goods, made       \* the program around the pair

mutex == <<mTimed, mRecursive, mAlreadyLocked, owner, depth>>
cond == <<mWaitersCount, one, all, merged>>
client == <<mode, goods, made>>
syncVars == <<mutex, cond, at, client>>

\* Points at which a thread has been told that it holds the mutex.
Holding == {"critical", "nested", "counted", "wake", "setOne", "setAll", "leave"}

\* Points inside the wait, between the increment and the decrement.
Waiting == {"counted", "blocked", "gotOne", "gotAll"}

Point == Holding \cup Waiting
         \cup {"idle", "enter", "timed", "relock", "mark", "reset", "done", "gone"}

Abandoned == owner # Nobody /\ at[owner] = "gone"

Move(t, p) == at' = [at EXCEPT ![t] = p]

----------------------------------------------------------------------------
(* dmr_mutex_init and dmr_cond_init. *)
SyncInit ==
    /\ mTimed \in BOOLEAN /\ mRecursive \in BOOLEAN
    /\ mAlreadyLocked = FALSE
    /\ owner = Nobody /\ depth = 0
    /\ mWaitersCount = 0 /\ one = FALSE /\ all = FALSE /\ merged = FALSE
    /\ at = [t \in Thread |-> "idle"]
    /\ mode \in Modes /\ goods = 0 /\ made = 0

(* The handle is granted to t. *)
Granted(t) ==
    /\ depth < MaxDepth
    /\ owner \in {Nobody, t} \/ Abandoned
    /\ owner' = t
    /\ depth' = IF owner = t THEN depth + 1 ELSE 1

\* A producer that has made everything stays out.
Busy(t) ==
    t \in Producer => made < CASE mode = "latch" -> 1
                              [] mode = "signal" -> MaxSignals
                              [] mode = "broadcast" -> MaxGoods

dmr_mutex_lock(t) ==
    /\ at[t] = "idle" /\ Busy(t)
    /\ Move(t, "enter")
    /\ UNCHANGED <<mutex, cond, client>>

\* Only a timed mutex may be locked with a deadline.
dmr_mutex_timedlock(t) ==
    /\ at[t] = "idle" /\ Busy(t)
    /\ mTimed
    /\ Move(t, "timed")
    /\ UNCHANGED <<mutex, cond, client>>

\* WAIT_ABANDONED ends the call with an error, although the handle is now the
\* caller's; the wait ignores the error and returns to its caller all the same.
AfterGrant(t) ==
    IF Abandoned THEN IF at[t] = "relock" THEN "critical" ELSE "idle"
    ELSE IF mRecursive THEN "critical" ELSE "mark"

(* The handle is granted to a thread inside dmr_mutex_lock, dmr_mutex_timedlock *)
(* or the end of a wait. *)
Enter(t) ==
    /\ at[t] \in {"enter", "timed", "relock"}
    /\ Granted(t)
    /\ Move(t, AfterGrant(t))
    /\ UNCHANGED <<mTimed, mRecursive, mAlreadyLocked, cond, client>>

LockTimesOut(t) ==
    /\ at[t] = "timed"
    /\ owner \notin {Nobody, t} /\ ~Abandoned
    /\ Move(t, "idle")
    /\ UNCHANGED <<mutex, cond, client>>

(* "while (mtx->mAlreadyLocked) Sleep(1)": the caller sleeps for ever when it *)
(* is the one who has locked it. *)
Mark(t) ==
    /\ at[t] = "mark"
    /\ ~mAlreadyLocked
    /\ mAlreadyLocked' = TRUE
    /\ Move(t, "critical")
    /\ UNCHANGED <<mTimed, mRecursive, owner, depth, cond, client>>

\* A handle that was granted for a non-recursive mutex which is locked already
\* is given back with LeaveCriticalSection; for a kernel mutex that call works
\* on the wrong member of the union and the handle stays granted.
TryMark(t, won) ==
    /\ mAlreadyLocked' = TRUE
    /\ IF mAlreadyLocked /\ ~mTimed THEN UNCHANGED <<owner, depth>> ELSE Granted(t)
    /\ Move(t, IF mAlreadyLocked THEN at[t] ELSE won)

(* dmr_mutex_trylock by a thread outside, or by one that holds the mutex.  An *)
(* abandoned handle counts as busy, although it is granted. *)
Trylock(t, won) ==
    /\ owner \in {Nobody, t} \/ Abandoned
    /\ \/ /\ Abandoned
          /\ Granted(t)
          /\ UNCHANGED <<mAlreadyLocked, at>>
       \/ /\ ~Abandoned /\ mRecursive
          /\ Granted(t) /\ Move(t, won)
          /\ UNCHANGED mAlreadyLocked
       \/ ~Abandoned /\ ~mRecursive /\ TryMark(t, won)
    /\ UNCHANGED <<mTimed, mRecursive, cond, client>>

dmr_mutex_trylock(t) ==
    \/ at[t] = "idle" /\ Busy(t) /\ Trylock(t, "critical")
    \/ at[t] = "critical" /\ Trylock(t, "nested")

\* Mutant: the flag is left set.
Release_flag_kept(t) ==
    /\ mAlreadyLocked' = mAlreadyLocked
    /\ depth' = depth - 1
    /\ owner' = IF depth = 1 THEN Nobody ELSE owner

\* dmr_mutex_unlock; the flag is cleared while the handle is still held, so no
\* other thread can see the two steps apart.
Release(t) ==
    /\ mAlreadyLocked' = FALSE
    /\ depth' = depth - 1
    /\ owner' = IF depth = 1 THEN Nobody ELSE owner

dmr_mutex_unlock(t) ==
    /\ at[t] \in {"nested", "leave"}
    /\ Release(t)
    /\ Move(t, IF at[t] = "nested" THEN "critical"
               ELSE IF t \in Consumer THEN "done" ELSE "idle")
    /\ UNCHANGED <<mTimed, mRecursive, cond, client>>

(* dmr_thread_exit by a thread that holds a kernel mutex. *)
ExitHolding(t) ==
    /\ mTimed /\ at[t] = "critical"
    /\ Move(t, "gone")
    /\ UNCHANGED <<mutex, cond, client>>

----------------------------------------------------------------------------
(***************************************************************************)
(* The consumer: lock, wait while there is nothing, take, unlock.          *)
(***************************************************************************)
Take(t) ==
    /\ t \in Consumer /\ at[t] = "critical" /\ goods > 0
    /\ goods' = IF mode = "latch" THEN goods ELSE goods - 1
    /\ Move(t, "leave")
    /\ UNCHANGED <<mutex, cond, mode, made>>

\* _dmr_cond_timedwait_win32: one more waiter.
CountWaiter(t) ==
    /\ mWaitersCount' = mWaitersCount + 1
    /\ Move(t, "counted")
    /\ UNCHANGED <<mAlreadyLocked, owner, depth>>

dmr_cond_wait(t) ==
    /\ t \in Consumer /\ at[t] = "critical" /\ goods = 0
    /\ mWaitersCount < MaxWaiters
    /\ CountWaiter(t)
    /\ UNCHANGED <<mTimed, mRecursive, one, all, merged, client>>

WaitUnlock(t) ==
    /\ Release(t)
    /\ UNCHANGED mWaitersCount

Block(t) ==
    /\ at[t] = "counted"
    /\ WaitUnlock(t)
    /\ Move(t, "blocked")
    /\ UNCHANGED <<mTimed, mRecursive, one, all, merged, client>>

\* WaitForMultipleObjects: event 0 resets itself when it wakes a thread.
WakeByOne(t) ==
    /\ at[t] = "blocked" /\ one
    /\ one' = FALSE
    /\ Move(t, "gotOne")
    /\ UNCHANGED <<mutex, mWaitersCount, all, merged, client>>

WakeByAll(t) ==
    /\ at[t] = "blocked" /\ all /\ ~one
    /\ Move(t, "gotAll")
    /\ UNCHANGED <<mutex, cond, client>>

\* The time is up: the thread goes back to the mutex and stays counted.
WaitTimesOut(t) ==
    /\ t \in Impatient
    /\ at[t] = "blocked" /\ ~one /\ ~all
    /\ Move(t, "relock")
    /\ UNCHANGED <<mutex, cond, client>>

\* Mutant: the last of the waiters is taken to be the one before it.
LastWaiter_early == mWaitersCount' = 1

LastWaiter == mWaitersCount' = 0

Uncount(t) ==
    /\ at[t] \in {"gotOne", "gotAll"}
    /\ mWaitersCount' = mWaitersCount - 1
    /\ Move(t, IF at[t] = "gotAll" /\ LastWaiter THEN "reset" ELSE "relock")
    /\ UNCHANGED <<mutex, one, all, merged, client>>

ResetAll(t) ==
    /\ at[t] = "reset"
    /\ all' = FALSE
    /\ Move(t, "relock")
    /\ UNCHANGED <<mutex, mWaitersCount, one, merged, client>>

----------------------------------------------------------------------------
(***************************************************************************)
(* The producer: lock, add, signal or broadcast, unlock.                   *)
(***************************************************************************)
Put(t) ==
    /\ t \in Producer /\ at[t] = "critical" /\ Busy(t)
    /\ goods' = goods + 1 /\ made' = made + 1
    /\ Move(t, "wake")
    /\ UNCHANGED <<mutex, cond, mode>>

\* A producer that comes in when everything has been made leaves.
Idle(t) ==
    /\ t \in Producer /\ at[t] = "critical" /\ ~Busy(t)
    /\ Move(t, "leave")
    /\ UNCHANGED <<mutex, cond, client>>

\* dmr_cond_signal and dmr_cond_broadcast read the count, then set the event.
HaveWaiters(t) ==
    /\ at[t] = "wake"
    /\ Move(t, IF mWaitersCount = 0 THEN "leave"
               ELSE IF mode = "signal" THEN "setOne" ELSE "setAll")
    /\ UNCHANGED <<mutex, cond, client>>

\* SetEvent on an event that is set does nothing.
dmr_cond_signal(t) ==
    /\ at[t] = "setOne"
    /\ one' = TRUE
    /\ merged' = (merged \/ one)
    /\ Move(t, "leave")
    /\ UNCHANGED <<mutex, mWaitersCount, all, client>>

dmr_cond_broadcast(t) ==
    /\ at[t] = "setAll"
    /\ all' = TRUE
    /\ Move(t, "leave")
    /\ UNCHANGED <<mutex, mWaitersCount, one, merged, client>>

----------------------------------------------------------------------------
\* What a thread does with the mutex.
Work(t) == Take(t) \/ dmr_cond_wait(t) \/ Put(t) \/ Idle(t)

\* What a thread does once it has begun a call.
Progress(t) ==
    \/ Mark(t) \/ dmr_mutex_unlock(t) \/ LockTimesOut(t)
    \/ Block(t) \/ WakeByOne(t) \/ WakeByAll(t) \/ Uncount(t) \/ ResetAll(t)
    \/ HaveWaiters(t) \/ dmr_cond_signal(t) \/ dmr_cond_broadcast(t)

SyncNext ==
    \E t \in Thread :
        \/ dmr_mutex_lock(t) \/ dmr_mutex_timedlock(t) \/ dmr_mutex_trylock(t)
        \/ Enter(t) \/ ExitHolding(t) \/ WaitTimesOut(t)
        \/ Work(t) \/ Progress(t)

SyncSpec == SyncInit /\ [][SyncNext]_syncVars

(* Every thread runs and does its work between its calls, and Windows grants a *)
(* handle that keeps becoming free. *)
SyncFairness ==
    \A t \in Thread :
        /\ WF_syncVars(Progress(t))
        /\ SF_syncVars(Work(t) \/ Enter(t))

----------------------------------------------------------------------------
(***************************************************************************)
(* Properties.                                                             *)
(***************************************************************************)
SyncTypeOK ==
    /\ mTimed \in BOOLEAN /\ mRecursive \in BOOLEAN /\ mAlreadyLocked \in BOOLEAN
    /\ owner \in Thread \cup {Nobody}
    /\ depth \in 0 .. MaxDepth
    /\ mWaitersCount \in 0 .. MaxWaiters
    /\ one \in BOOLEAN /\ all \in BOOLEAN /\ merged \in BOOLEAN
    /\ at \in [Thread -> Point]
    /\ mode \in WakeModes /\ goods \in 0 .. MaxGoods /\ made \in 0 .. MaxGoods

(* Two threads are never between a successful lock (or the return of a wait) *)
(* and their unlock at the same time, whichever of the three lock calls and  *)
(* of the four mutex types they use, and not even after a holder has died.   *)
MutualExclusion ==
    \A t, u \in Thread : at[t] \in Holding /\ at[u] \in Holding => t = u

(* Every thread that has begun to wait and was not woken is in mWaitersCount *)
(* (timed out ones stay in it): no signal or broadcast sent after a thread   *)
(* has begun to wait is dropped for want of waiters, and the count does not  *)
(* wrap.                                                                     *)
WaitersCounted ==
    Cardinality({t \in Thread : at[t] \in Waiting}) =< mWaitersCount

(* A mutex that nobody holds and nobody is acquiring can be acquired: calls  *)
(* that were refused leave nothing behind.  Only for mutexes on a critical   *)
(* section: dmr_mutex_trylock does not give a kernel mutex back.             *)
Reacquirable ==
    /\ ~mTimed
    /\ \A t \in Thread : at[t] \notin Holding \cup {"mark"}
    => owner = Nobody /\ depth = 0 /\ ~mAlreadyLocked

(* One holder at a time, none left behind, and nobody waiting uncounted: mutex *)
(* and condition agree on who is where, at every point of every interleaving.  *)
LocksSound == SyncTypeOK /\ MutualExclusion /\ WaitersCounted /\ Reacquirable

\* A kernel mutex that nobody can be relied on to give back: a thread has died with
\* it, or holds it without knowing (dmr_mutex_trylock keeps what it was refused, an
\* abandoned handle is granted with an error).
HandleLost ==
    /\ mTimed
    /\ \/ \E t \in Thread : at[t] = "gone"
       \/ owner # Nobody /\ at[owner] \notin Holding \cup {"mark"}

(* A thread does not stay blocked while there is something to take, whichever *)
(* of the two waits it is in.  Neither a wakeup taken by a waiter whose time  *)
(* was up, nor the reset of the broadcast event, nor the count that timed out *)
(* waiters leave too high may lose one.  Only two things do.  A second signal *)
(* is lost while the first is pending, since both set the same event: then    *)
(* "Unblocks one of the threads that are blocked on the given condition       *)
(* variable at the time of the call" (thread.h:262-264) does not hold of      *)
(* dmr_cond_signal (thread.c:351).  And a kernel mutex can be lost itself,    *)
(* with the wakeup of the thread that wanted it.                              *)
WaitersServed ==
    \A t \in Consumer :
        at[t] = "blocked" /\ goods > 0
            ~> at[t] # "blocked" \/ goods = 0 \/ merged \/ HandleLost
=============================================================================
