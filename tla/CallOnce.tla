------------------------------ MODULE CallOnce ------------------------------
(***************************************************************************)
(* dmr_call_once on Windows (src/src/dmr/thread.c): a status word that the *)
(* callers compare and swap, and a critical section that the first one     *)
(* creates and the others use to wait for the callback.  The word is read  *)
(* twice per turn of the loop, by the loop condition and by the switch.    *)
(***************************************************************************)
EXTENDS Naturals

CONSTANTS
    Caller,         \* threads that call dmr_call_once with the same flag
    NoCaller          \* no owner of the critical section

ASSUME OnceAssumption == NoCaller \notin Caller

VARIABLES
    status,         \* flag->status
    created,        \* has flag->lock been initialised?
    inside,         \* who is in flag->lock
    stage,          \* where each caller is
    calls,          \* how often func was called
    finished        \* has func returned?

onceVars == <<status, created, inside, stage, calls, finished>>

Stage == {"loop", "switch", "cas", "init", "lock", "publish", "func", "infunc",
          "close", "unlock", "enter", "exit", "returned"}

OnceInit ==
    /\ status = 0 /\ created = FALSE /\ inside = NoCaller
    /\ stage = [t \in Caller |-> "loop"]
    /\ calls = 0 /\ finished = FALSE

Go(t, from, to) == stage[t] = from /\ stage' = [stage EXCEPT ![t] = to]

LoopTest(t) ==
    /\ Go(t, "loop", IF status < 3 THEN "switch" ELSE "returned")
    /\ UNCHANGED <<status, created, inside, calls, finished>>

\* Mutant: a caller that finds the lock being created goes on to use it.
SwitchTo_early == <<"cas", "enter", "enter", "loop">>

\* The case of the switch, by the status; 3 falls through to the loop.
SwitchTo == <<"cas", "loop", "enter", "loop">>

Switch(t) ==
    /\ Go(t, "switch", SwitchTo[status + 1])
    /\ UNCHANGED <<status, created, inside, calls, finished>>

\* InterlockedCompareExchange(&status, 1, 0) == 0
Swap(t) == status = 0

CompareExchange(t) ==
    /\ Go(t, "cas", IF Swap(t) THEN "init" ELSE "loop")
    /\ status' = IF Swap(t) THEN 1 ELSE status
    /\ UNCHANGED <<created, inside, calls, finished>>

InitLock(t) ==
    /\ Go(t, "init", "lock")
    /\ created' = TRUE
    /\ UNCHANGED <<status, inside, calls, finished>>

\* The first caller takes the lock, as do the ones that wait for it.
EnterLock(t) ==
    /\ Go(t, "lock", "publish") \/ Go(t, "enter", "exit")
    /\ inside = NoCaller
    /\ inside' = t
    /\ UNCHANGED <<status, created, calls, finished>>

Publish(t) ==
    /\ Go(t, "publish", "func")
    /\ status' = 2
    /\ UNCHANGED <<created, inside, calls, finished>>

CallFunc(t) ==
    /\ Go(t, "func", "infunc")
    /\ calls' = calls + 1
    /\ UNCHANGED <<status, created, inside, finished>>

FuncReturns(t) ==
    /\ Go(t, "infunc", "close")
    /\ finished' = TRUE
    /\ UNCHANGED <<status, created, inside, calls>>

Close(t) ==
    /\ Go(t, "close", "unlock")
    /\ status' = 3
    /\ UNCHANGED <<created, inside, calls, finished>>

\* The first caller returns, the others go round the loop again.
LeaveLock(t) ==
    /\ Go(t, "unlock", "returned") \/ Go(t, "exit", "loop")
    /\ inside' = NoCaller
    /\ UNCHANGED <<status, created, calls, finished>>

OnceStep(t) ==
    \/ LoopTest(t) \/ Switch(t) \/ CompareExchange(t) \/ InitLock(t)
    \/ EnterLock(t) \/ Publish(t) \/ CallFunc(t) \/ FuncReturns(t)
    \/ Close(t) \/ LeaveLock(t)

OnceNext == \E t \in Caller : OnceStep(t)

OnceSpec == OnceInit /\ [][OnceNext]_onceVars

----------------------------------------------------------------------------
OnceTypeOK ==
    /\ status \in 0 .. 3
    /\ created \in BOOLEAN /\ finished \in BOOLEAN
    /\ inside \in Caller \cup {NoCaller}
    /\ stage \in [Caller -> Stage]
    /\ calls \in 0 .. 1

(* func is called at most once, and no dmr_call_once returns, to the first     *)
(* caller or to a late one, before func has: what func set up may be used.     *)
ReturnsInitialised ==
    /\ calls =< 1
    /\ \A t \in Caller : stage[t] = "returned" => finished

(* No caller enters the critical section before it has been initialised.       *)
LockCreated ==
    \A t \in Caller : stage[t] \in {"lock", "publish", "enter", "exit"} => created

(* dmr_call_once calls func once, behind a lock that exists, before anybody    *)
(* returns.                                                                    *)
OnceBeforeUse == OnceTypeOK /\ ReturnsInitialised /\ LockCreated
=============================================================================
