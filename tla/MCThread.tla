------------------------------ MODULE MCThread ------------------------------
(***************************************************************************)
(* The parts of thread.c for TLC.  They share no state, so one of them is  *)
(* chosen and the others stay as they began.                               *)
(***************************************************************************)
EXTENDS ThreadSync, CallOnce, ThreadLocals, ThreadTime, TLC

CONSTANTS t1, t2

VARIABLE part

vars == <<syncVars, onceVars, localsVars, timeVars, part>>

\* Three values for one thread; the other one exits, and deletes and creates keys,
\* while they are there.
TheSets == (t1 :> 3) @@ (t2 :> 0)

TheGens == <<2, 1, 1>>

Init ==
    /\ part \in {"sync", "once", "locals", "time"}
    /\ SyncInit /\ OnceInit /\ LocalsInit /\ TimeInit
    /\ part # "sync" => ~mTimed /\ ~mRecursive /\ mode = "latch"
    /\ part # "time" => Ns(ts) = 0

Next ==
    \/ part = "sync" /\ SyncNext /\ UNCHANGED <<onceVars, localsVars, timeVars, part>>
    \/ part = "once" /\ OnceNext /\ UNCHANGED <<syncVars, localsVars, timeVars, part>>
    \/ part = "locals" /\ LocalsNext /\ UNCHANGED <<syncVars, onceVars, timeVars, part>>
    \/ part = "time" /\ TimeNext /\ UNCHANGED <<syncVars, onceVars, localsVars, part>>

Spec == Init /\ [][Next]_vars /\ SyncFairness
=============================================================================
