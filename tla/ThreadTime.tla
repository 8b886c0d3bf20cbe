----------------------------- MODULE ThreadTime -----------------------------
(***************************************************************************)
(* How src/src/dmr/thread.c turns a deadline into the timeout of a system  *)
(* call: dmr_mutex_timedlock (Windows, and POSIX systems without           *)
(* pthread_mutex_timedlock), dmr_cond_timedwait and dmr_thread_sleep       *)
(* (Windows).  A time is a struct timespec.  The numbers of nanoseconds in *)
(* a millisecond and of milliseconds in a second are parameters; DWORD     *)
(* arithmetic is modulo Dword.                                             *)
(***************************************************************************)
EXTENDS Integers

CONSTANTS
    NsPerMs, MsPerSec,      \* 1000000 and 1000
    Dword,                  \* 2^32; Dword - 1 is INFINITE
    PollMs,                 \* the 5 ms dmr_mutex_timedlock polls with
    MaxSec                  \* bound on the clock

NsPerSec == NsPerMs * MsPerSec

ASSUME TimeAssumption ==
    /\ NsPerMs \in Nat \ {0} /\ MsPerSec \in Nat \ {0}
    /\ Dword \in Nat \ {0} /\ PollMs \in 1 .. MsPerSec /\ MaxSec \in Nat

VARIABLES
    now,            \* the clock
    ts              \* the deadline, or the duration of a sleep

timeVars == <<now, ts>>

Timespec == [sec : 0 .. MaxSec, nsec : 0 .. NsPerSec - 1]

Ns(t) == t.sec * NsPerSec + t.nsec

\* Division in C, which truncates towards zero.
Quotient(a, b) == IF a >= 0 THEN a \div b ELSE -((-a) \div b)

Reached(cur) == cur.sec > ts.sec \/ (cur.sec = ts.sec /\ cur.nsec >= ts.nsec)

\* dmr_mutex_timedlock on Windows.
LockTimeoutMs(cur) ==
    IF Reached(cur) THEN 0
    ELSE ((ts.sec - cur.sec) * MsPerSec + Quotient(ts.nsec - cur.nsec, NsPerMs) + 1) % Dword

\* dmr_cond_timedwait on Windows: both times are cut to milliseconds.
CondTimeoutMs(cur) ==
    LET nowInMilliseconds == cur.sec * MsPerSec + cur.nsec \div NsPerMs
        tsInMilliseconds == ts.sec * MsPerSec + ts.nsec \div NsPerMs
    IN  IF tsInMilliseconds > nowInMilliseconds
        THEN (tsInMilliseconds - nowInMilliseconds) % Dword
        ELSE 0

\* dmr_thread_sleep on Windows: a part of a millisecond counts as a whole one.
SleepMs ==
    (ts.sec * MsPerSec + ts.nsec \div NsPerMs
        + (IF ts.nsec % NsPerMs = 0 THEN 0 ELSE 1)) % Dword

\* Mutant: no borrow from the seconds.
Left_no_borrow(cur) == [sec |-> ts.sec - cur.sec, nsec |-> ts.nsec - cur.nsec]

\* What is left until the deadline, as a normalised timespec.
Left(cur) ==
    IF ts.nsec < cur.nsec
    THEN [sec |-> ts.sec - cur.sec - 1, nsec |-> ts.nsec - cur.nsec + NsPerSec]
    ELSE [sec |-> ts.sec - cur.sec, nsec |-> ts.nsec - cur.nsec]

\* How long the POSIX poll sleeps between two attempts.
PollSleepNs(cur) ==
    LET dur == Left(cur)
    IN  IF dur.sec # 0 \/ dur.nsec > PollMs * NsPerMs THEN PollMs * NsPerMs
        ELSE dur.nsec

----------------------------------------------------------------------------
TimeInit ==
    /\ now = [sec |-> 0, nsec |-> 0]
    /\ ts \in Timespec

Tick ==
    /\ Ns(now) < MaxSec * NsPerSec
    /\ now' = [sec |-> (Ns(now) + 1) \div NsPerSec, nsec |-> (Ns(now) + 1) % NsPerSec]
    /\ UNCHANGED ts

TimeNext == Tick

TimeSpec == TimeInit /\ [][TimeNext]_timeVars

----------------------------------------------------------------------------
\* The waits that fit a DWORD and are not INFINITE.
Representable(ms) == ms < Dword - 1

(* A timed lock never gives up before its deadline and never waits two        *)
(* milliseconds beyond it, and a sleep is never shorter than asked for,       *)
(* wherever the borrow between seconds and nanoseconds falls (as long as the  *)
(* wait fits a DWORD).                                                        *)
TimeoutsCoverDeadline ==
    LET left == Ns(ts) - Ns(now) IN
    /\ left > 0 /\ Representable(left \div NsPerMs + 1) =>
          /\ LockTimeoutMs(now) * NsPerMs >= left
          /\ LockTimeoutMs(now) * NsPerMs < left + 2 * NsPerMs
    /\ Representable(Ns(ts) \div NsPerMs + 1) => SleepMs * NsPerMs >= Ns(ts)

(* A timed wait on a condition is as long as its deadline is away, but for the *)
(* parts of a millisecond that both times are cut by: it ends up to one before *)
(* the deadline whenever the deadline's part is the greater one, although it   *)
(* is to block "until after the specified time" (thread.h:297).                *)
CondTimeoutToTheMs ==
    LET left == Ns(ts) - Ns(now)
        waits == CondTimeoutMs(now) * NsPerMs
    IN  left > 0 /\ Representable(left \div NsPerMs + 1) =>
            /\ waits < left <=> now.nsec % NsPerMs < ts.nsec % NsPerMs
            /\ waits > left - NsPerMs
            /\ waits < left + NsPerMs

(* The polling lock sleeps at least a moment, at most PollMs milliseconds and *)
(* never past its deadline.                                                   *)
PollNeverOversleeps ==
    ~Reached(now) =>
        /\ PollSleepNs(now) \in 1 .. PollMs * NsPerMs
        /\ Ns(now) + PollSleepNs(now) =< Ns(ts)

(* All waits with a deadline, whichever of the four ways they compute it, end  *)
(* within a millisecond or two of it; only the one on a condition may end      *)
(* before it, exactly when its deadline is not reached in its millisecond.     *)
DeadlinesKept == TimeoutsCoverDeadline /\ CondTimeoutToTheMs /\ PollNeverOversleeps
=============================================================================
