------------------------------ MODULE LogError ------------------------------
(***************************************************************************)
(* The library's logger (log.c) and its last error (error.c), which every  *)
(* component reports through.  The priority, the callback and its argument *)
(* are the program's; the last error is each thread's own.                 *)
(***************************************************************************)
EXTENDS Integers, FiniteSets

CONSTANTS
    LogThreads,
    Lowest,         \* TRACE, DEBUG or INFO: the lowest priority this build allows
    Asked,          \* the priorities asked for, those of a script included
    Errnos          \* the failures that occur

TRACE == 1
DEBUG == 2
INFO == 3
ERROR == 5
CRITICAL == 6
PRIORITIES == 7     \* DMR_LOG_PRIORITIES

ASSUME LowestPriority == Lowest \in TRACE .. INFO /\ Asked \subseteq Int

VARIABLES
    log_priority,
    log_cb,         \* stderr, a callback of the program, or none
    tagged,         \* the tag of the last message written to stderr
    error,          \* [thread -> [no, msg, priority]]
    cause           \* history: what the thread last failed at itself

logVars == <<log_priority, log_cb, tagged, error, cause>>

ENOMEM == 1
EINVAL == 2
EWRITE == 17
EREAD == 18
UNSUPPORTED == 127
LASTERROR == 255

Lesser(a, b) == IF a < b THEN a ELSE b
Greater(a, b) == IF a > b THEN a ELSE b
-----------------------------------------------------------------------------
LogInit ==
    /\ log_priority = INFO /\ log_cb = "stderr" /\ tagged = "none"
    /\ error = [t \in LogThreads |-> [no |-> 0, msg |-> "", priority |-> 0]]
    /\ cause = [t \in LogThreads |-> ""]

dmr_log_priority_tags ==
    [p \in 0 .. PRIORITIES |-> CASE p = 0 -> "NULL" [] p = 1 -> "TRACE" [] p = 2 -> "DEBUG" [] p = 3 -> "INFO"
                                 [] p = 4 -> "WARN" [] p = 5 -> "ERROR" [] p = 6 -> "FATAL" [] OTHER -> "UNDEF"]

log_stderr(p) == tagged' = dmr_log_priority_tags[Lesser(p, PRIORITIES)]

\* What is less urgent than the priority, or has no callback, is dropped.
dmr_log_messagev(p, limit) ==
    IF log_cb = "stderr" /\ p >= limit THEN log_stderr(p) ELSE UNCHANGED tagged

\* The enumeration has no negative values: what is asked below zero is large.
Clamped(p) == Lesser(PRIORITIES - 1, Greater(IF p < 0 THEN p + 2^30 ELSE p, Lowest))

\* A change is logged under the new priority, in the builds that have dmr_log_debug.
dmr_log_priority_set(p) ==
    /\ p # log_priority
    /\ log_priority' = Clamped(p)
    /\ IF Lowest <= DEBUG THEN dmr_log_messagev(DEBUG, Clamped(p)) ELSE UNCHANGED tagged
    /\ UNCHANGED <<log_cb, error, cause>>

dmr_log_priority_reset ==
    log_priority' = INFO /\ UNCHANGED <<log_cb, tagged, error, cause>>

dmr_log_cb(cb) == log_cb' = cb /\ UNCHANGED <<log_priority, tagged, error, cause>>

\* dmr_log_message and the functions for one priority; dmr_log has the current.
dmr_log_message == \E p \in 0 .. PRIORITIES + 1 \cup {log_priority} :
    dmr_log_messagev(p, log_priority) /\ UNCHANGED <<log_priority, log_cb, error, cause>>
-----------------------------------------------------------------------------
MessageOf(no) == CASE no = ENOMEM -> "out of memory" [] no = EINVAL -> "invalid argument"
                   [] no = EWRITE -> "write failed" [] no = EREAD -> "read failed"
                   [] no = UNSUPPORTED -> "not supported" [] OTHER -> "unkonwn error"

\* Mutant: a failure that is passed on is a failure of its own.
ErrorAlwaysSet(t, no) ==
    [error EXCEPT ![t].no = no, ![t].msg = MessageOf(no),
                  ![t].priority = IF no = ENOMEM THEN CRITICAL ELSE ERROR]

\* The message of a failure that is passed on (LASTERROR) is kept, its number not.
ErrorSet(t, no) ==
    IF no = LASTERROR THEN [error EXCEPT ![t].no = no]
    ELSE [error EXCEPT ![t].no = no, ![t].msg = MessageOf(no),
                       ![t].priority = IF no = ENOMEM THEN CRITICAL ELSE ERROR]

dmr_error(t, no) ==
    /\ error' = ErrorSet(t, no)
    /\ cause' = IF no = LASTERROR THEN cause ELSE [cause EXCEPT ![t] = MessageOf(no)]
    /\ UNCHANGED <<log_priority, log_cb, tagged>>

dmr_error_set(t) ==
    /\ error' = [error EXCEPT ![t].msg = "formatted"] /\ cause' = [cause EXCEPT ![t] = "formatted"]
    /\ UNCHANGED <<log_priority, log_cb, tagged>>

\* The number and the priority stay.
dmr_error_clear(t) ==
    /\ error' = [error EXCEPT ![t].msg = ""] /\ cause' = [cause EXCEPT ![t] = ""]
    /\ UNCHANGED <<log_priority, log_cb, tagged>>

dmr_error_get(t) == IF error[t].msg = "" THEN "no error" ELSE error[t].msg

LogNext ==
    \/ \E p \in Asked : dmr_log_priority_set(p)
    \/ dmr_log_priority_reset \/ dmr_log_message
    \/ \E cb \in {"stderr", "callback", "none"} : dmr_log_cb(cb)
    \/ \E t \in LogThreads : (\E no \in Errnos : dmr_error(t, no)) \/ dmr_error_set(t) \/ dmr_error_clear(t)
-----------------------------------------------------------------------------
\* The tag tables have no tag for priority 0, and the table of names ends at 6:
\* no message without a tag is ever written, whatever priorities the program
\* and its script ask for and log with.
MessagesHaveTags == log_priority \in TRACE .. CRITICAL /\ tagged # "NULL"

\* A caller who is told of a failure that came up through several functions
\* reads the message of the one that failed, in its own thread, whatever the
\* other threads fail at.
LastErrorIsTheCause ==
    \A t \in LogThreads : dmr_error_get(t) = IF cause[t] = "" THEN "no error" ELSE cause[t]

\* What log and errors tell is well formed and about the right thing.
ReportsRight == MessagesHaveTags /\ LastErrorIsTheCause
=============================================================================
