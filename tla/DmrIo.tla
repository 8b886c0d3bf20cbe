------------------------------- MODULE DmrIo -------------------------------
(***************************************************************************)
(* The select loop every protocol runs on: src/src/dmr/io.c.               *)
(*                                                                         *)
(* A dmr_io holds one list of entries per kind of request and a list of    *)
(* timers, a count of them, and the descriptor sets handed to select().    *)
(* Callbacks run inside the loop and may register and delete entries while *)
(* the loop is walking one of the lists; a signal handler may run at any   *)
(* moment.  Entries are heap objects: an id stands for the address, and a  *)
(* pointer to an entry that has been freed is dangling, whatever the       *)
(* allocator does with the memory, so following one ends in the state      *)
(* "undefined".                                                            *)
(*                                                                         *)
(* Abstracted: maxfd (it never decreases, so the scan always reaches every *)
(* descriptor of the sets) and the arithmetic on timeouts (a timer is due  *)
(* or not; select returns early only when some timer bounds its wait).     *)
(***************************************************************************)
EXTENDS Integers, Sequences, SequencesExt

CONSTANTS
    Id,             \* addresses of entries and timers; running out is ENOMEM
    Nil,            \* the NULL pointer
    Fd,             \* descriptors and signal numbers
    Cb,             \* callback functions
    Regs,           \* what the program registers: [kind, fd, cb, once]
    Dels            \* what it deletes: [kind, fd, cb]

Watch == {"read", "write", "error"}     \* the lists with a descriptor set

Kind == Watch \cup {"signal", "close", "timer"}

ASSUME IoAssumption ==
    /\ Nil \notin Id
    /\ Fd \subseteq Nat
    /\ Regs \subseteq [kind : Kind, fd : Fd, cb : Cb, once : BOOLEAN]
    /\ \A r \in Regs : r.kind = "close" => r.once
    /\ Dels \subseteq [kind : Watch \cup {"timer"}, fd : Fd, cb : Cb]

VARIABLES
    list,       \* io->entry[kind] and io->timer, head first
    entries,    \* io->entries
    fds,        \* io->readers, io->writers, io->errors
    closed,     \* io->closed
    due,        \* timers whose wall clock has passed
    pc,         \* where the loop is
    todo,       \* descriptors select reported that are not handled yet
    walk,       \* the LIST_FOREACH_SAFE under way: entry and saved next
    cut         \* did a callback of this walk free one of these two? (history)

vars == <<list, entries, fds, closed, due, pc, todo, walk, cut>>

Entry == [id : Id, fd : Fd, cb : Cb, once : BOOLEAN]

Ids(l) == {l[i].id : i \in DOMAIN l}

Live == UNION {Ids(list[k]) : k \in Kind}

\* Address of the entry at position i of l, NULL past the end.
At(l, i) == IF i \in DOMAIN l THEN l[i].id ELSE Nil

NoWalk == [kind |-> "timer", fd |-> 0, cur |-> Nil, next |-> Nil]

----------------------------------------------------------------------------
(***************************************************************************)
(* The API.  It is called while the program sets itself up and from        *)
(* callbacks.                                                              *)
(***************************************************************************)
Init ==
    /\ list = [k \in Kind |-> <<>>]
    /\ entries = 0
    /\ fds = [k \in Watch |-> {}]
    /\ closed = FALSE
    /\ due = {}
    /\ pc = "setup"
    /\ todo = {}
    /\ walk = NoWalk
    /\ cut = FALSE

\* Mutant: the count leaves out signal registrations.
Counts_not_signals(k) == IF k \in {"close", "signal"} THEN 0 ELSE 1

\* What the registration of a kind adds to the count: a close entry adds none.
Counts(k) == IF k = "close" THEN 0 ELSE 1

WatchAlso(k, fd) == IF k \in Watch THEN [fds EXCEPT ![k] = @ \cup {fd}] ELSE fds

\* Mutant: FD_CLR is forgotten for readers.
Unwatch_not_readers(k, fd) == IF k \in Watch \ {"read"} THEN [fds EXCEPT ![k] = @ \ {fd}] ELSE fds

Unwatch(k, fd) == IF k \in Watch THEN [fds EXCEPT ![k] = @ \ {fd}] ELSE fds

\* dmr_io_reg_read, _write, _error, _signal, _close and _timer.
dmr_io_reg(r) ==
    \E id \in Id \ (Live \cup {walk.cur, walk.next}) :
        /\ pc \in {"setup", "callback"}
        /\ list' = [list EXCEPT ![r.kind] =
                        <<[id |-> id, fd |-> r.fd, cb |-> r.cb, once |-> r.once]>> \o @]
        /\ entries' = entries + Counts(r.kind)
        /\ fds' = WatchAlso(r.kind, r.fd)
        /\ UNCHANGED <<closed, due, pc, todo, walk, cut>>

\* dmr_io_del_read, _write, _error and _timer look for the first match; a
\* timer is found by its callback alone.
Found(d, i) ==
    LET Match(j) == /\ list[d.kind][j].cb = d.cb
                    /\ d.kind = "timer" \/ list[d.kind][j].fd = d.fd
    IN /\ Match(i)
       /\ \A j \in 1 .. i - 1 : ~ Match(j)

\* Freeing this entry takes away the one whose callback runs or the successor
\* saved before it: the one-shot entries of http.c:680-681 delete themselves.
Cuts(k, id) == pc = "callback" /\ k = walk.kind /\ id \in {walk.cur, walk.next}

dmr_io_del(d) ==
    \E i \in DOMAIN list[d.kind] :
        /\ pc \in {"setup", "callback"}
        /\ Found(d, i)
        /\ list' = [list EXCEPT ![d.kind] = RemoveAt(@, i)]
        /\ entries' = entries - 1
        /\ fds' = Unwatch(d.kind, d.fd)
        /\ due' = due \ {list[d.kind][i].id}
        /\ cut' = (cut \/ Cuts(d.kind, list[d.kind][i].id))
        /\ UNCHANGED <<closed, pc, todo, walk>>

dmr_io_close ==
    /\ pc \in {"setup", "callback"}
    /\ closed' = TRUE
    /\ UNCHANGED <<list, entries, fds, due, pc, todo, walk, cut>>

(***************************************************************************)
(* A signal: io_sig_handle and io_handle_signal run the first entry for    *)
(* it.  The one signal callback in the program, stop_repeater, calls       *)
(* dmr_io_close.  Nothing wakes the loop: a select that is interrupted is  *)
(* simply called again.                                                    *)
(***************************************************************************)
io_handle_signal(sig) ==
    \E i \in DOMAIN list["signal"] :
        /\ pc \notin {"done", "freed", "undefined"}
        /\ list["signal"][i].fd = sig
        /\ \A j \in 1 .. i - 1 : list["signal"][j].fd # sig
        /\ closed' = TRUE
        /\ IF list["signal"][i].once
           THEN /\ list' = [list EXCEPT !["signal"] = RemoveAt(@, i)]
                /\ entries' = entries - 1
           ELSE UNCHANGED <<list, entries>>
        /\ UNCHANGED <<fds, due, pc, todo, walk, cut>>

----------------------------------------------------------------------------
(***************************************************************************)
(* The loop.                                                               *)
(***************************************************************************)
\* Start a LIST_FOREACH_SAFE at the head of a list.
Begin(k, fd) ==
    /\ pc' = "walk"
    /\ walk' = [kind |-> k, fd |-> fd, cur |-> At(list[k], 1), next |-> Nil]
    /\ cut' = FALSE

dmr_io_loop ==
    /\ pc = "setup"
    /\ pc' = "top"
    /\ closed' = FALSE
    /\ UNCHANGED <<list, entries, fds, due, todo, walk, cut>>

\* Mutant: the loop only ends for want of entries.
LoopAgain_closed_too == entries > 0

LoopAgain == entries > 0 /\ ~ closed

LoopTop ==
    /\ pc = "top"
    /\ IF LoopAgain
       THEN pc' = "select" /\ UNCHANGED <<walk, cut>>
       ELSE Begin("close", 0)
    /\ UNCHANGED <<list, entries, fds, closed, due, todo>>

\* select reports descriptors, or nothing when a timer ended the wait (an
\* error other than EINTR and EAGAIN leaves the sets as they were passed in);
\* then the expired timers are run.
LoopSelect ==
    /\ pc = "select"
    /\ \E r \in SUBSET {t \in Fd \X Watch : t[1] \in fds[t[2]]} :
        /\ r # {} \/ list["timer"] # <<>>
        /\ todo' = r
    /\ Begin("timer", 0)
    /\ UNCHANGED <<list, entries, fds, closed, due>>

\* Time passes while the loop waits.
TimerDue(id) ==
    /\ pc = "select"
    /\ id \in Ids(list["timer"]) \ due
    /\ due' = due \cup {id}
    /\ UNCHANGED <<list, entries, fds, closed, pc, todo, walk, cut>>

\* The scan takes descriptors in order and on each error, read, write.
Order(k) == CASE k = "error" -> 0 [] k = "read" -> 1 [] k = "write" -> 2

Precedes(a, b) == a[1] < b[1] \/ (a[1] = b[1] /\ Order(a[2]) <= Order(b[2]))

LoopDispatch ==
    /\ pc = "dispatch"
    /\ IF todo = {}
       THEN pc' = "top" /\ UNCHANGED <<todo, walk, cut>>
       ELSE \E t \in todo :
                /\ \A u \in todo : Precedes(t, u)
                /\ todo' = todo \ {t}
                /\ Begin(t[2], t[1])
    /\ UNCHANGED <<list, entries, fds, closed, due>>

\* Is this entry to be called in the walk under way?
Serves(e) ==
    CASE walk.kind = "timer" -> e.id \in due
      [] walk.kind = "close" -> TRUE
      [] OTHER               -> e.fd = walk.fd

EndOfWalk == pc' = IF walk.kind = "close" THEN "done" ELSE "dispatch"

\* Advance to the next entry to call, saving its successor, or end the walk.
\* walk.cur is followed, so it must not dangle.
WalkOn ==
    /\ pc = "walk"
    /\ LET l == list[walk.kind]
           IsNext(i) == /\ Serves(l[i])
                        /\ \E c \in 1 .. i :
                            /\ l[c].id = walk.cur
                            /\ \A j \in c .. i - 1 : ~ Serves(l[j])
       IN \/ /\ walk.cur # Nil
             /\ walk.cur \notin Ids(l)
             /\ pc' = "undefined"
             /\ UNCHANGED walk
          \/ /\ walk.cur \in Ids(l) \cup {Nil}
             /\ \A i \in DOMAIN l : ~ IsNext(i)
             /\ EndOfWalk
             /\ walk' = NoWalk
          \/ \E i \in DOMAIN l :
             /\ IsNext(i)
             /\ pc' = "callback"
             /\ walk' = [walk EXCEPT !.cur = l[i].id, !.next = At(l, i + 1)]
    /\ UNCHANGED <<list, entries, fds, closed, due, todo, cut>>

\* The set a one-shot entry's descriptor is taken from: io_handle_error
\* clears io->writers.
ClearedSet(k) == IF k = "error" THEN "write" ELSE k

\* Only the first writable and the first error entry of a descriptor is run.
Stops(k) == k \in {"write", "error"}

\* Mutant: LIST_FOREACH instead of LIST_FOREACH_SAFE, after the entry is freed.
Successor_unsafe == walk.cur

\* Where the walk goes on after a callback: at the successor saved before it.
Successor == walk.next

\* The callback has returned: the loop reads entry->once.
CallbackReturns ==
    /\ pc = "callback"
    /\ LET k == walk.kind
           l == list[k]
       IN \/ /\ walk.cur \notin Ids(l)
             /\ pc' = "undefined"
             /\ UNCHANGED <<list, entries, fds, due, walk>>
          \/ \E i \in DOMAIN l :
             /\ l[i].id = walk.cur
             /\ IF l[i].once
                THEN /\ list' = [list EXCEPT ![k] = RemoveAt(@, i)]
                     /\ entries' = entries - Counts(k)
                     /\ fds' = Unwatch(ClearedSet(k), walk.fd)
                ELSE UNCHANGED <<list, entries, fds>>
             /\ due' = due \ {walk.cur}
             /\ IF Stops(k)
                THEN pc' = "dispatch" /\ walk' = NoWalk
                ELSE pc' = "walk" /\ walk' = [walk EXCEPT !.cur = Successor, !.next = Nil]
    /\ UNCHANGED <<closed, todo, cut>>

dmr_io_free ==
    /\ pc = "done"
    /\ pc' = "freed"
    /\ list' = [k \in Kind |-> <<>>]
    /\ due' = {}
    /\ UNCHANGED <<entries, fds, closed, todo, walk, cut>>

----------------------------------------------------------------------------
Loop == LoopTop \/ LoopSelect \/ LoopDispatch \/ WalkOn \/ CallbackReturns

Next ==
    \/ \E r \in Regs : dmr_io_reg(r)
    \/ \E d \in Dels : dmr_io_del(d)
    \/ dmr_io_close
    \/ \E sig \in Fd : io_handle_signal(sig)
    \/ \E id \in Id : TimerDue(id)
    \/ dmr_io_loop
    \/ Loop
    \/ dmr_io_free

Spec == Init /\ [][Next]_vars

(***************************************************************************)
(* The loop's own steps happen and callbacks return; select returns when a *)
(* timer bounds it, and is under no obligation to return otherwise.        *)
(***************************************************************************)
TimedSelect == LoopSelect /\ list["timer"] # <<>>

FairSpec ==
    /\ Spec
    /\ WF_vars(dmr_io_loop)
    /\ WF_vars(LoopTop)
    /\ WF_vars(TimedSelect)
    /\ WF_vars(LoopDispatch)
    /\ WF_vars(WalkOn)
    /\ WF_vars(CallbackReturns)

----------------------------------------------------------------------------
\* Every variable has its type and the count of entries is never negative.
TypeOK ==
    /\ list \in [Kind -> Seq(Entry)]
    /\ entries \in Nat
    /\ fds \in [Watch -> SUBSET Fd]
    /\ closed \in BOOLEAN
    /\ due \subseteq Ids(list["timer"])
    /\ pc \in {"setup", "top", "select", "dispatch", "walk", "callback",
               "done", "freed", "undefined"}
    /\ cut \in BOOLEAN
    /\ todo \subseteq Fd \X Watch
    /\ walk \in [kind : Kind, fd : Fd \cup {0}, cur : Id \cup {Nil}, next : Id \cup {Nil}]

\* The loop runs while something other than close entries is registered, and no
\* longer, over every mix of registering, deleting, one-shot entries, timers and
\* signals.  io->entries is what it goes by, which is not the 'total number of
\* entries in all lists' of io.h:81: dmr_io_reg_close adds a close entry and does
\* not count it (io.c:522-540), nor does io_handle_close count it out.
LoopRunsForWork ==
    pc # "freed" =>
        (entries > 0 <=> \E k \in Kind \ {"close"} : list[k] # <<>>)

\* No descriptor is left in the read or the write set once its last entry is
\* gone: select would report it for ever with nobody to handle it.
WatchedFdsHaveEntries ==
    pc # "freed" =>
        \A k \in {"read", "write"} :
            fds[k] \subseteq {list[k][i].fd : i \in DOMAIN list[k]}

\* The loop never follows a pointer to an entry a callback has freed
\* ("entry may be freed by callback", io.c).
NoDanglingEntry == pc # "undefined"

\* It does so only after a callback freed the very entry it was called for, or
\* the one the walk had saved as the next: registering in any list, deleting any
\* other entry and signals at any moment are safe, as the order of saving the
\* successor, calling back and unlinking makes them.
DanglingOnlyIfCut == pc = "undefined" => cut

\* Once dmr_io_close is called while the loop runs, the loop ends, unless it
\* is left waiting in a select that no timer bounds or follows a freed entry.
CloseEndsLoop ==
    (closed /\ pc # "setup") ~>
        (pc \in {"done", "freed", "undefined"} \/ (pc = "select" /\ list["timer"] = <<>>))

=============================================================================
