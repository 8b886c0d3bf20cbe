---------------------------- MODULE ThreadLocals ----------------------------
(***************************************************************************)
(* Thread-specific storage on Windows (src/src/dmr/thread.c): every thread *)
(* keeps a list of the values it has set, so that their destructors can be *)
(* run when it exits; a slot of the system holds the address of a key's    *)
(* list node, and one table shared by all threads holds the destructors.   *)
(*                                                                         *)
(* A value is the generation of its key: how many times the index had been *)
(* created when it was stored, so that a value given to the destructor of  *)
(* another use of the index can be told apart; 0 is NULL.  A node is an    *)
(* address; giving one that talloc allocated to free(), or leaving a freed *)
(* one in a list that will be followed, ends what can be said.             *)
(*                                                                         *)
(* External: TlsAlloc returns a free index and clears it in every thread;  *)
(* TlsSetValue may fail.                                                   *)
(***************************************************************************)
EXTENDS Integers

CONSTANTS
    Owner,          \* threads
    Key,            \* TLS indexes
    Node,           \* addresses of list nodes; running out is ENOMEM
    Null,
    Iterations,     \* DMR_LOCALS_DTOR_ITERATIONS
    MaxGen,         \* bound on how often each index is created
    MaxSets         \* bound on the calls of dmr_locals_set by each thread

ASSUME LocalsAssumption ==
    /\ Null \notin Node
    /\ Iterations \in Nat \ {0} /\ MaxGen \in [Key -> Nat] /\ MaxSets \in [Owner -> Nat]

VARIABLES
    gen,            \* how often each index was created
    keys,           \* indexes in use
    dtors,          \* _dmr_thread_locals_dtors: whose generation's, 0 is NULL
    slot,           \* TlsGetValue of each thread
    node,           \* [by, key, value, next] of every allocated node
    first, last,    \* _dmr_thread_locals_head and _tail of each thread
    lost,           \* history: nodes whose place in their list another one took
    phase,          \* what each thread is doing
    cursor, pass, again,    \* data, iteration and again of the cleanup
    sets,           \* calls of dmr_locals_set so far
    sound,          \* FALSE once the heap is corrupt or a list holds a freed node
    wrong,          \* was a destructor called with another key's value?
    orphaned        \* was a key deleted that another thread had a value for?

localsVars == <<gen, keys, dtors, slot, node, first, last, lost, phase, cursor, pass,
                again, sets, sound, wrong, orphaned>>

Allocated == DOMAIN node

LocalsInit ==
    /\ gen = [k \in Key |-> 0] /\ keys = {} /\ dtors = [k \in Key |-> 0]
    /\ slot = [t \in Owner |-> [k \in Key |-> Null]]
    /\ node = [n \in {} |-> 0]
    /\ first = [t \in Owner |-> Null] /\ last = [t \in Owner |-> Null] /\ lost = {}
    /\ phase = [t \in Owner |-> "runs"]
    /\ cursor = [t \in Owner |-> Null]
    /\ pass = [t \in Owner |-> 0] /\ again = [t \in Owner |-> FALSE]
    /\ sets = [t \in Owner |-> 0]
    /\ sound = TRUE /\ wrong = FALSE /\ orphaned = FALSE

Register(k, dtor) == IF dtor THEN gen[k] + 1 ELSE 0

dmr_locals_create(t, k, dtor) ==
    /\ phase[t] = "runs" /\ sound
    /\ k \notin keys /\ gen[k] < MaxGen[k]
    /\ keys' = keys \cup {k}
    /\ gen' = [gen EXCEPT ![k] = @ + 1]
    /\ dtors' = [dtors EXCEPT ![k] = Register(k, dtor)]
    /\ slot' = [u \in Owner |-> [slot[u] EXCEPT ![k] = Null]]
    /\ UNCHANGED <<node, first, last, lost, phase, cursor, pass, again, sets, sound,
                   wrong, orphaned>>

\* The caller's node, which talloc allocated, is given to free().
dmr_locals_delete(t, k) ==
    /\ phase[t] = "runs" /\ sound
    /\ k \in keys
    /\ sound' = (slot[t][k] = Null)
    /\ dtors' = [dtors EXCEPT ![k] = 0]
    /\ keys' = keys \ {k}
    /\ orphaned' = (orphaned \/ \E n \in Allocated : node[n].key = k)
    /\ UNCHANGED <<gen, slot, node, first, last, lost, phase, cursor, pass, again, sets, wrong>>

\* The node goes behind the tail; the tail itself moves only when there was
\* none, so a third node takes the place of the second one.
Link(t, n, new) ==
    /\ node' = [m \in Allocated \cup {n} |->
                   IF m = n THEN new
                   ELSE IF m = last[t] THEN [node[m] EXCEPT !.next = n]
                   ELSE node[m]]
    /\ last' = [last EXCEPT ![t] = IF @ = Null THEN n ELSE @]
    /\ first' = [first EXCEPT ![t] = IF @ = Null THEN n ELSE @]
    /\ lost' = lost \cup (IF last[t] = Null THEN {} ELSE {node[last[t]].next} \ {Null})

NewNode(t, k) == [by |-> t, key |-> k, value |-> gen[k], next |-> Null]

\* The thread, or a destructor of its cleanup, sets a value.
Sets(t, k) ==
    /\ phase[t] \in {"runs", "destroys"} /\ sound
    /\ k \in keys /\ sets[t] < MaxSets[t]
    /\ sets' = [sets EXCEPT ![t] = @ + 1]
    /\ UNCHANGED <<gen, keys, dtors, phase, cursor, pass, again, wrong, orphaned>>

dmr_locals_set(t, k) ==
    /\ Sets(t, k)
    /\ IF slot[t][k] = Null
       THEN /\ Allocated # Node
            /\ LET n == CHOOSE n \in Node : n \notin Allocated
               IN  Link(t, n, NewNode(t, k)) /\ slot' = [slot EXCEPT ![t][k] = n]
       ELSE /\ node' = [node EXCEPT ![slot[t][k]].value = gen[k]]
            /\ UNCHANGED <<slot, first, last, lost>>
    /\ UNCHANGED sound

\* TlsSetValue fails: the node is freed and stays linked, for the exit to follow.
SetFails(t, k) ==
    /\ Sets(t, k)
    /\ slot[t][k] = Null
    /\ sound' = FALSE
    /\ UNCHANGED <<slot, node, first, last, lost>>

----------------------------------------------------------------------------
(***************************************************************************)
(* A thread exits: dmr_thread_exit, the end of the wrapper function or the *)
(* detach callback run _dmr_thread_locals_cleanup.                         *)
(***************************************************************************)
Exits(t) ==
    /\ phase[t] = "runs" /\ sound
    /\ phase' = [phase EXCEPT ![t] = IF first[t] = Null THEN "gone" ELSE "cleanup"]
    /\ cursor' = [cursor EXCEPT ![t] = first[t]]
    /\ pass' = [pass EXCEPT ![t] = 1]
    /\ UNCHANGED <<gen, keys, dtors, slot, node, first, last, lost, again, sets, sound,
                   wrong, orphaned>>

DtorOf(n) == dtors[node[n].key]

\* A node without a value is skipped, one with a value loses it and has its
\* destructor called, if there is one.
VisitNode(t) ==
    LET n == cursor[t]
        value == node[n].value
        dtor == DtorOf(n)
        called == value # 0 /\ dtor # 0
    IN  /\ phase[t] = "cleanup" /\ sound
        /\ n \in Allocated
        /\ node' = [node EXCEPT ![n].value = 0]
        /\ again' = [again EXCEPT ![t] = @ \/ called]
        /\ wrong' = (wrong \/ (called /\ dtor # value))
        /\ phase' = [phase EXCEPT ![t] = IF called THEN "destroys" ELSE @]
        /\ cursor' = IF called THEN cursor ELSE [cursor EXCEPT ![t] = node[n].next]
        /\ UNCHANGED <<gen, keys, dtors, slot, first, last, lost, pass, sets, sound, orphaned>>

DtorReturns(t) ==
    /\ phase[t] = "destroys" /\ sound
    /\ phase' = [phase EXCEPT ![t] = "cleanup"]
    /\ cursor' = [cursor EXCEPT ![t] = node[@].next]
    /\ UNCHANGED <<gen, keys, dtors, slot, node, first, last, lost, pass, again, sets,
                   sound, wrong, orphaned>>

\* Mutant: one pass is enough.
NextPass_none(t) == FALSE

NextPass(t) == again[t] /\ pass[t] < Iterations

\* The end of the list: another pass if a destructor was called, or the end.
EndOfPass(t) ==
    /\ phase[t] = "cleanup" /\ sound
    /\ cursor[t] = Null
    /\ again' = [again EXCEPT ![t] = FALSE]
    /\ IF NextPass(t)
       THEN /\ pass' = [pass EXCEPT ![t] = @ + 1]
            /\ cursor' = [cursor EXCEPT ![t] = first[t]]
            /\ UNCHANGED phase
       ELSE /\ phase' = [phase EXCEPT ![t] = "frees"]
            /\ UNCHANGED <<pass, cursor>>
    /\ UNCHANGED <<gen, keys, dtors, slot, node, first, last, lost, sets, sound, wrong, orphaned>>

FreeNode(t) ==
    /\ phase[t] = "frees" /\ sound
    /\ first[t] \in Allocated
    /\ first' = [first EXCEPT ![t] = node[@].next]
    /\ node' = [n \in Allocated \ {first[t]} |-> node[n]]
    /\ phase' = [phase EXCEPT ![t] = IF first'[t] = Null THEN "gone" ELSE @]
    /\ last' = [last EXCEPT ![t] = IF first'[t] = Null THEN Null ELSE @]
    /\ UNCHANGED <<gen, keys, dtors, slot, lost, cursor, pass, again, sets, sound, wrong, orphaned>>

LocalsNext ==
    \E t \in Owner :
        \/ \E k \in Key :
              \/ \E dtor \in BOOLEAN : dmr_locals_create(t, k, dtor)
              \/ dmr_locals_delete(t, k)
              \/ dmr_locals_set(t, k) \/ SetFails(t, k)
        \/ Exits(t) \/ VisitNode(t) \/ DtorReturns(t) \/ EndOfPass(t)
        \/ FreeNode(t)

LocalsSpec == LocalsInit /\ [][LocalsNext]_localsVars

----------------------------------------------------------------------------
LocalsTypeOK ==
    /\ keys \subseteq Key
    /\ \A k \in Key : gen[k] \in 0 .. MaxGen[k] /\ dtors[k] \in 0 .. MaxGen[k]
    /\ slot \in [Owner -> [Key -> Node \cup {Null}]]
    /\ Allocated \subseteq Node
    /\ \A n \in Allocated : node[n] \in [by : Owner, key : Key, value : Nat,
                                         next : Node \cup {Null}]
    /\ first \in [Owner -> Node \cup {Null}] /\ last \in [Owner -> Node \cup {Null}]
    /\ lost \subseteq Node
    /\ phase \in [Owner -> {"runs", "cleanup", "destroys", "frees", "gone"}]
    /\ cursor \in [Owner -> Node \cup {Null}]
    /\ pass \in [Owner -> 0 .. Iterations] /\ again \in [Owner -> BOOLEAN]
    /\ \A t \in Owner : sets[t] \in 0 .. MaxSets[t]
    /\ {sound, wrong, orphaned} \subseteq BOOLEAN

(* A destructor is only ever called with a value that was set under its own    *)
(* key, even when indexes are deleted and used again, as long as no thread     *)
(* deletes a key that another one still has a value for.                       *)
DtorOwnsValue == wrong => orphaned

\* The nodes that the exit of t will find.
Listed(t) == IF first[t] = Null THEN {} ELSE {first[t], node[first[t]].next} \ {Null}

(* A thread has the node of the first key it set in its list, and that of the  *)
(* key it set last; when it sets a third one the node between the two is lost, *)
(* though the index still leads to its value.                                  *)
FirstAndLatestListed ==
    \A n \in Allocated :
        LET t == node[n].by IN
        /\ n \in lost <=> n \notin Listed(t)
        /\ n \in lost /\ phase[t] \in {"runs", "cleanup", "destroys"} => Listed(t) \ {first[t]} # {}

(* A thread that has exited leaves only such nodes behind, with values whose   *)
(* destructor is not called: of three keys or more, only those of the first    *)
(* and of the last are called (thread.h:420 says "definitely", of every key;   *)
(* thread.c:866-873 moves the tail of the list only once).                     *)
ExitLeavesTheLost ==
    \A t \in Owner, n \in Allocated : phase[t] = "gone" /\ node[n].by = t => n \in lost

(* The nodes are only freed with a value left in them after the last pass that *)
(* DMR_LOCALS_DTOR_ITERATIONS allows, or where the key has no destructor: the  *)
(* destructor of one key may set another key.                                  *)
FreedValuesDestroyed ==
    \A t \in Owner, n \in Allocated \ lost :
        phase[t] = "frees" /\ node[n].by = t /\ node[n].value # 0
            => pass[t] = Iterations \/ dtors[node[n].key] = 0

(* The values of the first key that a thread has set and of the last are       *)
(* destroyed by their key's destructor, within the passes it is given, when    *)
(* the thread exits; the values of all others never are, nor are their nodes   *)
(* freed.                                                                      *)
ValuesDestroyed ==
    LocalsTypeOK /\ DtorOwnsValue /\ FirstAndLatestListed /\ ExitLeavesTheLost
    /\ FreedValuesDestroyed
=============================================================================
