------------------------------- MODULE Queues -------------------------------
(***************************************************************************)
(* The intrusive lists and queues of queue.h, on two heads that share a    *)
(* set of elements.                                                        *)
(*                                                                         *)
(* A place is an element or a head: the address of its next pointer.  A    *)
(* head's next pointer is its first element.  The back pointer of an       *)
(* element and the last pointer of a head are places.  All five kinds work *)
(* on the same fields; those a kind does not have are not used.  The       *)
(* pointers of an XSIMPLEQ are kept masked with the cookie of the queue,   *)
(* which is NULL for the other kinds.  An address is the set of its one    *)
(* bits.                                                                   *)
(***************************************************************************)
EXTENDS Integers, Sequences, FiniteSets, SequencesExt

CONSTANTS
    AddressBits,
    Elements, Heads,
    Kinds,
    Cookies

NULL == {}
Pointers == SUBSET AddressBits

ASSUME QueueConstants ==
    /\ Elements \subseteq Pointers \ {NULL} /\ Heads \subseteq Pointers \ {NULL}
    /\ Elements \cap Heads = {} /\ IsFiniteSet(Elements)
    /\ Cookies \subseteq Pointers

VARIABLES
    kind, cookie,
    next,           \* the next pointer at each place
    prev,           \* the back pointer of each element: the place that points to it
    last,           \* the last pointer of each head: the place of the NULL
    contents        \* what each queue should hold, in order

queueVars == <<kind, cookie, next, prev, last, contents>>

Places == Elements \cup Heads

\* DMR_XSIMPLEQ_XOR.
XOR(p) == SymDiff(p, cookie)

Doubly == kind \in {"LIST", "TAILQ"}
HasLast == kind \in {"SIMPLEQ", "XSIMPLEQ", "TAILQ"}

Free(e) == \A h \in Heads : ~Contains(contents[h], e)
-----------------------------------------------------------------------------
QueueInit ==
    /\ kind \in Kinds
    /\ cookie \in IF kind = "XSIMPLEQ" THEN Cookies ELSE {NULL}
    /\ next = [p \in Places |-> XOR(NULL)]
    /\ prev = [e \in Elements |-> NULL]
    /\ last = [h \in Heads |-> XOR(h)]
    /\ contents = [h \in Heads |-> <<>>]

\* e is linked in after the place p, with the element q (if any) behind it.
Link(h, p, e, q) ==
    /\ next' = [next EXCEPT ![e] = q, ![p] = XOR(e)]
    /\ last' = IF HasLast /\ q = XOR(NULL) THEN [last EXCEPT ![h] = XOR(e)] ELSE last
    /\ prev' = IF ~Doubly THEN prev
               ELSE [x \in Elements |-> IF x = e THEN p ELSE IF x = q THEN e ELSE prev[x]]

INSERT_HEAD(h, e) ==
    /\ Link(h, h, e, next[h])
    /\ contents' = [contents EXCEPT ![h] = <<e>> \o @]

INSERT_TAIL(h, e) ==
    /\ next' = [next EXCEPT ![e] = XOR(NULL), ![XOR(last[h])] = XOR(e)]
    /\ last' = [last EXCEPT ![h] = XOR(e)]
    /\ prev' = IF Doubly THEN [prev EXCEPT ![e] = last[h]] ELSE prev
    /\ contents' = [contents EXCEPT ![h] = Append(@, e)]

Index(h, e) == CHOOSE i \in DOMAIN contents[h] : contents[h][i] = e

INSERT_AFTER(h, l, e) ==
    /\ Link(h, l, e, next[l])
    /\ contents' = [contents EXCEPT ![h] = InsertAt(@, Index(h, l) + 1, e)]

INSERT_BEFORE(h, l, e) ==
    /\ next' = [next EXCEPT ![e] = l, ![prev[l]] = e]
    /\ prev' = [prev EXCEPT ![e] = prev[l], ![l] = e]
    /\ contents' = [contents EXCEPT ![h] = InsertAt(@, Index(h, l), e)]
    /\ UNCHANGED last

\* The element after the place p is unlinked: REMOVE_HEAD and REMOVE_AFTER.
UnlinkAfter(h, p) ==
    LET q == next[XOR(next[p])]
    IN  /\ next' = [next EXCEPT ![p] = q]
        /\ last' = IF HasLast /\ q = XOR(NULL) THEN [last EXCEPT ![h] = XOR(p)] ELSE last
        /\ UNCHANGED prev

REMOVE_HEAD(h) ==
    /\ UnlinkAfter(h, h)
    /\ contents' = [contents EXCEPT ![h] = Tail(@)]

REMOVE_AFTER(h, e) ==
    /\ UnlinkAfter(h, e)
    /\ contents' = [contents EXCEPT ![h] = RemoveAt(@, Index(h, e) + 1)]

\* A singly linked list is searched for the place that points to e.
SLIST_REMOVE(h, e) ==
    /\ \E p \in {h} \cup ToSet(contents[h]) : next[p] = e /\ UnlinkAfter(h, p)
    /\ contents' = [contents EXCEPT ![h] = RemoveAt(@, Index(h, e))]

\* Mutant: the element behind keeps its back pointer.
RemoveKeepsPrev(h, e) ==
    /\ last' = IF next[e] = NULL /\ HasLast THEN [last EXCEPT ![h] = prev[e]] ELSE last
    /\ next' = [next EXCEPT ![prev[e]] = next[e]]
    /\ contents' = [contents EXCEPT ![h] = RemoveAt(@, Index(h, e))]
    /\ UNCHANGED prev

REMOVE(h, e) ==
    /\ prev' = IF next[e] # NULL THEN [prev EXCEPT ![next[e]] = prev[e]] ELSE prev
    /\ last' = IF next[e] = NULL /\ HasLast THEN [last EXCEPT ![h] = prev[e]] ELSE last
    /\ next' = [next EXCEPT ![prev[e]] = next[e]]
    /\ contents' = [contents EXCEPT ![h] = RemoveAt(@, Index(h, e))]

REPLACE(h, e, f) ==
    /\ prev' = [x \in Elements |-> IF x = f THEN prev[e] ELSE IF x = next[e] THEN f ELSE prev[x]]
    /\ last' = IF next[e] = NULL /\ HasLast THEN [last EXCEPT ![h] = f] ELSE last
    /\ next' = [next EXCEPT ![f] = next[e], ![prev[e]] = f]
    /\ contents' = [contents EXCEPT ![h][Index(h, e)] = f]

\* The elements of g go to the end of h; g is initialised.
CONCAT(h, g) ==
    /\ IF next[g] = NULL THEN UNCHANGED <<next, prev, last>>
       ELSE /\ next' = [next EXCEPT ![last[h]] = next[g], ![g] = NULL]
            /\ last' = [last EXCEPT ![h] = last[g], ![g] = g]
            /\ prev' = IF Doubly THEN [prev EXCEPT ![next[g]] = last[h]] ELSE prev
    /\ contents' = [contents EXCEPT ![h] = @ \o contents[g], ![g] = <<>>]
-----------------------------------------------------------------------------
(***************************************************************************)
(* What each kind offers.                                                  *)
(***************************************************************************)
In(h) == ToSet(contents[h])
HasNext(h, e) == e \in In(h) /\ e # Last(contents[h])
Unused == {e \in Elements : Free(e)}

SLIST ==
    \/ \E h \in Heads, e \in Unused : INSERT_HEAD(h, e) \/ \E l \in In(h) : INSERT_AFTER(h, l, e)
    \/ \E h \in Heads : contents[h] # <<>> /\ REMOVE_HEAD(h)
    \/ \E h \in Heads : \E e \in In(h) : SLIST_REMOVE(h, e) \/ (HasNext(h, e) /\ REMOVE_AFTER(h, e))

LIST ==
    \/ \E h \in Heads, e \in Unused :
        \/ INSERT_HEAD(h, e)
        \/ \E l \in In(h) : INSERT_AFTER(h, l, e) \/ INSERT_BEFORE(h, l, e) \/ REPLACE(h, l, e)
    \/ \E h \in Heads : \E e \in In(h) : REMOVE(h, e)

XSIMPLEQ ==
    \/ \E h \in Heads, e \in Unused :
        INSERT_HEAD(h, e) \/ INSERT_TAIL(h, e) \/ \E l \in In(h) : INSERT_AFTER(h, l, e)
    \/ \E h \in Heads : contents[h] # <<>> /\ REMOVE_HEAD(h)
    \/ \E h \in Heads : \E e \in In(h) : HasNext(h, e) /\ REMOVE_AFTER(h, e)

SIMPLEQ == XSIMPLEQ \/ \E h, g \in Heads : h # g /\ CONCAT(h, g)

TAILQ == \/ LIST
         \/ \E h \in Heads, e \in Unused : INSERT_TAIL(h, e)
         \/ \E h, g \in Heads : h # g /\ CONCAT(h, g)

QueueNext ==
    /\ \/ kind = "SLIST" /\ SLIST
       \/ kind = "LIST" /\ LIST
       \/ kind = "SIMPLEQ" /\ SIMPLEQ
       \/ kind = "XSIMPLEQ" /\ XSIMPLEQ
       \/ kind = "TAILQ" /\ TAILQ
    /\ UNCHANGED <<kind, cookie>>
-----------------------------------------------------------------------------
\* DMR_TAILQ_LAST and DMR_TAILQ_PREV take an entry for a head: the field that
\* follows the next pointer is read at whatever place is pointed to.
Second(p) == IF p \in Heads THEN last[p] ELSE prev[p]

LAST(h) == next[Second(last[h])]
PREV(e) == next[Second(prev[e])]

\* The elements from first on, forwards or backwards, to NULL, or one more than
\* there are.
Walk(first, backwards) ==
    LET step(e) == IF backwards THEN PREV(e) ELSE XOR(next[e])
        most == Cardinality(Elements) + 1
        at[n \in 0 .. most] == IF n = 0 THEN first
                               ELSE IF at[n - 1] = NULL THEN NULL ELSE step(at[n - 1])
        ends == {n \in 0 .. most : at[n] = NULL}
    IN  [i \in 1 .. Min(ends \cup {most}) |-> at[i - 1]]

FOREACH(h) == Walk(XOR(next[h]), FALSE)

FOREACH_REVERSE(h) == Walk(LAST(h), TRUE)

\* Every kind of queue, after any sequence of its operations on two queues and
\* whatever stale pointers free elements carry, is walked in the order its
\* operations define, and an append finds the place of its NULL.
QueueInOrder ==
    \A h \in Heads :
        /\ FOREACH(h) = contents[h]
        /\ HasLast => next[XOR(last[h])] = XOR(NULL)
                      /\ XOR(last[h]) = IF contents[h] = <<>> THEN h ELSE Last(contents[h])

\* A tail queue walked from its end by the back pointers is the same queue;
\* DMR_TAILQ_PREV reads the fields of an entry as those of a head.
QueueReversible ==
    kind = "TAILQ" => \A h \in Heads : FOREACH_REVERSE(h) = Reverse(contents[h])

\* The queues of queue.h are the sequences their operations make of them, from
\* either end.
QueuesAsSequences == QueueInOrder /\ QueueReversible
=============================================================================
