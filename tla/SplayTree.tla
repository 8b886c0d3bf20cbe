----------------------------- MODULE SplayTree -----------------------------
(***************************************************************************)
(* The splay tree of tree.h, with the splay loop one turn at a time.       *)
(*                                                                         *)
(* Splaying takes the tree apart from the top: what is less than the key   *)
(* goes to the tree under the left pointer, what is greater to the one     *)
(* under the right pointer, and the loop ends with the node that comes to  *)
(* the root.  Both trees hang from the local __node, HOOK here: the left   *)
(* tree from its right field and the right tree from its left field.       *)
(***************************************************************************)
EXTENDS Integers, Sequences, FiniteSets

CONSTANTS Keys, MaxOps

ASSUME KeysPositive == Keys \subseteq Nat \ {0} /\ MaxOps \in Nat

VARIABLES
    splay,      \* [root, child]
    loop,       \* [now, key, left, right, kept]: the operation and the loop's pointers
    keys,       \* what the tree should hold
    ops         \* how many operations were begun

splayVars == <<splay, loop, keys, ops>>

NONE == 0
HOOK == -1
Ends == {"l", "r"}
Mirror(d) == IF d = "l" THEN "r" ELSE "l"

Rest == [now |-> "idle", key |-> NONE, left |-> NONE, right |-> NONE, kept |-> NONE]

\* Which way the key lies from n: cmp, or always one way for DMR_SPLAY_MINMAX.
Way(n) == CASE loop.now = "min" -> "l" [] loop.now = "max" -> "r"
            [] loop.key = n -> "here" [] loop.key < n -> "l" [] OTHER -> "r"
-----------------------------------------------------------------------------
SplayInit ==
    /\ splay = [root |-> NONE, child |-> [d \in Ends |-> [n \in Keys \cup {HOOK} |-> NONE]]]
    /\ loop = Rest /\ keys = {} /\ ops = 0

Begin(now, key) ==
    /\ loop.now = "idle" /\ ops < MaxOps /\ ops' = ops + 1
    /\ loop' = [now |-> now, key |-> key, left |-> HOOK, right |-> HOOK, kept |-> NONE]
    /\ splay' = [splay EXCEPT !.child["l"][HOOK] = NONE, !.child["r"][HOOK] = NONE]
    /\ UNCHANGED keys

\* DMR_SPLAY_FIND, DMR_SPLAY_NEXT and DMR_SPLAY_MINMAX, DMR_SPLAY_INSERT and
\* DMR_SPLAY_REMOVE begin with a splay of a tree that is not empty.
Call ==
    /\ splay.root # NONE
    /\ \/ \E k \in Keys, now \in {"find", "insert", "remove"} : Begin(now, k)
       \/ \E k \in keys : Begin("next", k)
       \/ \E now \in {"min", "max"} : Begin(now, NONE)

InsertFirst(k) ==
    /\ loop.now = "idle" /\ splay.root = NONE /\ ops < MaxOps /\ ops' = ops + 1
    /\ splay' = [splay EXCEPT !.root = k, !.child["l"][k] = NONE, !.child["r"][k] = NONE]
    /\ keys' = {k} /\ UNCHANGED loop

\* DMR_SPLAY_ROTATE_RIGHT brings the left child up, and its mirror the right one.
RotateUp(s, d) ==
    LET tmp == s.child[d][s.root]
    IN  [s EXCEPT !.child[d][s.root] = s.child[Mirror(d)][tmp], !.child[Mirror(d)][tmp] = s.root,
                  !.root = tmp]

\* DMR_SPLAY_LINKLEFT puts the root at the end of the right tree and goes left.
LinkTo(s, d, at) == [s EXCEPT !.child[d][at] = s.root, !.root = s.child[d][s.root]]

\* The far end of the tree that takes what lies on the other side of the way d.
Taker(d) == IF d = "l" THEN loop.right ELSE loop.left

SplayTurn ==
    LET d == Way(splay.root)
        tmp == splay.child[d][splay.root]
        turned == IF Way(tmp) = d THEN RotateUp(splay, d) ELSE splay
    IN  /\ loop.now # "idle" /\ d # "here" /\ tmp # NONE
        /\ turned.child[d][turned.root] # NONE
        /\ splay' = LinkTo(turned, d, Taker(d))
        /\ loop' = IF d = "l" THEN [loop EXCEPT !.right = turned.root]
                   ELSE [loop EXCEPT !.left = turned.root]
        /\ UNCHANGED <<keys, ops>>

DMR_SPLAY_ASSEMBLE(s) ==
    LET a == [s EXCEPT !.child["r"][loop.left] = s.child["l"][s.root],
                       !.child["l"][loop.right] = s.child["r"][s.root]]
    IN  [a EXCEPT !.child["l"][s.root] = a.child["r"][HOOK], !.child["r"][s.root] = a.child["l"][HOOK]]

\* The tree with the key at the root, and what was the root under it.
Crown(s) ==
    LET d == IF loop.key < s.root THEN "l" ELSE "r"
        k == loop.key
    IN  [s EXCEPT !.child[d][k] = s.child[d][s.root], !.child[Mirror(d)][k] = s.root,
                  !.child[d][s.root] = NONE, !.root = k]

\* The end of the loop: the last rotation, the assembly, and the rest of the
\* operation.  A removal splays once more, in the left subtree of the key.
SplayEnd ==
    LET d == Way(splay.root)
        tmp == IF d = "here" THEN NONE ELSE splay.child[d][splay.root]
        turned == IF tmp # NONE /\ Way(tmp) = d THEN RotateUp(splay, d) ELSE splay
        s == DMR_SPLAY_ASSEMBLE(turned)
        found == s.root = loop.key
        l == s.child["l"][s.root]
        r == s.child["r"][s.root]
    IN  /\ loop.now # "idle"
        /\ tmp = NONE \/ (Way(tmp) = d /\ turned.child[d][turned.root] = NONE)
        /\ CASE loop.now = "insert" /\ ~found ->
                  splay' = Crown(s) /\ loop' = Rest /\ keys' = keys \cup {loop.key}
             [] loop.now = "remove" /\ found /\ l = NONE ->
                  splay' = [s EXCEPT !.root = r] /\ loop' = Rest /\ keys' = keys \ {loop.key}
             [] loop.now = "remove" /\ found /\ l # NONE ->
                  /\ splay' = [s EXCEPT !.root = l, !.child["l"][HOOK] = NONE, !.child["r"][HOOK] = NONE]
                  /\ loop' = [loop EXCEPT !.now = "removed", !.left = HOOK, !.right = HOOK, !.kept = r]
                  /\ keys' = keys \ {loop.key}
             [] loop.now = "removed" ->
                  splay' = [s EXCEPT !.child["r"][s.root] = loop.kept] /\ loop' = Rest /\ UNCHANGED keys
             [] OTHER -> splay' = s /\ loop' = Rest /\ UNCHANGED keys
        /\ UNCHANGED ops

SplayNext == Call \/ (\E k \in Keys : InsertFirst(k)) \/ SplayTurn \/ SplayEnd
-----------------------------------------------------------------------------
\* The nodes under n in order.
InOrder(n) ==
    LET at[m \in Keys \cup {NONE}] ==
            IF m = NONE THEN <<>> ELSE at[splay.child["l"][m]] \o <<m>> \o at[splay.child["r"][m]]
    IN  at[n]

Ascending(s) == \A i, j \in DOMAIN s : i < j => s[i] < s[j]

\* Whatever the operations and the order of the keys, the tree read in order is
\* the keys it should hold, ascending; and while a splay has it in three
\* pieces, the pieces together are.
SplayKeepsKeys ==
    LET whole == InOrder(splay.root)
        less == IF loop.now = "idle" THEN <<>> ELSE InOrder(splay.child["r"][HOOK])
        more == IF loop.now = "idle" THEN <<>> ELSE InOrder(splay.child["l"][HOOK])
        all == (IF loop.left \in {NONE, HOOK} THEN <<>>
                ELSE SelectSeq(less, LAMBDA n : n <= loop.left))
               \o whole \o
               (IF loop.right \in {NONE, HOOK} THEN <<>>
                ELSE SelectSeq(more, LAMBDA n : n >= loop.right)) \o InOrder(loop.kept)
    IN  Ascending(all) /\ {all[i] : i \in DOMAIN all} = keys
=============================================================================
