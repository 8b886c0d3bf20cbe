------------------------------- MODULE RbTree -------------------------------
(***************************************************************************)
(* The map of identifiers to names (id.c) and the red-black tree it is     *)
(* kept in (tree.h), with the tree's recolouring loops one turn at a time. *)
(*                                                                         *)
(* A node is its identifier; NIL is the NULL pointer.  tree.child is the   *)
(* pair of child pointers, so that what tree.h writes out for both sides   *)
(* is written once: Other is the mirror of a side.  The order is that of   *)
(* idcmp: the larger identifier is the lesser node.                        *)
(***************************************************************************)
EXTENDS Integers, Sequences, FiniteSets

CONSTANTS
    Ids,
    Names       \* the names each identifier may be given

ASSUME IdsPositive == Ids \subseteq Nat \ {0}

VARIABLES
    tree,       \* [root, child, parent, red, name]; shared of id.c
    op,         \* what goes on: [now, elm, parent]
    entries     \* what the map should hold: a set of <<id, name>>

idVars == <<tree, op, entries>>

NIL == 0
Nodes == Ids \cup {NIL}
Sides == {"left", "right"}
Other(d) == IF d = "left" THEN "right" ELSE "left"

idcmp(a, b) == IF a > b THEN -1 ELSE IF a < b THEN 1 ELSE 0
Side(a, b) == IF idcmp(a, b) < 0 THEN "left" ELSE "right"

Red(t, n) == n # NIL /\ n \in t.red
Black(t, n) == ~Red(t, n)
-----------------------------------------------------------------------------
EmptyTree ==
    [ root |-> NIL, child |-> [d \in Sides |-> [n \in Ids |-> NIL]],
      parent |-> [n \in Ids |-> NIL], red |-> {}, name |-> [n \in Ids |-> "none"] ]

Idle == [now |-> "idle", elm |-> NIL, parent |-> NIL]

SetChild(t, d, n, c) == [t EXCEPT !.child[d][n] = c]
SetParent(t, n, p) == IF n = NIL THEN t ELSE [t EXCEPT !.parent[n] = p]
Paint(t, n, red) == IF n = NIL THEN t
                    ELSE [t EXCEPT !.red = IF red THEN @ \cup {n} ELSE @ \ {n}]

DMR_RB_SET_BLACKRED(t, black, red) == Paint(Paint(t, black, FALSE), red, TRUE)

\* new takes the place of n under n's parent, or as the root.
Supplant(t, n, new) ==
    LET p == t.parent[n]
    IN  IF p = NIL THEN [t EXCEPT !.root = new]
        ELSE SetChild(t, IF t.child["left"][p] = n THEN "left" ELSE "right", p, new)

\* Mutant: the subtree that changes sides keeps its parent.
RotateKeepsParent(t, d, elm) ==
    LET tmp == t.child[Other(d)][elm]
        up == SetChild(t, Other(d), elm, t.child[d][tmp])
        moved == SetParent(Supplant(up, elm, tmp), tmp, t.parent[elm])
    IN  SetParent(SetChild(moved, d, tmp, elm), elm, tmp)

\* DMR_RB_ROTATE_LEFT and, for the other side, DMR_RB_ROTATE_RIGHT.
Rotate(t, d, elm) ==
    LET tmp == t.child[Other(d)][elm]
        inner == t.child[d][tmp]
        up == SetParent(SetChild(t, Other(d), elm, inner), inner, elm)
        moved == SetParent(Supplant(up, elm, tmp), tmp, t.parent[elm])
    IN  SetParent(SetChild(moved, d, tmp, elm), elm, tmp)
-----------------------------------------------------------------------------
\* The node of an identifier from n down, and the node the search ends at.
DMR_RB_FIND(t, id) ==
    LET at[n \in Nodes] == IF n \in {NIL, id} THEN n ELSE at[t.child[Side(id, n)][n]]
    IN  at[t.root]

SearchEnd(t, id) ==
    LET at[n \in Nodes] == LET c == t.child[Side(id, n)][n] IN IF c = NIL THEN n ELSE at[c]
    IN  IF t.root = NIL THEN NIL ELSE at[t.root]

\* The first node that is not before the identifier.
DMR_RB_NFIND(t, id) ==
    LET at[n \in Nodes] ==
            IF n \in {NIL, id} THEN n
            ELSE LET below == at[t.child[Side(id, n)][n]]
                 IN  IF below = NIL /\ Side(id, n) = "left" THEN n ELSE below
    IN  at[t.root]

\* The outermost node on side d of the subtree of n.
Outermost(t, d, n) ==
    LET at[m \in Nodes] == IF t.child[d][m] = NIL THEN m ELSE at[t.child[d][m]]
    IN  IF n = NIL THEN NIL ELSE at[n]

DMR_RB_MINMAX(t, d) == Outermost(t, d, t.root)

\* DMR_RB_NEXT for the right side, DMR_RB_PREV for the left.
Step(t, d, n) ==
    LET climb[m \in Nodes] ==
            LET p == t.parent[m] IN IF p # NIL /\ t.child[d][p] = m THEN climb[p] ELSE p
    IN  IF t.child[d][n] # NIL THEN Outermost(t, Other(d), t.child[d][n]) ELSE climb[n]

\* The nodes DMR_RB_FOREACH visits, or DMR_RB_FOREACH_REVERSE.
Foreach(t, d) ==
    LET N == Cardinality(Ids)
        at[k \in 0 .. N] == IF k = 0 THEN DMR_RB_MINMAX(t, Other(d))
                            ELSE IF at[k - 1] = NIL THEN NIL ELSE Step(t, d, at[k - 1])
    IN  SelectSeq([k \in 1 .. N + 1 |-> at[k - 1]], LAMBDA n : n # NIL)
-----------------------------------------------------------------------------
IdInit == tree = EmptyTree /\ op = Idle /\ entries = {}

\* An identifier that is there keeps its name; a new one is linked in red
\* where its search ended (DMR_RB_INSERT), and the tree recoloured.
dmr_idmap_add(id, name) ==
    LET p == SearchEnd(tree, id)
        set == SetParent([tree EXCEPT !.child["left"][id] = NIL, !.child["right"][id] = NIL,
                                      !.red = @ \cup {id}, !.name[id] = name], id, p)
    IN  /\ op.now = "idle"
        /\ IF DMR_RB_FIND(tree, id) # NIL THEN UNCHANGED idVars
           ELSE /\ tree' = IF p = NIL THEN [set EXCEPT !.root = id]
                           ELSE SetChild(set, Side(id, p), p, id)
                /\ op' = [now |-> "insert", elm |-> id, parent |-> p]
                /\ entries' = entries \cup {<<id, name>>}

\* One turn of DMR_RB_INSERT_COLOR, or its end.
INSERT_COLOR ==
    LET elm == op.elm
        parent == tree.parent[elm]
        gparent == tree.parent[parent]
        d == IF tree.child["left"][gparent] = parent THEN "left" ELSE "right"
        uncle == tree.child[Other(d)][gparent]
        inner == tree.child[Other(d)][parent] = elm
        turned == IF inner THEN Rotate(tree, d, parent) ELSE tree
        upper == IF inner THEN elm ELSE parent
    IN  /\ op.now = "insert"
        /\ IF ~Red(tree, parent)
           THEN tree' = Paint(tree, tree.root, FALSE) /\ op' = Idle
           ELSE IF Red(tree, uncle)
           THEN /\ tree' = DMR_RB_SET_BLACKRED(Paint(tree, uncle, FALSE), parent, gparent)
                /\ op' = [op EXCEPT !.elm = gparent]
           ELSE /\ tree' = Rotate(DMR_RB_SET_BLACKRED(turned, upper, gparent), Other(d), gparent)
                /\ op' = [op EXCEPT !.elm = IF inner THEN parent ELSE elm]
        /\ UNCHANGED entries

\* The node elm, which has at most one child, leaves its place to the child.
Unlink(t, elm, child) == Supplant(SetParent(t, child, t.parent[elm]), elm, child)

\* The fields of a removed node, which the next insert sets, are cleared.
Cleared(t, n) ==
    [t EXCEPT !.child["left"][n] = NIL, !.child["right"][n] = NIL, !.parent[n] = NIL,
              !.red = @ \ {n}, !.name[n] = "none"]

\* DMR_RB_REMOVE: a node with two children leaves its place to the next one.
DMR_RB_REMOVE(old) ==
    LET l == tree.child["left"][old]
        r == tree.child["right"][old]
        both == l # NIL /\ r # NIL
        elm == IF both THEN Outermost(tree, "left", r) ELSE old
        child == IF both THEN tree.child["right"][elm] ELSE IF l = NIL THEN r ELSE l
        cut == Unlink(tree, elm, child)
        moved == Supplant([cut EXCEPT !.child["left"][elm] = cut.child["left"][old],
                                      !.child["right"][elm] = cut.child["right"][old],
                                      !.parent[elm] = cut.parent[old],
                                      !.red = IF old \in @ THEN @ \cup {elm} ELSE @ \ {elm}],
                          old, elm)
        placed == SetParent(SetParent(moved, cut.child["left"][old], elm),
                            cut.child["right"][old], elm)
        parent == IF both /\ tree.parent[elm] = old THEN elm ELSE tree.parent[elm]
    IN  /\ op.now = "idle" /\ DMR_RB_FIND(tree, old) = old
        /\ tree' = Cleared(IF both THEN placed ELSE cut, old)
        /\ op' = IF Black(tree, elm) THEN [now |-> "remove", elm |-> child, parent |-> parent] ELSE Idle
        /\ entries' = {e \in entries : e[1] # old}

\* One turn of DMR_RB_REMOVE_COLOR: the subtree of elm, under parent, lacks one
\* black node.  A red sibling is first made black by a rotation.
REMOVE_COLOR ==
    LET elm == op.elm
        parent == op.parent
        d == IF tree.child["left"][parent] = elm THEN "left" ELSE "right"
        sib == tree.child[Other(d)][parent]
        t == IF Red(tree, sib) THEN Rotate(DMR_RB_SET_BLACKRED(tree, sib, parent), d, parent) ELSE tree
        tmp == t.child[Other(d)][parent]
        near == t.child[d][tmp]
        far == t.child[Other(d)][tmp]
        turned == IF Red(t, far) THEN t
                  ELSE Rotate(Paint(Paint(t, near, FALSE), tmp, TRUE), Other(d), tmp)
        top == turned.child[Other(d)][parent]
        painted == Paint(Paint(Paint(turned, top, Red(turned, parent)), parent, FALSE),
                         turned.child[Other(d)][top], FALSE)
        last == Rotate(painted, d, parent)
    IN  /\ op.now = "remove"
        /\ IF Red(tree, elm) \/ elm = tree.root
           THEN tree' = Paint(tree, elm, FALSE) /\ op' = Idle
           ELSE IF Black(t, near) /\ Black(t, far)
           THEN tree' = Paint(t, tmp, TRUE) /\ op' = [op EXCEPT !.elm = parent, !.parent = t.parent[parent]]
           ELSE tree' = Paint(last, last.root, FALSE) /\ op' = Idle
        /\ UNCHANGED entries

\* dmr_id_free; the next dmr_id_add makes a new map.
dmr_id_free ==
    /\ op.now = "idle" /\ tree.root # NIL
    /\ tree' = EmptyTree /\ entries' = {} /\ UNCHANGED op

IdNext ==
    \/ \E id \in Ids : \E name \in Names[id] : dmr_idmap_add(id, name)
    \/ INSERT_COLOR
    \/ \E id \in Ids : DMR_RB_REMOVE(id)
    \/ REMOVE_COLOR
    \/ dmr_id_free
-----------------------------------------------------------------------------
dmr_idmap_get(id) == IF DMR_RB_FIND(tree, id) = NIL THEN "none" ELSE tree.name[DMR_RB_FIND(tree, id)]

dmr_id_size == Len(Foreach(tree, "right"))

\* The black nodes on the way down from n, a set: one number if all ways agree.
BlackHeights(t) ==
    LET at[n \in Nodes] ==
            IF n = NIL THEN {0}
            ELSE {h + (IF Red(t, n) THEN 0 ELSE 1) : h \in at[t.child["left"][n]] \cup at[t.child["right"][n]]}
    IN  at[t.root]

\* Between operations the tree is a red-black tree: no red node has a red
\* child, the root is black, and all ways down meet the same number of black
\* nodes, so that no search is long.
RedBlack ==
    op.now = "idle" =>
        /\ Black(tree, tree.root)
        /\ \A n \in tree.red, d \in Sides : Black(tree, tree.child[d][n])
        /\ Cardinality(BlackHeights(tree)) = 1

\* At every turn of the loops the map answers as a dictionary would: the first
\* name given to an identifier, nothing for one that is not there, the next
\* identifier in order for one between; and a walk of the tree by its parent
\* pointers, in either direction, meets every entry once, in order.
AnswersAsDictionary ==
    LET present == {e[1] : e \in entries}
        walk == Foreach(tree, "right")
    IN  /\ \A id \in Ids : IF id \in present THEN <<id, dmr_idmap_get(id)>> \in entries
                           ELSE dmr_idmap_get(id) = "none"
        /\ dmr_id_size = Cardinality(present)
        /\ {walk[i] : i \in DOMAIN walk} = present
        /\ \A i, j \in DOMAIN walk : i < j => walk[i] > walk[j]
        /\ Foreach(tree, "left") = [i \in DOMAIN walk |-> walk[Len(walk) + 1 - i]]
        /\ \A id \in Ids : LET n == DMR_RB_NFIND(tree, id)
                           IN  IF \A p \in present : p > id THEN n = NIL
                               ELSE n \in present /\ n <= id /\ \A p \in present : p <= id => p <= n
=============================================================================
