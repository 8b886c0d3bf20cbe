---------------------------- MODULE DmrIoProofs ----------------------------
(***************************************************************************)
(* Proofs about the event loop (module DmrIo), for any addresses,          *)
(* descriptors, callbacks and registrations.                               *)
(***************************************************************************)
EXTENDS DmrIo, SequenceTheorems, TLAPS

\* Unlinking position i shifts what follows it down by one.
LEMMA RemoveAtProperties ==
    ASSUME NEW S, NEW s \in Seq(S), NEW i \in 1 .. Len(s)
    PROVE  /\ RemoveAt(s, i) \in Seq(S)
           /\ Len(RemoveAt(s, i)) = Len(s) - 1
           /\ \A j \in 1 .. Len(s) - 1 :
                RemoveAt(s, i)[j] = IF j < i THEN s[j] ELSE s[j + 1]
  <1> DEFINE a == SubSeq(s, 1, i - 1)
             b == SubSeq(s, i + 1, Len(s))
  <1>1. Len(s) \in Nat /\ DOMAIN s = 1 .. Len(s)
    OBVIOUS
  <1>2. /\ a \in Seq(S)
        /\ Len(a) = i - 1
        /\ \A j \in 1 .. i - 1 : a[j] = s[j]
    <2>1. \A j \in 1 .. i - 1 : s[j] \in S
      BY <1>1
    <2> QED
      BY <1>1, <2>1
  <1>3. /\ b \in Seq(S)
        /\ Len(b) = Len(s) - i
        /\ \A j \in 1 .. Len(s) - i : b[j] = s[i + j]
    <2>1. i + 1 \in Int /\ Len(s) \in Int /\ \A j \in i + 1 .. Len(s) : s[j] \in S
      BY <1>1
    <2>2. /\ b \in Seq(S)
          /\ Len(b) = IF i + 1 <= Len(s) THEN Len(s) - (i + 1) + 1 ELSE 0
          /\ \A j \in 1 .. Len(s) - (i + 1) + 1 : b[j] = s[(i + 1) + j - 1]
      BY <2>1, SubSeqProperties
    <2> HIDE DEF b
    <2>3. Len(b) = Len(s) - i
      BY <1>1, <2>2
    <2>4. ASSUME NEW j \in 1 .. Len(s) - i
          PROVE  b[j] = s[i + j]
      <3>1. j \in 1 .. Len(s) - (i + 1) + 1 /\ (i + 1) + j - 1 = i + j
        BY <1>1
      <3> QED
        BY <2>2, <3>1
    <2> QED
      BY <2>2, <2>3, <2>4
  <1>4. /\ a \o b \in Seq(S)
        /\ Len(a \o b) = Len(s) - 1
        /\ \A j \in 1 .. Len(s) - 1 :
                (a \o b)[j] = IF j < i THEN a[j] ELSE b[j - (i - 1)]
    <2> HIDE DEF a, b
    <2>1. /\ a \o b \in Seq(S)
          /\ Len(a \o b) = Len(a) + Len(b)
          /\ \A j \in 1 .. Len(a) + Len(b) :
                (a \o b)[j] = IF j <= Len(a) THEN a[j] ELSE b[j - Len(a)]
      BY <1>2, <1>3, ConcatProperties
    <2> QED
      BY <2>1, <1>1, <1>2, <1>3
  <1>5. RemoveAt(s, i) = a \o b
    BY DEF RemoveAt
  <1> HIDE DEF a, b
  <1>6. ASSUME NEW j \in 1 .. Len(s) - 1
        PROVE  (a \o b)[j] = IF j < i THEN s[j] ELSE s[j + 1]
    <2>1. CASE j < i
      BY <2>1, <1>1, <1>2, <1>4
    <2>2. CASE ~ (j < i)
      <3>1. j - (i - 1) \in 1 .. Len(s) - i /\ i + (j - (i - 1)) = j + 1
        BY <2>2, <1>1
      <3> QED
        BY <2>2, <3>1, <1>1, <1>3, <1>4
    <2> QED
      BY <2>1, <2>2
  <1> QED
    BY <1>4, <1>5, <1>6

\* Linking at the head shifts the whole list up by one.
LEMMA InsertHeadProperties ==
    ASSUME NEW S, NEW s \in Seq(S), NEW e \in S
    PROVE  /\ <<e>> \o s \in Seq(S)
           /\ Len(<<e>> \o s) = Len(s) + 1
           /\ (<<e>> \o s)[1] = e
           /\ \A j \in 1 .. Len(s) : (<<e>> \o s)[j + 1] = s[j]
  OBVIOUS

----------------------------------------------------------------------------
(***************************************************************************)
(* Types, and the count of entries.  The count may be any integer here;    *)
(* EntriesCounted is what makes it a natural number.  It is exact, and it  *)
(* is not the total of io.h:81: no close entry is part of it.              *)
(***************************************************************************)
Registered == Len(list["read"]) + Len(list["write"]) + Len(list["error"])
                + Len(list["signal"]) + Len(list["timer"])

EntriesCounted == pc # "freed" => entries = Registered

Types ==
    /\ list \in [Kind -> Seq(Entry)]
    /\ entries \in Int
    /\ fds \in [Watch -> SUBSET Fd]
    /\ todo \subseteq Fd \X Watch
    /\ walk \in [kind : Kind \ {"signal"}, fd : Fd \cup {0},
                 cur : Id \cup {Nil}, next : Id \cup {Nil}]

USE DEF Kind, Watch

\* The registrations that are counted, from the lengths of the lists.
Counted(h) == h["read"] + h["write"] + h["error"] + h["signal"] + h["timer"]

\* Their number changes by n when one of the lengths does.
LEMMA CountChanges ==
    ASSUME NEW f, NEW g, NEW k \in Kind, NEW n \in Int,
           \A c \in Kind : f[c] \in Int /\ g[c] = IF c = k THEN f[c] + n ELSE f[c]
    PROVE  Counted(g) = IF k = "close" THEN Counted(f) ELSE Counted(f) + n
  BY DEF Counted

\* Replacing one list by one whose length differs by n changes the number of
\* registrations by n, unless it is the list of close entries.
LEMMA OneListChanges ==
    ASSUME Types, NEW k \in Kind, NEW l \in Seq(Entry), NEW n \in Int,
           Len(l) = Len(list[k]) + n,
           list' = [list EXCEPT ![k] = l]
    PROVE  Registered' = IF k = "close" THEN Registered ELSE Registered + n
  <1> DEFINE f == [c \in Kind |-> Len(list[c])]
             g == [c \in Kind |-> Len(list'[c])]
  <1>1. f \in [Kind -> Int]
    BY DEF Types
  <1>2. \A c \in Kind : f[c] \in Int /\ g[c] = IF c = k THEN f[c] + n ELSE f[c]
    BY <1>1 DEF Types
  <1>3. Registered = Counted(f)
    BY DEF Registered, Counted
  <1>4. Registered' = Counted(g)
    BY DEF Registered, Counted
  <1> HIDE DEF f, g
  <1> QED
    BY <1>2, <1>3, <1>4, CountChanges

\* The address of an entry, or NULL, is a pointer.
LEMMA AtType ==
    ASSUME NEW l \in Seq(Entry), NEW i
    PROVE  At(l, i) \in Id \cup {Nil}
  <1>1. i \in DOMAIN l => l[i] \in Entry
    OBVIOUS
  <1> QED
    BY <1>1 DEF At, Entry

\* dmr_io_reg links a new entry at the head and counts it.
LEMMA RegCounts ==
    ASSUME Types, EntriesCounted, NEW r \in Regs, dmr_io_reg(r)
    PROVE  Types' /\ EntriesCounted'
  <1>1. PICK id \in Id :
            /\ list' = [list EXCEPT ![r.kind] =
                    <<[id |-> id, fd |-> r.fd, cb |-> r.cb, once |-> r.once]>> \o list[r.kind]]
            /\ entries' = entries + Counts(r.kind)
            /\ fds' = WatchAlso(r.kind, r.fd)
            /\ pc \in {"setup", "callback"}
            /\ pc' = pc /\ todo' = todo /\ walk' = walk
    BY DEF dmr_io_reg
  <1>2. r \in [kind : Kind, fd : Fd, cb : Cb, once : BOOLEAN]
    BY IoAssumption
  <1> DEFINE e == [id |-> id, fd |-> r.fd, cb |-> r.cb, once |-> r.once]
             l == <<e>> \o list[r.kind]
  <1>3. e \in Entry
    BY <1>2 DEF Entry
  <1>4. list[r.kind] \in Seq(Entry)
    BY <1>2 DEF Types
  <1>5. l \in Seq(Entry) /\ Len(l) = Len(list[r.kind]) + 1
    <2> HIDE DEF e
    <2> QED
      BY <1>3, <1>4, InsertHeadProperties
  <1>6. list' = [list EXCEPT ![r.kind] = l]
    BY <1>1
  <1> HIDE DEF l
  <1>7. Registered' = IF r.kind = "close" THEN Registered ELSE Registered + 1
    <2>1. r.kind \in Kind /\ 1 \in Int
      BY <1>2
    <2> QED
      BY <1>5, <1>6, <2>1, OneListChanges
  <1>8. Types'
    <2>1. list' \in [Kind -> Seq(Entry)]
      BY <1>2, <1>5, <1>6 DEF Types
    <2>2. fds' \in [Watch -> SUBSET Fd]
      BY <1>1, <1>2 DEF WatchAlso, Types
    <2> QED
      BY <1>1, <2>1, <2>2 DEF Types, Counts
  <1> QED
    BY <1>1, <1>7, <1>8 DEF EntriesCounted, Counts, Types

\* Unlinking any entry gives a list of entries one shorter.
LEMMA RemoveOne ==
    ASSUME Types, NEW k \in Kind, NEW i \in DOMAIN list[k],
           list' = [list EXCEPT ![k] = RemoveAt(list[k], i)]
    PROVE  /\ list' \in [Kind -> Seq(Entry)]
           /\ Registered' = IF k = "close" THEN Registered ELSE Registered - 1
  <1> DEFINE l == RemoveAt(list[k], i)
  <1>1. list[k] \in Seq(Entry) /\ i \in 1 .. Len(list[k]) /\ Len(list[k]) \in Nat
    BY DEF Types
  <1>2. l \in Seq(Entry) /\ Len(l) = Len(list[k]) - 1
    BY <1>1, RemoveAtProperties
  <1>3. list' = [list EXCEPT ![k] = l]
    OBVIOUS
  <1> HIDE DEF l
  <1>4. Len(l) = Len(list[k]) + (-1) /\ -1 \in Int
    BY <1>1, <1>2
  <1>5. Registered' = IF k = "close" THEN Registered ELSE Registered + (-1)
    BY <1>2, <1>3, <1>4, OneListChanges
  <1>6. Registered \in Int
    BY DEF Registered, Types
  <1> QED
    BY <1>2, <1>3, <1>5, <1>6 DEF Types

\* dmr_io_del unlinks what it found and counts it out.
LEMMA DelCounts ==
    ASSUME Types, EntriesCounted, NEW d \in Dels, dmr_io_del(d)
    PROVE  Types' /\ EntriesCounted'
  <1>1. PICK i \in DOMAIN list[d.kind] :
            /\ list' = [list EXCEPT ![d.kind] = RemoveAt(list[d.kind], i)]
            /\ entries' = entries - 1
            /\ fds' = Unwatch(d.kind, d.fd)
            /\ pc \in {"setup", "callback"}
            /\ pc' = pc /\ todo' = todo /\ walk' = walk
    BY DEF dmr_io_del
  <1>2. d.kind \in Watch \cup {"timer"}
    BY IoAssumption
  <1>3. /\ list' \in [Kind -> Seq(Entry)]
        /\ Registered' = Registered - 1
    BY <1>1, <1>2, RemoveOne
  <1>4. fds' \in [Watch -> SUBSET Fd]
    BY <1>1 DEF Unwatch, Types
  <1> QED
    BY <1>1, <1>3, <1>4 DEF Types, EntriesCounted

\* A signal's one-shot entry is counted out.
LEMMA SignalCounts ==
    ASSUME Types, EntriesCounted, NEW sig \in Fd, io_handle_signal(sig)
    PROVE  Types' /\ EntriesCounted'
  <1>1. PICK i \in DOMAIN list["signal"] :
            /\ pc \notin {"done", "freed", "undefined"}
            /\ IF list["signal"][i].once
               THEN /\ list' = [list EXCEPT !["signal"] = RemoveAt(list["signal"], i)]
                    /\ entries' = entries - 1
               ELSE UNCHANGED <<list, entries>>
            /\ UNCHANGED <<fds, due, pc, todo, walk>>
    BY DEF io_handle_signal
  <1>2. CASE list["signal"][i].once
    <2>1. /\ list' = [list EXCEPT !["signal"] = RemoveAt(list["signal"], i)]
          /\ entries' = entries - 1
      BY <1>1, <1>2
    <2>2. /\ list' \in [Kind -> Seq(Entry)]
          /\ Registered' = Registered - 1
      BY <2>1, RemoveOne
    <2> QED
      BY <1>1, <2>1, <2>2 DEF Types, EntriesCounted
  <1>3. CASE ~ list["signal"][i].once
    BY <1>1, <1>3 DEF Types, EntriesCounted, Registered
  <1> QED
    BY <1>2, <1>3

\* After a callback a one-shot entry is counted out, a close entry never was.
LEMMA ReturnCounts ==
    ASSUME Types, EntriesCounted, CallbackReturns
    PROVE  Types' /\ EntriesCounted'
  <1>1. pc = "callback" /\ pc' # "freed" /\ todo' = todo /\ walk.kind \in Kind \ {"signal"}
    BY DEF CallbackReturns, Types, Stops
  <1>2. CASE UNCHANGED <<list, entries, fds, walk>>
    BY <1>1, <1>2 DEF Types, EntriesCounted, Registered
  <1>3. CASE \E i \in DOMAIN list[walk.kind] :
             /\ IF list[walk.kind][i].once
                THEN /\ list' = [list EXCEPT ![walk.kind] = RemoveAt(list[walk.kind], i)]
                     /\ entries' = entries - Counts(walk.kind)
                     /\ fds' = Unwatch(ClearedSet(walk.kind), walk.fd)
                ELSE UNCHANGED <<list, entries, fds>>
             /\ walk' = NoWalk \/ walk' = [walk EXCEPT !.cur = Successor, !.next = Nil]
    <2>1. PICK i \in DOMAIN list[walk.kind] :
             /\ IF list[walk.kind][i].once
                THEN /\ list' = [list EXCEPT ![walk.kind] = RemoveAt(list[walk.kind], i)]
                     /\ entries' = entries - Counts(walk.kind)
                     /\ fds' = Unwatch(ClearedSet(walk.kind), walk.fd)
                ELSE UNCHANGED <<list, entries, fds>>
             /\ walk' = NoWalk \/ walk' = [walk EXCEPT !.cur = Successor, !.next = Nil]
      BY <1>3
    <2>2. walk' \in [kind : Kind \ {"signal"}, fd : Fd \cup {0},
                     cur : Id \cup {Nil}, next : Id \cup {Nil}]
      <3>1. NoWalk \in [kind : Kind \ {"signal"}, fd : Fd \cup {0},
                        cur : Id \cup {Nil}, next : Id \cup {Nil}]
        BY DEF NoWalk
      <3> QED
        BY <2>1, <3>1 DEF Types, Successor
    <2>3. CASE list[walk.kind][i].once
      <3>1. /\ list' = [list EXCEPT ![walk.kind] = RemoveAt(list[walk.kind], i)]
            /\ entries' = entries - Counts(walk.kind)
            /\ fds' = Unwatch(ClearedSet(walk.kind), walk.fd)
        BY <2>1, <2>3
      <3>2. /\ list' \in [Kind -> Seq(Entry)]
            /\ Registered' = IF walk.kind = "close" THEN Registered ELSE Registered - 1
        BY <1>1, <3>1, RemoveOne
      <3>3. fds' \in [Watch -> SUBSET Fd]
        BY <3>1 DEF Unwatch, Types
      <3> QED
        BY <1>1, <2>2, <3>1, <3>2, <3>3 DEF Types, EntriesCounted, Counts
    <2>4. CASE ~ list[walk.kind][i].once
      BY <1>1, <2>1, <2>2, <2>4 DEF Types, EntriesCounted, Registered
    <2> QED
      BY <2>3, <2>4
  <1> QED
    BY <1>2, <1>3 DEF CallbackReturns

\* The steps of the loop that only move it from one place to the next.
Moves == LoopTop \/ LoopSelect \/ LoopDispatch \/ WalkOn

\* They leave lists, count and descriptor sets alone.
LEMMA MovesKeepLists ==
    ASSUME Types, Moves
    PROVE  Types' /\ UNCHANGED <<list, entries, fds>> /\ pc # "freed" /\ pc' # "freed"
  <1>1. UNCHANGED <<list, entries, fds>> /\ pc # "freed" /\ pc' # "freed"
    BY DEF Moves, LoopTop, LoopSelect, LoopDispatch, WalkOn, Begin, EndOfWalk
  <1>2. \A k \in Kind : At(list[k], 1) \in Id \cup {Nil}
    BY AtType DEF Types
  <1>3. todo' \subseteq Fd \X Watch
    BY DEF Moves, LoopTop, LoopSelect, LoopDispatch, WalkOn, Types
  <1>4. walk' \in [kind : Kind \ {"signal"}, fd : Fd \cup {0},
                   cur : Id \cup {Nil}, next : Id \cup {Nil}]
    <2>1. CASE LoopTop
      BY <2>1, <1>2 DEF LoopTop, Begin, Types
    <2>2. CASE LoopSelect
      BY <2>2, <1>2 DEF LoopSelect, Begin, Types
    <2>3. CASE LoopDispatch
      BY <2>3, <1>2 DEF LoopDispatch, Begin, Types
    <2>4. CASE WalkOn
      <3>1. NoWalk \in [kind : Kind \ {"signal"}, fd : Fd \cup {0},
                        cur : Id \cup {Nil}, next : Id \cup {Nil}]
        BY DEF NoWalk
      <3>2. list[walk.kind] \in Seq(Entry)
        BY DEF Types
      <3>3. \/ walk' = walk
            \/ walk' = NoWalk
            \/ \E i \in DOMAIN list[walk.kind] :
                walk' = [walk EXCEPT !.cur = list[walk.kind][i].id,
                                     !.next = At(list[walk.kind], i + 1)]
        BY <2>4 DEF WalkOn
      <3>4. \A i \in DOMAIN list[walk.kind] :
                /\ list[walk.kind][i].id \in Id
                /\ At(list[walk.kind], i + 1) \in Id \cup {Nil}
        <4> SUFFICES ASSUME NEW i \in DOMAIN list[walk.kind]
                     PROVE  /\ list[walk.kind][i].id \in Id
                            /\ At(list[walk.kind], i + 1) \in Id \cup {Nil}
          OBVIOUS
        <4>1. list[walk.kind][i] \in Entry
          BY <3>2
        <4> QED
          BY <3>2, <4>1, AtType DEF Entry
      <3>5. ASSUME NEW c \in Id, NEW n \in Id \cup {Nil},
                   walk' = [walk EXCEPT !.cur = c, !.next = n]
            PROVE  walk' \in [kind : Kind \ {"signal"}, fd : Fd \cup {0},
                              cur : Id \cup {Nil}, next : Id \cup {Nil}]
        BY <3>5 DEF Types
      <3>6. CASE walk' = walk \/ walk' = NoWalk
        BY <3>1, <3>6 DEF Types
      <3> QED
        BY <3>3, <3>4, <3>5, <3>6
    <2> QED
      BY <2>1, <2>2, <2>3, <2>4 DEF Moves
  <1> QED
    BY <1>1, <1>3, <1>4 DEF Types

\* Every other step leaves everything but the flags, the due timers and the
\* place in the program alone.
LEMMA OthersKeepLists ==
    ASSUME Types, dmr_io_close \/ (\E id \in Id : TimerDue(id)) \/ dmr_io_loop \/ UNCHANGED vars
    PROVE  Types' /\ UNCHANGED <<list, entries, fds, walk>> /\ (pc # "freed" <=> pc' # "freed")
  BY DEF Types, dmr_io_close, TimerDue, dmr_io_loop, vars

\* The count is right at the start and every step keeps it so.
LEMMA CountStep == Types /\ EntriesCounted /\ [Next]_vars => Types' /\ EntriesCounted'
  <1> SUFFICES ASSUME Types, EntriesCounted, [Next]_vars
               PROVE  Types' /\ EntriesCounted'
    OBVIOUS
  <1>1. CASE \E r \in Regs : dmr_io_reg(r)
    BY <1>1, RegCounts
  <1>2. CASE \E d \in Dels : dmr_io_del(d)
    BY <1>2, DelCounts
  <1>3. CASE \E sig \in Fd : io_handle_signal(sig)
    BY <1>3, SignalCounts
  <1>4. CASE Moves
    BY <1>4, MovesKeepLists DEF EntriesCounted, Registered
  <1>5. CASE CallbackReturns
    BY <1>5, ReturnCounts
  <1>6. CASE dmr_io_free
    BY <1>6 DEF dmr_io_free, Types, EntriesCounted
  <1>7. CASE dmr_io_close \/ (\E id \in Id : TimerDue(id)) \/ dmr_io_loop \/ UNCHANGED vars
    BY <1>7, OthersKeepLists DEF EntriesCounted, Registered
  <1> QED
    BY <1>1, <1>2, <1>3, <1>4, <1>5, <1>6, <1>7 DEF Next, Loop, Moves

\* The initial state has no entries.
LEMMA InitCount == Init => Types /\ EntriesCounted
  BY DEF Init, Types, EntriesCounted, Registered, NoWalk

\* A sum of lengths is positive when one of the lists holds something.
LEMMA CountIsForWork ==
    Types /\ EntriesCounted => LoopRunsForWork
  <1> SUFFICES ASSUME Types, EntriesCounted, pc # "freed"
               PROVE  entries > 0 <=> \E k \in Kind \ {"close"} : list[k] # <<>>
    BY DEF LoopRunsForWork
  <1> DEFINE n == [k \in Kind |-> Len(list[k])]
  <1>1. \A k \in Kind : n[k] \in Nat /\ (n[k] > 0 <=> list[k] # <<>>)
    <2> SUFFICES ASSUME NEW k \in Kind
                 PROVE  n[k] \in Nat /\ (n[k] > 0 <=> list[k] # <<>>)
      OBVIOUS
    <2>1. list[k] \in Seq(Entry) /\ n[k] = Len(list[k])
      BY DEF Types
    <2> HIDE DEF n
    <2> QED
      BY <2>1, EmptySeq
  <1>2. entries = n["read"] + n["write"] + n["error"] + n["signal"] + n["timer"]
    BY DEF EntriesCounted, Registered
  <1> HIDE DEF n
  <1>3. Kind \ {"close"} = {"read", "write", "error", "signal", "timer"}
    OBVIOUS
  <1>4. entries > 0 <=> \E k \in {"read", "write", "error", "signal", "timer"} : n[k] > 0
    <2>1. n["read"] \in Nat /\ n["write"] \in Nat /\ n["error"] \in Nat
            /\ n["signal"] \in Nat /\ n["timer"] \in Nat
      BY <1>1
    <2>2. entries > 0 <=> \/ n["read"] > 0 \/ n["write"] > 0 \/ n["error"] > 0
                         \/ n["signal"] > 0 \/ n["timer"] > 0
      BY <1>2, <2>1
    <2> QED
      BY <2>2
  <1> QED
    BY <1>1, <1>3, <1>4

\* The loop runs exactly as long as something other than a close entry is
\* registered, whatever the callbacks register and delete and whenever signals
\* arrive; close entries alone never keep it waiting.
THEOREM LoopAlwaysRunsForWork == Spec => []LoopRunsForWork
  <1>1. Init => Types /\ EntriesCounted
    BY InitCount
  <1>2. Types /\ EntriesCounted /\ [Next]_vars => Types' /\ EntriesCounted'
    BY CountStep
  <1>3. Types /\ EntriesCounted => LoopRunsForWork
    BY CountIsForWork
  <1> QED
    BY <1>1, <1>2, <1>3, PTL DEF Spec

----------------------------------------------------------------------------
(***************************************************************************)
(* Pointers.  Until a callback frees the entry it was called for or the    *)
(* one saved as its successor, the entry the loop holds and the successor  *)
(* stay linked, whichever others are freed.  Saving the successor is not   *)
(* enough by itself: the entry must differ from it, which takes distinct   *)
(* addresses within a list.                                                *)
(***************************************************************************)
Distinct(l) == \A i, j \in DOMAIN l : l[i].id = l[j].id => i = j

HeldIsLinked ==
    /\ pc = "walk" => walk.cur \in Ids(list[walk.kind]) \cup {Nil}
    /\ pc = "callback" =>
        /\ walk.cur \in Ids(list[walk.kind])
        /\ walk.next \in Ids(list[walk.kind]) \cup {Nil}
        /\ walk.next # walk.cur
    /\ pc # "undefined"

WalkSafe ==
    /\ \A k \in Kind : Distinct(list[k])
    /\ cut \in BOOLEAN
    /\ ~ cut => HeldIsLinked

\* Linking a fresh address at the head keeps every address and distinctness.
LEMMA InsertKeepsIds ==
    ASSUME NEW s \in Seq(Entry), NEW e \in Entry
    PROVE  /\ Ids(s) \subseteq Ids(<<e>> \o s)
           /\ Distinct(s) /\ e.id \notin Ids(s) => Distinct(<<e>> \o s)
  <1> DEFINE r == <<e>> \o s
  <1>1. /\ r \in Seq(Entry)
        /\ Len(r) = Len(s) + 1
        /\ r[1] = e
        /\ \A j \in 1 .. Len(s) : r[j + 1] = s[j]
    BY InsertHeadProperties
  <1>2. DOMAIN s = 1 .. Len(s) /\ Len(s) \in Nat /\ DOMAIN r = 1 .. Len(r)
    BY <1>1
  <1> HIDE DEF r
  <1>3. \A j \in DOMAIN s : j + 1 \in DOMAIN r /\ r[j + 1] = s[j]
    BY <1>1, <1>2
  <1>4. \A j \in DOMAIN r : j = 1 \/ (j - 1 \in DOMAIN s /\ r[j] = s[j - 1])
    <2> SUFFICES ASSUME NEW j \in DOMAIN r, j # 1
                 PROVE  j - 1 \in DOMAIN s /\ r[j] = s[j - 1]
      OBVIOUS
    <2>1. j - 1 \in DOMAIN s /\ (j - 1) + 1 = j
      BY <1>1, <1>2
    <2> QED
      BY <1>3, <2>1
  <1>5. Ids(s) \subseteq Ids(r)
    BY <1>3 DEF Ids
  <1>6. ASSUME Distinct(s), e.id \notin Ids(s), NEW i \in DOMAIN r, NEW j \in DOMAIN r,
               r[i].id = r[j].id
        PROVE  i = j
    <2>1. CASE i = 1 /\ j # 1
      BY <1>1, <1>4, <1>6, <2>1 DEF Ids
    <2>2. CASE j = 1 /\ i # 1
      BY <1>1, <1>4, <1>6, <2>2 DEF Ids
    <2>3. CASE i # 1 /\ j # 1
      <3>1. i - 1 = j - 1
        BY <1>4, <1>6, <2>3 DEF Distinct
      <3> QED
        BY <1>2, <3>1
    <2> QED
      BY <2>1, <2>2, <2>3
  <1>7. Distinct(s) /\ e.id \notin Ids(s) => Distinct(r)
    BY <1>6 DEF Distinct
  <1> QED
    BY <1>5, <1>7 DEF r

\* Unlinking an entry keeps every other address and distinctness.
LEMMA RemoveKeepsIds ==
    ASSUME NEW s \in Seq(Entry), NEW i \in DOMAIN s
    PROVE  /\ Ids(s) \ {s[i].id} \subseteq Ids(RemoveAt(s, i))
           /\ Distinct(s) => Distinct(RemoveAt(s, i))
  <1> DEFINE r == RemoveAt(s, i)
             Old(j) == IF j < i THEN j ELSE j + 1
  <1>1. DOMAIN s = 1 .. Len(s) /\ Len(s) \in Nat /\ i \in 1 .. Len(s)
    OBVIOUS
  <1>2. /\ r \in Seq(Entry)
        /\ Len(r) = Len(s) - 1
        /\ \A j \in 1 .. Len(s) - 1 : r[j] = IF j < i THEN s[j] ELSE s[j + 1]
    BY <1>1, RemoveAtProperties
  <1> HIDE DEF r
  <1>3. DOMAIN r = 1 .. Len(s) - 1
    BY <1>2
  <1>4. \A j \in DOMAIN r : Old(j) \in DOMAIN s /\ r[j] = s[Old(j)]
    BY <1>1, <1>2, <1>3
  <1>5. \A j, k \in DOMAIN r : Old(j) = Old(k) => j = k
    BY <1>1, <1>3
  <1>6. \A j \in DOMAIN s \ {i} : \E k \in DOMAIN r : Old(k) = j
    <2> SUFFICES ASSUME NEW j \in DOMAIN s, j # i
                 PROVE  \E k \in DOMAIN r : Old(k) = j
      OBVIOUS
    <2>1. CASE j < i
      <3>1. j \in DOMAIN r /\ Old(j) = j
        BY <1>1, <1>3, <2>1
      <3> QED
        BY <3>1
    <2>2. CASE ~ (j < i)
      <3>1. j - 1 \in DOMAIN r /\ Old(j - 1) = j
        BY <1>1, <1>3, <2>2
      <3> QED
        BY <3>1
    <2> QED
      BY <2>1, <2>2
  <1> HIDE DEF Old
  <1>7. Ids(s) \ {s[i].id} \subseteq Ids(r)
    BY <1>4, <1>6 DEF Ids
  <1>8. Distinct(s) => Distinct(r)
    BY <1>4, <1>5 DEF Distinct
  <1> QED
    BY <1>7, <1>8 DEF r

\* A registration neither frees an address nor reuses one the walk holds.
LEMMA RegSafe ==
    ASSUME Types, WalkSafe, NEW r \in Regs, dmr_io_reg(r)
    PROVE  WalkSafe'
  <1>1. PICK id \in Id \ (Live \cup {walk.cur, walk.next}) :
            /\ list' = [list EXCEPT ![r.kind] =
                    <<[id |-> id, fd |-> r.fd, cb |-> r.cb, once |-> r.once]>> \o list[r.kind]]
            /\ pc' = pc /\ walk' = walk /\ cut' = cut
    BY DEF dmr_io_reg
  <1>2. r \in [kind : Kind, fd : Fd, cb : Cb, once : BOOLEAN]
    BY IoAssumption
  <1> DEFINE e == [id |-> id, fd |-> r.fd, cb |-> r.cb, once |-> r.once]
  <1>3. e \in Entry /\ e.id = id
    BY <1>2 DEF Entry
  <1>4. list[r.kind] \in Seq(Entry) /\ id \notin Ids(list[r.kind]) /\ r.kind \in Kind
    BY <1>1, <1>2 DEF Types, Live
  <1>5. /\ Ids(list[r.kind]) \subseteq Ids(<<e>> \o list[r.kind])
        /\ Distinct(list[r.kind]) => Distinct(<<e>> \o list[r.kind])
    <2> HIDE DEF e
    <2> QED
      BY <1>3, <1>4, InsertKeepsIds
  <1>6. list' = [list EXCEPT ![r.kind] = <<e>> \o list[r.kind]]
    BY <1>1
  <1> HIDE DEF e
  <1>7. \A k \in Kind : Distinct(list'[k]) /\ Ids(list[k]) \subseteq Ids(list'[k])
    BY <1>4, <1>5, <1>6 DEF Types, WalkSafe
  <1>8. walk.kind \in Kind
    BY DEF Types
  <1> QED
    BY <1>1, <1>7, <1>8 DEF WalkSafe, HeldIsLinked

\* Unlinking an entry, of whichever list, cannot touch the walk as long as it is
\* neither the one held nor its saved successor.
LEMMA RemoveSafe ==
    ASSUME Types, WalkSafe, NEW k \in Kind, NEW i \in DOMAIN list[k],
           list' = [list EXCEPT ![k] = RemoveAt(list[k], i)],
           pc' = pc, walk' = walk, cut' \in BOOLEAN,
           cut => cut',
           ~ cut' /\ k = walk.kind =>
                pc # "walk" /\ (pc = "callback" => list[k][i].id \notin {walk.cur, walk.next})
    PROVE  WalkSafe'
  <1>1. list[k] \in Seq(Entry) /\ walk.kind \in Kind
    BY DEF Types
  <1>2. /\ Ids(list[k]) \ {list[k][i].id} \subseteq Ids(RemoveAt(list[k], i))
        /\ Distinct(list[k]) => Distinct(RemoveAt(list[k], i))
    BY <1>1, RemoveKeepsIds
  <1>3. list'[k] = RemoveAt(list[k], i) /\ \A c \in Kind \ {k} : list'[c] = list[c]
    BY DEF Types
  <1>4. \A c \in Kind : Distinct(list'[c])
    BY <1>2, <1>3 DEF WalkSafe
  <1>5. ASSUME ~ cut'
        PROVE  HeldIsLinked'
    <2>1. HeldIsLinked
      BY <1>5 DEF WalkSafe
    <2>2. CASE k = walk.kind
      BY <1>2, <1>3, <1>5, <2>1, <2>2 DEF HeldIsLinked
    <2>3. CASE k # walk.kind
      BY <1>1, <1>3, <2>1, <2>3 DEF HeldIsLinked
    <2> QED
      BY <2>2, <2>3
  <1> QED
    BY <1>4, <1>5 DEF WalkSafe

\* After the callback the entry is still linked, if the walk was not cut;
\* unlinking it keeps the saved successor, which the walk goes on with.
LEMMA ReturnSafe ==
    ASSUME Types, WalkSafe, CallbackReturns
    PROVE  WalkSafe'
  <1> DEFINE k == walk.kind
             l == list[k]
  <1>1. pc = "callback" /\ k \in Kind /\ l \in Seq(Entry) /\ cut' = cut
    BY DEF CallbackReturns, Types
  <1>2. \/ list' = list
        \/ \E i \in DOMAIN l : list' = [list EXCEPT ![k] = RemoveAt(l, i)]
    BY DEF CallbackReturns
  <1>3. \A c \in Kind : Distinct(list'[c])
    <2>1. CASE list' = list
      BY <2>1 DEF WalkSafe
    <2>2. CASE \E i \in DOMAIN l : list' = [list EXCEPT ![k] = RemoveAt(l, i)]
      <3>1. PICK i \in DOMAIN l : list' = [list EXCEPT ![k] = RemoveAt(l, i)]
        BY <2>2
      <3>2. list'[k] = RemoveAt(l, i) /\ \A c \in Kind \ {k} : list'[c] = list[c]
        BY <1>1, <3>1 DEF Types
      <3>3. Distinct(l)
        BY <1>1 DEF WalkSafe
      <3>4. Distinct(RemoveAt(l, i))
        <4>1. Distinct(l) => Distinct(RemoveAt(l, i))
          BY <1>1, RemoveKeepsIds
        <4> QED
          BY <3>3, <4>1
      <3>5. \A c \in Kind \ {k} : Distinct(list[c])
        BY DEF WalkSafe
      <3> HIDE DEF k, l
      <3> QED
        BY <3>2, <3>4, <3>5
    <2> QED
      BY <1>2, <2>1, <2>2
  <1>4. ASSUME ~ cut
        PROVE  HeldIsLinked'
    <2>1. walk.cur \in Ids(l) /\ walk.next \in Ids(l) \cup {Nil} /\ walk.next # walk.cur
      BY <1>1, <1>4 DEF WalkSafe, HeldIsLinked
    <2>2. PICK i \in DOMAIN l :
              /\ l[i].id = walk.cur
              /\ IF l[i].once
                 THEN list' = [list EXCEPT ![k] = RemoveAt(l, i)]
                 ELSE list' = list
              /\ \/ pc' = "dispatch"
                 \/ pc' = "walk" /\ walk' = [walk EXCEPT !.cur = Successor, !.next = Nil]
      BY <2>1 DEF CallbackReturns
    <2>3. walk.next \in Ids(list'[k]) \cup {Nil}
      <3>1. Ids(l) \ {walk.cur} \subseteq Ids(RemoveAt(l, i))
        <4>1. Ids(l) \ {l[i].id} \subseteq Ids(RemoveAt(l, i))
          BY <1>1, RemoveKeepsIds
        <4> QED
          BY <2>2, <4>1
      <3>2. CASE list' = list
        BY <2>1, <3>2
      <3>3. CASE list' = [list EXCEPT ![k] = RemoveAt(l, i)]
        <4>1. list'[k] = RemoveAt(l, i)
          BY <1>1, <3>3 DEF Types
        <4> QED
          BY <2>1, <3>1, <4>1
      <3> QED
        BY <2>2, <3>2, <3>3
    <2>4. pc' = "walk" => walk'.kind = k /\ walk'.cur = walk.next
      BY <2>2 DEF Types, Successor
    <2> HIDE DEF k, l
    <2> QED
      BY <2>2, <2>3, <2>4 DEF HeldIsLinked
  <1> QED
    BY <1>1, <1>3, <1>4 DEF WalkSafe

\* A walk that starts at the head, or that goes on to an entry it found, holds
\* only linked entries.
LEMMA MovesSafe ==
    ASSUME Types, WalkSafe, Moves
    PROVE  WalkSafe'
  <1>1. UNCHANGED list
    BY DEF Moves, LoopTop, LoopSelect, LoopDispatch, WalkOn
  <1>2. \A k \in Kind : At(list[k], 1) \in Ids(list[k]) \cup {Nil}
    BY DEF At, Ids
  <1>3. CASE LoopTop
    <2>1. CASE LoopAgain
      <3>1. pc' = "select" /\ cut' = cut
        BY <1>3, <2>1 DEF LoopTop
      <3> QED
        BY <1>1, <3>1 DEF WalkSafe, HeldIsLinked
    <2>2. CASE ~ LoopAgain
      <3>1. Begin("close", 0) /\ "close" \in Kind
        BY <1>3, <2>2 DEF LoopTop
      <3> QED
        BY <1>1, <1>2, <3>1 DEF Begin, WalkSafe, HeldIsLinked
    <2> QED
      BY <2>1, <2>2
  <1>4. CASE LoopSelect
    BY <1>1, <1>2, <1>4 DEF LoopSelect, Begin, WalkSafe, HeldIsLinked
  <1>5. CASE LoopDispatch
    <2>1. CASE todo = {}
      BY <1>1, <1>5, <2>1 DEF LoopDispatch, WalkSafe, HeldIsLinked
    <2>2. CASE todo # {}
      <3>1. PICK t \in todo : Begin(t[2], t[1])
        BY <1>5, <2>2 DEF LoopDispatch
      <3>2. t[2] \in Kind
        BY DEF Types
      <3> QED
        BY <1>1, <1>2, <3>1, <3>2 DEF Begin, WalkSafe, HeldIsLinked
    <2> QED
      BY <2>1, <2>2
  <1>6. CASE WalkOn /\ cut
    BY <1>1, <1>6 DEF WalkOn, WalkSafe
  <1>7. CASE WalkOn /\ ~ cut
    <2> DEFINE l == list[walk.kind]
    <2>1. pc = "walk" /\ walk.cur \in Ids(l) \cup {Nil} /\ l \in Seq(Entry) /\ Distinct(l)
      BY <1>7 DEF WalkOn, WalkSafe, HeldIsLinked, Types
    <2>2. CASE EndOfWalk
      BY <1>1, <1>7, <2>2 DEF EndOfWalk, WalkOn, WalkSafe, HeldIsLinked
    <2>3. CASE ~ EndOfWalk
      <3>1. PICK i \in DOMAIN l :
                /\ pc' = "callback"
                /\ walk' = [walk EXCEPT !.cur = l[i].id, !.next = At(l, i + 1)]
        BY <1>7, <2>1, <2>3 DEF WalkOn
      <3>2. walk'.kind = walk.kind /\ walk'.cur = l[i].id /\ walk'.next = At(l, i + 1)
        BY <3>1 DEF Types
      <3>3. l[i].id \in Ids(l) /\ l[i].id \in Id /\ i \in Nat
        <4>1. l[i] \in Entry /\ i \in 1 .. Len(l)
          BY <2>1
        <4> QED
          BY <4>1 DEF Ids, Entry
      <3>4. At(l, i + 1) \in Ids(l) \cup {Nil}
        BY DEF At, Ids
      <3>5. At(l, i + 1) # l[i].id
        <4>1. CASE i + 1 \in DOMAIN l
          <5>1. i + 1 # i
            BY <3>3
          <5> QED
            BY <2>1, <4>1, <5>1 DEF At, Distinct
        <4>2. CASE i + 1 \notin DOMAIN l
          BY <3>3, <4>2, IoAssumption DEF At
        <4> QED
          BY <4>1, <4>2
      <3> HIDE DEF l
      <3>6. l = list'[walk'.kind]
        BY <1>1, <3>2 DEF l
      <3>7. cut' = cut
        BY <1>7 DEF WalkOn
      <3> QED
        BY <1>1, <3>1, <3>2, <3>3, <3>4, <3>5, <3>6, <3>7 DEF WalkSafe, HeldIsLinked
    <2> QED
      BY <2>2, <2>3
  <1> QED
    BY <1>3, <1>4, <1>5, <1>6, <1>7 DEF Moves

\* Every step keeps the walk safe, until a callback cuts it.
LEMMA SafeStep == Types /\ WalkSafe /\ [Next]_vars => WalkSafe'
  <1> SUFFICES ASSUME Types, WalkSafe, [Next]_vars
               PROVE  WalkSafe'
    OBVIOUS
  <1>1. CASE \E r \in Regs : dmr_io_reg(r)
    BY <1>1, RegSafe
  <1>2. CASE \E d \in Dels : dmr_io_del(d)
    <2>1. PICK d \in Dels : dmr_io_del(d)
      BY <1>2
    <2>2. d.kind \in Kind
      BY IoAssumption
    <2>3. PICK i \in DOMAIN list[d.kind] :
            /\ list' = [list EXCEPT ![d.kind] = RemoveAt(list[d.kind], i)]
            /\ pc' = pc /\ walk' = walk
            /\ pc \in {"setup", "callback"}
            /\ cut' = (cut \/ Cuts(d.kind, list[d.kind][i].id))
      BY <2>1 DEF dmr_io_del
    <2>4. cut \in BOOLEAN
      BY DEF WalkSafe
    <2>5. cut' \in BOOLEAN /\ (cut => cut')
      BY <2>3, <2>4
    <2>6. ~ cut' => ~ Cuts(d.kind, list[d.kind][i].id)
      BY <2>3, <2>4
    <2>7. ~ cut' /\ d.kind = walk.kind =>
            pc # "walk"
            /\ (pc = "callback" => list[d.kind][i].id \notin {walk.cur, walk.next})
      BY <2>3, <2>6 DEF Cuts
    <2> QED
      BY <2>2, <2>3, <2>5, <2>7, RemoveSafe
  <1>3. CASE \E sig \in Fd : io_handle_signal(sig)
    <2>1. PICK i \in DOMAIN list["signal"] :
            /\ \/ list' = [list EXCEPT !["signal"] = RemoveAt(list["signal"], i)]
               \/ list' = list
            /\ pc' = pc /\ walk' = walk /\ cut' = cut
      BY <1>3 DEF io_handle_signal
    <2>2. CASE list' = list
      BY <2>1, <2>2 DEF WalkSafe, HeldIsLinked
    <2>3. CASE list' = [list EXCEPT !["signal"] = RemoveAt(list["signal"], i)]
      <3>1. walk.kind # "signal" /\ "signal" \in Kind
        BY DEF Types
      <3> QED
        BY <2>1, <2>3, <3>1, RemoveSafe DEF WalkSafe
    <2> QED
      BY <2>1, <2>2, <2>3
  <1>4. CASE Moves
    BY <1>4, MovesSafe
  <1>5. CASE CallbackReturns
    BY <1>5, ReturnSafe
  <1>6. CASE dmr_io_free
    BY <1>6 DEF dmr_io_free, WalkSafe, HeldIsLinked, Distinct
  <1>7. CASE dmr_io_close \/ (\E id \in Id : TimerDue(id)) \/ dmr_io_loop \/ UNCHANGED vars
    BY <1>7 DEF dmr_io_close, TimerDue, dmr_io_loop, vars, WalkSafe, HeldIsLinked
  <1> QED
    BY <1>1, <1>2, <1>3, <1>4, <1>5, <1>6, <1>7 DEF Next, Loop, Moves

\* Whenever the loop follows a freed entry, a callback of that walk has freed the
\* entry it was called for or its saved successor: however many entries share a
\* descriptor, no other deletion, registration or signal can bring it there.
THEOREM OnlyCutWalksDangle == Spec => []DanglingOnlyIfCut
  <1>1. Init => Types /\ EntriesCounted /\ WalkSafe
    <2>1. Init => WalkSafe
      <3> SUFFICES ASSUME Init
                   PROVE  WalkSafe
        OBVIOUS
      <3>1. pc = "setup" /\ cut = FALSE /\ \A k \in Kind : list[k] = <<>>
        BY DEF Init
      <3>2. \A k \in Kind : Distinct(list[k])
        BY <3>1 DEF Distinct
      <3> QED
        BY <3>1, <3>2 DEF WalkSafe, HeldIsLinked
    <2> QED
      BY <2>1, InitCount
  <1>2. Types /\ EntriesCounted /\ WalkSafe /\ [Next]_vars
            => Types' /\ EntriesCounted' /\ WalkSafe'
    BY CountStep, SafeStep
  <1>3. WalkSafe => DanglingOnlyIfCut
    BY DEF WalkSafe, HeldIsLinked, DanglingOnlyIfCut
  <1> QED
    BY <1>1, <1>2, <1>3, PTL DEF Spec

----------------------------------------------------------------------------
(***************************************************************************)
(* The descriptor sets.  Whatever is cleared from a set is the descriptor  *)
(* of the entry that is unlinked: for a deletion because the entry was     *)
(* found by it, for a one-shot entry because the walk is one over the      *)
(* entries of that descriptor.  The second needs the entry the loop holds  *)
(* to be the only one at its address, which freed addresses that callbacks *)
(* reuse do not endanger; callbacks may delete from any list here.         *)
(***************************************************************************)
FdsOf(l) == {l[i].fd : i \in DOMAIN l}

HeldServes ==
    pc = "callback" /\ walk.kind \in Watch =>
        \A i \in DOMAIN list[walk.kind] :
            list[walk.kind][i].id = walk.cur => list[walk.kind][i].fd = walk.fd

FdInv ==
    /\ \A k \in Kind : Distinct(list[k])
    /\ HeldServes
    /\ WatchedFdsHaveEntries

\* Linking at the head adds the new entry and nothing else.
LEMMA InsertElements ==
    ASSUME NEW s \in Seq(Entry), NEW e \in Entry
    PROVE  /\ \A j \in DOMAIN (<<e>> \o s) :
                (<<e>> \o s)[j] = e \/ \E m \in DOMAIN s : (<<e>> \o s)[j] = s[m]
           /\ FdsOf(<<e>> \o s) = FdsOf(s) \cup {e.fd}
  <1> DEFINE r == <<e>> \o s
  <1>1. /\ r \in Seq(Entry)
        /\ Len(r) = Len(s) + 1
        /\ r[1] = e
        /\ \A j \in 1 .. Len(s) : r[j + 1] = s[j]
    BY InsertHeadProperties
  <1> HIDE DEF r
  <1>2. DOMAIN s = 1 .. Len(s) /\ Len(s) \in Nat /\ DOMAIN r = 1 .. Len(s) + 1
    BY <1>1
  <1>3. \A j \in DOMAIN s : j + 1 \in DOMAIN r /\ r[j + 1] = s[j]
    BY <1>1, <1>2
  <1>4. ASSUME NEW j \in DOMAIN r, j # 1
        PROVE  \E m \in DOMAIN s : r[j] = s[m]
    <2>1. j - 1 \in DOMAIN s /\ (j - 1) + 1 = j
      BY <1>2, <1>4
    <2> QED
      BY <1>3, <2>1
  <1>5. 1 \in DOMAIN r
    BY <1>2
  <1>6. FdsOf(r) = FdsOf(s) \cup {e.fd}
    <2>1. \A m \in DOMAIN s : s[m].fd \in FdsOf(r)
      BY <1>3 DEF FdsOf
    <2>2. e.fd \in FdsOf(r)
      BY <1>1, <1>5 DEF FdsOf
    <2>3. \A j \in DOMAIN r : r[j].fd \in FdsOf(s) \cup {e.fd}
      BY <1>1, <1>4 DEF FdsOf
    <2> QED
      BY <2>1, <2>2, <2>3 DEF FdsOf
  <1> QED
    BY <1>1, <1>4, <1>6 DEF r

\* Unlinking takes out the entry at that position and nothing else.
LEMMA RemoveElements ==
    ASSUME NEW s \in Seq(Entry), NEW i \in DOMAIN s
    PROVE  /\ \A j \in DOMAIN RemoveAt(s, i) : \E m \in DOMAIN s : RemoveAt(s, i)[j] = s[m]
           /\ FdsOf(s) \ {s[i].fd} \subseteq FdsOf(RemoveAt(s, i))
  <1> DEFINE r == RemoveAt(s, i)
  <1>1. DOMAIN s = 1 .. Len(s) /\ Len(s) \in Nat /\ i \in 1 .. Len(s)
    OBVIOUS
  <1>2. /\ r \in Seq(Entry)
        /\ Len(r) = Len(s) - 1
        /\ \A j \in 1 .. Len(s) - 1 : r[j] = IF j < i THEN s[j] ELSE s[j + 1]
    BY <1>1, RemoveAtProperties
  <1> HIDE DEF r
  <1>3. DOMAIN r = 1 .. Len(s) - 1
    BY <1>2
  <1>4. ASSUME NEW j \in DOMAIN r
        PROVE  \E m \in DOMAIN s : r[j] = s[m]
    <2>1. j \in DOMAIN s /\ j + 1 \in DOMAIN s
      BY <1>1, <1>3
    <2> QED
      BY <1>2, <1>3, <2>1
  <1>5. ASSUME NEW m \in DOMAIN s, m # i
        PROVE  \E j \in DOMAIN r : r[j] = s[m]
    <2>1. CASE m < i
      <3>1. m \in DOMAIN r /\ r[m] = s[m]
        BY <1>1, <1>2, <1>3, <2>1
      <3> QED
        BY <3>1
    <2>2. CASE ~ (m < i)
      <3>1. m - 1 \in DOMAIN r /\ ~ (m - 1 < i) /\ (m - 1) + 1 = m
        BY <1>1, <1>3, <1>5, <2>2
      <3>2. r[m - 1] = s[m]
        BY <1>2, <1>3, <3>1
      <3> QED
        BY <3>1, <3>2
    <2> QED
      BY <2>1, <2>2
  <1>6. FdsOf(s) \ {s[i].fd} \subseteq FdsOf(r)
    BY <1>5 DEF FdsOf
  <1> QED
    BY <1>4, <1>6 DEF r

\* A registration watches the descriptor of the entry it links.
LEMMA RegWatches ==
    ASSUME Types, FdInv, NEW r \in Regs, dmr_io_reg(r)
    PROVE  FdInv'
  <1>1. PICK id \in Id \ (Live \cup {walk.cur, walk.next}) :
            /\ list' = [list EXCEPT ![r.kind] =
                    <<[id |-> id, fd |-> r.fd, cb |-> r.cb, once |-> r.once]>> \o list[r.kind]]
            /\ fds' = WatchAlso(r.kind, r.fd)
            /\ pc \in {"setup", "callback"} /\ pc' = pc /\ walk' = walk
    BY DEF dmr_io_reg
  <1>2. r \in [kind : Kind, fd : Fd, cb : Cb, once : BOOLEAN]
    BY IoAssumption
  <1> DEFINE e == [id |-> id, fd |-> r.fd, cb |-> r.cb, once |-> r.once]
             k == r.kind
             l == <<e>> \o list[k]
  <1>3. e \in Entry /\ e.id = id /\ e.fd = r.fd
    BY <1>2 DEF Entry
  <1>4. list[k] \in Seq(Entry) /\ id \notin Ids(list[k]) /\ id # walk.cur /\ k \in Kind
    BY <1>1, <1>2 DEF Types, Live
  <1>5. list' = [list EXCEPT ![k] = l]
    BY <1>1
  <1>6. /\ Distinct(list[k]) => Distinct(l)
        /\ \A j \in DOMAIN l : l[j] = e \/ \E m \in DOMAIN list[k] : l[j] = list[k][m]
        /\ FdsOf(l) = FdsOf(list[k]) \cup {r.fd}
    <2> HIDE DEF e, k
    <2> QED
      BY <1>3, <1>4, InsertKeepsIds, InsertElements
  <1> HIDE DEF e, k, l
  <1>7. list'[k] = l /\ \A c \in Kind \ {k} : list'[c] = list[c]
    BY <1>4, <1>5 DEF Types
  <1>8. \A c \in Kind : Distinct(list'[c])
    BY <1>6, <1>7 DEF FdInv
  <1>9. HeldServes'
    <2> SUFFICES ASSUME pc = "callback", walk.kind \in Watch,
                        NEW i \in DOMAIN list'[walk.kind], list'[walk.kind][i].id = walk.cur
                 PROVE  list'[walk.kind][i].fd = walk.fd
      BY <1>1 DEF HeldServes
    <2>1. \E m \in DOMAIN list[walk.kind] : list'[walk.kind][i] = list[walk.kind][m]
      BY <1>3, <1>4, <1>6, <1>7
    <2> QED
      BY <2>1 DEF FdInv, HeldServes
  <1>10. WatchedFdsHaveEntries'
    <2>1. \A c \in {"read", "write"} : fds[c] \subseteq FdsOf(list[c])
      BY <1>1 DEF FdInv, WatchedFdsHaveEntries, FdsOf
    <2>2. \A c \in {"read", "write"} : fds'[c] = IF c = k THEN fds[c] \cup {r.fd} ELSE fds[c]
      BY <1>1 DEF WatchAlso, Types, k
    <2>3. \A c \in {"read", "write"} : fds'[c] \subseteq FdsOf(list'[c])
      BY <1>6, <1>7, <2>1, <2>2
    <2> QED
      BY <2>3 DEF WatchedFdsHaveEntries, FdsOf
  <1> QED
    BY <1>8, <1>9, <1>10 DEF FdInv

\* Unlinking an entry is safe when at most its own descriptor leaves its own set;
\* where the loop is does not matter as long as it does not begin a callback.
LEMMA RemoveWatches ==
    ASSUME Types, FdInv, pc # "freed", NEW k \in Kind, NEW i \in DOMAIN list[k],
           list' = [list EXCEPT ![k] = RemoveAt(list[k], i)],
           \A c \in {"read", "write"} :
                fds'[c] \subseteq IF c = k THEN fds[c] \ {list[k][i].fd} ELSE fds[c],
           pc' = "callback" => pc = "callback" /\ walk' = walk
    PROVE  FdInv'
  <1> DEFINE l == RemoveAt(list[k], i)
  <1>1. list[k] \in Seq(Entry)
    BY DEF Types
  <1>2. /\ Distinct(list[k]) => Distinct(l)
        /\ \A j \in DOMAIN l : \E m \in DOMAIN list[k] : l[j] = list[k][m]
        /\ FdsOf(list[k]) \ {list[k][i].fd} \subseteq FdsOf(l)
    BY <1>1, RemoveKeepsIds, RemoveElements
  <1>3. list'[k] = l /\ \A c \in Kind \ {k} : list'[c] = list[c]
    BY DEF Types
  <1> HIDE DEF l
  <1>4. \A c \in Kind : Distinct(list'[c])
    BY <1>2, <1>3 DEF FdInv
  <1>5. HeldServes'
    <2> SUFFICES ASSUME pc = "callback", walk' = walk, walk.kind \in Watch,
                        NEW j \in DOMAIN list'[walk.kind], list'[walk.kind][j].id = walk.cur
                 PROVE  list'[walk.kind][j].fd = walk.fd
      BY DEF HeldServes
    <2>1. \E m \in DOMAIN list[walk.kind] : list'[walk.kind][j] = list[walk.kind][m]
      BY <1>2, <1>3
    <2> QED
      BY <2>1 DEF FdInv, HeldServes
  <1>6. \A c \in {"read", "write"} : fds[c] \subseteq FdsOf(list[c])
    BY DEF FdInv, WatchedFdsHaveEntries, FdsOf
  <1>7. \A c \in {"read", "write"} : fds'[c] \subseteq FdsOf(list'[c])
    BY <1>2, <1>3, <1>6
  <1>8. WatchedFdsHaveEntries'
    BY <1>7 DEF WatchedFdsHaveEntries, FdsOf
  <1> QED
    BY <1>4, <1>5, <1>8 DEF FdInv

\* dmr_io_del clears the descriptor by which it found the entry.
LEMMA DelWatches ==
    ASSUME Types, FdInv, NEW d \in Dels, dmr_io_del(d)
    PROVE  FdInv'
  <1>1. PICK i \in DOMAIN list[d.kind] :
            /\ Found(d, i)
            /\ list' = [list EXCEPT ![d.kind] = RemoveAt(list[d.kind], i)]
            /\ fds' = Unwatch(d.kind, d.fd)
            /\ pc \in {"setup", "callback"} /\ pc' = pc /\ walk' = walk
    BY DEF dmr_io_del
  <1>2. d.kind \in Watch \cup {"timer"}
    BY IoAssumption
  <1>3. d.kind \in Watch => list[d.kind][i].fd = d.fd
    BY <1>1 DEF Found
  <1>4. \A c \in {"read", "write"} :
            fds'[c] \subseteq IF c = d.kind THEN fds[c] \ {list[d.kind][i].fd} ELSE fds[c]
    BY <1>1, <1>2, <1>3 DEF Unwatch, Types
  <1> QED
    BY <1>1, <1>2, <1>4, RemoveWatches

\* A one-shot entry's descriptor leaves the set; for an error entry it leaves the
\* set of writers, which only makes that set smaller.
LEMMA ReturnWatches ==
    ASSUME Types, FdInv, CallbackReturns
    PROVE  FdInv'
  <1> DEFINE k == walk.kind
  <1>1. pc = "callback" /\ k \in Kind \ {"signal"}
    BY DEF CallbackReturns, Types
  <1>2. pc' \in {"undefined", "dispatch", "walk"}
    BY DEF CallbackReturns
  <1>3. CASE UNCHANGED <<list, fds>>
    BY <1>1, <1>2, <1>3 DEF FdInv, HeldServes, WatchedFdsHaveEntries
  <1>4. CASE ~ UNCHANGED <<list, fds>>
    <2>1. PICK i \in DOMAIN list[k] :
             /\ list[k][i].id = walk.cur
             /\ list' = [list EXCEPT ![k] = RemoveAt(list[k], i)]
             /\ fds' = Unwatch(ClearedSet(k), walk.fd)
      BY <1>4 DEF CallbackReturns
    <2>2. k \in Watch => list[k][i].fd = walk.fd
      BY <1>1, <2>1 DEF FdInv, HeldServes
    <2>3. \A c \in {"read", "write"} :
              fds'[c] \subseteq IF c = k THEN fds[c] \ {list[k][i].fd} ELSE fds[c]
      <3>1. CASE k = "error"
        BY <2>1, <3>1 DEF Unwatch, ClearedSet, Types
      <3>2. CASE k # "error"
        BY <1>1, <2>1, <2>2, <3>2 DEF Unwatch, ClearedSet, Types
      <3> QED
        BY <3>1, <3>2
    <2> QED
      BY <1>1, <1>2, <2>1, <2>3, RemoveWatches
  <1> QED
    BY <1>3, <1>4

\* A walk over a descriptor set calls entries of its descriptor only.
LEMMA MovesWatch ==
    ASSUME Types, FdInv, Moves
    PROVE  FdInv'
  <1>1. UNCHANGED <<list, fds>> /\ pc # "freed" /\ pc' # "freed"
    BY MovesKeepLists
  <1>2. HeldServes'
    <2> SUFFICES ASSUME pc' = "callback", walk'.kind \in Watch,
                        NEW j \in DOMAIN list[walk'.kind], list[walk'.kind][j].id = walk'.cur
                 PROVE  list[walk'.kind][j].fd = walk'.fd
      BY <1>1 DEF HeldServes
    <2> DEFINE l == list[walk.kind]
    <2>1. WalkOn
      BY DEF Moves, LoopTop, LoopSelect, LoopDispatch, Begin
    <2>2. PICK i \in DOMAIN l :
              /\ Serves(l[i])
              /\ walk' = [walk EXCEPT !.cur = l[i].id, !.next = At(l, i + 1)]
      BY <2>1 DEF WalkOn, EndOfWalk
    <2>3. walk'.kind = walk.kind /\ walk'.fd = walk.fd /\ walk'.cur = l[i].id
      BY <2>2 DEF Types
    <2>4. j = i
      BY <2>3 DEF FdInv, Distinct, Types
    <2> QED
      BY <2>2, <2>3, <2>4 DEF Serves
  <1> QED
    BY <1>1, <1>2 DEF FdInv, WatchedFdsHaveEntries

\* Every step keeps the descriptor sets within the lists.
LEMMA FdStep == Types /\ FdInv /\ [Next]_vars => FdInv'
  <1> SUFFICES ASSUME Types, FdInv, [Next]_vars
               PROVE  FdInv'
    OBVIOUS
  <1>1. CASE \E r \in Regs : dmr_io_reg(r)
    BY <1>1, RegWatches
  <1>2. CASE \E d \in Dels : dmr_io_del(d)
    BY <1>2, DelWatches
  <1>3. CASE \E sig \in Fd : io_handle_signal(sig)
    <2>1. PICK i \in DOMAIN list["signal"] :
            /\ \/ list' = [list EXCEPT !["signal"] = RemoveAt(list["signal"], i)]
               \/ list' = list
            /\ pc # "freed" /\ pc' = pc /\ walk' = walk /\ fds' = fds
      BY <1>3 DEF io_handle_signal
    <2>2. CASE list' = list
      BY <2>1, <2>2 DEF FdInv, HeldServes, WatchedFdsHaveEntries
    <2>3. CASE list' = [list EXCEPT !["signal"] = RemoveAt(list["signal"], i)]
      <3>1. \A c \in {"read", "write"} :
                fds'[c] \subseteq IF c = "signal" THEN fds[c] \ {list["signal"][i].fd} ELSE fds[c]
        BY <2>1
      <3> QED
        BY <2>1, <2>3, <3>1, RemoveWatches
    <2> QED
      BY <2>1, <2>2, <2>3
  <1>4. CASE Moves
    BY <1>4, MovesWatch
  <1>5. CASE CallbackReturns
    BY <1>5, ReturnWatches
  <1>6. CASE dmr_io_free
    BY <1>6 DEF dmr_io_free, FdInv, Distinct, HeldServes, WatchedFdsHaveEntries
  <1>7. CASE dmr_io_close \/ (\E id \in Id : TimerDue(id)) \/ dmr_io_loop \/ UNCHANGED vars
    <2>1. UNCHANGED <<list, fds, walk>> /\ (pc' = "callback" <=> pc = "callback")
                /\ (pc' # "freed" <=> pc # "freed")
      BY <1>7 DEF dmr_io_close, TimerDue, dmr_io_loop, vars
    <2> QED
      BY <2>1 DEF FdInv, HeldServes, WatchedFdsHaveEntries
  <1> QED
    BY <1>1, <1>2, <1>3, <1>4, <1>5, <1>6, <1>7 DEF Next, Loop, Moves

\* A descriptor is in the read or the write set only while an entry of that list
\* waits for it, whatever callbacks register, delete and free, even from the list
\* the loop is walking, and whichever entries are one-shot.
THEOREM WatchedFdsAlwaysHaveEntries == Spec => []WatchedFdsHaveEntries
  <1>1. Init => Types /\ EntriesCounted /\ FdInv
    BY InitCount DEF Init, FdInv, Distinct, HeldServes, WatchedFdsHaveEntries
  <1>2. Types /\ EntriesCounted /\ FdInv /\ [Next]_vars => Types' /\ EntriesCounted' /\ FdInv'
    BY CountStep, FdStep
  <1>3. FdInv => WatchedFdsHaveEntries
    BY DEF FdInv
  <1> QED
    BY <1>1, <1>2, <1>3, PTL DEF Spec
=============================================================================
