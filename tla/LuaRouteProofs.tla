--------------------------- MODULE LuaRouteProofs ---------------------------
(***************************************************************************)
(* Proofs about the routing script, for any number of protocols and calls: *)
(* it is obeyed as long as it has returned no table and raised no error,   *)
(* and what it decides by the top of the Lua stack is obeyed for ever.     *)
(***************************************************************************)
EXTENDS LuaRoute, TLAPS

\* What a plain script keeps: the stack is empty between two calls of route(), so
\* the value at its bottom is the value just returned.
PlainInv ==
    /\ said \in [Protos -> LuaValues \cup {NotAsked}]
    /\ DOMAIN sent = Protos
    /\ plain \in BOOLEAN
    /\ PlainScriptObeyed

\* On an empty stack route() decides by the returned value, and pops it.
LEMMA RouteOnEmptyStack ==
    ASSUME NEW v \in {Nil, Number, Boolean("true"), Boolean("false")}
    PROVE  /\ lua_pop(Append(<<>>, v)) = <<>>
           /\ route_policy(Append(<<>>, v)) =
                IF v \in {Nil, Boolean("true")} THEN "PERMIT_UNMODIFIED" ELSE "REJECT"
  <1> DEFINE s == Append(<<>>, v)
  <1>1. Len(s) = 1 /\ s[1] = v
    OBVIOUS
  <1>2. lua_pop(s) = <<>>
    BY <1>1 DEF lua_pop
  <1>3. route_policy(s) =
          CASE v[1] = "nil" -> "PERMIT_UNMODIFIED"
            [] v[1] = "boolean" ->
                  IF lua_toboolean(v) THEN "PERMIT_UNMODIFIED" ELSE "REJECT"
            [] v[1] = "table" -> "PERMIT"
            [] OTHER -> "REJECT"
    BY <1>1 DEF route_policy
  <1>4. lua_toboolean(Boolean("true")) /\ ~lua_toboolean(Boolean("false"))
    BY DEF lua_toboolean, Boolean, Nil
  <1>5. Nil[1] = "nil" /\ Number[1] = "number" /\ \A b : Boolean(b)[1] = "boolean"
    BY DEF Nil, Number, Boolean
  <1>6. Number \notin {Nil, Boolean("true")} /\ Boolean("false") \notin {Nil, Boolean("true")}
    BY DEF Nil, Number, Boolean
  <1>7. route_policy(s) =
           IF v \in {Nil, Boolean("true")} THEN "PERMIT_UNMODIFIED" ELSE "REJECT"
    <2>1. CASE v = Nil
      BY <1>3, <1>5, <2>1
    <2>2. CASE v = Number
      BY <1>3, <1>5, <1>6, <2>2
    <2>3. CASE v = Boolean("true")
      BY <1>3, <1>4, <1>5, <2>3
    <2>4. CASE v = Boolean("false")
      BY <1>3, <1>4, <1>5, <1>6, <2>4
    <2> QED
      BY <2>1, <2>2, <2>3, <2>4
  <1> QED
    BY <1>2, <1>7

\* One destination is decided as a plain script says.
LEMMA PlainRouteTo ==
    ASSUME PlainInv, plain, NEW d \in Protos, NEW v \in Returns, PlainValue(v),
           RouteTo(d, v), parsed' = parsed
    PROVE  PlainInv'
  <1>1. v \in {Nil, Number, Boolean("true"), Boolean("false")}
    <2>1. v \in LuaValues /\ v[1] \in {"nil", "boolean", "number"}
      BY LuaRouteAssumption DEF PlainValue
    <2> QED
      BY <2>1 DEF LuaValues, Nil, Number, Boolean, Error, Table
  <1>2. v # Error
    BY <1>1 DEF Nil, Number, Boolean, Error
  <1>3. stack = <<>> /\ ~aborted
    BY DEF PlainInv, PlainScriptObeyed
  <1>4. route_policy(Append(stack, v)) \in {"PERMIT_UNMODIFIED", "REJECT"}
    BY <1>1, <1>3, RouteOnEmptyStack
  <1>5. route_returned(d, Append(stack, v))
    BY <1>2, <1>4 DEF RouteTo, route_modified
  <1>6. stack' = <<>> /\ aborted' = aborted
    BY <1>1, <1>3, <1>5, RouteOnEmptyStack DEF route_returned
  <1>7. sent' = [sent EXCEPT ![d] =
                    IF v \in {Nil, Boolean("true")} THEN parsed ELSE Nothing]
    BY <1>1, <1>3, <1>5, RouteOnEmptyStack DEF route_returned
  <1>8. said' = [said EXCEPT ![d] = v]
    BY DEF RouteTo
  <1>9. Intended(v)' = IF v \in {Nil, Boolean("true")} THEN parsed ELSE Nothing
    <2>1. v[1] # "table"
      BY <1>1 DEF Nil, Number, Boolean
    <2> QED
      BY <2>1 DEF Intended
  <1>10. ASSUME NEW e \in Protos, said'[e] # NotAsked
         PROVE  (sent[e] = Intended(said[e]))'
    <2>1. CASE e = d
      <3>1. said'[d] = v /\ sent'[d] = IF v \in {Nil, Boolean("true")} THEN parsed ELSE Nothing
        BY <1>7, <1>8 DEF PlainInv
      <3>2. Intended(said[d])' = Intended(v)'
        BY <3>1 DEF Intended
      <3> QED
        BY <1>9, <2>1, <3>1, <3>2
    <2>2. CASE e # d
      <3>1. said'[e] = said[e] /\ sent'[e] = sent[e] /\ said[e] # NotAsked
        BY <1>7, <1>8, <1>10, <2>2 DEF PlainInv
      <3>2. sent[e] = Intended(said[e])
        BY <3>1 DEF PlainInv, PlainScriptObeyed
      <3>3. Intended(said[e])' = Intended(said[e])
        BY <3>1 DEF Intended
      <3> QED
        BY <3>1, <3>2, <3>3
    <2> QED
      BY <2>1, <2>2
  <1>11. PlainScriptObeyed'
    BY <1>3, <1>6, <1>10 DEF PlainScriptObeyed
  <1>12. v \in LuaValues
    BY LuaRouteAssumption
  <1>13. plain' = TRUE
    BY DEF RouteTo
  <1> QED
    BY <1>7, <1>8, <1>11, <1>12, <1>13 DEF PlainInv

\* A call that returns a table or fails ends the plain part of a run.
LEMMA OtherRouteTo ==
    ASSUME PlainInv, NEW d \in Protos, NEW v \in Returns, RouteTo(d, v),
           ~(plain /\ PlainValue(v))
    PROVE  PlainInv'
  <1>1. plain' = FALSE
    BY DEF RouteTo
  <1>2. said' \in [Protos -> LuaValues \cup {NotAsked}]
    <2>1. v \in LuaValues
      BY LuaRouteAssumption
    <2> QED
      BY <2>1 DEF RouteTo, PlainInv
  <1>3. DOMAIN sent' = Protos
    BY DEF RouteTo, route_failed, route_returned, route_modified, PlainInv
  <1> QED
    BY <1>1, <1>2, <1>3 DEF PlainInv, PlainScriptObeyed

\* As long as it neither rewrites frames nor fails, a script is obeyed for every
\* destination of every frame: route() and push_proto keep no trace of one
\* decision when they take the next.
THEOREM PlainScriptsAreObeyed == Spec => []PlainScriptObeyed
  <1>1. Init => PlainInv
    <2> SUFFICES ASSUME Init PROVE PlainInv
      OBVIOUS
    <2>1. said \in [Protos -> LuaValues \cup {NotAsked}] /\ DOMAIN sent = Protos
      BY DEF Init
    <2>2. \A d \in Protos : said[d] = NotAsked
      BY DEF Init
    <2>3. stack = <<>> /\ ~aborted /\ plain = TRUE
      BY DEF Init
    <2> QED
      BY <2>1, <2>2, <2>3 DEF PlainInv, PlainScriptObeyed
  <1>2. PlainInv /\ [Next]_vars => PlainInv'
    <2> SUFFICES ASSUME PlainInv, [Next]_vars PROVE PlainInv'
      OBVIOUS
    <2>1. CASE RouteNext
      <3>1. PICK v \in Returns : RouteTo(i, v)
        BY <2>1 DEF RouteNext
      <3>2. i \in Protos /\ parsed' = parsed
        BY <2>1 DEF RouteNext
      <3>3. CASE plain /\ PlainValue(v)
        BY <3>1, <3>2, <3>3, PlainRouteTo
      <3>4. CASE ~(plain /\ PlainValue(v))
        BY <3>1, <3>2, <3>4, OtherRouteTo
      <3> QED
        BY <3>3, <3>4
    <2>2. CASE SkipSource \/ UNCHANGED vars
      <3>1. UNCHANGED <<stack, parsed, said, sent, aborted, plain>>
        BY <2>2 DEF SkipSource, vars
      <3> QED
        BY <3>1 DEF PlainInv, PlainScriptObeyed, Intended
    <2>3. ASSUME NEW from \in Protos, NEW f \in Fields, PushFrame(from, f)
          PROVE  PlainInv'
      <3>1. said' = [d \in Protos |-> NotAsked] /\ sent' = [d \in Protos |-> Nothing]
        BY <2>3 DEF PushFrame
      <3>2. plain' = plain /\ stack' = stack /\ aborted' = aborted
        BY <2>3 DEF PushFrame
      <3> QED
        BY <3>1, <3>2 DEF PlainInv, PlainScriptObeyed
    <2> QED
      BY <2>1, <2>2, <2>3 DEF Next
  <1>3. PlainInv => PlainScriptObeyed
    BY DEF PlainInv
  <1> QED
    BY <1>1, <1>2, <1>3, PTL DEF Spec

\* What every script keeps, tables and errors included: the stack holds Lua values,
\* however many a rewritten frame left on it.
TopInv ==
    /\ stack \in Seq(LuaValues)
    /\ said \in [Protos -> LuaValues \cup {NotAsked}]
    /\ DOMAIN sent = Protos
    /\ TopDecisionsObeyed

\* On any stack route() decides nil and values of no use by the returned value.
LEMMA RouteByTop ==
    ASSUME NEW s \in Seq(LuaValues), NEW v \in {Nil, Number}
    PROVE  route_policy(Append(s, v)) =
              IF v = Nil THEN "PERMIT_UNMODIFIED" ELSE "REJECT"
  <1> DEFINE t == Append(s, v)
  <1>1. v \in LuaValues
    BY DEF LuaValues
  <1>2. t[Len(t)] = v
    BY <1>1
  <1>3. Nil[1] = "nil" /\ Number[1] = "number" /\ Nil # Number
    BY DEF Nil, Number
  <1>4. CASE v = Nil
    BY <1>2, <1>3, <1>4 DEF route_policy
  <1>5. CASE v = Number
    BY <1>2, <1>3, <1>5 DEF route_policy
  <1> QED
    BY <1>4, <1>5

\* The values left for the next call of route() are Lua values: those that were
\* there, the returned one and the fields lua_modify_packet pushed.
LEMMA StackOfLuaValues ==
    ASSUME stack \in Seq(LuaValues), NEW d \in Protos, NEW v \in Returns, RouteTo(d, v)
    PROVE  stack' \in Seq(LuaValues)
  <1> DEFINE s == Append(stack, v)
             pushed == [n \in 1..7 |-> Number]
  <1>1. v \in LuaValues /\ Number \in LuaValues /\ Error \in LuaValues
    BY LuaRouteAssumption DEF LuaValues
  <1>2. s \in Seq(LuaValues) /\ Len(s) \in Nat /\ Len(s) > 0
    BY <1>1
  <1>3. CASE v = Error
    BY <1>1, <1>3 DEF RouteTo, route_failed
  <1>4. CASE route_returned(d, s)
    <2>1. stack' = SubSeq(s, 1, Len(s) - 1)
      BY <1>4 DEF route_returned, lua_pop
    <2> HIDE DEF s
    <2> QED
      BY <1>2, <2>1
  <1>5. CASE route_modified(d, s)
    <2>1. pushed \in Seq(LuaValues) /\ Len(pushed) = 7
      BY <1>1
    <2>2. lua_modify_packet(s).stack = s \o pushed
      BY DEF lua_modify_packet
    <2> DEFINE r == s \o pushed
    <2>3. r \in Seq(LuaValues) /\ Len(r) > 0
      <3> HIDE DEF s, pushed
      <3> QED
        BY <1>2, <2>1
    <2>4. stack' = stack \/ stack' = SubSeq(r, 1, Len(r) - 1)
      BY <1>5, <2>2 DEF route_modified, lua_pop
    <2>5. SubSeq(r, 1, Len(r) - 1) \in Seq(LuaValues)
      <3> HIDE DEF r
      <3> QED
        BY <2>3
    <2> QED
      BY <2>4, <2>5
  <1> QED
    BY <1>3, <1>4, <1>5 DEF RouteTo

\* One destination is decided by the top of the stack.
LEMMA TopRouteTo ==
    ASSUME TopInv, NEW d \in Protos, NEW v \in Returns, RouteTo(d, v), parsed' = parsed
    PROVE  TopInv'
  <1>1. stack' \in Seq(LuaValues)
    BY StackOfLuaValues DEF TopInv
  <1>2. v \in LuaValues
    BY LuaRouteAssumption
  <1>3. said' = [said EXCEPT ![d] = v]
    BY DEF RouteTo
  <1>4. said' \in [Protos -> LuaValues \cup {NotAsked}]
    BY <1>2, <1>3 DEF TopInv
  <1>5. DOMAIN sent' = Protos /\ \A e \in Protos \ {d} : sent'[e] = sent[e]
    <2>1. CASE v = Error
      BY <2>1 DEF RouteTo, route_failed, TopInv
    <2>2. CASE route_returned(d, Append(stack, v))
      BY <2>2 DEF route_returned, TopInv
    <2>3. CASE route_modified(d, Append(stack, v))
      BY <2>3 DEF route_modified, TopInv
    <2> QED
      BY <2>1, <2>2, <2>3 DEF RouteTo
  <1>6. v \in {Nil, Number, Error} => sent'[d] = Intended(v)
    <2>1. Nil[1] # "table" /\ Number[1] # "table" /\ Error[1] # "table"
      BY DEF Nil, Number, Error
    <2>2. /\ Number # Nil /\ Error # Nil /\ Error # Number
          /\ Number # Boolean("true") /\ Error # Boolean("true")
      BY DEF Nil, Number, Error, Boolean
    <2>3. Intended(Nil) = parsed /\ Intended(Number) = Nothing /\ Intended(Error) = Nothing
      BY <2>1, <2>2 DEF Intended
    <2>4. CASE v = Error
      <3>1. sent' = [sent EXCEPT ![d] = Nothing]
        BY <2>4 DEF RouteTo, route_failed
      <3> QED
        BY <2>3, <2>4, <3>1 DEF TopInv
    <2>5. CASE v \in {Nil, Number}
      <3>1. route_policy(Append(stack, v)) =
               IF v = Nil THEN "PERMIT_UNMODIFIED" ELSE "REJECT"
        BY <2>5, RouteByTop DEF TopInv
      <3>2. route_returned(d, Append(stack, v))
        BY <2>2, <2>5, <3>1 DEF RouteTo, route_modified
      <3>3. sent' = [sent EXCEPT ![d] = IF v = Nil THEN parsed ELSE Nothing]
        BY <2>2, <2>5, <3>1, <3>2 DEF route_returned
      <3> QED
        BY <2>2, <2>3, <2>5, <3>3 DEF TopInv
    <2> QED
      BY <2>4, <2>5
  <1>7. ASSUME NEW e \in Protos, said'[e] \in {Nil, Number, Error}
        PROVE  (sent[e] = Intended(said[e]))'
    <2>1. Intended(said[e])' = Intended(said'[e])
      BY DEF Intended
    <2>2. CASE e = d
      BY <1>3, <1>6, <1>7, <2>1, <2>2 DEF TopInv
    <2>3. CASE e # d
      <3>1. said'[e] = said[e] /\ sent'[e] = sent[e]
        BY <1>3, <1>5, <2>3 DEF TopInv
      <3> QED
        BY <1>7, <2>1, <3>1 DEF TopInv, TopDecisionsObeyed
    <2> QED
      BY <2>2, <2>3
  <1> QED
    BY <1>1, <1>4, <1>5, <1>7 DEF TopInv, TopDecisionsObeyed

\* Whatever a script returned before - tables, whose seven fields stay on the stack,
\* and errors, whose message does - nil permits the frame as it is and a value of no
\* use or an error rejects it: route() reads those off the top of the stack.
THEOREM TopDecisionsAreObeyed == Spec => []TopDecisionsObeyed
  <1>1. Init => TopInv
    <2> SUFFICES ASSUME Init PROVE TopInv
      OBVIOUS
    <2>1. NotAsked \notin {Nil, Number, Error}
      BY DEF NotAsked, Nil, Number, Error
    <2>2. \A d \in Protos : said[d] = NotAsked
      BY DEF Init
    <2>3. stack = <<>> /\ DOMAIN sent = Protos /\ said \in [Protos -> LuaValues \cup {NotAsked}]
      BY DEF Init
    <2>4. stack \in Seq(LuaValues)
      BY <2>3
    <2> QED
      BY <2>1, <2>2, <2>3, <2>4 DEF TopInv, TopDecisionsObeyed
  <1>2. TopInv /\ [Next]_vars => TopInv'
    <2> SUFFICES ASSUME TopInv, [Next]_vars PROVE TopInv'
      OBVIOUS
    <2>1. CASE RouteNext
      <3>1. PICK v \in Returns : RouteTo(i, v)
        BY <2>1 DEF RouteNext
      <3>2. i \in Protos /\ parsed' = parsed
        BY <2>1 DEF RouteNext
      <3> QED
        BY <3>1, <3>2, TopRouteTo
    <2>2. CASE SkipSource \/ UNCHANGED vars
      <3>1. UNCHANGED <<stack, parsed, said, sent>>
        BY <2>2 DEF SkipSource, vars
      <3> QED
        BY <3>1 DEF TopInv, TopDecisionsObeyed, Intended
    <2>3. ASSUME NEW from \in Protos, NEW f \in Fields, PushFrame(from, f)
          PROVE  TopInv'
      <3>1. said' = [d \in Protos |-> NotAsked] /\ sent' = [d \in Protos |-> Nothing]
        BY <2>3 DEF PushFrame
      <3>2. stack' = stack
        BY <2>3 DEF PushFrame
      <3>3. NotAsked \notin {Nil, Number, Error}
        BY DEF NotAsked, Nil, Number, Error
      <3> QED
        BY <3>1, <3>2, <3>3 DEF TopInv, TopDecisionsObeyed
    <2> QED
      BY <2>1, <2>2, <2>3 DEF Next
  <1>3. TopInv => TopDecisionsObeyed
    BY DEF TopInv
  <1> QED
    BY <1>1, <1>2, <1>3, PTL DEF Spec
=============================================================================
