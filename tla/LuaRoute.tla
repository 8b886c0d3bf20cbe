------------------------------- MODULE LuaRoute -------------------------------
(***************************************************************************)
(* Routing of one frame to the other protocols by the Lua script of        *)
(* noisebridge (route in src/cmd/noisebridge/repeater.c, lua_modify_packet *)
(* in script.c): one call of the script's route() per destination, on the  *)
(* one Lua stack that lives as long as the program.                        *)
(*                                                                         *)
(* What the script may rewrite in a frame (ts, flco, repeater_id,          *)
(* color_code) is one value of Fields.  A Lua value is a pair of its type  *)
(* and, for booleans and tables, what it holds.                            *)
(***************************************************************************)
EXTENDS Integers, Sequences

CONSTANTS N,         \* number of configured protocols
          Fields,    \* what a script can rewrite in a frame
          Returns,   \* the Lua values, or errors, the script may return
          MaxStack   \* bound: values on the Lua stack

Protos == 1..N

Nothing == "nothing"
Nil == <<"nil", Nothing>>
Boolean(b) == <<"boolean", b>>
Table(f) == <<"table", f>>
Number == <<"number", Nothing>>
Error == <<"error", Nothing>>
NotAsked == <<"none", Nothing>>
Malformed == "malformed"   \* held by a table that lacks an integer field

LuaValues == {Nil, Number, Error} \cup {Boolean(b) : b \in {"true", "false"}}
                \cup {Table(f) : f \in Fields \cup {Malformed}}

ASSUME LuaRouteAssumption ==
    /\ N \in Nat
    /\ MaxStack \in Nat
    /\ Nothing \notin Fields /\ Malformed \notin Fields
    /\ Returns \subseteq LuaValues

VARIABLES stack,   \* the Lua stack, bottom first
          src,     \* the protocol the frame came from
          parsed,  \* what a script can rewrite in the frame
          i,       \* the next protocol to be offered the frame; N + 1: done
          said,    \* what the script returned for each protocol
          sent,    \* what was sent to each protocol
          aborted, \* a Lua error outside lua_pcall ended the program
          plain    \* history: no call has returned a table or failed so far

vars == <<stack, src, parsed, i, said, sent, aborted, plain>>

\* init_script leaves an empty stack, or the program does not start.
Init ==
    /\ stack = <<>>
    /\ src = 0
    /\ parsed = Nothing
    /\ i = N + 1
    /\ said = [d \in Protos |-> NotAsked]
    /\ sent = [d \in Protos |-> Nothing]
    /\ aborted = FALSE
    /\ plain = TRUE

\* lua_toboolean: every value but nil and false is true.
lua_toboolean(v) == v \notin {Nil, Boolean("false")}

\* lua_modify_packet reads the table at the bottom of the stack, and leaves the
\* seven fields it pushed.
lua_modify_packet(s) ==
    [fails  |-> s[1][1] # "table" \/ s[1][2] = Malformed,
     fields |-> s[1][2],
     stack  |-> s \o [n \in 1..7 |-> Number]]

lua_pop(s) == SubSeq(s, 1, Len(s) - 1)

\* The policy that route() reads off stack s, whose top is the returned value.
route_policy(s) ==
    LET top == s[Len(s)]
    IN  CASE top[1] = "nil" -> "PERMIT_UNMODIFIED"
          [] top[1] = "boolean" ->
                IF lua_toboolean(s[1]) THEN "PERMIT_UNMODIFIED" ELSE "REJECT"
          [] top[1] = "table" -> "PERMIT"
          [] OTHER -> "REJECT"

\* Mutant: the returned value is popped only when it is a boolean.
route_returned_pop_boolean(dst, s) ==
    /\ route_policy(s) # "PERMIT"
    /\ stack' = IF s[Len(s)][1] = "boolean" THEN lua_pop(s) ELSE s
    /\ sent' = [sent EXCEPT ![dst] =
                   IF route_policy(s) = "REJECT" THEN Nothing ELSE parsed]
    /\ UNCHANGED aborted

\* route() after the script returned anything but a table: the value is popped.
route_returned(dst, s) ==
    /\ route_policy(s) # "PERMIT"
    /\ stack' = lua_pop(s)
    /\ sent' = [sent EXCEPT ![dst] =
                   IF route_policy(s) = "REJECT" THEN Nothing ELSE parsed]
    /\ UNCHANGED aborted

\* route() after the script returned a table: the copy for dst is rewritten.
route_modified(dst, s) ==
    LET m == lua_modify_packet(s)
    IN  /\ route_policy(s) = "PERMIT"
        /\ IF m.fails
           THEN aborted' = TRUE /\ UNCHANGED <<stack, sent>>
           ELSE /\ stack' = lua_pop(m.stack)
                /\ sent' = [sent EXCEPT ![dst] = m.fields]
                /\ UNCHANGED aborted

\* Mutant: a failed script leaves the frame to be sent as it is.
route_failed_open(dst) ==
    /\ stack' = Append(stack, Error)
    /\ sent' = [sent EXCEPT ![dst] = parsed]
    /\ UNCHANGED aborted

\* route() after the script failed: the message stays on the stack.
route_failed(dst) ==
    /\ stack' = Append(stack, Error)
    /\ sent' = [sent EXCEPT ![dst] = Nothing]
    /\ UNCHANGED aborted

\* A value that tells route() what to do with the frame as it is.
PlainValue(v) == v[1] \in {"nil", "boolean", "number"}

\* The loop of push_proto over the protocols, once the slot accepted the frame.
RouteTo(dst, returned) ==
    /\ ~aborted
    /\ Len(stack) + 8 <= MaxStack
    /\ said' = [said EXCEPT ![dst] = returned]
    /\ plain' = (plain /\ PlainValue(returned))
    /\ IF returned = Error
       THEN route_failed(dst)
       ELSE LET s == Append(stack, returned)
            IN  route_returned(dst, s) \/ route_modified(dst, s)

RouteNext ==
    /\ i \in Protos \ {src}
    /\ i' = i + 1
    /\ \E returned \in Returns : RouteTo(i, returned)
    /\ UNCHANGED <<src, parsed>>

\* The loop skips the protocol the frame came from.
SkipSource ==
    /\ ~aborted
    /\ i = src
    /\ i' = i + 1
    /\ UNCHANGED <<stack, src, parsed, said, sent, aborted, plain>>

\* push_proto gets to its loop with a frame.
PushFrame(from, f) ==
    /\ ~aborted
    /\ i = N + 1
    /\ i' = 1
    /\ src' = from
    /\ parsed' = f
    /\ said' = [d \in Protos |-> NotAsked]
    /\ sent' = [d \in Protos |-> Nothing]
    /\ UNCHANGED <<stack, aborted, plain>>

Next ==
    \/ RouteNext
    \/ SkipSource
    \/ \E from \in Protos, f \in Fields : PushFrame(from, f)

Spec == Init /\ [][Next]_vars

(***************************************************************************)
(* Properties.                                                             *)
(***************************************************************************)
\* The decisions and the stack keep their types.
TypeOK ==
    /\ stack \in Seq(LuaValues)
    /\ src \in 0..N
    /\ parsed \in Fields \cup {Nothing}
    /\ i \in 1..(N + 1)
    /\ said \in [Protos -> LuaValues \cup {NotAsked}]
    /\ sent \in [Protos -> Fields \cup {Nothing}]
    /\ aborted \in BOOLEAN
    /\ plain \in BOOLEAN

\* What the script returned is what happens to the frame: nil and true send it
\* as it is, false and other values reject it, an error rejects it, a table
\* sends it rewritten as the table says.
Intended(returned) ==
    CASE returned \in {Nil, Boolean("true")} -> parsed
      [] returned[1] = "table" -> returned[2]
      [] OTHER -> Nothing

\* As long as a script has returned no table and raised no error it is obeyed for
\* every destination of every frame, however many calls came before: route()
\* leaves the Lua stack as it found it, so it never decides one destination by
\* what was returned for another.
PlainScriptObeyed ==
    plain =>
        /\ stack = <<>>
        /\ ~aborted
        /\ \A d \in Protos : said[d] # NotAsked => sent[d] = Intended(said[d])

\* Whatever the script returned before, nil, values of no use and errors are
\* obeyed: route() decides them by the top of the stack alone.
TopDecisionsObeyed ==
    \A d \in Protos : said[d] \in {Nil, Number, Error} => sent[d] = Intended(said[d])

\* Whatever was decided before, a frame the script rejects is not sent and a frame
\* it rewrites is sent as rewritten ("Reject" and "Permit with modified packet" in
\* script/route.lua).
ScriptObeyed ==
    \A d \in Protos :
        said[d] \in Returns \ {Table(Malformed)} => sent[d] = Intended(said[d])
=============================================================================
