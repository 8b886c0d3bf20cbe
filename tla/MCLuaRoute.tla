----------------------------- MODULE MCLuaRoute -----------------------------
(***************************************************************************)
(* LuaRoute for TLC: scripts as the sets of values they may return.        *)
(***************************************************************************)
EXTENDS LuaRoute

\* A script that also rewrites, as script/route.lua does.
RewritingReturns == {Boolean("true"), Boolean("false")} \cup {Table(f) : f \in Fields}

\* Every kind of return value, errors and tables without the fields included.
AllReturns == LuaValues
=============================================================================
