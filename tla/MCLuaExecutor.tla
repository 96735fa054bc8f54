---------------------------- MODULE MCLuaExecutor ----------------------------
(***************************************************************************)
(* Executions for TLC: an HTML script and a plain one of one message on    *)
(* one server, and the first of them on another server.                    *)
(***************************************************************************)
EXTENDS LuaExecutor, TLC

CONSTANTS s1, s2, j1, j2, j3

MCServer == [j \in Jobs |-> IF j = j3 THEN s2 ELSE s1]
MCName == [j \in Jobs |-> IF j = j2 THEN "job" ELSE "page"]
MCHTML == [j \in Jobs |-> j # j2]

\* j3 is called with an HTTP method, or a message, its script has no function for.
MCMethod == [j \in Jobs |-> j # j3]
=============================================================================
