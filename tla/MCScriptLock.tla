----------------------------- MODULE MCScriptLock -----------------------------
(***************************************************************************)
(* Instances of ScriptLock for TLC: who runs which script, and what the    *)
(* lock key of a name is.                                                  *)
(***************************************************************************)
EXTENDS ScriptLock, TLC

CONSTANTS s1, s2, a, j1, j2, j3

\* Two executions of script a on one server (scripts stored without a name
\* share the name "") and one on another server.
TwinServer == j1 :> s1 @@ j2 :> s1 @@ j3 :> s2
SamePath == [j \in Jobs |-> a]

\* The lock key of a is not the name of a script.
PlainLockKey == [n \in Names |-> <<n, "_lock">>]
=============================================================================
