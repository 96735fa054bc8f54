------------------------------- MODULE MCCluster -------------------------------
(***************************************************************************)
(* Servers and messages for TLC: one script, every server and message.     *)
(***************************************************************************)
EXTENDS Cluster

CONSTANT job        \* the one script

MCJobs == Servers \X Messages
MCServer == [j \in MCJobs |-> j[1]]
MCMessage == [j \in MCJobs |-> j[2]]
MCPath == [j \in MCJobs |-> job]
MCLockKey == [n \in Names |-> <<n, "_lock">>]
=============================================================================
