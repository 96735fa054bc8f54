------------------------------ MODULE LockService ------------------------------
(***************************************************************************)
(* What the store's TakeLock and ReleaseLock promise the executors: an     *)
(* execution of a script begins only while no other execution of a script  *)
(* of that name is active, on any server, and never begins twice.  The     *)
(* promise is waived for a name on a server once a lease was lost there,   *)
(* and is not made at all for exempt names.                                *)
(***************************************************************************)
CONSTANTS Servers, Names, Jobs, Server, Path, Exempt

VARIABLES
    active,     \* the executions in progress
    over,       \* the executions that are over or will never begin
    waived      \* where the promise no longer holds

vars == <<active, over, waived>>

Init == active = {} /\ over = {} /\ waived = {}

Waived(j) == Path[j] \in Exempt \/ <<Server[j], Path[j]>> \in waived

Begin(j) ==
    /\ j \notin active \cup over
    /\ \A k \in active : Path[k] = Path[j] => Waived(j) \/ Waived(k)
    /\ active' = active \cup {j}
    /\ UNCHANGED <<over, waived>>

\* Executions end, are refused, or are lost with their server.
Close(S) ==
    /\ active' = active \ S
    /\ over' = over \cup S
    /\ UNCHANGED waived

Waive(l) ==
    /\ waived' = waived \cup {l}
    /\ UNCHANGED <<active, over>>

Next ==
    \/ \E j \in Jobs : Begin(j)
    \/ \E S \in SUBSET Jobs : Close(S)
    \/ \E l \in Servers \X Names : Waive(l)

Spec == Init /\ [][Next]_vars
=============================================================================
