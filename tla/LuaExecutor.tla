------------------------------ MODULE LuaExecutor ------------------------------
(***************************************************************************)
(* LuaExecutor.HandleMessage and Stop, src/executor/lua_executor.go: the   *)
(* stages of one execution of a Lua script, what each acquires, and the    *)
(* deferred calls that give it back, last one first.                       *)
(*                                                                         *)
(* A job is one call of HandleMessage by a goroutine of a server.  A       *)
(* server's jobs share its working directory; all jobs share the locks of  *)
(* the store, which TakeLock takes by the script's name.                   *)
(***************************************************************************)
EXTENDS Naturals, Sequences, SequencesExt

CONSTANTS
    Servers, Jobs,
    Server,     \* the process of a job
    Name,       \* scr.Name of a job
    HTML,       \* scr.HTML of a job
    Method,     \* whether a job's script has a function for the message: OnMessage,
                \* or one named after the HTTP method
    Locking,    \* the store locks (etcd); the file and dev stores always grant
    Start       \* the working directory the processes start in

ASSUME JobAssumption ==
    /\ Server \in [Jobs -> Servers]
    /\ HTML \in [Jobs -> BOOLEAN] /\ Method \in [Jobs -> BOOLEAN]
    /\ Jobs \subseteq DOMAIN Name
ASSUME LockingAssumption == Locking \in BOOLEAN
ASSUME StartAssumption == Start \notin Jobs

VARIABLES
    pc,         \* the next stage of each job
    defers,     \* the deferred calls of each job, the last one first
    tmp,        \* the jobs whose temporary directory exists
    cwd,        \* cwd[s]: the directory of a job the process s is in
    locked,     \* the jobs that hold the lock of their name
    states,     \* the jobs whose Lua state is open
    timers,     \* the jobs whose context has a deadline running
    result,     \* what each job returns
    stopped,    \* the processes whose executor's context is cancelled
    overlapped  \* the jobs that ran while another job of their server did

vars == <<pc, defers, tmp, cwd, locked, states, timers, result, stopped, overlapped>>

Stages == <<"tmp", "chdir", "libs", "lock", "state", "plugins", "body", "call">>
\* The calls deferred at each stage, the last one first: a suffix of this.
Deferred == <<"Close", "cancel", "ReleaseLock", "RemoveAll">>

\* A *ScriptResult: nil, with Error set, with IsHTML set, or neither.
Outcomes == {"none", "nil", "error", "html", "htmlError", "plain"}

\* The calls a job has deferred are always the latest ones of Deferred.
TypeOK ==
    /\ pc \in [Jobs -> ToSet(Stages) \cup {"idle", "return", "done"}]
    /\ defers \in [Jobs -> Suffixes(Deferred)]
    /\ tmp \in SUBSET Jobs
    /\ cwd \in [Servers -> Jobs \cup {Start}]
    /\ locked \in SUBSET Jobs
    /\ states \in SUBSET Jobs
    /\ timers \in SUBSET Jobs
    /\ result \in [Jobs -> Outcomes]
    /\ stopped \in SUBSET Servers
    /\ overlapped \in SUBSET Jobs

Init ==
    /\ pc = [j \in Jobs |-> "idle"]
    /\ defers = [j \in Jobs |-> <<>>]
    /\ tmp = {} /\ locked = {} /\ states = {} /\ timers = {}
    /\ cwd = [s \in Servers |-> Start]
    /\ result = [j \in Jobs |-> "none"]
    /\ stopped = {} /\ overlapped = {}

-----------------------------------------------------------------------------
Goto(j, stage) == pc' = [pc EXCEPT ![j] = stage] /\ UNCHANGED result
Return(j, r) ==
    /\ pc' = [pc EXCEPT ![j] = "return"]
    /\ result' = [result EXCEPT ![j] = r]
\* Mutant of Defer: deferred calls run first one first.
DeferLast(j, calls) == defers' = [defers EXCEPT ![j] = @ \o calls]

Defer(j, calls) == defers' = [defers EXCEPT ![j] = calls \o @]

\* The goroutine of the message handler calls HandleMessage.
Begin(j) ==
    /\ pc[j] = "idle"
    /\ Goto(j, "tmp")
    /\ LET others == {k \in Jobs : Server[k] = Server[j] /\ pc[k] \notin {"idle", "done"}}
       IN  overlapped' = IF others = {} THEN overlapped ELSE overlapped \cup others \cup {j}
    /\ UNCHANGED <<defers, tmp, cwd, locked, states, timers, stopped>>

\* Without a temporary directory the result is nil, whatever res.Error says.
MkdirTemp(j) ==
    /\ pc[j] = "tmp"
    /\ \/ /\ tmp' = tmp \cup {j}
          /\ Defer(j, <<"RemoveAll">>)
          /\ Goto(j, "chdir")
       \/ /\ Return(j, "nil")
          /\ UNCHANGED <<tmp, defers>>
    /\ UNCHANGED <<cwd, locked, states, timers, stopped, overlapped>>

\* Mutant of Chdir: only the first job of a process changes directory.
ChdirOnce(j) ==
    /\ pc[j] = "chdir"
    /\ cwd' = [cwd EXCEPT ![Server[j]] = IF @ = Start THEN j ELSE @]
    /\ Goto(j, "libs")
    /\ UNCHANGED <<defers, tmp, locked, states, timers, stopped, overlapped>>

\* The working directory is the process's: every job moves all of its server's.
Chdir(j) ==
    /\ pc[j] = "chdir"
    /\ \/ /\ cwd' = [cwd EXCEPT ![Server[j]] = j]
          /\ Goto(j, "libs")
       \/ /\ Return(j, "nil")
          /\ UNCHANGED cwd
    /\ UNCHANGED <<defers, tmp, locked, states, timers, stopped, overlapped>>

LoadLibrairies(j) ==
    /\ pc[j] = "libs"
    /\ Goto(j, "lock") \/ Return(j, "error")
    /\ UNCHANGED <<defers, tmp, cwd, locked, states, timers, stopped, overlapped>>

\* Mutant of Free: the lock is the server's own.
FreeHere(j) == ~Locking \/ \A k \in locked : Server[k] = Server[j] => Name[k] # Name[j]

\* TakeLock fails when another job holds the lock, or because etcd does.
Free(j) == ~Locking \/ \A k \in locked : Name[k] # Name[j]

TakeLock(j) ==
    /\ pc[j] = "lock"
    /\ \/ /\ Free(j)
          /\ locked' = locked \cup {j}
          /\ Defer(j, <<"ReleaseLock">>)
          /\ Goto(j, "state")
       \/ /\ Locking
          /\ Return(j, "error")
          /\ UNCHANGED <<locked, defers>>
    /\ UNCHANGED <<tmp, cwd, states, timers, stopped, overlapped>>

\* Mutant of NewState: the state is never closed.
NewStateLeaks(j) ==
    /\ pc[j] = "state"
    /\ states' = states \cup {j}
    /\ timers' = timers \cup {j}
    /\ Defer(j, <<"cancel">>)
    /\ Goto(j, "plugins")
    /\ UNCHANGED <<tmp, cwd, locked, stopped, overlapped>>

NewState(j) ==
    /\ pc[j] = "state"
    /\ states' = states \cup {j}
    /\ timers' = timers \cup {j}
    /\ Defer(j, <<"Close", "cancel">>)
    /\ Goto(j, "plugins")
    /\ UNCHANGED <<tmp, cwd, locked, stopped, overlapped>>

LoadPlugins(j) ==
    /\ pc[j] = "plugins"
    /\ Goto(j, "body") \/ Return(j, "error")
    /\ UNCHANGED <<defers, tmp, cwd, locked, states, timers, stopped, overlapped>>

\* Mutant of DoString: a script is not told of its deadline.
DoStringNoDeadline(j) ==
    /\ pc[j] = "body"
    /\ Server[j] \notin stopped
    /\ Goto(j, "call")
    /\ UNCHANGED <<defers, tmp, cwd, locked, states, timers, stopped, overlapped>>

\* The libraries and the script are run.  Once the executor is stopped, or after
\* MAX_LUA_RUNNING_TIME, Lua code fails.  A failure here makes the result nil.
DoString(j) ==
    /\ pc[j] = "body"
    /\ \/ Server[j] \notin stopped /\ Goto(j, "call")
       \/ Return(j, "nil")
    /\ UNCHANGED <<defers, tmp, cwd, locked, states, timers, stopped, overlapped>>

\* executeHTMLMessage and executeRawMessage: a missing function is an error for
\* OnMessage and an empty page for an HTTP method.
Call(j) ==
    /\ pc[j] = "call"
    /\ \/ HTML[j] /\ (Method[j] => Server[j] \notin stopped) /\ Return(j, "html")
       \/ HTML[j] /\ Method[j] /\ Return(j, "htmlError")
       \/ ~HTML[j] /\ Method[j] /\ Server[j] \notin stopped /\ Return(j, "plain")
       \/ ~HTML[j] /\ Return(j, "error")
    /\ UNCHANGED <<defers, tmp, cwd, locked, states, timers, stopped, overlapped>>

\* Mutant of Unwind: the call deferred first runs first.
UnwindFirst(j) ==
    /\ pc[j] = "return" /\ defers[j] # <<>>
    /\ LET call == Last(defers[j])
       IN  /\ tmp' = IF call = "RemoveAll" THEN tmp \ {j} ELSE tmp
           /\ locked' = IF call = "ReleaseLock" THEN locked \ {j} ELSE locked
           /\ timers' = IF call = "cancel" THEN timers \ {j} ELSE timers
           /\ states' = IF call = "Close" THEN states \ {j} ELSE states
    /\ defers' = [defers EXCEPT ![j] = Front(@)]
    /\ UNCHANGED <<pc, cwd, result, stopped, overlapped>>

\* The deferred calls run one by one, and HandleMessage returns.
Unwind(j) ==
    /\ pc[j] = "return" /\ defers[j] # <<>>
    /\ LET call == Head(defers[j])
       IN  /\ tmp' = IF call = "RemoveAll" THEN tmp \ {j} ELSE tmp
           /\ locked' = IF call = "ReleaseLock" THEN locked \ {j} ELSE locked
           /\ timers' = IF call = "cancel" THEN timers \ {j} ELSE timers
           /\ states' = IF call = "Close" THEN states \ {j} ELSE states
    /\ defers' = [defers EXCEPT ![j] = Tail(@)]
    /\ UNCHANGED <<pc, cwd, result, stopped, overlapped>>

Returned(j) ==
    /\ pc[j] = "return" /\ defers[j] = <<>>
    /\ Goto(j, "done")
    /\ UNCHANGED <<defers, tmp, cwd, locked, states, timers, stopped, overlapped>>

\* Stop cancels the context every script's deadline derives from.
Stop(s) ==
    /\ s \notin stopped
    /\ stopped' = stopped \cup {s}
    /\ UNCHANGED <<pc, defers, tmp, cwd, locked, states, timers, result, overlapped>>

-----------------------------------------------------------------------------
HandleMessage(j) ==
    \/ MkdirTemp(j) \/ Chdir(j) \/ LoadLibrairies(j) \/ TakeLock(j) \/ NewState(j)
    \/ LoadPlugins(j) \/ DoString(j) \/ Call(j) \/ Unwind(j) \/ Returned(j)

Next ==
    \/ \E j \in Jobs : Begin(j) \/ HandleMessage(j)
    \/ \E s \in Servers : Stop(s)

Spec == Init /\ [][Next]_vars

\* Goroutines are scheduled, the store answers, and no script outlives its deadline.
FairSpec == Spec /\ \A j \in Jobs : WF_vars(HandleMessage(j))

-----------------------------------------------------------------------------
(* Lua code runs, and its state exists, only inside the lock of its script   *)
(* and only while its directory exists: on every path the state is closed    *)
(* before the lock is released, and the lock before the directory goes.      *)
RunsInside ==
    /\ states \subseteq locked
    /\ locked \subseteq tmp
    /\ \A j \in Jobs : pc[j] \in {"body", "call"} => j \in states

(* Two servers, or two goroutines, never have a Lua state of scripts of the  *)
(* same name at once when the store locks.                                   *)
OneStatePerName ==
    Locking => \A j, k \in states : Name[j] = Name[k] => j = k

(* Whichever stage a job fails at, when HandleMessage has returned it has    *)
(* given back all it had acquired.                                           *)
CleanReturn ==
    \A j \in Jobs : pc[j] = "done" => j \notin tmp \cup locked \cup states \cup timers

(* A script that shares its server with no other execution works in its own  *)
(* temporary directory, whatever the executions before it left.  (One of     *)
(* several scripts of a message may find itself in another's directory, or   *)
(* in one that was removed.)                                                 *)
RunsInOwnDirectory ==
    \A j \in Jobs : (pc[j] \in {"body", "call"} /\ j \notin overlapped) => cwd[Server[j]] = j

(* Every execution returns, stopped or not.                                  *)
Returns == \A j \in Jobs : pc[j] = "tmp" ~> pc[j] = "done"
=============================================================================
