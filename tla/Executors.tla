------------------------------- MODULE Executors -------------------------------
(***************************************************************************)
(* The executors of one server process, src/executor/executor.go, with the *)
(* containers of podman_executor.go and the modules of wasm_executor.go,   *)
(* from the start of the server to its shutdown, src/cmd/server/main.go.   *)
(*                                                                         *)
(* The jobs are the HandleMessage calls of one message: the callback that  *)
(* starts them handles one message at a time.  Lua scripts are the subject *)
(* of LuaExecutor; here they just end.                                     *)
(***************************************************************************)
EXTENDS Naturals

CONSTANTS
    Jobs,
    Executor,   \* Executor[j]: the executor header of the script of job j
    ModuleEnds  \* how running a WASM module may end

\* An exit status of zero or none; another one; a trap; never.
ASSUME ExecutorAssumption ==
    /\ Executor \in [Jobs -> {"lua", "wasm", "podman", "other"}]
    /\ ModuleEnds \subseteq {"exits", "fails", "traps", "loops"}

VARIABLES
    server,     \* "up", "signalled", "stopped", "panicked" or "crashed" as it stops
    podman,     \* what the map of executors has for podman
    wasm,       \* and for wasm
    pc,         \* pc[j]: the stage of job j, "idle" before and "done" after it
    ctn,        \* ctn[j]: the container of job j
    registered, \* the jobs whose container is in PodmanExecutor.containers
    result      \* result[j]: what HandleMessage returned

registry == <<podman, wasm>>
vars == <<server, registry, pc, ctn, registered, result>>

PodmanStages ==
    {"parse", "pull", "create", "stdout", "stderr", "attach", "hung", "store", "start",
     "started", "waiting", "collect"}
WasmStages == {"read", "outfile", "errfile", "load", "running", "looping", "output"}

\* An executor the server is not built with is a stub.  NewPodmanExecutor returns an
\* error when its socket cannot be reached; the map then holds a nil *PodmanExecutor,
\* which as an Executor is not nil.
Init ==
    /\ server = "up"
    /\ podman \in {"enabled", "nil", "stub"} /\ wasm \in {"enabled", "stub"}
    /\ pc = [j \in Jobs |-> "idle"]
    /\ ctn = [j \in Jobs |-> "none"]
    /\ registered = {}
    /\ result = [j \in Jobs |-> "none"]

-----------------------------------------------------------------------------
Alive == server \in {"up", "signalled"}

\* The connection's context derives from that of the signals: it is cancelled by
\* the signal that ends the server, and every call with it fails from then on.
Connected == server = "up"

At(j, stage) == Alive /\ pc[j] = stage
Goto(j, stage) == pc' = [pc EXCEPT ![j] = stage] /\ UNCHANGED result
Return(j, r) ==
    /\ pc' = [pc EXCEPT ![j] = "done"]
    /\ result' = [result EXCEPT ![j] = r]

Panic == server' = "panicked" /\ UNCHANGED <<registry, pc, ctn, registered, result>>

\* A name that is not in the map stands for Lua.
ExecutorByName(name) == IF name = "other" THEN "lua" ELSE name

Begin(j) ==
    /\ At(j, "idle")
    /\ LET name == ExecutorByName(Executor[j])
       IN  \/ name = "lua" /\ Goto(j, "lua")
           \/ name = "wasm" /\ wasm # "stub" /\ Goto(j, "read")
           \/ name = "podman" /\ podman # "stub" /\ Goto(j, "parse")
           \/ name = "wasm" /\ wasm = "stub" /\ Return(j, "error")
           \/ name = "podman" /\ podman = "stub" /\ Return(j, "error")
    /\ UNCHANGED <<server, registry, ctn, registered>>

\* A script that cannot be loaded has no result: HandleMessage returns nil.
LuaEnds(j) ==
    /\ At(j, "lua")
    /\ \E r \in {"result", "error", "nil"} : Return(j, r)
    /\ UNCHANGED <<server, registry, ctn, registered>>

\* Mutant of CollectNil: no wg.Wait(), and the results are read as they come.
CollectNilEarly == Alive /\ (\E j \in Jobs : result[j] = "nil") /\ Panic

\* The callback reads IsHTML of every result, once all jobs have returned.
CollectNil ==
    /\ Alive /\ \A j \in Jobs : pc[j] = "done"
    /\ \E j \in Jobs : result[j] = "nil"
    /\ Panic

-----------------------------------------------------------------------------
(* The Podman executor.                                                      *)

\* The stages that change nothing but the stage: the configuration, the image, the
\* files.  Each may fail.
Step(j, stage, next) ==
    /\ At(j, stage)
    /\ Goto(j, next) \/ Return(j, "error")
    /\ UNCHANGED <<server, registry, ctn, registered>>

Parse(j) == Step(j, "parse", "pull")

\* The first use of the executor's fields.
PullNil(j) == At(j, "pull") /\ podman = "nil" /\ Panic

\* Mutant of Pull: the container's name is registered before there is one.
PullRegisters(j) ==
    /\ At(j, "pull") /\ podman # "nil"
    /\ registered' = registered \cup {j}
    /\ (Connected /\ Goto(j, "create")) \/ Return(j, "error")
    /\ UNCHANGED <<server, registry, ctn>>

Pull(j) ==
    /\ At(j, "pull") /\ podman # "nil"
    /\ (Connected /\ Goto(j, "create")) \/ Return(j, "error")
    /\ UNCHANGED <<server, registry, ctn, registered>>

\* A call that fails may have had its effect: only its answer was not waited for.
Create(j) ==
    /\ At(j, "create")
    /\ \/ /\ Connected /\ Goto(j, "stdout")
          /\ ctn' = [ctn EXCEPT ![j] = "created"]
       \/ /\ Return(j, "error")
          /\ \E c \in {"none", "created"} : ctn' = [ctn EXCEPT ![j] = c]
    /\ UNCHANGED <<server, registry, registered>>

TempFiles(j) == Step(j, "stdout", "stderr") \/ Step(j, "stderr", "attach")

\* When the goroutine that attaches fails, nobody says that it is ready.
Attach(j) ==
    /\ At(j, "attach")
    /\ (Connected /\ Goto(j, "store")) \/ Goto(j, "hung")
    /\ UNCHANGED <<server, registry, ctn, registered>>

\* Mutant of Store: the container is registered once it is started.
StoreNothing(j) ==
    /\ At(j, "store")
    /\ Goto(j, "start")
    /\ UNCHANGED <<server, registry, ctn, registered>>

Store(j) ==
    /\ At(j, "store")
    /\ registered' = registered \cup {j}
    /\ Goto(j, "start")
    /\ UNCHANGED <<server, registry, ctn>>

Start(j) ==
    /\ At(j, "start")
    /\ \/ /\ Connected /\ Goto(j, "started")
          /\ ctn' = [ctn EXCEPT ![j] = "running"]
       \/ /\ Return(j, "error")
          /\ \E c \in {"created", "running"} : ctn' = [ctn EXCEPT ![j] = c]
    /\ UNCHANGED <<server, registry, registered>>

\* The container ends by itself; Podman then removes it, which is also what Wait
\* finds when it is called too late.
Exit(j) ==
    /\ \/ ctn[j] = "running" /\ ctn' = [ctn EXCEPT ![j] = "exited"]
       \/ ctn[j] = "exited" /\ ctn' = [ctn EXCEPT ![j] = "removed"]
    /\ UNCHANGED <<server, registry, pc, registered, result>>

\* Mutant of BeginWait: it waits for a container that runs.
BeginWaitRunning(j) ==
    /\ At(j, "started")
    /\ \/ Connected /\ ctn[j] = "running" /\ Goto(j, "waiting")
       \/ ~Connected /\ Return(j, "error")
    /\ UNCHANGED <<server, registry, ctn, registered>>

BeginWait(j) ==
    /\ At(j, "started")
    /\ \/ Connected /\ ctn[j] # "removed" /\ Goto(j, "waiting")
       \/ (~Connected \/ ctn[j] = "removed") /\ Return(j, "error")
    /\ UNCHANGED <<server, registry, ctn, registered>>

\* Mutant of EndWait: it does not wait.
EndWaitEarly(j) ==
    /\ At(j, "waiting")
    /\ Goto(j, "collect") /\ registered' = registered \ {j}
    /\ UNCHANGED <<server, registry, ctn>>

\* The exit code, or an error: the container then stays registered.
EndWait(j) ==
    /\ At(j, "waiting")
    /\ \/ /\ Connected /\ ctn[j] \in {"exited", "removed"}
          /\ Goto(j, "collect") /\ registered' = registered \ {j}
       \/ Return(j, "error") /\ UNCHANGED registered
    /\ UNCHANGED <<server, registry, ctn>>

\* What the files have is the result, an error among it or not.
Collect(j, stage) ==
    /\ At(j, stage)
    /\ \E r \in {"result", "error"} : Return(j, r)
    /\ UNCHANGED <<server, registry, ctn, registered>>

PodmanStep(j) ==
    \/ Parse(j) \/ PullNil(j) \/ Pull(j) \/ Create(j) \/ TempFiles(j) \/ Attach(j) \/ Store(j)
    \/ Start(j) \/ BeginWait(j) \/ EndWait(j) \/ Collect(j, "collect")

-----------------------------------------------------------------------------
(* The WASM executor.                                                        *)

\* The module is read, the files are created, the module is instantiated and its
\* _start function found.
Load(j) ==
    \/ Step(j, "read", "outfile") \/ Step(j, "outfile", "errfile")
    \/ Step(j, "errfile", "load") \/ Step(j, "load", "running")

\* The function runs without a deadline or a context.  An error that is no exit
\* status is a trap, which is not a *wasmtime.Error.
RunModule(j) ==
    /\ At(j, "running")
    /\ \/ "exits" \in ModuleEnds /\ Goto(j, "output")
       \/ "fails" \in ModuleEnds /\ Return(j, "error")
       \/ "loops" \in ModuleEnds /\ Goto(j, "looping")
    /\ UNCHANGED <<server, registry, ctn, registered>>

Trap(j) == At(j, "running") /\ "traps" \in ModuleEnds /\ Panic

WasmStep(j) == Load(j) \/ RunModule(j) \/ Trap(j) \/ Collect(j, "output")

-----------------------------------------------------------------------------
(* The end of the server.                                                    *)

Signal ==
    /\ server = "up"
    /\ server' = "signalled"
    /\ UNCHANGED <<registry, pc, ctn, registered, result>>

\* What Kill does to the registered containers.
Killed ==
    [j \in Jobs |-> IF Connected /\ j \in registered /\ ctn[j] = "running"
                    THEN "exited" ELSE ctn[j]]

\* StopAllExecutors: the Lua and WASM executors cancel a context, the Podman
\* executor kills what is registered.  The process does not wait for its jobs.
StopAllExecutors ==
    /\ server = "signalled" /\ podman # "nil"
    /\ ctn' = Killed
    /\ server' = "stopped"
    /\ UNCHANGED <<registry, pc, registered, result>>

StopNil ==
    /\ server = "signalled" /\ podman = "nil"
    /\ server' = "crashed"
    /\ UNCHANGED <<registry, pc, ctn, registered, result>>

Next ==
    \/ \E j \in Jobs : Begin(j) \/ LuaEnds(j) \/ PodmanStep(j) \/ WasmStep(j) \/ Exit(j)
    \/ CollectNil \/ Signal \/ StopAllExecutors \/ StopNil

Spec == Init /\ [][Next]_vars

\* What a job may wait for without end: a container or a module that does not end,
\* and a container that could not be attached to.
HeldUp(j) == pc[j] \in {"hung", "looping"} \/ (pc[j] = "waiting" /\ ctn[j] = "running")

\* The goroutines of the jobs are scheduled, and calls return.  Nothing need end.
FairSpec ==
    Spec /\ \A j \in Jobs : WF_vars(~HeldUp(j) /\ (LuaEnds(j) \/ PodmanStep(j) \/ WasmStep(j)))

-----------------------------------------------------------------------------
(* A job returns one result, and only containers that were created are       *)
(* registered.                                                               *)
ExecutorsTypeOK ==
    /\ server \in {"up", "signalled", "stopped", "panicked", "crashed"}
    /\ podman \in {"enabled", "nil", "stub"} /\ wasm \in {"enabled", "stub"}
    /\ pc \in [Jobs -> PodmanStages \cup WasmStages \cup {"idle", "lua", "done"}]
    /\ ctn \in [Jobs -> {"none", "created", "running", "exited", "removed"}]
    /\ registered \in SUBSET Jobs
    /\ result \in [Jobs -> {"none", "result", "error", "nil"}]
    /\ \A j \in Jobs :
          /\ pc[j] = "done" <=> result[j] # "none"
          /\ j \in registered => podman = "enabled" /\ ctn[j] # "none"

(* "Go through each running container and kill them"                         *)
(* (podman_executor.go:372): Stop sees the containers that are registered,   *)
(* and a container is registered before it can run, whichever way the call   *)
(* that starts it ends.                                                      *)
RunningIsRegistered == \A j \in Jobs : ctn[j] = "running" => j \in registered

(* A container is waited for before its result is read and before it is      *)
(* forgotten: a job that returns a result leaves no container behind and no  *)
(* entry for Stop to kill.  Those left behind are of jobs that returned an   *)
(* error.                                                                    *)
ResultOfEnded ==
    \A j \in Jobs : (result[j] = "result" /\ ctn[j] # "none") =>
        ctn[j] \in {"exited", "removed"} /\ j \notin registered

(* What ends the process while it serves, or as it stops: a script that asks *)
(* for containers where there is no Podman to be had, a module that traps, a *)
(* script that Lua was given and cannot load, the nil executor's Stop.  A    *)
(* script whose executor is unknown is Lua's and does no more than that; and *)
(* one that cannot be loaded takes no other job of its message with it, nor  *)
(* leaves a container running but one whose own calls failed.                *)
Unloaded(j) == Executor[j] \in {"lua", "other"} /\ result[j] = "nil"
PanicsExplained ==
    /\ server = "panicked" =>
          \/ \E j \in Jobs : Executor[j] = "podman" /\ pc[j] = "pull" /\ podman = "nil"
          \/ \E j \in Jobs : Executor[j] = "wasm" /\ pc[j] = "running" /\ wasm = "enabled"
          \/ /\ \E j \in Jobs : Unloaded(j)
             /\ \A j \in Jobs : pc[j] = "done" /\ (ctn[j] = "running" => result[j] = "error")
    /\ server = "crashed" => podman = "nil"

(* A message is answered when all its jobs have returned, and the next ones  *)
(* wait for it: every job returns, unless it is held up by what it runs or   *)
(* the process ends.                                                         *)
ReturnsUnlessHeldUp ==
    \A j \in Jobs : pc[j] # "idle" ~> (pc[j] = "done" \/ HeldUp(j) \/ ~Alive)

(* "Go through each running container and kill them"                         *)
(* (podman_executor.go:372): when the server has stopped, no container that  *)
(* was registered runs any more.                                             *)
StopKillsContainers ==
    server = "stopped" => \A j \in registered : ctn[j] # "running"
=============================================================================
