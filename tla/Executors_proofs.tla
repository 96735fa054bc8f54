---------------------------- MODULE Executors_proofs ----------------------------
(***************************************************************************)
(* Proofs about Executors, for any jobs, executors and ends of modules.    *)
(***************************************************************************)
EXTENDS Executors, TLAPS

Stages == PodmanStages \cup WasmStages \cup {"idle", "lua", "done"}
States == {"none", "created", "running", "exited", "removed"}

\* The part of the type invariant that is about the variables one by one.
Types ==
    /\ server \in {"up", "signalled", "stopped", "panicked", "crashed"}
    /\ podman \in {"enabled", "nil", "stub"} /\ wasm \in {"enabled", "stub"}
    /\ pc \in [Jobs -> Stages]
    /\ ctn \in [Jobs -> States]
    /\ registered \in SUBSET Jobs
    /\ result \in [Jobs -> {"none", "result", "error", "nil"}]

\* Where a job is says how far its container is and whether it is registered.
Before(j) ==
    pc[j] \in WasmStages \cup {"idle", "lua", "parse", "pull", "create"} =>
        ctn[j] = "none" /\ j \notin registered
Created(j) ==
    pc[j] \in {"stdout", "stderr", "attach", "hung", "store"} =>
        ctn[j] = "created" /\ j \notin registered
Starting(j) == pc[j] = "start" => ctn[j] = "created" /\ j \in registered
Started(j) ==
    pc[j] \in {"started", "waiting"} =>
        ctn[j] \in {"running", "exited", "removed"} /\ j \in registered
Ended(j) == pc[j] = "collect" => ctn[j] \in {"exited", "removed"} /\ j \notin registered
Done(j) ==
    /\ pc[j] = "done" <=> result[j] # "none"
    /\ result[j] = "result" /\ ctn[j] # "none" =>
          ctn[j] \in {"exited", "removed"} /\ j \notin registered
    /\ ctn[j] = "running" => j \in registered /\ (pc[j] = "done" => result[j] = "error")
    /\ j \in registered => podman = "enabled" /\ ctn[j] # "none"

\* Where a job is says which executor it was given to.
Given(j) ==
    /\ pc[j] \in PodmanStages => Executor[j] = "podman" /\ podman # "stub"
    /\ pc[j] \in PodmanStages \ {"parse", "pull"} => podman = "enabled"
    /\ pc[j] \in WasmStages => Executor[j] = "wasm" /\ wasm = "enabled"
    /\ pc[j] = "lua" \/ result[j] = "nil" => Executor[j] \in {"lua", "other"}

JobInv(j) ==
    Before(j) /\ Created(j) /\ Starting(j) /\ Started(j) /\ Ended(j) /\ Done(j) /\ Given(j)

StageInv == Types /\ \A j \in Jobs : JobInv(j)

-----------------------------------------------------------------------------
\* The initial state.
LEMMA InitStages == Init => StageInv
BY DEF Init, StageInv, Types, JobInv, Before, Created, Starting, Started, Ended, Done, Given,
       Stages, States, PodmanStages, WasmStages

\* Every action keeps each job's stage, container and entry in step.
LEMMA NextStages == StageInv /\ [Next]_vars => StageInv'
<1> SUFFICES ASSUME StageInv, [Next]_vars PROVE StageInv'
  OBVIOUS
<1> USE DEF StageInv, Types, JobInv, Before, Created, Starting, Started, Ended, Done, Given,
            Stages, States, PodmanStages, WasmStages, registry, At, Goto, Return, Connected, Panic
<1>1. ASSUME NEW j \in Jobs, Begin(j) PROVE StageInv'
  BY <1>1 DEF Begin, ExecutorByName
<1>2. ASSUME NEW j \in Jobs, LuaEnds(j) PROVE StageInv'
  BY <1>2 DEF LuaEnds
<1>3. ASSUME NEW j \in Jobs, Parse(j) PROVE StageInv'
  BY <1>3 DEF Parse, Step
<1>4. ASSUME NEW j \in Jobs, PullNil(j) PROVE StageInv'
  BY <1>4 DEF PullNil
<1>5. ASSUME NEW j \in Jobs, Pull(j) PROVE StageInv'
  BY <1>5 DEF Pull
<1>6. ASSUME NEW j \in Jobs, Create(j) PROVE StageInv'
  BY <1>6 DEF Create
<1>7. ASSUME NEW j \in Jobs, TempFiles(j) PROVE StageInv'
  BY <1>7 DEF TempFiles, Step
<1>8. ASSUME NEW j \in Jobs, Attach(j) PROVE StageInv'
  BY <1>8 DEF Attach
<1>9. ASSUME NEW j \in Jobs, Store(j) PROVE StageInv'
  BY <1>9 DEF Store
<1>10. ASSUME NEW j \in Jobs, Start(j) PROVE StageInv'
  BY <1>10 DEF Start
<1>11. ASSUME NEW j \in Jobs, BeginWait(j) PROVE StageInv'
  BY <1>11 DEF BeginWait
<1>12. ASSUME NEW j \in Jobs, EndWait(j) PROVE StageInv'
  BY <1>12 DEF EndWait
<1>13. ASSUME NEW j \in Jobs, Collect(j, "collect") PROVE StageInv'
  BY <1>13 DEF Collect
<1>14. ASSUME NEW j \in Jobs, WasmStep(j) PROVE StageInv'
  <2>1. CASE Load(j)
    BY <2>1 DEF Load, Step
  <2>2. CASE RunModule(j)
    BY <2>2 DEF RunModule
  <2>3. CASE Trap(j)
    BY <2>3 DEF Trap
  <2>4. CASE Collect(j, "output")
    BY <2>4 DEF Collect
  <2> QED
    BY <1>14, <2>1, <2>2, <2>3, <2>4 DEF WasmStep
<1>15. ASSUME NEW j \in Jobs, Exit(j) PROVE StageInv'
  BY <1>15 DEF Exit
<1>16. CASE Signal
  BY <1>16 DEF Signal
<1>17. CASE StopAllExecutors
  BY <1>17 DEF StopAllExecutors, Killed
<1>18. CASE StopNil
  BY <1>18 DEF StopNil
<1>19. CASE UNCHANGED vars
  BY <1>19 DEF vars
<1>20. CASE CollectNil
  BY <1>20 DEF CollectNil
<1> QED
  BY <1>1, <1>2, <1>3, <1>4, <1>5, <1>6, <1>7, <1>8, <1>9, <1>10, <1>11, <1>12, <1>13, <1>14,
     <1>15, <1>16, <1>17, <1>18, <1>19, <1>20 DEF Next, PodmanStep

\* Stages, containers and the register agree in every state.
LEMMA StagesAgree == Spec => []StageInv
BY InitStages, NextStages, PTL DEF Spec

-----------------------------------------------------------------------------
\* Whatever the jobs, a job returns one result, and only containers that were created
\* are registered.
THEOREM ExecutorsTypeCorrect == Spec => []ExecutorsTypeOK
<1>1. StageInv => ExecutorsTypeOK
  BY DEF StageInv, Types, JobInv, Done, ExecutorsTypeOK, Stages, States
<1> QED
  BY <1>1, StagesAgree, PTL

\* Stop sees every container that runs, however many run and whichever calls fail.
THEOREM RunningIsRegisteredHolds == Spec => []RunningIsRegistered
<1>1. StageInv => RunningIsRegistered
  BY DEF StageInv, JobInv, Done, RunningIsRegistered
<1> QED
  BY <1>1, StagesAgree, PTL

\* A result is that of a container that has ended and is no longer registered.
THEOREM ResultOfEndedHolds == Spec => []ResultOfEnded
<1>1. StageInv => ResultOfEnded
  BY DEF StageInv, JobInv, Done, ResultOfEnded
<1> QED
  BY <1>1, StagesAgree, PTL

-----------------------------------------------------------------------------
\* A panic happens at the call that explains it, after which no job takes a step.
LEMMA PanicStep == StageInv /\ PanicsExplained /\ [Next]_vars => PanicsExplained'
<1> SUFFICES ASSUME StageInv, PanicsExplained, [Next]_vars PROVE PanicsExplained'
  OBVIOUS
<1>1. CASE server \in {"panicked", "crashed"} /\ ~(\E j \in Jobs : Exit(j))
  <2>1. UNCHANGED <<server, podman, wasm, pc, ctn, result>>
    BY <1>1 DEF Next, vars, registry, Begin, LuaEnds, PodmanStep, WasmStep, Parse, PullNil,
       Pull, Create, TempFiles, Attach, Store, Start, BeginWait, EndWait, Collect, Load, RunModule,
       Trap, Step, At, Alive, CollectNil, Signal, StopAllExecutors, StopNil
  <2> QED
    BY <2>1, <1>1 DEF PanicsExplained, Unloaded
<1>2. ASSUME NEW k \in Jobs, Exit(k) PROVE PanicsExplained'
  <2>1. UNCHANGED <<server, podman, wasm, pc, result>>
    BY <1>2 DEF Exit, registry
  <2>2. \A j \in Jobs : ctn'[j] = "running" => ctn[j] = "running"
    BY <1>2 DEF Exit, StageInv, Types
  <2> QED
    BY <2>1, <2>2 DEF PanicsExplained, Unloaded
<1>3. CASE server \notin {"panicked", "crashed"} /\ server' = "panicked"
  <2>1. (\E j \in Jobs : PullNil(j) \/ Trap(j)) \/ CollectNil
    BY <1>3 DEF Next, vars, registry, Begin, LuaEnds, PodmanStep, WasmStep, Exit, Parse,
       Pull, Create, TempFiles, Attach, Store, Start, BeginWait, EndWait, Collect, Load, RunModule,
       Step, Signal, StopAllExecutors, StopNil
  <2>2. ASSUME NEW j \in Jobs, PullNil(j) \/ Trap(j) PROVE PanicsExplained'
    <3>1. JobInv(j)
      BY DEF StageInv
    <3> QED
      BY <1>3, <2>2, <3>1 DEF PullNil, Trap, At, Panic, PanicsExplained, JobInv, Given,
         PodmanStages, WasmStages, registry
  <2>3. CASE CollectNil
    <3>1. UNCHANGED <<pc, ctn, result>>
      BY <2>3 DEF CollectNil, Panic
    <3>2. \A j \in Jobs : pc[j] = "done" /\ (ctn[j] = "running" => result[j] = "error")
      BY <2>3 DEF CollectNil, StageInv, JobInv, Done
    <3>3. \E j \in Jobs : Unloaded(j)
      BY <2>3 DEF CollectNil, StageInv, JobInv, Given, Unloaded
    <3> QED
      BY <1>3, <3>1, <3>2, <3>3 DEF PanicsExplained, Unloaded
  <2> QED
    BY <2>1, <2>2, <2>3
<1>4. CASE server \notin {"panicked", "crashed"} /\ server' = "crashed"
  <2>1. StopNil
    BY <1>4 DEF Next, vars, registry, Begin, LuaEnds, PodmanStep, WasmStep, Exit, Parse, PullNil,
       Pull, Create, TempFiles, Attach, Store, Start, BeginWait, EndWait, Collect, Load, RunModule,
       Trap, Step, Panic, CollectNil, Signal, StopAllExecutors
  <2> QED
    BY <1>4, <2>1 DEF StopNil, registry, PanicsExplained
<1>5. CASE server' \notin {"panicked", "crashed"}
  BY <1>5 DEF PanicsExplained
<1> QED
  BY <1>1, <1>2, <1>3, <1>4, <1>5

\* Whatever the jobs, the process ends only for one of the four reasons, and for a
\* script that cannot be loaded only when the other jobs have returned.
THEOREM PanicsExplainedHolds == Spec => []PanicsExplained
<1>1. Init => PanicsExplained
  BY DEF Init, PanicsExplained
<1> QED
  BY <1>1, PanicStep, StagesAgree, PTL DEF Spec
=============================================================================
