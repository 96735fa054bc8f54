# Specifications of msgscript

msgscript runs scripts when messages arrive on NATS subjects.  A server process
subscribes to every subject, looks the subject up in a script store, has each script
executed in a Lua, WASM or container executor, and publishes the results as the
answer; an HTTP server turns requests into such messages.  Several servers may share
one NATS and one etcd; a lock per Lua script keeps them from executing it at the same
time.

This directory holds TLA+ specifications of that system, written from the Go code, TLC
configurations that check them on small instances, and proofs checked by TLAPS for
every instance.  Paths such as `store/etcd.go:247` are relative to the repository root.

## Running

    tlc -workers 2 -config LockFaults.cfg MCScriptLock.tla
    tlapm ScriptLock_proofs.tla

`PROJECT.json` lists the runs with their modules and properties, the theorems, the code
each definition stands for, and the mutants: for every property, an operator that
changes one definition as a plausible bug would, and that the property is known to
catch.  Mutants stand before the definitions they replace, with a comment
`Mutant of ...`; no specification uses them.

## Inventory

| component | state | operations | specified in |
|---|---|---|---|
| Script lock (`store/etcd.go:177-256`) | etcd keys and leases; `mutexes`, the process's map; timers | `TakeLock`, `ReleaseLock`, the give-up timer | `ScriptLock`, `LockService` |
| Message handler (`cmd/server/main.go:134-294`, `messages.go`, `reply.go`) | the subscription's queue, the channel of results | receive, list, names, info, acknowledge, look up, fan out, collect, reply | `MessageHandler` |
| Lua executor (`executor/lua_executor.go`) | temporary directories, the working directory, Lua states, deadlines | `HandleMessage`, `Stop` | `LuaExecutor` |
| Cluster (the three above, on several servers) | messages on their way, answers | publish, receive, execute, reply, crash, restart | `Cluster` |
| HTTP proxy (`cmd/server/http*.go`) | requests waiting for an answer, with their age | request with a timeout, listings, first answer, error and HTML answers | `HttpProxy` |
| Executor registry and lifecycle (`executor/executor.go`, `main.go`) | the map of executors, the signal's context | start, look up, stop | `Executors` |
| WASM executor (`executor/wasm_executor.go`) | the stage of each execution | `HandleMessage`, `Stop` | `Executors` |
| Podman executor (`executor/podman_executor.go`) | containers, the register of containers | `HandleMessage`, `Stop` | `Executors` |
| Etcd store (`store/etcd.go`) | keys of scripts and of libraries | add, delete, get, list, load libraries | `EtcdStore`, `ScriptStore` |
| File store and `StoreByName` (`store/file.go`, `store/store.go`) | two-level map of scripts, map of libraries | the same, filled from directories at the start | `FileBackend`, `FileStore`, `ScriptStore` |
| Script files (`script/script.go`) | the script being filled, what has been read | `Read`, `ReadScriptDirectory`, `ReadLibraryDirectory` | `ScriptText`, `ScriptFile` |
| `cli list` (`cmd/cli/cmd_list.go`) | the rows of the table | list subjects, get the scripts of each | `ListCommand` |
| `cli lib add` (`cmd/cli/cmd_lib_add.go`) | the libraries read, how many are added | read arguments, add one by one | `LibAdd` |
| `cli devhttp`, dev store (`cmd/cli/cmd_devhttp.go`, `store/dev.go`) | a store shared by requests, libraries read | receive, read, add, load, respond | `DevHttp` |
| `cli add`, `rm` | none | one store call each | as writers in `ListCommand` |
| `cli dev`, Lua modules, plugins, telemetry, templates, packaging | none of their own | one run of a script; bindings to client libraries; set-up | no |

How they interact.  NATS calls the message handler with one message at a time.  The
handler reads the store and starts one goroutine per script; each goes to an executor.
The Lua executor loads libraries from the store, takes the script's lock in the store,
runs the script and releases the lock in a deferred call; the other two run what they
are given without a lock, on every server.  All send their results to one channel.  The
handler drains it when all are done and publishes the reply, which the server's own
subscription receives as well.  Every server answers every message, and the HTTP proxy,
which runs inside each server and is a NATS client like any other, takes the first
answer that comes in time.  A script may make HTTP requests of its own.  `cli` processes
write to the store while servers read it; `cli devhttp` is a small server of its own,
with one store in memory for all its requests.

What is hard.  Servers contend for a lock whose implementation puts a key before it
looks for others; releases find the mutex by the script's name in a map shared by all
goroutines and by a timer; calls to etcd fail after they took effect; processes die with
locks held; nine early returns lie between what an execution acquires; the handler hears
its own answers; the first of several answers may be that of a server that was refused
the lock; a script may wait for a callback that waits for the script; clients give up
while scripts run; containers outlive calls that failed, and the server; libraries and
listings are read piece by piece while others write; overlapping requests write one map.
`PROJECT.json` lists these hazards at their lines, with the properties that cover them
or the reason none does.

What makes each component correct.  *Lock*: no two executions of a script at once; a
release is of one's own lock; somebody gets a free lock; locks do not outlive their
holders.  *Handler*: one final answer, complete, acknowledged first when asynchronous; no
feedback loop.  *Executors*: everything acquired is given back on every path, in the right
order; what runs is registered to be stopped; a result is of something that has ended;
every execution ends that can.  *Cluster*: a message gets executed, and answered.
*Proxy*: every request ends, and what clients left behind comes to rest.  *Stores*: a call
answers as a map from subject and name would.  *Files*: what is served is what the files
say.  *Commands*: a table shows what is there, libraries are added in order, a developer's
script runs with what is or was just now on disk.

## Modules

Every module that stands for code has one action per step of the code that another
process or goroutine can come between; the parts of a call that nobody can interrupt
visibly are one action.  Scripts, libraries, names and subjects are model values or
members of small sets.

**ScriptLock.**  A *job* is one execution: a `TakeLock` and, when it succeeds, the script
and its deferred `ReleaseLock`.  `TakeLock` is `NewSession` (a lease and its
keep-alive), `TryAcquire` (the transaction of the etcd client's `Mutex.TryLock`),
`Withdraw` (its delete of the loser's key) and `Store` (the timer and the map entry).  A
job holds the lock when no other job's key was there in the transaction that put its
own.  `ReleaseLock` is `Load`, then `Unlock`, then `Forget`, each of which another
goroutine may come before; it is called by the executor with the script's name
(`Finish`) and by the timer with the lock key (`TimerFires`).  The environment may, by
`Faults`, let calls fail with or without their effect ("rpc"), lose a lease under a live
process ("lapse", `Lapse`) and kill processes ("crash", `Crash`), whose leases then
expire; dead processes come back (`Restart`).  etcd and its client are external: they
are specified from how `store/etcd.go` uses them.

**LockService.**  What the lock promises: an execution begins only while no other of its
name is active, on any server, and never twice.  The promise is waived where a lease has
lapsed and is not made for a script whose name is the lock key of another.

**MessageHandler.**  The subscription's callback.  `Receive` takes the next message; the
administrative subjects are answered in one action (`List`, `Info`, `InfoPanic`), others
go through `Decode` (with the acknowledgement of asynchronous messages), `Lookup` or
`LookupError`, `RunScript` per goroutine, and `Collect`.  `InfoPanic`, `ScriptPanics`
and `CollectPanics` end the process as a Go panic does.  `Echoes` puts published answers
back in the inbox, since the subscription is on `>`.  `Answer` may lose what it publishes,
since `reply.go` only logs a failed `nc.Publish`; `unheard` is history and remembers whose
answers were lost.  An acknowledgement that fails is the one that is noticed: `Decode`
then drops the message.  `Endless` names the scripts nothing makes end, those of WASM and
Podman: a callback that waits for such scripts alone is `HeldUp`.

**LuaExecutor.**  `HandleMessage` as a sequence of stages, each of which may return early;
`defers[j]` is the job's stack of deferred calls and `Unwind` runs them.  The working
directory is one per process, as `os.Chdir` has it.  `Stop` cancels the context of all
executions.

**Executors.**  One server process from `StartAllExecutors` to `StopAllExecutors`, with
the executions of WASM modules and containers stage by stage (`PodmanStages`,
`WasmStages`); a Lua execution here just ends, with a result, an error or nil;
`CollectNil` is the collecting loop that dereferences the nil (`main.go:272`) once all
executions have returned.  `podman` and `wasm` say what the map of executors holds: an
executor, the stub of a build without it, or, for podman without its socket, the nil
pointer in a non-nil interface (`executor.go:74`).  `ctn[j]` is the container of an
execution; a call that fails may have had its effect.  Podman and its bindings are
external; the connection is made with the context that the signal cancels, so that no call
succeeds afterwards (`Connected`).  `Exit` is the end of a container.

**Cluster.**  Extends `ScriptLock` with messages: `Publish` delivers a message to every
server that is up, each server handles one at a time (`Receive`, `Reply`), and a job is
one server's execution for one message.  Crashes lose what was on its way.

**HttpProxy.**  `ServeHTTP` and the listings as requesters with a timeout, in front of
several servers, whose callbacks are reduced to the answers they give.  Locks are
`ScriptLock`'s subject: here a script gets its lock or is refused it at any time
(`TakeLock`, `Refused`), since the key in the way may also be that of a loser who has yet
to withdraw it, or one a failed call left, and no property depends on who has the lock.
An answer may be lost as in `MessageHandler`, and scripts in `Endless` need not end.
`Publish` hands a request to every server, `Respond` takes the first answer, `Expire` is
the request's timeout or, for a listing, that of its connection; `Drop` is NATS forgetting
answers nobody waits for.  Time is counted in ticks; a timer that is due comes first.
`Calls` says which request a script makes.  Writing an answer after the server's
`WriteTimeout` reaches nobody ("cut"); a result without a status code, and a listing with
no result, panic in their own connection ("aborted").

**EtcdStore, FileStore, ScriptStore.**  `ScriptStore` is the promise of the interface: maps
that a call reads or writes whole, and failing calls that may have had their effect.
`EtcdStore` has the keys and prefix ranges the code uses and reads libraries key by key;
`FileStore` has maps of maps.  Both are shown to implement `ScriptStore`.

**ScriptText, ScriptFile, FileBackend.**  `ScriptText` is what one line of a file does to
the script being read; `ScriptFile` reads directories file by file and line by line;
`FileBackend` is `StoreByName`: it reads the script directory, adds the scripts in any
order, reads and adds the libraries, and serves.  What lines mean as a whole, wherever
their headers stand (`Script`, `Meaning`), is what the property compares that with.
(Without a script directory it fails at once, `store.go:46`, which is why `cli` cannot
open a file store; that is left out.)  A scanner that meets a line longer than its buffer
stops silently, as the code never asks it for its error.

**ListCommand, LibAdd.**  `cli list` over an `EtcdStore` that others write to; `cli lib
add`, which reads its arguments one after another (`Parse`, `ParseNext`) before it adds
anything, and a server that loads libraries meanwhile.

**DevHttp.**  The requests of `cli devhttp`: each walks the library directory (`ReadNext`,
`WalkEnds`), adds what it read to the shared store (`AddLibrary`), adds its script and
loads the libraries it requires (`Load`), while the developer saves files (`Edit`) and
other requests do the same.  The store's maps have no lock; two requests at them at once
may end the process (`RaceDies`).  A file is a name, that of its header, and a text:
libraries are stored under the name, so that of two files with one name the later of the
walk overwrites the earlier, and `Edit` may change either or remove the file.  At the
start the store has each file under its path, or is empty when the command is given no
library directory.  `own`, `fresh` and `met` are history: what a file has been since the
request began, the texts files have had under a required name since it or one it met
began, and which requests met another.

**Commands.**  One of the commands, or plain calls of the store, per behaviour; the etcd
store is one and the same, `DevHttp` is an instance of its own.

The `MC...` modules give the constants their values for TLC.


## Runs

| run | shows | size |
|---|---|---|
| `LockFaults` | `MutualExclusion`, `ReleasesOwnLock`, the inductive `LockInv`, and the refinement of `LockService`, with every fault | 3 jobs of one script, two on one server: 119 thousand states |
| `Cluster` | a message that meets no other is executed; contenders never all give up; every server answers; every key leaves etcd | 2 servers, 2 messages, one server crashing: 76 thousand |
| `HandlerScripts` | replies are complete, acknowledged first, final once; every request is answered unless the server panics, the publishing fails or a script never ends; so the server falls silent | 4 requests, 2 scripts, one endless: 125 thousand |
| `LuaCluster` | resources, their order, locks, directories; every execution returns | 3 executions on 2 servers: 178 thousand |
| `Executors` | what `Stop` can see of the containers, what a result says of its container, which scripts end the process, which jobs return | 2 containers, a module and a misspelt executor, every registry: 149 thousand |
| `HttpProxy` | every request ends though callbacks wait for one another; what clients leave behind comes to rest; a script's own request is answered elsewhere | 2 servers, 4 requests, one script without a deadline: 89 thousand |
| `Commands` | the promise of `ScriptStore`; libraries are those required; the table of `list`; what `lib add` leaves; the libraries `devhttp` runs with, and which of two files of a name | 2 subjects, 2 names, 2 libraries, 2 library files: 299 thousand |
| `FileBackend` | what is served is what the last files say, all or nothing; the promise of `ScriptStore` | every directory of one file of 2 lines or 3 files of 6 kinds: 16 thousand |
| `HandlerError` | *violated*: the error of a script that fails to load is not reported | 1 request |
| `StoreOverlap` | *violated*: a subject gets the scripts of those that begin with it | 2 subjects |
| `ClusterLost` | *violated*: every server refuses a message for the sake of another | 3 messages |
| `StopKills` | *violated*: no registered container runs after the server has stopped | 1 container |

### Why these bounds

Three jobs of one script are what the lock's hazards need: one that holds it, one whose
release or timer comes late, and one that contends; two of them share a server, since the
map is shared only there.  `SomeoneWins` and `KeyLeaves` are checked in `Cluster`, where
calls do not fail and each server has one execution at a time: two executions of one name
on one server can lose each other's map entry (see below), and failing calls leave keys
behind for as long as the process lives.  `Cluster` needs two messages for a server to be
behind another, and lets one server crash (`Mortal`); with both crashing the same
properties hold in 424 thousand states, which take minutes.  The four requests of
`HandlerScripts` have answers that come back on a reply inbox, on an administrative
subject, on the panicking one and on a script's; two scripts are the least with which a
result can be late, missing or nil among others, and one of them need not end.  In
`LuaCluster` two jobs share a working directory and two share a lock.

`Executors` has two containers, so that one may be running while the other is created or
left behind, one job for each other executor, and all registries the code can build; any
call of Podman may fail, and the signal may come at any moment.  In `HttpProxy` a script
run by the first server requests a page whose script, run by the second, requests a
listing: both callbacks are then occupied and the listing can only end by its timeout.
The timeouts are 0, 1 and 2 ticks, and `WriteTimeout` is 2, so that answers come before,
at and after each; one of the scripts has no deadline.  `Commands` has one command at work
per behaviour, with any calls of the store beside it; two overlapping requests of
`devhttp` on two library files, one of which may go and come back while the other takes
the first's name in its header, with another text, and gives it up again; and seven
argument lists of `lib add`, each for a way its reading can go.  `FileBackend` has three
files because two of them must collide and a third must come between or after, and lines
enough for a header after the content, a repeated header and a line that is too long.

Deadlock checking is off where the system comes to rest: all messages handled, all jobs
done, no request left.  The stores, which can always be called, are checked for it.

### Fairness

*Lock, in the cluster*: the steps of `TakeLock` and `ReleaseLock` that have begun are
taken (goroutines are scheduled, calls to etcd return), a script ends
(`MAX_LUA_RUNNING_TIME`, `lua_executor.go:165`), and etcd revokes leases nobody keeps
alive.  Nothing makes a message come, a timer win against the script's end, or a dead
process come back.  `Execute` is one fair action per job, since at most one of its steps
is possible at a time.
*Handler*: the callback runs, and Lua scripts end, which have a deadline
(`lua_executor.go:165`).  Those of WASM and Podman need not (`Endless`), and `Answered`
and `Quiesces` except a callback that waits for them for ever.  Clients need not send.
*Executor*: each job's goroutine runs, so that `Returns` shows that no stage waits for
another's.
*Executors*: the same, for jobs that are not `HeldUp`.  Nothing makes a container or a
module end: a module has no deadline (`wasm_executor.go:181`), and nobody closes the
connection of a container whose attachment failed.  No fairness is asked of the signal.
*Proxy*: the goroutine of a request that was made runs, callbacks run, locks are taken or
refused, scripts that have a deadline end, and time passes.  Nobody need make a request.
`ComesToRest` excepts servers held up by a script without a deadline.
*Files*: `StoreByName` runs.

## What the violated properties show

`HandlerError`: when `DoString` fails, `HandleMessage` returns nil and not the result
with the error it has just filled (`executor/lua_executor.go:215`); the collecting loop
then reads a field of nil and the server process ends.  README.md:127 says that the
error is reported.

`StoreOverlap`: `GetScripts` reads the prefix `msgscript/scripts/<subject>` without a
slash after it, so `funcs.foo` gets the scripts of `funcs.foobar` (`store/etcd.go:120`).

`ClusterLost`: a server tries the lock once per message.  When s1 is still at m1 and s2
comes to m2, s2 is refused; when s1 comes to m2, s2 may hold or ask for the lock for the
sake of m3, or not yet have withdrawn its key, and s1 is refused: m2 is answered by both
and executed by none, against README.md:81.  `QuietMessageRuns` says when this cannot
happen.

`StopKills`: the connection to Podman is made with a context derived from the one that
the signal cancels (`podman_executor.go:372-374` kills over that connection), and the
signal comes before `StopAllExecutors`.  Every kill fails, its error is dropped, and the
containers run on after the server has gone.

Other things met on the way, which are not runs of their own:

- The give-up timer of `TakeLock` releases the path plus `_lock` (`store/etcd.go:247`)
  while the mutex is stored under the path: it removes nothing, against the comment at
  line 244.  With it repaired as the comment has it, a late timer could release a lock in
  use; as it is, a script called like another's lock key is the only one whose lock the
  timer can take away, and `MutualExclusion` excepts it (`Aliased`).
- No session is closed: a lease and its keep-alive goroutine stay for every message as
  long as the server lives, so a key left by a failed call does too.
- Between `Unlock` and `mutexes.Delete` another execution of the name on the same server
  may store its mutex, which is then removed from the map; its own release finds nothing
  and its key stays.  `LockInv` shows that this lets nobody in.
- The losers of the lock answer first, so that with several servers a client is often
  told "cannot get lock" although its script runs, where README.md:117-121 shows results.
- `replyMessage` and `replyWithError` only log a failed `nc.Publish` (`reply.go:40-45`),
  for instance of a document beyond the limit of NATS: the requester waits until its own
  timeout.
- A module that loops, or a container that is never attached to, holds the one callback
  of its server for good: every later message waits behind it.
- Only Lua scripts take the lock: with several servers a module or a container runs on
  each of them, for the same message.
- The JSON answer is an array (`cmd/server/http.go:242`), which README.md:121-125 shows
  as an object by script name; the branch for 404 (`http.go:189`) is never reached.
- An HTML script that fails has status code 0, for which `WriteHeader` panics; a listing
  without results panics on `Results[0]`.  Both abort their own connection only.
- A WASM module that prints JSON without a payload has its output dropped
  (`wasm_executor.go:214`).
- Without a Podman socket the registry holds a nil pointer in an interface
  (`executor.go:74`): a script for it, or the shutdown, dereferences it.
- A container that fails to start, or whose wait fails, stays registered; one whose
  attachment fails keeps its job waiting.
- `cli list` shows a subject with n scripts n times (`cmd_list.go:42`), as
  `ListSubjects` returns one entry per key.
- `cli rm` prints "removed" after an error (`cmd_rm.go:33-38`).
- `cli lib add` ignores the error of its walk (`cmd_lib_add.go:73`) and, for a directory
  given without `-r`, opens the directory itself for each file (line 100) and so adds
  empty libraries without a name.
- `emptyStore` replaces a copy (`cmd_devhttp.go:166-167`, `233-235`): libraries whose file
  is deleted, or loses or changes its name header, stay under their names as they were.
  `LibrariesFresh` is therefore about names some file bears all through the request.
- `cli devhttp` stores libraries under their name headers (`cmd_devhttp.go:151`) without
  comparing them: of files that share one the last of the walk is what scripts get
  (`LastOfWalk`), and a request that meets another may get an earlier one's.
- `cli dev` prints a nil error and stops its executors only on success
  (`cmd_dev.go:123-127`).
- `DevStore.LoadLibrairies` skips a missing library silently (`store/dev.go:121-130`),
  where the etcd store fails.
- README.md:78 names the header `http`; the reader knows `html` (`script.go:91`).
- A malformed info request is answered twice, or ends the process (`main.go:170-173`);
  `ReplyProtocol` excepts it.

## Proofs

Each `..._proofs` module extends the module it is about.  In each, a lemma shows that the
initial states have an inductive invariant, one lemma per action (or one step of a lemma)
that steps keep it, and the theorems follow from it.  The constants are any that satisfy
the assumptions their modules state: functions have the right domains and ranges, model
values that stand for nothing are not members of the sets, sets of scripts, subjects and
names are finite.

**ScriptLock_proofs**: `TypeCorrect`, `LockInvariant`, `MutualExclusionHolds`,
`ReleasesOwnLockHolds`, `SomeoneWinsHolds`, and `Refinement`, the implementation of
`LockService`, for any servers, names, jobs and faults (lock keys are distinct, and none
is its own name).

`MutualExclusion` is not inductive: from a state in which a running job's key is missing,
another could acquire the lock.  `LockInv` adds what prevents that.  `LeaseInv`: a
holder's lease is kept or lapsed.  `OwnerInv`: the key of a *sound* holder is in etcd, and
there is one sound holder per name.  A key leaves etcd by its lease, by `Withdraw`, or by
a release; so `ReleaseInv` says what a release in progress may be about to unlock: the
mutex of a job of the same name and server, and its own where the lock is sound.
That in turn depends on what the map may hold, since releases look it up by name:
`MapInv` says that under a name where a sound job runs the map has that job or nothing.
Nothing is the case of an entry a slow release removed, and is why the invariant does not
say that the map has the holder.

A job is `Sound` unless its name is another's lock key or a lease lapsed under that name
on its server.  The proof of the induction step first shows that soundness is never
gained (`SoundStep`), then takes the actions one by one, and under each the parts of
`LockInv`.  Of etcd it uses that the transaction of `TryLock` is atomic, and of leases
only that one that is kept does not expire.

`SomeoneWinsHolds` has an invariant of its own, `GrantInv`, for runs without failing calls
and lapses: whenever some job has asked for a lock, some job has got it.  A job can only
lose to a key that is there, so the first key of a name always wins; `Faults` is a
constant, so the theorem splits on it.

`Refinement` maps an execution's `running` to LockService's `active`.  `Store` is the
step that begins an execution; that the lock is free then is `OwnerInv`.  `Finish`,
`Crash` and refusals close, `Lapse` waives, all others stutter.

The same module has the proofs of `Cluster`, which extends `ScriptLock`.
`ClusterIsScriptLock`: every step of the cluster is one of the lock or leaves it alone, so
that the theorems above hold in it; `ClusterSomeoneWins` is one of them.
`QuietMessageRunsHolds`: a message that meets no other is executed once all servers that
got it have answered, under `Calm` (no failing calls, no lapsing leases) and `PlainNames`
(no script is called like a lock key, without which the give-up timer may take a lock
away).  Its invariant is about a message that has been alone since it was published.
`WorkInv` relates a job to its server, lease, key and map entry: a key that is there is
that of a job at work or of a dead process.  `SentInv`: what a server is busy with was
sent, and what runs has been counted as executed.  `AloneInv`: a message alone is over and
executed, or it is the only one under way, no dead process's key stands, and as soon as
one of its jobs has a key, or has lost, another or the same has won; the first job of it
to ask meets no key and therefore wins.  It was not inductive until `WorkInv` said that a
job whose deferred release is cleaning up has unlocked its mutex, since its key would
otherwise stand in the way of the next message.

**MessageHandler_proofs**: `HandlerTypeCorrect`, `ReplyProtocolHolds`,
`ResultsCompleteHolds`, `AckBeforeRunHolds`, from `HandlerInvariant`, whichever
publications fail.  `Travel`: every request is in one place only (unsent, in the inbox, at
work, done), and what the server hears of itself is not a request.  `Replied`: what has
been published for a request agrees with its place.  `Gathered`: the results of the call
at work are those of its finished goroutines, each once.  `Complete`: the property of the
replies already out, which the first three give at the moment `Collect` publishes one.

**LuaExecutor_proofs**: `LuaTypeCorrect`, `RunsInsideHolds`, `OneStatePerNameHolds`,
`CleanReturnHolds`, from `BalanceHolds`: at every stage the deferred calls on the stack
are exactly those that give back what the execution holds (`Balanced`), and the lock of
a name has one owner (`Exclusive`).  An empty stack then means that nothing is held.
`RunsInOwnDirectoryHolds` has an invariant more, about the working directory of a server
on which a job is alone.

**Executors_proofs**: `ExecutorsTypeCorrect`, `RunningIsRegisteredHolds`,
`ResultOfEndedHolds`, `PanicsExplainedHolds`, from `StageInv`, which says for each stage
of a job what its container may be, whether it is registered, and which executor it has.
`PanicsExplained` says how the process may end before its time: the nil executor of
Podman, called by a script or at the shutdown; a WASM module that traps; or a result that
is nil, of a Lua script that does not load, when all executions have returned.

**HttpProxy_proofs**: `ProxyTypeCorrect`, with `Goroutines`, that only the scripts of the
request in the callback run.  `InnerAnsweredElsewhereHolds` rests on `InnerInv`: while a
request made by a script waits, that script runs in its server's callback, which therefore
has not answered; once it can, the request is over.

**FileBackend_proofs**: `ServesDirectoriesHolds`, `FileStoreImplementsStore`,
`NothingOfUnfit` and `ScriptsAreTheirLines`, for any directories of any files of any
lines whose scripts have a place in the store (`DirectoryAssumption`).  The invariant
`BackendInv` says three things of every moment while `StoreByName` runs.  `Opened`: the
script being filled is what the lines read so far mean.  `ScriptsRead`: under each
subject and name, what is read and still to be added, or else what is in the store, is
what the last of the files passed so far says; that "or else" (`Have`) is what makes it
hold in whatever order the scripts are added.  `LibrariesRead`: so with libraries, where
the last one of a name that is still to be added counts (`HaveLibrary`), since they are
a sequence and the store keeps one.  `Stored`, the two levels of maps as one, is the map
of the refinement.

What lines mean is recursive (`Chosen`), and the proof needs what it gives for one line
more.  The library's induction takes a predicate, which no prover here can instantiate;
the module proves instead, from the well-foundedness of finite sets, that a set of
naturals has a least member (`LeastNumber`), hence induction for a set
(`NatSetInduction`) and recursion for a function (`Recursion`), and uses these.

**DevHttp_proofs, Commands_proofs**.  *The etcd store*: `EtcdTypeCorrect`,
`LoadsRequiredHolds`, `StoreRefinement` (the promise of `ScriptStore`) and
`GetsOwnScriptsHolds`.  `Reading` says that what a call of `LoadLibrairies` has read so
far is what each library was at some moment since it began.  The last two theorems assume
`PrefixFree`, that no subject begins with another; `StoreOverlap` shows that they fail
without it.  *The commands*: `ListsTheStoreHolds` (under `PrefixFree`): a key that has
stood since the command began is in the table or its subject is still to be asked for.
`AddsInOrderHolds`: the store is what it was before with the first libraries of those read
added.  `DevLibrariesFresh`: the invariant `DInv` follows each name from the disk through
a request's reading to the shared map and to the script.  Once a request has read a file
that bears the name, the name is in its hands or in the store, and whatever any request
under way may still write there, or has written, is among the texts (`fresh`) that the
others may get.  It claims no more than that the text is one some file had under the name,
since files may share it.  `DevLastOfWalk` says which file's, for a request alone: `LInv`
keeps that, from the moment the last file of a name is read, its text is the last of that
name among those still to be added, or in the store with none left to be added.
`Commands` adds to both that nothing else touches that store.  `CommandsAreCalls` shows
that the commands use the store only by its calls, whatever arguments they are given, so
that `CommandsImplementStore` follows from `StoreRefinement`.

What stays with TLC is liveness (`KeyLeaves`, `EachServerAnswers`, `Answered`, `Quiesces`,
`Returns`, `ReturnsUnlessHeldUp`, `EveryRequestEnds`, `ComesToRest`, and the half of
`AllOrNothing` that says that something happens), which needs fairness and `ENABLED`.
Every other property of the passing runs is stated by a theorem.

## Not modelled

- Contents: what a Lua script computes, JSON, HTML, headers of HTTP.  A script ends with a
  result, with HTML, with an error, as nil or by a panic.
- `WatchScripts` of the stores, the recursive `ReadScriptDirectory` and the SQLite
  backend's name: nothing calls them.
- Authentication, TLS and reconnection of the NATS and etcd clients, but for the failing
  calls and lapsing leases above.
- What `main` does before it starts the executors: flags, telemetry, the embedded NATS
  server.  A failure there ends the process before there is any state.
- `cli dev`, which runs one script once in a store nobody shares; the flags and messages
  of `cli add` and `rm`, each of which is one call of the store.
- The Lua modules and the plugins, which hand a call from Lua to a client library and
  keep nothing; templates and packaging; tracing and logging.
- Names with slashes, with which two keys of the etcd store could be one
  (`EtcdStore` has distinct keys for distinct subjects and names).

## What could come next

- Crashes in `HttpProxy`, and several scripts per subject in `Cluster`: each is now
  modelled in the other only.
- A bound on sessions, which the code would have to have first.
