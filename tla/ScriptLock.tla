------------------------------ MODULE ScriptLock ------------------------------
(***************************************************************************)
(* The per-script lock of the etcd store: TakeLock, ReleaseLock and the    *)
(* give-up timer of src/store/etcd.go, over the etcd client's session and  *)
(* mutex and over etcd's leases.                                           *)
(*                                                                         *)
(* A job is one execution of one script by one server: one TakeLock and,   *)
(* when it succeeds, the script and its deferred ReleaseLock.  Every       *)
(* TakeLock opens a session of its own, so a job stands also for its       *)
(* session, for the lease of that session and for the key put with it.     *)
(***************************************************************************)
EXTENDS FiniteSets

CONSTANTS
    Servers,    \* the msgscript processes that share one etcd
    Names,      \* the script names (the `path' given to TakeLock)
    Jobs,       \* the executions
    NoJob,      \* not a job
    Server,     \* the process that runs a job
    Path,       \* the name of the script a job runs
    LockKey,    \* the string path + "_lock"; it may itself be a script name
    Faults      \* what the environment may do: "rpc", "lapse", "crash"

ASSUME NoJobAssumption == NoJob \notin Jobs
ASSUME JobAssumption == Server \in [Jobs -> Servers] /\ Path \in [Jobs -> Names]
ASSUME LockKeyAssumption ==
    /\ DOMAIN LockKey = Names
    /\ \A n \in Names : LockKey[n] # n
    /\ \A m, n \in Names : LockKey[m] = LockKey[n] => m = n
ASSUME FaultsAssumption == Faults \subseteq {"rpc", "lapse", "crash"}

VARIABLES
    up,         \* up[s]: the process s runs
    pc,         \* where each job is between TakeLock and ReleaseLock
    lease,      \* the lease of the session each job opened
    keys,       \* the jobs whose lock key is in etcd
    unlocked,   \* the jobs whose Mutex.Unlock succeeded (myKey = "\x00")
    mutexes,    \* mutexes[s][n]: the sync.Map of process s
    timer,      \* the time.AfterFunc of each job
    call,       \* the calls of ReleaseLock, by job and by caller
    loaded      \* the entry each of these calls found

etcdVars == <<lease, keys>>
mapVars == <<mutexes, unlocked>>
callVars == <<call, loaded>>
vars == <<up, pc, etcdVars, mapVars, timer, callVars>>

Locks == Servers \X Names

\* ReleaseLock is called by the deferred statement of the executor and by the
\* timer of TakeLock.
Callers == {"defer", "timer"}
Calls == Jobs \X Callers

\* A release in progress has found a mutex.
TypeOK ==
    /\ up \in [Servers -> BOOLEAN]
    /\ pc \in [Jobs -> {"idle", "session", "lost", "won", "running",
                        "finished", "refused", "crashed"}]
    /\ lease \in [Jobs -> {"none", "kept", "orphaned", "lapsed", "expired"}]
    /\ keys \in SUBSET Jobs
    /\ unlocked \in SUBSET Jobs
    /\ mutexes \in [Servers -> [Names -> Jobs \cup {NoJob}]]
    /\ timer \in [Jobs -> {"off", "armed", "fired", "stopped"}]
    /\ call \in [Calls -> {"idle", "unlocking", "cleaning", "done"}]
    /\ loaded \in [Calls -> Jobs \cup {NoJob}]
    /\ \A c \in Calls : call[c] \in {"unlocking", "cleaning"} => loaded[c] \in Jobs

Init ==
    /\ up = [s \in Servers |-> TRUE]
    /\ pc = [j \in Jobs |-> "idle"]
    /\ lease = [j \in Jobs |-> "none"]
    /\ keys = {}
    /\ unlocked = {}
    /\ mutexes = [s \in Servers |-> [n \in Names |-> NoJob]]
    /\ timer = [j \in Jobs |-> "off"]
    /\ call = [c \in Calls |-> "idle"]
    /\ loaded = [c \in Calls |-> NoJob]

Up(j) == up[Server[j]]
SameLock(j, k) == Path[j] = Path[k]

\* What ReleaseLock finds under a path: nothing when the path is no name.
Entry(s, p) == IF p \in Names THEN mutexes[s][p] ELSE NoJob

-----------------------------------------------------------------------------
(* TakeLock: acquireLock, the timer, the map entry.                          *)

\* Mutant of NewSession: the key is put before, and not with, the look at the owner.
NewSessionPuts(j) ==
    /\ pc[j] = "idle" /\ Up(j)
    /\ pc' = [pc EXCEPT ![j] = "session"]
    /\ lease' = [lease EXCEPT ![j] = "kept"]
    /\ keys' = keys \cup {j}
    /\ UNCHANGED <<up, mapVars, timer, callVars>>

\* concurrency.NewSession grants a lease and keeps it alive until the context
\* ends, which the handler's context never does: no session is ever closed.
NewSession(j) ==
    /\ pc[j] = "idle" /\ Up(j)
    /\ \/ /\ pc' = [pc EXCEPT ![j] = "session"]
          /\ lease' = [lease EXCEPT ![j] = "kept"]
       \/ /\ "rpc" \in Faults
          /\ pc' = [pc EXCEPT ![j] = "refused"]
          /\ lease' = lease
    /\ UNCHANGED <<up, keys, mapVars, timer, callVars>>

\* Mutant of TryAcquire: the owner is not looked at.
TryAcquireBlindly(j) ==
    /\ pc[j] = "session" /\ Up(j)
    /\ keys' = keys \cup {j}
    /\ pc' = [pc EXCEPT ![j] = "won"]
    /\ UNCHANGED <<up, lease, mapVars, timer, callVars>>

\* The transaction of Mutex.TryLock puts the job's key and reads the oldest key
\* of the lock.  The key just put is the youngest, so the job owns the lock when
\* there is no other.  A transaction under a lease that is gone is refused.
TryAcquire(j) ==
    /\ pc[j] = "session" /\ Up(j)
    /\ IF lease[j] = "kept"
       THEN /\ keys' = keys \cup {j}
            /\ pc' = [pc EXCEPT ![j] =
                         IF \E k \in keys : SameLock(j, k) THEN "lost" ELSE "won"]
       ELSE /\ keys' = keys
            /\ pc' = [pc EXCEPT ![j] = "refused"]
    /\ UNCHANGED <<up, lease, mapVars, timer, callVars>>

\* The transaction returns an error, applied by etcd or not: acquireLock returns
\* it, and what was put stays.
TryAcquireError(j) ==
    /\ pc[j] = "session" /\ Up(j) /\ "rpc" \in Faults
    /\ \/ keys' = keys
       \/ lease[j] = "kept" /\ keys' = keys \cup {j}
    /\ pc' = [pc EXCEPT ![j] = "refused"]
    /\ UNCHANGED <<up, lease, mapVars, timer, callVars>>

\* Mutants of Withdraw: the whole prefix of the lock is deleted; nothing is.
WithdrawAll(j) ==
    /\ pc[j] = "lost" /\ Up(j)
    /\ keys' = {k \in keys : ~SameLock(j, k)}
    /\ pc' = [pc EXCEPT ![j] = "refused"]
    /\ UNCHANGED <<up, lease, mapVars, timer, callVars>>

WithdrawNothing(j) ==
    /\ pc[j] = "lost" /\ Up(j)
    /\ pc' = [pc EXCEPT ![j] = "refused"]
    /\ UNCHANGED <<up, etcdVars, mapVars, timer, callVars>>

\* TryLock deletes the key of a job that is not the owner and returns ErrLocked,
\* the "already locked" of TakeLock.  The delete may fail, applied or not.
Withdraw(j) ==
    /\ pc[j] = "lost" /\ Up(j)
    /\ \/ keys' = keys \ {j}
       \/ "rpc" \in Faults /\ keys' = keys
    /\ pc' = [pc EXCEPT ![j] = "refused"]
    /\ UNCHANGED <<up, lease, mapVars, timer, callVars>>

\* Mutant of Store: LoadOrStore in place of Store.
StoreIfAbsent(j) ==
    /\ pc[j] = "won" /\ Up(j)
    /\ timer' = [timer EXCEPT ![j] = "armed"]
    /\ mutexes' = [mutexes EXCEPT ![Server[j]][Path[j]] = IF @ = NoJob THEN j ELSE @]
    /\ pc' = [pc EXCEPT ![j] = "running"]
    /\ UNCHANGED <<up, etcdVars, unlocked, callVars>>

\* The owner arms the timer, stores its mutex over whatever was there and
\* returns true: the executor runs the script.
Store(j) ==
    /\ pc[j] = "won" /\ Up(j)
    /\ timer' = [timer EXCEPT ![j] = "armed"]
    /\ mutexes' = [mutexes EXCEPT ![Server[j]][Path[j]] = j]
    /\ pc' = [pc EXCEPT ![j] = "running"]
    /\ UNCHANGED <<up, etcdVars, unlocked, callVars>>

-----------------------------------------------------------------------------
(* ReleaseLock, up to the load of the map entry, by its two callers.         *)

\* Mutant of Load: `ok' is not looked at.
LoadUnchecked(c, p) ==
    /\ loaded' = [loaded EXCEPT ![c] = Entry(Server[c[1]], p)]
    /\ call' = [call EXCEPT ![c] = "unlocking"]

Load(c, p) ==
    LET found == Entry(Server[c[1]], p)
    IN  /\ loaded' = [loaded EXCEPT ![c] = found]
        /\ call' = [call EXCEPT ![c] = IF found = NoJob THEN "done" ELSE "unlocking"]

\* The script returns or fails; the deferred ReleaseLock(scr.Name) starts.
Finish(j) ==
    /\ pc[j] = "running" /\ Up(j)
    /\ pc' = [pc EXCEPT ![j] = "finished"]
    /\ Load(<<j, "defer">>, Path[j])
    /\ UNCHANGED <<up, etcdVars, mapVars, timer>>

\* Mutant of TimerFires: it releases the path of its own job, ended or not.
TimerReleasesPath(j) ==
    /\ timer[j] = "armed" /\ Up(j)
    /\ timer' = [timer EXCEPT ![j] = "fired"]
    /\ Load(<<j, "timer">>, Path[j])
    /\ UNCHANGED <<up, pc, etcdVars, mapVars>>

\* One second after the session's TTL the timer calls ReleaseLock(lockKey).
TimerFires(j) ==
    /\ timer[j] = "armed" /\ Up(j)
    /\ timer' = [timer EXCEPT ![j] = "fired"]
    /\ Load(<<j, "timer">>, LockKey[Path[j]])
    /\ UNCHANGED <<up, pc, etcdVars, mapVars>>

\* Mutex.Unlock deletes the mutex's key, once: after that it is ErrLockReleased.
\* On any error ReleaseLock returns, and the entry and its timer stay.
Unlock(c) ==
    LET m == loaded[c]
    IN  /\ call[c] = "unlocking" /\ Up(c[1])
        /\ \/ /\ m \notin unlocked
              /\ keys' = keys \ {m}
              /\ unlocked' = unlocked \cup {m}
              /\ call' = [call EXCEPT ![c] = "cleaning"]
           \/ /\ m \in unlocked
              /\ call' = [call EXCEPT ![c] = "done"]
              /\ UNCHANGED <<keys, unlocked>>
           \/ /\ m \notin unlocked /\ "rpc" \in Faults
              /\ keys' \in {keys, keys \ {m}}
              /\ call' = [call EXCEPT ![c] = "done"]
              /\ UNCHANGED unlocked
        /\ UNCHANGED <<up, pc, lease, mutexes, timer, loaded>>

\* The path a call of ReleaseLock was given.
ReleasePath(c) == IF c[2] = "defer" THEN Path[c[1]] ELSE LockKey[Path[c[1]]]

\* l.Timer.Stop() and mutexes.Delete(path), whoever's entry is there by now.
Forget(c) ==
    /\ call[c] = "cleaning" /\ Up(c[1])
    /\ timer' = [timer EXCEPT ![loaded[c]] = IF @ = "armed" THEN "stopped" ELSE @]
    /\ mutexes' = [mutexes EXCEPT ![Server[c[1]]][ReleasePath(c)] = NoJob]
    /\ call' = [call EXCEPT ![c] = "done"]
    /\ UNCHANGED <<up, pc, etcdVars, unlocked, loaded>>

-----------------------------------------------------------------------------
(* The environment: leases and processes.                                    *)

\* A process that cannot reach etcd for a TTL loses a lease it still counts on.
Lapse(j) ==
    /\ "lapse" \in Faults
    /\ lease[j] = "kept" /\ Up(j)
    /\ lease' = [lease EXCEPT ![j] = "lapsed"]
    /\ keys' = keys \ {j}
    /\ UNCHANGED <<up, pc, mapVars, timer, callVars>>

\* A process ends, by a shutdown, a kill or a panic: its map, its timers and its
\* handlers are gone, nobody keeps its leases alive.
Crash(s) ==
    LET mine == {j \in Jobs : Server[j] = s}
    IN  /\ "crash" \in Faults /\ up[s]
        /\ up' = [up EXCEPT ![s] = FALSE]
        /\ pc' = [j \in Jobs |-> IF j \in mine /\ pc[j] # "idle" THEN "crashed" ELSE pc[j]]
        /\ lease' = [j \in Jobs |-> IF j \in mine /\ lease[j] = "kept"
                                    THEN "orphaned" ELSE lease[j]]
        /\ mutexes' = [mutexes EXCEPT ![s] = [n \in Names |-> NoJob]]
        /\ timer' = [j \in Jobs |-> IF j \in mine THEN "off" ELSE timer[j]]
        /\ call' = [c \in Calls |-> IF c[1] \in mine THEN "idle" ELSE call[c]]
        /\ loaded' = [c \in Calls |-> IF c[1] \in mine THEN NoJob ELSE loaded[c]]
        /\ UNCHANGED <<keys, unlocked>>

\* etcd revokes a lease nobody keeps alive, and deletes the key put under it.
Expire(j) ==
    /\ lease[j] = "orphaned"
    /\ lease' = [lease EXCEPT ![j] = "expired"]
    /\ keys' = keys \ {j}
    /\ UNCHANGED <<up, pc, mapVars, timer, callVars>>

\* The process is started again, with an empty store; jobs that have not begun
\* may begin on it.
Restart(s) ==
    /\ ~up[s]
    /\ up' = [up EXCEPT ![s] = TRUE]
    /\ UNCHANGED <<pc, etcdVars, mapVars, timer, callVars>>

-----------------------------------------------------------------------------
TakeLock(j) ==
    \/ NewSession(j) \/ TryAcquire(j) \/ TryAcquireError(j) \/ Withdraw(j) \/ Store(j)

ReleaseLock(c) == Unlock(c) \/ Forget(c)

Next ==
    \/ \E j \in Jobs : TakeLock(j) \/ Finish(j) \/ TimerFires(j) \/ Lapse(j) \/ Expire(j)
    \/ \E c \in Calls : ReleaseLock(c)
    \/ \E s \in Servers : Crash(s) \/ Restart(s)

Spec == Init /\ [][Next]_vars

-----------------------------------------------------------------------------
(* What excuses a lock.                                                      *)

\* The entry of a script called "<x>_lock" is the one the timer of x releases.
Aliased(n) == \E m \in Names : LockKey[m] = n

\* A lease lapsed under a script of that name on that server: from then on a
\* release on that server may be that of another, later job.
Lapsed(s, n) == \E k \in Jobs : Server[k] = s /\ Path[k] = n /\ lease[k] = "lapsed"

Sound(j) == ~Aliased(Path[j]) /\ ~Lapsed(Server[j], Path[j])

Running(j) == pc[j] = "running"
Holds(j) == pc[j] \in {"won", "running"}

(* At most one server runs a script at a time ("scaled up with multiples      *)
(* instances through locking", README.md), as long as the leases hold:        *)
(* whatever etcd calls fail, whatever processes crash and restart, and        *)
(* whatever a late ReleaseLock or a timer does to the map of mutexes.         *)
MutualExclusion ==
    \A j, k \in Jobs :
        (j # k /\ SameLock(j, k) /\ Running(j) /\ Running(k)) => ~Sound(j) \/ ~Sound(k)

(* The deferred ReleaseLock looks its mutex up by name: what it found, and is *)
(* about to unlock, is the mutex of its own job and not of another execution  *)
(* of the script on this server.                                              *)
ReleasesOwnLock ==
    \A j \in Jobs : (call[<<j, "defer">>] = "unlocking" /\ Sound(j)) => loaded[<<j, "defer">>] = j

(* TryLock puts its key before it looks and deletes it after: executions that *)
(* contend must not all find each other's key and all give up, for then no    *)
(* server runs the script.  Without failing calls and lapses, when every job  *)
(* that asked for a lock was refused, there is none that asked.               *)
Asked(n) == {j \in Jobs : Path[j] = n /\ (j \in keys \/ pc[j] \in {"lost", "refused"})}
Granted(n) == {j \in Jobs : Path[j] = n /\ pc[j] \in {"won", "running", "finished", "crashed"}}
SomeoneWins ==
    Faults \cap {"rpc", "lapse"} = {} => \A n \in Names : Asked(n) # {} => Granted(n) # {}

(* A lock is given back: whether the job ends, its server crashes or its      *)
(* attempt is refused, its key leaves etcd at last.                           *)
KeyLeaves == \A j \in Jobs : j \in keys ~> j \notin keys

-----------------------------------------------------------------------------
(* The promise this implements.                                               *)

Service == INSTANCE LockService WITH
    active <- {j \in Jobs : Running(j)},
    over <- {j \in Jobs : pc[j] \in {"finished", "refused", "crashed"}},
    waived <- {l \in Locks : Lapsed(l[1], l[2])},
    Exempt <- {n \in Names : Aliased(n)}

(* Each step of the servers is a step of LockService, or none: an execution   *)
(* begins when TakeLock stores its mutex, with the lock free wherever the     *)
(* leases held, and no execution begins twice.                                *)
ImplementsService == Service!Spec

-----------------------------------------------------------------------------
(* The inductive invariant behind these.                                      *)

\* A job opens its session once; the lease of a holder is kept alive or lapsed.
LeaseInv ==
    \A j \in Jobs :
        /\ pc[j] = "idle" => lease[j] = "none"
        /\ Holds(j) => lease[j] \in {"kept", "lapsed"}

OwnerInv ==
    /\ \A j \in Jobs : (Holds(j) /\ Sound(j)) => j \in keys
    /\ \A j, k \in Jobs :
          (Holds(j) /\ Holds(k) /\ SameLock(j, k) /\ Sound(j) /\ Sound(k)) => j = k

\* The map names jobs of its own server and of the name they are stored under,
\* and no other job than the one that runs soundly.
MapInv ==
    \A s \in Servers, n \in Names : mutexes[s][n] # NoJob =>
        LET m == mutexes[s][n]
        IN  /\ Server[m] = s /\ Path[m] = n
            /\ \A k \in Jobs :
                  (Running(k) /\ Server[k] = s /\ Path[k] = n /\ Sound(k)) => m = k

\* A deferred release unlocks a mutex of its own name on its own server, its
\* own when the lock is sound; a timer's release unlocks an aliased script's.
ReleaseOf(k) ==
    /\ call[<<k, "defer">>] = "unlocking" =>
          LET m == loaded[<<k, "defer">>]
          IN  /\ Server[m] = Server[k] /\ Path[m] = Path[k]
              /\ pc[k] = "finished"
              /\ Sound(k) => m = k
    /\ call[<<k, "timer">>] = "unlocking" =>
          Path[loaded[<<k, "timer">>]] = LockKey[Path[k]]

ReleaseInv == \A k \in Jobs : ReleaseOf(k)

(* A sound holder's key is in etcd, the map never names a job that ran before *)
(* a sound running one, and no release in progress is about to delete a sound *)
(* holder's key: what ReleaseLock's look-up by name may and may not do.       *)
LockInv == LeaseInv /\ OwnerInv /\ MapInv /\ ReleaseInv
=============================================================================
