--------------------------- MODULE ScriptLock_proofs ---------------------------
(***************************************************************************)
(* Proofs about ScriptLock, for any servers, names, jobs and faults, and   *)
(* about Cluster, the servers that share it, for any messages.             *)
(***************************************************************************)
EXTENDS Cluster, SequenceTheorems, TLAPS

USE NoJobAssumption, JobAssumption, LockKeyAssumption

\* The initial state is well typed.
LEMMA InitType == Init => TypeOK
BY DEF Init, TypeOK, Calls, Callers

\* Every action keeps the variables in their types.
LEMMA NextType == TypeOK /\ [Next]_vars => TypeOK'
<1> SUFFICES ASSUME TypeOK, [Next]_vars PROVE TypeOK'
  OBVIOUS
<1> USE DEF TypeOK, etcdVars, mapVars, callVars, Calls, Callers
<1>1. ASSUME NEW j \in Jobs, NewSession(j) PROVE TypeOK'
  <2>1. CASE pc' = [pc EXCEPT ![j] = "session"] /\ lease' = [lease EXCEPT ![j] = "kept"]
    BY <1>1, <2>1 DEF NewSession
  <2>2. CASE pc' = [pc EXCEPT ![j] = "refused"] /\ lease' = lease
    BY <1>1, <2>2 DEF NewSession
  <2> QED
    BY <1>1, <2>1, <2>2 DEF NewSession
<1>2. ASSUME NEW j \in Jobs, TryAcquire(j) PROVE TypeOK'
  BY <1>2, SMTT(30) DEF TryAcquire
<1>3. ASSUME NEW j \in Jobs, TryAcquireError(j) PROVE TypeOK'
  BY <1>3 DEF TryAcquireError
<1>4. ASSUME NEW j \in Jobs, Withdraw(j) PROVE TypeOK'
  BY <1>4 DEF Withdraw
<1>5. ASSUME NEW j \in Jobs, Store(j) PROVE TypeOK'
  BY <1>5 DEF Store
<1>6. ASSUME NEW j \in Jobs, Finish(j) PROVE TypeOK'
  BY <1>6 DEF Finish, Load, Entry
<1>7. ASSUME NEW j \in Jobs, TimerFires(j) PROVE TypeOK'
  BY <1>7 DEF TimerFires, Load, Entry
<1>8. ASSUME NEW c \in Calls, Unlock(c) PROVE TypeOK'
  BY <1>8 DEF Unlock
<1>9. ASSUME NEW c \in Calls, Forget(c) PROVE TypeOK'
  BY <1>9 DEF Forget
<1>10. ASSUME NEW j \in Jobs, Lapse(j) PROVE TypeOK'
  BY <1>10 DEF Lapse
<1>11. ASSUME NEW s \in Servers, Crash(s) PROVE TypeOK'
  BY <1>11 DEF Crash
<1>12. ASSUME NEW j \in Jobs, Expire(j) PROVE TypeOK'
  BY <1>12 DEF Expire
<1>13. ASSUME NEW s \in Servers, Restart(s) PROVE TypeOK'
  BY <1>13 DEF Restart
<1>14. CASE UNCHANGED vars
  BY <1>14 DEF vars
<1> QED
  BY <1>1, <1>2, <1>3, <1>4, <1>5, <1>6, <1>7, <1>8, <1>9, <1>10, <1>11, <1>12, <1>13, <1>14
  DEF Next, TakeLock, ReleaseLock

\* The variables keep their types.
THEOREM TypeCorrect == Spec => []TypeOK
BY InitType, NextType, PTL DEF Spec
-----------------------------------------------------------------------------
\* Soundness is a matter of a script name and a server.
LEMMA SoundPlace ==
    ASSUME NEW j \in Jobs, NEW k \in Jobs, Server[j] = Server[k], Path[j] = Path[k]
    PROVE  Sound(j) <=> Sound(k)
BY DEF Sound

\* What a timer's release unlocks is never sound.
LEMMA AliasUnsound ==
    ASSUME NEW k \in Jobs, NEW m \in Jobs, Path[m] = LockKey[Path[k]]
    PROVE  ~Sound(m)
BY DEF Sound, Aliased

\* A lapse is never undone, so soundness never comes back.
LEMMA SoundStep ==
    ASSUME TypeOK, LeaseInv, [Next]_vars
    PROVE  \A j \in Jobs : Sound(j)' => Sound(j)
<1>1. \A k \in Jobs : lease[k] = "lapsed" => lease'[k] = "lapsed"
  <2> SUFFICES ASSUME NEW k \in Jobs, lease[k] = "lapsed" PROVE lease'[k] = "lapsed"
    OBVIOUS
  <2> USE DEF TypeOK, LeaseInv
  <2>1. ASSUME NEW j \in Jobs, NewSession(j) PROVE lease'[k] = "lapsed"
    BY <2>1 DEF NewSession, etcdVars
  <2>2. ASSUME NEW j \in Jobs, TryAcquire(j) PROVE lease'[k] = "lapsed"
    BY <2>2 DEF TryAcquire, etcdVars
  <2>3. ASSUME NEW j \in Jobs, TryAcquireError(j) PROVE lease'[k] = "lapsed"
    BY <2>3 DEF TryAcquireError, etcdVars
  <2>4. ASSUME NEW j \in Jobs, Withdraw(j) PROVE lease'[k] = "lapsed"
    BY <2>4 DEF Withdraw, etcdVars
  <2>5. ASSUME NEW j \in Jobs, Store(j) PROVE lease'[k] = "lapsed"
    BY <2>5 DEF Store, etcdVars
  <2>6. ASSUME NEW j \in Jobs, Finish(j) PROVE lease'[k] = "lapsed"
    BY <2>6 DEF Finish, etcdVars
  <2>7. ASSUME NEW j \in Jobs, TimerFires(j) PROVE lease'[k] = "lapsed"
    BY <2>7 DEF TimerFires, etcdVars
  <2>8. ASSUME NEW c \in Calls, Unlock(c) PROVE lease'[k] = "lapsed"
    BY <2>8 DEF Unlock, etcdVars
  <2>9. ASSUME NEW c \in Calls, Forget(c) PROVE lease'[k] = "lapsed"
    BY <2>9 DEF Forget, etcdVars
  <2>10. ASSUME NEW j \in Jobs, Lapse(j) PROVE lease'[k] = "lapsed"
    BY <2>10 DEF Lapse, etcdVars
  <2>11. ASSUME NEW s \in Servers, Crash(s) PROVE lease'[k] = "lapsed"
    BY <2>11 DEF Crash, etcdVars
  <2>12. ASSUME NEW j \in Jobs, Expire(j) PROVE lease'[k] = "lapsed"
    BY <2>12 DEF Expire, etcdVars
  <2>13. ASSUME NEW s \in Servers, Restart(s) PROVE lease'[k] = "lapsed"
    BY <2>13 DEF Restart, etcdVars
  <2>14. CASE UNCHANGED vars
    BY <2>14 DEF vars, etcdVars
  <2> QED
    BY <2>1, <2>2, <2>3, <2>4, <2>5, <2>6, <2>7, <2>8, <2>9, <2>10, <2>11, <2>12, <2>13,
       <2>14 DEF Next, TakeLock, ReleaseLock
<1>2. \A s, n : Lapsed(s, n) => Lapsed(s, n)'
  BY <1>1 DEF Lapsed
<1> QED
  BY <1>2 DEF Sound, Aliased
\* The invariant holds before any TakeLock.
LEMMA InitLock == Init => LockInv
BY DEF Init, LockInv, LeaseInv, OwnerInv, MapInv, ReleaseInv, ReleaseOf, Holds, Running,
   Calls, Callers

\* Every action keeps the lock's invariant.
LEMMA NextLock == TypeOK /\ LockInv /\ [Next]_vars => LockInv'
<1> SUFFICES ASSUME TypeOK, LockInv, [Next]_vars PROVE LockInv'
  OBVIOUS
<1> USE DEF TypeOK, LockInv, SameLock, Holds, Running
<1>a. \A j \in Jobs : Sound(j)' => Sound(j)
  BY SoundStep
<1>b. \A j, k \in Jobs :
          (Server[j] = Server[k] /\ Path[j] = Path[k]) => (Sound(j) <=> Sound(k))
  BY SoundPlace
<1>c. \A k, m \in Jobs : Path[m] = LockKey[Path[k]] => ~Sound(m)
  BY AliasUnsound
<1>d. /\ \A k \in Jobs : <<k, "defer">> \in Calls /\ <<k, "timer">> \in Calls
      /\ \A c \in Calls : c[1] \in Jobs /\ (c = <<c[1], "defer">> \/ c = <<c[1], "timer">>)
      /\ \A k, m \in Jobs : <<k, "defer">> # <<m, "timer">>
      /\ \A k, m \in Jobs : <<k, "defer">> = <<m, "defer">> => k = m
      /\ \A k, m \in Jobs : <<k, "timer">> = <<m, "timer">> => k = m
      /\ \A k \in Jobs : <<k, "defer">>[1] = k /\ <<k, "timer">>[1] = k
  BY DEF Calls, Callers
<1>e. ASSUME UNCHANGED callVars, \A k \in Jobs : pc[k] = "finished" => pc'[k] = "finished"
      PROVE  ReleaseInv'
  <2> SUFFICES ASSUME NEW k \in Jobs
               PROVE  ReleaseOf(k)'
    BY DEF ReleaseInv
  <2>1. ReleaseOf(k)
    BY DEF ReleaseInv
  <2> QED
    BY <2>1, <1>e, <1>a DEF ReleaseOf, callVars
<1>1. ASSUME NEW j \in Jobs, NewSession(j) PROVE LockInv'
  <2>1. LeaseInv'
    BY <1>1, <1>a, <1>b, <1>c, <1>d DEF NewSession, LeaseInv, etcdVars, mapVars, callVars,
       Up
  <2>2. OwnerInv'
    BY <1>1, <1>a, <1>b, <1>c, <1>d DEF NewSession, LeaseInv, OwnerInv, ReleaseInv,
       etcdVars, mapVars, callVars, Up
  <2>3. MapInv'
    BY <1>1, <1>a, <1>b, <1>c, <1>d DEF NewSession, OwnerInv, MapInv, etcdVars, mapVars,
       callVars, Up
  <2>4. ReleaseInv'
    BY <1>1, <1>e DEF NewSession, callVars
  <2> QED
    BY <2>1, <2>2, <2>3, <2>4
<1>2. ASSUME NEW j \in Jobs, TryAcquire(j) PROVE LockInv'
  <2>1. LeaseInv'
    BY <1>2, <1>a, <1>b, <1>c, <1>d DEF TryAcquire, LeaseInv, etcdVars, mapVars, callVars,
       Up
  <2>2. OwnerInv'
    <3>1. \A k \in Jobs : Holds(k)' => Holds(k) \/ (k = j /\ \A m \in keys : ~SameLock(k, m))
      BY <1>2 DEF TryAcquire
    <3>2. keys \subseteq keys' /\ (Holds(j)' => j \in keys')
      BY <1>2 DEF TryAcquire
    <3>3. \A k \in Jobs : (Holds(k)' /\ Sound(k)') => k \in keys'
      BY <3>1, <3>2, <1>a DEF OwnerInv
    <3>4. \A k, m \in Jobs :
             (Holds(k)' /\ Holds(m)' /\ SameLock(k, m) /\ Sound(k)' /\ Sound(m)') => k = m
      BY <3>1, <1>a DEF OwnerInv
    <3> QED
      BY <3>3, <3>4 DEF OwnerInv
  <2>3. MapInv'
    BY <1>2, <1>a, <1>b, <1>c, <1>d DEF TryAcquire, OwnerInv, MapInv, etcdVars, mapVars,
       callVars, Up
  <2>4. ReleaseInv'
    BY <1>2, <1>e DEF TryAcquire, callVars
  <2> QED
    BY <2>1, <2>2, <2>3, <2>4
<1>3. ASSUME NEW j \in Jobs, TryAcquireError(j) PROVE LockInv'
  <2>1. LeaseInv'
    BY <1>3, <1>a, <1>b, <1>c, <1>d DEF TryAcquireError, LeaseInv, etcdVars, mapVars,
       callVars, Up
  <2>2. OwnerInv'
    BY <1>3, <1>a, <1>b, <1>c, <1>d DEF TryAcquireError, LeaseInv, OwnerInv, ReleaseInv,
       etcdVars, mapVars, callVars, Up
  <2>3. MapInv'
    BY <1>3, <1>a, <1>b, <1>c, <1>d DEF TryAcquireError, OwnerInv, MapInv, etcdVars,
       mapVars, callVars, Up
  <2>4. ReleaseInv'
    BY <1>3, <1>e DEF TryAcquireError, callVars
  <2> QED
    BY <2>1, <2>2, <2>3, <2>4
<1>4. ASSUME NEW j \in Jobs, Withdraw(j) PROVE LockInv'
  <2>1. LeaseInv'
    BY <1>4, <1>a, <1>b, <1>c, <1>d DEF Withdraw, LeaseInv, etcdVars, mapVars, callVars, Up
  <2>2. OwnerInv'
    BY <1>4, <1>a, <1>b, <1>c, <1>d DEF Withdraw, LeaseInv, OwnerInv, ReleaseInv,
       etcdVars, mapVars, callVars, Up
  <2>3. MapInv'
    BY <1>4, <1>a, <1>b, <1>c, <1>d DEF Withdraw, OwnerInv, MapInv, etcdVars, mapVars,
       callVars, Up
  <2>4. ReleaseInv'
    BY <1>4, <1>e DEF Withdraw, callVars
  <2> QED
    BY <2>1, <2>2, <2>3, <2>4
<1>5. ASSUME NEW j \in Jobs, Store(j) PROVE LockInv'
  <2>1. LeaseInv'
    BY <1>5, <1>a, <1>b, <1>c, <1>d DEF Store, LeaseInv, etcdVars, mapVars, callVars, Up
  <2>2. OwnerInv'
    BY <1>5, <1>a, <1>b, <1>c, <1>d DEF Store, LeaseInv, OwnerInv, ReleaseInv, etcdVars,
       mapVars, callVars, Up
  <2>3. MapInv'
    BY <1>5, <1>a, <1>b, <1>c, <1>d DEF Store, OwnerInv, MapInv, etcdVars, mapVars,
       callVars, Up
  <2>4. ReleaseInv'
    BY <1>5, <1>e DEF Store, callVars
  <2> QED
    BY <2>1, <2>2, <2>3, <2>4
<1>6. ASSUME NEW j \in Jobs, Finish(j) PROVE LockInv'
  <2>1. LeaseInv'
    BY <1>6, <1>a, <1>b, <1>c, <1>d DEF Finish, LeaseInv, Load, Entry, etcdVars, mapVars,
       callVars, Up
  <2>2. OwnerInv'
    BY <1>6, <1>a, <1>b, <1>c, <1>d DEF Finish, LeaseInv, OwnerInv, ReleaseInv, Load,
       Entry, etcdVars, mapVars, callVars, Up
  <2>3. MapInv'
    BY <1>6, <1>a, <1>b, <1>c, <1>d DEF Finish, OwnerInv, MapInv, Load, Entry, etcdVars,
       mapVars, callVars, Up
  <2>4. ReleaseInv'
    <3> SUFFICES ASSUME NEW k \in Jobs PROVE ReleaseOf(k)'
      BY DEF ReleaseInv
    <3>1. ReleaseOf(k)
      BY DEF ReleaseInv
    <3> QED
      BY <1>6, <1>a, <1>b, <1>d, <3>1 DEF Finish, ReleaseOf, MapInv, Load, Entry,
         etcdVars, mapVars, callVars, Up
  <2> QED
    BY <2>1, <2>2, <2>3, <2>4
<1>7. ASSUME NEW j \in Jobs, TimerFires(j) PROVE LockInv'
  <2>1. LeaseInv'
    BY <1>7, <1>a, <1>b, <1>c, <1>d DEF TimerFires, LeaseInv, Load, Entry, etcdVars,
       mapVars, callVars, Up
  <2>2. OwnerInv'
    BY <1>7, <1>a, <1>b, <1>c, <1>d DEF TimerFires, LeaseInv, OwnerInv, ReleaseInv, Load,
       Entry, etcdVars, mapVars, callVars, Up
  <2>3. MapInv'
    BY <1>7, <1>a, <1>b, <1>c, <1>d DEF TimerFires, OwnerInv, MapInv, Load, Entry,
       etcdVars, mapVars, callVars, Up
  <2>4. ReleaseInv'
    <3> SUFFICES ASSUME NEW k \in Jobs PROVE ReleaseOf(k)'
      BY DEF ReleaseInv
    <3>1. ReleaseOf(k)
      BY DEF ReleaseInv
    <3> QED
      BY <1>7, <1>a, <1>b, <1>d, <3>1 DEF TimerFires, ReleaseOf, MapInv, Load, Entry,
         etcdVars, mapVars, callVars, Up
  <2> QED
    BY <2>1, <2>2, <2>3, <2>4
<1>8. ASSUME NEW c \in Calls, Unlock(c) PROVE LockInv'
  <2>1. LeaseInv'
    BY <1>8, <1>a, <1>b, <1>c, <1>d DEF Unlock, LeaseInv, etcdVars, mapVars, callVars, Up
  <2>2. OwnerInv'
    <3>1. \A k \in Jobs : (Holds(k) /\ Sound(k)) => k # loaded[c]
      <4>0. c[1] \in Jobs /\ loaded[c] \in Jobs /\ call[c] = "unlocking" /\ ReleaseOf(c[1])
        BY <1>8, <1>d DEF Unlock, ReleaseInv
      <4>1. CASE c = <<c[1], "defer">>
        <5>1. /\ Server[loaded[c]] = Server[c[1]] /\ Path[loaded[c]] = Path[c[1]]
              /\ pc[c[1]] = "finished"
              /\ Sound(c[1]) => loaded[c] = c[1]
          BY <4>0, <4>1 DEF ReleaseOf
        <5>2. Sound(loaded[c]) => loaded[c] = c[1]
          BY <5>1, <4>0, <1>b
        <5> QED
          BY <5>1, <5>2
      <4>2. CASE c = <<c[1], "timer">>
        <5>1. Path[loaded[c]] = LockKey[Path[c[1]]]
          BY <4>0, <4>2 DEF ReleaseOf
        <5> QED
          BY <5>1, <4>0, <1>c
      <4> QED
        BY <4>1, <4>2, <1>d
    <3>2. pc' = pc /\ keys \ {loaded[c]} \subseteq keys'
      BY <1>8 DEF Unlock
    <3>3. \A k \in Jobs : (Holds(k)' /\ Sound(k)') => k \in keys'
      BY <3>1, <3>2, <1>a DEF OwnerInv
    <3>4. \A k, m \in Jobs :
             (Holds(k)' /\ Holds(m)' /\ SameLock(k, m) /\ Sound(k)' /\ Sound(m)') => k = m
      BY <3>2, <1>a DEF OwnerInv
    <3> QED
      BY <3>3, <3>4 DEF OwnerInv
  <2>3. MapInv'
    BY <1>8, <1>a, <1>b, <1>c, <1>d DEF Unlock, OwnerInv, MapInv, etcdVars, mapVars,
       callVars, Up
  <2>4. ReleaseInv'
    <3> SUFFICES ASSUME NEW k \in Jobs PROVE ReleaseOf(k)'
      BY DEF ReleaseInv
    <3>1. ReleaseOf(k)
      BY DEF ReleaseInv
    <3> QED
      BY <1>8, <1>a, <1>b, <1>d, <3>1 DEF Unlock, ReleaseOf, MapInv, etcdVars, mapVars,
         callVars, Up
  <2> QED
    BY <2>1, <2>2, <2>3, <2>4
<1>9. ASSUME NEW c \in Calls, Forget(c) PROVE LockInv'
  <2>1. LeaseInv'
    BY <1>9, <1>a, <1>b, <1>c, <1>d DEF Forget, LeaseInv, etcdVars, mapVars, callVars, Up
  <2>2. OwnerInv'
    BY <1>9, <1>a, <1>b, <1>c, <1>d DEF Forget, LeaseInv, OwnerInv, ReleaseInv, etcdVars,
       mapVars, callVars, Up
  <2>3. MapInv'
    BY <1>9, <1>a, <1>b, <1>c, <1>d DEF Forget, OwnerInv, MapInv, etcdVars, mapVars,
       callVars, Up
  <2>4. ReleaseInv'
    <3> SUFFICES ASSUME NEW k \in Jobs PROVE ReleaseOf(k)'
      BY DEF ReleaseInv
    <3>1. ReleaseOf(k)
      BY DEF ReleaseInv
    <3> QED
      BY <1>9, <1>a, <1>b, <1>d, <3>1 DEF Forget, ReleaseOf, MapInv, etcdVars, mapVars,
         callVars, Up
  <2> QED
    BY <2>1, <2>2, <2>3, <2>4
<1>10. ASSUME NEW j \in Jobs, Lapse(j) PROVE LockInv'
  <2>0. ~Sound(j)'
    BY <1>10 DEF Lapse, Sound, Lapsed
  <2>1. LeaseInv'
    BY <1>10, <1>a, <1>b, <1>c, <1>d, <2>0 DEF Lapse, LeaseInv, etcdVars, mapVars,
       callVars, Up
  <2>2. OwnerInv'
    BY <1>10, <1>a, <1>b, <1>c, <1>d, <2>0 DEF Lapse, LeaseInv, OwnerInv, ReleaseInv,
       etcdVars, mapVars, callVars, Up
  <2>3. MapInv'
    BY <1>10, <1>a, <1>b, <1>c, <1>d, <2>0 DEF Lapse, OwnerInv, MapInv, etcdVars, mapVars,
       callVars, Up
  <2>4. ReleaseInv'
    BY <1>10, <1>e DEF Lapse, callVars
  <2> QED
    BY <2>1, <2>2, <2>3, <2>4
<1>11. ASSUME NEW s \in Servers, Crash(s) PROVE LockInv'
  <2>1. LeaseInv'
    BY <1>11, <1>a, <1>b, <1>c, <1>d DEF Crash, LeaseInv, etcdVars, mapVars, callVars, Up
  <2>2. OwnerInv'
    BY <1>11, <1>a, <1>b, <1>c, <1>d DEF Crash, LeaseInv, OwnerInv, ReleaseInv, etcdVars,
       mapVars, callVars, Up
  <2>3. MapInv'
    BY <1>11, <1>a, <1>b, <1>c, <1>d DEF Crash, OwnerInv, MapInv, etcdVars, mapVars,
       callVars, Up
  <2>4. ReleaseInv'
    <3> SUFFICES ASSUME NEW k \in Jobs PROVE ReleaseOf(k)'
      BY DEF ReleaseInv
    <3>1. ReleaseOf(k)
      BY DEF ReleaseInv
    <3> QED
      BY <1>11, <1>a, <1>b, <1>d, <3>1 DEF Crash, ReleaseOf, MapInv, etcdVars, mapVars,
         callVars, Up
  <2> QED
    BY <2>1, <2>2, <2>3, <2>4
<1>12. ASSUME NEW j \in Jobs, Expire(j) PROVE LockInv'
  <2>1. LeaseInv'
    BY <1>12, <1>a, <1>b, <1>c, <1>d DEF Expire, LeaseInv, etcdVars, mapVars, callVars, Up
  <2>2. OwnerInv'
    BY <1>12, <1>a, <1>b, <1>c, <1>d DEF Expire, LeaseInv, OwnerInv, ReleaseInv, etcdVars,
       mapVars, callVars, Up
  <2>3. MapInv'
    BY <1>12, <1>a, <1>b, <1>c, <1>d DEF Expire, OwnerInv, MapInv, etcdVars, mapVars,
       callVars, Up
  <2>4. ReleaseInv'
    BY <1>12, <1>e DEF Expire, callVars
  <2> QED
    BY <2>1, <2>2, <2>3, <2>4
<1>13. ASSUME NEW s \in Servers, Restart(s) PROVE LockInv'
  <2>1. LeaseInv'
    BY <1>13, <1>a, <1>b, <1>c, <1>d DEF Restart, LeaseInv, etcdVars, mapVars, callVars, Up
  <2>2. OwnerInv'
    BY <1>13, <1>a, <1>b, <1>c, <1>d DEF Restart, LeaseInv, OwnerInv, ReleaseInv,
       etcdVars, mapVars, callVars, Up
  <2>3. MapInv'
    BY <1>13, <1>a, <1>b, <1>c, <1>d DEF Restart, OwnerInv, MapInv, etcdVars, mapVars,
       callVars, Up
  <2>4. ReleaseInv'
    BY <1>13, <1>e DEF Restart, callVars
  <2> QED
    BY <2>1, <2>2, <2>3, <2>4
<1>14. CASE UNCHANGED vars
  <2>1. \A k \in Jobs : Sound(k)' <=> Sound(k)
    BY <1>14 DEF vars, etcdVars, Sound, Lapsed
  <2> QED
    BY <1>14, <2>1 DEF vars, etcdVars, mapVars, callVars, LeaseInv, OwnerInv, MapInv,
      ReleaseInv, ReleaseOf
<1> QED
  BY <1>1, <1>2, <1>3, <1>4, <1>5, <1>6, <1>7, <1>8, <1>9, <1>10, <1>11, <1>12, <1>13,
     <1>14 DEF Next, TakeLock, ReleaseLock

\* The inductive invariant, on which MutualExclusion and ReleasesOwnLock rest.
THEOREM LockInvariant == Spec => [](TypeOK /\ LockInv)
BY InitType, NextType, InitLock, NextLock, PTL DEF Spec

\* TakeLock lets one execution of a script run at a time, whatever fails, unless
\* a lease lapsed or the script is called like another one's lock.
THEOREM MutualExclusionHolds == Spec => []MutualExclusion
<1>1. LockInv => MutualExclusion
  BY DEF LockInv, OwnerInv, MutualExclusion, Holds, Running
<1> QED
  BY <1>1, LockInvariant, PTL

\* The deferred ReleaseLock never unlocks the mutex of another execution.
THEOREM ReleasesOwnLockHolds == Spec => []ReleasesOwnLock
<1>1. LockInv => ReleasesOwnLock
  BY DEF LockInv, ReleaseInv, ReleaseOf, ReleasesOwnLock
<1> QED
  BY <1>1, LockInvariant, PTL

-----------------------------------------------------------------------------
(* Without failing calls and lapses, some execution gets the lock.           *)

Calm == Faults \cap {"rpc", "lapse"} = {}

GrantInv ==
    /\ \A j \in Jobs : pc[j] = "session" => lease[j] = "kept"
    /\ \A j \in Jobs : Asked(Path[j]) # {} => Granted(Path[j]) # {}

\* When calls do not fail, every action keeps the invariant of SomeoneWins.
LEMMA NextGrant ==
    ASSUME Calm, TypeOK, GrantInv, [Next]_vars
    PROVE  GrantInv'
<1> USE DEF TypeOK, etcdVars, mapVars, callVars
<1>a. "rpc" \notin Faults /\ "lapse" \notin Faults
  BY DEF Calm
<1>f. ASSUME \A j \in Jobs : pc'[j] = "session" => lease'[j] = "kept",
             \A n \in Names : Granted(n) \subseteq Granted(n)',
             \A j \in Jobs : Asked(Path[j])' # {} => Asked(Path[j]) # {} \/ Granted(Path[j])' # {}
      PROVE  GrantInv'
  BY <1>f DEF GrantInv
<1>1. ASSUME NEW j \in Jobs, NewSession(j) PROVE GrantInv'
  <2>1. \A k \in Jobs : pc'[k] = "session" => lease'[k] = "kept"
    BY <1>1, <1>a DEF NewSession, GrantInv
  <2>2. \A n \in Names : Granted(n) \subseteq Granted(n)'
    BY <1>1 DEF NewSession, Granted
  <2>3. \A k \in Jobs : Asked(Path[k])' # {} => Asked(Path[k]) # {} \/ Granted(Path[k])' # {}
    BY <1>1, <1>a DEF NewSession, Asked, Granted, SameLock, GrantInv
  <2> QED
    BY <2>1, <2>2, <2>3, <1>f
<1>2. ASSUME NEW j \in Jobs, TryAcquire(j) PROVE GrantInv'
  <2>1. \A k \in Jobs : pc'[k] = "session" => lease'[k] = "kept"
    BY <1>2, <1>a DEF TryAcquire, GrantInv
  <2>2. \A n \in Names : Granted(n) \subseteq Granted(n)'
    BY <1>2 DEF TryAcquire, Granted
  <2>3. \A k \in Jobs : Asked(Path[k])' # {} => Asked(Path[k]) # {} \/ Granted(Path[k])' # {}
    BY <1>2, <1>a DEF TryAcquire, Asked, Granted, SameLock, GrantInv
  <2> QED
    BY <2>1, <2>2, <2>3, <1>f
<1>3. ASSUME NEW j \in Jobs, TryAcquireError(j) PROVE GrantInv'
  <2>1. \A k \in Jobs : pc'[k] = "session" => lease'[k] = "kept"
    BY <1>3, <1>a DEF TryAcquireError, GrantInv
  <2>2. \A n \in Names : Granted(n) \subseteq Granted(n)'
    BY <1>3 DEF TryAcquireError, Granted
  <2>3. \A k \in Jobs : Asked(Path[k])' # {} => Asked(Path[k]) # {} \/ Granted(Path[k])' # {}
    BY <1>3, <1>a DEF TryAcquireError, Asked, Granted, SameLock, GrantInv
  <2> QED
    BY <2>1, <2>2, <2>3, <1>f
<1>4. ASSUME NEW j \in Jobs, Withdraw(j) PROVE GrantInv'
  <2>1. \A k \in Jobs : pc'[k] = "session" => lease'[k] = "kept"
    BY <1>4, <1>a DEF Withdraw, GrantInv
  <2>2. \A n \in Names : Granted(n) \subseteq Granted(n)'
    BY <1>4 DEF Withdraw, Granted
  <2>3. \A k \in Jobs : Asked(Path[k])' # {} => Asked(Path[k]) # {} \/ Granted(Path[k])' # {}
    BY <1>4, <1>a DEF Withdraw, Asked, Granted, SameLock, GrantInv
  <2> QED
    BY <2>1, <2>2, <2>3, <1>f
<1>5. ASSUME NEW j \in Jobs, Store(j) PROVE GrantInv'
  <2>1. \A k \in Jobs : pc'[k] = "session" => lease'[k] = "kept"
    BY <1>5, <1>a DEF Store, GrantInv
  <2>2. \A n \in Names : Granted(n) \subseteq Granted(n)'
    BY <1>5 DEF Store, Granted
  <2>3. \A k \in Jobs : Asked(Path[k])' # {} => Asked(Path[k]) # {} \/ Granted(Path[k])' # {}
    BY <1>5, <1>a DEF Store, Asked, Granted, SameLock, GrantInv
  <2> QED
    BY <2>1, <2>2, <2>3, <1>f
<1>6. ASSUME NEW j \in Jobs, Finish(j) PROVE GrantInv'
  <2>1. \A k \in Jobs : pc'[k] = "session" => lease'[k] = "kept"
    BY <1>6, <1>a DEF Finish, GrantInv, Load
  <2>2. \A n \in Names : Granted(n) \subseteq Granted(n)'
    BY <1>6 DEF Finish, Granted, Load
  <2>3. \A k \in Jobs : Asked(Path[k])' # {} => Asked(Path[k]) # {} \/ Granted(Path[k])' # {}
    BY <1>6, <1>a DEF Finish, Asked, Granted, SameLock, GrantInv, Load
  <2> QED
    BY <2>1, <2>2, <2>3, <1>f
<1>7. ASSUME NEW j \in Jobs, TimerFires(j) PROVE GrantInv'
  <2>1. \A k \in Jobs : pc'[k] = "session" => lease'[k] = "kept"
    BY <1>7, <1>a DEF TimerFires, GrantInv, Load
  <2>2. \A n \in Names : Granted(n) \subseteq Granted(n)'
    BY <1>7 DEF TimerFires, Granted, Load
  <2>3. \A k \in Jobs : Asked(Path[k])' # {} => Asked(Path[k]) # {} \/ Granted(Path[k])' # {}
    BY <1>7, <1>a DEF TimerFires, Asked, Granted, SameLock, GrantInv, Load
  <2> QED
    BY <2>1, <2>2, <2>3, <1>f
<1>8. ASSUME NEW c \in Calls, Unlock(c) PROVE GrantInv'
  <2>1. \A k \in Jobs : pc'[k] = "session" => lease'[k] = "kept"
    BY <1>8, <1>a DEF Unlock, GrantInv
  <2>2. \A n \in Names : Granted(n) \subseteq Granted(n)'
    BY <1>8 DEF Unlock, Granted
  <2>3. \A k \in Jobs : Asked(Path[k])' # {} => Asked(Path[k]) # {} \/ Granted(Path[k])' # {}
    BY <1>8, <1>a DEF Unlock, Asked, Granted, SameLock, GrantInv
  <2> QED
    BY <2>1, <2>2, <2>3, <1>f
<1>9. ASSUME NEW c \in Calls, Forget(c) PROVE GrantInv'
  <2>1. \A k \in Jobs : pc'[k] = "session" => lease'[k] = "kept"
    BY <1>9, <1>a DEF Forget, GrantInv
  <2>2. \A n \in Names : Granted(n) \subseteq Granted(n)'
    BY <1>9 DEF Forget, Granted
  <2>3. \A k \in Jobs : Asked(Path[k])' # {} => Asked(Path[k]) # {} \/ Granted(Path[k])' # {}
    BY <1>9, <1>a DEF Forget, Asked, Granted, SameLock, GrantInv
  <2> QED
    BY <2>1, <2>2, <2>3, <1>f
<1>10. ASSUME NEW j \in Jobs, Lapse(j) PROVE GrantInv'
  <2>1. \A k \in Jobs : pc'[k] = "session" => lease'[k] = "kept"
    BY <1>10, <1>a DEF Lapse, GrantInv
  <2>2. \A n \in Names : Granted(n) \subseteq Granted(n)'
    BY <1>10 DEF Lapse, Granted
  <2>3. \A k \in Jobs : Asked(Path[k])' # {} => Asked(Path[k]) # {} \/ Granted(Path[k])' # {}
    BY <1>10, <1>a DEF Lapse, Asked, Granted, SameLock, GrantInv
  <2> QED
    BY <2>1, <2>2, <2>3, <1>f
<1>11. ASSUME NEW s \in Servers, Crash(s) PROVE GrantInv'
  <2>1. \A k \in Jobs : pc'[k] = "session" => lease'[k] = "kept"
    BY <1>11, <1>a DEF Crash, GrantInv
  <2>2. \A n \in Names : Granted(n) \subseteq Granted(n)'
    BY <1>11 DEF Crash, Granted
  <2>3. \A k \in Jobs : Asked(Path[k])' # {} => Asked(Path[k]) # {} \/ Granted(Path[k])' # {}
    <3>1. \A m \in Jobs : pc'[m] \in {"lost", "refused"} => pc'[m] = pc[m]
      BY <1>11 DEF Crash
    <3>2. keys' = keys
      BY <1>11 DEF Crash
    <3>3. \A n : Asked(n)' \subseteq Asked(n)
      BY <3>1, <3>2 DEF Asked
    <3> QED
      BY <3>3
  <2> QED
    BY <2>1, <2>2, <2>3, <1>f
<1>12. ASSUME NEW j \in Jobs, Expire(j) PROVE GrantInv'
  <2>1. \A k \in Jobs : pc'[k] = "session" => lease'[k] = "kept"
    BY <1>12, <1>a DEF Expire, GrantInv
  <2>2. \A n \in Names : Granted(n) \subseteq Granted(n)'
    BY <1>12 DEF Expire, Granted
  <2>3. \A k \in Jobs : Asked(Path[k])' # {} => Asked(Path[k]) # {} \/ Granted(Path[k])' # {}
    BY <1>12, <1>a DEF Expire, Asked, Granted, SameLock, GrantInv
  <2> QED
    BY <2>1, <2>2, <2>3, <1>f
<1>13. ASSUME NEW s \in Servers, Restart(s) PROVE GrantInv'
  <2>1. \A k \in Jobs : pc'[k] = "session" => lease'[k] = "kept"
    BY <1>13, <1>a DEF Restart, GrantInv
  <2>2. \A n \in Names : Granted(n) \subseteq Granted(n)'
    BY <1>13 DEF Restart, Granted
  <2>3. \A k \in Jobs : Asked(Path[k])' # {} => Asked(Path[k]) # {} \/ Granted(Path[k])' # {}
    BY <1>13, <1>a DEF Restart, Asked, Granted, SameLock, GrantInv
  <2> QED
    BY <2>1, <2>2, <2>3, <1>f
<1>14. CASE UNCHANGED vars
  BY <1>14 DEF vars, GrantInv, Asked, Granted
<1> QED
  BY <1>1, <1>2, <1>3, <1>4, <1>5, <1>6, <1>7, <1>8, <1>9, <1>10, <1>11, <1>12, <1>13,
     <1>14 DEF Next, TakeLock, ReleaseLock

\* Of the executions that contend for a lock and need not give up, one gets it.
THEOREM SomeoneWinsHolds == Spec => []SomeoneWins
<1>1. CASE ~Calm
  <2>1. SomeoneWins
    BY <1>1 DEF SomeoneWins, Calm
  <2> QED
    BY <2>1, PTL
<1>2. CASE Calm
  <2>1. Init => GrantInv
    BY DEF Init, GrantInv, Asked, Granted
  <2>2. TypeOK /\ GrantInv /\ [Next]_vars => GrantInv'
    BY <1>2, NextGrant
  <2>3. GrantInv => SomeoneWins
    BY DEF GrantInv, SomeoneWins, Asked, Granted
  <2> QED
    BY <2>1, <2>2, <2>3, TypeCorrect, PTL DEF Spec
<1> QED
  BY <1>1, <1>2

-----------------------------------------------------------------------------
(* The refinement of LockService.                                            *)

Active == {j \in Jobs : Running(j)}
Over == {j \in Jobs : pc[j] \in {"finished", "refused", "crashed"}}
Waived == {l \in Locks : Lapsed(l[1], l[2])}
Exempt == {n \in Names : Aliased(n)}

\* Initially no execution of LockService is active.
LEMMA ServiceInit == Init => Service!Init
BY DEF Init, Service!Init, Running, Lapsed, Locks

\* An execution that is waived in LockService is one that is not sound.
LEMMA WaivedIsUnsound ==
    ASSUME NEW j \in Jobs
    PROVE  Service!Waived(j) <=> ~Sound(j)
BY DEF Service!Waived, Sound, Locks

\* Every step of the lock is a Begin, a Close or a Waive of LockService, or none.
LEMMA ServiceStep ==
    ASSUME TypeOK, LockInv, [Next]_vars
    PROVE  [Service!Next]_(Service!vars)
<1> USE DEF TypeOK, etcdVars, mapVars, callVars, Running
<1>a. ASSUME Active' = Active, Over' = Over, Waived' = Waived
      PROVE  [Service!Next]_(Service!vars)
  BY <1>a DEF Service!vars, Active, Over, Waived
<1>b. \A S \in SUBSET Jobs :
         (Waived' = Waived /\ Active' = Active \ S /\ Over' = Over \cup S)
           => [Service!Next]_(Service!vars)
  BY DEF Service!Next, Service!Close, Active, Over, Waived
<1>c. ASSUME UNCHANGED lease PROVE Waived' = Waived
  BY <1>c DEF Waived, Lapsed
<1>1. ASSUME NEW j \in Jobs, NewSession(j) PROVE [Service!Next]_(Service!vars)
  <2>1. Waived' = Waived
    <3>1. \A k \in Jobs : lease[k] = "lapsed" <=> lease'[k] = "lapsed"
      BY <1>1 DEF NewSession, LockInv, LeaseInv
    <3> QED
      BY <3>1 DEF Waived, Lapsed
  <2>2. CASE pc'[j] = "refused"
    <3>1. Active' = Active \ {j} /\ Over' = Over \cup {j}
      BY <1>1, <2>2 DEF NewSession, Active, Over
    <3> QED
      BY <2>1, <3>1, <1>b, {j} \in SUBSET Jobs
  <2>3. CASE pc'[j] # "refused"
    <3>1. Active' = Active /\ Over' = Over
      BY <1>1, <2>3 DEF NewSession, Active, Over
    <3> QED
      BY <2>1, <3>1, <1>a
  <2> QED
    BY <2>2, <2>3
<1>2. ASSUME NEW j \in Jobs, TryAcquire(j) PROVE [Service!Next]_(Service!vars)
  <2>1. Waived' = Waived
    BY <1>2, <1>c DEF TryAcquire
  <2>2. CASE pc'[j] = "refused"
    <3>1. Active' = Active \ {j} /\ Over' = Over \cup {j}
      BY <1>2, <2>2 DEF TryAcquire, Active, Over
    <3> QED
      BY <2>1, <3>1, <1>b, {j} \in SUBSET Jobs
  <2>3. CASE pc'[j] # "refused"
    <3>1. Active' = Active /\ Over' = Over
      BY <1>2, <2>3 DEF TryAcquire, Active, Over
    <3> QED
      BY <2>1, <3>1, <1>a
  <2> QED
    BY <2>2, <2>3
<1>3. ASSUME NEW j \in Jobs, TryAcquireError(j) PROVE [Service!Next]_(Service!vars)
  <2>1. Waived' = Waived
    BY <1>3, <1>c DEF TryAcquireError
  <2>2. CASE pc'[j] = "refused"
    <3>1. Active' = Active \ {j} /\ Over' = Over \cup {j}
      BY <1>3, <2>2 DEF TryAcquireError, Active, Over
    <3> QED
      BY <2>1, <3>1, <1>b, {j} \in SUBSET Jobs
  <2>3. CASE pc'[j] # "refused"
    <3>1. Active' = Active /\ Over' = Over
      BY <1>3, <2>3 DEF TryAcquireError, Active, Over
    <3> QED
      BY <2>1, <3>1, <1>a
  <2> QED
    BY <2>2, <2>3
<1>4. ASSUME NEW j \in Jobs, Withdraw(j) PROVE [Service!Next]_(Service!vars)
  <2>1. Waived' = Waived
    BY <1>4, <1>c DEF Withdraw
  <2>2. Active' = Active \ {j} /\ Over' = Over \cup {j}
    BY <1>4 DEF Withdraw, Active, Over
  <2> QED
    BY <2>1, <2>2, <1>b, {j} \in SUBSET Jobs
<1>5. ASSUME NEW j \in Jobs, Store(j) PROVE [Service!Next]_(Service!vars)
  <2>1. Waived' = Waived
    BY <1>5, <1>c DEF Store
  <2>2. Active' = Active \cup {j} /\ Over' = Over /\ j \notin Active \cup Over
    BY <1>5 DEF Store, Active, Over
  <2>3. \A k \in Active : Path[k] = Path[j] => ~Sound(j) \/ ~Sound(k)
    BY <1>5, <2>2 DEF Store, LockInv, OwnerInv, Holds, SameLock, Active
  <2>4. Service!Begin(j)
    BY <2>1, <2>2, <2>3, WaivedIsUnsound DEF Service!Begin, Active, Over, Waived
  <2> QED
    BY <2>4 DEF Service!Next
<1>6. ASSUME NEW j \in Jobs, Finish(j) PROVE [Service!Next]_(Service!vars)
  <2>1. Waived' = Waived
    BY <1>6, <1>c DEF Finish, Load
  <2>2. Active' = Active \ {j} /\ Over' = Over \cup {j}
    BY <1>6 DEF Finish, Load, Active, Over
  <2> QED
    BY <2>1, <2>2, <1>b, {j} \in SUBSET Jobs
<1>7. ASSUME NEW j \in Jobs, TimerFires(j) PROVE [Service!Next]_(Service!vars)
  BY <1>7, <1>a, <1>c DEF TimerFires, Load, Active, Over
<1>8. ASSUME NEW c \in Calls, Unlock(c) PROVE [Service!Next]_(Service!vars)
  BY <1>8, <1>a, <1>c DEF Unlock, Active, Over
<1>9. ASSUME NEW c \in Calls, Forget(c) PROVE [Service!Next]_(Service!vars)
  BY <1>9, <1>a, <1>c DEF Forget, Active, Over
<1>10. ASSUME NEW j \in Jobs, Lapse(j) PROVE [Service!Next]_(Service!vars)
  <2>1. Active' = Active /\ Over' = Over
    BY <1>10 DEF Lapse, Active, Over
  <2>2. <<Server[j], Path[j]>> \in Locks
    BY DEF Locks
  <2>3. \A k \in Jobs : lease'[k] = "lapsed" <=> lease[k] = "lapsed" \/ k = j
    BY <1>10 DEF Lapse
  <2>4. Waived' = Waived \cup {<<Server[j], Path[j]>>}
    BY <2>2, <2>3 DEF Waived, Lapsed, Locks
  <2>5. Service!Waive(<<Server[j], Path[j]>>)
    BY <2>1, <2>4 DEF Service!Waive, Active, Over, Waived
  <2> QED
    BY <2>2, <2>5 DEF Service!Next, Locks
<1>11. ASSUME NEW s \in Servers, Crash(s) PROVE [Service!Next]_(Service!vars)
  <2> DEFINE S == {j \in Jobs : Server[j] = s /\ pc[j] # "idle"}
  <2>1. \A k \in Jobs : lease'[k] = "lapsed" <=> lease[k] = "lapsed"
    BY <1>11 DEF Crash
  <2>2. Waived' = Waived
    BY <2>1 DEF Waived, Lapsed
  <2>3. \A k \in Jobs : pc'[k] = IF k \in S THEN "crashed" ELSE pc[k]
    BY <1>11 DEF Crash
  <2>4. Active' = Active \ S /\ Over' = Over \cup S
    BY <2>3 DEF Active, Over
  <2> QED
    BY <2>2, <2>4, <1>b, S \in SUBSET Jobs
<1>12. ASSUME NEW j \in Jobs, Expire(j) PROVE [Service!Next]_(Service!vars)
  <2>1. \A k \in Jobs : lease'[k] = "lapsed" <=> lease[k] = "lapsed"
    BY <1>12 DEF Expire
  <2>2. Waived' = Waived
    BY <2>1 DEF Waived, Lapsed
  <2>3. Active' = Active /\ Over' = Over
    BY <1>12 DEF Expire, Active, Over
  <2> QED
    BY <2>2, <2>3, <1>a
<1>13. ASSUME NEW s \in Servers, Restart(s) PROVE [Service!Next]_(Service!vars)
  BY <1>13, <1>a, <1>c DEF Restart, Active, Over
<1>14. CASE UNCHANGED vars
  BY <1>14, <1>a, <1>c DEF vars, Active, Over
<1> QED
  BY <1>1, <1>2, <1>3, <1>4, <1>5, <1>6, <1>7, <1>8, <1>9, <1>10, <1>11, <1>12, <1>13,
     <1>14 DEF Next, TakeLock, ReleaseLock

\* TakeLock and ReleaseLock implement the promise of LockService.
THEOREM Refinement == Spec => ImplementsService
BY ServiceInit, ServiceStep, LockInvariant, PTL DEF Spec, ImplementsService, Service!Spec

-----------------------------------------------------------------------------
(* The servers that share the lock.                                          *)

USE MessageAssumption

\* A step of the cluster is a step of the lock, or leaves it alone.
LEMMA ClusterStepIsLockStep == [ClusterNext]_allVars => [Next]_vars
<1> SUFFICES ASSUME [ClusterNext]_allVars PROVE [Next]_vars
  OBVIOUS
<1>1. ASSUME NEW m \in Messages, Publish(m) PROVE [Next]_vars
  BY <1>1 DEF Publish
<1>2. ASSUME NEW s \in Servers, Receive(s) PROVE [Next]_vars
  BY <1>2 DEF Receive
<1>3. ASSUME NEW s \in Servers, Fail(s) PROVE [Next]_vars
  BY <1>3 DEF Fail, Next
<1>4. ASSUME NEW j \in Jobs, Execute(j) PROVE [Next]_vars
  BY <1>4 DEF Execute, Next
<1>5. ASSUME NEW j \in Jobs, Reply(j) PROVE [Next]_vars
  BY <1>5 DEF Reply
<1>6. CASE Background
  BY <1>6 DEF Background, Next
<1>7. CASE UNCHANGED allVars
  BY <1>7 DEF allVars
<1> QED
  BY <1>1, <1>2, <1>3, <1>4, <1>5, <1>6, <1>7 DEF ClusterNext

\* Whatever the servers do with their messages, their locks behave as ScriptLock says.
THEOREM ClusterIsScriptLock == ClusterSpec => Spec
<1>1. ClusterInit => Init
  BY DEF ClusterInit
<1> QED
  BY <1>1, ClusterStepIsLockStep, PTL DEF ClusterSpec, Spec

-----------------------------------------------------------------------------
(* A message that comes to quiet servers is run by one of them.              *)

\* No script is called like another one's lock: no timer releases its mutex.
PlainNames == \A n \in Names : LockKey[n] \notin Names

ClusterType ==
    /\ queue \in [Servers -> Seq(Messages)]
    /\ cur \in [Servers -> Messages \cup {NoMessage}]
    /\ sent \in SUBSET Messages
    /\ ran \in SUBSET Messages
    /\ alone \in SUBSET sent

\* The deferred release of the job is under way.
Releasing(j) == call[<<j, "defer">>] \in {"unlocking", "cleaning"}

\* The job is between its session and the end of its deferred release.
Working(j) == pc[j] \in {"session", "lost", "won", "running"} \/ Releasing(j)

\* What is in progress is the message in the callback, under a lease that is kept,
\* with its own mutex; a key in etcd is one of work in progress or of a dead process.
Work(j) ==
    /\ Working(j) => cur[Server[j]] = Message[j] /\ lease[j] = "kept"
    /\ Releasing(j) => pc[j] = "finished" /\ loaded[<<j, "defer">>] = j
    /\ call[<<j, "timer">>] \notin {"unlocking", "cleaning"}
    /\ Running(j) => mutexes[Server[j]][Path[j]] = j
    /\ j \in keys => Working(j) \/ lease[j] = "orphaned"
    /\ call[<<j, "defer">>] = "cleaning" => j \in unlocked
    /\ j \in unlocked => j \notin keys /\ pc[j] \in {"finished", "crashed"}

WorkInv == \A j \in Jobs : Work(j)

\* Each server has one job for each message.
LEMMA OneJob ==
    ASSUME NEW j \in Jobs, NEW k \in Jobs, Server[j] = Server[k], Message[j] = Message[k]
    PROVE  j = k
<1>1. Server[j] \in Servers /\ Message[j] \in Messages
  OBVIOUS
<1>2. PICK i \in Jobs : {i} = {h \in Jobs : Server[h] = Server[j] /\ Message[h] = Message[j]}
  BY <1>1, Zenon
<1>3. \A h \in Jobs : Server[h] = Server[j] /\ Message[h] = Message[j] => h = i
  BY <1>2
<1> QED
  BY <1>3

\* A server works on one job at a time: that of the message in its callback.
LEMMA OneWorks ==
    ASSUME WorkInv, NEW j \in Jobs, NEW k \in Jobs, Server[k] = Server[j], Working(k),
           cur[Server[j]] = Message[j]
    PROVE  j = k
<1>1. Work(k)
  BY DEF WorkInv
<1>2. Message[k] = Message[j]
  BY <1>1 DEF Work
<1> QED
  BY <1>2, OneJob

\* The only releases under way are deferred ones, of the job's own mutex.
LEMMA OwnReleases ==
    ASSUME WorkInv, NEW c \in Calls, call[c] \in {"unlocking", "cleaning"}
    PROVE  /\ c[1] \in Jobs /\ c = <<c[1], "defer">> /\ loaded[c] = c[1]
           /\ Working(c[1]) /\ pc[c[1]] = "finished"
           /\ call[c] = "cleaning" => c[1] \in unlocked
<1>1. c[1] \in Jobs /\ (c = <<c[1], "defer">> \/ c = <<c[1], "timer">>)
  BY DEF Calls, Callers
<1>2. Work(c[1])
  BY <1>1 DEF WorkInv
<1>3. c = <<c[1], "defer">>
  BY <1>1, <1>2 DEF Work
<1>4. Releasing(c[1])
  BY <1>3 DEF Releasing
<1> QED
  BY <1>1, <1>2, <1>3, <1>4 DEF Work, Working

\* The servers' queues and sets of messages keep their types.
LEMMA ClusterTypeStep == ClusterType /\ [ClusterNext]_allVars => ClusterType'
<1> SUFFICES ASSUME ClusterType, [ClusterNext]_allVars PROVE ClusterType'
  OBVIOUS
<1> USE DEF ClusterType
<1>1. ASSUME NEW m \in Messages, Publish(m) PROVE ClusterType'
  <2>1. \A s \in Servers : Append(queue[s], m) \in Seq(Messages)
    OBVIOUS
  <2>2. queue' \in [Servers -> Seq(Messages)]
    BY <1>1, <2>1 DEF Publish
  <2>3. alone' \in SUBSET sent'
    BY <1>1 DEF Publish
  <2> QED
    BY <1>1, <2>2, <2>3 DEF Publish
<1>2. ASSUME NEW s \in Servers, Receive(s) PROVE ClusterType'
  <2>1. Head(queue[s]) \in Messages /\ Tail(queue[s]) \in Seq(Messages)
    BY <1>2 DEF Receive
  <2> QED
    BY <1>2, <2>1 DEF Receive
<1>3. ASSUME NEW s \in Servers, Fail(s) PROVE ClusterType'
  <2>1. <<>> \in Seq(Messages)
    OBVIOUS
  <2> QED
    BY <1>3, <2>1 DEF Fail
<1>4. ASSUME NEW j \in Jobs, Execute(j) PROVE ClusterType'
  BY <1>4 DEF Execute
<1>5. ASSUME NEW j \in Jobs, Reply(j) PROVE ClusterType'
  BY <1>5 DEF Reply
<1>6. CASE Background
  BY <1>6 DEF Background, clusterVars
<1>7. CASE UNCHANGED allVars
  BY <1>7 DEF allVars, clusterVars
<1> QED
  BY <1>1, <1>2, <1>3, <1>4, <1>5, <1>6, <1>7 DEF ClusterNext

\* What a server works on is the message in its callback, and only keys of work
\* in progress, or of a crashed server, are in etcd.
LEMMA WorkStep ==
    ASSUME Calm, PlainNames, TypeOK, ClusterType, WorkInv, [ClusterNext]_allVars
    PROVE  WorkInv'
<1> USE DEF TypeOK, ClusterType, Work, etcdVars, mapVars, callVars, Running
<1>a. "rpc" \notin Faults /\ "lapse" \notin Faults
  BY DEF Calm
<1>b. \A k \in Jobs : Work(k)
  BY DEF WorkInv
<1>c. \A j, k \in Jobs : Server[j] = Server[k] /\ Message[j] = Message[k] => j = k
  BY OneJob
<1>d. /\ \A k \in Jobs : <<k, "defer">> \in Calls /\ <<k, "timer">> \in Calls
      /\ \A c \in Calls : c[1] \in Jobs /\ (c = <<c[1], "defer">> \/ c = <<c[1], "timer">>)
      /\ \A k, m \in Jobs : <<k, "defer">> # <<m, "timer">>
      /\ \A k, m \in Jobs : <<k, "defer">> = <<m, "defer">> => k = m
      /\ \A k, m \in Jobs : <<k, "timer">> = <<m, "timer">> => k = m
      /\ \A k \in Jobs : <<k, "defer">>[1] = k /\ <<k, "timer">>[1] = k
  BY DEF Calls, Callers
<1>e. \A k \in Jobs : Message[k] \in Messages /\ Message[k] # NoMessage /\ Server[k] \in Servers
                         /\ Path[k] \in Names
  <2> HIDE DEF TypeOK, ClusterType, Work
  <2> QED
    OBVIOUS
<1>f. \A j, k \in Jobs : Working(j) /\ Working(k) /\ Server[j] = Server[k] => j = k
  BY <1>b, OneWorks DEF WorkInv
<1> SUFFICES ASSUME NEW k \in Jobs PROVE Work(k)'
  BY DEF WorkInv
<1>1. ASSUME NEW m \in Messages, Publish(m) PROVE Work(k)'
  BY <1>1, <1>b DEF Publish, vars, Working, Releasing
<1>2. ASSUME NEW s \in Servers, Receive(s) PROVE Work(k)'
  BY <1>2, <1>b, <1>e DEF Receive, vars, Working, Releasing
<1>3. ASSUME NEW s \in Servers, Fail(s) PROVE Work(k)'
  BY <1>3, <1>b, <1>d, <1>e DEF Fail, Crash, Working, Releasing
<1>4. ASSUME NEW j \in Jobs, Execute(j) PROVE Work(k)'
  <2>0. cur[Server[j]] = Message[j] /\ cur' = cur
    BY <1>4 DEF Execute
  <2>1. CASE NewSession(j)
    BY <2>0, <2>1, <1>a, <1>b, <1>c, <1>d, <1>e DEF NewSession, Working, Releasing
  <2>2. CASE TryAcquire(j)
    BY <2>0, <2>2, <1>a, <1>b, <1>c, <1>d, <1>e DEF TryAcquire, Working, Releasing
  <2>3. CASE TryAcquireError(j)
    BY <2>3, <1>a DEF TryAcquireError
  <2>4. CASE Withdraw(j)
    BY <2>0, <2>4, <1>a, <1>b, <1>c, <1>d, <1>e DEF Withdraw, Working, Releasing
  <2>5. CASE Store(j)
    <3>0. pc[j] = "won"
      BY <2>5 DEF Store
    <3>1. pc[k] = "running" => Server[j] # Server[k]
      BY <3>0, <1>f DEF Working
    <3> QED
      BY <2>0, <2>5, <3>1, <1>a, <1>b, <1>c, <1>d, <1>e DEF Store, Working, Releasing
  <2>6. CASE Finish(j)
    <3>0. pc[j] = "running"
      BY <2>6 DEF Finish
    <3>1. Entry(Server[j], Path[j]) = j
      BY <3>0, <1>b, <1>e DEF Entry
    <3> QED
      BY <2>0, <2>6, <3>1, <1>a, <1>b, <1>c, <1>d, <1>e DEF Finish, Load, Working, Releasing
  <2> QED
    BY <1>4, <2>1, <2>2, <2>3, <2>4, <2>5, <2>6 DEF Execute, TakeLock
<1>5. ASSUME NEW j \in Jobs, Reply(j) PROVE Work(k)'
  <2>1. ~Working(j)
    BY <1>5, <1>b, <1>d DEF Reply, Outcome, Working, Releasing
  <2>0. cur[Server[j]] = Message[j]
    BY <1>5 DEF Reply
  <2>2. Server[k] = Server[j] => ~Working(k)
    BY <2>0, <2>1, OneWorks
  <2> QED
    BY <1>5, <2>2, <1>b, <1>e DEF Reply, vars, Working, Releasing
<1>6. CASE Background
  <2>0. cur' = cur
    BY <1>6 DEF Background, clusterVars
  <2>1. ASSUME NEW c \in Calls, Unlock(c) PROVE Work(k)'
    <3>1. /\ c[1] \in Jobs /\ c = <<c[1], "defer">> /\ loaded[c] = c[1]
          /\ Working(c[1]) /\ pc[c[1]] = "finished"
      BY <2>1, OwnReleases DEF Unlock
    <3> QED
      BY <2>0, <2>1, <3>1, <1>a, <1>b, <1>d DEF Unlock, Working, Releasing
  <2>2. ASSUME NEW c \in Calls, Forget(c) PROVE Work(k)'
    <3>1. /\ c[1] \in Jobs /\ c = <<c[1], "defer">> /\ loaded[c] = c[1]
          /\ Working(c[1]) /\ pc[c[1]] = "finished"
      BY <2>2, OwnReleases DEF Forget
    <3>2. pc[k] = "running" => Server[k] # Server[c[1]]
      BY <3>1, <1>f DEF Working
    <3>3. ReleasePath(c) \in Names
      BY <3>1, <1>e DEF ReleasePath
    <3>4. Running(k) => mutexes'[Server[k]] = mutexes[Server[k]]
      BY <2>2, <3>2, <1>e DEF Forget
    <3>5. /\ call'[<<k, "timer">>] = call[<<k, "timer">>]
          /\ k # c[1] => call'[<<k, "defer">>] = call[<<k, "defer">>]
          /\ k = c[1] => call'[<<k, "defer">>] = "done"
      BY <2>2, <3>1, <1>d DEF Forget, Releasing
    <3>6. UNCHANGED <<pc, lease, keys, unlocked, loaded>>
      BY <2>2 DEF Forget
    <3>8. c[1] \in unlocked
      BY <2>2, OwnReleases DEF Forget
    <3> QED
      BY <2>0, <3>4, <3>5, <3>6, <3>8, <3>1, <1>b DEF Working, Releasing
  <2>3. ASSUME NEW j \in Jobs, TimerFires(j) PROVE Work(k)'
    <3>1. Entry(Server[j], LockKey[Path[j]]) = NoJob
      BY <1>e DEF Entry, PlainNames
    <3> QED
      BY <2>0, <2>3, <3>1, <1>b, <1>d DEF TimerFires, Load, Working, Releasing
  <2>4. ASSUME NEW j \in Jobs, Expire(j) PROVE Work(k)'
    BY <2>0, <2>4, <1>b DEF Expire, Working, Releasing
  <2>5. ASSUME NEW s \in Servers, Restart(s) PROVE Work(k)'
    BY <2>0, <2>5, <1>b DEF Restart, Working, Releasing
  <2> QED
    BY <1>6, <2>1, <2>2, <2>3, <2>4, <2>5 DEF Background, ReleaseLock
<1>7. CASE UNCHANGED allVars
  BY <1>7, <1>b DEF allVars, clusterVars, vars, Working, Releasing
<1> QED
  BY <1>1, <1>2, <1>3, <1>4, <1>5, <1>6, <1>7 DEF ClusterNext

-----------------------------------------------------------------------------
\* What a message appended to a queue, and one taken from its head, do to its set.
LEMMA QueueSets ==
    ASSUME NEW q \in Seq(Messages)
    PROVE  /\ \A m \in Messages : ToSet(Append(q, m)) = ToSet(q) \cup {m}
           /\ q # <<>> => ToSet(q) = {Head(q)} \cup ToSet(Tail(q))
<1>1. ASSUME NEW m \in Messages PROVE ToSet(Append(q, m)) = ToSet(q) \cup {m}
  <2>1. DOMAIN Append(q, m) = 1..Len(q) + 1 /\ DOMAIN q = 1..Len(q) /\ Len(q) \in Nat
    BY AppendProperties
  <2>2. \A i \in 1..Len(q) : Append(q, m)[i] = q[i]
    BY AppendProperties
  <2>3. Append(q, m)[Len(q) + 1] = m
    BY AppendProperties
  <2> QED
    BY <2>1, <2>2, <2>3 DEF ToSet
<1>2. ASSUME q # <<>> PROVE ToSet(q) = {Head(q)} \cup ToSet(Tail(q))
  <2>1. DOMAIN q = 1..Len(q) /\ Len(q) \in Nat \ {0} /\ Head(q) = q[1]
    BY <1>2
  <2>2. DOMAIN Tail(q) = 1..Len(q) - 1 /\ \A i \in 1..Len(q) - 1 : Tail(q)[i] = q[i + 1]
    BY <1>2, <2>1
  <2>3. \A i \in DOMAIN q : i # 1 => i - 1 \in 1..Len(q) - 1 /\ (i - 1) + 1 = i
    BY <2>1
  <2>4. ToSet(q) \subseteq {Head(q)} \cup ToSet(Tail(q))
    BY <2>1, <2>2, <2>3 DEF ToSet
  <2>5. {Head(q)} \cup ToSet(Tail(q)) \subseteq ToSet(q)
    BY <2>1, <2>2 DEF ToSet
  <2> QED
    BY <2>4, <2>5
<1> QED
  BY <1>1, <1>2

\* A message published is on its way to the servers that are up, and no other is.
LEMMA BusyPublish ==
    ASSUME ClusterType, NEW m \in Messages, Publish(m)
    PROVE  /\ \A n \in Messages : n # m => (Busy(n)' <=> Busy(n))
           /\ (\E s \in Servers : up[s]) => Busy(m)'
<1> USE DEF ClusterType, Publish
<1>1. \A s \in Servers :
         queue'[s] = queue[s] \/ (queue'[s] = Append(queue[s], m))
  OBVIOUS
<1>2. \A s \in Servers : \A n \in Messages :
         n # m => (n \in ToSet(queue'[s]) <=> n \in ToSet(queue[s]))
  BY <1>1, QueueSets
<1>3. \A s \in Servers : up[s] => m \in ToSet(queue'[s])
  BY QueueSets
<1> QED
  BY <1>2, <1>3 DEF Busy

\* A message received stays with its server.
LEMMA BusyReceive ==
    ASSUME ClusterType, NEW s \in Servers, Receive(s)
    PROVE  \A n \in Messages : Busy(n)' <=> Busy(n)
<1> USE DEF ClusterType, Receive
<1>1. ToSet(queue[s]) = {Head(queue[s])} \cup ToSet(Tail(queue[s]))
  BY QueueSets
<1>2. \A r \in Servers : r # s => queue'[r] = queue[r] /\ cur'[r] = cur[r]
  OBVIOUS
<1>3. queue'[s] = Tail(queue[s]) /\ cur'[s] = Head(queue[s]) /\ cur[s] = NoMessage
  OBVIOUS
<1>4. \A n \in Messages : \A r \in Servers :
         (cur'[r] = n \/ n \in ToSet(queue'[r])) <=> (cur[r] = n \/ n \in ToSet(queue[r]))
  <2> SUFFICES ASSUME NEW n \in Messages, NEW r \in Servers
               PROVE  (cur'[r] = n \/ n \in ToSet(queue'[r]))
                        <=> (cur[r] = n \/ n \in ToSet(queue[r]))
    OBVIOUS
  <2>1. CASE r = s
    BY <2>1, <1>1, <1>3
  <2>2. CASE r # s
    BY <2>2, <1>2
  <2> QED
    BY <2>1, <2>2
<1> QED
  BY <1>4 DEF Busy

\* A reply ends the message at one server, and touches no other message.
LEMMA BusyReply ==
    ASSUME ClusterType, NEW j \in Jobs, Reply(j)
    PROVE  /\ \A n \in Messages : Busy(n)' => Busy(n)
           /\ \A n \in Messages : n # Message[j] => (Busy(n)' <=> Busy(n))
<1> USE DEF ClusterType, Reply
<1>1. \A r \in Servers : queue'[r] = queue[r] /\ (r # Server[j] => cur'[r] = cur[r])
  OBVIOUS
<1>2. cur'[Server[j]] = NoMessage /\ cur[Server[j]] = Message[j]
  OBVIOUS
<1>3. \A n \in Messages : n # NoMessage
  OBVIOUS
<1>4. \A n \in Messages, r \in Servers : cur'[r] = n => cur[r] = n
  BY <1>1, <1>2, <1>3
<1>5. \A n \in Messages, r \in Servers : n # Message[j] /\ cur[r] = n => cur'[r] = n
  BY <1>1, <1>2
<1> QED
  BY <1>1, <1>4, <1>5 DEF Busy

\* A crash brings no message back.
LEMMA BusyFail ==
    ASSUME ClusterType, NEW s \in Servers, Fail(s)
    PROVE  \A n \in Messages : Busy(n)' => Busy(n)
<1> USE DEF ClusterType, Fail
<1>1. \A n \in Messages : n # NoMessage
  OBVIOUS
<1>2. \A r \in Servers : r # s => queue'[r] = queue[r] /\ cur'[r] = cur[r]
  OBVIOUS
<1>3. queue'[s] = <<>> /\ cur'[s] = NoMessage
  OBVIOUS
<1>4. ToSet(<<>>) = {}
  BY DEF ToSet
<1> QED
  BY <1>1, <1>2, <1>3, <1>4 DEF Busy

\* What is on its way was published; what a job has started was run.
SentInv ==
    /\ \A m \in Messages : Busy(m) => m \in sent
    /\ \A j \in Jobs : pc[j] # "idle" => Message[j] \in sent
    /\ \A j \in Jobs : pc[j] \in {"running", "finished"} => Message[j] \in ran

\* Servers work on messages that were published, and the script has been started
\* for those that a job has run.
LEMMA SentStep ==
    ASSUME TypeOK, ClusterType, SentInv, [ClusterNext]_allVars
    PROVE  SentInv'
<1> USE DEF TypeOK, SentInv
<1>a. ASSUME UNCHANGED <<queue, cur>> PROVE \A n \in Messages : Busy(n)' <=> Busy(n)
  BY <1>a DEF Busy
<1>b. \A k \in Jobs : Server[k] \in Servers /\ Message[k] \in Messages
  OBVIOUS
<1>1. ASSUME NEW m \in Messages, Publish(m) PROVE SentInv'
  <2>1. \A n \in Messages : Busy(n)' => n \in sent'
    BY <1>1, BusyPublish DEF Publish
  <2> QED
    BY <1>1, <2>1 DEF Publish, vars
<1>2. ASSUME NEW s \in Servers, Receive(s) PROVE SentInv'
  <2>1. \A n \in Messages : Busy(n)' => n \in sent'
    BY <1>2, BusyReceive DEF Receive
  <2> QED
    BY <1>2, <2>1 DEF Receive, vars
<1>3. ASSUME NEW s \in Servers, Fail(s) PROVE SentInv'
  <2>1. \A n \in Messages : Busy(n)' => n \in sent'
    BY <1>3, BusyFail DEF Fail
  <2>2. \A k \in Jobs : pc'[k] = pc[k] \/ (pc'[k] = "crashed" /\ pc[k] # "idle")
    BY <1>3 DEF Fail, Crash
  <2>3. sent' = sent /\ ran' = ran
    BY <1>3 DEF Fail
  <2> QED
    BY <2>1, <2>2, <2>3
<1>4. ASSUME NEW j \in Jobs, Execute(j) PROVE SentInv'
  <2>1. Busy(Message[j])
    BY <1>4, <1>b DEF Execute, Busy
  <2>2. \A n \in Messages : Busy(n)' => n \in sent'
    BY <1>4, <1>a DEF Execute
  <2>3. \A k \in Jobs : k # j => pc'[k] = pc[k]
    BY <1>4 DEF Execute, TakeLock, NewSession, TryAcquire, TryAcquireError, Withdraw, Store,
       Finish
  <2>4. pc'[j] = "finished" => pc[j] = "running"
    BY <1>4 DEF Execute, TakeLock, NewSession, TryAcquire, TryAcquireError, Withdraw, Store,
       Finish
  <2>5. ran \subseteq ran' /\ (pc'[j] = "running" => Message[j] \in ran') /\ sent' = sent
    BY <1>4 DEF Execute
  <2> QED
    BY <2>1, <2>2, <2>3, <2>4, <2>5, <1>b
<1>5. ASSUME NEW j \in Jobs, Reply(j) PROVE SentInv'
  <2>1. \A n \in Messages : Busy(n)' => n \in sent'
    BY <1>5, BusyReply DEF Reply
  <2> QED
    BY <1>5, <2>1 DEF Reply, vars
<1>6. CASE Background
  <2>1. pc' = pc /\ UNCHANGED clusterVars
    BY <1>6 DEF Background, ReleaseLock, Unlock, Forget, TimerFires, Expire, Restart
  <2> QED
    BY <2>1, <1>a DEF clusterVars
<1>7. CASE UNCHANGED allVars
  BY <1>7, <1>a DEF allVars, vars, clusterVars
<1> QED
  BY <1>1, <1>2, <1>3, <1>4, <1>5, <1>6, <1>7 DEF ClusterNext

\* A job of the message has the lock, or has had it.
Winner(m) == \E j \in Jobs : Message[j] = m /\ pc[j] \in {"won", "running", "finished"}

\* A message that met no other has been run, or the servers work on nothing else
\* and one of its jobs has the lock once one of them has asked for it.
Alone(m) ==
    \/ ~Busy(m) /\ m \in ran
    \/ /\ Busy(m)
       /\ \A n \in Messages : Busy(n) => n = m
       /\ \A j \in Jobs : lease[j] # "orphaned"
       /\ \A j \in Jobs : Message[j] = m /\ (j \in keys \/ pc[j] \in {"lost", "refused"})
                             => Winner(m)

AloneInv == \A m \in alone : Alone(m)

\* When no lease is orphaned, the keys in etcd are of jobs of busy messages.
LEMMA KeyIsBusy ==
    ASSUME WorkInv, NEW j \in Jobs, j \in keys, lease[j] # "orphaned"
    PROVE  Busy(Message[j])
<1>1. cur[Server[j]] = Message[j]
  BY DEF WorkInv, Work
<1> QED
  BY <1>1 DEF Busy

\* A message published to quiet servers is alone; another one ends what was alone.
LEMMA AlonePublish ==
    ASSUME TypeOK, ClusterType, LeaseInv, WorkInv, SentInv, AloneInv,
           NEW m \in Messages, Publish(m)
    PROVE  AloneInv'
<1>1. UNCHANGED vars /\ ran' = ran
  BY DEF Publish
<1>2. ASSUME NEW n \in alone, ~Busy(n) PROVE Alone(n)'
  <2>1. n # m /\ n \in Messages /\ n \in ran
    BY <1>2 DEF AloneInv, Alone, Publish, ClusterType
  <2>2. ~Busy(n)'
    BY <1>2, <2>1, BusyPublish
  <2> QED
    BY <1>1, <2>1, <2>2 DEF Alone
<1>3. CASE Quiet /\ \E s \in Servers : up[s]
  <2>1. Busy(m)' /\ \A n \in Messages : Busy(n)' => n = m
    BY <1>3, BusyPublish DEF Quiet
  <2>2. \A j \in Jobs : j \notin keys
    BY <1>3, KeyIsBusy DEF Quiet
  <2>3. \A j \in Jobs : Message[j] = m => pc[j] = "idle"
    BY DEF SentInv, Publish
  <2>4. Alone(m)'
    BY <1>1, <1>3, <2>1, <2>2, <2>3 DEF Alone, Quiet, vars, etcdVars
  <2>5. \A n \in alone : Alone(n)'
    BY <1>2, <1>3 DEF Quiet, ClusterType
  <2>6. alone' = alone \cup {m}
    BY <1>3 DEF Publish
  <2> QED
    BY <2>4, <2>5, <2>6 DEF AloneInv
<1>4. CASE ~(Quiet /\ \E s \in Servers : up[s])
  <2>1. alone' = {k \in alone : ~Busy(k)}
    BY <1>4 DEF Publish
  <2> QED
    BY <1>2, <2>1 DEF AloneInv
<1> QED
  BY <1>3, <1>4

\* While the servers work on one message, one of its jobs gets the lock.
LEMMA AloneExecute ==
    ASSUME Calm, TypeOK, ClusterType, WorkInv, SentInv, AloneInv,
           NEW j \in Jobs, Execute(j)
    PROVE  AloneInv'
<1> USE DEF TypeOK
<1>1. "rpc" \notin Faults /\ Message[j] \in Messages /\ Server[j] \in Servers
  BY DEF Calm
<1>2. /\ cur[Server[j]] = Message[j] /\ Busy(Message[j])
      /\ UNCHANGED <<queue, cur, sent, answers, alone>> /\ ran \subseteq ran'
  BY <1>1 DEF Execute, Busy
<1>3. \A n : Busy(n)' <=> Busy(n)
  BY <1>2 DEF Busy
<1> SUFFICES ASSUME NEW m \in alone PROVE Alone(m)'
  BY <1>2 DEF AloneInv
<1>4. Alone(m) /\ m \in Messages
  BY DEF AloneInv, ClusterType
<1>5. CASE ~Busy(m)
  BY <1>2, <1>3, <1>4, <1>5 DEF Alone
<1>6. CASE Busy(m)
  <2>1. /\ \A n \in Messages : Busy(n) => n = m
        /\ \A k \in Jobs : lease[k] # "orphaned"
        /\ \A k \in Jobs : Message[k] = m /\ (k \in keys \/ pc[k] \in {"lost", "refused"})
                             => Winner(m)
    BY <1>4, <1>6 DEF Alone
  <2>2. Message[j] = m
    BY <1>1, <1>2, <2>1
  <2>3. \A k \in Jobs : lease'[k] # "orphaned"
    BY <2>1 DEF Execute, TakeLock, NewSession, TryAcquire, TryAcquireError, Withdraw, Store,
       Finish, etcdVars
  <2>4. \A k \in keys : Message[k] = m
    BY <2>1, KeyIsBusy
  <2>5. Winner(m) => Winner(m)'
    BY DEF Winner, Execute, TakeLock, NewSession, TryAcquire, TryAcquireError, Withdraw,
       Store, Finish
  <2>6. TryAcquire(j) => Winner(m)'
    <3> SUFFICES ASSUME TryAcquire(j) PROVE Winner(m)'
      OBVIOUS
    <3>1. lease[j] = "kept"
      BY DEF TryAcquire, WorkInv, Work, Working
    <3>2. CASE \E k \in keys : SameLock(j, k)
      BY <2>1, <2>4, <2>5, <3>2
    <3>3. CASE ~\E k \in keys : SameLock(j, k)
      BY <2>2, <3>1, <3>3 DEF TryAcquire, Winner
    <3> QED
      BY <3>2, <3>3
  <2>7. ASSUME NEW k \in Jobs, k \in keys' \/ pc'[k] \in {"lost", "refused"}, ~TryAcquire(j)
        PROVE  k \in keys \/ pc[k] \in {"lost", "refused"}
    BY <1>1, <2>7 DEF Execute, TakeLock, NewSession, TryAcquireError, Withdraw, Store, Finish,
       etcdVars
  <2>8. \A k \in Jobs : Message[k] = m /\ (k \in keys' \/ pc'[k] \in {"lost", "refused"})
                             => Winner(m)'
    BY <2>1, <2>5, <2>6, <2>7
  <2> QED
    BY <1>3, <1>6, <2>1, <2>3, <2>8 DEF Alone
<1> QED
  BY <1>5, <1>6

\* The last reply to a message finds it run.
LEMMA AloneReply ==
    ASSUME TypeOK, ClusterType, WorkInv, SentInv, AloneInv,
           NEW j \in Jobs, Reply(j)
    PROVE  AloneInv'
<1>1. /\ cur[Server[j]] = Message[j] /\ UNCHANGED <<vars, ran, alone>>
      /\ Message[j] \in Messages /\ Server[j] \in Servers
      /\ pc[j] \in {"refused", "finished"}
  BY DEF Reply, Outcome
<1> SUFFICES ASSUME NEW m \in alone PROVE Alone(m)'
  BY <1>1 DEF AloneInv
<1>2. Alone(m) /\ m \in Messages
  BY DEF AloneInv, ClusterType
<1>3. \A n \in Messages : Busy(n)' => Busy(n)
  BY BusyReply
<1>4. Winner(m)' <=> Winner(m)
  BY <1>1 DEF Winner, vars
<1>5. CASE Busy(m)'
  BY <1>1, <1>2, <1>3, <1>4, <1>5 DEF Alone, vars, etcdVars
<1>6. CASE ~Busy(m)' /\ ~Busy(m)
  BY <1>1, <1>2, <1>6 DEF Alone
<1>7. CASE ~Busy(m)' /\ Busy(m)
  <2>1. Message[j] = m
    BY <1>2, <1>7, BusyReply
  <2>2. PICK k \in Jobs : Message[k] = m /\ pc[k] \in {"won", "running", "finished"}
    BY <1>1, <1>2, <1>7, <2>1 DEF Alone, Winner
  <2>3. pc[k] # "won"
    <3> SUFFICES ASSUME pc[k] = "won" PROVE FALSE
      OBVIOUS
    <3>1. cur[Server[k]] = m /\ Server[k] \in Servers
      BY <2>2 DEF WorkInv, Work, Working
    <3>2. Server[k] # Server[j]
      BY <1>1, <2>1, <2>2, OneJob
    <3>3. cur'[Server[k]] = m
      BY <3>1, <3>2 DEF Reply, ClusterType
    <3> QED
      BY <3>1, <3>3, <1>7 DEF Busy
  <2>4. m \in ran
    BY <2>2, <2>3 DEF SentInv
  <2> QED
    BY <1>1, <1>7, <2>4 DEF Alone
<1> QED
  BY <1>5, <1>6, <1>7

\* Every step keeps what is known of the messages that are alone.
LEMMA AloneStep ==
    ASSUME Calm, TypeOK, LeaseInv, ClusterType, WorkInv, SentInv, AloneInv,
           [ClusterNext]_allVars
    PROVE  AloneInv'
<1>a. ASSUME UNCHANGED <<queue, cur>> PROVE \A n : Busy(n)' <=> Busy(n)
  BY <1>a DEF Busy
<1>b. ASSUME \A n \in Messages : Busy(n)' <=> Busy(n), UNCHANGED <<ran, alone, pc>>,
             \A k \in Jobs : lease'[k] = "orphaned" => lease[k] = "orphaned", keys' \subseteq keys
      PROVE  AloneInv'
  <2> SUFFICES ASSUME NEW m \in alone PROVE Alone(m)'
    BY <1>b DEF AloneInv
  <2>1. Alone(m) /\ m \in Messages
    BY DEF AloneInv, ClusterType
  <2>2. Winner(m)' <=> Winner(m)
    BY <1>b DEF Winner
  <2> QED
    BY <1>b, <2>1, <2>2 DEF Alone
<1>1. ASSUME NEW m \in Messages, Publish(m) PROVE AloneInv'
  BY <1>1, AlonePublish
<1>2. ASSUME NEW s \in Servers, Receive(s) PROVE AloneInv'
  <2>1. UNCHANGED <<ran, alone, pc, lease, keys>>
    BY <1>2 DEF Receive, vars, etcdVars
  <2> QED
    BY <1>2, <2>1, <1>b, BusyReceive
<1>3. ASSUME NEW s \in Servers, Fail(s) PROVE AloneInv'
  <2>1. alone' = {n \in alone : ~Busy(n)} /\ ran' = ran
    BY <1>3 DEF Fail
  <2>2. \A n \in Messages : Busy(n)' => Busy(n)
    BY <1>3, BusyFail
  <2> QED
    BY <2>1, <2>2 DEF AloneInv, Alone, ClusterType
<1>4. ASSUME NEW j \in Jobs, Execute(j) PROVE AloneInv'
  BY <1>4, AloneExecute
<1>5. ASSUME NEW j \in Jobs, Reply(j) PROVE AloneInv'
  BY <1>5, AloneReply
<1>6. CASE Background
  <2>1. UNCHANGED <<queue, cur, ran, alone>>
    BY <1>6 DEF Background, clusterVars
  <2>2. pc' = pc /\ keys' \subseteq keys
        /\ \A k \in Jobs : lease'[k] = "orphaned" => lease[k] = "orphaned"
    BY <1>6 DEF Background, ReleaseLock, Unlock, Forget, TimerFires, Expire, Restart, TypeOK,
       etcdVars
  <2> QED
    BY <2>1, <2>2, <1>a, <1>b
<1>7. CASE UNCHANGED allVars
  BY <1>7, <1>a, <1>b DEF allVars, vars, clusterVars, etcdVars
<1> QED
  BY <1>1, <1>2, <1>3, <1>4, <1>5, <1>6, <1>7 DEF ClusterNext

\* The lock's promises hold of the lock that the servers share.
THEOREM ClusterSomeoneWins == ClusterSpec => []SomeoneWins
BY ClusterIsScriptLock, SomeoneWinsHolds, PTL

\* A message that comes to quiet servers and meets no other is run by one of them,
\* when etcd answers, leases are kept and no script is called "<x>_lock".
THEOREM QuietMessageRunsHolds ==
    ASSUME Calm, PlainNames
    PROVE  ClusterSpec => []QuietMessageRuns
<1>1. ClusterInit => ClusterType /\ WorkInv /\ SentInv /\ AloneInv
  <2> SUFFICES ASSUME ClusterInit PROVE ClusterType /\ WorkInv /\ SentInv /\ AloneInv
    OBVIOUS
  <2>1. ClusterType
    BY DEF ClusterInit, ClusterType
  <2>2. \A s \in Servers : ToSet(queue[s]) = {}
    BY DEF ClusterInit, ToSet
  <2>3. \A m \in Messages : ~Busy(m)
    BY <2>2 DEF ClusterInit, Busy
  <2>4. WorkInv
    BY DEF ClusterInit, Init, WorkInv, Work, Working, Releasing, Running, Calls, Callers
  <2>5. SentInv
    BY <2>3 DEF ClusterInit, Init, SentInv
  <2>6. AloneInv
    BY DEF ClusterInit, AloneInv
  <2> QED
    BY <2>1, <2>4, <2>5, <2>6
<1>2. TypeOK /\ LockInv /\ ClusterType /\ WorkInv /\ SentInv /\ AloneInv /\ [ClusterNext]_allVars
        => ClusterType' /\ WorkInv' /\ SentInv' /\ AloneInv'
  <2> SUFFICES ASSUME TypeOK, LockInv, ClusterType, WorkInv, SentInv, AloneInv,
                      [ClusterNext]_allVars
               PROVE  ClusterType' /\ WorkInv' /\ SentInv' /\ AloneInv'
    OBVIOUS
  <2>1. LeaseInv
    BY DEF LockInv
  <2>2. ClusterType'
    BY ClusterTypeStep
  <2>3. WorkInv'
    BY WorkStep
  <2>4. SentInv'
    BY SentStep
  <2>5. AloneInv'
    BY <2>1, AloneStep
  <2> QED
    BY <2>2, <2>3, <2>4, <2>5
<1>3. ClusterType /\ AloneInv => QuietMessageRuns
  BY DEF AloneInv, Alone, QuietMessageRuns
<1> QED
  BY <1>1, <1>2, <1>3, ClusterIsScriptLock, TypeCorrect, LockInvariant, PTL DEF ClusterSpec
=============================================================================
