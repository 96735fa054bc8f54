--------------------------- MODULE LuaExecutor_proofs ---------------------------
(***************************************************************************)
(* Proofs about LuaExecutor: what a job has acquired is what its deferred  *)
(* calls give back, at every stage and on every path.                      *)
(***************************************************************************)
EXTENDS LuaExecutor, SequenceTheorems, TLAPS

\* What a job has deferred when it holds n of its resources.
After(n) ==
    CASE n = 0 -> <<>>
      [] n = 1 -> <<"RemoveAll">>
      [] n = 2 -> <<"ReleaseLock", "RemoveAll">>
      [] n = 3 -> <<"cancel", "ReleaseLock", "RemoveAll">>
      [] n = 4 -> <<"Close", "cancel", "ReleaseLock", "RemoveAll">>

LEMMA AfterValues ==
    /\ After(0) = <<>> /\ After(1) = <<"RemoveAll">>
    /\ After(2) = <<"ReleaseLock", "RemoveAll">>
    /\ After(3) = <<"cancel", "ReleaseLock", "RemoveAll">>
    /\ After(4) = <<"Close", "cancel", "ReleaseLock", "RemoveAll">>
  BY DEF After

\* Concatenations of short tuples.
LEMMA Singletons ==
    ASSUME NEW S, NEW a \in S, NEW b \in S
    PROVE  <<a>> \o <<b>> = <<a, b>>
<1> DEFINE s == <<a>> \o <<b>>
<1>1. <<a>> \in Seq(S) /\ <<b>> \in Seq(S) /\ <<a, b>> \in Seq(S)
  OBVIOUS
<1>2. s \in Seq(S) /\ Len(s) = 2 /\ s[1] = a /\ s[2] = b
  BY <1>1, ConcatProperties
<1>3. Len(s) = Len(<<a, b>>) /\ \A i \in 1..Len(s) : s[i] = <<a, b>>[i]
  BY <1>2
<1> HIDE DEF s
<1>4. s = <<a, b>>
  BY <1>1, <1>2, <1>3, SeqEqual
<1> QED
  BY <1>4 DEF s

LEMMA Pairs ==
    ASSUME NEW S, NEW a \in S, NEW b \in S, NEW c \in S, NEW d \in S
    PROVE  <<a, b>> \o <<c, d>> = <<a, b, c, d>>
<1> DEFINE s == <<a, b>> \o <<c, d>>
<1>1. <<a, b>> \in Seq(S) /\ <<c, d>> \in Seq(S) /\ <<a, b, c, d>> \in Seq(S)
  OBVIOUS
<1>2. s \in Seq(S) /\ Len(s) = 4 /\ s[1] = a /\ s[2] = b /\ s[3] = c /\ s[4] = d
  BY <1>1, ConcatProperties
<1>3. Len(s) = Len(<<a, b, c, d>>) /\ \A i \in 1..Len(s) : s[i] = <<a, b, c, d>>[i]
  BY <1>2
<1> HIDE DEF s
<1>4. s = <<a, b, c, d>>
  BY <1>1, <1>2, <1>3, SeqEqual
<1> QED
  BY <1>4 DEF s

LEMMA AfterConcat ==
    /\ <<"RemoveAll">> \o After(0) = After(1)
    /\ <<"ReleaseLock">> \o After(1) = After(2)
    /\ <<"Close", "cancel">> \o After(2) = After(4)
<1> DEFINE S == {"Close", "cancel", "ReleaseLock", "RemoveAll"}
<1>1. "Close" \in S /\ "cancel" \in S /\ "ReleaseLock" \in S /\ "RemoveAll" \in S
  OBVIOUS
<1> HIDE DEF S
<1>2. <<"RemoveAll">> \o <<>> = <<"RemoveAll">>
  OBVIOUS
<1>3. <<"ReleaseLock">> \o <<"RemoveAll">> = <<"ReleaseLock", "RemoveAll">>
  BY <1>1, Singletons
<1>4. <<"Close", "cancel">> \o <<"ReleaseLock", "RemoveAll">>
        = <<"Close", "cancel", "ReleaseLock", "RemoveAll">>
  BY <1>1, Pairs, Zenon
<1> QED
  BY <1>2, <1>3, <1>4, AfterValues

\* The deferred call that runs next, and those that are left then.
LEMMA AfterHead ==
    /\ Head(After(1)) = "RemoveAll" /\ Tail(After(1)) = After(0)
    /\ Head(After(2)) = "ReleaseLock" /\ Tail(After(2)) = After(1)
    /\ Head(After(3)) = "cancel" /\ Tail(After(3)) = After(2)
    /\ Head(After(4)) = "Close" /\ Tail(After(4)) = After(3)
<1>1. Tail(<<"RemoveAll">>) = <<>>
  OBVIOUS
<1>2. Tail(<<"ReleaseLock", "RemoveAll">>) = <<"RemoveAll">>
  OBVIOUS
<1>3. Tail(<<"cancel", "ReleaseLock", "RemoveAll">>) = <<"ReleaseLock", "RemoveAll">>
  OBVIOUS
<1>4. Tail(<<"Close", "cancel", "ReleaseLock", "RemoveAll">>)
        = <<"cancel", "ReleaseLock", "RemoveAll">>
  OBVIOUS
<1>5. /\ Head(<<"RemoveAll">>) = "RemoveAll"
      /\ Head(<<"ReleaseLock", "RemoveAll">>) = "ReleaseLock"
      /\ Head(<<"cancel", "ReleaseLock", "RemoveAll">>) = "cancel"
      /\ Head(<<"Close", "cancel", "ReleaseLock", "RemoveAll">>) = "Close"
  OBVIOUS
<1> QED
  BY <1>1, <1>2, <1>3, <1>4, <1>5, AfterValues

LEMMA AfterLength ==
    Len(After(0)) = 0 /\ Len(After(1)) = 1 /\ Len(After(2)) = 2 /\ Len(After(3)) = 3
    /\ Len(After(4)) = 4
  BY AfterValues

LEMMA AfterSuffix == \A n \in 0..4 : After(n) \in Suffixes(Deferred)
<1> DEFINE S == {"Close", "cancel", "ReleaseLock", "RemoveAll"}
           D == <<"Close", "cancel", "ReleaseLock", "RemoveAll">>
<1>1. D \in Seq(S) /\ Len(D) = 4 /\ After(4) = D
  BY AfterValues
<1>2. D = Deferred
  BY DEF Deferred
<1> HIDE DEF S, D
<1>3. SubSeq(D, 1, 4) = D /\ SubSeq(D, 2, 4) = Tail(D)
  <2>1. SubSeq(D, 1, 4) = D
    BY <1>1, SubSeqFull
  <2>2. 1 \in 1..Len(D) /\ 4 \in 1..Len(D)
    BY <1>1
  <2>3. Tail(SubSeq(D, 1, 4)) = SubSeq(D, 2, 4)
    BY <1>1, <2>2, HeadTailOfSubSeq
  <2> QED
    BY <2>1, <2>3, Zenon
<1>4. SubSeq(D, 3, 4) = Tail(Tail(D)) /\ SubSeq(D, 4, 4) = Tail(Tail(Tail(D)))
  <2>1. 2 \in 1..Len(D) /\ 3 \in 1..Len(D) /\ 4 \in 2..Len(D) /\ 4 \in 3..Len(D)
    BY <1>1
  <2>2. SubSeq(D, 3, 4) = Tail(SubSeq(D, 2, 4)) /\ SubSeq(D, 4, 4) = Tail(SubSeq(D, 3, 4))
    BY <1>1, <2>1, HeadTailOfSubSeq
  <2> QED
    BY <1>3, <2>2
<1>5. /\ SubSeq(D, 1, 4) = After(4) /\ SubSeq(D, 2, 4) = After(3)
      /\ SubSeq(D, 3, 4) = After(2) /\ SubSeq(D, 4, 4) = After(1)
  BY <1>1, <1>3, <1>4, AfterHead
<1>6. \A n \in 1..4 : SubSeq(D, n, 4) \in Suffixes(Deferred)
  BY <1>1, <1>2 DEF Suffixes
<1>7. After(0) \in Suffixes(Deferred)
  BY AfterValues DEF Suffixes
<1>8. /\ After(1) \in Suffixes(Deferred) /\ After(2) \in Suffixes(Deferred)
      /\ After(3) \in Suffixes(Deferred) /\ After(4) \in Suffixes(Deferred)
  <2>1. /\ SubSeq(D, 1, 4) \in Suffixes(Deferred) /\ SubSeq(D, 2, 4) \in Suffixes(Deferred)
        /\ SubSeq(D, 3, 4) \in Suffixes(Deferred) /\ SubSeq(D, 4, 4) \in Suffixes(Deferred)
    BY <1>6
  <2> QED
    BY <1>5, <2>1, Zenon
<1>9. \A n \in 0..4 : n = 0 \/ n = 1 \/ n = 2 \/ n = 3 \/ n = 4
  OBVIOUS
<1> QED
  BY <1>7, <1>8, <1>9

-----------------------------------------------------------------------------
Types ==
    /\ pc \in [Jobs -> ToSet(Stages) \cup {"idle", "return", "done"}]
    /\ DOMAIN defers = Jobs /\ defers = [j \in Jobs |-> defers[j]]
    /\ tmp \subseteq Jobs /\ locked \subseteq Jobs
    /\ states \subseteq Jobs /\ timers \subseteq Jobs
    /\ cwd \in [Servers -> Jobs \cup {Start}]
    /\ result \in [Jobs -> Outcomes]
    /\ stopped \subseteq Servers /\ overlapped \subseteq Jobs

\* How much a job holds at each stage.
Idle == {"idle", "tmp", "done"}
Entered == {"chdir", "libs", "lock"}
Opened == {"plugins", "body", "call"}
Holds(stage, n) ==
    /\ n \in 0..4
    /\ stage \in Idle => n = 0
    /\ stage \in Entered => n = 1
    /\ stage = "state" => n = 2
    /\ stage \in Opened => n = 4

\* What a job has acquired is what it has deferred the calls for.
Holding(j, n) ==
    /\ defers[j] = After(n)
    /\ j \in tmp <=> n >= 1
    /\ j \in locked <=> n >= 2
    /\ j \in timers <=> n >= 3
    /\ j \in states <=> n >= 4

Balanced == \A j \in Jobs : \E n \in 0..4 : Holds(pc[j], n) /\ Holding(j, n)

\* A lock has one holder.
Exclusive == Locking => \A j, k \in locked : Name[j] = Name[k] => j = k

IInv == Types /\ Balanced /\ Exclusive

LEMMA StageValues ==
    ToSet(Stages) = {"tmp", "chdir", "libs", "lock", "state", "plugins", "body", "call"}
  BY DEF Stages, ToSet

\* A step of one job leaves the others as they are.
LEMMA OthersBalanced ==
    ASSUME Balanced, NEW j \in Jobs,
           \A k \in Jobs : k # j =>
              /\ pc'[k] = pc[k] /\ defers'[k] = defers[k]
              /\ k \in tmp' <=> k \in tmp
              /\ k \in locked' <=> k \in locked
              /\ k \in timers' <=> k \in timers
              /\ k \in states' <=> k \in states,
           NEW n \in 0..4, Holds(pc'[j], n), Holding(j, n)'
    PROVE  Balanced'
  BY DEF Balanced, Holding

LEMMA InitHolds == Init => IInv
<1> SUFFICES ASSUME Init PROVE IInv
  OBVIOUS
<1>1. Types
  BY DEF Init, Types, Outcomes
<1>2. \A j \in Jobs : Holds(pc[j], 0) /\ Holding(j, 0)
  BY AfterValues DEF Init, Holds, Holding, Idle, Entered, Opened
<1>3. Balanced
  BY <1>2 DEF Balanced
<1>4. Exclusive
  BY DEF Init, Exclusive
<1> QED
  BY <1>1, <1>3, <1>4 DEF IInv

\* A step that only moves a job between stages at which it holds the same.
LEMMA MoveHolds ==
    ASSUME IInv, NEW j \in Jobs, NEW stage \in ToSet(Stages) \cup {"idle", "return", "done"},
           \A n \in 0..4 : Holds(pc[j], n) => Holds(stage, n),
           NEW r \in Outcomes, pc' = [pc EXCEPT ![j] = stage],
           result' = [result EXCEPT ![j] = r] \/ UNCHANGED result,
           UNCHANGED <<defers, tmp, locked, states, timers, stopped>>,
           cwd' \in [Servers -> Jobs \cup {Start}], overlapped' \subseteq Jobs
    PROVE  IInv'
<1>1. Types'
  BY DEF IInv, Types
<1>2. PICK n \in 0..4 : Holds(pc[j], n) /\ Holding(j, n)
  BY DEF IInv, Balanced
<1>3. /\ pc'[j] = stage /\ \A k \in Jobs : k # j => pc'[k] = pc[k]
  BY DEF IInv, Types
<1>4. Holds(pc'[j], n) /\ Holding(j, n)'
  BY <1>2, <1>3 DEF Holding
<1>5. Balanced'
  BY <1>3, <1>4, OthersBalanced DEF IInv
<1>6. Exclusive'
  BY DEF IInv, Exclusive
<1> QED
  BY <1>1, <1>5, <1>6 DEF IInv

\* A step that acquires something and defers the call that gives it back.
LEMMA AcquireHolds ==
    ASSUME IInv, NEW j \in Jobs, NEW stage \in ToSet(Stages), NEW calls, NEW n \in 0..4,
           pc' = [pc EXCEPT ![j] = stage], UNCHANGED <<result, cwd, stopped, overlapped>>,
           Defer(j, calls), calls \o defers[j] = After(n), Holds(stage, n), 
           tmp' \subseteq tmp \cup {j}, tmp \ {j} \subseteq tmp', j \in tmp' <=> n >= 1,
           locked' \subseteq locked \cup {j}, locked \ {j} \subseteq locked', j \in locked' <=> n >= 2,
           timers' \subseteq timers \cup {j}, timers \ {j} \subseteq timers', j \in timers' <=> n >= 3,
           states' \subseteq states \cup {j}, states \ {j} \subseteq states', j \in states' <=> n >= 4,
           locked' = locked \/ Free(j)
    PROVE  IInv'
<1>1. Types'
  BY DEF IInv, Types, Defer
<1>2. /\ pc'[j] = stage /\ \A k \in Jobs : k # j => pc'[k] = pc[k]
      /\ defers'[j] = After(n) /\ \A k \in Jobs : k # j => defers'[k] = defers[k]
  BY DEF IInv, Types, Defer
<1>3. Holds(pc'[j], n) /\ Holding(j, n)'
  BY <1>2 DEF Holding
<1>4. Balanced'
  BY <1>2, <1>3, OthersBalanced DEF IInv
<1>5. Exclusive'
  BY DEF IInv, Exclusive, Free
<1> QED
  BY <1>1, <1>4, <1>5 DEF IInv

LEMMA NextHolds == IInv /\ [Next]_vars => IInv'
<1> SUFFICES ASSUME IInv, [Next]_vars PROVE IInv'
  OBVIOUS
<1> USE StageValues
<1>1. ASSUME NEW j \in Jobs, Begin(j) PROVE IInv'
  <2>1. /\ pc' = [pc EXCEPT ![j] = "tmp"] /\ pc[j] = "idle"
        /\ UNCHANGED <<defers, tmp, cwd, locked, states, timers, result, stopped>>
    BY <1>1 DEF Begin, Goto
  <2>2. overlapped' \subseteq Jobs
    BY <1>1 DEF Begin, IInv, Types
  <2>3. \A n \in 0..4 : Holds(pc[j], n) => Holds("tmp", n)
    BY <2>1 DEF Holds, Idle, Entered, Opened
  <2>4. cwd' \in [Servers -> Jobs \cup {Start}] /\ "none" \in Outcomes
    BY <2>1 DEF IInv, Types, Outcomes
  <2> QED
    BY <2>1, <2>2, <2>3, <2>4, MoveHolds
<1>2. ASSUME NEW j \in Jobs, NEW r \in Outcomes, Return(j, r),
             pc[j] # "return", pc[j] # "idle", pc[j] # "done",
             UNCHANGED <<defers, tmp, cwd, locked, states, timers, stopped, overlapped>>
      PROVE  IInv'
  <2>1. \A n \in 0..4 : Holds(pc[j], n) => Holds("return", n)
    BY DEF Holds, Idle, Entered, Opened
  <2>2. cwd' \in [Servers -> Jobs \cup {Start}] /\ overlapped' \subseteq Jobs
    BY <1>2 DEF IInv, Types
  <2> QED
    BY <1>2, <2>1, <2>2, MoveHolds DEF Return
<1>3. ASSUME NEW j \in Jobs, MkdirTemp(j) PROVE IInv'
  <2>1. CASE Return(j, "nil") /\ UNCHANGED <<tmp, defers>>
    BY <1>2, <1>3, <2>1 DEF MkdirTemp, Outcomes
  <2>2. CASE tmp' = tmp \cup {j} /\ Defer(j, <<"RemoveAll">>) /\ Goto(j, "chdir")
    <3>1. /\ pc[j] = "tmp" /\ pc' = [pc EXCEPT ![j] = "chdir"] /\ UNCHANGED result
          /\ UNCHANGED <<cwd, locked, states, timers, stopped, overlapped>>
      BY <1>3, <2>2 DEF MkdirTemp, Goto
    <3>2. Holding(j, 0)
      BY <3>1 DEF IInv, Balanced, Holds, Idle
    <3>3. /\ defers[j] = After(0) /\ j \notin locked /\ j \notin timers /\ j \notin states
      BY <3>2 DEF Holding
    <3>4. <<"RemoveAll">> \o defers[j] = After(1) /\ Holds("chdir", 1)
      BY <3>3, AfterConcat DEF Holds, Idle, Entered, Opened
    <3> DEFINE n == 1
    <3>5. /\ n \in 0..4 /\ "chdir" \in ToSet(Stages)
          /\ tmp' \subseteq tmp \cup {j} /\ tmp \ {j} \subseteq tmp' /\ (j \in tmp' <=> n >= 1)
          /\ locked' \subseteq locked \cup {j} /\ locked \ {j} \subseteq locked'
          /\ (j \in locked' <=> n >= 2) /\ (locked' = locked \/ Free(j))
          /\ timers' \subseteq timers \cup {j} /\ timers \ {j} \subseteq timers' /\ (j \in timers' <=> n >= 3)
          /\ states' \subseteq states \cup {j} /\ states \ {j} \subseteq states' /\ (j \in states' <=> n >= 4)
      BY <2>2, <3>1, <3>3
    <3>6. /\ UNCHANGED <<result, cwd, stopped, overlapped>>
          /\ <<"RemoveAll">> \o defers[j] = After(n) /\ Holds("chdir", n)
      BY <1>3, <3>1, <3>4 DEF MkdirTemp
    <3> HIDE DEF n
    <3> QED
      BY <2>2, <3>1, <3>5, <3>6, AcquireHolds
  <2> QED
    BY <1>3, <2>1, <2>2 DEF MkdirTemp
<1>4. ASSUME NEW j \in Jobs, Chdir(j) PROVE IInv'
  <2>1. CASE Return(j, "nil") /\ UNCHANGED cwd
    BY <1>2, <1>4, <2>1 DEF Chdir, Outcomes
  <2>2. CASE cwd' = [cwd EXCEPT ![Server[j]] = j] /\ Goto(j, "libs")
    <3>1. /\ pc[j] = "chdir" /\ pc' = [pc EXCEPT ![j] = "libs"] /\ UNCHANGED result
          /\ UNCHANGED <<defers, tmp, locked, states, timers, stopped, overlapped>>
      BY <1>4, <2>2 DEF Chdir, Goto
    <3>2. cwd' \in [Servers -> Jobs \cup {Start}] /\ overlapped' \subseteq Jobs
      BY <2>2, <3>1 DEF IInv, Types
    <3>3. \A n \in 0..4 : Holds(pc[j], n) => Holds("libs", n)
      BY <3>1 DEF Holds, Idle, Entered, Opened
    <3>4. "none" \in Outcomes
      BY DEF Outcomes
    <3> QED
      BY <3>1, <3>2, <3>3, <3>4, MoveHolds
  <2> QED
    BY <1>4, <2>1, <2>2 DEF Chdir
<1>5. ASSUME NEW j \in Jobs, NEW stage \in ToSet(Stages) \cup {"done"},
             pc' = [pc EXCEPT ![j] = stage], UNCHANGED result,
             \A n \in 0..4 : Holds(pc[j], n) => Holds(stage, n),
             UNCHANGED <<defers, tmp, cwd, locked, states, timers, stopped, overlapped>>
      PROVE  IInv'
  <2>1. cwd' \in [Servers -> Jobs \cup {Start}] /\ overlapped' \subseteq Jobs /\ "none" \in Outcomes
    BY <1>5 DEF IInv, Types, Outcomes
  <2> QED
    BY <1>5, <2>1, MoveHolds
<1>6. ASSUME NEW j \in Jobs, LoadLibrairies(j) PROVE IInv'
  <2>1. CASE Return(j, "error")
    BY <1>2, <1>6, <2>1 DEF LoadLibrairies, Outcomes
  <2>2. CASE Goto(j, "lock")
    <3>1. \A n \in 0..4 : Holds(pc[j], n) => Holds("lock", n)
      BY <1>6 DEF LoadLibrairies, Holds, Idle, Entered, Opened
    <3> QED
      BY <1>5, <1>6, <2>2, <3>1 DEF LoadLibrairies, Goto
  <2> QED
    BY <1>6, <2>1, <2>2 DEF LoadLibrairies
<1>7. ASSUME NEW j \in Jobs, TakeLock(j) PROVE IInv'
  <2>1. CASE Return(j, "error") /\ UNCHANGED <<locked, defers>>
    BY <1>2, <1>7, <2>1 DEF TakeLock, Outcomes
  <2>2. CASE Free(j) /\ locked' = locked \cup {j} /\ Defer(j, <<"ReleaseLock">>) /\ Goto(j, "state")
    <3>1. /\ pc[j] = "lock" /\ pc' = [pc EXCEPT ![j] = "state"] /\ UNCHANGED result
          /\ UNCHANGED <<tmp, cwd, states, timers, stopped, overlapped>>
      BY <1>7, <2>2 DEF TakeLock, Goto
    <3>2. Holding(j, 1)
      BY <3>1 DEF IInv, Balanced, Holds, Entered
    <3>3. defers[j] = After(1) /\ j \in tmp /\ j \notin timers /\ j \notin states
      BY <3>2 DEF Holding
    <3>4. <<"ReleaseLock">> \o defers[j] = After(2) /\ Holds("state", 2)
      BY <3>3, AfterConcat DEF Holds, Idle, Entered, Opened
    <3> DEFINE n == 2
    <3>5. /\ n \in 0..4 /\ "state" \in ToSet(Stages)
          /\ tmp' \subseteq tmp \cup {j} /\ tmp \ {j} \subseteq tmp' /\ (j \in tmp' <=> n >= 1)
          /\ locked' \subseteq locked \cup {j} /\ locked \ {j} \subseteq locked'
          /\ (j \in locked' <=> n >= 2) /\ (locked' = locked \/ Free(j))
          /\ timers' \subseteq timers \cup {j} /\ timers \ {j} \subseteq timers' /\ (j \in timers' <=> n >= 3)
          /\ states' \subseteq states \cup {j} /\ states \ {j} \subseteq states' /\ (j \in states' <=> n >= 4)
      BY <2>2, <3>1, <3>3
    <3>6. /\ UNCHANGED <<result, cwd, stopped, overlapped>>
          /\ <<"ReleaseLock">> \o defers[j] = After(n) /\ Holds("state", n)
      BY <1>7, <3>1, <3>4 DEF TakeLock
    <3> HIDE DEF n
    <3> QED
      BY <2>2, <3>1, <3>5, <3>6, AcquireHolds
  <2> QED
    BY <1>7, <2>1, <2>2 DEF TakeLock
<1>8. ASSUME NEW j \in Jobs, NewState(j) PROVE IInv'
  <2>1. /\ pc[j] = "state" /\ pc' = [pc EXCEPT ![j] = "plugins"] /\ UNCHANGED result
        /\ states' = states \cup {j} /\ timers' = timers \cup {j} /\ Defer(j, <<"Close", "cancel">>)
        /\ UNCHANGED <<tmp, cwd, locked, stopped, overlapped>>
    BY <1>8 DEF NewState, Goto
  <2>2. Holding(j, 2)
    BY <2>1 DEF IInv, Balanced, Holds
  <2>3. defers[j] = After(2) /\ j \in tmp /\ j \in locked
    BY <2>2 DEF Holding
  <2>4. <<"Close", "cancel">> \o defers[j] = After(4) /\ Holds("plugins", 4)
    BY <2>3, AfterConcat DEF Holds, Idle, Entered, Opened
  <2> DEFINE n == 4
  <2>5. /\ n \in 0..4 /\ "plugins" \in ToSet(Stages)
        /\ tmp' \subseteq tmp \cup {j} /\ tmp \ {j} \subseteq tmp' /\ (j \in tmp' <=> n >= 1)
        /\ locked' \subseteq locked \cup {j} /\ locked \ {j} \subseteq locked'
        /\ (j \in locked' <=> n >= 2) /\ (locked' = locked \/ Free(j))
        /\ timers' \subseteq timers \cup {j} /\ timers \ {j} \subseteq timers' /\ (j \in timers' <=> n >= 3)
        /\ states' \subseteq states \cup {j} /\ states \ {j} \subseteq states' /\ (j \in states' <=> n >= 4)
    BY <2>1, <2>3
  <2>6. /\ UNCHANGED <<result, cwd, stopped, overlapped>>
        /\ <<"Close", "cancel">> \o defers[j] = After(n) /\ Holds("plugins", n)
    BY <1>8, <2>1, <2>4 DEF NewState
  <2> HIDE DEF n
  <2> QED
    BY <2>1, <2>5, <2>6, AcquireHolds
<1>9. ASSUME NEW j \in Jobs, LoadPlugins(j) PROVE IInv'
  <2>1. CASE Return(j, "error")
    BY <1>2, <1>9, <2>1 DEF LoadPlugins, Outcomes
  <2>2. CASE Goto(j, "body")
    <3>1. \A n \in 0..4 : Holds(pc[j], n) => Holds("body", n)
      BY <1>9 DEF LoadPlugins, Holds, Idle, Entered, Opened
    <3> QED
      BY <1>5, <1>9, <2>2, <3>1 DEF LoadPlugins, Goto
  <2> QED
    BY <1>9, <2>1, <2>2 DEF LoadPlugins
<1>10. ASSUME NEW j \in Jobs, DoString(j) PROVE IInv'
  <2>1. CASE Return(j, "nil")
    BY <1>2, <1>10, <2>1 DEF DoString, Outcomes
  <2>2. CASE Goto(j, "call")
    <3>1. \A n \in 0..4 : Holds(pc[j], n) => Holds("call", n)
      BY <1>10 DEF DoString, Holds, Idle, Entered, Opened
    <3> QED
      BY <1>5, <1>10, <2>2, <3>1 DEF DoString, Goto
  <2> QED
    BY <1>10, <2>1, <2>2 DEF DoString
<1>11. ASSUME NEW j \in Jobs, Call(j) PROVE IInv'
  BY <1>2, <1>11 DEF Call, Outcomes
<1>12. ASSUME NEW j \in Jobs, Unwind(j) PROVE IInv'
  <2>1. PICK n \in 0..4 : Holds(pc[j], n) /\ Holding(j, n)
    BY DEF IInv, Balanced
  <2>2. n # 0 /\ pc[j] = "return" /\ defers[j] = After(n)
    BY <1>12, <2>1, AfterValues DEF Unwind, Holding
  <2>3. /\ UNCHANGED <<pc, cwd, result, stopped, overlapped>>
        /\ defers' = [defers EXCEPT ![j] = Tail(After(n))]
    BY <1>12, <2>2 DEF Unwind
  <2>4. /\ tmp' = IF Head(After(n)) = "RemoveAll" THEN tmp \ {j} ELSE tmp
        /\ locked' = IF Head(After(n)) = "ReleaseLock" THEN locked \ {j} ELSE locked
        /\ timers' = IF Head(After(n)) = "cancel" THEN timers \ {j} ELSE timers
        /\ states' = IF Head(After(n)) = "Close" THEN states \ {j} ELSE states
    BY <1>12, <2>2 DEF Unwind
  <2>5. Types'
    BY <2>3, <2>4 DEF IInv, Types
  <2>6. n - 1 \in 0..4 /\ Tail(After(n)) = After(n - 1)
    <3>1. n = 1 \/ n = 2 \/ n = 3 \/ n = 4
      BY <2>2
    <3> QED
      BY <3>1, AfterHead
  <2>7. Holding(j, n - 1)'
    <3>1. defers'[j] = After(n - 1)
      BY <2>3, <2>6 DEF IInv, Types
    <3>2. CASE n = 1
      BY <2>1, <2>4, <3>1, <3>2, AfterHead DEF Holding
    <3>3. CASE n = 2
      BY <2>1, <2>4, <3>1, <3>3, AfterHead DEF Holding
    <3>4. CASE n = 3
      BY <2>1, <2>4, <3>1, <3>4, AfterHead DEF Holding
    <3>5. CASE n = 4
      BY <2>1, <2>4, <3>1, <3>5, AfterHead DEF Holding
    <3> QED
      BY <2>2, <3>2, <3>3, <3>4, <3>5
  <2>8. Holds(pc'[j], n - 1)
    BY <2>2, <2>3, <2>6 DEF Holds, Idle, Entered, Opened
  <2>9. \A k \in Jobs : k # j =>
              /\ pc'[k] = pc[k] /\ defers'[k] = defers[k]
              /\ k \in tmp' <=> k \in tmp
              /\ k \in locked' <=> k \in locked
              /\ k \in timers' <=> k \in timers
              /\ k \in states' <=> k \in states
    BY <2>3, <2>4 DEF IInv, Types
  <2>10. Balanced'
    BY <2>6, <2>7, <2>8, <2>9, OthersBalanced DEF IInv
  <2>11. Exclusive'
    BY <2>4 DEF IInv, Exclusive
  <2> QED
    BY <2>5, <2>10, <2>11 DEF IInv
<1>13. ASSUME NEW j \in Jobs, Returned(j) PROVE IInv'
  <2>1. pc[j] = "return" /\ defers[j] = <<>>
    BY <1>13 DEF Returned
  <2>2. PICK n \in 0..4 : Holds(pc[j], n) /\ Holding(j, n)
    BY DEF IInv, Balanced
  <2>3. n = 0
    <3>1. Len(defers[j]) = 0 /\ defers[j] = After(n)
      BY <2>1, <2>2 DEF Holding
    <3>2. n = 0 \/ n = 1 \/ n = 2 \/ n = 3 \/ n = 4
      OBVIOUS
    <3> QED
      BY <3>1, <3>2, AfterLength
  <2>4. Holds("done", n)
    BY <2>3 DEF Holds, Idle, Entered, Opened
  <2>5. /\ pc' = [pc EXCEPT ![j] = "done"]
        /\ UNCHANGED <<defers, tmp, cwd, locked, states, timers, result, stopped, overlapped>>
    BY <1>13 DEF Returned, Goto
  <2>6. pc'[j] = "done" /\ \A k \in Jobs : k # j => pc'[k] = pc[k]
    BY <2>5 DEF IInv, Types
  <2>7. Balanced'
    BY <2>2, <2>4, <2>5, <2>6, OthersBalanced DEF IInv, Holding
  <2> QED
    BY <2>5, <2>7 DEF IInv, Types, Exclusive
<1>14. ASSUME NEW s \in Servers, Stop(s) PROVE IInv'
  BY <1>14 DEF Stop, IInv, Types, Balanced, Holding, Exclusive
<1>15. CASE UNCHANGED vars
  BY <1>15 DEF vars, IInv, Types, Balanced, Holding, Exclusive
<1> QED
  BY <1>1, <1>3, <1>4, <1>6, <1>7, <1>8, <1>9, <1>10, <1>11, <1>12, <1>13, <1>14, <1>15
  DEF Next, HandleMessage

\* On every path of every job the stages, the deferred calls and what is acquired agree.
THEOREM BalanceHolds == Spec => []IInv
  BY InitHolds, NextHolds, PTL DEF Spec

\* For any servers and jobs, the deferred calls of a job are always a suffix of the
\* list HandleMessage defers in.
THEOREM LuaTypeCorrect == Spec => []TypeOK
<1>1. ASSUME IInv PROVE TypeOK
  <2>1. \A j \in Jobs : defers[j] \in Suffixes(Deferred)
    BY <1>1, AfterSuffix DEF IInv, Balanced, Holding
  <2> QED
    BY <1>1, <2>1 DEF IInv, Types, TypeOK
<1> QED
  BY <1>1, BalanceHolds, PTL

\* For any servers and jobs, Lua code runs inside its lock and its directory.
THEOREM RunsInsideHolds == Spec => []RunsInside
<1>1. ASSUME IInv PROVE RunsInside
  <2>1. ASSUME NEW j \in Jobs
        PROVE  /\ j \in states => j \in locked
               /\ j \in locked => j \in tmp
               /\ pc[j] \in {"body", "call"} => j \in states
    BY <1>1 DEF IInv, Balanced, Holding, Holds, Opened
  <2> QED
    BY <1>1, <2>1 DEF IInv, Types, RunsInside
<1> QED
  BY <1>1, BalanceHolds, PTL

\* However many servers and jobs there are, no two have Lua states of one name at once.
THEOREM OneStatePerNameHolds == Spec => []OneStatePerName
<1>1. ASSUME IInv PROVE OneStatePerName
  <2>1. \A j \in Jobs : j \in states => j \in locked
    BY <1>1 DEF IInv, Balanced, Holding
  <2> QED
    BY <1>1, <2>1 DEF IInv, Types, Exclusive, OneStatePerName
<1> QED
  BY <1>1, BalanceHolds, PTL

\* Whatever fails, a job that has returned holds nothing.
THEOREM CleanReturnHolds == Spec => []CleanReturn
<1>1. ASSUME IInv PROVE CleanReturn
  BY <1>1 DEF IInv, Balanced, Holding, Holds, Idle, CleanReturn
<1> QED
  BY <1>1, BalanceHolds, PTL
-----------------------------------------------------------------------------
\* A job whose execution has met no other of its server is alone there, and once it has
\* changed directory the server is in its directory.
Alone ==
    \A j \in Jobs : pc[j] \notin {"idle", "done"} /\ j \notin overlapped =>
        /\ \A k \in Jobs : k # j /\ Server[k] = Server[j] => pc[k] \in {"idle", "done"}
        /\ pc[j] \in {"libs", "lock", "state", "plugins", "body", "call"} => cwd[Server[j]] = j

LEMMA InitAlone == Init => Alone
  BY DEF Init, Alone

\* A job that moves on without meeting another one, or returns.
LEMMA MoveAlone ==
    ASSUME IInv, Alone, NEW j \in Jobs, NEW stage,
           pc' = [pc EXCEPT ![j] = stage], pc[j] \notin {"idle", "done"}, UNCHANGED overlapped,
           \/ /\ UNCHANGED cwd
              /\ stage \in {"lock", "state", "plugins", "body", "call"} =>
                    pc[j] \in {"libs", "lock", "state", "plugins", "body", "call"}
              /\ stage # "libs"
           \/ cwd' = [cwd EXCEPT ![Server[j]] = j]
    PROVE  Alone'
<1> SUFFICES ASSUME NEW i \in Jobs, pc'[i] \notin {"idle", "done"}, i \notin overlapped'
             PROVE  /\ \A k \in Jobs : k # i /\ Server[k] = Server[i] => pc'[k] \in {"idle", "done"}
                    /\ pc'[i] \in {"libs", "lock", "state", "plugins", "body", "call"}
                         => cwd'[Server[i]] = i
  BY DEF Alone
<1>1. /\ pc'[j] = stage /\ \A k \in Jobs : k # j => pc'[k] = pc[k]
      /\ Server[i] \in Servers /\ Server[j] \in Servers
  BY JobAssumption DEF IInv, Types
<1>2. /\ \A k \in Jobs : k # i /\ Server[k] = Server[i] => pc[k] \in {"idle", "done"}
      /\ pc[i] \in {"libs", "lock", "state", "plugins", "body", "call"} => cwd[Server[i]] = i
  BY <1>1 DEF Alone
<1>3. i # j => Server[j] # Server[i]
  BY <1>2
<1>4. \A k \in Jobs : k # i /\ Server[k] = Server[i] => pc'[k] \in {"idle", "done"}
  BY <1>1, <1>2, <1>3
<1>5. CASE i = j
  BY <1>1, <1>2, <1>4, <1>5 DEF IInv, Types
<1>6. CASE i # j
  BY <1>1, <1>2, <1>3, <1>4, <1>6 DEF IInv, Types
<1> QED
  BY <1>5, <1>6

LEMMA NextAlone == IInv /\ Alone /\ [Next]_vars => Alone'
<1> SUFFICES ASSUME IInv, Alone, [Next]_vars PROVE Alone'
  OBVIOUS
<1>1. ASSUME NEW j \in Jobs, Begin(j) PROVE Alone'
  <2> DEFINE others == {k \in Jobs : Server[k] = Server[j] /\ pc[k] \notin {"idle", "done"}}
  <2>1. /\ pc[j] = "idle" /\ pc' = [pc EXCEPT ![j] = "tmp"] /\ UNCHANGED cwd
        /\ overlapped' = IF others = {} THEN overlapped ELSE overlapped \cup others \cup {j}
    BY <1>1 DEF Begin, Goto
  <2>2. /\ pc'[j] = "tmp" /\ \A k \in Jobs : k # j => pc'[k] = pc[k]
    BY <2>1 DEF IInv, Types
  <2>3. overlapped \subseteq overlapped'
    BY <2>1
  <2>4. ASSUME NEW i \in Jobs, pc'[i] \notin {"idle", "done"}, i \notin overlapped'
        PROVE  /\ \A k \in Jobs : k # i /\ Server[k] = Server[i] => pc'[k] \in {"idle", "done"}
               /\ pc'[i] \in {"libs", "lock", "state", "plugins", "body", "call"}
                    => cwd'[Server[i]] = i
    <3>1. CASE i = j
      <4>1. others = {}
        BY <2>1, <2>4, <3>1
      <4>2. \A k \in Jobs : Server[k] = Server[j] => pc[k] \in {"idle", "done"}
        BY <4>1
      <4> QED
        BY <2>2, <3>1, <4>2
    <3>2. CASE i # j
      <4>1. i \notin others
        BY <2>1, <2>4
      <4>2. Server[i] # Server[j]
        BY <2>2, <2>4, <3>2, <4>1
      <4>3. i \notin overlapped /\ pc[i] \notin {"idle", "done"}
        BY <2>2, <2>3, <2>4, <3>2
      <4> QED
        BY <2>1, <2>2, <3>2, <4>2, <4>3 DEF Alone
    <3> QED
      BY <3>1, <3>2
  <2> QED
    BY <2>4 DEF Alone
<1>2. ASSUME NEW j \in Jobs, MkdirTemp(j) PROVE Alone'
  BY <1>2, MoveAlone DEF MkdirTemp, Goto, Return
<1>3. ASSUME NEW j \in Jobs, Chdir(j) PROVE Alone'
  BY <1>3, MoveAlone DEF Chdir, Goto, Return
<1>4. ASSUME NEW j \in Jobs, LoadLibrairies(j) PROVE Alone'
  BY <1>4, MoveAlone DEF LoadLibrairies, Goto, Return
<1>5. ASSUME NEW j \in Jobs, TakeLock(j) PROVE Alone'
  BY <1>5, MoveAlone DEF TakeLock, Goto, Return
<1>6. ASSUME NEW j \in Jobs, NewState(j) PROVE Alone'
  BY <1>6, MoveAlone DEF NewState, Goto
<1>7. ASSUME NEW j \in Jobs, LoadPlugins(j) PROVE Alone'
  BY <1>7, MoveAlone DEF LoadPlugins, Goto, Return
<1>8. ASSUME NEW j \in Jobs, DoString(j) PROVE Alone'
  BY <1>8, MoveAlone DEF DoString, Goto, Return
<1>9. ASSUME NEW j \in Jobs, Call(j) PROVE Alone'
  BY <1>9, MoveAlone DEF Call, Return
<1>10. ASSUME NEW j \in Jobs, Unwind(j) PROVE Alone'
  BY <1>10 DEF Unwind, Alone
<1>11. ASSUME NEW j \in Jobs, Returned(j) PROVE Alone'
  BY <1>11, MoveAlone DEF Returned, Goto
<1>12. ASSUME NEW s \in Servers, Stop(s) PROVE Alone'
  BY <1>12 DEF Stop, Alone
<1>13. CASE UNCHANGED vars
  BY <1>13 DEF vars, Alone
<1> QED
  BY <1>1, <1>2, <1>3, <1>4, <1>5, <1>6, <1>7, <1>8, <1>9, <1>10, <1>11, <1>12, <1>13
  DEF Next, HandleMessage

\* Whatever the executions before it left, an execution that meets no other of its server
\* works in its own directory.
THEOREM RunsInOwnDirectoryHolds == Spec => []RunsInOwnDirectory
<1>1. Alone => RunsInOwnDirectory
  BY DEF Alone, RunsInOwnDirectory
<1> QED
  BY <1>1, InitAlone, NextAlone, BalanceHolds, PTL DEF Spec
=============================================================================
