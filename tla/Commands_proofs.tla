---------------------------- MODULE Commands_proofs ----------------------------
(***************************************************************************)
(* Proofs about the etcd store and the commands of the cli: what           *)
(* LoadLibrairies returns, and that the keys and ranges of etcd are the    *)
(* map of ScriptStore where no subject begins with another; the table of   *)
(* `list' against a store that others write to, what `lib add' leaves in   *)
(* the store, the libraries `devhttp' runs with, and that all of them use  *)
(* the store only by its calls.                                            *)
(***************************************************************************)
EXTENDS Commands, SequenceTheorems, FiniteSetTheorems, TLAPS

D == INSTANCE DevHttp_proofs WITH Names <- Paths, libraries <- libraries_, stage <- stage_, todo <- todo_

-----------------------------------------------------------------------------
(* The etcd store.                                                           *)

\* No subject begins with another.
PrefixFree == Begins = {<<s, s>> : s \in Subjects}

\* What has been read is what was stored at some moment since the call began, for the
\* first of the required paths; what a library is now is one of the things it was.
Reading ==
    /\ Len(libraries) <= Len(loading)
    /\ \A i \in 1..Len(libraries) : libraries[i] \in seen[loading[i]]
    /\ loading # <<>> => \A p \in Paths : libkv[p] \in seen[p]

IInv == TypeOK /\ Reading /\ LoadsRequired

LEMMA InitHolds == Init => IInv
<1> SUFFICES ASSUME Init PROVE IInv
  OBVIOUS
<1>1. answer.op # "load"
  BY DEF Init, Ok
<1> QED
  BY <1>1 DEF Init, IInv, TypeOK, Reading, LoadsRequired

\* A write of a script leaves the libraries alone.
LEMMA WriteHolds ==
    ASSUME IInv, NEW s \in Subjects, NEW n \in Names, NEW b \in Bodies \cup {None}, Write(s, n, b)
    PROVE  IInv'
<1>1. UNCHANGED <<libkv, loading, libraries, seen>> /\ answer' \in {Ok, Error}
  BY DEF Write, loadVars
<1>2. answer'.op # "load"
  BY <1>1 DEF Ok, Error
<1>3. TypeOK'
  BY <1>1 DEF Write, IInv, TypeOK, Keys
<1> QED
  BY <1>1, <1>2, <1>3 DEF IInv, Reading, LoadsRequired

\* A write of a library is something the library was since the call began.
LEMMA WriteLibHolds ==
    ASSUME IInv, NEW p \in Paths, NEW b \in Texts \cup {None}, WriteLib(p, b)
    PROVE  IInv'
<1>1. /\ UNCHANGED <<kv, loading, libraries>> /\ answer' \in {Ok, Error}
      /\ libkv' \in {libkv, [libkv EXCEPT ![p] = b]}
      /\ seen' = [seen EXCEPT ![p] = @ \cup {libkv'[p]}]
  BY DEF WriteLib, loadVars
<1>2. answer'.op # "load"
  BY <1>1 DEF Ok, Error
<1>3. /\ libkv' \in [Paths -> Texts \cup {None}] /\ seen' \in [Paths -> SUBSET (Texts \cup {None})]
      /\ \A q \in Paths : seen[q] \subseteq seen'[q] /\ (libkv'[q] = libkv[q] \/ libkv'[q] \in seen'[q])
  BY <1>1 DEF IInv, TypeOK
<1>4. TypeOK'
  BY <1>1, <1>3 DEF IInv, TypeOK
<1>5. \A i \in 1..Len(libraries) : loading[i] \in Paths
  BY RequiresAssumption DEF IInv, TypeOK, Reading
<1> QED
  BY <1>1, <1>2, <1>3, <1>4, <1>5 DEF IInv, Reading, LoadsRequired

LEMMA LoadNextHolds == ASSUME IInv, LoadNext PROVE IInv'
<1> DEFINE p == loading[Len(libraries) + 1]
<1>1. /\ loading # <<>> /\ Len(libraries) < Len(loading) /\ UNCHANGED <<kv, libkv, seen>>
      /\ libraries \in Seq(Texts) /\ loading \in Seq(Paths)
  BY RequiresAssumption DEF LoadNext, IInv, TypeOK
<1>2. CASE answer' = Error /\ loading' = <<>> /\ libraries' = <<>>
  <2>1. answer'.op # "load"
    BY <1>2 DEF Error
  <2> QED
    BY <1>1, <1>2, <2>1 DEF IInv, TypeOK, Reading, LoadsRequired
<1>3. CASE libkv[p] # None /\ libraries' = Append(libraries, libkv[p]) /\ UNCHANGED <<loading, answer>>
  <2>1. p \in Paths /\ libkv[p] \in Texts /\ libkv[p] \in seen[p]
    BY <1>1, <1>3 DEF IInv, TypeOK, Reading
  <2> DEFINE t == libkv[p]
  <2> HIDE DEF t
  <2>2. /\ libraries' \in Seq(Texts) /\ Len(libraries') = Len(libraries) + 1
        /\ libraries'[Len(libraries) + 1] = libkv[p] /\ Len(libraries) \in Nat
        /\ \A i \in 1..Len(libraries) : libraries'[i] = libraries[i]
    BY <1>1, <1>3, <2>1, AppendProperties
  <2>3. \A i \in 1..Len(libraries') : libraries'[i] \in seen'[loading'[i]]
    <3>1. \A i \in 1..Len(libraries) + 1 : i \in 1..Len(libraries) \/ i = Len(libraries) + 1
      BY <2>2
    <3> QED
      BY <1>1, <1>3, <2>1, <2>2, <3>1 DEF IInv, Reading
  <2>4. TypeOK'
    BY <1>1, <1>3, <2>2 DEF IInv, TypeOK
  <2>5. Len(libraries') <= Len(loading')
    BY <1>1, <1>3, <2>2
  <2> QED
    BY <1>1, <1>3, <2>3, <2>4, <2>5 DEF IInv, Reading, LoadsRequired
<1> QED
  BY <1>2, <1>3 DEF LoadNext

LEMMA NextHolds == IInv /\ [Next]_vars => IInv'
<1> SUFFICES ASSUME IInv, [Next]_vars PROVE IInv'
  OBVIOUS
<1> USE DEF loadVars
<1>1. ASSUME NEW s \in Subjects, NEW n \in Names, NEW b \in Bodies, AddScript(s, n, b) PROVE IInv'
  BY <1>1, WriteHolds DEF AddScript
<1>2. ASSUME NEW s \in Subjects, NEW n \in Names, DeleteScript(s, n) PROVE IInv'
  BY <1>2, WriteHolds DEF DeleteScript
<1>3. ASSUME NEW p \in Paths, NEW b \in Texts, AddLibrary(p, b) PROVE IInv'
  BY <1>3, WriteLibHolds DEF AddLibrary
<1>4. ASSUME NEW p \in Paths, RemoveLibrary(p) PROVE IInv'
  BY <1>4, WriteLibHolds DEF RemoveLibrary
<1>5. ASSUME NEW s \in Subjects, GetScripts(s) PROVE IInv'
  <2>1. answer'.op # "load" /\ UNCHANGED <<kv, libkv, loading, libraries, seen>>
    BY <1>5 DEF GetScripts, Error
  <2> QED
    BY <2>1 DEF IInv, TypeOK, Reading, LoadsRequired
<1>6. CASE ListSubjects
  <2>1. answer'.op # "load" /\ UNCHANGED <<kv, libkv, loading, libraries, seen>>
    BY <1>6 DEF ListSubjects, Error
  <2> QED
    BY <2>1 DEF IInv, TypeOK, Reading, LoadsRequired
<1>7. ASSUME NEW ps \in Requires, LoadLibrairies(ps) PROVE IInv'
  <2>1. /\ loading' = ps /\ libraries' = <<>> /\ seen' = [p \in Paths |-> {libkv[p]}]
        /\ UNCHANGED <<kv, libkv, answer>> /\ ps \in Seq(Paths)
    BY <1>7, RequiresAssumption DEF LoadLibrairies
  <2>2. TypeOK'
    BY <2>1 DEF IInv, TypeOK
  <2> QED
    BY <2>1, <2>2 DEF IInv, Reading, LoadsRequired
<1>8. CASE LoadNext
  BY <1>8, LoadNextHolds
<1>9. CASE LoadReturns
  <2>1. /\ Len(libraries) = Len(loading) /\ loading' = <<>> /\ libraries' = <<>>
        /\ answer' = [op |-> "load", paths |-> loading, found |-> libraries, were |-> seen]
        /\ UNCHANGED <<kv, libkv, seen>>
    BY <1>9 DEF LoadReturns
  <2>2. LoadsRequired'
    BY <2>1 DEF IInv, TypeOK, Reading, LoadsRequired
  <2> QED
    BY <2>1, <2>2 DEF IInv, TypeOK, Reading
<1>10. CASE UNCHANGED vars
  BY <1>10 DEF vars, IInv, TypeOK, Reading, LoadsRequired
<1> QED
  BY <1>1, <1>2, <1>3, <1>4, <1>5, <1>6, <1>7, <1>8, <1>9, <1>10 DEF Next

\* The store's keys, its libraries and a call under way are well typed.
THEOREM EtcdTypeCorrect == Spec => []TypeOK
<1>1. IInv => TypeOK
  BY DEF IInv
<1> QED
  BY <1>1, InitHolds, NextHolds, PTL DEF Spec

\* Whoever writes libraries meanwhile, LoadLibrairies returns what is required.
THEOREM LoadsRequiredHolds == Spec => []LoadsRequired
<1>1. IInv => LoadsRequired
  BY DEF IInv
<1> QED
  BY <1>1, InitHolds, NextHolds, PTL DEF Spec

\* Without overlapping subjects a reader gets the scripts of its own subject only.
THEOREM GetsOwnScriptsHolds == PrefixFree => (Spec => []GetsOwnScripts)
<1> SUFFICES ASSUME PrefixFree PROVE Spec => []GetsOwnScripts
  OBVIOUS
<1>1. Init => GetsOwnScripts
  BY DEF Init, Ok, GetsOwnScripts
<1>2. GetsOwnScripts /\ [Next]_vars => GetsOwnScripts'
  <2> SUFFICES ASSUME GetsOwnScripts, [Next]_vars PROVE GetsOwnScripts'
    OBVIOUS
  <2>1. CASE UNCHANGED answer
    BY <2>1 DEF GetsOwnScripts
  <2>2. CASE answer'.op # "get"
    BY <2>2 DEF GetsOwnScripts
  <2>3. ASSUME NEW s \in Subjects, GetScripts(s) PROVE GetsOwnScripts'
    <3>1. \A k \in InRange(s) : k[1] = s
      BY DEF InRange, PrefixFree
    <3>2. CASE answer' = Error
      BY <2>2, <3>2 DEF Error
    <3>3. CASE answer' = [op |-> "get", subject |-> s, found |-> {<<k, kv[k]>> : k \in InRange(s)}]
      BY <3>1, <3>3 DEF GetsOwnScripts
    <3> QED
      BY <2>3, <3>2, <3>3 DEF GetScripts
  <2>4. CASE ListSubjects
    BY <2>2, <2>4 DEF ListSubjects, Error
  <2>5. ASSUME NEW s \in Subjects, NEW n \in Names, NEW b, Write(s, n, b) PROVE GetsOwnScripts'
    BY <2>2, <2>5 DEF Write, Ok, Error
  <2>6. ASSUME NEW p \in Paths, NEW b, WriteLib(p, b) PROVE GetsOwnScripts'
    BY <2>2, <2>6 DEF WriteLib, Ok, Error
  <2>7. CASE LoadNext
    BY <2>1, <2>2, <2>7 DEF LoadNext, Error
  <2>8. CASE LoadReturns
    BY <2>2, <2>8 DEF LoadReturns
  <2>9. ASSUME NEW ps \in Requires, LoadLibrairies(ps) PROVE GetsOwnScripts'
    BY <2>1, <2>9 DEF LoadLibrairies
  <2>10. CASE UNCHANGED vars
    BY <2>1, <2>10 DEF vars
  <2> QED
    BY <2>3, <2>4, <2>5, <2>6, <2>7, <2>8, <2>9, <2>10
    DEF Next, AddScript, DeleteScript, AddLibrary, RemoveLibrary
<1> QED
  BY <1>1, <1>2, PTL DEF Spec
-----------------------------------------------------------------------------
\* SetToSeq lists the elements of a finite set.
LEMMA SetToSeqElements ==
    ASSUME NEW S, IsFiniteSet(S)
    PROVE  SetToSeq(S) \in Seq(S) /\ ToSet(SetToSeq(S)) = S
<1> DEFINE n == Cardinality(S)
           ks == SetToSeq(S)
<1>1. n \in Nat /\ IsFiniteSet(1..n) /\ Cardinality(1..n) = n
  BY FS_CardinalityType, FS_Interval
<1>2. ExistsBijection(1..n, S)
  BY <1>1, FS_SameCardinalityBij
<1>3. \E f \in [1..n -> S] : IsInjective(f)
  BY <1>2 DEF ExistsBijection, Bijection, Injection, IsInjective
<1>4. ks \in [1..n -> S] /\ IsInjective(ks)
  BY <1>3 DEF SetToSeq
<1>5. ks \in Injection(1..n, S)
  BY <1>4 DEF Injection, IsInjective
<1>6. ks \in Surjection(1..n, S)
  BY <1>1, <1>5, FS_Injection
<1>7. \A k \in S : \E i \in 1..n : ks[i] = k
  BY <1>6 DEF Surjection
<1> HIDE DEF n, ks
<1>8. ks \in Seq(S)
  BY <1>1, <1>4
<1>9. ToSet(ks) = S
  BY <1>4, <1>7 DEF ToSet
<1> QED
  BY <1>8, <1>9 DEF ks

LEMMA KeysFinite == IsFiniteSet(Keys) /\ IsFiniteSet(Present)
<1>1. IsFiniteSet(Keys)
  BY KeysAssumption, FS_Product DEF Keys
<1> QED
  BY <1>1, FS_Subset DEF Present

\* A listing has the subject of every key, and only those.
LEMMA ListingSubjects ==
    /\ Listing \in Seq(Subjects)
    /\ ToSet(Listing) \subseteq Subjects
    /\ \A k \in Present : k[1] \in ToSet(Listing)
<1> DEFINE ks == SetToSeq(Present)
<1>1. ks \in Seq(Present) /\ ToSet(ks) = Present
  BY KeysFinite, SetToSeqElements
<1>2. Listing = [i \in DOMAIN ks |-> ks[i][1]]
  BY DEF Listing
<1>3. \A k \in Present : k[1] \in Subjects
  BY DEF Present, Keys
<1> HIDE DEF ks
<1>4. /\ Len(ks) \in Nat /\ DOMAIN ks = 1..Len(ks)
      /\ \A i \in 1..Len(ks) : ks[i] \in Present
  BY <1>1
<1>5. /\ Listing = [i \in 1..Len(ks) |-> ks[i][1]]
      /\ \A i \in 1..Len(ks) : ks[i][1] \in Subjects
  BY <1>2, <1>3, <1>4
<1>6. Listing \in Seq(Subjects)
  BY <1>4, <1>5
<1>7. /\ ToSet(Listing) \subseteq Subjects
      /\ \A k \in Present : k[1] \in ToSet(Listing)
  BY <1>1, <1>4, <1>5 DEF ToSet
<1> QED
  BY <1>6, <1>7

MappedAnswer ==
    CASE answer.op = "list" -> [op |-> "list", subjects |-> ToSet(answer.listed)]
      [] answer.op = "load" -> [op |-> "load"]
      [] OTHER -> answer

\* Every step of the store is one of what backends promise, or none.
LEMMA StepPromised ==
    ASSUME PrefixFree, IInv, [Next]_vars
    PROVE  [Promise!Next]_(Promise!vars)
<1> USE DEF loadVars
<1>1. CASE UNCHANGED <<kv, libkv, answer>>
  BY <1>1 DEF Promise!vars
<1>2. Ok.op = "ok" /\ Error.op = "error" /\ Promise!Ok = Ok /\ Promise!Error = Error
  BY DEF Ok, Error, Promise!Ok, Promise!Error
<1>3. answer' \in {Ok, Error} => MappedAnswer' = answer'
  BY <1>2 DEF MappedAnswer
<1>4. ASSUME NEW s \in Subjects, NEW n \in Names, NEW b \in Bodies \cup {None}, Write(s, n, b)
      PROVE  Promise!SetScript(s, n, b)
  BY <1>2, <1>3, <1>4 DEF Write, Promise!SetScript, MappedAnswer
<1>5. ASSUME NEW p \in Paths, NEW b \in Texts \cup {None}, WriteLib(p, b)
      PROVE  Promise!SetLibrary(p, b)
  BY <1>2, <1>3, <1>5 DEF WriteLib, Promise!SetLibrary, MappedAnswer
<1>6. ASSUME NEW s \in Subjects, GetScripts(s) PROVE Promise!GetScripts(s)
  <2>1. InRange(s) = Promise!Under(s)
    BY DEF InRange, Present, Keys, PrefixFree, Promise!Under
  <2>2. MappedAnswer' = answer'
    BY <1>6 DEF GetScripts, MappedAnswer, Error
  <2> QED
    BY <1>2, <1>6, <2>1, <2>2 DEF GetScripts, Promise!GetScripts, MappedAnswer
<1>7. ASSUME ListSubjects PROVE Promise!ListSubjects
  <2>1. CASE answer' = Error /\ UNCHANGED <<kv, libkv>>
    BY <1>2, <1>3, <2>1 DEF Promise!ListSubjects, MappedAnswer
  <2>2. CASE answer' = [op |-> "list", listed |-> Listing] /\ UNCHANGED <<kv, libkv>>
    <3>1. MappedAnswer' = [op |-> "list", subjects |-> ToSet(Listing)]
      BY <2>2 DEF MappedAnswer
    <3>2. \A s \in Subjects : Promise!Under(s) # {} => s \in ToSet(Listing)
      BY ListingSubjects DEF Promise!Under, Present, Keys
    <3> QED
      BY <2>2, <3>1, <3>2, ListingSubjects DEF Promise!ListSubjects, MappedAnswer
  <2> QED
    BY <1>7, <2>1, <2>2 DEF ListSubjects
<1>8. ASSUME LoadNext PROVE Promise!LoadLibrairies \/ UNCHANGED <<kv, libkv, answer>>
  <2>1. CASE answer' = Error /\ UNCHANGED <<kv, libkv>>
    BY <1>2, <1>3, <2>1 DEF Promise!LoadLibrairies, MappedAnswer
  <2>2. CASE UNCHANGED <<kv, libkv, answer>>
    BY <2>2
  <2> QED
    BY <1>8, <2>1, <2>2 DEF LoadNext
<1>9. ASSUME LoadReturns PROVE Promise!LoadLibrairies
  <2>1. MappedAnswer' = [op |-> "load"] /\ UNCHANGED <<kv, libkv>>
    BY <1>9 DEF LoadReturns, MappedAnswer
  <2> QED
    BY <2>1 DEF Promise!LoadLibrairies, MappedAnswer
<1>10. ASSUME NEW ps \in Requires, LoadLibrairies(ps) PROVE UNCHANGED <<kv, libkv, answer>>
  BY <1>10 DEF LoadLibrairies
<1> QED
  BY <1>1, <1>4, <1>5, <1>6, <1>7, <1>8, <1>9, <1>10
  DEF Next, vars, AddScript, DeleteScript, AddLibrary, RemoveLibrary, Promise!Next

\* Where no subject begins with another, every behaviour of the etcd store is one of
\* the map of scripts and libraries that backends promise.
THEOREM StoreRefinement == PrefixFree => (Spec => ImplementsStore)
<1> SUFFICES ASSUME PrefixFree PROVE Spec => ImplementsStore
  OBVIOUS
<1>1. Init => Promise!Init
  BY DEF Init, Keys, Ok, Promise!Init, Promise!Ok
<1>2. IInv /\ [Next]_vars => [Promise!Next]_(Promise!vars)
  BY StepPromised
<1> QED
  BY <1>1, <1>2, InitHolds, NextHolds, PTL DEF Spec, ImplementsStore, Promise!Spec

-----------------------------------------------------------------------------
(* The command `list'.                                                       *)

\* The keys are those of subjects and names; the command still has a subject to ask for.
ListTypes ==
    /\ kv \in [Keys -> Bodies \cup {None}]
    /\ stage \in {"start", "subjects", "done", "failed"}
    /\ todo \in Seq(Subjects)
    /\ rows \in Seq(Keys)

\* Once the command has begun, what stands is there; a key that stands is in the table
\* or its subject is still to be asked for; what is in the table was there.
ListInv ==
    /\ ListTypes
    /\ stage = "start" => rows = <<>>
    /\ stage # "start" => standing \subseteq Present /\ Present \subseteq been
    /\ stage \in {"subjects", "done"} =>
          \A k \in standing : k[1] \in ToSet(todo) \/ k \in ToSet(rows)
    /\ ToSet(rows) \subseteq been
    /\ stage = "done" => todo = <<>>

LEMMA EmptySet == ToSet(<<>>) = {}
  BY DEF ToSet

LEMMA ConcatElements ==
    ASSUME NEW S, NEW s \in Seq(S), NEW t \in Seq(S)
    PROVE  s \o t \in Seq(S) /\ ToSet(s \o t) = ToSet(s) \cup ToSet(t)
<1> DEFINE u == s \o t
<1>1. /\ u \in Seq(S) /\ Len(u) = Len(s) + Len(t)
      /\ \A i \in 1..Len(s) + Len(t) : u[i] = IF i <= Len(s) THEN s[i] ELSE t[i - Len(s)]
  BY ConcatProperties
<1>2. Len(s) \in Nat /\ Len(t) \in Nat /\ DOMAIN s = 1..Len(s) /\ DOMAIN t = 1..Len(t)
      /\ DOMAIN u = 1..Len(s) + Len(t)
  BY <1>1
<1> HIDE DEF u
<1>3. ToSet(u) \subseteq ToSet(s) \cup ToSet(t)
  <2>1. \A i \in 1..Len(s) + Len(t) : i \in 1..Len(s) \/ i - Len(s) \in 1..Len(t)
    BY <1>2
  <2>2. ASSUME NEW i \in 1..Len(s) + Len(t) PROVE u[i] \in ToSet(s) \cup ToSet(t)
    <3>1. CASE i \in 1..Len(s)
      BY <1>1, <1>2, <3>1 DEF ToSet
    <3>2. CASE i \notin 1..Len(s)
      <4>1. i - Len(s) \in 1..Len(t) /\ u[i] = t[i - Len(s)]
        BY <1>1, <1>2, <2>1, <3>2
      <4> QED
        BY <1>2, <4>1 DEF ToSet
    <3> QED
      BY <3>1, <3>2
  <2> QED
    BY <1>2, <2>2 DEF ToSet
<1>4. ToSet(s) \subseteq ToSet(u)
  <2>1. \A i \in 1..Len(s) : i \in 1..Len(s) + Len(t) /\ u[i] = s[i]
    BY <1>1, <1>2
  <2> QED
    BY <1>2, <2>1 DEF ToSet
<1>5. ToSet(t) \subseteq ToSet(u)
  <2>1. \A i \in 1..Len(t) : /\ Len(s) + i \in 1..Len(s) + Len(t) /\ ~(Len(s) + i <= Len(s))
                             /\ (Len(s) + i) - Len(s) = i
    BY <1>2
  <2>2. \A i \in 1..Len(t) : Len(s) + i \in 1..Len(s) + Len(t) /\ u[Len(s) + i] = t[i]
    BY <1>1, <2>1
  <2> QED
    BY <1>2, <2>2 DEF ToSet
<1> QED
  BY <1>1, <1>3, <1>4, <1>5 DEF u

LEMMA TailElements ==
    ASSUME NEW S, NEW s \in Seq(S), s # <<>>
    PROVE  /\ Head(s) \in S /\ Tail(s) \in Seq(S)
           /\ ToSet(s) = {Head(s)} \cup ToSet(Tail(s))
<1>1. /\ Head(s) \in S /\ Tail(s) \in Seq(S) /\ Len(Tail(s)) = Len(s) - 1
      /\ \A i \in 1..Len(Tail(s)) : Tail(s)[i] = s[i + 1]
      /\ Head(s) = s[1] /\ Len(s) \in Nat /\ Len(s) # 0
      /\ DOMAIN s = 1..Len(s) /\ DOMAIN Tail(s) = 1..Len(s) - 1
  BY HeadTailProperties, EmptySeq
<1>2. ToSet(Tail(s)) \subseteq ToSet(s)
  <2>1. \A i \in 1..Len(s) - 1 : i + 1 \in 1..Len(s)
    BY <1>1
  <2> QED
    BY <1>1, <2>1 DEF ToSet
<1>3. Head(s) \in ToSet(s)
  BY <1>1 DEF ToSet
<1>4. ToSet(s) \subseteq {Head(s)} \cup ToSet(Tail(s))
  <2>1. \A i \in 1..Len(s) : i = 1 \/ (i - 1 \in 1..Len(s) - 1 /\ (i - 1) + 1 = i)
    BY <1>1
  <2>2. \A i \in 1..Len(s) : i # 1 => i - 1 \in 1..Len(s) - 1 /\ s[i] = Tail(s)[i - 1]
    BY <1>1, <2>1
  <2>3. \A i \in 1..Len(s) : s[i] \in {Head(s)} \cup ToSet(Tail(s))
    BY <1>1, <2>2 DEF ToSet
  <2> QED
    BY <1>1, <2>3 DEF ToSet
<1> QED
  BY <1>1, <1>2, <1>3, <1>4

LEMMA ListInitHolds == ListInit => ListInv
  BY EmptySet DEF ListInit, Init, ListInv, ListTypes

\* Others write: a key that stood and is gone stands no more, one that comes has been.
LEMMA OthersHold == ASSUME ListInv, Others PROVE ListInv'
<1>1. /\ UNCHANGED <<stage, todo, rows>>
      /\ standing' = standing \cap Present' /\ been' = been \cup Present'
  BY DEF Others, listVars
<1>2. kv' \in [Keys -> Bodies \cup {None}]
  BY DEF Others, AddScript, DeleteScript, Write, ListInv, ListTypes, Keys
<1> QED
  BY <1>1, <1>2 DEF ListInv, ListTypes

LEMMA BeginHolds == ASSUME ListInv, Begin PROVE ListInv'
<1>1. /\ stage = "start" /\ UNCHANGED <<kv, rows>> /\ standing' = Present /\ been' = Present
      /\ Present' = Present
  BY DEF Begin, ListSubjects, Present
<1>2. rows' = <<>> /\ ToSet(rows') = {}
  BY <1>1, EmptySet DEF ListInv
<1>3. CASE answer'.op = "error"
  <2>1. stage' = "failed" /\ UNCHANGED todo
    BY <1>3 DEF Begin
  <2> QED
    BY <1>1, <1>2, <2>1 DEF ListInv, ListTypes
<1>4. CASE answer'.op # "error"
  <2>1. stage' = "subjects" /\ todo' = answer'.listed
    BY <1>4 DEF Begin
  <2>2. answer' = [op |-> "list", listed |-> Listing]
    BY <1>4 DEF Begin, ListSubjects, Error
  <2>3. todo' = Listing
    BY <2>1, <2>2
  <2> QED
    BY <1>1, <1>2, <2>1, <2>3, ListingSubjects DEF ListInv, ListTypes
<1> QED
  BY <1>3, <1>4

LEMMA AskHolds == ASSUME PrefixFree, ListInv, Ask PROVE ListInv'
<1> DEFINE s == Head(todo)
<1>1. /\ stage = "subjects" /\ todo # <<>> /\ todo \in Seq(Subjects)
      /\ UNCHANGED <<kv, standing, been>> /\ Present' = Present
  BY DEF Ask, GetScripts, pastVars, Present, ListInv, ListTypes
<1>2. s \in Subjects /\ Tail(todo) \in Seq(Subjects) /\ ToSet(todo) = {s} \cup ToSet(Tail(todo))
  BY <1>1, TailElements
<1>3. CASE answer'.op = "error"
  <2>1. stage' = "failed" /\ UNCHANGED <<todo, rows>>
    BY <1>3 DEF Ask
  <2> QED
    BY <1>1, <2>1 DEF ListInv, ListTypes
<1>4. CASE answer'.op # "error"
  <2> DEFINE R == {<<s, f[1][2]>> : f \in answer'.found}
  <2>1. UNCHANGED stage /\ todo' = Tail(todo) /\ rows' = rows \o SetToSeq(R)
    BY <1>4 DEF Ask
  <2>2. answer'.found = {<<k, kv[k]>> : k \in InRange(s)}
    BY <1>4 DEF Ask, GetScripts, Error
  <2>3. \A k \in InRange(s) : k \in Present /\ k = <<s, k[2]>>
    BY DEF InRange, PrefixFree, Present, Keys
  <2>4. R = InRange(s)
    <3>1. \A f \in answer'.found : \E k \in InRange(s) : f[1] = k
      BY <2>2
    <3>2. \A k \in InRange(s) : <<k, kv[k]>> \in answer'.found /\ <<k, kv[k]>>[1] = k
      BY <2>2
    <3>3. R \subseteq InRange(s)
      BY <2>3, <3>1
    <3>4. InRange(s) \subseteq R
      BY <2>3, <3>2
    <3> QED
      BY <3>3, <3>4
  <2> HIDE DEF R
  <2>5. R \subseteq Present /\ R \subseteq Keys /\ IsFiniteSet(R)
    BY <2>3, <2>4, KeysFinite, FS_Subset DEF Present
  <2>6. SetToSeq(R) \in Seq(R) /\ ToSet(SetToSeq(R)) = R
    BY <2>5, SetToSeqElements
  <2>7. SetToSeq(R) \in Seq(Keys)
    BY <2>5, <2>6, SeqMonotonic
  <2>8. rows' \in Seq(Keys) /\ ToSet(rows') = ToSet(rows) \cup R
    BY <2>1, <2>6, <2>7, ConcatElements DEF ListInv, ListTypes
  <2>9. \A k \in standing : k[1] = s => k \in R
    <3>1. \A k \in standing : k \in Present
      BY <1>1 DEF ListInv
    <3>2. <<s, s>> \in Begins
      BY <1>2 DEF PrefixFree
    <3> QED
      BY <2>4, <3>1, <3>2 DEF InRange
  <2> QED
    BY <1>1, <1>2, <2>1, <2>5, <2>8, <2>9 DEF ListInv, ListTypes
<1> QED
  BY <1>3, <1>4

LEMMA ListNextHolds == PrefixFree /\ ListInv /\ [ListNext]_allVars => ListInv'
<1> SUFFICES ASSUME PrefixFree, ListInv, [ListNext]_allVars PROVE ListInv'
  OBVIOUS
<1>1. CASE Render
  <2>1. UNCHANGED <<kv, todo, rows, standing, been>> /\ stage = "subjects" /\ stage' = "done" /\ todo = <<>>
    BY <1>1 DEF Render, vars, pastVars
  <2>2. Present' = Present
    BY <2>1 DEF Present
  <2> QED
    BY <2>1, <2>2 DEF ListInv, ListTypes
<1>2. CASE UNCHANGED allVars
  <2>1. UNCHANGED <<kv, stage, todo, rows, standing, been>> /\ Present' = Present
    BY <1>2 DEF allVars, vars, listVars, pastVars, Present
  <2> QED
    BY <2>1 DEF ListInv, ListTypes
<1> QED
  BY <1>1, <1>2, OthersHold, BeginHolds, AskHolds DEF ListNext

\* Only `list' asks for scripts; until it does the table is empty.
TableInv ==
    /\ command \in {"calls", "list", "lib add", "devhttp"}
    /\ command = "list" => ListInv
    /\ command # "list" => stage = "start"

\* Whoever writes scripts meanwhile, where no subject begins with another: the table of
\* `cli list' has every script that was there all along and none that never was.
THEOREM ListsTheStoreHolds == PrefixFree => (CommandsSpec => []ListsTheStore)
<1> SUFFICES ASSUME PrefixFree PROVE CommandsSpec => []ListsTheStore
  OBVIOUS
<1>1. CommandsInit => TableInv
  BY ListInitHolds DEF CommandsInit, ListInit, TableInv
<1>2. TableInv => ListsTheStore
  BY EmptySet DEF TableInv, ListInv, ListsTheStore
<1>3. TableInv /\ [CommandsNext]_commandVars => TableInv'
  <2> SUFFICES ASSUME TableInv, [CommandsNext]_commandVars PROVE TableInv'
    OBVIOUS
  <2>1. UNCHANGED command
    BY DEF CommandsNext, commandVars
  <2>2. CASE command = "list"
    <3>1. [ListNext]_allVars
      BY <2>2 DEF CommandsNext, commandVars
    <3>2. ListInv'
      BY <2>2, <3>1, ListNextHolds DEF TableInv
    <3> QED
      BY <2>1, <2>2, <3>2 DEF TableInv
  <2>3. CASE command # "list"
    <3>1. UNCHANGED stage
      BY <2>3 DEF CommandsNext, commandVars, allVars, listVars
    <3> QED
      BY <2>1, <2>3, <3>1 DEF TableInv
  <2> QED
    BY <2>2, <2>3
<1> QED
  BY <1>1, <1>2, <1>3, PTL DEF CommandsSpec

-----------------------------------------------------------------------------
(* The command `lib add'.                                                    *)

\* The largest of the numbers up to the next one, where the next is among them.
LEMMA NextIsMax ==
    ASSUME NEW n \in Nat, NEW S, S \subseteq 1..n + 1, n + 1 \in S
    PROVE  Max(S) = n + 1
<1>1. \A x \in S : n + 1 >= x /\ (x >= n + 1 => x = n + 1)
  OBVIOUS
<1> QED
  BY <1>1 DEF Max

\* The libraries after n additions and one more.
LEMMA OneMore ==
    ASSUME NEW n \in Nat, libkv = After(n)
    PROVE  After(n + 1) = [libkv EXCEPT ![parsed[n + 1].name] = parsed[n + 1].text]
<1> DEFINE l == parsed[n + 1]
           at(p, k) == {i \in 1..k : parsed[i].name = p}
<1>1. ASSUME NEW p \in Paths, p = l.name PROVE After(n + 1)[p] = l.text
  <2>1. n + 1 \in at(p, n + 1) /\ at(p, n + 1) \subseteq 1..n + 1
    BY <1>1
  <2>2. Max(at(p, n + 1)) = n + 1
    BY <2>1, NextIsMax
  <2> HIDE DEF l
  <2>3. After(n + 1)[p] = parsed[n + 1].text
    BY <2>1, <2>2 DEF After
  <2> QED
    BY <2>3 DEF l
<1>2. ASSUME NEW p \in Paths, p # l.name PROVE After(n + 1)[p] = libkv[p]
  <2>1. at(p, n + 1) = at(p, n)
    <3>1. \A i \in 1..n + 1 : i \in 1..n \/ i = n + 1
      OBVIOUS
    <3>2. 1..n \subseteq 1..n + 1
      OBVIOUS
    <3> QED
      BY <1>2, <3>1, <3>2
  <2> HIDE DEF l
  <2> QED
    BY <2>1 DEF After
<1>3. After(n + 1) = [p \in Paths |-> After(n + 1)[p]] /\ libkv = [p \in Paths |-> libkv[p]]
  BY DEF After
<1> HIDE DEF l
<1>4. After(n + 1) = [libkv EXCEPT ![l.name] = l.text]
  BY <1>1, <1>2, <1>3
<1> QED
  BY <1>4 DEF l

LibAdding == command = "lib add"

\* Only `lib add' adds; while it does, the store has the libraries it has counted.
AddInv ==
    /\ ~LibAdding => adding = "start"
    /\ stored \in Nat
    /\ adding = "parsing" => stored = 0 /\ before = libkv
    /\ adding = "adding" => libkv = After(stored)
    /\ LibAdding => libkv = [p \in Paths |-> libkv[p]]
    /\ AddsInOrder

LEMMA AddInit == CommandsInit => AddInv
<1> SUFFICES ASSUME CommandsInit PROVE AddInv
  OBVIOUS
<1>1. adding = "start" /\ stored = 0 /\ libkv = [p \in Paths |-> None]
  BY DEF CommandsInit, ListInit, LibAddInit, Init
<1>2. libkv = [p \in Paths |-> libkv[p]]
  BY <1>1
<1>3. AddsInOrder
  BY <1>1 DEF AddsInOrder
<1> QED
  BY <1>1, <1>2, <1>3 DEF AddInv

\* Nothing the invariant speaks of changes.
LEMMA AddStays ==
    ASSUME AddInv, UNCHANGED <<LibAdding, adding, parsed, stored, before, libkv>>
    PROVE  AddInv'
<1>1. After(stored)' = After(stored) /\ After(stored + 1)' = After(stored + 1)
  BY DEF After
<1> QED
  BY <1>1 DEF AddInv, AddsInOrder

\* A command that has added nothing leaves the store as it was.
LEMMA NoneAddedThen ==
    ASSUME before' = [p \in Paths |-> before'[p]]
    PROVE  After(0)' = before'
<1>1. \A p \in Paths : {i \in 1..0 : parsed'[i].name = p} = {}
  <2>1. 1..0 = {}
    OBVIOUS
  <2> QED
    BY <2>1
<1>2. After(0)' = [p \in Paths |-> before'[p]]
  BY <1>1 DEF After
<1> QED
  BY <1>2

\* While the arguments are read nothing has been added.
LEMMA ParseHolds ==
    ASSUME AddInv, LibAdding, LibAdding',
           (\E args \in Arguments : Parse(args)) \/ ParseNext \/ Parsed
    PROVE  AddInv'
<1>1. CASE \E args \in Arguments : Parse(args)
  <2>1. before' = libkv /\ libkv' = libkv /\ stored' = 0 /\ adding' = "parsing"
    BY <1>1 DEF Parse, vars
  <2>2. libkv = [p \in Paths |-> libkv[p]]
    BY DEF AddInv
  <2> QED
    BY <2>1, <2>2, NoneAddedThen DEF AddInv, AddsInOrder
<1>2. CASE ParseNext \/ Parsed
  <2>1. /\ adding = "parsing" /\ UNCHANGED <<libkv, before, stored>>
        /\ adding' \in {"parsing", "failed", "adding"}
    BY <1>2 DEF ParseNext, Parsed, vars
  <2>2. stored = 0 /\ before = libkv /\ libkv = [p \in Paths |-> libkv[p]]
    BY <2>1 DEF AddInv
  <2> QED
    BY <2>1, <2>2, NoneAddedThen DEF AddInv, AddsInOrder
<1> QED
  BY <1>1, <1>2

LEMMA AddNextHolds == ASSUME AddInv, LibAdding, LibAdding', AddNext PROVE AddInv'
<1> DEFINE l == parsed[stored + 1]
           added == [libkv EXCEPT ![l.name] = l.text]
<1>1. /\ adding = "adding" /\ stored < Len(parsed) /\ UNCHANGED <<parsed, before>>
      /\ \/ libkv' = added /\ answer' \in {Ok, Error}
         \/ libkv' = libkv /\ answer' = Error
      /\ \/ answer' = Error /\ adding' = "failed" /\ UNCHANGED stored
         \/ answer' # Error /\ stored' = stored + 1 /\ UNCHANGED adding
  BY DEF AddNext, AddLibrary, WriteLib
<1>2. libkv = After(stored) /\ stored \in Nat
  BY <1>1 DEF AddInv
<1>3. After(stored + 1) = added
  BY <1>2, OneMore
<1>4. \A n : After(n)' = After(n)
  BY <1>1 DEF After
<1> HIDE DEF l
<1>5. libkv' = [p \in Paths |-> libkv'[p]]
  BY <1>1 DEF AddInv
<1> HIDE DEF added
<1>6. CASE answer' = Error
  <2>1. adding' = "failed" /\ stored' = stored /\ stored' < Len(parsed)'
    BY <1>1, <1>6
  <2>2. After(stored)' = After(stored) /\ After(stored + 1)' = After(stored + 1)
    BY <2>1, <1>1 DEF After
  <2>3. libkv' = After(stored)' \/ libkv' = After(stored + 1)'
    BY <1>1, <1>2, <1>3, <2>2
  <2> QED
    BY <1>2, <1>5, <2>1, <2>3 DEF AddInv, AddsInOrder
<1>7. CASE answer' # Error
  <2>1. adding' = "adding" /\ stored' = stored + 1 /\ stored' \in Nat /\ libkv' = added
    <3>1. libkv' = added
      BY <1>1, <1>7
    <3>2. adding' = "adding" /\ stored' = stored + 1
      BY <1>1, <1>7
    <3> QED
      BY <1>2, <3>1, <3>2
  <2>2. After(stored)' = After(stored + 1)
    BY <1>1, <2>1 DEF After
  <2> QED
    BY <1>3, <1>5, <2>1, <2>2 DEF AddInv, AddsInOrder
<1> QED
  BY <1>6, <1>7

\* Whatever fails, `cli lib add' leaves the first of the libraries it read, in order.
THEOREM AddsInOrderHolds == CommandsSpec => []AddsInOrder
<1>1. AddInv => AddsInOrder
  BY DEF AddInv
<1>2. AddInv /\ [CommandsNext]_commandVars => AddInv'
  <2> SUFFICES ASSUME AddInv, [CommandsNext]_commandVars PROVE AddInv'
    OBVIOUS
  <2>1. UNCHANGED LibAdding
    BY DEF CommandsNext, commandVars, LibAdding
  <2>2. CASE ~LibAdding
    <3>1. UNCHANGED addVars /\ adding = "start"
      BY <2>2 DEF CommandsNext, commandVars, AddInv, LibAdding
    <3> QED
      BY <2>1, <2>2, <3>1 DEF AddInv, AddsInOrder, addVars
  <2>3. CASE LibAdding
    <3>1. LibAddNext \/ (UNCHANGED addVars /\ libkv' = libkv)
      BY <2>3 DEF CommandsNext, commandVars, allVars, vars, LibAdding
    <3>2. CASE (\E args \in Arguments : Parse(args)) \/ ParseNext \/ Parsed
      BY <2>1, <2>3, <3>2, ParseHolds
    <3>3. CASE AddNext
      BY <2>1, <2>3, <3>3, AddNextHolds
    <3>4. CASE Report
      <4>1. /\ adding = "adding" /\ stored = Len(parsed) /\ adding' = "added"
            /\ UNCHANGED <<parsed, stored, before, libkv>>
        BY <3>4 DEF Report, vars
      <4>2. After(stored)' = After(stored) /\ libkv = After(stored)
        BY <4>1 DEF After, AddInv
      <4> QED
        BY <2>1, <4>1, <4>2 DEF AddInv, AddsInOrder
    <3>5. CASE UNCHANGED addVars /\ libkv' = libkv
      BY <2>1, <3>5, AddStays DEF addVars
    <3>6. CASE (\E ps \in Requires : LoadLibrairies(ps)) \/ LoadNext \/ LoadReturns
      <4>1. libkv' = libkv
        BY <3>6 DEF LoadLibrairies, LoadNext, LoadReturns
      <4> QED
        BY <2>3, <3>1, <3>2, <3>3, <3>4, <3>5, <4>1 DEF LibAddNext
    <3> QED
      BY <3>1, <3>2, <3>3, <3>4, <3>5, <3>6 DEF LibAddNext
  <2> QED
    BY <2>2, <2>3
<1> QED
  BY <1>1, <1>2, AddInit, PTL DEF CommandsSpec

-----------------------------------------------------------------------------
(* The commands and the store.                                               *)

\* Every library that is read has a path and a text.
LibraryRecords == [name : Paths, text : Texts]

ParsedInv ==
    /\ parsed \in Seq(LibraryRecords) /\ stored \in Nat
    /\ given \in Seq(UNION {ToSet(args) : args \in Arguments})
AskedInv == todo \in Seq(Subjects)

\* A set of naturals that is not empty has a least member.
LEMMA LeastNumber ==
    ASSUME NEW T, T \subseteq Nat, T # {}
    PROVE  \E n \in T : \A m \in 0..n - 1 : m \notin T
<1> DEFINE B == {0..n : n \in T}
<1>1. IsWellFoundedOn(StrictSubsetOrdering(Nat), FiniteSubsetsOf(Nat))
  BY FS_StrictSubsetOrderingWellFounded
<1>2. B \subseteq FiniteSubsetsOf(Nat) /\ B # {}
  <2>1. ASSUME NEW n \in T PROVE 0..n \in FiniteSubsetsOf(Nat)
    <3>1. n \in Nat /\ 0 \in Int /\ n \in Int /\ 0..n \in SUBSET Nat
      OBVIOUS
    <3>2. IsFiniteSet(0..n)
      BY <3>1, FS_Interval, Zenon
    <3> QED
      BY <3>1, <3>2, Zenon DEF FiniteSubsetsOf
  <2> QED
    BY <2>1
<1>3. PICK x \in B : \A y \in B : ~ (<<y, x>> \in StrictSubsetOrdering(Nat))
  <2> HIDE DEF B
  <2> QED
    BY <1>1, <1>2, WFMin, Zenon
<1>4. PICK n \in T : x = 0..n
  OBVIOUS
<1>5. ASSUME NEW m \in 0..n - 1, m \in T PROVE FALSE
  <2>1. 0..m \in B /\ 0..m \subseteq Nat /\ x \subseteq Nat
    BY <1>4, <1>5
  <2>2. 0..m \subseteq x
    BY <1>4
  <2>3. n \in x /\ n \notin 0..m
    BY <1>4, <1>5
  <2> QED
    BY <1>3, <2>1, <2>2, <2>3 DEF StrictSubsetOrdering
<1> QED
  BY <1>5

\* What is read from an argument, up to a file that cannot be read, are libraries.
LEMMA ReadLibrary ==
    ASSUME NEW args \in Arguments, NEW arg \in ToSet(args)
    PROVE  Read(arg) \in Seq(LibraryRecords)
<1> DEFINE fs == arg.files
<1>1. /\ arg.kind \in {"file", "tree", "dir", "missing"}
      /\ Len(fs) \in Nat /\ DOMAIN fs = 1..Len(fs)
      /\ \A i \in 1..Len(fs) : fs[i] \in ToSet(fs)
  <2>1. fs \in Seq(ToSet(fs)) /\ arg.kind \in {"file", "tree", "dir", "missing"}
    BY LibAddAssumption
  <2> QED
    BY <2>1 DEF ToSet
<1>2. \A i \in 1..Len(fs) : Library(fs[i]) \in LibraryRecords
  BY <1>1, LibAddAssumption DEF Library, LibraryRecords
<1>3. [name |-> Nameless, text |-> Blank] \in LibraryRecords
  BY LibAddAssumption DEF LibraryRecords
<1> HIDE DEF fs
<1>4. BeforeUnreadable(fs) \in Seq(LibraryRecords)
  <2> DEFINE bad == {i \in DOMAIN fs : ~fs[i].ok}
             end == IF bad = {} THEN Len(fs) ELSE Min(bad) - 1
  <2>1. bad \subseteq 1..Len(fs)
    BY <1>1
  <2> HIDE DEF bad
  <2>2. end \in 0..Len(fs)
    <3>1. CASE bad # {}
      <4> bad \subseteq Nat
        BY <1>1, <2>1
      <4>1. PICK n \in bad : \A m \in 0..n - 1 : m \notin bad
        BY <3>1, LeastNumber
      <4>2. \A m \in bad : n <= m
        BY <1>1, <2>1, <4>1
      <4>3. Min(bad) \in bad
        BY <4>1, <4>2 DEF Min
      <4>4. Min(bad) \in 1..Len(fs) /\ end = Min(bad) - 1
        BY <2>1, <3>1, <4>3
      <4> HIDE DEF end
      <4> QED
        BY <1>1, <4>4
    <3> QED
      BY <1>1, <3>1
  <2>3. BeforeUnreadable(fs) = [i \in 1..end |-> Library(fs[i])]
    BY DEF BeforeUnreadable, bad
  <2> HIDE DEF end
  <2>4. \A i \in 1..end : Library(fs[i]) \in LibraryRecords
    BY <1>1, <1>2, <2>2
  <2> QED
    BY <2>2, <2>3, <2>4, IsASeq
<1>5. [i \in DOMAIN fs |-> [name |-> Nameless, text |-> Blank]] \in Seq(LibraryRecords)
  BY <1>1, <1>3, IsASeq
<1>6. [i \in DOMAIN fs |-> Library(fs[i])] \in Seq(LibraryRecords)
  BY <1>1, <1>2, IsASeq
<1> QED
  BY <1>4, <1>5, <1>6 DEF Read, fs

\* The command reads its arguments, then makes one call of the store for each library.
LEMMA LibAddCalls ==
    ASSUME ParsedInv, LibAddNext
    PROVE  ParsedInv' /\ [Next]_vars
<1> DEFINE A == UNION {ToSet(args) : args \in Arguments}
           R == LibraryRecords
<1>1. CASE (\E args \in Arguments : Parse(args)) \/ ParseNext \/ Parsed
  <2>1. ASSUME NEW args \in Arguments, Parse(args) PROVE ParsedInv' /\ UNCHANGED vars
    <3>1. given' = args /\ parsed' = <<>> /\ stored' = 0 /\ UNCHANGED vars
      BY <2>1 DEF Parse
    <3>2. args \in Seq(ToSet(args)) /\ ToSet(args) \subseteq A
      BY LibAddAssumption
    <3>3. args \in Seq(A)
      BY <3>2, SeqMonotonic
    <3> QED
      BY <3>1, <3>3 DEF ParsedInv
  <2>2. CASE ParseNext
    <3>1. /\ given # <<>> /\ UNCHANGED <<vars, stored>>
          /\ \/ given' = <<>> /\ parsed' = <<>>
             \/ given' = Tail(given) /\ parsed' = parsed \o Read(Head(given))
      BY <2>2 DEF ParseNext
    <3>2. Head(given) \in A /\ Tail(given) \in Seq(A)
      BY <3>1 DEF ParsedInv
    <3>3. Read(Head(given)) \in Seq(R)
      BY <3>2, ReadLibrary
    <3>4. parsed \o Read(Head(given)) \in Seq(R) /\ <<>> \in Seq(R) /\ <<>> \in Seq(A)
      BY <3>3, ConcatProperties DEF ParsedInv
    <3> QED
      BY <3>1, <3>2, <3>4 DEF ParsedInv
  <2>3. CASE Parsed
    BY <2>3 DEF Parsed, ParsedInv
  <2> QED
    BY <1>1, <2>1, <2>2, <2>3
<1>2. CASE AddNext
  <2> DEFINE l == parsed[stored + 1]
  <2>1. /\ stored < Len(parsed) /\ AddLibrary(l.name, l.text) /\ UNCHANGED <<given, parsed>>
        /\ stored' = stored \/ stored' = stored + 1
    BY <1>2 DEF AddNext
  <2>2. stored + 1 \in 1..Len(parsed)
    BY <2>1 DEF ParsedInv
  <2>3. l \in LibraryRecords
    BY <2>2, ElementOfSeq DEF ParsedInv
  <2>4. l.name \in Paths /\ l.text \in Texts
    BY <2>3 DEF LibraryRecords
  <2>5. stored' \in Nat
    BY <2>1 DEF ParsedInv
  <2> HIDE DEF l
  <2>6. Next
    BY <2>1, <2>4 DEF Next
  <2> QED
    BY <2>1, <2>5, <2>6 DEF ParsedInv
<1>3. CASE Report
  BY <1>3 DEF Report, ParsedInv
<1>4. ASSUME (\E ps \in Requires : LoadLibrairies(ps)) \/ LoadNext \/ LoadReturns, UNCHANGED addVars
      PROVE  ParsedInv' /\ [Next]_vars
  <2>1. Next
    BY <1>4 DEF Next
  <2> QED
    BY <1>4, <2>1 DEF ParsedInv, addVars
<1> QED
  BY <1>1, <1>2, <1>3, <1>4 DEF LibAddNext

LEMMA ListCalls ==
    ASSUME AskedInv, ListNext
    PROVE  AskedInv' /\ [Next]_vars
<1>1. CASE Others
  <2>1. Next /\ UNCHANGED todo
    BY <1>1 DEF Others, Next, listVars
  <2> QED
    BY <2>1 DEF AskedInv
<1>2. CASE Begin
  <2>1. ListSubjects /\ (UNCHANGED todo \/ (answer'.op # "error" /\ todo' = answer'.listed))
    BY <1>2 DEF Begin
  <2>2. answer'.op # "error" => answer' = [op |-> "list", listed |-> Listing]
    BY <2>1 DEF ListSubjects, Error
  <2>3. UNCHANGED todo \/ todo' = Listing
    BY <2>1, <2>2
  <2>4. AskedInv'
    BY <2>3, ListingSubjects DEF AskedInv
  <2> QED
    BY <2>1, <2>4 DEF Next
<1>3. CASE Ask
  <2>1. todo # <<>> /\ GetScripts(Head(todo)) /\ todo' \in {todo, Tail(todo)}
    BY <1>3 DEF Ask
  <2>2. Head(todo) \in Subjects /\ Tail(todo) \in Seq(Subjects)
    BY <2>1 DEF AskedInv
  <2>3. AskedInv'
    BY <2>1, <2>2 DEF AskedInv
  <2> QED
    BY <2>1, <2>2, <2>3 DEF Next
<1>4. CASE Render
  BY <1>4 DEF Render, AskedInv
<1> QED
  BY <1>1, <1>2, <1>3, <1>4 DEF ListNext

\* Whatever command is at work, the store sees nothing but its calls.
THEOREM CommandsAreCalls == CommandsSpec => Spec
<1> DEFINE Inv == ParsedInv /\ AskedInv
<1>1. CommandsInit => Init /\ Inv
  <2>1. ASSUME CommandsInit PROVE Init /\ given = <<>> /\ parsed = <<>> /\ stored = 0 /\ todo = <<>>
    BY <2>1 DEF CommandsInit, ListInit, LibAddInit
  <2>2. (\A S : <<>> \in Seq(S)) /\ 0 \in Nat
    OBVIOUS
  <2> QED
    BY <2>1, <2>2 DEF ParsedInv, AskedInv
<1>2. Inv /\ [CommandsNext]_commandVars => Inv' /\ [Next]_vars
  <2> SUFFICES ASSUME ParsedInv, AskedInv, [CommandsNext]_commandVars
               PROVE  Inv' /\ [Next]_vars
    OBVIOUS
  <2>1. \/ LibAddNext /\ UNCHANGED listVars
        \/ ListNext /\ UNCHANGED addVars
        \/ UNCHANGED <<addVars, listVars>> /\ (Next \/ UNCHANGED vars)
    BY DEF CommandsNext, commandVars, allVars
  <2>2. UNCHANGED addVars => ParsedInv'
    BY DEF ParsedInv, addVars
  <2>3. UNCHANGED listVars => AskedInv'
    BY DEF AskedInv, listVars
  <2>4. LibAddNext => ParsedInv' /\ [Next]_vars
    BY LibAddCalls
  <2>5. ListNext => AskedInv' /\ [Next]_vars
    BY ListCalls
  <2> QED
    BY <2>1, <2>2, <2>3, <2>4, <2>5
<1> QED
  BY <1>1, <1>2, PTL DEF CommandsSpec, Spec

\* The store under the commands keeps its promise, where no subject begins with another.
THEOREM CommandsImplementStore == PrefixFree => (CommandsSpec => ImplementsStore)
  BY StoreRefinement, CommandsAreCalls

-----------------------------------------------------------------------------
(* The command `devhttp'.                                                    *)

LEMMA SameFiles ==
    /\ \A s : Dev!ToSet(s) = D!ToSet(s)
    /\ Dev!Files = D!Files /\ Dev!Library = D!Library
  BY DEF Dev!ToSet, D!ToSet, Dev!Files, D!Files, Dev!Library, D!Library

LEMMA DevConstants == D!DevAssumption
<1>1. Walk \in Seq(Paths) /\ DOMAIN Walk = 1..Len(Walk) /\ Len(Walk) \in Nat
  BY WalkAssumption
<1>2. \A i \in 1..Len(Walk) : Walk[i] \in D!Files
  BY <1>1 DEF D!Files, D!ToSet
<1>3. Walk \in Seq(D!Files)
  <2>1. Walk = [i \in 1..Len(Walk) |-> Walk[i]]
    BY <1>1
  <2> QED
    BY <1>1, <1>2, <2>1, IsASeq
<1>4. D!Files \subseteq Paths
  BY <1>1 DEF D!Files, D!ToSet
<1>5. \A p \in D!Files : Contents[p] \subseteq D!Library \cup {None}
  BY WalkAssumption, SameFiles
<1> QED
  BY <1>3, <1>4, <1>5, WalkAssumption, NoneAssumption DEF D!DevAssumption

LEMMA SameStart ==
    /\ Dev!Never = D!Never /\ Dev!NoTexts = D!NoTexts
    /\ Dev!AllIdle <=> D!AllIdle
    /\ Dev!NewDevStores = D!NewDevStores
<1>1. Dev!Never = D!Never /\ Dev!NoTexts = D!NoTexts
  BY SameFiles DEF Dev!Never, D!Never, Dev!NoTexts, D!NoTexts
<1> QED
  BY <1>1, SameFiles DEF Dev!AllIdle, D!AllIdle, Dev!NewDevStores, D!NewDevStores

LEMMA SameTexts ==
    /\ \A n, fs : Dev!Under(n, fs) = D!Under(n, fs)
    /\ \A n : Dev!RecentTexts(n) = D!RecentTexts(n)
    /\ Dev!Active = D!Active
<1>1. Dev!Active = D!Active /\ \A n, fs : Dev!Under(n, fs) = D!Under(n, fs)
  BY DEF Dev!Under, D!Under, Dev!Active, D!Active
<1>2. \A p : Dev!Recent(p) = D!Recent(p)
  BY <1>1 DEF Dev!Recent, D!Recent
<1> QED
  BY <1>1, <1>2, SameFiles DEF Dev!RecentTexts, D!RecentTexts

LEMMA DevSteps == Dev!DevNext => D!DevNext
<1>1. \A p, f : Dev!Edit(p, f) => D!Edit(p, f)
  BY SameFiles, SameTexts DEF Dev!Edit, D!Edit
<1>2. ASSUME NEW r
      PROVE  /\ Dev!Receive(r) => D!Receive(r)
             /\ Dev!ReadNext(r) => D!ReadNext(r)
             /\ Dev!WalkEnds(r) => D!WalkEnds(r)
             /\ Dev!AddLibrary(r) => D!AddLibrary(r)
             /\ Dev!AddScript(r) => D!AddScript(r)
             /\ Dev!Load(r) => D!Load(r)
             /\ Dev!Respond(r) => D!Respond(r)
  <2>1. Dev!Receive(r) => D!Receive(r)
    BY SameFiles, SameTexts DEF Dev!Receive, D!Receive
  <2>2. Dev!Respond(r) => D!Respond(r)
    BY SameStart DEF Dev!Respond, D!Respond
  <2> QED
    BY <2>1, <2>2 DEF Dev!ReadNext, D!ReadNext, Dev!WalkEnds, D!WalkEnds, Dev!AddLibrary,
       D!AddLibrary, Dev!AddScript, D!AddScript, Dev!Load, D!Load, Dev!historyVars, D!historyVars
<1>3. Dev!RaceDies => D!RaceDies
  BY DEF Dev!RaceDies, D!RaceDies, Dev!requestVars, D!requestVars, Dev!historyVars, D!historyVars
<1>4. Dev!Restart => D!Restart
  BY SameStart DEF Dev!Restart, D!Restart
<1> QED
  BY <1>1, <1>2, <1>3, <1>4, SameFiles DEF Dev!DevNext, D!DevNext

\* Whichever command is at work, its variables of `devhttp' are those of DevHttp.
LEMMA DevStarts == ASSUME CommandsInit PROVE D!DInv /\ D!AllIdle
<1>1. D!AllIdle
  BY SameStart DEF CommandsInit, Dev!DevInit
<1>2. disk \in [D!Files -> D!Values]
  BY SameFiles DEF CommandsInit, Dev!DevInit, D!Values
<1>3. libraries_ \in [Paths -> Texts \cup {None}]
  <2>1. CASE libraries_ \in D!NewDevStores
    BY <1>2, <2>1, DevConstants, D!StoreTypes
  <2>2. CASE libraries_ = [p \in Paths |-> None]
    BY <2>2
  <2> QED
    BY <2>1, <2>2, SameStart DEF CommandsInit, Dev!DevInit
<1> QED
  BY <1>1, <1>2, <1>3, DevConstants, D!InitHolds

LEMMA DevMoves == [CommandsNext]_commandVars => [D!DevNext]_(D!devVars)
<1> SUFFICES ASSUME [CommandsNext]_commandVars PROVE [D!DevNext]_(D!devVars)
  OBVIOUS
<1>1. Dev!DevNext \/ UNCHANGED devVars
  BY DEF CommandsNext, commandVars
<1> QED
  BY <1>1, DevSteps DEF devVars, D!devVars, D!requestVars, D!historyVars

\* However many requests of `cli devhttp' overlap and whatever is saved meanwhile, a
\* library that some file bears the name of throughout is loaded, as a file of that
\* name was since the request, or one that overlaps it, began.
THEOREM DevLibrariesFresh == CommandsSpec => []LibrariesFresh
<1>1. CommandsInit => D!DInv
  BY DevStarts
<1>2. D!DInv /\ [CommandsNext]_commandVars => D!DInv'
  BY DevMoves, DevConstants, D!NextHolds
<1>3. D!DInv => LibrariesFresh
  <2>1. D!DInv => D!LibrariesFresh
    BY D!InvImpliesFresh
  <2> QED
    BY <2>1, SameFiles DEF D!LibrariesFresh, LibrariesFresh, Dev!LibrariesFresh, Dev!ToSet, D!ToSet,
       Dev!Past, D!Past, Dev!Kept, D!Kept
<1> QED
  BY <1>1, <1>2, <1>3, PTL DEF CommandsSpec

\* Of library files with one name, `cli devhttp' runs a script with the last of the
\* walk, when its request meets no other.
THEOREM DevLastOfWalk == CommandsSpec => []LastOfWalk
<1>1. CommandsInit => D!LInv
  BY DevStarts, D!LastInit
<1>2. D!LInv /\ [CommandsNext]_commandVars => D!LInv'
  BY DevMoves, DevConstants, D!LastNext
<1>3. D!LInv => LastOfWalk
  <2>1. D!LInv => D!LastOfWalk
    BY DevConstants, D!InvImpliesLast
  <2> QED
    BY <2>1, SameFiles, SameTexts DEF D!LastOfWalk, LastOfWalk, Dev!LastOfWalk, Dev!ToSet, D!ToSet,
       Dev!Past, D!Past, Dev!Kept, D!Kept, Dev!Ever, D!Ever
<1> QED
  BY <1>1, <1>2, <1>3, PTL DEF CommandsSpec
================================================================================
