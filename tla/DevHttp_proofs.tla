----------------------------- MODULE DevHttp_proofs -----------------------------
(***************************************************************************)
(* Proofs about DevHttp: however many requests overlap and whatever the    *)
(* developer saves meanwhile, a script runs with the libraries on disk;    *)
(* and of files with one name, a request alone runs with the last.         *)
(***************************************************************************)
EXTENDS DevHttp, SequenceTheorems, TLAPS

DevAssumption ==
    /\ Walk \in Seq(Files) /\ Files \subseteq Names
    /\ Required \in Seq(Names)
    /\ \A p \in Files : Contents[p] \subseteq Library \cup {None}
    /\ None \notin Texts

Values == Library \cup {None}
Read == Names \X Texts
Wanted == ToSet(Required)

DevTypes ==
    /\ disk \in [Files -> Values] /\ libraries \in [Names -> Texts \cup {None}]
    /\ stage \in [Requests -> {"idle", "reading", "adding", "loading"}]
    /\ todo \in [Requests -> Seq(Names)]
    /\ found \in [Requests -> Seq(Read)] /\ loaded \in [Requests -> Seq(Read)]
    /\ whole \in [Requests -> BOOLEAN]
    /\ own \in [Requests -> [Files -> SUBSET Values]]
    /\ fresh \in [Requests -> [Wanted -> SUBSET Texts]]

\* What any request under way may have read is fresh to every other.
Seen ==
    \A r, q \in Requests : stage[r] # "idle" /\ stage[q] # "idle" =>
        \A p \in Files :
            /\ disk[p] \in own[r][p]
            /\ \A n \in Wanted : Under(n, own[q][p]) \subseteq fresh[r][n]

Has(seq, n) == \E l \in ToSet(seq) : l[1] = n
Good(r, n) == libraries[n] \in fresh[r][n]

\* What is left of the walk.
Suffix(r) ==
    /\ Len(todo[r]) <= Len(Walk)
    /\ \A i \in 1..Len(todo[r]) : todo[r][i] = Walk[Len(Walk) - Len(todo[r]) + i]

\* The libraries of a request on their way from the disk to the store.
Gathering(r) ==
    /\ stage[r] # "idle" =>
          \A l \in ToSet(found[r]) : \E p \in Files : l[2] \in Under(l[1], own[r][p])
    /\ stage[r] = "reading" =>
          /\ Suffix(r)
          /\ \A p \in Files, n \in Wanted :
                Kept(r, p, n) => p \in ToSet(todo[r]) \/ Has(found[r], n)
    /\ stage[r] = "adding" /\ whole[r] =>
          \A p \in Files, n \in Wanted : Kept(r, p, n) => Has(found[r], n) \/ Good(r, n)
    /\ stage[r] = "loading" /\ whole[r] =>
          \A p \in Files, n \in Wanted : Kept(r, p, n) => Good(r, n)

\* The libraries loaded so far, in the order they are required.
Fresh(r) ==
    whole[r] => \A i \in Past(r), p \in Files : Kept(r, p, Required[i]) =>
        \E l \in ToSet(loaded[r]) : l[1] = Required[i] /\ l[2] \in fresh[r][Required[i]]

Loading(r) ==
    /\ stage[r] \in {"idle", "loading"} => found[r] = <<>>
    /\ stage[r] # "loading" => loaded[r] = <<>>
    /\ stage[r] = "loading" =>
          /\ Len(todo[r]) <= Len(Required)
          /\ \A i \in 1..Len(todo[r]) : todo[r][i] = Required[Len(Required) - Len(todo[r]) + i]
          /\ Fresh(r)

DInv == DevTypes /\ Seen /\ \A r \in Requests : Gathering(r) /\ Loading(r)

\* The elements of a sequence, one more at its end or one less at its beginning.
LEMMA AppendElements ==
    ASSUME NEW S, NEW s \in Seq(S), NEW x \in S
    PROVE  Append(s, x) \in Seq(S) /\ ToSet(Append(s, x)) = ToSet(s) \cup {x}
<1> DEFINE t == Append(s, x)
<1>1. /\ t \in Seq(S) /\ t[Len(s) + 1] = x /\ \A i \in 1..Len(s) : t[i] = s[i]
      /\ DOMAIN s = 1..Len(s) /\ DOMAIN t = 1..Len(s) + 1 /\ Len(s) \in Nat
  BY AppendProperties
<1>2. \A i \in 1..Len(s) + 1 : i \in 1..Len(s) \/ i = Len(s) + 1
  BY <1>1
<1>3. Len(s) + 1 \in DOMAIN t /\ DOMAIN s \subseteq DOMAIN t
  BY <1>1
<1> HIDE DEF t
<1>4. ToSet(t) = ToSet(s) \cup {x}
  BY <1>1, <1>2, <1>3 DEF ToSet
<1> QED
  BY <1>1, <1>4 DEF t

LEMMA TailElements ==
    ASSUME NEW S, NEW s \in Seq(S), s # <<>>
    PROVE  /\ Head(s) \in S /\ Tail(s) \in Seq(S)
           /\ Len(Tail(s)) = Len(s) - 1 /\ Head(s) = s[1]
           /\ \A i \in 1..Len(s) - 1 : Tail(s)[i] = s[i + 1]
           /\ ToSet(s) = {Head(s)} \cup ToSet(Tail(s))
<1>1. /\ Head(s) \in S /\ Tail(s) \in Seq(S) /\ Len(Tail(s)) = Len(s) - 1
      /\ \A i \in 1..Len(Tail(s)) : Tail(s)[i] = s[i + 1]
      /\ Head(s) = s[1] /\ Len(s) \in Nat /\ Len(s) # 0
      /\ DOMAIN s = 1..Len(s) /\ DOMAIN Tail(s) = 1..Len(s) - 1
  BY HeadTailProperties, EmptySeq
<1>2. ToSet(Tail(s)) \subseteq ToSet(s)
  <2>1. \A i \in 1..Len(s) - 1 : i + 1 \in 1..Len(s)
    BY <1>1
  <2> QED
    BY <1>1, <2>1 DEF ToSet
<1>3. Head(s) \in ToSet(s)
  BY <1>1 DEF ToSet
<1>4. ToSet(s) \subseteq {Head(s)} \cup ToSet(Tail(s))
  <2>1. \A i \in 1..Len(s) : i = 1 \/ (i - 1 \in 1..Len(s) - 1 /\ (i - 1) + 1 = i)
    BY <1>1
  <2>2. \A i \in 1..Len(s) : i # 1 => i - 1 \in 1..Len(s) - 1 /\ s[i] = Tail(s)[i - 1]
    BY <1>1, <2>1
  <2>3. \A i \in 1..Len(s) : s[i] \in {Head(s)} \cup ToSet(Tail(s))
    BY <1>1, <2>2 DEF ToSet
  <2> QED
    BY <1>1, <2>3 DEF ToSet
<1> QED
  BY <1>1, <1>2, <1>3, <1>4

LEMMA EmptyElements == ToSet(<<>>) = {}
  BY DEF ToSet

\* What the libraries the script requires are.
LEMMA WantedFacts ==
    ASSUME DevAssumption
    PROVE  /\ Wanted \subseteq Names
           /\ Len(Required) \in Nat /\ \A i \in 1..Len(Required) : Required[i] \in Wanted
           /\ Len(Walk) \in Nat /\ DOMAIN Walk = 1..Len(Walk)
           /\ \A k \in 1..Len(Walk) : Walk[k] \in Files
<1>1. /\ Required \in Seq(Names) /\ DOMAIN Required = 1..Len(Required) /\ Len(Required) \in Nat
      /\ \A i \in 1..Len(Required) : Required[i] \in Names
  BY LenProperties, ElementOfSeq DEF DevAssumption
<1>2. /\ Walk \in Seq(Files) /\ DOMAIN Walk = 1..Len(Walk) /\ Len(Walk) \in Nat
      /\ \A i \in 1..Len(Walk) : Walk[i] \in Files
  BY LenProperties, ElementOfSeq DEF DevAssumption
<1> QED
  BY <1>1, <1>2 DEF Wanted, ToSet

\* Texts of a name.
LEMMA UnderFacts ==
    ASSUME NEW n, NEW fs, NEW gs
    PROVE  /\ fs \subseteq gs => Under(n, fs) \subseteq Under(n, gs)
           /\ Under(n, fs \cup gs) = Under(n, fs) \cup Under(n, gs)
           /\ fs \subseteq Values => Under(n, fs) \subseteq Texts
           /\ \A f \in fs : f # None /\ f.name = n => f.text \in Under(n, fs)
  BY DEF Under, Values, Library

\* A request that a step of another one does not touch, though the other may write a
\* library that is fresh to this one.
LEMMA OthersHold ==
    ASSUME DInv, DevAssumption, NEW r \in Requests,
           stage'[r] = stage[r], todo'[r] = todo[r], found'[r] = found[r], loaded'[r] = loaded[r],
           whole'[r] = whole[r], own'[r] = own[r], fresh'[r] = fresh[r],
           stage[r] # "idle" => \A n \in Wanted :
               libraries'[n] = libraries[n] \/ libraries'[n] \in fresh[r][n]
    PROVE  Gathering(r)' /\ Loading(r)'
<1>1. Gathering(r) /\ Loading(r)
  BY DEF DInv
<1>2. ASSUME NEW n \in Wanted, stage[r] # "idle", Good(r, n) PROVE Good(r, n)'
  BY <1>2 DEF Good
<1>3. Gathering(r)'
  <2>1. stage'[r] # "idle" =>
           \A l \in ToSet(found'[r]) : \E p \in Files : l[2] \in Under(l[1], own'[r][p])
    BY <1>1 DEF Gathering
  <2>2. \A p, n : Kept(r, p, n)' <=> Kept(r, p, n)
    BY DEF Kept
  <2>3. Suffix(r) => Suffix(r)'
    BY DEF Suffix
  <2>4. \A n : Has(found[r], n)' <=> Has(found[r], n)
    BY DEF Has
  <2> QED
    BY <1>1, <1>2, <2>1, <2>2, <2>3, <2>4 DEF Gathering
<1>4. Loading(r)'
  BY <1>1 DEF Loading, Fresh, Past, Kept
<1> QED
  BY <1>3, <1>4

\* What has been read of a library is on its way to the store, and has text.
LEMMA FoundElements ==
    ASSUME DInv, NEW r \in Requests, NEW l \in ToSet(found[r])
    PROVE  l \in Read /\ l[1] \in Names /\ l[2] \in Texts
<1>1. found[r] \in Seq(Read)
  BY DEF DInv, DevTypes
<1>2. \A i \in DOMAIN found[r] : found[r][i] \in Read
  BY <1>1, ElementOfSeq, LenProperties
<1> QED
  BY <1>2 DEF ToSet, Read

LEMMA InitHolds ==
    ASSUME DevAssumption, disk \in [Files -> Values], libraries \in [Names -> Texts \cup {None}],
           AllIdle
    PROVE  DInv
<1>1. DevTypes
  BY DEF AllIdle, DevTypes, Never, NoTexts, Wanted
<1>2. Seen
  BY DEF AllIdle, Seen
<1>3. ASSUME NEW r \in Requests PROVE Gathering(r) /\ Loading(r)
  BY DEF AllIdle, Gathering, Loading
<1> QED
  BY <1>1, <1>2, <1>3 DEF DInv

\* What a new store holds.
LEMMA StoreTypes ==
    ASSUME DevAssumption, disk \in [Files -> Values], NEW store \in NewDevStores
    PROVE  store \in [Names -> Texts \cup {None}]
  BY DEF NewDevStores, Values, Library

LEMMA EditHolds ==
    ASSUME DInv, DevAssumption, NEW p \in Files, NEW f \in Values, Edit(p, f)
    PROVE  DInv'
<1>1. UNCHANGED <<libraries, stage, todo, found, loaded, whole>>
  BY DEF Edit
<1>2. ASSUME NEW r \in Requests, stage[r] # "idle"
      PROVE  /\ \A x \in Files : own'[r][x] = IF x = p THEN own[r][x] \cup {f} ELSE own[r][x]
             /\ \A n \in Wanted : fresh'[r][n] = fresh[r][n] \cup Under(n, {f})
  BY <1>2 DEF DInv, DevTypes, Edit, Active, Wanted
<1>3. \A x \in Files : disk'[x] = IF x = p THEN f ELSE disk[x]
  BY DEF DInv, DevTypes, Edit
<1>4. DevTypes'
  <2>1. own' \in [Requests -> [Files -> SUBSET Values]]
    BY DEF DInv, DevTypes, Edit
  <2>2. fresh' \in [Requests -> [Wanted -> SUBSET Texts]]
    <3>1. \A n \in Wanted : Under(n, {f}) \subseteq Texts
      BY UnderFacts
    <3>2. ASSUME NEW r \in Requests
          PROVE  [n \in Wanted |-> fresh[r][n] \cup Under(n, {f})] \in [Wanted -> SUBSET Texts]
      BY <3>1 DEF DInv, DevTypes
    <3> QED
      BY <3>2 DEF DInv, DevTypes, Edit, Wanted
  <2>3. disk' \in [Files -> Values]
    BY DEF DInv, DevTypes, Edit
  <2> QED
    BY <1>1, <2>1, <2>2, <2>3 DEF DInv, DevTypes
<1>5. Seen'
  <2> SUFFICES ASSUME NEW r \in Requests, NEW q \in Requests, stage[r] # "idle",
                      stage[q] # "idle", NEW x \in Files
               PROVE  /\ disk'[x] \in own'[r][x]
                      /\ \A n \in Wanted : Under(n, own'[q][x]) \subseteq fresh'[r][n]
    BY <1>1 DEF Seen
  <2>1. /\ disk[x] \in own[r][x]
        /\ \A n \in Wanted : Under(n, own[q][x]) \subseteq fresh[r][n]
    BY DEF DInv, Seen
  <2>2. disk'[x] \in own'[r][x]
    BY <1>2, <1>3, <2>1
  <2>3. ASSUME NEW n \in Wanted PROVE Under(n, own'[q][x]) \subseteq fresh'[r][n]
    <3>1. fresh'[r][n] = fresh[r][n] \cup Under(n, {f})
      BY <1>2
    <3>2. CASE x = p
      <4>1. own'[q][x] = own[q][x] \cup {f}
        BY <1>2, <3>2
      <4>2. Under(n, own'[q][x]) = Under(n, own[q][x]) \cup Under(n, {f})
        BY <4>1, UnderFacts
      <4> QED
        BY <2>1, <3>1, <4>2
    <3>3. CASE x # p
      <4>1. own'[q][x] = own[q][x]
        BY <1>2, <3>3
      <4> QED
        BY <2>1, <3>1, <4>1
    <3> QED
      BY <3>2, <3>3
  <2> QED
    BY <2>2, <2>3
<1>6. ASSUME NEW r \in Requests PROVE Gathering(r)' /\ Loading(r)'
  <2>1. CASE stage[r] = "idle"
    BY <1>1, <2>1 DEF DInv, Gathering, Loading
  <2>2. CASE stage[r] # "idle"
    <3>1. Gathering(r) /\ Loading(r)
      BY DEF DInv
    <3>2. /\ \A x \in Files : own[r][x] \subseteq own'[r][x]
          /\ \A n \in Wanted : fresh[r][n] \subseteq fresh'[r][n]
      BY <1>2, <2>2
    <3>3. \A x \in Files : \A n : Under(n, own[r][x]) \subseteq Under(n, own'[r][x])
      BY <3>2, UnderFacts
    <3>4. \A x \in Files : \A n : Kept(r, x, n)' => Kept(r, x, n)
      BY <3>2 DEF Kept
    <3>5. \A n \in Wanted : Good(r, n) => Good(r, n)'
      BY <1>1, <3>2 DEF Good
    <3>6. Suffix(r) => Suffix(r)'
      BY <1>1 DEF Suffix
    <3>7. Gathering(r)'
      <4>1. \A l \in ToSet(found'[r]) : \E x \in Files : l[2] \in Under(l[1], own'[r][x])
        BY <1>1, <2>2, <3>1, <3>3 DEF Gathering
      <4> QED
        BY <1>1, <3>1, <3>4, <3>5, <3>6, <4>1 DEF Gathering, Has
    <3>8. Fresh(r) => Fresh(r)'
      <4> SUFFICES ASSUME Fresh(r), whole[r], NEW i \in Past(r), NEW x \in Files,
                          Kept(r, x, Required[i])'
                   PROVE  \E l \in ToSet(loaded[r]) :
                             l[1] = Required[i] /\ l[2] \in fresh'[r][Required[i]]
        BY <1>1 DEF Fresh, Past
      <4>1. PICK l \in ToSet(loaded[r]) : l[1] = Required[i] /\ l[2] \in fresh[r][Required[i]]
        BY <3>4 DEF Fresh
      <4>2. Required[i] \in Wanted
        <5>1. Len(todo[r]) \in Nat /\ Len(Required) \in Nat
          BY WantedFacts, LenProperties DEF DInv, DevTypes
        <5> QED
          BY <5>1, WantedFacts DEF Past
      <4> QED
        BY <3>2, <4>1, <4>2
    <3>9. Loading(r)'
      BY <1>1, <3>1, <3>8 DEF Loading
    <3> QED
      BY <3>7, <3>9
  <2> QED
    BY <2>1, <2>2
<1> QED
  BY <1>4, <1>5, <1>6 DEF DInv

LEMMA ReceiveHolds ==
    ASSUME DInv, DevAssumption, NEW r \in Requests, Receive(r)
    PROVE  DInv'
<1> DEFINE all == [n \in Wanted |-> RecentTexts(n)]
<1>1. UNCHANGED <<disk, libraries, found, loaded, whole>> /\ stage[r] = "idle"
  BY DEF Receive
<1>2. /\ stage' = [stage EXCEPT ![r] = "reading"] /\ todo' = [todo EXCEPT ![r] = Walk]
      /\ own' = [own EXCEPT ![r] = [p \in Files |-> {disk[p]}]]
      /\ fresh' = [fresh EXCEPT ![r] = all]
  BY DEF Receive, Wanted
<1>3. ASSUME NEW p \in Files
      PROVE  Recent(p) \subseteq Values /\ disk[p] \in Recent(p)
             /\ \A q \in Active : own[q][p] \subseteq Recent(p)
  BY DEF Recent, Active, DInv, DevTypes
<1>4. \A p \in Files, n \in Wanted : Under(n, Recent(p)) \subseteq all[n]
  BY DEF RecentTexts
<1>5. all \in [Wanted -> SUBSET Texts]
  <2>1. \A p \in Files, n \in Wanted : Under(n, Recent(p)) \subseteq Texts
    BY <1>3, UnderFacts
  <2> QED
    BY <2>1 DEF RecentTexts
<1> HIDE DEF all
<1>6. DevTypes'
  <2>1. Walk \in Seq(Names)
    BY SeqMonotonic DEF DevAssumption
  <2>2. /\ stage' \in [Requests -> {"idle", "reading", "adding", "loading"}]
        /\ todo' \in [Requests -> Seq(Names)]
    BY <1>2, <2>1 DEF DInv, DevTypes
  <2>3. own' \in [Requests -> [Files -> SUBSET Values]]
    BY <1>2 DEF DInv, DevTypes
  <2>4. fresh' \in [Requests -> [Wanted -> SUBSET Texts]]
    BY <1>2, <1>5 DEF DInv, DevTypes
  <2> QED
    BY <1>1, <2>2, <2>3, <2>4 DEF DInv, DevTypes
<1>7. /\ stage'[r] = "reading" /\ todo'[r] = Walk
      /\ \A p \in Files : own'[r][p] = {disk[p]}
      /\ fresh'[r] = all
  BY <1>2 DEF DInv, DevTypes
<1>8. \A q \in Requests : q # r => /\ stage'[q] = stage[q] /\ todo'[q] = todo[q]
                                   /\ own'[q] = own[q] /\ fresh'[q] = fresh[q]
  BY <1>2 DEF DInv, DevTypes
<1>9. Seen'
  <2> SUFFICES ASSUME NEW x \in Requests, NEW q \in Requests, stage'[x] # "idle",
                      stage'[q] # "idle", NEW p \in Files
               PROVE  /\ disk'[p] \in own'[x][p]
                      /\ \A n \in Wanted : Under(n, own'[q][p]) \subseteq fresh'[x][n]
    BY DEF Seen
  <2>1. disk'[p] \in own'[x][p]
    <3>1. CASE x = r
      BY <1>1, <1>7, <3>1
    <3>2. CASE x # r
      BY <1>1, <1>8, <3>2 DEF DInv, Seen
    <3> QED
      BY <3>1, <3>2
  <2>2. own'[q][p] \subseteq Recent(p)
    <3>1. CASE q = r
      BY <1>3, <1>7, <3>1
    <3>2. CASE q # r
      BY <1>3, <1>8, <3>2 DEF Active
    <3> QED
      BY <3>1, <3>2
  <2>3. ASSUME NEW n \in Wanted PROVE Under(n, own'[q][p]) \subseteq fresh'[x][n]
    <3>1. CASE x = r
      <4>1. Under(n, own'[q][p]) \subseteq Under(n, Recent(p))
        BY <2>2, UnderFacts
      <4> QED
        BY <1>4, <1>7, <3>1, <4>1
    <3>2. CASE x # r /\ q # r
      BY <1>8, <3>2 DEF DInv, Seen
    <3>3. CASE x # r /\ q = r
      <4>1. own'[q][p] \subseteq own[x][p] /\ Under(n, own[x][p]) \subseteq fresh[x][n]
        BY <1>7, <1>8, <3>3 DEF DInv, Seen
      <4>2. Under(n, own'[q][p]) \subseteq Under(n, own[x][p])
        BY <4>1, UnderFacts
      <4> QED
        BY <1>8, <3>3, <4>1, <4>2
    <3> QED
      BY <3>1, <3>2, <3>3
  <2> QED
    BY <2>1, <2>3
<1>10. ASSUME NEW q \in Requests PROVE Gathering(q)' /\ Loading(q)'
  <2>1. CASE q = r
    <3>1. found[r] = <<>> /\ loaded[r] = <<>>
      BY <1>1 DEF DInv, Loading
    <3>2. Suffix(r)'
      <4>1. \A i \in 1..Len(Walk) : Len(Walk) - Len(Walk) + i = i
        BY WantedFacts
      <4> QED
        BY <1>7, <4>1, WantedFacts DEF Suffix
    <3>3. Gathering(r)'
      BY <1>1, <1>7, <3>1, <3>2, EmptyElements DEF Gathering, Files
    <3>4. Loading(r)'
      BY <1>1, <1>7, <3>1 DEF Loading
    <3> QED
      BY <2>1, <3>3, <3>4
  <2>2. CASE q # r
    BY <1>1, <1>8, <2>2, OthersHold
  <2> QED
    BY <2>1, <2>2
<1> QED
  BY <1>6, <1>9, <1>10 DEF DInv

\* Steps of a request that change nothing others look at: only its stage (which stays
\* active), what it has to do, what it has found and loaded.
LEMMA SeenKept ==
    ASSUME DInv, UNCHANGED <<disk, own, fresh>>,
           \A q \in Requests : stage'[q] = "idle" \/ stage[q] # "idle"
    PROVE  Seen'
BY DEF DInv, Seen

\* What the walk reads next, and what that does.
Reading(r, p) ==
    /\ UNCHANGED <<disk, libraries, stage, loaded, whole, own, fresh, met>>
    /\ stage[r] = "reading"
    /\ found[r] \in Seq(Read) /\ Len(todo[r]) \in 1..Len(Walk) /\ Len(Walk) \in Nat
    /\ p = Walk[Len(Walk) - Len(todo[r]) + 1]
    /\ p \in Files /\ disk[p] \in own[r][p]
    /\ disk[p] # None => <<disk[p].name, disk[p].text>> \in Read
    /\ todo'[r] = Tail(todo[r]) /\ Tail(todo[r]) \in Seq(Names)
    /\ Len(todo'[r]) = Len(todo[r]) - 1
    /\ \A i \in 1..Len(todo[r]) - 1 : todo'[r][i] = todo[r][i + 1]
    /\ ToSet(todo[r]) = {p} \cup ToSet(todo'[r])
    /\ found'[r] = IF disk[p] = None THEN found[r]
                   ELSE Append(found[r], <<disk[p].name, disk[p].text>>)
    /\ \A q \in Requests : q # r => found'[q] = found[q] /\ todo'[q] = todo[q]
    /\ todo' = [todo EXCEPT ![r] = Tail(@)]
    /\ \E v : found' = [found EXCEPT ![r] = v]

LEMMA ReadFacts ==
    ASSUME DInv, DevAssumption, NEW r \in Requests, ReadNext(r)
    PROVE  Reading(r, Head(todo[r]))
<1> DEFINE p == Head(todo[r])
           v == IF disk[p] = None THEN found[r] ELSE Append(found[r], <<disk[p].name, disk[p].text>>)
<1>1. /\ UNCHANGED <<disk, libraries, stage, loaded, whole, own, fresh, met>>
      /\ stage[r] = "reading" /\ todo[r] # <<>>
      /\ found' = [found EXCEPT ![r] = v]
      /\ todo' = [todo EXCEPT ![r] = Tail(@)]
  BY DEF ReadNext, historyVars
<1>2. /\ todo[r] \in Seq(Names) /\ found[r] \in Seq(Read) /\ disk \in [Files -> Values]
      /\ todo \in [Requests -> Seq(Names)] /\ found \in [Requests -> Seq(Read)]
  BY DEF DInv, DevTypes
<1>3. /\ Tail(todo[r]) \in Seq(Names) /\ p = todo[r][1]
      /\ Len(Tail(todo[r])) = Len(todo[r]) - 1
      /\ \A i \in 1..Len(todo[r]) - 1 : Tail(todo[r])[i] = todo[r][i + 1]
      /\ ToSet(todo[r]) = {p} \cup ToSet(Tail(todo[r]))
  BY <1>1, <1>2, TailElements
<1>4. Len(todo[r]) \in 1..Len(Walk) /\ Len(Walk) \in Nat /\ p = Walk[Len(Walk) - Len(todo[r]) + 1]
  <2>1. Suffix(r)
    BY <1>1 DEF DInv, Gathering
  <2>2. Len(todo[r]) \in Nat /\ Len(todo[r]) # 0 /\ Len(Walk) \in Nat
    BY <1>1, <1>2, LenProperties, EmptySeq, WantedFacts
  <2>3. 1 \in 1..Len(todo[r]) /\ Len(todo[r]) <= Len(Walk)
    BY <2>1, <2>2 DEF Suffix
  <2>4. p = Walk[Len(Walk) - Len(todo[r]) + 1]
    BY <1>3, <2>1, <2>3 DEF Suffix
  <2>5. Len(todo[r]) \in 1..Len(Walk)
    BY <2>2, <2>3
  <2> QED
    BY <2>2, <2>4, <2>5
<1>5. p \in Files
  <2>1. Len(Walk) - Len(todo[r]) + 1 \in 1..Len(Walk)
    BY <1>4
  <2> QED
    BY <1>4, <2>1, WantedFacts
<1>6. disk[p] \in own[r][p]
  BY <1>1, <1>5 DEF DInv, Seen
<1>7. disk[p] # None => <<disk[p].name, disk[p].text>> \in Read
  BY <1>2, <1>5 DEF Read, Values, Library
<1>8. todo'[r] = Tail(todo[r]) /\ \A q \in Requests : q # r => todo'[q] = todo[q]
  BY <1>1, <1>2
<1>9. found'[r] = v /\ \A q \in Requests : q # r => found'[q] = found[q]
  BY <1>1, <1>2
<1> QED
  BY <1>1, <1>2, <1>3, <1>4, <1>5, <1>6, <1>7, <1>8, <1>9 DEF Reading

LEMMA ReadNextHolds ==
    ASSUME DInv, DevAssumption, NEW r \in Requests, ReadNext(r)
    PROVE  DInv'
<1> DEFINE p == Head(todo[r])
           e == <<disk[p].name, disk[p].text>>
<1>7. Reading(r, p)
  BY ReadFacts
<1>1. /\ UNCHANGED <<disk, libraries, stage, loaded, whole, own, fresh>>
      /\ stage[r] = "reading"
      /\ found[r] \in Seq(Read) /\ Len(todo[r]) \in 1..Len(Walk) /\ Len(Walk) \in Nat
      /\ p \in Files /\ disk[p] \in own[r][p]
      /\ disk[p] # None => e \in Read
      /\ todo'[r] = Tail(todo[r]) /\ Tail(todo[r]) \in Seq(Names)
      /\ Len(todo'[r]) = Len(todo[r]) - 1
      /\ \A i \in 1..Len(todo[r]) - 1 : todo'[r][i] = todo[r][i + 1]
      /\ ToSet(todo[r]) = {p} \cup ToSet(todo'[r])
      /\ found'[r] = IF disk[p] = None THEN found[r] ELSE Append(found[r], e)
      /\ \A q \in Requests : q # r => found'[q] = found[q] /\ todo'[q] = todo[q]
      /\ todo' = [todo EXCEPT ![r] = Tail(@)]
      /\ \E v : found' = [found EXCEPT ![r] = v]
  BY <1>7 DEF Reading
<1>2. e[1] = disk[p].name /\ e[2] = disk[p].text
  OBVIOUS
<1> HIDE DEF p, e
<1>3. /\ found'[r] \in Seq(Read)
      /\ disk[p] = None => ToSet(found'[r]) = ToSet(found[r])
      /\ disk[p] # None => ToSet(found'[r]) = ToSet(found[r]) \cup {e}
  <2>1. CASE disk[p] = None
    BY <1>1, <2>1
  <2>2. CASE disk[p] # None
    <3>1. found'[r] = Append(found[r], e) /\ e \in Read
      BY <1>1, <2>2
    <3>2. \A x \in Read : /\ Append(found[r], x) \in Seq(Read)
                          /\ ToSet(Append(found[r], x)) = ToSet(found[r]) \cup {x}
      BY <1>1, AppendElements
    <3> QED
      BY <2>2, <3>1, <3>2
  <2> QED
    BY <2>1, <2>2
<1>4. DevTypes'
  <2>1. todo' \in [Requests -> Seq(Names)]
    BY <1>1 DEF DInv, DevTypes
  <2>2. \A q \in Requests : found'[q] \in Seq(Read)
    BY <1>1, <1>3 DEF DInv, DevTypes
  <2>3. found' \in [Requests -> Seq(Read)]
    BY <1>1, <2>2 DEF DInv, DevTypes
  <2> QED
    BY <1>1, <2>1, <2>3 DEF DInv, DevTypes
<1>5. Seen'
  BY <1>1, SeenKept
<1>6. ASSUME NEW q \in Requests PROVE Gathering(q)' /\ Loading(q)'
  <2>1. CASE q = r
    <3>1. Gathering(r) /\ Loading(r)
      BY DEF DInv
    <3>2. ASSUME NEW l \in ToSet(found'[r])
          PROVE  \E x \in Files : l[2] \in Under(l[1], own'[r][x])
      <4>1. CASE l \in ToSet(found[r])
        BY <1>1, <3>1, <4>1 DEF Gathering
      <4>2. CASE disk[p] # None /\ l = e
        <5>1. disk[p].text \in Under(disk[p].name, own[r][p])
          BY <1>1, <4>2, UnderFacts
        <5> QED
          BY <1>1, <1>2, <4>2, <5>1
      <4> QED
        BY <1>3, <4>1, <4>2
    <3>3. ASSUME NEW x \in Files, NEW n \in Wanted, Kept(r, x, n)
          PROVE  x \in ToSet(todo'[r]) \/ \E l \in ToSet(found'[r]) : l[1] = n
      <4>1. x \in ToSet(todo[r]) \/ Has(found[r], n)
        BY <1>1, <3>1, <3>3 DEF Gathering
      <4>2. CASE x = p
        <5>1. disk[p] # None /\ disk[p].name = n
          BY <1>1, <3>3, <4>2 DEF Kept
        <5>2. e \in ToSet(found'[r]) /\ e[1] = n
          BY <1>2, <1>3, <5>1
        <5> QED
          BY <5>2
      <4>3. CASE x # p
        BY <1>1, <1>3, <4>1, <4>3 DEF Has
      <4> QED
        BY <4>2, <4>3
    <3>4. Suffix(r)'
      <4>1. Suffix(r)
        BY <1>1, <3>1 DEF Gathering
      <4>2. \A i \in 1..Len(todo[r]) - 1 :
               i + 1 \in 1..Len(todo[r])
               /\ Len(Walk) - Len(todo[r]) + (i + 1) = Len(Walk) - (Len(todo[r]) - 1) + i
        BY <1>1
      <4>3. Len(todo[r]) - 1 <= Len(Walk)
        BY <1>1
      <4>4. ASSUME NEW i \in 1..Len(todo[r]) - 1
            PROVE  todo'[r][i] = Walk[Len(Walk) - (Len(todo[r]) - 1) + i]
        <5>1. todo'[r][i] = todo[r][i + 1] /\ i + 1 \in 1..Len(todo[r])
          BY <1>1, <4>2
        <5>2. todo[r][i + 1] = Walk[Len(Walk) - Len(todo[r]) + (i + 1)]
          BY <4>1, <5>1 DEF Suffix
        <5> QED
          BY <4>2, <5>1, <5>2
      <4> QED
        BY <1>1, <4>3, <4>4 DEF Suffix
    <3>5. Gathering(r)'
      BY <1>1, <3>2, <3>3, <3>4 DEF Gathering, Has, Kept
    <3>6. Loading(r)'
      BY <1>1, <3>1 DEF Loading
    <3> QED
      BY <2>1, <3>5, <3>6
  <2>2. CASE q # r
    BY <1>1, <2>2, OthersHold
  <2> QED
    BY <2>1, <2>2
<1> QED
  BY <1>4, <1>5, <1>6 DEF DInv

LEMMA WalkEndsHolds ==
    ASSUME DInv, DevAssumption, NEW r \in Requests, WalkEnds(r)
    PROVE  DInv'
<1>1. /\ UNCHANGED <<disk, libraries, found, loaded, own, fresh>> /\ stage[r] = "reading"
      /\ stage' = [stage EXCEPT ![r] = "adding"]
      /\ whole' = [whole EXCEPT ![r] = todo[r] = <<>>]
      /\ todo' = [todo EXCEPT ![r] = <<>>]
  BY DEF WalkEnds, historyVars
<1>2. DevTypes'
  BY <1>1 DEF DInv, DevTypes
<1>3. stage'[r] = "adding" /\ (whole'[r] => todo[r] = <<>>)
  BY <1>1 DEF DInv, DevTypes
<1>4. \A q \in Requests : q # r =>
         stage'[q] = stage[q] /\ whole'[q] = whole[q] /\ todo'[q] = todo[q]
  BY <1>1 DEF DInv, DevTypes
<1>5. Seen'
  BY <1>1, <1>4, SeenKept
<1>6. ASSUME NEW q \in Requests PROVE Gathering(q)' /\ Loading(q)'
  <2>1. CASE q = r
    <3>1. Gathering(r) /\ Loading(r)
      BY DEF DInv
    <3>2. Gathering(r)'
      BY <1>1, <1>3, <3>1, EmptyElements DEF Gathering, Has, Good, Kept
    <3>3. Loading(r)'
      BY <1>1, <1>3, <3>1 DEF Loading
    <3> QED
      BY <2>1, <3>2, <3>3
  <2>2. CASE q # r
    BY <1>1, <1>4, <2>2, OthersHold
  <2> QED
    BY <2>1, <2>2
<1> QED
  BY <1>2, <1>5, <1>6 DEF DInv

\* What is added next, and what that does.
Adding(r, l) ==
    /\ UNCHANGED <<disk, stage, todo, loaded, whole, own, fresh, met>>
    /\ l = Head(found[r]) /\ stage[r] = "adding" /\ found[r] # <<>>
    /\ found[r] \in Seq(Read) /\ l \in Read /\ l[1] \in Names /\ l[2] \in Texts
    /\ ToSet(found[r]) = {l} \cup ToSet(Tail(found[r]))
    /\ found'[r] = Tail(found[r]) /\ found' \in [Requests -> Seq(Read)]
    /\ \A q \in Requests : q # r => found'[q] = found[q]
    /\ libraries' \in [Names -> Texts \cup {None}]
    /\ \A n \in Names : libraries'[n] = IF n = l[1] THEN l[2] ELSE libraries[n]

LEMMA AddFacts ==
    ASSUME DInv, DevAssumption, NEW r \in Requests, AddLibrary(r)
    PROVE  Adding(r, Head(found[r]))
<1> DEFINE l == Head(found[r])
<1>1. /\ UNCHANGED <<disk, stage, todo, loaded, whole, own, fresh, met>>
      /\ stage[r] = "adding" /\ found[r] # <<>>
      /\ libraries' = [libraries EXCEPT ![l[1]] = l[2]]
      /\ found' = [found EXCEPT ![r] = Tail(@)]
  BY DEF AddLibrary, historyVars
<1>2. /\ found[r] \in Seq(Read)
      /\ found \in [Requests -> Seq(Read)] /\ libraries \in [Names -> Texts \cup {None}]
  BY DEF DInv, DevTypes
<1>3. /\ l \in Read /\ ToSet(found[r]) = {l} \cup ToSet(Tail(found[r]))
      /\ Tail(found[r]) \in Seq(Read)
  BY <1>1, <1>2, TailElements
<1>4. l[1] \in Names /\ l[2] \in Texts
  BY <1>3 DEF Read
<1>5. found'[r] = Tail(found[r]) /\ \A q \in Requests : q # r => found'[q] = found[q]
  BY <1>1, <1>2
<1>6. found' \in [Requests -> Seq(Read)]
  BY <1>1, <1>2, <1>3
<1>7. /\ libraries' \in [Names -> Texts \cup {None}]
      /\ \A n \in Names : libraries'[n] = IF n = l[1] THEN l[2] ELSE libraries[n]
  BY <1>1, <1>2, <1>4
<1> QED
  BY <1>1, <1>2, <1>3, <1>4, <1>5, <1>6, <1>7 DEF Adding

LEMMA AddLibraryHolds ==
    ASSUME DInv, DevAssumption, NEW r \in Requests, AddLibrary(r)
    PROVE  DInv'
<1>7. PICK l : Adding(r, l)
  BY AddFacts
<1>1. /\ UNCHANGED <<disk, stage, todo, loaded, whole, own, fresh, met>>
      /\ stage[r] = "adding" /\ found[r] # <<>>
      /\ found[r] \in Seq(Read) /\ l \in Read /\ l[1] \in Names /\ l[2] \in Texts
      /\ ToSet(found[r]) = {l} \cup ToSet(Tail(found[r]))
      /\ found'[r] = Tail(found[r]) /\ found' \in [Requests -> Seq(Read)]
      /\ \A q \in Requests : q # r => found'[q] = found[q]
      /\ libraries' \in [Names -> Texts \cup {None}]
      /\ \A n \in Names : libraries'[n] = IF n = l[1] THEN l[2] ELSE libraries[n]
  BY <1>7 DEF Adding
<1>2. PICK p \in Files : l[2] \in Under(l[1], own[r][p])
  BY <1>1 DEF DInv, Gathering
<1>3. ASSUME NEW q \in Requests, stage[q] # "idle", NEW n \in Wanted
      PROVE  /\ libraries'[n] = libraries[n] \/ libraries'[n] \in fresh[q][n]
             /\ n = l[1] => libraries'[n] \in fresh[q][n]
  <2>1. Under(n, own[r][p]) \subseteq fresh[q][n] /\ n \in Names
    BY <1>1, <1>3, WantedFacts DEF DInv, Seen
  <2> QED
    BY <1>1, <1>2, <2>1
<1>4. DevTypes'
  BY <1>1 DEF DInv, DevTypes
<1>5. Seen'
  BY <1>1, SeenKept
<1>6. ASSUME NEW q \in Requests PROVE Gathering(q)' /\ Loading(q)'
  <2>1. CASE q = r
    <3>1. Gathering(r) /\ Loading(r)
      BY DEF DInv
    <3>2. \A x \in ToSet(found'[r]) : x \in ToSet(found[r])
      BY <1>1
    <3>3. \A n \in Wanted : Good(r, n) \/ n = l[1] => Good(r, n)'
      BY <1>1, <1>3 DEF Good
    <3>4. \A n : Has(found[r], n) => n = l[1] \/ \E x \in ToSet(found'[r]) : x[1] = n
      BY <1>1 DEF Has
    <3>5. Gathering(r)'
      BY <1>1, <3>1, <3>2, <3>3, <3>4 DEF Gathering, Has, Kept
    <3>6. Loading(r)'
      BY <1>1, <3>1 DEF Loading
    <3> QED
      BY <2>1, <3>5, <3>6
  <2>2. CASE q # r
    BY <1>1, <1>3, <2>2, OthersHold
  <2> QED
    BY <2>1, <2>2
<1> QED
  BY <1>4, <1>5, <1>6 DEF DInv

LEMMA AddScriptHolds ==
    ASSUME DInv, DevAssumption, NEW r \in Requests, AddScript(r)
    PROVE  DInv'
<1>1. /\ UNCHANGED <<disk, libraries, found, loaded, whole, own, fresh>>
      /\ stage[r] = "adding" /\ found[r] = <<>>
      /\ stage' = [stage EXCEPT ![r] = "loading"] /\ todo' = [todo EXCEPT ![r] = Required]
  BY DEF AddScript, historyVars
<1>2. DevTypes'
  BY <1>1 DEF DInv, DevTypes, DevAssumption
<1>3. stage'[r] = "loading" /\ todo'[r] = Required
  BY <1>1 DEF DInv, DevTypes
<1>4. \A q \in Requests : q # r => stage'[q] = stage[q] /\ todo'[q] = todo[q]
  BY <1>1 DEF DInv, DevTypes
<1>5. Seen'
  BY <1>1, <1>4, SeenKept
<1>6. ASSUME NEW q \in Requests PROVE Gathering(q)' /\ Loading(q)'
  <2>1. CASE q = r
    <3>1. Gathering(r) /\ Loading(r)
      BY DEF DInv
    <3>2. Gathering(r)'
      BY <1>1, <1>3, <3>1, EmptyElements DEF Gathering, Has, Good, Kept
    <3>3. Len(Required) \in Nat
      BY WantedFacts
    <3>4. \A i \in 1..Len(Required) : Len(Required) - Len(Required) + i = i
      BY <3>3
    <3>5. \A i \in 1..Len(Required) - Len(Required) : FALSE
      BY <3>3
    <3>6. Fresh(r)'
      BY <1>3, <3>5 DEF Fresh, Past
    <3>7. Loading(r)'
      <4>1. found'[r] = <<>> /\ stage'[r] = "loading"
        BY <1>1, <1>3
      <4>2. Len(todo'[r]) <= Len(Required)
        BY <1>3, <3>3
      <4>3. \A i \in 1..Len(todo'[r]) : todo'[r][i] = Required[Len(Required) - Len(todo'[r]) + i]
        BY <1>3, <3>4
      <4> QED
        BY <3>6, <4>1, <4>2, <4>3 DEF Loading
    <3> QED
      BY <2>1, <3>2, <3>7
  <2>2. CASE q # r
    BY <1>1, <1>4, <2>2, OthersHold
  <2> QED
    BY <2>1, <2>2
<1> QED
  BY <1>2, <1>5, <1>6 DEF DInv

LEMMA LoadHolds ==
    ASSUME DInv, DevAssumption, NEW r \in Requests, Load(r)
    PROVE  DInv'
<1> DEFINE p == Head(todo[r])
           n == Len(Required)
           k == Len(todo[r])
<1>1. /\ UNCHANGED <<disk, libraries, stage, found, whole, own, fresh>>
      /\ stage[r] = "loading" /\ todo[r] # <<>>
      /\ loaded' = [loaded EXCEPT ![r] = IF libraries[p] = None THEN @
                                         ELSE Append(@, <<p, libraries[p]>>)]
      /\ todo' = [todo EXCEPT ![r] = Tail(@)]
  BY DEF Load, historyVars
<1>2. /\ todo[r] \in Seq(Names) /\ loaded[r] \in Seq(Read)
      /\ libraries \in [Names -> Texts \cup {None}]
      /\ todo \in [Requests -> Seq(Names)] /\ loaded \in [Requests -> Seq(Read)]
      /\ fresh[r] \in [Wanted -> SUBSET Texts]
      /\ Gathering(r) /\ Loading(r)
  BY DEF DInv, DevTypes
<1>3. /\ p \in Names /\ Tail(todo[r]) \in Seq(Names)
      /\ Len(Tail(todo[r])) = k - 1 /\ p = todo[r][1]
      /\ \A i \in 1..k - 1 : Tail(todo[r])[i] = todo[r][i + 1]
  BY <1>1, <1>2, TailElements
<1>4. n \in Nat /\ k \in Nat /\ 1 <= k /\ k <= n
  <2>1. n \in Nat /\ k \in Nat /\ k # 0
    BY <1>1, <1>2, LenProperties, EmptySeq DEF DevAssumption
  <2>2. k <= n
    BY <1>1, <1>2 DEF Loading
  <2> QED
    BY <2>1, <2>2
<1>5. \A i \in 1..k : todo[r][i] = Required[n - k + i]
  BY <1>1, <1>2 DEF Loading
<1>6. todo'[r] = Tail(todo[r])
  BY <1>1, <1>2
<1>7. libraries[p] # None => <<p, libraries[p]>> \in Read
  BY <1>2, <1>3 DEF Read
<1>12. \A i \in 1..n : Required[i] \in Wanted
  BY WantedFacts
<1> HIDE DEF p, n, k
<1>8. /\ loaded'[r] \in Seq(Read) /\ ToSet(loaded[r]) \subseteq ToSet(loaded'[r])
      /\ libraries[p] # None => <<p, libraries[p]>> \in ToSet(loaded'[r])
  <2>1. loaded'[r] = IF libraries[p] = None THEN loaded[r] ELSE Append(loaded[r], <<p, libraries[p]>>)
    BY <1>1, <1>2
  <2>2. CASE libraries[p] = None
    BY <1>2, <2>1, <2>2
  <2>3. CASE libraries[p] # None
    <3>1. loaded'[r] = Append(loaded[r], <<p, libraries[p]>>) /\ <<p, libraries[p]>> \in Read
      BY <1>7, <2>1, <2>3
    <3>2. loaded'[r] \in Seq(Read) /\ ToSet(loaded'[r]) = ToSet(loaded[r]) \cup {<<p, libraries[p]>>}
      <4>1. \A x \in Read : /\ Append(loaded[r], x) \in Seq(Read)
                            /\ ToSet(Append(loaded[r], x)) = ToSet(loaded[r]) \cup {x}
        BY <1>2, AppendElements
      <4> QED
        BY <3>1, <4>1
    <3> QED
      BY <3>2
  <2> QED
    BY <2>2, <2>3
<1>9. DevTypes'
  <2>1. todo' \in [Requests -> Seq(Names)]
    BY <1>1, <1>2, <1>3
  <2>2. \A q \in Requests : loaded'[q] \in Seq(Read)
    BY <1>1, <1>2, <1>8
  <2>3. loaded' \in [Requests -> Seq(Read)]
    BY <1>1, <1>2, <2>2
  <2> QED
    BY <1>1, <2>1, <2>3 DEF DInv, DevTypes
<1>10. Seen'
  BY <1>1, SeenKept
<1>11. ASSUME NEW q \in Requests PROVE Gathering(q)' /\ Loading(q)'
  <2>1. CASE q = r
    <3>1. Gathering(r)'
      BY <1>1, <1>2 DEF Gathering, Has, Good, Kept
    <3>2. \A i \in 1..k - 1 : Tail(todo[r])[i] = Required[n - (k - 1) + i]
      <4>1. \A i \in 1..k - 1 : i + 1 \in 1..k /\ n - k + (i + 1) = n - (k - 1) + i
        BY <1>4
      <4> QED
        BY <1>3, <1>5, <4>1
    <3>3. p = Required[n - k + 1] /\ p \in Wanted
      <4>1. n - k + 1 \in 1..n /\ 1 \in 1..k
        BY <1>4
      <4> QED
        BY <1>3, <1>5, <1>12, <4>1
    <3>4. \A i \in 1..n - (k - 1) : i \in 1..n - k \/ i = n - k + 1
      BY <1>4
    <3>5. ASSUME whole[r], NEW i \in 1..n - (k - 1), NEW x \in Files, Kept(r, x, Required[i])
          PROVE  \E l \in ToSet(loaded'[r]) : l[1] = Required[i] /\ l[2] \in fresh[r][Required[i]]
      <4>1. CASE i \in 1..n - k
        <5>1. \E l \in ToSet(loaded[r]) : l[1] = Required[i] /\ l[2] \in fresh[r][Required[i]]
          BY <1>1, <1>2, <3>5, <4>1 DEF Loading, Fresh, Past, n, k
        <5> QED
          BY <1>8, <5>1
      <4>2. CASE i = n - k + 1
        <5>1. Required[i] = p /\ libraries[p] \in fresh[r][p]
          BY <1>1, <1>2, <3>3, <3>5, <4>2 DEF Gathering, Good
        <5>2. libraries[p] # None
          BY <1>2, <3>3, <5>1 DEF DevAssumption
        <5>3. <<p, libraries[p]>>[1] = p /\ <<p, libraries[p]>>[2] = libraries[p]
          OBVIOUS
        <5> QED
          BY <1>8, <5>1, <5>2, <5>3
      <4> QED
        BY <3>4, <4>1, <4>2
    <3>6. Len(todo'[r]) = k - 1
      BY <1>3, <1>6
    <3>7. Fresh(r)'
      <4>1. \A x \in Files : \A y : Kept(r, x, y)' <=> Kept(r, x, y)
        BY <1>1 DEF Kept
      <4> QED
        BY <1>1, <3>5, <3>6, <4>1 DEF Fresh, Past, n
    <3>8. Loading(r)'
      <4>1. k - 1 <= n
        BY <1>4
      <4>2. found'[r] = <<>> /\ stage'[r] = "loading"
        BY <1>1, <1>2 DEF Loading
      <4>3. Len(todo'[r]) <= Len(Required)
        BY <3>6, <4>1 DEF n
      <4>4. \A i \in 1..Len(todo'[r]) : todo'[r][i] = Required[Len(Required) - Len(todo'[r]) + i]
        BY <1>6, <3>2, <3>6 DEF n
      <4> QED
        BY <3>7, <4>2, <4>3, <4>4 DEF Loading
    <3> QED
      BY <2>1, <3>1, <3>8
  <2>2. CASE q # r
    <3>1. todo'[q] = todo[q] /\ loaded'[q] = loaded[q]
      BY <1>1, <1>2, <2>2
    <3> QED
      BY <1>1, <3>1, OthersHold
  <2> QED
    BY <2>1, <2>2
<1> QED
  BY <1>9, <1>10, <1>11 DEF DInv

LEMMA RespondHolds ==
    ASSUME DInv, DevAssumption, NEW r \in Requests, Respond(r)
    PROVE  DInv'
<1>1. /\ UNCHANGED <<disk, libraries, todo, found>>
      /\ stage[r] = "loading" \/ found[r] = <<>>
      /\ stage' = [stage EXCEPT ![r] = "idle"] /\ loaded' = [loaded EXCEPT ![r] = <<>>]
      /\ whole' = [whole EXCEPT ![r] = FALSE]
      /\ own' = [own EXCEPT ![r] = Never] /\ fresh' = [fresh EXCEPT ![r] = NoTexts]
  BY DEF Respond
<1>2. Never \in [Files -> SUBSET Values] /\ NoTexts \in [Wanted -> SUBSET Texts]
  BY DEF Never, NoTexts, Wanted
<1>3. DevTypes'
  BY <1>1, <1>2 DEF DInv, DevTypes
<1>4. stage'[r] = "idle" /\ loaded'[r] = <<>>
  BY <1>1 DEF DInv, DevTypes
<1>5. \A q \in Requests : q # r =>
         /\ stage'[q] = stage[q] /\ loaded'[q] = loaded[q] /\ whole'[q] = whole[q]
         /\ own'[q] = own[q] /\ fresh'[q] = fresh[q]
  BY <1>1 DEF DInv, DevTypes
<1>6. Seen'
  BY <1>1, <1>4, <1>5 DEF DInv, Seen
<1>7. ASSUME NEW q \in Requests PROVE Gathering(q)' /\ Loading(q)'
  <2>1. CASE q = r
    <3>1. found[r] = <<>>
      BY <1>1 DEF DInv, Loading
    <3> QED
      BY <1>1, <1>4, <2>1, <3>1 DEF Gathering, Loading
  <2>2. CASE q # r
    BY <1>1, <1>5, <2>2, OthersHold
  <2> QED
    BY <2>1, <2>2
<1> QED
  BY <1>3, <1>6, <1>7 DEF DInv

LEMMA RestartHolds == ASSUME DInv, DevAssumption, Restart PROVE DInv'
<1>1. DevTypes'
  <2>1. libraries' \in [Names -> Texts \cup {None}]
    BY StoreTypes DEF Restart, DInv, DevTypes
  <2>2. disk' \in [Files -> Values]
    BY DEF Restart, DInv, DevTypes
  <2> QED
    BY <2>1, <2>2 DEF DevTypes, Restart, Never, NoTexts, Wanted
<1>2. Seen'
  BY DEF Seen, Restart
<1>3. ASSUME NEW r \in Requests PROVE Gathering(r)' /\ Loading(r)'
  BY DEF Restart, Gathering, Loading
<1> QED
  BY <1>1, <1>2, <1>3 DEF DInv

\* Steps that leave the requests, the files and the store as they are.
LEMMA StutterHolds ==
    ASSUME DInv, DevAssumption, UNCHANGED <<disk, libraries, requestVars>>
    PROVE  DInv'
<1>1. UNCHANGED <<disk, libraries, stage, todo, found, loaded, whole, own, fresh, met>>
  BY DEF requestVars, historyVars
<1>2. DevTypes' /\ Seen'
  BY <1>1 DEF DInv, DevTypes, Seen
<1>3. ASSUME NEW r \in Requests PROVE Gathering(r)' /\ Loading(r)'
  BY <1>1, OthersHold
<1> QED
  BY <1>2, <1>3 DEF DInv

LEMMA NextHolds == ASSUME DInv, DevAssumption, [DevNext]_devVars PROVE DInv'
<1>1. CASE \E p \in Files : \E f \in Contents[p] : Edit(p, f)
  BY <1>1, EditHolds DEF Values, DevAssumption
<1>2. ASSUME NEW r \in Requests,
             Receive(r) \/ ReadNext(r) \/ WalkEnds(r) \/ AddLibrary(r) \/ AddScript(r)
               \/ Load(r) \/ Respond(r)
      PROVE  DInv'
  BY <1>2, ReceiveHolds, ReadNextHolds, WalkEndsHolds, AddLibraryHolds, AddScriptHolds,
     LoadHolds, RespondHolds
<1>3. CASE RaceDies
  BY <1>3, StutterHolds DEF RaceDies
<1>4. CASE Restart
  BY <1>4, RestartHolds
<1>5. CASE UNCHANGED devVars
  BY <1>5, StutterHolds DEF devVars
<1> QED
  BY <1>1, <1>2, <1>3, <1>4, <1>5 DEF DevNext

LEMMA InvImpliesFresh == DInv => LibrariesFresh
  BY DEF DInv, Loading, Fresh, LibrariesFresh

\* What the script of `cli devhttp' requires, and some library file bears as its name
\* throughout, is loaded for it as a file of that name was saved since the request or
\* one that overlaps it began -- for any number of requests, files, names they may
\* share and edits, though the store is shared, never emptied and passes over what it
\* lacks.
THEOREM LibrariesFreshHolds ==
    DevAssumption => (DevInit /\ [][DevNext]_devVars => []LibrariesFresh)
<1> SUFFICES ASSUME DevAssumption PROVE DevInit /\ [][DevNext]_devVars => []LibrariesFresh
  OBVIOUS
<1>1. DevInit => DInv
  BY InitHolds, StoreTypes DEF DevInit, Values
<1>2. DInv /\ [DevNext]_devVars => DInv'
  BY NextHolds
<1> QED
  BY <1>1, <1>2, InvImpliesFresh, PTL

-----------------------------------------------------------------------------
(* Files with one name.                                                      *)

\* The last of the libraries of a sequence under the name n has one of the texts T.
LastIs(seq, n, T) ==
    \E i \in DOMAIN seq :
        /\ seq[i][1] = n /\ seq[i][2] \in T
        /\ \A j \in DOMAIN seq : j > i => seq[j][1] # n

\* The file Walk[k] has the name n all through the request, no later file ever.
Winner(r, k, n) ==
    /\ Kept(r, Walk[k], n)
    /\ \A j \in DOMAIN Walk : j > k => ~Ever(r, Walk[j], n)
TextsOf(r, k, n) == Under(n, own[r][Walk[k]])

\* The winner's text on its way from the disk to the script.
Latest(r) ==
    stage[r] # "idle" /\ r \notin met =>
        \A n \in Wanted, k \in DOMAIN Walk : Winner(r, k, n) =>
            /\ stage[r] = "reading" /\ k <= Len(Walk) - Len(todo[r]) =>
                  LastIs(found[r], n, TextsOf(r, k, n))
            /\ stage[r] = "adding" /\ whole[r] =>
                  \/ LastIs(found[r], n, TextsOf(r, k, n))
                  \/ ~Has(found[r], n) /\ libraries[n] \in TextsOf(r, k, n)
            /\ stage[r] = "loading" /\ whole[r] =>
                  /\ libraries[n] \in TextsOf(r, k, n)
                  /\ \A i \in Past(r) : Required[i] = n =>
                        \E l \in ToSet(loaded[r]) : l[1] = n /\ l[2] \in TextsOf(r, k, n)

\* Two requests under way have met.
Met == \A r, q \in Requests : stage[r] # "idle" /\ stage[q] # "idle" /\ r # q => r \in met

LInv == DInv /\ Met /\ \A r \in Requests : Latest(r)

LEMMA LastAppended ==
    ASSUME NEW s \in Seq(Read), NEW e \in Read, NEW n, NEW T, NEW t, t = Append(s, e),
           (e[1] = n /\ e[2] \in T) \/ (e[1] # n /\ LastIs(s, n, T))
    PROVE  LastIs(t, n, T)
<1>1. /\ DOMAIN s = 1..Len(s) /\ DOMAIN t = 1..Len(s) + 1 /\ Len(s) \in Nat
      /\ t[Len(s) + 1] = e /\ \A i \in 1..Len(s) : t[i] = s[i]
  BY AppendProperties
<1>2. \A i \in DOMAIN t : i \in DOMAIN s \/ i = Len(s) + 1
  BY <1>1
<1>3. CASE e[1] = n /\ e[2] \in T
  <2>1. Len(s) + 1 \in DOMAIN t /\ \A j \in DOMAIN t : ~(j > Len(s) + 1)
    BY <1>1
  <2> QED
    BY <1>1, <1>3, <2>1 DEF LastIs
<1>4. CASE e[1] # n /\ LastIs(s, n, T)
  <2>1. PICK i \in DOMAIN s : /\ s[i][1] = n /\ s[i][2] \in T
                              /\ \A j \in DOMAIN s : j > i => s[j][1] # n
    BY <1>4 DEF LastIs
  <2>2. i \in DOMAIN t /\ t[i] = s[i]
    BY <1>1
  <2>3. \A j \in DOMAIN t : j > i => t[j][1] # n
    BY <1>1, <1>2, <1>4, <2>1
  <2> QED
    BY <2>1, <2>2, <2>3 DEF LastIs
<1> QED
  BY <1>3, <1>4

LEMMA LastOfTail ==
    ASSUME NEW s \in Seq(Read), s # <<>>, NEW n, NEW T, LastIs(s, n, T), NEW t, t = Tail(s)
    PROVE  \/ LastIs(t, n, T)
           \/ ~Has(t, n) /\ Head(s)[1] = n /\ Head(s)[2] \in T
<1>1. /\ t \in Seq(Read) /\ Len(t) = Len(s) - 1 /\ Head(s) = s[1]
      /\ \A i \in 1..Len(s) - 1 : t[i] = s[i + 1]
  BY TailElements
<1>2. /\ DOMAIN s = 1..Len(s) /\ DOMAIN t = 1..Len(s) - 1 /\ Len(s) \in Nat
  BY <1>1
<1>3. PICK i \in DOMAIN s : /\ s[i][1] = n /\ s[i][2] \in T
                            /\ \A j \in DOMAIN s : j > i => s[j][1] # n
  BY DEF LastIs
<1>4. \A j \in DOMAIN t : j + 1 \in DOMAIN s /\ t[j] = s[j + 1] /\ j + 1 > 1
  BY <1>1, <1>2
<1>5. CASE i = 1
  <2>1. \A j \in DOMAIN t : t[j][1] # n
    BY <1>3, <1>4, <1>5
  <2>2. ~Has(t, n)
    BY <2>1 DEF Has, ToSet
  <2> QED
    BY <1>1, <1>3, <1>5, <2>2
<1>6. CASE i # 1
  <2>1. i - 1 \in DOMAIN t /\ (i - 1) + 1 = i
    BY <1>2, <1>6
  <2>2. t[i - 1] = s[i]
    BY <1>4, <2>1
  <2>3. \A j \in DOMAIN t : j > i - 1 => j + 1 > i
    BY <1>2
  <2>4. \A j \in DOMAIN t : j > i - 1 => t[j][1] # n
    BY <1>3, <1>4, <2>3
  <2> QED
    BY <1>3, <2>1, <2>2, <2>4 DEF LastIs
<1> QED
  BY <1>5, <1>6

\* A request that a step does not touch, nor the store if the request is alone.
LEMMA OthersLatest ==
    ASSUME LInv, NEW r \in Requests,
           stage'[r] = stage[r], todo'[r] = todo[r], found'[r] = found[r], loaded'[r] = loaded[r],
           whole'[r] = whole[r], own'[r] = own[r],
           stage[r] # "idle" /\ r \notin met' => r \notin met /\ UNCHANGED libraries
    PROVE  Latest(r)'
<1>1. \A n, k : Winner(r, k, n)' <=> Winner(r, k, n)
  BY DEF Winner, Kept, Ever
<1>2. \A n, k : TextsOf(r, k, n)' = TextsOf(r, k, n)
  BY DEF TextsOf
<1>3. \A n : Has(found[r], n)' <=> Has(found[r], n)
  BY DEF Has
<1>4. \A n, T : LastIs(found'[r], n, T) <=> LastIs(found[r], n, T)
  OBVIOUS
<1>5. Past(r)' = Past(r) /\ Latest(r)
  BY DEF Past, LInv
<1>6. CASE stage[r] = "idle" \/ r \in met'
  BY <1>6 DEF Latest
<1>7. CASE stage[r] # "idle" /\ r \notin met'
  <2> SUFFICES ASSUME NEW n \in Wanted, NEW k \in DOMAIN Walk, Winner(r, k, n)'
               PROVE  /\ stage'[r] = "reading" /\ k <= Len(Walk) - Len(todo'[r]) =>
                            LastIs(found'[r], n, TextsOf(r, k, n)')
                      /\ stage'[r] = "adding" /\ whole'[r] =>
                            \/ LastIs(found'[r], n, TextsOf(r, k, n)')
                            \/ ~Has(found[r], n)' /\ libraries'[n] \in TextsOf(r, k, n)'
                      /\ stage'[r] = "loading" /\ whole'[r] =>
                            /\ libraries'[n] \in TextsOf(r, k, n)'
                            /\ \A i \in Past(r)' : Required[i] = n =>
                                  \E l \in ToSet(loaded'[r]) : l[1] = n /\ l[2] \in TextsOf(r, k, n)'
    BY DEF Latest
  <2>1. Winner(r, k, n) /\ TextsOf(r, k, n)' = TextsOf(r, k, n) /\ UNCHANGED libraries /\ r \notin met
    BY <1>1, <1>2, <1>7
  <2> QED
    BY <1>3, <1>4, <1>5, <1>7, <2>1 DEF Latest
<1> QED
  BY <1>6, <1>7

\* Edits that leave a winner the winner only add to its texts.
LEMMA EditLatest ==
    ASSUME LInv, DevAssumption, NEW p \in Files, NEW f \in Values, Edit(p, f), NEW r \in Requests
    PROVE  Latest(r)'
<1>1. UNCHANGED <<libraries, stage, todo, found, loaded, whole, met>>
  BY DEF Edit
<1>2. CASE stage[r] = "idle"
  BY <1>1, <1>2 DEF Latest
<1>3. CASE stage[r] # "idle"
  <2>1. \A x \in Files : own[r][x] \subseteq own'[r][x]
    BY <1>3 DEF LInv, DInv, DevTypes, Edit, Active
  <2> SUFFICES ASSUME r \notin met, NEW n \in Wanted, NEW k \in DOMAIN Walk, Winner(r, k, n)'
               PROVE  /\ stage[r] = "reading" /\ k <= Len(Walk) - Len(todo[r]) =>
                            LastIs(found[r], n, TextsOf(r, k, n)')
                      /\ stage[r] = "adding" /\ whole[r] =>
                            \/ LastIs(found[r], n, TextsOf(r, k, n)')
                            \/ ~Has(found[r], n) /\ libraries[n] \in TextsOf(r, k, n)'
                      /\ stage[r] = "loading" /\ whole[r] =>
                            /\ libraries[n] \in TextsOf(r, k, n)'
                            /\ \A i \in Past(r) : Required[i] = n =>
                                  \E l \in ToSet(loaded[r]) : l[1] = n /\ l[2] \in TextsOf(r, k, n)'
    BY <1>1 DEF Latest, Has, Past
  <2>2. \A j \in DOMAIN Walk : Walk[j] \in Files
    BY WantedFacts
  <2>3. Winner(r, k, n)
    BY <2>1, <2>2 DEF Winner, Kept, Ever
  <2>4. TextsOf(r, k, n) \subseteq TextsOf(r, k, n)'
    <3>1. Under(n, own[r][Walk[k]]) \subseteq Under(n, own'[r][Walk[k]])
      BY <2>1, <2>2, UnderFacts
    <3> QED
      BY <3>1 DEF TextsOf
  <2>5. \A T, U, s : T \subseteq U /\ LastIs(s, n, T) => LastIs(s, n, U)
    BY DEF LastIs
  <2>6. Latest(r)
    BY DEF LInv
  <2>7. LastIs(found[r], n, TextsOf(r, k, n)) => LastIs(found[r], n, TextsOf(r, k, n)')
    BY <2>4, <2>5
  <2>8. stage[r] = "loading" /\ whole[r] =>
            \A i \in Past(r) : Required[i] = n =>
               \E l \in ToSet(loaded[r]) : l[1] = n /\ l[2] \in TextsOf(r, k, n)'
    BY <1>3, <2>3, <2>4, <2>6 DEF Latest
  <2> QED
    BY <1>3, <2>3, <2>4, <2>6, <2>7, <2>8 DEF Latest
<1> QED
  BY <1>2, <1>3

LEMMA ReadLatest ==
    ASSUME LInv, DevAssumption, NEW r \in Requests, ReadNext(r)
    PROVE  Latest(r)'
<1>1. PICK p : Reading(r, p)
  BY ReadFacts DEF LInv
<1> DEFINE m == Len(Walk) - Len(todo[r])
           e == <<disk[p].name, disk[p].text>>
<1>2. /\ UNCHANGED <<libraries, stage, loaded, whole, own, met>>
      /\ stage[r] = "reading" /\ found[r] \in Seq(Read)
      /\ m \in Nat /\ Len(Walk) - Len(todo'[r]) = m + 1
      /\ p = Walk[m + 1] /\ disk[p] \in own[r][p]
      /\ disk[p] # None => e \in Read
      /\ found'[r] = IF disk[p] = None THEN found[r] ELSE Append(found[r], e)
  <2>1. /\ Len(todo[r]) \in 1..Len(Walk) /\ Len(Walk) \in Nat
        /\ Len(todo'[r]) = Len(todo[r]) - 1
    BY <1>1 DEF Reading
  <2>2. m \in Nat /\ Len(Walk) - Len(todo'[r]) = m + 1
    BY <2>1
  <2> QED
    BY <1>1, <2>2 DEF Reading
<1>3. e[1] = disk[p].name /\ e[2] = disk[p].text
  OBVIOUS
<1>7. m + 1 \in DOMAIN Walk /\ DOMAIN Walk \subseteq Nat
  BY <1>1, WantedFacts DEF Reading
<1> HIDE DEF m, e
<1>4. ASSUME r \notin met, NEW n \in Wanted, NEW k \in DOMAIN Walk, Winner(r, k, n), k <= m + 1
      PROVE  LastIs(found'[r], n, TextsOf(r, k, n))
  <2>1. CASE k = m + 1
    <3>1. disk[p] # None /\ disk[p].name = n
      BY <1>2, <1>4, <2>1 DEF Winner, Kept
    <3>2. disk[p].text \in TextsOf(r, k, n)
      BY <1>2, <2>1, <3>1, UnderFacts DEF TextsOf
    <3>3. found'[r] = Append(found[r], e) /\ e \in Read
      BY <1>2, <3>1
    <3> QED
      BY <1>2, <1>3, <3>1, <3>2, <3>3, LastAppended
  <2>2. CASE k # m + 1
    <3>1. k <= m /\ m + 1 > k
      BY <1>2, <1>4, <1>7, <2>2
    <3>2. LastIs(found[r], n, TextsOf(r, k, n))
      BY <1>2, <1>4, <3>1 DEF LInv, Latest, m
    <3>3. CASE disk[p] = None
      BY <1>2, <3>2, <3>3
    <3>4. CASE disk[p] # None
      <4>1. disk[p].name # n
        BY <1>2, <1>4, <1>7, <3>1, <3>4 DEF Winner, Ever
      <4>2. found'[r] = Append(found[r], e) /\ e \in Read
        BY <1>2, <3>4
      <4> QED
        BY <1>2, <1>3, <3>2, <4>1, <4>2, LastAppended
    <3> QED
      BY <3>3, <3>4
  <2> QED
    BY <2>1, <2>2
<1>5. \A n, k : (Winner(r, k, n)' <=> Winner(r, k, n)) /\ TextsOf(r, k, n)' = TextsOf(r, k, n)
  BY <1>2 DEF Winner, Kept, Ever, TextsOf
<1>6. stage'[r] = "reading" /\ (r \notin met' => r \notin met)
  BY <1>2
<1> QED
  BY <1>2, <1>4, <1>5, <1>6 DEF Latest

LEMMA WalkEndsLatest ==
    ASSUME LInv, DevAssumption, NEW r \in Requests, WalkEnds(r)
    PROVE  Latest(r)'
<1>1. /\ UNCHANGED <<libraries, found, loaded, own, met>> /\ stage[r] = "reading"
      /\ stage'[r] = "adding" /\ (whole'[r] => todo[r] = <<>>)
  BY DEF WalkEnds, historyVars, LInv, DInv, DevTypes
<1>2. \A n, k : (Winner(r, k, n)' <=> Winner(r, k, n)) /\ TextsOf(r, k, n)' = TextsOf(r, k, n)
  BY <1>1 DEF Winner, Kept, Ever, TextsOf
<1>3. whole'[r] => \A k \in DOMAIN Walk : k <= Len(Walk) - Len(todo[r])
  <2>1. Len(Walk) \in Nat /\ DOMAIN Walk = 1..Len(Walk)
    BY WantedFacts
  <2> QED
    BY <1>1, <2>1
<1>4. ASSUME r \notin met, whole'[r], NEW n \in Wanted, NEW k \in DOMAIN Walk, Winner(r, k, n)
      PROVE  LastIs(found[r], n, TextsOf(r, k, n))
  BY <1>1, <1>3, <1>4 DEF LInv, Latest
<1> QED
  BY <1>1, <1>2, <1>4 DEF Latest

LEMMA AddLatest ==
    ASSUME LInv, DevAssumption, NEW r \in Requests, AddLibrary(r)
    PROVE  Latest(r)'
<1>1. PICK l : Adding(r, l)
  BY AddFacts DEF LInv
<1>2. /\ UNCHANGED <<stage, todo, loaded, whole, own, met>>
      /\ stage[r] = "adding" /\ found[r] # <<>> /\ found[r] \in Seq(Read)
      /\ ToSet(found[r]) = {l} \cup ToSet(Tail(found[r]))
      /\ found'[r] = Tail(found[r])
      /\ \A n \in Wanted : libraries'[n] = IF n = l[1] THEN l[2] ELSE libraries[n]
  BY <1>1, WantedFacts DEF Adding
<1>3. \A n, k : (Winner(r, k, n)' <=> Winner(r, k, n)) /\ TextsOf(r, k, n)' = TextsOf(r, k, n)
  BY <1>2 DEF Winner, Kept, Ever, TextsOf
<1>4. ASSUME r \notin met, whole[r], NEW n \in Wanted, NEW k \in DOMAIN Walk, Winner(r, k, n)
      PROVE  \/ LastIs(found'[r], n, TextsOf(r, k, n))
             \/ ~Has(found[r], n)' /\ libraries'[n] \in TextsOf(r, k, n)
  <2>1. \/ LastIs(found[r], n, TextsOf(r, k, n))
        \/ ~Has(found[r], n) /\ libraries[n] \in TextsOf(r, k, n)
    BY <1>2, <1>4 DEF LInv, Latest
  <2>2. CASE LastIs(found[r], n, TextsOf(r, k, n))
    <3> DEFINE T == TextsOf(r, k, n)
    <3>1. l = Head(found[r])
      BY <1>1 DEF Adding
    <3>2. LastIs(found'[r], n, T) \/ (~Has(found'[r], n) /\ l[1] = n /\ l[2] \in T)
      BY <1>2, <2>2, <3>1, LastOfTail
    <3> QED
      BY <1>2, <3>2 DEF Has
  <2>3. CASE ~Has(found[r], n) /\ libraries[n] \in TextsOf(r, k, n)
    <3>1. l[1] # n /\ ~Has(found[r], n)'
      BY <1>2, <2>3 DEF Has
    <3> QED
      BY <1>2, <2>3, <3>1
  <2> QED
    BY <2>1, <2>2, <2>3
<1> QED
  BY <1>2, <1>3, <1>4 DEF Latest

LEMMA AddScriptLatest ==
    ASSUME LInv, DevAssumption, NEW r \in Requests, AddScript(r)
    PROVE  Latest(r)'
<1>1. /\ UNCHANGED <<libraries, found, loaded, whole, own, met>>
      /\ stage[r] = "adding" /\ found[r] = <<>>
      /\ stage'[r] = "loading" /\ todo'[r] = Required
  BY DEF AddScript, historyVars, LInv, DInv, DevTypes
<1>2. \A n, k : (Winner(r, k, n)' <=> Winner(r, k, n)) /\ TextsOf(r, k, n)' = TextsOf(r, k, n)
  BY <1>1 DEF Winner, Kept, Ever, TextsOf
<1>3. \A n, T : ~LastIs(found[r], n, T)
  BY <1>1 DEF LastIs
<1>4. \A i \in Past(r)' : FALSE
  BY <1>1, WantedFacts DEF Past
<1>5. ASSUME r \notin met, whole[r], NEW n \in Wanted, NEW k \in DOMAIN Walk, Winner(r, k, n)
      PROVE  libraries[n] \in TextsOf(r, k, n)
  BY <1>1, <1>3, <1>5 DEF LInv, Latest
<1> QED
  BY <1>1, <1>2, <1>4, <1>5 DEF Latest

LEMMA LoadLatest ==
    ASSUME LInv, DevAssumption, NEW r \in Requests, Load(r)
    PROVE  Latest(r)'
<1> DEFINE p == Head(todo[r])
<1>1. /\ UNCHANGED <<libraries, stage, whole, own, met>>
      /\ stage[r] = "loading" /\ todo[r] # <<>>
      /\ loaded'[r] = IF libraries[p] = None THEN loaded[r] ELSE Append(loaded[r], <<p, libraries[p]>>)
      /\ todo'[r] = Tail(todo[r])
  BY DEF Load, historyVars, LInv, DInv, DevTypes
<1>2. /\ todo[r] \in Seq(Names) /\ loaded[r] \in Seq(Read)
      /\ libraries \in [Names -> Texts \cup {None}] /\ own \in [Requests -> [Files -> SUBSET Values]]
      /\ Loading(r)
  BY DEF LInv, DInv, DevTypes
<1>3. /\ p \in Names /\ Len(Tail(todo[r])) = Len(todo[r]) - 1 /\ p = todo[r][1]
  BY <1>1, <1>2, TailElements
<1>4. /\ Len(todo[r]) \in 1..Len(Required) /\ Len(Required) \in Nat
      /\ p = Required[Len(Required) - Len(todo[r]) + 1]
  <2>1. Len(Required) \in Nat /\ Len(todo[r]) \in Nat /\ Len(todo[r]) # 0
    BY <1>1, <1>2, LenProperties, EmptySeq DEF DevAssumption
  <2>2. Len(todo[r]) <= Len(Required) /\ 1 \in 1..Len(todo[r])
    BY <1>1, <1>2, <2>1 DEF Loading
  <2>3. p = Required[Len(Required) - Len(todo[r]) + 1]
    BY <1>1, <1>2, <1>3, <2>2 DEF Loading
  <2>4. Len(todo[r]) \in 1..Len(Required)
    BY <2>1, <2>2
  <2> QED
    BY <2>1, <2>3, <2>4
<1>5. \A i \in Past(r)' : i \in Past(r) \/ Required[i] = p
  <2>1. \A i \in 1..Len(Required) - (Len(todo[r]) - 1) :
           i \in 1..Len(Required) - Len(todo[r]) \/ i = Len(Required) - Len(todo[r]) + 1
    BY <1>4
  <2> QED
    BY <1>1, <1>3, <1>4, <2>1 DEF Past
<1>6. \A n, k : (Winner(r, k, n)' <=> Winner(r, k, n)) /\ TextsOf(r, k, n)' = TextsOf(r, k, n)
  BY <1>1 DEF Winner, Kept, Ever, TextsOf
<1>7. /\ ToSet(loaded[r]) \subseteq ToSet(loaded'[r])
      /\ libraries[p] # None => <<p, libraries[p]>> \in ToSet(loaded'[r])
  <2>1. libraries[p] # None => <<p, libraries[p]>> \in Read
    BY <1>2, <1>3 DEF Read
  <2>2. \A x \in Read : ToSet(Append(loaded[r], x)) = ToSet(loaded[r]) \cup {x}
    BY <1>2, AppendElements
  <2> QED
    BY <1>1, <2>1, <2>2
<1>8. <<p, libraries[p]>>[1] = p /\ <<p, libraries[p]>>[2] = libraries[p]
  OBVIOUS
<1> HIDE DEF p
<1>9. ASSUME r \notin met, whole[r], NEW n \in Wanted, NEW k \in DOMAIN Walk, Winner(r, k, n)
      PROVE  /\ libraries[n] \in TextsOf(r, k, n)
             /\ \A i \in Past(r)' : Required[i] = n =>
                   \E l \in ToSet(loaded'[r]) : l[1] = n /\ l[2] \in TextsOf(r, k, n)
  <2>1. /\ libraries[n] \in TextsOf(r, k, n)
        /\ \A i \in Past(r) : Required[i] = n =>
              \E l \in ToSet(loaded[r]) : l[1] = n /\ l[2] \in TextsOf(r, k, n)
    BY <1>1, <1>9 DEF LInv, Latest
  <2>2. libraries[n] # None
    <3>1. own[r][Walk[k]] \subseteq Values
      BY <1>2, WantedFacts
    <3>2. TextsOf(r, k, n) \subseteq Texts
      BY <3>1, UnderFacts DEF TextsOf
    <3> QED
      BY <2>1, <3>2 DEF DevAssumption
  <2>3. ASSUME NEW i \in Past(r)', Required[i] = n
        PROVE  \E l \in ToSet(loaded'[r]) : l[1] = n /\ l[2] \in TextsOf(r, k, n)
    <3>1. CASE i \in Past(r)
      BY <1>7, <2>1, <2>3, <3>1
    <3>2. CASE Required[i] = p
      BY <1>7, <1>8, <2>1, <2>2, <2>3, <3>2
    <3> QED
      BY <1>5, <3>1, <3>2
  <2> QED
    BY <2>1, <2>3
<1> QED
  BY <1>1, <1>6, <1>9 DEF Latest

\* Who is under way with another has met it.
LEMMA MetHolds ==
    ASSUME LInv, DevAssumption, [DevNext]_devVars
    PROVE  Met'
<1>1. ASSUME NEW r \in Requests, Receive(r) PROVE Met'
  <2>1. /\ \A q \in Requests : q # r => stage'[q] = stage[q]
        /\ met' = IF Active = {} THEN met ELSE met \cup Active \cup {r}
    BY <1>1 DEF Receive, LInv, DInv, DevTypes
  <2> SUFFICES ASSUME NEW x \in Requests, NEW q \in Requests, x # q,
                      stage'[x] # "idle", stage'[q] # "idle"
               PROVE  x \in met'
    BY DEF Met
  <2>2. x # r => x \in Active
    BY <2>1 DEF Active
  <2>3. q # r => q \in Active
    BY <2>1 DEF Active
  <2> QED
    BY <2>1, <2>2, <2>3
<1>2. ASSUME NEW r \in Requests, Respond(r) PROVE Met'
  BY <1>2 DEF Respond, LInv, DInv, DevTypes, Met
<1>3. CASE Restart
  BY <1>3 DEF Restart, Met
<1>4. ASSUME UNCHANGED met, \A q \in Requests : stage'[q] = "idle" <=> stage[q] = "idle"
      PROVE  Met'
  BY <1>4 DEF LInv, Met
<1>5. ASSUME NEW r \in Requests,
             ReadNext(r) \/ WalkEnds(r) \/ AddLibrary(r) \/ AddScript(r) \/ Load(r)
      PROVE  Met'
  BY <1>4, <1>5 DEF ReadNext, WalkEnds, AddLibrary, AddScript, Load, historyVars, LInv, DInv, DevTypes
<1>6. CASE RaceDies \/ UNCHANGED devVars \/ \E p \in Files : \E f \in Contents[p] : Edit(p, f)
  BY <1>4, <1>6 DEF RaceDies, devVars, requestVars, historyVars, Edit
<1> QED
  BY <1>1, <1>2, <1>3, <1>5, <1>6 DEF DevNext

LEMMA LatestHolds ==
    ASSUME LInv, DevAssumption, [DevNext]_devVars, NEW r \in Requests
    PROVE  Latest(r)'
<1>1. CASE \E p \in Files : \E f \in Contents[p] : Edit(p, f)
  BY <1>1, EditLatest DEF Values, DevAssumption
<1>2. CASE ReadNext(r) \/ WalkEnds(r) \/ AddLibrary(r) \/ AddScript(r) \/ Load(r)
  BY <1>2, ReadLatest, WalkEndsLatest, AddLatest, AddScriptLatest, LoadLatest
<1>3. CASE Receive(r)
  <2>1. stage'[r] = "reading" /\ todo'[r] = Walk
    BY <1>3 DEF Receive, LInv, DInv, DevTypes
  <2>2. \A k \in DOMAIN Walk : ~(k <= Len(Walk) - Len(todo'[r]))
    BY <2>1, WantedFacts
  <2> QED
    BY <2>1, <2>2 DEF Latest
<1>4. CASE Respond(r) \/ Restart
  <2>1. stage'[r] = "idle"
    BY <1>4 DEF Respond, Restart, LInv, DInv, DevTypes
  <2> QED
    BY <2>1 DEF Latest
<1>5. ASSUME NEW q \in Requests, q # r,
             ReadNext(q) \/ WalkEnds(q) \/ AddScript(q) \/ Load(q) \/ AddLibrary(q)
      PROVE  Latest(r)'
  <2>1. /\ stage'[r] = stage[r] /\ todo'[r] = todo[r] /\ found'[r] = found[r]
        /\ loaded'[r] = loaded[r] /\ whole'[r] = whole[r] /\ own'[r] = own[r] /\ UNCHANGED met
        /\ stage[q] # "idle"
    BY <1>5 DEF ReadNext, WalkEnds, AddLibrary, AddScript, Load, historyVars, LInv, DInv, DevTypes
  <2>2. stage[r] # "idle" => r \in met'
    BY <1>5, <2>1 DEF LInv, Met
  <2> QED
    BY <2>1, <2>2, OthersLatest
<1>6. ASSUME NEW q \in Requests, q # r, Receive(q) \/ Respond(q) PROVE Latest(r)'
  <2>1. /\ stage'[r] = stage[r] /\ todo'[r] = todo[r] /\ found'[r] = found[r]
        /\ loaded'[r] = loaded[r] /\ whole'[r] = whole[r] /\ own'[r] = own[r] /\ UNCHANGED libraries
    BY <1>6 DEF Receive, Respond, LInv, DInv, DevTypes
  <2>2. r \notin met' => r \notin met
    BY <1>6 DEF Receive, Respond
  <2> QED
    BY <2>1, <2>2, OthersLatest
<1>7. CASE RaceDies \/ UNCHANGED devVars
  <2>1. UNCHANGED <<libraries, stage, todo, found, loaded, whole, own, met>>
    BY <1>7 DEF RaceDies, devVars, requestVars, historyVars
  <2> QED
    BY <2>1, OthersLatest
<1> QED
  BY <1>1, <1>2, <1>3, <1>4, <1>5, <1>6, <1>7 DEF DevNext

LEMMA LastNext == ASSUME LInv, DevAssumption, [DevNext]_devVars PROVE LInv'
  BY NextHolds, MetHolds, LatestHolds DEF LInv

LEMMA LastInit == ASSUME DInv, AllIdle PROVE LInv
  BY DEF LInv, Met, Latest, AllIdle

LEMMA InvImpliesLast == ASSUME LInv, DevAssumption PROVE LastOfWalk
<1> SUFFICES ASSUME NEW r \in Requests \ met, stage[r] = "loading", whole[r], NEW i \in Past(r),
                    NEW k \in DOMAIN Walk, Winner(r, k, Required[i])
             PROVE  \E l \in ToSet(loaded[r]) :
                       l[1] = Required[i] /\ l[2] \in Under(Required[i], own[r][Walk[k]])
  BY DEF LastOfWalk, Winner
<1>1. Required[i] \in Wanted
  <2>1. Len(todo[r]) \in Nat
    BY LenProperties DEF LInv, DInv, DevTypes
  <2> QED
    BY <2>1, WantedFacts DEF Past
<1> QED
  BY <1>1 DEF LInv, Latest, TextsOf

\* Of the library files that bear a required name, the last one of the walk is what the
\* script runs with, for a request that meets no other -- for any number of files, names
\* they share and edits, and whatever earlier requests left in the store.
THEOREM LastOfWalkHolds ==
    DevAssumption => (DevInit /\ [][DevNext]_devVars => []LastOfWalk)
<1> SUFFICES ASSUME DevAssumption PROVE DevInit /\ [][DevNext]_devVars => []LastOfWalk
  OBVIOUS
<1>1. DevInit => LInv
  BY InitHolds, StoreTypes, LastInit DEF DevInit, Values
<1>2. LInv /\ [DevNext]_devVars => LInv'
  BY LastNext
<1>3. LInv => LastOfWalk
  BY InvImpliesLast
<1> QED
  BY <1>1, <1>2, <1>3, PTL
=============================================================================
