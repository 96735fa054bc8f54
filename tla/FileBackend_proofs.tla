--------------------------- MODULE FileBackend_proofs ---------------------------
(***************************************************************************)
(* Proofs about FileBackend, for any directories and any scripts.          *)
(***************************************************************************)
EXTENDS FileBackend, SequenceTheorems, FiniteSetTheorems, TLAPS

-----------------------------------------------------------------------------
(* Induction and recursion, of which the library's theorems take an operator *)
(* where these take a set or a function.                                     *)

\* A set of naturals that is not empty has a least member.
LEMMA LeastNumber ==
    ASSUME NEW T, T \subseteq Nat, T # {}
    PROVE  \E n \in T : \A m \in 0..n - 1 : m \notin T
<1> DEFINE B == {0..n : n \in T}
<1>1. IsWellFoundedOn(StrictSubsetOrdering(Nat), FiniteSubsetsOf(Nat))
  BY FS_StrictSubsetOrderingWellFounded
<1>2. B \subseteq FiniteSubsetsOf(Nat) /\ B # {}
  <2>1. ASSUME NEW n \in T PROVE 0..n \in FiniteSubsetsOf(Nat)
    <3>1. n \in Nat /\ 0 \in Int /\ n \in Int /\ 0..n \in SUBSET Nat
      OBVIOUS
    <3>2. IsFiniteSet(0..n)
      BY <3>1, FS_Interval, Zenon
    <3> QED
      BY <3>1, <3>2, Zenon DEF FiniteSubsetsOf
  <2> QED
    BY <2>1
<1>3. PICK x \in B : \A y \in B : ~ (<<y, x>> \in StrictSubsetOrdering(Nat))
  <2> HIDE DEF B
  <2> QED
    BY <1>1, <1>2, WFMin, Zenon
<1>4. PICK n \in T : x = 0..n
  OBVIOUS
<1>5. ASSUME NEW m \in 0..n - 1, m \in T PROVE FALSE
  <2>1. 0..m \in B /\ 0..m \subseteq Nat /\ x \subseteq Nat
    BY <1>4, <1>5
  <2>2. 0..m \subseteq x
    BY <1>4
  <2>3. n \in x /\ n \notin 0..m
    BY <1>4, <1>5
  <2> QED
    BY <1>3, <2>1, <2>2, <2>3 DEF StrictSubsetOrdering
<1> QED
  BY <1>5

\* Induction, for a set.
LEMMA NatSetInduction ==
    ASSUME NEW S, 0 \in S, \A n \in Nat : n \in S => n + 1 \in S
    PROVE  Nat \subseteq S
<1> SUFFICES ASSUME Nat \ S # {} PROVE FALSE
  OBVIOUS
<1>1. PICK n \in Nat \ S : \A m \in 0..n - 1 : m \notin Nat \ S
  BY LeastNumber
<1>2. n # 0 /\ n - 1 \in Nat /\ n - 1 \in 0..n - 1
  BY <1>1
<1> QED
  BY <1>1, <1>2

\* f begins with base, and g makes the next value of each.
Builds(f, n, base, g) == f[0] = base /\ \A i \in 1..n : f[i] = g[i][f[i - 1]]

\* A function may be defined by recursion on an interval.
LEMMA Recursion ==
    ASSUME NEW n \in Nat, NEW D, NEW base \in D, NEW g \in [1..n -> [D -> D]]
    PROVE  \E f \in [0..n -> D] : Builds(f, n, base, g)
<1> USE DEF Builds
<1> DEFINE Until(f, k) == Builds(f, k, base, g)
           S == {k \in Nat : k <= n => \E f \in [0..k -> D] : Until(f, k)}
<1>1. 0 \in S
  <2>1. [i \in 0..0 |-> base] \in [0..0 -> D]
    OBVIOUS
  <2>2. Until([i \in 0..0 |-> base], 0)
    OBVIOUS
  <2> QED
    BY <2>1, <2>2
<1>2. ASSUME NEW k \in Nat, k \in S PROVE k + 1 \in S
  <2> SUFFICES ASSUME k + 1 <= n PROVE \E f \in [0..k + 1 -> D] : Until(f, k + 1)
    OBVIOUS
  <2>1. PICK f \in [0..k -> D] : Until(f, k)
    BY <1>2
  <2> DEFINE h == [i \in 0..k + 1 |-> IF i = k + 1 THEN g[k + 1][f[k]] ELSE f[i]]
  <2>2. f[k] \in D /\ k + 1 \in 1..n
    OBVIOUS
  <2>3. g[k + 1][f[k]] \in D
    BY <2>2
  <2>4. h \in [0..k + 1 -> D]
    BY <2>3
  <2>5. \A i \in 0..k : h[i] = f[i]
    OBVIOUS
  <2>6. h[k + 1] = g[k + 1][h[k]]
    <3>1. h[k] = f[k]
      BY <2>5
    <3>2. h[k + 1] = g[k + 1][f[k]]
      OBVIOUS
    <3> QED
      BY <3>1, <3>2
  <2>7. \A i \in 1..k : h[i] = g[i][h[i - 1]]
    <3> SUFFICES ASSUME NEW i \in 1..k PROVE h[i] = g[i][h[i - 1]]
      OBVIOUS
    <3>1. i \in 0..k /\ i - 1 \in 0..k
      OBVIOUS
    <3>2. h[i] = f[i] /\ h[i - 1] = f[i - 1]
      BY <2>5, <3>1
    <3> HIDE DEF h
    <3>3. f[i] = g[i][f[i - 1]]
      BY <2>1
    <3> QED
      BY <3>2, <3>3
  <2>8. Until(h, k + 1)
    <3> HIDE DEF h
    <3>1. \A i \in 1..k + 1 : i \in 1..k \/ i = k + 1
      OBVIOUS
    <3>2. h[0] = base
      BY <2>1, <2>5
    <3>3. (k + 1) - 1 = k
      OBVIOUS
    <3> QED
      BY <2>6, <2>7, <3>1, <3>2, <3>3
  <2> QED
    BY <2>4, <2>8
<1> HIDE DEF S
<1>3. n \in S
  BY <1>1, <1>2, NatSetInduction
<1> QED
  BY <1>3 DEF S

-----------------------------------------------------------------------------
(* What lines mean.                                                          *)

\* The choice of lines made so far, line by line.
Choosing(f, lines, S) ==
    /\ f[0] = <<>>
    /\ \A i \in 1..Len(lines) :
          f[i] = IF i \in S THEN Append(f[i - 1], lines[i]) ELSE f[i - 1]

\* What is chosen of some lines can be made line by line.
LEMMA ChosenSteps ==
    ASSUME NEW L, NEW lines \in Seq(L), NEW S
    PROVE  \E f \in [0..Len(lines) -> Seq(L)] : Choosing(f, lines, S)
<1> DEFINE n == Len(lines)
           D == Seq(L)
           g == [i \in 1..n |-> [s \in D |-> IF i \in S THEN Append(s, lines[i]) ELSE s]]
<1>1. n \in Nat /\ \A i \in 1..n : lines[i] \in L
  OBVIOUS
<1>2. g \in [1..n -> [D -> D]]
  BY <1>1
<1>3. <<>> \in D
  OBVIOUS
<1> HIDE DEF g, n, D
<1>4. PICK f \in [0..n -> D] : Builds(f, n, <<>>, g)
  BY <1>1, <1>2, <1>3, Recursion
<1>6. ASSUME NEW i \in 1..n
      PROVE  f[i] = IF i \in S THEN Append(f[i - 1], lines[i]) ELSE f[i - 1]
  <2>1. i - 1 \in 0..n
    BY <1>1
  <2>2. f[i - 1] \in D
    BY <2>1
  <2> QED
    BY <1>4, <2>2 DEF g, Builds
<1>7. Choosing(f, lines, S)
  BY <1>4, <1>6 DEF Choosing, n, Builds
<1> QED
  BY <1>7 DEF n, D

\* There is only one way to do so.
LEMMA ChosenIs ==
    ASSUME NEW L, NEW lines \in Seq(L), NEW S,
           NEW f \in [0..Len(lines) -> Seq(L)], Choosing(f, lines, S)
    PROVE  Chosen(lines, S) = f[Len(lines)]
<1> DEFINE n == Len(lines)
           Rec(h) == [i \in 0..n |-> IF i = 0 THEN <<>>
                                     ELSE IF i \in S THEN Append(h[i - 1], lines[i])
                                     ELSE h[i - 1]]
           c == CHOOSE h : h = Rec(h)
<1>1. n \in Nat
  OBVIOUS
<1>2. f = Rec(f)
  <2>1. f = [i \in 0..n |-> f[i]]
    OBVIOUS
  <2>2. ASSUME NEW i \in 0..n
        PROVE  f[i] = IF i = 0 THEN <<>>
                      ELSE IF i \in S THEN Append(f[i - 1], lines[i]) ELSE f[i - 1]
    <3>1. i = 0 \/ i \in 1..Len(lines)
      BY <1>1
    <3> QED
      BY <3>1 DEF Choosing
  <2> QED
    BY <2>1, <2>2
<1>3. c = Rec(c)
  BY <1>2
<1>4. Chosen(lines, S) = c[n]
  BY DEF Chosen
<1> HIDE DEF n, c
<1>5. \A i \in 0..n : c[i] = IF i = 0 THEN <<>>
                             ELSE IF i \in S THEN Append(c[i - 1], lines[i]) ELSE c[i - 1]
  BY <1>3
<1> DEFINE T == {i \in Nat : i <= n => c[i] = f[i]}
<1>6. 0 \in T
  BY <1>1, <1>5 DEF Choosing
<1>7. ASSUME NEW i \in Nat, i \in T PROVE i + 1 \in T
  <2> SUFFICES ASSUME i + 1 <= n PROVE c[i + 1] = f[i + 1]
    OBVIOUS
  <2>1. c[i] = f[i] /\ i + 1 \in 1..n /\ i + 1 \in 0..n /\ (i + 1) - 1 = i /\ i + 1 # 0
    BY <1>1, <1>7
  <2>2. f[i + 1] = IF i + 1 \in S THEN Append(f[i], lines[i + 1]) ELSE f[i]
    BY <2>1 DEF Choosing, n
  <2> QED
    BY <1>5, <2>1, <2>2
<1> HIDE DEF T
<1>8. n \in T
  BY <1>1, <1>6, <1>7, NatSetInduction
<1> QED
  BY <1>4, <1>8, <1>1 DEF T, n

\* One line more is chosen, or not.
LEMMA ChosenAppend ==
    ASSUME NEW L, NEW lines \in Seq(L), NEW x \in L, NEW S, NEW T,
           \A i \in 1..Len(lines) : i \in S <=> i \in T
    PROVE  Chosen(Append(lines, x), T)
             = IF Len(lines) + 1 \in T THEN Append(Chosen(lines, S), x) ELSE Chosen(lines, S)
<1> DEFINE n == Len(lines)
           more == Append(lines, x)
<1>1. PICK f \in [0..n -> Seq(L)] : Choosing(f, lines, S)
  BY ChosenSteps
<1>2. Chosen(lines, S) = f[n]
  BY <1>1, ChosenIs
<1>3. /\ n \in Nat /\ more \in Seq(L) /\ Len(more) = n + 1 /\ more[n + 1] = x
      /\ \A i \in 1..n : more[i] = lines[i]
  OBVIOUS
<1> DEFINE last == IF n + 1 \in T THEN Append(f[n], x) ELSE f[n]
           h == [i \in 0..n + 1 |-> IF i = n + 1 THEN last ELSE f[i]]
<1> HIDE DEF n, more
<1>4. f[n] \in Seq(L)
  BY <1>3
<1>5. last \in Seq(L)
  BY <1>4
<1> HIDE DEF last
<1>6. h \in [0..n + 1 -> Seq(L)] /\ h[n + 1] = last /\ \A i \in 0..n : h[i] = f[i]
  BY <1>3, <1>5
<1> HIDE DEF h
<1>7. Choosing(h, more, T)
  <2>1. h[0] = <<>>
    BY <1>1, <1>3, <1>6 DEF Choosing
  <2>2. ASSUME NEW i \in 1..n PROVE h[i] = IF i \in T THEN Append(h[i - 1], more[i]) ELSE h[i - 1]
    <3>1. i \in 0..n /\ i - 1 \in 0..n
      BY <1>3
    <3>2. f[i] = IF i \in S THEN Append(f[i - 1], lines[i]) ELSE f[i - 1]
      BY <1>1 DEF Choosing, n
    <3>3. i \in S <=> i \in T
      BY DEF n
    <3> QED
      BY <1>3, <1>6, <3>1, <3>2, <3>3
  <2>3. h[n + 1] = IF n + 1 \in T THEN Append(h[n], more[n + 1]) ELSE h[n]
    BY <1>3, <1>6 DEF last
  <2>4. \A i \in 1..n + 1 : i \in 1..n \/ (i = n + 1 /\ i - 1 = n)
    <3>1. n \in Nat
      BY <1>3
    <3> QED
      BY <3>1
  <2> QED
    BY <1>3, <2>1, <2>2, <2>3, <2>4 DEF Choosing
<1>8. Chosen(more, T) = h[n + 1]
  <2>1. more \in Seq(L) /\ h \in [0..Len(more) -> Seq(L)]
    BY <1>3, <1>6
  <2>2. Chosen(more, T) = h[Len(more)]
    BY <2>1, <1>7, ChosenIs, Zenon
  <2> QED
    BY <2>2, <1>3
<1> QED
  BY <1>2, <1>6, <1>8 DEF last, n, more

\* Of no lines none is chosen.
LEMMA ChosenEmpty == \A S : Chosen(<<>>, S) = <<>>
<1> SUFFICES ASSUME NEW S PROVE Chosen(<<>>, S) = <<>>
  OBVIOUS
<1>1. <<>> \in Seq({}) /\ Len(<<>>) = 0
  OBVIOUS
<1>2. PICK f \in [0..0 -> Seq({})] : Choosing(f, <<>>, S)
  BY <1>1, ChosenSteps
<1> QED
  BY <1>1, <1>2, ChosenIs DEF Choosing

\* What is chosen of a sequence is one.
LEMMA ChosenType ==
    ASSUME NEW L, NEW lines \in Seq(L), NEW S
    PROVE  Chosen(lines, S) \in Seq(L)
<1>1. PICK f \in [0..Len(lines) -> Seq(L)] : Choosing(f, lines, S)
  BY ChosenSteps
<1>2. Len(lines) \in 0..Len(lines)
  OBVIOUS
<1> QED
  BY <1>1, <1>2, ChosenIs

\* The values of headers are a sequence.
LEMMA ValuesType ==
    ASSUME NEW L, NEW lines \in Seq(L), NEW key
    PROVE  Values(lines, key) \in Seq({l.value : l \in L})
<1> DEFINE s == Chosen(lines, {n \in DOMAIN lines : lines[n].key = key})
<1>1. s \in Seq(L)
  BY ChosenType
<1>2. Values(lines, key) = [i \in DOMAIN s |-> s[i].value]
  BY DEF Values
<1> HIDE DEF s
<1>3. Len(s) \in Nat /\ DOMAIN s = 1..Len(s) /\ \A i \in 1..Len(s) : s[i] \in L
  BY <1>1
<1> QED
  BY <1>2, <1>3, IsASeq

\* The values of the headers of one line more.
LEMMA ValuesAppend ==
    ASSUME NEW L, NEW lines \in Seq(L), NEW x \in L, NEW key
    PROVE  Values(Append(lines, x), key)
             = IF x.key = key THEN Append(Values(lines, key), x.value) ELSE Values(lines, key)
<1> DEFINE more == Append(lines, x)
           S == {n \in DOMAIN lines : lines[n].key = key}
           T == {n \in DOMAIN more : more[n].key = key}
           headers == Chosen(lines, S)
           values(s) == [i \in DOMAIN s |-> s[i].value]
<1>1. /\ Len(lines) \in Nat /\ DOMAIN lines = 1..Len(lines)
      /\ more[Len(lines) + 1] = x /\ \A i \in 1..Len(lines) : more[i] = lines[i]
      /\ DOMAIN more = 1..Len(lines) + 1
  OBVIOUS
<1>2. \A i \in 1..Len(lines) : i \in S <=> i \in T
  BY <1>1
<1>3. Len(lines) + 1 \in T <=> x.key = key
  BY <1>1
<1>4. headers \in Seq(L)
  BY ChosenType
<1>5. Values(lines, key) = values(headers)
  BY DEF Values
<1>6. Values(more, key) = values(Chosen(more, T))
  BY DEF Values
<1>7. ASSUME NEW s \in Seq(L) PROVE values(s) \in Seq({l.value : l \in L})
  <2>1. Len(s) \in Nat /\ DOMAIN s = 1..Len(s) /\ \A i \in 1..Len(s) : s[i] \in L
    BY <1>7
  <2> QED
    BY <2>1, IsASeq
<1>8. ASSUME NEW s \in Seq(L) PROVE values(Append(s, x)) = Append(values(s), x.value)
  <2> DEFINE n == Len(s)
  <2>1. n \in Nat /\ DOMAIN s = 1..n /\ DOMAIN Append(s, x) = 1..n + 1
        /\ Append(s, x)[n + 1] = x /\ \A i \in 1..n : Append(s, x)[i] = s[i]
    BY <1>8
  <2>2. values(s) \in Seq({l.value : l \in L}) /\ DOMAIN values(s) = 1..n /\ Len(values(s)) = n
    BY <1>7, <2>1
  <2>3. /\ DOMAIN Append(values(s), x.value) = 1..n + 1
        /\ Append(values(s), x.value)[n + 1] = x.value
        /\ \A i \in 1..n : Append(values(s), x.value)[i] = values(s)[i]
        /\ Append(values(s), x.value) \in Seq({l.value : l \in L})
    BY <2>1, <2>2, AppendProperties
  <2>4. \A i \in 1..n + 1 : i \in 1..n \/ i = n + 1
    BY <2>1
  <2>5. \A i \in 1..n + 1 : Append(s, x)[i].value = Append(values(s), x.value)[i]
    BY <2>1, <2>3, <2>4
  <2>6. Append(values(s), x.value) = [i \in 1..n + 1 |-> Append(values(s), x.value)[i]]
    BY <2>3
  <2> QED
    BY <2>1, <2>5, <2>6
<1> HIDE DEF S, T, more, values, headers
<1>9. Chosen(more, T) = IF Len(lines) + 1 \in T THEN Append(headers, x) ELSE headers
  BY <1>2, ChosenAppend DEF more, headers
<1> QED
  BY <1>3, <1>4, <1>5, <1>6, <1>7, <1>8, <1>9 DEF more

\* The last header of one line more.
LEMMA HeaderAppend ==
    ASSUME NEW L, NEW lines \in Seq(L), NEW x \in L, NEW key
    PROVE  Header(Append(lines, x), key) = IF x.key = key THEN x.value ELSE Header(lines, key)
<1> DEFINE v == Values(lines, key)
<1>1. v \in Seq({l.value : l \in L}) /\ x.value \in {l.value : l \in L}
  <2>1. v \in Seq({l.value : l \in L})
    BY ValuesType
  <2> QED
    BY <2>1
<1>2. Values(Append(lines, x), key) = IF x.key = key THEN Append(v, x.value) ELSE v
  BY ValuesAppend
<1> HIDE DEF v
<1>3. /\ Append(v, x.value) # <<>> /\ Len(Append(v, x.value)) = Len(v) + 1
      /\ Append(v, x.value)[Len(v) + 1] = x.value
  BY <1>1
<1> QED
  BY <1>2, <1>3 DEF Header, v

\* The content of one line more.
LEMMA ContentAppend ==
    ASSUME NEW L, NEW lines \in Seq(L), NEW x \in L
    PROVE  Content(Append(lines, x))
             = IF x.key \notin Known THEN Append(Content(lines), x) ELSE Content(lines)
<1> DEFINE more == Append(lines, x)
           S == {n \in DOMAIN lines : lines[n].key \notin Known}
           T == {n \in DOMAIN more : more[n].key \notin Known}
<1>1. /\ Len(lines) \in Nat /\ DOMAIN lines = 1..Len(lines)
      /\ more[Len(lines) + 1] = x /\ \A i \in 1..Len(lines) : more[i] = lines[i]
      /\ DOMAIN more = 1..Len(lines) + 1
  OBVIOUS
<1>2. \A i \in 1..Len(lines) : i \in S <=> i \in T
  BY <1>1
<1>3. Len(lines) + 1 \in T <=> x.key \notin Known
  BY <1>1
<1>4. Content(lines) = Chosen(lines, S) /\ Content(more) = Chosen(more, T)
  BY DEF Content
<1> HIDE DEF S, T, more
<1> QED
  BY <1>2, <1>3, <1>4, ChosenAppend DEF more

\* Reading a line makes the script of the lines read and this one.
LEMMA ScriptAppend ==
    ASSUME NEW L, NEW lines \in Seq(L), NEW x \in L
    PROVE  Script(Append(lines, x)) = ReadLine(Script(lines), x)
<1>1. \A key : Header(Append(lines, x), key) = IF x.key = key THEN x.value ELSE Header(lines, key)
  BY HeaderAppend
<1>2. Values(Append(lines, x), "require")
        = IF x.key = "require" THEN Append(Values(lines, "require"), x.value)
          ELSE Values(lines, "require")
  BY ValuesAppend
<1>3. Content(Append(lines, x))
        = IF x.key \notin Known THEN Append(Content(lines), x) ELSE Content(lines)
  BY ContentAppend
<1>4. CASE x.key = "subject"
  BY <1>1, <1>2, <1>3, <1>4 DEF Script, ReadLine, Known
<1>5. CASE x.key = "name"
  BY <1>1, <1>2, <1>3, <1>5 DEF Script, ReadLine, Known
<1>6. CASE x.key = "require"
  BY <1>1, <1>2, <1>3, <1>6 DEF Script, ReadLine, Known
<1>7. CASE x.key = "html"
  BY <1>1, <1>2, <1>3, <1>7 DEF Script, ReadLine, Known
<1>8. CASE x.key = "executor"
  BY <1>1, <1>2, <1>3, <1>8 DEF Script, ReadLine, Known
<1>9. CASE x.key \notin Known
  BY <1>1, <1>2, <1>3, <1>9 DEF Script, ReadLine, Known
<1> QED
  BY <1>4, <1>5, <1>6, <1>7, <1>8, <1>9 DEF Known

\* No lines are a new script.
LEMMA ScriptEmpty == Script(<<>>) = NewScript
<1>1. \A key : Values(<<>>, key) = <<>>
  BY ChosenEmpty DEF Values
<1>2. Content(<<>>) = <<>>
  BY ChosenEmpty DEF Content
<1> QED
  BY <1>1, <1>2 DEF Script, Header, NewScript

\* What the scanner got to is what it has read when it stops.
LEMMA SaidIs ==
    ASSUME NEW L, NEW f, f.lines \in Seq(L), NEW n \in 0..Len(f.lines),
           n = Len(f.lines) \/ f.lines[n + 1].long,
           \A k \in 0..n - 1 : ~f.lines[k + 1].long
    PROVE  Said(f) = SubSeq(f.lines, 1, n)
<1> DEFINE len == Len(f.lines)
           Ends(k) == k = len \/ f.lines[k + 1].long
           First(k) == Ends(k) /\ \A i \in 0..k - 1 : ~Ends(i)
<1>1. len \in Nat
  OBVIOUS
<1>2. First(n)
  BY <1>1
<1>3. ASSUME NEW k \in 0..len, First(k) PROVE k = n
  <2>1. ~(k < n)
    <3> SUFFICES ASSUME k < n PROVE FALSE
      OBVIOUS
    <3>1. k \in 0..n - 1 /\ k # len
      BY <1>1
    <3> QED
      BY <1>3, <3>1
  <2>2. ~(n < k)
    <3> SUFFICES ASSUME n < k PROVE FALSE
      OBVIOUS
    <3>1. n \in 0..k - 1
      BY <1>1
    <3> QED
      BY <1>3, <1>2, <3>1
  <2> QED
    BY <1>1, <2>1, <2>2
<1>4. (CHOOSE k \in 0..len : First(k)) = n
  BY <1>2, <1>3
<1> QED
  BY <1>4 DEF Said

\* One line more of those read.
LEMMA ReadOneMore ==
    ASSUME NEW L, NEW lines \in Seq(L), NEW n \in 0..Len(lines) - 1
    PROVE  /\ SubSeq(lines, 1, n) \in Seq(L) /\ lines[n + 1] \in L
           /\ SubSeq(lines, 1, n + 1) = Append(SubSeq(lines, 1, n), lines[n + 1])
<1> DEFINE some == SubSeq(lines, 1, n)
           more == SubSeq(lines, 1, n + 1)
<1>1. Len(lines) \in Nat /\ n \in Nat /\ n + 1 \in 1..Len(lines) /\ \A i \in 1..Len(lines) : lines[i] \in L
  OBVIOUS
<1>2. some = [i \in 1..n |-> lines[i]]
  BY <1>1
<1>3. more = [i \in 1..n + 1 |-> lines[i]]
  BY <1>1
<1>4. some \in Seq(L) /\ Len(some) = n
  BY <1>1, <1>2
<1>5. /\ Append(some, lines[n + 1]) = [i \in 1..n + 1 |-> Append(some, lines[n + 1])[i]]
      /\ Append(some, lines[n + 1])[n + 1] = lines[n + 1]
      /\ \A i \in 1..n : Append(some, lines[n + 1])[i] = some[i]
  <2> HIDE DEF some
  <2>1. lines[n + 1] \in L
    BY <1>1
  <2> QED
    BY <1>1, <1>4, <2>1, AppendProperties
<1>6. \A i \in 1..n + 1 : i \in 1..n \/ i = n + 1
  BY <1>1
<1>7. \A i \in 1..n + 1 : Append(some, lines[n + 1])[i] = lines[i]
  BY <1>2, <1>5, <1>6
<1> QED
  BY <1>1, <1>3, <1>4, <1>5, <1>7

\* However many lines: what the loop of Read makes of them, one by one and from a new
\* script, is the script that they mean as a whole.
THEOREM ScriptsAreTheirLines ==
    ASSUME NEW L, NEW lines \in Seq(L), NEW f, f[0] = NewScript,
           \A i \in 1..Len(lines) : f[i] = ReadLine(f[i - 1], lines[i])
    PROVE  f[Len(lines)] = Script(lines)
<1> DEFINE n == Len(lines)
           S == {i \in Nat : i <= n => f[i] = Script(SubSeq(lines, 1, i))}
<1>1. n \in Nat /\ SubSeq(lines, 1, n) = lines /\ SubSeq(lines, 1, 0) = <<>>
  OBVIOUS
<1>2. 0 \in S
  BY <1>1, ScriptEmpty
<1>3. ASSUME NEW i \in Nat, i \in S PROVE i + 1 \in S
  <2> SUFFICES ASSUME i + 1 <= n PROVE f[i + 1] = Script(SubSeq(lines, 1, i + 1))
    OBVIOUS
  <2>1. i \in 0..n - 1 /\ i + 1 \in 1..n /\ (i + 1) - 1 = i
    BY <1>1
  <2>2. f[i + 1] = ReadLine(f[i], lines[i + 1])
    BY <2>1
  <2>3. f[i] = Script(SubSeq(lines, 1, i))
    BY <1>3, <2>1
  <2>4. /\ SubSeq(lines, 1, i) \in Seq(L) /\ lines[i + 1] \in L
        /\ SubSeq(lines, 1, i + 1) = Append(SubSeq(lines, 1, i), lines[i + 1])
    BY <2>1, ReadOneMore
  <2> QED
    BY <2>2, <2>3, <2>4, ScriptAppend
<1> HIDE DEF S
<1>4. n \in S
  BY <1>1, <1>2, <1>3, NatSetInduction
<1>5. f[n] = Script(SubSeq(lines, 1, n))
  <2> HIDE DEF n
  <2> QED
    BY <1>1, <1>4 DEF S
<1> QED
  BY <1>1, <1>5

-----------------------------------------------------------------------------
(* The promise of a store.                                                   *)

USE NoneAssumption

Maps == [Names -> Bodies \cup {None}]

StoreType ==
    /\ scripts \in [Subjects -> Maps \cup {None}]
    /\ libs \in [Paths -> Texts \cup {None}]

Stored == [e \in Subjects \X Names |-> IF scripts[e[1]] = None THEN None ELSE scripts[e[1]][e[2]]]

\* A script added is found under its subject and name, and all else as before.
LEMMA AddScriptStores ==
    ASSUME StoreType, NEW s \in Subjects, NEW n \in Names, NEW b \in Bodies, AddScript(s, n, b)
    PROVE  StoreType' /\ Stored' = [Stored EXCEPT ![<<s, n>>] = b]
<1> DEFINE names == IF scripts[s] = None THEN NoScript ELSE scripts[s]
<1>1. names \in Maps /\ NoScript \in Maps
  BY DEF NoScript, StoreType, Maps
<1>2. scripts' = [scripts EXCEPT ![s] = [names EXCEPT ![n] = b]] /\ libs' = libs
  BY DEF AddScript
<1>3. [names EXCEPT ![n] = b] \in Maps
  BY <1>1 DEF Maps
<1>4. None \notin Maps
  BY DEF Maps
<1>5. StoreType'
  BY <1>2, <1>3 DEF StoreType
<1>6. ASSUME NEW e \in Subjects \X Names
      PROVE  Stored'[e] = [Stored EXCEPT ![<<s, n>>] = b][e]
  <2>1. e = <<e[1], e[2]>> /\ e[1] \in Subjects /\ e[2] \in Names
    OBVIOUS
  <2>2. CASE e[1] # s
    BY <1>2, <2>1, <2>2 DEF Stored, StoreType
  <2>3. CASE e[1] = s /\ e[2] # n
    <3>1. Stored'[e] = names[e[2]]
      BY <1>1, <1>2, <1>3, <1>4, <2>1, <2>3 DEF Stored, StoreType, Maps
    <3>2. Stored[e] = names[e[2]]
      BY <2>1, <2>3 DEF Stored, NoScript
    <3> QED
      BY <2>1, <2>3, <3>1, <3>2 DEF Stored
  <2>4. CASE e[1] = s /\ e[2] = n
    <3>1. Stored'[e] = b
      BY <1>1, <1>2, <1>3, <1>4, <2>1, <2>4 DEF Stored, StoreType, Maps
    <3> QED
      BY <2>1, <2>4, <3>1 DEF Stored
  <2> QED
    BY <2>2, <2>3, <2>4
<1>7. Stored' = [e \in Subjects \X Names |-> Stored'[e]]
      /\ [Stored EXCEPT ![<<s, n>>] = b]
           = [e \in Subjects \X Names |-> [Stored EXCEPT ![<<s, n>>] = b][e]]
  BY DEF Stored
<1> QED
  BY <1>5, <1>6, <1>7

\* A script deleted is found no more, and all else as before.
LEMMA DeleteScriptStores ==
    ASSUME StoreType, NEW s \in Subjects, NEW n \in Names, DeleteScript(s, n)
    PROVE  StoreType' /\ Stored' = [Stored EXCEPT ![<<s, n>>] = None]
<1>1. libs' = libs
  BY DEF DeleteScript
<1>2. None \notin Maps
  BY DEF Maps
<1>3. CASE scripts[s] = None
  <2>1. scripts' = scripts
    BY <1>3 DEF DeleteScript
  <2>2. Stored[<<s, n>>] = None
    BY <1>3 DEF Stored
  <2> QED
    BY <1>1, <2>1, <2>2 DEF Stored, StoreType
<1>4. CASE scripts[s] # None
  <2> DEFINE names == [scripts[s] EXCEPT ![n] = None]
  <2>1. scripts' = [scripts EXCEPT ![s] = names]
    BY <1>4 DEF DeleteScript, StoreType
  <2>2. scripts[s] \in Maps /\ names \in Maps
    BY <1>4 DEF StoreType, Maps
  <2>3. StoreType'
    BY <1>1, <2>1, <2>2 DEF StoreType
  <2>4. ASSUME NEW e \in Subjects \X Names
        PROVE  Stored'[e] = [Stored EXCEPT ![<<s, n>>] = None][e]
    <3>1. e = <<e[1], e[2]>> /\ e[1] \in Subjects /\ e[2] \in Names
      OBVIOUS
    <3>2. CASE e[1] # s
      BY <2>1, <3>1, <3>2 DEF Stored, StoreType
    <3>3. CASE e[1] = s /\ e[2] # n
      BY <1>2, <1>4, <2>1, <2>2, <3>1, <3>3 DEF Stored, StoreType, Maps
    <3>4. CASE e[1] = s /\ e[2] = n
      BY <1>2, <1>4, <2>1, <2>2, <3>1, <3>4 DEF Stored, StoreType, Maps
    <3> QED
      BY <3>2, <3>3, <3>4
  <2>5. Stored' = [e \in Subjects \X Names |-> Stored'[e]]
        /\ [Stored EXCEPT ![<<s, n>>] = None]
             = [e \in Subjects \X Names |-> [Stored EXCEPT ![<<s, n>>] = None][e]]
    BY DEF Stored
  <2> QED
    BY <2>3, <2>4, <2>5
<1> QED
  BY <1>3, <1>4

-----------------------------------------------------------------------------
(* What has been read and added so far.                                      *)

USE DirectoryAssumption

\* StoreByName reads a directory it was given, and has read the file that is open up
\* to a place no long line comes before.
Position ==
    /\ scriptDir \in ScriptDirs /\ libraryDir \in LibraryDirs \cup {NoDir}
    /\ dir = IF phase = "scripts" THEN scriptDir ELSE libraryDir
    /\ phase = "libs" => libraryDir # NoDir
    /\ mode = phase
    /\ file \in 1..Len(dir) + 1
    /\ status \in {"reading", "done", "error"}
    /\ status = "done" => file = Len(dir) + 1 /\ pos = 0 - 1

Opened ==
    pos # 0 - 1 =>
        /\ status = "reading" /\ file <= Len(dir) /\ dir[file].lua
        /\ pos \in 0..Len(dir[file].lines)
        /\ \A k \in 0..pos - 1 : ~dir[file].lines[k + 1].long
        /\ script = Script(SubSeq(dir[file].lines, 1, pos))

Earlier(at, n) == {i \in at : i < n}
Before(at) == Earlier(at, file)

\* A script that was read is still to be added, or it is in the store.
Have(e) == IF e \in DOMAIN read THEN read[e] ELSE Stored[e]

ScriptsRead ==
    /\ DOMAIN read \subseteq Subjects \X Names
    /\ \A e \in DOMAIN read : read[e] \in Bodies
    /\ \A s \in Subjects, n \in Names :
          Have(<<s, n>>) = Latest(scriptDir, Before(Scripts(scriptDir, s, n)))
    /\ \A p \in Paths : libs[p] = None

\* So with a library: the last of its name that is still to be added counts.
Holding(p) == {i \in DOMAIN read : read[i].name = p}
HaveLibrary(p) == IF Holding(p) = {} THEN libs[p] ELSE read[Max(Holding(p))].content

LibrariesRead ==
    /\ \A s \in Subjects, n \in Names :
          Stored[<<s, n>>] = Latest(scriptDir, Scripts(scriptDir, s, n))
    /\ read \in Seq({Meaning(f) : f \in LuaFiles(libraryDir)})
    /\ \A p \in Paths :
          LET said == Latest(libraryDir, Before(Named(libraryDir, p)))
          IN  HaveLibrary(p) = IF said = None THEN None ELSE said.content

BackendInv ==
    /\ StoreType
    /\ Starting => Position /\ Opened
    /\ phase = "scripts" => ScriptsRead
    /\ phase = "libs" => LibrariesRead

\* A number in a set that none exceeds is the largest.
LEMMA MaxIs ==
    ASSUME NEW at, at \subseteq Int, NEW n \in at, \A k \in at : k <= n
    PROVE  Max(at) = n
<1>1. \A m \in at : (\A k \in at : m >= k) => m = n
  OBVIOUS
<1>2. \A k \in at : n >= k
  OBVIOUS
<1> QED
  BY <1>1, <1>2 DEF Max

\* The file that is open is the last of those up to it.
LEMMA LatestNext ==
    ASSUME NEW d, NEW at, at \subseteq Int, NEW n \in Int
    PROVE  Latest(d, Earlier(at, n + 1))
             = IF n \in at THEN Meaning(d[n]) ELSE Latest(d, Earlier(at, n))
<1> DEFINE more == Earlier(at, n + 1)
<1> USE DEF Earlier
<1>1. CASE n \in at
  <2>1. more \subseteq Int /\ n \in more /\ \A k \in more : k <= n
    BY <1>1
  <2> HIDE DEF more
  <2>2. Max(more) = n
    BY <2>1, MaxIs
  <2> QED
    BY <1>1, <2>1, <2>2 DEF Latest, more
<1>2. CASE n \notin at
  <2>1. Earlier(at, n + 1) = Earlier(at, n)
    BY <1>2
  <2> QED
    BY <1>2, <2>1
<1> QED
  BY <1>1, <1>2

\* StoreByName begins with the first file of the script directory and an empty store.
LEMMA InitBackend == BackendInit => BackendInv
<1> SUFFICES ASSUME BackendInit PROVE BackendInv
  OBVIOUS
<1> USE DEF BackendInit, Init
<1>1. StoreType
  BY DEF StoreType
<1>2. scriptDir \in Seq(ToSet(scriptDir)) /\ Len(scriptDir) \in Nat
  OBVIOUS
<1>3. Position /\ Opened
  BY <1>2 DEF Position, Opened
<1>4. DOMAIN read = {}
  OBVIOUS
<1>5. ASSUME NEW s \in Subjects, NEW n \in Names
      PROVE  Have(<<s, n>>) = Latest(scriptDir, Before(Scripts(scriptDir, s, n)))
  <2>1. Have(<<s, n>>) = None
    BY <1>4 DEF Have, Stored
  <2>2. Scripts(scriptDir, s, n) \subseteq 1..Len(scriptDir)
    BY <1>2 DEF Scripts
  <2>3. Before(Scripts(scriptDir, s, n)) = {}
    BY <1>2, <2>2 DEF Before, Earlier
  <2> QED
    BY <2>1, <2>3 DEF Latest
<1>6. ScriptsRead
  BY <1>4, <1>5 DEF ScriptsRead
<1> QED
  BY <1>1, <1>3, <1>6 DEF BackendInv

\* The directory being read is one of those given, and its scripts are texts.
LEMMA DirectoryRead ==
    ASSUME Starting, Position
    PROVE  /\ dir \in Seq(ToSet(dir)) /\ Len(dir) \in Nat /\ DOMAIN dir = 1..Len(dir)
           /\ file \in Nat /\ dir \in ScriptDirs \cup LibraryDirs
           /\ phase = "scripts" => dir = scriptDir /\ dir \in ScriptDirs
           /\ phase = "libs" => dir = libraryDir /\ dir \in LibraryDirs
           /\ \A i \in 1..Len(dir) : dir[i].lua =>
                 dir[i] \in LuaFiles(dir) /\ dir[i].lines \in Seq(ToSet(dir[i].lines))
<1>1. /\ phase = "scripts" => dir = scriptDir /\ dir \in ScriptDirs
      /\ phase = "libs" => dir = libraryDir /\ dir \in LibraryDirs
      /\ dir \in ScriptDirs \cup LibraryDirs
  BY DEF Position, Starting
<1>2. dir \in Seq(ToSet(dir))
  BY <1>1
<1>3. Len(dir) \in Nat /\ DOMAIN dir = 1..Len(dir)
  BY <1>2
<1>4. file \in Nat
  BY <1>3 DEF Position
<1>5. \A i \in 1..Len(dir) : dir[i] \in ToSet(dir)
  BY <1>3 DEF ToSet
<1>6. \A i \in 1..Len(dir) : dir[i].lua => dir[i] \in LuaFiles(dir)
  BY <1>5 DEF LuaFiles
<1>7. \A f \in LuaFiles(dir) : f.lines \in Seq(ToSet(f.lines))
  BY <1>1
<1> QED
  BY <1>1, <1>2, <1>3, <1>4, <1>6, <1>7

\* A step of the reader that leaves what is read, and the files it has read, alone.
LEMMA NothingRead ==
    ASSUME BackendInv, UNCHANGED <<storeVars, startVars, read>>,
           phase = "scripts" =>
             \A s, n : Before(Scripts(scriptDir, s, n))' = Before(Scripts(scriptDir, s, n)),
           phase = "libs" =>
             \A p : Before(Named(libraryDir, p))' = Before(Named(libraryDir, p)),
           Starting => Position' /\ Opened'
    PROVE  BackendInv'
<1>1. Stored' = Stored /\ StoreType'
  BY DEF BackendInv, StoreType, Stored, storeVars
<1>2. phase' = phase /\ scriptDir' = scriptDir /\ libraryDir' = libraryDir /\ read' = read
      /\ libs' = libs
  BY DEF startVars, storeVars
<1>3. ASSUME phase = "scripts", ScriptsRead PROVE ScriptsRead'
  <2>1. \A e : Have(e)' = Have(e)
    BY <1>1, <1>2 DEF Have
  <2>2. ASSUME NEW s \in Subjects, NEW n \in Names
        PROVE  Have(<<s, n>>)' = Latest(scriptDir, Before(Scripts(scriptDir, s, n)))'
    BY <1>2, <1>3, <2>1 DEF ScriptsRead, Latest
  <2> QED
    BY <1>2, <1>3, <2>2 DEF ScriptsRead
<1>4. ASSUME phase = "libs", LibrariesRead PROVE LibrariesRead'
  <2>1. \A p : HaveLibrary(p)' = HaveLibrary(p)
    BY <1>2 DEF HaveLibrary, Holding
  <2>2. \A p : Latest(libraryDir, Before(Named(libraryDir, p)))'
                 = Latest(libraryDir, Before(Named(libraryDir, p)))
    BY <1>2, <1>4 DEF Latest
  <2>3. \A s, n : Latest(scriptDir, Scripts(scriptDir, s, n))'
                    = Latest(scriptDir, Scripts(scriptDir, s, n))
    BY <1>2 DEF Latest, Scripts
  <2> QED
    BY <1>1, <1>2, <1>4, <2>1, <2>2, <2>3 DEF LibrariesRead, LuaFiles
<1>5. Starting' => Starting
  BY <1>2 DEF Starting
<1> QED
  BY <1>1, <1>2, <1>3, <1>4, <1>5 DEF BackendInv

\* The reader takes lines as ScriptText has them.
LEMMA ReaderText ==
    /\ Reader!NewScript = NewScript
    /\ \A s, line : Reader!ReadLine(s, line) = ReadLine(s, line)
BY DEF Reader!NewScript, NewScript, Reader!ReadLine, ReadLine

\* While the same file is read, the files read before it are the same.
LEMMA SameFile ==
    ASSUME UNCHANGED <<startVars, file>>
    PROVE  /\ \A s, n : Before(Scripts(scriptDir, s, n))' = Before(Scripts(scriptDir, s, n))
           /\ \A p : Before(Named(libraryDir, p))' = Before(Named(libraryDir, p))
BY DEF Before, Scripts, Named, startVars

\* A file that is no script is none of any subject, name or library.
LEMMA SkipStep ==
    ASSUME BackendInv, Starting, Reader!Skip, UNCHANGED <<storeVars, startVars>>
    PROVE  BackendInv'
<1> USE DEF Reader!Skip, Reader!File
<1>1. Position /\ Opened
  BY DEF BackendInv
<1>2. ~dir[file].lua /\ file' = file + 1 /\ file \in 1..Len(dir) /\ pos = 0 - 1
  BY <1>1, DirectoryRead DEF Position
<1>3. Position' /\ Opened'
  BY <1>1, <1>2, DirectoryRead DEF Position, Opened, startVars
<1>4. \A at : at \subseteq 1..Len(dir) /\ file \notin at
                => Earlier(at, file') = Earlier(at, file)
  BY <1>2, DirectoryRead DEF Earlier
<1>5. ASSUME phase = "scripts", NEW s, NEW n
      PROVE  Before(Scripts(scriptDir, s, n))' = Before(Scripts(scriptDir, s, n))
  <2>1. Scripts(dir, s, n) \subseteq 1..Len(dir) /\ file \notin Scripts(dir, s, n)
    BY <1>1, <1>2, DirectoryRead DEF Scripts
  <2>2. dir = scriptDir /\ Scripts(scriptDir, s, n)' = Scripts(scriptDir, s, n)
    BY <1>1, <1>5 DEF Position, startVars, Scripts
  <2> QED
    BY <1>4, <2>1, <2>2 DEF Before
<1>6. ASSUME phase = "libs", NEW p
      PROVE  Before(Named(libraryDir, p))' = Before(Named(libraryDir, p))
  <2>1. Named(dir, p) \subseteq 1..Len(dir) /\ file \notin Named(dir, p)
    BY <1>1, <1>2, DirectoryRead DEF Named
  <2>2. dir = libraryDir /\ Named(libraryDir, p)' = Named(libraryDir, p)
    BY <1>1, <1>6, DirectoryRead DEF startVars, Named
  <2> QED
    BY <1>4, <2>1, <2>2 DEF Before
<1> QED
  BY <1>3, <1>5, <1>6, NothingRead

\* A file that is opened has no line read.
LEMMA OpenStep ==
    ASSUME BackendInv, Starting, Reader!Open, UNCHANGED <<storeVars, startVars>>
    PROVE  BackendInv'
<1> USE DEF Reader!Open, Reader!File
<1>1. Position /\ Opened
  BY DEF BackendInv
<1>2. file \in 1..Len(dir) /\ dir[file].lua /\ Len(dir[file].lines) \in Nat
  BY <1>1, DirectoryRead DEF Position
<1>3. Position'
  BY <1>1 DEF Position, startVars
<1>4. CASE dir[file].opens
  <2>1. SubSeq(dir[file].lines, 1, 0) = <<>>
    BY <1>1, <1>2, DirectoryRead
  <2>2. script' = Script(SubSeq(dir[file].lines, 1, 0)) /\ pos' = 0
    BY <1>4, <2>1, ScriptEmpty, ReaderText
  <2>3. Opened'
    BY <1>2, <1>4, <2>2 DEF Opened
  <2> QED
    BY <1>3, <2>3, SameFile, NothingRead
<1>5. CASE ~dir[file].opens
  BY <1>1, <1>3, <1>5, SameFile, NothingRead DEF Opened
<1> QED
  BY <1>4, <1>5

\* A line that is read is added to those read.
LEMMA ScanStep ==
    ASSUME BackendInv, Starting, Reader!Scan, UNCHANGED <<storeVars, startVars>>
    PROVE  BackendInv'
<1> USE DEF Reader!Scan, Reader!File, Reader!Lines, Reader!More
<1> DEFINE lines == dir[file].lines
           L == ToSet(lines)
<1>1. Position /\ Opened
  BY DEF BackendInv
<1>2. /\ file \in 1..Len(dir) /\ dir[file].lua /\ lines \in Seq(L)
      /\ pos \in 0..Len(lines) - 1 /\ ~lines[pos + 1].long
      /\ script = Script(SubSeq(lines, 1, pos))
      /\ pos' = pos + 1
  BY <1>1, DirectoryRead DEF Position, Opened
<1>3. script' = ReadLine(script, lines[pos + 1])
  BY ReaderText
<1>4. script' = Script(SubSeq(lines, 1, pos + 1))
  <2> HIDE DEF lines, L
  <2>1. /\ SubSeq(lines, 1, pos) \in Seq(L) /\ lines[pos + 1] \in L
        /\ SubSeq(lines, 1, pos + 1) = Append(SubSeq(lines, 1, pos), lines[pos + 1])
    BY <1>2, ReadOneMore
  <2> QED
    BY <1>2, <1>3, <2>1, ScriptAppend
<1>5. Position'
  BY <1>1, <1>2 DEF Position, startVars
<1>6. \A k \in 0..pos' - 1 : ~lines[k + 1].long
  <2>1. \A k \in 0..pos' - 1 : k \in 0..pos - 1 \/ k = pos
    BY <1>2
  <2> QED
    BY <1>1, <1>2, <2>1 DEF Opened
<1>7. Opened'
  BY <1>1, <1>2, <1>4, <1>6 DEF Opened
<1> QED
  BY <1>5, <1>7, SameFile, NothingRead

\* The reader returns when it has been through the directory.
LEMMA ReturnStep ==
    ASSUME BackendInv, Starting, Reader!Return, UNCHANGED <<storeVars, startVars>>
    PROVE  BackendInv'
<1> USE DEF Reader!Return
<1>1. Position /\ Opened
  BY DEF BackendInv
<1>2. Position'
  <2>1. Len(dir) \in Nat /\ file \in Nat
    BY <1>1, DirectoryRead
  <2>2. file = Len(dir) + 1
    BY <1>1, <2>1 DEF Position
  <2> QED
    BY <1>1, <2>2 DEF Position, startVars
<1>3. Opened'
  BY <1>1 DEF Opened
<1> QED
  BY <1>2, <1>3, SameFile, NothingRead

\* The largest of some places of a sequence is one of them.
LEMMA MaxIn ==
    ASSUME NEW n \in Nat, NEW at, at \subseteq 1..n, at # {}
    PROVE  Max(at) \in at /\ \A k \in at : k <= Max(at)
<1> DEFINE T == {n - i : i \in at}
<1>1. T \subseteq Nat /\ T # {}
  OBVIOUS
<1>2. PICK t \in T : \A m \in 0..t - 1 : m \notin T
  <2> HIDE DEF T
  <2> QED
    BY <1>1, LeastNumber
<1>3. PICK i \in at : t = n - i
  OBVIOUS
<1>4. ASSUME NEW k \in at PROVE k <= i
  <2>1. n - k \in T /\ n - k \in Nat
    OBVIOUS
  <2>2. ~(n - k < t)
    <3> SUFFICES ASSUME n - k < t PROVE FALSE
      OBVIOUS
    <3>1. n - k \in 0..t - 1
      BY <1>1, <2>1
    <3> QED
      BY <1>2, <2>1, <3>1
  <2> QED
    BY <1>3, <2>2
<1>5. at \subseteq Int
  OBVIOUS
<1>6. Max(at) = i
  BY <1>4, <1>5, MaxIs
<1> QED
  BY <1>4, <1>6

\* A script that has been read is what its file says.
LEMMA PlacedIs ==
    ASSUME Starting, Position, Opened, Reader!Place
    PROVE  /\ file \in 1..Len(dir) /\ dir[file].lua /\ file' = file + 1
           /\ script = Meaning(dir[file])
           /\ UNCHANGED <<mode, dir, status>> /\ pos' = 0 - 1
<1> USE DEF Reader!Place, Reader!File, Reader!Lines, Reader!More
<1> DEFINE f == dir[file]
           L == ToSet(f.lines)
<1>1. /\ file \in 1..Len(dir) /\ f.lua /\ f.lines \in Seq(L)
      /\ pos \in 0..Len(f.lines)
      /\ script = Script(SubSeq(f.lines, 1, pos))
  BY DirectoryRead DEF Position, Opened
<1>2. \A k \in 0..pos - 1 : ~f.lines[k + 1].long
  BY <1>1 DEF Opened
<1>3. pos = Len(f.lines) \/ f.lines[pos + 1].long
  BY <1>1
<1>4. Said(f) = SubSeq(f.lines, 1, pos)
  <2> HIDE DEF f, L
  <2> QED
    BY <1>1, <1>2, <1>3, SaidIs
<1> QED
  BY <1>1, <1>4 DEF Meaning

\* A script that has been read counts instead of one of the same subject and name.
LEMMA PlaceScript ==
    ASSUME BackendInv, phase = "scripts", Reader!Place, UNCHANGED <<storeVars, startVars>>
    PROVE  ScriptsRead'
<1> DEFINE m == Meaning(dir[file])
           e == <<m.subject, m.name>>
<1>1. Starting /\ Position /\ Opened /\ ScriptsRead
  BY DEF BackendInv, Starting
<1>2. /\ file \in 1..Len(dir) /\ dir[file].lua /\ file' = file + 1
      /\ script = m /\ dir = scriptDir /\ mode = "scripts" /\ scriptDir' = scriptDir
  BY <1>1, PlacedIs DEF Position, startVars
<1>3. /\ m.subject \in Subjects /\ m.name \in Names /\ m \in Bodies
  BY <1>1, <1>2, DirectoryRead
<1>4. read' = [k \in DOMAIN read \cup {e} |-> IF k = e THEN m ELSE read[k]]
  BY <1>2 DEF Reader!Place
<1>5. Stored' = Stored /\ libs' = libs
  BY DEF Stored, storeVars
<1>6. \A k : Have(k)' = IF k = e THEN m ELSE Have(k)
  BY <1>4, <1>5 DEF Have
<1>7. ASSUME NEW s \in Subjects, NEW n \in Names
      PROVE  Have(<<s, n>>)' = Latest(scriptDir, Before(Scripts(scriptDir, s, n)))'
  <2> DEFINE at == Scripts(dir, s, n)
  <2>1. at \subseteq Int /\ file \in Int
    BY <1>1, <1>2, DirectoryRead DEF Scripts
  <2>2. file \in at <=> <<s, n>> = e
    BY <1>1, <1>2, DirectoryRead DEF Scripts
  <2>3. Before(Scripts(scriptDir, s, n))' = Earlier(at, file + 1)
    BY <1>2 DEF Before, Scripts
  <2>4. Before(Scripts(scriptDir, s, n)) = Earlier(at, file)
    BY <1>2 DEF Before
  <2> HIDE DEF at
  <2>5. Latest(dir, Earlier(at, file + 1))
          = IF file \in at THEN m ELSE Latest(dir, Earlier(at, file))
    BY <2>1, LatestNext
  <2>6. Latest(scriptDir, Before(Scripts(scriptDir, s, n)))' = Latest(dir, Earlier(at, file + 1))
    BY <1>2, <2>3 DEF Latest
  <2>7. Have(<<s, n>>) = Latest(dir, Earlier(at, file))
    BY <1>1, <1>2, <2>4 DEF ScriptsRead
  <2> QED
    BY <1>6, <2>2, <2>5, <2>6, <2>7
<1> HIDE DEF m
<1>8. DOMAIN read' = DOMAIN read \cup {e}
      /\ \A k \in DOMAIN read' : read'[k] = IF k = e THEN m ELSE read[k]
  BY <1>4
<1> QED
  BY <1>1, <1>3, <1>5, <1>7, <1>8 DEF ScriptsRead

\* A library that has been read counts instead of those of the same name before it.
LEMMA PlaceLibrary ==
    ASSUME BackendInv, phase = "libs", Reader!Place, UNCHANGED <<storeVars, startVars>>
    PROVE  LibrariesRead'
<1> DEFINE m == Meaning(dir[file])
           M == {Meaning(f) : f \in LuaFiles(libraryDir)}
           n == Len(read)
<1>1. Starting /\ Position /\ Opened /\ LibrariesRead
  BY DEF BackendInv, Starting
<1>2. /\ file \in 1..Len(dir) /\ dir[file].lua /\ file' = file + 1
      /\ script = m /\ dir = libraryDir /\ mode = "libs"
      /\ libraryDir' = libraryDir /\ scriptDir' = scriptDir
  BY <1>1, PlacedIs, DirectoryRead DEF Position, startVars
<1>3. m \in M /\ m # None
  BY <1>1, <1>2, DirectoryRead
<1>4. read \in Seq(M) /\ n \in Nat /\ DOMAIN read = 1..n
  BY <1>1 DEF LibrariesRead
<1>5. read' = [k \in 1..n + 1 |-> IF k = n + 1 THEN m ELSE read[k]]
  <2>1. 1..n \cup {n + 1} = 1..n + 1
    BY <1>4
  <2>2. read' = [k \in 1..n \cup {n + 1} |-> IF k = n + 1 THEN script ELSE read[k]]
    BY <1>2, <1>4 DEF Reader!Place
  <2> QED
    BY <1>2, <2>1, <2>2
<1>6. Stored' = Stored /\ libs' = libs
  BY DEF Stored, storeVars
<1> HIDE DEF n, m
<1>7. read' \in Seq(M) /\ DOMAIN read' = 1..n + 1 /\ read'[n + 1] = m
      /\ \A k \in 1..n : read'[k] = read[k]
  <2> HIDE DEF M
  <2>1. \A k \in 1..n + 1 : (IF k = n + 1 THEN m ELSE read[k]) \in M
    <3>1. \A k \in 1..n : read[k] \in M
      BY <1>4
    <3>2. \A k \in 1..n + 1 : k = n + 1 \/ k \in 1..n
      BY <1>4
    <3> QED
      BY <1>3, <3>1, <3>2
  <2>2. read' \in Seq(M)
    BY <1>4, <1>5, <2>1, IsASeq
  <2> QED
    BY <1>4, <1>5, <2>2
<1>8. ASSUME NEW p PROVE HaveLibrary(p)' = IF m.name = p THEN m.content ELSE HaveLibrary(p)
  <2>1. Holding(p) \subseteq 1..n
    BY <1>4 DEF Holding
  <2>2. CASE m.name = p
    <3>1. n + 1 \in Holding(p)' /\ Holding(p)' \subseteq 1..n + 1
      BY <1>4, <1>7, <2>2 DEF Holding
    <3>2. Holding(p)' \subseteq Int /\ \A k \in Holding(p)' : k <= n + 1
      BY <1>4, <3>1
    <3>3. Max(Holding(p)') = n + 1
      BY <3>1, <3>2, MaxIs
    <3>4. HaveLibrary(p)' = read'[Max(Holding(p)')].content
      BY <3>1 DEF HaveLibrary
    <3> QED
      BY <1>7, <2>2, <3>3, <3>4
  <2>3. CASE m.name # p
    <3>1. \A k \in 1..n + 1 : k = n + 1 \/ k \in 1..n
      BY <1>4
    <3>2. Holding(p)' = Holding(p)
      BY <1>4, <1>7, <2>3, <3>1 DEF Holding
    <3>3. CASE Holding(p) = {}
      BY <1>6, <2>3, <3>2, <3>3 DEF HaveLibrary
    <3>4. CASE Holding(p) # {}
      <4>1. Max(Holding(p)) \in 1..n
        BY <1>4, <2>1, <3>4, MaxIn
      <4>2. HaveLibrary(p)' = read'[Max(Holding(p))].content
        BY <3>2, <3>4 DEF HaveLibrary
      <4>3. HaveLibrary(p) = read[Max(Holding(p))].content
        BY <3>4 DEF HaveLibrary
      <4> QED
        BY <1>7, <2>3, <4>1, <4>2, <4>3
    <3> QED
      BY <3>3, <3>4
  <2> QED
    BY <2>2, <2>3
<1>9. ASSUME NEW p \in Paths
      PROVE  (LET said == Latest(libraryDir, Before(Named(libraryDir, p)))
              IN  HaveLibrary(p) = IF said = None THEN None ELSE said.content)'
  <2> DEFINE at == Named(dir, p)
  <2>1. at \subseteq Int /\ file \in Int
    BY <1>1, <1>2, DirectoryRead DEF Named
  <2>2. file \in at <=> m.name = p
    BY <1>1, <1>2, DirectoryRead DEF Named, m
  <2>3. Before(Named(libraryDir, p))' = Earlier(at, file + 1)
    BY <1>2 DEF Before, Named
  <2>4. Before(Named(libraryDir, p)) = Earlier(at, file)
    BY <1>2 DEF Before
  <2> HIDE DEF at
  <2>5. Latest(dir, Earlier(at, file + 1))
          = IF file \in at THEN m ELSE Latest(dir, Earlier(at, file))
    BY <2>1, LatestNext DEF m
  <2>6. Latest(libraryDir, Before(Named(libraryDir, p)))' = Latest(dir, Earlier(at, file + 1))
    BY <1>2, <2>3 DEF Latest
  <2>7. LET said == Latest(dir, Earlier(at, file))
        IN  HaveLibrary(p) = IF said = None THEN None ELSE said.content
    BY <1>1, <1>2, <2>4 DEF LibrariesRead
  <2> QED
    BY <1>3, <1>8, <2>2, <2>5, <2>6, <2>7
<1>10. ASSUME NEW s \in Subjects, NEW k \in Names
       PROVE  (Stored[<<s, k>>] = Latest(scriptDir, Scripts(scriptDir, s, k)))'
  BY <1>1, <1>2, <1>6 DEF LibrariesRead, Latest, Scripts
<1> QED
  BY <1>2, <1>7, <1>9, <1>10 DEF LibrariesRead, LuaFiles

\* A script that has been read is one of those to be added.
LEMMA PlaceStep ==
    ASSUME BackendInv, Starting, Reader!Place, UNCHANGED <<storeVars, startVars>>
    PROVE  BackendInv'
<1>1. Position /\ Opened
  BY DEF BackendInv
<1>2. StoreType' /\ phase' = phase
  BY DEF BackendInv, StoreType, storeVars, startVars
<1>3. file' \in 1..Len(dir) + 1
  BY <1>1, PlacedIs, DirectoryRead
<1>4. status = "reading"
  BY DEF Reader!Place
<1>5. Position' /\ Opened'
  BY <1>1, <1>3, <1>4, PlacedIs DEF Position, Opened, startVars
<1> QED
  BY <1>2, <1>5, PlaceScript, PlaceLibrary DEF BackendInv

\* What has been read is the same while a script is added.
LEMMA AddScriptStep == BackendInv /\ AddNextScript => BackendInv'
<1> SUFFICES ASSUME BackendInv, AddNextScript PROVE BackendInv'
  OBVIOUS
<1>1. /\ phase = "scripts" /\ status = "done"
      /\ UNCHANGED <<startVars, mode, dir, file, pos, script, status>>
      /\ Starting /\ Position /\ Opened /\ ScriptsRead /\ StoreType
  BY DEF AddNextScript, BackendInv, Starting
<1>2. PICK e \in DOMAIN read : /\ AddScript(e[1], e[2], read[e])
                               /\ read' = [k \in DOMAIN read \ {e} |-> read[k]]
  BY DEF AddNextScript
<1>3. /\ e \in Subjects \X Names /\ e = <<e[1], e[2]>> /\ e[1] \in Subjects /\ e[2] \in Names
      /\ read[e] \in Bodies
  BY <1>1 DEF ScriptsRead
<1>4. StoreType' /\ Stored' = [Stored EXCEPT ![e] = read[e]]
  BY <1>1, <1>2, <1>3, AddScriptStores
<1>5. Position' /\ Opened'
  BY <1>1 DEF Position, Opened, startVars
<1>6. /\ DOMAIN read' = DOMAIN read \ {e}
      /\ \A k \in DOMAIN read' : read'[k] = read[k]
  BY <1>2
<1>7. \A k \in Subjects \X Names : Have(k)' = Have(k)
  BY <1>3, <1>4, <1>6 DEF Have, Stored
<1>8. libs' = libs
  BY <1>2 DEF AddScript
<1>9. ASSUME NEW s \in Subjects, NEW n \in Names
      PROVE  Have(<<s, n>>)' = Latest(scriptDir, Before(Scripts(scriptDir, s, n)))'
  BY <1>1, <1>7, SameFile DEF ScriptsRead, Latest, startVars
<1>10. ScriptsRead'
  BY <1>1, <1>6, <1>8, <1>9 DEF ScriptsRead
<1> QED
  BY <1>1, <1>4, <1>5, <1>10 DEF BackendInv, startVars

\* So while a library is added: it is the first of those that are still to be added,
\* and counts only if no other one of them has its name.
LEMMA AddLibraryStep == BackendInv /\ AddNextLibrary => BackendInv'
<1> SUFFICES ASSUME BackendInv, AddNextLibrary PROVE BackendInv'
  OBVIOUS
<1> DEFINE M == {Meaning(f) : f \in LuaFiles(libraryDir)}
           n == Len(read)
           b == read[1]
<1>1. /\ phase = "libs" /\ status = "done" /\ read # <<>> /\ read' = Tail(read)
      /\ AddLibrary(b.name, b.content)
      /\ UNCHANGED <<startVars, mode, dir, file, pos, script, status>>
      /\ Starting /\ Position /\ Opened /\ LibrariesRead /\ StoreType
  BY DEF AddNextLibrary, BackendInv, Starting
<1>2. libraryDir \in LibraryDirs
  BY <1>1, DirectoryRead
<1>3. read \in Seq(M) /\ n \in Nat \ {0} /\ DOMAIN read = 1..n /\ b \in M
  BY <1>1 DEF LibrariesRead
<1>4. b.name \in Paths /\ b.content \in Texts
  BY <1>2, <1>3
<1>5. /\ read' \in Seq(M) /\ DOMAIN read' = 1..n - 1
      /\ \A i \in 1..n - 1 : read'[i] = read[i + 1]
  <2> HIDE DEF M
  <2> QED
    BY <1>1, <1>3
<1>6. libs' = [libs EXCEPT ![b.name] = b.content] /\ scripts' = scripts
  BY <1>1 DEF AddLibrary
<1>7. StoreType' /\ Stored' = Stored
  BY <1>1, <1>4, <1>6 DEF StoreType, Stored
<1>8. Position' /\ Opened'
  BY <1>1 DEF Position, Opened, startVars
<1> HIDE DEF M, n, b
<1>9. ASSUME NEW p \in Paths PROVE HaveLibrary(p)' = HaveLibrary(p)
  <2> DEFINE H == Holding(p)
             J == Holding(p)'
  <2>1. H \subseteq 1..n /\ J \subseteq 1..n - 1
    BY <1>3, <1>5 DEF Holding
  <2>2. \A i \in 1..n - 1 : i \in J <=> i + 1 \in H
    BY <1>3, <1>5 DEF Holding
  <2>3. 1 \in H <=> b.name = p
    BY <1>3 DEF Holding, b
  <2>4. HaveLibrary(p) = IF H = {} THEN libs[p] ELSE read[Max(H)].content
    BY DEF HaveLibrary
  <2>5. HaveLibrary(p)' = IF J = {} THEN libs'[p] ELSE read'[Max(J)].content
    BY DEF HaveLibrary
  <2> HIDE DEF H, J
  <2>6. CASE J # {}
    <3>1. n - 1 \in Nat
      BY <1>3
    <3>2. Max(J) \in J /\ \A k \in J : k <= Max(J)
      BY <2>1, <2>6, <3>1, MaxIn
    <3>3. Max(J) \in 1..n - 1 /\ Max(J) + 1 \in H
      BY <2>1, <2>2, <3>2
    <3>4. \A k \in H : k <= Max(J) + 1
      <4> SUFFICES ASSUME NEW k \in H, k > Max(J) + 1 PROVE FALSE
        BY <2>1, <3>3
      <4>1. k - 1 \in 1..n - 1 /\ (k - 1) + 1 = k
        BY <1>3, <2>1, <3>3
      <4>2. k - 1 \in J
        BY <2>2, <4>1
      <4> QED
        BY <2>1, <3>2, <3>3, <4>2
    <3>5. H \subseteq Int
      BY <2>1
    <3>6. Max(H) = Max(J) + 1
      BY <3>3, <3>4, <3>5, MaxIs
    <3> QED
      BY <1>5, <2>4, <2>5, <2>6, <3>3, <3>6
  <2>7. CASE J = {} /\ b.name = p
    <3>1. \A k \in H : k <= 1
      <4> SUFFICES ASSUME NEW k \in H, k > 1 PROVE FALSE
        BY <2>1
      <4>1. k - 1 \in 1..n - 1 /\ (k - 1) + 1 = k
        BY <1>3, <2>1
      <4> QED
        BY <2>2, <2>7, <4>1
    <3>2. H \subseteq Int
      BY <2>1
    <3>3. Max(H) = 1
      BY <2>3, <2>7, <3>1, <3>2, MaxIs
    <3> QED
      BY <1>1, <1>6, <2>3, <2>4, <2>5, <2>7, <3>3 DEF StoreType, b
  <2>8. CASE J = {} /\ b.name # p
    <3>1. H = {}
      <4> SUFFICES ASSUME NEW k \in H PROVE FALSE
        OBVIOUS
      <4>1. k - 1 \in 1..n - 1 /\ (k - 1) + 1 = k
        BY <1>3, <2>1, <2>3, <2>8
      <4> QED
        BY <2>2, <2>8, <4>1
    <3> QED
      BY <1>1, <1>6, <2>4, <2>5, <2>8, <3>1 DEF StoreType
  <2> QED
    BY <2>6, <2>7, <2>8
<1>10. \A p : Latest(libraryDir, Before(Named(libraryDir, p)))'
                = Latest(libraryDir, Before(Named(libraryDir, p)))
  BY <1>1, SameFile DEF Latest, startVars
<1>11. \A s, k : Latest(scriptDir, Scripts(scriptDir, s, k))'
                   = Latest(scriptDir, Scripts(scriptDir, s, k))
  BY <1>1 DEF Latest, Scripts, startVars
<1>12. LibrariesRead'
  BY <1>1, <1>5, <1>7, <1>9, <1>10, <1>11 DEF LibrariesRead, LuaFiles, startVars, M
<1> QED
  BY <1>1, <1>7, <1>8, <1>12 DEF BackendInv, startVars

\* All scripts are in the store when the libraries are read.
LEMMA ReadLibrariesStep == BackendInv /\ ReadLibraries => BackendInv'
<1> SUFFICES ASSUME BackendInv, ReadLibraries PROVE BackendInv'
  OBVIOUS
<1>1. /\ phase = "scripts" /\ status = "done" /\ read = <<>> /\ libraryDir # NoDir
      /\ phase' = "libs" /\ mode' = "libs" /\ dir' = libraryDir
      /\ file' = 1 /\ pos' = 0 - 1 /\ read' = <<>> /\ status' = "reading"
      /\ UNCHANGED <<storeVars, scriptDir, libraryDir>>
      /\ Starting /\ Position /\ ScriptsRead /\ StoreType
  BY DEF ReadLibraries, Reader!Call, BackendInv, Starting
<1>2. /\ libraryDir \in LibraryDirs /\ libraryDir \in Seq(ToSet(libraryDir))
      /\ Len(libraryDir) \in Nat /\ DOMAIN libraryDir = 1..Len(libraryDir)
  BY <1>1 DEF Position
<1>3. Position' /\ Opened'
  BY <1>1, <1>2 DEF Position, Opened
<1>4. StoreType' /\ Stored' = Stored /\ libs' = libs
  BY <1>1 DEF StoreType, Stored, storeVars
<1>5. DOMAIN <<>> = {}
  OBVIOUS
<1>6. ASSUME NEW s \in Subjects, NEW n \in Names
      PROVE  (Stored[<<s, n>>] = Latest(scriptDir, Scripts(scriptDir, s, n)))'
  <2>1. Scripts(scriptDir, s, n) \subseteq 1..Len(scriptDir) /\ file = Len(scriptDir) + 1
    BY <1>1, DirectoryRead DEF Position, Scripts
  <2>2. Before(Scripts(scriptDir, s, n)) = Scripts(scriptDir, s, n)
    BY <1>1, <2>1, DirectoryRead DEF Before, Earlier
  <2>3. Have(<<s, n>>) = Stored[<<s, n>>]
    BY <1>1, <1>5 DEF Have
  <2>4. Stored[<<s, n>>] = Latest(scriptDir, Scripts(scriptDir, s, n))
    BY <1>1, <2>2, <2>3 DEF ScriptsRead
  <2> QED
    BY <1>1, <1>4, <2>4 DEF Latest, Scripts
<1>7. ASSUME NEW p \in Paths
      PROVE  (LET said == Latest(libraryDir, Before(Named(libraryDir, p)))
              IN  HaveLibrary(p) = IF said = None THEN None ELSE said.content)'
  <2>1. HaveLibrary(p)' = libs[p]
    BY <1>1, <1>4, <1>5 DEF HaveLibrary, Holding
  <2>2. libs[p] = None
    BY <1>1 DEF ScriptsRead
  <2>3. Named(libraryDir, p)' \subseteq 1..Len(libraryDir)
    BY <1>1, <1>2 DEF Named
  <2>4. Before(Named(libraryDir, p))' = {}
    BY <1>1, <1>2, <2>3 DEF Before, Earlier
  <2>5. Latest(libraryDir, Before(Named(libraryDir, p)))' = None
    BY <2>4 DEF Latest
  <2> QED
    BY <2>1, <2>2, <2>5
<1>8. LibrariesRead'
  BY <1>1, <1>6, <1>7 DEF LibrariesRead
<1> QED
  BY <1>1, <1>3, <1>4, <1>8 DEF BackendInv

\* A store that serves holds scripts and libraries.
LEMMA AnswerStep == BackendInv /\ Answer => BackendInv'
<1> SUFFICES ASSUME BackendInv, Answer PROVE BackendInv'
  OBVIOUS
<1>1. StoreType /\ phase' = "serving"
  BY DEF BackendInv, Answer, startVars
<1>2. ASSUME NEW s \in Subjects, GetScripts(s) PROVE StoreType'
  BY <1>1, <1>2 DEF GetScripts, StoreType
<1>3. ASSUME NEW n \in Names, NEW s \in Subjects, DeleteScript(s, n) PROVE StoreType'
  BY <1>1, <1>3, DeleteScriptStores
<1>4. ASSUME NEW ps \in SUBSET Paths, LoadLibrairies(ps) PROVE StoreType'
  BY <1>1, <1>4 DEF LoadLibrairies, StoreType
<1>5. ASSUME NEW p \in Paths, RemoveLibrary(p) PROVE StoreType'
  BY <1>1, <1>5 DEF RemoveLibrary, StoreType
<1>6. ASSUME ListSubjects PROVE StoreType'
  BY <1>1, <1>6 DEF ListSubjects, StoreType
<1>7. StoreType'
  BY <1>2, <1>3, <1>4, <1>5, <1>6 DEF Answer
<1> QED
  BY <1>1, <1>7 DEF BackendInv, Starting

\* Every step of the backend preserves what has been read and added.
LEMMA BackendStep == BackendInv /\ [BackendNext]_allVars => BackendInv'
<1> SUFFICES ASSUME BackendInv, [BackendNext]_allVars PROVE BackendInv'
  OBVIOUS
<1>1. CASE Read
  <2>1. Starting /\ UNCHANGED <<storeVars, startVars>>
    BY <1>1 DEF Read
  <2>2. Reader!Skip \/ Reader!Open \/ Reader!Scan \/ Reader!Place \/ Reader!Return
    BY <1>1 DEF Read, Reader!Next
  <2> QED
    BY <2>1, <2>2, SkipStep, OpenStep, ScanStep, PlaceStep, ReturnStep
<1>2. CASE Fail
  BY <1>2 DEF Fail, BackendInv, Starting, StoreType, storeVars
<1>3. CASE Serve
  BY <1>3 DEF Serve, BackendInv, Starting, StoreType, storeVars
<1>4. CASE UNCHANGED allVars
  <2>1. UNCHANGED <<storeVars, startVars, read, mode, dir, file, pos, script, status>>
    BY <1>4 DEF allVars, readerVars
  <2>2. Starting => Position' /\ Opened'
    BY <2>1 DEF Position, Opened, startVars, BackendInv
  <2> QED
    BY <2>1, <2>2, SameFile, NothingRead
<1> QED
  BY <1>1, <1>2, <1>3, <1>4, AddScriptStep, AddLibraryStep, ReadLibrariesStep, AnswerStep
     DEF BackendNext, Start

\* What was read and added so far is what the files passed so far say, at every place a
\* process can be in while StoreByName runs.
THEOREM BackendInvariant == BackendSpec => []BackendInv
BY InitBackend, BackendStep, PTL DEF BackendSpec

-----------------------------------------------------------------------------
(* What is served.                                                           *)

\* When StoreByName returns, no file is left to be read and no script to be added.
LEMMA ServeStep ==
    ASSUME BackendInv, Serve
    PROVE  /\ \A s \in Subjects, n \in Names :
                 Stored[<<s, n>>] = Latest(scriptDir, Scripts(scriptDir, s, n))
           /\ \A p \in Paths :
                 LET said == Latest(Libraries, Named(Libraries, p))
                 IN  libs[p] = IF said = None THEN None ELSE said.content
<1>1. /\ status = "done" /\ read = <<>> /\ Starting /\ Position
      /\ phase = "libs" \/ (phase = "scripts" /\ libraryDir = NoDir)
  BY DEF Serve, BackendInv, Starting
<1>2. DOMAIN <<>> = {}
  OBVIOUS
<1>3. \A at : at \subseteq 1..Len(dir) => Before(at) = at
  BY <1>1, DirectoryRead DEF Position, Before, Earlier
<1>4. CASE phase = "libs"
  <2>1. LibrariesRead /\ Libraries = libraryDir /\ dir = libraryDir
    BY <1>1, <1>4, DirectoryRead DEF BackendInv, Position, Libraries
  <2>2. ASSUME NEW p \in Paths
        PROVE  LET said == Latest(Libraries, Named(Libraries, p))
               IN  libs[p] = IF said = None THEN None ELSE said.content
    <3>1. Named(libraryDir, p) \subseteq 1..Len(dir)
      BY <1>1, <2>1, DirectoryRead DEF Named
    <3>2. Before(Named(libraryDir, p)) = Named(libraryDir, p)
      BY <1>3, <3>1
    <3>3. HaveLibrary(p) = libs[p]
      BY <1>1, <1>2 DEF HaveLibrary, Holding
    <3> QED
      BY <2>1, <3>2, <3>3 DEF LibrariesRead
  <2> QED
    BY <2>1, <2>2 DEF LibrariesRead
<1>5. CASE phase = "scripts" /\ libraryDir = NoDir
  <2>1. ScriptsRead /\ Libraries = <<>> /\ dir = scriptDir
    BY <1>1, <1>5, DirectoryRead DEF BackendInv, Libraries
  <2>2. ASSUME NEW s \in Subjects, NEW n \in Names
        PROVE  Stored[<<s, n>>] = Latest(scriptDir, Scripts(scriptDir, s, n))
    <3>1. Scripts(scriptDir, s, n) \subseteq 1..Len(dir)
      BY <1>1, <2>1, DirectoryRead DEF Scripts
    <3>2. Before(Scripts(scriptDir, s, n)) = Scripts(scriptDir, s, n)
      BY <1>3, <3>1
    <3>3. Have(<<s, n>>) = Stored[<<s, n>>]
      BY <1>1, <1>2 DEF Have
    <3> QED
      BY <2>1, <3>2, <3>3 DEF ScriptsRead
  <2>3. ASSUME NEW p \in Paths
        PROVE  Latest(Libraries, Named(Libraries, p)) = None /\ libs[p] = None
    <3>1. Named(Libraries, p) = {}
      BY <1>2, <2>1 DEF Named
    <3> QED
      BY <2>1, <3>1 DEF Latest, ScriptsRead
  <2> QED
    BY <2>2, <2>3
<1> QED
  BY <1>1, <1>4, <1>5

\* When StoreByName returns a store, it holds under each subject and name what the last
\* file of these headers says, and so the libraries, for any directories.
THEOREM ServesDirectoriesHolds == BackendSpec => ServesDirectories
<1>1. BackendInv /\ [BackendNext]_allVars =>
        [(phase # "serving" /\ phase' = "serving") =>
          /\ \A s \in Subjects, n \in Names :
                (IF scripts[s] = None THEN None ELSE scripts[s][n])
                    = Latest(scriptDir, Scripts(scriptDir, s, n))
          /\ \A p \in Paths :
                LET said == Latest(Libraries, Named(Libraries, p))
                IN  libs[p] = IF said = None THEN None ELSE said.content]_allVars
  <2> SUFFICES ASSUME BackendInv, BackendNext, phase # "serving", phase' = "serving"
               PROVE  /\ \A s \in Subjects, n \in Names :
                            (IF scripts[s] = None THEN None ELSE scripts[s][n])
                                = Latest(scriptDir, Scripts(scriptDir, s, n))
                      /\ \A p \in Paths :
                            LET said == Latest(Libraries, Named(Libraries, p))
                            IN  libs[p] = IF said = None THEN None ELSE said.content
    BY DEF allVars, startVars
  <2>1. Serve
    BY DEF BackendNext, Start, Read, Fail, AddNextScript, AddNextLibrary, ReadLibraries,
           Answer, startVars
  <2>2. \A s \in Subjects, n \in Names :
          Stored[<<s, n>>] = IF scripts[s] = None THEN None ELSE scripts[s][n]
    BY DEF Stored
  <2>3. \A s \in Subjects, n \in Names :
          Stored[<<s, n>>] = Latest(scriptDir, Scripts(scriptDir, s, n))
    BY <2>1, ServeStep
  <2>4. \A p \in Paths :
          LET said == Latest(Libraries, Named(Libraries, p))
          IN  libs[p] = IF said = None THEN None ELSE said.content
    BY <2>1, ServeStep
  <2>5. \A s \in Subjects, n \in Names :
          (IF scripts[s] = None THEN None ELSE scripts[s][n])
              = Latest(scriptDir, Scripts(scriptDir, s, n))
    BY <2>2, <2>3
  <2> QED
    BY <2>4, <2>5, Zenon
<1> QED
  BY <1>1, BackendInvariant, PTL DEF BackendSpec, ServesDirectories

-----------------------------------------------------------------------------
(* The file store is a script store.                                         *)

USE DEF Ok, Error, Promise!Ok, Promise!Error

\* To fill an empty store is no step of it.
LEMMA InitPromise == BackendInit => Promise!Init
BY DEF BackendInit, Init, Promise!Init

\* A script added is set.
LEMMA AddScriptIsSet ==
    ASSUME StoreType, NEW s \in Subjects, NEW n \in Names, NEW b \in Bodies, AddScript(s, n, b)
    PROVE  Promise!SetScript(s, n, b)
<1>1. answer' = [op |-> "ok"] /\ UNCHANGED libs
  BY DEF AddScript
<1>2. Stored' = [Stored EXCEPT ![<<s, n>>] = b]
  BY AddScriptStores
<1> QED
  BY <1>1, <1>2 DEF Promise!SetScript, Stored

\* A script deleted is set to none.
LEMMA DeleteScriptIsSet ==
    ASSUME StoreType, NEW s \in Subjects, NEW n \in Names, DeleteScript(s, n)
    PROVE  Promise!SetScript(s, n, None)
<1>1. answer' = [op |-> "ok"] /\ UNCHANGED libs
  BY DEF DeleteScript
<1>2. Stored' = [Stored EXCEPT ![<<s, n>>] = None]
  BY DeleteScriptStores
<1> QED
  BY <1>1, <1>2 DEF Promise!SetScript, Stored

\* The names found under a subject are the scripts it has.
LEMMA GetScriptsAnswers ==
    ASSUME StoreType, NEW s \in Subjects, GetScripts(s)
    PROVE  Promise!GetScripts(s)
<1>1. scripts' = scripts /\ libs' = libs
  BY DEF GetScripts
<1>2. Stored' = Stored
  BY <1>1 DEF Stored
<1>3. CASE scripts[s] = None
  BY <1>1, <1>2, <1>3 DEF GetScripts, Promise!GetScripts, Stored
<1>4. CASE scripts[s] # None
  <2> DEFINE found == {<<<<s, n>>, scripts[s][n]>> : n \in {m \in Names : scripts[s][m] # None}}
             under == {e \in Subjects \X Names : e[1] = s /\ Stored[e] # None}
  <2>1. \A n \in Names : Stored[<<s, n>>] = scripts[s][n]
    BY <1>4 DEF Stored
  <2>2. under = {<<s, n>> : n \in {m \in Names : scripts[s][m] # None}}
    <3>1. ASSUME NEW e \in under
          PROVE  e \in {<<s, n>> : n \in {m \in Names : scripts[s][m] # None}}
      <4>1. e = <<s, e[2]>> /\ e[2] \in Names /\ Stored[e] # None
        OBVIOUS
      <4> QED
        BY <2>1, <4>1
    <3>2. ASSUME NEW n \in Names, scripts[s][n] # None PROVE <<s, n>> \in under
      BY <2>1, <3>2
    <3> QED
      BY <3>1, <3>2
  <2>3. found = {<<e, Stored[e]>> : e \in under}
    BY <2>1, <2>2
  <2>4. answer' = [op |-> "get", subject |-> s, found |-> found]
    BY <1>4 DEF GetScripts
  <2>5. Promise!Under(s) = under
    BY DEF Promise!Under, Stored
  <2> HIDE DEF found, under
  <2>6. found = {<<e, Stored[e]>> : e \in Promise!Under(s)}
    BY <2>3, <2>5
  <2>7. answer'.op # "load"
    BY <2>4
  <2> QED
    BY <1>1, <1>2, <2>4, <2>6, <2>7 DEF Promise!GetScripts, Stored
<1> QED
  BY <1>3, <1>4

\* A subject that has a script is known.
LEMMA ListSubjectsAnswers ==
    ASSUME StoreType, ListSubjects
    PROVE  Promise!ListSubjects
<1> DEFINE S == {s \in Subjects : scripts[s] # None}
<1>1. scripts' = scripts /\ libs' = libs /\ answer' = [op |-> "list", subjects |-> S]
  BY DEF ListSubjects
<1>2. \A s \in Subjects : Promise!Under(s) # {} => s \in S
  BY DEF Promise!Under
<1>3. S \in SUBSET Subjects /\ answer'.op # "load"
  BY <1>1
<1> HIDE DEF S
<1> QED
  BY <1>1, <1>2, <1>3 DEF Promise!ListSubjects

\* Every step of a backend is a call of a script store, or none.
LEMMA PromiseStep ==
    BackendInv /\ [BackendNext]_allVars => [Promise!Next]_(Promise!vars)
<1> SUFFICES ASSUME BackendInv, [BackendNext]_allVars
             PROVE  Promise!Next \/ UNCHANGED Promise!vars
  OBVIOUS
<1>1. StoreType
  BY DEF BackendInv
<1>2. ASSUME UNCHANGED storeVars PROVE UNCHANGED Promise!vars
  BY <1>2 DEF storeVars, Promise!vars
<1>3. CASE AddNextScript
  <2>1. ScriptsRead
    BY <1>3 DEF AddNextScript, BackendInv
  <2>2. PICK e \in DOMAIN read : AddScript(e[1], e[2], read[e])
    BY <1>3 DEF AddNextScript
  <2>3. e[1] \in Subjects /\ e[2] \in Names /\ read[e] \in Bodies
    BY <2>1 DEF ScriptsRead
  <2>4. \A s \in Subjects, n \in Names, b \in Bodies : AddScript(s, n, b) => Promise!Next
    BY <1>1, AddScriptIsSet DEF Promise!Next
  <2> QED
    BY <2>2, <2>3, <2>4
<1>4. CASE AddNextLibrary
  <2>1. Starting /\ Position /\ LibrariesRead /\ phase = "libs" /\ read # <<>>
    BY <1>4 DEF AddNextLibrary, BackendInv, Starting
  <2>2. libraryDir \in LibraryDirs
    BY <2>1, DirectoryRead
  <2>3. read[1] \in {Meaning(f) : f \in LuaFiles(libraryDir)}
    BY <2>1 DEF LibrariesRead
  <2>4. read[1].name \in Paths /\ read[1].content \in Texts
    BY <2>2, <2>3
  <2>5. Promise!SetLibrary(read[1].name, read[1].content)
    BY <1>4 DEF AddNextLibrary, AddLibrary, Promise!SetLibrary
  <2> QED
    BY <2>4, <2>5 DEF Promise!Next
<1>5. CASE Answer
  <2>1. ASSUME NEW s \in Subjects, GetScripts(s) PROVE Promise!Next
    BY <1>1, <2>1, GetScriptsAnswers DEF Promise!Next
  <2>2. ASSUME NEW s \in Subjects, NEW n \in Names, DeleteScript(s, n) PROVE Promise!Next
    BY <1>1, <2>2, DeleteScriptIsSet DEF Promise!Next
  <2>3. ASSUME NEW ps \in SUBSET Paths, LoadLibrairies(ps) PROVE Promise!Next
    <3>1. Promise!LoadLibrairies
      BY <2>3 DEF LoadLibrairies, Promise!LoadLibrairies
    <3> QED
      BY <3>1 DEF Promise!Next
  <2>4. ASSUME NEW p \in Paths, RemoveLibrary(p) PROVE Promise!Next
    <3>1. Promise!SetLibrary(p, None)
      BY <2>4 DEF RemoveLibrary, Promise!SetLibrary
    <3> QED
      BY <3>1 DEF Promise!Next
  <2>5. ASSUME ListSubjects PROVE Promise!Next
    BY <1>1, <2>5, ListSubjectsAnswers DEF Promise!Next
  <2>6. Promise!Next
    <3>1. \/ \E s \in Subjects : GetScripts(s) \/ \E n \in Names : DeleteScript(s, n)
          \/ \E ps \in SUBSET Paths : LoadLibrairies(ps)
          \/ \E p \in Paths : RemoveLibrary(p)
          \/ ListSubjects
      BY <1>5 DEF Answer
    <3> HIDE DEF Ok, Error
    <3> QED
      BY <2>1, <2>2, <2>3, <2>4, <2>5, <3>1
  <2> QED
    BY <2>6
<1>6. CASE Read \/ Fail \/ ReadLibraries \/ Serve \/ UNCHANGED allVars
  <2>1. UNCHANGED storeVars
    BY <1>6 DEF Read, Fail, ReadLibraries, Serve, allVars
  <2> QED
    BY <1>2, <2>1
<1> QED
  BY <1>3, <1>4, <1>5, <1>6 DEF BackendNext, Start

\* While StoreByName fills it and while it serves, the file store answers as one map of
\* subjects and names would, for any directories and any calls.
THEOREM FileStoreImplementsStore == BackendSpec => ImplementsStore
BY BackendInvariant, InitPromise, PromiseStep, PTL
   DEF BackendSpec, ImplementsStore, Promise!Spec

-----------------------------------------------------------------------------
(* All or nothing: the part of it that is no matter of time.                 *)

\* The files that were read could be opened, in the directory being read as in the one
\* before it.
HaveOpened ==
    Starting =>
        /\ \A i \in DOMAIN dir : i < file /\ dir[i].lua => dir[i].opens
        /\ pos # 0 - 1 => dir[file].opens
        /\ phase = "libs" => \A i \in DOMAIN scriptDir : scriptDir[i].lua => scriptDir[i].opens

\* A process that was given a directory with a script it cannot open does not serve.
Barred == phase # "serving" /\ (Starting => Unfit) /\ HaveOpened

\* Of an unfit directory nothing has been read at first.
LEMMA BarredInit == BackendInit /\ Unfit => Barred
<1> SUFFICES ASSUME BackendInit, Unfit PROVE Barred
  OBVIOUS
<1>1. scriptDir \in Seq(ToSet(scriptDir)) /\ dir = scriptDir /\ file = 1 /\ pos = 0 - 1
      /\ phase = "scripts"
  BY DEF BackendInit
<1>2. \A i \in DOMAIN dir : ~(i < file)
  BY <1>1
<1> QED
  BY <1>1, <1>2 DEF Barred, HaveOpened, Starting

\* The reader passes no script that it has not opened.
LEMMA BarredRead == ASSUME BackendInv, Barred, Read PROVE Barred'
<1>1. /\ Starting /\ Position /\ Unfit /\ HaveOpened /\ phase # "serving"
      /\ UNCHANGED startVars
  BY DEF Read, Barred, BackendInv
<1>2. Starting' /\ Unfit' /\ phase' # "serving" /\ scriptDir' = scriptDir /\ phase' = phase
  BY <1>1 DEF Starting, Unfit, Libraries, startVars
<1>3. file \in Nat /\ DOMAIN dir \subseteq Nat
  BY <1>1, DirectoryRead
<1>4. UNCHANGED dir /\ file' \in {file, file + 1}
  BY DEF Read, Reader!Next, Reader!Skip, Reader!Open, Reader!Scan, Reader!Place, Reader!Return
<1>5. file' # file => ~dir[file].lua \/ dir[file].opens
  BY <1>1, <1>3 DEF Read, Reader!Next, Reader!Skip, Reader!Open, Reader!Scan, Reader!Place,
     Reader!Return, Reader!File, HaveOpened
<1>6. pos' # 0 - 1 => file' = file /\ dir[file].opens
  BY <1>1, <1>3 DEF Read, Reader!Next, Reader!Skip, Reader!Open, Reader!Scan, Reader!Place,
     Reader!Return, Reader!File, HaveOpened
<1>7. \A i \in DOMAIN dir : i < file' => i < file \/ (i = file /\ file' # file)
  BY <1>3, <1>4
<1>8. \A i \in DOMAIN dir' : i < file' /\ dir'[i].lua => dir'[i].opens
  BY <1>1, <1>4, <1>5, <1>7 DEF HaveOpened
<1> QED
  BY <1>1, <1>2, <1>4, <1>6, <1>8 DEF Barred, HaveOpened

\* When a directory has been read, all its scripts could be opened.
LEMMA AllOpened ==
    ASSUME BackendInv, HaveOpened, Starting, status = "done"
    PROVE  \A i \in DOMAIN dir : dir[i].lua => dir[i].opens
<1>1. Position
  BY DEF BackendInv
<1>2. file = Len(dir) + 1 /\ DOMAIN dir = 1..Len(dir) /\ Len(dir) \in Nat
  BY <1>1, DirectoryRead DEF Position
<1>3. \A i \in DOMAIN dir : i < file
  BY <1>2
<1> QED
  BY <1>3 DEF HaveOpened

LEMMA BarredStep == BackendInv /\ Barred /\ [BackendNext]_allVars => Barred'
<1> SUFFICES ASSUME BackendInv, Barred, [BackendNext]_allVars PROVE Barred'
  OBVIOUS
<1>1. phase # "serving" /\ (Starting => Unfit) /\ HaveOpened
  BY DEF Barred
<1>2. CASE Fail
  BY <1>2 DEF Fail, Barred, Starting, HaveOpened
<1>3. CASE AddNextScript \/ AddNextLibrary \/ UNCHANGED allVars
  <2>1. UNCHANGED <<startVars, dir, file, pos>>
    BY <1>3 DEF AddNextScript, AddNextLibrary, allVars, readerVars
  <2> QED
    BY <1>1, <2>1 DEF Barred, HaveOpened, Starting, Unfit, Libraries, startVars
<1>4. CASE ReadLibraries
  <2>1. /\ phase = "scripts" /\ status = "done" /\ libraryDir # NoDir /\ Starting /\ Position
        /\ phase' = "libs" /\ dir' = libraryDir /\ file' = 1 /\ pos' = 0 - 1
        /\ UNCHANGED <<scriptDir, libraryDir>>
    BY <1>4 DEF ReadLibraries, Reader!Call, Starting, BackendInv
  <2>2. \A i \in DOMAIN scriptDir : scriptDir[i].lua => scriptDir[i].opens
    BY <1>1, <2>1, AllOpened, DirectoryRead
  <2>3. libraryDir \in Seq(ToSet(libraryDir))
    BY <2>1 DEF Position
  <2>4. \A i \in DOMAIN dir' : ~(i < file')
    BY <2>1, <2>3
  <2>5. Unfit'
    BY <1>1, <2>1 DEF Unfit, Libraries
  <2> QED
    BY <2>1, <2>2, <2>4, <2>5 DEF Barred, HaveOpened
<1>5. CASE Serve
  <2>1. /\ Starting /\ status = "done" /\ Position /\ Unfit
        /\ phase = "libs" \/ (phase = "scripts" /\ libraryDir = NoDir)
    BY <1>1, <1>5 DEF Serve, Starting, BackendInv
  <2>2. \A i \in DOMAIN dir : dir[i].lua => dir[i].opens
    BY <1>1, <2>1, AllOpened
  <2>3. CASE phase = "libs"
    <3>1. Libraries = dir
      BY <2>1, <2>3, DirectoryRead DEF Position, Libraries
    <3> QED
      BY <1>1, <2>1, <2>2, <2>3, <3>1 DEF Unfit, HaveOpened
  <2>4. CASE phase = "scripts" /\ libraryDir = NoDir
    <3>1. Libraries = <<>> /\ dir = scriptDir /\ DOMAIN <<>> = {}
      BY <2>1, <2>4, DirectoryRead DEF Libraries
    <3> QED
      BY <2>1, <2>2, <3>1 DEF Unfit
  <2> QED
    BY <2>1, <2>3, <2>4
<1>6. ~Answer
  BY <1>1 DEF Answer
<1> QED
  BY <1>2, <1>3, <1>4, <1>5, <1>6, BarredRead DEF BackendNext, Start

\* A process never serves where a script or a library cannot be opened: the half of
\* AllOrNothing that needs no fairness.
THEOREM NothingOfUnfit == BackendSpec => (Unfit => [](phase # "serving"))
<1>1. Barred => phase # "serving"
  BY DEF Barred
<1> QED
  BY <1>1, BarredInit, BarredStep, BackendInvariant, PTL DEF BackendSpec
=============================================================================
