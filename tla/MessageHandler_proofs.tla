------------------------- MODULE MessageHandler_proofs -------------------------
(***************************************************************************)
(* Proofs about MessageHandler: what a requester is sent, whichever way    *)
(* the callback goes, though the server receives its own answers.          *)
(***************************************************************************)
EXTENDS MessageHandler, SequenceTheorems, FiniteSetTheorems, TLAPS

Result == [script : Scripts, kind : Kinds]
Answers ==
    [kind : {"ack", "error", "listing"}]
      \cup [kind : {"results"}, html : BOOLEAN, results : Seq(Result)]

Types ==
    /\ up \in BOOLEAN
    /\ unsent \in SUBSET Requests
    /\ inbox \in Seq(Message)
    /\ cur \in Message \cup {Idle}
    /\ phase \in {"idle", "lookup", "waiting"}
    /\ running \in SUBSET Scripts
    /\ allResults \in Seq(Result)
    /\ matched \in [Requests -> SUBSET Scripts]
    /\ replies \in [Requests -> Seq(Answers)]

\* What names a reply subject is a request: the answers a server receives do not.
Origin ==
    /\ \A i \in DOMAIN inbox : inbox[i].reply # "none" => inbox[i] \in Requests
    /\ cur # Idle /\ cur.reply # "none" => cur \in Requests
    /\ phase # "idle" => cur # Idle

\* Every request is in one place at most: not yet sent, at one place of the inbox, or
\* in the callback.
Once ==
    /\ \A i, k \in DOMAIN inbox : inbox[i] = inbox[k] /\ inbox[i] \in Requests => i = k
    /\ \A i \in DOMAIN inbox : inbox[i] \in Requests => inbox[i] \notin unsent /\ inbox[i] # cur
    /\ cur \notin unsent

Travel == Types /\ Origin /\ Once

\* What is published in answer to the message in the callback.
LEMMA Published ==
    ASSUME Travel, cur \in Message, NEW reps \in Seq(Answers), Publish(cur, reps)
    PROVE  /\ inbox' \in Seq(Message) /\ Len(inbox') >= Len(inbox)
           /\ \A i \in 1..Len(inbox) : inbox'[i] = inbox[i]
           /\ \A i \in 1..Len(inbox') : i > Len(inbox) => inbox'[i] \notin Requests /\ inbox'[i].reply = "none"
           /\ replies' \in [Requests -> Seq(Answers)]
           /\ \A m \in Requests : m # cur => replies'[m] = replies[m]
           /\ cur \in Requests /\ cur.reply = "none" => replies'[cur] = replies[cur]
           /\ cur \in Requests /\ cur.reply # "none" => replies'[cur] = replies[cur] \o reps
<1> DEFINE e == Echoes(cur, reps)
<1>1. e \in Seq(Message) /\ \A i \in 1..Len(e) : e[i] \notin Requests /\ e[i].reply = "none"
  <2>1. CASE cur.reply = "none"
    BY <2>1 DEF Echoes
  <2>2. CASE cur.reply # "none"
    <3> DEFINE f(i) == [id |-> cur.id, subject |-> cur.reply, reply |-> "none", parts |-> PartsOf(reps[i]),
                        json |-> TRUE, payload |-> FALSE, async |-> FALSE]
    <3>1. DOMAIN reps = 1..Len(reps) /\ Len(reps) \in Nat
      OBVIOUS
    <3>2. e = [i \in 1..Len(reps) |-> f(i)]
      BY <2>2, <3>1 DEF Echoes
    <3>3. \A i : PartsOf(reps[i]) \in 1..3
      BY DEF PartsOf
    <3>4. cur.id \in {r.id : r \in Requests} /\ cur.reply \in {"inbox", "list", "names", "info", "script"}
      BY <2>2 DEF Message
    <3>5. \A i : f(i) \in Message
      BY <3>3, <3>4 DEF Message
    <3>6. cur \in Requests
      BY <2>2, RequestAssumption DEF Travel, Origin
    <3>7. \A i : f(i) \notin Requests
      BY <2>2, <3>6, RequestAssumption
    <3>8. \A i : f(i).reply = "none"
      OBVIOUS
    <3> HIDE DEF f
    <3>9. e \in Seq(Message)
      BY <3>1, <3>2, <3>5, IsASeq
    <3>10. Len(e) = Len(reps)
      BY <3>1, <3>2, <3>9, LenProperties
    <3> HIDE DEF e
    <3> QED
      BY <3>2, <3>7, <3>8, <3>9, <3>10
  <2> QED
    BY <2>1, <2>2
<1>2. inbox' = inbox \o e
  BY DEF Publish
<1> HIDE DEF e
<1>3. /\ inbox' \in Seq(Message) /\ Len(inbox') = Len(inbox) + Len(e)
      /\ \A i \in 1..Len(inbox) + Len(e) : inbox'[i] = IF i <= Len(inbox) THEN inbox[i] ELSE e[i - Len(inbox)]
  BY <1>1, <1>2, ConcatProperties DEF Travel, Types
<1>4. Len(inbox) \in Nat /\ Len(e) \in Nat
  BY <1>1 DEF Travel, Types
<1>5. \A i \in 1..Len(inbox') : i > Len(inbox) => inbox'[i] \notin Requests /\ inbox'[i].reply = "none"
  <2> SUFFICES ASSUME NEW i \in 1..Len(inbox'), i > Len(inbox)
               PROVE  inbox'[i] \notin Requests /\ inbox'[i].reply = "none"
    OBVIOUS
  <2>1. i - Len(inbox) \in 1..Len(e) /\ inbox'[i] = e[i - Len(inbox)]
    BY <1>3, <1>4
  <2> QED
    BY <1>1, <2>1
<1>6. /\ replies' \in [Requests -> Seq(Answers)]
      /\ \A m \in Requests : m # cur => replies'[m] = replies[m]
      /\ cur \in Requests /\ cur.reply = "none" => replies'[cur] = replies[cur]
      /\ cur \in Requests /\ cur.reply # "none" => replies'[cur] = replies[cur] \o reps
  <2>1. \A s \in Seq(Answers) : s \o reps \in Seq(Answers)
    BY ConcatProperties
  <2> QED
    BY <2>1 DEF Publish, Requesters, Travel, Types
<1>7. Len(inbox') >= Len(inbox) /\ \A i \in 1..Len(inbox) : inbox'[i] = inbox[i]
  BY <1>3, <1>4
<1> QED
  BY <1>3, <1>5, <1>6, <1>7

\* What becomes of a message after something was published in answer to it.
LEMMA PublishTravels ==
    ASSUME Travel, cur \in Message, NEW reps \in Seq(Answers), Publish(cur, reps),
           UNCHANGED unsent, up' \in BOOLEAN, cur' \in {cur, Idle},
           phase' \in {"idle", "lookup", "waiting"}, phase' # "idle" => cur' = cur,
           running' \in SUBSET Scripts, allResults' \in Seq(Result),
           matched' \in [Requests -> SUBSET Scripts]
    PROVE  Travel'
<1>1. /\ inbox' \in Seq(Message) /\ Len(inbox') >= Len(inbox)
      /\ \A i \in 1..Len(inbox) : inbox'[i] = inbox[i]
      /\ \A i \in 1..Len(inbox') : i > Len(inbox) => inbox'[i] \notin Requests /\ inbox'[i].reply = "none"
      /\ replies' \in [Requests -> Seq(Answers)]
  BY Published
<1>2. DOMAIN inbox = 1..Len(inbox) /\ DOMAIN inbox' = 1..Len(inbox') /\ Len(inbox) \in Nat
  BY <1>1 DEF Travel, Types
<1>3. Idle \notin Message /\ Requests \subseteq Message
  BY RequestAssumption
<1>4. Types'
  BY <1>1 DEF Travel, Types
<1>5. Origin'
  <2>1. \A i \in DOMAIN inbox' : inbox'[i].reply # "none" => i \in DOMAIN inbox
    BY <1>1, <1>2
  <2>2. \A i \in DOMAIN inbox' : inbox'[i].reply # "none" => inbox'[i] \in Requests
    BY <1>1, <1>2, <2>1 DEF Travel, Origin
  <2> QED
    BY <1>3, <2>2 DEF Travel, Origin
<1>6. Once'
  <2>1. \A i \in DOMAIN inbox' : inbox'[i] \in Requests => i \in DOMAIN inbox /\ inbox'[i] = inbox[i]
    BY <1>1, <1>2
  <2>2. \A i, k \in DOMAIN inbox' : inbox'[i] = inbox'[k] /\ inbox'[i] \in Requests => i = k
    BY <2>1 DEF Travel, Once
  <2>3. \A i \in DOMAIN inbox' : inbox'[i] \in Requests => inbox'[i] \notin unsent' /\ inbox'[i] # cur'
    BY <1>3, <2>1 DEF Travel, Once
  <2>4. cur' \notin unsent'
    BY <1>3 DEF Travel, Once, Types
  <2> QED
    BY <2>2, <2>3, <2>4 DEF Once
<1> QED
  BY <1>4, <1>5, <1>6 DEF Travel

LEMMA AnswerTypes ==
    /\ \A kind \in {"ack", "error", "listing"} : Plain(kind) \in Answers
    /\ \A seq \in Seq(Result), html \in BOOLEAN : Results(seq, html) \in Answers
    /\ \A a, b \in Answers : <<a>> \in Seq(Answers) /\ <<a, b>> \in Seq(Answers)
  BY DEF Plain, Results, Answers

\* A step that neither sends, receives nor publishes.
LEMMA StayTravels ==
    ASSUME Travel, UNCHANGED <<unsent, inbox, replies>>, up' \in BOOLEAN, cur' \in {cur, Idle},
           phase' \in {"idle", "lookup", "waiting"}, phase' # "idle" => cur' = cur /\ cur # Idle,
           running' \in SUBSET Scripts, allResults' \in Seq(Result),
           matched' \in [Requests -> SUBSET Scripts]
    PROVE  Travel'
  BY RequestAssumption DEF Travel, Types, Origin, Once

\* The process ends.
LEMMA DeathTravels ==
    ASSUME Travel, up' = FALSE, inbox' = <<>>, Return, UNCHANGED <<unsent, matched>>,
           replies' \in [Requests -> Seq(Answers)]
    PROVE  Travel'
<1>1. DOMAIN inbox' = {} /\ inbox' \in Seq(Message)
  OBVIOUS
<1>2. cur' = Idle /\ phase' = "idle" /\ Idle \notin Requests
  BY RequestAssumption DEF Return
<1>3. Types'
  <2>1. allResults' = <<>> /\ allResults' \in Seq(Result) /\ running' = {}
    BY DEF Return
  <2>2. up' \in BOOLEAN /\ unsent' \in SUBSET Requests /\ matched' \in [Requests -> SUBSET Scripts]
    BY DEF Travel, Types
  <2> QED
    BY <1>1, <1>2, <2>1, <2>2 DEF Types
<1>4. Origin' /\ Once'
  BY <1>1, <1>2, <1>3 DEF Types, Origin, Once
<1> QED
  BY <1>3, <1>4 DEF Travel

LEMMA SendTravels == ASSUME Travel, NEW m \in Requests, Send(m) PROVE Travel'
<1>1. /\ m \in unsent /\ unsent' = unsent \ {m}
      /\ UNCHANGED <<up, cur, phase, running, allResults, matched, replies>>
  BY DEF Send, handlerVars, answerVars
<1>2. m \in Message /\ Requests \subseteq Message
  BY RequestAssumption
<1>3. CASE ~up
  <2>1. UNCHANGED inbox
    BY <1>3 DEF Send
  <2>2. Types'
    BY <1>1, <2>1 DEF Travel, Types
  <2>3. Origin' /\ Once'
    BY <1>1, <2>1 DEF Travel, Origin, Once
  <2> QED
    BY <2>2, <2>3 DEF Travel
<1>4. CASE up
  <2>1. inbox' = Append(inbox, m) /\ inbox \in Seq(Message)
    BY <1>4 DEF Send, Travel, Types
  <2>2. /\ inbox' \in Seq(Message) /\ Len(inbox') = Len(inbox) + 1 /\ inbox'[Len(inbox) + 1] = m
        /\ \A i \in 1..Len(inbox) : inbox'[i] = inbox[i]
        /\ DOMAIN inbox = 1..Len(inbox) /\ DOMAIN inbox' = 1..Len(inbox) + 1 /\ Len(inbox) \in Nat
    BY <1>2, <2>1, AppendProperties
  <2>3. \A i \in DOMAIN inbox' :
           (i \in DOMAIN inbox /\ inbox'[i] = inbox[i]) \/ (i = Len(inbox) + 1 /\ inbox'[i] = m)
    <3>1. \A i \in 1..Len(inbox) + 1 : i \in 1..Len(inbox) \/ i = Len(inbox) + 1
      BY <2>2
    <3> QED
      BY <2>2, <3>1
  <2>4. Types'
    BY <1>1, <2>2 DEF Travel, Types
  <2>5. Origin'
    BY <1>1, <2>3 DEF Travel, Origin
  <2>6. \A i \in DOMAIN inbox : inbox[i] # m
    BY <1>1 DEF Travel, Once
  <2>7. cur' \notin unsent' /\ cur # m
    BY <1>1 DEF Travel, Once
  <2>8. Once'
    BY <1>1, <2>3, <2>6, <2>7 DEF Travel, Once
  <2> QED
    BY <2>4, <2>5, <2>8 DEF Travel
<1> QED
  BY <1>3, <1>4

LEMMA ReceiveTravels ==
    ASSUME Travel, Receive
    PROVE  /\ Travel'
           /\ cur' = inbox[1] /\ 1 \in DOMAIN inbox
           /\ \A i \in DOMAIN inbox' : i + 1 \in DOMAIN inbox /\ inbox'[i] = inbox[i + 1]
<1>1. /\ cur = Idle /\ inbox # <<>> /\ cur' = Head(inbox) /\ inbox' = Tail(inbox)
      /\ inbox \in Seq(Message)
      /\ UNCHANGED <<up, unsent, phase, running, allResults, matched, replies>>
  BY DEF Receive, Travel, Types, answerVars
<1>2. /\ inbox' \in Seq(Message) /\ Len(inbox') = Len(inbox) - 1 /\ Len(inbox) \in Nat
      /\ \A i \in 1..Len(inbox') : inbox'[i] = inbox[i + 1]
      /\ cur' = inbox[1] /\ cur' \in Message
      /\ DOMAIN inbox = 1..Len(inbox) /\ DOMAIN inbox' = 1..Len(inbox') /\ Len(inbox) # 0
  BY <1>1, HeadTailProperties, EmptySeq
<1>3. 1 \in DOMAIN inbox /\ \A i \in DOMAIN inbox' : i + 1 \in DOMAIN inbox /\ inbox'[i] = inbox[i + 1]
  BY <1>2
<1>4. Types'
  BY <1>1, <1>2 DEF Travel, Types
<1>5. Origin'
  BY <1>1, <1>2, <1>3, RequestAssumption DEF Travel, Origin
<1>6. \A i, k \in DOMAIN inbox' : inbox'[i] = inbox'[k] /\ inbox'[i] \in Requests => i = k
  <2> SUFFICES ASSUME NEW i \in DOMAIN inbox', NEW k \in DOMAIN inbox',
                      inbox'[i] = inbox'[k], inbox'[i] \in Requests
               PROVE  i = k
    OBVIOUS
  <2>1. i + 1 = k + 1
    BY <1>3 DEF Travel, Once
  <2> QED
    BY <1>2, <2>1
<1>7. \A i \in DOMAIN inbox' : inbox'[i] \in Requests => inbox'[i] \notin unsent' /\ inbox'[i] # cur'
  <2> SUFFICES ASSUME NEW i \in DOMAIN inbox', inbox'[i] \in Requests
               PROVE  inbox'[i] \notin unsent' /\ inbox'[i] # cur'
    OBVIOUS
  <2>1. i + 1 # 1 /\ i + 1 \in DOMAIN inbox /\ inbox'[i] = inbox[i + 1]
    BY <1>2, <1>3
  <2> QED
    BY <1>1, <1>2, <1>3, <2>1 DEF Travel, Once
<1>8. cur' \notin unsent'
  BY <1>1, <1>2, <1>3 DEF Travel, Once, Types
<1> QED
  BY <1>2, <1>3, <1>4, <1>5, <1>6, <1>7, <1>8 DEF Travel, Once

LEMMA InitTravel == Init => Travel
  BY RequestAssumption DEF Init, Travel, Types, Origin, Once
-----------------------------------------------------------------------------
\* What the message in the callback has been sent before its scripts have run.
Before(m) == IF Async(m) THEN <<Plain("ack")>> ELSE <<>>

Protocol(m) ==
    /\ \A i \in DOMAIN replies[m] :
          /\ Final(replies[m][i]) => i = Len(replies[m])
          /\ ~Final(replies[m][i]) => i = 1 /\ m.subject = "script" /\ Async(m)
          /\ replies[m][i].kind = "results" /\ Async(m) => i = 2
    /\ m.reply = "none" => replies[m] = <<>>

\* A request that has not been handled has no replies.
Untouched(m) ==
    \/ m \in unsent
    \/ \E i \in DOMAIN inbox : inbox[i] = m
    \/ cur = m /\ phase = "idle"

Replied ==
    \A m \in Requests :
        /\ Untouched(m) => replies[m] = <<>>
        /\ cur = m /\ phase # "idle" =>
              /\ m.subject = "script" /\ (Async(m) => m.reply # "none")
              /\ replies[m] = Before(m)
        /\ ~Malformed(m) => Protocol(m)

\* The results gathered so far and the scripts still running are the scripts the
\* store returned.
Gathered ==
    /\ phase # "waiting" => allResults = <<>> /\ running = {}
    /\ phase = "waiting" /\ cur \in Requests =>
          /\ {r.script : r \in ToSet(allResults)} \cup running = matched[cur]
          /\ Len(allResults) + Cardinality(running) = Cardinality(matched[cur])

Complete(m) ==
    \A i \in DOMAIN replies[m] :
        replies[m][i].kind = "results" =>
            /\ {r.script : r \in ToSet(replies[m][i].results)} = matched[m]
            /\ Len(replies[m][i].results) = Cardinality(matched[m])

HInv == Travel /\ Replied /\ Gathered /\ \A m \in Requests : Complete(m)

\* Nothing was published before a first answer, but an acknowledgement.
LEMMA BeforeFacts ==
    ASSUME NEW m
    PROVE  /\ Before(m) \in Seq(Answers)
           /\ \A i \in DOMAIN Before(m) : Before(m)[i] = Plain("ack") /\ i = 1 /\ Async(m)
           /\ Len(Before(m)) = IF Async(m) THEN 1 ELSE 0
<1>1. CASE Async(m)
  BY <1>1, AnswerTypes DEF Before
<1>2. CASE ~Async(m)
  BY <1>2 DEF Before
<1> QED
  BY <1>1, <1>2

\* One final answer keeps the protocol, after the acknowledgement or instead of it.
LEMMA LastWord ==
    ASSUME NEW m, NEW a \in Answers, Final(a), NEW s \in Seq(Answers),
           s = <<>> \/ (m.subject = "script" /\ s = Before(m)),
           a.kind = "results" => s = Before(m),
           NEW t, t = s \o <<a>>
    PROVE  \A i \in DOMAIN t :
              /\ Final(t[i]) => i = Len(t)
              /\ ~Final(t[i]) => i = 1 /\ m.subject = "script" /\ Async(m)
              /\ t[i].kind = "results" /\ Async(m) => i = 2
              /\ t[i] = a \/ t[i] = Plain("ack")
<1>1. <<a>> \in Seq(Answers) /\ Len(<<a>>) = 1 /\ <<a>>[1] = a
  OBVIOUS
<1>2. /\ Len(s) \in Nat
      /\ \A i \in 1..Len(s) : s[i] = Plain("ack") /\ i = 1 /\ m.subject = "script" /\ Async(m)
      /\ a.kind = "results" /\ Async(m) => Len(s) = 1
  <2>1. Len(s) \in Nat /\ DOMAIN s = 1..Len(s)
    OBVIOUS
  <2>2. CASE s = <<>>
    <3>1. a.kind = "results" /\ Async(m) => Len(s) = 1
      BY BeforeFacts
    <3>2. Len(s) = 0
      BY <2>2
    <3> QED
      BY <2>1, <3>1, <3>2
  <2>3. CASE m.subject = "script" /\ s = Before(m)
    BY <2>1, <2>3, BeforeFacts
  <2> QED
    BY <2>2, <2>3
<1>3. /\ t \in Seq(Answers) /\ Len(t) = Len(s) + 1
      /\ \A i \in 1..Len(s) + 1 : t[i] = IF i <= Len(s) THEN s[i] ELSE <<a>>[i - Len(s)]
  BY <1>1, ConcatProperties
<1>4. ~Final(Plain("ack")) /\ Plain("ack").kind # "results"
  BY DEF Final, Plain
<1>5. \A i \in 1..Len(t) : (i \in 1..Len(s) /\ t[i] = Plain("ack")) \/ (i = Len(s) + 1 /\ t[i] = a)
  <2>1. \A i \in 1..Len(s) + 1 : (i \in 1..Len(s) /\ i <= Len(s)) \/ (i = Len(s) + 1 /\ i - Len(s) = 1 /\ ~(i <= Len(s)))
    BY <1>2
  <2> QED
    BY <1>1, <1>2, <1>3, <2>1
<1>6. DOMAIN t = 1..Len(t)
  BY <1>3
<1>7. ASSUME NEW i \in DOMAIN t
      PROVE  /\ Final(t[i]) => i = Len(t)
             /\ ~Final(t[i]) => i = 1 /\ m.subject = "script" /\ Async(m)
             /\ t[i].kind = "results" /\ Async(m) => i = 2
             /\ t[i] = a \/ t[i] = Plain("ack")
  <2>1. CASE i \in 1..Len(s) /\ t[i] = Plain("ack")
    BY <1>2, <1>4, <2>1
  <2>2. CASE i = Len(s) + 1 /\ t[i] = a
    BY <1>2, <1>3, <2>2
  <2> QED
    BY <1>5, <1>6, <2>1, <2>2
<1> QED
  BY <1>7

\* What can be said of a request that a step does not answer.
LEMMA Elsewhere ==
    ASSUME HInv, NEW m \in Requests, cur' # m, cur # m, replies'[m] = replies[m],
           matched'[m] = matched[m], Untouched(m)' => Untouched(m)
    PROVE  /\ Untouched(m)' => replies'[m] = <<>>
           /\ ~Malformed(m) => Protocol(m)'
           /\ Complete(m)'
  BY DEF HInv, Replied, Protocol, Complete

\* The callback returns, having answered its message or not.
LEMMA ReturnHolds ==
    ASSUME HInv, Travel', Return, UNCHANGED <<unsent, matched>>,
           \A m \in Requests : (\E i \in DOMAIN inbox' : inbox'[i] = m) => \E i \in DOMAIN inbox : inbox[i] = m,
           \A m \in Requests : m # cur => replies'[m] = replies[m],
           \A m \in Requests : m = cur => (~Malformed(m) => Protocol(m)') /\ Complete(m)'
    PROVE  HInv'
<1>1. cur' = Idle /\ phase' = "idle" /\ running' = {} /\ allResults' = <<>>
  BY DEF Return
<1>2. Idle \notin Requests
  BY RequestAssumption
<1>3. \A m \in Requests : Untouched(m)' => Untouched(m) /\ m # cur
  BY <1>1, <1>2 DEF Untouched, HInv, Travel, Once
<1>4. ASSUME NEW m \in Requests
      PROVE  /\ Untouched(m)' => replies'[m] = <<>>
             /\ ~Malformed(m) => Protocol(m)'
             /\ Complete(m)'
  <2>1. CASE m = cur
    BY <1>3, <2>1
  <2>2. CASE m # cur
    BY <1>1, <1>2, <1>3, <2>2, Elsewhere
  <2> QED
    BY <2>1, <2>2
<1>5. Replied'
  BY <1>1, <1>2, <1>4 DEF Replied, Malformed
<1>6. Gathered'
  BY <1>1 DEF Gathered
<1> QED
  BY <1>4, <1>5, <1>6 DEF HInv

LEMMA AnswerHolds ==
    ASSUME HInv, cur \in Message, NEW reps \in Seq(Answers), Publish(cur, reps), Return,
           UNCHANGED <<up, unsent, matched>>,
           \A m \in Requests : m = cur => (~Malformed(m) => Protocol(m)') /\ Complete(m)'
    PROVE  HInv'
<1>1. Travel'
  <2>1. /\ allResults' \in Seq(Result) /\ running' \in SUBSET Scripts
        /\ cur' = Idle /\ phase' = "idle"
    BY DEF Return
  <2> QED
    BY <2>1, PublishTravels DEF HInv, Travel, Types
<1>2. /\ \A i \in 1..Len(inbox) : inbox'[i] = inbox[i]
      /\ \A i \in 1..Len(inbox') : i > Len(inbox) => inbox'[i] \notin Requests
      /\ \A m \in Requests : m # cur => replies'[m] = replies[m]
  BY Published DEF HInv
<1>3. \A m \in Requests : (\E i \in DOMAIN inbox' : inbox'[i] = m) => \E i \in DOMAIN inbox : inbox[i] = m
  <2>1. /\ DOMAIN inbox = 1..Len(inbox) /\ DOMAIN inbox' = 1..Len(inbox')
        /\ Len(inbox) \in Nat /\ Len(inbox') \in Nat
    BY <1>1 DEF HInv, Travel, Types
  <2>2. \A i \in 1..Len(inbox') : i \in 1..Len(inbox) \/ i > Len(inbox)
    BY <2>1
  <2> QED
    BY <1>2, <2>1, <2>2
<1> QED
  BY <1>1, <1>2, <1>3, ReturnHolds

\* An answer that could not be published, and the callback returns.
LEMMA LostHolds ==
    ASSUME HInv, cur \in Message, Publish(cur, <<>>), Return, UNCHANGED <<up, unsent, matched>>
    PROVE  HInv'
<1>1. <<>> \in Seq(Answers) /\ \A s \in Seq(Answers) : s \o <<>> = s
  BY ConcatEmptySeq
<1>2. \A m \in Requests : m = cur => replies'[m] = replies[m]
  <2>1. \A m \in Requests : replies[m] \in Seq(Answers)
    BY DEF HInv, Travel, Types
  <2> QED
    BY <1>1, <2>1, Published DEF HInv
<1>3. \A m \in Requests : m = cur => (~Malformed(m) => Protocol(m)') /\ Complete(m)'
  BY <1>2 DEF HInv, Replied, Protocol, Complete
<1> QED
  BY <1>1, <1>3, AnswerHolds

\* A last answer of one word.
LEMMA OneWord ==
    ASSUME HInv, cur \in Message, NEW a \in Answers, Final(a), Publish(cur, <<a>>),
           Return, UNCHANGED <<up, unsent, matched>>,
           cur \in Requests => \/ replies[cur] = <<>>
                               \/ cur.subject = "script" /\ replies[cur] = Before(cur),
           a.kind = "results" => /\ cur \in Requests =>
                                       /\ replies[cur] = Before(cur)
                                       /\ {r.script : r \in ToSet(a.results)} = matched[cur]
                                       /\ Len(a.results) = Cardinality(matched[cur])
    PROVE  HInv'
<1>1. <<a>> \in Seq(Answers)
  OBVIOUS
<1>2. ASSUME NEW m \in Requests, m = cur
      PROVE  (~Malformed(m) => Protocol(m)') /\ Complete(m)'
  <2>1. CASE m.reply = "none"
    <3>1. replies'[m] = replies[m]
      BY <1>1, <1>2, <2>1, Published DEF HInv
    <3> QED
      BY <1>2, <3>1 DEF HInv, Replied, Protocol, Complete
  <2>2. CASE m.reply # "none"
    <3> DEFINE s == replies[m]
               t == s \o <<a>>
    <3>1. replies'[m] = t
      BY <1>1, <1>2, <2>2, Published DEF HInv
    <3>2. /\ a \in Answers /\ Final(a) /\ s \in Seq(Answers) /\ (s = <<>> \/ (m.subject = "script" /\ s = Before(m)))
          /\ a.kind = "results" => s = Before(m)
      BY <1>2 DEF HInv, Travel, Types
    <3>7. t = s \o <<a>>
      OBVIOUS
    <3> HIDE DEF s, t
    <3>3. \A i \in DOMAIN t :
             /\ Final(t[i]) => i = Len(t)
             /\ ~Final(t[i]) => i = 1 /\ m.subject = "script" /\ Async(m)
             /\ t[i].kind = "results" /\ Async(m) => i = 2
             /\ t[i] = a \/ t[i] = Plain("ack")
      BY <3>7, <3>2, LastWord
    <3>4. Plain("ack").kind # "results"
      BY DEF Plain
    <3>5. Protocol(m)'
      BY <2>2, <3>1, <3>3 DEF Protocol
    <3>6. Complete(m)'
      BY <1>2, <3>1, <3>3, <3>4 DEF Complete
    <3> QED
      BY <3>5, <3>6
  <2> QED
    BY <2>1, <2>2
<1> QED
  BY <1>1, <1>2, AnswerHolds

\* The same, whether it could be published or not.
LEMMA SentOrLost ==
    ASSUME HInv, cur \in Message, NEW a \in Answers, Final(a), Answer(cur, <<a>>),
           Return, UNCHANGED <<up, unsent, matched>>,
           cur \in Requests => \/ replies[cur] = <<>>
                               \/ cur.subject = "script" /\ replies[cur] = Before(cur),
           a.kind = "results" => /\ cur \in Requests =>
                                       /\ replies[cur] = Before(cur)
                                       /\ {r.script : r \in ToSet(a.results)} = matched[cur]
                                       /\ Len(a.results) = Cardinality(matched[cur])
    PROVE  HInv'
<1>1. PICK sent \in Arriving(<<a>>) : Publish(cur, sent)
  BY DEF Answer
<1>2. sent = <<>> \/ sent = <<a>>
  BY DEF Arriving
<1> QED
  BY <1>1, <1>2, LostHolds, OneWord

LEMMA DeathHolds ==
    ASSUME HInv, up' = FALSE, inbox' = <<>>, Return, UNCHANGED <<unsent, matched>>,
           replies' \in [Requests -> Seq(Answers)],
           \A m \in Requests : m # cur => replies'[m] = replies[m],
           \A m \in Requests : m = cur => (~Malformed(m) => Protocol(m)') /\ Complete(m)'
    PROVE  HInv'
<1>1. Travel'
  BY DeathTravels DEF HInv
<1>2. \A m \in Requests : ~\E i \in DOMAIN inbox' : inbox'[i] = m
  OBVIOUS
<1> QED
  BY <1>1, <1>2, ReturnHolds

\* The process panics and leaves what it had published.
LEMMA PanicHolds == ASSUME HInv, Panic PROVE HInv'
<1>1. /\ up' = FALSE /\ inbox' = <<>> /\ Return /\ UNCHANGED <<unsent, matched, replies>>
  BY DEF Panic, answerVars
<1>2. replies' \in [Requests -> Seq(Answers)]
  BY <1>1 DEF HInv, Travel, Types
<1>3. \A m \in Requests : (~Malformed(m) => Protocol(m)') /\ Complete(m)'
  BY <1>1 DEF HInv, Replied, Protocol, Complete
<1> QED
  BY <1>1, <1>2, <1>3, DeathHolds

\* A step that answers nobody and leaves the callback with its message, or takes one.
LEMMA QuietHolds ==
    ASSUME HInv, Travel', UNCHANGED <<replies, matched, phase, running, allResults>>,
           \A m \in Requests : Untouched(m)' => Untouched(m),
           cur' = cur \/ phase = "idle"
    PROVE  HInv'
<1>1. Replied'
  BY DEF HInv, Replied, Protocol, Malformed, Before
<1>2. Gathered'
  BY DEF HInv, Gathered
<1>3. \A m \in Requests : Complete(m)'
  BY DEF HInv, Complete
<1> QED
  BY <1>1, <1>2, <1>3 DEF HInv

\* What is in the callback when its action is one of an administrative subject's.
LEMMA HandlingFacts ==
    ASSUME HInv, NEW subjects, Handling(subjects)
    PROVE  /\ cur \in Message /\ phase = "idle" /\ cur.subject \in subjects
           /\ cur \in Requests => replies[cur] = <<>>
  BY DEF Handling, HInv, Travel, Types, Replied, Untouched

LEMMA WaitingFacts ==
    ASSUME HInv, phase # "idle"
    PROVE  /\ cur \in Message
           /\ cur \in Requests =>
                 /\ cur.subject = "script" /\ (Async(cur) => cur.reply # "none")
                 /\ replies[cur] = Before(cur)
  BY DEF HInv, Travel, Types, Origin, Replied

LEMMA ResultElements ==
    ASSUME NEW s \in Seq(Result), NEW r \in Result
    PROVE  /\ Append(s, r) \in Seq(Result) /\ Len(Append(s, r)) = Len(s) + 1
           /\ {x.script : x \in ToSet(Append(s, r))} = {x.script : x \in ToSet(s)} \cup {r.script}
<1> DEFINE t == Append(s, r)
<1>1. /\ t \in Seq(Result) /\ Len(t) = Len(s) + 1 /\ t[Len(s) + 1] = r
      /\ \A i \in 1..Len(s) : t[i] = s[i]
      /\ DOMAIN s = 1..Len(s) /\ DOMAIN t = 1..Len(s) + 1 /\ Len(s) \in Nat
  BY AppendProperties
<1>2. \A i \in 1..Len(s) + 1 : i \in 1..Len(s) \/ i = Len(s) + 1
  BY <1>1
<1>3. Len(s) + 1 \in DOMAIN t /\ DOMAIN s \subseteq DOMAIN t
  BY <1>1
<1> HIDE DEF t
<1>4. ToSet(t) = ToSet(s) \cup {r}
  BY <1>1, <1>2, <1>3 DEF ToSet
<1>5. {x.script : x \in ToSet(t)} = {x.script : x \in ToSet(s)} \cup {r.script}
  BY <1>4
<1> QED
  BY <1>1, <1>5 DEF t

LEMMA InitHolds == Init => HInv
<1> SUFFICES ASSUME Init PROVE HInv
  OBVIOUS
<1>1. Travel
  BY InitTravel
<1>2. Idle \notin Requests
  BY RequestAssumption
<1>3. Replied /\ Gathered /\ \A m \in Requests : Complete(m)
  BY <1>2 DEF Init, Replied, Untouched, Protocol, Gathered, Complete
<1> QED
  BY <1>1, <1>3 DEF HInv

\* Every action of the handler keeps the invariant.
LEMMA NextHolds == HInv /\ [Next]_vars => HInv'
<1> SUFFICES ASSUME HInv, [Next]_vars PROVE HInv'
  OBVIOUS
<1> USE DEF handlerVars, answerVars
<1>1. ASSUME NEW m \in Requests, Send(m) PROVE HInv'
  <2>1. /\ UNCHANGED <<up, cur, phase, running, allResults, matched, replies>>
        /\ m \in unsent /\ unsent' = unsent \ {m}
    BY <1>1 DEF Send
  <2>2. Travel'
    BY <1>1, SendTravels DEF HInv
  <2>3. \A k \in Requests : (\E i \in DOMAIN inbox' : inbox'[i] = k) =>
                               k = m \/ \E i \in DOMAIN inbox : inbox[i] = k
    <3>1. CASE up
      <4>1. inbox' = Append(inbox, m) /\ inbox \in Seq(Message) /\ m \in Message
        BY <1>1, <3>1, RequestAssumption DEF Send, HInv, Travel, Types
      <4>2. /\ \A i \in DOMAIN inbox' : i \in 1..Len(inbox) + 1
            /\ inbox'[Len(inbox) + 1] = m /\ Len(inbox) \in Nat /\ DOMAIN inbox = 1..Len(inbox)
            /\ \A i \in 1..Len(inbox) : inbox'[i] = inbox[i]
        BY <4>1, AppendProperties
      <4>3. \A i \in 1..Len(inbox) + 1 : i \in 1..Len(inbox) \/ i = Len(inbox) + 1
        BY <4>2
      <4> QED
        BY <4>2, <4>3
    <3>2. CASE ~up
      BY <1>1, <3>2 DEF Send
    <3> QED
      BY <3>1, <3>2
  <2>4. \A k \in Requests : Untouched(k)' => Untouched(k)
    BY <2>1, <2>3 DEF Untouched
  <2> QED
    BY <2>1, <2>2, <2>4, QuietHolds
<1>2. CASE Receive
  <2>1. /\ cur = Idle /\ UNCHANGED <<unsent, phase, running, allResults, matched, replies>>
    BY <1>2 DEF Receive
  <2>2. /\ Travel' /\ cur' = inbox[1] /\ 1 \in DOMAIN inbox
        /\ \A i \in DOMAIN inbox' : i + 1 \in DOMAIN inbox /\ inbox'[i] = inbox[i + 1]
    BY <1>2, ReceiveTravels DEF HInv
  <2>3. phase = "idle"
    BY <2>1 DEF HInv, Travel, Origin
  <2>4. \A k \in Requests : Untouched(k)' => Untouched(k)
    BY <2>1, <2>2 DEF Untouched
  <2> QED
    BY <2>1, <2>2, <2>3, <2>4, QuietHolds
<1>3. ASSUME Return, UNCHANGED <<up, unsent, inbox, matched, replies>> PROVE HInv'
  <2>1. /\ cur' = Idle /\ phase' = "idle" /\ running' \in SUBSET Scripts /\ allResults' \in Seq(Result)
    BY <1>3 DEF Return
  <2>2. Travel'
    BY <1>3, <2>1, StayTravels DEF HInv, Travel, Types
  <2>3. \A m \in Requests : (~Malformed(m) => Protocol(m)') /\ Complete(m)'
    BY <1>3 DEF HInv, Replied, Protocol, Complete
  <2> QED
    BY <1>3, <2>2, <2>3, ReturnHolds
<1>4. CASE Ignore
  BY <1>3, <1>4 DEF Ignore
<1>5. CASE List
  <2>1. cur \in Message /\ cur.subject # "script" /\ (cur \in Requests => replies[cur] = <<>>)
    BY <1>5, HandlingFacts DEF List
  <2>2. PICK kind \in {"listing", "error"} : Answer(cur, <<Plain(kind)>>)
    BY <1>5 DEF List
  <2>3. Plain(kind) \in Answers /\ Final(Plain(kind)) /\ Plain(kind).kind # "results"
    BY AnswerTypes DEF Final, Plain
  <2>4. Return /\ UNCHANGED <<up, unsent, matched>>
    BY <1>5 DEF List
  <2> QED
    BY <2>1, <2>2, <2>3, <2>4, SentOrLost
<1>6. CASE Info
  <2>1. cur \in Message /\ cur.subject = "info" /\ (cur \in Requests => replies[cur] = <<>>)
    BY <1>6, HandlingFacts DEF Info
  <2>2. PICK kind \in {"listing", "error"} :
          Answer(cur, IF cur.parts = 2 THEN <<Plain(kind)>> ELSE <<Plain("error"), Plain(kind)>>)
    BY <1>6 DEF Info
  <2>3. Plain(kind) \in Answers /\ Final(Plain(kind)) /\ Plain(kind).kind # "results"
    BY AnswerTypes DEF Final, Plain
  <2>4. Return /\ UNCHANGED <<up, unsent, matched>>
    BY <1>6 DEF Info
  <2>5. CASE cur.parts = 2
    BY <2>1, <2>2, <2>3, <2>4, <2>5, SentOrLost
  <2>6. CASE cur.parts # 2
    <3> DEFINE both == <<Plain("error"), Plain(kind)>>
    <3>1. PICK reps \in Arriving(both) : Publish(cur, reps)
      BY <2>2, <2>6 DEF Answer
    <3>2. reps \in Seq(Answers) /\ \A i \in DOMAIN reps : reps[i].kind # "results"
      <4>1. Plain("error") \in Answers /\ Plain("error").kind # "results"
        BY AnswerTypes DEF Plain
      <4>2. reps \in {<<>>, both} \/ reps = <<both[1]>> \/ reps = <<both[2]>>
        BY <3>1 DEF Arriving
      <4>3. CASE reps = <<>>
        BY <4>3
      <4>4. CASE reps = both
        BY <2>3, <4>1, <4>4
      <4>5. CASE reps = <<both[1]>>
        BY <4>1, <4>5
      <4>6. CASE reps = <<both[2]>>
        BY <2>3, <4>6
      <4> QED
        BY <4>2, <4>3, <4>4, <4>5, <4>6
    <3> HIDE DEF both
    <3>3. cur \in Requests => replies'[cur] \in {<<>>, reps}
      <4>1. <<>> \o reps = reps
        BY <3>2, ConcatEmptySeq
      <4>2. cur \in Requests /\ cur.reply = "none" => replies'[cur] = replies[cur]
        BY <2>1, <3>1, <3>2, Published DEF HInv
      <4>3. cur \in Requests /\ cur.reply # "none" => replies'[cur] = replies[cur] \o reps
        BY <2>1, <3>1, <3>2, Published DEF HInv
      <4> QED
        BY <2>1, <4>1, <4>2, <4>3
    <3>4. \A m \in Requests : m = cur => Malformed(m) /\ Complete(m)'
      BY <2>1, <2>6, <3>2, <3>3 DEF Malformed, Complete
    <3> QED
      BY <2>1, <2>4, <3>1, <3>2, <3>4, AnswerHolds
  <2> QED
    BY <2>5, <2>6
<1>7. CASE InfoPanic
  <2>1. cur \in Message /\ cur.subject = "info" /\ (cur \in Requests => replies[cur] = <<>>)
    BY <1>7, HandlingFacts DEF InfoPanic
  <2>2. /\ cur.parts = 1 /\ up' = FALSE /\ inbox' = <<>> /\ Return /\ UNCHANGED <<unsent, matched>>
    BY <1>7 DEF InfoPanic
  <2> DEFINE e == Plain("error")
  <2>3. \/ UNCHANGED replies
        \/ cur \in Requests /\ replies' = [replies EXCEPT ![cur] = Append(@, e)]
    BY <1>7 DEF InfoPanic, Requesters
  <2>4. e \in Answers /\ e.kind # "results"
    BY AnswerTypes DEF Plain
  <2> HIDE DEF e
  <2>5. Append(<<>>, e) = <<e>>
    OBVIOUS
  <2>6. <<e>> \in Seq(Answers) /\ \A i \in DOMAIN <<e>> : <<e>>[i].kind # "results"
    BY <2>4
  <2>7. /\ replies' \in [Requests -> Seq(Answers)]
        /\ \A m \in Requests : m # cur => replies'[m] = replies[m]
        /\ cur \in Requests => replies'[cur] \in {<<>>, <<e>>}
    BY <2>1, <2>3, <2>5, <2>6 DEF HInv, Travel, Types
  <2>8. \A m \in Requests : m = cur => Malformed(m) /\ Complete(m)'
    BY <2>1, <2>2, <2>6, <2>7 DEF Malformed, Complete
  <2> QED
    BY <2>2, <2>7, <2>8, DeathHolds
<1>8. CASE Decode
  <2>1. /\ cur \in Message /\ cur.subject = "script" /\ phase = "idle"
        /\ cur \in Requests => replies[cur] = <<>>
    BY <1>8, HandlingFacts DEF Decode
  <2>2. UNCHANGED <<up, unsent, matched>>
    BY <1>8 DEF Decode
  <2>3. CASE Async(cur) /\ Answer(cur, <<Plain("error")>>) /\ Return
    <3>1. Plain("error") \in Answers /\ Final(Plain("error")) /\ Plain("error").kind # "results"
      BY AnswerTypes DEF Final, Plain
    <3> QED
      BY <2>1, <2>2, <2>3, <3>1, SentOrLost
  <2> DEFINE reps == Before(cur)
  <2>4. ASSUME phase' = "lookup", UNCHANGED <<cur, running, allResults>>, Travel',
               \A m \in Requests : (\E i \in DOMAIN inbox' : inbox'[i] = m) => \E i \in DOMAIN inbox : inbox[i] = m,
               \A m \in Requests : m # cur => replies'[m] = replies[m],
               cur \in Requests => replies'[cur] = Before(cur),
               Async(cur) => cur.reply # "none"
        PROVE  HInv'
    <3>1. \A m \in Requests : Untouched(m)' => Untouched(m) /\ m # cur
      BY <2>1, <2>2, <2>4 DEF Untouched, HInv, Travel, Once
    <3>2. \A i \in DOMAIN Before(cur) : ~Final(Before(cur)[i]) /\ i = 1 /\ Async(cur)
                                         /\ Before(cur)[i].kind # "results"
      BY BeforeFacts DEF Final, Plain
    <3>3. ASSUME NEW m \in Requests, m = cur PROVE Protocol(m)' /\ Complete(m)'
      <4>1. Protocol(m)'
        <5>1. m.reply = "none" => replies'[m] = <<>>
          BY <2>4, <3>3 DEF Before
        <5> QED
          BY <2>1, <2>4, <3>2, <3>3, <5>1 DEF Protocol
      <4>2. Complete(m)'
        BY <2>4, <3>2, <3>3 DEF Complete
      <4> QED
        BY <4>1, <4>2
    <3>4. ASSUME NEW m \in Requests, m # cur
          PROVE  (Untouched(m)' => replies'[m] = <<>>) /\ (~Malformed(m) => Protocol(m)') /\ Complete(m)'
      BY <2>2, <2>4, <3>1, <3>4, Elsewhere
    <3>5. Replied'
      BY <2>1, <2>4, <3>1, <3>3, <3>4 DEF Replied, Malformed, Before
    <3>6. Gathered'
      BY <2>1, <2>4 DEF HInv, Gathered
    <3> QED
      BY <2>4, <3>3, <3>4, <3>5, <3>6 DEF HInv
  <2>5. CASE /\ ~Async(cur) /\ phase' = "lookup"
             /\ UNCHANGED <<inbox, replies, cur, running, allResults>>
    <3>1. Travel'
      <4>1. cur # Idle
        BY <2>1, RequestAssumption
      <4> QED
        BY <2>2, <2>5, <4>1, StayTravels DEF HInv, Travel, Types
    <3>2. cur \in Requests => replies'[cur] = Before(cur)
      BY <2>1, <2>5 DEF Before
    <3> QED
      BY <2>4, <2>5, <3>1, <3>2
  <2>6. CASE /\ Async(cur) /\ cur.reply # "none" /\ Publish(cur, <<Plain("ack")>>)
             /\ phase' = "lookup" /\ UNCHANGED <<cur, running, allResults>>
    <3>1. <<Plain("ack")>> \in Seq(Answers)
      BY AnswerTypes
    <3>2. Travel'
      BY <2>1, <2>2, <2>6, <3>1, PublishTravels DEF HInv, Travel, Types
    <3>3. /\ Len(inbox') >= Len(inbox)
          /\ \A i \in 1..Len(inbox) : inbox'[i] = inbox[i]
          /\ \A i \in 1..Len(inbox') : i > Len(inbox) => inbox'[i] \notin Requests
          /\ \A m \in Requests : m # cur => replies'[m] = replies[m]
          /\ cur \in Requests => replies'[cur] = replies[cur] \o <<Plain("ack")>>
      BY <2>1, <2>6, <3>1, Published DEF HInv
    <3>4. cur \in Requests => replies'[cur] = Before(cur)
      <4>1. <<>> \o <<Plain("ack")>> = <<Plain("ack")>>
        BY <3>1, ConcatEmptySeq
      <4> QED
        BY <2>1, <2>6, <3>3, <4>1 DEF Before
    <3>5. \A m \in Requests : (\E i \in DOMAIN inbox' : inbox'[i] = m) => \E i \in DOMAIN inbox : inbox[i] = m
      <4>1. /\ DOMAIN inbox = 1..Len(inbox) /\ DOMAIN inbox' = 1..Len(inbox')
            /\ Len(inbox) \in Nat /\ Len(inbox') \in Nat
        BY <3>2 DEF HInv, Travel, Types
      <4>2. \A i \in 1..Len(inbox') : i \in 1..Len(inbox) \/ i > Len(inbox)
        BY <4>1
      <4> QED
        BY <3>3, <4>1, <4>2
    <3> QED
      BY <2>4, <2>6, <3>2, <3>3, <3>4, <3>5
  <2> QED
    BY <1>8, <2>3, <2>5, <2>6 DEF Decode
<1>9. CASE LookupError
  <2>1. phase # "idle" /\ Answer(cur, <<Plain("error")>>) /\ Return /\ UNCHANGED <<up, unsent, matched>>
    BY <1>9 DEF LookupError
  <2>2. Plain("error") \in Answers /\ Final(Plain("error")) /\ Plain("error").kind # "results"
    BY AnswerTypes DEF Final, Plain
  <2> QED
    BY <2>1, <2>2, WaitingFacts, SentOrLost
<1>10. CASE Lookup
  <2>1. /\ phase = "lookup" /\ phase' = "waiting" /\ UNCHANGED <<up, unsent, inbox, cur, allResults, replies>>
    BY <1>10 DEF Lookup
  <2>2. PICK S \in SUBSET Scripts :
          /\ running' = S
          /\ matched' = IF cur \in Requests THEN [matched EXCEPT ![cur] = S] ELSE matched
    BY <1>10 DEF Lookup
  <2>3. /\ matched' \in [Requests -> SUBSET Scripts] /\ (cur \in Requests => matched'[cur] = S)
        /\ \A m \in Requests : m # cur => matched'[m] = matched[m]
    BY <2>2 DEF HInv, Travel, Types
  <2>4. cur # Idle
    BY <2>1 DEF HInv, Travel, Origin
  <2>5. Travel'
    BY <2>1, <2>2, <2>3, <2>4, StayTravels DEF HInv, Travel, Types
  <2>6. \A m \in Requests : Untouched(m)' => Untouched(m)
    BY <2>1 DEF Untouched
  <2>7. Replied'
    BY <2>1, <2>6 DEF HInv, Replied, Protocol, Malformed, Before
  <2>8. Gathered'
    <3>1. allResults' = <<>> /\ ToSet(<<>>) = {}
      BY <2>1 DEF HInv, Gathered, ToSet
    <3>2. IsFiniteSet(S)
      BY OutcomeAssumption, FS_Subset
    <3>3. Cardinality(S) \in Nat
      BY <3>2, FS_CardinalityType
    <3> QED
      BY <2>1, <2>2, <2>3, <3>1, <3>3 DEF Gathered
  <2>9. ASSUME NEW m \in Requests PROVE Complete(m)'
    <3>1. CASE m = cur
      <4>1. replies'[m] = Before(m)
        BY <2>1, <3>1 DEF HInv, Replied
      <4> QED
        BY <4>1, BeforeFacts DEF Complete, Plain
    <3>2. CASE m # cur
      BY <2>1, <2>3, <3>2 DEF HInv, Complete
    <3> QED
      BY <3>1, <3>2
  <2> QED
    BY <2>5, <2>7, <2>8, <2>9 DEF HInv
<1>11. ASSUME NEW s \in Scripts, RunScript(s) PROVE HInv'
  <2>1. /\ phase = "waiting" /\ s \in running /\ running' = running \ {s}
        /\ UNCHANGED <<up, unsent, inbox, cur, phase, matched, replies>>
    BY <1>11 DEF RunScript
  <2>2. PICK k \in Outcomes[s] : allResults' = Append(allResults, [script |-> s, kind |-> k])
    BY <1>11 DEF RunScript
  <2> DEFINE r == [script |-> s, kind |-> k]
  <2>3. r \in Result /\ r.script = s
    BY OutcomeAssumption DEF Result
  <2>4. allResults \in Seq(Result) /\ allResults' = Append(allResults, r)
    BY <2>2 DEF HInv, Travel, Types
  <2> HIDE DEF r
  <2>5. /\ allResults' \in Seq(Result) /\ Len(allResults') = Len(allResults) + 1
        /\ {x.script : x \in ToSet(allResults')} = {x.script : x \in ToSet(allResults)} \cup {s}
    BY <2>3, <2>4, ResultElements
  <2>6. cur # Idle
    BY <2>1 DEF HInv, Travel, Origin
  <2>7. Travel'
    BY <2>1, <2>5, <2>6, StayTravels DEF HInv, Travel, Types
  <2>8. Replied'
    BY <2>1 DEF HInv, Replied, Protocol, Malformed, Before, Untouched
  <2>9. Gathered'
    <3>1. IsFiniteSet(running)
      BY OutcomeAssumption, FS_Subset DEF HInv, Travel, Types
    <3>2. Cardinality(running') = Cardinality(running) - 1 /\ Cardinality(running) \in Nat
      BY <2>1, <3>1, FS_RemoveElement, FS_CardinalityType
    <3>3. Len(allResults) \in Nat
      BY <2>4
    <3>4. ASSUME cur \in Requests
          PROVE  /\ {x.script : x \in ToSet(allResults)} \cup running = matched[cur]
                 /\ Len(allResults) + Cardinality(running) = Cardinality(matched[cur])
      BY <2>1, <3>4 DEF HInv, Gathered
    <3>5. cur \in Requests => {x.script : x \in ToSet(allResults')} \cup running' = matched'[cur]
      BY <2>1, <2>5, <3>4
    <3>6. cur \in Requests => Len(allResults') + Cardinality(running') = Cardinality(matched'[cur])
      BY <2>1, <2>5, <3>2, <3>3, <3>4
    <3> QED
      BY <2>1, <3>5, <3>6 DEF Gathered
  <2>10. \A m \in Requests : Complete(m)'
    BY <2>1 DEF HInv, Complete
  <2> QED
    BY <2>7, <2>8, <2>9, <2>10 DEF HInv
<1>12. ASSUME NEW s \in Scripts, ScriptPanics(s) PROVE HInv'
  BY <1>12, PanicHolds DEF ScriptPanics
<1>13. CASE CollectPanics
  BY <1>13, PanicHolds DEF CollectPanics
<1>14. CASE Collect
  <2> DEFINE a == Results(allResults, \E r \in ToSet(allResults) : r.kind = "html")
  <2>1. /\ phase = "waiting" /\ running = {} /\ Answer(cur, <<a>>) /\ Return /\ UNCHANGED <<up, unsent, matched>>
    BY <1>14 DEF Collect, AllIn
  <2>2. a.kind = "results" /\ a.results = allResults
    BY DEF Results
  <2>3. a \in Answers /\ Final(a)
    <3>1. allResults \in Seq(Result)
      BY DEF HInv, Travel, Types
    <3> QED
      BY <3>1 DEF Results, Answers, Final
  <2>4. cur \in Requests => /\ {r.script : r \in ToSet(allResults)} = matched[cur]
                            /\ Len(allResults) = Cardinality(matched[cur])
    <3>1. Len(allResults) \in Nat /\ Cardinality({}) = 0
      BY FS_EmptySet DEF HInv, Travel, Types
    <3> QED
      BY <2>1, <3>1 DEF HInv, Gathered
  <2> HIDE DEF a
  <2> QED
    BY <2>1, <2>2, <2>3, <2>4, WaitingFacts, SentOrLost
<1>15. CASE UNCHANGED vars
  <2>1. Travel' /\ \A m \in Requests : Untouched(m)' => Untouched(m)
    BY <1>15 DEF vars, HInv, Travel, Types, Origin, Once, Untouched
  <2> QED
    BY <1>15, <2>1, QuietHolds DEF vars
<1> QED
  BY <1>1, <1>2, <1>4, <1>5, <1>6, <1>7, <1>8, <1>9, <1>10, <1>11, <1>12, <1>13, <1>14, <1>15
  DEF Next, Handle, Execute

\* However the steps of clients, callback and scripts interleave, and whatever panics.
THEOREM HandlerInvariant == Spec => []HInv
  BY InitHolds, NextHolds, PTL DEF Spec

\* Only requests are ever noted as unheard.
NotedAreRequests == unheard \in SUBSET Requests
LEMMA UnheardNext == NotedAreRequests /\ [Next]_vars => NotedAreRequests'
<1> SUFFICES ASSUME NotedAreRequests, [Next]_vars PROVE NotedAreRequests'
  OBVIOUS
<1> USE DEF NotedAreRequests
<1>1. ASSUME NEW reps, Answer(cur, reps) PROVE NotedAreRequests'
  BY <1>1 DEF Answer, Requesters
<1>2. CASE List \/ Info \/ LookupError \/ Collect
  BY <1>1, <1>2 DEF List, Info, LookupError, Collect
<1>3. CASE Decode
  BY <1>1, <1>3 DEF Decode, answerVars
<1>4. CASE Receive \/ Ignore \/ InfoPanic \/ Lookup \/ CollectPanics \/ Execute
           \/ (\E m \in Requests : Send(m)) \/ UNCHANGED vars
  BY <1>4 DEF Receive, Ignore, InfoPanic, Lookup, CollectPanics, Execute, RunScript,
     ScriptPanics, Panic, Send, vars, answerVars
<1> QED
  BY <1>2, <1>3, <1>4 DEF Next, Handle

\* The handler's state is well typed for any requests and scripts.
THEOREM HandlerTypeCorrect == Spec => []TypeOK
<1>1. HInv /\ NotedAreRequests => TypeOK
  BY DEF HInv, Travel, Types, TypeOK, Result, Answers, NotedAreRequests
<1>2. Init => NotedAreRequests
  BY DEF Init, NotedAreRequests
<1> QED
  BY <1>1, <1>2, UnheardNext, HandlerInvariant, PTL DEF Spec

\* For any requests and scripts, a requester gets one final reply at most and nothing
\* after it, and the results of an asynchronous run only after its acknowledgement,
\* whatever could not be published.
THEOREM ReplyProtocolHolds == Spec => []ReplyProtocol
<1>1. HInv => ReplyProtocol
  BY DEF HInv, Replied, Protocol, ReplyProtocol
<1> QED
  BY <1>1, HandlerInvariant, PTL

\* For any number of scripts, a reply has one result of each script that was looked up.
THEOREM ResultsCompleteHolds == Spec => []ResultsComplete
<1>1. HInv => ResultsComplete
  BY DEF HInv, Complete, ResultsComplete
<1> QED
  BY <1>1, HandlerInvariant, PTL

\* No script of an asynchronous message starts before the acknowledgement.
THEOREM AckBeforeRunHolds == Spec => []AckBeforeRun
<1>1. HInv => AckBeforeRun
  <2> SUFFICES ASSUME HInv, phase = "waiting", cur \in Requests, Async(cur)
               PROVE  \E i \in DOMAIN replies[cur] : replies[cur][i].kind = "ack"
    BY DEF AckBeforeRun
  <2>1. replies[cur] = <<Plain("ack")>>
    BY DEF HInv, Replied, Before
  <2> QED
    BY <2>1 DEF Plain
<1> QED
  BY <1>1, HandlerInvariant, PTL
=============================================================================
