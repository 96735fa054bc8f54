---------------------------- MODULE HttpProxy_proofs ----------------------------
(***************************************************************************)
(* Proofs about HttpProxy, for any servers, requests, scripts and          *)
(* timeouts.                                                               *)
(***************************************************************************)
EXTENDS HttpProxy, SequenceTheorems, TLAPS

USE ServerAssumption, RequestAssumption

\* What is appended joins the elements, and no other.
LEMMA AppendElements ==
    ASSUME NEW S, NEW sq \in Seq(S), NEW e \in S
    PROVE  Append(sq, e) \in Seq(S) /\ ToSet(Append(sq, e)) = ToSet(sq) \cup {e}
<1>1. Append(sq, e) \in Seq(S) /\ Len(Append(sq, e)) = Len(sq) + 1
  OBVIOUS
<1>2. DOMAIN Append(sq, e) = 1..Len(sq) + 1 /\ DOMAIN sq = 1..Len(sq) /\ Len(sq) \in Nat
  BY <1>1
<1>3. \A i \in 1..Len(sq) : Append(sq, e)[i] = sq[i]
  OBVIOUS
<1>4. Append(sq, e)[Len(sq) + 1] = e
  OBVIOUS
<1>5. ToSet(Append(sq, e)) \subseteq ToSet(sq) \cup {e}
  <2>1. ASSUME NEW i \in 1..Len(sq) + 1 PROVE Append(sq, e)[i] \in ToSet(sq) \cup {e}
    <3>1. CASE i \in 1..Len(sq)
      BY <3>1, <1>2, <1>3 DEF ToSet
    <3>2. CASE i = Len(sq) + 1
      BY <3>2, <1>4
    <3> QED
      BY <3>1, <3>2, <1>2
  <2> QED
    BY <2>1, <1>2 DEF ToSet
<1>6. ToSet(sq) \cup {e} \subseteq ToSet(Append(sq, e))
  <2>1. \A i \in 1..Len(sq) : sq[i] \in ToSet(Append(sq, e))
    BY <1>2, <1>3 DEF ToSet
  <2>2. e \in ToSet(Append(sq, e))
    BY <1>2, <1>4 DEF ToSet
  <2> QED
    BY <2>1, <2>2, <1>2 DEF ToSet
<1> QED
  BY <1>1, <1>5, <1>6

\* The head and the elements of the tail are elements of the sequence.
LEMMA TailElements ==
    ASSUME NEW S, NEW sq \in Seq(S), sq # <<>>
    PROVE  /\ Head(sq) \in S /\ Tail(sq) \in Seq(S)
           /\ Head(sq) \in ToSet(sq) /\ ToSet(Tail(sq)) \subseteq ToSet(sq)
<1>1. /\ Head(sq) \in S /\ Tail(sq) \in Seq(S) /\ Head(sq) = sq[1]
      /\ Len(sq) \in Nat /\ Len(sq) # 0 /\ DOMAIN sq = 1..Len(sq)
      /\ Len(Tail(sq)) = Len(sq) - 1 /\ DOMAIN Tail(sq) = 1..Len(sq) - 1
      /\ \A i \in 1..Len(sq) - 1 : Tail(sq)[i] = sq[i + 1]
  BY HeadTailProperties
<1>2. 1 \in DOMAIN sq /\ \A i \in 1..Len(sq) - 1 : i + 1 \in DOMAIN sq
  BY <1>1
<1>3. Head(sq) \in ToSet(sq)
  BY <1>1, <1>2 DEF ToSet
<1>4. \A i \in DOMAIN Tail(sq) : Tail(sq)[i] \in ToSet(sq)
  BY <1>1, <1>2 DEF ToSet
<1>5. ToSet(Tail(sq)) \subseteq ToSet(sq)
  BY <1>4 DEF ToSet
<1> QED
  BY <1>1, <1>3, <1>5

-----------------------------------------------------------------------------
\* The variables one by one.
Types ==
    /\ req \in [Requests -> {"idle", "waiting", "over"}]
    /\ age \in [Requests -> 0..WriteTimeout]
    /\ response \in [Requests -> Responses]
    /\ answers \in SUBSET [to : Requests, from : Servers, answer : Answers]
    /\ queue \in [Servers -> Seq(Requests)]
    /\ cur \in [Servers -> Requests \cup {NoRequest}]
    /\ exec \in [Servers -> [Scripts -> {"none", "asking", "running"}]]
    /\ results \in [Servers -> Seq(Result)]

\* Only a callback at work has goroutines.
Goroutines ==
    \A s \in Servers, x \in Scripts :
        exec[s][x] # "none" => cur[s] # NoRequest /\ x \in ScriptsOf[cur[s]]

TypeInv == Types /\ Goroutines

\* The initial state is well typed.
LEMMA InitTypes == Init => TypeInv
<1> SUFFICES ASSUME Init PROVE TypeInv
  OBVIOUS
<1>1. Silence \in Responses
  BY EmptySeq DEF Silence, Responses
<1>2. \A S : <<>> \in Seq(S)
  BY EmptySeq
<1> QED
  BY <1>1, <1>2 DEF Init, TypeInv, Types, Goroutines

\* A request that is published, or fails at once, keeps the types.
LEMMA PublishTypes ==
    ASSUME TypeInv, NEW q \in Requests, Publish(q)
    PROVE  /\ req' \in [Requests -> {"idle", "waiting", "over"}]
           /\ age' \in [Requests -> 0..WriteTimeout]
           /\ response' \in [Requests -> Responses]
           /\ queue' \in [Servers -> Seq(Requests)]
<1>1. [Silence EXCEPT !.status = "503"] \in Responses
  BY EmptySeq DEF Silence, Responses
<1>2. \A s \in Servers : Append(queue[s], q) \in Seq(Requests)
  BY AppendElements DEF TypeInv, Types
<1>3. CASE Kind[q] = "script" /\ Timeout[q] = 0
  <2> DEFINE r == [Silence EXCEPT !.status = "503"]
  <2>1. /\ req' = [req EXCEPT ![q] = "over"] /\ response' = [response EXCEPT ![q] = r]
        /\ UNCHANGED <<age, queue>>
    BY <1>3 DEF Publish
  <2>2. r \in Responses
    BY <1>1
  <2> HIDE DEF r
  <2> QED
    BY <2>1, <2>2 DEF TypeInv, Types
<1>4. CASE ~(Kind[q] = "script" /\ Timeout[q] = 0)
  <2>1. /\ req' = [req EXCEPT ![q] = "waiting"] /\ UNCHANGED <<age, response>>
        /\ queue' = [s \in Servers |-> Append(queue[s], q)]
    BY <1>4 DEF Publish
  <2> QED
    BY <1>2, <2>1 DEF TypeInv, Types
<1> QED
  BY <1>3, <1>4

\* The status of a response is one of a few.
LEMMA StatusType ==
    ASSUME NEW q \in Requests, NEW a \in Answers
    PROVE  Status(q, a) \in {"json", "page", "listing", "500", "aborted"}
BY DEF Status, StatusOf, Answers

\* What a client is told keeps the types.
LEMMA EndTypes ==
    ASSUME TypeInv, NEW q \in Requests, NEW by \in Servers \cup {Nobody}, NEW rs \in Seq(Result),
           NEW status \in {"json", "page", "listing", "500", "503", "aborted"},
           End(q, status, by, rs)
    PROVE  /\ req' \in [Requests -> {"idle", "waiting", "over"}]
           /\ age' \in [Requests -> 0..WriteTimeout]
           /\ response' \in [Requests -> Responses]
<1>1. [status |-> IF age[q] >= WriteTimeout THEN "cut" ELSE status, by |-> by, results |-> rs]
        \in Responses
  BY DEF Responses
<1> QED
  BY <1>1 DEF End, TypeInv, Types

\* What a goroutine sends keeps the types.
LEMMA SentTypes ==
    ASSUME TypeInv, NEW s \in Servers, NEW x \in Scripts, NEW kind \in Endings \cup {"locked"},
           Sent(s, x, kind)
    PROVE  /\ results' \in [Servers -> Seq(Result)]
           /\ exec' \in [Servers -> [Scripts -> {"none", "asking", "running"}]]
           /\ exec' = [exec EXCEPT ![s][x] = "none"]
           /\ ToSet(results'[s]) = ToSet(results[s]) \cup {[script |-> x, kind |-> kind]}
           /\ \A t \in Servers : t # s => results'[t] = results[t]
<1>1. [script |-> x, kind |-> kind] \in Result
  BY DEF Result
<1>2. /\ Append(results[s], [script |-> x, kind |-> kind]) \in Seq(Result)
      /\ ToSet(Append(results[s], [script |-> x, kind |-> kind])) =
           ToSet(results[s]) \cup {[script |-> x, kind |-> kind]}
  BY <1>1, AppendElements DEF TypeInv, Types
<1> QED
  BY <1>2 DEF Sent, TypeInv, Types

\* What is sent to a requester keeps the types.
LEMMA SendTypes ==
    ASSUME TypeInv, NEW q \in Requests, NEW s \in Servers, NEW a \in Answers, Send(q, s, a)
    PROVE  answers' \in SUBSET [to : Requests, from : Servers, answer : Answers]
BY DEF Send, TypeInv, Types

\* An answer without results, and one with those of the goroutines.
LEMMA AnswerTypes ==
    /\ \A kind \in {"error", "listing"} : Answer(kind, <<>>) \in Answers
    /\ \A rs \in Seq(Result) : Answer("results", rs) \in Answers
    /\ \A a \in Answers : a.results \in Seq(Result)
<1>1. <<>> \in Seq(Result)
  BY EmptySeq
<1> QED
  BY ONLY <1>1 DEF Answer, Answers

\* A callback takes the next message.
LEMMA TakeTypes ==
    ASSUME TypeInv, NEW s \in Servers, Take(s)
    PROVE  /\ queue' \in [Servers -> Seq(Requests)]
           /\ Head(queue[s]) \in Requests /\ Head(queue[s]) \in ToSet(queue[s])
           /\ \A t \in Servers : ToSet(queue'[t]) \subseteq ToSet(queue[t])
<1>1. queue[s] \in Seq(Requests) /\ queue[s] # <<>>
  BY DEF Take, TypeInv, Types
<1>2. /\ Head(queue[s]) \in Requests /\ Tail(queue[s]) \in Seq(Requests)
      /\ Head(queue[s]) \in ToSet(queue[s]) /\ ToSet(Tail(queue[s])) \subseteq ToSet(queue[s])
  BY <1>1, TailElements
<1> QED
  BY <1>2 DEF Take, TypeInv, Types

\* Every action keeps the types, and goroutines to callbacks at work.
LEMMA NextTypes == TypeInv /\ [Next]_vars => TypeInv'
<1> SUFFICES ASSUME TypeInv, [Next]_vars PROVE TypeInv'
  OBVIOUS
<1> USE DEF TypeInv, Types, Goroutines, proxyVars, serverVars
<1>1. ASSUME NEW q \in Requests, Request(q) PROVE TypeInv'
  BY <1>1, PublishTypes DEF Request
<1>2. ASSUME NEW q \in Requests, Expire(q) PROVE TypeInv'
  <2>1. <<>> \in Seq(Result)
    BY EmptySeq
  <2> QED
    BY <1>2, <2>1, EndTypes DEF Expire
<1>3. ASSUME NEW q \in Requests, NEW s \in Servers, Respond(q, s) PROVE TypeInv'
  <2>1. PICK m \in answers : /\ End(q, Status(q, m.answer), s, m.answer.results)
                             /\ answers' = answers \ {m}
    BY <1>3 DEF Respond
  <2>2. m.answer \in Answers /\ m.answer.results \in Seq(Result)
    BY AnswerTypes
  <2>3. /\ req' \in [Requests -> {"idle", "waiting", "over"}]
        /\ age' \in [Requests -> 0..WriteTimeout]
        /\ response' \in [Requests -> Responses]
    <3>1. Status(q, m.answer) \in {"json", "page", "listing", "500", "503", "aborted"}
      BY <2>2, StatusType
    <3>2. s \in Servers \cup {Nobody}
      OBVIOUS
    <3> HIDE DEF Types, Goroutines, TypeInv
    <3> QED
      BY <2>1, <2>2, <3>1, <3>2, EndTypes
  <2> QED
    BY <1>3, <2>1, <2>3 DEF Respond
<1>4. ASSUME NEW q \in Requests, NEW s \in Servers, Drop(q, s) PROVE TypeInv'
  BY <1>4 DEF Drop
<1>5. CASE Tick
  <2>1. \A q \in Waiting : age[q] + 1 \in 0..WriteTimeout
    <3>1. \A q \in Requests : Limit(q) \in Nat /\ Limit(q) <= WriteTimeout
      BY DEF Limit
    <3> QED
      BY <1>5, <3>1 DEF Tick, Waiting
  <2> QED
    BY <1>5, <2>1 DEF Tick
<1>6. ASSUME NEW s \in Servers, Answered(s) PROVE TypeInv'
  BY <1>6, TakeTypes, SendTypes, AnswerTypes DEF Answered
<1>7. ASSUME NEW s \in Servers, LookupError(s) PROVE TypeInv'
  BY <1>7, TakeTypes, SendTypes, AnswerTypes DEF LookupError
<1>8. ASSUME NEW s \in Servers, Lookup(s) PROVE TypeInv'
  <2>1. Take(s) /\ queue' \in [Servers -> Seq(Requests)] /\ Head(queue[s]) \in Requests
    BY <1>8, TakeTypes DEF Lookup
  <2>2. \A x \in Scripts : exec[s][x] = "none"
    BY <1>8 DEF Lookup
  <2> DEFINE q == Head(queue[s])
  <2>3. /\ cur' = [cur EXCEPT ![s] = q]
        /\ exec' = [exec EXCEPT ![s] =
              [x \in Scripts |-> IF x \in ScriptsOf[q] THEN "asking" ELSE "none"]]
        /\ UNCHANGED <<req, age, response, answers, results>>
    BY <1>8 DEF Lookup
  <2> HIDE DEF q
  <2>4. q \in Requests
    BY <2>1 DEF q
  <2>5. Types'
    BY <2>1, <2>3, <2>4
  <2>6. Goroutines'
    BY <2>2, <2>3, <2>4
  <2> QED
    BY <2>5, <2>6
<1>9. ASSUME NEW s \in Servers, Reply(s) PROVE TypeInv'
  <2>1. cur[s] \in Requests /\ results[s] \in Seq(Result)
    BY <1>9 DEF Reply
  <2>2. answers' \in SUBSET [to : Requests, from : Servers, answer : Answers]
    BY <1>9, <2>1, AnswerTypes, SendTypes DEF Reply
  <2>3. <<>> \in Seq(Result)
    BY EmptySeq
  <2> QED
    BY <1>9, <2>2, <2>3 DEF Reply
<1>10. ASSUME NEW s \in Servers, NEW x \in Scripts, TakeLock(s, x) PROVE TypeInv'
  BY <1>10 DEF TakeLock
<1>11. ASSUME NEW s \in Servers, NEW x \in Scripts, Refused(s, x) PROVE TypeInv'
  <2>1. /\ results' \in [Servers -> Seq(Result)]
        /\ exec' \in [Servers -> [Scripts -> {"none", "asking", "running"}]]
        /\ exec' = [exec EXCEPT ![s][x] = "none"]
    BY <1>11, SentTypes DEF Refused
  <2> QED
    BY <1>11, <2>1 DEF Refused
<1>12. ASSUME NEW s \in Servers, NEW x \in Scripts, Call(s, x) PROVE TypeInv'
  <2>1. cur[s] \in Requests /\ Calls[<<cur[s], s, x>>] \in Requests
    BY <1>12 DEF Call
  <2> QED
    BY <1>12, <2>1, PublishTypes DEF Call
<1>13. ASSUME NEW s \in Servers, NEW x \in Scripts, ScriptEnds(s, x) PROVE TypeInv'
  <2>1. PICK kind \in Ends[x] : Sent(s, x, kind)
    BY <1>13 DEF ScriptEnds
  <2>2. kind \in Endings \cup {"locked"}
    OBVIOUS
  <2>3. /\ results' \in [Servers -> Seq(Result)]
        /\ exec' \in [Servers -> [Scripts -> {"none", "asking", "running"}]]
        /\ exec' = [exec EXCEPT ![s][x] = "none"]
    BY <2>1, <2>2, SentTypes
  <2> QED
    BY <1>13, <2>3 DEF ScriptEnds
<1>14. CASE UNCHANGED vars
  BY <1>14 DEF vars
<1> QED
  BY <1>1, <1>2, <1>3, <1>4, <1>5, <1>6, <1>7, <1>8, <1>9, <1>10, <1>11, <1>12, <1>13, <1>14
  DEF Next, Proxy, Callback, Execute

\* The types hold in every state.
LEMMA TypesHold == Spec => []TypeInv
BY InitTypes, NextTypes, PTL DEF Spec

\* Whatever the clients ask for, only a callback at work has goroutines, those of its
\* request's scripts.
THEOREM ProxyTypeCorrect == Spec => []ProxyTypeOK
<1>1. TypeInv => ProxyTypeOK
  BY DEF TypeInv, Types, Goroutines, ProxyTypeOK
<1> QED
  BY <1>1, TypesHold, PTL
-----------------------------------------------------------------------------
\* Only requests that were made are queued, handled or answered.
Made ==
    \A q \in Requests : req[q] = "idle" =>
        /\ \A s \in Servers : cur[s] # q /\ q \notin ToSet(queue[s])
        /\ \A m \in answers : m.to # q

\* While a request made by a script waits, the script runs in the callback of its server,
\* which has not answered the request.
Busy(c) ==
    /\ req[Calls[c]] = "waiting" => cur[c[2]] = c[1] /\ exec[c[2]][c[3]] = "running"
    /\ \A m \in answers : m.to = Calls[c] /\ m.from = c[2] => req[Calls[c]] = "over"
    /\ response[Calls[c]].by # c[2]

InnerInv == Made /\ \A c \in DOMAIN Calls : Calls[c] # NoRequest => Busy(c)

\* What is published for q is q alone, and q was idle.
LEMMA PublishMade ==
    ASSUME TypeInv, Made, NEW q \in Requests, Publish(q), UNCHANGED <<answers, cur>>
    PROVE  /\ Made'
           /\ req[q] = "idle" /\ req'[q] # "idle"
           /\ \A p \in Requests : p # q => req'[p] = req[p] /\ response'[p] = response[p]
           /\ response'[q].by \in {response[q].by, Nobody}
<1>1. req[q] = "idle" /\ req' \in {[req EXCEPT ![q] = "over"], [req EXCEPT ![q] = "waiting"]}
  BY DEF Publish
<1>2. req'[q] # "idle" /\ \A p \in Requests : p # q => req'[p] = req[p]
  BY <1>1 DEF TypeInv, Types
<1>3. \A s \in Servers : ToSet(queue'[s]) \subseteq ToSet(queue[s]) \cup {q}
  <2>1. \A s \in Servers : ToSet(Append(queue[s], q)) = ToSet(queue[s]) \cup {q}
    BY AppendElements DEF TypeInv, Types
  <2> QED
    BY <2>1 DEF Publish
<1>4. Made'
  BY <1>2, <1>3 DEF Made
<1> DEFINE r == [Silence EXCEPT !.status = "503"]
<1>5. \/ UNCHANGED response
      \/ response' = [response EXCEPT ![q] = r]
  BY DEF Publish
<1>6. r.by = Nobody
  BY DEF Silence
<1> HIDE DEF r
<1>7. /\ \A p \in Requests : p # q => response'[p] = response[p]
      /\ response'[q].by \in {response[q].by, Nobody}
  BY <1>5, <1>6 DEF TypeInv, Types
<1> QED
  BY <1>1, <1>2, <1>4, <1>7

\* An answer of s to a request that no script of s waits for breaks nothing.
LEMMA SendInner ==
    ASSUME TypeInv, InnerInv, NEW q \in Requests, NEW s \in Servers, NEW a, Send(q, s, a),
           UNCHANGED req, req[q] # "idle",
           \A c \in DOMAIN Calls : Calls[c] = q /\ c[2] = s => req[q] # "waiting"
    PROVE  /\ \A p \in Requests : req[p] = "idle" => \A m \in answers' : m.to # p
           /\ \A c \in DOMAIN Calls : Calls[c] # NoRequest =>
                \A m \in answers' : m.to = Calls[c] /\ m.from = c[2] => req'[Calls[c]] = "over"
<1>1. answers' \subseteq answers \cup {[to |-> q, from |-> s, answer |-> a]}
  BY DEF Send
<1>2. req[q] \in {"idle", "waiting", "over"}
  BY DEF TypeInv, Types
<1> QED
  BY <1>1, <1>2 DEF InnerInv, Made, Busy

\* A callback that takes a message, with nothing in hand, breaks nothing.
LEMMA IdleInner ==
    ASSUME TypeInv, InnerInv, NEW s \in Servers, cur[s] = NoRequest, NEW c \in DOMAIN Calls,
           Calls[c] # NoRequest, c[2] = s
    PROVE  req[Calls[c]] # "waiting"
<1>1. c[1] \in Requests /\ Busy(c)
  BY DEF InnerInv
<1> QED
  BY <1>1 DEF Busy

\* Nothing was asked for in the initial state.
LEMMA InitInner == Init => InnerInv
<1> SUFFICES ASSUME Init PROVE InnerInv
  OBVIOUS
<1>1. \A s \in Servers : queue[s] = <<>> /\ ToSet(queue[s]) = {}
  BY DEF Init, ToSet
<1>2. \A c \in DOMAIN Calls : c[1] \in Requests /\ c[2] \in Servers /\ c[3] \in Scripts
  OBVIOUS
<1>3. Made
  BY <1>1 DEF Init, Made
<1>4. \A c \in DOMAIN Calls : Calls[c] # NoRequest => Busy(c)
  BY <1>2 DEF Init, Busy, Silence
<1> QED
  BY <1>3, <1>4 DEF InnerInv

\* Every action keeps the callback of a script busy while its request waits.
LEMMA NextInner == TypeInv /\ InnerInv /\ [Next]_vars => InnerInv'
<1> SUFFICES ASSUME TypeInv, InnerInv, [Next]_vars PROVE InnerInv'
  OBVIOUS
<1> USE DEF proxyVars, serverVars
<1>0. \A c \in DOMAIN Calls :
        /\ c[1] \in Requests /\ c[2] \in Servers /\ c[3] \in Scripts /\ c = <<c[1], c[2], c[3]>>
        /\ Calls[c] \in Requests \cup {NoRequest}
  OBVIOUS
<1>1. ASSUME NEW q \in Requests, Request(q) PROVE InnerInv'
  <2>1. Publish(q) /\ UNCHANGED <<answers, cur, exec>> /\ q \notin Inner
    BY <1>1 DEF Request
  <2>2. /\ Made'
        /\ \A p \in Requests : p # q => req'[p] = req[p] /\ response'[p] = response[p]
    BY <2>1, PublishMade DEF InnerInv
  <2>3. \A c \in DOMAIN Calls : Calls[c] # q
    BY <2>1 DEF Inner
  <2> QED
    BY <1>0, <2>1, <2>2, <2>3 DEF InnerInv, Busy
<1>2. ASSUME NEW q \in Requests, NEW status, NEW by, NEW rs, End(q, status, by, rs),
             req[q] = "waiting",
             answers' \subseteq answers, UNCHANGED serverVars,
             \A c \in DOMAIN Calls : Calls[c] = q => by # c[2]
      PROVE  InnerInv'
  <2> DEFINE r == [status |-> IF age[q] >= WriteTimeout THEN "cut" ELSE status, by |-> by, results |-> rs]
  <2>1. req' = [req EXCEPT ![q] = "over"] /\ response' = [response EXCEPT ![q] = r]
    BY <1>2 DEF End
  <2>2. r.by = by
    OBVIOUS
  <2> HIDE DEF r
  <2>3. /\ req'[q] = "over" /\ response'[q].by = by
        /\ \A p \in Requests : p # q => req'[p] = req[p] /\ response'[p] = response[p]
    BY <2>1, <2>2 DEF TypeInv, Types
  <2>4. Made'
    BY <1>2, <2>3 DEF InnerInv, Made
  <2>5. \A c \in DOMAIN Calls : Calls[c] # NoRequest => Busy(c)'
    BY <1>0, <1>2, <2>3 DEF InnerInv, Busy
  <2> QED
    BY <2>4, <2>5 DEF InnerInv
<1>3. ASSUME NEW q \in Requests, Expire(q) PROVE InnerInv'
  <2>1. \A c \in DOMAIN Calls : Nobody # c[2]
    BY <1>0
  <2> QED
    BY <1>2, <1>3, <2>1 DEF Expire
<1>4. ASSUME NEW q \in Requests, NEW s \in Servers, Respond(q, s) PROVE InnerInv'
  <2>1. PICK m \in answers : /\ m.to = q /\ m.from = s /\ answers' = answers \ {m}
                             /\ End(q, Status(q, m.answer), s, m.answer.results)
    BY <1>4 DEF Respond
  <2>2. req[q] = "waiting" /\ UNCHANGED serverVars /\ answers' \subseteq answers
    BY <1>4, <2>1 DEF Respond
  <2>3. \A c \in DOMAIN Calls : Calls[c] = q => s # c[2]
    BY <2>1, <2>2 DEF InnerInv, Busy
  <2> QED
    BY <1>2, <2>1, <2>2, <2>3
<1>5. ASSUME NEW q \in Requests, NEW s \in Servers, Drop(q, s) PROVE InnerInv'
  BY <1>5 DEF Drop, InnerInv, Made, Busy
<1>6. CASE Tick
  BY <1>6 DEF Tick, InnerInv, Made, Busy
<1>7. ASSUME NEW s \in Servers, Answered(s) \/ LookupError(s) PROVE InnerInv'
  <2>1. /\ Take(s) /\ cur[s] = NoRequest
        /\ UNCHANGED <<req, response, cur, exec>>
    BY <1>7 DEF Answered, LookupError
  <2> DEFINE q == Head(queue[s])
  <2>2. /\ q \in Requests /\ q \in ToSet(queue[s])
        /\ \A t \in Servers : ToSet(queue'[t]) \subseteq ToSet(queue[t])
    BY <2>1, TakeTypes
  <2>3. PICK a : Send(q, s, a)
    BY <1>7 DEF Answered, LookupError
  <2> HIDE DEF q
  <2>4. req[q] # "idle"
    BY <2>2 DEF InnerInv, Made
  <2>5. \A c \in DOMAIN Calls : Calls[c] = q /\ c[2] = s => req[q] # "waiting"
    BY <2>1, <2>2, IdleInner
  <2>6. /\ \A p \in Requests : req[p] = "idle" => \A m \in answers' : m.to # p
        /\ \A c \in DOMAIN Calls : Calls[c] # NoRequest =>
             \A m \in answers' : m.to = Calls[c] /\ m.from = c[2] => req'[Calls[c]] = "over"
    BY <2>1, <2>2, <2>3, <2>4, <2>5, SendInner
  <2>7. Made'
    BY <2>1, <2>2, <2>6 DEF InnerInv, Made
  <2>8. \A c \in DOMAIN Calls : Calls[c] # NoRequest => Busy(c)'
    BY <2>1, <2>6 DEF InnerInv, Busy
  <2> QED
    BY <2>7, <2>8 DEF InnerInv
<1>8. ASSUME NEW s \in Servers, Lookup(s) PROVE InnerInv'
  <2>1. /\ Take(s) /\ cur[s] = NoRequest
        /\ UNCHANGED <<req, response, answers>>
    BY <1>8 DEF Lookup
  <2> DEFINE q == Head(queue[s])
  <2>2. /\ q \in Requests /\ q \in ToSet(queue[s])
        /\ \A t \in Servers : ToSet(queue'[t]) \subseteq ToSet(queue[t])
    BY <2>1, TakeTypes
  <2>3. /\ cur'[s] = q
        /\ \A t \in Servers : t # s => cur'[t] = cur[t] /\ exec'[t] = exec[t]
    BY <1>8 DEF Lookup, TypeInv, Types
  <2> HIDE DEF q
  <2>4. Made'
    BY <2>1, <2>2, <2>3 DEF InnerInv, Made
  <2>5. \A c \in DOMAIN Calls : Calls[c] # NoRequest /\ c[2] = s => req[Calls[c]] # "waiting"
    BY <2>1, IdleInner
  <2>6. \A c \in DOMAIN Calls : Calls[c] # NoRequest => Busy(c)'
    BY <1>0, <2>1, <2>3, <2>5 DEF InnerInv, Busy
  <2> QED
    BY <2>4, <2>6 DEF InnerInv
<1>9. ASSUME NEW s \in Servers, Reply(s) PROVE InnerInv'
  <2>1. /\ cur[s] \in Requests /\ \A x \in Scripts : exec[s][x] = "none"
        /\ Send(cur[s], s, Answer("results", results[s]))
        /\ UNCHANGED <<req, response, queue, exec>>
    BY <1>9 DEF Reply, TypeInv, Types
  <2>2. cur'[s] = NoRequest /\ \A t \in Servers : t # s => cur'[t] = cur[t]
    BY <1>9 DEF Reply, TypeInv, Types
  <2>3. req[cur[s]] # "idle"
    BY <2>1 DEF InnerInv, Made
  <2>4. \A c \in DOMAIN Calls : Calls[c] # NoRequest /\ c[2] = s => req[Calls[c]] # "waiting"
    BY <1>0, <2>1 DEF InnerInv, Busy
  <2>5. /\ \A p \in Requests : req[p] = "idle" => \A m \in answers' : m.to # p
        /\ \A c \in DOMAIN Calls : Calls[c] # NoRequest =>
             \A m \in answers' : m.to = Calls[c] /\ m.from = c[2] => req'[Calls[c]] = "over"
    BY <2>1, <2>3, <2>4, SendInner
  <2>6. Made'
    BY <2>1, <2>2, <2>5 DEF InnerInv, Made
  <2>7. \A c \in DOMAIN Calls : Calls[c] # NoRequest => Busy(c)'
    BY <1>0, <2>1, <2>2, <2>4, <2>5 DEF InnerInv, Busy
  <2> QED
    BY <2>6, <2>7 DEF InnerInv
<1>10. ASSUME NEW s \in Servers, NEW x \in Scripts, TakeLock(s, x) \/ Refused(s, x)
       PROVE  InnerInv'
  <2>1. exec[s][x] = "asking" /\ UNCHANGED <<req, response, answers, queue, cur>>
    BY <1>10 DEF TakeLock, Refused
  <2>2. \E g \in {"none", "running"} : exec' = [exec EXCEPT ![s][x] = g]
    BY <1>10 DEF TakeLock, Refused, Sent
  <2>3. \A t \in Servers, y \in Scripts : exec[t][y] = "running" => exec'[t][y] = "running"
    BY <2>1, <2>2 DEF TypeInv, Types
  <2>4. Made'
    BY <2>1 DEF InnerInv, Made
  <2>5. \A c \in DOMAIN Calls : Calls[c] # NoRequest => Busy(c)'
    BY <1>0, <2>1, <2>3 DEF InnerInv, Busy
  <2> QED
    BY <2>4, <2>5 DEF InnerInv
<1>11. ASSUME NEW s \in Servers, NEW x \in Scripts, Call(s, x) PROVE InnerInv'
  <2>0. /\ exec[s][x] = "running" /\ cur[s] \in Requests
        /\ Calls[<<cur[s], s, x>>] \in Requests
    BY <1>11 DEF Call, TypeInv, Types, Goroutines
  <2>a. PICK d \in DOMAIN Calls : d = <<cur[s], s, x>>
    BY <2>0
  <2> DEFINE q == Calls[d]
  <2>1. exec[s][x] = "running" /\ cur[s] \in Requests /\ q \in Requests
    BY <2>0, <2>a
  <2>2. d[1] = cur[s] /\ d[2] = s /\ d[3] = x
    BY <2>a
  <2>3. Publish(q) /\ UNCHANGED <<answers, cur, exec>>
    BY <1>11, <2>a DEF Call
  <2>4. \A c \in DOMAIN Calls : Calls[c] = q => c = d
    BY <2>1
  <2> HIDE DEF q
  <2>5. /\ Made'
        /\ req[q] = "idle" /\ req'[q] # "idle"
        /\ \A p \in Requests : p # q => req'[p] = req[p] /\ response'[p] = response[p]
        /\ response'[q].by \in {response[q].by, Nobody}
    BY <2>1, <2>3, PublishMade DEF InnerInv
  <2>6. \A c \in DOMAIN Calls : Calls[c] # NoRequest /\ c # d => Busy(c)'
    BY <1>0, <2>3, <2>4, <2>5 DEF InnerInv, Busy
  <2>7. \A m \in answers : m.to # q
    BY <2>1, <2>5 DEF InnerInv, Made
  <2>8. response[q].by # s
    BY <1>0, <2>1, <2>2 DEF q, InnerInv, Busy
  <2>9. req'[Calls[d]] = "waiting" => cur'[s] = cur[s] /\ exec'[s][x] = "running"
    BY <2>1, <2>3
  <2>10. response'[Calls[d]].by # s
    BY <2>5, <2>8, ServerAssumption DEF q
  <2>11. \A m \in answers' : m.to # Calls[d]
    BY <2>3, <2>7 DEF q
  <2>12. Busy(d)'
    BY <2>1, <2>2, <2>3, <2>9, <2>10, <2>11 DEF Busy
  <2>13. \A c \in DOMAIN Calls : Calls[c] # NoRequest => Busy(c)'
    BY <2>6, <2>12
  <2> QED
    BY <2>5, <2>13 DEF InnerInv
<1>12. ASSUME NEW s \in Servers, NEW x \in Scripts, ScriptEnds(s, x) PROVE InnerInv'
  <2>1. /\ exec[s][x] = "running" /\ Calls[<<cur[s], s, x>>] \notin Waiting
        /\ exec' = [exec EXCEPT ![s][x] = "none"]
        /\ UNCHANGED <<req, response, answers, queue, cur>>
    BY <1>12 DEF ScriptEnds, Sent
  <2>2. \A t \in Servers, y \in Scripts : t # s \/ y # x => exec'[t][y] = exec[t][y]
    BY <2>1 DEF TypeInv, Types
  <2>3. Made'
    BY <2>1 DEF InnerInv, Made
  <2>4. ASSUME NEW c \in DOMAIN Calls, Calls[c] # NoRequest PROVE Busy(c)'
    <3>1. Busy(c)
      BY <2>4 DEF InnerInv
    <3>2. CASE c[2] = s /\ c[3] = x
      <4>1. req[Calls[c]] = "waiting" => c = <<cur[s], s, x>>
        BY <1>0, <3>1, <3>2 DEF Busy
      <4>2. req[Calls[c]] # "waiting"
        BY <1>0, <2>1, <2>4, <4>1 DEF Waiting
      <4> QED
        BY <2>1, <3>1, <4>2 DEF Busy
    <3>3. CASE ~(c[2] = s /\ c[3] = x)
      BY <1>0, <2>1, <2>2, <3>1, <3>3 DEF Busy
    <3> QED
      BY <3>2, <3>3
  <2> QED
    BY <2>3, <2>4 DEF InnerInv
<1>13. CASE UNCHANGED vars
  BY <1>13 DEF vars, InnerInv, Made, Busy
<1> QED
  BY <1>1, <1>3, <1>4, <1>5, <1>6, <1>7, <1>8, <1>9, <1>10, <1>11, <1>12, <1>13
  DEF Next, Proxy, Callback, Execute

\* However requests are nested, the server whose script makes a request is not the one
\* that answers it.
THEOREM InnerAnsweredElsewhereHolds == Spec => []InnerAnsweredElsewhere
<1>1. InnerInv => InnerAnsweredElsewhere
  BY DEF InnerInv, Busy, InnerAnsweredElsewhere
<1> QED
  BY <1>1, InitInner, NextInner, TypesHold, PTL DEF Spec
=============================================================================
