------------------------------- MODULE HttpProxy -------------------------------
(***************************************************************************)
(* HTTP requests and the servers that answer them: ServeHTTP of            *)
(* src/cmd/server/http.go, the listings of http_scripts.go, and the NATS   *)
(* callbacks behind them.                                                  *)
(*                                                                         *)
(* A request becomes a NATS request on a subject.  Every server gets it,   *)
(* handles its messages one at a time and answers; the first answer that   *)
(* comes in time is the client's response.  A script may itself make HTTP  *)
(* requests, and waits for them.                                           *)
(*                                                                         *)
(* What a callback does is MessageHandler, and who gets the lock of a      *)
(* script ScriptLock; here a callback is reduced to the answers it gives,  *)
(* and any script may be refused its lock at any time.                     *)
(***************************************************************************)
EXTENDS Naturals, Sequences, SequencesExt

CONSTANTS
    Servers, Nobody,
    Requests, NoRequest,
    Scripts,        \* by their names
    Kind,           \* Kind[q]: "script", or a listing: "list", "names"
    ScriptsOf,      \* ScriptsOf[q]: the scripts of the subject of q
    Ends,           \* Ends[x]: how script x may end
    Endless,        \* the scripts without a deadline: those of WASM and podman
    Calls,          \* Calls[q, s, x]: the request x makes when s runs it for q
    Timeout,        \* Timeout[q]: five seconds, or what _timeout says, in ticks
    WriteTimeout    \* the HTTP server's ReadTimeout and WriteTimeout, in ticks

\* A string; an error; HTML; an HTML result without a status code, as a script
\* that fails in its GET or POST function leaves it.
Endings == {"text", "error", "page", "badpage"}

ASSUME ServerAssumption == Nobody \notin Servers /\ NoRequest \notin Requests
ASSUME RequestAssumption ==
    /\ Kind \in [Requests -> {"script", "list", "names"}]
    /\ ScriptsOf \in [Requests -> SUBSET Scripts]
    /\ Ends \in [Scripts -> SUBSET Endings] /\ Endless \subseteq Scripts
    /\ Calls \in [Requests \X Servers \X Scripts -> Requests \cup {NoRequest}]
    /\ \A c, d \in DOMAIN Calls : Calls[c] = Calls[d] => c = d \/ Calls[c] = NoRequest
    /\ Timeout \in [Requests -> Nat]
    /\ WriteTimeout \in Nat

VARIABLES
    req,        \* req[q]: "idle", "waiting" or "over"
    age,        \* age[q]: the ticks q has waited
    response,   \* response[q]: what its client was told, and by which server
    answers,    \* the answers on their way to the proxy
    queue,      \* queue[s]: the messages of the subscription of s
    cur,        \* cur[s]: the request in the callback of s
    exec,       \* exec[s][x]: the goroutine of x: "none", "asking" or "running"
    results     \* results[s]: what the goroutines sent, in order of arrival

proxyVars == <<req, age, response>>
serverVars == <<queue, cur, exec, results>>
vars == <<proxyVars, answers, serverVars>>

Result == [script : Scripts, kind : Endings \cup {"locked"}]
Answer(kind, rs) == [kind |-> kind, results |-> rs]
Answers ==
    [kind : {"results"}, results : Seq(Result)] \cup [kind : {"error", "listing"}, results : {<<>>}]

Silence == [status |-> "none", by |-> Nobody, results |-> <<>>]
Responses ==
    [status : {"none", "json", "page", "listing", "500", "503", "aborted", "cut"},
     by : Servers \cup {Nobody}, results : Seq(Result)]

Init ==
    /\ req = [q \in Requests |-> "idle"]
    /\ age = [q \in Requests |-> 0]
    /\ response = [q \in Requests |-> Silence]
    /\ answers = {}
    /\ queue = [s \in Servers |-> <<>>]
    /\ cur = [s \in Servers |-> NoRequest]
    /\ exec = [s \in Servers |-> [x \in Scripts |-> "none"]]
    /\ results = [s \in Servers |-> <<>>]

-----------------------------------------------------------------------------
(* The proxy.                                                                *)

\* A context that is done already fails before anything is published.  There is
\* always a responder: the servers subscribe to every subject.
Publish(q) ==
    /\ req[q] = "idle"
    /\ IF Kind[q] = "script" /\ Timeout[q] = 0
       THEN /\ req' = [req EXCEPT ![q] = "over"]
            /\ response' = [response EXCEPT ![q] = [Silence EXCEPT !.status = "503"]]
            /\ UNCHANGED queue
       ELSE /\ req' = [req EXCEPT ![q] = "waiting"]
            /\ queue' = [s \in Servers |-> Append(queue[s], q)]
            /\ UNCHANGED response
    /\ UNCHANGED age

\* A client makes a request.
Inner == {Calls[c] : c \in DOMAIN Calls}
Request(q) ==
    /\ q \notin Inner
    /\ Publish(q)
    /\ UNCHANGED <<answers, cur, exec, results>>

\* What is written after the write timeout does not reach the client.
End(q, status, by, rs) ==
    /\ req' = [req EXCEPT ![q] = "over"]
    /\ response' = [response EXCEPT ![q] =
          [status |-> IF age[q] >= WriteTimeout THEN "cut" ELSE status, by |-> by, results |-> rs]]
    /\ age' = [age EXCEPT ![q] = 0]

\* The first HTML result is the response; if there is none, all results are.
\* Writing a header without a status code panics, which drops the connection.
Pages(rs) == {i \in DOMAIN rs : rs[i].kind \in {"page", "badpage"}}
StatusOf(rs) ==
    IF Pages(rs) = {} THEN "json"
    ELSE IF rs[CHOOSE i \in Pages(rs) : \A k \in Pages(rs) : i <= k].kind = "page"
         THEN "page" ELSE "aborted"

\* ListScripts takes the first of the results without looking whether there is one.
Status(q, a) ==
    CASE a.kind = "results" -> StatusOf(a.results)
      [] a.kind = "listing" -> "listing"
      [] a.kind = "error" -> IF Kind[q] = "list" THEN "aborted" ELSE "500"

\* An answer that comes while the request waits is its response.
Respond(q, s) ==
    /\ req[q] = "waiting"
    /\ \E m \in answers :
          /\ m.to = q /\ m.from = s
          /\ End(q, Status(q, m.answer), s, m.answer.results)
          /\ answers' = answers \ {m}
    /\ UNCHANGED serverVars

\* The NATS client drops the answers nobody waits for.
Drop(q, s) ==
    /\ req[q] = "over"
    /\ \E m \in answers : m.to = q /\ m.from = s /\ answers' = answers \ {m}
    /\ UNCHANGED <<proxyVars, serverVars>>

\* A listing has no timeout but that of its connection, whose expiry cancels the
\* request's context.
Limit(q) ==
    IF Kind[q] = "script" /\ Timeout[q] < WriteTimeout THEN Timeout[q] ELSE WriteTimeout

\* Mutant of Expire: no context.WithTimeout, and no timeouts of the HTTP server.
ExpireNever(q) == FALSE /\ UNCHANGED vars

Expire(q) ==
    /\ req[q] = "waiting" /\ age[q] = Limit(q)
    /\ End(q, IF Kind[q] = "script" THEN "503" ELSE "500", Nobody, <<>>)
    /\ UNCHANGED <<answers, serverVars>>

\* Time passes; a timer that is due comes first.
Waiting == {q \in Requests : req[q] = "waiting"}
Tick ==
    /\ Waiting # {}
    /\ \A q \in Waiting : age[q] < Limit(q)
    /\ age' = [q \in Requests |-> IF q \in Waiting THEN age[q] + 1 ELSE age[q]]
    /\ UNCHANGED <<req, response, answers, serverVars>>

-----------------------------------------------------------------------------
(* The callbacks.                                                            *)

Take(s) ==
    /\ queue[s] # <<>>
    /\ queue' = [queue EXCEPT ![s] = Tail(@)]

\* A publish that fails is only logged: the answer is lost.
Send(q, s, a) ==
    \/ answers' = answers \cup {[to |-> q, from |-> s, answer |-> a]}
    \/ UNCHANGED answers

\* A listing, or the error of the store, before anything else is received.
Answered(s) ==
    /\ cur[s] = NoRequest /\ Take(s)
    /\ Kind[Head(queue[s])] # "script"
    /\ \E kind \in {"listing", "error"} : Send(Head(queue[s]), s, Answer(kind, <<>>))
    /\ UNCHANGED <<proxyVars, cur, exec, results>>

LookupError(s) ==
    /\ cur[s] = NoRequest /\ Take(s)
    /\ Kind[Head(queue[s])] = "script"
    /\ Send(Head(queue[s]), s, Answer("error", <<>>))
    /\ UNCHANGED <<proxyVars, cur, exec, results>>

\* Mutant of Lookup: a message may come while another is handled.
LookupAtOnce(s) ==
    /\ Take(s)
    /\ Kind[Head(queue[s])] = "script"
    /\ cur' = [cur EXCEPT ![s] = Head(queue[s])]
    /\ exec' = [exec EXCEPT ![s] =
          [x \in Scripts |-> IF x \in ScriptsOf[Head(queue[s])] THEN "asking" ELSE "none"]]
    /\ UNCHANGED <<proxyVars, answers, results>>

\* A goroutine for every script of the subject.
Lookup(s) ==
    /\ cur[s] = NoRequest /\ Take(s)
    /\ Kind[Head(queue[s])] = "script"
    /\ cur' = [cur EXCEPT ![s] = Head(queue[s])]
    /\ exec' = [exec EXCEPT ![s] =
          [x \in Scripts |-> IF x \in ScriptsOf[Head(queue[s])] THEN "asking" ELSE "none"]]
    /\ UNCHANGED <<proxyVars, answers, results>>

Sent(s, x, kind) ==
    /\ results' = [results EXCEPT ![s] = Append(@, [script |-> x, kind |-> kind])]
    /\ exec' = [exec EXCEPT ![s][x] = "none"]

\* The script begins.  A Lua script has got its lock, perhaps beside another server
\* whose lease has lapsed; the others take none.
TakeLock(s, x) ==
    /\ exec[s][x] = "asking"
    /\ exec' = [exec EXCEPT ![s][x] = "running"]
    /\ UNCHANGED <<proxyVars, answers, queue, cur, results>>

\* "cannot get lock", or a call of etcd that failed: a result like another.  The key
\* that is in the way may be that of a script at work, one not yet withdrawn, or one
\* that a failed call left behind, of this server as well.  Or the script is of WASM
\* or podman and cannot be begun.
Refused(s, x) ==
    /\ exec[s][x] = "asking"
    /\ Sent(s, x, "locked")
    /\ UNCHANGED <<proxyVars, answers, queue, cur>>

\* The script makes its request, to whichever server's proxy.
Call(s, x) ==
    /\ exec[s][x] = "running"
    /\ Calls[<<cur[s], s, x>>] # NoRequest
    /\ Publish(Calls[<<cur[s], s, x>>])
    /\ UNCHANGED <<answers, cur, exec, results>>

\* The script ends, with no request of its own waiting.
ScriptEnds(s, x) ==
    /\ exec[s][x] = "running"
    /\ Calls[<<cur[s], s, x>>] \notin Waiting
    /\ \E kind \in Ends[x] : Sent(s, x, kind)
    /\ UNCHANGED <<proxyVars, answers, queue, cur>>

\* Mutants of Reply: the callback waits for the requester to take its answer; it does
\* not wait for scripts that have begun.
ReplyToWaiting(s) ==
    /\ cur[s] \in Waiting
    /\ \A x \in Scripts : exec[s][x] = "none"
    /\ Send(cur[s], s, Answer("results", results[s]))
    /\ cur' = [cur EXCEPT ![s] = NoRequest]
    /\ results' = [results EXCEPT ![s] = <<>>]
    /\ UNCHANGED <<proxyVars, queue, exec>>

ReplyUnfinished(s) ==
    /\ cur[s] # NoRequest
    /\ \A x \in Scripts : exec[s][x] # "asking"
    /\ Send(cur[s], s, Answer("results", results[s]))
    /\ cur' = [cur EXCEPT ![s] = NoRequest]
    /\ results' = [results EXCEPT ![s] = <<>>]
    /\ UNCHANGED <<proxyVars, queue, exec>>

\* All goroutines are done: the answer is published and the callback returns.
Reply(s) ==
    /\ cur[s] # NoRequest
    /\ \A x \in Scripts : exec[s][x] = "none"
    /\ Send(cur[s], s, Answer("results", results[s]))
    /\ cur' = [cur EXCEPT ![s] = NoRequest]
    /\ results' = [results EXCEPT ![s] = <<>>]
    /\ UNCHANGED <<proxyVars, queue, exec>>

-----------------------------------------------------------------------------
Callback(s) == Answered(s) \/ LookupError(s) \/ Lookup(s) \/ Reply(s)
Execute(s, x) == TakeLock(s, x) \/ Refused(s, x) \/ Call(s, x) \/ ScriptEnds(s, x)
Proxy(q) == Expire(q) \/ \E s \in Servers : Respond(q, s) \/ Drop(q, s)

Next ==
    \/ \E q \in Requests : Request(q) \/ Proxy(q)
    \/ \E s \in Servers : Callback(s) \/ \E x \in Scripts : Execute(s, x)
    \/ Tick

Spec == Init /\ [][Next]_vars

\* Callbacks, goroutines and the proxy are scheduled, time passes and scripts that
\* have a deadline end.  No client need make a request, and no script the one it may
\* make.
FairSpec ==
    /\ Spec
    /\ \A q \in Requests : WF_vars(Proxy(q))
    /\ \A s \in Servers :
          /\ WF_vars(Callback(s))
          /\ \A x \in Scripts : WF_vars(TakeLock(s, x) \/ Refused(s, x))
          /\ \A x \in Scripts \ Endless : WF_vars(ScriptEnds(s, x))
    /\ WF_vars(Tick)

-----------------------------------------------------------------------------
(* Only the request in the callback has goroutines, those of its scripts.    *)
ProxyTypeOK ==
    /\ req \in [Requests -> {"idle", "waiting", "over"}]
    /\ age \in [Requests -> 0..WriteTimeout]
    /\ response \in [Requests -> Responses]
    /\ answers \in SUBSET [to : Requests, from : Servers, answer : Answers]
    /\ queue \in [Servers -> Seq(Requests)]
    /\ cur \in [Servers -> Requests \cup {NoRequest}]
    /\ exec \in [Servers -> [Scripts -> {"none", "asking", "running"}]]
    /\ results \in [Servers -> Seq(Result)]
    /\ \A s \in Servers, x \in Scripts :
          exec[s][x] # "none" => cur[s] # NoRequest /\ x \in ScriptsOf[cur[s]]

(* A script that makes a request to its own server waits for a callback that *)
(* waits for the script.  Nobody waits for ever: every HTTP request comes to *)
(* an end, through an answer or one of the timeouts.                         *)
EveryRequestEnds == \A q \in Requests : req[q] = "waiting" ~> req[q] = "over"

(* Clients that gave up leave scripts behind that run to their end: once     *)
(* there are no more requests, no answer is left and every callback returns, *)
(* but for those held up by a script without a deadline.                     *)
AtRest(s) == queue[s] = <<>> /\ cur[s] = NoRequest
HeldUp(s) == \E x \in Endless : exec[s][x] = "running"
ComesToRest ==
    <>[](Waiting = {} /\ answers = {} /\ \A s \in Servers : AtRest(s) \/ HeldUp(s))

(* The callback of a server is busy as long as a script of its own waits for *)
(* its request: when that request is answered with results, they are those   *)
(* of another server.  With one server it is never answered in time.         *)
InnerAnsweredElsewhere ==
    \A c \in DOMAIN Calls :
        (Calls[c] # NoRequest /\ response[Calls[c]].by # Nobody) => response[Calls[c]].by # c[2]
=============================================================================
