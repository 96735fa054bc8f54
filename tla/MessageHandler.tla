---------------------------- MODULE MessageHandler ----------------------------
(***************************************************************************)
(* The NATS callback of one server: the subscription on ">" in             *)
(* src/cmd/server/main.go, with the administrative answers of messages.go  *)
(* and the publishing helpers of reply.go.                                 *)
(*                                                                         *)
(* A message is a record:                                                  *)
(*   id       what tells it from others                                    *)
(*   subject  "inbox" (a reply inbox), "list", "names", "info" (the three  *)
(*            administrative subjects) or "script" (any other)             *)
(*   reply    where the answer is published: "none", or a subject          *)
(*   parts    for "info", how many comma-separated parts the data has      *)
(*   json     the data decodes as an executor.Message                      *)
(*   payload  the data sets the Message's payload                          *)
(*   async    the data sets the Message's async flag                       *)
(* An answer is a sequence of results, or one of the other kinds.          *)
(***************************************************************************)
EXTENDS Naturals, Sequences, FiniteSets, SequencesExt

CONSTANTS
    Requests,   \* the messages clients send, each once
    Scripts,    \* the scripts a store may hold
    Outcomes,   \* Outcomes[s]: how running s may end, see Kinds
    Endless,    \* the scripts that need not end: WASM modules and containers
    Idle        \* the handler between two messages

\* A ScriptResult, with or without IsHTML or Error; a nil *ScriptResult; a panic.
Kinds == {"plain", "html", "error", "nil", "panic"}

Message ==
    [id : {r.id : r \in Requests}, subject : {"inbox", "list", "names", "info", "script"},
     reply : {"none", "inbox", "list", "names", "info", "script"}, parts : 1..3,
     json : BOOLEAN, payload : BOOLEAN, async : BOOLEAN]

ASSUME RequestAssumption ==
    /\ Requests \subseteq Message /\ Idle \notin Message
    /\ \A r, q \in Requests : r.id = q.id => r = q
ASSUME OutcomeAssumption ==
    /\ IsFiniteSet(Scripts)
    /\ Outcomes \in [Scripts -> SUBSET Kinds]
    /\ Endless \subseteq Scripts

VARIABLES
    up,         \* the server process runs
    unsent,     \* the requests not yet published
    inbox,      \* the messages of the subscription, in order
    cur,        \* the message in the callback, or Idle
    phase,      \* what the callback does next with a script message
    running,    \* the scripts whose goroutine has not sent its result
    allResults, \* the channel of results, in order of arrival
    matched,    \* the scripts the store returned for each request
    replies,    \* what was published in answer to each request, in order
    unheard     \* the requests some answer to which could not be published

handlerVars == <<cur, phase, running, allResults>>
answerVars == <<replies, unheard>>
vars == <<up, unsent, inbox, handlerVars, matched, answerVars>>

Results(seq, html) == [kind |-> "results", results |-> seq, html |-> html]
Plain(kind) == [kind |-> kind]
Final(rep) == rep.kind # "ack"

\* What is in the inbox, in the callback and published.
TypeOK ==
    /\ up \in BOOLEAN
    /\ unsent \in SUBSET Requests
    /\ inbox \in Seq(Message)
    /\ cur \in Message \cup {Idle}
    /\ phase \in {"idle", "lookup", "waiting"}
    /\ running \in SUBSET Scripts
    /\ allResults \in Seq([script : Scripts, kind : Kinds])
    /\ matched \in [Requests -> SUBSET Scripts]
    /\ replies \in [Requests -> Seq([kind : {"ack", "error", "listing"}] \cup
         [kind : {"results"}, html : BOOLEAN,
          results : Seq([script : Scripts, kind : Kinds])])]
    /\ unheard \in SUBSET Requests

Init ==
    /\ up = TRUE
    /\ unsent = Requests
    /\ inbox = <<>>
    /\ cur = Idle /\ phase = "idle"
    /\ running = {} /\ allResults = <<>>
    /\ matched = [r \in Requests |-> {}]
    /\ replies = [r \in Requests |-> <<>>]
    /\ unheard = {}

-----------------------------------------------------------------------------
(* Publishing.                                                               *)

\* The requests that name where to publish the answer.
Requesters == {m \in Requests : m.reply # "none"}

\* Mutant of PartsOf: a document without a comma has no part.
PartsOfCommas(rep) ==
    IF rep.kind = "ack" THEN 0
    ELSE IF rep.kind = "results" /\ rep.results = <<>> THEN 2 ELSE 3

\* The number of comma-separated parts, three standing for more, of the document
\* an answer is: "{}", a Reply with neither result nor error, any other Reply.
PartsOf(rep) ==
    IF rep.kind = "ack" THEN 1
    ELSE IF rep.kind = "results" /\ rep.results = <<>> THEN 2 ELSE 3

\* What is published in answer to m comes back to the server, which subscribes to
\* every subject: as messages with no reply subject, whose data decodes as an
\* executor.Message with no field set.
Echoes(m, reps) ==
    IF m.reply = "none" THEN <<>>
    ELSE [i \in DOMAIN reps |->
            [id |-> m.id, subject |-> m.reply, reply |-> "none", parts |-> PartsOf(reps[i]),
             json |-> TRUE, payload |-> FALSE, async |-> FALSE]]

\* Mutant of Publish: with the request's own reply subject as that of the answer.
PublishReply(m, reps) ==
    /\ inbox' = inbox \o [i \in DOMAIN Echoes(m, reps) |->
                            [Echoes(m, reps)[i] EXCEPT !.reply = m.reply]]
    /\ replies' = IF m \in Requesters THEN [replies EXCEPT ![m] = @ \o reps] ELSE replies

\* Documents published in answer to a message, in order.  Without a reply subject
\* nothing is: replyMessage returns and replyWithError gets an error.
Publish(m, reps) ==
    /\ inbox' = inbox \o Echoes(m, reps)
    /\ replies' = IF m \in Requesters THEN [replies EXCEPT ![m] = @ \o reps] ELSE replies

\* The subsequences of one or two documents.
Arriving(reps) == {<<>>, reps} \cup {<<reps[i]>> : i \in DOMAIN reps}

\* replyMessage and replyWithError: nc.Publish may fail, for a document beyond the
\* NATS limit or a connection that is gone.  That is logged, and the callback goes on
\* as if the document were out.
Answer(m, reps) ==
    \E sent \in Arriving(reps) :
        /\ Publish(m, sent)
        /\ unheard' = IF sent = reps THEN unheard ELSE unheard \cup ({m} \cap Requesters)

\* The callback ends.
Return ==
    /\ cur' = Idle /\ phase' = "idle"
    /\ running' = {} /\ allResults' = <<>>

\* The process ends with a panic; what was queued is lost with it.
Panic ==
    /\ up' = FALSE
    /\ inbox' = <<>>
    /\ Return
    /\ UNCHANGED <<unsent, matched, answerVars>>

-----------------------------------------------------------------------------
\* A client publishes a request; a server that is not up never sees it.
Send(m) ==
    /\ m \in unsent
    /\ unsent' = unsent \ {m}
    /\ inbox' = IF up THEN Append(inbox, m) ELSE inbox
    /\ UNCHANGED <<up, handlerVars, matched, answerVars>>

\* The next message of the subscription enters the callback: messages are
\* handled one at a time.
Receive ==
    /\ up /\ cur = Idle /\ inbox # <<>>
    /\ cur' = Head(inbox)
    /\ inbox' = Tail(inbox)
    /\ UNCHANGED <<up, unsent, phase, running, allResults, matched, answerVars>>

Handling(subjects) == up /\ cur # Idle /\ phase = "idle" /\ cur.subject \in subjects

\* A reply subject of some requester.
Ignore ==
    /\ Handling({"inbox"})
    /\ Return
    /\ UNCHANGED <<up, unsent, inbox, matched, answerVars>>

\* replyWithSubjectList and replyWithNamesForSubject: one listing, or the error
\* of the store.
List ==
    /\ Handling({"list", "names"})
    /\ \E kind \in {"listing", "error"} : Answer(cur, <<Plain(kind)>>)
    /\ Return
    /\ UNCHANGED <<up, unsent, matched>>

\* replyWithNamedScriptInfo.  Data that has not two parts is answered with an
\* error and handled all the same: with one part an index is out of range, and the
\* process may end before it has sent what was published.
Info ==
    /\ Handling({"info"})
    /\ cur.parts # 1
    /\ \E kind \in {"listing", "error"} :
          Answer(cur, IF cur.parts = 2 THEN <<Plain(kind)>>
                      ELSE <<Plain("error"), Plain(kind)>>)
    /\ Return
    /\ UNCHANGED <<up, unsent, matched>>

InfoPanic ==
    /\ Handling({"info"})
    /\ cur.parts = 1
    /\ up' = FALSE
    /\ inbox' = <<>>
    /\ replies' \in {replies} \cup
         {[replies EXCEPT ![m] = Append(@, Plain("error"))] :
            m \in {cur} \cap Requesters}
    /\ Return
    /\ UNCHANGED <<unsent, matched, unheard>>

\* Data that does not decode is the payload of a raw message, which keeps an
\* async flag decoded before the error.  Data that decodes to no payload is the
\* payload of a message with no flag.
Async(m) == m.async /\ (m.payload \/ ~m.json)

\* Mutant of Decode: no acknowledgement.
DecodeNoAck ==
    /\ Handling({"script"})
    /\ phase' = "lookup"
    /\ UNCHANGED <<up, unsent, inbox, cur, running, allResults, matched, answerVars>>

\* An asynchronous message is acknowledged before its scripts are looked up.  When
\* that fails, as it does for want of a reply subject, an error is published instead,
\* or fails too, and the message is dropped.
Decode ==
    /\ Handling({"script"})
    /\ \/ /\ Async(cur) /\ cur.reply # "none"
          /\ Publish(cur, <<Plain("ack")>>)
          /\ phase' = "lookup"
          /\ UNCHANGED <<unheard, cur, running, allResults>>
       \/ /\ Async(cur)
          /\ Answer(cur, <<Plain("error")>>)
          /\ Return
       \/ /\ ~Async(cur)
          /\ phase' = "lookup"
          /\ UNCHANGED <<inbox, answerVars, cur, running, allResults>>
    /\ UNCHANGED <<up, unsent, matched>>

\* Mutants of LookupError: it does not return; it does not answer.
LookupErrorGoesOn ==
    /\ up /\ phase = "lookup"
    /\ Answer(cur, <<Plain("error")>>)
    /\ phase' = "waiting"
    /\ UNCHANGED <<up, unsent, cur, running, allResults, matched>>

LookupErrorSilent ==
    /\ up /\ phase = "lookup"
    /\ Return
    /\ UNCHANGED <<up, unsent, inbox, matched, answerVars>>

\* GetScripts fails, or returns some scripts, each of which gets a goroutine.
LookupError ==
    /\ up /\ phase = "lookup"
    /\ Answer(cur, <<Plain("error")>>)
    /\ Return
    /\ UNCHANGED <<up, unsent, matched>>

Lookup ==
    /\ up /\ phase = "lookup"
    /\ \E S \in SUBSET Scripts :
          /\ running' = S
          /\ matched' = IF cur \in Requests THEN [matched EXCEPT ![cur] = S] ELSE matched
    /\ phase' = "waiting"
    /\ UNCHANGED <<up, unsent, inbox, cur, allResults, answerVars>>

\* The goroutine of a script has its executor handle the message and sends the
\* result to the channel, which has room for every script.
RunScript(s) ==
    /\ up /\ phase = "waiting" /\ s \in running
    /\ \E k \in Outcomes[s] \ {"panic"} :
          allResults' = Append(allResults, [script |-> s, kind |-> k])
    /\ running' = running \ {s}
    /\ UNCHANGED <<up, unsent, inbox, cur, phase, matched, answerVars>>

ScriptPanics(s) ==
    /\ up /\ phase = "waiting" /\ s \in running
    /\ "panic" \in Outcomes[s]
    /\ Panic

\* Mutant of AllIn: no wg.Wait().
AllInNoWait == up /\ phase = "waiting"

\* wg.Wait(), then the results are gathered: reading IsHTML of a nil result
\* panics.  Otherwise the reply is published.
AllIn == up /\ phase = "waiting" /\ running = {}
HasNil == \E r \in ToSet(allResults) : r.kind = "nil"

CollectPanics == AllIn /\ HasNil /\ Panic

Collect ==
    /\ AllIn /\ ~HasNil
    /\ Answer(cur, <<Results(allResults, \E r \in ToSet(allResults) : r.kind = "html")>>)
    /\ Return
    /\ UNCHANGED <<up, unsent, matched>>

-----------------------------------------------------------------------------
Handle ==
    \/ Receive \/ Ignore \/ List \/ Info \/ InfoPanic \/ Decode
    \/ LookupError \/ Lookup \/ CollectPanics \/ Collect

Execute == \E s \in Scripts : RunScript(s) \/ ScriptPanics(s)

Next == Handle \/ Execute \/ \E m \in Requests : Send(m)

Spec == Init /\ [][Next]_vars

\* The callback's goroutine runs, and a Lua script ends within MAX_LUA_RUNNING_TIME.
\* WASM modules have no deadline, and containers that are never attached to none
\* either: they may end.
FairSpec ==
    /\ Spec
    /\ WF_vars(Handle)
    /\ \A s \in Scripts \ Endless : WF_vars(RunScript(s) \/ ScriptPanics(s))

-----------------------------------------------------------------------------
(* A reply with results carries one result of each script the store returned *)
(* for that message, and of no other: none is missed because its goroutine   *)
(* was late, counted twice, or left over from the message before.            *)
ResultsComplete ==
    \A m \in Requests : \A i \in DOMAIN replies[m] :
        replies[m][i].kind = "results" =>
            LET rs == replies[m][i].results
            IN  /\ {r.script : r \in ToSet(rs)} = matched[m]
                /\ Len(rs) = Cardinality(matched[m])

(* A requester gets one final reply at most, and nothing after it, whichever *)
(* of the handler's early returns is taken and whichever publication fails.  *)
(* One acknowledgement at most comes before it, only if an asynchronous run  *)
(* was asked for, and of such a run the results come only after it.  A       *)
(* malformed info request is answered twice (main.go:170-173 does not        *)
(* return) and left out.                                                     *)
Malformed(m) == m.subject = "info" /\ m.parts # 2
ReplyProtocol ==
    \A m \in Requests : ~Malformed(m) =>
        /\ \A i \in DOMAIN replies[m] :
              /\ Final(replies[m][i]) => i = Len(replies[m])
              /\ ~Final(replies[m][i]) => i = 1 /\ m.subject = "script" /\ Async(m)
              /\ replies[m][i].kind = "results" /\ Async(m) => i = 2
        /\ m.reply = "none" => replies[m] = <<>>

(* No script of an asynchronous message starts before its requester has been *)
(* acknowledged, so that it never waits for the scripts.                     *)
AckBeforeRun ==
    (phase = "waiting" /\ cur \in Requests /\ Async(cur)) =>
        \E i \in DOMAIN replies[cur] : replies[cur][i].kind = "ack"

\* The callback waits for scripts that need not end, and for no other.
HeldUp == phase = "waiting" /\ running # {} /\ running \subseteq Endless

(* Every request that names a reply subject and reaches the server is        *)
(* answered: no early return forgets the requester.  The exceptions are the  *)
(* code's: the server panics, the answer could not be published, or the one  *)
(* callback is held up for good by a script that never ends.                 *)
Answered ==
    \/ <>[]HeldUp
    \/ \A m \in Requesters :
          m \in ToSet(inbox) ~>
              (~up \/ m \in unheard \/ \E i \in DOMAIN replies[m] : Final(replies[m][i]))

(* The server receives its own replies, and replies may be addressed to the  *)
(* subject of a script: they never feed on themselves, and once clients are  *)
(* silent the server falls silent, if no script holds its callback for good. *)
Quiesces == <>[](inbox = <<>> /\ cur = Idle) \/ <>[]HeldUp

(* "error: If the script returns an error, it will be set here"              *)
(* (README.md:127): when a script fails, the requester gets a reply that     *)
(* says so, if it can be published.                                          *)
Failed(m, s) ==
    cur = m /\ \E r \in ToSet(allResults) : r.script = s /\ r.kind \in {"error", "nil"}
ScriptErrorReported ==
    \A m \in Requesters, s \in Scripts :
        Failed(m, s) ~>
            \/ m \in unheard
            \/ \E i \in DOMAIN replies[m] :
                  /\ replies[m][i].kind = "results"
                  /\ \E r \in ToSet(replies[m][i].results) : r.script = s
=============================================================================
