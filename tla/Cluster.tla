-------------------------------- MODULE Cluster --------------------------------
(***************************************************************************)
(* Several servers on one NATS subject: every server receives every        *)
(* message (the subscription of src/cmd/server/main.go has no queue        *)
(* group), handles its messages one at a time, has the one script of the   *)
(* subject executed under its lock (ScriptLock) and answers.               *)
(*                                                                         *)
(* A job of ScriptLock is what one server does with one message.           *)
(***************************************************************************)
EXTENDS ScriptLock, Sequences, SequencesExt

CONSTANTS
    Messages,   \* the requests of clients, each once
    NoMessage,  \* the handler between two messages
    Message,    \* the message of each job
    Mortal      \* the servers that may crash

ASSUME MessageAssumption ==
    /\ NoMessage \notin Messages
    /\ Message \in [Jobs -> Messages]
    /\ Mortal \subseteq Servers
    /\ \A s \in Servers, m \in Messages :
          \E j \in Jobs : {j} = {k \in Jobs : Server[k] = s /\ Message[k] = m}

VARIABLES
    queue,      \* queue[s]: the messages on their way to the callback of s
    cur,        \* cur[s]: the message in the callback of s
    sent,       \* the messages published
    answers,    \* the servers' answers: job and kind
    ran,        \* the messages whose script has been started by some server
    alone       \* the messages that met no other message and no crash

clusterVars == <<queue, cur, sent, answers, ran, alone>>
allVars == <<vars, clusterVars>>

Kinds == {"result", "locked"}

ClusterInit ==
    /\ Init
    /\ queue = [s \in Servers |-> <<>>]
    /\ cur = [s \in Servers |-> NoMessage]
    /\ sent = {} /\ answers = {} /\ ran = {} /\ alone = {}

Busy(m) == \E s \in Servers : cur[s] = m \/ m \in ToSet(queue[s])
Quiet ==
    /\ \A m \in Messages : ~Busy(m)
    /\ \A j \in Jobs : lease[j] # "orphaned"

-----------------------------------------------------------------------------
\* NATS delivers a message to every server that is up.
Publish(m) ==
    /\ m \notin sent
    /\ sent' = sent \cup {m}
    /\ queue' = [s \in Servers |-> IF up[s] THEN Append(queue[s], m) ELSE queue[s]]
    /\ alone' = IF Quiet /\ \E s \in Servers : up[s]
                THEN alone \cup {m} ELSE {k \in alone : ~Busy(k)}
    /\ UNCHANGED <<vars, cur, answers, ran>>

Receive(s) ==
    /\ up[s] /\ cur[s] = NoMessage /\ queue[s] # <<>>
    /\ cur' = [cur EXCEPT ![s] = Head(queue[s])]
    /\ queue' = [queue EXCEPT ![s] = Tail(@)]
    /\ UNCHANGED <<vars, sent, answers, ran, alone>>

\* The executor's goroutine takes the lock and runs the script, for the message in
\* the callback.
Execute(j) ==
    /\ cur[Server[j]] = Message[j]
    /\ TakeLock(j) \/ Finish(j)
    /\ ran' = IF pc'[j] = "running" THEN ran \cup {Message[j]} ELSE ran
    /\ UNCHANGED <<queue, cur, sent, answers, alone>>

\* The deferred release, the give-up timers and etcd.
Background ==
    /\ \/ \E c \in Calls : ReleaseLock(c)
       \/ \E j \in Jobs : TimerFires(j) \/ Expire(j)
       \/ \E s \in Servers : Restart(s)
    /\ UNCHANGED clusterVars

\* HandleMessage returns once its deferred release has: with a result, or with
\* the error of TakeLock.
Outcome(j) ==
    IF pc[j] = "refused" THEN {"locked"}
    ELSE IF pc[j] = "finished" /\ call[<<j, "defer">>] = "done" THEN {"result"} ELSE {}

\* Mutant of Reply: an execution that was refused is not answered.
ReplyResult(j) ==
    /\ up[Server[j]] /\ cur[Server[j]] = Message[j]
    /\ "result" \in Outcome(j)
    /\ answers' = answers \cup {<<j, "result">>}
    /\ cur' = [cur EXCEPT ![Server[j]] = NoMessage]
    /\ UNCHANGED <<vars, queue, sent, ran, alone>>

\* All goroutines of the message are done: the callback answers and returns.
Reply(j) ==
    /\ up[Server[j]] /\ cur[Server[j]] = Message[j]
    /\ \E kind \in Outcome(j) : answers' = answers \cup {<<j, kind>>}
    /\ cur' = [cur EXCEPT ![Server[j]] = NoMessage]
    /\ UNCHANGED <<vars, queue, sent, ran, alone>>

\* A process that ends loses what was on its way to it.
Fail(s) ==
    /\ s \in Mortal /\ Crash(s)
    /\ queue' = [queue EXCEPT ![s] = <<>>]
    /\ cur' = [cur EXCEPT ![s] = NoMessage]
    /\ alone' = {k \in alone : ~Busy(k)}
    /\ UNCHANGED <<sent, answers, ran>>

ClusterNext ==
    \/ \E m \in Messages : Publish(m)
    \/ \E s \in Servers : Receive(s) \/ Fail(s)
    \/ \E j \in Jobs : Execute(j) \/ Reply(j)
    \/ Background

ClusterSpec == ClusterInit /\ [][ClusterNext]_allVars

\* Each server's callback and goroutines are scheduled, etcd answers and revokes the
\* leases of dead processes, and scripts end within MAX_LUA_RUNNING_TIME; nothing is
\* asked of clients, of crashes, or of a timer that races the script's end.
ClusterFairSpec ==
    /\ ClusterSpec
    /\ \A s \in Servers : WF_allVars(Receive(s))
    /\ \A j \in Jobs : WF_allVars(Execute(j)) /\ WF_allVars(Reply(j))
    /\ \A c \in Calls : WF_allVars(ReleaseLock(c) /\ UNCHANGED clusterVars)
    /\ \A j \in Jobs : WF_allVars(Expire(j) /\ UNCHANGED clusterVars)

-----------------------------------------------------------------------------
(* Every message that reaches a server is answered by that server, unless it *)
(* crashes: the servers never keep each other waiting for the lock.          *)
EachServerAnswers ==
    \A j \in Jobs :
        (cur[Server[j]] = Message[j] \/ Message[j] \in ToSet(queue[Server[j]]))
            ~> (~up[Server[j]] \/ \E kind \in Kinds : <<j, kind>> \in answers)

(* A message that comes when the servers are quiet, and is followed by no    *)
(* other before they are quiet again, is executed by at least one of them:   *)
(* the servers' attempts never cancel each other out, and no lock is left    *)
(* over from the messages before.                                            *)
QuietMessageRuns == \A m \in alone : ~Busy(m) => m \in ran

(* "Each script is a Lua file that gets executed when the server receives a  *)
(* message that matches a pattern" (README.md:81): a message that every      *)
(* server has answered was executed by one of them.                          *)
EveryMessageRuns ==
    \A m \in Messages :
        (\A j \in Jobs : Message[j] = m => \E kind \in Kinds : <<j, kind>> \in answers) => m \in ran
=============================================================================
