------------------------------ MODULE MCHttpProxy ------------------------------
(***************************************************************************)
(* Requests and scripts for TLC.                                           *)
(***************************************************************************)
EXTENDS HttpProxy, TLC

CONSTANTS s1, s2, out, in1, in2, now, page, job

\* A chain of requests that occupies both servers: a page whose script, run by s1, starts
\* a job whose container, run by s2, gets the list of subjects.  And a request that has
\* no time.
MCKind == out :> "script" @@ in1 :> "script" @@ in2 :> "list" @@ now :> "script"
MCScriptsOf == out :> {page} @@ in1 :> {job} @@ in2 :> {} @@ now :> {}
MCEnds == page :> {"page", "badpage"} @@ job :> {"text"}
MCCalls == [c \in Requests \X Servers \X Scripts |->
              IF c = <<out, s1, page>> THEN in1
              ELSE IF c = <<in1, s2, job>> THEN in2 ELSE NoRequest]
MCTimeout == out :> 2 @@ in1 :> 1 @@ in2 :> 0 @@ now :> 0
=============================================================================
