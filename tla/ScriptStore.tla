------------------------------ MODULE ScriptStore ------------------------------
(***************************************************************************)
(* What every backend promises as a script store (the ScriptStore          *)
(* interface of src/store/store.go, but for its locks): a map from subject *)
(* and name to script and one from path to library.  A failing call may or *)
(* may not have had its effect, and says so.                               *)
(***************************************************************************)
CONSTANTS Subjects, Names, Bodies, Paths, Texts, None

VARIABLES
    scripts,    \* scripts[s, n]: the script of that subject and name, or None
    libs,       \* libs[p]: the library at that path, or None
    answer      \* what the last call returned

vars == <<scripts, libs, answer>>

Ok == [op |-> "ok"]
Error == [op |-> "error"]

Under(s) == {e \in Subjects \X Names : e[1] = s /\ scripts[e] # None}

Init ==
    /\ scripts = [e \in Subjects \X Names |-> None]
    /\ libs = [p \in Paths |-> None]
    /\ answer = Ok

SetScript(s, n, b) ==
    /\ \/ scripts' = [scripts EXCEPT ![<<s, n>>] = b] /\ answer' \in {Ok, Error}
       \/ scripts' = scripts /\ answer' = Error
    /\ UNCHANGED libs

SetLibrary(p, b) ==
    /\ \/ libs' = [libs EXCEPT ![p] = b] /\ answer' \in {Ok, Error}
       \/ libs' = libs /\ answer' = Error
    /\ UNCHANGED scripts

\* The scripts of a subject, all of them and no other's; where there is none, a
\* backend may call it an error.
GetScripts(s) ==
    /\ answer' \in {Error, [op |-> "get", subject |-> s,
                            found |-> {<<e, scripts[e]>> : e \in Under(s)}]}
    /\ UNCHANGED <<scripts, libs>>

\* At least the subjects that have a script; never one unheard of.
ListSubjects ==
    /\ \/ answer' = Error
       \/ \E S \in SUBSET Subjects :
            /\ \A s \in Subjects : Under(s) # {} => s \in S
            /\ answer' = [op |-> "list", subjects |-> S]
    /\ UNCHANGED <<scripts, libs>>

\* Libraries are read, or not; one at a time, so that what is returned is no
\* matter of one state.
LoadLibrairies ==
    /\ answer' \in {Error, [op |-> "load"]}
    /\ UNCHANGED <<scripts, libs>>

Next ==
    \/ \E s \in Subjects, n \in Names, b \in Bodies \cup {None} : SetScript(s, n, b)
    \/ \E p \in Paths, b \in Texts \cup {None} : SetLibrary(p, b)
    \/ \E s \in Subjects : GetScripts(s)
    \/ ListSubjects
    \/ LoadLibrairies

Spec == Init /\ [][Next]_vars
=============================================================================
