------------------------------- MODULE FileStore -------------------------------
(***************************************************************************)
(* The file store, src/store/file.go: maps in memory, filled from          *)
(* directories by StoreByName (src/store/store.go) when the process        *)
(* starts.  Its locks are always granted and its calls never fail, but     *)
(* that a subject it never had is an error.                                *)
(***************************************************************************)
CONSTANTS Subjects, Names, Bodies, Paths, Texts, None

ASSUME NoneAssumption ==
    None \notin Bodies \cup Texts \cup [Names -> Bodies \cup {None}]

VARIABLES
    scripts,    \* scripts[s]: None, or the map of the names of the subject
    libs,       \* the libraries by path
    answer      \* what the last call returned

vars == <<scripts, libs, answer>>

Ok == [op |-> "ok"]
Error == [op |-> "error"]
NoScript == [n \in Names |-> None]

\* Before StoreByName has added what it read from the directories.
Init ==
    /\ scripts = [s \in Subjects |-> None]
    /\ libs = [p \in Paths |-> None]
    /\ answer = Ok

-----------------------------------------------------------------------------
\* A subject that is new gets an empty map first; the script replaces one of the
\* same name.
AddScript(s, n, b) ==
    LET names == IF scripts[s] = None THEN NoScript ELSE scripts[s]
    IN  /\ scripts' = [scripts EXCEPT ![s] = [names EXCEPT ![n] = b]]
        /\ answer' = Ok
        /\ UNCHANGED libs

\* Mutant of DeleteScript: the whole subject goes.
DeleteSubject(s, n) ==
    /\ scripts' = [scripts EXCEPT ![s] = None]
    /\ answer' = Ok
    /\ UNCHANGED libs

\* The map of a subject stays when its last script goes.
DeleteScript(s, n) ==
    /\ scripts' = IF scripts[s] = None THEN scripts
                  ELSE [scripts EXCEPT ![s][n] = None]
    /\ answer' = Ok
    /\ UNCHANGED libs

GetScripts(s) ==
    /\ answer' = IF scripts[s] = None THEN Error
                 ELSE [op |-> "get", subject |-> s,
                       found |-> {<<<<s, n>>, scripts[s][n]>> :
                                    n \in {m \in Names : scripts[s][m] # None}}]
    /\ UNCHANGED <<scripts, libs>>

ListSubjects ==
    /\ answer' = [op |-> "list", subjects |-> {s \in Subjects : scripts[s] # None}]
    /\ UNCHANGED <<scripts, libs>>

AddLibrary(p, b) == libs' = [libs EXCEPT ![p] = b] /\ answer' = Ok /\ UNCHANGED scripts
RemoveLibrary(p) == libs' = [libs EXCEPT ![p] = None] /\ answer' = Ok /\ UNCHANGED scripts

\* A missing library is left out without an error.
LoadLibrairies(ps) ==
    /\ answer' = [op |-> "load", found |-> {<<p, libs[p]>> : p \in {q \in ps : libs[q] # None}}]
    /\ UNCHANGED <<scripts, libs>>

-----------------------------------------------------------------------------
(* While StoreByName fills it and while it serves, the store keeps the       *)
(* promise of every backend: stored in two levels, and with subjects that    *)
(* outlive their scripts, the scripts answer every call as one map of        *)
(* subjects and names would.                                                 *)
Promise == INSTANCE ScriptStore WITH
    scripts <- [e \in Subjects \X Names |->
                  IF scripts[e[1]] = None THEN None ELSE scripts[e[1]][e[2]]],
    answer <- IF answer.op = "load" THEN [op |-> "load"] ELSE answer

ImplementsStore == Promise!Spec
=============================================================================
