------------------------------ MODULE ListCommand ------------------------------
(***************************************************************************)
(* The command `cli list', src/cmd/cli/cmd_list.go, against an etcd store  *)
(* that others write to while it runs: it lists the subjects, then asks    *)
(* for the scripts of each.                                                *)
(***************************************************************************)
EXTENDS EtcdStore

VARIABLES
    stage,      \* "start", "subjects", "done" or "failed"
    todo,       \* the subjects it has still to ask for
    rows,       \* the rows of its table: subject and name
    standing,   \* the keys that were there ever since it began
    been        \* the keys that were there at some moment since

listVars == <<stage, todo, rows>>
pastVars == <<standing, been>>
allVars == <<vars, listVars, pastVars>>

ListInit ==
    /\ Init
    /\ stage = "start" /\ todo = <<>> /\ rows = <<>>
    /\ standing = {} /\ been = {}

\* Another process adds or removes a script.
Others ==
    /\ \E s \in Subjects, n \in Names :
         (\E b \in Bodies : AddScript(s, n, b)) \/ DeleteScript(s, n)
    /\ standing' = standing \cap Present'
    /\ been' = been \cup Present'
    /\ UNCHANGED listVars

\* ListSubjects: one subject for every script.
Begin ==
    /\ stage = "start"
    /\ ListSubjects
    /\ IF answer'.op = "error"
       THEN stage' = "failed" /\ UNCHANGED todo
       ELSE stage' = "subjects" /\ todo' = answer'.listed
    /\ standing' = Present /\ been' = Present
    /\ UNCHANGED rows

\* Mutant of Ask: the map of rows is made anew for each subject.
AskForgets ==
    /\ stage = "subjects" /\ todo # <<>>
    /\ GetScripts(Head(todo))
    /\ IF answer'.op = "error"
       THEN stage' = "failed" /\ UNCHANGED <<todo, rows>>
       ELSE /\ todo' = Tail(todo)
            /\ rows' = SetToSeq({<<Head(todo), f[1][2]>> : f \in answer'.found})
            /\ UNCHANGED stage
    /\ UNCHANGED pastVars

\* GetScripts of the next subject: a row for each script it returns.
Ask ==
    /\ stage = "subjects" /\ todo # <<>>
    /\ GetScripts(Head(todo))
    /\ IF answer'.op = "error"
       THEN stage' = "failed" /\ UNCHANGED <<todo, rows>>
       ELSE /\ todo' = Tail(todo)
            /\ rows' = rows \o SetToSeq({<<Head(todo), f[1][2]>> : f \in answer'.found})
            /\ UNCHANGED stage
    /\ UNCHANGED pastVars

Render ==
    /\ stage = "subjects" /\ todo = <<>>
    /\ stage' = "done"
    /\ UNCHANGED <<vars, todo, rows, pastVars>>

ListNext == Others \/ Begin \/ Ask \/ Render

ListSpec == ListInit /\ [][ListNext]_allVars

-----------------------------------------------------------------------------
(* The table, put together from several answers while scripts come and go,   *)
(* shows every script that was there all along and none that never was,      *)
(* where no subject begins with another (StoreOverlap shows that one then    *)
(* gets the scripts of the other).  How often a row is shown is not told     *)
(* apart: a subject with n scripts is listed n times.                        *)
ListsTheStore ==
    stage = "done" => standing \subseteq ToSet(rows) /\ ToSet(rows) \subseteq been
=============================================================================
