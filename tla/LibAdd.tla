-------------------------------- MODULE LibAdd --------------------------------
(***************************************************************************)
(* The command `cli lib add', src/cmd/cli/cmd_lib_add.go: it reads every   *)
(* file and directory it is given, then adds the libraries to an etcd      *)
(* store one by one, while a server loads the libraries of its scripts.    *)
(***************************************************************************)
EXTENDS EtcdStore

CONSTANTS
    Arguments,  \* the lists of arguments it may be given
    Nameless,   \* the path of a library whose file has no name header
    Blank       \* the library that holds nothing

(* An argument is [kind |-> k, files |-> fs]: a "file", a "tree" to walk     *)
(* (with -r), a "dir" (without), or something "missing".  A file is          *)
(* [name |-> path, text |-> library, ok |-> whether it can be read].         *)
ASSUME LibAddAssumption ==
    /\ Nameless \in Paths /\ Blank \in Texts
    /\ \A as \in Arguments : as \in Seq(ToSet(as)) /\ \A arg \in ToSet(as) :
         /\ arg.kind \in {"file", "tree", "dir", "missing"}
         /\ arg.files \in Seq(ToSet(arg.files))
         /\ \A f \in ToSet(arg.files) : f.name \in Paths /\ f.text \in Texts

VARIABLES
    adding,     \* "start", "parsing", "adding", "added" or "failed"
    given,      \* the arguments it has still to read
    parsed,     \* the libraries it has read
    stored,     \* how many of them it has added
    before      \* the libraries of the store when it began

addVars == <<adding, given, parsed, stored, before>>

LibAddInit ==
    /\ adding = "start" /\ given = <<>> /\ parsed = <<>>
    /\ stored = 0 /\ before = libkv

-----------------------------------------------------------------------------
Library(f) == [name |-> f.name, text |-> f.text]

\* What the walk has read when it meets a file it cannot read: its error is
\* assigned and not looked at.
BeforeUnreadable(fs) ==
    LET bad == {i \in DOMAIN fs : ~fs[i].ok}
        end == IF bad = {} THEN Len(fs) ELSE Min(bad) - 1
    IN  [i \in 1..end |-> Library(fs[i])]

\* Without -r each file of a directory is read from the directory's own name,
\* which gives nothing.
Read(arg) ==
    CASE arg.kind = "tree" -> BeforeUnreadable(arg.files)
      [] arg.kind = "dir" -> [i \in DOMAIN arg.files |-> [name |-> Nameless, text |-> Blank]]
      [] OTHER -> [i \in DOMAIN arg.files |-> Library(arg.files[i])]

\* A file of its own must be readable and have a name.
Refuses(arg) ==
    \/ arg.kind = "missing"
    \/ arg.kind = "file" /\ (~arg.files[1].ok \/ arg.files[1].name = Nameless)

\* parseDirsForLibraries is called, and reads one argument after the other; when one
\* is refused nothing is added.
Parse(as) ==
    /\ adding \notin {"parsing", "adding"}
    /\ adding' = "parsing" /\ given' = as /\ parsed' = <<>>
    /\ stored' = 0 /\ before' = libkv
    /\ UNCHANGED vars

ParseNext ==
    /\ adding = "parsing" /\ given # <<>>
    /\ IF Refuses(Head(given))
       THEN adding' = "failed" /\ given' = <<>> /\ parsed' = <<>>
       ELSE /\ given' = Tail(given) /\ parsed' = parsed \o Read(Head(given))
            /\ UNCHANGED adding
    /\ UNCHANGED <<vars, stored, before>>

Parsed ==
    /\ adding = "parsing" /\ given = <<>>
    /\ adding' = "adding"
    /\ UNCHANGED <<vars, given, parsed, stored, before>>

\* Mutant of AddNext: it goes on with the next library after an error.
AddNextGoesOn ==
    /\ adding = "adding" /\ stored < Len(parsed)
    /\ LET l == parsed[stored + 1] IN AddLibrary(l.name, l.text)
    /\ stored' = stored + 1
    /\ UNCHANGED <<adding, given, parsed, before>>

\* The first error ends the command.
AddNext ==
    /\ adding = "adding" /\ stored < Len(parsed)
    /\ LET l == parsed[stored + 1] IN AddLibrary(l.name, l.text)
    /\ IF answer' = Error
       THEN adding' = "failed" /\ UNCHANGED stored
       ELSE stored' = stored + 1 /\ UNCHANGED adding
    /\ UNCHANGED <<given, parsed, before>>

\* It prints how many it added.
Report ==
    /\ adding = "adding" /\ stored = Len(parsed)
    /\ adding' = "added"
    /\ UNCHANGED <<vars, given, parsed, stored, before>>

LibAddNext ==
    \/ \E as \in Arguments : Parse(as)
    \/ ParseNext \/ Parsed
    \/ AddNext \/ Report
    \/ /\ \/ \E ps \in Requires : LoadLibrairies(ps)
          \/ LoadNext
          \/ LoadReturns
       /\ UNCHANGED addVars

-----------------------------------------------------------------------------
\* The libraries of the store after the first n of those read are added.
After(n) ==
    [p \in Paths |->
       LET at == {i \in 1..n : parsed[i].name = p}
       IN  IF at = {} THEN before[p] ELSE parsed[Max(at)].text]

(* Whatever fails, the command leaves the store with the first libraries it  *)
(* read, in their order, the later of two with one name: as many as it has   *)
(* counted, or after an error one more; it prints that it added them when    *)
(* all of them are there.                                                    *)
AddsInOrder ==
    /\ \/ adding = "start"
       \/ libkv = After(stored)
       \/ adding = "failed" /\ stored < Len(parsed) /\ libkv = After(stored + 1)
    /\ adding = "added" => stored = Len(parsed)
=============================================================================
