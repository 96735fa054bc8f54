------------------------------- MODULE EtcdStore -------------------------------
(***************************************************************************)
(* The scripts and libraries of the etcd store, src/store/etcd.go: the     *)
(* keys it writes and the ranges it reads, each call one request to etcd,  *)
(* but LoadLibrairies, which reads key by key while others write.          *)
(*                                                                         *)
(* The key of a script is msgscript/scripts/<subject>/<name>.  Subjects    *)
(* and names have no slash here, so that a key stands for one subject and  *)
(* one name, and a key lies in the range GetScripts reads for a subject    *)
(* exactly when its own subject begins with that one.                      *)
(***************************************************************************)
EXTENDS Naturals, Sequences, FiniteSets, SequencesExt

CONSTANTS
    Subjects, Names, Bodies,    \* Bodies: the scripts
    Paths, Texts,               \* Texts: the libraries
    None,
    Begins,     \* <<t, s>>: the string t begins with the string s
    Requires    \* the lists of libraries scripts require

ASSUME NoneAssumption == None \notin Bodies \cup Texts
ASSUME KeysAssumption == IsFiniteSet(Subjects) /\ IsFiniteSet(Names)
ASSUME BeginsAssumption ==
    /\ Begins \subseteq Subjects \X Subjects
    /\ \A s \in Subjects : <<s, s>> \in Begins
ASSUME RequiresAssumption == Requires \subseteq Seq(Paths) \ {<<>>}

VARIABLES
    kv,         \* the keys of scripts and what they hold
    libkv,      \* the keys of libraries and what they hold
    loading,    \* the paths a LoadLibrairies is given; << >> between calls
    libraries,  \* what it has read so far
    seen,       \* what each library has been since it began
    answer      \* what the last call returned

loadVars == <<loading, libraries>>
vars == <<kv, libkv, loadVars, seen, answer>>

Keys == Subjects \X Names
Present == {k \in Keys : kv[k] # None}

Ok == [op |-> "ok"]
Error == [op |-> "error"]

\* The libraries read so far are all there: none is None.
TypeOK ==
    /\ kv \in [Keys -> Bodies \cup {None}]
    /\ libkv \in [Paths -> Texts \cup {None}]
    /\ loading \in Requires \cup {<<>>}
    /\ libraries \in Seq(Texts)
    /\ seen \in [Paths -> SUBSET (Texts \cup {None})]

Init ==
    /\ kv = [k \in Keys |-> None]
    /\ libkv = [p \in Paths |-> None]
    /\ loading = <<>> /\ libraries = <<>>
    /\ seen = [p \in Paths |-> {}]
    /\ answer = Ok

-----------------------------------------------------------------------------
\* client.Put and client.Delete: an error may come after the effect, or instead.
Write(s, n, b) ==
    /\ \/ kv' = [kv EXCEPT ![<<s, n>>] = b] /\ answer' \in {Ok, Error}
       \/ kv' = kv /\ answer' = Error
    /\ UNCHANGED <<libkv, loadVars, seen>>

\* Mutant of DeleteScript: the range of the subject is deleted.
DeleteSubject(s, n) ==
    /\ kv' = [k \in Keys |-> IF k[1] = s THEN None ELSE kv[k]]
    /\ answer' = Ok
    /\ UNCHANGED <<libkv, loadVars, seen>>

AddScript(s, n, b) == b \in Bodies /\ Write(s, n, b)
DeleteScript(s, n) == Write(s, n, None)

WriteLib(p, b) ==
    /\ \/ libkv' = [libkv EXCEPT ![p] = b] /\ answer' \in {Ok, Error}
       \/ libkv' = libkv /\ answer' = Error
    /\ seen' = [seen EXCEPT ![p] = @ \cup {libkv'[p]}]
    /\ UNCHANGED <<kv, loadVars>>

AddLibrary(p, b) == b \in Texts /\ WriteLib(p, b)
RemoveLibrary(p) == WriteLib(p, None)

\* The range is that of the prefix msgscript/scripts/<subject>, without the slash
\* that ends the subject.
InRange(s) == {k \in Present : <<k[1], s>> \in Begins}

GetScripts(s) ==
    /\ answer' \in {Error, [op |-> "get", subject |-> s,
                            found |-> {<<k, kv[k]>> : k \in InRange(s)}]}
    /\ UNCHANGED <<kv, libkv, loadVars, seen>>

\* One subject for every key: a subject comes as often as it has scripts.
Listing == LET ks == SetToSeq(Present) IN [i \in DOMAIN ks |-> ks[i][1]]

ListSubjects ==
    /\ answer' \in {Error, [op |-> "list", listed |-> Listing]}
    /\ UNCHANGED <<kv, libkv, loadVars, seen>>

-----------------------------------------------------------------------------
LoadLibrairies(ps) ==
    /\ loading = <<>>
    /\ loading' = ps
    /\ libraries' = <<>>
    /\ seen' = [p \in Paths |-> {libkv[p]}]
    /\ UNCHANGED <<kv, libkv, answer>>

\* Mutant of LoadNext: the number of keys found is not looked at.
LoadNextUnchecked ==
    /\ loading # <<>> /\ Len(libraries) < Len(loading)
    /\ libraries' = Append(libraries, libkv[loading[Len(libraries) + 1]])
    /\ UNCHANGED <<kv, libkv, loading, seen, answer>>

\* Reads the next key; the first that is missing or fails ends the call.
LoadNext ==
    /\ loading # <<>> /\ Len(libraries) < Len(loading)
    /\ LET p == loading[Len(libraries) + 1]
       IN  \/ /\ libkv[p] # None
              /\ libraries' = Append(libraries, libkv[p])
              /\ UNCHANGED <<loading, answer>>
           \/ /\ answer' = Error
              /\ loading' = <<>> /\ libraries' = <<>>
    /\ UNCHANGED <<kv, libkv, seen>>

\* Mutant of LoadReturns: it returns with what it has.
LoadReturnsEarly ==
    /\ loading # <<>>
    /\ answer' = [op |-> "load", paths |-> loading, found |-> libraries, were |-> seen]
    /\ loading' = <<>> /\ libraries' = <<>>
    /\ UNCHANGED <<kv, libkv, seen>>

LoadReturns ==
    /\ loading # <<>> /\ Len(libraries) = Len(loading)
    /\ answer' = [op |-> "load", paths |-> loading, found |-> libraries, were |-> seen]
    /\ loading' = <<>> /\ libraries' = <<>>
    /\ UNCHANGED <<kv, libkv, seen>>

-----------------------------------------------------------------------------
Next ==
    \/ \E s \in Subjects, n \in Names :
         (\E b \in Bodies : AddScript(s, n, b)) \/ DeleteScript(s, n)
    \/ \E p \in Paths : (\E b \in Texts : AddLibrary(p, b)) \/ RemoveLibrary(p)
    \/ \E s \in Subjects : GetScripts(s)
    \/ ListSubjects
    \/ \E ps \in Requires : LoadLibrairies(ps)
    \/ LoadNext
    \/ LoadReturns

Spec == Init /\ [][Next]_vars

-----------------------------------------------------------------------------
(* What a script requires is what it gets: when LoadLibrairies succeeds it   *)
(* returns one library for every required path, in the order they are        *)
(* required (they are prepended to the script in that order), each as it was *)
(* stored at some moment of the call.                                        *)
LoadsRequired ==
    answer.op = "load" =>
        /\ Len(answer.found) = Len(answer.paths)
        /\ \A i \in DOMAIN answer.found : answer.found[i] \in answer.were[answer.paths[i]]

(* "GetScripts retrieves all scripts associated with a subject"              *)
(* (etcd.go:118): it returns no script of another subject.                   *)
GetsOwnScripts ==
    answer.op = "get" => \A f \in answer.found : f[1][1] = answer.subject

(* The store keeps the promise of ScriptStore (when no subject begins with   *)
(* another one).                                                             *)
Promise == INSTANCE ScriptStore WITH
    scripts <- kv,
    libs <- libkv,
    answer <- CASE answer.op = "list" -> [op |-> "list", subjects |-> ToSet(answer.listed)]
                [] answer.op = "load" -> [op |-> "load"]
                [] OTHER -> answer

ImplementsStore == Promise!Spec
=============================================================================
