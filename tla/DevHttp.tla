-------------------------------- MODULE DevHttp --------------------------------
(***************************************************************************)
(* The command `cli devhttp', src/cmd/cli/cmd_devhttp.go, and the          *)
(* libraries of its store, src/store/dev.go.  Each HTTP request reads the  *)
(* library directory into the store and runs the script the developer      *)
(* works on.  Requests overlap (net/http has a goroutine for each), files  *)
(* change meanwhile, and the maps of the store have no lock.               *)
(***************************************************************************)
EXTENDS Naturals, SequencesExt

CONSTANTS
    Requests,   \* the requests that may be under way at once
    Walk,       \* the library files, in the order of the walk
    Names,      \* names of libraries; the files' paths are names too
    Texts, None,
    Contents,   \* Contents[p]: what the file p may be; None stands for no file
    Required    \* the names of the libraries the script requires

Files == ToSet(Walk)

\* A library file: the name in its header, which need not be its path, and its text.
Library == [name : Names, text : Texts]

VARIABLES
    disk,       \* disk[p]: the library file at p, or None
    libraries,  \* libraries[n]: the text the store has under the name n, or None
    alive,      \* the process runs
    stage,      \* stage[r]: "idle", "reading", "adding" or "loading"
    todo,       \* todo[r]: the files still to read, or the libraries to load
    found,      \* found[r]: the libraries read from files, <<name, text>>
    loaded,     \* loaded[r]: what LoadLibrairies has gathered, <<name, text>>
    whole,      \* whole[r]: the walk came to its end
    own,        \* own[r][p]: what p has been on disk since r began
    fresh,      \* fresh[r][n]: the texts files have had under the required name n
                \* since r, or one still under way when r came, began
    met         \* the requests that were under way together with another

historyVars == <<own, fresh, met>>
requestVars == <<stage, todo, found, loaded, whole, historyVars>>
devVars == <<disk, libraries, alive, requestVars>>

Never == [p \in Files |-> {}]
NoTexts == [n \in ToSet(Required) |-> {}]
AllIdle ==
    /\ stage = [r \in Requests |-> "idle"]
    /\ todo = [r \in Requests |-> <<>>]
    /\ found = [r \in Requests |-> <<>>]
    /\ loaded = [r \in Requests |-> <<>>]
    /\ whole = [r \in Requests |-> FALSE]
    /\ own = [r \in Requests |-> Never]
    /\ fresh = [r \in Requests |-> NoTexts]
    /\ met = {}

\* NewDevStore: each file of the directory goes under its path, whatever its headers
\* say.  Without the option -l the store begins empty.
NewDevStores ==
    {[n \in Names |-> None],
     [n \in Names |-> IF n \in Files /\ disk[n] # None THEN disk[n].text ELSE None]}

DevInit ==
    /\ disk \in [Files -> Library \cup {None}]
    /\ \A p \in Files : disk[p] \in Contents[p]
    /\ libraries \in NewDevStores
    /\ alive = TRUE
    /\ AllIdle

Active == {r \in Requests : stage[r] # "idle"}

\* The texts under a name among some files.
Under(n, fs) == {f.text : f \in {g \in fs \ {None} : g.name = n}}

-----------------------------------------------------------------------------
\* The developer saves, renames, adds or removes a library.
Edit(p, f) ==
    /\ alive /\ f # disk[p]
    /\ disk' = [disk EXCEPT ![p] = f]
    /\ own' = [r \in Requests |->
                 IF r \in Active THEN [own[r] EXCEPT ![p] = @ \cup {f}] ELSE own[r]]
    /\ fresh' = [r \in Requests |->
                   IF r \in Active THEN [n \in ToSet(Required) |-> fresh[r][n] \cup Under(n, {f})]
                   ELSE fresh[r]]
    /\ UNCHANGED <<libraries, alive, stage, todo, found, loaded, whole, met>>

\* The script is read; a request that cannot read it, or whose directory is not
\* there, ends here and leaves nothing.
Recent(p) == {disk[p]} \cup UNION {own[q][p] : q \in Active}
RecentTexts(n) == UNION {Under(n, Recent(p)) : p \in Files}
Receive(r) ==
    /\ alive /\ stage[r] = "idle"
    /\ stage' = [stage EXCEPT ![r] = "reading"]
    /\ todo' = [todo EXCEPT ![r] = Walk]
    /\ own' = [own EXCEPT ![r] = [p \in Files |-> {disk[p]}]]
    /\ fresh' = [fresh EXCEPT ![r] = [n \in ToSet(Required) |-> RecentTexts(n)]]
    /\ met' = IF Active = {} THEN met ELSE met \cup Active \cup {r}
    /\ UNCHANGED <<disk, libraries, alive, found, loaded, whole>>

\* The walk reads the next file, if it is there.
ReadNext(r) ==
    /\ alive /\ stage[r] = "reading" /\ todo[r] # <<>>
    /\ LET p == Head(todo[r])
       IN  found' = [found EXCEPT ![r] = IF disk[p] = None THEN @
                                         ELSE Append(@, <<disk[p].name, disk[p].text>>)]
    /\ todo' = [todo EXCEPT ![r] = Tail(@)]
    /\ UNCHANGED <<disk, libraries, alive, stage, loaded, whole, historyVars>>

\* The walk ends, or a file it cannot read ends it: its error is dropped, and
\* the request goes on with what has been read.
WalkEnds(r) ==
    /\ alive /\ stage[r] = "reading"
    /\ stage' = [stage EXCEPT ![r] = "adding"]
    /\ whole' = [whole EXCEPT ![r] = todo[r] = <<>>]
    /\ todo' = [todo EXCEPT ![r] = <<>>]
    /\ UNCHANGED <<disk, libraries, alive, found, loaded, historyVars>>

\* Mutants of AddLibrary: a library the store has is not added again; the last one
\* read is added first.
AddLibraryOnce(r) ==
    /\ alive /\ stage[r] = "adding" /\ found[r] # <<>>
    /\ libraries' = [libraries EXCEPT ![Head(found[r])[1]] =
                       IF @ = None THEN Head(found[r])[2] ELSE @]
    /\ found' = [found EXCEPT ![r] = Tail(@)]
    /\ UNCHANGED <<disk, alive, stage, todo, loaded, whole, historyVars>>

AddLibraryLast(r) ==
    /\ alive /\ stage[r] = "adding" /\ found[r] # <<>>
    /\ libraries' = [libraries EXCEPT ![Last(found[r])[1]] = Last(found[r])[2]]
    /\ found' = [found EXCEPT ![r] = Front(@)]
    /\ UNCHANGED <<disk, alive, stage, todo, loaded, whole, historyVars>>

\* AddLibrary, under the name of the header: that of another file, or the empty one
\* where there is none, it may be.
AddLibrary(r) ==
    /\ alive /\ stage[r] = "adding" /\ found[r] # <<>>
    /\ libraries' = [libraries EXCEPT ![Head(found[r])[1]] = Head(found[r])[2]]
    /\ found' = [found EXCEPT ![r] = Tail(@)]
    /\ UNCHANGED <<disk, alive, stage, todo, loaded, whole, historyVars>>

\* The script is read again and added; HandleMessage begins.
AddScript(r) ==
    /\ alive /\ stage[r] = "adding" /\ found[r] = <<>>
    /\ stage' = [stage EXCEPT ![r] = "loading"]
    /\ todo' = [todo EXCEPT ![r] = Required]
    /\ UNCHANGED <<disk, libraries, alive, found, loaded, whole, historyVars>>

\* LoadLibrairies: a library the store does not have is passed over.
Load(r) ==
    /\ alive /\ stage[r] = "loading" /\ todo[r] # <<>>
    /\ LET n == Head(todo[r])
       IN  loaded' = [loaded EXCEPT ![r] = IF libraries[n] = None THEN @
                                           ELSE Append(@, <<n, libraries[n]>>)]
    /\ todo' = [todo EXCEPT ![r] = Tail(@)]
    /\ UNCHANGED <<disk, libraries, alive, stage, found, whole, historyVars>>

\* The script has run and the answer is written, or an error before it was.
\* emptyStore makes a new store in a variable of its own: this one stays.
Respond(r) ==
    /\ alive
    /\ \/ stage[r] = "loading" /\ todo[r] = <<>>
       \/ stage[r] = "adding" /\ found[r] = <<>>
    /\ stage' = [stage EXCEPT ![r] = "idle"]
    /\ loaded' = [loaded EXCEPT ![r] = <<>>]
    /\ whole' = [whole EXCEPT ![r] = FALSE]
    /\ own' = [own EXCEPT ![r] = Never]
    /\ fresh' = [fresh EXCEPT ![r] = NoTexts]
    /\ met' = met \ {r}
    /\ UNCHANGED <<disk, libraries, alive, todo, found>>

\* Two requests at the maps at once, one of them writing: the Go runtime may
\* end the process.
RaceDies ==
    /\ alive
    /\ \E r, q \in Requests : r # q /\ stage[r] = "adding" /\ stage[q] \in {"adding", "loading"}
    /\ alive' = FALSE
    /\ UNCHANGED <<disk, libraries, requestVars>>

\* The developer starts the command again.
Restart ==
    /\ ~alive
    /\ alive' = TRUE
    /\ libraries' \in NewDevStores
    /\ stage' = [r \in Requests |-> "idle"]
    /\ todo' = [r \in Requests |-> <<>>] /\ found' = [r \in Requests |-> <<>>]
    /\ loaded' = [r \in Requests |-> <<>>] /\ whole' = [r \in Requests |-> FALSE]
    /\ own' = [r \in Requests |-> Never] /\ fresh' = [r \in Requests |-> NoTexts]
    /\ met' = {}
    /\ UNCHANGED disk

DevNext ==
    \/ \E p \in Files : \E f \in Contents[p] : Edit(p, f)
    \/ \E r \in Requests :
         \/ Receive(r) \/ ReadNext(r) \/ WalkEnds(r)
         \/ AddLibrary(r) \/ AddScript(r) \/ Load(r) \/ Respond(r)
    \/ RaceDies
    \/ Restart

-----------------------------------------------------------------------------
\* The libraries the request has loaded so far; the files that had the name n all
\* through it; those that had it at some moment.
Past(r) == 1..Len(Required) - Len(todo[r])
Kept(r, p, n) == \A f \in own[r][p] : f # None /\ f.name = n
Ever(r, p, n) == \E f \in own[r][p] : f # None /\ f.name = n

(* What the developer saved is what runs: a required name that some file     *)
(* bore all through the request is loaded, with the text a file of that name *)
(* had at some moment since this request, or one still under way when it     *)
(* came, began -- although the store is never emptied, other requests write  *)
(* it, and a missing library is passed over.  (Not so when the walk was cut  *)
(* short.)                                                                   *)
LibrariesFresh ==
    \A r \in Requests : stage[r] = "loading" /\ whole[r] =>
      \A i \in Past(r), p \in Files : Kept(r, p, Required[i]) =>
        \E l \in ToSet(loaded[r]) : l[1] = Required[i] /\ l[2] \in fresh[r][Required[i]]

(* Files may share a name: of those the last of the walk is the library, for *)
(* a request that meets no other.  (One that does may run with the text of   *)
(* an earlier file, that another request has just written.)                  *)
LastOfWalk ==
    \A r \in Requests \ met : stage[r] = "loading" /\ whole[r] =>
      \A i \in Past(r), k \in DOMAIN Walk :
        /\ Kept(r, Walk[k], Required[i])
        /\ \A j \in DOMAIN Walk : j > k => ~Ever(r, Walk[j], Required[i])
        => \E l \in ToSet(loaded[r]) :
              l[1] = Required[i] /\ l[2] \in Under(Required[i], own[r][Walk[k]])
=============================================================================
