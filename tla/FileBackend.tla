------------------------------ MODULE FileBackend ------------------------------
(***************************************************************************)
(* The file backend of a process: StoreByName (src/store/store.go) reads   *)
(* the script directory and the library directory (ScriptFile) and adds    *)
(* what it read to a file store (FileStore), which then answers the calls  *)
(* of the store's interface.                                               *)
(***************************************************************************)
EXTENDS FileStore, ScriptText, Integers, SequencesExt

CONSTANTS
    ScriptDirs,     \* the script directories, as ScriptFile has them
    LibraryDirs,    \* the library directories
    NoDir           \* StoreByName is given no library directory

LuaFiles(d) == {f \in ToSet(d) : f.lua}

\* What a file holds has its place in the store.
ASSUME DirectoryAssumption ==
    /\ \A d \in ScriptDirs \cup LibraryDirs :
          d \in Seq(ToSet(d)) /\ \A f \in LuaFiles(d) : f.lines \in Seq(ToSet(f.lines))
    /\ \A d \in ScriptDirs : \A f \in LuaFiles(d) :
          LET m == Meaning(f) IN m.subject \in Subjects /\ m.name \in Names /\ m \in Bodies
    /\ \A d \in LibraryDirs : \A f \in LuaFiles(d) :
          LET m == Meaning(f) IN m.name \in Paths /\ m.content \in Texts /\ m # None

VARIABLES
    phase,          \* "scripts", "libs": StoreByName reads and adds them;
                    \* "serving" or "failed": it has returned
    scriptDir, libraryDir,  \* its arguments
    mode, dir, file, pos, script, status,   \* a call of ScriptFile,
    read            \* and what it returned that is still to be added

readerVars == <<mode, dir, file, pos, script, read, status>>
startVars == <<phase, scriptDir, libraryDir>>
storeVars == <<scripts, libs, answer>>
allVars == <<storeVars, readerVars, startVars>>

Reader == INSTANCE ScriptFile WITH scripts <- read

\* StoreByName is called, and has called ReadScriptDirectory.
BackendInit ==
    /\ Init
    /\ scriptDir \in ScriptDirs /\ libraryDir \in LibraryDirs \cup {NoDir}
    /\ phase = "scripts" /\ mode = "scripts" /\ dir = scriptDir
    /\ file = 1 /\ pos = 0 - 1
    /\ script = NewScript /\ read = <<>> /\ status = "reading"

Starting == phase \in {"scripts", "libs"}

Read == Starting /\ Reader!Next /\ UNCHANGED <<storeVars, startVars>>

\* The directory could not be read: the process gets no store.
Fail ==
    /\ Starting /\ status = "error"
    /\ phase' = "failed"
    /\ UNCHANGED <<storeVars, readerVars, scriptDir, libraryDir>>

\* The scripts are ranged over in any order.
AddNextScript ==
    /\ phase = "scripts" /\ status = "done"
    /\ \E e \in DOMAIN read :
         /\ AddScript(e[1], e[2], read[e])
         /\ read' = [k \in DOMAIN read \ {e} |-> read[k]]
    /\ UNCHANGED <<startVars, mode, dir, file, pos, script, status>>

AddNextLibrary ==
    /\ phase = "libs" /\ status = "done" /\ read # <<>>
    /\ AddLibrary(read[1].name, read[1].content)
    /\ read' = Tail(read)
    /\ UNCHANGED <<startVars, mode, dir, file, pos, script, status>>

ReadLibraries ==
    /\ phase = "scripts" /\ status = "done" /\ read = <<>> /\ libraryDir # NoDir
    /\ phase' = "libs"
    /\ Reader!Call("libs", libraryDir)
    /\ UNCHANGED <<storeVars, scriptDir, libraryDir>>

\* StoreByName returns the store; its variables are gone.
Serve ==
    /\ status = "done" /\ read = <<>>
    /\ phase = "libs" \/ (phase = "scripts" /\ libraryDir = NoDir)
    /\ phase' = "serving" /\ scriptDir' = <<>> /\ libraryDir' = NoDir
    /\ mode' = "scripts" /\ dir' = <<>> /\ file' = 1 /\ pos' = 0 - 1
    /\ script' = NewScript /\ read' = <<>> /\ status' = "done"
    /\ UNCHANGED storeVars

\* The calls of the server, and the other ones of the interface, which nobody makes:
\* the command line cannot open a file store.
Answer ==
    /\ phase = "serving"
    /\ \/ \E s \in Subjects : GetScripts(s) \/ \E n \in Names : DeleteScript(s, n)
       \/ \E ps \in SUBSET Paths : LoadLibrairies(ps)
       \/ \E p \in Paths : RemoveLibrary(p)
       \/ ListSubjects
    /\ UNCHANGED <<readerVars, startVars>>

Start == Read \/ Fail \/ AddNextScript \/ AddNextLibrary \/ ReadLibraries \/ Serve
BackendNext == Start \/ Answer

BackendSpec == BackendInit /\ [][BackendNext]_allVars /\ WF_allVars(Start)

-----------------------------------------------------------------------------
\* The files of d with these headers, and what the last of some files of d says.
Scripts(d, s, n) ==
    {i \in DOMAIN d : d[i].lua /\ LET m == Meaning(d[i]) IN m.subject = s /\ m.name = n}
Named(d, p) == {i \in DOMAIN d : d[i].lua /\ Meaning(d[i]).name = p}
Latest(d, at) == IF at = {} THEN None ELSE Meaning(d[Max(at)])

Libraries == IF libraryDir = NoDir THEN <<>> ELSE libraryDir

(* When the process begins to serve, the store has under each subject and    *)
(* name exactly what the last file with these headers says, whole and with   *)
(* no line of the files read before it, in whatever order the scripts were   *)
(* added; and so the libraries under their names.                            *)
ServesDirectories ==
    [][(phase # "serving" /\ phase' = "serving") =>
        /\ \A s \in Subjects, n \in Names :
              (IF scripts[s] = None THEN None ELSE scripts[s][n])
                  = Latest(scriptDir, Scripts(scriptDir, s, n))
        /\ \A p \in Paths :
              LET said == Latest(Libraries, Named(Libraries, p))
              IN  libs[p] = IF said = None THEN None ELSE said.content]_allVars

(* A process never serves half a directory: it serves if all scripts and     *)
(* libraries can be had, and gets no store if one of them cannot.            *)
Unfit == \E d \in {scriptDir, Libraries} : \E i \in DOMAIN d : d[i].lua /\ ~d[i].opens
AllOrNothing ==
    /\ Unfit => [](phase # "serving") /\ <>(phase = "failed")
    /\ ~Unfit => <>(phase = "serving")

=============================================================================
