-------------------------------- MODULE Commands --------------------------------
(***************************************************************************)
(* The commands of the cli.  In a behaviour one of them is at work: `list' *)
(* or `lib add' against the etcd store that servers use, `devhttp' with a  *)
(* store of its own, or the calls "add" and "rm" and any others of the     *)
(* store, each of which is one request.                                    *)
(***************************************************************************)
EXTENDS ListCommand, LibAdd

CONSTANTS Requests, Walk, Contents, Required

VARIABLES
    command,    \* the command at work
    disk, libraries_, alive, stage_, todo_, found, loaded, whole, own, fresh, met

Dev == INSTANCE DevHttp WITH Names <- Paths, libraries <- libraries_, stage <- stage_, todo <- todo_

ASSUME WalkAssumption ==
    /\ Walk \in Seq(Paths) /\ Required \in Seq(Paths)
    /\ Contents \in [Dev!Files -> SUBSET (Dev!Library \cup {None})]
    /\ None \notin Dev!Library

devVars == <<disk, libraries_, alive, stage_, todo_, found, loaded, whole, own, fresh, met>>
commandVars == <<allVars, addVars, devVars, command>>

CommandsInit ==
    /\ ListInit /\ LibAddInit
    /\ command \in {"calls", "list", "lib add", "devhttp"}
    /\ IF command = "devhttp" THEN Dev!DevInit
       ELSE /\ disk = [p \in Dev!Files |-> None]
            /\ libraries_ = [p \in Paths |-> None] /\ alive = FALSE /\ Dev!AllIdle

\* main: cobra runs the one command that is named.
CommandsNext ==
    /\ UNCHANGED command
    /\ \/ /\ command = "calls"
          /\ Next
          /\ UNCHANGED <<listVars, pastVars, addVars, devVars>>
       \/ /\ command = "list"
          /\ ListNext
          /\ UNCHANGED <<addVars, devVars>>
       \/ /\ command = "lib add"
          /\ LibAddNext
          /\ UNCHANGED <<listVars, pastVars, devVars>>
       \/ /\ command = "devhttp"
          /\ Dev!DevNext
          /\ UNCHANGED <<allVars, addVars>>

CommandsSpec == CommandsInit /\ [][CommandsNext]_commandVars

LibrariesFresh == Dev!LibrariesFresh
LastOfWalk == Dev!LastOfWalk
=============================================================================
