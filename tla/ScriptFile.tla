------------------------------ MODULE ScriptFile ------------------------------
(***************************************************************************)
(* Reading scripts from files: Script.Read, ReadScriptDirectory and        *)
(* ReadLibraryDirectory of src/script/script.go, line by line and file by  *)
(* file.                                                                   *)
(*                                                                         *)
(* A directory is the sequence of its files (ScriptText), in order of      *)
(* name; one that cannot be read is as good as one whose first file cannot *)
(* be opened.  It is read without what is below it: nobody asks for that.  *)
(***************************************************************************)
EXTENDS Integers, ScriptText

VARIABLES
    mode,       \* "scripts", ReadScriptDirectory, or "libs", ReadLibraryDirectory
    dir,        \* the directory read
    file,       \* the index of the file being read
    pos,        \* how many of its lines have been read; -1 when it is not open
    script,     \* the Script being filled
    scripts,    \* what is returned: a map from subject and name, or a sequence
    status      \* "reading", "error" or "done"

vars == <<mode, dir, file, pos, script, scripts, status>>

\* A call of one of the two with the directory d.
Call(m, d) ==
    /\ mode' = m /\ dir' = d
    /\ file' = 1 /\ pos' = 0 - 1
    /\ script' = NewScript /\ scripts' = <<>>
    /\ status' = "reading"

-----------------------------------------------------------------------------
File == dir[file]
Lines == File.lines

\* Files that are not scripts are passed over.
Skip ==
    /\ status = "reading" /\ pos = 0 - 1 /\ file <= Len(dir)
    /\ ~File.lua
    /\ file' = file + 1
    /\ UNCHANGED <<mode, dir, pos, script, scripts, status>>

\* Mutant of Open: a file that cannot be opened is passed over.
OpenPasses ==
    /\ status = "reading" /\ pos = 0 - 1 /\ file <= Len(dir)
    /\ File.lua
    /\ IF File.opens
       THEN pos' = 0 /\ script' = NewScript /\ UNCHANGED file
       ELSE file' = file + 1 /\ UNCHANGED <<pos, script>>
    /\ UNCHANGED <<mode, dir, scripts, status>>

Open ==
    /\ status = "reading" /\ pos = 0 - 1 /\ file <= Len(dir)
    /\ File.lua
    /\ IF File.opens
       THEN pos' = 0 /\ script' = NewScript /\ UNCHANGED status
       ELSE status' = "error" /\ UNCHANGED <<pos, script>>
    /\ UNCHANGED <<mode, dir, file, scripts>>

\* The scanner stops at the end of the file, and at a line that is too long,
\* for which nobody asks it.
More == pos < Len(Lines) /\ ~Lines[pos + 1].long

Scan ==
    /\ status = "reading" /\ pos >= 0 /\ More
    /\ script' = ReadLine(script, Lines[pos + 1])
    /\ pos' = pos + 1
    /\ UNCHANGED <<mode, dir, file, scripts, status>>

\* The file is read: its script is stored under its subject and name, over one
\* already there; a library is appended to those before it.
Place ==
    /\ status = "reading" /\ pos >= 0 /\ ~More
    /\ LET k == IF mode = "libs" THEN Len(scripts) + 1 ELSE <<script.subject, script.name>>
       IN  scripts' = [e \in DOMAIN scripts \cup {k} |-> IF e = k THEN script ELSE scripts[e]]
    /\ file' = file + 1 /\ pos' = 0 - 1
    /\ UNCHANGED <<mode, dir, script, status>>

Return ==
    /\ status = "reading" /\ pos = 0 - 1 /\ file > Len(dir)
    /\ status' = "done"
    /\ UNCHANGED <<mode, dir, file, pos, script, scripts>>

Next == Skip \/ Open \/ Scan \/ Place \/ Return

=============================================================================
