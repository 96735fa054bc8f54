------------------------------ MODULE ScriptText ------------------------------
(***************************************************************************)
(* The text of a script, as Script.Read of src/script/script.go takes it:  *)
(* headers and content.                                                    *)
(*                                                                         *)
(* A line is a record: key is the header's word when the line begins with  *)
(* "--*", and "" when it does not; value is what follows; long says that   *)
(* the line is more than the scanner's buffer holds.  A file says whether  *)
(* its name ends in .lua, whether it can be opened, and its lines.         *)
(***************************************************************************)
EXTENDS Naturals, Sequences

\* The keys of headers that Read knows; any other header is content.
Known == {"subject", "name", "require", "html", "executor"}

NewScript ==
    [subject |-> "", name |-> "", libKeys |-> <<>>, html |-> FALSE,
     executor |-> "", content |-> <<>>]

\* Mutant of ReadLine: a library replaces the one required before it.
ReadLineReplaces(s, line) ==
    CASE line.key = "subject" -> [s EXCEPT !.subject = line.value]
      [] line.key = "name" -> [s EXCEPT !.name = line.value]
      [] line.key = "require" -> [s EXCEPT !.libKeys = <<line.value>>]
      [] line.key = "html" -> [s EXCEPT !.html = (line.value = "true")]
      [] line.key = "executor" -> [s EXCEPT !.executor = line.value]
      [] OTHER -> [s EXCEPT !.content = Append(@, line)]

\* One turn of the loop of Read.  strconv.ParseBool takes "true" for true, and what
\* it cannot parse leaves false.
ReadLine(s, line) ==
    CASE line.key = "subject" -> [s EXCEPT !.subject = line.value]
      [] line.key = "name" -> [s EXCEPT !.name = line.value]
      [] line.key = "require" -> [s EXCEPT !.libKeys = Append(@, line.value)]
      [] line.key = "html" -> [s EXCEPT !.html = (line.value = "true")]
      [] line.key = "executor" -> [s EXCEPT !.executor = line.value]
      [] OTHER -> [s EXCEPT !.content = Append(@, line)]

-----------------------------------------------------------------------------
(* What a file says.                                                         *)

\* The lines the scanner gets to.
Said(f) ==
    LET Ends(n) == n = Len(f.lines) \/ f.lines[n + 1].long
    IN  SubSeq(f.lines, 1, CHOOSE n \in 0..Len(f.lines) : Ends(n) /\ \A k \in 0..n - 1 : ~Ends(k))

\* The lines at the places in S, in their order.
Chosen(lines, S) ==
    LET chosen[n \in 0..Len(lines)] ==
          IF n = 0 THEN <<>>
          ELSE IF n \in S THEN Append(chosen[n - 1], lines[n]) ELSE chosen[n - 1]
    IN  chosen[Len(lines)]

\* The values of the headers of that key, and the last of them, wherever it stands.
Values(lines, key) ==
    LET headers == Chosen(lines, {n \in DOMAIN lines : lines[n].key = key})
    IN  [i \in DOMAIN headers |-> headers[i].value]
Header(lines, key) == LET v == Values(lines, key) IN IF v = <<>> THEN "" ELSE v[Len(v)]

Content(lines) == Chosen(lines, {n \in DOMAIN lines : lines[n].key \notin Known})

\* The script that lines are.
Script(lines) ==
    [subject |-> Header(lines, "subject"), name |-> Header(lines, "name"),
     libKeys |-> Values(lines, "require"), html |-> Header(lines, "html") = "true",
     executor |-> Header(lines, "executor"), content |-> Content(lines)]

Meaning(f) == Script(Said(f))
=============================================================================
