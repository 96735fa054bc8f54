----------------------------- MODULE MCFileBackend -----------------------------
(***************************************************************************)
(* Directories for TLC.                                                    *)
(***************************************************************************)
EXTENDS FileBackend

CONSTANT Long       \* how many lines a single file has at most

H(key, value) == [key |-> key, value |-> value, long |-> FALSE]
Text == H("", "")
LongLine == [Text EXCEPT !.long = TRUE]

HeaderLines ==
    { H("subject", "s"), H("name", "n"), H("require", "web"), H("require", "util"),
      H("html", "true"), Text, LongLine }

F(lines) == [lua |-> TRUE, opens |-> TRUE, lines |-> lines]

\* The sequences of at most k members of S.
UpTo(k, S) == UNION {[1..n -> S] : n \in 0..k}

\* One file of every sequence of lines.
SingleFile == {<<F(lines)>> : lines \in UpTo(Long, HeaderLines)}

\* Up to three files of a few kinds, in every combination: two scripts of the same
\* name, one that is cut off, one without a name, one that is no script, one that
\* cannot be opened.
Kinds ==
    { F(<<H("subject", "s"), H("name", "n"), H("require", "web"), Text>>),
      F(<<H("subject", "s"), Text, H("name", "n"), H("html", "yes"), H("executor", "wasm")>>),
      F(<<H("subject", "s"), LongLine, H("name", "n")>>),
      F(<<H("subject", "s"), Text>>),
      [F(<<Text>>) EXCEPT !.lua = FALSE],
      [F(<<>>) EXCEPT !.opens = FALSE] }

Several == UpTo(3, Kinds)

MCScriptDirs == SingleFile \cup Several

\* Two libraries of one name, one without a name; one that cannot be opened.
MCLibraryDirs ==
    { <<F(<<H("name", "web"), Text>>), F(<<H("name", "web"), Text, Text>>), F(<<Text>>)>>,
      <<F(<<H("name", "web"), Text>>), [F(<<>>) EXCEPT !.opens = FALSE]>> }

\* Every script that such lines make.
MCBodies ==
    [subject : {"s", ""}, name : {"n", ""}, html : BOOLEAN, executor : {"", "wasm"},
     libKeys : UpTo(2, {"web", "util"}), content : UpTo(2, {Text})]
MCTexts == UpTo(2, {Text})
=============================================================================
