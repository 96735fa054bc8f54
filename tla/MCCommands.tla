------------------------------- MODULE MCCommands -------------------------------
(***************************************************************************)
(* Instances of Commands for TLC.                                          *)
(***************************************************************************)
EXTENDS Commands

CONSTANTS a, b, web, noname, r1, r2

Symmetry == Permutations(Requests)

MCSubjects == {"funcs.foo", "funcs.bar"}
PrefixFree == {<<s, s>> : s \in Subjects}
MCRequires == {<<web>>, <<web, noname>>}

File(name, text) == [name |-> name, text |-> text, ok |-> TRUE]
Unreadable(name) == [name |-> name, text |-> a, ok |-> FALSE]
Arg(kind, files) == [kind |-> kind, files |-> files]

\* Files with and without a name, a tree with an unreadable file in its midst, one
\* with a name twice, a directory without -r, and several arguments at once.
MCArguments ==
    {<<Arg("file", <<File(web, a)>>)>>,
     <<Arg("file", <<Unreadable(web)>>)>>,
     <<Arg("missing", <<>>)>>,
     <<Arg("tree", <<File(web, a), File(noname, a), File(web, b)>>)>>,
     <<Arg("tree", <<File(web, b), Unreadable(noname), File(web, a)>>)>>,
     <<Arg("dir", <<File(web, a), File(noname, a)>>), Arg("file", <<File(web, b)>>)>>,
     <<Arg("file", <<File(web, b)>>), Arg("file", <<File(noname, a)>>)>>}

\* Two library files, the second under its own name or under that of the first.
MCWalk == <<web, noname>>
Of(name, text) == [name |-> name, text |-> text]
MCContents ==
    web :> {None, Of(web, b)} @@ noname :> {Of(web, a), Of(noname, b)}
MCRequired == <<web>>
=============================================================================
