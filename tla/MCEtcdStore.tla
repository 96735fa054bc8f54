------------------------------ MODULE MCEtcdStore ------------------------------
(***************************************************************************)
(* Instances of EtcdStore for TLC.                                         *)
(***************************************************************************)
EXTENDS EtcdStore

CONSTANTS a, b, web, util

MCSubjects == {"funcs.foo", "funcs.foobar"}

\* No subject begins with another.
PrefixFree == {<<s, s>> : s \in Subjects}

\* "funcs.foobar" begins with "funcs.foo".
Overlapping == PrefixFree \cup {<<"funcs.foobar", "funcs.foo">>}

MCRequires == {<<web>>, <<web, util>>}
=============================================================================
