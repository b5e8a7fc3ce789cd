---------------------------- MODULE MCNamespace -----------------------------
(* Small instances of Namespace for TLC. *)
EXTENDS NamespaceTree, TLC

\* Callers treat all names alike, but for their length.
Symmetry == Permutations(Names \ LongNames)

\* Once something has been written out of its place, what that is makes no difference.
Followed == IF InPlace THEN vars ELSE <<"overrun">>
=============================================================================
