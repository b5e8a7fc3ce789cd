---------------------------- MODULE NamespaceTree ---------------------------
(***************************************************************************)
(* Namespace seen from outside, through fs_getattr, fs_readdir and fs_read:*)
(* the refinement mapping to Tree.                                         *)
(***************************************************************************)
EXTENDS Namespace, FiniteSets

\* What fs_getattr and fs_read say of a path.
tree ==
    [p \in Paths |->
        LET i == translate(p)
        IN  IF i < 0 THEN [kind |-> "none", word |-> 0]
            ELSE [kind |-> Type(i),
                  word |-> IF Type(i) = "file" /\ inode_region[i].direct0 # 0
                           THEN blk[inode_region[i].direct0].word ELSE 0]]

req == IF pc \in {"idle", "dead", "overrun"} THEN [op |-> "none"]
       ELSE [op |-> call.op, path |-> call.path, dst |-> call.dst, word |-> call.word]

res == IF pc = "return" THEN <<ret>> ELSE <<>>

Abstract == INSTANCE Tree WITH tree <- tree, req <- req, res <- res

\* fs_readdir gives the filler one name for each valid entry of the block; its
\* test of the father finds an entry for any path that translate finds.
Listed(p) == {i \in 1 .. NDIRENTS : Entries(translate(p))[i].valid}
fs_readdir(p) ==
    IF translate(p) < 0 THEN <<translate(p), {}>>
    ELSE IF Type(translate(p)) # "dir" THEN <<ENOTDIR, {}>>
    ELSE <<0, {<<i, Entries(translate(p))[i].name>> : i \in Listed(p)}>>
-----------------------------------------------------------------------------
\* The handlers implement a tree: every call takes effect in one step, with the
\* result that its comment gives for the tree at that moment, and changes the
\* tree nowhere else: no other path, no other file's data, and a new file or
\* directory is empty whatever its inode and block were used for before.
ImplementsTree == Abstract!Spec

\* Listing and looking up agree: fs_readdir of a directory lists every name that
\* translate finds in it, once, and no other.
ListedIsFound == InPlace =>
    \A p \in Paths :
        LET r == fs_readdir(p)
            listed == {e[2] : e \in r[2]}
        IN  Len(p) < MaxDepth =>
            /\ Cardinality(listed) = Cardinality(r[2])
            /\ listed = {n \in Names : translate(Append(p, n)) > 0}
=============================================================================
