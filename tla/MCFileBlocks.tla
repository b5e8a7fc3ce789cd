---------------------------- MODULE MCFileBlocks ----------------------------
(* Small instances of FileBlocks for TLC. *)
EXTENDS FileContent

\* The words of a block that nothing holds do not matter: the handlers clear a
\* block before they link it.  Two states that differ in them only are one.
HeldInImage == {Deref(disk_inode_region[f], p) : f \in Files, p \in Paths} \ {0}
InUse == block_map \cup Held \cup HeldInImage \cup {new}
LiveView ==
    LET used == InUse
    IN  <<mem, disk_inode_region, disk_block_map, pc, call, new, k,
          [b \in Blocks |-> IF b \in used THEN blk[b] ELSE ZeroBlock]>>
=============================================================================
