---------------------------- MODULE MCFileSystem ----------------------------
(* A small instance of FileSystem for TLC. *)
EXTENDS FileSystem, TLC

\* Names are only compared.
Symmetry == Permutations(Names)

\* The words of a block that no pointer holds, in memory or in the image, do not
\* matter, marked or not: a block is cleared before it is linked.  Two states
\* that differ in them only are one, and so are all that an overrun leaves.
InUse == Held \cup {new}
         \cup (IF disk_inode_region = inode_region THEN {} ELSE DiskHeld)
LiveView ==
    LET live == IF sound THEN InUse ELSE Blocks
    IN  IF pc = "overrun" THEN <<pc>>
        ELSE <<mem, disk_inode_region, disk_block_map, pc, call, new, k, names, sound,
               [b \in Blocks |-> IF b \in live THEN blk[b] ELSE ZeroBlock]>>

\* A process that was started on a damaged image is not followed: the properties
\* say nothing of it, but for ReadsInside, whose run follows it.
Followed == sound
=============================================================================
