----------------------------- MODULE MCCmdLoop ------------------------------
(* A small instance of CmdLoop for TLC. *)
EXTENDS CmdLoop

\* An inode that no walk from the root gets to is overwritten before it is used,
\* and so is a block that no such inode points to: what they hold makes no
\* difference.  Nor does what a call was for once it is known to fail, or is over.
Reached ==
    LET reached[n \in 0 .. NumInodes] ==
            IF n = 0 THEN {1, loc.inum, loc.father}
            ELSE reached[n - 1] \cup
                 {e.inode : e \in UNION {{Entries(d)[s] : s \in 1 .. NDIRENTS} :
                                            d \in reached[n - 1]}}
    IN  reached[NumInodes]
Fails == (pc = "called" /\ Error # 0) \/ (pc = "return" /\ ret # 0)
LiveView ==
    LET inodes == Reached
        blocks == {inode_region[i].direct0 : i \in inodes} \cup {loc.block}
    IN  <<inode_map, block_map, pc, loc, Fails, cwd,
          IF Fails THEN NoPut ELSE put,
          IF Fails THEN "none" ELSE IF pc = "return" THEN call.op ELSE call,
          [i \in Inodes |-> IF i \in inodes THEN inode_region[i] ELSE "free"],
          [b \in Blocks |-> IF b \in blocks THEN blk[b] ELSE ZeroBlock]>>
=============================================================================
