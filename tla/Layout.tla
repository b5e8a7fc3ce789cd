------------------------------- MODULE Layout -------------------------------
(***************************************************************************)
(* Where mkfs-x6.c puts the parts of an image of n blocks, and where the   *)
(* file system looks for them (fs_init and update_inode of homework.c,     *)
(* which go by the sizes in the superblock).                               *)
(***************************************************************************)
EXTENDS Integers

CONSTANTS
    BITS,           \* bits of a block, 8 * FS_BLOCK_SIZE
    INODES_PER_BLK  \* inodes of a block, FS_BLOCK_SIZE / sizeof(struct fs5600_inode)

DIV_ROUND_UP(n, m) == (n + m - 1) \div m

\* There is an inode for every four blocks.
n_inos(n) == n \div 4

superblock(n) == [inode_map_sz    |-> DIV_ROUND_UP(n_inos(n), BITS),
                  block_map_sz    |-> DIV_ROUND_UP(n, BITS),
                  inode_region_sz |-> DIV_ROUND_UP(n_inos(n), INODES_PER_BLK),
                  num_blocks      |-> n]

\* The regions of mkfs-x6: superblock, inode map, block map, inodes, and the
\* root directory's block, after which everything is free.
inode_map_base == 1
block_map_base(n) == inode_map_base + superblock(n).inode_map_sz
inode_base(n)     == block_map_base(n) + superblock(n).block_map_sz
rootdir_base(n)   == inode_base(n) + superblock(n).inode_region_sz

\* The block that update_inode writes for inode inum, by superblock sb.
update_inode_offset(sb, inum) ==
    1 + sb.inode_map_sz + sb.block_map_sz + inum \div INODES_PER_BLK

\* The bits that find_free_inode_map_bit and find_free_block_number look at.
inode_capacity(sb) == sb.inode_map_sz * BITS
block_capacity(sb) == IF sb.block_map_sz * BITS < sb.num_blocks
                      THEN sb.block_map_sz * BITS ELSE sb.num_blocks
=============================================================================
