---------------------------- MODULE FileContent -----------------------------
(***************************************************************************)
(* What FileBlocks stores, seen through fs_read: the refinement mapping    *)
(* from the block tree to the sequences of words of ByteFile.              *)
(***************************************************************************)
EXTENDS FileBlocks, Sequences

(***************************************************************************)
(* fs_read.  A word that the caller's buffer held before is Stale.  A read *)
(* of a block that the image does not have fails image_read's assertion,   *)
(* which ends the process: the words that it would have given are NoBlock. *)
(***************************************************************************)
Stale   == -1
NoBlock == -2

Smaller(m, n) == IF m < n THEN m ELSE n
Larger(m, n) == IF m < n THEN n ELSE m

fs_read_block(b, offset) == IF b \in Blocks THEN blk[b][offset] ELSE NoBlock

\* A block read as a table of pointers.  (Block 0, the superblock, begins with
\* its magic number, which is no block's.)
Table(t) == IF t \in Blocks \ {0} THEN blk[t] ELSE [i \in Entries |-> NoBlock]

\* The loop of a level, over the n pointers of ptr: from offset from of their
\* range on it copies len words, up to the end of the range or to the first
\* pointer that is 0.
read_level(ptr, n, from, len) ==
    LET end  == Smaller(from + len, n * BLOCK_SIZE)
        stop == {o \in from .. end - 1 : ptr[o \div BLOCK_SIZE] = 0}
        to   == IF stop = {} THEN end ELSE CHOOSE o \in stop : \A o2 \in stop : o <= o2
    IN  [i \in 1 .. to - from |->
            fs_read_block(ptr[(from + i - 1) \div BLOCK_SIZE], (from + i - 1) % BLOCK_SIZE)]

fs_read_1st_level(in, offset, len) == read_level(in.ptr, N_DIRECT, offset, len)

\* Mutant: the offset is not taken from the range's beginning.
fs_read_2nd_level_NoBase(root_blk, offset, len) ==
    read_level(Table(root_blk), PTRS, offset % file_1st_level_sz, len)

fs_read_2nd_level(root_blk, offset, len) ==
    read_level(Table(root_blk), PTRS, offset - file_in_inode_sz, len)

\* One table after the other: the count goes on by a whole piece of the range
\* when the table's loop stops short, and what it has not copied is Stale.
fs_read_3rd_level(root_blk, offset, len) ==
    LET h2t_offset == offset - file_1st_level_sz - file_in_inode_sz
        end == Smaller(h2t_offset + len, file_2nd_level_sz)
        from(n) == Larger(h2t_offset, n * file_1st_level_sz)
        piece(n) == fs_read_2nd_level(Table(root_blk)[n],
                        (from(n) % file_1st_level_sz) + file_in_inode_sz,
                        Smaller(end, (n + 1) * file_1st_level_sz) - from(n))
        word(o) == LET n == o \div file_1st_level_sz
                   IN  IF o - from(n) < Len(piece(n)) THEN piece(n)[o - from(n) + 1]
                       ELSE Stale
    IN  [i \in 1 .. end - h2t_offset |-> word(h2t_offset + i - 1)]

\* The words of inode in from offset to end, level after level, each from where
\* the one before it stopped.
read_levels(in, offset, end) ==
    LET first  == IF offset < file_in_inode_sz
                  THEN fs_read_1st_level(in, offset, end - offset) ELSE <<>>
        off1   == offset + Len(first)
        second == IF off1 \in file_in_inode_sz .. Level2 - 1
                  THEN fs_read_2nd_level(in.ptr[indir_1], off1, end - off1) ELSE <<>>
        off2   == off1 + Len(second)
        third  == IF off2 \in Level2 .. MaxSize
                  THEN fs_read_3rd_level(in.ptr[indir_2], off2, end - off2) ELSE <<>>
    IN  first \o second \o third

\* Mutant: the length is not cut to the size.
fs_read_NoCut(in, len, offset) ==
    IF offset >= in.size THEN <<>> ELSE read_levels(in, offset, offset + len)

fs_read(in, len, offset) ==
    IF offset >= in.size THEN <<>>
    ELSE read_levels(in, offset, Smaller(offset + len, in.size))
-----------------------------------------------------------------------------
\* The word that inode in leads to at offset off.
WordAt(in, off) == blk[Deref(in, PathOf(off))][off % BLOCK_SIZE]

\* A file's content: the word that its inode leads to at every offset below its
\* size.  (The inode in the image: the one in memory leads it while fs_truncate
\* runs, and agrees with it between calls: ReloadIsHarmless.)
content ==
    [f \in Files |-> [i \in 1 .. disk_inode_region[f].size |->
                          WordAt(disk_inode_region[f], i - 1)]]

op == IF pc \in {"write", "link", "mark"}
      THEN [file |-> call.file, start |-> call.start,
            len  |-> call.off - call.start + call.len,
            val  |-> call.val, done |-> call.off - call.start]
      ELSE [file |-> 0, start |-> 0, len |-> 0, val |-> 0, done |-> 0]

LevelEnds == {file_in_inode_sz, Level2}

Abstract == INSTANCE ByteFile WITH content <- content, op <- op
-----------------------------------------------------------------------------
\* The handlers implement a file that is a sequence of words: a write shows
\* its words below the old end as it goes and the others when it returns, what
\* was not written keeps its value, and no call changes another file.
ImplementsByteFile == Abstract!Spec

\* fs_read returns exactly what was asked for and the file has, at every
\* offset and length, whatever levels of the tree the range touches.
ReadsAreExact ==
    pc = "idle" =>
        \A f \in Files : \A off \in 0 .. MaxSize : \A len \in 1 .. MaxSize :
            LET c   == content[f]
                end == IF off + len > Len(c) THEN Len(c) ELSE off + len
            IN  fs_read(inode_region[f], len, off) = SubSeq(c, off + 1, end)
=============================================================================
