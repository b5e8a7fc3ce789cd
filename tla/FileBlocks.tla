----------------------------- MODULE FileBlocks -----------------------------
(***************************************************************************)
(* The block tree of a regular file and the block allocator: fs_write,     *)
(* fs_truncate, fs_read and the helpers they share (src/homework.c), one   *)
(* action per disk write of fs_write and per round of fs_truncate's loops, *)
(* over the emulated block device of src/image.c.                          *)
(*                                                                         *)
(* The unit of length is one 4-byte word, so that a block holds PTRS words *)
(* and an indirect block of PTRS pointers is one block: every constant of  *)
(* the code that is a multiple of BLOCK_SIZE keeps its proportions.        *)
(* A block is the same raw array of words whether the code reads it as     *)
(* data or as a table of block numbers.                                    *)
(*                                                                         *)
(* The handlers of one mount run one at a time here (the command line, or  *)
(* a FUSE mount with -s).                                                  *)
(***************************************************************************)
EXTENDS Integers

CONSTANTS
    Files,           \* inode numbers of the regular files
    NumBlocks,       \* num_of_blocks: blocks of the image
    FirstData,       \* first block not reserved by the image's layout
    N_DIRECT,        \* direct pointers of an inode
    PTRS,            \* BLOCK_SIZE / sizeof(int)
    INODES_PER_BLK,  \* inodes of one block of the inode region
    Vals,            \* data words a caller writes
    MaxLen           \* longest write, in words

ASSUME GeometryAssumption ==
    /\ Files \subseteq Nat \ {0}
    /\ NumBlocks \in Nat
    /\ FirstData \in 1 .. NumBlocks
    /\ N_DIRECT \in Nat \ {0}
    /\ PTRS \in Nat \ {0}
    /\ INODES_PER_BLK \in Nat \ {0}
    /\ Vals \subseteq Nat
    /\ MaxLen \in Nat

VARIABLES
    inode_region,       \* the inodes in memory
    block_map,          \* the block bitmap in memory, as a set of blocks
    disk_inode_region,  \* the inodes in the image
    disk_block_map,     \* the block bitmap in the image
    blk,                \* the words of every block of the image
    pc,                 \* where the running handler is; "idle" between calls
    call,               \* the running handler's arguments and progress
    new,                \* the block find_free_block_number has just returned
    k                   \* the loop index of fs_truncate

mem   == <<inode_region, block_map>>
image == <<disk_inode_region, disk_block_map, blk>>
vars  == <<inode_region, block_map, disk_inode_region, disk_block_map, blk,
           pc, call, new, k>>
-----------------------------------------------------------------------------
(***************************************************************************)
(* Geometry.                                                               *)
(***************************************************************************)
BLOCK_SIZE == PTRS
Blocks  == 0 .. NumBlocks - 1
Entries == 0 .. PTRS - 1

file_in_inode_sz  == N_DIRECT * BLOCK_SIZE
file_1st_level_sz == PTRS * BLOCK_SIZE
file_2nd_level_sz == PTRS * PTRS * BLOCK_SIZE
Level2 == file_in_inode_sz + file_1st_level_sz  \* where indir_2's range begins
MaxSize == Level2 + file_2nd_level_sz

\* An inode's pointers: direct[0 .. N_DIRECT-1], then indir_1, then indir_2.
indir_1 == N_DIRECT
indir_2 == N_DIRECT + 1
Slots   == 0 .. N_DIRECT + 1
Inode   == [size : Nat, ptr : [Slots -> Blocks]]

ZeroBlock  == [i \in Entries |-> 0]
EmptyInode == [size |-> 0, ptr |-> [i \in Slots |-> 0]]

\* A path names a pointer of a file by the indexes that lead to it: <<slot>>,
\* <<slot, entry>> or <<slot, entry, entry>>, padded with Nil.
Nil   == -1
Paths == {<<i, Nil, Nil>> : i \in Slots}
         \cup {<<indir_1, i, Nil>> : i \in Entries}
         \cup {<<indir_2, i, Nil>> : i \in Entries}
         \cup {<<indir_2, i, j>> : i \in Entries, j \in Entries}

\* The pointer at path p of inode in, 0 when a pointer on the way is 0.
Deref(in, p) ==
    LET a == in.ptr[p[1]]
        b == blk[a][p[2]]
    IN  IF p[2] = Nil \/ a = 0 THEN a
        ELSE IF p[3] = Nil \/ b = 0 THEN b ELSE blk[b][p[3]]

\* The path of the block that holds the word at offset off < MaxSize.
PathOf(off) ==
    LET off1 == off - file_in_inode_sz
        off2 == off - Level2
    IN  IF off < file_in_inode_sz THEN <<off \div BLOCK_SIZE, Nil, Nil>>
        ELSE IF off < Level2 THEN <<indir_1, off1 \div BLOCK_SIZE, Nil>>
        ELSE <<indir_2, off2 \div file_1st_level_sz,
               (off2 % file_1st_level_sz) \div BLOCK_SIZE>>

\* The first pointer on the way of path p that is not set, p if all are.
Hop(in, p) ==
    LET p1 == <<p[1], Nil, Nil>>
        p2 == <<p[1], p[2], Nil>>
    IN  IF Deref(in, p1) = 0 THEN p1 ELSE IF Deref(in, p2) = 0 THEN p2 ELSE p
-----------------------------------------------------------------------------
(***************************************************************************)
(* Helpers of the handlers.                                                *)
(***************************************************************************)
\* find_free_block_number finds block b: the lowest clear bit of the bitmap.
find_free_block_number(b) ==
    /\ b \in Blocks \ block_map
    /\ \A c \in Blocks \ block_map : b <= c

NoFreeBlock == Blocks \subseteq block_map

\* update_inode writes the whole block of the inode region that holds inum.
update_inode(inum) ==
    disk_inode_region' =
        [g \in Files |-> IF g \div INODES_PER_BLK = inum \div INODES_PER_BLK
                         THEN inode_region'[g] ELSE disk_inode_region[g]]

update_bitmap == disk_block_map' = block_map'

NoCall == [file |-> 0, start |-> 0, off |-> 0, len |-> 0, val |-> 0]

\* A handler returns.
Return == pc' = "idle" /\ call' = NoCall

-----------------------------------------------------------------------------
(***************************************************************************)
(* fs_write.  The loops of the three levels advance one offset through the *)
(* file, so the loop indexes and in-block offsets are functions of it.     *)
(***************************************************************************)
inode   == inode_region[call.file]
At      == Hop(inode, PathOf(call.off))  \* the pointer the loop is looking at
AtRoot  == At \in {<<indir_1, Nil, Nil>>, <<indir_2, Nil, Nil>>}

\* A root is set on reaching its range even with nothing left to write; any
\* other pointer only for a block that data goes to.
NeedsBlock ==
    /\ call.off < MaxSize
    /\ Deref(inode, At) = 0
    /\ AtRoot \/ call.len > 0

\* offset > inode->size is refused with EINVAL, which changes nothing.
Write(f, off, len, val) ==
    /\ pc = "idle"
    /\ off <= inode_region[f].size
    /\ pc' = "write"
    /\ call' = [file |-> f, start |-> off, off |-> off, len |-> len, val |-> val]
    /\ UNCHANGED <<mem, image, new, k>>

\* Mutant: the error -ENOSPC (-28) is taken for a block number.
WriteFindBlock_Unchecked ==
    /\ pc = "write" /\ NeedsBlock
    /\ \/ \E b \in Blocks : /\ find_free_block_number(b)
                          /\ blk' = [blk EXCEPT ![b] = ZeroBlock]
                          /\ new' = b
       \/ NoFreeBlock /\ new' = -28 /\ UNCHANGED blk
    /\ pc' = "link"
    /\ UNCHANGED <<mem, disk_inode_region, disk_block_map, call, k>>

\* find_free_block_number clears the block it returns.
WriteFindBlock ==
    /\ pc = "write"
    /\ NeedsBlock
    /\ \E b \in Blocks :
        /\ find_free_block_number(b)
        /\ blk' = [blk EXCEPT ![b] = ZeroBlock]
        /\ new' = b
    /\ pc' = "link"
    /\ UNCHANGED <<mem, disk_inode_region, disk_block_map, call, k>>

\* Store the block's number where the pointer was 0: in the inode
\* (update_inode), or in the indirect block that is written back.
WriteLink ==
    /\ pc = "link"
    /\ \/ /\ At[2] = Nil
          /\ inode_region' = [inode_region EXCEPT
                                 ![call.file].ptr[At[1]] = new]
          /\ update_inode(call.file)
          /\ UNCHANGED blk
       \/ /\ At[2] # Nil
          /\ blk' = IF At[3] = Nil
                    THEN [blk EXCEPT ![inode.ptr[At[1]]][At[2]] = new]
                    ELSE [blk EXCEPT
                             ![Deref(inode, <<At[1], At[2], Nil>>)][At[3]] = new]
          /\ UNCHANGED <<inode_region, disk_inode_region>>
    /\ pc' = "mark"
    /\ UNCHANGED <<block_map, disk_block_map, call, new, k>>

\* Mutant: the bit is not set.
WriteMark_NoBit ==
    /\ pc = "mark" /\ pc' = "write" /\ new' = 0
    /\ UNCHANGED <<mem, image, call, k>>

\* Only then is the block's bit set.
WriteMark ==
    /\ pc = "mark"
    /\ block_map' = block_map \cup {new}
    /\ update_bitmap
    /\ new' = 0
    /\ pc' = "write"
    /\ UNCHANGED <<inode_region, disk_inode_region, blk, call, k>>

\* Mutant: the data goes to the start of the block, whatever the offset.
WriteData_NoOffset ==
    LET room == BLOCK_SIZE - (call.off % BLOCK_SIZE)
        in_blk_len == IF call.len > room THEN room ELSE call.len
    IN  /\ pc = "write" /\ call.len > 0 /\ call.off < MaxSize
        /\ Deref(inode, At) # 0
        /\ blk' = [blk EXCEPT ![Deref(inode, At)] =
                      [i \in Entries |-> IF i < in_blk_len THEN call.val ELSE @[i]]]
        /\ call' = [call EXCEPT !.off = @ + in_blk_len, !.len = @ - in_blk_len]
        /\ UNCHANGED <<mem, disk_inode_region, disk_block_map, pc, new, k>>

\* Read the block, copy what fits of the data into it, write it back.
WriteData ==
    LET in_blk_offset == call.off % BLOCK_SIZE
        room == BLOCK_SIZE - in_blk_offset
        in_blk_len == IF call.len > room THEN room ELSE call.len
    IN  /\ pc = "write"
        /\ call.len > 0
        /\ call.off < MaxSize
        /\ Deref(inode, At) # 0
        /\ blk' = [blk EXCEPT ![Deref(inode, At)] =
                      [i \in Entries |->
                          IF in_blk_offset <= i /\ i < in_blk_offset + in_blk_len
                          THEN call.val ELSE @[i]]]
        /\ call' = [call EXCEPT !.off = @ + in_blk_len, !.len = @ - in_blk_len]
        /\ UNCHANGED <<mem, disk_inode_region, disk_block_map, pc, new, k>>

\* Mutant: an image without a free block does not end the write.
WriteEnd_OnlyWhenDone ==
    /\ pc = "write"
    /\ ~NeedsBlock /\ call.len = 0
    /\ inode_region' = [inode_region EXCEPT ![call.file].size = call.off]
    /\ update_inode(call.file)
    /\ Return
    /\ UNCHANGED <<block_map, disk_block_map, blk, new, k>>

\* Everything is written, or the file is at its largest, or there is no block
\* for the data: raise the size and return what was written.  (After an inner
\* loop of the third level ran out of blocks the outer one asks for another
\* and returns for the same reason.)
WriteEnd ==
    /\ pc = "write"
    /\ \/ ~NeedsBlock /\ (call.len = 0 \/ call.off >= MaxSize)
       \/ NeedsBlock /\ NoFreeBlock /\ ~AtRoot
    /\ IF call.off > inode.size
       THEN /\ inode_region' = [inode_region EXCEPT ![call.file].size = call.off]
            /\ update_inode(call.file)
       ELSE UNCHANGED <<inode_region, disk_inode_region>>
    /\ Return
    /\ UNCHANGED <<block_map, disk_block_map, blk, new, k>>

\* No block for an indirect root: return what was written, with no update of
\* the size.
WriteNoRoot ==
    /\ pc = "write"
    /\ NeedsBlock /\ AtRoot /\ NoFreeBlock
    /\ Return
    /\ UNCHANGED <<mem, image, new, k>>
-----------------------------------------------------------------------------
(***************************************************************************)
(* fs_truncate to length 0; fs_unlink calls it too.                        *)
(***************************************************************************)
\* Clear bits of the bitmap and write it.
Free(bs) ==
    /\ block_map' = block_map \ bs
    /\ update_bitmap

\* truncate_2nd_level: the blocks of indirect block t up to its first 0, and t.
truncate_2nd_level(t) ==
    {t} \cup {blk[t][i] : i \in {i \in Entries : \A j \in 0 .. i : blk[t][j] # 0}}

Truncate(f) ==
    /\ pc = "idle"
    /\ pc' = "direct"
    /\ call' = [NoCall EXCEPT !.file = f]
    /\ k' = 0
    /\ UNCHANGED <<mem, image, new>>

\* Mutant: the bit is cleared and the pointer stays.
TruncateDirect_KeepPointer ==
    /\ pc = "direct" /\ k < N_DIRECT /\ inode.ptr[k] # 0
    /\ Free({inode.ptr[k]})
    /\ k' = k + 1
    /\ UNCHANGED <<inode_region, disk_inode_region, blk, pc, call, new>>

\* One round of the loop over direct: clear the pointer in memory only, its
\* bit in memory and in the image.
TruncateDirect ==
    /\ pc = "direct"
    /\ k < N_DIRECT
    /\ inode.ptr[k] # 0
    /\ inode_region' = [inode_region EXCEPT ![call.file].ptr[k] = 0]
    /\ Free({inode.ptr[k]})
    /\ k' = k + 1
    /\ UNCHANGED <<disk_inode_region, blk, pc, call, new>>

\* The loop over direct is over; free indir_1's tree if the size says that
\* there is one.
TruncateIndir1 ==
    /\ pc = "direct"
    /\ IF k < N_DIRECT THEN inode.ptr[k] = 0 ELSE TRUE
    /\ IF inode.size > file_in_inode_sz
       THEN Free(truncate_2nd_level(inode.ptr[indir_1]))
       ELSE UNCHANGED <<block_map, disk_block_map>>
    /\ pc' = IF inode.size > Level2 THEN "indir_2" ELSE "clear"
    /\ k' = 0
    /\ UNCHANGED <<inode_region, disk_inode_region, blk, call, new>>

\* Mutant: the tables of indir_2 are freed without the blocks they lead to.
TruncateIndir2Table_TableOnly ==
    /\ pc = "indir_2" /\ k < PTRS /\ blk[inode.ptr[indir_2]][k] # 0
    /\ Free({blk[inode.ptr[indir_2]][k]})
    /\ k' = k + 1
    /\ UNCHANGED <<inode_region, disk_inode_region, blk, pc, call, new>>

\* truncate_3rd_level: one table of indir_2 after the other, then indir_2.
TruncateIndir2Table ==
    /\ pc = "indir_2"
    /\ k < PTRS
    /\ blk[inode.ptr[indir_2]][k] # 0
    /\ Free(truncate_2nd_level(blk[inode.ptr[indir_2]][k]))
    /\ k' = k + 1
    /\ UNCHANGED <<inode_region, disk_inode_region, blk, pc, call, new>>

TruncateIndir2 ==
    /\ pc = "indir_2"
    /\ IF k < PTRS THEN blk[inode.ptr[indir_2]][k] = 0 ELSE TRUE
    /\ Free({inode.ptr[indir_2]})
    /\ pc' = "clear"
    /\ k' = 0
    /\ UNCHANGED <<inode_region, disk_inode_region, blk, call, new>>

\* Mutants: the inode is not written to the image; the size is not reset.
TruncateEnd_NoUpdate ==
    /\ pc = "clear"
    /\ inode_region' = [inode_region EXCEPT ![call.file] = EmptyInode]
    /\ Return
    /\ UNCHANGED <<block_map, image, new, k>>

TruncateEnd_KeepSize ==
    /\ pc = "clear"
    /\ inode_region' = [inode_region EXCEPT ![call.file] =
                           [EmptyInode EXCEPT !.size = inode.size]]
    /\ update_inode(call.file)
    /\ Return
    /\ UNCHANGED <<block_map, disk_block_map, blk, new, k>>

\* Only now does the inode in the image change.
TruncateEnd ==
    /\ pc = "clear"
    /\ inode_region' = [inode_region EXCEPT ![call.file] =
           [size |-> 0, ptr |-> [inode.ptr EXCEPT ![indir_1] = 0, ![indir_2] = 0]]]
    /\ update_inode(call.file)
    /\ Return
    /\ UNCHANGED <<block_map, disk_block_map, blk, new, k>>
-----------------------------------------------------------------------------
(***************************************************************************)
(* fs_init, at mount time and at the head of every fs_getattr: memory is   *)
(* what the image says.                                                    *)
(***************************************************************************)
fs_init ==
    /\ inode_region' = disk_inode_region
    /\ block_map' = disk_block_map
    /\ UNCHANGED image

Getattr ==
    /\ pc = "idle"
    /\ fs_init
    /\ UNCHANGED <<pc, call, new, k>>

-----------------------------------------------------------------------------
\* An image as mkfs-x6 makes it, in which Files have been created empty.
Init ==
    /\ inode_region = [f \in Files |-> EmptyInode]
    /\ disk_inode_region = inode_region
    /\ block_map = 0 .. FirstData - 1
    /\ disk_block_map = block_map
    /\ blk = [b \in Blocks |-> ZeroBlock]
    /\ pc = "idle" /\ call = NoCall /\ new = 0 /\ k = 0

WriteStep ==
    WriteFindBlock \/ WriteLink \/ WriteMark \/ WriteData \/ WriteEnd \/ WriteNoRoot

TruncateStep ==
    \/ TruncateDirect \/ TruncateIndir1 \/ TruncateIndir2Table
    \/ TruncateIndir2 \/ TruncateEnd

Next ==
    \/ \E f \in Files, off \in 0 .. MaxSize, len \in 1 .. MaxLen, val \in Vals :
            Write(f, off, len, val)
    \/ \E f \in Files : Truncate(f)
    \/ Getattr
    \/ WriteStep
    \/ TruncateStep

Spec == Init /\ [][Next]_vars

\* A handler that has been called runs in a thread of its own to its return.
FairSpec == Spec /\ WF_vars(WriteStep \/ TruncateStep)
-----------------------------------------------------------------------------
(***************************************************************************)
(* Properties.                                                             *)
(***************************************************************************)
\* The type of the state: every pointer of an inode and of a table in use is
\* a block of the image.
TypeOK ==
    /\ inode_region \in [Files -> Inode]
    /\ disk_inode_region \in [Files -> Inode]
    /\ block_map \in SUBSET Blocks
    /\ disk_block_map \in SUBSET Blocks
    /\ blk \in [Blocks -> [Entries -> Nat]]
    /\ pc \in {"idle", "write", "link", "mark", "direct", "indir_2", "clear"}
    /\ call \in [file : Files \cup {0}, start : Nat, off : Nat,
                 len : Nat, val : Vals \cup {0}]
    /\ pc # "idle" => call.file \in Files
    /\ new \in Blocks
    /\ k \in Nat

\* Blocks are never shared: a block is held by at most one pointer, over all
\* files, levels and tables, at every step of every handler.  Two holders
\* would let one file overwrite another, or a file its own indirect block.
SoleOwner ==
    \A f \in Files, p \in Paths :
        LET b == Deref(inode_region[f], p)
        IN  b # 0 => \A g \in Files, q \in Paths :
                        Deref(inode_region[g], q) = b => g = f /\ q = p

\* A block that a pointer holds is marked in the bitmap and is none of the
\* layout's own blocks.  The exceptions are the block just linked and not yet
\* marked, and the trees that a running fs_truncate has freed and not yet cut
\* off the inode.
Freeing(f) == pc \in {"indir_2", "clear"} /\ call.file = f

HeldIsMarked ==
    \A f \in Files, p \in Paths :
        LET b == Deref(inode_region[f], p)
        IN  b # 0 =>
            /\ b \in FirstData .. NumBlocks - 1
            /\ \/ b \in block_map
               \/ pc = "mark" /\ b = new
               \/ Freeing(f) /\ p[1] \in {indir_1, indir_2}

\* Every word below a file's size, in the image too, lies in a block of the
\* file: fs_read always returns the exact count (it stops short at a pointer
\* that is 0) and the assertion blknum > 0 of fs_read_block never fails.
SizeCovered ==
    \A f \in Files :
        LET in == disk_inode_region[f]
        IN  \A off \in 0 .. in.size - 1 : Deref(in, PathOf(off)) # 0

\* Between calls memory and image agree, so that fs_getattr, which reloads
\* memory from the image, loses nothing of what earlier handlers did.
ReloadIsHarmless ==
    pc = "idle" => /\ inode_region = disk_inode_region
                   /\ block_map = disk_block_map

\* The blocks the image's bitmap marks without a pointer to hold them.
Held == {Deref(inode_region[f], p) : f \in Files, p \in Paths} \ {0}
Lost == (block_map \ Held) \ (0 .. FirstData - 1)

\* What a handler loses between calls is at most indirect blocks that lead to no
\* data: every word of a lost block is 0 or the number of another lost block.
\* (For writes shorter than indir_1's range, as FUSE sends them: a longer one
\* loses its data if there is no block for indir_2's root.)
LostHoldNoData ==
    pc = "idle" => LET lost == Lost
                   IN  \A b \in lost, i \in Entries : blk[b][i] \in lost \cup {0}

\* Between calls no block is lost.
NoLostBlock == pc = "idle" => Lost = {}

\* What fs_write reports as written is in the file: it returns off - start, so
\* the file then reaches to off at least.
ReportedIsInFile ==
    [][pc = "write" /\ pc' = "idle" => call.off <= inode_region'[call.file].size]_vars

\* Every call of fs_write and fs_truncate returns.
CallsReturn == []<>(pc = "idle")
=============================================================================
