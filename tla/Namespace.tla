----------------------------- MODULE Namespace ------------------------------
(***************************************************************************)
(* The directory tree: path translation, directories, the inode allocator  *)
(* and the handlers that change names (fs_mknod, fs_mkdir, fs_unlink,      *)
(* fs_rmdir, fs_rename, fs_chmod of src/homework.c), one action per change *)
(* of the image.  Of a file's data there is the first block only: its tree *)
(* of blocks is FileBlocks's.                                              *)
(*                                                                         *)
(* Handlers run one at a time.  Each change of the state in memory is      *)
(* written to the image before anything reads it again, so one variable    *)
(* stands for both (FileBlocks keeps them apart).                          *)
(***************************************************************************)
EXTENDS Integers, Sequences

CONSTANTS
    Names,      \* the names that callers use
    LongNames,  \* those of them of 28 bytes or more
    MaxDepth,   \* longest path
    NDIRENTS,   \* entries of a directory's block (32)
    NumInodes,  \* inodes of the inode region
    InodeBits,  \* bits of the inode bitmap
    NumBlocks,  \* num_of_blocks
    RootBlock,  \* the root directory's block, the last that mkfs-x6 takes
    Words,      \* what a caller writes to a file
    Ops,        \* the handlers that are called
    Frontend    \* who calls: "fuse" (the kernel) or "cmdline" (misc.c)

ASSUME NamespaceAssumption ==
    /\ "" \notin Names
    /\ LongNames \subseteq Names
    /\ MaxDepth \in Nat /\ NDIRENTS \in Nat \ {0}
    /\ NumInodes \in Nat /\ NumInodes > 1
    /\ InodeBits \in Nat /\ InodeBits >= NumInodes
    /\ RootBlock \in Nat \ {0} /\ NumBlocks \in Nat /\ RootBlock < NumBlocks
    /\ Words \subseteq Nat \ {0}
    /\ Ops \subseteq {"mknod", "mkdir", "unlink", "rmdir", "rename", "chmod",
                      "truncate", "write"}
    /\ Frontend \in {"fuse", "cmdline"}

VARIABLES
    inode_map,     \* the inode bitmap, as a set of inode numbers
    block_map,     \* the block bitmap, as a set of block numbers
    inode_region,  \* type and first pointer of each inode
    blk,           \* the blocks: a directory's entries, or a file's word
    pc,            \* where the running handler is; "idle" between calls
    call,          \* what the caller asked for
    loc,           \* the running handler's local variables
    ret            \* what the handler returned

image == <<inode_map, block_map, inode_region, blk>>
vars  == <<inode_map, block_map, inode_region, blk, pc, call, loc, ret>>

Inodes == 0 .. NumInodes - 1
Bits   == 0 .. InodeBits - 1
Blocks == 0 .. NumBlocks - 1
Paths  == UNION {[1 .. n -> Names] : n \in 0 .. MaxDepth}

ENOENT    == -2
EEXIST    == -17
ENOTDIR   == -20
EISDIR    == -21
EINVAL    == -22
ENOSPC    == -28
ENOTEMPTY == -39

\* "bare" is a mode without type bits.
Types == {"none", "file", "dir", "bare"}
Inode == [type : Types, direct0 : Blocks]

NoEntry == [valid |-> FALSE, isDir |-> FALSE, inode |-> 0, name |-> ""]
Dirent  == {NoEntry} \cup
    [valid : {TRUE}, isDir : BOOLEAN, inode : Bits, name : Names \cup {""}]

\* As a directory a file's block has no valid entry here, nor has block 0.
ZeroBlock == [ent |-> [i \in 1 .. NDIRENTS |-> NoEntry], word |-> 0]
Block == [ent : [1 .. NDIRENTS -> Dirent], word : Words \cup {0}]

NoCall == [op |-> "none", path |-> <<>>, dst |-> <<>>, slash |-> FALSE, word |-> 0]
NoLoc  == [inum |-> 0, father |-> 0, slot |-> 0, block |-> 0]

\* trancate_path and get_name; to get_name a path that ends in "/" has the
\* empty name.
trancate_path(p) == SubSeq(p, 1, Len(p) - 1)
get_name(p, slash) == IF slash THEN "" ELSE p[Len(p)]

\* The entries of directory d, and those of them with name n.
Entries(d) == blk[inode_region[d].direct0].ent
Named(d, n) == {i \in 1 .. NDIRENTS : Entries(d)[i].valid /\ Entries(d)[i].name = n}

\* translate: the inode number that path p leads to, or an error.  Of several
\* entries with the same name the last one counts; whether a component is a
\* directory is what its entry says.
Root == [inode |-> 1, isDir |-> TRUE]
follow(at, name) ==
    LET found == Named(at.inode, name)
    IN  IF at.inode < 0 THEN at
        ELSE IF ~at.isDir THEN [inode |-> ENOTDIR, isDir |-> FALSE]
        ELSE IF found = {} THEN [inode |-> ENOENT, isDir |-> FALSE]
        ELSE Entries(at.inode)[CHOOSE i \in found : \A j \in found : j <= i]
walk(p) ==
    LET step[n \in 0 .. Len(p)] ==
            IF n = 0 THEN Root ELSE follow(step[n - 1], p[n])
    IN  step
translate(p) == walk(p)[Len(p)].inode

Type(inum) == inode_region[inum].type

\* find_free_dirent_num, find_free_inode_map_bit, find_free_block_number: the
\* first that is free.
FreeSlot(d, i) ==
    /\ i \in 1 .. NDIRENTS /\ ~Entries(d)[i].valid
    /\ \A j \in 1 .. i - 1 : Entries(d)[j].valid
NoFreeSlot(d) == \A i \in 1 .. NDIRENTS : Entries(d)[i].valid

FreeInode(i) ==
    /\ i \in (Bits \ {0, 1}) \ inode_map
    /\ \A j \in (Bits \ {0, 1}) \ inode_map : i <= j
NoFreeInode == Bits \ {0, 1} \subseteq inode_map

FreeBlock(b) ==
    /\ b \in Blocks \ block_map
    /\ \A c \in Blocks \ block_map : b <= c
NoFreeBlock == Blocks \subseteq block_map

\* The blocks with every entry of directory d that has name n made invalid, or
\* given the name m.
WithoutEntries(d, n) ==
    [blk EXCEPT ![inode_region[d].direct0].ent =
        [i \in 1 .. NDIRENTS |-> IF i \in Named(d, n) THEN NoEntry ELSE @[i]]]
RenamedEntries(d, n, m) ==
    [blk EXCEPT ![inode_region[d].direct0].ent =
        [i \in 1 .. NDIRENTS |-> IF i \in Named(d, n)
                                 THEN [@[i] EXCEPT !.name = m] ELSE @[i]]]
-----------------------------------------------------------------------------
(***************************************************************************)
(* Calls and returns.                                                      *)
(***************************************************************************)
\* What the kernel sees to before it calls: the path ends in a name, which it
\* looks up in a directory; files are written and truncated where they exist.
KernelAllows(op, p, d, slash) ==
    LET father == translate(trancate_path(p))
    IN  /\ ~slash
        /\ op # "chmod" => p # <<>>
        /\ p # <<>> /\ father > 0 => Type(father) = "dir"
        /\ op = "rename" => d # <<>>
        /\ op \in {"write", "truncate"} =>
                translate(p) > 0 /\ Type(translate(p)) = "file"

\* Undefined, and not called here: fs_rename of or to "/", which frees what it
\* has not allocated; fs_unlink of a "/" that chmod has made no directory, which
\* has no father.
\* Of the files that are there the command line writes to the one that it has
\* just made.
Defined(op, p, d) ==
    /\ op = "rename" => p # <<>> /\ d # <<>>
    /\ op = "unlink" /\ p = <<>> => Type(1) = "dir"
    /\ op = "write" =>
        /\ translate(p) > 0 /\ Type(translate(p)) = "file"
        /\ Frontend = "cmdline" => inode_region[translate(p)].direct0 = 0

Call(op, p, d, slash, w) ==
    /\ pc = "idle"
    /\ Defined(op, p, d)
    /\ Frontend = "fuse" => KernelAllows(op, p, d, slash)
    /\ pc' = "called"
    /\ call' = [op |-> op, path |-> p, dst |-> d, slash |-> slash, word |-> w]
    /\ UNCHANGED <<image, loc, ret>>

\* The handler's answer to its caller; the caller takes it.
Answer(code) == pc' = "return" /\ ret' = code /\ loc' = NoLoc /\ UNCHANGED call

Return ==
    /\ pc = "return"
    /\ pc' = "idle" /\ call' = NoCall /\ ret' = 0
    /\ UNCHANGED <<image, loc>>

\* An assertion fails: the process is gone, what it wrote is in the image.
Abort == pc' = "dead" /\ loc' = NoLoc /\ UNCHANGED <<call, ret>>

\* The program has written beyond the place it meant, and so what it puts into
\* block b may be anything.  What becomes of the image then is not followed.
Overrun(b) ==
    /\ \E ent \in [1 .. NDIRENTS -> Dirent] : blk' = [blk EXCEPT ![b].ent = ent]
    /\ pc' = "overrun" /\ loc' = NoLoc
    /\ UNCHANGED <<inode_map, block_map, inode_region, call, ret>>

\* Mutant: no test whether the path is there already.
CreateError_NoExists(p) ==
    LET father == translate(trancate_path(p))
    IN  IF p = <<>> THEN -1 ELSE IF father < 0 THEN father
        ELSE IF NoFreeSlot(father) THEN ENOSPC
        ELSE IF call.op = "mkdir" /\ Type(father) # "dir" THEN ENOTDIR
        ELSE IF call.op = "mknod" /\ NoFreeInode THEN ENOSPC ELSE 0

\* The errors that the handlers return before they change anything, in the
\* order of their tests; 0 for none.
CreateError(p) ==
    LET father == translate(trancate_path(p))
    IN  CASE p = <<>> -> -1
          [] p # <<>> /\ father < 0 -> father
          [] p # <<>> /\ father > 0 ->
                IF translate(p) > 0 THEN EEXIST
                ELSE IF NoFreeSlot(father) THEN ENOSPC
                ELSE IF call.op = "mkdir" /\ Type(father) # "dir" THEN ENOTDIR
                ELSE IF call.op = "mknod" /\ NoFreeInode THEN ENOSPC ELSE 0

\* Mutant: the first entry only is looked at.
RmdirError_FirstEntry(p) ==
    LET inum == translate(p)
    IN  IF Type(inum) = "file" THEN ENOTDIR
        ELSE IF Entries(inum)[1].valid THEN ENOTEMPTY ELSE 0

RmdirError(p) ==
    LET inum == translate(p)
    IN  IF Type(inum) = "file" THEN ENOTDIR
        ELSE IF p # <<>> /\ \E i \in 1 .. NDIRENTS : Entries(inum)[i].valid
             THEN ENOTEMPTY ELSE 0

\* Mutant: no test whether the destination is there.
RenameError_NoExists(p, d) ==
    IF trancate_path(p) # trancate_path(d) THEN EINVAL ELSE 0

RenameError(p, d) ==
    IF translate(d) > 0 THEN EEXIST
    ELSE IF trancate_path(p) # trancate_path(d) THEN EINVAL ELSE 0

Error ==
    LET p == call.path
        inum == translate(p)
    IN  IF call.op \in {"mknod", "mkdir"} THEN CreateError(p)
        ELSE IF inum < 0 THEN inum
        ELSE CASE call.op \in {"unlink", "truncate"} ->
                    IF Type(inum) = "dir" THEN EISDIR ELSE 0
               [] call.op = "rmdir"  -> RmdirError(p)
               [] call.op = "rename" -> RenameError(p, call.dst)
               [] OTHER -> 0

Starts(op) == pc = "called" /\ call.op = op /\ Error = 0

Refuse ==
    /\ pc = "called"
    /\ Error # 0
    /\ Answer(Error)
    /\ UNCHANGED image
-----------------------------------------------------------------------------
(***************************************************************************)
(* fs_mknod and fs_mkdir.                                                  *)
(***************************************************************************)
\* The entry's place is chosen before anything is allocated.
Place == [loc EXCEPT !.father = translate(trancate_path(call.path)),
                     !.slot = CHOOSE i \in 1 .. NDIRENTS :
                         FreeSlot(translate(trancate_path(call.path)), i)]

\* Mutant: the bit is not set.
MknodStart_NoBit ==
    /\ Starts("mknod")
    /\ \E i \in Bits : FreeInode(i) /\ loc' = [Place EXCEPT !.inum = i]
    /\ pc' = "inode"
    /\ UNCHANGED <<image, call, ret>>

MknodStart ==
    /\ Starts("mknod")
    /\ \E i \in Bits :
        /\ FreeInode(i)
        /\ inode_map' = inode_map \cup {i}
        /\ loc' = [Place EXCEPT !.inum = i]
    /\ pc' = "inode"
    /\ UNCHANGED <<block_map, inode_region, blk, call, ret>>

\* Mutants: -ENOSPC is taken for a block; the bit is not set.
MkdirBlock_Unchecked ==
    /\ Starts("mkdir")
    /\ \/ \E b \in Blocks : /\ FreeBlock(b)
                          /\ block_map' = block_map \cup {b}
                          /\ loc' = [Place EXCEPT !.block = b]
       \/ /\ NoFreeBlock
          /\ loc' = [Place EXCEPT !.block = ENOSPC]
          /\ UNCHANGED block_map
    /\ pc' = "mkdir"
    /\ UNCHANGED <<inode_map, inode_region, blk, call, ret>>

MkdirBlock_NoBit ==
    /\ Starts("mkdir")
    /\ \E b \in Blocks : /\ FreeBlock(b)
                       /\ blk' = [blk EXCEPT ![b] = ZeroBlock]
                       /\ loc' = [Place EXCEPT !.block = b]
    /\ pc' = "mkdir"
    /\ UNCHANGED <<inode_map, block_map, inode_region, call, ret>>

\* fs_mkdir takes a block first, and clears it.
MkdirBlock ==
    /\ Starts("mkdir")
    /\ \E b \in Blocks :
        /\ FreeBlock(b)
        /\ block_map' = block_map \cup {b}
        /\ blk' = [blk EXCEPT ![b] = ZeroBlock]
        /\ loc' = [Place EXCEPT !.block = b]
    /\ pc' = "mkdir"
    /\ UNCHANGED <<inode_map, inode_region, call, ret>>

\* It takes -ENOSPC for a block number: the write of block -28 is an assertion
\* failure.  (The bit that FD_SET(-28) sets is one of the full bitmap's.)
MkdirNoBlock ==
    /\ Starts("mkdir")
    /\ NoFreeBlock
    /\ Abort
    /\ UNCHANGED image

MkdirInode ==
    /\ pc = "mkdir"
    /\ \E i \in Bits :
        /\ FreeInode(i)
        /\ inode_map' = inode_map \cup {i}
        /\ loc' = [loc EXCEPT !.inum = i]
    /\ pc' = "inode"
    /\ UNCHANGED <<block_map, inode_region, blk, call, ret>>

\* The block stays marked.
MkdirNoInode ==
    /\ pc = "mkdir"
    /\ NoFreeInode
    /\ Answer(ENOSPC)
    /\ UNCHANGED image

\* Write the new inode.
CreateInode ==
    /\ pc = "inode"
    /\ loc.inum \in Inodes
    /\ inode_region' = [inode_region EXCEPT ![loc.inum] =
           [type |-> IF call.op = "mkdir" THEN "dir" ELSE "file",
            direct0 |-> loc.block]]
    /\ pc' = "entry"
    /\ UNCHANGED <<inode_map, block_map, blk, call, loc, ret>>

\* An inode behind the region is written past the end of the memory for it, and
\* with what else is there to the block behind the region, the root directory's.
CreateOverrun ==
    /\ pc = "inode"
    /\ loc.inum \notin Inodes
    /\ Overrun(RootBlock)

\* Write the new entry.  The father of an fs_mknod may be a file without a
\* block: image_write asserts that block 0 is not written.
CreateEntry ==
    LET name == get_name(call.path, call.slash)
        b == inode_region[loc.father].direct0
        entry == [valid |-> TRUE, isDir |-> call.op = "mkdir",
                  inode |-> loc.inum, name |-> name]
    IN  /\ pc = "entry"
        /\ name \notin LongNames
        /\ b # 0
        /\ blk' = [blk EXCEPT ![b].ent[loc.slot] = entry]
        /\ Answer(0)
        /\ UNCHANGED <<inode_map, block_map, inode_region>>

CreateAborts ==
    /\ pc = "entry"
    /\ \/ get_name(call.path, call.slash) \in LongNames
       \/ inode_region[loc.father].direct0 = 0
    /\ Abort
    /\ UNCHANGED image
-----------------------------------------------------------------------------
(***************************************************************************)
(* fs_truncate and fs_unlink, which calls it first.                        *)
(***************************************************************************)
TruncateFree ==
    /\ Starts("truncate") \/ Starts("unlink")
    /\ loc' = [loc EXCEPT !.inum = translate(call.path)]
    /\ block_map' = block_map \ ({inode_region[loc'.inum].direct0} \ {0})
    /\ pc' = "clear"
    /\ UNCHANGED <<inode_map, inode_region, blk, call, ret>>

\* Mutant: the pointer to the freed block stays.
TruncateInode_KeepPointer ==
    /\ pc = "clear"
    /\ IF call.op = "truncate" THEN Answer(0)
       ELSE pc' = "unmap" /\ UNCHANGED <<call, loc, ret>>
    /\ UNCHANGED image

TruncateInode ==
    /\ pc = "clear"
    /\ inode_region' = [inode_region EXCEPT ![loc.inum].direct0 = 0]
    /\ IF call.op = "truncate" THEN Answer(0)
       ELSE pc' = "unmap" /\ UNCHANGED <<call, loc, ret>>
    /\ UNCHANGED <<inode_map, block_map, blk>>

\* Mutant: the bit is not cleared.
UnlinkMap_KeepBit ==
    /\ pc = "unmap" /\ pc' = "unlink"
    /\ UNCHANGED <<image, call, loc, ret>>

\* The inode is free before its entry is gone.
UnlinkMap ==
    /\ pc = "unmap"
    /\ inode_map' = inode_map \ {loc.inum}
    /\ pc' = "unlink"
    /\ UNCHANGED <<block_map, inode_region, blk, call, loc, ret>>

UnlinkEntry ==
    LET father == translate(trancate_path(call.path))
        name == get_name(call.path, call.slash)
    IN  /\ pc = "unlink"
        /\ blk' = WithoutEntries(father, name)
        /\ Answer(IF Named(father, name) = {} THEN ENOENT ELSE 0)
        /\ UNCHANGED <<inode_map, block_map, inode_region>>
-----------------------------------------------------------------------------
(***************************************************************************)
(* fs_rmdir, fs_rename, fs_chmod, fs_write.                                *)
(***************************************************************************)
\* fs_rmdir (not of "/", for which it asserts that it is not called) sets the
\* bit of the directory's block, in the inode bitmap, and the bit
\* of its inode.  (Two writes; a bit past the bitmap is memory the model does
\* not follow.)
RmdirMap ==
    LET inum == translate(call.path)
    IN  /\ Starts("rmdir")
        /\ call.path # <<>>
        /\ inode_map' = inode_map \cup ({inum, inode_region[inum].direct0} \cap Bits)
        /\ pc' = "rmdir"
        /\ UNCHANGED <<block_map, inode_region, blk, call, loc, ret>>

RmdirEntry ==
    LET father == translate(trancate_path(call.path))
    IN  /\ pc = "rmdir"
        /\ blk' = WithoutEntries(father, call.path[Len(call.path)])
        /\ Answer(0)
        /\ UNCHANGED <<inode_map, block_map, inode_region>>

\* The entries to rename.
Renamed == Named(translate(trancate_path(call.path)), get_name(call.path, call.slash))

\* It answers 0 whether or not there is one.
Rename ==
    /\ Starts("rename")
    /\ Renamed = {} \/ call.dst[Len(call.dst)] \notin LongNames
    /\ blk' = RenamedEntries(translate(trancate_path(call.path)),
                             get_name(call.path, call.slash),
                             call.dst[Len(call.dst)])
    /\ Answer(0)
    /\ UNCHANGED <<inode_map, block_map, inode_region>>

\* Nor does it test how long the new name is: the end of a name of 28 bytes is
\* written over the entry behind.
RenameOverrun ==
    /\ Starts("rename")
    /\ Renamed # {} /\ call.dst[Len(call.dst)] \in LongNames
    /\ Overrun(inode_region[translate(trancate_path(call.path))].direct0)

\* The new mode is the caller's: the kernel passes on the type bits, do_chmod
\* passes none.
Chmod ==
    /\ Starts("chmod")
    /\ inode_region' = [inode_region EXCEPT ![translate(call.path)].type =
                            IF Frontend = "fuse" THEN @ ELSE "bare"]
    /\ Answer(0)
    /\ UNCHANGED <<inode_map, block_map, blk>>

\* fs_write of one word to the first block.  A file without one gets a block,
\* cleared when it is found, which the inode points to before its bit is set.
\* (Before that a free block is a free block, cleared or not.)
WriteBlock ==
    LET inum == translate(call.path)
    IN  /\ Starts("write")
        /\ inode_region[inum].direct0 = 0
        /\ \E b \in Blocks :
            /\ FreeBlock(b)
            /\ blk' = [blk EXCEPT ![b] = ZeroBlock]
            /\ inode_region' = [inode_region EXCEPT ![inum].direct0 = b]
            /\ loc' = [loc EXCEPT !.inum = inum, !.block = b]
        /\ pc' = "mark"
        /\ UNCHANGED <<inode_map, block_map, call, ret>>

\* Mutant: the bit is not set.
WriteMark_NoBit ==
    /\ pc = "mark" /\ pc' = "data"
    /\ UNCHANGED <<image, call, loc, ret>>

WriteMark ==
    /\ pc = "mark"
    /\ block_map' = block_map \cup {loc.block}
    /\ pc' = "data"
    /\ UNCHANGED <<inode_map, inode_region, blk, call, loc, ret>>

\* The file has a block already.
WriteFound ==
    LET inum == translate(call.path)
    IN  /\ Starts("write")
        /\ inode_region[inum].direct0 # 0
        /\ loc' = [loc EXCEPT !.inum = inum, !.block = inode_region[inum].direct0]
        /\ pc' = "data"
        /\ UNCHANGED <<image, call, ret>>

WriteData ==
    /\ pc = "data"
    /\ blk' = [blk EXCEPT ![loc.block].word = call.word]
    /\ Answer(1)
    /\ UNCHANGED <<inode_map, block_map, inode_region>>

WriteNoBlock ==
    /\ Starts("write")
    /\ inode_region[translate(call.path)].direct0 = 0
    /\ NoFreeBlock
    /\ Answer(0)
    /\ UNCHANGED image
-----------------------------------------------------------------------------
\* The process is started again on the image that it left.
Mount ==
    /\ pc = "dead"
    /\ pc' = "idle" /\ call' = NoCall /\ loc' = NoLoc /\ ret' = 0
    /\ UNCHANGED image

\* The process is killed inside a handler.
Crash ==
    /\ pc \notin {"idle", "return", "dead", "overrun"}
    /\ Abort
    /\ UNCHANGED image

\* An image as mkfs-x6 makes it.
Init ==
    /\ inode_map = {0, 1}
    /\ block_map = 0 .. RootBlock
    /\ inode_region = [i \in Inodes |->
           [type |-> IF i = 1 THEN "dir" ELSE "none",
            direct0 |-> IF i = 1 THEN RootBlock ELSE 0]]
    /\ blk = [b \in Blocks |-> ZeroBlock]
    /\ pc = "idle" /\ call = NoCall /\ loc = NoLoc /\ ret = 0

CreateStep ==
    \/ MknodStart \/ MkdirBlock \/ MkdirNoBlock \/ MkdirInode \/ MkdirNoInode
    \/ CreateInode \/ CreateOverrun \/ CreateEntry \/ CreateAborts

RemoveStep ==
    \/ TruncateFree \/ TruncateInode \/ UnlinkMap \/ UnlinkEntry
    \/ RmdirMap \/ RmdirEntry

WriteStep == WriteBlock \/ WriteMark \/ WriteFound \/ WriteData \/ WriteNoBlock

Handler == Refuse \/ CreateStep \/ RemoveStep
           \/ Rename \/ RenameOverrun \/ Chmod \/ WriteStep

Next ==
    \/ \E op \in Ops \ {"rename", "write"}, p \in Paths, slash \in BOOLEAN :
            Call(op, p, <<>>, slash, 0)
    \/ /\ "rename" \in Ops
       /\ \E p \in Paths, d \in Paths, slash \in BOOLEAN :
            Call("rename", p, d, slash, 0)
    \/ /\ "write" \in Ops
       /\ \E p \in Paths, w \in Words : Call("write", p, <<>>, FALSE, w)
    \/ Handler
    \/ Return
    \/ Mount

Spec == Init /\ [][Next]_vars
CrashSpec == Init /\ [][Next \/ Crash]_vars
-----------------------------------------------------------------------------
(***************************************************************************)
(* Properties.                                                             *)
(***************************************************************************)
\* The type of the state.
TypeOK ==
    /\ inode_map \in SUBSET Bits
    /\ block_map \in SUBSET Blocks
    /\ inode_region \in [Inodes -> Inode]
    /\ blk \in [Blocks -> Block]
    /\ pc \in {"idle", "called", "inode", "entry", "mkdir", "clear", "unmap",
               "unlink", "rmdir", "mark", "data", "return", "dead", "overrun"}
    /\ call \in [op : Ops \cup {"none"}, path : Paths, dst : Paths,
                 slash : BOOLEAN, word : Words \cup {0}]
    /\ loc \in [inum : Bits, father : Inodes, slot : 0 .. NDIRENTS, block : Blocks]
    /\ ret \in Int

\* The directories and the entries that a walk from the root gets to.
Dirs == {1} \cup {i \in {translate(p) : p \in Paths} : i > 0 /\ Type(i) = "dir"}
Links == {l \in Dirs \X (1 .. NDIRENTS) : Entries(l[1])[l[2]].valid}
Link(l) == Entries(l[1])[l[2]]
Linked == {Link(l).inode : l \in Links}

\* Nothing has been written beyond its place.
InPlace == pc # "overrun"

\* The image is a tree: every entry leads to an inode that is marked, of the
\* type that the entry says, and that no other entry leads to; in a directory
\* a name occurs once.  The exception is the file whose inode a running
\* fs_unlink has freed.
IsTree == InPlace =>
    /\ \A l \in Links :
        LET i == Link(l).inode
        IN  /\ i \in Inodes \ {0, 1}
            /\ i \in inode_map \/ (pc = "unlink" /\ i = loc.inum)
            /\ Type(i) = IF Link(l).isDir THEN "dir" ELSE "file"
    /\ \A l, m \in Links : l # m =>
        /\ Link(l).inode # Link(m).inode
        /\ l[1] = m[1] => Link(l).name # Link(m).name

\* No two linked inodes have a block in common, and theirs are marked and none
\* of the layout's: a directory's entries are never a file's data.  (The running
\* handler may have freed its file's block already, or not have marked it yet.)
BlocksApart == InPlace =>
    LET reached == Linked \cup {1}
        first(i) == inode_region[i].direct0
    IN  /\ \A i \in reached :
            /\ Type(i) = "dir" => first(i) # 0
            /\ first(i) # 0 =>
                /\ first(i) >= RootBlock
                /\ first(i) \in block_map \/ (pc \in {"clear", "mark"} /\ i = loc.inum)
        /\ \A i, j \in reached : i # j /\ first(i) # 0 => first(i) # first(j)

\* No handler but fs_rmdir loses an inode, on any of its paths: one that is
\* marked is linked, or the running handler has it in hand.
LostInodes == inode_map \ (Linked \cup {0, 1, loc.inum})
OnlyRmdirLosesInodes ==
    [][call.op # "rmdir" /\ InPlace' => LostInodes' \subseteq LostInodes]_vars

\* Between calls an inode is marked if and only if an entry leads to it.
NoLostInode == pc = "idle" => inode_map = Linked \cup {0, 1}

\* No assertion of the file system or of its block device fails.
AssertionsHold == pc # "dead"
=============================================================================
