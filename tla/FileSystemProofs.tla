-------------------------- MODULE FileSystemProofs --------------------------
(***************************************************************************)
(* Proofs about FileSystem, for every number of files, names, entries and  *)
(* blocks, and every crash: what a crash damages, what is left between     *)
(* commands, that no command changes another file, and what put and get    *)
(* copy.                                                                   *)
(*                                                                         *)
(* While the process lives, memory keeps IInv and CInv, the invariants of  *)
(* FileBlocks and FileContent.  When it dies they are gone with it: FsInv  *)
(* has the same of the image alone (ImageOwners), in which only the file of*)
(* the command being run may hold what is not marked, and what the command *)
(* has done to the directory so far.                                       *)
(***************************************************************************)
EXTENDS FileSystem, FileBlocksProofs, OrderLemmas

\* The image's pointers are the only ones of their blocks, and lie behind no root
\* that the size says is set and is not.
ImageOwners ==
    /\ \A f \in Files :
        /\ disk_inode_region[f].size > file_in_inode_sz => disk_inode_region[f].ptr[indir_1] # 0
        /\ disk_inode_region[f].size > Level2 => disk_inode_region[f].ptr[indir_2] # 0
    /\ \A f \in Files, p \in Paths : DPtr(f, p) # 0 =>
        /\ DPtr(f, p) \in FirstData .. NumBlocks - 1
        /\ \A g \in Files, q \in Paths : DPtr(g, q) = DPtr(f, p) => g = f /\ q = p

\* What they hold is marked, but for the file of the command.
ImageMarks ==
    \A f \in Files \ {cmd.inum}, p \in Paths :
        DPtr(f, p) # 0 => DPtr(f, p) \in disk_block_map

\* Where the checker reads, of a file whose first block below indir_1 is there.
Near == {<<i, Nil, Nil>> : i \in 0 .. N_DIRECT - 1} \cup {<<indir_1, 0, Nil>>}

\* A block that the image's inode leads to and its bitmap does not mark.
Unmarked(f, p) == DPtr(f, p) # 0 /\ DPtr(f, p) \notin disk_block_map

\* The block that is linked and not marked is an empty table, or one of data that
\* the checker reads: no table before it is missing.
LinkShows ==
    pc = "mark" => \E p \in Paths :
        /\ Ptr(call.file, p) = new
        /\ p \in Inner => blk[new] = ZeroBlock
        /\ \A i \in Entries, j \in Entries : p = <<indir_2, i, j>> =>
              \A i2 \in 0 .. i : Ptr(call.file, <<indir_2, i2, Nil>>) # 0

\* When fs_truncate has freed anything, it has freed something that the checker
\* reads first: a direct block, or the first one below indir_1.
FreeingShows ==
    Truncating =>
        LET f  == call.file
            in == disk_inode_region[f]
        IN  /\ inode_region[f].size = in.size
            /\ \A s \in Slots : inode_region[f].ptr[s] \in {in.ptr[s], 0}
            /\ \A s \in {indir_1, indir_2} : inode_region[f].ptr[s] = in.ptr[s]
            /\ pc = "indir_2" \/ (\E p \in Paths : Unmarked(f, p)) =>
                  \E q \in Near : Unmarked(f, q)

Live == IInv /\ CInv /\ LinkedIsHeld /\ LinkShows /\ FreeingShows

\* Nothing is in memory but what the image says.
Dead ==
    /\ inode_region = disk_inode_region /\ block_map = disk_block_map
    /\ call = NoCall /\ new = 0 /\ k = 0 /\ cmd.op = "none"
    /\ disk_inode_region \in [Files -> Inode] /\ disk_block_map \in SUBSET Blocks
    /\ blk \in [Blocks -> [Entries -> Nat]]
    /\ 0 .. FirstData - 1 \subseteq disk_block_map
    /\ SizesBounded /\ SizeCovered

\* No name and no inode is in two entries, and every inode in one is marked, but
\* for that of a running fs_unlink.
Directory ==
    /\ inode_map = disk_inode_map
    /\ \A s, t \in Listed :
          root[s].name = root[t].name \/ root[s].inode = root[t].inode => s = t
    /\ \A s \in Listed :
          \/ root[s].inode \in disk_inode_map
          \/ root[s].inode = cmd.inum /\ (pc = "dead" \/ (cmd.op = "rm" /\ cmd.at = "unlink"))

CmdShape ==
    cmd = [op |-> cmd.op, at |-> cmd.at, name |-> cmd.name, inum |-> cmd.inum,
           slot |-> cmd.slot, out |-> cmd.out, off |-> cmd.off, val |-> cmd.val,
           got |-> cmd.got]

\* Where a command is, and which file a handler it has called is at work on.
Entered == \E s \in Listed : root[s].inode = cmd.inum /\ root[s].name = cmd.name

CmdOK ==
    /\ pc \in {"write", "link", "mark"} =>
          cmd.op = "put" /\ cmd.at = "written" /\ call.file = cmd.inum
    /\ pc \in {"direct", "indir_2", "clear"} =>
          cmd.op = "rm" /\ cmd.at = "unmap" /\ call.file = cmd.inum
    /\ cmd.op \in {"none", "put", "get", "rm"}
    /\ cmd.op = "put" =>
          /\ cmd.out \in Outside /\ cmd.name \in Names
          /\ cmd.at \in {"mknod", "inode", "entry", "loop", "written", "return"}
          /\ cmd.at \in {"inode", "entry"} =>
                /\ cmd.inum \in InodeBits /\ cmd.inum \in inode_map
                /\ cmd.slot \in Dirents \ Listed /\ Named(cmd.name) = {}
                /\ \A s \in Listed : root[s].inode # cmd.inum
          /\ cmd.at = "entry" => cmd.inum \in Files
          /\ cmd.at \in {"loop", "written", "return"} => Entered
    /\ cmd.op = "get" => cmd.inum \in Files
    /\ cmd.op = "rm" => cmd.at \in {"unmap", "unlink"} /\ Entered

FsTyped == FsTypeOK /\ cmd.off \in Nat

FsInv ==
    /\ FsTypeOK /\ cmd.off \in Nat /\ ImageOwners /\ ImageMarks /\ Directory /\ CmdShape /\ CmdOK
    /\ IF pc = "dead" THEN Dead ELSE Live
-----------------------------------------------------------------------------
(***************************************************************************)
(* The blocks, while the process lives.                                    *)
(***************************************************************************)
\* A link of a table shows an empty one; one of a block of data has the tables
\* before it.
LEMMA LinkIsShown ==
    ASSUME IInv, IInv', CInv, WriteLink
    PROVE  LinkShows'
<1>0. PICK f \in Files, at \in Paths : f = call.file /\ at = At
  BY AtIsPath DEF WriteLink, IInv, TypeOK, FoundIsFresh, NeedsBlock
<1>1. /\ pc = "link" /\ pc' = "mark" /\ call' = call /\ new' = new
      /\ Writing /\ call.off < MaxSize
      /\ new \in Blocks \ {0} /\ new \notin block_map /\ blk[new] = ZeroBlock
  BY GeometryAssumption DEF WriteLink, Writing, IInv, TypeOK, FoundIsFresh, NeedsBlock
<1>2. \A g \in Files, q \in Paths :
        Ptr(g, q)' = IF g = f /\ q = at THEN new ELSE Ptr(g, q)
  BY <1>0, LinkSetsOne
<1>3. blk'[new] = ZeroBlock
  <2>1. PICK t : /\ \A b \in Blocks \ {t} : blk'[b] = blk[b]
                 /\ t = 0 \/ \E r \in Inner : t = Ptr(f, r)
    BY <1>0, LinkWritesOneTable DEF WritesOneTable
  <2>2. \A r \in Inner : Ptr(f, r) # new
    BY <1>1, PathKinds DEF IInv, HeldIsMarked, Freeing, Ptr
  <2>. QED  BY <1>1, <2>1, <2>2
<1>4. ASSUME NEW i \in Entries, NEW j \in Entries, at = <<indir_2, i, j>>,
             NEW i2 \in 0 .. i
      PROVE  Ptr(f, <<indir_2, i2, Nil>>)' # 0
  <2>1. i2 \in Entries /\ 0 \in Entries /\ (i2 = i \/ i2 \in 0 .. i - 1)
    BY GeometryAssumption DEF Entries
  <2>2. CASE i2 = i
    <3>1. PathOf(call.off) \in Leaves /\ At = Hop(inode_region[f], PathOf(call.off))
      BY <1>0, <1>1, PathOfIsLeaf DEF IInv, TypeOK, At, inode
    <3>2. Ptr(f, <<indir_2, i, Nil>>) # 0
      BY <1>0, <1>4, <3>1, HopIsPath, PathKinds
    <3>. QED  BY <1>1, <1>2, <2>2, <3>2, TreePaths
  <2>3. CASE i2 \in 0 .. i - 1
    <3>1. DPtr(f, <<indir_2, i2, 0>>) # 0
      BY <1>0, <1>1, <1>4, <2>1, <2>3, BeforeAtIsSet
    <3>2. Ptr(f, <<indir_2, i2, 0>>) # 0
      BY <1>1, <3>1, DPtrIsPtr DEF Truncating
    <3>3. Ptr(f, <<indir_2, i2, Nil>>) # 0
      BY <2>1, <3>2, PtrOf3
    <3>. QED  BY <1>1, <1>2, <2>1, <3>3, TreePaths
  <2>. QED  BY <2>1, <2>2, <2>3
<1>5. Ptr(f, at)' = new'
  BY <1>1, <1>2
<1>. QED  BY <1>0, <1>1, <1>3, <1>4, <1>5 DEF LinkShows

\* What is in the bitmap's way of a file does not change when nothing does.
LEMMA ShownStays ==
    ASSUME Truncating, Truncating', FreeingShows, call' = call, pc' # "indir_2" \/ pc = "indir_2",
           inode_region' = inode_region, disk_inode_region' = disk_inode_region, blk' = blk,
           disk_block_map' \subseteq disk_block_map,
           disk_block_map' = disk_block_map \/ \E q \in Near : Unmarked(call.file, q)
    PROVE  FreeingShows'
<1>. DEFINE f == call.file
<1>1. \A p : DPtr(f, p)' = DPtr(f, p)
  BY DEF DPtr, Deref
<1>2. \A p : Unmarked(f, p) => Unmarked(f, p)'
  BY <1>1 DEF Unmarked
<1>3. disk_block_map' = disk_block_map => \A p : Unmarked(f, p)' => Unmarked(f, p)
  BY <1>1 DEF Unmarked
<1>. QED  BY <1>2, <1>3 DEF FreeingShows

\* Before fs_truncate frees anything, nothing of the file is unmarked.
LEMMA TruncateBegins ==
    ASSUME IInv, IInv', NEW f \in Files, Truncate(f)
    PROVE  FreeingShows'
<1>1. /\ pc = "idle" /\ pc' = "direct" /\ call'.file = f
      /\ inode_region' = inode_region /\ disk_block_map' = disk_block_map
      /\ disk_inode_region' = disk_inode_region /\ blk' = blk
  BY DEF Truncate, NoCall, mem, image
<1>2. /\ \A g \in Files : inode_region[g] = disk_inode_region[g]
      /\ \A p \in Paths : Ptr(f, p) # 0 => Ptr(f, p) \in disk_block_map
  BY <1>1 DEF IInv, ImageFollows, HeldIsMarked, Freeing, Ptr
<1>3. \A p \in Paths : ~Unmarked(f, p)'
  BY <1>1, <1>2 DEF Unmarked, DPtr, Ptr, Deref
<1>. QED  BY <1>1, <1>2, <1>3 DEF FreeingShows

\* A round over the direct pointers frees one that the image still has.
LEMMA DirectShows ==
    ASSUME IInv, IInv', FreeingShows, TruncateDirect
    PROVE  FreeingShows'
<1>0. PICK f \in Files : f = call.file
  BY DEF IInv, TypeOK, TruncateDirect
<1>d. PICK d : d = inode.ptr[k]
  OBVIOUS
<1>1. /\ pc = "direct" /\ pc' = "direct" /\ k < N_DIRECT /\ d # 0 /\ call' = call
      /\ inode_region' = [inode_region EXCEPT ![f].ptr[k] = 0]
      /\ block_map' = block_map \ {d} /\ disk_block_map' = block_map'
      /\ blk' = blk /\ disk_inode_region' = disk_inode_region
  BY <1>0, <1>d DEF TruncateDirect, Free, update_bitmap
<1>2. /\ k \in 0 .. N_DIRECT - 1 /\ k \in Slots /\ k # indir_1 /\ k # indir_2
      /\ inode_region \in [Files -> Inode] /\ d = inode_region[f].ptr[k]
      /\ indir_1 \in Slots /\ indir_2 \in Slots
  BY <1>0, <1>d, <1>1, GeometryAssumption DEF IInv, TypeOK, inode, Slots, indir_1, indir_2
<1>3. /\ inode_region[f].size = disk_inode_region[f].size
      /\ \A s \in Slots : inode_region[f].ptr[s] \in {disk_inode_region[f].ptr[s], 0}
      /\ \A s \in {indir_1, indir_2} : inode_region[f].ptr[s] = disk_inode_region[f].ptr[s]
  BY <1>0, <1>d, <1>1 DEF FreeingShows, Truncating
<1>4. /\ inode_region'[f].size = inode_region[f].size
      /\ \A s \in Slots : inode_region'[f].ptr[s] = IF s = k THEN 0 ELSE inode_region[f].ptr[s]
  BY <1>1, <1>2 DEF Inode
<1>5. PICK q \in Near : q = <<k, Nil, Nil>>
  BY <1>2 DEF Near
<1>6. Unmarked(f, q)'
  <2>1. DPtr(f, q)' = d
    BY <1>1, <1>2, <1>3, <1>5 DEF DPtr, Deref
  <2>. QED  BY <1>1, <2>1 DEF Unmarked
<1>. QED  BY <1>0, <1>d, <1>1, <1>2, <1>3, <1>4, <1>6 DEF FreeingShows

\* When the size is beyond the direct blocks, the first block below indir_1 is
\* there, and is among those freed.
LEMMA Indir1Shows ==
    ASSUME IInv, IInv', CInv, FreeingShows, TruncateIndir1
    PROVE  FreeingShows'
<1>0. PICK f \in Files : f = call.file
  BY DEF IInv, TypeOK, TruncateIndir1
<1>s. PICK size : size = disk_inode_region[f].size
  OBVIOUS
<1>1. /\ pc = "direct" /\ pc' \in {"indir_2", "clear"} /\ call' = call
      /\ pc' = "indir_2" => inode_region[f].size > Level2
      /\ inode_region' = inode_region /\ blk' = blk /\ disk_inode_region' = disk_inode_region
      /\ inode = inode_region[f]
  BY <1>0, <1>s DEF TruncateIndir1, inode
<1>2. /\ size \in Nat /\ inode_region[f].size = size
      /\ inode_region[f].ptr[indir_1] = disk_inode_region[f].ptr[indir_1]
  BY <1>0, <1>s, <1>1 DEF FreeingShows, Truncating, IInv, TypeOK, Inode
<1>3. CASE ~(size > file_in_inode_sz)
  <2>1. disk_block_map' = disk_block_map /\ pc' = "clear"
    BY <1>1, <1>2, <1>3, Ranges DEF TruncateIndir1
  <2>. QED  BY <1>1, <2>1, ShownStays DEF Truncating
<1>4. CASE size > file_in_inode_sz
  <2>. DEFINE t == inode_region[f].ptr[indir_1]
  <2>1. PICK q \in Near : q = <<indir_1, 0, Nil>>
    BY DEF Near
  <2>2. DPtr(f, q) # 0
    <3>1. file_in_inode_sz \in 0 .. size - 1
      BY <1>2, <1>4, Ranges
    <3>. QED  BY <1>0, <1>s, <2>1, <3>1, LevelsBegin DEF CInv, SizeCovered, DPtr
  <2>3. t # 0 /\ DPtr(f, q) = blk[t][0] /\ 0 \in Entries /\ t \in Blocks
    <3>1. 0 \in Entries /\ indir_1 \in Slots
      BY LevelsBegin, PathKinds
    <3>2. DPtr(f, <<indir_1, Nil, Nil>>) = t
      BY <1>2, <3>1, DPtrOf
    <3>3. t # 0 /\ DPtr(f, q) = blk[t][0]
      <4>. HIDE DEF t
      <4>. QED  BY <2>1, <2>2, <3>1, <3>2, DPtrOf
    <3>4. t \in Blocks
      BY <3>1 DEF IInv, TypeOK, Inode
    <3>. QED  BY <3>1, <3>3, <3>4
  <2>4. /\ DPtr(f, q) \in truncate_2nd_level(t)
        /\ disk_block_map' = block_map \ truncate_2nd_level(t)
    <3>1. \A i2 \in 0 .. 0 - 1 : blk[t][i2] # 0
      OBVIOUS
    <3>2. DPtr(f, q) \in truncate_2nd_level(t)
      BY <2>2, <2>3, <3>1, TableIsFreed
    <3>3. disk_block_map' = block_map \ truncate_2nd_level(t)
      BY <1>1, <1>2, <1>4 DEF TruncateIndir1, Free, update_bitmap
    <3>. QED  BY <3>2, <3>3
  <2>. HIDE DEF t
  <2>5. Unmarked(f, q)'
    <3>1. DPtr(f, q)' = DPtr(f, q)
      BY <1>1 DEF DPtr, Deref
    <3>. QED  BY <2>2, <2>4, <3>1 DEF Unmarked
  <2>. QED  BY <1>0, <1>s, <1>1, <2>5 DEF FreeingShows, Truncating
<1>. QED  BY <1>3, <1>4

\* No step of fs_truncate hides from the checker what has been freed.
LEMMA StepFreeingShows ==
    ASSUME IInv, IInv', CInv, FreeingShows, [Next]_vars
    PROVE  FreeingShows'
<1>1. CASE ~Truncating'
  BY <1>1 DEF FreeingShows
<1>2. CASE TruncateIndir2Table \/ TruncateIndir2
  <2>1. /\ pc = "indir_2" /\ pc' \in {"indir_2", "clear"} /\ call' = call
        /\ inode_region' = inode_region /\ blk' = blk /\ disk_inode_region' = disk_inode_region
        /\ block_map' \subseteq block_map /\ disk_block_map' = block_map'
        /\ disk_block_map = block_map
    BY <1>2 DEF TruncateIndir2Table, TruncateIndir2, Free, update_bitmap, IInv, ImageFollows
  <2>2. \E q \in Near : Unmarked(call.file, q)
    BY <2>1 DEF FreeingShows, Truncating
  <2>. QED  BY <2>1, <2>2, ShownStays DEF Truncating
<1>3. CASE UNCHANGED vars
  <2>1. /\ pc' = pc /\ call' = call /\ inode_region' = inode_region /\ blk' = blk
        /\ disk_inode_region' = disk_inode_region /\ disk_block_map' = disk_block_map
    BY <1>3 DEF vars
  <2>. QED  BY <1>1, <2>1, ShownStays DEF Truncating
<1>4. CASE Truncating' /\ Next
  <2>1. \/ \E f \in Files : Truncate(f)
        \/ TruncateDirect \/ TruncateIndir1 \/ TruncateIndir2Table \/ TruncateIndir2
    BY <1>4 DEF Next, Truncating, Write, Getattr, WriteStep, TruncateStep, WriteFindBlock,
       WriteLink, WriteMark, WriteData, WriteEnd, WriteNoRoot, TruncateEnd, Return
  <2>. QED  BY <1>2, <2>1, TruncateBegins, DirectShows, Indir1Shows
<1>. QED  BY <1>1, <1>3, <1>4

\* A step of a handler, and one that does not touch the blocks.
LEMMA LiveStep ==
    ASSUME Live, [Next]_vars
    PROVE  Live'
<1>1. IInv' /\ CInv' /\ LinkedIsHeld'
  BY StepIInv, StepCInv, StepLinkedIsHeld DEF Live
<1>2. LinkShows'
  <2>1. CASE WriteLink
    BY <1>1, <2>1, LinkIsShown DEF Live
  <2>2. CASE UNCHANGED vars
    BY <2>2 DEF vars, Live, LinkShows, Ptr, Deref
  <2>3. CASE ~WriteLink /\ Next
    <3>1. pc' # "mark"
      BY <2>3 DEF Next, Write, Truncate, Getattr, WriteStep, TruncateStep, WriteFindBlock,
         WriteMark, WriteData, WriteEnd, WriteNoRoot, TruncateDirect, TruncateIndir1,
         TruncateIndir2Table, TruncateIndir2, TruncateEnd, Return, Live, IInv, TypeOK
    <3>. QED  BY <3>1 DEF LinkShows
  <2>. QED  BY <2>1, <2>2, <2>3
<1>. QED  BY <1>1, <1>2, StepFreeingShows DEF Live

\* Between handlers there is nothing to show.
LEMMA IdleShows == pc' = "idle" => LinkShows' /\ FreeingShows'
BY DEF LinkShows, FreeingShows, Truncating

\* Unless fs_truncate runs, the image has the pointers that memory has.
LEMMA OwnersNow == IInv /\ pc \notin {"direct", "indir_2", "clear"} => ImageOwners
<1>. SUFFICES ASSUME IInv, pc \notin {"direct", "indir_2", "clear"}
              PROVE  ImageOwners
  OBVIOUS
<1>1. \A f \in Files : disk_inode_region[f] = inode_region[f]
  BY DEF IInv, ImageFollows
<1>2. \A f \in Files, p \in Paths : DPtr(f, p) = Deref(inode_region[f], p)
  BY <1>1 DEF DPtr
<1>. QED  BY <1>1, <1>2 DEF IInv, SoleOwner, HeldIsMarked, RootsSet, ImageOwners

\* The same after a step.
LEMMA OwnersNext == IInv' /\ pc' \notin {"direct", "indir_2", "clear"} => ImageOwners'
<1>1. (IInv /\ pc \notin {"direct", "indir_2", "clear"})' => ImageOwners'
  BY OwnersNow, PTL
<1>. QED  BY <1>1

\* What changes neither the image's inodes nor its blocks changes no pointer.
LEMMA SameImagePointers ==
    ASSUME disk_inode_region' = disk_inode_region, blk' = blk
    PROVE  /\ \A f, p : DPtr(f, p)' = DPtr(f, p)
           /\ ImageOwners => ImageOwners'
<1>1. \A f, p : DPtr(f, p)' = DPtr(f, p)
  BY DEF DPtr, Deref
<1>. QED  BY <1>1 DEF ImageOwners

\* The pointers of the image stay as they should be; while fs_truncate runs they
\* stay as they were.
LEMMA OwnersStep ==
    ASSUME IInv, IInv', ImageOwners, [Next]_vars
    PROVE  ImageOwners'
<1>1. CASE pc' \in {"direct", "indir_2", "clear"}
  <2>1. disk_inode_region' = disk_inode_region /\ blk' = blk
    BY <1>1 DEF Next, Write, Truncate, Getattr, fs_init, WriteStep, TruncateStep,
         WriteFindBlock, WriteLink, WriteMark, WriteData, WriteEnd, WriteNoRoot,
         TruncateDirect, TruncateIndir1, TruncateIndir2Table, TruncateIndir2, TruncateEnd,
         Return, image, vars
  <2>. QED  BY <2>1, SameImagePointers
<1>. QED  BY <1>1, OwnersNext

\* Only the file that a handler is at work on holds what is not marked.
LEMMA MarksNow == IInv /\ LinkedIsHeld /\ (pc # "idle" => call.file = cmd.inum) => ImageMarks
<1>. SUFFICES ASSUME IInv, LinkedIsHeld, pc # "idle" => call.file = cmd.inum,
                     NEW f \in Files, f # cmd.inum, NEW p \in Paths, DPtr(f, p) # 0
              PROVE  DPtr(f, p) \in disk_block_map
  BY DEF ImageMarks
<1>1. disk_inode_region[f] = inode_region[f] /\ disk_block_map = block_map
  BY DEF IInv, ImageFollows
<1>2. DPtr(f, p) = Ptr(f, p)
  BY <1>1 DEF DPtr, Ptr
<1>3. ~Freeing(f)
  BY DEF Freeing
<1>4. ~(pc = "mark" /\ Ptr(f, p) = new)
  <2>. SUFFICES ASSUME pc = "mark", Ptr(f, p) = new PROVE FALSE
    OBVIOUS
  <2>1. PICK q \in Paths : Ptr(call.file, q) = new
    BY DEF LinkedIsHeld
  <2>2. call.file \in Files /\ call.file # f
    BY DEF IInv, TypeOK
  <2>. QED  BY <1>2, <2>1, <2>2 DEF IInv, SoleOwner, Ptr
<1>. QED  BY <1>1, <1>2, <1>3, <1>4 DEF IInv, HeldIsMarked, Ptr

\* The same after a step.
LEMMA MarksNext ==
    IInv' /\ LinkedIsHeld' /\ (pc' # "idle" => call'.file = cmd'.inum) => ImageMarks'
<1>1. (IInv /\ LinkedIsHeld /\ (pc # "idle" => call.file = cmd.inum))' => ImageMarks'
  BY MarksNow, PTL
<1>. QED  BY <1>1

\* A step that is one of FileBlocks keeps what there is to say of the blocks.
LEMMA BlocksKeep ==
    ASSUME FsInv, pc # "dead", [Next]_vars, FsTyped', Directory', CmdShape', CmdOK'
    PROVE  FsInv'
<1>1. Live' /\ IInv /\ IInv'
  BY LiveStep DEF FsInv, Live
<1>2. /\ pc' \in {"idle", "write", "link", "mark", "direct", "indir_2", "clear"}
  BY <1>1 DEF IInv, TypeOK
<1>3. pc' # "idle" => call'.file = cmd'.inum
  BY <1>2 DEF CmdOK
<1>4. ImageOwners' /\ ImageMarks'
  BY <1>1, <1>3, OwnersStep, MarksNext DEF FsInv, Live
<1>. QED  BY <1>1, <1>2, <1>4 DEF FsInv, FsTyped
-----------------------------------------------------------------------------
(***************************************************************************)
(* The directory and the commands.                                         *)
(***************************************************************************)
\* An entry has a file's inode.
LEMMA ListedIsFile ==
    ASSUME FsTypeOK, NEW s \in Listed
    PROVE  /\ s \in Dirents /\ root[s].inode \in Files /\ root[s].name \in Names
           /\ root[s] # NoEntry
BY DEF FsTypeOK, Listed, Dirent

\* translate finds the entry of a name that is there.
LEMMA TranslateFinds ==
    ASSUME FsTypeOK, NEW n, Named(n) # {}
    PROVE  /\ translate(n) \in Files
           /\ \E s \in Listed : root[s].inode = translate(n) /\ root[s].name = n
<1>1. Named(n) \in SUBSET (0 .. NDIRENTS) /\ NDIRENTS \in Nat
  BY FileSystemAssumption DEF Named, Dirents
<1>2. \E m \in Named(n) : \A x \in Named(n) : x <= m
  <2>. DEFINE S == Named(n)
  <2>1. S \in SUBSET (0 .. NDIRENTS) /\ S # {}
    BY <1>1
  <2>. HIDE DEF S
  <2>2. \E m \in S : \A x \in S : x <= m
    BY <1>1, <2>1, GreatestExists
  <2>. QED  BY <2>2 DEF S
<1>3. PICK s \in Named(n) : translate(n) = root[s].inode
  BY <1>2 DEF translate
<1>4. s \in Listed /\ root[s].name = n
  BY DEF Named, Listed
<1>. QED  BY <1>3, <1>4, ListedIsFile

\* The name of the command is that of its inode.
LEMMA EnteredIs ==
    ASSUME FsTypeOK, Directory, Entered
    PROVE  /\ Named(cmd.name) # {} /\ translate(cmd.name) = cmd.inum
           /\ cmd.inum \in Files /\ cmd.name \in Names
<1>1. PICK s \in Listed : root[s].inode = cmd.inum /\ root[s].name = cmd.name
  BY DEF Entered
<1>2. s \in Named(cmd.name)
  BY <1>1 DEF Named, Listed
<1>3. PICK t \in Listed : root[t].inode = translate(cmd.name) /\ root[t].name = cmd.name
  BY <1>2, TranslateFinds
<1>4. t = s
  BY <1>1, <1>3 DEF Directory
<1>. QED  BY <1>1, <1>2, <1>3, <1>4, ListedIsFile

\* A step that changes neither the directory nor the inode bitmap, and where the
\* command is not in the last step of fs_unlink.
LEMMA SameDirectory ==
    ASSUME Directory, ~(cmd.op = "rm" /\ cmd.at = "unlink"), pc # "dead",
           UNCHANGED <<inode_map, disk_inode_map, root>>
    PROVE  /\ Directory' /\ Listed' = Listed /\ \A n : Named(n)' = Named(n)
BY DEF Directory, Listed, Named

\* do_put begins.
LEMMA PutStep ==
    ASSUME FsInv, NEW n \in Names, NEW out \in Outside, Put(n, out)
    PROVE  FsInv'
<1>1. /\ pc = "idle" /\ cmd.op = "none" /\ UNCHANGED vars
      /\ UNCHANGED <<inode_map, disk_inode_map, root>> /\ pc' = pc
  BY DEF Put, Idle, vars
<1>2. cmd' = [op |-> "put", at |-> "mknod", name |-> n, inum |-> 0, slot |-> 0,
              out |-> out, off |-> 0, val |-> 0, got |-> <<>>]
  BY DEF Put, NoCmd
<1>3. CmdShape' /\ CmdOK'
  BY <1>1, <1>2 DEF CmdShape, CmdOK
<1>4. FsTyped'
  BY <1>1, <1>2, FileSystemAssumption DEF FsInv, FsTyped, FsTypeOK, InodeBits, Dirents, Dirent
<1>. QED  BY <1>1, <1>3, <1>4, SameDirectory, BlocksKeep DEF FsInv

\* fs_mknod marks an inode that no entry has.
LEMMA MknodMapStep ==
    ASSUME FsInv, MknodMap
    PROVE  FsInv'
<1>1. /\ pc = "idle" /\ cmd.op = "put" /\ cmd.at = "mknod" /\ UNCHANGED vars /\ pc' = pc
      /\ Named(cmd.name) = {} /\ root' = root /\ disk_inode_map' = inode_map'
  BY DEF MknodMap, In, vars, write_inode_map
<1>2. PICK s \in Dirents, i \in InodeBits :
        /\ FreeSlot(s) /\ FreeInode(i)
        /\ inode_map' = inode_map \cup {i}
        /\ cmd' = [cmd EXCEPT !.at = "inode", !.slot = s, !.inum = i]
  BY DEF MknodMap
<1>3. cmd' = [op |-> "put", at |-> "inode", name |-> cmd.name, inum |-> i, slot |-> s,
              out |-> cmd.out, off |-> cmd.off, val |-> cmd.val, got |-> cmd.got]
  BY <1>1, <1>2 DEF FsInv, CmdShape
<1>4. \A t \in Listed : root[t].inode \in inode_map
  BY <1>1 DEF FsInv, Directory
<1>5. Listed' = Listed /\ (\A n : Named(n)' = Named(n)) /\ s \notin Listed /\ i \notin inode_map
  BY <1>1, <1>2 DEF Listed, Named, FreeSlot, FreeInode
<1>6. Directory'
  BY <1>1, <1>2, <1>4, <1>5 DEF FsInv, Directory
<1>7. CmdShape' /\ CmdOK'
  <2>1. cmd.out \in Outside /\ cmd.name \in Names
    BY <1>1 DEF FsInv, CmdOK
  <2>2. Named(cmd.name)' = {}
    BY <1>1, <1>3 DEF Named
  <2>3. /\ cmd'.inum \in InodeBits /\ cmd'.inum \in inode_map'
        /\ cmd'.slot \in Dirents \ Listed'
        /\ \A t \in Listed' : root'[t].inode # cmd'.inum
    BY <1>1, <1>2, <1>3, <1>4, <1>5
  <2>. QED  BY <1>1, <1>3, <2>1, <2>2, <2>3 DEF CmdShape, CmdOK, InodeBits
<1>8. FsTyped'
  BY <1>1, <1>2, <1>3, FileSystemAssumption DEF FsInv, FsTyped, FsTypeOK, InodeBits, Dirents
<1>. QED  BY <1>1, <1>6, <1>7, <1>8, BlocksKeep

\* A command ends.
LEMMA NoCmdStep ==
    ASSUME FsInv, pc = "idle", ~(cmd.op = "rm" /\ cmd.at = "unlink"), cmd' = NoCmd,
           UNCHANGED <<vars, inode_map, disk_inode_map, root>>
    PROVE  FsInv'
<1>1. /\ UNCHANGED vars /\ UNCHANGED <<inode_map, disk_inode_map, root>> /\ pc' = "idle"
  BY DEF vars
<1>2. cmd' = [op |-> "none", at |-> "none", name |-> "none", inum |-> 0, slot |-> 0,
              out |-> Nothing, off |-> 0, val |-> 0, got |-> <<>>]
  BY DEF NoCmd
<1>3. CmdShape' /\ CmdOK'
  BY <1>1, <1>2 DEF CmdShape, CmdOK
<1>4. FsTyped'
  BY <1>1, <1>2, FileSystemAssumption DEF FsInv, FsTyped, FsTypeOK, InodeBits
<1>. QED  BY <1>1, <1>3, <1>4, SameDirectory, BlocksKeep DEF FsInv

\* A file that is in the directory stays there.
LEMMA StaysEntered ==
    ASSUME Entered, root' = root, cmd'.inum = cmd.inum, cmd'.name = cmd.name
    PROVE  Entered'
BY DEF Entered, Listed

\* do_put goes on in its file, or gives up.
LEMMA PutGoesOn ==
    ASSUME FsInv, pc = "idle", cmd.op = "put", cmd.at \in {"loop", "written"},
           NEW at \in {"loop", "return"}, NEW off \in Nat, NEW val,
           cmd' = [cmd EXCEPT !.at = at, !.off = off, !.val = val],
           UNCHANGED <<vars, inode_map, disk_inode_map, root>>
    PROVE  FsInv'
<1>1. /\ UNCHANGED vars /\ UNCHANGED <<inode_map, disk_inode_map, root>> /\ pc' = "idle"
  BY DEF vars
<1>2. cmd' = [op |-> "put", at |-> at, name |-> cmd.name, inum |-> cmd.inum, slot |-> cmd.slot,
              out |-> cmd.out, off |-> off, val |-> val, got |-> cmd.got]
  BY DEF FsInv, CmdShape
<1>3. CmdShape' /\ CmdOK'
  <2>1. Entered /\ cmd.out \in Outside /\ cmd.name \in Names
    BY DEF FsInv, CmdOK
  <2>2. Entered'
    BY <1>1, <1>2, <2>1, StaysEntered
  <2>. QED  BY <1>1, <1>2, <2>1, <2>2 DEF CmdShape, CmdOK
<1>4. FsTyped'
  BY <1>1, <1>2 DEF FsInv, FsTyped, FsTypeOK, InodeBits
<1>. QED  BY <1>1, <1>3, <1>4, SameDirectory, BlocksKeep DEF FsInv

\* How much of the file outside is read.
LEMMA ChunkLenIs ==
    ASSUME cmd.out \in Outside, cmd.off \in Nat
    PROVE  /\ cmd.out.len \in Nat /\ ChunkLen \in Int /\ ChunkLen <= CHUNK
           /\ cmd.off + ChunkLen \in Nat /\ cmd.off + ChunkLen <= cmd.off + CHUNK
           /\ ChunkLen > 0 => cmd.off \in 0 .. cmd.out.len - 1
           /\ ChunkLen > 0 => cmd.off + ChunkLen <= cmd.out.len
<1>1. cmd.out.len \in Nat
  BY FileSystemAssumption DEF Outside
<1>. QED  BY <1>1, FileSystemAssumption DEF ChunkLen

\* fs_write is called with a chunk.
LEMMA PutChunkStep ==
    ASSUME FsInv, PutChunk
    PROVE  FsInv'
<1>1. /\ pc = "idle" /\ cmd.op = "put" /\ cmd.at = "loop" /\ ChunkLen > 0
      /\ Write(translate(cmd.name), cmd.off, ChunkLen, Chunk(cmd.out, cmd.off))
      /\ cmd' = [cmd EXCEPT !.at = "written"]
      /\ UNCHANGED <<inode_map, disk_inode_map, root>>
  BY DEF PutChunk, In
<1>2. Entered /\ cmd.out \in Outside /\ cmd.name \in Names /\ cmd.off \in Nat
  BY <1>1 DEF FsInv, CmdOK
<1>3. translate(cmd.name) = cmd.inum /\ cmd.inum \in Files
  BY <1>2, EnteredIs DEF FsInv
<1>4. [Next]_vars
  <2>1. cmd.off <= disk_inode_region[cmd.inum].size
    BY <1>1, <1>3 DEF Write, FsInv, Live, IInv, ImageFollows
  <2>2. disk_inode_region[cmd.inum].size <= MaxSize /\ disk_inode_region[cmd.inum].size \in Nat
    BY <1>1, <1>3 DEF FsInv, Live, IInv, TypeOK, Inode, CInv, SizesBounded
  <2>3. cmd.off \in 0 .. MaxSize
    BY <1>2, <2>1, <2>2, Ranges
  <2>4. ChunkLen \in 1 .. MaxLen
    BY <1>1, <1>2, ChunkLenIs, FileSystemAssumption, GeometryAssumption
  <2>5. Chunk(cmd.out, cmd.off) \in Vals
    BY <1>1, <1>2, ChunkLenIs, WordsAssumption
  <2>. QED  BY <1>1, <1>3, <2>3, <2>4, <2>5 DEF Next
<1>5. cmd' = [op |-> "put", at |-> "written", name |-> cmd.name, inum |-> cmd.inum,
              slot |-> cmd.slot, out |-> cmd.out, off |-> cmd.off, val |-> cmd.val,
              got |-> cmd.got]
  BY <1>1 DEF FsInv, CmdShape
<1>6. pc' = "write" /\ call'.file = cmd.inum
  BY <1>1, <1>3 DEF Write
<1>7. CmdShape' /\ CmdOK'
  <2>1. Entered'
    BY <1>1, <1>2, <1>5, StaysEntered
  <2>. QED  BY <1>2, <1>5, <1>6, <2>1 DEF CmdShape, CmdOK
<1>8. FsTyped'
  BY <1>1, <1>5 DEF FsInv, FsTyped, FsTypeOK, InodeBits
<1>9. Directory'
  BY <1>1, SameDirectory DEF FsInv
<1>. QED  BY <1>1, <1>4, <1>7, <1>8, <1>9, BlocksKeep

\* do_put, but for what fs_mknod does.
LEMMA PutLoopStep ==
    ASSUME FsInv, MknodRefuse \/ PutRefused \/ PutWritten \/ PutReturn
    PROVE  FsInv'
<1>1. CASE MknodRefuse \/ PutReturn
  <2>1. /\ pc = "idle" /\ cmd.op = "put" /\ cmd' = NoCmd
        /\ UNCHANGED <<vars, inode_map, disk_inode_map, root>>
    BY <1>1 DEF MknodRefuse, PutReturn, In
  <2>. QED  BY <2>1, NoCmdStep
<1>2. CASE PutRefused \/ PutWritten
  <2>1. /\ pc = "idle" /\ cmd.op = "put" /\ cmd.at \in {"loop", "written"}
        /\ UNCHANGED <<vars, inode_map, disk_inode_map, root>>
    BY <1>2 DEF PutRefused, PutWritten, In
  <2>2. cmd.out \in Outside /\ cmd.off \in Nat
    BY <2>1 DEF FsInv, CmdOK
  <2>3. \/ cmd' = [cmd EXCEPT !.at = "return"]
        \/ cmd' = [cmd EXCEPT !.at = "loop", !.off = @ + ChunkLen, !.val = 0]
    BY <1>2 DEF PutRefused, PutWritten
  <2>4. cmd' = [cmd EXCEPT !.at = "return"] =>
          cmd' = [cmd EXCEPT !.at = "return", !.off = cmd.off, !.val = cmd.val]
    BY DEF FsInv, CmdShape
  <2>5. CASE cmd' = [cmd EXCEPT !.at = "return"]
    <3>1. PICK off, val : off \in Nat /\ off = cmd.off /\ val = cmd.val
      BY <2>2
    <3>. QED  BY <2>1, <2>4, <2>5, <3>1, PutGoesOn
  <2>6. CASE cmd' = [cmd EXCEPT !.at = "loop", !.off = @ + ChunkLen, !.val = 0]
    <3>1. PICK off \in Nat : off = cmd.off + ChunkLen
      BY <2>2, ChunkLenIs
    <3>2. cmd' = [cmd EXCEPT !.at = "loop", !.off = off, !.val = 0]
      BY <2>6, <3>1
    <3>. QED  BY <2>1, <3>2, PutGoesOn
  <2>. QED  BY <2>3, <2>5, <2>6
<1>. QED  BY <1>1, <1>2

\* The new inode gets its entry.
LEMMA MknodEntryStep ==
    ASSUME FsInv, MknodEntry
    PROVE  FsInv'
<1>1. /\ pc = "idle" /\ cmd.op = "put" /\ cmd.at = "entry" /\ UNCHANGED vars /\ pc' = pc
      /\ root' = [root EXCEPT ![cmd.slot] = [inode |-> cmd.inum, name |-> cmd.name]]
      /\ cmd' = [cmd EXCEPT !.at = "loop", !.slot = 0]
      /\ UNCHANGED <<inode_map, disk_inode_map>>
  BY DEF MknodEntry, In, vars
<1>2. /\ cmd.out \in Outside /\ cmd.name \in Names
      /\ cmd.inum \in Files /\ cmd.inum \in inode_map
      /\ cmd.slot \in Dirents /\ cmd.slot \notin Listed /\ Named(cmd.name) = {}
      /\ \A s \in Listed : root[s].inode # cmd.inum
  BY <1>1 DEF FsInv, CmdOK
<1>3. cmd' = [op |-> "put", at |-> "loop", name |-> cmd.name, inum |-> cmd.inum, slot |-> 0,
              out |-> cmd.out, off |-> cmd.off, val |-> cmd.val, got |-> cmd.got]
  BY <1>1 DEF FsInv, CmdShape
<1>4. root \in [Dirents -> Dirent] /\ root' \in [Dirents -> Dirent]
  BY <1>1, <1>2 DEF FsInv, FsTypeOK, Dirent
<1>5. /\ root'[cmd.slot] = [inode |-> cmd.inum, name |-> cmd.name]
      /\ \A s \in Dirents \ {cmd.slot} : root'[s] = root[s]
  BY <1>1, <1>2, <1>4
<1>6. root'[cmd.slot] # NoEntry
  BY <1>2, <1>5, GeometryAssumption DEF NoEntry
<1>7. Listed' = Listed \cup {cmd.slot}
  BY <1>2, <1>5, <1>6 DEF Listed
<1>8. \A s \in Listed : /\ s # cmd.slot /\ root'[s] = root[s]
                        /\ root[s].name # cmd.name /\ root[s].inode # cmd.inum
  BY <1>2, <1>5 DEF Listed, Named
<1>9. Directory'
  <2>1. \A s, t \in Listed' :
          root'[s].name = root'[t].name \/ root'[s].inode = root'[t].inode => s = t
    BY <1>5, <1>7, <1>8 DEF FsInv, Directory
  <2>2. \A s \in Listed' : root'[s].inode \in disk_inode_map'
    BY <1>1, <1>2, <1>5, <1>7, <1>8 DEF FsInv, Directory
  <2>. QED  BY <1>1, <2>1, <2>2 DEF FsInv, Directory
<1>10. CmdShape' /\ CmdOK'
  <2>1. Entered'
    BY <1>3, <1>5, <1>7 DEF Entered
  <2>. QED  BY <1>1, <1>2, <1>3, <2>1 DEF CmdShape, CmdOK
<1>11. FsTyped'
  BY <1>1, <1>3, <1>4, FileSystemAssumption DEF FsInv, FsTyped, FsTypeOK, InodeBits
<1>. QED  BY <1>1, <1>9, <1>10, <1>11, BlocksKeep

\* do_get begins.
LEMMA GetStep ==
    ASSUME FsInv, NEW n \in Names, Get(n)
    PROVE  FsInv'
<1>1. /\ pc = "idle" /\ cmd.op = "none" /\ UNCHANGED vars /\ pc' = pc
      /\ UNCHANGED <<vars, inode_map, disk_inode_map, root>>
  BY DEF Get, Idle, vars
<1>2. CASE Named(n) = {}
  BY <1>1, <1>2, NoCmdStep DEF Get
<1>3. CASE Named(n) # {}
  <2>1. PICK i \in Files : i = translate(n)
    BY <1>3, TranslateFinds DEF FsInv
  <2>2. cmd' = [op |-> "get", at |-> "loop", name |-> n, inum |-> i, slot |-> 0,
                out |-> Nothing, off |-> 0, val |-> 0, got |-> <<>>]
    BY <1>3, <2>1 DEF Get, NoCmd
  <2>3. CmdShape' /\ CmdOK'
    BY <1>1, <2>2 DEF CmdShape, CmdOK
  <2>4. FsTyped'
    BY <1>1, <2>2, FileSystemAssumption DEF FsInv, FsTyped, FsTypeOK, InodeBits
  <2>. QED  BY <1>1, <2>3, <2>4, SameDirectory, BlocksKeep DEF FsInv
<1>. QED  BY <1>2, <1>3

\* What fs_read gives between calls has a length.
LEMMA ReadHasLength ==
    ASSUME Live, pc = "idle", NEW f \in Files, NEW off \in Nat
    PROVE  Len(fs_read(inode_region[f], CHUNK, off)) \in Nat
<1>. DEFINE r == fs_read(inode_region[f], CHUNK, off)
            c == content[f]
            end == IF off + CHUNK > Len(c) THEN Len(c) ELSE off + CHUNK
<1>1. r = SubSeq(c, off + 1, end)
  BY ReadIsExact, FileSystemAssumption DEF Live
<1>2. c \in Seq(Shown(f)) /\ Len(c) \in Nat
  BY ContentShape DEF ContentIsWords, Live, IInv
<1>3. end \in Nat /\ end <= Len(c)
  BY <1>2, FileSystemAssumption
<1>. HIDE DEF c, end
<1>4. SubSeq(c, off + 1, end) \in Seq(Shown(f))
  BY <1>2, <1>3
<1>5. Len(SubSeq(c, off + 1, end)) \in Nat
  BY <1>4
<1>. QED  BY <1>1, <1>5

\* do_get goes on.
LEMMA GetChunkStep ==
    ASSUME FsInv, GetChunk
    PROVE  FsInv'
<1>. DEFINE r == fs_read(inode_region[cmd.inum], CHUNK, cmd.off)
<1>1. /\ pc = "idle" /\ cmd.op = "get" /\ cmd.at = "loop" /\ UNCHANGED vars /\ pc' = pc
      /\ UNCHANGED <<vars, inode_map, disk_inode_map, root>>
      /\ cmd' = IF r = <<>> THEN [cmd EXCEPT !.at = "return"]
                ELSE [cmd EXCEPT !.off = @ + Len(r), !.got = @ \o r]
  BY DEF GetChunk, In, vars
<1>2. cmd.inum \in Files /\ cmd.off \in Nat
  BY <1>1 DEF FsInv, CmdOK
<1>3. Len(r) \in Nat
  BY <1>1, <1>2, ReadHasLength DEF FsInv
<1>. HIDE DEF r
<1>4. /\ cmd'.op = "get" /\ cmd'.inum = cmd.inum /\ cmd'.slot = cmd.slot
      /\ cmd'.out = cmd.out /\ cmd'.off \in Nat /\ CmdShape'
  <2>1. cmd = [op |-> "get", at |-> cmd.at, name |-> cmd.name, inum |-> cmd.inum,
               slot |-> cmd.slot, out |-> cmd.out, off |-> cmd.off, val |-> cmd.val,
               got |-> cmd.got]
    BY <1>1 DEF FsInv, CmdShape
  <2>2. CASE r = <<>>
    <3>1. cmd' = [op |-> "get", at |-> "return", name |-> cmd.name, inum |-> cmd.inum,
                  slot |-> cmd.slot, out |-> cmd.out, off |-> cmd.off, val |-> cmd.val,
                  got |-> cmd.got]
      BY <1>1, <2>1, <2>2
    <3>. QED  BY <1>2, <3>1 DEF CmdShape
  <2>3. CASE r # <<>>
    <3>1. cmd' = [op |-> "get", at |-> cmd.at, name |-> cmd.name, inum |-> cmd.inum,
                  slot |-> cmd.slot, out |-> cmd.out, off |-> cmd.off + Len(r),
                  val |-> cmd.val, got |-> cmd.got \o r]
      BY <1>1, <2>1, <2>3
    <3>. QED  BY <1>2, <1>3, <3>1 DEF CmdShape
  <2>. QED  BY <2>2, <2>3
<1>5. CmdOK'
  BY <1>1, <1>2, <1>4 DEF CmdOK
<1>6. FsTyped'
  BY <1>1, <1>4 DEF FsInv, FsTyped, FsTypeOK, InodeBits
<1>. QED  BY <1>1, <1>4, <1>5, <1>6, SameDirectory, BlocksKeep DEF FsInv

\* fs_unlink begins.
LEMMA RmStep ==
    ASSUME FsInv, NEW n \in Names, Rm(n)
    PROVE  FsInv'
<1>1. /\ pc = "idle" /\ cmd.op = "none" /\ Named(n) # {}
      /\ UNCHANGED <<inode_map, disk_inode_map, root>>
  BY DEF Rm, Idle
<1>2. PICK s \in Listed : root[s].inode = translate(n) /\ root[s].name = n
  BY <1>1, TranslateFinds DEF FsInv
<1>3. PICK i \in Files : i = translate(n)
  BY <1>1, TranslateFinds DEF FsInv
<1>4. cmd' = [op |-> "rm", at |-> "unmap", name |-> n, inum |-> i, slot |-> 0,
              out |-> Nothing, off |-> 0, val |-> 0, got |-> <<>>]
  BY <1>3 DEF Rm, NoCmd
<1>5. Truncate(i) /\ pc' = "direct" /\ call'.file = i
  BY <1>3 DEF Rm, Truncate, NoCall
<1>6. Next
  BY <1>5 DEF Next
<1>7. Directory' /\ Listed' = Listed
  BY <1>1, SameDirectory DEF FsInv
<1>8. CmdShape' /\ CmdOK'
  <2>1. Entered'
    BY <1>1, <1>2, <1>3, <1>4, <1>7 DEF Entered
  <2>. QED  BY <1>4, <1>5, <2>1 DEF CmdShape, CmdOK
<1>9. FsTyped'
  BY <1>1, <1>4, FileSystemAssumption DEF FsInv, FsTyped, FsTypeOK, InodeBits
<1>. QED  BY <1>1, <1>6, <1>7, <1>8, <1>9, BlocksKeep

\* fs_unlink clears the inode's bit; its entry is still there.
LEMMA UnlinkMapStep ==
    ASSUME FsInv, UnlinkMap
    PROVE  FsInv'
<1>1. /\ pc = "idle" /\ cmd.op = "rm" /\ cmd.at = "unmap" /\ UNCHANGED vars /\ pc' = pc
      /\ inode_map' = inode_map \ {cmd.inum} /\ disk_inode_map' = inode_map'
      /\ cmd' = [cmd EXCEPT !.at = "unlink"] /\ root' = root
  BY DEF UnlinkMap, In, vars, write_inode_map
<1>2. cmd' = [op |-> "rm", at |-> "unlink", name |-> cmd.name, inum |-> cmd.inum,
              slot |-> cmd.slot, out |-> cmd.out, off |-> cmd.off, val |-> cmd.val,
              got |-> cmd.got]
  BY <1>1 DEF FsInv, CmdShape
<1>3. Listed' = Listed
  BY <1>1 DEF Listed
<1>4. Directory'
  BY <1>1, <1>2, <1>3 DEF FsInv, Directory
<1>5. CmdShape' /\ CmdOK'
  <2>1. Entered
    BY <1>1 DEF FsInv, CmdOK
  <2>2. Entered'
    BY <1>1, <1>2, <2>1, StaysEntered
  <2>. QED  BY <1>1, <1>2, <2>2 DEF CmdShape, CmdOK
<1>6. FsTyped'
  BY <1>1, <1>2 DEF FsInv, FsTyped, FsTypeOK, InodeBits
<1>. QED  BY <1>1, <1>4, <1>5, <1>6, BlocksKeep

\* The entry goes last.
LEMMA UnlinkEntryStep ==
    ASSUME FsInv, UnlinkEntry
    PROVE  FsInv'
<1>1. /\ pc = "idle" /\ cmd.op = "rm" /\ cmd.at = "unlink" /\ UNCHANGED vars /\ pc' = pc
      /\ root' = [s \in Dirents |-> IF s \in Named(cmd.name) THEN NoEntry ELSE root[s]]
      /\ cmd' = NoCmd /\ UNCHANGED <<inode_map, disk_inode_map>>
  BY DEF UnlinkEntry, In, vars
<1>2. cmd' = [op |-> "none", at |-> "none", name |-> "none", inum |-> 0, slot |-> 0,
              out |-> Nothing, off |-> 0, val |-> 0, got |-> <<>>]
  BY <1>1 DEF NoCmd
<1>3. PICK e \in Listed : root[e].inode = cmd.inum /\ root[e].name = cmd.name
  BY <1>1 DEF FsInv, CmdOK, Entered
<1>4. root \in [Dirents -> Dirent]
  BY DEF FsInv, FsTypeOK
<1>5. Listed' = Listed \ Named(cmd.name)
  BY <1>1 DEF Listed
<1>6. \A s \in Listed' : s \in Listed /\ root'[s] = root[s] /\ root[s].inode # cmd.inum
  <2>. SUFFICES ASSUME NEW s \in Listed'
                PROVE  s \in Listed /\ root'[s] = root[s] /\ root[s].inode # cmd.inum
    OBVIOUS
  <2>1. s \in Listed /\ s \notin Named(cmd.name) /\ s \in Dirents
    BY <1>5 DEF Listed
  <2>2. root[s].name # cmd.name
    BY <2>1 DEF Named, Listed
  <2>3. s # e
    BY <1>3, <2>2
  <2>. QED  BY <1>1, <1>3, <2>1, <2>3 DEF FsInv, Directory
<1>7. Directory'
  BY <1>1, <1>6 DEF FsInv, Directory
<1>8. CmdShape' /\ CmdOK'
  BY <1>1, <1>2 DEF CmdShape, CmdOK
<1>9. FsTyped'
  <2>1. root' \in [Dirents -> Dirent]
    BY <1>1, <1>4 DEF Dirent
  <2>. QED  BY <1>1, <1>2, <2>1, FileSystemAssumption DEF FsInv, FsTyped, FsTypeOK, InodeBits
<1>. QED  BY <1>1, <1>7, <1>8, <1>9, BlocksKeep

\* The reload of fs_getattr.
LEMMA LsDashLStep ==
    ASSUME FsInv, LsDashL
    PROVE  FsInv'
<1>1. /\ pc = "idle" /\ cmd.op = "none" /\ Getattr /\ inode_map' = disk_inode_map
      /\ UNCHANGED <<disk_inode_map, root, cmd>> /\ pc' = "idle" /\ call' = call
  BY DEF LsDashL, Idle, Getattr
<1>2. inode_map' = inode_map
  BY <1>1 DEF FsInv, Directory
<1>3. Next
  BY <1>1 DEF Next
<1>4. FsTyped' /\ CmdShape' /\ CmdOK'
  BY <1>1, <1>2 DEF FsInv, FsTyped, FsTypeOK, InodeBits, CmdShape, CmdOK
<1>. QED  BY <1>1, <1>2, <1>3, <1>4, SameDirectory, BlocksKeep DEF FsInv

\* A handler of file data stays with its file, and ends where its command waits.
LEMMA HandlerStays ==
    ASSUME TypeOK, WriteStep \/ TruncateStep
    PROVE  /\ pc \in {"write", "link", "mark", "direct", "indir_2", "clear"}
           /\ pc' = "idle" \/ call'.file = call.file
           /\ pc \in {"write", "link", "mark"} => pc' \in {"write", "link", "mark", "idle"}
           /\ pc \in {"direct", "indir_2", "clear"} =>
                  pc' \in {"direct", "indir_2", "clear", "idle"}
BY DEF TypeOK, WriteStep, TruncateStep, WriteFindBlock, WriteLink, WriteMark, WriteData,
       WriteEnd, WriteNoRoot, TruncateDirect, TruncateIndir1, TruncateIndir2Table,
       TruncateIndir2, TruncateEnd, Return

\* Its command waits, but for the answer of fs_write.
LEMMA CommandWaits ==
    ASSUME CmdShape, DataStep
    PROVE  /\ cmd'.op = cmd.op /\ cmd'.at = cmd.at /\ cmd'.name = cmd.name
           /\ cmd'.inum = cmd.inum /\ cmd'.slot = cmd.slot /\ cmd'.out = cmd.out
           /\ cmd'.off = cmd.off /\ cmd'.got = cmd.got /\ CmdShape'
           /\ pc = "write" /\ pc' = "idle" => cmd'.val = call.off - call.start
<1>1. cmd = [op |-> cmd.op, at |-> cmd.at, name |-> cmd.name, inum |-> cmd.inum,
             slot |-> cmd.slot, out |-> cmd.out, off |-> cmd.off, val |-> cmd.val,
             got |-> cmd.got]
  BY DEF CmdShape
<1>2. CASE ~(pc = "write" /\ pc' = "idle")
  BY <1>1, <1>2 DEF CmdShape, DataStep
<1>3. CASE pc = "write" /\ pc' = "idle"
  <2>1. cmd' = [op |-> cmd.op, at |-> cmd.at, name |-> cmd.name, inum |-> cmd.inum,
                slot |-> cmd.slot, out |-> cmd.out, off |-> cmd.off,
                val |-> call.off - call.start, got |-> cmd.got]
    BY <1>1, <1>3 DEF DataStep
  <2>. QED  BY <2>1 DEF CmdShape
<1>. QED  BY <1>2, <1>3

\* A step of fs_write or fs_truncate.
LEMMA DataStepStep ==
    ASSUME FsInv, DataStep
    PROVE  FsInv'
<1>1. /\ WriteStep \/ TruncateStep
      /\ UNCHANGED <<inode_map, disk_inode_map, root>>
      /\ cmd' = IF pc = "write" /\ pc' = "idle"
                THEN [cmd EXCEPT !.val = call.off - call.start] ELSE cmd
  BY DEF DataStep
<1>2. pc # "dead" /\ Next
  BY <1>1 DEF Next, WriteStep, TruncateStep, WriteFindBlock, WriteLink, WriteMark, WriteData,
       WriteEnd, WriteNoRoot, TruncateDirect, TruncateIndir1, TruncateIndir2Table,
       TruncateIndir2, TruncateEnd
<1>3. TypeOK
  BY <1>2 DEF FsInv, Live, IInv
<1>4. /\ pc \in {"write", "link", "mark", "direct", "indir_2", "clear"}
      /\ pc' = "idle" \/ call'.file = call.file
      /\ pc \in {"write", "link", "mark"} => pc' \in {"write", "link", "mark", "idle"}
      /\ pc \in {"direct", "indir_2", "clear"} =>
             pc' \in {"direct", "indir_2", "clear", "idle"}
  BY <1>1, <1>3, HandlerStays
<1>5. /\ cmd'.op = cmd.op /\ cmd'.at = cmd.at /\ cmd'.name = cmd.name
      /\ cmd'.inum = cmd.inum /\ cmd'.slot = cmd.slot /\ cmd'.out = cmd.out
      /\ cmd'.off = cmd.off /\ CmdShape'
  BY CommandWaits DEF FsInv
<1>6. Entered
  BY <1>4 DEF FsInv, CmdOK
<1>7. Entered'
  BY <1>1, <1>5, <1>6, StaysEntered
<1>8. CmdOK'
  BY <1>1, <1>4, <1>5, <1>7 DEF FsInv, CmdOK
<1>9. FsTyped'
  BY <1>1, <1>5 DEF FsInv, FsTyped, FsTypeOK, InodeBits
<1>10. ~(cmd.op = "rm" /\ cmd.at = "unlink")
  BY <1>4 DEF FsInv, CmdOK
<1>. QED  BY <1>1, <1>2, <1>5, <1>8, <1>9, <1>10, SameDirectory, BlocksKeep DEF FsInv
-----------------------------------------------------------------------------
(***************************************************************************)
(* fs_mknod writes over an inode that no file has any longer: whatever it  *)
(* held is lost, and nothing else.                                         *)
(***************************************************************************)
LEMMA MknodEmptiesOne ==
    ASSUME FsInv, MknodInode
    PROVE  /\ IInv' /\ cmd.inum \in Files
           /\ \A g \in Files :
                /\ g = cmd.inum => disk_inode_region'[g] = EmptyInode
                /\ g # cmd.inum => disk_inode_region'[g] = disk_inode_region[g]
<1>0. cmd.inum \in Files
  BY DEF MknodInode
<1>. PICK f \in Files : f = cmd.inum
  BY <1>0
<1>1. /\ pc = "idle" /\ pc' = "idle" /\ IInv
      /\ inode_region' = [inode_region EXCEPT ![f] = EmptyInode]
      /\ update_inode(f) /\ block_map' = block_map /\ disk_block_map' = disk_block_map
      /\ blk' = blk /\ call' = call /\ new' = new /\ k' = k
  BY DEF MknodInode, In, FsInv, Live
<1>2. inode_region \in [Files -> Inode]
  BY <1>1 DEF IInv, TypeOK
<1>3. \A g \in Files : inode_region'[g] = IF g = f THEN EmptyInode ELSE inode_region[g]
  BY <1>1, <1>2
<1>4. \A g \in Files : disk_inode_region'[g] = inode_region'[g]
  BY <1>1, <1>2, <1>3 DEF IInv, ImageFollows, update_inode
<1>5. \A g \in Files, p \in Paths : Ptr(g, p)' = IF g = f THEN 0 ELSE Ptr(g, p)
  <2>1. \A p \in Paths : p[1] \in Slots
    BY PathKinds DEF Paths
  <2>0. \A s \in Slots : inode_region'[f].ptr[s] = 0
    BY <1>3 DEF EmptyInode
  <2>2. \A p \in Paths : Ptr(f, p)' = 0
    BY <2>0, <2>1 DEF Ptr, Deref
  <2>3. ASSUME NEW g \in Files \ {f}, NEW p \in Paths
        PROVE  Ptr(g, p)' = Ptr(g, p)
    <3>1. inode_region'[g] = inode_region[g] /\ blk' = blk
      BY <1>1, <1>3
    <3>. QED  BY <3>1 DEF Ptr, Deref
  <2>. QED  BY <2>2, <2>3
<1>6. TypeOK'
  <2>1. inode_region' \in [Files -> Inode]
    BY <1>1, <1>2, EmptyIsTyped
  <2>2. disk_inode_region' \in [Files -> Inode]
    BY <1>1, <1>2, <2>1, UpdateIsTyped DEF IInv
  <2>. QED  BY <1>1, <2>1, <2>2 DEF IInv, TypeOK
<1>7. SoleOwner'
  BY <1>1, <1>5 DEF IInv, SoleOwner, Ptr
<1>8. HeldIsMarked'
  <2>1. \A g \in Files, q \in Paths : Ptr(g, q) # 0 =>
          Ptr(g, q) \in FirstData .. NumBlocks - 1 /\ Ptr(g, q) \in block_map
    BY <1>1 DEF IInv, HeldIsMarked, Freeing, Ptr
  <2>. QED  BY <2>1, <1>1, <1>5 DEF HeldIsMarked, Ptr
<1>9. RootsSet'
  <2>1. EmptyInode.size = 0
    BY DEF EmptyInode
  <2>. QED  BY <1>1, <1>3, <2>1, Ranges DEF IInv, RootsSet
<1>10. ImageFollows'
  BY <1>1, <1>4 DEF IInv, ImageFollows
<1>. QED  BY <1>1, <1>2, <1>3, <1>4, <1>6, <1>7, <1>8, <1>9, <1>10
          DEF IInv, ReservedMarked, FoundIsFresh, ImageFollows

LEMMA MknodInodeStep ==
    ASSUME FsInv, MknodInode
    PROVE  FsInv'
<1>1. /\ pc = "idle" /\ pc' = "idle" /\ cmd.op = "put" /\ cmd.at = "inode"
      /\ cmd' = [cmd EXCEPT !.at = "entry"] /\ blk' = blk
      /\ UNCHANGED <<inode_map, disk_inode_map, root>>
  BY DEF MknodInode, In
<1>2. /\ IInv' /\ cmd.inum \in Files
      /\ \A g \in Files :
           /\ g = cmd.inum => disk_inode_region'[g].size = 0
           /\ g # cmd.inum => disk_inode_region'[g] = disk_inode_region[g]
  BY MknodEmptiesOne DEF EmptyInode
<1>3. CInv /\ TypeOK
  BY <1>1 DEF FsInv, Live, IInv
<1>4. CInv'
  <2>1. SizesBounded'
    BY <1>2, <1>3, Ranges DEF CInv, SizesBounded
  <2>2. ASSUME NEW g \in Files, NEW o \in 0 .. disk_inode_region'[g].size - 1
        PROVE  Has(g, o)'
    <3>1. g # cmd.inum
      BY <1>2, <2>2
    <3>2. disk_inode_region'[g] = disk_inode_region[g]
      BY <1>2, <3>1
    <3>3. Has(g, o)
      BY <1>3, <2>2, <3>2 DEF CInv, SizeCovered, Has
    <3>. QED  BY <1>1, <3>2, <3>3, SameTreeSameWords
  <2>3. SizeCovered'
    BY <2>2 DEF SizeCovered, Has
  <2>. QED  BY <1>1, <2>1, <2>3 DEF CInv, Written, Writing
<1>5. Live' /\ ImageOwners' /\ ImageMarks'
  <2>1. Live'
    BY <1>1, <1>2, <1>4, IdleShows DEF Live, LinkedIsHeld
  <2>. QED  BY <1>1, <1>2, <2>1, OwnersNext, MarksNext DEF Live
<1>6. cmd' = [op |-> "put", at |-> "entry", name |-> cmd.name, inum |-> cmd.inum,
              slot |-> cmd.slot, out |-> cmd.out, off |-> cmd.off, val |-> cmd.val,
              got |-> cmd.got]
  BY <1>1 DEF FsInv, CmdShape
<1>7. Directory' /\ Listed' = Listed
  BY <1>1, SameDirectory DEF FsInv
<1>8. CmdShape' /\ CmdOK'
  <2>1. /\ cmd.out \in Outside /\ cmd.name \in Names
        /\ cmd.inum \in Files /\ cmd.inum \in InodeBits /\ cmd.inum \in inode_map
        /\ cmd.slot \in Dirents \ Listed /\ Named(cmd.name) = {}
        /\ \A s \in Listed : root[s].inode # cmd.inum
    BY <1>1, <1>2 DEF FsInv, CmdOK
  <2>2. Named(cmd.name)' = {}
    BY <1>1, <1>6, <2>1 DEF Named
  <2>. QED  BY <1>1, <1>6, <1>7, <2>1, <2>2 DEF CmdShape, CmdOK, InodeBits
<1>9. FsTyped'
  BY <1>1, <1>6 DEF FsInv, FsTyped, FsTypeOK, InodeBits
<1>. QED  BY <1>1, <1>5, <1>7, <1>8, <1>9 DEF FsInv, FsTyped
-----------------------------------------------------------------------------
(***************************************************************************)
(* The process dies and comes back.                                        *)
(***************************************************************************)
LEMMA CrashStep ==
    ASSUME FsInv, Crash
    PROVE  FsInv'
<1>1. /\ pc # "dead" /\ pc' = "dead"
      /\ inode_region' = disk_inode_region /\ block_map' = disk_block_map
      /\ inode_map' = disk_inode_map /\ call' = NoCall /\ new' = 0 /\ k' = 0
      /\ cmd' = [NoCmd EXCEPT !.inum = cmd.inum]
      /\ disk_inode_region' = disk_inode_region /\ disk_block_map' = disk_block_map
      /\ blk' = blk /\ disk_inode_map' = disk_inode_map /\ root' = root
  BY DEF Crash, image
<1>2. cmd' = [op |-> "none", at |-> "none", name |-> "none", inum |-> cmd.inum, slot |-> 0,
              out |-> Nothing, off |-> 0, val |-> 0, got |-> <<>>]
  BY <1>1 DEF NoCmd
<1>3. IInv /\ CInv
  BY <1>1 DEF FsInv, Live
<1>4. Dead'
  <2>1. SizesBounded' /\ SizeCovered'
    BY <1>1, <1>3 DEF CInv, SizesBounded, SizeCovered, Deref
  <2>. QED  BY <1>1, <1>2, <1>3, <2>1 DEF Dead, NoCall, IInv, TypeOK, ReservedMarked, ImageFollows
<1>5. ImageOwners' /\ ImageMarks'
  BY <1>1, <1>2, SameImagePointers DEF FsInv, ImageMarks
<1>6. Directory'
  BY <1>1, <1>2 DEF FsInv, Directory, Listed
<1>7. CmdShape' /\ CmdOK'
  <2>1. CmdShape'
    BY <1>2 DEF CmdShape
  <2>2. cmd'.op = "none"
    BY <1>2
  <2>3. CmdOK'
    BY <1>1, <2>2 DEF CmdOK
  <2>. QED  BY <2>1, <2>3
<1>8. FsTyped'
  BY <1>1, <1>2, FileSystemAssumption DEF FsInv, FsTyped, FsTypeOK, InodeBits
<1>. QED  BY <1>1, <1>4, <1>5, <1>6, <1>7, <1>8 DEF FsInv, FsTyped

\* What is read from an image that is not damaged satisfies the invariant.
LEMMA MountStep ==
    ASSUME FsInv, Mount, ~Damaged
    PROVE  FsInv'
<1>1. /\ pc = "dead" /\ pc' = "idle" /\ cmd' = NoCmd /\ Dead
      /\ UNCHANGED <<inode_region, block_map, disk_inode_region, disk_block_map, blk>>
      /\ UNCHANGED <<call, new, k, inode_map, disk_inode_map, root>>
      /\ InodeErrors = {} /\ DiskHeld \subseteq disk_block_map
  BY DEF Mount, mem, image, FsInv, Damaged
<1>2. cmd' = [op |-> "none", at |-> "none", name |-> "none", inum |-> 0, slot |-> 0,
              out |-> Nothing, off |-> 0, val |-> 0, got |-> <<>>]
  BY <1>1 DEF NoCmd
<1>3. \A f \in Files, p \in Paths : Ptr(f, p)' = DPtr(f, p)
  BY <1>1 DEF Dead, Ptr, DPtr, Deref
<1>4. \A f \in Files, p \in Paths : DPtr(f, p) # 0 => DPtr(f, p) \in disk_block_map
  BY <1>1 DEF DiskHeld, DPtr
<1>5. IInv'
  <2>1. TypeOK'
    BY <1>1, GeometryAssumption DEF Dead, TypeOK, NoCall, Blocks
  <2>2. SoleOwner' /\ HeldIsMarked'
    BY <1>1, <1>3, <1>4 DEF Dead, FsInv, ImageOwners, SoleOwner, HeldIsMarked, Ptr
  <2>3. RootsSet'
    BY <1>1 DEF Dead, FsInv, ImageOwners, RootsSet
  <2>. QED  BY <1>1, <2>1, <2>2, <2>3
            DEF Dead, IInv, ReservedMarked, FoundIsFresh, ImageFollows
<1>6. Live'
  <2>1. SizesBounded' /\ SizeCovered'
    BY <1>1 DEF Dead, SizesBounded, SizeCovered, Deref
  <2>2. CInv' /\ LinkedIsHeld'
    BY <1>1, <2>1 DEF CInv, Written, Writing, LinkedIsHeld
  <2>. QED  BY <1>1, <1>5, <2>2, IdleShows DEF Live
<1>7. ImageOwners' /\ ImageMarks'
  BY <1>1, <1>5, <1>6, OwnersNext, MarksNext DEF Live
<1>8. Directory'
  <2>1. Listed' = Listed /\ \A s \in Listed : root[s].inode \in disk_inode_map
    BY <1>1 DEF Listed, InodeErrors
  <2>. QED  BY <1>1, <2>1 DEF FsInv, Directory
<1>9. CmdShape' /\ CmdOK'
  BY <1>1, <1>2 DEF CmdShape, CmdOK
<1>10. FsTyped'
  BY <1>1, <1>2, FileSystemAssumption DEF FsInv, FsTyped, FsTypeOK, InodeBits
<1>. QED  BY <1>1, <1>6, <1>7, <1>8, <1>9, <1>10 DEF FsInv, FsTyped

\* A fresh image satisfies it.
LEMMA FreshImage == FsInit => FsInv
<1>. SUFFICES ASSUME FsInit PROVE FsInv
  OBVIOUS
<1>1. /\ Init /\ inode_map = {} /\ disk_inode_map = {} /\ root = EmptyRoot /\ pc = "idle"
      /\ cmd = [op |-> "none", at |-> "none", name |-> "none", inum |-> 0, slot |-> 0,
                out |-> Nothing, off |-> 0, val |-> 0, got |-> <<>>]
  BY DEF FsInit, NoCmd, Init
<1>2. Live
  BY <1>1, InitIInv, InitCInv DEF Live, LinkedIsHeld, LinkShows, FreeingShows, Truncating
<1>3. ImageOwners /\ ImageMarks
  BY <1>1, <1>2, OwnersNow, MarksNow DEF Live
<1>4. Listed = {} /\ root \in [Dirents -> Dirent]
  BY <1>1 DEF Listed, EmptyRoot, Dirent
<1>5. Directory /\ CmdShape /\ CmdOK
  BY <1>1, <1>4 DEF Directory, CmdShape, CmdOK
<1>6. FsTypeOK /\ cmd.off \in Nat
  BY <1>1, <1>4, FileSystemAssumption DEF FsTypeOK, InodeBits
<1>. QED  BY <1>1, <1>2, <1>3, <1>5, <1>6 DEF FsInv

LEMMA MkfsStep == Mkfs => FsInv'
<1>. SUFFICES ASSUME Mkfs PROVE FsInv'
  OBVIOUS
<1>1. FsInit'
  BY DEF Mkfs, FsInit, Init
<1>2. FsInit' => FsInv'
  BY FreshImage, PTL
<1>. QED  BY <1>1, <1>2
-----------------------------------------------------------------------------
\* A step that changes nothing.
LEMMA StutterStep ==
    ASSUME FsInv, UNCHANGED <<vars, names>>
    PROVE  FsInv'
<1>1. /\ UNCHANGED vars /\ inode_region' = inode_region /\ block_map' = block_map
      /\ disk_inode_region' = disk_inode_region /\ disk_block_map' = disk_block_map
      /\ blk' = blk /\ pc' = pc /\ call' = call /\ new' = new /\ k' = k
      /\ inode_map' = inode_map /\ disk_inode_map' = disk_inode_map
      /\ root' = root /\ cmd' = cmd
  BY DEF names, vars
<1>2. Live => Live'
  BY <1>1, LiveStep
<1>3. Dead => Dead'
  BY <1>1 DEF Dead, SizesBounded, SizeCovered, Deref
<1>4. ImageOwners' /\ ImageMarks'
  BY <1>1, SameImagePointers DEF FsInv, ImageMarks
<1>5. Directory' /\ CmdShape' /\ CmdOK' /\ FsTyped'
  BY <1>1 DEF FsInv, Directory, Listed, CmdShape, CmdOK, Entered, Named, FsTyped, FsTypeOK,
     InodeBits
<1>. QED  BY <1>1, <1>2, <1>3, <1>4, <1>5 DEF FsInv, FsTyped

\* Every step of the commands, and every crash, keeps the invariant, but for that
\* of fs_mknod over the root directory.
LEMMA StepFsInv == FsInv /\ Running => FsInv' \/ MknodOverrun
<1>. SUFFICES ASSUME FsInv, Running, ~MknodOverrun PROVE FsInv'
  OBVIOUS
<1>1. ASSUME NEW n \in Names, (\E out \in Outside : Put(n, out)) \/ Get(n) \/ Rm(n)
      PROVE  FsInv'
  BY <1>1, PutStep, GetStep, RmStep
<1>2. CASE CmdStep
  BY <1>2, MknodMapStep, MknodInodeStep, MknodEntryStep, PutChunkStep, PutLoopStep,
     GetChunkStep, UnlinkMapStep, UnlinkEntryStep, NoCmdStep DEF CmdStep, GetReturn, In
<1>. QED  BY <1>1, <1>2, LsDashLStep, DataStepStep, CrashStep DEF Running

\* On any image, the names, inodes and slots of the commands are well-formed.
Formed ==
    /\ FsTypeOK /\ CmdShape
    /\ cmd.op = "put" => cmd.name \in Names /\ (cmd.at = "entry" => cmd.inum \in Files)

FsOK == Formed /\ (sound /\ pc # "overrun" => FsInv)

\* The command goes on, begins, or is over, and the directory is one.
StaysFormed ==
    /\ CmdShape' /\ cmd'.inum \in InodeBits \cup {0} /\ cmd'.slot \in 0 .. NDIRENTS
    /\ cmd'.out \in Outside \cup {Nothing}
    /\ cmd'.op = "put" => cmd'.name \in Names /\ (cmd'.at = "entry" => cmd'.inum \in Files)
    /\ root' \in [Dirents -> Dirent]

LEMMA CommandBegins ==
    ASSUME NEW command, NEW at, NEW n \in Names, NEW i \in InodeBits \cup {0},
           NEW out \in Outside \cup {Nothing}, at # "entry",
           cmd' = [op |-> command, at |-> at, name |-> n, inum |-> i, slot |-> 0, out |-> out,
                   off |-> 0, val |-> 0, got |-> <<>>],
           root' \in [Dirents -> Dirent]
    PROVE  StaysFormed
<1>1. CmdShape'
  BY DEF CmdShape
<1>2. cmd'.inum = i
  OBVIOUS
<1>3. cmd'.slot = 0
  OBVIOUS
<1>4. cmd'.out = out
  OBVIOUS
<1>5. cmd'.name = n
  OBVIOUS
<1>6. cmd'.at # "entry"
  OBVIOUS
<1>7. 0 \in 0 .. NDIRENTS
  BY FileSystemAssumption
<1>. QED  BY <1>1, <1>2, <1>3, <1>4, <1>5, <1>6, <1>7 DEF StaysFormed

LEMMA CommandEnds ==
    ASSUME NEW i \in InodeBits \cup {0}, cmd' = [NoCmd EXCEPT !.inum = i],
           root' \in [Dirents -> Dirent]
    PROVE  StaysFormed
<1>0. cmd' = [op |-> "none", at |-> "none", name |-> "none", inum |-> i, slot |-> 0,
              out |-> Nothing, off |-> 0, val |-> 0, got |-> <<>>]
  BY DEF NoCmd
<1>1. CmdShape'
  BY <1>0 DEF CmdShape
<1>2. cmd'.inum = i
  BY <1>0
<1>3. cmd'.slot = 0
  BY <1>0
<1>4. cmd'.out = Nothing
  BY <1>0
<1>5. cmd'.op # "put"
  BY <1>0
<1>6. 0 \in 0 .. NDIRENTS
  BY FileSystemAssumption
<1>. QED  BY <1>1, <1>2, <1>3, <1>4, <1>5, <1>6 DEF StaysFormed

LEMMA CommandGoesOn ==
    ASSUME Formed, NEW at, NEW off, NEW val, NEW got, at # "entry" \/ cmd.inum \in Files,
           cmd' = [op |-> cmd.op, at |-> at, name |-> cmd.name, inum |-> cmd.inum,
                   slot |-> cmd.slot, out |-> cmd.out, off |-> off, val |-> val, got |-> got],
           root' = root
    PROVE  StaysFormed
<1>1. CmdShape'
  BY DEF CmdShape
<1>2. cmd'.op = cmd.op /\ cmd'.name = cmd.name /\ cmd'.at = at
  OBVIOUS
<1>3. cmd'.inum = cmd.inum
  OBVIOUS
<1>4. cmd'.out = cmd.out
  OBVIOUS
<1>5. cmd'.slot = cmd.slot
  OBVIOUS
<1>. QED  BY <1>1, <1>2, <1>3, <1>4, <1>5 DEF StaysFormed, Formed, FsTypeOK

\* Whatever the image, a step keeps the commands well-formed.
LEMMA StepFormed ==
    ASSUME Formed, ~sound', Running
    PROVE  Formed'
<1>s. /\ inode_map \in SUBSET InodeBits /\ disk_inode_map \in SUBSET InodeBits
      /\ root \in [Dirents -> Dirent] /\ cmd.inum \in InodeBits \cup {0}
      /\ cmd.slot \in 0 .. NDIRENTS /\ cmd.out \in Outside \cup {Nothing} /\ CmdShape
      /\ cmd.op = "put" => cmd.name \in Names /\ (cmd.at = "entry" => cmd.inum \in Files)
  BY DEF Formed, FsTypeOK
<1>c. cmd = [op |-> cmd.op, at |-> cmd.at, name |-> cmd.name, inum |-> cmd.inum,
             slot |-> cmd.slot, out |-> cmd.out, off |-> cmd.off, val |-> cmd.val,
             got |-> cmd.got]
  BY <1>s DEF CmdShape
<1>n. NoCmd = [NoCmd EXCEPT !.inum = 0]
  BY DEF NoCmd
<1>m. inode_map' \in SUBSET InodeBits /\ disk_inode_map' \in SUBSET InodeBits
  BY <1>s DEF Running, Put, Get, Rm, LsDashL, CmdStep, DataStep, Crash, MknodRefuse, MknodMap,
     MknodInode, MknodOverrun, MknodEntry, PutChunk, PutRefused, PutWritten, PutReturn,
     GetChunk, GetReturn, UnlinkMap, UnlinkEntry, write_inode_map
<1>. SUFFICES StaysFormed
  BY <1>m DEF StaysFormed, Formed, FsTypeOK
<1>1. ASSUME NEW n \in Names, NEW out \in Outside, Put(n, out)
      PROVE  StaysFormed
  <2>1. /\ cmd' = [op |-> "put", at |-> "mknod", name |-> n, inum |-> 0, slot |-> 0,
                   out |-> out, off |-> 0, val |-> 0, got |-> <<>>]
        /\ root' = root
    BY <1>1 DEF Put, NoCmd
  <2>. QED  BY <1>s, <2>1, CommandBegins
<1>2. ASSUME NEW n \in Names, Get(n) \/ Rm(n)
      PROVE  StaysFormed
  <2>1. root' = root
    BY <1>2 DEF Get, Rm
  <2>2. CASE cmd' = NoCmd
    <3>1. PICK i \in InodeBits \cup {0} : i = 0
      OBVIOUS
    <3>. QED  BY <1>s, <1>n, <2>1, <2>2, <3>1, CommandEnds
  <2>3. CASE cmd' # NoCmd
    <3>1. Named(n) # {}
      BY <1>2, <2>3 DEF Get, Rm
    <3>2. PICK i \in Files : i = translate(n)
      BY <3>1, TranslateFinds DEF Formed
    <3>3. \/ cmd' = [op |-> "get", at |-> "loop", name |-> n, inum |-> i, slot |-> 0,
                     out |-> Nothing, off |-> 0, val |-> 0, got |-> <<>>]
          \/ cmd' = [op |-> "rm", at |-> "unmap", name |-> n, inum |-> i, slot |-> 0,
                     out |-> Nothing, off |-> 0, val |-> 0, got |-> <<>>]
      BY <1>2, <3>1, <3>2 DEF Get, Rm, NoCmd
    <3>4. PICK out \in Outside \cup {Nothing}, j \in InodeBits \cup {0} : out = Nothing /\ j = i
      BY DEF InodeBits
    <3>. QED  BY <1>s, <2>1, <3>3, <3>4, CommandBegins
  <2>. QED  BY <2>2, <2>3
<1>3. CASE LsDashL
  <2>1. cmd' = cmd /\ root' = root
    BY <1>3 DEF LsDashL
  <2>. QED  BY <1>s, <2>1 DEF StaysFormed, CmdShape
<1>4. CASE DataStep
  <2>1. root' = root
    BY <1>4 DEF DataStep
  <2>2. /\ cmd'.op = cmd.op /\ cmd'.at = cmd.at /\ cmd'.name = cmd.name
        /\ cmd'.inum = cmd.inum /\ cmd'.slot = cmd.slot /\ cmd'.out = cmd.out /\ CmdShape'
    BY <1>s, <1>4, CommandWaits
  <2>. QED  BY <1>s, <2>1, <2>2 DEF StaysFormed
<1>5. CASE Crash
  <2>1. cmd' = [NoCmd EXCEPT !.inum = cmd.inum] /\ root' = root
    BY <1>5 DEF Crash
  <2>2. PICK i \in InodeBits \cup {0} : i = cmd.inum
    BY <1>s
  <2>. QED  BY <1>s, <2>1, <2>2, CommandEnds
<1>6. CASE MknodRefuse \/ PutReturn \/ GetReturn \/ MknodOverrun \/ UnlinkEntry
  <2>1. cmd' = NoCmd
    BY <1>6 DEF MknodRefuse, PutReturn, GetReturn, MknodOverrun, UnlinkEntry
  <2>2. root' \in [Dirents -> Dirent]
    <3>1. CASE UnlinkEntry
      <4>1. root' = [s \in Dirents |-> IF s \in Named(cmd.name) THEN NoEntry ELSE root[s]]
        BY <3>1 DEF UnlinkEntry
      <4>. QED  BY <1>s, <4>1 DEF Dirent
    <3>2. CASE ~UnlinkEntry
      BY <1>s, <1>6, <3>2 DEF MknodRefuse, PutReturn, GetReturn, MknodOverrun
    <3>. QED  BY <3>1, <3>2
  <2>3. PICK i \in InodeBits \cup {0} : i = 0
    OBVIOUS
  <2>. QED  BY <1>n, <2>1, <2>2, <2>3, CommandEnds
<1>7. CASE MknodMap
  <2>1. PICK s \in Dirents, i \in InodeBits :
          cmd' = [cmd EXCEPT !.at = "inode", !.slot = s, !.inum = i]
    BY <1>7 DEF MknodMap
  <2>2. root' = root /\ s \in 0 .. NDIRENTS
    BY <1>7, FileSystemAssumption DEF MknodMap, Dirents
  <2>3. cmd' = [op |-> cmd.op, at |-> "inode", name |-> cmd.name, inum |-> i,
                slot |-> s, out |-> cmd.out, off |-> cmd.off, val |-> cmd.val,
                got |-> cmd.got]
    BY <1>c, <2>1
  <2>4. CmdShape' /\ cmd'.op = cmd.op /\ cmd'.at = "inode" /\ cmd'.name = cmd.name
    BY <2>3 DEF CmdShape
  <2>5. cmd'.inum = i
    BY <2>3
  <2>6. cmd'.out = cmd.out
    BY <2>3
  <2>7. cmd'.slot = s
    BY <2>3
  <2>. QED  BY <1>s, <2>2, <2>4, <2>5, <2>6, <2>7 DEF StaysFormed
<1>8. CASE MknodInode \/ PutChunk \/ PutRefused \/ PutWritten \/ GetChunk \/ UnlinkMap
  <2>1. root' = root
    BY <1>8 DEF MknodInode, PutChunk, PutRefused, PutWritten, GetChunk, UnlinkMap
  <2>2. PICK at, off, val, got : at = cmd.at /\ off = cmd.off /\ val = cmd.val /\ got = cmd.got
    OBVIOUS
  <2>3. CASE MknodInode
    <3>1. cmd' = [cmd EXCEPT !.at = "entry"] /\ cmd.inum \in Files
      BY <2>3 DEF MknodInode
    <3>2. cmd' = [op |-> cmd.op, at |-> "entry", name |-> cmd.name, inum |-> cmd.inum,
                slot |-> cmd.slot, out |-> cmd.out, off |-> off, val |-> val, got |-> got]
      BY <1>c, <2>2, <3>1
    <3>. QED  BY <2>1, <3>1, <3>2, CommandGoesOn
  <2>4. CASE PutChunk \/ UnlinkMap
    <3>1. \/ cmd' = [cmd EXCEPT !.at = "written"]
          \/ cmd' = [cmd EXCEPT !.at = "unlink"]
      BY <2>4 DEF PutChunk, UnlinkMap
    <3>2. \E to \in {"written", "unlink"} : cmd' =
               [op |-> cmd.op, at |-> to, name |-> cmd.name, inum |-> cmd.inum,
                slot |-> cmd.slot, out |-> cmd.out, off |-> off, val |-> val, got |-> got]
      BY <1>c, <2>2, <3>1
    <3>. QED  BY <2>1, <3>2, CommandGoesOn
  <2>5. CASE PutRefused \/ PutWritten \/ GetChunk
    <3>1. PICK r, go : r = fs_read(inode_region[cmd.inum], CHUNK, cmd.off) /\ go = cmd.off + ChunkLen
      OBVIOUS
    <3>2. \/ cmd' = [cmd EXCEPT !.at = "return"]
          \/ cmd' = [cmd EXCEPT !.at = "loop", !.off = go, !.val = 0]
          \/ cmd' = [cmd EXCEPT !.off = cmd.off + Len(r), !.got = cmd.got \o r] /\ at # "entry"
      BY <2>2, <2>5, <3>1 DEF PutRefused, PutWritten, GetChunk, In
    <3>3. CASE cmd' = [cmd EXCEPT !.at = "return"]
      <4>1. cmd' = [op |-> cmd.op, at |-> "return", name |-> cmd.name, inum |-> cmd.inum,
                slot |-> cmd.slot, out |-> cmd.out, off |-> off, val |-> val, got |-> got]
        BY <1>c, <2>2, <3>3
      <4>. QED  BY <2>1, <4>1, CommandGoesOn
    <3>4. CASE cmd' = [cmd EXCEPT !.at = "loop", !.off = go, !.val = 0]
      <4>1. cmd' = [op |-> cmd.op, at |-> "loop", name |-> cmd.name, inum |-> cmd.inum,
                slot |-> cmd.slot, out |-> cmd.out, off |-> go, val |-> 0, got |-> got]
        BY <1>c, <2>2, <3>4
      <4>. QED  BY <2>1, <4>1, CommandGoesOn
    <3>5. CASE cmd' = [cmd EXCEPT !.off = cmd.off + Len(r), !.got = cmd.got \o r] /\ at # "entry"
      <4>1. PICK to, more : to = cmd.off + Len(r) /\ more = cmd.got \o r
        OBVIOUS
      <4>2. cmd' = [op |-> cmd.op, at |-> at, name |-> cmd.name, inum |-> cmd.inum,
                slot |-> cmd.slot, out |-> cmd.out, off |-> to, val |-> val, got |-> more]
        BY <1>c, <2>2, <3>5, <4>1
      <4>. QED  BY <2>1, <3>5, <4>2, CommandGoesOn
    <3>. QED  BY <3>2, <3>3, <3>4, <3>5
  <2>. QED  BY <1>8, <2>3, <2>4, <2>5
<1>9. CASE MknodEntry
  <2>1. /\ cmd.op = "put" /\ cmd.at = "entry"
        /\ root' = [root EXCEPT ![cmd.slot] = [inode |-> cmd.inum, name |-> cmd.name]]
        /\ cmd' = [cmd EXCEPT !.at = "loop", !.slot = 0]
    BY <1>9 DEF MknodEntry, In
  <2>2. root' \in [Dirents -> Dirent]
    BY <1>s, <2>1 DEF Dirent
  <2>3. cmd' = [op |-> cmd.op, at |-> "loop", name |-> cmd.name, inum |-> cmd.inum,
                slot |-> 0, out |-> cmd.out, off |-> cmd.off, val |-> cmd.val,
                got |-> cmd.got]
    BY <1>c, <2>1
  <2>4. CmdShape' /\ cmd'.op = cmd.op /\ cmd'.at = "loop" /\ cmd'.name = cmd.name
    BY <2>3 DEF CmdShape
  <2>5. cmd'.inum = cmd.inum
    BY <2>3
  <2>6. cmd'.out = cmd.out
    BY <2>3
  <2>7. cmd'.slot = 0 /\ 0 \in 0 .. NDIRENTS
    BY <2>3, FileSystemAssumption
  <2>. QED  BY <1>s, <2>2, <2>4, <2>5, <2>6, <2>7 DEF StaysFormed
<1>. QED  BY <1>1, <1>2, <1>3, <1>4, <1>5, <1>6, <1>7, <1>8, <1>9 DEF Running, CmdStep

LEMMA FormedNext == FsInv' => Formed'
<1>1. FsInv => Formed
  BY DEF FsInv, CmdOK, Formed
<1>. QED  BY <1>1, PTL

\* Over its own root directory a process is not followed.
LEMMA OverrunEnds == Running => pc # "overrun"
BY DEF Running, Put, Get, Rm, Truncate, LsDashL, Idle, Crash, CmdStep, In, MknodRefuse,
       MknodMap, MknodInode, MknodOverrun, MknodEntry, PutChunk, PutRefused, PutWritten,
       PutReturn, GetChunk, GetReturn, UnlinkMap, UnlinkEntry, DataStep, WriteStep,
       TruncateStep, WriteFindBlock, WriteLink, WriteMark, WriteData, WriteEnd, WriteNoRoot,
       TruncateDirect, TruncateIndir1, TruncateIndir2Table, TruncateIndir2, TruncateEnd

\* The invariant of every image, damaged or not.
LEMMA StepFsOK == FsOK /\ [FsNext]_allVars => FsOK'
<1>. SUFFICES ASSUME FsOK, [FsNext]_allVars PROVE FsOK'
  OBVIOUS
<1>1. CASE UNCHANGED allVars
  <2>1. UNCHANGED <<vars, names>> /\ sound' = sound /\ pc' = pc
    BY <1>1 DEF allVars, vars
  <2>2. Formed'
    BY <2>1 DEF names, FsOK, Formed, FsTypeOK, CmdShape
  <2>. QED  BY <2>1, <2>2, StutterStep DEF FsOK
<1>2. CASE Mkfs
  BY <1>2, FormedNext, MkfsStep DEF FsOK
<1>3. CASE Mount
  <2>1. /\ sound' = (sound /\ ~Damaged) /\ pc = "dead" /\ cmd' = [NoCmd EXCEPT !.inum = 0]
        /\ UNCHANGED <<inode_map, disk_inode_map, root>>
    BY <1>3 DEF Mount, NoCmd
  <2>2. PICK i \in InodeBits \cup {0} : i = 0
    OBVIOUS
  <2>3. StaysFormed
    BY <2>1, <2>2, CommandEnds DEF FsOK, Formed, FsTypeOK
  <2>4. Formed'
    <3>1. cmd'.off = 0
      BY <2>1 DEF NoCmd
    <3>. QED  BY <2>1, <2>3, <3>1 DEF StaysFormed, FsOK, Formed, FsTypeOK
  <2>. QED  BY <1>3, <2>1, <2>4, MountStep DEF FsOK
<1>4. CASE Running /\ sound' = sound
  <2>0. pc # "overrun"
    BY <1>4, OverrunEnds
  <2>1. CASE ~sound
    BY <1>4, <2>1, StepFormed DEF FsOK
  <2>2. CASE sound /\ ~MknodOverrun
    BY <1>4, <2>0, <2>2, FormedNext, StepFsInv DEF FsOK
  <2>3. CASE sound /\ MknodOverrun
    <3>1. /\ pc' = "overrun" /\ cmd' = [NoCmd EXCEPT !.inum = 0]
          /\ UNCHANGED <<inode_map, disk_inode_map>> /\ root' \in [Dirents -> Dirent]
      BY <2>3 DEF MknodOverrun, NoCmd
    <3>2. PICK i \in InodeBits \cup {0} : i = 0
      OBVIOUS
    <3>3. StaysFormed
      BY <3>1, <3>2, CommandEnds
    <3>4. cmd'.off = 0
      BY <3>1 DEF NoCmd
    <3>. QED  BY <3>1, <3>3, <3>4 DEF StaysFormed, FsOK, Formed, FsTypeOK
  <2>. QED  BY <2>1, <2>2, <2>3
<1>. QED  BY <1>1, <1>2, <1>3, <1>4 DEF FsNext

\* Until a process is started on a damaged image, or an inode is written over the
\* root directory, the invariant holds in every reachable state, of the image
\* after a crash too.
THEOREM FsInvariance == FsSpec => [](sound /\ pc # "overrun" => FsInv)
<1>1. FsInit => FsOK
  BY FreshImage DEF FsOK, Formed, FsInv, CmdOK
<1>2. FsOK => (sound /\ pc # "overrun" => FsInv)
  BY DEF FsOK
<1>. QED  BY <1>1, <1>2, StepFsOK, PTL DEF FsSpec

\* The names, inodes, slots and offsets of the commands are well-formed in
\* every reachable state, on a damaged image too.
THEOREM FsTypeCorrect == FsSpec => []FsTypeOK
<1>1. FsInit => FsOK
  BY FreshImage DEF FsOK, Formed, FsInv, CmdOK
<1>2. FsOK => FsTypeOK
  BY DEF FsOK, Formed
<1>. QED  BY <1>1, <1>2, StepFsOK, PTL DEF FsSpec

\* What the checker reads of a file is among what the file holds.
LEMMA WalkedIsHeld ==
    ASSUME NEW f \in Files
    PROVE  Walked(disk_inode_region[f]) \subseteq DiskHeld \cup {0}
<1>. DEFINE in == disk_inode_region[f]
<1>1. ASSUME NEW i \in 0 .. N_DIRECT - 1
      PROVE  in.ptr[i] \in DiskHeld \cup {0}
  <2>1. <<i, Nil, Nil>> \in Paths
    BY PathKinds DEF Leaves
  <2>2. Deref(in, <<i, Nil, Nil>>) = in.ptr[i]
    BY DEF Deref
  <2>. QED  BY <2>1, <2>2 DEF DiskHeld
<1>2. ASSUME NEW i \in Entries
      PROVE  Deref(in, <<indir_1, i, Nil>>) \in DiskHeld \cup {0}
  <2>1. <<indir_1, i, Nil>> \in Paths
    BY DEF Paths
  <2>. QED  BY <2>1 DEF DiskHeld
<1>3. ASSUME NEW i \in Entries, NEW j \in Entries
      PROVE  Deref(in, <<indir_2, i, j>>) \in DiskHeld \cup {0}
  <2>1. <<indir_2, i, j>> \in Paths
    BY DEF Paths
  <2>. QED  BY <2>1 DEF DiskHeld
<1>. DEFINE A1 == {in.ptr[i] : i \in 0 .. N_DIRECT - 1}
            A2 == {Deref(in, <<indir_1, i, Nil>>) :
                      i \in {i \in Entries : in.ptr[indir_1] # 0}}
            J  == {i \in Entries : \A i2 \in 0 .. i : Deref(in, <<indir_2, i2, Nil>>) # 0}
            A3 == {Deref(in, <<indir_2, i, j>>) : i \in J, j \in Entries}
<1>4. Walked(in) = A1 \cup A2 \cup A3
  BY DEF Walked
<1>5. A1 \subseteq DiskHeld \cup {0}
  BY <1>1
<1>6. A2 \subseteq DiskHeld \cup {0}
  BY <1>2
<1>7. A3 \subseteq DiskHeld \cup {0}
  <2>1. J \subseteq Entries
    OBVIOUS
  <2>. HIDE DEF J
  <2>2. ASSUME NEW b \in A3
        PROVE  \E i \in J, j \in Entries : b = Deref(in, <<indir_2, i, j>>)
    <3>. HIDE DEF in
    <3>. QED  OBVIOUS
  <2>3. ASSUME NEW b \in A3
        PROVE  b \in DiskHeld \cup {0}
    <3>1. PICK i \in J, j \in Entries : b = Deref(in, <<indir_2, i, j>>)
      BY <2>2
    <3>2. i \in Entries
      BY <2>1
    <3>. QED  BY <1>3, <3>1, <3>2
  <2>. HIDE DEF A3
  <2>. QED  BY <2>3
<1>. HIDE DEF A1, A2, A3
<1>. QED  BY <1>4, <1>5, <1>6, <1>7

\* Between commands every block that a file holds is marked in the image, the
\* blocks of tables too, which read-img does not look at, and so is the inode of
\* every entry: whatever commands have run since the image was made, and however
\* often a process has died and left an undamaged image to the next, the checker
\* has nothing to report.  (fs_init does not ask for an undamaged one.)
THEOREM CleanImage == FsSpec => []CleanBetweenCommands
<1>1. (sound /\ pc # "overrun" => FsInv) => CleanBetweenCommands
  <2>. SUFFICES ASSUME FsInv, Idle PROVE BlockErrors = {} /\ ~Damaged
    BY DEF CleanBetweenCommands, Idle
  <2>1. pc = "idle" /\ cmd.op = "none" /\ IInv
    BY DEF Idle, FsInv, Live
  <2>2. DiskHeld \subseteq disk_block_map
    <3>. SUFFICES ASSUME NEW f \in Files, NEW p \in Paths,
                         Deref(disk_inode_region[f], p) # 0
                  PROVE  Deref(disk_inode_region[f], p) \in disk_block_map
      BY DEF DiskHeld
    <3>1. disk_inode_region[f] = inode_region[f] /\ disk_block_map = block_map
      BY <2>1 DEF IInv, ImageFollows
    <3>. QED  BY <2>1, <3>1 DEF IInv, HeldIsMarked, Freeing
  <2>3. \A s \in Listed : root[s].inode \in Files /\ root[s].inode \in disk_inode_map
    BY <2>1, ListedIsFile DEF FsInv, Directory
  <2>4. InodeErrors = {}
    BY <2>3 DEF InodeErrors
  <2>5. \A s \in Listed : Walked(disk_inode_region[root[s].inode])
                             \subseteq disk_block_map \cup {0}
    BY <2>2, <2>3, WalkedIsHeld
  <2>6. BlockErrors = {}
    BY <2>5 DEF BlockErrors
  <2>. QED  BY <2>2, <2>4, <2>6 DEF Damaged
<1>. QED  BY <1>1, FsInvariance, PTL

\* Wherever a crash stops a command, from an image that was undamaged, the files that the command was not at work
\* on hold only what the image has marked, and their inodes are marked.
THEOREM CrashDamageIsLocal == FsSpec => []DamageIsLocal
<1>1. (sound /\ pc # "overrun" => FsInv) => DamageIsLocal
  <2>. SUFFICES ASSUME FsInv, pc = "dead"
                PROVE  /\ InodeErrors \subseteq {cmd.inum}
                       /\ \A f \in Files \ {cmd.inum}, p \in Paths :
                             Deref(disk_inode_region[f], p) \in disk_block_map
    BY DEF DamageIsLocal
  <2>1. InodeErrors \subseteq {cmd.inum}
    BY DEF FsInv, Directory, InodeErrors
  <2>2. 0 \in disk_block_map
    BY GeometryAssumption DEF FsInv, Dead
  <2>3. \A f \in Files \ {cmd.inum}, p \in Paths :
          Deref(disk_inode_region[f], p) # 0 =>
              Deref(disk_inode_region[f], p) \in disk_block_map
    BY DEF FsInv, ImageMarks, DPtr
  <2>. QED  BY <2>1, <2>2, <2>3
<1>. QED  BY <1>1, FsInvariance, PTL
-----------------------------------------------------------------------------
(***************************************************************************)
(* What the checker misses.                                                *)
(***************************************************************************)
\* read-img reads every block of data with no table missing before its own.
LEMMA LeafIsWalked ==
    ASSUME NEW f \in Files, NEW p \in Leaves, DPtr(f, p) # 0,
           \A i \in Entries, j \in Entries : p = <<indir_2, i, j>> =>
              \A i2 \in 0 .. i : DPtr(f, <<indir_2, i2, Nil>>) # 0
    PROVE  DPtr(f, p) \in Walked(disk_inode_region[f])
<1>. DEFINE in == disk_inode_region[f]
<1>1. CASE p \in {<<i, Nil, Nil>> : i \in 0 .. N_DIRECT - 1}
  <2>1. PICK i \in 0 .. N_DIRECT - 1 : p = <<i, Nil, Nil>>
    BY <1>1
  <2>2. DPtr(f, p) = in.ptr[i]
    BY <2>1 DEF DPtr, Deref
  <2>. QED  BY <2>1, <2>2 DEF Walked
<1>2. CASE p \in {<<indir_1, i, Nil>> : i \in Entries}
  <2>1. PICK i \in Entries : p = <<indir_1, i, Nil>>
    BY <1>2
  <2>2. in.ptr[indir_1] # 0
    <3>1. indir_1 \in Slots
      BY PathKinds
    <3>2. DPtr(f, <<indir_1, i, Nil>>) # 0
      BY <2>1
    <3>3. DPtr(f, <<indir_1, Nil, Nil>>) # 0
      BY <3>1, <3>2, DPtrOf
    <3>4. DPtr(f, <<indir_1, Nil, Nil>>) = in.ptr[indir_1]
      BY <3>1, DPtrOf
    <3>. QED  BY <3>3, <3>4
  <2>3. DPtr(f, p) = Deref(in, <<indir_1, i, Nil>>)
    BY <2>1 DEF DPtr
  <2>. QED  BY <2>1, <2>2, <2>3 DEF Walked
<1>3. CASE p \in {<<indir_2, i, j>> : i \in Entries, j \in Entries}
  <2>1. PICK i \in Entries, j \in Entries : p = <<indir_2, i, j>>
    BY <1>3
  <2>2. \A i2 \in 0 .. i : Deref(in, <<indir_2, i2, Nil>>) # 0
    BY <2>1 DEF DPtr
  <2>3. DPtr(f, p) = Deref(in, <<indir_2, i, j>>)
    BY <2>1 DEF DPtr
  <2>. QED  BY <2>1, <2>2, <2>3 DEF Walked
<1>. QED  BY <1>1, <1>2, <1>3 DEF Leaves

\* No block of data that is read, of a file with a name, is unmarked.
AllReadMarked ==
    \A s \in Listed, p \in Leaves :
        /\ root[s].inode \in Files
        /\ \A i \in Entries, j \in Entries : p = <<indir_2, i, j>> =>
              \A i2 \in 0 .. i : DPtr(root[s].inode, <<indir_2, i2, Nil>>) # 0
        => ~Unmarked(root[s].inode, p)

\* So it is when nothing is reported.
LEMMA UnmarkedIsReported == BlockErrors = {} => AllReadMarked
<1>. SUFFICES ASSUME NEW s \in Listed, NEW f \in Files, f = root[s].inode, NEW p \in Leaves,
                     Unmarked(f, p),
                     \A i \in Entries, j \in Entries : p = <<indir_2, i, j>> =>
                        \A i2 \in 0 .. i : DPtr(f, <<indir_2, i2, Nil>>) # 0
              PROVE  BlockErrors # {}
  BY DEF AllReadMarked
<1>. DEFINE R(t) == {<<root[t].inode, b>> : b \in Walked(disk_inode_region[root[t].inode])
                                                  \ (disk_block_map \cup {0})}
<1>1. DPtr(f, p) \in Walked(disk_inode_region[root[s].inode]) \ (disk_block_map \cup {0})
  BY LeafIsWalked DEF Unmarked
<1>2. <<f, DPtr(f, p)>> \in R(s)
  BY <1>1
<1>3. BlockErrors = UNION {R(t) : t \in Listed}
  BY DEF BlockErrors
<1>. HIDE DEF R
<1>. QED  BY <1>2, <1>3

\* The blocks that fs_truncate frees first are all read.
LEMMA NearAreLeaves ==
    \A p \in Near : p \in Leaves /\ \A i \in Entries, j \in Entries : p # <<indir_2, i, j>>
BY PathKinds, LevelsBegin DEF Near, Leaves

\* When the process dies, an unmarked block is reported or is an empty table.
LEMMA UnreportedIsTable ==
    ASSUME Live, CmdOK, FsTypeOK, AllReadMarked,
           NEW f \in Files, NEW p \in Paths, Unmarked(f, p)
    PROVE  p \in TablePaths /\ blk[DPtr(f, p)] = ZeroBlock
<1>1. IInv
  BY DEF Live
<1>2. CASE Truncating /\ call.file = f
  <2>1. PICK q \in Near : Unmarked(f, q)
    BY <1>2 DEF Live, FreeingShows
  <2>2. PICK s \in Listed : root[s].inode = f
    BY <1>2 DEF CmdOK, Entered, Truncating
  <2>. QED  BY <2>1, <2>2, NearAreLeaves DEF AllReadMarked
<1>3. CASE ~(Truncating /\ call.file = f)
  <2>1. \A q : DPtr(f, q) = Ptr(f, q)
    BY <1>1, <1>3, DPtrIsPtr
  <2>2. disk_block_map = block_map /\ ~Freeing(f)
    BY <1>1, <1>3 DEF IInv, ImageFollows, Freeing, Truncating
  <2>3. pc = "mark" /\ DPtr(f, p) = new
    BY <1>1, <2>1, <2>2 DEF IInv, HeldIsMarked, Unmarked, Ptr
  <2>4. PICK q \in Paths :
          /\ Ptr(call.file, q) = new
          /\ q \in Inner => blk[new] = ZeroBlock
          /\ \A i \in Entries, j \in Entries : q = <<indir_2, i, j>> =>
                \A i2 \in 0 .. i : Ptr(call.file, <<indir_2, i2, Nil>>) # 0
    BY <2>3 DEF Live, LinkShows
  <2>5. call.file = f /\ q = p
    <3>1. call.file \in Files /\ Ptr(f, p) # 0
      BY <1>1, <2>1, <2>3 DEF IInv, TypeOK, Unmarked
    <3>. QED  BY <1>1, <2>1, <2>3, <2>4, <3>1 DEF IInv, SoleOwner, Ptr
  <2>6. ASSUME p \in Leaves
        PROVE  FALSE
    <3>1. PICK s \in Listed : root[s].inode = f
      BY <2>3, <2>5 DEF CmdOK, Entered
    <3>2. \A i \in Entries, j \in Entries : p = <<indir_2, i, j>> =>
              \A i2 \in 0 .. i : DPtr(f, <<indir_2, i2, Nil>>) # 0
      BY <2>1, <2>4, <2>5
    <3>. QED  BY <2>6, <3>1, <3>2 DEF AllReadMarked
  <2>7. p \in Leaves \cup Inner
    <3>1. Slots = 0 .. N_DIRECT - 1 \cup {indir_1, indir_2}
      BY GeometryAssumption DEF Slots, indir_1, indir_2
    <3>. QED  BY <3>1, PathForms DEF Leaves, Inner
  <2>8. Inner = TablePaths
    BY DEF Inner, TablePaths
  <2>. QED  BY <2>3, <2>4, <2>5, <2>6, <2>7, <2>8
<1>. QED  BY <1>2, <1>3

\* If read-img reports nothing after a crash, from an undamaged image, whatever command it has stopped and
\* wherever, then what is held and not marked is an empty table, linked just
\* before: never a block of data, nor a table that leads to one.
THEOREM CheckerMissesNoData == FsSpec => []CheckerMissesEmptyTables
<1>. DEFINE Missed == sound /\ pc = "dead" /\ AllReadMarked =>
                        \A f \in Files, p \in Paths : Unmarked(f, p) =>
                            p \in TablePaths /\ blk[DPtr(f, p)] = ZeroBlock
<1>1. FsInit => Missed
  BY DEF FsInit, Init
<1>2. (sound /\ pc # "overrun" => FsInv) /\ Missed /\ [FsNext]_allVars => Missed'
  <2>. SUFFICES ASSUME (sound /\ pc # "overrun" => FsInv), Missed, [FsNext]_allVars,
                       sound', pc' = "dead", AllReadMarked',
                       NEW f \in Files, NEW p \in Paths, Unmarked(f, p)'
                PROVE  p \in TablePaths /\ blk'[DPtr(f, p)'] = ZeroBlock
    OBVIOUS
  <2>1. ASSUME disk_inode_region' = disk_inode_region, disk_block_map' = disk_block_map,
               blk' = blk, root' = root
        PROVE  AllReadMarked /\ Unmarked(f, p) /\ blk'[DPtr(f, p)'] = blk[DPtr(f, p)]
    <3>1. \A g, q : DPtr(g, q)' = DPtr(g, q)
      BY <2>1, SameImagePointers
    <3>2. \A g, q : Unmarked(g, q)' <=> Unmarked(g, q)
      BY <2>1, <3>1 DEF Unmarked
    <3>. QED  BY <2>1, <3>1, <3>2 DEF AllReadMarked, Listed
  <2>2. CASE Crash /\ sound
    <3>1. /\ disk_inode_region' = disk_inode_region /\ disk_block_map' = disk_block_map
          /\ blk' = blk /\ root' = root /\ pc \notin {"dead", "overrun"}
      BY <2>2 DEF Crash, image
    <3>2. Live /\ CmdOK /\ FsTypeOK
      BY <2>2, <3>1 DEF FsInv
    <3>. QED  BY <2>1, <3>1, <3>2, UnreportedIsTable
  <2>3. CASE UNCHANGED allVars
    <3>1. /\ disk_inode_region' = disk_inode_region /\ disk_block_map' = disk_block_map
          /\ blk' = blk /\ root' = root /\ pc' = pc /\ sound' = sound
      BY <2>3 DEF allVars, names, vars
    <3>. QED  BY <2>1, <3>1
  <2>4. ASSUME FsNext, ~(Crash /\ sound)
        PROVE  pc' # "dead"
    <3>1. CASE DataStep
      BY <3>1 DEF DataStep, WriteStep, TruncateStep, WriteFindBlock, WriteLink, WriteMark,
         WriteData, WriteEnd, WriteNoRoot, TruncateDirect, TruncateIndir1,
         TruncateIndir2Table, TruncateIndir2, TruncateEnd, Return
    <3>2. CASE CmdStep
      BY <3>2 DEF CmdStep, In, MknodRefuse, MknodMap, MknodInode, MknodOverrun, MknodEntry, PutChunk,
         PutRefused, PutWritten, PutReturn, GetChunk, GetReturn, UnlinkMap, UnlinkEntry,
         Write, vars
    <3>3. ASSUME NEW n \in Names, (\E out \in Outside : Put(n, out)) \/ Get(n) \/ Rm(n)
          PROVE  pc' # "dead"
      BY <3>3 DEF Put, Get, Rm, Truncate, Idle, vars
    <3>4. CASE LsDashL \/ Mount \/ Mkfs
      BY <3>4 DEF LsDashL, Mount, Mkfs, Getattr, fs_init, Idle, vars
    <3>5. CASE Crash /\ UNCHANGED sound
      BY <2>4, <3>5
    <3>. QED  BY <2>4, <3>1, <3>2, <3>3, <3>4, <3>5 DEF FsNext, Running
  <2>. QED  BY <2>2, <2>3, <2>4
<1>3. Missed => CheckerMissesEmptyTables
  BY UnmarkedIsReported DEF CheckerMissesEmptyTables, Unmarked, DPtr
<1>. QED  BY <1>1, <1>2, <1>3, FsInvariance, PTL DEF FsSpec
-----------------------------------------------------------------------------
(***************************************************************************)
(* The words of the other files.                                           *)
(***************************************************************************)
\* The same inodes, leading to the same words, show the same content.
LEMMA SameWordsSameContent ==
    ASSUME NEW f \in Files, TypeOK, disk_inode_region'[f] = disk_inode_region[f],
           \A o \in Nat : Word(f, o)' = Word(f, o)
    PROVE  content'[f] = content[f]
<1>1. /\ content[f]  = [i \in 1 .. disk_inode_region[f].size |-> Word(f, i - 1)]
      /\ content'[f] = [i \in 1 .. disk_inode_region'[f].size |-> Word(f, i - 1)']
  BY ContentOf
<1>2. disk_inode_region[f].size \in Nat
  BY DEF TypeOK, Inode
<1>3. \A i \in 1 .. disk_inode_region[f].size : i - 1 \in Nat
  BY <1>2
<1>. QED  BY <1>1, <1>3

\* A step of fs_write or fs_truncate changes the words of its file only.
LEMMA HandlerKeepsOthers ==
    ASSUME IInv, CInv, WriteStep \/ TruncateStep, NEW f \in Files, f # call.file
    PROVE  content'[f] = content[f]
<1>1. IInv'
  BY StepIInv DEF Next
<1>2. DOMAIN content = Files
  BY DEF content
<1>3. CASE WriteFindBlock \/ WriteLink
  BY <1>1, <1>3, FindKeepsData, LinkKeepsData, KeptIsUnseen
<1>4. CASE WriteData \/ WriteEnd
  <2>1. Writing /\ op.file = call.file
    <3>1. Writing
      BY <1>4 DEF WriteData, WriteEnd, Writing
    <3>. QED  BY <3>1, OpOf DEF IInv
  <2>2. (\E n \in 1 .. MaxLen : Abstract!Progress(n)) \/ Abstract!EndWrite
    BY <1>1, <1>4, DataRefines, EndRefines
  <2>3. \E c : content' = [content EXCEPT ![op.file] = c]
    BY <2>2 DEF Abstract!Progress, Abstract!EndWrite
  <2>. QED  BY <1>2, <2>1, <2>3
<1>5. CASE TruncateEnd
  <2>1. /\ disk_inode_region'[f] = disk_inode_region[f]
        /\ \A o \in Nat : Word(f, o)' = Word(f, o)
    BY <1>1, <1>5, TruncateEmptiesOne
  <2>. QED  BY <2>1, SameWordsSameContent DEF IInv
<1>6. CASE \/ WriteMark \/ WriteNoRoot \/ TruncateDirect \/ TruncateIndir1
           \/ TruncateIndir2Table \/ TruncateIndir2
  <2>1. disk_inode_region' = disk_inode_region /\ blk' = blk
    BY <1>6 DEF WriteMark, WriteNoRoot, TruncateDirect, TruncateIndir1,
         TruncateIndir2Table, TruncateIndir2, image
  <2>. QED  BY <2>1, SameImage
<1>. QED  BY <1>3, <1>4, <1>5, <1>6 DEF WriteStep, TruncateStep

\* Until a process is started on a damaged image, no step of a command, a crash or
\* a restart changes a word of a file other than the command's own: not when a
\* block goes from one file to another, and not when a block that was data is
\* taken for a table.
THEOREM OthersAreUntouched == FsSpec => OthersKeepTheirWords
<1>1. (sound /\ pc # "overrun" => FsInv) /\ [FsNext]_allVars =>
        [sound /\ pc \notin {"dead", "overrun"} =>
            \A f \in Files \ {cmd.inum} : content[f]' = content[f]]_allVars
  <2>. SUFFICES ASSUME FsInv, FsNext, pc \notin {"dead", "overrun"}, NEW f \in Files, f # cmd.inum
                PROVE  content'[f] = content[f]
    OBVIOUS
  <2>1. Live
    BY DEF FsInv
  <2>2. CASE DataStep
    <3>1. f # call.file
      BY <2>1, <2>2, HandlerStays DEF DataStep, FsInv, CmdOK, Live, IInv
    <3>. QED  BY <2>1, <2>2, <3>1, HandlerKeepsOthers DEF DataStep, Live
  <2>3. CASE MknodInode
    <3>1. blk' = blk /\ disk_inode_region'[f] = disk_inode_region[f]
      BY <2>3, MknodEmptiesOne DEF MknodInode
    <3>2. \A o \in Nat : Word(f, o)' = Word(f, o)
      BY <3>1, SameTreeSameWords
    <3>. QED  BY <2>1, <3>1, <3>2, SameWordsSameContent DEF Live, IInv
  <2>4. ASSUME ~DataStep, ~MknodInode
        PROVE  disk_inode_region' = disk_inode_region /\ blk' = blk
    BY <2>4 DEF FsNext, Running, Put, Get, Rm, LsDashL, CmdStep, Crash, Mount, Mkfs,
         MknodRefuse, MknodMap, MknodOverrun, MknodEntry, PutChunk, PutRefused, PutWritten, PutReturn, GetChunk,
         GetReturn, UnlinkMap, UnlinkEntry, Write, Truncate, Getattr, fs_init, vars, image
  <2>. QED  BY <2>2, <2>3, <2>4, SameImage
<1>. QED  BY <1>1, FsInvariance, PTL DEF FsSpec, OthersKeepTheirWords
-----------------------------------------------------------------------------
(***************************************************************************)
(* What the commands copy: do_get gives the whole of the file and do_put   *)
(* leaves a prefix of the file outside, for every chunk size, geometry and *)
(* image, however full.                                                    *)
(***************************************************************************)
Size(f) == disk_inode_region[f].size

\* File f has the words that the file outside begins with.
Prefix(f, out) ==
    /\ Size(f) <= out.len
    /\ \A o \in 0 .. Size(f) - 1 : Word(f, o) = Chunk(out, o)

\* File f reaches to offset off, or do_put has been told that it does: the image
\* is full and off is where a level of the block tree ends.
ReachesTo(f, off) ==
    \/ Size(f) = off
    \/ Size(f) < off /\ off \in LevelEnds /\ NoFreeBlock

\* do_put between its steps: the chunks before off have been written.  While
\* fs_write runs, it writes the chunk at off.
PutInv == cmd.op = "put" =>
    /\ cmd.at \in {"mknod", "inode", "entry"} => cmd.off = 0
    /\ cmd.at = "entry" => Size(cmd.inum) = 0
    /\ cmd.at \in {"loop", "written", "return"} => Prefix(cmd.inum, cmd.out)
    /\ cmd.at \in {"loop", "written"} =>
          cmd.off <= cmd.out.len /\ (cmd.off % CHUNK = 0 \/ cmd.off = cmd.out.len)
    /\ cmd.at = "loop" => ReachesTo(cmd.inum, cmd.off)
    /\ cmd.at = "written" =>
          /\ ChunkLen > 0
          /\ pc = "idle" => /\ cmd.val \in 0 .. ChunkLen
                            /\ ReachesTo(cmd.inum, cmd.off + cmd.val)
          /\ pc # "idle" =>
                /\ Size(cmd.inum) = cmd.off
                /\ call.start = cmd.off /\ call.val = Chunk(cmd.out, cmd.off)
                /\ call.off - call.start + call.len = ChunkLen

\* do_get between its steps: it has what is before off.
GetInv == cmd.op = "get" =>
    /\ cmd.at \in {"loop", "return"}
    /\ cmd.off <= Len(content[cmd.inum])
    /\ cmd.got = SubSeq(content[cmd.inum], 1, cmd.off)
    /\ cmd.at = "return" => cmd.off = Len(content[cmd.inum])
-----------------------------------------------------------------------------
(***************************************************************************)
(* do_get.                                                                 *)
(***************************************************************************)
\* A step that does not touch the image shows the same files.
LEMMA SameFiles ==
    ASSUME disk_inode_region' = disk_inode_region, blk' = blk
    PROVE  /\ content' = content
           /\ \A f : Size(f)' = Size(f)
           /\ \A f, out : Prefix(f, out) => Prefix(f, out)'
           /\ block_map' = block_map =>
                \A f, off : ReachesTo(f, off) => ReachesTo(f, off)'
<1>1. content' = content /\ \A f, o : Word(f, o)' = Word(f, o)
  BY SameImage
<1>2. \A f : Size(f)' = Size(f)
  BY DEF Size
<1>3. \A f, out : Prefix(f, out) => Prefix(f, out)'
  BY <1>1, <1>2 DEF Prefix
<1>4. block_map' = block_map => \A f, off : ReachesTo(f, off) => ReachesTo(f, off)'
  BY <1>2 DEF ReachesTo, NoFreeBlock
<1>. QED  BY <1>1, <1>2, <1>3, <1>4

\* A chunk goes behind what do_get has already.
LEMMA ChunkGoesBehind ==
    ASSUME NEW S, NEW c \in Seq(S), NEW off \in 0 .. Len(c), NEW end \in off .. Len(c)
    PROVE  /\ Len(SubSeq(c, off + 1, end)) = end - off
           /\ SubSeq(c, off + 1, end) = <<>> => end = off
           /\ SubSeq(c, 1, off) \o SubSeq(c, off + 1, end) = SubSeq(c, 1, end)
<1>1. Len(c) \in Nat /\ off \in Int /\ end \in Int /\ off <= end
  OBVIOUS
<1>2. Len(SubSeq(c, off + 1, end)) = end - off
  <2>1. \A i \in off + 1 .. end : c[i] \in S
    BY <1>1, ElementOfSeq
  <2>2. Len(SubSeq(c, off + 1, end)) = IF off + 1 <= end THEN end - (off + 1) + 1 ELSE 0
    BY <1>1, <2>1, SubSeqProperties
  <2>. QED  BY <1>1, <2>2
<1>3. SubSeq(c, off + 1, end) = <<>> => end = off
  <2>1. Len(<<>>) = 0
    BY EmptySeq
  <2>. QED  BY <1>1, <1>2, <2>1
<1>4. SubSeq(c, 1, off) \o SubSeq(c, off + 1, end) = SubSeq(c, 1, end)
  BY <1>1, ConcatAdjacentSubSeq
<1>. QED  BY <1>2, <1>3, <1>4

\* No other step leaves a do_get running.
LEMMA OnlyGet ==
    ASSUME FsInv, FsNext, cmd'.op = "get"
    PROVE  (\E n \in Names : Get(n)) \/ GetChunk
<1>1. CmdShape
  BY DEF FsInv
<1>2. ~(Crash \/ Mount \/ Mkfs)
  BY DEF Crash, Mount, Mkfs, NoCmd
<1>3. ~LsDashL
  BY DEF LsDashL, Idle
<1>4. ~DataStep
  <2>. SUFFICES ASSUME DataStep PROVE FALSE
    OBVIOUS
  <2>1. pc # "idle" /\ pc # "dead" /\ TypeOK
    BY DEF DataStep, FsInv, Live, IInv, WriteStep, TruncateStep, WriteFindBlock, WriteLink,
       WriteMark, WriteData, WriteEnd, WriteNoRoot, TruncateDirect, TruncateIndir1,
       TruncateIndir2Table, TruncateIndir2, TruncateEnd
  <2>. QED  BY <1>1, <2>1, CommandWaits DEF FsInv, CmdOK, TypeOK
<1>5. ~\E n \in Names : (\E out \in Outside : Put(n, out)) \/ Rm(n)
  BY DEF Put, Rm, NoCmd
<1>6. ~(MknodRefuse \/ MknodOverrun \/ PutReturn \/ GetReturn \/ UnlinkEntry)
  BY DEF MknodRefuse, MknodOverrun, PutReturn, GetReturn, UnlinkEntry, NoCmd
<1>7. cmd = [op |-> cmd.op, at |-> cmd.at, name |-> cmd.name, inum |-> cmd.inum,
             slot |-> cmd.slot, out |-> cmd.out, off |-> cmd.off, val |-> cmd.val,
             got |-> cmd.got]
  BY <1>1 DEF CmdShape
<1>8. ~(MknodMap \/ MknodInode \/ MknodEntry \/ PutChunk \/ PutRefused \/ PutWritten)
  BY <1>7 DEF MknodMap, MknodInode, MknodEntry, PutChunk, PutRefused, PutWritten, In
<1>9. ~UnlinkMap
  BY <1>7 DEF UnlinkMap, In
<1>. QED  BY <1>2, <1>3, <1>4, <1>5, <1>6, <1>8, <1>9 DEF FsNext, Running, CmdStep

\* do_get begins with nothing of the file and goes on where it is.
LEMMA GetInvStep ==
    ASSUME FsInv, GetInv, [FsNext]_allVars
    PROVE  GetInv'
<1>. SUFFICES ASSUME cmd'.op = "get"
              PROVE  /\ cmd'.at \in {"loop", "return"}
                     /\ cmd'.off <= Len(content'[cmd'.inum])
                     /\ cmd'.got = SubSeq(content'[cmd'.inum], 1, cmd'.off)
                     /\ cmd'.at = "return" => cmd'.off = Len(content'[cmd'.inum])
  BY DEF GetInv
<1>1. CASE UNCHANGED allVars
  <2>1. cmd' = cmd /\ disk_inode_region' = disk_inode_region /\ blk' = blk
    BY <1>1 DEF allVars, names, vars
  <2>2. content' = content
    BY <2>1, SameFiles
  <2>. QED  BY <2>1, <2>2 DEF GetInv
<1>2. ASSUME NEW n \in Names, Get(n)
      PROVE  /\ cmd'.at \in {"loop", "return"}
             /\ cmd'.off <= Len(content'[cmd'.inum])
             /\ cmd'.got = SubSeq(content'[cmd'.inum], 1, cmd'.off)
             /\ cmd'.at = "return" => cmd'.off = Len(content'[cmd'.inum])
  <2>1. Named(n) # {} /\ pc = "idle" /\ disk_inode_region' = disk_inode_region /\ blk' = blk
    BY <1>2 DEF Get, NoCmd, Idle, vars
  <2>2. PICK i \in Files : i = translate(n)
    BY <2>1, TranslateFinds DEF FsInv
  <2>3. cmd' = [op |-> "get", at |-> "loop", name |-> n, inum |-> i, slot |-> 0,
                out |-> Nothing, off |-> 0, val |-> 0, got |-> <<>>]
    BY <1>2, <2>1, <2>2 DEF Get, NoCmd
  <2>4. Len(content[i]) \in Nat
    BY <2>1, ContentShape DEF ContentIsWords, FsInv, Live, IInv
  <2>5. SubSeq(content[i], 1, 0) = <<>>
    BY SubSeqEmpty
  <2>6. content' = content
    BY <2>1, SameFiles
  <2>. QED  BY <2>3, <2>4, <2>5, <2>6
<1>3. CASE GetChunk
  <2>. DEFINE r == fs_read(inode_region[cmd.inum], CHUNK, cmd.off)
              c == content[cmd.inum]
  <2>1. /\ pc = "idle" /\ cmd.op = "get" /\ cmd.at = "loop"
        /\ disk_inode_region' = disk_inode_region /\ blk' = blk
        /\ cmd' = IF r = <<>> THEN [cmd EXCEPT !.at = "return"]
                  ELSE [cmd EXCEPT !.off = @ + Len(r), !.got = @ \o r]
    BY <1>3 DEF GetChunk, In, vars
  <2>2. cmd.inum \in Files /\ cmd.off \in Nat /\ Live
    BY <2>1 DEF FsInv, CmdOK
  <2>3. c \in Seq(Shown(cmd.inum)) /\ Len(c) \in Nat
    BY <2>2, ContentShape DEF ContentIsWords, Live, IInv
  <2>4. cmd.off <= Len(c) /\ cmd.got = SubSeq(c, 1, cmd.off)
    BY <2>1 DEF GetInv
  <2>5. r = SubSeq(c, cmd.off + 1,
                   IF cmd.off + CHUNK > Len(c) THEN Len(c) ELSE cmd.off + CHUNK)
    BY <2>1, <2>2, ReadIsExact, FileSystemAssumption DEF Live
  <2>6. content' = content
    BY <2>1, SameFiles
  <2>. DEFINE end == IF cmd.off + CHUNK > Len(c) THEN Len(c) ELSE cmd.off + CHUNK
  <2>. HIDE DEF r, c
  <2>7. end \in cmd.off .. Len(c) /\ (end = cmd.off => cmd.off = Len(c))
    BY <2>2, <2>3, <2>4, FileSystemAssumption
  <2>8. r = SubSeq(c, cmd.off + 1, end)
    BY <2>5
  <2>. HIDE DEF end
  <2>. PICK off \in 0 .. Len(c) : off = cmd.off
    BY <2>2, <2>3, <2>4
  <2>9. end \in off .. Len(c) /\ r = SubSeq(c, off + 1, end)
    BY <2>7, <2>8, Zenon
  <2>10. /\ Len(r) = end - off
         /\ r = <<>> => end = off
         /\ SubSeq(c, 1, off) \o r = SubSeq(c, 1, end)
    <3>1. /\ Len(SubSeq(c, off + 1, end)) = end - off
          /\ SubSeq(c, off + 1, end) = <<>> => end = off
          /\ SubSeq(c, 1, off) \o SubSeq(c, off + 1, end) = SubSeq(c, 1, end)
      BY <2>3, <2>9, ChunkGoesBehind
    <3>. QED  BY <2>9, <3>1, Zenon
  <2>11. end = off + Len(r) /\ end <= Len(c)
    BY <2>3, <2>9, <2>10
  <2>12. cmd.got \o r = SubSeq(c, 1, cmd.off + Len(r))
    BY <2>4, <2>10, <2>11, Zenon
  <2>13. cmd = [op |-> cmd.op, at |-> cmd.at, name |-> cmd.name, inum |-> cmd.inum,
               slot |-> cmd.slot, out |-> cmd.out, off |-> cmd.off, val |-> cmd.val,
               got |-> cmd.got]
    BY DEF FsInv, CmdShape
  <2>14. CASE r = <<>>
    <3>1. cmd'.inum = cmd.inum /\ cmd'.off = cmd.off /\ cmd'.at = "return"
          /\ cmd'.got = cmd.got
      BY <2>1, <2>13, <2>14
    <3>. QED  BY <2>4, <2>6, <2>7, <2>10, <2>14, <3>1 DEF c
  <2>15. CASE r # <<>>
    <3>1. cmd'.inum = cmd.inum /\ cmd'.off = cmd.off + Len(r) /\ cmd'.at = "loop"
          /\ cmd'.got = cmd.got \o r
      BY <2>1, <2>13, <2>15
    <3>. QED  BY <2>6, <2>11, <2>12, <3>1 DEF c
  <2>. QED  BY <2>14, <2>15
<1>. QED  BY <1>1, <1>2, <1>3, OnlyGet
-----------------------------------------------------------------------------
(***************************************************************************)
(* do_put.                                                                 *)
(***************************************************************************)
\* Every word of a chunk is the same one.
LEMMA ChunkIsOneWord ==
    ASSUME NEW out, NEW off \in Nat, off % CHUNK = 0, NEW o \in off .. off + CHUNK - 1
    PROVE  Chunk(out, o) = Chunk(out, off)
<1>1. CHUNK \in Nat \ {0}
  BY FileSystemAssumption
<1>2. off \div CHUNK \in Int /\ off = CHUNK * (off \div CHUNK) + (off % CHUNK)
  BY <1>1
<1>. DEFINE q == off \div CHUNK
<1>. HIDE DEF q
<1>3. q \in Int /\ off = CHUNK * q + 0
  BY <1>2 DEF q
<1>4. o = CHUNK * q + (o - off) /\ o - off \in 0 .. CHUNK - 1 /\ o \in Int
  BY <1>1, <1>3
<1>5. o \div CHUNK = q
  BY <1>1, <1>3, <1>4, DivUnique
<1>. QED  BY <1>5 DEF Chunk, q

\* Where the next chunk begins.
LEMMA NextChunk ==
    ASSUME NEW off \in Nat, off % CHUNK = 0
    PROVE  (off + CHUNK) % CHUNK = 0
<1>1. CHUNK \in Nat \ {0}
  BY FileSystemAssumption
<1>2. off \div CHUNK \in Int /\ off = CHUNK * (off \div CHUNK) + (off % CHUNK)
  BY <1>1
<1>. DEFINE q == off \div CHUNK
<1>. HIDE DEF q
<1>3. q \in Int /\ off + CHUNK = CHUNK * (q + 1) + 0 /\ q + 1 \in Int /\ off + CHUNK \in Int
  BY <1>1, <1>2 DEF q
<1>4. PICK a \in Int, p \in Int : a = off + CHUNK /\ p = q + 1 /\ a = CHUNK * p + 0
  BY <1>3
<1>5. 0 \in 0 .. CHUNK - 1
  BY <1>1
<1>6. a % CHUNK = 0
  BY <1>1, <1>4, <1>5, DivUnique
<1>. QED  BY <1>4, <1>6

\* Words that stay where they are below a size that stays.
LEMMA PrefixKept ==
    ASSUME NEW f, NEW out, Prefix(f, out), Size(f)' = Size(f),
           \A o \in 0 .. Size(f) - 1 : Word(f, o)' = Word(f, o)
    PROVE  Prefix(f, out)'
BY DEF Prefix

\* What is known of a do_put whose chunk is being written.
LEMMA PutWriting ==
    ASSUME FsInv, PutInv, cmd.op = "put", WriteStep
    PROVE  /\ IInv /\ CInv /\ Writing /\ cmd.at = "written" /\ call.file = cmd.inum
           /\ cmd.inum \in Files /\ cmd.off \in Nat /\ cmd.out \in Outside
           /\ call.start = cmd.off /\ call.off \in Nat /\ call.len \in Nat
           /\ Size(cmd.inum) = cmd.off /\ cmd.off <= MaxSize /\ cmd.off <= call.off
           /\ call.off - call.start + call.len = ChunkLen /\ ChunkLen > 0
           /\ Prefix(cmd.inum, cmd.out)
           /\ cmd.off <= cmd.out.len /\ (cmd.off % CHUNK = 0 \/ cmd.off = cmd.out.len)
           /\ call.val = Chunk(cmd.out, cmd.off)
<1>1. pc \in {"write", "link", "mark"}
  BY DEF WriteStep, WriteFindBlock, WriteLink, WriteMark, WriteData, WriteEnd, WriteNoRoot
<1>2. /\ IInv /\ CInv /\ Writing /\ cmd.at = "written" /\ call.file = cmd.inum
      /\ cmd.off \in Nat /\ cmd.out \in Outside
  BY <1>1 DEF FsInv, Live, CmdOK, FsTypeOK, Writing
<1>3. /\ cmd.inum \in Files /\ call.off \in Nat /\ call.len \in Nat
  BY <1>1, <1>2 DEF IInv, TypeOK
<1>4. /\ call.start = cmd.off /\ Size(cmd.inum) = cmd.off
      /\ call.off - call.start + call.len = ChunkLen /\ ChunkLen > 0
      /\ Prefix(cmd.inum, cmd.out) /\ call.val = Chunk(cmd.out, cmd.off)
      /\ cmd.off <= cmd.out.len /\ (cmd.off % CHUNK = 0 \/ cmd.off = cmd.out.len)
  BY <1>1, <1>2 DEF PutInv
<1>5. cmd.off <= MaxSize /\ cmd.off <= call.off
  BY <1>2, <1>3, <1>4 DEF CInv, SizesBounded, Written, Size
<1>. QED  BY <1>2, <1>3, <1>4, <1>5

\* fs_write goes on: nothing shows yet.
LEMMA PutWriteGoesOn ==
    ASSUME FsInv, PutInv, cmd.op = "put", DataStep,
           WriteFindBlock \/ WriteLink \/ WriteMark \/ WriteData
    PROVE  PutInv'
<1>1. PICK f \in Files, off \in Nat, out \in Outside :
         f = cmd.inum /\ off = cmd.off /\ out = cmd.out
  BY PutWriting DEF WriteStep, FsInv, CmdOK
<1>2. /\ IInv /\ CInv /\ call.start = off /\ call.off \in Nat /\ call.len \in Nat
      /\ Size(f) = off /\ off <= MaxSize /\ off <= call.off /\ cmd.at = "written"
      /\ call.off - call.start + call.len = ChunkLen /\ ChunkLen > 0 /\ Prefix(f, out)
      /\ off <= out.len /\ (off % CHUNK = 0 \/ off = out.len) /\ call.file = f
      /\ call.val = Chunk(out, off)
  BY <1>1, PutWriting DEF WriteStep
<1>3. IInv'
  BY <1>2, StepIInv DEF Next, WriteStep
<1>4. /\ pc' # "idle" /\ call'.start = call.start /\ call'.val = call.val
      /\ call'.off - call'.start + call'.len = call.off - call.start + call.len
  <2>1. CASE WriteFindBlock \/ WriteLink \/ WriteMark
    BY <2>1 DEF WriteFindBlock, WriteLink, WriteMark
  <2>2. CASE WriteData
    <3>1. /\ DataLen \in Nat
          /\ call' = [call EXCEPT !.off = call.off + DataLen, !.len = call.len - DataLen]
      BY <1>2, <2>2, DataLenBounds
    <3>2. call = [file |-> call.file, start |-> call.start, off |-> call.off,
                  len |-> call.len, val |-> call.val]
      BY <1>2 DEF IInv, TypeOK
    <3>3. call' = [file |-> call.file, start |-> call.start, off |-> call.off + DataLen,
                   len |-> call.len - DataLen, val |-> call.val]
      BY <3>1, <3>2
    <3>4. pc' # "idle"
      BY <2>2 DEF WriteData
    <3>5. call.start \in Nat
      BY <1>2 DEF IInv, TypeOK
    <3>. QED  BY <1>2, <3>1, <3>3, <3>4, <3>5
  <2>. QED  BY <2>1, <2>2
<1>5. \A o \in 0 .. off - 1 : o \in 0 .. MaxSize - 1 /\ Has(f, o) /\ o \in Nat
  BY <1>2, Ranges DEF CInv, SizeCovered, Has, Size
<1>6. Size(f)' = off /\ \A o \in 0 .. off - 1 : Word(f, o)' = Word(f, o)
  <2>1. CASE WriteFindBlock \/ WriteLink
    <3>1. DataKept
      BY <1>2, <1>3, <2>1, FindKeepsData, LinkKeepsData
    <3>. QED  BY <1>2, <1>5, <3>1 DEF DataKept, Size
  <2>2. CASE WriteMark
    <3>1. disk_inode_region' = disk_inode_region /\ blk' = blk
      BY <2>2 DEF WriteMark
    <3>. QED  BY <1>2, <3>1, SameImage DEF Size
  <2>3. CASE WriteData
    <3>1. disk_inode_region' = disk_inode_region
      BY <2>3 DEF WriteData
    <3>2. \A o \in 0 .. off - 1 : Word(f, o)' = Word(f, o)
      BY <1>2, <1>3, <1>5, <2>3, DataGoesWhereMeant
    <3>. QED  BY <1>2, <3>1, <3>2 DEF Size
  <2>. QED  BY <2>1, <2>2, <2>3
<1>7. Prefix(f, out)'
  BY <1>2, <1>6, PrefixKept
<1>8. /\ cmd'.op = cmd.op /\ cmd'.at = cmd.at /\ cmd'.inum = cmd.inum
      /\ cmd'.out = cmd.out /\ cmd'.off = cmd.off /\ ChunkLen' = ChunkLen
  BY CommandWaits DEF FsInv, ChunkLen
<1>. QED  BY <1>1, <1>2, <1>4, <1>6, <1>7, <1>8 DEF PutInv

\* fs_write has no block for an indirect root.
LEMMA PutNoRoot ==
    ASSUME FsInv, PutInv, cmd.op = "put", DataStep, WriteNoRoot
    PROVE  PutInv'
<1>1. PICK f \in Files, off \in Nat, out \in Outside :
         f = cmd.inum /\ off = cmd.off /\ out = cmd.out
  BY PutWriting DEF WriteStep, FsInv, CmdOK
<1>2. /\ IInv /\ CInv /\ call.start = off /\ call.off \in Nat /\ call.len \in Nat
      /\ Size(f) = off /\ off <= call.off /\ cmd.at = "written" /\ Writing
      /\ call.off - call.start + call.len = ChunkLen /\ ChunkLen > 0 /\ Prefix(f, out)
      /\ off <= out.len /\ (off % CHUNK = 0 \/ off = out.len)
  BY <1>1, PutWriting DEF WriteStep
<1>3. /\ pc = "write" /\ pc' = "idle" /\ NoFreeBlock
      /\ disk_inode_region' = disk_inode_region /\ blk' = blk /\ block_map' = block_map
  BY DEF WriteNoRoot, Return, mem, image
<1>4. call.off \in LevelEnds
  <2>1. op.start + op.done \in LevelEnds
    BY <1>2, NoRootRefines DEF Abstract!EndWithoutExtending
  <2>2. op.start + op.done = call.off
    BY <1>2, OpOf DEF IInv
  <2>. QED  BY <2>1, <2>2
<1>5. ReachesTo(f, call.off)
  BY <1>2, <1>3, <1>4 DEF ReachesTo
<1>6. PICK to \in Nat : to = call.off
  BY <1>2
<1>7. Prefix(f, out)' /\ ReachesTo(f, to)'
  BY <1>2, <1>3, <1>5, <1>6, SameFiles
<1>8. /\ cmd'.op = cmd.op /\ cmd'.at = cmd.at /\ cmd'.inum = cmd.inum
      /\ cmd'.out = cmd.out /\ cmd'.off = cmd.off /\ ChunkLen' = ChunkLen
      /\ cmd'.val = to - off
  BY <1>1, <1>2, <1>3, <1>6, CommandWaits DEF FsInv, ChunkLen
<1>9. cmd'.val \in 0 .. ChunkLen /\ cmd'.off + cmd'.val = to
  BY <1>1, <1>2, <1>6, <1>8
<1>. QED  BY <1>1, <1>2, <1>3, <1>7, <1>8, <1>9 DEF PutInv

\* fs_write returns: the file reaches as far as it reports.
LEMMA PutWriteEnds ==
    ASSUME FsInv, PutInv, cmd.op = "put", DataStep, WriteEnd
    PROVE  PutInv'
<1>1. PICK f \in Files, off \in Nat, out \in Outside :
         f = cmd.inum /\ off = cmd.off /\ out = cmd.out
  BY PutWriting DEF WriteStep, FsInv, CmdOK
<1>2. /\ IInv /\ CInv /\ call.start = off /\ call.off \in Nat /\ call.len \in Nat
      /\ Size(f) = off /\ off <= call.off /\ cmd.at = "written" /\ Writing
      /\ call.off - call.start + call.len = ChunkLen /\ ChunkLen > 0 /\ Prefix(f, out)
      /\ off <= out.len /\ (off % CHUNK = 0 \/ off = out.len)
      /\ call.file = f /\ call.val = Chunk(out, off) /\ out \in Outside
  BY <1>1, PutWriting DEF WriteStep
<1>3. pc = "write" /\ pc' = "idle" /\ IInv'
  <2>1. pc = "write" /\ pc' = "idle"
    BY DEF WriteEnd, Return
  <2>. QED  BY <1>2, <2>1, StepIInv DEF Next, WriteStep
<1>4. Size(f)' = call.off /\ \A o \in Nat : Word(f, o)' = Word(f, o)
  BY <1>2, <1>3, EndRaisesSize DEF Size
<1>5. /\ out.len \in Nat /\ ChunkLen <= CHUNK /\ off + ChunkLen <= out.len
      /\ CHUNK \in Nat \ {0}
  BY <1>1, <1>2, ChunkLenIs, FileSystemAssumption
<1>6. PICK to \in Nat : to = call.off
  BY <1>2
<1>7. to <= out.len /\ to <= off + CHUNK /\ off <= to /\ off % CHUNK = 0
  BY <1>2, <1>5, <1>6
<1>8. ASSUME NEW o \in 0 .. to - 1
      PROVE  Word(f, o) = Chunk(out, o)
  <2>1. CASE o < off
    BY <1>2, <2>1 DEF Prefix
  <2>2. CASE o >= off
    <3>1. Word(f, o) = call.val
      BY <1>2, <1>6, <2>2 DEF CInv, Written
    <3>2. o \in off .. off + CHUNK - 1
      BY <1>5, <1>7, <2>2
    <3>. QED  BY <1>2, <1>7, <3>1, <3>2, ChunkIsOneWord
  <2>. QED  BY <2>1, <2>2
<1>9. Prefix(f, out)' /\ ReachesTo(f, to)'
  <2>1. \A o \in 0 .. to - 1 : Word(f, o)' = Chunk(out, o)
    BY <1>4, <1>8
  <2>2. Size(f)' = to
    BY <1>4, <1>6
  <2>. QED  BY <1>7, <2>1, <2>2 DEF Prefix, ReachesTo
<1>10. /\ cmd'.op = cmd.op /\ cmd'.at = cmd.at /\ cmd'.inum = cmd.inum
       /\ cmd'.out = cmd.out /\ cmd'.off = cmd.off /\ ChunkLen' = ChunkLen
       /\ cmd'.val = to - off
  BY <1>1, <1>2, <1>3, <1>6, CommandWaits DEF FsInv, ChunkLen
<1>11. cmd'.val \in 0 .. ChunkLen /\ cmd'.off + cmd'.val = to
  BY <1>1, <1>2, <1>6, <1>10
<1>. QED  BY <1>1, <1>2, <1>3, <1>9, <1>10, <1>11 DEF PutInv

\* do_put between two calls, and what it was before.
LEMMA PutInvStep ==
    ASSUME FsInv, PutInv, [FsNext]_allVars
    PROVE  PutInv'
<1>. SUFFICES ASSUME cmd'.op = "put" PROVE PutInv'
  BY DEF PutInv
<1>1. cmd = [op |-> cmd.op, at |-> cmd.at, name |-> cmd.name, inum |-> cmd.inum,
             slot |-> cmd.slot, out |-> cmd.out, off |-> cmd.off, val |-> cmd.val,
             got |-> cmd.got]
  BY DEF FsInv, CmdShape
<1>2. CASE UNCHANGED allVars
  <2>1. /\ cmd' = cmd /\ disk_inode_region' = disk_inode_region /\ blk' = blk
        /\ block_map' = block_map /\ pc' = pc /\ call' = call
    BY <1>2 DEF allVars, names, vars
  <2>2. PICK f, out, off, val : f = cmd.inum /\ out = cmd.out /\ off = cmd.off /\ val = cmd.val
    OBVIOUS
  <2>3. /\ Size(f)' = Size(f) /\ (Prefix(f, out) => Prefix(f, out)')
        /\ ReachesTo(f, off) => ReachesTo(f, off)'
        /\ ReachesTo(f, off + val) => ReachesTo(f, off + val)'
    BY <2>1, SameFiles
  <2>. QED  BY <2>1, <2>2, <2>3 DEF PutInv, ChunkLen
<1>3. ASSUME NEW n \in Names, NEW out \in Outside, Put(n, out)
      PROVE  PutInv'
  <2>1. cmd' = [op |-> "put", at |-> "mknod", name |-> n, inum |-> 0, slot |-> 0,
                out |-> out, off |-> 0, val |-> 0, got |-> <<>>]
    BY <1>3 DEF Put, NoCmd
  <2>. QED  BY <2>1 DEF PutInv
<1>4. CASE MknodMap
  <2>1. cmd.op = "put" /\ cmd.at = "mknod" /\ cmd'.at = "inode" /\ cmd'.off = cmd.off
    BY <1>1, <1>4 DEF MknodMap, In
  <2>. QED  BY <2>1 DEF PutInv
<1>5. CASE MknodInode
  <2>1. /\ cmd.op = "put" /\ cmd.at = "inode" /\ cmd'.at = "entry" /\ cmd'.off = cmd.off
        /\ cmd'.inum = cmd.inum
    BY <1>1, <1>5 DEF MknodInode, In
  <2>2. disk_inode_region'[cmd'.inum].size = 0
    BY <1>5, <2>1, MknodEmptiesOne DEF EmptyInode
  <2>. QED  BY <2>1, <2>2 DEF PutInv, Size
<1>6. CASE MknodEntry
  <2>1. /\ cmd.op = "put" /\ cmd.at = "entry" /\ cmd'.at = "loop" /\ cmd'.off = cmd.off
        /\ cmd'.inum = cmd.inum /\ cmd'.out = cmd.out /\ pc = "idle"
        /\ disk_inode_region' = disk_inode_region /\ cmd.out \in Outside
    BY <1>1, <1>6 DEF MknodEntry, In, vars, FsInv, CmdOK
  <2>2. cmd'.off = 0 /\ Size(cmd.inum) = 0
    BY <2>1 DEF PutInv
  <2>3. disk_inode_region'[cmd'.inum].size = 0
    BY <2>1, <2>2 DEF Size
  <2>4. cmd'.out.len \in Nat /\ 0 % CHUNK = 0
    <3>1. 0 = CHUNK * 0 + 0 /\ 0 \in 0 .. CHUNK - 1 /\ CHUNK \in Nat \ {0}
      BY FileSystemAssumption
    <3>2. 0 % CHUNK = 0
      BY <3>1, DivUnique
    <3>. QED  BY <2>1, <3>2, FileSystemAssumption DEF Outside
  <2>. QED  BY <2>1, <2>2, <2>3, <2>4 DEF PutInv, Prefix, ReachesTo, Size
<1>7. CASE PutChunk
  <2>1. /\ cmd.op = "put" /\ cmd.at = "loop" /\ cmd'.at = "written" /\ cmd'.off = cmd.off
        /\ cmd'.inum = cmd.inum /\ cmd'.out = cmd.out /\ pc = "idle" /\ ChunkLen > 0
        /\ Write(translate(cmd.name), cmd.off, ChunkLen, Chunk(cmd.out, cmd.off))
    BY <1>1, <1>7 DEF PutChunk, In
  <2>2. translate(cmd.name) = cmd.inum /\ cmd.inum \in Files /\ cmd.off \in Nat
    BY <2>1, EnteredIs DEF FsInv, CmdOK
  <2>3. /\ pc' = "write" /\ disk_inode_region' = disk_inode_region /\ blk' = blk
        /\ call' = [file |-> cmd.inum, start |-> cmd.off, off |-> cmd.off,
                    len |-> ChunkLen, val |-> Chunk(cmd.out, cmd.off)]
        /\ cmd.off <= inode_region[cmd.inum].size
    BY <2>1, <2>2 DEF Write, mem, image
  <2>4. cmd.off <= Size(cmd.inum) /\ Size(cmd.inum) \in Nat
    BY <2>1, <2>2, <2>3 DEF Size, FsInv, Live, IInv, ImageFollows, TypeOK, Inode
  <2>5. /\ Prefix(cmd.inum, cmd.out) /\ ReachesTo(cmd.inum, cmd.off)
        /\ cmd.off <= cmd.out.len /\ (cmd.off % CHUNK = 0 \/ cmd.off = cmd.out.len)
    BY <2>1 DEF PutInv
  <2>6. Size(cmd.inum) = cmd.off
    BY <2>2, <2>4, <2>5 DEF ReachesTo
  <2>7. PICK f, out : f = cmd.inum /\ out = cmd.out
    OBVIOUS
  <2>8. Prefix(f, out)' /\ Size(f)' = Size(f) /\ ChunkLen' = ChunkLen
    BY <2>1, <2>3, <2>5, <2>7, SameFiles DEF ChunkLen
  <2>9. call'.off - call'.start + call'.len = ChunkLen
    <3>1. ChunkLen \in Int
      BY <2>1, <2>2, ChunkLenIs DEF FsInv, CmdOK
    <3>. QED  BY <2>2, <2>3, <3>1
  <2>10. /\ cmd'.inum = f /\ cmd'.out = out /\ call'.start = cmd.off
         /\ call'.val = Chunk(cmd'.out, cmd'.off) /\ Size(f)' = cmd.off
    BY <2>1, <2>3, <2>6, <2>7, <2>8
  <2>. QED  BY <2>1, <2>3, <2>5, <2>8, <2>9, <2>10 DEF PutInv
<1>8. CASE PutRefused \/ PutWritten
  <2>1. /\ cmd.op = "put" /\ cmd.at \in {"loop", "written"} /\ pc = "idle" /\ pc' = "idle"
        /\ disk_inode_region' = disk_inode_region /\ blk' = blk /\ block_map' = block_map
        /\ cmd'.inum = cmd.inum /\ cmd'.out = cmd.out
    BY <1>1, <1>8 DEF PutRefused, PutWritten, In, vars
  <2>2. PICK f, out : f = cmd.inum /\ out = cmd.out
    OBVIOUS
  <2>3. Prefix(f, out)' /\ cmd'.inum = f /\ cmd'.out = out
    BY <2>1, <2>2, SameFiles DEF PutInv
  <2>4. CASE cmd'.at = "return"
    BY <2>3, <2>4 DEF PutInv
  <2>5. CASE cmd'.at # "return"
    <3>1. cmd.at = "written" /\ cmd.val = ChunkLen
      BY <1>1, <1>8, <2>5 DEF PutRefused, PutWritten, In
    <3>2. cmd'.at = "loop" /\ cmd'.off = cmd.off + ChunkLen
      BY <1>1, <1>8, <2>5 DEF PutRefused, PutWritten, In
    <3>3. /\ ReachesTo(cmd.inum, cmd.off + ChunkLen) /\ ChunkLen > 0
          /\ cmd.off <= cmd.out.len /\ (cmd.off % CHUNK = 0 \/ cmd.off = cmd.out.len)
      BY <2>1, <3>1 DEF PutInv
    <3>4. /\ cmd.off \in Nat /\ cmd.out.len \in Nat /\ ChunkLen \in Int
          /\ cmd.off + ChunkLen <= cmd.out.len
          /\ ChunkLen = CHUNK \/ cmd.off + ChunkLen = cmd.out.len
          /\ cmd.off + ChunkLen \in Nat
      <4>1. cmd.off \in Nat /\ cmd.out \in Outside
        BY <2>1 DEF FsInv, CmdOK
      <4>2. ChunkLen = CHUNK \/ ChunkLen = cmd.out.len - cmd.off
        BY DEF ChunkLen
      <4>. QED  BY <3>3, <4>1, <4>2, ChunkLenIs
    <3>5. (cmd.off + ChunkLen) % CHUNK = 0 \/ cmd.off + ChunkLen = cmd.out.len
      <4>1. CASE cmd.off = cmd.out.len
        BY <3>3, <3>4, <4>1
      <4>2. CASE cmd.off % CHUNK = 0
        BY <3>4, <4>2, NextChunk
      <4>. QED  BY <3>3, <4>1, <4>2
    <3>6. PICK to : to = cmd.off + ChunkLen
      OBVIOUS
    <3>7. ReachesTo(f, to)'
      BY <2>1, <2>2, <3>3, <3>6, SameFiles
    <3>. QED  BY <2>2, <2>3, <3>2, <3>4, <3>5, <3>6, <3>7 DEF PutInv
  <2>. QED  BY <2>4, <2>5
<1>9. CASE DataStep
  <2>1. cmd.op = "put"
    BY <1>9, CommandWaits DEF FsInv
  <2>2. ~TruncateStep
    <3>. SUFFICES ASSUME TruncateStep PROVE FALSE
      OBVIOUS
    <3>1. pc \in {"direct", "indir_2", "clear"}
      BY DEF TruncateStep, TruncateDirect, TruncateIndir1, TruncateIndir2Table,
         TruncateIndir2, TruncateEnd
    <3>. QED  BY <2>1, <3>1 DEF FsInv, CmdOK
  <2>. QED  BY <1>9, <2>1, <2>2, PutWriteGoesOn, PutNoRoot, PutWriteEnds
            DEF DataStep, WriteStep
<1>10. ~(Crash \/ Mount \/ Mkfs \/ LsDashL)
  BY DEF Crash, Mount, Mkfs, LsDashL, Idle, NoCmd
<1>11. \A n \in Names : ~Get(n) /\ ~Rm(n)
  <2>1. \A n \in Names : ~Rm(n)
    BY DEF Rm, NoCmd
  <2>2. ASSUME NEW n \in Names, Get(n) PROVE FALSE
    <3>1. Named(n) # {} /\ pc = "idle"
      BY <2>2 DEF Get, NoCmd, Idle
    <3>2. PICK i \in Files : i = translate(n)
      BY <3>1, TranslateFinds DEF FsInv
    <3>3. cmd' = [op |-> "get", at |-> "loop", name |-> n, inum |-> i, slot |-> 0,
                  out |-> Nothing, off |-> 0, val |-> 0, got |-> <<>>]
      BY <2>2, <3>1, <3>2 DEF Get, NoCmd
    <3>. QED  BY <3>3
  <2>. QED  BY <2>1, <2>2
<1>12. ~(MknodRefuse \/ MknodOverrun \/ PutReturn \/ GetReturn \/ UnlinkEntry)
  BY DEF MknodRefuse, MknodOverrun, PutReturn, GetReturn, UnlinkEntry, NoCmd
<1>13. ~(GetChunk \/ UnlinkMap)
  BY <1>1 DEF GetChunk, UnlinkMap, In
<1>14. CASE CmdStep
  BY <1>4, <1>5, <1>6, <1>7, <1>8, <1>12, <1>13, <1>14 DEF CmdStep
<1>15. CASE \E n \in Names : (\E out \in Outside : Put(n, out)) \/ Get(n) \/ Rm(n)
  BY <1>3, <1>11, <1>15
<1>. QED  BY <1>2, <1>9, <1>10, <1>14, <1>15 DEF FsNext, Running
-----------------------------------------------------------------------------
\* What has been copied, until a process is started on a damaged image.
Copied == sound /\ pc # "overrun" => FsInv /\ PutInv /\ GetInv

THEOREM CopyInvariance == FsSpec => []Copied
<1>1. FsInit => Copied
  BY FreshImage DEF FsInit, NoCmd, PutInv, GetInv, Copied
<1>2. Copied /\ [FsNext]_allVars => Copied'
  <2>. SUFFICES ASSUME Copied, [FsNext]_allVars, sound', pc' # "overrun"
                PROVE  FsInv' /\ PutInv' /\ GetInv'
    BY DEF Copied
  <2>1. CASE Mkfs \/ Mount
    <3>1. PutInv' /\ GetInv'
      <4>1. cmd' = NoCmd
        BY <2>1 DEF Mkfs, Mount
      <4>2. cmd'.op = "none"
        BY <4>1 DEF NoCmd
      <4>. QED  BY <4>2 DEF PutInv, GetInv
    <3>. QED  BY <2>1, <3>1, MkfsStep, MountStep DEF Mount, Copied
  <2>2. CASE (Running /\ sound' = sound) \/ UNCHANGED allVars
    <3>1. FsInv /\ PutInv /\ GetInv
      BY <2>2, OverrunEnds DEF allVars, vars, Copied
    <3>2. FsInv'
      BY <2>2, <3>1, StepFsInv, StutterStep DEF allVars, MknodOverrun
    <3>. QED  BY <3>1, <3>2, PutInvStep, GetInvStep
  <2>. QED  BY <2>1, <2>2 DEF FsNext
<1>. QED  BY <1>1, <1>2, PTL DEF FsSpec

\* do_get ends with the whole of the file, in order, however long it is and
\* wherever its chunks fall in the levels of its blocks.
THEOREM GetGivesTheFile == FsSpec => []GetIsContent
<1>1. Copied => GetIsContent
  <2>. SUFFICES ASSUME FsInv, GetInv, In("get", "return")
                PROVE  cmd.got = content[cmd.inum]
    BY DEF GetIsContent, Copied, In
  <2>1. cmd.op = "get" /\ cmd.at = "return" /\ pc = "idle"
    BY DEF In
  <2>. DEFINE c == content[cmd.inum]
  <2>2. c \in Seq(Shown(cmd.inum))
    BY <2>1, ContentShape DEF ContentIsWords, FsInv, Live, IInv, CmdOK
  <2>3. cmd.got = SubSeq(c, 1, Len(c))
    BY <2>1 DEF GetInv
  <2>4. SubSeq(c, 1, Len(c)) = c
    BY <2>2, SubSeqFull
  <2>. QED  BY <2>3, <2>4
<1>. QED  BY <1>1, CopyInvariance, PTL

\* Whatever blocks there are, what do_put has got into the file is a prefix of the
\* file outside; it comes to the end of its loop with less than the whole only if
\* the image is full and the length is that of a level of the block tree.
THEOREM PutLeavesAPrefix == FsSpec => []PutIsPrefix
<1>1. Copied => PutIsPrefix
  <2>. SUFFICES ASSUME FsInv, PutInv, cmd.op = "put", cmd.at \in {"loop", "return"},
                       pc = "idle"
                PROVE  LET in == content[cmd.inum]
                       IN  /\ Len(in) <= cmd.out.len
                           /\ in = SubSeq(Text(cmd.out), 1, Len(in))
                           /\ cmd.at = "loop" /\ ChunkLen = 0 /\ Len(in) < cmd.out.len
                                  => Blocks \subseteq block_map /\ cmd.out.len \in LevelEnds
    BY DEF PutIsPrefix, Copied
  <2>. DEFINE in == content[cmd.inum]
  <2>1. Prefix(cmd.inum, cmd.out)
    BY DEF PutInv
  <2>2. /\ cmd.inum \in Files /\ cmd.out \in Outside /\ TypeOK /\ cmd.off \in Nat
        /\ cmd.out.len \in Nat
    <3>1. Entered /\ cmd.out \in Outside /\ cmd.off \in Nat
      BY DEF FsInv, CmdOK
    <3>. QED  BY <3>1, EnteredIs, ChunkLenIs DEF FsInv, Live, IInv
  <2>3. /\ in \in Seq(Shown(cmd.inum)) /\ Len(in) = Size(cmd.inum) /\ Len(in) \in Nat
        /\ \A i \in 1 .. Len(in) : in[i] = Word(cmd.inum, i - 1)
    BY <2>2, ContentShape DEF ContentIsWords, Size
  <2>4. Len(in) <= cmd.out.len
    BY <2>1, <2>3 DEF Prefix
  <2>5. in = SubSeq(Text(cmd.out), 1, Len(in))
    <3>. DEFINE t == Text(cmd.out)
    <3>. HIDE DEF in
    <3>1. \A i \in 1 .. Len(in) : in[i] = Chunk(cmd.out, i - 1)
      BY <2>1, <2>3 DEF Prefix
    <3>2. \A i \in 1 .. Len(in) : t[i] = in[i]
      BY <2>2, <2>3, <2>4, <3>1 DEF Text
    <3>. HIDE DEF t
    <3>3. \A i \in 1 .. Len(in) : t[i] \in Shown(cmd.inum)
      BY <2>3, <3>2, ElementOfSeq
    <3>4. /\ SubSeq(t, 1, Len(in)) \in Seq(Shown(cmd.inum))
          /\ Len(SubSeq(t, 1, Len(in))) = IF 1 <= Len(in) THEN Len(in) - 1 + 1 ELSE 0
          /\ \A i \in 1 .. Len(in) - 1 + 1 : SubSeq(t, 1, Len(in))[i] = t[1 + i - 1]
      BY <2>3, <3>3, SubSeqProperties
    <3>5. /\ Len(SubSeq(t, 1, Len(in))) = Len(in)
          /\ \A i \in 1 .. Len(in) : SubSeq(t, 1, Len(in))[i] = in[i]
      BY <2>3, <3>2, <3>4
    <3>. QED  BY <2>3, <3>4, <3>5, SeqEqual DEF t
  <2>6. ASSUME cmd.at = "loop", ChunkLen = 0, Len(in) < cmd.out.len
        PROVE  Blocks \subseteq block_map /\ cmd.out.len \in LevelEnds
    <3>1. cmd.off = cmd.out.len
      BY <2>2, <2>6, FileSystemAssumption DEF ChunkLen
    <3>2. ReachesTo(cmd.inum, cmd.off)
      BY <2>6 DEF PutInv
    <3>. QED  BY <2>3, <2>6, <3>1, <3>2 DEF ReachesTo, NoFreeBlock
  <2>. QED  BY <2>4, <2>5, <2>6
<1>. QED  BY <1>1, CopyInvariance, PTL
-----------------------------------------------------------------------------
(***************************************************************************)
(* Where the parts of the image are.  The layout is right for every number *)
(* of blocks from the least that mkfs-x6.c can write a root directory      *)
(* into; and so is where homework.c looks for inodes, but for how many of  *)
(* them it takes there to be.                                              *)
(***************************************************************************)
Image == INSTANCE Layout

\* The sizes of fs5600.h: blocks of 1024 bytes, inodes of 64.
Sizes == BITS = 8192 /\ INODES_PER_BLK = 16

\* The parts of an image follow each other and all fit, the root directory's
\* block too.  (mkfs-x6.c writes them without a test of the size.)
THEOREM PartsFit ==
    ASSUME Sizes, NEW n \in Nat, n > 4
    PROVE  /\ Image!inode_map_base < Image!block_map_base(n)
           /\ Image!block_map_base(n) < Image!inode_base(n)
           /\ Image!inode_base(n) < Image!rootdir_base(n)
           /\ Image!rootdir_base(n) < n
<1>1. /\ Image!superblock(n).inode_map_sz = (n \div 4 + 8191) \div 8192
      /\ Image!superblock(n).block_map_sz = (n + 8191) \div 8192
      /\ Image!superblock(n).inode_region_sz = (n \div 4 + 15) \div 16
  BY DEF Sizes, Image!superblock, Image!n_inos, Image!DIV_ROUND_UP
<1>2. /\ (n \div 4 + 8191) \div 8192 \in 1 .. n
      /\ (n + 8191) \div 8192 \in 1 .. n
      /\ (n \div 4 + 15) \div 16 \in 1 .. n
  OBVIOUS
<1>3. 1 + (n \div 4 + 8191) \div 8192 + (n + 8191) \div 8192 + (n \div 4 + 15) \div 16 < n
  OBVIOUS
<1> QED
  BY <1>1, <1>2, <1>3
  DEF Image!inode_map_base, Image!block_map_base, Image!inode_base, Image!rootdir_base

\* Every inode of the image has a bit in the inode bitmap and a place in the
\* inode region, where update_inode writes it; and every block has a bit.
THEOREM InodesArePlaced ==
    ASSUME Sizes, NEW n \in Nat, NEW inum \in Nat, inum < Image!n_inos(n)
    PROVE  /\ inum < Image!inode_capacity(Image!superblock(n))
           /\ Image!update_inode_offset(Image!superblock(n), inum)
                  \in Image!inode_base(n) .. Image!rootdir_base(n) - 1
           /\ Image!block_capacity(Image!superblock(n)) = n
<1>1. /\ Image!superblock(n).inode_map_sz = (Image!n_inos(n) + 8191) \div 8192
      /\ Image!superblock(n).block_map_sz = (n + 8191) \div 8192
      /\ Image!superblock(n).inode_region_sz = (Image!n_inos(n) + 15) \div 16
      /\ Image!superblock(n).num_blocks = n
      /\ Image!n_inos(n) \in Nat
  BY DEF Sizes, Image!superblock, Image!n_inos, Image!DIV_ROUND_UP
<1>2. inum < ((Image!n_inos(n) + 8191) \div 8192) * 8192
  BY <1>1
<1>3. inum \div 16 \in 0 .. (Image!n_inos(n) + 15) \div 16 - 1
  BY <1>1
<1>4. ((n + 8191) \div 8192) * 8192 >= n
  OBVIOUS
<1> QED
  BY <1>1, <1>2, <1>3, <1>4
  DEF Sizes, Image!inode_capacity, Image!block_capacity, Image!update_inode_offset,
      Image!inode_base, Image!block_map_base, Image!rootdir_base, Image!inode_map_base

\* find_free_inode_map_bit looks at bits for inodes that are not there: in an
\* image of up to 32707 blocks (32 MB) one of them is for an inode that
\* update_inode would write over the root directory's block.
THEOREM BitmapGoesBeyond ==
    ASSUME Sizes, NEW n \in Nat, n > 4, n <= 32707
    PROVE  \E inum \in Image!n_inos(n) .. Image!inode_capacity(Image!superblock(n)) - 1 :
               Image!update_inode_offset(Image!superblock(n), inum) = Image!rootdir_base(n)
<1>1. PICK m \in 1 .. 8176 : m = Image!n_inos(n)
  BY DEF Image!n_inos
<1>2. PICK region \in 1 .. 511 : region = (m + 15) \div 16 /\ m <= 16 * region
  <2>. DEFINE r == (m + 15) \div 16
  <2>1. r \in Int /\ 16 * r <= m + 15 /\ m + 15 < 16 * r + 16
    OBVIOUS
  <2>2. r \in 1 .. 511 /\ m <= 16 * r
    <3>. HIDE DEF r
    <3>. QED  BY <2>1
  <2>. QED  BY <2>2
<1>3. /\ Image!superblock(n).inode_map_sz = 1
      /\ Image!superblock(n).inode_region_sz = region
      /\ Image!superblock(n).block_map_sz \in Nat
  BY <1>1, <1>2 DEF Sizes, Image!superblock, Image!n_inos, Image!DIV_ROUND_UP
<1>4. 16 * region \in Image!n_inos(n) .. Image!inode_capacity(Image!superblock(n)) - 1
  <2>1. Image!inode_capacity(Image!superblock(n)) = 8192
    BY <1>3 DEF Sizes, Image!inode_capacity
  <2>2. 16 * region \in m .. 8192 - 1
    BY <1>2
  <2> QED  BY <1>1, <2>1, <2>2
<1>5. Image!update_inode_offset(Image!superblock(n), 16 * region) = Image!rootdir_base(n)
  BY <1>2, <1>3
  DEF Sizes, Image!update_inode_offset, Image!rootdir_base, Image!inode_base,
      Image!block_map_base, Image!inode_map_base
<1> QED  BY <1>4, <1>5
=============================================================================
