-------------------------- MODULE FileBlocksProofs --------------------------
(***************************************************************************)
(* Proofs about FileBlocks, for every number of files, blocks and pointers,*)
(* and below them about FileContent.                                       *)
(*                                                                         *)
(* SoleOwner and HeldIsMarked are not inductive as they stand: a block     *)
(* found free must still be held by nothing when it is linked, and must    *)
(* lead nowhere; and fs_truncate must never follow a pointer that is 0.    *)
(* IInv adds what the handlers keep for that.                              *)
(***************************************************************************)
EXTENDS FileContent, SequenceTheorems, TLAPS

Ptr(f, p) == Deref(inode_region[f], p)

\* The layout's own blocks are always marked.
ReservedMarked == 0 .. FirstData - 1 \subseteq block_map

\* The block that was just found is free, cleared, and goes where a pointer
\* of the file is still 0.
FoundIsFresh ==
    /\ pc \in {"link", "mark"} => new \in FirstData .. NumBlocks - 1
    /\ pc = "link" => /\ new \notin block_map
                      /\ blk[new] = ZeroBlock
                      /\ NeedsBlock

\* A file that reaches into the range of an indirect root has that root, so
\* that fs_truncate never takes block 0 for a table.  This holds of the offset
\* a write has reached, too.
RootsSet ==
    /\ \A f \in Files :
        /\ inode_region[f].size > file_in_inode_sz => inode_region[f].ptr[indir_1] # 0
        /\ inode_region[f].size > Level2 => inode_region[f].ptr[indir_2] # 0
    /\ pc \in {"write", "link", "mark"} =>
        /\ call.off > file_in_inode_sz => inode.ptr[indir_1] # 0
        /\ call.off > Level2 => inode.ptr[indir_2] # 0
    /\ pc = "indir_2" => inode.ptr[indir_2] # 0

\* Memory and image differ at most in the file that is being truncated.
ImageFollows ==
    /\ disk_block_map = block_map
    /\ \A f \in Files : \/ disk_inode_region[f] = inode_region[f]
                        \/ pc \in {"direct", "indir_2", "clear"} /\ call.file = f

IInv ==
    /\ TypeOK /\ SoleOwner /\ HeldIsMarked
    /\ ReservedMarked /\ FoundIsFresh /\ RootsSet /\ ImageFollows
-----------------------------------------------------------------------------
(***************************************************************************)
(* Geometry and paths.                                                     *)
(***************************************************************************)
\* The paths of the blocks that hold data.
Leaves == {<<i, Nil, Nil>> : i \in 0 .. N_DIRECT - 1}
          \cup {<<indir_1, i, Nil>> : i \in Entries}
          \cup {<<indir_2, i, j>> : i \in Entries, j \in Entries}

\* The paths of the indirect blocks.
Inner == {<<indir_1, Nil, Nil>>, <<indir_2, Nil, Nil>>}
         \cup {<<indir_2, i, Nil>> : i \in Entries}

\* The ranges of the levels of the block tree are not empty.
LEMMA Ranges ==
    /\ file_in_inode_sz \in Nat /\ file_in_inode_sz > 0
    /\ Level2 \in Nat /\ Level2 > file_in_inode_sz
    /\ MaxSize \in Nat /\ MaxSize > Level2
<1>1. PTRS * PTRS \in Nat /\ PTRS * PTRS > 0 /\ N_DIRECT * PTRS \in Nat
      /\ N_DIRECT * PTRS > 0 /\ PTRS * PTRS * PTRS \in Nat
      /\ PTRS * PTRS * PTRS > 0
  BY GeometryAssumption
<1>. QED
  BY <1>1, GeometryAssumption
     DEF file_in_inode_sz, file_1st_level_sz, file_2nd_level_sz, Level2, MaxSize,
         BLOCK_SIZE

\* A quotient by m of a number below n * m is below n.
LEMMA DivBelow ==
    ASSUME NEW n \in Nat, NEW m \in Nat \ {0}, NEW a \in Nat, a < n * m
    PROVE  a \div m \in 0 .. n - 1
  OBVIOUS

\* The offset of a word in the file leads to the path of a data block.
LEMMA PathOfIsLeaf ==
    ASSUME NEW off \in Nat, off < MaxSize
    PROVE  PathOf(off) \in Leaves
<1>. DEFINE B == file_1st_level_sz
<1>0. B \in Nat \ {0} /\ BLOCK_SIZE \in Nat \ {0} /\ PTRS \in Nat \ {0}
  BY GeometryAssumption DEF file_1st_level_sz, BLOCK_SIZE
<1>1. CASE off < file_in_inode_sz
  <2>1. off \div BLOCK_SIZE \in 0 .. N_DIRECT - 1
    BY <1>0, <1>1, DivBelow, GeometryAssumption DEF file_in_inode_sz, BLOCK_SIZE
  <2>. QED  BY <1>1, <2>1 DEF PathOf, Leaves
<1>2. CASE file_in_inode_sz <= off /\ off < Level2
  <2>1. off - file_in_inode_sz \in Nat /\ off - file_in_inode_sz < PTRS * BLOCK_SIZE
    BY <1>2, Ranges, GeometryAssumption DEF Level2, file_1st_level_sz, BLOCK_SIZE
  <2>2. (off - file_in_inode_sz) \div BLOCK_SIZE \in Entries
    BY <2>1, <1>0, DivBelow DEF Entries
  <2>3. ~(off < file_in_inode_sz)
    BY <1>2, Ranges
  <2>. QED  BY <1>2, <2>2, <2>3 DEF PathOf, Leaves
<1>3. CASE Level2 <= off
  <2>. DEFINE off2 == off - Level2
  <2>1. off2 \in Nat /\ off2 < PTRS * B
    BY <1>3, Ranges, GeometryAssumption
       DEF MaxSize, file_2nd_level_sz, file_1st_level_sz, BLOCK_SIZE
  <2>2. off2 \div B \in Entries
    <3>. HIDE DEF B, off2
    <3>. QED  BY <2>1, <1>0, DivBelow DEF Entries
  <2>3. (off2 % B) \in Nat /\ (off2 % B) < PTRS * BLOCK_SIZE
    <3>1. (off2 % B) \in 0 .. B - 1
      <4>. HIDE DEF B, off2
      <4>. QED  BY <2>1, <1>0
    <3>. QED  BY <3>1, <1>0 DEF file_1st_level_sz
  <2>4. (off2 % B) \div BLOCK_SIZE \in Entries
    <3>. HIDE DEF B, off2
    <3>. QED  BY <2>3, <1>0, DivBelow DEF Entries
  <2>5. ~(off < file_in_inode_sz) /\ ~(off < Level2)
    BY <1>3, Ranges
  <2>. QED  BY <2>2, <2>4, <2>5 DEF PathOf, Leaves
<1>. QED  BY <1>1, <1>2, <1>3, Ranges
-----------------------------------------------------------------------------
(***************************************************************************)
(* Pointers.                                                               *)
(***************************************************************************)
\* Data blocks and indirect blocks are at paths; the slots of the roots differ
\* from each other and from the direct ones.
LEMMA PathKinds ==
    /\ Nil \notin Entries
    /\ Leaves \subseteq Paths
    /\ Inner \subseteq Paths
    /\ indir_1 \in Slots /\ indir_2 \in Slots /\ indir_1 # indir_2
    /\ indir_1 \notin 0 .. N_DIRECT - 1 /\ indir_2 \notin 0 .. N_DIRECT - 1
BY GeometryAssumption
   DEF Nil, Entries, Leaves, Inner, Paths, Slots, indir_1, indir_2

\* What a pointer is, by the form of its path.
LEMMA PtrOf ==
    ASSUME NEW f \in Files, NEW s \in Slots
    PROVE  /\ Ptr(f, <<s, Nil, Nil>>) = inode_region[f].ptr[s]
           /\ Ptr(f, <<s, Nil, Nil>>)' = inode_region'[f].ptr[s]
BY PathKinds DEF Ptr, Deref

\* The pointer in a table, and the next one's.
LEMMA PtrOf2 ==
    ASSUME NEW f \in Files, NEW s \in Slots, NEW i \in Entries
    PROVE  /\ Ptr(f, <<s, i, Nil>>) =
                  IF inode_region[f].ptr[s] = 0 THEN 0
                  ELSE blk[inode_region[f].ptr[s]][i]
           /\ Ptr(f, <<s, i, Nil>>)' =
                  IF inode_region'[f].ptr[s] = 0 THEN 0
                  ELSE blk'[inode_region'[f].ptr[s]][i]
BY PathKinds DEF Ptr, Deref

\* The pointer in a table of indir_2.
LEMMA PtrOf3 ==
    ASSUME NEW f \in Files, NEW i \in Entries, NEW j \in Entries
    PROVE  /\ Ptr(f, <<indir_2, i, j>>) =
                  IF Ptr(f, <<indir_2, i, Nil>>) = 0 THEN 0
                  ELSE blk[Ptr(f, <<indir_2, i, Nil>>)][j]
           /\ Ptr(f, <<indir_2, i, j>>)' =
                  IF Ptr(f, <<indir_2, i, Nil>>)' = 0 THEN 0
                  ELSE blk'[Ptr(f, <<indir_2, i, Nil>>)'][j]
BY PathKinds DEF Ptr, Deref

\* Every path is of one of four forms.
LEMMA PathForms ==
    ASSUME NEW p \in Paths
    PROVE  \/ \E s \in Slots : p = <<s, Nil, Nil>>
           \/ \E i \in Entries : p = <<indir_1, i, Nil>>
           \/ \E i \in Entries : p = <<indir_2, i, Nil>>
           \/ \E i \in Entries, j \in Entries : p = <<indir_2, i, j>>
BY DEF Paths

\* The first pointer on the way of a path that is not set: the path itself if
\* its block is there.
LEMMA HopIsPath ==
    ASSUME NEW f \in Files, NEW p \in Leaves
    PROVE  /\ Hop(inode_region[f], p) \in Leaves \cup Inner
           /\ Ptr(f, Hop(inode_region[f], p)) # 0 => Hop(inode_region[f], p) = p
           /\ \A s \in Slots, i \in Entries :
                Hop(inode_region[f], p) = <<s, i, Nil>> =>
                    Ptr(f, <<s, Nil, Nil>>) # 0
           /\ \A s \in Slots, i \in Entries, j \in Entries :
                Hop(inode_region[f], p) = <<s, i, j>> =>
                    Ptr(f, <<s, i, Nil>>) # 0
<1>1. CASE \E i \in 0 .. N_DIRECT - 1 : p = <<i, Nil, Nil>>
  BY <1>1, PathKinds DEF Hop, Leaves, Ptr
<1>2. CASE \E i \in Entries : p = <<indir_1, i, Nil>>
  BY <1>2, PathKinds DEF Hop, Leaves, Inner, Ptr
<1>3. CASE \E i \in Entries, j \in Entries : p = <<indir_2, i, j>>
  BY <1>3, PathKinds DEF Hop, Leaves, Inner, Ptr
<1>4. \/ \E i \in 0 .. N_DIRECT - 1 : p = <<i, Nil, Nil>>
      \/ \E i \in Entries : p = <<indir_1, i, Nil>>
      \/ \E i \in Entries, j \in Entries : p = <<indir_2, i, j>>
  BY DEF Leaves
<1>. QED  BY <1>1, <1>2, <1>3, <1>4

\* Every pointer is a block of the image.
LEMMA PtrIsBlock ==
    ASSUME TypeOK, HeldIsMarked, NEW f \in Files, NEW p \in Paths
    PROVE  Ptr(f, p) \in Blocks /\ (Ptr(f, p) # 0 => Ptr(f, p) >= FirstData)
BY GeometryAssumption DEF HeldIsMarked, Ptr, Blocks

\* Writing a block that is no indirect block of any file changes no pointer.
LEMMA WriteOutsideTree ==
    ASSUME TypeOK, HeldIsMarked,
           NEW n \in Blocks, n # 0,
           \A f \in Files, p \in Inner : Ptr(f, p) # n,
           \A b \in Blocks \ {n} : blk'[b] = blk[b],
           \A f \in Files : inode_region'[f].ptr = inode_region[f].ptr
    PROVE  \A f \in Files, p \in Paths : Ptr(f, p)' = Ptr(f, p)
<1>. SUFFICES ASSUME NEW f \in Files, NEW p \in Paths
              PROVE  Ptr(f, p)' = Ptr(f, p)
  OBVIOUS
<1>1. \A s \in Slots : Ptr(f, <<s, Nil, Nil>>)' = Ptr(f, <<s, Nil, Nil>>)
  BY PtrOf
<1>2. ASSUME NEW s \in {indir_1, indir_2}, NEW i \in Entries
      PROVE  Ptr(f, <<s, i, Nil>>)' = Ptr(f, <<s, i, Nil>>)
  <2>1. s \in Slots /\ <<s, Nil, Nil>> \in Inner /\ <<s, Nil, Nil>> \in Paths
    BY PathKinds DEF Inner
  <2>2. inode_region[f].ptr[s] \in Blocks \ {n}
    BY <2>1, PtrIsBlock, PtrOf
  <2>3. inode_region'[f].ptr[s] = inode_region[f].ptr[s]
    OBVIOUS
  <2>. QED  BY <2>1, <2>2, <2>3, PtrOf2
<1>3. ASSUME NEW i \in Entries, NEW j \in Entries
      PROVE  Ptr(f, <<indir_2, i, j>>)' = Ptr(f, <<indir_2, i, j>>)
  <2>1. indir_2 \in Slots /\ <<indir_2, i, Nil>> \in Inner /\ <<indir_2, i, Nil>> \in Paths
    BY PathKinds DEF Inner
  <2>2. Ptr(f, <<indir_2, i, Nil>>) \in Blocks \ {n}
    BY <2>1, PtrIsBlock
  <2>3. Ptr(f, <<indir_2, i, Nil>>)' = Ptr(f, <<indir_2, i, Nil>>)
    BY <1>2
  <2>. DEFINE b == Ptr(f, <<indir_2, i, Nil>>)
  <2>4. Ptr(f, <<indir_2, i, j>>) = IF b = 0 THEN 0 ELSE blk[b][j]
    BY PtrOf3
  <2>5. Ptr(f, <<indir_2, i, j>>)' = IF b' = 0 THEN 0 ELSE blk'[b'][j]
    BY PtrOf3
  <2>. QED  BY <2>2, <2>3, <2>4, <2>5
<1>. QED  BY <1>1, <1>2, <1>3, PathForms

\* A write looks at a pointer on the way to the block of its offset.
LEMMA AtIsPath ==
    ASSUME TypeOK, pc \in {"write", "link", "mark"}, call.off < MaxSize
    PROVE  /\ call.file \in Files
           /\ At \in Leaves \cup Inner
           /\ At \in Paths
           /\ Ptr(call.file, At) = Deref(inode, At)
           /\ Deref(inode, At) # 0 => At \in Leaves
           /\ \A s \in Slots, i \in Entries :
                At = <<s, i, Nil>> => Ptr(call.file, <<s, Nil, Nil>>) # 0
           /\ \A s \in Slots, i \in Entries, j \in Entries :
                At = <<s, i, j>> => Ptr(call.file, <<s, i, Nil>>) # 0
<1>1. call.file \in Files /\ call.off \in Nat
  BY DEF TypeOK
<1>2. PathOf(call.off) \in Leaves
  BY <1>1, PathOfIsLeaf
<1>. QED  BY <1>1, <1>2, HopIsPath, PathKinds DEF At, inode, Ptr

\* WriteLink sets the one pointer it means to set, and no other.
LEMMA LinkSetsOne ==
    ASSUME IInv, WriteLink
    PROVE  \A g \in Files, q \in Paths :
              Ptr(g, q)' = IF g = call.file /\ q = At THEN new ELSE Ptr(g, q)
<1>. DEFINE f == call.file
<1>0. /\ pc = "link" /\ TypeOK /\ SoleOwner /\ HeldIsMarked
      /\ new \in Blocks /\ new # 0 /\ blk[new] = ZeroBlock
      /\ call.off < MaxSize /\ Deref(inode, At) = 0
      /\ new \notin block_map
  BY GeometryAssumption DEF IInv, FoundIsFresh, NeedsBlock, WriteLink, Blocks
<1>1. /\ f \in Files /\ At \in Leaves \cup Inner /\ Ptr(f, At) = 0
      /\ inode = inode_region[f]
  BY <1>0, AtIsPath DEF inode
<1>2. \A g \in Files, q \in Paths : Ptr(g, q) # new /\ Ptr(g, q) \in Blocks
  BY <1>0, PtrIsBlock DEF HeldIsMarked, Freeing, Ptr
<1>3. \A i \in Entries : blk[new][i] = 0
  BY <1>0 DEF ZeroBlock
<1>4. inode_region \in [Files -> Inode] /\ blk \in [Blocks -> [Entries -> Nat]]
  BY <1>0 DEF TypeOK
<1>5. CASE At[2] = Nil
  <2>1. PICK s \in Slots : At = <<s, Nil, Nil>>
    BY <1>1, <1>5, PathKinds DEF Leaves, Inner, Slots, indir_1, indir_2
  <2>2. /\ inode_region' = [inode_region EXCEPT ![f].ptr[s] = new]
        /\ blk' = blk
    BY <1>0, <1>5, <2>1 DEF WriteLink
  <2>3. \A g \in Files, r \in Slots :
          inode_region'[g].ptr[r] =
              IF g = f /\ r = s THEN new ELSE inode_region[g].ptr[r]
    BY <1>1, <1>4, <2>2 DEF Inode
  <2>4. inode_region[f].ptr[s] = 0
    BY <1>1, <2>1, PtrOf
  <2>5. \A g \in Files, r \in Slots : Ptr(g, <<r, Nil, Nil>>)' =
          IF g = f /\ r = s THEN new ELSE Ptr(g, <<r, Nil, Nil>>)
    BY <2>3, PtrOf
  <2>6. \A g \in Files, r \in Slots, i \in Entries :
          Ptr(g, <<r, i, Nil>>)' = Ptr(g, <<r, i, Nil>>)
    BY <2>2, <2>3, <2>4, <1>3, PtrOf2
  <2>7. ASSUME NEW g \in Files, NEW i \in Entries, NEW j \in Entries
        PROVE  Ptr(g, <<indir_2, i, j>>)' = Ptr(g, <<indir_2, i, j>>)
    <3>. DEFINE b == Ptr(g, <<indir_2, i, Nil>>)
    <3>1. Ptr(g, <<indir_2, i, j>>) = IF b = 0 THEN 0 ELSE blk[b][j]
      BY PtrOf3
    <3>2. Ptr(g, <<indir_2, i, j>>)' = IF b' = 0 THEN 0 ELSE blk'[b'][j]
      BY PtrOf3
    <3>3. b' = b
      BY <2>6, PathKinds
    <3>. QED  BY <3>1, <3>2, <3>3, <2>2
  <2>. QED  BY <2>1, <2>5, <2>6, <2>7, PathForms, PathKinds
<1>6. CASE At[2] # Nil /\ At[3] = Nil
  <2>1. PICK s \in {indir_1, indir_2}, i0 \in Entries : At = <<s, i0, Nil>>
    BY <1>1, <1>6, PathKinds DEF Leaves, Inner
  <2>. DEFINE t == inode_region[f].ptr[s]
              r == <<s, Nil, Nil>>
  <2>2. s \in Slots /\ r \in Paths /\ t = Ptr(f, r) /\ t # 0 /\ t \in Blocks
        /\ t # new
    <3>1. s \in Slots /\ r \in Paths
      BY PathKinds DEF Paths
    <3>2. t = Ptr(f, r)
      BY <3>1, <1>1, PtrOf
    <3>3. Ptr(f, r) # 0
      BY <2>1, <3>1, <1>0, AtIsPath
    <3>. QED  BY <3>1, <3>2, <3>3, <1>1, <1>2
  <2>3. /\ blk' = [blk EXCEPT ![t][i0] = new]
        /\ inode_region' = inode_region
    BY <1>1, <1>6, <2>1 DEF WriteLink
  <2>4. \A b \in Blocks, i \in Entries :
          blk'[b][i] = IF b = t /\ i = i0 THEN new ELSE blk[b][i]
    BY <1>4, <2>2, <2>3
  <2>5. \A g \in Files, q \in Paths : Ptr(g, q) = t => g = f /\ q = r
    BY <2>2, <1>0, <1>1 DEF SoleOwner, Ptr
  <2>6. \A g \in Files, u \in Slots :
          Ptr(g, <<u, Nil, Nil>>)' = Ptr(g, <<u, Nil, Nil>>)
    BY <2>3, PtrOf
  <2>7. ASSUME NEW g \in Files, NEW u \in {indir_1, indir_2}, NEW i \in Entries
        PROVE  Ptr(g, <<u, i, Nil>>)' =
                  IF g = f /\ <<u, i, Nil>> = At THEN new ELSE Ptr(g, <<u, i, Nil>>)
    <3>. DEFINE a == inode_region[g].ptr[u]
    <3>1. u \in Slots /\ <<u, Nil, Nil>> \in Paths /\ a = Ptr(g, <<u, Nil, Nil>>)
      BY PathKinds, PtrOf DEF Paths
    <3>2. a \in Blocks /\ (a = t => g = f /\ u = s)
      BY <3>1, <2>5, <1>2
    <3>3. Ptr(g, <<u, i, Nil>>) = IF a = 0 THEN 0 ELSE blk[a][i]
      BY <3>1, PtrOf2
    <3>4. Ptr(g, <<u, i, Nil>>)' = IF a = 0 THEN 0 ELSE blk'[a][i]
      BY <3>1, <2>3, PtrOf2
    <3>. QED  BY <3>2, <3>3, <3>4, <2>1, <2>2, <2>4
  <2>8. ASSUME NEW g \in Files, NEW i \in Entries, NEW j \in Entries
        PROVE  Ptr(g, <<indir_2, i, j>>)' = Ptr(g, <<indir_2, i, j>>)
    <3>. DEFINE p2 == <<indir_2, i, Nil>>
                b == Ptr(g, p2)
    <3>1. indir_2 \in Slots /\ p2 \in Paths /\ b \in Blocks /\ b # t
      BY PathKinds, <1>2, <2>5 DEF Paths
    <3>2. Ptr(g, <<indir_2, i, j>>) = IF b = 0 THEN 0 ELSE blk[b][j]
      BY PtrOf3
    <3>3. Ptr(g, <<indir_2, i, j>>)' = IF b' = 0 THEN 0 ELSE blk'[b'][j]
      BY PtrOf3
    <3>4. b' = IF g = f /\ p2 = At THEN new ELSE b
      BY <2>7
    <3>5. g = f /\ p2 = At => b = 0
      BY <1>1
    <3>. QED  BY <3>1, <3>2, <3>3, <3>4, <3>5, <2>4, <2>2, <1>0, <1>3
  <2>. QED  BY <2>1, <2>6, <2>7, <2>8, PathForms, PathKinds
<1>7. CASE At[2] # Nil /\ At[3] # Nil
  <2>1. PICK i0 \in Entries, j0 \in Entries : At = <<indir_2, i0, j0>>
    BY <1>1, <1>7, PathKinds DEF Leaves, Inner
  <2>. DEFINE r == <<indir_2, i0, Nil>>
              t == Ptr(f, r)
  <2>2. indir_2 \in Slots /\ r \in Paths /\ t # 0 /\ t \in Blocks
    <3>1. indir_2 \in Slots /\ r \in Paths
      BY PathKinds DEF Paths
    <3>2. t # 0
      BY <2>1, <3>1, <1>0, AtIsPath
    <3>. QED  BY <3>1, <3>2, <1>1, <1>2
  <2>3. /\ blk' = [blk EXCEPT ![t][j0] = new]
        /\ inode_region' = inode_region
    BY <1>1, <1>7, <2>1 DEF WriteLink, Ptr
  <2>4. \A b \in Blocks, i \in Entries :
          blk'[b][i] = IF b = t /\ i = j0 THEN new ELSE blk[b][i]
    <3>. HIDE DEF t
    <3>. QED  BY <1>4, <2>2, <2>3
  <2>5. \A g \in Files, q \in Paths : Ptr(g, q) = t => g = f /\ q = r
    BY <2>2, <1>0, <1>1 DEF SoleOwner, Ptr
  <2>6. \A g \in Files, u \in Slots :
          Ptr(g, <<u, Nil, Nil>>)' = Ptr(g, <<u, Nil, Nil>>)
    BY <2>3, PtrOf
  <2>7. ASSUME NEW g \in Files, NEW u \in {indir_1, indir_2}, NEW i \in Entries
        PROVE  Ptr(g, <<u, i, Nil>>)' = Ptr(g, <<u, i, Nil>>)
    <3>. DEFINE a == inode_region[g].ptr[u]
    <3>1. u \in Slots /\ <<u, Nil, Nil>> \in Paths /\ a = Ptr(g, <<u, Nil, Nil>>)
      BY PathKinds, PtrOf DEF Paths
    <3>2. a \in Blocks /\ a # t
      BY <3>1, <2>5, <1>2, PathKinds
    <3>3. Ptr(g, <<u, i, Nil>>) = IF a = 0 THEN 0 ELSE blk[a][i]
      BY <3>1, PtrOf2
    <3>4. Ptr(g, <<u, i, Nil>>)' = IF a = 0 THEN 0 ELSE blk'[a][i]
      BY <3>1, <2>3, PtrOf2
    <3>. QED  BY <3>2, <3>3, <3>4, <2>4
  <2>8. ASSUME NEW g \in Files, NEW i \in Entries, NEW j \in Entries
        PROVE  Ptr(g, <<indir_2, i, j>>)' =
                  IF g = f /\ <<indir_2, i, j>> = At THEN new
                  ELSE Ptr(g, <<indir_2, i, j>>)
    <3>. DEFINE p2 == <<indir_2, i, Nil>>
                b == Ptr(g, p2)
    <3>1. indir_2 \in Slots /\ p2 \in Paths /\ b \in Blocks
          /\ (b = t => g = f /\ i = i0)
      BY PathKinds, <1>2, <2>5 DEF Paths
    <3>2. Ptr(g, <<indir_2, i, j>>) = IF b = 0 THEN 0 ELSE blk[b][j]
      BY PtrOf3
    <3>3. Ptr(g, <<indir_2, i, j>>)' = IF b' = 0 THEN 0 ELSE blk'[b'][j]
      BY PtrOf3
    <3>4. b' = b
      BY <2>7
    <3>. HIDE DEF b, t
    <3>. QED  BY <3>1, <3>2, <3>3, <3>4, <2>1, <2>2, <2>4 DEF b, t
  <2>. QED  BY <2>1, <2>6, <2>7, <2>8, PathForms, PathKinds
<1>. QED  BY <1>5, <1>6, <1>7
-----------------------------------------------------------------------------
(***************************************************************************)
(* Type correctness.                                                       *)
(***************************************************************************)
\* What the handlers put in place of what they clear is well-formed.
LEMMA EmptyIsTyped ==
    /\ ZeroBlock \in [Entries -> Nat]
    /\ EmptyInode \in Inode
    /\ 0 \in Blocks
BY GeometryAssumption DEF ZeroBlock, Entries, EmptyInode, Inode, Blocks

\* A fresh image is well-formed.
LEMMA TypeInit == Init => TypeOK
BY EmptyIsTyped, GeometryAssumption DEF Init, TypeOK, NoCall, Blocks

\* update_inode puts well-formed inodes into the image.
LEMMA UpdateIsTyped ==
    ASSUME TypeOK, inode_region' \in [Files -> Inode],
           NEW f \in Files, update_inode(f)
    PROVE  disk_inode_region' \in [Files -> Inode]
BY DEF TypeOK, update_inode

\* Every step of every handler keeps the state well-formed.
LEMMA TypeStep == TypeOK /\ [Next]_vars => TypeOK'
<1>. SUFFICES ASSUME TypeOK, [Next]_vars PROVE TypeOK'
  OBVIOUS
<1>. USE DEF mem, image
<1>1. ASSUME NEW f \in Files, NEW off \in 0 .. MaxSize, NEW len \in 1 .. MaxLen,
             NEW val \in Vals, Write(f, off, len, val)
      PROVE  TypeOK'
  <2>1. call' \in [file : Files \cup {0}, start : Nat, off : Nat, len : Nat,
                   val : Vals \cup {0}] /\ call'.file \in Files
    BY <1>1, Ranges, GeometryAssumption DEF Write
  <2>. QED  BY <1>1, <2>1 DEF Write, TypeOK
<1>2. ASSUME NEW f \in Files, Truncate(f)
      PROVE  TypeOK'
  BY <1>2 DEF Truncate, TypeOK, NoCall
<1>3. CASE Getattr
  BY <1>3 DEF Getattr, fs_init, TypeOK
<1>4. CASE WriteFindBlock
  BY <1>4, EmptyIsTyped DEF WriteFindBlock, TypeOK
<1>5. CASE WriteLink
  <2>1. call.file \in Files /\ new \in Nat /\ new \in Blocks
    BY <1>5 DEF WriteLink, TypeOK, Blocks
  <2>2. CASE At[2] = Nil
    <3>1. inode_region' = [inode_region EXCEPT ![call.file].ptr[At[1]] = new]
          /\ update_inode(call.file) /\ blk' = blk
      BY <1>5, <2>2 DEF WriteLink
    <3>2. inode_region' \in [Files -> Inode]
      BY <3>1, <2>1 DEF TypeOK, Inode
    <3>. QED  BY <1>5, <2>1, <3>1, <3>2, UpdateIsTyped DEF WriteLink, TypeOK
  <2>3. CASE At[2] # Nil
    <3>1. PICK t, i : blk' = [blk EXCEPT ![t][i] = new]
      BY <1>5, <2>3 DEF WriteLink
    <3>2. blk' \in [Blocks -> [Entries -> Nat]]
      BY <3>1, <2>1 DEF TypeOK
    <3>. QED  BY <1>5, <2>3, <3>2 DEF WriteLink, TypeOK
  <2>. QED  BY <2>2, <2>3
<1>6. CASE WriteMark
  BY <1>6, EmptyIsTyped DEF WriteMark, update_bitmap, TypeOK
<1>7. CASE WriteData
  <2>. DEFINE room == BLOCK_SIZE - (call.off % BLOCK_SIZE)
              n == IF call.len > room THEN room ELSE call.len
  <2>1. n \in Nat /\ n <= call.len
    <3>1. call.off \in Nat /\ call.len \in Nat
      BY DEF TypeOK
    <3>2. call.off % BLOCK_SIZE \in 0 .. BLOCK_SIZE - 1 /\ BLOCK_SIZE \in Nat
      BY <3>1, GeometryAssumption DEF BLOCK_SIZE
    <3>. QED  BY <3>1, <3>2
  <2>2. call' = [call EXCEPT !.off = @ + n, !.len = @ - n]
    BY <1>7 DEF WriteData
  <2>3. call' \in [file : Files \cup {0}, start : Nat, off : Nat, len : Nat,
                   val : Vals \cup {0}] /\ call'.file = call.file
    <3>. HIDE DEF n
    <3>1. call \in [file : Files \cup {0}, start : Nat, off : Nat, len : Nat,
                   val : Vals \cup {0}]
      BY DEF TypeOK
    <3>2. call.off + n \in Nat /\ call.len - n \in Nat
      BY <2>1, <3>1
    <3>. QED  BY <2>2, <3>1, <3>2
  <2>4. blk' \in [Blocks -> [Entries -> Nat]]
    <3>1. call.val \in Nat
      <4>1. call.val \in Vals \cup {0}
        BY DEF TypeOK
      <4>2. \A v \in Vals : v \in Nat
        BY GeometryAssumption
      <4>. QED  BY <4>1, <4>2
    <3>. QED  BY <1>7, <3>1 DEF WriteData, TypeOK
  <2>. QED  BY <1>7, <2>3, <2>4 DEF WriteData, TypeOK
<1>8. CASE WriteEnd
  <2>1. call.file \in Files /\ call.off \in Nat
    BY <1>8 DEF WriteEnd, TypeOK
  <2>2. inode_region' \in [Files -> Inode] /\ disk_inode_region' \in [Files -> Inode]
    <3>1. CASE call.off > inode.size
      <4>1. inode_region' = [inode_region EXCEPT ![call.file].size = call.off]
            /\ update_inode(call.file)
        BY <1>8, <3>1 DEF WriteEnd
      <4>2. inode_region' \in [Files -> Inode]
        BY <2>1, <4>1 DEF TypeOK, Inode
      <4>. QED  BY <2>1, <4>1, <4>2, UpdateIsTyped
    <3>2. CASE ~(call.off > inode.size)
      BY <1>8, <3>2 DEF WriteEnd, TypeOK
    <3>. QED  BY <3>1, <3>2
  <2>. QED  BY <1>8, <2>2 DEF WriteEnd, Return, NoCall, TypeOK
<1>9. CASE WriteNoRoot
  BY <1>9 DEF WriteNoRoot, Return, NoCall, TypeOK
<1>10. CASE TruncateDirect
  <2>1. call.file \in Files /\ 0 \in Blocks
    BY <1>10, EmptyIsTyped DEF TruncateDirect, TypeOK
  <2>2. inode_region' = [inode_region EXCEPT ![call.file].ptr[k] = 0]
    BY <1>10 DEF TruncateDirect
  <2>3. inode_region' \in [Files -> Inode]
    BY <2>1, <2>2 DEF TypeOK, Inode
  <2>. QED  BY <1>10, <2>3 DEF TruncateDirect, Free, update_bitmap, TypeOK
<1>11. CASE TruncateIndir1
  BY <1>11 DEF TruncateIndir1, Free, update_bitmap, TypeOK
<1>12. CASE TruncateIndir2Table
  BY <1>12 DEF TruncateIndir2Table, Free, update_bitmap, TypeOK
<1>13. CASE TruncateIndir2
  BY <1>13 DEF TruncateIndir2, Free, update_bitmap, TypeOK
<1>14. CASE TruncateEnd
  <2>1. call.file \in Files /\ 0 \in Blocks
    BY <1>14, EmptyIsTyped DEF TruncateEnd, TypeOK
  <2>2. inode_region' \in [Files -> Inode] /\ update_inode(call.file)
    <3>1. inode \in Inode
      BY <2>1 DEF TypeOK, inode
    <3>2. [inode.ptr EXCEPT ![indir_1] = 0, ![indir_2] = 0] \in [Slots -> Blocks]
      BY <2>1, <3>1 DEF Inode
    <3>3. [size |-> 0, ptr |-> [inode.ptr EXCEPT ![indir_1] = 0, ![indir_2] = 0]]
             \in Inode
      BY <3>2 DEF Inode
    <3>. QED  BY <1>14, <2>1, <3>3 DEF TruncateEnd, TypeOK
  <2>. QED  BY <1>14, <2>1, <2>2, UpdateIsTyped DEF TruncateEnd, Return, NoCall, TypeOK
<1>15. CASE UNCHANGED vars
  BY <1>15 DEF vars, TypeOK
<1>. QED
  BY <1>1, <1>2, <1>3, <1>4, <1>5, <1>6, <1>7, <1>8, <1>9, <1>10, <1>11, <1>12,
     <1>13, <1>14, <1>15 DEF Next, WriteStep, TruncateStep

\* The state of the handlers is well-formed in every reachable state, however
\* many files, blocks and pointers there are.
THEOREM TypeCorrect == Spec => []TypeOK
BY TypeInit, TypeStep, PTL DEF Spec
-----------------------------------------------------------------------------
(***************************************************************************)
(* The tree of a file, step by step.                                       *)
(***************************************************************************)
\* A step that writes no block and no pointer leaves the trees as they are.
LEMMA SamePointers ==
    ASSUME blk' = blk, \A f \in Files : inode_region'[f].ptr = inode_region[f].ptr
    PROVE  \A f \in Files, p \in Paths : Ptr(f, p)' = Ptr(f, p)
BY DEF Ptr, Deref

\* The same pointers have the same owners.
LEMMA SameOwners ==
    ASSUME SoleOwner, \A f \in Files, p \in Paths : Ptr(f, p)' = Ptr(f, p)
    PROVE  SoleOwner'
BY DEF SoleOwner, Ptr

\* The same tree is walked the same way.
LEMMA SameHop ==
    ASSUME NEW f \in Files, NEW p \in Leaves, inode_region'[f] = inode_region[f],
           \A q \in Paths : Ptr(f, q)' = Ptr(f, q)
    PROVE  Hop(inode_region[f], p)' = Hop(inode_region[f], p)
<1>1. <<p[1], Nil, Nil>> \in Paths /\ <<p[1], p[2], Nil>> \in Paths
  BY PathKinds DEF Leaves, Paths, Slots
<1>2. /\ Deref(inode_region[f], <<p[1], Nil, Nil>>)' = Deref(inode_region[f], <<p[1], Nil, Nil>>)
      /\ Deref(inode_region[f], <<p[1], p[2], Nil>>)' = Deref(inode_region[f], <<p[1], p[2], Nil>>)
  BY <1>1 DEF Ptr
<1>. QED  BY <1>2 DEF Hop

\* The blocks that truncate_2nd_level frees are pointers of the file: the
\* table at path <<s, Nil, Nil>> (indir_1) and what it leads to.
LEMMA FreedBelowIndir1 ==
    ASSUME TypeOK, NEW f \in Files, inode_region[f].ptr[indir_1] # 0,
           NEW b \in truncate_2nd_level(inode_region[f].ptr[indir_1])
    PROVE  \E q \in Paths : b = Ptr(f, q) /\ b # 0 /\ q[1] = indir_1
<1>. DEFINE t == inode_region[f].ptr[indir_1]
<1>1. CASE b = t
  <2>1. <<indir_1, Nil, Nil>> \in Paths /\ indir_1 \in Slots
    BY PathKinds DEF Paths
  <2>. QED  BY <1>1, <2>1, PtrOf
<1>2. CASE b # t
  <2>1. PICK i \in Entries : b = blk[t][i] /\ \A j \in 0 .. i : blk[t][j] # 0
    BY <1>2 DEF truncate_2nd_level
  <2>2. b # 0
    BY <2>1, GeometryAssumption DEF Entries
  <2>3. <<indir_1, i, Nil>> \in Paths /\ indir_1 \in Slots
    BY PathKinds DEF Paths
  <2>. QED  BY <2>1, <2>2, <2>3, PtrOf2
<1>. QED  BY <1>1, <1>2

\* The same for a table of indir_2.
LEMMA FreedBelowIndir2 ==
    ASSUME TypeOK, NEW f \in Files, inode_region[f].ptr[indir_2] # 0,
           NEW e \in Entries, blk[inode_region[f].ptr[indir_2]][e] # 0,
           NEW b \in truncate_2nd_level(blk[inode_region[f].ptr[indir_2]][e])
    PROVE  \E q \in Paths : b = Ptr(f, q) /\ b # 0 /\ q[1] = indir_2
<1>. DEFINE t == blk[inode_region[f].ptr[indir_2]][e]
            r == <<indir_2, e, Nil>>
<1>0. r \in Paths /\ t = Ptr(f, r) /\ r[1] = indir_2
  BY PathKinds, PtrOf2 DEF Paths
<1>1. CASE b = t
  BY <1>0, <1>1
<1>2. CASE b # t
  <2>1. PICK i \in Entries : b = blk[t][i] /\ \A j \in 0 .. i : blk[t][j] # 0
    BY <1>2 DEF truncate_2nd_level
  <2>2. b # 0
    <3>. HIDE DEF t
    <3>1. i \in 0 .. i
      BY GeometryAssumption DEF Entries
    <3>. QED  BY <2>1, <3>1
  <2>3. <<indir_2, e, i>> \in Paths
    BY DEF Paths
  <2>4. b = Ptr(f, <<indir_2, e, i>>)
    BY <1>0, <2>1, PtrOf3
  <2>. QED  BY <2>2, <2>3, <2>4
<1>. QED  BY <1>1, <1>2

\* Freeing pointers of one file under the slots ss leaves every other pointer
\* marked, and the layout's own blocks.
LEMMA FreeOnlyOwn ==
    ASSUME TypeOK, SoleOwner, HeldIsMarked, ReservedMarked,
           NEW f \in Files, NEW ss, NEW bs, Free(bs),
           \A b \in bs : \E q \in Paths : b = Ptr(f, q) /\ b # 0 /\ q[1] \in ss
    PROVE  /\ ReservedMarked'
           /\ disk_block_map' = block_map'
           /\ \A g \in Files, q \in Paths :
                Ptr(g, q) \in block_map /\ ~(g = f /\ q[1] \in ss)
                    => Ptr(g, q) = 0 \/ Ptr(g, q) \in block_map'
<1>1. block_map' = block_map \ bs /\ disk_block_map' = block_map'
  BY DEF Free, update_bitmap
<1>2. \A b \in bs : b \notin 0 .. FirstData - 1
  BY PtrIsBlock, GeometryAssumption DEF Blocks
<1>3. ASSUME NEW g \in Files, NEW q \in Paths, Ptr(g, q) \in bs, Ptr(g, q) # 0
      PROVE  g = f /\ q[1] \in ss
  BY <1>3 DEF SoleOwner, Ptr
<1>. QED  BY <1>1, <1>2, <1>3 DEF ReservedMarked
-----------------------------------------------------------------------------
(***************************************************************************)
(* The inductive invariant, one lemma per action.                          *)
(***************************************************************************)
Rest == /\ SoleOwner /\ HeldIsMarked /\ ReservedMarked
        /\ FoundIsFresh /\ RootsSet /\ ImageFollows

\* The invariant holds of a fresh image.
LEMMA InitIInv == Init => IInv
<1>. SUFFICES ASSUME Init PROVE IInv
  OBVIOUS
<1>1. TypeOK
  BY TypeInit
<1>2. \A f \in Files, p \in Paths : Deref(inode_region[f], p) = 0
  <2>1. \A f \in Files, s \in Slots : inode_region[f].ptr[s] = 0
    BY DEF Init, EmptyInode
  <2>2. \A p \in Paths : p[1] \in Slots
    BY PathKinds DEF Paths
  <2>. QED  BY <2>1, <2>2 DEF Deref
<1>3. SoleOwner /\ HeldIsMarked
  BY <1>2 DEF SoleOwner, HeldIsMarked
<1>4. ReservedMarked /\ FoundIsFresh /\ ImageFollows
  BY DEF Init, ReservedMarked, FoundIsFresh, ImageFollows
<1>5. RootsSet
  <2>1. \A f \in Files : inode_region[f].size = 0
    BY DEF Init, EmptyInode
  <2>. QED  BY <2>1, Ranges DEF Init, RootsSet
<1>. QED  BY <1>1, <1>3, <1>4, <1>5 DEF IInv

\* fs_write is called: the offset is not beyond the file, so the roots below it
\* are set.
LEMMA WriteKeeps ==
    ASSUME IInv, NEW f \in Files, NEW off \in Nat, NEW len, NEW val,
           Write(f, off, len, val)
    PROVE  Rest'
<1>1. /\ pc = "idle" /\ pc' = "write" /\ off <= inode_region[f].size
      /\ call'.file = f /\ call'.off = off
      /\ inode_region' = inode_region /\ blk' = blk /\ block_map' = block_map
      /\ disk_inode_region' = disk_inode_region /\ disk_block_map' = disk_block_map
  BY DEF Write, mem, image
<1>2. \A g \in Files, p \in Paths : Ptr(g, p)' = Ptr(g, p)
  BY <1>1, SamePointers
<1>3. SoleOwner' /\ HeldIsMarked'
  BY <1>1, <1>2, SameOwners DEF IInv, HeldIsMarked, Freeing, Ptr
<1>4. RootsSet'
  <2>1. inode_region[f].size \in Nat
    BY DEF IInv, TypeOK, Inode
  <2>. QED  BY <1>1, <2>1, Ranges DEF IInv, RootsSet, inode
<1>. QED  BY <1>1, <1>3, <1>4
          DEF IInv, Rest, ReservedMarked, FoundIsFresh, ImageFollows

\* The block that is found is in no tree, so that clearing it changes none.
LEMMA FoundIsOutside ==
    ASSUME IInv, WriteFindBlock
    PROVE  /\ new' \in FirstData .. NumBlocks - 1 /\ new' \notin block_map
           /\ blk' = [blk EXCEPT ![new'] = ZeroBlock]
           /\ \A g \in Files, p \in Paths : Ptr(g, p) # new' /\ Ptr(g, p)' = Ptr(g, p)
<1>1. PICK b \in Blocks :
        /\ b \notin block_map /\ blk' = [blk EXCEPT ![b] = ZeroBlock] /\ new' = b
  BY DEF WriteFindBlock, find_free_block_number
<1>2. pc = "write" /\ inode_region' = inode_region
  BY DEF WriteFindBlock, mem
<1>3. b \in FirstData .. NumBlocks - 1 /\ b # 0
  BY <1>1, GeometryAssumption DEF IInv, ReservedMarked, Blocks
<1>4. \A g \in Files, p \in Paths : Ptr(g, p) # b
  BY <1>1, <1>2, <1>3 DEF IInv, HeldIsMarked, Freeing, Ptr
<1>5. \A g \in Files, p \in Paths : Ptr(g, p)' = Ptr(g, p)
  BY <1>1, <1>2, <1>3, <1>4, WriteOutsideTree, PathKinds DEF IInv
<1>. QED  BY <1>1, <1>3, <1>4, <1>5

\* The block that was found is free, cleared, and has a place to go.
LEMMA WriteFindBlockKeeps ==
    ASSUME IInv, WriteFindBlock
    PROVE  Rest'
<1>1. /\ pc = "write" /\ pc' = "link" /\ NeedsBlock
      /\ inode_region' = inode_region /\ block_map' = block_map
      /\ disk_inode_region' = disk_inode_region /\ disk_block_map' = disk_block_map
      /\ call' = call
  BY DEF WriteFindBlock, mem
<1>2. /\ new' \in FirstData .. NumBlocks - 1 /\ new' \notin block_map
      /\ blk' = [blk EXCEPT ![new'] = ZeroBlock] /\ new' \in Blocks
  BY FoundIsOutside, GeometryAssumption DEF Blocks
<1>3. \A g \in Files, p \in Paths : Ptr(g, p)' = Ptr(g, p)
  BY FoundIsOutside
<1>4. SoleOwner' /\ HeldIsMarked'
  BY <1>1, <1>3, SameOwners DEF IInv, HeldIsMarked, Freeing, Ptr
<1>5. NeedsBlock'
  <2>1. call.file \in Files /\ call.off \in Nat /\ call.off < MaxSize
    BY <1>1 DEF IInv, TypeOK, NeedsBlock
  <2>2. At' = At
    BY <1>1, <1>3, <2>1, PathOfIsLeaf, SameHop DEF At, inode
  <2>3. Deref(inode, At)' = Deref(inode, At)
    BY <1>1, <1>3, <2>1, <2>2, AtIsPath DEF IInv, inode, Ptr
  <2>. QED  BY <1>1, <2>2, <2>3 DEF NeedsBlock, AtRoot
<1>6. FoundIsFresh'
  BY <1>1, <1>2, <1>5 DEF FoundIsFresh, IInv, TypeOK
<1>. QED  BY <1>1, <1>4, <1>6 DEF IInv, Rest, ReservedMarked, RootsSet, ImageFollows, inode

\* One pointer is set, to a block that nothing else holds.
LEMMA WriteLinkKeeps ==
    ASSUME IInv, WriteLink
    PROVE  Rest'
<1>. DEFINE f == call.file
<1>1. /\ pc = "link" /\ pc' = "mark" /\ block_map' = block_map
      /\ disk_block_map' = disk_block_map /\ call' = call /\ new' = new
  BY DEF WriteLink
<1>2. \A g \in Files, q \in Paths :
        Ptr(g, q)' = IF g = f /\ q = At THEN new ELSE Ptr(g, q)
  BY LinkSetsOne
<1>3. new \in FirstData .. NumBlocks - 1 /\ new # 0 /\ new \notin block_map
  BY <1>1, GeometryAssumption DEF IInv, FoundIsFresh
<1>4. \A g \in Files, q \in Paths : Ptr(g, q) # new
  BY <1>1, <1>3 DEF IInv, HeldIsMarked, Freeing, Ptr
<1>5. f \in Files /\ At \in Paths /\ At \in Leaves \cup Inner
  BY <1>1, AtIsPath DEF IInv, FoundIsFresh, NeedsBlock
<1>6. SoleOwner'
  <2>1. SUFFICES ASSUME NEW g \in Files, NEW p \in Paths, NEW h \in Files,
                        NEW q \in Paths, Ptr(g, p)' # 0, Ptr(h, q)' = Ptr(g, p)'
                 PROVE  h = g /\ q = p
    BY DEF SoleOwner, Ptr
  <2>2. Ptr(g, p) # 0 /\ Ptr(h, q) = Ptr(g, p) => h = g /\ q = p
    BY DEF IInv, SoleOwner, Ptr
  <2>. QED  BY <2>1, <2>2, <1>2, <1>4
<1>7. HeldIsMarked'
  <2>1. \A g \in Files, q \in Paths : Ptr(g, q) # 0 =>
          Ptr(g, q) \in FirstData .. NumBlocks - 1 /\ Ptr(g, q) \in block_map
    BY <1>1 DEF IInv, HeldIsMarked, Freeing, Ptr
  <2>. QED  BY <2>1, <1>1, <1>2, <1>3 DEF HeldIsMarked, Ptr
<1>8. FoundIsFresh'
  BY <1>1, <1>3 DEF FoundIsFresh
<1>9. RootsSet' /\ ImageFollows'
  <2>1. CASE At[2] = Nil
    <3>1. PICK s \in Slots : At = <<s, Nil, Nil>>
      BY <1>5, <2>1, PathKinds DEF Leaves, Inner, Slots, indir_1, indir_2
    <3>2. inode_region' = [inode_region EXCEPT ![f].ptr[s] = new] /\ update_inode(f)
      BY <2>1, <3>1 DEF WriteLink
    <3>3. inode_region \in [Files -> Inode]
      BY DEF IInv, TypeOK
    <3>4. \A g \in Files : /\ inode_region'[g].size = inode_region[g].size
                           /\ \A r \in Slots : inode_region'[g].ptr[r] =
                                IF g = f /\ r = s THEN new ELSE inode_region[g].ptr[r]
                           /\ g # f => inode_region'[g] = inode_region[g]
      BY <1>5, <3>2, <3>3 DEF Inode
    <3>5. RootsSet'
      BY <1>1, <1>3, <1>5, <3>4, PathKinds DEF IInv, RootsSet, inode
    <3>6. ImageFollows'
      BY <1>1, <3>2, <3>4 DEF IInv, ImageFollows, update_inode
    <3>. QED  BY <3>5, <3>6
  <2>2. CASE At[2] # Nil
    <3>1. inode_region' = inode_region /\ disk_inode_region' = disk_inode_region
      BY <2>2 DEF WriteLink
    <3>. QED  BY <1>1, <3>1 DEF IInv, RootsSet, ImageFollows, inode
  <2>. QED  BY <2>1, <2>2
<1>. QED  BY <1>1, <1>6, <1>7, <1>8, <1>9 DEF IInv, Rest, ReservedMarked

\* The linked block is marked.
LEMMA WriteMarkKeeps ==
    ASSUME IInv, WriteMark
    PROVE  Rest'
<1>1. /\ pc = "mark" /\ pc' = "write" /\ block_map' = block_map \cup {new}
      /\ disk_block_map' = block_map' /\ call' = call
      /\ inode_region' = inode_region /\ disk_inode_region' = disk_inode_region
      /\ blk' = blk
  BY DEF WriteMark, update_bitmap
<1>2. \A g \in Files, p \in Paths : Ptr(g, p)' = Ptr(g, p)
  BY <1>1, SamePointers
<1>3. SoleOwner' /\ HeldIsMarked'
  BY <1>1, <1>2, SameOwners DEF IInv, HeldIsMarked, Freeing, Ptr
<1>. QED  BY <1>1, <1>3
          DEF IInv, Rest, ReservedMarked, FoundIsFresh, RootsSet, ImageFollows, inode

\* The end of a block that begins below a multiple of the block size is not
\* beyond it.
LEMMA BlockEnd ==
    ASSUME NEW n \in Nat, NEW m \in Nat \ {0}, NEW a \in Nat, a < n * m
    PROVE  a + (m - (a % m)) <= n * m
<1>1. a \div m \in 0 .. n - 1
  BY DivBelow
<1>. DEFINE q == a \div m
<1>2. a = m * q + (a % m) /\ q \in Nat /\ q + 1 <= n
  BY <1>1
<1>3. m * (q + 1) <= m * n
  <2>. HIDE DEF q
  <2>. QED  BY <1>2
<1>. HIDE DEF q
<1>4. a + (m - (a % m)) = m * (q + 1)
  <2>1. a % m \in Int
    OBVIOUS
  <2>. QED  BY <1>2, <2>1
<1>. QED  BY <1>3, <1>4

\* Data goes to a data block, which is no indirect block of any file.
LEMMA DataGoesToALeaf ==
    ASSUME IInv, WriteData
    PROVE  /\ call.file \in Files /\ At \in Leaves /\ At \in Paths
           /\ Deref(inode, At) = Ptr(call.file, At)
           /\ Deref(inode, At) \in Blocks \ {0}
           /\ \A b \in Blocks \ {Deref(inode, At)} : blk'[b] = blk[b]
           /\ \A g \in Files, p \in Paths : Ptr(g, p)' = Ptr(g, p)
<1>. DEFINE f == call.file
            d == Deref(inode, At)
<1>1. pc = "write" /\ call.off < MaxSize /\ inode_region' = inode_region /\ d # 0
  BY DEF WriteData, mem
<1>2. f \in Files
  BY <1>1 DEF IInv, TypeOK
<1>3. At \in Leaves /\ At \in Paths /\ d = Ptr(f, At) /\ d \in Blocks
  BY <1>1, AtIsPath, PtrIsBlock DEF IInv
<1>4. \A g \in Files, p \in Inner : Ptr(g, p) # d
  <2>1. At \notin Inner
    BY <1>3, PathKinds DEF Leaves, Inner
  <2>. QED  BY <1>1, <1>2, <1>3, <2>1, PathKinds DEF IInv, SoleOwner, Ptr
<1>5. \A b \in Blocks \ {d} : blk'[b] = blk[b]
  <2>1. \E w : blk' = [blk EXCEPT ![d] = w]
    BY DEF WriteData
  <2>. HIDE DEF d
  <2>. QED  BY <2>1 DEF IInv, TypeOK
<1>6. \A g \in Files, p \in Paths : Ptr(g, p)' = Ptr(g, p)
  <2>. HIDE DEF d
  <2>. QED  BY <1>1, <1>3, <1>4, <1>5, WriteOutsideTree DEF IInv
<1>. QED  BY <1>1, <1>2, <1>3, <1>5, <1>6

\* The offset of a write does not leave the level it is in.
LEMMA WriteDataKeeps ==
    ASSUME IInv, WriteData
    PROVE  Rest'
<1>. DEFINE f == call.file
            d == Deref(inode, At)
            room == BLOCK_SIZE - (call.off % BLOCK_SIZE)
            n == IF call.len > room THEN room ELSE call.len
<1>1. /\ pc = "write" /\ pc' = "write" /\ block_map' = block_map
      /\ disk_block_map' = disk_block_map /\ call.off < MaxSize
      /\ inode_region' = inode_region /\ disk_inode_region' = disk_inode_region
      /\ d # 0
      /\ call' = [call EXCEPT !.off = @ + n, !.len = @ - n]
  BY DEF WriteData, mem
<1>2. f \in Files /\ call.off \in Nat /\ call.len \in Nat
      /\ call'.file = f /\ call'.off = call.off + n
  <2>1. call \in [file : Files \cup {0}, start : Nat, off : Nat, len : Nat,
                 val : Vals \cup {0}] /\ f \in Files
    BY <1>1 DEF IInv, TypeOK
  <2>. HIDE DEF n
  <2>. QED  BY <1>1, <2>1
<1>3. At \in Leaves
  BY DataGoesToALeaf
<1>6. \A g \in Files, p \in Paths : Ptr(g, p)' = Ptr(g, p)
  BY DataGoesToALeaf
<1>7. SoleOwner' /\ HeldIsMarked'
  BY <1>1, <1>6, SameOwners DEF IInv, HeldIsMarked, Freeing, Ptr
<1>8. RootsSet'
  <2>0. call'.off <= call.off + room /\ room \in Int /\ call'.off \in Int
    <3>1. room \in Int /\ n <= room /\ n \in Int
      BY <1>2, GeometryAssumption DEF BLOCK_SIZE
    <3>. HIDE DEF n, room
    <3>. QED  BY <1>2, <3>1
  <2>1. call.off < file_in_inode_sz => call'.off <= file_in_inode_sz
    <3>1. call.off < N_DIRECT * PTRS =>
            call.off + (PTRS - (call.off % PTRS)) <= N_DIRECT * PTRS
      BY <1>2, BlockEnd, GeometryAssumption
    <3>. QED  BY <1>2, <2>0, <3>1, Ranges DEF file_in_inode_sz, BLOCK_SIZE
  <2>2. call.off < Level2 => call'.off <= Level2
    <3>1. Level2 = (N_DIRECT + PTRS) * PTRS /\ N_DIRECT + PTRS \in Nat
      BY GeometryAssumption DEF Level2, file_in_inode_sz, file_1st_level_sz, BLOCK_SIZE
    <3>2. call.off < (N_DIRECT + PTRS) * PTRS =>
            call.off + (PTRS - (call.off % PTRS)) <= (N_DIRECT + PTRS) * PTRS
      BY <1>2, <3>1, BlockEnd, GeometryAssumption
    <3>. QED  BY <1>2, <2>0, <3>1, <3>2, Ranges DEF BLOCK_SIZE
  <2>3. call'.off > file_in_inode_sz => inode.ptr[indir_1] # 0
    <3>. SUFFICES ASSUME call'.off > file_in_inode_sz, inode.ptr[indir_1] = 0
                  PROVE  FALSE
      OBVIOUS
    <3>1. ~(call.off < file_in_inode_sz) /\ ~(call.off > file_in_inode_sz)
      BY <1>1, <1>2, <2>0, <2>1, Ranges DEF IInv, RootsSet
    <3>2. PathOf(call.off)[1] = indir_1 /\ PathOf(call.off)[2] # Nil
      <4>1. PathOf(call.off) \in Leaves
        BY <1>1, <1>2, PathOfIsLeaf
      <4>2. call.off < Level2
        BY <1>2, <3>1, Ranges
      <4>3. PathOf(call.off)[1] = indir_1
        BY <3>1, <4>2 DEF PathOf
      <4>. QED  BY <4>1, <4>3, PathKinds DEF Leaves
    <3>3. At = <<indir_1, Nil, Nil>>
      <4>1. Deref(inode, <<indir_1, Nil, Nil>>) = 0
        BY DEF Deref
      <4>. QED  BY <3>2, <4>1 DEF At, Hop
    <3>. QED  BY <3>3, <1>3, PathKinds DEF Leaves
  <2>4. call'.off > Level2 => inode.ptr[indir_2] # 0
    <3>. SUFFICES ASSUME call'.off > Level2, inode.ptr[indir_2] = 0
                  PROVE  FALSE
      OBVIOUS
    <3>1. ~(call.off < Level2) /\ ~(call.off < file_in_inode_sz)
      BY <1>2, <2>0, <2>2, Ranges
    <3>2. PathOf(call.off)[1] = indir_2 /\ PathOf(call.off)[2] # Nil
      <4>1. PathOf(call.off) \in Leaves
        BY <1>1, <1>2, PathOfIsLeaf
      <4>2. PathOf(call.off)[1] = indir_2
        BY <3>1 DEF PathOf
      <4>. QED  BY <4>1, <4>2, PathKinds DEF Leaves
    <3>3. At = <<indir_2, Nil, Nil>>
      <4>1. Deref(inode, <<indir_2, Nil, Nil>>) = 0
        BY DEF Deref
      <4>. QED  BY <3>2, <4>1 DEF At, Hop
    <3>. QED  BY <3>3, <1>3, PathKinds DEF Leaves
  <2>. QED  BY <1>1, <1>2, <2>3, <2>4 DEF IInv, RootsSet, inode
<1>. QED  BY <1>1, <1>2, <1>7, <1>8 DEF IInv, Rest, ReservedMarked, FoundIsFresh, ImageFollows

\* The size grows to an offset whose roots are set.
LEMMA WriteEndKeeps ==
    ASSUME IInv, WriteEnd
    PROVE  Rest'
<1>. DEFINE f == call.file
<1>1. /\ pc = "write" /\ pc' = "idle" /\ block_map' = block_map
      /\ disk_block_map' = disk_block_map /\ blk' = blk
  BY DEF WriteEnd, Return
<1>2. f \in Files /\ call.off \in Nat /\ inode_region \in [Files -> Inode]
  BY <1>1 DEF IInv, TypeOK
<1>3. CASE call.off > inode.size
  <2>1. inode_region' = [inode_region EXCEPT ![f].size = call.off] /\ update_inode(f)
    BY <1>3 DEF WriteEnd
  <2>2. \A g \in Files : /\ inode_region'[g].ptr = inode_region[g].ptr
                         /\ g # f => inode_region'[g] = inode_region[g]
                         /\ g = f => inode_region'[g].size = call.off
    BY <1>2, <2>1 DEF Inode
  <2>3. \A g \in Files, p \in Paths : Ptr(g, p)' = Ptr(g, p)
    BY <1>1, <2>2, SamePointers
  <2>4. SoleOwner' /\ HeldIsMarked'
    BY <1>1, <2>3, SameOwners DEF IInv, HeldIsMarked, Freeing, Ptr
  <2>5. RootsSet'
    BY <1>1, <1>2, <2>2 DEF IInv, RootsSet, inode
  <2>6. ImageFollows'
    BY <1>1, <2>1, <2>2 DEF IInv, ImageFollows, update_inode
  <2>. QED  BY <1>1, <2>4, <2>5, <2>6 DEF IInv, Rest, ReservedMarked, FoundIsFresh
<1>4. CASE ~(call.off > inode.size)
  <2>1. inode_region' = inode_region /\ disk_inode_region' = disk_inode_region
    BY <1>4 DEF WriteEnd
  <2>2. \A g \in Files, p \in Paths : Ptr(g, p)' = Ptr(g, p)
    BY <1>1, <2>1, SamePointers
  <2>3. SoleOwner' /\ HeldIsMarked'
    BY <1>1, <2>2, SameOwners DEF IInv, HeldIsMarked, Freeing, Ptr
  <2>. QED  BY <1>1, <2>1, <2>3
            DEF IInv, Rest, ReservedMarked, FoundIsFresh, RootsSet, ImageFollows
<1>. QED  BY <1>3, <1>4

\* Calls that change nothing but pc, call, new and k, and leave no handler
\* running or begin a truncation.
LEMMA QuietStepKeeps ==
    ASSUME IInv, pc \in {"idle", "write"}, pc' \in {"idle", "direct"},
           inode_region' = inode_region, disk_inode_region' = disk_inode_region,
           block_map' = block_map, disk_block_map' = disk_block_map, blk' = blk
    PROVE  Rest'
<1>1. \A g \in Files, p \in Paths : Ptr(g, p)' = Ptr(g, p)
  BY SamePointers
<1>2. SoleOwner' /\ HeldIsMarked'
  BY <1>1, SameOwners DEF IInv, HeldIsMarked, Freeing, Ptr
<1>. QED  BY <1>2
          DEF IInv, Rest, ReservedMarked, FoundIsFresh, RootsSet, ImageFollows

\* Between calls the image is what memory is.
LEMMA GetattrKeeps ==
    ASSUME IInv, Getattr
    PROVE  Rest'
<1>1. inode_region' = inode_region /\ block_map' = block_map
  <2>1. inode_region' = disk_inode_region /\ block_map' = disk_block_map /\ pc = "idle"
    BY DEF Getattr, fs_init
  <2>2. \A f \in Files : disk_inode_region[f] = inode_region[f]
    BY <2>1 DEF IInv, ImageFollows
  <2>. QED  BY <2>1, <2>2 DEF IInv, TypeOK, ImageFollows
<1>. QED  BY <1>1, QuietStepKeeps DEF Getattr, fs_init, image

\* fs_truncate clears one direct pointer in memory, and no other.
LEMMA DirectCutsOne ==
    ASSUME IInv, TruncateDirect
    PROVE  /\ k \in Slots /\ k # indir_1 /\ k # indir_2 /\ <<k, Nil, Nil>> \in Paths
           /\ call.file \in Files
           /\ \A g \in Files :
                /\ inode_region'[g].size = inode_region[g].size
                /\ g # call.file => inode_region'[g] = inode_region[g]
                /\ \A s \in Slots : inode_region'[g].ptr[s] =
                     IF g = call.file /\ s = k THEN 0 ELSE inode_region[g].ptr[s]
           /\ \A g \in Files, p \in Paths : Ptr(g, p)' =
                IF g = call.file /\ p = <<k, Nil, Nil>> THEN 0 ELSE Ptr(g, p)
<1>. DEFINE f == call.file
            path == <<k, Nil, Nil>>
<1>1. /\ pc = "direct" /\ pc' = "direct" /\ k < N_DIRECT
      /\ inode_region' = [inode_region EXCEPT ![f].ptr[k] = 0]
      /\ blk' = blk
  BY DEF TruncateDirect
<1>2. /\ f \in Files /\ inode_region \in [Files -> Inode] /\ k \in Slots
      /\ k # indir_1 /\ k # indir_2 /\ path \in Paths
  <2>1. f \in Files /\ k \in Nat
    BY <1>1 DEF IInv, TypeOK
  <2>2. k \in Slots /\ k # indir_1 /\ k # indir_2
    BY <1>1, <2>1, GeometryAssumption DEF Slots, indir_1, indir_2
  <2>. QED  BY <2>1, <2>2 DEF IInv, TypeOK, Paths
<1>3. \A g \in Files :
        /\ inode_region'[g].size = inode_region[g].size
        /\ g # f => inode_region'[g] = inode_region[g]
        /\ \A s \in Slots : inode_region'[g].ptr[s] =
             IF g = f /\ s = k THEN 0 ELSE inode_region[g].ptr[s]
  BY <1>1, <1>2 DEF Inode
<1>4. \A g \in Files, p \in Paths :
        Ptr(g, p)' = IF g = f /\ p = path THEN 0 ELSE Ptr(g, p)
  <2>1. \A g \in Files, s \in Slots : Ptr(g, <<s, Nil, Nil>>)' =
          IF g = f /\ s = k THEN 0 ELSE Ptr(g, <<s, Nil, Nil>>)
    BY <1>3, PtrOf
  <2>2. \A g \in Files, s \in {indir_1, indir_2}, i \in Entries :
          Ptr(g, <<s, i, Nil>>)' = Ptr(g, <<s, i, Nil>>)
    BY <1>1, <1>2, <1>3, PtrOf2, PathKinds
  <2>3. ASSUME NEW g \in Files, NEW i \in Entries, NEW j \in Entries
        PROVE  Ptr(g, <<indir_2, i, j>>)' = Ptr(g, <<indir_2, i, j>>)
    <3>1. Ptr(g, <<indir_2, i, Nil>>)' = Ptr(g, <<indir_2, i, Nil>>)
      BY <2>2
    <3>. QED  BY <1>1, <3>1, PtrOf3
  <2>. QED  BY <1>2, <2>1, <2>2, <2>3, PathForms, PathKinds
<1>. QED  BY <1>2, <1>3, <1>4

\* One direct block is cut off and freed.
LEMMA TruncateDirectKeeps ==
    ASSUME IInv, TruncateDirect
    PROVE  Rest'
<1>. DEFINE f == call.file
            d == inode.ptr[k]
            path == <<k, Nil, Nil>>
<1>1. /\ pc = "direct" /\ pc' = "direct" /\ k < N_DIRECT /\ d # 0
      /\ inode_region' = [inode_region EXCEPT ![f].ptr[k] = 0]
      /\ Free({d}) /\ blk' = blk /\ disk_inode_region' = disk_inode_region
      /\ call' = call
  BY DEF TruncateDirect
<1>2. /\ f \in Files /\ inode_region \in [Files -> Inode] /\ k \in Slots
      /\ k # indir_1 /\ k # indir_2 /\ path \in Paths
  BY <1>1, DirectCutsOne DEF IInv, TypeOK
<1>3. \A g \in Files :
        /\ inode_region'[g].size = inode_region[g].size
        /\ g # f => inode_region'[g] = inode_region[g]
        /\ \A s \in Slots : inode_region'[g].ptr[s] =
             IF g = f /\ s = k THEN 0 ELSE inode_region[g].ptr[s]
  BY DirectCutsOne
<1>4. \A g \in Files, p \in Paths :
        Ptr(g, p)' = IF g = f /\ p = path THEN 0 ELSE Ptr(g, p)
  BY DirectCutsOne
<1>5. /\ ReservedMarked' /\ disk_block_map' = block_map'
      /\ \A g \in Files, q \in Paths :
           Ptr(g, q) \in block_map /\ ~(g = f /\ q = path)
              => Ptr(g, q) = 0 \/ Ptr(g, q) \in block_map'
  <2>1. d = Ptr(f, path)
    BY <1>2, PtrOf DEF inode
  <2>2. block_map' = block_map \ {d} /\ disk_block_map' = block_map'
    BY <1>1 DEF Free, update_bitmap
  <2>3. \A g \in Files, q \in Paths : Ptr(g, q) = d => g = f /\ q = path
    BY <1>1, <1>2, <2>1 DEF IInv, SoleOwner, Ptr
  <2>4. d \notin 0 .. FirstData - 1
    BY <1>1, <1>2, <2>1, PtrIsBlock, GeometryAssumption DEF IInv, Blocks
  <2>. HIDE DEF d, path
  <2>. QED  BY <2>2, <2>3, <2>4 DEF IInv, ReservedMarked
<1>6. SoleOwner'
  <2>. HIDE DEF path
  <2>. QED  BY <1>4 DEF IInv, SoleOwner, Ptr
<1>7. HeldIsMarked'
  <2>1. \A g \in Files, q \in Paths : Ptr(g, q) # 0 =>
          Ptr(g, q) \in FirstData .. NumBlocks - 1 /\ Ptr(g, q) \in block_map
    BY <1>1 DEF IInv, HeldIsMarked, Freeing, Ptr
  <2>. HIDE DEF path
  <2>. QED  BY <2>1, <1>4, <1>5 DEF HeldIsMarked, Ptr
<1>8. RootsSet'
  BY <1>1, <1>2, <1>3, PathKinds DEF IInv, RootsSet
<1>. QED  BY <1>1, <1>3, <1>5, <1>6, <1>7, <1>8 DEF IInv, Rest, FoundIsFresh, ImageFollows

\* A step of fs_truncate that frees blocks below the slots ss and changes no
\* pointer.
LEMMA FreeStepKeeps ==
    ASSUME IInv, pc \in {"direct", "indir_2"}, pc' \in {"indir_2", "clear"},
           NEW ss \in SUBSET {indir_1, indir_2}, NEW bs, Free(bs),
           \A b \in bs : \E q \in Paths :
              b = Ptr(call.file, q) /\ b # 0 /\ q[1] \in ss,
           inode_region' = inode_region, disk_inode_region' = disk_inode_region,
           blk' = blk, call' = call,
           pc' = "indir_2" => inode.ptr[indir_2] # 0
    PROVE  Rest'
<1>. DEFINE f == call.file
<1>0. f \in Files
  BY DEF IInv, TypeOK
<1>1. \A g \in Files, p \in Paths : Ptr(g, p)' = Ptr(g, p)
  BY SamePointers
<1>2. /\ ReservedMarked' /\ disk_block_map' = block_map'
      /\ \A g \in Files, q \in Paths :
           Ptr(g, q) \in block_map /\ ~(g = f /\ q[1] \in ss)
              => Ptr(g, q) = 0 \/ Ptr(g, q) \in block_map'
  BY <1>0, FreeOnlyOwn DEF IInv
<1>3. SoleOwner'
  BY <1>1, SameOwners DEF IInv
<1>4. HeldIsMarked'
  <2>1. \A g \in Files, q \in Paths : Ptr(g, q) # 0 =>
          /\ Ptr(g, q) \in FirstData .. NumBlocks - 1
          /\ Ptr(g, q) \in block_map \/ (g = f /\ q[1] \in {indir_1, indir_2})
    BY DEF IInv, HeldIsMarked, Freeing, Ptr
  <2>2. Freeing(f)'
    BY DEF Freeing
  <2>. QED  BY <2>1, <2>2, <1>1, <1>2 DEF HeldIsMarked, Ptr
<1>5. RootsSet'
  BY DEF IInv, RootsSet, inode
<1>. QED  BY <1>2, <1>3, <1>4, <1>5 DEF IInv, Rest, FoundIsFresh, ImageFollows

\* The tree of indir_1 is freed, if the size says that there is one.
LEMMA TruncateIndir1Keeps ==
    ASSUME IInv, TruncateIndir1
    PROVE  Rest'
<1>1. /\ pc = "direct" /\ pc' = IF inode.size > Level2 THEN "indir_2" ELSE "clear"
      /\ inode_region' = inode_region /\ disk_inode_region' = disk_inode_region
      /\ blk' = blk /\ call' = call
  BY DEF TruncateIndir1
<1>2. call.file \in Files /\ inode = inode_region[call.file] /\ inode.size \in Nat
  BY <1>1 DEF IInv, TypeOK, Inode, inode
<1>3. pc' = "indir_2" => inode.ptr[indir_2] # 0
  BY <1>1, <1>2 DEF IInv, RootsSet
<1>4. CASE inode.size > file_in_inode_sz
  <2>1. inode.ptr[indir_1] # 0 /\ Free(truncate_2nd_level(inode.ptr[indir_1]))
    BY <1>2, <1>4 DEF TruncateIndir1, IInv, RootsSet
  <2>2. \A b \in truncate_2nd_level(inode.ptr[indir_1]) : \E q \in Paths :
          b = Ptr(call.file, q) /\ b # 0 /\ q[1] \in {indir_1}
    BY <1>2, <2>1, FreedBelowIndir1 DEF IInv
  <2>. QED  BY <1>1, <1>3, <2>1, <2>2, FreeStepKeeps
<1>5. CASE ~(inode.size > file_in_inode_sz)
  <2>1. Free({})
    BY <1>5 DEF TruncateIndir1, IInv, ImageFollows, Free, update_bitmap
  <2>. QED  BY <1>1, <1>3, <2>1, FreeStepKeeps
<1>. QED  BY <1>4, <1>5

\* A table of indir_2 is freed with what it leads to.
LEMMA TruncateIndir2TableKeeps ==
    ASSUME IInv, TruncateIndir2Table
    PROVE  Rest'
<1>1. /\ pc = "indir_2" /\ pc' = "indir_2" /\ k < PTRS
      /\ blk[inode.ptr[indir_2]][k] # 0
      /\ Free(truncate_2nd_level(blk[inode.ptr[indir_2]][k]))
      /\ inode_region' = inode_region /\ disk_inode_region' = disk_inode_region
      /\ blk' = blk /\ call' = call
  BY DEF TruncateIndir2Table
<1>2. call.file \in Files /\ inode = inode_region[call.file] /\ k \in Entries
      /\ inode.ptr[indir_2] # 0
  BY <1>1, GeometryAssumption DEF IInv, TypeOK, RootsSet, Entries, inode
<1>3. \A b \in truncate_2nd_level(blk[inode.ptr[indir_2]][k]) : \E q \in Paths :
        b = Ptr(call.file, q) /\ b # 0 /\ q[1] \in {indir_2}
  BY <1>1, <1>2, FreedBelowIndir2 DEF IInv
<1>. QED  BY <1>1, <1>2, <1>3, FreeStepKeeps

\* indir_2 itself is freed.
LEMMA TruncateIndir2Keeps ==
    ASSUME IInv, TruncateIndir2
    PROVE  Rest'
<1>1. /\ pc = "indir_2" /\ pc' = "clear" /\ Free({inode.ptr[indir_2]})
      /\ inode_region' = inode_region /\ disk_inode_region' = disk_inode_region
      /\ blk' = blk /\ call' = call
  BY DEF TruncateIndir2
<1>2. call.file \in Files /\ inode = inode_region[call.file]
      /\ inode.ptr[indir_2] # 0
  BY <1>1 DEF IInv, TypeOK, RootsSet, inode
<1>3. <<indir_2, Nil, Nil>> \in Paths
      /\ inode.ptr[indir_2] = Ptr(call.file, <<indir_2, Nil, Nil>>)
  BY <1>2, PtrOf, PathKinds DEF Paths
<1>. QED  BY <1>1, <1>2, <1>3, FreeStepKeeps

\* The end of fs_truncate clears both roots of one file.
LEMMA EndCutsRoots ==
    ASSUME IInv, TruncateEnd
    PROVE  /\ call.file \in Files
           /\ \A g \in Files :
                /\ g # call.file => inode_region'[g] = inode_region[g]
                /\ g = call.file => inode_region'[g].size = 0
                /\ \A s \in Slots : inode_region'[g].ptr[s] =
                     IF g = call.file /\ s \in {indir_1, indir_2} THEN 0
                     ELSE inode_region[g].ptr[s]
           /\ \A g \in Files, p \in Paths : Ptr(g, p)' =
                IF g = call.file /\ p[1] \in {indir_1, indir_2} THEN 0 ELSE Ptr(g, p)
<1>. DEFINE f == call.file
            cut == [inode.ptr EXCEPT ![indir_1] = 0, ![indir_2] = 0]
<1>1. /\ pc = "clear" /\ pc' = "idle"
      /\ inode_region' = [inode_region EXCEPT ![f] = [size |-> 0, ptr |-> cut]]
      /\ update_inode(f) /\ block_map' = block_map
      /\ disk_block_map' = disk_block_map /\ blk' = blk
  BY DEF TruncateEnd, Return
<1>2. f \in Files /\ inode_region \in [Files -> Inode] /\ inode = inode_region[f]
  BY <1>1 DEF IInv, TypeOK, inode
<1>3. \A g \in Files :
        /\ g # f => inode_region'[g] = inode_region[g]
        /\ g = f => inode_region'[g].size = 0
        /\ \A s \in Slots : inode_region'[g].ptr[s] =
             IF g = f /\ s \in {indir_1, indir_2} THEN 0 ELSE inode_region[g].ptr[s]
  <2>1. \A s \in Slots : cut[s] = IF s \in {indir_1, indir_2} THEN 0 ELSE inode.ptr[s]
    BY <1>2 DEF Inode
  <2>. HIDE DEF cut
  <2>. QED  BY <1>1, <1>2, <2>1 DEF Inode
<1>4. \A g \in Files, p \in Paths :
        Ptr(g, p)' = IF g = f /\ p[1] \in {indir_1, indir_2} THEN 0 ELSE Ptr(g, p)
  <2>1. \A g \in Files, s \in Slots : Ptr(g, <<s, Nil, Nil>>)' =
          IF g = f /\ s \in {indir_1, indir_2} THEN 0 ELSE Ptr(g, <<s, Nil, Nil>>)
    BY <1>3, PtrOf
  <2>2. \A g \in Files, s \in {indir_1, indir_2}, i \in Entries :
          Ptr(g, <<s, i, Nil>>)' = IF g = f THEN 0 ELSE Ptr(g, <<s, i, Nil>>)
    BY <1>1, <1>3, PtrOf2, PathKinds
  <2>3. ASSUME NEW g \in Files, NEW i \in Entries, NEW j \in Entries
        PROVE  Ptr(g, <<indir_2, i, j>>)' =
                  IF g = f THEN 0 ELSE Ptr(g, <<indir_2, i, j>>)
    <3>1. Ptr(g, <<indir_2, i, Nil>>)' =
             IF g = f THEN 0 ELSE Ptr(g, <<indir_2, i, Nil>>)
      BY <2>2
    <3>. QED  BY <1>1, <3>1, PtrOf3
  <2>. QED  BY <2>1, <2>2, <2>3, PathForms, PathKinds
<1>. QED  BY <1>2, <1>3, <1>4

\* The freed trees are cut off the inode.
LEMMA TruncateEndKeeps ==
    ASSUME IInv, TruncateEnd
    PROVE  Rest'
<1>. DEFINE f == call.file
            cut == [inode.ptr EXCEPT ![indir_1] = 0, ![indir_2] = 0]
<1>1. /\ pc = "clear" /\ pc' = "idle"
      /\ inode_region' = [inode_region EXCEPT ![f] = [size |-> 0, ptr |-> cut]]
      /\ update_inode(f) /\ block_map' = block_map
      /\ disk_block_map' = disk_block_map /\ blk' = blk
  BY DEF TruncateEnd, Return
<1>2. f \in Files /\ inode_region \in [Files -> Inode] /\ inode = inode_region[f]
  BY <1>1 DEF IInv, TypeOK, inode
<1>3. \A g \in Files :
        /\ g # f => inode_region'[g] = inode_region[g]
        /\ g = f => inode_region'[g].size = 0
        /\ \A s \in Slots : inode_region'[g].ptr[s] =
             IF g = f /\ s \in {indir_1, indir_2} THEN 0 ELSE inode_region[g].ptr[s]
  BY EndCutsRoots
<1>4. \A g \in Files, p \in Paths :
        Ptr(g, p)' = IF g = f /\ p[1] \in {indir_1, indir_2} THEN 0 ELSE Ptr(g, p)
  BY EndCutsRoots
<1>5. SoleOwner'
  BY <1>4 DEF IInv, SoleOwner, Ptr
<1>6. HeldIsMarked'
  <2>1. \A g \in Files, q \in Paths : Ptr(g, q) # 0 =>
          /\ Ptr(g, q) \in FirstData .. NumBlocks - 1
          /\ Ptr(g, q) \in block_map \/ (g = f /\ q[1] \in {indir_1, indir_2})
    BY <1>1 DEF IInv, HeldIsMarked, Freeing, Ptr
  <2>. QED  BY <2>1, <1>1, <1>4 DEF HeldIsMarked, Ptr
<1>7. RootsSet'
  BY <1>1, <1>3, Ranges DEF IInv, RootsSet
<1>8. ImageFollows'
  BY <1>1, <1>2, <1>3 DEF IInv, ImageFollows, update_inode
<1>. QED  BY <1>1, <1>5, <1>6, <1>7, <1>8 DEF IInv, Rest, ReservedMarked, FoundIsFresh
-----------------------------------------------------------------------------
\* Every step of the system keeps the invariant.
LEMMA StepIInv == IInv /\ [Next]_vars => IInv'
<1>. SUFFICES ASSUME IInv, [Next]_vars PROVE Rest'
  BY TypeStep DEF IInv, Rest
<1>1. ASSUME NEW f \in Files, NEW off \in 0 .. MaxSize, NEW len, NEW val,
             Write(f, off, len, val)
      PROVE  Rest'
  BY <1>1, WriteKeeps, Ranges
<1>2. ASSUME NEW f \in Files, Truncate(f)
      PROVE  Rest'
  BY <1>2, QuietStepKeeps DEF Truncate, mem, image
<1>3. CASE WriteNoRoot
  BY <1>3, QuietStepKeeps DEF WriteNoRoot, Return, mem, image
<1>4. CASE UNCHANGED vars
  <2>1. \A g \in Files, p \in Paths : Ptr(g, p)' = Ptr(g, p)
    BY <1>4, SamePointers DEF vars
  <2>2. SoleOwner' /\ HeldIsMarked'
    BY <1>4, <2>1, SameOwners DEF vars, IInv, HeldIsMarked, Freeing, Ptr
  <2>3. FoundIsFresh'
    BY <1>4 DEF vars, IInv, FoundIsFresh, NeedsBlock, At, AtRoot, inode, Hop, Deref
  <2>. QED  BY <1>4, <2>2, <2>3
            DEF vars, IInv, Rest, ReservedMarked, RootsSet, ImageFollows, inode
<1>. QED
  BY <1>1, <1>2, <1>3, <1>4, GetattrKeeps, WriteFindBlockKeeps, WriteLinkKeeps,
     WriteMarkKeeps, WriteDataKeeps, WriteEndKeeps, TruncateDirectKeeps,
     TruncateIndir1Keeps, TruncateIndir2TableKeeps, TruncateIndir2Keeps,
     TruncateEndKeeps
     DEF Next, WriteStep, TruncateStep

\* The inductive invariant holds in every reachable state.
THEOREM Invariance == Spec => []IInv
BY InitIInv, StepIInv, PTL DEF Spec

\* No block is ever held by two pointers, whatever the files, the size of the
\* image and the geometry of its inodes: fs_write never gives a file a block
\* that is another's, and fs_truncate never gives away one that is in use.
THEOREM BlocksAreNeverShared == Spec => []SoleOwner
<1>1. IInv => SoleOwner
  BY DEF IInv
<1>. QED  BY <1>1, Invariance, PTL

\* Every block that a pointer holds is marked in the bitmap at every step,
\* but for the block being linked and the trees being freed.
THEOREM HeldBlocksAreMarked == Spec => []HeldIsMarked
<1>1. IInv => HeldIsMarked
  BY DEF IInv
<1>. QED  BY <1>1, Invariance, PTL

\* Between calls the memory of the file system and its image agree, so that
\* the reload at the head of every fs_getattr changes nothing.
THEOREM ReloadChangesNothing == Spec => []ReloadIsHarmless
<1>1. IInv => ReloadIsHarmless
  BY DEF IInv, TypeOK, ImageFollows, ReloadIsHarmless
<1>. QED  BY <1>1, Invariance, PTL
-----------------------------------------------------------------------------
(***************************************************************************)
(* FileContent: what fs_read returns, and that the block tree implements   *)
(* ByteFile.                                                               *)
(*                                                                         *)
(* Both rest on CInv: what a write has left behind it, up to the offset it *)
(* has reached, lies in blocks of the file and is the word that was        *)
(* written.  SizeCovered is a part of it.                                  *)
(***************************************************************************)
-----------------------------------------------------------------------------
(***************************************************************************)
(* Offsets and blocks.                                                     *)
(***************************************************************************)
\* Quotient and remainder are unique.
LEMMA DivUnique ==
    ASSUME NEW m \in Nat \ {0}, NEW q \in Int, NEW r \in 0 .. m - 1,
           NEW a \in Int, a = m * q + r
    PROVE  a \div m = q /\ a % m = r
<1>. DEFINE q2 == a \div m
            r2 == a % m
<1>1. q2 \in Int /\ r2 \in 0 .. m - 1 /\ a = m * q2 + r2
  OBVIOUS
<1>. HIDE DEF q2, r2
<1>2. m * (q - q2) = r2 - r
  BY <1>1
<1>3. ~(q - q2 >= 1)
  <2>. SUFFICES ASSUME q - q2 >= 1 PROVE FALSE
    OBVIOUS
  <2>1. m * (q - q2) >= m
    <3>. DEFINE e == q - q2
    <3>1. e \in Int /\ e >= 1
      BY <1>1
    <3>. HIDE DEF e
    <3>2. m * e >= m
      BY <3>1
    <3>. QED  BY <3>2 DEF e
  <2>. QED  BY <2>1, <1>1, <1>2
<1>4. ~(q2 - q >= 1)
  <2>. SUFFICES ASSUME q2 - q >= 1 PROVE FALSE
    OBVIOUS
  <2>. DEFINE e == q2 - q
  <2>1. e \in Int /\ e >= 1
    BY <1>1
  <2>2. m * e = r - r2
    BY <1>1
  <2>. HIDE DEF e
  <2>3. m * e >= m
    BY <2>1
  <2>. QED  BY <2>2, <2>3, <1>1
<1>5. q = q2
  BY <1>1, <1>3, <1>4
<1>. QED  BY <1>1, <1>5 DEF q2, r2

\* The path of the q-th block of a file.
BlockPath(q) ==
    LET q2 == q - N_DIRECT - PTRS
    IN  IF q < N_DIRECT THEN <<q, Nil, Nil>>
        ELSE IF q < N_DIRECT + PTRS THEN <<indir_1, q - N_DIRECT, Nil>>
        ELSE <<indir_2, q2 \div PTRS, q2 % PTRS>>

\* The blocks of the largest file.
MaxBlocks == N_DIRECT + PTRS + PTRS * PTRS

\* The block that holds an offset, and where in it.
LEMMA Offsets ==
    ASSUME NEW off \in Nat
    PROVE  /\ off \div BLOCK_SIZE \in Nat /\ off % BLOCK_SIZE \in Entries
           /\ off = BLOCK_SIZE * (off \div BLOCK_SIZE) + (off % BLOCK_SIZE)
           /\ MaxBlocks \in Nat /\ MaxSize = MaxBlocks * BLOCK_SIZE
           /\ BLOCK_SIZE = PTRS /\ PTRS \in Nat \ {0} /\ N_DIRECT \in Nat \ {0}
<1>1. BLOCK_SIZE = PTRS /\ PTRS \in Nat \ {0} /\ N_DIRECT \in Nat \ {0}
  BY GeometryAssumption DEF BLOCK_SIZE
<1>2. off \div BLOCK_SIZE \in Nat /\ off % BLOCK_SIZE \in Entries
  BY <1>1 DEF Entries
<1>3. off = BLOCK_SIZE * (off \div BLOCK_SIZE) + (off % BLOCK_SIZE)
  BY <1>1
<1>4. MaxBlocks \in Nat
  BY <1>1 DEF MaxBlocks
<1>5. MaxSize = MaxBlocks * BLOCK_SIZE
  BY <1>1 DEF MaxSize, Level2, file_in_inode_sz, file_1st_level_sz,
              file_2nd_level_sz, MaxBlocks
<1>. QED  BY <1>1, <1>2, <1>3, <1>4, <1>5

\* An offset is below a multiple of the block size if its block is below it.
LEMMA BelowBlocks ==
    ASSUME NEW m \in Nat \ {0}, NEW n \in Nat, NEW q \in Int, NEW r \in 0 .. m - 1
    PROVE  m * q + r < n * m <=> q < n
<1>1. ASSUME q < n PROVE m * q + r < n * m
  <2>1. n - q >= 1 /\ n - q \in Int
    BY <1>1
  <2>. DEFINE e == n - q
  <2>2. n * m = m * q + m * e
    OBVIOUS
  <2>. HIDE DEF e
  <2>3. m * e >= m
    BY <2>1 DEF e
  <2>4. m * e \in Int /\ m * q \in Int
    BY <2>1 DEF e
  <2>. QED  BY <2>2, <2>3, <2>4
<1>2. ASSUME ~(q < n) PROVE ~(m * q + r < n * m)
  <2>. DEFINE e == q - n
  <2>1. e \in Nat
    BY <1>2
  <2>2. m * q = n * m + m * e
    OBVIOUS
  <2>. HIDE DEF e
  <2>3. m * e >= 0 /\ m * e \in Int /\ n * m \in Int
    BY <2>1
  <2>. QED  BY <2>2, <2>3
<1>. QED  BY <1>1, <1>2

\* A multiple of a multiple.
LEMMA SquareTimes ==
    ASSUME NEW a \in Int, NEW b \in Int, NEW c \in Int
    PROVE  a * (a * b + c) = (a * a) * b + a * c
  OBVIOUS

\* A path depends on the block of the offset only.
LEMMA PathOfBlock ==
    ASSUME NEW off \in Nat
    PROVE  PathOf(off) = BlockPath(off \div BLOCK_SIZE)
<1>. DEFINE P == PTRS
            q == off \div BLOCK_SIZE
            r == off % BLOCK_SIZE
<1>1. /\ P \in Nat \ {0} /\ q \in Nat /\ r \in 0 .. P - 1 /\ off = P * q + r
      /\ BLOCK_SIZE = P /\ N_DIRECT \in Nat \ {0}
  BY Offsets DEF Entries
<1>2. off < file_in_inode_sz <=> q < N_DIRECT
  <2>. HIDE DEF q, r
  <2>. QED  BY <1>1, BelowBlocks DEF file_in_inode_sz
<1>3. off < Level2 <=> q < N_DIRECT + P
  <2>1. Level2 = (N_DIRECT + P) * P /\ N_DIRECT + P \in Nat
    BY <1>1 DEF Level2, file_in_inode_sz, file_1st_level_sz
  <2>. HIDE DEF q, r
  <2>. QED  BY <1>1, <2>1, BelowBlocks
<1>4. CASE q < N_DIRECT
  BY <1>2, <1>4 DEF PathOf, BlockPath
<1>5. CASE ~(q < N_DIRECT) /\ q < N_DIRECT + P
  <2>1. (off - file_in_inode_sz) \div BLOCK_SIZE = q - N_DIRECT
    <3>. DEFINE off1 == off - file_in_inode_sz
                q1 == q - N_DIRECT
    <3>1. off1 = P * q1 + r
      <4>. HIDE DEF q, r
      <4>. QED  BY <1>1 DEF file_in_inode_sz
    <3>2. q1 \in Int /\ off1 \in Int
      BY <1>1, Ranges
    <3>. HIDE DEF q, r, off1, q1
    <3>3. off1 \div P = q1
      BY <1>1, <3>1, <3>2, DivUnique
    <3>. QED  BY <1>1, <3>3 DEF off1, q1
  <2>. QED  BY <1>2, <1>3, <1>5, <2>1 DEF PathOf, BlockPath
<1>6. CASE ~(q < N_DIRECT + P)
  <2>. DEFINE q2 == q - N_DIRECT - P
              off2 == off - Level2
              u == q2 \div P
              v == q2 % P
              B == file_1st_level_sz
  <2>1. q2 \in Nat /\ off2 \in Int /\ B = P * P /\ B \in Nat \ {0}
    <3>1. P * P \in Nat \ {0}
      BY <1>1
    <3>. QED  BY <1>1, <1>6, <3>1, Ranges DEF file_1st_level_sz
  <2>2. off2 = P * q2 + r
    <3>. HIDE DEF q, r
    <3>. QED  BY <1>1 DEF Level2, file_in_inode_sz, file_1st_level_sz
  <2>3. u \in Nat /\ v \in 0 .. P - 1 /\ q2 = P * u + v
    <3>. HIDE DEF q2
    <3>. QED  BY <1>1, <2>1
  <2>. HIDE DEF q, r, q2, off2, u, v, B
  <2>. DEFINE w == P * v + r
  <2>4. w \in 0 .. B - 1
    <3>1. P * v + r < P * P
      BY <1>1, <2>3, BelowBlocks
    <3>2. P * v >= 0 /\ P * v \in Int
      BY <1>1, <2>3
    <3>. QED  BY <1>1, <2>1, <3>1, <3>2
  <2>5. off2 = B * u + w
    <3>1. P * (P * u + v) = (P * P) * u + P * v
      BY <1>1, <2>3, SquareTimes
    <3>. QED  BY <1>1, <2>1, <2>2, <2>3, <3>1
  <2>6. off2 \div B = u /\ off2 % B = w
    <3>1. B \in Nat \ {0} /\ u \in Int /\ off2 \in Int
      BY <2>1, <2>3
    <3>2. w \in 0 .. B - 1
      BY <2>4
    <3>3. off2 = B * u + w
      BY <2>5
    <3>. HIDE DEF w
    <3>. QED  BY ONLY <3>1, <3>2, <3>3, DivUnique
  <2>7. (off2 % B) \div P = v
    <3>1. w \in Int
      BY <2>4, <2>1
    <3>2. w = P * v + r
      OBVIOUS
    <3>. HIDE DEF w
    <3>3. w \div P = v
      BY <1>1, <2>3, <3>1, <3>2, DivUnique
    <3>. QED  BY <2>6, <3>3
  <2>8. ~(off < Level2) /\ ~(off < file_in_inode_sz) /\ ~(q < N_DIRECT)
    BY <1>1, <1>2, <1>3, <1>6
  <2>9. PathOf(off) = <<indir_2, u, v>>
    BY <1>1, <2>6, <2>7, <2>8 DEF PathOf, off2, B
  <2>10. BlockPath(q) = <<indir_2, u, v>>
    BY <1>6, <2>8 DEF BlockPath, u, v, q2
  <2>. QED  BY <2>9, <2>10 DEF q
<1>. QED  BY <1>1, <1>4, <1>5, <1>6

\* Different blocks have different paths.
LEMMA BlockPathInjective ==
    ASSUME NEW q \in Nat, NEW s \in Nat, BlockPath(q) = BlockPath(s)
    PROVE  q = s
<1>. DEFINE M == N_DIRECT + PTRS
<1>0. PTRS \in Nat \ {0} /\ N_DIRECT \in Nat \ {0}
  BY GeometryAssumption
<1>1. CASE q < M \/ s < M
  BY <1>0, <1>1 DEF BlockPath, indir_1, indir_2
<1>2. CASE ~(q < M) /\ ~(s < M)
  <2>. DEFINE a == q - N_DIRECT - PTRS
              b == s - N_DIRECT - PTRS
  <2>1. a \in Nat /\ b \in Nat
    BY <1>0, <1>2
  <2>2. a \div PTRS = b \div PTRS /\ a % PTRS = b % PTRS
    BY <1>0, <1>2 DEF BlockPath
  <2>. HIDE DEF a, b
  <2>3. a = PTRS * (a \div PTRS) + (a % PTRS) /\ b = PTRS * (b \div PTRS) + (b % PTRS)
    BY <1>0, <2>1
  <2>4. a = b
    BY <2>2, <2>3
  <2>. QED  BY <2>4, <1>0 DEF a, b
<1>. QED  BY <1>1, <1>2
-----------------------------------------------------------------------------
(***************************************************************************)
(* What the image shows of a file, and the inductive invariant.            *)
(***************************************************************************)
Word(f, o) == WordAt(disk_inode_region[f], o)
Has(f, o)  == Deref(disk_inode_region[f], PathOf(o)) # 0

Writing == pc \in {"write", "link", "mark"}

\* What a write has done up to now: the words from its start to the offset it
\* has reached are in the file's blocks, those beyond its end too.
Written ==
    Writing =>
        /\ call.start <= call.off /\ call.off <= MaxSize
        /\ call.start <= disk_inode_region[call.file].size
        /\ call.off - call.start + call.len <= MaxLen
        /\ \A o \in call.start .. call.off - 1 :
              Has(call.file, o) /\ Word(call.file, o) = call.val

SizesBounded == \A f \in Files : disk_inode_region[f].size <= MaxSize

CInv == SizesBounded /\ SizeCovered /\ Written

\* A step that loses no word of any file and changes no size.
DataKept ==
    \A f \in Files :
        /\ disk_inode_region'[f].size = disk_inode_region[f].size
        /\ \A o \in 0 .. MaxSize - 1 :
              Has(f, o) => Has(f, o)' /\ Word(f, o)' = Word(f, o)

\* Such a step shows nothing to a reader.
LEMMA KeptIsUnseen ==
    ASSUME IInv, CInv, DataKept
    PROVE  SizesBounded' /\ SizeCovered' /\ content' = content
<1>1. \A f \in Files : disk_inode_region[f].size \in Nat
  BY DEF IInv, TypeOK, Inode
<1>2. \A f \in Files : \A o \in 0 .. disk_inode_region[f].size - 1 :
        o \in 0 .. MaxSize - 1 /\ Has(f, o)
  BY <1>1, Ranges DEF CInv, SizesBounded, SizeCovered, Has
<1>3. SizesBounded'
  BY DEF CInv, SizesBounded, DataKept
<1>4. SizeCovered'
  BY <1>2 DEF SizeCovered, DataKept, Has
<1>5. \A f \in Files : \A i \in 1 .. disk_inode_region[f].size :
        Word(f, i - 1)' = Word(f, i - 1)
  <2>. SUFFICES ASSUME NEW f \in Files, NEW i \in 1 .. disk_inode_region[f].size
                PROVE  Word(f, i - 1)' = Word(f, i - 1)
    OBVIOUS
  <2>1. i - 1 \in 0 .. disk_inode_region[f].size - 1
    BY <1>1
  <2>. QED  BY <2>1, <1>2 DEF DataKept
<1>6. content' = content
  BY <1>5 DEF content, Word, DataKept
<1>. QED  BY <1>3, <1>4, <1>6

\* A step that writes neither a block nor the inodes of the image.
LEMMA SameImage ==
    ASSUME disk_inode_region' = disk_inode_region, blk' = blk
    PROVE  /\ DataKept /\ content' = content
           /\ \A f, o : Has(f, o)' = Has(f, o) /\ Word(f, o)' = Word(f, o)
<1>1. \A f, o : Has(f, o)' = Has(f, o) /\ Word(f, o)' = Word(f, o)
  BY DEF Has, Word, WordAt, Deref
<1>2. content' = content
  BY DEF content, WordAt, Deref
<1>. QED  BY <1>1, <1>2 DEF DataKept

\* Unless fs_truncate runs, the image shows what the pointers in memory hold.
SeenInMemory ==
    pc = "idle" \/ Writing =>
        \A f \in Files, o \in Nat :
            /\ disk_inode_region[f] = inode_region[f]
            /\ Has(f, o) <=> Ptr(f, PathOf(o)) # 0
            /\ Word(f, o) = blk[Ptr(f, PathOf(o))][o % BLOCK_SIZE]

\* It does so in every state that satisfies the invariant of the blocks.
LEMMA Seen == IInv => SeenInMemory
BY DEF IInv, ImageFollows, Writing, Has, Word, WordAt, Ptr, SeenInMemory

\* The same after a step.
LEMMA SeenNext == IInv' => SeenInMemory'
BY Seen, PTL
-----------------------------------------------------------------------------
(***************************************************************************)
(* What the steps of fs_write do to the words of the files.                *)
(***************************************************************************)
\* Clearing the block that was found loses no word.
LEMMA FindKeepsData ==
    ASSUME IInv, IInv', WriteFindBlock
    PROVE  DataKept
<1>1. /\ pc = "write" /\ pc' = "link"
      /\ disk_inode_region' = disk_inode_region
  BY DEF WriteFindBlock
<1>2. /\ new' \in Blocks /\ blk' = [blk EXCEPT ![new'] = ZeroBlock]
      /\ \A g \in Files, p \in Paths : Ptr(g, p) # new' /\ Ptr(g, p)' = Ptr(g, p)
  BY FoundIsOutside, GeometryAssumption DEF Blocks
<1>. SUFFICES ASSUME NEW f \in Files, NEW o \in 0 .. MaxSize - 1, Has(f, o)
              PROVE  Has(f, o)' /\ Word(f, o)' = Word(f, o)
  BY <1>1 DEF DataKept
<1>. DEFINE b == Ptr(f, PathOf(o))
<1>3. o \in Nat /\ PathOf(o) \in Paths
  BY PathOfIsLeaf, PathKinds, Ranges
<1>4. b # 0 /\ Word(f, o) = blk[b][o % BLOCK_SIZE]
  BY <1>1, <1>3, Seen DEF Writing, SeenInMemory
<1>5. /\ Has(f, o)' <=> b' # 0
      /\ Word(f, o)' = blk'[b'][o % BLOCK_SIZE]
  BY <1>1, <1>3, SeenNext DEF Writing, SeenInMemory
<1>6. b' = b /\ b # new' /\ b \in Blocks
  BY <1>2, <1>3, PtrIsBlock DEF IInv
<1>7. blk'[b] = blk[b]
  <2>. HIDE DEF b
  <2>. QED  BY <1>2, <1>6 DEF IInv, TypeOK
<1>. QED  BY <1>4, <1>5, <1>6, <1>7

\* A step that writes no block but an indirect one of the file, at most.
WritesOneTable ==
    \E t : /\ \A b \in Blocks \ {t} : blk'[b] = blk[b]
           /\ t = 0 \/ \E r \in Inner : t = Ptr(call.file, r)

\* A pointer is put in an inode, or in an indirect block of the file.
LEMMA LinkWritesOneTable ==
    ASSUME IInv, WriteLink
    PROVE  WritesOneTable
<1>. USE DEF WritesOneTable
<1>. DEFINE f0 == call.file
<1>0. f0 \in Files /\ At \in Leaves \cup Inner /\ inode = inode_region[f0]
  BY AtIsPath DEF WriteLink, IInv, FoundIsFresh, NeedsBlock, inode
<1>1. CASE At[2] = Nil
  BY <1>1 DEF WriteLink
<1>2. CASE At[2] # Nil /\ At[3] = Nil
  <2>1. PICK s \in {indir_1, indir_2}, i \in Entries : At = <<s, i, Nil>>
    BY <1>0, <1>2, PathKinds DEF Leaves, Inner
  <2>. DEFINE t == inode_region[f0].ptr[s]
  <2>2. blk' = [blk EXCEPT ![t][i] = new]
    BY <1>0, <1>2, <2>1 DEF WriteLink
  <2>3. t = Ptr(f0, <<s, Nil, Nil>>) /\ <<s, Nil, Nil>> \in Inner
    BY <1>0, PtrOf, PathKinds DEF Inner
  <2>. HIDE DEF t
  <2>. QED  BY <2>2, <2>3 DEF IInv, TypeOK
<1>3. CASE At[2] # Nil /\ At[3] # Nil
  <2>1. PICK i \in Entries, j \in Entries : At = <<indir_2, i, j>>
    BY <1>0, <1>3, PathKinds DEF Leaves, Inner
  <2>. DEFINE t == Ptr(f0, <<indir_2, i, Nil>>)
  <2>2. \E w : blk' = [blk EXCEPT ![t] = w]
    BY <1>0, <1>3, <2>1 DEF WriteLink, Ptr
  <2>3. <<indir_2, i, Nil>> \in Inner
    BY DEF Inner
  <2>. HIDE DEF t
  <2>4. \A b \in Blocks \ {t} : blk'[b] = blk[b]
    BY <2>2 DEF IInv, TypeOK
  <2>. QED  BY <2>3, <2>4 DEF t
<1>. QED  BY <1>1, <1>2, <1>3

\* A pointer is put in an inode or in an indirect block, never over a word.
LEMMA LinkKeepsData ==
    ASSUME IInv, IInv', WriteLink
    PROVE  DataKept
<1>. DEFINE f0 == call.file
<1>1. /\ pc = "link" /\ pc' = "mark" /\ call.off < MaxSize /\ Deref(inode, At) = 0
      /\ f0 \in Files /\ At \in Leaves \cup Inner /\ At \in Paths
      /\ inode = inode_region[f0]
  BY AtIsPath DEF WriteLink, IInv, FoundIsFresh, NeedsBlock, inode
<1>2. \A g \in Files, q \in Paths :
        Ptr(g, q)' = IF g = f0 /\ q = At THEN new ELSE Ptr(g, q)
  BY LinkSetsOne
<1>3. Ptr(f0, At) = 0
  BY <1>1 DEF Ptr
<1>4. PICK t : /\ \A b \in Blocks \ {t} : blk'[b] = blk[b]
               /\ t = 0 \/ \E r \in Inner : t = Ptr(call.file, r)
  BY LinkWritesOneTable DEF WritesOneTable
<1>5. ASSUME NEW g \in Files, NEW o \in 0 .. MaxSize - 1, Has(g, o)
      PROVE  Has(g, o)' /\ Word(g, o)' = Word(g, o)
  <2>. DEFINE p == PathOf(o)
              b == Ptr(g, p)
  <2>1. o \in Nat /\ p \in Leaves /\ p \in Paths
    BY PathOfIsLeaf, PathKinds, Ranges
  <2>2. b # 0 /\ Word(g, o) = blk[b][o % BLOCK_SIZE]
    BY <1>1, <1>5, <2>1, Seen DEF Writing, SeenInMemory
  <2>3. /\ Has(g, o)' <=> b' # 0
        /\ Word(g, o)' = blk'[b'][o % BLOCK_SIZE]
    BY <1>1, <2>1, SeenNext DEF Writing, SeenInMemory
  <2>4. b \in Blocks /\ b' = b
    BY <1>2, <1>3, <2>1, <2>2, PtrIsBlock DEF IInv
  <2>5. b # t
    <3>. SUFFICES ASSUME NEW r \in Inner, b = Ptr(f0, r) PROVE FALSE
      BY <1>4, <2>2
    <3>1. p = r
      BY <1>1, <2>1, <2>2, PathKinds DEF IInv, SoleOwner, Ptr
    <3>. QED  BY <2>1, <3>1, PathKinds DEF Leaves, Inner
  <2>. QED  BY <1>4, <2>2, <2>3, <2>4, <2>5
<1>6. \A g \in Files : disk_inode_region'[g].size = disk_inode_region[g].size
  <2>1. \A g \in Files : inode_region'[g].size = inode_region[g].size
    <3>1. CASE At[2] = Nil
      BY <1>1, <3>1 DEF WriteLink, IInv, TypeOK, Inode
    <3>2. CASE At[2] # Nil
      BY <3>2 DEF WriteLink
    <3>. QED  BY <3>1, <3>2
  <2>2. \A g \in Files : disk_inode_region[g] = inode_region[g]
    BY <1>1 DEF IInv, ImageFollows
  <2>3. \A g \in Files : disk_inode_region'[g] = inode_region'[g]
    BY <1>1 DEF IInv, ImageFollows
  <2>. QED  BY <2>1, <2>2, <2>3
<1>. QED  BY <1>5, <1>6 DEF DataKept

\* Two offsets share a block when their blocks of the file are one.
LEMMA SamePathSameBlock ==
    ASSUME NEW o \in Nat, NEW o2 \in Nat
    PROVE  PathOf(o) = PathOf(o2) <=> o \div BLOCK_SIZE = o2 \div BLOCK_SIZE
BY PathOfBlock, BlockPathInjective, Offsets

\* How far one disk write of data gets: at least one word, to the end of the
\* block or of the data.
DataLen ==
    LET room == BLOCK_SIZE - (call.off % BLOCK_SIZE)
    IN  IF call.len > room THEN room ELSE call.len

\* The words of one block from offset off on.
LEMMA InBlock ==
    ASSUME NEW off \in Nat, NEW o \in Nat, NEW n \in Nat, n > 0,
           n <= BLOCK_SIZE - (off % BLOCK_SIZE)
    PROVE  off <= o /\ o < off + n
             <=> /\ o \div BLOCK_SIZE = off \div BLOCK_SIZE
                 /\ off % BLOCK_SIZE <= o % BLOCK_SIZE
                 /\ o % BLOCK_SIZE < (off % BLOCK_SIZE) + n
<1>. DEFINE B == BLOCK_SIZE
            q == off \div B
            r == off % B
            q2 == o \div B
            r2 == o % B
<1>1. /\ B \in Nat \ {0} /\ q \in Nat /\ q2 \in Nat
      /\ r \in 0 .. B - 1 /\ r2 \in 0 .. B - 1
      /\ off = B * q + r /\ o = B * q2 + r2
  BY Offsets DEF Entries
<1>2. n <= B - r
  OBVIOUS
<1>. HIDE DEF B, q, r, q2, r2
<1>3. ASSUME q2 = q
      PROVE  off <= o /\ o < off + n <=> r <= r2 /\ r2 < r + n
  BY <1>1, <1>3
<1>4. ASSUME q2 > q
      PROVE  ~(o < off + n)
  <2>. DEFINE e == q2 - q - 1
  <2>1. e \in Nat /\ q2 = q + 1 + e
    BY <1>1, <1>4
  <2>. HIDE DEF e
  <2>2. B * q2 = B * q + B + B * e /\ B * e \in Nat
    BY <1>1, <2>1
  <2>. QED  BY <1>1, <1>2, <2>2
<1>5. ASSUME q2 < q
      PROVE  ~(off <= o)
  <2>. DEFINE e == q - q2 - 1
  <2>1. e \in Nat /\ q = q2 + 1 + e
    BY <1>1, <1>5
  <2>. HIDE DEF e
  <2>2. B * q = B * q2 + B + B * e /\ B * e \in Nat
    BY <1>1, <2>1
  <2>. QED  BY <1>1, <2>2
<1>6. off <= o /\ o < off + n <=> q2 = q /\ r <= r2 /\ r2 < r + n
  BY <1>1, <1>3, <1>4, <1>5
<1>. QED  BY <1>6 DEF B, q, r, q2, r2

\* How far a disk write of data gets.
LEMMA DataLenBounds ==
    ASSUME IInv, WriteData
    PROVE  /\ call.off \in Nat /\ call.len \in Nat /\ call.start \in Nat
           /\ DataLen \in Nat /\ DataLen > 0 /\ DataLen <= call.len
           /\ DataLen <= BLOCK_SIZE - (call.off % BLOCK_SIZE)
           /\ call.off < MaxSize /\ call.off + DataLen <= MaxSize
           /\ call' = [call EXCEPT !.off = call.off + DataLen,
                                   !.len = call.len - DataLen]
<1>1. call.off \in Nat /\ call.len \in Nat /\ call.start \in Nat
      /\ call.off < MaxSize /\ call.len > 0
  BY DEF IInv, TypeOK, WriteData
<1>2. /\ call.off % BLOCK_SIZE \in 0 .. BLOCK_SIZE - 1 /\ BLOCK_SIZE \in Nat \ {0}
      /\ MaxSize = MaxBlocks * BLOCK_SIZE /\ MaxBlocks \in Nat
  BY <1>1, Offsets DEF Entries
<1>3. /\ DataLen \in Nat /\ DataLen > 0 /\ DataLen <= call.len
      /\ DataLen <= BLOCK_SIZE - (call.off % BLOCK_SIZE)
  <2>. DEFINE r == call.off % BLOCK_SIZE
  <2>1. r \in 0 .. BLOCK_SIZE - 1
    BY <1>2
  <2>2. DataLen = IF call.len > BLOCK_SIZE - r THEN BLOCK_SIZE - r ELSE call.len
    BY DEF DataLen
  <2>. HIDE DEF r
  <2>3. /\ DataLen \in Nat /\ DataLen > 0 /\ DataLen <= call.len
        /\ DataLen <= BLOCK_SIZE - r
    BY <1>1, <1>2, <2>1, <2>2
  <2>. QED  BY <2>3 DEF r
<1>4. call.off + (BLOCK_SIZE - (call.off % BLOCK_SIZE)) <= MaxSize
  BY <1>1, <1>2, BlockEnd
<1>5. call.off + DataLen <= MaxSize
  <2>1. call.off % BLOCK_SIZE \in Int /\ BLOCK_SIZE \in Int /\ MaxSize \in Int
    BY <1>2, Ranges
  <2>. DEFINE r == call.off % BLOCK_SIZE
  <2>. HIDE DEF r
  <2>. QED  BY <1>1, <1>3, <1>4, <2>1 DEF r
<1>6. call' = [call EXCEPT !.off = @ + DataLen, !.len = @ - DataLen]
  BY DEF WriteData, DataLen
<1>. QED  BY <1>1, <1>3, <1>5, <1>6

\* Data goes to the offsets it is meant for, in the file it is meant for, and
\* to no other.
LEMMA DataGoesWhereMeant ==
    ASSUME IInv, IInv', WriteData
    PROVE  /\ \A g \in Files, o \in 0 .. MaxSize - 1 :
                /\ Has(g, o)' <=> Has(g, o)
                /\ Has(g, o) => Word(g, o)' =
                     IF g = call.file /\ call.off <= o /\ o < call.off + DataLen
                     THEN call.val ELSE Word(g, o)
           /\ \A o \in Nat :
                call.off <= o /\ o < call.off + DataLen => Has(call.file, o)
<1>. DEFINE f0 == call.file
            d == Deref(inode, At)
            n == DataLen
            r == call.off % BLOCK_SIZE
<1>1. /\ pc = "write" /\ pc' = "write" /\ d # 0 /\ blk' =
           [blk EXCEPT ![d] = [i \in Entries |->
                IF r <= i /\ i < r + n THEN call.val ELSE @[i]]]
  BY DEF WriteData, DataLen
<1>2. /\ f0 \in Files /\ At \in Paths /\ d = Ptr(f0, At) /\ d \in Blocks
      /\ \A b \in Blocks \ {d} : blk'[b] = blk[b]
      /\ \A g \in Files, p \in Paths : Ptr(g, p)' = Ptr(g, p)
  BY DataGoesToALeaf
<1>3. /\ call.off \in Nat /\ n \in Nat /\ n > 0 /\ call.off < MaxSize
      /\ n <= BLOCK_SIZE - (call.off % BLOCK_SIZE) /\ call.off + n <= MaxSize
  BY DataLenBounds
<1>4. At = PathOf(call.off)
  <2>1. PathOf(call.off) \in Leaves
    BY <1>3, PathOfIsLeaf
  <2>2. Ptr(f0, Hop(inode_region[f0], PathOf(call.off))) # 0
    BY <1>1 DEF At, inode, Ptr
  <2>3. Hop(inode_region[f0], PathOf(call.off)) = PathOf(call.off)
    BY <1>2, <2>1, <2>2, HopIsPath
  <2>. QED  BY <2>3 DEF At, inode
<1>5. \A i \in Entries : blk'[d][i] =
        IF r <= i /\ i < r + n THEN call.val ELSE blk[d][i]
  <2>. HIDE DEF d, r, n
  <2>. QED  BY <1>1, <1>2 DEF IInv, TypeOK
<1>6. ASSUME NEW o \in Nat
      PROVE  call.off <= o /\ o < call.off + n
             <=> /\ PathOf(o) = At
                 /\ r <= o % BLOCK_SIZE
                 /\ o % BLOCK_SIZE < r + n
  BY <1>3, <1>4, InBlock, SamePathSameBlock
<1>7. ASSUME NEW g \in Files, NEW o \in 0 .. MaxSize - 1
      PROVE  /\ Has(g, o)' <=> Has(g, o)
             /\ Has(g, o) => Word(g, o)' =
                  IF g = call.file /\ call.off <= o /\ o < call.off + n
                  THEN call.val ELSE Word(g, o)
  <2>. DEFINE p == PathOf(o)
              b == Ptr(g, p)
              e == o % BLOCK_SIZE
  <2>1. o \in Nat /\ p \in Paths /\ e \in Entries
    BY PathOfIsLeaf, PathKinds, Ranges, Offsets
  <2>2. (Has(g, o) <=> b # 0) /\ Word(g, o) = blk[b][e]
    BY <1>1, <2>1, Seen DEF Writing, SeenInMemory
  <2>3. (Has(g, o)' <=> b' # 0) /\ Word(g, o)' = blk'[b'][e]
    BY <1>1, <2>1, SeenNext DEF Writing, SeenInMemory
  <2>4. b \in Blocks /\ b' = b
    BY <1>2, <2>1, PtrIsBlock DEF IInv
  <2>5. b = d => g = f0 /\ p = At
    BY <1>1, <1>2, <2>1 DEF IInv, SoleOwner, Ptr
  <2>6. g = f0 /\ p = At => b = d
    BY <1>2
  <2>. HIDE DEF b, d, r, n, p, e
  <2>7. call.off <= o /\ o < call.off + n <=> p = At /\ r <= e /\ e < r + n
    BY <1>6, <2>1 DEF p, e
  <2>. QED  BY <1>2, <1>5, <2>1, <2>2, <2>3, <2>4, <2>5, <2>6, <2>7
<1>8. ASSUME NEW o \in Nat, call.off <= o, o < call.off + n
      PROVE  Has(f0, o)
  <2>1. PathOf(o) = At
    BY <1>6, <1>8
  <2>. QED  BY <1>1, <1>2, <2>1, Seen DEF Writing, SeenInMemory
<1>. QED  BY <1>7, <1>8

\* The same pointers lead to the same words.
LEMMA SameTreeSameWords ==
    ASSUME blk' = blk, NEW g \in Files, NEW o,
           disk_inode_region'[g].ptr = disk_inode_region[g].ptr
    PROVE  (Has(g, o)' <=> Has(g, o)) /\ Word(g, o)' = Word(g, o)
<1>1. Deref(disk_inode_region[g], PathOf(o))' = Deref(disk_inode_region[g], PathOf(o))
  BY DEF Deref
<1>. QED  BY <1>1 DEF Has, Word, WordAt

\* The end of a write raises the size of the file at most.
LEMMA EndRaisesSize ==
    ASSUME IInv, IInv', WriteEnd
    PROVE  /\ call.file \in Files
           /\ \A g \in Files :
                /\ disk_inode_region'[g].size =
                     IF g = call.file /\ call.off > disk_inode_region[g].size
                     THEN call.off ELSE disk_inode_region[g].size
                /\ \A o \in Nat : (Has(g, o)' <=> Has(g, o)) /\ Word(g, o)' = Word(g, o)
<1>1. pc = "write" /\ pc' = "idle" /\ blk' = blk
  BY DEF WriteEnd, Return
<1>2. call.file \in Files /\ inode_region \in [Files -> Inode]
  BY <1>1 DEF IInv, TypeOK
<1>3. \A g \in Files : disk_inode_region[g] = inode_region[g]
  BY <1>1 DEF IInv, ImageFollows
<1>4. \A g \in Files : disk_inode_region'[g] = inode_region'[g]
  BY <1>1 DEF IInv, ImageFollows
<1>5. \A g \in Files :
        /\ inode_region'[g].ptr = inode_region[g].ptr
        /\ inode_region'[g].size =
             IF g = call.file /\ call.off > inode_region[g].size
             THEN call.off ELSE inode_region[g].size
  <2>1. CASE call.off > inode.size
    <3>1. inode_region' = [inode_region EXCEPT ![call.file].size = call.off]
      BY <2>1 DEF WriteEnd
    <3>. QED  BY <1>2, <2>1, <3>1 DEF Inode, inode
  <2>2. CASE ~(call.off > inode.size)
    BY <2>2 DEF WriteEnd, inode
  <2>. QED  BY <2>1, <2>2
<1>6. \A g \in Files, o \in Nat :
        (Has(g, o)' <=> Has(g, o)) /\ Word(g, o)' = Word(g, o)
  <2>1. \A g \in Files : disk_inode_region'[g].ptr = disk_inode_region[g].ptr
    BY <1>3, <1>4, <1>5
  <2>. QED  BY <1>1, <2>1, SameTreeSameWords
<1>. QED  BY <1>2, <1>3, <1>4, <1>5, <1>6

\* The end of a truncation empties one file of the image.
LEMMA TruncateEmptiesOne ==
    ASSUME IInv, IInv', TruncateEnd
    PROVE  /\ call.file \in Files
           /\ \A g \in Files :
                /\ g = call.file => disk_inode_region'[g].size = 0
                /\ g # call.file =>
                     /\ disk_inode_region'[g] = disk_inode_region[g]
                     /\ \A o \in Nat :
                          (Has(g, o)' <=> Has(g, o)) /\ Word(g, o)' = Word(g, o)
<1>. DEFINE cut == [size |-> 0, ptr |-> [inode.ptr EXCEPT ![indir_1] = 0, ![indir_2] = 0]]
<1>1. /\ pc = "clear" /\ pc' = "idle" /\ blk' = blk
      /\ inode_region' = [inode_region EXCEPT ![call.file] = cut]
  BY DEF TruncateEnd, Return
<1>2. call.file \in Files /\ inode_region \in [Files -> Inode] /\ cut.size = 0
  BY <1>1 DEF IInv, TypeOK
<1>3. \A g \in Files : g # call.file => disk_inode_region[g] = inode_region[g]
  BY <1>1 DEF IInv, ImageFollows
<1>4. \A g \in Files : disk_inode_region'[g] = inode_region'[g]
  BY <1>1 DEF IInv, ImageFollows
<1>5. \A g \in Files : inode_region'[g] = IF g = call.file THEN cut ELSE inode_region[g]
  <2>. HIDE DEF cut
  <2>. QED  BY <1>1, <1>2
<1>6. \A g \in Files : g # call.file => disk_inode_region'[g] = disk_inode_region[g]
  BY <1>3, <1>4, <1>5
<1>7. \A g \in Files : g = call.file => disk_inode_region'[g].size = 0
  <2>. HIDE DEF cut
  <2>. QED  BY <1>2, <1>4, <1>5
<1>8. \A g \in Files, o \in Nat : g # call.file =>
        (Has(g, o)' <=> Has(g, o)) /\ Word(g, o)' = Word(g, o)
  BY <1>1, <1>6, SameTreeSameWords
<1>. QED  BY <1>2, <1>6, <1>7, <1>8
-----------------------------------------------------------------------------
(***************************************************************************)
(* The inductive invariant, by action.                                     *)
(***************************************************************************)
\* A fresh image has empty files only.
LEMMA InitCInv == Init => CInv
<1>. SUFFICES ASSUME Init PROVE CInv
  OBVIOUS
<1>1. \A f \in Files : disk_inode_region[f].size = 0
  BY DEF Init, EmptyInode
<1>. QED  BY <1>1, Ranges DEF Init, CInv, SizesBounded, SizeCovered, Written, Writing

\* A step of a write that loses no word leaves behind what was written.
LEMMA KeptIsStillWritten ==
    ASSUME IInv, CInv, DataKept, Writing, call' = call
    PROVE  Written'
<1>1. call.file \in Files /\ call.off \in Nat /\ call.start \in Nat
  BY DEF IInv, TypeOK, Writing
<1>2. call.off <= MaxSize
  BY DEF CInv, Written
<1>3. \A o \in call.start .. call.off - 1 : o \in 0 .. MaxSize - 1
  BY <1>1, <1>2, Ranges
<1>. QED  BY <1>1, <1>3 DEF CInv, Written, DataKept

\* The write that goes on writes its data and no size.
LEMMA DataKeepsCInv ==
    ASSUME IInv, IInv', CInv, WriteData
    PROVE  CInv'
<1>. DEFINE n == DataLen
<1>0. PICK f0 \in Files : f0 = call.file
  BY DataGoesToALeaf
<1>1. pc = "write" /\ disk_inode_region' = disk_inode_region
  BY DEF WriteData
<1>2. call.off \in Nat /\ call.start \in Nat /\ call.len \in Nat
      /\ \A g \in Files : disk_inode_region[g].size \in Nat
  BY <1>1 DEF IInv, TypeOK, Inode
<1>3. /\ n \in Nat /\ n > 0 /\ n <= call.len /\ call.off + n <= MaxSize
      /\ call' = [call EXCEPT !.off = call.off + n, !.len = call.len - n]
  BY DataLenBounds
<1>4. /\ call'.file = f0 /\ call'.start = call.start /\ call'.val = call.val
      /\ call'.off = call.off + n /\ call'.len = call.len - n
  <2>1. call \in [file : Files \cup {0}, start : Nat, off : Nat, len : Nat,
                 val : Vals \cup {0}]
    BY DEF IInv, TypeOK
  <2>. HIDE DEF n
  <2>. QED  BY <2>1, <1>0, <1>3
<1>5. SizesBounded'
  BY <1>1 DEF CInv, SizesBounded
<1>6. SizeCovered'
  <2>1. ASSUME NEW g \in Files, NEW o \in 0 .. disk_inode_region[g].size - 1
        PROVE  Has(g, o)'
    <3>1. o \in 0 .. MaxSize - 1 /\ Has(g, o)
      BY <1>2, Ranges DEF CInv, SizesBounded, SizeCovered, Has
    <3>. QED  BY <3>1, DataGoesWhereMeant
  <2>. QED  BY <1>1, <2>1 DEF SizeCovered, Has
<1>7. Written'
  <2>1. /\ call.start <= call.off /\ call.start <= disk_inode_region[f0].size
        /\ call.off - call.start + call.len <= MaxLen
        /\ \A o \in call.start .. call.off - 1 :
              Has(f0, o) /\ Word(f0, o) = call.val
    BY <1>0, <1>1 DEF CInv, Written, Writing
  <2>2. ASSUME NEW o \in call.start .. call.off + n - 1
        PROVE  Has(f0, o)' /\ Word(f0, o)' = call.val
    <3>1. o \in Nat /\ o \in 0 .. MaxSize - 1 /\ o < call.off + n
      BY <1>2, <1>3, Ranges
    <3>2. Has(f0, o)
      <4>1. CASE o < call.off
        BY <1>2, <2>1, <4>1
      <4>2. CASE call.off <= o
        BY <1>0, <3>1, <4>2, DataGoesWhereMeant
      <4>. QED  BY <1>2, <3>1, <4>1, <4>2
    <3>3. Has(f0, o)' /\ Word(f0, o)' =
            IF call.off <= o THEN call.val ELSE Word(f0, o)
      BY <1>0, <1>2, <3>1, <3>2, DataGoesWhereMeant
    <3>4. ~(call.off <= o) => Word(f0, o) = call.val
      BY <1>2, <2>1, <3>1
    <3>. QED  BY <3>3, <3>4
  <2>. HIDE DEF n
  <2>. QED  BY <1>0, <1>1, <1>2, <1>3, <1>4, <2>1, <2>2 DEF Written
<1>. QED  BY <1>5, <1>6, <1>7 DEF CInv

\* The size grows to where the write has been.
LEMMA EndKeepsCInv ==
    ASSUME IInv, IInv', CInv, WriteEnd
    PROVE  CInv'
<1>. DEFINE f0 == call.file
<1>1. pc = "write" /\ ~Writing'
  BY DEF WriteEnd, Return, Writing
<1>2. f0 \in Files /\ call.off \in Nat /\ call.start \in Nat
      /\ \A g \in Files : disk_inode_region[g].size \in Nat
  BY <1>1 DEF IInv, TypeOK, Inode
<1>3. /\ call.start <= disk_inode_region[f0].size /\ call.off <= MaxSize
      /\ \A o \in call.start .. call.off - 1 : Has(f0, o)
  BY <1>1 DEF CInv, Written, Writing
<1>4. SizesBounded'
  BY <1>3, EndRaisesSize DEF CInv, SizesBounded
<1>5. SizeCovered'
  <2>1. ASSUME NEW g \in Files, NEW o \in 0 .. disk_inode_region'[g].size - 1
        PROVE  Has(g, o)'
    <3>1. disk_inode_region'[g].size =
            IF g = f0 /\ call.off > disk_inode_region[g].size
            THEN call.off ELSE disk_inode_region[g].size
      BY EndRaisesSize
    <3>2. o \in Nat
      BY <1>2, <3>1
    <3>3. Has(g, o)
      <4>1. CASE o < disk_inode_region[g].size
        BY <1>2, <3>2, <4>1 DEF CInv, SizeCovered, Has
      <4>2. CASE ~(o < disk_inode_region[g].size)
        BY <1>2, <1>3, <3>1, <3>2, <4>2
      <4>. QED  BY <4>1, <4>2
    <3>. QED  BY <3>2, <3>3, EndRaisesSize
  <2>. QED  BY <2>1 DEF SizeCovered, Has
<1>. QED  BY <1>1, <1>4, <1>5 DEF CInv, Written

\* An empty file has no word to cover.
LEMMA TruncateEndKeepsCInv ==
    ASSUME IInv, IInv', CInv, TruncateEnd
    PROVE  CInv'
<1>1. ~Writing'
  BY DEF TruncateEnd, Return, Writing
<1>2. SizesBounded'
  BY TruncateEmptiesOne, Ranges DEF CInv, SizesBounded
<1>3. SizeCovered'
  <2>1. ASSUME NEW g \in Files, NEW o \in 0 .. disk_inode_region'[g].size - 1
        PROVE  Has(g, o)'
    <3>1. g # call.file
      BY TruncateEmptiesOne
    <3>2. disk_inode_region'[g] = disk_inode_region[g] /\ o \in Nat
      BY <3>1, TruncateEmptiesOne DEF IInv, TypeOK, Inode
    <3>3. Has(g, o)
      BY <3>2 DEF CInv, SizeCovered, Has
    <3>. QED  BY <3>1, <3>2, <3>3, TruncateEmptiesOne
  <2>. QED  BY <2>1 DEF SizeCovered, Has
<1>. QED  BY <1>1, <1>2, <1>3 DEF CInv, Written
-----------------------------------------------------------------------------
\* Every step of the system keeps the invariant of the data, too.
LEMMA StepCInv == IInv /\ IInv' /\ CInv /\ [Next]_vars => CInv'
<1>. SUFFICES ASSUME IInv, IInv', CInv, [Next]_vars PROVE CInv'
  OBVIOUS
<1>1. ASSUME NEW f \in Files, NEW off \in 0 .. MaxSize, NEW len \in 1 .. MaxLen,
             NEW val \in Vals, Write(f, off, len, val)
      PROVE  CInv'
  <2>1. /\ pc = "idle" /\ disk_inode_region' = disk_inode_region /\ blk' = blk
        /\ off <= inode_region[f].size
        /\ call' = [file |-> f, start |-> off, off |-> off, len |-> len, val |-> val]
    BY <1>1 DEF Write, image
  <2>2. disk_inode_region[f] = inode_region[f]
    BY <2>1 DEF IInv, ImageFollows
  <2>3. Written'
    BY <2>1, <2>2, Ranges, GeometryAssumption DEF Written
  <2>. QED  BY <2>1, <2>3, SameImage, KeptIsUnseen DEF CInv
<1>2. CASE WriteFindBlock
  <2>1. Writing /\ call' = call
    BY <1>2 DEF WriteFindBlock, Writing
  <2>. QED  BY <1>2, <2>1, FindKeepsData, KeptIsStillWritten, KeptIsUnseen DEF CInv
<1>3. CASE WriteLink
  <2>1. Writing /\ call' = call
    BY <1>3 DEF WriteLink, Writing
  <2>. QED  BY <1>3, <2>1, LinkKeepsData, KeptIsStillWritten, KeptIsUnseen DEF CInv
<1>4. CASE WriteMark
  <2>1. Writing /\ call' = call /\ disk_inode_region' = disk_inode_region /\ blk' = blk
    BY <1>4 DEF WriteMark, Writing
  <2>. QED  BY <2>1, SameImage, KeptIsStillWritten, KeptIsUnseen DEF CInv
<1>5. ASSUME disk_inode_region' = disk_inode_region, blk' = blk, ~Writing'
      PROVE  CInv'
  BY <1>5, SameImage, KeptIsUnseen DEF CInv, Written
<1>6. CASE WriteNoRoot \/ TruncateDirect \/ TruncateIndir1 \/ TruncateIndir2Table
           \/ TruncateIndir2 \/ Getattr \/ \E f \in Files : Truncate(f)
  BY <1>5, <1>6 DEF WriteNoRoot, Return, TruncateDirect, TruncateIndir1,
       TruncateIndir2Table, TruncateIndir2, Getattr, fs_init, Truncate, Writing, image
<1>7. CASE UNCHANGED vars
  <2>1. CASE Writing
    BY <1>7, <2>1, SameImage, KeptIsStillWritten, KeptIsUnseen DEF CInv, vars
  <2>2. CASE ~Writing
    BY <1>5, <1>7, <2>2 DEF vars, Writing
  <2>. QED  BY <2>1, <2>2
<1>. QED
  BY <1>1, <1>2, <1>3, <1>4, <1>6, <1>7, DataKeepsCInv, EndKeepsCInv,
     TruncateEndKeepsCInv DEF Next, WriteStep, TruncateStep

\* The words of the files are where they should be in every reachable state.
THEOREM ContentInvariance == Spec => [](IInv /\ CInv)
<1>1. Init => IInv /\ CInv
  BY InitIInv, InitCInv
<1>2. IInv /\ CInv /\ [Next]_vars => (IInv /\ CInv)'
  BY StepIInv, StepCInv
<1>. QED  BY <1>1, <1>2, PTL DEF Spec

\* Below its size a file has a block at every offset, in every state of the
\* image, whatever the geometry: the assertion blknum > 0 of WordAt
\* cannot fail, and a read never stops short.
THEOREM EveryWordHasABlock == Spec => []SizeCovered
<1>1. CInv => SizeCovered
  BY DEF CInv
<1>. QED  BY <1>1, ContentInvariance, PTL
-----------------------------------------------------------------------------
(***************************************************************************)
(* fs_read.                                                                *)
(***************************************************************************)
\* A function on 1 .. n is a sequence of length n.
LEMMA FunctionIsSeq ==
    ASSUME NEW n \in Nat, NEW S, NEW s \in [1 .. n -> S]
    PROVE  s \in Seq(S) /\ Len(s) = n
<1>1. s \in Seq(S)
  BY SeqDef
<1>2. DOMAIN s = 1 .. Len(s) /\ Len(s) \in Nat
  BY <1>1, LenProperties
<1>. QED  BY <1>1, <1>2

\* The words that a file shows.
Shown(f) == {Word(f, o) : o \in Nat}

\* The content of a file is the sequence of its words.
ContentIsWords ==
    \A f \in Files :
        /\ disk_inode_region[f].size \in Nat
        /\ content[f] \in Seq(Shown(f))
        /\ Len(content[f]) = disk_inode_region[f].size
        /\ \A i \in 1 .. disk_inode_region[f].size : content[f][i] = Word(f, i - 1)

\* It is in every well-formed state.
LEMMA ContentShape == TypeOK => ContentIsWords
<1>. SUFFICES ASSUME TypeOK, NEW f \in Files
              PROVE  /\ disk_inode_region[f].size \in Nat
                     /\ content[f] \in Seq(Shown(f))
                     /\ Len(content[f]) = disk_inode_region[f].size
                     /\ \A i \in 1 .. disk_inode_region[f].size :
                          content[f][i] = Word(f, i - 1)
  BY DEF ContentIsWords
<1>. DEFINE n == disk_inode_region[f].size
<1>1. n \in Nat
  BY DEF TypeOK, Inode
<1>2. content[f] = [i \in 1 .. n |-> Word(f, i - 1)]
  BY DEF content, Word
<1>3. content[f] \in [1 .. n -> Shown(f)]
  <2>1. \A i \in 1 .. n : Word(f, i - 1) \in Shown(f)
    BY DEF Shown
  <2>. QED  BY <1>2, <2>1
<1>4. content[f] \in Seq(Shown(f)) /\ Len(content[f]) = n
  BY <1>1, <1>3, FunctionIsSeq
<1>. QED  BY <1>1, <1>2, <1>4

\* Rest and quotient of an offset within a range that begins at a multiple.
LEMMA ShiftedOffset ==
    ASSUME NEW m \in Nat \ {0}, NEW c \in Int, NEW a \in Int
    PROVE  (a - c * m) \div m = (a \div m) - c /\ (a - c * m) % m = a % m
<1>. DEFINE q == a \div m
            r == a % m
            b == a - c * m
<1>1. q \in Int /\ r \in 0 .. m - 1 /\ a = m * q + r
  OBVIOUS
<1>. HIDE DEF q, r
<1>2. b = m * (q - c) + r /\ b \in Int /\ q - c \in Int
  <2>1. m * (q - c) = m * q - c * m /\ c * m \in Int /\ m * q \in Int
    BY <1>1
  <2>. QED  BY <1>1, <2>1
<1>. HIDE DEF b
<1>3. b \div m = q - c /\ b % m = r
  BY <1>1, <1>2, DivUnique
<1>. QED  BY <1>3 DEF b, q, r

\* The words from from to end of the range of a table's pointers.
Walk(ptr, from, end) ==
    [i \in 1 .. end - from |->
        blk[ptr[(from + i - 1) \div BLOCK_SIZE]][(from + i - 1) % BLOCK_SIZE]]

\* The loop of a level copies the whole of its range when no pointer is 0.
LEMMA LevelIsRead ==
    ASSUME NEW ptr, NEW n \in Nat, NEW from \in Nat, NEW len \in Int, NEW end \in Int,
           end = Smaller(from + len, n * BLOCK_SIZE),
           \A o \in from .. end - 1 : ptr[o \div BLOCK_SIZE] \in Blocks \ {0}
    PROVE  read_level(ptr, n, from, len) = Walk(ptr, from, end)
<1>1. {o \in from .. end - 1 : ptr[o \div BLOCK_SIZE] = 0} = {}
  OBVIOUS
<1>2. read_level(ptr, n, from, len) =
        [i \in 1 .. end - from |->
            fs_read_block(ptr[(from + i - 1) \div BLOCK_SIZE], (from + i - 1) % BLOCK_SIZE)]
  BY <1>1 DEF read_level
<1>3. ASSUME NEW i \in 1 .. end - from
      PROVE  fs_read_block(ptr[(from + i - 1) \div BLOCK_SIZE], (from + i - 1) % BLOCK_SIZE) =
             blk[ptr[(from + i - 1) \div BLOCK_SIZE]][(from + i - 1) % BLOCK_SIZE]
  <2>1. from + i - 1 \in from .. end - 1
    OBVIOUS
  <2>. QED  BY <2>1 DEF fs_read_block
<1>. QED  BY <1>2, <1>3 DEF Walk

\* The loop over a table.
LEMMA TableIsRead ==
    ASSUME NEW t \in Blocks \ {0}, NEW from \in Nat, NEW len \in Int, NEW end \in Int,
           end = Smaller(from + len, file_1st_level_sz),
           \A o \in from .. end - 1 : blk[t][o \div BLOCK_SIZE] \in Blocks \ {0}
    PROVE  fs_read_2nd_level(t, from + file_in_inode_sz, len) = Walk(blk[t], from, end)
<1>1. Table(t) = blk[t] /\ (from + file_in_inode_sz) - file_in_inode_sz = from
  BY Ranges DEF Table
<1>2. PTRS \in Nat /\ PTRS * BLOCK_SIZE = file_1st_level_sz
  BY GeometryAssumption DEF file_1st_level_sz
<1>3. read_level(blk[t], PTRS, from, len) = Walk(blk[t], from, end)
  BY <1>2, LevelIsRead
<1>4. fs_read_2nd_level(t, from + file_in_inode_sz, len) = read_level(blk[t], PTRS, from, len)
  BY <1>1 DEF fs_read_2nd_level
<1>. QED  BY <1>3, <1>4

\* File f leads to a block of the image at every offset from off to end.
Leads(f, off, end) ==
    /\ off \in Nat /\ end \in Nat /\ off < end /\ end <= MaxSize
    /\ \A p \in Paths : Ptr(f, p) \in Blocks
    /\ \A o \in off .. end - 1 : Ptr(f, PathOf(o)) # 0
SeenWords(f, off, end) == [i \in 1 .. end - off |-> WordAt(inode_region[f], off + i - 1)]

\* Each level reads what the file's inode leads to in its range.
LEMMA DirectIsRead ==
    ASSUME NEW f \in Files, NEW off, NEW end, Leads(f, off, end), off < file_in_inode_sz
    PROVE  fs_read_1st_level(inode_region[f], off, end - off) =
              SeenWords(f, off, Smaller(end, file_in_inode_sz))
<1>. DEFINE in == inode_region[f]
            e == Smaller(end, file_in_inode_sz)
            len == end - off
<1>1. off \in Nat /\ len \in Int /\ e \in Int /\ e <= end /\ e <= file_in_inode_sz
      /\ e = Smaller(off + len, N_DIRECT * BLOCK_SIZE) /\ N_DIRECT \in Nat
  BY Ranges, GeometryAssumption DEF Leads, Smaller, file_in_inode_sz
<1>. HIDE DEF e, len
<1>2. ASSUME NEW o \in off .. e - 1
      PROVE  /\ in.ptr[o \div BLOCK_SIZE] \in Blocks \ {0}
             /\ WordAt(in, o) = blk[in.ptr[o \div BLOCK_SIZE]][o % BLOCK_SIZE]
  <2>1. o \in Nat /\ o < file_in_inode_sz /\ o \in off .. end - 1 /\ o < MaxSize
    BY <1>1, Ranges DEF Leads
  <2>2. PathOf(o) = <<o \div BLOCK_SIZE, Nil, Nil>>
    BY <2>1 DEF PathOf
  <2>3. PathOf(o) \in Paths
    BY <2>1, PathOfIsLeaf, PathKinds
  <2>4. Deref(in, PathOf(o)) = in.ptr[o \div BLOCK_SIZE]
    BY <2>2 DEF Deref
  <2>. QED  BY <2>1, <2>3, <2>4 DEF Leads, Ptr, WordAt
<1>3. read_level(in.ptr, N_DIRECT, off, len) = Walk(in.ptr, off, e)
  <2>1. \A o \in off .. e - 1 : in.ptr[o \div BLOCK_SIZE] \in Blocks \ {0}
    BY <1>2
  <2>. HIDE DEF in
  <2>. QED  BY <1>1, <2>1, LevelIsRead
<1>4. ASSUME NEW i \in 1 .. e - off
      PROVE  WordAt(in, off + i - 1) =
             blk[in.ptr[(off + i - 1) \div BLOCK_SIZE]][(off + i - 1) % BLOCK_SIZE]
  <2>1. off + i - 1 \in off .. e - 1
    BY <1>1
  <2>. QED  BY <1>2, <2>1
<1>. QED  BY <1>3, <1>4 DEF fs_read_1st_level, Walk, SeenWords, e, len

LEMMA Indir1IsRead ==
    ASSUME NEW f \in Files, NEW off, NEW end, Leads(f, off, end),
           off \in file_in_inode_sz .. Level2 - 1
    PROVE  fs_read_2nd_level(inode_region[f].ptr[indir_1], off, end - off) =
              SeenWords(f, off, Smaller(end, Level2))
<1>. DEFINE in == inode_region[f]
            t == in.ptr[indir_1]
            e == Smaller(end, Level2)
            from == off - file_in_inode_sz
            len == end - off
            to == e - file_in_inode_sz
<1>1. /\ off \in Nat /\ end \in Nat /\ from \in Nat /\ len \in Int /\ to \in Int /\ e \in Int
      /\ e <= end /\ e <= Level2 /\ off < e /\ from + file_in_inode_sz = off
      /\ to = Smaller(from + len, file_1st_level_sz) /\ to - from = e - off
  <2>1. file_1st_level_sz \in Nat /\ Level2 = file_in_inode_sz + file_1st_level_sz
    BY GeometryAssumption DEF file_1st_level_sz, BLOCK_SIZE, Level2
  <2>. QED  BY <2>1, Ranges DEF Leads, Smaller
<1>2. BLOCK_SIZE \in Nat \ {0} /\ N_DIRECT \in Int /\ file_in_inode_sz = N_DIRECT * BLOCK_SIZE
      /\ file_in_inode_sz \in Nat
  BY GeometryAssumption, Ranges DEF BLOCK_SIZE, file_in_inode_sz
<1>. HIDE DEF e, from, len, to
<1>3. ASSUME NEW o \in off .. e - 1
      PROVE  LET o1 == o - file_in_inode_sz
             IN  /\ t \in Blocks \ {0} /\ blk[t][o1 \div BLOCK_SIZE] \in Blocks \ {0}
                 /\ WordAt(in, o) = blk[blk[t][o1 \div BLOCK_SIZE]][o1 % BLOCK_SIZE]
  <2>. DEFINE o1 == o - file_in_inode_sz
              i == o1 \div BLOCK_SIZE
  <2>1. o \in Nat /\ ~(o < file_in_inode_sz) /\ o < Level2 /\ o \in off .. end - 1 /\ o < MaxSize
    BY <1>1, <1>2, Ranges DEF Leads
  <2>2. PathOf(o) = <<indir_1, i, Nil>>
    BY <2>1 DEF PathOf
  <2>3. i \in Nat /\ i # Nil /\ o1 % BLOCK_SIZE = o % BLOCK_SIZE
    <3>1. o1 \in Nat
      BY <1>2, <2>1
    <3>2. o1 \div BLOCK_SIZE \in Nat
      BY <1>2, <3>1
    <3>3. (o - N_DIRECT * BLOCK_SIZE) % BLOCK_SIZE = o % BLOCK_SIZE
      <4>1. o \in Int /\ BLOCK_SIZE \in Nat \ {0} /\ N_DIRECT \in Int
        BY <1>2, <2>1
      <4>. QED  BY ONLY <4>1, ShiftedOffset
    <3>. QED  BY <1>2, <3>2, <3>3 DEF Nil
  <2>4. PathOf(o) \in Paths /\ <<indir_1, Nil, Nil>> \in Paths
    BY <2>1, PathOfIsLeaf, PathKinds DEF Paths
  <2>. HIDE DEF i, o1
  <2>5. Ptr(f, PathOf(o)) \in Blocks \ {0}
    BY <2>1, <2>4 DEF Leads
  <2>6. Ptr(f, PathOf(o)) = IF t = 0 THEN 0 ELSE blk[t][i]
    BY <2>2, <2>3 DEF Ptr, Deref
  <2>7. t \in Blocks
    BY <2>4 DEF Leads, Ptr, Deref
  <2>. QED  BY <2>3, <2>5, <2>6, <2>7 DEF WordAt, Ptr, i, o1
<1>4. t \in Blocks \ {0}
  <2>1. off \in off .. e - 1
    BY <1>1
  <2>. QED  BY <2>1, <1>3
<1>5. ASSUME NEW o \in from .. to - 1
      PROVE  blk[t][o \div BLOCK_SIZE] \in Blocks \ {0}
  <2>1. o + file_in_inode_sz \in off .. e - 1 /\ (o + file_in_inode_sz) - file_in_inode_sz = o
    BY <1>1, <1>2 DEF from, to
  <2>. QED  BY <2>1, <1>3
<1>6. fs_read_2nd_level(t, off, len) = Walk(blk[t], from, to)
  <2>. HIDE DEF t
  <2>. QED  BY <1>1, <1>4, <1>5, TableIsRead
<1>7. ASSUME NEW i \in 1 .. e - off
      PROVE  WordAt(in, off + i - 1) =
             blk[blk[t][(from + i - 1) \div BLOCK_SIZE]][(from + i - 1) % BLOCK_SIZE]
  <2>1. off + i - 1 \in off .. e - 1 /\ (off + i - 1) - file_in_inode_sz = from + i - 1
    BY <1>1, <1>2 DEF from
  <2>. QED  BY <2>1, <1>3
<1>8. Walk(blk[t], from, to) = SeenWords(f, off, e)
  BY <1>1, <1>7 DEF Walk, SeenWords
<1>. QED  BY <1>6, <1>8 DEF e, len

\* One table's part of the third level.
LEMMA PieceIsRead ==
    ASSUME NEW f \in Files, NEW off, NEW end, Leads(f, off, end), off >= Level2,
           NEW o \in off - Level2 .. end - Level2 - 1
    PROVE  LET B == file_1st_level_sz
               t == inode_region[f].ptr[indir_2]
               n == o \div B
               from == Larger(off - Level2, n * B)
               to == Smaller(end - Level2, (n + 1) * B)
               p == fs_read_2nd_level(Table(t)[n], (from % B) + file_in_inode_sz, to - from)
           IN  /\ o - from \in Nat /\ o - from < Len(p)
               /\ p[(o - from) + 1] = WordAt(inode_region[f], Level2 + o)
<1>. DEFINE in == inode_region[f]
            B == file_1st_level_sz
            r == in.ptr[indir_2]
            h == off - Level2
            e == end - Level2
            n == o \div B
            from == Larger(h, n * B)
            to == Smaller(e, (n + 1) * B)
            T == Table(r)[n]
            from1 == from % B
            to1 == to - n * B
            W(x) == blk[blk[T][x \div BLOCK_SIZE]][x % BLOCK_SIZE]
<1>1. /\ BLOCK_SIZE = PTRS /\ PTRS \in Nat \ {0} /\ N_DIRECT \in Nat /\ B = PTRS * PTRS
      /\ B \in Nat \ {0} /\ Level2 \in Nat /\ Level2 = (N_DIRECT + PTRS) * PTRS
      /\ file_in_inode_sz \in Nat /\ ~(Level2 < file_in_inode_sz)
  BY GeometryAssumption, Ranges
     DEF file_1st_level_sz, BLOCK_SIZE, Level2, file_in_inode_sz
<1>2. /\ h \in Nat /\ e \in Nat /\ h <= o /\ o < e /\ o \in Nat /\ off \in Nat /\ end \in Nat
      /\ e <= MaxSize - Level2 /\ MaxSize \in Nat
  BY <1>1, Ranges DEF Leads
<1>. HIDE DEF B, h, e
<1>3. n \in Nat /\ o = B * n + (o % B) /\ o % B \in 0 .. B - 1
  <2>1. B \in Nat \ {0} /\ o \in Nat
    BY <1>1, <1>2
  <2>. QED  BY ONLY <2>1
<1>. HIDE DEF n
<1>. DEFINE q == B * n
<1>4. n * B = q /\ (n + 1) * B = q + B /\ q \in Nat /\ q = B * n /\ o = q + (o % B)
  BY <1>1, <1>3
<1>. HIDE DEF q
<1>5. /\ from \in Nat /\ to \in Nat /\ from <= o /\ o < to /\ to <= e /\ h <= from
      /\ from - q \in 0 .. B - 1 /\ from = q + (from - q)
      /\ to1 \in Nat /\ to1 = to - q /\ to1 <= B
  BY <1>1, <1>2, <1>3, <1>4 DEF Larger, Smaller
<1>. HIDE DEF from, to, to1
<1>6. from1 = from - q
  <2>. DEFINE d == from - q
  <2>1. d \in 0 .. B - 1 /\ from = B * n + d /\ from \in Int /\ n \in Int /\ B \in Nat \ {0}
    BY <1>1, <1>3, <1>4, <1>5
  <2>. HIDE DEF d
  <2>2. from % B = d
    BY ONLY <2>1, DivUnique
  <2>. QED  BY <2>2 DEF d
<1>. HIDE DEF from1
<1>7. ASSUME NEW x \in from1 .. to1 - 1
      PROVE  /\ r \in Blocks \ {0} /\ T \in Blocks \ {0}
             /\ blk[T][x \div BLOCK_SIZE] \in Blocks \ {0}
             /\ WordAt(in, Level2 + (q + x)) = W(x)
  <2>. DEFINE a == Level2 + (q + x)
              j == x \div BLOCK_SIZE
  <2>0. B \in Nat /\ q \in Nat
    BY <1>1, <1>4
  <2>1. x \in 0 .. B - 1 /\ q + x \in h .. e - 1 /\ x \in Int
    BY <1>2, <1>5, <1>6, <2>0
  <2>2. a \in off .. end - 1 /\ a \in Nat /\ a < MaxSize /\ ~(a < Level2)
        /\ ~(a < file_in_inode_sz) /\ a - Level2 = q + x
    BY <1>1, <1>2, <2>1 DEF h, e
  <2>3. (q + x) \div B = n /\ (q + x) % B = x
    <3>. DEFINE y == q + x
    <3>1. y = B * n + x /\ y \in Int /\ n \in Int /\ B \in Nat \ {0}
      BY <1>1, <1>3, <1>4, <2>1
    <3>. HIDE DEF y
    <3>2. y \div B = n /\ y % B = x
      BY ONLY <2>1, <3>1, DivUnique
    <3>. QED  BY <3>2 DEF y
  <2>4. PathOf(a) = <<indir_2, n, j>>
    BY <2>2, <2>3 DEF PathOf, B
  <2>5. PathOf(a) \in Paths /\ PathOf(a) \in Leaves
    BY <2>2, PathOfIsLeaf, PathKinds
  <2>6. n \in Entries /\ j \in Entries
    <3>1. ASSUME NEW i \in Slots, <<i, Nil, Nil>> = PathOf(a) PROVE FALSE
      <4>1. n = Nil
        BY <2>4, <3>1
      <4>. QED  BY <4>1, <1>3 DEF Nil
    <3>2. PathOf(a) # <<indir_1, n, Nil>>
      BY <2>4, PathKinds
    <3>3. \E u \in Entries, v \in Entries : PathOf(a) = <<indir_2, u, v>>
      <4>1. \/ \E i \in 0 .. N_DIRECT - 1 : PathOf(a) = <<i, Nil, Nil>>
            \/ \E i \in Entries : PathOf(a) = <<indir_1, i, Nil>>
            \/ \E i \in Entries, v \in Entries : PathOf(a) = <<indir_2, i, v>>
        BY <2>5 DEF Leaves
      <4>2. 0 .. N_DIRECT - 1 \subseteq Slots
        BY <1>1 DEF Slots
      <4>3. ASSUME NEW i \in Entries, PathOf(a) = <<indir_1, i, Nil>> PROVE FALSE
        BY <4>3, <2>4, PathKinds
      <4>. QED  BY <3>1, <4>1, <4>2, <4>3
    <3>. QED  BY <2>4, <3>3
  <2>7. <<indir_2, n, Nil>> \in Paths /\ <<indir_2, Nil, Nil>> \in Paths
    BY <2>6, PathKinds DEF Paths
  <2>. HIDE DEF a, j
  <2>8. Ptr(f, PathOf(a)) \in Blocks \ {0}
    BY <2>2, <2>5 DEF Leads
  <2>9. r \in Blocks /\ Ptr(f, <<indir_2, n, Nil>>) \in Blocks
    BY <2>7, PtrOf, PathKinds DEF Leads
  <2>10. Ptr(f, <<indir_2, n, Nil>>) = IF r = 0 THEN 0 ELSE blk[r][n]
    BY <2>6, PathKinds, PtrOf2
  <2>11. Ptr(f, PathOf(a)) = IF Ptr(f, <<indir_2, n, Nil>>) = 0 THEN 0
                             ELSE blk[Ptr(f, <<indir_2, n, Nil>>)][j]
    BY <2>4, <2>6, PtrOf3
  <2>12. r # 0 /\ T = blk[r][n] /\ T = Ptr(f, <<indir_2, n, Nil>>) /\ T # 0
    BY <2>8, <2>9, <2>10, <2>11 DEF Table
  <2>13. blk[T][j] = Ptr(f, PathOf(a))
    BY <2>11, <2>12
  <2>14. a % BLOCK_SIZE = x % BLOCK_SIZE
    <3>. DEFINE c == (N_DIRECT + PTRS) + PTRS * n
    <3>1. c \in Int /\ a \in Int /\ BLOCK_SIZE \in Nat \ {0}
      BY <1>1, <1>3, <2>2
    <3>2. a - c * BLOCK_SIZE = x
      <4>1. c * BLOCK_SIZE = (N_DIRECT + PTRS) * PTRS + (PTRS * PTRS) * n
        BY <1>1, <1>3
      <4>2. a = (N_DIRECT + PTRS) * PTRS + ((PTRS * PTRS) * n + x)
        BY <1>1, <1>4 DEF a
      <4>3. (N_DIRECT + PTRS) * PTRS \in Int /\ (PTRS * PTRS) * n \in Int
        BY <1>1, <1>3
      <4>. QED  BY <4>1, <4>2, <4>3, <2>1
    <3>. HIDE DEF c
    <3>3. (a - c * BLOCK_SIZE) % BLOCK_SIZE = a % BLOCK_SIZE
      BY ONLY <3>1, ShiftedOffset
    <3>. QED  BY <3>2, <3>3
  <2>15. WordAt(in, a) = blk[Ptr(f, PathOf(a))][a % BLOCK_SIZE]
    BY DEF WordAt, Ptr
  <2>. HIDE DEF T, r
  <2>. QED  BY <2>8, <2>9, <2>12, <2>13, <2>14, <2>15 DEF a, j
<1>8. from1 \in Nat /\ from1 < to1 /\ to1 = Smaller(from1 + (to - from), B) /\ to - from \in Int
      /\ to1 - from1 = to - from /\ to - from \in Nat
      /\ o - from \in Nat /\ o - from < to - from /\ (o - from) + 1 \in 1 .. to1 - from1
  BY <1>1, <1>4, <1>5, <1>6 DEF Smaller
<1>9. T \in Blocks \ {0}
  <2>1. from1 \in from1 .. to1 - 1
    BY <1>5, <1>8
  <2>. QED  BY <2>1, <1>7
<1>10. fs_read_2nd_level(T, from1 + file_in_inode_sz, to - from) = Walk(blk[T], from1, to1)
  <2>1. \A x \in from1 .. to1 - 1 : blk[T][x \div BLOCK_SIZE] \in Blocks \ {0}
    BY <1>7
  <2>2. to1 = Smaller(from1 + (to - from), file_1st_level_sz)
    BY <1>8 DEF B
  <2>. HIDE DEF T
  <2>. DEFINE len == to - from
  <2>3. len \in Int /\ to1 \in Int /\ to1 = Smaller(from1 + len, file_1st_level_sz)
    BY <1>5, <1>8, <2>2
  <2>. HIDE DEF len
  <2>4. fs_read_2nd_level(T, from1 + file_in_inode_sz, len) = Walk(blk[T], from1, to1)
    BY <1>8, <1>9, <2>1, <2>3, TableIsRead
  <2>. QED  BY <2>4 DEF len
<1>11. /\ Len(Walk(blk[T], from1, to1)) = to - from
       /\ \A i \in 1 .. to1 - from1 : Walk(blk[T], from1, to1)[i] = W(from1 + i - 1)
  <2>. DEFINE m == to1 - from1
              w == Walk(blk[T], from1, to1)
  <2>1. m \in Nat
    BY <1>8
  <2>2. w = [i \in 1 .. m |-> W(from1 + i - 1)]
    BY DEF Walk
  <2>. HIDE DEF W, m
  <2>3. w \in [1 .. m -> {W(from1 + i - 1) : i \in 1 .. m}]
    BY <2>2
  <2>4. Len(w) = m
    BY <2>1, <2>3, FunctionIsSeq
  <2>. QED  BY <1>8, <2>2, <2>4 DEF m
<1>12. Walk(blk[T], from1, to1)[(o - from) + 1] = WordAt(in, Level2 + o)
  <2>. DEFINE x == from1 + ((o - from) + 1) - 1
  <2>1. x \in from1 .. to1 - 1 /\ q + x = o
    BY <1>2, <1>4, <1>5, <1>6, <1>8
  <2>2. Walk(blk[T], from1, to1)[(o - from) + 1] = W(x)
    <3>. HIDE DEF W
    <3>. QED  BY <1>8, <1>11
  <2>. HIDE DEF x, W, T
  <2>3. WordAt(in, Level2 + (q + x)) = W(x)
    BY <1>7, <2>1
  <2>. QED  BY <2>1, <2>2, <2>3
<1>. QED  BY <1>8, <1>10, <1>11, <1>12 DEF B, n, h, e, from, to, from1

LEMMA Indir2IsRead ==
    ASSUME NEW f \in Files, NEW off, NEW end, Leads(f, off, end), off >= Level2
    PROVE  fs_read_3rd_level(inode_region[f].ptr[indir_2], off, end - off) =
              SeenWords(f, off, end)
<1>. DEFINE in == inode_region[f]
            r == in.ptr[indir_2]
            h == off - Level2
            e == end - Level2
            B == file_1st_level_sz
            from(n) == Larger(h, n * B)
            piece(n) == fs_read_2nd_level(Table(r)[n], (from(n) % B) + file_in_inode_sz,
                            Smaller(e, (n + 1) * B) - from(n))
            word(o) == IF o - from(o \div B) < Len(piece(o \div B))
                       THEN piece(o \div B)[(o - from(o \div B)) + 1] ELSE Stale
<1>1. /\ off \in Nat /\ end \in Nat /\ Level2 \in Nat
      /\ off - file_1st_level_sz - file_in_inode_sz = h
      /\ e = Smaller(h + (end - off), file_2nd_level_sz) /\ e - h = end - off
  <2>1. file_1st_level_sz \in Nat /\ file_2nd_level_sz \in Nat
        /\ Level2 = file_in_inode_sz + file_1st_level_sz /\ MaxSize = Level2 + file_2nd_level_sz
    BY GeometryAssumption DEF file_1st_level_sz, file_2nd_level_sz, BLOCK_SIZE, Level2, MaxSize
  <2>. QED  BY <2>1, Ranges DEF Leads, Smaller
<1>2. fs_read_3rd_level(r, off, end - off) = [i \in 1 .. e - h |-> word(h + i - 1)]
  BY <1>1 DEF fs_read_3rd_level
<1>3. ASSUME NEW i \in 1 .. e - h
      PROVE  word(h + i - 1) = WordAt(in, off + i - 1)
  <2>. DEFINE o == h + i - 1
  <2>1. o \in off - Level2 .. end - Level2 - 1 /\ Level2 + o = off + i - 1
    BY <1>1
  <2>. HIDE DEF o
  <2>2. /\ o - from(o \div B) < Len(piece(o \div B))
        /\ piece(o \div B)[(o - from(o \div B)) + 1] = WordAt(in, Level2 + o)
    BY <2>1, PieceIsRead
  <2>3. word(o) = WordAt(in, Level2 + o)
    BY <2>2
  <2>. QED  BY <2>1, <2>3 DEF o
<1>. HIDE DEF word
<1>. QED  BY <1>1, <1>2, <1>3 DEF SeenWords

\* Nothing is read where nothing is asked for.
LEMMA NothingIsRead ==
    ASSUME NEW t, NEW off \in Nat
    PROVE  /\ fs_read_2nd_level(t, off, 0) = <<>>
           /\ fs_read_3rd_level(t, off, 0) = <<>>
<1>0. \A s : s \in [{} -> {}] => s = <<>>
  <2>. SUFFICES ASSUME NEW s \in [1 .. 0 -> {}] PROVE s = <<>>
    OBVIOUS
  <2>1. s \in Seq({}) /\ Len(s) = 0
    BY FunctionIsSeq
  <2>. QED  BY <2>1, EmptySeq
<1>1. /\ file_1st_level_sz \in Nat /\ file_2nd_level_sz \in Nat /\ file_in_inode_sz \in Nat
      /\ PTRS * BLOCK_SIZE = file_1st_level_sz
  BY GeometryAssumption, Ranges DEF file_1st_level_sz, file_2nd_level_sz, BLOCK_SIZE
<1>2. fs_read_2nd_level(t, off, 0) = <<>>
  <2>. DEFINE from == off - file_in_inode_sz
              end == Smaller(from + 0, file_1st_level_sz)
              m == end - from
  <2>1. from \in Int /\ end \in Int /\ end <= from /\ m \in Int /\ m <= 0
    BY <1>1 DEF Smaller
  <2>2. from .. end - 1 = {} /\ 1 .. m = {}
    BY <2>1
  <2>3. {o \in from .. end - 1 : Table(t)[o \div BLOCK_SIZE] = 0} = {}
    BY <2>2
  <2>4. fs_read_2nd_level(t, off, 0) =
          [i \in 1 .. m |-> fs_read_block(Table(t)[(from + i - 1) \div BLOCK_SIZE],
                                          (from + i - 1) % BLOCK_SIZE)]
    BY <1>1, <2>3 DEF fs_read_2nd_level, read_level
  <2>. HIDE DEF m
  <2>5. fs_read_2nd_level(t, off, 0) \in [{} -> {}]
    BY <2>2, <2>4
  <2>. QED  BY <1>0, <2>5
<1>3. fs_read_3rd_level(t, off, 0) = <<>>
  <2>. DEFINE h == off - file_1st_level_sz - file_in_inode_sz
              end == Smaller(h + 0, file_2nd_level_sz)
              m == end - h
  <2>1. 1 .. m = {}
    BY <1>1 DEF Smaller
  <2>2. PICK s : s = fs_read_3rd_level(t, off, 0)
    OBVIOUS
  <2>3. DOMAIN s = 1 .. m /\ s = [i \in 1 .. m |-> s[i]]
    BY <2>2 DEF fs_read_3rd_level
  <2>. HIDE DEF m
  <2>4. s \in [{} -> {}]
    BY <2>1, <2>3
  <2>. QED  BY <1>0, <2>2, <2>4
<1>. QED  BY <1>2, <1>3

\* The words from a to b are a sequence.
LEMMA StretchIsSeq ==
    ASSUME NEW f, NEW a \in Nat, NEW b \in Nat, a <= b
    PROVE  LET S == {WordAt(inode_region[f], o) : o \in Nat}
               w == SeenWords(f, a, b)
           IN  /\ w \in Seq(S) /\ Len(w) = b - a
               /\ \A i \in 1 .. b - a : w[i] = WordAt(inode_region[f], a + i - 1)
<1>. DEFINE S == {WordAt(inode_region[f], o) : o \in Nat}
            in == inode_region[f]
<1>1. b - a \in Nat
  OBVIOUS
<1>2. \A i \in 1 .. b - a : WordAt(in, a + i - 1) \in S
  <2>. SUFFICES ASSUME NEW i \in 1 .. b - a PROVE WordAt(in, a + i - 1) \in S
    OBVIOUS
  <2>1. a + i - 1 \in Nat
    BY <1>1
  <2>. QED  BY <2>1
<1>3. SeenWords(f, a, b) \in [1 .. b - a -> S]
  <2>. HIDE DEF S
  <2>. QED  BY <1>2 DEF SeenWords
<1>. QED  BY <1>1, <1>3, FunctionIsSeq DEF SeenWords

\* Two stretches of a file, one behind the other.
LEMMA StretchesJoin ==
    ASSUME NEW f, NEW a \in Nat, NEW b \in Nat, NEW c \in Nat, a <= b, b <= c
    PROVE  SeenWords(f, a, b) \o SeenWords(f, b, c) = SeenWords(f, a, c)
<1>. DEFINE S == {WordAt(inode_region[f], o) : o \in Nat}
            x == SeenWords(f, a, b)
            y == SeenWords(f, b, c)
            z == SeenWords(f, a, c)
<1>1. /\ x \in Seq(S) /\ Len(x) = b - a
      /\ \A i \in 1 .. b - a : x[i] = WordAt(inode_region[f], a + i - 1)
  BY StretchIsSeq
<1>2. /\ y \in Seq(S) /\ Len(y) = c - b
      /\ \A i \in 1 .. c - b : y[i] = WordAt(inode_region[f], b + i - 1)
  BY StretchIsSeq
<1>3. /\ z \in Seq(S) /\ Len(z) = c - a
      /\ \A i \in 1 .. c - a : z[i] = WordAt(inode_region[f], a + i - 1)
  <2>1. a <= c
    OBVIOUS
  <2>. QED  BY <2>1, StretchIsSeq
<1>. HIDE DEF x, y, z, S
<1>4. x \o y \in Seq(S) /\ Len(x \o y) = c - a
  BY <1>1, <1>2, ConcatProperties
<1>5. ASSUME NEW i \in 1 .. c - a PROVE (x \o y)[i] = z[i]
  <2>1. CASE i <= b - a
    <3>1. i \in 1 .. b - a /\ (x \o y)[i] = x[i]
      BY <1>1, <1>2, <2>1, ConcatProperties
    <3>. QED  BY <1>1, <1>3, <3>1
  <2>2. CASE ~(i <= b - a)
    <3>1. i - (b - a) \in 1 .. c - b /\ b + (i - (b - a)) - 1 = a + i - 1
      BY <2>2
    <3>2. (x \o y)[i] = y[i - (b - a)]
      BY <1>1, <1>2, <2>2, ConcatProperties
    <3>3. y[i - (b - a)] = WordAt(inode_region[f], b + (i - (b - a)) - 1)
      BY <1>2, <3>1
    <3>. QED  BY <1>3, <3>1, <3>2, <3>3
  <2>. QED  BY <2>1, <2>2
<1>. QED  BY <1>3, <1>4, <1>5, SeqEqual DEF x, y, z

\* The levels one after the other read the whole.
LEMMA LevelsAreRead ==
    ASSUME NEW f \in Files, NEW off, NEW end, Leads(f, off, end)
    PROVE  read_levels(inode_region[f], off, end) = SeenWords(f, off, end)
<1>. DEFINE in == inode_region[f]
            L1 == file_in_inode_sz
            first == IF off < L1 THEN fs_read_1st_level(in, off, end - off) ELSE <<>>
            off1 == off + Len(first)
            second == IF off1 \in L1 .. Level2 - 1
                      THEN fs_read_2nd_level(in.ptr[indir_1], off1, end - off1) ELSE <<>>
            off2 == off1 + Len(second)
            third == IF off2 \in Level2 .. MaxSize
                     THEN fs_read_3rd_level(in.ptr[indir_2], off2, end - off2) ELSE <<>>
            p1 == IF off < L1 THEN Smaller(end, L1) ELSE off
            p2 == IF p1 \in L1 .. Level2 - 1 THEN Smaller(end, Level2) ELSE p1
<1>1. /\ off \in Nat /\ end \in Nat /\ off < end /\ end <= MaxSize
      /\ L1 \in Nat /\ Level2 \in Nat /\ MaxSize \in Nat /\ L1 < Level2 /\ Level2 < MaxSize
  BY Ranges DEF Leads
<1>2. /\ p1 \in Nat /\ p2 \in Nat /\ off <= p1 /\ p1 <= p2 /\ p2 <= end
      /\ p2 < Level2 => p2 = end
  BY <1>1 DEF Smaller
<1>3. ASSUME NEW a \in Nat
      PROVE  /\ SeenWords(f, a, a) = <<>>
             /\ off <= a /\ a < end => Leads(f, a, end)
  <2>1. SeenWords(f, a, a) = <<>>
    <3>1. /\ SeenWords(f, a, a) \in Seq({WordAt(in, o) : o \in Nat})
          /\ Len(SeenWords(f, a, a)) = a - a
      <4>1. a <= a
        OBVIOUS
      <4>. QED  BY <4>1, StretchIsSeq
    <3>. QED  BY <3>1, EmptySeq
  <2>2. off <= a /\ a < end => Leads(f, a, end)
    BY <1>1 DEF Leads
  <2>. QED  BY <2>1, <2>2
<1>4. first = SeenWords(f, off, p1)
  BY <1>1, <1>3, DirectIsRead
<1>5. off1 = p1
  <2>. HIDE DEF p1, first
  <2>1. Len(SeenWords(f, off, p1)) = p1 - off
    BY <1>1, <1>2, StretchIsSeq
  <2>. QED  BY <1>1, <1>2, <1>4, <2>1
<1>. HIDE DEF first, off1
<1>6. second = SeenWords(f, p1, p2)
  <2>1. CASE p1 \in L1 .. Level2 - 1 /\ p1 < end
    <3>1. Leads(f, p1, end)
      BY <1>2, <1>3, <2>1
    <3>. HIDE DEF p1
    <3>. QED  BY <1>5, <2>1, <3>1, Indir1IsRead
  <2>2. CASE p1 \in L1 .. Level2 - 1 /\ ~(p1 < end)
    <3>1. p1 = end /\ p2 = p1 /\ end - off1 = 0
      BY <1>1, <1>2, <1>5, <2>2
    <3>. HIDE DEF p1, p2
    <3>. QED  BY <1>1, <1>2, <1>3, <1>5, <2>2, <3>1, NothingIsRead
  <2>3. CASE p1 \notin L1 .. Level2 - 1
    <3>1. second = <<>> /\ p2 = p1
      BY <1>5, <2>3
    <3>. HIDE DEF p1, p2, second
    <3>. QED  BY <1>2, <1>3, <3>1
  <2>. QED  BY <2>1, <2>2, <2>3
<1>. HIDE DEF p1, p2
<1>7. off2 = p2
  <2>. HIDE DEF second
  <2>1. Len(SeenWords(f, p1, p2)) = p2 - p1
    BY <1>2, StretchIsSeq
  <2>. QED  BY <1>2, <1>5, <1>6, <2>1
<1>. HIDE DEF second, off2
<1>8. third = SeenWords(f, p2, end)
  <2>1. CASE p2 \in Level2 .. MaxSize /\ p2 < end
    <3>1. Leads(f, p2, end)
      BY <1>1, <1>2, <1>3, <2>1
    <3>. QED  BY <1>7, <2>1, <3>1, Indir2IsRead
  <2>2. CASE p2 \in Level2 .. MaxSize /\ ~(p2 < end)
    <3>1. p2 = end /\ end - off2 = 0
      BY <1>1, <1>2, <1>7, <2>2
    <3>. QED  BY <1>1, <1>3, <1>7, <2>2, <3>1, NothingIsRead
  <2>3. CASE p2 \notin Level2 .. MaxSize
    <3>1. p2 = end /\ third = <<>>
      BY <1>1, <1>2, <1>7, <2>3
    <3>. HIDE DEF third
    <3>. QED  BY <1>1, <1>3, <3>1
  <2>. QED  BY <2>1, <2>2, <2>3
<1>9. read_levels(in, off, end) = first \o second \o third
  BY DEF read_levels, first, off1, second, off2
<1>. HIDE DEF third
<1>10. SeenWords(f, off, p1) \o SeenWords(f, p1, p2) = SeenWords(f, off, p2)
  BY <1>1, <1>2, StretchesJoin
<1>11. SeenWords(f, off, p2) \o SeenWords(f, p2, end) = SeenWords(f, off, end)
  <2>1. off <= p2
    BY <1>1, <1>2
  <2>. QED  BY <1>1, <1>2, <2>1, StretchesJoin
<1>. QED  BY <1>4, <1>6, <1>8, <1>9, <1>10, <1>11

\* Between calls fs_read finds a block for every word below the size.
LEMMA ReadIsExact ==
    ASSUME IInv, CInv, pc = "idle",
           NEW f \in Files, NEW off \in Nat, NEW len \in Nat \ {0}
    PROVE  LET c   == content[f]
               end == IF off + len > Len(c) THEN Len(c) ELSE off + len
           IN  fs_read(inode_region[f], len, off) = SubSeq(c, off + 1, end)
<1>. DEFINE size == disk_inode_region[f].size
            end == IF off + len > size THEN size ELSE off + len
            c == content[f]
            rd == fs_read(inode_region[f], len, off)
<1>1. /\ size \in Nat /\ c \in Seq(Shown(f)) /\ Len(c) = size
      /\ \A i \in 1 .. size : c[i] = Word(f, i - 1)
  BY ContentShape DEF IInv, ContentIsWords
<1>2. inode_region[f] = disk_inode_region[f]
  BY Seen DEF SeenInMemory
<1>3. end \in Int /\ end <= size
  BY <1>1
<1>4. CASE off >= size
  <2>1. rd = <<>>
    BY <1>2, <1>4 DEF fs_read
  <2>2. SubSeq(c, off + 1, end) = <<>>
    <3>. HIDE DEF end, size, c
    <3>. QED  BY <1>1, <1>3, <1>4, SubSeqEmpty
  <2>. QED  BY <1>1, <2>1, <2>2
<1>5. CASE ~(off >= size)
  <2>1. \A o \in off .. end - 1 : Deref(inode_region[f], PathOf(o)) # 0
    BY <1>1, <1>2, <1>3 DEF CInv, SizeCovered
  <2>2. rd = [i \in 1 .. end - off |-> Word(f, off + i - 1)]
    <3>1. Leads(f, off, end)
      <4>1. size <= MaxSize
        BY <1>2 DEF CInv, SizesBounded
      <4>2. \A p \in Paths : Ptr(f, p) \in Blocks
        BY PtrIsBlock DEF IInv
      <4>3. end \in Nat /\ off < end
        BY <1>1, <1>5
      <4>4. end <= MaxSize
        BY <1>1, <1>3, <4>1, Ranges
      <4>. HIDE DEF end
      <4>. QED  BY <2>1, <4>2, <4>3, <4>4 DEF Leads, Ptr
    <3>2. rd = read_levels(inode_region[f], off, end)
      <4>1. end = Smaller(off + len, inode_region[f].size)
        BY <1>1, <1>2, <1>5 DEF Smaller
      <4>. HIDE DEF end
      <4>. QED  BY <1>2, <1>5, <4>1 DEF fs_read
    <3>3. rd = SeenWords(f, off, end)
      <4>. HIDE DEF end, rd
      <4>. QED  BY <3>1, <3>2, LevelsAreRead
    <3>. HIDE DEF end, rd
    <3>. QED  BY <1>2, <3>3 DEF SeenWords, Word
  <2>3. end - off \in Nat /\ end \in 1 .. size /\ off + 1 \in 1 .. size
    BY <1>1, <1>5
  <2>. HIDE DEF end, size, c, rd
  <2>4. rd \in Seq(Shown(f)) /\ Len(rd) = end - off
    <3>1. \A i \in 1 .. end - off : Word(f, off + i - 1) \in Shown(f)
      <4>. SUFFICES ASSUME NEW i \in 1 .. end - off PROVE Word(f, off + i - 1) \in Shown(f)
        OBVIOUS
      <4>1. off + i - 1 \in Nat
        BY <2>3
      <4>. QED  BY <4>1 DEF Shown
    <3>. QED  BY <2>2, <2>3, <3>1, FunctionIsSeq
  <2>5. /\ SubSeq(c, off + 1, end) \in Seq(Shown(f))
        /\ Len(SubSeq(c, off + 1, end)) = end - off
        /\ \A i \in 1 .. end - off : SubSeq(c, off + 1, end)[i] = c[off + i]
    <3>1. \A i \in off + 1 .. end : c[i] \in Shown(f)
      BY <1>1, <2>3, ElementOfSeq
    <3>2. /\ SubSeq(c, off + 1, end) \in Seq(Shown(f))
          /\ Len(SubSeq(c, off + 1, end)) =
                IF off + 1 <= end THEN end - (off + 1) + 1 ELSE 0
          /\ \A i \in 1 .. end - (off + 1) + 1 :
                SubSeq(c, off + 1, end)[i] = c[off + 1 + i - 1]
      BY <2>3, <3>1, SubSeqProperties
    <3>3. /\ end - (off + 1) + 1 = end - off
          /\ ~(off + 1 <= end) => end - off = 0
      BY <2>3
    <3>4. \A i \in 1 .. end - off : off + 1 + i - 1 = off + i
      BY <2>3
    <3>. QED  BY <3>2, <3>3, <3>4
  <2>6. \A i \in 1 .. end - off : rd[i] = c[off + i]
    <3>. SUFFICES ASSUME NEW i \in 1 .. end - off PROVE rd[i] = c[off + i]
      OBVIOUS
    <3>1. off + i \in 1 .. size /\ off + i - 1 = (off + i) - 1
      BY <1>3, <2>3, <1>1
    <3>. QED  BY <1>1, <2>2, <3>1
  <2>7. rd = SubSeq(c, off + 1, end)
    BY <2>4, <2>5, <2>6, SeqEqual
  <2>. QED  BY <1>1, <2>7 DEF end, size, c, rd
<1>. QED  BY <1>4, <1>5

\* Between calls fs_read returns exactly the words that were asked for and
\* that the file has, at every offset and length and whatever levels of the
\* block tree the range touches.
THEOREM ReadsReturnTheContent == Spec => []ReadsAreExact
<1>1. IInv /\ CInv => ReadsAreExact
  <2>1. 1 .. MaxSize \subseteq Nat \ {0} /\ 0 .. MaxSize \subseteq Nat
    BY Ranges, GeometryAssumption
  <2>. QED  BY <2>1, ReadIsExact DEF ReadsAreExact
<1>. QED  BY <1>1, ContentInvariance, PTL
-----------------------------------------------------------------------------
(***************************************************************************)
(* The handlers implement ByteFile: every step of theirs is a step of it,  *)
(* or shows nothing.                                                       *)
(***************************************************************************)
\* The content before and after a step.
LEMMA ContentOf ==
    /\ content = [g \in Files |-> [i \in 1 .. disk_inode_region[g].size |-> Word(g, i - 1)]]
    /\ content' = [g \in Files |->
                      [i \in 1 .. disk_inode_region'[g].size |-> Word(g, i - 1)']]
BY DEF content, Word

\* The write in progress, as ByteFile sees it.
LEMMA OpOf ==
    ASSUME TypeOK
    PROVE  /\ Writing =>
                /\ op = [file |-> call.file, start |-> call.start,
                         len |-> call.off - call.start + call.len,
                         val |-> call.val, done |-> call.off - call.start]
                /\ op # Abstract!NoOp
           /\ ~Writing => op = Abstract!NoOp
           /\ Writing' => op' = [file |-> call'.file, start |-> call'.start,
                                 len |-> call'.off - call'.start + call'.len,
                                 val |-> call'.val, done |-> call'.off - call'.start]
           /\ ~Writing' => op' = Abstract!NoOp
<1>1. Writing => call.file \in Files /\ 0 \notin Files
  BY GeometryAssumption DEF TypeOK, Writing
<1>. QED  BY <1>1 DEF op, Writing, Abstract!NoOp

\* The files start empty.
LEMMA InitRefines == Init => Abstract!Init
<1>. SUFFICES ASSUME Init PROVE Abstract!Init
  OBVIOUS
<1>1. op = Abstract!NoOp
  BY DEF Init, op, Abstract!NoOp
<1>2. \A g \in Files : disk_inode_region[g].size = 0
  BY DEF Init, EmptyInode
<1>3. \A g \in Files : content[g] = <<>>
  BY <1>2, TypeInit, ContentShape, EmptySeq DEF ContentIsWords
<1>. QED  BY <1>1, <1>3, ContentOf DEF Abstract!Init

\* A write begins.
LEMMA WriteRefines ==
    ASSUME IInv, NEW f \in Files, NEW off \in 0 .. MaxSize, NEW len \in 1 .. MaxLen,
           NEW val \in Vals, Write(f, off, len, val)
    PROVE  Abstract!BeginWrite(f, off, len, val)
<1>1. /\ pc = "idle" /\ pc' = "write" /\ off <= inode_region[f].size
      /\ disk_inode_region' = disk_inode_region /\ blk' = blk
      /\ call' = [file |-> f, start |-> off, off |-> off, len |-> len, val |-> val]
  BY DEF Write, image
<1>2. off <= Len(content[f])
  BY <1>1, ContentShape DEF IInv, ContentIsWords, ImageFollows
<1>3. op = Abstract!NoOp
  BY <1>1, OpOf DEF IInv, Writing
<1>4. off - off + len = len /\ off - off = 0
  BY Ranges, GeometryAssumption
<1>5. op' = [file |-> f, start |-> off, len |-> len, val |-> val, done |-> 0]
  BY <1>1, <1>4, OpOf DEF IInv, Writing
<1>. QED  BY <1>1, <1>2, <1>3, <1>5, SameImage DEF Abstract!BeginWrite

\* Words are overwritten as far as the file goes.
LEMMA DataRefines ==
    ASSUME IInv, IInv', CInv, WriteData
    PROVE  \E n \in 1 .. MaxLen : Abstract!Progress(n)
<1>0. PICK f0 \in Files : f0 = call.file
  BY DataGoesToALeaf
<1>1. PICK n : n = DataLen
  OBVIOUS
<1>2. /\ call.off \in Nat /\ call.len \in Nat /\ call.start \in Nat
      /\ n \in Nat /\ n > 0 /\ n <= call.len /\ call.off + n <= MaxSize
      /\ call' = [call EXCEPT !.off = call.off + n, !.len = call.len - n]
  BY <1>1, DataLenBounds
<1>3. /\ pc = "write" /\ pc' = "write" /\ disk_inode_region' = disk_inode_region
      /\ Writing /\ Writing'
  BY DEF WriteData, Writing
<1>4. /\ call'.file = f0 /\ call'.start = call.start /\ call'.val = call.val
      /\ call'.off = call.off + n /\ call'.len = call.len - n
  BY <1>0, <1>2 DEF IInv, TypeOK
<1>5. call.start <= call.off /\ call.off - call.start + call.len <= MaxLen
  BY <1>3 DEF CInv, Written
<1>6. n \in 1 .. MaxLen
  BY <1>2, <1>5, GeometryAssumption
<1>7. op = [file |-> f0, start |-> call.start, len |-> call.off - call.start + call.len,
            val |-> call.val, done |-> call.off - call.start] /\ op # Abstract!NoOp
  BY <1>0, <1>3, OpOf DEF IInv
<1>8. op' = [op EXCEPT !.done = @ + n]
  <2>1. /\ call'.off - call'.start + call'.len = call.off - call.start + call.len
        /\ call'.off - call'.start = (call.off - call.start) + n
    BY <1>2, <1>4
  <2>2. op' = [file |-> f0, start |-> call.start,
               len |-> call.off - call.start + call.len, val |-> call.val,
               done |-> (call.off - call.start) + n]
    BY <1>3, <1>4, <2>1, OpOf DEF IInv
  <2>. QED  BY <1>7, <2>2
<1>9. /\ op.start + op.done = call.off /\ op.done + n <= op.len
      /\ op.file = f0 /\ op.val = call.val
  BY <1>2, <1>7
<1>10. content' = [content EXCEPT
          ![f0] = Abstract!Overwrite(@, call.off, call.off + n, call.val)]
  <2>1. ContentIsWords
    BY ContentShape DEF IInv
  <2>2. ASSUME NEW g \in Files, NEW i \in 1 .. disk_inode_region[g].size
        PROVE  Word(g, i - 1)' = IF g = f0 /\ call.off < i /\ i <= call.off + n
                                 THEN call.val ELSE Word(g, i - 1)
    <3>1. disk_inode_region[g].size \in Nat
      BY <2>1 DEF ContentIsWords
    <3>2. i - 1 \in 0 .. disk_inode_region[g].size - 1
      BY <3>1
    <3>3. i - 1 \in 0 .. MaxSize - 1 /\ Has(g, i - 1)
      BY <3>1, <3>2, Ranges DEF CInv, SizesBounded, SizeCovered, Has
    <3>4. Word(g, i - 1)' =
            IF g = f0 /\ call.off <= i - 1 /\ i - 1 < call.off + n
            THEN call.val ELSE Word(g, i - 1)
      BY <1>0, <1>1, <3>3, DataGoesWhereMeant
    <3>. QED  BY <1>2, <3>1, <3>4
  <2>3. \A g \in Files : g # f0 =>
          [i \in 1 .. disk_inode_region'[g].size |-> Word(g, i - 1)'] = content[g]
    BY <1>3, <2>2, ContentOf
  <2>4. [i \in 1 .. disk_inode_region'[f0].size |-> Word(f0, i - 1)'] =
          Abstract!Overwrite(content[f0], call.off, call.off + n, call.val)
    BY <1>3, <2>1, <2>2 DEF Abstract!Overwrite, ContentIsWords
  <2>5. \A g \in Files : content'[g] =
          IF g = f0 THEN Abstract!Overwrite(content[f0], call.off, call.off + n, call.val)
          ELSE content[g]
    BY <2>3, <2>4, ContentOf
  <2>. QED  BY <2>5, ContentOf
<1>11. Abstract!Progress(n)
  BY <1>2, <1>7, <1>8, <1>9, <1>10 DEF Abstract!Progress
<1>. QED  BY <1>6, <1>11

\* The words beyond the old end of the file show when the write returns.
LEMMA EndRefines ==
    ASSUME IInv, IInv', CInv, WriteEnd
    PROVE  Abstract!EndWrite
<1>0. PICK f0 \in Files : f0 = call.file
  BY EndRaisesSize
<1>1. Writing /\ ~Writing'
  BY DEF WriteEnd, Return, Writing
<1>2. call.off \in Nat /\ call.start \in Nat
      /\ \A g \in Files : disk_inode_region[g].size \in Nat
  BY DEF IInv, TypeOK, Inode
<1>3. /\ call.start <= disk_inode_region[f0].size
      /\ \A o \in call.start .. call.off - 1 : Word(f0, o) = call.val
  BY <1>0, <1>1 DEF CInv, Written
<1>4. op # Abstract!NoOp /\ op' = Abstract!NoOp
      /\ op.file = f0 /\ op.val = call.val /\ op.start + op.done = call.off
  BY <1>0, <1>1, <1>2, OpOf DEF IInv
<1>5. ContentIsWords
  BY ContentShape DEF IInv
<1>6. \A g \in Files :
        disk_inode_region'[g].size =
            IF g = f0 /\ call.off > disk_inode_region[g].size
            THEN call.off ELSE disk_inode_region[g].size
  BY <1>0, EndRaisesSize
<1>7. ASSUME NEW g \in Files, NEW i \in 1 .. disk_inode_region'[g].size
      PROVE  Word(g, i - 1)' = Word(g, i - 1)
  <2>1. i - 1 \in Nat
    BY <1>2, <1>6
  <2>. QED  BY <2>1, EndRaisesSize
<1>8. \A g \in Files : g # f0 => content'[g] = content[g]
  BY <1>6, <1>7, ContentOf
<1>9. [i \in 1 .. disk_inode_region'[f0].size |-> Word(f0, i - 1)'] =
        Abstract!Extend(content[f0], call.off, call.val)
  <2>. DEFINE size == disk_inode_region[f0].size
              size2 == disk_inode_region'[f0].size
  <2>1. size2 = IF call.off > Len(content[f0]) THEN call.off ELSE Len(content[f0])
    BY <1>5, <1>6 DEF ContentIsWords
  <2>2. ASSUME NEW i \in 1 .. size2
        PROVE  Word(f0, i - 1)' = IF i <= Len(content[f0]) THEN content[f0][i]
                                  ELSE call.val
    <3>1. Word(f0, i - 1)' = Word(f0, i - 1) /\ Len(content[f0]) = size
      BY <1>5, <1>7 DEF ContentIsWords
    <3>2. CASE i <= size
      BY <1>2, <1>5, <3>1, <3>2 DEF ContentIsWords
    <3>3. CASE ~(i <= size)
      <4>1. size2 = call.off /\ i \in Int
        BY <1>2, <1>6, <3>3
      <4>2. i - 1 \in call.start .. call.off - 1
        BY <1>2, <1>3, <3>3, <4>1
      <4>. QED  BY <1>3, <3>1, <3>3, <4>2
    <3>. QED  BY <3>2, <3>3
  <2>. QED  BY <2>1, <2>2 DEF Abstract!Extend
<1>10. content' = [content EXCEPT ![f0] = Abstract!Extend(@, call.off, call.val)]
  BY <1>8, <1>9, ContentOf
<1>. QED  BY <1>4, <1>10 DEF Abstract!EndWrite

\* Without a block for an indirect root, the write has stopped where a level
\* of the block tree ends.
LEMMA NoRootRefines ==
    ASSUME IInv, WriteNoRoot
    PROVE  Abstract!EndWithoutExtending
<1>1. /\ pc = "write" /\ pc' = "idle" /\ NeedsBlock /\ AtRoot
      /\ disk_inode_region' = disk_inode_region /\ blk' = blk
  BY DEF WriteNoRoot, Return, image
<1>2. call.off \in Nat /\ call.start \in Nat /\ call.off < MaxSize
      /\ Deref(inode, At) = 0
  BY <1>1 DEF IInv, TypeOK, NeedsBlock
<1>3. PathOf(call.off) \in Leaves
  BY <1>2, PathOfIsLeaf
<1>4. At[1] = PathOf(call.off)[1]
  BY DEF At, Hop
<1>5. ASSUME At = <<indir_1, Nil, Nil>>
      PROVE  call.off = file_in_inode_sz
  <2>1. inode.ptr[indir_1] = 0
    BY <1>2, <1>5 DEF Deref
  <2>2. ~(call.off > file_in_inode_sz)
    BY <1>1, <2>1 DEF IInv, RootsSet
  <2>3. ~(call.off < file_in_inode_sz)
    <3>. SUFFICES ASSUME call.off < file_in_inode_sz PROVE FALSE
      OBVIOUS
    <3>1. PathOf(call.off) = <<call.off \div BLOCK_SIZE, Nil, Nil>>
      BY DEF PathOf
    <3>. QED  BY <1>3, <1>4, <1>5, <3>1, PathKinds DEF Leaves
  <2>. QED  BY <1>2, <2>2, <2>3, Ranges
<1>6. ASSUME At = <<indir_2, Nil, Nil>>
      PROVE  call.off = Level2
  <2>1. inode.ptr[indir_2] = 0
    BY <1>2, <1>6 DEF Deref
  <2>2. ~(call.off > Level2)
    BY <1>1, <2>1 DEF IInv, RootsSet
  <2>3. ~(call.off < Level2)
    <3>. SUFFICES ASSUME call.off < Level2 PROVE FALSE
      OBVIOUS
    <3>1. \/ PathOf(call.off) = <<call.off \div BLOCK_SIZE, Nil, Nil>>
          \/ PathOf(call.off)[1] = indir_1
      BY DEF PathOf
    <3>. QED  BY <1>3, <1>4, <1>6, <3>1, PathKinds DEF Leaves
  <2>. QED  BY <1>2, <2>2, <2>3, Ranges
<1>7. call.off \in LevelEnds
  BY <1>1, <1>5, <1>6 DEF AtRoot, LevelEnds
<1>8. op # Abstract!NoOp /\ op' = Abstract!NoOp /\ op.start + op.done = call.off
  BY <1>1, <1>2, OpOf DEF IInv, Writing
<1>. QED  BY <1>1, <1>7, <1>8, SameImage DEF Abstract!EndWithoutExtending

\* A truncation shows in the image at once, when it ends.
LEMMA TruncateEndRefines ==
    ASSUME IInv, IInv', CInv, TruncateEnd
    PROVE  \E f \in Files : Abstract!Truncate(f)
<1>0. PICK f0 \in Files : f0 = call.file
  BY TruncateEmptiesOne
<1>1. ~Writing /\ ~Writing'
  BY DEF TruncateEnd, Return, Writing
<1>2. op = Abstract!NoOp /\ op' = op
  BY <1>1, OpOf DEF IInv
<1>3. ASSUME NEW g \in Files, g # f0
      PROVE  content'[g] = content[g]
  <2>1. disk_inode_region'[g] = disk_inode_region[g] /\ disk_inode_region[g].size \in Nat
    BY <1>0, <1>3, TruncateEmptiesOne DEF IInv, TypeOK, Inode
  <2>2. ASSUME NEW i \in 1 .. disk_inode_region[g].size
        PROVE  Word(g, i - 1)' = Word(g, i - 1)
    <3>1. i - 1 \in Nat
      BY <2>1
    <3>. QED  BY <1>0, <1>3, <3>1, TruncateEmptiesOne
  <2>. QED  BY <2>1, <2>2, ContentOf
<1>4. content'[f0] = <<>>
  <2>1. ContentIsWords'
    BY ContentShape, PTL DEF IInv
  <2>2. disk_inode_region'[f0].size = 0
    BY <1>0, TruncateEmptiesOne
  <2>. QED  BY <2>1, <2>2, EmptySeq DEF ContentIsWords
<1>5. content' = [content EXCEPT ![f0] = <<>>]
  BY <1>3, <1>4, ContentOf
<1>. QED  BY <1>2, <1>5 DEF Abstract!Truncate

\* Every step implements a step of ByteFile or a stutter.
LEMMA StepRefines == IInv /\ IInv' /\ CInv /\ [Next]_vars => [Abstract!Next]_<<content, op>>
<1>. SUFFICES ASSUME IInv, IInv', CInv, [Next]_vars
              PROVE  Abstract!Next \/ UNCHANGED <<content, op>>
  OBVIOUS
<1>1. ASSUME NEW f \in Files, NEW off \in 0 .. MaxSize, NEW len \in 1 .. MaxLen,
             NEW val \in Vals, Write(f, off, len, val)
      PROVE  Abstract!Next
  BY <1>1, WriteRefines DEF Abstract!Next
<1>2. CASE WriteFindBlock \/ WriteLink \/ WriteMark
  <2>1. Writing /\ Writing' /\ call' = call
    BY <1>2 DEF WriteFindBlock, WriteLink, WriteMark, Writing
  <2>2. DataKept
    <3>1. CASE WriteMark
      BY <3>1, SameImage DEF WriteMark
    <3>. QED  BY <1>2, <3>1, FindKeepsData, LinkKeepsData
  <2>3. content' = content
    BY <2>2, KeptIsUnseen
  <2>4. op' = op
    BY <2>1 DEF op, Writing
  <2>. QED  BY <2>3, <2>4
<1>3. CASE WriteData
  BY <1>3, DataRefines DEF Abstract!Next
<1>4. CASE WriteEnd
  BY <1>4, EndRefines DEF Abstract!Next
<1>5. CASE WriteNoRoot
  BY <1>5, NoRootRefines DEF Abstract!Next
<1>6. CASE \/ TruncateDirect \/ TruncateIndir1 \/ TruncateIndir2Table
           \/ TruncateIndir2 \/ Getattr \/ \E f \in Files : Truncate(f)
  <2>1. disk_inode_region' = disk_inode_region /\ blk' = blk /\ ~Writing /\ ~Writing'
    BY <1>6 DEF TruncateDirect, TruncateIndir1, TruncateIndir2Table, TruncateIndir2,
         Getattr, fs_init, Truncate, Writing, image
  <2>. QED  BY <2>1, SameImage, OpOf DEF IInv
<1>7. CASE TruncateEnd
  BY <1>7, TruncateEndRefines DEF Abstract!Next
<1>8. CASE UNCHANGED vars
  BY <1>8, SameImage DEF vars, op
<1>. QED
  BY <1>1, <1>2, <1>3, <1>4, <1>5, <1>6, <1>7, <1>8 DEF Next, WriteStep, TruncateStep

\* The block tree implements the file of words: for every number of files and
\* blocks and every geometry, what fs_read shows of the files is what ByteFile
\* allows - a write replaces the words it was given and no other, of no other
\* file, a write cut short shows what it reported, and a truncation takes
\* effect at once.
THEOREM BlockTreeIsByteFile == Spec => ImplementsByteFile
<1>1. Spec => Abstract!Init
  BY InitRefines DEF Spec
<1>2. IInv /\ CInv /\ (IInv /\ CInv)' /\ [Next]_vars => [Abstract!Next]_<<content, op>>
  BY StepRefines
<1>. QED  BY <1>1, <1>2, ContentInvariance, PTL DEF Spec, Abstract!Spec, ImplementsByteFile

-----------------------------------------------------------------------------
(***************************************************************************)
(* What FileBlocks's handlers lose: the blocks that a file holds are       *)
(* filled from the front (Filled), so fs_truncate, which stops at the      *)
(* first 0 of a table and goes by the size, misses no data                 *)
(* (LostHoldNoData).                                                       *)
(***************************************************************************)
\* The pointers of the image.
DPtr(f, p) == Deref(disk_inode_region[f], p)

\* The tables of the image are filled from the front: a block of data has all
\* those before it in its table, and a table of indir_2 has those before it full.
Filled ==
    \A f \in Files, i \in Entries :
        /\ DPtr(f, <<indir_1, i, Nil>>) # 0 =>
              \A i2 \in 0 .. i - 1 : DPtr(f, <<indir_1, i2, Nil>>) # 0
        /\ DPtr(f, <<indir_2, i, Nil>>) # 0 =>
              \A i2 \in 0 .. i - 1, j \in Entries : DPtr(f, <<indir_2, i2, j>>) # 0
        /\ \A j \in Entries : DPtr(f, <<indir_2, i, j>>) # 0 =>
              \A j2 \in 0 .. j - 1 : DPtr(f, <<indir_2, i, j2>>) # 0

\* File f has got beyond offset end, or is being written there.
Beyond(f, end) ==
    \/ disk_inode_region[f].size > end
    \/ /\ Writing /\ call.file = f
       /\ call.off > end \/ (call.off = end /\ call.len > 0)

\* Data lies in the blocks of a level only if the file has got there.
DataBelowSize ==
    \A f \in Files, i \in Entries :
        /\ DPtr(f, <<indir_1, i, Nil>>) # 0 => Beyond(f, file_in_inode_sz)
        /\ \A j \in Entries : DPtr(f, <<indir_2, i, j>>) # 0 => Beyond(f, Level2)

Truncating == pc \in {"direct", "indir_2", "clear"}

\* What fs_truncate has freed: the trees that the size says are there, and nothing
\* of the others; of indir_2's, the first k tables up to now.
Freed(f) ==
    LET size == disk_inode_region[f].size
    IN  /\ inode_region[f].size = size
        /\ \A s \in {indir_1, indir_2} : inode_region[f].ptr[s] = disk_inode_region[f].ptr[s]
        /\ pc = "indir_2" => size > Level2
        /\ pc \in {"indir_2", "clear"} /\ size > file_in_inode_sz =>
              \A p \in Paths : p[1] = indir_1 => DPtr(f, p) \notin block_map \ {0}
        /\ pc = "indir_2" => \A p \in Paths : p[1] = indir_2 /\ p[2] \in 0 .. k - 1 =>
              DPtr(f, p) \notin block_map \ {0}
        /\ pc = "clear" /\ size > Level2 =>
              \A p \in Paths : p[1] = indir_2 => DPtr(f, p) \notin block_map \ {0}
        /\ size <= Level2 =>
              \A p \in Paths : p[1] = indir_2 /\ DPtr(f, p) # 0 => DPtr(f, p) \in block_map

FreedBySize == Truncating => Freed(call.file)

\* A lost block leads to lost blocks.
LostInv == \A b \in Lost, i \in Entries : blk[b][i] \in Lost \cup {0}

\* The block that has been linked and not yet marked is in the file that is
\* being written.
LinkedIsHeld == pc = "mark" => \E p \in Paths : Ptr(call.file, p) = new

LInv == Filled /\ DataBelowSize /\ FreedBySize /\ LostInv /\ LinkedIsHeld
-----------------------------------------------------------------------------
(***************************************************************************)
(* Pointers of the image, and what a write finds below its offset.         *)
(***************************************************************************)
\* What a pointer of the image is, by the form of its path.
LEMMA DPtrOf ==
    ASSUME NEW f \in Files, NEW s \in Slots, NEW i \in Entries, NEW j \in Entries
    PROVE  /\ DPtr(f, <<s, Nil, Nil>>) = disk_inode_region[f].ptr[s]
           /\ DPtr(f, <<s, Nil, Nil>>) = 0 => DPtr(f, <<s, i, Nil>>) = 0
           /\ DPtr(f, <<s, Nil, Nil>>) # 0 =>
                DPtr(f, <<s, i, Nil>>) = blk[DPtr(f, <<s, Nil, Nil>>)][i]
           /\ DPtr(f, <<s, i, Nil>>) = 0 => DPtr(f, <<s, i, j>>) = 0
           /\ DPtr(f, <<s, i, Nil>>) # 0 =>
                DPtr(f, <<s, i, j>>) = blk[DPtr(f, <<s, i, Nil>>)][j]
BY PathKinds DEF DPtr, Deref

LEMMA DPtrOf3 ==
    ASSUME NEW f \in Files, NEW i \in Entries, NEW j \in Entries
    PROVE  DPtr(f, <<indir_2, i, j>>) =
              IF DPtr(f, <<indir_2, i, Nil>>) = 0 THEN 0
              ELSE blk[DPtr(f, <<indir_2, i, Nil>>)][j]
BY PathKinds DEF DPtr, Deref

\* Unless the file is being truncated, image and memory hold the same pointers.
LEMMA DPtrIsPtr ==
    ASSUME IInv, NEW f \in Files, ~(Truncating /\ call.file = f)
    PROVE  \A p : DPtr(f, p) = Ptr(f, p)
BY DEF IInv, ImageFollows, Truncating, DPtr, Ptr

\* fs_truncate leaves the trees of the image and of the memory the same till its
\* end.
LEMMA DPtrIsTree ==
    ASSUME IInv, FreedBySize, NEW f \in Files, NEW p, p[1] \in {indir_1, indir_2}
    PROVE  DPtr(f, p) = Ptr(f, p)
<1>1. CASE Truncating /\ call.file = f
  <2>1. inode_region[f].ptr[p[1]] = disk_inode_region[f].ptr[p[1]]
    BY <1>1 DEF FreedBySize, Freed
  <2>. QED  BY <2>1 DEF DPtr, Ptr, Deref
<1>. QED  BY <1>1, DPtrIsPtr

\* The blocks before a block of indir_1, and before one of indir_2.
LEMMA BlocksBefore ==
    ASSUME NEW i \in Entries, NEW j \in Entries
    PROVE  /\ BlockPath(N_DIRECT + i) = <<indir_1, i, Nil>>
           /\ BlockPath(N_DIRECT + PTRS + PTRS * i + j) = <<indir_2, i, j>>
           /\ N_DIRECT + PTRS + PTRS * i + j \in Nat
<1>. DEFINE q2 == PTRS * i + j
            q == N_DIRECT + PTRS + q2
<1>1. PTRS \in Nat \ {0} /\ N_DIRECT \in Nat \ {0} /\ i \in 0 .. PTRS - 1
      /\ j \in 0 .. PTRS - 1
  BY GeometryAssumption DEF Entries
<1>2. BlockPath(N_DIRECT + i) = <<indir_1, i, Nil>>
  BY <1>1 DEF BlockPath
<1>3. q2 \in Nat
  BY <1>1
<1>4. q2 \div PTRS = i /\ q2 % PTRS = j
  <2>1. q2 = PTRS * i + j
    OBVIOUS
  <2>. HIDE DEF q2
  <2>. QED  BY <1>1, <1>3, <2>1, DivUnique
<1>5. BlockPath(q) = <<indir_2, i, j>> /\ q \in Nat
  <2>. HIDE DEF q2
  <2>1. q - N_DIRECT - PTRS = q2 /\ ~(q < N_DIRECT) /\ ~(q < N_DIRECT + PTRS) /\ q \in Nat
    BY <1>1, <1>3
  <2>. QED  BY <1>4, <2>1 DEF BlockPath
<1>. QED  BY <1>2, <1>5, <1>1

\* A write has all the blocks before the one that it has reached.
LEMMA HasBefore ==
    ASSUME IInv, CInv, Writing, NEW q \in Nat, q < call.off \div BLOCK_SIZE
    PROVE  DPtr(call.file, BlockPath(q)) # 0
<1>. DEFINE f == call.file
            o == BLOCK_SIZE * q
            Q == call.off \div BLOCK_SIZE
<1>1. f \in Files /\ call.off \in Nat /\ call.start \in Nat
  BY DEF IInv, TypeOK, Writing
<1>2. BLOCK_SIZE \in Nat \ {0} /\ Q \in Nat
      /\ call.off = BLOCK_SIZE * Q + (call.off % BLOCK_SIZE)
      /\ call.off % BLOCK_SIZE \in Nat
  <2>1. /\ BLOCK_SIZE \in Nat \ {0} /\ Q \in Nat
        /\ call.off = BLOCK_SIZE * Q + (call.off % BLOCK_SIZE)
    BY <1>1, Offsets
  <2>2. call.off % BLOCK_SIZE \in Nat
    BY <1>1, <2>1
  <2>. QED  BY <2>1, <2>2
<1>3. o \in Nat /\ o < call.off
  <2>. HIDE DEF Q
  <2>1. 0 \in 0 .. BLOCK_SIZE - 1
    BY <1>2
  <2>2. BLOCK_SIZE * q + 0 < Q * BLOCK_SIZE
    BY <1>2, <2>1, BelowBlocks DEF Q
  <2>. QED  BY <1>1, <1>2, <2>2
<1>4. Has(f, o)
  <2>1. CASE o < call.start
    <3>1. o \in 0 .. disk_inode_region[f].size - 1
      <4>1. disk_inode_region[f].size \in Nat /\ call.start <= disk_inode_region[f].size
        BY <1>1 DEF IInv, TypeOK, Inode, CInv, Written
      <4>. HIDE DEF o
      <4>. QED  BY <1>1, <1>3, <2>1, <4>1
    <3>. HIDE DEF o
    <3>. QED  BY <1>1, <3>1 DEF CInv, SizeCovered, Has
  <2>2. CASE ~(o < call.start)
    <3>1. o \in call.start .. call.off - 1
      <4>. HIDE DEF o
      <4>. QED  BY <1>1, <1>3, <2>2
    <3>. HIDE DEF o
    <3>. QED  BY <3>1 DEF CInv, Written
  <2>. QED  BY <2>1, <2>2
<1>5. PathOf(o) = BlockPath(q)
  <2>1. o \div BLOCK_SIZE = q
    <3>1. o = BLOCK_SIZE * q + 0 /\ 0 \in 0 .. BLOCK_SIZE - 1
      BY <1>2, <1>3
    <3>. HIDE DEF o
    <3>. QED  BY <1>2, <1>3, <3>1, DivUnique
  <2>. HIDE DEF o
  <2>. QED  BY <1>3, <2>1, PathOfBlock
<1>. QED  BY <1>4, <1>5 DEF Has, DPtr

\* The pointer that a write is looking at is on the way to its offset's block;
\* which of the three ranges the offset is in.
LEMMA AtLeadsTo ==
    ASSUME IInv, Writing, call.off < MaxSize
    PROVE  /\ At[1] = PathOf(call.off)[1]
           /\ At[2] = PathOf(call.off)[2] \/ At[2] = Nil
           /\ At[3] = PathOf(call.off)[3] \/ At[3] = Nil
           /\ At \in Paths
           /\ At[1] = indir_1 => call.off >= file_in_inode_sz /\ call.off < Level2
           /\ At[1] = indir_2 => call.off >= Level2
<1>1. call.off \in Nat /\ PathOf(call.off) \in Leaves /\ call.file \in Files
  BY PathOfIsLeaf DEF IInv, TypeOK, Writing
<1>2. PathOf(call.off)[1] = indir_1 => call.off >= file_in_inode_sz /\ call.off < Level2
  <2>1. CASE call.off < file_in_inode_sz
    <3>1. PathOf(call.off)[2] = Nil
      BY <2>1 DEF PathOf
    <3>. QED  BY <1>1, <3>1, PathKinds DEF Leaves
  <2>2. CASE call.off >= Level2
    <3>1. ~(call.off < Level2) /\ ~(call.off < file_in_inode_sz)
      BY <1>1, <2>2, Ranges
    <3>2. PathOf(call.off)[1] = indir_2
      BY <3>1 DEF PathOf
    <3>. QED  BY <3>2, PathKinds
  <2>. QED  BY <1>1, <2>1, <2>2, Ranges
<1>3. PathOf(call.off)[1] = indir_2 => call.off >= Level2
  <2>1. CASE call.off < file_in_inode_sz
    <3>1. PathOf(call.off)[2] = Nil
      BY <2>1 DEF PathOf
    <3>. QED  BY <1>1, <3>1, PathKinds DEF Leaves
  <2>2. CASE ~(call.off < file_in_inode_sz) /\ call.off < Level2
    <3>2. PathOf(call.off)[1] = indir_1
      BY <2>2 DEF PathOf
    <3>. QED  BY <3>2, PathKinds
  <2>. QED  BY <1>1, <2>1, <2>2, Ranges
<1>4. At \in Paths
  BY AtIsPath DEF IInv, Writing
<1>. QED  BY <1>1, <1>2, <1>3, <1>4 DEF At, Hop

\* Where a write looks, all that comes before in the level is set.
LEMMA BeforeAtIsSet ==
    ASSUME IInv, CInv, Writing, call.off < MaxSize, NEW f, f = call.file
    PROVE  /\ \A i \in Entries : At = <<indir_1, i, Nil>> =>
                \A i2 \in 0 .. i - 1 : DPtr(f, <<indir_1, i2, Nil>>) # 0
           /\ \A i \in Entries : At = <<indir_2, i, Nil>> =>
                \A i2 \in 0 .. i - 1, j \in Entries : DPtr(f, <<indir_2, i2, j>>) # 0
           /\ \A i \in Entries, j \in Entries : At = <<indir_2, i, j>> =>
                /\ \A i2 \in 0 .. i - 1, j2 \in Entries : DPtr(f, <<indir_2, i2, j2>>) # 0
                /\ \A j2 \in 0 .. j - 1 : DPtr(f, <<indir_2, i, j2>>) # 0
<1>1. call.off \in Nat /\ PathOf(call.off) \in Leaves
  BY PathOfIsLeaf DEF IInv, TypeOK, Writing
<1>2. PICK q : q = call.off \div BLOCK_SIZE
  OBVIOUS
<1>3. q \in Nat /\ PathOf(call.off) = BlockPath(q)
  BY <1>1, <1>2, Offsets, PathOfBlock
<1>4. \A s \in Nat : s < q => DPtr(f, BlockPath(s)) # 0
  BY <1>2, HasBefore
<1>5. PTRS \in Nat \ {0} /\ N_DIRECT \in Nat \ {0} /\ Entries = 0 .. PTRS - 1
  BY GeometryAssumption DEF Entries
<1>6. ASSUME NEW i \in Entries, At = <<indir_1, i, Nil>>, NEW i2 \in 0 .. i - 1
      PROVE  DPtr(f, <<indir_1, i2, Nil>>) # 0
  <2>1. PathOf(call.off) = <<indir_1, i, Nil>>
    BY <1>1, <1>6, AtLeadsTo, PathKinds DEF Leaves
  <2>2. q = N_DIRECT + i
    <3>1. BlockPath(N_DIRECT + i) = <<indir_1, i, Nil>>
      BY BlocksBefore
    <3>2. N_DIRECT + i \in Nat
      BY <1>5
    <3>. QED  BY <1>3, <2>1, <3>1, <3>2, BlockPathInjective
  <2>3. i2 \in Entries /\ N_DIRECT + i2 < q /\ N_DIRECT + i2 \in Nat
    BY <1>5, <2>2
  <2>. QED  BY <1>4, <2>3, BlocksBefore
<1>7. ASSUME NEW i \in Entries, NEW j \in Entries, PathOf(call.off) = <<indir_2, i, j>>
      PROVE  /\ \A i2 \in 0 .. i - 1, j2 \in Entries : DPtr(f, <<indir_2, i2, j2>>) # 0
             /\ \A j2 \in 0 .. j - 1 : DPtr(f, <<indir_2, i, j2>>) # 0
  <2>1. q = N_DIRECT + PTRS + PTRS * i + j
    <3>. DEFINE q1 == N_DIRECT + PTRS + PTRS * i + j
    <3>1. BlockPath(q1) = <<indir_2, i, j>> /\ q1 \in Nat
      BY BlocksBefore
    <3>. HIDE DEF q1
    <3>2. q = q1
      BY <1>3, <1>7, <3>1, BlockPathInjective
    <3>. QED  BY <3>2 DEF q1
  <2>2. ASSUME NEW i2 \in 0 .. i - 1, NEW j2 \in Entries
        PROVE  DPtr(f, <<indir_2, i2, j2>>) # 0
    <3>1. PTRS * i2 + j2 < i * PTRS
      BY <1>5, BelowBlocks
    <3>2. N_DIRECT + PTRS + PTRS * i2 + j2 < q /\ i2 \in Entries
      BY <1>5, <2>1, <3>1
    <3>. QED  BY <1>4, <3>2, BlocksBefore
  <2>3. ASSUME NEW j2 \in 0 .. j - 1
        PROVE  DPtr(f, <<indir_2, i, j2>>) # 0
    <3>1. N_DIRECT + PTRS + PTRS * i + j2 < q /\ j2 \in Entries
      BY <1>5, <2>1
    <3>. QED  BY <1>4, <3>1, BlocksBefore
  <2>. QED  BY <2>2, <2>3
<1>8. ASSUME NEW i \in Entries, NEW j, At = <<indir_2, i, j>>
      PROVE  \E j1 \in Entries : /\ PathOf(call.off) = <<indir_2, i, j1>>
                                 /\ j # Nil => j1 = j
  BY <1>1, <1>8, AtLeadsTo, PathKinds DEF Leaves
<1>. QED  BY <1>6, <1>7, <1>8, PathKinds

\* Where a block is needed, the offset has none.
LEMMA NeedsMeansNone ==
    ASSUME IInv, Writing, NeedsBlock
    PROVE  DPtr(call.file, PathOf(call.off)) = 0
<1>1. call.off < MaxSize /\ Deref(inode, At) = 0 /\ call.file \in Files
  BY DEF NeedsBlock, IInv, TypeOK, Writing
<1>2. Deref(inode, PathOf(call.off)) = 0
  BY <1>1 DEF At, Hop, Deref
<1>. QED  BY <1>1, <1>2, DPtrIsPtr DEF Writing, Truncating, Ptr, inode

\* A write sets one pointer of the image.
LEMMA LinkSetsOneInImage ==
    ASSUME IInv, IInv', WriteLink
    PROVE  \A g \in Files, q \in Paths :
              DPtr(g, q)' = IF g = call.file /\ q = At THEN new ELSE DPtr(g, q)
<1>1. pc = "link" /\ pc' = "mark"
  BY DEF WriteLink
<1>2. \A g \in Files : \A q : DPtr(g, q) = Ptr(g, q)
  BY <1>1, DPtrIsPtr DEF Truncating
<1>3. \A g \in Files : \A q : DPtr(g, q)' = Ptr(g, q)'
  BY <1>1 DEF IInv, ImageFollows, DPtr, Ptr
<1>. QED  BY <1>2, <1>3, LinkSetsOne

\* The end of fs_truncate cuts off the trees of one file.
LEMMA EndCutsTrees ==
    ASSUME IInv, IInv', TruncateEnd, NEW g \in Files, NEW q \in Paths,
           q[1] \in {indir_1, indir_2}
    PROVE  /\ g = call.file => DPtr(g, q)' = 0
           /\ g # call.file => DPtr(g, q)' = DPtr(g, q)
<1>1. /\ pc = "clear" /\ pc' = "idle" /\ blk' = blk
      /\ inode_region' = [inode_region EXCEPT ![call.file] =
             [size |-> 0, ptr |-> [inode.ptr EXCEPT ![indir_1] = 0, ![indir_2] = 0]]]
      /\ update_inode(call.file)
  BY DEF TruncateEnd, Return
<1>2. call.file \in Files /\ inode_region \in [Files -> Inode]
      /\ inode = inode_region[call.file]
  BY <1>1 DEF IInv, TypeOK, inode
<1>3. CASE g = call.file
  <2>1. disk_inode_region'[g].ptr[q[1]] = 0
    <3>1. disk_inode_region'[g] = inode_region'[g]
      BY <1>1, <1>3 DEF update_inode
    <3>2. inode_region'[g].ptr = [inode.ptr EXCEPT ![indir_1] = 0, ![indir_2] = 0]
      BY <1>1, <1>2, <1>3
    <3>3. DOMAIN inode.ptr = Slots
      BY <1>2 DEF Inode
    <3>. QED  BY <3>1, <3>2, <3>3, PathKinds
  <2>. QED  BY <1>3, <2>1 DEF DPtr, Deref
<1>4. CASE g # call.file
  <2>1. disk_inode_region'[g] = disk_inode_region[g]
    BY <1>4, TruncateEmptiesOne
  <2>. QED  BY <1>1, <1>4, <2>1 DEF DPtr, Deref
<1>. QED  BY <1>3, <1>4

\* No other step changes a pointer of the image.
LEMMA OthersKeepPointers ==
    ASSUME IInv, IInv', [Next]_vars, ~WriteLink, ~TruncateEnd
    PROVE  \A g \in Files, q \in Paths : DPtr(g, q)' = DPtr(g, q)
<1>1. CASE disk_inode_region' = disk_inode_region /\ blk' = blk
  BY <1>1 DEF DPtr, Deref
<1>2. CASE WriteFindBlock \/ WriteData
  <2>1. Writing /\ Writing'
    BY <1>2 DEF WriteFindBlock, WriteData, Writing
  <2>2. \A g \in Files : \A q : DPtr(g, q) = Ptr(g, q)
    BY <2>1, DPtrIsPtr DEF Truncating, Writing
  <2>3. \A g \in Files : \A q : DPtr(g, q)' = Ptr(g, q)'
    BY <2>1 DEF IInv, ImageFollows, DPtr, Ptr, Writing
  <2>. QED  BY <1>2, <2>2, <2>3, FoundIsOutside, DataGoesToALeaf
<1>3. CASE WriteEnd
  <2>1. pc = "write" /\ pc' = "idle" /\ blk' = blk
    BY <1>3 DEF WriteEnd, Return
  <2>2. \A g \in Files : /\ disk_inode_region[g] = inode_region[g]
                         /\ disk_inode_region'[g] = inode_region'[g]
    BY <2>1 DEF IInv, ImageFollows
  <2>3. \A g \in Files : inode_region'[g].ptr = inode_region[g].ptr
    <3>1. inode_region' = inode_region
          \/ inode_region' = [inode_region EXCEPT ![call.file].size = call.off]
      BY <1>3 DEF WriteEnd
    <3>2. CASE inode_region' = [inode_region EXCEPT ![call.file].size = call.off]
      BY <3>2 DEF IInv, TypeOK, Inode
    <3>. QED  BY <3>1, <3>2
  <2>. QED  BY <2>1, <2>2, <2>3 DEF DPtr, Deref
<1>. QED
  BY <1>1, <1>2, <1>3
  DEF Next, WriteStep, TruncateStep, vars, Write, Truncate, Getattr, fs_init, WriteMark,
      WriteNoRoot, TruncateDirect, TruncateIndir1, TruncateIndir2Table, TruncateIndir2,
      mem, image
-----------------------------------------------------------------------------
(***************************************************************************)
(* The tables stay filled from the front.                                  *)
(***************************************************************************)
\* The paths of tables and their entries.
LEMMA TreePaths ==
    /\ \A i \in Entries, j \in Entries :
          /\ <<indir_1, i, Nil>> \in Paths /\ <<indir_2, i, Nil>> \in Paths
          /\ <<indir_2, i, j>> \in Paths
    /\ <<indir_1, Nil, Nil>> \in Paths /\ <<indir_2, Nil, Nil>> \in Paths
    /\ \A i \in Entries : \A i2 \in 0 .. i - 1 : i2 \in Entries
BY PathKinds, GeometryAssumption DEF Paths, Entries

\* A write sets the pointers of a level from the first to the last.
LEMMA LinkKeepsFilled ==
    ASSUME IInv, IInv', CInv, Filled, WriteLink
    PROVE  Filled'
<1>0. PICK f \in Files : f = call.file
  BY DEF IInv, TypeOK, WriteLink
<1>1. Writing /\ call.off < MaxSize /\ new # 0
  BY GeometryAssumption DEF WriteLink, Writing, IInv, FoundIsFresh, NeedsBlock
<1>2. PICK at \in Paths : at = At
  BY <1>1, AtLeadsTo
<1>3. \A g \in Files, q \in Paths :
        DPtr(g, q)' = IF g = f /\ q = at THEN new ELSE DPtr(g, q)
  BY <1>0, <1>2, LinkSetsOneInImage
<1>4. \A g \in Files, q \in Paths : DPtr(g, q) # 0 => DPtr(g, q)' # 0
  BY <1>1, <1>3
<1>5. \A g \in Files, q \in Paths : DPtr(g, q)' # 0 => DPtr(g, q) # 0 \/ (g = f /\ q = at)
  BY <1>3
<1>6. /\ \A i \in Entries : at = <<indir_1, i, Nil>> =>
            \A i2 \in 0 .. i - 1 : DPtr(f, <<indir_1, i2, Nil>>) # 0
      /\ \A i \in Entries : at = <<indir_2, i, Nil>> =>
            \A i2 \in 0 .. i - 1, j \in Entries : DPtr(f, <<indir_2, i2, j>>) # 0
      /\ \A i \in Entries, j \in Entries : at = <<indir_2, i, j>> =>
            \A j2 \in 0 .. j - 1 : DPtr(f, <<indir_2, i, j2>>) # 0
  BY <1>0, <1>1, <1>2, BeforeAtIsSet
<1>7. ASSUME NEW g \in Files, NEW i \in Entries
      PROVE  /\ DPtr(g, <<indir_1, i, Nil>>)' # 0 =>
                  \A i2 \in 0 .. i - 1 : DPtr(g, <<indir_1, i2, Nil>>)' # 0
             /\ DPtr(g, <<indir_2, i, Nil>>)' # 0 =>
                  \A i2 \in 0 .. i - 1, j \in Entries : DPtr(g, <<indir_2, i2, j>>)' # 0
             /\ \A j \in Entries : DPtr(g, <<indir_2, i, j>>)' # 0 =>
                  \A j2 \in 0 .. j - 1 : DPtr(g, <<indir_2, i, j2>>)' # 0
  <2>1. DPtr(g, <<indir_1, i, Nil>>)' # 0 =>
          \A i2 \in 0 .. i - 1 : DPtr(g, <<indir_1, i2, Nil>>)' # 0
    BY <1>4, <1>5, <1>6, TreePaths DEF Filled
  <2>2. ASSUME DPtr(g, <<indir_2, i, Nil>>)' # 0, NEW i2 \in 0 .. i - 1, NEW j \in Entries
        PROVE  DPtr(g, <<indir_2, i2, j>>)' # 0
    <3>1. <<indir_2, i, Nil>> \in Paths /\ <<indir_2, i2, j>> \in Paths
      BY TreePaths
    <3>2. DPtr(g, <<indir_2, i2, j>>) # 0
      <4>1. CASE DPtr(g, <<indir_2, i, Nil>>) # 0
        BY <4>1 DEF Filled
      <4>2. CASE g = f /\ <<indir_2, i, Nil>> = at
        BY <4>2, <1>6
      <4>. QED  BY <2>2, <3>1, <4>1, <4>2, <1>5
    <3>. QED  BY <1>4, <3>1, <3>2
  <2>3. ASSUME NEW j \in Entries, DPtr(g, <<indir_2, i, j>>)' # 0, NEW j2 \in 0 .. j - 1
        PROVE  DPtr(g, <<indir_2, i, j2>>)' # 0
    <3>1. <<indir_2, i, j>> \in Paths /\ <<indir_2, i, j2>> \in Paths
      BY TreePaths
    <3>2. DPtr(g, <<indir_2, i, j2>>) # 0
      <4>1. CASE DPtr(g, <<indir_2, i, j>>) # 0
        BY <4>1 DEF Filled
      <4>2. CASE g = f /\ <<indir_2, i, j>> = at
        BY <4>2, <1>6
      <4>. QED  BY <2>3, <3>1, <4>1, <4>2, <1>5
    <3>. QED  BY <1>4, <3>1, <3>2
  <2>. QED  BY <2>1, <2>2, <2>3
<1>. QED  BY <1>7 DEF Filled

\* A step that sets no pointer of a tree, and clears none or all of a file's.
LEMMA StepFilled ==
    ASSUME IInv, IInv', CInv, Filled, [Next]_vars
    PROVE  Filled'
<1>1. CASE WriteLink
  BY <1>1, LinkKeepsFilled
<1>2. CASE TruncateEnd
  <2>1. \A g \in Files, q \in Paths : q[1] \in {indir_1, indir_2} =>
          /\ g = call.file => DPtr(g, q)' = 0
          /\ g # call.file => DPtr(g, q)' = DPtr(g, q)
    BY <1>2, EndCutsTrees
  <2>2. ASSUME NEW g \in Files, NEW i \in Entries
        PROVE  /\ DPtr(g, <<indir_1, i, Nil>>)' # 0 =>
                    \A i2 \in 0 .. i - 1 : DPtr(g, <<indir_1, i2, Nil>>)' # 0
               /\ DPtr(g, <<indir_2, i, Nil>>)' # 0 =>
                    \A i2 \in 0 .. i - 1, j \in Entries : DPtr(g, <<indir_2, i2, j>>)' # 0
               /\ \A j \in Entries : DPtr(g, <<indir_2, i, j>>)' # 0 =>
                    \A j2 \in 0 .. j - 1 : DPtr(g, <<indir_2, i, j2>>)' # 0
    <3>1. CASE g = call.file
      <4>1. \A q \in Paths : q[1] \in {indir_1, indir_2} => DPtr(g, q)' = 0
        BY <2>1, <3>1
      <4>2. /\ DPtr(g, <<indir_1, i, Nil>>)' = 0
            /\ DPtr(g, <<indir_2, i, Nil>>)' = 0
            /\ \A j \in Entries : DPtr(g, <<indir_2, i, j>>)' = 0
        BY <4>1, TreePaths
      <4>. QED  BY <4>2
    <3>2. CASE g # call.file
      <4>1. \A q \in Paths : q[1] \in {indir_1, indir_2} => DPtr(g, q)' = DPtr(g, q)
        BY <2>1, <3>2
      <4>2. /\ \A a \in Entries : DPtr(g, <<indir_1, a, Nil>>)' = DPtr(g, <<indir_1, a, Nil>>)
            /\ \A a \in Entries : DPtr(g, <<indir_2, a, Nil>>)' = DPtr(g, <<indir_2, a, Nil>>)
            /\ \A a \in Entries, b \in Entries :
                  DPtr(g, <<indir_2, a, b>>)' = DPtr(g, <<indir_2, a, b>>)
        BY <4>1, TreePaths
      <4>. QED  BY <4>2, TreePaths DEF Filled
    <3>. QED  BY <3>1, <3>2
  <2>. QED  BY <2>2 DEF Filled
<1>3. CASE ~WriteLink /\ ~TruncateEnd
  <2>1. \A g \in Files, q \in Paths : DPtr(g, q)' = DPtr(g, q)
    BY <1>3, OthersKeepPointers
  <2>2. ASSUME NEW g \in Files, NEW i \in Entries
        PROVE  /\ DPtr(g, <<indir_1, i, Nil>>)' # 0 =>
                    \A i2 \in 0 .. i - 1 : DPtr(g, <<indir_1, i2, Nil>>)' # 0
               /\ DPtr(g, <<indir_2, i, Nil>>)' # 0 =>
                    \A i2 \in 0 .. i - 1, j \in Entries : DPtr(g, <<indir_2, i2, j>>)' # 0
               /\ \A j \in Entries : DPtr(g, <<indir_2, i, j>>)' # 0 =>
                    \A j2 \in 0 .. j - 1 : DPtr(g, <<indir_2, i, j2>>)' # 0
    <3>1. /\ \A a \in Entries : DPtr(g, <<indir_1, a, Nil>>)' = DPtr(g, <<indir_1, a, Nil>>)
          /\ \A a \in Entries : DPtr(g, <<indir_2, a, Nil>>)' = DPtr(g, <<indir_2, a, Nil>>)
          /\ \A a \in Entries, b \in Entries :
                DPtr(g, <<indir_2, a, b>>)' = DPtr(g, <<indir_2, a, b>>)
      BY <2>1, TreePaths
    <3>. QED  BY <3>1, TreePaths DEF Filled
  <2>. QED  BY <2>2 DEF Filled
<1>. QED  BY <1>1, <1>2, <1>3
-----------------------------------------------------------------------------
(***************************************************************************)
(* Data lies below the size or the offset of the running write.            *)
(***************************************************************************)
\* Where the ranges of the levels begin.
LEMMA LevelsBegin ==
    /\ PathOf(file_in_inode_sz) = <<indir_1, 0, Nil>>
    /\ PathOf(Level2) = <<indir_2, 0, 0>>
    /\ 0 \in Entries
<1>1. BLOCK_SIZE \in Nat \ {0} /\ file_1st_level_sz \in Nat \ {0} /\ 0 \in Entries
  <2>1. PTRS * PTRS \in Nat \ {0}
    BY GeometryAssumption
  <2>. QED  BY <2>1, GeometryAssumption DEF BLOCK_SIZE, file_1st_level_sz, Entries
<1>2. 0 \div BLOCK_SIZE = 0 /\ 0 \div file_1st_level_sz = 0 /\ 0 % file_1st_level_sz = 0
  BY <1>1
<1>. QED  BY <1>1, <1>2, Ranges DEF PathOf

\* A level without its first block has none.
LEMMA FirstIsAll ==
    ASSUME Filled, NEW f \in Files, NEW i \in Entries
    PROVE  /\ DPtr(f, <<indir_1, 0, Nil>>) = 0 => DPtr(f, <<indir_1, i, Nil>>) = 0
           /\ DPtr(f, <<indir_2, 0, 0>>) = 0 =>
                \A j \in Entries : DPtr(f, <<indir_2, i, j>>) = 0
<1>1. /\ 0 \in Entries
      /\ i = 0 \/ 0 \in 0 .. i - 1
      /\ \A j \in Entries : j = 0 \/ 0 \in 0 .. j - 1
  BY LevelsBegin, GeometryAssumption DEF Entries
<1>2. DPtr(f, <<indir_1, 0, Nil>>) = 0 => DPtr(f, <<indir_1, i, Nil>>) = 0
  BY <1>1 DEF Filled
<1>3. ASSUME DPtr(f, <<indir_2, 0, 0>>) = 0, NEW j \in Entries,
             DPtr(f, <<indir_2, i, j>>) # 0
      PROVE  FALSE
  <2>1. DPtr(f, <<indir_2, i, Nil>>) # 0
    <3>1. DPtr(f, <<indir_2, i, Nil>>) = 0 => DPtr(f, <<indir_2, i, j>>) = 0
      BY <1>3, PathKinds DEF DPtr, Deref
    <3>. QED  BY <1>3, <3>1
  <2>2. i = 0
    <3>1. \A i2 \in 0 .. i - 1, j2 \in Entries : DPtr(f, <<indir_2, i2, j2>>) # 0
      BY <2>1 DEF Filled
    <3>. QED  BY <1>1, <1>3, <3>1
  <2>. QED  BY <1>1, <1>3, <2>2 DEF Filled
<1>. QED  BY <1>2, <1>3

\* No data comes into a level, and files get no shorter.
LEMMA NoNewData ==
    ASSUME DataBelowSize,
           \A g \in Files, q \in Paths :
              q[1] \in {indir_1, indir_2} /\ DPtr(g, q)' # 0 => DPtr(g, q) # 0,
           \A g \in Files, end \in LevelEnds, i \in Entries, j \in Entries :
              Beyond(g, end) => \/ Beyond(g, end)'
                                \/ DPtr(g, <<indir_1, i, Nil>>)' = 0 /\ end = file_in_inode_sz
                                \/ DPtr(g, <<indir_2, i, j>>)' = 0 /\ end = Level2
    PROVE  DataBelowSize'
<1>1. file_in_inode_sz # Level2
  BY Ranges
<1>2. ASSUME NEW f \in Files, NEW i \in Entries
      PROVE  /\ DPtr(f, <<indir_1, i, Nil>>)' # 0 => Beyond(f, file_in_inode_sz)'
             /\ \A j \in Entries : DPtr(f, <<indir_2, i, j>>)' # 0 => Beyond(f, Level2)'
  <2>1. ASSUME DPtr(f, <<indir_1, i, Nil>>)' # 0
        PROVE  Beyond(f, file_in_inode_sz)'
    <3>1. DPtr(f, <<indir_1, i, Nil>>) # 0
      BY <2>1, TreePaths
    <3>2. Beyond(f, file_in_inode_sz)
      BY <3>1 DEF DataBelowSize
    <3>. QED  BY <1>1, <2>1, <3>2 DEF LevelEnds
  <2>2. ASSUME NEW j \in Entries, DPtr(f, <<indir_2, i, j>>)' # 0
        PROVE  Beyond(f, Level2)'
    <3>1. DPtr(f, <<indir_2, i, j>>) # 0
      BY <2>2, TreePaths
    <3>2. Beyond(f, Level2)
      BY <3>1 DEF DataBelowSize
    <3>. QED  BY <1>1, <2>2, <3>2 DEF LevelEnds
  <2>. QED  BY <2>1, <2>2
<1>. QED  BY <1>2 DEF DataBelowSize

\* A write that sets the pointer to a data block has data for it.
LEMMA LinkHasData ==
    ASSUME IInv, IInv', DataBelowSize, WriteLink
    PROVE  DataBelowSize'
<1>0. PICK f \in Files : f = call.file
  BY DEF IInv, TypeOK, WriteLink
<1>1. /\ Writing /\ Writing' /\ call.off < MaxSize /\ call' = call
      /\ AtRoot \/ call.len > 0
      /\ call.off \in Nat
  BY DEF WriteLink, Writing, IInv, FoundIsFresh, NeedsBlock, TypeOK
<1>2. PICK at \in Paths : at = At
  BY <1>1, AtLeadsTo
<1>3. \A g \in Files, q \in Paths :
        DPtr(g, q)' = IF g = f /\ q = at THEN new ELSE DPtr(g, q)
  BY <1>0, <1>2, LinkSetsOneInImage
<1>4. \A g \in Files : disk_inode_region'[g].size = disk_inode_region[g].size
  BY LinkKeepsData DEF DataKept
<1>5. \A g \in Files, end \in LevelEnds : Beyond(g, end) => Beyond(g, end)'
  BY <1>1, <1>4 DEF Beyond
<1>6. ASSUME at \in Leaves
      PROVE  /\ at[1] = indir_1 => Beyond(f, file_in_inode_sz)
             /\ at[1] = indir_2 => Beyond(f, Level2)
  <2>1. call.len > 0 /\ call.off \in Nat
    BY <1>1, <1>2, <1>6, PathKinds DEF AtRoot, Leaves, IInv, TypeOK
  <2>. QED  BY <1>0, <1>1, <1>2, <2>1, AtLeadsTo, Ranges DEF Beyond
<1>7. ASSUME NEW g \in Files, NEW i \in Entries
      PROVE  /\ DPtr(g, <<indir_1, i, Nil>>)' # 0 => Beyond(g, file_in_inode_sz)'
             /\ \A j \in Entries : DPtr(g, <<indir_2, i, j>>)' # 0 => Beyond(g, Level2)'
  <2>1. ASSUME DPtr(g, <<indir_1, i, Nil>>)' # 0
        PROVE  Beyond(g, file_in_inode_sz)'
    <3>1. Beyond(g, file_in_inode_sz)
      <4>1. CASE DPtr(g, <<indir_1, i, Nil>>) # 0
        BY <4>1 DEF DataBelowSize
      <4>2. CASE g = f /\ at = <<indir_1, i, Nil>>
        BY <4>2, <1>6 DEF Leaves
      <4>. QED  BY <1>3, <2>1, <4>1, <4>2, TreePaths
    <3>. QED  BY <1>5, <3>1 DEF LevelEnds
  <2>2. ASSUME NEW j \in Entries, DPtr(g, <<indir_2, i, j>>)' # 0
        PROVE  Beyond(g, Level2)'
    <3>1. Beyond(g, Level2)
      <4>1. CASE DPtr(g, <<indir_2, i, j>>) # 0
        BY <4>1 DEF DataBelowSize
      <4>2. CASE g = f /\ at = <<indir_2, i, j>>
        BY <4>2, <1>6 DEF Leaves
      <4>. QED  BY <1>3, <2>2, <4>1, <4>2, TreePaths
    <3>. QED  BY <1>5, <3>1 DEF LevelEnds
  <2>. QED  BY <2>1, <2>2
<1>. QED  BY <1>7 DEF DataBelowSize

\* A write that ends at the beginning of a level has put no data there.
LEMMA EndLeavesNone ==
    ASSUME IInv, IInv', Filled, DataBelowSize, WriteEnd
    PROVE  DataBelowSize'
<1>0. PICK f \in Files : f = call.file
  BY EndRaisesSize
<1>1. /\ pc = "write" /\ Writing /\ ~Writing' /\ ~WriteLink /\ ~TruncateEnd
      /\ call.off \in Nat /\ call.len \in Nat
      /\ \A g \in Files : disk_inode_region[g].size \in Nat
  BY DEF WriteEnd, Return, Writing, WriteLink, TruncateEnd, IInv, TypeOK, Inode
<1>2. \A g \in Files, q \in Paths : DPtr(g, q)' = DPtr(g, q)
  BY <1>1, OthersKeepPointers DEF Next, WriteStep
<1>3. \A g \in Files : disk_inode_region'[g].size =
          IF g = f /\ call.off > disk_inode_region[g].size
          THEN call.off ELSE disk_inode_region[g].size
  BY <1>0, EndRaisesSize
<1>4. ASSUME NEW end \in LevelEnds, call.off = end, call.len > 0
      PROVE  DPtr(f, PathOf(end)) = 0
  <2>1. NeedsBlock
    <3>1. call.off < MaxSize
      BY <1>1, <1>4, Ranges DEF LevelEnds
    <3>2. ~(call.len = 0 \/ call.off >= MaxSize)
      BY <1>1, <1>4, <3>1, Ranges
    <3>. QED  BY <3>2 DEF WriteEnd
  <2>. QED  BY <1>0, <1>1, <1>4, <2>1, NeedsMeansNone
<1>5. ASSUME NEW g \in Files, NEW end \in LevelEnds, NEW i \in Entries, NEW j \in Entries,
             Beyond(g, end)
      PROVE  \/ Beyond(g, end)'
             \/ DPtr(g, <<indir_1, i, Nil>>)' = 0 /\ end = file_in_inode_sz
             \/ DPtr(g, <<indir_2, i, j>>)' = 0 /\ end = Level2
  <2>0. end \in Nat
    BY Ranges DEF LevelEnds
  <2>1. CASE disk_inode_region[g].size > end \/ (g = f /\ call.off > end)
    <3>1. disk_inode_region'[g].size > end
      BY <1>1, <1>3, <2>0, <2>1
    <3>. QED  BY <3>1 DEF Beyond
  <2>2. CASE g = f /\ call.off = end /\ call.len > 0
    <3>1. DPtr(f, PathOf(end)) = 0
      BY <1>4, <2>2
    <3>2. CASE end = file_in_inode_sz
      <4>1. DPtr(f, <<indir_1, i, Nil>>) = 0
        BY <3>1, <3>2, LevelsBegin, FirstIsAll
      <4>. QED  BY <1>2, <2>2, <3>2, <4>1, TreePaths
    <3>3. CASE end = Level2
      <4>1. DPtr(f, <<indir_2, i, j>>) = 0
        BY <3>1, <3>3, LevelsBegin, FirstIsAll
      <4>. QED  BY <1>2, <2>2, <3>3, <4>1, TreePaths
    <3>. QED  BY <3>2, <3>3 DEF LevelEnds
  <2>. QED  BY <1>0, <1>5, <2>1, <2>2 DEF Beyond
<1>. QED  BY <1>2, <1>5, NoNewData

\* A write that finds no block for a root is at the beginning of its level, and
\* began below it (it is shorter than the level before).
LEMMA NoRootLeavesNone ==
    ASSUME MaxLen < file_1st_level_sz, IInv, IInv', CInv, DataBelowSize, WriteNoRoot
    PROVE  DataBelowSize'
<1>0. PICK f \in Files : f = call.file
  BY DEF WriteNoRoot, IInv, TypeOK
<1>1. /\ pc = "write" /\ Writing /\ ~Writing' /\ NeedsBlock /\ AtRoot
      /\ disk_inode_region' = disk_inode_region /\ blk' = blk
      /\ call.off \in Nat /\ call.len \in Nat /\ call.start \in Nat
      /\ call.off < MaxSize
      /\ \A g \in Files : disk_inode_region[g].size \in Nat
  BY DEF WriteNoRoot, Return, Writing, IInv, TypeOK, Inode, image, NeedsBlock
<1>2. \A g \in Files, q \in Paths : DPtr(g, q)' = DPtr(g, q)
  BY <1>1 DEF DPtr, Deref
<1>3. /\ call.start <= disk_inode_region[f].size
      /\ call.off - call.start + call.len <= MaxLen
  BY <1>0, <1>1 DEF CInv, Written
<1>4. PICK s \in {indir_1, indir_2} :
        /\ At = <<s, Nil, Nil>> /\ inode_region[f].ptr[s] = 0
        /\ DPtr(f, <<s, Nil, Nil>>) = 0
  <2>1. PICK s \in {indir_1, indir_2} : At = <<s, Nil, Nil>>
    BY <1>1 DEF AtRoot
  <2>2. Deref(inode, <<s, Nil, Nil>>) = 0 /\ s \in Slots
    BY <1>1, <2>1, PathKinds DEF NeedsBlock
  <2>3. inode_region[f].ptr[s] = 0
    BY <1>0, <2>2, PtrOf DEF inode, Ptr
  <2>4. DPtr(f, <<s, Nil, Nil>>) = 0
    BY <1>0, <1>1, <2>2, DPtrIsPtr DEF inode, Ptr, Writing, Truncating
  <2>. QED  BY <2>1, <2>3, <2>4
<1>5. /\ s = indir_1 => call.off = file_in_inode_sz
      /\ s = indir_2 => call.off = Level2
  BY <1>0, <1>1, <1>4, AtLeadsTo, Ranges DEF IInv, RootsSet, Writing, inode
<1>6. \A i \in Entries, j \in Entries :
        /\ s = indir_1 => DPtr(f, <<indir_1, i, Nil>>) = 0
        /\ s = indir_2 => DPtr(f, <<indir_2, i, j>>) = 0
  <2>. SUFFICES ASSUME NEW i \in Entries, NEW j \in Entries
                PROVE  DPtr(f, <<s, i, Nil>>) = 0 /\ DPtr(f, <<s, i, j>>) = 0
    OBVIOUS
  <2>1. s \in Slots
    BY PathKinds
  <2>2. DPtr(f, <<s, i, Nil>>) = 0
    BY <1>4, <2>1, DPtrOf
  <2>. QED  BY <2>1, <2>2, DPtrOf
<1>7. ASSUME NEW g \in Files, NEW end \in LevelEnds, NEW i \in Entries, NEW j \in Entries,
             Beyond(g, end)
      PROVE  \/ Beyond(g, end)'
             \/ DPtr(g, <<indir_1, i, Nil>>)' = 0 /\ end = file_in_inode_sz
             \/ DPtr(g, <<indir_2, i, j>>)' = 0 /\ end = Level2
  <2>1. CASE disk_inode_region[g].size > end
    BY <1>1, <2>1 DEF Beyond
  <2>2. CASE g = f /\ end = file_in_inode_sz /\ s = indir_2
    <3>1. disk_inode_region[f].size > end
      <4>1. Level2 = file_in_inode_sz + file_1st_level_sz /\ file_1st_level_sz \in Int
            /\ file_in_inode_sz \in Int
        BY Ranges, GeometryAssumption DEF Level2, file_1st_level_sz, BLOCK_SIZE
      <4>2. call.off = Level2 /\ end = file_in_inode_sz /\ MaxLen \in Nat
        BY <1>5, <2>2, GeometryAssumption
      <4>. QED  BY <1>1, <1>3, <4>1, <4>2
    <3>. QED  BY <2>1, <2>2, <3>1
  <2>3. CASE g = f /\ end = file_in_inode_sz /\ s = indir_1
    BY <1>2, <1>6, <2>3, TreePaths
  <2>4. CASE g = f /\ end = Level2 /\ s = indir_2
    BY <1>2, <1>6, <2>4, TreePaths
  <2>5. CASE g = f /\ end = Level2 /\ s = indir_1
    <3>1. ~(call.off > end) /\ call.off # end
      BY <1>1, <1>5, <2>5, Ranges
    <3>. QED  BY <1>7, <2>1, <3>1 DEF Beyond
  <2>. QED  BY <1>0, <1>7, <2>1, <2>2, <2>3, <2>4, <2>5 DEF Beyond, LevelEnds
<1>. QED  BY <1>2, <1>7, NoNewData

\* Every step leaves the data of the trees below the size of the file or the
\* offset of the write.
LEMMA StepDataBelowSize ==
    ASSUME MaxLen < file_1st_level_sz, IInv, IInv', CInv, Filled, DataBelowSize,
           [Next]_vars
    PROVE  DataBelowSize'
<1>1. CASE WriteLink
  BY <1>1, LinkHasData
<1>2. CASE WriteEnd
  BY <1>2, EndLeavesNone
<1>3. CASE WriteNoRoot
  BY <1>3, NoRootLeavesNone
<1>4. CASE TruncateEnd
  <2>1. ~Writing
    BY <1>4 DEF TruncateEnd, Writing
  <2>2. \A g \in Files, q \in Paths :
          q[1] \in {indir_1, indir_2} /\ DPtr(g, q)' # 0 => g # call.file /\ DPtr(g, q) # 0
    BY <1>4, EndCutsTrees
  <2>3. \A g \in Files : g # call.file => disk_inode_region'[g] = disk_inode_region[g]
    BY <1>4, TruncateEmptiesOne
  <2>4. ASSUME NEW g \in Files, NEW end \in LevelEnds, NEW i \in Entries, NEW j \in Entries,
               Beyond(g, end)
        PROVE  \/ Beyond(g, end)'
               \/ DPtr(g, <<indir_1, i, Nil>>)' = 0 /\ end = file_in_inode_sz
               \/ DPtr(g, <<indir_2, i, j>>)' = 0 /\ end = Level2
    <3>1. CASE g = call.file
      BY <2>2, <3>1, TreePaths DEF LevelEnds
    <3>2. CASE g # call.file
      BY <2>1, <2>3, <2>4, <3>2 DEF Beyond
    <3>. QED  BY <3>1, <3>2
  <2>. QED  BY <2>2, <2>4, NoNewData
<1>5. ASSUME ~WriteLink, ~TruncateEnd,
             \A g \in Files, end \in LevelEnds : Beyond(g, end) => Beyond(g, end)'
      PROVE  DataBelowSize'
  BY <1>5, OthersKeepPointers, NoNewData
<1>6. CASE WriteData
  <2>0. /\ pc = "write" /\ pc' = "write" /\ disk_inode_region' = disk_inode_region
        /\ ~WriteLink /\ ~TruncateEnd
    BY <1>6 DEF WriteData, WriteLink, TruncateEnd
  <2>1. PICK n : n = DataLen
    OBVIOUS
  <2>2. call.off \in Nat /\ call.len \in Nat /\ n \in Nat /\ n > 0
        /\ call' = [call EXCEPT !.off = call.off + n, !.len = call.len - n]
    BY <1>6, <2>1, DataLenBounds
  <2>3. call'.file = call.file /\ call'.off = call.off + n
    <3>1. call \in [file : Files \cup {0}, start : Nat, off : Nat, len : Nat,
                    val : Vals \cup {0}]
      BY DEF IInv, TypeOK
    <3>. QED  BY <2>2, <3>1
  <2>4. \A g \in Files, end \in LevelEnds : Beyond(g, end) => Beyond(g, end)'
    <3>1. \A end \in LevelEnds : end \in Nat
      BY Ranges DEF LevelEnds
    <3>2. ASSUME NEW end \in Nat, call.off > end \/ call.off = end
          PROVE  call'.off > end
      BY <2>2, <2>3, <3>2
    <3>. QED  BY <2>0, <2>3, <3>1, <3>2 DEF Beyond, Writing
  <2>. QED  BY <1>5, <2>0, <2>4
<1>7. ASSUME disk_inode_region' = disk_inode_region, Writing => Writing' /\ call' = call,
             ~WriteLink, ~TruncateEnd
      PROVE  DataBelowSize'
  BY <1>5, <1>7 DEF Beyond
<1>8. ASSUME NEW f \in Files, NEW off, NEW len, NEW val,
             Write(f, off, len, val) \/ Truncate(f)
      PROVE  DataBelowSize'
  BY <1>7, <1>8 DEF Write, Truncate, Writing, WriteLink, TruncateEnd, image
<1>9. CASE Getattr \/ WriteFindBlock \/ WriteMark \/ TruncateDirect \/ TruncateIndir1
           \/ TruncateIndir2Table \/ TruncateIndir2
  BY <1>7, <1>9 DEF Getattr, fs_init, WriteFindBlock, WriteMark, TruncateDirect,
     TruncateIndir1, TruncateIndir2Table, TruncateIndir2, Writing, WriteLink,
     TruncateEnd, image
<1>10. CASE UNCHANGED vars
  <2>1. CASE WriteLink \/ TruncateEnd
    BY <1>1, <1>4, <2>1
  <2>. QED  BY <1>7, <1>10, <2>1 DEF vars, Writing
<1>. QED
  BY <1>1, <1>2, <1>3, <1>4, <1>6, <1>8, <1>9, <1>10 DEF Next, WriteStep, TruncateStep
-----------------------------------------------------------------------------
(***************************************************************************)
(* What fs_truncate has freed.                                             *)
(***************************************************************************)
\* A truncation begins with nothing freed.
LEMMA TruncateFreesNone ==
    ASSUME IInv, NEW f \in Files, Truncate(f)
    PROVE  FreedBySize'
<1>1. /\ pc = "idle" /\ pc' = "direct" /\ call'.file = f
      /\ inode_region' = inode_region /\ block_map' = block_map
      /\ disk_inode_region' = disk_inode_region /\ blk' = blk
  BY DEF Truncate, NoCall, mem, image
<1>2. \A p \in Paths : DPtr(f, p) = Ptr(f, p) /\ DPtr(f, p)' = DPtr(f, p)
  BY <1>1 DEF IInv, ImageFollows, DPtr, Ptr, Deref
<1>3. \A p \in Paths : DPtr(f, p) # 0 => DPtr(f, p) \in block_map
  BY <1>1, <1>2 DEF IInv, HeldIsMarked, Freeing, Ptr
<1>4. inode_region[f] = disk_inode_region[f]
  BY <1>1 DEF IInv, ImageFollows
<1>. QED  BY <1>1, <1>2, <1>3, <1>4 DEF FreedBySize, Freed

\* A block of data is freed with its pointer; the trees stay.
LEMMA DirectFreesNoTree ==
    ASSUME IInv, FreedBySize, TruncateDirect
    PROVE  FreedBySize'
<1>0. PICK f \in Files : f = call.file
  BY DEF IInv, TypeOK, TruncateDirect
<1>. DEFINE d == inode.ptr[k]
            path == <<k, Nil, Nil>>
<1>1. /\ pc = "direct" /\ pc' = "direct" /\ k < N_DIRECT /\ d # 0
      /\ inode_region' = [inode_region EXCEPT ![f].ptr[k] = 0]
      /\ Free({d}) /\ blk' = blk /\ disk_inode_region' = disk_inode_region
      /\ call' = call
  BY <1>0 DEF TruncateDirect
<1>2. k \in Nat /\ inode_region \in [Files -> Inode]
      /\ inode = inode_region[f]
  BY <1>0, <1>1 DEF IInv, TypeOK, inode
<1>3. k \in Slots /\ k # indir_1 /\ k # indir_2 /\ path \in Paths
  BY <1>1, <1>2, GeometryAssumption DEF Slots, indir_1, indir_2, Paths
<1>4. /\ inode_region'[f].size = inode_region[f].size
      /\ \A s \in {indir_1, indir_2} : inode_region'[f].ptr[s] = inode_region[f].ptr[s]
  BY <1>1, <1>2, <1>3, PathKinds DEF Inode
<1>5. \A p \in Paths : DPtr(f, p)' = DPtr(f, p)
  BY <1>1 DEF DPtr, Deref
<1>6. \A p \in Paths : p[1] = indir_2 /\ DPtr(f, p) # 0 => DPtr(f, p) # d
  <2>1. d = Ptr(f, path)
    BY <1>2, <1>3, PtrOf
  <2>2. \A p \in Paths : p[1] = indir_2 => DPtr(f, p) = Ptr(f, p)
    BY <1>2, DPtrIsTree
  <2>3. \A q \in Paths : Ptr(f, q) = d => q = path
    BY <1>1, <1>2, <1>3, <2>1 DEF IInv, SoleOwner, Ptr
  <2>. HIDE DEF d
  <2>. QED  BY <1>3, <2>2, <2>3
<1>7. block_map' = block_map \ {d}
  BY <1>1 DEF Free
<1>8. Freed(f)
  BY <1>0, <1>1 DEF FreedBySize, Truncating
<1>9. Freed(f)'
  <2>. HIDE DEF d, path
  <2>1. \A p \in Paths : p[1] = indir_2 /\ DPtr(f, p) # 0 /\ DPtr(f, p) \in block_map =>
          DPtr(f, p) \in block_map'
    BY <1>6, <1>7
  <2>. QED  BY <1>1, <1>4, <1>5, <1>8, <2>1 DEF Freed
<1>. QED  BY <1>0, <1>1, <1>9 DEF FreedBySize

\* A table's entries are freed up to the first 0, so all that are set.
LEMMA TableIsFreed ==
    ASSUME NEW t \in Blocks, NEW i \in Entries, blk[t][i] # 0,
           \A i2 \in 0 .. i - 1 : blk[t][i2] # 0
    PROVE  blk[t][i] \in truncate_2nd_level(t)
<1>1. \A j \in 0 .. i : blk[t][j] # 0
  <2>1. \A j \in 0 .. i : j = i \/ j \in 0 .. i - 1
    BY GeometryAssumption DEF Entries
  <2>. QED  BY <2>1
<1>. QED  BY <1>1 DEF truncate_2nd_level

\* indir_1's tree is freed whole, and nothing of indir_2's.
LEMMA Indir1IsFreed ==
    ASSUME IInv, Filled, FreedBySize, TruncateIndir1
    PROVE  FreedBySize'
<1>0. PICK f \in Files : f = call.file
  BY DEF IInv, TypeOK, TruncateIndir1
<1>1. PICK size : size = disk_inode_region[f].size
  OBVIOUS
<1>2. /\ pc = "direct" /\ pc' = IF inode.size > Level2 THEN "indir_2" ELSE "clear"
      /\ k' = 0 /\ inode_region' = inode_region /\ disk_inode_region' = disk_inode_region
      /\ blk' = blk /\ call' = call /\ inode = inode_region[f]
  BY <1>0 DEF TruncateIndir1, inode
<1>3. Freed(f)
  BY <1>0, <1>2 DEF FreedBySize, Truncating
<1>4. /\ inode_region[f].size = size /\ inode.size = size /\ size \in Nat
      /\ inode_region[f].ptr[indir_1] = disk_inode_region[f].ptr[indir_1]
  BY <1>1, <1>2, <1>3 DEF Freed, IInv, TypeOK, Inode
<1>5. PICK t : t = inode_region[f].ptr[indir_1]
  OBVIOUS
<1>6. block_map' = IF size > file_in_inode_sz THEN block_map \ truncate_2nd_level(t)
                   ELSE block_map
  BY <1>2, <1>4, <1>5 DEF TruncateIndir1, Free
<1>7. \A p \in Paths : DPtr(f, p)' = DPtr(f, p)
  BY <1>2 DEF DPtr, Deref
<1>8. ASSUME size > file_in_inode_sz, NEW p \in Paths, p[1] = indir_1
      PROVE  DPtr(f, p) \notin block_map' \ {0}
  <2>1. t # 0 /\ t \in Blocks /\ DPtr(f, <<indir_1, Nil, Nil>>) = t
    <3>1. t # 0
      BY <1>4, <1>5, <1>8 DEF IInv, RootsSet
    <3>2. t \in Blocks
      BY <1>5, PathKinds DEF IInv, TypeOK, Inode
    <3>3. DPtr(f, <<indir_1, Nil, Nil>>) = t
      BY <1>4, <1>5 DEF DPtr, Deref
    <3>. QED  BY <3>1, <3>2, <3>3
  <2>2. CASE p = <<indir_1, Nil, Nil>>
    BY <1>6, <1>8, <2>1, <2>2 DEF truncate_2nd_level
  <2>3. ASSUME NEW i \in Entries, p = <<indir_1, i, Nil>>
        PROVE  DPtr(f, p) \notin block_map' \ {0}
    <3>1. \A a \in Entries : DPtr(f, <<indir_1, a, Nil>>) = blk[t][a]
      BY <1>4, <1>5, <2>1, PathKinds DEF DPtr, Deref
    <3>2. blk[t][i] # 0 => \A i2 \in 0 .. i - 1 : blk[t][i2] # 0
      BY <3>1, TreePaths DEF Filled
    <3>3. blk[t][i] # 0 => blk[t][i] \in truncate_2nd_level(t)
      BY <2>1, <3>2, TableIsFreed
    <3>. QED  BY <1>6, <1>8, <2>3, <3>1, <3>3
  <2>4. p = <<indir_1, Nil, Nil>> \/ \E i \in Entries : p = <<indir_1, i, Nil>>
    BY <1>8, PathForms, PathKinds
  <2>. QED  BY <2>2, <2>3, <2>4
<1>9. ASSUME NEW p \in Paths, p[1] = indir_2, DPtr(f, p) # 0, DPtr(f, p) \in block_map
      PROVE  DPtr(f, p) \in block_map'
  <2>1. CASE size > file_in_inode_sz
    <3>1. t # 0 /\ Free(truncate_2nd_level(t))
      BY <1>2, <1>4, <1>5, <2>1 DEF TruncateIndir1, IInv, RootsSet
    <3>2. \A b \in truncate_2nd_level(t) :
            \E q \in Paths : b = Ptr(f, q) /\ b # 0 /\ q[1] \in {indir_1}
      BY <1>5, <3>1, FreedBelowIndir1 DEF IInv
    <3>3. DPtr(f, p) = Ptr(f, p)
      BY <1>9, DPtrIsTree
    <3>4. p[1] \notin {indir_1}
      BY <1>9, PathKinds
    <3>5. \A q \in Paths : Ptr(f, q) \in block_map /\ q[1] \notin {indir_1} =>
            Ptr(f, q) = 0 \/ Ptr(f, q) \in block_map'
      <4>1. TypeOK /\ SoleOwner /\ HeldIsMarked /\ ReservedMarked
        BY DEF IInv
      <4>2. \A g \in Files, q \in Paths :
              Ptr(g, q) \in block_map /\ ~(g = f /\ q[1] \in {indir_1})
                  => Ptr(g, q) = 0 \/ Ptr(g, q) \in block_map'
        BY <3>1, <3>2, <4>1, FreeOnlyOwn
      <4>. QED  BY <4>2
    <3>. QED  BY <1>9, <3>3, <3>4, <3>5
  <2>2. CASE ~(size > file_in_inode_sz)
    BY <1>6, <1>9, <2>2
  <2>. QED  BY <2>1, <2>2
<1>10. Freed(f)'
  <2>1. \A p \in Paths : p[1] = indir_2 /\ p[2] \in 0 .. k' - 1 => FALSE
    <3>1. 0 .. k' - 1 = {}
      BY <1>2
    <3>. QED  BY <3>1
  <2>2. disk_inode_region'[f].size = size /\ inode_region'[f].size = size
        /\ \A s \in {indir_1, indir_2} :
              inode_region'[f].ptr[s] = disk_inode_region'[f].ptr[s]
    BY <1>1, <1>2, <1>3, <1>4 DEF Freed
  <2>3. pc' = "indir_2" => size > Level2
    BY <1>2, <1>4
  <2>4. size > file_in_inode_sz => \A p \in Paths : p[1] = indir_1 =>
            DPtr(f, p)' \notin block_map' \ {0}
    BY <1>7, <1>8
  <2>5. ~(pc' = "clear" /\ size > Level2)
    BY <1>2, <1>4
  <2>6. size <= Level2 => \A p \in Paths : p[1] = indir_2 /\ DPtr(f, p)' # 0 =>
            DPtr(f, p)' \in block_map'
    <3>1. size <= Level2 => \A p \in Paths : p[1] = indir_2 /\ DPtr(f, p) # 0 =>
            DPtr(f, p) \in block_map
      BY <1>1, <1>3 DEF Freed
    <3>. QED  BY <1>7, <1>9, <3>1
  <2>. QED  BY <2>1, <2>2, <2>3, <2>4, <2>5, <2>6 DEF Freed
<1>. QED  BY <1>0, <1>2, <1>10 DEF FreedBySize

\* The tables of indir_2 are freed one by one, each whole.
LEMMA Indir2TableIsFreed ==
    ASSUME IInv, Filled, FreedBySize, TruncateIndir2Table
    PROVE  FreedBySize'
<1>0. PICK f \in Files : f = call.file
  BY DEF IInv, TypeOK, TruncateIndir2Table
<1>1. PICK size : size = disk_inode_region[f].size
  OBVIOUS
<1>2. /\ pc = "indir_2" /\ pc' = "indir_2" /\ k < PTRS /\ k' = k + 1
      /\ inode_region' = inode_region /\ disk_inode_region' = disk_inode_region
      /\ blk' = blk /\ call' = call /\ inode = inode_region[f]
  BY <1>0 DEF TruncateIndir2Table, inode
<1>3. Freed(f)
  BY <1>0, <1>2 DEF FreedBySize, Truncating
<1>4. k \in Entries /\ size \in Nat /\ size > Level2
  BY <1>1, <1>2, <1>3, GeometryAssumption DEF Freed, IInv, TypeOK, Inode, Entries
<1>5. PICK t : t = blk[inode.ptr[indir_2]][k]
  OBVIOUS
<1>6. t # 0 /\ block_map' = block_map \ truncate_2nd_level(t)
  BY <1>5 DEF TruncateIndir2Table, Free
<1>7. \A p \in Paths : DPtr(f, p)' = DPtr(f, p)
  BY <1>2 DEF DPtr, Deref
<1>8. DPtr(f, <<indir_2, k, Nil>>) = t /\ t \in Blocks
  <2>1. inode.ptr[indir_2] # 0
    BY <1>2 DEF IInv, RootsSet
  <2>2. Ptr(f, <<indir_2, k, Nil>>) = t
    BY <1>2, <1>4, <1>5, <2>1, PtrOf2, PathKinds
  <2>3. DPtr(f, <<indir_2, k, Nil>>) = t
    BY <2>2, DPtrIsTree
  <2>. QED  BY <1>4, <2>2, <2>3, PtrIsBlock, TreePaths DEF IInv
<1>9. ASSUME NEW p \in Paths, p[1] = indir_2, p[2] = k
      PROVE  DPtr(f, p) \notin block_map' \ {0}
  <2>1. CASE p = <<indir_2, k, Nil>>
    BY <1>6, <1>8, <2>1 DEF truncate_2nd_level
  <2>2. ASSUME NEW j \in Entries, p = <<indir_2, k, j>>
        PROVE  DPtr(f, p) \notin block_map' \ {0}
    <3>1. ASSUME NEW a \in Entries
          PROVE  DPtr(f, <<indir_2, k, a>>) = blk[t][a]
      <4>1. k \in Entries /\ DPtr(f, <<indir_2, k, Nil>>) # 0
        BY <1>4, <1>6, <1>8
      <4>. QED  BY <1>8, <4>1, DPtrOf3
    <3>2. blk[t][j] # 0 => \A j2 \in 0 .. j - 1 : blk[t][j2] # 0
      BY <1>4, <3>1, TreePaths DEF Filled
    <3>3. blk[t][j] # 0 => blk[t][j] \in truncate_2nd_level(t)
      BY <1>8, <3>2, TableIsFreed
    <3>. QED  BY <1>6, <2>2, <3>1, <3>3
  <2>3. p = <<indir_2, k, Nil>> \/ \E j \in Entries : p = <<indir_2, k, j>>
    BY <1>4, <1>9, PathForms, PathKinds
  <2>. QED  BY <2>1, <2>2, <2>3
<1>10. Freed(f)'
  <2>1. \A p \in Paths : p[1] = indir_2 /\ p[2] \in 0 .. k' - 1 =>
            DPtr(f, p)' \notin block_map' \ {0}
    <3>1. \A p \in Paths : p[1] = indir_2 /\ p[2] \in 0 .. k - 1 =>
            DPtr(f, p) \notin block_map \ {0}
      BY <1>2, <1>3 DEF Freed
    <3>2. 0 .. k' - 1 = (0 .. k - 1) \cup {k}
      BY <1>2, <1>4, GeometryAssumption DEF Entries
    <3>. QED  BY <1>6, <1>7, <1>9, <3>1, <3>2
  <2>2. disk_inode_region'[f].size = size /\ inode_region'[f].size = size
        /\ \A s \in {indir_1, indir_2} :
              inode_region'[f].ptr[s] = disk_inode_region'[f].ptr[s]
    BY <1>1, <1>2, <1>3 DEF Freed
  <2>3. size > file_in_inode_sz => \A p \in Paths : p[1] = indir_1 =>
            DPtr(f, p)' \notin block_map' \ {0}
    BY <1>1, <1>2, <1>3, <1>6, <1>7 DEF Freed
  <2>4. ~(size <= Level2)
    BY <1>4, Ranges
  <2>. QED  BY <1>2, <1>4, <2>1, <2>2, <2>3, <2>4 DEF Freed
<1>. QED  BY <1>0, <1>2, <1>10 DEF FreedBySize

\* When the first table of indir_2 that is 0 is met, there is none behind it.
LEMMA Indir2IsFreed ==
    ASSUME IInv, Filled, FreedBySize, TruncateIndir2
    PROVE  FreedBySize'
<1>0. PICK f \in Files : f = call.file
  BY DEF IInv, TypeOK, TruncateIndir2
<1>1. PICK size : size = disk_inode_region[f].size
  OBVIOUS
<1>2. /\ pc = "indir_2" /\ pc' = "clear"
      /\ inode_region' = inode_region /\ disk_inode_region' = disk_inode_region
      /\ blk' = blk /\ call' = call /\ inode = inode_region[f]
  BY <1>0 DEF TruncateIndir2, inode
<1>3. Freed(f)
  BY <1>0, <1>2 DEF FreedBySize, Truncating
<1>4. k \in Nat /\ size \in Nat /\ size > Level2
  BY <1>1, <1>2, <1>3 DEF Freed, IInv, TypeOK, Inode
<1>5. PICK root : root = inode.ptr[indir_2]
  OBVIOUS
<1>6. block_map' = block_map \ {root} /\ root # 0
  BY <1>2, <1>5 DEF TruncateIndir2, Free, IInv, RootsSet
<1>7. \A p \in Paths : DPtr(f, p)' = DPtr(f, p)
  BY <1>2 DEF DPtr, Deref
<1>8. DPtr(f, <<indir_2, Nil, Nil>>) = root
  <2>1. Ptr(f, <<indir_2, Nil, Nil>>) = root
    BY <1>2, <1>5, PtrOf, PathKinds
  <2>. QED  BY <2>1, DPtrIsTree
<1>9. \A p \in Paths : p[1] = indir_2 /\ p[2] \in 0 .. k - 1 =>
          DPtr(f, p) \notin block_map \ {0}
  BY <1>2, <1>3 DEF Freed
<1>10. ASSUME NEW i \in Entries, i >= k
       PROVE  DPtr(f, <<indir_2, i, Nil>>) = 0
  <2>1. k \in Entries /\ (i = k \/ k \in 0 .. i - 1)
    BY <1>4, <1>10, GeometryAssumption DEF Entries
  <2>2. blk[root][k] = 0
    <3>1. k < PTRS
      BY <2>1, GeometryAssumption DEF Entries
    <3>. QED  BY <1>5, <3>1 DEF TruncateIndir2
  <2>3. DPtr(f, <<indir_2, k, Nil>>) = 0
    BY <1>6, <1>8, <2>1, <2>2, DPtrOf, PathKinds
  <2>4. 0 \in Entries /\ DPtr(f, <<indir_2, k, 0>>) = 0
    <3>1. 0 \in Entries
      BY LevelsBegin
    <3>. QED  BY <2>1, <2>3, <3>1, PathKinds DEF DPtr, Deref
  <2>5. CASE k \in 0 .. i - 1
    BY <2>4, <2>5 DEF Filled
  <2>. QED  BY <2>1, <2>3, <2>5
<1>11. ASSUME NEW p \in Paths, p[1] = indir_2
       PROVE  DPtr(f, p) \notin block_map' \ {0}
  <2>1. CASE p = <<indir_2, Nil, Nil>>
    BY <1>6, <1>8, <2>1
  <2>2. CASE p[2] \in 0 .. k - 1
    BY <1>6, <1>9, <1>11, <2>2
  <2>3. ASSUME NEW i \in Entries, i >= k, p[2] = i
        PROVE  DPtr(f, p) = 0
    <3>1. DPtr(f, <<indir_2, i, Nil>>) = 0
      BY <1>10, <2>3
    <3>2. CASE p = <<indir_2, i, Nil>>
      BY <3>1, <3>2
    <3>3. ASSUME NEW j \in Entries, p = <<indir_2, i, j>>
          PROVE  DPtr(f, p) = 0
      BY <3>1, <3>3, PathKinds DEF DPtr, Deref
    <3>4. p = <<indir_2, i, Nil>> \/ \E j \in Entries : p = <<indir_2, i, j>>
      BY <1>11, <2>3, PathForms, PathKinds
    <3>. QED  BY <3>2, <3>3, <3>4
  <2>4. p = <<indir_2, Nil, Nil>> \/ p[2] \in Entries
    BY <1>11, PathForms, PathKinds
  <2>5. \A i \in Entries : i \in 0 .. k - 1 \/ i >= k
    BY <1>4, GeometryAssumption DEF Entries
  <2>. QED  BY <2>1, <2>2, <2>3, <2>4, <2>5
<1>12. Freed(f)'
  <2>1. disk_inode_region'[f].size = size /\ inode_region'[f].size = size
        /\ \A s \in {indir_1, indir_2} :
              inode_region'[f].ptr[s] = disk_inode_region'[f].ptr[s]
    BY <1>1, <1>2, <1>3 DEF Freed
  <2>2. \A p \in Paths : p[1] = indir_1 => DPtr(f, p)' \notin block_map' \ {0}
    <3>1. size > file_in_inode_sz
      BY <1>4, Ranges
    <3>. QED  BY <1>1, <1>2, <1>3, <1>6, <1>7, <3>1 DEF Freed
  <2>3. \A p \in Paths : p[1] = indir_2 => DPtr(f, p)' \notin block_map' \ {0}
    BY <1>7, <1>11
  <2>4. ~(size <= Level2)
    BY <1>4, Ranges
  <2>. QED  BY <1>2, <1>4, <2>1, <2>2, <2>3, <2>4 DEF Freed
<1>. QED  BY <1>0, <1>2, <1>12 DEF FreedBySize

\* Every step keeps account of what the running fs_truncate has freed.
LEMMA StepFreedBySize ==
    ASSUME IInv, Filled, FreedBySize, [Next]_vars
    PROVE  FreedBySize'
<1>1. ASSUME NEW f \in Files, NEW off, NEW len, NEW val, Write(f, off, len, val)
      PROVE  FreedBySize'
  BY <1>1 DEF Write, FreedBySize, Truncating
<1>2. ASSUME NEW f \in Files, Truncate(f)
      PROVE  FreedBySize'
  BY <1>2, TruncateFreesNone
<1>3. CASE Getattr \/ WriteStep \/ TruncateEnd
  BY <1>3 DEF Getattr, WriteStep, WriteFindBlock, WriteLink, WriteMark, WriteData, WriteEnd,
     WriteNoRoot, TruncateEnd, Return, FreedBySize, Truncating
<1>4. CASE UNCHANGED vars
  BY <1>4 DEF vars, FreedBySize, Truncating, Freed, DPtr, Deref
<1>. QED
  BY <1>1, <1>2, <1>3, <1>4, DirectFreesNoTree, Indir1IsFreed, Indir2TableIsFreed,
     Indir2IsFreed DEF Next, TruncateStep
-----------------------------------------------------------------------------
(***************************************************************************)
(* The blocks that are lost.                                               *)
(***************************************************************************)
\* A lost block is marked, none of the layout's own, and no pointer holds it.
LEMMA LostOf ==
    /\ \A b : b \in Lost <=> /\ b \in block_map /\ b \notin 0 .. FirstData - 1
                             /\ \A f \in Files, p \in Paths : Ptr(f, p) # b
    /\ \A b : b \in Lost' <=> /\ b \in block_map' /\ b \notin 0 .. FirstData - 1
                              /\ \A f \in Files, p \in Paths : Ptr(f, p)' # b
<1>1. 0 \in 0 .. FirstData - 1
  BY GeometryAssumption
<1>2. ASSUME NEW b
      PROVE  b \in Held <=> b # 0 /\ \E f \in Files, p \in Paths : Ptr(f, p) = b
  BY DEF Held, Ptr
<1>3. ASSUME NEW b
      PROVE  b \in Held' <=> b # 0 /\ \E f \in Files, p \in Paths : Ptr(f, p)' = b
  BY DEF Held, Ptr
<1>. QED  BY <1>1, <1>2, <1>3 DEF Lost

\* A step that loses nothing and writes no lost block.
LEMMA NothingLost ==
    ASSUME LostInv, \A b : b \in Lost' <=> b \in Lost, \A b \in Lost : blk'[b] = blk[b]
    PROVE  LostInv'
BY DEF LostInv

\* The steps of a write lose nothing.
LEMMA WriteLosesNothing ==
    ASSUME IInv, LostInv, LinkedIsHeld, WriteStep
    PROVE  LostInv'
<1>1. \A b \in Lost : b \in block_map /\ b \in Blocks
  BY LostOf DEF IInv, TypeOK
<1>2. CASE WriteFindBlock
  <2>1. block_map' = block_map
    BY <1>2 DEF WriteFindBlock, mem
  <2>2. \A b : b \in Lost' <=> b \in Lost
    BY <1>2, <2>1, FoundIsOutside, LostOf
  <2>3. \A b \in Lost : blk'[b] = blk[b]
    BY <1>1, <1>2, FoundIsOutside DEF IInv, TypeOK
  <2>. QED  BY <2>2, <2>3, NothingLost
<1>3. CASE WriteLink
  <2>0. /\ block_map' = block_map /\ new \notin block_map /\ call.file \in Files
        /\ At \in Paths
    BY <1>3, AtIsPath DEF WriteLink, IInv, FoundIsFresh, NeedsBlock
  <2>1. Ptr(call.file, At) = 0
    BY <1>3, AtIsPath DEF WriteLink, IInv, FoundIsFresh, NeedsBlock
  <2>2. \A g \in Files, q \in Paths :
          Ptr(g, q)' = IF g = call.file /\ q = At THEN new ELSE Ptr(g, q)
    BY <1>3, LinkSetsOne
  <2>3. \A b : b \in Lost' <=> b \in Lost
    <3>1. \A b \in block_map : b \notin 0 .. FirstData - 1 =>
            ((\A g \in Files, q \in Paths : Ptr(g, q)' # b)
                <=> \A g \in Files, q \in Paths : Ptr(g, q) # b)
      <4>1. 0 \in 0 .. FirstData - 1
        BY GeometryAssumption
      <4>. QED  BY <2>0, <2>1, <2>2, <4>1
    <3>. QED  BY <2>0, <3>1, LostOf
  <2>4. PICK t : /\ \A b \in Blocks \ {t} : blk'[b] = blk[b]
                 /\ t = 0 \/ \E r \in Inner : t = Ptr(call.file, r)
    BY <1>3, LinkWritesOneTable DEF WritesOneTable
  <2>5. t \notin Lost
    <3>1. 0 \notin Lost
      BY LostOf, GeometryAssumption
    <3>. QED  BY <2>0, <2>4, <3>1, LostOf, PathKinds
  <2>6. \A b \in Lost : blk'[b] = blk[b]
    BY <1>1, <2>4, <2>5
  <2>. QED  BY <2>3, <2>6, NothingLost
<1>4. CASE WriteMark
  <2>1. /\ block_map' = block_map \cup {new} /\ blk' = blk /\ inode_region' = inode_region
        /\ pc = "mark"
    BY <1>4 DEF WriteMark
  <2>2. \A g \in Files, q \in Paths : Ptr(g, q)' = Ptr(g, q)
    BY <2>1, SamePointers
  <2>3. \E g \in Files, q \in Paths : Ptr(g, q) = new
    <3>1. call.file \in Files
      BY <2>1 DEF IInv, TypeOK
    <3>. QED  BY <2>1, <3>1 DEF LinkedIsHeld
  <2>4. \A b : b \in Lost' <=> b \in Lost
    BY <2>1, <2>2, <2>3, LostOf
  <2>. QED  BY <2>1, <2>4, NothingLost
<1>5. CASE WriteData
  <2>1. block_map' = block_map
    BY <1>5 DEF WriteData, mem
  <2>2. \A b : b \in Lost' <=> b \in Lost
    BY <1>5, <2>1, DataGoesToALeaf, LostOf
  <2>3. \A b \in Lost : blk'[b] = blk[b]
    BY <1>1, <1>5, DataGoesToALeaf, LostOf
  <2>. QED  BY <2>2, <2>3, NothingLost
<1>6. CASE WriteEnd \/ WriteNoRoot
  <2>1. block_map' = block_map /\ blk' = blk
    BY <1>6 DEF WriteEnd, WriteNoRoot, mem, image
  <2>2. \A g \in Files : inode_region'[g].ptr = inode_region[g].ptr
    <3>1. inode_region' = inode_region
          \/ inode_region' = [inode_region EXCEPT ![call.file].size = call.off]
      BY <1>6 DEF WriteEnd, WriteNoRoot, mem
    <3>2. CASE inode_region' = [inode_region EXCEPT ![call.file].size = call.off]
      BY <3>2 DEF IInv, TypeOK, Inode
    <3>. QED  BY <3>1, <3>2
  <2>3. \A g \in Files, q \in Paths : Ptr(g, q)' = Ptr(g, q)
    BY <2>1, <2>2, SamePointers
  <2>4. \A b : b \in Lost' <=> b \in Lost
    BY <2>1, <2>3, LostOf
  <2>. QED  BY <2>1, <2>4, NothingLost
<1>. QED  BY <1>2, <1>3, <1>4, <1>5, <1>6 DEF WriteStep

\* The steps of fs_truncate before its end lose nothing: what they free, a
\* pointer holds.
LEMMA FreeingLosesNothing ==
    ASSUME IInv, LostInv,
           TruncateDirect \/ TruncateIndir1 \/ TruncateIndir2Table \/ TruncateIndir2
    PROVE  LostInv'
<1>0. PICK f \in Files : f = call.file
  BY DEF IInv, TypeOK, TruncateDirect, TruncateIndir1, TruncateIndir2Table, TruncateIndir2
<1>1. blk' = blk /\ inode = inode_region[f]
  BY <1>0 DEF TruncateDirect, TruncateIndir1, TruncateIndir2Table, TruncateIndir2, inode
<1>2. CASE TruncateDirect
  <2>1. PICK d : d = inode.ptr[k]
    OBVIOUS
  <2>2. block_map' = block_map \ {d}
    BY <1>2, <2>1 DEF TruncateDirect, Free
  <2>3. PICK path \in Paths : path = <<k, Nil, Nil>> /\ Ptr(f, path) = d
    BY <1>1, <1>2, <2>1, DirectCutsOne, PtrOf
  <2>4. \A g \in Files, q \in Paths :
          Ptr(g, q)' = IF g = f /\ q = path THEN 0 ELSE Ptr(g, q)
    BY <1>0, <1>2, <2>3, DirectCutsOne
  <2>5. \A b : b \in Lost' <=> b \in Lost
    <3>1. 0 \in 0 .. FirstData - 1
      BY GeometryAssumption
    <3>. QED  BY <2>2, <2>3, <2>4, <3>1, LostOf
  <2>. QED  BY <1>1, <2>5, NothingLost
<1>3. ASSUME inode_region' = inode_region, NEW bs, block_map' = block_map \ bs,
             \A b \in bs : \E q \in Paths : b = Ptr(f, q)
      PROVE  LostInv'
  <2>1. \A g \in Files, q \in Paths : Ptr(g, q)' = Ptr(g, q)
    BY <1>1, <1>3, SamePointers
  <2>2. \A b : b \in Lost' <=> b \in Lost
    BY <1>3, <2>1, LostOf
  <2>. QED  BY <1>1, <2>2, NothingLost
<1>4. CASE TruncateIndir1
  <2>1. inode_region' = inode_region
    BY <1>4 DEF TruncateIndir1
  <2>2. CASE inode.size > file_in_inode_sz
    <3>1. inode.ptr[indir_1] # 0
      BY <1>1, <2>2 DEF IInv, RootsSet
    <3>2. \A b \in truncate_2nd_level(inode.ptr[indir_1]) : \E q \in Paths : b = Ptr(f, q)
      BY <1>1, <3>1, FreedBelowIndir1 DEF IInv
    <3>3. block_map' = block_map \ truncate_2nd_level(inode.ptr[indir_1])
      BY <1>4, <2>2 DEF TruncateIndir1, Free
    <3>4. PICK bs : bs = truncate_2nd_level(inode.ptr[indir_1])
      OBVIOUS
    <3>. QED  BY <1>3, <2>1, <3>2, <3>3, <3>4
  <2>3. CASE ~(inode.size > file_in_inode_sz)
    <3>1. PICK bs : bs = {}
      OBVIOUS
    <3>2. block_map' = block_map \ bs
      BY <1>4, <2>3, <3>1 DEF TruncateIndir1
    <3>. QED  BY <1>3, <2>1, <3>1, <3>2
  <2>. QED  BY <2>2, <2>3
<1>5. CASE TruncateIndir2Table
  <2>1. /\ pc = "indir_2" /\ k < PTRS /\ blk[inode.ptr[indir_2]][k] # 0
        /\ block_map' = block_map \ truncate_2nd_level(blk[inode.ptr[indir_2]][k])
        /\ inode_region' = inode_region
    BY <1>5 DEF TruncateIndir2Table, Free
  <2>2. k \in Entries /\ inode_region[f].ptr[indir_2] # 0
    BY <1>1, <2>1, GeometryAssumption DEF IInv, TypeOK, RootsSet, Entries
  <2>3. \A b \in truncate_2nd_level(blk[inode.ptr[indir_2]][k]) :
          \E q \in Paths : b = Ptr(f, q)
    BY <1>1, <2>1, <2>2, FreedBelowIndir2 DEF IInv
  <2>4. PICK bs : bs = truncate_2nd_level(blk[inode.ptr[indir_2]][k])
    OBVIOUS
  <2>. QED  BY <1>3, <2>1, <2>3, <2>4
<1>6. CASE TruncateIndir2
  <2>1. block_map' = block_map \ {inode.ptr[indir_2]} /\ inode_region' = inode_region
    BY <1>6 DEF TruncateIndir2, Free
  <2>2. inode.ptr[indir_2] = Ptr(f, <<indir_2, Nil, Nil>>)
    BY <1>1, PtrOf, PathKinds
  <2>3. PICK bs : bs = {inode.ptr[indir_2]}
    OBVIOUS
  <2>4. block_map' = block_map \ bs /\ inode_region' = inode_region
    BY <2>1, <2>3
  <2>5. \A b \in bs : \E q \in Paths : b = Ptr(f, q)
    <3>1. <<indir_2, Nil, Nil>> \in Paths
      BY TreePaths
    <3>. QED  BY <2>2, <2>3, <3>1
  <2>. QED  BY <1>3, <2>4, <2>5
<1>. QED  BY <1>2, <1>4, <1>5, <1>6

\* What the end of fs_truncate cuts off without having freed it is tables that
\* lead to no data: the size was not beyond their range.
LEMMA CutTablesAreEmpty ==
    ASSUME IInv, LInv, pc = "clear", NEW f \in Files, f = call.file,
           NEW p \in Paths, p[1] \in {indir_1, indir_2},
           Ptr(f, p) # 0, Ptr(f, p) \in block_map, NEW e \in Entries
    PROVE  \/ blk[Ptr(f, p)][e] = 0
           \/ \E q \in Paths : /\ q[1] = indir_2 /\ blk[Ptr(f, p)][e] = Ptr(f, q)
                               /\ Ptr(f, q) # 0 /\ Ptr(f, q) \in block_map
<1>1. PICK size : size = disk_inode_region[f].size
  OBVIOUS
<1>2. Freed(f) /\ size \in Nat /\ ~Writing
  BY <1>1 DEF LInv, FreedBySize, Truncating, IInv, TypeOK, Inode, Writing
<1>3. \A q \in Paths : q[1] \in {indir_1, indir_2} => DPtr(f, q) = Ptr(f, q)
  BY DPtrIsTree DEF LInv
<1>4. /\ indir_1 \in Slots /\ indir_2 \in Slots
      /\ <<indir_1, e, Nil>> \in Paths /\ <<indir_2, e, Nil>> \in Paths
      /\ <<indir_1, e, Nil>>[1] = indir_1 /\ <<indir_2, e, Nil>>[1] = indir_2
      /\ \A i \in Entries : <<indir_2, i, e>> \in Paths /\ <<indir_2, i, e>>[1] = indir_2
  BY PathKinds, TreePaths
<1>5. ASSUME p[1] = indir_1
      PROVE  blk[Ptr(f, p)][e] = 0
  <2>1. ~(size > file_in_inode_sz)
    <3>1. DPtr(f, p) \in block_map \ {0}
      BY <1>3
    <3>. QED  BY <1>1, <1>2, <1>5, <3>1 DEF Freed
  <2>2. \A i \in Entries : DPtr(f, <<indir_1, i, Nil>>) = 0
    BY <1>1, <1>2, <2>1 DEF LInv, DataBelowSize, Beyond
  <2>3. p = <<indir_1, Nil, Nil>>
    <3>1. \A i \in Entries : p # <<indir_1, i, Nil>>
      BY <1>3, <2>2
    <3>. QED  BY <1>5, <3>1, PathForms, PathKinds
  <2>4. Ptr(f, <<indir_1, e, Nil>>) = 0
    BY <1>3, <1>4, <2>2
  <2>. QED  BY <1>4, <2>3, <2>4, PtrOf, PtrOf2
<1>6. ASSUME p[1] = indir_2
      PROVE  \/ blk[Ptr(f, p)][e] = 0
             \/ \E q \in Paths : /\ q[1] = indir_2 /\ blk[Ptr(f, p)][e] = Ptr(f, q)
                                 /\ Ptr(f, q) # 0 /\ Ptr(f, q) \in block_map
  <2>1. ~(size > Level2)
    <3>1. DPtr(f, p) \in block_map \ {0}
      BY <1>3
    <3>. QED  BY <1>1, <1>2, <1>6, <3>1 DEF Freed
  <2>2. \A i \in Entries, j \in Entries : DPtr(f, <<indir_2, i, j>>) = 0
    BY <1>1, <1>2, <2>1 DEF LInv, DataBelowSize, Beyond
  <2>3. \A q \in Paths : q[1] = indir_2 /\ Ptr(f, q) # 0 => Ptr(f, q) \in block_map
    <3>1. size <= Level2
      BY <1>2, <2>1, Ranges
    <3>. QED  BY <1>1, <1>2, <1>3, <3>1 DEF Freed
  <2>4. CASE p = <<indir_2, Nil, Nil>>
    <3>1. Ptr(f, <<indir_2, e, Nil>>) = blk[Ptr(f, p)][e]
      BY <1>4, <2>4, PtrOf, PtrOf2
    <3>. QED  BY <1>4, <2>3, <3>1
  <2>5. ASSUME NEW i \in Entries, p = <<indir_2, i, Nil>>
        PROVE  blk[Ptr(f, p)][e] = 0
    <3>1. Ptr(f, <<indir_2, i, e>>) = 0
      BY <1>3, <1>4, <2>2
    <3>. QED  BY <2>5, <3>1, PtrOf3
  <2>6. \A i \in Entries, j \in Entries : p # <<indir_2, i, j>>
    BY <1>3, <2>2
  <2>. QED  BY <1>6, <2>4, <2>5, <2>6, PathForms, PathKinds
<1>. QED  BY <1>5, <1>6

\* So the blocks that it loses lead to lost blocks only.
LEMMA EndLosesTables ==
    ASSUME IInv, LInv, TruncateEnd
    PROVE  LostInv'
<1>0. PICK f \in Files : f = call.file
  BY EndCutsRoots
<1>1. /\ pc = "clear" /\ block_map' = block_map /\ blk' = blk
  BY DEF TruncateEnd
<1>2. \A g \in Files, p \in Paths : Ptr(g, p)' =
        IF g = f /\ p[1] \in {indir_1, indir_2} THEN 0 ELSE Ptr(g, p)
  BY <1>0, EndCutsRoots
<1>3. 0 \in 0 .. FirstData - 1
  BY GeometryAssumption
<1>4. \A b : b \in Lost => b \in Lost'
  BY <1>1, <1>2, <1>3, LostOf
<1>5. ASSUME NEW q \in Paths, q[1] \in {indir_1, indir_2}, Ptr(f, q) # 0,
             Ptr(f, q) \in block_map
      PROVE  Ptr(f, q) \in Lost'
  <2>1. Ptr(f, q) \notin 0 .. FirstData - 1
    BY <1>5, PtrIsBlock, GeometryAssumption DEF IInv, Blocks
  <2>2. \A g \in Files, p \in Paths : Ptr(g, p) = Ptr(f, q) => g = f /\ p = q
    BY <1>5 DEF IInv, SoleOwner, Ptr
  <2>3. \A g \in Files, p \in Paths : Ptr(g, p)' # Ptr(f, q)
    BY <1>2, <1>5, <2>2
  <2>4. PICK b : b = Ptr(f, q)
    OBVIOUS
  <2>5. b \in Lost'
    BY <1>1, <1>5, <2>1, <2>3, <2>4, LostOf
  <2>. QED  BY <2>4, <2>5
<1>6. ASSUME NEW b \in Lost', b \notin Lost
      PROVE  \E q \in Paths : /\ q[1] \in {indir_1, indir_2} /\ b = Ptr(f, q)
                              /\ Ptr(f, q) # 0 /\ Ptr(f, q) \in block_map
  <2>1. /\ b \in block_map /\ b \notin 0 .. FirstData - 1
        /\ \A g \in Files, p \in Paths : Ptr(g, p)' # b
    BY <1>1, LostOf
  <2>2. PICK g \in Files, q \in Paths : Ptr(g, q) = b
    BY <1>6, <2>1, LostOf
  <2>3. g = f /\ q[1] \in {indir_1, indir_2}
    BY <1>2, <2>1, <2>2
  <2>. QED  BY <1>3, <2>1, <2>2, <2>3
<1>7. ASSUME NEW b \in Lost', NEW e \in Entries
      PROVE  blk'[b][e] \in Lost' \cup {0}
  <2>1. CASE b \in Lost
    BY <1>1, <1>4, <2>1 DEF LInv, LostInv
  <2>2. CASE b \notin Lost
    <3>1. PICK q \in Paths : /\ q[1] \in {indir_1, indir_2} /\ b = Ptr(f, q)
                             /\ Ptr(f, q) # 0 /\ Ptr(f, q) \in block_map
      BY <1>6, <2>2
    <3>2. \/ blk[b][e] = 0
          \/ \E r \in Paths : /\ r[1] = indir_2 /\ blk[b][e] = Ptr(f, r)
                              /\ Ptr(f, r) # 0 /\ Ptr(f, r) \in block_map
      BY <1>0, <1>1, <3>1, CutTablesAreEmpty
    <3>. QED  BY <1>1, <1>5, <3>2
  <2>. QED  BY <2>1, <2>2
<1>. QED  BY <1>7 DEF LostInv

\* No step loses a block that leads to data.
LEMMA StepLostInv ==
    ASSUME IInv, LInv, [Next]_vars
    PROVE  LostInv'
<1>1. ASSUME inode_region' = inode_region, block_map' = block_map, blk' = blk
      PROVE  LostInv'
  <2>1. \A g \in Files, q \in Paths : Ptr(g, q)' = Ptr(g, q)
    BY <1>1, SamePointers
  <2>2. \A b : b \in Lost' <=> b \in Lost
    BY <1>1, <2>1, LostOf
  <2>. QED  BY <1>1, <2>2, NothingLost DEF LInv
<1>2. ASSUME NEW f \in Files, NEW off, NEW len, NEW val,
             Write(f, off, len, val) \/ Truncate(f)
      PROVE  LostInv'
  BY <1>1, <1>2 DEF Write, Truncate, mem, image
<1>3. CASE Getattr
  <2>1. inode_region' = inode_region /\ block_map' = block_map
    <3>1. inode_region' = disk_inode_region /\ block_map' = disk_block_map /\ pc = "idle"
      BY <1>3 DEF Getattr, fs_init
    <3>2. \A f \in Files : disk_inode_region[f] = inode_region[f]
      BY <3>1 DEF IInv, ImageFollows
    <3>. QED  BY <3>1, <3>2 DEF IInv, TypeOK, ImageFollows
  <2>. QED  BY <1>1, <1>3, <2>1 DEF Getattr, fs_init, image
<1>4. CASE UNCHANGED vars
  BY <1>1, <1>4 DEF vars
<1>. QED
  BY <1>2, <1>3, <1>4, WriteLosesNothing, FreeingLosesNothing, EndLosesTables
  DEF LInv, Next, TruncateStep

\* A block is linked to the file that is being written.
LEMMA StepLinkedIsHeld ==
    ASSUME IInv, LinkedIsHeld, [Next]_vars
    PROVE  LinkedIsHeld'
<1>. SUFFICES ASSUME pc' = "mark"
              PROVE  \E p \in Paths : Ptr(call.file, p)' = new'
  BY DEF LinkedIsHeld
<1>1. WriteLink \/ UNCHANGED vars
  BY DEF Next, Write, Truncate, Getattr, WriteStep, TruncateStep, WriteFindBlock, WriteMark,
         WriteData, WriteEnd, WriteNoRoot, TruncateDirect, TruncateIndir1,
         TruncateIndir2Table, TruncateIndir2, TruncateEnd, Return
<1>2. CASE WriteLink
  <2>1. pc = "link" /\ call' = call /\ new' = new
    BY <1>2 DEF WriteLink
  <2>2. PICK f \in Files : f = call.file
    BY <2>1 DEF IInv, TypeOK
  <2>3. At \in Paths
    BY <2>1, AtIsPath DEF IInv, FoundIsFresh, NeedsBlock
  <2>4. PICK p \in Paths : p = At
    BY <2>3
  <2>5. Ptr(f, p)' = new
    BY <1>2, <2>2, <2>4, LinkSetsOne
  <2>. QED  BY <2>1, <2>2, <2>5
<1>3. CASE UNCHANGED vars
  BY <1>3 DEF vars, LinkedIsHeld, Ptr, Deref
<1>. QED  BY <1>1, <1>2, <1>3

\* A fresh image has no pointers and no lost blocks.
LEMMA InitLInv == Init => LInv
<1>. SUFFICES ASSUME Init PROVE LInv
  OBVIOUS
<1>1. \A f \in Files, p \in Paths : DPtr(f, p) = 0
  <2>1. \A f \in Files, s \in Slots : disk_inode_region[f].ptr[s] = 0
    BY DEF Init, EmptyInode
  <2>2. \A p \in Paths : p[1] \in Slots
    BY PathKinds DEF Paths
  <2>. QED  BY <2>1, <2>2 DEF DPtr, Deref
<1>2. Filled /\ DataBelowSize
  BY <1>1, TreePaths DEF Filled, DataBelowSize
<1>3. FreedBySize /\ LinkedIsHeld
  BY DEF Init, FreedBySize, Truncating, LinkedIsHeld
<1>4. LostInv
  <2>1. Lost = {}
    BY DEF Init, Lost
  <2>. QED  BY <2>1 DEF LostInv
<1>. QED  BY <1>2, <1>3, <1>4 DEF LInv

\* Every step keeps the invariant, for writes shorter than indir_1's range.
LEMMA StepLInv ==
    ASSUME MaxLen < file_1st_level_sz, IInv, IInv', CInv, LInv, [Next]_vars
    PROVE  LInv'
BY StepFilled, StepDataBelowSize, StepFreedBySize, StepLostInv, StepLinkedIsHeld DEF LInv

\* A handler loses indirect blocks at most, and those lead to no data: fs_write
\* when it finds a block for a root or a table and none for what the root or the
\* table is for, and fs_truncate, which goes by the size, when it then cuts them
\* off.  This holds of every image on which no write is as long as indir_1's range
\* (256 KB; FUSE sends at most 128 KB at a time).
THEOREM OnlyTablesAreLost == MaxLen < file_1st_level_sz => (Spec => []LostHoldNoData)
<1>. SUFFICES ASSUME MaxLen < file_1st_level_sz PROVE Spec => []LostHoldNoData
  OBVIOUS
<1>1. Init => LInv
  BY InitLInv
<1>2. LInv /\ IInv /\ IInv' /\ CInv /\ [Next]_vars => LInv'
  BY StepLInv
<1>3. LInv => LostHoldNoData
  BY DEF LInv, LostInv, LostHoldNoData
<1>. QED  BY <1>1, <1>2, <1>3, ContentInvariance, PTL DEF Spec
=============================================================================
