--------------------------- MODULE NamespaceProofs ---------------------------
(***************************************************************************)
(* Proofs about Namespace, for every number of names, inodes, blocks and   *)
(* entries, and for paths of any length.                                   *)
(***************************************************************************)
EXTENDS NamespaceTree, OrderLemmas

\* The ranges.
LEMMA Ranges ==
    /\ MaxDepth \in Nat /\ NDIRENTS \in Nat \ {0}
    /\ NumInodes \in Nat /\ NumInodes > 1
    /\ InodeBits \in Nat /\ InodeBits >= NumInodes
    /\ RootBlock \in Nat \ {0} /\ NumBlocks \in Nat /\ RootBlock < NumBlocks
BY NamespaceAssumption
-----------------------------------------------------------------------------
(***************************************************************************)
(* Paths and where they lead.                                              *)
(***************************************************************************)
\* A path that is not "/" is a father's path and a name.
LEMMA PathShape ==
    ASSUME NEW p \in Paths
    PROVE  /\ Len(p) \in 0 .. MaxDepth
           /\ p \in [1 .. Len(p) -> Names]
           /\ p = <<>> <=> Len(p) = 0
           /\ p # <<>> =>
                /\ p[Len(p)] \in Names
                /\ trancate_path(p) \in Paths
                /\ Len(trancate_path(p)) = Len(p) - 1
                /\ \A i \in 1 .. Len(p) - 1 : trancate_path(p)[i] = p[i]
<1>1. PICK n \in 0 .. MaxDepth : p \in [1 .. n -> Names]
  BY DEF Paths
<1>2. MaxDepth \in Nat /\ n \in Nat
  BY <1>1, Ranges
<1>3. Len(p) = n /\ p \in Seq(Names)
  BY <1>1, <1>2
<1>4. p = <<>> <=> Len(p) = 0
  BY <1>3
<1>5. ASSUME p # <<>>
      PROVE  /\ trancate_path(p) = [i \in 1 .. n - 1 |-> p[i]]
             /\ Len(trancate_path(p)) = n - 1
  BY <1>1, <1>2, <1>3, <1>4, <1>5 DEF trancate_path
<1>6. ASSUME p # <<>>
      PROVE  trancate_path(p) \in Paths
  <2>1. n - 1 \in 0 .. MaxDepth
    BY <1>2, <1>3, <1>4, <1>6
  <2>2. trancate_path(p) \in [1 .. n - 1 -> Names]
    BY <1>1, <1>5, <1>6, <2>1
  <2>. QED  BY <2>1, <2>2 DEF Paths
<1>7. p # <<>> => p[Len(p)] \in Names
  BY <1>1, <1>3, <1>4
<1>. QED  BY <1>1, <1>3, <1>4, <1>5, <1>6, <1>7

\* A path is its father's and its last name.
LEMMA SamePath ==
    ASSUME NEW p \in Paths \ {<<>>}, NEW q \in Paths \ {<<>>},
           trancate_path(p) = trancate_path(q), p[Len(p)] = q[Len(q)]
    PROVE  p = q
<1>1. /\ p \in [1 .. Len(p) -> Names] /\ q \in [1 .. Len(q) -> Names]
      /\ Len(p) = Len(q) /\ Len(p) \in Nat \ {0}
  <2>1. Len(p) \in 0 .. MaxDepth /\ Len(q) \in 0 .. MaxDepth /\ MaxDepth \in Nat
    BY PathShape, Ranges
  <2>2. Len(p) # 0 /\ Len(q) # 0 /\ Len(p) - 1 = Len(q) - 1
    BY PathShape
  <2>. QED  BY <2>1, <2>2, PathShape
<1>2. \A i \in 1 .. Len(p) - 1 : p[i] = q[i]
  BY <1>1, PathShape
<1>3. \A i \in 1 .. Len(p) : p[i] = q[i]
  BY <1>1, <1>2
<1>. QED  BY <1>1, <1>3

\* The walk of translate is defined for every path.
LEMMA WalkIsDefined ==
    \A p \in Paths :
        walk(p) = [n \in 0 .. Len(p) |->
                      IF n = 0 THEN Root ELSE follow(walk(p)[n - 1], p[n])]
<1>. SUFFICES ASSUME NEW p \in Paths
              PROVE  walk(p) = [n \in 0 .. Len(p) |->
                         IF n = 0 THEN Root ELSE follow(walk(p)[n - 1], p[n])]
  OBVIOUS
<1>. DEFINE Step(f, n) == IF n = 0 THEN Root ELSE follow(f[n - 1], p[n])
            Upto(k) == \E f : f = [n \in 0 .. k |-> Step(f, n)]
<1>1. Len(p) \in Nat
  BY PathShape
<1>2. Upto(0)
  <2>1. [n \in 0 .. 0 |-> Root] = [n \in 0 .. 0 |-> Step([m \in 0 .. 0 |-> Root], n)]
    OBVIOUS
  <2>. QED  BY <2>1
<1>3. ASSUME NEW k \in Nat, k > 0, Upto(k - 1)
      PROVE  Upto(k)
  <2>1. PICK g : g = [n \in 0 .. k - 1 |-> Step(g, n)]
    BY <1>3
  <2>. DEFINE f == [n \in 0 .. k |-> IF n = k THEN follow(g[k - 1], p[k]) ELSE g[n]]
  <2>2. \A n \in 0 .. k - 1 : f[n] = g[n]
    BY <1>3
  <2>3. ASSUME NEW n \in 0 .. k
        PROVE  f[n] = Step(f, n)
    <3>1. CASE n = 0
      <4>1. f[0] = g[0] /\ g[0] = Root
        BY <1>3, <2>1, <2>2
      <4>. QED  BY <3>1, <4>1
    <3>2. CASE n = k
      <4>1. f[k - 1] = g[k - 1] /\ f[k] = follow(g[k - 1], p[k])
        BY <1>3, <2>2
      <4>. QED  BY <1>3, <3>2, <4>1
    <3>3. CASE n \in 1 .. k - 1
      <4>1. f[n] = g[n] /\ f[n - 1] = g[n - 1] /\ n # 0
        BY <1>3, <2>2, <3>3
      <4>2. g[n] = Step(g, n)
        BY <1>3, <2>1, <3>3
      <4>. QED  BY <4>1, <4>2
    <3>. QED  BY <1>3, <3>1, <3>2, <3>3
  <2>4. f = [n \in 0 .. k |-> Step(f, n)]
    <3>1. DOMAIN f = 0 .. k /\ f = [n \in 0 .. k |-> f[n]]
      OBVIOUS
    <3>. HIDE DEF f
    <3>. QED  BY <2>3, <3>1
  <2>. QED  BY <2>4
<1>. HIDE DEF Upto
<1>4. Upto(Len(p))
  <2>. DEFINE S == {k \in Nat : ~Upto(k)}
  <2>1. SUFFICES ASSUME S # {} PROVE FALSE
    BY <1>1
  <2>2. PICK k \in S : \A x \in S : k <= x
    BY <2>1, LeastExists
  <2>3. k \in Nat /\ k > 0
    BY <1>2
  <2>4. k - 1 \in Nat /\ k - 1 \notin S
    BY <2>2, <2>3
  <2>. QED  BY <1>3, <2>3, <2>4
<1>5. \E f : f = [n \in 0 .. Len(p) |-> Step(f, n)]
  BY <1>4 DEF Upto
<1>6. walk(p) = CHOOSE f : f = [n \in 0 .. Len(p) |-> Step(f, n)]
  BY DEF walk
<1>. HIDE DEF Step
<1>7. walk(p) = [n \in 0 .. Len(p) |-> Step(walk(p), n)]
  BY <1>5, <1>6
<1>. QED  BY <1>7 DEF Step

\* What holds of "/", and of every path whose father it holds of, holds of all.
LEMMA PathInduction ==
    ASSUME NEW S, <<>> \in S,
           \A p \in Paths : p # <<>> /\ trancate_path(p) \in S => p \in S
    PROVE  Paths \subseteq S
<1>. DEFINE T == {Len(p) : p \in Paths \ S}
<1>1. T \in SUBSET Nat
  BY PathShape
<1>. SUFFICES ASSUME T # {} PROVE FALSE
  BY DEF T
<1>2. PICK n \in T : \A x \in T : n <= x
  BY <1>1, LeastExists
<1>3. PICK p \in Paths \ S : Len(p) = n
  BY <1>2
<1>4. p # <<>> /\ trancate_path(p) \in Paths \ S
  BY <1>3, PathShape
<1>5. Len(trancate_path(p)) = n - 1 /\ Len(trancate_path(p)) \in T /\ n \in Nat
  BY <1>1, <1>3, <1>4, PathShape
<1>. HIDE DEF T
<1>. QED  BY <1>2, <1>5

\* The last place of a walk: an entry, or an error.
Reached(p) == walk(p)[Len(p)]

\* A path's walk begins with its father's.
LEMMA WalkOfFather ==
    ASSUME NEW p \in Paths, p # <<>>
    PROVE  walk(p)[Len(p) - 1] = Reached(trancate_path(p))
<1>. DEFINE q == trancate_path(p)
            S == {n \in 0 .. Len(q) : walk(p)[n] # walk(q)[n]}
<1>1. /\ q \in Paths /\ Len(q) = Len(p) - 1 /\ Len(p) \in Nat /\ Len(q) \in Nat
      /\ \A i \in 1 .. Len(q) : q[i] = p[i]
  BY PathShape
<1>2. \A n \in 0 .. Len(q) : walk(p)[n] = IF n = 0 THEN Root ELSE follow(walk(p)[n - 1], p[n])
  <2>1. \A n \in 0 .. Len(q) : n \in 0 .. Len(p)
    BY <1>1
  <2>. HIDE DEF q
  <2>. QED  BY <2>1, WalkIsDefined
<1>3. \A n \in 0 .. Len(q) : walk(q)[n] = IF n = 0 THEN Root ELSE follow(walk(q)[n - 1], q[n])
  <2>. HIDE DEF q
  <2>. QED  BY <1>1, WalkIsDefined
<1>. HIDE DEF q
<1>4. S = {}
  <2>. SUFFICES ASSUME S # {} PROVE FALSE
    OBVIOUS
  <2>1. S \in SUBSET Nat
    BY <1>1
  <2>2. PICK n \in S : \A x \in S : n <= x
    BY <2>1, LeastExists
  <2>3. n \in 0 .. Len(q) /\ walk(p)[n] # walk(q)[n] /\ n # 0
    BY <1>2, <1>3
  <2>4. n - 1 \in 0 .. Len(q) /\ n - 1 \notin S /\ n \in 1 .. Len(q)
    BY <1>1, <2>2, <2>3
  <2>. QED  BY <1>1, <1>2, <1>3, <2>3, <2>4
<1>. QED  BY <1>1, <1>4 DEF Reached, q

\* Where a path leads, by where its father leads.
LEMMA ReachedByFather ==
    /\ Reached(<<>>) = Root
    /\ \A p \in Paths : translate(p) = Reached(p).inode
    /\ \A p \in Paths : p # <<>> =>
          Reached(p) = follow(Reached(trancate_path(p)), p[Len(p)])
<1>1. Reached(<<>>) = Root
  <2>1. <<>> \in Paths
    BY Ranges DEF Paths
  <2>. QED  BY <2>1, WalkIsDefined, PathShape DEF Reached
<1>2. ASSUME NEW p \in Paths, p # <<>>
      PROVE  Reached(p) = follow(Reached(trancate_path(p)), p[Len(p)])
  <2>1. Len(p) \in 0 .. Len(p) /\ Len(p) # 0
    BY <1>2, PathShape
  <2>2. walk(p)[Len(p)] = follow(walk(p)[Len(p) - 1], p[Len(p)])
    BY <2>1, WalkIsDefined
  <2>. QED  BY <1>2, <2>2, WalkOfFather DEF Reached
<1>. QED  BY <1>1, <1>2 DEF translate, Reached
-----------------------------------------------------------------------------
(***************************************************************************)
(* The inductive invariant of the image, whoever calls.                    *)
(***************************************************************************)
\* An entry leads to an inode of the region that is not the root's.
EntriesLead ==
    \A b \in Blocks, s \in 1 .. NDIRENTS :
        blk[b].ent[s].valid => blk[b].ent[s].inode \in Inodes \ {0, 1}

\* No two inodes have a block in common, linked or not; theirs are marked and none
\* of the layout's; and a directory has one.
first(i) == inode_region[i].direct0
Held ==
    /\ 0 .. RootBlock - 1 \subseteq block_map
    /\ \A i \in Inodes : Type(i) = "dir" => first(i) # 0
    /\ \A i \in Inodes : first(i) # 0 =>
          /\ first(i) >= RootBlock
          /\ first(i) \in block_map \/ (pc \in {"clear", "mark"} /\ i = loc.inum)
    /\ \A i, j \in Inodes : first(i) # 0 /\ first(i) = first(j) => i = j

\* What a handler has taken and what it knows, by how far it has got.
Creating == pc \in {"mkdir", "inode", "entry"}
Removing == pc \in {"clear", "unmap", "unlink"}
Writing == pc \in {"mark", "data"}
AtWork ==
    /\ pc = "called" /\ call.op = "rename" => call.path # <<>> /\ call.dst # <<>>
    /\ Creating =>
          /\ call.op \in {"mknod", "mkdir"} /\ call.path # <<>>
          /\ loc.father \in Inodes \ {0} /\ loc.slot \in 1 .. NDIRENTS
          /\ pc = "mkdir" => call.op = "mkdir"
          /\ pc # "mkdir" => loc.inum \notin {0, 1}
          /\ pc = "entry" => loc.inum \in Inodes
          /\ pc # "entry" =>
                IF call.op = "mkdir"
                THEN loc.block \in block_map /\ loc.block >= RootBlock
                     /\ \A i \in Inodes : first(i) # loc.block
                ELSE loc.block = 0
    /\ Removing => /\ call.op \in {"truncate", "unlink"}
                   /\ loc.inum \in Inodes /\ Type(loc.inum) # "dir"
                   /\ pc # "clear" => call.op = "unlink"
    /\ Writing => /\ call.op = "write" /\ loc.inum \in Inodes
                  /\ first(loc.inum) = loc.block /\ loc.block # 0
    /\ ~Creating /\ ~Removing /\ ~Writing => loc = NoLoc

NInv == TypeOK /\ EntriesLead /\ Held /\ AtWork

-----------------------------------------------------------------------------
(***************************************************************************)
(* What translate answers, and what the handlers know from their tests.    *)
(***************************************************************************)
\* Of the entries with a name the last one counts.
LEMMA LastEntry ==
    ASSUME NEW at, NEW n, ~(at.inode < 0), at.isDir, Named(at.inode, n) # {}
    PROVE  \E i \in Named(at.inode, n) :
              /\ follow(at, n) = Entries(at.inode)[i]
              /\ \A j \in Named(at.inode, n) : j <= i
<1>. DEFINE F == Named(at.inode, n)
<1>1. F \in SUBSET (0 .. NDIRENTS) /\ NDIRENTS \in Nat
  BY Ranges DEF Named
<1>2. follow(at, n) = Entries(at.inode)[CHOOSE i \in F : \A j \in F : j <= i]
  BY DEF follow
<1>3. F # {}
  OBVIOUS
<1>. HIDE DEF F
<1>4. \E i \in F : \A j \in F : j <= i
  BY <1>1, <1>3, GreatestExists
<1>. QED  BY <1>2, <1>4 DEF F

\* A directory's entries are entries.
LEMMA EntryType ==
    ASSUME TypeOK, NEW d \in Inodes, NEW s \in 1 .. NDIRENTS
    PROVE  /\ first(d) \in Blocks /\ Type(d) \in Types
           /\ Entries(d) \in [1 .. NDIRENTS -> Dirent]
           /\ Entries(d)[s] \in Dirent
           /\ Entries(d)[s] = blk[first(d)].ent[s]
<1>1. inode_region[d] \in Inode
  BY DEF TypeOK
<1>2. first(d) \in Blocks /\ Type(d) \in Types
  BY <1>1 DEF Inode, first, Type
<1>3. blk[first(d)] \in Block
  BY <1>2 DEF TypeOK
<1>. QED  BY <1>2, <1>3 DEF Block, Entries, first

\* A path leads to an inode of the region, or to an error.
Answers == (Inodes \ {0}) \cup {ENOENT, ENOTDIR}
LEMMA Answered ==
    ASSUME TypeOK, EntriesLead
    PROVE  \A p \in Paths : Reached(p).inode \in Answers /\ translate(p) \in Answers
<1>. DEFINE S == {p \in Paths : Reached(p).inode \in Answers}
<1>1. <<>> \in S
  <2>1. <<>> \in Paths
    BY Ranges DEF Paths
  <2>2. Reached(<<>>).inode = 1
    BY ReachedByFather DEF Root
  <2>3. 1 \in Inodes \ {0}
    BY Ranges DEF Inodes
  <2>. QED  BY <2>1, <2>2, <2>3 DEF Answers
<1>2. ASSUME NEW p \in Paths, p # <<>>, trancate_path(p) \in S
      PROVE  p \in S
  <2>. DEFINE at == Reached(trancate_path(p))
              n == p[Len(p)]
  <2>1. Reached(p) = follow(at, n)
    BY <1>2, ReachedByFather
  <2>2. at.inode \in Answers
    BY <1>2
  <2>3. SUFFICES follow(at, n).inode \in Answers
    BY <2>1
  <2>. HIDE DEF at, n
  <2>4. CASE at.inode < 0
    BY <2>2, <2>4 DEF follow
  <2>5. CASE ~(at.inode < 0) /\ ~at.isDir
    BY <2>5, <2>2, Ranges DEF follow, Answers, Inodes, ENOENT, ENOTDIR
  <2>6. CASE ~(at.inode < 0) /\ at.isDir /\ Named(at.inode, n) = {}
    BY <2>6, <2>2, Ranges DEF follow, Answers, Inodes, ENOENT, ENOTDIR
  <2>7. CASE ~(at.inode < 0) /\ at.isDir /\ Named(at.inode, n) # {}
    <3>1. PICK i \in Named(at.inode, n) : follow(at, n) = Entries(at.inode)[i]
      BY <2>7, LastEntry
    <3>2. at.inode \in Inodes /\ i \in 1 .. NDIRENTS /\ Entries(at.inode)[i].valid
      BY <2>2, <2>7, <3>1 DEF Named, Answers, ENOENT, ENOTDIR
    <3>3. Entries(at.inode)[i] = blk[first(at.inode)].ent[i] /\ first(at.inode) \in Blocks
      BY <3>2, EntryType
    <3>. QED  BY <3>1, <3>2, <3>3 DEF EntriesLead, Answers
  <2>. QED  BY <2>2, <2>4, <2>5, <2>6, <2>7, Ranges DEF Answers, Inodes, ENOENT, ENOTDIR
<1>. HIDE DEF S
<1>3. Paths \subseteq S
  BY <1>1, <1>2, PathInduction
<1>. QED  BY <1>3, ReachedByFather DEF S

\* What a handler that creates knows once its tests have passed.
LEMMA MayCreate ==
    ASSUME TypeOK, EntriesLead, pc = "called", call.op \in {"mknod", "mkdir"}, Error = 0
    PROVE  LET father == translate(trancate_path(call.path))
           IN  /\ call.path \in Paths /\ call.path # <<>>
               /\ trancate_path(call.path) \in Paths
               /\ father \in Inodes \ {0}
               /\ translate(call.path) \in {ENOENT, ENOTDIR}
               /\ ~NoFreeSlot(father)
               /\ call.op = "mkdir" => Type(father) = "dir"
<1>. DEFINE p == call.path
            father == translate(trancate_path(p))
<1>1. p \in Paths
  BY DEF TypeOK
<1>2. CreateError(p) = 0
  BY DEF Error
<1>3. p # <<>>
  BY <1>2 DEF CreateError
<1>4. trancate_path(p) \in Paths /\ father \in Answers /\ translate(p) \in Answers
  BY <1>1, <1>3, PathShape, Answered
<1>5. father \in Inodes \ {0}
  <2>1. father \notin {ENOENT, ENOTDIR}
    BY <1>2, <1>3 DEF CreateError, ENOENT, ENOTDIR
  <2>. QED  BY <1>4, <2>1 DEF Answers
<1>6. father > 0 /\ ~(father < 0)
  BY <1>5, Ranges DEF Inodes
<1>7. (IF translate(p) > 0 THEN EEXIST
       ELSE IF NoFreeSlot(father) THEN ENOSPC
       ELSE IF call.op = "mkdir" /\ Type(father) # "dir" THEN ENOTDIR
       ELSE IF call.op = "mknod" /\ NoFreeInode THEN ENOSPC ELSE 0) = 0
  BY <1>2, <1>3, <1>6 DEF CreateError
<1>8. ~(translate(p) > 0) /\ ~NoFreeSlot(father)
      /\ (call.op = "mkdir" => Type(father) = "dir")
  BY <1>7 DEF EEXIST, ENOSPC, ENOTDIR
<1>9. translate(p) \in {ENOENT, ENOTDIR}
  BY <1>4, <1>8, Ranges DEF Answers, Inodes
<1>. QED  BY <1>1, <1>3, <1>4, <1>5, <1>8, <1>9

\* What the other handlers know.
LEMMA MayChange ==
    ASSUME TypeOK, EntriesLead, pc = "called", call.op \notin {"mknod", "mkdir"}, Error = 0
    PROVE  LET inum == translate(call.path)
           IN  /\ call.path \in Paths
               /\ inum \in Inodes \ {0}
               /\ call.op \in {"unlink", "truncate"} => Type(inum) # "dir"
               /\ call.op = "rmdir" =>
                     /\ Type(inum) # "file"
                     /\ call.path # <<>> =>
                           \A s \in 1 .. NDIRENTS : ~Entries(inum)[s].valid
               /\ call.op = "rename" =>
                     /\ ~(translate(call.dst) > 0)
                     /\ trancate_path(call.path) = trancate_path(call.dst)
<1>. DEFINE inum == translate(call.path)
<1>1. call.path \in Paths
  BY DEF TypeOK
<1>2. inum \in Answers
  BY <1>1, Answered
<1>3. ~(inum < 0)
  BY DEF Error
<1>4. inum \in Inodes \ {0}
  BY <1>2, <1>3 DEF Answers, ENOENT, ENOTDIR
<1>5. call.op \in {"unlink", "truncate"} => Type(inum) # "dir"
  BY <1>3 DEF Error, EISDIR
<1>6. call.op = "rmdir" => RmdirError(call.path) = 0
  BY <1>3 DEF Error
<1>7. call.op = "rename" => RenameError(call.path, call.dst) = 0
  BY <1>3 DEF Error
<1>8. call.op = "rmdir" =>
        /\ Type(inum) # "file"
        /\ call.path # <<>> => \A s \in 1 .. NDIRENTS : ~Entries(inum)[s].valid
  BY <1>6 DEF RmdirError, ENOTDIR, ENOTEMPTY
<1>9. call.op = "rename" =>
        /\ ~(translate(call.dst) > 0)
        /\ trancate_path(call.path) = trancate_path(call.dst)
  BY <1>7 DEF RenameError, EEXIST, EINVAL
<1>. QED  BY <1>1, <1>4, <1>5, <1>8, <1>9

\* The place of a new entry is free.
LEMMA PlaceIsFree ==
    ASSUME TypeOK, EntriesLead, pc = "called", call.op \in {"mknod", "mkdir"}, Error = 0
    PROVE  LET father == translate(trancate_path(call.path))
           IN  \E s \in 1 .. NDIRENTS :
                  /\ ~Entries(father)[s].valid
                  /\ Place = [loc EXCEPT !.father = father, !.slot = s]
<1>. DEFINE father == translate(trancate_path(call.path))
            F == {s \in 1 .. NDIRENTS : ~Entries(father)[s].valid}
<1>1. F # {} /\ F \in SUBSET Nat
  BY MayCreate, Ranges DEF NoFreeSlot
<1>2. \E s \in F : \A t \in F : s <= t
  <2>. HIDE DEF F
  <2>. QED  BY <1>1, LeastExists
<1>3. PICK s \in F : \A t \in F : s <= t
  BY <1>2
<1>4. FreeSlot(father, s)
  <2>1. ASSUME NEW j \in 1 .. s - 1
        PROVE  Entries(father)[j].valid
    <3>1. j \in 1 .. NDIRENTS /\ ~(s <= j)
      BY <1>3, Ranges
    <3>. QED  BY <1>3, <3>1
  <2>. QED  BY <1>3, <2>1 DEF FreeSlot
<1>. DEFINE c == CHOOSE i \in 1 .. NDIRENTS : FreeSlot(father, i)
<1>5. c \in 1 .. NDIRENTS /\ FreeSlot(father, c)
  BY <1>3, <1>4
<1>6. Place = [loc EXCEPT !.father = father, !.slot = c]
  BY DEF Place
<1>. HIDE DEF c, father
<1>. QED  BY <1>5, <1>6 DEF FreeSlot, father
-----------------------------------------------------------------------------
(***************************************************************************)
(* Parts of the invariant that many steps keep in the same way.            *)
(***************************************************************************)
\* The type of the image and the type of the running call.
ImageOK ==
    /\ inode_map \in SUBSET Bits
    /\ block_map \in SUBSET Blocks
    /\ inode_region \in [Inodes -> Inode]
    /\ blk \in [Blocks -> Block]
RunOK ==
    /\ pc \in {"idle", "called", "inode", "entry", "mkdir", "clear", "unmap",
               "unlink", "rmdir", "mark", "data", "return", "dead", "overrun"}
    /\ call \in [op : Ops \cup {"none"}, path : Paths, dst : Paths,
                 slash : BOOLEAN, word : Words \cup {0}]
    /\ loc \in [inum : Bits, father : Inodes, slot : 0 .. NDIRENTS, block : Blocks]
    /\ ret \in Int

LEMMA TypeParts == TypeOK <=> ImageOK /\ RunOK
BY DEF TypeOK, ImageOK, RunOK

LEMMA NoLocType == NoLoc \in [inum : Bits, father : Inodes, slot : 0 .. NDIRENTS, block : Blocks]
<1>1. 0 \in Bits /\ 0 \in Inodes /\ 0 \in 0 .. NDIRENTS /\ 0 \in Blocks
  BY Ranges DEF Bits, Inodes, Blocks
<1>. QED  BY <1>1 DEF NoLoc

\* A step that leaves the image alone.
LEMMA ImageKept ==
    ASSUME NInv, UNCHANGED image, pc \notin {"clear", "mark"}
    PROVE  ImageOK' /\ EntriesLead' /\ Held'
<1>1. UNCHANGED <<inode_map, block_map, inode_region, blk>>
  BY DEF image
<1>2. ImageOK'
  BY <1>1, TypeParts DEF NInv, ImageOK
<1>3. EntriesLead'
  BY <1>1 DEF NInv, EntriesLead
<1>4. Held'
  BY <1>1 DEF NInv, Held, first, Type
<1>. QED  BY <1>2, <1>3, <1>4

\* The handler answers, or aborts.
LEMMA Answering ==
    ASSUME NInv, NEW code \in Int, Answer(code)
    PROVE  RunOK' /\ AtWork'
<1>1. pc' = "return" /\ ret' = code /\ loc' = NoLoc /\ call' = call
  BY DEF Answer
<1>2. RunOK'
  BY <1>1, NoLocType, TypeParts DEF NInv, RunOK
<1>. QED  BY <1>1, <1>2 DEF AtWork, Creating, Removing, Writing

LEMMA Aborting ==
    ASSUME NInv, Abort
    PROVE  RunOK' /\ AtWork'
<1>1. pc' = "dead" /\ ret' = ret /\ loc' = NoLoc /\ call' = call
  BY DEF Abort
<1>2. RunOK'
  BY <1>1, NoLocType, TypeParts DEF NInv, RunOK
<1>. QED  BY <1>1, <1>2 DEF AtWork, Creating, Removing, Writing

\* What becomes of the entries of the blocks.
LEMMA ValidEntry ==
    ASSUME NEW e \in Dirent, e.valid
    PROVE  e \in [valid : {TRUE}, isDir : BOOLEAN, inode : Bits, name : Names \cup {""}]
<1>1. NoEntry.valid = FALSE
  BY DEF NoEntry
<1>2. e # NoEntry
  <2>. SUFFICES ASSUME e = NoEntry PROVE FALSE
    OBVIOUS
  <2>1. e.valid = FALSE
    BY <1>1
  <2>. QED  BY <2>1
<1>. QED  BY <1>2 DEF Dirent

LEMMA EntriesRemoved ==
    ASSUME ImageOK, NEW d, NEW n
    PROVE  /\ WithoutEntries(d, n) \in [Blocks -> Block]
           /\ \A b \in Blocks, s \in 1 .. NDIRENTS :
                 WithoutEntries(d, n)[b].ent[s] =
                     IF b = first(d) /\ s \in Named(d, n) THEN NoEntry ELSE blk[b].ent[s]
           /\ \A b \in Blocks : WithoutEntries(d, n)[b].word = blk[b].word
<1>. DEFINE W == WithoutEntries(d, n)
            E == [s \in 1 .. NDIRENTS |-> IF s \in Named(d, n) THEN NoEntry ELSE blk[first(d)].ent[s]]
<1>1. W = [blk EXCEPT ![first(d)].ent = E]
  BY DEF WithoutEntries, first
<1>2. blk \in [Blocks -> Block]
  BY DEF ImageOK
<1>3. W = [b \in Blocks |-> IF b = first(d) THEN [blk[b] EXCEPT !.ent = E] ELSE blk[b]]
  <2>. HIDE DEF W, E
  <2>. QED  BY <1>1, <1>2
<1>4. ASSUME NEW b \in Blocks
      PROVE  /\ W[b] \in Block
             /\ W[b].word = blk[b].word
             /\ \A s \in 1 .. NDIRENTS :
                   W[b].ent[s] = IF b = first(d) /\ s \in Named(d, n)
                                 THEN NoEntry ELSE blk[b].ent[s]
  <2>1. blk[b] \in Block
    BY <1>2
  <2>2. CASE b # first(d)
    <3>1. W[b] = blk[b]
      BY <1>3, <2>2
    <3>. HIDE DEF W
    <3>. QED  BY <2>1, <2>2, <3>1
  <2>3. CASE b = first(d)
    <3>1. W[b] = [blk[b] EXCEPT !.ent = E]
      BY <1>3, <2>3
    <3>2. E \in [1 .. NDIRENTS -> Dirent]
      BY <2>1, <2>3 DEF Block, Dirent
    <3>3. \A s \in 1 .. NDIRENTS : E[s] = IF s \in Named(d, n) THEN NoEntry ELSE blk[b].ent[s]
      BY <2>3
    <3>. HIDE DEF W, E
    <3>4. W[b].ent = E /\ W[b].word = blk[b].word
      BY <2>1, <3>1 DEF Block
    <3>5. W[b] \in Block
      BY <2>1, <3>1, <3>2 DEF Block
    <3>. QED  BY <2>3, <3>3, <3>4, <3>5
  <2>. QED  BY <2>2, <2>3
<1>5. W \in [Blocks -> Block]
  <2>. HIDE DEF W
  <2>1. W = [b \in Blocks |-> W[b]]
    BY <1>3
  <2>. QED  BY <1>4, <2>1
<1>. HIDE DEF W
<1>6. W = WithoutEntries(d, n)
  BY DEF W
<1>. QED  BY <1>4, <1>5, <1>6

LEMMA EntriesRenamed ==
    ASSUME ImageOK, NEW d, NEW n, NEW m \in Names
    PROVE  /\ RenamedEntries(d, n, m) \in [Blocks -> Block]
           /\ \A b \in Blocks, s \in 1 .. NDIRENTS :
                 RenamedEntries(d, n, m)[b].ent[s] =
                     IF b = first(d) /\ s \in Named(d, n)
                     THEN [blk[b].ent[s] EXCEPT !.name = m] ELSE blk[b].ent[s]
           /\ \A b \in Blocks : RenamedEntries(d, n, m)[b].word = blk[b].word
<1>. DEFINE W == RenamedEntries(d, n, m)
            E == [s \in 1 .. NDIRENTS |-> IF s \in Named(d, n)
                      THEN [blk[first(d)].ent[s] EXCEPT !.name = m]
                      ELSE blk[first(d)].ent[s]]
<1>1. W = [blk EXCEPT ![first(d)].ent = E]
  BY DEF RenamedEntries, first
<1>2. blk \in [Blocks -> Block]
  BY DEF ImageOK
<1>3. W = [b \in Blocks |-> IF b = first(d) THEN [blk[b] EXCEPT !.ent = E] ELSE blk[b]]
  <2>. HIDE DEF W, E
  <2>. QED  BY <1>1, <1>2
<1>4. ASSUME NEW b \in Blocks
      PROVE  /\ W[b] \in Block
             /\ W[b].word = blk[b].word
             /\ \A s \in 1 .. NDIRENTS :
                   W[b].ent[s] = IF b = first(d) /\ s \in Named(d, n)
                                 THEN [blk[b].ent[s] EXCEPT !.name = m] ELSE blk[b].ent[s]
  <2>1. blk[b] \in Block
    BY <1>2
  <2>2. CASE b # first(d)
    <3>1. W[b] = blk[b]
      BY <1>3, <2>2
    <3>. HIDE DEF W
    <3>. QED  BY <2>1, <2>2, <3>1
  <2>3. CASE b = first(d)
    <3>1. W[b] = [blk[b] EXCEPT !.ent = E]
      BY <1>3, <2>3
    <3>2. ASSUME NEW s \in 1 .. NDIRENTS
          PROVE  E[s] \in Dirent
      <4>1. blk[b].ent[s] \in Dirent
        BY <2>1 DEF Block
      <4>2. CASE s \in Named(d, n)
        <5>1. blk[b].ent[s].valid
          BY <2>3, <4>2 DEF Named, Entries, first
        <5>2. blk[b].ent[s] \in [valid : {TRUE}, isDir : BOOLEAN, inode : Bits, name : Names \cup {""}]
          BY <4>1, <5>1, ValidEntry
        <5>3. [blk[b].ent[s] EXCEPT !.name = m]
                 \in [valid : {TRUE}, isDir : BOOLEAN, inode : Bits, name : Names \cup {""}]
          BY <5>2
        <5>4. E[s] = [blk[b].ent[s] EXCEPT !.name = m]
          BY <2>3, <4>2
        <5>. HIDE DEF E
        <5>. QED  BY <5>3, <5>4 DEF Dirent
      <4>3. CASE s \notin Named(d, n)
        <5>1. E[s] = blk[b].ent[s]
          BY <2>3, <4>3
        <5>. QED  BY <4>1, <5>1
      <4>. QED  BY <4>2, <4>3
    <3>3. \A s \in 1 .. NDIRENTS : E[s] = IF s \in Named(d, n)
              THEN [blk[b].ent[s] EXCEPT !.name = m] ELSE blk[b].ent[s]
      BY <2>3
    <3>4. E = [s \in 1 .. NDIRENTS |-> E[s]]
      OBVIOUS
    <3>. HIDE DEF W, E
    <3>5. E \in [1 .. NDIRENTS -> Dirent]
      BY <3>2, <3>4
    <3>6. W[b].ent = E /\ W[b].word = blk[b].word
      BY <2>1, <3>1 DEF Block
    <3>7. W[b] \in Block
      BY <2>1, <3>1, <3>5 DEF Block
    <3>. QED  BY <2>3, <3>3, <3>6, <3>7
  <2>. QED  BY <2>2, <2>3
<1>5. W \in [Blocks -> Block]
  <2>. HIDE DEF W
  <2>1. W = [b \in Blocks |-> W[b]]
    BY <1>3
  <2>. QED  BY <1>4, <2>1
<1>. HIDE DEF W
<1>6. W = RenamedEntries(d, n, m)
  BY DEF W
<1>. QED  BY <1>4, <1>5, <1>6

\* A handler's errors are numbers.
LEMMA ErrorIsInt ==
    ASSUME TypeOK, EntriesLead, pc = "called",
           call.op = "rename" => call.path # <<>> /\ call.dst # <<>>
    PROVE  Error \in Int
<1>1. call.path \in Paths /\ call.dst \in Paths
  BY DEF TypeOK
<1>2. \A p \in Paths : translate(p) \in Int /\ translate(p) # 0
  <2>1. \A x \in Answers : x \in Int /\ x # 0
    BY Ranges DEF Answers, Inodes, ENOENT, ENOTDIR
  <2>. QED  BY <2>1, Answered
<1>3. CASE call.op \in {"mknod", "mkdir"}
  <2>. DEFINE p == call.path
              father == translate(trancate_path(p))
  <2>1. Error = CreateError(p)
    BY <1>3 DEF Error
  <2>2. CASE p = <<>>
    BY <2>1, <2>2 DEF CreateError
  <2>3. CASE p # <<>>
    <3>1. trancate_path(p) \in Paths
      BY <1>1, <2>3, PathShape
    <3>2. father \in Int /\ father # 0
      BY <1>2, <3>1
    <3>3. CASE father < 0
      BY <2>1, <2>3, <3>2, <3>3 DEF CreateError
    <3>4. CASE father > 0
      <4>1. CreateError(p) =
              IF translate(p) > 0 THEN EEXIST
              ELSE IF NoFreeSlot(father) THEN ENOSPC
              ELSE IF call.op = "mkdir" /\ Type(father) # "dir" THEN ENOTDIR
              ELSE IF call.op = "mknod" /\ NoFreeInode THEN ENOSPC ELSE 0
        BY <2>3, <3>4 DEF CreateError
      <4>. QED  BY <2>1, <4>1 DEF EEXIST, ENOSPC, ENOTDIR
    <3>. QED  BY <3>2, <3>3, <3>4
  <2>. QED  BY <2>2, <2>3
<1>4. CASE call.op \notin {"mknod", "mkdir"}
  <2>1. CASE translate(call.path) < 0
    BY <1>1, <1>2, <1>4, <2>1 DEF Error
  <2>2. CASE ~(translate(call.path) < 0)
    <3>1. Error = CASE call.op \in {"unlink", "truncate"} ->
                         IF Type(translate(call.path)) = "dir" THEN EISDIR ELSE 0
                    [] call.op = "rmdir"  -> RmdirError(call.path)
                    [] call.op = "rename" -> RenameError(call.path, call.dst)
                    [] OTHER -> 0
      BY <1>4, <2>2 DEF Error
    <3>2. RmdirError(call.path) \in Int /\ RenameError(call.path, call.dst) \in Int
      BY DEF RmdirError, RenameError, EEXIST, EINVAL, ENOTDIR, ENOTEMPTY
    <3>. QED  BY <3>1, <3>2 DEF EISDIR
  <2>. QED  BY <2>1, <2>2
<1>. QED  BY <1>3, <1>4

-----------------------------------------------------------------------------
(***************************************************************************)
(* Every step keeps the invariant of the image.                            *)
(***************************************************************************)
\* Its parts make it up.
LEMMA Parts ==
    (ImageOK' /\ RunOK' /\ EntriesLead' /\ Held' /\ AtWork') => NInv'
BY TypeParts DEF NInv, TypeOK, ImageOK, RunOK

LEMMA InitKeeps == Init => NInv
<1>. SUFFICES ASSUME Init PROVE NInv
  OBVIOUS
<1>1. ImageOK
  <2>1. inode_map \in SUBSET Bits /\ block_map \in SUBSET Blocks
    BY Ranges DEF Init, Bits, Blocks
  <2>2. inode_region \in [Inodes -> Inode]
    BY Ranges DEF Init, Inodes, Inode, Types, Blocks
  <2>3. ZeroBlock \in Block
    BY DEF ZeroBlock, Block, Dirent
  <2>4. blk \in [Blocks -> Block]
    BY <2>3 DEF Init
  <2>. QED  BY <2>1, <2>2, <2>4 DEF ImageOK
<1>2. RunOK
  <2>1. <<>> \in Paths
    BY Ranges DEF Paths
  <2>2. call \in [op : Ops \cup {"none"}, path : Paths, dst : Paths,
                  slash : BOOLEAN, word : Words \cup {0}]
    BY <2>1 DEF Init, NoCall
  <2>. QED  BY <2>2, NoLocType DEF Init, RunOK
<1>3. EntriesLead
  <2>1. \A b \in Blocks, s \in 1 .. NDIRENTS : blk[b].ent[s] = NoEntry
    <3>1. blk = [b \in Blocks |-> ZeroBlock]
      BY DEF Init
    <3>2. \A s \in 1 .. NDIRENTS : ZeroBlock.ent[s] = NoEntry
      BY DEF ZeroBlock
    <3>. QED  BY <3>1, <3>2
  <2>2. ~NoEntry.valid
    BY DEF NoEntry
  <2>. QED  BY <2>1, <2>2 DEF EntriesLead
<1>4. ASSUME NEW i \in Inodes
      PROVE  /\ i = 1 => first(i) = RootBlock /\ Type(i) = "dir"
             /\ i # 1 => first(i) = 0 /\ Type(i) = "none"
  <2>1. inode_region[i] = [type |-> IF i = 1 THEN "dir" ELSE "none",
                           direct0 |-> IF i = 1 THEN RootBlock ELSE 0]
    BY DEF Init
  <2>. QED  BY <2>1 DEF first, Type
<1>5. Held
  <2>1. block_map = 0 .. RootBlock
    BY DEF Init
  <2>2. /\ \A i \in Inodes : Type(i) = "dir" => first(i) # 0
        /\ \A i \in Inodes : first(i) # 0 => first(i) = RootBlock
        /\ \A i, j \in Inodes : first(i) # 0 /\ first(i) = first(j) => i = j
    BY <1>4, Ranges
  <2>. QED  BY <2>1, <2>2, Ranges DEF Held
<1>6. AtWork
  BY DEF AtWork, Init, Creating, Removing, Writing
<1>. QED  BY <1>1, <1>2, <1>3, <1>5, <1>6, TypeParts DEF NInv

LEMMA CallKeeps ==
    ASSUME NInv, NEW op \in Ops, NEW p \in Paths, NEW d \in Paths,
           NEW slash \in BOOLEAN, NEW w \in Words \cup {0}, Call(op, p, d, slash, w)
    PROVE  NInv'
<1>1. pc = "idle" /\ pc' = "called" /\ UNCHANGED image /\ loc' = loc /\ ret' = ret
      /\ call' = [op |-> op, path |-> p, dst |-> d, slash |-> slash, word |-> w]
  BY DEF Call
<1>2. op = "rename" => p # <<>> /\ d # <<>>
  BY DEF Call, Defined
<1>3. ImageOK' /\ EntriesLead' /\ Held'
  BY <1>1, ImageKept
<1>4. RunOK'
  <2>1. call' \in [op : Ops \cup {"none"}, path : Paths, dst : Paths,
                   slash : BOOLEAN, word : Words \cup {0}]
    BY <1>1
  <2>. QED  BY <1>1, <2>1, TypeParts DEF NInv, RunOK
<1>5. AtWork'
  BY <1>1, <1>2 DEF NInv, AtWork, Creating, Removing, Writing
<1>. QED  BY <1>3, <1>4, <1>5, Parts

LEMMA ReturnKeeps == NInv /\ (Return \/ Mount) => NInv'
<1>. SUFFICES ASSUME NInv, Return \/ Mount PROVE NInv'
  OBVIOUS
<1>1. /\ pc \in {"return", "dead"} /\ pc' = "idle" /\ call' = NoCall /\ ret' = 0
      /\ loc' \in {loc, NoLoc} /\ UNCHANGED image
  BY DEF Return, Mount
<1>2. ImageOK' /\ EntriesLead' /\ Held'
  BY <1>1, ImageKept
<1>3. RunOK'
  <2>1. <<>> \in Paths
    BY Ranges DEF Paths
  <2>2. call' \in [op : Ops \cup {"none"}, path : Paths, dst : Paths,
                   slash : BOOLEAN, word : Words \cup {0}]
    BY <1>1, <2>1 DEF NoCall
  <2>. QED  BY <1>1, <2>2, NoLocType, TypeParts DEF NInv, RunOK
<1>4. AtWork'
  BY <1>1 DEF NInv, AtWork, Creating, Removing, Writing
<1>. QED  BY <1>2, <1>3, <1>4, Parts

\* A step that leaves the image alone and ends the call.
LEMMA EndKeeps ==
    ASSUME NInv, UNCHANGED image, pc \notin {"clear", "mark"},
           Abort \/ \E code \in Int : Answer(code)
    PROVE  NInv'
BY ImageKept, Answering, Aborting, Parts

LEMMA RefuseKeeps == NInv /\ Refuse => NInv'
<1>. SUFFICES ASSUME NInv, Refuse PROVE NInv'
  OBVIOUS
<1>1. pc = "called" /\ Answer(Error) /\ UNCHANGED image
  BY DEF Refuse
<1>2. Error \in Int
  BY <1>1, ErrorIsInt DEF NInv, AtWork
<1>. QED  BY <1>1, <1>2, EndKeeps

LEMMA NoPlaceKeeps ==
    NInv /\ (MkdirNoBlock \/ MkdirNoInode \/ CreateAborts \/ WriteNoBlock) => NInv'
<1>. SUFFICES ASSUME NInv, MkdirNoBlock \/ MkdirNoInode \/ CreateAborts \/ WriteNoBlock
              PROVE  NInv'
  OBVIOUS
<1>1. pc \notin {"clear", "mark"} /\ UNCHANGED image
  BY DEF MkdirNoBlock, MkdirNoInode, CreateAborts, WriteNoBlock, Starts
<1>2. Abort \/ \E code \in Int : Answer(code)
  BY DEF MkdirNoBlock, MkdirNoInode, CreateAborts, WriteNoBlock, ENOSPC
<1>. QED  BY <1>1, <1>2, EndKeeps

LEMMA MknodStartKeeps == NInv /\ MknodStart => NInv'
<1>. SUFFICES ASSUME NInv, MknodStart PROVE NInv'
  OBVIOUS
<1>. DEFINE father == translate(trancate_path(call.path))
<1>1. /\ pc = "called" /\ call.op = "mknod" /\ Error = 0 /\ pc' = "inode"
      /\ UNCHANGED <<block_map, inode_region, blk, call, ret>>
  BY DEF MknodStart, Starts
<1>2. PICK i \in Bits : /\ FreeInode(i)
                        /\ inode_map' = inode_map \cup {i}
                        /\ loc' = [Place EXCEPT !.inum = i]
  BY DEF MknodStart
<1>3. TypeOK /\ EntriesLead /\ loc = NoLoc
  BY <1>1 DEF NInv, AtWork, Creating, Removing, Writing
<1>4. call.path # <<>> /\ father \in Inodes \ {0}
  BY <1>1, <1>3, MayCreate
<1>5. PICK s \in 1 .. NDIRENTS : Place = [loc EXCEPT !.father = father, !.slot = s]
  BY <1>1, <1>3, PlaceIsFree
<1>6. loc' = [inum |-> i, father |-> father, slot |-> s, block |-> 0]
  BY <1>2, <1>3, <1>5 DEF NoLoc
<1>. HIDE DEF father
<1>7. ImageOK'
  BY <1>1, <1>2, TypeParts DEF NInv, ImageOK
<1>8. RunOK'
  <2>1. loc' \in [inum : Bits, father : Inodes, slot : 0 .. NDIRENTS, block : Blocks]
    <3>1. s \in 0 .. NDIRENTS /\ 0 \in Blocks
      BY Ranges DEF Blocks
    <3>. QED  BY <1>4, <1>6, <3>1
  <2>. QED  BY <1>1, <2>1, TypeParts DEF NInv, RunOK
<1>9. EntriesLead' /\ Held'
  BY <1>1 DEF NInv, EntriesLead, Held, first, Type
<1>10. AtWork'
  BY <1>1, <1>2, <1>4, <1>6 DEF AtWork, Creating, Removing, Writing, FreeInode
<1>. QED  BY <1>7, <1>8, <1>9, <1>10, Parts

\* A block that is taken is none of the layout's and nobody's.
LEMMA TakenBlock ==
    ASSUME NInv, pc \notin {"clear", "mark"}, NEW b \in Blocks, FreeBlock(b)
    PROVE  b >= RootBlock /\ b # 0 /\ b \notin block_map /\ \A i \in Inodes : first(i) # b
<1>1. b \notin block_map /\ b \in 0 .. NumBlocks - 1
  BY DEF FreeBlock, Blocks
<1>2. 0 .. RootBlock - 1 \subseteq block_map
  BY DEF NInv, Held
<1>3. b >= RootBlock /\ b # 0
  BY <1>1, <1>2, Ranges
<1>. QED  BY <1>1, <1>3 DEF NInv, Held

LEMMA MkdirBlockKeeps == NInv /\ MkdirBlock => NInv'
<1>. SUFFICES ASSUME NInv, MkdirBlock PROVE NInv'
  OBVIOUS
<1>. DEFINE father == translate(trancate_path(call.path))
<1>1. /\ pc = "called" /\ call.op = "mkdir" /\ Error = 0 /\ pc' = "mkdir"
      /\ UNCHANGED <<inode_map, inode_region, call, ret>>
  BY DEF MkdirBlock, Starts
<1>2. PICK b \in Blocks : /\ FreeBlock(b)
                          /\ block_map' = block_map \cup {b}
                          /\ blk' = [blk EXCEPT ![b] = ZeroBlock]
                          /\ loc' = [Place EXCEPT !.block = b]
  BY DEF MkdirBlock
<1>3. TypeOK /\ EntriesLead /\ loc = NoLoc
  BY <1>1 DEF NInv, AtWork, Creating, Removing, Writing
<1>4. call.path # <<>> /\ father \in Inodes \ {0}
  BY <1>1, <1>3, MayCreate
<1>5. PICK s \in 1 .. NDIRENTS : Place = [loc EXCEPT !.father = father, !.slot = s]
  BY <1>1, <1>3, PlaceIsFree
<1>6. loc' = [inum |-> 0, father |-> father, slot |-> s, block |-> b]
  BY <1>2, <1>3, <1>5 DEF NoLoc
<1>. HIDE DEF father
<1>7. b >= RootBlock /\ \A i \in Inodes : first(i) # b
  BY <1>1, <1>2, TakenBlock
<1>8. ImageOK'
  <2>1. ZeroBlock \in Block
    BY DEF ZeroBlock, Block, Dirent
  <2>. QED  BY <1>1, <1>2, <2>1, TypeParts DEF NInv, ImageOK
<1>9. RunOK'
  <2>1. loc' \in [inum : Bits, father : Inodes, slot : 0 .. NDIRENTS, block : Blocks]
    <3>1. s \in 0 .. NDIRENTS /\ 0 \in Bits
      BY Ranges DEF Bits
    <3>. QED  BY <1>4, <1>6, <3>1
  <2>. QED  BY <1>1, <2>1, TypeParts DEF NInv, RunOK
<1>10. EntriesLead'
  <2>. SUFFICES ASSUME NEW c \in Blocks, NEW t \in 1 .. NDIRENTS, blk'[c].ent[t].valid
                PROVE  blk'[c].ent[t].inode \in Inodes \ {0, 1}
    BY DEF EntriesLead
  <2>1. blk \in [Blocks -> Block] /\ ~ZeroBlock.ent[t].valid
    BY <1>3 DEF TypeOK, ZeroBlock, NoEntry
  <2>2. blk'[c] = blk[c]
    BY <1>2, <2>1
  <2>. QED  BY <1>3, <2>2 DEF EntriesLead
<1>11. Held'
  BY <1>1, <1>2 DEF NInv, Held, first, Type
<1>12. AtWork'
  BY <1>1, <1>2, <1>4, <1>6, <1>7 DEF AtWork, Creating, Removing, Writing, first
<1>. QED  BY <1>8, <1>9, <1>10, <1>11, <1>12, Parts

LEMMA MkdirInodeKeeps == NInv /\ MkdirInode => NInv'
<1>. SUFFICES ASSUME NInv, MkdirInode PROVE NInv'
  OBVIOUS
<1>1. /\ pc = "mkdir" /\ pc' = "inode"
      /\ UNCHANGED <<block_map, inode_region, blk, call, ret>>
  BY DEF MkdirInode
<1>2. PICK i \in Bits : /\ FreeInode(i)
                        /\ inode_map' = inode_map \cup {i}
                        /\ loc' = [loc EXCEPT !.inum = i]
  BY DEF MkdirInode
<1>3. loc \in [inum : Bits, father : Inodes, slot : 0 .. NDIRENTS, block : Blocks]
  BY DEF NInv, TypeOK
<1>4. /\ loc' \in [inum : Bits, father : Inodes, slot : 0 .. NDIRENTS, block : Blocks]
      /\ loc'.inum = i /\ loc'.father = loc.father /\ loc'.slot = loc.slot
      /\ loc'.block = loc.block
  BY <1>2, <1>3
<1>5. ImageOK' /\ RunOK'
  BY <1>1, <1>2, <1>4, TypeParts DEF NInv, ImageOK, RunOK
<1>6. EntriesLead' /\ Held'
  BY <1>1 DEF NInv, EntriesLead, Held, first, Type
<1>7. AtWork'
  BY <1>1, <1>2, <1>4 DEF NInv, AtWork, Creating, Removing, Writing, FreeInode, first
<1>. QED  BY <1>5, <1>6, <1>7, Parts

LEMMA CreateInodeKeeps == NInv /\ CreateInode => NInv'
<1>. SUFFICES ASSUME NInv, CreateInode PROVE NInv'
  OBVIOUS
<1>. DEFINE new == [type |-> IF call.op = "mkdir" THEN "dir" ELSE "file",
                    direct0 |-> loc.block]
<1>1. /\ pc = "inode" /\ pc' = "entry" /\ loc.inum \in Inodes
      /\ inode_region' = [inode_region EXCEPT ![loc.inum] = new]
      /\ UNCHANGED <<inode_map, block_map, blk, call, loc, ret>>
  BY DEF CreateInode
<1>2. new \in Inode
  BY DEF NInv, TypeOK, Inode, Types
<1>3. inode_region \in [Inodes -> Inode]
  BY DEF NInv, TypeOK
<1>4. \A i \in Inodes : inode_region'[i] = IF i = loc.inum THEN new ELSE inode_region[i]
  BY <1>1, <1>3
<1>5. \A i \in Inodes \ {loc.inum} : first(i)' = first(i) /\ Type(i)' = Type(i)
  BY <1>4 DEF first, Type
<1>6. first(loc.inum)' = loc.block /\ (Type(loc.inum)' = "dir" <=> call.op = "mkdir")
  <2>1. inode_region'[loc.inum] = new
    BY <1>1, <1>4
  <2>. QED  BY <1>1, <2>1 DEF first, Type
<1>7. ImageOK' /\ RunOK'
  <2>1. inode_region' \in [Inodes -> Inode]
    BY <1>1, <1>2, <1>3
  <2>. QED  BY <1>1, <2>1, TypeParts DEF NInv, ImageOK, RunOK
<1>. HIDE DEF new
<1>8. EntriesLead'
  BY <1>1 DEF NInv, EntriesLead
<1>9. /\ call.op \in {"mknod", "mkdir"}
      /\ loc.inum \in Inodes \ {0, 1}
      /\ IF call.op = "mkdir"
         THEN loc.block \in block_map /\ loc.block >= RootBlock
              /\ \A i \in Inodes : first(i) # loc.block
         ELSE loc.block = 0
  BY <1>1 DEF NInv, AtWork, Creating
<1>10. Held'
  <2>1. /\ 0 .. RootBlock - 1 \subseteq block_map
        /\ \A i \in Inodes : Type(i) = "dir" => first(i) # 0
        /\ \A i \in Inodes : first(i) # 0 => first(i) >= RootBlock /\ first(i) \in block_map
        /\ \A i, j \in Inodes : first(i) # 0 /\ first(i) = first(j) => i = j
    BY <1>1 DEF NInv, Held
  <2>2. /\ (0 .. RootBlock - 1 \subseteq block_map)'
        /\ \A i \in Inodes : Type(i)' = "dir" => first(i)' # 0
        /\ \A i \in Inodes : first(i)' # 0 => first(i)' >= RootBlock /\ first(i)' \in block_map'
        /\ \A i, j \in Inodes : first(i)' # 0 /\ first(i)' = first(j)' => i = j
    <3>1. (0 .. RootBlock - 1 \subseteq block_map)'
      BY <1>1, <2>1
    <3>2. ASSUME NEW i \in Inodes, Type(i)' = "dir" PROVE first(i)' # 0
      BY <1>1, <1>5, <1>6, <1>9, <2>1, <3>2, Ranges DEF first, Type
    <3>3. ASSUME NEW i \in Inodes, first(i)' # 0
          PROVE  first(i)' >= RootBlock /\ first(i)' \in block_map'
      BY <1>1, <1>5, <1>6, <1>9, <2>1, <3>3, Ranges DEF first, Type
    <3>4. ASSUME NEW i \in Inodes, NEW j \in Inodes, first(i)' # 0, first(i)' = first(j)'
          PROVE  i = j
      BY <1>1, <1>5, <1>6, <1>9, <2>1, <3>4, Ranges DEF first, Type
    <3>. QED  BY <3>1, <3>2, <3>3, <3>4
  <2>. QED  BY <1>1, <2>2 DEF Held
<1>11. AtWork'
  BY <1>1, <1>9 DEF NInv, AtWork, Creating, Removing, Writing
<1>. QED  BY <1>7, <1>8, <1>10, <1>11, Parts

\* What a new entry changes: the place that was chosen for it, which is in the
\* father's block.
LEMMA EntryCreated ==
    ASSUME NInv, CreateEntry
    PROVE  LET b == first(loc.father)
               name == get_name(call.path, call.slash)
               entry == [valid |-> TRUE, isDir |-> call.op = "mkdir",
                         inode |-> loc.inum, name |-> name]
           IN  /\ pc = "entry" /\ b # 0 /\ b \in Blocks /\ Answer(0)
               /\ UNCHANGED <<inode_map, block_map, inode_region>>
               /\ loc.father \in Inodes /\ loc.slot \in 1 .. NDIRENTS
               /\ loc.inum \in Inodes \ {0, 1}
               /\ call.path \in Paths \ {<<>>}
               /\ blk' \in [Blocks -> Block]
               /\ \A c \in Blocks, s \in 1 .. NDIRENTS :
                     blk'[c].ent[s] = IF c = b /\ s = loc.slot THEN entry ELSE blk[c].ent[s]
<1>. DEFINE b == first(loc.father)
            name == get_name(call.path, call.slash)
            entry == [valid |-> TRUE, isDir |-> call.op = "mkdir",
                      inode |-> loc.inum, name |-> name]
<1>1. /\ pc = "entry" /\ b # 0 /\ Answer(0)
      /\ blk' = [blk EXCEPT ![b].ent[loc.slot] = entry]
      /\ UNCHANGED <<inode_map, block_map, inode_region>>
  BY DEF CreateEntry, first
<1>2. /\ loc.father \in Inodes /\ loc.slot \in 1 .. NDIRENTS
      /\ loc.inum \in Inodes \ {0, 1} /\ loc.inum \in Bits
      /\ call.path \in Paths /\ call.path # <<>>
  BY <1>1 DEF NInv, TypeOK, AtWork, Creating
<1>3. entry \in Dirent
  <2>1. name \in Names \cup {""}
    BY <1>2, PathShape DEF get_name
  <2>2. entry \in [valid : {TRUE}, isDir : BOOLEAN, inode : Bits, name : Names \cup {""}]
    <3>. HIDE DEF name
    <3>. QED  BY <1>2, <2>1
  <2>. QED  BY <2>2 DEF Dirent
<1>4. b \in Blocks /\ blk \in [Blocks -> Block]
  BY <1>2, EntryType DEF NInv, TypeOK
<1>. HIDE DEF b, entry
<1>5. /\ blk' \in [Blocks -> Block]
      /\ \A c \in Blocks, s \in 1 .. NDIRENTS :
            blk'[c].ent[s] = IF c = b /\ s = loc.slot THEN entry ELSE blk[c].ent[s]
  <2>1. blk[b] \in Block
    BY <1>4
  <2>2. [blk[b] EXCEPT !.ent[loc.slot] = entry] \in Block
    BY <1>3, <2>1 DEF Block
  <2>3. blk' = [blk EXCEPT ![b] = [blk[b] EXCEPT !.ent[loc.slot] = entry]]
    BY <1>1
  <2>4. \A s \in 1 .. NDIRENTS : [blk[b] EXCEPT !.ent[loc.slot] = entry].ent[s]
                                  = IF s = loc.slot THEN entry ELSE blk[b].ent[s]
    BY <2>1 DEF Block
  <2>. QED  BY <1>4, <2>2, <2>3, <2>4
<1>. QED  BY <1>1, <1>2, <1>4, <1>5 DEF b, entry

LEMMA CreateEntryKeeps == NInv /\ CreateEntry => NInv'
<1>. SUFFICES ASSUME NInv, CreateEntry PROVE NInv'
  OBVIOUS
<1>1. pc = "entry" /\ Answer(0) /\ UNCHANGED <<inode_map, block_map, inode_region>>
  BY EntryCreated
<1>2. RunOK' /\ AtWork'
  BY <1>1, Answering
<1>3. ImageOK'
  BY <1>1, EntryCreated, TypeParts DEF NInv, ImageOK
<1>4. EntriesLead'
  BY EntryCreated DEF NInv, EntriesLead
<1>5. Held'
  BY <1>1 DEF NInv, Held, first, Type, Answer
<1>. QED  BY <1>2, <1>3, <1>4, <1>5, Parts

LEMMA TruncateFreeKeeps == NInv /\ TruncateFree => NInv'
<1>. SUFFICES ASSUME NInv, TruncateFree PROVE NInv'
  OBVIOUS
<1>. DEFINE t == translate(call.path)
<1>1. /\ pc = "called" /\ call.op \in {"truncate", "unlink"} /\ Error = 0
      /\ pc' = "clear" /\ loc' = [loc EXCEPT !.inum = t]
      /\ block_map' = block_map \ ({inode_region[loc'.inum].direct0} \ {0})
      /\ UNCHANGED <<inode_map, inode_region, blk, call, ret>>
  BY DEF TruncateFree, Starts
<1>2. TypeOK /\ EntriesLead /\ loc = NoLoc
  BY <1>1 DEF NInv, AtWork, Creating, Removing, Writing
<1>3. t \in Inodes \ {0} /\ Type(t) # "dir"
  BY <1>1, <1>2, MayChange
<1>. HIDE DEF t
<1>4. loc' = [inum |-> t, father |-> 0, slot |-> 0, block |-> 0]
  BY <1>1, <1>2 DEF NoLoc
<1>5. block_map' = block_map \ ({first(t)} \ {0})
  BY <1>1, <1>4 DEF first
<1>6. ImageOK'
  BY <1>1, <1>5, TypeParts DEF NInv, ImageOK
<1>7. RunOK'
  <2>1. t \in Bits /\ 0 \in Inodes /\ 0 \in 0 .. NDIRENTS /\ 0 \in Blocks
    BY <1>3, Ranges DEF Bits, Inodes, Blocks
  <2>2. loc' \in [inum : Bits, father : Inodes, slot : 0 .. NDIRENTS, block : Blocks]
    BY <1>4, <2>1
  <2>. QED  BY <1>1, <2>2, TypeParts DEF NInv, RunOK
<1>8. EntriesLead'
  BY <1>1 DEF NInv, EntriesLead
<1>9. /\ 0 .. RootBlock - 1 \subseteq block_map
      /\ \A i \in Inodes : Type(i) = "dir" => first(i) # 0
      /\ \A i \in Inodes : first(i) # 0 => first(i) >= RootBlock /\ first(i) \in block_map
      /\ \A i, j \in Inodes : first(i) # 0 /\ first(i) = first(j) => i = j
  BY <1>1 DEF NInv, Held
<1>10. Held'
  <2>1. 0 .. RootBlock - 1 \subseteq block_map'
    BY <1>3, <1>5, <1>9, Ranges
  <2>2. \A i \in Inodes : first(i) # 0 => first(i) \in block_map' \/ i = t
    BY <1>3, <1>5, <1>9
  <2>3. pc' = "clear" /\ loc'.inum = t
    BY <1>1, <1>4
  <2>. QED  BY <1>1, <1>9, <2>1, <2>2, <2>3 DEF Held, first, Type
<1>11. AtWork'
  BY <1>1, <1>3, <1>4 DEF AtWork, Creating, Removing, Writing, Type
<1>. QED  BY <1>6, <1>7, <1>8, <1>10, <1>11, Parts

LEMMA TruncateInodeKeeps == NInv /\ TruncateInode => NInv'
<1>. SUFFICES ASSUME NInv, TruncateInode PROVE NInv'
  OBVIOUS
<1>1. /\ pc = "clear" /\ UNCHANGED <<inode_map, block_map, blk>>
      /\ inode_region' = [inode_region EXCEPT ![loc.inum].direct0 = 0]
      /\ \/ Answer(0)
         \/ call.op # "truncate" /\ pc' = "unmap" /\ UNCHANGED <<call, loc, ret>>
  BY DEF TruncateInode
<1>2. /\ loc.inum \in Inodes /\ Type(loc.inum) # "dir" /\ call.op \in {"truncate", "unlink"}
      /\ inode_region \in [Inodes -> Inode]
  BY <1>1 DEF NInv, TypeOK, AtWork, Removing
<1>3. inode_region[loc.inum] \in Inode /\ 0 \in Blocks
  BY <1>2, Ranges DEF Blocks
<1>4. inode_region' = [inode_region EXCEPT ![loc.inum] = [inode_region[loc.inum] EXCEPT !.direct0 = 0]]
  BY <1>1
<1>5. [inode_region[loc.inum] EXCEPT !.direct0 = 0] \in Inode
  BY <1>3 DEF Inode
<1>6. inode_region' \in [Inodes -> Inode]
  BY <1>2, <1>4, <1>5
<1>7. \A i \in Inodes :
         /\ inode_region'[i].type = inode_region[i].type
         /\ inode_region'[i].direct0 = IF i = loc.inum THEN 0 ELSE inode_region[i].direct0
  BY <1>2, <1>3, <1>4 DEF Inode
<1>8. ImageOK' /\ EntriesLead'
  BY <1>1, <1>6, TypeParts DEF NInv, ImageOK, EntriesLead
<1>9. RunOK' /\ AtWork'
  <2>1. CASE Answer(0)
    BY <2>1, Answering
  <2>2. CASE call.op # "truncate" /\ pc' = "unmap" /\ UNCHANGED <<call, loc, ret>>
    <3>1. RunOK'
      BY <2>2, TypeParts DEF NInv, RunOK
    <3>2. AtWork'
      BY <1>1, <1>2, <1>7, <2>2 DEF NInv, AtWork, Creating, Removing, Writing, Type
    <3>. QED  BY <3>1, <3>2
  <2>. QED  BY <1>1, <2>1, <2>2
<1>10. Held'
  <2>1. /\ 0 .. RootBlock - 1 \subseteq block_map
        /\ \A i \in Inodes : Type(i) = "dir" => first(i) # 0
        /\ \A i \in Inodes : first(i) # 0 => first(i) >= RootBlock
        /\ \A i \in Inodes : first(i) # 0 => first(i) \in block_map \/ i = loc.inum
        /\ \A i, j \in Inodes : first(i) # 0 /\ first(i) = first(j) => i = j
    BY DEF NInv, Held
  <2>. QED  BY <1>1, <1>2, <1>7, <2>1 DEF Held, first, Type
<1>. QED  BY <1>8, <1>9, <1>10, Parts

LEMMA UnmapKeeps == NInv /\ (UnlinkMap \/ RmdirMap) => NInv'
<1>. SUFFICES ASSUME NInv, UnlinkMap \/ RmdirMap PROVE NInv'
  OBVIOUS
<1>1. /\ UNCHANGED <<block_map, inode_region, blk, call, loc, ret>>
      /\ inode_map' \in SUBSET Bits
      /\ \/ pc = "unmap" /\ pc' = "unlink"
         \/ pc = "called" /\ pc' = "rmdir"
  BY DEF UnlinkMap, RmdirMap, Starts, NInv, TypeOK
<1>2. ImageOK' /\ RunOK'
  BY <1>1, TypeParts DEF NInv, ImageOK, RunOK
<1>3. EntriesLead' /\ Held'
  BY <1>1 DEF NInv, EntriesLead, Held, first, Type
<1>4. AtWork'
  BY <1>1 DEF NInv, AtWork, Creating, Removing, Writing, Type
<1>. QED  BY <1>2, <1>3, <1>4, Parts

LEMMA EntryGoneKeeps == NInv /\ (UnlinkEntry \/ RmdirEntry) => NInv'
<1>. SUFFICES ASSUME NInv, UnlinkEntry \/ RmdirEntry PROVE NInv'
  OBVIOUS
<1>1. \E d, n : blk' = WithoutEntries(d, n)
  BY DEF UnlinkEntry, RmdirEntry
<1>2. /\ UNCHANGED <<inode_map, block_map, inode_region>> /\ pc \notin {"clear", "mark"} /\ pc' \notin {"clear", "mark"}
      /\ \E code \in Int : Answer(code)
  BY DEF UnlinkEntry, RmdirEntry, ENOENT, Answer
<1>3. RunOK' /\ AtWork'
  BY <1>2, Answering
<1>4. PICK d, n : blk' = WithoutEntries(d, n)
  BY <1>1
<1>5. ImageOK
  BY TypeParts DEF NInv
<1>6. /\ WithoutEntries(d, n) \in [Blocks -> Block]
      /\ \A b \in Blocks, s \in 1 .. NDIRENTS :
            WithoutEntries(d, n)[b].ent[s] =
                IF b = first(d) /\ s \in Named(d, n) THEN NoEntry ELSE blk[b].ent[s]
  BY <1>5, EntriesRemoved
<1>7. ImageOK'
  BY <1>2, <1>4, <1>5, <1>6 DEF ImageOK
<1>8. EntriesLead'
  <2>1. ~NoEntry.valid
    BY DEF NoEntry
  <2>. QED  BY <1>4, <1>6, <2>1 DEF NInv, EntriesLead
<1>9. Held'
  BY <1>2 DEF NInv, Held, first, Type
<1>. QED  BY <1>3, <1>7, <1>8, <1>9, Parts

LEMMA RenameKeeps == NInv /\ Rename => NInv'
<1>. SUFFICES ASSUME NInv, Rename PROVE NInv'
  OBVIOUS
<1>1. /\ pc = "called" /\ call.op = "rename" /\ Answer(0)
      /\ UNCHANGED <<inode_map, block_map, inode_region>>
      /\ \E d, n : blk' = RenamedEntries(d, n, call.dst[Len(call.dst)])
  BY DEF Rename, Starts
<1>. DEFINE m == call.dst[Len(call.dst)]
<1>2. m \in Names
  <2>1. call.dst \in Paths /\ call.dst # <<>>
    BY <1>1 DEF NInv, TypeOK, AtWork
  <2>. QED  BY <2>1, PathShape
<1>. HIDE DEF m
<1>3. PICK d, n : blk' = RenamedEntries(d, n, m)
  BY <1>1 DEF m
<1>4. ImageOK
  BY TypeParts DEF NInv
<1>5. /\ RenamedEntries(d, n, m) \in [Blocks -> Block]
      /\ \A b \in Blocks, s \in 1 .. NDIRENTS :
            RenamedEntries(d, n, m)[b].ent[s] =
                IF b = first(d) /\ s \in Named(d, n)
                THEN [blk[b].ent[s] EXCEPT !.name = m] ELSE blk[b].ent[s]
  BY <1>2, <1>4, EntriesRenamed
<1>6. RunOK' /\ AtWork'
  BY <1>1, Answering
<1>7. ImageOK'
  BY <1>1, <1>3, <1>4, <1>5 DEF ImageOK
<1>8. EntriesLead'
  <2>. SUFFICES ASSUME NEW b \in Blocks, NEW s \in 1 .. NDIRENTS, blk'[b].ent[s].valid
                PROVE  blk'[b].ent[s].inode \in Inodes \ {0, 1}
    BY DEF EntriesLead
  <2>1. blk[b].ent[s] \in Dirent
    BY <1>4 DEF ImageOK, Block
  <2>2. /\ [blk[b].ent[s] EXCEPT !.name = m].valid = blk[b].ent[s].valid
        /\ [blk[b].ent[s] EXCEPT !.name = m].inode = blk[b].ent[s].inode
    BY <2>1 DEF Dirent, NoEntry
  <2>3. blk'[b].ent[s].valid = blk[b].ent[s].valid /\ blk'[b].ent[s].inode = blk[b].ent[s].inode
    BY <1>3, <1>5, <2>2
  <2>. QED  BY <2>3 DEF NInv, EntriesLead
<1>9. Held'
  BY <1>1 DEF NInv, Held, first, Type, Answer
<1>. QED  BY <1>6, <1>7, <1>8, <1>9, Parts

LEMMA ChmodKeeps == NInv /\ Chmod => NInv'
<1>. SUFFICES ASSUME NInv, Chmod PROVE NInv'
  OBVIOUS
<1>. DEFINE t == translate(call.path)
<1>1. /\ pc = "called" /\ call.op = "chmod" /\ Error = 0 /\ Answer(0)
      /\ UNCHANGED <<inode_map, block_map, blk>>
      /\ inode_region' = [inode_region EXCEPT ![t].type =
                            IF Frontend = "fuse" THEN @ ELSE "bare"]
  BY DEF Chmod, Starts
<1>2. TypeOK /\ EntriesLead
  BY DEF NInv
<1>3. t \in Inodes
  BY <1>1, <1>2, MayChange
<1>. HIDE DEF t
<1>4. inode_region \in [Inodes -> Inode] /\ inode_region[t] \in Inode
  BY <1>2, <1>3 DEF TypeOK
<1>5. \E y \in {inode_region[t].type, "bare"} :
        inode_region' = [inode_region EXCEPT ![t] = [inode_region[t] EXCEPT !.type = y]]
  BY <1>1
<1>6. PICK y \in {inode_region[t].type, "bare"} :
        inode_region' = [inode_region EXCEPT ![t] = [inode_region[t] EXCEPT !.type = y]]
  BY <1>5
<1>7. [inode_region[t] EXCEPT !.type = y] \in Inode
  BY <1>4 DEF Inode, Types
<1>8. inode_region' \in [Inodes -> Inode]
  BY <1>4, <1>6, <1>7
<1>9. \A i \in Inodes :
         /\ inode_region'[i].type \in {inode_region[i].type, "bare"}
         /\ inode_region'[i].direct0 = inode_region[i].direct0
  BY <1>3, <1>4, <1>6 DEF Inode
<1>10. ImageOK' /\ EntriesLead'
  BY <1>1, <1>8, TypeParts DEF NInv, ImageOK, EntriesLead
<1>11. RunOK' /\ AtWork'
  BY <1>1, Answering
<1>12. Held'
  <2>1. /\ 0 .. RootBlock - 1 \subseteq block_map
        /\ \A i \in Inodes : Type(i) = "dir" => first(i) # 0
        /\ \A i \in Inodes : first(i) # 0 => first(i) >= RootBlock /\ first(i) \in block_map
        /\ \A i, j \in Inodes : first(i) # 0 /\ first(i) = first(j) => i = j
    BY <1>1 DEF NInv, Held
  <2>2. \A i \in Inodes : (Type(i)' = "dir" => Type(i) = "dir") /\ first(i)' = first(i)
    BY <1>9 DEF Type, first
  <2>3. block_map' = block_map
    BY <1>1
  <2>. QED  BY <2>1, <2>2, <2>3 DEF Held
<1>. QED  BY <1>10, <1>11, <1>12, Parts

\* What fs_write changes for a file without a block: it gets one that no other inode
\* has, cleared, which is not marked yet.
LEMMA WriteBlockChanges ==
    ASSUME NInv, WriteBlock
    PROVE  LET t == translate(call.path)
           IN  /\ pc = "called" /\ call.op = "write" /\ pc' = "mark"
               /\ UNCHANGED <<inode_map, block_map, call, ret>>
               /\ t \in Inodes /\ first(t) = 0
               /\ \E b \in Blocks :
                     /\ b >= RootBlock /\ b # 0 /\ \A i \in Inodes : first(i) # b
                     /\ loc' = [inum |-> t, father |-> 0, slot |-> 0, block |-> b]
                     /\ inode_region' \in [Inodes -> Inode]
                     /\ \A i \in Inodes : /\ Type(i)' = Type(i)
                                          /\ first(i)' = IF i = t THEN b ELSE first(i)
                     /\ blk' = [blk EXCEPT ![b] = ZeroBlock]
<1>. DEFINE t == translate(call.path)
<1>1. /\ pc = "called" /\ call.op = "write" /\ Error = 0 /\ pc' = "mark"
      /\ UNCHANGED <<inode_map, block_map, call, ret>> /\ inode_region[t].direct0 = 0
  BY DEF WriteBlock, Starts
<1>2. PICK b \in Blocks :
        /\ FreeBlock(b)
        /\ blk' = [blk EXCEPT ![b] = ZeroBlock]
        /\ inode_region' = [inode_region EXCEPT ![t].direct0 = b]
        /\ loc' = [loc EXCEPT !.inum = t, !.block = b]
  BY DEF WriteBlock
<1>3. TypeOK /\ EntriesLead /\ loc = NoLoc
  BY <1>1 DEF NInv, AtWork, Creating, Removing, Writing
<1>4. t \in Inodes
  BY <1>1, <1>3, MayChange
<1>5. first(t) = 0
  BY <1>1 DEF first
<1>. HIDE DEF t
<1>6. inode_region \in [Inodes -> Inode] /\ inode_region[t] \in Inode
  BY <1>3, <1>4 DEF TypeOK
<1>7. /\ inode_region' \in [Inodes -> Inode]
      /\ \A i \in Inodes :
            /\ inode_region'[i].type = inode_region[i].type
            /\ inode_region'[i].direct0 = IF i = t THEN b ELSE inode_region[i].direct0
  <2>1. [inode_region[t] EXCEPT !.direct0 = b] \in Inode
    BY <1>6 DEF Inode
  <2>2. inode_region' = [inode_region EXCEPT ![t] = [inode_region[t] EXCEPT !.direct0 = b]]
    BY <1>2
  <2>3. inode_region' \in [Inodes -> Inode]
    BY <1>6, <2>1, <2>2
  <2>. QED  BY <1>4, <1>6, <2>2, <2>3 DEF Inode
<1>8. b >= RootBlock /\ b # 0 /\ \A i \in Inodes : first(i) # b
  BY <1>1, <1>2, TakenBlock
<1>9. \A i \in Inodes : Type(i)' = Type(i) /\ first(i)' = IF i = t THEN b ELSE first(i)
  BY <1>7 DEF Type, first
<1>10. loc' = [inum |-> t, father |-> 0, slot |-> 0, block |-> b]
  BY <1>2, <1>3 DEF NoLoc
<1>. QED  BY <1>1, <1>2, <1>4, <1>5, <1>7, <1>8, <1>9, <1>10 DEF t

LEMMA WriteBlockKeeps == NInv /\ WriteBlock => NInv'
<1>. SUFFICES ASSUME NInv, WriteBlock PROVE NInv'
  OBVIOUS
<1>. DEFINE t == translate(call.path)
<1>1. /\ pc = "called" /\ call.op = "write" /\ pc' = "mark" /\ t \in Inodes /\ first(t) = 0
      /\ UNCHANGED <<inode_map, block_map, call, ret>>
  BY WriteBlockChanges
<1>2. PICK b \in Blocks :
        /\ b >= RootBlock /\ b # 0 /\ \A i \in Inodes : first(i) # b
        /\ loc' = [inum |-> t, father |-> 0, slot |-> 0, block |-> b]
        /\ inode_region' \in [Inodes -> Inode]
        /\ \A i \in Inodes : Type(i)' = Type(i) /\ first(i)' = IF i = t THEN b ELSE first(i)
        /\ blk' = [blk EXCEPT ![b] = ZeroBlock]
  BY WriteBlockChanges
<1>. HIDE DEF t
<1>3. ZeroBlock \in Block /\ \A s \in 1 .. NDIRENTS : ~ZeroBlock.ent[s].valid
  BY DEF ZeroBlock, Block, Dirent, NoEntry
<1>4. blk \in [Blocks -> Block]
  BY DEF NInv, TypeOK
<1>5. ImageOK'
  BY <1>1, <1>2, <1>3, <1>4, TypeParts DEF NInv, ImageOK
<1>6. RunOK'
  <2>1. t \in Bits /\ 0 \in Inodes /\ 0 \in 0 .. NDIRENTS
    BY <1>1, Ranges DEF Bits, Inodes
  <2>2. loc' \in [inum : Bits, father : Inodes, slot : 0 .. NDIRENTS, block : Blocks]
    BY <1>2, <2>1
  <2>. QED  BY <1>1, <2>2, TypeParts DEF NInv, RunOK
<1>7. EntriesLead'
  <2>. SUFFICES ASSUME NEW c \in Blocks, NEW s \in 1 .. NDIRENTS, blk'[c].ent[s].valid
                PROVE  blk'[c].ent[s].inode \in Inodes \ {0, 1}
    BY DEF EntriesLead
  <2>1. blk'[c] = IF c = b THEN ZeroBlock ELSE blk[c]
    BY <1>2, <1>4
  <2>2. c # b /\ blk'[c] = blk[c]
    BY <1>3, <2>1
  <2>. QED  BY <2>2 DEF NInv, EntriesLead
<1>8. Held'
  <2>1. /\ 0 .. RootBlock - 1 \subseteq block_map
        /\ \A i \in Inodes : Type(i) = "dir" => first(i) # 0
        /\ \A i \in Inodes : first(i) # 0 => first(i) >= RootBlock /\ first(i) \in block_map
        /\ \A i, j \in Inodes : first(i) # 0 /\ first(i) = first(j) => i = j
    BY <1>1 DEF NInv, Held
  <2>2. loc'.inum = t
    BY <1>2
  <2>3. \A i \in Inodes : first(i)' # 0 =>
           first(i)' >= RootBlock /\ (first(i)' \in block_map' \/ i = loc'.inum)
    BY <1>1, <1>2, <2>1, <2>2
  <2>4. \A i, j \in Inodes : first(i)' # 0 /\ first(i)' = first(j)' => i = j
    BY <1>1, <1>2, <2>1
  <2>. QED  BY <1>1, <1>2, <2>1, <2>3, <2>4 DEF Held
<1>9. AtWork'
  <2>1. loc'.inum = t /\ loc'.block = b
    BY <1>2
  <2>2. first(loc.inum)' = b
    <3>1. inode_region'[t].direct0 = b
      BY <1>1, <1>2 DEF first
    <3>. QED  BY <2>1, <3>1 DEF first
  <2>. QED  BY <1>1, <1>2, <2>1, <2>2 DEF AtWork, Creating, Removing, Writing
<1>. QED  BY <1>5, <1>6, <1>7, <1>8, <1>9, Parts

\* The step between a block's link and its data, and that of a file that has one.
LEMMA WriteGoesOn == NInv /\ (WriteMark \/ WriteFound) => NInv'
<1>. SUFFICES ASSUME NInv, WriteMark \/ WriteFound PROVE NInv'
  OBVIOUS
<1>1. UNCHANGED <<inode_map, inode_region, blk, call, ret>> /\ pc' = "data"
  BY DEF WriteMark, WriteFound, image
<1>2. /\ loc' \in [inum : Bits, father : Inodes, slot : 0 .. NDIRENTS, block : Blocks]
      /\ call.op = "write" /\ loc'.inum \in Inodes
      /\ first(loc'.inum) = loc'.block /\ loc'.block # 0
      /\ block_map \subseteq block_map' /\ block_map' \in SUBSET Blocks
      /\ pc = "called" \/ (pc = "mark" /\ loc' = loc /\ loc.block \in block_map')
  <2>1. CASE WriteMark
    <3>1. pc = "mark" /\ block_map' = block_map \cup {loc.block} /\ loc' = loc
      BY <2>1 DEF WriteMark
    <3>. QED  BY <3>1 DEF NInv, TypeOK, AtWork, Writing
  <2>2. CASE WriteFound
    <3>. DEFINE t == translate(call.path)
    <3>1. /\ pc = "called" /\ call.op = "write" /\ Error = 0 /\ first(t) # 0 /\ UNCHANGED image
          /\ loc' = [loc EXCEPT !.inum = t, !.block = first(t)]
      BY <2>2 DEF WriteFound, Starts, first
    <3>2. TypeOK /\ EntriesLead /\ loc = NoLoc
      BY <3>1 DEF NInv, AtWork, Creating, Removing, Writing
    <3>3. t \in Inodes
      BY <3>1, <3>2, MayChange
    <3>. HIDE DEF t
    <3>4. loc' = [inum |-> t, father |-> 0, slot |-> 0, block |-> first(t)]
      BY <3>1, <3>2 DEF NoLoc
    <3>5. t \in Bits /\ 0 \in Inodes /\ 0 \in 0 .. NDIRENTS /\ first(t) \in Blocks
      BY <3>2, <3>3, Ranges DEF Bits, Inodes, first, TypeOK, Inode
    <3>6. block_map' = block_map /\ block_map \in SUBSET Blocks
      BY <3>1, <3>2 DEF image, TypeOK
    <3>. QED  BY <3>1, <3>3, <3>4, <3>5, <3>6
  <2>. QED  BY <2>1, <2>2
<1>3. ImageOK' /\ EntriesLead'
  BY <1>1, <1>2, TypeParts DEF NInv, ImageOK, EntriesLead
<1>4. RunOK'
  BY <1>1, <1>2, TypeParts DEF NInv, RunOK
<1>5. \A i \in Inodes : first(i)' = first(i) /\ Type(i)' = Type(i)
  BY <1>1 DEF first, Type
<1>6. Held'
  <2>1. /\ 0 .. RootBlock - 1 \subseteq block_map
        /\ \A i \in Inodes : Type(i) = "dir" => first(i) # 0
        /\ \A i \in Inodes : first(i) # 0 =>
              first(i) >= RootBlock /\ (first(i) \in block_map \/ (pc = "mark" /\ i = loc.inum))
        /\ \A i, j \in Inodes : first(i) # 0 /\ first(i) = first(j) => i = j
    BY <1>2 DEF NInv, Held
  <2>2. \A i \in Inodes : first(i) # 0 => first(i) \in block_map'
    BY <1>2, <2>1
  <2>. QED  BY <1>2, <1>5, <2>1, <2>2 DEF Held
<1>7. AtWork'
  <2>1. first(loc.inum)' = first(loc'.inum)
    BY <1>1 DEF first
  <2>. QED  BY <1>1, <1>2, <2>1 DEF AtWork, Creating, Removing, Writing
<1>. QED  BY <1>3, <1>4, <1>6, <1>7, Parts

\* What fs_write changes last: a word, in the block of the file.
LEMMA WriteDataChanges ==
    ASSUME NInv, WriteData
    PROVE  /\ pc = "data" /\ call.op = "write" /\ Answer(1)
           /\ UNCHANGED <<inode_map, block_map, inode_region>>
           /\ loc.inum \in Inodes /\ loc.block \in Blocks
           /\ first(loc.inum) = loc.block /\ loc.block # 0
           /\ \A i \in Inodes \ {loc.inum} : first(i) # loc.block
           /\ blk' \in [Blocks -> Block]
           /\ \A c \in Blocks :
                 /\ blk'[c].ent = blk[c].ent
                 /\ blk'[c].word = IF c = loc.block THEN call.word ELSE blk[c].word
<1>1. /\ pc = "data" /\ Answer(1) /\ UNCHANGED <<inode_map, block_map, inode_region>>
      /\ blk' = [blk EXCEPT ![loc.block].word = call.word]
  BY DEF WriteData
<1>2. /\ call.op = "write" /\ loc.inum \in Inodes
      /\ first(loc.inum) = loc.block /\ loc.block # 0
  BY <1>1 DEF NInv, AtWork, Writing
<1>3. /\ loc.block \in Blocks /\ blk \in [Blocks -> Block] /\ call.word \in Words \cup {0}
  BY DEF NInv, TypeOK
<1>4. \A i \in Inodes \ {loc.inum} : first(i) # loc.block
  BY <1>2 DEF NInv, Held
<1>. DEFINE x == blk[loc.block]
            y == [ent |-> x.ent, word |-> call.word]
<1>5. x \in Block
  BY <1>3
<1>6. [x EXCEPT !.word = call.word] = y
  <2>. HIDE DEF x
  <2>. QED  BY <1>5 DEF Block
<1>7. y \in Block
  <2>. HIDE DEF x
  <2>. QED  BY <1>3, <1>5 DEF Block
<1>8. blk' = [blk EXCEPT ![loc.block] = y]
  BY <1>1, <1>6
<1>9. y.ent = blk[loc.block].ent /\ y.word = call.word
  OBVIOUS
<1>. HIDE DEF x, y
<1>10. blk' \in [Blocks -> Block] /\ \A c \in Blocks : blk'[c] = IF c = loc.block THEN y ELSE blk[c]
  BY <1>3, <1>7, <1>8
<1>. QED  BY <1>1, <1>2, <1>3, <1>4, <1>9, <1>10

LEMMA WriteDataKeeps == NInv /\ WriteData => NInv'
<1>. SUFFICES ASSUME NInv, WriteData PROVE NInv'
  OBVIOUS
<1>1. /\ pc = "data" /\ Answer(1) /\ UNCHANGED <<inode_map, block_map, inode_region>>
      /\ blk' \in [Blocks -> Block] /\ \A c \in Blocks : blk'[c].ent = blk[c].ent
  BY WriteDataChanges
<1>2. ImageOK'
  BY <1>1, TypeParts DEF NInv, ImageOK
<1>3. RunOK' /\ AtWork'
  BY <1>1, Answering
<1>4. EntriesLead'
  BY <1>1 DEF NInv, EntriesLead
<1>5. Held'
  BY <1>1 DEF NInv, Held, first, Type
<1>. QED  BY <1>2, <1>3, <1>4, <1>5, Parts

\* What is written out of its place leaves the types alone.
LEMMA OverrunTyped == NInv /\ (CreateOverrun \/ RenameOverrun) => TypeOK'
<1>. SUFFICES ASSUME NInv, NEW b, Overrun(b) PROVE TypeOK'
  BY DEF CreateOverrun, RenameOverrun
<1>1. PICK ent \in [1 .. NDIRENTS -> Dirent] : blk' = [blk EXCEPT ![b].ent = ent]
  BY DEF Overrun
<1>2. /\ pc' = "overrun" /\ loc' = NoLoc
      /\ UNCHANGED <<inode_map, block_map, inode_region, call, ret>>
  BY DEF Overrun
<1>3. blk \in [Blocks -> Block]
  BY DEF NInv, TypeOK
<1>4. blk' \in [Blocks -> Block]
  <2>1. ASSUME b \in Blocks PROVE [blk[b] EXCEPT !.ent = ent] \in Block
    BY <1>3, <2>1 DEF Block
  <2>2. blk' = [blk EXCEPT ![b] = [blk[b] EXCEPT !.ent = ent]]
    BY <1>1
  <2>. QED  BY <1>3, <2>1, <2>2
<1>5. ImageOK'
  BY <1>2, <1>4, TypeParts DEF NInv, ImageOK
<1>6. RunOK'
  BY <1>2, NoLocType, TypeParts DEF NInv, RunOK
<1>. QED  BY <1>5, <1>6 DEF TypeOK, ImageOK, RunOK

LEMMA HandlerKeeps == NInv /\ Handler /\ InPlace' => NInv'
<1>1. CreateOverrun \/ RenameOverrun => ~InPlace'
  BY DEF CreateOverrun, RenameOverrun, Overrun, InPlace
<1>. QED
  BY <1>1, RefuseKeeps, NoPlaceKeeps, MknodStartKeeps, MkdirBlockKeeps, MkdirInodeKeeps,
     CreateInodeKeeps, CreateEntryKeeps, TruncateFreeKeeps, TruncateInodeKeeps, UnmapKeeps,
     EntryGoneKeeps, RenameKeeps, ChmodKeeps, WriteBlockKeeps, WriteGoesOn, WriteDataKeeps
     DEF Handler, CreateStep, RemoveStep, WriteStep

LEMMA StepKeeps == NInv /\ [Next]_vars /\ InPlace' => NInv'
<1>. SUFFICES ASSUME NInv, [Next]_vars, InPlace' PROVE NInv'
  OBVIOUS
<1>1. <<>> \in Paths
  BY Ranges DEF Paths
<1>2. ASSUME NEW op \in Ops \ {"rename", "write"}, NEW p \in Paths, NEW slash \in BOOLEAN,
             Call(op, p, <<>>, slash, 0)
      PROVE  NInv'
  BY <1>1, <1>2, CallKeeps
<1>3. ASSUME "rename" \in Ops, NEW p \in Paths, NEW d \in Paths, NEW slash \in BOOLEAN,
             Call("rename", p, d, slash, 0)
      PROVE  NInv'
  BY <1>3, CallKeeps
<1>4. ASSUME "write" \in Ops, NEW p \in Paths, NEW w \in Words, Call("write", p, <<>>, FALSE, w)
      PROVE  NInv'
  <2>1. w \in Words \cup {0} /\ FALSE \in BOOLEAN
    OBVIOUS
  <2>. QED  BY <1>1, <1>4, <2>1, CallKeeps
<1>5. CASE UNCHANGED vars
  <2>1. UNCHANGED <<inode_map, block_map, inode_region, blk, pc, call, loc, ret>>
    BY <1>5 DEF vars
  <2>2. ImageOK' /\ RunOK'
    BY <2>1, TypeParts DEF NInv, ImageOK, RunOK
  <2>3. EntriesLead' /\ Held' /\ AtWork'
    BY <2>1 DEF NInv, EntriesLead, Held, first, Type, AtWork, Creating, Removing, Writing
  <2>. QED  BY <2>2, <2>3, Parts
<1>. QED  BY <1>2, <1>3, <1>4, <1>5, HandlerKeeps, ReturnKeeps DEF Next

\* A crash keeps it, but for one between a block's bit and the pointer to it: in an
\* fs_truncate that has freed the block, in an fs_write that has not marked it.
LEMMA CrashKeeps ==
    NInv /\ Crash /\ Ops \cap {"truncate", "unlink", "write"} = {} => NInv'
<1>. SUFFICES ASSUME NInv, Crash, Ops \cap {"truncate", "unlink", "write"} = {} PROVE NInv'
  OBVIOUS
<1>1. Abort /\ UNCHANGED image
  BY DEF Crash
<1>2. pc \notin {"clear", "mark"}
  <2>1. call.op \in Ops \cup {"none"}
    BY DEF NInv, TypeOK
  <2>. QED  BY <2>1 DEF NInv, AtWork, Removing, Writing
<1>. QED  BY <1>1, <1>2, EndKeeps

\* What has been written out of its place ends the model.
LEMMA OverrunEnds == ~InPlace /\ [Next \/ Crash]_vars => UNCHANGED vars
<1>. SUFFICES ASSUME pc = "overrun", Next \/ Crash PROVE FALSE
  BY DEF InPlace
<1>1. ~Handler
  BY DEF Handler, Refuse, CreateStep, RemoveStep, WriteStep, Starts, Rename, RenameOverrun,
         Chmod, MknodStart, MkdirBlock, MkdirNoBlock, MkdirInode, MkdirNoInode, CreateInode,
         CreateOverrun, CreateEntry, CreateAborts, TruncateFree, TruncateInode, UnlinkMap,
         UnlinkEntry, RmdirMap, RmdirEntry, WriteBlock, WriteMark, WriteFound, WriteData,
         WriteNoBlock
<1>. QED  BY <1>1 DEF Next, Call, Return, Mount, Crash

\* The invariant with what is left of it then.
LEMMA KeptToTheEnd ==
    TypeOK /\ (InPlace => NInv) /\ [Next]_vars => TypeOK' /\ (InPlace' => NInv')
<1>. SUFFICES ASSUME TypeOK, InPlace => NInv, [Next]_vars
              PROVE  TypeOK' /\ (InPlace' => NInv')
  OBVIOUS
<1>1. CASE ~InPlace
  <2>1. UNCHANGED <<inode_map, block_map, inode_region, blk, pc, call, loc, ret>>
    BY <1>1, OverrunEnds DEF vars
  <2>. QED  BY <1>1, <2>1 DEF TypeOK, InPlace
<1>2. CASE InPlace /\ ~InPlace'
  <2>1. CreateOverrun \/ RenameOverrun
    <3>1. pc # "overrun" /\ pc' = "overrun"
      BY <1>2 DEF InPlace
    <3>. QED
      BY <3>1
         DEF Next, vars, Call, Return, Mount, Handler, Refuse, CreateStep, RemoveStep, WriteStep,
             Rename, Chmod, MknodStart, MkdirBlock, MkdirNoBlock, MkdirInode, MkdirNoInode,
             CreateInode, CreateEntry, CreateAborts, TruncateFree, TruncateInode, UnlinkMap,
             UnlinkEntry, RmdirMap, RmdirEntry, WriteBlock, WriteMark, WriteFound, WriteData,
             WriteNoBlock, Answer, Abort
  <2>. QED  BY <1>2, <2>1, OverrunTyped
<1>3. CASE InPlace /\ InPlace'
  BY <1>3, StepKeeps DEF NInv
<1>. QED  BY <1>1, <1>2, <1>3

\* What the invariant gives.
LEMMA LinksLead ==
    ASSUME NInv
    PROVE  /\ Dirs \subseteq Inodes \ {0}
           /\ \A l \in Links : l[1] \in Inodes /\ l[2] \in 1 .. NDIRENTS
                               /\ Link(l).inode \in Inodes \ {0, 1}
<1>1. Dirs \subseteq Inodes \ {0}
  <2>1. 1 \in Inodes \ {0}
    BY Ranges DEF Inodes
  <2>2. \A p \in Paths : translate(p) \in Answers
    BY Answered DEF NInv
  <2>3. ASSUME NEW p \in Paths, translate(p) > 0
        PROVE  translate(p) \in Inodes \ {0}
    BY <2>2, <2>3 DEF Answers, ENOENT, ENOTDIR
  <2>. QED  BY <2>1, <2>3 DEF Dirs
<1>2. ASSUME NEW l \in Links
      PROVE  l[1] \in Inodes /\ l[2] \in 1 .. NDIRENTS /\ Link(l).inode \in Inodes \ {0, 1}
  <2>1. l[1] \in Inodes /\ l[2] \in 1 .. NDIRENTS /\ Entries(l[1])[l[2]].valid
    BY <1>1 DEF Links
  <2>2. Entries(l[1])[l[2]] = blk[first(l[1])].ent[l[2]] /\ first(l[1]) \in Blocks
    BY <2>1, EntryType DEF NInv
  <2>. QED  BY <2>1, <2>2 DEF NInv, EntriesLead, Link
<1>. QED  BY <1>1, <1>2

LEMMA HeldApart == (InPlace => NInv) => BlocksApart
<1>. SUFFICES ASSUME NInv, InPlace PROVE BlocksApart
  BY DEF BlocksApart
<1>1. Linked \cup {1} \subseteq Inodes
  <2>1. 1 \in Inodes
    BY Ranges DEF Inodes
  <2>. QED  BY <2>1, LinksLead DEF Linked
<1>. QED  BY <1>1 DEF BlocksApart, NInv, Held, first

LEMMA BeginsWell == Init => TypeOK /\ (InPlace => NInv)
BY InitKeeps DEF NInv

\* The state has its type, whoever calls: a path leads to an inode of the region
\* or to an error, and no handler takes an error for an inode or a block.
THEOREM NamespaceTypeCorrect == Spec => []TypeOK
BY BeginsWell, KeptToTheEnd, PTL DEF Spec

\* No two linked inodes have a block in common, whoever calls.
THEOREM DirectoryBlocksApart == Spec => []BlocksApart
BY BeginsWell, KeptToTheEnd, HeldApart, PTL DEF Spec

\* Nor after a crash of any handler but those that change a block's bit and the
\* pointer to it in the wrong order: fs_truncate and fs_unlink clear the bit
\* first, and fs_write sets it last.
THEOREM CrashBlocksApart ==
    Ops \cap {"truncate", "unlink", "write"} = {} => (CrashSpec => []BlocksApart)
<1>. SUFFICES ASSUME Ops \cap {"truncate", "unlink", "write"} = {}
              PROVE  CrashSpec => []BlocksApart
  OBVIOUS
<1>1. (InPlace => NInv) /\ [Next \/ Crash]_vars => (InPlace' => NInv')
  <2>. SUFFICES ASSUME InPlace => NInv, [Next \/ Crash]_vars, InPlace' PROVE NInv'
    OBVIOUS
  <2>1. InPlace
    BY OverrunEnds DEF vars, InPlace
  <2>. QED  BY <2>1, StepKeeps, CrashKeeps
<1>. QED  BY <1>1, InitKeeps, HeldApart, PTL DEF CrashSpec
=============================================================================
