----------------------------- MODULE TreeProofs -----------------------------
(***************************************************************************)
(* Proofs about Namespace as the kernel calls it: the image is a tree, also*)
(* after most crashes, and listing a directory agrees with looking up.     *)
(***************************************************************************)
EXTENDS NamespaceProofs, FunctionTheorems, FiniteSetTheorems

(***************************************************************************)
(* The inductive invariant of the tree.                                    *)
(***************************************************************************)
\* The links of all directories, those that no walk gets to among them.
DirLinks == {l \in Inodes \X (1 .. NDIRENTS) :
                Type(l[1]) = "dir" /\ Entries(l[1])[l[2]].valid}

\* What IsTree says of the links that a walk gets to holds of all of them, and
\* every name is one.
Forest ==
    /\ \A l \in DirLinks :
        LET i == Link(l).inode
        IN  /\ i \in inode_map \/ (pc = "unlink" /\ i = loc.inum)
            /\ Type(i) = IF Link(l).isDir THEN "dir" ELSE "file"
            /\ Link(l).name \in Names
    /\ \A l, m \in DirLinks : l # m =>
        /\ Link(l).inode # Link(m).inode
        /\ l[1] = m[1] => Link(l).name # Link(m).name

\* Every inode that the layout takes or that is a directory is marked.
Marked ==
    /\ Type(1) = "dir" /\ {0, 1} \subseteq inode_map
    /\ \A i \in Inodes : Type(i) # "bare" /\ (Type(i) = "dir" => i \in inode_map)

\* What the kernel has seen to, and what a handler knows of the tree while it is
\* at work on it.
Father == translate(trancate_path(call.path))
Last == call.path[Len(call.path)]
Knowing ==
    /\ ~call.slash
    /\ pc \notin {"idle", "dead"} => call.op \in Ops
    /\ pc = "called" =>
          /\ KernelAllows(call.op, call.path, call.dst, call.slash)
          /\ Defined(call.op, call.path, call.dst)
    /\ Creating =>
          /\ loc.father = Father /\ Type(Father) = "dir"
          /\ ~Entries(Father)[loc.slot].valid
          /\ Named(Father, Last) = {}
          /\ pc # "mkdir" =>
                /\ loc.inum \in inode_map /\ loc.inum # loc.father
                /\ \A l \in DirLinks : Link(l).inode # loc.inum
          /\ pc = "inode" /\ loc.inum \in Inodes => Type(loc.inum) # "dir"
          /\ pc # "entry" /\ call.op = "mkdir" =>
                \A s \in 1 .. NDIRENTS : ~blk[loc.block].ent[s].valid
          /\ pc = "entry" =>
                /\ Type(loc.inum) = IF call.op = "mkdir" THEN "dir" ELSE "file"
                /\ IF call.op = "mkdir"
                   THEN \A s \in 1 .. NDIRENTS : ~Entries(loc.inum)[s].valid
                   ELSE first(loc.inum) = 0
    /\ Removing =>
          /\ loc.inum = translate(call.path) /\ call.path # <<>>
          /\ Type(loc.inum) = "file"
          /\ pc # "clear" => first(loc.inum) = 0
    /\ Writing => loc.inum = translate(call.path) /\ Type(loc.inum) = "file"
    /\ pc = "rmdir" =>
          /\ call.op = "rmdir" /\ call.path # <<>>
          /\ translate(call.path) > 0 /\ Type(translate(call.path)) = "dir"
          /\ \A s \in 1 .. NDIRENTS : ~Entries(translate(call.path))[s].valid

Sound == NInv /\ Forest /\ Marked
TInv == Sound /\ Knowing
-----------------------------------------------------------------------------
(***************************************************************************)
(* Looking names up.                                                       *)
(***************************************************************************)
\* What is linked.
LEMMA LinkLeads ==
    Sound =>
      \A l \in DirLinks :
         /\ l[1] \in Inodes /\ l[2] \in 1 .. NDIRENTS /\ Type(l[1]) = "dir"
         /\ Link(l) = Entries(l[1])[l[2]] /\ Link(l).valid
         /\ Link(l) \in [valid : {TRUE}, isDir : BOOLEAN, inode : Bits, name : Names \cup {""}]
         /\ Link(l).inode \in Inodes \ {0, 1}
         /\ Type(Link(l).inode) \in {"dir", "file"}
         /\ Link(l).name \in Names
<1>. SUFFICES ASSUME Sound, NEW l \in DirLinks
              PROVE  /\ l[1] \in Inodes /\ l[2] \in 1 .. NDIRENTS /\ Type(l[1]) = "dir"
                     /\ Link(l) = Entries(l[1])[l[2]] /\ Link(l).valid
                     /\ Link(l) \in [valid : {TRUE}, isDir : BOOLEAN, inode : Bits, name : Names \cup {""}]
                     /\ Link(l).inode \in Inodes \ {0, 1}
                     /\ Type(Link(l).inode) \in {"dir", "file"}
                     /\ Link(l).name \in Names
  OBVIOUS
<1>1. l[1] \in Inodes /\ l[2] \in 1 .. NDIRENTS /\ Type(l[1]) = "dir" /\ Link(l).valid
  BY DEF DirLinks, Link
<1>2. /\ Link(l) = Entries(l[1])[l[2]]
      /\ Link(l) = blk[first(l[1])].ent[l[2]] /\ first(l[1]) \in Blocks
      /\ Link(l) \in Dirent
  BY <1>1, EntryType DEF Sound, NInv, Link
<1>3. Link(l).inode \in Inodes \ {0, 1}
  BY <1>1, <1>2 DEF Sound, NInv, EntriesLead
<1>4. Link(l) \in [valid : {TRUE}, isDir : BOOLEAN, inode : Bits, name : Names \cup {""}]
  BY <1>1, <1>2, ValidEntry
<1>. QED  BY <1>1, <1>2, <1>3, <1>4 DEF Sound, Forest

\* Whether an entry says that it is a directory's tells whether it is.
LEMMA ReachedType ==
    Sound => \A p \in Paths :
       LET r == Reached(p)
       IN  r.inode > 0 => /\ r.inode \in Inodes \ {0}
                          /\ r.isDir => Type(r.inode) = "dir"
                          /\ ~r.isDir => Type(r.inode) = "file"
<1>. SUFFICES ASSUME Sound PROVE \A p \in Paths :
       LET r == Reached(p)
       IN  r.inode > 0 => /\ r.inode \in Inodes \ {0}
                          /\ r.isDir => Type(r.inode) = "dir"
                          /\ ~r.isDir => Type(r.inode) = "file"
  OBVIOUS
<1>. DEFINE Ok(r) == r.inode > 0 =>
                                    /\ r.isDir => Type(r.inode) = "dir"
                                    /\ ~r.isDir => Type(r.inode) = "file"
            S == {p \in Paths : Ok(Reached(p))}
<1>0. \A p \in Paths : Reached(p).inode \in Answers
  BY Answered DEF Sound, NInv
<1>1. <<>> \in S
  <2>1. <<>> \in Paths
    BY Ranges DEF Paths
  <2>2. Reached(<<>>).inode = 1 /\ Reached(<<>>).isDir
    BY ReachedByFather DEF Root
  <2>. QED  BY <2>1, <2>2 DEF Sound, Marked
<1>2. ASSUME NEW p \in Paths, p # <<>>, trancate_path(p) \in S
      PROVE  p \in S
  <2>. DEFINE at == Reached(trancate_path(p))
              n == p[Len(p)]
  <2>1. Reached(p) = follow(at, n)
    BY <1>2, ReachedByFather
  <2>2. at.inode \in Answers /\ Ok(at)
    BY <1>0, <1>2
  <2>3. SUFFICES Ok(follow(at, n))
    BY <2>1
  <2>. HIDE DEF at, n
  <2>4. CASE at.inode < 0
    BY <2>2, <2>4 DEF follow
  <2>5. CASE ~(at.inode < 0) /\ ~at.isDir
    BY <2>5, <2>2, Ranges DEF follow, Answers, Inodes, ENOENT, ENOTDIR
  <2>6. CASE ~(at.inode < 0) /\ at.isDir /\ Named(at.inode, n) = {}
    BY <2>6, <2>2, Ranges DEF follow, Answers, Inodes, ENOENT, ENOTDIR
  <2>7. CASE ~(at.inode < 0) /\ at.isDir /\ Named(at.inode, n) # {}
    <3>1. PICK i \in Named(at.inode, n) : follow(at, n) = Entries(at.inode)[i]
      BY <2>7, LastEntry
    <3>2. at.inode \in Inodes \ {0} /\ i \in 1 .. NDIRENTS /\ Entries(at.inode)[i].valid
      BY <2>2, <2>7, <3>1 DEF Named, Answers, ENOENT, ENOTDIR
    <3>3. at.inode > 0
      BY <3>2, Ranges DEF Inodes
    <3>4. <<at.inode, i>> \in DirLinks
      BY <2>2, <2>7, <3>2, <3>3 DEF DirLinks
    <3>5. Link(<<at.inode, i>>) = follow(at, n)
      BY <3>1 DEF Link
    <3>6. Type(follow(at, n).inode) = IF follow(at, n).isDir THEN "dir" ELSE "file"
      BY <3>4, <3>5 DEF Sound, Forest
    <3>. QED  BY <3>6
  <2>. QED  BY <2>4, <2>5, <2>6, <2>7
<1>. HIDE DEF S
<1>3. Paths \subseteq S
  BY <1>1, <1>2, PathInduction
<1>. QED  BY <1>0, <1>3, Ranges DEF S, Answers, Inodes, ENOENT, ENOTDIR

\* Where a path leads, by inode numbers only.
LooksUp ==
    /\ <<>> \in Paths /\ translate(<<>>) = 1
    /\ \A p \in Paths :
         /\ translate(p) \in Answers
         /\ translate(p) > 0 => Type(translate(p)) \in {"dir", "file"}
    /\ \A p \in Paths \ {<<>>} :
         LET f == translate(trancate_path(p))
             n == p[Len(p)]
         IN  /\ f \in Answers /\ n \in Names
             /\ f < 0 => translate(p) = f
             /\ f > 0 => f \in Inodes \ {0} /\ Type(f) \in {"dir", "file"}
             /\ f > 0 /\ Type(f) = "file" => translate(p) = ENOTDIR
             /\ f > 0 /\ Type(f) = "dir" =>
                   /\ Named(f, n) = {} => translate(p) = ENOENT
                   /\ \A s \in Named(f, n) : translate(p) = Entries(f)[s].inode

LEMMA Lookup == Sound => LooksUp
<1>. SUFFICES ASSUME Sound PROVE LooksUp
  OBVIOUS
<1>1. <<>> \in Paths /\ translate(<<>>) = 1
  <2>1. <<>> \in Paths
    BY Ranges DEF Paths
  <2>. QED  BY <2>1, ReachedByFather DEF Root
<1>2. \A p \in Paths : translate(p) \in Answers /\ translate(p) = Reached(p).inode
  BY Answered, ReachedByFather DEF Sound, NInv
<1>3. \A p \in Paths : translate(p) > 0 => /\ translate(p) \in Inodes \ {0}
                                           /\ Reached(p).isDir => Type(translate(p)) = "dir"
                                           /\ ~Reached(p).isDir => Type(translate(p)) = "file"
  BY <1>2, ReachedType
<1>4. \A p \in Paths : translate(p) > 0 => Type(translate(p)) \in {"dir", "file"}
  BY <1>3
<1>5. ASSUME NEW p \in Paths \ {<<>>}
      PROVE  LET f == translate(trancate_path(p))
                 n == p[Len(p)]
             IN  /\ f \in Answers /\ n \in Names
                 /\ f < 0 => translate(p) = f
                 /\ f > 0 => f \in Inodes \ {0} /\ Type(f) \in {"dir", "file"}
                 /\ f > 0 /\ Type(f) = "file" => translate(p) = ENOTDIR
                 /\ f > 0 /\ Type(f) = "dir" =>
                       /\ Named(f, n) = {} => translate(p) = ENOENT
                       /\ \A s \in Named(f, n) : translate(p) = Entries(f)[s].inode
  <2>. DEFINE at == Reached(trancate_path(p))
              f == translate(trancate_path(p))
              n == p[Len(p)]
  <2>1. trancate_path(p) \in Paths /\ n \in Names
    BY PathShape
  <2>2. f \in Answers /\ f = at.inode /\ translate(p) = follow(at, n).inode
    <3>1. Reached(p) = follow(at, n)
      BY ReachedByFather
    <3>. QED  BY <1>2, <2>1, <3>1
  <2>3. f > 0 => /\ f \in Inodes \ {0}
                 /\ at.isDir => Type(f) = "dir"
                 /\ ~at.isDir => Type(f) = "file"
    BY <1>3, <2>1
  <2>. HIDE DEF f, n, at
  <2>4. f < 0 => translate(p) = f
    BY <2>2 DEF follow
  <2>5. ASSUME f > 0, Type(f) = "file"
        PROVE  translate(p) = ENOTDIR
    <3>1. ~at.isDir /\ ~(at.inode < 0)
      BY <2>2, <2>3, <2>5, Ranges DEF Inodes
    <3>. QED  BY <2>2, <3>1 DEF follow
  <2>6. ASSUME f > 0, Type(f) = "dir", Named(f, n) = {}
        PROVE  translate(p) = ENOENT
    <3>1. at.isDir /\ ~(at.inode < 0)
      BY <2>2, <2>3, <2>6, Ranges DEF Inodes
    <3>. QED  BY <2>2, <2>6, <3>1 DEF follow
  <2>7. ASSUME f > 0, Type(f) = "dir", NEW s \in Named(f, n)
        PROVE  translate(p) = Entries(f)[s].inode
    <3>1. at.isDir /\ ~(at.inode < 0) /\ Named(at.inode, n) # {}
      BY <2>2, <2>3, <2>7, Ranges DEF Inodes
    <3>2. PICK i \in Named(at.inode, n) : follow(at, n) = Entries(at.inode)[i]
      BY <3>1, LastEntry
    <3>3. <<f, i>> \in DirLinks /\ <<f, s>> \in DirLinks
      BY <2>2, <2>3, <2>7, <3>2 DEF DirLinks, Named
    <3>4. Link(<<f, i>>).name = n /\ Link(<<f, s>>).name = n
      BY <2>2, <2>7, <3>2 DEF Link, Named
    <3>5. s = i
      BY <3>3, <3>4 DEF Sound, Forest
    <3>. QED  BY <2>2, <3>2, <3>5
  <2>. QED  BY <2>1, <2>2, <2>3, <2>4, <2>5, <2>6, <2>7 DEF f, n
<1>. QED  BY <1>1, <1>2, <1>4, <1>5 DEF LooksUp

\* The entry that a path is found by.
LEMMA FoundLink ==
    Sound =>
      \A p \in Paths \ {<<>>} : translate(p) > 0 =>
        LET f == translate(trancate_path(p))
            n == p[Len(p)]
        IN  /\ trancate_path(p) \in Paths /\ n \in Names
            /\ f > 0 /\ f \in Inodes \ {0} /\ Type(f) = "dir"
            /\ translate(p) \in Inodes \ {0, 1}
            /\ \E s \in Named(f, n) : /\ <<f, s>> \in DirLinks
                                      /\ Link(<<f, s>>) = Entries(f)[s]
                                      /\ Link(<<f, s>>).inode = translate(p)
                                      /\ Link(<<f, s>>).name = n
<1>. SUFFICES ASSUME Sound, NEW p \in Paths \ {<<>>}, translate(p) > 0
              PROVE
        LET f == translate(trancate_path(p))
            n == p[Len(p)]
        IN  /\ trancate_path(p) \in Paths /\ n \in Names
            /\ f > 0 /\ f \in Inodes \ {0} /\ Type(f) = "dir"
            /\ translate(p) \in Inodes \ {0, 1}
            /\ \E s \in Named(f, n) : /\ <<f, s>> \in DirLinks
                                      /\ Link(<<f, s>>) = Entries(f)[s]
                                      /\ Link(<<f, s>>).inode = translate(p)
                                      /\ Link(<<f, s>>).name = n
  OBVIOUS
<1>. DEFINE f == translate(trancate_path(p))
            n == p[Len(p)]
<1>1. /\ f \in Answers /\ n \in Names
      /\ f < 0 => translate(p) = f
      /\ f > 0 => f \in Inodes \ {0} /\ Type(f) \in {"dir", "file"}
      /\ f > 0 /\ Type(f) = "file" => translate(p) = ENOTDIR
      /\ f > 0 /\ Type(f) = "dir" =>
            /\ Named(f, n) = {} => translate(p) = ENOENT
            /\ \A s \in Named(f, n) : translate(p) = Entries(f)[s].inode
  BY Lookup DEF LooksUp
<1>2. trancate_path(p) \in Paths
  BY PathShape
<1>. HIDE DEF f, n
<1>3. f > 0
  BY <1>1, Ranges DEF Answers, Inodes, ENOENT, ENOTDIR
<1>4. Type(f) = "dir" /\ Named(f, n) # {}
  BY <1>1, <1>3 DEF ENOENT, ENOTDIR
<1>5. PICK s \in Named(f, n) : translate(p) = Entries(f)[s].inode
  BY <1>1, <1>3, <1>4
<1>6. /\ <<f, s>> \in DirLinks /\ Link(<<f, s>>) = Entries(f)[s]
      /\ Link(<<f, s>>).inode = translate(p) /\ Link(<<f, s>>).name = n
  BY <1>1, <1>3, <1>4, <1>5 DEF DirLinks, Named, Link
<1>7. translate(p) \in Inodes \ {0, 1}
  BY <1>6, LinkLeads
<1>. QED  BY <1>1, <1>2, <1>3, <1>4, <1>6, <1>7 DEF f, n

\* No inode has two paths.
LEMMA PathsApart ==
    Sound => \A p, q \in Paths : translate(p) > 0 /\ translate(p) = translate(q) => p = q
<1>. SUFFICES ASSUME Sound
              PROVE  \A p, q \in Paths : translate(p) > 0 /\ translate(p) = translate(q) => p = q
  OBVIOUS
<1>. DEFINE S == {p \in Paths : translate(p) > 0 =>
                      \A q \in Paths : translate(p) = translate(q) => p = q}
<1>1. <<>> \in S
  <2>1. \A q \in Paths \ {<<>>} : translate(q) > 0 => translate(q) # 1
    BY FoundLink
  <2>. QED  BY <2>1, Lookup DEF LooksUp
<1>2. ASSUME NEW p \in Paths, p # <<>>, trancate_path(p) \in S
      PROVE  p \in S
  <2>. SUFFICES ASSUME translate(p) > 0, NEW q \in Paths, translate(p) = translate(q)
                PROVE  p = q
    OBVIOUS
  <2>. DEFINE f == translate(trancate_path(p))
              g == translate(trancate_path(q))
  <2>1. p \in Paths \ {<<>>} /\ translate(p) # 1
    BY <1>2, FoundLink
  <2>2. q \in Paths \ {<<>>}
    BY <2>1, Lookup DEF LooksUp
  <2>3. PICK s \in Named(f, p[Len(p)]) :
               /\ <<f, s>> \in DirLinks /\ Link(<<f, s>>).inode = translate(p)
               /\ Link(<<f, s>>).name = p[Len(p)]
    BY <2>1, FoundLink
  <2>4. PICK t \in Named(g, q[Len(q)]) :
               /\ <<g, t>> \in DirLinks /\ Link(<<g, t>>).inode = translate(q)
               /\ Link(<<g, t>>).name = q[Len(q)]
    BY <2>2, FoundLink
  <2>5. <<f, s>> = <<g, t>>
    BY <2>3, <2>4 DEF Sound, Forest
  <2>6. f = g /\ p[Len(p)] = q[Len(q)]
    BY <2>3, <2>4, <2>5
  <2>7. trancate_path(q) \in Paths /\ f > 0
    BY <2>1, <2>2, PathShape, FoundLink
  <2>8. trancate_path(p) = trancate_path(q)
    BY <1>2, <2>6, <2>7
  <2>. QED  BY <2>1, <2>2, <2>6, <2>8, SamePath
<1>. HIDE DEF S
<1>3. Paths \subseteq S
  BY <1>1, <1>2, PathInduction
<1>. QED  BY <1>3 DEF S
-----------------------------------------------------------------------------
(***************************************************************************)
(* What the invariant gives.                                               *)
(***************************************************************************)
LEMMA LinksAreDirLinks == Sound => Links \subseteq DirLinks
<1>. SUFFICES ASSUME Sound, NEW l \in Links PROVE l \in DirLinks
  OBVIOUS
<1>1. l \in Dirs \X (1 .. NDIRENTS) /\ Entries(l[1])[l[2]].valid
  BY DEF Links
<1>2. \A d \in Dirs : d \in Inodes /\ Type(d) = "dir"
  BY LinksLead DEF Sound, Marked, Dirs
<1>. QED  BY <1>1, <1>2 DEF DirLinks

LEMMA SoundIsTree == Sound => IsTree
<1>. SUFFICES ASSUME Sound PROVE IsTree
  OBVIOUS
<1>1. \A l \in Links : l \in DirLinks /\ Link(l).inode \in Inodes \ {0, 1}
  BY LinksAreDirLinks, LinkLeads
<1>. QED  BY <1>1 DEF IsTree, Sound, Forest

\* Appending a name to a path.
LEMMA Appended ==
    ASSUME NEW p \in Paths, Len(p) < MaxDepth, NEW n \in Names
    PROVE  /\ Append(p, n) \in Paths \ {<<>>}
           /\ trancate_path(Append(p, n)) = p
           /\ Append(p, n)[Len(Append(p, n))] = n
<1>. DEFINE a == Append(p, n)
<1>1. p \in [1 .. Len(p) -> Names] /\ Len(p) \in 0 .. MaxDepth /\ MaxDepth \in Nat
  BY PathShape, Ranges
<1>2. p \in Seq(Names) /\ Len(p) \in Nat
  BY <1>1
<1>3. a \in Seq(Names) /\ Len(a) = Len(p) + 1
  BY <1>2
<1>4. a[Len(p) + 1] = n /\ \A i \in 1 .. Len(p) : a[i] = p[i]
  BY <1>2
<1>5. a \in Paths
  <2>1. Len(p) + 1 \in 0 .. MaxDepth
    BY <1>1
  <2>2. a \in [1 .. Len(p) + 1 -> Names]
    <3>. HIDE DEF a
    <3>. QED  BY <1>3
  <2>. QED  BY <2>1, <2>2 DEF Paths
<1>. HIDE DEF a
<1>6. a # <<>>
  BY <1>2, <1>3
<1>7. trancate_path(a) = p
  <2>1. /\ Len(trancate_path(a)) = Len(a) - 1
        /\ trancate_path(a) \in Paths
        /\ \A i \in 1 .. Len(a) - 1 : trancate_path(a)[i] = a[i]
    BY <1>5, <1>6, PathShape
  <2>2. Len(a) - 1 = Len(p)
    BY <1>2, <1>3
  <2>3. trancate_path(a) \in [1 .. Len(p) -> Names]
    BY <2>1, <2>2, PathShape
  <2>4. \A i \in 1 .. Len(p) : trancate_path(a)[i] = p[i]
    BY <1>4, <2>1, <2>2
  <2>. QED  BY <1>1, <2>3, <2>4
<1>8. a[Len(a)] = n
  BY <1>3, <1>4
<1>. QED  BY <1>5, <1>6, <1>7, <1>8 DEF a

\* A one-to-one correspondence counts.
LEMMA SameNumber ==
    ASSUME NEW S, NEW T, NEW h \in [S -> T], IsFiniteSet(S),
           \A x, y \in S : h[x] = h[y] => x = y,
           \A y \in T : \E x \in S : h[x] = y
    PROVE  IsFiniteSet(T) /\ Cardinality(T) = Cardinality(S)
<1>1. h \in Bijection(S, T)
  BY Fun_IsBij
<1>2. ExistsBijection(S, T)
  BY <1>1 DEF ExistsBijection
<1>. QED  BY <1>2, FS_Bijection

\* What is found in a directory.
LEMMA FoundIn ==
    Sound => \A p \in Paths, n \in Names : Len(p) < MaxDepth =>
        LET d == translate(p)
            t == translate(Append(p, n))
        IN  /\ d < 0 => t = d
            /\ d > 0 /\ Type(d) = "file" => t = ENOTDIR
            /\ d > 0 /\ Type(d) = "dir" =>
                  /\ Named(d, n) = {} => t = ENOENT
                  /\ \A s \in Named(d, n) : t = Entries(d)[s].inode /\ t > 0
<1>. SUFFICES ASSUME Sound, NEW p \in Paths, NEW n \in Names, Len(p) < MaxDepth
              PROVE
        LET d == translate(p)
            t == translate(Append(p, n))
        IN  /\ d < 0 => t = d
            /\ d > 0 /\ Type(d) = "file" => t = ENOTDIR
            /\ d > 0 /\ Type(d) = "dir" =>
                  /\ Named(d, n) = {} => t = ENOENT
                  /\ \A s \in Named(d, n) : t = Entries(d)[s].inode /\ t > 0
  OBVIOUS
<1>. DEFINE d == translate(p)
            a == Append(p, n)
            t == translate(a)
<1>1. a \in Paths \ {<<>>} /\ trancate_path(a) = p /\ a[Len(a)] = n
  BY Appended
<1>. HIDE DEF a
<1>2. /\ d < 0 => t = d
      /\ d > 0 => d \in Inodes \ {0}
      /\ d > 0 /\ Type(d) = "file" => t = ENOTDIR
      /\ d > 0 /\ Type(d) = "dir" =>
            /\ Named(d, n) = {} => t = ENOENT
            /\ \A s \in Named(d, n) : t = Entries(d)[s].inode
  BY <1>1, Lookup DEF LooksUp
<1>. HIDE DEF d, t
<1>3. ASSUME d > 0, Type(d) = "dir", NEW s \in Named(d, n)
      PROVE  t > 0
  <2>1. <<d, s>> \in DirLinks /\ Link(<<d, s>>) = Entries(d)[s]
    BY <1>2, <1>3 DEF DirLinks, Named, Link
  <2>2. Entries(d)[s].inode \in Inodes \ {0, 1}
    BY <2>1, LinkLeads
  <2>. QED  BY <1>2, <1>3, <2>2, Ranges DEF Inodes
<1>. QED  BY <1>2, <1>3 DEF d, t, a

LEMMA SoundListing == Sound => ListedIsFound
<1>. SUFFICES ASSUME Sound, NEW p \in Paths, Len(p) < MaxDepth
              PROVE  LET r == fs_readdir(p)
                         listed == {e[2] : e \in r[2]}
                     IN  /\ Cardinality(listed) = Cardinality(r[2])
                         /\ listed = {n \in Names : translate(Append(p, n)) > 0}
  BY DEF ListedIsFound
<1>. DEFINE d == translate(p)
            R == fs_readdir(p)[2]
            L == {e[2] : e \in R}
            F == {n \in Names : translate(Append(p, n)) > 0}
<1>0. d \in Answers /\ (d > 0 => d \in Inodes \ {0} /\ Type(d) \in {"dir", "file"})
  BY Lookup DEF Answers, ENOENT, ENOTDIR, LooksUp
<1>1. CASE d < 0 \/ Type(d) # "dir"
  <2>1. R = {}
    BY <1>1 DEF fs_readdir
  <2>2. L = {}
    BY <2>1
  <2>3. ASSUME NEW n \in Names
        PROVE  ~(translate(Append(p, n)) > 0)
    <3>1. /\ d < 0 => translate(Append(p, n)) = d
          /\ d > 0 /\ Type(d) = "file" => translate(Append(p, n)) = ENOTDIR
      BY FoundIn
    <3>. QED  BY <1>0, <1>1, <3>1, Ranges DEF Answers, Inodes, ENOENT, ENOTDIR
  <2>. HIDE DEF R, L
  <2>. QED  BY <2>1, <2>2, <2>3 DEF R, L
<1>2. CASE d > 0 /\ Type(d) = "dir"
  <2>. DEFINE name(i) == Entries(d)[i].name
  <2>1. R = {<<i, name(i)>> : i \in Listed(p)} /\ d \in Inodes
    BY <1>0, <1>2, Ranges DEF fs_readdir, Inodes
  <2>2. \A i \in Listed(p) : /\ <<d, i>> \in DirLinks /\ Link(<<d, i>>) = Entries(d)[i]
                             /\ i \in 1 .. NDIRENTS /\ Entries(d)[i].valid
    BY <1>0, <1>2 DEF Listed, DirLinks, Link
  <2>3. \A i \in Listed(p) : name(i) \in Names
    BY <2>2, LinkLeads
  <2>4. \A i, j \in Listed(p) : name(i) = name(j) => i = j
    <3>. SUFFICES ASSUME NEW i \in Listed(p), NEW j \in Listed(p), name(i) = name(j), i # j
                  PROVE  FALSE
      OBVIOUS
    <3>1. <<d, i>> # <<d, j>> /\ <<d, i>>[1] = <<d, j>>[1]
      OBVIOUS
    <3>2. Link(<<d, i>>).name # Link(<<d, j>>).name
      BY <2>2, <3>1 DEF Sound, Forest
    <3>. QED  BY <2>2, <3>2
  <2>5. \A n \in Names : (\E i \in Listed(p) : name(i) = n) <=> translate(Append(p, n)) > 0
    <3>. SUFFICES ASSUME NEW n \in Names
                  PROVE  (\E i \in Listed(p) : name(i) = n) <=> translate(Append(p, n)) > 0
      OBVIOUS
    <3>1. /\ Named(d, n) = {} => translate(Append(p, n)) = ENOENT
          /\ \A s \in Named(d, n) : translate(Append(p, n)) > 0
      BY <1>2, FoundIn
    <3>2. (\E i \in Listed(p) : name(i) = n) <=> Named(d, n) # {}
      BY DEF Listed, Named
    <3>. QED  BY <3>1, <3>2 DEF ENOENT
  <2>6. L = {name(i) : i \in Listed(p)}
    <3>1. \A i \in Listed(p) : <<i, name(i)>> \in R
      BY <2>1
    <3>2. \A e \in R : \E i \in Listed(p) : e[2] = name(i)
      BY <2>1
    <3>3. \A i \in Listed(p) : name(i) \in L
      <4>. SUFFICES ASSUME NEW i \in Listed(p) PROVE \E e \in R : e[2] = name(i)
        OBVIOUS
      <4>1. <<i, name(i)>> \in R /\ <<i, name(i)>>[2] = name(i)
        BY <3>1
      <4>. HIDE DEF R
      <4>. QED  BY <4>1
    <3>4. \A x \in L : \E i \in Listed(p) : x = name(i)
      <4>. HIDE DEF R
      <4>. QED  BY <3>2
    <3>. HIDE DEF R, L, name
    <3>. QED  BY <3>3, <3>4
  <2>. HIDE DEF R, L, name
  <2>7. L = F
    BY <2>3, <2>5, <2>6
  <2>8. Cardinality(L) = Cardinality(R)
    <3>. DEFINE g == [i \in Listed(p) |-> <<i, name(i)>>]
                h == [i \in Listed(p) |-> name(i)]
    <3>1. IsFiniteSet(Listed(p))
      <4>1. IsFiniteSet(1 .. NDIRENTS)
        BY FS_Interval, Ranges
      <4>. QED  BY <4>1, FS_Subset DEF Listed
    <3>2. /\ g \in [Listed(p) -> R]
          /\ \A x, y \in Listed(p) : g[x] = g[y] => x = y
          /\ \A y \in R : \E x \in Listed(p) : g[x] = y
      BY <2>1
    <3>3. /\ h \in [Listed(p) -> L]
          /\ \A x, y \in Listed(p) : h[x] = h[y] => x = y
          /\ \A y \in L : \E x \in Listed(p) : h[x] = y
      BY <2>4, <2>6
    <3>. HIDE DEF g, h
    <3>4. Cardinality(R) = Cardinality(Listed(p))
      BY <3>1, <3>2, SameNumber
    <3>5. Cardinality(L) = Cardinality(Listed(p))
      BY <3>1, <3>3, SameNumber
    <3>. QED  BY <3>4, <3>5
  <2>. QED  BY <2>7, <2>8 DEF R, L
<1>. QED  BY <1>0, <1>1, <1>2, Ranges DEF Answers, Inodes, ENOENT, ENOTDIR

-----------------------------------------------------------------------------
(***************************************************************************)
(* Steps that change no directory.                                         *)
(***************************************************************************)
\* No directory changes, and no link's inode its type.
Calm ==
    /\ \A d \in Inodes : Type(d) = "dir" =>
          /\ Type(d)' = "dir"
          /\ \A s \in 1 .. NDIRENTS : Entries(d)[s]' = Entries(d)[s]
    /\ \A i \in Inodes : (\E l \in DirLinks : Link(l).inode = i) => Type(i)' = Type(i)

\* Nor any type.
Quiet ==
    /\ \A i \in Inodes : Type(i)' = Type(i)
    /\ \A d \in Inodes, s \in 1 .. NDIRENTS :
          Type(d) = "dir" => Entries(d)[s]' = Entries(d)[s]

\* Then every path leads where it did.
LEMMA CalmWalk ==
    Sound /\ Sound' /\ Calm => \A p \in Paths : translate(p)' = translate(p)
<1>. SUFFICES ASSUME Sound, Sound', Calm
              PROVE  \A p \in Paths : translate(p)' = translate(p)
  OBVIOUS
<1>. DEFINE S == {p \in Paths : translate(p)' = translate(p)}
<1>0. LooksUp /\ LooksUp'
  BY Lookup, PTL
<1>1. <<>> \in S
  BY <1>0 DEF LooksUp
<1>2. ASSUME NEW p \in Paths, p # <<>>, trancate_path(p) \in S
      PROVE  p \in S
  <2>. DEFINE f == translate(trancate_path(p))
              n == p[Len(p)]
  <2>1. p \in Paths \ {<<>>} /\ trancate_path(p) \in Paths \ {} /\ f' = f
    BY <1>2, PathShape
  <2>2. /\ f' < 0 => translate(p)' = f'
        /\ f' > 0 /\ Type(f)' = "file" => translate(p)' = ENOTDIR
        /\ f' > 0 /\ Type(f)' = "dir" =>
              /\ Named(f, n)' = {} => translate(p)' = ENOENT
              /\ \A s \in Named(f, n)' : translate(p)' = Entries(f)[s].inode'
    BY <1>0, <2>1 DEF LooksUp
  <2>3. /\ f \in Answers
        /\ f < 0 => translate(p) = f
        /\ f > 0 => f \in Inodes \ {0} /\ Type(f) \in {"dir", "file"}
        /\ f > 0 /\ Type(f) = "file" => translate(p) = ENOTDIR
        /\ f > 0 /\ Type(f) = "dir" =>
              /\ Named(f, n) = {} => translate(p) = ENOENT
              /\ \A s \in Named(f, n) : translate(p) = Entries(f)[s].inode
    BY <2>1, Lookup DEF LooksUp
  <2>4. f > 0 => Type(f)' = Type(f)
    <3>. SUFFICES ASSUME f > 0 PROVE Type(f)' = Type(f)
      OBVIOUS
    <3>. DEFINE q == trancate_path(p)
    <3>1. CASE q = <<>>
      <4>1. f = 1 /\ 1 \in Inodes /\ Type(1) = "dir"
        BY <3>1, Lookup, Ranges DEF Sound, Marked, Inodes, LooksUp
      <4>. QED  BY <2>1, <4>1 DEF Calm
    <3>2. CASE q # <<>>
      <4>1. q \in Paths \ {<<>>}
        BY <2>1, <3>2
      <4>2. \E l \in DirLinks : Link(l).inode = f
        BY <4>1, FoundLink
      <4>. QED  BY <2>1, <2>3, <4>2 DEF Calm
    <3>. QED  BY <3>1, <3>2
  <2>5. ASSUME f > 0, Type(f) = "dir"
        PROVE  /\ Named(f, n)' = Named(f, n)
               /\ \A s \in Named(f, n) : Entries(f)[s]' = Entries(f)[s]
    <3>1. \A s \in 1 .. NDIRENTS : Entries(f)[s]' = Entries(f)[s]
      BY <2>1, <2>3, <2>5 DEF Calm
    <3>. HIDE DEF f, n
    <3>. QED  BY <2>1, <3>1 DEF Named
  <2>. HIDE DEF n
  <2>6. translate(p)' = translate(p)
    <3>1. CASE f < 0
      BY <2>1, <2>2, <2>3, <3>1
    <3>2. CASE f > 0 /\ Type(f) = "file"
      BY <2>1, <2>2, <2>3, <2>4, <3>2
    <3>3. CASE f > 0 /\ Type(f) = "dir"
      BY <2>1, <2>2, <2>3, <2>4, <2>5, <3>3
    <3>. QED  BY <2>3, <3>1, <3>2, <3>3, Ranges DEF Answers, Inodes, ENOENT, ENOTDIR
  <2>. QED  BY <2>6
<1>. HIDE DEF S
<1>3. Paths \subseteq S
  BY <1>1, <1>2, PathInduction
<1>. QED  BY <1>3 DEF S

LEMMA QuietIsCalm == Sound /\ Quiet => Calm
BY LinkLeads DEF Quiet, Calm

\* The tree stays one when no link is made, whatever else is marked.
LEMMA CalmForest ==
    /\ Sound /\ Calm /\ pc # "unlink"
    /\ inode_map \subseteq inode_map' /\ DirLinks' \subseteq DirLinks
    => Forest'
<1>. SUFFICES ASSUME Sound, Calm, pc # "unlink", inode_map \subseteq inode_map',
                     DirLinks' \subseteq DirLinks
              PROVE  Forest'
  OBVIOUS
<1>1. \A l \in DirLinks : Link(l)' = Link(l)
  BY LinkLeads DEF Calm, Link
<1>2. \A l \in DirLinks : /\ Link(l).inode \in Inodes
                          /\ Type(Link(l).inode)' = Type(Link(l).inode)
  <2>1. \A l \in DirLinks : Link(l).inode \in Inodes
    BY LinkLeads
  <2>. QED  BY <1>1, <2>1 DEF Calm
<1>3. /\ \A l \in DirLinks :
           /\ Link(l).inode \in inode_map
           /\ Type(Link(l).inode) = IF Link(l).isDir THEN "dir" ELSE "file"
           /\ Link(l).name \in Names
      /\ \A l, m \in DirLinks : l # m =>
           /\ Link(l).inode # Link(m).inode
           /\ l[1] = m[1] => Link(l).name # Link(m).name
  BY DEF Sound, Forest
<1>4. ASSUME NEW l \in DirLinks'
      PROVE  /\ Link(l).inode' \in inode_map'
             /\ Type(Link(l).inode)' = IF Link(l).isDir' THEN "dir" ELSE "file"
             /\ Link(l).name' \in Names
  <2>1. l \in DirLinks
    OBVIOUS
  <2>2. Link(l)' = Link(l)
    BY <1>1, <2>1
  <2>. QED  BY <1>2, <1>3, <2>1, <2>2
<1>5. ASSUME NEW l \in DirLinks', NEW m \in DirLinks', l # m
      PROVE  /\ Link(l).inode' # Link(m).inode'
             /\ l[1] = m[1] => Link(l).name' # Link(m).name'
  BY <1>1, <1>3, <1>5
<1>. QED  BY <1>4, <1>5 DEF Forest

LEMMA QuietLinks ==
    Quiet => \A l : /\ l \in DirLinks' <=> l \in DirLinks
                    /\ l \in DirLinks => Link(l)' = Link(l)
BY DEF DirLinks, Quiet, Link

LEMMA QuietForest ==
    Sound /\ Quiet /\ pc # "unlink" /\ inode_map \subseteq inode_map' => Forest' /\ Marked'
<1>. SUFFICES ASSUME Sound, Quiet, pc # "unlink", inode_map \subseteq inode_map'
              PROVE  Forest' /\ Marked'
  OBVIOUS
<1>1. Forest'
  BY CalmForest, QuietIsCalm, QuietLinks
<1>2. 1 \in Inodes
  BY Ranges DEF Inodes
<1>. QED  BY <1>1, <1>2 DEF Sound, Marked, Quiet
-----------------------------------------------------------------------------
(***************************************************************************)
(* What the steps do to the directories.                                   *)
(***************************************************************************)
LEMMA UnchangedIsQuiet == UNCHANGED <<inode_region, blk>> => Quiet
BY DEF Quiet, Type, Entries

\* No two directories share a block.
LEMMA DirectoriesApart ==
    ASSUME Sound, NEW d \in Inodes, Type(d) = "dir", NEW i \in Inodes
    PROVE  /\ first(d) # 0 /\ first(d) \in Blocks
           /\ i # d => first(i) # first(d)
<1>1. first(d) # 0
  BY DEF Sound, NInv, Held
<1>2. first(d) \in Blocks
  BY EntryType, Ranges DEF Sound, NInv
<1>3. i # d => first(i) # first(d)
  BY <1>1 DEF Sound, NInv, Held
<1>. QED  BY <1>1, <1>2, <1>3

LEMMA AfterRemoval ==
    ASSUME Sound, NEW d \in Inodes, Type(d) = "dir", NEW n,
           blk' = WithoutEntries(d, n), UNCHANGED inode_region
    PROVE  /\ \A i \in Inodes : Type(i)' = Type(i)
           /\ \A e \in Inodes, s \in 1 .. NDIRENTS : Type(e) = "dir" =>
                 Entries(e)[s]' = IF e = d /\ s \in Named(d, n) THEN NoEntry ELSE Entries(e)[s]
           /\ \A b \in Blocks : blk'[b].word = blk[b].word
<1>1. \A i \in Inodes : Type(i)' = Type(i) /\ first(i)' = first(i)
  BY DEF Type, first
<1>2. ImageOK
  BY TypeParts DEF Sound, NInv
<1>3. /\ \A b \in Blocks, s \in 1 .. NDIRENTS :
            blk'[b].ent[s] = IF b = first(d) /\ s \in Named(d, n) THEN NoEntry ELSE blk[b].ent[s]
      /\ \A b \in Blocks : blk'[b].word = blk[b].word
  BY <1>2, EntriesRemoved
<1>4. ASSUME NEW e \in Inodes, NEW s \in 1 .. NDIRENTS, Type(e) = "dir"
      PROVE  Entries(e)[s]' = IF e = d /\ s \in Named(d, n) THEN NoEntry ELSE Entries(e)[s]
  <2>1. first(e) \in Blocks /\ (e # d => first(e) # first(d))
    BY <1>4, DirectoriesApart
  <2>2. Entries(e)[s]' = blk'[first(e)].ent[s] /\ Entries(e)[s] = blk[first(e)].ent[s]
    BY DEF Entries, first
  <2>. QED  BY <1>3, <2>1, <2>2
<1>. QED  BY <1>1, <1>3, <1>4

LEMMA AfterRename ==
    ASSUME Sound, NEW d \in Inodes, Type(d) = "dir", NEW n, NEW m \in Names,
           blk' = RenamedEntries(d, n, m), UNCHANGED inode_region
    PROVE  /\ \A i \in Inodes : Type(i)' = Type(i)
           /\ \A e \in Inodes, s \in 1 .. NDIRENTS : Type(e) = "dir" =>
                 Entries(e)[s]' = IF e = d /\ s \in Named(d, n)
                                  THEN [Entries(e)[s] EXCEPT !.name = m] ELSE Entries(e)[s]
           /\ \A b \in Blocks : blk'[b].word = blk[b].word
<1>1. \A i \in Inodes : Type(i)' = Type(i) /\ first(i)' = first(i)
  BY DEF Type, first
<1>2. ImageOK
  BY TypeParts DEF Sound, NInv
<1>3. /\ \A b \in Blocks, s \in 1 .. NDIRENTS :
            blk'[b].ent[s] = IF b = first(d) /\ s \in Named(d, n)
                             THEN [blk[b].ent[s] EXCEPT !.name = m] ELSE blk[b].ent[s]
      /\ \A b \in Blocks : blk'[b].word = blk[b].word
  BY <1>2, EntriesRenamed
<1>4. ASSUME NEW e \in Inodes, NEW s \in 1 .. NDIRENTS, Type(e) = "dir"
      PROVE  Entries(e)[s]' = IF e = d /\ s \in Named(d, n)
                              THEN [Entries(e)[s] EXCEPT !.name = m] ELSE Entries(e)[s]
  <2>1. first(e) \in Blocks /\ (e # d => first(e) # first(d))
    BY <1>4, DirectoriesApart
  <2>2. Entries(e)[s]' = blk'[first(e)].ent[s] /\ Entries(e)[s] = blk[first(e)].ent[s]
    BY DEF Entries, first
  <2>. QED  BY <1>3, <2>1, <2>2
<1>. QED  BY <1>1, <1>3, <1>4

\* fs_mkdir's new block is no directory's.
LEMMA MkdirBlockQuiet == TInv /\ MkdirBlock => Quiet
<1>. SUFFICES ASSUME TInv, MkdirBlock PROVE Quiet
  OBVIOUS
<1>1. pc = "called" /\ inode_region' = inode_region
  BY DEF MkdirBlock, Starts
<1>2. PICK b \in Blocks : FreeBlock(b) /\ blk' = [blk EXCEPT ![b] = ZeroBlock]
  BY DEF MkdirBlock
<1>3. NInv /\ Sound /\ blk \in [Blocks -> Block]
  BY DEF TInv, Sound, NInv, TypeOK
<1>4. \A i \in Inodes : first(i) # b
  BY <1>1, <1>2, <1>3, TakenBlock
<1>5. ASSUME NEW d \in Inodes, NEW s \in 1 .. NDIRENTS, Type(d) = "dir"
      PROVE  Entries(d)[s]' = Entries(d)[s]
  <2>1. first(d) \in Blocks /\ first(d) # b
    BY <1>3, <1>4, <1>5, DirectoriesApart
  <2>2. blk'[first(d)] = blk[first(d)]
    BY <1>2, <1>3, <2>1
  <2>. QED  BY <1>1, <2>2 DEF Entries, first
<1>. QED  BY <1>1, <1>5 DEF Quiet, Type

\* Emptying a file, and writing to one, change no directory.
LEMMA TruncateInodeQuiet == TInv /\ TruncateInode => Quiet
<1>. SUFFICES ASSUME TInv, TruncateInode PROVE Quiet
  OBVIOUS
<1>1. /\ inode_region' = [inode_region EXCEPT ![loc.inum].direct0 = 0] /\ blk' = blk
      /\ Removing
  BY DEF TruncateInode, Removing
<1>2. loc.inum \in Inodes /\ Type(loc.inum) = "file" /\ inode_region \in [Inodes -> Inode]
  BY <1>1 DEF TInv, Sound, NInv, AtWork, Knowing, TypeOK
<1>3. \A i \in Inodes : /\ inode_region'[i].type = inode_region[i].type
                        /\ i # loc.inum => inode_region'[i].direct0 = inode_region[i].direct0
  <2>1. \A i \in Inodes : inode_region[i] \in Inode
    BY <1>2
  <2>. QED  BY <1>1, <1>2, <2>1 DEF Inode
<1>. QED  BY <1>1, <1>2, <1>3 DEF Quiet, Type, Entries

LEMMA WriteBlockQuiet == TInv /\ WriteBlock => Quiet
<1>. SUFFICES ASSUME TInv, WriteBlock PROVE Quiet
  OBVIOUS
<1>. DEFINE t == translate(call.path)
<1>0. NInv /\ blk \in [Blocks -> Block]
  BY DEF TInv, Sound, NInv, TypeOK
<1>1. pc = "called" /\ call.op = "write" /\ t \in Inodes /\ first(t) = 0
  BY <1>0, WriteBlockChanges
<1>2. PICK b \in Blocks :
        /\ \A i \in Inodes : first(i) # b
        /\ \A i \in Inodes : Type(i)' = Type(i) /\ first(i)' = IF i = t THEN b ELSE first(i)
        /\ blk' = [blk EXCEPT ![b] = ZeroBlock]
  BY <1>0, WriteBlockChanges
<1>. HIDE DEF t
<1>3. ASSUME NEW d \in Inodes, NEW s \in 1 .. NDIRENTS, Type(d) = "dir"
      PROVE  Entries(d)[s]' = Entries(d)[s]
  <2>1. first(d) \in Blocks /\ first(d) # 0
    BY <1>3, DirectoriesApart DEF TInv
  <2>2. first(d)' = first(d) /\ first(d) # b
    BY <1>1, <1>2, <1>3, <2>1
  <2>3. blk'[first(d)] = blk[first(d)]
    BY <1>0, <1>2, <2>1, <2>2
  <2>. QED  BY <2>2, <2>3 DEF Entries, first
<1>. QED  BY <1>2, <1>3 DEF Quiet

LEMMA WriteDataQuiet == TInv /\ WriteData => Quiet
<1>. SUFFICES ASSUME TInv, WriteData PROVE Quiet
  OBVIOUS
<1>1. /\ inode_region' = inode_region
      /\ \A c \in Blocks : blk'[c].ent = blk[c].ent
  BY WriteDataChanges DEF TInv, Sound
<1>2. ASSUME NEW d \in Inodes, NEW s \in 1 .. NDIRENTS, Type(d) = "dir"
      PROVE  Entries(d)[s]' = Entries(d)[s]
  <2>1. first(d) \in Blocks
    BY <1>2, DirectoriesApart DEF TInv
  <2>. QED  BY <1>1, <2>1 DEF Entries, first
<1>. QED  BY <1>1, <1>2 DEF Quiet, Type

LEMMA ChmodQuiet == TInv /\ Chmod /\ Frontend = "fuse" => Quiet
<1>. SUFFICES ASSUME TInv, Chmod, Frontend = "fuse" PROVE Quiet
  OBVIOUS
<1>1. \E t : inode_region' = [inode_region EXCEPT ![t].type = @]
  BY DEF Chmod
<1>2. inode_region \in [Inodes -> Inode] /\ blk' = blk
  BY DEF Chmod, TInv, Sound, NInv, TypeOK
<1>3. inode_region' = inode_region
  BY <1>1, <1>2 DEF Inode
<1>. QED  BY <1>2, <1>3, UnchangedIsQuiet

\* A new inode is no directory that anything leads to, and has no entries.
LEMMA CreateInodeCalm ==
    TInv /\ CreateInode => Calm /\ DirLinks' \subseteq DirLinks /\ Marked'
<1>. SUFFICES ASSUME TInv, CreateInode
              PROVE  Calm /\ DirLinks' \subseteq DirLinks /\ Marked'
  OBVIOUS
<1>. DEFINE n == loc.inum
            new == [type |-> IF call.op = "mkdir" THEN "dir" ELSE "file", direct0 |-> loc.block]
<1>1. /\ pc = "inode" /\ n \in Inodes /\ UNCHANGED <<inode_map, block_map, blk, call, loc, ret>>
      /\ inode_region' = [inode_region EXCEPT ![n] = new]
  BY DEF CreateInode
<1>2. /\ Type(n) # "dir" /\ n \in inode_map
      /\ \A l \in DirLinks : Link(l).inode # n
      /\ call.op = "mkdir" => \A s \in 1 .. NDIRENTS : ~blk[loc.block].ent[s].valid
  BY <1>1 DEF TInv, Knowing, Creating
<1>3. inode_region \in [Inodes -> Inode]
  BY DEF TInv, Sound, NInv, TypeOK
<1>4. \A i \in Inodes : i # n => Type(i)' = Type(i) /\ first(i)' = first(i)
  BY <1>1, <1>3 DEF Type, first
<1>5. \A i \in Inodes : i = n => /\ Type(i)' = IF call.op = "mkdir" THEN "dir" ELSE "file"
                                 /\ first(i)' = loc.block
  <2>1. inode_region'[n] = new
    BY <1>1, <1>3
  <2>. QED  BY <2>1 DEF Type, first
<1>. HIDE DEF n, new
<1>6. \A i \in Inodes, s \in 1 .. NDIRENTS :
         /\ i # n => Entries(i)[s]' = Entries(i)[s]
         /\ i = n => Entries(i)[s]' = blk[loc.block].ent[s]
  BY <1>1, <1>4, <1>5 DEF Entries, first
<1>7. Calm
  BY <1>2, <1>4, <1>6 DEF Calm
<1>8. DirLinks' \subseteq DirLinks
  <2>. SUFFICES ASSUME NEW l \in DirLinks' PROVE l \in DirLinks
    OBVIOUS
  <2>1. /\ l \in Inodes \X (1 .. NDIRENTS) /\ l[1] \in Inodes /\ l[2] \in 1 .. NDIRENTS
        /\ Type(l[1])' = "dir" /\ Entries(l[1])[l[2]]'.valid
    BY DEF DirLinks
  <2>2. CASE l[1] = n
    <3>1. call.op = "mkdir"
      BY <1>5, <2>1, <2>2
    <3>. QED  BY <1>2, <1>6, <2>1, <2>2, <3>1
  <2>3. CASE l[1] # n
    BY <1>4, <1>6, <2>1, <2>3 DEF DirLinks
  <2>. QED  BY <2>2, <2>3
<1>9. Marked'
  <2>1. /\ Type(1) = "dir" /\ {0, 1} \subseteq inode_map /\ 1 \in Inodes
        /\ \A i \in Inodes : Type(i) # "bare" /\ (Type(i) = "dir" => i \in inode_map)
    BY Ranges DEF TInv, Sound, Marked, Inodes
  <2>2. \A i \in Inodes : Type(i)' # "bare" /\ (Type(i)' = "dir" => i \in inode_map)
    BY <1>2, <1>4, <1>5, <2>1
  <2>3. Type(1)' = "dir"
    BY <1>2, <1>4, <2>1
  <2>. QED  BY <1>1, <2>1, <2>2, <2>3 DEF Marked
<1>. QED  BY <1>7, <1>8, <1>9

\* The new entry, and nothing else.
NewEntry == [valid |-> TRUE, isDir |-> call.op = "mkdir", inode |-> loc.inum, name |-> Last]
LEMMA AfterEntry ==
    TInv /\ CreateEntry =>
      /\ inode_region' = inode_region /\ inode_map' = inode_map
      /\ loc.father \in Inodes /\ Type(loc.father) = "dir" /\ loc.father = Father
      /\ loc.slot \in 1 .. NDIRENTS /\ ~Entries(loc.father)[loc.slot].valid
      /\ Last \in Names
      /\ \A e \in Inodes, s \in 1 .. NDIRENTS : Type(e) = "dir" =>
            Entries(e)[s]' = IF e = loc.father /\ s = loc.slot THEN NewEntry ELSE Entries(e)[s]
      /\ \A b \in Blocks : blk'[b].word = blk[b].word
<1>. SUFFICES ASSUME TInv, CreateEntry
              PROVE
      /\ inode_region' = inode_region /\ inode_map' = inode_map
      /\ loc.father \in Inodes /\ Type(loc.father) = "dir" /\ loc.father = Father
      /\ loc.slot \in 1 .. NDIRENTS /\ ~Entries(loc.father)[loc.slot].valid
      /\ Last \in Names
      /\ \A e \in Inodes, s \in 1 .. NDIRENTS : Type(e) = "dir" =>
            Entries(e)[s]' = IF e = loc.father /\ s = loc.slot THEN NewEntry ELSE Entries(e)[s]
      /\ \A b \in Blocks : blk'[b].word = blk[b].word
  OBVIOUS
<1>. DEFINE f == loc.father
            b == inode_region[f].direct0
<1>1. pc = "entry" /\ inode_region' = inode_region /\ inode_map' = inode_map
  BY DEF CreateEntry
<1>2. /\ f \in Inodes /\ loc.slot \in 1 .. NDIRENTS /\ Type(f) = "dir" /\ f = Father
      /\ ~Entries(f)[loc.slot].valid /\ ~call.slash /\ call.path \in Paths /\ call.path # <<>>
  BY <1>1 DEF TInv, Sound, NInv, TypeOK, AtWork, Knowing, Creating
<1>3. Last \in Names
  BY <1>2, PathShape DEF Last
<1>4. blk' = [blk EXCEPT ![b].ent[loc.slot] = NewEntry]
  BY <1>2 DEF CreateEntry, NewEntry, Last, get_name
<1>5. b = first(f) /\ b \in Blocks /\ blk \in [Blocks -> Block]
  BY <1>2, DirectoriesApart DEF TInv, Sound, NInv, TypeOK, first
<1>. HIDE DEF b
<1>6. \A c \in Blocks : /\ blk'[c].word = blk[c].word
                        /\ \A s \in 1 .. NDIRENTS :
                              blk'[c].ent[s] = IF c = b /\ s = loc.slot THEN NewEntry ELSE blk[c].ent[s]
  <2>. DEFINE x == blk[b]
              y == [x EXCEPT !.ent[loc.slot] = NewEntry]
  <2>1. x \in Block
    BY <1>5
  <2>2. blk' = [blk EXCEPT ![b] = y]
    BY <1>4
  <2>. HIDE DEF x
  <2>3. /\ y.word = x.word
        /\ \A s \in 1 .. NDIRENTS : y.ent[s] = IF s = loc.slot THEN NewEntry ELSE x.ent[s]
    BY <2>1 DEF Block
  <2>. HIDE DEF y
  <2>. QED  BY <1>5, <2>2, <2>3 DEF x
<1>7. ASSUME NEW e \in Inodes, NEW s \in 1 .. NDIRENTS, Type(e) = "dir"
      PROVE  Entries(e)[s]' = IF e = f /\ s = loc.slot THEN NewEntry ELSE Entries(e)[s]
  <2>1. first(e) \in Blocks /\ (e # f => first(e) # first(f))
    BY <1>2, <1>7, DirectoriesApart DEF TInv
  <2>2. Entries(e)[s]' = blk'[first(e)].ent[s] /\ Entries(e)[s] = blk[first(e)].ent[s]
    BY <1>1 DEF Entries, first
  <2>. QED  BY <1>5, <1>6, <2>1, <2>2
<1>. QED  BY <1>1, <1>2, <1>3, <1>6, <1>7

LEMMA CreateEntryForest == TInv /\ CreateEntry => Forest' /\ Marked'
<1>. SUFFICES ASSUME TInv, CreateEntry PROVE Forest' /\ Marked'
  OBVIOUS
<1>. DEFINE f == loc.father
            k == <<f, loc.slot>>
<1>1. /\ inode_region' = inode_region /\ inode_map' = inode_map
      /\ f \in Inodes /\ Type(f) = "dir" /\ f = Father
      /\ loc.slot \in 1 .. NDIRENTS /\ ~Entries(f)[loc.slot].valid
      /\ Last \in Names
      /\ \A e \in Inodes, s \in 1 .. NDIRENTS : Type(e) = "dir" =>
            Entries(e)[s]' = IF e = f /\ s = loc.slot THEN NewEntry ELSE Entries(e)[s]
  BY AfterEntry
<1>2. \A i \in Inodes : Type(i)' = Type(i)
  BY <1>1 DEF Type
<1>3. /\ pc = "entry" /\ loc.inum \in Inodes /\ loc.inum \in inode_map
      /\ \A l \in DirLinks : Link(l).inode # loc.inum
      /\ Type(loc.inum) = IF call.op = "mkdir" THEN "dir" ELSE "file"
      /\ Named(f, Last) = {}
  BY <1>1 DEF CreateEntry, TInv, Sound, NInv, AtWork, Knowing, Creating
<1>4. \A l \in DirLinks' :
         \/ l = k /\ Link(l)' = NewEntry
         \/ l \in DirLinks /\ l # k /\ Link(l)' = Link(l)
  <2>. SUFFICES ASSUME NEW l \in DirLinks'
                PROVE  \/ l = k /\ Link(l)' = NewEntry
                       \/ l \in DirLinks /\ l # k /\ Link(l)' = Link(l)
    OBVIOUS
  <2>1. /\ l \in Inodes \X (1 .. NDIRENTS) /\ l[1] \in Inodes /\ l[2] \in 1 .. NDIRENTS
        /\ Type(l[1])' = "dir" /\ Entries(l[1])[l[2]]'.valid /\ l = <<l[1], l[2]>>
        /\ Link(l)' = Entries(l[1])[l[2]]'
    BY DEF DirLinks, Link
  <2>2. Entries(l[1])[l[2]]' = IF l[1] = f /\ l[2] = loc.slot THEN NewEntry ELSE Entries(l[1])[l[2]]
    BY <1>1, <1>2, <2>1
  <2>3. CASE l[1] = f /\ l[2] = loc.slot
    BY <2>1, <2>2, <2>3
  <2>4. CASE ~(l[1] = f /\ l[2] = loc.slot)
    BY <1>2, <2>1, <2>2, <2>4 DEF DirLinks, Link
  <2>. QED  BY <2>3, <2>4
<1>5. \A l \in DirLinks : l[1] = f => Link(l).name # Last
  BY <1>3 DEF Named, DirLinks, Link
<1>6. /\ NewEntry.inode = loc.inum /\ NewEntry.name = Last
      /\ NewEntry.isDir = (call.op = "mkdir") /\ k[1] = f
  BY DEF NewEntry
<1>7. /\ \A l \in DirLinks :
           /\ Link(l).inode \in Inodes /\ Link(l).inode \in inode_map
           /\ Type(Link(l).inode) = IF Link(l).isDir THEN "dir" ELSE "file"
           /\ Link(l).name \in Names
      /\ \A l, m \in DirLinks : l # m =>
           /\ Link(l).inode # Link(m).inode
           /\ l[1] = m[1] => Link(l).name # Link(m).name
  <2>1. Sound
    BY DEF TInv
  <2>. QED  BY <1>3, <2>1, LinkLeads DEF Sound, Forest
<1>. HIDE DEF k, f
<1>8. Forest'
  <2>1. ASSUME NEW l \in DirLinks'
        PROVE  /\ Link(l).inode' \in inode_map'
               /\ Type(Link(l).inode)' = IF Link(l).isDir' THEN "dir" ELSE "file"
               /\ Link(l).name' \in Names
    <3>1. CASE l = k /\ Link(l)' = NewEntry
      <4>1. Link(l).inode' = loc.inum /\ Link(l).name' = Last
            /\ Link(l).isDir' = (call.op = "mkdir")
        BY <1>6, <3>1
      <4>2. Type(Link(l).inode)' = Type(loc.inum)
        BY <1>2, <1>3, <4>1
      <4>. QED  BY <1>1, <1>3, <4>1, <4>2
    <3>2. CASE l \in DirLinks /\ Link(l)' = Link(l)
      <4>1. Type(Link(l).inode)' = Type(Link(l).inode)
        BY <1>2, <1>7, <3>2
      <4>. QED  BY <1>1, <1>7, <3>2, <4>1
    <3>. QED  BY <1>4, <3>1, <3>2
  <2>2. ASSUME NEW l \in DirLinks', NEW m \in DirLinks', l # m
        PROVE  /\ Link(l).inode' # Link(m).inode'
               /\ l[1] = m[1] => Link(l).name' # Link(m).name'
    <3>1. CASE l = k
      <4>1. Link(l)' = NewEntry /\ m \in DirLinks /\ Link(m)' = Link(m) /\ l[1] = f
        BY <1>4, <1>6, <2>2, <3>1
      <4>. QED  BY <1>3, <1>5, <1>6, <4>1
    <3>2. CASE m = k
      <4>1. Link(m)' = NewEntry /\ l \in DirLinks /\ Link(l)' = Link(l) /\ m[1] = f
        BY <1>4, <1>6, <2>2, <3>2
      <4>. QED  BY <1>3, <1>5, <1>6, <4>1
    <3>3. CASE l # k /\ m # k
      BY <1>4, <1>7, <2>2, <3>3
    <3>. QED  BY <3>1, <3>2, <3>3
  <2>. QED  BY <2>1, <2>2 DEF Forest
<1>9. Marked'
  <2>1. 1 \in Inodes
    BY Ranges DEF Inodes
  <2>. QED  BY <1>1, <1>2, <2>1 DEF TInv, Sound, Marked
<1>. QED  BY <1>8, <1>9

\* The tree stays one when links go, and the inodes that are left without a mark
\* are not linked.
LEMMA FewerLinks ==
    ASSUME Sound, DirLinks' \subseteq DirLinks, \A i \in Inodes : Type(i)' = Type(i),
           \A l \in DirLinks' :
              /\ Link(l)' = Link(l)
              /\ Link(l).inode \in inode_map' \/ (pc' = "unlink" /\ Link(l).inode = loc.inum')
    PROVE  Forest'
<1>1. /\ \A l \in DirLinks :
           /\ Link(l).inode \in Inodes
           /\ Type(Link(l).inode) = IF Link(l).isDir THEN "dir" ELSE "file"
           /\ Link(l).name \in Names
      /\ \A l, m \in DirLinks : l # m =>
           /\ Link(l).inode # Link(m).inode
           /\ l[1] = m[1] => Link(l).name # Link(m).name
  BY LinkLeads DEF Sound, Forest
<1>2. ASSUME NEW l \in DirLinks'
      PROVE  /\ Link(l).inode' \in inode_map' \/ (pc' = "unlink" /\ Link(l).inode' = loc.inum')
             /\ Type(Link(l).inode)' = IF Link(l).isDir' THEN "dir" ELSE "file"
             /\ Link(l).name' \in Names
  <2>1. l \in DirLinks /\ Link(l)' = Link(l)
    BY <1>2
  <2>2. Type(Link(l).inode)' = Type(Link(l).inode)
    BY <1>1, <2>1
  <2>. QED  BY <1>1, <2>1, <2>2
<1>3. ASSUME NEW l \in DirLinks', NEW m \in DirLinks', l # m
      PROVE  /\ Link(l).inode' # Link(m).inode'
             /\ l[1] = m[1] => Link(l).name' # Link(m).name'
  BY <1>1, <1>3
<1>. QED  BY <1>2, <1>3 DEF Forest

\* What is left in the directory of an entry that goes.
LEMMA LinksLeft ==
    ASSUME Sound, NEW d \in Inodes, Type(d) = "dir", NEW n,
           blk' = WithoutEntries(d, n), UNCHANGED inode_region
    PROVE  \A l : l \in DirLinks' <=> /\ l \in DirLinks
                                      /\ ~(l[1] = d /\ l[2] \in Named(d, n))
<1>1. /\ \A i \in Inodes : Type(i)' = Type(i)
      /\ \A e \in Inodes, s \in 1 .. NDIRENTS : Type(e) = "dir" =>
            Entries(e)[s]' = IF e = d /\ s \in Named(d, n) THEN NoEntry ELSE Entries(e)[s]
  BY AfterRemoval
<1>2. ~NoEntry.valid
  BY DEF NoEntry
<1>. SUFFICES ASSUME NEW l
              PROVE  l \in DirLinks' <=> /\ l \in DirLinks
                                         /\ ~(l[1] = d /\ l[2] \in Named(d, n))
  OBVIOUS
<1>3. l \in DirLinks' <=> /\ l \in Inodes \X (1 .. NDIRENTS)
                          /\ Type(l[1])' = "dir" /\ Entries(l[1])[l[2]]'.valid
  BY DEF DirLinks
<1>4. l \in DirLinks <=> /\ l \in Inodes \X (1 .. NDIRENTS)
                         /\ Type(l[1]) = "dir" /\ Entries(l[1])[l[2]].valid
  BY DEF DirLinks
<1>5. l \in Inodes \X (1 .. NDIRENTS) => l[1] \in Inodes /\ l[2] \in 1 .. NDIRENTS
  OBVIOUS
<1>6. l \in Inodes \X (1 .. NDIRENTS) /\ Type(l[1]) = "dir" =>
        Entries(l[1])[l[2]]' = IF l[1] = d /\ l[2] \in Named(d, n) THEN NoEntry ELSE Entries(l[1])[l[2]]
  BY <1>1, <1>5
<1>. QED  BY <1>1, <1>2, <1>3, <1>4, <1>5, <1>6

\* fs_unlink frees the inode of a file.
LEMMA RemovedFile ==
    TInv /\ Removing =>
        /\ call.path \in Paths \ {<<>>} /\ translate(call.path) = loc.inum
        /\ loc.inum > 0 /\ loc.inum \in Inodes \ {0, 1} /\ Type(loc.inum) = "file"
        /\ Father > 0 /\ Father \in Inodes \ {0} /\ Type(Father) = "dir"
<1>. SUFFICES ASSUME TInv, Removing
              PROVE  /\ call.path \in Paths \ {<<>>} /\ translate(call.path) = loc.inum
                     /\ loc.inum > 0 /\ loc.inum \in Inodes \ {0, 1} /\ Type(loc.inum) = "file"
                     /\ Father > 0 /\ Father \in Inodes \ {0} /\ Type(Father) = "dir"
  OBVIOUS
<1>1. /\ Sound /\ call.path \in Paths \ {<<>>} /\ translate(call.path) = loc.inum
      /\ Type(loc.inum) = "file" /\ loc.inum \in Inodes
  BY DEF TInv, Sound, NInv, TypeOK, Knowing, AtWork
<1>2. loc.inum \in Answers
  BY <1>1, Lookup DEF LooksUp
<1>3. loc.inum > 0
  BY <1>1, <1>2, Ranges DEF Answers, Inodes, ENOENT, ENOTDIR
<1>. QED  BY <1>1, <1>3, FoundLink DEF Father

LEMMA UnlinkMapSound == TInv /\ UnlinkMap => Forest' /\ Marked' /\ Quiet
<1>. SUFFICES ASSUME TInv, UnlinkMap PROVE Forest' /\ Marked' /\ Quiet
  OBVIOUS
<1>1. /\ pc = "unmap" /\ Removing /\ inode_map' = inode_map \ {loc.inum} /\ pc' = "unlink"
      /\ UNCHANGED <<inode_region, blk, loc>>
  BY DEF UnlinkMap, Removing
<1>2. loc.inum \in Inodes \ {0, 1} /\ Type(loc.inum) = "file"
  BY <1>1, RemovedFile
<1>3. Quiet
  BY <1>1, UnchangedIsQuiet
<1>4. \A l : /\ l \in DirLinks' <=> l \in DirLinks
             /\ l \in DirLinks => Link(l)' = Link(l)
  BY <1>3, QuietLinks
<1>5. \A l \in DirLinks : Link(l).inode \in inode_map
  BY <1>1 DEF TInv, Sound, Forest
<1>6. \A i \in Inodes : Type(i)' = Type(i)
  BY <1>3 DEF Quiet
<1>7. Forest'
  <2>1. Sound /\ DirLinks' \subseteq DirLinks
    BY <1>4 DEF TInv
  <2>2. \A l \in DirLinks' :
           /\ Link(l)' = Link(l)
           /\ Link(l).inode \in inode_map' \/ (pc' = "unlink" /\ Link(l).inode = loc.inum')
    BY <1>1, <1>4, <1>5
  <2>. QED  BY <1>6, <2>1, <2>2, FewerLinks
<1>8. Marked'
  <2>1. /\ Type(1) = "dir" /\ {0, 1} \subseteq inode_map /\ 1 \in Inodes
        /\ \A i \in Inodes : Type(i) # "bare" /\ (Type(i) = "dir" => i \in inode_map)
    BY Ranges DEF TInv, Sound, Marked, Inodes
  <2>. QED  BY <1>1, <1>2, <1>6, <2>1 DEF Marked
<1>. QED  BY <1>3, <1>7, <1>8

\* The entry that fs_unlink and fs_rmdir remove: the only one that leads to the
\* path's inode.
LEMMA EntryGoes ==
    TInv /\ (UnlinkEntry \/ RmdirEntry) =>
        /\ call.path \in Paths \ {<<>>} /\ translate(call.path) > 0
        /\ Father \in Inodes \ {0} /\ Type(Father) = "dir"
        /\ Named(Father, Last) # {}
        /\ blk' = WithoutEntries(Father, Last) /\ UNCHANGED inode_region
        /\ \A l : l \in DirLinks' <=> /\ l \in DirLinks
                                      /\ Link(l).inode # translate(call.path)
        /\ \A l \in DirLinks' : Link(l)' = Link(l)
        /\ \A i \in Inodes : Type(i)' = Type(i)
<1>. SUFFICES ASSUME TInv, UnlinkEntry \/ RmdirEntry
              PROVE
        /\ call.path \in Paths \ {<<>>} /\ translate(call.path) > 0
        /\ Father \in Inodes \ {0} /\ Type(Father) = "dir"
        /\ Named(Father, Last) # {}
        /\ blk' = WithoutEntries(Father, Last) /\ UNCHANGED inode_region
        /\ \A l : l \in DirLinks' <=> /\ l \in DirLinks
                                      /\ Link(l).inode # translate(call.path)
        /\ \A l \in DirLinks' : Link(l)' = Link(l)
        /\ \A i \in Inodes : Type(i)' = Type(i)
  OBVIOUS
<1>1. call.path \in Paths \ {<<>>} /\ translate(call.path) > 0
  <2>1. CASE UnlinkEntry
    <3>1. Removing
      BY <2>1 DEF UnlinkEntry, Removing
    <3>. QED  BY <3>1, RemovedFile
  <2>2. CASE RmdirEntry
    BY <2>2 DEF RmdirEntry, TInv, Knowing, Sound, NInv, TypeOK
  <2>. QED  BY <2>1, <2>2
<1>2. blk' = WithoutEntries(Father, Last) /\ UNCHANGED inode_region
  <2>1. ~call.slash
    BY DEF TInv, Knowing
  <2>. QED  BY <2>1 DEF UnlinkEntry, RmdirEntry, Father, Last, get_name
<1>3. Sound
  BY DEF TInv
<1>4. /\ Father \in Inodes \ {0} /\ Type(Father) = "dir"
      /\ \E s \in Named(Father, Last) : /\ <<Father, s>> \in DirLinks
                                        /\ Link(<<Father, s>>) = Entries(Father)[s]
                                        /\ Link(<<Father, s>>).inode = translate(call.path)
  BY <1>1, <1>3, FoundLink DEF Father, Last
<1>. DEFINE f == Father
            n == Last
            t == translate(call.path)
<1>5. PICK s \in Named(f, n) : <<f, s>> \in DirLinks /\ Link(<<f, s>>).inode = t
  BY <1>4
<1>6. \A l : l \in DirLinks' <=> l \in DirLinks /\ ~(l[1] = f /\ l[2] \in Named(f, n))
  BY <1>2, <1>3, <1>4, LinksLeft
<1>7. /\ \A i \in Inodes : Type(i)' = Type(i)
      /\ \A e \in Inodes, r \in 1 .. NDIRENTS : Type(e) = "dir" =>
            Entries(e)[r]' = IF e = f /\ r \in Named(f, n) THEN NoEntry ELSE Entries(e)[r]
  BY <1>2, <1>3, <1>4, AfterRemoval
<1>. HIDE DEF f, n, t
<1>8. ASSUME NEW l \in DirLinks
      PROVE  (l[1] = f /\ l[2] \in Named(f, n)) <=> Link(l).inode = t
  <2>0. /\ l[1] \in Inodes /\ l[2] \in 1 .. NDIRENTS /\ Link(l) = Entries(l[1])[l[2]]
    BY <1>3, LinkLeads
  <2>1. ASSUME l[1] = f, l[2] \in Named(f, n)
        PROVE  Link(l).inode = t
    <3>1. Link(l).name = n /\ Link(<<f, s>>).name = n /\ <<f, s>>[1] = f
      BY <2>0, <2>1, <1>5 DEF Named, Link
    <3>2. l = <<f, s>>
      BY <1>3, <1>5, <2>1, <3>1 DEF Sound, Forest
    <3>. QED  BY <1>5, <3>2
  <2>2. ASSUME Link(l).inode = t
        PROVE  l[1] = f /\ l[2] \in Named(f, n)
    <3>1. l = <<f, s>>
      BY <1>3, <1>5, <2>2 DEF Sound, Forest
    <3>. QED  BY <1>5, <3>1
  <2>. QED  BY <2>1, <2>2
<1>9. \A l : l \in DirLinks' <=> l \in DirLinks /\ Link(l).inode # t
  BY <1>6, <1>8
<1>10. \A l \in DirLinks' : Link(l)' = Link(l)
  <2>. SUFFICES ASSUME NEW l \in DirLinks' PROVE Link(l)' = Link(l)
    OBVIOUS
  <2>1. /\ l \in DirLinks /\ ~(l[1] = f /\ l[2] \in Named(f, n))
        /\ l[1] \in Inodes /\ l[2] \in 1 .. NDIRENTS /\ Type(l[1]) = "dir"
    BY <1>6, <1>3, LinkLeads
  <2>. QED  BY <1>7, <2>1 DEF Link
<1>. QED  BY <1>1, <1>2, <1>4, <1>7, <1>9, <1>10 DEF f, n, t

LEMMA EntryGoesSound == TInv /\ (UnlinkEntry \/ RmdirEntry) => Forest' /\ Marked'
<1>. SUFFICES ASSUME TInv, UnlinkEntry \/ RmdirEntry PROVE Forest' /\ Marked'
  OBVIOUS
<1>1. /\ \A l : l \in DirLinks' <=> l \in DirLinks /\ Link(l).inode # translate(call.path)
      /\ \A l \in DirLinks' : Link(l)' = Link(l)
      /\ \A i \in Inodes : Type(i)' = Type(i)
  BY EntryGoes
<1>2. inode_map' = inode_map /\ (pc = "unlink" => Removing)
  BY DEF UnlinkEntry, RmdirEntry, Removing
<1>3. Sound /\ (pc = "unlink" => loc.inum = translate(call.path))
  BY <1>2, RemovedFile DEF TInv
<1>4. \A l \in DirLinks' : Link(l).inode \in inode_map'
  BY <1>1, <1>2, <1>3 DEF Sound, Forest
<1>5. Forest'
  BY <1>1, <1>3, <1>4, FewerLinks
<1>6. Marked'
  <2>1. 1 \in Inodes
    BY Ranges DEF Inodes
  <2>. QED  BY <1>1, <1>2, <1>3, <2>1 DEF Sound, Marked
<1>. QED  BY <1>5, <1>6

\* What the kernel and the tests of fs_rename see to.
LEMMA RenameMay ==
    TInv /\ Starts("rename") =>
        /\ call.path \in Paths \ {<<>>} /\ call.dst \in Paths \ {<<>>}
        /\ translate(call.path) > 0 /\ translate(call.path) \in Inodes \ {0, 1}
        /\ translate(call.dst) \in {ENOENT, ENOTDIR}
        /\ trancate_path(call.dst) = trancate_path(call.path)
        /\ Father > 0 /\ Father \in Inodes \ {0} /\ Type(Father) = "dir"
        /\ Last \in Names /\ call.dst[Len(call.dst)] \in Names
        /\ Named(Father, Last) # {}
        /\ Named(Father, call.dst[Len(call.dst)]) = {}
<1>. DEFINE m == call.dst[Len(call.dst)]
<1>. SUFFICES ASSUME TInv, Starts("rename")
              PROVE
        /\ call.path \in Paths \ {<<>>} /\ call.dst \in Paths \ {<<>>}
        /\ translate(call.path) > 0 /\ translate(call.path) \in Inodes \ {0, 1}
        /\ translate(call.dst) \in {ENOENT, ENOTDIR}
        /\ trancate_path(call.dst) = trancate_path(call.path)
        /\ Father > 0 /\ Father \in Inodes \ {0} /\ Type(Father) = "dir"
        /\ Last \in Names /\ m \in Names
        /\ Named(Father, Last) # {}
        /\ Named(Father, m) = {}
  OBVIOUS
<1>1. pc = "called" /\ call.op = "rename" /\ Error = 0 /\ Sound /\ TypeOK /\ EntriesLead
  BY DEF Starts, TInv, Sound, NInv
<1>2. call.path \in Paths \ {<<>>} /\ call.dst \in Paths \ {<<>>}
  BY <1>1 DEF Sound, NInv, TypeOK, AtWork
<1>3. /\ translate(call.path) \in Inodes \ {0}
      /\ ~(translate(call.dst) > 0)
      /\ trancate_path(call.dst) = trancate_path(call.path)
  BY <1>1, MayChange
<1>4. translate(call.dst) \in {ENOENT, ENOTDIR}
  <2>1. translate(call.dst) \in Answers
    BY <1>1, <1>2, Lookup DEF LooksUp
  <2>. QED  BY <1>3, <2>1, Ranges DEF Answers, Inodes
<1>5. translate(call.path) > 0
  BY <1>3, Ranges DEF Inodes
<1>6. /\ translate(call.path) \in Inodes \ {0, 1}
      /\ Father > 0 /\ Father \in Inodes \ {0} /\ Type(Father) = "dir"
      /\ Last \in Names /\ Named(Father, Last) # {}
  BY <1>1, <1>2, <1>5, FoundLink DEF Father, Last
<1>7. m \in Names
  BY <1>2, PathShape
<1>8. Named(Father, m) = {}
  <2>. SUFFICES ASSUME NEW s \in Named(Father, m) PROVE FALSE
    OBVIOUS
  <2>1. \A r \in Named(Father, m) : translate(call.dst) = Entries(Father)[r].inode
    BY <1>1, <1>2, <1>3, <1>6, Lookup DEF LooksUp, Father
  <2>2. <<Father, s>> \in DirLinks /\ Link(<<Father, s>>) = Entries(Father)[s]
    BY <1>6 DEF DirLinks, Named, Link
  <2>3. Entries(Father)[s].inode \in Inodes \ {0, 1}
    BY <1>1, <2>2, LinkLeads
  <2>. QED  BY <1>3, <2>1, <2>3, Ranges DEF Inodes
<1>. QED  BY <1>1, <1>2, <1>3, <1>4, <1>5, <1>6, <1>7, <1>8

\* It gives the path's entry the new name.
LEMMA RenameDoes ==
    TInv /\ Rename =>
        /\ UNCHANGED <<inode_map, inode_region>>
        /\ \A i \in Inodes : Type(i)' = Type(i)
        /\ \A e \in Inodes, s \in 1 .. NDIRENTS : Type(e) = "dir" =>
              Entries(e)[s]' = IF e = Father /\ s \in Named(Father, Last)
                               THEN [Entries(e)[s] EXCEPT !.name = call.dst[Len(call.dst)]]
                               ELSE Entries(e)[s]
        /\ \A b \in Blocks : blk'[b].word = blk[b].word
<1>. SUFFICES ASSUME TInv, Rename
              PROVE
        /\ UNCHANGED <<inode_map, inode_region>>
        /\ \A i \in Inodes : Type(i)' = Type(i)
        /\ \A e \in Inodes, s \in 1 .. NDIRENTS : Type(e) = "dir" =>
              Entries(e)[s]' = IF e = Father /\ s \in Named(Father, Last)
                               THEN [Entries(e)[s] EXCEPT !.name = call.dst[Len(call.dst)]]
                               ELSE Entries(e)[s]
        /\ \A b \in Blocks : blk'[b].word = blk[b].word
  OBVIOUS
<1>1. Starts("rename") /\ UNCHANGED <<inode_map, inode_region>>
  BY DEF Rename
<1>2. /\ Sound /\ Father \in Inodes /\ Type(Father) = "dir"
      /\ call.dst[Len(call.dst)] \in Names
  BY <1>1, RenameMay DEF TInv
<1>3. blk' = RenamedEntries(Father, Last, call.dst[Len(call.dst)])
  <2>1. ~call.slash
    BY DEF TInv, Knowing
  <2>. QED  BY <2>1 DEF Rename, Father, Last, get_name
<1>. QED  BY <1>1, <1>2, <1>3, AfterRename

LEMMA RenameSound == TInv /\ Rename => Forest' /\ Marked'
<1>. SUFFICES ASSUME TInv, Rename PROVE Forest' /\ Marked'
  OBVIOUS
<1>. DEFINE f == Father
            n == Last
            m == call.dst[Len(call.dst)]
            Moved(l) == l[1] = f /\ l[2] \in Named(f, n)
<1>1. /\ UNCHANGED <<inode_map, inode_region>>
      /\ \A i \in Inodes : Type(i)' = Type(i)
      /\ \A e \in Inodes, s \in 1 .. NDIRENTS : Type(e) = "dir" =>
            Entries(e)[s]' = IF e = f /\ s \in Named(f, n)
                             THEN [Entries(e)[s] EXCEPT !.name = m] ELSE Entries(e)[s]
  BY RenameDoes
<1>2. pc = "called" /\ m \in Names /\ Named(f, m) = {} /\ Sound
  <2>1. Starts("rename") /\ pc = "called"
    BY DEF Rename, Starts
  <2>. QED  BY <2>1, RenameMay DEF TInv
<1>3. /\ \A l \in DirLinks :
           /\ l[1] \in Inodes /\ l[2] \in 1 .. NDIRENTS /\ Type(l[1]) = "dir"
           /\ Link(l) = Entries(l[1])[l[2]] /\ Link(l).valid
           /\ Link(l) \in [valid : {TRUE}, isDir : BOOLEAN, inode : Bits, name : Names \cup {""}]
           /\ Link(l).inode \in Inodes /\ Link(l).inode \in inode_map
           /\ Type(Link(l).inode) = IF Link(l).isDir THEN "dir" ELSE "file"
           /\ Link(l).name \in Names
      /\ \A l, k \in DirLinks : l # k =>
           /\ Link(l).inode # Link(k).inode
           /\ l[1] = k[1] => Link(l).name # Link(k).name
  BY <1>2, LinkLeads DEF Sound, Forest
<1>. HIDE DEF f, n, m
<1>4. DirLinks' \subseteq DirLinks
  <2>. SUFFICES ASSUME NEW l \in DirLinks' PROVE l \in DirLinks
    OBVIOUS
  <2>1. /\ l \in Inodes \X (1 .. NDIRENTS) /\ l[1] \in Inodes /\ l[2] \in 1 .. NDIRENTS
        /\ Type(l[1])' = "dir" /\ Entries(l[1])[l[2]]'.valid
    BY DEF DirLinks
  <2>2. Type(l[1]) = "dir"
    BY <1>1, <2>1
  <2>3. CASE Moved(l)
    BY <2>1, <2>2, <2>3 DEF DirLinks, Named
  <2>4. CASE ~Moved(l)
    BY <1>1, <2>1, <2>2, <2>4 DEF DirLinks
  <2>. QED  BY <2>3, <2>4
<1>5. \A l \in DirLinks' :
        /\ Link(l)'.inode = Link(l).inode /\ Link(l)'.isDir = Link(l).isDir
        /\ Link(l)'.name = IF Moved(l) THEN m ELSE Link(l).name
  <2>. SUFFICES ASSUME NEW l \in DirLinks'
                PROVE  /\ Link(l)'.inode = Link(l).inode /\ Link(l)'.isDir = Link(l).isDir
                       /\ Link(l)'.name = IF Moved(l) THEN m ELSE Link(l).name
    OBVIOUS
  <2>1. /\ l \in DirLinks /\ l[1] \in Inodes /\ l[2] \in 1 .. NDIRENTS /\ Type(l[1]) = "dir"
        /\ Link(l) \in [valid : {TRUE}, isDir : BOOLEAN, inode : Bits, name : Names \cup {""}]
        /\ Link(l) = Entries(l[1])[l[2]]
    BY <1>3, <1>4
  <2>2. Link(l)' = Entries(l[1])[l[2]]'
    BY DEF Link
  <2>3. Link(l)' = IF Moved(l) THEN [Link(l) EXCEPT !.name = m] ELSE Link(l)
    BY <1>1, <2>1, <2>2
  <2>. DEFINE x == Link(l)
              y == [x EXCEPT !.name = m]
  <2>. HIDE DEF x
  <2>4. y.inode = x.inode /\ y.isDir = x.isDir /\ y.name = m
    BY <2>1 DEF x
  <2>. HIDE DEF y
  <2>. QED  BY <2>3, <2>4 DEF x, y
<1>6. \A l \in DirLinks : l[1] = f => Link(l).name # m
  BY <1>2, <1>3 DEF Named
<1>7. \A l \in DirLinks : Moved(l) => Link(l).name = n
  BY <1>3 DEF Named
<1>. HIDE DEF Moved
<1>8. ASSUME NEW l \in DirLinks'
      PROVE  /\ Link(l).inode' \in inode_map'
             /\ Type(Link(l).inode)' = IF Link(l).isDir' THEN "dir" ELSE "file"
             /\ Link(l).name' \in Names
  <2>1. l \in DirLinks /\ Link(l).inode \in Inodes /\ Link(l)'.inode = Link(l).inode
    BY <1>3, <1>4, <1>5, <1>8
  <2>2. Type(Link(l).inode)' = Type(Link(l).inode)
    BY <1>1, <2>1
  <2>. QED  BY <1>1, <1>2, <1>3, <1>5, <1>8, <2>1, <2>2
<1>9. ASSUME NEW l \in DirLinks', NEW k \in DirLinks', l # k
      PROVE  /\ Link(l).inode' # Link(k).inode'
             /\ l[1] = k[1] => Link(l).name' # Link(k).name'
  <2>1. l \in DirLinks /\ k \in DirLinks
    BY <1>4, <1>9
  <2>2. Link(l).inode' # Link(k).inode'
    BY <1>3, <1>5, <1>9, <2>1
  <2>3. ASSUME l[1] = k[1]
        PROVE  Link(l).name' # Link(k).name'
    <3>1. Link(l).name # Link(k).name
      BY <1>3, <1>9, <2>1, <2>3
    <3>2. CASE Moved(l) /\ Moved(k)
      BY <1>7, <2>1, <3>1, <3>2
    <3>3. CASE Moved(l) /\ ~Moved(k)
      <4>1. k[1] = f
        BY <2>3, <3>3 DEF Moved
      <4>. QED  BY <1>5, <1>6, <1>9, <2>1, <3>3, <4>1
    <3>4. CASE ~Moved(l) /\ Moved(k)
      <4>1. l[1] = f
        BY <2>3, <3>4 DEF Moved
      <4>. QED  BY <1>5, <1>6, <1>9, <2>1, <3>4, <4>1
    <3>5. CASE ~Moved(l) /\ ~Moved(k)
      BY <1>5, <1>9, <3>1, <3>5
    <3>. QED  BY <3>2, <3>3, <3>4, <3>5
  <2>. QED  BY <2>2, <2>3
<1>10. Forest'
  BY <1>8, <1>9 DEF Forest
<1>11. Marked'
  <2>1. 1 \in Inodes
    BY Ranges DEF Inodes
  <2>. QED  BY <1>1, <1>2, <2>1 DEF Sound, Marked
<1>. QED  BY <1>10, <1>11

-----------------------------------------------------------------------------
(***************************************************************************)
(* Every step of the kernel's calls keeps the tree.                        *)
(***************************************************************************)
\* A call that is made.
Called(op, p, d, slash, w) ==
    /\ op \in Ops /\ p \in Paths /\ d \in Paths
    /\ slash \in BOOLEAN /\ w \in Words \cup {0}
    /\ Call(op, p, d, slash, w)

\* The steps that change no directory.
QuietStep ==
    \/ Refuse \/ MknodStart \/ MkdirBlock \/ MkdirNoBlock \/ MkdirInode \/ MkdirNoInode
    \/ CreateAborts \/ TruncateFree \/ TruncateInode \/ RmdirMap \/ Chmod \/ WriteStep
    \/ Return \/ Mount
    \/ \E op, p, d, slash, w : Called(op, p, d, slash, w)

LEMMA StepKinds ==
    [Next]_vars /\ InPlace' => \/ UNCHANGED vars \/ QuietStep
                               \/ CreateInode \/ CreateEntry
                               \/ UnlinkMap \/ UnlinkEntry \/ RmdirEntry \/ Rename
<1>. SUFFICES ASSUME [Next]_vars, InPlace', ~(UNCHANGED vars)
              PROVE  \/ QuietStep \/ CreateInode \/ CreateEntry
                     \/ UnlinkMap \/ UnlinkEntry \/ RmdirEntry \/ Rename
  OBVIOUS
<1>0. <<>> \in Paths
  BY Ranges DEF Paths
<1>1. ASSUME NEW op \in Ops \ {"rename", "write"}, NEW p \in Paths, NEW slash \in BOOLEAN,
             Call(op, p, <<>>, slash, 0)
      PROVE  QuietStep
  <2>1. Called(op, p, <<>>, slash, 0)
    BY <1>0, <1>1 DEF Called
  <2>. QED  BY <2>1 DEF QuietStep
<1>2. ASSUME "rename" \in Ops, NEW p \in Paths, NEW d \in Paths, NEW slash \in BOOLEAN,
             Call("rename", p, d, slash, 0)
      PROVE  QuietStep
  <2>1. Called("rename", p, d, slash, 0)
    BY <1>2 DEF Called
  <2>. QED  BY <2>1 DEF QuietStep
<1>3. ASSUME "write" \in Ops, NEW p \in Paths, NEW w \in Words, Call("write", p, <<>>, FALSE, w)
      PROVE  QuietStep
  <2>1. Called("write", p, <<>>, FALSE, w)
    BY <1>0, <1>3 DEF Called
  <2>. QED  BY <2>1 DEF QuietStep
<1>4. ~CreateOverrun /\ ~RenameOverrun
  BY DEF CreateOverrun, RenameOverrun, Overrun, InPlace
<1>. QED  BY <1>1, <1>2, <1>3, <1>4 DEF Next, Handler, CreateStep, RemoveStep, QuietStep

LEMMA QuietSteps ==
    TInv /\ QuietStep /\ Frontend = "fuse" =>
        Quiet /\ pc # "unlink" /\ inode_map \subseteq inode_map'
<1>. SUFFICES ASSUME TInv, QuietStep, Frontend = "fuse"
              PROVE  Quiet /\ pc # "unlink" /\ inode_map \subseteq inode_map'
  OBVIOUS
<1>1. CASE MkdirBlock
  <2>1. pc # "unlink" /\ inode_map' = inode_map
    BY <1>1 DEF MkdirBlock, Starts
  <2>. QED  BY <1>1, <2>1, MkdirBlockQuiet
<1>2. CASE TruncateInode
  <2>1. pc # "unlink" /\ inode_map' = inode_map
    BY <1>2 DEF TruncateInode
  <2>. QED  BY <1>2, <2>1, TruncateInodeQuiet
<1>3. CASE WriteStep
  <2>1. pc # "unlink" /\ inode_map' = inode_map
    BY <1>3 DEF WriteStep, WriteBlock, WriteMark, WriteFound, WriteData, WriteNoBlock, Starts, image
  <2>2. CASE WriteMark \/ WriteFound \/ WriteNoBlock
    <3>1. UNCHANGED <<inode_region, blk>>
      BY <2>2 DEF WriteMark, WriteFound, WriteNoBlock, image
    <3>. QED  BY <2>1, <3>1, UnchangedIsQuiet
  <2>. QED  BY <1>3, <2>1, <2>2, WriteBlockQuiet, WriteDataQuiet DEF WriteStep
<1>4. CASE Chmod
  <2>1. pc # "unlink" /\ inode_map' = inode_map
    BY <1>4 DEF Chmod, Starts
  <2>. QED  BY <1>4, <2>1, ChmodQuiet
<1>5. CASE Refuse \/ MkdirNoBlock \/ MkdirNoInode \/ CreateAborts \/ Return \/ Mount
  <2>1. pc # "unlink" /\ UNCHANGED image
    BY <1>5 DEF Refuse, MkdirNoBlock, MkdirNoInode, CreateAborts, Return, Mount, Starts
  <2>. QED  BY <2>1, UnchangedIsQuiet DEF image
<1>6. CASE \E op, p, d, slash, w : Called(op, p, d, slash, w)
  <2>1. pc # "unlink" /\ UNCHANGED image
    BY <1>6 DEF Called, Call
  <2>. QED  BY <2>1, UnchangedIsQuiet DEF image
<1>7. CASE MknodStart \/ MkdirInode \/ TruncateFree \/ RmdirMap
  <2>1. pc # "unlink" /\ UNCHANGED <<inode_region, blk>> /\ inode_map \subseteq inode_map'
    BY <1>7 DEF MknodStart, MkdirInode, TruncateFree, RmdirMap, Starts
  <2>. QED  BY <2>1, UnchangedIsQuiet
<1>. QED  BY <1>1, <1>2, <1>3, <1>4, <1>5, <1>6, <1>7 DEF QuietStep

LEMMA SoundStep == TInv /\ [Next]_vars /\ InPlace' /\ Frontend = "fuse" => Sound'
<1>. SUFFICES ASSUME TInv, [Next]_vars, InPlace', Frontend = "fuse" PROVE Sound'
  OBVIOUS
<1>1. NInv' /\ Sound
  BY StepKeeps DEF TInv, Sound
<1>. SUFFICES Forest' /\ Marked'
  BY <1>1 DEF Sound
<1>2. CASE UNCHANGED vars
  <2>1. UNCHANGED <<inode_map, inode_region, blk, pc, loc>>
    BY <1>2 DEF vars
  <2>2. Quiet
    BY <2>1, UnchangedIsQuiet
  <2>. QED
    <3>1. \A l : /\ l \in DirLinks' <=> l \in DirLinks
                 /\ l \in DirLinks => Link(l)' = Link(l)
      BY <2>2, QuietLinks
    <3>2. \A i \in Inodes : Type(i)' = Type(i)
      BY <2>2 DEF Quiet
    <3>3. Forest'
      <4>1. DirLinks' \subseteq DirLinks
        BY <3>1
      <4>2. \A l \in DirLinks' :
               /\ Link(l)' = Link(l)
               /\ Link(l).inode \in inode_map' \/ (pc' = "unlink" /\ Link(l).inode = loc.inum')
        BY <1>1, <2>1, <3>1 DEF Sound, Forest
      <4>. QED  BY <1>1, <3>2, <4>1, <4>2, FewerLinks
    <3>4. Marked'
      <4>1. 1 \in Inodes
        BY Ranges DEF Inodes
      <4>. QED  BY <1>1, <2>1, <3>2, <4>1 DEF Sound, Marked
    <3>. QED  BY <3>3, <3>4
<1>3. CASE QuietStep
  BY <1>1, <1>3, QuietSteps, QuietForest
<1>4. CASE CreateInode
  <2>1. pc # "unlink" /\ inode_map' = inode_map
    BY <1>4 DEF CreateInode
  <2>. QED  BY <1>1, <1>4, <2>1, CreateInodeCalm, CalmForest
<1>. QED  BY <1>2, <1>3, <1>4, StepKinds, CreateEntryForest, UnlinkMapSound, EntryGoesSound,
             RenameSound

\* When nothing is at work nothing needs to be known.
LEMMA EndKnows ==
    ASSUME pc' \in {"idle", "return", "dead"}, ~call.slash,
           call' \in {call, NoCall}, pc' = "return" => call'.op \in Ops
    PROVE  Knowing'
<1>1. ~NoCall.slash
  BY DEF NoCall
<1>2. ~call'.slash
  BY <1>1
<1>. QED  BY <1>2 DEF Knowing, Creating, Removing, Writing

LEMMA EndingSteps ==
    TInv /\ ( \/ Refuse \/ MkdirNoBlock \/ MkdirNoInode \/ CreateAborts \/ Chmod \/ WriteData
              \/ WriteNoBlock \/ Return \/ Mount \/ CreateEntry \/ UnlinkEntry \/ RmdirEntry
              \/ Rename \/ Crash \/ (TruncateInode /\ call.op = "truncate")) => Knowing'
<1>. SUFFICES ASSUME TInv,
              \/ Refuse \/ MkdirNoBlock \/ MkdirNoInode \/ CreateAborts \/ Chmod \/ WriteData
              \/ WriteNoBlock \/ Return \/ Mount \/ CreateEntry \/ UnlinkEntry \/ RmdirEntry
              \/ Rename \/ Crash \/ (TruncateInode /\ call.op = "truncate")
              PROVE  Knowing'
  OBVIOUS
<1>1. ~call.slash /\ (pc \notin {"idle", "dead"} => call.op \in Ops)
  BY DEF TInv, Knowing
<1>2. CASE Return \/ Mount
  <2>1. pc' = "idle" /\ call' = NoCall
    BY <1>2 DEF Return, Mount
  <2>. QED  BY <1>1, <2>1, EndKnows
<1>3. CASE ~(Return \/ Mount)
  <2>1. pc' \in {"return", "dead"} /\ call' = call /\ pc \notin {"idle", "dead"}
    BY <1>3 DEF Refuse, MkdirNoBlock, MkdirNoInode, CreateAborts, Chmod, WriteData, WriteNoBlock,
                CreateEntry, UnlinkEntry, RmdirEntry, Rename, Crash, TruncateInode,
                Starts, Answer, Abort
  <2>. QED  BY <1>1, <2>1, EndKnows
<1>. QED  BY <1>2, <1>3

\* What the kernel has seen to is so when the handler begins.
LEMMA CallKnows ==
    ASSUME TInv, Sound', Frontend = "fuse", NEW op, NEW p, NEW d, NEW slash, NEW w,
           Called(op, p, d, slash, w)
    PROVE  Knowing'
<1>1. /\ op \in Ops /\ p \in Paths /\ Defined(op, p, d) /\ KernelAllows(op, p, d, slash)
      /\ pc' = "called" /\ UNCHANGED image
      /\ call' = [op |-> op, path |-> p, dst |-> d, slash |-> slash, word |-> w]
  BY DEF Called, Call
<1>2. /\ call'.op = op /\ call'.path = p /\ call'.dst = d /\ call'.slash = slash
  BY <1>1
<1>3. \A q \in Paths : translate(q)' = translate(q)
  BY <1>1, UnchangedIsQuiet, QuietIsCalm, CalmWalk DEF TInv, image
<1>4. \A i : Type(i)' = Type(i) /\ inode_region' = inode_region
  BY <1>1 DEF image, Type
<1>5. p # <<>> => trancate_path(p) \in Paths
  BY <1>1, PathShape
<1>6. ~slash
  BY <1>1 DEF KernelAllows
<1>7. translate(p)' = translate(p)
  BY <1>1, <1>3
<1>8. p # <<>> => translate(trancate_path(p))' = translate(trancate_path(p))
  BY <1>3, <1>5
<1>9. KernelAllows(op, p, d, slash)'
  <2>1. /\ ~slash /\ (op # "chmod" => p # <<>>)
        /\ op = "rename" => d # <<>>
    BY <1>1 DEF KernelAllows
  <2>2. p # <<>> /\ translate(trancate_path(p))' > 0 => Type(translate(trancate_path(p)))' = "dir"
    BY <1>1, <1>4, <1>8 DEF KernelAllows, Type
  <2>3. op \in {"write", "truncate"} => translate(p)' > 0 /\ Type(translate(p))' = "file"
    BY <1>1, <1>4, <1>7 DEF KernelAllows, Type
  <2>. QED  BY <2>1, <2>2, <2>3 DEF KernelAllows
<1>10. Defined(op, p, d)'
  <2>1. op = "write" => translate(p)' > 0 /\ Type(translate(p))' = "file"
    BY <1>1, <1>4, <1>7 DEF Defined, Type
  <2>2. op = "unlink" /\ p = <<>> => Type(1)' = "dir"
    BY <1>1, <1>4 DEF Defined
  <2>3. op = "rename" => p # <<>> /\ d # <<>>
    BY <1>1 DEF Defined
  <2>. QED  BY <2>1, <2>2, <2>3 DEF Defined
<1>11. KernelAllows(call.op, call.path, call.dst, call.slash)' /\ Defined(call.op, call.path, call.dst)'
  BY <1>2, <1>9, <1>10
<1>. QED  BY <1>1, <1>2, <1>6, <1>11 DEF Knowing, Creating, Removing, Writing

\* A handler's father stays what it is while no directory changes.
LEMMA FatherKept ==
    ASSUME Sound, Sound', Calm, UNCHANGED call, call.path \in Paths \ {<<>>},
           NEW f \in Inodes, f = Father, Type(f) = "dir"
    PROVE  /\ Father' = f /\ Type(f)' = "dir" /\ Last' = Last
           /\ \A s \in 1 .. NDIRENTS : Entries(f)[s]' = Entries(f)[s]
           /\ Named(f, Last)' = Named(f, Last)
<1>1. trancate_path(call.path) \in Paths
  BY PathShape
<1>2. \A q \in Paths : translate(q)' = translate(q)
  BY CalmWalk
<1>3. Father' = f
  BY <1>1, <1>2 DEF Father
<1>4. Type(f)' = "dir" /\ \A s \in 1 .. NDIRENTS : Entries(f)[s]' = Entries(f)[s]
  BY DEF Calm
<1>5. Last' = Last
  BY DEF Last
<1>6. Named(f, Last)' = Named(f, Last)
  BY <1>4, <1>5 DEF Named
<1>. QED  BY <1>3, <1>4, <1>5, <1>6

\* What the tests of fs_mknod and fs_mkdir see to.
LEMMA CreateMay ==
    ASSUME TInv, Frontend = "fuse", pc = "called", call.op \in {"mknod", "mkdir"}, Error = 0
    PROVE  /\ call.path \in Paths \ {<<>>} /\ Last \in Names
           /\ Father > 0 /\ Father \in Inodes \ {0} /\ Type(Father) = "dir"
           /\ Named(Father, Last) = {}
           /\ \E s \in 1 .. NDIRENTS :
                 /\ ~Entries(Father)[s].valid
                 /\ Place = [loc EXCEPT !.father = Father, !.slot = s]
<1>1. Sound /\ TypeOK /\ EntriesLead /\ KernelAllows(call.op, call.path, call.dst, call.slash)
  BY DEF TInv, Sound, NInv, Knowing
<1>2. /\ call.path \in Paths /\ call.path # <<>> /\ Father \in Inodes \ {0}
      /\ translate(call.path) \in {ENOENT, ENOTDIR}
  BY <1>1, MayCreate DEF Father
<1>3. Last \in Names
  BY <1>2, PathShape DEF Last
<1>4. Father > 0
  BY <1>2, Ranges DEF Inodes
<1>5. Type(Father) = "dir"
  BY <1>1, <1>2, <1>4 DEF KernelAllows, Father
<1>6. Named(Father, Last) = {}
  <2>. SUFFICES ASSUME NEW s \in Named(Father, Last) PROVE FALSE
    OBVIOUS
  <2>1. translate(call.path) = Entries(Father)[s].inode
    BY <1>1, <1>2, <1>4, <1>5, Lookup DEF LooksUp, Father, Last
  <2>2. <<Father, s>> \in DirLinks /\ Link(<<Father, s>>) = Entries(Father)[s]
    BY <1>2, <1>5 DEF DirLinks, Named, Link
  <2>3. Entries(Father)[s].inode \in Inodes \ {0, 1}
    BY <1>1, <2>2, LinkLeads
  <2>. QED  BY <1>2, <2>1, <2>3, Ranges DEF Inodes, ENOENT, ENOTDIR
<1>7. \E s \in 1 .. NDIRENTS :
         /\ ~Entries(Father)[s].valid
         /\ Place = [loc EXCEPT !.father = Father, !.slot = s]
  BY <1>1, PlaceIsFree DEF Father
<1>. QED  BY <1>2, <1>3, <1>4, <1>5, <1>6, <1>7

\* Between two steps of fs_mknod or fs_mkdir the new name's place stays free.
Standing ==
    /\ call.path \in Paths \ {<<>>} /\ ~call.slash /\ call.op \in Ops
    /\ loc.father = Father /\ loc.father \in Inodes /\ Type(loc.father) = "dir"
    /\ loc.slot \in 1 .. NDIRENTS
    /\ ~Entries(loc.father)[loc.slot].valid /\ Named(loc.father, Last) = {}

LEMMA StillStanding ==
    Standing /\ Sound /\ Sound' /\ Calm /\ UNCHANGED call
    /\ loc'.father = loc.father /\ loc'.slot = loc.slot => Standing'
<1>. SUFFICES ASSUME Standing, Sound, Sound', Calm, UNCHANGED call,
                     loc'.father = loc.father, loc'.slot = loc.slot
              PROVE  Standing'
  OBVIOUS
<1>1. PICK f \in Inodes : f = loc.father
  BY DEF Standing
<1>2. PICK s \in 1 .. NDIRENTS : s = loc.slot
  BY DEF Standing
<1>3. /\ Father' = f /\ Type(f)' = "dir" /\ Last' = Last
      /\ Entries(f)[s]' = Entries(f)[s]
      /\ Named(f, Last)' = Named(f, Last)
  BY <1>1, <1>2, FatherKept DEF Standing
<1>4. loc'.father = f /\ loc'.slot = s
  BY <1>1, <1>2
<1>5. ~Entries(f)[s]'.valid /\ Named(f, Last)' = {}
  BY <1>1, <1>2, <1>3 DEF Standing
<1>6. Type(loc.father)' = "dir" /\ ~Entries(loc.father)[loc.slot]'.valid /\ Named(loc.father, Last)' = {}
  BY <1>3, <1>4, <1>5
<1>7. call'.path \in Paths \ {<<>>} /\ ~call'.slash /\ call'.op \in Ops
  BY DEF Standing
<1>. QED  BY <1>3, <1>4, <1>6, <1>7 DEF Standing

LEMMA CreatingStands == TInv /\ Creating => Standing
BY DEF TInv, Sound, NInv, TypeOK, AtWork, Knowing, Standing, Creating

\* The new inode is in nobody else's hands.
Fresh ==
    /\ loc.inum \in inode_map /\ loc.inum # loc.father
    /\ \A l \in DirLinks : Link(l).inode # loc.inum
    /\ loc.inum \in Inodes => Type(loc.inum) # "dir"

LEMMA TakenInode ==
    ASSUME Sound, pc # "unlink", NEW f \in Inodes, Type(f) = "dir", NEW i \in Bits, FreeInode(i),
           inode_map' = inode_map \cup {i}, UNCHANGED <<inode_region, blk>>,
           loc'.inum = i, loc'.father = f
    PROVE  Fresh'
<1>1. i \notin inode_map
  BY DEF FreeInode
<1>2. f # i /\ (i \in Inodes => Type(i) # "dir")
  BY <1>1 DEF Sound, Marked
<1>3. \A l \in DirLinks : Link(l).inode # i
  BY <1>1 DEF Sound, Forest
<1>4. \A l : /\ l \in DirLinks' <=> l \in DirLinks
             /\ l \in DirLinks => Link(l)' = Link(l)
  BY UnchangedIsQuiet, QuietLinks
<1>5. i \in Inodes => Type(i)' # "dir"
  BY <1>2 DEF Type
<1>6. \A l \in DirLinks' : Link(l).inode' # i
  BY <1>3, <1>4
<1>. QED  BY <1>2, <1>5, <1>6 DEF Fresh

LEMMA MknodStartKnows == TInv /\ Sound' /\ MknodStart /\ Frontend = "fuse" => Knowing'
<1>. SUFFICES ASSUME TInv, Sound', MknodStart, Frontend = "fuse" PROVE Knowing'
  OBVIOUS
<1>1. /\ pc = "called" /\ call.op = "mknod" /\ Error = 0 /\ pc' = "inode"
      /\ UNCHANGED <<inode_region, blk, call>>
  BY DEF MknodStart, Starts
<1>2. PICK i \in Bits : /\ FreeInode(i) /\ inode_map' = inode_map \cup {i}
                        /\ loc' = [Place EXCEPT !.inum = i]
  BY DEF MknodStart
<1>3. /\ call.path \in Paths \ {<<>>} /\ Last \in Names
      /\ Father \in Inodes /\ Type(Father) = "dir" /\ Named(Father, Last) = {}
      /\ \E s \in 1 .. NDIRENTS :
            /\ ~Entries(Father)[s].valid
            /\ Place = [loc EXCEPT !.father = Father, !.slot = s]
  BY <1>1, CreateMay
<1>4. PICK s \in 1 .. NDIRENTS : /\ ~Entries(Father)[s].valid
                                 /\ Place = [loc EXCEPT !.father = Father, !.slot = s]
  BY <1>3
<1>5. PICK f \in Inodes : f = Father
  BY <1>3
<1>6. loc'.inum = i /\ loc'.father = f /\ loc'.slot = s
  BY <1>2, <1>4, <1>5 DEF TInv, Sound, NInv, TypeOK
<1>7. Sound /\ Calm
  BY <1>1, UnchangedIsQuiet, QuietIsCalm DEF TInv
<1>8. /\ Father' = f /\ Type(f)' = "dir" /\ Last' = Last
      /\ Entries(f)[s]' = Entries(f)[s] /\ Named(f, Last)' = Named(f, Last)
  BY <1>1, <1>3, <1>5, <1>7, FatherKept
<1>9. Fresh'
  BY <1>1, <1>2, <1>3, <1>5, <1>6, <1>7, TakenInode
<1>10. ~call'.slash /\ call'.op \in Ops /\ call'.op = "mknod"
  BY <1>1 DEF TInv, Knowing
<1>11. /\ Type(Father)' = "dir" /\ Named(Father, Last)' = {}
       /\ ~Entries(Father)[loc.slot]'.valid /\ loc'.father = Father'
  <2>1. ~Entries(f)[s]'.valid /\ Named(f, Last)' = {}
    BY <1>3, <1>4, <1>5, <1>8
  <2>. QED  BY <1>6, <1>8, <2>1
<1>. QED  BY <1>1, <1>9, <1>10, <1>11 DEF Knowing, Creating, Removing, Writing, Fresh

LEMMA MkdirBlockKnows == TInv /\ Sound' /\ MkdirBlock /\ Frontend = "fuse" => Knowing'
<1>. SUFFICES ASSUME TInv, Sound', MkdirBlock, Frontend = "fuse" PROVE Knowing'
  OBVIOUS
<1>1. /\ pc = "called" /\ call.op = "mkdir" /\ Error = 0 /\ pc' = "mkdir"
      /\ UNCHANGED call
  BY DEF MkdirBlock, Starts
<1>2. PICK b \in Blocks : /\ blk' = [blk EXCEPT ![b] = ZeroBlock]
                          /\ loc' = [Place EXCEPT !.block = b]
  BY DEF MkdirBlock
<1>3. /\ call.path \in Paths \ {<<>>} /\ Last \in Names
      /\ Father \in Inodes /\ Type(Father) = "dir" /\ Named(Father, Last) = {}
      /\ \E s \in 1 .. NDIRENTS :
            /\ ~Entries(Father)[s].valid
            /\ Place = [loc EXCEPT !.father = Father, !.slot = s]
  BY <1>1, CreateMay
<1>4. PICK s \in 1 .. NDIRENTS : /\ ~Entries(Father)[s].valid
                                 /\ Place = [loc EXCEPT !.father = Father, !.slot = s]
  BY <1>3
<1>5. PICK f \in Inodes : f = Father
  BY <1>3
<1>6. loc'.block = b /\ loc'.father = f /\ loc'.slot = s
  BY <1>2, <1>4, <1>5 DEF TInv, Sound, NInv, TypeOK
<1>7. Sound /\ Calm
  BY MkdirBlockQuiet, QuietIsCalm DEF TInv
<1>8. /\ Father' = f /\ Type(f)' = "dir" /\ Last' = Last
      /\ Entries(f)[s]' = Entries(f)[s] /\ Named(f, Last)' = Named(f, Last)
  BY <1>1, <1>3, <1>5, <1>7, FatherKept
<1>9. \A r \in 1 .. NDIRENTS : ~blk'[loc'.block].ent[r].valid
  <2>1. blk'[b] = ZeroBlock
    BY <1>2 DEF TInv, Sound, NInv, TypeOK
  <2>2. ~NoEntry.valid
    BY DEF NoEntry
  <2>3. \A r \in 1 .. NDIRENTS : ZeroBlock.ent[r] = NoEntry
    BY DEF ZeroBlock
  <2>. QED  BY <1>6, <2>1, <2>2, <2>3
<1>10. ~call'.slash /\ call'.op \in Ops /\ call'.op = "mkdir"
  BY <1>1 DEF TInv, Knowing
<1>11. /\ Type(Father)' = "dir" /\ Named(Father, Last)' = {}
       /\ ~Entries(Father)[loc.slot]'.valid /\ loc'.father = Father'
  <2>1. ~Entries(f)[s]'.valid /\ Named(f, Last)' = {}
    BY <1>3, <1>4, <1>5, <1>8
  <2>. QED  BY <1>6, <1>8, <2>1
<1>. QED  BY <1>1, <1>9, <1>10, <1>11 DEF Knowing, Creating, Removing, Writing

LEMMA MkdirInodeKnows == TInv /\ Sound' /\ MkdirInode => Knowing'
<1>. SUFFICES ASSUME TInv, Sound', MkdirInode PROVE Knowing'
  OBVIOUS
<1>1. /\ pc = "mkdir" /\ pc' = "inode" /\ Creating
      /\ UNCHANGED <<inode_region, blk, call>>
  BY DEF MkdirInode, Creating
<1>2. PICK i \in Bits : /\ FreeInode(i) /\ inode_map' = inode_map \cup {i}
                        /\ loc' = [loc EXCEPT !.inum = i]
  BY DEF MkdirInode
<1>3. /\ loc'.inum = i /\ loc'.father = loc.father /\ loc'.slot = loc.slot
      /\ loc'.block = loc.block
  BY <1>2 DEF TInv, Sound, NInv, TypeOK
<1>4. Sound /\ Calm
  BY <1>1, UnchangedIsQuiet, QuietIsCalm DEF TInv
<1>5. Standing /\ Standing'
  BY <1>1, <1>3, <1>4, CreatingStands, StillStanding
<1>6. PICK f \in Inodes : f = loc.father
  BY <1>5 DEF Standing
<1>7. Type(f) = "dir" /\ loc'.father = f
  BY <1>3, <1>5, <1>6 DEF Standing
<1>8. Fresh'
  BY <1>1, <1>2, <1>3, <1>4, <1>7, TakenInode
<1>9. call'.op = "mkdir" /\ \A s \in 1 .. NDIRENTS : ~blk'[loc'.block].ent[s].valid
  BY <1>1, <1>3 DEF TInv, Sound, NInv, AtWork, Knowing
<1>. QED  BY <1>1, <1>5, <1>8, <1>9 DEF Knowing, Creating, Removing, Writing, Fresh, Standing

LEMMA CreateInodeKnows == TInv /\ Sound' /\ CreateInode => Knowing'
<1>. SUFFICES ASSUME TInv, Sound', CreateInode PROVE Knowing'
  OBVIOUS
<1>. DEFINE new == [type |-> IF call.op = "mkdir" THEN "dir" ELSE "file", direct0 |-> loc.block]
<1>1. /\ pc = "inode" /\ pc' = "entry" /\ Creating /\ loc.inum \in Inodes
      /\ inode_region' = [inode_region EXCEPT ![loc.inum] = new]
      /\ UNCHANGED <<inode_map, blk, call, loc>>
  BY DEF CreateInode, Creating
<1>2. Sound /\ Calm /\ DirLinks' \subseteq DirLinks
  BY CreateInodeCalm DEF TInv
<1>3. Standing'
  BY <1>1, <1>2, CreatingStands, StillStanding
<1>4. /\ loc.inum \in inode_map /\ loc.inum # loc.father
      /\ \A l \in DirLinks : Link(l).inode # loc.inum
      /\ call.op = "mkdir" => \A s \in 1 .. NDIRENTS : ~blk[loc.block].ent[s].valid
      /\ call.op # "mkdir" => loc.block = 0
  BY <1>1 DEF TInv, Sound, NInv, AtWork, Knowing
<1>5. \A l \in DirLinks : Link(l)' = Link(l)
  BY <1>2, LinkLeads DEF Calm, Link
<1>6. \A l \in DirLinks' : Link(l).inode' # loc.inum
  BY <1>2, <1>4, <1>5
<1>7. PICK i \in Inodes : i = loc.inum
  BY <1>1
<1>8. inode_region'[i] = new
  BY <1>1, <1>7 DEF TInv, Sound, NInv, TypeOK
<1>9. /\ Type(i)' = IF call.op = "mkdir" THEN "dir" ELSE "file"
      /\ first(i)' = loc.block
      /\ \A s \in 1 .. NDIRENTS : Entries(i)[s]' = blk[loc.block].ent[s]
  BY <1>1, <1>8 DEF Type, first, Entries
<1>10. loc'.inum = i
  BY <1>1, <1>7
<1>11. /\ Type(loc.inum)' = IF call'.op = "mkdir" THEN "dir" ELSE "file"
       /\ IF call'.op = "mkdir"
          THEN \A s \in 1 .. NDIRENTS : ~Entries(loc.inum)[s]'.valid
          ELSE first(loc.inum)' = 0
  BY <1>1, <1>4, <1>9, <1>10
<1>12. /\ loc'.inum \in inode_map' /\ loc'.inum # loc'.father
       /\ \A l \in DirLinks' : Link(l).inode' # loc'.inum
  BY <1>1, <1>4, <1>6
<1>. QED  BY <1>1, <1>3, <1>11, <1>12 DEF Knowing, Creating, Removing, Writing, Standing

\* What a running fs_truncate or fs_unlink knows, while no directory changes.
LEMMA StillRemoving ==
    ASSUME Sound, Sound', Quiet, pc' \in {"clear", "unmap", "unlink"}, UNCHANGED call,
           ~call.slash, call.op \in Ops, call.path \in Paths \ {<<>>},
           NEW t \in Inodes, t = translate(call.path), loc'.inum = t, Type(t) = "file",
           pc' # "clear" => first(t)' = 0
    PROVE  Knowing'
<1>1. \A q \in Paths : translate(q)' = translate(q)
  BY QuietIsCalm, CalmWalk
<1>2. translate(call.path)' = t
  BY <1>1
<1>3. Type(t)' = "file"
  BY DEF Quiet
<1>4. Type(loc.inum)' = "file" /\ (pc' # "clear" => first(loc.inum)' = 0)
  BY <1>3
<1>5. ~call'.slash /\ call'.op \in Ops /\ call'.path # <<>>
  OBVIOUS
<1>. QED  BY <1>2, <1>4, <1>5 DEF Knowing, Creating, Removing, Writing

LEMMA TruncateFreeKnows == TInv /\ Sound' /\ TruncateFree /\ Frontend = "fuse" => Knowing'
<1>. SUFFICES ASSUME TInv, Sound', TruncateFree, Frontend = "fuse" PROVE Knowing'
  OBVIOUS
<1>1. /\ pc = "called" /\ call.op \in {"truncate", "unlink"} /\ Error = 0 /\ pc' = "clear"
      /\ UNCHANGED <<inode_region, blk, call>> /\ loc' = [loc EXCEPT !.inum = translate(call.path)]
  BY DEF TruncateFree, Starts
<1>2. /\ Sound /\ TypeOK /\ EntriesLead /\ ~call.slash /\ call.op \in Ops
      /\ KernelAllows(call.op, call.path, call.dst, call.slash)
  BY <1>1 DEF TInv, Sound, NInv, Knowing
<1>3. /\ call.path \in Paths /\ translate(call.path) \in Inodes \ {0}
      /\ Type(translate(call.path)) # "dir"
  BY <1>1, <1>2, MayChange
<1>4. call.path # <<>>
  BY <1>1, <1>2 DEF KernelAllows
<1>5. translate(call.path) > 0
  BY <1>3, Ranges DEF Inodes
<1>6. Type(translate(call.path)) = "file"
  BY <1>2, <1>3, <1>5, Lookup DEF LooksUp
<1>7. Quiet
  BY <1>1, UnchangedIsQuiet
<1>8. loc'.inum = translate(call.path)
  BY <1>1, <1>2 DEF TypeOK
<1>. QED  BY <1>1, <1>2, <1>3, <1>4, <1>6, <1>7, <1>8, StillRemoving

LEMMA UnlinkKnows ==
    TInv /\ Sound' /\ (UnlinkMap \/ (TruncateInode /\ call.op # "truncate")) => Knowing'
<1>. SUFFICES ASSUME TInv, Sound', UnlinkMap \/ (TruncateInode /\ call.op # "truncate")
              PROVE  Knowing'
  OBVIOUS
<1>1. /\ pc \in {"clear", "unmap"} /\ pc' \in {"unmap", "unlink"} /\ UNCHANGED <<call, loc>>
      /\ Removing
  BY DEF UnlinkMap, TruncateInode, Removing
<1>2. PICK t \in Inodes : t = loc.inum
  BY <1>1, RemovedFile
<1>3. Sound /\ ~call.slash /\ call.op \in Ops
  BY <1>1 DEF TInv, Knowing
<1>4. call.path \in Paths \ {<<>>} /\ t = translate(call.path) /\ Type(t) = "file"
  BY <1>1, <1>2, RemovedFile
<1>5. Quiet
  BY UnlinkMapSound, TruncateInodeQuiet
<1>6. first(t)' = 0
  <2>1. CASE UnlinkMap
    BY <1>2, <2>1 DEF UnlinkMap, TInv, Knowing, Removing, first
  <2>2. CASE TruncateInode
    BY <1>2, <2>2 DEF TruncateInode, first, TInv, Sound, NInv, TypeOK, Inode
  <2>. QED  BY <2>1, <2>2
<1>7. loc'.inum = t
  BY <1>1, <1>2
<1>. QED  BY <1>1, <1>3, <1>4, <1>5, <1>6, <1>7, StillRemoving

\* What a running fs_write knows.
LEMMA WriteKnows ==
    TInv /\ Sound' /\ (WriteBlock \/ WriteMark \/ WriteFound) /\ Frontend = "fuse" => Knowing'
<1>. SUFFICES ASSUME TInv, Sound', WriteBlock \/ WriteMark \/ WriteFound, Frontend = "fuse"
              PROVE  Knowing'
  OBVIOUS
<1>0. NInv /\ Sound /\ TypeOK /\ EntriesLead
  BY DEF TInv, Sound, NInv
<1>1. pc' \in {"mark", "data"} /\ UNCHANGED call /\ call.op = "write"
  BY <1>0 DEF WriteBlock, WriteMark, WriteFound, Starts, NInv, AtWork, Writing
<1>2. PICK t \in Inodes : /\ call.path \in Paths /\ t = translate(call.path)
                          /\ Type(t) = "file" /\ loc'.inum = t
  <2>1. call.path \in Paths
    BY <1>0 DEF TypeOK
  <2>2. CASE WriteMark
    <3>1. pc = "mark" /\ loc' = loc /\ loc.inum \in Inodes
      BY <1>0, <2>2 DEF WriteMark, NInv, AtWork, Writing
    <3>. QED  BY <2>1, <3>1 DEF TInv, Knowing, Writing
  <2>3. CASE WriteBlock \/ WriteFound
    <3>1. /\ pc = "called" /\ Error = 0
          /\ \E b : loc' = [loc EXCEPT !.inum = translate(call.path), !.block = b]
      BY <2>3 DEF WriteBlock, WriteFound, Starts
    <3>2. translate(call.path) \in Inodes /\ Type(translate(call.path)) = "file"
      BY <1>0, <1>1, <3>1, MayChange DEF TInv, Knowing, Defined
    <3>3. loc'.inum = translate(call.path)
      BY <1>0, <3>1 DEF TypeOK
    <3>. QED  BY <2>1, <3>2, <3>3
  <2>. QED  BY <2>2, <2>3
<1>3. Quiet
  <2>1. CASE WriteMark \/ WriteFound
    <3>1. UNCHANGED <<inode_region, blk>>
      BY <2>1 DEF WriteMark, WriteFound, image
    <3>. QED  BY <3>1, <1>0, UnchangedIsQuiet
  <2>. QED  BY <2>1, WriteBlockQuiet
<1>4. \A q \in Paths : translate(q)' = translate(q)
  BY <1>0, <1>3, QuietIsCalm, CalmWalk
<1>5. translate(call.path)' = t /\ Type(t)' = "file"
  BY <1>1, <1>2, <1>3, <1>4 DEF Quiet
<1>6. Type(loc.inum)' = "file"
  BY <1>2, <1>5
<1>7. ~call'.slash /\ call'.op \in Ops
  <2>1. pc \notin {"idle", "dead"}
    BY DEF WriteBlock, WriteMark, WriteFound, Starts
  <2>. QED  BY <1>1, <2>1 DEF TInv, Knowing
<1>. QED  BY <1>1, <1>2, <1>5, <1>6, <1>7 DEF Knowing, Creating, Removing, Writing

LEMMA RmdirMapKnows == TInv /\ Sound' /\ RmdirMap => Knowing'
<1>. SUFFICES ASSUME TInv, Sound', RmdirMap PROVE Knowing'
  OBVIOUS
<1>1. /\ pc = "called" /\ call.op = "rmdir" /\ Error = 0 /\ pc' = "rmdir" /\ call.path # <<>>
      /\ UNCHANGED <<inode_region, blk, call>>
  BY DEF RmdirMap, Starts
<1>2. Sound /\ TypeOK /\ EntriesLead /\ ~call.slash /\ call.op \in Ops
  BY <1>1 DEF TInv, Sound, NInv, Knowing
<1>3. /\ call.path \in Paths /\ translate(call.path) \in Inodes \ {0}
      /\ Type(translate(call.path)) # "file"
      /\ \A s \in 1 .. NDIRENTS : ~Entries(translate(call.path))[s].valid
  BY <1>1, <1>2, MayChange
<1>4. PICK t \in Inodes : t = translate(call.path)
  BY <1>3
<1>5. t > 0
  BY <1>3, <1>4, Ranges DEF Inodes
<1>6. Type(t) = "dir"
  BY <1>2, <1>3, <1>4, <1>5, Lookup DEF LooksUp
<1>7. \A q \in Paths : translate(q)' = translate(q)
  BY <1>1, <1>2, UnchangedIsQuiet, QuietIsCalm, CalmWalk
<1>8. translate(call.path)' = t
  BY <1>1, <1>3, <1>4, <1>7
<1>9. Type(t)' = "dir" /\ \A s \in 1 .. NDIRENTS : ~Entries(t)[s]'.valid
  BY <1>1, <1>3, <1>4, <1>6 DEF Type, Entries
<1>10. /\ translate(call.path)' > 0 /\ Type(translate(call.path))' = "dir"
       /\ \A s \in 1 .. NDIRENTS : ~Entries(translate(call.path))[s]'.valid
  BY <1>5, <1>8, <1>9
<1>11. ~call'.slash /\ call'.op \in Ops /\ call'.path # <<>> /\ call'.op = "rmdir"
  BY <1>1, <1>2
<1>. QED  BY <1>1, <1>10, <1>11 DEF Knowing, Creating, Removing, Writing

LEMMA StutterKnows == TInv /\ Sound' /\ UNCHANGED vars => Knowing'
<1>. SUFFICES ASSUME TInv, Sound', UNCHANGED vars PROVE Knowing'
  OBVIOUS
<1>1. UNCHANGED <<inode_map, inode_region, blk, pc, call, loc>> /\ UNCHANGED image
  BY DEF vars, image
<1>2. /\ Sound /\ ~call'.slash /\ (pc' \notin {"idle", "dead"} => call'.op \in Ops)
      /\ call.path \in Paths /\ TypeOK
  BY <1>1 DEF TInv, Sound, NInv, TypeOK, Knowing
<1>3. Quiet
  BY <1>1, UnchangedIsQuiet
<1>4. \A q \in Paths : translate(q)' = translate(q)
  BY <1>2, <1>3, QuietIsCalm, CalmWalk
<1>5. CASE pc \in {"idle", "return", "dead"}
  BY <1>1, <1>2, <1>5, EndKnows DEF TInv, Knowing
<1>6. CASE pc = "called"
  <2>1. /\ KernelAllows(call.op, call.path, call.dst, call.slash)
        /\ Defined(call.op, call.path, call.dst)
    BY <1>6 DEF TInv, Knowing
  <2>2. /\ translate(call.path)' = translate(call.path)
        /\ call.path # <<>> => Father' = Father
    BY <1>2, <1>4, <1>1, PathShape DEF Father
  <2>3. \A i : Type(i)' = Type(i)
    BY <1>1 DEF Type
  <2>4. KernelAllows(call.op, call.path, call.dst, call.slash)'
    BY <1>1, <2>1, <2>2 DEF KernelAllows, Type, Father
  <2>5. Defined(call.op, call.path, call.dst)'
    BY <1>1, <2>1, <2>2 DEF Defined, Type
  <2>. QED  BY <1>1, <1>2, <1>6, <2>4, <2>5 DEF Knowing, Creating, Removing, Writing
<1>7. CASE Creating
  <2>1. Standing'
    BY <1>1, <1>2, <1>3, <1>7, QuietIsCalm, CreatingStands, StillStanding
  <2>2. \A l : /\ l \in DirLinks' <=> l \in DirLinks
               /\ l \in DirLinks => Link(l)' = Link(l)
    BY <1>3, QuietLinks
  <2>3. pc' # "mkdir" => /\ loc'.inum \in inode_map' /\ loc'.inum # loc'.father
                         /\ \A l \in DirLinks' : Link(l).inode' # loc'.inum
    BY <1>1, <1>7, <2>2 DEF TInv, Knowing
  <2>4. /\ pc' = "inode" /\ loc'.inum \in Inodes => Type(loc.inum)' # "dir"
        /\ pc' # "entry" /\ call'.op = "mkdir" =>
              \A s \in 1 .. NDIRENTS : ~blk'[loc'.block].ent[s].valid
        /\ pc' = "entry" =>
              /\ Type(loc.inum)' = IF call'.op = "mkdir" THEN "dir" ELSE "file"
              /\ IF call'.op = "mkdir"
                 THEN \A s \in 1 .. NDIRENTS : ~Entries(loc.inum)[s]'.valid
                 ELSE first(loc.inum)' = 0
    BY <1>1, <1>7 DEF TInv, Knowing, Type, first, Entries
  <2>. QED  BY <1>1, <1>7, <2>1, <2>3, <2>4 DEF Knowing, Creating, Removing, Writing, Standing
<1>8. CASE Removing
  <2>1. PICK t \in Inodes : t = loc.inum
    BY <1>8, RemovedFile
  <2>2. /\ call.path \in Paths \ {<<>>} /\ t = translate(call.path) /\ Type(t) = "file"
        /\ pc # "clear" => first(t)' = 0
    BY <1>1, <1>8, <2>1, RemovedFile DEF TInv, Knowing, first
  <2>3. pc' \in {"clear", "unmap", "unlink"} /\ loc'.inum = t /\ ~call.slash /\ call.op \in Ops
    BY <1>1, <1>2, <1>8, <2>1 DEF Removing
  <2>. QED  BY <1>1, <1>2, <1>3, <2>2, <2>3, StillRemoving
<1>10. CASE Writing
  <2>1. PICK t \in Inodes : t = loc.inum
    BY <1>10 DEF TInv, Sound, NInv, AtWork
  <2>2. t = translate(call.path) /\ Type(t) = "file"
    BY <1>10, <2>1 DEF TInv, Knowing
  <2>3. translate(call.path)' = t /\ loc'.inum = t /\ Type(t)' = "file"
    BY <1>1, <1>2, <1>4, <2>1, <2>2 DEF Type
  <2>. QED  BY <1>1, <1>2, <1>10, <2>3 DEF Knowing, Creating, Removing, Writing
<1>9. CASE pc = "rmdir"
  <2>1. /\ call.op = "rmdir" /\ call.path # <<>>
        /\ translate(call.path) > 0 /\ Type(translate(call.path)) = "dir"
        /\ \A s \in 1 .. NDIRENTS : ~Entries(translate(call.path))[s].valid
    BY <1>9 DEF TInv, Knowing
  <2>2. translate(call.path)' = translate(call.path)
    BY <1>1, <1>2, <1>4
  <2>3. /\ translate(call.path)' > 0 /\ Type(translate(call.path))' = "dir"
        /\ \A s \in 1 .. NDIRENTS : ~Entries(translate(call.path))[s]'.valid
    BY <1>1, <2>1, <2>2 DEF Type, Entries
  <2>. QED  BY <1>1, <1>2, <1>9, <2>1, <2>3 DEF Knowing, Creating, Removing, Writing
<1>11. CASE pc = "overrun"
  BY <1>1, <1>2, <1>11 DEF Knowing, Creating, Removing, Writing
<1>. QED  BY <1>2, <1>5, <1>6, <1>7, <1>8, <1>9, <1>10, <1>11 DEF TypeOK, Creating, Removing, Writing

LEMMA TreeStep == TInv /\ [Next]_vars /\ InPlace' /\ Frontend = "fuse" => TInv'
<1>. SUFFICES ASSUME TInv, [Next]_vars, InPlace', Frontend = "fuse" PROVE Knowing'
  BY SoundStep DEF TInv
<1>1. Sound'
  BY SoundStep
<1>2. CASE \E op, p, d, slash, w : Called(op, p, d, slash, w)
  BY <1>1, <1>2, CallKnows
<1>. QED  BY <1>1, <1>2, StepKinds, StutterKnows, EndingSteps, MknodStartKnows, MkdirBlockKnows,
             MkdirInodeKnows, CreateInodeKnows, TruncateFreeKnows, UnlinkKnows, WriteKnows,
             RmdirMapKnows
             DEF QuietStep, WriteStep

\* A crash, but for the one in an fs_truncate, fs_unlink or fs_write.
LEMMA TreeCrash ==
    TInv /\ Crash /\ Ops \cap {"truncate", "unlink", "write"} = {} => TInv'
<1>. SUFFICES ASSUME TInv, Crash, Ops \cap {"truncate", "unlink", "write"} = {} PROVE TInv'
  OBVIOUS
<1>1. NInv' /\ Knowing' /\ Sound
  BY CrashKeeps, EndingSteps DEF TInv, Sound
<1>2. UNCHANGED image /\ pc # "unlink"
  <2>1. call.op \in Ops \cup {"none"}
    BY DEF TInv, Sound, NInv, TypeOK
  <2>. QED  BY <2>1 DEF Crash, TInv, Sound, NInv, AtWork, Removing
<1>3. Forest' /\ Marked'
  BY <1>1, <1>2, UnchangedIsQuiet, QuietForest DEF image
<1>. QED  BY <1>1, <1>3 DEF TInv, Sound

LEMMA InitTree == Init => TInv
<1>. SUFFICES ASSUME Init PROVE TInv
  OBVIOUS
<1>0. Init => NInv
  BY InitKeeps
<1>1. NInv
  BY <1>0
<1>2. \A i \in Inodes : Type(i) = IF i = 1 THEN "dir" ELSE "none"
  BY DEF Init, Type
<1>3. /\ 1 \in Inodes /\ inode_map = {0, 1}
  BY Ranges DEF Init, Inodes
<1>4. Marked
  BY <1>2, <1>3 DEF Marked
<1>5. DirLinks = {}
  <2>. SUFFICES ASSUME NEW l \in DirLinks PROVE FALSE
    OBVIOUS
  <2>1. l[1] \in Inodes /\ l[2] \in 1 .. NDIRENTS /\ Entries(l[1])[l[2]].valid
    BY DEF DirLinks
  <2>2. /\ Entries(l[1])[l[2]] = blk[first(l[1])].ent[l[2]] /\ first(l[1]) \in Blocks
    BY <1>1, <2>1, EntryType DEF NInv
  <2>3. blk[first(l[1])] = ZeroBlock
    BY <2>2 DEF Init
  <2>4. ZeroBlock.ent[l[2]] = NoEntry /\ ~NoEntry.valid
    BY <2>1 DEF ZeroBlock, NoEntry
  <2>. QED  BY <2>1, <2>2, <2>3, <2>4
<1>6. Forest
  BY <1>5 DEF Forest
<1>7. Knowing
  BY DEF Init, NoCall, Knowing, Creating, Removing, Writing
<1>. QED  BY <1>1, <1>4, <1>6, <1>7 DEF TInv, Sound

\* The invariant holds for as long as nothing has been written out of its place.
LEMMA TreeToTheEnd ==
    (InPlace => TInv) /\ [Next]_vars /\ Frontend = "fuse" => (InPlace' => TInv')
<1>. SUFFICES ASSUME InPlace => TInv, [Next]_vars, Frontend = "fuse", InPlace' PROVE TInv'
  OBVIOUS
<1>1. InPlace
  BY OverrunEnds DEF vars, InPlace
<1>. QED  BY <1>1, TreeStep

\* When the kernel makes the calls the image is a tree at every step: an entry
\* leads to a marked inode of its type that no other entry leads to.
THEOREM ImageIsTree == Frontend = "fuse" => (Spec => []IsTree)
<1>. SUFFICES ASSUME Frontend = "fuse" PROVE Spec => []IsTree
  OBVIOUS
<1>1. (InPlace => TInv) /\ [Next]_vars => (InPlace' => TInv')
  BY TreeToTheEnd
<1>2. (InPlace => TInv) => IsTree
  BY SoundIsTree DEF TInv, IsTree
<1>. QED  BY <1>1, <1>2, InitTree, PTL DEF Spec

\* And after a crash of any handler but the one that frees an inode before its
\* entry is gone, and those that change a block's bit and the pointer to it in the
\* wrong order: what takes the block then may be a directory.
THEOREM CrashLeavesTree ==
    Frontend = "fuse" /\ Ops \cap {"truncate", "unlink", "write"} = {} =>
        (CrashSpec => []IsTree)
<1>. SUFFICES ASSUME Frontend = "fuse", Ops \cap {"truncate", "unlink", "write"} = {}
              PROVE  CrashSpec => []IsTree
  OBVIOUS
<1>1. (InPlace => TInv) /\ [Next \/ Crash]_vars => (InPlace' => TInv')
  <2>. SUFFICES ASSUME InPlace => TInv, [Next \/ Crash]_vars, InPlace' PROVE TInv'
    OBVIOUS
  <2>1. InPlace
    BY OverrunEnds DEF vars, InPlace
  <2>. QED  BY <2>1, TreeStep, TreeCrash
<1>2. (InPlace => TInv) => IsTree
  BY SoundIsTree DEF TInv, IsTree
<1>. QED  BY <1>1, <1>2, InitTree, PTL DEF CrashSpec

\* fs_readdir and translate agree on what a directory has in it.
THEOREM ListingAgrees == Frontend = "fuse" => (Spec => []ListedIsFound)
<1>. SUFFICES ASSUME Frontend = "fuse" PROVE Spec => []ListedIsFound
  OBVIOUS
<1>1. (InPlace => TInv) /\ [Next]_vars => (InPlace' => TInv')
  BY TreeToTheEnd
<1>2. (InPlace => TInv) => ListedIsFound
  BY SoundListing DEF TInv, ListedIsFound
<1>. QED  BY <1>1, <1>2, InitTree, PTL DEF Spec

=============================================================================
