------------------------ MODULE TreeRefinementProofs ------------------------
(***************************************************************************)
(* Proofs about Namespace as the kernel calls it, from where paths lead    *)
(* after each step: the handlers implement Tree, and none but fs_rmdir     *)
(* loses an inode.                                                         *)
(*                                                                         *)
(* TInv, the invariant of TreeProofs, says enough of the image.  Tree has  *)
(* no path longer than MaxDepth, so RInv adds that a directory at that     *)
(* depth is empty (Shallow); InHand adds what a handler has in hand.       *)
(***************************************************************************)
EXTENDS TreeProofs, SequenceTheorems

(***************************************************************************)
(* The tree that is seen.                                                  *)
(***************************************************************************)
\* What is seen of an inode.
Seen(i) == [kind |-> Type(i),
            word |-> IF Type(i) = "file" /\ first(i) # 0 THEN blk[first(i)].word ELSE 0]
Absent == [kind |-> "none", word |-> 0]
At(p) == IF translate(p) > 0 THEN Seen(translate(p)) ELSE Absent

LEMMA TreeShows ==
    Sound => /\ tree = [p \in Paths |-> At(p)]
             /\ \A p \in Paths : tree[p] = At(p) /\ (Abstract!Exists(p) <=> translate(p) > 0)
<1>. SUFFICES ASSUME Sound
              PROVE  /\ tree = [p \in Paths |-> At(p)]
                     /\ \A p \in Paths : tree[p] = At(p) /\ (Abstract!Exists(p) <=> translate(p) > 0)
  OBVIOUS
<1>1. \A p \in Paths : /\ translate(p) \in Answers
                       /\ translate(p) > 0 => Type(translate(p)) \in {"dir", "file"}
  BY Lookup DEF LooksUp
<1>2. \A i \in Answers : i < 0 <=> ~(i > 0)
  BY Ranges DEF Answers, Inodes, ENOENT, ENOTDIR
<1>3. ASSUME NEW p \in Paths
      PROVE  (LET i == translate(p)
              IN  IF i < 0 THEN [kind |-> "none", word |-> 0]
                  ELSE [kind |-> Type(i),
                        word |-> IF Type(i) = "file" /\ inode_region[i].direct0 # 0
                                 THEN blk[inode_region[i].direct0].word ELSE 0]) = At(p)
  <2>. DEFINE i == translate(p)
  <2>1. i < 0 <=> ~(i > 0)
    BY <1>1, <1>2
  <2>. HIDE DEF i
  <2>2. CASE i < 0
    BY <2>1, <2>2 DEF At, Absent, i
  <2>3. CASE ~(i < 0)
    BY <2>1, <2>3 DEF At, Seen, first, i
  <2>. QED  BY <2>2, <2>3
<1>4. tree = [p \in Paths |-> At(p)]
  BY <1>3 DEF tree
<1>5. ASSUME NEW p \in Paths
      PROVE  Abstract!Exists(p) <=> translate(p) > 0
  <2>1. tree[p] = At(p)
    BY <1>4
  <2>2. CASE translate(p) > 0
    BY <1>1, <2>1, <2>2 DEF At, Seen, Abstract!Exists
  <2>3. CASE ~(translate(p) > 0)
    BY <2>1, <2>3 DEF At, Absent, Abstract!Exists
  <2>. QED  BY <2>2, <2>3
<1>. QED  BY <1>4, <1>5

\* What is at a path is what its inode shows.
LEMMA Shows ==
    Sound => \A p \in Paths :
       /\ tree[p].kind = "dir" <=> translate(p) > 0 /\ Type(translate(p)) = "dir"
       /\ tree[p].kind = "file" <=> translate(p) > 0 /\ Type(translate(p)) = "file"
<1>. SUFFICES ASSUME Sound, NEW p \in Paths
              PROVE  /\ tree[p].kind = "dir" <=> translate(p) > 0 /\ Type(translate(p)) = "dir"
                     /\ tree[p].kind = "file" <=> translate(p) > 0 /\ Type(translate(p)) = "file"
  OBVIOUS
<1>1. tree[p] = At(p)
  BY TreeShows
<1>2. CASE translate(p) > 0
  BY <1>1, <1>2 DEF At, Seen
<1>3. CASE ~(translate(p) > 0)
  BY <1>1, <1>3 DEF At, Absent
<1>. QED  BY <1>2, <1>3

-----------------------------------------------------------------------------
(***************************************************************************)
(* Where paths lead after a step that changes a directory.                 *)
(***************************************************************************)
\* The paths that lead nowhere.
Strays ==
    \A q \in Paths \ {<<>>} :
        /\ ~(translate(trancate_path(q)) > 0) => ~(translate(q) > 0)
        /\ \A f \in Inodes : /\ f = translate(trancate_path(q))
                             /\ Type(f) # "dir" \/ Named(f, q[Len(q)]) = {}
                             => ~(translate(q) > 0)

LEMMA Astray == Sound => Strays
<1>. SUFFICES ASSUME Sound PROVE Strays
  OBVIOUS
<1>. SUFFICES ASSUME NEW q \in Paths \ {<<>>}
              PROVE  /\ ~(translate(trancate_path(q)) > 0) => ~(translate(q) > 0)
                     /\ \A f \in Inodes : /\ f = translate(trancate_path(q))
                                          /\ Type(f) # "dir" \/ Named(f, q[Len(q)]) = {}
                                          => ~(translate(q) > 0)
  BY DEF Strays
<1>1. CASE translate(q) > 0
  BY <1>1, FoundLink
<1>2. CASE ~(translate(q) > 0)
  BY <1>2
<1>. QED  BY <1>1, <1>2

\* What name m is of directory f after a step, name n was before.
Alike(f, n, m) ==
    /\ Type(f)' = Type(f)
    /\ Type(f) = "dir" =>
          /\ Named(f, m)' = Named(f, n)
          /\ \A s \in Named(f, n) : Entries(f)[s]'.inode = Entries(f)[s].inode

\* Path r leads after a step where q led before, or as q nowhere.
Leads(q, r) ==
    /\ translate(q) > 0 => translate(r)' = translate(q)
    /\ ~(translate(q) > 0) => ~(translate(r)' > 0)

LEMMA LeadsOn ==
    ASSUME Sound, Sound', NEW q \in Paths \ {<<>>}, NEW r \in Paths \ {<<>>},
           Leads(trancate_path(q), trancate_path(r)),
           \A g \in Inodes : g > 0 /\ g = translate(trancate_path(q)) =>
                Alike(g, q[Len(q)], r[Len(r)])
    PROVE  Leads(q, r)
<1>0. LooksUp /\ LooksUp' /\ Strays /\ Strays'
  BY Lookup, Astray, PTL
<1>1. CASE ~(translate(trancate_path(q)) > 0)
  <2>1. ~(translate(trancate_path(r))' > 0)
    BY <1>1 DEF Leads
  <2>2. ~(translate(q) > 0)
    BY <1>0, <1>1 DEF Strays
  <2>3. ~(translate(r)' > 0)
    BY <1>0, <2>1 DEF Strays
  <2>. QED  BY <2>2, <2>3 DEF Leads
<1>2. CASE translate(trancate_path(q)) > 0
  <2>. DEFINE n == q[Len(q)]
              m == r[Len(r)]
  <2>1. PICK f \in Inodes : f = translate(trancate_path(q)) /\ f > 0
    BY <1>0, <1>2 DEF LooksUp
  <2>2. f = translate(trancate_path(r))' /\ Alike(f, n, m)
    BY <1>2, <2>1 DEF Leads
  <2>3. /\ Type(f) \in {"dir", "file"}
        /\ Type(f) = "file" => translate(q) = ENOTDIR
        /\ Type(f) = "dir" =>
              /\ Named(f, n) = {} => translate(q) = ENOENT
              /\ \A s \in Named(f, n) : translate(q) = Entries(f)[s].inode
    BY <1>0, <2>1 DEF LooksUp
  <2>4. /\ Type(f)' = "file" => translate(r)' = ENOTDIR
        /\ Type(f)' = "dir" =>
              /\ Named(f, m)' = {} => translate(r)' = ENOENT
              /\ \A s \in Named(f, m)' : translate(r)' = Entries(f)[s]'.inode
    BY <1>0, <2>1, <2>2 DEF LooksUp
  <2>5. translate(r)' = translate(q)
    BY <2>2, <2>3, <2>4 DEF Alike
  <2>. QED  BY <2>5 DEF Leads
<1>. QED  BY <1>1, <1>2

\* After CreateEntry: the new path leads to the new inode, all others where they
\* did.
LEMMA EntryPaths ==
    TInv /\ Sound' /\ CreateEntry =>
      /\ call.path \in Paths \ {<<>>} /\ ~(translate(call.path) > 0)
      /\ loc.inum \in Inodes /\ translate(call.path)' = loc.inum
      /\ \A q \in Paths \ {call.path} : Leads(q, q)
<1>. SUFFICES ASSUME TInv, Sound', CreateEntry
              PROVE
      /\ call.path \in Paths \ {<<>>} /\ ~(translate(call.path) > 0)
      /\ loc.inum \in Inodes /\ translate(call.path)' = loc.inum
      /\ \A q \in Paths \ {call.path} : Leads(q, q)
  OBVIOUS
<1>0. Sound /\ LooksUp /\ LooksUp' /\ Strays /\ Strays'
  <2>1. Sound
    BY DEF TInv
  <2>. QED  BY <2>1, Lookup, Astray, PTL
<1>1. /\ inode_region' = inode_region
      /\ loc.father \in Inodes /\ Type(loc.father) = "dir" /\ loc.father = Father
      /\ loc.slot \in 1 .. NDIRENTS /\ ~Entries(loc.father)[loc.slot].valid
      /\ Last \in Names
      /\ \A e \in Inodes, s \in 1 .. NDIRENTS : Type(e) = "dir" =>
            Entries(e)[s]' = IF e = loc.father /\ s = loc.slot THEN NewEntry ELSE Entries(e)[s]
  BY AfterEntry
<1>2. /\ call' = call /\ pc = "entry" /\ Creating
      /\ call.path \in Paths \ {<<>>} /\ loc.inum \in Inodes \ {0, 1}
  BY DEF CreateEntry, Answer, Creating, TInv, Sound, NInv, TypeOK, AtWork
<1>3. /\ Named(loc.father, Last) = {} /\ loc.inum # loc.father
      /\ Type(loc.inum) = IF call.op = "mkdir" THEN "dir" ELSE "file"
      /\ call.op = "mkdir" => \A s \in 1 .. NDIRENTS : ~Entries(loc.inum)[s].valid
      /\ \A l \in DirLinks : Link(l).inode # loc.inum
  BY <1>1, <1>2 DEF TInv, Knowing
<1>4. PICK p \in Paths \ {<<>>}, i \in Inodes \ {0, 1}, f \in Inodes, n \in Names, k \in 1 .. NDIRENTS :
         p = call.path /\ i = loc.inum /\ f = loc.father /\ n = Last /\ k = loc.slot
  BY <1>1, <1>2
<1>5. trancate_path(p) \in Paths /\ f = translate(trancate_path(p)) /\ n = p[Len(p)]
  BY <1>1, <1>4, PathShape DEF Father, Last
<1>6. f > 0 /\ f \in Inodes \ {0}
  BY <1>0, <1>4, <1>5, Ranges DEF LooksUp, Answers, Inodes, ENOENT, ENOTDIR
<1>7. NewEntry.valid /\ NewEntry.inode = i /\ NewEntry.name = n
  BY <1>4 DEF NewEntry
<1>8. \A j \in Inodes : Type(j)' = Type(j)
  BY <1>1 DEF Type
<1>9. /\ Type(f) = "dir" /\ Named(f, n) = {} /\ ~Entries(f)[k].valid
      /\ \A e \in Inodes, s \in 1 .. NDIRENTS : Type(e) = "dir" =>
            Entries(e)[s]' = IF e = f /\ s = k THEN NewEntry ELSE Entries(e)[s]
  BY <1>1, <1>3, <1>4
<1>10. ~(translate(p) > 0)
  BY <1>0, <1>5, <1>9 DEF Strays
<1>11. k \in Named(f, n)' /\ Entries(f)[k]'.inode = i
  <2>1. Entries(f)[k]' = NewEntry
    BY <1>9
  <2>. QED  BY <1>7, <2>1 DEF Named
<1>12. \A e \in Inodes, m \in Names : Type(e) = "dir" /\ (e # f \/ m # n) => Alike(e, m, m)
  <2>. SUFFICES ASSUME NEW e \in Inodes, NEW m \in Names, Type(e) = "dir", e # f \/ m # n
                PROVE  Alike(e, m, m)
    OBVIOUS
  <2>1. \A s \in 1 .. NDIRENTS : (s \in Named(e, m)' <=> s \in Named(e, m))
    BY <1>7, <1>9 DEF Named
  <2>2. Named(e, m)' = Named(e, m)
    BY <2>1 DEF Named
  <2>3. \A s \in Named(e, m) : Entries(e)[s]' = Entries(e)[s]
    BY <1>9 DEF Named
  <2>. QED  BY <1>8, <2>2, <2>3 DEF Alike
<1>13. Type(i) # "dir" \/ \A m \in Names : Named(i, m)' = {}
  <2>. SUFFICES ASSUME Type(i) = "dir", NEW m \in Names PROVE Named(i, m)' = {}
    OBVIOUS
  <2>1. \A s \in 1 .. NDIRENTS : ~Entries(i)[s].valid /\ i # f
    BY <1>3, <1>4
  <2>2. \A s \in 1 .. NDIRENTS : Entries(i)[s]' = Entries(i)[s]
    BY <1>9, <2>1
  <2>. QED  BY <2>1, <2>2 DEF Named
<1>14. \A q \in Paths : translate(q) # i
  <2>. SUFFICES ASSUME NEW q \in Paths, translate(q) = i PROVE FALSE
    OBVIOUS
  <2>1. q # <<>> /\ i > 0
    BY <1>0, Ranges DEF LooksUp, Inodes
  <2>2. PICK g \in Inodes \ {0}, s \in 1 .. NDIRENTS :
           <<g, s>> \in DirLinks /\ Entries(g)[s].inode = i
    BY <1>0, <2>1, FoundLink DEF Named
  <2>. QED  BY <1>3, <1>4, <2>2 DEF Link
<1>. DEFINE Good(q) == IF q = p THEN translate(q)' = i ELSE Leads(q, q)
            S == {q \in Paths : Good(q)}
<1>15. <<>> \in S
  BY <1>0 DEF LooksUp, Leads
<1>16. ASSUME NEW q \in Paths, q # <<>>, trancate_path(q) \in S
       PROVE  q \in S
  <2>. DEFINE m == q[Len(q)]
  <2>1. /\ trancate_path(q) \in Paths /\ m \in Names /\ q \in Paths \ {<<>>}
        /\ Good(trancate_path(q))
    BY <1>16, PathShape
  <2>2. CASE q = p
    <3>1. trancate_path(q) # p
      BY <1>5, <1>6, <1>10, <2>2
    <3>2. translate(trancate_path(q))' = f
      BY <1>5, <1>6, <2>1, <2>2, <3>1 DEF Leads
    <3>3. Type(f)' = "dir"
      BY <1>8, <1>9
    <3>4. \A s \in Named(f, m)' : translate(q)' = Entries(f)[s]'.inode
      BY <1>0, <1>6, <2>1, <3>2, <3>3 DEF LooksUp
    <3>. QED  BY <1>5, <1>11, <2>2, <3>4
  <2>3. CASE q # p /\ trancate_path(q) = p
    <3>1. translate(trancate_path(q))' = i /\ ~(translate(trancate_path(q)) > 0)
      BY <1>10, <2>1, <2>3
    <3>2. ~(translate(q) > 0)
      BY <1>0, <2>1, <3>1 DEF Strays
    <3>3. ~(translate(q)' > 0)
      BY <1>0, <1>8, <1>13, <2>1, <3>1 DEF Strays
    <3>. QED  BY <2>3, <3>2, <3>3 DEF Leads
  <2>4. CASE q # p /\ trancate_path(q) # p
    <3>1. ASSUME NEW g \in Inodes, g > 0, g = translate(trancate_path(q))
          PROVE  Alike(g, m, m)
      <4>1. g # f \/ m # n
        <5>. SUFFICES ASSUME g = f, m = n PROVE FALSE
          OBVIOUS
        <5>1. trancate_path(q) = trancate_path(p)
          BY <1>0, <1>5, <2>1, <3>1, PathsApart
        <5>. QED  BY <1>5, <2>1, <2>4, <5>1, SamePath
      <4>. QED  BY <1>8, <1>12, <2>1, <4>1 DEF Alike
    <3>2. Leads(trancate_path(q), trancate_path(q))
      BY <2>1, <2>4
    <3>3. Leads(q, q)
      <4>. HIDE DEF m
      <4>. QED  BY <1>0, <2>1, <3>1, <3>2, LeadsOn DEF m
    <3>. QED  BY <2>4, <3>3
  <2>. QED  BY <2>2, <2>3, <2>4
<1>. HIDE DEF S
<1>17. Paths \subseteq S
  BY <1>15, <1>16, PathInduction
<1>18. translate(call.path)' = translate(p)'
  BY <1>2, <1>4
<1>. QED  BY <1>4, <1>10, <1>17, <1>18 DEF S

-----------------------------------------------------------------------------
(***************************************************************************)
(* Looking up in the tree, and looking up in the image.                    *)
(***************************************************************************)
\* The beginnings of a path are paths, and those of its father's.
LEMMA Beginnings ==
    ASSUME NEW p \in Paths \ {<<>>}
    PROVE  /\ SubSeq(p, 1, Len(p) - 1) = trancate_path(p)
           /\ Len(p) - 1 \in Nat
           /\ \A n \in 1 .. Len(p) - 1 :
                 /\ SubSeq(p, 1, n) \in Paths
                 /\ n <= Len(p) - 2 => SubSeq(p, 1, n) = SubSeq(trancate_path(p), 1, n)
<1>1. /\ Len(p) \in Nat \ {0} /\ Len(p) \in 0 .. MaxDepth /\ MaxDepth \in Nat
      /\ p \in [1 .. Len(p) -> Names] /\ p \in Seq(Names)
      /\ trancate_path(p) \in [1 .. Len(p) - 1 -> Names] /\ trancate_path(p) \in Seq(Names)
      /\ Len(trancate_path(p)) = Len(p) - 1
      /\ \A i \in 1 .. Len(p) - 1 : trancate_path(p)[i] = p[i]
  <2>1. Len(p) \in 0 .. MaxDepth /\ MaxDepth \in Nat /\ Len(p) # 0
    BY PathShape, Ranges
  <2>2. Len(p) \in Nat \ {0} /\ Len(p) - 1 \in Nat
    BY <2>1
  <2>3. p \in [1 .. Len(p) -> Names]
    BY PathShape
  <2>4. /\ trancate_path(p) \in Paths /\ Len(trancate_path(p)) = Len(p) - 1
        /\ \A i \in 1 .. Len(p) - 1 : trancate_path(p)[i] = p[i]
    BY PathShape
  <2>5. trancate_path(p) \in [1 .. Len(p) - 1 -> Names]
    BY <2>4, PathShape
  <2>6. p \in Seq(Names) /\ trancate_path(p) \in Seq(Names)
    BY <2>2, <2>3, <2>5
  <2>. QED  BY <2>1, <2>2, <2>3, <2>4, <2>5, <2>6
<1>2. ASSUME NEW n \in 1 .. Len(p) - 1
      PROVE  /\ SubSeq(p, 1, n) \in Paths
             /\ n <= Len(p) - 2 => SubSeq(p, 1, n) = SubSeq(trancate_path(p), 1, n)
  <2>1. /\ n \in 0 .. MaxDepth /\ SubSeq(p, 1, n) = [i \in 1 .. n |-> p[i]]
        /\ SubSeq(trancate_path(p), 1, n) = [i \in 1 .. n |-> trancate_path(p)[i]]
    BY <1>1
  <2>2. SubSeq(p, 1, n) \in [1 .. n -> Names]
    <3>1. \A i \in 1 .. n : p[i] \in Names
      BY <1>1
    <3>. QED  BY <2>1, <3>1
  <2>3. SubSeq(p, 1, n) = SubSeq(trancate_path(p), 1, n)
    BY <1>1, <2>1
  <2>. QED  BY <2>1, <2>2, <2>3 DEF Paths
<1>. QED  BY <1>1, <1>2 DEF trancate_path

\* A path goes through a file if and only if translate says so.
Through(p) == \E n \in 1 .. Len(p) - 1 : tree[SubSeq(p, 1, n)].kind = "file"

LEMMA ThroughFather ==
    ASSUME NEW p \in Paths \ {<<>>}
    PROVE  Through(p) <=> \/ Through(trancate_path(p))
                          \/ trancate_path(p) # <<>> /\ tree[trancate_path(p)].kind = "file"
<1>. DEFINE r == trancate_path(p)
<1>1. /\ Len(p) \in Nat /\ Len(p) - 1 \in Nat /\ Len(r) = Len(p) - 1 /\ (r = <<>> <=> Len(r) = 0)
      /\ SubSeq(p, 1, Len(p) - 1) = r
      /\ \A n \in 1 .. Len(p) - 2 : SubSeq(p, 1, n) = SubSeq(r, 1, n)
  BY PathShape, Beginnings
<1>. HIDE DEF r
<1>2. ASSUME NEW n \in 1 .. Len(p) - 1, tree[SubSeq(p, 1, n)].kind = "file"
      PROVE  Through(r) \/ (r # <<>> /\ tree[r].kind = "file")
  <2>1. CASE n = Len(p) - 1
    <3>1. SubSeq(p, 1, n) = r /\ Len(r) # 0
      BY <1>1, <2>1
    <3>. QED  BY <1>1, <1>2, <3>1
  <2>2. CASE n # Len(p) - 1
    <3>1. n \in 1 .. Len(p) - 2 /\ n \in 1 .. Len(r) - 1
      BY <1>1, <2>2
    <3>. QED  BY <1>1, <1>2, <3>1 DEF Through
  <2>. QED  BY <2>1, <2>2
<1>3. ASSUME NEW n \in 1 .. Len(r) - 1, tree[SubSeq(r, 1, n)].kind = "file"
      PROVE  Through(p)
  <2>1. n \in 1 .. Len(p) - 2 /\ n \in 1 .. Len(p) - 1
    BY <1>1
  <2>. QED  BY <1>1, <1>3, <2>1 DEF Through
<1>4. ASSUME r # <<>>, tree[r].kind = "file"
      PROVE  Through(p)
  <2>1. Len(p) - 1 \in 1 .. Len(p) - 1
    BY <1>1, <1>4
  <2>. QED  BY <1>1, <1>4, <2>1 DEF Through
<1>. QED  BY <1>2, <1>3, <1>4 DEF Through, r

LEMMA FileAbove == Sound => \A p \in Paths : Through(p) <=> translate(p) = ENOTDIR
<1>. SUFFICES ASSUME Sound PROVE \A p \in Paths : Through(p) <=> translate(p) = ENOTDIR
  OBVIOUS
<1>. DEFINE S == {p \in Paths : Through(p) <=> translate(p) = ENOTDIR}
<1>0. LooksUp
  BY Lookup
<1>1. <<>> \in S
  <2>1. translate(<<>>) # ENOTDIR /\ <<>> \in Paths
    BY <1>0 DEF LooksUp, ENOTDIR
  <2>2. ~Through(<<>>)
    BY DEF Through
  <2>. QED  BY <2>1, <2>2
<1>2. ASSUME NEW p \in Paths, p # <<>>, trancate_path(p) \in S
      PROVE  p \in S
  <2>. DEFINE r == trancate_path(p)
              f == translate(r)
  <2>1. /\ p \in Paths \ {<<>>} /\ r \in Paths
        /\ Through(r) <=> f = ENOTDIR
        /\ Through(p) <=> Through(r) \/ (r # <<>> /\ tree[r].kind = "file")
    BY <1>2, PathShape, ThroughFather
  <2>2. tree[r].kind = "file" <=> f > 0 /\ Type(f) = "file"
    BY <2>1, Shows
  <2>3. /\ f \in Answers
        /\ f < 0 => translate(p) = f
        /\ f > 0 => f \in Inodes \ {0} /\ Type(f) \in {"dir", "file"}
        /\ f > 0 /\ Type(f) = "file" => translate(p) = ENOTDIR
    BY <1>0, <2>1 DEF LooksUp
  <2>4. r = <<>> => f = 1 /\ Type(f) = "dir"
    BY <1>0 DEF LooksUp, Sound, Marked
  <2>5. f > 0 /\ Type(f) = "dir" => translate(p) # ENOTDIR
    <3>. SUFFICES ASSUME f > 0, Type(f) = "dir" PROVE translate(p) # ENOTDIR
      OBVIOUS
    <3>. DEFINE n == p[Len(p)]
    <3>1. /\ Named(f, n) = {} => translate(p) = ENOENT
          /\ \A s \in Named(f, n) : translate(p) = Entries(f)[s].inode
      BY <1>0, <2>1 DEF LooksUp
    <3>. HIDE DEF f, n
    <3>2. ASSUME NEW s \in Named(f, n)
          PROVE  translate(p) # ENOTDIR
      <4>1. <<f, s>> \in DirLinks /\ Link(<<f, s>>) = Entries(f)[s]
        BY <2>3, <3>2 DEF DirLinks, Named, Link
      <4>2. Entries(f)[s].inode \in Inodes
        BY <4>1, LinkLeads
      <4>. QED  BY <3>1, <3>2, <4>2, Ranges DEF Inodes, ENOTDIR
    <3>. QED  BY <3>1, <3>2 DEF ENOENT, ENOTDIR
  <2>. HIDE DEF f, r
  <2>6. CASE f < 0
    BY <2>1, <2>2, <2>3, <2>6
  <2>7. CASE f > 0
    <3>1. f # ENOTDIR
      BY <2>7 DEF ENOTDIR
    <3>. QED  BY <2>1, <2>2, <2>3, <2>4, <2>5, <2>7, <3>1
  <2>. QED  BY <2>3, <2>6, <2>7, Ranges DEF Answers, Inodes, ENOENT, ENOTDIR
<1>. HIDE DEF S
<1>3. Paths \subseteq S
  BY <1>1, <1>2, PathInduction
<1>. QED  BY <1>3 DEF S

\* So the errors of a look-up are the tree's.
LEMMA MissingIs ==
    Sound => \A p \in Paths : ~(translate(p) > 0) => Abstract!Missing(p) = translate(p)
<1>. SUFFICES ASSUME Sound, NEW p \in Paths, ~(translate(p) > 0)
              PROVE  Abstract!Missing(p) = translate(p)
  OBVIOUS
<1>1. translate(p) \in {ENOENT, ENOTDIR}
  <2>1. translate(p) \in Answers
    BY Lookup DEF LooksUp
  <2>. QED  BY <2>1, Ranges DEF Answers, Inodes
<1>2. Through(p) <=> translate(p) = ENOTDIR
  BY FileAbove
<1>. QED  BY <1>1, <1>2 DEF Abstract!Missing, Through, ENOENT, ENOTDIR

\* The paths of Tree are those of Namespace, and it takes them apart alike.
LEMMA SamePaths ==
    /\ Abstract!Paths = Paths
    /\ \A p : Abstract!Father(p) = trancate_path(p)
BY DEF Abstract!Paths, Paths, Abstract!Father, trancate_path

\* What is in a directory is what its entries lead to.
LEMMA ChildrenAre ==
    ASSUME Sound, NEW p \in Paths, NEW d \in Inodes, d = translate(p), d > 0, Type(d) = "dir"
    PROVE  /\ \A q : q \in Abstract!Children(p) <=>
                        /\ q \in Paths \ {<<>>} /\ trancate_path(q) = p
                        /\ Named(d, q[Len(q)]) # {}
           /\ \A s \in 1 .. NDIRENTS :
                 Entries(d)[s].valid /\ Len(p) < MaxDepth =>
                    Append(p, Entries(d)[s].name) \in Abstract!Children(p)
<1>0. LooksUp
  BY Lookup
<1>1. ASSUME NEW q
      PROVE  q \in Abstract!Children(p) <=>
                /\ q \in Paths \ {<<>>} /\ trancate_path(q) = p
                /\ Named(d, q[Len(q)]) # {}
  <2>1. q \in Abstract!Children(p) <=>
           /\ q \in Paths \ {<<>>} /\ trancate_path(q) = p
           /\ translate(q) > 0
    BY SamePaths, TreeShows DEF Abstract!Children
  <2>2. ASSUME q \in Paths \ {<<>>}, trancate_path(q) = p
        PROVE  translate(q) > 0 <=> Named(d, q[Len(q)]) # {}
    <3>1. /\ Named(d, q[Len(q)]) = {} => translate(q) = ENOENT
          /\ \A s \in Named(d, q[Len(q)]) : translate(q) = Entries(d)[s].inode
      BY <1>0, <2>2 DEF LooksUp
    <3>2. ASSUME NEW s \in Named(d, q[Len(q)]) PROVE translate(q) > 0
      <4>1. <<d, s>> \in DirLinks /\ Link(<<d, s>>) = Entries(d)[s]
        BY DEF DirLinks, Named, Link
      <4>2. Entries(d)[s].inode \in Inodes \ {0, 1}
        BY <4>1, LinkLeads
      <4>. QED  BY <3>1, <4>2, Ranges DEF Inodes
    <3>. QED  BY <3>1, <3>2 DEF ENOENT
  <2>. QED  BY <2>1, <2>2
<1>2. ASSUME NEW s \in 1 .. NDIRENTS, Entries(d)[s].valid, Len(p) < MaxDepth
      PROVE  Append(p, Entries(d)[s].name) \in Abstract!Children(p)
  <2>. DEFINE n == Entries(d)[s].name
              q == Append(p, n)
  <2>1. <<d, s>> \in DirLinks /\ Link(<<d, s>>) = Entries(d)[s]
    BY <1>2 DEF DirLinks, Link
  <2>2. n \in Names
    BY <2>1, LinkLeads
  <2>3. s \in Named(d, n)
    BY <1>2 DEF Named
  <2>4. q \in Paths \ {<<>>} /\ trancate_path(q) = p /\ q[Len(q)] = n
    BY <1>2, <2>2, Appended
  <2>. HIDE DEF n, q
  <2>5. q \in Abstract!Children(p)
    BY <1>1, <2>3, <2>4
  <2>. QED  BY <2>5 DEF q, n
<1>. QED  BY <1>1, <1>2

\* A directory with a free entry has fewer children than it can have.
LEMMA FewChildren ==
    ASSUME Sound, NEW p \in Paths, NEW d \in Inodes, d = translate(p), d > 0, Type(d) = "dir",
           NEW k \in 1 .. NDIRENTS, ~Entries(d)[k].valid
    PROVE  Cardinality(Abstract!Children(p)) < NDIRENTS
<1>. DEFINE C == Abstract!Children(p)
            D == 1 .. NDIRENTS
            h == [q \in C |-> CHOOSE s \in D : s \in Named(d, q[Len(q)])]
<1>1. \A q \in C : /\ q \in Paths \ {<<>>} /\ trancate_path(q) = p
                   /\ Named(d, q[Len(q)]) # {}
  BY ChildrenAre
<1>. HIDE DEF C
<1>2. \A q \in C : h[q] \in D /\ h[q] \in Named(d, q[Len(q)])
  BY <1>1 DEF Named
<1>3. h \in [C -> D]
  BY <1>2
<1>. HIDE DEF h
<1>4. \A q, r \in C : h[q] = h[r] => q = r
  <2>. SUFFICES ASSUME NEW q \in C, NEW r \in C, h[q] = h[r] PROVE q = r
    OBVIOUS
  <2>1. q[Len(q)] = r[Len(r)]
    BY <1>2 DEF Named
  <2>. QED  BY <1>1, <2>1, SamePath
<1>5. h \in Injection(C, D)
  BY <1>3, <1>4, Fun_IsInj
<1>6. h \notin Surjection(C, D)
  <2>. SUFFICES ASSUME h \in Surjection(C, D) PROVE FALSE
    OBVIOUS
  <2>1. PICK q \in C : h[q] = k
    BY DEF Surjection
  <2>. QED  BY <1>2, <2>1 DEF Named
<1>7. IsFiniteSet(D) /\ Cardinality(D) = NDIRENTS
  BY Ranges, FS_Interval
<1>8. /\ IsFiniteSet(C) /\ Cardinality(C) <= Cardinality(D)
      /\ Cardinality(C) # Cardinality(D)
  BY <1>5, <1>6, <1>7, FS_Injection
<1>9. Cardinality(C) \in Nat
  BY <1>8, FS_CardinalityType
<1>. QED  BY <1>7, <1>8, <1>9, Ranges DEF C

\* After fs_unlink and fs_rmdir: the path leads nowhere, all others where they did.
LEMMA GonePaths ==
    TInv /\ Sound' /\ (UnlinkEntry \/ RmdirEntry) =>
      /\ call.path \in Paths \ {<<>>} /\ translate(call.path) > 0
      /\ ~(translate(call.path)' > 0)
      /\ \A q \in Paths \ {call.path} : Leads(q, q)
<1>. SUFFICES ASSUME TInv, Sound', UnlinkEntry \/ RmdirEntry
              PROVE
      /\ call.path \in Paths \ {<<>>} /\ translate(call.path) > 0
      /\ ~(translate(call.path)' > 0)
      /\ \A q \in Paths \ {call.path} : Leads(q, q)
  OBVIOUS
<1>0. Sound /\ LooksUp /\ LooksUp' /\ Strays /\ Strays'
  <2>1. Sound
    BY DEF TInv
  <2>. QED  BY <2>1, Lookup, Astray, PTL
<1>1. /\ call.path \in Paths \ {<<>>} /\ translate(call.path) > 0
      /\ Father \in Inodes \ {0} /\ Type(Father) = "dir"
      /\ blk' = WithoutEntries(Father, Last) /\ UNCHANGED inode_region
      /\ call' = call
  BY EntryGoes DEF UnlinkEntry, RmdirEntry, Answer
<1>2. PICK p \in Paths \ {<<>>}, t \in Inodes, f \in Inodes \ {0}, n \in Names :
         p = call.path /\ t = translate(p) /\ f = Father /\ n = Last
  <2>1. translate(call.path) \in Inodes /\ Last \in Names
    BY <1>0, <1>1, FoundLink DEF Last
  <2>. QED  BY <1>1, <2>1
<1>3. /\ t > 0 /\ f > 0 /\ Type(f) = "dir"
      /\ trancate_path(p) \in Paths /\ f = translate(trancate_path(p)) /\ n = p[Len(p)]
  BY <1>1, <1>2, PathShape, Ranges DEF Father, Last, Inodes
<1>4. /\ \A e \in Inodes : Type(e)' = Type(e)
      /\ \A e \in Inodes, s \in 1 .. NDIRENTS : Type(e) = "dir" =>
            Entries(e)[s]' = IF e = f /\ s \in Named(f, n) THEN NoEntry ELSE Entries(e)[s]
  BY <1>0, <1>1, <1>2, AfterRemoval
<1>5. ~NoEntry.valid
  BY DEF NoEntry
<1>6. \A e \in Inodes, m \in Names : Type(e) = "dir" /\ (e # f \/ m # n) => Alike(e, m, m)
  <2>. SUFFICES ASSUME NEW e \in Inodes, NEW m \in Names, Type(e) = "dir", e # f \/ m # n
                PROVE  Alike(e, m, m)
    OBVIOUS
  <2>1. \A s \in 1 .. NDIRENTS : (s \in Named(e, m)' <=> s \in Named(e, m))
    BY <1>4, <1>5 DEF Named
  <2>2. Named(e, m)' = Named(e, m)
    BY <2>1 DEF Named
  <2>3. \A s \in Named(e, m) : Entries(e)[s]' = Entries(e)[s]
    BY <1>4 DEF Named
  <2>. QED  BY <1>4, <2>2, <2>3 DEF Alike
<1>7. Named(f, n)' = {} /\ Type(f)' = "dir"
  <2>1. \A s \in 1 .. NDIRENTS : s \notin Named(f, n)'
    BY <1>3, <1>4, <1>5 DEF Named
  <2>. QED  BY <1>3, <1>4, <2>1 DEF Named
<1>8. Type(t) # "dir" \/ \A m \in Names : Named(t, m) = {}
  <2>1. CASE UnlinkEntry
    <3>1. Removing
      BY <2>1 DEF UnlinkEntry, Removing
    <3>2. Type(loc.inum) = "file" /\ loc.inum = translate(call.path)
      BY <3>1 DEF TInv, Knowing
    <3>. QED  BY <1>2, <3>2
  <2>2. CASE RmdirEntry
    <3>1. \A s \in 1 .. NDIRENTS : ~Entries(t)[s].valid
      BY <1>2, <2>2 DEF RmdirEntry, TInv, Knowing
    <3>. QED  BY <3>1 DEF Named
  <2>. QED  BY <1>1, <2>1, <2>2
<1>. DEFINE Good(q) == IF q = p THEN ~(translate(q)' > 0) ELSE Leads(q, q)
            S == {q \in Paths : Good(q)}
<1>9. <<>> \in S
  BY <1>0 DEF LooksUp, Leads
<1>10. ASSUME NEW q \in Paths, q # <<>>, trancate_path(q) \in S
       PROVE  q \in S
  <2>. DEFINE m == q[Len(q)]
  <2>1. /\ trancate_path(q) \in Paths /\ m \in Names /\ q \in Paths \ {<<>>}
        /\ Good(trancate_path(q))
    BY <1>10, PathShape
  <2>2. CASE q = p
    <3>1. Len(trancate_path(q)) # Len(q)
      BY <2>1, PathShape
    <3>2. translate(trancate_path(q))' = f
      BY <1>3, <2>1, <2>2, <3>1 DEF Leads
    <3>3. ~(translate(q)' > 0)
      BY <1>0, <1>3, <1>7, <2>1, <2>2, <3>2 DEF Strays
    <3>. QED  BY <2>2, <3>3
  <2>3. CASE q # p /\ trancate_path(q) = p
    <3>1. ~(translate(trancate_path(q))' > 0)
      BY <2>1, <2>3
    <3>2. ~(translate(q) > 0)
      BY <1>0, <1>2, <1>8, <2>1, <2>3 DEF Strays
    <3>3. ~(translate(q)' > 0)
      BY <1>0, <2>1, <3>1 DEF Strays
    <3>. QED  BY <2>3, <3>2, <3>3 DEF Leads
  <2>4. CASE q # p /\ trancate_path(q) # p
    <3>1. ASSUME NEW g \in Inodes, g > 0, g = translate(trancate_path(q))
          PROVE  Alike(g, m, m)
      <4>1. g # f \/ m # n
        <5>. SUFFICES ASSUME g = f, m = n PROVE FALSE
          OBVIOUS
        <5>1. trancate_path(q) = trancate_path(p)
          BY <1>0, <1>3, <2>1, <3>1, PathsApart
        <5>. QED  BY <1>3, <2>1, <2>4, <5>1, SamePath
      <4>. QED  BY <1>4, <1>6, <2>1, <4>1 DEF Alike
    <3>2. Leads(trancate_path(q), trancate_path(q))
      BY <2>1, <2>4
    <3>3. Leads(q, q)
      <4>. HIDE DEF m
      <4>. QED  BY <1>0, <2>1, <3>1, <3>2, LeadsOn DEF m
    <3>. QED  BY <2>4, <3>3
  <2>. QED  BY <2>2, <2>3, <2>4
<1>. HIDE DEF S
<1>11. Paths \subseteq S
  BY <1>9, <1>10, PathInduction
<1>12. translate(call.path)' = translate(p)'
  BY <1>1, <1>2
<1>. QED  BY <1>1, <1>2, <1>11, <1>12 DEF S

\* The paths below a path, and the same place below another one.
Back(p, d, q) == IF Abstract!Under(d, q) THEN p \o SubSeq(q, Len(d) + 1, Len(q)) ELSE q

LEMMA UnderFather ==
    ASSUME NEW d \in Paths \ {<<>>}, NEW q \in Paths \ {<<>>}
    PROVE  /\ Abstract!Under(d, q) <=> q = d \/ Abstract!Under(d, trancate_path(q))
           /\ ~Abstract!Under(d, trancate_path(d))
<1>. DEFINE r == trancate_path(q)
<1>1. /\ Len(q) \in Nat \ {0} /\ Len(d) \in Nat \ {0} /\ q \in [1 .. Len(q) -> Names]
      /\ d \in [1 .. Len(d) -> Names]
      /\ r \in [1 .. Len(q) - 1 -> Names] /\ Len(r) = Len(q) - 1
      /\ \A i \in 1 .. Len(q) - 1 : r[i] = q[i]
  <2>1. Len(q) \in 0 .. MaxDepth /\ Len(d) \in 0 .. MaxDepth /\ MaxDepth \in Nat
    BY PathShape, Ranges
  <2>2. Len(q) # 0 /\ Len(d) # 0
    BY PathShape
  <2>3. /\ q \in [1 .. Len(q) -> Names] /\ d \in [1 .. Len(d) -> Names]
        /\ r \in Paths /\ Len(r) = Len(q) - 1 /\ \A i \in 1 .. Len(q) - 1 : r[i] = q[i]
    BY PathShape
  <2>4. r \in [1 .. Len(q) - 1 -> Names]
    BY <2>3, PathShape
  <2>. QED  BY <2>1, <2>2, <2>3, <2>4
<1>2. Len(trancate_path(d)) = Len(d) - 1
  BY PathShape
<1>. HIDE DEF r
<1>3. Len(q) >= Len(d) => SubSeq(q, 1, Len(d)) = [i \in 1 .. Len(d) |-> q[i]]
  BY <1>1
<1>4. Len(r) >= Len(d) => SubSeq(r, 1, Len(d)) = [i \in 1 .. Len(d) |-> r[i]]
  BY <1>1
<1>5. ASSUME Len(q) >= Len(d), SubSeq(q, 1, Len(d)) = d
      PROVE  q = d \/ (Len(r) >= Len(d) /\ SubSeq(r, 1, Len(d)) = d)
  <2>1. CASE Len(q) = Len(d)
    <3>1. \A i \in 1 .. Len(d) : q[i] = d[i]
      BY <1>3, <1>5
    <3>. QED  BY <1>1, <2>1, <3>1
  <2>2. CASE Len(q) # Len(d)
    <3>1. Len(r) >= Len(d)
      <4>1. \A a, b \in Nat : a >= b /\ a # b => a - 1 >= b
        OBVIOUS
      <4>2. Len(q) \in Nat /\ Len(d) \in Nat /\ Len(q) >= Len(d)
        BY <1>1, <1>5
      <4>. QED  BY <1>1, <2>2, <4>1, <4>2
    <3>2. \A i \in 1 .. Len(d) : r[i] = q[i]
      BY <1>1, <3>1
    <3>. QED  BY <1>3, <1>4, <1>5, <3>1, <3>2
  <2>. QED  BY <2>1, <2>2
<1>6. ASSUME q = d
      PROVE  Len(q) >= Len(d) /\ SubSeq(q, 1, Len(d)) = d
  BY <1>1, <1>3, <1>6
<1>7. ASSUME Len(r) >= Len(d), SubSeq(r, 1, Len(d)) = d
      PROVE  Len(q) >= Len(d) /\ SubSeq(q, 1, Len(d)) = d
  <2>1. Len(q) >= Len(d) /\ \A i \in 1 .. Len(d) : r[i] = q[i]
    BY <1>1, <1>7
  <2>. QED  BY <1>3, <1>4, <1>7, <2>1
<1>. QED  BY <1>1, <1>2, <1>5, <1>6, <1>7 DEF Abstract!Under, r

LEMMA OfLength ==
    ASSUME NEW n \in Nat, NEW S, NEW s \in [1 .. n -> S]
    PROVE  s \in Seq(S)
OBVIOUS

LEMMA RestOf ==
    ASSUME NEW S, NEW q \in Seq(S), NEW e \in Nat, e <= Len(q)
    PROVE  /\ SubSeq(q, e + 1, Len(q)) \in Seq(S)
           /\ Len(SubSeq(q, e + 1, Len(q))) = Len(q) - e
           /\ \A i \in 1 .. Len(q) - e : SubSeq(q, e + 1, Len(q))[i] = q[e + i]
<1>. DEFINE t == SubSeq(q, e + 1, Len(q))
<1>1. Len(q) \in Nat /\ e + 1 \in Int /\ Len(q) \in Int
  OBVIOUS
<1>2. \A i \in e + 1 .. Len(q) : q[i] \in S
  OBVIOUS
<1>3. /\ t \in Seq(S)
      /\ Len(t) = IF e + 1 <= Len(q) THEN Len(q) - (e + 1) + 1 ELSE 0
      /\ \A i \in 1 .. Len(q) - (e + 1) + 1 : t[i] = q[e + 1 + i - 1]
  BY <1>1, <1>2, SubSeqProperties
<1>. HIDE DEF t
<1>4. t \in Seq(S) /\ Len(t) = Len(q) - e /\ \A i \in 1 .. Len(q) - e : t[i] = q[e + i]
  BY <1>1, <1>3
<1>. QED  BY <1>4 DEF t

LEMMA BackIs ==
    ASSUME NEW p \in Paths \ {<<>>}, NEW d \in Paths \ {<<>>}, Len(p) = Len(d), NEW q \in Paths
    PROVE  /\ Back(p, d, q) \in Paths /\ Len(Back(p, d, q)) = Len(q)
           /\ Abstract!Under(d, q) =>
                \A i \in 1 .. Len(q) : Back(p, d, q)[i] = IF i <= Len(d) THEN p[i] ELSE q[i]
<1>1. CASE ~Abstract!Under(d, q)
  BY <1>1 DEF Back
<1>2. CASE Abstract!Under(d, q)
  <2>. DEFINE t == SubSeq(q, Len(d) + 1, Len(q))
  <2>1. /\ Len(q) \in Nat /\ Len(q) <= MaxDepth /\ MaxDepth \in Nat
        /\ Len(p) \in Nat /\ Len(p) = Len(d) /\ Len(d) <= Len(q)
        /\ Back(p, d, q) = p \o t
    <3>1. Len(q) \in 0 .. MaxDepth /\ Len(p) \in 0 .. MaxDepth /\ MaxDepth \in Nat
      BY PathShape, Ranges
    <3>2. Len(q) >= Len(d) /\ Back(p, d, q) = p \o t
      BY <1>2 DEF Back, Abstract!Under
    <3>. HIDE DEF t
    <3>. QED  BY <3>1, <3>2
  <2>2. p \in Seq(Names) /\ q \in Seq(Names)
    <3>1. p \in [1 .. Len(p) -> Names] /\ q \in [1 .. Len(q) -> Names]
      BY PathShape
    <3>. QED  BY <2>1, <3>1, OfLength
  <2>. DEFINE e == Len(d)
              n == Len(q)
  <2>3. /\ t \in Seq(Names) /\ Len(t) = n - e
        /\ \A i \in 1 .. n - e : t[i] = q[e + i]
    <3>1. e \in Nat /\ e <= Len(q) /\ q \in Seq(Names)
      BY <2>1, <2>2
    <3>2. t = SubSeq(q, e + 1, Len(q))
      OBVIOUS
    <3>. HIDE DEF e, t
    <3>. QED  BY <3>1, <3>2, RestOf
  <2>. HIDE DEF t
  <2>4. /\ p \o t \in Seq(Names) /\ Len(p \o t) = n
        /\ \A i \in 1 .. n : (p \o t)[i] = IF i <= e THEN p[i] ELSE q[i]
    <3>1. /\ p \o t \in Seq(Names) /\ Len(p \o t) = Len(p) + Len(t)
          /\ \A i \in 1 .. Len(p) + Len(t) :
                (p \o t)[i] = IF i <= Len(p) THEN p[i] ELSE t[i - Len(p)]
      BY <2>2, <2>3, ConcatProperties
    <3>2. e \in Nat /\ n \in Nat /\ Len(p) = e /\ Len(t) = n - e /\ e <= n
      BY <2>1, <2>3
    <3>. HIDE DEF e, n
    <3>3. \A i \in 1 .. n : ~(i <= e) => t[i - e] = q[i]
      BY <2>3, <3>2
    <3>. QED  BY <3>1, <3>2, <3>3
  <2>5. p \o t \in Paths
    <3>1. p \o t \in [1 .. Len(p \o t) -> Names]
      BY <2>4, LenProperties
    <3>2. n \in 0 .. MaxDepth
      BY <2>1
    <3>. QED  BY <2>4, <3>1, <3>2 DEF Paths
  <2>. QED  BY <2>1, <2>4, <2>5
<1>. QED  BY <1>1, <1>2

LEMMA BackFather ==
    ASSUME NEW p \in Paths \ {<<>>}, NEW d \in Paths \ {<<>>}, Len(p) = Len(d)
    PROVE  /\ Back(p, d, d) = p
           /\ \A q \in Paths \ {<<>>} : Abstract!Under(d, trancate_path(q)) =>
                 /\ Back(p, d, q) \in Paths \ {<<>>}
                 /\ trancate_path(Back(p, d, q)) = Back(p, d, trancate_path(q))
                 /\ Back(p, d, q)[Len(Back(p, d, q))] = q[Len(q)]
<1>1. Abstract!Under(d, d)
  BY UnderFather
<1>2. Back(p, d, d) = p
  <2>. DEFINE b == Back(p, d, d)
  <2>1. /\ b \in Paths /\ Len(b) = Len(p)
        /\ \A i \in 1 .. Len(p) : b[i] = IF i <= Len(d) THEN p[i] ELSE d[i]
    BY <1>1, BackIs
  <2>2. b \in [1 .. Len(p) -> Names] /\ p \in [1 .. Len(p) -> Names]
    BY <2>1, PathShape
  <2>. HIDE DEF b
  <2>3. \A i \in 1 .. Len(p) : b[i] = p[i]
    BY <2>1
  <2>4. b = p
    BY <2>2, <2>3
  <2>. QED  BY <2>4 DEF b
<1>3. ASSUME NEW q \in Paths \ {<<>>}, Abstract!Under(d, trancate_path(q))
      PROVE  /\ Back(p, d, q) \in Paths \ {<<>>}
             /\ trancate_path(Back(p, d, q)) = Back(p, d, trancate_path(q))
             /\ Back(p, d, q)[Len(Back(p, d, q))] = q[Len(q)]
  <2>. DEFINE r == trancate_path(q)
              b == Back(p, d, q)
              c == Back(p, d, r)
  <2>1. Abstract!Under(d, q) /\ r \in Paths
    BY <1>3, UnderFather, PathShape
  <2>2. /\ Len(q) \in Nat \ {0} /\ Len(r) = Len(q) - 1 /\ Len(d) \in Nat
        /\ \A i \in 1 .. Len(q) - 1 : r[i] = q[i]
    <3>1. Len(q) \in 0 .. MaxDepth /\ MaxDepth \in Nat /\ Len(q) # 0 /\ Len(d) \in 0 .. MaxDepth
      BY PathShape, Ranges
    <3>. QED  BY <3>1, PathShape
  <2>3. /\ b \in Paths /\ Len(b) = Len(q)
        /\ \A i \in 1 .. Len(q) : b[i] = IF i <= Len(d) THEN p[i] ELSE q[i]
    BY <2>1, BackIs
  <2>4. /\ c \in Paths /\ Len(c) = Len(r)
        /\ \A i \in 1 .. Len(r) : c[i] = IF i <= Len(d) THEN p[i] ELSE r[i]
    BY <1>3, <2>1, BackIs
  <2>5. Len(r) >= Len(d)
    BY <1>3 DEF Abstract!Under
  <2>. HIDE DEF r, b, c
  <2>6. b # <<>>
    BY <2>2, <2>3
  <2>7. /\ trancate_path(b) \in Paths /\ Len(trancate_path(b)) = Len(b) - 1
        /\ \A i \in 1 .. Len(b) - 1 : trancate_path(b)[i] = b[i]
    BY <2>3, <2>6, PathShape
  <2>8. trancate_path(b) = c
    <3>1. trancate_path(b) \in [1 .. Len(r) -> Names] /\ c \in [1 .. Len(r) -> Names]
      BY <2>2, <2>3, <2>4, <2>7, PathShape
    <3>2. \A i \in 1 .. Len(r) : trancate_path(b)[i] = c[i]
      BY <2>2, <2>3, <2>4, <2>7
    <3>. QED  BY <3>1, <3>2
  <2>9. b[Len(b)] = q[Len(q)]
    <3>1. Len(q) \in 1 .. Len(q) /\ ~(Len(q) <= Len(d))
      BY <2>2, <2>5
    <3>. QED  BY <2>3, <3>1
  <2>10. b \in Paths \ {<<>>} /\ trancate_path(b) = c /\ b[Len(b)] = q[Len(q)]
    BY <2>3, <2>6, <2>8, <2>9
  <2>. QED  BY <2>10 DEF r, b, c
<1>. QED  BY <1>2, <1>3

\* What fs_rename does to the names of its directory.
LEMMA NamesMoved ==
    ASSUME TInv, Sound', Rename, NEW f \in Inodes, f = Father, NEW n \in Names, n = Last,
           NEW m \in Names, m = call.dst[Len(call.dst)]
    PROVE  /\ Alike(f, n, m)
           /\ n # m => Named(f, n)' = {}
           /\ \A e \in Inodes, x \in Names : e # f \/ x \notin {n, m} => Alike(e, x, x)
<1>0. Sound
  BY DEF TInv
<1>1. Type(f) = "dir" /\ Named(f, m) = {}
  BY RenameMay DEF Rename
<1>2. /\ \A i \in Inodes : Type(i)' = Type(i)
      /\ \A e \in Inodes, s \in 1 .. NDIRENTS : Type(e) = "dir" =>
            Entries(e)[s]' = IF e = f /\ s \in Named(f, n)
                             THEN [Entries(e)[s] EXCEPT !.name = m] ELSE Entries(e)[s]
  BY RenameDoes
<1>3. ASSUME NEW s \in Named(f, n)
      PROVE  /\ Entries(f)[s]'.valid /\ Entries(f)[s]'.name = m
             /\ Entries(f)[s]'.inode = Entries(f)[s].inode
  <2>1. <<f, s>> \in DirLinks /\ Link(<<f, s>>) = Entries(f)[s] /\ s \in 1 .. NDIRENTS
    BY <1>1 DEF DirLinks, Named, Link
  <2>2. Entries(f)[s] \in [valid : {TRUE}, isDir : BOOLEAN, inode : Bits, name : Names \cup {""}]
    BY <1>0, <2>1, LinkLeads
  <2>3. Entries(f)[s]' = [Entries(f)[s] EXCEPT !.name = m]
    BY <1>1, <1>2, <2>1
  <2>. QED  BY <2>2, <2>3
<1>4. \A e \in Inodes, s \in 1 .. NDIRENTS :
         Type(e) = "dir" /\ ~(e = f /\ s \in Named(f, n)) => Entries(e)[s]' = Entries(e)[s]
  BY <1>2
<1>5. Alike(f, n, m)
  <2>1. \A s \in 1 .. NDIRENTS : s \in Named(f, m)' <=> s \in Named(f, n)
    BY <1>1, <1>3, <1>4 DEF Named
  <2>2. Named(f, m)' = Named(f, n)
    BY <2>1 DEF Named
  <2>. QED  BY <1>2, <1>3, <2>2 DEF Alike
<1>6. ASSUME n # m PROVE Named(f, n)' = {}
  <2>1. \A s \in 1 .. NDIRENTS : s \notin Named(f, n)'
    BY <1>1, <1>3, <1>4, <1>6 DEF Named
  <2>. QED  BY <2>1 DEF Named
<1>7. ASSUME NEW e \in Inodes, NEW x \in Names, e # f \/ x \notin {n, m}, Type(e) = "dir"
      PROVE  Alike(e, x, x)
  <2>1. \A s \in 1 .. NDIRENTS : s \in Named(e, x)' <=> s \in Named(e, x)
    <3>. SUFFICES ASSUME NEW s \in 1 .. NDIRENTS
                  PROVE  s \in Named(e, x)' <=> s \in Named(e, x)
      OBVIOUS
    <3>1. CASE e = f /\ s \in Named(f, n)
      BY <1>3, <1>7, <3>1 DEF Named
    <3>2. CASE ~(e = f /\ s \in Named(f, n))
      BY <1>4, <1>7, <3>2 DEF Named
    <3>. QED  BY <3>1, <3>2
  <2>2. Named(e, x)' = Named(e, x)
    BY <2>1 DEF Named
  <2>3. \A s \in Named(e, x) : Entries(e)[s]'.inode = Entries(e)[s].inode
    <3>. SUFFICES ASSUME NEW s \in Named(e, x)
                  PROVE  Entries(e)[s]'.inode = Entries(e)[s].inode
      OBVIOUS
    <3>1. s \in 1 .. NDIRENTS
      BY DEF Named
    <3>. QED  BY <1>3, <1>4, <1>7, <3>1
  <2>. QED  BY <1>2, <2>2, <2>3 DEF Alike
<1>8. ASSUME NEW e \in Inodes, NEW x \in Names, Type(e) # "dir"
      PROVE  Alike(e, x, x)
  BY <1>2, <1>8 DEF Alike
<1>. QED  BY <1>5, <1>6, <1>7, <1>8

\* Where a path leads after fs_rename: the paths under the new name where those
\* under the old one led, which lead nowhere now; all others where they did.
LeadsAfter(p, d, q) ==
    IF Abstract!Under(d, q) THEN Leads(Back(p, d, q), q)
    ELSE IF Abstract!Under(p, q) THEN ~(translate(q)' > 0) ELSE Leads(q, q)

LEMMA RenamePaths ==
    TInv /\ Sound' /\ Rename =>
        /\ call.path \in Paths \ {<<>>} /\ call.dst \in Paths \ {<<>>}
        /\ Len(call.path) = Len(call.dst)
        /\ \A q \in Paths : LeadsAfter(call.path, call.dst, q)
<1>. SUFFICES ASSUME TInv, Sound', Rename
              PROVE  /\ call.path \in Paths \ {<<>>} /\ call.dst \in Paths \ {<<>>}
                     /\ Len(call.path) = Len(call.dst)
                     /\ \A q \in Paths : LeadsAfter(call.path, call.dst, q)
  OBVIOUS
<1>0. Sound /\ LooksUp /\ LooksUp' /\ Strays /\ Strays'
  <2>1. Sound
    BY DEF TInv
  <2>. QED  BY <2>1, Lookup, Astray, PTL
<1>1. /\ call.path \in Paths \ {<<>>} /\ call.dst \in Paths \ {<<>>}
      /\ translate(call.path) > 0 /\ translate(call.dst) \in {ENOENT, ENOTDIR}
      /\ trancate_path(call.dst) = trancate_path(call.path)
      /\ Father > 0 /\ Father \in Inodes \ {0}
      /\ Last \in Names /\ call.dst[Len(call.dst)] \in Names
  BY RenameMay DEF Rename
<1>2. PICK p \in Paths \ {<<>>}, d \in Paths \ {<<>>}, f \in Inodes, n \in Names, m \in Names :
         p = call.path /\ d = call.dst /\ f = Father /\ n = Last /\ m = call.dst[Len(call.dst)]
  BY <1>1
<1>3. /\ f > 0 /\ f = translate(trancate_path(p)) /\ n = p[Len(p)] /\ m = d[Len(d)]
      /\ trancate_path(d) = trancate_path(p) /\ trancate_path(p) \in Paths
      /\ translate(p) > 0 /\ ~(translate(d) > 0)
  BY <1>1, <1>2, PathShape DEF Father, Last, ENOENT, ENOTDIR
<1>4. p # d /\ n # m
  BY <1>3, SamePath
<1>5. /\ Alike(f, n, m) /\ Named(f, n)' = {}
      /\ \A e \in Inodes, x \in Names : e # f \/ x \notin {n, m} => Alike(e, x, x)
  BY <1>2, <1>4, NamesMoved
<1>6. /\ Len(p) = Len(d) /\ Len(p) \in Nat
      /\ Len(trancate_path(p)) = Len(p) - 1 /\ Len(d) # 0 /\ Len(p) # 0
  <2>1. Len(p) \in 0 .. MaxDepth /\ Len(d) \in 0 .. MaxDepth /\ MaxDepth \in Nat
    BY PathShape, Ranges
  <2>2. /\ Len(trancate_path(p)) = Len(p) - 1 /\ Len(trancate_path(d)) = Len(d) - 1
        /\ Len(d) # 0 /\ Len(p) # 0
    BY PathShape
  <2>. QED  BY <1>3, <2>1, <2>2
<1>7. /\ \A q \in Paths \ {<<>>} :
           /\ Abstract!Under(d, q) <=> q = d \/ Abstract!Under(d, trancate_path(q))
           /\ Abstract!Under(p, q) <=> q = p \/ Abstract!Under(p, trancate_path(q))
      /\ ~Abstract!Under(d, trancate_path(p)) /\ ~Abstract!Under(p, trancate_path(p))
  BY <1>3, UnderFather
<1>8. /\ Back(p, d, d) = p
      /\ \A q \in Paths \ {<<>>} : Abstract!Under(d, trancate_path(q)) =>
            /\ Back(p, d, q) \in Paths \ {<<>>}
            /\ trancate_path(Back(p, d, q)) = Back(p, d, trancate_path(q))
            /\ Back(p, d, q)[Len(Back(p, d, q))] = q[Len(q)]
  BY <1>6, BackFather
<1>. DEFINE S == {q \in Paths : LeadsAfter(p, d, q)}
<1>9. <<>> \in S
  <2>1. <<>> \in Paths /\ Leads(<<>>, <<>>)
    BY <1>0 DEF LooksUp, Leads
  <2>2. ~Abstract!Under(d, <<>>) /\ ~Abstract!Under(p, <<>>)
    <3>1. Len(<<>>) = 0
      OBVIOUS
    <3>2. ~(0 >= Len(d)) /\ ~(0 >= Len(p))
      BY <1>6
    <3>. QED  BY <3>1, <3>2 DEF Abstract!Under
  <2>. QED  BY <2>1, <2>2 DEF LeadsAfter
<1>10. ASSUME NEW q \in Paths, q # <<>>, trancate_path(q) \in S
       PROVE  q \in S
  <2>. DEFINE x == q[Len(q)]
              r == trancate_path(q)
  <2>1. q \in Paths \ {<<>>} /\ r \in Paths /\ x \in Names /\ LeadsAfter(p, d, r)
    BY <1>10, PathShape
  <2>2. CASE Abstract!Under(d, r)
    <3>1. PICK b \in Paths \ {<<>>} :
             /\ b = Back(p, d, q) /\ trancate_path(b) = Back(p, d, r) /\ b[Len(b)] = x
      BY <1>8, <2>1, <2>2
    <3>2. Leads(trancate_path(b), r)
      BY <2>1, <2>2, <3>1 DEF LeadsAfter
    <3>3. trancate_path(b) # trancate_path(p) /\ trancate_path(b) \in Paths
      <4>1. Len(trancate_path(b)) = Len(r) /\ trancate_path(b) \in Paths
        BY <1>6, <2>1, <3>1, BackIs
      <4>2. Len(r) >= Len(d)
        BY <2>2 DEF Abstract!Under
      <4>3. Len(r) # Len(p) - 1
        BY <1>6, <4>2
      <4>. QED  BY <1>6, <4>1, <4>3
    <3>4. ASSUME NEW g \in Inodes, g > 0, g = translate(trancate_path(b))
          PROVE  Alike(g, x, x)
      <4>1. g # f
        BY <1>0, <1>3, <3>3, <3>4, PathsApart
      <4>. QED  BY <1>5, <2>1, <4>1
    <3>5. Leads(b, q)
      <4>. HIDE DEF x
      <4>1. x = q[Len(q)]
        BY DEF x
      <4>. QED  BY <1>0, <2>1, <3>1, <3>2, <3>4, <4>1, LeadsOn
    <3>. QED  BY <1>7, <2>1, <2>2, <3>1, <3>5 DEF LeadsAfter
  <2>3. CASE q = d
    <3>1. Leads(trancate_path(p), trancate_path(d))
      BY <1>3, <1>7, <2>1, <2>3 DEF LeadsAfter
    <3>2. Leads(p, d)
      BY <1>0, <1>3, <1>5, <3>1, LeadsOn
    <3>. QED  BY <1>7, <1>8, <2>1, <2>3, <3>2 DEF LeadsAfter
  <2>4. CASE ~Abstract!Under(d, q) /\ q = p
    <3>1. Leads(r, r)
      BY <1>7, <2>1, <2>4 DEF LeadsAfter
    <3>2. translate(r)' = f
      BY <1>3, <2>4, <3>1 DEF Leads
    <3>3. ~(translate(q)' > 0)
      BY <1>0, <1>3, <1>5, <2>1, <2>4, <3>2 DEF Strays
    <3>. QED  BY <1>7, <2>1, <2>4, <3>3 DEF LeadsAfter
  <2>5. CASE ~Abstract!Under(d, q) /\ q # p /\ Abstract!Under(p, r)
    <3>1. ~(translate(r)' > 0)
      BY <1>7, <2>1, <2>5 DEF LeadsAfter
    <3>2. ~(translate(q)' > 0)
      BY <1>0, <2>1, <3>1 DEF Strays
    <3>. QED  BY <1>7, <2>1, <2>5, <3>2 DEF LeadsAfter
  <2>6. CASE ~Abstract!Under(d, q) /\ q # p /\ ~Abstract!Under(p, r)
    <3>1. Leads(r, r)
      BY <1>7, <2>1, <2>6 DEF LeadsAfter
    <3>2. ASSUME NEW g \in Inodes, g > 0, g = translate(r)
          PROVE  Alike(g, x, x)
      <4>1. g = f => r = trancate_path(p)
        BY <1>0, <1>3, <2>1, <3>2, PathsApart
      <4>2. r = trancate_path(p) => x \notin {n, m}
        <5>1. r = trancate_path(p) /\ x = n => q = p
          BY <1>3, <2>1, SamePath
        <5>2. r = trancate_path(d) /\ x = m => q = d
          BY <1>3, <2>1, SamePath
        <5>. QED  BY <1>3, <1>7, <2>1, <2>6, <5>1, <5>2
      <4>. QED  BY <1>5, <2>1, <4>1, <4>2
    <3>3. Leads(q, q)
      <4>. HIDE DEF x
      <4>1. x = q[Len(q)]
        BY DEF x
      <4>. QED  BY <1>0, <2>1, <3>1, <3>2, <4>1, LeadsOn
    <3>. QED  BY <1>7, <2>1, <2>6, <3>3 DEF LeadsAfter
  <2>. QED  BY <1>7, <2>1, <2>2, <2>3, <2>4, <2>5, <2>6
<1>. HIDE DEF S
<1>11. Paths \subseteq S
  BY <1>9, <1>10, PathInduction
<1>. QED  BY <1>1, <1>2, <1>6, <1>11 DEF S

-----------------------------------------------------------------------------
(***************************************************************************)
(* The deepest directories.                                                *)
(***************************************************************************)
\* No call has a path longer than MaxDepth: a directory at a path of that length
\* is empty.
Shallow ==
    \A p \in Paths, d \in Inodes :
        Len(p) = MaxDepth /\ d = translate(p) /\ d > 0 /\ Type(d) = "dir" =>
            \A s \in 1 .. NDIRENTS : ~Entries(d)[s].valid

RInv == TInv /\ Shallow

LEMMA ReachedIsLinked ==
    Sound => \A p \in Paths, i \in Inodes : i > 0 /\ i = translate(p) =>
                i = 1 \/ \E l \in DirLinks : Link(l).inode = i
<1>. SUFFICES ASSUME Sound, NEW p \in Paths, NEW i \in Inodes, i > 0, i = translate(p), i # 1
              PROVE  \E l \in DirLinks : Link(l).inode = i
  OBVIOUS
<1>1. p # <<>>
  BY Lookup DEF LooksUp
<1>. QED  BY <1>1, FoundLink

\* A step that changes no directory changes no type that a path leads to.
LEMMA CalmTypes ==
    Sound /\ Sound' /\ Calm =>
        \A p \in Paths : /\ translate(p)' = translate(p)
                         /\ \A i \in Inodes : i > 0 /\ i = translate(p) => Type(i)' = Type(i)
<1>. SUFFICES ASSUME Sound, Sound', Calm, NEW p \in Paths
              PROVE  /\ translate(p)' = translate(p)
                     /\ \A i \in Inodes : i > 0 /\ i = translate(p) => Type(i)' = Type(i)
  OBVIOUS
<1>1. \A i \in Inodes : (\E l \in DirLinks : Link(l).inode = i) => Type(i)' = Type(i)
  BY DEF Calm
<1>2. 1 \in Inodes /\ Type(1) = "dir" /\ Type(1)' = "dir"
  BY Ranges DEF Sound, Marked, Inodes
<1>. QED  BY <1>1, <1>2, CalmWalk, ReachedIsLinked

LEMMA ShallowCalm == Sound /\ Sound' /\ Calm /\ Shallow => Shallow'
<1>. SUFFICES ASSUME Sound, Sound', Calm, Shallow,
                     NEW p \in Paths, NEW d \in Inodes, Len(p) = MaxDepth,
                     d = translate(p)', d > 0, Type(d)' = "dir", NEW s \in 1 .. NDIRENTS
              PROVE  ~Entries(d)[s]'.valid
  BY DEF Shallow
<1>1. d = translate(p) /\ Type(d) = "dir"
  BY CalmTypes
<1>2. Entries(d)[s]' = Entries(d)[s]
  BY <1>1 DEF Calm
<1>. QED  BY <1>1, <1>2 DEF Shallow

LEMMA ShallowEntry == RInv /\ Sound' /\ CreateEntry => Shallow'
<1>. SUFFICES ASSUME RInv, Sound', CreateEntry,
                     NEW p \in Paths, NEW d \in Inodes, Len(p) = MaxDepth,
                     d = translate(p)', d > 0, Type(d)' = "dir", NEW s \in 1 .. NDIRENTS
              PROVE  ~Entries(d)[s]'.valid
  BY DEF Shallow
<1>0. TInv /\ Shallow /\ Sound
  BY DEF RInv, TInv
<1>1. /\ call.path \in Paths \ {<<>>} /\ loc.inum \in Inodes /\ translate(call.path)' = loc.inum
      /\ \A q \in Paths \ {call.path} : Leads(q, q)
  BY <1>0, EntryPaths
<1>2. /\ inode_region' = inode_region
      /\ loc.father \in Inodes /\ loc.father = Father
      /\ \A e \in Inodes, k \in 1 .. NDIRENTS : Type(e) = "dir" =>
            Entries(e)[k]' = IF e = loc.father /\ k = loc.slot THEN NewEntry ELSE Entries(e)[k]
  BY <1>0, AfterEntry
<1>3. Type(d) = "dir"
  BY <1>2 DEF Type
<1>4. CASE p = call.path
  <2>1. d = loc.inum /\ Creating /\ pc = "entry"
    <3>1. call' = call /\ pc = "entry"
      BY DEF CreateEntry, Answer
    <3>2. translate(call.path)' = translate(p)'
      BY <1>4, <3>1
    <3>. QED  BY <1>1, <3>1, <3>2 DEF Creating
  <2>2. /\ loc.inum # loc.father
        /\ Type(loc.inum) = IF call.op = "mkdir" THEN "dir" ELSE "file"
        /\ call.op = "mkdir" => ~Entries(loc.inum)[s].valid
    BY <1>0, <2>1 DEF TInv, Knowing
  <2>3. Entries(d)[s]' = Entries(d)[s]
    BY <1>2, <1>3, <2>1, <2>2
  <2>. QED  BY <1>3, <2>1, <2>2, <2>3
<1>5. CASE p # call.path
  <2>1. d = translate(p)
    BY <1>1, <1>5 DEF Leads
  <2>2. ~Entries(d)[s].valid
    BY <1>0, <1>3, <2>1 DEF Shallow
  <2>3. d # loc.father
    <3>. SUFFICES ASSUME d = loc.father PROVE FALSE
      OBVIOUS
    <3>1. /\ trancate_path(call.path) \in Paths
          /\ Len(trancate_path(call.path)) = Len(call.path) - 1
          /\ Len(call.path) \in 0 .. MaxDepth /\ MaxDepth \in Nat
      BY <1>1, PathShape, Ranges
    <3>2. p = trancate_path(call.path)
      BY <1>0, <1>2, <2>1, <3>1, PathsApart DEF Father
    <3>. QED  BY <3>1, <3>2
  <2>. QED  BY <1>2, <1>3, <2>2, <2>3
<1>. QED  BY <1>4, <1>5

LEMMA ShallowGone == RInv /\ Sound' /\ (UnlinkEntry \/ RmdirEntry) => Shallow'
<1>. SUFFICES ASSUME RInv, Sound', UnlinkEntry \/ RmdirEntry,
                     NEW p \in Paths, NEW d \in Inodes, Len(p) = MaxDepth,
                     d = translate(p)', d > 0, Type(d)' = "dir", NEW s \in 1 .. NDIRENTS
              PROVE  ~Entries(d)[s]'.valid
  BY DEF Shallow
<1>0. TInv /\ Shallow /\ Sound
  BY DEF RInv, TInv
<1>1. /\ ~(translate(call.path)' > 0)
      /\ \A q \in Paths \ {call.path} : Leads(q, q)
  BY <1>0, GonePaths
<1>2. /\ Father \in Inodes \ {0} /\ Type(Father) = "dir"
      /\ blk' = WithoutEntries(Father, Last) /\ UNCHANGED inode_region
  BY <1>0, EntryGoes
<1>3. PICK f, n : f \in Inodes /\ f = Father /\ n = Last
  BY <1>2
<1>4. /\ \A i \in Inodes : Type(i)' = Type(i)
      /\ \A e \in Inodes, k \in 1 .. NDIRENTS : Type(e) = "dir" =>
            Entries(e)[k]' = IF e = f /\ k \in Named(f, n) THEN NoEntry ELSE Entries(e)[k]
  BY <1>0, <1>2, <1>3, AfterRemoval
<1>5. d = translate(p) /\ Type(d) = "dir"
  <2>1. p # call.path
    <3>1. call' = call
      BY DEF UnlinkEntry, RmdirEntry, Answer
    <3>2. p = call.path => translate(call.path)' = translate(p)'
      BY <3>1
    <3>. QED  BY <1>1, <3>2
  <2>2. Leads(p, p)
    BY <1>1, <2>1
  <2>. QED  BY <1>4, <2>2 DEF Leads
<1>6. ~Entries(d)[s].valid
  BY <1>0, <1>5 DEF Shallow
<1>7. ~NoEntry.valid
  BY DEF NoEntry
<1>. QED  BY <1>4, <1>5, <1>6, <1>7

LEMMA ShallowRename == RInv /\ Sound' /\ Rename => Shallow'
<1>. SUFFICES ASSUME RInv, Sound', Rename,
                     NEW p \in Paths, NEW d \in Inodes, Len(p) = MaxDepth,
                     d = translate(p)', d > 0, Type(d)' = "dir", NEW s \in 1 .. NDIRENTS
              PROVE  ~Entries(d)[s]'.valid
  BY DEF Shallow
<1>0. TInv /\ Shallow /\ Sound
  BY DEF RInv, TInv
<1>1. /\ call.path \in Paths \ {<<>>} /\ call.dst \in Paths \ {<<>>}
      /\ Len(call.path) = Len(call.dst)
      /\ LeadsAfter(call.path, call.dst, p)
  BY <1>0, RenamePaths
<1>2. PICK q \in Paths : Len(q) = Len(p) /\ Leads(q, p)
  <2>1. Back(call.path, call.dst, p) \in Paths /\ Len(Back(call.path, call.dst, p)) = Len(p)
    BY <1>1, BackIs
  <2>. QED  BY <1>1, <2>1 DEF LeadsAfter
<1>3. d = translate(q)
  BY <1>2 DEF Leads
<1>4. /\ \A i \in Inodes : Type(i)' = Type(i)
      /\ \A e \in Inodes, k \in 1 .. NDIRENTS : Type(e) = "dir" =>
            Entries(e)[k]' = IF e = Father /\ k \in Named(Father, Last)
                             THEN [Entries(e)[k] EXCEPT !.name = call.dst[Len(call.dst)]]
                             ELSE Entries(e)[k]
  BY <1>0, RenameDoes
<1>5. Type(d) = "dir"
  BY <1>4
<1>6. ~Entries(d)[s].valid
  BY <1>0, <1>2, <1>3, <1>5 DEF Shallow
<1>7. ~(d = Father /\ s \in Named(Father, Last))
  BY <1>6 DEF Named
<1>8. Entries(d)[s]' = Entries(d)[s]
  BY <1>4, <1>5, <1>7
<1>. QED  BY <1>6, <1>8

LEMMA RInvStep == RInv /\ [Next]_vars /\ InPlace' /\ Frontend = "fuse" => RInv'
<1>. SUFFICES ASSUME RInv, [Next]_vars, InPlace', Frontend = "fuse" PROVE TInv' /\ Shallow'
  BY DEF RInv
<1>1. TInv /\ TInv' /\ Sound /\ Sound' /\ Shallow
  <2>1. TInv' /\ Sound'
    BY TreeStep, SoundStep DEF RInv
  <2>. QED  BY <2>1 DEF RInv, TInv
<1>2. CASE UNCHANGED vars
  <2>1. UNCHANGED <<inode_region, blk>>
    BY <1>2 DEF vars
  <2>. QED  BY <1>1, <2>1, UnchangedIsQuiet, QuietIsCalm, ShallowCalm
<1>3. CASE QuietStep \/ UnlinkMap
  <2>1. Quiet
    BY <1>1, <1>3, QuietSteps, UnlinkMapSound
  <2>. QED  BY <1>1, <2>1, QuietIsCalm, ShallowCalm
<1>4. CASE CreateInode
  BY <1>1, <1>4, CreateInodeCalm, ShallowCalm
<1>. QED  BY <1>1, <1>2, <1>3, <1>4, StepKinds, ShallowEntry, ShallowGone, ShallowRename

\* The invariant holds for as long as nothing has been written out of its place.
LEMMA RInvToTheEnd ==
    (InPlace => RInv) /\ [Next]_vars /\ Frontend = "fuse" => (InPlace' => RInv')
<1>. SUFFICES ASSUME InPlace => RInv, [Next]_vars, Frontend = "fuse", InPlace' PROVE RInv'
  OBVIOUS
<1>1. InPlace
  BY OverrunEnds DEF vars, InPlace
<1>. QED  BY <1>1, RInvStep

LEMMA InitShallow == Init => RInv
<1>. SUFFICES ASSUME Init, NEW p \in Paths, NEW d \in Inodes, Type(d) = "dir",
                     NEW s \in 1 .. NDIRENTS
              PROVE  ~Entries(d)[s].valid
  BY InitTree DEF RInv, Shallow
<1>1. TypeOK
  BY InitTree DEF TInv, Sound, NInv
<1>2. Entries(d)[s] = blk[first(d)].ent[s] /\ first(d) \in Blocks
  BY <1>1, EntryType
<1>3. blk[first(d)] = ZeroBlock
  BY <1>2 DEF Init
<1>4. ZeroBlock.ent[s] = NoEntry /\ ~NoEntry.valid
  BY DEF ZeroBlock, NoEntry
<1>. QED  BY <1>2, <1>3, <1>4

-----------------------------------------------------------------------------
(***************************************************************************)
(* What a step does to the tree that is seen.                              *)
(***************************************************************************)
Pictured ==
    /\ tree = [p \in Paths |-> At(p)]
    /\ \A p \in Paths : tree[p] = At(p) /\ (Abstract!Exists(p) <=> translate(p) > 0)

LEMMA SoundPictured == Sound => Pictured
BY TreeShows DEF Pictured

\* What is seen of every inode that a path of S leads to stays.
SeenKept(S) ==
    \A q \in S, i \in Inodes : i > 0 /\ i = translate(q) => Seen(i)' = Seen(i)

\* A path shows what another one showed.
LEMMA ShowsOn ==
    ASSUME Sound, Sound', NEW q \in Paths, NEW r \in Paths, Leads(q, r), SeenKept({q})
    PROVE  tree'[r] = tree[q]
<1>0. LooksUp /\ Pictured /\ Pictured'
  BY Lookup, SoundPictured, PTL
<1>1. tree[q] = At(q) /\ tree'[r] = At(r)'
  BY <1>0 DEF Pictured
<1>2. CASE translate(q) > 0
  <2>1. PICK i \in Inodes : i > 0 /\ i = translate(q)
    BY <1>0, <1>2, Ranges DEF LooksUp, Answers, ENOENT, ENOTDIR
  <2>2. translate(r)' = i /\ Seen(i)' = Seen(i)
    BY <1>2, <2>1 DEF Leads, SeenKept
  <2>3. At(r)' = Seen(i)'
    BY <2>1, <2>2 DEF At
  <2>4. At(q) = Seen(i)
    BY <2>1 DEF At
  <2>. QED  BY <1>1, <2>2, <2>3, <2>4
<1>3. CASE ~(translate(q) > 0)
  <2>1. ~(translate(r)' > 0)
    BY <1>3 DEF Leads
  <2>2. At(q) = Absent /\ At(r)' = Absent
    BY <1>3, <2>1 DEF At, Absent
  <2>. QED  BY <1>1, <2>2
<1>. QED  BY <1>2, <1>3

\* A step that changes no directory, and nothing of what is seen.
LEMMA SameTree ==
    Sound /\ Sound' /\ Calm /\ SeenKept(Paths) => tree' = tree
<1>. SUFFICES ASSUME Sound, Sound', Calm, SeenKept(Paths) PROVE tree' = tree
  OBVIOUS
<1>0. Pictured /\ Pictured'
  BY SoundPictured, PTL
<1>1. ASSUME NEW p \in Paths PROVE tree'[p] = tree[p]
  <2>1. Leads(p, p)
    BY CalmTypes DEF Leads
  <2>2. SeenKept({p})
    BY DEF SeenKept
  <2>. QED  BY <2>1, <2>2, ShowsOn
<1>2. tree = [p \in Paths |-> tree[p]] /\ tree' = [p \in Paths |-> tree'[p]]
  BY <1>0 DEF Pictured
<1>. QED  BY <1>1, <1>2

LEMMA SameImageSeen == UNCHANGED <<inode_region, blk>> => SeenKept(Paths)
BY DEF SeenKept, Seen, Type, first

LEMMA SameImageTree ==
    Sound /\ Sound' /\ UNCHANGED <<inode_region, blk>> => tree' = tree
BY SameTree, SameImageSeen, UnchangedIsQuiet, QuietIsCalm

\* A step that changes what one path shows.
LEMMA TreeBut ==
    ASSUME Sound, Sound', NEW p \in Paths, NEW v, At(p)' = v,
           \A q \in Paths \ {p} : Leads(q, q), SeenKept(Paths \ {p})
    PROVE  tree' = [tree EXCEPT ![p] = v]
<1>0. Pictured /\ Pictured'
  BY SoundPictured, PTL
<1>1. ASSUME NEW q \in Paths, q # p PROVE tree'[q] = tree[q]
  <2>1. Leads(q, q) /\ SeenKept({q})
    BY <1>1 DEF SeenKept
  <2>. QED  BY <2>1, ShowsOn
<1>2. tree'[p] = v
  BY <1>0 DEF Pictured
<1>3. tree = [q \in Paths |-> tree[q]] /\ tree' = [q \in Paths |-> tree'[q]]
  BY <1>0 DEF Pictured
<1>4. [tree EXCEPT ![p] = v] = [q \in Paths |-> IF q = p THEN v ELSE tree[q]]
  BY <1>3
<1>5. \A q \in Paths : tree'[q] = IF q = p THEN v ELSE tree[q]
  BY <1>1, <1>2
<1>. QED  BY <1>3, <1>4, <1>5

LEMMA MkdirBlockUnseen == TInv /\ MkdirBlock => SeenKept(Paths)
<1>. SUFFICES ASSUME TInv, MkdirBlock, NEW i \in Inodes PROVE Seen(i)' = Seen(i)
  BY DEF SeenKept
<1>1. NInv /\ pc \notin {"clear", "mark"} /\ inode_region' = inode_region
  BY DEF TInv, Sound, MkdirBlock, Starts
<1>2. PICK b \in Blocks : FreeBlock(b) /\ blk' = [blk EXCEPT ![b] = ZeroBlock]
  BY DEF MkdirBlock
<1>3. first(i) # b
  BY <1>1, <1>2, TakenBlock
<1>4. blk'[first(i)] = blk[first(i)]
  <2>1. first(i) \in Blocks /\ blk \in [Blocks -> Block]
    BY <1>1, Ranges DEF NInv, TypeOK, first, Inode
  <2>. QED  BY <1>2, <1>3, <2>1
<1>5. Type(i)' = Type(i) /\ first(i)' = first(i)
  BY <1>1 DEF Type, first
<1>. QED  BY <1>4, <1>5 DEF Seen

LEMMA CreateInodeUnseen == TInv /\ CreateInode => SeenKept(Paths)
<1>. SUFFICES ASSUME TInv, CreateInode, NEW p \in Paths, NEW i \in Inodes,
                     i > 0, i = translate(p)
              PROVE  Seen(i)' = Seen(i)
  BY DEF SeenKept
<1>1. Sound /\ NInv /\ Creating /\ pc = "inode" /\ blk' = blk
  BY DEF TInv, Sound, CreateInode, Creating
<1>2. i = 1 \/ \E l \in DirLinks : Link(l).inode = i
  BY <1>1, ReachedIsLinked
<1>3. i # loc.inum
  BY <1>1, <1>2 DEF TInv, Knowing, NInv, AtWork
<1>4. inode_region'[i] = inode_region[i]
  BY <1>1, <1>3 DEF CreateInode, NInv, TypeOK
<1>. QED  BY <1>1, <1>4 DEF Seen, Type, first

-----------------------------------------------------------------------------
(***************************************************************************)
(* Requests and answers.                                                   *)
(***************************************************************************)
Busy == pc \notin {"idle", "dead", "overrun", "return"}

\* A running handler's request.
LEMMA Asked ==
    TInv /\ pc \notin {"idle", "dead", "overrun"} =>
        /\ req = [op |-> call.op, path |-> call.path, dst |-> call.dst, word |-> call.word]
        /\ call.op # "none" /\ ~Abstract!Idle
<1>. SUFFICES ASSUME TInv, pc \notin {"idle", "dead", "overrun"}
              PROVE  /\ req = [op |-> call.op, path |-> call.path,
                               dst |-> call.dst, word |-> call.word]
                     /\ call.op # "none" /\ ~Abstract!Idle
  OBVIOUS
<1>1. call.op # "none"
  BY NamespaceAssumption DEF TInv, Knowing
<1>2. req = [op |-> call.op, path |-> call.path, dst |-> call.dst, word |-> call.word]
  BY DEF req
<1>. QED  BY <1>1, <1>2 DEF Abstract!Idle

LEMMA IsRunning ==
    ASSUME TInv, Busy
    PROVE  /\ ~Abstract!Idle /\ req.op = call.op /\ req.path = call.path
           /\ req.dst = call.dst /\ req.word = call.word
           /\ \A ops : call.op \in ops => Abstract!Running(ops)
<1>1. /\ req = [op |-> call.op, path |-> call.path, dst |-> call.dst, word |-> call.word]
      /\ ~Abstract!Idle
  BY Asked DEF Busy
<1>2. res = <<>>
  BY DEF Busy, res
<1>. QED  BY <1>1, <1>2 DEF Abstract!Running

LEMMA AnswerIs ==
    ASSUME Busy, NEW code, Answer(code)
    PROVE  Abstract!Answer(code)
<1>1. pc' = "return" /\ ret' = code /\ call' = call /\ pc \notin {"idle", "dead", "overrun"}
  BY DEF Answer, Busy
<1>2. req' = req
  BY <1>1 DEF req
<1>3. res' = <<code>>
  BY <1>1 DEF res
<1>. QED  BY <1>2, <1>3 DEF Abstract!Answer

\* A step inside a handler.
LEMMA NoAnswer ==
    ASSUME Busy, Busy', UNCHANGED call
    PROVE  UNCHANGED <<req, res>>
BY DEF Busy, req, res

\* The end of a call.
LEMMA Ends ==
    ASSUME TInv, pc \notin {"idle", "dead", "overrun"}, pc' \in {"idle", "dead"}, UNCHANGED tree
    PROVE  Abstract!Done
<1>1. ~Abstract!Idle
  BY Asked
<1>2. req' = [op |-> "none"] /\ res' = <<>>
  BY DEF req, res
<1>. QED  BY <1>1, <1>2 DEF Abstract!Done

LEMMA CallRequests ==
    ASSUME TInv, NEW op, NEW p, NEW d, NEW slash, NEW w, Called(op, p, d, slash, w), UNCHANGED tree
    PROVE  Abstract!Request
<1>1. /\ op \in Ops /\ p \in Paths /\ d \in Paths /\ w \in Words \cup {0}
      /\ pc = "idle" /\ pc' = "called"
      /\ call' = [op |-> op, path |-> p, dst |-> d, slash |-> slash, word |-> w]
  BY DEF Called, Call
<1>2. req = [op |-> "none"] /\ res = <<>> /\ res' = <<>>
  BY <1>1 DEF req, res
<1>3. req' = [op |-> op, path |-> p, dst |-> d, word |-> w]
  BY <1>1 DEF req
<1>4. op \in {"mknod", "mkdir", "unlink", "rmdir", "rename", "chmod", "truncate", "write"}
  BY <1>1, NamespaceAssumption
<1>5. p \in Abstract!Paths /\ d \in Abstract!Paths
  BY <1>1, SamePaths
<1>. QED  BY <1>1, <1>2, <1>3, <1>4, <1>5 DEF Abstract!Request, Abstract!Idle

\* The handler's operation of the tree.
Operation ==
    LET p == req.path
    IN  \/ Abstract!Create(p) \/ Abstract!NotFound(p) \/ Abstract!Empty(p)
        \/ Abstract!IsDirectory(p) \/ Abstract!Unlink(p) \/ Abstract!Rmdir(p)
        \/ Abstract!Rename(p, req.dst) \/ Abstract!Chmod(p) \/ Abstract!Write(p)

LEMMA OperationIsNext == TInv /\ Busy /\ Operation => Abstract!Next
BY IsRunning DEF Operation, Abstract!Next

-----------------------------------------------------------------------------
(***************************************************************************)
(* The steps that implement an operation.                                  *)
(***************************************************************************)
LEMMA RefuseRefines ==
    RInv /\ Refuse /\ UNCHANGED tree /\ Frontend = "fuse" => Operation
<1>. SUFFICES ASSUME RInv, Refuse, UNCHANGED tree, Frontend = "fuse" PROVE Operation
  OBVIOUS
<1>0. TInv /\ Shallow /\ Sound /\ LooksUp /\ pc = "called" /\ Busy /\ Error # 0
  BY Lookup DEF RInv, TInv, Refuse, Busy
<1>1. PICK p \in Paths, d \in Paths :
         p = call.path /\ d = call.dst /\ p = req.path /\ d = req.dst
  BY <1>0, IsRunning DEF TInv, Sound, NInv, TypeOK
<1>2. Abstract!Fail(Error)
  BY <1>0, AnswerIs DEF Refuse, Abstract!Fail
<1>3. /\ \A ops : call.op \in ops => Abstract!Running(ops)
      /\ req.op = call.op
  BY <1>0, IsRunning
<1>4. /\ KernelAllows(call.op, p, d, call.slash) /\ Defined(call.op, p, d) /\ call.op \in Ops
  BY <1>0, <1>1 DEF TInv, Knowing
<1>5. /\ \A q \in Paths : /\ tree[q].kind = "dir" <=> translate(q) > 0 /\ Type(translate(q)) = "dir"
                          /\ tree[q].kind = "file" <=> translate(q) > 0 /\ Type(translate(q)) = "file"
                          /\ Abstract!Exists(q) <=> translate(q) > 0
                          /\ ~(translate(q) > 0) => Abstract!Missing(q) = translate(q)
                          /\ translate(q) \in Answers
                          /\ translate(q) > 0 => Type(translate(q)) \in {"dir", "file"}
                          /\ translate(q) < 0 <=> ~(translate(q) > 0)
  <2>1. \A i \in Answers : i < 0 <=> ~(i > 0)
    BY Ranges DEF Answers, Inodes, ENOENT, ENOTDIR
  <2>2. \A q \in Paths : translate(q) \in Answers
    BY <1>0 DEF LooksUp
  <2>. QED  BY <1>0, <2>1, <2>2, Shows, TreeShows, MissingIs DEF LooksUp
<1>6. CASE call.op \in {"mknod", "mkdir"}
  <2>1. p # <<>> /\ p \in Paths \ {<<>>} /\ trancate_path(p) \in Paths
    BY <1>4, <1>6, PathShape DEF KernelAllows
  <2>2. PICK r \in Paths : r = trancate_path(p) /\ r = Abstract!Father(p)
    BY <2>1, SamePaths
  <2>3. translate(r) > 0 => Type(translate(r)) = "dir"
    BY <1>4, <2>1, <2>2 DEF KernelAllows
  <2>4. Error = CreateError(p)
    BY <1>1, <1>6 DEF Error
  <2>5. CreateError(p) =
           IF translate(r) < 0 THEN translate(r)
           ELSE IF translate(p) > 0 THEN EEXIST
           ELSE IF NoFreeSlot(translate(r)) THEN ENOSPC
           ELSE IF call.op = "mkdir" /\ Type(translate(r)) # "dir" THEN ENOTDIR
           ELSE IF call.op = "mknod" /\ NoFreeInode THEN ENOSPC ELSE 0
    <3>1. translate(r) < 0 <=> ~(translate(r) > 0)
      BY <1>5
    <3>. QED  BY <2>1, <2>2, <3>1 DEF CreateError
  <2>6. Abstract!Create(p)
    <3>1. CASE translate(r) < 0
      BY <1>2, <1>3, <1>5, <1>6, <2>2, <2>4, <2>5, <3>1 DEF Abstract!Create
    <3>2. CASE ~(translate(r) < 0) /\ translate(p) > 0
      BY <1>2, <1>3, <1>5, <1>6, <2>2, <2>4, <2>5, <3>2 DEF Abstract!Create, EEXIST
    <3>3. CASE ~(translate(r) < 0) /\ ~(translate(p) > 0)
      <4>1. tree[r].kind = "dir" /\ ~Abstract!Exists(p) /\ Type(translate(r)) = "dir"
        BY <1>5, <2>3, <3>3
      <4>2. Error = ENOSPC
        BY <1>0, <2>4, <2>5, <3>3, <4>1
      <4>. QED  BY <1>2, <1>3, <1>6, <2>2, <4>1, <4>2 DEF Abstract!Create, ENOSPC
    <3>. QED  BY <3>1, <3>2, <3>3
  <2>. QED  BY <1>1, <2>6 DEF Operation
<1>7. CASE call.op \notin {"mknod", "mkdir"} /\ translate(p) < 0
  <2>1. Error = translate(p)
    BY <1>1, <1>7 DEF Error
  <2>2. call.op \in {"unlink", "truncate", "rmdir", "rename", "chmod", "write"}
    BY <1>4, <1>7, NamespaceAssumption
  <2>3. Abstract!NotFound(p)
    BY <1>2, <1>3, <1>5, <1>7, <2>1, <2>2 DEF Abstract!NotFound
  <2>. QED  BY <1>1, <2>3 DEF Operation
<1>8. CASE call.op \in {"unlink", "truncate"} /\ ~(translate(p) < 0)
  <2>1. Error = IF Type(translate(p)) = "dir" THEN EISDIR ELSE 0
    BY <1>1, <1>8 DEF Error
  <2>2. Error = EISDIR /\ tree[p].kind = "dir"
    BY <1>0, <1>5, <1>8, <2>1
  <2>3. Abstract!IsDirectory(p)
    BY <1>2, <1>3, <1>8, <2>2 DEF Abstract!IsDirectory, EISDIR
  <2>. QED  BY <1>1, <2>3 DEF Operation
<1>9. CASE call.op = "rmdir" /\ ~(translate(p) < 0)
  <2>1. Error = RmdirError(p) /\ translate(p) > 0 /\ p # <<>>
    BY <1>1, <1>4, <1>5, <1>9 DEF Error, KernelAllows
  <2>2. CASE Type(translate(p)) = "file"
    <3>1. Error = ENOTDIR /\ tree[p].kind = "file"
      BY <1>5, <2>1, <2>2 DEF RmdirError
    <3>2. Abstract!Rmdir(p)
      BY <1>2, <1>3, <1>9, <3>1 DEF Abstract!Rmdir, ENOTDIR
    <3>. QED  BY <1>1, <3>2 DEF Operation
  <2>3. CASE Type(translate(p)) # "file"
    <3>1. PICK i \in Inodes : i = translate(p) /\ i > 0 /\ Type(i) = "dir"
      BY <1>5, <2>1, <2>3 DEF Answers, ENOENT, ENOTDIR
    <3>2. Error = ENOTEMPTY /\ \E s \in 1 .. NDIRENTS : Entries(i)[s].valid
      BY <1>0, <2>1, <3>1 DEF RmdirError
    <3>3. PICK s \in 1 .. NDIRENTS : Entries(i)[s].valid
      BY <3>2
    <3>4. Len(p) < MaxDepth
      <4>1. Len(p) # MaxDepth
        BY <1>0, <3>1, <3>3 DEF Shallow
      <4>2. Len(p) \in 0 .. MaxDepth /\ MaxDepth \in Nat
        BY PathShape, Ranges
      <4>. QED  BY <4>1, <4>2
    <3>5. Abstract!Children(p) # {}
      BY <1>0, <3>1, <3>3, <3>4, ChildrenAre
    <3>6. tree[p].kind = "dir"
      BY <1>5, <3>1
    <3>7. Abstract!Rmdir(p)
      BY <1>2, <1>3, <1>9, <3>2, <3>5, <3>6 DEF Abstract!Rmdir, ENOTEMPTY
    <3>. QED  BY <1>1, <3>7 DEF Operation
  <2>. QED  BY <2>2, <2>3
<1>10. CASE call.op = "rename" /\ ~(translate(p) < 0)
  <2>1. Error = RenameError(p, d) /\ Abstract!Exists(p)
    BY <1>1, <1>5, <1>10 DEF Error
  <2>2. Abstract!Father(p) = trancate_path(p) /\ Abstract!Father(d) = trancate_path(d)
    BY SamePaths
  <2>3. CASE translate(d) > 0
    <3>1. Error = EEXIST /\ Abstract!Exists(d)
      BY <1>5, <2>1, <2>3 DEF RenameError
    <3>2. Abstract!Rename(p, d)
      BY <1>2, <1>3, <1>10, <2>1, <3>1 DEF Abstract!Rename, EEXIST
    <3>. QED  BY <1>1, <3>2 DEF Operation
  <2>4. CASE ~(translate(d) > 0)
    <3>1. /\ Error = EINVAL /\ ~Abstract!Exists(d)
          /\ Abstract!Father(p) # Abstract!Father(d)
      BY <1>0, <1>5, <2>1, <2>2, <2>4 DEF RenameError
    <3>2. Abstract!Rename(p, d)
      BY <1>2, <1>3, <1>10, <2>1, <3>1 DEF Abstract!Rename, EINVAL
    <3>. QED  BY <1>1, <3>2 DEF Operation
  <2>. QED  BY <2>3, <2>4
<1>11. CASE call.op \in {"chmod", "write"} /\ ~(translate(p) < 0)
  <2>1. Error = 0
    BY <1>1, <1>11 DEF Error
  <2>. QED  BY <1>0, <2>1
<1>12. call.op \in {"mknod", "mkdir", "unlink", "rmdir", "rename", "chmod", "truncate", "write"}
  BY <1>4, NamespaceAssumption
<1>. QED  BY <1>6, <1>7, <1>8, <1>9, <1>10, <1>11, <1>12

LEMMA MkdirNoInodeRefines ==
    TInv /\ MkdirNoInode /\ UNCHANGED tree => Operation
<1>. SUFFICES ASSUME TInv, MkdirNoInode, UNCHANGED tree PROVE Operation
  OBVIOUS
<1>0. Sound /\ Strays /\ Standing /\ Busy /\ Creating /\ pc = "mkdir"
  BY Astray, CreatingStands DEF TInv, MkdirNoInode, Busy, Creating
<1>1. call.path \in Paths \ {<<>>} /\ req.path = call.path /\ req.op = call.op
  BY <1>0, IsRunning DEF Standing
<1>2. PICK p \in Paths \ {<<>>}, f \in Inodes \ {0}, n \in Names :
         p = call.path /\ f = Father /\ n = Last
  BY <1>0, <1>1, PathShape DEF TInv, Sound, NInv, AtWork, Standing, Last
<1>3. PICK r \in Paths : r = trancate_path(p) /\ r = Abstract!Father(p)
  BY SamePaths, PathShape
<1>4. f = translate(r) /\ f > 0 /\ Type(f) = "dir" /\ Named(f, n) = {} /\ n = p[Len(p)]
  BY <1>0, <1>2, <1>3, Ranges DEF Standing, Father, Last, Inodes
<1>5. tree[r].kind = "dir"
  BY <1>0, <1>4, Shows
<1>6. ~Abstract!Exists(p)
  <2>1. ~(translate(p) > 0)
    BY <1>0, <1>3, <1>4 DEF Strays
  <2>. QED  BY <1>0, <2>1, TreeShows
<1>7. Abstract!Fail(-28)
  BY <1>0, AnswerIs DEF MkdirNoInode, ENOSPC, Abstract!Fail
<1>8. Abstract!Running({"mknod", "mkdir"})
  BY <1>0, IsRunning DEF TInv, Sound, NInv, AtWork
<1>9. Abstract!Create(p)
  BY <1>3, <1>5, <1>6, <1>7, <1>8 DEF Abstract!Create
<1>. QED  BY <1>1, <1>2, <1>9 DEF Operation

\* Nothing is seen to change of a file when only entries are written.
LEMMA SameWordsSeen ==
    ASSUME TypeOK, UNCHANGED inode_region, \A b \in Blocks : blk'[b].word = blk[b].word
    PROVE  SeenKept(Paths)
<1>. SUFFICES ASSUME NEW i \in Inodes PROVE Seen(i)' = Seen(i)
  BY DEF SeenKept
<1>1. first(i) \in Blocks /\ first(i)' = first(i) /\ Type(i)' = Type(i)
  BY DEF TypeOK, first, Inode, Type
<1>. QED  BY <1>1 DEF Seen

LEMMA SameCardinality == \A S : Abstract!Cardinality(S) = Cardinality(S)
BY DEF Abstract!Cardinality, Cardinality

LEMMA CreateEntryRefines ==
    RInv /\ Sound' /\ CreateEntry => Operation
<1>. SUFFICES ASSUME RInv, Sound', CreateEntry PROVE Operation
  OBVIOUS
<1>0. /\ TInv /\ Sound /\ TypeOK /\ Standing /\ Busy /\ Creating /\ pc = "entry"
      /\ call.op \in {"mknod", "mkdir"} /\ call' = call
  BY CreatingStands DEF RInv, TInv, Sound, NInv, AtWork, CreateEntry, Busy, Creating, Answer
<1>1. /\ call.path \in Paths \ {<<>>} /\ ~(translate(call.path) > 0)
      /\ loc.inum \in Inodes /\ translate(call.path)' = loc.inum
      /\ \A q \in Paths \ {call.path} : Leads(q, q)
  BY <1>0, EntryPaths
<1>2. req.path = call.path /\ req.op = call.op /\ Abstract!Running({"mknod", "mkdir"})
  BY <1>0, IsRunning
<1>3. /\ inode_region' = inode_region
      /\ loc.slot \in 1 .. NDIRENTS
      /\ \A b \in Blocks : blk'[b].word = blk[b].word
  BY <1>0, AfterEntry
<1>4. /\ loc.inum \in Inodes \ {0, 1}
      /\ Type(loc.inum) = IF call.op = "mkdir" THEN "dir" ELSE "file"
      /\ call.op = "mknod" => first(loc.inum) = 0
  BY <1>0, <1>1 DEF TInv, Knowing, Sound, NInv, AtWork
<1>5. PICK p \in Paths \ {<<>>}, i \in Inodes, f \in Inodes \ {0}, k \in 1 .. NDIRENTS :
         p = call.path /\ i = loc.inum /\ f = Father /\ k = loc.slot
  BY <1>0, <1>1, <1>3 DEF TInv, Sound, NInv, AtWork, Standing
<1>6. PICK r \in Paths : r = trancate_path(p) /\ r = Abstract!Father(p)
  BY SamePaths, PathShape
<1>7. f = translate(r) /\ f > 0 /\ Type(f) = "dir" /\ ~Entries(f)[k].valid
  BY <1>0, <1>5, <1>6, Ranges DEF Standing, Father, Inodes
<1>8. tree[r].kind = "dir" /\ Cardinality(Abstract!Children(r)) < NDIRENTS
  BY <1>0, <1>7, Shows, FewChildren
<1>9. ~Abstract!Exists(p)
  BY <1>0, <1>1, <1>5, TreeShows
<1>. DEFINE v == IF call.op = "mkdir" THEN Abstract!Directory ELSE Abstract!File(0)
<1>10. At(p)' = v
  <2>1. translate(p)' = i /\ i > 0
    <3>1. translate(call.path)' = translate(p)'
      BY <1>0, <1>5
    <3>. QED  BY <1>1, <1>4, <1>5, <3>1, Ranges DEF Inodes
  <2>2. /\ Type(i)' = IF call.op = "mkdir" THEN "dir" ELSE "file"
        /\ call.op = "mknod" => first(i)' = 0
    BY <1>3, <1>4, <1>5 DEF Type, first
  <2>3. At(p)' = Seen(i)'
    BY <2>1 DEF At
  <2>4. CASE call.op = "mkdir"
    BY <2>2, <2>3, <2>4 DEF Seen, Abstract!Directory
  <2>5. CASE call.op = "mknod"
    BY <2>2, <2>3, <2>5 DEF Seen, Abstract!File
  <2>. QED  BY <1>0, <2>4, <2>5
<1>11. tree' = [tree EXCEPT ![p] = v]
  <2>1. SeenKept(Paths)
    BY <1>0, <1>3, SameWordsSeen
  <2>2. SeenKept(Paths \ {p})
    BY <2>1 DEF SeenKept
  <2>3. \A q \in Paths \ {p} : Leads(q, q)
    BY <1>1, <1>5
  <2>. HIDE DEF v
  <2>. QED  BY <1>0, <1>10, <2>2, <2>3, TreeBut
<1>12. Abstract!Answer(0)
  BY <1>0, AnswerIs DEF CreateEntry
<1>13. Abstract!Create(p)
  BY <1>0, <1>2, <1>6, <1>8, <1>9, <1>11, <1>12, SameCardinality DEF Abstract!Create
<1>. QED  BY <1>2, <1>5, <1>13 DEF Operation

LEMMA EntryGoneRefines ==
    RInv /\ Sound' /\ (UnlinkEntry \/ RmdirEntry) => Operation
<1>. SUFFICES ASSUME RInv, Sound', UnlinkEntry \/ RmdirEntry PROVE Operation
  OBVIOUS
<1>0. /\ TInv /\ Sound /\ TypeOK /\ Busy /\ call' = call /\ ~call.slash
      /\ pc \in {"unlink", "rmdir"}
  BY DEF RInv, TInv, Sound, NInv, Knowing, UnlinkEntry, RmdirEntry, Busy, Answer
<1>1. /\ call.path \in Paths \ {<<>>} /\ translate(call.path) > 0
      /\ ~(translate(call.path)' > 0)
      /\ \A q \in Paths \ {call.path} : Leads(q, q)
  BY <1>0, GonePaths
<1>2. /\ Father \in Inodes \ {0} /\ Type(Father) = "dir" /\ Named(Father, Last) # {}
      /\ blk' = WithoutEntries(Father, Last) /\ UNCHANGED inode_region
  BY <1>0, EntryGoes
<1>3. PICK g, n : g \in Inodes /\ g = Father /\ n = Last
  BY <1>2
<1>4. \A b \in Blocks : blk'[b].word = blk[b].word
  BY <1>0, <1>2, <1>3, AfterRemoval
<1>5. req.path = call.path /\ \A ops : call.op \in ops => Abstract!Running(ops)
  BY <1>0, IsRunning
<1>6. PICK p \in Paths \ {<<>>}, t \in Inodes : p = call.path /\ t = translate(p) /\ t > 0
  <2>1. translate(call.path) \in Inodes
    BY <1>0, <1>1, FoundLink
  <2>. QED  BY <1>1, <2>1
<1>7. tree' = [tree EXCEPT ![p] = Abstract!Absent]
  <2>1. At(p)' = Abstract!Absent
    <3>1. translate(call.path)' = translate(p)'
      BY <1>0, <1>6
    <3>. QED  BY <1>1, <3>1 DEF At, Absent, Abstract!Absent
  <2>2. SeenKept(Paths)
    BY <1>0, <1>2, <1>4, SameWordsSeen
  <2>3. SeenKept(Paths \ {p})
    BY <2>2 DEF SeenKept
  <2>4. \A q \in Paths \ {p} : Leads(q, q)
    BY <1>1, <1>6
  <2>. QED  BY <1>0, <2>1, <2>3, <2>4, TreeBut
<1>8. tree[p] = Seen(t)
  BY <1>0, <1>6, TreeShows DEF At
<1>9. CASE UnlinkEntry
  <2>1. Removing /\ pc = "unlink"
    BY <1>9 DEF UnlinkEntry, Removing
  <2>2. Type(t) = "file" /\ first(t) = 0 /\ call.op = "unlink"
    BY <1>0, <1>6, <2>1 DEF TInv, Knowing, Sound, NInv, AtWork
  <2>3. tree[p] = Abstract!File(0)
    BY <1>8, <2>2 DEF Seen, Abstract!File
  <2>4. Abstract!Answer(0)
    <3>1. Answer(0)
      BY <1>0, <1>2, <1>9 DEF UnlinkEntry, Father, Last, get_name
    <3>. QED  BY <1>0, <3>1, AnswerIs
  <2>5. Abstract!Unlink(p)
    BY <1>5, <1>7, <2>2, <2>3, <2>4 DEF Abstract!Unlink
  <2>. QED  BY <1>5, <1>6, <2>5 DEF Operation
<1>10. CASE RmdirEntry
  <2>1. /\ call.op = "rmdir" /\ Type(t) = "dir"
        /\ \A s \in 1 .. NDIRENTS : ~Entries(t)[s].valid
    BY <1>0, <1>6, <1>10 DEF RmdirEntry, TInv, Knowing
  <2>2. tree[p].kind = "dir"
    BY <1>8, <2>1 DEF Seen
  <2>3. Abstract!Children(p) = {}
    <3>1. \A x : Named(t, x) = {}
      BY <2>1 DEF Named
    <3>. QED  BY <1>0, <1>6, <2>1, <3>1, ChildrenAre
  <2>4. Abstract!Answer(0)
    BY <1>0, <1>10, AnswerIs DEF RmdirEntry
  <2>5. Abstract!Rmdir(p)
    BY <1>5, <1>7, <2>1, <2>2, <2>3, <2>4 DEF Abstract!Rmdir
  <2>. QED  BY <1>5, <1>6, <2>5 DEF Operation
<1>. QED  BY <1>9, <1>10

LEMMA RenameRefines == RInv /\ Sound' /\ Rename => Operation
<1>. SUFFICES ASSUME RInv, Sound', Rename PROVE Operation
  OBVIOUS
<1>0. /\ TInv /\ Sound /\ TypeOK /\ Busy /\ call' = call /\ call.op = "rename"
      /\ Pictured /\ Pictured' /\ Starts("rename")
  <2>1. TInv /\ Sound /\ TypeOK /\ Busy /\ call' = call /\ call.op = "rename" /\ Starts("rename")
    BY DEF RInv, TInv, Sound, NInv, Rename, Starts, Busy, Answer
  <2>. QED  BY <2>1, SoundPictured, PTL
<1>1. /\ Len(call.path) = Len(call.dst)
      /\ \A q \in Paths : LeadsAfter(call.path, call.dst, q)
  BY <1>0, RenamePaths
<1>2. /\ call.path \in Paths \ {<<>>} /\ call.dst \in Paths \ {<<>>}
      /\ translate(call.path) > 0 /\ translate(call.dst) \in {ENOENT, ENOTDIR}
      /\ trancate_path(call.dst) = trancate_path(call.path)
  BY <1>0, RenameMay
<1>3. SeenKept(Paths)
  <2>1. UNCHANGED inode_region /\ \A b \in Blocks : blk'[b].word = blk[b].word
    BY <1>0, RenameDoes
  <2>. QED  BY <1>0, <2>1, SameWordsSeen
<1>4. PICK p \in Paths \ {<<>>}, d \in Paths \ {<<>>} : p = call.path /\ d = call.dst
  BY <1>2
<1>5. /\ req.path = p /\ req.dst = d /\ Abstract!Running({"rename"})
  BY <1>0, <1>4, IsRunning
<1>6. Abstract!Exists(p) /\ ~Abstract!Exists(d) /\ Abstract!Father(p) = Abstract!Father(d)
  BY <1>0, <1>2, <1>4, SamePaths DEF Pictured, ENOENT, ENOTDIR
<1>7. ASSUME NEW q \in Paths
      PROVE  tree'[q] = IF Abstract!Under(d, q) THEN tree[p \o SubSeq(q, Len(d) + 1, Len(q))]
                        ELSE IF Abstract!Under(p, q) THEN Abstract!Absent ELSE tree[q]
  <2>1. LeadsAfter(p, d, q) /\ Len(p) = Len(d)
    BY <1>1, <1>4
  <2>2. CASE Abstract!Under(d, q)
    <3>1. PICK b \in Paths : b = Back(p, d, q)
      BY <2>1, BackIs
    <3>2. Leads(b, q) /\ SeenKept({b}) /\ b = p \o SubSeq(q, Len(d) + 1, Len(q))
      BY <1>3, <2>1, <2>2, <3>1 DEF LeadsAfter, SeenKept, Back
    <3>3. tree'[q] = tree[b]
      BY <1>0, <3>2, ShowsOn
    <3>. QED  BY <2>2, <3>2, <3>3
  <2>3. CASE ~Abstract!Under(d, q) /\ Abstract!Under(p, q)
    <3>1. ~(translate(q)' > 0)
      BY <2>1, <2>3 DEF LeadsAfter
    <3>2. tree'[q] = At(q)'
      BY <1>0 DEF Pictured
    <3>. QED  BY <2>3, <3>1, <3>2 DEF At, Absent, Abstract!Absent
  <2>4. CASE ~Abstract!Under(d, q) /\ ~Abstract!Under(p, q)
    <3>1. Leads(q, q) /\ SeenKept({q})
      BY <1>3, <2>1, <2>4 DEF LeadsAfter, SeenKept
    <3>2. tree'[q] = tree[q]
      BY <1>0, <3>1, ShowsOn
    <3>. QED  BY <2>4, <3>2
  <2>. QED  BY <2>2, <2>3, <2>4
<1>8. tree' = [q \in Abstract!Paths |->
                 IF Abstract!Under(d, q) THEN tree[p \o SubSeq(q, Len(d) + 1, Len(q))]
                 ELSE IF Abstract!Under(p, q) THEN Abstract!Absent ELSE tree[q]]
  <2>1. tree' = [q \in Paths |-> tree'[q]]
    BY <1>0 DEF Pictured
  <2>. QED  BY <1>7, <2>1, SamePaths
<1>9. Abstract!Answer(0)
  BY <1>0, AnswerIs DEF Rename
<1>10. Abstract!Rename(p, d)
  BY <1>5, <1>6, <1>8, <1>9 DEF Abstract!Rename
<1>. QED  BY <1>5, <1>10 DEF Operation

\* A step that writes to one file and no directory.
LEMMA FileWritten ==
    ASSUME Sound, Sound', Quiet, NEW p \in Paths, NEW t \in Inodes, t = translate(p), t > 0,
           Type(t) = "file", NEW w, Seen(t)'.word = w,
           \A i \in Inodes \ {t} : Seen(i)' = Seen(i)
    PROVE  tree' = [tree EXCEPT ![p] = Abstract!File(w)]
<1>1. Calm
  BY QuietIsCalm
<1>2. \A q \in Paths : translate(q)' = translate(q)
  BY <1>1, CalmTypes
<1>3. \A q \in Paths \ {p} : Leads(q, q)
  BY <1>2 DEF Leads
<1>4. At(p)' = Abstract!File(w)
  <2>1. translate(p)' = t /\ Type(t)' = "file"
    BY <1>2 DEF Quiet
  <2>2. At(p)' = Seen(t)'
    BY <2>1 DEF At
  <2>. QED  BY <2>1, <2>2 DEF Seen, Abstract!File
<1>5. SeenKept(Paths \ {p})
  <2>. SUFFICES ASSUME NEW q \in Paths \ {p}, NEW i \in Inodes, i > 0, i = translate(q)
                PROVE  Seen(i)' = Seen(i)
    BY DEF SeenKept
  <2>1. i # t
    BY PathsApart
  <2>. QED  BY <2>1
<1>. QED  BY <1>3, <1>4, <1>5, TreeBut

LEMMA TruncateInodeRefines == TInv /\ Sound' /\ TruncateInode => Operation
<1>. SUFFICES ASSUME TInv, Sound', TruncateInode PROVE Operation
  OBVIOUS
<1>0. /\ Sound /\ TypeOK /\ Busy /\ call' = call /\ Removing /\ Quiet /\ blk' = blk
      /\ pc = "clear" /\ call.op \in {"truncate", "unlink"}
  BY TruncateInodeQuiet DEF TInv, Sound, NInv, AtWork, TruncateInode, Busy, Removing, Answer
<1>1. /\ call.path \in Paths \ {<<>>} /\ translate(call.path) = loc.inum
      /\ loc.inum > 0 /\ loc.inum \in Inodes \ {0, 1} /\ Type(loc.inum) = "file"
  BY <1>0, RemovedFile
<1>2. PICK p \in Paths, t \in Inodes : p = call.path /\ t = loc.inum
  BY <1>1
<1>3. inode_region' = [inode_region EXCEPT ![t].direct0 = 0]
  BY <1>2 DEF TruncateInode
<1>4. first(t)' = 0 /\ \A i \in Inodes \ {t} : inode_region'[i] = inode_region[i]
  BY <1>0, <1>3 DEF TypeOK, first, Inode
<1>5. Seen(t)'.word = 0
  BY <1>4 DEF Seen
<1>6. \A i \in Inodes \ {t} : Seen(i)' = Seen(i)
  BY <1>0, <1>4 DEF Seen, Type, first
<1>7. tree' = [tree EXCEPT ![p] = Abstract!File(0)]
  BY <1>0, <1>1, <1>2, <1>5, <1>6, FileWritten
<1>8. tree[p].kind = "file"
  BY <1>0, <1>1, <1>2, Shows
<1>9. /\ req.path = p /\ req.op = call.op /\ Abstract!Running({"unlink", "truncate"})
  BY <1>0, <1>2, IsRunning
<1>10. IF req.op = "truncate" THEN Abstract!Answer(0) ELSE UNCHANGED <<req, res>>
  <2>1. CASE call.op = "truncate"
    <3>1. Answer(0)
      BY <2>1 DEF TruncateInode
    <3>. QED  BY <1>0, <1>9, <2>1, <3>1, AnswerIs
  <2>2. CASE call.op # "truncate"
    <3>1. pc' = "unmap" /\ call' = call
      BY <2>2 DEF TruncateInode
    <3>2. Busy'
      BY <3>1 DEF Busy
    <3>. QED  BY <1>0, <1>9, <2>2, <3>1, <3>2, NoAnswer
  <2>. QED  BY <2>1, <2>2
<1>11. Abstract!Empty(p)
  BY <1>7, <1>8, <1>9, <1>10 DEF Abstract!Empty
<1>. QED  BY <1>9, <1>11 DEF Operation

\* The block that a file gets is cleared: it shows what no block showed.
LEMMA WriteBlockUnseen == TInv /\ WriteBlock => SeenKept(Paths)
<1>. SUFFICES ASSUME TInv, WriteBlock, NEW i \in Inodes PROVE Seen(i)' = Seen(i)
  BY DEF SeenKept
<1>. DEFINE t == translate(call.path)
<1>0. NInv /\ blk \in [Blocks -> Block] /\ first(i) \in Blocks
  BY DEF TInv, Sound, NInv, TypeOK, first, Inode
<1>1. first(t) = 0
  BY <1>0, WriteBlockChanges
<1>2. PICK b : /\ b # 0 /\ first(i) # b
               /\ Type(i)' = Type(i) /\ first(i)' = IF i = t THEN b ELSE first(i)
               /\ blk' = [blk EXCEPT ![b] = ZeroBlock]
               /\ i = t => first(i)' \in Blocks
  <2>1. /\ inode_region' \in [Inodes -> Inode]
        /\ \E b : /\ b # 0 /\ first(i) # b
                  /\ Type(i)' = Type(i) /\ first(i)' = IF i = t THEN b ELSE first(i)
                  /\ blk' = [blk EXCEPT ![b] = ZeroBlock]
    BY <1>0, WriteBlockChanges
  <2>2. inode_region'[i].direct0 \in Blocks
    BY <2>1 DEF Inode
  <2>. QED  BY <2>1, <2>2 DEF first
<1>. HIDE DEF t
<1>3. CASE i = t
  <2>1. blk'[b] = ZeroBlock /\ ZeroBlock.word = 0
    BY <1>0, <1>2, <1>3 DEF ZeroBlock
  <2>. QED  BY <1>1, <1>2, <1>3, <2>1 DEF Seen
<1>4. CASE i # t
  <2>1. blk'[first(i)] = blk[first(i)]
    BY <1>0, <1>2
  <2>. QED  BY <1>2, <1>4, <2>1 DEF Seen
<1>. QED  BY <1>3, <1>4

LEMMA WriteDataRefines == TInv /\ Sound' /\ WriteData => Operation
<1>. SUFFICES ASSUME TInv, Sound', WriteData PROVE Operation
  OBVIOUS
<1>0. /\ Sound /\ NInv /\ TypeOK /\ Busy /\ call' = call /\ Quiet /\ Writing
      /\ pc = "data" /\ call.op = "write" /\ Answer(1)
  <2>1. Sound /\ NInv /\ TypeOK /\ Quiet
    BY WriteDataQuiet DEF TInv, Sound, NInv
  <2>. QED  BY <2>1, WriteDataChanges DEF Busy, Writing, Answer
<1>1. /\ loc.inum = translate(call.path) /\ Type(loc.inum) = "file"
      /\ call.path \in Paths
  BY <1>0 DEF TInv, Knowing, TypeOK
<1>2. PICK p \in Paths, t \in Inodes, b \in Blocks :
         /\ p = call.path /\ t = loc.inum /\ b = loc.block /\ b # 0 /\ first(t) = b
         /\ \A i \in Inodes \ {t} : first(i) # b
         /\ inode_region' = inode_region
         /\ \A c \in Blocks : blk'[c].word = IF c = b THEN call.word ELSE blk[c].word
  <2>1. /\ loc.inum \in Inodes /\ loc.block \in Blocks
        /\ first(loc.inum) = loc.block /\ loc.block # 0
        /\ \A i \in Inodes \ {loc.inum} : first(i) # loc.block
        /\ inode_region' = inode_region
        /\ \A c \in Blocks : blk'[c].word = IF c = loc.block THEN call.word ELSE blk[c].word
    BY <1>0, WriteDataChanges
  <2>. QED  BY <1>1, <2>1
<1>3. t = translate(p) /\ t > 0 /\ Type(t) = "file"
  <2>1. t # 0
    BY <1>0, <1>1, <1>2, Lookup, Ranges DEF LooksUp, Answers, Inodes, ENOENT, ENOTDIR
  <2>. QED  BY <1>1, <1>2, <2>1, Ranges DEF Inodes
<1>4. \A i \in Inodes : /\ Type(i)' = Type(i) /\ first(i)' = first(i)
                         /\ first(i) \in Blocks
  BY <1>0, <1>2 DEF Type, first, TypeOK, Inode
<1>5. req.path = p /\ req.word = call.word /\ Abstract!Running({"write"})
  BY <1>0, <1>2, IsRunning
<1>6. Seen(t)'.word = req.word
  BY <1>2, <1>3, <1>4, <1>5 DEF Seen
<1>7. \A i \in Inodes \ {t} : Seen(i)' = Seen(i)
  BY <1>2, <1>4 DEF Seen
<1>8. tree' = [tree EXCEPT ![p] = Abstract!File(req.word)]
  <2>1. PICK w : w = req.word
    OBVIOUS
  <2>. QED  BY <1>0, <1>3, <1>6, <1>7, <2>1, FileWritten
<1>9. tree[p].kind = "file"
  BY <1>0, <1>3, Shows
<1>10. Abstract!Answer(1)
  BY <1>0, AnswerIs
<1>11. Abstract!Write(p)
  BY <1>5, <1>8, <1>9, <1>10 DEF Abstract!Write
<1>. QED  BY <1>5, <1>11 DEF Operation

LEMMA WriteNoBlockRefines == TInv /\ WriteNoBlock /\ UNCHANGED tree => Operation
<1>. SUFFICES ASSUME TInv, WriteNoBlock, UNCHANGED tree PROVE Operation
  OBVIOUS
<1>0. Sound /\ TypeOK /\ Busy /\ Pictured /\ pc = "called" /\ call.op = "write"
  BY SoundPictured DEF TInv, Sound, NInv, WriteNoBlock, Starts, Busy
<1>1. /\ call.path \in Paths /\ translate(call.path) > 0 /\ Type(translate(call.path)) = "file"
      /\ first(translate(call.path)) = 0
  BY <1>0 DEF TInv, Knowing, Defined, TypeOK, WriteNoBlock, first
<1>2. req.path = call.path /\ Abstract!Running({"write"})
  BY <1>0, IsRunning
<1>3. tree[call.path] = Abstract!File(0)
  <2>1. tree[call.path] = Seen(translate(call.path))
    BY <1>0, <1>1 DEF Pictured, At
  <2>. QED  BY <1>1, <2>1 DEF Seen, Abstract!File
<1>4. Abstract!Fail(0)
  BY <1>0, AnswerIs DEF WriteNoBlock, Abstract!Fail
<1>5. Abstract!Write(call.path)
  BY <1>2, <1>3, <1>4 DEF Abstract!Write, Abstract!File
<1>. QED  BY <1>2, <1>5 DEF Operation

LEMMA ChmodRefines == TInv /\ Chmod /\ UNCHANGED tree => Operation
<1>. SUFFICES ASSUME TInv, Chmod, UNCHANGED tree PROVE Operation
  OBVIOUS
<1>0. Sound /\ NInv /\ TypeOK /\ EntriesLead /\ Busy /\ pc = "called" /\ call.op = "chmod" /\ Error = 0
  BY DEF TInv, Sound, NInv, Chmod, Starts, Busy
<1>1. call.path \in Paths /\ translate(call.path) \in Inodes \ {0}
  BY <1>0, MayChange
<1>2. req.path = call.path /\ Abstract!Running({"chmod"})
  BY <1>0, IsRunning
<1>3. Abstract!Exists(call.path)
  <2>1. translate(call.path) > 0
    BY <1>1, Ranges DEF Inodes
  <2>. QED  BY <1>0, <1>1, <2>1, TreeShows
<1>4. Abstract!Fail(0)
  BY <1>0, AnswerIs DEF Chmod, Abstract!Fail
<1>5. Abstract!Chmod(call.path)
  BY <1>2, <1>3, <1>4 DEF Abstract!Chmod
<1>. QED  BY <1>2, <1>5 DEF Operation

-----------------------------------------------------------------------------
(***************************************************************************)
(* Refinement.                                                             *)
(***************************************************************************)
\* The steps that the tree does not see.
UnseenStep ==
    \/ MknodStart \/ MkdirBlock \/ MkdirInode \/ CreateInode
    \/ TruncateFree \/ UnlinkMap \/ RmdirMap
    \/ WriteBlock \/ WriteMark \/ WriteFound

LEMMA UnseenStutters == TInv /\ Sound' /\ UnseenStep => UNCHANGED <<tree, req, res>>
<1>. SUFFICES ASSUME TInv, Sound', UnseenStep PROVE UNCHANGED <<tree, req, res>>
  OBVIOUS
<1>0. Sound
  BY DEF TInv
<1>1. Busy /\ Busy' /\ call' = call
  BY DEF UnseenStep, MknodStart, MkdirBlock, MkdirInode, CreateInode, TruncateFree, UnlinkMap,
         RmdirMap, WriteBlock, WriteMark, WriteFound, Starts, Busy
<1>2. tree' = tree
  <2>1. CASE MkdirBlock
    BY <1>0, <2>1, MkdirBlockQuiet, MkdirBlockUnseen, QuietIsCalm, SameTree
  <2>2. CASE CreateInode
    BY <1>0, <2>2, CreateInodeCalm, CreateInodeUnseen, SameTree
  <2>3. CASE \/ MknodStart \/ MkdirInode \/ TruncateFree \/ UnlinkMap \/ RmdirMap
             \/ WriteMark \/ WriteFound
    <3>1. UNCHANGED <<inode_region, blk>>
      BY <2>3 DEF MknodStart, MkdirInode, TruncateFree, UnlinkMap, RmdirMap, WriteMark,
                  WriteFound, image
    <3>. QED  BY <1>0, <3>1, SameImageTree
  <2>4. CASE WriteBlock
    BY <1>0, <2>4, WriteBlockQuiet, WriteBlockUnseen, QuietIsCalm, SameTree
  <2>. QED  BY <2>1, <2>2, <2>3, <2>4 DEF UnseenStep
<1>. QED  BY <1>1, <1>2, NoAnswer

LEMMA StepRefines ==
    RInv /\ RInv' /\ [Next]_vars /\ InPlace' /\ Frontend = "fuse" =>
        [Abstract!Next]_<<tree, req, res>>
<1>. SUFFICES ASSUME RInv, RInv', [Next]_vars, InPlace', Frontend = "fuse"
              PROVE  Abstract!Next \/ UNCHANGED <<tree, req, res>>
  OBVIOUS
<1>0. TInv /\ Sound /\ Sound' /\ TypeOK
  BY DEF RInv, TInv, Sound, NInv
<1>1. CASE UNCHANGED vars
  <2>1. UNCHANGED <<inode_region, blk, pc, call, ret>>
    BY <1>1 DEF vars
  <2>2. UNCHANGED <<req, res>>
    BY <2>1 DEF req, res
  <2>. QED  BY <1>0, <2>1, <2>2, SameImageTree
<1>2. CASE UnseenStep
  BY <1>0, <1>2, UnseenStutters
<1>3. CASE \E op, p, d, slash, w : Called(op, p, d, slash, w)
  <2>1. UNCHANGED <<inode_region, blk>>
    BY <1>3 DEF Called, Call, image
  <2>2. UNCHANGED tree
    BY <1>0, <2>1, SameImageTree
  <2>3. Abstract!Request
    BY <1>0, <1>3, <2>2, CallRequests
  <2>. QED  BY <2>3 DEF Abstract!Next
<1>4. CASE Return \/ MkdirNoBlock \/ CreateAborts
  <2>1. /\ UNCHANGED <<inode_region, blk>>
        /\ pc \notin {"idle", "dead", "overrun"} /\ pc' \in {"idle", "dead"}
    BY <1>4 DEF Return, MkdirNoBlock, CreateAborts, Abort, Starts, image
  <2>2. UNCHANGED tree
    BY <1>0, <2>1, SameImageTree
  <2>3. Abstract!Done
    BY <1>0, <2>1, <2>2, Ends
  <2>. QED  BY <2>3 DEF Abstract!Next
<1>5. CASE Mount
  <2>1. UNCHANGED <<inode_region, blk>> /\ pc = "dead" /\ pc' = "idle"
    BY <1>5 DEF Mount, image
  <2>2. UNCHANGED <<req, res>>
    BY <2>1 DEF req, res
  <2>. QED  BY <1>0, <2>1, <2>2, SameImageTree
<1>6. CASE Refuse \/ MkdirNoInode \/ WriteNoBlock \/ Chmod
  <2>1. UNCHANGED <<inode_region, blk>>
    <3>1. CASE Chmod
      <4>1. inode_region' = inode_region /\ blk' = blk
        <5>1. inode_region' = [inode_region EXCEPT ![translate(call.path)].type = @]
          BY <3>1 DEF Chmod
        <5>2. inode_region \in [Inodes -> Inode]
          BY <1>0 DEF TypeOK
        <5>. QED  BY <3>1, <5>1, <5>2 DEF Chmod, Inode
      <4>. QED  BY <4>1
    <3>. QED  BY <1>6, <3>1 DEF Refuse, MkdirNoInode, WriteNoBlock, image
  <2>2. UNCHANGED tree
    BY <1>0, <2>1, SameImageTree
  <2>3. Busy
    BY <1>6 DEF Refuse, MkdirNoInode, WriteNoBlock, Chmod, Starts, Busy
  <2>4. Operation
    BY <1>0, <1>6, <2>2, RefuseRefines, MkdirNoInodeRefines, WriteNoBlockRefines, ChmodRefines
  <2>. QED  BY <1>0, <2>3, <2>4, OperationIsNext
<1>7. CASE CreateEntry \/ UnlinkEntry \/ RmdirEntry \/ Rename \/ TruncateInode \/ WriteData
  <2>1. Busy
    BY <1>7 DEF CreateEntry, UnlinkEntry, RmdirEntry, Rename, TruncateInode, WriteData, Starts, Busy
  <2>2. Operation
    BY <1>0, <1>7, CreateEntryRefines, EntryGoneRefines, RenameRefines, TruncateInodeRefines,
       WriteDataRefines
  <2>. QED  BY <1>0, <2>1, <2>2, OperationIsNext
<1>. QED  BY <1>1, <1>2, <1>3, <1>4, <1>5, <1>6, <1>7, StepKinds
          DEF QuietStep, UnseenStep, WriteStep

LEMMA InitRefines == Init => Abstract!Init
<1>. SUFFICES ASSUME Init PROVE Abstract!Init
  OBVIOUS
<1>0. Sound /\ LooksUp /\ Pictured
  <2>1. Sound
    BY InitTree DEF TInv
  <2>. QED  BY <2>1, Lookup, SoundPictured
<1>1. req = [op |-> "none"] /\ res = <<>>
  BY DEF Init, req, res
<1>2. \A i \in Inodes : Type(i) = IF i = 1 THEN "dir" ELSE "none"
  BY DEF Init, Type
<1>3. ASSUME NEW p \in Paths
      PROVE  tree[p] = IF p = <<>> THEN Abstract!Directory ELSE Abstract!Absent
  <2>1. tree[p] = At(p)
    BY <1>0 DEF Pictured
  <2>2. CASE p = <<>>
    <3>1. At(p) = Seen(1) /\ Type(1) = "dir"
      BY <1>0, <2>2 DEF LooksUp, At, Sound, Marked
    <3>. QED  BY <2>1, <2>2, <3>1 DEF Seen, Abstract!Directory
  <2>3. CASE p # <<>>
    <3>1. ~(translate(p) > 0)
      <4>. SUFFICES ASSUME translate(p) > 0 PROVE FALSE
        OBVIOUS
      <4>1. translate(p) \in Inodes \ {0, 1}
        BY <1>0, <2>3, FoundLink
      <4>2. Type(translate(p)) \in {"dir", "file"}
        BY <1>0 DEF LooksUp
      <4>. QED  BY <1>2, <4>1, <4>2
    <3>. QED  BY <2>1, <2>3, <3>1 DEF At, Absent, Abstract!Absent
  <2>. QED  BY <2>2, <2>3
<1>4. tree = [p \in Abstract!Paths |-> IF p = <<>> THEN Abstract!Directory ELSE Abstract!Absent]
  <2>1. tree = [p \in Paths |-> tree[p]]
    BY <1>0 DEF Pictured
  <2>. QED  BY <1>3, <2>1, SamePaths
<1>. QED  BY <1>1, <1>4 DEF Abstract!Init

\* The directory tree implements a tree of names: when the kernel makes the calls,
\* whatever the image's size and whatever calls are made, for as long as nothing is
\* written beyond its place each handler takes effect in one step, answers for the
\* tree at that moment, and changes it nowhere else.
THEOREM NamespaceIsTree == Frontend = "fuse" => (Spec /\ []InPlace => ImplementsTree)
<1>. SUFFICES ASSUME Frontend = "fuse" PROVE Spec /\ []InPlace => ImplementsTree
  OBVIOUS
<1>1. RInv /\ [Next]_vars /\ InPlace' => RInv'
  BY RInvStep
<1>2. RInv /\ RInv' /\ [Next]_vars /\ InPlace' => [Abstract!Next]_<<tree, req, res>>
  BY StepRefines
<1>. QED  BY <1>1, <1>2, InitShallow, InitRefines, PTL DEF Spec, Abstract!Spec, ImplementsTree

-----------------------------------------------------------------------------
(***************************************************************************)
(* Lost inodes.                                                            *)
(***************************************************************************)
\* What is linked is what a path leads to.
LinkedIsFound ==
    \A i : i \in Linked <=> \E p \in Paths \ {<<>>} : i = translate(p) /\ translate(p) > 0

LEMMA LinkedFound == RInv => LinkedIsFound
<1>. SUFFICES ASSUME RInv PROVE LinkedIsFound
  OBVIOUS
<1>0. Sound /\ LooksUp /\ Shallow
  BY Lookup DEF RInv, TInv
<1>1. ASSUME NEW p \in Paths \ {<<>>}, translate(p) > 0
      PROVE  translate(p) \in Linked
  <2>1. PICK f \in Inodes, s \in 1 .. NDIRENTS :
           /\ f = translate(trancate_path(p)) /\ f > 0 /\ Type(f) = "dir"
           /\ trancate_path(p) \in Paths /\ Entries(f)[s].valid
           /\ Entries(f)[s].inode = translate(p)
    <3>1. /\ translate(trancate_path(p)) > 0 /\ translate(trancate_path(p)) \in Inodes
          /\ Type(translate(trancate_path(p))) = "dir" /\ trancate_path(p) \in Paths
          /\ \E s \in Named(translate(trancate_path(p)), p[Len(p)]) :
                /\ Link(<<translate(trancate_path(p)), s>>) = Entries(translate(trancate_path(p)))[s]
                /\ Link(<<translate(trancate_path(p)), s>>).inode = translate(p)
      BY <1>0, <1>1, FoundLink
    <3>2. PICK f \in Inodes : f = translate(trancate_path(p))
      BY <3>1
    <3>. QED  BY <3>1, <3>2 DEF Named
  <2>2. f \in Dirs
    BY <2>1 DEF Dirs
  <2>3. <<f, s>> \in Links /\ Link(<<f, s>>).inode = translate(p)
    BY <2>1, <2>2 DEF Links, Link
  <2>. QED  BY <2>3 DEF Linked
<1>2. ASSUME NEW l \in Links
      PROVE  \E p \in Paths \ {<<>>} : Link(l).inode = translate(p) /\ translate(p) > 0
  <2>1. /\ l \in DirLinks /\ l[1] \in Dirs
    BY <1>0, LinksAreDirLinks DEF Links
  <2>2. PICK e \in Inodes, s \in 1 .. NDIRENTS :
           /\ e = l[1] /\ s = l[2] /\ Type(e) = "dir"
           /\ Link(l) = Entries(e)[s] /\ Entries(e)[s].valid
           /\ Entries(e)[s].name \in Names
    BY <1>0, <2>1, LinkLeads
  <2>3. PICK q \in Paths : e = translate(q) /\ e > 0
    BY <1>0, <2>1, <2>2 DEF Dirs, LooksUp
  <2>4. Len(q) < MaxDepth
    <3>1. Len(q) # MaxDepth
      BY <1>0, <2>2, <2>3 DEF Shallow
    <3>2. Len(q) \in 0 .. MaxDepth /\ MaxDepth \in Nat
      BY PathShape, Ranges
    <3>. QED  BY <3>1, <3>2
  <2>5. PICK n \in Names : n = Entries(e)[s].name
    BY <2>2
  <2>6. s \in Named(e, n)
    BY <2>2, <2>5 DEF Named
  <2>7. translate(Append(q, n)) = Entries(e)[s].inode /\ translate(Append(q, n)) > 0
    BY <1>0, <2>2, <2>3, <2>4, <2>6, FoundIn
  <2>8. Append(q, n) \in Paths \ {<<>>}
    BY <2>4, Appended
  <2>. QED  BY <2>2, <2>7, <2>8
<1>. QED  BY <1>1, <1>2 DEF LinkedIsFound, Linked

\* What is linked stays so when a path leads to it after the step.
LEMMA LinkedKept ==
    ASSUME RInv, RInv', NEW S,
           \A p \in Paths \ {<<>>}, i \in Inodes \ S : i > 0 /\ i = translate(p) =>
              \E r \in Paths \ {<<>>} : translate(r)' = i
    PROVE  Linked \ S \subseteq Linked'
<1>0. LinkedIsFound /\ LinkedIsFound' /\ Sound
  BY LinkedFound, PTL DEF RInv, TInv
<1>. SUFFICES ASSUME NEW i \in Linked \ S PROVE i \in Linked'
  OBVIOUS
<1>1. PICK p \in Paths \ {<<>>} : i = translate(p) /\ i > 0
  BY <1>0 DEF LinkedIsFound
<1>2. i \in Inodes \ S
  BY <1>0, <1>1, FoundLink
<1>3. PICK r \in Paths \ {<<>>} : translate(r)' = i
  BY <1>1, <1>2
<1>. QED  BY <1>0, <1>1, <1>3 DEF LinkedIsFound

LEMMA CalmLinked ==
    RInv /\ RInv' /\ Calm => Linked \subseteq Linked'
<1>. SUFFICES ASSUME RInv, RInv', Calm PROVE Linked \subseteq Linked'
  OBVIOUS
<1>1. Sound /\ Sound'
  BY DEF RInv, TInv
<1>2. \A p \in Paths : translate(p)' = translate(p)
  BY <1>1, CalmTypes
<1>3. Linked \ {} \subseteq Linked'
  BY <1>2, LinkedKept
<1>. QED  BY <1>3

\* Nothing is under a path that is not there.
LEMMA NothingUnder ==
    ASSUME Sound, NEW d \in Paths \ {<<>>}, ~(translate(d) > 0)
    PROVE  \A q \in Paths : Abstract!Under(d, q) => ~(translate(q) > 0)
<1>. DEFINE S == {q \in Paths : Abstract!Under(d, q) => ~(translate(q) > 0)}
<1>0. LooksUp /\ Strays
  BY Lookup, Astray
<1>1. <<>> \in S
  <2>1. <<>> \in Paths
    BY <1>0 DEF LooksUp
  <2>2. Len(d) \in 0 .. MaxDepth /\ Len(d) # 0
    BY PathShape
  <2>3. ~Abstract!Under(d, <<>>)
    <3>1. Len(<<>>) = 0 /\ ~(0 >= Len(d))
      BY <2>2, Ranges
    <3>. QED  BY <3>1 DEF Abstract!Under
  <2>. QED  BY <2>1, <2>3
<1>2. ASSUME NEW q \in Paths, q # <<>>, trancate_path(q) \in S
      PROVE  q \in S
  <2>1. q \in Paths \ {<<>>}
    BY <1>2
  <2>2. Abstract!Under(d, q) <=> q = d \/ Abstract!Under(d, trancate_path(q))
    BY <2>1, UnderFather
  <2>3. ~(translate(trancate_path(q)) > 0) => ~(translate(q) > 0)
    BY <1>0, <2>1 DEF Strays
  <2>. QED  BY <1>2, <2>2, <2>3
<1>. HIDE DEF S
<1>3. Paths \subseteq S
  BY <1>1, <1>2, PathInduction
<1>. QED  BY <1>3 DEF S

\* The way back from d to p is the way from p to d the other way round.
LEMMA ThereAndBack ==
    ASSUME NEW p \in Paths \ {<<>>}, NEW d \in Paths \ {<<>>}, Len(p) = Len(d),
           NEW q \in Paths, Abstract!Under(p, q)
    PROVE  LET r == Back(d, p, q)
           IN  r \in Paths \ {<<>>} /\ Abstract!Under(d, r) /\ Back(p, d, r) = q
<1>. DEFINE r == Back(d, p, q)
            c == Back(p, d, r)
<1>1. /\ r \in Paths /\ Len(r) = Len(q)
      /\ \A i \in 1 .. Len(q) : r[i] = IF i <= Len(p) THEN d[i] ELSE q[i]
  BY BackIs
<1>2. Len(q) >= Len(p) /\ SubSeq(q, 1, Len(p)) = p
  BY DEF Abstract!Under
<1>3. Len(p) \in Nat \ {0} /\ Len(q) \in Nat
  <2>1. Len(p) \in 0 .. MaxDepth /\ Len(q) \in 0 .. MaxDepth /\ MaxDepth \in Nat /\ Len(p) # 0
    BY PathShape, Ranges
  <2>. QED  BY <2>1
<1>4. /\ r \in [1 .. Len(q) -> Names] /\ q \in [1 .. Len(q) -> Names]
      /\ d \in [1 .. Len(p) -> Names] /\ p \in [1 .. Len(p) -> Names]
  BY <1>1, PathShape
<1>. HIDE DEF r
<1>5. Abstract!Under(d, r)
  <2>1. SubSeq(r, 1, Len(p)) = [i \in 1 .. Len(p) |-> r[i]]
    BY <1>1, <1>2, <1>3, <1>4
  <2>2. \A i \in 1 .. Len(p) : r[i] = d[i]
    BY <1>1, <1>2, <1>3
  <2>3. SubSeq(r, 1, Len(d)) = d
    BY <1>4, <2>1, <2>2
  <2>. QED  BY <1>1, <1>2, <2>3 DEF Abstract!Under
<1>6. /\ c \in Paths /\ Len(c) = Len(q)
      /\ \A i \in 1 .. Len(q) : c[i] = IF i <= Len(d) THEN p[i] ELSE r[i]
  BY <1>1, <1>5, BackIs
<1>7. c \in [1 .. Len(q) -> Names]
  BY <1>6, PathShape
<1>. HIDE DEF c
<1>8. \A i \in 1 .. Len(q) : c[i] = q[i]
  <2>1. SubSeq(q, 1, Len(p)) = [i \in 1 .. Len(p) |-> q[i]]
    BY <1>2, <1>3, <1>4
  <2>2. \A i \in 1 .. Len(p) : p[i] = q[i]
    BY <1>2, <2>1
  <2>. QED  BY <1>1, <1>3, <1>6, <2>2
<1>9. c = q
  BY <1>4, <1>7, <1>8
<1>10. r # <<>>
  <2>1. Len(r) # 0
    BY <1>1, <1>2, <1>3
  <2>. QED  BY <2>1
<1>. QED  BY <1>1, <1>5, <1>9, <1>10 DEF r, c

LEMMA RenameLinked == RInv /\ RInv' /\ Rename => Linked \subseteq Linked'
<1>. SUFFICES ASSUME RInv, RInv', Rename PROVE Linked \subseteq Linked'
  OBVIOUS
<1>0. TInv /\ Sound /\ Sound' /\ Starts("rename")
  BY DEF RInv, TInv, Rename
<1>1. /\ call.path \in Paths \ {<<>>} /\ call.dst \in Paths \ {<<>>}
      /\ Len(call.path) = Len(call.dst)
      /\ \A q \in Paths : LeadsAfter(call.path, call.dst, q)
  BY <1>0, RenamePaths
<1>2. ~(translate(call.dst) > 0)
  BY <1>0, RenameMay DEF ENOENT, ENOTDIR
<1>3. PICK p \in Paths \ {<<>>}, d \in Paths \ {<<>>} : p = call.path /\ d = call.dst
  BY <1>1
<1>4. /\ Len(p) = Len(d) /\ ~(translate(d) > 0)
      /\ \A q \in Paths : LeadsAfter(p, d, q)
  BY <1>1, <1>2, <1>3
<1>5. ASSUME NEW q \in Paths \ {<<>>}, NEW i \in Inodes \ {}, i > 0, i = translate(q)
      PROVE  \E r \in Paths \ {<<>>} : translate(r)' = i
  <2>1. ~Abstract!Under(d, q)
    BY <1>0, <1>4, <1>5, NothingUnder
  <2>2. CASE Abstract!Under(p, q)
    <3>1. PICK r \in Paths \ {<<>>} : Abstract!Under(d, r) /\ Back(p, d, r) = q
      BY <1>4, <2>2, ThereAndBack
    <3>2. Leads(q, r)
      <4>1. LeadsAfter(p, d, r)
        BY <1>4
      <4>. QED  BY <3>1, <4>1 DEF LeadsAfter
    <3>. QED  BY <1>5, <3>2 DEF Leads
  <2>3. CASE ~Abstract!Under(p, q)
    <3>1. Leads(q, q)
      <4>1. LeadsAfter(p, d, q)
        BY <1>4
      <4>. QED  BY <2>1, <2>3, <4>1 DEF LeadsAfter
    <3>. QED  BY <1>5, <3>1 DEF Leads
  <2>. QED  BY <2>2, <2>3
<1>6. Linked \ {} \subseteq Linked'
  BY <1>5, LinkedKept
<1>. QED  BY <1>6

LEMMA EntryLinked ==
    RInv /\ RInv' /\ CreateEntry => Linked \subseteq Linked' /\ loc.inum \in Linked'
<1>. SUFFICES ASSUME RInv, RInv', CreateEntry
              PROVE  Linked \subseteq Linked' /\ loc.inum \in Linked'
  OBVIOUS
<1>0. TInv /\ Sound /\ Sound' /\ LinkedIsFound' /\ call' = call
  <2>1. TInv /\ Sound /\ Sound' /\ call' = call
    BY DEF RInv, TInv, CreateEntry, Answer
  <2>. QED  BY <2>1, LinkedFound, PTL
<1>1. /\ call.path \in Paths \ {<<>>} /\ ~(translate(call.path) > 0)
      /\ loc.inum \in Inodes /\ translate(call.path)' = loc.inum
      /\ \A q \in Paths \ {call.path} : Leads(q, q)
  BY <1>0, EntryPaths
<1>2. PICK p \in Paths \ {<<>>}, i \in Inodes : p = call.path /\ i = loc.inum
  BY <1>1
<1>3. translate(p)' = i /\ i > 0
  <2>1. translate(call.path)' = translate(p)'
    BY <1>0, <1>2
  <2>2. Creating /\ pc # "mkdir"
    BY DEF CreateEntry, Creating
  <2>3. loc.inum # 0
    BY <1>0, <2>2 DEF Sound, NInv, AtWork
  <2>. QED  BY <1>1, <1>2, <2>1, <2>3, Ranges DEF Inodes
<1>4. i \in Linked'
  BY <1>0, <1>3 DEF LinkedIsFound
<1>5. \A q \in Paths \ {<<>>}, j \in Inodes \ {} : j > 0 /\ j = translate(q) =>
         \E r \in Paths \ {<<>>} : translate(r)' = j
  BY <1>1, <1>2 DEF Leads
<1>6. Linked \ {} \subseteq Linked'
  BY <1>5, LinkedKept
<1>. QED  BY <1>2, <1>4, <1>6

LEMMA UnlinkLinked == RInv /\ RInv' /\ UnlinkEntry => Linked \ {loc.inum} \subseteq Linked'
<1>. SUFFICES ASSUME RInv, RInv', UnlinkEntry PROVE Linked \ {loc.inum} \subseteq Linked'
  OBVIOUS
<1>0. TInv /\ Sound /\ Sound' /\ Removing
  BY DEF RInv, TInv, UnlinkEntry, Removing
<1>1. \A q \in Paths \ {call.path} : Leads(q, q)
  BY <1>0, GonePaths
<1>2. loc.inum = translate(call.path) /\ call.path \in Paths
  BY <1>0, RemovedFile
<1>3. PICK p, t : p \in Paths /\ p = call.path /\ t = loc.inum /\ t = translate(p)
  BY <1>2
<1>4. \A q \in Paths \ {<<>>}, j \in Inodes \ {t} : j > 0 /\ j = translate(q) =>
         \E r \in Paths \ {<<>>} : translate(r)' = j
  BY <1>1, <1>3 DEF Leads
<1>5. Linked \ {t} \subseteq Linked'
  BY <1>4, LinkedKept
<1>. QED  BY <1>3, <1>5

\* What the running handler has in hand.
InHand == /\ pc = "mkdir" => loc.inum = 0
          /\ pc = "unlink" => loc.inum \notin inode_map

LEMMA InHandStep == RInv /\ InHand /\ [Next]_vars /\ InPlace' => InHand'
<1>. SUFFICES ASSUME RInv, InHand, [Next]_vars, InPlace' PROVE InHand'
  OBVIOUS
<1>1. ~Creating /\ ~Removing /\ ~Writing => loc = NoLoc
  BY DEF RInv, TInv, Sound, NInv, AtWork
<1>2. CASE UNCHANGED vars
  BY <1>2 DEF vars, InHand
<1>3. CASE MkdirBlock
  <2>1. /\ pc = "called" /\ pc' = "mkdir"
        /\ \E b \in Blocks : loc' = [Place EXCEPT !.block = b]
    BY <1>3 DEF MkdirBlock, Starts
  <2>2. loc = NoLoc
    BY <1>1, <2>1 DEF Creating, Removing, Writing
  <2>3. loc'.inum = 0
    BY <2>1, <2>2 DEF Place, NoLoc
  <2>. QED  BY <2>1, <2>3 DEF InHand
<1>4. CASE UnlinkMap
  BY <1>4 DEF UnlinkMap, InHand
<1>5. CASE \/ \E op, p, d, slash, w : Called(op, p, d, slash, w)
           \/ Refuse \/ MknodStart \/ MkdirNoBlock \/ MkdirInode \/ MkdirNoInode
           \/ CreateAborts \/ TruncateFree \/ TruncateInode \/ RmdirMap \/ Chmod \/ WriteStep
           \/ Return \/ Mount \/ CreateInode \/ CreateEntry
           \/ UnlinkEntry \/ RmdirEntry \/ Rename
  <2>1. pc' \notin {"mkdir", "unlink"}
    BY <1>5 DEF Called, Call, Refuse, MknodStart, MkdirNoBlock, MkdirInode, MkdirNoInode,
         CreateAborts, TruncateFree, TruncateInode, RmdirMap, Chmod, WriteStep,
         WriteBlock, WriteMark, WriteFound, WriteData, WriteNoBlock, Return, Mount, CreateInode, CreateEntry, UnlinkEntry, RmdirEntry, Rename, Answer, Abort
  <2>. QED  BY <2>1 DEF InHand
<1>. QED  BY <1>2, <1>3, <1>4, <1>5, StepKinds DEF QuietStep

LEMMA InHandInit == Init => InHand
BY DEF Init, InHand

LosesNoInode == LostInodes' \subseteq LostInodes

\* What is in hand is marked or linked after the step.
LEMMA NothingLost ==
    ASSUME Linked \ {loc.inum} \subseteq Linked',
           \A i \in inode_map' \ inode_map : i \in Linked' \cup {0, 1, loc'.inum},
           \/ loc.inum \in Linked' \cup {0, 1, loc'.inum}
           \/ loc.inum \notin inode_map'
    PROVE  LosesNoInode
<1>. SUFFICES ASSUME NEW i \in LostInodes' PROVE i \in LostInodes
  BY DEF LosesNoInode
<1>1. i \in inode_map' /\ i \notin Linked' /\ i \notin {0, 1} /\ i # loc'.inum
  BY DEF LostInodes
<1>2. i \in inode_map
  BY <1>1
<1>3. i # loc.inum
  BY <1>1
<1>4. i \notin Linked
  BY <1>1, <1>3
<1>. QED  BY <1>1, <1>2, <1>3, <1>4 DEF LostInodes

LEMMA StepLosesNone ==
    RInv /\ RInv' /\ InHand /\ [Next]_vars /\ InPlace' /\ Frontend = "fuse" /\ LongNames = {}
    /\ call.op # "rmdir" => LosesNoInode
<1>. SUFFICES ASSUME RInv, RInv', InHand, [Next]_vars, InPlace', Frontend = "fuse",
                     LongNames = {}, call.op # "rmdir"
              PROVE  LosesNoInode
  OBVIOUS
<1>0. TInv /\ Sound /\ Sound' /\ NInv /\ (~Creating /\ ~Removing /\ ~Writing => loc = NoLoc)
  BY DEF RInv, TInv, Sound, NInv, AtWork
<1>1. Calm => Linked \subseteq Linked'
  BY CalmLinked
<1>2. CASE UNCHANGED vars
  <2>1. UNCHANGED <<inode_map, inode_region, blk, loc>>
    BY <1>2 DEF vars
  <2>2. Calm
    BY <1>0, <2>1, UnchangedIsQuiet, QuietIsCalm
  <2>. QED  BY <1>1, <2>1, <2>2, NothingLost
<1>3. CASE \/ \E op, p, d, slash, w : Called(op, p, d, slash, w)
           \/ Refuse \/ MkdirNoBlock \/ Chmod \/ WriteBlock \/ WriteFound \/ WriteNoBlock
           \/ Return \/ Mount
  <2>1. inode_map' = inode_map /\ ~Creating /\ ~Removing /\ ~Writing
    BY <1>3 DEF Called, Call, Refuse, MkdirNoBlock, Chmod, WriteBlock, WriteFound, WriteNoBlock,
         Return, Mount, Starts, image, Creating, Removing, Writing
  <2>2. loc.inum = 0
    BY <1>0, <2>1 DEF NoLoc
  <2>3. Calm
    BY <1>0, <1>3, QuietSteps, QuietIsCalm DEF QuietStep, WriteStep
  <2>. QED  BY <1>1, <2>1, <2>2, <2>3, NothingLost
<1>4. CASE MknodStart \/ MkdirBlock \/ TruncateFree
  <2>1. ~Creating /\ ~Removing /\ ~Writing
    BY <1>4 DEF MknodStart, MkdirBlock, TruncateFree, Starts, Creating, Removing, Writing
  <2>2. loc.inum = 0 /\ loc = NoLoc
    BY <1>0, <2>1 DEF NoLoc
  <2>3. Calm
    BY <1>0, <1>4, QuietSteps, QuietIsCalm DEF QuietStep
  <2>4. \A i \in inode_map' \ inode_map : i = loc'.inum
    <3>1. CASE MknodStart
      <4>1. PICK i \in Bits : inode_map' = inode_map \cup {i} /\ loc' = [Place EXCEPT !.inum = i]
        BY <3>1 DEF MknodStart
      <4>2. loc'.inum = i
        BY <2>2, <4>1 DEF Place, NoLoc
      <4>. QED  BY <4>1, <4>2
    <3>2. CASE MkdirBlock \/ TruncateFree
      BY <3>2 DEF MkdirBlock, TruncateFree
    <3>. QED  BY <1>4, <3>1, <3>2
  <2>. QED  BY <1>1, <2>2, <2>3, <2>4, NothingLost
<1>5. CASE MkdirInode
  <2>1. pc = "mkdir" /\ loc.inum = 0 /\ TypeOK
    BY <1>0, <1>5 DEF MkdirInode, InHand, NInv
  <2>2. PICK i \in Bits : inode_map' = inode_map \cup {i} /\ loc' = [loc EXCEPT !.inum = i]
    BY <1>5 DEF MkdirInode
  <2>3. loc'.inum = i
    BY <2>1, <2>2 DEF TypeOK
  <2>4. Calm
    BY <1>0, <1>5, QuietSteps, QuietIsCalm DEF QuietStep
  <2>. QED  BY <1>1, <2>1, <2>2, <2>3, <2>4, NothingLost
<1>6. CASE MkdirNoInode
  <2>1. inode_map' = inode_map /\ loc.inum = 0
    BY <1>6 DEF MkdirNoInode, image, InHand
  <2>2. Calm
    BY <1>0, <1>6, QuietSteps, QuietIsCalm DEF QuietStep
  <2>. QED  BY <1>1, <2>1, <2>2, NothingLost
<1>7. CASE CreateInode
  <2>1. inode_map' = inode_map /\ loc' = loc
    BY <1>7 DEF CreateInode
  <2>2. Calm
    BY <1>0, <1>7, CreateInodeCalm
  <2>. QED  BY <1>1, <2>1, <2>2, NothingLost
<1>8. CASE CreateAborts
  <2>1. Creating /\ pc = "entry"
    BY <1>8 DEF CreateAborts, Creating
  <2>2. first(loc.father) # 0
    <3>1. Standing
      BY <1>0, <2>1, CreatingStands
    <3>. QED  BY <1>0, <3>1 DEF Standing, NInv, Held
  <2>3. FALSE
    BY <1>8, <2>2 DEF CreateAborts, first
  <2>. QED  BY <2>3
<1>9. CASE CreateEntry
  <2>1. inode_map' = inode_map
    BY <1>9 DEF CreateEntry
  <2>2. Linked \subseteq Linked' /\ loc.inum \in Linked'
    BY <1>9, EntryLinked
  <2>. QED  BY <2>1, <2>2, NothingLost
<1>10. CASE TruncateInode
  <2>1. inode_map' = inode_map /\ Removing
    BY <1>10 DEF TruncateInode, Removing
  <2>2. Calm
    BY <1>0, <1>10, QuietSteps, QuietIsCalm DEF QuietStep
  <2>3. loc.inum \in Linked
    BY <1>0, <2>1, RemovedFile, LinkedFound DEF LinkedIsFound
  <2>. QED  BY <1>1, <2>1, <2>2, <2>3, NothingLost
<1>11. CASE UnlinkMap
  <2>1. inode_map' = inode_map \ {loc.inum} /\ loc' = loc
    BY <1>11 DEF UnlinkMap
  <2>2. Calm
    BY <1>0, <1>11, UnlinkMapSound, QuietIsCalm
  <2>. QED  BY <1>1, <2>1, <2>2, NothingLost
<1>12. CASE UnlinkEntry
  <2>1. inode_map' = inode_map /\ loc.inum \notin inode_map
    BY <1>12 DEF UnlinkEntry, InHand
  <2>2. Linked \ {loc.inum} \subseteq Linked'
    BY <1>12, UnlinkLinked
  <2>. QED  BY <2>1, <2>2, NothingLost
<1>13. CASE Rename
  <2>1. inode_map' = inode_map /\ ~Creating /\ ~Removing /\ ~Writing
    BY <1>13 DEF Rename, Starts, Creating, Removing, Writing
  <2>2. loc.inum = 0
    BY <1>0, <2>1 DEF NoLoc
  <2>3. Linked \subseteq Linked'
    BY <1>13, RenameLinked
  <2>. QED  BY <2>1, <2>2, <2>3, NothingLost
<1>14. ~RmdirMap /\ ~RmdirEntry
  <2>1. pc = "rmdir" => call.op = "rmdir"
    BY <1>0 DEF TInv, Knowing
  <2>. QED  BY <2>1 DEF RmdirMap, RmdirEntry, Starts
<1>15. CASE WriteMark \/ WriteData
  <2>1. inode_map' = inode_map /\ Writing
    BY <1>15 DEF WriteMark, WriteData, Writing
  <2>2. Calm
    BY <1>0, <1>15, QuietSteps, QuietIsCalm DEF QuietStep, WriteStep
  <2>3. PICK p \in Paths : p = call.path /\ loc.inum = translate(p)
    BY <1>0, <2>1 DEF TInv, Knowing, NInv, TypeOK
  <2>4. loc.inum > 0 /\ p # <<>>
    <3>1. loc.inum \in Inodes /\ loc.inum # 0
      BY <1>0, <2>1, <2>3, Lookup, Ranges
         DEF NInv, AtWork, LooksUp, Answers, Inodes, ENOENT, ENOTDIR
    <3>2. CASE p = <<>>
      BY <1>0, <2>1, <2>3, <3>2, Lookup DEF LooksUp, TInv, Knowing, Sound, Marked
    <3>. QED  BY <3>1, <3>2, Ranges DEF Inodes
  <2>5. loc.inum \in Linked
    BY <2>3, <2>4, LinkedFound DEF LinkedIsFound
  <2>. QED  BY <1>1, <2>1, <2>2, <2>5, NothingLost
<1>. QED  BY <1>2, <1>3, <1>4, <1>5, <1>6, <1>7, <1>8, <1>9, <1>10, <1>11, <1>12, <1>13, <1>14,
             <1>15, StepKinds DEF QuietStep, WriteStep

\* No handler but fs_rmdir loses an inode, whatever fails in it: when the kernel
\* makes the calls, with no name of 28 bytes or more (for which fs_mknod and
\* fs_mkdir abort with the inode in hand), a step of another handler leaves no
\* inode marked that no entry leads to and nobody has in hand.
THEOREM RmdirLosesInodes ==
    Frontend = "fuse" /\ LongNames = {} => (Spec => OnlyRmdirLosesInodes)
<1>. SUFFICES ASSUME Frontend = "fuse", LongNames = {} PROVE Spec => OnlyRmdirLosesInodes
  OBVIOUS
<1>. DEFINE I == InPlace => RInv /\ InHand
<1>1. Init => I
  BY InitShallow, InHandInit
<1>2. I /\ [Next]_vars => I'
  BY RInvToTheEnd, InHandStep, OverrunEnds DEF vars, InPlace
<1>3. I /\ I' /\ [Next]_vars =>
         [call.op # "rmdir" /\ InPlace' => LostInodes' \subseteq LostInodes]_vars
  <2>. SUFFICES ASSUME I, I', [Next]_vars, call.op # "rmdir", InPlace', ~UNCHANGED vars
                PROVE  LostInodes' \subseteq LostInodes
    OBVIOUS
  <2>1. InPlace
    BY OverrunEnds DEF vars, InPlace
  <2>. QED  BY <2>1, StepLosesNone DEF LosesNoInode
<1>. HIDE DEF I
<1>. QED  BY <1>1, <1>2, <1>3, PTL DEF Spec, OnlyRmdirLosesInodes

\* So without fs_rmdir an inode is marked between calls if and only if an entry
\* leads to it.
THEOREM OnlyRmdirLeaks ==
    Frontend = "fuse" /\ LongNames = {} /\ "rmdir" \notin Ops => (Spec => []NoLostInode)
<1>. SUFFICES ASSUME Frontend = "fuse", LongNames = {}, "rmdir" \notin Ops
              PROVE  Spec => []NoLostInode
  OBVIOUS
<1>. DEFINE I == InPlace => RInv /\ InHand /\ LostInodes = {}
<1>1. Init => I
  <2>1. Init => inode_map = {0, 1}
    BY DEF Init
  <2>. QED  BY <2>1, InitShallow, InHandInit DEF LostInodes
<1>2. I /\ [Next]_vars => I'
  <2>. SUFFICES ASSUME I, [Next]_vars, InPlace' PROVE RInv' /\ InHand' /\ LostInodes' = {}
    OBVIOUS
  <2>1. RInv /\ InHand /\ LostInodes = {}
    BY OverrunEnds DEF vars, InPlace
  <2>2. RInv' /\ InHand'
    BY <2>1, RInvStep, InHandStep
  <2>3. call.op # "rmdir"
    BY <2>1 DEF RInv, TInv, Sound, NInv, TypeOK
  <2>4. LosesNoInode
    BY <2>1, <2>2, <2>3, StepLosesNone
  <2>. QED  BY <2>1, <2>2, <2>4 DEF LosesNoInode
<1>3. I => NoLostInode
  <2>. SUFFICES ASSUME I, pc = "idle" PROVE inode_map = Linked \cup {0, 1}
    BY DEF NoLostInode
  <2>1. Sound /\ loc = NoLoc /\ LostInodes = {}
    BY DEF InPlace, RInv, TInv, Sound, NInv, AtWork, Creating, Removing, Writing
  <2>2. inode_map \subseteq Linked \cup {0, 1}
    BY <2>1 DEF LostInodes, NoLoc
  <2>3. Linked \subseteq inode_map /\ {0, 1} \subseteq inode_map
    BY <2>1, LinksAreDirLinks DEF Sound, Forest, Marked, Linked
  <2>. QED  BY <2>2, <2>3
<1>. HIDE DEF I
<1>. QED  BY <1>1, <1>2, <1>3, PTL DEF Spec
=============================================================================
