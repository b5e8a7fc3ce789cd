--------------------------- MODULE ThreadsProofs ----------------------------
(***************************************************************************)
(* Proofs about Threads, for every number of threads, names and inodes:    *)
(* with -s (Serial) fs_getattr finds what is there, every entry has an     *)
(* inode of its own, and memory is as the image between handlers.  Without *)
(* it none of the three holds.                                             *)
(*                                                                         *)
(* TInv says where the one running handler is: what memory and image       *)
(* differ in, what it has taken and not yet entered, and that strtok is in *)
(* its own string, at the token that comes next.                           *)
(***************************************************************************)
EXTENDS Threads, OrderLemmas, SequenceTheorems

Types   == {"none", "file", "dir"}
Entry   == [name : Names \cup {Sub}, isDir : BOOLEAN, inode : Inodes]
SubEntry == [name |-> Sub, isDir |-> TRUE, inode |-> 2]
Lookups == Fathers \cup Files
Handlers ==
    [pc : {"idle", "alloc_map", "read_map", "alloc_region", "read_region", "split",
           "walk", "take", "write_map", "fill", "update_inode", "add_entry", "answered"},
     op : {"none", "getattr", "mknod"}, path : Lookups, look : Lookups,
     token : Names \cup {Sub, None}, at : Inodes, isDir : BOOLEAN,
     was : {0} \cup Inodes, block : {0} \cup Dirs, inum : Int, type : Types]

Shape ==
    /\ inode_map \in SUBSET (0 .. MaxInode)
    /\ disk_inode_map \in SUBSET (0 .. MaxInode)
    /\ inode_region \in [Inodes -> Types]
    /\ disk_inode_region \in [Inodes -> Types]
    /\ entries \in [{0} \cup Dirs -> Seq(Entry)]
    /\ th \in [Threads -> Handlers]

\* One handler runs at a time.
OneRuns == \A t, u \in Threads : th[t].pc # "idle" /\ th[u].pc # "idle" => t = u

\* The two directories of the image are marked and stay directories; the
\* second is the first entry of the root, and all other entries are files.
DirsStay ==
    /\ 0 .. 2 \subseteq disk_inode_map
    /\ \A i \in Inodes : disk_inode_region[i] = "dir" <=> i \in Dirs
    /\ entries[0] = <<>>
    /\ 1 \in DOMAIN entries[1]
    /\ entries[1][1] = SubEntry
    /\ \A d \in Dirs : \A s \in DOMAIN entries[d] :
          ~(d = 1 /\ s = 1) => /\ entries[d][s].name \in Names
                               /\ entries[d][s].inode \notin Dirs

\* With no handler running, memory is as the image; one that runs lets them
\* differ where it is about to read the image, or to write it.
MemoryAt(pc) ==
    /\ pc \notin {"read_map", "write_map"} => inode_map = disk_inode_map
    /\ pc \notin {"read_region", "update_inode"} => inode_region = disk_inode_region

\* The inode that fs_mknod has found is no entry's.
Taking == {"write_map", "fill", "update_inode", "add_entry"}

TakenBy(h) ==
    /\ h.pc \in Taking =>
         /\ h.op = "mknod" /\ h.inum \in Inodes \ Dirs
         /\ \A d \in Dirs : \A s \in DOMAIN entries[d] : entries[d][s].inode # h.inum
    /\ h.pc = "write_map" => inode_map = disk_inode_map \cup {h.inum}
    /\ h.pc \in Taking \ {"write_map"} => h.inum \in disk_inode_map
    /\ h.pc = "update_inode" =>
         inode_region = [disk_inode_region EXCEPT ![h.inum] = "file"]
    /\ h.pc = "add_entry" => disk_inode_region[h.inum] = "file"

\* translate is at a component of the path it was given, and strtok at the rest
\* of it.
WalkingAt(t, h) ==
    h.pc = "walk" =>
        /\ strtok = [of |-> t, left |-> strtok.left] /\ h.isDir
        /\ \/ h.at = 1 /\ strtok.left = <<>> /\ h.look = <<h.token>>
           \/ h.at = 1 /\ h.token = Sub
              /\ \E n \in Names : h.look = <<Sub, n>> /\ strtok.left = <<n>>
           \/ h.at = 2 /\ strtok.left = <<>> /\ h.look = <<Sub, h.token>>
              /\ h.token \in Names

\* What the handler was asked for, and what was there then: nothing changes it
\* while fs_getattr runs.
AskedOf(h) ==
    /\ h.pc # "idle" /\ h.op = "mknod" =>
         h.path \in Files /\ h.look \in {h.path, trancate_path(h.path)}
    /\ h.pc # "idle" => h.op # "none"
    /\ h.pc # "idle" /\ h.op = "getattr" => h.look = h.path
    /\ h.pc \notin {"idle", "answered"} /\ h.op = "getattr" => h.was = At(h.path)
    /\ h.pc = "take" => h.op = "mknod"

Answered(h) ==
    h.pc = "answered" /\ h.op = "getattr" /\ h.was # 0 =>
        h.inum = h.was /\ h.type = IF h.was \in Dirs THEN "dir" ELSE "file"

HandlerOK(t) ==
    /\ th[t] \in Handlers
    /\ MemoryAt(th[t].pc) /\ TakenBy(th[t]) /\ WalkingAt(t, th[t])
    /\ AskedOf(th[t]) /\ Answered(th[t])

TInv == /\ Shape /\ OneRuns /\ DirsStay /\ OneInodeEach /\ MemoryIsImage
        /\ \A t \in Threads : th[t].pc # "idle" => HandlerOK(t)
-----------------------------------------------------------------------------
(***************************************************************************)
(* Paths and entries.                                                      *)
(***************************************************************************)
\* The inodes and the tokens are what they seem.
LEMMA Constants ==
    /\ MaxInode \in Nat /\ MaxInode >= 3 /\ Inodes = 1 .. MaxInode
    /\ 1 \in Inodes /\ 2 \in Inodes /\ 3 \in Inodes
    /\ Dirs \subseteq Inodes /\ 0 \notin Dirs
    /\ Sub \notin Names /\ None \notin Names \cup {Sub} /\ 0 \notin Threads
BY ThreadsAssumption, NoneAssumption DEF Inodes, Dirs

\* What the operators on sequences make of short paths.
LEMMA ShortPaths ==
    ASSUME NEW a, NEW b
    PROVE  /\ Append(<<>>, a) = <<a>> /\ Append(<<a>>, b) = <<a, b>>
           /\ Len(<<a>>) = 1 /\ Len(<<a, b>>) = 2
           /\ SubSeq(<<a>>, 1, 0) = <<>> /\ SubSeq(<<a, b>>, 1, 1) = <<a>>
           /\ Head(<<a>>) = a /\ Tail(<<a>>) = <<>>
           /\ Head(<<a, b>>) = a /\ Tail(<<a, b>>) = <<b>>
<1>1. Append(<<>>, a) = <<a>>
  OBVIOUS
<1>2. <<a>> \in Seq({a, b}) /\ <<a, b>> \in Seq({a, b}) /\ Len(<<a>>) = 1 /\ Len(<<a, b>>) = 2
      /\ <<b>> \in Seq({a, b}) /\ Len(<<b>>) = 1
  OBVIOUS
<1>3. Append(<<a>>, b) = <<a, b>>
  <2>. DEFINE s == Append(<<a>>, b)
  <2>1. s \in Seq({a, b}) /\ Len(s) = 2 /\ (\A i \in 1 .. 1 : s[i] = <<a>>[i]) /\ s[2] = b
    BY <1>2, AppendProperties
  <2>2. s[1] = a
    BY <2>1
  <2>. HIDE DEF s
  <2>3. \A i \in 1 .. Len(s) : s[i] = <<a, b>>[i]
    BY <2>1, <2>2
  <2>4. s = <<a, b>>
    BY <1>2, <2>1, <2>3, SeqEqual
  <2>. QED  BY <2>4 DEF s
<1>4. SubSeq(<<a>>, 1, 0) = <<>>
  BY SubSeqEmpty
<1>5. SubSeq(<<a, b>>, 1, 1) = <<a>>
  <2>. DEFINE t == <<a, b>>
              s == SubSeq(t, 1, 1)
  <2>0. \A i \in 1 .. 1 : t[i] \in {a, b}
    OBVIOUS
  <2>. HIDE DEF t
  <2>1. s \in Seq({a, b}) /\ Len(s) = 1 /\ \A i \in 1 .. 1 : s[i] = t[1 + i - 1]
    BY <2>0, SubSeqProperties
  <2>2. t[1 + 1 - 1] = a
    BY DEF t
  <2>. HIDE DEF s
  <2>3. \A i \in 1 .. Len(s) : s[i] = <<a>>[i]
    BY <2>1, <2>2
  <2>4. s = <<a>>
    BY <1>2, <2>1, <2>3, SeqEqual
  <2>. QED  BY <2>4 DEF s, t
<1>6. Head(<<a>>) = a /\ Head(<<a, b>>) = a
  OBVIOUS
<1>7. Tail(<<a>>) = <<>>
  <2>1. Len(Tail(<<a>>)) = 0 /\ Tail(<<a>>) \in Seq({a, b})
    BY <1>2, HeadTailProperties
  <2>. QED  BY <2>1, EmptySeq
<1>8. Tail(<<a, b>>) = <<b>>
  <2>. DEFINE s == Tail(<<a, b>>)
  <2>1. s \in Seq({a, b}) /\ Len(s) = 1 /\ \A i \in 1 .. Len(s) : s[i] = <<a, b>>[i + 1]
    BY <1>2, HeadTailProperties
  <2>. HIDE DEF s
  <2>2. \A i \in 1 .. Len(s) : s[i] = <<b>>[i]
    BY <2>1
  <2>3. s = <<b>>
    BY <1>2, <2>1, <2>2, SeqEqual
  <2>. QED  BY <2>3 DEF s
<1>. QED  BY <1>1, <1>2, <1>3, <1>4, <1>5, <1>6, <1>7, <1>8

\* A path has at most two components, and the first of two is the directory.
LEMMA PathForms ==
    ASSUME NEW p \in Lookups
    PROVE  \/ p = <<>>
           \/ \E x \in Names \cup {Sub} : p = <<x>>
           \/ \E n \in Names : p = <<Sub, n>>
<1>1. CASE p \in Fathers
  BY <1>1 DEF Fathers
<1>2. CASE p \in Files
  <2>1. PICK f \in Fathers, n \in Names : p = Append(f, n)
    BY <1>2 DEF Files
  <2>2. p = <<n>> \/ p = <<Sub, n>>
    BY <2>1, ShortPaths DEF Fathers
  <2>. QED  BY <2>2
<1>. QED  BY <1>1, <1>2 DEF Lookups

\* A file is in a directory and has a name.
LEMMA FileForms ==
    ASSUME NEW p \in Files
    PROVE  /\ p # <<>> /\ p[Len(p)] \in Names
           /\ trancate_path(p) \in Fathers /\ trancate_path(p) # p
<1>1. PICK f \in Fathers, n \in Names : p = Append(f, n)
  BY DEF Files
<1>2. CASE f = <<>>
  <2>1. p = <<n>> /\ Len(p) = 1
    BY <1>1, <1>2, ShortPaths
  <2>2. SubSeq(p, 1, 0) = <<>>
    BY <2>1, ShortPaths
  <2>. QED  BY <2>1, <2>2 DEF trancate_path, Fathers
<1>3. CASE f = <<Sub>>
  <2>1. p = <<Sub, n>> /\ Len(p) = 2
    BY <1>1, <1>3, ShortPaths
  <2>2. SubSeq(p, 1, 1) = <<Sub>>
    BY <2>1, ShortPaths
  <2>. QED  BY <2>1, <2>2 DEF trancate_path, Fathers
<1>. QED  BY <1>1, <1>2, <1>3 DEF Fathers

\* The last of the slots that match is one of them.
LEMMA LastIsSlot ==
    ASSUME Shape, NEW b \in {0} \cup Dirs, NEW name, Matches(b, name) # {}
    PROVE  /\ Last(Matches(b, name)) \in DOMAIN entries[b]
           /\ entries[b][Last(Matches(b, name))].name = name
           /\ entries[b][Last(Matches(b, name))] \in Entry
<1>. DEFINE S == Matches(b, name)
<1>1. entries[b] \in Seq(Entry)
  BY DEF Shape
<1>2. Len(entries[b]) \in Nat /\ DOMAIN entries[b] = 1 .. Len(entries[b])
  BY <1>1, LenProperties
<1>3. S \in SUBSET (0 .. Len(entries[b])) /\ S # {}
  BY <1>2 DEF Matches
<1>4. \E m \in S : \A x \in S : x <= m
  <2>. HIDE DEF S
  <2>. QED  BY <1>2, <1>3, GreatestExists
<1>5. Last(S) \in S
  BY <1>4 DEF Last
<1>6. Last(S) \in DOMAIN entries[b] /\ entries[b][Last(S)].name = name
  BY <1>5 DEF Matches
<1>7. entries[b][Last(S)] \in Entry
  BY <1>1, <1>2, <1>6, ElementOfSeq
<1>. QED  BY <1>6, <1>7

\* What is at a path, as translate finds it, one directory after the other.
LEMMA AtOf ==
    /\ At(<<>>) = 1
    /\ \A x \in Names \cup {Sub} :
          At(<<x>>) = IF Matches(1, x) = {} THEN 0 ELSE entries[1][Last(Matches(1, x))].inode
    /\ \A n \in Names :
          At(<<Sub, n>>) = IF Matches(2, n) = {} THEN 0
                           ELSE entries[2][Last(Matches(2, n))].inode
<1>1. At(<<>>) = 1
  BY DEF At
<1>2. ASSUME NEW x \in Names \cup {Sub}
      PROVE  At(<<x>>) = IF Matches(1, x) = {} THEN 0
                         ELSE entries[1][Last(Matches(1, x))].inode
  <2>1. Len(<<x>>) = 1 /\ <<x>>[1] = x /\ <<x>> # <<>>
    BY ShortPaths
  <2>. QED  BY <2>1 DEF At
<1>3. ASSUME NEW n \in Names
      PROVE  At(<<Sub, n>>) = IF Matches(2, n) = {} THEN 0
                              ELSE entries[2][Last(Matches(2, n))].inode
  <2>1. Len(<<Sub, n>>) = 2 /\ <<Sub, n>>[2] = n /\ <<Sub, n>> # <<>>
    BY ShortPaths
  <2>. QED  BY <2>1 DEF At
<1>. QED  BY <1>1, <1>2, <1>3

\* The directory is the only entry of its name.
LEMMA SubIsFirst ==
    ASSUME Shape, DirsStay
    PROVE  Matches(1, Sub) # {} /\ entries[1][Last(Matches(1, Sub))] = SubEntry
<1>1. Matches(1, Sub) = {1}
  <2>1. \A s \in DOMAIN entries[1] : s # 1 => entries[1][s].name # Sub
    BY Constants DEF DirsStay, Dirs
  <2>. QED  BY <2>1 DEF Matches, DirsStay, SubEntry
<1>2. Last({1}) = 1
  BY DEF Last
<1>. QED  BY <1>1, <1>2 DEF DirsStay

\* What is at a path is an inode that has been written to the image.
LEMMA AtIsWritten ==
    ASSUME TInv, NEW p \in Lookups
    PROVE  /\ At(p) \in {0} \cup Inodes
           /\ At(p) # 0 =>
                disk_inode_region[At(p)] = IF At(p) \in Dirs THEN "dir" ELSE "file"
<1>1. \A i \in Inodes : disk_inode_region[i] \in Types
                        /\ (disk_inode_region[i] = "dir" <=> i \in Dirs)
  BY DEF TInv, Shape, DirsStay
<1>2. ASSUME NEW d \in Dirs, NEW name, Matches(d, name) # {}
      PROVE  /\ entries[d][Last(Matches(d, name))].inode \in Inodes
             /\ disk_inode_region[entries[d][Last(Matches(d, name))].inode] # "none"
  <2>1. /\ Last(Matches(d, name)) \in DOMAIN entries[d]
        /\ entries[d][Last(Matches(d, name))] \in Entry
    BY <1>2, LastIsSlot DEF TInv
  <2>. QED  BY <2>1 DEF TInv, OneInodeEach, Entry
<1>3. 1 \in Dirs /\ 2 \in Dirs /\ 1 \in Inodes
  BY Constants DEF Dirs
<1>4. CASE p = <<>>
  BY <1>1, <1>3, <1>4, AtOf
<1>5. ASSUME NEW x \in Names \cup {Sub}, p = <<x>>
      PROVE  At(p) = 0 \/ (At(p) \in Inodes /\ disk_inode_region[At(p)] # "none")
  BY <1>2, <1>3, <1>5, AtOf
<1>6. ASSUME NEW n \in Names, p = <<Sub, n>>
      PROVE  At(p) = 0 \/ (At(p) \in Inodes /\ disk_inode_region[At(p)] # "none")
  BY <1>2, <1>3, <1>6, AtOf
<1>7. At(p) = 0 \/ (At(p) \in Inodes /\ disk_inode_region[At(p)] # "none")
  BY <1>1, <1>3, <1>4, <1>5, <1>6, PathForms
<1>. QED  BY <1>1, <1>7 DEF Types
-----------------------------------------------------------------------------
(***************************************************************************)
(* The inductive invariant, one lemma per action.                          *)
(***************************************************************************)
\* The one handler that runs keeps the invariant if it is left in good order,
\* and the image too.
LEMMA OneStep ==
    ASSUME TInv, NEW t \in Threads, \A u \in Threads \ {t} : th[u].pc = "idle",
           NEW h \in Handlers, th' = [th EXCEPT ![t] = h],
           inode_map' \in SUBSET (0 .. MaxInode), inode_region' \in [Inodes -> Types],
           disk_inode_map' \in SUBSET (0 .. MaxInode),
           disk_inode_region' \in [Inodes -> Types],
           entries' \in [{0} \cup Dirs -> Seq(Entry)],
           DirsStay', OneInodeEach',
           MemoryAt(h.pc)', TakenBy(h)', WalkingAt(t, h)', AskedOf(h)', Answered(h)'
    PROVE  TInv'
<1>1. /\ th' \in [Threads -> Handlers] /\ th'[t] = h
      /\ \A u \in Threads \ {t} : th'[u].pc = "idle"
  BY DEF TInv, Shape
<1>2. Shape'
  BY <1>1 DEF Shape
<1>3. OneRuns'
  BY <1>1 DEF OneRuns
<1>4. MemoryIsImage'
  BY <1>1 DEF MemoryIsImage, MemoryAt
<1>5. HandlerOK(t)'
  BY <1>1 DEF HandlerOK, MemoryAt, TakenBy, WalkingAt, AskedOf, Answered, At, Matches
<1>. QED  BY <1>1, <1>2, <1>3, <1>4, <1>5 DEF TInv

\* The handler that runs is the only one, and in good order.
LEMMA TheOne ==
    ASSUME TInv, NEW t \in Threads, th[t].pc # "idle"
    PROVE  /\ \A u \in Threads \ {t} : th[u].pc = "idle"
           /\ th[t] \in Handlers
           /\ MemoryAt(th[t].pc) /\ TakenBy(th[t]) /\ WalkingAt(t, th[t])
           /\ AskedOf(th[t]) /\ Answered(th[t])
BY DEF TInv, OneRuns, HandlerOK

\* What does not write the image leaves its order.
LEMMA SameDisk ==
    ASSUME TInv, UNCHANGED disk
    PROVE  /\ DirsStay' /\ OneInodeEach'
           /\ disk_inode_map' \in SUBSET (0 .. MaxInode)
           /\ disk_inode_region' \in [Inodes -> Types]
           /\ entries' \in [{0} \cup Dirs -> Seq(Entry)]
           /\ \A p : At(p)' = At(p)
<1>1. DirsStay' /\ OneInodeEach'
  BY DEF disk, TInv, DirsStay, OneInodeEach
<1>2. \A p : At(p)' = At(p)
  BY DEF disk, At, Matches
<1>. QED  BY <1>1, <1>2 DEF disk, TInv, Shape

\* Initially no handler runs, and the image is what mkfs-x6 and one fs_mkdir
\* have made.
LEMMA InitTInv == Init => TInv
<1>. SUFFICES ASSUME Init PROVE TInv
  OBVIOUS
<1>1. Idle \in Handlers /\ Idle.pc = "idle"
  BY Constants DEF Idle, Handlers, Lookups, Fathers, Types
<1>2. \A t \in Threads : th[t] = Idle
  BY DEF Init
<1>3. SubEntry \in Entry
  BY Constants DEF SubEntry, Entry
<1>4. entries[0] = <<>> /\ entries[1] = <<SubEntry>> /\ entries[2] = <<>>
  <2>1. entries = [b \in {0} \cup Dirs |-> IF b = 1 THEN <<SubEntry>> ELSE <<>>]
    BY DEF Init, SubEntry
  <2>. QED  BY <2>1 DEF Dirs
<1>5. Shape
  <2>1. entries \in [{0} \cup Dirs -> Seq(Entry)]
    <3>1. <<SubEntry>> \in Seq(Entry)
      BY <1>3
    <3>2. entries = [b \in {0} \cup Dirs |-> IF b = 1 THEN <<SubEntry>> ELSE <<>>]
      BY DEF Init, SubEntry
    <3>. QED  BY <3>1, <3>2, EmptySeq
  <2>2. 0 .. 2 \in SUBSET (0 .. MaxInode)
    BY Constants
  <2>3. inode_region \in [Inodes -> Types] /\ disk_inode_region = inode_region
    BY DEF Init, Types
  <2>4. th \in [Threads -> Handlers]
    BY <1>1 DEF Init
  <2>. QED  BY <2>1, <2>2, <2>3, <2>4 DEF Init, Shape
<1>6. OneRuns /\ MemoryIsImage /\ \A t \in Threads : th[t].pc = "idle"
  BY <1>1, <1>2 DEF Init, OneRuns, MemoryIsImage
<1>7. DOMAIN entries[1] = {1} /\ entries[1][1] = SubEntry /\ DOMAIN entries[2] = {}
  BY <1>4
<1>8. DirsStay
  BY <1>4, <1>7, Constants DEF Init, DirsStay, Dirs
<1>9. OneInodeEach
  BY <1>7, Constants DEF Init, OneInodeEach, Dirs, SubEntry
<1>. QED  BY <1>5, <1>6, <1>8, <1>9 DEF TInv

\* A handler that goes on to another place is the same otherwise.
LEMMA Moved ==
    ASSUME TInv, NEW t \in Threads,
           NEW pc \in {"read_map", "alloc_region", "read_region", "split", "fill",
                       "update_inode", "add_entry", "answered"},
           Goto(t, pc)
    PROVE  \E h \in Handlers :
              /\ th' = [th EXCEPT ![t] = h] /\ h.pc = pc
              /\ h.op = th[t].op /\ h.path = th[t].path /\ h.look = th[t].look
              /\ h.was = th[t].was /\ h.inum = th[t].inum
<1>1. th[t] \in Handlers
  BY DEF TInv, Shape
<1>. DEFINE h == [th[t] EXCEPT !.pc = pc]
<1>2. h \in Handlers /\ h.pc = pc
  BY <1>1 DEF Handlers
<1>3. /\ h.op = th[t].op /\ h.path = th[t].path /\ h.look = th[t].look
      /\ h.was = th[t].was /\ h.inum = th[t].inum
  BY <1>1 DEF Handlers
<1>4. th' = [th EXCEPT ![t] = h]
  BY DEF Goto
<1>. QED  BY <1>2, <1>3, <1>4

\* fs_init: what it reads the image into is nothing that is in use.
LEMMA AllocMapStep ==
    ASSUME TInv, NEW t \in Threads, AllocMap(t)  PROVE TInv'
<1>1. th[t].pc = "alloc_map" /\ UNCHANGED disk
  BY DEF AllocMap
<1>2. PICK h \in Handlers :
         /\ th' = [th EXCEPT ![t] = h] /\ h.pc = "read_map"
         /\ h.op = th[t].op /\ h.path = th[t].path /\ h.look = th[t].look
         /\ h.was = th[t].was
  BY <1>1, Moved DEF AllocMap
<1>3. MemoryAt(h.pc)' /\ TakenBy(h)' /\ WalkingAt(t, h)' /\ Answered(h)'
  BY <1>1, <1>2, TheOne DEF AllocMap, disk, MemoryAt, TakenBy, Taking, WalkingAt, Answered
<1>4. AskedOf(h)'
  BY <1>1, <1>2, TheOne, SameDisk DEF AskedOf
<1>5. inode_map' \in SUBSET (0 .. MaxInode) /\ inode_region' \in [Inodes -> Types]
  BY DEF AllocMap, TInv, Shape
<1>. QED  BY <1>1, <1>2, <1>3, <1>4, <1>5, TheOne, SameDisk, OneStep

\* The bitmap is read.
LEMMA ReadMapStep ==
    ASSUME TInv, NEW t \in Threads, ReadMap(t)  PROVE TInv'
<1>1. th[t].pc = "read_map" /\ UNCHANGED disk
  BY DEF ReadMap
<1>2. PICK h \in Handlers :
         /\ th' = [th EXCEPT ![t] = h] /\ h.pc = "alloc_region"
         /\ h.op = th[t].op /\ h.path = th[t].path /\ h.look = th[t].look
         /\ h.was = th[t].was
  BY <1>1, Moved DEF ReadMap
<1>3. MemoryAt(h.pc)' /\ TakenBy(h)' /\ WalkingAt(t, h)' /\ Answered(h)'
  BY <1>1, <1>2, TheOne DEF ReadMap, disk, MemoryAt, TakenBy, Taking, WalkingAt, Answered
<1>4. AskedOf(h)'
  BY <1>1, <1>2, TheOne, SameDisk DEF AskedOf
<1>5. inode_map' \in SUBSET (0 .. MaxInode) /\ inode_region' \in [Inodes -> Types]
  BY DEF ReadMap, TInv, Shape, Types
<1>. QED  BY <1>1, <1>2, <1>3, <1>4, <1>5, TheOne, SameDisk, OneStep

\* The same for the inodes.
LEMMA AllocRegionStep ==
    ASSUME TInv, NEW t \in Threads, AllocRegion(t)  PROVE TInv'
<1>1. th[t].pc = "alloc_region" /\ UNCHANGED disk
  BY DEF AllocRegion
<1>2. PICK h \in Handlers :
         /\ th' = [th EXCEPT ![t] = h] /\ h.pc = "read_region"
         /\ h.op = th[t].op /\ h.path = th[t].path /\ h.look = th[t].look
         /\ h.was = th[t].was
  BY <1>1, Moved DEF AllocRegion
<1>3. MemoryAt(h.pc)' /\ TakenBy(h)' /\ WalkingAt(t, h)' /\ Answered(h)'
  BY <1>1, <1>2, TheOne DEF AllocRegion, disk, MemoryAt, TakenBy, Taking, WalkingAt, Answered
<1>4. AskedOf(h)'
  BY <1>1, <1>2, TheOne, SameDisk DEF AskedOf
<1>5. inode_map' \in SUBSET (0 .. MaxInode) /\ inode_region' \in [Inodes -> Types]
  BY DEF AllocRegion, TInv, Shape, Types
<1>. QED  BY <1>1, <1>2, <1>3, <1>4, <1>5, TheOne, SameDisk, OneStep

\* The inodes are read.
LEMMA ReadRegionStep ==
    ASSUME TInv, NEW t \in Threads, ReadRegion(t)  PROVE TInv'
<1>1. th[t].pc = "read_region" /\ UNCHANGED disk
  BY DEF ReadRegion
<1>2. PICK h \in Handlers :
         /\ th' = [th EXCEPT ![t] = h] /\ h.pc = "split"
         /\ h.op = th[t].op /\ h.path = th[t].path /\ h.look = th[t].look
         /\ h.was = th[t].was
  BY <1>1, Moved DEF ReadRegion
<1>3. MemoryAt(h.pc)' /\ TakenBy(h)' /\ WalkingAt(t, h)' /\ Answered(h)'
  BY <1>1, <1>2, TheOne DEF ReadRegion, disk, MemoryAt, TakenBy, Taking, WalkingAt, Answered
<1>4. AskedOf(h)'
  BY <1>1, <1>2, TheOne, SameDisk DEF AskedOf
<1>5. inode_map' \in SUBSET (0 .. MaxInode) /\ inode_region' \in [Inodes -> Types]
  BY DEF ReadRegion, TInv, Shape, Types
<1>. QED  BY <1>1, <1>2, <1>3, <1>4, <1>5, TheOne, SameDisk, OneStep

\* The answer goes back to the kernel.
LEMMA ReturnStep ==
    ASSUME TInv, NEW t \in Threads, Return(t)  PROVE TInv'
<1>1. th[t].pc = "answered" /\ UNCHANGED <<memory, disk>> /\ th' = [th EXCEPT ![t] = Idle]
  BY DEF Return
<1>2. Idle \in Handlers /\ Idle.pc = "idle"
  BY Constants DEF Idle, Handlers, Lookups, Fathers, Types
<1>3. MemoryAt("idle")' /\ inode_map' = inode_map /\ inode_region' = inode_region
  BY <1>1, TheOne DEF memory, disk, MemoryAt
<1>4. PICK h \in Handlers : h = Idle
  BY <1>2
<1>5. MemoryAt(h.pc)' /\ TakenBy(h)' /\ WalkingAt(t, h)' /\ AskedOf(h)' /\ Answered(h)'
  BY <1>2, <1>3, <1>4 DEF TakenBy, Taking, WalkingAt, AskedOf, Answered
<1>. QED  BY <1>1, <1>3, <1>4, <1>5, TheOne, SameDisk, OneStep DEF TInv, Shape

\* A call finds every thread idle.
LEMMA CallStep ==
    ASSUME Serial, TInv, NEW t \in Threads, NEW op \in {"getattr", "mknod"},
           NEW p \in Lookups, Call(t, op, p)
    PROVE  TInv'
<1>. DEFINE g == [Idle EXCEPT !.pc = IF op = "getattr" THEN "alloc_map" ELSE "split",
                              !.op = op, !.path = p, !.was = At(p),
                              !.look = IF op = "getattr" THEN p ELSE trancate_path(p)]
<1>1. /\ \A u \in Threads : th[u].pc = "idle"
      /\ op = "mknod" => p \in Files
      /\ th' = [th EXCEPT ![t] = g]
      /\ UNCHANGED <<memory, disk, strtok>>
  BY DEF Call
<1>2. g.look \in Lookups /\ At(p) \in {0} \cup Inodes
  BY <1>1, AtIsWritten, FileForms DEF Lookups, Idle
<1>3. /\ g.pc = IF op = "getattr" THEN "alloc_map" ELSE "split"
      /\ g.op = op /\ g.path = p /\ g.was = At(p)
      /\ g.look = IF op = "getattr" THEN p ELSE trancate_path(p)
  BY DEF Idle
<1>4. g \in Handlers
  <2>1. Idle \in Handlers
    BY Constants DEF Idle, Handlers, Lookups, Fathers, Types
  <2>. QED  BY <1>2, <2>1 DEF Handlers
<1>. HIDE DEF g
<1>5. PICK h \in Handlers : h = g
  BY <1>4
<1>6. inode_map' = disk_inode_map' /\ inode_region' = disk_inode_region'
  BY <1>1 DEF TInv, MemoryIsImage, memory, disk
<1>7. MemoryAt(h.pc)' /\ TakenBy(h)' /\ WalkingAt(t, h)' /\ Answered(h)'
  BY <1>3, <1>5, <1>6 DEF MemoryAt, TakenBy, Taking, WalkingAt, Answered
<1>8. UNCHANGED disk /\ UNCHANGED memory
  BY <1>1
<1>9. AskedOf(h)'
  BY <1>1, <1>3, <1>5, <1>8, SameDisk DEF AskedOf
<1>. QED  BY <1>1, <1>5, <1>7, <1>8, <1>9, SameDisk, OneStep DEF TInv, Shape, memory

\* The end of translate keeps the invariant if fs_getattr is told what is there.
LEMMA TranslatedKeeps ==
    ASSUME TInv, NEW t \in Threads, th[t].pc \in {"split", "walk"},
           NEW inum \in Inodes \cup {ENOENT, ENOTDIR},
           th[t].op = "getattr" /\ th[t].was # 0 => inum = th[t].was,
           Translated(t, inum), UNCHANGED <<memory, disk>>
    PROVE  TInv'
<1>. DEFINE g == th[t]
<1>1. /\ g \in Handlers /\ MemoryAt(g.pc) /\ AskedOf(g)
      /\ \A u \in Threads \ {t} : th[u].pc = "idle"
  BY TheOne
<1>2. /\ UNCHANGED disk /\ UNCHANGED memory
      /\ inode_map = disk_inode_map /\ inode_region = disk_inode_region
      /\ inode_map' = disk_inode_map' /\ inode_region' = disk_inode_region'
      /\ inode_map' \in SUBSET (0 .. MaxInode) /\ inode_region' \in [Inodes -> Types]
  BY <1>1 DEF MemoryAt, memory, disk, TInv, Shape
<1>3. inum \in Int /\ (inum > 0 <=> inum \in Inodes)
  BY Constants DEF ENOENT, ENOTDIR
<1>4. SUFFICES \E h \in Handlers :
          /\ th' = [th EXCEPT ![t] = h] /\ h.pc \in {"split", "answered", "take"}
          /\ AskedOf(h) /\ Answered(h)
  <2>1. PICK h \in Handlers :
           /\ th' = [th EXCEPT ![t] = h] /\ h.pc \in {"split", "answered", "take"}
           /\ AskedOf(h) /\ Answered(h)
    BY <1>4
  <2>2. MemoryAt(h.pc)' /\ TakenBy(h)' /\ WalkingAt(t, h)' /\ Answered(h)'
    BY <1>2, <2>1 DEF MemoryAt, TakenBy, Taking, WalkingAt, Answered
  <2>3. AskedOf(h)'
    BY <1>2, <2>1, SameDisk DEF AskedOf
  <2>. QED  BY <1>1, <1>2, <2>1, <2>2, <2>3, SameDisk, OneStep
<1>5. ASSUME g.op = "getattr" 
      PROVE  \E h \in Handlers :
          /\ th' = [th EXCEPT ![t] = h] /\ h.pc \in {"split", "answered", "take"}
          /\ AskedOf(h) /\ Answered(h)
  <2>. DEFINE type == IF inum > 0 THEN inode_region[inum] ELSE "none"
              h == [g EXCEPT !.pc = "answered", !.inum = inum, !.type = type]
  <2>1. th' = [th EXCEPT ![t] = h]
    BY <1>5 DEF Translated
  <2>2. type \in Types
    BY <1>3 DEF TInv, Shape, Types
  <2>3. g.was # 0 => type = IF g.was \in Dirs THEN "dir" ELSE "file"
    <3>1. g.was # 0 => inum = At(g.path) /\ g.was = At(g.path) /\ inum > 0
      BY <1>1, <1>3, <1>5, AtIsWritten DEF AskedOf, Handlers
    <3>2. g.path \in Lookups
      BY <1>1 DEF Handlers
    <3>3. g.was # 0 => /\ type = disk_inode_region[At(g.path)]
                       /\ disk_inode_region[At(g.path)] = IF At(g.path) \in Dirs THEN "dir" ELSE "file"
      BY <1>2, <3>1, <3>2, AtIsWritten
    <3>. QED  BY <3>1, <3>3
  <2>. HIDE DEF type
  <2>4. /\ h \in Handlers /\ h.pc = "answered" /\ h.op = g.op /\ h.was = g.was
        /\ h.inum = inum /\ h.type = type /\ h.path = g.path /\ h.look = g.look
    BY <1>1, <1>3, <2>2 DEF Handlers
  <2>. HIDE DEF h
  <2>. QED  BY <1>1, <1>5, <2>1, <2>3, <2>4 DEF AskedOf, Answered
<1>6. ASSUME g.op # "getattr"
      PROVE  \E h \in Handlers :
          /\ th' = [th EXCEPT ![t] = h] /\ h.pc \in {"split", "answered", "take"}
          /\ AskedOf(h) /\ Answered(h)
  <2>1. g.op = "mknod" /\ g.path \in Files /\ g.look \in {g.path, trancate_path(g.path)}
    BY <1>1, <1>6 DEF AskedOf, Handlers
  <2>2. ASSUME NEW h, th' = [th EXCEPT ![t] = h], h \in Handlers, h.op = g.op, h.path = g.path,
               h.look \in {g.path, g.look}, h.pc \in {"split", "answered", "take"}
        PROVE  \E k \in Handlers :
                  /\ th' = [th EXCEPT ![t] = k] /\ k.pc \in {"split", "answered", "take"}
                  /\ AskedOf(k) /\ Answered(k)
    <3>1. AskedOf(h) /\ Answered(h)
      BY <2>1, <2>2 DEF AskedOf, Answered
    <3>. QED  BY <2>2, <3>1
  <2>3. CASE g.look # g.path /\ inum > 0
    <3>. DEFINE block == DirBlock(inum)
                h == [g EXCEPT !.pc = "split", !.look = g.path, !.block = block]
    <3>1. th' = [th EXCEPT ![t] = h]
      BY <1>6, <2>3 DEF Translated
    <3>2. block \in {0} \cup Dirs
      BY <1>2, <1>3, <2>3 DEF DirBlock, TInv, DirsStay
    <3>. HIDE DEF block
    <3>3. /\ h \in Handlers /\ h.op = g.op /\ h.path = g.path /\ h.look = g.path
          /\ h.pc = "split"
      BY <1>1, <2>1, <3>2 DEF Handlers
    <3>. HIDE DEF h
    <3>. QED  BY <2>2, <3>1, <3>3
  <2>4. CASE ~(g.look # g.path /\ inum > 0)
    <3>1. PICK pc \in {"answered", "take"}, i \in Int :
            th' = [th EXCEPT ![t] = [g EXCEPT !.pc = pc, !.inum = i]]
      <4>1. \/ th' = [th EXCEPT ![t] = [g EXCEPT !.pc = "answered", !.inum = inum]]
            \/ th' = [th EXCEPT ![t] = [g EXCEPT !.pc = "answered", !.inum = EEXIST]]
            \/ th' = [th EXCEPT ![t] = [g EXCEPT !.pc = "take"]]
        BY <1>6, <2>4 DEF Translated
      <4>2. g.inum \in Int /\ EEXIST \in Int
        BY <1>1 DEF Handlers, EEXIST
      <4>3. [g EXCEPT !.pc = "take"] = [g EXCEPT !.pc = "take", !.inum = g.inum]
        BY <1>1 DEF Handlers
      <4>. QED  BY <1>3, <4>1, <4>2, <4>3
    <3>. DEFINE h == [g EXCEPT !.pc = pc, !.inum = i]
    <3>2. /\ h \in Handlers /\ h.op = g.op /\ h.path = g.path /\ h.look = g.look
          /\ h.pc = pc
      BY <1>1 DEF Handlers
    <3>3. th' = [th EXCEPT ![t] = h]
      BY <3>1
    <3>. HIDE DEF h
    <3>. QED  BY <2>2, <3>2, <3>3
  <2>. QED  BY <2>3, <2>4
<1>. QED  BY <1>5, <1>6

\* translate begins at the root, with the first token of its path.
LEMMA SplitStep ==
    ASSUME TInv, NEW t \in Threads, Split(t)  PROVE TInv'
<1>. DEFINE g == th[t]
<1>1. /\ g.pc = "split" /\ UNCHANGED <<memory, disk>> /\ UNCHANGED disk
      /\ g \in Handlers /\ g.look \in Lookups /\ MemoryAt(g.pc) /\ AskedOf(g)
      /\ \A u \in Threads \ {t} : th[u].pc = "idle"
  BY TheOne DEF Split, Handlers
<1>2. CASE g.look = <<>>
  <2>1. Translated(t, 1)
    BY <1>2 DEF Split
  <2>2. g.op = "getattr" => 1 = g.was
    BY <1>1, <1>2, AtOf DEF AskedOf
  <2>. QED  BY <1>1, <2>1, <2>2, Constants, TranslatedKeeps
<1>3. CASE g.look # <<>>
  <2>. DEFINE token == Head(g.look)
              k == [g EXCEPT !.pc = "walk", !.token = token, !.at = 1, !.isDir = TRUE]
  <2>1. /\ strtok' = [of |-> t, left |-> Tail(g.look)]
        /\ th' = [th EXCEPT ![t] = k]
    BY <1>1, <1>3 DEF Split
  <2>2. /\ token \in Names \cup {Sub}
        /\ \/ Tail(g.look) = <<>> /\ g.look = <<token>>
           \/ token = Sub /\ \E n \in Names : g.look = <<Sub, n>> /\ Tail(g.look) = <<n>>
    <3>1. CASE \E x \in Names \cup {Sub} : g.look = <<x>>
      BY <3>1, ShortPaths
    <3>2. ASSUME NEW n \in Names, g.look = <<Sub, n>>
          PROVE  token = Sub /\ Tail(g.look) = <<n>>
      BY <3>2, ShortPaths
    <3>. QED  BY <1>1, <1>3, <3>1, <3>2, PathForms
  <2>. HIDE DEF token
  <2>3. /\ k \in Handlers /\ k.pc = "walk" /\ k.op = g.op /\ k.path = g.path /\ k.look = g.look
        /\ k.was = g.was /\ k.token = token /\ k.at = 1 /\ k.isDir
    BY <1>1, <2>2, Constants DEF Handlers
  <2>. HIDE DEF k
  <2>4. PICK h \in Handlers : h = k
    BY <2>3
  <2>5. strtok' = [of |-> t, left |-> strtok'.left] /\ strtok'.left = Tail(g.look)
    BY <2>1
  <2>6. WalkingAt(t, h)'
    BY <2>2, <2>3, <2>4, <2>5 DEF WalkingAt
  <2>7. /\ UNCHANGED memory
        /\ inode_map' \in SUBSET (0 .. MaxInode) /\ inode_region' \in [Inodes -> Types]
    BY <1>1 DEF memory, TInv, Shape
  <2>8. MemoryAt(h.pc)' /\ TakenBy(h)' /\ Answered(h)'
    BY <1>1, <2>3, <2>4, <2>7 DEF memory, disk, MemoryAt, TakenBy, Taking, Answered
  <2>9. AskedOf(h)'
    BY <1>1, <2>3, <2>4, SameDisk DEF AskedOf
  <2>. QED  BY <1>1, <2>1, <2>4, <2>6, <2>7, <2>8, <2>9, SameDisk, OneStep
<1>. QED  BY <1>2, <1>3

\* One round of translate's loop: strtok goes on in this thread's string.
LEMMA WalkStep ==
    ASSUME TInv, NEW t \in Threads, Walk(t)  PROVE TInv'
<1>. DEFINE g == th[t]
            slots == Matches(g.at, g.token)
            entry == entries[g.at][Last(slots)]
<1>1. /\ g.pc = "walk" /\ UNCHANGED <<memory, disk>> /\ UNCHANGED disk /\ UNCHANGED memory
      /\ g \in Handlers /\ MemoryAt(g.pc) /\ AskedOf(g) /\ WalkingAt(t, g)
      /\ \A u \in Threads \ {t} : th[u].pc = "idle"
  BY TheOne DEF Walk
<1>2. /\ t # 0 /\ strtok = [of |-> t, left |-> strtok.left] /\ strtok.of = t /\ g.isDir
      /\ g.at \in Dirs /\ DirBlock(g.at) = g.at
  <2>1. g.at \in Dirs /\ g.at \in Inodes
    BY <1>1, Constants DEF WalkingAt, Dirs
  <2>2. inode_region[g.at] = "dir"
    BY <1>1, <2>1 DEF MemoryAt, TInv, DirsStay
  <2>. QED  BY <1>1, <2>1, <2>2, Constants DEF WalkingAt, DirBlock
<1>3. \/ slots = {} /\ Finish(t, ENOENT)
      \/ slots # {} /\ \E next \in NextTokens :
            IF next = None THEN Finish(t, entry.inode)
            ELSE /\ th' = [th EXCEPT ![t].token = next, ![t].at = entry.inode,
                                     ![t].isDir = entry.isDir]
                 /\ strtok' = IF strtok.left = <<>> THEN strtok
                              ELSE [strtok EXCEPT !.left = Tail(@)]
  BY <1>2 DEF Walk
\* The token before the last is the directory.
<1>4. ASSUME NEW n \in Names, g.token = Sub, g.at = 1, g.look = <<Sub, n>>, strtok.left = <<n>>
      PROVE  TInv'
  <2>1. slots # {} /\ entry = SubEntry
    BY <1>4, SubIsFirst DEF TInv
  <2>2. NextTokens = {n} /\ n # None /\ Tail(<<n>>) = <<>>
    BY <1>2, <1>4, Constants, ShortPaths DEF NextTokens
  <2>. DEFINE k == [g EXCEPT !.token = n, !.at = 2, !.isDir = TRUE]
  <2>3. /\ th' = [th EXCEPT ![t].token = n, ![t].at = entry.inode, ![t].isDir = entry.isDir]
        /\ strtok' = [strtok EXCEPT !.left = Tail(@)]
    BY <1>3, <1>4, <2>1, <2>2
  <2>4. th' = [th EXCEPT ![t] = k] /\ strtok' = [of |-> t, left |-> <<>>]
    <3>1. entry.inode = 2 /\ entry.isDir = TRUE
      BY <2>1 DEF SubEntry
    <3>. HIDE DEF entry
    <3>2. th' = [th EXCEPT ![t] = k]
      BY <2>3, <3>1
    <3>3. strtok' = [of |-> t, left |-> Tail(<<n>>)]
      BY <1>2, <1>4, <2>3
    <3>. QED  BY <2>2, <3>2, <3>3
  <2>5. /\ k \in Handlers /\ k.pc = "walk" /\ k.op = g.op /\ k.path = g.path /\ k.look = g.look
        /\ k.was = g.was /\ k.token = n /\ k.at = 2 /\ k.isDir
    BY <1>1, Constants DEF Handlers
  <2>. HIDE DEF k
  <2>6. PICK h \in Handlers : h = k
    BY <2>5
  <2>7. strtok' = [of |-> t, left |-> strtok'.left] /\ strtok'.left = <<>>
    BY <2>4
  <2>8. WalkingAt(t, h)'
    BY <1>4, <2>5, <2>6, <2>7 DEF WalkingAt
  <2>9. inode_map' \in SUBSET (0 .. MaxInode) /\ inode_region' \in [Inodes -> Types]
    BY <1>1 DEF memory, TInv, Shape
  <2>10. MemoryAt(h.pc)' /\ TakenBy(h)' /\ Answered(h)'
    BY <1>1, <2>5, <2>6 DEF memory, disk, MemoryAt, TakenBy, Taking, Answered
  <2>11. AskedOf(h)'
    BY <1>1, <2>5, <2>6, SameDisk DEF AskedOf
  <2>. QED  BY <1>1, <2>4, <2>6, <2>8, <2>9, <2>10, <2>11, SameDisk, OneStep
\* The last token is what was asked for.
<1>5. ASSUME strtok.left = <<>>,
             \/ g.at = 1 /\ g.look = <<g.token>>
             \/ g.at = 2 /\ g.look = <<Sub, g.token>> /\ g.token \in Names
      PROVE  TInv'
  <2>1. At(g.look) = IF slots = {} THEN 0 ELSE entry.inode
    <3>1. g.token \in Names \cup {Sub}
      <4>1. g.look \in Lookups
        BY <1>1 DEF Handlers
      <4>2. CASE g.look = <<g.token>>
        <5>1. Len(<<g.token>>) = 1 /\ <<g.token>>[1] = g.token
          BY ShortPaths
        <5>2. ASSUME NEW n \in Names  PROVE Len(<<Sub, n>>) = 2
          BY ShortPaths
        <5>3. PICK x \in Names \cup {Sub} : g.look = <<x>>
          BY <4>1, <4>2, <5>1, <5>2, PathForms
        <5>. QED  BY <4>2, <5>3
      <4>. QED  BY <1>5, <4>2
    <3>. QED  BY <1>5, <3>1, AtOf
  <2>2. g.op = "getattr" => g.was = At(g.look)
    BY <1>1 DEF AskedOf
  <2>3. CASE slots = {}
    <3>1. Translated(t, ENOENT)
      BY <1>3, <2>3 DEF Finish
    <3>. QED  BY <1>1, <2>1, <2>2, <2>3, <3>1, TranslatedKeeps
  <2>4. CASE slots # {}
    <3>1. NextTokens = {None}
      BY <1>2, <1>5 DEF NextTokens
    <3>2. Translated(t, entry.inode)
      BY <1>3, <2>4, <3>1 DEF Finish
    <3>3. entry \in Entry
      BY <1>2, <2>4, LastIsSlot DEF TInv
    <3>4. entry.inode \in Inodes
      BY <3>3 DEF Entry
    <3>. HIDE DEF entry
    <3>. QED  BY <1>1, <2>1, <2>2, <2>4, <3>2, <3>4, TranslatedKeeps
  <2>. QED  BY <2>3, <2>4
<1>. QED  BY <1>1, <1>4, <1>5 DEF WalkingAt
-----------------------------------------------------------------------------
\* A handler with another place and another inode.
LEMMA WithInode ==
    ASSUME NEW g \in Handlers, NEW pc \in {"answered", "write_map"}, NEW inum \in Int
    PROVE  \E h \in Handlers :
              /\ h = [g EXCEPT !.pc = pc, !.inum = inum]
              /\ h.pc = pc /\ h.inum = inum
              /\ h.op = g.op /\ h.path = g.path /\ h.look = g.look
<1>. DEFINE h == [g EXCEPT !.pc = pc, !.inum = inum]
<1>1. h \in Handlers
  BY DEF Handlers
<1>2. /\ h.pc = pc /\ h.inum = inum
      /\ h.op = g.op /\ h.path = g.path /\ h.look = g.look
  BY DEF Handlers
<1>. QED  BY <1>1, <1>2

\* The inode that is found is marked in memory first.
LEMMA TakeInodeStep ==
    ASSUME TInv, NEW t \in Threads, TakeInode(t)  PROVE TInv'
<1>. DEFINE g == th[t]
            free == {i \in 2 .. MaxInode : i \notin inode_map}
            least == CHOOSE i \in free : \A j \in free : i <= j
<1>1. /\ g.pc = "take" /\ UNCHANGED disk /\ inode_region' = inode_region
      /\ g \in Handlers /\ MemoryAt(g.pc) /\ AskedOf(g)
      /\ \A u \in Threads \ {t} : th[u].pc = "idle"
      /\ inode_region' \in [Inodes -> Types]
  BY TheOne DEF TakeInode, TInv, Shape
<1>2. CASE free = {}
  <2>1. PICK h \in Handlers :
           /\ h = [g EXCEPT !.pc = "answered", !.inum = ENOSPC]
           /\ h.pc = "answered" /\ h.inum = ENOSPC
           /\ h.op = g.op /\ h.path = g.path /\ h.look = g.look
    <3>1. ENOSPC \in Int
      BY DEF ENOSPC
    <3>2. g \in Handlers /\ "answered" \in {"answered", "write_map"}
      BY <1>1
    <3>. HIDE DEF g
    <3>. QED  BY <3>1, <3>2, WithInode
  <2>2. th' = [th EXCEPT ![t] = h] /\ inode_map' = inode_map
    BY <1>2, <2>1 DEF TakeInode
  <2>3. MemoryAt(h.pc)' /\ TakenBy(h)' /\ WalkingAt(t, h)' /\ AskedOf(h)' /\ Answered(h)'
    BY <1>1, <2>1, <2>2
    DEF disk, MemoryAt, TakenBy, Taking, WalkingAt, AskedOf, Answered
  <2>4. inode_map' \in SUBSET (0 .. MaxInode)
    BY <2>2 DEF TInv, Shape
  <2>. QED  BY <1>1, <2>1, <2>2, <2>3, <2>4, SameDisk, OneStep
<1>3. CASE free # {}
  <2>1. least \in free
    <3>1. free \subseteq Nat
      BY Constants
    <3>. HIDE DEF free
    <3>. QED  BY <1>3, <3>1, LeastExists
  <2>. HIDE DEF least
  <2>2. /\ least \in Inodes \ Dirs /\ least \notin disk_inode_map
    BY <1>1, <2>1, Constants DEF MemoryAt, Dirs, TInv, DirsStay
  <2>3. PICK h \in Handlers :
           /\ h = [g EXCEPT !.pc = "write_map", !.inum = least]
           /\ h.pc = "write_map" /\ h.inum = least
           /\ h.op = g.op /\ h.path = g.path /\ h.look = g.look
    <3>1. least \in Int
      BY <2>2, Constants
    <3>2. g \in Handlers /\ "write_map" \in {"answered", "write_map"}
      BY <1>1
    <3>. HIDE DEF g
    <3>. QED  BY <3>1, <3>2, WithInode
  <2>4. th' = [th EXCEPT ![t] = h] /\ inode_map' = inode_map \cup {least}
    BY <1>3, <2>3 DEF TakeInode, least
  <2>5. inode_map' = disk_inode_map' \cup {least} /\ inode_region' = disk_inode_region'
    BY <1>1, <2>4 DEF MemoryAt, disk
  <2>6. MemoryAt(h.pc)' /\ WalkingAt(t, h)' /\ AskedOf(h)' /\ Answered(h)'
    BY <1>1, <2>3, <2>5 DEF MemoryAt, WalkingAt, AskedOf, Answered
  <2>7. \A d \in Dirs : \A s \in DOMAIN entries[d] : entries[d][s].inode # least
    BY <2>2 DEF TInv, OneInodeEach
  <2>8. TakenBy(h)'
    BY <1>1, <2>2, <2>3, <2>5, <2>7 DEF disk, TakenBy, Taking, AskedOf
  <2>9. inode_map' \in SUBSET (0 .. MaxInode)
    BY <2>2, <2>4, Constants DEF TInv, Shape
  <2>. QED  BY <1>1, <2>3, <2>4, <2>6, <2>8, <2>9, SameDisk, OneStep
<1>. QED  BY <1>2, <1>3

\* The bitmap is written.
LEMMA update_bitmapStep ==
    ASSUME TInv, NEW t \in Threads, update_bitmap(t)  PROVE TInv'
<1>1. /\ th[t].pc = "write_map" /\ UNCHANGED <<memory, disk_inode_region, entries, strtok>>
      /\ disk_inode_map' = inode_map
      /\ MemoryAt("write_map") /\ TakenBy(th[t]) /\ AskedOf(th[t])
      /\ \A u \in Threads \ {t} : th[u].pc = "idle"
  BY TheOne DEF update_bitmap
<1>2. PICK h \in Handlers :
         /\ th' = [th EXCEPT ![t] = h] /\ h.pc = "fill"
         /\ h.op = th[t].op /\ h.path = th[t].path /\ h.look = th[t].look
         /\ h.inum = th[t].inum
  BY <1>1, Moved DEF update_bitmap
<1>3. /\ h.op = "mknod" /\ h.inum \in Inodes \ Dirs
      /\ disk_inode_map' = disk_inode_map \cup {h.inum} /\ inode_map' = disk_inode_map'
      /\ inode_region' = inode_region /\ disk_inode_region' = disk_inode_region
      /\ entries' = entries
  BY <1>1, <1>2 DEF TakenBy, Taking, memory
<1>4. MemoryAt(h.pc)' /\ TakenBy(h)' /\ WalkingAt(t, h)' /\ AskedOf(h)' /\ Answered(h)'
  BY <1>1, <1>2, <1>3 DEF MemoryAt, TakenBy, Taking, WalkingAt, AskedOf, Answered
<1>5. DirsStay' /\ OneInodeEach'
  BY <1>3 DEF TInv, DirsStay, OneInodeEach
<1>6. /\ inode_map' \in SUBSET (0 .. MaxInode) /\ disk_inode_map' \in SUBSET (0 .. MaxInode)
      /\ inode_region' \in [Inodes -> Types] /\ disk_inode_region' \in [Inodes -> Types]
      /\ entries' \in [{0} \cup Dirs -> Seq(Entry)]
  BY <1>1, <1>3 DEF TInv, Shape, memory
<1>. QED  BY <1>1, <1>2, <1>4, <1>5, <1>6, OneStep

\* The inode is filled in memory.
LEMMA FillInodeStep ==
    ASSUME TInv, NEW t \in Threads, FillInode(t)  PROVE TInv'
<1>1. /\ th[t].pc = "fill" /\ UNCHANGED disk /\ inode_map' = inode_map
      /\ inode_region' = [inode_region EXCEPT ![th[t].inum] = "file"]
      /\ MemoryAt("fill") /\ TakenBy(th[t]) /\ AskedOf(th[t])
      /\ \A u \in Threads \ {t} : th[u].pc = "idle"
  BY TheOne DEF FillInode
<1>2. PICK h \in Handlers :
         /\ th' = [th EXCEPT ![t] = h] /\ h.pc = "update_inode"
         /\ h.op = th[t].op /\ h.path = th[t].path /\ h.look = th[t].look
         /\ h.inum = th[t].inum
  BY <1>1, Moved DEF FillInode
<1>3. /\ inode_region' = [disk_inode_region' EXCEPT ![h.inum] = "file"]
      /\ inode_map' = disk_inode_map'
  BY <1>1, <1>2 DEF MemoryAt, disk
<1>4. MemoryAt(h.pc)' /\ TakenBy(h)' /\ WalkingAt(t, h)' /\ AskedOf(h)' /\ Answered(h)'
  BY <1>1, <1>2, <1>3 DEF disk, MemoryAt, TakenBy, Taking, WalkingAt, AskedOf, Answered
<1>5. inode_map' \in SUBSET (0 .. MaxInode) /\ inode_region' \in [Inodes -> Types]
  BY <1>1 DEF TInv, Shape, Types
<1>. QED  BY <1>1, <1>2, <1>4, <1>5, SameDisk, OneStep

\* The inode is written.
LEMMA update_inodeStep ==
    ASSUME TInv, NEW t \in Threads, update_inode(t)  PROVE TInv'
<1>1. /\ th[t].pc = "update_inode" /\ UNCHANGED <<memory, disk_inode_map, entries, strtok>>
      /\ disk_inode_region' = inode_region
      /\ MemoryAt("update_inode") /\ TakenBy(th[t]) /\ AskedOf(th[t])
      /\ \A u \in Threads \ {t} : th[u].pc = "idle"
  BY TheOne DEF update_inode
<1>2. PICK h \in Handlers :
         /\ th' = [th EXCEPT ![t] = h] /\ h.pc = "add_entry"
         /\ h.op = th[t].op /\ h.path = th[t].path /\ h.look = th[t].look
         /\ h.inum = th[t].inum
  BY <1>1, Moved DEF update_inode
<1>3. /\ h.op = "mknod" /\ h.inum \in Inodes \ Dirs /\ h.inum \in disk_inode_map
      /\ disk_inode_region' = [disk_inode_region EXCEPT ![h.inum] = "file"]
      /\ disk_inode_map' = disk_inode_map /\ entries' = entries
      /\ inode_region' = disk_inode_region' /\ inode_map' = disk_inode_map'
  BY <1>1, <1>2 DEF MemoryAt, TakenBy, Taking, memory
<1>4. disk_inode_region' \in [Inodes -> Types] /\ disk_inode_region'[h.inum] = "file"
      /\ \A i \in Inodes \ {h.inum} : disk_inode_region'[i] = disk_inode_region[i]
  BY <1>3 DEF TInv, Shape, Types
<1>5. MemoryAt(h.pc)' /\ TakenBy(h)' /\ WalkingAt(t, h)' /\ AskedOf(h)' /\ Answered(h)'
  BY <1>1, <1>2, <1>3, <1>4 DEF MemoryAt, TakenBy, Taking, WalkingAt, AskedOf, Answered
<1>6. DirsStay'
  BY <1>3, <1>4 DEF TInv, DirsStay
<1>7. OneInodeEach'
  <2>1. ASSUME NEW d \in Dirs, NEW s \in DOMAIN entries[d]
        PROVE  entries[d][s].inode \in Inodes
    <3>1. entries[d] \in Seq(Entry)
      BY DEF TInv, Shape
    <3>2. entries[d][s] \in Entry
      BY <3>1, LenProperties, ElementOfSeq
    <3>. QED  BY <3>2 DEF Entry
  <2>2. \A i \in Inodes : disk_inode_region[i] # "none" => disk_inode_region'[i] # "none"
    BY <1>4
  <2>. QED  BY <1>3, <2>1, <2>2 DEF TInv, OneInodeEach
<1>8. /\ inode_map' \in SUBSET (0 .. MaxInode) /\ disk_inode_map' \in SUBSET (0 .. MaxInode)
      /\ inode_region' \in [Inodes -> Types]
      /\ entries' \in [{0} \cup Dirs -> Seq(Entry)]
  BY <1>1, <1>3 DEF TInv, Shape, memory
<1>. QED  BY <1>1, <1>2, <1>4, <1>5, <1>6, <1>7, <1>8, OneStep

\* The entry is the last of its directory, with the inode that was taken for it.
LEMMA AddEntryStep ==
    ASSUME TInv, NEW t \in Threads, AddEntry(t)  PROVE TInv'
<1>. DEFINE g == th[t]
            b == g.block
            new == [name |-> g.path[Len(g.path)], isDir |-> FALSE, inode |-> g.inum]
            n == Len(entries[b])
<1>1. /\ g.pc = "add_entry" /\ b # 0
      /\ UNCHANGED <<memory, disk_inode_map, disk_inode_region, strtok>>
      /\ entries' = [entries EXCEPT ![b] = Append(entries[b], new)]
      /\ g \in Handlers /\ MemoryAt("add_entry") /\ TakenBy(g) /\ AskedOf(g)
      /\ \A u \in Threads \ {t} : th[u].pc = "idle"
  BY TheOne DEF AddEntry
<1>2. /\ b \in Dirs /\ g.op = "mknod" /\ g.inum \in Inodes \ Dirs /\ g.path \in Files
      /\ \A d \in Dirs : \A s \in DOMAIN entries[d] : entries[d][s].inode # g.inum
      /\ g.inum \in disk_inode_map /\ disk_inode_region[g.inum] = "file"
  BY <1>1 DEF Handlers, TakenBy, Taking, AskedOf
<1>3. new.name \in Names /\ new.inode = g.inum /\ new \in Entry
  BY <1>2, FileForms DEF Entry
<1>. HIDE DEF new
<1>4. entries \in [{0} \cup Dirs -> Seq(Entry)]
  BY DEF TInv, Shape
<1>5. entries[b] \in Seq(Entry) /\ n \in Nat /\ DOMAIN entries[b] = 1 .. n
  BY <1>2, <1>4, LenProperties
<1>6. /\ Append(entries[b], new) \in Seq(Entry) /\ Len(Append(entries[b], new)) = n + 1
      /\ \A s \in 1 .. n : Append(entries[b], new)[s] = entries[b][s]
      /\ Append(entries[b], new)[n + 1] = new
  BY <1>3, <1>5, AppendProperties
<1>7. /\ entries' \in [{0} \cup Dirs -> Seq(Entry)]
      /\ \A d \in {0} \cup Dirs : d # b => entries'[d] = entries[d]
      /\ entries'[b] = Append(entries[b], new)
  BY <1>1, <1>2, <1>4, <1>6
<1>8. DOMAIN entries'[b] = 1 .. (n + 1)
  BY <1>6, <1>7, LenProperties
<1>9. ASSUME NEW d \in Dirs, NEW s \in DOMAIN entries'[d]
      PROVE  \/ s \in DOMAIN entries[d] /\ entries'[d][s] = entries[d][s]
             \/ d = b /\ s = n + 1 /\ entries'[d][s] = new
  <2>1. CASE d = b
    <3>1. s \in 1 .. n \/ s = n + 1
      BY <1>5, <1>8, <2>1
    <3>. HIDE DEF n
    <3>. QED  BY <1>5, <1>6, <1>7, <2>1, <3>1
  <2>2. CASE d # b
    BY <1>7, <2>2
  <2>. QED  BY <2>1, <2>2
<1>10. PICK h \in Handlers :
          /\ th' = [th EXCEPT ![t] = h] /\ h.pc = "answered"
          /\ h.op = g.op /\ h.path = g.path /\ h.look = g.look
  BY <1>1, Moved DEF AddEntry
<1>11. MemoryAt(h.pc)' /\ TakenBy(h)' /\ WalkingAt(t, h)' /\ AskedOf(h)' /\ Answered(h)'
  BY <1>1, <1>2, <1>10 DEF memory, MemoryAt, TakenBy, Taking, WalkingAt, AskedOf, Answered
<1>12. DirsStay'
  <2>1. /\ disk_inode_map' = disk_inode_map /\ disk_inode_region' = disk_inode_region
        /\ entries'[0] = entries[0]
    BY <1>1, <1>2, <1>7, Constants
  <2>2. 1 \in DOMAIN entries'[1] /\ entries'[1][1] = SubEntry
    <3>1. 1 \in DOMAIN entries[1] /\ entries[1][1] = SubEntry /\ 1 \in Dirs
      BY DEF TInv, DirsStay, Dirs
    <3>. QED  BY <1>5, <1>6, <1>7, <1>8, <3>1
  <2>3. ASSUME NEW d \in Dirs, NEW s \in DOMAIN entries'[d], ~(d = 1 /\ s = 1)
        PROVE  entries'[d][s].name \in Names /\ entries'[d][s].inode \notin Dirs
    BY <1>2, <1>3, <1>9, <2>3 DEF TInv, DirsStay
  <2>. QED  BY <2>1, <2>2, <2>3 DEF TInv, DirsStay
<1>13. OneInodeEach'
  <2>1. ASSUME NEW d \in Dirs, NEW s \in DOMAIN entries'[d]
        PROVE  /\ entries'[d][s].inode \in disk_inode_map
               /\ disk_inode_region[entries'[d][s].inode] # "none"
    BY <1>2, <1>3, <1>9 DEF TInv, OneInodeEach
  <2>2. ASSUME NEW d \in Dirs, NEW e \in Dirs,
               NEW r \in DOMAIN entries'[d], NEW s \in DOMAIN entries'[e],
               entries'[d][r].inode = entries'[e][s].inode
        PROVE  d = e /\ r = s
    BY <1>2, <1>3, <1>9, <2>2 DEF TInv, OneInodeEach
  <2>. QED  BY <1>1, <2>1, <2>2 DEF OneInodeEach
<1>14. /\ inode_map' \in SUBSET (0 .. MaxInode) /\ disk_inode_map' \in SUBSET (0 .. MaxInode)
       /\ inode_region' \in [Inodes -> Types] /\ disk_inode_region' \in [Inodes -> Types]
  BY <1>1 DEF TInv, Shape, memory
<1>. QED  BY <1>1, <1>7, <1>10, <1>11, <1>12, <1>13, <1>14, OneStep
-----------------------------------------------------------------------------
(***************************************************************************)
(* What follows with -s.                                                   *)
(***************************************************************************)
\* Every step of the mount keeps the invariant.
LEMMA StepTInv ==
    ASSUME Serial, TInv, [Next]_vars  PROVE TInv'
<1>1. CASE UNCHANGED vars
  <2>1. /\ UNCHANGED <<inode_map, inode_region, disk_inode_map, disk_inode_region, entries>>
        /\ UNCHANGED <<strtok, th>>
    BY <1>1 DEF vars, memory, disk
  <2>2. Shape' /\ OneRuns' /\ DirsStay' /\ OneInodeEach' /\ MemoryIsImage'
    BY <2>1 DEF TInv, Shape, OneRuns, DirsStay, OneInodeEach, MemoryIsImage
  <2>3. ASSUME NEW t \in Threads, th'[t].pc # "idle"  PROVE HandlerOK(t)'
    <3>1. HandlerOK(t)
      BY <2>1, <2>3 DEF TInv
    <3>. QED  BY <2>1, <3>1 DEF HandlerOK, MemoryAt, TakenBy, WalkingAt, AskedOf, Answered,
                                At, Matches
  <2>. QED  BY <2>2, <2>3 DEF TInv
<1>2. ASSUME NEW t \in Threads, NEW op \in {"getattr", "mknod"}, NEW p \in Fathers \cup Files,
             Call(t, op, p)
      PROVE  TInv'
  BY <1>2, CallStep DEF Lookups
<1>3. ASSUME NEW t \in Threads, Handler(t)  PROVE TInv'
  BY <1>3, AllocMapStep, ReadMapStep, AllocRegionStep, ReadRegionStep, SplitStep, WalkStep,
     TakeInodeStep, update_bitmapStep, FillInodeStep, update_inodeStep, AddEntryStep, ReturnStep
  DEF Handler
<1>. QED  BY <1>1, <1>2, <1>3 DEF Next

\* With -s the invariant holds throughout.
THEOREM SerialInvariance == Serial => (Spec => []TInv)
<1>. SUFFICES ASSUME Serial PROVE Spec => []TInv
  OBVIOUS
<1>1. TInv /\ [Next]_vars => TInv'
  BY StepTInv
<1>. QED  BY <1>1, InitTInv, PTL DEF Spec

\* With -s fs_getattr answers the inode and the type of what was at its path when
\* it was called, though it reads the bitmap and the inodes again first.
THEOREM SerialLookups == Serial => (Spec => []FoundIfThere)
<1>1. TInv => FoundIfThere
  BY DEF TInv, HandlerOK, Answered, FoundIfThere
<1>. QED  BY <1>1, SerialInvariance, PTL

\* With -s no two entries of the image share an inode, and each inode is marked
\* and written before its entry is, whichever step of fs_mknod comes next.
THEOREM SerialEntries == Serial => (Spec => []OneInodeEach)
<1>1. TInv => OneInodeEach
  BY DEF TInv
<1>. QED  BY <1>1, SerialInvariance, PTL

\* With -s memory is as the image when no handler runs: what fs_init reads again
\* in each fs_getattr is what the last fs_mknod left.
THEOREM SerialMemory == Serial => (Spec => []MemoryIsImage)
<1>1. TInv => MemoryIsImage
  BY DEF TInv
<1>. QED  BY <1>1, SerialInvariance, PTL
=============================================================================
