------------------------------ MODULE Threads -------------------------------
(***************************************************************************)
(* fs_getattr and fs_mknod in several threads at once: fuse_main without   *)
(* -s (src/misc.c) runs a handler in each, on one copy of the bitmap and   *)
(* of the inodes, which every fs_getattr reads again, and with one strtok. *)
(*                                                                         *)
(* One action is what a handler does between two places where another      *)
(* thread makes a difference: reads and writes of the image, malloc and    *)
(* strtok.  (Threads can meet at more places than these; that would only   *)
(* add behaviours, and none to Serial ones.)                               *)
(***************************************************************************)
EXTENDS Integers, Sequences

CONSTANTS
    Threads,
    Serial,    \* the file system was mounted with -s: one handler at a time
    Names,     \* names of files
    Sub,       \* the name of the directory that is not the root
    MaxInode   \* the last inode of the bitmap and of inode_region; they all
               \* are in one block, as are the entries of a directory

ASSUME ThreadsAssumption ==
    /\ Serial \in BOOLEAN
    /\ Sub \notin Names
    /\ MaxInode \in 3 .. 15

VARIABLES
    inode_map,          \* the inode bitmap in memory
    inode_region,       \* the types of the inodes in memory
    disk_inode_map,     \* the same in the image
    disk_inode_region,
    entries,            \* the entries in block 0 and in those of the directories
    strtok,             \* what strtok goes on with
    th                  \* the handlers that the threads run

memory == <<inode_map, inode_region>>
disk   == <<disk_inode_map, disk_inode_region, entries>>
vars   == <<memory, disk, strtok, th>>

Inodes  == 1 .. MaxInode
Dirs    == {1, 2}
Fathers == {<<>>, <<Sub>>}
Files   == {Append(f, n) : f \in Fathers, n \in Names}
trancate_path(p) == SubSeq(p, 1, Len(p) - 1)

ENOENT  == -2
EEXIST  == -17
ENOTDIR == -20
ENOSPC  == -28

None == "none"  \* no token
Junk == "junk"  \* a token that is no name

\* The tokens left of the string that strtok was last given, and the thread
\* whose string that is; 0 when the string has been freed.
Freed == [of |-> 0, left |-> <<>>]

ASSUME NoneAssumption == None \notin Names \cup {Sub} /\ 0 \notin Threads

Idle == [pc |-> "idle", op |-> "none", path |-> <<>>,
         look |-> <<>>,                             \* the path to translate
         token |-> None, at |-> 1, isDir |-> TRUE,  \* where translate is
         was |-> 0,    \* the inode at path in the image when the call came
         block |-> 0,  \* the block of the father's entries
         inum |-> 0, type |-> "none"]

\* An inode that is no directory's has direct[0] = 0; the superblock, read as
\* entries, has none that is valid.
DirBlock(i) == IF inode_region[i] = "dir" THEN i ELSE 0
Matches(block, name) == {s \in DOMAIN entries[block] : entries[block][s].name = name}
Last(slots) == CHOOSE s \in slots : \A r \in slots : r <= s

Init ==
    /\ inode_map = 0 .. 2
    /\ inode_region = [i \in Inodes |-> IF i \in Dirs THEN "dir" ELSE "none"]
    /\ disk_inode_map = inode_map
    /\ disk_inode_region = inode_region
    /\ entries = [b \in {0} \cup Dirs |->
                    IF b = 1 THEN <<[name |-> Sub, isDir |-> TRUE, inode |-> 2]>> ELSE <<>>]
    /\ strtok = Freed
    /\ th = [t \in Threads |-> Idle]
-----------------------------------------------------------------------------
At(p) ==
    LET dir   == IF Len(p) = 2 THEN 2 ELSE 1
        slots == Matches(dir, p[Len(p)])
    IN  IF p = <<>> THEN 1 ELSE IF slots = {} THEN 0 ELSE entries[dir][Last(slots)].inode

\* The kernel has one thread at a time make a file in a directory; it asks for
\* attributes at any time.
Call(t, op, p) ==
    /\ th[t].pc = "idle"
    /\ Serial => \A u \in Threads : th[u].pc = "idle"
    /\ op = "mknod" =>
        /\ p \in Files
        /\ ~\E u \in Threads : /\ th[u].pc # "idle" /\ th[u].op = "mknod"
                               /\ trancate_path(th[u].path) = trancate_path(p)
    /\ th' = [th EXCEPT ![t] =
                [Idle EXCEPT !.pc = IF op = "getattr" THEN "alloc_map" ELSE "split",
                             !.op = op, !.path = p, !.was = At(p),
                             !.look = IF op = "getattr" THEN p ELSE trancate_path(p)]]
    /\ UNCHANGED <<memory, disk, strtok>>

Goto(t, pc) == th' = [th EXCEPT ![t].pc = pc]

\* fs_init, which fs_getattr begins with.  malloc gives memory that may hold
\* anything.
AllocMap(t) ==
    /\ th[t].pc = "alloc_map"
    /\ inode_map' \in SUBSET (0 .. MaxInode)
    /\ Goto(t, "read_map")
    /\ UNCHANGED <<inode_region, disk, strtok>>

ReadMap(t) ==
    /\ th[t].pc = "read_map"
    /\ inode_map' = disk_inode_map
    /\ Goto(t, "alloc_region")
    /\ UNCHANGED <<inode_region, disk, strtok>>

AllocRegion(t) ==
    /\ th[t].pc = "alloc_region"
    /\ inode_region' \in [Inodes -> {"none", "file", "dir"}]
    /\ Goto(t, "read_region")
    /\ UNCHANGED <<inode_map, disk, strtok>>

\* Mutant: the inodes are not read.
ReadRegion_Skipped(t) ==
    /\ th[t].pc = "read_region"
    /\ Goto(t, "split")
    /\ UNCHANGED <<memory, disk, strtok>>

ReadRegion(t) ==
    /\ th[t].pc = "read_region"
    /\ inode_region' = disk_inode_region
    /\ Goto(t, "split")
    /\ UNCHANGED <<inode_map, disk, strtok>>
-----------------------------------------------------------------------------
\* What translate answers goes to fs_getattr, or to fs_mknod: for the father,
\* and then for the path.
Translated(t, inum) ==
    LET h == th[t]
        father == h.look # h.path
        Answer(i) == [h EXCEPT !.pc = "answered", !.inum = i]
    IN  th' = [th EXCEPT ![t] =
            IF h.op = "getattr"
            THEN [Answer(inum) EXCEPT !.type = IF inum > 0 THEN inode_region[inum] ELSE "none"]
            ELSE IF father /\ inum > 0
            THEN [h EXCEPT !.pc = "split", !.look = h.path, !.block = DirBlock(inum)]
            ELSE IF father THEN Answer(inum)
            ELSE IF inum > 0 THEN Answer(EEXIST)
            ELSE [h EXCEPT !.pc = "take"]]

\* strtok(_path, "/"): the first token, if there is one.
Split(t) ==
    LET look == th[t].look
    IN  /\ th[t].pc = "split"
        /\ IF look = <<>>
           THEN strtok' = Freed /\ Translated(t, 1)
           ELSE /\ strtok' = [of |-> t, left |-> Tail(look)]
                /\ th' = [th EXCEPT ![t].pc = "walk", ![t].token = Head(look),
                                    ![t].at = 1, ![t].isDir = TRUE]
        /\ UNCHANGED <<memory, disk>>

\* The end of translate frees its string, in which strtok may be.
Finish(t, inum) ==
    /\ strtok' = IF strtok.of = t THEN Freed ELSE strtok
    /\ Translated(t, inum)

\* strtok(NULL, "/") goes on in the string it is in, this thread's or another's.
NextTokens ==
    IF strtok.of = 0 THEN {None, Junk}
    ELSE IF strtok.left = <<>> THEN {None} ELSE {Head(strtok.left)}

\* One round of translate's loop, from the read of the directory's block.
Walk(t) ==
    LET block == DirBlock(th[t].at)
        slots == Matches(block, th[t].token)
        entry == entries[block][Last(slots)]
    IN  /\ th[t].pc = "walk"
        /\ \/ ~th[t].isDir /\ Finish(t, ENOTDIR)
           \/ th[t].isDir /\ slots = {} /\ Finish(t, ENOENT)
           \/ /\ th[t].isDir /\ slots # {}
              /\ \E next \in NextTokens :
                    IF next = None THEN Finish(t, entry.inode)
                    ELSE /\ th' = [th EXCEPT ![t].token = next, ![t].at = entry.inode,
                                             ![t].isDir = entry.isDir]
                         /\ strtok' = IF strtok.left = <<>> THEN strtok
                                      ELSE [strtok EXCEPT !.left = Tail(@)]
        /\ UNCHANGED <<memory, disk>>
-----------------------------------------------------------------------------
\* fs_mknod from its search of the bitmap on.
TakeInode(t) ==
    LET free == {i \in 2 .. MaxInode : i \notin inode_map}
        least == CHOOSE i \in free : \A j \in free : i <= j
    IN  /\ th[t].pc = "take"
        /\ IF free = {}
           THEN /\ th' = [th EXCEPT ![t].pc = "answered", ![t].inum = ENOSPC]
                /\ UNCHANGED inode_map
           ELSE /\ th' = [th EXCEPT ![t].pc = "write_map", ![t].inum = least]
                /\ inode_map' = inode_map \cup {least}
        /\ UNCHANGED <<inode_region, disk, strtok>>

\* Mutant: the bitmap stays in memory.
update_bitmap_MemoryOnly(t) ==
    /\ th[t].pc = "write_map"
    /\ Goto(t, "fill")
    /\ UNCHANGED <<memory, disk, strtok>>

update_bitmap(t) ==
    /\ th[t].pc = "write_map"
    /\ disk_inode_map' = inode_map
    /\ Goto(t, "fill")
    /\ UNCHANGED <<memory, disk_inode_region, entries, strtok>>

FillInode(t) ==
    /\ th[t].pc = "fill"
    /\ inode_region' = [inode_region EXCEPT ![th[t].inum] = "file"]
    /\ Goto(t, "update_inode")
    /\ UNCHANGED <<inode_map, disk, strtok>>

\* Mutant: the inode stays in memory.
update_inode_MemoryOnly(t) ==
    /\ th[t].pc = "update_inode"
    /\ Goto(t, "add_entry")
    /\ UNCHANGED <<memory, disk, strtok>>

update_inode(t) ==
    /\ th[t].pc = "update_inode"
    /\ disk_inode_region' = inode_region
    /\ Goto(t, "add_entry")
    /\ UNCHANGED <<memory, disk_inode_map, entries, strtok>>

\* (A father that was looked up in memory not yet read has block 0, and the
\* assertion of image_write ends the process; that is not followed.)
AddEntry(t) ==
    LET new == [name |-> th[t].path[Len(th[t].path)], isDir |-> FALSE, inode |-> th[t].inum]
    IN  /\ th[t].pc = "add_entry" /\ th[t].block # 0
        /\ entries' = [entries EXCEPT ![th[t].block] = Append(@, new)]
        /\ Goto(t, "answered")
        /\ UNCHANGED <<memory, disk_inode_map, disk_inode_region, strtok>>

Return(t) ==
    /\ th[t].pc = "answered"
    /\ th' = [th EXCEPT ![t] = Idle]
    /\ UNCHANGED <<memory, disk, strtok>>

Handler(t) ==
    \/ AllocMap(t) \/ ReadMap(t) \/ AllocRegion(t) \/ ReadRegion(t)
    \/ Split(t) \/ Walk(t)
    \/ TakeInode(t) \/ update_bitmap(t) \/ FillInode(t) \/ update_inode(t) \/ AddEntry(t)
    \/ Return(t)

Next == \E t \in Threads :
    \/ \E op \in {"getattr", "mknod"}, p \in Fathers \cup Files : Call(t, op, p)
    \/ Handler(t)

Spec == Init /\ [][Next]_vars
-----------------------------------------------------------------------------
(***************************************************************************)
(* Properties.                                                             *)
(***************************************************************************)
\* What was at a path when fs_getattr was called is what it answers, by inode
\* and by type: ENOENT is for a component that is not present, and nothing is
\* removed here.
FoundIfThere ==
    \A t \in Threads :
        th[t].pc = "answered" /\ th[t].op = "getattr" /\ th[t].was # 0 =>
            /\ th[t].inum = th[t].was
            /\ th[t].type = IF th[t].was \in Dirs THEN "dir" ELSE "file"

\* "ENOENT - a component of the path is not present" (homework.c), and ENOTDIR
\* that one before the last is no directory: neither is answered for a path that
\* was there when the call came.
ErrorsAreTrue ==
    \A t \in Threads :
        th[t].pc = "answered" /\ th[t].inum \in {ENOENT, ENOTDIR} => th[t].was = 0

\* Every entry in the image has an inode of its own there, marked and written.
OneInodeEach ==
    \A d, e \in Dirs : \A r \in DOMAIN entries[d], s \in DOMAIN entries[e] :
        /\ entries[d][r].inode \in disk_inode_map
        /\ disk_inode_region[entries[d][r].inode] # "none"
        /\ entries[d][r].inode = entries[e][s].inode => d = e /\ r = s

\* Between handlers memory is as the image, so that fs_getattr's reading of it
\* loses nothing.
MemoryIsImage ==
    (\A t \in Threads : th[t].pc = "idle") =>
        inode_map = disk_inode_map /\ inode_region = disk_inode_region
=============================================================================
