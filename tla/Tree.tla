-------------------------------- MODULE Tree --------------------------------
(***************************************************************************)
(* What the handlers of src/homework.c promise of the directory tree, as   *)
(* their comments say it, without inodes, blocks or entries: a tree of     *)
(* files and directories, where each call takes effect at once and answers *)
(* for the tree that it found.  An fs_unlink may be seen to empty the file *)
(* before it removes it.  A call may end without an answer; then it has    *)
(* done nothing more than that.                                            *)
(***************************************************************************)
EXTENDS Integers, Sequences, FiniteSets

CONSTANTS Names, MaxDepth, NDIRENTS, Words

VARIABLES
    tree,  \* what is at each path
    req,   \* the call in progress
    res    \* its answer, <<>> while there is none

Paths  == UNION {[1 .. n -> Names] : n \in 0 .. MaxDepth}
Absent == [kind |-> "none", word |-> 0]
File(w) == [kind |-> "file", word |-> w]
Directory == [kind |-> "dir", word |-> 0]

Exists(p) == tree[p].kind # "none"
Father(p) == SubSeq(p, 1, Len(p) - 1)
Children(p) == {q \in Paths : q # <<>> /\ Father(q) = p /\ Exists(q)}
Under(p, q) == Len(q) >= Len(p) /\ SubSeq(q, 1, Len(p)) = p

\* The error of looking p up: ENOTDIR if p goes through a file, ENOENT if
\* it is just not there.
Missing(p) == IF \E n \in 1 .. Len(p) - 1 : tree[SubSeq(p, 1, n)].kind = "file"
              THEN -20 ELSE -2

Answer(code) == res' = <<code>> /\ UNCHANGED req
Fail(code) == Answer(code) /\ UNCHANGED tree

Init ==
    /\ tree = [p \in Paths |-> IF p = <<>> THEN Directory ELSE Absent]
    /\ req = [op |-> "none"] /\ res = <<>>

Idle == req.op = "none"
Running(ops) == req.op \in ops /\ res = <<>>

Request ==
    /\ Idle
    /\ req' \in [op : {"mknod", "mkdir", "unlink", "rmdir", "rename", "chmod",
                       "truncate", "write"},
                 path : Paths, dst : Paths, word : Words \cup {0}]
    /\ UNCHANGED <<tree, res>>

\* The caller has its answer; or the process died and never gives one.
Done ==
    /\ ~Idle
    /\ req' = [op |-> "none"] /\ res' = <<>>
    /\ UNCHANGED tree

\* mknod and mkdir: EEXIST if the path is there; ENOSPC if the directory has all
\* the entries it can have, or for lack of an inode or a block.
Create(p) ==
    /\ Running({"mknod", "mkdir"})
    /\ \/ ~Exists(Father(p)) /\ Fail(Missing(Father(p)))
       \/ Exists(p) /\ Fail(-17)
       \/ /\ tree[Father(p)].kind = "dir" /\ ~Exists(p)
          /\ \/ Fail(-28)
             \/ /\ Cardinality(Children(Father(p))) < NDIRENTS
                /\ tree' = [tree EXCEPT ![p] =
                              IF req.op = "mkdir" THEN Directory ELSE File(0)]
                /\ Answer(0)
       \/ tree[Father(p)].kind = "file" /\ Fail(-20)

\* Every other call needs the path to be there.
NotFound(p) ==
    /\ Running({"unlink", "truncate", "rmdir", "rename", "chmod", "write"})
    /\ ~Exists(p)
    /\ Fail(Missing(p))

\* unlink and truncate: EISDIR for a directory.
Empty(p) ==
    /\ Running({"unlink", "truncate"})
    /\ tree[p].kind = "file"
    /\ tree' = [tree EXCEPT ![p] = File(0)]
    /\ IF req.op = "truncate" THEN Answer(0) ELSE UNCHANGED <<req, res>>

IsDirectory(p) ==
    /\ Running({"unlink", "truncate"})
    /\ tree[p].kind = "dir"
    /\ Fail(-21)

Unlink(p) ==
    /\ Running({"unlink"})
    /\ tree[p] = File(0)
    /\ tree' = [tree EXCEPT ![p] = Absent]
    /\ Answer(0)

\* rmdir: ENOTDIR for a file, ENOTEMPTY for a directory with entries.
Rmdir(p) ==
    /\ Running({"rmdir"})
    /\ \/ tree[p].kind = "file" /\ Fail(-20)
       \/ tree[p].kind = "dir" /\ Children(p) # {} /\ Fail(-39)
       \/ /\ tree[p].kind = "dir" /\ Children(p) = {}
          /\ tree' = [tree EXCEPT ![p] = Absent]
          /\ Answer(0)

\* rename: EEXIST if the destination is there, EINVAL if it is in another
\* directory; otherwise all that is under p is under d.
Rename(p, d) ==
    /\ Running({"rename"})
    /\ Exists(p)
    /\ \/ Exists(d) /\ Fail(-17)
       \/ ~Exists(d) /\ Father(p) # Father(d) /\ Fail(-22)
       \/ /\ ~Exists(d) /\ Father(p) = Father(d)
          /\ tree' = [q \in Paths |->
                 IF Under(d, q) THEN tree[p \o SubSeq(q, Len(d) + 1, Len(q))]
                 ELSE IF Under(p, q) THEN Absent ELSE tree[q]]
          /\ Answer(0)

Chmod(p) ==
    /\ Running({"chmod"})
    /\ Exists(p)
    /\ Fail(0)

\* write answers what it has written: the word, or nothing to a file that needs
\* a block for it.
Write(p) ==
    /\ Running({"write"})
    /\ tree[p].kind = "file"
    /\ \/ tree' = [tree EXCEPT ![p] = File(req.word)] /\ Answer(1)
       \/ tree[p] = File(0) /\ Fail(0)

Next ==
    \/ Request
    \/ Done
    \/ /\ ~Idle
       /\ LET p == req.path
          IN  \/ Create(p) \/ NotFound(p) \/ Empty(p) \/ IsDirectory(p)
              \/ Unlink(p) \/ Rmdir(p) \/ Rename(p, req.dst) \/ Chmod(p) \/ Write(p)

Spec == Init /\ [][Next]_<<tree, req, res>>
=============================================================================
