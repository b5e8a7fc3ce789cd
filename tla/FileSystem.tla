----------------------------- MODULE FileSystem -----------------------------
(***************************************************************************)
(* One directory of files with their whole block trees, over an image that *)
(* outlives the process: the handlers of FileBlocks composed with fs_mknod *)
(* and fs_unlink, with memory and image apart, called by the put, get, rm  *)
(* and ls-l of the command line (misc.c); crash, restart, and the checker  *)
(* read-img.c.                                                             *)
(*                                                                         *)
(* FileBlocks's pc is where a handler of file data is; cmd says which      *)
(* command has called it and what comes after it.                          *)
(***************************************************************************)
EXTENDS FileContent, FiniteSets

CONSTANTS
    Names,     \* names of the root directory's files
    NDIRENTS,  \* entries of a directory's block
    CHUNK,     \* blksiz: words of one read or write of the command line
    Lens,      \* lengths of the files outside
    SpareBits, \* bits that the inode bitmap has behind those of Files
    BITS       \* bits of a block

LOCAL L == INSTANCE Layout

\* The data blocks begin after the root directory's.
ASSUME FileSystemAssumption ==
    /\ NDIRENTS \in Nat \ {0} /\ CHUNK \in Nat \ {0} /\ Lens \subseteq Nat
    /\ BITS \in Nat \ {0}
    /\ FirstData = L!rootdir_base(NumBlocks) + 1
    /\ SpareBits \subseteq Nat /\ \A i \in Files, j \in SpareBits : i < j
    /\ CHUNK <= MaxLen

VARIABLES
    inode_map,       \* the inode bitmap in memory: which of InodeBits are marked
    disk_inode_map,  \* the same in the image
    root,            \* the root directory's entries, in the image
    cmd,             \* the command being run
    sound            \* history: since the image was made, no process has been
                     \* started on one that a crash had left damaged

names == <<inode_map, disk_inode_map, root, cmd>>
allVars == <<vars, names, sound>>
-----------------------------------------------------------------------------
Dirents == 1 .. NDIRENTS
NoEntry == [inode |-> 0, name |-> "none"]
Dirent  == {NoEntry} \cup [inode : Files, name : Names]
InodeBits == Files \cup SpareBits

\* The files outside: the words differ from file to file and from chunk to chunk.
Chunk(out, off) == 10 * out.len + off \div CHUNK
Outside == [len : Lens]
Text(out) == [w \in 1 .. out.len |-> Chunk(out, w - 1)]
Nothing == [len |-> 0]

\* FileBlocks writes the words that the files outside have.
ASSUME WordsAssumption ==
    \A out \in Outside : \A off \in 0 .. out.len - 1 : Chunk(out, off) \in Vals

\* The locals of do_put, do_get and fs_unlink.
NoCmd == [op |-> "none", at |-> "none", name |-> "none", inum |-> 0,
          slot |-> 0, out |-> Nothing, off |-> 0, val |-> 0, got |-> <<>>]

Idle == cmd.op = "none" /\ pc = "idle"
In(command, at) == cmd.op = command /\ cmd.at = at /\ pc = "idle"

\* translate, of a path in the root directory.
Named(n) == {s \in Dirents : root[s] # NoEntry /\ root[s].name = n}
translate(n) == root[CHOOSE s \in Named(n) : \A t \in Named(n) : t <= s].inode

FreeSlot(s) == root[s] = NoEntry /\ \A t \in 1 .. s - 1 : root[t] # NoEntry
FreeInode(i) == i \in InodeBits \ inode_map /\ \A j \in InodeBits \ inode_map : i <= j

write_inode_map == disk_inode_map' = inode_map'
-----------------------------------------------------------------------------
(***************************************************************************)
(* do_put: fs_mknod, then fs_write chunk by chunk.                         *)
(***************************************************************************)
Put(n, out) ==
    /\ Idle
    /\ cmd' = [NoCmd EXCEPT !.op = "put", !.at = "mknod", !.name = n, !.out = out]
    /\ UNCHANGED <<vars, inode_map, disk_inode_map, root>>

\* EEXIST, or ENOSPC for lack of an entry or of an inode.
MknodRefuse ==
    /\ In("put", "mknod")
    /\ \/ Named(cmd.name) # {}
       \/ \A s \in Dirents : root[s] # NoEntry
       \/ InodeBits \subseteq inode_map
    /\ cmd' = NoCmd
    /\ UNCHANGED <<vars, inode_map, disk_inode_map, root>>

\* Mutants: -ENOSPC is taken for an inode; the bitmap is not written.
MknodMap_Unchecked ==
    /\ In("put", "mknod") /\ Named(cmd.name) = {}
    /\ \E s \in Dirents, i \in InodeBits \cup {-28} :
        /\ FreeSlot(s)
        /\ IF InodeBits \subseteq inode_map THEN i = -28 ELSE FreeInode(i)
        /\ inode_map' = inode_map \cup {i}
        /\ cmd' = [cmd EXCEPT !.at = "inode", !.slot = s, !.inum = i]
    /\ write_inode_map
    /\ UNCHANGED <<vars, root>>

MknodMap_MemoryOnly ==
    /\ In("put", "mknod") /\ Named(cmd.name) = {}
    /\ \E s \in Dirents, i \in InodeBits :
        /\ FreeSlot(s) /\ FreeInode(i)
        /\ inode_map' = inode_map \cup {i}
        /\ cmd' = [cmd EXCEPT !.at = "inode", !.slot = s, !.inum = i]
    /\ UNCHANGED <<vars, disk_inode_map, root>>

MknodMap ==
    /\ In("put", "mknod")
    /\ Named(cmd.name) = {}
    /\ \E s \in Dirents, i \in InodeBits :
        /\ FreeSlot(s) /\ FreeInode(i)
        /\ inode_map' = inode_map \cup {i}
        /\ cmd' = [cmd EXCEPT !.at = "inode", !.slot = s, !.inum = i]
    /\ write_inode_map
    /\ UNCHANGED <<vars, root>>

MknodInode ==
    /\ In("put", "inode")
    /\ cmd.inum \in Files
    /\ inode_region' = [inode_region EXCEPT ![cmd.inum] = EmptyInode]
    /\ update_inode(cmd.inum)
    /\ cmd' = [cmd EXCEPT !.at = "entry"]
    /\ UNCHANGED <<block_map, disk_block_map, blk, pc, call, new, k,
                   inode_map, disk_inode_map, root>>

\* An inode behind the region: memory that is no inode's goes to the block behind
\* the region, the root directory's.  What the program does with such a
\* directory is not followed further.
MknodOverrun ==
    /\ In("put", "inode")
    /\ cmd.inum \notin Files
    /\ root' \in [Dirents -> Dirent]
    /\ pc' = "overrun"
    /\ cmd' = NoCmd
    /\ UNCHANGED <<mem, image, call, new, k, inode_map, disk_inode_map>>

MknodEntry ==
    /\ In("put", "entry")
    /\ root' = [root EXCEPT ![cmd.slot] = [inode |-> cmd.inum, name |-> cmd.name]]
    /\ cmd' = [cmd EXCEPT !.at = "loop", !.slot = 0]
    /\ UNCHANGED <<vars, inode_map, disk_inode_map>>

\* What read(2) gives of the outside file at offset off.
ChunkLen == IF cmd.out.len - cmd.off > CHUNK THEN CHUNK ELSE cmd.out.len - cmd.off

\* Mutant: every chunk is written at the start of the file.
PutChunk_AtStart ==
    /\ In("put", "loop")
    /\ ChunkLen > 0
    /\ Write(translate(cmd.name), 0, ChunkLen, Chunk(cmd.out, cmd.off))
    /\ cmd' = [cmd EXCEPT !.at = "written"]
    /\ UNCHANGED <<inode_map, disk_inode_map, root>>

PutChunk ==
    /\ In("put", "loop")
    /\ ChunkLen > 0
    /\ Write(translate(cmd.name), cmd.off, ChunkLen, Chunk(cmd.out, cmd.off))
    /\ cmd' = [cmd EXCEPT !.at = "written"]
    /\ UNCHANGED <<inode_map, disk_inode_map, root>>

\* EINVAL: an earlier chunk has been reported as written beyond the size.
PutRefused ==
    /\ In("put", "loop")
    /\ ChunkLen > 0
    /\ cmd.off > inode_region[translate(cmd.name)].size
    /\ cmd' = [cmd EXCEPT !.at = "return"]
    /\ UNCHANGED <<vars, inode_map, disk_inode_map, root>>

\* The loop ends at a write that was short.
PutWritten ==
    /\ In("put", "written")
    /\ cmd' = IF cmd.val = ChunkLen
              THEN [cmd EXCEPT !.at = "loop", !.off = @ + ChunkLen, !.val = 0]
              ELSE [cmd EXCEPT !.at = "return"]
    /\ UNCHANGED <<vars, inode_map, disk_inode_map, root>>

\* do_put returns 0, after a short write too.
PutReturn ==
    /\ \/ In("put", "loop") /\ ChunkLen = 0
       \/ In("put", "return")
    /\ cmd' = NoCmd
    /\ UNCHANGED <<vars, inode_map, disk_inode_map, root>>
-----------------------------------------------------------------------------
(***************************************************************************)
(* do_get: fs_read chunk by chunk.                                         *)
(***************************************************************************)
\* The next read of the image, of fs_read or of truncate_2nd_level, is of a block
\* that the image does not have: image_read's assertion fails, and the process
\* does nothing more but die (Crash).
ReadsOutside ==
    \/ /\ In("get", "loop")
       /\ LET r == fs_read(inode_region[cmd.inum], CHUNK, cmd.off)
          IN  \E i \in DOMAIN r : r[i] = NoBlock
    \/ pc = "indir_2" /\ k < PTRS /\ blk[inode.ptr[indir_2]][k] \notin Blocks

Get(n) ==
    /\ Idle
    /\ cmd' = IF Named(n) = {} THEN NoCmd
              ELSE [NoCmd EXCEPT !.op = "get", !.at = "loop", !.name = n,
                                 !.inum = translate(n)]
    /\ UNCHANGED <<vars, inode_map, disk_inode_map, root>>

GetChunk ==
    LET r == fs_read(inode_region[cmd.inum], CHUNK, cmd.off)
    IN  /\ In("get", "loop")
        /\ ~ReadsOutside
        /\ cmd' = IF r = <<>> THEN [cmd EXCEPT !.at = "return"]
                  ELSE [cmd EXCEPT !.off = @ + Len(r), !.got = @ \o r]
        /\ UNCHANGED <<vars, inode_map, disk_inode_map, root>>

GetReturn ==
    /\ In("get", "return")
    /\ cmd' = NoCmd
    /\ UNCHANGED <<vars, inode_map, disk_inode_map, root>>
-----------------------------------------------------------------------------
(***************************************************************************)
(* do_rm: fs_unlink, which is fs_truncate, then the map, then the entry.   *)
(***************************************************************************)
Rm(n) ==
    /\ Idle
    /\ Named(n) # {}
    /\ Truncate(translate(n))
    /\ cmd' = [NoCmd EXCEPT !.op = "rm", !.at = "unmap", !.name = n,
                            !.inum = translate(n)]
    /\ UNCHANGED <<inode_map, disk_inode_map, root>>

UnlinkMap ==
    /\ In("rm", "unmap")
    /\ inode_map' = inode_map \ {cmd.inum}
    /\ write_inode_map
    /\ cmd' = [cmd EXCEPT !.at = "unlink"]
    /\ UNCHANGED <<vars, root>>

UnlinkEntry ==
    /\ In("rm", "unlink")
    /\ root' = [s \in Dirents |-> IF s \in Named(cmd.name) THEN NoEntry ELSE root[s]]
    /\ cmd' = NoCmd
    /\ UNCHANGED <<vars, inode_map, disk_inode_map>>

\* do_lsdashl: the reload of fs_getattr, and nothing else that matters.
LsDashL ==
    /\ Idle
    /\ Getattr
    /\ inode_map' = disk_inode_map
    /\ UNCHANGED <<disk_inode_map, root, cmd>>
-----------------------------------------------------------------------------
(***************************************************************************)
(* read-img.c: what it reports of the image.                               *)
(***************************************************************************)
Listed == {s \in Dirents : root[s] # NoEntry}

\* The blocks that it gets to through the inode in the image: data only.
\* Mutant: the blocks of indir_1 and indir_2 are left out.
Walked_DirectOnly(in) == {in.ptr[i] : i \in 0 .. N_DIRECT - 1}

Walked(in) ==
    {in.ptr[i] : i \in 0 .. N_DIRECT - 1}
    \cup {Deref(in, <<indir_1, i, Nil>>) : i \in {i \in Entries : in.ptr[indir_1] # 0}}
    \cup {Deref(in, <<indir_2, i, j>>) :
            i \in {i \in Entries : \A i2 \in 0 .. i : Deref(in, <<indir_2, i2, Nil>>) # 0},
            j \in Entries}

\* "block %d marked free", "inode %d is marked free", with the file.
BlockErrors == UNION {{<<root[s].inode, b>> :
                        b \in Walked(disk_inode_region[root[s].inode])
                              \ (disk_block_map \cup {0})} : s \in Listed}
InodeErrors == {root[s].inode : s \in Listed} \ disk_inode_map
-----------------------------------------------------------------------------
(***************************************************************************)
(* The process dies, at any point; it is started again, on whatever image  *)
(* is there, or mkfs-x6 makes a new one.                                   *)
(***************************************************************************)
\* What is in memory is gone: the next mount reads it from the image.
Crash ==
    /\ pc \notin {"dead", "overrun"}
    /\ pc' = "dead"
    /\ inode_region' = disk_inode_region /\ block_map' = disk_block_map
    /\ inode_map' = disk_inode_map
    /\ call' = NoCall /\ new' = 0 /\ k' = 0
    /\ cmd' = [NoCmd EXCEPT !.inum = cmd.inum]
    /\ UNCHANGED <<image, disk_inode_map, root>>

\* The blocks that the files hold in the image, data or not.
DiskHeld == {Deref(disk_inode_region[f], p) : f \in Files, p \in Paths} \ {0}
Damaged == InodeErrors # {} \/ ~(DiskHeld \subseteq disk_block_map)

\* fs_init tests nothing: an inode or a block that is in use and not marked will
\* be given out again.
Mount ==
    /\ pc = "dead"
    /\ pc' = "idle" /\ cmd' = NoCmd
    /\ sound' = (sound /\ ~Damaged)
    /\ UNCHANGED <<mem, image, call, new, k, inode_map, disk_inode_map, root>>

EmptyRoot == [s \in Dirents |-> NoEntry]

Mkfs ==
    /\ pc \in {"dead", "overrun"}
    /\ inode_region' = [f \in Files |-> EmptyInode] /\ disk_inode_region' = inode_region'
    /\ block_map' = 0 .. FirstData - 1 /\ disk_block_map' = block_map'
    /\ blk' = [b \in Blocks |-> ZeroBlock]
    /\ inode_map' = {} /\ disk_inode_map' = {}
    /\ root' = EmptyRoot
    /\ pc' = "idle" /\ call' = NoCall /\ new' = 0 /\ k' = 0
    /\ cmd' = NoCmd
    /\ sound' = TRUE

FsInit ==
    /\ Init
    /\ inode_map = {} /\ disk_inode_map = {}
    /\ root = EmptyRoot
    /\ cmd = NoCmd
    /\ sound = TRUE

\* A step of fs_write or fs_truncate; fs_write's answer goes to do_put.
DataStep ==
    /\ ~ReadsOutside
    /\ WriteStep \/ TruncateStep
    /\ cmd' = IF pc = "write" /\ pc' = "idle"
              THEN [cmd EXCEPT !.val = call.off - call.start] ELSE cmd
    /\ UNCHANGED <<inode_map, disk_inode_map, root>>

CmdStep ==
    \/ MknodRefuse \/ MknodMap \/ MknodInode \/ MknodOverrun \/ MknodEntry
    \/ PutChunk \/ PutRefused \/ PutWritten \/ PutReturn
    \/ GetChunk \/ GetReturn \/ UnlinkMap \/ UnlinkEntry

Running ==
    \/ \E n \in Names : (\E out \in Outside : Put(n, out)) \/ Get(n) \/ Rm(n)
    \/ LsDashL
    \/ CmdStep
    \/ DataStep
    \/ Crash

FsNext == (Running /\ UNCHANGED sound) \/ Mount \/ Mkfs

FsSpec == FsInit /\ [][FsNext]_allVars
-----------------------------------------------------------------------------
(***************************************************************************)
(* Properties.                                                             *)
(***************************************************************************)
\* The type of the state that FileBlocks does not have, on any image.
FsTypeOK ==
    /\ inode_map \in SUBSET InodeBits
    /\ disk_inode_map \in SUBSET InodeBits
    /\ root \in [Dirents -> Dirent]
    /\ cmd.inum \in InodeBits \cup {0} /\ cmd.slot \in 0 .. NDIRENTS
    /\ cmd.out \in Outside \cup {Nothing} /\ (sound => cmd.off \in Nat)

\* Between commands the checker has nothing to say of the image, and what it
\* does not look at (the blocks of indirect pointers) is marked as well, as long
\* as no process was started on an image that a crash had damaged.
CleanBetweenCommands == Idle /\ sound => BlockErrors = {} /\ ~Damaged

\* Until a process is started on an image that a crash had damaged, whatever a
\* command does and wherever it stops, no other file's words change: not when
\* blocks are given from one file to another, nor when one file's table becomes
\* the other's data.
OthersKeepTheirWords ==
    [][sound /\ pc \notin {"dead", "overrun"} =>
        \A f \in Files \ {cmd.inum} : content[f]' = content[f]]_allVars

\* From such an image, a crash between any two writes harms no file but the one
\* that the command was at work on: whatever is wrong concerns cmd.inum.
DamageIsLocal ==
    sound /\ pc = "dead" =>
        /\ InodeErrors \subseteq {cmd.inum}
        /\ \A f \in Files \ {cmd.inum}, p \in Paths :
                Deref(disk_inode_region[f], p) \in disk_block_map

\* What the checker does not see of a crash's damage is a table that leads
\* nowhere: if it reports nothing then a block that is held and not marked is an
\* indirect block, linked a moment before, with no block below it.
TablePaths == {<<indir_1, Nil, Nil>>, <<indir_2, Nil, Nil>>}
              \cup {<<indir_2, i, Nil>> : i \in Entries}
CheckerMissesEmptyTables ==
    sound /\ pc = "dead" /\ BlockErrors = {} /\ InodeErrors = {} =>
        \A f \in Files, p \in Paths :
            LET b == Deref(disk_inode_region[f], p)
            IN  b # 0 /\ b \notin disk_block_map =>
                    p \in TablePaths /\ blk[b] = ZeroBlock

\* do_put copies from the front, chunk by chunk, and stops at the first write
\* that is short: whatever blocks there are, what has got into the file is a
\* prefix of the file outside, and all of it if there was room.
PutIsPrefix ==
    sound /\ cmd.op = "put" /\ cmd.at \in {"loop", "return"} /\ pc = "idle" =>
        LET in == content[cmd.inum]
        IN  /\ Len(in) <= cmd.out.len
            /\ in = SubSeq(Text(cmd.out), 1, Len(in))
            /\ cmd.at = "loop" /\ ChunkLen = 0 /\ Len(in) < cmd.out.len
                    => Blocks \subseteq block_map /\ cmd.out.len \in LevelEnds

\* do_get gives the whole of the file, in order, whatever its length and where
\* the chunks fall in the levels of its blocks.
GetIsContent == sound /\ In("get", "return") => cmd.got = content[cmd.inum]

\* image_read's assertion, where fs_read and fs_truncate read: every block that
\* they ask for is one of the image.
ReadsInside == ~ReadsOutside
=============================================================================
