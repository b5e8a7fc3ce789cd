# CS5600 file system in TLA+

A verification project for the FUSE file system in `src/`: TLA+ modules that
model its handlers, TLC configurations that check them on small images, and
proofs, for every size of image, of most of what is checked: the block allocator,
the contents of files, the tree of names, commands and crashes, threads under `-s`,
and the image's layout.

References such as `homework.c:1085` are to files of `src/`.

## 1. The system

`homework.c` implements a small Unix file system ("x6") over an image file. It
is called by the kernel through FUSE, or by a command loop (`misc.c`, `-cmdline`)
that calls the same table of handlers `fs_ops`. `mkfs-x6.c` makes an empty image,
`read-img.c` checks one.

| Component | State | Operations |
|---|---|---|
| Block device (`image.c`, `blkdev.h`) | the image's blocks | `image_read`, `image_write`; both assert that the range is in the image, `image_write` also that block 0 is not written |
| Allocators (`homework.c:434-443`, `1269-1288`) | inode bitmap, block bitmap, each in memory and in the image | find the first clear bit; `find_free_block_number` also clears the block; `update_bitmap` |
| Inodes (`homework.c:412`) | `inode_region` in memory and in the image: mode, size, 6 direct pointers, `indir_1`, `indir_2` | `update_inode` writes the whole block that an inode is in |
| File data | the tree of blocks under each inode | `fs_read`, `fs_write`, `fs_truncate` |
| Directory tree | entries in each directory's one block, 32 of them | `translate`, `fs_getattr`, `fs_readdir`, `fs_mknod`, `fs_mkdir`, `fs_unlink`, `fs_rmdir`, `fs_rename`, `fs_chmod`, `fs_utime` |
| Mount | all of the above | `fs_init`, called at mount time **and at the head of every `fs_getattr`** (223): memory is read again from the image |
| Threads of a FUSE mount | the shared memory above, no lock | `fuse_main` without `-s` runs handlers in parallel |
| Command loop (`misc.c`) | working directory | `cd`, `put`, `get`, `ls`, `chmod`, `rm`, ... as sequences of handler calls |
| Image maker (`mkfs-x6.c`), checker (`read-img.c`), test image (`mktest.c`) | an image | one pass each |

How they interact: every handler looks its path up (`translate`), changes
bitmaps and inodes in memory, and writes each change to the image with a call of
its own; nothing is atomic over two such writes. There is no cache of data
blocks: data and directory blocks are read, changed and written back each time.

What is hard here:

* *The order of the writes.* `fs_write` links a new block, then marks it;
  `fs_truncate` clears bits while the inode in the image still holds the blocks;
  `fs_unlink` frees the inode, then removes the entry.
* *Memory and image.* Whatever a handler changes in memory only is lost at the
  next `fs_getattr`.
* *Levels.* One offset walks through three levels of pointers, with seven early
  returns when blocks run out.
* *Reuse.* Blocks are data, tables of block numbers or directories in turn; a
  stale pointer turns one into another.
* *Limits.* The last block, the last inode, the 32nd entry, the largest file, a
  name of 28 bytes.
* *Crashes.* The image outlives the process; a command that was cut short has
  written some of its blocks. `read-img` reports part of the damage.
* *Threads.* Without `-s` handlers run in parallel: one bitmap, one array of inodes,
  one `strtok`, and no lock.
* *Two callers.* The kernel checks a lot before it calls; the command loop passes
  on what is typed.

What makes each part correct:

* allocator and file data: a block is held by one pointer at most, and is marked
  while it is; a file reads back as the sequence of words written to it; what
  memory and image say agrees between calls; every call returns;
* directory tree: entries lead to marked inodes of the right type, each inode is
  in one place, names in a directory differ, no block is in two files; a caller
  sees a tree that changes as the handlers' comments say;
* device: no handler breaks its assertions;
* checker: it accepts what finished commands leave, and what it misses after a crash
  is known; a crash hurts only the file that was being worked on;
* command line: `put` and `get` copy whole files in order; no command reaches beside
  or above the working directory;
* threads: a look-up finds what is there; an inode is given out once.

## 2. The modules

| Module | What it is |
|---|---|
| `FileBlocks` | `fs_write`, `fs_truncate`, the block allocator and the reload of `fs_getattr`, one action per write to the image |
| `ByteFile` | abstract: a file is a sequence of words |
| `FileContent` | `fs_read`, and the mapping from `FileBlocks` to `ByteFile` |
| `FileBlocksProofs` | proofs about `FileBlocks` and `FileContent`: blocks, pointers, bitmap; words, reads, and the refinement of `ByteFile`; what can be lost |
| `MCFileBlocks` | the view for TLC |
| `Namespace` | the handlers that change the tree of names, one action per change of the image, with crash and restart |
| `Tree` | abstract: what is at each path, and what each call does to it and answers |
| `NamespaceTree` | the mapping from `Namespace` to `Tree`, and `fs_readdir` |
| `NamespaceProofs` | proofs about `Namespace`, whoever calls: types, blocks |
| `TreeProofs` | proofs about `NamespaceTree` as the kernel calls: the tree of names |
| `TreeRefinementProofs` | proofs about `NamespaceTree` as the kernel calls: the refinement of `Tree`, and what inodes can be lost |
| `Layout` | where `mkfs-x6` puts the parts of an image, and where `homework.c` looks for them |
| `FileSystem` | `FileBlocks` composed with names, the process's life and death, `put`, `get`, `rm`, `ls-l`, and `read-img` |
| `FileSystemProofs` | proofs about `FileSystem`: crashes, the checker, other files, `put` and `get`; and about `Layout` |
| `CmdLoop` | the command loop's working directory, paths and commands, over `Namespace` |
| `CmdLoopProofs` | proofs about `CmdLoop`: blocks, and what is beside or above the working directory |
| `Threads` | `fs_getattr` and `fs_mknod` in threads |
| `ThreadsProofs` | proofs about `Threads` with `Serial` |
| `OrderLemmas` | least and greatest elements of sets of numbers |
| `MCNamespace`, `MCFileSystem`, `MCCmdLoop`, `MCThreads` | symmetries and views for TLC |

### FileBlocks and the code

The variables `inode_region` and `block_map` are the program's arrays of those
names; `disk_inode_region`, `disk_block_map` and `blk` are the image. A handler's
C locals are `call` (file, offset reached, length left), `new` and `k`.

* A *word* of 4 bytes is the unit of length, and a block has `PTRS` words. So a
  block is the same array whether it holds data or pointers, and the sizes of the
  three levels keep the code's proportions (`file_in_inode_sz`, ... 50-52).
  Not modelled: writes that begin or end inside a word.
* The three loops of `fs_write` (direct, 1st, 2nd level) advance one offset. The
  model therefore has no loop indexes: `PathOf(off)` says which pointers lead to
  the offset, `Hop` which of them is the first that is 0. `WriteFindBlock`,
  `WriteLink`, `WriteMark` are the three steps by which the code sets it, in the
  code's order; `WriteData` is one round of copying. `NeedsBlock` says that an
  indirect root is taken when its range is reached even if nothing is left to
  write (1085, 1103), which the code does and which loses blocks (section 5).
* `WriteEnd` and `WriteNoRoot` are the ways out: with and without the update of
  the size (1123, 1089).
* `fs_truncate` is one action per round: `TruncateDirect`, `TruncateIndir1`,
  `TruncateIndir2Table`, `TruncateIndir2`, and `TruncateEnd`, the only one that
  writes the inode.
* `Getattr` is the reload.
* `fs_read` (in `FileContent`) is its three loops, `read_level` over the pointers of the
  inode or of a table, with the hand-over from level to level of 931-950: each goes from
  where the one before it stopped, and stops at the end of its range or at a pointer that
  is 0. `fs_read_3rd_level` goes on by a whole piece where an inner loop has stopped short
  (1028-1030); what nothing was copied to is `Stale`. A file's `content` does not go
  through them: it is the word at the path of each offset.

Handlers run one at a time, as in the command loop or a mount with `-s`.

### Namespace and the code

A file has only its first pointer here (its tree is `FileBlocks`'s), and one
word as its data, so that the reuse of a block as a directory's block and back
shows. Each change in memory is written at once and read by nobody in between,
so one variable stands for memory and image; `FileBlocks` keeps them apart and
shows that they agree between calls.

A call is `Call`, then the handler's steps, then `Return`. `Error` holds the tests
that a handler makes before it changes anything, in its order. `Frontend` is who
calls: `KernelAllows` states what the kernel's VFS sees to (it has looked the
father up and it is a directory, no trailing slash, files are written where they
exist); `"cmdline"` passes any path and mode on. `Defined` excludes what is
undefined in C: `fs_rename` of or to `/` (it frees a pointer that it has not
allocated), `fs_unlink` of a `/` whose type bits are gone, and `fs_write` to a path
that is not there (its test of `translate` is for 0, and errors are negative; neither
caller gets there). A trailing slash is tried on every path but the destination of a
rename.

`fs_write` of one word is `WriteBlock` (the block is found, cleared and linked),
`WriteMark` and `WriteData`; `WriteFound` when the file has its block already.

Two handlers write beyond the place that they mean. The bitmap has `InodeBits` bits and
the region `NumInodes` inodes, fewer in any image of up to 32707 blocks: `CreateOverrun` is the new inode
that is none of the region's, which `update_inode` writes over the root directory.
`RenameOverrun` is the name of 28 bytes or more (`LongNames`) that runs into the next
entry. Both put anything into that block and leave `pc` at `"overrun"`, where the model
ends: what the program does with a directory of such entries is not followed. `InPlace`
says that it has not come to that, and the properties of this module hold for as long.

When `fs_mknod` or `translate` of the command line takes a file's block, or block 0,
for a directory, its data are supposed not to look like valid entries. What a
`write` or an entry puts there is followed.

`translate` is `walk`, one `follow` a component. It keeps the code's ways: the *last* entry with a name wins (149-154),
and whether a component is a directory is what the entry says, not the inode.
`get_name` of a path with a trailing slash is the empty name (422).

`Abort` is a failed assertion and `Crash` a killed process; after either, `Mount`
starts again on the image.

### FileSystem and the code

It extends `FileContent`: `fs_write`, `fs_truncate` and `fs_read` are those of
`FileBlocks`, step by step, and `DataStep` runs them for a command. Added are the
inode bitmap (in memory and in the image), the root directory's entries, and `cmd`,
the locals of the command that is running.

* `put` is `do_put` (`misc.c:241`): `fs_mknod` in three writes (`MknodMap`,
  `MknodInode`, `MknodEntry`), then `fs_write` for each chunk (`PutChunk`), until the
  file outside ends or a write is short (`PutWritten`). `PutRefused` is an
  `fs_write` that answers EINVAL because the chunk before it was reported beyond the
  size.
* `get` is `do_get` (271), chunk by chunk; `rm` is `fs_unlink`: the whole truncation,
  then the bitmap, then the entry; `ls-l` is the reload of `fs_getattr`.
* `Crash` comes between any two writes to the image; memory is lost. `BlockErrors`
  and `InodeErrors` are what `read-img` reports.
* `Mount` starts a process on whatever image is there, as `fs_init` does, which tests
  nothing; or `Mkfs` makes a new one. `Damaged` says that an inode or a block is in use
  and not marked, reported or not. The history variable `sound` becomes FALSE when a
  process is started on such an image, and all properties but `ReadsInside` and the type
  invariant are of the time before: on a damaged image blocks are given out twice, and
  what they say may be false (run `image_damaged`).
* The inode bitmap has `SpareBits` behind the inodes of the region; `MknodOverrun` is
  `CreateOverrun` of `Namespace`. `ReadsOutside` is the failed assertion of `image_read`
  in `fs_read` or `fs_truncate`, from where there is nothing but `Crash`.

One directory, and the commands run one at a time. Where the data blocks begin is
`Layout`'s `rootdir_base` of the same image (`FileSystemAssumption`).

### CmdLoop and the code

`cwd` is `paths[0..depth-1]`. `do_cd` takes `..` alone as "up" and adds anything else
without a look at the tree, `..` inside a path and `../` included, from `/` on if the
argument begins with a slash (`cd /` adds nothing); `fix_path` then deletes every
`../` from a command's path, and nothing before it (`without(p)[n]` is what that
leaves of the first `n` names). `Typed` are the paths that come of
it, with and without a trailing slash. A command is a call of `Namespace`
(`Frontend = "cmdline"`); `do_put` is two, and keeps its path in `put` in between.
`PutWriteUndefined` is the second call for a file that is not at its path: `put` to
`a/` makes an entry with the empty name (`homework.c:422`), `translate` finds no `a`,
and `fs_write` takes the error for an inode number (1065). The command ends there
in the model. `RmdirRoot` is `rmdir ../` in `/`, which fails an assertion (726).

### Threads and the code

A directory `/`, a directory `Sub` in it, and files. Memory is the bitmap and the
inodes' types; `direct[0]` of an inode that is no directory's in memory is 0. A
handler is cut at the image's reads and writes, at `malloc`, and at `strtok`:
`AllocMap`, `ReadMap`, `AllocRegion`, `ReadRegion` are `fs_init` inside `fs_getattr`
(69-82), `Split` and `Walk` are `translate`, the others `fs_mknod`. What `malloc`
leaves in memory is any value. `strtok` holds whose string the static pointer is in
and what is left of it; in a freed string it finds nothing or junk. `Serial` is `-s`.
The kernel's lock on a directory in which a file is made is in `Call`.

In C two threads can meet at more places than between these steps, and a freed
string or a block of old memory can hold more than is tried. This can only add
behaviours to the run without `-s`, which is there for its counterexample; with
`-s` there are none to add.

## 3. The runs

Files, on small instances with two pointers a block:

| Run | Question |
|---|---|
| `files_deep` | One file over all three levels (two direct pointers, 16 words at most), on an image with exactly the 12 blocks that the largest file needs, so that it is reached, and is missed when a block has been lost: `SizeCovered` (no word below the size without a block; the assertion in `fs_read_block` holds), `ReloadIsHarmless`, `LostHoldNoData` (what writes shorter than `indir_1`'s range lose is only empty indirect blocks), `CallsReturn` |
| `files_content` | With two different words, up to the first table of the third level: the block tree implements `ByteFile`, and `fs_read` returns it exactly, at every offset and length (`ReadsAreExact`); `SoleOwner`, `HeldIsMarked` at every step of the handlers |
| `files_lost_root` | *Violated*: `NoLostBlock` |
| `files_full` | *Violated*: `ReportedIsInFile` |

Names (root and one level below it, two names, two entries a directory):

| Run | Question |
|---|---|
| `names` | The handlers as the kernel calls them, until inodes, blocks and entries run out: `IsTree`, `BlocksApart`, `ListedIsFound`, `OnlyRmdirLosesInodes`; they implement `Tree`, answers included (`ImplementsTree`) |
| `names_crash` | mknod, mkdir and rename with a crash between any two steps, and the assertion on the length of a name: still a tree, until a step writes out of its place |
| `names_full` | *Violated*: `AssertionsHold` |

Commands and threads:

| Run | Question |
|---|---|
| `image` | `put`, `get`, `rm`, `ls-l` and crashes on two files: `CleanBetweenCommands` (the checker finds nothing after a command), `DamageIsLocal` (a crash harms no file but the one being worked on), `CheckerMissesEmptyTables` (what `read-img` does not see after a crash is only empty indirect blocks), `PutIsPrefix`, `GetIsContent`, `OthersKeepTheirWords`; crashes and restarts until a process is started on a damaged image |
| `image_damaged` | *Violated*: `ReadsInside`, by such a process |
| `cmdline` | Whatever is typed: `BlocksApart`, and `StaysBelow` (no command changes what is beside or above the working directory) |
| `threads_serial` | With `-s`: `FoundIfThere`, `OneInodeEach`, `MemoryIsImage` |
| `threads` | *Violated*: `ErrorsAreTrue` |

Why the bounds are enough. With `PTRS = 2` each table has a first and a last
entry, `indir_2` has two tables, and every boundary between blocks, tables and
levels is crossed; `MaxLen = 3` makes a write that spans three blocks, a direct
one, both kinds of boundary and the middle of a block. Sequences of calls are not
bounded. The allocator always takes the lowest free block, so that a reused block
comes back after any truncation. In `files_content` and `image` blocks run
out earlier, so that each place where allocation can fail is met. For names, two names and two entries are what it takes
to fill a directory, rename into it and see the wrong one of two; five inodes and
four blocks (two layout, two free) run out both. `names_crash` has one bit more in the
bitmap than inodes, and a third name, of 28 bytes. It leaves out `unlink`, `truncate` and
`write`, after which a crash leaves no tree or a block that is linked and free (`image`
says what it leaves). It does not check for deadlock: the model ends where something is
written out of its place.

`image` has seven data blocks, and one bit more in the inode bitmap than inodes. A file outside has 2 or 7 words: the second takes all
three levels and all seven blocks, so that two files compete and either can run
short at each level. `CHUNK = 3` words against blocks of 2 has chunks begin and end
inside a block, as the 1000 bytes of the command line do against 1024, and cross
each level's end. `cmdline` has one name, three levels of names, and a working
directory two deep (`Depth`; the program has room for 16 and does not test it):
`..` can lead up from a directory to its brother's place, and a trailing slash makes a
second name, the empty one, in each directory. It has no `rename`. `threads` has
two threads, two names in two directories and room for three files, so that
allocation can run out.

*Reductions.* In `MCFileBlocks` and `MCFileSystem`, `LiveView` identifies states that differ only in blocks that are
free and unheld; `find_free_block_number` clears a block before it is linked, so
that nothing reads such words, and no property does (a lost block is marked, so
its words count). It is sound for `CallsReturn` too: two states with the same view
have the same steps up to the view, and every step of a handler changes it. `Symmetry` permutes names, which
the code only compares, and threads; it is used with safety properties only. In `MCFileSystem` and `MCNamespace` all states
after an overrun are one; `MCFileSystem`'s constraint `Followed` stops at a process that was
started on a damaged image (the state itself is still checked), since of what comes then
the properties of `image` say nothing. In
`MCCmdLoop`, `LiveView` leaves out inodes that no walk from the root reaches and the
blocks that none of the others points to (both are overwritten before they are
used again), and the arguments of a call that is known to fail.

*Fairness.* `FairSpec` assumes weak fairness of the running handler's steps
together. A handler that has been called runs in a thread to its return; it waits
for nothing. No fairness is assumed of callers. All other runs are safety.

*Deadlock* is checked in every run but `names_crash`.

## 4. What is proved

The theorems hold for every value of the constants that satisfies the named
assumptions; each says of which run's property it is the general form.

### The block tree (`FileBlocksProofs`)

For every number of files, blocks, direct pointers and pointers per block:

* `TypeCorrect`: `Spec => []TypeOK`. Its point is `new \in Blocks` and the
  pointers: no error code ever becomes one.
* `BlocksAreNeverShared`: `Spec => []SoleOwner`.
* `HeldBlocksAreMarked`: `Spec => []HeldIsMarked`.
* `ReloadChangesNothing`: `Spec => []ReloadIsHarmless`.

The only assumption is `GeometryAssumption`, the ranges of the constants (at least
one block reserved, at least one direct pointer and one pointer per block).

The argument. None of the last three is inductive. `IInv` adds:

* `ReservedMarked`: the layout's blocks are marked, so that block 0, the "no
  pointer" value, is never given out;
* `FoundIsFresh`: between the search and the link the block is free, is cleared
  and is to go where a pointer is still 0. Being clear is needed when it becomes a
  table: its entries must lead nowhere;
* `RootsSet`: a file that reaches into the range of `indir_1` or `indir_2` has that
  pointer. `fs_truncate` goes by the size alone (598, 602), and would otherwise take
  block 0 for a table and free blocks by what is in it;
* `ImageFollows`: memory and image differ at most in the file being truncated.

The link is the main step (`LinkSetsOne`): after it, the path at which the
handler was looking leads to the new block and every other path leads to where it
did, since the table written is held by one pointer and the new block by none. For
truncation (`FreedBelowIndir1`, `FreedBelowIndir2`, `FreeOnlyOwn`), what is freed
is held by paths of the file under truncation, so by `SoleOwner` other files keep
their marks.

### Contents (`FileBlocksProofs`)

* `EveryWordHasABlock`: `Spec => []SizeCovered`.
* `ReadsReturnTheContent`: `Spec => []ReadsAreExact`.
* `BlockTreeIsByteFile`: `Spec => ImplementsByteFile`, the refinement.

`CInv` adds `SizesBounded` and `Written` to `SizeCovered`: a running `fs_write`
began at or below the size, and from where it began to where it is each word has a
block and is the word written. So the size may be raised at the end, and what
is read is what was written. `DataKept` names the steps that a reader does not see
(search, link, mark): a link writes one table (`LinkWritesOneTable`), and a table is
no block of data. For the refinement each action maps to an action of `ByteFile` or
to none, under `IInv` and `CInv`: the size is raised in `WriteEnd`, `TruncateEnd`
empties the file, and `WriteData` shows only in the part below the size.
`fs_read`'s loops stop short at a pointer that is 0 (`stop`); `SizeCovered` says that
below the size there is none. So each level's loop gives its stretch of the file
(`DirectIsRead`, `Indir1IsRead`, `Indir2IsRead`, this one table by table), and the
stretches join at the levels' ends (`LevelsAreRead`).

### What is lost (`FileBlocksProofs`)

* `OnlyTablesAreLost`: `MaxLen < file_1st_level_sz => (Spec => []LostHoldNoData)`.

The hypothesis is real: with `MaxLen = 4` (`indir_1`'s range with two pointers a block) TLC
finds a write that fills all of that range and then no block for `indir_2`'s root. It
returns without raising the size (1109), and `fs_truncate` goes by the size. `indir_1`'s range
is 256 KB; FUSE sends at most 128 KB at a time, and the command line's chunks have 1000
bytes unless `blksiz` is told otherwise.

`LInv` says of the image that tables are filled from the front (`Filled`: `fs_truncate`
stops at the first 0), that data of a level are only there when the size, or the
running write, is beyond where the level begins (`DataBelowSize`: `fs_truncate` goes by
the size), and what a running `fs_truncate` has freed so far (`FreedBySize`). Then
the blocks that the clearing of the pointers leaves behind are roots and tables
without data below them.

### Commands and crashes (`FileSystemProofs`)

For any number of files, names and entries, any sizes of files outside and of chunks:

* `FsTypeCorrect`: `FsSpec => []FsTypeOK`;
* `CleanImage`: `FsSpec => []CleanBetweenCommands`;
* `CrashDamageIsLocal`: `FsSpec => []DamageIsLocal`;
* `CheckerMissesNoData`: `FsSpec => []CheckerMissesEmptyTables`;
* `OthersAreUntouched`: `FsSpec => OthersKeepTheirWords`, an action property;
* `GetGivesTheFile`: `FsSpec => []GetIsContent`;
* `PutLeavesAPrefix`: `FsSpec => []PutIsPrefix`.

The assumptions are `FileSystemAssumption` (ranges, and that the command line's chunk is
a write that `FileBlocks` knows) and `WordsAssumption` (the words of a file outside are
among `Vals`).

All but the type invariant are conditioned on `sound`, that no process has been started on
a damaged image since the image was made; crashes that do no damage, and restarts after
them, are included, and so is the state that the first harmful crash leaves. The condition
is needed: after an `fs_truncate` that was cut short and a restart, a `put` takes the blocks
that another file still has, and changes its words (`image_damaged`). `FsOK` is therefore `FsInv` as long as `sound` holds and
nothing was written out of its place, and `Formed`, the types and shapes that survive
anything.

While the process lives, `FsInv` is `FileBlocks`'s `IInv` and `CInv`, and
`LinkedIsHeld`: a block that is linked and not yet marked belongs to the file being
written. These say nothing of the image alone, which is what a crash leaves.
`ImageOwners` and `ImageMarks` do, and hold at every step: the image's pointers
are the only ones of their blocks, and whatever is not marked is in the command's file.
What the checker sees of the command's file takes two facts more: `LinkShows`, a block that
is linked and not yet marked is an empty table, or a block of data with every table before
its own in place, which `read-img` therefore reads; and `FreeingShows`, when `fs_truncate`
has freed anything it has freed a direct block or the first one below `indir_1`, which
`read-img` reads of the inode that the image still has.
`Directory` and `CmdOK` say how far `fs_mknod` or `fs_unlink` has got, so that an entry
without an inode can only be the command's. `PutInv` is what `do_put` knows between
chunks: what it has copied is a prefix, and is as long as its offset, or shorter when the
offset is where a level ends and there was no block for the next root.

### Names (`NamespaceProofs`, `CmdLoopProofs`, `TreeProofs`, `TreeRefinementProofs`)

For any number of names, inodes, blocks and entries, and paths of any length. The
only assumption is `NamespaceAssumption`, the ranges (there is a root inode, the
inode bitmap covers the inode region, block 0 is not the root directory's). All of them
hold up to the first write out of its place: `KeptToTheEnd`, `TreeToTheEnd` and
`RInvToTheEnd` carry the invariants that far, and `OverrunEnds` says that nothing comes
after.

Whoever calls, the kernel or the command line, with any path, trailing slash or mode:

* `NamespaceTypeCorrect`: `Spec => []TypeOK`;
* `DirectoryBlocksApart`: `Spec => []BlocksApart`;
* `CrashBlocksApart`: the same of `CrashSpec`, for `Ops` without `truncate`, `unlink` and
  `write`. The first two free a block before they clear the pointer to it, the third links
  one before it marks it: a crash in between leaves `BlocksApart` false;
* `CommandsKeepBlocksApart`: the same of `CmdSpec`, everything that is typed
  (`CmdLoopAssumption`: the calls come from the command line, `do_put`'s two are among
  them, and `..` is the name of no file that is made);
* `CommandsStayBelow`: `CmdSpec => StaysBelow`, an action property.

When the kernel calls (`Frontend = "fuse"`; the command line makes no tree, section 5):

* `ImageIsTree`: `Spec => []IsTree`;
* `CrashLeavesTree`: the same of `CrashSpec`, for `Ops` without `truncate`, `unlink` and
  `write`, for the same reasons: a block that is linked and free becomes a directory's
  when the next `mkdir` takes it, and the file's next write destroys it;
* `ListingAgrees`: `Spec => []ListedIsFound`;
* `NamespaceIsTree`: `Spec /\ []InPlace => ImplementsTree`, the refinement of `Tree`, for
  behaviours that write nothing out of its place;
* `RmdirLosesInodes`: `LongNames = {} => (Spec => OnlyRmdirLosesInodes)`, an action property;
* `OnlyRmdirLeaks`: `LongNames = {} /\ "rmdir" \notin Ops => (Spec => []NoLostInode)`: what
  `fs_rmdir` leaks (section 5) is all that leaks.

`LongNames = {}` is needed: `fs_mknod` and `fs_mkdir` of a name of 28 bytes or more fail
an assertion (399, 545) after they have marked the inode, and it stays marked. A crash in
the middle of a handler loses its inode too: the two last are theorems of `Spec`, not of
`CrashSpec`.

The argument. `BlocksApart` and `IsTree` speak of what a walk from the root reaches, and
no step is easily followed in such terms: `fs_mkdir`'s new directory is reached by
nothing until its entry is written, and what `fs_rmdir` cut off stays in the inode
region for ever. `NInv` and `TInv` therefore speak of all inodes and all directories,
reached or not.

* `Held`: no two *inodes* have a block in common, linked or not; theirs are marked, but for
  the one that the running `fs_write` or `fs_truncate` has in hand.
* `EntriesLead`: an entry of any directory leads to an inode of the region.
* `AtWork`: what the running handler has in hand, by how far it has got: the block
  that `fs_mkdir` has taken is marked and nobody's.
* `Forest`: what `IsTree` says of links, of the links of all directories (`DirLinks`).
  Of reached links alone it would not be inductive: it would not say what is in a
  directory that the next entry makes reached.
* `Marked`: a directory's inode is marked, so that it is not given out while it has
  entries.
* `Knowing`: what the kernel has seen to and the handler's tests have found, for as long
  as the handler runs: the place of a new entry is free and its name new, the inode to
  be unlinked is the path's file, the directory to be removed is empty.

`Lookup` gives where a path leads from where its father leads, and `PathsApart` that no
inode has two paths; both are inductions over paths (`PathInduction`: of the paths for
which it fails there would be a shortest one). `StepKinds` sorts the steps: those
that change no directory (`QuietStep`), the new inode (`CreateInodeCalm`), the new
entry, the entry that goes, and `Rename`.

The refinement goes by where every path leads after a step (`Leads`). With a new entry
it is the same for all paths but one (`EntryPaths`); when an entry goes, for all
but one that had nothing below it (`GonePaths`); after `Rename` a path under the
destination leads to where the path with the source in its place led (`RenamePaths`,
and `Back` for the way from the one to the other); after all other steps nothing moves
(`LeadsOn`). With what is seen of an inode (`Seen`) this makes each handler's last
step an operation of `Tree`, and every step before it one that `Tree` does not see, or
the emptying of the file that `Tree` allows of an unlink (`StepRefines`). The
answers need three lemmas more: `MissingIs` (`translate` says ENOTDIR if and only if a
file is on the way), `ChildrenAre` (a directory's valid entries are the paths below it,
for ENOTEMPTY), and `FewChildren` (a free place in the block is a place in `Tree`'s
directory). `Tree` has no path longer than `MaxDepth`, where a directory has no
children; `RInv` is `TInv` and `Shallow`, that a directory there is empty.

For lost inodes, `LinkedFound` makes "an entry reaches it" of "a path leads to it", so
that the same lemmas say which inodes stay linked, and `InHand` says when a handler has
an inode of its own: not before `fs_mkdir` has found one, and, in `fs_unlink`, no longer
when the bit is cleared.

For `CommandsStayBelow` the invariant cannot be `TInv`: what is typed makes no tree
(a `chmod` takes the type from a directory, a trailing slash leaves the entry of a freed
inode). `BInv` therefore holds of any image, and `IsTree` is used in `StaysBelow` alone,
as its hypothesis on the state a step starts from.

* `Barren`: block 0 has no entries, and an unmarked inode no block, so that whoever
  takes an inode adds nothing below it, even if an entry led there already.
* `Placed`: the calls are about paths below the working directory. What is typed is
  there because `fix_path` takes nothing away before a `../` (`TypedBelow`): with the
  mutant `without_Father` it is not.
* `Knows`: what a handler has found and goes on from. Freeing a file's block can cut
  off the way to the file's own father, but only where a directory's entry leads to the
  file, which in a tree there is none of beside the file's own.
* `Made`: the second call of `do_put` writes to a marked inode or to none
  (`NewFileLeads`).

A step that leaves every directory's entries leaves every path where it leads
(`WalkKept`, `EntriesKept`). One that writes or clears an entry changes the paths through
that entry; in a tree these are the call's path and what is below it (`OnePath`,
`OthersKept`, and `CutOff` for a block that is freed), and `Placed` says that they are
below the working directory.

### Threads (`ThreadsProofs`)

With `Serial`, that is a mount with `-s`, for any number of threads, names and inodes, in
the two directories of the model:

* `SerialLookups`: `Serial => (Spec => []FoundIfThere)`;
* `SerialEntries`: `Serial => (Spec => []OneInodeEach)`;
* `SerialMemory`: `Serial => (Spec => []MemoryIsImage)`.

Without `Serial` they are false (run `threads`). `TInv` says that one handler runs at most
(`OneRuns`), and of that handler, place by place, what is in memory while `fs_init` reads it
again (`MemoryAt`), what it has taken (`TakenBy`), and where `translate` is with what is
left in `strtok` (`WalkingAt`): the rest of its own path, from the inode that leads to
what was there when it was called.

### The layout (`FileSystemProofs`)

For blocks of 1024 bytes and inodes of 64 (`Sizes`, the only
hypothesis on constants):

* `PartsFit`: the parts of an image follow each other and fit, for more than four
  blocks;
* `InodesArePlaced`: for every image, each inode has a bit, and the block that
  `update_inode` writes for it is in the inode region; the block allocator looks at
  every block and no other;
* `BitmapGoesBeyond`: in an image of up to 32707 blocks `find_free_inode_map_bit`
  looks at a bit whose inode `update_inode` would write over the root directory. The
  proof gives the inode: the first one past the region.

These are arithmetic on `\div`, block by block, with no induction.

### What is only model-checked

* `CallsReturn`, a liveness property under fairness, which the prover does not reach. All
  other properties of the passing runs are proved.
* The violations of section 5, which are counterexamples.

## 5. Where code and comments disagree

Each is the counterexample of a run:

* `files_lost_root`: a write that ends exactly at the end of the direct or of the
  `indir_1` range takes a block for the next root. `fs_truncate` frees the root only
  if the size is beyond the range, clears the pointer anyway, and the block stays
  marked.
* `files_full`: when there is no block for a root, `fs_write` returns what it has
  written without raising the size.
* `image_damaged`: `fs_truncate` frees blocks while the inode in the image still has them
  (592, 610). After a crash in between `fs_init` starts on that image without a test, and a
  `put` of another file takes the blocks: a table of the first file is the second one's
  data, which `fs_read` and `fs_truncate` take for block numbers.
* `names_full`: `fs_mkdir` passes `-ENOSPC` on as a block number; the device's
  assertion ends the process.
* `threads`: without `-s` a look-up of a path that is there is answered with ENOENT:
  one thread's `strtok(NULL)` goes on in a string that another has freed, or in the
  other's path; or it walks through inodes that another's `fs_getattr` has allocated
  and not yet read. The file system is mounted without `-s` by the tests
  (`test/test-3.sh:55`). `OneInodeEach` fails too (checked by hand, not a run): a
  reload between another's `FD_SET` and `update_bitmap` clears the bit again, and the
  next file gets the same inode.

Proved: the inode allocator searches all of the bitmap's block, whatever the number
of inodes (`BitmapGoesBeyond`; `read-img.c:131` calls such an inode invalid).
`CreateOverrun` is what happens then.

Seen while modelling, in the modules' actions but without a run of their own:

* `fs_rmdir` *sets* the inode bitmap's bits of the directory's inode and of its block's
  number (746, 750), where its comments speak of removing them, and frees no block:
  `RmdirMap`. No other handler loses an inode (`OnlyRmdirLeaks`);
* `fs_rename` does not test the length of the new name, as `fs_mknod` and `fs_mkdir` do
  (399, 545), and writes a long one over the next entry: `RenameOverrun`;
* a crash between link and mark in `fs_write`, inside `fs_truncate`, or between the
  two halves of `fs_unlink` leaves an image that `read-img` complains of (84, 136);
* `read-img` does not test the indirect blocks themselves (86-111), and its lists of
  "unreachable" inodes and blocks (143-155) name those that are reached and not marked;
* `do_put` returns 0 after a short write (`misc.c:257`, 262);
* with `blksiz` of 256 KB or more, a write that finds no block for `indir_2` leaves data
  that `fs_truncate` does not free (section 4, `OnlyTablesAreLost`);
* `put` to a path with a trailing slash makes an entry with the empty name, and then
  has `fs_write` use the inode at index -2 (`PutWriteUndefined`);
* `cd` follows no `..` but one that stands alone, and `fix_path` deletes `../` where it
  could go up: `rm ../a` in `/d` removes `/d/a`;
* the comment on the layout of a 1 MB image (`mkfs-x6.c:108-113`) has the inodes in
  blocks 3 to 6 and the root directory in 7; by the code it is in block 19;
* the command line's `chmod` takes the type bits off an inode (863;
  `test/test-chmod.sh:23`): `Chmod` with `"cmdline"`;
* `fs_mknod` has no test that the father is a directory (350; `fs_mkdir` has one at
  500), so that the command line can put an entry into a file's first block;
* `fs_unlink` of `/a/` frees the inode, leaves the entry and answers ENOENT;
* `fs_mkdir` without a free inode leaves its block marked (`MkdirNoInode`).

## 6. Not modelled

`fs_utime`, `fs_statfs`, times, owners, `strmode`: no other part depends on them.
Bytes within a word; the bytes of names (a name is short or long). The order of
bytes of the image. Handlers other than `fs_getattr` and `fs_mknod` in threads. Of the
command line: `pwd`, `ls`, `show` (it reads as `get` does), `statfs`, `blksiz`, `rename`
with typed paths (`Namespace` has it), the splitting of a line, and what is written
past `paths[16]` and `cwd[128]`. Of `read-img`: its listing, the 100 places of its
list, directories below the root. What the program does with a directory after an entry
or an inode has been written over it; and of a process on a damaged image, what is wrong
beyond the first block that is read outside of the image.
`mktest.c` writes one fixed image.
`fs_mknod` with a mode other than a regular file's.

## 7. Plan

Done: files, names, their abstractions; their composition with crash, checker and
commands; the command loop's paths; threads; the layout; the proofs of section 4.
Next:

* `Threads` with `fs_unlink` and `fs_write`: the block bitmap shared as the inodes'.
