# Files, buffers, SHARE and memory of the FreeDOS kernel, in TLA+

This directory is kept beside a FreeDOS distribution: a kernel (`src/kernel`),
the file-sharing TSR SHARE (`src/share`), memory managers, a command
interpreter and some sixty utilities. It models the part in which many
programs depend on the same tables: handles, the system file table (SFT),
FCBs, processes, SHARE's tables of open files and locked regions, the FAT and
the directory entries of a volume, the block buffers below it, and the chain of
memory blocks.

## 1. Inventory

### The parts and how they interact

| part | source | state it keeps | operations |
|---|---|---|---|
| SHARE | `share/src/share.c` | `file_table`, `lock_table`, two counters of free slots | `open_check`, `close_file`, `access_check`, `lock_unlock`, `is_file_open`, all through INT 2F/10A0-10A6 |
| Handles and SFTs | `kernel/kernel/dosfns.c`, `newstuff.c` | `ps_filetab` and `ps_maxfiles` of each process; `sft_count`, `sft_psp`, `sft_mode`, `sft_shroff` of each SFT; `share_installed` | open, close, dup, force-dup, lock, read and write, delete, rename, set attributes, set handle count |
| FCBs | `kernel/kernel/fcbfns.c` | the SFT number inside each FCB of a program | FCB open and close, close-all at exit |
| Processes | `kernel/kernel/task.c`, `inthndlr.c` | `cu_psp`, the chain of `ps_parent` | exec, create PSP, keep resident, exit |
| Critical errors | `kernel/kernel/entry.asm`, `error.c` | `ErrorMode`, `InDOS` | INT 24: ignore, retry, fail, or abort, which restarts the call as 4C |
| FAT file system | `fatfs.c`, `fattab.c`, `fatdir.c` | two fnodes, directory entries, the FAT, the hint and the count of free clusters in the DPB; start, size and cursor in each SFT | `dos_open`, `dos_close`, `dos_delete`, `rwblock` with `map_cluster`, `extend`, `dos_extend`, `shrink_file`, `wipe_out_clusters`, `merge_file_changes`, `dos_free`, `dos_setfattr` |
| Buffers | `blockio.c` | an LRU ring of sector buffers with valid, dirty, FAT and uncache flags | `getblk`, `flush1`, `flush_buffers`, `flush`, `setinvld`, `DeleteBlockInBufferCache`, `AllocateHMASpace` |
| Memory arenas | `memmgr.c`, the loaders in `task.c` | the chain of MCBs, `uppermem_link`, `mem_access_mode` | allocate, free, resize, link upper memory, set the strategy, load a program, free a process |
| Devices, redirector, NLS, start-up | `chario.c`, `network.c`, `nls.c`, `main.c`, ... | - | I/O, or external, or run once |
| HimemX, EMM386, caches, FreeCOM, FDISK, CHKDSK, DEFRAG, FORMAT, ... | other directories | - | separate programs |

A program calls the kernel by INT 21. The kernel keeps one SFT per open; a
handle is an index into the table of the process, whose byte is an SFT number;
an FCB holds an SFT number too. Opening a local file asks SHARE first, and the
number of the entry SHARE returns is kept in `sft_shroff`; the last close of
the SFT gives it back. Reads, writes and locks pass that number to SHARE. A
call on an open file copies the SFT into an fnode, follows and edits the chain
of clusters through `link_fat`, and copies the fnode back; other SFTs of the
file are brought up to date by `merge_file_changes`. Every sector of a FAT or a
directory goes through a buffer; whole sectors of files go past them. A
child inherits handles by copying them and counting the SFT up. A program's
memory is a chain of blocks, each behind a header with its size and owner; the
loader allocates two of them for a program, and its end frees all it owns.

### What is hard

- *Reference counts across processes*: dup, inheritance, FCBs, exits.
- *Aborts*: INT 24 can abort in the middle of a close, an exit included, and
  the exit starts again over tables that are half cleared.
- *Failure in the middle*: a driver that refuses, a directory entry that
  cannot be written, a program that does not get its memory, after SHARE or
  an SFT has already been taken.
- *Two tables that must agree* without a common lock: SFTs in the kernel,
  entries in a TSR that is reached by numbers only.
- *Reuse of numbers*: entries, locks, SFTs and PSP segments are reused at
  once, so whatever is stale names something else.
- *A structure that every call edits in place*: splits, joins and end marks
  of the chain of blocks, in low and upper memory, with strategies that a
  loader changes for a while and must restore on each of its error paths.
- *Copies*: the start and the size of a file are in its directory entry, in
  each of its SFTs and in the fnode of a call; a block is on the medium, perhaps
  on a second copy of the FAT, and in a buffer.
- *Edits that stop halfway*: a chain is edited entry by entry, and each access
  can fail; a buffer is flushed before it is reused, and that can fail as well.
- *Bounds*: full tables, a full disk, 32-bit ends of regions, handles above a
  limit that has been lowered, a 16-bit count whose largest value means unknown.

`PROJECT.json` lists these one by one, with the line where each bites and the
property that would show it.

### What makes each part correct

- SHARE: instances of a file agree on the first modes; the first open is
  honoured; locks belong to open files and do not overlap; counters are exact.
- Handles, SFTs, processes: nothing is released twice, nothing is lost except
  on named error paths; parents live; exits end; SFTs and SHARE agree; open
  files are not deleted or renamed.
- Buffers: they cannot be seen. A block has what was last stored in it; only a
  block whose own transfer failed, whose buffer a failing read went into, or
  that was written behind the buffers may come back older or as garbage, and
  only for such a block may the copies of the FAT differ.
- FAT: until a buffer, a directory entry or a flush is lost, chains are disjoint,
  do not run into free clusters, and are long enough for the sizes; no cluster
  is lost unless an access failed; a cursor is where it says it is; a call
  changes no other file. Every call ends, on damaged tables too.
- Arenas: the chain tiles memory; no program's block is taken from it; blocks
  of an ended process are gone; a search finds room whenever there is some; a
  loader leaves its caller as it was.

## 2. Modules

    ShareTables          SHARE's tables and operations, no next-state relation
      |-- Share          an arbitrary client of them
      |     |-- MCShare            instances for TLC
      |     `-- ShareProofs        theorems of Share
      |-- DosFiles       the kernel: handles, SFTs, FCBs, processes
      |     |-- MCDosFiles         instances for TLC
      |     `-- DosFilesProofs     theorems of DosFiles
      `-- ShareTablesProofs        what the operations preserve

    MemBlocks            the chain of memory blocks and its operations
      |-- MemMgr         programs and loaders that use it
      |     |-- MCMemMgr           instances for TLC
      |     `-- MemMgrProofs       theorems of MemMgr
      `-- MemBlocksProofs          what the operations preserve

    FatFs                the files of one volume
      |-- MCFatFs                instances for TLC
      `-- FatFsProofs            theorems of FatFs
            `-- FatChainsProofs        theorems about its chains

    BlockDisk            an array of blocks: what the buffers promise
      `-- BlockCache             the buffers, shown to implement it
            |-- MCBlockCache           instances for TLC
            `-- BlockCacheProofs       theorems of BlockCache

DosFiles treats what happens inside an open, a close or a read as one step that
may fail; FatFs is the inside of these steps for files of a FAT volume, and
BlockCache the inside of each access of FatFs to the disk. What one takes for
granted another shows: FatFs lets one instance of a file write, as SHARE
enforces (`FirstOpenHonoured`), and deletes no open file (`OpenFilesExist`); its
accesses to the FAT either fail or see the last write (`IsDisk`), but for a
block that is astray, which is the `BufferLost` of FatFs.

**ShareTables** translates `share.c`. `file_table` and `lock_table` are
functions from slot numbers to records with the fields of `file_t` and
`lock_t`; the two counters are the handler's own. `OpenCheck` takes the lowest
free slot, `OpenEntry` copies the first modes from the lowest other instance,
`Proceeds` is `open_actions` with `open_exceptions` (actions 0, 3 and 4
proceed, as the comments of `do_open_check` say). `Touches` is the test of
`access_check` as it is written, `EndOfs` its clamp at the largest offset.
`AccessViolation` frees the entry before INT 24, as the code does, and records
it in the history variable `lockViolated`, since the code makes no sense of
that entry afterwards.

**Share** drives them with SFTs that each hold at most one entry number. It is
the abstract specification of what SHARE expects of its client. `Open`,
`TryOpen`, `Close`, `Lock`, `Unlock` and `AccessLocked` stand for what
`DosOpenSft`, `DosCloseSft`, `DosLockUnlock` and `DosRWSft` ask for; calls
that SHARE refuses change nothing and have no step.

**DosFiles** is the kernel.

| state | in the code |
|---|---|
| `cu_psp` | `cu_psp` |
| `psp[p]` | `ps_parent`, `ps_maxfiles`, `ps_filetab`; `fcbs` is the set of `fcb_sftno` in the program's FCBs |
| `sft[s]` | `sft_count`, name or device, `sft_psp`, `O_NOINHERIT` and `O_FCB` of `sft_mode`, `sft_shroff` |
| `files` | the names that have a directory entry |
| `call` | where the kernel is: `"program"`, or the loop of `merge_file_changes`, `return_user` or `FcbCloseAll` with its index |
| `leaked`, `forced` | history: an error path that loses a reference has been taken; `DosSetFattr` has gone for SFTs in use |

A call is one step, because DOS runs one INT 21 call at a time. The exceptions
are the loops that close many files: a critical error in any round can abort,
so each round is a step (`ReturnCloses`, `FcbCloseAll`, `MergeFileChanges`).
`Aborts` is the end of `CriticalError`: the call is restarted as 4C unless the
process is its own parent. Each close can fail (`DosCloseFault`) and each open
can fail (`DosOpenFails`) or be aborted (`DosOpenLeaks`).

What the model abstracts: names and devices are model values; a file's data,
size, attributes and clean flag are not tracked, so whether `dos_close` fails is
free; the fields of free SFTs and slots are cleared because nothing reads them;
the shell starts with one device on handle 0 where `main.c` opens three. SHARE
is resident from the start.

What is not modelled of these sources: INT 21/50 (set PSP), overlays, the
network redirector, loading or unloading SHARE while files are open, a read of a
program file that another process has locked while `DosExec` loads it, FCB
record I/O.

**MemBlocks** translates `memmgr.c`. A chain is a function from the segments
of the headers to `m_type`, `m_psp` and `m_size`, in paragraphs. Each operation
takes a chain and returns the chain it leaves. A search is written as what it
has done at its end: it has joined the unused blocks that it met, which are all
from its start on, or with FIRST_FIT those up to the block it takes (`Found`),
and has chosen by the rule set (`Chosen`). `SearchAgain` is the jump back to
low memory, `Give` the split at the end or at the beginning of the block.
Headers that `joinMCBs` has swallowed leave the domain; freeing one again has no
effect (`DosMemFree`), as the code means it to be.

**MemMgr** drives the chain.

| state | in the code |
|---|---|
| `mcb` | the headers from `first_mcb` on, upper memory included whether it is linked or not |
| `uppermem_link`, `mem_access_mode`, `cu_psp` | the same |
| `loader` | the local variables of `DosComLoader` or `DosExeLoader` (`env`, `mem`, `asize`, `UMBstate`, `orig_mem_access`) and where it is |
| `parent` | `ps_parent` of each process that has not ended |
| `kept` | history: the processes that stay resident, and the blocks of a COM program that was too small to start (`task.c:544` leaves them) |

A memory call is one step. A load is a step per call that the loader makes, so
that each of its failures is a path of its own: the environment is too large, or
there is no memory for it, or its path has no full form; there is not enough for
the program; the image cannot be read; a COM program gets too little for its
stack. The PSP of a process is the segment behind the header of its program's
block, as in the code, so a PSP is reused as soon as its memory is.

What the model assumes: the machine has upper memory (`uppermem_root` is not
0xffff); a program frees, resizes and gives back only blocks of its own, and
keeps the block with its PSP at least as large as the PSP, which the kernel does
not check; a corrupt chain is never met, which `ChainTiles` confirms, so the
returns of DE_MCBDESTRY and the panics behind `DosMemCheck` are left out.
Overlays allocate nothing; a program that is loaded but not started leaves the
same memory as one that is. An uninitialised `env` is a member of `Garbage`: 0
in the passing runs, also the segment of a block in `mem_env`. Device drivers
and buffers that start-up puts into the first block are not distinguished.

**FatFs** is one FAT12 or FAT16 volume.

| state | in the code |
|---|---|
| `fat[c]` | the entry of cluster c: free, the next cluster, or the end of a chain |
| `dir[f]` | the directory entry of the name f: `dir_start`, `dir_size` |
| `sft[s]` | name, open for writing, `SFT_FCLEAN`, `sft_stclust`, `sft_size`, `sft_posit`, `sft_cuclust`, `sft_relclust` |
| `hint`, `nfree` | `dpb_cluster`, `dpb_nfreeclst` |
| `call` | `fnode[0]`, where the call is (`pc`), what is left to transfer, and its local variables |
| `failed` | history: an access to the FAT or to a directory has failed |
| `lost` | history: and by that the tables, or the SFT of a call, missed a change |

The loops that follow or edit a chain (`map_cluster`, `extend`,
`wipe_out_clusters`, the loop of `rwblock`) take a step per cluster, and in each
round the access can fail. `MapRestart`, `MapFollow` and `Extend` are the rounds
of `map_cluster`; `FirstCluster` and `AnotherCluster` collect the sectors of a
transfer; `Shrink`, `Cut` and `WipeCluster` are `shrink_file`. The returns differ
in whether the fnode is copied back (`Return`) or not (`Drop`), as in the code.

An error does more or less harm. An access that fails changes nothing, and its
call gives up: these are branches of the rounds (`Fault`). The actions of
`Losses` are the errors by which a change is lost that others count on, and they
set `lost`:

- `BufferLost`: `flush1` throws a buffer away that it could not write, so the
  block falls back to what the medium has; a failing read leaves foreign data in
  a valid buffer; an ignored one takes garbage for data. The FAT becomes one of
  `Tables` or the directory one of `Directories`, at any point of a call.
- `WipeUnwritten`: behind `wipe_out_clusters` the entry of a file that is deleted
  or truncated is not written; and `shrink_file` returns an error when its
  `flush_buffers` fails (`fatfs.c:1854`), whereupon `rwblock` leaves before
  `fnode_to_sft`: the SFT keeps its start and its size over clusters that are
  free already.
- `CreateUnwritten`, `UpdateUnwritten`: `dir_write_update` fails for a new file,
  or in a commit or a close, before or behind the change of the entry.

`NotCrossLinked`, `ChainsAllocated`, `SizeCovered`, `CursorInChain` and
`OthersUntouched` say what they say until then: after each of these the code makes
no attempt to repair, and the chains are indeed unsound. `TypeOK` and `CallsEnd`
hold regardless.

What the model abstracts: contents, times and attributes; sizes and offsets count
sectors; the directory is flat. SHARE is resident and programs that write deny that
to others, so a file has at most one writer and any number of readers.

**BlockDisk** is what the file system sees: an array of blocks. A call stores in
no block, in one, or in neighbours; those hold what was stored, and no other
block shows anything new (`Shown`). Exempt are the blocks that are `astray`: a
transfer of them failed, a failing read of another block went into their buffer
(one per call), or they were written behind the buffers. An astray block may show
what it should, or what its medium has, which can be older, or garbage. The medium
of a block keeps its content, gets what the block showed or what is stored now, or
is damaged if the transfers of this block can fail (`WrittenBack`). A write behind
the buffers and a new medium (`Renew`) are about one unit and leave the others
alone.

**BlockCache** is `blockio.c` with its callers.

| state | in the code |
|---|---|
| `buf[b]` | `b_unit` and `b_blkno`, `b_flag`, `b_buffer` |
| `place[b]` | the position of the buffer in the ring from `firstbuf` on, 0 if it has left it |
| `disk`, `mirror` | the medium, and the second copy of the FAT |
| `link` | the local variables of `link_fat` between its two `getFATblock` |
| `astray` | history: blocks whose last transfer failed, whose buffer took a read that failed, or that were written behind the buffers |
| `apart` | history: blocks of the FAT with copies that were not written together: a write of one failed or was aborted, or a program wrote it |

`Hit` and `Miss` are `getblk` with what its caller does to the buffer before the
next call; `Victim` is the choice of `searchblock`, including its test of the
first buffer where the last one was meant; `FlushLoop` is `flush1` for one buffer
after the other: either copy of each block may fail and be left old, new or torn
(`Torn`), ABORT can leave the loop before, at or between the two copies of any of
them, and `FAIL` makes the buffer invalid where `IGNORE` only makes it clean. A
program writes sectors of the first copy, of the second or of both (`Written`), and
such a write can fail halfway (`Stored`). The kernel never reads the second copy;
what is in it matters to CHKDSK alone. A call is a step, but for an entry
of a FAT12 table that lies on two blocks: `link_fat` then holds two buffers.

## 3. Runs

| run | configuration | shows |
|---|---|---|
| share_calls | 1 file, 3 SFTs, 2 processes, 3 entries, 2 locks, 4 pairs of modes, 4 regions in offsets 0..5 | `TypeOK`, `EntriesHeld`, `LocksOnOpenFiles`, `LocksDisjointOrNested`, `CountersExact`, `FirstModesAgree`, `FirstOpenHonoured` |
| dos_exit | 2 processes, tables of 2 handles that can shrink to 1, 2 SFTs, counts up to 2, 1 attribute change | `TypeOK`, `ParentsLive`, `EntriesPaired`, `FilesHaveEntries`, `NeverReleasedTwice`, `CountsExact`, `ExitCompletes` |
| dos_share | 2 files, 1 lock, 1 region, counts up to 2 | `OpenFilesExist`, `IsShareClient` |
| mem_calls | 7 paragraphs low, 4 upper, headers included; 3 strategies; requests of 1 or 3 | `TypeOK`, `ChainTiles`, `ProgramsHeld`, `OwnersKnown`, `AllocFindsRoom`, `LargestAvailable`, `BlocksKept`, `LoaderLeavesCaller` |
| cache_calls | 3 buffers, one of which can be taken away; 2 neighbouring blocks of a FAT, transfers of the second can fail | `PairHeld` |
| cache_faults | 2 buffers, 2 blocks, one of them of a FAT and written behind the buffers too; all transfers can fail | `OneCopy`, `CleanOnDisk`, `MirrorsAgree`, `IsDisk`, `FlushIsDurable`, `DirectReadsCurrent` |
| fat_calls | 2 files, 2 SFTs, 3 clusters of 2 sectors, offsets up to 3 | `TypeOK`, `NothingLost`, `FreeCountExact`, `SizeCovered`, `CursorInChain`, `OthersUntouched` |
| fat_faults | 2 files, 1 SFT, 2 clusters; any access, flush or directory write can fail; one buffer can be lost, with 3 FATs and 2 directories that may come back | `NotCrossLinked`, `ChainsAllocated`, `CallsEnd` |
| share_entry, dos_fcbs, mem_env, fat_shared | as above | violations, see section 6 |

Why these bounds are enough to be of interest: three instances of one file are
needed for an entry to inherit its first modes from one that inherited them;
the regions contain disjoint, touching, overlapping, nested and wrapping pairs;
two locks fill the lock table; two SFTs and two entries are exhausted and reused
in every run; with two handles and a count of two, a process holds an SFT twice
or shares it with its child. `MaxDrift` bounds how far a double free may raise
`file_table_free`, and `MaxForced` how many attribute changes close files;
`MaxCount` stands in the guards of dup and inheritance. Deadlock is checked in
all runs. Symmetry is used only where no liveness property is checked.

Memory is small but large enough for three blocks in a row, so that a free
block meets free neighbours on both sides, and for two programs with their
environments, one of them in upper memory; a request that leaves exactly a
header's room splits off an empty block. `AllocFindsRoom` and `LargestAvailable`
ask for all nine modes in every reachable fragmentation.

A volume of three clusters fills up and fragments: a file of two clusters can
lie around one of the other, in either order, and a truncation frees what the
other file takes next. Two sectors in a cluster make an offset begin inside one
and a transfer cross to another. `fat_faults` has two clusters of one sector:
enough for a chain that is cut, for a file that takes what was freed, and for what
can come back when a buffer is lost (`MCTables`, `MCDirectories`): a FAT without
chains, one that runs in a circle, one with an entry out of range, a directory
without its files, one with all files in one cluster. `LoseAgain` is FALSE: one
loss per behaviour, after which calls go on with these tables for ever; a second
one is left to the theorem `TypeCorrect`.

Two buffers are the least in which the two blocks of an entry of the FAT can be
held at once, and with two blocks a victim is dirty, clean, astray or of the FAT
while the other one is any of these; three buffers let one be taken by INT 2F/4A02
while `link_fat` holds the other two. The failures multiply the states, so the
blocks are few; the theorems about the buffers hold for any number of buffers,
units and blocks.

Each run exhausts its state space within one to four minutes.

Two refinements are checked. `IsShareClient`: `DosFiles` implements `Share` with
`shroff[s]` mapped to `sft[s].shroff`. `IsDisk`: `BlockCache` implements
`BlockDisk` with `content[k]` mapped to the buffer that holds k, or to the
medium if none does.

### Fairness

`FairSpec` adds weak fairness on `Loop` only: the steps in which the kernel is
already inside a loop. The code runs these without waiting for anyone, so once
in a loop it goes on. Nothing is assumed about programs: they need not make any
call, and errors and aborts may or may not come. `ExitCompletes` therefore
excludes one case by name: the close of an FCB that is aborted again and again,
since an abort starts the exit over and nothing marks the FCB as tried.
Handles need no such exception, because `DosClose` clears the handle first.

`FatFs` has a `FairSpec` too, with weak fairness on `Kernel`, the rounds of a call
that is on its way: the kernel is not reentrant and such a call waits for nothing
but a drive, which answers or fails. `CallsEnd` then says that no loop along a
chain goes on for ever, whatever the failures before have left on the disk.

## 4. Proofs

**ShareTablesProofs** proves, for any sizes, what each operation keeps: types,
the number of free slots, and that an operation on one entry leaves the others
alone.

**ShareProofs** proves the seven invariants of `share_calls` for every number of files, processes, SFTs, entries and locks and
every set of regions and requests:

- `TypeCorrect`, `EntriesAreHeld`, `CountersAreExact`;
- `FirstModesAgreeAlways`: an entry gets the first modes of the lowest
  instance, and by the invariant all instances agree on them;
- `FirstOpenIsHonoured` needs more: what holds between the first instance and
  any other is a fact about the first modes alone, so the inductive invariant
  says that each entry's own modes go with its first modes; the table of
  exceptions is gone through once, as a lemma;
- `LocksBelongToOpenFiles` and `LocksAreDisjointOrNested` rest on
  `EntriesHeld`: without the one-to-one correspondence of SFTs and entries a
  close could drop the entry of somebody else's locks.

**DosFilesProofs** proves about the kernel, again for all constants:

- `KernelInvariant`: types, the chain of live parents and that a free SFT
  holds no entry. The chain is needed because an exit makes the parent current,
  whose own parent must be live as well, and so on: the invariant says that
  distinct processes, each the parent of the next, lead from the shell to the
  current one, so the one that ends is nobody's parent on that chain.
- `TypeCorrect` and `ParentsAreLive` follow from it.
- `KernelIsShareClient`: every step of the kernel is a step of `Share` or a
  stutter. One lemma per operation sums up what the step does to
  `sft_shroff` and to SHARE's tables; the simulation is then a case split.
- `EntriesArePaired` and `OpenFilesStay`: the invariant that `Share` is
  proved to have (each entry is held by exactly one SFT) is carried over to
  the kernel through the refinement, by instantiating `ShareProofs`. It is
  what makes the entry of a new file one that no other SFT names.

The second half of DosFilesProofs proves `NeverReleasedTwice`, `CountsExact` and
`FilesHaveEntries`, for any finite set of processes, tables of any size and any
errors and aborts. `RefsInv` extends the invariant of the first half:

- `Counted`, for each SFT: the references from the handle tables and FCBs of all
  processes are at most the count, and exactly the count while nothing has been
  lost. An SFT that is open by FCB has one reference at most, in the process
  that opened it; FCBs name no other SFT. This is why an exit can close the FCBs
  by looking at the SFTs of its own process only.
- `Gone`: a process that does not exist has no references. A PSP is reused at
  once, so without this a new process would inherit what no count knows of.
- `LoopsClear`: what the loop of an exit has been through is closed, however
  often the exit started over. So `Gone` holds at its end.

The references to one SFT are a set (of pairs of process and handle, and of
processes), so one edit of a table changes its cardinality by one at most: the
lemmas `CountedFewer`, `CountedOpened`, `CountedMore` and `CountedReleased` and
those for inheritance and for lost references say what each kind of edit does,
and one lemma per action combines them. The theorems have one hypothesis,
`FilesInRange`: SFT numbers are below 0xff, which marks a free handle. With more
files the two cannot be told apart (section 6).

**MemBlocksProofs** proves what each operation of `memmgr.c` does to a chain of
any length in memory of any size. A chain is `Chained` if it has its type, tiles
memory and has its marks in agreement with the link. `SameBut(m, n, S)` says
that the blocks in use, with owner and size, are the same but for those of S.
There is one lemma per operation: `JoinKeeps`, `SplitKeeps` and `OwnerChange`
for the parts that several of them share, then `DosMemAllocTakes`, `DosMemLargestKeeps`,
`DosMemFreeFrees`, `DosMemChangeKeeps`, `DosUmbLinkKeeps` and
`FreeProcessMemFrees`. The core is `JoinEnds`: the walk of `joinMCBs` ends at or
behind the header it began with, and swallows only unused blocks. That the
lowest header with a property exists, which the loops take for granted, is
`MinOf`, from the well-foundedness of the natural numbers.

What a search finds is compared with all blocks that it did not choose, without
going through them: each paragraph of a walk lies in one block (`BlockAt`) and is
free unless an allocated block has it (`FreeIsUnused`), so a search, which keeps
the allocated blocks, keeps the free paragraphs. After `joinMCBs` no two free
blocks of the walk touch (`JoinJoins`), so a row of free paragraphs lies in one
block (`RoomIsBlock`), and the rule set has that block or another to choose.
`DosMemAllocFinds` says for each mode that room is found exactly if there is
some, low memory after upper memory included, and `DosMemLargestIsMost` that the
size reported is the most there is.

**MemMgrProofs** proves the properties of `mem_calls` for every layout of
memory, every set of sizes and strategies and any number of programs, under one
hypothesis, `GarbageNamesNoBlock`: what a loader finds in its uninitialised
`env` is not the segment of a block. `mem_env` shows that it is needed. The
properties are not inductive:

- that the process which ends is nobody's parent needs the line of processes
  from process 0 to the running one (`Line`);
- that a call does not take the block of somebody's PSP needs to know which
  blocks are `Loose`: owned by the running process and not under a PSP. A
  program may free only these, the two blocks of a loader are such, and the
  second of them becomes a PSP that no process has;
- that the strategy is restored needs `ModesInv`: while no loader is at work
  the strategy has one bit at most, so the bits that `ExecMemLargest` clears
  are clear already unless the loader has saved the strategy.

One lemma per action, `<action>Safe`, says that it keeps the invariant and does
what `BlocksKept` and `LoaderLeavesCaller` allow; `WithinKeeps`, `HandsOver` and
`EndSafe` hold what several of them share.

**FatFsProofs** proves, for any volume, any number of files and SFTs, any
pattern of failures and any tables that a loss brings back, the type invariant,
`NotCrossLinked`, `ChainsAllocated` and `FreeCountExact`. They are not inductive:
what a step links depends on the copies of a start that calls and SFTs carry.
The type invariant holds in every state, also after a loss: each action keeps it on
tables in any condition. The invariant of the chains is `lost \/ IInv`: every step
of `Program` and `Kernel` keeps `IInv`, every step of `Losses` sets `lost`, and no
step resets it. It has two sides.

- `FatSide`: the FAT is `Sound` for the heads of the files and the rest of the
  chain that is being wiped out: each cluster is linked at most once, by the FAT,
  by one head or by the rest, and nothing that is linked is free. The count of
  free clusters is exact.
- `CallSide`: which copies of a start agree. The clean SFT of a writer has the
  start that the directory has; there is one writer at most; the fnode of a
  writing call is ahead of its SFT in a known way.

Lemmas on a sound FAT say what one edit of it does: a cluster is freed (`Forget`,
`Wipe`), marked and linked (`Take`, `Mark`, `Start`, `Link`), or a chain is cut
(`CutAll`, `CutKeeps`). `HeadOfFile` and `HeadAfter` bring the definition of
`Head` into the form in which the copies determine it, and one lemma per action
puts these together.

**FatChainsProofs** proves, again for any volume and any accesses that fail, the
properties of FatFs that speak of positions along a chain: `CursorInChain`,
`SizeCovered`, `NothingLost` and the action property `OthersUntouched`, from the
invariant `lost \/ (IInv /\ ChainInv)`.

- `Reaches(F, h, n, c)` says that the cluster c is n steps behind the start h.
  `ChainInv` says that each instance that writes, and each call that does, is
  at the cluster that its number says, and that the chain has a cluster for each
  sector up to the size, or up to the offset of a transfer on its way. Only
  the SFT of a call that is wiping out what it has cut off is exempt, until the call
  stores its fnode. None of the
  properties is inductive without it: `map_cluster` goes on from the cursor, so
  what an extension or `shrink_file` does to the FAT depends on where the cursor is.
- A step on one chain leaves the others alone because the FAT is sound, by the
  invariant of FatFsProofs: no two chains meet and none meets itself
  (`ReachDisjoint`). `Keeps`, `KeepsEnds` and `KeepsOther` say which walks survive
  an edit.
- That no cluster is lost needs `CutFinds`: unless an access fails, the search of
  `shrink_file` for the last cluster that is kept finds one, because the chain is
  as long as the size, and the rest of it goes to `wipe_out_clusters`.
- The properties speak of `Chain`, a recursive function; `ChainExists`,
  `ChainSteps` and `ChainReaches` show that it is what `Reaches` walks, and
  `ReachBound`, by counting, that no chain is longer than the volume. So
  `Clusters_of` is all that is reached, and a step that keeps the walks from the
  head of a file keeps its clusters (`SameChain`, `ReachedByOther`).
- Induction over the length of a chain is done with the least number that has no
  such cluster (`AllNumbers`). One lemma per action, `<action>Chains`, shows that
  it keeps the invariant.

**BlockCacheProofs** proves all properties of BlockCache, its refinement of
BlockDisk included, for any number of buffers, units, blocks and contents and any
set of blocks that may fail or be written behind the buffers.

- The invariant `Good` says of the buffers that none holds a block that another
  holds, that a FAT block is marked as one, and that a clean one agrees with its
  medium unless the block is astray; and of the media that both copies of the FAT
  agree, but for the blocks that are apart. `LinkInv` is why the second block of a
  FAT entry does not push out the first: it is in front of the ring and not marked
  as spare, the ring has two buffers at least, and the victim is the last one or a
  spare one, or the last but those of the FAT when some are not of the FAT.
- A call that misses flushes one buffer and fills it, in one step of BlockCache.
  `Good` and what a reader `Sees` are therefore operators of buffers, media, ring
  and the two histories, so that the state between the two halves can be named.
  `Moves` says of two such states that every block does as BlockDisk allows: its
  medium `Reaches` a value that was shown or stored there, and what it `Becomes`
  is what it should be unless it is astray before or after. `FlushKeeps`,
  `RefillKeeps` and `RenewKeeps` say of each half that it keeps `Good` and `Moves`.
- What a flush does to each medium comes from `FlushLoop` by `DiskWritten`,
  `MirrorWritten` and `LoopWrites`: a block that is written in full leaves both
  histories; one whose write fails, or at which the loop is aborted, enters them.
- One lemma per action puts these together, and shows that the step is an
  `Access` of the blocks the call names, with one stray block more at most, or a
  `Renew` of one unit. `CacheIsDisk` collects them.
- `FlushReachesDisk` and `DirectReadIsCurrent` follow from `LoopWrites`
  for a loop that is not stopped: every dirty buffer of the unit, or of the blocks
  that are read, is on the medium or its block is astray.

The proofs use the named assumptions of the modules only (`SharingNames`,
`SharingSizes`, `ClientConstants`, `KernelConstants`, `ChainLayout`,
`MemLayout`, `MemStrategies`, `MemSizes`, `KernelPsps`, `FatConstants`,
`CacheBufs`, `CacheBlocks`), and the two hypotheses `GarbageNamesNoBlock` and
`FilesInRange`.

Only model-checked are `ExitCompletes` and `CallsEnd`: liveness, out of the
prover's reach.

## 5. Mutants

Definitions whose comment begins with "Mutant:" are not part of any
specification. Each is a variant of the definition after it with one plausible
mistake (a missing reset, a count that is not kept, a comparison that is off by
one, a check that is left out); `PROJECT.json` pairs them with the property that
rules the mistake out.

## 6. Where the code and its comments disagree

- `EntryPerOpenFile`: a lock violation frees the SHARE entry of the file that
  was read or written, while the file stays open. From then on it is not
  protected, and the entry may be taken over by another file, which the close of
  the first one then releases.
- `FcbsClosed`: `FcbCloseAll` stops at the first SFT that is not in use, and
  the exit has just closed the handles. An FCB file behind the gap stays open.
- `NoEnvFreesNothing`: `DosMemFree` may be called with 0 when there is nothing
  to free, and the loaders rely on it when `ChildEnv` has failed, but their
  variable `env` was never set: whatever header it names is marked as free.
- `InstancesAgree`: a write of zero bytes truncates the file and returns without
  `merge_file_changes`. Another instance of the file keeps the size and the start
  that it had, and reads clusters that are free or belong to another file.

Seen while modelling, without a run of their own: `access_check` looks whether
the first byte or the end of the request lies in a lock, so a request that
contains a lock on both sides passes (`LocksDisjointOrNested` shows that this is
the only way to overlap); an attribute change drops one reference of each SFT of
the file, so a file whose handle was duplicated stays open although the call
succeeds; INT 26 invalidates the buffers of a unit if the write failed, INT
21/7305 if it succeeded, and neither in the other case; when the last
`flush_buffers` of `shrink_file` fails, the clusters are free but the SFT keeps its
start and its size, so the next extension gives them to another file while this one
still writes there; a write of a buffer that is answered by FAIL takes all earlier
changes to that sector with it, since the buffer becomes invalid and the next read
gets the old sector, and only the call that flushed it learns of it; `kernel/docs/config.txt:138`
says that FILES is in the range 8-255, but `Files()` in `config.c` takes any larger
number, and an SFT number is a byte in which 0xff means a free handle.

## 7. Plan

Done: all modules of section 2, their runs, and the theorems above.

Next, in this order:

1. FatFs: directories as chains (`extend_dir`, mkdir, rmdir) and rename.
2. **Xms** (HimemX: handle table, lock counts, free blocks) if it can be read from
   the assembler source with confidence.

## 8. Not modelled

- FAT file system: FAT32 and its file system information sector; directories as
  chains, mkdir, rmdir, find first and next, rename; attributes and times; marks of
  bad clusters; ABORT from inside a call on the FAT (DosFiles and BlockCache have
  it); two writers of one file, which SHARE allows if both open it with deny-none;
  programs that run without SHARE.
- Network redirector: what a call does is decided by an external driver.
- Block device driver and disk detection: BIOS and device I/O. Its failures are
  in DosFiles, FatFs and BlockCache.
- Kernel start-up and CONFIG.SYS: runs once, before any program; its result is the
  initial state of the models.
- National language support, the long file name API (not compiled into the default
  kernel), console editing: conversions and I/O without shared state.
- FreeCOM and the utilities: clients of the calls modelled here; the file system
  tools run alone on a volume and bypass the tables.
- EMM386, the caches, the assembler among the build tools: machine code below or
  beside the kernel, or vendored.
