------------------------------- MODULE FatFs -------------------------------
(***************************************************************************)
(* The files of one FAT12 or FAT16 volume with SHARE loaded: fatfs.c and   *)
(* the FAT of fattab.c in src/kernel/kernel.                               *)
(*                                                                         *)
(* A file is a chain of clusters that starts in its directory entry.  Each *)
(* instance of an open file (an SFT) has its own copy of the start and of  *)
(* the size, and a cursor: the cluster that was used last and its number   *)
(* in the chain.  A call copies the SFT into fnode[0], works there and     *)
(* copies it back; merge_file_changes brings the copies of other instances *)
(* up to date.                                                             *)
(*                                                                         *)
(* The loops that follow a chain run one cluster in a step.  If Faulty, an *)
(* access to the FAT can fail in each round (the user answers FAIL and     *)
(* link_fat returns 1), and so can the flush that ends a call.  An error   *)
(* may also cost a buffer of the FAT or of the directory: flush1 throws a  *)
(* buffer away that it could not write, a failing read leaves foreign data *)
(* in a valid buffer, and an ignored one takes garbage for data.  Then the *)
(* tables fall back to what is on the medium or to garbage (BufferLost).   *)
(* The variable lost remembers it: the chains are sound until then.        *)
(*                                                                         *)
(* Sizes and offsets are in sectors.  The kernel is not reentrant: one     *)
(* call is on its way at a time.                                           *)
(***************************************************************************)
EXTENDS Integers, FiniteSets

CONSTANTS
  Files,           \* the names
  NoFile,          \* no name
  Sfts,            \* the SFTs
  NoSft,           \* none of them
  MaxCluster,      \* dpb_size, the last cluster of the volume
  ClusterSectors,  \* dpb_clsmask + 1
  MaxOffset,       \* bound: the largest offset that programs use
  SeekTo,          \* bound: where they go
  ReadCounts,      \* bound: how much they read in a call
  WriteCounts,     \* bound: how much they write
  Modes,           \* bound: whether they open a file to write to it
  Faulty,          \* whether an access to the disk may fail
  Tables,          \* bound: the FATs that may come back when a buffer is lost
  Directories,     \* bound: the directories that may come back
  LoseAgain        \* bound: whether more than one of them is lost

ASSUME FatConstants ==
  /\ NoFile \notin Files /\ NoSft \notin Sfts
  /\ MaxCluster \in Nat \ {0, 1}
  /\ ClusterSectors \in Nat \ {0} /\ MaxOffset \in Nat
  /\ SeekTo \subseteq 0 .. MaxOffset
  /\ ReadCounts \subseteq Nat \ {0} /\ WriteCounts \subseteq Nat
  /\ Modes \subseteq BOOLEAN
  /\ Faulty \in BOOLEAN /\ LoseAgain \in BOOLEAN
  /\ Tables \subseteq [2 .. MaxCluster -> 0 .. MaxCluster + 1]
  /\ Directories \subseteq
       [Files -> [used : BOOLEAN, start : {0} \cup 2 .. MaxCluster, size : 0 .. MaxOffset]]

Clusters == 2 .. MaxCluster
FREE == 0
ERROR == 1              \* next_cluster could not tell
LAST == MaxCluster + 1  \* LONG_LAST_CLUSTER
UNKNCLUSTER == 0
UNKNCLSTFREE == MaxCluster

VARIABLES
  fat,     \* the FAT
  dir,     \* the directory entries
  sft,     \* the SFTs
  hint,    \* dpb_cluster, where to look for a free cluster
  nfree,   \* dpb_nfreeclst, the number of free clusters
  call,    \* fnode[0] and the place in the call
  failed,  \* history: an access to the FAT or the directory has failed
  lost     \* history: and the tables or an SFT missed a change by that

vars == <<fat, dir, sft, hint, nfree, call, failed, lost>>

NoEntry == [used |-> FALSE, start |-> FREE, size |-> 0]
Closed == [file |-> NoFile, writes |-> FALSE, clean |-> TRUE, start |-> FREE,
           size |-> 0, offset |-> 0, cluster |-> FREE, rel |-> 0]
Idle == [pc |-> "idle", op |-> "none", s |-> NoSft, file |-> NoFile, clean |-> TRUE,
         start |-> FREE, size |-> 0, offset |-> 0, cluster |-> FREE, rel |-> 0,
         left |-> 0, from |-> 0, st |-> FREE]

\* A volume after FORMAT.
Init ==
  /\ fat = [c \in Clusters |-> FREE]
  /\ dir = [f \in Files |-> NoEntry]
  /\ sft = [s \in Sfts |-> Closed]
  /\ hint = UNKNCLUSTER
  /\ nfree = UNKNCLSTFREE
  /\ call = Idle
  /\ failed = FALSE
  /\ lost = FALSE

-----------------------------------------------------------------------------
(* The FAT.                                                                *)

Free == {c \in Clusters : fat[c] = FREE}

\* A chain must not run into a free cluster.
next_cluster(c) ==
  CASE c \notin Clusters -> ERROR
    [] c \in Clusters /\ fat[c] \in Clusters -> IF fat[fat[c]] = FREE THEN ERROR ELSE fat[c]
    [] OTHER -> fat[c]

Fault == Faulty /\ failed' = TRUE

\* Mutant: an unknown count is counted on.
CountedUnknown(adjust) == (nfree + adjust) % (UNKNCLSTFREE + 1)

\* What link_fat adds to the count of free clusters, a UWORD: below 0 is
\* UNKNCLSTFREE.
Counted(adjust) ==
  IF nfree = UNKNCLSTFREE THEN nfree ELSE (nfree + adjust) % (UNKNCLSTFREE + 1)

Least(S, c) == c \in S /\ \A d \in S : c <= d

\* find_fat_free looks from the hint to the end and then from the start; an
\* entry that cannot be read is not free.
FirstFree ==
  LET ahead == {c \in Free : c >= hint}
  IN IF Free = {} THEN LAST
     ELSE CHOOSE c \in Free : Least(IF ahead = {} THEN Free ELSE ahead, c)

\* Mutant: the cluster at the hint is taken without a look.
FindFatFreeAtHint == {IF hint # UNKNCLUSTER THEN hint ELSE FirstFree}

FindFatFree == {FirstFree} \cup IF Faulty THEN Free \cup {LAST} ELSE {}

-----------------------------------------------------------------------------
(* The call and the SFTs.                                                  *)

Using(f) == {s \in Sfts : sft[s].file = f}
Writing(f) == {s \in Using(f) : sft[s].writes}
Cl(offset) == offset \div ClusterSectors
Smaller(m, n) == IF m <= n THEN m ELSE n

\* merge_file_changes with collect = TRUE, for an opened file.
Collected(f) ==
  IF Writing(f) = {} THEN dir[f] ELSE sft[CHOOSE s \in Writing(f) : TRUE]

\* merge_file_changes with collect = FALSE, in the SFTs S.
Merged(S, c) ==
  [t \in Sfts |-> IF t # c.s /\ S[t].file = c.file
                  THEN [S[t] EXCEPT !.start = c.start, !.size = c.size]
                  ELSE S[t]]

\* sft_to_fnode and fnode_to_sft
FromSft(s) ==
  [Idle EXCEPT !.s = s, !.file = sft[s].file, !.clean = sft[s].clean,
               !.start = sft[s].start, !.size = sft[s].size,
               !.offset = sft[s].offset, !.cluster = sft[s].cluster, !.rel = sft[s].rel]

\* Mutant: sft_relclust is not copied back.
StoredKeepingRel(c) ==
  [sft EXCEPT ![c.s] = [@ EXCEPT !.clean = c.clean, !.start = c.start, !.size = c.size,
                                 !.offset = c.offset, !.cluster = c.cluster]]

Stored(c) ==
  [sft EXCEPT ![c.s] = [@ EXCEPT !.clean = c.clean, !.start = c.start, !.size = c.size,
                                 !.offset = c.offset, !.cluster = c.cluster, !.rel = c.rel]]

Ready == call = Idle
Continue(c) == call' = c /\ UNCHANGED sft
Return(c) == call' = Idle /\ sft' = Stored(c)

\* A call that leaves before fnode_to_sft.
Drop == call' = Idle /\ UNCHANGED sft

-----------------------------------------------------------------------------
(* dos_open, dos_close, dos_delete, SftSeek2                               *)

\* share_open_file: programs that write to a file deny that to others.
Admitted(f, w) == w => Writing(f) = {}

\* Mutant: the cursor is not set.
OpenedWithoutCursor(f, w, e) ==
  [Closed EXCEPT !.file = f, !.writes = w, !.start = e.start, !.size = e.size]

Opened(f, w, e) ==
  [Closed EXCEPT !.file = f, !.writes = w, !.start = e.start, !.size = e.size,
                 !.cluster = e.start]

Open(s, f, w) ==
  /\ Ready /\ sft[s] = Closed /\ dir[f].used /\ Admitted(f, w)
  /\ sft' = [sft EXCEPT ![s] = Opened(f, w, Collected(f))]
  /\ UNCHANGED <<fat, dir, hint, nfree, call, failed, lost>>

\* Mutant: init_direntry keeps the start.
CreatedKeepingStart(s, f) ==
  LET new == [used |-> TRUE, start |-> dir[f].start, size |-> 0]
  IN /\ dir' = [dir EXCEPT ![f] = new]
     /\ sft' = [sft EXCEPT ![s] = Opened(f, TRUE, new)]
     /\ call' = Idle

Created(s, f) ==
  LET new == [NoEntry EXCEPT !.used = TRUE]
      S == [sft EXCEPT ![s] = Opened(f, TRUE, new)]
  IN /\ dir' = [dir EXCEPT ![f] = new]
     /\ sft' = Merged(S, [Idle EXCEPT !.s = s, !.file = f])
     /\ call' = Idle

Create(s, f) ==
  /\ Ready /\ sft[s] = Closed /\ ~dir[f].used /\ Admitted(f, TRUE)
  /\ Created(s, f)
  /\ UNCHANGED <<fat, hint, nfree, failed, lost>>

\* An existing file is opened with O_TRUNC: wipe_out begins at the start in
\* the directory.
Truncate(s, f) ==
  /\ Ready /\ sft[s] = Closed /\ dir[f].used /\ Admitted(f, TRUE)
  /\ Continue([Idle EXCEPT !.pc = "wipe", !.op = "create", !.s = s, !.file = f,
                           !.st = dir[f].start])
  /\ UNCHANGED <<fat, dir, hint, nfree, failed, lost>>

\* DosDelete refuses a file that SHARE has open.
Delete(f) ==
  /\ Ready /\ dir[f].used /\ Using(f) = {}
  /\ Continue([Idle EXCEPT !.pc = "wipe", !.op = "delete", !.file = f, !.st = dir[f].start])
  /\ UNCHANGED <<fat, dir, hint, nfree, failed, lost>>

\* DosCommit and dos_close: a changed file gets its entry.
Update(s, after) ==
  /\ Ready /\ sft[s].file # NoFile
  /\ IF sft[s].clean
     THEN sft' = [sft EXCEPT ![s] = after] /\ UNCHANGED dir
     ELSE /\ dir' = [dir EXCEPT ![sft[s].file] =
                       [used |-> TRUE, start |-> sft[s].start, size |-> sft[s].size]]
          /\ sft' = Merged([sft EXCEPT ![s] = after], FromSft(s))
  /\ UNCHANGED <<fat, hint, nfree, call, failed, lost>>

Commit(s) == Update(s, sft[s])
Close(s) == Update(s, Closed)

Seek(s, offset) ==
  /\ Ready /\ sft[s].file # NoFile
  /\ sft' = [sft EXCEPT ![s].offset = offset]
  /\ UNCHANGED <<fat, dir, hint, nfree, call, failed, lost>>

\* dos_free counts, unless the count is known.
DosFree ==
  /\ Ready /\ nfree = UNKNCLSTFREE
  /\ \E seen \in SUBSET Free :
       /\ IF seen = Free THEN UNCHANGED failed ELSE Fault
       /\ nfree' = Cardinality(seen)
       /\ IF seen = {} THEN UNCHANGED hint ELSE Least(seen, hint')
  /\ UNCHANGED <<fat, dir, sft, call, lost>>

-----------------------------------------------------------------------------
(* wipe_out_clusters                                                       *)

\* The end of the loop, in each of its callers.
Wiped ==
  \/ /\ call.op = "create" /\ Created(call.s, call.file)
  \/ /\ call.op = "delete"
     /\ dir' = [dir EXCEPT ![call.file] = NoEntry]
     /\ Drop
  \/ /\ call.op = "cut"
     /\ Return(call)
     /\ UNCHANGED dir

WipeCluster ==
  LET st == call.st
      next == next_cluster(st)
  IN /\ call.pc = "wipe" /\ next > 1
     /\ fat' = [fat EXCEPT ![st] = FREE]
     /\ nfree' = Counted(IF fat[st] = FREE THEN 0 ELSE 1)
     /\ hint' = IF hint = UNKNCLUSTER \/ hint > st THEN st ELSE hint
     /\ Continue([call EXCEPT !.st = next])
     /\ UNCHANGED <<dir, failed, lost>>

\* At the end of the chain, at a damaged entry, or after an error.
WipeEnds ==
  /\ call.pc = "wipe"
  /\ \/ next_cluster(call.st) <= 1 /\ UNCHANGED failed
     \/ call.st \in Clusters /\ Fault
  /\ Wiped
  /\ UNCHANGED <<fat, hint, nfree, lost>>

-----------------------------------------------------------------------------
(* map_cluster and extend                                                  *)

Mapping == call.pc \in {"extend", "map", "run", "cut"}
Reading == call.op = "read" \/ call.pc = "cut"
There == call.cluster # FREE /\ call.rel = Cl(call.offset)
Ahead == call.cluster # FREE /\ call.rel < Cl(call.offset)
AtEnd == IF Ahead THEN next_cluster(call.cluster) = LAST ELSE call.cluster = FREE

\* What the callers do with an error.
NotMapped ==
  \/ call.pc \in {"extend", "map"} /\ Return(call)
  \/ call.pc = "run" /\ Continue([call EXCEPT !.pc = "data"])
  \/ call.pc = "cut" /\ Drop

\* Mutant: f_cluster_offset stays.
MapRestartKeepingRel ==
  /\ Mapping /\ call.cluster # FREE /\ call.rel > Cl(call.offset)
  /\ Continue([call EXCEPT !.cluster = call.start])
  /\ UNCHANGED <<fat, dir, hint, nfree, failed, lost>>

MapRestart ==
  /\ Mapping /\ call.cluster # FREE /\ call.rel > Cl(call.offset)
  /\ Continue([call EXCEPT !.cluster = call.start, !.rel = 0])
  /\ UNCHANGED <<fat, dir, hint, nfree, failed, lost>>

MapFollow ==
  /\ Mapping /\ Ahead /\ next_cluster(call.cluster) \in Clusters
  /\ Continue([call EXCEPT !.cluster = next_cluster(@), !.rel = @ + 1])
  /\ UNCHANGED <<fat, dir, hint, nfree, failed, lost>>

MapFails ==
  /\ Mapping
  /\ \/ Reading /\ AtEnd /\ UNCHANGED failed
     \/ Ahead /\ next_cluster(call.cluster) <= 1 /\ UNCHANGED failed
     \/ Ahead /\ Fault
  /\ NotMapped
  /\ UNCHANGED <<fat, dir, hint, nfree, lost>>

\* extend marks the new cluster as the end of a chain (2) and makes it the
\* start of the file (1a) or the successor of the cursor (1b).  The cursor is
\* at the end of its chain: the test for that in extend says nothing new.
Extend ==
  /\ Mapping /\ ~Reading /\ AtEnd
  /\ \E c \in FindFatFree \ {LAST} :
       LET marked == [fat EXCEPT ![c] = LAST]
       IN /\ hint' = c
          /\ nfree' = Counted(-1)
          /\ failed' = (failed \/ c # FirstFree)
          /\ IF call.cluster = FREE
             THEN /\ fat' = marked
                  /\ Continue([call EXCEPT !.cluster = c, !.start = c])
             ELSE /\ fat' = [marked EXCEPT ![call.cluster] = c]
                  /\ Continue([call EXCEPT !.cluster = c, !.rel = @ + 1])
  /\ UNCHANGED <<dir, lost>>

\* No cluster is found, or 2 fails, or 1b fails and a cluster is lost.
ExtendFails ==
  /\ Mapping /\ ~Reading /\ AtEnd
  /\ \E c \in FindFatFree :
       /\ hint' = IF c = LAST THEN UNKNCLUSTER ELSE c
       /\ \/ /\ c = LAST /\ failed' = (failed \/ c # FirstFree)
             /\ UNCHANGED <<fat, nfree>>
          \/ c # LAST /\ Fault /\ UNCHANGED <<fat, nfree>>
          \/ /\ c # LAST /\ Ahead /\ Fault
             /\ fat' = [fat EXCEPT ![c] = LAST]
             /\ nfree' = Counted(-1)
  /\ NotMapped
  /\ UNCHANGED <<dir, lost>>

-----------------------------------------------------------------------------
(* rwblock: dos_extend, the loop over the sectors, shrink_file             *)

\* Mutant: the size is set before the clusters are there.
WriteSizeFirst(s, n) ==
  /\ Ready /\ sft[s].file # NoFile /\ sft[s].writes
  /\ sft[s].offset + n <= MaxOffset
  /\ LET c == [FromSft(s) EXCEPT !.clean = FALSE, !.left = n,
                                 !.op = IF n = 0 THEN "cut" ELSE "write"]
     IN Continue(IF c.offset > c.size THEN [c EXCEPT !.pc = "extend", !.size = c.offset]
                 ELSE [c EXCEPT !.pc = "head"])
  /\ UNCHANGED <<fat, dir, hint, nfree, failed, lost>>

\* A write of nothing (op "cut") truncates the file at the offset.
Write(s, n) ==
  /\ Ready /\ sft[s].file # NoFile /\ sft[s].writes
  /\ sft[s].offset + n <= MaxOffset
  /\ LET c == [FromSft(s) EXCEPT !.clean = FALSE, !.left = n,
                                 !.op = IF n = 0 THEN "cut" ELSE "write"]
     IN Continue([c EXCEPT !.pc = IF c.offset > c.size THEN "extend" ELSE "head"])
  /\ UNCHANGED <<fat, dir, hint, nfree, failed, lost>>

Read(s, n) ==
  /\ Ready /\ sft[s].file # NoFile
  /\ Continue([FromSft(s) EXCEPT !.pc = "head", !.op = "read", !.left = n])
  /\ UNCHANGED <<fat, dir, hint, nfree, failed, lost>>

\* dos_extend
Extended ==
  /\ call.pc = "extend" /\ There
  /\ LET c == [call EXCEPT !.pc = "head", !.size = call.offset]
     IN call' = c /\ sft' = Merged(sft, c)
  /\ UNCHANGED <<fat, dir, hint, nfree, failed, lost>>

\* The test at the head of the loop: all done, or the end of the file.
Finish ==
  /\ call.pc = "head" /\ call.op # "cut"
  /\ \/ call.left = 0
     \/ call.op = "read" /\ call.offset >= call.size
  /\ Return(call)
  /\ UNCHANGED <<fat, dir, hint, nfree, failed, lost>>

Position ==
  /\ call.pc = "head" /\ call.op # "cut"
  /\ call.left # 0 /\ (call.op = "read" => call.offset < call.size)
  /\ Continue([call EXCEPT !.pc = "map"])
  /\ UNCHANGED <<fat, dir, hint, nfree, failed, lost>>

\* A transfer begins at from, in the cluster st, and takes all sectors that
\* follow each other on the disk.
Wanted(c) ==
  c.from + IF c.op = "read" THEN Smaller(c.left, c.size - c.from) ELSE c.left

\* Mutant: whole clusters are taken.
TakenWhole(c) ==
  LET end == ClusterSectors * (Cl(c.offset) + 1)
  IN [c EXCEPT !.offset = end, !.pc = IF end < Wanted(c) THEN "run" ELSE "data"]

Taken(c) ==
  LET end == Smaller(ClusterSectors * (Cl(c.offset) + 1), Wanted(c))
  IN [c EXCEPT !.offset = end, !.pc = IF end < Wanted(c) THEN "run" ELSE "data"]

FirstCluster ==
  /\ call.pc = "map" /\ There
  /\ call' = Taken([call EXCEPT !.from = call.offset, !.st = call.cluster])
  /\ sft' = IF call.op = "write" THEN Merged(sft, call) ELSE sft
  /\ UNCHANGED <<fat, dir, hint, nfree, failed, lost>>

AnotherCluster ==
  /\ call.pc = "run" /\ There
  /\ Continue(IF call.cluster = call.st + call.rel - Cl(call.from)
              THEN Taken(call) ELSE [call EXCEPT !.pc = "data"])
  /\ UNCHANGED <<fat, dir, hint, nfree, failed, lost>>

Transfer ==
  /\ call.pc = "data"
  /\ LET c == [call EXCEPT !.pc = "head", !.left = @ - (call.offset - call.from),
                 !.size = IF call.op = "write" /\ call.offset > @ THEN call.offset ELSE @]
     IN /\ call' = [c EXCEPT !.from = 0, !.st = FREE]
        /\ sft' = IF call.op = "write" THEN Merged(sft, c) ELSE sft
  /\ UNCHANGED <<fat, dir, hint, nfree, failed, lost>>

TransferFails ==
  /\ call.pc = "data" /\ Faulty
  /\ Return([call EXCEPT !.offset = call.from])
  /\ UNCHANGED <<fat, dir, hint, nfree, failed, lost>>

\* shrink_file looks for the last cluster that is kept, or for the first one
\* of a file that becomes empty.
Shrink ==
  /\ call.pc = "head" /\ call.op = "cut"
  /\ LET c == [call EXCEPT !.size = call.offset]
     IN IF c.offset = 0 /\ c.cluster = FREE THEN Return(c)
        ELSE Continue([c EXCEPT !.pc = "cut", !.from = c.offset,
                                !.offset = IF @ = 0 THEN 0 ELSE @ - 1])
  /\ UNCHANGED <<fat, dir, hint, nfree, failed, lost>>

\* The chain is cut behind that cluster, or at it.
Cut ==
  /\ call.pc = "cut" /\ There
  /\ next_cluster(call.cluster) > 1
  /\ LET st == call.cluster
         next == next_cluster(st)
         back == [call EXCEPT !.offset = call.from, !.from = 0]
     IN \/ /\ call.size = 0
           /\ fat' = [fat EXCEPT ![st] = FREE]
           /\ nfree' = Counted(IF fat[st] = FREE THEN 0 ELSE 1)
           /\ Continue([back EXCEPT !.pc = "wipe", !.st = next,
                                    !.cluster = FREE, !.start = FREE])
        \/ /\ call.size # 0 /\ next # LAST
           /\ fat' = [fat EXCEPT ![st] = LAST]
           /\ Continue([back EXCEPT !.pc = "wipe", !.st = next])
           /\ UNCHANGED nfree
        \/ /\ call.size # 0 /\ next = LAST
           /\ Return(back)
           /\ UNCHANGED <<fat, nfree>>
  /\ UNCHANGED <<dir, hint, failed, lost>>

CutFails ==
  /\ call.pc = "cut" /\ There
  /\ \/ next_cluster(call.cluster) <= 1 /\ UNCHANGED failed
     \/ Fault
  /\ Drop
  /\ UNCHANGED <<fat, dir, hint, nfree, lost>>

-----------------------------------------------------------------------------
(* Errors that cost more than the access: a buffer, the flush that ends a  *)
(* call, or the entry it was to write.                                     *)

Lose == Faulty /\ (lost => LoseAgain) /\ failed' = TRUE /\ lost' = TRUE

\* The block goes back to what is on the medium, or is garbage.  A call may be
\* on its way: the access that lost the buffer is the one that fails next, or
\* an ignored one.
BufferLost ==
  /\ Lose
  /\ \/ fat' \in Tables /\ UNCHANGED dir
     \/ dir' \in Directories /\ UNCHANGED fat
  /\ UNCHANGED <<sft, hint, nfree, call>>

\* dir_write_update returns FALSE: no block for the entry, or it is in its
\* buffer and the flush behind it fails.
NotWritten(f, entry) == Lose /\ dir' \in {dir, [dir EXCEPT ![f] = entry]}

\* dos_open frees the SFT.
CreateUnwritten(s, f) ==
  /\ Ready /\ sft[s] = Closed /\ ~dir[f].used /\ Admitted(f, TRUE)
  /\ NotWritten(f, [NoEntry EXCEPT !.used = TRUE])
  /\ UNCHANGED <<fat, sft, hint, nfree, call>>

\* dos_open and delete_dir_entry leave with an error behind wipe_out.
\* shrink_file does if flush_buffers fails, and rwblock then leaves before
\* fnode_to_sft: the SFT keeps the start and the size of before.
WipeUnwritten ==
  /\ call.pc = "wipe"
  /\ \/ call.op = "create" /\ NotWritten(call.file, [NoEntry EXCEPT !.used = TRUE])
     \/ call.op = "delete" /\ NotWritten(call.file, NoEntry)
     \/ call.op = "cut" /\ Lose /\ UNCHANGED dir
  /\ Drop
  /\ UNCHANGED <<fat, hint, nfree>>

\* DosCommit and dos_close have merged by then, and DosCloseSft leaves the file
\* open.  A clean file is only flushed.
UpdateUnwritten(s) ==
  /\ Ready /\ sft[s].file # NoFile
  /\ IF sft[s].clean THEN Lose /\ UNCHANGED <<dir, sft>>
     ELSE /\ NotWritten(sft[s].file,
                        [used |-> TRUE, start |-> sft[s].start, size |-> sft[s].size])
          /\ sft' = Merged(sft, FromSft(s))
  /\ UNCHANGED <<fat, hint, nfree, call>>

-----------------------------------------------------------------------------
Program ==
  \/ \E s \in Sfts, f \in Files : Create(s, f) \/ Truncate(s, f)
  \/ \E s \in Sfts, f \in Files, w \in Modes : Open(s, f, w)
  \/ \E f \in Files : Delete(f)
  \/ \E s \in Sfts : Commit(s) \/ Close(s)
  \/ \E s \in Sfts, offset \in SeekTo : Seek(s, offset)
  \/ \E s \in Sfts, n \in ReadCounts : Read(s, n)
  \/ \E s \in Sfts, n \in WriteCounts : Write(s, n)
  \/ DosFree

Kernel ==
  \/ WipeCluster \/ WipeEnds
  \/ MapRestart \/ MapFollow \/ MapFails \/ Extend \/ ExtendFails
  \/ Extended \/ Finish \/ Position \/ FirstCluster \/ AnotherCluster
  \/ Transfer \/ TransferFails \/ Shrink \/ Cut \/ CutFails

Losses ==
  \/ BufferLost \/ WipeUnwritten
  \/ \E s \in Sfts, f \in Files : CreateUnwritten(s, f)
  \/ \E s \in Sfts : UpdateUnwritten(s)

Next == Program \/ Kernel \/ Losses

Spec == Init /\ [][Next]_vars

\* A call does not wait for anything; nothing forces an error.
FairSpec == Spec /\ WF_vars(Kernel)

-----------------------------------------------------------------------------
(* Properties.                                                             *)

Pcs == {"idle", "head", "extend", "map", "run", "data", "cut", "wipe"}
Ops == {"none", "read", "write", "cut", "create", "delete"}
Pointers == {FREE} \cup Clusters
Offsets == 0 .. MaxOffset

\* Every variable has its type, also after a loss: no cursor lies outside of
\* the volume and the count of free clusters stays within it.
TypeOK ==
  /\ fat \in [Clusters -> 0 .. LAST]
  /\ dir \in [Files -> [used : BOOLEAN, start : Pointers, size : Offsets]]
  /\ sft \in [Sfts -> [file : Files \cup {NoFile}, writes : BOOLEAN, clean : BOOLEAN,
                       start : Pointers, size : Offsets, offset : Offsets,
                       cluster : Pointers, rel : Nat]]
  /\ hint \in Pointers
  /\ nfree \in 0 .. UNKNCLSTFREE
  /\ failed \in BOOLEAN /\ lost \in BOOLEAN
  /\ call \in [pc : Pcs, op : Ops, s : {NoSft} \cup Sfts, file : Files \cup {NoFile},
               clean : BOOLEAN, start : Pointers, size : Offsets, offset : Offsets,
               cluster : Pointers, rel : Nat, left : Nat,
               from : Offsets, st : Pointers \cup {LAST}]

\* Where the file f begins and how large it is: the call on its way knows
\* best, then the instance that writes, then the directory.
Current(f) ==
  CASE call.file = f /\ call.op \in {"create", "delete"} -> NoEntry
    [] call.file = f /\ call.op \in {"write", "cut"} -> call
    [] OTHER -> Collected(f)
Head(f) == Current(f).start

\* The rest of the chain that the call is about to wipe out.
Rest == IF call.pc = "wipe" THEN call.st ELSE FREE

\* No cluster is linked twice: neither in two places of the FAT, nor by two
\* files, nor by a file and the FAT.  An access that fails in the middle of a
\* call does no harm to that; a buffer that is lost, a directory entry that is
\* not written or a flush that fails may.
NotCrossLinked ==
  lost \/ /\ \A c, d \in Clusters : fat[c] = fat[d] /\ fat[c] \in Clusters => c = d
          /\ \A f, g \in Files : Head(f) = Head(g) /\ Head(f) \in Clusters => f = g
          /\ \A f \in Files, c \in Clusters : Head(f) = fat[c] => Head(f) \notin Clusters
          /\ Rest \in Clusters => /\ \A f \in Files : Head(f) # Rest
                                  /\ \A c \in Clusters : fat[c] # Rest

\* No file and no chain runs into a cluster that is free, under the same
\* condition: after a flush that fails an SFT may begin with a free cluster.
ChainsAllocated ==
  lost \/ /\ \A c \in Clusters : fat[c] \notin Free
          /\ \A f \in Files : Head(f) \notin Free
          /\ Rest \notin Free

\* Unless an access to the FAT has failed, every cluster that is not free
\* belongs to a chain.
NothingLost ==
  failed \/ \A c \in Clusters \ Free :
              \/ \E d \in Clusters : fat[d] = c
              \/ \E f \in Files : Head(f) = c
              \/ Rest = c

\* Unless an access has failed, a count that is known is right.
FreeCountExact == failed \/ nfree = UNKNCLSTFREE \/ nfree = Cardinality(Free)

\* The n-th cluster of the chain that begins with start.
Chain(start) ==
  LET nth[n \in 0 .. MaxCluster] ==
        IF n = 0 THEN start
        ELSE IF nth[n - 1] \in Clusters THEN fat[nth[n - 1]] ELSE FREE
  IN nth
Clusters_of(f) == {Chain(Head(f))[n] : n \in 0 .. MaxCluster} \cap Clusters

\* A file has a cluster for each of its sectors, unless a buffer, an entry or a
\* flush was lost.
SizeCovered ==
  lost \/ \A f \in Files :
    Current(f).size # 0 => Chain(Head(f))[Cl(Current(f).size - 1)] \in Clusters

\* The cursor of the instance that writes is the cluster of its chain that it
\* says it is, under the same condition.
CursorInChain ==
  lost \/ \A s \in Sfts :
    sft[s].writes /\ call.s # s =>
      IF sft[s].start = FREE THEN sft[s].cluster = FREE
      ELSE Chain(sft[s].start)[sft[s].rel] = sft[s].cluster

\* A call on a file changes the chain of no other one, under the same condition.
OthersUntouched ==
  [][fat' # fat /\ ~lost' =>
       \A f \in Files \ {call.file} : Clusters_of(f)' = Clusters_of(f)]_vars

\* Every call ends, also on tables that came back from a loss.
CallsEnd == call.pc # "idle" ~> call.pc = "idle"

\* "If more than one SFT has a file open, and a write occurs, this function
\* must be called to propagate the results of that write to the other f_nodes
\* which have that file open."
InstancesAgree ==
  Ready => \A s, t \in Sfts :
             sft[s].file = sft[t].file => sft[s].start = sft[t].start /\ sft[s].size = sft[t].size
=============================================================================
