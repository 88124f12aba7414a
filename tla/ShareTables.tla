---------------------------- MODULE ShareTables ----------------------------
(***************************************************************************)
(* The resident tables of SHARE (src/share/src/share.c): one entry per     *)
(* instance of an open file, one entry per locked region, and the          *)
(* operations that DOS performs on them through INT 2F/10A0..10A6.         *)
(*                                                                         *)
(* The module has no next-state relation of its own.  Share.tla drives the *)
(* operations with an arbitrary client, DosFiles.tla with the kernel.      *)
(***************************************************************************)
EXTENDS Integers, FiniteSets, FiniteSetsExt

CONSTANTS
  Names,          \* fully qualified file names
  NoName,         \* the empty string: filename[0] = '\0'
  Psps,           \* PSP segments of processes
  NoPsp,          \* the null PSP, which matches every owner of a lock
  FileTableSize,  \* file_table_size
  LockTableSize,  \* lock_table_size
  MaxOff          \* 0xffffffff, the largest 32-bit file offset

ASSUME SharingNames == NoName \notin Names /\ NoPsp \notin Psps
ASSUME SharingSizes ==
  FileTableSize \in Nat /\ LockTableSize \in Nat /\ MaxOff \in Nat

VARIABLES
  file_table,       \* entry number -> instance of an open file
  file_table_free,  \* unused entries, as the handler counts them
  lock_table,       \* lock number -> locked region
  lock_table_free,  \* unused locks, as the handler counts them
  lockViolated      \* history: an access check has raised a lock violation

tables == <<file_table, file_table_free, lock_table, lock_table_free,
            lockViolated>>

FileNo   == 0 .. FileTableSize - 1
NoFileNo == -1  \* sft_shroff of an SFT without an entry
LockNo   == 0 .. LockTableSize - 1
Offset   == 0 .. MaxOff

SHARE_COMPAT     == 0
SHARE_DENY_ALL   == 1
SHARE_DENY_WRITE == 2
SHARE_DENY_READ  == 3
SHARE_DENY_NONE  == 4
OPEN_READ_ONLY   == 0
OPEN_WRITE_ONLY  == 1
OPEN_READ_WRITE  == 2

FileEntry ==
  [filename : Names \cup {NoName}, psp : Psps \cup {NoPsp},
   openmode : 0 .. 2, sharemode : 0 .. 4,
   first_openmode : 0 .. 2, first_sharemode : 0 .. 4]

LockEntry ==
  [used : {0, 1}, start : Offset, end : Offset,
   fileno : FileNo \cup {0}, psp : Psps \cup {NoPsp}]

\* The fields of an unused entry are never read: they are cleared here.
NoFile ==
  [filename |-> NoName, psp |-> NoPsp, openmode |-> 0, sharemode |-> 0,
   first_openmode |-> 0, first_sharemode |-> 0]

NoLock ==
  [used |-> 0, start |-> 0, end |-> 0, fileno |-> 0, psp |-> NoPsp]

TablesInit ==
  /\ file_table = [i \in FileNo |-> NoFile]
  /\ file_table_free = FileTableSize
  /\ lock_table = [i \in LockNo |-> NoLock]
  /\ lock_table_free = LockTableSize
  /\ lockViolated = FALSE

FreeFiles       == {i \in FileNo : file_table[i].filename = NoName}
InstancesOf(nm) == {i \in FileNo : file_table[i].filename = nm}
FreeLocks       == {i \in LockNo : lock_table[i].used = 0}
LocksOf(fileno) ==
  {i \in LockNo : lock_table[i].used = 1 /\ lock_table[i].fileno = fileno}

-----------------------------------------------------------------------------
(* Opening and closing.                                                    *)

\* An open mode or share mode out of range becomes read-only, compatibility.
OpenMode(m)  == IF m \in 0 .. 2 THEN m ELSE OPEN_READ_ONLY
ShareMode(m) == IF m \in 0 .. 4 THEN m ELSE SHARE_COMPAT

\* Pairs <<first, current>> of share modes whose action in open_actions is 0.
ProceedingModes ==
  {<<SHARE_COMPAT, SHARE_COMPAT>>, <<SHARE_DENY_NONE, SHARE_DENY_NONE>>}

\* <<first_sharemode, first_openmode, current_sharemode, current_openmode>> of
\* open_exceptions.  Their actions are 0, 3 and 4, and all three proceed.
OpenExceptions ==
  {<<0, 0, 2, 0>>, <<0, 0, 4, 0>>,
   <<2, 0, 0, 0>>, <<2, 0, 2, 0>>, <<2, 0, 4, 0>>,
   <<3, 0, 2, 1>>, <<3, 0, 4, 1>>, <<3, 1, 4, 1>>, <<3, 2, 4, 1>>,
   <<4, 0, 0, 0>>, <<4, 0, 0, 1>>, <<4, 0, 0, 2>>,
   <<4, 0, 2, 0>>, <<4, 0, 2, 1>>, <<4, 0, 2, 2>>,
   <<4, 1, 3, 0>>, <<4, 1, 3, 1>>, <<4, 1, 3, 2>>}

\* Mutant: the open mode of the current open is not compared.
ProceedsAnyOpenmode(fs, fo, cs, co) ==
  \/ \E x \in OpenExceptions : <<x[1], x[2], x[3]>> = <<fs, fo, cs>>
  \/ <<fs, cs>> \in ProceedingModes

Proceeds(fs, fo, cs, co) ==
  <<fs, fo, cs, co>> \in OpenExceptions \/ <<fs, cs>> \in ProceedingModes

\* Mutant: the first modes are the own modes of the lowest other entry.
OpenEntryOwnModes(nm, psp, om, sm) ==
  LET first == Min(InstancesOf(nm))
      alone == InstancesOf(nm) = {}
  IN  [filename |-> nm, psp |-> psp,
       openmode |-> OpenMode(om), sharemode |-> ShareMode(sm),
       first_openmode |->
         IF alone THEN OpenMode(om) ELSE file_table[first].openmode,
       first_sharemode |->
         IF alone THEN ShareMode(sm) ELSE file_table[first].sharemode]

\* The entry that open_check fills in: do_open_check takes the first modes
\* from the lowest other entry with the same name, else from the entry itself.
OpenEntry(nm, psp, om, sm) ==
  LET first == Min(InstancesOf(nm))
      alone == InstancesOf(nm) = {}
  IN  [filename |-> nm, psp |-> psp,
       openmode |-> OpenMode(om), sharemode |-> ShareMode(sm),
       first_openmode |->
         IF alone THEN OpenMode(om) ELSE file_table[first].first_openmode,
       first_sharemode |->
         IF alone THEN ShareMode(sm) ELSE file_table[first].first_sharemode]

\* The open of this entry proceeds: nobody has the file open, or its modes
\* go with those of the first open.
Admits(e) ==
  \/ InstancesOf(e.filename) = {}
  \/ Proceeds(e.first_sharemode, e.first_openmode, e.sharemode, e.openmode)

\* open_check returns an entry number (and not -1, -5 or -0x20).
OpenAllowed(nm, psp, om, sm) ==
  FreeFiles # {} /\ Admits(OpenEntry(nm, psp, om, sm))

OpenSlot == Min(FreeFiles)

\* open_check when it is allowed; when it is refused no table changes.
OpenCheck(nm, psp, om, sm) ==
  /\ OpenAllowed(nm, psp, om, sm)
  /\ file_table' = [file_table EXCEPT ![OpenSlot] = OpenEntry(nm, psp, om, sm)]
  /\ file_table_free' = file_table_free - 1
  /\ UNCHANGED <<lock_table, lock_table_free, lockViolated>>

\* Mutant: the locks are freed and not counted.
RemoveAllLocksUncounted(fileno) ==
  /\ lock_table' =
       [i \in LockNo |-> IF i \in LocksOf(fileno) THEN NoLock ELSE lock_table[i]]
  /\ UNCHANGED lock_table_free

\* remove_all_locks
RemoveAllLocks(fileno) ==
  /\ lock_table' =
       [i \in LockNo |-> IF i \in LocksOf(fileno) THEN NoLock ELSE lock_table[i]]
  /\ lock_table_free' = lock_table_free + Cardinality(LocksOf(fileno))

\* Mutant: the entry is freed and not counted.
FreeFileTableEntryUncounted(fileno) ==
  /\ file_table' = [file_table EXCEPT ![fileno] = NoFile]
  /\ UNCHANGED file_table_free

\* free_file_table_entry
FreeFileTableEntry(fileno) ==
  /\ file_table' = [file_table EXCEPT ![fileno] = NoFile]
  /\ file_table_free' = file_table_free + 1

\* Mutant: the locks stay.
CloseFileKeepingLocks(fileno) ==
  /\ FreeFileTableEntry(fileno)
  /\ UNCHANGED <<lock_table, lock_table_free, lockViolated>>

CloseFile(fileno) ==
  /\ RemoveAllLocks(fileno)
  /\ FreeFileTableEntry(fileno)
  /\ UNCHANGED lockViolated

\* Mutant: the entry is not given back.
OpenAndForget(nm, psp, om, sm) == OpenCheck(nm, psp, om, sm)

\* An open_check that proceeds, followed at once by close_file of its entry.
OpenAndClose(nm, psp, om, sm) ==
  /\ OpenAllowed(nm, psp, om, sm)
  /\ RemoveAllLocks(OpenSlot)
  /\ UNCHANGED <<file_table, file_table_free, lockViolated>>

-----------------------------------------------------------------------------
(* Locking and access.                                                     *)

\* endofs, with the test for wrap-around of the 32-bit sum.
EndOfs(ofs, len) == IF ofs + len > MaxOff THEN MaxOff ELSE ofs + len

\* Mutant: a request that ends where a lock ends does not touch it.
TouchesBeforeEnd(ofs, end, lock) ==
  \/ ofs >= lock.start /\ ofs < lock.end
  \/ end > lock.start /\ end < lock.end

\* The comparison of a request with a lock that is in the table.
Touches(ofs, end, lock) ==
  \/ ofs >= lock.start /\ ofs < lock.end
  \/ end > lock.start /\ end <= lock.end

\* access_check finds a lock of another owner (of any owner if psp is null).
Conflicts(psp, fileno, ofs, len) ==
  /\ EndOfs(ofs, len) > ofs
  /\ \E i \in LockNo :
       /\ lock_table[i].used = 1
       /\ psp = NoPsp \/ lock_table[i].psp # psp
       /\ file_table[fileno].filename
            = file_table[lock_table[i].fileno].filename
       /\ Touches(ofs, EndOfs(ofs, len), lock_table[i])

\* access_check with a critical error allowed, as DosRWSft calls it, when it
\* fails: the entry of the file that was accessed is freed before INT 24.
AccessViolation(psp, fileno, ofs, len) ==
  /\ Conflicts(psp, fileno, ofs, len)
  /\ FreeFileTableEntry(fileno)
  /\ lockViolated' = TRUE
  /\ UNCHANGED <<lock_table, lock_table_free>>

\* lock_unlock, lock: recorded in the first free lock.  A request of length
\* zero (after the wrap-around test) succeeds and records nothing.
LockRegion(psp, fileno, ofs, len) ==
  /\ EndOfs(ofs, len) > ofs
  /\ ~Conflicts(NoPsp, fileno, ofs, len)
  /\ FreeLocks # {}
  /\ lock_table' =
       [lock_table EXCEPT ![Min(FreeLocks)] =
          [used |-> 1, start |-> ofs, end |-> EndOfs(ofs, len),
           fileno |-> fileno, psp |-> psp]]
  /\ lock_table_free' = lock_table_free - 1
  /\ UNCHANGED <<file_table, file_table_free, lockViolated>>

\* The locks that an unlock request names exactly.
LocksNamed(psp, fileno, ofs, len) ==
  {i \in LocksOf(fileno) :
     /\ lock_table[i].psp = psp
     /\ lock_table[i].start = ofs
     /\ lock_table[i].end = EndOfs(ofs, len)}

\* lock_unlock, unlock: frees the first lock that matches.
UnlockRegion(psp, fileno, ofs, len) ==
  /\ EndOfs(ofs, len) > ofs
  /\ LocksNamed(psp, fileno, ofs, len) # {}
  /\ lock_table' =
       [lock_table EXCEPT ![Min(LocksNamed(psp, fileno, ofs, len))] = NoLock]
  /\ lock_table_free' = lock_table_free + 1
  /\ UNCHANGED <<file_table, file_table_free, lockViolated>>

\* is_file_open
IsFileOpen(nm) == InstancesOf(nm) # {}

TablesTypeOK ==
  /\ file_table \in [FileNo -> FileEntry]
  /\ file_table_free \in Nat
  /\ lock_table \in [LockNo -> LockEntry]
  /\ lock_table_free \in Nat
  /\ lockViolated \in BOOLEAN
=============================================================================
