------------------------------- MODULE Share -------------------------------
(***************************************************************************)
(* SHARE with an arbitrary client.  The client is the kernel: each of its  *)
(* system file table entries holds at most one file_table entry number, in *)
(* sft_shroff, and every call passes a number that some sft_shroff holds.  *)
(* DosFiles.tla shows that the kernel is such a client.                    *)
(***************************************************************************)
EXTENDS ShareTables

CONSTANTS
  Sfts,          \* system file table entries
  OpenRequests,  \* pairs <<open mode, share mode>> that programs ask for
  Regions,       \* pairs <<offset, length>> that programs lock and access
  MaxDrift       \* bound: how far file_table_free may exceed the table size

ASSUME ClientConstants ==
  /\ Regions \subseteq Offset \X Offset
  /\ MaxDrift \in Nat

VARIABLE shroff  \* SFT -> entry number that DOS got from open_check

vars == <<tables, shroff>>

Holds(s) == shroff[s] >= 0

Init ==
  /\ TablesInit
  /\ shroff = [s \in Sfts |-> NoFileNo]

\* DosOpenSft: the entry number goes to the sft_shroff of a free SFT.
Open(s, nm, psp, req) ==
  /\ ~Holds(s)
  /\ OpenCheck(nm, psp, req[1], req[2])
  /\ shroff' = [shroff EXCEPT ![s] = OpenSlot]

\* DosOpenSft when dos_open fails, DosSetFattr: open_check, then close_file.
TryOpen(nm, psp, req) ==
  /\ OpenAndClose(nm, psp, req[1], req[2])
  /\ UNCHANGED shroff

\* DosCloseSft: the last reference to the SFT goes.
Close(s) ==
  /\ Holds(s)
  /\ CloseFile(shroff[s])
  /\ shroff' = [shroff EXCEPT ![s] = NoFileNo]

\* DosLockUnlock.
Lock(s, psp, r) ==
  /\ Holds(s)
  /\ LockRegion(psp, shroff[s], r[1], r[2])
  /\ UNCHANGED shroff

Unlock(s, psp, r) ==
  /\ Holds(s)
  /\ UnlockRegion(psp, shroff[s], r[1], r[2])
  /\ UNCHANGED shroff

\* DosRWSft of a locked region.  sft_shroff keeps the number of the freed
\* entry.  An access that is allowed changes nothing here.
AccessLocked(s, psp, r) ==
  /\ Holds(s)
  /\ file_table_free < FileTableSize + MaxDrift
  /\ AccessViolation(psp, shroff[s], r[1], r[2])
  /\ UNCHANGED shroff

Next ==
  \/ \E nm \in Names, psp \in Psps, req \in OpenRequests :
       \/ \E s \in Sfts : Open(s, nm, psp, req)
       \/ TryOpen(nm, psp, req)
  \/ \E s \in Sfts : Close(s)
  \/ \E s \in Sfts, psp \in Psps, r \in Regions :
       \/ Lock(s, psp, r)
       \/ Unlock(s, psp, r)
       \/ AccessLocked(s, psp, r)

Spec == Init /\ [][Next]_vars

-----------------------------------------------------------------------------
(* Properties.                                                             *)

\* The tables and the client's entry numbers have their types.
TypeOK ==
  /\ TablesTypeOK
  /\ shroff \in [Sfts -> FileNo \cup {NoFileNo}]

InUse(i)      == file_table[i].filename # NoName
SameFile(i, j) ==
  i # j /\ InUse(i) /\ file_table[i].filename = file_table[j].filename
FirstModes(i) ==
  <<file_table[i].first_sharemode, file_table[i].first_openmode>>
OwnModes(i)   == <<file_table[i].sharemode, file_table[i].openmode>>

\* All instances of a file carry the same first modes, however the file was
\* opened and closed in between, its first instance included.  It is why
\* do_open_check may compare with the lowest entry only and then stop.
FirstModesAgree ==
  \A i, j \in FileNo : SameFile(i, j) => FirstModes(i) = FirstModes(j)

\* What a share mode <<share, open>> denies to another open of the file.
Denies(mode, other) ==
  \/ mode[1] = SHARE_DENY_ALL
  \/ mode[1] = SHARE_DENY_WRITE /\ other[2] # OPEN_READ_ONLY
  \/ mode[1] = SHARE_DENY_READ  /\ other[2] # OPEN_WRITE_ONLY

\* While an instance with the modes of the first open is open, no other
\* instance does what it denies, and none denies what it does; in particular
\* a file opened with deny-all is open only once.
FirstOpenHonoured ==
  \A i, j \in FileNo :
    SameFile(i, j) /\ OwnModes(i) = FirstModes(i)
      => ~Denies(OwnModes(i), OwnModes(j)) /\ ~Denies(OwnModes(j), OwnModes(i))

\* Until an access check raises a lock violation, each entry in use is held by
\* exactly one SFT and each entry number an SFT holds is in use.
EntriesHeld ==
  ~lockViolated =>
    /\ \A s \in Sfts : Holds(s) => InUse(shroff[s])
    /\ \A s, t \in Sfts : s # t /\ Holds(s) => shroff[s] # shroff[t]
    /\ \A i \in FileNo : InUse(i) => \E s \in Sfts : shroff[s] = i

\* Until then no lock outlives the instance of the file it was taken through,
\* so that no lock passes to another file when the entry is used again.
LocksOnOpenFiles ==
  ~lockViolated =>
    \A k \in LockNo : lock_table[k].used = 1 => InUse(lock_table[k].fileno)

LockOn(k, l) ==
  /\ k # l /\ lock_table[k].used = 1 /\ lock_table[l].used = 1
  /\ file_table[lock_table[k].fileno].filename
       = file_table[lock_table[l].fileno].filename

\* Until then two locks of one file are disjoint, or one of them reaches
\* beyond the other on both sides: the overlap that access_check misses is
\* the only one there is.
LocksDisjointOrNested ==
  ~lockViolated =>
    \A k, l \in LockNo :
      LockOn(k, l) =>
        LET a == lock_table[k]
            b == lock_table[l]
        IN  \/ a.end <= b.start \/ b.end <= a.start
            \/ a.start < b.start /\ b.end < a.end
            \/ b.start < a.start /\ a.end < b.end

\* The counters that the handler keeps are the numbers of unused slots: that
\* of the locks always, that of the entries until a lock violation.
CountersExact ==
  /\ lock_table_free = Cardinality(FreeLocks)
  /\ ~lockViolated => file_table_free = Cardinality(FreeFiles)

\* "One of these exists for each instance of an open file": the entry of a
\* file that DOS has open stays in use until DOS closes it.
EntryPerOpenFile == \A s \in Sfts : Holds(s) => InUse(shroff[s])
=============================================================================
