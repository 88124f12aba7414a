------------------------- MODULE ShareTablesProofs -------------------------
(***************************************************************************)
(* Facts about the operations of ShareTables that the proofs about its     *)
(* clients rest on: what each operation does to the sets of free slots,    *)
(* and that it keeps the tables and the counters consistent.               *)
(***************************************************************************)
EXTENDS ShareTables, FiniteSetTheorems, WellFoundedInduction, TLAPS

\* The lowest element of a set of slot numbers exists: the loops of share.c
\* that look for the first slot with a property find it.
LEMMA MinOfSlots ==
  ASSUME NEW S, S \subseteq Nat, S # {}
  PROVE  Min(S) \in S
<1> DEFINE R == {ss \in Nat \X Nat : ss[1] < ss[2]}
<1>1. OpToRel(<, Nat) = R
  BY DEF OpToRel
<1>2. IsWellFoundedOn(R, Nat)
  BY <1>1, NatLessThanWellFounded
<1>3. \A x, y \in Nat : <<x, y>> \in R <=> x < y
  OBVIOUS
<1> HIDE DEF R
<1>4. PICK x \in S : \A y \in S : ~(<<y, x>> \in R)
  BY <1>2, WFMin
<1>5. \A y \in S : x <= y
  <2> TAKE y \in S
  <2>1. x \in Nat /\ y \in Nat /\ ~(y < x)
    BY <1>3, <1>4
  <2> QED
    BY <2>1
<1> QED
  BY <1>5 DEF Min

\* The slots that the operations choose: each is one that its loop looks for.
LEMMA ChosenSlots ==
  /\ FreeFiles # {} => OpenSlot \in FreeFiles
  /\ FreeLocks # {} => Min(FreeLocks) \in FreeLocks
  /\ \A nm : InstancesOf(nm) # {} => Min(InstancesOf(nm)) \in InstancesOf(nm)
  /\ \A psp, fileno, ofs, len :
       LocksNamed(psp, fileno, ofs, len) # {}
         => Min(LocksNamed(psp, fileno, ofs, len))
              \in LocksNamed(psp, fileno, ofs, len)
<1>1. FileNo \subseteq Nat /\ LockNo \subseteq Nat
  BY SharingSizes DEF FileNo, LockNo
<1>2. FreeFiles # {} => OpenSlot \in FreeFiles
  BY <1>1, MinOfSlots DEF FreeFiles, OpenSlot
<1>3. FreeLocks # {} => Min(FreeLocks) \in FreeLocks
  BY <1>1, MinOfSlots DEF FreeLocks
<1>4. ASSUME NEW nm, InstancesOf(nm) # {}
      PROVE  Min(InstancesOf(nm)) \in InstancesOf(nm)
  BY <1>1, <1>4, MinOfSlots DEF InstancesOf
<1>5. ASSUME NEW psp, NEW fileno, NEW ofs, NEW len,
             LocksNamed(psp, fileno, ofs, len) # {}
      PROVE  Min(LocksNamed(psp, fileno, ofs, len))
               \in LocksNamed(psp, fileno, ofs, len)
  <2>1. LocksNamed(psp, fileno, ofs, len) \subseteq Nat
    BY <1>1 DEF LocksNamed, LocksOf
  <2> QED
    BY <1>5, <2>1, MinOfSlots
<1> QED
  BY <1>2, <1>3, <1>4, <1>5

\* The sets of free slots and of the locks of an entry are finite.
LEMMA FiniteSlots ==
  /\ IsFiniteSet(FreeFiles)
  /\ IsFiniteSet(FreeLocks)
  /\ \A fileno : IsFiniteSet(LocksOf(fileno))
<1>1. IsFiniteSet(FileNo) /\ IsFiniteSet(LockNo)
  BY SharingSizes, FS_Interval DEF FileNo, LockNo
<1>2. FreeFiles \subseteq FileNo /\ FreeLocks \subseteq LockNo
  BY DEF FreeFiles, FreeLocks
<1>3. \A fileno : LocksOf(fileno) \subseteq LockNo
  BY DEF LocksOf
<1> QED
  BY <1>1, <1>2, <1>3, FS_Subset

\* open_check fills in an entry of the file table's type.
LEMMA OpenEntryType ==
  ASSUME TablesTypeOK, NEW nm \in Names, NEW psp \in Psps, NEW om, NEW sm
  PROVE  OpenEntry(nm, psp, om, sm) \in FileEntry
<1>1. OpenMode(om) \in 0 .. 2 /\ ShareMode(sm) \in 0 .. 4
  BY DEF OpenMode, ShareMode, OPEN_READ_ONLY, SHARE_COMPAT
<1>2. CASE InstancesOf(nm) = {}
  BY <1>1, <1>2 DEF OpenEntry, FileEntry
<1>3. CASE InstancesOf(nm) # {}
  <2>1. Min(InstancesOf(nm)) \in FileNo
    BY <1>3, ChosenSlots DEF InstancesOf
  <2>2. file_table[Min(InstancesOf(nm))] \in FileEntry
    BY <2>1 DEF TablesTypeOK
  <2> QED
    BY <1>1, <1>3, <2>2 DEF OpenEntry, FileEntry
<1> QED
  BY <1>2, <1>3

-----------------------------------------------------------------------------
\* The free counters: that of the locks is exact; that of the entries is exact
\* until a lock violation, and never below the number of unused entries.
SlotCounts ==
  /\ lock_table_free = Cardinality(FreeLocks)
  /\ file_table_free >= Cardinality(FreeFiles)
  /\ ~lockViolated => file_table_free = Cardinality(FreeFiles)

TablesInv == TablesTypeOK /\ SlotCounts

\* The number of unused slots is a natural number.
LEMMA SlotNumbers ==
  /\ Cardinality(FreeFiles) \in Nat
  /\ Cardinality(FreeLocks) \in Nat
  /\ \A fileno : Cardinality(LocksOf(fileno)) \in Nat
BY FiniteSlots, FS_CardinalityType

\* The tables start empty and the counters start at the table sizes.
LEMMA TablesInitInv == TablesInit => TablesInv
<1> SUFFICES ASSUME TablesInit PROVE TablesInv
  OBVIOUS
<1>1. NoFile \in FileEntry /\ NoLock \in LockEntry
  BY SharingSizes DEF NoFile, NoLock, FileEntry, LockEntry, Offset
<1>2. TablesTypeOK
  BY <1>1, SharingSizes DEF TablesInit, TablesTypeOK
<1>3. FreeFiles = FileNo /\ FreeLocks = LockNo
  BY DEF TablesInit, FreeFiles, FreeLocks, NoFile, NoLock
<1>4. Cardinality(FileNo) = FileTableSize /\ Cardinality(LockNo) = LockTableSize
  BY SharingSizes, FS_Interval DEF FileNo, LockNo
<1> QED
  BY <1>2, <1>3, <1>4, SharingSizes DEF TablesInit, TablesInv, SlotCounts

\* A successful open_check takes one unused entry and no lock.
LEMMA OpenCheckStep ==
  ASSUME TablesInv, NEW nm \in Names, NEW psp \in Psps, NEW om, NEW sm,
         OpenCheck(nm, psp, om, sm)
  PROVE  /\ OpenSlot \in FileNo
         /\ file_table[OpenSlot].filename = NoName
         /\ TablesInv'
<1>1. OpenSlot \in FreeFiles
  BY ChosenSlots DEF OpenCheck, OpenAllowed
<1>2. OpenSlot \in FileNo /\ file_table[OpenSlot].filename = NoName
  BY <1>1 DEF FreeFiles
<1>3. OpenEntry(nm, psp, om, sm) \in FileEntry
  BY OpenEntryType DEF TablesInv
<1>4. OpenEntry(nm, psp, om, sm).filename # NoName
  BY SharingNames DEF OpenEntry
<1>5. FreeFiles' = FreeFiles \ {OpenSlot} /\ FreeLocks' = FreeLocks
  BY <1>2, <1>4 DEF OpenCheck, FreeFiles, FreeLocks, TablesInv, TablesTypeOK
<1>6. Cardinality(FreeFiles') = Cardinality(FreeFiles) - 1
  BY <1>1, <1>5, FiniteSlots, FS_RemoveElement
<1>7. SlotCounts'
  <2>1. file_table_free' = file_table_free - 1
    BY DEF OpenCheck
  <2>2. lockViolated' = lockViolated /\ lock_table_free' = lock_table_free
    BY DEF OpenCheck
  <2> QED
    BY <1>5, <1>6, <2>1, <2>2, SlotNumbers
    DEF SlotCounts, TablesInv, TablesTypeOK
<1>8. TablesTypeOK'
  <2>1. file_table' \in [FileNo -> FileEntry]
    BY <1>3 DEF OpenCheck, TablesInv, TablesTypeOK
  <2>2. Cardinality(FreeFiles) >= 1
    BY <1>6, <1>5, FiniteSlots, FS_RemoveElement, FS_CardinalityType
  <2>3. file_table_free - 1 \in Nat
    BY <2>2, SlotNumbers DEF TablesInv, TablesTypeOK, SlotCounts
  <2> QED
    BY <2>1, <2>3 DEF OpenCheck, TablesInv, TablesTypeOK
<1> QED
  BY <1>2, <1>7, <1>8 DEF TablesInv

\* remove_all_locks adds the locks it removes to the free locks.
LEMMA RemoveAllLocksStep ==
  ASSUME TablesInv, NEW fileno, RemoveAllLocks(fileno)
  PROVE  /\ lock_table' \in [LockNo -> LockEntry]
         /\ lock_table_free' \in Nat
         /\ lock_table_free' = Cardinality(FreeLocks')
<1>1. NoLock \in LockEntry /\ NoLock.used = 0
  BY SharingSizes DEF NoLock, LockEntry, Offset
<1>2. lock_table' \in [LockNo -> LockEntry]
  BY <1>1 DEF RemoveAllLocks, TablesInv, TablesTypeOK
<1>3. FreeLocks' = FreeLocks \cup LocksOf(fileno)
  BY <1>1, <1>2 DEF RemoveAllLocks, FreeLocks, LocksOf, TablesInv, TablesTypeOK
<1>4. FreeLocks \cap LocksOf(fileno) = {}
  BY DEF FreeLocks, LocksOf
<1>5. Cardinality(FreeLocks') = Cardinality(FreeLocks) + Cardinality(LocksOf(fileno))
  BY <1>3, <1>4, FiniteSlots, FS_Union, FS_EmptySet, SlotNumbers
<1> QED
  BY <1>2, <1>5, SlotNumbers
  DEF RemoveAllLocks, TablesInv, SlotCounts

\* free_file_table_entry counts one more unused entry; the entry was unused
\* already only if a lock violation has freed it.
LEMMA FreeFileTableEntryStep ==
  ASSUME TablesInv, NEW fileno \in FileNo, FreeFileTableEntry(fileno)
  PROVE  /\ file_table' \in [FileNo -> FileEntry]
         /\ file_table_free' \in Nat
         /\ file_table_free' >= Cardinality(FreeFiles')
         /\ ~lockViolated /\ file_table[fileno].filename # NoName
              => file_table_free' = Cardinality(FreeFiles')
<1>1. NoFile \in FileEntry /\ NoFile.filename = NoName
  BY DEF NoFile, FileEntry
<1>2. file_table' \in [FileNo -> FileEntry]
  BY <1>1 DEF FreeFileTableEntry, TablesInv, TablesTypeOK
<1>3. FreeFiles' = FreeFiles \cup {fileno}
  BY <1>1 DEF FreeFileTableEntry, FreeFiles, TablesInv, TablesTypeOK
<1>4. Cardinality(FreeFiles') = IF fileno \in FreeFiles
                                THEN Cardinality(FreeFiles)
                                ELSE Cardinality(FreeFiles) + 1
  BY <1>3, FiniteSlots, FS_AddElement
<1>5. file_table_free' = file_table_free + 1 /\ file_table_free \in Nat
  BY DEF FreeFileTableEntry, TablesInv, TablesTypeOK
<1>6. fileno \in FreeFiles <=> file_table[fileno].filename = NoName
  BY DEF FreeFiles
<1> QED
  BY <1>2, <1>4, <1>5, <1>6, SlotNumbers DEF TablesInv, SlotCounts

\* close_file of an entry in use keeps the tables consistent.
LEMMA CloseFileStep ==
  ASSUME TablesInv, NEW fileno \in FileNo, CloseFile(fileno),
         ~lockViolated => file_table[fileno].filename # NoName
  PROVE  TablesInv'
<1>1. /\ lock_table' \in [LockNo -> LockEntry]
      /\ lock_table_free' \in Nat
      /\ lock_table_free' = Cardinality(FreeLocks')
  BY RemoveAllLocksStep DEF CloseFile
<1>2. /\ file_table' \in [FileNo -> FileEntry]
      /\ file_table_free' \in Nat
      /\ file_table_free' >= Cardinality(FreeFiles')
      /\ ~lockViolated => file_table_free' = Cardinality(FreeFiles')
  BY FreeFileTableEntryStep DEF CloseFile
<1>3. lockViolated' = lockViolated /\ lockViolated \in BOOLEAN
  BY DEF CloseFile, TablesInv, TablesTypeOK
<1> QED
  BY <1>1, <1>2, <1>3 DEF TablesInv, TablesTypeOK, SlotCounts

\* open_check followed by close_file leaves the entries as they were.
LEMMA OpenAndCloseStep ==
  ASSUME TablesInv, NEW nm, NEW psp, NEW om, NEW sm,
         OpenAndClose(nm, psp, om, sm)
  PROVE  TablesInv'
<1>1. /\ lock_table' \in [LockNo -> LockEntry]
      /\ lock_table_free' \in Nat
      /\ lock_table_free' = Cardinality(FreeLocks')
  BY RemoveAllLocksStep DEF OpenAndClose
<1>2. UNCHANGED <<file_table, file_table_free, lockViolated>>
  BY DEF OpenAndClose
<1>3. FreeFiles' = FreeFiles
  BY <1>2 DEF FreeFiles
<1> QED
  BY <1>1, <1>2, <1>3 DEF TablesInv, TablesTypeOK, SlotCounts

\* A failed access frees an entry and is recorded as a lock violation.
LEMMA AccessViolationStep ==
  ASSUME TablesInv, NEW psp, NEW fileno \in FileNo, NEW ofs, NEW len,
         AccessViolation(psp, fileno, ofs, len)
  PROVE  TablesInv'
<1>1. /\ file_table' \in [FileNo -> FileEntry]
      /\ file_table_free' \in Nat
      /\ file_table_free' >= Cardinality(FreeFiles')
  BY FreeFileTableEntryStep DEF AccessViolation
<1>2. UNCHANGED <<lock_table, lock_table_free>> /\ lockViolated' = TRUE
  BY DEF AccessViolation
<1>3. FreeLocks' = FreeLocks
  BY <1>2 DEF FreeLocks
<1> QED
  BY <1>1, <1>2, <1>3 DEF TablesInv, TablesTypeOK, SlotCounts

\* A region within the offsets ends within them, not before it starts.
LEMMA EndOfsType ==
  ASSUME NEW ofs \in Offset, NEW len \in Offset
  PROVE  EndOfs(ofs, len) \in Offset /\ ofs <= EndOfs(ofs, len)
BY SharingSizes DEF EndOfs, Offset

\* Locking a region takes one free lock.
LEMMA LockRegionStep ==
  ASSUME TablesInv, NEW psp \in Psps, NEW fileno \in FileNo,
         NEW ofs \in Offset, NEW len \in Offset,
         LockRegion(psp, fileno, ofs, len)
  PROVE  TablesInv'
<1> DEFINE k == Min(FreeLocks)
           lock == [used |-> 1, start |-> ofs, end |-> EndOfs(ofs, len),
                    fileno |-> fileno, psp |-> psp]
<1>1. k \in FreeLocks /\ k \in LockNo
  BY ChosenSlots DEF LockRegion, FreeLocks
<1>2. lock \in LockEntry /\ lock.used # 0
  BY EndOfsType DEF LockEntry
<1>3. lock_table' = [lock_table EXCEPT ![k] = lock]
  BY DEF LockRegion
<1> HIDE DEF k, lock
<1>4. lock_table' \in [LockNo -> LockEntry]
  BY <1>1, <1>2, <1>3 DEF TablesInv, TablesTypeOK
<1>5. FreeLocks' = FreeLocks \ {k}
  BY <1>1, <1>2, <1>3 DEF FreeLocks, TablesInv, TablesTypeOK
<1>6. /\ Cardinality(FreeLocks') = Cardinality(FreeLocks) - 1
      /\ Cardinality(FreeLocks') \in Nat
  BY <1>1, <1>5, FiniteSlots, FS_RemoveElement, FS_CardinalityType
<1>7. /\ lock_table_free' = lock_table_free - 1
      /\ UNCHANGED <<file_table, file_table_free, lockViolated>>
  BY DEF LockRegion
<1>8. FreeFiles' = FreeFiles
  BY <1>7 DEF FreeFiles
<1> QED
  BY <1>4, <1>6, <1>7, <1>8 DEF TablesInv, TablesTypeOK, SlotCounts

\* Unlocking a region gives its lock back.
LEMMA UnlockRegionStep ==
  ASSUME TablesInv, NEW psp, NEW fileno, NEW ofs, NEW len,
         UnlockRegion(psp, fileno, ofs, len)
  PROVE  TablesInv'
<1> DEFINE k == Min(LocksNamed(psp, fileno, ofs, len))
<1>1. k \in LocksNamed(psp, fileno, ofs, len)
  BY ChosenSlots DEF UnlockRegion
<1>2. lock_table' = [lock_table EXCEPT ![k] = NoLock]
  BY DEF UnlockRegion
<1> HIDE DEF k
<1>3. k \in LockNo /\ lock_table[k].used = 1
  BY <1>1 DEF LocksNamed, LocksOf
<1>4. NoLock \in LockEntry /\ NoLock.used = 0
  BY SharingSizes DEF NoLock, LockEntry, Offset
<1>5. lock_table' \in [LockNo -> LockEntry]
  BY <1>2, <1>3, <1>4 DEF TablesInv, TablesTypeOK
<1>6. FreeLocks' = FreeLocks \cup {k} /\ k \notin FreeLocks
  BY <1>2, <1>3, <1>4 DEF FreeLocks, TablesInv, TablesTypeOK
<1>7. /\ Cardinality(FreeLocks') = Cardinality(FreeLocks) + 1
      /\ Cardinality(FreeLocks') \in Nat
  BY <1>6, FiniteSlots, FS_AddElement, FS_CardinalityType
<1>8. /\ lock_table_free' = lock_table_free + 1
      /\ UNCHANGED <<file_table, file_table_free, lockViolated>>
  BY DEF UnlockRegion
<1>9. FreeFiles' = FreeFiles
  BY <1>8 DEF FreeFiles
<1> QED
  BY <1>5, <1>7, <1>8, <1>9 DEF TablesInv, TablesTypeOK, SlotCounts
=============================================================================
