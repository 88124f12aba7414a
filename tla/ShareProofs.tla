---------------------------- MODULE ShareProofs ----------------------------
(***************************************************************************)
(* Theorems about Share, for every set of names, processes and system file *)
(* table entries and every table size.                                     *)
(***************************************************************************)
EXTENDS Share, ShareTablesProofs

\* The inductive invariant of the typing and of the slot accounting.
HeldInv == TypeOK /\ SlotCounts /\ EntriesHeld

\* No entry is held at the start.
LEMMA HeldInit == Init => HeldInv
<1> SUFFICES ASSUME Init PROVE HeldInv
  OBVIOUS
<1>1. TablesTypeOK /\ SlotCounts
  BY TablesInitInv DEF Init, TablesInv
<1>2. TypeOK
  BY <1>1 DEF Init, TypeOK
<1>3. EntriesHeld
  BY DEF Init, TablesInit, EntriesHeld, Holds, InUse, NoFileNo, NoFile
<1> QED
  BY <1>1, <1>2, <1>3 DEF HeldInv

\* An entry number that an SFT holds is a slot of the file table.
LEMMA HeldIsFileNo ==
  ASSUME TypeOK, NEW s \in Sfts, Holds(s)
  PROVE  shroff[s] \in FileNo
BY DEF TypeOK, Holds, NoFileNo

\* Until a lock violation an entry number that an SFT holds is in use.
LEMMA HeldInUse ==
  ASSUME EntriesHeld, NEW s \in Sfts, Holds(s)
  PROVE  ~lockViolated => file_table[shroff[s]].filename # NoName
BY DEF EntriesHeld, InUse

\* Every step keeps the entries in use and the numbers that the SFTs hold in
\* correspondence, up to the first lock violation.
LEMMA HeldStep == HeldInv /\ [Next]_vars => HeldInv'
<1> SUFFICES ASSUME HeldInv, [Next]_vars PROVE HeldInv'
  OBVIOUS
<1> USE SharingSizes DEF HeldInv
<1>0. TablesInv
  BY DEF TablesInv, TypeOK
<1>1. ASSUME NEW s \in Sfts, NEW nm \in Names, NEW psp \in Psps,
             NEW req \in OpenRequests, Open(s, nm, psp, req)
      PROVE  HeldInv'
  <2>1. /\ OpenSlot \in FileNo
        /\ file_table[OpenSlot].filename = NoName
        /\ TablesInv'
    BY <1>0, <1>1, OpenCheckStep DEF Open
  <2>2. /\ shroff' = [shroff EXCEPT ![s] = OpenSlot]
        /\ ~Holds(s)
        /\ lockViolated' = lockViolated
    BY <1>1 DEF Open, OpenCheck
  <2>3. TypeOK'
    BY <2>1, <2>2 DEF TypeOK, TablesInv
  <2>4. /\ file_table' =
             [file_table EXCEPT ![OpenSlot] = OpenEntry(nm, psp, req[1], req[2])]
        /\ OpenEntry(nm, psp, req[1], req[2]).filename # NoName
    BY <1>1, SharingNames DEF Open, OpenCheck, OpenEntry
  <2>5. \A i \in FileNo : InUse(i)' <=> InUse(i) \/ i = OpenSlot
    BY <2>1, <2>4 DEF InUse, TypeOK, TablesTypeOK
  <2>6. \A t \in Sfts : Holds(t)' <=> Holds(t) \/ t = s
    BY <2>1, <2>2 DEF Holds, TypeOK, FileNo
  <2>7. EntriesHeld'
    <3> SUFFICES ASSUME ~lockViolated PROVE EntriesHeld'
      BY <2>2 DEF EntriesHeld
    <3>1. \A t \in Sfts : Holds(t) => InUse(shroff[t]) /\ shroff[t] # OpenSlot
      BY <2>1 DEF EntriesHeld, InUse
    <3>2. \A t \in Sfts : Holds(t)' => InUse(shroff[t])' /\ shroff'[t] \in FileNo
      BY <2>1, <2>2, <2>4, <2>5, <2>6, <3>1, HeldIsFileNo DEF InUse, TypeOK, TablesTypeOK
    <3>3. \A t, u \in Sfts : t # u /\ Holds(t)' => shroff'[t] # shroff'[u]
      <4> SUFFICES ASSUME NEW t \in Sfts, NEW u \in Sfts, t # u, Holds(t)'
                   PROVE  shroff'[t] # shroff'[u]
        OBVIOUS
      <4>1. CASE t = s
        BY <2>1, <2>2, <3>1, <4>1 DEF TypeOK, Holds, FileNo
      <4>2. CASE u = s
        BY <2>2, <2>6, <3>1, <4>2 DEF TypeOK
      <4>3. CASE t # s /\ u # s
        BY <2>2, <2>6, <4>3 DEF TypeOK, EntriesHeld
      <4> QED
        BY <4>1, <4>2, <4>3
    <3>4. \A i \in FileNo : InUse(i)' => \E t \in Sfts : shroff'[t] = i
      <4> SUFFICES ASSUME NEW i \in FileNo, InUse(i)'
                   PROVE  \E t \in Sfts : shroff'[t] = i
        OBVIOUS
      <4>1. CASE i = OpenSlot
        BY <2>2, <4>1 DEF TypeOK
      <4>2. CASE i # OpenSlot
        <5>1. PICK t \in Sfts : shroff[t] = i
          BY <2>5, <4>2 DEF EntriesHeld
        <5>2. t # s
          BY <2>2, <5>1 DEF Holds, FileNo
        <5> QED
          BY <2>2, <5>1, <5>2 DEF TypeOK
      <4> QED
        BY <4>1, <4>2
    <3> QED
      BY <3>2, <3>3, <3>4 DEF EntriesHeld
  <2> QED
    BY <2>1, <2>3, <2>7 DEF TablesInv
<1>2. ASSUME NEW nm \in Names, NEW psp \in Psps, NEW req \in OpenRequests,
             TryOpen(nm, psp, req)
      PROVE  HeldInv'
  <2>1. TablesInv'
    BY <1>0, <1>2, OpenAndCloseStep DEF TryOpen
  <2>2. UNCHANGED <<file_table, lockViolated, shroff>>
    BY <1>2 DEF TryOpen, OpenAndClose
  <2> QED
    BY <2>1, <2>2 DEF TablesInv, TypeOK, EntriesHeld, Holds, InUse
<1>3. ASSUME NEW s \in Sfts, Close(s)
      PROVE  HeldInv'
  <2>1. shroff[s] \in FileNo
    BY <1>3, HeldIsFileNo DEF Close
  <2>2. TablesInv'
    BY <1>0, <1>3, <2>1, CloseFileStep, HeldInUse DEF Close
  <2>3. /\ file_table' = [file_table EXCEPT ![shroff[s]] = NoFile]
        /\ shroff' = [shroff EXCEPT ![s] = NoFileNo]
        /\ lockViolated' = lockViolated
    BY <1>3 DEF Close, CloseFile, FreeFileTableEntry
  <2>4. TypeOK'
    BY <2>2, <2>3 DEF TypeOK, TablesInv
  <2>5. \A i \in FileNo : InUse(i)' <=> InUse(i) /\ i # shroff[s]
    BY <2>1, <2>3 DEF InUse, NoFile, TypeOK, TablesTypeOK
  <2>6. \A t \in Sfts : Holds(t)' <=> Holds(t) /\ t # s
    BY <2>3 DEF Holds, NoFileNo, TypeOK
  <2>7. EntriesHeld'
    <3> SUFFICES ASSUME ~lockViolated PROVE EntriesHeld'
      BY <2>3 DEF EntriesHeld
    <3>0. Holds(s)
      BY <1>3 DEF Close
    <3>1. \A t \in Sfts : Holds(t)' => InUse(shroff[t])'
      <4> SUFFICES ASSUME NEW t \in Sfts, Holds(t)' PROVE InUse(shroff[t])'
        OBVIOUS
      <4>1. Holds(t) /\ t # s /\ shroff'[t] = shroff[t]
        BY <2>3, <2>6 DEF TypeOK
      <4>2. InUse(shroff[t]) /\ shroff[t] # shroff[s] /\ shroff[t] \in FileNo
        BY <4>1, <3>0, HeldIsFileNo DEF EntriesHeld
      <4> QED
        BY <2>3, <4>1, <4>2 DEF InUse, TypeOK, TablesTypeOK
    <3>2. \A t, u \in Sfts : t # u /\ Holds(t)' => shroff'[t] # shroff'[u]
      BY <2>3, <2>6, <3>0 DEF TypeOK, EntriesHeld, NoFileNo, Holds
    <3>3. \A i \in FileNo : InUse(i)' => \E t \in Sfts : shroff'[t] = i
      <4> SUFFICES ASSUME NEW i \in FileNo, InUse(i)'
                   PROVE  \E t \in Sfts : shroff'[t] = i
        OBVIOUS
      <4>1. PICK t \in Sfts : shroff[t] = i
        BY <2>5 DEF EntriesHeld
      <4>2. t # s
        BY <2>5, <4>1
      <4> QED
        BY <2>3, <4>1, <4>2 DEF TypeOK
    <3> QED
      BY <3>1, <3>2, <3>3 DEF EntriesHeld
  <2> QED
    BY <2>2, <2>4, <2>7 DEF TablesInv
<1>4. ASSUME NEW s \in Sfts, NEW psp \in Psps, NEW r \in Regions, Lock(s, psp, r)
      PROVE  HeldInv'
  <2>1. shroff[s] \in FileNo /\ r[1] \in Offset /\ r[2] \in Offset
    BY <1>4, HeldIsFileNo, ClientConstants DEF Lock
  <2>2. TablesInv'
    BY <1>0, <1>4, <2>1, LockRegionStep DEF Lock
  <2>3. UNCHANGED <<file_table, lockViolated, shroff>>
    BY <1>4 DEF Lock, LockRegion
  <2> QED
    BY <2>2, <2>3 DEF TablesInv, TypeOK, EntriesHeld, Holds, InUse
<1>5. ASSUME NEW s \in Sfts, NEW psp \in Psps, NEW r \in Regions, Unlock(s, psp, r)
      PROVE  HeldInv'
  <2>1. TablesInv'
    BY <1>0, <1>5, UnlockRegionStep DEF Unlock
  <2>2. UNCHANGED <<file_table, lockViolated, shroff>>
    BY <1>5 DEF Unlock, UnlockRegion
  <2> QED
    BY <2>1, <2>2 DEF TablesInv, TypeOK, EntriesHeld, Holds, InUse
<1>6. ASSUME NEW s \in Sfts, NEW psp \in Psps, NEW r \in Regions,
             AccessLocked(s, psp, r)
      PROVE  HeldInv'
  <2>1. shroff[s] \in FileNo
    BY <1>6, HeldIsFileNo DEF AccessLocked
  <2>2. TablesInv'
    BY <1>0, <1>6, <2>1, AccessViolationStep DEF AccessLocked
  <2>3. lockViolated' = TRUE /\ shroff' = shroff
    BY <1>6 DEF AccessLocked, AccessViolation
  <2> QED
    BY <2>2, <2>3 DEF TablesInv, TypeOK, EntriesHeld
<1>7. CASE UNCHANGED vars
  BY <1>7
  DEF vars, tables, TypeOK, TablesTypeOK, SlotCounts, EntriesHeld, Holds, InUse,
      FreeFiles, FreeLocks
<1> QED
  BY <1>1, <1>2, <1>3, <1>4, <1>5, <1>6, <1>7 DEF Next

\* Every state of SHARE is well typed: in particular the unsigned counters
\* never go below zero, whatever the sequence of calls.
THEOREM TypeCorrect == Spec => []TypeOK
<1>1. Init => HeldInv
  BY HeldInit
<1>2. HeldInv /\ [Next]_vars => HeldInv'
  BY HeldStep
<1>3. HeldInv => TypeOK
  BY DEF HeldInv
<1> QED
  BY <1>1, <1>2, <1>3, PTL DEF Spec

\* Until the first lock violation the entries in use are exactly those that
\* the SFTs hold, one SFT each.
THEOREM EntriesAreHeld == Spec => []EntriesHeld
<1>1. Init => HeldInv
  BY HeldInit
<1>2. HeldInv /\ [Next]_vars => HeldInv'
  BY HeldStep
<1>3. HeldInv => EntriesHeld
  BY DEF HeldInv
<1> QED
  BY <1>1, <1>2, <1>3, PTL DEF Spec

\* The handler's free counters count the unused slots.
THEOREM CountersAreExact == Spec => []CountersExact
<1>1. Init => HeldInv
  BY HeldInit
<1>2. HeldInv /\ [Next]_vars => HeldInv'
  BY HeldStep
<1>3. HeldInv => CountersExact
  BY DEF HeldInv, SlotCounts, CountersExact
<1> QED
  BY <1>1, <1>2, <1>3, PTL DEF Spec

-----------------------------------------------------------------------------
(* Share modes.                                                            *)

\* The modes of an entry go with the first modes that it carries.
EntryAdmitted(e) ==
  Proceeds(e.first_sharemode, e.first_openmode, e.sharemode, e.openmode)
Admitted(i) == EntryAdmitted(file_table[i])

\* Every instance of a file is its first or was admitted against the first
\* modes, and of two instances at most one is the first.
AdmittedInv ==
  /\ \A i \in FileNo : InUse(i) => OwnModes(i) = FirstModes(i) \/ Admitted(i)
  /\ \A i, j \in FileNo : SameFile(i, j) => Admitted(i) \/ Admitted(j)

ModesInv == TypeOK /\ FirstModesAgree /\ AdmittedInv

\* Entry e may go to the unused slot k: it carries the first modes of every
\* instance of its file, and was admitted if there is one.
Fits(k, e) ==
  /\ file_table[k].filename = NoName
  /\ e.filename # NoName
  /\ \A j \in FileNo :
       file_table[j].filename = e.filename
         => /\ FirstModes(j) = <<e.first_sharemode, e.first_openmode>>
            /\ EntryAdmitted(e)
  /\ \/ <<e.sharemode, e.openmode>> = <<e.first_sharemode, e.first_openmode>>
     \/ EntryAdmitted(e)

\* What open_check puts into the table fits there.
LEMMA OpenCheckFits ==
  ASSUME ModesInv, NEW nm \in Names, NEW psp \in Psps, NEW om, NEW sm,
         OpenCheck(nm, psp, om, sm)
  PROVE  \E k \in FileNo, e \in FileEntry :
           Fits(k, e) /\ file_table' = [file_table EXCEPT ![k] = e]
<1>1. OpenSlot \in FreeFiles
  BY ChosenSlots DEF OpenCheck, OpenAllowed
<1>2. PICK k \in FileNo : k = OpenSlot /\ file_table[k].filename = NoName
  BY <1>1 DEF FreeFiles
<1>3. OpenEntry(nm, psp, om, sm) \in FileEntry
  BY OpenEntryType DEF ModesInv, TypeOK
<1>4. PICK e \in FileEntry : e = OpenEntry(nm, psp, om, sm)
  BY <1>3
<1>5. file_table' = [file_table EXCEPT ![k] = e] /\ Admits(e)
  BY <1>2, <1>4 DEF OpenCheck, OpenAllowed
<1>6. e.filename = nm /\ nm # NoName
  BY <1>4, SharingNames DEF OpenEntry
<1>7. ASSUME NEW j \in FileNo, file_table[j].filename = nm
      PROVE  /\ FirstModes(j) = <<e.first_sharemode, e.first_openmode>>
             /\ EntryAdmitted(e)
  <2>1. InstancesOf(nm) # {}
    BY <1>7 DEF InstancesOf
  <2>2. PICK m \in FileNo :
          m = Min(InstancesOf(nm)) /\ file_table[m].filename = nm
    BY <2>1, ChosenSlots DEF InstancesOf
  <2>3. /\ e.first_sharemode = file_table[m].first_sharemode
        /\ e.first_openmode = file_table[m].first_openmode
    BY <1>4, <2>1, <2>2 DEF OpenEntry
  <2>4. FirstModes(j) = FirstModes(m)
    BY <1>6, <1>7, <2>2 DEF ModesInv, FirstModesAgree, SameFile, InUse
  <2>5. EntryAdmitted(e)
    BY <1>5, <1>6, <2>1 DEF Admits, EntryAdmitted
  <2> QED
    BY <2>3, <2>4, <2>5 DEF FirstModes
<1>8. CASE InstancesOf(nm) = {}
  BY <1>2, <1>4, <1>5, <1>6, <1>7, <1>8 DEF Fits, OpenEntry
<1>9. CASE InstancesOf(nm) # {}
  BY <1>2, <1>5, <1>6, <1>7, <1>9 DEF Fits, InstancesOf
<1> QED
  BY <1>8, <1>9

\* What a step does to the file table: nothing, a fitting entry goes to an
\* unused slot, or one entry is cleared.
LEMMA FileTableStep ==
  ASSUME ModesInv, [Next]_vars
  PROVE  \/ UNCHANGED file_table
         \/ \E k \in FileNo, e \in FileEntry :
              Fits(k, e) /\ file_table' = [file_table EXCEPT ![k] = e]
         \/ \E i \in FileNo : file_table' = [file_table EXCEPT ![i] = NoFile]
<1> USE DEF ModesInv
<1>1. ASSUME NEW s \in Sfts, NEW nm \in Names, NEW psp \in Psps,
             NEW req \in OpenRequests, Open(s, nm, psp, req)
      PROVE  \E k \in FileNo, e \in FileEntry :
               Fits(k, e) /\ file_table' = [file_table EXCEPT ![k] = e]
  BY <1>1, OpenCheckFits DEF Open
<1>2. ASSUME NEW s \in Sfts, Close(s)
      PROVE  \E i \in FileNo : file_table' = [file_table EXCEPT ![i] = NoFile]
  BY <1>2, HeldIsFileNo DEF Close, CloseFile, FreeFileTableEntry
<1>3. ASSUME NEW s \in Sfts, NEW psp \in Psps, NEW r \in Regions,
             AccessLocked(s, psp, r)
      PROVE  \E i \in FileNo : file_table' = [file_table EXCEPT ![i] = NoFile]
  BY <1>3, HeldIsFileNo DEF AccessLocked, AccessViolation, FreeFileTableEntry
<1>4. ASSUME NEW nm \in Names, NEW psp \in Psps, NEW req \in OpenRequests,
             TryOpen(nm, psp, req)
      PROVE  UNCHANGED file_table
  BY <1>4 DEF TryOpen, OpenAndClose
<1>5. ASSUME NEW s \in Sfts, NEW psp \in Psps, NEW r \in Regions,
             Lock(s, psp, r) \/ Unlock(s, psp, r)
      PROVE  UNCHANGED file_table
  BY <1>5 DEF Lock, Unlock, LockRegion, UnlockRegion
<1>6. CASE UNCHANGED vars
  BY <1>6 DEF vars, tables
<1> QED
  BY <1>1, <1>2, <1>3, <1>4, <1>5, <1>6 DEF Next

\* Putting a fitting entry into the table keeps the share modes consistent.
LEMMA ModesOpen ==
  ASSUME ModesInv, NEW k \in FileNo, NEW e \in FileEntry, Fits(k, e),
         file_table' = [file_table EXCEPT ![k] = e]
  PROVE  FirstModesAgree' /\ AdmittedInv'
<1>1. /\ file_table'[k] = e
      /\ \A j \in FileNo : j # k => file_table'[j] = file_table[j]
  BY DEF ModesInv, TypeOK, TablesTypeOK
<1>2. ASSUME NEW j \in FileNo, SameFile(k, j)' \/ SameFile(j, k)'
      PROVE  /\ j # k
             /\ FirstModes(j) = <<e.first_sharemode, e.first_openmode>>
             /\ EntryAdmitted(e)
  BY <1>1, <1>2 DEF SameFile, InUse, Fits
<1>3. \A i, j \in FileNo : i # k /\ j # k /\ SameFile(i, j)' => SameFile(i, j)
  BY <1>1 DEF SameFile, InUse
<1>4. FirstModesAgree'
  <2> SUFFICES ASSUME NEW i \in FileNo, NEW j \in FileNo, SameFile(i, j)'
               PROVE  FirstModes(i)' = FirstModes(j)'
    BY DEF FirstModesAgree
  <2>1. CASE i = k
    BY <1>1, <1>2, <2>1 DEF FirstModes
  <2>2. CASE j = k
    BY <1>1, <1>2, <2>2 DEF FirstModes
  <2>3. CASE i # k /\ j # k
    BY <1>1, <1>3, <2>3 DEF FirstModes, ModesInv, FirstModesAgree
  <2> QED
    BY <2>1, <2>2, <2>3
<1>5. AdmittedInv'
  <2>1. ASSUME NEW i \in FileNo, InUse(i)'
        PROVE  (OwnModes(i) = FirstModes(i) \/ Admitted(i))'
    <3>1. CASE i = k
      BY <1>1, <3>1 DEF OwnModes, FirstModes, Admitted, Fits
    <3>2. CASE i # k
      BY <1>1, <2>1, <3>2
      DEF ModesInv, AdmittedInv, OwnModes, FirstModes, Admitted, InUse
    <3> QED
      BY <3>1, <3>2
  <2>2. ASSUME NEW i \in FileNo, NEW j \in FileNo, SameFile(i, j)'
        PROVE  Admitted(i)' \/ Admitted(j)'
    <3>1. CASE i = k
      BY <1>1, <1>2, <2>2, <3>1 DEF Admitted
    <3>2. CASE j = k
      BY <1>1, <1>2, <2>2, <3>2 DEF Admitted
    <3>3. CASE i # k /\ j # k
      BY <1>1, <1>3, <2>2, <3>3 DEF ModesInv, AdmittedInv, Admitted
    <3> QED
      BY <3>1, <3>2, <3>3
  <2> QED
    BY <2>1, <2>2 DEF AdmittedInv
<1> QED
  BY <1>4, <1>5

\* Clearing an entry keeps the share modes consistent.
LEMMA ModesClear ==
  ASSUME ModesInv, NEW k \in FileNo,
         file_table' = [file_table EXCEPT ![k] = NoFile]
  PROVE  FirstModesAgree' /\ AdmittedInv'
<1>1. /\ \A i \in FileNo : InUse(i)' => InUse(i) /\ file_table'[i] = file_table[i]
      /\ \A i, j \in FileNo :
           SameFile(i, j)' => /\ SameFile(i, j)
                              /\ file_table'[i] = file_table[i]
                              /\ file_table'[j] = file_table[j]
  BY DEF ModesInv, TypeOK, TablesTypeOK, InUse, SameFile, NoFile
<1> QED
  BY <1>1
  DEF ModesInv, FirstModesAgree, AdmittedInv, FirstModes, OwnModes, Admitted

\* Every step keeps the share modes consistent.
LEMMA ModesStep == ModesInv /\ TypeOK' /\ [Next]_vars => ModesInv'
<1> SUFFICES ASSUME ModesInv, TypeOK', [Next]_vars
             PROVE  FirstModesAgree' /\ AdmittedInv'
  BY DEF ModesInv
<1>1. CASE UNCHANGED file_table
  BY <1>1
  DEF ModesInv, FirstModesAgree, AdmittedInv, FirstModes, OwnModes, Admitted,
      SameFile, InUse
<1>2. CASE \E k \in FileNo, e \in FileEntry :
             Fits(k, e) /\ file_table' = [file_table EXCEPT ![k] = e]
  BY <1>2, ModesOpen
<1>3. CASE \E i \in FileNo : file_table' = [file_table EXCEPT ![i] = NoFile]
  BY <1>3, ModesClear
<1> QED
  BY <1>1, <1>2, <1>3, FileTableStep

\* No file is open at the start.
LEMMA ModesInit == Init => ModesInv
<1> SUFFICES ASSUME Init PROVE ModesInv
  OBVIOUS
<1>1. TypeOK
  BY HeldInit DEF HeldInv
<1>2. \A i \in FileNo : ~InUse(i)
  BY DEF Init, TablesInit, InUse, NoFile
<1> QED
  BY <1>1, <1>2 DEF ModesInv, FirstModesAgree, AdmittedInv, SameFile

\* All instances of a file carry the modes of the first open of the file.
THEOREM FirstModesAgreeAlways == Spec => []FirstModesAgree
<1>1. Init => ModesInv
  BY ModesInit
<1>2. ModesInv /\ TypeOK' /\ [Next]_vars => ModesInv'
  BY ModesStep
<1>3. ModesInv => FirstModesAgree
  BY DEF ModesInv
<1> QED
  BY <1>1, <1>2, <1>3, TypeCorrect, PTL DEF Spec

\* The modes that open_exceptions and open_actions admit against first modes
\* are denied nothing by them and deny them nothing.
LEMMA AdmittedModesCompatible ==
  ASSUME NEW fs \in 0 .. 4, NEW fo \in 0 .. 2, NEW cs \in 0 .. 4, NEW co \in 0 .. 2,
         Proceeds(fs, fo, cs, co)
  PROVE  ~Denies(<<fs, fo>>, <<cs, co>>) /\ ~Denies(<<cs, co>>, <<fs, fo>>)
BY DEF Proceeds, OpenExceptions, ProceedingModes, Denies, SHARE_COMPAT,
       SHARE_DENY_ALL, SHARE_DENY_WRITE, SHARE_DENY_READ, SHARE_DENY_NONE,
       OPEN_READ_ONLY, OPEN_WRITE_ONLY

\* An instance with the modes of the first open has its share mode honoured by
\* every other instance, and honours theirs.
THEOREM FirstOpenIsHonoured == Spec => []FirstOpenHonoured
<1>1. Init => ModesInv
  BY ModesInit
<1>2. ModesInv /\ TypeOK' /\ [Next]_vars => ModesInv'
  BY ModesStep
<1>3. ModesInv => FirstOpenHonoured
  <2> SUFFICES ASSUME ModesInv, NEW i \in FileNo, NEW j \in FileNo,
                      SameFile(i, j), OwnModes(i) = FirstModes(i)
               PROVE  /\ ~Denies(OwnModes(i), OwnModes(j))
                      /\ ~Denies(OwnModes(j), OwnModes(i))
    BY DEF FirstOpenHonoured
  <2>1. file_table[i] \in FileEntry /\ file_table[j] \in FileEntry
    BY DEF ModesInv, TypeOK, TablesTypeOK
  <2>2. /\ file_table[i].sharemode \in 0 .. 4 /\ file_table[i].openmode \in 0 .. 2
        /\ file_table[j].sharemode \in 0 .. 4 /\ file_table[j].openmode \in 0 .. 2
    BY <2>1 DEF FileEntry
  <2>3. FirstModes(j) = OwnModes(i)
    BY DEF ModesInv, FirstModesAgree
  <2>4. OwnModes(j) = FirstModes(j) \/ Admitted(j)
    BY DEF ModesInv, AdmittedInv, SameFile, InUse
  <2>5. Admitted(i) \/ Admitted(j)
    BY DEF ModesInv, AdmittedInv
  <2>6. CASE Admitted(j)
    <3>1. Proceeds(file_table[i].sharemode, file_table[i].openmode,
                   file_table[j].sharemode, file_table[j].openmode)
      BY <2>3, <2>6 DEF Admitted, EntryAdmitted, OwnModes, FirstModes
    <3> QED
      BY <2>2, <3>1, AdmittedModesCompatible DEF OwnModes
  <2>7. CASE Admitted(i) /\ OwnModes(j) = FirstModes(j)
    <3>1. Proceeds(file_table[i].sharemode, file_table[i].openmode,
                   file_table[j].sharemode, file_table[j].openmode)
      BY <2>3, <2>7 DEF Admitted, EntryAdmitted, OwnModes, FirstModes
    <3> QED
      BY <2>2, <3>1, AdmittedModesCompatible DEF OwnModes
  <2> QED
    BY <2>4, <2>5, <2>6, <2>7
<1> QED
  BY <1>1, <1>2, <1>3, TypeCorrect, PTL DEF Spec

-----------------------------------------------------------------------------
(* Locks.                                                                  *)

LocksInv == HeldInv /\ LocksOnOpenFiles /\ LocksDisjointOrNested

\* The part of LocksInv that speaks of one lock and of two.
LockPlaced(k) == lock_table[k].used = 1 => InUse(lock_table[k].fileno)
LocksApart(k, l) ==
  \/ lock_table[k].end <= lock_table[l].start
  \/ lock_table[l].end <= lock_table[k].start
  \/ /\ lock_table[k].start < lock_table[l].start
     /\ lock_table[l].end < lock_table[k].end
  \/ /\ lock_table[l].start < lock_table[k].start
     /\ lock_table[k].end < lock_table[l].end

\* The invariant about locks, taken apart into these parts: close_file and
\* lock_unlock change the table one lock at a time.
LEMMA LocksInvParts ==
  LocksInv <=>
    /\ HeldInv
    /\ ~lockViolated =>
         /\ \A k \in LockNo : LockPlaced(k)
         /\ \A k, l \in LockNo : LockOn(k, l) => LocksApart(k, l)
BY DEF LocksInv, LocksOnOpenFiles, LocksDisjointOrNested, LockPlaced, LocksApart

\* A step that keeps the entries that locks refer to, and adds no lock, keeps
\* the locks apart.
LEMMA LocksKept ==
  ASSUME LocksInv, HeldInv', ~lockViolated' => ~lockViolated,
         ~lockViolated =>
           \A k \in LockNo :
             lock_table'[k].used = 1
               => /\ lock_table'[k] = lock_table[k]
                  /\ file_table'[lock_table[k].fileno].filename
                       = file_table[lock_table[k].fileno].filename
  PROVE  LocksInv'
<1> SUFFICES ASSUME ~lockViolated'
             PROVE  /\ \A k \in LockNo : LockPlaced(k)'
                    /\ \A k, l \in LockNo : LockOn(k, l)' => LocksApart(k, l)'
  BY LocksInvParts DEF LocksInv, LocksOnOpenFiles, LocksDisjointOrNested, LockPlaced, LocksApart
<1>1. /\ \A k \in LockNo : LockPlaced(k)
      /\ \A k, l \in LockNo : LockOn(k, l) => LocksApart(k, l)
  BY LocksInvParts
<1>2. \A k \in LockNo : LockPlaced(k)'
  BY <1>1 DEF LockPlaced, InUse
<1>3. \A k, l \in LockNo : LockOn(k, l)' => LockOn(k, l)
  BY DEF LockOn
<1>4. \A k, l \in LockNo : LockOn(k, l)' => LocksApart(k, l)'
  BY <1>1, <1>3 DEF LocksApart, LockOn
<1> QED
  BY <1>2, <1>4

\* A region that access_check lets through, asked about every owner, is apart
\* from each lock of the file.
LEMMA NoConflictApart ==
  ASSUME TypeOK, NEW fileno, NEW ofs \in Offset, NEW len \in Offset,
         EndOfs(ofs, len) > ofs,
         ~Conflicts(NoPsp, fileno, ofs, len),
         NEW k \in LockNo, lock_table[k].used = 1,
         file_table[fileno].filename = file_table[lock_table[k].fileno].filename
  PROVE  \/ EndOfs(ofs, len) <= lock_table[k].start
         \/ lock_table[k].end <= ofs
         \/ ofs < lock_table[k].start /\ lock_table[k].end < EndOfs(ofs, len)
<1>1. ~Touches(ofs, EndOfs(ofs, len), lock_table[k])
  BY DEF Conflicts
<1>2. lock_table[k] \in LockEntry
  BY DEF TypeOK, TablesTypeOK
<1>3. lock_table[k].start \in Int /\ lock_table[k].end \in Int
  BY <1>2, SharingSizes DEF LockEntry, Offset
<1>4. ofs \in Int /\ EndOfs(ofs, len) \in Int
  BY EndOfsType, SharingSizes DEF Offset
<1> QED
  BY <1>1, <1>3, <1>4 DEF Touches

\* Locking keeps the locks apart.
LEMMA LocksLock ==
  ASSUME LocksInv, HeldInv', NEW s \in Sfts, NEW psp \in Psps, NEW r \in Regions,
         Lock(s, psp, r)
  PROVE  LocksInv'
<1>1. PICK m \in LockNo : m = Min(FreeLocks) /\ lock_table[m].used = 0
  BY ChosenSlots DEF Lock, LockRegion, FreeLocks
<1>2. PICK f \in FileNo : f = shroff[s]
  BY HeldIsFileNo DEF LocksInv, HeldInv, Lock
<1>3. PICK o \in Offset, n \in Offset : o = r[1] /\ n = r[2]
  BY ClientConstants
<1>4. PICK end \in Offset : end = EndOfs(o, n)
  BY EndOfsType
<1> DEFINE lock == [used |-> 1, start |-> o, end |-> end, fileno |-> f, psp |-> psp]
<1>5. /\ lock_table' = [lock_table EXCEPT ![m] = lock]
      /\ end > o
      /\ ~Conflicts(NoPsp, f, o, n)
      /\ UNCHANGED <<file_table, lockViolated>>
  BY <1>1, <1>2, <1>3, <1>4 DEF Lock, LockRegion
<1>6. /\ lock_table'[m] = lock
      /\ \A k \in LockNo : k # m => lock_table'[k] = lock_table[k]
  BY <1>5 DEF LocksInv, HeldInv, TypeOK, TablesTypeOK
<1> SUFFICES ASSUME ~lockViolated
             PROVE  /\ \A k \in LockNo : LockPlaced(k)'
                    /\ \A k, l \in LockNo : LockOn(k, l)' => LocksApart(k, l)'
  BY <1>5
  DEF LocksInv, LocksOnOpenFiles, LocksDisjointOrNested, LockPlaced, LocksApart
<1>7. /\ \A k \in LockNo : LockPlaced(k)
      /\ \A k, l \in LockNo : LockOn(k, l) => LocksApart(k, l)
  BY LocksInvParts
<1>8. \A k \in LockNo : LockPlaced(k)'
  <2>1. InUse(f)
    BY <1>2, HeldInUse DEF LocksInv, HeldInv, Lock, InUse
  <2> QED
    BY <1>5, <1>6, <1>7, <2>1 DEF LockPlaced, InUse
<1>9. ASSUME NEW l \in LockNo, LockOn(m, l)' \/ LockOn(l, m)'
      PROVE  /\ l # m
             /\ \/ end <= lock_table[l].start
                \/ lock_table[l].end <= o
                \/ o < lock_table[l].start /\ lock_table[l].end < end
  <2>1. /\ l # m
        /\ lock_table[l].used = 1
        /\ file_table[f].filename = file_table[lock_table[l].fileno].filename
    BY <1>5, <1>6, <1>9 DEF LockOn
  <2> QED
    BY <1>4, <1>5, <2>1, NoConflictApart DEF LocksInv, HeldInv
<1>10. ASSUME NEW k \in LockNo, NEW l \in LockNo, LockOn(k, l)'
       PROVE  LocksApart(k, l)'
  <2>1. CASE k = m
    BY <1>6, <1>9, <1>10, <2>1 DEF LocksApart
  <2>2. CASE l = m
    BY <1>6, <1>9, <1>10, <2>2 DEF LocksApart
  <2>3. CASE k # m /\ l # m
    BY <1>5, <1>6, <1>7, <1>10, <2>3 DEF LocksApart, LockOn
  <2> QED
    BY <2>1, <2>2, <2>3
<1> QED
  BY <1>8, <1>10

\* Every step keeps the locks on open files and apart.
LEMMA LocksStep == LocksInv /\ HeldInv' /\ [Next]_vars => LocksInv'
<1> SUFFICES ASSUME LocksInv, HeldInv', [Next]_vars PROVE LocksInv'
  OBVIOUS
<1>0. TypeOK /\ EntriesHeld /\ LocksOnOpenFiles
  BY DEF LocksInv, HeldInv
<1>00. \A k \in LockNo : lock_table[k].used = 1 => lock_table[k].fileno \in FileNo \cup {0}
  BY <1>0 DEF TypeOK, TablesTypeOK, LockEntry
<1>01. NoLock.used # 1
  BY DEF NoLock
<1>1. ASSUME NEW s \in Sfts, NEW nm \in Names, NEW psp \in Psps,
             NEW req \in OpenRequests, Open(s, nm, psp, req)
      PROVE  LocksInv'
  <2>1. OpenSlot \in FileNo /\ file_table[OpenSlot].filename = NoName
    BY <1>1, ChosenSlots DEF Open, OpenCheck, OpenAllowed, FreeFiles
  <2>2. /\ file_table' =
             [file_table EXCEPT ![OpenSlot] = OpenEntry(nm, psp, req[1], req[2])]
        /\ UNCHANGED <<lock_table, lockViolated>>
    BY <1>1 DEF Open, OpenCheck
  <2>3. ~lockViolated => \A k \in LockNo : lock_table[k].used = 1 =>
          file_table'[lock_table[k].fileno].filename
            = file_table[lock_table[k].fileno].filename
    <3> SUFFICES ASSUME ~lockViolated, NEW k \in LockNo, lock_table[k].used = 1
                 PROVE  file_table'[lock_table[k].fileno]
                          = file_table[lock_table[k].fileno]
      OBVIOUS
    <3>1. lock_table[k].fileno # OpenSlot
      BY <1>0, <2>1 DEF LocksOnOpenFiles, InUse
    <3> QED
      BY <1>0, <2>2, <3>1 DEF TypeOK, TablesTypeOK
  <2> QED
    BY <2>2, <2>3, LocksKept
<1>2. ASSUME NEW nm \in Names, NEW psp \in Psps, NEW req \in OpenRequests,
             TryOpen(nm, psp, req)
      PROVE  LocksInv'
  <2>1. /\ UNCHANGED <<file_table, lockViolated>>
        /\ \A k \in LockNo : lock_table'[k] \in {NoLock, lock_table[k]}
    BY <1>2 DEF TryOpen, OpenAndClose, RemoveAllLocks
  <2> QED
    BY <1>01, <2>1, LocksKept
<1>3. ASSUME NEW s \in Sfts, Close(s)
      PROVE  LocksInv'
  <2>1. /\ lockViolated' = lockViolated
        /\ file_table' = [file_table EXCEPT ![shroff[s]] = NoFile]
        /\ \A k \in LockNo : lock_table'[k] =
             IF k \in LocksOf(shroff[s]) THEN NoLock ELSE lock_table[k]
    BY <1>3 DEF Close, CloseFile, RemoveAllLocks, FreeFileTableEntry
  <2>2. \A k \in LockNo : lock_table'[k].used = 1 =>
          lock_table'[k] = lock_table[k] /\ lock_table[k].fileno # shroff[s]
    BY <1>01, <2>1 DEF LocksOf
  <2>3. \A k \in LockNo : lock_table'[k].used = 1 =>
          file_table'[lock_table[k].fileno] = file_table[lock_table[k].fileno]
    BY <1>0, <2>1, <2>2 DEF TypeOK, TablesTypeOK
  <2> QED
    BY <2>1, <2>2, <2>3, LocksKept
<1>4. ASSUME NEW s \in Sfts, NEW psp \in Psps, NEW r \in Regions, Lock(s, psp, r)
      PROVE  LocksInv'
  BY <1>4, LocksLock
<1>5. ASSUME NEW s \in Sfts, NEW psp \in Psps, NEW r \in Regions, Unlock(s, psp, r)
      PROVE  LocksInv'
  <2>1. /\ UNCHANGED <<file_table, lockViolated>>
        /\ \A k \in LockNo : lock_table'[k] \in {NoLock, lock_table[k]}
    BY <1>0, <1>5 DEF Unlock, UnlockRegion, TypeOK, TablesTypeOK
  <2> QED
    BY <1>01, <2>1, LocksKept
<1>6. ASSUME NEW s \in Sfts, NEW psp \in Psps, NEW r \in Regions,
             AccessLocked(s, psp, r)
      PROVE  LocksInv'
  BY <1>6 DEF AccessLocked, AccessViolation, LocksInv, LocksOnOpenFiles,
              LocksDisjointOrNested
<1>7. CASE UNCHANGED vars
  BY <1>7, LocksKept DEF vars, tables
<1> QED
  BY <1>1, <1>2, <1>3, <1>4, <1>5, <1>6, <1>7 DEF Next

\* The tables start without a lock.
LEMMA LocksInit == Init => LocksInv
<1> SUFFICES ASSUME Init PROVE LocksInv
  OBVIOUS
<1>1. \A k \in LockNo : lock_table[k].used # 1
  BY DEF Init, TablesInit, NoLock
<1> QED
  BY <1>1, HeldInit DEF LocksInv, LocksOnOpenFiles, LocksDisjointOrNested, LockOn

\* The invariant of the locks, with that of the entries that it needs.
LEMMA LocksInvariant == Spec => []LocksInv
<1>1. Init => HeldInv /\ LocksInv
  BY HeldInit, LocksInit
<1>2. HeldInv /\ LocksInv /\ [Next]_vars => HeldInv' /\ LocksInv'
  BY HeldStep, LocksStep
<1> QED
  BY <1>1, <1>2, PTL DEF Spec

\* Until a lock violation every lock belongs to an entry in use: no lock
\* outlives the close of its file.
THEOREM LocksBelongToOpenFiles == Spec => []LocksOnOpenFiles
<1>1. LocksInv => LocksOnOpenFiles
  BY DEF LocksInv
<1> QED
  BY <1>1, LocksInvariant, PTL

\* Until a lock violation overlapping locks of one file are strictly nested,
\* whatever regions are asked for and however they wrap around.
THEOREM LocksAreDisjointOrNested == Spec => []LocksDisjointOrNested
<1>1. LocksInv => LocksDisjointOrNested
  BY DEF LocksInv
<1> QED
  BY <1>1, LocksInvariant, PTL
=============================================================================
