--------------------------- MODULE DosFilesProofs ---------------------------
(***************************************************************************)
(* Theorems about DosFiles, for every set of names and processes and every *)
(* table size: the kernel is a client of SHARE as Share assumes, and what  *)
(* is proved of Share holds of the kernel.  The second half is about the   *)
(* reference counts: what the handle tables and the FCBs of all processes  *)
(* have to do with the counts in the system file table.                    *)
(***************************************************************************)
EXTENDS DosFiles, ShareTablesProofs, FiniteSetTheorems, TLAPS

-----------------------------------------------------------------------------
(* What a step does to the system file table and to SHARE.                 *)

\* The entry numbers that the SFTs hold: the client state of Share.
Shroffs == [s \in Sft |-> sft[s].shroff]

\* The part of KernelTypeOK that is about the SFTs.
SftOK ==
  /\ sft \in [Sft -> SftEntry]
  /\ \A s \in Sft : sft[s].count = 0 => sft[s].shroff = NoFileNo

\* The SFTs of S that still hold an entry of SHARE are about the same file and
\* process.
FilesKept(S) ==
  \A t \in S : sft'[t].shroff >= 0 =>
    sft'[t].file = sft[t].file /\ sft'[t].psp = sft[t].psp

\* What a call asks of SHARE, in the terms of Share's client.
AsksOpen ==
  \E s \in Sft, nm \in Names, req \in SystemRequests :
    /\ sft[s].count = 0
    /\ OpenCheck(nm, cu_psp, req[1], req[2])
    /\ Shroffs' = [Shroffs EXCEPT ![s] = OpenSlot]
    /\ sft'[s].file = nm /\ sft'[s].psp = cu_psp
    /\ FilesKept(Sft \ {s})
    /\ nm \in files' \/ leaked'

AsksTry ==
  \E nm \in Names, req \in SystemRequests :
    /\ OpenAndClose(nm, cu_psp, req[1], req[2])
    /\ Shroffs' = Shroffs /\ FilesKept(Sft)

AsksClose ==
  \E s \in Sft :
    /\ LastClose(s)
    /\ CloseFile(sft[s].shroff)
    /\ Shroffs' = [Shroffs EXCEPT ![s] = NoFileNo]
    /\ FilesKept(Sft)

AsksLocks ==
  /\ \E s \in Sft, r \in Regions :
       /\ sft[s].shroff >= 0
       /\ \/ LockRegion(cu_psp, sft[s].shroff, r[1], r[2])
          \/ UnlockRegion(cu_psp, sft[s].shroff, r[1], r[2])
          \/ /\ file_table_free < FileTableSize + MaxDrift
             /\ AccessViolation(cu_psp, sft[s].shroff, r[1], r[2])
  /\ Shroffs' = Shroffs /\ FilesKept(Sft)

AsksNothing == UNCHANGED tables /\ Shroffs' = Shroffs /\ FilesKept(Sft)

SftStep ==
  /\ SftOK'
  /\ AsksOpen \/ AsksTry \/ AsksClose \/ AsksLocks \/ AsksNothing

\* The first free SFT is one.
LEMMA ChosenSft ==
  FreeSfts # {} => /\ Min(FreeSfts) \in Sft
                   /\ sft[Min(FreeSfts)].count = 0
<1>1. FreeSfts \subseteq Nat
  BY KernelConstants DEF FreeSfts, Sft
<1>2. FreeSfts # {} => Min(FreeSfts) \in FreeSfts
  BY <1>1, MinOfSlots
<1>3. QED
  BY <1>2 DEF FreeSfts

\* Requests are triples.
LEMMA RequestType == \A req \in SystemRequests : req[3] \in BOOLEAN
<1>1. \A req \in OpenRequests : req[3] \in BOOLEAN
  BY KernelConstants
<1>2. ReadOnlyCompat[3] = TRUE /\ ReadWriteCompat[3] = TRUE
  BY DEF ReadOnlyCompat, ReadWriteCompat
<1>3. QED
  BY <1>1, <1>2 DEF SystemRequests

\* The first free handle is one.
LEMMA ChosenHandle ==
  ASSUME cu_psp \in Psps, psp \in [Psps -> Process], FreeHandles # {}
  PROVE  Min(FreeHandles) \in Handle
<1>1. psp[cu_psp].maxfiles \in 0 .. MaxFiles
  BY DEF Process
<1>2. FreeHandles \subseteq Nat /\ FreeHandles \subseteq Handle
  BY <1>1, KernelConstants DEF FreeHandles, Handle
<1>3. QED
  BY <1>2, MinOfSlots

\* An SFT that is filled in has its type.
LEMMA OpenedSftType ==
  ASSUME cu_psp \in Psps, NEW target \in Target, NEW req, req[3] \in BOOLEAN,
         NEW fcb \in BOOLEAN, NEW n \in FileNo \cup {NoFileNo}
  PROVE  /\ OpenedSft(target, req, fcb, n) \in SftEntry
         /\ OpenedSft(target, req, fcb, n).count = 1
         /\ OpenedSft(target, req, fcb, n).shroff = n
         /\ OpenedSft(target, req, fcb, n).file = target
         /\ OpenedSft(target, req, fcb, n).psp = cu_psp
BY KernelConstants DEF OpenedSft, SftEntry

\* An SFT with one reference less has its type, and keeps the number of its
\* entry unless that is given back.
LEMMA ReleasedType ==
  ASSUME SftOK, NEW s \in Sft, sft[s].count > 0
  PROVE  /\ Released(s) \in SftEntry
         /\ Released(s).count = sft[s].count - 1
         /\ Released(s).count = 0 => Released(s).shroff = NoFileNo
         /\ Released(s).shroff = IF LastClose(s) THEN NoFileNo ELSE sft[s].shroff
         /\ Released(s).shroff >= 0 => /\ Released(s).file = sft[s].file
                                       /\ Released(s).psp = sft[s].psp
<1>1. sft[s] \in SftEntry
  BY DEF SftOK
<1>2. sft[s].count \in 1 .. MaxCount
  BY <1>1, KernelConstants DEF SftEntry
<1>3. sft[s].shroff \in FileNo \cup {-1}
  BY <1>1 DEF SftEntry, NoFileNo
<1>4. CASE sft[s].count = 1
  <2>1. Released(s) = FreeSft
    BY <1>4 DEF Released
  <2>2. FreeSft \in SftEntry
    BY KernelConstants DEF FreeSft, SftEntry
  <2>3. sft[s].shroff >= 0 \/ sft[s].shroff = NoFileNo
    BY <1>3, SharingSizes DEF FileNo, NoFileNo
  <2>4. QED
    BY <1>4, <2>1, <2>2, <2>3 DEF FreeSft, LastClose, NoFileNo
<1>5. CASE sft[s].count # 1
  <2>1. Released(s) = [sft[s] EXCEPT !.count = @ - 1]
    BY <1>5 DEF Released
  <2>2. sft[s].count - 1 \in 1 .. MaxCount
    BY <1>2, <1>5, KernelConstants
  <2>3. QED
    BY <1>1, <1>5, <2>1, <2>2, KernelConstants DEF SftEntry, LastClose
<1>6. QED
  BY <1>4, <1>5

\* DosCloseSft asks SHARE at most to close the entry that it forgets.
LEMMA CloseSftStep ==
  ASSUME SftOK, NEW s \in Sft, DosCloseSft(s)
  PROVE  SftStep
<1>1. /\ sft[s].count > 0
      /\ sft' = [sft EXCEPT ![s] = Released(s)]
      /\ ReleaseEntry(s)
  BY DEF DosCloseSft
<1>2. SftOK'
  BY <1>1, ReleasedType DEF SftOK
<1>3. CASE LastClose(s)
  <2>1. Shroffs' = [Shroffs EXCEPT ![s] = NoFileNo] /\ FilesKept(Sft)
    BY <1>1, <1>3, ReleasedType DEF Shroffs, SftOK, FilesKept
  <2>2. QED
    BY <1>1, <1>2, <1>3, <2>1 DEF SftStep, AsksClose, ReleaseEntry
<1>4. CASE ~LastClose(s)
  <2>1. Shroffs' = Shroffs /\ FilesKept(Sft)
    BY <1>1, <1>4, ReleasedType DEF Shroffs, SftOK, FilesKept
  <2>2. QED
    BY <1>1, <1>2, <1>4, <2>1 DEF SftStep, AsksNothing, ReleaseEntry
<1>5. QED
  BY <1>3, <1>4

\* An SFT that opens a device: sft_shroff stays -1.
LEMMA OpenDeviceStep ==
  ASSUME SftOK, cu_psp \in Psps, FreeSfts # {}, NEW req, req[3] \in BOOLEAN,
         NEW fcb \in BOOLEAN, OpenDevice(Min(FreeSfts), req, fcb)
  PROVE  SftStep
<1>1. PICK s \in Sft : s = Min(FreeSfts) /\ sft[s].shroff = NoFileNo
  BY ChosenSft DEF SftOK
<1>2. PICK e \in SftEntry : /\ e = OpenedSft(Device, req, fcb, NoFileNo)
                            /\ e.count = 1 /\ e.shroff = NoFileNo
  BY OpenedSftType DEF Target
<1>3. sft' = [sft EXCEPT ![s] = e] /\ UNCHANGED tables
  BY <1>1, <1>2 DEF OpenDevice
<1>4. /\ SftOK' /\ FilesKept(Sft)
      /\ Shroffs' = [Shroffs EXCEPT ![s] = NoFileNo]
  <2>1. \A t \in Sft : sft'[t] = IF t = s THEN e ELSE sft[t]
    BY <1>3 DEF SftOK
  <2>2. SftOK'
    BY <1>2, <1>3, <2>1 DEF SftOK
  <2>3. FilesKept(Sft)
    BY <1>2, <2>1 DEF FilesKept, NoFileNo
  <2>4. QED
    BY <1>2, <2>1, <2>2, <2>3 DEF Shroffs
<1>5. Shroffs' = Shroffs
  BY <1>1, <1>4 DEF Shroffs
<1>6. QED
  BY <1>3, <1>4, <1>5 DEF SftStep, AsksNothing

\* An SFT that opens a file: sft_shroff gets the number of a free entry.
LEMMA OpenFileStep ==
  ASSUME SftOK, cu_psp \in Psps,
         NEW base \in [Sft -> SftEntry],
         \A t \in Sft : /\ base[t].shroff = sft[t].shroff
                        /\ base[t].count = 0 => sft[t].count = 0
                        /\ base[t].file = sft[t].file
                        /\ base[t].psp = sft[t].psp,
         FreeSfts # {}, NEW nm \in Names, NEW req \in SystemRequests,
         NEW fcb \in BOOLEAN,
         OpenCheck(nm, cu_psp, req[1], req[2]), nm \in files' \/ leaked',
         sft' = [base EXCEPT ![Min(FreeSfts)] = OpenedSft(nm, req, fcb, OpenSlot)]
  PROVE  SftStep
<1>1. PICK s \in Sft : s = Min(FreeSfts) /\ sft[s].count = 0
  BY ChosenSft
<1>2. PICK n \in FileNo : n = OpenSlot
  <2>1. FreeFiles # {}
    BY DEF OpenCheck, OpenAllowed
  <2>2. FreeFiles # {} => OpenSlot \in FreeFiles
    BY ChosenSlots
  <2>3. QED
    BY <2>1, <2>2 DEF FreeFiles
<1>3. PICK e \in SftEntry :
        /\ e = OpenedSft(nm, req, fcb, n) /\ e.count = 1 /\ e.shroff = n
        /\ e.file = nm /\ e.psp = cu_psp
  <2>1. nm \in Target /\ req[3] \in BOOLEAN
    BY RequestType DEF Target
  <2>2. QED
    BY <1>2, <2>1, OpenedSftType
<1>4. sft' = [base EXCEPT ![s] = e]
  BY <1>1, <1>2, <1>3
<1>5. /\ SftOK' /\ Shroffs' = [Shroffs EXCEPT ![s] = n]
      /\ sft'[s].file = nm /\ sft'[s].psp = cu_psp /\ FilesKept(Sft \ {s})
  <2>1. \A t \in Sft : sft'[t] = IF t = s THEN e ELSE base[t]
    BY <1>4
  <2>2. SftOK'
    <3>1. sft' \in [Sft -> SftEntry]
      BY <1>4
    <3>2. \A t \in Sft : sft'[t].count = 0 => sft'[t].shroff = NoFileNo
      BY <1>3, <2>1 DEF SftOK
    <3>3. QED
      BY <3>1, <3>2 DEF SftOK
  <2>3. FilesKept(Sft \ {s})
    BY <2>1 DEF FilesKept
  <2>4. Shroffs' = [Shroffs EXCEPT ![s] = n]
    BY <1>3, <2>1 DEF Shroffs
  <2>5. QED
    BY <1>3, <2>1, <2>2, <2>3, <2>4
<1>6. QED
  BY <1>1, <1>2, <1>5 DEF SftStep, AsksOpen

\* The SFTs whose references child_psp has counted have their types and the
\* entry numbers they had.
LEMMA ClonedSftsType ==
  ASSUME SftOK, CanClone
  PROVE  /\ ClonedSfts \in [Sft -> SftEntry]
         /\ \A s \in Sft :
              /\ ClonedSfts[s].shroff = sft[s].shroff
              /\ ClonedSfts[s].count = 0 => sft[s].count = 0
              /\ ClonedSfts[s].file = sft[s].file
              /\ ClonedSfts[s].psp = sft[s].psp
<1>1. ASSUME NEW s \in Sft
      PROVE  /\ ClonedSfts[s] \in SftEntry
             /\ ClonedSfts[s].shroff = sft[s].shroff
             /\ ClonedSfts[s].count = 0 => sft[s].count = 0
             /\ ClonedSfts[s].file = sft[s].file
             /\ ClonedSfts[s].psp = sft[s].psp
  <2> DEFINE C == {h \in 0 .. PspFiles - 1 : Cloned(h) /\ SftOf(h) = s}
  <2>1. PICK n \in Nat : n = Cardinality(C)
    <3>1. IsFiniteSet(0 .. PspFiles - 1)
      BY FS_Interval, KernelConstants
    <3>2. IsFiniteSet(C)
      BY <3>1, FS_Subset
    <3>3. QED
      BY <3>2, FS_CardinalityType
  <2>2. ClonedSfts[s] = [sft[s] EXCEPT !.count = @ + n]
    BY <2>1 DEF ClonedSfts
  <2>3. sft[s] \in SftEntry
    BY DEF SftOK
  <2>4. ClonedSfts[s].count <= MaxCount
    BY DEF CanClone
  <2>5. sft[s].count \in Nat
    BY <2>3, KernelConstants DEF SftEntry
  <2>6. ClonedSfts[s].count = sft[s].count + n
    BY <2>2, <2>3 DEF SftEntry
  <2>7. sft[s].count + n \in 0 .. MaxCount
    BY <2>4, <2>5, <2>6, KernelConstants
  <2>8. ClonedSfts[s] \in SftEntry
    BY <2>2, <2>3, <2>7 DEF SftEntry
  <2>9. /\ ClonedSfts[s].shroff = sft[s].shroff
        /\ ClonedSfts[s].file = sft[s].file
        /\ ClonedSfts[s].psp = sft[s].psp
    BY <2>2, <2>3 DEF SftEntry
  <2>10. QED
    BY <2>5, <2>6, <2>8, <2>9
<1>2. ClonedSfts = [s \in Sft |-> ClonedSfts[s]]
  BY DEF ClonedSfts
<1>3. QED
  BY <1>1, <1>2

\* Counting the references of a child asks SHARE nothing.
LEMMA ClonedSftStep ==
  ASSUME SftOK, CanClone, sft' = ClonedSfts
  PROVE  SftOK' /\ Shroffs' = Shroffs /\ FilesKept(Sft)
<1>1. PICK base \in [Sft -> SftEntry] :
        /\ base = ClonedSfts
        /\ \A s \in Sft : /\ base[s].shroff = sft[s].shroff
                          /\ base[s].count = 0 => sft[s].count = 0
                          /\ base[s].file = sft[s].file
                          /\ base[s].psp = sft[s].psp
  BY ClonedSftsType
<1>2. sft' = base
  BY <1>1
<1>3. QED
  BY <1>1, <1>2 DEF SftOK, Shroffs, FilesKept

\* One more reference to an SFT that is in use.
LEMMA CountedSft ==
  ASSUME SftOK, NEW s \in Sft, sft[s].count > 0, sft[s].count < MaxCount
  PROVE  LET e == [sft[s] EXCEPT !.count = @ + 1]
         IN  /\ e \in SftEntry
             /\ e.count > 0
             /\ e.shroff = sft[s].shroff
             /\ e.file = sft[s].file /\ e.psp = sft[s].psp
<1>1. sft[s] \in SftEntry
  BY DEF SftOK
<1>2. sft[s].count + 1 \in 0 .. MaxCount
  BY <1>1, KernelConstants DEF SftEntry
<1>3. QED
  BY <1>1, <1>2, KernelConstants DEF SftEntry

\* DosForceDup asks SHARE at most to close the file of the new handle.
LEMMA ForceDupStep ==
  ASSUME SftOK, cu_psp \in Psps, psp \in [Psps -> Process],
         NEW old \in Handle, NEW new \in Handle, DosForceDup(old, new)
  PROVE  SftStep
<1>1. PICK s \in Sft : s = SftOf(old) /\ sft[s].count > 0 /\ sft[s].count < MaxCount
  <2>1. SftOf(old) \in Sft
    BY DEF DosForceDup, OpenHandle, SftOf, Process
  <2>2. QED
    BY <2>1 DEF DosForceDup, OpenHandle
<1>2. CASE SftOf(new) = NoSft
  <2>1. sft' = [sft EXCEPT ![s].count = @ + 1] /\ UNCHANGED tables
    BY <1>1, <1>2 DEF DosForceDup, OpenHandle
  <2>2. PICK e \in SftEntry : /\ e = [sft[s] EXCEPT !.count = @ + 1]
                              /\ e.count > 0 /\ e.shroff = sft[s].shroff
                              /\ e.file = sft[s].file /\ e.psp = sft[s].psp
    BY <1>1, CountedSft
  <2>3. sft' = [sft EXCEPT ![s] = e]
    BY <1>1, <2>1, <2>2 DEF SftOK, SftEntry
  <2>4. \A t \in Sft : sft'[t] = IF t = s THEN e ELSE sft[t]
    BY <2>3 DEF SftOK
  <2>5. SftOK' /\ Shroffs' = Shroffs /\ FilesKept(Sft)
    BY <2>2, <2>3, <2>4 DEF SftOK, Shroffs, FilesKept
  <2>6. QED
    BY <2>1, <2>5 DEF SftStep, AsksNothing

<1>3. CASE SftOf(new) # NoSft /\ SftOf(new) = SftOf(old)
  <2>1. /\ sft' = [sft EXCEPT ![s].shroff = IF LastClose(s) THEN NoFileNo ELSE @]
        /\ ReleaseEntry(s)
    BY <1>1, <1>3 DEF DosForceDup
  <2>2. CASE LastClose(s)
    <3>1. PICK e \in SftEntry : /\ e = [sft[s] EXCEPT !.shroff = NoFileNo]
                                /\ e.shroff = NoFileNo
      <4>1. sft[s] \in SftEntry
        BY DEF SftOK
      <4>2. [sft[s] EXCEPT !.shroff = NoFileNo] \in SftEntry
        BY <4>1 DEF SftEntry
      <4>3. QED
        BY <4>1, <4>2 DEF SftEntry
    <3>2. sft' = [sft EXCEPT ![s] = e]
      BY <2>1, <2>2, <3>1 DEF SftOK
    <3>3. \A t \in Sft : sft'[t] = IF t = s THEN e ELSE sft[t]
      BY <3>2 DEF SftOK
    <3>4. /\ SftOK' /\ Shroffs' = [Shroffs EXCEPT ![s] = NoFileNo]
          /\ FilesKept(Sft)
      <4>1. SftOK'
        BY <3>1, <3>2, <3>3 DEF SftOK
      <4>2. Shroffs' = [Shroffs EXCEPT ![s] = NoFileNo]
        BY <3>1, <3>3 DEF Shroffs
      <4>3. FilesKept(Sft)
        <5>1. ~(sft'[s].shroff >= 0)
          <6>1. sft'[s].shroff = NoFileNo
            BY <3>1, <3>3
          <6>2. QED
            BY <6>1 DEF NoFileNo
        <5>2. \A t \in Sft \ {s} : sft'[t] = sft[t]
          BY <3>3
        <5>3. QED
          BY <5>1, <5>2 DEF FilesKept
      <4>4. QED
        BY <4>1, <4>2, <4>3
    <3>5. QED
      BY <2>1, <2>2, <3>4 DEF SftStep, AsksClose, ReleaseEntry
  <2>3. CASE ~LastClose(s)
    <3>1. sft' = sft
      BY <2>1, <2>3 DEF SftOK, SftEntry
    <3>2. SftOK' /\ Shroffs' = Shroffs /\ FilesKept(Sft)
      BY <3>1 DEF SftOK, Shroffs, FilesKept
    <3>3. QED
      BY <2>1, <2>3, <3>2 DEF SftStep, AsksNothing, ReleaseEntry
  <2>4. QED
    BY <2>2, <2>3
<1>4. CASE SftOf(new) # NoSft /\ SftOf(new) # SftOf(old)
  <2>1. PICK t \in Sft : t = SftOf(new) /\ t # s /\ sft[t].count > 0
    <3>1. SftOf(new) \in Sft
      BY <1>4 DEF SftOf, Process
    <3>2. QED
      BY <1>1, <1>4, <3>1 DEF DosForceDup, OpenHandle
  <2>2. /\ sft' = [sft EXCEPT ![t] = Released(t), ![s].count = @ + 1]
        /\ ReleaseEntry(t)
    BY <1>1, <1>4, <2>1 DEF DosForceDup
  <2>3. PICK d \in SftEntry :
          /\ d = Released(t)
          /\ d.count = 0 => d.shroff = NoFileNo
          /\ d.shroff = IF LastClose(t) THEN NoFileNo ELSE sft[t].shroff
          /\ d.shroff >= 0 => d.file = sft[t].file /\ d.psp = sft[t].psp
    BY <2>1, ReleasedType
  <2>4. PICK e \in SftEntry : /\ e = [sft[s] EXCEPT !.count = @ + 1]
                              /\ e.count > 0 /\ e.shroff = sft[s].shroff
                              /\ e.file = sft[s].file /\ e.psp = sft[s].psp
    BY <1>1, CountedSft
  <2>5. sft' = [sft EXCEPT ![t] = d, ![s] = e]
    BY <2>1, <2>2, <2>3, <2>4 DEF SftOK
  <2>6. \A u \in Sft : sft'[u] = IF u = s THEN e ELSE IF u = t THEN d ELSE sft[u]
    BY <2>5 DEF SftOK
  <2>7. SftOK'
    BY <2>3, <2>4, <2>5, <2>6 DEF SftOK
  <2>8. CASE LastClose(t)
    <3>1. Shroffs' = [Shroffs EXCEPT ![t] = NoFileNo] /\ FilesKept(Sft)
      BY <2>1, <2>3, <2>4, <2>6, <2>8 DEF Shroffs, FilesKept
    <3>2. QED
      BY <2>2, <2>7, <2>8, <3>1 DEF SftStep, AsksClose, ReleaseEntry
  <2>9. CASE ~LastClose(t)
    <3>1. Shroffs' = Shroffs /\ FilesKept(Sft)
      BY <2>3, <2>4, <2>6, <2>9 DEF Shroffs, FilesKept
    <3>2. QED
      BY <2>2, <2>7, <2>9, <3>1 DEF SftStep, AsksNothing, ReleaseEntry
  <2>10. QED
    BY <2>8, <2>9
<1>5. QED
  BY <1>2, <1>3, <1>4

\* A step that leaves the tables of SHARE and the SFTs alone.
LEMMA QuietStep == SftOK /\ UNCHANGED <<tables, sft>> => SftStep
BY DEF SftOK, SftStep, AsksNothing, Shroffs, FilesKept

\* DosClose, its failure included.
LEMMA CloseStep ==
  ASSUME SftOK, psp \in [Psps -> Process], cu_psp \in Psps, NEW h \in Handle,
         DosClose(h) \/ DosCloseFault(h)
  PROVE  SftStep
<1>1. CASE DosClose(h)
  <2>1. SftOf(h) \in Sft
    BY <1>1 DEF DosClose, OpenHandle, SftOf, Process
  <2>2. QED
    BY <1>1, <2>1, CloseSftStep DEF DosClose
<1>2. CASE DosCloseFault(h)
  BY <1>2, QuietStep DEF DosCloseFault
<1>3. QED
  BY <1>1, <1>2

\* DosOpenSft of a device or of a file.
LEMMA OpenSftStep ==
  ASSUME SftOK, cu_psp \in Psps, NEW s \in Sft,
         NEW target \in Target, NEW req \in SystemRequests, NEW fcb \in BOOLEAN,
         DosOpenSft(s, target, req, fcb)
  PROVE  SftStep
<1>1. FreeSfts # {} /\ s = Min(FreeSfts)
  BY DEF DosOpenSft
<1>2. CASE target = Device
  <2>1. OpenDevice(Min(FreeSfts), req, fcb) /\ req[3] \in BOOLEAN
    BY <1>1, <1>2, RequestType DEF DosOpenSft
  <2>2. QED
    BY <1>1, <2>1, OpenDeviceStep
<1>3. CASE target # Device
  <2>1. target \in Names
    BY <1>3 DEF Target
  <2>2. /\ OpenCheck(target, cu_psp, req[1], req[2])
        /\ sft' = [sft EXCEPT ![Min(FreeSfts)] =
                     OpenedSft(target, req, fcb, OpenSlot)]
        /\ target \in files'
    BY <1>1, <1>3 DEF DosOpenSft, OpenFile
  <2>3. QED
    BY <1>1, <2>1, <2>2, OpenFileStep DEF SftOK
<1>4. QED
  BY <1>2, <1>3

\* An open that leaves its SFT in use.
LEMMA OpenLeaksStep ==
  ASSUME SftOK, cu_psp \in Psps, NEW target \in Target,
         NEW req \in SystemRequests, NEW fcb \in BOOLEAN,
         DosOpenLeaks(target, req, fcb)
  PROVE  SftStep
<1>1. FreeSfts # {}
  BY DEF DosOpenLeaks
<1>2. CASE target = Device
  <2>1. OpenDevice(Min(FreeSfts), req, fcb) /\ req[3] \in BOOLEAN
    BY <1>2, RequestType DEF DosOpenLeaks
  <2>2. QED
    BY <1>1, <2>1, OpenDeviceStep
<1>3. CASE target # Device
  <2>1. target \in Names
    BY <1>3 DEF Target
  <2>2. /\ OpenCheck(target, cu_psp, req[1], req[2])
        /\ sft' = [sft EXCEPT ![Min(FreeSfts)] =
                     OpenedSft(target, req, fcb, OpenSlot)]
        /\ leaked'
    BY <1>3 DEF DosOpenLeaks, OpenFile, Leak
  <2>3. QED
    BY <1>1, <2>1, <2>2, OpenFileStep DEF SftOK
<1>4. QED
  BY <1>2, <1>3

\* An open of a file that is closed at once.
LEMMA TryStep ==
  ASSUME SftOK, NEW nm \in Names, NEW req \in SystemRequests,
         OpenAndClose(nm, cu_psp, req[1], req[2]),
         SftOK' /\ Shroffs' = Shroffs /\ FilesKept(Sft)
  PROVE  SftStep
BY DEF SftStep, AsksTry

\* A call of a program asks SHARE for one thing at most.
LEMMA CallSftStep ==
  ASSUME KernelTypeOK, Call
  PROVE  SftStep
<1>1. SftOK
  BY DEF KernelTypeOK, SftOK
<1>2. cu_psp \in Psps /\ psp \in [Psps -> Process]
  BY DEF KernelTypeOK
<1>3. \A nm \in Names : nm \in Target
  BY DEF Target
<1>4. ReadWriteCompat \in SystemRequests /\ ReadOnlyCompat \in SystemRequests
  BY DEF SystemRequests
<1>5. ASSUME NEW target \in Target, NEW req \in OpenRequests,
             DosOpen(target, req) \/ DosOpenLeaks(target, req, FALSE)
      PROVE  SftStep
  <2>1. req \in SystemRequests
    BY DEF SystemRequests
  <2>2. CASE DosOpen(target, req)
    <3>1. PICK s \in Sft : DosOpenSft(s, target, req, FALSE)
      BY <2>2 DEF DosOpen
    <3>2. QED
      BY <1>1, <1>2, <2>1, <3>1, OpenSftStep
  <2>3. CASE DosOpenLeaks(target, req, FALSE)
    BY <1>1, <1>2, <2>1, <2>3, OpenLeaksStep
  <2>4. QED
    BY <1>5, <2>2, <2>3
<1>6. ASSUME NEW target \in Target,
             FcbOpen(target) \/ DosOpenLeaks(target, ReadWriteCompat, TRUE)
      PROVE  SftStep
  <2>1. CASE FcbOpen(target)
    <3>1. PICK s \in Sft : DosOpenSft(s, target, ReadWriteCompat, TRUE)
      BY <2>1 DEF FcbOpen
    <3>2. QED
      BY <1>1, <1>2, <1>4, <3>1, OpenSftStep
  <2>2. CASE DosOpenLeaks(target, ReadWriteCompat, TRUE)
    BY <1>1, <1>2, <1>4, <2>2, OpenLeaksStep
  <2>3. QED
    BY <1>6, <2>1, <2>2
<1>7. ASSUME NEW nm \in Names, DosOpenLeaks(nm, ReadOnlyCompat, FALSE)
      PROVE  SftStep
  BY <1>1, <1>2, <1>3, <1>4, <1>7, OpenLeaksStep
<1>8. ASSUME NEW nm \in Names, NEW req \in SystemRequests, DosOpenFails(nm, req)
      PROVE  SftStep
  <2>1. OpenAndClose(nm, cu_psp, req[1], req[2]) /\ sft' = sft
    BY <1>8 DEF DosOpenFails, kernel
  <2>2. SftOK' /\ Shroffs' = Shroffs /\ FilesKept(Sft)
    BY <1>1, <2>1 DEF SftOK, Shroffs, FilesKept
  <2>3. QED
    BY <1>1, <2>1, <2>2, TryStep
<1>9. ASSUME NEW h \in Handle, Close(h)
      PROVE  SftStep
  BY <1>1, <1>2, <1>9, CloseStep DEF Close
<1>10. ASSUME NEW old \in Handle, NEW new \in Handle, DosForceDup(old, new)
       PROVE  SftStep
  BY <1>1, <1>2, <1>10, ForceDupStep
<1>11. ASSUME NEW h \in Handle, DosDup(h)
       PROVE  SftStep
  BY <1>2, <1>10, <1>11, ChosenHandle DEF DosDup
<1>12. ASSUME NEW h \in Handle, NEW r \in Regions,
              DosRWSft(h, r) \/ \E unlock \in BOOLEAN : DosLockUnlock(h, r, unlock)
       PROVE  SftStep
  <2>1. PICK s \in Sft : s = SftOf(h) /\ sft[s].shroff >= 0
    <3>1. OpenHandle(h) /\ sft[SftOf(h)].shroff >= 0
      BY <1>12 DEF DosRWSft, DosLockUnlock
    <3>2. SftOf(h) \in Sft
      BY <1>2, <3>1 DEF OpenHandle, SftOf, Process
    <3>3. QED
      BY <3>1, <3>2
  <2>2. sft' = sft
    BY <1>12 DEF DosRWSft, DosLockUnlock, kernel
  <2>3. SftOK' /\ Shroffs' = Shroffs /\ FilesKept(Sft)
    BY <1>1, <2>2 DEF SftOK, Shroffs, FilesKept
  <2>4. AsksLocks
    BY <1>12, <2>1, <2>3 DEF AsksLocks, DosRWSft, DosLockUnlock
  <2>5. QED
    BY <2>3, <2>4 DEF SftStep
<1>13. ASSUME NEW n \in TableSizes, SetJFTSize(n)
       PROVE  SftStep
  BY <1>1, <1>13, QuietStep DEF SetJFTSize
<1>14. ASSUME NEW s \in Sft, FcbClose(s)
       PROVE  SftStep
  <2>1. DosCloseSft(s) \/ UNCHANGED <<tables, sft>>
    BY <1>14 DEF FcbClose
  <2>2. QED
    BY <1>1, <2>1, CloseSftStep, QuietStep
<1>15. ASSUME NEW nm \in Names, DosDelete(nm) \/ \E new \in Names : DosRename(nm, new)
       PROVE  SftStep
  BY <1>1, <1>15, QuietStep DEF DosDelete, DosRename
<1>16. ASSUME NEW nm \in Names, DosSetFattr(nm)
       PROVE  SftStep
  <2>1. OpenAndClose(nm, cu_psp, ReadWriteCompat[1], ReadWriteCompat[2]) /\ sft' = sft
    BY <1>16 DEF DosSetFattr
  <2>2. SftOK' /\ Shroffs' = Shroffs /\ FilesKept(Sft)
    BY <1>1, <2>1 DEF SftOK, Shroffs, FilesKept
  <2>3. QED
    BY <1>1, <1>4, <2>1, <2>2, TryStep
<1>17. ASSUME NEW nm \in Names,
              ComNoMemory(nm) \/ \E p \in Psps : DosExec(p, nm)
       PROVE  SftStep
  <2>1. /\ OpenAndClose(nm, cu_psp, ReadOnlyCompat[1], ReadOnlyCompat[2])
        /\ CanClone /\ sft' = ClonedSfts
    BY <1>17 DEF ComNoMemory, DosExec
  <2>2. SftOK' /\ Shroffs' = Shroffs /\ FilesKept(Sft)
    BY <1>1, <2>1, ClonedSftStep
  <2>3. QED
    BY <1>1, <1>4, <2>1, <2>2, TryStep
<1>18. ASSUME NEW p \in Psps, CreatePsp(p)
       PROVE  SftStep
  <2>1. CanClone /\ sft' = ClonedSfts /\ UNCHANGED tables
    BY <1>18 DEF CreatePsp
  <2>2. QED
    BY <1>1, <2>1, ClonedSftStep DEF SftStep, AsksNothing
<1>19. ASSUME NEW p \in Psps, NEW nm \in Names, DosExecLeaks(p, nm)
       PROVE  SftStep
  <2>1. /\ FreeSfts # {} /\ CanClone
        /\ OpenCheck(nm, cu_psp, ReadOnlyCompat[1], ReadOnlyCompat[2])
        /\ sft' = [ClonedSfts EXCEPT
             ![Min(FreeSfts)] = OpenedSft(nm, ReadOnlyCompat, FALSE, OpenSlot)]
        /\ leaked'
    BY <1>19 DEF DosExecLeaks, Leak
  <2>2. PICK base \in [Sft -> SftEntry] :
          /\ base = ClonedSfts
          /\ \A t \in Sft : /\ base[t].shroff = sft[t].shroff
                            /\ base[t].count = 0 => sft[t].count = 0
                            /\ base[t].file = sft[t].file
                            /\ base[t].psp = sft[t].psp
    BY <1>1, <2>1, ClonedSftsType
  <2>3. QED
    BY <1>1, <1>2, <1>4, <2>1, <2>2, OpenFileStep
<1>20. CASE KeepProgram \/ EndProgram
  BY <1>1, <1>20, QuietStep DEF KeepProgram, EndProgram
<1>21. QED
  BY <1>5, <1>6, <1>7, <1>8, <1>9, <1>10, <1>11, <1>12, <1>13, <1>14, <1>15,
     <1>16, <1>17, <1>18, <1>19, <1>20 DEF Call

\* So does each step of a loop that closes files.
LEMMA LoopSftStep ==
  ASSUME KernelTypeOK, Loop
  PROVE  SftStep
<1>1. SftOK
  BY DEF KernelTypeOK, SftOK
<1>2. cu_psp \in Psps /\ psp \in [Psps -> Process]
  BY DEF KernelTypeOK
<1>3. call.idx \in Nat
  BY DEF KernelTypeOK
<1>4. CASE MergeFileChanges
  <2>1. call.idx \in Sft
    BY <1>3, <1>4, KernelConstants DEF MergeFileChanges, Sft
  <2>2. DosCloseSft(call.idx) \/ UNCHANGED <<tables, sft>>
    BY <1>4 DEF MergeFileChanges
  <2>3. QED
    BY <1>1, <2>1, <2>2, CloseSftStep, QuietStep
<1>5. CASE ReturnCloses
  <2>1. call.idx \in Handle
    <3>1. psp[cu_psp].maxfiles \in 0 .. MaxFiles
      BY <1>2 DEF Process
    <3>2. QED
      BY <1>3, <1>5, <3>1, KernelConstants DEF ReturnCloses, Handle
  <2>2. \/ DosClose(call.idx) \/ DosCloseFault(call.idx)
        \/ UNCHANGED <<tables, sft>>
    BY <1>5 DEF ReturnCloses
  <2>3. QED
    BY <1>1, <1>2, <2>1, <2>2, CloseStep, QuietStep
<1>6. CASE FcbCloseAll
  <2>1. call.idx \in Sft
    BY <1>3, <1>6, KernelConstants DEF FcbCloseAll, InFcbs, FcbsEnd, Sft
  <2>2. DosCloseSft(call.idx) \/ UNCHANGED <<tables, sft>>
    BY <1>6 DEF FcbCloseAll
  <2>3. QED
    BY <1>1, <2>1, <2>2, CloseSftStep, QuietStep
<1>7. CASE SetFattrDone \/ ReturnClosed \/ FcbCloseAborts \/ ReturnUser
  BY <1>1, <1>7, QuietStep DEF SetFattrDone, ReturnClosed, FcbCloseAborts, ReturnUser
<1>8. QED
  BY <1>4, <1>5, <1>6, <1>7 DEF Loop

-----------------------------------------------------------------------------
(* What a step does to the processes and to the call in progress.          *)

CallType ==
  [at : {"program", "setattr", "handles", "fcbs"}, idx : Nat,
   file : Names \cup {NoName}]

Exits == {"handles", "fcbs"}

ParentsKept ==
  /\ psp' \in [Psps -> Process]
  /\ \A p \in Psps : psp'[p].parent = psp[p].parent

\* The current process changes only when a child starts, or when it ends or
\* stays resident and the parent goes on.
ProcessStep ==
  \/ cu_psp' = cu_psp /\ ParentsKept
  \/ psp' = psp /\ cu_psp' = psp[cu_psp].parent /\ psp[cu_psp].parent # cu_psp
  \/ \E p \in Psps : ~Alive(p) /\ ChildPsp(p)
  \/ /\ call.at = "fcbs"
     /\ psp' = [psp EXCEPT ![cu_psp] = NoProcess]
     /\ cu_psp' = psp[cu_psp].parent

\* An exit begins in a process that has a parent, and goes on in it.
CallStep ==
  /\ call' \in CallType
  /\ call'.at \in Exits => /\ cu_psp' = cu_psp /\ ParentsKept
                           /\ psp[cu_psp].parent # cu_psp \/ call.at \in Exits

RestOK == files \subseteq Names /\ leaked \in BOOLEAN /\ forced \in 0 .. MaxForced

\* The values that the calls store in call have its type.
LEMMA CallValues ==
  /\ InProgram \in CallType /\ InProgram.at = "program"
  /\ Exiting \in CallType /\ Exiting.at = "handles"
  /\ \A nm \in Names : [at |-> "setattr", idx |-> 0, file |-> nm] \in CallType
  /\ [Exiting EXCEPT !.at = "fcbs"] \in CallType
  /\ [Exiting EXCEPT !.at = "fcbs"].at = "fcbs"
BY DEF InProgram, Exiting, CallType

\* The next round of a loop.
LEMMA NextIdxStep ==
  ASSUME call \in CallType, NextIdx
  PROVE  call' \in CallType /\ call'.at = call.at
BY DEF NextIdx, CallType

\* What becomes of a call that fails or aborts, its process being the same.
LEMMA FailStep ==
  ASSUME Fails \/ Aborts, cu_psp' = cu_psp, ParentsKept
  PROVE  CallStep
BY CallValues DEF Fails, Aborts, CallStep, Exits

\* A program that goes on is not in an exit.
LEMMA ProgramStep ==
  ASSUME call \in CallType, Running, call' = call
  PROVE  CallStep
BY CallValues DEF Running, CallStep, Exits

\* Processes that are left alone.
LEMMA SameProcesses ==
  ASSUME psp \in [Psps -> Process], psp' = psp
  PROVE  ParentsKept
BY DEF ParentsKept

\* A handle that is set.
LEMMA SetHandleStep ==
  ASSUME psp \in [Psps -> Process], cu_psp \in Psps, NEW h \in Handle,
         NEW v \in Sft \cup {NoSft}, SetHandle(h, v)
  PROVE  ParentsKept
<1>1. PICK e : e = [psp[cu_psp] EXCEPT !.filetab[h] = v]
  OBVIOUS
<1>2. psp[cu_psp] \in Process
  OBVIOUS
<1>3. e \in Process /\ e.parent = psp[cu_psp].parent
  <2>1. psp[cu_psp].filetab \in [Handle -> Sft \cup {NoSft}]
    BY <1>2 DEF Process
  <2>2. [psp[cu_psp].filetab EXCEPT ![h] = v] \in [Handle -> Sft \cup {NoSft}]
    BY <2>1
  <2>3. e = [psp[cu_psp] EXCEPT !.filetab = [psp[cu_psp].filetab EXCEPT ![h] = v]]
    BY <1>1
  <2>4. QED
    BY <1>2, <2>2, <2>3 DEF Process
<1>4. psp' = [psp EXCEPT ![cu_psp] = e]
  BY <1>1 DEF SetHandle
<1>5. QED
  BY <1>3, <1>4 DEF ParentsKept

\* The FCBs of the current process change.
LEMMA FcbsStep ==
  ASSUME psp \in [Psps -> Process], cu_psp \in Psps, NEW S \in SUBSET Sft,
         psp' = [psp EXCEPT ![cu_psp].fcbs = S]
  PROVE  ParentsKept
<1>1. PICK e : e = [psp[cu_psp] EXCEPT !.fcbs = S]
  OBVIOUS
<1>2. e \in Process /\ e.parent = psp[cu_psp].parent
  <2>1. psp[cu_psp] \in Process
    OBVIOUS
  <2>2. QED
    BY <1>1, <2>1 DEF Process
<1>3. psp' = [psp EXCEPT ![cu_psp] = e]
  BY <1>1
<1>4. QED
  BY <1>2, <1>3 DEF ParentsKept

\* DosClose and its failure: the handle is cleared.
LEMMA CloseProcess ==
  ASSUME psp \in [Psps -> Process], cu_psp \in Psps, RestOK, NEW h \in Handle,
         DosClose(h) \/ DosCloseFault(h)
  PROVE  cu_psp' = cu_psp /\ ParentsKept /\ RestOK'
<1>1. cu_psp' = cu_psp /\ SetHandle(h, NoSft) /\ RestOK'
  BY DEF DosClose, DosCloseFault, Leak, RestOK
<1>2. QED
  BY <1>1, SetHandleStep

\* DosForceDup: the new handle gets the SFT of the old one, or none.
LEMMA ForceDupProcess ==
  ASSUME psp \in [Psps -> Process], cu_psp \in Psps, call \in CallType, RestOK,
         NEW old \in Handle, NEW new \in Handle, DosForceDup(old, new)
  PROVE  ProcessStep /\ CallStep /\ RestOK'
<1>1. PICK v \in Sft \cup {NoSft} : SetHandle(new, v)
  <2>1. SftOf(old) \in Sft \cup {NoSft}
    BY DEF SftOf, Process
  <2>2. QED
    BY <2>1 DEF DosForceDup
<1>2. cu_psp' = cu_psp /\ Running /\ call' = call /\ RestOK'
  BY DEF DosForceDup, LeakIf, RestOK
<1>3. QED
  BY <1>1, <1>2, SetHandleStep, ProgramStep DEF ProcessStep

\* SetJFTSize: the handles of the new table come from the old one.
LEMMA SetJFTSizeProcess ==
  ASSUME psp \in [Psps -> Process], cu_psp \in Psps, NEW n \in TableSizes,
         SetJFTSize(n)
  PROVE  ParentsKept
<1>1. n \in 0 .. MaxFiles
  BY KernelConstants
<1>2. psp[cu_psp] \in Process
  OBVIOUS
<1> DEFINE grown == [h \in Handle |->
                       IF h < psp[cu_psp].maxfiles THEN SftOf(h) ELSE NoSft]
<1>3. grown \in [Handle -> Sft \cup {NoSft}]
  BY <1>2 DEF SftOf, Process
<1>4. PICK e \in Process : /\ e.parent = psp[cu_psp].parent
                           /\ psp' = [psp EXCEPT ![cu_psp] = e]
  <2>1. CASE n <= psp[cu_psp].maxfiles
    <3>1. psp' = [psp EXCEPT ![cu_psp] = [psp[cu_psp] EXCEPT !.maxfiles = n]]
      BY <2>1 DEF SetJFTSize
    <3>2. /\ [psp[cu_psp] EXCEPT !.maxfiles = n] \in Process
          /\ [psp[cu_psp] EXCEPT !.maxfiles = n].parent = psp[cu_psp].parent
      BY <1>1, <1>2 DEF Process
    <3>3. QED
      BY <3>1, <3>2
  <2>2. CASE ~(n <= psp[cu_psp].maxfiles)
    <3>1. psp' = [psp EXCEPT ![cu_psp] =
                    [psp[cu_psp] EXCEPT !.maxfiles = n, !.filetab = grown]]
      BY <2>2 DEF SetJFTSize
    <3>2. /\ [psp[cu_psp] EXCEPT !.maxfiles = n, !.filetab = grown] \in Process
          /\ [psp[cu_psp] EXCEPT !.maxfiles = n, !.filetab = grown].parent
               = psp[cu_psp].parent
      <4> HIDE DEF grown
      <4> QED
        BY <1>1, <1>2, <1>3 DEF Process
    <3>3. QED
      BY <3>1, <3>2
  <2>3. QED
    BY <2>1, <2>2
<1>5. QED
  BY <1>4 DEF ParentsKept

\* What a call of a program does to the processes.
LEMMA CallProcessStep ==
  ASSUME KernelTypeOK, Call
  PROVE  ProcessStep /\ CallStep /\ RestOK'
<1>1. cu_psp \in Psps /\ psp \in [Psps -> Process] /\ call \in CallType
  BY DEF KernelTypeOK, CallType
<1>2. RestOK
  BY DEF KernelTypeOK, RestOK
<1>3. \A nm \in Names : nm \in Target
  BY DEF Target
<1>4. ASSUME NEW target \in Target, NEW req, DosOpen(target, req)
      PROVE  ProcessStep /\ CallStep /\ RestOK'
  <2>1. PICK s \in Sft : /\ DosOpenSft(s, target, req, FALSE)
                         /\ SetHandle(Min(FreeHandles), s)
    BY <1>4 DEF DosOpen
  <2>2. Min(FreeHandles) \in Handle
    BY <1>1, <1>4, ChosenHandle DEF DosOpen
  <2>3. files' \subseteq Names
    BY <1>2, <2>1 DEF DosOpenSft, OpenDevice, Target, RestOK
  <2>4. /\ cu_psp' = cu_psp /\ call' = call /\ Running
        /\ leaked' = leaked /\ forced' = forced
    BY <1>4 DEF DosOpen
  <2>5. ParentsKept
    BY <1>1, <2>1, <2>2, SetHandleStep
  <2>6. QED
    BY <1>1, <1>2, <2>3, <2>4, <2>5, ProgramStep DEF ProcessStep, RestOK
<1>5. ASSUME NEW target \in Target, NEW req, NEW fcb \in BOOLEAN,
             DosOpenLeaks(target, req, fcb)
      PROVE  ProcessStep /\ CallStep /\ RestOK'
  <2>1. (Fails \/ Aborts) /\ files' \subseteq Names
    BY <1>2, <1>5 DEF DosOpenLeaks, OpenDevice, Target, RestOK
  <2>2. /\ cu_psp' = cu_psp /\ psp' = psp /\ leaked' = TRUE /\ forced' = forced
    BY <1>5 DEF DosOpenLeaks, Leak
  <2>3. QED
    BY <1>1, <1>2, <2>1, <2>2, SameProcesses, FailStep DEF ProcessStep, RestOK
<1>6. ASSUME NEW target \in Target, FcbOpen(target)
      PROVE  ProcessStep /\ CallStep /\ RestOK'
  <2>1. PICK s \in Sft :
          /\ DosOpenSft(s, target, ReadWriteCompat, TRUE)
          /\ psp' = [psp EXCEPT ![cu_psp].fcbs = @ \cup {s}]
    BY <1>6 DEF FcbOpen
  <2>2. PICK S \in SUBSET Sft : S = psp[cu_psp].fcbs \cup {s}
    BY <1>1 DEF Process
  <2>3. ParentsKept
    BY <1>1, <2>1, <2>2, FcbsStep
  <2>4. files' \subseteq Names
    BY <1>2, <2>1 DEF DosOpenSft, OpenDevice, Target, RestOK
  <2>5. /\ cu_psp' = cu_psp /\ call' = call /\ Running
        /\ leaked' = leaked /\ forced' = forced
    BY <1>6 DEF FcbOpen
  <2>6. QED
    BY <1>1, <1>2, <2>3, <2>4, <2>5, ProgramStep DEF ProcessStep, RestOK
<1>7. ASSUME NEW nm \in Names, NEW req, DosOpenFails(nm, req)
      PROVE  ProcessStep /\ CallStep /\ RestOK'
  BY <1>1, <1>2, <1>7, SameProcesses, ProgramStep
  DEF DosOpenFails, kernel, ProcessStep, RestOK
<1>8. ASSUME NEW h \in Handle, Close(h)
      PROVE  ProcessStep /\ CallStep /\ RestOK'
  <2>1. cu_psp' = cu_psp /\ ParentsKept /\ RestOK'
    BY <1>1, <1>2, <1>8, CloseProcess DEF Close
  <2>2. Fails \/ Aborts \/ (Running /\ call' = call)
    BY <1>8 DEF Close
  <2>3. QED
    BY <1>1, <2>1, <2>2, FailStep, ProgramStep DEF ProcessStep
<1>9. ASSUME NEW old \in Handle, NEW new \in Handle, DosForceDup(old, new)
      PROVE  ProcessStep /\ CallStep /\ RestOK'
  BY <1>1, <1>2, <1>9, ForceDupProcess
<1>10. ASSUME NEW h \in Handle, DosDup(h)
       PROVE  ProcessStep /\ CallStep /\ RestOK'
  BY <1>1, <1>9, <1>10, ChosenHandle DEF DosDup
<1>11. ASSUME NEW h \in Handle, NEW r \in Regions,
              DosRWSft(h, r) \/ \E unlock \in BOOLEAN : DosLockUnlock(h, r, unlock)
       PROVE  ProcessStep /\ CallStep /\ RestOK'
  <2>1. Running /\ UNCHANGED kernel
    BY <1>11 DEF DosRWSft, DosLockUnlock
  <2>2. QED
    BY <1>1, <1>2, <2>1, SameProcesses, ProgramStep DEF kernel, ProcessStep, RestOK
<1>12. ASSUME NEW n \in TableSizes, SetJFTSize(n)
       PROVE  ProcessStep /\ CallStep /\ RestOK'
  <2>1. /\ cu_psp' = cu_psp /\ call' = call /\ Running /\ files' = files
        /\ leaked' \in BOOLEAN /\ forced' = forced
    BY <1>2, <1>12 DEF SetJFTSize, LeakIf, RestOK
  <2>2. QED
    BY <1>1, <1>2, <1>12, <2>1, SetJFTSizeProcess, ProgramStep
    DEF ProcessStep, RestOK
<1>13. ASSUME NEW s \in Sft, FcbClose(s)
       PROVE  ProcessStep /\ CallStep /\ RestOK'
  <2>1. RestOK' /\ cu_psp' = cu_psp
    BY <1>2, <1>13 DEF FcbClose, RestOK
  <2>2. PICK S \in SUBSET Sft : S = psp[cu_psp].fcbs \ {s}
    BY <1>1 DEF Process
  <2>3. \/ psp' = [psp EXCEPT ![cu_psp].fcbs = S] /\ Running /\ call' = call
        \/ psp' = psp /\ Aborts
    BY <1>13, <2>2 DEF FcbClose
  <2>4. ParentsKept
    BY <1>1, <2>3, FcbsStep, SameProcesses
  <2>5. QED
    BY <1>1, <2>1, <2>3, <2>4, FailStep, ProgramStep DEF ProcessStep
<1>14. ASSUME NEW nm \in Names, DosDelete(nm)
       PROVE  ProcessStep /\ CallStep /\ RestOK'
  BY <1>1, <1>2, <1>14, SameProcesses, ProgramStep DEF DosDelete, ProcessStep, RestOK
<1>15. ASSUME NEW nm \in Names, NEW new \in Names, DosRename(nm, new)
       PROVE  ProcessStep /\ CallStep /\ RestOK'
  BY <1>1, <1>2, <1>15, SameProcesses, ProgramStep DEF DosRename, ProcessStep, RestOK
<1>16. ASSUME NEW nm \in Names, DosSetFattr(nm)
       PROVE  ProcessStep /\ CallStep /\ RestOK'
  <2>1. /\ call' = [at |-> "setattr", idx |-> 0, file |-> nm]
        /\ cu_psp' = cu_psp /\ psp' = psp /\ files' = files /\ leaked' = leaked
        /\ forced' = forced \/ (forced' = forced + 1 /\ forced < MaxForced)
    BY <1>16 DEF DosSetFattr
  <2>2. RestOK'
    BY <1>2, <2>1, KernelConstants DEF RestOK
  <2>3. call' \in CallType /\ call'.at = "setattr"
    BY <2>1, CallValues
  <2>4. QED
    BY <1>1, <2>1, <2>2, <2>3, SameProcesses DEF ProcessStep, CallStep, Exits
<1>17. ASSUME NEW nm \in Names, ComNoMemory(nm)
       PROVE  ProcessStep /\ CallStep /\ RestOK'
  BY <1>1, <1>2, <1>17, SameProcesses, ProgramStep
  DEF ComNoMemory, LeakIf, ProcessStep, RestOK
<1>18. ASSUME NEW p \in Psps,
              CreatePsp(p) \/ \E nm \in Names : DosExec(p, nm) \/ DosExecLeaks(p, nm)
       PROVE  ProcessStep /\ CallStep /\ RestOK'
  <2>1. /\ ~Alive(p) /\ ChildPsp(p) /\ Running /\ call' = call
        /\ files' = files /\ leaked' \in {leaked, TRUE} /\ forced' = forced
    BY <1>18 DEF CreatePsp, DosExec, DosExecLeaks, Leak
  <2>2. QED
    BY <1>1, <1>2, <2>1, ProgramStep DEF ProcessStep, RestOK
<1>19. CASE KeepProgram
  BY <1>1, <1>2, <1>19, ProgramStep DEF KeepProgram, ProcessStep, RestOK
<1>20. CASE EndProgram
  <2>1. cu_psp' = cu_psp /\ ParentsKept /\ RestOK'
    BY <1>1, <1>2, <1>20, SameProcesses DEF EndProgram, RestOK
  <2>2. Aborts \/ (Running /\ call' = call)
    BY <1>20 DEF EndProgram
  <2>3. QED
    BY <1>1, <2>1, <2>2, FailStep, ProgramStep DEF ProcessStep
<1>21. QED
  BY <1>3, <1>4, <1>5, <1>6, <1>7, <1>8, <1>9, <1>10, <1>11, <1>12, <1>13, <1>14,
     <1>15, <1>16, <1>17, <1>18, <1>19, <1>20 DEF Call

\* A loop that goes on to its next SFT or handle in the same process.
LEMMA NextRound ==
  ASSUME call \in CallType, NextIdx, cu_psp' = cu_psp, ParentsKept
  PROVE  CallStep
BY NextIdxStep DEF CallStep

\* What a loop does to the processes.
LEMMA LoopProcessStep ==
  ASSUME KernelTypeOK, Loop
  PROVE  ProcessStep /\ CallStep /\ RestOK'
<1>1. cu_psp \in Psps /\ psp \in [Psps -> Process] /\ call \in CallType
  BY DEF KernelTypeOK, CallType
<1>2. RestOK
  BY DEF KernelTypeOK, RestOK
<1>3. CASE MergeFileChanges
  <2>1. cu_psp' = cu_psp /\ psp' = psp /\ RestOK'
    BY <1>2, <1>3 DEF MergeFileChanges, RestOK
  <2>2. NextIdx \/ Fails \/ Aborts
    BY <1>3 DEF MergeFileChanges
  <2>3. QED
    BY <1>1, <2>1, <2>2, SameProcesses, NextRound, FailStep DEF ProcessStep
<1>4. CASE SetFattrDone
  <2>1. /\ cu_psp' = cu_psp /\ psp' = psp /\ RestOK' /\ Fails
    BY <1>2, <1>4 DEF SetFattrDone, RestOK, Fails
  <2>2. QED
    BY <1>1, <2>1, SameProcesses, FailStep DEF ProcessStep
<1>5. CASE ReturnCloses
  <2>1. call.idx \in Handle
    <3>1. psp[cu_psp].maxfiles \in 0 .. MaxFiles
      BY <1>1 DEF Process
    <3>2. QED
      BY <1>1, <1>5, <3>1, KernelConstants DEF ReturnCloses, Handle, CallType
  <2>2. NextIdx \/ Aborts
    BY <1>5 DEF ReturnCloses
  <2>3. cu_psp' = cu_psp /\ ParentsKept /\ RestOK'
    <3>1. CASE DosClose(call.idx) \/ DosCloseFault(call.idx)
      BY <1>1, <1>2, <2>1, <3>1, CloseProcess
    <3>2. CASE UNCHANGED <<cu_psp, psp, files, leaked, forced>>
      BY <1>1, <1>2, <3>2, SameProcesses DEF RestOK
    <3>3. QED
      BY <1>5, <3>1, <3>2 DEF ReturnCloses
  <2>4. QED
    BY <1>1, <2>2, <2>3, NextRound, FailStep DEF ProcessStep
<1>6. CASE ReturnClosed
  <2>1. /\ cu_psp' = cu_psp /\ psp' = psp /\ RestOK'
        /\ call' \in CallType /\ call.at \in Exits
    BY <1>2, <1>6, CallValues DEF ReturnClosed, RestOK, Exits
  <2>2. QED
    BY <1>1, <2>1, SameProcesses DEF ProcessStep, CallStep
<1>7. CASE FcbCloseAll
  <2>1. cu_psp' = cu_psp /\ RestOK' /\ NextIdx
    BY <1>2, <1>7 DEF FcbCloseAll, Leak, RestOK
  <2>2. PICK S \in SUBSET Sft : S = psp[cu_psp].fcbs \ {call.idx}
    BY <1>1 DEF Process
  <2>3. ParentsKept
    BY <1>1, <1>7, <2>2, FcbsStep DEF FcbCloseAll
  <2>4. QED
    BY <1>1, <2>1, <2>3, NextRound DEF ProcessStep
<1>8. CASE FcbCloseAborts
  <2>1. cu_psp' = cu_psp /\ psp' = psp /\ RestOK' /\ Aborts
    BY <1>2, <1>8 DEF FcbCloseAborts, RestOK
  <2>2. QED
    BY <1>1, <2>1, SameProcesses, FailStep DEF ProcessStep
<1>9. CASE ReturnUser
  <2>1. RestOK'
    BY <1>2, <1>9 DEF ReturnUser, LeakIf, RestOK
  <2>2. ProcessStep
    BY <1>9 DEF ReturnUser, ProcessStep
  <2>3. CallStep
    BY <1>9, CallValues DEF ReturnUser, CallStep, Exits
  <2>4. QED
    BY <2>1, <2>2, <2>3
<1>10. QED
  BY <1>3, <1>4, <1>5, <1>6, <1>7, <1>8, <1>9 DEF Loop

-----------------------------------------------------------------------------
(* The chain of parents, and the type of the kernel's tables.              *)

\* c lists the processes from the shell to process p, each the parent of the
\* next and each listed once.
Chain(c, n, p) ==
  /\ c \in [0 .. n -> Psps]
  /\ c[0] = Shell /\ c[n] = p
  /\ psp[Shell].parent = Shell
  /\ \A i \in 1 .. n : psp[c[i]].parent = c[i - 1]
  /\ \A i, j \in 0 .. n : c[i] = c[j] => i = j

\* Processes that ended or stay resident may have left others without a
\* parent, but the ancestors of the current process are all there; the shell,
\* alone its own parent, never exits.
ChainInv ==
  /\ \E n \in Nat : \E c : Chain(c, n, cu_psp)
  /\ call.at \in Exits => psp[cu_psp].parent # cu_psp

KernelInv == KernelTypeOK /\ ChainInv

\* The processes of a chain are live, and so is the parent of its last one.
LEMMA ChainLive ==
  ASSUME NEW n \in Nat, NEW c, Chain(c, n, cu_psp)
  PROVE  /\ \A i \in 0 .. n : Alive(c[i])
         /\ psp[cu_psp].parent \in Psps
         /\ ParentsLive
         /\ psp[cu_psp].parent # cu_psp => n > 0
<1>1. Shell \in Psps /\ NoPsp \notin Psps
  BY KernelConstants, SharingNames
<1>2. \A i \in 0 .. n : c[i] \in Psps
  BY DEF Chain
<1>3. ASSUME NEW i \in 0 .. n
      PROVE  psp[c[i]].parent \in Psps
                /\ \E j \in 0 .. n : psp[c[i]].parent = c[j]
  <2>1. CASE i = 0
    BY <1>1, <2>1 DEF Chain
  <2>2. CASE i # 0
    <3>1. i \in 1 .. n /\ i - 1 \in 0 .. n
      BY <2>2
    <3>2. psp[c[i]].parent = c[i - 1]
      BY <3>1 DEF Chain
    <3>3. QED
      BY <1>2, <3>1, <3>2
  <2>3. QED
    BY <2>1, <2>2
<1>4. \A i \in 0 .. n : Alive(c[i])
  BY <1>1, <1>3 DEF Alive
<1>5. n \in 0 .. n /\ c[n] = cu_psp
  BY DEF Chain
<1>6. ParentsLive
  BY <1>3, <1>4, <1>5 DEF ParentsLive
<1>7. psp[cu_psp].parent # cu_psp => n > 0
  BY <1>5 DEF Chain
<1>8. QED
  BY <1>3, <1>4, <1>5, <1>6, <1>7

\* A child that starts extends the chain: it was not live, so not in it.
LEMMA ChildChain ==
  ASSUME psp \in [Psps -> Process], NEW n \in Nat, NEW c, Chain(c, n, cu_psp),
         NEW p \in Psps, ~Alive(p), ChildPsp(p)
  PROVE  \E d : Chain(d, n + 1, p)'
<1> DEFINE d == [i \in 0 .. n + 1 |-> IF i = n + 1 THEN p ELSE c[i]]
<1>1. /\ c \in [0 .. n -> Psps] /\ c[0] = Shell /\ c[n] = cu_psp
      /\ psp[Shell].parent = Shell
      /\ \A i \in 1 .. n : psp[c[i]].parent = c[i - 1]
      /\ \A i, j \in 0 .. n : c[i] = c[j] => i = j
  BY DEF Chain
<1>2. \A i \in 0 .. n : c[i] # p
  BY ChainLive
<1>3. /\ \A q \in Psps : q # p => psp'[q] = psp[q]
      /\ psp'[p].parent = cu_psp
  BY DEF ChildPsp
<1>4. d \in [0 .. n + 1 -> Psps] /\ d[0] = Shell /\ d[n + 1] = p
  BY <1>1
<1>5. psp'[Shell].parent = Shell
  BY <1>1, <1>2, <1>3
<1>6. ASSUME NEW i \in 1 .. n + 1 PROVE psp'[d[i]].parent = d[i - 1]
  <2>1. CASE i = n + 1
    BY <1>1, <1>3, <2>1
  <2>2. CASE i # n + 1
    <3>1. i \in 1 .. n /\ i \in 0 .. n /\ i - 1 \in 0 .. n
      BY <2>2
    <3>2. d[i] = c[i] /\ d[i - 1] = c[i - 1] /\ c[i] # p /\ c[i] \in Psps
      BY <1>1, <1>2, <3>1
    <3>3. QED
      BY <1>1, <1>3, <3>1, <3>2
  <2>3. QED
    BY <2>1, <2>2
<1>7. ASSUME NEW i \in 0 .. n + 1, NEW j \in 0 .. n + 1, d[i] = d[j] PROVE i = j
  BY <1>1, <1>2, <1>7
<1>8. PICK e : e = d
  OBVIOUS
<1>9. Chain(e, n + 1, p)'
  <2> HIDE DEF d
  <2> QED
    BY <1>4, <1>5, <1>6, <1>7, <1>8 DEF Chain
<1>10. QED
  BY <1>9

\* A process that ends, or stays resident, shortens it.
LEMMA ParentChain ==
  ASSUME psp \in [Psps -> Process], NEW n \in Nat, NEW c, Chain(c, n, cu_psp),
         n > 0, cu_psp' = psp[cu_psp].parent,
         psp' = psp \/ psp' = [psp EXCEPT ![cu_psp] = NoProcess]
  PROVE  \E m \in Nat : \E d : Chain(d, m, cu_psp)'
<1>1. /\ c \in [0 .. n -> Psps] /\ c[0] = Shell /\ c[n] = cu_psp
      /\ psp[Shell].parent = Shell
      /\ \A i \in 1 .. n : psp[c[i]].parent = c[i - 1]
      /\ \A i, j \in 0 .. n : c[i] = c[j] => i = j
  BY DEF Chain
<1>2. PICK m \in Nat : m = n - 1 /\ m \in 0 .. n /\ n \in 1 .. n
  OBVIOUS
<1>3. PICK d : d = [i \in 0 .. m |-> c[i]]
  OBVIOUS
<1>4. \A i \in 0 .. m : i \in 0 .. n /\ i # n
  BY <1>2
<1>5. \A i \in 0 .. m : d[i] = c[i] /\ c[i] \in Psps /\ c[i] # cu_psp
  BY <1>1, <1>2, <1>3, <1>4
<1>6. \A i \in 0 .. m : psp'[c[i]] = psp[c[i]]
  BY <1>5
<1>7. d \in [0 .. m -> Psps]
  BY <1>3, <1>5
<1>8. d[0] = Shell /\ psp'[Shell].parent = Shell
  BY <1>1, <1>5, <1>6
<1>9. d[m] = cu_psp'
  BY <1>1, <1>2, <1>5
<1>10. ASSUME NEW i \in 1 .. m PROVE psp'[d[i]].parent = d[i - 1]
  <2>1. i \in 1 .. n /\ i \in 0 .. m /\ i - 1 \in 0 .. m
    BY <1>2
  <2>2. QED
    BY <1>1, <1>5, <1>6, <2>1
<1>11. \A i, j \in 0 .. m : d[i] = d[j] => i = j
  BY <1>1, <1>4, <1>5
<1>12. Chain(d, m, cu_psp)'
  BY <1>7, <1>8, <1>9, <1>10, <1>11 DEF Chain
<1>13. QED
  BY <1>12

\* A step that keeps the parents keeps the chain.
LEMMA SameChain ==
  ASSUME NEW n \in Nat, NEW c, Chain(c, n, cu_psp), cu_psp' = cu_psp, ParentsKept
  PROVE  Chain(c, n, cu_psp)'
<1>1. \A i \in 0 .. n : c[i] \in Psps /\ psp'[c[i]].parent = psp[c[i]].parent
  BY DEF Chain, ParentsKept
<1>2. psp'[Shell].parent = psp[Shell].parent
  BY KernelConstants DEF ParentsKept
<1>3. QED
  BY <1>1, <1>2 DEF Chain

\* A child starts with a table of its own.
LEMMA ChildType ==
  ASSUME psp \in [Psps -> Process], cu_psp \in Psps, NEW p \in Psps, ChildPsp(p)
  PROVE  psp' \in [Psps -> Process]
<1>1. PICK e : /\ psp' = [psp EXCEPT ![p] = e]
               /\ e = [parent |-> cu_psp, maxfiles |-> PspFiles, fcbs |-> {},
                       filetab |-> [h \in Handle |->
                         IF h < PspFiles /\ Cloned(h) THEN SftOf(h) ELSE NoSft]]
  BY DEF ChildPsp
<1>2. \A h \in Handle : SftOf(h) \in Sft \cup {NoSft}
  BY DEF SftOf, Process
<1>3. [h \in Handle |-> IF h < PspFiles /\ Cloned(h) THEN SftOf(h) ELSE NoSft]
        \in [Handle -> Sft \cup {NoSft}]
  BY <1>2
<1>4. PspFiles \in 0 .. MaxFiles
  BY KernelConstants
<1>5. e \in Process
  BY <1>1, <1>3, <1>4 DEF Process
<1>6. QED
  BY <1>1, <1>5

\* The entry of a process that is not live has its type.
LEMMA NoProcessType == NoProcess \in Process
BY KernelConstants DEF NoProcess, Process

\* The processes and the chain of parents after a step.
LEMMA ProcessInv ==
  ASSUME KernelInv, ProcessStep, CallStep
  PROVE  cu_psp' \in Psps /\ psp' \in [Psps -> Process] /\ ChainInv'
<1>1. cu_psp \in Psps /\ psp \in [Psps -> Process]
  BY DEF KernelInv, KernelTypeOK
<1>0. PICK n \in Nat : \E c : Chain(c, n, cu_psp)
  BY DEF KernelInv, ChainInv
<1>2. PICK c : Chain(c, n, cu_psp)
  BY <1>0
<1>3. psp[cu_psp].parent \in Psps /\ (psp[cu_psp].parent # cu_psp => n > 0)
  BY <1>2, ChainLive
<1>4. call.at \in Exits => psp[cu_psp].parent # cu_psp
  BY DEF KernelInv, ChainInv
<1>5. CASE cu_psp' = cu_psp /\ ParentsKept
  <2>1. Chain(c, n, cu_psp)'
    BY <1>2, <1>5, SameChain
  <2>2. call'.at \in Exits => psp'[cu_psp'].parent # cu_psp'
    BY <1>1, <1>4, <1>5 DEF CallStep, ParentsKept
  <2>3. QED
    BY <1>1, <1>5, <2>1, <2>2 DEF ChainInv, ParentsKept
<1>6. CASE /\ psp' = psp /\ cu_psp' = psp[cu_psp].parent
           /\ psp[cu_psp].parent # cu_psp
  <2>1. \E m \in Nat : \E d : Chain(d, m, cu_psp)'
    BY <1>1, <1>2, <1>3, <1>6, ParentChain
  <2>2. ~(call'.at \in Exits)
    BY <1>6 DEF CallStep
  <2>3. QED
    BY <1>1, <1>3, <1>6, <2>1, <2>2 DEF ChainInv
<1>7. ASSUME NEW p \in Psps, ~Alive(p), ChildPsp(p)
      PROVE  cu_psp' \in Psps /\ psp' \in [Psps -> Process] /\ ChainInv'
  <2>1. cu_psp' = p /\ p # cu_psp
    <3>1. Alive(cu_psp)
      BY <1>3, SharingNames DEF Alive
    <3>2. QED
      BY <1>7, <3>1 DEF ChildPsp
  <2>2. \E d : Chain(d, n + 1, p)'
    BY <1>1, <1>2, <1>7, ChildChain
  <2>3. \E d : Chain(d, n + 1, cu_psp)'
    BY <2>1, <2>2
  <2>4. ~(call'.at \in Exits)
    BY <2>1 DEF CallStep
  <2>5. QED
    BY <1>1, <1>7, <2>1, <2>3, <2>4, ChildType DEF ChainInv
<1>8. CASE /\ call.at = "fcbs"
           /\ psp' = [psp EXCEPT ![cu_psp] = NoProcess]
           /\ cu_psp' = psp[cu_psp].parent
  <2>1. psp[cu_psp].parent # cu_psp
    BY <1>4, <1>8 DEF Exits
  <2>2. \E m \in Nat : \E d : Chain(d, m, cu_psp)'
    BY <1>1, <1>2, <1>3, <1>8, <2>1, ParentChain
  <2>3. ~(call'.at \in Exits)
    BY <1>8, <2>1 DEF CallStep
  <2>4. psp' \in [Psps -> Process]
    BY <1>1, <1>8, NoProcessType
  <2>5. QED
    BY <1>3, <1>8, <2>2, <2>3, <2>4 DEF ChainInv
<1>9. QED
  BY <1>5, <1>6, <1>7, <1>8 DEF ProcessStep

\* The shell runs alone at the start.
LEMMA KernelInit == Init => KernelInv
<1> SUFFICES ASSUME Init PROVE KernelInv
  OBVIOUS
<1>1. Shell \in Psps /\ 0 \in Handle /\ 0 \in Sft /\ PspFiles \in 0 .. MaxFiles
  BY KernelConstants DEF Handle, Sft
<1>2. PICK e : e = [NoProcess EXCEPT !.parent = Shell, !.maxfiles = PspFiles,
                                     !.filetab[0] = 0]
  OBVIOUS
<1>3. e \in Process /\ e.parent = Shell
  BY <1>1, <1>2 DEF NoProcess, Process
<1>4. psp = [p \in Psps |-> IF p = Shell THEN e ELSE NoProcess]
  BY <1>2 DEF Init
<1>5. psp \in [Psps -> Process] /\ psp[Shell].parent = Shell
  BY <1>1, <1>3, <1>4, NoProcessType
<1>6. PICK d : d = [FreeSft EXCEPT !.count = 1, !.file = Device, !.psp = Shell,
                                   !.inherit = TRUE]
  OBVIOUS
<1>7. d = [count |-> 1, file |-> Device, psp |-> Shell, inherit |-> TRUE,
           fcb |-> FALSE, shroff |-> NoFileNo]
  BY <1>6 DEF FreeSft
<1>8. d \in SftEntry /\ d.count = 1
  <2>1. Device \in Target /\ 1 \in 0 .. MaxCount
    BY KernelConstants DEF Target
  <2>2. QED
    BY <1>1, <1>7, <2>1 DEF SftEntry
<1>9. /\ \A s \in Sft : sft[s] = IF s = 0 THEN d ELSE FreeSft
      /\ FreeSft \in SftEntry /\ FreeSft.shroff = NoFileNo
  <2>1. FreeSft \in SftEntry /\ FreeSft.shroff = NoFileNo
    BY KernelConstants DEF FreeSft, SftEntry
  <2>2. QED
    BY <1>6, <2>1 DEF Init
<1>10. \A s \in Sft : sft[s].count = 0 => sft[s].shroff = NoFileNo
  BY <1>8, <1>9
<1>11. sft \in [Sft -> SftEntry]
  <2>1. \A s \in Sft : sft[s] \in SftEntry
    BY <1>8, <1>9
  <2>2. sft = [s \in Sft |-> sft[s]]
    BY DEF Init
  <2>3. QED
    BY <2>1, <2>2
<1>12. call \in CallType /\ call.at = "program"
  BY CallValues DEF Init
<1>13. KernelTypeOK
  <2>1. cu_psp = Shell /\ files \subseteq Names /\ leaked = FALSE /\ forced = 0
    BY DEF Init
  <2>2. forced \in 0 .. MaxForced
    BY <2>1, KernelConstants
  <2>3. QED
    BY <1>1, <1>5, <1>10, <1>11, <1>12, <2>1, <2>2 DEF KernelTypeOK, CallType
<1>14. PICK c : c = [i \in 0 .. 0 |-> Shell]
  OBVIOUS
<1>15. Chain(c, 0, cu_psp)
  BY <1>1, <1>5, <1>14 DEF Chain, Init
<1>16. ChainInv
  BY <1>12, <1>15 DEF ChainInv, Exits
<1> QED
  BY <1>13, <1>16 DEF KernelInv

\* Every step keeps the types and the chain of parents.
LEMMA KernelStep ==
  ASSUME KernelInv, [Next]_vars
  PROVE  KernelInv' /\ (SftStep \/ UNCHANGED vars)
<1>1. KernelTypeOK
  BY DEF KernelInv
<1>2. CASE Next
  <2>1. SftStep /\ ProcessStep /\ CallStep /\ RestOK'
    BY <1>1, <1>2, CallSftStep, LoopSftStep, CallProcessStep, LoopProcessStep DEF Next
  <2>2. cu_psp' \in Psps /\ psp' \in [Psps -> Process] /\ ChainInv'
    BY <2>1, ProcessInv
  <2>3. KernelTypeOK'
    BY <2>1, <2>2 DEF KernelTypeOK, SftStep, SftOK, CallStep, CallType, RestOK
  <2>4. QED
    BY <2>1, <2>2, <2>3 DEF KernelInv
<1>3. CASE UNCHANGED vars
  <2>1. KernelTypeOK'
    BY <1>1, <1>3 DEF vars, kernel, KernelTypeOK, CallType
  <2>2. ChainInv'
    BY <1>3 DEF vars, kernel, KernelInv, ChainInv, Chain
  <2>3. QED
    BY <1>3, <2>1, <2>2 DEF KernelInv
<1>4. QED
  BY <1>2, <1>3

-----------------------------------------------------------------------------
(* The kernel as the client of SHARE.                                      *)

\* The operations on the tables are the ones that the client of Share calls.
LEMMA ShareClientOps ==
  /\ \A nm, p, om, sm :
       /\ ShareClient!OpenCheck(nm, p, om, sm) <=> OpenCheck(nm, p, om, sm)
       /\ ShareClient!OpenAndClose(nm, p, om, sm) <=> OpenAndClose(nm, p, om, sm)
  /\ \A i : ShareClient!CloseFile(i) <=> CloseFile(i)
  /\ \A p, i, o, n :
       /\ ShareClient!LockRegion(p, i, o, n) <=> LockRegion(p, i, o, n)
       /\ ShareClient!UnlockRegion(p, i, o, n) <=> UnlockRegion(p, i, o, n)
       /\ ShareClient!AccessViolation(p, i, o, n) <=> AccessViolation(p, i, o, n)
  /\ ShareClient!OpenSlot = OpenSlot /\ ShareClient!NoFileNo = NoFileNo
<1>1. \A nm, p, om, sm :
        ShareClient!OpenCheck(nm, p, om, sm) <=> OpenCheck(nm, p, om, sm)
  BY
  DEF OpenCheck, ShareClient!OpenCheck, OpenAllowed, ShareClient!OpenAllowed,
      OpenSlot, ShareClient!OpenSlot, OpenEntry, ShareClient!OpenEntry,
      Admits, ShareClient!Admits, Proceeds, ShareClient!Proceeds, FreeFiles,
      ShareClient!FreeFiles, InstancesOf, ShareClient!InstancesOf, FileNo,
      ShareClient!FileNo, Min, ShareClient!Min, OpenMode,
      ShareClient!OpenMode, ShareMode, ShareClient!ShareMode, OpenExceptions,
      ShareClient!OpenExceptions, ProceedingModes,
      ShareClient!ProceedingModes, SHARE_COMPAT, ShareClient!SHARE_COMPAT,
      OPEN_READ_ONLY, ShareClient!OPEN_READ_ONLY, SHARE_DENY_NONE,
      ShareClient!SHARE_DENY_NONE
<1>2. \A i : ShareClient!CloseFile(i) <=> CloseFile(i)
  BY
  DEF CloseFile, ShareClient!CloseFile, RemoveAllLocks,
      ShareClient!RemoveAllLocks, LocksOf, ShareClient!LocksOf, LockNo,
      ShareClient!LockNo, FreeFileTableEntry, ShareClient!FreeFileTableEntry,
      NoLock, ShareClient!NoLock, NoFile, ShareClient!NoFile,
      Cardinality, ShareClient!Cardinality
<1>3. \A nm, p, om, sm :
        ShareClient!OpenAndClose(nm, p, om, sm) <=> OpenAndClose(nm, p, om, sm)
  BY
  DEF OpenAndClose, ShareClient!OpenAndClose, OpenAllowed,
      ShareClient!OpenAllowed, OpenSlot, ShareClient!OpenSlot, OpenEntry,
      ShareClient!OpenEntry, Admits, ShareClient!Admits, Proceeds,
      ShareClient!Proceeds, FreeFiles, ShareClient!FreeFiles, InstancesOf,
      ShareClient!InstancesOf, FileNo, ShareClient!FileNo, Min,
      ShareClient!Min, OpenMode, ShareClient!OpenMode, ShareMode,
      ShareClient!ShareMode, OpenExceptions, ShareClient!OpenExceptions,
      ProceedingModes, ShareClient!ProceedingModes, SHARE_COMPAT,
      ShareClient!SHARE_COMPAT, OPEN_READ_ONLY, ShareClient!OPEN_READ_ONLY,
      SHARE_DENY_NONE, ShareClient!SHARE_DENY_NONE, RemoveAllLocks,
      ShareClient!RemoveAllLocks, LocksOf, ShareClient!LocksOf, LockNo,
      ShareClient!LockNo, NoLock, ShareClient!NoLock,
      Cardinality, ShareClient!Cardinality
<1>4. \A p, i, o, n : ShareClient!LockRegion(p, i, o, n) <=> LockRegion(p, i, o, n)
  BY
  DEF LockRegion, ShareClient!LockRegion, Conflicts, ShareClient!Conflicts,
      EndOfs, ShareClient!EndOfs, Touches, ShareClient!Touches, LockNo,
      ShareClient!LockNo, FreeLocks, ShareClient!FreeLocks, Min,
      ShareClient!Min
<1>5. \A p, i, o, n : ShareClient!UnlockRegion(p, i, o, n) <=> UnlockRegion(p, i, o, n)
  BY
  DEF UnlockRegion, ShareClient!UnlockRegion, EndOfs, ShareClient!EndOfs,
      LocksNamed, ShareClient!LocksNamed, LocksOf, ShareClient!LocksOf,
      LockNo, ShareClient!LockNo, Min, ShareClient!Min, NoLock,
      ShareClient!NoLock
<1>6. \A p, i, o, n :
        ShareClient!AccessViolation(p, i, o, n) <=> AccessViolation(p, i, o, n)
  BY
  DEF AccessViolation, ShareClient!AccessViolation, Conflicts,
      ShareClient!Conflicts, EndOfs, ShareClient!EndOfs, Touches,
      ShareClient!Touches, LockNo, ShareClient!LockNo, FreeFileTableEntry,
      ShareClient!FreeFileTableEntry, NoFile, ShareClient!NoFile
<1>7. ShareClient!OpenSlot = OpenSlot /\ ShareClient!NoFileNo = NoFileNo
  BY
  DEF OpenSlot, ShareClient!OpenSlot, FreeFiles, ShareClient!FreeFiles,
      FileNo, ShareClient!FileNo, Min, ShareClient!Min, NoFileNo,
      ShareClient!NoFileNo
<1>8. QED
  BY <1>1, <1>2, <1>3, <1>4, <1>5, <1>6, <1>7

\* What a step asks of SHARE is a step of Share's client, or none.
LEMMA ShareClientStep ==
  ASSUME KernelTypeOK, SftStep \/ UNCHANGED vars
  PROVE  [ShareClient!Next]_(ShareClient!vars)
<1>1. cu_psp \in Psps
  BY DEF KernelTypeOK
<1>2. SftOK
  BY DEF KernelTypeOK, SftOK
<1>3. \A s \in Sft : Shroffs[s] = sft[s].shroff
  BY DEF Shroffs
<1>4. CASE AsksOpen
  <2>1. PICK s \in Sft, nm \in Names, req \in SystemRequests :
          /\ sft[s].count = 0
          /\ OpenCheck(nm, cu_psp, req[1], req[2])
          /\ Shroffs' = [Shroffs EXCEPT ![s] = OpenSlot]
    BY <1>4 DEF AsksOpen
  <2>2. ~(Shroffs[s] >= 0)
    <3>1. Shroffs[s] = NoFileNo
      BY <1>2, <1>3, <2>1 DEF SftOK
    <3>2. QED
      BY <3>1 DEF NoFileNo
  <2>3. ShareClient!Open(s, nm, cu_psp, req)
    BY <2>1, <2>2, ShareClientOps DEF ShareClient!Open, ShareClient!Holds, Shroffs
  <2>4. QED
    BY <1>1, <2>3 DEF ShareClient!Next
<1>5. CASE AsksTry
  <2>1. PICK nm \in Names, req \in SystemRequests :
          OpenAndClose(nm, cu_psp, req[1], req[2]) /\ Shroffs' = Shroffs
    BY <1>5 DEF AsksTry
  <2>2. ShareClient!TryOpen(nm, cu_psp, req)
    BY <2>1, ShareClientOps DEF ShareClient!TryOpen, Shroffs
  <2>3. QED
    BY <1>1, <2>2 DEF ShareClient!Next
<1>6. CASE AsksClose
  <2>1. PICK s \in Sft : /\ LastClose(s)
                         /\ CloseFile(sft[s].shroff)
                         /\ Shroffs' = [Shroffs EXCEPT ![s] = NoFileNo]
    BY <1>6 DEF AsksClose
  <2>2. ShareClient!Close(s)
    BY <1>3, <2>1, ShareClientOps DEF ShareClient!Close, ShareClient!Holds, LastClose, Shroffs
  <2>3. QED
    BY <2>2 DEF ShareClient!Next
<1>7. CASE AsksLocks
  <2>1. PICK s \in Sft, r \in Regions :
          /\ sft[s].shroff >= 0
          /\ \/ LockRegion(cu_psp, sft[s].shroff, r[1], r[2])
             \/ UnlockRegion(cu_psp, sft[s].shroff, r[1], r[2])
             \/ /\ file_table_free < FileTableSize + MaxDrift
                /\ AccessViolation(cu_psp, sft[s].shroff, r[1], r[2])
    BY <1>7 DEF AsksLocks
  <2>2. Shroffs' = Shroffs
    BY <1>7 DEF AsksLocks
  <2>3. \/ ShareClient!Lock(s, cu_psp, r)
        \/ ShareClient!Unlock(s, cu_psp, r)
        \/ ShareClient!AccessLocked(s, cu_psp, r)
    BY <1>3, <2>1, <2>2, ShareClientOps
    DEF ShareClient!Lock, ShareClient!Unlock, ShareClient!AccessLocked, ShareClient!Holds, Shroffs
  <2>4. QED
    BY <1>1, <2>3 DEF ShareClient!Next
<1>8. CASE AsksNothing
  BY <1>8 DEF AsksNothing, tables, ShareClient!tables, ShareClient!vars, Shroffs
<1>9. CASE UNCHANGED vars
  BY <1>9 DEF vars, kernel, tables, ShareClient!tables, ShareClient!vars, Shroffs
<1>10. QED
  BY <1>4, <1>5, <1>6, <1>7, <1>8, <1>9 DEF SftStep

\* No SFT holds an entry at the start.
LEMMA ShareClientInit == Init => ShareClient!Init
<1> SUFFICES ASSUME Init PROVE ShareClient!Init
  OBVIOUS
<1>1. ShareClient!TablesInit
  BY DEF Init, TablesInit, NoFile, NoLock, FileNo, LockNo, ShareClient!TablesInit,
     ShareClient!NoFile, ShareClient!NoLock, ShareClient!FileNo, ShareClient!LockNo
<1>2. \A s \in Sft : sft[s].shroff = ShareClient!NoFileNo
  BY DEF Init, FreeSft, NoFileNo, ShareClient!NoFileNo
<1>3. QED
  BY <1>1, <1>2 DEF ShareClient!Init

\* The types of the kernel's tables and the chain of parents always hold.
THEOREM KernelInvariant == Spec => []KernelInv
<1>1. KernelInv /\ [Next]_vars => KernelInv'
  BY KernelStep
<1>2. QED
  BY KernelInit, <1>1, PTL DEF Spec

\* A process that runs is never gone, and neither is the one that an exit,
\* an abort or INT 21/31 returns to.
THEOREM ParentsAreLive == Spec => []ParentsLive
<1>1. KernelInv => ParentsLive
  BY ChainLive DEF KernelInv, ChainInv
<1>2. QED
  BY KernelInvariant, <1>1, PTL

\* The kernel calls SHARE as the client of Share.tla does.
THEOREM KernelIsShareClient == Spec => IsShareClient
<1>1. KernelInv /\ [Next]_vars => [ShareClient!Next]_(ShareClient!vars)
  BY KernelStep, ShareClientStep DEF KernelInv
<1>2. QED
  BY KernelInvariant, ShareClientInit, <1>1, PTL DEF Spec, IsShareClient, ShareClient!Spec

-----------------------------------------------------------------------------
(* What is proved of Share holds of the kernel.                            *)

Client ==
  INSTANCE ShareProofs WITH Sfts <- Sft, OpenRequests <- SystemRequests,
                            shroff <- [s \in Sft |-> sft[s].shroff]

\* The operations on the tables are the ones that the theorems about Share are
\* about.
LEMMA ClientOps ==
  /\ \A nm, p, om, sm :
       /\ Client!OpenCheck(nm, p, om, sm) <=> OpenCheck(nm, p, om, sm)
       /\ Client!OpenAndClose(nm, p, om, sm) <=> OpenAndClose(nm, p, om, sm)
  /\ \A i : Client!CloseFile(i) <=> CloseFile(i)
  /\ \A p, i, o, n :
       /\ Client!LockRegion(p, i, o, n) <=> LockRegion(p, i, o, n)
       /\ Client!UnlockRegion(p, i, o, n) <=> UnlockRegion(p, i, o, n)
       /\ Client!AccessViolation(p, i, o, n) <=> AccessViolation(p, i, o, n)
  /\ Client!OpenSlot = OpenSlot /\ Client!NoFileNo = NoFileNo
<1>1. \A nm, p, om, sm :
        Client!OpenCheck(nm, p, om, sm) <=> OpenCheck(nm, p, om, sm)
  BY
  DEF OpenCheck, Client!OpenCheck, OpenAllowed, Client!OpenAllowed, OpenSlot,
      Client!OpenSlot, OpenEntry, Client!OpenEntry, Admits, Client!Admits,
      Proceeds, Client!Proceeds, FreeFiles, Client!FreeFiles, InstancesOf,
      Client!InstancesOf, FileNo, Client!FileNo, Min, Client!Min, OpenMode,
      Client!OpenMode, ShareMode, Client!ShareMode, OpenExceptions,
      Client!OpenExceptions, ProceedingModes, Client!ProceedingModes,
      SHARE_COMPAT, Client!SHARE_COMPAT, OPEN_READ_ONLY,
      Client!OPEN_READ_ONLY, SHARE_DENY_NONE, Client!SHARE_DENY_NONE
<1>2. \A i : Client!CloseFile(i) <=> CloseFile(i)
  BY
  DEF CloseFile, Client!CloseFile, RemoveAllLocks, Client!RemoveAllLocks,
      LocksOf, Client!LocksOf, LockNo, Client!LockNo, FreeFileTableEntry,
      Client!FreeFileTableEntry, NoLock, Client!NoLock, NoFile, Client!NoFile,
      Cardinality, Client!Cardinality
<1>3. \A nm, p, om, sm :
        Client!OpenAndClose(nm, p, om, sm) <=> OpenAndClose(nm, p, om, sm)
  BY
  DEF OpenAndClose, Client!OpenAndClose, OpenAllowed, Client!OpenAllowed,
      OpenSlot, Client!OpenSlot, OpenEntry, Client!OpenEntry, Admits,
      Client!Admits, Proceeds, Client!Proceeds, FreeFiles, Client!FreeFiles,
      InstancesOf, Client!InstancesOf, FileNo, Client!FileNo, Min, Client!Min,
      OpenMode, Client!OpenMode, ShareMode, Client!ShareMode, OpenExceptions,
      Client!OpenExceptions, ProceedingModes, Client!ProceedingModes,
      SHARE_COMPAT, Client!SHARE_COMPAT, OPEN_READ_ONLY,
      Client!OPEN_READ_ONLY, SHARE_DENY_NONE, Client!SHARE_DENY_NONE,
      RemoveAllLocks, Client!RemoveAllLocks, LocksOf, Client!LocksOf, LockNo,
      Client!LockNo, NoLock, Client!NoLock,
      Cardinality, Client!Cardinality
<1>4. \A p, i, o, n : Client!LockRegion(p, i, o, n) <=> LockRegion(p, i, o, n)
  BY
  DEF LockRegion, Client!LockRegion, Conflicts, Client!Conflicts, EndOfs,
      Client!EndOfs, Touches, Client!Touches, LockNo, Client!LockNo,
      FreeLocks, Client!FreeLocks, Min, Client!Min
<1>5. \A p, i, o, n : Client!UnlockRegion(p, i, o, n) <=> UnlockRegion(p, i, o, n)
  BY
  DEF UnlockRegion, Client!UnlockRegion, EndOfs, Client!EndOfs, LocksNamed,
      Client!LocksNamed, LocksOf, Client!LocksOf, LockNo, Client!LockNo, Min,
      Client!Min, NoLock, Client!NoLock
<1>6. \A p, i, o, n :
        Client!AccessViolation(p, i, o, n) <=> AccessViolation(p, i, o, n)
  BY
  DEF AccessViolation, Client!AccessViolation, Conflicts, Client!Conflicts,
      EndOfs, Client!EndOfs, Touches, Client!Touches, LockNo, Client!LockNo,
      FreeFileTableEntry, Client!FreeFileTableEntry, NoFile, Client!NoFile
<1>7. Client!OpenSlot = OpenSlot /\ Client!NoFileNo = NoFileNo
  BY
  DEF OpenSlot, Client!OpenSlot, FreeFiles, Client!FreeFiles, FileNo,
      Client!FileNo, Min, Client!Min, NoFileNo, Client!NoFileNo
<1>8. QED
  BY <1>1, <1>2, <1>3, <1>4, <1>5, <1>6, <1>7

\* What a step asks of SHARE is a step that those theorems are about.
LEMMA ClientStep ==
  ASSUME KernelTypeOK, SftStep \/ UNCHANGED vars
  PROVE  [Client!Next]_(Client!vars)
<1>1. cu_psp \in Psps
  BY DEF KernelTypeOK
<1>2. SftOK
  BY DEF KernelTypeOK, SftOK
<1>3. \A s \in Sft : Shroffs[s] = sft[s].shroff
  BY DEF Shroffs
<1>4. CASE AsksOpen
  <2>1. PICK s \in Sft, nm \in Names, req \in SystemRequests :
          /\ sft[s].count = 0
          /\ OpenCheck(nm, cu_psp, req[1], req[2])
          /\ Shroffs' = [Shroffs EXCEPT ![s] = OpenSlot]
    BY <1>4 DEF AsksOpen
  <2>2. ~(Shroffs[s] >= 0)
    <3>1. Shroffs[s] = NoFileNo
      BY <1>2, <1>3, <2>1 DEF SftOK
    <3>2. QED
      BY <3>1 DEF NoFileNo
  <2>3. Client!Open(s, nm, cu_psp, req)
    BY <2>1, <2>2, ClientOps DEF Client!Open, Client!Holds, Shroffs
  <2>4. QED
    BY <1>1, <2>3 DEF Client!Next
<1>5. CASE AsksTry
  <2>1. PICK nm \in Names, req \in SystemRequests :
          OpenAndClose(nm, cu_psp, req[1], req[2]) /\ Shroffs' = Shroffs
    BY <1>5 DEF AsksTry
  <2>2. Client!TryOpen(nm, cu_psp, req)
    BY <2>1, ClientOps DEF Client!TryOpen, Shroffs
  <2>3. QED
    BY <1>1, <2>2 DEF Client!Next
<1>6. CASE AsksClose
  <2>1. PICK s \in Sft : /\ LastClose(s)
                         /\ CloseFile(sft[s].shroff)
                         /\ Shroffs' = [Shroffs EXCEPT ![s] = NoFileNo]
    BY <1>6 DEF AsksClose
  <2>2. Client!Close(s)
    BY <1>3, <2>1, ClientOps DEF Client!Close, Client!Holds, LastClose, Shroffs
  <2>3. QED
    BY <2>2 DEF Client!Next
<1>7. CASE AsksLocks
  <2>1. PICK s \in Sft, r \in Regions :
          /\ sft[s].shroff >= 0
          /\ \/ LockRegion(cu_psp, sft[s].shroff, r[1], r[2])
             \/ UnlockRegion(cu_psp, sft[s].shroff, r[1], r[2])
             \/ /\ file_table_free < FileTableSize + MaxDrift
                /\ AccessViolation(cu_psp, sft[s].shroff, r[1], r[2])
    BY <1>7 DEF AsksLocks
  <2>2. Shroffs' = Shroffs
    BY <1>7 DEF AsksLocks
  <2>3. \/ Client!Lock(s, cu_psp, r)
        \/ Client!Unlock(s, cu_psp, r)
        \/ Client!AccessLocked(s, cu_psp, r)
    BY <1>3, <2>1, <2>2, ClientOps
    DEF Client!Lock, Client!Unlock, Client!AccessLocked, Client!Holds, Shroffs
  <2>4. QED
    BY <1>1, <2>3 DEF Client!Next
<1>8. CASE AsksNothing
  BY <1>8 DEF AsksNothing, tables, Client!tables, Client!vars, Shroffs
<1>9. CASE UNCHANGED vars
  BY <1>9 DEF vars, kernel, tables, Client!tables, Client!vars, Shroffs
<1>10. QED
  BY <1>4, <1>5, <1>6, <1>7, <1>8, <1>9 DEF SftStep

\* No SFT holds an entry at the start.
LEMMA ClientInit == Init => Client!Init
<1> SUFFICES ASSUME Init PROVE Client!Init
  OBVIOUS
<1>1. Client!TablesInit
  BY DEF Init, TablesInit, NoFile, NoLock, FileNo, LockNo, Client!TablesInit,
     Client!NoFile, Client!NoLock, Client!FileNo, Client!LockNo
<1>2. \A s \in Sft : sft[s].shroff = Client!NoFileNo
  BY DEF Init, FreeSft, NoFileNo, Client!NoFileNo
<1>3. QED
  BY <1>1, <1>2 DEF Client!Init

\* The kernel's regions are regions for Share.
LEMMA ClientRegions == Regions \subseteq Client!Offset \X Client!Offset
<1>1. Client!Offset = Offset
  BY DEF Client!Offset, Offset
<1>2. QED
  BY <1>1, KernelConstants

\* The invariant of Share holds of the kernel's use of it.
LEMMA ClientInvariant == Spec => []Client!HeldInv
<1>1. Init => Client!HeldInv
  BY ClientInit, ClientRegions, Client!HeldInit, KernelConstants, SharingNames, SharingSizes
<1>2. KernelInv /\ Client!HeldInv /\ [Next]_vars => Client!HeldInv'
  <2>1. KernelInv /\ [Next]_vars => [Client!Next]_(Client!vars)
    BY KernelStep, ClientStep DEF KernelInv
  <2>2. Client!HeldInv /\ [Client!Next]_(Client!vars) => Client!HeldInv'
    BY ClientRegions, Client!HeldStep, KernelConstants, SharingNames, SharingSizes
  <2>3. QED
    BY <2>1, <2>2
<1>3. QED
  BY KernelInvariant, <1>1, <1>2, PTL DEF Spec

\* The tables of SHARE and of the kernel have their types.
THEOREM TypeCorrect == Spec => []TypeOK
<1>1. Client!HeldInv => TablesTypeOK
  BY DEF Client!HeldInv, Client!TypeOK, Client!TablesTypeOK, TablesTypeOK,
     FileNo, Client!FileNo, FileEntry, Client!FileEntry, LockNo, Client!LockNo,
     LockEntry, Client!LockEntry, Offset, Client!Offset
<1>2. KernelInv => KernelTypeOK
  BY DEF KernelInv
<1>3. QED
  BY KernelInvariant, ClientInvariant, <1>1, <1>2, PTL DEF TypeOK

-----------------------------------------------------------------------------
(* SFTs, entries of SHARE and the directory.                               *)

\* What is used of Share's invariant: up to the first lock violation each
\* entry number that an SFT holds is an entry in use, and no other SFT's.
LEMMA EntriesDistinct ==
  ASSUME Client!HeldInv, ~lockViolated,
         NEW s \in Sft, sft[s].shroff >= 0
  PROVE  /\ sft[s].shroff \in FileNo
         /\ file_table[sft[s].shroff].filename # NoName
         /\ \A t \in Sft : t # s => sft[t].shroff # sft[s].shroff
<1>1. Client!Holds(s)
  BY DEF Client!Holds
<1>2. \A t \in Sft : s # t => sft[s].shroff # sft[t].shroff
  BY <1>1 DEF Client!HeldInv, Client!EntriesHeld
<1>3. file_table[sft[s].shroff].filename # NoName
  BY <1>1 DEF Client!HeldInv, Client!EntriesHeld, Client!InUse
<1>4. sft[s].shroff \in FileNo
  BY DEF Client!HeldInv, Client!TypeOK, Client!FileNo, FileNo, Client!NoFileNo
<1>5. QED
  BY <1>2, <1>3, <1>4

\* The entry that open_check fills in is about the file and the process.
LEMMA OpenEntryNames ==
  \A nm, p, om, sm : /\ OpenEntry(nm, p, om, sm).filename = nm
                     /\ OpenEntry(nm, p, om, sm).psp = p
BY DEF OpenEntry

\* Every step keeps SFTs and entries paired.
LEMMA PairedStep ==
  ASSUME KernelInv, Client!HeldInv, TablesTypeOK, EntriesPaired, SftStep
  PROVE  EntriesPaired'
<1> SUFFICES ASSUME ~lockViolated', NEW t \in Sft, sft'[t].shroff >= 0
             PROVE  /\ file_table'[sft'[t].shroff].filename = sft'[t].file
                    /\ file_table'[sft'[t].shroff].psp = sft'[t].psp
  BY DEF EntriesPaired
<1>1. \A s \in Sft : Shroffs[s] = sft[s].shroff /\ Shroffs'[s] = sft'[s].shroff
  BY DEF Shroffs
<1>2. ASSUME ~lockViolated, sft[t].shroff = sft'[t].shroff, FilesKept({t}),
             file_table'[sft[t].shroff] = file_table[sft[t].shroff]
      PROVE  /\ file_table'[sft'[t].shroff].filename = sft'[t].file
             /\ file_table'[sft'[t].shroff].psp = sft'[t].psp
  BY <1>2 DEF EntriesPaired, FilesKept
<1>3. CASE AsksOpen
  <2>1. PICK s \in Sft, nm \in Names, req \in SystemRequests :
          /\ OpenCheck(nm, cu_psp, req[1], req[2])
          /\ Shroffs' = [Shroffs EXCEPT ![s] = OpenSlot]
          /\ sft'[s].file = nm /\ sft'[s].psp = cu_psp
          /\ FilesKept(Sft \ {s})
    BY <1>3 DEF AsksOpen
  <2>2. /\ lockViolated' = lockViolated
        /\ file_table' =
             [file_table EXCEPT ![OpenSlot] = OpenEntry(nm, cu_psp, req[1], req[2])]
        /\ FreeFiles # {}
    BY <2>1 DEF OpenCheck, OpenAllowed
  <2>3. PICK i \in FileNo : i = OpenSlot /\ file_table[i].filename = NoName
    <3>1. OpenSlot \in FreeFiles
      BY <2>2, ChosenSlots
    <3>2. QED
      BY <3>1 DEF FreeFiles
  <2>4. CASE t = s
    <3>1. sft'[t].shroff = i
      BY <1>1, <2>1, <2>3, <2>4 DEF Shroffs
    <3>2. file_table'[i] = OpenEntry(nm, cu_psp, req[1], req[2])
      BY <2>2, <2>3 DEF TablesTypeOK
    <3>3. QED
      BY <2>1, <2>4, <3>1, <3>2, OpenEntryNames
  <2>5. CASE t # s
    <3>1. sft'[t].shroff = sft[t].shroff
      BY <1>1, <2>1, <2>5 DEF Shroffs
    <3>2. sft[t].shroff \in FileNo /\ sft[t].shroff # i
      BY <2>2, <2>3, <3>1, EntriesDistinct
    <3>3. file_table'[sft[t].shroff] = file_table[sft[t].shroff]
      BY <2>2, <2>3, <3>2 DEF TablesTypeOK
    <3>4. QED
      BY <1>2, <2>1, <2>2, <2>5, <3>1, <3>3 DEF FilesKept
  <2>6. QED
    BY <2>4, <2>5
<1>4. CASE AsksClose
  <2>1. PICK s \in Sft : /\ LastClose(s)
                         /\ CloseFile(sft[s].shroff)
                         /\ Shroffs' = [Shroffs EXCEPT ![s] = NoFileNo]
                         /\ FilesKept(Sft)
    BY <1>4 DEF AsksClose
  <2>2. /\ lockViolated' = lockViolated
        /\ file_table' = [file_table EXCEPT ![sft[s].shroff] = NoFile]
    BY <2>1 DEF CloseFile, FreeFileTableEntry
  <2>3. t # s
    <3>1. t = s => sft'[t].shroff = NoFileNo
      BY <1>1, <2>1 DEF Shroffs
    <3>2. ~(NoFileNo >= 0)
      BY DEF NoFileNo
    <3>3. QED
      BY <3>1, <3>2
  <2>4. sft'[t].shroff = sft[t].shroff
    BY <1>1, <2>1, <2>3 DEF Shroffs
  <2>5. sft[t].shroff \in FileNo /\ sft[t].shroff # sft[s].shroff
    BY <2>2, <2>3, <2>4, EntriesDistinct
  <2>6. file_table'[sft[t].shroff] = file_table[sft[t].shroff]
    BY <2>2, <2>5 DEF TablesTypeOK
  <2>7. QED
    BY <1>2, <2>1, <2>2, <2>4, <2>6 DEF FilesKept
<1>5. CASE AsksTry \/ AsksLocks \/ AsksNothing
  <2>1. FilesKept(Sft) /\ Shroffs' = Shroffs
    BY <1>5 DEF AsksTry, AsksLocks, AsksNothing
  <2>2. file_table' = file_table /\ ~lockViolated
    <3>1. CASE AsksTry
      BY <3>1 DEF AsksTry, OpenAndClose
    <3>2. CASE AsksNothing
      BY <3>2 DEF AsksNothing, tables
    <3>3. CASE AsksLocks
      BY <3>3 DEF AsksLocks, LockRegion, UnlockRegion, AccessViolation
    <3>4. QED
      BY <1>5, <3>1, <3>2, <3>3
  <2>3. QED
    BY <1>1, <1>2, <2>1, <2>2 DEF FilesKept
<1>6. QED
  BY <1>3, <1>4, <1>5 DEF SftStep

\* Up to the first lock violation the SFT of a file and the entry of SHARE that
\* it names are about the same file and process.
THEOREM EntriesArePaired == Spec => []EntriesPaired
<1>1. Init => EntriesPaired
  BY DEF Init, FreeSft, NoFileNo, EntriesPaired
<1>2. /\ KernelInv /\ Client!HeldInv /\ TypeOK /\ EntriesPaired /\ [Next]_vars
      => EntriesPaired'
  <2> SUFFICES ASSUME KernelInv, Client!HeldInv, TypeOK, EntriesPaired, [Next]_vars
               PROVE  EntriesPaired'
    OBVIOUS
  <2>1. SftStep \/ UNCHANGED vars
    BY KernelStep
  <2>2. CASE SftStep
    BY <2>2, PairedStep DEF TypeOK
  <2>3. CASE UNCHANGED vars
    BY <2>3 DEF vars, tables, kernel, EntriesPaired
  <2>4. QED
    BY <2>1, <2>2, <2>3
<1>3. QED
  BY KernelInvariant, ClientInvariant, TypeCorrect, <1>1, <1>2, PTL DEF Spec

\* A name leaves the directory only while no entry of SHARE has it, and then
\* the SFTs stay as they are.
FilesStep ==
  /\ leaked => leaked'
  /\ \/ files \subseteq files'
     \/ /\ UNCHANGED <<tables, sft>>
        /\ \E nm \in Names : ~IsFileOpen(nm) /\ files \ {nm} \subseteq files'

\* Of the calls only the deletion and the renaming of a file remove a name.
LEMMA CallFilesStep == KernelTypeOK /\ Call => FilesStep
<1> SUFFICES ASSUME KernelTypeOK, Call PROVE FilesStep
  OBVIOUS
<1>1. ASSUME NEW target, NEW req, DosOpen(target, req)
      PROVE  FilesStep
  BY <1>1 DEF DosOpen, DosOpenSft, OpenDevice, FilesStep
<1>2. ASSUME NEW target, NEW req, NEW fcb \in BOOLEAN,
             DosOpenLeaks(target, req, fcb)
      PROVE  FilesStep
  BY <1>2 DEF DosOpenLeaks, OpenDevice, Leak, FilesStep
<1>3. ASSUME NEW target, FcbOpen(target)
      PROVE  FilesStep
  BY <1>3 DEF FcbOpen, DosOpenSft, OpenDevice, FilesStep
<1>4. ASSUME NEW h \in Handle, Close(h)
      PROVE  FilesStep
  BY <1>4 DEF Close, DosClose, DosCloseFault, Leak, FilesStep
<1>5. ASSUME NEW old, NEW new, DosForceDup(old, new)
      PROVE  FilesStep
  BY <1>5 DEF DosForceDup, LeakIf, FilesStep
<1>6. ASSUME NEW h \in Handle, NEW r \in Regions,
             DosRWSft(h, r) \/ \E unlock \in BOOLEAN : DosLockUnlock(h, r, unlock)
      PROVE  FilesStep
  BY <1>6 DEF DosRWSft, DosLockUnlock, kernel, FilesStep
<1>7. ASSUME NEW n \in TableSizes, SetJFTSize(n)
      PROVE  FilesStep
  BY <1>7 DEF SetJFTSize, LeakIf, FilesStep
<1>8. ASSUME NEW s \in Sft, FcbClose(s)
      PROVE  FilesStep
  BY <1>8 DEF FcbClose, FilesStep
<1>9. ASSUME NEW nm \in Names, DosDelete(nm) \/ \E new \in Names : DosRename(nm, new)
      PROVE  FilesStep
  <2>1. /\ ~IsFileOpen(nm) /\ files \ {nm} \subseteq files'
        /\ UNCHANGED <<tables, sft>> /\ leaked' = leaked
    BY <1>9 DEF DosDelete, DosRename
  <2>2. QED
    BY <2>1 DEF FilesStep
<1>10. ASSUME NEW nm \in Names, NEW req \in SystemRequests,
              DosOpenFails(nm, req)
       PROVE  FilesStep
  BY <1>10 DEF DosOpenFails, kernel, FilesStep
<1>11. ASSUME NEW nm, DosSetFattr(nm) \/ ComNoMemory(nm)
       PROVE  FilesStep
  <2>1. CASE DosSetFattr(nm)
    BY <2>1 DEF DosSetFattr, FilesStep
  <2>2. CASE ComNoMemory(nm)
    <3>1. PICK lost \in BOOLEAN : files' = files /\ leaked' = (leaked \/ lost)
      BY <2>2 DEF ComNoMemory, LeakIf
    <3>2. QED
      BY <3>1 DEF FilesStep
  <2>3. QED
    BY <1>11, <2>1, <2>2
<1>12. ASSUME NEW p \in Psps,
              CreatePsp(p) \/ \E nm \in Names : DosExec(p, nm) \/ DosExecLeaks(p, nm)
       PROVE  FilesStep
  <2>1. files' = files /\ (leaked' = leaked \/ leaked' = TRUE)
    BY <1>12 DEF CreatePsp, DosExec, DosExecLeaks, Leak
  <2>2. QED
    BY <2>1 DEF FilesStep
<1>13. CASE KeepProgram \/ EndProgram
  BY <1>13 DEF KeepProgram, EndProgram, FilesStep
<1>14. ASSUME NEW h \in Handle, DosDup(h)
       PROVE  FilesStep
  BY <1>5, <1>14 DEF DosDup
<1>15. QED
  BY <1>1, <1>2, <1>3, <1>4, <1>5, <1>6, <1>7, <1>8, <1>9, <1>10, <1>11, <1>12,
     <1>13, <1>14 DEF Call

\* The loops that close files leave the directory alone.
LEMMA LoopFilesStep == Loop => FilesStep
<1> SUFFICES ASSUME Loop PROVE FilesStep
  OBVIOUS
<1>1. CASE MergeFileChanges \/ SetFattrDone \/ ReturnClosed \/ FcbCloseAborts
  BY <1>1 DEF MergeFileChanges, SetFattrDone, ReturnClosed, FcbCloseAborts, FilesStep
<1>2. CASE ReturnCloses
  BY <1>2 DEF ReturnCloses, DosClose, DosCloseFault, Leak, FilesStep
<1>3. CASE FcbCloseAll
  BY <1>3 DEF FcbCloseAll, Leak, FilesStep
<1>4. CASE ReturnUser
  <2>1. PICK lost \in BOOLEAN : files' = files /\ leaked' = (leaked \/ lost)
    <3>1. files' = files /\ LeakIf(Unseen) /\ Unseen \in BOOLEAN
      BY <1>4 DEF ReturnUser, Unseen
    <3>2. QED
      BY <3>1 DEF LeakIf
  <2>2. QED
    BY <2>1 DEF FilesStep
<1>5. QED
  BY <1>1, <1>2, <1>3, <1>4 DEF Loop

\* A step that opens a file has it in the directory, and one that removes a
\* name finds no SFT with an entry under that name.
LEMMA FilesExistStep ==
  ASSUME Client!HeldInv, EntriesPaired, OpenFilesExist, SftStep, FilesStep
  PROVE  ~lockViolated => OpenFilesExist'
<1> SUFFICES ASSUME ~lockViolated, ~leaked', NEW t \in Sft, sft'[t].shroff >= 0
             PROVE  sft'[t].file \in files'
  BY DEF OpenFilesExist
<1>1. \A s \in Sft : Shroffs[s] = sft[s].shroff /\ Shroffs'[s] = sft'[s].shroff
  BY DEF Shroffs
<1>2. ~leaked
  BY DEF FilesStep
<1>3. ASSUME sft'[t].shroff = sft[t].shroff, FilesKept({t})
      PROVE  sft'[t].file \in files'
  <2>1. sft[t].file \in files /\ sft'[t].file = sft[t].file
    BY <1>2, <1>3 DEF OpenFilesExist, FilesKept
  <2>2. CASE files \subseteq files'
    BY <2>1, <2>2
  <2>3. ASSUME NEW nm \in Names, ~IsFileOpen(nm), files \ {nm} \subseteq files'
        PROVE  sft'[t].file \in files'
    <3>1. sft[t].shroff \in FileNo
      BY <1>3, EntriesDistinct
    <3>2. file_table[sft[t].shroff].filename = sft[t].file
      BY <1>3 DEF EntriesPaired
    <3>3. sft[t].file # nm
      BY <2>3, <3>1, <3>2 DEF IsFileOpen, InstancesOf
    <3>4. QED
      BY <2>1, <2>3, <3>3
  <2>4. QED
    BY <2>2, <2>3 DEF FilesStep
<1>4. CASE AsksOpen
  <2>1. PICK s \in Sft, nm \in Names :
          /\ Shroffs' = [Shroffs EXCEPT ![s] = OpenSlot]
          /\ sft'[s].file = nm
          /\ FilesKept(Sft \ {s})
          /\ nm \in files' \/ leaked'
    BY <1>4 DEF AsksOpen
  <2>2. CASE t = s
    BY <2>1, <2>2
  <2>3. CASE t # s
    <3>1. sft'[t].shroff = sft[t].shroff
      BY <1>1, <2>1, <2>3 DEF Shroffs
    <3>2. QED
      BY <1>3, <2>1, <2>3, <3>1 DEF FilesKept
  <2>4. QED
    BY <2>2, <2>3
<1>5. CASE AsksClose
  <2>1. PICK s \in Sft : /\ Shroffs' = [Shroffs EXCEPT ![s] = NoFileNo]
                         /\ FilesKept(Sft)
    BY <1>5 DEF AsksClose
  <2>2. t # s
    <3>1. t = s => sft'[t].shroff = NoFileNo
      BY <1>1, <2>1 DEF Shroffs
    <3>2. ~(NoFileNo >= 0)
      BY DEF NoFileNo
    <3>3. QED
      BY <3>1, <3>2
  <2>3. sft'[t].shroff = sft[t].shroff
    BY <1>1, <2>1, <2>2 DEF Shroffs
  <2>4. QED
    BY <1>3, <2>1, <2>3 DEF FilesKept
<1>6. CASE AsksTry \/ AsksLocks \/ AsksNothing
  <2>1. FilesKept(Sft) /\ Shroffs' = Shroffs
    BY <1>6 DEF AsksTry, AsksLocks, AsksNothing
  <2>2. QED
    BY <1>1, <1>3, <2>1 DEF FilesKept
<1>7. QED
  BY <1>4, <1>5, <1>6 DEF SftStep

\* A lock violation is never forgotten.
LEMMA ViolatedStays == SftStep /\ lockViolated => lockViolated'
<1> SUFFICES ASSUME SftStep, lockViolated PROVE lockViolated'
  OBVIOUS
<1>1. CASE AsksOpen
  BY <1>1 DEF AsksOpen, OpenCheck
<1>2. CASE AsksTry
  BY <1>2 DEF AsksTry, OpenAndClose
<1>3. CASE AsksClose
  BY <1>3 DEF AsksClose, CloseFile
<1>4. CASE AsksLocks
  BY <1>4 DEF AsksLocks, LockRegion, UnlockRegion, AccessViolation
<1>5. CASE AsksNothing
  BY <1>5 DEF AsksNothing, tables
<1>6. QED
  BY <1>1, <1>2, <1>3, <1>4, <1>5 DEF SftStep

\* Up to the first lock violation, and without an abort in an open, a file that
\* is open with an entry in SHARE is neither deleted nor renamed.
THEOREM OpenFilesStay == Spec => []OpenFilesExist
<1>1. Init => OpenFilesExist
  BY DEF Init, FreeSft, NoFileNo, OpenFilesExist
<1>2. /\ KernelInv /\ Client!HeldInv /\ EntriesPaired /\ OpenFilesExist /\ [Next]_vars
      => OpenFilesExist'
  <2> SUFFICES ASSUME KernelInv, Client!HeldInv, EntriesPaired, OpenFilesExist,
                      [Next]_vars
               PROVE  OpenFilesExist'
    OBVIOUS
  <2>1. CASE Next
    <3>1. SftStep
      BY <2>1, CallSftStep, LoopSftStep DEF Next, KernelInv
    <3>2. FilesStep
      BY <2>1, CallFilesStep, LoopFilesStep DEF Next, KernelInv
    <3>3. ~lockViolated => OpenFilesExist'
      BY <3>1, <3>2, FilesExistStep
    <3>4. lockViolated => OpenFilesExist'
      BY <3>1, ViolatedStays DEF OpenFilesExist
    <3>5. QED
      BY <3>3, <3>4
  <2>2. CASE UNCHANGED vars
    BY <2>2 DEF vars, tables, kernel, OpenFilesExist
  <2>3. QED
    BY <2>1, <2>2
<1>3. QED
  BY KernelInvariant, ClientInvariant, EntriesArePaired, <1>1, <1>2, PTL DEF Spec

-----------------------------------------------------------------------------
(* References and counts.                                                  *)

\* The handle numbers stop short of 0xff, which marks a handle as free:
\* CONFIG.SYS asks for at most 255 files.
FilesInRange == NSft <= NoSft

\* The handles and the FCBs of the processes P that name SFT s.
HandleRefs(P, s) == {r \in Psps \X Handle : P[r[1]].filetab[r[2]] = s}
FcbRefs(P, s)    == {p \in Psps : s \in P[p].fcbs}
RefsIn(P, s)     == Cardinality(HandleRefs(P, s)) + Cardinality(FcbRefs(P, s))

\* What the count in entry e of SFT s has to do with the references: an SFT
\* that is open by FCB has one at most, in the process that opened it, and the
\* FCBs name no other SFT.
Counted(P, e, s, lost) ==
  /\ RefsIn(P, s) <= e.count
  /\ e.count > 0 /\ e.fcb => /\ e.count = 1
                             /\ HandleRefs(P, s) = {}
                             /\ FcbRefs(P, s) \subseteq {e.psp}
  /\ e.count > 0 /\ ~e.fcb => FcbRefs(P, s) = {}
  /\ ~lost => RefsIn(P, s) = e.count
  /\ ~lost => (e.count > 0 /\ e.file # Device => e.shroff >= 0)

\* References are counted with natural numbers.
LEMMA RefsFinite ==
  \A P, s : /\ IsFiniteSet(HandleRefs(P, s)) /\ IsFiniteSet(FcbRefs(P, s))
            /\ Cardinality(HandleRefs(P, s)) \in Nat
            /\ Cardinality(FcbRefs(P, s)) \in Nat
            /\ RefsIn(P, s) \in Nat
<1> TAKE P, s
<1>1. IsFiniteSet(Psps) /\ IsFiniteSet(Handle)
  BY KernelConstants, FS_Interval DEF Handle
<1>2. IsFiniteSet(Psps \X Handle)
  BY <1>1, FS_Product
<1>3. HandleRefs(P, s) \in SUBSET (Psps \X Handle) /\ FcbRefs(P, s) \in SUBSET Psps
  BY DEF HandleRefs, FcbRefs
<1>4. IsFiniteSet(HandleRefs(P, s)) /\ IsFiniteSet(FcbRefs(P, s))
  BY <1>1, <1>2, <1>3, FS_Subset
<1>5. QED
  BY <1>4, FS_CardinalityType DEF RefsIn

\* Nothing refers to an SFT whose count is zero.
LEMMA NoRefs ==
  ASSUME NEW P, NEW s, RefsIn(P, s) <= 0
  PROVE  HandleRefs(P, s) = {} /\ FcbRefs(P, s) = {}
<1>1. Cardinality(HandleRefs(P, s)) = 0 /\ Cardinality(FcbRefs(P, s)) = 0
  BY RefsFinite DEF RefsIn
<1>2. QED
  BY <1>1, RefsFinite, FS_EmptySet

\* And conversely.
LEMMA EmptyRefs ==
  ASSUME NEW P, NEW s, HandleRefs(P, s) = {}, FcbRefs(P, s) = {}
  PROVE  RefsIn(P, s) = 0
BY FS_EmptySet DEF RefsIn

\* Two things are two.
LEMMA PairCardinality ==
  ASSUME NEW a, NEW b, a # b
  PROVE  Cardinality({a, b}) = 2
<1>1. Cardinality({a}) = 1 /\ IsFiniteSet({a})
  BY FS_Singleton
<1>2. Cardinality({a} \cup {b}) = 2
  BY <1>1, FS_AddElement
<1>3. {a} \cup {b} = {a, b}
  OBVIOUS
<1>4. QED
  BY <1>2, <1>3

\* References that go are missed unless a loss is noted.
LEMMA CountedFewer ==
  ASSUME NEW P, NEW Q, NEW e, NEW f, NEW s \in Sft, NEW lost, NEW lost1,
         Counted(P, e, s, lost), lost => lost1, e.count \in Nat,
         f.count = e.count, f.fcb = e.fcb, f.psp = e.psp,
         HandleRefs(Q, s) \subseteq HandleRefs(P, s),
         FcbRefs(Q, s) \subseteq FcbRefs(P, s),
         \/ lost1
         \/ /\ HandleRefs(Q, s) = HandleRefs(P, s) /\ FcbRefs(Q, s) = FcbRefs(P, s)
            /\ f = e
  PROVE  Counted(Q, f, s, lost1)
<1>1. /\ Cardinality(HandleRefs(Q, s)) <= Cardinality(HandleRefs(P, s))
      /\ Cardinality(FcbRefs(Q, s)) <= Cardinality(FcbRefs(P, s))
  BY RefsFinite, FS_Subset
<1>2. RefsIn(Q, s) <= RefsIn(P, s) /\ RefsIn(P, s) <= e.count
  BY <1>1, RefsFinite DEF RefsIn, Counted
<1>3. RefsIn(Q, s) <= f.count
  BY <1>2, RefsFinite
<1>4. f.count > 0 /\ f.fcb => /\ f.count = 1 /\ HandleRefs(Q, s) = {}
                              /\ FcbRefs(Q, s) \subseteq {f.psp}
  BY DEF Counted
<1>5. f.count > 0 /\ ~f.fcb => FcbRefs(Q, s) = {}
  BY DEF Counted
<1>6. ~lost1 => RefsIn(Q, s) = f.count
  BY DEF Counted, RefsIn
<1>7. ~lost1 => (f.count > 0 /\ f.file # Device => f.shroff >= 0)
  BY DEF Counted
<1>8. QED
  BY <1>3, <1>4, <1>5, <1>6, <1>7 DEF Counted

\* An SFT that was free is given to one handle, to one FCB, or is lost.
LEMMA CountedOpened ==
  ASSUME NEW P, NEW Q, NEW e, NEW f, NEW s \in Sft, NEW lost, NEW lost1,
         Counted(P, e, s, lost), e.count = 0, f.count = 1,
         NEW H, NEW F,
         HandleRefs(Q, s) = HandleRefs(P, s) \cup H,
         FcbRefs(Q, s) = FcbRefs(P, s) \cup F,
         \/ (\E r : H = {r}) /\ F = {} /\ ~f.fcb
         \/ H = {} /\ F = {f.psp} /\ f.fcb
         \/ H = {} /\ F = {} /\ lost1,
         ~lost1 => (f.file # Device => f.shroff >= 0)
  PROVE  Counted(Q, f, s, lost1)
<1>1. HandleRefs(P, s) = {} /\ FcbRefs(P, s) = {}
  BY NoRefs DEF Counted
<1>2. HandleRefs(Q, s) = H /\ FcbRefs(Q, s) = F
  BY <1>1
<1>3. RefsIn(Q, s) <= 1 /\ (~lost1 => RefsIn(Q, s) = 1)
  <2>1. RefsIn(Q, s) = Cardinality(H) + Cardinality(F)
    BY <1>2 DEF RefsIn
  <2>2. Cardinality({}) = 0 /\ \A x : Cardinality({x}) = 1
    BY FS_EmptySet, FS_Singleton
  <2>3. CASE (\E r : H = {r}) /\ F = {}
    <3>1. Cardinality(H) = 1 /\ Cardinality(F) = 0
      BY <2>2, <2>3
    <3>2. QED
      BY <2>1, <3>1
  <2>4. CASE H = {} /\ F = {f.psp}
    <3>1. Cardinality(H) = 0 /\ Cardinality(F) = 1
      BY <2>2, <2>4
    <3>2. QED
      BY <2>1, <3>1
  <2>5. CASE H = {} /\ F = {} /\ lost1
    <3>1. Cardinality(H) = 0 /\ Cardinality(F) = 0
      BY <2>2, <2>5
    <3>2. QED
      BY <2>1, <2>5, <3>1
  <2>6. QED
    BY <2>3, <2>4, <2>5
<1>4. QED
  BY <1>2, <1>3 DEF Counted

\* A handle gives its reference back.
LEMMA CountedReleased ==
  ASSUME NEW P, NEW Q, NEW e, NEW f, NEW s \in Sft, NEW lost, NEW lost1,
         Counted(P, e, s, lost), lost => lost1, e.count \in Nat, e.count > 0,
         e.count = 1 => f.count = 0,
         e.count # 1 => /\ f.count = e.count - 1 /\ f.fcb = e.fcb /\ f.psp = e.psp
                        /\ f.file = e.file /\ f.shroff = e.shroff,
         NEW r \in HandleRefs(P, s),
         HandleRefs(Q, s) = HandleRefs(P, s) \ {r},
         FcbRefs(Q, s) = FcbRefs(P, s)
  PROVE  Counted(Q, f, s, lost1)
<1>1. Cardinality(HandleRefs(Q, s)) = Cardinality(HandleRefs(P, s)) - 1
  BY RefsFinite, FS_RemoveElement
<1>2. RefsIn(Q, s) = RefsIn(P, s) - 1
  BY <1>1, RefsFinite DEF RefsIn
<1>3. ~e.fcb /\ FcbRefs(P, s) = {}
  BY DEF Counted
<1>4. f.count = e.count - 1
  BY Z3
<1>5. RefsIn(Q, s) <= f.count /\ (~lost1 => RefsIn(Q, s) = f.count)
  BY <1>2, <1>4, RefsFinite DEF Counted
<1>6. QED
  BY <1>3, <1>5 DEF Counted

\* An FCB gives its reference back, or has none.
LEMMA CountedFcbReleased ==
  ASSUME NEW P, NEW Q, NEW e, NEW f, NEW s \in Sft, NEW lost, NEW lost1,
         Counted(P, e, s, lost), e.count \in Nat, e.count > 0, e.fcb,
         f.count = 0,
         HandleRefs(Q, s) = HandleRefs(P, s),
         FcbRefs(Q, s) = FcbRefs(P, s) \ {e.psp}
  PROVE  Counted(Q, f, s, lost1)
<1>1. HandleRefs(Q, s) = {} /\ FcbRefs(Q, s) = {}
  BY DEF Counted
<1>2. RefsIn(Q, s) = 0
  BY <1>1, EmptyRefs
<1>3. QED
  BY <1>1, <1>2 DEF Counted

\* Entry f is entry e with n references more.
MoreOf(f, e, n) ==
  /\ f.count = e.count + n
  /\ f.fcb = e.fcb /\ f.psp = e.psp /\ f.file = e.file /\ f.shroff = e.shroff

\* An SFT that handles name is named by more of them, each counted.
LEMMA CountedMore ==
  ASSUME NEW P, NEW Q, NEW e, NEW f, NEW s \in Sft, NEW lost, NEW lost1,
         Counted(P, e, s, lost), lost => lost1, e.count \in Nat,
         NEW H, IsFiniteSet(H), H \cap HandleRefs(P, s) = {},
         H # {} => HandleRefs(P, s) # {},
         MoreOf(f, e, Cardinality(H)),
         HandleRefs(Q, s) = HandleRefs(P, s) \cup H,
         FcbRefs(Q, s) = FcbRefs(P, s)
  PROVE  Counted(Q, f, s, lost1)
<1>1. Cardinality(H) \in Nat /\ (Cardinality(H) = 0 <=> H = {})
  BY FS_CardinalityType, FS_EmptySet
<1>0. /\ f.count = e.count + Cardinality(H)
      /\ f.fcb = e.fcb /\ f.psp = e.psp /\ f.file = e.file /\ f.shroff = e.shroff
  BY DEF MoreOf
<1>2. /\ Cardinality(HandleRefs(Q, s)) =
           Cardinality(HandleRefs(P, s)) + Cardinality(H)
                                         - Cardinality(HandleRefs(P, s) \cap H)
      /\ Cardinality(HandleRefs(P, s) \cap H) = 0
  <2>1. HandleRefs(P, s) \cap H = {}
    OBVIOUS
  <2>2. QED
    BY <2>1, RefsFinite, FS_Union, FS_EmptySet
<1>3. RefsIn(Q, s) = RefsIn(P, s) + Cardinality(H)
  BY <1>1, <1>2, RefsFinite DEF RefsIn
<1>4. RefsIn(Q, s) <= f.count /\ (~lost1 => RefsIn(Q, s) = f.count)
  BY <1>0, <1>1, <1>3, RefsFinite DEF Counted
<1>5. CASE H = {}
  BY <1>0, <1>1, <1>4, <1>5 DEF Counted
<1>6. CASE H # {}
  <2>1. HandleRefs(P, s) # {} /\ e.count > 0
    <3>1. HandleRefs(P, s) # {}
      BY <1>6
    <3>2. ~(e.count <= 0)
      BY <3>1, NoRefs, RefsFinite DEF Counted
    <3>3. QED
      BY <3>1, <3>2
  <2>2. ~e.fcb /\ FcbRefs(P, s) = {}
    BY <2>1 DEF Counted
  <2>3. QED
    BY <1>0, <1>4, <2>1, <2>2 DEF Counted
<1>7. QED
  BY <1>5, <1>6

\* References are counted that no process holds.
LEMMA CountedLost ==
  ASSUME NEW P, NEW e, NEW f, NEW s \in Sft, NEW lost, NEW n \in Nat,
         Counted(P, e, s, lost), e.count \in Nat,
         n > 0 => HandleRefs(P, s) # {},
         MoreOf(f, e, n)
  PROVE  Counted(P, f, s, TRUE)
<1>0. f.count = e.count + n /\ f.fcb = e.fcb /\ f.psp = e.psp
  BY DEF MoreOf
<1>1. RefsIn(P, s) <= f.count
  BY <1>0, RefsFinite DEF Counted
<1>2. CASE n = 0
  BY <1>0, <1>1, <1>2 DEF Counted
<1>3. CASE n > 0
  <2>1. e.count > 0
    <3>1. ~(RefsIn(P, s) <= 0)
      BY <1>3, NoRefs
    <3>2. QED
      BY <3>1, RefsFinite DEF Counted
  <2>2. ~e.fcb /\ FcbRefs(P, s) = {}
    BY <1>3, <2>1 DEF Counted
  <2>3. ~f.fcb
    BY <1>0, <2>2
  <2>4. QED
    BY <1>1, <2>2, <2>3 DEF Counted
<1>4. n = 0 \/ n > 0
  OBVIOUS
<1>5. QED
  BY <1>2, <1>3, <1>4

-----------------------------------------------------------------------------
(* The references after a table of handles or a list of FCBs has changed.  *)

LEMMA SetHandleRefs ==
  ASSUME psp \in [Psps -> Process], cu_psp \in Psps, NEW h \in Handle, NEW v,
         SetHandle(h, v)
  PROVE  \A s : /\ HandleRefs(psp', s) = IF v = s
                                         THEN HandleRefs(psp, s) \cup {<<cu_psp, h>>}
                                         ELSE HandleRefs(psp, s) \ {<<cu_psp, h>>}
                /\ FcbRefs(psp', s) = FcbRefs(psp, s)
<1> TAKE s
<1>1. psp[cu_psp].filetab \in [Handle -> Sft \cup {NoSft}]
  BY DEF Process
<1>2. \A p \in Psps : p # cu_psp => psp'[p] = psp[p]
  BY DEF SetHandle
<1>3. /\ psp'[cu_psp].filetab = [psp[cu_psp].filetab EXCEPT ![h] = v]
      /\ psp'[cu_psp].fcbs = psp[cu_psp].fcbs
  <2>1. psp'[cu_psp] = [psp[cu_psp] EXCEPT !.filetab = [psp[cu_psp].filetab EXCEPT ![h] = v]]
    BY DEF SetHandle
  <2>2. psp[cu_psp] \in Process
    OBVIOUS
  <2>3. QED
    BY <2>1, <2>2 DEF Process
<1>4. \A r \in Psps \X Handle :
        psp'[r[1]].filetab[r[2]] = IF r = <<cu_psp, h>> THEN v
                                   ELSE psp[r[1]].filetab[r[2]]
  <2> TAKE r \in Psps \X Handle
  <2>1. PICK p \in Psps, g \in Handle : r = <<p, g>>
    OBVIOUS
  <2>2. psp'[p].filetab[g] = IF p = cu_psp /\ g = h THEN v ELSE psp[p].filetab[g]
    BY <1>1, <1>2, <1>3
  <2>3. QED
    BY <2>1, <2>2
<1>5. \A p \in Psps : psp'[p].fcbs = psp[p].fcbs
  BY <1>2, <1>3
<1>6. <<cu_psp, h>> \in Psps \X Handle
  OBVIOUS
<1>7. HandleRefs(psp', s) = IF v = s
                            THEN HandleRefs(psp, s) \cup {<<cu_psp, h>>}
                            ELSE HandleRefs(psp, s) \ {<<cu_psp, h>>}
  BY <1>4, <1>6 DEF HandleRefs
<1>8. FcbRefs(psp', s) = FcbRefs(psp, s)
  BY <1>5 DEF FcbRefs
<1>9. QED
  BY <1>7, <1>8

LEMMA SetFcbsRefs ==
  ASSUME psp \in [Psps -> Process], cu_psp \in Psps, NEW S,
         psp' = [psp EXCEPT ![cu_psp].fcbs = S]
  PROVE  \A s : /\ HandleRefs(psp', s) = HandleRefs(psp, s)
                /\ FcbRefs(psp', s) = IF s \in S THEN FcbRefs(psp, s) \cup {cu_psp}
                                      ELSE FcbRefs(psp, s) \ {cu_psp}
<1> TAKE s
<1>1. \A p \in Psps : p # cu_psp => psp'[p] = psp[p]
  OBVIOUS
<1>2. psp'[cu_psp].filetab = psp[cu_psp].filetab /\ psp'[cu_psp].fcbs = S
  <2>1. psp'[cu_psp] = [psp[cu_psp] EXCEPT !.fcbs = S] /\ psp[cu_psp] \in Process
    OBVIOUS
  <2>2. QED
    BY <2>1 DEF Process
<1>3. \A r \in Psps \X Handle : psp'[r[1]].filetab[r[2]] = psp[r[1]].filetab[r[2]]
  <2> TAKE r \in Psps \X Handle
  <2>1. PICK p \in Psps, g \in Handle : r = <<p, g>>
    OBVIOUS
  <2>2. QED
    BY <1>1, <1>2, <2>1
<1>4. \A p \in Psps : s \in psp'[p].fcbs <=> IF p = cu_psp THEN s \in S
                                              ELSE s \in psp[p].fcbs
  BY <1>1, <1>2
<1>5. HandleRefs(psp', s) = HandleRefs(psp, s)
  BY <1>3 DEF HandleRefs
<1>6. FcbRefs(psp', s) = IF s \in S THEN FcbRefs(psp, s) \cup {cu_psp}
                         ELSE FcbRefs(psp, s) \ {cu_psp}
  BY <1>4 DEF FcbRefs
<1>7. QED
  BY <1>5, <1>6

\* A process that is replaced takes its references with it and brings others.
LEMMA ReplacedRefs ==
  ASSUME psp \in [Psps -> Process], NEW p \in Psps, NEW e,
         psp' = [psp EXCEPT ![p] = e]
  PROVE  \A s : /\ HandleRefs(psp', s) =
                     {r \in HandleRefs(psp, s) : r[1] # p}
                       \cup ({p} \X {h \in Handle : e.filetab[h] = s})
                /\ FcbRefs(psp', s) =
                     (FcbRefs(psp, s) \ {p}) \cup {q \in {p} : s \in e.fcbs}
<1> TAKE s
<1>1. psp'[p] = e /\ \A q \in Psps : q # p => psp'[q] = psp[q]
  OBVIOUS
<1>2. ASSUME NEW r
      PROVE  r \in HandleRefs(psp', s) <=>
               \/ r \in HandleRefs(psp, s) /\ r[1] # p
               \/ r \in {p} \X {h \in Handle : e.filetab[h] = s}
  <2>1. CASE r \in Psps \X Handle
    <3>1. PICK q \in Psps, g \in Handle : r = <<q, g>>
      BY <2>1
    <3>2. /\ r \in HandleRefs(psp', s) <=> psp'[q].filetab[g] = s
          /\ r \in HandleRefs(psp, s) <=> psp[q].filetab[g] = s
      BY <3>1 DEF HandleRefs
    <3>3. r \in {p} \X {h \in Handle : e.filetab[h] = s} <=> q = p /\ e.filetab[g] = s
      BY <3>1
    <3>4. r[1] = q
      BY <3>1
    <3>5. QED
      BY <1>1, <3>2, <3>3, <3>4
  <2>2. CASE r \notin Psps \X Handle
    BY <2>2 DEF HandleRefs
  <2>3. QED
    BY <2>1, <2>2
<1>3. HandleRefs(psp', s) = {r \in HandleRefs(psp, s) : r[1] # p}
                              \cup ({p} \X {h \in Handle : e.filetab[h] = s})
  BY <1>2
<1>4. FcbRefs(psp', s) = (FcbRefs(psp, s) \ {p}) \cup {q \in {p} : s \in e.fcbs}
  BY <1>1 DEF FcbRefs
<1>5. QED
  BY <1>3, <1>4

-----------------------------------------------------------------------------
(* The counts after a step.                                                *)

AllCounted == \A s \in Sft : Counted(psp, sft[s], s, leaked)

\* 0xff names no SFT, and the types that are used here.
LEMMA RefTypes ==
  ASSUME FilesInRange, KernelInv
  PROVE  /\ NoSft \notin Sft
         /\ cu_psp \in Psps /\ psp \in [Psps -> Process]
         /\ SftOK /\ leaked \in BOOLEAN
         /\ \A s \in Sft : sft[s].count \in Nat
         /\ \A h \in Handle : SftOf(h) \in Sft \cup {NoSft}
<1>1. NoSft \notin Sft
  BY KernelConstants DEF FilesInRange, NoSft, Sft
<1>2. /\ cu_psp \in Psps /\ psp \in [Psps -> Process]
      /\ SftOK /\ leaked \in BOOLEAN
  BY DEF KernelInv, KernelTypeOK, SftOK
<1>3. \A s \in Sft : sft[s].count \in Nat
  BY <1>2, KernelConstants DEF SftOK, SftEntry
<1>4. \A h \in Handle : SftOf(h) \in Sft \cup {NoSft}
  BY <1>2 DEF SftOf, Process
<1>5. QED
  BY <1>1, <1>2, <1>3, <1>4

\* A process that is left alone keeps its references.
LEMMA CountedQuiet ==
  ASSUME FilesInRange, KernelInv, AllCounted, psp' = psp, sft' = sft, leaked => leaked'
  PROVE  AllCounted'
<1> SUFFICES ASSUME NEW s \in Sft PROVE Counted(psp', sft'[s], s, leaked')
  BY DEF AllCounted
<1>1. Counted(psp, sft[s], s, leaked) /\ sft[s].count \in Nat
  BY RefTypes DEF AllCounted
<1>2. HandleRefs(psp', s) = HandleRefs(psp, s) /\ FcbRefs(psp', s) = FcbRefs(psp, s)
  OBVIOUS
<1>3. sft'[s] = sft[s]
  OBVIOUS
<1>4. QED
  BY <1>1, <1>2, <1>3, CountedFewer

\* An SFT that DosOpenSft has found belongs to one handle or FCB.
LEMMA FoundSft ==
  ASSUME KernelInv, NEW s \in Sft, NEW target \in Target, NEW req, NEW fcb \in BOOLEAN,
         \/ DosOpenSft(s, target, req, fcb)
         \/ /\ FreeSfts # {} /\ s = Min(FreeSfts)
            /\ IF target = Device THEN OpenDevice(s, req, fcb)
                                  ELSE OpenFile(s, target, req, fcb)
  PROVE  /\ sft[s].count = 0
         /\ sft' = [sft EXCEPT ![s] = sft'[s]]
         /\ sft'[s].count = 1 /\ sft'[s].fcb = fcb /\ sft'[s].psp = cu_psp
         /\ sft'[s].file # Device => sft'[s].shroff >= 0
<1>1. FreeSfts # {} /\ s = Min(FreeSfts)
  BY DEF DosOpenSft
<1>2. sft[s].count = 0
  BY <1>1, ChosenSft
<1>3. IF target = Device THEN OpenDevice(s, req, fcb) ELSE OpenFile(s, target, req, fcb)
  BY DEF DosOpenSft
<1>4. sft \in [Sft -> SftEntry]
  BY DEF KernelInv, KernelTypeOK
<1>5. PICK n : /\ sft' = [sft EXCEPT ![s] = OpenedSft(target, req, fcb, n)]
               /\ target # Device => n = OpenSlot /\ FreeFiles # {}
  BY <1>3 DEF OpenDevice, OpenFile, OpenCheck, OpenAllowed
<1>6. sft'[s] = OpenedSft(target, req, fcb, n)
  BY <1>4, <1>5
<1>7. /\ sft'[s].count = 1 /\ sft'[s].fcb = fcb /\ sft'[s].psp = cu_psp
      /\ sft'[s].file = target /\ sft'[s].shroff = n
  BY <1>6 DEF OpenedSft
<1>8. target # Device => n >= 0
  <2>1. FreeFiles \subseteq Nat
    BY SharingSizes DEF FreeFiles, FileNo
  <2>2. FreeFiles # {} => OpenSlot \in FreeFiles
    BY <2>1, MinOfSlots DEF OpenSlot
  <2>3. FreeFiles # {} => OpenSlot >= 0
    <3>1. FreeFiles # {} => OpenSlot \in Nat
      BY <2>1, <2>2
    <3>2. QED
      BY <3>1
  <2>4. QED
    BY <1>5, <2>3
<1>9. QED
  BY <1>2, <1>5, <1>6, <1>7, <1>8

LEMMA CountedOpen ==
  ASSUME FilesInRange, KernelInv, AllCounted, NEW target \in Target, NEW req,
         DosOpen(target, req)
  PROVE  AllCounted'
<1>1. /\ NoSft \notin Sft /\ cu_psp \in Psps /\ psp \in [Psps -> Process] /\ SftOK
      /\ \A s \in Sft : sft[s].count \in Nat
  BY RefTypes
<1>2. PICK s \in Sft : /\ DosOpenSft(s, target, req, FALSE)
                       /\ SetHandle(Min(FreeHandles), s)
  BY DEF DosOpen
<1>3. PICK h \in Handle : h = Min(FreeHandles) /\ SetHandle(h, s)
  BY <1>1, <1>2, ChosenHandle DEF DosOpen
<1>4. SftOf(h) = NoSft
  <2>1. FreeHandles \subseteq Nat /\ FreeHandles # {}
    BY <1>1, KernelConstants DEF FreeHandles, Process, DosOpen
  <2>2. h \in FreeHandles
    BY <1>3, <2>1, MinOfSlots
  <2>3. QED
    BY <2>2 DEF FreeHandles
<1>5. /\ sft[s].count = 0
      /\ sft' = [sft EXCEPT ![s] = sft'[s]]
      /\ sft'[s].count = 1 /\ ~sft'[s].fcb
      /\ sft'[s].file # Device => sft'[s].shroff >= 0
  BY <1>2, FoundSft
<1>6. leaked' = leaked
  BY DEF DosOpen
<1> SUFFICES ASSUME NEW t \in Sft PROVE Counted(psp', sft'[t], t, leaked')
  BY DEF AllCounted
<1>7. Counted(psp, sft[t], t, leaked)
  BY DEF AllCounted
<1>8. /\ HandleRefs(psp', t) = IF s = t THEN HandleRefs(psp, t) \cup {<<cu_psp, h>>}
                               ELSE HandleRefs(psp, t) \ {<<cu_psp, h>>}
      /\ FcbRefs(psp', t) = FcbRefs(psp, t)
  BY <1>1, <1>3, SetHandleRefs
<1>9. CASE t = s
  <2>1. HandleRefs(psp', t) = HandleRefs(psp, t) \cup {<<cu_psp, h>>}
    BY <1>8, <1>9
  <2>2. FcbRefs(psp', t) = FcbRefs(psp, t) \cup {}
    BY <1>8
  <2>3. sft[t].count = 0 /\ sft'[t].count = 1 /\ ~sft'[t].fcb
        /\ (sft'[t].file # Device => sft'[t].shroff >= 0)
    BY <1>5, <1>9
  <2>4. QED
    BY <1>7, <2>1, <2>2, <2>3, CountedOpened
<1>10. CASE t # s
  <2>1. sft'[t] = sft[t]
    BY <1>1, <1>5, <1>10 DEF SftOK
  <2>2. <<cu_psp, h>> \notin HandleRefs(psp, t)
    BY <1>1, <1>4 DEF HandleRefs, SftOf
  <2>3. HandleRefs(psp', t) = HandleRefs(psp, t)
    BY <1>8, <1>10, <2>2
  <2>4. QED
    BY <1>1, <1>6, <1>7, <1>8, <2>1, <2>3, CountedFewer
<1>11. QED
  BY <1>9, <1>10

LEMMA CountedOpenLeaks ==
  ASSUME FilesInRange, KernelInv, AllCounted, NEW target \in Target, NEW req,
         NEW fcb \in BOOLEAN, DosOpenLeaks(target, req, fcb)
  PROVE  AllCounted'
<1>1. SftOK /\ \A s \in Sft : sft[s].count \in Nat
  BY RefTypes
<1>2. FreeSfts # {} /\ psp' = psp /\ leaked' = TRUE
  BY DEF DosOpenLeaks, Leak
<1>3. PICK s \in Sft : s = Min(FreeSfts)
  BY <1>2, ChosenSft
<1>4. IF target = Device THEN OpenDevice(s, req, fcb) ELSE OpenFile(s, target, req, fcb)
  BY <1>3 DEF DosOpenLeaks, OpenDevice
<1>5. /\ sft[s].count = 0
      /\ sft' = [sft EXCEPT ![s] = sft'[s]] /\ sft'[s].count = 1
  BY <1>2, <1>3, <1>4, FoundSft
<1> SUFFICES ASSUME NEW t \in Sft PROVE Counted(psp', sft'[t], t, leaked')
  BY DEF AllCounted
<1>7. Counted(psp, sft[t], t, leaked)
  BY DEF AllCounted
<1>8. HandleRefs(psp', t) = HandleRefs(psp, t) /\ FcbRefs(psp', t) = FcbRefs(psp, t)
  BY <1>2
<1>9. CASE t = s
  <2>1. /\ HandleRefs(psp', t) = HandleRefs(psp, t) \cup {}
        /\ FcbRefs(psp', t) = FcbRefs(psp, t) \cup {}
    BY <1>8
  <2>2. sft[t].count = 0 /\ sft'[t].count = 1
    BY <1>5, <1>9
  <2>3. QED
    BY <1>2, <1>7, <2>1, <2>2, CountedOpened
<1>10. CASE t # s
  <2>1. sft'[t] = sft[t]
    BY <1>1, <1>5, <1>10 DEF SftOK
  <2>2. QED
    BY <1>1, <1>2, <1>7, <1>8, <2>1, CountedFewer
<1>11. QED
  BY <1>9, <1>10

LEMMA CountedFcbOpen ==
  ASSUME FilesInRange, KernelInv, AllCounted, NEW target \in Target,
         FcbOpen(target)
  PROVE  AllCounted'
<1>1. /\ cu_psp \in Psps /\ psp \in [Psps -> Process] /\ SftOK
      /\ \A s \in Sft : sft[s].count \in Nat
  BY RefTypes
<1>2. PICK s \in Sft : /\ DosOpenSft(s, target, ReadWriteCompat, TRUE)
                       /\ psp' = [psp EXCEPT ![cu_psp].fcbs = @ \cup {s}]
  BY DEF FcbOpen
<1>5. /\ sft[s].count = 0
      /\ sft' = [sft EXCEPT ![s] = sft'[s]]
      /\ sft'[s].count = 1 /\ sft'[s].fcb /\ sft'[s].psp = cu_psp
      /\ sft'[s].file # Device => sft'[s].shroff >= 0
  BY <1>2, FoundSft
<1>6. leaked' = leaked
  BY DEF FcbOpen
<1> SUFFICES ASSUME NEW t \in Sft PROVE Counted(psp', sft'[t], t, leaked')
  BY DEF AllCounted
<1>7. Counted(psp, sft[t], t, leaked)
  BY DEF AllCounted
<1>8. PICK S : S = psp[cu_psp].fcbs \cup {s} /\ psp' = [psp EXCEPT ![cu_psp].fcbs = S]
  BY <1>2
<1>9. /\ HandleRefs(psp', t) = HandleRefs(psp, t)
      /\ FcbRefs(psp', t) = IF t \in S THEN FcbRefs(psp, t) \cup {cu_psp}
                            ELSE FcbRefs(psp, t) \ {cu_psp}
  <2>1. psp' = [psp EXCEPT ![cu_psp].fcbs = S]
    BY <1>8
  <2>2. \A u : /\ HandleRefs(psp', u) = HandleRefs(psp, u)
               /\ FcbRefs(psp', u) = IF u \in S THEN FcbRefs(psp, u) \cup {cu_psp}
                                     ELSE FcbRefs(psp, u) \ {cu_psp}
    BY <1>1, <2>1, SetFcbsRefs
  <2>3. QED
    BY <2>2
<1>10. CASE t = s
  <2>1. FcbRefs(psp', t) = FcbRefs(psp, t) \cup {sft'[t].psp}
    BY <1>5, <1>8, <1>9, <1>10
  <2>2. HandleRefs(psp', t) = HandleRefs(psp, t) \cup {}
    BY <1>9
  <2>3. /\ sft[t].count = 0 /\ sft'[t].count = 1 /\ sft'[t].fcb
        /\ sft'[t].file # Device => sft'[t].shroff >= 0
    BY <1>5, <1>10
  <2>4. QED
    BY <1>7, <2>1, <2>2, <2>3, CountedOpened
<1>11. CASE t # s
  <2>1. sft'[t] = sft[t]
    BY <1>1, <1>5, <1>11 DEF SftOK
  <2>2. cu_psp \in FcbRefs(psp, t) <=> t \in S
    BY <1>1, <1>8, <1>11 DEF FcbRefs
  <2>3. FcbRefs(psp', t) = FcbRefs(psp, t)
    BY <1>9, <2>2
  <2>4. QED
    BY <1>1, <1>6, <1>7, <1>9, <2>1, <2>3, CountedFewer
<1>12. QED
  BY <1>10, <1>11

\* What DosCloseSft leaves of an SFT, and of one that gets a reference more.
LEMMA ReleasedFields ==
  ASSUME SftOK, NEW s \in Sft
  PROVE  /\ sft[s].count = 1 => Released(s).count = 0
         /\ sft[s].count # 1 => /\ Released(s).count = sft[s].count - 1
                                /\ Released(s).fcb = sft[s].fcb
                                /\ Released(s).psp = sft[s].psp
                                /\ Released(s).file = sft[s].file
                                /\ Released(s).shroff = sft[s].shroff
<1>1. sft[s] \in SftEntry
  BY DEF SftOK
<1>2. CASE sft[s].count = 1
  BY <1>2 DEF Released, FreeSft
<1>3. CASE sft[s].count # 1
  <2>1. Released(s) = [sft[s] EXCEPT !.count = sft[s].count - 1]
    BY <1>3 DEF Released
  <2>2. QED
    BY <1>1, <1>3, <2>1 DEF SftEntry
<1>4. QED
  BY <1>2, <1>3

LEMMA MoreFields ==
  ASSUME SftOK, NEW s \in Sft, NEW n
  PROVE  MoreOf([sft[s] EXCEPT !.count = @ + n], sft[s], n)
<1>1. sft[s] \in SftEntry
  BY DEF SftOK
<1>2. QED
  BY <1>1 DEF SftEntry, MoreOf

\* An open handle is a reference.
LEMMA OpenHandleRef ==
  ASSUME FilesInRange, KernelInv, NEW h \in Handle, SftOf(h) # NoSft
  PROVE  SftOf(h) \in Sft /\ <<cu_psp, h>> \in HandleRefs(psp, SftOf(h))
<1>1. SftOf(h) \in Sft /\ cu_psp \in Psps
  BY RefTypes
<1>2. QED
  BY <1>1 DEF HandleRefs, SftOf

\* A handle that names SFT s is no reference to another one.
LEMMA OtherRefs ==
  ASSUME FilesInRange, KernelInv, NEW h \in Handle, NEW v, SetHandle(h, v),
         NEW s \in Sft, v # s, SftOf(h) # s
  PROVE  HandleRefs(psp', s) = HandleRefs(psp, s) /\ FcbRefs(psp', s) = FcbRefs(psp, s)
<1>1. cu_psp \in Psps /\ psp \in [Psps -> Process]
  BY RefTypes
<1>2. \A t : /\ HandleRefs(psp', t) = IF v = t
                                      THEN HandleRefs(psp, t) \cup {<<cu_psp, h>>}
                                      ELSE HandleRefs(psp, t) \ {<<cu_psp, h>>}
             /\ FcbRefs(psp', t) = FcbRefs(psp, t)
  BY <1>1, SetHandleRefs
<1>3. <<cu_psp, h>> \notin HandleRefs(psp, s)
  BY DEF HandleRefs, SftOf
<1>4. QED
  BY <1>2, <1>3

LEMMA CountedClose ==
  ASSUME FilesInRange, KernelInv, AllCounted, NEW h \in Handle, DosClose(h)
  PROVE  AllCounted'
<1>1. /\ NoSft \notin Sft /\ cu_psp \in Psps /\ psp \in [Psps -> Process] /\ SftOK
      /\ \A s \in Sft : sft[s].count \in Nat
  BY RefTypes
<1>2. PICK s \in Sft : s = SftOf(h) /\ <<cu_psp, h>> \in HandleRefs(psp, s)
  BY OpenHandleRef DEF DosClose, OpenHandle
<1>3. /\ SetHandle(h, NoSft) /\ leaked' = leaked
      /\ sft[s].count > 0 /\ sft' = [sft EXCEPT ![s] = Released(s)]
  BY <1>2 DEF DosClose, DosCloseSft
<1> SUFFICES ASSUME NEW t \in Sft PROVE Counted(psp', sft'[t], t, leaked')
  BY DEF AllCounted
<1>4. Counted(psp, sft[t], t, leaked)
  BY DEF AllCounted
<1>5. CASE t = s
  <2>1. /\ HandleRefs(psp', t) = HandleRefs(psp, t) \ {<<cu_psp, h>>}
        /\ FcbRefs(psp', t) = FcbRefs(psp, t)
    BY <1>1, <1>3, SetHandleRefs
  <2>2. sft'[t] = Released(t) /\ sft[t].count > 0 /\ <<cu_psp, h>> \in HandleRefs(psp, t)
    BY <1>1, <1>2, <1>3, <1>5 DEF SftOK
  <2>3. /\ sft[t].count = 1 => sft'[t].count = 0
        /\ sft[t].count # 1 => /\ sft'[t].count = sft[t].count - 1
                               /\ sft'[t].fcb = sft[t].fcb /\ sft'[t].psp = sft[t].psp
                               /\ sft'[t].file = sft[t].file
                               /\ sft'[t].shroff = sft[t].shroff
    BY <1>1, <2>2, ReleasedFields
  <2>4. QED
    BY <1>1, <1>3, <1>4, <2>1, <2>2, <2>3, CountedReleased
<1>6. CASE t # s
  <2>1. sft'[t] = sft[t]
    BY <1>1, <1>3, <1>6 DEF SftOK
  <2>2. HandleRefs(psp', t) = HandleRefs(psp, t) /\ FcbRefs(psp', t) = FcbRefs(psp, t)
    BY <1>1, <1>2, <1>3, <1>6, OtherRefs
  <2>3. QED
    BY <1>1, <1>3, <1>4, <2>1, <2>2, CountedFewer
<1>7. QED
  BY <1>5, <1>6

LEMMA CountedCloseFault ==
  ASSUME FilesInRange, KernelInv, AllCounted, NEW h \in Handle, DosCloseFault(h)
  PROVE  AllCounted'
<1>1. /\ NoSft \notin Sft /\ cu_psp \in Psps /\ psp \in [Psps -> Process]
      /\ \A s \in Sft : sft[s].count \in Nat
  BY RefTypes
<1>2. SetHandle(h, NoSft) /\ leaked' = TRUE /\ sft' = sft
  BY DEF DosCloseFault, Leak
<1> SUFFICES ASSUME NEW t \in Sft PROVE Counted(psp', sft'[t], t, leaked')
  BY DEF AllCounted
<1>3. Counted(psp, sft[t], t, leaked)
  BY DEF AllCounted
<1>4. \A u : /\ HandleRefs(psp', u) = IF NoSft = u
                                      THEN HandleRefs(psp, u) \cup {<<cu_psp, h>>}
                                      ELSE HandleRefs(psp, u) \ {<<cu_psp, h>>}
             /\ FcbRefs(psp', u) = FcbRefs(psp, u)
  BY <1>1, <1>2, SetHandleRefs
<1>5. /\ HandleRefs(psp', t) \subseteq HandleRefs(psp, t)
      /\ FcbRefs(psp', t) \subseteq FcbRefs(psp, t)
  BY <1>1, <1>4
<1>6. QED
  BY <1>1, <1>2, <1>3, <1>5, CountedFewer

\* The new handle names the SFT of the old one, which it did not name before.
LEMMA CountedDuplicate ==
  ASSUME FilesInRange, KernelInv, AllCounted, NEW h \in Handle, NEW s \in Sft,
         SetHandle(h, s), SftOf(h) # s, leaked' = leaked,
         HandleRefs(psp, s) # {}, MoreOf(sft'[s], sft[s], 1)
  PROVE  Counted(psp', sft'[s], s, leaked')
<1>1. /\ cu_psp \in Psps /\ psp \in [Psps -> Process] /\ SftOK
      /\ \A t \in Sft : sft[t].count \in Nat
  BY RefTypes
<1>2. /\ HandleRefs(psp', s) = HandleRefs(psp, s) \cup {<<cu_psp, h>>}
      /\ FcbRefs(psp', s) = FcbRefs(psp, s)
  BY <1>1, SetHandleRefs
<1>3. PICK H : H = {<<cu_psp, h>>} /\ IsFiniteSet(H) /\ Cardinality(H) = 1
  BY FS_Singleton
<1>4. H \cap HandleRefs(psp, s) = {} /\ HandleRefs(psp', s) = HandleRefs(psp, s) \cup H
  BY <1>2, <1>3 DEF HandleRefs, SftOf
<1>6. Counted(psp, sft[s], s, leaked)
  BY DEF AllCounted
<1>7. MoreOf(sft'[s], sft[s], Cardinality(H))
  BY <1>3
<1>8. sft[s].count \in Nat /\ (leaked => leaked') /\ (H # {} => HandleRefs(psp, s) # {})
  BY <1>1
<1>9. FcbRefs(psp', s) = FcbRefs(psp, s)
  BY <1>2
<1>10. QED
  BY <1>3, <1>4, <1>6, <1>7, <1>8, <1>9, CountedMore

\* What DosForceDup does to the SFTs.
LEMMA ForceDupCases ==
  ASSUME NEW old, NEW new, DosForceDup(old, new)
  PROVE  /\ SftOf(new) = NoSft => sft' = [sft EXCEPT ![SftOf(old)].count = @ + 1]
         /\ SftOf(new) # NoSft /\ SftOf(new) = SftOf(old) =>
              sft' = [sft EXCEPT ![SftOf(old)].shroff =
                        IF LastClose(SftOf(old)) THEN NoFileNo ELSE @]
         /\ SftOf(new) # NoSft /\ SftOf(new) # SftOf(old) =>
              sft' = [sft EXCEPT ![SftOf(new)] = Released(SftOf(new)),
                                 ![SftOf(old)].count = @ + 1]
<1>1. ASSUME SftOf(new) = NoSft
      PROVE  sft' = [sft EXCEPT ![SftOf(old)].count = @ + 1]
  BY <1>1 DEF DosForceDup, OpenHandle
<1>2. CASE SftOf(new) # NoSft /\ SftOf(new) = SftOf(old)
  BY <1>2, Zenon DEF DosForceDup
<1>3. CASE SftOf(new) # NoSft /\ SftOf(new) # SftOf(old)
  BY <1>3, Zenon DEF DosForceDup
<1>4. QED
  BY <1>1, <1>2, <1>3

LEMMA CountedForceDup ==
  ASSUME FilesInRange, KernelInv, AllCounted, NEW old \in Handle, NEW new \in Handle,
         DosForceDup(old, new)
  PROVE  AllCounted'
<1>1. /\ NoSft \notin Sft /\ cu_psp \in Psps /\ psp \in [Psps -> Process] /\ SftOK
      /\ leaked \in BOOLEAN
      /\ \A s \in Sft : sft[s].count \in Nat
  BY RefTypes
<1>2. PICK s \in Sft : /\ s = SftOf(old) /\ sft[s].count > 0
                       /\ <<cu_psp, old>> \in HandleRefs(psp, s)
  BY OpenHandleRef DEF DosForceDup, OpenHandle
<1>3. /\ SetHandle(new, IF new = old THEN NoSft ELSE s)
      /\ leaked' = (leaked \/ new = old)
  BY <1>2 DEF DosForceDup, LeakIf
<1>4. HandleRefs(psp, s) # {}
  BY <1>2
<1> SUFFICES ASSUME NEW t \in Sft PROVE Counted(psp', sft'[t], t, leaked')
  BY DEF AllCounted
<1>5. Counted(psp, sft[t], t, leaked)
  BY DEF AllCounted
<1>6. CASE SftOf(new) = NoSft
  <2>1. new # old /\ SetHandle(new, s) /\ leaked' = leaked
    BY <1>1, <1>2, <1>3, <1>6
  <2>2. sft' = [sft EXCEPT ![s] = [sft[s] EXCEPT !.count = @ + 1]]
    <3>1. sft' = [sft EXCEPT ![SftOf(old)].count = @ + 1]
      BY <1>6, ForceDupCases
    <3>2. QED
      BY <1>2, <3>1
  <2>3. CASE t = s
    <3>1. MoreOf(sft'[s], sft[s], 1)
      <4>1. sft'[s] = [sft[s] EXCEPT !.count = @ + 1]
        BY <1>1, <2>2 DEF SftOK
      <4>2. QED
        BY <1>1, <4>1, MoreFields
    <3>2. SftOf(new) # s
      BY <1>1, <1>6
    <3>3. QED
      BY <1>4, <2>1, <2>3, <3>1, <3>2, CountedDuplicate
  <2>4. CASE t # s
    <3>1. sft'[t] = sft[t]
      BY <1>1, <2>2, <2>4 DEF SftOK
    <3>2. HandleRefs(psp', t) = HandleRefs(psp, t) /\ FcbRefs(psp', t) = FcbRefs(psp, t)
      BY <1>1, <1>6, <2>1, <2>4, OtherRefs
    <3>3. QED
      BY <1>1, <1>5, <2>1, <3>1, <3>2, CountedFewer
  <2>5. QED
    BY <2>3, <2>4
<1>7. CASE SftOf(new) = s
  <2>1. sft' = [sft EXCEPT ![s] = [sft[s] EXCEPT !.shroff = IF LastClose(s) THEN NoFileNo
                                                            ELSE @]]
    BY <1>1, <1>2, <1>7, ForceDupCases
  <2>2. /\ sft'[t].count = sft[t].count
        /\ sft'[t].fcb = sft[t].fcb /\ sft'[t].psp = sft[t].psp
    <3>1. sft[t] \in SftEntry
      BY <1>1 DEF SftOK
    <3>2. QED
      BY <1>1, <2>1, <3>1 DEF SftOK, SftEntry
  <2>3. CASE new = old
    <3>1. SetHandle(new, NoSft) /\ leaked' /\ (leaked => leaked')
      BY <1>3, <2>3
    <3>2. \A u : /\ HandleRefs(psp', u) = IF NoSft = u
                                          THEN HandleRefs(psp, u) \cup {<<cu_psp, new>>}
                                          ELSE HandleRefs(psp, u) \ {<<cu_psp, new>>}
                 /\ FcbRefs(psp', u) = FcbRefs(psp, u)
      BY <1>1, <3>1, SetHandleRefs
    <3>3. /\ HandleRefs(psp', t) \subseteq HandleRefs(psp, t)
          /\ FcbRefs(psp', t) \subseteq FcbRefs(psp, t)
      BY <1>1, <3>2
    <3>4. QED
      BY <1>1, <1>5, <2>2, <3>1, <3>3, CountedFewer
  <2>4. CASE new # old
    <3>1. SetHandle(new, s) /\ leaked' = leaked
      BY <1>1, <1>3, <2>4
    <3>2. \A u : /\ HandleRefs(psp', u) = IF s = u
                                          THEN HandleRefs(psp, u) \cup {<<cu_psp, new>>}
                                          ELSE HandleRefs(psp, u) \ {<<cu_psp, new>>}
                 /\ FcbRefs(psp', u) = FcbRefs(psp, u)
      BY <1>1, <3>1, SetHandleRefs
    <3>3. <<cu_psp, new>> \in HandleRefs(psp, s)
      BY <1>1, <1>7 DEF HandleRefs, SftOf
    <3>4. HandleRefs(psp', t) = HandleRefs(psp, t) /\ FcbRefs(psp', t) = FcbRefs(psp, t)
      <4>1. CASE t = s
        BY <3>2, <3>3, <4>1
      <4>2. CASE t # s
        BY <1>1, <1>7, <3>1, <4>2, OtherRefs
      <4>3. QED
        BY <4>1, <4>2
    <3>5. ~LastClose(s)
      <4>1. {<<cu_psp, old>>, <<cu_psp, new>>} \in SUBSET HandleRefs(psp, s)
        BY <1>2, <3>3
      <4>2. Cardinality({<<cu_psp, old>>, <<cu_psp, new>>}) = 2
        <5>1. <<cu_psp, old>> # <<cu_psp, new>>
          BY <2>4
        <5>2. QED
          BY <5>1, PairCardinality
      <4>3. 2 <= Cardinality(HandleRefs(psp, s))
        BY <4>1, <4>2, RefsFinite, FS_Subset
      <4>4. RefsIn(psp, s) <= sft[s].count
        BY DEF AllCounted, Counted
      <4>5. sft[s].count >= 2
        BY <1>1, <4>3, <4>4, RefsFinite DEF RefsIn
      <4>6. QED
        BY <4>5 DEF LastClose
    <3>6. sft'[t] = sft[t]
      <4>1. sft' = [sft EXCEPT ![s] = [sft[s] EXCEPT !.shroff = @]]
        BY <2>1, <3>5
      <4>2. sft[s] \in SftEntry
        BY <1>1 DEF SftOK
      <4>3. [sft[s] EXCEPT !.shroff = @] = sft[s]
        BY <4>2 DEF SftEntry
      <4>4. QED
        BY <1>1, <4>1, <4>3 DEF SftOK
    <3>7. QED
      BY <1>1, <1>5, <3>1, <3>4, <3>6, CountedFewer
  <2>5. QED
    BY <2>3, <2>4
<1>8. CASE SftOf(new) # NoSft /\ SftOf(new) # s
  <2>1. new # old /\ SetHandle(new, s) /\ leaked' = leaked
    BY <1>1, <1>2, <1>3, <1>8
  <2>2. PICK b \in Sft : /\ b = SftOf(new) /\ b # s
                         /\ <<cu_psp, new>> \in HandleRefs(psp, b)
    BY <1>8, OpenHandleRef
  <2>3. sft[b].count > 0
    BY <1>8, <2>2 DEF DosForceDup, OpenHandle
  <2>4. sft' = [sft EXCEPT ![b] = Released(b), ![s].count = @ + 1]
    BY <1>2, <1>8, <2>2, ForceDupCases
  <2>5. /\ sft'[b] = Released(b) /\ sft'[s] = [sft[s] EXCEPT !.count = @ + 1]
        /\ t # b /\ t # s => sft'[t] = sft[t]
    BY <1>1, <2>2, <2>4 DEF SftOK
  <2>6. CASE t = s
    <3>1. SftOf(new) # s
      BY <1>8
    <3>2. MoreOf(sft'[s], sft[s], 1)
      BY <1>1, <2>5, MoreFields
    <3>3. QED
      BY <1>4, <2>1, <2>6, <3>1, <3>2, CountedDuplicate
  <2>7. CASE t = b
    <3>1. /\ HandleRefs(psp', t) = HandleRefs(psp, t) \ {<<cu_psp, new>>}
          /\ FcbRefs(psp', t) = FcbRefs(psp, t)
      <4>1. s # t
        BY <2>2, <2>7
      <4>2. \A u : /\ HandleRefs(psp', u) = IF s = u
                                            THEN HandleRefs(psp, u) \cup {<<cu_psp, new>>}
                                            ELSE HandleRefs(psp, u) \ {<<cu_psp, new>>}
                   /\ FcbRefs(psp', u) = FcbRefs(psp, u)
        BY <1>1, <2>1, SetHandleRefs
      <4>3. QED
        BY <4>1, <4>2
    <3>2. sft'[t] = Released(t) /\ sft[t].count > 0 /\ <<cu_psp, new>> \in HandleRefs(psp, t)
      BY <2>2, <2>3, <2>5, <2>7
    <3>3. /\ sft[t].count = 1 => sft'[t].count = 0
          /\ sft[t].count # 1 => /\ sft'[t].count = sft[t].count - 1
                                 /\ sft'[t].fcb = sft[t].fcb /\ sft'[t].psp = sft[t].psp
                                 /\ sft'[t].file = sft[t].file
                                 /\ sft'[t].shroff = sft[t].shroff
      BY <1>1, <3>2, ReleasedFields
    <3>4. QED
      BY <1>1, <1>5, <2>1, <3>1, <3>2, <3>3, CountedReleased
  <2>8. CASE t # b /\ t # s
    <3>1. HandleRefs(psp', t) = HandleRefs(psp, t) /\ FcbRefs(psp', t) = FcbRefs(psp, t)
      BY <2>1, <2>2, <2>8, OtherRefs
    <3>2. QED
      BY <1>1, <1>5, <2>1, <2>5, <2>8, <3>1, CountedFewer
  <2>9. QED
    BY <2>6, <2>7, <2>8
<1>9. QED
  BY <1>6, <1>7, <1>8

LEMMA CountedSetJFTSize ==
  ASSUME FilesInRange, KernelInv, AllCounted, NEW n \in TableSizes, SetJFTSize(n)
  PROVE  AllCounted'
<1>1. /\ NoSft \notin Sft /\ cu_psp \in Psps /\ psp \in [Psps -> Process]
      /\ leaked \in BOOLEAN
      /\ \A s \in Sft : sft[s].count \in Nat
  BY RefTypes
<1>2. psp[cu_psp] \in Process /\ sft' = sft
  BY <1>1 DEF SetJFTSize
<1> SUFFICES ASSUME NEW t \in Sft PROVE Counted(psp', sft'[t], t, leaked')
  BY DEF AllCounted
<1>3. Counted(psp, sft[t], t, leaked) /\ sft'[t] = sft[t] /\ sft[t].count \in Nat
  BY <1>1, <1>2 DEF AllCounted
<1>4. PICK g \in [Handle -> Sft \cup {NoSft}] :
        g = [h \in Handle |-> IF h < psp[cu_psp].maxfiles THEN SftOf(h) ELSE NoSft]
  BY <1>1 DEF SftOf, Process
<1>5. PICK e : /\ psp' = [psp EXCEPT ![cu_psp] = e]
               /\ e.fcbs = psp[cu_psp].fcbs
               /\ \/ e.filetab = psp[cu_psp].filetab /\ leaked' = leaked
                  \/ /\ e.filetab = g
                     /\ leaked' = (leaked \/ g # psp[cu_psp].filetab)
  <2>1. CASE n <= psp[cu_psp].maxfiles
    <3>1. psp' = [psp EXCEPT ![cu_psp] = [psp[cu_psp] EXCEPT !.maxfiles = n]]
      BY <2>1 DEF SetJFTSize
    <3>2. /\ [psp[cu_psp] EXCEPT !.maxfiles = n].fcbs = psp[cu_psp].fcbs
          /\ [psp[cu_psp] EXCEPT !.maxfiles = n].filetab = psp[cu_psp].filetab
      BY <1>2 DEF Process
    <3>3. leaked' = leaked
      BY <2>1 DEF SetJFTSize
    <3>4. QED
      BY <3>1, <3>2, <3>3
  <2>2. CASE ~(n <= psp[cu_psp].maxfiles)
    <3>1. psp' = [psp EXCEPT ![cu_psp] =
                    [psp[cu_psp] EXCEPT !.maxfiles = n, !.filetab = g]]
      BY <1>4, <2>2 DEF SetJFTSize
    <3>2. /\ [psp[cu_psp] EXCEPT !.maxfiles = n, !.filetab = g].fcbs = psp[cu_psp].fcbs
          /\ [psp[cu_psp] EXCEPT !.maxfiles = n, !.filetab = g].filetab = g
      BY <1>2 DEF Process
    <3>3. leaked' = (leaked \/ g # psp[cu_psp].filetab)
      BY <1>4, <2>2 DEF SetJFTSize, LeakIf
    <3>4. QED
      BY <3>1, <3>2, <3>3
  <2>3. QED
    BY <2>1, <2>2
<1>6. \A q \in Psps : q # cu_psp => psp'[q] = psp[q]
  BY <1>1, <1>5
<1>7. psp'[cu_psp] = e
  BY <1>1, <1>5
<1>8. FcbRefs(psp', t) = FcbRefs(psp, t)
  BY <1>5, <1>6, <1>7 DEF FcbRefs
<1>9. \A h \in Handle : e.filetab[h] = t => psp[cu_psp].filetab[h] = t
  BY <1>1, <1>4, <1>5 DEF SftOf
<1>10. HandleRefs(psp', t) \subseteq HandleRefs(psp, t)
  <2> SUFFICES ASSUME NEW q \in Psps, NEW h \in Handle, psp'[q].filetab[h] = t
               PROVE  psp[q].filetab[h] = t
    BY DEF HandleRefs
  <2> QED
    BY <1>6, <1>7, <1>9
<1>11. leaked' \/ HandleRefs(psp', t) = HandleRefs(psp, t)
  <2>1. CASE e.filetab = psp[cu_psp].filetab
    <3>1. \A r \in Psps \X Handle : psp'[r[1]].filetab[r[2]] = psp[r[1]].filetab[r[2]]
      BY <1>6, <1>7, <2>1
    <3>2. QED
      BY <3>1 DEF HandleRefs
  <2>2. CASE e.filetab # psp[cu_psp].filetab
    BY <1>5, <2>2
  <2>3. QED
    BY <2>1, <2>2
<1>12. leaked => leaked'
  BY <1>1, <1>5
<1>13. QED
  BY <1>3, <1>8, <1>10, <1>11, <1>12, CountedFewer

\* An SFT that an FCB names is open by FCB, and by no other process.
LEMMA FcbRefOwn ==
  ASSUME FilesInRange, KernelInv, AllCounted, NEW s \in Sft, NEW p \in Psps,
         s \in psp[p].fcbs
  PROVE  sft[s].count = 1 /\ sft[s].fcb /\ sft[s].psp = p
<1>1. Counted(psp, sft[s], s, leaked) /\ sft[s].count \in Nat
  BY RefTypes DEF AllCounted
<1>2. p \in FcbRefs(psp, s)
  BY DEF FcbRefs
<1>3. ~(RefsIn(psp, s) <= 0)
  BY <1>2, NoRefs
<1>4. sft[s].count > 0
  BY <1>1, <1>3, RefsFinite DEF Counted
<1>5. QED
  BY <1>1, <1>2, <1>4 DEF Counted

\* The current process forgets an FCB.
DropFcb(s) == psp' = [psp EXCEPT ![cu_psp].fcbs = @ \ {s}]

\* The current process closes an FCB of its own.
LEMMA CountedOwnFcbClose ==
  ASSUME FilesInRange, KernelInv, AllCounted, NEW s \in Sft,
         sft[s].fcb, sft[s].psp = cu_psp, DosCloseSft(s), leaked' = leaked, DropFcb(s)
  PROVE  AllCounted'
<1>1. /\ cu_psp \in Psps /\ psp \in [Psps -> Process] /\ SftOK
      /\ \A t \in Sft : sft[t].count \in Nat
  BY RefTypes
<1>2. sft[s].count > 0 /\ sft' = [sft EXCEPT ![s] = Released(s)]
  BY DEF DosCloseSft
<1>3. PICK S : S = psp[cu_psp].fcbs \ {s} /\ psp' = [psp EXCEPT ![cu_psp].fcbs = S]
  BY DEF DropFcb
<1>4. \A u : /\ HandleRefs(psp', u) = HandleRefs(psp, u)
             /\ FcbRefs(psp', u) = IF u \in S THEN FcbRefs(psp, u) \cup {cu_psp}
                                   ELSE FcbRefs(psp, u) \ {cu_psp}
  BY <1>1, <1>3, SetFcbsRefs
<1> SUFFICES ASSUME NEW t \in Sft PROVE Counted(psp', sft'[t], t, leaked')
  BY DEF AllCounted
<1>5. Counted(psp, sft[t], t, leaked)
  BY DEF AllCounted
<1>6. CASE t = s
  <2>1. FcbRefs(psp', t) = FcbRefs(psp, t) \ {sft[t].psp}
    BY <1>3, <1>4, <1>6
  <2>2. sft[t].count = 1
    BY <1>2, <1>5, <1>6 DEF Counted
  <2>3. sft'[t].count = 0
    BY <1>1, <1>2, <1>6, <2>2, ReleasedFields DEF SftOK
  <2>4. HandleRefs(psp', t) = HandleRefs(psp, t)
    BY <1>4
  <2>5. QED
    BY <1>1, <1>5, <1>6, <2>1, <2>2, <2>3, <2>4, CountedFcbReleased
<1>7. CASE t # s
  <2>1. sft'[t] = sft[t]
    BY <1>1, <1>2, <1>7 DEF SftOK
  <2>2. cu_psp \in FcbRefs(psp, t) <=> t \in S
    BY <1>1, <1>3, <1>7 DEF FcbRefs
  <2>3. HandleRefs(psp', t) = HandleRefs(psp, t) /\ FcbRefs(psp', t) = FcbRefs(psp, t)
    BY <1>4, <2>2
  <2>4. QED
    BY <1>1, <1>5, <2>1, <2>3, CountedFewer
<1>8. QED
  BY <1>6, <1>7

\* An FCB is gone that was none, or whose close fails.
LEMMA CountedFcbDropped ==
  ASSUME FilesInRange, KernelInv, AllCounted, NEW s \in Sft, sft' = sft,
         leaked => leaked', leaked' \/ s \notin psp[cu_psp].fcbs, DropFcb(s)
  PROVE  AllCounted'
<1>1. /\ cu_psp \in Psps /\ psp \in [Psps -> Process]
      /\ \A t \in Sft : sft[t].count \in Nat
  BY RefTypes
<1>2. PICK S : S = psp[cu_psp].fcbs \ {s} /\ psp' = [psp EXCEPT ![cu_psp].fcbs = S]
  BY DEF DropFcb
<1>3. \A u : /\ HandleRefs(psp', u) = HandleRefs(psp, u)
             /\ FcbRefs(psp', u) = IF u \in S THEN FcbRefs(psp, u) \cup {cu_psp}
                                   ELSE FcbRefs(psp, u) \ {cu_psp}
  BY <1>1, <1>2, SetFcbsRefs
<1> SUFFICES ASSUME NEW t \in Sft PROVE Counted(psp', sft'[t], t, leaked')
  BY DEF AllCounted
<1>4. Counted(psp, sft[t], t, leaked) /\ sft'[t] = sft[t]
  BY DEF AllCounted
<1>5. t \in S => cu_psp \in FcbRefs(psp, t)
  BY <1>1, <1>2 DEF FcbRefs
<1>6. FcbRefs(psp', t) \subseteq FcbRefs(psp, t)
  BY <1>3, <1>5
<1>7. leaked' \/ FcbRefs(psp', t) = FcbRefs(psp, t)
  <2>1. s \notin psp[cu_psp].fcbs => (cu_psp \in FcbRefs(psp, t) <=> t \in S)
    BY <1>1, <1>2 DEF FcbRefs
  <2>2. QED
    BY <1>3, <2>1
<1>8. HandleRefs(psp', t) = HandleRefs(psp, t)
  BY <1>3
<1>9. QED
  BY <1>1, <1>4, <1>6, <1>7, <1>8, CountedFewer

LEMMA CountedFcbClose ==
  ASSUME FilesInRange, KernelInv, AllCounted, NEW s \in Sft, FcbClose(s)
  PROVE  AllCounted'
<1>1. leaked' = leaked /\ s \in psp[cu_psp].fcbs
  BY DEF FcbClose
<1>2. CASE DosCloseSft(s) /\ DropFcb(s)
  <2>1. sft[s].fcb /\ sft[s].psp = cu_psp
    BY <1>1, FcbRefOwn, RefTypes
  <2>2. QED
    BY <1>1, <1>2, <2>1, CountedOwnFcbClose
<1>3. CASE psp' = psp /\ sft' = sft
  BY <1>1, <1>3, CountedQuiet
<1>4. QED
  BY <1>2, <1>3 DEF FcbClose, DropFcb

LEMMA CountedFcbCloseAll ==
  ASSUME FilesInRange, KernelInv, AllCounted, FcbCloseAll
  PROVE  AllCounted'
<1>1. PICK s \in Sft : s = call.idx
  <2>1. call.idx \in Nat
    BY DEF KernelInv, KernelTypeOK
  <2>2. QED
    BY <2>1, KernelConstants DEF FcbCloseAll, InFcbs, FcbsEnd, Sft
<1>2. DropFcb(s)
  BY <1>1 DEF FcbCloseAll, DropFcb
<1>3. leaked \in BOOLEAN /\ cu_psp \in Psps
  BY RefTypes
<1>4. CASE OwnFcb(s) /\ DosCloseSft(s) /\ leaked' = leaked
  BY <1>2, <1>4, CountedOwnFcbClose DEF OwnFcb
<1>5. CASE leaked' = TRUE /\ sft' = sft
  BY <1>2, <1>5, CountedFcbDropped
<1>6. CASE ~OwnFcb(s) /\ sft' = sft /\ leaked' = leaked
  <2>1. s \notin psp[cu_psp].fcbs
    BY <1>3, <1>6, FcbRefOwn DEF OwnFcb
  <2>2. QED
    BY <1>2, <1>6, <2>1, CountedFcbDropped
<1>7. QED
  BY <1>1, <1>4, <1>5, <1>6 DEF FcbCloseAll, Leak

\* The handles of the current process that child_psp copies to a child and that
\* name SFT s.
ClonedFrom(s) == {h \in 0 .. PspFiles - 1 : Cloned(h) /\ SftOf(h) = s}

LEMMA ClonedFromRefs ==
  ASSUME FilesInRange, KernelInv, NEW s \in Sft
  PROVE  /\ IsFiniteSet(ClonedFrom(s)) /\ ClonedFrom(s) \subseteq Handle
         /\ Cardinality(ClonedFrom(s)) \in Nat
         /\ Cardinality(ClonedFrom(s)) = 0 <=> ClonedFrom(s) = {}
         /\ ClonedFrom(s) # {} => HandleRefs(psp, s) # {} /\ sft[s].count > 0
         /\ MoreOf(ClonedSfts[s], sft[s], Cardinality(ClonedFrom(s)))
<1>1. IsFiniteSet(0 .. PspFiles - 1)
  BY FS_Interval, KernelConstants
<1>2. ClonedFrom(s) \in SUBSET (0 .. PspFiles - 1)
  BY DEF ClonedFrom
<1>3. IsFiniteSet(ClonedFrom(s))
  BY <1>1, <1>2, FS_Subset
<1>4. ClonedFrom(s) \subseteq Handle
  BY KernelConstants DEF ClonedFrom, Handle
<1>5. ASSUME NEW h \in ClonedFrom(s)
      PROVE  HandleRefs(psp, s) # {} /\ sft[s].count > 0
  <2>1. h \in Handle /\ SftOf(h) = s /\ SftOf(h) # NoSft /\ sft[s].count > 0
    BY <1>4 DEF ClonedFrom, Cloned, OpenHandle
  <2>2. QED
    BY <2>1, OpenHandleRef
<1>6. MoreOf(ClonedSfts[s], sft[s], Cardinality(ClonedFrom(s)))
  <2>1. ClonedSfts[s] = [sft[s] EXCEPT !.count = @ + Cardinality(ClonedFrom(s))]
    BY DEF ClonedSfts, ClonedFrom
  <2>2. SftOK
    BY RefTypes
  <2>3. QED
    BY <2>1, <2>2, MoreFields
<1>7. QED
  BY <1>3, <1>4, <1>5, <1>6, FS_CardinalityType, FS_EmptySet

\* A child takes the references that its handles copy, and brings no others.
LEMMA ChildRefs ==
  ASSUME FilesInRange, KernelInv, NEW p \in Psps, psp[p] = NoProcess, ChildPsp(p),
         NEW s \in Sft
  PROVE  \E H : /\ IsFiniteSet(H) /\ Cardinality(H) = Cardinality(ClonedFrom(s))
                /\ H = {} <=> ClonedFrom(s) = {}
                /\ H \cap HandleRefs(psp, s) = {}
                /\ HandleRefs(psp', s) = HandleRefs(psp, s) \cup H
                /\ FcbRefs(psp', s) = FcbRefs(psp, s)
<1>1. /\ NoSft \notin Sft /\ psp \in [Psps -> Process]
      /\ \A h \in Handle : SftOf(h) \in Sft \cup {NoSft}
  BY RefTypes
<1>2. PICK e : /\ psp' = [psp EXCEPT ![p] = e]
               /\ e = [parent |-> cu_psp, maxfiles |-> PspFiles, fcbs |-> {},
                       filetab |-> [h \in Handle |->
                         IF h < PspFiles /\ Cloned(h) THEN SftOf(h) ELSE NoSft]]
  BY DEF ChildPsp
<1>3. /\ HandleRefs(psp', s) = {r \in HandleRefs(psp, s) : r[1] # p}
                                 \cup ({p} \X {h \in Handle : e.filetab[h] = s})
      /\ FcbRefs(psp', s) = (FcbRefs(psp, s) \ {p}) \cup {q \in {p} : s \in e.fcbs}
  <2>1. \A u : /\ HandleRefs(psp', u) =
                    {r \in HandleRefs(psp, u) : r[1] # p}
                      \cup ({p} \X {h \in Handle : e.filetab[h] = u})
               /\ FcbRefs(psp', u) =
                    (FcbRefs(psp, u) \ {p}) \cup {q \in {p} : u \in e.fcbs}
    <3>1. psp' = [psp EXCEPT ![p] = e]
      BY <1>2
    <3>2. QED
      BY <1>1, <3>1, ReplacedRefs
  <2>2. QED
    BY <2>1
<1>4. /\ \A h \in Handle : e.filetab[h] = IF h < PspFiles /\ Cloned(h) THEN SftOf(h)
                                           ELSE NoSft
      /\ e.fcbs = {}
  BY <1>2
<1>5. {h \in Handle : e.filetab[h] = s} = ClonedFrom(s)
  <2>1. \A h : h \in 0 .. PspFiles - 1 <=> h \in Handle /\ h < PspFiles
    BY KernelConstants DEF Handle
  <2>2. ASSUME NEW h
        PROVE  (h \in Handle /\ e.filetab[h] = s) <=> h \in ClonedFrom(s)
    BY <1>1, <1>4, <2>1 DEF ClonedFrom
  <2>3. QED
    BY <2>2
<1>6. /\ \A h \in Handle : psp[p].filetab[h] # s
      /\ s \notin psp[p].fcbs
  BY <1>1 DEF NoProcess
<1>7. \A r \in HandleRefs(psp, s) : r[1] # p
  BY <1>6 DEF HandleRefs
<1>8. p \notin FcbRefs(psp, s)
  BY <1>6 DEF FcbRefs
<1>9. PICK H : H = {p} \X ClonedFrom(s)
  OBVIOUS
<1>10. IsFiniteSet(H) /\ Cardinality(H) = Cardinality(ClonedFrom(s))
  <2>1. IsFiniteSet({p}) /\ Cardinality({p}) = 1
    BY FS_Singleton
  <2>2. IsFiniteSet(ClonedFrom(s)) /\ Cardinality(ClonedFrom(s)) \in Nat
    BY ClonedFromRefs
  <2>3. IsFiniteSet(H) /\ Cardinality(H) = Cardinality({p}) * Cardinality(ClonedFrom(s))
    BY <1>9, <2>1, <2>2, FS_Product
  <2>4. QED
    BY <2>1, <2>2, <2>3
<1>11. H = {} <=> ClonedFrom(s) = {}
  BY <1>10, ClonedFromRefs, FS_EmptySet
<1>12. H \cap HandleRefs(psp, s) = {}
  BY <1>7, <1>9
<1>13. HandleRefs(psp', s) = HandleRefs(psp, s) \cup H
  BY <1>3, <1>5, <1>7, <1>9
<1>14. FcbRefs(psp', s) = FcbRefs(psp, s)
  BY <1>3, <1>4, <1>8
<1>15. QED
  BY <1>10, <1>11, <1>12, <1>13, <1>14

\* The SFTs of a child are counted.
LEMMA CountedChild ==
  ASSUME FilesInRange, KernelInv, AllCounted, NEW p \in Psps, psp[p] = NoProcess,
         ChildPsp(p), NEW s \in Sft, leaked => leaked'
  PROVE  Counted(psp', ClonedSfts[s], s, leaked')
<1>1. sft[s].count \in Nat /\ Counted(psp, sft[s], s, leaked)
  BY RefTypes DEF AllCounted
<1>2. PICK H : /\ IsFiniteSet(H) /\ Cardinality(H) = Cardinality(ClonedFrom(s))
               /\ H = {} <=> ClonedFrom(s) = {}
               /\ H \cap HandleRefs(psp, s) = {}
               /\ HandleRefs(psp', s) = HandleRefs(psp, s) \cup H
               /\ FcbRefs(psp', s) = FcbRefs(psp, s)
  BY ChildRefs
<1>3. H # {} => HandleRefs(psp, s) # {}
  BY <1>2, ClonedFromRefs
<1>4. MoreOf(ClonedSfts[s], sft[s], Cardinality(H))
  BY <1>2, ClonedFromRefs
<1>5. QED
  BY <1>1, <1>2, <1>3, <1>4, CountedMore

LEMMA CountedExec ==
  ASSUME FilesInRange, KernelInv, AllCounted, NEW p \in Psps, psp[p] = NoProcess,
         ChildPsp(p), sft' = ClonedSfts, leaked' = leaked
  PROVE  AllCounted'
<1> SUFFICES ASSUME NEW s \in Sft PROVE Counted(psp', sft'[s], s, leaked')
  BY DEF AllCounted
<1>1. Counted(psp', ClonedSfts[s], s, leaked')
  BY CountedChild
<1>2. sft'[s] = ClonedSfts[s]
  OBVIOUS
<1>3. QED
  BY <1>1, <1>2

LEMMA CountedExecLeaks ==
  ASSUME FilesInRange, KernelInv, AllCounted, NEW p \in Psps, psp[p] = NoProcess,
         NEW nm, DosExecLeaks(p, nm)
  PROVE  AllCounted'
<1>1. /\ FreeSfts # {} /\ ChildPsp(p) /\ leaked' = TRUE
      /\ sft' = [ClonedSfts EXCEPT
                   ![Min(FreeSfts)] = OpenedSft(nm, ReadOnlyCompat, FALSE, OpenSlot)]
  BY DEF DosExecLeaks, Leak
<1>2. PICK b \in Sft : b = Min(FreeSfts) /\ sft[b].count = 0
  BY <1>1, ChosenSft
<1>3. /\ sft'[b] = OpenedSft(nm, ReadOnlyCompat, FALSE, OpenSlot)
      /\ \A s \in Sft : s # b => sft'[s] = ClonedSfts[s]
  BY <1>1, <1>2 DEF ClonedSfts
<1> SUFFICES ASSUME NEW s \in Sft PROVE Counted(psp', sft'[s], s, leaked')
  BY DEF AllCounted
<1>4. CASE s = b
  <2>1. Counted(psp, sft[s], s, leaked) /\ sft[s].count = 0
    BY <1>2, <1>4 DEF AllCounted
  <2>2. ClonedFrom(s) = {}
    BY <2>1, ClonedFromRefs
  <2>3. /\ HandleRefs(psp', s) = HandleRefs(psp, s) \cup {}
        /\ FcbRefs(psp', s) = FcbRefs(psp, s) \cup {}
    BY <1>1, <2>2, ChildRefs
  <2>4. sft'[s].count = 1
    BY <1>3, <1>4 DEF OpenedSft
  <2>5. Counted(psp', sft'[s], s, TRUE)
    BY <2>1, <2>3, <2>4, CountedOpened
  <2>6. QED
    BY <1>1, <2>5
<1>5. CASE s # b
  <2>1. Counted(psp', ClonedSfts[s], s, leaked')
    BY <1>1, CountedChild
  <2>2. QED
    BY <1>3, <1>5, <2>1
<1>6. QED
  BY <1>4, <1>5

LEMMA CountedComNoMemory ==
  ASSUME FilesInRange, KernelInv, AllCounted, NEW nm, ComNoMemory(nm)
  PROVE  AllCounted'
<1>1. /\ sft' = ClonedSfts /\ psp' = psp
      /\ leaked' = (leaked \/ ClonedSfts # sft)
  BY DEF ComNoMemory, LeakIf
<1>2. leaked \in BOOLEAN
  BY RefTypes
<1>3. CASE ClonedSfts = sft
  BY <1>1, <1>2, <1>3, CountedQuiet
<1>4. CASE ClonedSfts # sft
  <2> SUFFICES ASSUME NEW s \in Sft PROVE Counted(psp', sft'[s], s, leaked')
    BY DEF AllCounted
  <2>1. sft[s].count \in Nat /\ Counted(psp, sft[s], s, leaked)
    BY RefTypes DEF AllCounted
  <2>2. PICK n \in Nat : /\ n = Cardinality(ClonedFrom(s))
                         /\ n > 0 => HandleRefs(psp, s) # {}
    BY ClonedFromRefs
  <2>3. MoreOf(ClonedSfts[s], sft[s], n)
    BY <2>2, ClonedFromRefs
  <2>4. Counted(psp, ClonedSfts[s], s, TRUE)
    BY <2>1, <2>2, <2>3, CountedLost
  <2>5. leaked' = TRUE
    BY <1>1, <1>4
  <2>6. QED
    BY <1>1, <2>4, <2>5
<1>5. QED
  BY <1>3, <1>4

\* The end of a process takes references with it that nobody has closed, and
\* Unseen tells of them, if its handles have been closed.
LEMMA CountedReturnUser ==
  ASSUME FilesInRange, KernelInv, AllCounted, ReturnUser,
         \A h \in Handle : h < psp[cu_psp].maxfiles => SftOf(h) = NoSft,
         \A s \in Sft : s < call.idx => s \notin psp[cu_psp].fcbs
  PROVE  AllCounted'
<1>1. /\ NoSft \notin Sft /\ cu_psp \in Psps /\ psp \in [Psps -> Process]
      /\ leaked \in BOOLEAN
      /\ \A s \in Sft : sft[s].count \in Nat
  BY RefTypes
<1>2. /\ psp' = [psp EXCEPT ![cu_psp] = NoProcess] /\ sft' = sft
      /\ leaked' = (leaked \/ Unseen) /\ FcbsEnd
  BY DEF ReturnUser, LeakIf
<1>3. \A s : /\ HandleRefs(psp', s) =
                  {r \in HandleRefs(psp, s) : r[1] # cu_psp}
                    \cup ({cu_psp} \X {h \in Handle : NoProcess.filetab[h] = s})
             /\ FcbRefs(psp', s) =
                  (FcbRefs(psp, s) \ {cu_psp}) \cup {q \in {cu_psp} : s \in NoProcess.fcbs}
  BY <1>1, <1>2, ReplacedRefs
<1>4. \A h \in Handle : NoProcess.filetab[h] = NoSft /\ NoProcess.fcbs = {}
  BY DEF NoProcess
<1>5. NoProcess.fcbs = {}
  BY DEF NoProcess
<1> SUFFICES ASSUME NEW s \in Sft PROVE Counted(psp', sft'[s], s, leaked')
  BY DEF AllCounted
<1>6. Counted(psp, sft[s], s, leaked) /\ sft'[s] = sft[s]
  BY <1>2 DEF AllCounted
<1>7. HandleRefs(psp', s) = {r \in HandleRefs(psp, s) : r[1] # cu_psp}
  <2>1. {h \in Handle : NoProcess.filetab[h] = s} = {}
    BY <1>1, <1>4
  <2>2. {cu_psp} \X {h \in Handle : NoProcess.filetab[h] = s} = {}
    BY <2>1
  <2>3. QED
    BY <1>3, <2>2
<1>8. FcbRefs(psp', s) = FcbRefs(psp, s) \ {cu_psp}
  BY <1>3, <1>5
<1>9. ASSUME ~Unseen
      PROVE  HandleRefs(psp', s) = HandleRefs(psp, s) /\ FcbRefs(psp', s) = FcbRefs(psp, s)
  <2>1. \A h \in Handle : SftOf(h) = NoSft
    <3> TAKE h \in Handle
    <3>1. h \in Int /\ psp[cu_psp].maxfiles \in Int
      BY <1>1, KernelConstants DEF Handle, Process
    <3>2. h < psp[cu_psp].maxfiles \/ h >= psp[cu_psp].maxfiles
      BY <3>1
    <3>3. QED
      BY <1>9, <3>2 DEF Unseen
  <2>2. \A r \in HandleRefs(psp, s) : r[1] # cu_psp
    BY <1>1, <2>1 DEF HandleRefs, SftOf
  <2>3. cu_psp \notin FcbRefs(psp, s)
    <3> SUFFICES ASSUME s \in psp[cu_psp].fcbs PROVE FALSE
      BY DEF FcbRefs
    <3>1. sft[s].count = 1 /\ OwnFcb(s)
      BY <1>1, FcbRefOwn DEF OwnFcb
    <3>2. ~(s < call.idx)
      OBVIOUS
    <3>3. s \in Int /\ call.idx \in Int
      BY KernelConstants DEF Sft, KernelInv, KernelTypeOK
    <3>4. s # call.idx
      <4>1. s < NSft
        BY KernelConstants DEF Sft
      <4>2. QED
        BY <1>2, <3>1, <4>1 DEF FcbsEnd
    <3>5. s > call.idx
      BY <3>2, <3>3, <3>4
    <3>6. QED
      BY <1>9, <3>1, <3>5 DEF Unseen
  <2>4. QED
    BY <1>7, <1>8, <2>2, <2>3
<1>10. /\ HandleRefs(psp', s) \subseteq HandleRefs(psp, s)
       /\ FcbRefs(psp', s) \subseteq FcbRefs(psp, s)
  BY <1>7, <1>8
<1>11. leaked => leaked'
  BY <1>1, <1>2
<1>12. leaked' \/ ~Unseen
  BY <1>1, <1>2
<1>13. QED
  BY <1>1, <1>6, <1>9, <1>10, <1>11, <1>12, CountedFewer

-----------------------------------------------------------------------------
(* The invariant.                                                          *)

\* A process that is gone holds nothing.
Gone == \A p \in Psps : ~Alive(p) => psp[p] = NoProcess

\* DosSetFattr finds no SFT in use to close, and what an exit has been through
\* is closed, until an abort starts the exit again.
LoopsClear ==
  /\ call.at = "setattr" => \A s \in Sft : ~OpenOn(s, call.file)
  /\ call.at = "handles" => \A h \in Handle : h < call.idx => SftOf(h) = NoSft
  /\ call.at = "fcbs" =>
       /\ \A h \in Handle : h < psp[cu_psp].maxfiles => SftOf(h) = NoSft
       /\ \A s \in Sft : s < call.idx => s \notin psp[cu_psp].fcbs

RefsInv == Gone /\ (forced = 0 => AllCounted /\ LoopsClear)

\* Closes that DosSetFattr forces are never forgotten.
LEMMA ForcedGrows ==
  ASSUME KernelInv, Next
  PROVE  forced' = 0 => forced = 0
<1>1. forced \in Nat
  BY KernelConstants DEF KernelInv, KernelTypeOK
<1>2. forced' = forced \/ forced' = forced + 1
  <2>1. CASE Call
    BY <2>1 DEF Call, DosOpen, DosOpenLeaks, FcbOpen, DosOpenFails, kernel, Close,
       DosClose, DosCloseFault, DosDup, DosForceDup, DosRWSft, DosLockUnlock,
       SetJFTSize, FcbClose, DosDelete, DosSetFattr, ComNoMemory, DosRename,
       CreatePsp, DosExec, DosExecLeaks, KeepProgram, EndProgram
  <2>2. CASE Loop
    BY <2>2 DEF Loop, MergeFileChanges, SetFattrDone, ReturnCloses, DosClose,
       DosCloseFault, ReturnClosed, FcbCloseAll, FcbCloseAborts, ReturnUser
  <2>3. QED
    BY <2>1, <2>2 DEF Next
<1>3. QED
  BY <1>1, <1>2

\* Every call keeps the counts.
LEMMA CallCounted ==
  ASSUME FilesInRange, KernelInv, Gone, AllCounted, Call
  PROVE  AllCounted'
<1>1. \A nm \in Names : nm \in Target
  BY DEF Target
<1>2. /\ cu_psp \in Psps /\ psp \in [Psps -> Process] /\ leaked \in BOOLEAN
  BY RefTypes
<1>3. ASSUME NEW target \in Target, NEW req, DosOpen(target, req)
      PROVE  AllCounted'
  BY <1>3, CountedOpen
<1>4. ASSUME NEW target \in Target, NEW req, NEW fcb \in BOOLEAN,
             DosOpenLeaks(target, req, fcb)
      PROVE  AllCounted'
  BY <1>4, CountedOpenLeaks
<1>5. ASSUME NEW target \in Target, FcbOpen(target)
      PROVE  AllCounted'
  BY <1>5, CountedFcbOpen
<1>6. ASSUME NEW nm \in Names, NEW req, DosOpenFails(nm, req)
      PROVE  AllCounted'
  BY <1>6, CountedQuiet DEF DosOpenFails, kernel
<1>7. ASSUME NEW h \in Handle, Close(h)
      PROVE  AllCounted'
  BY <1>7, CountedClose, CountedCloseFault DEF Close
<1>8. ASSUME NEW old \in Handle, NEW new \in Handle, DosForceDup(old, new)
      PROVE  AllCounted'
  BY <1>8, CountedForceDup
<1>9. ASSUME NEW h \in Handle, DosDup(h)
      PROVE  AllCounted'
  BY <1>2, <1>8, <1>9, ChosenHandle DEF DosDup
<1>10. ASSUME NEW h \in Handle, NEW r \in Regions,
              DosRWSft(h, r) \/ \E unlock \in BOOLEAN : DosLockUnlock(h, r, unlock)
       PROVE  AllCounted'
  BY <1>10, CountedQuiet DEF DosRWSft, DosLockUnlock, kernel
<1>11. ASSUME NEW n \in TableSizes, SetJFTSize(n)
       PROVE  AllCounted'
  BY <1>11, CountedSetJFTSize
<1>12. ASSUME NEW s \in Sft, FcbClose(s)
       PROVE  AllCounted'
  BY <1>12, CountedFcbClose
<1>13. ASSUME NEW nm \in Names, NEW new \in Names,
              DosDelete(nm) \/ DosSetFattr(nm) \/ DosRename(nm, new)
       PROVE  AllCounted'
  BY <1>13, CountedQuiet DEF DosDelete, DosSetFattr, DosRename
<1>14. ASSUME NEW nm \in Names, ComNoMemory(nm)
       PROVE  AllCounted'
  BY <1>14, CountedComNoMemory
<1>15. ASSUME NEW p \in Psps,
              CreatePsp(p) \/ \E nm \in Names : DosExec(p, nm) \/ DosExecLeaks(p, nm)
       PROVE  AllCounted'
  <2>1. ~Alive(p)
    BY <1>15 DEF CreatePsp, DosExec, DosExecLeaks
  <2>2. psp[p] = NoProcess
    BY <2>1 DEF Gone
  <2>3. CASE CreatePsp(p) \/ \E nm \in Names : DosExec(p, nm)
    <3>1. ChildPsp(p) /\ sft' = ClonedSfts /\ leaked' = leaked
      BY <2>3 DEF CreatePsp, DosExec
    <3>2. QED
      BY <2>2, <3>1, CountedExec
  <2>4. ASSUME NEW nm \in Names, DosExecLeaks(p, nm)
        PROVE  AllCounted'
    BY <2>2, <2>4, CountedExecLeaks
  <2>5. QED
    BY <1>15, <2>3, <2>4
<1>16. CASE KeepProgram \/ EndProgram
  BY <1>16, CountedQuiet DEF KeepProgram, EndProgram
<1>17. QED
  BY <1>1, <1>3, <1>4, <1>5, <1>6, <1>7, <1>8, <1>9, <1>10, <1>11, <1>12, <1>13,
     <1>14, <1>15, <1>16 DEF Call

\* So does every round of a loop that closes files.
LEMMA LoopCounted ==
  ASSUME FilesInRange, KernelInv, AllCounted, LoopsClear, Loop
  PROVE  AllCounted'
<1>1. call.idx \in Nat
  BY DEF KernelInv, KernelTypeOK
<1>2. CASE MergeFileChanges
  <2>1. call.idx \in Sft /\ call.at = "setattr"
    BY <1>1, <1>2, KernelConstants DEF MergeFileChanges, Sft
  <2>2. ~OpenOn(call.idx, call.file)
    BY <2>1 DEF LoopsClear
  <2>3. psp' = psp /\ sft' = sft /\ leaked' = leaked
    BY <1>2, <2>2 DEF MergeFileChanges
  <2>4. QED
    BY <2>3, CountedQuiet
<1>3. CASE ReturnCloses
  <2>1. call.idx \in Handle
    <3>1. psp[cu_psp].maxfiles \in 0 .. MaxFiles
      BY RefTypes DEF Process
    <3>2. QED
      BY <1>1, <1>3, <3>1, KernelConstants DEF ReturnCloses, Handle
  <2>2. \/ DosClose(call.idx) \/ DosCloseFault(call.idx)
        \/ UNCHANGED <<psp, sft, leaked>>
    BY <1>3 DEF ReturnCloses
  <2>3. QED
    BY <2>1, <2>2, CountedClose, CountedCloseFault, CountedQuiet
<1>4. CASE FcbCloseAll
  BY <1>4, CountedFcbCloseAll
<1>5. CASE ReturnUser
  <2>1. call.at = "fcbs"
    BY <1>5 DEF ReturnUser
  <2>2. QED
    BY <1>5, <2>1, CountedReturnUser DEF LoopsClear
<1>6. CASE SetFattrDone \/ ReturnClosed \/ FcbCloseAborts
  BY <1>6, CountedQuiet DEF SetFattrDone, ReturnClosed, FcbCloseAborts
<1>7. QED
  BY <1>2, <1>3, <1>4, <1>5, <1>6 DEF Loop

\* A step changes the current process, or a child starts.
OwnChange ==
  \/ \A p \in Psps : p # cu_psp => psp'[p] = psp[p]
  \/ \E p \in Psps : ChildPsp(p)

LEMMA StepOwnChange ==
  ASSUME KernelInv, Next
  PROVE  OwnChange
<1>1. psp \in [Psps -> Process]
  BY DEF KernelInv, KernelTypeOK
<1>2. \A h, s : SetHandle(h, s) => OwnChange
  BY <1>1 DEF SetHandle, OwnChange
<1>3. psp' = psp => OwnChange
  BY DEF OwnChange
<1>4. CASE Call
  <2>1. ASSUME NEW h \in Handle, Close(h) PROVE OwnChange
    BY <1>2, <2>1 DEF Close, DosClose, DosCloseFault
  <2>2. ASSUME NEW old, NEW new, DosForceDup(old, new) PROVE OwnChange
    BY <1>2, <2>2 DEF DosForceDup
  <2>3. ASSUME NEW target, NEW req, DosOpen(target, req) PROVE OwnChange
    BY <1>2, <2>3 DEF DosOpen
  <2>4. ASSUME NEW n, SetJFTSize(n) PROVE OwnChange
    BY <1>1, <2>4 DEF SetJFTSize, OwnChange
  <2>5. ASSUME NEW target, FcbOpen(target) PROVE OwnChange
    <3>1. PICK s : psp' = [psp EXCEPT ![cu_psp].fcbs = @ \cup {s}]
      BY <2>5 DEF FcbOpen
    <3>2. QED
      BY <1>1, <3>1 DEF OwnChange
  <2>6. ASSUME NEW s, FcbClose(s) PROVE OwnChange
    BY <1>1, <2>6 DEF FcbClose, OwnChange
  <2>7. ASSUME NEW p \in Psps,
               CreatePsp(p) \/ \E nm \in Names : DosExec(p, nm) \/ DosExecLeaks(p, nm)
        PROVE  OwnChange
    BY <2>7 DEF CreatePsp, DosExec, DosExecLeaks, OwnChange
  <2>8. QED
    BY <1>3, <1>4, <2>1, <2>2, <2>3, <2>4, <2>5, <2>6, <2>7
    DEF Call, DosOpenLeaks, DosOpenFails, kernel, DosDup, DosRWSft, DosLockUnlock,
        DosDelete, DosSetFattr, ComNoMemory, DosRename, KeepProgram, EndProgram
<1>5. CASE Loop
  <2>1. CASE ReturnCloses
    BY <1>2, <1>3, <2>1 DEF ReturnCloses, DosClose, DosCloseFault
  <2>2. CASE FcbCloseAll
    BY <1>1, <2>2 DEF FcbCloseAll, OwnChange
  <2>3. CASE ReturnUser
    BY <1>1, <2>3 DEF ReturnUser, OwnChange
  <2>4. QED
    BY <1>3, <1>5, <2>1, <2>2, <2>3
    DEF Loop, MergeFileChanges, SetFattrDone, ReturnClosed, FcbCloseAborts
<1>6. QED
  BY <1>4, <1>5 DEF Next

LEMMA GoneStep ==
  ASSUME KernelInv, Gone, Next
  PROVE  Gone'
<1> SUFFICES ASSUME NEW p \in Psps, ~Alive(p)' PROVE psp'[p] = NoProcess
  BY DEF Gone
<1>1. ProcessStep /\ OwnChange
  <2>1. KernelTypeOK
    BY DEF KernelInv
  <2>2. QED
    BY <2>1, CallProcessStep, LoopProcessStep, StepOwnChange DEF Next
<1>2. cu_psp \in Psps /\ psp \in [Psps -> Process] /\ Alive(cu_psp)
  BY ChainLive DEF KernelInv, KernelTypeOK, ChainInv, ParentsLive
<1>3. \A q \in Psps : ChildPsp(q) => /\ psp' = [psp EXCEPT ![q] = psp'[q]]
                                     /\ psp'[q].parent \in Psps
  BY <1>2 DEF ChildPsp
<1>4. \A q \in Psps : ChildPsp(q) => p # q /\ psp'[p] = psp[p]
  BY <1>2, <1>3, SharingNames DEF Alive
<1>5. CASE psp'[p] = psp[p]
  BY <1>5 DEF Gone, Alive
<1>6. CASE psp'[p] # psp[p]
  <2>1. p = cu_psp
    BY <1>1, <1>4, <1>6 DEF OwnChange
  <2>2. psp' = [psp EXCEPT ![cu_psp] = NoProcess] \/ ParentsKept
    BY <1>1, <1>4, <1>6 DEF ProcessStep
  <2>3. ~ParentsKept
    BY <1>2, <2>1 DEF ParentsKept, Alive
  <2>4. QED
    BY <1>2, <2>1, <2>2, <2>3
<1>7. QED
  BY <1>5, <1>6

\* Where a call of a program leaves the kernel.
LEMMA CallLeaves ==
  ASSUME Call
  PROVE  call' = InProgram \/ call' = Exiting \/ \E nm \in Names : DosSetFattr(nm)
<1>1. Running /\ call' = call => call' = InProgram
  BY DEF Running
<1>2. QED
  BY <1>1 DEF Call, DosOpen, DosOpenLeaks, FcbOpen, DosOpenFails, kernel, Close,
     DosClose, DosCloseFault, DosDup, DosForceDup, DosRWSft, DosLockUnlock,
     SetJFTSize, FcbClose, DosDelete, ComNoMemory, DosRename,
     CreatePsp, DosExec, DosExecLeaks, KeepProgram, EndProgram, Fails, Aborts

\* A program, and an exit that starts, have been through nothing.
LEMMA ClearStart ==
  /\ call' = InProgram => LoopsClear'
  /\ call' = Exiting => LoopsClear'
<1>1. ASSUME call' = InProgram PROVE LoopsClear'
  <2>1. call'.at = "program"
    BY <1>1, CallValues
  <2>2. QED
    BY <2>1 DEF LoopsClear
<1>2. ASSUME call' = Exiting PROVE LoopsClear'
  <2>1. call'.at = "handles" /\ call'.idx = 0
    BY <1>2 DEF Exiting
  <2>2. \A h \in Handle : ~(h < 0)
    BY KernelConstants DEF Handle
  <2>3. QED
    BY <2>1, <2>2 DEF LoopsClear
<1>3. QED
  BY <1>1, <1>2

LEMMA CallClear ==
  ASSUME KernelInv, Call, forced = 0, forced' = 0
  PROVE  LoopsClear'
<1>1. CASE call' = InProgram \/ call' = Exiting
  BY <1>1, ClearStart
<1>2. ASSUME NEW nm \in Names, DosSetFattr(nm) PROVE LoopsClear'
  <2>1. /\ call'.at = "setattr" /\ call'.file = nm /\ sft' = sft
        /\ forced' = IF \E s \in Sft : OpenOn(s, nm) THEN forced + 1 ELSE forced
    BY <1>2 DEF DosSetFattr
  <2>2. \A s \in Sft : ~OpenOn(s, nm)
    BY <2>1
  <2>3. \A s \in Sft : ~OpenOn(s, call.file)'
    BY <2>1, <2>2 DEF OpenOn
  <2>4. QED
    BY <2>1, <2>3 DEF LoopsClear
<1>3. QED
  BY <1>1, <1>2, CallLeaves

\* One round more of an exit over the handles.
LEMMA ReturnClosesClear ==
  ASSUME FilesInRange, KernelInv, AllCounted, LoopsClear, ReturnCloses
  PROVE  LoopsClear'
<1>1. /\ cu_psp \in Psps /\ psp \in [Psps -> Process]
      /\ \A s \in Sft : sft[s].count \in Nat
  BY RefTypes
<1>2. call.at = "handles" /\ call.idx \in Nat /\ call \in CallType
  BY DEF ReturnCloses, KernelInv, KernelTypeOK, CallType
<1>3. PICK i \in Handle : i = call.idx /\ i < psp[cu_psp].maxfiles
  <2>1. psp[cu_psp].maxfiles \in 0 .. MaxFiles
    BY <1>1 DEF Process
  <2>2. QED
    BY <1>2, <2>1, KernelConstants DEF ReturnCloses, Handle
<1>4. CASE Aborts
  BY <1>4, ClearStart DEF Aborts
<1>5. CASE NextIdx
  <2>1. call'.at = "handles" /\ call'.idx = i + 1
    BY <1>2, <1>3, <1>5 DEF NextIdx, CallType
  <2>2. cu_psp' = cu_psp
    BY DEF ReturnCloses, DosClose, DosCloseFault
  <2>3. \A h \in Handle : h < i => SftOf(h) = NoSft
    BY <1>2, <1>3 DEF LoopsClear
  <2>4. \A h \in Handle : psp'[cu_psp].filetab[h] = IF h = i THEN NoSft ELSE SftOf(h)
    <3>1. CASE SetHandle(i, NoSft)
      <4>1. psp'[cu_psp] = [psp[cu_psp] EXCEPT !.filetab =
                              [psp[cu_psp].filetab EXCEPT ![i] = NoSft]]
        BY <1>1, <3>1 DEF SetHandle
      <4>2. psp[cu_psp] \in Process
        BY <1>1
      <4>3. psp'[cu_psp].filetab = [psp[cu_psp].filetab EXCEPT ![i] = NoSft]
        BY <4>1, <4>2 DEF Process
      <4>4. psp[cu_psp].filetab \in [Handle -> Sft \cup {NoSft}]
        BY <4>2 DEF Process
      <4>5. QED
        BY <4>3, <4>4 DEF SftOf
    <3>2. CASE ~OpenHandle(i) /\ psp' = psp
      <4>1. SftOf(i) = NoSft
        <5>1. SUFFICES ASSUME SftOf(i) # NoSft PROVE FALSE
          OBVIOUS
        <5>2. PICK s \in Sft : s = SftOf(i) /\ <<cu_psp, i>> \in HandleRefs(psp, s)
          BY <5>1, OpenHandleRef
        <5>3. ~(sft[s].count > 0)
          BY <1>3, <3>2, <5>1, <5>2 DEF OpenHandle
        <5>4. RefsIn(psp, s) <= sft[s].count
          BY DEF AllCounted, Counted
        <5>5. RefsIn(psp, s) <= 0
          BY <1>1, <5>3, <5>4, RefsFinite
        <5>6. QED
          BY <5>2, <5>5, NoRefs
      <4>2. QED
        BY <3>2, <4>1 DEF SftOf
    <3>3. QED
      BY <1>3, <3>1, <3>2 DEF ReturnCloses, DosClose, DosCloseFault
  <2>5. \A h \in Handle : h < i + 1 => SftOf(h)' = NoSft
    <3>1. \A h \in Handle : h < i + 1 => h < i \/ h = i
      BY KernelConstants DEF Handle
    <3>2. QED
      BY <2>2, <2>3, <2>4, <3>1 DEF SftOf
  <2>6. QED
    BY <2>1, <2>5 DEF LoopsClear
<1>6. QED
  BY <1>4, <1>5 DEF ReturnCloses

\* And one over the FCBs.
LEMMA FcbCloseAllClear ==
  ASSUME KernelInv, LoopsClear, FcbCloseAll
  PROVE  LoopsClear'
<1>1. cu_psp \in Psps /\ psp \in [Psps -> Process]
  BY DEF KernelInv, KernelTypeOK
<1>2. /\ call.at = "fcbs" /\ call.idx \in Nat /\ call \in CallType /\ NextIdx
      /\ cu_psp' = cu_psp
  BY DEF FcbCloseAll, InFcbs, KernelInv, KernelTypeOK, CallType
<1>3. call'.at = "fcbs" /\ call'.idx = call.idx + 1
  BY <1>2 DEF NextIdx, CallType
<1>4. /\ \A h \in Handle : h < psp[cu_psp].maxfiles => SftOf(h) = NoSft
      /\ \A s \in Sft : s < call.idx => s \notin psp[cu_psp].fcbs
  BY <1>2 DEF LoopsClear
<1>5. psp'[cu_psp] = [psp[cu_psp] EXCEPT !.fcbs = @ \ {call.idx}]
  BY <1>1 DEF FcbCloseAll
<1>6. psp[cu_psp] \in Process
  BY <1>1
<1>7. /\ psp'[cu_psp].filetab = psp[cu_psp].filetab
      /\ psp'[cu_psp].maxfiles = psp[cu_psp].maxfiles
      /\ psp'[cu_psp].fcbs = psp[cu_psp].fcbs \ {call.idx}
  BY <1>5, <1>6 DEF Process
<1>8. \A h \in Handle : h < psp'[cu_psp].maxfiles => SftOf(h)' = NoSft
  BY <1>2, <1>4, <1>7 DEF SftOf
<1>9. \A s \in Sft : s < call.idx + 1 => s \notin psp'[cu_psp].fcbs
  <2>1. \A s \in Sft : s < call.idx + 1 => s < call.idx \/ s = call.idx
    BY <1>2, KernelConstants DEF Sft
  <2>2. QED
    BY <1>4, <1>7, <2>1
<1>10. QED
  BY <1>2, <1>3, <1>8, <1>9 DEF LoopsClear

LEMMA LoopClear ==
  ASSUME FilesInRange, KernelInv, AllCounted, LoopsClear, Loop
  PROVE  LoopsClear'
<1>1. call \in CallType
  BY DEF KernelInv, KernelTypeOK, CallType
<1>2. CASE MergeFileChanges
  <2>1. call.idx \in Sft /\ call.at = "setattr"
    BY <1>1, <1>2, KernelConstants DEF MergeFileChanges, Sft, CallType
  <2>2. \A s \in Sft : ~OpenOn(s, call.file)
    BY <2>1 DEF LoopsClear
  <2>3. NextIdx /\ sft' = sft
    BY <1>2, <2>1, <2>2 DEF MergeFileChanges
  <2>4. call'.at = "setattr" /\ call'.file = call.file
    BY <1>1, <2>1, <2>3 DEF NextIdx, CallType
  <2>5. \A s \in Sft : ~OpenOn(s, call.file)'
    BY <2>2, <2>3, <2>4 DEF OpenOn
  <2>6. QED
    BY <2>4, <2>5 DEF LoopsClear
<1>3. CASE ReturnCloses
  BY <1>3, ReturnClosesClear
<1>4. CASE ReturnClosed
  <2>1. /\ call.at = "handles" /\ call.idx = psp[cu_psp].maxfiles
        /\ psp' = psp /\ cu_psp' = cu_psp
        /\ call'.at = "fcbs" /\ call'.idx = 0
    BY <1>4 DEF ReturnClosed, Exiting
  <2>2. \A h \in Handle : h < psp[cu_psp].maxfiles => SftOf(h) = NoSft
    BY <2>1 DEF LoopsClear
  <2>3. \A h \in Handle : h < psp'[cu_psp'].maxfiles => SftOf(h)' = NoSft
    BY <2>1, <2>2 DEF SftOf
  <2>4. \A s \in Sft : ~(s < 0)
    BY KernelConstants DEF Sft
  <2>5. QED
    BY <2>1, <2>3, <2>4 DEF LoopsClear
<1>5. CASE FcbCloseAll
  BY <1>5, FcbCloseAllClear
<1>6. CASE SetFattrDone \/ ReturnUser \/ FcbCloseAborts
  BY <1>6, ClearStart DEF SetFattrDone, ReturnUser, FcbCloseAborts, Aborts
<1>7. QED
  BY <1>2, <1>3, <1>4, <1>5, <1>6 DEF Loop

LEMMA RefsStep ==
  ASSUME FilesInRange, KernelInv, RefsInv, [Next]_vars
  PROVE  RefsInv'
<1>1. CASE Next
  <2>1. Gone'
    BY <1>1, GoneStep DEF RefsInv
  <2>2. ASSUME forced' = 0 PROVE AllCounted' /\ LoopsClear'
    <3>1. forced = 0 /\ Gone /\ AllCounted /\ LoopsClear
      BY <1>1, <2>2, ForcedGrows DEF RefsInv
    <3>2. QED
      BY <1>1, <2>2, <3>1, CallCounted, LoopCounted, CallClear, LoopClear DEF Next
  <2>3. QED
    BY <2>1, <2>2 DEF RefsInv
<1>2. CASE UNCHANGED vars
  BY <1>2 DEF vars, kernel, RefsInv, Gone, Alive, AllCounted, LoopsClear, OpenOn, SftOf
<1>3. QED
  BY <1>1, <1>2

\* At the start the console has one handle.
LEMMA RefsInit == FilesInRange /\ Init => RefsInv
<1> SUFFICES ASSUME FilesInRange, Init PROVE RefsInv
  OBVIOUS
<1>1. Shell \in Psps /\ 0 \in Handle /\ 0 \in Sft /\ NoSft \notin Sft
  BY KernelConstants DEF Handle, Sft, FilesInRange, NoSft
<1>2. PICK e : e = [NoProcess EXCEPT !.parent = Shell, !.maxfiles = PspFiles,
                                     !.filetab[0] = 0]
  OBVIOUS
<1>3. /\ e.parent = Shell /\ e.fcbs = {}
      /\ \A h \in Handle : e.filetab[h] = IF h = 0 THEN 0 ELSE NoSft
  BY <1>1, <1>2 DEF NoProcess
<1>4. psp = [p \in Psps |-> IF p = Shell THEN e ELSE NoProcess]
  BY <1>2 DEF Init
<1>5. Gone
  BY <1>1, <1>3, <1>4, SharingNames DEF Gone, Alive
<1>6. /\ \A h \in Handle : NoProcess.filetab[h] = NoSft
      /\ NoProcess.fcbs = {}
  BY DEF NoProcess
<1>7. ASSUME NEW s \in Sft
      PROVE  Counted(psp, sft[s], s, leaked)
  <2>1. FcbRefs(psp, s) = {}
    BY <1>3, <1>4, <1>6 DEF FcbRefs
  <2>2. ASSUME NEW r \in Psps \X Handle
        PROVE  psp[r[1]].filetab[r[2]] = s <=> r = <<Shell, 0>> /\ s = 0
    <3>1. PICK p \in Psps, h \in Handle : r = <<p, h>>
      OBVIOUS
    <3>2. psp[p].filetab[h] = IF p = Shell /\ h = 0 THEN 0 ELSE NoSft
      BY <1>3, <1>4, <1>6
    <3>3. QED
      BY <1>1, <3>1, <3>2
  <2>3. HandleRefs(psp, s) = IF s = 0 THEN {<<Shell, 0>>} ELSE {}
    BY <1>1, <2>2 DEF HandleRefs
  <2>4. Cardinality({<<Shell, 0>>}) = 1 /\ Cardinality({}) = 0
    BY FS_Singleton, FS_EmptySet
  <2>5. RefsIn(psp, s) = IF s = 0 THEN 1 ELSE 0
    BY <2>1, <2>3, <2>4 DEF RefsIn
  <2>6. CASE s = 0
    <3>1. sft[s].count = 1 /\ sft[s].fcb = FALSE /\ sft[s].file = Device
      BY <1>1, <2>6 DEF Init, FreeSft
    <3>2. QED
      BY <2>1, <2>5, <2>6, <3>1 DEF Counted
  <2>7. CASE s # 0
    <3>1. sft[s].count = 0
      BY <2>7 DEF Init, FreeSft
    <3>2. QED
      BY <2>1, <2>3, <2>5, <2>7, <3>1 DEF Counted
  <2>8. QED
    BY <2>6, <2>7
<1>8. LoopsClear
  BY CallValues DEF Init, LoopsClear
<1>9. QED
  BY <1>5, <1>7, <1>8 DEF RefsInv, AllCounted

\* The references of all handle tables and FCBs are counted, up to the first
\* forced close.
THEOREM RefsInvariant == ASSUME FilesInRange PROVE Spec => []RefsInv
<1>1. Init => RefsInv
  BY RefsInit
<1>2. KernelInv /\ RefsInv /\ [Next]_vars => RefsInv'
  BY RefsStep
<1>3. QED
  BY KernelInvariant, <1>1, <1>2, PTL DEF Spec

\* What Refs counts.
LEMMA RefsAreIn == \A s : Refs(s) = RefsIn(psp, s)
BY DEF Refs, RefsIn, HandleRefs, FcbRefs

\* Without forced closes no handle and no FCB names an SFT that may be given to
\* another file, whatever errors and aborts happen.
THEOREM NoneReleasedTwice == ASSUME FilesInRange PROVE Spec => []NeverReleasedTwice
<1>1. RefsInv => NeverReleasedTwice
  BY RefsAreIn DEF RefsInv, AllCounted, Counted, NeverReleasedTwice
<1>2. QED
  BY RefsInvariant, <1>1, PTL

\* Without lost references either, the counts are exact.
THEOREM CountsAreExact == ASSUME FilesInRange PROVE Spec => []CountsExact
<1>1. RefsInv => CountsExact
  BY RefsAreIn DEF RefsInv, AllCounted, Counted, CountsExact
<1>2. QED
  BY RefsInvariant, <1>1, PTL

\* And SHARE knows of each file that is open.
THEOREM OpenFilesHaveEntries == ASSUME FilesInRange PROVE Spec => []FilesHaveEntries
<1>1. RefsInv => FilesHaveEntries
  BY DEF RefsInv, AllCounted, Counted, FilesHaveEntries
<1>2. QED
  BY RefsInvariant, <1>1, PTL
=============================================================================
