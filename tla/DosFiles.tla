------------------------------ MODULE DosFiles ------------------------------
(***************************************************************************)
(* Open files in the kernel (src/kernel/kernel): the handle table of each  *)
(* process, the system file table (SFT) with its reference counts, FCBs,   *)
(* and what the calls that open, duplicate, inherit and close files do to  *)
(* them and to the tables of SHARE, which is resident.                     *)
(*                                                                         *)
(* DOS runs one INT 21 call at a time, so a call is one step, except for   *)
(* the loops that close many files: the critical error handler (INT 24)    *)
(* can ABORT in the middle of them, and an abort starts the exit of the    *)
(* process again, from inside the exit if need be.                         *)
(***************************************************************************)
EXTENDS ShareTables

CONSTANTS
  Shell,         \* process 0, its own parent
  Device,        \* a character device
  NSft,          \* entries of the system file table
  PspFiles,      \* 20, the handles of a new process
  MaxFiles,      \* bound: the largest handle table
  TableSizes,    \* the sizes of handle tables that programs ask for
  OpenRequests,  \* <<open mode, share mode, inherit>> that programs ask for
  Regions,       \* pairs <<offset, length>> that programs lock and access
  MaxCount,      \* bound: references to one SFT
  MaxForced,     \* bound: calls of DosSetFattr that close files
  MaxDrift       \* bound: how far file_table_free may exceed the table size

ASSUME KernelConstants ==
  /\ Shell \in Psps /\ IsFiniteSet(Psps)
  /\ Device \notin Names \cup {NoName}
  /\ NSft \in Nat \ {0} /\ PspFiles \in Nat \ {0}
  /\ MaxFiles \in Nat /\ MaxFiles >= PspFiles /\ TableSizes \subseteq 0 .. MaxFiles
  /\ OpenRequests \subseteq Nat \X Nat \X BOOLEAN
  /\ MaxCount \in Nat \ {0} /\ MaxForced \in Nat /\ MaxDrift \in Nat
  /\ Regions \subseteq Offset \X Offset

VARIABLES
  cu_psp,  \* the current process
  psp,     \* process -> parent, handle table and FCBs
  sft,     \* the system file table
  files,   \* the names in the directory
  call,    \* where the kernel is: in a program, or in a loop that closes files
  leaked,  \* history: a reference to an SFT has been lost
  forced   \* history: how often DosSetFattr has gone for SFTs that are in use

kernel == <<cu_psp, psp, sft, files, call, leaked, forced>>
vars   == <<tables, kernel>>

Sft    == 0 .. NSft - 1
NoSft  == 255  \* 0xff in ps_filetab
Handle == 0 .. MaxFiles - 1
Target == Names \cup {Device}

Process ==
  [parent : Psps \cup {NoPsp}, maxfiles : 0 .. MaxFiles,
   filetab : [Handle -> Sft \cup {NoSft}], fcbs : SUBSET Sft]

SftEntry ==
  [count : 0 .. MaxCount, file : Target \cup {NoName}, psp : Psps \cup {NoPsp},
   inherit : BOOLEAN, fcb : BOOLEAN, shroff : FileNo \cup {NoFileNo}]

NoProcess ==
  [parent |-> NoPsp, maxfiles |-> 0, filetab |-> [h \in Handle |-> NoSft],
   fcbs |-> {}]

FreeSft ==
  [count |-> 0, file |-> NoName, psp |-> NoPsp, inherit |-> FALSE,
   fcb |-> FALSE, shroff |-> NoFileNo]

InProgram == [at |-> "program", idx |-> 0, file |-> NoName]
Exiting   == [at |-> "handles", idx |-> 0, file |-> NoName]

Alive(p) == psp[p].parent # NoPsp

\* The shell runs alone, with the console on handle 0.
Init ==
  /\ TablesInit
  /\ cu_psp = Shell
  /\ psp = [p \in Psps |->
       IF p = Shell
       THEN [NoProcess EXCEPT !.parent = Shell, !.maxfiles = PspFiles,
                              !.filetab[0] = 0]
       ELSE NoProcess]
  /\ sft = [s \in Sft |->
       IF s = 0
       THEN [FreeSft EXCEPT !.count = 1, !.file = Device, !.psp = Shell,
                            !.inherit = TRUE]
       ELSE FreeSft]
  /\ files \in SUBSET Names
  /\ call = InProgram
  /\ leaked = FALSE
  /\ forced = 0

-----------------------------------------------------------------------------
(* Handles and system file table entries.                                  *)

SftOf(h)    == psp[cu_psp].filetab[h]
FreeHandles == {h \in 0 .. psp[cu_psp].maxfiles - 1 : SftOf(h) = NoSft}
FreeSfts    == {s \in Sft : sft[s].count = 0}

\* get_sft returns an entry: the handle is in range and its SFT is in use.
OpenHandle(h) ==
  /\ h < psp[cu_psp].maxfiles
  /\ SftOf(h) # NoSft
  /\ sft[SftOf(h)].count > 0

SetHandle(h, s) == psp' = [psp EXCEPT ![cu_psp].filetab[h] = s]

\* The modes of FcbOpen and DosSetFattr, and of DosExec.
ReadWriteCompat == <<OPEN_READ_WRITE, SHARE_COMPAT, TRUE>>
ReadOnlyCompat  == <<OPEN_READ_ONLY, SHARE_COMPAT, TRUE>>

\* Mutant: a process that is its own parent aborts too.
AbortsAlways == call' = Exiting

\* What CriticalError makes of an error: the call fails, or the process
\* aborts.  A process that is its own parent cannot abort.
Fails  == call' = InProgram
Aborts == psp[cu_psp].parent # cu_psp /\ call' = Exiting

\* A reference is lost: the count of an SFT stays too high.
Leak == leaked' = TRUE

LeakIf(lost) == leaked' = (leaked \/ lost)

\* The entry that DosOpenSft fills in.
OpenedSft(target, req, fcb, shroff) ==
  [count |-> 1, file |-> target, psp |-> cu_psp, inherit |-> req[3],
   fcb |-> fcb, shroff |-> shroff]

\* DeviceOpenSft.
OpenDevice(s, req, fcb) ==
  /\ sft' = [sft EXCEPT ![s] = OpenedSft(Device, req, fcb, NoFileNo)]
  /\ UNCHANGED <<tables, files>>

OpenFile(s, nm, req, fcb) ==
  /\ OpenCheck(nm, cu_psp, req[1], req[2])
  /\ sft' = [sft EXCEPT ![s] = OpenedSft(nm, req, fcb, OpenSlot)]

\* DosOpenSft: a device, or a file that is in the directory or is created.
DosOpenSft(s, target, req, fcb) ==
  /\ FreeSfts # {} /\ s = Min(FreeSfts)
  /\ IF target = Device
     THEN OpenDevice(s, req, fcb)
     ELSE /\ OpenFile(s, target, req, fcb)
          /\ files' = files \cup {target}

\* Mutant: each reference tells SHARE.
AnyClose(s) == sft[s].count > 0 /\ sft[s].shroff >= 0

\* DosCloseSft of the last reference tells SHARE.
LastClose(s) == sft[s].count = 1 /\ sft[s].shroff >= 0

\* Mutant: sft_shroff is not reset when the last reference goes.
ReleasedKeepingShroff(s) ==
  IF sft[s].count = 1 THEN [FreeSft EXCEPT !.shroff = sft[s].shroff]
                      ELSE [sft[s] EXCEPT !.count = @ - 1]

\* Mutant: sft_shroff is reset when any reference goes.
ReleasedResettingShroff(s) ==
  IF sft[s].count = 1 THEN FreeSft
  ELSE [sft[s] EXCEPT !.count = @ - 1, !.shroff = NoFileNo]

\* The fields of an SFT that is not in use are never read: they are cleared.
Released(s) ==
  IF sft[s].count = 1 THEN FreeSft ELSE [sft[s] EXCEPT !.count = @ - 1]

\* Mutant: SHARE is never told.
ReleaseNoEntry(s) == UNCHANGED tables

ReleaseEntry(s) ==
  IF LastClose(s) THEN CloseFile(sft[s].shroff) ELSE UNCHANGED tables

DosCloseSft(s) ==
  /\ sft[s].count > 0
  /\ sft' = [sft EXCEPT ![s] = Released(s)]
  /\ ReleaseEntry(s)

\* DosClose: the handle is cleared first.
DosClose(h) ==
  /\ OpenHandle(h)
  /\ SetHandle(h, NoSft)
  /\ DosCloseSft(SftOf(h))
  /\ UNCHANGED <<cu_psp, files, leaked, forced>>

\* DosClose when dos_close or the driver's C_CLOSE fails: it returns before
\* the count is decremented.
DosCloseFault(h) ==
  /\ OpenHandle(h)
  /\ SetHandle(h, NoSft)
  /\ Leak
  /\ UNCHANGED <<tables, cu_psp, sft, files, forced>>

-----------------------------------------------------------------------------
(* Calls on handles.                                                       *)

Running == call = InProgram

DosOpen(target, req) ==
  /\ Running /\ FreeHandles # {}
  /\ \E s \in Sft :
       /\ DosOpenSft(s, target, req, FALSE)
       /\ SetHandle(Min(FreeHandles), s)
  /\ UNCHANGED <<cu_psp, call, leaked, forced>>

\* dos_open fails (no such file, access denied, disk error): the entry goes
\* back to SHARE and the SFT is free again.  DosSetFattr for a file that
\* dos_setfattr refuses has the same effect.
DosOpenFails(nm, req) ==
  /\ Running /\ FreeSfts # {}
  /\ OpenAndClose(nm, cu_psp, req[1], req[2])
  /\ UNCHANGED kernel

\* dos_open (or the read of the program in DosExec) ends in an abort, or the
\* driver refuses C_OPEN: the SFT stays in use.  A file to be created may
\* not be in the directory yet.
DosOpenLeaks(target, req, fcb) ==
  /\ Running
  /\ FreeSfts # {}
  /\ IF target = Device
     THEN /\ OpenDevice(Min(FreeSfts), req, fcb)
          /\ Fails \/ Aborts
     ELSE /\ OpenFile(Min(FreeSfts), target, req, fcb)
          /\ files' \in {files, files \cup {target}}
          /\ Aborts
  /\ Leak
  /\ UNCHANGED <<cu_psp, psp, forced>>

Close(h) ==
  /\ Running
  /\ \/ DosClose(h) /\ UNCHANGED call
     \/ DosCloseFault(h) /\ (Fails \/ Aborts)

\* DosForceDup: the new handle is closed first if it is open.  Duplicating a
\* handle onto itself copies the 0xff that DosClose has just stored.
DosForceDup(old, new) ==
  /\ Running
  /\ OpenHandle(old)
  /\ SftOf(new) # NoSft => OpenHandle(new)
  /\ sft[SftOf(old)].count < MaxCount
  /\ SetHandle(new, IF new = old THEN NoSft ELSE SftOf(old))
  /\ CASE SftOf(new) = NoSft ->
            /\ sft' = [sft EXCEPT ![SftOf(old)].count = @ + 1]
            /\ UNCHANGED tables
       [] SftOf(new) = SftOf(old) ->
            /\ sft' = [sft EXCEPT ![SftOf(old)].shroff =
                         IF LastClose(SftOf(old)) THEN NoFileNo ELSE @]
            /\ ReleaseEntry(SftOf(old))
       [] OTHER ->
            /\ sft' = [sft EXCEPT ![SftOf(new)] = Released(SftOf(new)),
                                  ![SftOf(old)].count = @ + 1]
            /\ ReleaseEntry(SftOf(new))
  /\ LeakIf(new = old)
  /\ UNCHANGED <<cu_psp, files, call, forced>>

DosDup(h) ==
  FreeHandles # {} /\ DosForceDup(h, Min(FreeHandles))

\* SetJFTSize: shrinking only lowers the limit, growing copies the handles
\* below it.
SetJFTSize(n) ==
  /\ Running
  /\ LET limit == psp[cu_psp].maxfiles
         grown == [h \in Handle |-> IF h < limit THEN SftOf(h) ELSE NoSft]
     IN  IF n <= limit
         THEN /\ psp' = [psp EXCEPT ![cu_psp].maxfiles = n]
              /\ UNCHANGED leaked
         ELSE /\ psp' = [psp EXCEPT ![cu_psp].maxfiles = n,
                                    ![cu_psp].filetab = grown]
              /\ LeakIf(grown # psp[cu_psp].filetab)
  /\ UNCHANGED <<tables, cu_psp, sft, files, call, forced>>

DosLockUnlock(h, r, unlock) ==
  /\ Running
  /\ OpenHandle(h)
  /\ sft[SftOf(h)].shroff >= 0
  /\ IF unlock THEN UnlockRegion(cu_psp, sft[SftOf(h)].shroff, r[1], r[2])
               ELSE LockRegion(cu_psp, sft[SftOf(h)].shroff, r[1], r[2])
  /\ UNCHANGED kernel

\* DosRWSft of a region that another process has locked.
DosRWSft(h, r) ==
  /\ Running
  /\ OpenHandle(h)
  /\ sft[SftOf(h)].shroff >= 0
  /\ file_table_free < FileTableSize + MaxDrift
  /\ AccessViolation(cu_psp, sft[SftOf(h)].shroff, r[1], r[2])
  /\ UNCHANGED kernel

-----------------------------------------------------------------------------
(* FCBs and the directory.                                                 *)

FcbOpen(target) ==
  /\ Running
  /\ \E s \in Sft :
       /\ DosOpenSft(s, target, ReadWriteCompat, TRUE)
       /\ psp' = [psp EXCEPT ![cu_psp].fcbs = @ \cup {s}]
  /\ UNCHANGED <<cu_psp, call, leaked, forced>>

\* A failing FcbClose leaves fcb_sftno in the FCB: the program may try again.
FcbClose(s) ==
  /\ Running
  /\ s \in psp[cu_psp].fcbs /\ sft[s].count > 0
  /\ \/ /\ DosCloseSft(s)
        /\ psp' = [psp EXCEPT ![cu_psp].fcbs = @ \ {s}]
        /\ UNCHANGED call
     \/ /\ Aborts
        /\ UNCHANGED <<tables, sft, psp>>
  /\ UNCHANGED <<cu_psp, files, leaked, forced>>

DosDelete(nm) ==
  /\ Running
  /\ nm \in files /\ ~IsFileOpen(nm)
  /\ files' = files \ {nm}
  /\ UNCHANGED <<tables, cu_psp, psp, sft, call, leaked, forced>>

\* Mutant: SHARE is not asked.
DosRenameAnyway(nm, new) ==
  /\ Running
  /\ nm \in files /\ new \notin files
  /\ files' = (files \ {nm}) \cup {new}
  /\ UNCHANGED <<tables, cu_psp, psp, sft, call, leaked, forced>>

\* Only the old name is looked up in SHARE: the new one must not exist.
DosRename(nm, new) ==
  /\ Running
  /\ nm \in files /\ new \notin files /\ ~IsFileOpen(nm)
  /\ files' = (files \ {nm}) \cup {new}
  /\ UNCHANGED <<tables, cu_psp, psp, sft, call, leaked, forced>>

OpenOn(s, nm) == sft[s].count > 0 /\ sft[s].file = nm

\* DosSetFattr: an open for reading and writing in compatibility mode asks
\* SHARE, then merge_file_changes goes through the SFTs of the file.
DosSetFattr(nm) ==
  /\ Running /\ forced < MaxForced
  /\ nm \in files
  /\ OpenAndClose(nm, cu_psp, ReadWriteCompat[1], ReadWriteCompat[2])
  /\ call' = [at |-> "setattr", idx |-> 0, file |-> nm]
  /\ forced' = IF \E s \in Sft : OpenOn(s, nm) THEN forced + 1 ELSE forced
  /\ UNCHANGED <<cu_psp, psp, sft, files, leaked>>

NextIdx == call' = [call EXCEPT !.idx = @ + 1]

\* merge_file_changes(fnp, -1): one SFT of the loop.
MergeFileChanges ==
  /\ call.at = "setattr" /\ call.idx < NSft
  /\ IF OpenOn(call.idx, call.file)
     THEN \/ /\ DosCloseSft(call.idx)
             /\ NextIdx
          \/ /\ Fails \/ Aborts
             /\ UNCHANGED <<tables, sft>>
     ELSE NextIdx /\ UNCHANGED <<tables, sft>>
  /\ UNCHANGED <<cu_psp, psp, files, leaked, forced>>

SetFattrDone ==
  /\ call.at = "setattr" /\ call.idx = NSft
  /\ call' = InProgram
  /\ UNCHANGED <<tables, cu_psp, psp, sft, files, leaked, forced>>

-----------------------------------------------------------------------------
(* Processes.                                                              *)

\* CloneHandle succeeds.
Cloned(h) == OpenHandle(h) /\ sft[SftOf(h)].inherit

\* Mutant: CloneHandle does not count the handle.
ClonedUncounted == sft

ClonedSfts ==
  [s \in Sft |-> [sft[s] EXCEPT !.count =
     @ + Cardinality({h \in 0 .. PspFiles - 1 : Cloned(h) /\ SftOf(h) = s})]]

\* child_psp, and then the child runs.
ChildPsp(p) ==
  /\ psp' = [psp EXCEPT ![p] =
       [parent |-> cu_psp, maxfiles |-> PspFiles, fcbs |-> {},
        filetab |-> [h \in Handle |->
          IF h < PspFiles /\ Cloned(h) THEN SftOf(h) ELSE NoSft]]]
  /\ cu_psp' = p

CanClone == \A s \in Sft : ClonedSfts[s].count <= MaxCount

\* INT 21/55.
CreatePsp(p) ==
  /\ Running /\ ~Alive(p) /\ CanClone
  /\ ChildPsp(p)
  /\ sft' = ClonedSfts
  /\ UNCHANGED <<tables, files, call, leaked, forced>>

\* DosExec: the file of the program is open while it is loaded.
DosExec(p, nm) ==
  /\ Running /\ ~Alive(p) /\ CanClone
  /\ FreeSfts # {} /\ nm \in files
  /\ OpenAndClose(nm, cu_psp, ReadOnlyCompat[1], ReadOnlyCompat[2])
  /\ ChildPsp(p)
  /\ sft' = ClonedSfts
  /\ UNCHANGED <<files, call, leaked, forced>>

\* DosExec when the DosCloseSft of the program fails: nobody looks.
DosExecLeaks(p, nm) ==
  /\ Running /\ ~Alive(p) /\ CanClone
  /\ FreeSfts # {} /\ nm \in files
  /\ OpenCheck(nm, cu_psp, ReadOnlyCompat[1], ReadOnlyCompat[2])
  /\ ChildPsp(p)
  /\ sft' = [ClonedSfts EXCEPT
               ![Min(FreeSfts)] = OpenedSft(nm, ReadOnlyCompat, FALSE, OpenSlot)]
  /\ Leak
  /\ UNCHANGED <<files, call, forced>>

\* DosComLoader of a program that got less than 0x11 paragraphs: the handles
\* are cloned already.
ComNoMemory(nm) ==
  /\ Running /\ CanClone
  /\ FreeSfts # {} /\ nm \in files
  /\ OpenAndClose(nm, cu_psp, ReadOnlyCompat[1], ReadOnlyCompat[2])
  /\ sft' = ClonedSfts
  /\ LeakIf(ClonedSfts # sft)
  /\ UNCHANGED <<cu_psp, psp, files, call, forced>>

\* INT 21/31: the handles and the memory stay.
KeepProgram ==
  /\ Running
  /\ psp[cu_psp].parent # cu_psp
  /\ cu_psp' = psp[cu_psp].parent
  /\ UNCHANGED <<tables, psp, sft, files, call, leaked, forced>>

\* INT 21/4C, and the abort of a call that changes nothing here.  The shell
\* returns to itself and keeps its files.
EndProgram ==
  /\ Running
  /\ \/ Aborts
     \/ psp[cu_psp].parent = cu_psp /\ UNCHANGED call
  /\ UNCHANGED <<tables, cu_psp, psp, sft, files, leaked, forced>>

\* return_user: one round of the loop over the handles.
ReturnCloses ==
  /\ call.at = "handles" /\ call.idx < psp[cu_psp].maxfiles
  /\ \/ DosClose(call.idx) /\ NextIdx
     \/ DosCloseFault(call.idx) /\ (NextIdx \/ Aborts)
     \/ /\ ~OpenHandle(call.idx) /\ NextIdx
        /\ UNCHANGED <<tables, cu_psp, psp, sft, files, leaked, forced>>

ReturnClosed ==
  /\ call.at = "handles" /\ call.idx = psp[cu_psp].maxfiles
  /\ call' = [Exiting EXCEPT !.at = "fcbs"]
  /\ UNCHANGED <<tables, cu_psp, psp, sft, files, leaked, forced>>

\* FcbCloseAll stops at the first SFT that is not in use.
FcbsEnd   == call.idx < NSft => sft[call.idx].count = 0
OwnFcb(s) == sft[s].fcb /\ sft[s].psp = cu_psp
InFcbs    == call.at = "fcbs" /\ ~FcbsEnd

\* Mutant: after an own FCB the search starts again from the first SFT.
FcbCloseAllAgain ==
  /\ InFcbs
  /\ call' = [call EXCEPT !.idx = IF OwnFcb(call.idx) THEN 0 ELSE @ + 1]
  /\ \/ /\ OwnFcb(call.idx)
        /\ DosCloseSft(call.idx)
        /\ UNCHANGED leaked
     \/ /\ OwnFcb(call.idx)
        /\ Leak
        /\ UNCHANGED <<tables, sft>>
     \/ /\ ~OwnFcb(call.idx)
        /\ UNCHANGED <<tables, sft, leaked>>
  /\ psp' = [psp EXCEPT ![cu_psp].fcbs = @ \ {call.idx}]
  /\ UNCHANGED <<cu_psp, files, forced>>

\* One round of FcbCloseAll.  The FCB itself goes with the process.
FcbCloseAll ==
  /\ InFcbs
  /\ NextIdx
  /\ \/ /\ OwnFcb(call.idx)
        /\ DosCloseSft(call.idx)
        /\ UNCHANGED leaked
     \/ /\ OwnFcb(call.idx)
        /\ Leak
        /\ UNCHANGED <<tables, sft>>
     \/ /\ ~OwnFcb(call.idx)
        /\ UNCHANGED <<tables, sft, leaked>>
  /\ psp' = [psp EXCEPT ![cu_psp].fcbs = @ \ {call.idx}]
  /\ UNCHANGED <<cu_psp, files, forced>>

FcbCloseAborts ==
  /\ InFcbs /\ OwnFcb(call.idx)
  /\ Aborts
  /\ UNCHANGED <<tables, cu_psp, psp, sft, files, leaked, forced>>

\* The handles and FCBs that return_user has no way to see.
Unseen ==
  \/ \E h \in Handle : h >= psp[cu_psp].maxfiles /\ SftOf(h) # NoSft
  \/ \E s \in Sft : s > call.idx /\ sft[s].count > 0 /\ OwnFcb(s)

\* FreeProcessMem, and the parent runs.
ReturnUser ==
  /\ call.at = "fcbs" /\ FcbsEnd
  /\ psp' = [psp EXCEPT ![cu_psp] = NoProcess]
  /\ cu_psp' = psp[cu_psp].parent
  /\ call' = InProgram
  /\ LeakIf(Unseen)
  /\ UNCHANGED <<tables, sft, files, forced>>

-----------------------------------------------------------------------------

\* All the modes that open_check is called with.
SystemRequests == OpenRequests \cup {ReadOnlyCompat, ReadWriteCompat}

\* Calls of the current process.
Call ==
  \/ \E target \in Target, req \in OpenRequests :
       DosOpen(target, req) \/ DosOpenLeaks(target, req, FALSE)
  \/ \E target \in Target :
       FcbOpen(target) \/ DosOpenLeaks(target, ReadWriteCompat, TRUE)
  \/ \E nm \in Names : DosOpenLeaks(nm, ReadOnlyCompat, FALSE)
  \/ \E nm \in Names, req \in SystemRequests : DosOpenFails(nm, req)
  \/ \E h \in Handle :
       \/ Close(h)
       \/ DosDup(h)
       \/ \E new \in Handle : DosForceDup(h, new)
       \/ \E r \in Regions :
            DosRWSft(h, r) \/ \E unlock \in BOOLEAN : DosLockUnlock(h, r, unlock)
  \/ \E n \in TableSizes : SetJFTSize(n)
  \/ \E s \in Sft : FcbClose(s)
  \/ \E nm \in Names : DosDelete(nm) \/ DosSetFattr(nm) \/ ComNoMemory(nm)
  \/ \E nm, new \in Names : DosRename(nm, new)
  \/ \E p \in Psps :
       CreatePsp(p) \/ \E nm \in Names : DosExec(p, nm) \/ DosExecLeaks(p, nm)
  \/ KeepProgram
  \/ EndProgram

\* The loops that close files.
Loop ==
  \/ MergeFileChanges
  \/ SetFattrDone
  \/ ReturnCloses
  \/ ReturnClosed
  \/ FcbCloseAll
  \/ FcbCloseAborts
  \/ ReturnUser

Next == Call \/ Loop

Spec == Init /\ [][Next]_vars

\* The kernel goes on with a loop that it is in.
FairSpec == Spec /\ WF_vars(Loop)

-----------------------------------------------------------------------------
(* Properties.                                                             *)

\* The kernel's tables have their types, and an SFT that is not in use holds
\* no entry of SHARE: DosOpenSft overwrites its sft_shroff without looking.
KernelTypeOK ==
  /\ cu_psp \in Psps
  /\ psp \in [Psps -> Process]
  /\ sft \in [Sft -> SftEntry]
  /\ files \subseteq Names
  /\ call \in [at : {"program", "setattr", "handles", "fcbs"},
               idx : Nat, file : Names \cup {NoName}]
  /\ leaked \in BOOLEAN /\ forced \in 0 .. MaxForced
  /\ \A s \in Sft : sft[s].count = 0 => sft[s].shroff = NoFileNo

\* So have the tables of SHARE.
TypeOK == TablesTypeOK /\ KernelTypeOK

\* A process that runs is never gone, and neither is the one it returns to,
\* whatever programs have ended, stayed resident or been aborted meanwhile.
ParentsLive == Alive(cu_psp) /\ Alive(psp[cu_psp].parent)

\* The handles and FCBs of all processes that name an SFT.
Refs(s) ==
  Cardinality({r \in Psps \X Handle : psp[r[1]].filetab[r[2]] = s})
    + Cardinality({p \in Psps : s \in psp[p].fcbs})

\* Unless DosSetFattr has closed files under a program, no handle and no FCB
\* ever names an SFT that may be given to another file: whatever calls, errors
\* and aborts happen, an abort during an exit included, no reference is
\* released twice.
NeverReleasedTwice ==
  forced = 0 => \A s \in Sft : Refs(s) <= sft[s].count

\* If moreover none of the error paths that are known to lose a reference has
\* been taken, the counts are exact: exits close everything that the process
\* had open, and nothing that another process has open.
CountsExact ==
  ~leaked /\ forced = 0 => \A s \in Sft : Refs(s) = sft[s].count

\* Until an access check raises a lock violation, the SFT of a file and the
\* entry of SHARE that it names are about the same file and the same process,
\* however the entries and the SFTs have been used before.
EntriesPaired ==
  ~lockViolated =>
    \A s \in Sft :
      sft[s].shroff >= 0 =>
        /\ file_table[sft[s].shroff].filename = sft[s].file
        /\ file_table[sft[s].shroff].psp = sft[s].psp

\* Without leaks and forced closes SHARE knows of each file that is open.
FilesHaveEntries ==
  ~leaked /\ forced = 0 =>
    \A s \in Sft :
      sft[s].count > 0 /\ sft[s].file # Device => sft[s].shroff >= 0

\* Until a lock violation, and without an abort in an open, a file that is open
\* with an entry in SHARE stays in the directory: it is neither deleted nor
\* renamed under the program.
OpenFilesExist ==
  ~lockViolated /\ ~leaked =>
    \A s \in Sft : sft[s].shroff >= 0 => sft[s].file \in files

ShareClient ==
  INSTANCE Share WITH Sfts <- Sft, OpenRequests <- SystemRequests,
                      shroff <- [s \in Sft |-> sft[s].shroff]

\* The kernel is a client of SHARE as Share.tla assumes: it passes only entry
\* numbers that an SFT holds, never overwrites one, and hands each back once.
IsShareClient == ShareClient!Spec

\* An exit ends and the parent runs, unless the close of an FCB is aborted
\* again and again: each abort starts over, but the handles it has cleared
\* stay cleared.
ExitCompletes ==
  (call.at = "handles" ~> call = InProgram) \/ []<><<FcbCloseAborts>>_vars

\* "close all files the current process opened by FCBs": when a process is
\* gone, so are the SFTs that it opened by FCBs.
FcbsClosed ==
  [][\A p \in Psps :
       Alive(p) /\ ~Alive(p)' /\ ~leaked =>
         \A s \in Sft : ~(sft'[s].count > 0 /\ sft'[s].fcb /\ sft'[s].psp = p)]_vars
=============================================================================
