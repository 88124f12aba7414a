------------------------------- MODULE MemMgr -------------------------------
(***************************************************************************)
(* Programs and their memory: the INT 21 calls of src/kernel/kernel/       *)
(* inthndlr.c that allocate, free and resize blocks, the loaders of        *)
(* task.c that give a program its blocks, and its end, which takes them.   *)
(*                                                                         *)
(* A program names only blocks that it owns; the kernel would not check    *)
(* it.  The PSP of a process is the segment behind the header of its       *)
(* program's block, as in the code.                                        *)
(***************************************************************************)
EXTENDS MemBlocks

CONSTANTS
  DOS_PSP,     \* the PSP of process 0, which starts the shell
  base_seg,    \* the first block of low memory behind the kernel's
  umb_base,    \* the block of upper memory behind the link header
  PspSize,     \* paragraphs of a PSP
  KeepMin,     \* paragraphs that a resident program keeps at least
  Strategies,  \* the strategies that programs set
  Sizes,       \* the sizes that programs ask for
  EnvSizes,    \* the sizes of environments
  NeedSizes,   \* what programs need at least, PSP included
  MaxSizes,    \* what programs ask for at most, PSP included
  All,         \* more than there is: all memory for a program
  Garbage      \* what the uninitialised variable env of a loader can hold

ASSUME MemLayout ==
  /\ base_seg \in Nat /\ umb_base \in Nat
  /\ first_mcb < base_seg /\ base_seg < uppermem_root
  /\ uppermem_root < umb_base /\ umb_base < MemTop

\* INT 21/5801 refuses both bits at once.
ASSUME MemStrategies ==
  Strategies \subseteq {mode \in Modes : ~(mode.U /\ mode.UO)}

ASSUME MemSizes ==
  /\ PspSize \in Nat \ {0} /\ KeepMin \in Nat /\ All \in Nat /\ All >= MemTop
  /\ Sizes \subseteq Nat /\ EnvSizes \subseteq Nat
  /\ NeedSizes \subseteq Nat /\ MaxSizes \subseteq Nat
  /\ Garbage \subseteq Nat
  /\ \A max \in MaxSizes : max > PspSize

\* Neither owner that is not a program has a PSP in the chain.
ASSUME KernelPsps ==
  DOS_PSP \in Nat \ {0, SYSTEM_PSP} /\ SYSTEM_PSP \notin first_mcb .. MemTop
  /\ DOS_PSP \notin first_mcb .. MemTop

VARIABLES
  mcb,              \* the chain of blocks, upper memory included
  uppermem_link,    \* 1 if upper memory is linked
  mem_access_mode,  \* the allocation strategy
  cu_psp,           \* the running process
  loader,           \* the local variables of a loader at work
  parent,           \* ps_parent of every process that has not ended
  kept              \* history: PSPs whose blocks stay without a process

vars == <<mcb, uppermem_link, mem_access_mode, cu_psp, loader, parent, kept>>

Psps == first_mcb + 1 .. MemTop \cup {DOS_PSP}

Loader ==
  [pc : {"ChildEnv", "NoEnv", "Largest", "Alloc", "Failed", "Found", "Image"},
   high : BOOLEAN, env : Nat, asize : Nat, mem : Segment \cup {NoSeg},
   UMBstate : {0, 1}, orig_mem_access : Modes]
NoLoader == [pc |-> "none"]

Init ==
  /\ mcb = [p \in {first_mcb, base_seg, uppermem_root, umb_base} |->
              CASE p = first_mcb ->
                     [m_type |-> MCB_NORMAL, m_psp |-> SYSTEM_PSP,
                      m_size |-> base_seg - first_mcb - 1]
                [] p = base_seg ->
                     [m_type |-> MCB_LAST, m_psp |-> FREE_PSP,
                      m_size |-> uppermem_root - base_seg - 1]
                [] p = uppermem_root ->
                     [m_type |-> MCB_NORMAL, m_psp |-> SYSTEM_PSP,
                      m_size |-> umb_base - uppermem_root - 1]
                [] p = umb_base ->
                     [m_type |-> MCB_LAST, m_psp |-> FREE_PSP,
                      m_size |-> MemTop - umb_base - 1]]
  /\ uppermem_link = 0
  /\ mem_access_mode = [fit |-> FIRST_FIT, U |-> FALSE, UO |-> FALSE]
  /\ cu_psp = DOS_PSP
  /\ loader = NoLoader
  /\ parent = [p \in {DOS_PSP} |-> DOS_PSP]
  /\ kept = {}

Idle == loader = NoLoader

\* Process 0 only starts the shell.
Program == Idle /\ cu_psp # DOS_PSP

Own(m) == {p \in DOMAIN m : m[p].m_psp = cu_psp}

-----------------------------------------------------------------------------
(* INT 21/48, 49, 4A and 58.  The larger handle table of INT 21/67 is a    *)
(* block like any other.                                                   *)

\* INT 21/48.  A failing call also asks for the largest block.
Allocate(r) ==
  mcb' = IF r.seg = NoSeg
         THEN DosMemLargest(r.mcb, mem_access_mode, uppermem_link).mcb
         ELSE r.mcb

AllocateMemory ==
  /\ Program
  /\ \E size \in Sizes :
       Allocate(DosMemAlloc(mcb, size, mem_access_mode, uppermem_link, cu_psp))
  /\ UNCHANGED <<uppermem_link, mem_access_mode, cu_psp, loader, parent, kept>>

\* INT 21/49 of any block but the one that holds the PSP.
FreeMemory ==
  /\ Program
  /\ \E p \in Own(mcb) \ {cu_psp - 1} : mcb' = DosMemFree(mcb, p)
  /\ UNCHANGED <<uppermem_link, mem_access_mode, cu_psp, loader, parent, kept>>

\* INT 21/4A.  A program that resizes its own block keeps its PSP.
SetMemoryBlockSize ==
  /\ Program
  /\ \E p \in Own(mcb), size \in Sizes :
       /\ p = cu_psp - 1 => size >= PspSize
       /\ mcb' = DosMemChange(mcb, p, size, cu_psp)
  /\ UNCHANGED <<uppermem_link, mem_access_mode, cu_psp, loader, parent, kept>>

\* INT 21/5801
SetStrategy ==
  /\ Program
  /\ mem_access_mode' \in Strategies
  /\ UNCHANGED <<mcb, uppermem_link, cu_psp, loader, parent, kept>>

\* INT 21/5803
SetUmbLink ==
  /\ Program
  /\ \E n \in 0 .. 2 :
       LET r == DosUmbLink(mcb, uppermem_link, n)
       IN mcb' = r.mcb /\ uppermem_link' = r.link
  /\ UNCHANGED <<mem_access_mode, cu_psp, loader, parent, kept>>

-----------------------------------------------------------------------------
(* INT 21/4B: DosComLoader and DosExeLoader, one action per call that they *)
(* make; nothing else runs in between.                                     *)

\* A call with bit 0x80 loads the program high: it links upper memory and
\* searches it first until the program has its memory.  Nobody sets env.
LoaderStarts ==
  /\ Idle
  /\ \E high \in BOOLEAN, env \in Garbage :
       LET r == DosUmbLink(mcb, uppermem_link, 1)
       IN /\ loader' = [pc |-> "ChildEnv", high |-> high, env |-> env,
                        asize |-> 0, mem |-> NoSeg,
                        UMBstate |-> uppermem_link,
                        orig_mem_access |-> mem_access_mode]
          /\ IF high
             THEN /\ mcb' = r.mcb /\ uppermem_link' = r.link
                  /\ mem_access_mode' = [mem_access_mode EXCEPT !.U = TRUE]
             ELSE UNCHANGED <<mcb, uppermem_link, mem_access_mode>>
  /\ UNCHANGED <<cu_psp, parent, kept>>

\* The block for the environment; it belongs to the parent so far.  The name
\* of the program may have no full form, with the block already allocated.
ChildEnv ==
  /\ loader.pc = "ChildEnv"
  /\ \E size \in EnvSizes, truename \in {"Largest", "Failed"} :
       LET r == DosMemAlloc(mcb, size, mem_access_mode, uppermem_link, cu_psp)
       IN /\ mcb' = r.mcb
          /\ loader' = IF r.seg = NoSeg
                       THEN [loader EXCEPT !.pc = "NoEnv"]
                       ELSE [loader EXCEPT !.pc = truename, !.env = r.seg]
  /\ UNCHANGED <<uppermem_link, mem_access_mode, cu_psp, parent, kept>>

\* The environment of the parent is too large: env stays as it is.
ChildEnvTooLarge ==
  /\ loader.pc = "ChildEnv"
  /\ loader' = [loader EXCEPT !.pc = "NoEnv"]
  /\ UNCHANGED <<mcb, uppermem_link, mem_access_mode, cu_psp, parent, kept>>

\* What is left of the mode when the search for the program's memory begins
\* in upper memory, and when it goes on everywhere.
UOmode  == [mem_access_mode EXCEPT !.U = FALSE, !.UO = TRUE]
lowmode == [mem_access_mode EXCEPT !.U = FALSE, !.UO = FALSE]

SeesLargest(r, need) ==
  /\ mcb' = r.mcb
  /\ loader' = [loader EXCEPT
                  !.pc = IF r.size < need THEN "Failed" ELSE "Alloc",
                  !.asize = r.size]

\* Upper memory has not enough for the program.
SeesHigh(high, need) ==
  IF high.size < need
  THEN SeesLargest(DosMemLargest(high.mcb, lowmode, uppermem_link), need)
  ELSE SeesLargest(high, need)

\* The largest block there is for the program.  A mode with both bits comes
\* out with one.
ExecMemLargest ==
  /\ loader.pc = "Largest"
  /\ \E need \in NeedSizes :
       IF mem_access_mode.U
       THEN /\ SeesHigh(DosMemLargest(mcb, UOmode, uppermem_link), need)
            /\ mem_access_mode' = [mem_access_mode EXCEPT !.UO = FALSE]
       ELSE /\ SeesLargest(DosMemLargest(mcb, mem_access_mode, uppermem_link),
                           need)
            /\ UNCHANGED mem_access_mode
  /\ UNCHANGED <<uppermem_link, cu_psp, parent, kept>>

\* The program gets the block of r, unless it is smaller than it should be.
GetsMemory(r, size) ==
  IF r.seg # NoSeg /\ r.mcb[r.seg].m_size >= size
  THEN /\ mcb' = r.mcb
       /\ loader' = [loader EXCEPT !.pc = "Found", !.mem = r.seg,
                                   !.asize = r.mcb[r.seg].m_size]
  ELSE /\ mcb' = DosMemFree(r.mcb, r.seg)
       /\ loader' = [loader EXCEPT !.pc = "Failed"]

GetsOrLargest(r, size) ==
  IF r.seg = NoSeg THEN GetsMemory(DosMemAllocLargest(r.mcb, cu_psp), size)
                   ELSE GetsMemory(r, size)

\* All that memory for a COM file, at most what its header says for an EXE
\* file.  If DosMemAlloc finds less than DosMemLargest, the loader tries the
\* largest block.
ExecMemAlloc ==
  /\ loader.pc = "Alloc"
  /\ \E max \in MaxSizes \cup {All} :
       LET size == IF max < loader.asize THEN max ELSE loader.asize
       IN GetsOrLargest(DosMemAlloc(mcb, size, mem_access_mode, uppermem_link,
                                    cu_psp), size)
  /\ UNCHANGED <<uppermem_link, mem_access_mode, cu_psp, parent, kept>>

\* Without memory for the program the loader frees the environment.  In any
\* case it restores the link and the mode if it has changed them.
LoaderRestores ==
  /\ loader.pc \in {"NoEnv", "Failed", "Found"}
  /\ LET m == IF loader.pc = "Found" THEN mcb
                                     ELSE DosMemFree(mcb, loader.env)
         r == DosUmbLink(m, uppermem_link, loader.UMBstate)
     IN IF loader.high
        THEN /\ mcb' = r.mcb /\ uppermem_link' = r.link
             /\ mem_access_mode' = loader.orig_mem_access
        ELSE mcb' = m /\ UNCHANGED <<uppermem_link, mem_access_mode>>
  /\ loader' = IF loader.pc = "Found" THEN [loader EXCEPT !.pc = "Image"]
                                      ELSE NoLoader
  /\ UNCHANGED <<cu_psp, parent, kept>>

\* DosExeLoader cannot read the image or its relocations.
ExecBadImage ==
  /\ loader.pc = "Image"
  /\ mcb' = DosMemFree(DosMemFree(mcb, loader.mem), loader.env)
  /\ loader' = NoLoader
  /\ UNCHANGED <<uppermem_link, mem_access_mode, cu_psp, parent, kept>>

\* Mutant: the environment stays with the parent.
patchPSPOnly(m, mem, env) == [m EXCEPT ![mem].m_psp = mem + 1]

\* The two blocks go to the new process, whose PSP is in the program's block.
patchPSP(m, mem, env) ==
  [m EXCEPT ![mem].m_psp = mem + 1, ![env].m_psp = mem + 1]

\* DosComLoader, which takes the largest block, finds it too small for a
\* stack when the two blocks have already changed hands.
ExecComTooSmall ==
  /\ loader.pc = "Image"
  /\ loader.asize < PspSize + 1
  /\ mcb' = patchPSP(mcb, loader.mem, loader.env)
  /\ kept' = kept \cup {loader.mem + 1}
  /\ loader' = NoLoader
  /\ UNCHANGED <<uppermem_link, mem_access_mode, cu_psp, parent>>

\* The new process runs.  Only an EXE file can have a block without room for
\* more than its PSP.
ExecRuns ==
  /\ loader.pc = "Image"
  /\ mcb' = patchPSP(mcb, loader.mem, loader.env)
  /\ cu_psp' = loader.mem + 1
  /\ parent' = [p \in DOMAIN parent \cup {loader.mem + 1} |->
                  IF p = loader.mem + 1 THEN cu_psp ELSE parent[p]]
  /\ loader' = NoLoader
  /\ UNCHANGED <<uppermem_link, mem_access_mode, kept>>

-----------------------------------------------------------------------------
(* INT 21/31 and 4C                                                        *)

ReturnToParent ==
  /\ cu_psp' = parent[cu_psp]
  /\ parent' = [p \in DOMAIN parent \ {cu_psp} |-> parent[p]]

\* The program keeps its blocks, its own cut to what it asks for if that
\* works.
KeepProgram ==
  /\ Program
  /\ \E size \in Sizes :
       mcb' = DosMemChange(mcb, cu_psp - 1,
                           IF size < KeepMin THEN KeepMin ELSE size, cu_psp)
  /\ kept' = kept \cup {cu_psp}
  /\ ReturnToParent
  /\ UNCHANGED <<uppermem_link, mem_access_mode, loader>>

EndProgram ==
  /\ Program
  /\ LET r == FreeProcessMem(mcb, uppermem_link, cu_psp)
     IN mcb' = r.mcb /\ uppermem_link' = r.link
  /\ ReturnToParent
  /\ UNCHANGED <<mem_access_mode, loader, kept>>

Next ==
  \/ AllocateMemory \/ FreeMemory \/ SetMemoryBlockSize
  \/ SetStrategy \/ SetUmbLink
  \/ LoaderStarts \/ ChildEnv \/ ChildEnvTooLarge \/ ExecMemLargest
  \/ ExecMemAlloc \/ LoaderRestores
  \/ ExecBadImage \/ ExecComTooSmall \/ ExecRuns
  \/ KeepProgram \/ EndProgram

Spec == Init /\ [][Next]_vars

-----------------------------------------------------------------------------
(* Properties                                                              *)

TypeOK ==
  /\ DOMAIN mcb \subseteq Segment /\ mcb \in [DOMAIN mcb -> Block]
  /\ uppermem_link \in {0, 1}
  /\ mem_access_mode \in Modes
  /\ loader \in Loader \cup {NoLoader}
  /\ cu_psp \in DOMAIN parent
  /\ parent \in [DOMAIN parent -> DOMAIN parent]
  /\ DOMAIN parent \subseteq Psps
  /\ kept \subseteq Psps

\* After any sequence of calls the blocks tile memory from the first header
\* to the end, and the marks agree with uppermem_link: a walk along the chain
\* ends, DosMemCheck succeeds, and every paragraph can be found again
\* (memmgr.c: each operation computes sizes and marks on its own).
ChainTiles == Tiled(mcb) /\ LastMarks(mcb, uppermem_link)

\* The block in front of the PSP of a process that has not ended belongs to
\* it: no call of another program has freed, cut off or taken it.
ProgramsHeld ==
  \A p \in DOMAIN parent \ {DOS_PSP} :
    p - 1 \in DOMAIN mcb /\ mcb[p - 1].m_psp = p

\* A block belongs to the kernel, to a process that has not ended, or to one
\* whose blocks are meant to stay: FreeProcessMem finds every block of a
\* process, whatever the strategy and the link are at its end.
OwnersKnown ==
  \A p \in Allocated(mcb) :
    mcb[p].m_psp \in {SYSTEM_PSP} \cup DOMAIN parent \cup kept

\* Where a search of some mode looks: the paragraphs that are free there.
Searched(mode) ==
  LET from == StartOf([mode EXCEPT !.U = FALSE], uppermem_link)
      last == Max(Chain(mcb, from))
  IN {x \in from .. nxtMCB(mcb, last) - 1 :
        \E p \in DOMAIN mcb : mcbFree(mcb, p) /\ p <= x /\ x < nxtMCB(mcb, p)}

\* The result r of an allocation agrees with the free paragraphs.
RoomFound(r, size, free) ==
  IF r.seg = NoSeg
  THEN ~ \E x \in free : x .. x + size \subseteq free
  ELSE /\ r.seg .. r.seg + size \subseteq free
       /\ r.mcb[r.seg].m_size = size
       /\ r.mcb[r.seg].m_psp = DOS_PSP

OneBit(mode) == ~(mode.U /\ mode.UO)

\* An allocation succeeds exactly when there are enough free paragraphs in a
\* row for a header and the block, and the block it returns lies in free
\* paragraphs and has the size asked for: no strategy overlooks a block, the
\* search that begins in upper memory goes on in low memory, and blocks that
\* were freed one by one count as one.
AllocFindsRoom ==
  Idle => \A mode \in Modes, size \in Sizes \ {0} :
    OneBit(mode) =>
      RoomFound(DosMemAlloc(mcb, size, mode, uppermem_link, DOS_PSP), size,
                Searched(mode))

\* The size l.size can be had after DosMemLargest, and no larger one.
Obtainable(l, mode) ==
  LET Seg(size) == DosMemAlloc(l.mcb, size, mode, uppermem_link, DOS_PSP).seg
  IN (l.size > 0 => Seg(l.size) # NoSeg) /\ Seg(l.size + 1) = NoSeg

\* A program asks for everything to learn the size of the largest block, and
\* then asks for that: the second call succeeds, in every mode, and one
\* paragraph more would not.
LargestAvailable ==
  Idle => \A mode \in Modes :
    OneBit(mode) => Obtainable(DosMemLargest(mcb, mode, uppermem_link), mode)

\* The allocated blocks that a step frees, moves, resizes or gives away.
Touched ==
  {p \in Allocated(mcb) :
     ~ (p \in DOMAIN mcb' /\ mcb'[p].m_psp = mcb[p].m_psp
        /\ mcb'[p].m_size = mcb[p].m_size)}

\* The blocks that a loader gives back or hands over.
LoaderBlocks ==
  IF loader.pc \in {"Failed", "Image"} THEN {loader.env, loader.mem} ELSE {}

\* A call of a program changes no block of another process, and of its own
\* blocks one at most, unless the program ends: splits and joins leave the
\* blocks around them alone.  A loader takes or frees only the two blocks
\* that it has allocated itself, when it fails or hands them over.
BlocksKept ==
  [][ IF Idle
      THEN /\ \A p \in Touched : mcb[p].m_psp = cu_psp
           /\ cu_psp \in DOMAIN parent' => Cardinality(Touched) <= 1
      ELSE loader.pc # "NoEnv" => Touched \subseteq LoaderBlocks ]_vars

\* However a loader ends, its caller is left as it was: the strategy and the
\* link are the same, though both change on the way (ExecMemLargest takes the
\* bits of the strategy apart, and only a call with bit 0x80 puts everything
\* back), and neither block of the loader stays with the caller.
LoaderLeavesCaller ==
  [][ ~Idle /\ loader' = NoLoader =>
        /\ mem_access_mode' = loader.orig_mem_access
        /\ uppermem_link' = loader.UMBstate
        /\ \A p \in LoaderBlocks \cap DOMAIN mcb' :
             mcb'[p].m_psp # cu_psp ]_vars

\* DosMemFree "can be called with para == 0, which eases other parts of the
\* kernel" (memmgr.c:284): a loader that has no environment to free frees
\* nothing.  The loaders of task.c pass it a variable that nobody has set.
NoEnvFreesNothing == [][loader.pc = "NoEnv" => Touched = {}]_vars
=============================================================================
