---------------------------- MODULE MemMgrProofs ----------------------------
(***************************************************************************)
(* What the memory calls keep for any memory, programs and sizes.  The     *)
(* lemmas of MemBlocksProofs say what one operation on the chain does; the *)
(* invariant here says whose block each call may hand to it.               *)
(***************************************************************************)
EXTENDS MemMgr, MemBlocksProofs, FiniteSetTheorems

\* What a loader finds in its variable env, if it has not set it, is not the
\* segment of a block.  Nothing in the code makes it so; without it a failing
\* loader may free any block.
GarbageNamesNoBlock == Garbage \cap Segment = {}

\* The processes from DOS_PSP to the running one, each once, and each the
\* parent of the next.  No others are live: so the process that ends is
\* nobody's parent.
Line(c, n) ==
  /\ c \in [0 .. n -> Psps]
  /\ c[0] = DOS_PSP /\ c[n] = cu_psp
  /\ \A i, j \in 0 .. n : c[i] = c[j] => i = j
  /\ DOMAIN parent = {c[i] : i \in 0 .. n}
  /\ parent[DOS_PSP] = DOS_PSP
  /\ \A i \in 1 .. n : parent[c[i]] = c[i - 1]

Processes ==
  /\ parent = [p \in DOMAIN parent |-> parent[p]]
  /\ \E n \in Nat : \E c : Line(c, n)

\* The running process has the block at p, and no process has its PSP there.
Loose(p) == Owner(mcb, p) = cu_psp /\ p + 1 \notin DOMAIN parent

\* Every process has its own block, and every block a known owner.
BlocksInv ==
  /\ Chained(mcb, uppermem_link)
  /\ \A p \in DOMAIN parent \ {DOS_PSP} : Owner(mcb, p - 1) = p
  /\ \A p : Owner(mcb, p) \in {FREE_PSP, SYSTEM_PSP} \cup DOMAIN parent \cup kept

\* The blocks that a loader has so far are loose.
LoaderInv ==
  /\ loader.pc \in {"ChildEnv", "NoEnv"} => loader.env \in Garbage
  /\ loader.pc \in {"Largest", "Alloc", "Failed", "Found", "Image"} =>
       Loose(loader.env)
  /\ loader.pc \in {"ChildEnv", "NoEnv", "Largest", "Alloc", "Failed"} =>
       loader.mem = NoSeg
  /\ loader.pc \in {"Found", "Image"} =>
       Loose(loader.mem) /\ loader.mem # loader.env

\* A mode with both bits is never the mode of a program, and whatever a loader
\* has not saved it does not change for good.
ModesInv ==
  /\ Idle => OneBit(mem_access_mode)
  /\ ~Idle =>
       /\ OneBit(loader.orig_mem_access)
       /\ ~loader.high \/ loader.pc = "Image" =>
            /\ mem_access_mode = loader.orig_mem_access
            /\ uppermem_link = loader.UMBstate

TypesInv ==
  /\ uppermem_link \in {0, 1}
  /\ mem_access_mode \in Modes
  /\ loader \in Loader \cup {NoLoader}
  /\ kept \subseteq Psps

MemInv == TypesInv /\ Processes /\ BlocksInv /\ LoaderInv /\ ModesInv

\* What BlocksKept and LoaderLeavesCaller say of a step.
BlocksStep ==
  IF Idle
  THEN /\ \A p \in Touched : mcb[p].m_psp = cu_psp
       /\ cu_psp \in DOMAIN parent' => Cardinality(Touched) <= 1
  ELSE loader.pc # "NoEnv" => Touched \subseteq LoaderBlocks

CallerStep ==
  ~Idle /\ loader' = NoLoader =>
    /\ mem_access_mode' = loader.orig_mem_access
    /\ uppermem_link' = loader.UMBstate
    /\ \A p \in LoaderBlocks \cap DOMAIN mcb' : mcb'[p].m_psp # cu_psp

-----------------------------------------------------------------------------
(* The constants, and the line of processes                                *)

\* No process has the number of the kernel or of unused blocks.
LEMMA Names ==
  /\ \A p \in Psps : p \in Nat /\ p # FREE_PSP /\ p # SYSTEM_PSP
  /\ DOS_PSP \in Psps
  /\ \A p \in Segment : /\ p \in Nat /\ p # NoSeg
                        /\ p + 1 \in Psps /\ p + 1 # DOS_PSP
BY ChainLayout, KernelPsps DEF Psps, Segment, FREE_PSP, NoSeg, SYSTEM_PSP

\* The line gives the processes their type.
LEMMA ProcessTypes ==
  ASSUME Processes
  PROVE  /\ cu_psp \in DOMAIN parent /\ DOS_PSP \in DOMAIN parent
         /\ parent \in [DOMAIN parent -> DOMAIN parent]
         /\ DOMAIN parent \subseteq Psps
<1>1. PICK n \in Nat : \E c : Line(c, n)
  BY DEF Processes
<1>2. PICK c : Line(c, n)
  BY <1>1
<1>3. /\ \A i \in 0 .. n : c[i] \in Psps /\ c[i] \in DOMAIN parent
      /\ \A p \in DOMAIN parent : \E i \in 0 .. n : p = c[i]
      /\ 0 \in 0 .. n /\ n \in 0 .. n
  BY <1>2 DEF Line
<1>4. ASSUME NEW p \in DOMAIN parent PROVE parent[p] \in DOMAIN parent
  <2>1. PICK i \in 0 .. n : p = c[i]
    BY <1>3
  <2>2. CASE i = 0
    BY <1>2, <1>3, <2>1, <2>2 DEF Line
  <2>3. CASE i # 0
    <3>1. i \in 1 .. n /\ i - 1 \in 0 .. n
      BY <2>3
    <3>2. parent[p] = c[i - 1]
      BY <1>2, <2>1, <3>1 DEF Line
    <3>3. QED
      BY <1>3, <3>1, <3>2
  <2>4. QED
    BY <2>2, <2>3
<1>5. c[0] = DOS_PSP /\ c[n] = cu_psp
  BY <1>2 DEF Line
<1>6. parent \in [DOMAIN parent -> DOMAIN parent]
  BY <1>4 DEF Processes
<1>7. QED
  BY <1>3, <1>5, <1>6

\* A process that starts goes to the end of the line.
LEMMA ProcessStarts ==
  ASSUME Processes, NEW p \in Psps, p \notin DOMAIN parent,
         cu_psp' = p,
         parent' = [q \in DOMAIN parent \cup {p} |->
                      IF q = p THEN cu_psp ELSE parent[q]]
  PROVE  Processes' /\ DOMAIN parent' = DOMAIN parent \cup {p}
<1>1. PICK n \in Nat : \E c : Line(c, n)
  BY DEF Processes
<1>2. PICK c : Line(c, n)
  BY <1>1
<1>3. /\ c \in [0 .. n -> Psps] /\ c[0] = DOS_PSP /\ c[n] = cu_psp
      /\ \A i, j \in 0 .. n : c[i] = c[j] => i = j
      /\ DOMAIN parent = {c[i] : i \in 0 .. n}
      /\ parent[DOS_PSP] = DOS_PSP
      /\ \A i \in 1 .. n : parent[c[i]] = c[i - 1]
  BY <1>2 DEF Line
<1>4. /\ DOMAIN parent' = DOMAIN parent \cup {p}
      /\ parent'[p] = cu_psp
      /\ \A q \in DOMAIN parent : parent'[q] = parent[q]
      /\ parent' = [q \in DOMAIN parent' |-> parent'[q]]
  OBVIOUS
<1>5. PICK d : d = [i \in 0 .. n + 1 |-> IF i = n + 1 THEN p ELSE c[i]]
  OBVIOUS
<1>6. /\ d[n + 1] = p /\ d \in [0 .. n + 1 -> Psps]
      /\ \A i \in 0 .. n : /\ i \in 0 .. n + 1 /\ d[i] = c[i] /\ c[i] # p
                           /\ c[i] \in DOMAIN parent
  BY <1>3, <1>5
<1>7. d[0] = DOS_PSP /\ d[n + 1] = cu_psp' /\ parent'[DOS_PSP] = DOS_PSP
  BY <1>3, <1>4, <1>6
<1>8. \A i, j \in 0 .. n + 1 : d[i] = d[j] => i = j
  BY <1>3, <1>6
<1>9. DOMAIN parent' = {d[i] : i \in 0 .. n + 1}
  <2>1. ASSUME NEW i \in 0 .. n + 1 PROVE d[i] \in DOMAIN parent'
    BY <1>3, <1>4, <1>6
  <2>2. ASSUME NEW q \in DOMAIN parent' PROVE \E i \in 0 .. n + 1 : q = d[i]
    <3>1. CASE q = p
      BY <1>6, <3>1
    <3>2. CASE q # p
      BY <1>3, <1>4, <1>6, <3>2
    <3>3. QED
      BY <3>1, <3>2
  <2>3. QED
    BY <2>1, <2>2
<1>10. ASSUME NEW i \in 1 .. n + 1 PROVE parent'[d[i]] = d[i - 1]
  <2>1. CASE i = n + 1
    BY <1>3, <1>4, <1>6, <2>1
  <2>2. CASE i # n + 1
    <3>1. i \in 1 .. n /\ i \in 0 .. n /\ i - 1 \in 0 .. n
      BY <2>2
    <3>2. QED
      BY <1>3, <1>4, <1>6, <3>1
  <2>3. QED
    BY <2>1, <2>2
<1>11. Line(d, n + 1)'
  BY <1>6, <1>7, <1>8, <1>9, <1>10 DEF Line
<1>12. QED
  BY <1>4, <1>11 DEF Processes

\* A process that ends leaves it, and the one in front of it runs.
LEMMA ProcessEnds ==
  ASSUME Processes, cu_psp # DOS_PSP, ReturnToParent
  PROVE  Processes' /\ DOMAIN parent' = DOMAIN parent \ {cu_psp}
<1>1. PICK n \in Nat : \E c : Line(c, n)
  BY DEF Processes
<1>2. PICK c : Line(c, n)
  BY <1>1
<1>3. /\ c \in [0 .. n -> Psps] /\ c[0] = DOS_PSP /\ c[n] = cu_psp
      /\ \A i, j \in 0 .. n : c[i] = c[j] => i = j
      /\ DOMAIN parent = {c[i] : i \in 0 .. n}
      /\ parent[DOS_PSP] = DOS_PSP
      /\ \A i \in 1 .. n : parent[c[i]] = c[i - 1]
  BY <1>2 DEF Line
<1>4. /\ DOMAIN parent' = DOMAIN parent \ {cu_psp}
      /\ \A q \in DOMAIN parent' : parent'[q] = parent[q]
      /\ parent' = [q \in DOMAIN parent' |-> parent'[q]]
      /\ cu_psp' = parent[cu_psp]
  BY DEF ReturnToParent
<1>5. PICK m \in Nat : m = n - 1 /\ m \in 0 .. n /\ n \in 1 .. n
  BY <1>3
<1>6. PICK d : d = [i \in 0 .. m |-> c[i]]
  OBVIOUS
<1>7. \A i \in 0 .. m : i \in 0 .. n /\ i # n
  BY <1>5
<1>8. /\ d \in [0 .. m -> Psps]
      /\ \A i \in 0 .. m : d[i] = c[i] /\ c[i] # cu_psp /\ c[i] \in DOMAIN parent'
  BY <1>3, <1>4, <1>5, <1>6, <1>7
<1>9. d[0] = DOS_PSP /\ d[m] = cu_psp' /\ parent'[DOS_PSP] = DOS_PSP
  BY <1>3, <1>4, <1>5, <1>8
<1>10. \A i, j \in 0 .. m : d[i] = d[j] => i = j
  BY <1>3, <1>7, <1>8
<1>11. DOMAIN parent' = {d[i] : i \in 0 .. m}
  <2>1. ASSUME NEW q \in DOMAIN parent' PROVE \E i \in 0 .. m : q = d[i]
    <3>1. PICK i \in 0 .. n : q = c[i] /\ i # n
      BY <1>3, <1>4
    <3>2. i \in 0 .. m
      BY <1>5, <3>1
    <3>3. QED
      BY <1>8, <3>1, <3>2
  <2>2. QED
    BY <1>8, <2>1
<1>12. ASSUME NEW i \in 1 .. m PROVE parent'[d[i]] = d[i - 1]
  <2>1. i \in 1 .. n /\ i \in 0 .. m /\ i - 1 \in 0 .. m
    BY <1>5
  <2>2. QED
    BY <1>3, <1>4, <1>8, <2>1
<1>13. Line(d, m)'
  BY <1>8, <1>9, <1>10, <1>11, <1>12 DEF Line
<1>14. QED
  BY <1>4, <1>13 DEF Processes

-----------------------------------------------------------------------------
(* Blocks that change hands                                                *)

\* A step of the running process changes no blocks in use but those of S, and
\* gives or takes only blocks that are unused or loose.
Within(S) ==
  /\ cu_psp' = cu_psp /\ parent' = parent /\ kept' = kept
  /\ Chained(mcb', uppermem_link') /\ SameBut(mcb, mcb', S)
  /\ \A p \in S :
       \/ Owner(mcb', p) = Owner(mcb, p)
       \/ /\ Owner(mcb, p) = FREE_PSP \/ Loose(p)
          /\ Owner(mcb', p) \in {FREE_PSP, cu_psp}

\* Something that has an owner is a header.
LEMMA OwnedHeader ==
  ASSUME BlocksInv, NEW p, Owner(mcb, p) # FREE_PSP
  PROVE  p \in DOMAIN mcb /\ p \in Segment /\ mcb[p].m_psp = Owner(mcb, p)
  BY DEF BlocksInv, Chained, Typed, Owner

\* No process has its PSP in an unused block.
LEMMA UnusedNoPsp ==
  ASSUME Processes, BlocksInv, NEW p \in Segment, Owner(mcb, p) = FREE_PSP
  PROVE  p + 1 \notin DOMAIN parent
<1> SUFFICES ASSUME p + 1 \in DOMAIN parent PROVE FALSE
  OBVIOUS
<1>1. p \in Nat /\ p + 1 # DOS_PSP /\ p + 1 # FREE_PSP /\ (p + 1) - 1 = p
  BY Names
<1>2. Owner(mcb, (p + 1) - 1) = p + 1
  BY <1>1 DEF BlocksInv
<1>3. QED
  BY <1>1, <1>2

\* Such a step keeps the processes, their blocks, and the loose blocks.
LEMMA WithinKeeps ==
  ASSUME Processes, BlocksInv, NEW S, Within(S)
  PROVE  /\ Processes' /\ BlocksInv'
         /\ \A p : Loose(p) /\ (p \notin S \/ Owner(mcb', p) = cu_psp) => Loose(p)'
<1>1. Processes'
  BY DEF Processes, Line, Within
<1>2. ASSUME NEW p \in DOMAIN parent \ {DOS_PSP} PROVE Owner(mcb', p - 1) = p
  <2>1. Owner(mcb, p - 1) = p
    BY DEF BlocksInv
  <2>2. p \in Psps /\ p \in Nat /\ p # FREE_PSP /\ (p - 1) + 1 = p
    BY ProcessTypes, Names
  <2>3. ~Loose(p - 1) /\ Owner(mcb, p - 1) # FREE_PSP
    BY <2>1, <2>2 DEF Loose
  <2>4. CASE p - 1 \in S
    BY <2>1, <2>3, <2>4 DEF Within
  <2>5. CASE p - 1 \notin S
    BY <2>1, <2>5 DEF Within, SameBut
  <2>6. QED
    BY <2>4, <2>5
<1>3. cu_psp \in DOMAIN parent
  BY ProcessTypes
<1>4. ASSUME NEW p
      PROVE  Owner(mcb', p) \in {FREE_PSP, SYSTEM_PSP} \cup DOMAIN parent \cup kept
  <2>1. Owner(mcb, p) \in {FREE_PSP, SYSTEM_PSP} \cup DOMAIN parent \cup kept
    BY DEF BlocksInv
  <2>2. CASE p \in S
    BY <1>3, <2>1, <2>2 DEF Within
  <2>3. CASE p \notin S
    BY <2>1, <2>3 DEF Within, SameBut
  <2>4. QED
    BY <2>2, <2>3
<1>5. BlocksInv'
  BY <1>2, <1>4 DEF Within, BlocksInv
<1>6. \A p : Loose(p) /\ (p \notin S \/ Owner(mcb', p) = cu_psp) => Loose(p)'
  BY DEF Within, Loose, SameBut
<1>7. QED
  BY <1>1, <1>5, <1>6

\* Only blocks that the step may change, and that were in use, are touched.
LEMMA TouchedIn ==
  ASSUME NEW S, SameBut(mcb, mcb', S), NEW p \in Touched
  PROVE  /\ p \in S /\ p \in DOMAIN mcb
         /\ Owner(mcb, p) # FREE_PSP /\ Owner(mcb, p) = mcb[p].m_psp
<1>1. p \in DOMAIN mcb /\ Owner(mcb, p) # FREE_PSP /\ Owner(mcb, p) = mcb[p].m_psp
  BY DEF Touched, Allocated, mcbFree, Owner
<1>2. ASSUME p \notin S PROVE FALSE
  <2>1. Owner(mcb', p) = Owner(mcb, p) /\ Extent(mcb', p) = Extent(mcb, p)
    BY <1>2 DEF SameBut
  <2>2. p \in DOMAIN mcb' /\ mcb'[p].m_psp = mcb[p].m_psp
    BY <1>1, <2>1 DEF Owner
  <2>3. mcb'[p].m_size = mcb[p].m_size
    BY <1>1, <2>1 DEF Extent
  <2>4. QED
    BY <2>2, <2>3 DEF Touched
<1>3. QED
  BY <1>1, <1>2

\* A step that touches nothing does what BlocksKept asks for.
LEMMA NothingTouched ==
  ASSUME NEW S, SameBut(mcb, mcb', S), \A p \in S : Owner(mcb, p) = FREE_PSP
  PROVE  Touched = {} /\ BlocksStep
<1>1. Touched = {}
  BY TouchedIn
<1>2. Cardinality(Touched) <= 1
  BY <1>1, FS_EmptySet
<1>3. QED
  BY <1>1, <1>2 DEF BlocksStep

\* An allocation for the running process gives it a loose block.
LEMMA AllocationWithin ==
  ASSUME Processes, BlocksInv, NEW r,
         AllocationOf(mcb, r, cu_psp, uppermem_link),
         mcb' = r.mcb, uppermem_link' = uppermem_link,
         cu_psp' = cu_psp, parent' = parent, kept' = kept
  PROVE  /\ Within({r.seg}) /\ Owner(mcb, r.seg) = FREE_PSP
         /\ r.seg # NoSeg => Loose(r.seg)' /\ r.seg \in Segment
<1>1. /\ Chained(mcb', uppermem_link') /\ SameBut(mcb, mcb', {r.seg})
      /\ Owner(mcb, r.seg) = FREE_PSP
      /\ Owner(mcb', r.seg) \in {FREE_PSP, cu_psp}
      /\ r.seg # NoSeg => r.seg \in DOMAIN mcb' /\ Owner(mcb', r.seg) = cu_psp
  BY DEF AllocationOf
<1>2. Within({r.seg})
  BY <1>1 DEF Within
<1>3. ASSUME r.seg # NoSeg PROVE Loose(r.seg)' /\ r.seg \in Segment
  <2>1. r.seg \in Segment
    BY <1>1, <1>3 DEF Chained, Typed
  <2>2. r.seg + 1 \notin DOMAIN parent
    BY <1>1, <2>1, UnusedNoPsp
  <2>3. QED
    BY <1>1, <1>3, <2>1, <2>2 DEF Loose
<1>4. QED
  BY <1>1, <1>2, <1>3

\* An allocation that found nothing, and another one.
LEMMA AllocatesAgain ==
  ASSUME NEW m, NEW r, NEW s, NEW psp, NEW link, AllocationOf(m, r, psp, link),
         r.seg = NoSeg, AllocationOf(r.mcb, s, psp, link)
  PROVE  AllocationOf(m, s, psp, link)
<1>1. SameBut(m, r.mcb, {})
  BY DEF AllocationOf, SameBut, Extent
<1>2. SameBut(m, s.mcb, {s.seg})
  BY <1>1, SameAgain DEF AllocationOf
<1>3. Owner(m, s.seg) = FREE_PSP
  BY <1>1 DEF AllocationOf, SameBut
<1>4. QED
  BY <1>2, <1>3 DEF AllocationOf

\* An allocation whose block is given back at once.
LEMMA FreedAgain ==
  ASSUME NEW m, NEW r, NEW psp, NEW link, AllocationOf(m, r, psp, link),
         psp # SYSTEM_PSP
  PROVE  /\ Chained(DosMemFree(r.mcb, r.seg), link)
         /\ SameBut(m, DosMemFree(r.mcb, r.seg), {})
<1>1. /\ Chained(r.mcb, link) /\ Owner(r.mcb, r.seg) # SYSTEM_PSP
      /\ SameBut(m, r.mcb, {r.seg}) /\ Owner(m, r.seg) = FREE_PSP
  BY DEF AllocationOf, FREE_PSP, SYSTEM_PSP
<1>2. PICK n : n = DosMemFree(r.mcb, r.seg)
  OBVIOUS
<1>3. /\ Chained(n, link) /\ SameBut(r.mcb, n, {r.seg})
      /\ Owner(n, r.seg) = FREE_PSP
  BY <1>1, <1>2, DosMemFreeFrees
<1>4. SameBut(m, n, {})
  BY <1>1, <1>3 DEF SameBut, Extent
<1>5. QED
  BY <1>2, <1>3, <1>4

-----------------------------------------------------------------------------
(* The initial state                                                       *)

LEMMA MemInit == Init => MemInv
<1> SUFFICES ASSUME Init PROVE MemInv
  OBVIOUS
<1>1. /\ first_mcb \in Nat /\ base_seg \in Nat /\ uppermem_root \in Nat
      /\ umb_base \in Nat /\ MemTop \in Nat
      /\ first_mcb < base_seg /\ base_seg < uppermem_root
      /\ uppermem_root < umb_base /\ umb_base < MemTop
  BY ChainLayout, MemLayout
<1>2. DOMAIN mcb = {first_mcb, base_seg, uppermem_root, umb_base}
  BY DEF Init
<1>3. /\ mcb[first_mcb] = [m_type |-> MCB_NORMAL, m_psp |-> SYSTEM_PSP,
                           m_size |-> base_seg - first_mcb - 1]
      /\ mcb[base_seg] = [m_type |-> MCB_LAST, m_psp |-> FREE_PSP,
                          m_size |-> uppermem_root - base_seg - 1]
      /\ mcb[uppermem_root] = [m_type |-> MCB_NORMAL, m_psp |-> SYSTEM_PSP,
                               m_size |-> umb_base - uppermem_root - 1]
      /\ mcb[umb_base] = [m_type |-> MCB_LAST, m_psp |-> FREE_PSP,
                          m_size |-> MemTop - umb_base - 1]
  BY <1>1 DEF Init
<1>4. /\ nxtMCB(mcb, first_mcb) = base_seg
      /\ nxtMCB(mcb, base_seg) = uppermem_root
      /\ nxtMCB(mcb, uppermem_root) = umb_base /\ nxtMCB(mcb, umb_base) = MemTop
  BY <1>1, <1>3 DEF nxtMCB
<1>5. Typed(mcb)
  <2>1. DOMAIN mcb \subseteq Segment
    BY <1>1, <1>2 DEF Segment
  <2>2. \A p \in DOMAIN mcb : mcb[p] \in Block
    BY <1>1, <1>2, <1>3 DEF Block, FREE_PSP, SYSTEM_PSP
  <2>3. mcb = [p \in DOMAIN mcb |-> mcb[p]]
    BY DEF Init
  <2>4. QED
    BY <2>1, <2>2, <2>3 DEF Typed
<1>6. Tiled(mcb)
  <2>1. \A p \in {first_mcb, uppermem_root} :
          p \in DOMAIN mcb /\ mcb[p].m_psp = SYSTEM_PSP
    BY <1>2, <1>3
  <2>2. \A p \in DOMAIN mcb : nxtMCB(mcb, p) \in DOMAIN mcb \cup {MemTop}
    BY <1>2, <1>4
  <2>3. \A p, q \in DOMAIN mcb : p < q => nxtMCB(mcb, p) <= q
    BY <1>1, <1>2, <1>4
  <2>4. QED
    BY <2>1, <2>2, <2>3 DEF Tiled
<1>7. LastMarks(mcb, 0)
  BY <1>1, <1>2, <1>3, <1>4 DEF LastMarks, MCB_LAST, MCB_NORMAL
<1>8. DOMAIN parent = {DOS_PSP} /\ parent[DOS_PSP] = DOS_PSP /\ cu_psp = DOS_PSP
  BY DEF Init
<1>9. Processes
  <2>1. PICK c : c = [i \in 0 .. 0 |-> DOS_PSP]
    OBVIOUS
  <2>2. Line(c, 0)
    BY <1>8, <2>1, Names DEF Line
  <2>3. parent = [p \in DOMAIN parent |-> parent[p]]
    BY DEF Init
  <2>4. QED
    BY <2>2, <2>3 DEF Processes
<1>10. BlocksInv
  <2>1. \A p : Owner(mcb, p) \in {FREE_PSP, SYSTEM_PSP}
    BY <1>2, <1>3 DEF Owner
  <2>2. uppermem_link = 0
    BY DEF Init
  <2>3. QED
    BY <1>5, <1>6, <1>7, <1>8, <2>1, <2>2 DEF BlocksInv, Chained
<1>11. TypesInv /\ LoaderInv /\ ModesInv
  BY DEF Init, TypesInv, LoaderInv, ModesInv, Modes, NoLoader, Idle, OneBit
<1>12. QED
  BY <1>9, <1>10, <1>11 DEF MemInv

-----------------------------------------------------------------------------
(* The calls of programs                                                   *)

SafeStep == MemInv' /\ BlocksStep /\ CallerStep

\* The running process is not the kernel.
LEMMA RunningName ==
  ASSUME Processes
  PROVE  /\ cu_psp \in Psps /\ cu_psp \in Nat
         /\ cu_psp # FREE_PSP /\ cu_psp # SYSTEM_PSP
  BY ProcessTypes, Names

\* Whether a loader is at work.
LEMMA AtWork ==
  ASSUME TypesInv
  PROVE  /\ Idle <=> loader.pc = "none"
         /\ ~Idle => loader \in Loader
  BY DEF TypesInv, Idle, Loader, NoLoader

\* A call that changes one block of its program at most, or takes an unused
\* one, is safe.
LEMMA CallSafe ==
  ASSUME MemInv, Idle, loader' = loader, NEW s, Within({s}),
         Owner(mcb, s) \in {FREE_PSP, cu_psp},
         uppermem_link' \in {0, 1}, mem_access_mode' \in Modes,
         OneBit(mem_access_mode')
  PROVE  SafeStep
<1>1. Processes' /\ BlocksInv'
  BY WithinKeeps DEF MemInv
<1>2. loader'.pc = "none" /\ Idle'
  BY AtWork DEF MemInv, Idle
<1>3. TypesInv'
  BY DEF TypesInv, MemInv, Within
<1>4. LoaderInv' /\ ModesInv'
  BY <1>2 DEF LoaderInv, ModesInv
<1>5. \A p \in Touched : p = s /\ mcb[p].m_psp = cu_psp
  BY TouchedIn DEF Within
<1>6. Cardinality(Touched) <= 1
  <2>1. CASE Touched = {}
    BY <2>1, FS_EmptySet
  <2>2. CASE Touched # {}
    <3>1. Touched = {s}
      BY <1>5, <2>2
    <3>2. QED
      BY <3>1, FS_Singleton
  <2>3. QED
    BY <2>1, <2>2
<1>7. BlocksStep
  BY <1>5, <1>6 DEF BlocksStep
<1>8. CallerStep
  BY DEF CallerStep
<1>9. QED
  BY <1>1, <1>3, <1>4, <1>7, <1>8 DEF SafeStep, MemInv

\* So is a call that changes no block in use.
LEMMA QuietCallSafe ==
  ASSUME MemInv, Idle, loader' = loader,
         cu_psp' = cu_psp, parent' = parent, kept' = kept,
         Chained(mcb', uppermem_link'), SameBut(mcb, mcb', {}),
         uppermem_link' \in {0, 1}, mem_access_mode' \in Modes,
         OneBit(mem_access_mode')
  PROVE  SafeStep
<1>1. SameBut(mcb, mcb', {NoSeg}) /\ Owner(mcb', NoSeg) = Owner(mcb, NoSeg)
  BY DEF SameBut
<1>2. Owner(mcb, NoSeg) = FREE_PSP
  BY NothingAtNoSeg DEF MemInv, BlocksInv
<1>3. Within({NoSeg})
  BY <1>1 DEF Within
<1>4. QED
  BY <1>2, <1>3, CallSafe

LEMMA AllocateMemorySafe == ASSUME MemInv, AllocateMemory PROVE SafeStep
<1>1. PICK size \in Sizes :
        Allocate(DosMemAlloc(mcb, size, mem_access_mode, uppermem_link, cu_psp))
  BY DEF AllocateMemory
<1>2. PICK r : r = DosMemAlloc(mcb, size, mem_access_mode, uppermem_link, cu_psp)
  OBVIOUS
<1>3. /\ Idle /\ loader' = loader /\ cu_psp' = cu_psp /\ parent' = parent
      /\ kept' = kept /\ uppermem_link' = uppermem_link
      /\ mem_access_mode' = mem_access_mode
  BY DEF AllocateMemory, Program
<1>4. /\ Processes /\ BlocksInv /\ Chained(mcb, uppermem_link)
      /\ uppermem_link' \in {0, 1} /\ mem_access_mode' \in Modes
      /\ OneBit(mem_access_mode')
  BY <1>3 DEF MemInv, BlocksInv, TypesInv, ModesInv
<1>5. size \in Nat /\ cu_psp \in Nat
  BY <1>4, MemSizes, RunningName
<1>6. AllocationOf(mcb, r, cu_psp, uppermem_link)
  BY <1>2, <1>4, <1>5, DosMemAllocTakes
<1>7. CASE r.seg # NoSeg
  <2>1. mcb' = r.mcb
    BY <1>1, <1>2, <1>7 DEF Allocate
  <2>2. Within({r.seg}) /\ Owner(mcb, r.seg) = FREE_PSP
    BY <1>3, <1>4, <1>6, <2>1, AllocationWithin
  <2>3. QED
    BY <1>3, <1>4, <2>2, CallSafe
<1>8. CASE r.seg = NoSeg
  <2>1. PICK n : n = DosMemLargest(r.mcb, mem_access_mode, uppermem_link).mcb
    OBVIOUS
  <2>2. mcb' = n
    BY <1>1, <1>2, <1>8, <2>1 DEF Allocate
  <2>3. Chained(r.mcb, uppermem_link) /\ SameBut(mcb, r.mcb, {})
    BY <1>6, <1>8 DEF AllocationOf, SameBut, Extent
  <2>4. Chained(n, uppermem_link) /\ SameBut(r.mcb, n, {})
    BY <2>1, <2>3, DosMemLargestKeeps
  <2>5. SameBut(mcb, n, {})
    BY <2>3, <2>4, SameAgain
  <2>6. QED
    BY <1>3, <1>4, <2>2, <2>4, <2>5, QuietCallSafe
<1>9. QED
  BY <1>7, <1>8

LEMMA FreeMemorySafe == ASSUME MemInv, FreeMemory PROVE SafeStep
<1>1. PICK p \in Own(mcb) \ {cu_psp - 1} : mcb' = DosMemFree(mcb, p)
  BY DEF FreeMemory
<1>2. /\ Idle /\ loader' = loader /\ cu_psp' = cu_psp /\ parent' = parent
      /\ kept' = kept /\ uppermem_link' = uppermem_link
      /\ mem_access_mode' = mem_access_mode
  BY DEF FreeMemory, Program
<1>3. /\ Processes /\ BlocksInv /\ Chained(mcb, uppermem_link)
      /\ uppermem_link' \in {0, 1} /\ mem_access_mode' \in Modes
      /\ OneBit(mem_access_mode')
  BY <1>2 DEF MemInv, BlocksInv, TypesInv, ModesInv
<1>4. cu_psp # FREE_PSP /\ cu_psp # SYSTEM_PSP /\ cu_psp \in Nat
  BY <1>3, RunningName
<1>5. Owner(mcb, p) = cu_psp
  BY <1>1 DEF Own, Owner
<1>6. /\ Chained(mcb', uppermem_link') /\ SameBut(mcb, mcb', {p})
      /\ Owner(mcb', p) = FREE_PSP
  BY <1>1, <1>2, <1>3, <1>4, <1>5, DosMemFreeFrees
<1>7. Loose(p)
  <2>1. p \in Segment
    BY <1>3, <1>4, <1>5, OwnedHeader
  <2>2. p \in Nat /\ p + 1 # DOS_PSP /\ (p + 1) - 1 = p
    BY <2>1, Names
  <2>3. p + 1 \in DOMAIN parent => Owner(mcb, (p + 1) - 1) = p + 1
    BY <1>3, <2>2 DEF BlocksInv
  <2>4. p + 1 \in DOMAIN parent => cu_psp = p + 1
    BY <1>5, <2>2, <2>3
  <2>5. cu_psp # p + 1
    BY <1>1, <2>2
  <2>6. QED
    BY <1>5, <2>4, <2>5 DEF Loose
<1>8. Within({p})
  BY <1>2, <1>6, <1>7 DEF Within
<1>9. QED
  BY <1>2, <1>3, <1>5, <1>8, CallSafe

LEMMA SetMemoryBlockSizeSafe == ASSUME MemInv, SetMemoryBlockSize PROVE SafeStep
<1>1. PICK p \in Own(mcb), size \in Sizes : mcb' = DosMemChange(mcb, p, size, cu_psp)
  BY DEF SetMemoryBlockSize
<1>2. /\ Idle /\ loader' = loader /\ cu_psp' = cu_psp /\ parent' = parent
      /\ kept' = kept /\ uppermem_link' = uppermem_link
      /\ mem_access_mode' = mem_access_mode
  BY DEF SetMemoryBlockSize, Program
<1>3. /\ Processes /\ BlocksInv /\ Chained(mcb, uppermem_link)
      /\ uppermem_link' \in {0, 1} /\ mem_access_mode' \in Modes
      /\ OneBit(mem_access_mode')
  BY <1>2 DEF MemInv, BlocksInv, TypesInv, ModesInv
<1>4. /\ cu_psp # FREE_PSP /\ cu_psp # SYSTEM_PSP /\ cu_psp \in Nat
      /\ size \in Nat
  BY <1>3, RunningName, MemSizes
<1>5. p \in DOMAIN mcb /\ mcb[p].m_psp = cu_psp /\ Owner(mcb, p) = cu_psp
  BY DEF Own, Owner
<1>6. /\ Chained(mcb', uppermem_link') /\ SameBut(mcb, mcb', {p})
      /\ Owner(mcb', p) = cu_psp
  BY <1>1, <1>2, <1>3, <1>4, <1>5, DosMemChangeKeeps
<1>7. Within({p})
  BY <1>2, <1>5, <1>6 DEF Within
<1>8. QED
  BY <1>2, <1>3, <1>5, <1>7, CallSafe

LEMMA SetStrategySafe == ASSUME MemInv, SetStrategy PROVE SafeStep
<1>1. /\ Idle /\ loader' = loader /\ cu_psp' = cu_psp /\ parent' = parent
      /\ kept' = kept /\ uppermem_link' = uppermem_link /\ mcb' = mcb
      /\ mem_access_mode' \in Strategies
  BY DEF SetStrategy, Program
<1>2. mem_access_mode' \in Modes /\ OneBit(mem_access_mode')
  BY <1>1, MemStrategies DEF OneBit
<1>3. /\ Chained(mcb', uppermem_link') /\ SameBut(mcb, mcb', {})
      /\ uppermem_link' \in {0, 1}
  BY <1>1 DEF MemInv, BlocksInv, TypesInv, SameBut
<1>4. QED
  BY <1>1, <1>2, <1>3, QuietCallSafe

LEMMA SetUmbLinkSafe == ASSUME MemInv, SetUmbLink PROVE SafeStep
<1>1. /\ Idle /\ loader' = loader /\ cu_psp' = cu_psp /\ parent' = parent
      /\ kept' = kept /\ mem_access_mode' = mem_access_mode
  BY DEF SetUmbLink, Program
<1>2. PICK n \in 0 .. 2 : LET r == DosUmbLink(mcb, uppermem_link, n)
                          IN mcb' = r.mcb /\ uppermem_link' = r.link
  BY DEF SetUmbLink
<1>3. PICK r : r = DosUmbLink(mcb, uppermem_link, n)
  OBVIOUS
<1>4. uppermem_link \in {0, 1} /\ Chained(mcb, uppermem_link) /\ n \in Nat
  BY DEF MemInv, BlocksInv, TypesInv
<1>5. /\ Chained(r.mcb, r.link) /\ SameBut(mcb, r.mcb, {})
      /\ r.link = IF n > 1 THEN uppermem_link ELSE n
  BY <1>3, <1>4, DosUmbLinkKeeps
<1>6. mcb' = r.mcb /\ uppermem_link' = r.link
  BY <1>2, <1>3
<1>7. /\ Chained(mcb', uppermem_link') /\ SameBut(mcb, mcb', {})
      /\ uppermem_link' \in {0, 1}
  BY <1>4, <1>5, <1>6
<1>8. mem_access_mode' \in Modes /\ OneBit(mem_access_mode')
  BY <1>1 DEF MemInv, TypesInv, ModesInv
<1>9. QED
  BY <1>1, <1>7, <1>8, QuietCallSafe

-----------------------------------------------------------------------------
(* The loaders                                                             *)

\* A loader that goes on without touching a block in use is safe.
LEMMA LoaderSafe ==
  ASSUME MemInv, ~Idle, NEW S, Within(S), \A p \in S : Owner(mcb, p) = FREE_PSP,
         loader' # NoLoader, TypesInv', LoaderInv', ModesInv'
  PROVE  SafeStep
<1>1. Processes' /\ BlocksInv'
  BY WithinKeeps DEF MemInv
<1>2. BlocksStep
  BY NothingTouched DEF Within
<1>3. CallerStep
  BY DEF CallerStep
<1>4. QED
  BY <1>1, <1>2, <1>3 DEF SafeStep, MemInv

LEMMA LoaderStartsSafe == ASSUME MemInv, LoaderStarts PROVE SafeStep
<1>1. PICK high \in BOOLEAN, env \in Garbage :
        LET r == DosUmbLink(mcb, uppermem_link, 1)
        IN /\ loader' = [pc |-> "ChildEnv", high |-> high, env |-> env,
                         asize |-> 0, mem |-> NoSeg,
                         UMBstate |-> uppermem_link,
                         orig_mem_access |-> mem_access_mode]
           /\ IF high
              THEN /\ mcb' = r.mcb /\ uppermem_link' = r.link
                   /\ mem_access_mode' = [mem_access_mode EXCEPT !.U = TRUE]
              ELSE UNCHANGED <<mcb, uppermem_link, mem_access_mode>>
  BY DEF LoaderStarts
<1>2. PICK r : r = DosUmbLink(mcb, uppermem_link, 1)
  OBVIOUS
<1>3. /\ uppermem_link \in {0, 1} /\ Chained(mcb, uppermem_link) /\ Idle
      /\ mem_access_mode \in Modes /\ OneBit(mem_access_mode)
      /\ cu_psp' = cu_psp /\ parent' = parent /\ kept' = kept
  BY DEF MemInv, BlocksInv, TypesInv, ModesInv, LoaderStarts
<1>4. /\ Chained(r.mcb, r.link) /\ SameBut(mcb, r.mcb, {}) /\ r.link = 1
  BY <1>2, <1>3, DosUmbLinkKeeps
<1>5. /\ loader' = [pc |-> "ChildEnv", high |-> high, env |-> env, asize |-> 0,
                    mem |-> NoSeg, UMBstate |-> uppermem_link,
                    orig_mem_access |-> mem_access_mode]
      /\ \/ /\ high /\ mcb' = r.mcb /\ uppermem_link' = r.link
            /\ mem_access_mode' = [mem_access_mode EXCEPT !.U = TRUE]
         \/ /\ ~high /\ mcb' = mcb /\ uppermem_link' = uppermem_link
            /\ mem_access_mode' = mem_access_mode
  BY <1>1, <1>2
<1>6. /\ Chained(mcb', uppermem_link') /\ SameBut(mcb, mcb', {})
      /\ uppermem_link' \in {0, 1}
  BY <1>3, <1>4, <1>5 DEF SameBut
<1>7. mem_access_mode' \in Modes
  BY <1>3, <1>5 DEF Modes
<1>8. loader' \in Loader
  BY <1>3, <1>5, MemSizes DEF Loader
<1>9. Within({})
  BY <1>3, <1>6 DEF Within
<1>10. Processes' /\ BlocksInv'
  BY <1>9, WithinKeeps DEF MemInv
<1>11. TypesInv'
  BY <1>3, <1>6, <1>7, <1>8 DEF TypesInv, MemInv
<1>12. LoaderInv' /\ ModesInv'
  BY <1>3, <1>5 DEF LoaderInv, ModesInv, Idle, NoLoader
<1>13. BlocksStep
  BY <1>6, NothingTouched
<1>14. CallerStep
  BY <1>3 DEF CallerStep
<1>15. QED
  BY <1>10, <1>11, <1>12, <1>13, <1>14 DEF SafeStep, MemInv

\* What a loader at work can rely on.
LEMMA LoaderFacts ==
  ASSUME MemInv, loader.pc # "none"
  PROVE  /\ Processes /\ BlocksInv /\ Chained(mcb, uppermem_link)
         /\ uppermem_link \in {0, 1} /\ mem_access_mode \in Modes
         /\ kept \subseteq Psps /\ ~Idle
         /\ loader \in Loader
         /\ loader.env \in Nat /\ loader.UMBstate \in {0, 1}
         /\ loader.asize \in Nat /\ loader.mem \in Segment \cup {NoSeg}
         /\ loader.orig_mem_access \in Modes /\ OneBit(loader.orig_mem_access)
         /\ ~loader.high \/ loader.pc = "Image" =>
              /\ mem_access_mode = loader.orig_mem_access
              /\ uppermem_link = loader.UMBstate
<1>1. ~Idle /\ loader \in Loader
  BY AtWork DEF MemInv
<1>2. QED
  BY <1>1 DEF MemInv, BlocksInv, TypesInv, ModesInv, Loader

LEMMA ChildEnvSafe == ASSUME MemInv, ChildEnv PROVE SafeStep
<1>1. PICK size \in EnvSizes, truename \in {"Largest", "Failed"} :
        LET r == DosMemAlloc(mcb, size, mem_access_mode, uppermem_link, cu_psp)
        IN /\ mcb' = r.mcb
           /\ loader' = IF r.seg = NoSeg
                        THEN [loader EXCEPT !.pc = "NoEnv"]
                        ELSE [loader EXCEPT !.pc = truename, !.env = r.seg]
  BY DEF ChildEnv
<1>2. PICK r : r = DosMemAlloc(mcb, size, mem_access_mode, uppermem_link, cu_psp)
  OBVIOUS
<1>3. /\ mcb' = r.mcb
      /\ loader' = IF r.seg = NoSeg
                   THEN [loader EXCEPT !.pc = "NoEnv"]
                   ELSE [loader EXCEPT !.pc = truename, !.env = r.seg]
  BY <1>1, <1>2
<1>4. /\ loader.pc = "ChildEnv" /\ uppermem_link' = uppermem_link
      /\ mem_access_mode' = mem_access_mode /\ cu_psp' = cu_psp
      /\ parent' = parent /\ kept' = kept
  BY DEF ChildEnv
<1>5. /\ Processes /\ BlocksInv /\ Chained(mcb, uppermem_link)
      /\ uppermem_link \in {0, 1} /\ mem_access_mode \in Modes
      /\ kept \subseteq Psps /\ ~Idle /\ loader \in Loader
      /\ OneBit(loader.orig_mem_access)
      /\ ~loader.high => /\ mem_access_mode = loader.orig_mem_access
                         /\ uppermem_link = loader.UMBstate
  BY <1>4, LoaderFacts
<1>6. loader.env \in Garbage /\ loader.mem = NoSeg
  BY <1>4 DEF MemInv, LoaderInv
<1>7. size \in Nat /\ cu_psp \in Nat
  BY <1>5, MemSizes, RunningName
<1>8. AllocationOf(mcb, r, cu_psp, uppermem_link)
  BY <1>2, <1>5, <1>7, DosMemAllocTakes
<1>9. /\ Within({r.seg}) /\ Owner(mcb, r.seg) = FREE_PSP
      /\ r.seg # NoSeg => Loose(r.seg)' /\ r.seg \in Segment
  BY <1>3, <1>4, <1>5, <1>8, AllocationWithin
<1>10. /\ loader' \in Loader /\ loader'.mem = loader.mem
       /\ loader'.high = loader.high
       /\ loader'.UMBstate = loader.UMBstate
       /\ loader'.orig_mem_access = loader.orig_mem_access
       /\ \/ loader'.pc = "NoEnv" /\ loader'.env = loader.env
          \/ /\ loader'.pc \in {"Largest", "Failed"} /\ loader'.env = r.seg
             /\ Loose(r.seg)'
  <2>1. CASE r.seg = NoSeg
    BY <1>3, <1>5, <2>1 DEF Loader
  <2>2. CASE r.seg # NoSeg
    <3>1. r.seg \in Nat
      BY <1>9, <2>2, Names
    <3>2. QED
      BY <1>3, <1>5, <1>9, <2>2, <3>1 DEF Loader
  <2>3. QED
    BY <2>1, <2>2
<1>11. loader'.pc # "none" /\ loader' # NoLoader /\ TypesInv'
  BY <1>4, <1>5, <1>10 DEF TypesInv, NoLoader
<1>12. LoaderInv'
  BY <1>6, <1>10 DEF LoaderInv
<1>13. ModesInv'
  BY <1>4, <1>5, <1>10, <1>11 DEF ModesInv, Idle
<1>14. QED
  BY <1>5, <1>9, <1>11, <1>12, <1>13, LoaderSafe

LEMMA ChildEnvTooLargeSafe == ASSUME MemInv, ChildEnvTooLarge PROVE SafeStep
<1>1. /\ loader.pc = "ChildEnv" /\ uppermem_link' = uppermem_link
      /\ mem_access_mode' = mem_access_mode /\ cu_psp' = cu_psp
      /\ parent' = parent /\ kept' = kept /\ mcb' = mcb
      /\ loader' = [loader EXCEPT !.pc = "NoEnv"]
  BY DEF ChildEnvTooLarge
<1>2. /\ Processes /\ BlocksInv /\ Chained(mcb, uppermem_link)
      /\ uppermem_link \in {0, 1} /\ mem_access_mode \in Modes
      /\ kept \subseteq Psps /\ ~Idle /\ loader \in Loader
      /\ OneBit(loader.orig_mem_access)
      /\ ~loader.high => /\ mem_access_mode = loader.orig_mem_access
                         /\ uppermem_link = loader.UMBstate
  BY <1>1, LoaderFacts
<1>3. loader.env \in Garbage /\ loader.mem = NoSeg
  BY <1>1 DEF MemInv, LoaderInv
<1>4. /\ loader' \in Loader /\ loader'.pc = "NoEnv"
      /\ loader'.env = loader.env /\ loader'.mem = loader.mem
      /\ loader'.high = loader.high /\ loader'.UMBstate = loader.UMBstate
      /\ loader'.orig_mem_access = loader.orig_mem_access
  BY <1>1, <1>2 DEF Loader
<1>5. Within({})
  BY <1>1, <1>2 DEF Within, SameBut
<1>6. loader' # NoLoader /\ TypesInv' /\ LoaderInv'
  BY <1>1, <1>2, <1>3, <1>4 DEF TypesInv, NoLoader, LoaderInv
<1>7. ModesInv'
  BY <1>1, <1>2, <1>4, <1>6 DEF ModesInv, Idle
<1>8. QED
  BY <1>2, <1>5, <1>6, <1>7, LoaderSafe

\* The search for the largest block, whatever it has seen.
LEMMA SeesSafe ==
  ASSUME MemInv, loader.pc = "Largest", NEW r, NEW need, SeesLargest(r, need),
         Chained(r.mcb, uppermem_link), SameBut(mcb, r.mcb, {}), r.size \in Nat,
         uppermem_link' = uppermem_link, cu_psp' = cu_psp, parent' = parent,
         kept' = kept, mem_access_mode' \in Modes,
         ~loader.high => mem_access_mode' = mem_access_mode
  PROVE  SafeStep
<1>1. /\ Processes /\ BlocksInv /\ uppermem_link \in {0, 1}
      /\ kept \subseteq Psps /\ ~Idle /\ loader \in Loader
      /\ OneBit(loader.orig_mem_access)
      /\ ~loader.high => /\ mem_access_mode = loader.orig_mem_access
                         /\ uppermem_link = loader.UMBstate
  BY LoaderFacts
<1>2. Loose(loader.env) /\ loader.mem = NoSeg
  BY DEF MemInv, LoaderInv
<1>3. /\ mcb' = r.mcb
      /\ loader' = [loader EXCEPT
                      !.pc = IF r.size < need THEN "Failed" ELSE "Alloc",
                      !.asize = r.size]
  BY DEF SeesLargest
<1>4. /\ loader' \in Loader /\ loader'.pc \in {"Failed", "Alloc"}
      /\ loader'.env = loader.env /\ loader'.mem = loader.mem
      /\ loader'.high = loader.high /\ loader'.UMBstate = loader.UMBstate
      /\ loader'.orig_mem_access = loader.orig_mem_access
  BY <1>1, <1>3 DEF Loader
<1>5. Within({})
  BY <1>3 DEF Within
<1>6. Loose(loader.env)'
  BY <1>1, <1>2, <1>4, <1>5, WithinKeeps
<1>7. loader' # NoLoader /\ TypesInv' /\ LoaderInv'
  BY <1>1, <1>2, <1>4, <1>6 DEF TypesInv, NoLoader, LoaderInv
<1>8. ModesInv'
  BY <1>1, <1>4, <1>7 DEF ModesInv, Idle
<1>9. QED
  BY <1>1, <1>5, <1>7, <1>8, LoaderSafe

LEMMA ExecMemLargestSafe == ASSUME MemInv, ExecMemLargest PROVE SafeStep
<1>1. /\ loader.pc = "Largest" /\ uppermem_link' = uppermem_link
      /\ cu_psp' = cu_psp /\ parent' = parent /\ kept' = kept
  BY DEF ExecMemLargest
<1>2. /\ Chained(mcb, uppermem_link) /\ mem_access_mode \in Modes
      /\ OneBit(loader.orig_mem_access)
      /\ ~loader.high => mem_access_mode = loader.orig_mem_access
  BY <1>1, LoaderFacts
<1>3. PICK need \in NeedSizes :
        IF mem_access_mode.U
        THEN /\ SeesHigh(DosMemLargest(mcb, UOmode, uppermem_link), need)
             /\ mem_access_mode' = [mem_access_mode EXCEPT !.UO = FALSE]
        ELSE /\ SeesLargest(DosMemLargest(mcb, mem_access_mode, uppermem_link),
                            need)
             /\ UNCHANGED mem_access_mode
  BY DEF ExecMemLargest
<1>4. \A m, mode : Chained(m, uppermem_link) =>
        LET l == DosMemLargest(m, mode, uppermem_link)
        IN Chained(l.mcb, uppermem_link) /\ SameBut(m, l.mcb, {}) /\ l.size \in Nat
  BY DosMemLargestKeeps
<1>5. PICK high : high = DosMemLargest(mcb, UOmode, uppermem_link)
  OBVIOUS
<1>6. PICK low : low = DosMemLargest(high.mcb, lowmode, uppermem_link)
  OBVIOUS
<1>7. PICK one : one = DosMemLargest(mcb, mem_access_mode, uppermem_link)
  OBVIOUS
<1>8. /\ Chained(high.mcb, uppermem_link) /\ SameBut(mcb, high.mcb, {})
      /\ high.size \in Nat
  BY <1>2, <1>4, <1>5
<1>9. /\ Chained(low.mcb, uppermem_link) /\ SameBut(high.mcb, low.mcb, {})
      /\ low.size \in Nat
  BY <1>4, <1>6, <1>8
<1>10. SameBut(mcb, low.mcb, {})
  BY <1>8, <1>9, SameAgain
<1>11. /\ Chained(one.mcb, uppermem_link) /\ SameBut(mcb, one.mcb, {})
       /\ one.size \in Nat
  BY <1>2, <1>4, <1>7
<1>12. CASE mem_access_mode.U
  <2>1. SeesHigh(high, need)
        /\ mem_access_mode' = [mem_access_mode EXCEPT !.UO = FALSE]
    BY <1>3, <1>5, <1>12
  <2>2. SeesLargest(high, need) \/ SeesLargest(low, need)
    BY <1>6, <2>1 DEF SeesHigh
  <2>3. mem_access_mode' \in Modes
    BY <1>2, <2>1 DEF Modes
  <2>4. ~loader.high => mem_access_mode' = mem_access_mode
    BY <1>2, <1>12, <2>1 DEF OneBit, Modes
  <2>5. QED
    BY <1>1, <1>8, <1>9, <1>10, <2>2, <2>3, <2>4, SeesSafe
<1>13. CASE ~mem_access_mode.U
  <2>1. SeesLargest(one, need) /\ mem_access_mode' = mem_access_mode
    BY <1>3, <1>7, <1>13
  <2>2. QED
    BY <1>1, <1>2, <1>11, <2>1, SeesSafe
<1>14. QED
  BY <1>12, <1>13

\* The program has got a block that is large enough, or the loader fails.
LEMMA GetsSafe ==
  ASSUME MemInv, loader.pc = "Alloc", NEW r, NEW size, GetsMemory(r, size),
         AllocationOf(mcb, r, cu_psp, uppermem_link),
         uppermem_link' = uppermem_link, cu_psp' = cu_psp, parent' = parent,
         kept' = kept, mem_access_mode' = mem_access_mode
  PROVE  SafeStep
<1>1. /\ Processes /\ BlocksInv /\ uppermem_link \in {0, 1}
      /\ mem_access_mode \in Modes
      /\ kept \subseteq Psps /\ ~Idle /\ loader \in Loader
      /\ OneBit(loader.orig_mem_access)
      /\ ~loader.high => /\ mem_access_mode = loader.orig_mem_access
                         /\ uppermem_link = loader.UMBstate
  BY LoaderFacts
<1>2. Loose(loader.env) /\ loader.mem = NoSeg
  BY DEF MemInv, LoaderInv
<1>3. cu_psp # FREE_PSP /\ cu_psp # SYSTEM_PSP
  BY <1>1, RunningName
<1>4. CASE r.seg # NoSeg /\ r.mcb[r.seg].m_size >= size
  <2>1. /\ mcb' = r.mcb
        /\ loader' = [loader EXCEPT !.pc = "Found", !.mem = r.seg,
                                    !.asize = r.mcb[r.seg].m_size]
    BY <1>4 DEF GetsMemory
  <2>2. /\ Within({r.seg}) /\ Owner(mcb, r.seg) = FREE_PSP
        /\ Loose(r.seg)' /\ r.seg \in Segment
    BY <1>1, <1>4, <2>1, AllocationWithin
  <2>3. r.mcb[r.seg].m_size \in Nat
    BY <1>4, Header DEF AllocationOf, Chained
  <2>4. /\ loader' \in Loader /\ loader'.pc = "Found" /\ loader'.mem = r.seg
        /\ loader'.env = loader.env
        /\ loader'.high = loader.high /\ loader'.UMBstate = loader.UMBstate
        /\ loader'.orig_mem_access = loader.orig_mem_access
    BY <1>1, <2>1, <2>2, <2>3 DEF Loader
  <2>5. loader.env # r.seg
    BY <1>2, <1>3, <2>2 DEF Loose
  <2>6. Loose(loader.env)'
    BY <1>1, <1>2, <2>2, <2>4, <2>5, WithinKeeps
  <2>7. loader' # NoLoader /\ TypesInv' /\ LoaderInv'
    BY <1>1, <2>2, <2>4, <2>5, <2>6 DEF TypesInv, NoLoader, LoaderInv
  <2>8. ModesInv'
    BY <1>1, <2>4, <2>7 DEF ModesInv, Idle
  <2>9. QED
    BY <1>1, <2>2, <2>7, <2>8, LoaderSafe
<1>5. CASE ~(r.seg # NoSeg /\ r.mcb[r.seg].m_size >= size)
  <2>1. /\ mcb' = DosMemFree(r.mcb, r.seg)
        /\ loader' = [loader EXCEPT !.pc = "Failed"]
    BY <1>5 DEF GetsMemory
  <2>2. Within({})
    BY <1>3, <2>1, FreedAgain DEF Within
  <2>3. /\ loader' \in Loader /\ loader'.pc = "Failed"
        /\ loader'.mem = loader.mem /\ loader'.env = loader.env
        /\ loader'.high = loader.high /\ loader'.UMBstate = loader.UMBstate
        /\ loader'.orig_mem_access = loader.orig_mem_access
    BY <1>1, <2>1 DEF Loader
  <2>4. Loose(loader.env)'
    BY <1>1, <1>2, <2>2, <2>3, WithinKeeps
  <2>5. loader' # NoLoader /\ TypesInv' /\ LoaderInv'
    BY <1>1, <1>2, <2>3, <2>4 DEF TypesInv, NoLoader, LoaderInv
  <2>6. ModesInv'
    BY <1>1, <2>3, <2>5 DEF ModesInv, Idle
  <2>7. QED
    BY <1>1, <2>2, <2>5, <2>6, LoaderSafe
<1>6. QED
  BY <1>4, <1>5

LEMMA ExecMemAllocSafe == ASSUME MemInv, ExecMemAlloc PROVE SafeStep
<1>1. /\ loader.pc = "Alloc" /\ uppermem_link' = uppermem_link
      /\ mem_access_mode' = mem_access_mode
      /\ cu_psp' = cu_psp /\ parent' = parent /\ kept' = kept
  BY DEF ExecMemAlloc
<1>2. /\ Processes /\ Chained(mcb, uppermem_link) /\ loader.asize \in Nat
  BY <1>1, LoaderFacts
<1>3. PICK max \in MaxSizes \cup {All} :
        LET size == IF max < loader.asize THEN max ELSE loader.asize
        IN GetsOrLargest(DosMemAlloc(mcb, size, mem_access_mode, uppermem_link,
                                     cu_psp), size)
  BY DEF ExecMemAlloc
<1>4. PICK size : size = IF max < loader.asize THEN max ELSE loader.asize
  OBVIOUS
<1>5. size \in Nat /\ cu_psp \in Nat
  BY <1>2, <1>4, MemSizes, RunningName
<1>6. PICK r : r = DosMemAlloc(mcb, size, mem_access_mode, uppermem_link, cu_psp)
  OBVIOUS
<1>7. GetsOrLargest(r, size)
  BY <1>3, <1>4, <1>6
<1>8. AllocationOf(mcb, r, cu_psp, uppermem_link)
  BY <1>2, <1>5, <1>6, DosMemAllocTakes
<1>9. CASE r.seg = NoSeg
  <2>1. PICK s : s = DosMemAllocLargest(r.mcb, cu_psp)
    OBVIOUS
  <2>2. GetsMemory(s, size)
    BY <1>7, <1>9, <2>1 DEF GetsOrLargest
  <2>3. Chained(r.mcb, uppermem_link)
    BY <1>8 DEF AllocationOf
  <2>4. AllocationOf(r.mcb, s, cu_psp, uppermem_link)
    BY <1>5, <2>1, <2>3, DosMemAllocLargestTakes
  <2>5. AllocationOf(mcb, s, cu_psp, uppermem_link)
    BY <1>8, <1>9, <2>4, AllocatesAgain
  <2>6. QED
    BY <1>1, <2>2, <2>5, GetsSafe
<1>10. CASE r.seg # NoSeg
  <2>1. GetsMemory(r, size)
    BY <1>7, <1>10 DEF GetsOrLargest
  <2>2. QED
    BY <1>1, <1>8, <2>1, GetsSafe
<1>11. QED
  BY <1>9, <1>10

\* A loader that fails without memory for the program frees what it has, the
\* environment or nothing; one that has its memory goes on.
LEMMA LoaderRestoresSafe ==
  ASSUME GarbageNamesNoBlock, MemInv, LoaderRestores
  PROVE  SafeStep
<1>1. /\ loader.pc \in {"NoEnv", "Failed", "Found"}
      /\ cu_psp' = cu_psp /\ parent' = parent /\ kept' = kept
      /\ loader' = IF loader.pc = "Found" THEN [loader EXCEPT !.pc = "Image"]
                                          ELSE NoLoader
  BY DEF LoaderRestores
<1>2. /\ Processes /\ BlocksInv /\ Chained(mcb, uppermem_link)
      /\ uppermem_link \in {0, 1} /\ mem_access_mode \in Modes
      /\ kept \subseteq Psps /\ ~Idle /\ loader \in Loader
      /\ loader.UMBstate \in {0, 1} /\ loader.orig_mem_access \in Modes
      /\ OneBit(loader.orig_mem_access)
      /\ ~loader.high => /\ mem_access_mode = loader.orig_mem_access
                         /\ uppermem_link = loader.UMBstate
  BY <1>1, LoaderFacts
<1>3. cu_psp # FREE_PSP /\ cu_psp # SYSTEM_PSP
  BY <1>2, RunningName
<1>4. PICK m : m = IF loader.pc = "Found" THEN mcb ELSE DosMemFree(mcb, loader.env)
  OBVIOUS
<1>5. PICK r : r = DosUmbLink(m, uppermem_link, loader.UMBstate)
  OBVIOUS
<1>6. \/ /\ loader.high /\ mcb' = r.mcb /\ uppermem_link' = r.link
         /\ mem_access_mode' = loader.orig_mem_access
      \/ /\ ~loader.high /\ mcb' = m /\ uppermem_link' = uppermem_link
         /\ mem_access_mode' = mem_access_mode
  BY <1>4, <1>5 DEF LoaderRestores
<1>7. ASSUME Chained(m, uppermem_link)
      PROVE  /\ Chained(mcb', uppermem_link') /\ SameBut(m, mcb', {})
             /\ uppermem_link' = loader.UMBstate
             /\ mem_access_mode' = loader.orig_mem_access
  <2>1. loader.UMBstate \in Nat /\ ~(loader.UMBstate > 1)
    BY <1>2
  <2>2. /\ Chained(r.mcb, r.link) /\ SameBut(m, r.mcb, {})
        /\ r.link = loader.UMBstate
    BY <1>2, <1>5, <1>7, <2>1, DosUmbLinkKeeps
  <2>3. SameBut(m, m, {})
    BY DEF SameBut
  <2>4. QED
    BY <1>2, <1>6, <1>7, <2>2, <2>3
<1>8. CASE loader.pc = "Found"
  <2>1. m = mcb
    BY <1>4, <1>8
  <2>2. Within({})
    BY <1>1, <1>2, <1>7, <2>1 DEF Within
  <2>3. /\ loader' \in Loader /\ loader'.pc = "Image"
        /\ loader'.mem = loader.mem /\ loader'.env = loader.env
        /\ loader'.UMBstate = loader.UMBstate
        /\ loader'.orig_mem_access = loader.orig_mem_access
    BY <1>1, <1>2, <1>8 DEF Loader
  <2>4. Loose(loader.env) /\ Loose(loader.mem) /\ loader.mem # loader.env
    BY <1>8 DEF MemInv, LoaderInv
  <2>5. Loose(loader.env)' /\ Loose(loader.mem)'
    BY <1>2, <2>2, <2>3, <2>4, WithinKeeps
  <2>6. loader' # NoLoader /\ TypesInv' /\ LoaderInv'
    BY <1>1, <1>2, <1>7, <2>1, <2>3, <2>4, <2>5 DEF TypesInv, NoLoader, LoaderInv
  <2>7. ModesInv'
    BY <1>2, <1>7, <2>1, <2>3, <2>6 DEF ModesInv, Idle
  <2>8. QED
    BY <1>2, <2>2, <2>6, <2>7, LoaderSafe
<1>9. CASE loader.pc # "Found"
  <2>1. m = DosMemFree(mcb, loader.env) /\ loader' = NoLoader
    BY <1>1, <1>4, <1>9
  <2>2. \/ loader.pc = "NoEnv" /\ Owner(mcb, loader.env) = FREE_PSP
        \/ loader.pc = "Failed" /\ Loose(loader.env)
    <3>1. CASE loader.pc = "NoEnv"
      <4>1. loader.env \notin Segment
        BY <3>1 DEF MemInv, LoaderInv, GarbageNamesNoBlock
      <4>2. QED
        BY <1>2, <3>1, <4>1, OwnedHeader
    <3>2. CASE loader.pc = "Failed"
      BY <3>2 DEF MemInv, LoaderInv
    <3>3. QED
      BY <1>1, <1>9, <3>1, <3>2
  <2>3. Owner(mcb, loader.env) # SYSTEM_PSP
    BY <1>3, <2>2 DEF Loose, FREE_PSP, SYSTEM_PSP
  <2>4. /\ Chained(m, uppermem_link) /\ SameBut(mcb, m, {loader.env})
        /\ Owner(m, loader.env) = FREE_PSP
    BY <1>2, <2>1, <2>3, DosMemFreeFrees
  <2>5. /\ SameBut(mcb, mcb', {loader.env}) /\ Owner(mcb', loader.env) = FREE_PSP
        /\ Chained(mcb', uppermem_link')
        /\ uppermem_link' = loader.UMBstate
        /\ mem_access_mode' = loader.orig_mem_access
    BY <1>7, <2>4 DEF SameBut
  <2>6. Within({loader.env})
    BY <1>1, <2>2, <2>5 DEF Within
  <2>7. Processes' /\ BlocksInv'
    BY <1>2, <2>6, WithinKeeps
  <2>8. loader'.pc = "none" /\ Idle'
    BY <2>1 DEF NoLoader, Idle
  <2>9. MemInv'
    BY <1>1, <1>2, <2>1, <2>5, <2>7, <2>8
       DEF MemInv, TypesInv, LoaderInv, ModesInv
  <2>10. BlocksStep
    <3>1. loader.pc # "NoEnv" => loader.env \in LoaderBlocks
      BY <2>2 DEF LoaderBlocks
    <3>2. Touched \subseteq {loader.env}
      BY <2>5, TouchedIn
    <3>3. QED
      BY <1>2, <3>1, <3>2 DEF BlocksStep
  <2>11. CallerStep
    <3>1. ASSUME NEW p \in LoaderBlocks \cap DOMAIN mcb'
          PROVE  mcb'[p].m_psp # cu_psp
      <4>1. loader.pc = "Failed" /\ p \in {loader.env, loader.mem}
        BY <2>2 DEF LoaderBlocks
      <4>2. loader.mem = NoSeg
        BY <4>1 DEF MemInv, LoaderInv
      <4>3. p # NoSeg
        BY <2>5, Names DEF Chained, Typed
      <4>4. Owner(mcb', p) = FREE_PSP
        BY <2>5, <4>1, <4>2, <4>3
      <4>5. QED
        BY <1>3, <4>4 DEF Owner
    <3>2. QED
      BY <2>5, <3>1 DEF CallerStep
  <2>12. QED
    BY <2>9, <2>10, <2>11 DEF SafeStep
<1>10. QED
  BY <1>8, <1>9

LEMMA ExecBadImageSafe == ASSUME MemInv, ExecBadImage PROVE SafeStep
<1>1. /\ loader.pc = "Image" /\ loader' = NoLoader
      /\ mcb' = DosMemFree(DosMemFree(mcb, loader.mem), loader.env)
      /\ uppermem_link' = uppermem_link /\ mem_access_mode' = mem_access_mode
      /\ cu_psp' = cu_psp /\ parent' = parent /\ kept' = kept
  BY DEF ExecBadImage
<1>2. /\ Processes /\ BlocksInv /\ Chained(mcb, uppermem_link)
      /\ uppermem_link \in {0, 1} /\ mem_access_mode \in Modes
      /\ kept \subseteq Psps /\ ~Idle
      /\ OneBit(loader.orig_mem_access)
      /\ mem_access_mode = loader.orig_mem_access
      /\ uppermem_link = loader.UMBstate
  BY <1>1, LoaderFacts
<1>3. Loose(loader.env) /\ Loose(loader.mem) /\ loader.mem # loader.env
  BY <1>1 DEF MemInv, LoaderInv
<1>4. cu_psp # FREE_PSP /\ cu_psp # SYSTEM_PSP
  BY <1>2, RunningName
<1>5. PICK m : m = DosMemFree(mcb, loader.mem)
  OBVIOUS
<1>6. /\ Chained(m, uppermem_link) /\ SameBut(mcb, m, {loader.mem})
      /\ Owner(m, loader.mem) = FREE_PSP
  BY <1>2, <1>3, <1>4, <1>5, DosMemFreeFrees DEF Loose
<1>7. Owner(m, loader.env) = cu_psp
  BY <1>3, <1>6 DEF SameBut, Loose
<1>8. mcb' = DosMemFree(m, loader.env)
  BY <1>1, <1>5
<1>9. /\ Chained(mcb', uppermem_link) /\ SameBut(m, mcb', {loader.env})
      /\ Owner(mcb', loader.env) = FREE_PSP
  BY <1>4, <1>6, <1>7, <1>8, DosMemFreeFrees
<1>10. /\ SameBut(mcb, mcb', {loader.mem, loader.env})
       /\ Owner(mcb', loader.mem) = FREE_PSP
  BY <1>3, <1>6, <1>9 DEF SameBut
<1>11. Within({loader.mem, loader.env})
  BY <1>1, <1>3, <1>9, <1>10 DEF Within
<1>12. Processes' /\ BlocksInv'
  BY <1>2, <1>11, WithinKeeps
<1>13. loader'.pc = "none" /\ Idle'
  BY <1>1 DEF NoLoader, Idle
<1>14. MemInv'
  BY <1>1, <1>2, <1>12, <1>13 DEF MemInv, TypesInv, LoaderInv, ModesInv
<1>15. LoaderBlocks = {loader.env, loader.mem}
  BY <1>1 DEF LoaderBlocks
<1>16. BlocksStep
  BY <1>2, <1>10, <1>15, TouchedIn DEF BlocksStep
<1>17. CallerStep
  <2>1. \A p \in LoaderBlocks \cap DOMAIN mcb' : mcb'[p].m_psp # cu_psp
    BY <1>4, <1>9, <1>10, <1>15 DEF Owner
  <2>2. QED
    BY <1>1, <1>2, <2>1 DEF CallerStep
<1>18. QED
  BY <1>14, <1>16, <1>17 DEF SafeStep

\* The block at p goes to psp, and no other block changes.
HandedTo(m, n, p, psp, link) ==
  /\ Chained(n, link) /\ SameBut(m, n, {p}) /\ DOMAIN n = DOMAIN m
  /\ n[p].m_psp = psp
  /\ \A r \in DOMAIN m : r # p => n[r] = m[r]

LEMMA HandsOne ==
  ASSUME NEW m, NEW link, Chained(m, link), NEW p \in DOMAIN m,
         m[p].m_psp # SYSTEM_PSP, NEW psp \in Nat
  PROVE  HandedTo(m, [m EXCEPT ![p].m_psp = psp], p, psp, link)
<1> DEFINE n == [m EXCEPT ![p].m_psp = psp]
<1>1. /\ Chained(n, link) /\ SameBut(m, n, {p}) /\ DOMAIN n = DOMAIN m
      /\ n[p].m_psp = psp
  BY OwnerChange
<1>2. \A r \in DOMAIN m : r # p => n[r] = m[r]
  OBVIOUS
<1> HIDE DEF n
<1>3. HandedTo(m, n, p, psp, link)
  BY <1>1, <1>2 DEF HandedTo
<1> QED
  BY <1>3 DEF n

\* patchPSP gives two blocks to a new process and changes no others.
LEMMA PatchKeeps ==
  ASSUME NEW m, NEW link, Chained(m, link), NEW mem \in DOMAIN m,
         NEW env \in DOMAIN m, mem # env, mem + 1 \in Nat,
         m[mem].m_psp # SYSTEM_PSP, m[env].m_psp # SYSTEM_PSP
  PROVE  /\ Chained(patchPSP(m, mem, env), link)
         /\ SameBut(m, patchPSP(m, mem, env), {mem, env})
         /\ Owner(patchPSP(m, mem, env), mem) = mem + 1
         /\ Owner(patchPSP(m, mem, env), env) = mem + 1
<1> DEFINE k(psp) == [m EXCEPT ![mem].m_psp = psp]
           n(psp) == [k(psp) EXCEPT ![env].m_psp = psp]
<1>1. PICK psp \in Nat : psp = mem + 1
  OBVIOUS
<1>2. HandedTo(m, k(psp), mem, psp, link)
  BY HandsOne
<1>3. patchPSP(m, mem, env) = n(psp)
  BY <1>1 DEF patchPSP
<1> HIDE DEF k
<1>4. /\ Chained(k(psp), link) /\ SameBut(m, k(psp), {mem})
      /\ env \in DOMAIN k(psp) /\ k(psp)[env].m_psp # SYSTEM_PSP
      /\ mem \in DOMAIN k(psp) /\ k(psp)[mem].m_psp = psp
  BY <1>2 DEF HandedTo
<1>5. HandedTo(k(psp), n(psp), env, psp, link)
  BY <1>4, HandsOne
<1> HIDE DEF n
<1>6. /\ Chained(n(psp), link) /\ SameBut(k(psp), n(psp), {env})
      /\ Owner(n(psp), env) = psp /\ Owner(k(psp), mem) = psp
  BY <1>4, <1>5 DEF HandedTo, Owner
<1>7. SameBut(m, n(psp), {mem, env}) /\ Owner(n(psp), mem) = psp
  BY <1>4, <1>6 DEF SameBut
<1> QED
  BY <1>1, <1>3, <1>6, <1>7

\* The two blocks change hands: the PSP of the new process is that of no other
\* one, and nothing else changes.
LEMMA HandsOver ==
  ASSUME MemInv, loader.pc = "Image",
         mcb' = patchPSP(mcb, loader.mem, loader.env),
         uppermem_link' = uppermem_link
  PROVE  /\ Chained(mcb', uppermem_link')
         /\ SameBut(mcb, mcb', {loader.mem, loader.env})
         /\ Owner(mcb', loader.mem) = loader.mem + 1
         /\ Owner(mcb', loader.env) = loader.mem + 1
         /\ Loose(loader.mem) /\ Loose(loader.env)
         /\ loader.mem + 1 \in Psps /\ loader.mem + 1 \notin DOMAIN parent
         /\ loader.mem \in Nat
         /\ BlocksStep
         /\ \A p \in LoaderBlocks \cap DOMAIN mcb' : mcb'[p].m_psp # cu_psp
<1>1. /\ Processes /\ BlocksInv /\ Chained(mcb, uppermem_link) /\ ~Idle
  BY LoaderFacts
<1>2. Loose(loader.env) /\ Loose(loader.mem) /\ loader.mem # loader.env
  BY DEF MemInv, LoaderInv
<1>3. cu_psp # FREE_PSP /\ cu_psp # SYSTEM_PSP /\ cu_psp \in DOMAIN parent
  BY <1>1, RunningName, ProcessTypes
<1>4. /\ loader.mem \in DOMAIN mcb /\ loader.mem \in Segment
      /\ mcb[loader.mem].m_psp = cu_psp
      /\ loader.env \in DOMAIN mcb /\ mcb[loader.env].m_psp = cu_psp
  BY <1>1, <1>2, <1>3, OwnedHeader DEF Loose
<1>5. PICK psp : psp = loader.mem + 1
  OBVIOUS
<1>6. /\ loader.mem \in Nat /\ psp \in Nat /\ psp \in Psps
      /\ psp \notin DOMAIN parent /\ psp # cu_psp
  BY <1>2, <1>3, <1>4, <1>5, Names DEF Loose
<1>7. /\ Chained(mcb', uppermem_link)
      /\ SameBut(mcb, mcb', {loader.mem, loader.env})
      /\ Owner(mcb', loader.mem) = psp /\ Owner(mcb', loader.env) = psp
  BY <1>1, <1>2, <1>3, <1>4, <1>5, <1>6, PatchKeeps
<1>8. LoaderBlocks = {loader.env, loader.mem}
  BY DEF LoaderBlocks
<1>9. BlocksStep
  BY <1>1, <1>7, <1>8, TouchedIn DEF BlocksStep
<1>10. \A p \in LoaderBlocks \cap DOMAIN mcb' : mcb'[p].m_psp # cu_psp
  BY <1>6, <1>7, <1>8 DEF Owner
<1>11. QED
  BY <1>2, <1>5, <1>6, <1>7, <1>9, <1>10

\* A loader that has handed its blocks over leaves everything else in order,
\* whether the new process runs or not.
LEMMA HandsOverSafe ==
  ASSUME MemInv, loader.pc = "Image",
         mcb' = patchPSP(mcb, loader.mem, loader.env), loader' = NoLoader,
         uppermem_link' = uppermem_link, mem_access_mode' = mem_access_mode,
         Processes', DOMAIN parent \subseteq DOMAIN parent',
         DOMAIN parent' \subseteq DOMAIN parent \cup {loader.mem + 1},
         kept \subseteq kept', kept' \subseteq kept \cup {loader.mem + 1},
         loader.mem + 1 \in DOMAIN parent' \cup kept'
  PROVE  SafeStep
<1>1. /\ Chained(mcb', uppermem_link')
      /\ SameBut(mcb, mcb', {loader.mem, loader.env})
      /\ Owner(mcb', loader.mem) = loader.mem + 1
      /\ Owner(mcb', loader.env) = loader.mem + 1
      /\ Loose(loader.mem) /\ Loose(loader.env)
      /\ loader.mem + 1 \in Psps /\ loader.mem \in Nat
      /\ BlocksStep
      /\ \A p \in LoaderBlocks \cap DOMAIN mcb' : mcb'[p].m_psp # cu_psp
  BY HandsOver
<1>2. /\ Processes /\ BlocksInv /\ uppermem_link \in {0, 1}
      /\ mem_access_mode \in Modes /\ kept \subseteq Psps /\ ~Idle
      /\ OneBit(loader.orig_mem_access)
      /\ mem_access_mode = loader.orig_mem_access
      /\ uppermem_link = loader.UMBstate
  BY LoaderFacts
<1>3. ASSUME NEW p \in DOMAIN parent' \ {DOS_PSP} PROVE Owner(mcb', p - 1) = p
  <2>1. CASE p = loader.mem + 1
    <3>1. p - 1 = loader.mem
      BY <1>1, <2>1
    <3>2. QED
      BY <1>1, <2>1, <3>1
  <2>2. CASE p # loader.mem + 1
    <3>1. p \in DOMAIN parent \ {DOS_PSP} /\ Owner(mcb, p - 1) = p
      BY <1>2, <2>2 DEF BlocksInv
    <3>2. (p - 1) + 1 = p
      BY <1>2, <3>1, ProcessTypes, Names
    <3>3. ~Loose(p - 1)
      BY <3>1, <3>2 DEF Loose
    <3>4. p - 1 \notin {loader.mem, loader.env}
      BY <1>1, <3>3
    <3>5. QED
      BY <1>1, <3>1, <3>4 DEF SameBut
  <2>3. QED
    BY <2>1, <2>2
<1>4. ASSUME NEW p
      PROVE  Owner(mcb', p)
               \in {FREE_PSP, SYSTEM_PSP} \cup DOMAIN parent' \cup kept'
  <2>1. CASE p \in {loader.mem, loader.env}
    BY <1>1, <2>1
  <2>2. CASE p \notin {loader.mem, loader.env}
    <3>1. Owner(mcb', p) = Owner(mcb, p)
      BY <1>1, <2>2 DEF SameBut
    <3>2. Owner(mcb, p)
            \in {FREE_PSP, SYSTEM_PSP} \cup DOMAIN parent \cup kept
      BY <1>2 DEF BlocksInv
    <3>3. QED
      BY <3>1, <3>2
  <2>3. QED
    BY <2>1, <2>2
<1>5. BlocksInv'
  BY <1>1, <1>3, <1>4 DEF BlocksInv
<1>6. loader'.pc = "none" /\ Idle'
  BY DEF NoLoader, Idle
<1>7. MemInv'
  BY <1>1, <1>2, <1>5, <1>6 DEF MemInv, TypesInv, LoaderInv, ModesInv
<1>8. CallerStep
  BY <1>1, <1>2 DEF CallerStep
<1>9. QED
  BY <1>1, <1>7, <1>8 DEF SafeStep

LEMMA ExecComTooSmallSafe == ASSUME MemInv, ExecComTooSmall PROVE SafeStep
<1>1. /\ loader.pc = "Image" /\ loader' = NoLoader
      /\ mcb' = patchPSP(mcb, loader.mem, loader.env)
      /\ kept' = kept \cup {loader.mem + 1}
      /\ uppermem_link' = uppermem_link /\ mem_access_mode' = mem_access_mode
      /\ cu_psp' = cu_psp /\ parent' = parent
  BY DEF ExecComTooSmall
<1>2. Processes'
  <2>1. Processes /\ cu_psp' = cu_psp /\ parent' = parent
    BY <1>1 DEF MemInv
  <2>2. QED
    BY <2>1 DEF Processes, Line
<1>3. QED
  BY <1>1, <1>2, HandsOverSafe

LEMMA ExecRunsSafe == ASSUME MemInv, ExecRuns PROVE SafeStep
<1>1. /\ loader.pc = "Image" /\ loader' = NoLoader
      /\ mcb' = patchPSP(mcb, loader.mem, loader.env)
      /\ uppermem_link' = uppermem_link /\ mem_access_mode' = mem_access_mode
      /\ kept' = kept /\ cu_psp' = loader.mem + 1
      /\ parent' = [p \in DOMAIN parent \cup {loader.mem + 1} |->
                      IF p = loader.mem + 1 THEN cu_psp ELSE parent[p]]
  BY DEF ExecRuns
<1>2. loader.mem + 1 \in Psps /\ loader.mem + 1 \notin DOMAIN parent
  BY <1>1, HandsOver
<1>3. Processes' /\ DOMAIN parent' = DOMAIN parent \cup {loader.mem + 1}
  BY <1>1, <1>2, ProcessStarts DEF MemInv
<1>4. QED
  BY <1>1, <1>3, HandsOverSafe

-----------------------------------------------------------------------------
(* The end of a program                                                    *)

\* What the end of a program leaves: the processes without it, their blocks,
\* and nothing of its own but what it keeps.
LEMMA EndSafe ==
  ASSUME MemInv, Program, ReturnToParent, loader' = loader,
         mem_access_mode' = mem_access_mode, uppermem_link' = uppermem_link,
         Chained(mcb', uppermem_link'),
         \A p : Owner(mcb, p) # cu_psp =>
                  /\ Owner(mcb', p) = Owner(mcb, p)
                  /\ Extent(mcb', p) = Extent(mcb, p),
         \A p : Owner(mcb, p) = cu_psp => Owner(mcb', p) \in {FREE_PSP} \cup kept',
         kept' \in {kept, kept \cup {cu_psp}}
  PROVE  SafeStep
<1>1. /\ Processes /\ BlocksInv /\ TypesInv /\ ModesInv /\ Idle
      /\ cu_psp # DOS_PSP
  BY DEF MemInv, Program
<1>2. Processes' /\ DOMAIN parent' = DOMAIN parent \ {cu_psp}
  BY <1>1, ProcessEnds
<1>3. cu_psp \in Psps /\ cu_psp # FREE_PSP
  BY <1>1, RunningName
<1>4. ASSUME NEW p \in DOMAIN parent' \ {DOS_PSP} PROVE Owner(mcb', p - 1) = p
  <2>1. Owner(mcb, p - 1) = p /\ p # cu_psp
    BY <1>1, <1>2 DEF BlocksInv
  <2>2. QED
    BY <2>1
<1>5. ASSUME NEW p
      PROVE  Owner(mcb', p)
               \in {FREE_PSP, SYSTEM_PSP} \cup DOMAIN parent' \cup kept'
  <2>1. Owner(mcb, p) \in {FREE_PSP, SYSTEM_PSP} \cup DOMAIN parent \cup kept
    BY <1>1 DEF BlocksInv
  <2>2. CASE Owner(mcb, p) = cu_psp
    BY <2>2
  <2>3. CASE Owner(mcb, p) # cu_psp
    <3>1. Owner(mcb', p) = Owner(mcb, p)
      BY <2>3
    <3>2. QED
      BY <1>2, <2>1, <2>3, <3>1
  <2>4. QED
    BY <2>2, <2>3
<1>6. BlocksInv'
  BY <1>4, <1>5 DEF BlocksInv
<1>7. loader'.pc = "none" /\ Idle'
  BY <1>1 DEF NoLoader, Idle
<1>8. TypesInv'
  BY <1>1, <1>3 DEF TypesInv
<1>9. LoaderInv' /\ ModesInv'
  BY <1>1, <1>7 DEF LoaderInv, ModesInv
<1>10. \A p \in Touched : mcb[p].m_psp = cu_psp
  <2>1. PICK S : S = {p \in DOMAIN mcb : Owner(mcb, p) = cu_psp}
    OBVIOUS
  <2>2. ASSUME NEW p \in Touched PROVE mcb[p].m_psp = cu_psp
    <3>1. p \in DOMAIN mcb /\ Owner(mcb, p) = mcb[p].m_psp /\ Owner(mcb, p) # FREE_PSP
      BY DEF Touched, Allocated, mcbFree, Owner
    <3>2. ASSUME Owner(mcb, p) # cu_psp PROVE FALSE
      <4>1. Owner(mcb', p) = Owner(mcb, p) /\ Extent(mcb', p) = Extent(mcb, p)
        BY <3>2
      <4>2. p \in DOMAIN mcb' /\ mcb'[p].m_psp = mcb[p].m_psp
        BY <3>1, <4>1 DEF Owner
      <4>3. mcb'[p].m_size = mcb[p].m_size
        BY <3>1, <4>1 DEF Extent
      <4>4. QED
        BY <4>2, <4>3 DEF Touched
    <3>3. QED
      BY <3>1, <3>2
  <2>3. QED
    BY <2>2
<1>11. BlocksStep /\ CallerStep
  BY <1>1, <1>2, <1>10 DEF BlocksStep, CallerStep
<1>12. QED
  BY <1>2, <1>6, <1>8, <1>9, <1>11 DEF SafeStep, MemInv

LEMMA KeepProgramSafe == ASSUME MemInv, KeepProgram PROVE SafeStep
<1>1. /\ Program /\ ReturnToParent /\ kept' = kept \cup {cu_psp}
      /\ uppermem_link' = uppermem_link /\ mem_access_mode' = mem_access_mode
      /\ loader' = loader
  BY DEF KeepProgram
<1>2. PICK size \in Sizes :
        mcb' = DosMemChange(mcb, cu_psp - 1,
                            IF size < KeepMin THEN KeepMin ELSE size, cu_psp)
  BY DEF KeepProgram
<1>3. PICK kb : kb = IF size < KeepMin THEN KeepMin ELSE size
  OBVIOUS
<1>4. kb \in Nat /\ mcb' = DosMemChange(mcb, cu_psp - 1, kb, cu_psp)
  BY <1>2, <1>3, MemSizes
<1>5. /\ Processes /\ BlocksInv /\ Chained(mcb, uppermem_link)
      /\ cu_psp \in DOMAIN parent /\ cu_psp # DOS_PSP
      /\ cu_psp # FREE_PSP /\ cu_psp # SYSTEM_PSP /\ cu_psp \in Nat
  BY <1>1, RunningName, ProcessTypes DEF MemInv, BlocksInv, Program
<1>6. Owner(mcb, cu_psp - 1) = cu_psp
  BY <1>5 DEF BlocksInv
<1>7. cu_psp - 1 \in DOMAIN mcb /\ mcb[cu_psp - 1].m_psp = cu_psp
  BY <1>5, <1>6, OwnedHeader
<1>8. /\ Chained(mcb', uppermem_link') /\ SameBut(mcb, mcb', {cu_psp - 1})
      /\ Owner(mcb', cu_psp - 1) = cu_psp
  BY <1>1, <1>4, <1>5, <1>7, DosMemChangeKeeps
<1>9. \A p : Owner(mcb, p) # cu_psp =>
               /\ Owner(mcb', p) = Owner(mcb, p)
               /\ Extent(mcb', p) = Extent(mcb, p)
  BY <1>6, <1>8 DEF SameBut
<1>10. \A p : Owner(mcb, p) = cu_psp => Owner(mcb', p) \in {FREE_PSP} \cup kept'
  BY <1>1, <1>8 DEF SameBut
<1>11. QED
  BY <1>1, <1>8, <1>9, <1>10, EndSafe

LEMMA EndProgramSafe == ASSUME MemInv, EndProgram PROVE SafeStep
<1>1. /\ Program /\ ReturnToParent /\ kept' = kept
      /\ mem_access_mode' = mem_access_mode /\ loader' = loader
  BY DEF EndProgram
<1>2. PICK r : r = FreeProcessMem(mcb, uppermem_link, cu_psp)
  OBVIOUS
<1>3. mcb' = r.mcb /\ uppermem_link' = r.link
  BY <1>2 DEF EndProgram
<1>4. /\ Chained(mcb, uppermem_link) /\ cu_psp # SYSTEM_PSP
      /\ uppermem_link \in {0, 1}
  BY RunningName DEF MemInv, BlocksInv, TypesInv
<1>5. /\ Chained(r.mcb, uppermem_link) /\ r.link = uppermem_link
      /\ \A p : Owner(r.mcb, p) = IF Owner(mcb, p) = cu_psp THEN FREE_PSP
                                                            ELSE Owner(mcb, p)
      /\ \A p : Owner(mcb, p) # cu_psp => Extent(r.mcb, p) = Extent(mcb, p)
  BY <1>2, <1>4, FreeProcessMemFrees
<1>6. QED
  BY <1>1, <1>3, <1>5, EndSafe

-----------------------------------------------------------------------------
(* The theorems                                                            *)

\* Every step keeps the invariant, and does what the two action properties
\* say.
LEMMA MemNext == ASSUME GarbageNamesNoBlock, MemInv, Next PROVE SafeStep
<1>1. CASE AllocateMemory
  BY <1>1, AllocateMemorySafe
<1>2. CASE FreeMemory
  BY <1>2, FreeMemorySafe
<1>3. CASE SetMemoryBlockSize
  BY <1>3, SetMemoryBlockSizeSafe
<1>4. CASE SetStrategy
  BY <1>4, SetStrategySafe
<1>5. CASE SetUmbLink
  BY <1>5, SetUmbLinkSafe
<1>6. CASE LoaderStarts
  BY <1>6, LoaderStartsSafe
<1>7. CASE ChildEnv
  BY <1>7, ChildEnvSafe
<1>8. CASE ChildEnvTooLarge
  BY <1>8, ChildEnvTooLargeSafe
<1>9. CASE ExecMemLargest
  BY <1>9, ExecMemLargestSafe
<1>10. CASE ExecMemAlloc
  BY <1>10, ExecMemAllocSafe
<1>11. CASE LoaderRestores
  BY <1>11, LoaderRestoresSafe
<1>12. CASE ExecBadImage
  BY <1>12, ExecBadImageSafe
<1>13. CASE ExecComTooSmall
  BY <1>13, ExecComTooSmallSafe
<1>14. CASE ExecRuns
  BY <1>14, ExecRunsSafe
<1>15. CASE KeepProgram
  BY <1>15, KeepProgramSafe
<1>16. CASE EndProgram
  BY <1>16, EndProgramSafe
<1>17. QED
  BY <1>1, <1>2, <1>3, <1>4, <1>5, <1>6, <1>7, <1>8, <1>9, <1>10, <1>11,
     <1>12, <1>13, <1>14, <1>15, <1>16 DEF Next

LEMMA MemStutter == ASSUME MemInv, UNCHANGED vars PROVE MemInv'
<1>1. /\ mcb' = mcb /\ uppermem_link' = uppermem_link /\ cu_psp' = cu_psp
      /\ mem_access_mode' = mem_access_mode /\ loader' = loader
      /\ parent' = parent /\ kept' = kept
  BY DEF vars
<1>2. Processes' /\ BlocksInv'
  <2>1. Processes /\ BlocksInv
    BY DEF MemInv
  <2>2. Processes'
    BY <1>1, <2>1 DEF Processes, Line
  <2>3. BlocksInv'
    BY <1>1, <2>1 DEF BlocksInv
  <2>4. QED
    BY <2>2, <2>3
<1>3. TypesInv' /\ LoaderInv' /\ ModesInv'
  BY <1>1 DEF MemInv, TypesInv, LoaderInv, Loose, ModesInv, Idle
<1>4. QED
  BY <1>2, <1>3 DEF MemInv

\* The invariant holds in every state.
THEOREM MemInvariant ==
  ASSUME GarbageNamesNoBlock
  PROVE  Spec => []MemInv
<1>1. Init => MemInv
  BY MemInit
<1>2. MemInv /\ [Next]_vars => MemInv'
  BY MemNext, MemStutter DEF SafeStep
<1>3. QED
  BY <1>1, <1>2, PTL DEF Spec

\* The variables have their types in every state, however many programs load,
\* end and stay resident: the parent of each process has not ended, so that
\* INT 21/4C always returns to a process that is there.
THEOREM TypeCorrect ==
  ASSUME GarbageNamesNoBlock
  PROVE  Spec => []TypeOK
<1>1. MemInv => TypeOK
  <2> SUFFICES ASSUME MemInv PROVE TypeOK
    OBVIOUS
  <2>1. DOMAIN mcb \subseteq Segment /\ mcb \in [DOMAIN mcb -> Block]
    BY DEF MemInv, BlocksInv, Chained, Typed
  <2>2. /\ cu_psp \in DOMAIN parent /\ DOMAIN parent \subseteq Psps
        /\ parent \in [DOMAIN parent -> DOMAIN parent]
    BY ProcessTypes DEF MemInv
  <2>3. QED
    BY <2>1, <2>2 DEF TypeOK, MemInv, TypesInv
<1>2. QED
  BY <1>1, MemInvariant, PTL

\* The blocks tile memory and the marks agree with uppermem_link after any
\* sequence of calls: no allocation, resize, join or link of memmgr.c breaks
\* the chain.
THEOREM ChainKept ==
  ASSUME GarbageNamesNoBlock
  PROVE  Spec => []ChainTiles
<1>1. MemInv => ChainTiles
  BY DEF MemInv, BlocksInv, Chained, ChainTiles
<1>2. QED
  BY <1>1, MemInvariant, PTL

\* Every process that has not ended has the block of its PSP, whatever the
\* others, and the loaders that fail, allocate and free.
THEOREM PspsHeld ==
  ASSUME GarbageNamesNoBlock
  PROVE  Spec => []ProgramsHeld
<1>1. MemInv => ProgramsHeld
  <2> SUFFICES ASSUME MemInv, NEW p \in DOMAIN parent \ {DOS_PSP}
               PROVE  p - 1 \in DOMAIN mcb /\ mcb[p - 1].m_psp = p
    BY DEF ProgramsHeld
  <2>1. BlocksInv /\ Owner(mcb, p - 1) = p
    BY DEF MemInv, BlocksInv
  <2>2. p # FREE_PSP
    BY ProcessTypes, Names DEF MemInv
  <2>3. QED
    BY <2>1, <2>2, OwnedHeader
<1>2. QED
  BY <1>1, MemInvariant, PTL

\* No block is left behind by a process that has ended, unless it was meant
\* to stay.
THEOREM NoBlocksLeft ==
  ASSUME GarbageNamesNoBlock
  PROVE  Spec => []OwnersKnown
<1>1. MemInv => OwnersKnown
  <2> SUFFICES ASSUME MemInv, NEW p \in Allocated(mcb)
               PROVE  mcb[p].m_psp \in {SYSTEM_PSP} \cup DOMAIN parent \cup kept
    BY DEF OwnersKnown
  <2>1. Owner(mcb, p) = mcb[p].m_psp /\ Owner(mcb, p) # FREE_PSP
    BY DEF Allocated, mcbFree, Owner
  <2>2. Owner(mcb, p) \in {FREE_PSP, SYSTEM_PSP} \cup DOMAIN parent \cup kept
    BY DEF MemInv, BlocksInv
  <2>3. QED
    BY <2>1, <2>2
<1>2. QED
  BY <1>1, MemInvariant, PTL

\* No call changes a block of another process, and no loader a block but its
\* own two.
THEOREM OtherBlocksKept ==
  ASSUME GarbageNamesNoBlock
  PROVE  Spec => BlocksKept
<1>1. MemInv /\ [Next]_vars => [BlocksStep]_vars
  BY MemNext DEF SafeStep
<1>2. QED
  BY <1>1, MemInvariant, PTL DEF Spec, BlocksKept, BlocksStep

\* A loader leaves the strategy and the link of its caller as they were, and
\* none of its blocks to it.
THEOREM CallerLeftAlone ==
  ASSUME GarbageNamesNoBlock
  PROVE  Spec => LoaderLeavesCaller
<1>1. MemInv /\ [Next]_vars => [CallerStep]_vars
  BY MemNext DEF SafeStep
<1>2. QED
  BY <1>1, MemInvariant, PTL DEF Spec, LoaderLeavesCaller, CallerStep

\* What a search of some mode sees, in the terms of MemBlocksProofs.
LEMMA SearchedIsFree ==
  ASSUME MemInv, NEW mode \in Modes, OneBit(mode)
  PROVE  Searched(mode) = FreeIn(mcb, LowStart(mode, uppermem_link), uppermem_link)
<1> DEFINE from == LowStart(mode, uppermem_link)
           last == Max(Chain(mcb, from))
<1>1. Chained(mcb, uppermem_link) /\ Begins(from, uppermem_link)
  BY Starts DEF MemInv, BlocksInv, OneBit, LowStart
<1>2. /\ from \in Nat /\ nxtMCB(mcb, last) = EndOf(uppermem_link)
      /\ EndOf(uppermem_link) \in Nat
  BY <1>1, WalkIs
<1>3. Searched(mode) = {x \in from .. nxtMCB(mcb, last) - 1 :
        \E p \in DOMAIN mcb : mcbFree(mcb, p) /\ p <= x /\ x < nxtMCB(mcb, p)}
  BY DEF Searched, LowStart
<1> HIDE DEF from, last
<1>4. \A x : x \in from .. nxtMCB(mcb, last) - 1
               <=> x \in Nat /\ from <= x /\ x < EndOf(uppermem_link)
  BY <1>2
<1>5. QED
  BY <1>3, <1>4 DEF FreeIn, from

\* An allocation succeeds exactly if there is room for it where the strategy
\* looks, in free paragraphs and with the size asked for: for every memory and
\* however it is fragmented, in each mode.
THEOREM AllocationFindsRoom ==
  ASSUME GarbageNamesNoBlock
  PROVE  Spec => []AllocFindsRoom
<1>1. MemInv => AllocFindsRoom
  <2> SUFFICES ASSUME MemInv, NEW mode \in Modes, NEW size \in Sizes \ {0},
                      OneBit(mode)
               PROVE  RoomFound(DosMemAlloc(mcb, size, mode, uppermem_link, DOS_PSP),
                                size, Searched(mode))
    BY DEF AllocFindsRoom
  <2> DEFINE r == DosMemAlloc(mcb, size, mode, uppermem_link, DOS_PSP)
  <2>1. Chained(mcb, uppermem_link) /\ size \in Nat \ {0} /\ DOS_PSP \in Nat
        /\ ~(mode.U /\ mode.UO)
    BY MemSizes, KernelPsps DEF MemInv, BlocksInv, OneBit
  <2>2. Room(r, size, DOS_PSP,
             FreeIn(mcb, LowStart(mode, uppermem_link), uppermem_link))
    BY <2>1, DosMemAllocFinds
  <2>3. Room(r, size, DOS_PSP, Searched(mode))
    BY <2>2, SearchedIsFree
  <2> HIDE DEF r
  <2>4. RoomFound(r, size, Searched(mode))
    BY <2>3 DEF Room, RoomFound, RoomFor
  <2>5. QED
    BY <2>4 DEF r
<1>2. QED
  BY <1>1, MemInvariant, PTL

\* The size that a program is told when it asks for all memory can be had in the
\* next call, and no more than that: for every memory and each mode.
THEOREM LargestIsAvailable ==
  ASSUME GarbageNamesNoBlock
  PROVE  Spec => []LargestAvailable
<1>1. MemInv => LargestAvailable
  <2> SUFFICES ASSUME MemInv, NEW mode \in Modes, OneBit(mode)
               PROVE  Obtainable(DosMemLargest(mcb, mode, uppermem_link), mode)
    BY DEF LargestAvailable
  <2>1. Chained(mcb, uppermem_link) /\ DOS_PSP \in Nat /\ ~(mode.U /\ mode.UO)
    BY KernelPsps DEF MemInv, BlocksInv, OneBit
  <2>2. QED
    BY <2>1, LargestCanBeHad DEF Obtainable
<1>2. QED
  BY <1>1, MemInvariant, PTL
=============================================================================
