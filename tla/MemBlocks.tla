----------------------------- MODULE MemBlocks -----------------------------
(***************************************************************************)
(* The chain of memory blocks of src/kernel/kernel/memmgr.c and the        *)
(* operations on it.  Memory is measured in paragraphs.  A chain is a      *)
(* function from the segments of the block headers (MCBs) to the headers;  *)
(* the block of the header at p takes the paragraphs p+1 .. p+m_size.      *)
(*                                                                         *)
(* Every operation is an operator that takes a chain m and returns the     *)
(* chain it leaves; MemMgr.tla drives them with programs.  A header that   *)
(* joinMCBs has swallowed (m_size = 0xffff in the code) leaves the domain. *)
(* The machine has upper memory: uppermem_root is never 0xffff.            *)
(***************************************************************************)
EXTENDS Integers, FiniteSets, FiniteSetsExt

CONSTANTS
  first_mcb,      \* segment of the first header
  uppermem_root,  \* segment of the header between low and upper memory
  MemTop          \* the first paragraph behind upper memory

ASSUME ChainLayout ==
  /\ first_mcb \in Nat \ {0} /\ uppermem_root \in Nat /\ MemTop \in Nat
  /\ first_mcb < uppermem_root /\ uppermem_root < MemTop

MCB_NORMAL == "M"
MCB_LAST   == "Z"
FREE_PSP   == 0
NoSeg      == 0   \* the null pointer of foundSeg

SYSTEM_PSP == 8   \* the kernel and what start-up has allocated

Segment == first_mcb .. MemTop - 1
Block == [m_type : {MCB_NORMAL, MCB_LAST}, m_psp : Nat, m_size : Nat]

\* mem_access_mode: the strategy proper, and the two bits that send a search
\* to upper memory first (FIRST_FIT_U, 0x80) or only there (FIRST_FIT_UO,
\* 0x40).  A program can set one bit at most, DosExec may add the other one.
FIRST_FIT == "first"
BEST_FIT  == "best"
LAST_FIT  == "last"
Modes == [fit : {FIRST_FIT, BEST_FIT, LAST_FIT}, U : BOOLEAN, UO : BOOLEAN]

mcbFree(m, p) == m[p].m_psp = FREE_PSP

nxtMCB(m, p) == p + m[p].m_size + 1

Allocated(m) == {p \in DOMAIN m : ~mcbFree(m, p)}

\* The headers that a walk along the chain meets, from a header to the first
\* one that is marked as the last.
Chain(m, from) ==
  LET last == Min({p \in DOMAIN m : p >= from /\ m[p].m_type = MCB_LAST})
  IN {p \in DOMAIN m : from <= p /\ p <= last}

\* Mutant: only blocks of the kernel end the loop.
LastJoinedAny(m, p) ==
  Min({q \in DOMAIN m : q >= p /\ (m[q].m_type = MCB_LAST
                                   \/ m[nxtMCB(m, q)].m_psp
                                        = m[first_mcb].m_psp)})

\* The last block that joinMCBs makes one with p: the loop ends at the end of
\* the chain and in front of a block that is in use.
LastJoined(m, p) ==
  Min({q \in DOMAIN m : q >= p /\ (m[q].m_type = MCB_LAST
                                   \/ ~mcbFree(m, nxtMCB(m, q)))})

\* joinMCBs, called for every header of S from the lowest one on.
joinMCBs(m, S) ==
  LET swallowed == UNION {{q \in DOMAIN m : p < q /\ q <= LastJoined(m, p)} :
                          p \in S}
      joined(p) == LET last == LastJoined(m, p)
                   IN [m_type |-> m[last].m_type, m_psp |-> m[p].m_psp,
                       m_size |-> nxtMCB(m, last) - p - 1]
  IN [p \in DOMAIN m \ swallowed |-> IF p \in S THEN joined(p) ELSE m[p]]

\* The block at p becomes two: size paragraphs at p, the rest behind them.
Split(m, p, size, lowpsp, highpsp) ==
  LET q == p + size + 1
  IN [r \in DOMAIN m \cup {q} |->
        CASE r = p -> [m_type |-> MCB_NORMAL, m_psp |-> lowpsp,
                       m_size |-> size]
          [] r = q -> [m_type |-> m[p].m_type, m_psp |-> highpsp,
                       m_size |-> m[p].m_size - size - 1]
          [] OTHER -> m[r]]

-----------------------------------------------------------------------------
(* DosMemAlloc                                                             *)

\* Where a search begins.
StartOf(mode, link) ==
  IF link = 1 /\ (mode.U \/ mode.UO) THEN uppermem_root ELSE first_mcb

\* What the switch of the search makes of the mode: with both bits set it is
\* none of the nine cases, and takes the default one.
FitOf(mode) == IF mode.U /\ mode.UO THEN "default" ELSE mode.fit

FreeBlocks(m, from) == {p \in Chain(m, from) : mcbFree(m, p)}

\* The rule set: which of the blocks that are large enough is taken.
Chosen(m, fits, fit) ==
  CASE fit = FIRST_FIT -> Min(fits)
    [] fit = BEST_FIT  -> Min({p \in fits : \A q \in fits :
                                             m[p].m_size <= m[q].m_size})
    [] OTHER           -> Max(fits)

\* Mutant: the header counts as a paragraph of the block.
FoundShort(m, joined, from, size, fit) ==
  LET fits == {p \in FreeBlocks(joined, from) : joined[p].m_size + 1 >= size}
      seg  == Chosen(joined, fits, fit)
  IN IF fits = {} THEN [mcb |-> joined, seg |-> NoSeg]
                  ELSE [mcb |-> joined, seg |-> seg]

\* The search of the chain m has joined the unused blocks that it meets;
\* FIRST_FIT stops at the block it takes, and leaves those behind it alone.
Found(m, joined, from, size, fit) ==
  LET fits == {p \in FreeBlocks(joined, from) : joined[p].m_size >= size}
      seg  == Chosen(joined, fits, fit)
  IN CASE fits = {} -> [mcb |-> joined, seg |-> NoSeg]
       [] fits # {} /\ fit = FIRST_FIT ->
            [mcb |-> joinMCBs(m, {p \in FreeBlocks(m, from) : p <= seg}),
             seg |-> seg]
       [] OTHER -> [mcb |-> joined, seg |-> seg]

\* One pass of the search.
Search(m, from, size, fit) ==
  Found(m, joinMCBs(m, FreeBlocks(m, from)), from, size, fit)

\* No block fulfils the request.  FIRST_FIT leaves the search before the
\* test for a block without paragraphs.
NoRoom(s, fit) ==
  s.seg = NoSeg \/ (fit # FIRST_FIT /\ s.mcb[s.seg].m_size = 0)

\* The block found goes to psp, cut to the size that was asked for: LAST_FIT
\* takes the end of it, everything else the beginning.
Give(m, found, size, fit, psp) ==
  LET rest == m[found].m_size - size - 1
  IN CASE m[found].m_size = size ->
            [mcb |-> [m EXCEPT ![found].m_psp = psp], seg |-> found]
       [] m[found].m_size # size /\ fit = LAST_FIT ->
            [mcb |-> Split(m, found, rest, FREE_PSP, psp),
             seg |-> found + rest + 1]
       [] OTHER ->
            [mcb |-> Split(m, found, size, psp, FREE_PSP), seg |-> found]

\* The search s has ended.
Taken(s, size, fit, psp) ==
  IF NoRoom(s, fit) THEN [mcb |-> s.mcb, seg |-> NoSeg]
                    ELSE Give(s.mcb, s.seg, size, fit, psp)

\* Mutant: a request that may go to upper memory is not tried in low memory.
SearchOnce(s, size, mode, low, link, psp) ==
  Taken(s, size, FitOf(mode), psp)

\* A search of upper memory that finds nothing goes on with the low one.
SearchAgain(s, size, mode, low, link, psp) ==
  IF NoRoom(s, FitOf(mode)) /\ mode.U /\ link = 1
  THEN Taken(Search(s.mcb, StartOf(low, link), size, FitOf(low)),
             size, FitOf(low), psp)
  ELSE Taken(s, size, FitOf(mode), psp)

\* DosMemAlloc in a mode other than LARGEST, for the process psp: the block
\* is at seg, or seg is NoSeg for DE_NOMEM.
DosMemAlloc(m, size, mode, link, psp) ==
  SearchAgain(Search(m, StartOf(mode, link), size, FitOf(mode)),
              size, mode, [mode EXCEPT !.U = FALSE], link, psp)

\* The largest of the unused blocks, and the first one of that size.
LargestOf(joined, from) ==
  LET free  == FreeBlocks(joined, from)
      sizes == {joined[p].m_size : p \in free}
      size  == IF free = {} THEN 0 ELSE Max(sizes)
  IN [mcb |-> joined, size |-> size,
      seg |-> IF size = 0 THEN NoSeg
              ELSE Min({p \in free : joined[p].m_size = size})]

Largest(m, from) == LargestOf(joinMCBs(m, FreeBlocks(m, from)), from)

\* DosMemAlloc(0, LARGEST): the largest block of the whole chain, whatever
\* the strategy.
TakenWhole(l, psp) ==
  [mcb |-> IF l.seg = NoSeg THEN l.mcb
                            ELSE [l.mcb EXCEPT ![l.seg].m_psp = psp],
   seg |-> l.seg]

DosMemAllocLargest(m, psp) == TakenWhole(Largest(m, first_mcb), psp)

\* A strategy that begins in upper memory goes on in low memory.
LargerOf(high, low) ==
  [mcb |-> low.mcb,
   size |-> IF low.size > high.size THEN low.size ELSE high.size]

\* Mutant: only upper memory is looked at when it is to be tried first.
LowNotToo(high, mode, link) == [mcb |-> high.mcb, size |-> high.size]

LowToo(high, mode, link) ==
  IF mode.U THEN LargerOf(high, Largest(high.mcb, StartOf([mode EXCEPT
                                                     !.U = FALSE], link)))
            ELSE [mcb |-> high.mcb, size |-> high.size]

DosMemLargest(m, mode, link) ==
  LowToo(Largest(m, StartOf(mode, link)), mode, link)

-----------------------------------------------------------------------------
(* DosMemFree, DosMemChange, DosUmbLink, FreeProcessMem, DosMemCheck       *)

\* A header that was swallowed can be freed again, without effect.
DosMemFree(m, seg) ==
  IF seg \in DOMAIN m THEN [m EXCEPT ![seg].m_psp = FREE_PSP] ELSE m

\* Mutant: the block that was the last one stays marked as such.
ResizedLast(m, p, size, psp) ==
  IF size < m[p].m_size
  THEN [Split(m, p, size, psp, FREE_PSP) EXCEPT ![p].m_type = m[p].m_type]
  ELSE [m EXCEPT ![p].m_psp = psp]

\* The block at p gets size paragraphs and belongs to psp.  A block that
\* cannot grow enough keeps what it has grown; one that shrinks leaves the
\* rest to the unused blocks behind it.
Resized(m, p, size, psp) ==
  CASE size > m[p].m_size -> m
    [] size < m[p].m_size ->
         joinMCBs(Split(m, p, size, psp, FREE_PSP), {p + size + 1})
    [] OTHER -> [m EXCEPT ![p].m_psp = psp]

DosMemChange(m, p, size, psp) ==
  Resized(IF size > m[p].m_size THEN joinMCBs(m, {p}) ELSE m, p, size, psp)

\* Upper memory is linked (n = 1) or unlinked (n = 0): the last block of low
\* memory becomes a normal one or the last one.
DosUmbLink(m, link, n) ==
  LET low     == {p \in Chain(m, first_mcb) : p < uppermem_root}
      reached == Max({p \in Chain(m, first_mcb) : p <= uppermem_root})
  IN CASE n > 1 \/ link = n -> [mcb |-> m, link |-> link]
       [] n = 0 /\ link # 0 ->
            [mcb |-> IF reached = uppermem_root
                     THEN [m EXCEPT ![Max(low)].m_type = MCB_LAST]
                     ELSE m,
             link |-> 0]
       [] n = 1 /\ link # 1 ->
            IF m[reached].m_type = MCB_LAST
            THEN [mcb |-> [m EXCEPT ![reached].m_type = MCB_NORMAL],
                  link |-> 1]
            ELSE [mcb |-> m, link |-> link]

\* The end of a process: all its blocks become unused, those in upper memory
\* too, and the link is as before.
FreeBlocksOf(m, ps) ==
  [p \in DOMAIN m |-> IF p \in Chain(m, first_mcb) /\ m[p].m_psp = ps
                      THEN [m[p] EXCEPT !.m_psp = FREE_PSP]
                      ELSE m[p]]

\* Mutant: upper memory is not linked for the walk.
FreeProcessMemLow(m, link, ps) ==
  [mcb |-> FreeBlocksOf(m, ps), link |-> link]

FreeProcessMem(m, link, ps) ==
  DosUmbLink(FreeBlocksOf(DosUmbLink(m, link, 1).mcb, ps), 1, link)

-----------------------------------------------------------------------------
(* What every operation has to keep                                        *)

\* Only the last block of upper memory, and without the link the last one of
\* low memory, is marked as the last.
LastMarks(m, link) ==
  \A p \in DOMAIN m :
    (m[p].m_type = MCB_LAST) <=>
      \/ nxtMCB(m, p) = MemTop
      \/ nxtMCB(m, p) = uppermem_root /\ link = 0

\* The blocks tile memory: each header stands behind the block before it, no
\* block reaches into another one, and nothing is lost.
Tiled(m) ==
  /\ \A p \in {first_mcb, uppermem_root} :
       p \in DOMAIN m /\ m[p].m_psp = SYSTEM_PSP
  /\ \A p \in DOMAIN m : nxtMCB(m, p) \in DOMAIN m \cup {MemTop}
  /\ \A p, q \in DOMAIN m : p < q => nxtMCB(m, p) <= q
=============================================================================
