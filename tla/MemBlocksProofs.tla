-------------------------- MODULE MemBlocksProofs --------------------------
(***************************************************************************)
(* What the operations of MemBlocks keep, for any memory: a chain that     *)
(* tiles it, marks that agree with the link, and the blocks in use.        *)
(***************************************************************************)
EXTENDS MemBlocks, WellFoundedInduction, TLAPS

\* A chain that tiles memory and has its marks in agreement with the link.
Typed(m) ==
  DOMAIN m \subseteq Segment /\ m \in [DOMAIN m -> Block]
Chained(m, link) == Typed(m) /\ Tiled(m) /\ LastMarks(m, link)

\* Who has the block at p, and how large it is.  Everything that is not the
\* header of an allocated block is alike.
Owner(m, p) == IF p \in DOMAIN m THEN m[p].m_psp ELSE FREE_PSP
Extent(m, p) == IF Owner(m, p) = FREE_PSP THEN 0 ELSE m[p].m_size

\* The blocks in use are the same, but for those of S.
SameBut(m, n, S) ==
  \A p : p \notin S => Owner(n, p) = Owner(m, p) /\ Extent(n, p) = Extent(m, p)

-----------------------------------------------------------------------------
(* Lowest and highest elements                                             *)

\* A set of numbers has a lowest element: each loop of memmgr.c that looks for
\* the first header with a property finds it.
LEMMA MinOf ==
  ASSUME NEW S, S \subseteq Nat, S # {}
  PROVE  Min(S) \in S /\ \A y \in S : Min(S) <= y
<1> DEFINE R == {ss \in Nat \X Nat : ss[1] < ss[2]}
<1>1. OpToRel(<, Nat) = R
  BY DEF OpToRel
<1>2. IsWellFoundedOn(R, Nat)
  BY <1>1, NatLessThanWellFounded
<1>3. \A x, y \in Nat : <<x, y>> \in R <=> x < y
  OBVIOUS
<1> HIDE DEF R
<1>4. PICK x \in S : \A y \in S : ~(<<y, x>> \in R)
  BY <1>2, WFMin
<1>5. \A y \in S : x <= y
  <2> TAKE y \in S
  <2>1. x \in Nat /\ y \in Nat
    OBVIOUS
  <2>2. ~(y < x)
    BY <1>3, <1>4, <2>1
  <2> QED
    BY <2>1, <2>2
<1> QED
  BY <1>5 DEF Min

\* A set of numbers with a bound has a highest element.
LEMMA MaxOf ==
  ASSUME NEW S, NEW b \in Nat, S \subseteq 0 .. b, S # {}
  PROVE  Max(S) \in S /\ \A y \in S : Max(S) >= y
<1> DEFINE R == {b - x : x \in S}
<1>0. \A x \in S : x \in 0 .. b /\ b - x \in Nat
  OBVIOUS
<1>1. R \subseteq Nat /\ R # {}
  BY <1>0
<1>2. Min(R) \in R /\ \A y \in R : Min(R) <= y
  BY <1>1, MinOf
<1>3. PICK x \in S : Min(R) = b - x
  BY <1>2
<1>4. \A y \in S : x >= y
  <2> TAKE y \in S
  <2>1. b - x <= b - y
    BY <1>2, <1>3
  <2>2. x \in Int /\ y \in Int /\ b \in Int
    BY <1>0
  <2> HIDE DEF R
  <2> QED
    BY <2>1, <2>2
<1> QED
  BY <1>4 DEF Max

-----------------------------------------------------------------------------
(* Walking along a chain                                                   *)

\* The numbers that belong to a header.
LEMMA Header ==
  ASSUME NEW m, Typed(m), Tiled(m), NEW p \in DOMAIN m
  PROVE  /\ p \in Nat /\ first_mcb <= p /\ p < MemTop /\ p # NoSeg
         /\ m[p] \in Block
         /\ m[p].m_size \in Nat /\ m[p].m_psp \in Nat
         /\ m[p].m_type \in {MCB_NORMAL, MCB_LAST}
         /\ nxtMCB(m, p) = p + m[p].m_size + 1
         /\ nxtMCB(m, p) \in Nat /\ p < nxtMCB(m, p) /\ nxtMCB(m, p) <= MemTop
         /\ nxtMCB(m, p) \in DOMAIN m \cup {MemTop}
         /\ \A q \in DOMAIN m : p < q => nxtMCB(m, p) <= q
         /\ \A q \in DOMAIN m : q < nxtMCB(m, p) => q <= p
<1>1. p \in Nat /\ first_mcb <= p /\ p < MemTop /\ p # NoSeg
  BY ChainLayout DEF Typed, Segment, NoSeg
<1>2. /\ m[p] \in Block /\ m[p].m_size \in Nat /\ m[p].m_psp \in Nat
      /\ m[p].m_type \in {MCB_NORMAL, MCB_LAST}
  BY DEF Typed, Block
<1>3. /\ nxtMCB(m, p) = p + m[p].m_size + 1
      /\ nxtMCB(m, p) \in Nat /\ p < nxtMCB(m, p)
  BY <1>1, <1>2 DEF nxtMCB
<1>4. nxtMCB(m, p) \in DOMAIN m \cup {MemTop}
  BY DEF Tiled
<1>5. nxtMCB(m, p) <= MemTop
  BY <1>3, <1>4, ChainLayout DEF Typed, Segment
<1>6. \A q \in DOMAIN m : p < q => nxtMCB(m, p) <= q
  BY DEF Tiled
<1>7. \A q \in DOMAIN m : q < nxtMCB(m, p) => q <= p
  BY <1>1, <1>3, <1>6, ChainLayout DEF Typed, Segment
<1> QED
  BY <1>1, <1>2, <1>3, <1>4, <1>5, <1>6, <1>7

\* Each header but the first stands behind a block.
LEMMA Predecessor ==
  ASSUME NEW m, Typed(m), Tiled(m), NEW p \in DOMAIN m, NEW q, p < q,
         q \in DOMAIN m \cup {MemTop}
  PROVE  \E r \in DOMAIN m : p <= r /\ r < q /\ nxtMCB(m, r) = q
<1>1. q \in Nat /\ q <= MemTop /\ DOMAIN m \subseteq 0 .. MemTop /\ MemTop \in Nat
  BY ChainLayout DEF Typed, Segment
<1> DEFINE S == {x \in DOMAIN m : x < q}
           r == Max(S)
<1>2. S \subseteq 0 .. MemTop /\ S # {}
  BY <1>1
<1>3. r \in S /\ \A y \in S : r >= y
  BY <1>1, <1>2, MaxOf
<1> HIDE DEF r
<1>4. r \in DOMAIN m /\ r < q /\ p <= r /\ r \in Nat
  BY <1>1, <1>3
<1>5. nxtMCB(m, r) <= q
  <2>1. CASE q \in DOMAIN m
    BY <1>4, <2>1, Header
  <2>2. CASE q = MemTop
    BY <1>4, <2>2, Header
  <2> QED
    BY <2>1, <2>2
<1>6. nxtMCB(m, r) >= q
  <2>1. SUFFICES ASSUME nxtMCB(m, r) < q
                 PROVE  FALSE
    BY <1>1, <1>4, Header
  <2>2. nxtMCB(m, r) \in DOMAIN m
    BY <1>1, <1>4, <2>1, Header
  <2>3. r >= nxtMCB(m, r)
    BY <1>3, <2>1, <2>2
  <2> QED
    BY <1>4, <2>3, Header
<1> QED
  BY <1>1, <1>4, <1>5, <1>6, Header

-----------------------------------------------------------------------------
(* joinMCBs                                                                *)

\* Where the loop of joinMCBs ends for p, and what it has passed by then: only
\* headers of unused blocks.
LEMMA JoinEnds ==
  ASSUME NEW m, NEW link, Chained(m, link), NEW p \in DOMAIN m
  PROVE  /\ LastJoined(m, p) \in DOMAIN m /\ p <= LastJoined(m, p)
         /\ \/ m[LastJoined(m, p)].m_type = MCB_LAST
            \/ ~mcbFree(m, nxtMCB(m, LastJoined(m, p)))
         /\ \A q \in DOMAIN m :
              /\ p <= q
              /\ m[q].m_type = MCB_LAST \/ ~mcbFree(m, nxtMCB(m, q))
              => LastJoined(m, p) <= q
         /\ \A q \in DOMAIN m : p < q /\ q <= LastJoined(m, p) => mcbFree(m, q)
<1> DEFINE Q == {q \in DOMAIN m : q >= p /\ (m[q].m_type = MCB_LAST
                                   \/ ~mcbFree(m, nxtMCB(m, q)))}
<1>1. Typed(m) /\ Tiled(m) /\ LastMarks(m, link)
  BY DEF Chained
<1>2. Q \subseteq Nat
  BY <1>1, ChainLayout DEF Typed, Segment
<1>3. Q # {}
  <2>1. p < MemTop
    BY <1>1, Header
  <2>2. PICK r \in DOMAIN m : p <= r /\ nxtMCB(m, r) = MemTop
    BY <1>1, <2>1, Predecessor
  <2>3. m[r].m_type = MCB_LAST
    BY <1>1, <2>2 DEF LastMarks
  <2>4. r >= p
    BY <1>1, <2>2, Header
  <2> QED
    BY <2>3, <2>4
<1>4. Min(Q) \in Q /\ \A y \in Q : Min(Q) <= y
  BY <1>2, <1>3, MinOf
<1>5. LastJoined(m, p) = Min(Q)
  BY DEF LastJoined
<1> DEFINE last == LastJoined(m, p)
<1>6. last \in Q /\ \A y \in Q : last <= y
  BY <1>4, <1>5
<1> HIDE DEF last
<1>7. last \in DOMAIN m /\ p <= last
  BY <1>1, <1>6, Header
<1>8. \A q \in DOMAIN m :
        p <= q /\ (m[q].m_type = MCB_LAST \/ ~mcbFree(m, nxtMCB(m, q)))
        => last <= q
  <2> SUFFICES ASSUME NEW q \in DOMAIN m, p <= q,
                      m[q].m_type = MCB_LAST \/ ~mcbFree(m, nxtMCB(m, q))
               PROVE  last <= q
    OBVIOUS
  <2>1. q >= p
    BY <1>1, Header
  <2> QED
    BY <1>6, <2>1
<1>9. ASSUME NEW q \in DOMAIN m, p < q, q <= last
      PROVE  mcbFree(m, q)
  <2>1. PICK r \in DOMAIN m : p <= r /\ r < q /\ nxtMCB(m, r) = q
    BY <1>1, <1>9, Predecessor
  <2>2. r \in Nat /\ q \in Nat /\ last \in Nat
    BY <1>1, <1>7, Header
  <2>3. ~(last <= r)
    BY <1>9, <2>1, <2>2
  <2> QED
    BY <1>8, <2>1, <2>3
<1>10. m[last].m_type = MCB_LAST \/ ~mcbFree(m, nxtMCB(m, last))
  BY <1>6
<1> QED
  BY <1>7, <1>8, <1>9, <1>10 DEF last

\* What joinMCBs leaves of each header.
LEMMA JoinedAt ==
  ASSUME NEW m, NEW S
  PROVE  /\ DOMAIN joinMCBs(m, S) \subseteq DOMAIN m
         /\ \A p \in DOMAIN m :
              p \in DOMAIN joinMCBs(m, S) <=>
                \A s \in S : ~(s < p /\ p <= LastJoined(m, s))
         /\ \A p \in DOMAIN joinMCBs(m, S) :
              joinMCBs(m, S)[p] =
                IF p \in S
                THEN [m_type |-> m[LastJoined(m, p)].m_type,
                      m_psp |-> m[p].m_psp,
                      m_size |-> nxtMCB(m, LastJoined(m, p)) - p - 1]
                ELSE m[p]
  BY DEF joinMCBs

\* joinMCBs keeps a chain and the blocks in use, whatever headers it is called
\* for; those that are in use themselves may grow.
LEMMA JoinKeeps ==
  ASSUME NEW m, NEW link, Chained(m, link), NEW S \in SUBSET DOMAIN m
  PROVE  /\ Chained(joinMCBs(m, S), link)
         /\ SameBut(m, joinMCBs(m, S), {p \in S : ~mcbFree(m, p)})
         /\ \A p : Owner(joinMCBs(m, S), p) = Owner(m, p)
<1> DEFINE n == joinMCBs(m, S)
           L(p) == LastJoined(m, p)
<1>1. Typed(m) /\ Tiled(m) /\ LastMarks(m, link)
  BY DEF Chained
<1>2. \A s \in S : /\ L(s) \in DOMAIN m /\ s <= L(s)
                   /\ m[L(s)].m_type = MCB_LAST \/ ~mcbFree(m, nxtMCB(m, L(s)))
                   /\ \A q \in DOMAIN m : s < q /\ q <= L(s) => mcbFree(m, q)
  BY JoinEnds
<1>3. \A s \in S, q \in DOMAIN m :
        s <= q /\ (m[q].m_type = MCB_LAST \/ ~mcbFree(m, nxtMCB(m, q)))
        => L(s) <= q
  BY JoinEnds
<1>4. DOMAIN n \subseteq DOMAIN m
  BY JoinedAt
<1>5. \A p \in DOMAIN m :
        p \in DOMAIN n <=> \A s \in S : ~(s < p /\ p <= L(s))
  BY JoinedAt
<1>6. \A p \in DOMAIN n :
        n[p] = IF p \in S THEN [m_type |-> m[L(p)].m_type, m_psp |-> m[p].m_psp,
                                m_size |-> nxtMCB(m, L(p)) - p - 1]
                          ELSE m[p]
  BY JoinedAt
<1> HIDE DEF n, L
<1>7. \A p \in DOMAIN m : ~mcbFree(m, p) => p \in DOMAIN n
  BY <1>2, <1>5
<1>8. ASSUME NEW p \in DOMAIN n, p \in S
      PROVE  /\ n[p] \in Block /\ n[p].m_psp = m[p].m_psp
             /\ n[p].m_type = m[L(p)].m_type
             /\ nxtMCB(n, p) = nxtMCB(m, L(p))
  <2>1. n[p] = [m_type |-> m[L(p)].m_type, m_psp |-> m[p].m_psp,
                m_size |-> nxtMCB(m, L(p)) - p - 1]
    BY <1>6, <1>8
  <2>2. p \in Nat /\ m[p].m_psp \in Nat
    BY <1>1, <1>4, Header
  <2>3. /\ m[L(p)].m_type \in {MCB_NORMAL, MCB_LAST}
        /\ L(p) \in Nat /\ nxtMCB(m, L(p)) \in Nat /\ L(p) < nxtMCB(m, L(p))
        /\ p <= L(p)
    BY <1>1, <1>2, <1>8, Header
  <2>4. nxtMCB(m, L(p)) - p - 1 \in Nat
    BY <2>2, <2>3
  <2>5. n[p].m_size = nxtMCB(m, L(p)) - p - 1
    BY <2>1
  <2>6. nxtMCB(n, p) = nxtMCB(m, L(p))
    BY <2>2, <2>3, <2>5 DEF nxtMCB
  <2> QED
    BY <2>1, <2>2, <2>3, <2>4, <2>6 DEF Block
<1>9. ASSUME NEW p \in DOMAIN n, p \notin S
      PROVE  n[p] = m[p] /\ n[p] \in Block /\ nxtMCB(n, p) = nxtMCB(m, p)
  BY <1>1, <1>4, <1>6, <1>9, Header DEF nxtMCB
<1>10. Typed(n)
  <2>1. \A p \in DOMAIN n : n[p] \in Block
    BY <1>8, <1>9
  <2>2. n \in [DOMAIN n -> Block]
    BY <2>1 DEF n, joinMCBs
  <2> QED
    BY <1>1, <1>4, <2>2 DEF Typed
<1>11. \A p \in DOMAIN n : n[p].m_psp = m[p].m_psp
  BY <1>8, <1>9
<1>12. \A p : Owner(n, p) = Owner(m, p)
  BY <1>4, <1>7, <1>11 DEF Owner, mcbFree
<1>13. ASSUME NEW p \in DOMAIN n, nxtMCB(n, p) # MemTop
       PROVE  nxtMCB(n, p) \in DOMAIN n
  <2>1. PICK e \in DOMAIN m : /\ p <= e /\ nxtMCB(n, p) = nxtMCB(m, e)
                             /\ e = IF p \in S THEN L(p) ELSE p
    <3>1. CASE p \in S
      BY <1>2, <1>8, <3>1
    <3>2. CASE p \notin S
      BY <1>1, <1>4, <1>9, <3>2, Header
    <3> QED
      BY <3>1, <3>2
  <2>2. nxtMCB(m, e) \in DOMAIN m
    BY <1>1, <1>13, <2>1, Header
  <2>3. SUFFICES ASSUME NEW s \in S, s < nxtMCB(m, e), nxtMCB(m, e) <= L(s)
                 PROVE  FALSE
    BY <1>5, <2>1, <2>2
  <2>4. s <= e
    BY <1>1, <2>3, Header
  <2>5. e < L(s)
    BY <1>1, <1>2, <2>3, Header
  <2>6. CASE p \in S
    BY <1>1, <1>2, <1>3, <2>1, <2>4, <2>5, <2>6, Header
  <2>7. CASE p \notin S
    <3>1. e = p /\ s # p
      BY <2>1, <2>7
    <3>2. s < p /\ p <= L(s)
      BY <1>1, <1>2, <1>4, <2>4, <2>5, <3>1, Header
    <3> QED
      BY <1>4, <1>5, <3>2
  <2> QED
    BY <2>6, <2>7
<1>14. ASSUME NEW p \in DOMAIN n, NEW q \in DOMAIN n, p < q
       PROVE  nxtMCB(n, p) <= q
  <2>1. CASE p \in S
    <3>1. ~(q <= L(p))
      BY <1>4, <1>5, <1>14, <2>1
    <3>2. L(p) < q
      BY <1>1, <1>2, <1>4, <2>1, <3>1, Header
    <3> QED
      BY <1>1, <1>2, <1>4, <1>8, <2>1, <3>2, Header
  <2>2. CASE p \notin S
    BY <1>1, <1>4, <1>9, <1>14, <2>2, Header
  <2> QED
    BY <2>1, <2>2
<1>15. Tiled(n)
  <2>1. \A p \in {first_mcb, uppermem_root} :
          p \in DOMAIN n /\ n[p].m_psp = SYSTEM_PSP
    BY <1>1, <1>7, <1>11 DEF Tiled, mcbFree, FREE_PSP, SYSTEM_PSP
  <2> QED
    BY <1>13, <1>14, <2>1 DEF Tiled
<1>16. LastMarks(n, link)
  <2> SUFFICES ASSUME NEW p \in DOMAIN n
               PROVE  (n[p].m_type = MCB_LAST) <=>
                        \/ nxtMCB(n, p) = MemTop
                        \/ nxtMCB(n, p) = uppermem_root /\ link = 0
    BY DEF LastMarks
  <2>1. CASE p \in S
    BY <1>1, <1>2, <1>8, <2>1 DEF LastMarks
  <2>2. CASE p \notin S
    BY <1>1, <1>4, <1>9, <2>2 DEF LastMarks
  <2> QED
    BY <2>1, <2>2
<1>17. SameBut(m, n, {p \in S : ~mcbFree(m, p)})
  <2> SUFFICES ASSUME NEW p, p \notin {s \in S : ~mcbFree(m, s)}
               PROVE  Extent(n, p) = Extent(m, p)
    BY <1>12 DEF SameBut
  <2>1. CASE Owner(m, p) = FREE_PSP
    BY <1>12, <2>1 DEF Extent
  <2>2. CASE Owner(m, p) # FREE_PSP
    <3>1. p \in DOMAIN m /\ ~mcbFree(m, p) /\ p \notin S
      BY <2>2 DEF Owner, mcbFree
    <3>2. p \in DOMAIN n /\ n[p] = m[p]
      BY <1>7, <1>9, <3>1
    <3> QED
      BY <1>12, <3>2 DEF Extent
  <2> QED
    BY <2>1, <2>2
<1> QED
  BY <1>10, <1>12, <1>15, <1>16, <1>17 DEF Chained, n

-----------------------------------------------------------------------------
(* Splits, and changes of the owner                                        *)

\* What a split leaves: the chain and the other blocks, the two parts with
\* their owners, and a header where there was none.
SplitDone(m, n, p, q, size, lowpsp, highpsp, link) ==
  /\ Chained(n, link) /\ SameBut(m, n, {p, q})
  /\ p < q /\ q \notin DOMAIN m /\ q \in DOMAIN n /\ q \in Segment
  /\ p \in DOMAIN n
  /\ n[p].m_psp = lowpsp /\ n[p].m_size = size
  /\ n[q].m_psp = highpsp /\ n[q].m_size = m[p].m_size - size - 1

\* A split keeps the chain: the new header lies in the block, in front of what
\* was behind it, and inherits the mark.
LEMMA SplitKeeps ==
  ASSUME NEW m, NEW link, Chained(m, link), NEW p \in DOMAIN m,
         m[p].m_psp # SYSTEM_PSP, NEW size \in Nat, size < m[p].m_size,
         NEW lowpsp \in Nat, NEW highpsp \in Nat
  PROVE  SplitDone(m, Split(m, p, size, lowpsp, highpsp), p, p + size + 1, size,
                   lowpsp, highpsp, link)
<1> DEFINE q == p + size + 1
           n == Split(m, p, size, lowpsp, highpsp)
<1>a. q = p + size + 1 /\ n = Split(m, p, size, lowpsp, highpsp)
  OBVIOUS
<1> SUFFICES SplitDone(m, n, p, q, size, lowpsp, highpsp, link)
  OBVIOUS
<1> HIDE DEF q, n
<1>1. Typed(m) /\ Tiled(m) /\ LastMarks(m, link)
  BY DEF Chained
<1>2. /\ p \in Nat /\ first_mcb <= p /\ p < MemTop
      /\ m[p].m_size \in Nat /\ m[p].m_type \in {MCB_NORMAL, MCB_LAST}
      /\ nxtMCB(m, p) = p + m[p].m_size + 1 /\ nxtMCB(m, p) <= MemTop
      /\ nxtMCB(m, p) \in DOMAIN m \cup {MemTop}
      /\ \A r \in DOMAIN m : p < r => nxtMCB(m, p) <= r
  BY <1>1, Header
<1>3. q \in Nat /\ p < q /\ q < nxtMCB(m, p) /\ q \in Segment
  BY <1>a, <1>2, ChainLayout DEF Segment
<1>4. q \notin DOMAIN m
  <2>1. SUFFICES ASSUME q \in DOMAIN m
                 PROVE  FALSE
    OBVIOUS
  <2>2. nxtMCB(m, p) <= q
    BY <1>2, <1>3, <2>1
  <2>3. nxtMCB(m, p) \in Nat
    BY <1>1, Header
  <2> QED
    BY <1>3, <2>2, <2>3
<1>5. DOMAIN n = DOMAIN m \cup {q}
  BY <1>a DEF Split
<1>6. n[p] = [m_type |-> MCB_NORMAL, m_psp |-> lowpsp, m_size |-> size]
  BY <1>a, <1>2, <1>3, <1>5 DEF Split
<1>7. n[q] = [m_type |-> m[p].m_type, m_psp |-> highpsp,
              m_size |-> m[p].m_size - size - 1]
  BY <1>a, <1>3, <1>5 DEF Split
<1>8. \A r \in DOMAIN m \ {p} : n[r] = m[r] /\ nxtMCB(n, r) = nxtMCB(m, r)
  <2>1. \A r \in DOMAIN m \ {p} : n[r] = m[r]
    BY <1>a, <1>4, <1>5 DEF Split
  <2> QED
    BY <2>1 DEF nxtMCB
<1>9. nxtMCB(n, p) = q /\ nxtMCB(n, q) = nxtMCB(m, p)
  <2>1. n[p].m_size = size /\ n[q].m_size = m[p].m_size - size - 1
    BY <1>6, <1>7
  <2> QED
    BY <1>a, <1>2, <1>3, <2>1 DEF nxtMCB
<1>10. Typed(n)
  <2>1. DOMAIN n \subseteq Segment
    BY <1>1, <1>3, <1>5 DEF Typed
  <2>2. n[p] \in Block
    BY <1>6 DEF Block
  <2>3. n[q] \in Block
    <3>1. m[p].m_size - size - 1 \in Nat
      BY <1>2
    <3> QED
      BY <1>2, <1>7, <3>1 DEF Block
  <2>4. \A r \in DOMAIN n : n[r] \in Block
    BY <1>1, <1>5, <1>8, <2>2, <2>3, Header
  <2>5. n = [r \in DOMAIN n |-> n[r]]
    BY <1>a, <1>5 DEF Split
  <2> QED
    BY <2>1, <2>4, <2>5 DEF Typed
<1>11. Tiled(n)
  <2>1. \A r \in {first_mcb, uppermem_root} :
          r \in DOMAIN n /\ n[r].m_psp = SYSTEM_PSP
    BY <1>1, <1>5, <1>8 DEF Tiled
  <2>2. \A r \in DOMAIN n : nxtMCB(n, r) \in DOMAIN n \cup {MemTop}
    BY <1>1, <1>2, <1>5, <1>8, <1>9, Header
  <2>3. ASSUME NEW r \in DOMAIN n, NEW t \in DOMAIN n, r < t
        PROVE  nxtMCB(n, r) <= t
    <3>1. CASE r \notin {p, q} /\ t # q
      BY <1>1, <1>5, <1>8, <2>3, <3>1, Header
    <3>2. CASE r \notin {p, q} /\ t = q
      <4>1. r \in DOMAIN m /\ r < nxtMCB(m, p) /\ r # p
        BY <1>1, <1>3, <1>5, <2>3, <3>2, Header
      <4>a. r <= p /\ r \in Nat
        BY <1>1, <4>1, Header
      <4>2. r < p
        BY <1>2, <4>1, <4>a
      <4> QED
        BY <1>1, <1>2, <1>3, <1>8, <3>2, <4>1, <4>2, Header
    <3>3. CASE r = p
      <4>1. CASE t = q
        BY <1>3, <1>9, <3>3, <4>1
      <4>2. CASE t # q
        <5>1. t \in DOMAIN m /\ p < t
          BY <1>5, <2>3, <3>3, <4>2
        <5>2. nxtMCB(m, p) <= t /\ t \in Nat /\ nxtMCB(m, p) \in Nat
          BY <1>1, <1>2, <5>1, Header
        <5> QED
          BY <1>3, <1>9, <3>3, <5>2
      <4> QED
        BY <4>1, <4>2
    <3>4. CASE r = q
      <4>1. t \in DOMAIN m /\ p < t
        BY <1>1, <1>2, <1>3, <1>5, <2>3, <3>4, Header
      <4> QED
        BY <1>2, <1>9, <3>4, <4>1
    <3> QED
      BY <3>1, <3>2, <3>3, <3>4
  <2> QED
    BY <2>1, <2>2, <2>3 DEF Tiled
<1>12. LastMarks(n, link)
  <2> SUFFICES ASSUME NEW r \in DOMAIN n
               PROVE  (n[r].m_type = MCB_LAST) <=>
                        \/ nxtMCB(n, r) = MemTop
                        \/ nxtMCB(n, r) = uppermem_root /\ link = 0
    BY DEF LastMarks
  <2>1. CASE r = p
    <3>1. q # MemTop
      BY <1>2, <1>3, ChainLayout
    <3>2. q # uppermem_root
      BY <1>1, <1>4 DEF Tiled
    <3>3. n[p].m_type # MCB_LAST
      BY <1>6 DEF MCB_NORMAL, MCB_LAST
    <3> QED
      BY <1>9, <2>1, <3>1, <3>2, <3>3
  <2>2. CASE r = q
    BY <1>1, <1>7, <1>9, <2>2 DEF LastMarks
  <2>3. CASE r \notin {p, q}
    BY <1>1, <1>5, <1>8, <2>3 DEF LastMarks
  <2> QED
    BY <2>1, <2>2, <2>3
<1>13. SameBut(m, n, {p, q})
  <2> SUFFICES ASSUME NEW r, r \notin {p, q}
               PROVE  Owner(n, r) = Owner(m, r) /\ Extent(n, r) = Extent(m, r)
    BY DEF SameBut
  <2>1. CASE r \in DOMAIN m
    BY <1>5, <1>8, <2>1 DEF Owner, Extent
  <2>2. CASE r \notin DOMAIN m
    BY <1>5, <2>2 DEF Owner, Extent
  <2> QED
    BY <2>1, <2>2
<1> QED
  BY <1>3, <1>4, <1>5, <1>6, <1>7, <1>10, <1>11, <1>12, <1>13
  DEF Chained, SplitDone

\* A change of the owner of a block keeps the chain, unless the block is the
\* kernel's.
LEMMA OwnerChange ==
  ASSUME NEW m, NEW link, Chained(m, link), NEW p \in DOMAIN m,
         m[p].m_psp # SYSTEM_PSP, NEW psp \in Nat,
         NEW n, n = [m EXCEPT ![p].m_psp = psp]
  PROVE  /\ Chained(n, link) /\ SameBut(m, n, {p})
         /\ DOMAIN n = DOMAIN m
         /\ n[p].m_psp = psp /\ n[p].m_size = m[p].m_size
         /\ n[p].m_type = m[p].m_type
         /\ \A r \in DOMAIN m : r # p => n[r] = m[r]
<1>1. Typed(m) /\ Tiled(m) /\ LastMarks(m, link)
  BY DEF Chained
<1>2. DOMAIN n = DOMAIN m
  OBVIOUS
<1>3. m[p] \in Block
  BY <1>1, Header
<1>4. n[p] = [m[p] EXCEPT !.m_psp = psp]
  OBVIOUS
<1>5. n[p] \in Block /\ n[p].m_psp = psp
      /\ n[p].m_size = m[p].m_size /\ n[p].m_type = m[p].m_type
  BY <1>3, <1>4 DEF Block
<1>6. \A r \in DOMAIN m : r # p => n[r] = m[r]
  OBVIOUS
<1>7. Typed(n)
  <2>1. \A r \in DOMAIN m : m[r] \in Block
    BY <1>1 DEF Typed
  <2>2. \A r \in DOMAIN n : n[r] \in Block
    BY <1>2, <1>5, <1>6, <2>1
  <2>3. n = [r \in DOMAIN n |-> n[r]]
    OBVIOUS
  <2> QED
    BY <1>1, <1>2, <2>2, <2>3 DEF Typed
<1>8. \A r \in DOMAIN n : nxtMCB(n, r) = nxtMCB(m, r) /\ n[r].m_type = m[r].m_type
  BY <1>5, <1>6 DEF nxtMCB
<1>9. Tiled(n)
  BY <1>1, <1>2, <1>6, <1>8 DEF Tiled
<1>10. LastMarks(n, link)
  BY <1>1, <1>2, <1>8 DEF LastMarks
<1>11. SameBut(m, n, {p})
  BY <1>2, <1>6 DEF SameBut, Owner, Extent
<1> QED
  BY <1>2, <1>5, <1>6, <1>7, <1>9, <1>10, <1>11 DEF Chained

-----------------------------------------------------------------------------
(* DosMemAlloc                                                             *)

\* The search s of m has kept the chain and the blocks in use, and has found
\* an unused block of at least size paragraphs, or none.
SearchOf(m, s, size, link) ==
  /\ Chained(s.mcb, link) /\ SameBut(m, s.mcb, {})
  /\ s.seg # NoSeg =>
       /\ s.seg \in DOMAIN s.mcb /\ mcbFree(s.mcb, s.seg)
       /\ s.mcb[s.seg].m_size >= size

\* The allocation r of m has kept the chain and the blocks in use, and psp has
\* got a block that was not in use, or nothing.
AllocationOf(m, r, psp, link) ==
  /\ Chained(r.mcb, link) /\ SameBut(m, r.mcb, {r.seg})
  /\ Owner(m, r.seg) = FREE_PSP
  /\ r.seg = NoSeg \/ r.seg \in DOMAIN r.mcb
  /\ Owner(r.mcb, r.seg) = IF r.seg = NoSeg THEN FREE_PSP ELSE psp

\* Nothing is at segment 0.
LEMMA NothingAtNoSeg ==
  ASSUME NEW m, NEW link, Chained(m, link)
  PROVE  Owner(m, NoSeg) = FREE_PSP /\ Extent(m, NoSeg) = 0
  BY Header DEF Chained, Owner, Extent

\* Blocks that are kept twice are kept.
LEMMA SameAgain ==
  ASSUME NEW m, NEW n, NEW k, NEW S, SameBut(m, n, {}), SameBut(n, k, S)
  PROVE  SameBut(m, k, S)
  BY DEF SameBut

\* The rule set takes one of the blocks that fit.
LEMMA ChosenFits ==
  ASSUME NEW m, NEW link, Chained(m, link), NEW fits \in SUBSET DOMAIN m,
         fits # {}, NEW fit
  PROVE  Chosen(m, fits, fit) \in fits
<1>1. Typed(m) /\ Tiled(m)
  BY DEF Chained
<1>2. fits \subseteq Nat /\ MemTop \in Nat /\ fits \subseteq 0 .. MemTop
  BY <1>1, ChainLayout DEF Typed, Segment
<1>3. Min(fits) \in fits /\ Max(fits) \in fits
  BY <1>2, MinOf, MaxOf
<1> DEFINE best == {p \in fits : \A q \in fits : m[p].m_size <= m[q].m_size}
<1>4. Min(best) \in fits
  <2> DEFINE sizes == {m[p].m_size : p \in fits}
  <2>1. sizes \subseteq Nat /\ sizes # {}
    BY <1>1, Header
  <2>2. Min(sizes) \in sizes /\ \A x \in sizes : Min(sizes) <= x
    BY <2>1, MinOf
  <2>3. PICK p \in fits : m[p].m_size = Min(sizes)
    BY <2>2
  <2>4. \A q \in fits : m[p].m_size <= m[q].m_size
    BY <2>2, <2>3
  <2>5. best # {} /\ best \subseteq Nat
    BY <1>2, <2>4
  <2>6. Min(best) \in best
    BY <2>5, MinOf
  <2> QED
    BY <2>6
<1>5. CASE fit = FIRST_FIT
  BY <1>3, <1>5 DEF Chosen, FIRST_FIT, BEST_FIT
<1>6. CASE fit = BEST_FIT
  BY <1>4, <1>6 DEF Chosen, FIRST_FIT, BEST_FIT
<1>7. CASE fit \notin {FIRST_FIT, BEST_FIT}
  BY <1>3, <1>7 DEF Chosen
<1> QED
  BY <1>5, <1>6, <1>7

\* One pass of the search.  The block that FIRST_FIT stops at is as large as
\* if the blocks behind it had been joined too.
LEMMA SearchFinds ==
  ASSUME NEW m, NEW link, Chained(m, link), NEW from, NEW size \in Nat, NEW fit
  PROVE  SearchOf(m, Search(m, from, size, fit), size, link)
<1> DEFINE free == FreeBlocks(m, from)
           joined == joinMCBs(m, free)
           fits == {p \in FreeBlocks(joined, from) : joined[p].m_size >= size}
           seg == Chosen(joined, fits, fit)
           early == {p \in free : p <= seg}
           joinedEarly == joinMCBs(m, early)
           s == Search(m, from, size, fit)
<1>1. free \subseteq DOMAIN m /\ \A p \in free : mcbFree(m, p)
  BY DEF FreeBlocks, Chain
<1>2. \A S \in SUBSET free :
        /\ Chained(joinMCBs(m, S), link) /\ SameBut(m, joinMCBs(m, S), {})
        /\ \A p : Owner(joinMCBs(m, S), p) = Owner(m, p)
  <2> TAKE S \in SUBSET free
  <2>1. S \in SUBSET DOMAIN m /\ {p \in S : ~mcbFree(m, p)} = {}
    BY <1>1
  <2> QED
    BY <2>1, JoinKeeps
<1>3. /\ Chained(joined, link) /\ SameBut(m, joined, {})
      /\ Chained(joinedEarly, link) /\ SameBut(m, joinedEarly, {})
      /\ \A p : Owner(joinedEarly, p) = Owner(m, p)
  BY <1>2
<1>4. fits \in SUBSET DOMAIN joined /\ \A p \in fits : mcbFree(joined, p)
  BY DEF FreeBlocks, Chain
<1>5. s = CASE fits = {} -> [mcb |-> joined, seg |-> NoSeg]
            [] fits # {} /\ fit = FIRST_FIT -> [mcb |-> joinedEarly, seg |-> seg]
            [] OTHER -> [mcb |-> joined, seg |-> seg]
  BY DEF Search, Found
<1>6. fits # {} => seg \in fits
  BY <1>3, <1>4, ChosenFits
<1>7. \A p \in DOMAIN joined :
        /\ p \in DOMAIN m /\ \A t \in free : ~(t < p /\ p <= LastJoined(m, t))
        /\ joined[p] = IF p \in free
                       THEN [m_type |-> m[LastJoined(m, p)].m_type,
                             m_psp |-> m[p].m_psp,
                             m_size |-> nxtMCB(m, LastJoined(m, p)) - p - 1]
                       ELSE m[p]
  BY JoinedAt
<1>8. \A p \in DOMAIN m :
        p \in DOMAIN joinedEarly <=>
          \A t \in early : ~(t < p /\ p <= LastJoined(m, t))
  BY JoinedAt
<1>9. \A p \in DOMAIN joinedEarly :
        joinedEarly[p] = IF p \in early
                         THEN [m_type |-> m[LastJoined(m, p)].m_type,
                               m_psp |-> m[p].m_psp,
                               m_size |-> nxtMCB(m, LastJoined(m, p)) - p - 1]
                         ELSE m[p]
  BY JoinedAt
<1> SUFFICES SearchOf(m, s, size, link)
  OBVIOUS
<1>10. early \subseteq free /\ (seg <= seg /\ seg \in free => seg \in early)
  OBVIOUS
<1>11. fits # {} => seg \in DOMAIN joined /\ mcbFree(joined, seg)
                   /\ joined[seg].m_size >= size
  BY <1>4, <1>6
<1> HIDE DEF joined, joinedEarly, fits, seg, s, early, free
<1>12. ASSUME fits # {}
       PROVE  /\ seg \in DOMAIN joinedEarly /\ mcbFree(joinedEarly, seg)
              /\ joinedEarly[seg].m_size >= size
  <2>1. seg \in DOMAIN m /\ seg <= seg
    BY <1>3, <1>11, <1>12, <1>7, Header DEF Chained
  <2>2. seg \in DOMAIN joinedEarly
    BY <1>7, <1>8, <1>10, <1>11, <1>12, <2>1
  <2>3. joinedEarly[seg] = joined[seg]
    BY <1>7, <1>9, <1>10, <1>11, <1>12, <2>1, <2>2
  <2> QED
    BY <1>11, <1>12, <2>2, <2>3 DEF mcbFree
<1>13. CASE fits = {}
  BY <1>3, <1>5, <1>13 DEF SearchOf, NoSeg
<1>14. CASE fits # {} /\ fit = FIRST_FIT
  <2>1. s = [mcb |-> joinedEarly, seg |-> seg]
    BY <1>5, <1>14
  <2> QED
    BY <1>3, <1>12, <1>14, <2>1 DEF SearchOf
<1>15. CASE fits # {} /\ fit # FIRST_FIT
  <2>1. s = [mcb |-> joined, seg |-> seg]
    BY <1>5, <1>15
  <2> QED
    BY <1>3, <1>11, <1>15, <2>1 DEF SearchOf
<1> QED
  BY <1>13, <1>14, <1>15

\* The block that was found goes to psp, whole or cut, from either end.
LEMMA GiveTakes ==
  ASSUME NEW m, NEW link, Chained(m, link), NEW found \in DOMAIN m,
         mcbFree(m, found), NEW size \in Nat, m[found].m_size >= size,
         NEW fit, NEW psp \in Nat
  PROVE  AllocationOf(m, Give(m, found, size, fit, psp), psp, link)
<1> DEFINE r == Give(m, found, size, fit, psp)
           rest == m[found].m_size - size - 1
<1>1. /\ found \in Nat /\ found # NoSeg /\ m[found].m_size \in Nat
      /\ m[found].m_psp = FREE_PSP /\ m[found].m_psp # SYSTEM_PSP
      /\ Owner(m, found) = FREE_PSP /\ Extent(m, found) = 0
      /\ FREE_PSP \in Nat
  BY Header DEF Chained, mcbFree, FREE_PSP, SYSTEM_PSP, Owner, Extent
<1>2. CASE m[found].m_size = size
  <2> DEFINE n == [m EXCEPT ![found].m_psp = psp]
  <2>1. r = [mcb |-> n, seg |-> found]
    BY <1>2 DEF Give
  <2>2. Chained(n, link) /\ SameBut(m, n, {found}) /\ DOMAIN n = DOMAIN m
        /\ n[found].m_psp = psp
    BY <1>1, OwnerChange
  <2> HIDE DEF n
  <2> QED
    BY <1>1, <2>1, <2>2 DEF AllocationOf, Owner
<1>3. CASE m[found].m_size # size /\ fit = LAST_FIT
  <2> DEFINE q == found + rest + 1
             n == Split(m, found, rest, FREE_PSP, psp)
  <2>1. r = [mcb |-> n, seg |-> q]
    BY <1>3 DEF Give
  <2>2. rest \in Nat /\ rest < m[found].m_size
    BY <1>1, <1>3
  <2>a. SplitDone(m, n, found, q, rest, FREE_PSP, psp, link)
    BY <1>1, <2>2, SplitKeeps
  <2> HIDE DEF rest, n, q
  <2>3. /\ Chained(n, link) /\ SameBut(m, n, {found, q})
        /\ q \notin DOMAIN m /\ q \in DOMAIN n /\ found \in DOMAIN n
        /\ n[found].m_psp = FREE_PSP /\ n[q].m_psp = psp
    BY <2>a DEF SplitDone
  <2>4. q # NoSeg
    BY <2>3, Header DEF Chained
  <2>5. Owner(n, found) = FREE_PSP /\ Extent(n, found) = 0
    BY <2>3 DEF Owner, Extent
  <2>6. SameBut(m, n, {q})
    BY <1>1, <2>3, <2>5 DEF SameBut
  <2> QED
    BY <2>1, <2>3, <2>4, <2>6 DEF AllocationOf, Owner
<1>4. CASE m[found].m_size # size /\ fit # LAST_FIT
  <2> DEFINE q == found + size + 1
             n == Split(m, found, size, psp, FREE_PSP)
  <2>1. r = [mcb |-> n, seg |-> found]
    BY <1>4 DEF Give
  <2>2. size < m[found].m_size
    BY <1>1, <1>4
  <2>a. SplitDone(m, n, found, q, size, psp, FREE_PSP, link)
    BY <1>1, <2>2, SplitKeeps
  <2> HIDE DEF n, q
  <2>3. /\ Chained(n, link) /\ SameBut(m, n, {found, q})
        /\ q \notin DOMAIN m /\ q \in DOMAIN n /\ found \in DOMAIN n
        /\ n[found].m_psp = psp /\ n[q].m_psp = FREE_PSP
    BY <2>a DEF SplitDone
  <2>4. /\ Owner(m, q) = FREE_PSP /\ Extent(m, q) = 0
        /\ Owner(n, q) = FREE_PSP /\ Extent(n, q) = 0
    BY <2>3 DEF Owner, Extent
  <2>5. SameBut(m, n, {found})
    BY <2>3, <2>4 DEF SameBut
  <2> QED
    BY <1>1, <2>1, <2>3, <2>5 DEF AllocationOf, Owner
<1> QED
  BY <1>2, <1>3, <1>4

\* The end of a search.
LEMMA TakenTakes ==
  ASSUME NEW m, NEW s, NEW link, NEW size \in Nat, SearchOf(m, s, size, link),
         NEW fit, NEW psp \in Nat
  PROVE  AllocationOf(m, Taken(s, size, fit, psp), psp, link)
<1>1. Chained(s.mcb, link) /\ SameBut(m, s.mcb, {})
  BY DEF SearchOf
<1>2. CASE NoRoom(s, fit)
  <2>1. Taken(s, size, fit, psp) = [mcb |-> s.mcb, seg |-> NoSeg]
    BY <1>2 DEF Taken
  <2>2. SameBut(m, s.mcb, {NoSeg}) /\ Owner(s.mcb, NoSeg) = FREE_PSP
        /\ Owner(m, NoSeg) = FREE_PSP
    BY <1>1, NothingAtNoSeg DEF SameBut
  <2> QED
    BY <1>1, <2>1, <2>2 DEF AllocationOf
<1>3. CASE ~NoRoom(s, fit)
  <2> DEFINE r == Give(s.mcb, s.seg, size, fit, psp)
  <2>1. Taken(s, size, fit, psp) = r
    BY <1>3 DEF Taken
  <2>2. AllocationOf(s.mcb, r, psp, link)
    BY <1>1, <1>3, GiveTakes DEF NoRoom, SearchOf
  <2> HIDE DEF r
  <2>3. SameBut(m, r.mcb, {r.seg}) /\ Owner(m, r.seg) = FREE_PSP
    BY <1>1, <2>2 DEF AllocationOf, SameBut
  <2> QED
    BY <2>1, <2>2, <2>3 DEF AllocationOf
<1> QED
  BY <1>2, <1>3

\* DosMemAlloc keeps the chain and all blocks in use, and what it returns was
\* not in use: for every strategy, link, and chain.
LEMMA DosMemAllocTakes ==
  ASSUME NEW m, NEW link, Chained(m, link), NEW size \in Nat, NEW mode,
         NEW psp \in Nat
  PROVE  AllocationOf(m, DosMemAlloc(m, size, mode, link, psp), psp, link)
<1> DEFINE s == Search(m, StartOf(mode, link), size, FitOf(mode))
           low == [mode EXCEPT !.U = FALSE]
           t == Search(s.mcb, StartOf(low, link), size, FitOf(low))
<1>1. SearchOf(m, s, size, link)
  BY SearchFinds
<1>2. Chained(s.mcb, link) /\ SameBut(m, s.mcb, {})
  BY <1>1 DEF SearchOf
<1>3. SearchOf(s.mcb, t, size, link)
  BY <1>2, SearchFinds
<1>4. SearchOf(m, t, size, link)
  BY <1>2, <1>3, SameAgain DEF SearchOf
<1>5. DosMemAlloc(m, size, mode, link, psp)
        \in {Taken(s, size, FitOf(mode), psp), Taken(t, size, FitOf(low), psp)}
  BY DEF DosMemAlloc, SearchAgain
<1> HIDE DEF s, t, low
<1> QED
  BY <1>1, <1>4, <1>5, TakenTakes

\* The search for the largest block changes as little, and reports a number.
LEMMA LargestKeeps ==
  ASSUME NEW m, NEW link, Chained(m, link), NEW from
  PROVE  LET l == Largest(m, from)
         IN SearchOf(m, l, 0, link) /\ l.size \in Nat
<1> DEFINE free == FreeBlocks(m, from)
           joined == joinMCBs(m, free)
           jfree == FreeBlocks(joined, from)
           sizes == {joined[p].m_size : p \in jfree}
           size == IF jfree = {} THEN 0 ELSE Max(sizes)
           seg == IF size = 0 THEN NoSeg
                  ELSE Min({p \in jfree : joined[p].m_size = size})
<1>1. free \in SUBSET DOMAIN m /\ {p \in free : ~mcbFree(m, p)} = {}
  BY DEF FreeBlocks, Chain
<1>2. Chained(joined, link) /\ SameBut(m, joined, {})
  BY <1>1, JoinKeeps
<1>3. Largest(m, from) = [mcb |-> joined, size |-> size, seg |-> seg]
  BY DEF Largest, LargestOf
<1> HIDE DEF joined
<1>4. jfree \subseteq DOMAIN joined /\ \A p \in jfree : mcbFree(joined, p)
  BY DEF FreeBlocks, Chain
<1> HIDE DEF jfree
<1>5. \A p \in jfree : p \in Nat /\ joined[p].m_size \in 0 .. MemTop
  <2> TAKE p \in jfree
  <2>1. /\ p \in Nat /\ joined[p].m_size \in Nat
        /\ nxtMCB(joined, p) = p + joined[p].m_size + 1
        /\ nxtMCB(joined, p) <= MemTop
    BY <1>2, <1>4, Header DEF Chained
  <2> QED
    BY <2>1, ChainLayout
<1>6. jfree # {} => Max(sizes) \in sizes
  <2>1. sizes \subseteq 0 .. MemTop /\ MemTop \in Nat
    BY <1>5, ChainLayout
  <2> QED
    BY <2>1, MaxOf
<1>7. size \in Nat
  BY <1>5, <1>6
<1>8. seg # NoSeg => seg \in jfree
  <2> SUFFICES ASSUME size # 0
               PROVE  Min({p \in jfree : joined[p].m_size = size}) \in jfree
    OBVIOUS
  <2>1. {p \in jfree : joined[p].m_size = size} # {}
    BY <1>6
  <2>2. {p \in jfree : joined[p].m_size = size} \subseteq Nat
    BY <1>5
  <2> QED
    BY <2>1, <2>2, MinOf
<1> HIDE DEF size, seg
<1>9. SearchOf(m, [mcb |-> joined, size |-> size, seg |-> seg], 0, link)
  BY <1>2, <1>4, <1>5, <1>8 DEF SearchOf
<1> QED
  BY <1>3, <1>7, <1>9

\* DosMemAlloc(0, LARGEST) takes nothing from anyone either.
LEMMA DosMemAllocLargestTakes ==
  ASSUME NEW m, NEW link, Chained(m, link), NEW psp \in Nat
  PROVE  AllocationOf(m, DosMemAllocLargest(m, psp), psp, link)
<1> DEFINE l == Largest(m, first_mcb)
           n == [l.mcb EXCEPT ![l.seg].m_psp = psp]
<1>1. SearchOf(m, l, 0, link)
  BY LargestKeeps
<1>2. DosMemAllocLargest(m, psp)
        = [mcb |-> IF l.seg = NoSeg THEN l.mcb ELSE n, seg |-> l.seg]
  BY DEF DosMemAllocLargest, TakenWhole
<1> HIDE DEF l
<1>3. Chained(l.mcb, link) /\ SameBut(m, l.mcb, {})
  BY <1>1 DEF SearchOf
<1>4. CASE l.seg = NoSeg
  <2>1. SameBut(m, l.mcb, {NoSeg}) /\ Owner(l.mcb, NoSeg) = FREE_PSP
        /\ Owner(m, NoSeg) = FREE_PSP
    BY <1>3, NothingAtNoSeg DEF SameBut
  <2> QED
    BY <1>2, <1>3, <1>4, <2>1 DEF AllocationOf
<1>5. CASE l.seg # NoSeg
  <2>1. l.seg \in DOMAIN l.mcb /\ l.mcb[l.seg].m_psp = FREE_PSP
    BY <1>1, <1>5 DEF SearchOf, mcbFree
  <2>2. Chained(n, link) /\ SameBut(l.mcb, n, {l.seg}) /\ DOMAIN n = DOMAIN l.mcb
        /\ n[l.seg].m_psp = psp
    BY <1>3, <2>1, OwnerChange DEF FREE_PSP, SYSTEM_PSP
  <2> HIDE DEF n
  <2>3. SameBut(m, n, {l.seg})
    BY <1>3, <2>2, SameAgain
  <2>4. Owner(m, l.seg) = FREE_PSP
    BY <1>3, <2>1 DEF SameBut, Owner
  <2> QED
    BY <1>2, <1>5, <2>1, <2>2, <2>3, <2>4 DEF AllocationOf, Owner
<1> QED
  BY <1>4, <1>5

\* DosMemLargest only joins unused blocks.
LEMMA DosMemLargestKeeps ==
  ASSUME NEW m, NEW link, Chained(m, link), NEW mode
  PROVE  LET l == DosMemLargest(m, mode, link)
         IN Chained(l.mcb, link) /\ SameBut(m, l.mcb, {}) /\ l.size \in Nat
<1> DEFINE high == Largest(m, StartOf(mode, link))
           low == Largest(high.mcb, StartOf([mode EXCEPT !.U = FALSE], link))
<1>1. SearchOf(m, high, 0, link) /\ high.size \in Nat
  BY LargestKeeps
<1>2. Chained(high.mcb, link) /\ SameBut(m, high.mcb, {})
  BY <1>1 DEF SearchOf
<1>3. SearchOf(high.mcb, low, 0, link) /\ low.size \in Nat
  BY <1>2, LargestKeeps
<1>4. Chained(low.mcb, link) /\ SameBut(m, low.mcb, {})
  BY <1>2, <1>3, SameAgain DEF SearchOf
<1>5. DosMemLargest(m, mode, link) =
        IF mode.U
        THEN [mcb |-> low.mcb,
              size |-> IF low.size > high.size THEN low.size ELSE high.size]
        ELSE [mcb |-> high.mcb, size |-> high.size]
  BY DEF DosMemLargest, LowToo, LargerOf
<1> HIDE DEF high, low
<1> QED
  BY <1>1, <1>2, <1>3, <1>4, <1>5

-----------------------------------------------------------------------------
(* DosMemFree, DosMemChange                                                *)

\* A block that is not the kernel's is freed and no other one; a segment
\* without a header changes nothing.
LEMMA DosMemFreeFrees ==
  ASSUME NEW m, NEW link, Chained(m, link), NEW seg, Owner(m, seg) # SYSTEM_PSP
  PROVE  /\ Chained(DosMemFree(m, seg), link)
         /\ SameBut(m, DosMemFree(m, seg), {seg})
         /\ Owner(DosMemFree(m, seg), seg) = FREE_PSP
<1> DEFINE n == [m EXCEPT ![seg].m_psp = FREE_PSP]
<1>1. CASE seg \in DOMAIN m
  <2>1. DosMemFree(m, seg) = n
    BY <1>1 DEF DosMemFree
  <2>2. m[seg].m_psp # SYSTEM_PSP /\ FREE_PSP \in Nat
    BY <1>1 DEF Owner, FREE_PSP
  <2>3. Chained(n, link) /\ SameBut(m, n, {seg}) /\ DOMAIN n = DOMAIN m
        /\ n[seg].m_psp = FREE_PSP
    BY <1>1, <2>2, OwnerChange
  <2> HIDE DEF n
  <2> QED
    BY <1>1, <2>1, <2>3 DEF Owner
<1>2. CASE seg \notin DOMAIN m
  BY <1>2 DEF DosMemFree, SameBut, Owner
<1> QED
  BY <1>1, <1>2

\* DosMemChange keeps the chain and all other blocks, and its block belongs to
\* the program that asked, whether it gets what it asked for or not.
LEMMA DosMemChangeKeeps ==
  ASSUME NEW m, NEW link, Chained(m, link), NEW p \in DOMAIN m,
         NEW psp \in Nat, psp # FREE_PSP, psp # SYSTEM_PSP, m[p].m_psp = psp,
         NEW size \in Nat
  PROVE  /\ Chained(DosMemChange(m, p, size, psp), link)
         /\ SameBut(m, DosMemChange(m, p, size, psp), {p})
         /\ Owner(DosMemChange(m, p, size, psp), p) = psp
<1> DEFINE n == IF size > m[p].m_size THEN joinMCBs(m, {p}) ELSE m
<1>1. Chained(n, link) /\ SameBut(m, n, {p}) /\ Owner(n, p) = psp
  <2>1. Owner(m, p) = psp
    BY DEF Owner
  <2>2. Chained(joinMCBs(m, {p}), link)
        /\ SameBut(m, joinMCBs(m, {p}), {s \in {p} : ~mcbFree(m, s)})
        /\ Owner(joinMCBs(m, {p}), p) = Owner(m, p)
    BY JoinKeeps
  <2> QED
    BY <2>1, <2>2 DEF SameBut
<1>2. DosMemChange(m, p, size, psp) = Resized(n, p, size, psp)
  BY DEF DosMemChange
<1> HIDE DEF n
<1>3. p \in DOMAIN n /\ n[p].m_psp = psp
  BY <1>1 DEF Owner
<1>4. n[p].m_size \in Nat
  BY <1>1, <1>3, Header DEF Chained
<1> SUFFICES /\ Chained(Resized(n, p, size, psp), link)
             /\ SameBut(n, Resized(n, p, size, psp), {p})
             /\ Owner(Resized(n, p, size, psp), p) = psp
  BY <1>1, <1>2 DEF SameBut
<1>5. CASE size > n[p].m_size
  <2>1. Resized(n, p, size, psp) = n
    BY <1>4, <1>5 DEF Resized
  <2> QED
    BY <1>1, <2>1 DEF SameBut
<1>6. CASE size = n[p].m_size
  <2> DEFINE k == [n EXCEPT ![p].m_psp = psp]
  <2>1. Resized(n, p, size, psp) = k
    BY <1>4, <1>6 DEF Resized
  <2>2. Chained(k, link) /\ SameBut(n, k, {p}) /\ DOMAIN k = DOMAIN n
        /\ k[p].m_psp = psp
    BY <1>1, <1>3, OwnerChange
  <2> HIDE DEF k
  <2> QED
    BY <1>3, <2>1, <2>2 DEF Owner
<1>7. CASE size < n[p].m_size
  <2> DEFINE q == p + size + 1
             k == Split(n, p, size, psp, FREE_PSP)
             j == joinMCBs(k, {q})
  <2>1. Resized(n, p, size, psp) = j
    BY <1>4, <1>7 DEF Resized
  <2>2. SplitDone(n, k, p, q, size, psp, FREE_PSP, link)
    <3>1. n[p].m_psp # SYSTEM_PSP /\ FREE_PSP \in Nat
      BY <1>3 DEF FREE_PSP
    <3> QED
      BY <1>1, <1>3, <1>7, <3>1, SplitKeeps
  <2> HIDE DEF k, q
  <2>3. /\ Chained(k, link) /\ SameBut(n, k, {p, q})
        /\ q \notin DOMAIN n /\ q \in DOMAIN k /\ p \in DOMAIN k
        /\ k[p].m_psp = psp /\ k[q].m_psp = FREE_PSP
    BY <2>2 DEF SplitDone
  <2>4. Owner(n, q) = FREE_PSP /\ Extent(n, q) = 0
        /\ Owner(k, q) = FREE_PSP /\ Extent(k, q) = 0 /\ Owner(k, p) = psp
    BY <2>3 DEF Owner, Extent
  <2>5. {s \in {q} : ~mcbFree(k, s)} = {}
    BY <2>3 DEF mcbFree
  <2>6. Chained(j, link) /\ SameBut(k, j, {}) /\ Owner(j, p) = Owner(k, p)
    BY <2>3, <2>5, JoinKeeps
  <2> HIDE DEF j
  <2>7. SameBut(n, k, {p})
    BY <2>3, <2>4 DEF SameBut
  <2> QED
    BY <2>1, <2>4, <2>6, <2>7 DEF SameBut
<1> QED
  BY <1>4, <1>5, <1>6, <1>7

-----------------------------------------------------------------------------
(* DosUmbLink, FreeProcessMem                                              *)

\* A walk of the linked chain meets every header.
LEMMA LinkedWalk ==
  ASSUME NEW m, Chained(m, 1)
  PROVE  Chain(m, first_mcb) = DOMAIN m
<1>1. Typed(m) /\ Tiled(m) /\ LastMarks(m, 1)
  BY DEF Chained
<1> DEFINE L == {p \in DOMAIN m : p >= first_mcb /\ m[p].m_type = MCB_LAST}
<1>2. L \subseteq Nat
  BY <1>1, ChainLayout DEF Typed, Segment
<1>3. first_mcb \in DOMAIN m /\ first_mcb < MemTop
  BY <1>1, Header DEF Tiled
<1>4. PICK r \in DOMAIN m : first_mcb <= r /\ nxtMCB(m, r) = MemTop
  BY <1>1, <1>3, Predecessor
<1>5. r \in L
  <2>1. m[r].m_type = MCB_LAST
    BY <1>1, <1>4 DEF LastMarks
  <2> QED
    BY <1>1, <1>3, <1>4, <2>1, Header, ChainLayout
<1> DEFINE last == Min(L)
<1>6. last \in L
  BY <1>2, <1>5, MinOf
<1> HIDE DEF last
<1>7. nxtMCB(m, last) = MemTop
  BY <1>1, <1>6 DEF LastMarks
<1>8. \A p \in DOMAIN m : first_mcb <= p /\ p <= last
  <2> TAKE p \in DOMAIN m
  <2>1. first_mcb <= p /\ p < nxtMCB(m, last)
    BY <1>1, <1>7, Header
  <2> QED
    BY <1>1, <1>6, <2>1, Header
<1>9. Chain(m, first_mcb) = {p \in DOMAIN m : first_mcb <= p /\ p <= last}
  BY DEF Chain, last
<1> QED
  BY <1>8, <1>9

\* The last block of low memory, and a walk of the chain without the link.
LEMMA LowLast ==
  ASSUME NEW m, NEW link, Chained(m, link)
  PROVE  \E b \in DOMAIN m :
           /\ b < uppermem_root /\ nxtMCB(m, b) = uppermem_root
           /\ \A p \in DOMAIN m : p < uppermem_root => p <= b
           /\ \A p \in DOMAIN m : nxtMCB(m, p) = uppermem_root => p = b
           /\ link = 0 => /\ m[b].m_type = MCB_LAST
                          /\ Chain(m, first_mcb) = {p \in DOMAIN m : p <= b}
<1>1. Typed(m) /\ Tiled(m) /\ LastMarks(m, link)
  BY DEF Chained
<1>2. first_mcb \in DOMAIN m /\ uppermem_root \in DOMAIN m
  BY <1>1 DEF Tiled
<1>3. PICK b \in DOMAIN m : /\ first_mcb <= b /\ b < uppermem_root
                           /\ nxtMCB(m, b) = uppermem_root
  BY <1>1, <1>2, Predecessor, ChainLayout
<1>4. \A p \in DOMAIN m : p < uppermem_root => p <= b
  BY <1>1, <1>3, Header
<1>5. ASSUME NEW p \in DOMAIN m, nxtMCB(m, p) = uppermem_root
      PROVE  p = b
  <2>1. p < uppermem_root
    BY <1>1, <1>5, Header
  <2>2. p <= b
    BY <1>4, <2>1
  <2>3. b < nxtMCB(m, p)
    BY <1>3, <1>5
  <2>4. b <= p
    BY <1>1, <2>3, Header
  <2>5. b \in Nat /\ p \in Nat
    BY <1>1, Header
  <2> QED
    BY <2>2, <2>4, <2>5
<1>6. ASSUME link = 0
      PROVE  /\ m[b].m_type = MCB_LAST
             /\ Chain(m, first_mcb) = {p \in DOMAIN m : p <= b}
  <2> DEFINE L == {p \in DOMAIN m : p >= first_mcb /\ m[p].m_type = MCB_LAST}
  <2>1. m[b].m_type = MCB_LAST
    BY <1>1, <1>3, <1>6 DEF LastMarks
  <2>2. L \subseteq Nat
    BY <1>1, ChainLayout DEF Typed, Segment
  <2>3. b \in L
    BY <1>1, <1>3, <2>1, Header, ChainLayout
  <2>4. Min(L) \in L /\ \A y \in L : Min(L) <= y
    BY <2>2, <2>3, MinOf
  <2>5. \A y \in L : b <= y
    <3> TAKE y \in L
    <3>1. nxtMCB(m, y) = MemTop \/ nxtMCB(m, y) = uppermem_root
      BY <1>1 DEF LastMarks
    <3>2. b < nxtMCB(m, y)
      BY <1>3, <3>1, <1>1, Header
    <3> QED
      BY <1>1, <3>2, Header
  <2>6. Min(L) = b
    BY <2>2, <2>3, <2>4, <2>5
  <2>7. \A p \in DOMAIN m : first_mcb <= p
    BY <1>1, Header
  <2>8. Chain(m, first_mcb) = {p \in DOMAIN m : first_mcb <= p /\ p <= Min(L)}
    BY DEF Chain
  <2> QED
    BY <2>1, <2>6, <2>7, <2>8
<1> QED
  BY <1>3, <1>4, <1>5, <1>6

\* A change of one mark that agrees with a change of the link keeps the chain.
LEMMA MarkChange ==
  ASSUME NEW m, NEW link, NEW next, Chained(m, link), NEW b \in DOMAIN m,
         NEW type \in {MCB_NORMAL, MCB_LAST}, NEW n,
         n = [m EXCEPT ![b].m_type = type],
         \A p \in DOMAIN m :
           ((IF p = b THEN type ELSE m[p].m_type) = MCB_LAST) <=>
             \/ nxtMCB(m, p) = MemTop
             \/ nxtMCB(m, p) = uppermem_root /\ next = 0
  PROVE  Chained(n, next) /\ SameBut(m, n, {})
<1>1. Typed(m) /\ Tiled(m)
  BY DEF Chained
<1>2. DOMAIN n = DOMAIN m
  OBVIOUS
<1>3. m[b] \in Block /\ n[b] = [m[b] EXCEPT !.m_type = type]
  BY <1>1, Header
<1>4. n[b] \in Block /\ n[b].m_psp = m[b].m_psp /\ n[b].m_size = m[b].m_size
      /\ n[b].m_type = type
  BY <1>3 DEF Block
<1>5. \A r \in DOMAIN m : r # b => n[r] = m[r]
  OBVIOUS
<1>6. \A r \in DOMAIN m :
        /\ n[r] \in Block /\ n[r].m_psp = m[r].m_psp /\ n[r].m_size = m[r].m_size
        /\ nxtMCB(n, r) = nxtMCB(m, r)
        /\ n[r].m_type = IF r = b THEN type ELSE m[r].m_type
  BY <1>1, <1>4, <1>5, Header DEF nxtMCB
<1>7. Typed(n)
  <2>1. n = [r \in DOMAIN n |-> n[r]]
    OBVIOUS
  <2> QED
    BY <1>1, <1>2, <1>6, <2>1 DEF Typed
<1>8. Tiled(n)
  BY <1>1, <1>2, <1>6 DEF Tiled
<1>9. LastMarks(n, next)
  BY <1>2, <1>6 DEF LastMarks
<1>10. SameBut(m, n, {})
  BY <1>2, <1>6 DEF SameBut, Owner, Extent
<1> QED
  BY <1>7, <1>8, <1>9, <1>10 DEF Chained

\* DosUmbLink leaves a chain that agrees with the link that it leaves, and the
\* link is the one that was asked for.
LEMMA DosUmbLinkKeeps ==
  ASSUME NEW m, NEW link \in {0, 1}, Chained(m, link), NEW n \in Nat
  PROVE  LET r == DosUmbLink(m, link, n)
         IN /\ Chained(r.mcb, r.link) /\ SameBut(m, r.mcb, {})
            /\ r.link = IF n > 1 THEN link ELSE n
<1>1. Typed(m) /\ Tiled(m) /\ LastMarks(m, link)
  BY DEF Chained
<1>2. PICK b \in DOMAIN m :
        /\ b < uppermem_root /\ nxtMCB(m, b) = uppermem_root
        /\ \A p \in DOMAIN m : p < uppermem_root => p <= b
        /\ \A p \in DOMAIN m : nxtMCB(m, p) = uppermem_root => p = b
        /\ link = 0 => /\ m[b].m_type = MCB_LAST
                       /\ Chain(m, first_mcb) = {p \in DOMAIN m : p <= b}
  BY LowLast
<1> DEFINE low == {p \in Chain(m, first_mcb) : p < uppermem_root}
           R == {p \in Chain(m, first_mcb) : p <= uppermem_root}
           reached == Max(R)
           r == DosUmbLink(m, link, n)
<1>3. Chain(m, first_mcb) \subseteq DOMAIN m
  BY DEF Chain
<1>4. DOMAIN m \subseteq 0 .. MemTop /\ MemTop \in Nat
  BY <1>1, ChainLayout DEF Typed, Segment
<1>5. CASE n > 1 \/ link = n
  <2>1. r = [mcb |-> m, link |-> link]
    BY <1>5 DEF DosUmbLink
  <2> QED
    BY <1>5, <2>1 DEF SameBut
<1>6. CASE n = 0 /\ link = 1
  <2>1. Chain(m, first_mcb) = DOMAIN m
    BY <1>6, LinkedWalk
  <2>2. uppermem_root \in DOMAIN m
    BY <1>1 DEF Tiled
  <2>3. reached = uppermem_root
    <3>1. uppermem_root \in R /\ R \subseteq 0 .. MemTop
      BY <1>4, <2>1, <2>2, ChainLayout
    <3>2. reached \in R /\ \A y \in R : reached >= y
      BY <1>4, <3>1, MaxOf
    <3> HIDE DEF reached
    <3>3. reached >= uppermem_root /\ reached <= uppermem_root
      BY <3>1, <3>2
    <3> QED
      BY <1>4, <2>2, <3>1, <3>2, <3>3
  <2>4. Max(low) = b
    <3>1. b \in low /\ low \subseteq 0 .. MemTop
      BY <1>2, <1>4, <2>1
    <3>2. Max(low) \in low /\ \A y \in low : Max(low) >= y
      BY <1>4, <3>1, MaxOf
    <3>3. Max(low) >= b /\ Max(low) <= b
      BY <1>2, <1>3, <3>1, <3>2
    <3> QED
      BY <3>1, <3>2, <3>3
  <2> DEFINE k == [m EXCEPT ![b].m_type = MCB_LAST]
  <2>5. r = [mcb |-> k, link |-> 0]
    BY <1>6, <2>3, <2>4 DEF DosUmbLink
  <2>6. Chained(k, 0) /\ SameBut(m, k, {})
    <3>1. \A p \in DOMAIN m :
            ((IF p = b THEN MCB_LAST ELSE m[p].m_type) = MCB_LAST) <=>
               \/ nxtMCB(m, p) = MemTop
               \/ nxtMCB(m, p) = uppermem_root /\ 0 = 0
      BY <1>1, <1>2, <1>6 DEF LastMarks
    <3> QED
      BY <3>1, MarkChange
  <2> HIDE DEF k
  <2> QED
    BY <1>6, <2>5, <2>6
<1>7. CASE n = 1 /\ link = 0
  <2>1. Chain(m, first_mcb) = {p \in DOMAIN m : p <= b}
        /\ m[b].m_type = MCB_LAST
    BY <1>2, <1>7
  <2>2. reached = b
    <3>1. b \in R /\ R \subseteq 0 .. MemTop
      BY <1>1, <1>2, <1>4, <2>1, Header, ChainLayout
    <3>2. reached \in R /\ \A y \in R : reached >= y
      BY <1>4, <3>1, MaxOf
    <3> HIDE DEF reached
    <3>3. reached >= b /\ reached <= b
      BY <2>1, <3>1, <3>2
    <3> QED
      BY <3>1, <3>2, <3>3
  <2> DEFINE k == [m EXCEPT ![b].m_type = MCB_NORMAL]
  <2>3. r = [mcb |-> k, link |-> 1]
    BY <1>7, <2>1, <2>2 DEF DosUmbLink
  <2>4. Chained(k, 1) /\ SameBut(m, k, {})
    <3>1. nxtMCB(m, b) # MemTop
      BY <1>2, ChainLayout
    <3>2. \A p \in DOMAIN m :
            ((IF p = b THEN MCB_NORMAL ELSE m[p].m_type) = MCB_LAST) <=>
               \/ nxtMCB(m, p) = MemTop
               \/ nxtMCB(m, p) = uppermem_root /\ 1 = 0
      BY <1>1, <1>2, <1>7, <3>1 DEF LastMarks, MCB_NORMAL, MCB_LAST
    <3> QED
      BY <3>2, MarkChange
  <2> HIDE DEF k
  <2> QED
    BY <1>7, <2>3, <2>4
<1> QED
  BY <1>5, <1>6, <1>7

\* The end of a process frees all its blocks and no others, in low and upper
\* memory, whatever the link is, and leaves the link as it was.
LEMMA FreeProcessMemFrees ==
  ASSUME NEW m, NEW link \in {0, 1}, Chained(m, link), NEW ps, ps # SYSTEM_PSP
  PROVE  LET r == FreeProcessMem(m, link, ps)
         IN /\ Chained(r.mcb, link) /\ r.link = link
            /\ \A p : Owner(r.mcb, p) = IF Owner(m, p) = ps THEN FREE_PSP
                                                           ELSE Owner(m, p)
            /\ \A p : Owner(m, p) # ps => Extent(r.mcb, p) = Extent(m, p)
<1> DEFINE high == DosUmbLink(m, link, 1)
           h == high.mcb
           k == FreeBlocksOf(h, ps)
           r == DosUmbLink(k, 1, link)
<1>1. Chained(h, 1) /\ SameBut(m, h, {})
  BY DosUmbLinkKeeps
<1>2. FreeProcessMem(m, link, ps) = r
  BY DEF FreeProcessMem
<1> HIDE DEF h
<1>3. Typed(h) /\ Tiled(h) /\ LastMarks(h, 1)
  BY <1>1 DEF Chained
<1>4. k = [p \in DOMAIN h |-> IF h[p].m_psp = ps
                              THEN [h[p] EXCEPT !.m_psp = FREE_PSP]
                              ELSE h[p]]
  BY <1>1, LinkedWalk DEF FreeBlocksOf
<1>5. \A p \in DOMAIN h :
        /\ k[p] \in Block /\ k[p].m_size = h[p].m_size
        /\ k[p].m_type = h[p].m_type
        /\ k[p].m_psp = IF h[p].m_psp = ps THEN FREE_PSP ELSE h[p].m_psp
        /\ nxtMCB(k, p) = nxtMCB(h, p)
  <2> TAKE p \in DOMAIN h
  <2>1. h[p] \in Block
    BY <1>3, Header
  <2>2. k[p] = IF h[p].m_psp = ps THEN [h[p] EXCEPT !.m_psp = FREE_PSP] ELSE h[p]
    BY <1>4
  <2> HIDE DEF k
  <2>3. /\ k[p] \in Block /\ k[p].m_size = h[p].m_size
        /\ k[p].m_type = h[p].m_type
        /\ k[p].m_psp = IF h[p].m_psp = ps THEN FREE_PSP ELSE h[p].m_psp
    BY <2>1, <2>2 DEF Block, FREE_PSP
  <2> QED
    BY <2>3 DEF nxtMCB
<1>6. DOMAIN k = DOMAIN h /\ k = [p \in DOMAIN k |-> k[p]]
  BY <1>4
<1> HIDE DEF k
<1>7. Chained(k, 1)
  <2>1. Typed(k)
    BY <1>3, <1>5, <1>6 DEF Typed
  <2>2. Tiled(k)
    BY <1>3, <1>5, <1>6 DEF Tiled
  <2>3. LastMarks(k, 1)
    BY <1>3, <1>5, <1>6 DEF LastMarks
  <2> QED
    BY <2>1, <2>2, <2>3 DEF Chained
<1>8. Chained(r.mcb, link) /\ r.link = link /\ SameBut(k, r.mcb, {})
  BY <1>7, DosUmbLinkKeeps
<1> HIDE DEF r
<1>9. \A p : Owner(k, p) = IF Owner(h, p) = ps THEN FREE_PSP ELSE Owner(h, p)
  BY <1>5, <1>6 DEF Owner
<1>10. \A p : Owner(h, p) # ps => Extent(k, p) = Extent(h, p)
  BY <1>5, <1>6, <1>9 DEF Extent, Owner
<1> QED
  BY <1>1, <1>2, <1>8, <1>9, <1>10 DEF SameBut

-----------------------------------------------------------------------------
(* Room: which paragraphs are free, and what a search finds in them        *)

\* Where a walk ends that has begun at first_mcb, or at uppermem_root while
\* upper memory is linked.
EndOf(link) == IF link = 0 THEN uppermem_root ELSE MemTop
Begins(from, link) == from = first_mcb \/ (from = uppermem_root /\ link # 0)

\* The paragraphs of the allocated blocks, and the free ones of a walk.
Used(m) == {x \in Nat : \E p \in Nat : /\ Owner(m, p) # FREE_PSP
                                       /\ p <= x /\ x <= p + Extent(m, p)}
FreeIn(m, from, link) ==
  {x \in Nat : /\ from <= x /\ x < EndOf(link)
               /\ \E p \in DOMAIN m : mcbFree(m, p) /\ p <= x /\ x < nxtMCB(m, p)}

\* There is room for size paragraphs behind a header.
RoomFor(free, size) == \E x \in free : x .. x + size \subseteq free

\* Blocks in use are alike in chains that differ in the unused ones only.
LEMMA SameUsed ==
  ASSUME NEW m, NEW n, SameBut(m, n, {})
  PROVE  Used(n) = Used(m)
  BY DEF SameBut, Used

\* Each paragraph lies in one block.
LEMMA BlockAt ==
  ASSUME NEW m, Typed(m), Tiled(m), NEW x \in Nat, first_mcb <= x, x < MemTop
  PROVE  /\ \E p \in DOMAIN m : p <= x /\ x < nxtMCB(m, p)
         /\ \A p, q \in DOMAIN m :
              p <= x /\ x < nxtMCB(m, p) /\ q <= x /\ x < nxtMCB(m, q) => p = q
<1> DEFINE S == {p \in DOMAIN m : p <= x}
           p == Max(S)
<1>1. DOMAIN m \subseteq Nat /\ first_mcb \in DOMAIN m /\ MemTop \in Nat
  BY ChainLayout DEF Typed, Segment, Tiled
<1>2. S \subseteq 0 .. x /\ S # {}
  BY <1>1
<1>3. p \in S /\ \A y \in S : p >= y
  BY <1>2, MaxOf
<1> HIDE DEF p
<1>4. p \in DOMAIN m /\ p <= x /\ p \in Nat
  BY <1>1, <1>3
<1>5. nxtMCB(m, p) \in Nat /\ nxtMCB(m, p) \in DOMAIN m \cup {MemTop}
      /\ p < nxtMCB(m, p)
  BY <1>4, Header
<1>6. x < nxtMCB(m, p)
  <2> SUFFICES ASSUME nxtMCB(m, p) <= x PROVE FALSE
    BY <1>5
  <2>1. nxtMCB(m, p) \in S
    BY <1>1, <1>5
  <2>2. p >= nxtMCB(m, p)
    BY <1>3, <2>1
  <2> QED
    BY <1>4, <1>5, <2>2
<1>7. ASSUME NEW r \in DOMAIN m, NEW q \in DOMAIN m,
             r <= x, x < nxtMCB(m, r), q <= x, x < nxtMCB(m, q)
      PROVE  r = q
  <2>1. /\ r \in Nat /\ q \in Nat /\ nxtMCB(m, r) \in Nat /\ nxtMCB(m, q) \in Nat
        /\ r < q => nxtMCB(m, r) <= q
        /\ q < r => nxtMCB(m, q) <= r
    BY Header
  <2> QED
    BY <1>7, <2>1
<1> QED
  BY <1>4, <1>6, <1>7

\* A walk meets the headers up to its end, and no block reaches behind it.
LEMMA WalkIs ==
  ASSUME NEW m, NEW link, Chained(m, link), NEW from, Begins(from, link)
  PROVE  /\ from \in Nat /\ first_mcb <= from /\ from < EndOf(link)
         /\ EndOf(link) \in Nat /\ EndOf(link) <= MemTop
         /\ EndOf(link) \in DOMAIN m \cup {MemTop}
         /\ Chain(m, from) = {p \in DOMAIN m : from <= p /\ p < EndOf(link)}
         /\ \A p \in Chain(m, from) : nxtMCB(m, p) <= EndOf(link)
         /\ nxtMCB(m, Max(Chain(m, from))) = EndOf(link)
         /\ \A p \in DOMAIN m : m[p].m_type = MCB_LAST /\ p < EndOf(link)
                                => nxtMCB(m, p) = EndOf(link)
<1> DEFINE e == EndOf(link)
           S == {p \in DOMAIN m : p >= from /\ m[p].m_type = MCB_LAST}
           last == Min(S)
           C == {p \in DOMAIN m : from <= p /\ p < e}
<1>1. Typed(m) /\ Tiled(m) /\ LastMarks(m, link)
  BY DEF Chained
<1>2. /\ from \in Nat /\ first_mcb <= from /\ from < e /\ from \in DOMAIN m
      /\ e \in Nat /\ e <= MemTop /\ e \in DOMAIN m \cup {MemTop}
  BY <1>1, ChainLayout DEF Begins, EndOf, Tiled
<1>3. \A p \in DOMAIN m : p < e => nxtMCB(m, p) <= e
  <2> SUFFICES ASSUME NEW p \in DOMAIN m, p < e PROVE nxtMCB(m, p) <= e
    OBVIOUS
  <2>1. CASE e \in DOMAIN m
    BY <1>1, <2>1, Header
  <2>2. CASE e = MemTop
    BY <1>1, <2>2, Header
  <2> QED
    BY <1>2, <2>1, <2>2
<1>4. \A p \in DOMAIN m : m[p].m_type = MCB_LAST /\ p < e => nxtMCB(m, p) = e
  <2> SUFFICES ASSUME NEW p \in DOMAIN m, m[p].m_type = MCB_LAST, p < e
               PROVE  nxtMCB(m, p) = e
    OBVIOUS
  <2>1. nxtMCB(m, p) = MemTop \/ (nxtMCB(m, p) = uppermem_root /\ link = 0)
    BY <1>1 DEF LastMarks
  <2>2. nxtMCB(m, p) <= e
    BY <1>3
  <2> QED
    BY <2>1, <2>2, ChainLayout DEF EndOf
<1>5. PICK r \in DOMAIN m : from <= r /\ r < e /\ nxtMCB(m, r) = e
  BY <1>1, <1>2, Predecessor
<1>6. m[r].m_type = MCB_LAST
  BY <1>1, <1>5 DEF LastMarks, EndOf
<1>7. r \in Nat /\ \A p \in DOMAIN m : p \in Nat
  BY <1>1, Header
<1>8. r \in S /\ S \subseteq Nat
  BY <1>2, <1>5, <1>6, <1>7
<1>9. last \in S /\ \A y \in S : last <= y
  BY <1>8, MinOf
<1> HIDE DEF last
<1>10. last <= r /\ last \in DOMAIN m /\ last \in Nat /\ m[last].m_type = MCB_LAST
  BY <1>7, <1>8, <1>9
<1> HIDE DEF e
<1>11. nxtMCB(m, last) = e
  BY <1>2, <1>4, <1>5, <1>7, <1>10
<1>12. last = r
  <2>1. last < r => nxtMCB(m, last) <= r
    BY <1>1, <1>10, Header
  <2> QED
    BY <1>2, <1>5, <1>7, <1>10, <1>11, <2>1
<1>13. \A p \in DOMAIN m : p <= r <=> p < e
  <2> TAKE p \in DOMAIN m
  <2>1. r < p => e <= p
    BY <1>1, <1>5, Header
  <2> QED
    BY <1>2, <1>5, <1>7, <2>1
<1>14. Chain(m, from) = C
  <2>1. Chain(m, from) = {p \in DOMAIN m : from <= p /\ p <= last}
    BY DEF Chain, last
  <2> QED
    BY <1>12, <1>13, <2>1
<1>15. Max(C) = r
  <2>1. r \in C /\ C \subseteq 0 .. e
    BY <1>2, <1>5, <1>7
  <2>2. Max(C) \in C /\ \A y \in C : Max(C) >= y
    BY <1>2, <2>1, MaxOf
  <2>3. Max(C) >= r /\ Max(C) <= r /\ Max(C) \in Nat
    BY <1>7, <1>13, <2>1, <2>2
  <2> QED
    BY <1>7, <2>3
<1> QED
  BY <1>2, <1>3, <1>4, <1>5, <1>14, <1>15 DEF e

\* A paragraph of a walk is free if no allocated block has it.
LEMMA FreeIsUnused ==
  ASSUME NEW m, NEW link, Chained(m, link), NEW from, Begins(from, link)
  PROVE  FreeIn(m, from, link)
           = {x \in Nat : from <= x /\ x < EndOf(link) /\ x \notin Used(m)}
<1>1. Typed(m) /\ Tiled(m)
  BY DEF Chained
<1>2. /\ from \in Nat /\ first_mcb <= from /\ first_mcb \in Nat /\ MemTop \in Nat
      /\ EndOf(link) \in Nat /\ EndOf(link) <= MemTop
  BY WalkIs, ChainLayout
<1> SUFFICES ASSUME NEW x \in Nat, from <= x, x < EndOf(link)
             PROVE  (\E p \in DOMAIN m : mcbFree(m, p) /\ p <= x /\ x < nxtMCB(m, p))
                      <=> x \notin Used(m)
  BY DEF FreeIn
<1>3. first_mcb <= x /\ x < MemTop
  BY <1>2
<1>4. PICK p \in DOMAIN m : p <= x /\ x < nxtMCB(m, p)
  BY <1>1, <1>3, BlockAt
<1>5. \A q \in DOMAIN m : q <= x /\ x < nxtMCB(m, q) => q = p
  BY <1>1, <1>3, <1>4, BlockAt
<1>6. \A q \in Nat : Owner(m, q) # FREE_PSP /\ q <= x /\ x <= q + Extent(m, q)
                     <=> q = p /\ ~mcbFree(m, p)
  <2> TAKE q \in Nat
  <2>1. CASE q \in DOMAIN m
    <3>1. /\ nxtMCB(m, q) = q + m[q].m_size + 1 /\ m[q].m_size \in Nat
          /\ Owner(m, q) = m[q].m_psp
      BY <1>1, <2>1, Header DEF Owner
    <3>2. Owner(m, q) # FREE_PSP => Extent(m, q) = m[q].m_size
      BY DEF Extent
    <3>3. Owner(m, q) # FREE_PSP => (x <= q + Extent(m, q) <=> x < nxtMCB(m, q))
      BY <3>1, <3>2
    <3> QED
      BY <1>4, <1>5, <2>1, <3>1, <3>3 DEF mcbFree
  <2>2. CASE q \notin DOMAIN m
    BY <1>4, <2>2 DEF Owner
  <2> QED
    BY <2>1, <2>2
<1>7. p \in Nat
  BY <1>1, Header
<1>8. x \in Used(m) <=> ~mcbFree(m, p)
  BY <1>6, <1>7 DEF Used
<1> QED
  BY <1>4, <1>5, <1>8

\* A free block with its header is a row of free paragraphs of the walk that
\* meets it.
LEMMA BlockIsRoom ==
  ASSUME NEW m, NEW link, Chained(m, link), NEW from, Begins(from, link),
         NEW p \in FreeBlocks(m, from)
  PROVE  /\ p \in Nat /\ m[p].m_size \in Nat
         /\ p .. p + m[p].m_size \subseteq FreeIn(m, from, link)
<1>1. /\ p \in DOMAIN m /\ from <= p /\ p < EndOf(link) /\ mcbFree(m, p)
      /\ nxtMCB(m, p) <= EndOf(link) /\ from \in Nat /\ EndOf(link) \in Nat
  BY WalkIs DEF FreeBlocks
<1>2. p \in Nat /\ m[p].m_size \in Nat /\ nxtMCB(m, p) = p + m[p].m_size + 1
  BY <1>1, Header DEF Chained
<1>3. ASSUME NEW x \in p .. p + m[p].m_size
      PROVE  x \in FreeIn(m, from, link)
  <2>1. x \in Nat /\ p <= x /\ x < nxtMCB(m, p) /\ from <= x /\ x < EndOf(link)
    BY <1>1, <1>2
  <2>2. QED
    BY <1>1, <2>1 DEF FreeIn
<1>4. QED
  BY <1>2, <1>3

\* No two free blocks of a walk are next to each other.
Joined(n, from, link) ==
  \A p \in FreeBlocks(n, from) :
    nxtMCB(n, p) # EndOf(link) => ~mcbFree(n, nxtMCB(n, p))

\* Then a row of free paragraphs lies in one block.
LEMMA RoomIsBlock ==
  ASSUME NEW n, NEW link, Chained(n, link), NEW from, Begins(from, link),
         Joined(n, from, link), NEW size \in Nat,
         RoomFor(FreeIn(n, from, link), size)
  PROVE  \E p \in FreeBlocks(n, from) : n[p].m_size >= size
<1> DEFINE free == FreeIn(n, from, link)
<1>1. Typed(n) /\ Tiled(n)
  BY DEF Chained
<1>2. /\ from \in Nat /\ first_mcb <= from /\ EndOf(link) \in Nat /\ first_mcb \in Nat
      /\ EndOf(link) <= MemTop /\ EndOf(link) \in DOMAIN n \cup {MemTop}
      /\ from \in DOMAIN n
  BY <1>1, WalkIs, ChainLayout DEF Begins, Tiled
<1>3. PICK x \in free : x .. x + size \subseteq free
  BY DEF RoomFor
<1>4. PICK p \in DOMAIN n : mcbFree(n, p) /\ p <= x /\ x < nxtMCB(n, p)
  BY <1>3 DEF FreeIn
<1>5. x \in Nat /\ from <= x /\ x < EndOf(link)
  BY <1>3 DEF FreeIn
<1>6. /\ p \in Nat /\ n[p].m_size \in Nat /\ nxtMCB(n, p) = p + n[p].m_size + 1
      /\ nxtMCB(n, p) \in DOMAIN n \cup {MemTop} /\ nxtMCB(n, p) \in Nat
      /\ p < from => nxtMCB(n, p) <= from
  BY <1>1, <1>2, Header
<1>7. from <= p /\ p < EndOf(link)
  BY <1>2, <1>4, <1>5, <1>6
<1>8. p \in FreeBlocks(n, from)
  BY <1>4, <1>7, WalkIs DEF FreeBlocks
<1>9. nxtMCB(n, p) > x + size
  <2> SUFFICES ASSUME nxtMCB(n, p) <= x + size PROVE FALSE
    BY <1>5, <1>6
  <2> DEFINE y == nxtMCB(n, p)
  <2>1. y \in x .. x + size
    BY <1>4, <1>5, <1>6
  <2>2. y \in free
    BY <1>3, <2>1
  <2>3. y < EndOf(link) /\ y \in Nat
    BY <2>2 DEF FreeIn
  <2>4. PICK q \in DOMAIN n : mcbFree(n, q) /\ q <= y /\ y < nxtMCB(n, q)
    BY <2>2 DEF FreeIn
  <2>5. y # EndOf(link) /\ y # MemTop
    BY <1>2, <2>3, ChainLayout
  <2>6. y \in DOMAIN n /\ ~mcbFree(n, y)
    BY <1>6, <1>8, <2>5 DEF Joined
  <2>7. q \in Nat /\ (q < y => nxtMCB(n, q) <= y) /\ nxtMCB(n, q) \in Nat
    BY <1>1, <2>6, Header
  <2> HIDE DEF y
  <2>8. q = y
    BY <2>3, <2>4, <2>7
  <2>9. QED
    BY <2>4, <2>6, <2>8
<1>10. n[p].m_size >= size
  BY <1>4, <1>5, <1>6, <1>9
<1>11. QED
  BY <1>8, <1>10

\* What a search has joined is joined.
LEMMA JoinJoins ==
  ASSUME NEW m, NEW link, Chained(m, link), NEW from, Begins(from, link)
  PROVE  LET n == joinMCBs(m, FreeBlocks(m, from))
         IN /\ Chained(n, link) /\ SameBut(m, n, {})
            /\ Joined(n, from, link)
            /\ FreeIn(n, from, link) = FreeIn(m, from, link)
<1> DEFINE S == FreeBlocks(m, from)
           n == joinMCBs(m, S)
           e == EndOf(link)
<1>1. S \in SUBSET DOMAIN m /\ {p \in S : ~mcbFree(m, p)} = {}
  BY DEF FreeBlocks, Chain
<1>2. Chained(n, link) /\ SameBut(m, n, {}) /\ \A p : Owner(n, p) = Owner(m, p)
  BY <1>1, JoinKeeps
<1>3. FreeIn(n, from, link) = FreeIn(m, from, link)
  BY <1>2, FreeIsUnused, SameUsed
<1>4. ASSUME NEW p \in FreeBlocks(n, from), nxtMCB(n, p) # e
      PROVE  ~mcbFree(n, nxtMCB(n, p))
  <2> DEFINE l == LastJoined(m, p)
  <2>1. p \in DOMAIN n /\ from <= p /\ p < e /\ mcbFree(n, p) /\ nxtMCB(n, p) <= e
    BY <1>2, WalkIs DEF FreeBlocks
  <2>2. p \in DOMAIN m
    BY <2>1, JoinedAt
  <2>3. mcbFree(m, p)
    BY <1>2, <2>1, <2>2 DEF Owner, mcbFree
  <2>4. p \in S
    BY <2>1, <2>2, <2>3, WalkIs DEF FreeBlocks
  <2>5. n[p] = [m_type |-> m[l].m_type, m_psp |-> m[p].m_psp,
                m_size |-> nxtMCB(m, l) - p - 1]
    BY <2>1, <2>4, JoinedAt
  <2>6. l \in DOMAIN m /\ p <= l
        /\ (m[l].m_type = MCB_LAST \/ ~mcbFree(m, nxtMCB(m, l)))
    BY <2>2, JoinEnds
  <2> HIDE DEF l, n, S
  <2>7. p \in Nat /\ l \in Nat /\ nxtMCB(m, l) \in Nat /\ l < nxtMCB(m, l)
        /\ nxtMCB(m, l) \in DOMAIN m \cup {MemTop}
    BY <2>2, <2>6, Header DEF Chained
  <2>8. n[p].m_size = nxtMCB(m, l) - p - 1
    BY <2>5
  <2>9. nxtMCB(n, p) = nxtMCB(m, l)
    BY <2>7, <2>8 DEF nxtMCB
  <2>10. e \in Nat /\ e <= MemTop /\ MemTop \in Nat
    BY WalkIs, ChainLayout
  <2>11. nxtMCB(m, l) < e /\ l < e
    BY <1>4, <2>1, <2>7, <2>9, <2>10
  <2>12. m[l].m_type # MCB_LAST
    BY <1>4, <2>6, <2>9, <2>11, WalkIs
  <2>13. nxtMCB(n, p) \in DOMAIN m /\ ~mcbFree(m, nxtMCB(n, p))
    BY <2>6, <2>7, <2>9, <2>10, <2>11, <2>12
  <2>14. nxtMCB(n, p) \in DOMAIN n
    BY <1>2, <2>1, <2>7, <2>9, <2>10, <2>11, Header DEF Chained
  <2>15. QED
    BY <1>2, <2>13, <2>14 DEF Owner, mcbFree
<1>5. Joined(n, from, link)
  BY <1>4 DEF Joined
<1>6. QED
  BY <1>2, <1>3, <1>5

-----------------------------------------------------------------------------
(* Every search finds room if there is some                                *)

\* The result s of a search: no block if there is no room, or a block with
\* all its paragraphs free.
Finds(s, size, free) ==
  IF s.seg = NoSeg
  THEN ~RoomFor(free, size)
  ELSE s.seg .. s.seg + s.mcb[s.seg].m_size \subseteq free

\* One pass of the search, whatever the rule set.
LEMMA SearchFindsRoom ==
  ASSUME NEW m, NEW link, Chained(m, link), NEW from, Begins(from, link),
         NEW size \in Nat, NEW fit
  PROVE  LET s == Search(m, from, size, fit)
         IN Finds(s, size, FreeIn(m, from, link))
<1> DEFINE n == joinMCBs(m, FreeBlocks(m, from))
           fits == {p \in FreeBlocks(n, from) : n[p].m_size >= size}
           s == Search(m, from, size, fit)
           free == FreeIn(m, from, link)
<1>1. /\ Chained(n, link) /\ Joined(n, from, link)
      /\ FreeIn(n, from, link) = free
  BY JoinJoins
<1>2. SearchOf(m, s, size, link)
  BY SearchFinds
<1>3. fits \in SUBSET DOMAIN n
  BY DEF FreeBlocks, Chain
<1>4. fits = {} => s.seg = NoSeg
  BY DEF Search, Found
<1>5. fits # {} => s.seg = Chosen(n, fits, fit)
  BY DEF Search, Found
<1>6. fits # {} => Chosen(n, fits, fit) \in fits
  BY <1>1, <1>3, ChosenFits
<1> HIDE DEF s, n
<1>7. fits # {} => s.seg # NoSeg
  BY <1>1, <1>3, <1>5, <1>6, Header DEF Chained
<1>8. CASE s.seg = NoSeg
  <2>1. fits = {}
    BY <1>7, <1>8
  <2>2. ~RoomFor(free, size)
    BY <1>1, <2>1, RoomIsBlock
  <2>3. QED
    BY <1>8, <2>2 DEF Finds, s
<1>9. CASE s.seg # NoSeg
  <2>1. s.seg \in FreeBlocks(n, from)
    BY <1>4, <1>5, <1>6, <1>9
  <2>2. from <= s.seg /\ s.seg < EndOf(link)
    BY <1>1, <2>1, WalkIs DEF FreeBlocks
  <2>3. Chained(s.mcb, link) /\ SameBut(m, s.mcb, {})
        /\ s.seg \in DOMAIN s.mcb /\ mcbFree(s.mcb, s.seg)
    BY <1>2, <1>9 DEF SearchOf
  <2>4. s.seg \in FreeBlocks(s.mcb, from)
    BY <2>2, <2>3, WalkIs DEF FreeBlocks
  <2>5. FreeIn(s.mcb, from, link) = free
    BY <2>3, FreeIsUnused, SameUsed
  <2>6. s.seg .. s.seg + s.mcb[s.seg].m_size \subseteq free
    BY <2>3, <2>4, <2>5, BlockIsRoom
  <2>7. QED
    BY <1>9, <2>6 DEF Finds, s
<1>10. QED
  BY <1>8, <1>9

\* The allocation r gives a block of free paragraphs to psp, or there is no
\* room for it.
Room(r, size, psp, free) ==
  IF r.seg = NoSeg
  THEN ~RoomFor(free, size)
  ELSE /\ r.seg .. r.seg + size \subseteq free
       /\ r.mcb[r.seg].m_size = size /\ r.mcb[r.seg].m_psp = psp

\* A block that is given lies in the block that was found.
LEMMA GiveIn ==
  ASSUME NEW m, NEW link, Chained(m, link), NEW found \in DOMAIN m,
         mcbFree(m, found), NEW size \in Nat, m[found].m_size >= size,
         NEW fit, NEW psp \in Nat, NEW free,
         found .. found + m[found].m_size \subseteq free
  PROVE  LET r == Give(m, found, size, fit, psp)
         IN /\ r.seg # NoSeg /\ r.seg .. r.seg + size \subseteq free
            /\ r.mcb[r.seg].m_size = size /\ r.mcb[r.seg].m_psp = psp
<1> DEFINE r == Give(m, found, size, fit, psp)
           rest == m[found].m_size - size - 1
<1>1. /\ found \in Nat /\ found # NoSeg /\ found > 0 /\ m[found].m_size \in Nat
      /\ m[found].m_psp = FREE_PSP /\ m[found].m_psp # SYSTEM_PSP
      /\ FREE_PSP \in Nat
  BY Header DEF Chained, mcbFree, FREE_PSP, SYSTEM_PSP, NoSeg
<1>2. CASE m[found].m_size = size
  <2> DEFINE n == [m EXCEPT ![found].m_psp = psp]
  <2>1. r = [mcb |-> n, seg |-> found]
    BY <1>2 DEF Give
  <2>2. n = [m EXCEPT ![found].m_psp = psp]
    OBVIOUS
  <2> HIDE DEF n
  <2>3. n[found].m_psp = psp /\ n[found].m_size = m[found].m_size
    <3>1. m[found] \in [m_type : {MCB_NORMAL, MCB_LAST}, m_psp : Nat, m_size : Nat]
      BY Header DEF Chained, Block
    <3>2. n[found] = [m[found] EXCEPT !.m_psp = psp]
      BY <2>2
    <3>3. QED
      BY <3>1, <3>2
  <2>4. QED
    BY <1>1, <1>2, <2>1, <2>3
<1>3. CASE m[found].m_size # size /\ fit = LAST_FIT
  <2> DEFINE q == found + rest + 1
             n == Split(m, found, rest, FREE_PSP, psp)
  <2>1. r = [mcb |-> n, seg |-> q]
    BY <1>3 DEF Give
  <2>2. rest \in Nat /\ rest < m[found].m_size /\ q \in Nat /\ q > 0
        /\ m[found].m_size - rest - 1 = size /\ q + size = found + m[found].m_size
    BY <1>1, <1>3
  <2>3. SplitDone(m, n, found, q, rest, FREE_PSP, psp, link)
    BY <1>1, <2>2, SplitKeeps
  <2>4. q > found
    BY <1>1, <2>2
  <2> HIDE DEF rest, n, q
  <2>5. n[q].m_psp = psp /\ n[q].m_size = size
    BY <2>2, <2>3 DEF SplitDone
  <2>6. q .. q + size \subseteq found .. found + m[found].m_size
    BY <1>1, <2>2, <2>4
  <2>7. QED
    BY <2>1, <2>2, <2>5, <2>6 DEF NoSeg
<1>4. CASE m[found].m_size # size /\ fit # LAST_FIT
  <2> DEFINE q == found + size + 1
             n == Split(m, found, size, psp, FREE_PSP)
  <2>1. r = [mcb |-> n, seg |-> found]
    BY <1>4 DEF Give
  <2>2. size < m[found].m_size
    BY <1>1, <1>4
  <2>3. SplitDone(m, n, found, q, size, psp, FREE_PSP, link)
    BY <1>1, <2>2, SplitKeeps
  <2> HIDE DEF n, q
  <2>4. n[found].m_psp = psp /\ n[found].m_size = size
    BY <2>3 DEF SplitDone
  <2>5. found .. found + size \subseteq found .. found + m[found].m_size
    BY <1>1, <2>2
  <2>6. QED
    BY <1>1, <2>1, <2>4, <2>5
<1>5. QED
  BY <1>2, <1>3, <1>4

\* The end of a search.  A request is never for a block without paragraphs, so
\* that such a block counts as no room does not matter.
LEMMA TakenHasRoom ==
  ASSUME NEW m, NEW s, NEW link, NEW size \in Nat \ {0}, SearchOf(m, s, size, link),
         NEW fit, NEW psp \in Nat, NEW free, Finds(s, size, free)
  PROVE  Room(Taken(s, size, fit, psp), size, psp, free)
<1> DEFINE r == Taken(s, size, fit, psp)
<1>1. CASE s.seg = NoSeg
  BY <1>1 DEF Taken, NoRoom, Room, Finds
<1>2. CASE s.seg # NoSeg
  <2>1. /\ Chained(s.mcb, link) /\ s.seg \in DOMAIN s.mcb
        /\ mcbFree(s.mcb, s.seg) /\ s.mcb[s.seg].m_size >= size
        /\ s.seg .. s.seg + s.mcb[s.seg].m_size \subseteq free
    BY <1>2 DEF SearchOf, Finds
  <2>2. s.mcb[s.seg].m_size # 0
    BY <2>1
  <2>3. r = Give(s.mcb, s.seg, size, fit, psp)
    BY <1>2, <2>2 DEF Taken, NoRoom
  <2> HIDE DEF r
  <2>4. /\ r.seg # NoSeg /\ r.seg .. r.seg + size \subseteq free
        /\ r.mcb[r.seg].m_size = size /\ r.mcb[r.seg].m_psp = psp
    BY <2>1, <2>3, GiveIn
  <2>5. QED
    BY <2>4 DEF Room, r
<1>3. QED
  BY <1>1, <1>2

\* Where a search of some mode goes on that has found nothing in upper memory.
LowStart(mode, link) == StartOf([mode EXCEPT !.U = FALSE], link)

\* It is in front of where the search began: so a search of both looks at what a
\* walk from there sees.
LEMMA Starts ==
  ASSUME NEW mode \in Modes, NEW link, ~(mode.U /\ mode.UO)
  PROVE  LET low == [mode EXCEPT !.U = FALSE]
         IN /\ mode.U => StartOf(low, link) = first_mcb
            /\ ~mode.U => StartOf(low, link) = StartOf(mode, link)
            /\ link # 1 => /\ StartOf(mode, link) = first_mcb
                           /\ StartOf(low, link) = first_mcb
            /\ Begins(StartOf(mode, link), link)
            /\ Begins(StartOf(low, link), link)
<1>1. /\ mode.U \in BOOLEAN /\ mode.UO \in BOOLEAN
      /\ [mode EXCEPT !.U = FALSE].U = FALSE
      /\ [mode EXCEPT !.U = FALSE].UO = mode.UO
  BY DEF Modes
<1>2. QED
  BY <1>1 DEF StartOf, Begins

\* A walk that begins lower sees more.
LEMMA LowSeesMore ==
  ASSUME NEW m, NEW link, NEW from, Begins(from, link)
  PROVE  FreeIn(m, from, link) \subseteq FreeIn(m, first_mcb, link)
<1>1. from \in Nat /\ first_mcb \in Nat /\ first_mcb <= from
  BY ChainLayout DEF Begins
<1>2. QED
  BY <1>1 DEF FreeIn

\* A search that takes nothing leaves the same paragraphs free.
LEMMA FreeWhereSame ==
  ASSUME NEW m, NEW n, NEW link, Chained(m, link), Chained(n, link),
         SameBut(m, n, {}), NEW from, Begins(from, link)
  PROVE  FreeIn(n, from, link) = FreeIn(m, from, link)
  BY FreeIsUnused, SameUsed

\* DosMemAlloc finds room exactly if there is some, in each mode that a
\* program can set.
LEMMA DosMemAllocFinds ==
  ASSUME NEW m, NEW link, Chained(m, link), NEW size \in Nat \ {0},
         NEW mode \in Modes, ~(mode.U /\ mode.UO), NEW psp \in Nat
  PROVE  Room(DosMemAlloc(m, size, mode, link, psp), size, psp,
              FreeIn(m, LowStart(mode, link), link))
<1> DEFINE low == [mode EXCEPT !.U = FALSE]
           start == StartOf(mode, link)
           from == StartOf(low, link)
           s == Search(m, start, size, FitOf(mode))
           t == Search(s.mcb, from, size, FitOf(low))
           free == FreeIn(m, from, link)
<1>1. Begins(start, link) /\ Begins(from, link)
      /\ (mode.U => from = first_mcb) /\ (~mode.U => from = start)
      /\ (link # 1 => from = start)
  BY Starts
<1>2. LowStart(mode, link) = from
  BY DEF LowStart
<1> HIDE DEF low, start, from
<1>3. SearchOf(m, s, size, link) /\ Finds(s, size, FreeIn(m, start, link))
  BY <1>1, SearchFinds, SearchFindsRoom
<1>4. Chained(s.mcb, link) /\ SameBut(m, s.mcb, {})
  BY <1>3 DEF SearchOf
<1>5. SearchOf(s.mcb, t, size, link) /\ Finds(t, size, FreeIn(s.mcb, from, link))
  BY <1>1, <1>4, SearchFinds, SearchFindsRoom
<1>6. Finds(t, size, free)
  BY <1>1, <1>4, <1>5, FreeWhereSame
<1>7. SearchOf(m, t, size, link)
  BY <1>4, <1>5, SameAgain DEF SearchOf
<1>8. DosMemAlloc(m, size, mode, link, psp)
        = IF NoRoom(s, FitOf(mode)) /\ mode.U /\ link = 1
          THEN Taken(t, size, FitOf(low), psp)
          ELSE Taken(s, size, FitOf(mode), psp)
  BY DEF DosMemAlloc, SearchAgain, start, from, low
<1> HIDE DEF s, t
<1>9. CASE NoRoom(s, FitOf(mode)) /\ mode.U /\ link = 1
  <2>1. Room(Taken(t, size, FitOf(low), psp), size, psp, free)
    BY <1>6, <1>7, TakenHasRoom
  <2>2. QED
    BY <1>2, <1>8, <1>9, <2>1
<1>10. CASE ~(mode.U /\ link = 1)
  <2>1. from = start
    BY <1>1, <1>10
  <2>2. Finds(s, size, free)
    BY <1>3, <2>1
  <2>3. Room(Taken(s, size, FitOf(mode), psp), size, psp, free)
    BY <1>3, <2>2, TakenHasRoom
  <2>4. QED
    BY <1>2, <1>8, <1>10, <2>3
<1>11. CASE ~NoRoom(s, FitOf(mode)) /\ mode.U /\ link = 1
  <2>1. from = first_mcb /\ s.seg # NoSeg
    BY <1>1, <1>11 DEF NoRoom
  <2>2. FreeIn(m, start, link) \subseteq free
    BY <1>1, <2>1, LowSeesMore
  <2>3. Finds(s, size, free)
    BY <1>3, <2>1, <2>2 DEF Finds
  <2>4. Room(Taken(s, size, FitOf(mode), psp), size, psp, free)
    BY <1>3, <2>3, TakenHasRoom
  <2>5. QED
    BY <1>2, <1>8, <1>11, <2>4
<1>12. QED
  BY <1>9, <1>10, <1>11

\* size is the most that there is room for; 0 also stands for no room at all.
Most(size, free) ==
  /\ size \in Nat
  /\ size > 0 => RoomFor(free, size)
  /\ ~RoomFor(free, size + 1)

\* The search for the largest block finds the most that there is room for.
LEMMA LargestIsMost ==
  ASSUME NEW m, NEW link, Chained(m, link), NEW from, Begins(from, link)
  PROVE  Most(Largest(m, from).size, FreeIn(m, from, link))
<1> DEFINE n == joinMCBs(m, FreeBlocks(m, from))
           free == FreeIn(m, from, link)
           blocks == FreeBlocks(n, from)
           sizes == {n[p].m_size : p \in blocks}
           size == IF blocks = {} THEN 0 ELSE Max(sizes)
<1>1. /\ Chained(n, link) /\ Joined(n, from, link)
      /\ FreeIn(n, from, link) = free
  BY JoinJoins
<1>2. Largest(m, from).size = size
  BY DEF Largest, LargestOf
<1> HIDE DEF n
<1>3. \A p \in blocks : n[p].m_size \in 0 .. MemTop
  <2> TAKE p \in blocks
  <2>1. p \in DOMAIN n
    BY DEF FreeBlocks, Chain
  <2>2. /\ p \in Nat /\ n[p].m_size \in Nat
        /\ nxtMCB(n, p) = p + n[p].m_size + 1 /\ nxtMCB(n, p) <= MemTop
    BY <1>1, <2>1, Header DEF Chained
  <2>3. QED
    BY <2>2, ChainLayout
<1>4. blocks # {} => Max(sizes) \in sizes /\ \A y \in sizes : Max(sizes) >= y
  <2>1. sizes \subseteq 0 .. MemTop /\ MemTop \in Nat
    BY <1>3, ChainLayout
  <2>2. QED
    BY <2>1, MaxOf
<1>5. size \in Nat
  BY <1>3, <1>4
<1>6. \A p \in blocks : n[p].m_size \in Nat /\ n[p].m_size <= size
  BY <1>3, <1>4
<1>7. ASSUME size > 0 PROVE RoomFor(free, size)
  <2>1. PICK p \in blocks : n[p].m_size = size
    BY <1>4, <1>7
  <2> HIDE DEF size
  <2>2. /\ p \in Nat /\ n[p].m_size \in Nat
        /\ p .. p + n[p].m_size \subseteq FreeIn(n, from, link)
    BY <1>1, BlockIsRoom
  <2>3. p .. p + size \subseteq free /\ p \in p .. p + size
    BY <1>1, <1>5, <2>1, <2>2
  <2>4. QED
    BY <2>3 DEF RoomFor
<1>8. ~RoomFor(free, size + 1)
  <2> SUFFICES ASSUME RoomFor(free, size + 1) PROVE FALSE
    OBVIOUS
  <2>a. size + 1 \in Nat
    BY <1>5
  <2> HIDE DEF size
  <2>1. PICK p \in blocks : n[p].m_size >= size + 1
    BY <1>1, <2>a, RoomIsBlock
  <2>2. QED
    BY <1>5, <1>6, <2>1
<1>9. QED
  BY <1>2, <1>5, <1>7, <1>8 DEF Most

\* Of two walks, one of which sees more, the larger answer is the most.
LEMMA MostOfTwo ==
  ASSUME NEW free, NEW more, free \subseteq more, more \subseteq Nat, NEW a, NEW b,
         Most(a, free), Most(b, more)
  PROVE  Most(IF b > a THEN b ELSE a, more)
<1>1. a \in Nat /\ b \in Nat
  BY DEF Most
<1>2. RoomFor(free, a) => RoomFor(more, a)
  BY DEF RoomFor
<1>3. ASSUME a >= b, RoomFor(more, a + 1) PROVE FALSE
  <2>1. PICK x \in more : x .. x + (a + 1) \subseteq more
    BY <1>3 DEF RoomFor
  <2>2. x \in Nat
    OBVIOUS
  <2>3. x .. x + (b + 1) \subseteq x .. x + (a + 1)
    BY <1>1, <1>3, <2>2
  <2>4. QED
    BY <2>1, <2>3 DEF RoomFor, Most
<1>4. QED
  BY <1>1, <1>2, <1>3 DEF Most

\* The largest size that DosMemAlloc reports, with low memory when upper
\* memory comes first.
LEMMA DosMemLargestIsMost ==
  ASSUME NEW m, NEW link, Chained(m, link), NEW mode \in Modes, ~(mode.U /\ mode.UO)
  PROVE  Most(DosMemLargest(m, mode, link).size, FreeIn(m, LowStart(mode, link), link))
<1> DEFINE low == [mode EXCEPT !.U = FALSE]
           start == StartOf(mode, link)
           from == StartOf(low, link)
           high == Largest(m, start)
           l == Largest(high.mcb, from)
           free == FreeIn(m, from, link)
<1>1. Begins(start, link) /\ Begins(from, link)
      /\ (mode.U => from = first_mcb) /\ (~mode.U => from = start)
  BY Starts
<1>2. LowStart(mode, link) = from
  BY DEF LowStart
<1>3. DosMemLargest(m, mode, link).size
        = IF mode.U THEN (IF l.size > high.size THEN l.size ELSE high.size)
                    ELSE high.size
  BY DEF DosMemLargest, LowToo, LargerOf
<1> HIDE DEF low, start, from
<1>4. Most(high.size, FreeIn(m, start, link))
  BY <1>1, LargestIsMost
<1>5. SearchOf(m, high, 0, link)
  BY LargestKeeps
<1>6. Chained(high.mcb, link) /\ SameBut(m, high.mcb, {})
  BY <1>5 DEF SearchOf
<1>7. Most(l.size, FreeIn(high.mcb, from, link))
  BY <1>1, <1>6, LargestIsMost
<1>8. Most(l.size, free)
  BY <1>1, <1>6, <1>7, FreeWhereSame
<1> HIDE DEF high, l
<1>9. CASE mode.U
  <2>1. FreeIn(m, start, link) \subseteq free /\ free \subseteq Nat
    BY <1>1, <1>9, LowSeesMore DEF FreeIn
  <2>2. Most(IF l.size > high.size THEN l.size ELSE high.size, free)
    BY <1>4, <1>8, <2>1, MostOfTwo
  <2>3. QED
    BY <1>2, <1>3, <1>9, <2>2
<1>10. CASE ~mode.U
  BY <1>1, <1>2, <1>3, <1>4, <1>10
<1>11. QED
  BY <1>9, <1>10

\* A program that asks for the size that it was told gets it, and one paragraph
\* more is not there.
LEMMA LargestCanBeHad ==
  ASSUME NEW m, NEW link, Chained(m, link), NEW mode \in Modes,
         ~(mode.U /\ mode.UO), NEW psp \in Nat
  PROVE  LET l == DosMemLargest(m, mode, link)
         IN /\ l.size > 0 => DosMemAlloc(l.mcb, l.size, mode, link, psp).seg # NoSeg
            /\ DosMemAlloc(l.mcb, l.size + 1, mode, link, psp).seg = NoSeg
<1> DEFINE l == DosMemLargest(m, mode, link)
           from == LowStart(mode, link)
           free == FreeIn(m, from, link)
<1>1. Most(l.size, free)
  BY DosMemLargestIsMost
<1>2. Chained(l.mcb, link) /\ SameBut(m, l.mcb, {})
  BY DosMemLargestKeeps
<1>3. Begins(from, link)
  BY Starts DEF LowStart
<1>4. FreeIn(l.mcb, from, link) = free
  BY <1>2, <1>3, FreeWhereSame
<1> HIDE DEF l, from
<1>5. \A size \in Nat \ {0} :
        LET r == DosMemAlloc(l.mcb, size, mode, link, psp)
        IN Room(r, size, psp, free)
  BY <1>2, <1>4, DosMemAllocFinds DEF from
<1>6. \A size \in Nat \ {0} :
        DosMemAlloc(l.mcb, size, mode, link, psp).seg # NoSeg => RoomFor(free, size)
  <2> SUFFICES ASSUME NEW size \in Nat \ {0}, NEW r,
                      r = DosMemAlloc(l.mcb, size, mode, link, psp), r.seg # NoSeg
               PROVE  RoomFor(free, size)
    OBVIOUS
  <2>1. r.seg .. r.seg + size \subseteq free
    BY <1>5 DEF Room
  <2>2. AllocationOf(l.mcb, r, psp, link)
    BY <1>2, DosMemAllocTakes
  <2>3. r.seg \in Nat
    BY <2>2, Header DEF AllocationOf, Chained
  <2>4. r.seg \in r.seg .. r.seg + size
    BY <2>3
  <2>5. QED
    BY <2>1, <2>4 DEF RoomFor
<1>7. l.size > 0 => DosMemAlloc(l.mcb, l.size, mode, link, psp).seg # NoSeg
  <2> SUFFICES ASSUME l.size > 0
               PROVE  DosMemAlloc(l.mcb, l.size, mode, link, psp).seg # NoSeg
    OBVIOUS
  <2>1. l.size \in Nat \ {0} /\ RoomFor(free, l.size)
    BY <1>1 DEF Most
  <2>2. QED
    BY <1>5, <2>1 DEF Room
<1>8. DosMemAlloc(l.mcb, l.size + 1, mode, link, psp).seg = NoSeg
  <2>1. l.size + 1 \in Nat \ {0} /\ ~RoomFor(free, l.size + 1)
    BY <1>1 DEF Most
  <2>2. QED
    BY <1>6, <2>1
<1>9. QED
  BY <1>7, <1>8 DEF l
=============================================================================
