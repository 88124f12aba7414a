-------------------------- MODULE BlockCacheProofs --------------------------
(***************************************************************************)
(* Theorems of BlockCache: no block is in two buffers, a clean buffer can  *)
(* be given up, the copies of the FAT agree, link_fat holds two buffers,   *)
(* and the buffers implement BlockDisk.                                    *)
(*                                                                         *)
(* A call that finds no buffer flushes one and fills it.  The lemmas speak *)
(* of buffers B, those in the chain L, media D and M, blocks A that are    *)
(* astray and blocks P whose copies are apart, so that the state between   *)
(* the two can be named.                                                   *)
(***************************************************************************)
EXTENDS BlockCache, FiniteSetTheorems, TLAPS

Records == [blk : Blocks \cup {NoBlock}, flag : SUBSET Flags, data : Values]

Holds(B, L, b, k) == b \in L /\ "VALID" \in B[b].flag /\ B[b].blk = k
Changed(B, b) == "DIRTY" \in B[b].flag

\* The invariant of buffers and media.
Typed(B, L, D, M) ==
  /\ B \in [Bufs -> Records] /\ L \subseteq Bufs
  /\ D \in [Blocks -> Values] /\ M \in [FatBlocks -> Values]

Flagged(B) ==
  \A b \in Bufs : "VALID" \in B[b].flag =>
    B[b].blk \in Blocks /\ ("FAT" \in B[b].flag <=> B[b].blk \in FatBlocks)

Single(B, L) == \A b, c \in Bufs : \A k : Holds(B, L, b, k) /\ Holds(B, L, c, k) => b = c

CleanAgrees(B, L, D, A) ==
  \A b \in Bufs, k \in Blocks \ A :
    Holds(B, L, b, k) /\ ~Changed(B, b) => D[k] = B[b].data

CopiesAgree(D, M, P) == \A k \in FatBlocks \ P : M[k] = D[k]

Good(B, L, D, M, A, P) ==
  /\ Typed(B, L, D, M) /\ Flagged(B) /\ Single(B, L)
  /\ CleanAgrees(B, L, D, A) /\ CopiesAgree(D, M, P)

\* A reader of block k gets v.
Sees(B, L, D, k, v) ==
  \/ \E b \in Bufs : Holds(B, L, b, k) /\ v = B[b].data
  \/ (\A b \in Bufs : ~Holds(B, L, b, k)) /\ v = D[k]

\* The medium of a block that showed x goes from d to e while v is stored in
\* the blocks S.
Reaches(S, v, k, x, d, e) ==
  \/ e \in {d, x}
  \/ k \in S /\ e = v
  \/ k \in Weak /\ e = Garbage

\* The block shows w now, with e on its medium.
Becomes(S, v, k, x, w, e, A, A2) ==
  \/ w = IF k \in S THEN v ELSE x
  \/ w = Garbage /\ x = Garbage
  \/ w = e /\ k \in A \cup A2
  \/ w = Garbage /\ k \in A2 /\ Weak # {}

\* From (B, L, D, A) to (B2, L2, D2, A2) every block does as BlockDisk says.
Moves(B, L, D, A, B2, L2, D2, A2, S, v) ==
  \A k \in Blocks : \A x, w :
    Sees(B, L, D, k, x) /\ Sees(B2, L2, D2, k, w) =>
      Reaches(S, v, k, x, D[k], D2[k]) /\ Becomes(S, v, k, x, w, D2[k], A, A2)

Placed ==
  /\ place \in [Bufs -> 0 .. Cardinality(Bufs)]
  /\ \A b, c \in Linked : place[b] = place[c] => b = c
  /\ Kept \subseteq Linked

\* link_fat: the first buffer is in front until the second one is found.
LinkInv ==
  \/ link = NoLink
  \/ /\ link.blk \in FatBlocks /\ After(link.blk) \in FatBlocks
     /\ link \in [blk : FatBlocks, bp : Bufs, bp1 : Bufs \cup {NoBuf}]
     /\ Holds(buf, Linked, link.bp, link.blk)
     /\ IF link.bp1 = NoBuf
        THEN place[link.bp] = 1 /\ "UNCACHE" \notin buf[link.bp].flag
        ELSE link.bp # link.bp1 /\ Holds(buf, Linked, link.bp1, After(link.blk))

IInv ==
  /\ Good(buf, Linked, disk, mirror, astray, apart)
  /\ Placed /\ LinkInv /\ astray \subseteq Blocks /\ apart \subseteq FatBlocks

-----------------------------------------------------------------------------
(* Flushing.                                                               *)

Unsaved(r) == {"VALID", "DIRTY"} \subseteq r.flag

\* The dirty buffers of G are written to D2 and M2, others of F may be.  The
\* blocks of which a write failed are bad.
WrittenTo(B, F, G, D, D2, M2, P2, bad) ==
  /\ D2 \in [Blocks -> Values] /\ M2 \in [FatBlocks -> Values]
  /\ \A k \in Blocks :
       \/ D2[k] = D[k]
       \/ \E b \in F : /\ Unsaved(B[b]) /\ B[b].blk = k
                       /\ D2[k] = B[b].data \/ (D2[k] = Garbage /\ k \in Weak)
  /\ \A b \in G : Unsaved(B[b]) /\ B[b].blk \notin bad => D2[B[b].blk] = B[b].data
  /\ CopiesAgree(D2, M2, P2)

\* A block that was astray is so still, unless it was written.
StillAstray(B, G, A, A2, bad) ==
  \A k \in Blocks \ A2 :
    k \notin bad /\ (k \in A => \E b \in G : Unsaved(B[b]) /\ B[b].blk = k)

\* A buffer may hold garbage of a block that is astray.
Garbled(B, B2, b, A2) == B2[b].data = Garbage /\ B[b].blk \in A2 /\ Weak # {}

\* The buffers of G become invalid or clean, and only they leave the chain.
Dropped(B, L, B2, L2, G, A2) ==
  /\ B2 \in [Bufs -> Records] /\ L2 \subseteq L /\ L \ L2 \subseteq G
  /\ \A b \in Bufs :
       \/ b \in G /\ "VALID" \notin B2[b].flag
       \/ /\ B2[b].blk = B[b].blk
          /\ \A f \in {"VALID", "FAT"} : f \in B2[b].flag <=> f \in B[b].flag
          /\ IF b \in G
             THEN ~Changed(B2, b) /\ (B2[b].data = B[b].data \/ Garbled(B, B2, b, A2))
             ELSE (Changed(B2, b) <=> Changed(B, b)) /\ B2[b].data = B[b].data

\* A flush keeps the invariant, and stores nothing.
LEMMA FlushKeeps ==
  ASSUME NEW B, NEW L, NEW D, NEW M, NEW A, NEW P, NEW F, NEW G,
         NEW B2, NEW L2, NEW D2, NEW M2, NEW A2, NEW P2, NEW bad,
         Good(B, L, D, M, A, P), F \subseteq L, G \subseteq F,
         WrittenTo(B, F, G, D, D2, M2, P2, bad), StillAstray(B, G, A, A2, bad),
         Dropped(B, L, B2, L2, G, A2)
  PROVE  /\ Good(B2, L2, D2, M2, A2, P2)
         /\ \A v : Moves(B, L, D, A, B2, L2, D2, A2, {}, v)
<1> USE CacheBlocks
<1>1. Typed(B2, L2, D2, M2)
  BY DEF Good, Typed, WrittenTo, Dropped
<1>2. \A b \in Bufs : B[b] \in Records
  BY DEF Good, Typed
<1>3. Flagged(B2)
  BY DEF Good, Flagged, Dropped
<1>4. \A b \in Bufs : \A k : Holds(B2, L2, b, k) => Holds(B, L, b, k)
  BY DEF Holds, Dropped
<1>5. Single(B2, L2)
  BY <1>4 DEF Good, Single
<1>6. \A b \in Bufs : \A k : Holds(B, L, b, k) => k \in Blocks
  BY DEF Holds, Good, Flagged
<1>7. ASSUME NEW k, NEW c \in F, Unsaved(B[c]), B[c].blk = k
      PROVE  c \in Bufs /\ Holds(B, L, c, k) /\ Changed(B, c)
  BY <1>7 DEF Holds, Changed, Unsaved, Good, Typed
<1>8. ASSUME NEW k \in Blocks, NEW b \in Bufs, Holds(B, L, b, k), ~Changed(B, b)
      PROVE  D2[k] = D[k] /\ (k \in A => k \in A2)
  <2>1. \A c \in F : ~(Unsaved(B[c]) /\ B[c].blk = k)
    BY <1>7, <1>8 DEF Good, Single
  <2> QED
    BY <2>1 DEF WrittenTo, StillAstray
<1>9. ASSUME NEW k \in Blocks, NEW b \in G, Holds(B, L, b, k), Changed(B, b)
      PROVE  D2[k] = B[b].data \/ k \in A2
  <2>1. Unsaved(B[b]) /\ B[b].blk = k
    BY <1>9 DEF Holds, Changed, Unsaved
  <2> QED
    BY <2>1 DEF WrittenTo, StillAstray
<1>10. CleanAgrees(B2, L2, D2, A2)
  <2>1. SUFFICES ASSUME NEW b \in Bufs, NEW k \in Blocks \ A2,
                        Holds(B2, L2, b, k), ~Changed(B2, b)
                 PROVE  D2[k] = B2[b].data
    BY DEF CleanAgrees
  <2>2. Holds(B, L, b, k) /\ B[b].blk = k
    BY <2>1, <1>4 DEF Holds
  <2>3. B2[b].data = B[b].data
    BY <2>1, <2>2 DEF Dropped, Garbled, Holds
  <2>4. CASE Changed(B, b)
    <3>1. b \in G
      BY <2>1, <2>4 DEF Dropped, Holds
    <3> QED
      BY <3>1, <2>1, <2>2, <2>3, <2>4, <1>9
  <2>5. CASE ~Changed(B, b)
    <3>1. D2[k] = D[k] /\ k \notin A
      BY <1>8, <2>1, <2>2, <2>5
    <3> QED
      BY <3>1, <2>2, <2>3, <2>5 DEF Good, CleanAgrees
  <2> QED
    BY <2>4, <2>5
<1>11. CopiesAgree(D2, M2, P2)
  BY DEF WrittenTo
<1>12. ASSUME NEW k \in Blocks, NEW x, NEW w, Sees(B, L, D, k, x), Sees(B2, L2, D2, k, w)
       PROVE  /\ D2[k] \in {D[k], x} \/ (k \in Weak /\ D2[k] = Garbage)
              /\ w = x \/ (w = D2[k] /\ k \in A \cup A2) \/ (w = Garbage /\ k \in A2 /\ Weak # {})
  <2>1. CASE \E b \in Bufs : Holds(B, L, b, k)
    <3>1. PICK b \in Bufs : Holds(B, L, b, k)
      BY <2>1
    <3>2. x = B[b].data /\ B[b].blk = k
      BY <1>12, <3>1 DEF Sees, Good, Single, Holds
    <3>3. D2[k] \in {D[k], x} \/ (k \in Weak /\ D2[k] = Garbage)
      <4>1. CASE D2[k] = D[k]
        BY <4>1
      <4>2. CASE D2[k] # D[k]
        <5>1. PICK c \in F : /\ Unsaved(B[c]) /\ B[c].blk = k
                             /\ D2[k] = B[c].data \/ (D2[k] = Garbage /\ k \in Weak)
          BY <4>2 DEF WrittenTo
        <5>2. c = b
          BY <5>1, <3>1, <1>7 DEF Good, Single
        <5> QED
          BY <5>1, <5>2, <3>2
      <4> QED
        BY <4>1, <4>2
    <3>4. CASE Holds(B2, L2, b, k)
      <4>1. w = B2[b].data
        BY <1>12, <3>4, <1>5 DEF Sees, Single
      <4>2. B2[b].data = B[b].data \/ Garbled(B, B2, b, A2)
        BY <3>4 DEF Dropped, Holds
      <4> QED
        BY <4>1, <4>2, <3>2, <3>3 DEF Garbled
    <3>5. CASE ~Holds(B2, L2, b, k)
      <4>1. b \in G
        BY <3>1, <3>5 DEF Dropped, Holds
      <4>2. \A c \in Bufs : ~Holds(B2, L2, c, k)
        BY <3>1, <3>5, <1>4 DEF Good, Single
      <4>3. w = D2[k]
        BY <4>2, <1>12 DEF Sees
      <4>4. CASE Changed(B, b)
        BY <4>1, <4>3, <4>4, <3>1, <3>2, <3>3, <1>9
      <4>5. CASE ~Changed(B, b)
        <5>1. w = D[k] /\ (k \notin A => D[k] = x)
          BY <4>3, <4>5, <1>8, <3>1, <3>2 DEF Good, CleanAgrees
        <5> QED
          BY <5>1, <4>3, <3>3
      <4> QED
        BY <4>4, <4>5
    <3> QED
      BY <3>4, <3>5
  <2>2. CASE \A b \in Bufs : ~Holds(B, L, b, k)
    <3>1. x = D[k] /\ w = D2[k]
      BY <1>12, <2>2, <1>4 DEF Sees
    <3>2. D2[k] = D[k]
      BY <2>2, <1>7 DEF WrittenTo
    <3> QED
      BY <3>1, <3>2
  <2> QED
    BY <2>1, <2>2
<1>13. ASSUME NEW v PROVE Moves(B, L, D, A, B2, L2, D2, A2, {}, v)
  BY <1>12 DEF Moves, Reaches, Becomes
<1> QED
  BY <1>1, <1>3, <1>5, <1>10, <1>11, <1>13 DEF Good

\* Blocks of U are written behind the buffers: those that hold them are
\* emptied, or the blocks are astray.
Renewed(B, L, D, M, A, P, B2, D2, M2, A2, P2, U) ==
  /\ D2 \in [Blocks -> Values] /\ M2 \in [FatBlocks -> Values]
  /\ \A b \in Bufs : B2[b] = B[b] \/ (B2[b] = Empty /\ (b \in L => B[b].blk \in U))
  /\ B2 \in [Bufs -> Records]
  /\ \A k \in Blocks \ U : D2[k] = D[k]
  /\ \A k \in FatBlocks \ P2 : (k \notin P /\ D2[k] = D[k] /\ M2[k] = M[k]) \/ M2[k] = D2[k]
  /\ \A k \in U \ A2 :
       (\A b \in Bufs : ~Holds(B2, L, b, k)) \/ (D2[k] = D[k] /\ k \notin A)
  /\ A \ U \subseteq A2

\* The blocks of U are as they were, or as they are on the medium.
Restarts(B, L, D, B2, L2, D2, A2, U) ==
  \A k \in Blocks : \A x, w :
    Sees(B, L, D, k, x) /\ Sees(B2, L2, D2, k, w) =>
      IF k \in U THEN w = D2[k] \/ (w = x /\ (D2[k] = D[k] \/ k \in A2)) ELSE w = x

LEMMA RenewKeeps ==
  ASSUME NEW B, NEW L, NEW D, NEW M, NEW A, NEW P, NEW B2, NEW D2, NEW M2, NEW A2, NEW P2,
         NEW U, Good(B, L, D, M, A, P), Renewed(B, L, D, M, A, P, B2, D2, M2, A2, P2, U)
  PROVE  Good(B2, L, D2, M2, A2, P2) /\ Restarts(B, L, D, B2, L, D2, A2, U)
<1> USE CacheBlocks
<1>1. Typed(B2, L, D2, M2)
  BY DEF Good, Typed, Renewed
<1>2. \A b \in Bufs : "VALID" \in B2[b].flag => B2[b] = B[b]
  BY DEF Renewed, Empty
<1>3. Flagged(B2)
  BY <1>2 DEF Good, Flagged
<1>4. \A b \in Bufs : \A k : Holds(B2, L, b, k) => Holds(B, L, b, k)
  BY <1>2 DEF Holds
<1>5. Single(B2, L)
  BY <1>4 DEF Good, Single
<1>6. CleanAgrees(B2, L, D2, A2)
  <2>1. SUFFICES ASSUME NEW b \in Bufs, NEW k \in Blocks \ A2,
                        Holds(B2, L, b, k), ~Changed(B2, b)
                 PROVE  D2[k] = B2[b].data
    BY DEF CleanAgrees
  <2>2. D2[k] = D[k] /\ k \notin A
    BY <2>1 DEF Renewed
  <2> QED
    BY <2>1, <2>2, <1>2, <1>4 DEF Good, CleanAgrees, Holds, Changed
<1>7. CopiesAgree(D2, M2, P2)
  BY DEF Good, CopiesAgree, Renewed
<1>8. ASSUME NEW k \in Blocks, NEW x, NEW w, Sees(B, L, D, k, x), Sees(B2, L, D2, k, w)
      PROVE  IF k \in U THEN w = D2[k] \/ (w = x /\ (D2[k] = D[k] \/ k \in A2)) ELSE w = x
  <2>1. CASE k \notin U
    <3>1. D2[k] = D[k]
      BY <2>1 DEF Renewed
    <3>2. \A b \in Bufs : Holds(B, L, b, k) => B2[b] = B[b] /\ Holds(B2, L, b, k)
      BY <2>1 DEF Renewed, Holds
    <3> QED
      BY <1>8, <2>1, <3>1, <3>2, <1>4, <1>5 DEF Sees, Single, Good
  <2>2. CASE k \in U
    <3>1. CASE \E b \in Bufs : Holds(B2, L, b, k)
      <4>1. PICK b \in Bufs : Holds(B2, L, b, k)
        BY <3>1
      <4>2. w = B2[b].data /\ x = B[b].data /\ B2[b] = B[b]
        BY <4>1, <1>8, <1>2, <1>4, <1>5 DEF Sees, Single, Good, Holds
      <4>3. D2[k] = D[k] \/ k \in A2
        BY <4>1, <2>2 DEF Renewed
      <4> QED
        BY <4>2, <4>3, <2>2
    <3>2. CASE \A b \in Bufs : ~Holds(B2, L, b, k)
      BY <3>2, <2>2, <1>8 DEF Sees
    <3> QED
      BY <3>1, <3>2
  <2> QED
    BY <2>1, <2>2
<1> QED
  BY <1>1, <1>3, <1>5, <1>6, <1>7, <1>8 DEF Good, Restarts

-----------------------------------------------------------------------------
(* A buffer that is read, filled or changed.                               *)

LEMMA UsedFacts ==
  ASSUME NEW r \in Records, NEW use \in Uses, r.blk \in Blocks, "VALID" \in r.flag
  PROVE  LET n == Used(r, use) IN
         /\ n \in Records /\ n.blk = r.blk /\ "VALID" \in n.flag
         /\ "FAT" \in n.flag <=> r.blk \in FatBlocks
         /\ "DIRTY" \in n.flag <=> "DIRTY" \in r.flag \/ use.w # NoBlock
         /\ "UNCACHE" \in n.flag <=> use.spare
         /\ n.data = IF use.w = NoBlock \/ (r.data = Garbage /\ ~use.over)
                     THEN r.data ELSE use.w
<1>1. Used(r, use).flag \subseteq Flags
  BY DEF Used, Records, Flags
<1>2. Used(r, use).data \in Values
  BY DEF Used, Records, Uses, Values
<1>3. Used(r, use) \in Records
  BY <1>1, <1>2 DEF Used, Records
<1> QED
  BY <1>3 DEF Used, Uses

\* Buffer b, which holds k or nothing, becomes n, which holds k.
Refilled(B, L, D, A, A2, b, k, n, B2) ==
  /\ B2 = [B EXCEPT ![b] = n]
  /\ n \in Records /\ n.blk = k /\ "VALID" \in n.flag
  /\ "FAT" \in n.flag <=> k \in FatBlocks
  /\ \A c \in Bufs : Holds(B, L, c, k) => c = b
  /\ "VALID" \in B[b].flag => B[b].blk = k
  /\ "DIRTY" \in n.flag \/ k \in A2 \/ D[k] = n.data
  /\ \A j \in Blocks \ {k} : j \in A <=> j \in A2

\* Block k shows v now, the others what they did.
Shows(B, L, D, B2, k, v) ==
  \A j \in Blocks : \A x, w :
    Sees(B, L, D, j, x) /\ Sees(B2, L, D, j, w) => w = IF j = k THEN v ELSE x

LEMMA RefillKeeps ==
  ASSUME NEW B, NEW L, NEW D, NEW M, NEW A, NEW P, NEW b \in L, NEW k \in Blocks, NEW n,
         NEW B2, NEW A2, Good(B, L, D, M, A, P), Refilled(B, L, D, A, A2, b, k, n, B2)
  PROVE  Good(B2, L, D, M, A2, P) /\ Holds(B2, L, b, k) /\ Shows(B, L, D, B2, k, n.data)
<1> USE CacheBlocks
<1>1. /\ b \in Bufs /\ B \in [Bufs -> Records] /\ B2 \in [Bufs -> Records]
      /\ B2[b] = n /\ \A c \in Bufs : c # b => B2[c] = B[c]
  BY DEF Good, Typed, Refilled
<1>2. Typed(B2, L, D, M)
  BY <1>1 DEF Good, Typed
<1>3. Flagged(B2)
  BY <1>1 DEF Good, Flagged, Refilled
<1>4. \A c \in Bufs : c # b => \A j : Holds(B2, L, c, j) <=> Holds(B, L, c, j)
  BY <1>1 DEF Holds
<1>5. \A j : /\ Holds(B2, L, b, j) <=> j = k
             /\ Holds(B, L, b, j) => j = k
  BY <1>1 DEF Holds, Refilled
<1>6. \A c \in Bufs : Holds(B, L, c, k) => c = b
  BY DEF Refilled
<1>7. Single(B2, L)
  <2>1. SUFFICES ASSUME NEW c \in Bufs, NEW e \in Bufs, NEW j,
                        Holds(B2, L, c, j), Holds(B2, L, e, j)
                 PROVE  c = e
    BY DEF Single
  <2>2. CASE j = k
    BY <2>1, <2>2, <1>4, <1>6
  <2>3. CASE j # k
    <3>1. Holds(B, L, c, j) /\ Holds(B, L, e, j)
      BY <2>1, <2>3, <1>4, <1>5
    <3> QED
      BY <3>1 DEF Good, Single
  <2> QED
    BY <2>2, <2>3
<1>8. CleanAgrees(B2, L, D, A2)
  <2>1. SUFFICES ASSUME NEW c \in Bufs, NEW j \in Blocks \ A2,
                        Holds(B2, L, c, j), ~Changed(B2, c)
                 PROVE  D[j] = B2[c].data
    BY DEF CleanAgrees
  <2>2. CASE c = b
    BY <2>1, <2>2, <1>1, <1>5 DEF Refilled, Changed
  <2>3. CASE c # b
    <3>1. Holds(B, L, c, j) /\ j # k
      BY <2>1, <2>3, <1>4, <1>6
    <3>2. j \notin A
      BY <2>1, <3>1 DEF Refilled
    <3> QED
      BY <2>1, <2>3, <3>1, <3>2, <1>1 DEF Good, CleanAgrees, Changed
  <2> QED
    BY <2>2, <2>3
<1>9. CopiesAgree(D, M, P)
  BY DEF Good
<1>10. ASSUME NEW j \in Blocks, NEW v, NEW w, Sees(B, L, D, j, v), Sees(B2, L, D, j, w)
       PROVE  w = IF j = k THEN n.data ELSE v
  <2>1. CASE j = k
    BY <2>1, <1>10, <1>1, <1>5, <1>7 DEF Sees, Single
  <2>2. CASE j # k
    <3>1. \A c \in Bufs : Holds(B2, L, c, j) <=> Holds(B, L, c, j)
      BY <2>2, <1>4, <1>5
    <3>2. \A c \in Bufs : Holds(B, L, c, j) => B2[c].data = B[c].data
      BY <2>2, <1>1, <1>5
    <3> QED
      BY <2>2, <3>1, <3>2, <1>10 DEF Sees, Good, Single
  <2> QED
    BY <2>1, <2>2
<1> QED
  BY <1>2, <1>3, <1>5, <1>7, <1>8, <1>9, <1>10 DEF Good, Shows

\* A block that showed x shows w, after it was used.
TakenAs(use, k, x, w, A2) ==
  \/ use.w # NoBlock /\ w = use.w
  \/ w = x /\ (use.w = NoBlock \/ x = Garbage)
  \/ w = Garbage /\ k \in A2 /\ Weak # {}

\* Buffer b holds k now, as it was used; the others are what they were.
Has(B, L, D, M, P, A2, b, k, use, B2) ==
  /\ Good(B2, L, D, M, A2, P) /\ Holds(B2, L, b, k)
  /\ \A j \in Blocks : \A x, w :
       Sees(B, L, D, j, x) /\ Sees(B2, L, D, j, w) =>
         IF j = k THEN TakenAs(use, k, x, w, A2) ELSE w = x
  /\ "UNCACHE" \in B2[b].flag <=> use.spare
  /\ \A c \in Bufs \ {b} : B2[c] = B[c]

\* A buffer that holds its block is used.
UsedIn(B, b, use, B2) == B2 = [B EXCEPT ![b] = Used(@, use)]

LEMMA UseKeeps ==
  ASSUME NEW B, NEW L, NEW D, NEW M, NEW A, NEW P, NEW b \in L, NEW k \in Blocks,
         NEW use \in Uses, use.over => use.w # NoBlock,
         Good(B, L, D, M, A, P), Holds(B, L, b, k), NEW B2, UsedIn(B, b, use, B2)
  PROVE  Has(B, L, D, M, P, A, b, k, use, B2)
<1> DEFINE n == Used(B[b], use)
<1>1. /\ b \in Bufs /\ B[b] \in Records /\ B[b].blk = k /\ "VALID" \in B[b].flag
      /\ B \in [Bufs -> Records]
  BY DEF Good, Typed, Holds
<1>2. /\ n \in Records /\ n.blk = k /\ "VALID" \in n.flag
      /\ "FAT" \in n.flag <=> k \in FatBlocks
      /\ "DIRTY" \in n.flag <=> "DIRTY" \in B[b].flag \/ use.w # NoBlock
      /\ "UNCACHE" \in n.flag <=> use.spare
      /\ n.data = IF use.w = NoBlock \/ (B[b].data = Garbage /\ ~use.over)
                  THEN B[b].data ELSE use.w
  BY <1>1, UsedFacts
<1> HIDE DEF n
<1>3. "DIRTY" \in n.flag \/ k \in A \/ D[k] = n.data
  BY <1>1, <1>2 DEF Good, CleanAgrees, Changed
<1>4. \A c \in Bufs : Holds(B, L, c, k) => c = b
  BY <1>1 DEF Good, Single
<1>5. B2 = [B EXCEPT ![b] = n]
  BY DEF n, UsedIn
<1>6. Refilled(B, L, D, A, A, b, k, n, B2)
  BY <1>1, <1>2, <1>3, <1>4, <1>5 DEF Refilled
<1>7. Good(B2, L, D, M, A, P) /\ Holds(B2, L, b, k) /\ Shows(B, L, D, B2, k, n.data)
  BY <1>6, RefillKeeps
<1>8. ASSUME NEW j \in Blocks, NEW x, NEW w, Sees(B, L, D, j, x), Sees(B2, L, D, j, w)
      PROVE  IF j = k THEN TakenAs(use, k, x, w, A) ELSE w = x
  <2>1. w = IF j = k THEN n.data ELSE x
    BY <1>7, <1>8 DEF Shows
  <2>2. j = k => x = B[b].data
    BY <1>8, <1>4, <1>1 DEF Sees
  <2> QED
    BY <2>1, <2>2, <1>2 DEF TakenAs
<1> QED
  BY <1>1, <1>2, <1>5, <1>7, <1>8 DEF Has

\* A buffer that holds nothing gets a block of which there is no copy.
FilledIn(B, b, k, data, use, B2) ==
  B2 = [B EXCEPT ![b] = Used([blk |-> k, flag |-> {"VALID"}, data |-> data], use)]

LEMMA FillKeeps ==
  ASSUME NEW B, NEW L, NEW D, NEW M, NEW A, NEW A2, NEW P, NEW b \in L, NEW k \in Blocks,
         NEW use \in Uses, NEW data \in Values, Good(B, L, D, M, A, P),
         "VALID" \notin B[b].flag, \A c \in Bufs : ~Holds(B, L, c, k),
         use.over => use.w # NoBlock,
         use.over \/ data = D[k] \/ (data = Garbage /\ k \in A2 /\ Weak # {}),
         \A j \in Blocks \ {k} : j \in A <=> j \in A2,
         NEW B2, FilledIn(B, b, k, data, use, B2)
  PROVE  Has(B, L, D, M, P, A2, b, k, use, B2)
<1> DEFINE r == [blk |-> k, flag |-> {"VALID"}, data |-> data]
           n == Used(r, use)
<1>1. b \in Bufs /\ B \in [Bufs -> Records]
  BY DEF Good, Typed
<1>2. /\ r \in Records /\ r.blk = k /\ r.flag = {"VALID"} /\ r.data = data
  BY DEF Records, Flags
<1> HIDE DEF r
<1>3. /\ n \in Records /\ n.blk = k /\ "VALID" \in n.flag
      /\ "FAT" \in n.flag <=> k \in FatBlocks
      /\ "DIRTY" \in n.flag <=> use.w # NoBlock
      /\ "UNCACHE" \in n.flag <=> use.spare
      /\ n.data = IF use.w = NoBlock \/ (data = Garbage /\ ~use.over) THEN data ELSE use.w
  BY <1>2, UsedFacts
<1>4. B2 = [B EXCEPT ![b] = n]
  BY DEF n, r, FilledIn
<1> HIDE DEF n
<1>5. "DIRTY" \in n.flag \/ k \in A2 \/ D[k] = n.data
  BY <1>3
<1>6. Refilled(B, L, D, A, A2, b, k, n, B2)
  BY <1>1, <1>3, <1>4, <1>5 DEF Refilled
<1>7. Good(B2, L, D, M, A2, P) /\ Holds(B2, L, b, k) /\ Shows(B, L, D, B2, k, n.data)
  BY <1>6, RefillKeeps
<1>8. ASSUME NEW j \in Blocks, NEW x, NEW w, Sees(B, L, D, j, x), Sees(B2, L, D, j, w)
      PROVE  IF j = k THEN TakenAs(use, k, x, w, A2) ELSE w = x
  <2>1. w = IF j = k THEN n.data ELSE x
    BY <1>7, <1>8 DEF Shows
  <2>2. j = k => x = D[k]
    BY <1>8 DEF Sees
  <2> QED
    BY <2>1, <2>2, <1>3 DEF TakenAs
<1> QED
  BY <1>1, <1>3, <1>4, <1>7, <1>8 DEF Has

-----------------------------------------------------------------------------
(* The operators of the module.                                            *)

State == Good(buf, Linked, disk, mirror, astray, apart)

LEMMA HeldContent ==
  ASSUME State, NEW b \in Bufs, NEW k, Holds(buf, Linked, b, k)
  PROVE  Content(k) = buf[b].data
<1>1. b \in Cached(k) /\ \A c \in Cached(k) : c = b
  BY DEF Cached, Holds, Valid, Linked, State, Good, Single
<1> QED
  BY <1>1 DEF Content

LEMMA FreeContent ==
  ASSUME NEW k, \A b \in Bufs : ~Holds(buf, Linked, b, k)
  PROVE  Content(k) = disk[k]
BY DEF Content, Cached, Holds, Valid, Linked

\* What Content gives is what a reader sees.
ContentSeen ==
  \A k \in Blocks : Content(k) \in Values /\ Sees(buf, Linked, disk, k, Content(k))

LEMMA ContentIsSeen == State => ContentSeen
<1> SUFFICES ASSUME State, NEW k \in Blocks
             PROVE  Content(k) \in Values /\ Sees(buf, Linked, disk, k, Content(k))
  BY DEF ContentSeen
<1>1. CASE \E b \in Bufs : Holds(buf, Linked, b, k)
  <2>1. PICK b \in Bufs : Holds(buf, Linked, b, k)
    BY <1>1
  <2>2. Content(k) = buf[b].data
    BY <2>1, HeldContent
  <2> QED
    BY <2>1, <2>2 DEF Sees, State, Good, Typed, Records
<1>2. CASE \A b \in Bufs : ~Holds(buf, Linked, b, k)
  <2>1. Content(k) = disk[k]
    BY <1>2, FreeContent
  <2> QED
    BY <2>1, <1>2 DEF Sees, State, Good, Typed
<1> QED
  BY <1>1, <1>2

LEMMA DirtyHolds ==
  ASSUME State, NEW b \in Linked, Unsaved(buf[b])
  PROVE  /\ b \in Bufs /\ buf[b].blk \in Blocks /\ Holds(buf, Linked, b, buf[b].blk)
         /\ Content(buf[b].blk) = buf[b].data
         /\ buf[b].data \in Values
         /\ buf[b].blk \in FatBlocks => b \in FatBufs
<1>1. b \in Bufs /\ Holds(buf, Linked, b, buf[b].blk) /\ buf[b] \in Records
  BY DEF Linked, Holds, Unsaved, State, Good, Typed
<1>2. buf[b].blk \in Blocks /\ (buf[b].blk \in FatBlocks => b \in FatBufs)
  BY <1>1 DEF State, Good, Flagged, Unsaved, FatBufs
<1> QED
  BY <1>1, <1>2, HeldContent DEF Records

\* The first copies of the dirty buffers of F are written, some of those of
\* bad fail.
LEMMA DiskWritten ==
  ASSUME State, NEW F, F \subseteq Linked, NEW bad, bad \subseteq Weak, NEW D2,
         D2 \in DiskAfter(F, bad)
  PROVE  /\ D2 \in [Blocks -> Values]
         /\ \A k \in Blocks \ DirtyIn(F) : D2[k] = disk[k]
         /\ \A k \in DirtyIn(F) : k \in Blocks /\ (k \notin bad => D2[k] = Content(k))
         /\ \A k \in Blocks :
              \/ D2[k] = disk[k]
              \/ \E b \in F : /\ Unsaved(buf[b]) /\ buf[b].blk = k
                              /\ D2[k] = buf[b].data \/ (D2[k] = Garbage /\ k \in Weak)
<1>1. PICK t \in [bad -> Values] :
        /\ \A k \in bad : t[k] \in {disk[k], Content(k), Garbage}
        /\ D2 = [k \in Blocks |-> IF k \notin DirtyIn(F) THEN disk[k]
                                  ELSE IF k \in bad THEN t[k] ELSE Content(k)]
  BY DEF DiskAfter, Torn
<1>2. \A k \in Blocks : D2[k] = IF k \notin DirtyIn(F) THEN disk[k]
                                ELSE IF k \in bad THEN t[k] ELSE Content(k)
  BY <1>1
<1>3. D2 \in [Blocks -> Values]
  <2>1. \A k \in Blocks : Content(k) \in Values /\ disk[k] \in Values
    BY ContentIsSeen DEF ContentSeen, State, Good, Typed
  <2> QED
    BY <1>1, <2>1
<1>4. ASSUME NEW k \in DirtyIn(F)
      PROVE  /\ k \in Blocks
             /\ \E b \in F : Unsaved(buf[b]) /\ buf[b].blk = k /\ Content(k) = buf[b].data
  <2>1. PICK b \in F : Unsaved(buf[b]) /\ buf[b].blk = k
    BY DEF DirtyIn, Dirty, Unsaved
  <2> QED
    BY <2>1, DirtyHolds
<1>5. ASSUME NEW k \in Blocks, D2[k] # disk[k]
      PROVE  \E b \in F : /\ Unsaved(buf[b]) /\ buf[b].blk = k
                          /\ D2[k] = buf[b].data \/ (D2[k] = Garbage /\ k \in Weak)
  <2>1. k \in DirtyIn(F) /\ (k \in bad => D2[k] = t[k]) /\ (k \notin bad => D2[k] = Content(k))
    BY <1>2, <1>5
  <2>2. k \in bad => t[k] \in {disk[k], Content(k), Garbage}
    BY <1>1
  <2> QED
    BY <2>1, <2>2, <1>4, <1>5
<1> QED
  BY <1>2, <1>3, <1>4, <1>5

\* The second copies of the FAT blocks in F are written, some of those of
\* bad fail.
MirrorHas(F, bad, M2) ==
  /\ M2 \in [FatBlocks -> Values]
  /\ \A k \in FatBlocks \ DirtyIn(F) : M2[k] = mirror[k]
  /\ \A k \in FatBlocks \cap DirtyIn(F) : k \notin bad => M2[k] = Content(k)

LEMMA MirrorWritten ==
  ASSUME State, NEW F, F \subseteq Linked, NEW bad, bad \subseteq Weak, NEW M2,
         M2 \in MirrorAfter(F, bad)
  PROVE  MirrorHas(F, bad, M2)
<1>1. PICK t \in [bad -> Values] :
        M2 = [k \in FatBlocks |-> IF k \notin DirtyIn(F \cap FatBufs) THEN mirror[k]
                                  ELSE IF k \in bad THEN t[k] ELSE Content(k)]
  BY DEF MirrorAfter, Torn
<1>2. \A k \in FatBlocks : Content(k) \in Values /\ mirror[k] \in Values
  BY ContentIsSeen, CacheBlocks DEF ContentSeen, State, Good, Typed
<1>3. M2 \in [FatBlocks -> Values]
  BY <1>1, <1>2
<1>4. ASSUME NEW k \in FatBlocks PROVE k \in DirtyIn(F \cap FatBufs) <=> k \in DirtyIn(F)
  <2>1. ASSUME NEW b \in F, Dirty(b), buf[b].blk = k PROVE b \in FatBufs
    BY <2>1, DirtyHolds DEF Dirty, Unsaved
  <2> QED
    BY <2>1 DEF DirtyIn
<1> QED
  BY <1>1, <1>3, <1>4 DEF MirrorHas

\* flush1 over F, to its end or to an ABORT.
LEMMA LoopWrites ==
  ASSUME State, Placed, NEW F, F \subseteq Linked, NEW stop, stop \in Bufs \cup {NoBuf},
         NEW bad \in SUBSET Weak, NEW lost, FlushLoop(F, stop, bad, lost)
  PROVE  /\ Done(F, stop) \subseteq F /\ apart' \subseteq FatBlocks \cup apart
         /\ WrittenTo(buf, F, Done(F, stop), disk, disk', mirror', apart', bad)
<1> DEFINE G == Done(F, stop)
           X == {buf[stop].blk}
<1>1. G \subseteq F
  BY DEF Done
<1>2. PICK bad2 \in SUBSET (Weak \cap FatBlocks) :
        \/ /\ stop = NoBuf
           /\ disk' \in DiskAfter(G, bad)
           /\ mirror' \in MirrorAfter(G, bad2)
           /\ apart' = (apart \ DirtyIn(G)) \cup (bad \cap FatBlocks) \cup bad2
        \/ /\ stop \in F /\ Dirty(stop) /\ buf[stop].blk \in Weak
           /\ \/ /\ disk' \in DiskAfter(G \cup {stop}, bad \cup X)
                 /\ mirror' \in MirrorAfter(G, bad2)
              \/ \E copy1 \in {{}, X} :
                   /\ disk' \in DiskAfter(G \cup {stop}, bad \cup copy1)
                   /\ mirror' \in MirrorAfter(G \cup {stop}, bad2 \cup X)
           /\ apart' = (apart \ DirtyIn(G)) \cup (bad \cap FatBlocks) \cup bad2
                         \cup (X \cap FatBlocks)
  BY DEF FlushLoop, Faults
<1>3. ASSUME stop \in F, Dirty(stop) PROVE X \cap DirtyIn(G) = {}
  <2>1. SUFFICES ASSUME buf[stop].blk \in DirtyIn(G) PROVE FALSE
    OBVIOUS
  <2>2. PICK b \in G : Dirty(b) /\ buf[b].blk = buf[stop].blk
    BY <2>1 DEF DirtyIn
  <2>3. /\ b \in Bufs /\ Holds(buf, Linked, b, buf[stop].blk)
        /\ stop \in Bufs /\ Holds(buf, Linked, stop, buf[stop].blk)
    BY <1>1, <1>3, <2>2, DirtyHolds DEF Dirty, Unsaved
  <2>4. b = stop
    BY <2>3 DEF State, Good, Single
  <2>5. place[b] < place[stop]
    BY <1>3, <2>2, <2>3, CacheBufs DEF Done
  <2>6. place[stop] \in Nat
    BY <2>3, CacheBufs, FS_CardinalityType DEF Placed
  <2> QED
    BY <2>4, <2>5, <2>6
<1> HIDE DEF G
<1>4. \E F1, F2, b1, b2 :
        /\ G \subseteq F1 /\ F1 \subseteq F /\ G \subseteq F2 /\ F2 \subseteq F1
        /\ b1 \subseteq Weak /\ b2 \subseteq Weak
        /\ b1 \cap DirtyIn(G) \subseteq bad
        /\ \A k \in FatBlocks \ apart' :
             /\ k \notin b1 /\ k \notin b2
             /\ k \in DirtyIn(F1) \cup apart => k \in DirtyIn(G)
        /\ disk' \in DiskAfter(F1, b1) /\ mirror' \in MirrorAfter(F2, b2)
  <2>1. CASE stop = NoBuf /\ disk' \in DiskAfter(G, bad) /\ mirror' \in MirrorAfter(G, bad2)
               /\ apart' = (apart \ DirtyIn(G)) \cup (bad \cap FatBlocks) \cup bad2
    <3>1. \A k \in FatBlocks \ apart' :
             k \notin bad /\ k \notin bad2 /\ (k \in DirtyIn(G) \cup apart => k \in DirtyIn(G))
      BY <2>1
    <3>2. bad \cap DirtyIn(G) \subseteq bad /\ bad \subseteq Weak /\ bad2 \subseteq Weak
      OBVIOUS
    <3> QED
      BY <1>1, <2>1, <3>1, <3>2
  <2>2. ASSUME stop \in F, Dirty(stop), buf[stop].blk \in Weak,
               apart' = (apart \ DirtyIn(G)) \cup (bad \cap FatBlocks) \cup bad2
                          \cup (X \cap FatBlocks),
               NEW copy1 \in {{}, X}, NEW copy2 \in {{}, X}, NEW F2 \in {G, G \cup {stop}},
               disk' \in DiskAfter(G \cup {stop}, bad \cup copy1),
               mirror' \in MirrorAfter(F2, bad2 \cup copy2)
        PROVE  <1>4!:
    <3>1. DirtyIn(G \cup {stop}) \subseteq DirtyIn(G) \cup X
      BY DEF DirtyIn
    <3>2. X \cap DirtyIn(G) = {}
      BY <1>3, <2>2
    <3> DEFINE b1 == bad \cup copy1
               b2 == bad2 \cup copy2
               F1 == G \cup {stop}
    <3>3. /\ G \subseteq F1 /\ F1 \subseteq F /\ G \subseteq F2 /\ F2 \subseteq F1
          /\ b1 \subseteq Weak /\ b2 \subseteq Weak
          /\ b1 \cap DirtyIn(G) \subseteq bad
      BY <1>1, <2>2, <3>2
    <3>4. \A k \in FatBlocks \ apart' :
             /\ k \notin b1 /\ k \notin b2
             /\ k \in DirtyIn(F1) \cup apart => k \in DirtyIn(G)
      BY <2>2, <3>1
    <3>5. disk' \in DiskAfter(F1, b1) /\ mirror' \in MirrorAfter(F2, b2)
      BY <2>2
    <3> HIDE DEF b1, b2, F1, X
    <3> QED
      BY <3>3, <3>4, <3>5
  <2>3. CASE stop \in F /\ Dirty(stop) /\ buf[stop].blk \in Weak
             /\ apart' = (apart \ DirtyIn(G)) \cup (bad \cap FatBlocks) \cup bad2
                           \cup (X \cap FatBlocks)
             /\ disk' \in DiskAfter(G \cup {stop}, bad \cup X)
             /\ mirror' \in MirrorAfter(G, bad2)
    <3>1. bad2 \cup {} = bad2
      OBVIOUS
    <3> HIDE DEF X
    <3> QED
      BY <2>2, <2>3, <3>1
  <2>4. CASE stop \in F /\ Dirty(stop) /\ buf[stop].blk \in Weak
             /\ apart' = (apart \ DirtyIn(G)) \cup (bad \cap FatBlocks) \cup bad2
                           \cup (X \cap FatBlocks)
             /\ \E copy1 \in {{}, X} :
                   /\ disk' \in DiskAfter(G \cup {stop}, bad \cup copy1)
                   /\ mirror' \in MirrorAfter(G \cup {stop}, bad2 \cup X)
    <3> HIDE DEF X
    <3> QED
      BY <2>2, <2>4
  <2> QED
    BY <1>2, <2>1, <2>3, <2>4
<1>5. PICK F1, F2, b1, b2 : <1>4!(F1, F2, b1, b2)
  BY <1>4
<1>6. /\ disk' \in [Blocks -> Values]
      /\ \A k \in Blocks \ DirtyIn(F1) : disk'[k] = disk[k]
      /\ \A k \in DirtyIn(F1) : k \in Blocks /\ (k \notin b1 => disk'[k] = Content(k))
      /\ \A k \in Blocks :
           \/ disk'[k] = disk[k]
           \/ \E b \in F1 : /\ Unsaved(buf[b]) /\ buf[b].blk = k
                            /\ disk'[k] = buf[b].data \/ (disk'[k] = Garbage /\ k \in Weak)
  BY <1>5, DiskWritten
<1>7. /\ mirror' \in [FatBlocks -> Values]
      /\ \A k \in FatBlocks \ DirtyIn(F2) : mirror'[k] = mirror[k]
      /\ \A k \in FatBlocks \cap DirtyIn(F2) : k \notin b2 => mirror'[k] = Content(k)
  <2>1. F2 \subseteq Linked /\ b2 \subseteq Weak /\ mirror' \in MirrorAfter(F2, b2)
    BY <1>5
  <2>2. MirrorHas(F2, b2, mirror')
    BY <2>1, MirrorWritten
  <2> QED
    BY <2>2 DEF MirrorHas
<1>8. DirtyIn(G) \subseteq DirtyIn(F2) /\ DirtyIn(F2) \subseteq DirtyIn(F1)
  BY <1>5 DEF DirtyIn
<1>9. CopiesAgree(disk', mirror', apart')
  <2>1. SUFFICES ASSUME NEW k \in FatBlocks \ apart' PROVE mirror'[k] = disk'[k]
    BY DEF CopiesAgree
  <2>2. CASE k \in DirtyIn(G)
    BY <2>2, <1>5, <1>6, <1>7, <1>8
  <2>3. CASE k \notin DirtyIn(G)
    <3>1. k \notin DirtyIn(F1) /\ k \notin apart
      BY <2>3, <1>5
    <3> QED
      BY <3>1, <1>6, <1>7, <1>8, CacheBlocks DEF State, Good, CopiesAgree
  <2> QED
    BY <2>2, <2>3
<1>10. ASSUME NEW b \in G, Unsaved(buf[b]), buf[b].blk \notin bad
       PROVE  disk'[buf[b].blk] = buf[b].data
  <2>1. buf[b].blk \in DirtyIn(G)
    BY <1>10 DEF DirtyIn, Dirty, Unsaved
  <2>2. Content(buf[b].blk) = buf[b].data
    BY <1>1, <1>10, DirtyHolds
  <2> QED
    BY <2>1, <2>2, <1>5, <1>6, <1>8, <1>10
<1>11. WrittenTo(buf, F, G, disk, disk', mirror', apart', bad)
  BY <1>5, <1>6, <1>7, <1>9, <1>10 DEF WrittenTo
<1>12. apart' \subseteq FatBlocks \cup apart
  BY <1>2
<1> QED
  BY <1>1, <1>11, <1>12 DEF G

-----------------------------------------------------------------------------
(* The chain.                                                              *)

LEMMA ToFrontKeeps ==
  ASSUME Placed, NEW b \in Linked, place' = ToFront(b)
  PROVE  Placed' /\ Linked' = Linked /\ place'[b] = 1
<1> DEFINE N == Cardinality(Bufs)
<1>1. N \in Nat
  BY CacheBufs, FS_CardinalityType
<1>2. b \in Bufs /\ place \in [Bufs -> 0 .. N] /\ place[b] # 0
  BY DEF Placed, Linked
<1> HIDE DEF N
<1>3. \A c \in Bufs : place[c] \in Nat /\ place[c] <= N
  BY <1>1, <1>2
<1>4. \A c \in Bufs :
        place'[c] = IF c = b THEN 1
                    ELSE IF place[c] # 0 /\ place[c] < place[b] THEN place[c] + 1 ELSE place[c]
  BY DEF ToFront
<1>5. \A c \in Bufs : place'[c] \in 0 .. N /\ (place'[c] # 0 <=> place[c] # 0)
  BY <1>1, <1>2, <1>3, <1>4
<1>6. place' \in [Bufs -> 0 .. N]
  BY <1>5 DEF ToFront
<1>7. Linked' = Linked
  BY <1>5 DEF Linked
<1>8. \A c, e \in Linked : place'[c] = place'[e] => c = e
  <2>1. SUFFICES ASSUME NEW c \in Linked, NEW e \in Linked, place'[c] = place'[e], c # e
                 PROVE  FALSE
    OBVIOUS
  <2>2. /\ c \in Bufs /\ e \in Bufs /\ place[c] # 0 /\ place[e] # 0
        /\ place[c] # place[e]
        /\ c # b => place[c] # place[b]
        /\ e # b => place[e] # place[b]
    BY <2>1 DEF Linked, Placed
  <2> QED
    BY <2>1, <2>2, <1>2, <1>3, <1>4
<1>9. Placed'
  BY <1>6, <1>7, <1>8 DEF Placed, N
<1> QED
  BY <1>2, <1>4, <1>7, <1>9

LEMMA PlacedUnchanged ==
  ASSUME Placed, place' = place
  PROVE  Placed' /\ Linked' = Linked
BY DEF Placed, Linked

-----------------------------------------------------------------------------
(* The steps of BlockDisk.                                                 *)

Good2 == Good(buf', Linked', disk', mirror', astray', apart')
MovesStep(S, v) == Moves(buf, Linked, disk, astray, buf', Linked', disk', astray', S, v)

LEMMA NextState == Good2 <=> State'
BY DEF Good2, State

LEMMA ContentsSeen ==
  ASSUME State, Good2
  PROVE  \A k \in Blocks : /\ Content(k)' \in Values
                          /\ Sees(buf, Linked, disk, k, Content(k))
                          /\ Sees(buf', Linked', disk', k, Content(k)')
<1>1. ContentSeen /\ ContentSeen'
  <2>1. State'
    BY NextState
  <2>2. State => ContentSeen
    BY ContentIsSeen
  <2>3. State' => ContentSeen'
    BY ContentIsSeen, PTL
  <2> QED
    BY <2>1, <2>2, <2>3
<1> QED
  BY <1>1 DEF ContentSeen, Sees, Holds

LEMMA NextTyped ==
  ASSUME State, Good2
  PROVE  /\ [k \in Blocks |-> Content(k)]' \in [Blocks -> Values]
         /\ disk' \in [Blocks -> Values]
<1>1. \A k \in Blocks : Content(k)' \in Values
  BY ContentsSeen
<1> QED
  BY <1>1 DEF Good2, Good, Typed

\* The blocks that go astray are those that BlockDisk lets go.
LEMMA IsAccess ==
  ASSUME State, Good2, NEW S \in Disk!Calls, NEW v \in Values, MovesStep(S, v),
         Disk!Strays(S)
  PROVE  Disk!Next
<1>1. ASSUME NEW k \in Blocks PROVE Disk!WrittenBack(S, v, k) /\ Disk!Shown(S, v, k)
  <2>1. /\ Reaches(S, v, k, Content(k), disk[k], disk'[k])
        /\ Becomes(S, v, k, Content(k), Content(k)', disk'[k], astray, astray')
    BY ContentsSeen DEF MovesStep, Moves
  <2>2. /\ [i \in Blocks |-> Content(i)][k] = Content(k)
        /\ [i \in Blocks |-> Content(i)]'[k] = Content(k)'
    OBVIOUS
  <2>3. Disk!WrittenBack(S, v, k)
    BY <2>1, <2>2 DEF Disk!WrittenBack, Reaches
  <2>4. Disk!Shown(S, v, k)
    BY <2>1, <2>2 DEF Disk!Shown, Becomes
  <2> QED
    BY <2>3, <2>4
<1>2. Disk!Access(S, v)
  BY <1>1 DEF Disk!Access
<1> QED
  BY <1>2, NextTyped DEF Disk!Next

\* A call that stores nothing.
LEMMA NothingStored ==
  ASSUME State, Good2, \A v : MovesStep({}, v), Disk!Strays({})
  PROVE  Disk!Next
<1>1. {} \in Disk!Calls /\ Garbage \in Values
  BY DEF Disk!Calls, Values
<1> QED
  BY <1>1, IsAccess

LEMMA IsRenewal ==
  ASSUME State, Good2, NEW u \in Units,
         Restarts(buf, Linked, disk, buf', Linked', disk', astray', OfUnit(u)),
         \A k \in Blocks \ OfUnit(u) : disk'[k] = disk[k],
         astray \ OfUnit(u) \subseteq astray', astray \subseteq Blocks,
         astray' \subseteq astray \cup OfUnit(u)
  PROVE  Disk!Next
<1>1. \A k \in Blocks : IF k \in OfUnit(u)
                        THEN \/ Content(k)' = disk'[k]
                             \/ Content(k)' = Content(k) /\ (disk'[k] = disk[k] \/ k \in astray')
                        ELSE Content(k)' = Content(k)
  BY ContentsSeen DEF Restarts
<1>2. Disk!OfUnit(u) = OfUnit(u) /\ u \in Disk!Units
  BY DEF Disk!OfUnit, OfUnit, Disk!Units, Units
<1>3. \A k \in Blocks : /\ [i \in Blocks |-> Content(i)][k] = Content(k)
                        /\ [i \in Blocks |-> Content(i)]'[k] = Content(k)'
  OBVIOUS
<1>4. OfUnit(u) \subseteq Blocks
  BY DEF OfUnit
<1>5. Disk!Renew(u)
  BY <1>1, <1>2, <1>3, <1>4 DEF Disk!Renew
<1> QED
  BY <1>2, <1>5, NextTyped DEF Disk!Next

\* One block, or two neighbours.
LEMMA CallsHave ==
  ASSUME NEW k \in Blocks
  PROVE  /\ {k} \in Disk!Calls
         /\ After(k) \in Blocks => {k, After(k)} \in Disk!Calls
<1>1. \A i \in Blocks : i = <<i[1], i[2]>> /\ i[1] \in Nat /\ i[2] \in Nat
  BY CacheBlocks
<1>2. Disk!Span(k, k) = {k}
  BY <1>1 DEF Disk!Span, Disk!OfUnit
<1>3. ASSUME After(k) \in Blocks PROVE Disk!Span(k, After(k)) = {k, After(k)}
  <2>1. After(k)[1] = k[1] /\ After(k)[2] = k[2] + 1
    BY DEF After
  <2>2. \A i \in Blocks : i[1] = k[1] /\ k[2] <= i[2] /\ i[2] <= k[2] + 1 => i = k \/ i = After(k)
    BY <1>1 DEF After
  <2>3. \A i \in {k, After(k)} : i \in Blocks /\ i[1] = k[1] /\ k[2] <= i[2] /\ i[2] <= k[2] + 1
    BY <1>1, <1>3, <2>1
  <2> QED
    BY <2>1, <2>2, <2>3 DEF Disk!Span, Disk!OfUnit
<1> QED
  BY <1>2, <1>3 DEF Disk!Calls

LEMMA RunsAreCalls ==
  ASSUME NEW K \in Runs
  PROVE  K \in Disk!Calls /\ K \subseteq Blocks /\ K # {}
BY DEF Runs, Disk!Calls, Disk!Span, Disk!OfUnit, Span, OfUnit

-----------------------------------------------------------------------------
(* getblk                                                                  *)

\* The blocks that a use stores in.
UseSet(k, use) == IF use.w = NoBlock THEN {} ELSE {k}

\* What a call that gets block k in b leaves.
Got(k, use, b) ==
  /\ Good2 /\ Placed' /\ Linked' = Linked
  /\ MovesStep(UseSet(k, use), use.w) /\ astray' \subseteq astray \cup Weak
  /\ apart' \subseteq FatBlocks \cup apart
  /\ Holds(buf', Linked', b, k) /\ place'[b] = 1
  /\ "UNCACHE" \in buf'[b].flag <=> use.spare
  /\ \A c \in Bufs \ {b} : buf'[c] = buf[c]

LEMMA SomeoneSees ==
  ASSUME NEW B, NEW L, NEW D, NEW k
  PROVE  \E v : Sees(B, L, D, k, v)
BY DEF Sees

LEMMA SeesOnce ==
  ASSUME NEW B, NEW L, NEW D, Single(B, L), NEW k, NEW x, NEW y,
         Sees(B, L, D, k, x), Sees(B, L, D, k, y)
  PROVE  x = y
BY DEF Sees, Single

\* A block that a call has found or read is used.
LEMMA UsedMoves ==
  ASSUME NEW B, NEW L, NEW D, NEW A, NEW B1, NEW D1, NEW A1, NEW M, NEW P, NEW A2, NEW b,
         NEW k \in Blocks, NEW use \in Uses, NEW B2,
         Moves(B, L, D, A, B1, L, D1, A1, {}, use.w),
         Has(B1, L, D1, M, P, A2, b, k, use, B2),
         \A j \in Blocks \ {k} : j \in A1 => j \in A2,
         D1[k] = D[k], \A x, y : Sees(B, L, D, k, x) /\ Sees(B1, L, D1, k, y) => x = y
  PROVE  Moves(B, L, D, A, B2, L, D1, A2, UseSet(k, use), use.w)
<1> DEFINE S == UseSet(k, use)
<1>1. \A j : j \in S <=> j = k /\ use.w # NoBlock
  BY DEF UseSet
<1> HIDE DEF S
<1>2. SUFFICES ASSUME NEW j \in Blocks, NEW x, NEW w,
                      Sees(B, L, D, j, x), Sees(B2, L, D1, j, w)
               PROVE  /\ Reaches(S, use.w, j, x, D[j], D1[j])
                      /\ Becomes(S, use.w, j, x, w, D1[j], A, A2)
  BY DEF Moves, S
<1>3. PICK y : Sees(B1, L, D1, j, y)
  BY SomeoneSees
<1>4. IF j = k THEN TakenAs(use, k, y, w, A2) ELSE w = y
  BY <1>2, <1>3 DEF Has
<1>5. CASE j = k
  <2>1. y = x /\ TakenAs(use, k, x, w, A2)
    BY <1>2, <1>3, <1>4, <1>5
  <2>2. Reaches(S, use.w, j, x, D[j], D1[j])
    BY <1>5 DEF Reaches
  <2>3. Becomes(S, use.w, j, x, w, D1[j], A, A2)
    BY <2>1, <1>1, <1>5 DEF TakenAs, Becomes
  <2> QED
    BY <2>2, <2>3
<1>6. CASE j # k
  <2>1. /\ Reaches({}, use.w, j, x, D[j], D1[j])
        /\ Becomes({}, use.w, j, x, w, D1[j], A, A1)
    BY <1>2, <1>3, <1>4, <1>6 DEF Moves
  <2>2. Reaches(S, use.w, j, x, D[j], D1[j])
    BY <2>1 DEF Reaches
  <2>3. Becomes(S, use.w, j, x, w, D1[j], A, A2)
    BY <2>1, <1>1, <1>6 DEF Becomes
  <2> QED
    BY <2>2, <2>3
<1> QED
  BY <1>5, <1>6

LEMMA HitGets ==
  ASSUME State, Placed, NEW k \in Blocks, NEW use \in Uses, NEW b \in Bufs, Legal(k, use),
         Hit(k, use, b)
  PROVE  Got(k, use, b)
<1>1. b \in Linked /\ Holds(buf, Linked, b, k)
  BY DEF Hit, First, Found, Cached, Holds, Valid
<1>2. Placed' /\ Linked' = Linked /\ place'[b] = 1
  BY <1>1, ToFrontKeeps DEF Hit
<1>3. /\ buf' = [buf EXCEPT ![b] = Used(@, use)] /\ disk' = disk /\ mirror' = mirror
      /\ astray' = astray /\ apart' = apart
  BY DEF Hit
<1>4. Good(buf, Linked, disk, mirror, astray, apart) /\ Single(buf, Linked)
  BY DEF State, Good
<1>5. Has(buf, Linked, disk, mirror, apart, astray, b, k, use, buf')
  <2>1. UsedIn(buf, b, use, buf') /\ (use.over => use.w # NoBlock)
    BY <1>3 DEF UsedIn, Legal
  <2> QED
    BY <1>1, <2>1, <1>4, UseKeeps
<1>6. MovesStep(UseSet(k, use), use.w)
  <2>1. \A j, x, y : Sees(buf, Linked, disk, j, x) /\ Sees(buf, Linked, disk, j, y) => x = y
    BY <1>4, SeesOnce
  <2>2. Moves(buf, Linked, disk, astray, buf, Linked, disk, astray, {}, use.w)
    BY <2>1 DEF Moves, Reaches, Becomes
  <2>3. Moves(buf, Linked, disk, astray, buf', Linked, disk, astray, UseSet(k, use), use.w)
    BY <1>5, <2>1, <2>2, UsedMoves
  <2> QED
    BY <2>3, <1>2, <1>3 DEF MovesStep
<1>7. Good2
  BY <1>2, <1>3, <1>5 DEF Has, Good2
<1> QED
  BY <1>2, <1>3, <1>5, <1>6, <1>7 DEF Got, Has

\* What a flush leaves astray.
LEMMA AfterIsAstray ==
  ASSUME NEW F, NEW stop, NEW bad, NEW A2, AstrayAfter(F, stop, bad) \subseteq A2
  PROVE  StillAstray(buf, Done(F, stop), astray, A2, bad)
<1> DEFINE G == Done(F, stop)
<1>1. DirtyIn(G) = {buf[b].blk : b \in {c \in G : Unsaved(buf[c])}}
  BY DEF DirtyIn, Dirty, Unsaved
<1>2. (astray \ DirtyIn(G)) \cup bad \subseteq A2
  BY DEF AstrayAfter
<1> HIDE DEF G
<1>3. StillAstray(buf, G, astray, A2, bad)
  BY <1>1, <1>2 DEF StillAstray
<1> QED
  BY <1>3 DEF G

LEMMA EmptyIsRecord == Empty \in Records /\ "VALID" \notin Empty.flag
BY DEF Empty, Records, Flags, Values

LEMMA MissGets ==
  ASSUME State, Placed, NEW k \in Blocks, NEW use \in Uses, NEW b \in Bufs, Legal(k, use),
         Miss(k, use, b)
  PROVE  Got(k, use, b)
<1> DEFINE B == [buf EXCEPT ![b] = Empty]
<1>1. b \in Linked
  BY DEF Miss, Victim, Last, Spare
<1>2. Placed' /\ Linked' = Linked /\ place'[b] = 1
  BY <1>1, ToFrontKeeps DEF Miss
<1>3. Good(buf, Linked, disk, mirror, astray, apart) /\ buf \in [Bufs -> Records]
  BY DEF State, Good, Typed
<1>4. PICK bad \in SUBSET Weak, data \in Values, doubt \in {{}, {k}} :
        /\ FlushLoop({b}, NoBuf, bad, {})
        /\ IF use.over THEN doubt = {} ELSE Read(k, data, doubt)
        /\ buf' = [buf EXCEPT ![b] = Used([blk |-> k, flag |-> {"VALID"}, data |-> data], use)]
        /\ astray' = (AstrayAfter({b}, NoBuf, bad) \ {k}) \cup doubt
  BY DEF Miss
<1> DEFINE A1 == AstrayAfter({b}, NoBuf, bad)
<1>5. Done({b}, NoBuf) = {b} /\ {b} \subseteq Linked
  BY <1>1 DEF Done
<1>6. /\ WrittenTo(buf, {b}, {b}, disk, disk', mirror', apart', bad)
      /\ apart' \subseteq FatBlocks \cup apart
  <2> DEFINE F == {b}
  <2>1. F \subseteq Linked /\ FlushLoop(F, NoBuf, bad, {}) /\ Done(F, NoBuf) = F
    BY <1>4, <1>5
  <2> HIDE DEF F
  <2>2. NoBuf \in Bufs \cup {NoBuf}
    OBVIOUS
  <2>3. /\ apart' \subseteq FatBlocks \cup apart
        /\ WrittenTo(buf, F, Done(F, NoBuf), disk, disk', mirror', apart', bad)
    BY <2>1, <2>2, LoopWrites
  <2> QED
    BY <2>1, <2>3 DEF F
<1>7. StillAstray(buf, {b}, astray, A1, bad)
  BY <1>5, AfterIsAstray
<1>8. A1 \subseteq astray \cup Weak /\ astray' = (A1 \ {k}) \cup doubt
  BY <1>4 DEF AstrayAfter
<1> HIDE DEF A1
<1>9. B \in [Bufs -> Records] /\ B[b] = Empty /\ \A c \in Bufs \ {b} : B[c] = buf[c]
  BY <1>3, EmptyIsRecord
<1>10. FilledIn(B, b, k, data, use, buf')
  BY <1>3, <1>4 DEF FilledIn
<1> HIDE DEF B
<1>11. Dropped(buf, Linked, B, Linked, {b}, A1)
  BY <1>1, <1>9, EmptyIsRecord DEF Dropped, Changed
<1>12. /\ Good(B, Linked, disk', mirror', A1, apart')
       /\ \A v : Moves(buf, Linked, disk, astray, B, Linked, disk', A1, {}, v)
  <2>1. {b} \subseteq {b}
    OBVIOUS
  <2> QED
    BY <1>3, <1>5, <1>6, <1>7, <1>11, <2>1, FlushKeeps
<1>13. \A c \in Bufs : ~Holds(buf, Linked, c, k) /\ ~Holds(B, Linked, c, k)
  <2>1. \A c \in Bufs : ~Holds(buf, Linked, c, k)
    BY DEF Miss, Found, Cached, Holds, Valid
  <2> QED
    BY <2>1, <1>9, EmptyIsRecord DEF Holds
<1>14. disk'[k] = disk[k]
  BY <1>1, <1>6, <1>13 DEF WrittenTo, Unsaved, Holds
<1>15. use.over \/ data = disk'[k] \/ (data = Garbage /\ k \in astray' /\ Weak # {})
  BY <1>4, <1>8 DEF Read
<1>16. Has(B, Linked, disk', mirror', apart', astray', b, k, use, buf')
  <2>1. use.over => use.w # NoBlock
    BY DEF Legal
  <2>2. "VALID" \notin B[b].flag
    BY <1>9, EmptyIsRecord
  <2>3. \A j \in Blocks \ {k} : j \in A1 <=> j \in astray'
    BY <1>8
  <2> QED
    BY <1>1, <1>10, <1>12, <1>13, <1>15, <2>1, <2>2, <2>3, FillKeeps
<1>17. MovesStep(UseSet(k, use), use.w)
  <2>1. \A x, y : Sees(buf, Linked, disk, k, x) /\ Sees(B, Linked, disk', k, y) => x = y
    BY <1>13, <1>14 DEF Sees
  <2>2. \A j \in Blocks \ {k} : j \in A1 => j \in astray'
    BY <1>8
  <2>3. Moves(buf, Linked, disk, astray, buf', Linked, disk', astray', UseSet(k, use), use.w)
    BY <1>12, <1>14, <1>16, <2>1, <2>2, UsedMoves
  <2> QED
    BY <2>3, <1>2 DEF MovesStep
<1>18. astray' \subseteq astray \cup Weak
  BY <1>4, <1>8 DEF Read
<1>19. Good2
  BY <1>2, <1>16 DEF Has, Good2
<1> QED
  BY <1>2, <1>6, <1>9, <1>16, <1>17, <1>18, <1>19 DEF Got, Has

LEMMA GetGets ==
  ASSUME State, Placed, NEW k \in Blocks, NEW use \in Uses, NEW b \in Bufs, Get(k, use, b)
  PROVE  Got(k, use, b)
BY HitGets, MissGets DEF Get

LEMMA WeakStray ==
  ASSUME astray' \subseteq astray \cup Weak, NEW S
  PROVE  Disk!Strays(S)
<1>1. PICK k \in Blocks : TRUE
  BY CacheBlocks
<1> QED
  BY <1>1 DEF Disk!Strays

LEMMA AnyValue ==
  ASSUME NEW w, MovesStep({}, w)
  PROVE  \A v : MovesStep({}, v)
BY DEF MovesStep, Moves, Reaches, Becomes

LEMMA GotIsAccess ==
  ASSUME State, NEW k \in Blocks, NEW use \in Uses, NEW b, Got(k, use, b)
  PROVE  Disk!Next
<1>1. State /\ Good2 /\ MovesStep(UseSet(k, use), use.w)
  BY DEF Got
<1>2. \A S : Disk!Strays(S)
  BY WeakStray DEF Got
<1>3. CASE use.w = NoBlock
  <2>1. \A v : MovesStep({}, v)
    BY <1>1, <1>3, AnyValue DEF UseSet
  <2> QED
    BY <1>1, <1>2, <2>1, NothingStored
<1>4. CASE use.w # NoBlock
  <2>1. use.w \in Values /\ UseSet(k, use) = {k}
    BY <1>4 DEF Uses, Values, UseSet
  <2>2. {k} \in Disk!Calls
    BY CallsHave
  <2> QED
    BY <1>1, <1>2, <2>1, <2>2, IsAccess
<1> QED
  BY <1>3, <1>4


-----------------------------------------------------------------------------
(* Calls that flush, and those that get no buffer.                         *)

\* A step that keeps the invariant and stores nothing.
Harmless == Good2 /\ \A v : MovesStep({}, v)

LEMMA LoopKeeps ==
  ASSUME State, Placed, NEW F, F \subseteq Linked, NEW stop, stop \in Bufs \cup {NoBuf},
         NEW bad \in SUBSET Weak, NEW lost, FlushLoop(F, stop, bad, lost),
         AstrayAfter(F, stop, bad) \subseteq astray',
         Dropped(buf, Linked, buf', Linked', Done(F, stop), astray')
  PROVE  Harmless /\ apart' \subseteq FatBlocks \cup apart
<1> DEFINE G == Done(F, stop)
<1>1. /\ G \subseteq F /\ apart' \subseteq FatBlocks \cup apart
      /\ WrittenTo(buf, F, G, disk, disk', mirror', apart', bad)
  BY LoopWrites
<1>2. StillAstray(buf, G, astray, astray', bad)
  BY AfterIsAstray
<1>3. Dropped(buf, Linked, buf', Linked', G, astray')
  OBVIOUS
<1>4. Good(buf, Linked, disk, mirror, astray, apart)
  BY DEF State
<1> HIDE DEF G
<1>5. /\ Good(buf', Linked', disk', mirror', astray', apart')
      /\ \A v : Moves(buf, Linked, disk, astray, buf', Linked', disk', astray', {}, v)
  BY <1>1, <1>2, <1>3, <1>4, FlushKeeps
<1> QED
  BY <1>1, <1>5 DEF Harmless, Good2, MovesStep

LEMMA FlushedFacts ==
  ASSUME State, NEW b \in Bufs, NEW lost
  PROVE  LET n == Flushed(b, lost) IN
         /\ n \in Records /\ n.blk = buf[b].blk /\ "DIRTY" \notin n.flag
         /\ "FAT" \in n.flag <=> "FAT" \in buf[b].flag
         /\ \/ "VALID" \notin n.flag
            \/ ("VALID" \in n.flag <=> "VALID" \in buf[b].flag) /\ n.data = buf[b].data
         /\ lost = {} => /\ "VALID" \in n.flag <=> "VALID" \in buf[b].flag
                         /\ n.data = buf[b].data
<1> DEFINE r == buf[b]
           gone == Dirty(b) /\ r.blk \in lost
           X == r.flag \ ({"DIRTY"} \cup IF gone THEN {"VALID"} ELSE {})
           Y == IF gone THEN Garbage ELSE r.data
           n == Flushed(b, lost)
<1>1. r \in Records /\ Garbage \in Values
  BY DEF State, Good, Typed, Values
<1>2. n = [r EXCEPT !.flag = X, !.data = Y]
  BY DEF Flushed
<1>3. X \subseteq r.flag /\ "DIRTY" \notin X /\ ("FAT" \in X <=> "FAT" \in r.flag)
  OBVIOUS
<1>4. "VALID" \in X <=> "VALID" \in r.flag /\ ~gone
  OBVIOUS
<1>5. Y \in Values /\ (~gone => Y = r.data)
  BY <1>1 DEF Records
<1>6. lost = {} => ~gone
  OBVIOUS
<1> HIDE DEF X, Y, gone, n
<1>7. n \in Records /\ n.blk = r.blk /\ n.flag = X /\ n.data = Y
  BY <1>1, <1>2, <1>3, <1>5 DEF Records
<1> QED
  BY <1>3, <1>4, <1>5, <1>6, <1>7 DEF n

LEMMA MarkedFacts ==
  ASSUME NEW r \in Records
  PROVE  LET n == Marked(r) IN
         /\ n \in Records /\ n.blk = r.blk /\ n.data = r.data
         /\ \A f \in {"VALID", "DIRTY", "FAT"} : f \in n.flag <=> f \in r.flag
BY DEF Marked, Records, Flags

\* One buffer changes.
LEMMA DroppedOne ==
  ASSUME State, NEW b \in Bufs, NEW n \in Records, NEW G, G \subseteq {b}, NEW A2,
         buf' = [buf EXCEPT ![b] = n], Linked' = Linked,
         \/ b \in G /\ "VALID" \notin n.flag
         \/ /\ n.blk = buf[b].blk
            /\ \A f \in {"VALID", "FAT"} : f \in n.flag <=> f \in buf[b].flag
            /\ IF b \in G
               THEN /\ "DIRTY" \notin n.flag
                    /\ \/ n.data = buf[b].data
                       \/ n.data = Garbage /\ buf[b].blk \in A2 /\ Weak # {}
               ELSE ("DIRTY" \in n.flag <=> "DIRTY" \in buf[b].flag) /\ n.data = buf[b].data
  PROVE  Dropped(buf, Linked, buf', Linked', G, A2)
<1>1. buf \in [Bufs -> Records]
  BY DEF State, Good, Typed
<1>2. buf' \in [Bufs -> Records] /\ buf'[b] = n /\ \A c \in Bufs \ {b} : buf'[c] = buf[c]
  BY <1>1
<1> QED
  BY <1>2 DEF Dropped, Changed, Garbled

\* getblk finds no buffer: at most one block, which the buffer given up held,
\* goes astray besides those of which a transfer failed.
Failed ==
  /\ Harmless /\ apart' \subseteq FatBlocks \cup apart
  /\ \/ astray' \subseteq astray \cup Weak
     \/ Weak # {} /\ \E k \in Blocks : astray' \subseteq astray \cup Weak \cup {k}

LEMMA FlushFails ==
  ASSUME State, Placed, NEW b \in Linked, FailedFlush(b), Linked' = Linked
  PROVE  Failed
<1>1. b \in Bufs /\ buf[b] \in Records /\ {b} \subseteq Linked
  BY DEF State, Good, Typed, Linked
<1>2. Done({b}, NoBuf) = {b} /\ Done({b}, b) = {}
  <2>1. place[b] \in Nat /\ b # NoBuf
    BY <1>1, CacheBufs, FS_CardinalityType DEF Placed
  <2> QED
    BY <2>1 DEF Done
<1>3. ASSUME NEW bad \in SUBSET Weak, NEW lost, FlushLoop({b}, NoBuf, bad, lost),
             buf' = [buf EXCEPT ![b] = Marked(Flushed(b, lost))],
             astray' = AstrayAfter({b}, NoBuf, bad)
      PROVE  Failed
  <2> DEFINE m == Flushed(b, lost)
             n == Marked(m)
  <2>1. /\ m \in Records /\ m.blk = buf[b].blk /\ "DIRTY" \notin m.flag
        /\ "FAT" \in m.flag <=> "FAT" \in buf[b].flag
        /\ \/ "VALID" \notin m.flag
           \/ ("VALID" \in m.flag <=> "VALID" \in buf[b].flag) /\ m.data = buf[b].data
    BY <1>1, FlushedFacts
  <2>2. buf' = [buf EXCEPT ![b] = n]
    BY <1>3
  <2> HIDE DEF m
  <2>3. /\ n \in Records /\ n.blk = m.blk /\ n.data = m.data
        /\ \A f \in {"VALID", "DIRTY", "FAT"} : f \in n.flag <=> f \in m.flag
    BY <2>1, MarkedFacts
  <2> HIDE DEF n
  <2>4. Dropped(buf, Linked, buf', Linked', {b}, astray')
    BY <2>1, <2>2, <2>3, <1>1, DroppedOne
  <2> DEFINE F == {b}
  <2>5. /\ F \subseteq Linked /\ NoBuf \in Bufs \cup {NoBuf} /\ FlushLoop(F, NoBuf, bad, lost)
        /\ AstrayAfter(F, NoBuf, bad) \subseteq astray'
        /\ Dropped(buf, Linked, buf', Linked', Done(F, NoBuf), astray')
    BY <1>1, <1>2, <1>3, <2>4
  <2> HIDE DEF F
  <2>6. Harmless /\ apart' \subseteq FatBlocks \cup apart
    BY <2>5, LoopKeeps
  <2> QED
    BY <1>3, <2>6 DEF Failed, AstrayAfter
<1>4. CASE FlushLoop({b}, b, {}, {}) /\ buf' = [buf EXCEPT ![b] = Marked(@)]
           /\ UNCHANGED astray
  <2> DEFINE n == Marked(buf[b])
  <2>1. buf' = [buf EXCEPT ![b] = n]
    BY <1>4
  <2>2. /\ n \in Records /\ n.blk = buf[b].blk /\ n.data = buf[b].data
        /\ \A f \in {"VALID", "DIRTY", "FAT"} : f \in n.flag <=> f \in buf[b].flag
    BY <1>1, MarkedFacts
  <2> HIDE DEF n
  <2>3. Dropped(buf, Linked, buf', Linked', {}, astray')
    BY <2>1, <2>2, <1>1, DroppedOne
  <2> DEFINE F == {b}
             none == {}
  <2>4. /\ F \subseteq Linked /\ b \in Bufs \cup {NoBuf} /\ FlushLoop(F, b, none, none)
        /\ AstrayAfter(F, b, none) \subseteq astray' /\ none \in SUBSET Weak
        /\ Dropped(buf, Linked, buf', Linked', Done(F, b), astray')
    BY <1>1, <1>2, <1>4, <2>3 DEF AstrayAfter, DirtyIn
  <2> HIDE DEF F, none
  <2>5. Harmless /\ apart' \subseteq FatBlocks \cup apart
    BY <2>4, LoopKeeps
  <2> QED
    BY <1>4, <2>5 DEF Failed
<1> QED
  BY <1>3, <1>4 DEF FailedFlush

LEMMA ReadFails ==
  ASSUME State, Placed, NEW b \in Linked, NEW k, FailedRead(k, b), Linked' = Linked
  PROVE  Failed
<1>1. b \in Bufs /\ buf[b] \in Records /\ {b} \subseteq Linked
  BY DEF State, Good, Typed, Linked
<1>2. Done({b}, NoBuf) = {b}
  BY DEF Done
<1>3. PICK bad \in SUBSET Weak, data \in {buf[b].data, Garbage} :
        /\ k \in Weak /\ FlushLoop({b}, NoBuf, bad, {})
        /\ buf' = [buf EXCEPT ![b] = [Marked(Flushed(b, {})) EXCEPT !.data = data]]
        /\ astray' = AstrayAfter({b}, NoBuf, bad) \cup IF Valid(b) THEN {buf[b].blk} ELSE {}
  BY DEF FailedRead
<1>4. Valid(b) => buf[b].blk \in Blocks /\ buf[b].blk \in astray'
  BY <1>1, <1>3 DEF State, Good, Flagged, Valid
<1>5. Dropped(buf, Linked, buf', Linked', {b}, astray')
  <2> DEFINE m == Flushed(b, {})
             l == Marked(m)
             n == [l EXCEPT !.data = data]
  <2>1. /\ m \in Records /\ m.blk = buf[b].blk /\ "DIRTY" \notin m.flag
        /\ "FAT" \in m.flag <=> "FAT" \in buf[b].flag
        /\ "VALID" \in m.flag <=> "VALID" \in buf[b].flag
        /\ m.data = buf[b].data
    BY <1>1, FlushedFacts
  <2>2. buf' = [buf EXCEPT ![b] = n]
    BY <1>3
  <2> HIDE DEF m
  <2>3. /\ l \in Records /\ l.blk = m.blk /\ l.data = m.data
        /\ \A f \in {"VALID", "DIRTY", "FAT"} : f \in l.flag <=> f \in m.flag
    BY <2>1, MarkedFacts
  <2> HIDE DEF l
  <2>4. data \in Values
    BY <1>1 DEF Records, Values
  <2>5. n \in Records /\ n.blk = l.blk /\ n.flag = l.flag /\ n.data = data
    BY <2>3, <2>4 DEF Records
  <2> HIDE DEF n
  <2>6. CASE Valid(b)
    <3>1. n.data = buf[b].data \/ (n.data = Garbage /\ buf[b].blk \in astray' /\ Weak # {})
      BY <1>3, <1>4, <2>5, <2>6
    <3> QED
      BY <2>1, <2>2, <2>3, <2>5, <3>1, <1>1, DroppedOne
  <2>7. CASE ~Valid(b)
    <3>1. "VALID" \notin n.flag
      BY <2>1, <2>3, <2>5, <2>7 DEF Valid
    <3> QED
      BY <2>2, <2>5, <3>1, <1>1, DroppedOne
  <2> QED
    BY <2>6, <2>7
<1> DEFINE F == {b}
           none == {}
<1>6. /\ F \subseteq Linked /\ NoBuf \in Bufs \cup {NoBuf} /\ FlushLoop(F, NoBuf, bad, none)
      /\ AstrayAfter(F, NoBuf, bad) \subseteq astray'
      /\ Dropped(buf, Linked, buf', Linked', Done(F, NoBuf), astray')
  BY <1>1, <1>2, <1>3, <1>5
<1> HIDE DEF F, none
<1>7. Harmless /\ apart' \subseteq FatBlocks \cup apart
  BY <1>6, LoopKeeps
<1>8. CASE Valid(b)
  BY <1>3, <1>4, <1>7, <1>8 DEF Failed, AstrayAfter
<1>9. CASE ~Valid(b)
  BY <1>3, <1>7, <1>9 DEF Failed, AstrayAfter
<1> QED
  BY <1>8, <1>9

LEMMA FailKeeps ==
  ASSUME State, Placed, NEW k, NEW over, GetFails(k, over)
  PROVE  Failed /\ Placed' /\ Linked' = Linked
<1>1. PICK b \in Bufs : /\ Victim(b)
                        /\ FailedFlush(b) \/ (~over /\ FailedRead(k, b))
                        /\ place' = ToFront(b)
  BY DEF GetFails
<1>2. b \in Linked
  BY <1>1 DEF Victim, Last, Spare
<1>3. Placed' /\ Linked' = Linked
  BY <1>1, <1>2, ToFrontKeeps
<1> QED
  BY <1>1, <1>2, <1>3, FlushFails, ReadFails

LEMMA HarmlessIsNext ==
  ASSUME State, Harmless, Disk!Strays({})
  PROVE  Good2 /\ Disk!Next
BY NothingStored DEF Harmless

LEMMA FailedIsNext ==
  ASSUME State, Failed
  PROVE  Good2 /\ Disk!Next
<1>1. Disk!Strays({})
  <2>1. CASE astray' \subseteq astray \cup Weak
    BY <2>1, WeakStray
  <2>2. CASE Weak # {} /\ \E k \in Blocks : astray' \subseteq astray \cup Weak \cup {k}
    BY <2>2 DEF Disk!Strays
  <2> QED
    BY <2>1, <2>2 DEF Failed
<1> QED
  BY <1>1, HarmlessIsNext DEF Failed

-----------------------------------------------------------------------------
(* The actions.  Each keeps the invariant and is a step of BlockDisk.      *)

\* The sets of the blocks that went their own way.
Bounded == astray \subseteq Blocks /\ apart \subseteq FatBlocks

LEMMA InvNext ==
  ASSUME Good2, Placed', LinkInv', Bounded'
  PROVE  IInv'
BY DEF IInv, Good2, Bounded

LEMMA InvHas ==
  ASSUME IInv
  PROVE  State /\ Placed /\ LinkInv /\ Bounded
BY DEF IInv, State, Bounded

LEMMA StayIdle ==
  ASSUME Idle, link' = link
  PROVE  LinkInv'
BY DEF Idle, LinkInv

LEMMA GotBounded ==
  ASSUME Bounded, NEW k, NEW use, NEW b, Got(k, use, b)
  PROVE  Bounded'
BY CacheBlocks DEF Bounded, Got

LEMMA FailedBounded ==
  ASSUME Bounded, Failed
  PROVE  Bounded'
BY CacheBlocks DEF Bounded, Failed

LEMMA AccessBlockSafe ==
  ASSUME IInv, AccessBlock
  PROVE  IInv' /\ Disk!Next
<1>1. PICK k \in Blocks, use \in Uses, b \in Bufs : Get(k, use, b)
  BY DEF AccessBlock
<1>2. State /\ Placed /\ Bounded /\ LinkInv'
  BY InvHas, StayIdle DEF AccessBlock
<1>3. Got(k, use, b)
  BY <1>1, <1>2, GetGets
<1>4. Disk!Next /\ Bounded'
  BY <1>2, <1>3, GotIsAccess, GotBounded
<1> QED
  BY <1>2, <1>3, <1>4, InvNext DEF Got

LEMMA AccessFailsSafe ==
  ASSUME IInv, AccessFails
  PROVE  IInv' /\ Disk!Next
<1>1. PICK k \in Blocks, over \in BOOLEAN : GetFails(k, over)
  BY DEF AccessFails
<1>2. State /\ Placed /\ Bounded /\ LinkInv'
  BY InvHas, StayIdle DEF AccessFails
<1>3. Failed /\ Placed'
  BY <1>1, <1>2, FailKeeps
<1>4. Good2 /\ Disk!Next /\ Bounded'
  BY <1>2, <1>3, FailedIsNext, FailedBounded
<1> QED
  BY <1>2, <1>3, <1>4, InvNext

LEMMA NoUseFacts ==
  /\ NoUse \in Uses /\ NoUse.spare = FALSE
  /\ \A w \in Data : /\ [NoUse EXCEPT !.w = w] \in Uses
                     /\ [NoUse EXCEPT !.w = w].w = w /\ ~[NoUse EXCEPT !.w = w].over
BY DEF NoUse, Uses

LEMMA LinkFirstSafe ==
  ASSUME IInv, LinkFirst
  PROVE  IInv' /\ Disk!Next
<1>1. PICK k \in FatBlocks, b \in Bufs :
        /\ After(k) \in FatBlocks /\ Get(k, NoUse, b)
        /\ link' = [blk |-> k, bp |-> b, bp1 |-> NoBuf]
  BY DEF LinkFirst
<1>2. State /\ Placed /\ Bounded /\ k \in Blocks
  BY InvHas, CacheBlocks
<1>3. Got(k, NoUse, b)
  BY <1>1, <1>2, GetGets, NoUseFacts
<1>4. Disk!Next /\ Bounded'
  BY <1>2, <1>3, GotIsAccess, GotBounded, NoUseFacts
<1>5. LinkInv'
  <2>1. /\ link'.blk = k /\ link'.bp = b /\ link'.bp1 = NoBuf
        /\ link' \in [blk : FatBlocks, bp : Bufs, bp1 : Bufs \cup {NoBuf}]
    BY <1>1
  <2>2. Holds(buf', Linked', b, k) /\ place'[b] = 1 /\ "UNCACHE" \notin buf'[b].flag
    BY <1>3, NoUseFacts DEF Got
  <2>3. Holds(buf, Linked, link.bp, link.blk)'
    BY <2>1, <2>2 DEF Holds
  <2> QED
    BY <1>1, <2>1, <2>2, <2>3 DEF LinkInv
<1> QED
  BY <1>3, <1>4, <1>5, InvNext DEF Got

\* The first buffer of an entry is not given up for the second.
LEMMA FirstIsNoVictim ==
  ASSUME State, Placed, NEW b \in Bufs, NEW k \in FatBlocks, Holds(buf, Linked, b, k),
         place[b] = 1, "UNCACHE" \notin buf[b].flag
  PROVE  ~Victim(b)
<1>1. b \in Linked /\ b \in FatBufs
  BY DEF Holds, State, Good, Flagged, FatBufs
<1>2. PICK c \in Linked : c # b
  BY CacheBufs DEF Placed
<1>3. place[c] # 0 /\ place[c] # place[b] /\ place[c] \in Nat
  <2>1. c \in Bufs /\ place[c] # 0
    BY <1>2 DEF Linked
  <2>2. place \in [Bufs -> 0 .. Cardinality(Bufs)] /\ Cardinality(Bufs) \in Nat
    BY CacheBufs, FS_CardinalityType DEF Placed
  <2>3. place[c] \in Nat
    BY <2>1, <2>2
  <2> QED
    BY <1>1, <1>2, <2>1, <2>3 DEF Placed
<1>4. ~(place[c] <= place[b])
  BY <1>3
<1> QED
  BY <1>1, <1>2, <1>4 DEF Victim, Last, Spare

LEMMA LinkSecondSafe ==
  ASSUME IInv, LinkSecond
  PROVE  IInv' /\ Disk!Next
<1> DEFINE k == After(link.blk)
<1>1. /\ link.bp1 = NoBuf /\ link.blk \in FatBlocks /\ k \in FatBlocks
      /\ link \in [blk : FatBlocks, bp : Bufs, bp1 : Bufs \cup {NoBuf}]
      /\ Holds(buf, Linked, link.bp, link.blk)
      /\ place[link.bp] = 1 /\ "UNCACHE" \notin buf[link.bp].flag
  BY DEF LinkSecond, IInv, LinkInv, NoLink
<1>2. State /\ Placed /\ Bounded /\ k \in Blocks
  BY <1>1, InvHas, CacheBlocks
<1>3. k # link.blk
  <2>1. link.blk \in Nat \X Nat
    BY <1>1, CacheBlocks
  <2> QED
    BY <2>1 DEF After
<1>4. CASE \E b \in Bufs : Get(k, NoUse, b) /\ link' = [link EXCEPT !.bp1 = b]
  <2>1. PICK b \in Bufs : Get(k, NoUse, b) /\ link' = [link EXCEPT !.bp1 = b]
    BY <1>4
  <2>2. Got(k, NoUse, b)
    BY <1>2, <2>1, GetGets, NoUseFacts
  <2>3. Disk!Next /\ Bounded'
    BY <1>2, <2>2, GotIsAccess, GotBounded, NoUseFacts
  <2>4. b # link.bp
    <3>1. Holds(buf, Linked, b, k) \/ Victim(b)
      BY <2>1 DEF Get, Hit, Miss, First, Found, Cached, Holds, Valid
    <3>2. ~Holds(buf, Linked, link.bp, k)
      BY <1>1, <1>3 DEF Holds
    <3>3. link.bp \in Bufs
      BY <1>1
    <3>4. ~Victim(link.bp)
      BY <1>1, <1>2, <3>3, FirstIsNoVictim
    <3> QED
      BY <3>1, <3>2, <3>4
  <2>5. LinkInv'
    <3>1. /\ link'.blk = link.blk /\ link'.bp = link.bp /\ link'.bp1 = b
          /\ link' \in [blk : FatBlocks, bp : Bufs, bp1 : Bufs \cup {NoBuf}]
      BY <1>1, <2>1
    <3>2. Holds(buf', Linked', link.bp, link.blk) /\ Holds(buf', Linked', b, k)
      <4>1. link.bp \in Bufs \ {b}
        BY <1>1, <2>4
      <4> QED
        BY <4>1, <1>1, <2>2 DEF Got, Holds
    <3>3. (After(link.blk))' = k
      BY <3>1 DEF After
    <3>4. b # NoBuf
      BY CacheBufs
    <3>5. Holds(buf, Linked, link.bp, link.blk)' /\ Holds(buf, Linked, link.bp1, After(link.blk))'
      BY <3>1, <3>2, <3>3 DEF Holds
    <3> QED
      BY <1>1, <2>4, <3>1, <3>3, <3>4, <3>5 DEF LinkInv
  <2> QED
    BY <2>2, <2>3, <2>5, InvNext DEF Got
<1>5. CASE GetFails(k, FALSE) /\ link' = NoLink
  <2>1. Failed /\ Placed'
    BY <1>2, <1>5, FailKeeps
  <2>2. Good2 /\ Disk!Next /\ Bounded'
    BY <1>2, <2>1, FailedIsNext, FailedBounded
  <2>3. LinkInv'
    BY <1>5 DEF LinkInv, NoLink
  <2> QED
    BY <2>1, <2>2, <2>3, InvNext
<1> QED
  BY <1>4, <1>5 DEF LinkSecond

\* Two buffers that hold their blocks take the same value.
LEMMA UsedTwice ==
  ASSUME NEW B, NEW B1, NEW B2, NEW L, NEW D, NEW M, NEW A, NEW P, NEW b, NEW c,
         NEW j \in Blocks, NEW k \in Blocks, NEW use \in Uses, use.w # NoBlock,
         Single(B, L),
         Has(B, L, D, M, P, A, b, k, use, B1), Has(B1, L, D, M, P, A, c, j, use, B2)
  PROVE  Moves(B, L, D, A, B2, L, D, A, {k, j}, use.w)
<1>1. SUFFICES ASSUME NEW i \in Blocks, NEW x, NEW z, Sees(B, L, D, i, x), Sees(B2, L, D, i, z)
               PROVE  Becomes({k, j}, use.w, i, x, z, D[i], A, A)
  BY DEF Moves, Reaches
<1>2. PICK y : Sees(B1, L, D, i, y)
  BY SomeoneSees
<1>3. IF i = k THEN TakenAs(use, k, x, y, A) ELSE y = x
  BY <1>1, <1>2 DEF Has
<1>4. IF i = j THEN TakenAs(use, j, y, z, A) ELSE z = y
  BY <1>1, <1>2 DEF Has
<1>5. CASE i = j
  BY <1>3, <1>4, <1>5 DEF TakenAs, Becomes
<1>6. CASE i # j /\ i = k
  BY <1>3, <1>4, <1>6 DEF TakenAs, Becomes
<1>7. CASE i # j /\ i # k
  BY <1>3, <1>4, <1>7 DEF Becomes
<1> QED
  BY <1>5, <1>6, <1>7

LEMMA LinkBothSafe ==
  ASSUME IInv, LinkBoth
  PROVE  IInv' /\ Disk!Next
<1> DEFINE k == link.blk
           j == After(link.blk)
           b == link.bp
           c == link.bp1
<1>1. /\ c # NoBuf /\ k \in FatBlocks /\ j \in FatBlocks /\ b # c
      /\ link \in [blk : FatBlocks, bp : Bufs, bp1 : Bufs \cup {NoBuf}]
      /\ Holds(buf, Linked, b, k) /\ Holds(buf, Linked, c, j)
  BY DEF LinkBoth, IInv, LinkInv, NoLink
<1>2. /\ State /\ Placed /\ Bounded
      /\ k \in Blocks /\ j \in Blocks /\ b \in Linked /\ c \in Linked
      /\ disk' = disk /\ mirror' = mirror /\ place' = place
      /\ astray' = astray /\ apart' = apart
  BY <1>1, InvHas, CacheBlocks DEF LinkBoth, Holds
<1>3. Placed' /\ Linked' = Linked /\ LinkInv' /\ Bounded'
  BY <1>2, PlacedUnchanged DEF LinkBoth, LinkInv, NoLink, Bounded
<1>4. Good(buf, Linked, disk, mirror, astray, apart) /\ Single(buf, Linked)
  BY <1>2 DEF State, Good
<1>5. \A S : Disk!Strays(S)
  BY <1>2, WeakStray
<1>6. CASE buf' = buf
  <2>1. \A i, x, y : Sees(buf, Linked, disk, i, x) /\ Sees(buf, Linked, disk, i, y) => x = y
    BY <1>4, SeesOnce
  <2>2. \A v : MovesStep({}, v)
    BY <1>2, <1>3, <1>6, <2>1 DEF MovesStep, Moves, Reaches, Becomes
  <2>3. Good2
    BY <1>2, <1>3, <1>4, <1>6 DEF Good2
  <2>4. Disk!Next
    BY <1>2, <1>5, <2>2, <2>3, NothingStored
  <2> QED
    BY <1>3, <2>3, <2>4, InvNext
<1>7. CASE \E w \in Data :
             buf' = [a \in Bufs |-> IF a \in {b, c} THEN Used(buf[a], [NoUse EXCEPT !.w = w])
                                    ELSE buf[a]]
  <2>1. PICK w \in Data :
          buf' = [a \in Bufs |-> IF a \in {b, c} THEN Used(buf[a], [NoUse EXCEPT !.w = w])
                                 ELSE buf[a]]
    BY <1>7
  <2> DEFINE use == [NoUse EXCEPT !.w = w]
             B == [buf EXCEPT ![b] = Used(@, use)]
  <2>2. use \in Uses /\ use.w = w /\ ~use.over
    BY NoUseFacts
  <2>3. buf' = [a \in Bufs |-> IF a \in {b, c} THEN Used(buf[a], use) ELSE buf[a]]
    BY <2>1
  <2> HIDE DEF use
  <2>4. UsedIn(buf, b, use, B)
    BY DEF UsedIn
  <2>5. buf \in [Bufs -> Records] /\ b \in Bufs /\ c \in Bufs
    BY <1>1, <1>2, <1>4 DEF Good, Typed
  <2>6. UsedIn(B, c, use, buf')
    BY <2>3, <2>5, <1>1 DEF UsedIn
  <2> HIDE DEF B
  <2>7. Has(buf, Linked, disk, mirror, apart, astray, b, k, use, B)
    BY <1>2, <1>1, <1>4, <2>2, <2>4, UseKeeps
  <2>8. Good(B, Linked, disk, mirror, astray, apart) /\ Holds(B, Linked, c, j)
    BY <2>5, <2>7, <1>1 DEF Has, Holds
  <2>9. Has(B, Linked, disk, mirror, apart, astray, c, j, use, buf')
    BY <1>2, <2>2, <2>6, <2>8, UseKeeps
  <2>10. (w \in Values /\ w # NoBlock) \/ w = NoBlock
    BY DEF Values
  <2>11. CASE w # NoBlock
    <3>1. Moves(buf, Linked, disk, astray, buf', Linked, disk, astray, {k, j}, use.w)
      BY <1>2, <1>4, <2>2, <2>7, <2>9, <2>11, UsedTwice
    <3>2. MovesStep({k, j}, w)
      BY <3>1, <2>2, <1>2, <1>3 DEF MovesStep
    <3>3. {k, j} \in Disk!Calls
      BY <1>2, CallsHave
    <3>4. Good2
      BY <1>2, <1>3, <2>9 DEF Has, Good2
    <3>5. Disk!Next
      BY <1>2, <1>5, <2>10, <2>11, <3>2, <3>3, <3>4, IsAccess
    <3> QED
      BY <1>3, <3>4, <3>5, InvNext
  <2>12. CASE w = NoBlock
    <3>1. \A i \in Blocks : \A x, z :
            Sees(buf, Linked, disk, i, x) /\ Sees(buf', Linked, disk, i, z) =>
              z = x \/ (z = Garbage /\ i \in astray /\ Weak # {})
      <4>1. SUFFICES ASSUME NEW i \in Blocks, NEW x, NEW z,
                            Sees(buf, Linked, disk, i, x), Sees(buf', Linked, disk, i, z)
                     PROVE  z = x \/ (z = Garbage /\ i \in astray /\ Weak # {})
        OBVIOUS
      <4>2. PICK y : Sees(B, Linked, disk, i, y)
        BY SomeoneSees
      <4>3. IF i = k THEN TakenAs(use, k, x, y, astray) ELSE y = x
        BY <2>7, <4>1, <4>2 DEF Has
      <4>4. IF i = j THEN TakenAs(use, j, y, z, astray) ELSE z = y
        BY <2>9, <4>1, <4>2 DEF Has
      <4> QED
        BY <2>2, <2>12, <4>3, <4>4 DEF TakenAs
    <3>2. \A v : MovesStep({}, v)
      BY <3>1, <1>2, <1>3 DEF MovesStep, Moves, Reaches, Becomes
    <3>3. Good2
      BY <1>2, <1>3, <2>9 DEF Has, Good2
    <3>4. Disk!Next
      BY <1>2, <1>5, <3>2, <3>3, NothingStored
    <3> QED
      BY <1>3, <3>3, <3>4, InvNext
  <2> QED
    BY <2>11, <2>12
<1> QED
  BY <1>6, <1>7 DEF LinkBoth

-----------------------------------------------------------------------------
(* Flushes.                                                                *)

\* The buffers of G are written back where they are.
LEMMA DroppedFlush ==
  ASSUME State, NEW G, NEW lost, NEW A2, Linked' = Linked,
         buf' = [b \in Bufs |-> IF b \in G THEN Flushed(b, lost) ELSE buf[b]]
  PROVE  Dropped(buf, Linked, buf', Linked', G, A2)
<1>1. buf \in [Bufs -> Records]
  BY DEF State, Good, Typed
<1>2. ASSUME NEW b \in Bufs
      PROVE  /\ buf'[b] \in Records
             /\ \/ b \in G /\ "VALID" \notin buf'[b].flag
                \/ /\ buf'[b].blk = buf[b].blk
                   /\ \A f \in {"VALID", "FAT"} : f \in buf'[b].flag <=> f \in buf[b].flag
                   /\ IF b \in G THEN ~Changed(buf', b) /\ buf'[b].data = buf[b].data
                      ELSE (Changed(buf', b) <=> Changed(buf, b)) /\ buf'[b].data = buf[b].data
  <2>1. CASE b \in G
    <3> DEFINE n == Flushed(b, lost)
    <3>1. /\ n \in Records /\ n.blk = buf[b].blk /\ "DIRTY" \notin n.flag
          /\ "FAT" \in n.flag <=> "FAT" \in buf[b].flag
          /\ \/ "VALID" \notin n.flag
             \/ ("VALID" \in n.flag <=> "VALID" \in buf[b].flag) /\ n.data = buf[b].data
      BY FlushedFacts
    <3>2. buf'[b] = n
      BY <2>1
    <3> HIDE DEF n
    <3> QED
      BY <2>1, <3>1, <3>2 DEF Changed
  <2>2. CASE b \notin G
    <3>1. buf'[b] = buf[b]
      BY <2>2
    <3> QED
      BY <2>2, <3>1, <1>1 DEF Changed
  <2> QED
    BY <2>1, <2>2
<1>3. buf' \in [Bufs -> Records]
  <2>1. buf' = [b \in Bufs |-> buf'[b]]
    OBVIOUS
  <2> QED
    BY <1>2, <2>1
<1> QED
  BY <1>2, <1>3 DEF Dropped

\* A call that writes back the buffers F, and nothing else.
LEMMA FlushCallSafe ==
  ASSUME IInv, Idle, UNCHANGED <<place, link>>, NEW F, F \subseteq Linked,
         NEW stop \in Bufs \cup {NoBuf}, NEW bad \in SUBSET Weak, NEW lost,
         FlushLoop(F, stop, bad, lost), astray' = AstrayAfter(F, stop, bad),
         buf' = [b \in Bufs |-> IF b \in Done(F, stop) THEN Flushed(b, lost) ELSE buf[b]]
  PROVE  IInv' /\ Disk!Next
<1>1. State /\ Placed /\ Bounded /\ LinkInv'
  BY InvHas, StayIdle
<1>2. Placed' /\ Linked' = Linked
  BY <1>1, PlacedUnchanged
<1> DEFINE G == Done(F, stop)
<1>3. Dropped(buf, Linked, buf', Linked', G, astray')
  <2>1. buf' = [b \in Bufs |-> IF b \in G THEN Flushed(b, lost) ELSE buf[b]]
    OBVIOUS
  <2> HIDE DEF G
  <2> QED
    BY <1>1, <1>2, <2>1, DroppedFlush
<1>4. Harmless /\ apart' \subseteq FatBlocks \cup apart
  BY <1>1, <1>3, LoopKeeps
<1>5. astray' \subseteq astray \cup Weak
  BY DEF AstrayAfter
<1>6. Failed
  BY <1>4, <1>5 DEF Failed
<1>7. Good2 /\ Disk!Next /\ Bounded'
  BY <1>1, <1>6, FailedIsNext, FailedBounded
<1> QED
  BY <1>1, <1>2, <1>7, InvNext

LEMMA DirectReadSafe ==
  ASSUME IInv, NEW K, NEW stop \in Bufs \cup {NoBuf}, DirectRead(K, stop)
  PROVE  IInv' /\ Disk!Next
<1> DEFINE F == Covers(K)
<1>1. F \subseteq Linked
  BY DEF Covers
<1>2. PICK lost \in SUBSET Weak, bad \in SUBSET Weak :
        /\ FlushLoop(F, stop, bad, lost) /\ astray' = AstrayAfter(F, stop, bad)
        /\ buf' = [b \in Bufs |-> IF b \in Done(F, stop) THEN Flushed(b, lost) ELSE buf[b]]
  BY DEF DirectRead
<1>3. Idle /\ UNCHANGED <<place, link>>
  BY DEF DirectRead
<1> HIDE DEF F
<1> QED
  BY <1>1, <1>2, <1>3, FlushCallSafe

LEMMA FlushBuffersSafe ==
  ASSUME IInv, NEW u, NEW stop \in Bufs \cup {NoBuf}, FlushBuffers(u, stop)
  PROVE  IInv' /\ Disk!Next
<1> DEFINE F == OnUnit(u)
<1>1. F \subseteq Linked
  BY DEF OnUnit
<1>2. PICK lost \in SUBSET Weak, bad \in SUBSET Weak :
        /\ FlushLoop(F, stop, bad, lost) /\ astray' = AstrayAfter(F, stop, bad)
        /\ buf' = [b \in Bufs |-> IF b \in Done(F, stop) THEN Flushed(b, lost) ELSE buf[b]]
  BY DEF FlushBuffers
<1>3. Idle /\ UNCHANGED <<place, link>>
  BY DEF FlushBuffers
<1> HIDE DEF F
<1> QED
  BY <1>1, <1>2, <1>3, FlushCallSafe

\* A reset that ends leaves nothing in the buffers that could be astray.
LEMMA ResetEnds ==
  ASSUME State, Placed, NEW bad \in SUBSET Weak, NEW lost,
         FlushLoop(Linked, NoBuf, bad, lost), astray' = bad, Linked' = Linked,
         \A b \in Bufs : b \in Linked => "VALID" \notin buf'[b].flag,
         \A A2 : Dropped(buf, Linked, buf', Linked', Linked, A2)
  PROVE  Harmless /\ apart' \subseteq FatBlocks \cup apart
<1> DEFINE A1 == AstrayAfter(Linked, NoBuf, bad)
<1>1. Done(Linked, NoBuf) = Linked
  BY DEF Done
<1>2. /\ apart' \subseteq FatBlocks \cup apart
      /\ WrittenTo(buf, Linked, Linked, disk, disk', mirror', apart', bad)
  <2> DEFINE F == Linked
  <2>1. /\ F \subseteq Linked /\ NoBuf \in Bufs \cup {NoBuf}
        /\ FlushLoop(F, NoBuf, bad, lost) /\ Done(F, NoBuf) = F
    BY <1>1
  <2> HIDE DEF F
  <2>2. /\ apart' \subseteq FatBlocks \cup apart
        /\ WrittenTo(buf, F, Done(F, NoBuf), disk, disk', mirror', apart', bad)
    BY <2>1, LoopWrites
  <2> QED
    BY <2>1, <2>2 DEF F
<1>3. StillAstray(buf, Linked, astray, A1, bad)
  BY <1>1, AfterIsAstray
<1>4. A1 \subseteq astray \cup bad
  BY DEF AstrayAfter
<1> HIDE DEF A1
<1>5. Good(buf, Linked, disk, mirror, astray, apart)
  BY DEF State
<1>6. /\ Good(buf', Linked', disk', mirror', A1, apart')
      /\ \A v : Moves(buf, Linked, disk, astray, buf', Linked', disk', A1, {}, v)
  <2>1. Linked \subseteq Linked /\ Dropped(buf, Linked, buf', Linked', Linked, A1)
    OBVIOUS
  <2> QED
    BY <1>2, <1>3, <1>5, <2>1, FlushKeeps
<1>7. \A b \in Bufs : \A k : ~Holds(buf', Linked', b, k)
  BY DEF Holds
<1>8. Good2
  <2>1. CleanAgrees(buf', Linked', disk', astray')
    BY <1>7 DEF CleanAgrees
  <2> QED
    BY <1>6, <2>1 DEF Good2, Good
<1>9. ASSUME NEW v, NEW k \in Blocks, NEW x, NEW w,
             Sees(buf, Linked, disk, k, x), Sees(buf', Linked', disk', k, w)
      PROVE  /\ Reaches({}, v, k, x, disk[k], disk'[k])
             /\ Becomes({}, v, k, x, w, disk'[k], astray, astray')
  <2>1. /\ Reaches({}, v, k, x, disk[k], disk'[k])
        /\ Becomes({}, v, k, x, w, disk'[k], astray, A1)
    BY <1>6, <1>9 DEF Moves
  <2>2. w = disk'[k]
    BY <1>7, <1>9 DEF Sees
  <2>3. Becomes({}, v, k, x, w, disk'[k], astray, astray')
    BY <1>4, <2>1, <2>2 DEF Becomes
  <2> QED
    BY <2>1, <2>3
<1>10. \A v : MovesStep({}, v)
  BY <1>9 DEF MovesStep, Moves
<1> QED
  BY <1>2, <1>8, <1>10 DEF Harmless

LEMMA DiskResetSafe ==
  ASSUME IInv, DiskReset
  PROVE  IInv' /\ Disk!Next
<1>1. PICK stop \in Bufs \cup {NoBuf} : Flush(stop)
  BY DEF DiskReset
<1>2. State /\ Placed /\ Bounded /\ LinkInv'
  BY <1>1, InvHas, StayIdle DEF Flush
<1>3. Placed' /\ Linked' = Linked
  BY <1>1, <1>2, PlacedUnchanged DEF Flush
<1> DEFINE G == Done(Linked, stop)
           Gone(b) == [Flushed(b, {}) EXCEPT !.flag = @ \ {"VALID"}, !.data = Garbage]
<1>4. PICK bad \in SUBSET Weak, lost \in SUBSET Weak :
        /\ FlushLoop(Linked, stop, bad, lost)
        /\ astray' = IF stop = NoBuf THEN bad ELSE AstrayAfter(Linked, stop, bad)
  BY <1>1 DEF Flush
<1>5. buf' = [b \in Bufs |-> IF b \in G THEN Gone(b) ELSE buf[b]]
  BY <1>1 DEF Flush
<1>6. ASSUME NEW b \in Bufs
      PROVE  Gone(b) \in Records /\ "VALID" \notin Gone(b).flag
  <2> DEFINE n == Flushed(b, {})
  <2>1. n \in Records
    BY <1>2, FlushedFacts
  <2>2. Garbage \in Values
    BY DEF Values
  <2> HIDE DEF n
  <2>3. LET m == [n EXCEPT !.flag = @ \ {"VALID"}, !.data = Garbage]
        IN m \in Records /\ "VALID" \notin m.flag
    BY <2>1, <2>2 DEF Records
  <2> QED
    BY <2>3 DEF n
<1>7. buf \in [Bufs -> Records]
  BY <1>2 DEF State, Good, Typed
<1> HIDE DEF Gone, G
<1>8. ASSUME NEW A2 PROVE Dropped(buf, Linked, buf', Linked', G, A2)
  <2>1. buf' \in [Bufs -> Records]
    BY <1>5, <1>6, <1>7
  <2> QED
    BY <2>1, <1>3, <1>5, <1>6 DEF Dropped, Changed
<1>9. Harmless /\ apart' \subseteq FatBlocks \cup apart
  <2>1. CASE stop # NoBuf
    <3>1. Dropped(buf, Linked, buf', Linked', Done(Linked, stop), astray')
      BY <1>8 DEF G
    <3> DEFINE F == Linked
    <3>2. /\ F \subseteq Linked /\ FlushLoop(F, stop, bad, lost)
          /\ AstrayAfter(F, stop, bad) \subseteq astray'
          /\ Dropped(buf, Linked, buf', Linked', Done(F, stop), astray')
      BY <2>1, <3>1, <1>4
    <3> HIDE DEF F
    <3> QED
      BY <3>2, <1>2, LoopKeeps
  <2>2. CASE stop = NoBuf
    <3>1. G = Linked
      BY <2>2 DEF G, Done
    <3>2. \A b \in Bufs : b \in Linked => "VALID" \notin buf'[b].flag
      BY <3>1, <1>5, <1>6
    <3>3. \A A2 : Dropped(buf, Linked, buf', Linked', Linked, A2)
      BY <3>1, <1>8
    <3>4. FlushLoop(Linked, NoBuf, bad, lost) /\ astray' = bad
      BY <2>2, <1>4
    <3> QED
      BY <3>2, <3>3, <3>4, <1>2, <1>3, ResetEnds
  <2> QED
    BY <2>1, <2>2
<1>10. astray' \subseteq astray \cup Weak
  BY <1>4 DEF AstrayAfter
<1>11. Failed
  BY <1>9, <1>10 DEF Failed
<1>12. Good2 /\ Disk!Next /\ Bounded'
  BY <1>2, <1>11, FailedIsNext, FailedBounded
<1> QED
  BY <1>2, <1>3, <1>12, InvNext

\* INT 2F/4A02 leaves at least the buffers Kept.
LEMMA ChainShortened ==
  ASSUME Placed, NEW G, G \subseteq Linked \ Kept,
         place' = [b \in Bufs |-> IF b \in G THEN 0 ELSE place[b]]
  PROVE  Placed' /\ Linked' = Linked \ G
<1>1. \A b \in Bufs : place'[b] = IF b \in G THEN 0 ELSE place[b]
  OBVIOUS
<1>2. Linked' = Linked \ G
  BY <1>1 DEF Linked
<1>3. 0 \in 0 .. Cardinality(Bufs)
  BY CacheBufs, FS_CardinalityType
<1>4. place' \in [Bufs -> 0 .. Cardinality(Bufs)]
  BY <1>3 DEF Placed
<1>5. \A b, c \in Linked \ G : place'[b] = place'[c] => b = c
  BY <1>1 DEF Placed, Linked
<1> QED
  BY <1>2, <1>4, <1>5 DEF Placed

LEMMA BufType == ASSUME IInv PROVE buf \in [Bufs -> Records]
BY DEF IInv, Good, Typed

LEMMA AllocateHMASpaceSafe ==
  ASSUME IInv, AllocateHMASpace
  PROVE  IInv' /\ Disk!Next
<1>1. PICK F \in SUBSET (Linked \ Kept), stop \in Bufs \cup {NoBuf},
           bad \in SUBSET Weak, lost \in SUBSET Weak :
        /\ FlushLoop(F, stop, bad, lost) /\ astray' = AstrayAfter(F, stop, bad)
        /\ buf' = [b \in Bufs |-> IF b \in Done(F, stop) THEN Empty ELSE buf[b]]
        /\ place' = [b \in Bufs |-> IF b \in Done(F, stop) THEN 0 ELSE place[b]]
  BY DEF AllocateHMASpace
<1>2. State /\ Placed /\ Bounded /\ LinkInv'
  BY InvHas, StayIdle DEF AllocateHMASpace
<1> DEFINE G == Done(F, stop)
<1>3. F \subseteq Linked /\ G \subseteq F /\ G \subseteq Linked \ Kept
  BY DEF Done
<1>4. Placed' /\ Linked' = Linked \ G
  BY <1>1, <1>2, <1>3, ChainShortened
<1>5. buf' = [b \in Bufs |-> IF b \in G THEN Empty ELSE buf[b]]
  BY <1>1
<1> HIDE DEF G
<1>6. Dropped(buf, Linked, buf', Linked', G, astray')
  BY <1>4, <1>5, BufType, EmptyIsRecord DEF Dropped, Changed
<1>7. Harmless /\ apart' \subseteq FatBlocks \cup apart
  <2>1. Dropped(buf, Linked, buf', Linked', Done(F, stop), astray')
    BY <1>6 DEF G
  <2> QED
    BY <1>1, <1>2, <1>3, <2>1, LoopKeeps
<1>8. Failed
  BY <1>1, <1>7 DEF Failed, AstrayAfter
<1>9. Good2 /\ Disk!Next /\ Bounded'
  BY <1>2, <1>8, FailedIsNext, FailedBounded
<1> QED
  BY <1>2, <1>4, <1>9, InvNext

-----------------------------------------------------------------------------
(* Calls that go behind the buffers.                                       *)

LEMMA RenewCall ==
  ASSUME IInv, Idle, UNCHANGED <<place, link>>, Bounded', NEW U,
         Renewed(buf, Linked, disk, mirror, astray, apart, buf', disk', mirror', astray',
                 apart', U)
  PROVE  /\ State /\ Good2 /\ IInv' /\ Linked' = Linked
         /\ Restarts(buf, Linked, disk, buf', Linked', disk', astray', U)
<1>1. State /\ Placed /\ LinkInv'
  BY InvHas, StayIdle
<1>2. Good(buf, Linked, disk, mirror, astray, apart)
  BY <1>1 DEF State
<1>3. Placed' /\ Linked' = Linked
  BY <1>1, PlacedUnchanged
<1>4. /\ Good(buf', Linked, disk', mirror', astray', apart')
      /\ Restarts(buf, Linked, disk, buf', Linked, disk', astray', U)
  BY <1>2, RenewKeeps
<1>5. Good2
  BY <1>3, <1>4 DEF Good2
<1> QED
  BY <1>1, <1>3, <1>4, <1>5, InvNext

LEMMA StoredFacts ==
  ASSUME NEW X, NEW m \in [X -> Values], NEW K, NEW v \in Values, NEW ok \in BOOLEAN,
         NEW n, n \in Stored(m, K, v, ok)
  PROVE  /\ n \in [X -> Values]
         /\ \A k \in X \ K : n[k] = m[k]
         /\ \A k \in X \cap K : IF ok THEN n[k] = v
                                ELSE n[k] \in {m[k], v} \/ (n[k] = Garbage /\ k \in Weak)
<1>1. DOMAIN m = X
  OBVIOUS
<1>2. CASE ok
  <2>1. n = [k \in X |-> IF k \in K THEN v ELSE m[k]]
    BY <1>1, <1>2 DEF Stored
  <2> QED
    BY <1>2, <2>1
<1>3. CASE ~ok
  <2>1. /\ n \in [X -> Values]
        /\ \A k \in X : n[k] \in {m[k]} \cup IF k \notin K THEN {}
                                ELSE {v} \cup IF k \in Weak THEN {Garbage} ELSE {}
    BY <1>1, <1>3 DEF Stored
  <2>2. \A k \in X \ K : n[k] = m[k]
    BY <2>1
  <2>3. ASSUME NEW k \in X \cap K
        PROVE  n[k] \in {m[k], v} \/ (n[k] = Garbage /\ k \in Weak)
    BY <2>1
  <2> QED
    BY <1>3, <2>1, <2>2, <2>3
<1> QED
  BY <1>2, <1>3

LEMMA DirectWriteSafe ==
  ASSUME IInv, NEW K \in Runs, DirectWrite(K)
  PROVE  IInv' /\ Disk!Next
<1>1. PICK v \in Data, ok \in BOOLEAN :
        /\ ok \/ K \cap Weak # {}
        /\ disk' \in Stored(disk, K, v, ok)
        /\ astray' = IF ok THEN astray \ K ELSE astray \cup K
  BY DEF DirectWrite
<1>2. /\ buf' = [b \in Bufs |-> IF b \in Covers(K) THEN Empty ELSE buf[b]]
      /\ Idle /\ UNCHANGED <<place, link>> /\ mirror' = mirror /\ apart' = apart
      /\ K \cap FatBlocks = {}
  BY DEF DirectWrite
<1>3. /\ disk \in [Blocks -> Values] /\ mirror \in [FatBlocks -> Values]
      /\ buf \in [Bufs -> Records] /\ v \in Values
  BY DEF IInv, Good, Typed, Values
<1>4. K \in Disk!Calls /\ K \subseteq Blocks
  BY RunsAreCalls
<1>5. /\ disk' \in [Blocks -> Values]
      /\ \A k \in Blocks \ K : disk'[k] = disk[k]
      /\ \A k \in Blocks \cap K :
           IF ok THEN disk'[k] = v
           ELSE disk'[k] \in {disk[k], v} \/ (disk'[k] = Garbage /\ k \in Weak)
  BY <1>1, <1>3, StoredFacts
<1>6. \A k \in K, b \in Bufs : ~Holds(buf', Linked, b, k)
  <2>1. SUFFICES ASSUME NEW k \in K, NEW b \in Bufs, Holds(buf', Linked, b, k) PROVE FALSE
    OBVIOUS
  <2>2. b \notin Covers(K) /\ buf'[b] = buf[b]
    BY <2>1, <1>2, EmptyIsRecord DEF Holds
  <2> QED
    BY <2>1, <2>2 DEF Holds, Covers, Valid
<1>7. Bounded'
  BY <1>1, <1>2, <1>4, InvHas DEF Bounded
<1>8. Renewed(buf, Linked, disk, mirror, astray, apart, buf', disk', mirror', astray', apart', K)
  <2>1. buf' \in [Bufs -> Records]
    BY <1>2, <1>3, EmptyIsRecord
  <2>2. \A b \in Bufs : buf'[b] = buf[b] \/ (buf'[b] = Empty /\ (b \in Linked => buf[b].blk \in K))
    BY <1>2 DEF Covers
  <2>3. \A k \in FatBlocks : disk'[k] = disk[k]
    BY <1>2, <1>5, CacheBlocks
  <2>4. astray \ K \subseteq astray'
    BY <1>1
  <2> QED
    BY <2>1, <2>2, <2>3, <2>4, <1>2, <1>3, <1>5, <1>6 DEF Renewed
<1>9. /\ State /\ Good2 /\ IInv' /\ Linked' = Linked
      /\ Restarts(buf, Linked, disk, buf', Linked', disk', astray', K)
  BY <1>2, <1>7, <1>8, RenewCall
<1>10. ASSUME NEW k \in Blocks, NEW x, NEW w,
              Sees(buf, Linked, disk, k, x), Sees(buf', Linked', disk', k, w)
       PROVE  /\ Reaches(K, v, k, x, disk[k], disk'[k])
              /\ Becomes(K, v, k, x, w, disk'[k], astray, astray')
  <2>1. CASE k \in K
    <3>1. w = disk'[k]
      BY <1>6, <1>9, <1>10, <2>1 DEF Sees
    <3> QED
      BY <1>1, <1>5, <2>1, <3>1 DEF Reaches, Becomes
  <2>2. CASE k \notin K
    BY <1>5, <1>9, <1>10, <2>2 DEF Reaches, Becomes, Restarts
  <2> QED
    BY <2>1, <2>2
<1>11. MovesStep(K, v)
  BY <1>10 DEF MovesStep, Moves
<1>12. Disk!Strays(K)
  <2>1. PICK k \in Blocks : TRUE
    BY CacheBlocks
  <2>2. CASE ok
    BY <2>1, <2>2, <1>1 DEF Disk!Strays
  <2>3. CASE ~ok
    BY <2>1, <2>3, <1>1 DEF Disk!Strays
  <2> QED
    BY <2>2, <2>3
<1>13. Disk!Next
  BY <1>3, <1>4, <1>9, <1>11, <1>12, IsAccess
<1> QED
  BY <1>9, <1>13

\* A unit whose buffers are emptied may have any blocks.
LEMMA RenewUnit ==
  ASSUME IInv, Idle, UNCHANGED <<place, link>>, NEW u \in Units,
         buf' = Invalidated(u), astray' = astray \ OfUnit(u), apart' \subseteq FatBlocks,
         disk' \in [Blocks -> Values], mirror' \in [FatBlocks -> Values],
         \A i \in Blocks \ OfUnit(u) : disk'[i] = disk[i],
         \A i \in FatBlocks \ apart' :
           (i \notin apart /\ disk'[i] = disk[i] /\ mirror'[i] = mirror[i]) \/ mirror'[i] = disk'[i]
  PROVE  IInv' /\ Disk!Next
<1> DEFINE U == OfUnit(u)
<1>1. U \subseteq Blocks /\ astray \subseteq Blocks /\ Bounded'
  BY InvHas DEF OfUnit, Bounded
<1>2. buf' = [b \in Bufs |-> IF b \in OnUnit(u) THEN Empty ELSE buf[b]]
  BY DEF Invalidated
<1>3. buf \in [Bufs -> Records] /\ buf' \in [Bufs -> Records]
  BY <1>2, BufType, EmptyIsRecord
<1>4. \A b \in Bufs : buf'[b] = buf[b] \/ (buf'[b] = Empty /\ (b \in Linked => buf[b].blk \in U))
  BY <1>2 DEF OnUnit
<1>5. \A i \in U, b \in Bufs : ~Holds(buf', Linked, b, i)
  BY <1>2, EmptyIsRecord DEF Holds, OnUnit
<1>6. astray \ U \subseteq astray' /\ astray' \subseteq astray \cup U
  OBVIOUS
<1>7. \A i \in Blocks \ U : disk'[i] = disk[i]
  OBVIOUS
<1> HIDE DEF U
<1>8. Renewed(buf, Linked, disk, mirror, astray, apart, buf', disk', mirror', astray', apart', U)
  BY <1>3, <1>4, <1>5, <1>6, <1>7 DEF Renewed
<1>9. /\ State /\ Good2 /\ IInv' /\ Linked' = Linked
      /\ Restarts(buf, Linked, disk, buf', Linked', disk', astray', U)
  BY <1>1, <1>8, RenewCall
<1>10. Disk!Next
  BY <1>1, <1>6, <1>9, IsRenewal DEF U
<1> QED
  BY <1>9, <1>10

\* Blocks of a unit that are written behind its buffers are astray.
LEMMA WrittenAstray ==
  ASSUME IInv, Idle, UNCHANGED <<place, link>>, NEW u \in Units, NEW K, K \subseteq OfUnit(u),
         buf' = buf, astray' = astray \cup K, apart' \subseteq FatBlocks,
         disk' \in [Blocks -> Values], mirror' \in [FatBlocks -> Values],
         \A i \in Blocks \ K : disk'[i] = disk[i],
         \A i \in FatBlocks \ apart' :
           i \notin apart /\ disk'[i] = disk[i] /\ mirror'[i] = mirror[i]
  PROVE  IInv' /\ Disk!Next
<1> DEFINE U == OfUnit(u)
<1>1. U \subseteq Blocks /\ astray \subseteq Blocks /\ Bounded' /\ K \subseteq U
  BY InvHas DEF OfUnit, Bounded
<1>2. buf' \in [Bufs -> Records]
  BY BufType
<1>3. \A i \in Blocks \ U : disk'[i] = disk[i]
  BY <1>1
<1>4. \A i \in U \ astray' : disk'[i] = disk[i] /\ i \notin astray
  BY <1>1
<1>5. astray \ U \subseteq astray' /\ astray' \subseteq astray \cup U
  BY <1>1
<1> HIDE DEF U
<1>6. Renewed(buf, Linked, disk, mirror, astray, apart, buf', disk', mirror', astray', apart', U)
  BY <1>2, <1>3, <1>4, <1>5 DEF Renewed
<1>7. /\ State /\ Good2 /\ IInv' /\ Linked' = Linked
      /\ Restarts(buf, Linked, disk, buf', Linked', disk', astray', U)
  BY <1>1, <1>6, RenewCall
<1>8. Disk!Next
  BY <1>1, <1>3, <1>5, <1>7, IsRenewal DEF U
<1> QED
  BY <1>7, <1>8

LEMMA MediaCheckSafe ==
  ASSUME IInv, MediaCheck
  PROVE  IInv' /\ Disk!Next
<1>1. PICK u \in Units, known \in BOOLEAN, v \in Data :
        /\ buf' = Invalidated(u)
        /\ disk' = [i \in Blocks |-> IF i[1] = u THEN v ELSE disk[i]]
        /\ mirror' = [i \in FatBlocks |-> IF i[1] = u THEN v ELSE mirror[i]]
        /\ astray' = astray \ OfUnit(u) /\ apart' = apart \ OfUnit(u)
  BY DEF MediaCheck
<1>2. Idle /\ UNCHANGED <<place, link>>
  BY DEF MediaCheck
<1>3. /\ disk \in [Blocks -> Values] /\ mirror \in [FatBlocks -> Values] /\ v \in Values
      /\ apart \subseteq FatBlocks
  BY DEF IInv, Good, Typed, Values
<1>4. disk' \in [Blocks -> Values] /\ mirror' \in [FatBlocks -> Values]
  BY <1>1, <1>3
<1>5. /\ \A i \in Blocks : disk'[i] = IF i[1] = u THEN v ELSE disk[i]
      /\ \A i \in FatBlocks : mirror'[i] = IF i[1] = u THEN v ELSE mirror[i]
  BY <1>1
<1>6. \A i \in Blocks : i \in OfUnit(u) <=> i[1] = u
  BY DEF OfUnit
<1>7. \A i \in Blocks \ OfUnit(u) : disk'[i] = disk[i]
  BY <1>5, <1>6
<1>8. \A i \in FatBlocks \ apart' :
        (i \notin apart /\ disk'[i] = disk[i] /\ mirror'[i] = mirror[i]) \/ mirror'[i] = disk'[i]
  BY <1>1, <1>5, <1>6, CacheBlocks
<1>9. apart' \subseteq FatBlocks
  BY <1>1, <1>3
<1>10. buf' = Invalidated(u) /\ astray' = astray \ OfUnit(u)
  BY <1>1
<1> QED
  BY <1>2, <1>4, <1>7, <1>8, <1>9, <1>10, RenewUnit

LEMMA AbsoluteWriteSafe ==
  ASSUME IInv, AbsoluteWrite
  PROVE  IInv' /\ Disk!Next
<1>0. PICK u \in Units, S \in Runs, v \in Data, ok \in BOOLEAN :
        /\ S \subseteq Raw \cap OfUnit(u)
        /\ \E K \in {{}, S}, M \in {{}, S \cap FatBlocks} :
             /\ K \cup M # {}
             /\ Int26(K, M, u, v, ok) \/ ExtendedWrite(K, M, u, v, ok)
  BY DEF AbsoluteWrite
<1>1. PICK K \in {{}, S}, M \in {{}, S \cap FatBlocks} :
        Int26(K, M, u, v, ok) \/ ExtendedWrite(K, M, u, v, ok)
  BY <1>0
<1>2. Idle /\ UNCHANGED <<place, link>> /\ Written(K, M, v, ok)
  BY <1>1 DEF Int26, ExtendedWrite
<1>3. /\ disk \in [Blocks -> Values] /\ mirror \in [FatBlocks -> Values] /\ v \in Values
      /\ apart \subseteq FatBlocks
  BY DEF IInv, Good, Typed, Values
<1>4. /\ disk' \in [Blocks -> Values] /\ \A k \in Blocks \ K : disk'[k] = disk[k]
  <2>1. disk' \in Stored(disk, K, v, ok) /\ ok \in BOOLEAN
    BY <1>0, <1>2 DEF Written
  <2>2. disk \in [Blocks -> Values] /\ v \in Values
    BY <1>3
  <2> QED
    BY <2>1, <2>2, StoredFacts
<1>5. /\ mirror' \in [FatBlocks -> Values] /\ \A k \in FatBlocks \ M : mirror'[k] = mirror[k]
  <2>1. mirror' \in Stored(mirror, M, v, ok)
    BY <1>2 DEF Written
  <2> QED
    BY <1>0, <1>3, <2>1, StoredFacts
<1>6. K \subseteq OfUnit(u) /\ M \subseteq FatBlocks
  BY <1>0
<1>7. apart' = apart \cup (K \cap FatBlocks) \cup M
  BY <1>2 DEF Written
<1>8. \A i \in FatBlocks \ apart' :
        i \notin apart /\ disk'[i] = disk[i] /\ mirror'[i] = mirror[i]
  BY <1>4, <1>5, <1>7, CacheBlocks
<1>9. apart' \subseteq FatBlocks
  BY <1>3, <1>7, <1>6
<1>10. \A i \in Blocks \ OfUnit(u) : disk'[i] = disk[i]
  BY <1>4, <1>6
<1>11. \/ buf' = buf /\ astray' = astray \cup K
       \/ buf' = Invalidated(u) /\ astray' = astray \ OfUnit(u)
  BY <1>1 DEF Int26, ExtendedWrite
<1>12. CASE buf' = buf /\ astray' = astray \cup K
  BY <1>0, <1>2, <1>4, <1>5, <1>8, <1>9, <1>12, <1>6, WrittenAstray
<1>13. CASE buf' = Invalidated(u) /\ astray' = astray \ OfUnit(u)
  BY <1>0, <1>2, <1>4, <1>5, <1>8, <1>9, <1>10, <1>13, RenewUnit
<1> QED
  BY <1>11, <1>12, <1>13

LEMMA TransferBlocksSafe ==
  ASSUME IInv, TransferBlocks
  PROVE  IInv' /\ Disk!Next
<1>1. PICK K \in Runs :
        \/ \E stop \in Bufs \cup {NoBuf} : DirectRead(K, stop)
        \/ DirectWrite(K)
  BY DEF TransferBlocks
<1> QED
  BY <1>1, DirectReadSafe, DirectWriteSafe

-----------------------------------------------------------------------------
(* The specification.                                                      *)

LEMMA InitSafe == ASSUME Init PROVE IInv /\ Disk!Init
<1>1. PICK v \in Data : disk = [k \in Blocks |-> v] /\ mirror = [k \in FatBlocks |-> v]
  BY DEF Init
<1>2. /\ v \in Values /\ FatBlocks \subseteq Blocks /\ astray = {} /\ apart = {}
      /\ buf = [b \in Bufs |-> Empty]
  BY CacheBlocks DEF Values, Init
<1>3. /\ buf \in [Bufs -> Records] /\ \A b \in Bufs : "VALID" \notin buf[b].flag
      /\ disk \in [Blocks -> Values] /\ mirror \in [FatBlocks -> Values]
  BY <1>1, <1>2, EmptyIsRecord
<1>4. Placed /\ Linked = Bufs
  <2>1. Cardinality(Bufs) \in Nat
    BY CacheBufs, FS_CardinalityType
  <2>2. place \in [Bufs -> 1 .. Cardinality(Bufs)]
    BY DEF Init
  <2>3. place \in [Bufs -> 0 .. Cardinality(Bufs)] /\ Linked = Bufs
    BY <2>1, <2>2 DEF Linked
  <2> QED
    BY <2>3, CacheBufs DEF Placed, Init
<1>5. \A b : \A k : b \in Bufs => ~Holds(buf, Linked, b, k)
  BY <1>3 DEF Holds
<1>6. Good(buf, Linked, disk, mirror, astray, apart)
  <2>1. Typed(buf, Linked, disk, mirror)
    BY <1>3, <1>4 DEF Typed
  <2>2. Flagged(buf) /\ CopiesAgree(disk, mirror, apart)
    BY <1>1, <1>2, <1>3 DEF Flagged, CopiesAgree
  <2>3. Single(buf, Linked) /\ CleanAgrees(buf, Linked, disk, astray)
    BY <1>5 DEF Single, CleanAgrees
  <2> QED
    BY <2>1, <2>2, <2>3 DEF Good
<1>7. \A k \in Blocks : Content(k) \in Values /\ Content(k) = disk[k]
  BY <1>3, <1>5, FreeContent
<1>8. Disk!Init
  <2>1. disk = [k \in Blocks |-> disk[k]]
    BY <1>3
  <2>2. [k \in Blocks |-> Content(k)] = disk
    BY <1>7, <2>1
  <2> QED
    BY <1>2, <1>3, <2>2 DEF Disk!Init
<1>9. LinkInv
  BY DEF Init, LinkInv
<1> QED
  BY <1>2, <1>4, <1>6, <1>8, <1>9 DEF IInv

LEMMA NextSafe == ASSUME IInv, Next PROVE IInv' /\ Disk!Next
<1>1. CASE AccessBlock
  BY <1>1, AccessBlockSafe
<1>2. CASE AccessFails
  BY <1>2, AccessFailsSafe
<1>3. CASE LinkFirst
  BY <1>3, LinkFirstSafe
<1>4. CASE LinkSecond
  BY <1>4, LinkSecondSafe
<1>5. CASE LinkBoth
  BY <1>5, LinkBothSafe
<1>6. CASE TransferBlocks
  BY <1>6, TransferBlocksSafe
<1>7. CASE FlushUnit
  BY <1>7, FlushBuffersSafe DEF FlushUnit
<1>8. CASE DiskReset
  BY <1>8, DiskResetSafe
<1>9. CASE MediaCheck
  BY <1>9, MediaCheckSafe
<1>10. CASE AbsoluteWrite
  BY <1>10, AbsoluteWriteSafe
<1>11. CASE AllocateHMASpace
  BY <1>11, AllocateHMASpaceSafe
<1> QED
  BY <1>1, <1>2, <1>3, <1>4, <1>5, <1>6, <1>7, <1>8, <1>9, <1>10, <1>11 DEF Next

LEMMA StutterSafe ==
  ASSUME IInv, UNCHANGED vars
  PROVE  IInv' /\ UNCHANGED Disk!vars
<1>1. UNCHANGED <<buf, place, disk, mirror, link, astray, apart>>
  BY DEF vars
<1>2. Linked' = Linked
  BY <1>1 DEF Linked
<1>3. LinkInv' /\ Placed'
  BY <1>1, <1>2 DEF IInv, LinkInv, Placed
<1>4. IInv'
  BY <1>1, <1>2, <1>3 DEF IInv
<1>5. [k \in Blocks |-> Content(k)]' = [k \in Blocks |-> Content(k)]
  BY <1>1 DEF Content, Cached, Valid, Linked
<1> QED
  BY <1>1, <1>4, <1>5 DEF Disk!vars

\* The invariant of every behaviour of the buffers.
THEOREM CacheInvariant == Spec => []IInv
<1>1. Init => IInv
  BY InitSafe
<1>2. IInv /\ [Next]_vars => IInv'
  BY NextSafe, StutterSafe
<1> QED
  BY <1>1, <1>2, PTL DEF Spec

\* Buffers, media and the places of the chain have their types.
THEOREM TypeCorrect == Spec => []TypeOK
<1>1. IInv => TypeOK
  <2>1. SUFFICES ASSUME IInv PROVE TypeOK
    OBVIOUS
  <2>2. /\ buf \in [Bufs -> Records] /\ place \in [Bufs -> 0 .. Cardinality(Bufs)]
        /\ disk \in [Blocks -> Values] /\ mirror \in [FatBlocks -> Values]
        /\ astray \subseteq Blocks /\ apart \subseteq FatBlocks
    BY <2>1 DEF IInv, Good, Typed, Placed
  <2>3. link \in [blk : FatBlocks \cup {NoBlock}, bp : Bufs \cup {NoBuf},
                  bp1 : Bufs \cup {NoBuf}]
    BY <2>1 DEF IInv, LinkInv, NoLink
  <2> QED
    BY <2>2, <2>3 DEF TypeOK, Records
<1> QED
  BY <1>1, CacheInvariant, PTL

\* However hits, misses, failing transfers and calls behind the buffers
\* follow each other, no block is in two buffers.
THEOREM NoSecondCopy == Spec => []OneCopy
<1>1. IInv => OneCopy
  BY DEF IInv, Good, Typed, Single, Holds, OneCopy, Valid
<1> QED
  BY <1>1, CacheInvariant, PTL

\* A buffer that is not dirty holds what its medium holds, whatever transfers
\* of other blocks failed, unless the block itself is astray.
THEOREM CleanCanGo == Spec => []CleanOnDisk
<1>1. IInv => CleanOnDisk
  <2>1. SUFFICES ASSUME IInv, NEW b \in Linked, Valid(b), ~Dirty(b), buf[b].blk \notin astray
                 PROVE  disk[buf[b].blk] = buf[b].data
    BY DEF CleanOnDisk
  <2>2. /\ b \in Bufs /\ Holds(buf, Linked, b, buf[b].blk) /\ ~Changed(buf, b)
        /\ buf[b].blk \in Blocks
    BY <2>1 DEF Linked, Holds, Valid, Dirty, Changed, IInv, Good, Flagged
  <2> QED
    BY <2>1, <2>2 DEF IInv, Good, CleanAgrees
<1> QED
  BY <1>1, CacheInvariant, PTL

\* The two copies of a block of the FAT agree unless a write of one of them
\* failed, was aborted or was a program's own, since they were last written
\* together.
THEOREM CopiesOfFAT == Spec => []MirrorsAgree
<1>1. IInv => MirrorsAgree
  BY DEF IInv, Good, CopiesAgree, MirrorsAgree
<1> QED
  BY <1>1, CacheInvariant, PTL

\* link_fat keeps both buffers of an entry that lies on two blocks.
THEOREM LinkHasBoth == Spec => []PairHeld
<1>1. IInv => PairHeld
  <2>1. SUFFICES ASSUME IInv, link.bp1 # NoBuf PROVE PairHeld
    BY DEF PairHeld
  <2>2. /\ link.bp # link.bp1
        /\ Holds(buf, Linked, link.bp, link.blk)
        /\ Holds(buf, Linked, link.bp1, After(link.blk))
    BY <2>1 DEF IInv, LinkInv, NoLink
  <2> QED
    BY <2>2 DEF PairHeld, Holds, Cached, Valid
<1> QED
  BY <1>1, CacheInvariant, PTL

\* The file system cannot tell the buffers from an array of blocks, of which
\* only those that are astray fall back to what is on the medium.
THEOREM CacheIsDisk == Spec => IsDisk
<1>1. Init => Disk!Init
  BY InitSafe
<1>2. IInv /\ [Next]_vars => [Disk!Next]_Disk!vars
  BY NextSafe, StutterSafe
<1> QED
  BY <1>1, <1>2, CacheInvariant, PTL DEF Spec, IsDisk, Disk!Spec

-----------------------------------------------------------------------------
(* What is on the media after a flush.                                     *)

LEMMA FlushedIsDurable ==
  ASSUME IInv, NEW F, F \subseteq Linked, NEW K, K \subseteq Blocks,
         \A k \in K : Cached(k) \subseteq F,
         NEW bad \in SUBSET Weak, NEW lost, FlushLoop(F, NoBuf, bad, lost),
         astray' = AstrayAfter(F, NoBuf, bad),
         buf' = [b \in Bufs |-> IF b \in Done(F, NoBuf) THEN Flushed(b, lost) ELSE buf[b]]
  PROVE  Durable(K)
<1>1. State /\ Placed /\ Good(buf, Linked, disk, mirror, astray, apart)
  BY InvHas DEF State
<1>2. Done(F, NoBuf) = F /\ NoBuf \in Bufs \cup {NoBuf}
  BY DEF Done
<1>3. WrittenTo(buf, F, Done(F, NoBuf), disk, disk', mirror', apart', bad)
  BY <1>1, <1>2, LoopWrites
<1>4. bad \subseteq astray' /\ WrittenTo(buf, F, F, disk, disk', mirror', apart', bad)
  BY <1>2, <1>3 DEF AstrayAfter
<1>5. ASSUME NEW k \in K \ (astray \cup astray') PROVE disk'[k] = Content(k)
  <2>1. k \in Blocks /\ k \notin bad /\ k \notin astray
    BY <1>4, <1>5
  <2>2. CASE \E b \in Bufs : Holds(buf, Linked, b, k)
    <3>1. PICK b \in Bufs : Holds(buf, Linked, b, k)
      BY <2>2
    <3>2. b \in F /\ Content(k) = buf[b].data
      <4>1. b \in Cached(k)
        BY <3>1 DEF Holds, Cached, Valid
      <4> QED
        BY <4>1, <3>1, <1>1, HeldContent
    <3>3. CASE Changed(buf, b)
      <4>1. Unsaved(buf[b]) /\ buf[b].blk = k
        BY <3>1, <3>3 DEF Unsaved, Holds, Changed
      <4> QED
        BY <4>1, <3>2, <2>1, <1>4 DEF WrittenTo
    <3>4. CASE ~Changed(buf, b)
      <4>1. \A c \in F : ~(Unsaved(buf[c]) /\ buf[c].blk = k)
        BY <3>1, <3>4, <1>1 DEF Good, Single, Typed, Holds, Unsaved, Changed
      <4>2. disk'[k] = disk[k]
        BY <4>1, <2>1, <1>4 DEF WrittenTo
      <4> QED
        BY <4>2, <3>1, <3>2, <3>4, <1>1, <2>1 DEF Good, CleanAgrees
    <3> QED
      BY <3>3, <3>4
  <2>3. CASE \A b \in Bufs : ~Holds(buf, Linked, b, k)
    <3>1. \A c \in F : ~(Unsaved(buf[c]) /\ buf[c].blk = k)
      BY <2>3, <1>1 DEF Good, Typed, Holds, Unsaved
    <3> QED
      BY <3>1, <2>1, <2>3, <1>4, FreeContent DEF WrittenTo
  <2> QED
    BY <2>2, <2>3
<1>6. ASSUME NEW k \in K, NEW b \in Cached(k) PROVE ~Dirty(b)'
  <2>1. b \in F /\ b \in Bufs
    BY DEF Cached, Linked
  <2>2. buf'[b] = Flushed(b, lost)
    BY <2>1, <1>2
  <2>3. "DIRTY" \notin Flushed(b, lost).flag
    BY <2>1, <1>1, FlushedFacts
  <2> QED
    BY <2>2, <2>3 DEF Dirty
<1> QED
  BY <1>5, <1>6 DEF Durable

\* After flush_buffers a medium holds what its readers saw, and no buffer of
\* it is dirty, but for the blocks that are astray.
THEOREM FlushReachesDisk == Spec => FlushIsDurable
<1>1. ASSUME IInv, NEW u \in Units, FlushBuffers(u, NoBuf)
      PROVE  Durable(OfUnit(u))
  <2> DEFINE F == OnUnit(u)
  <2>1. PICK lost \in SUBSET Weak, bad \in SUBSET Weak :
          /\ FlushLoop(F, NoBuf, bad, lost) /\ astray' = AstrayAfter(F, NoBuf, bad)
          /\ buf' = [b \in Bufs |-> IF b \in Done(F, NoBuf) THEN Flushed(b, lost) ELSE buf[b]]
    BY <1>1 DEF FlushBuffers
  <2>2. /\ F \subseteq Linked /\ OfUnit(u) \subseteq Blocks
        /\ \A j \in OfUnit(u) : Cached(j) \subseteq F
    BY DEF OnUnit, OfUnit, Cached
  <2> HIDE DEF F
  <2> QED
    BY <1>1, <2>1, <2>2, FlushedIsDurable
<1>2. IInv /\ [Next]_vars =>
        [\A u \in Units : Durable(OfUnit(u)) \/ ~FlushBuffers(u, NoBuf)]_vars
  BY <1>1
<1> QED
  BY <1>2, CacheInvariant, PTL DEF Spec, FlushIsDurable

\* What a direct read gets from the medium is what the buffers held, but for
\* the blocks that are astray.
THEOREM DirectReadIsCurrent == Spec => DirectReadsCurrent
<1>1. ASSUME IInv, NEW K \in Runs, DirectRead(K, NoBuf)
      PROVE  Durable(K)
  <2> DEFINE F == Covers(K)
  <2>1. PICK lost \in SUBSET Weak, bad \in SUBSET Weak :
          /\ FlushLoop(F, NoBuf, bad, lost) /\ astray' = AstrayAfter(F, NoBuf, bad)
          /\ buf' = [b \in Bufs |-> IF b \in Done(F, NoBuf) THEN Flushed(b, lost) ELSE buf[b]]
    BY <1>1 DEF DirectRead
  <2>2. K \subseteq Blocks
    BY RunsAreCalls
  <2>3. F \subseteq Linked /\ \A i \in K : Cached(i) \subseteq F
    BY DEF Covers, Cached
  <2> HIDE DEF F
  <2> QED
    BY <1>1, <2>1, <2>2, <2>3, FlushedIsDurable
<1>2. IInv /\ [Next]_vars =>
        [\A K \in Runs : Durable(K) \/ ~DirectRead(K, NoBuf)]_vars
  BY <1>1
<1> QED
  BY <1>2, CacheInvariant, PTL DEF Spec, DirectReadsCurrent
=============================================================================
