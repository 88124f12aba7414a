-------------------------- MODULE FatChainsProofs --------------------------
(***************************************************************************)
(* The chains of FatFs, for any volume: where a cursor is in its chain,    *)
(* how far a chain goes, which clusters belong to a file.                  *)
(*                                                                         *)
(* A chain is walked from its start (Reaches).  ChainInv says that every   *)
(* instance or call that writes is at the cluster that its number in the   *)
(* chain says, and that there is a cluster for each sector up to the size, *)
(* or to the offset of a transfer on its way.  It rests on the invariant   *)
(* of FatFsProofs: in a sound FAT no two chains meet, so that a step on    *)
(* one of them leaves the others alone.                                    *)
(***************************************************************************)
EXTENDS FatFsProofs

-----------------------------------------------------------------------------
(* Positions along a chain.                                                *)

\* A walk of n steps along the FAT F, and the cluster c that is n steps behind
\* the start h of a chain.
Walk(F, p, n) == p \in [0 .. n -> Clusters] /\ \A i \in 1 .. n : p[i] = F[p[i - 1]]
Reaches(F, h, n, c) == n \in Nat /\ \E p : Walk(F, p, n) /\ p[0] = h /\ p[n] = c

\* A set of numbers that has 0 and with each number the next one has all.
LEMMA AllNumbers ==
  ASSUME NEW S, S \subseteq Nat, 0 \in S, \A n \in S : n + 1 \in S
  PROVE  S = Nat
<1> SUFFICES ASSUME Nat \ S # {} PROVE FALSE
  OBVIOUS
<1>1. PICK m \in Nat \ S : Least(Nat \ S, m)
  BY LeastExists
<1>2. m \in Nat /\ m # 0 /\ m \notin S
  OBVIOUS
<1>3. m - 1 \in Nat
  BY <1>2
<1>4. m - 1 \in S
  BY <1>1, <1>3 DEF Least
<1>5. (m - 1) + 1 = m
  BY <1>2
<1>6. QED
  BY <1>2, <1>4, <1>5

\* What is reached is a cluster, and so is the start.
LEMMA ReachTypes ==
  ASSUME NEW F, NEW h, NEW n, NEW c, Reaches(F, h, n, c)
  PROVE  n \in Nat /\ h \in Clusters /\ c \in Clusters
<1>1. PICK p : Walk(F, p, n) /\ p[0] = h /\ p[n] = c
  BY DEF Reaches
<1>2. n \in Nat /\ 0 \in 0 .. n /\ n \in 0 .. n
  BY DEF Reaches
<1>3. QED
  BY <1>1, <1>2 DEF Walk

\* A chain reaches its start at once,
LEMMA ReachHere ==
  ASSUME NEW F, NEW h \in Clusters
  PROVE  Reaches(F, h, 0, h)
<1> DEFINE p == [i \in 0 .. 0 |-> h]
<1>1. p \in [0 .. 0 -> Clusters] /\ p[0] = h
  OBVIOUS
<1>2. 1 .. 0 = {}
  OBVIOUS
<1> HIDE DEF p
<1>3. Walk(F, p, 0)
  BY <1>1, <1>2 DEF Walk
<1>4. QED
  BY <1>1, <1>3 DEF Reaches

\* and from each cluster the one that its entry leads to.
LEMMA ReachNext ==
  ASSUME NEW F, NEW h, NEW n, NEW c, Reaches(F, h, n, c), F[c] \in Clusters
  PROVE  Reaches(F, h, n + 1, F[c])
<1>1. PICK p : Walk(F, p, n) /\ p[0] = h /\ p[n] = c
  BY DEF Reaches
<1>2. n \in Nat /\ p \in [0 .. n -> Clusters] /\ \A i \in 1 .. n : p[i] = F[p[i - 1]]
  BY <1>1 DEF Reaches, Walk
<1> DEFINE q == [i \in 0 .. n + 1 |-> IF i = n + 1 THEN F[c] ELSE p[i]]
<1>3. \A i \in 0 .. n : q[i] = p[i]
  BY <1>2
<1>4. q[n + 1] = F[c] /\ q[0] = h
  BY <1>1, <1>2
<1>5. q \in [0 .. n + 1 -> Clusters]
  <2>1. \A i \in 0 .. n + 1 : i = n + 1 \/ i \in 0 .. n
    BY <1>2
  <2>2. \A i \in 0 .. n + 1 : (IF i = n + 1 THEN F[c] ELSE p[i]) \in Clusters
    BY <1>2, <2>1
  <2>3. QED
    BY <2>2
<1> HIDE DEF q
<1>6. ASSUME NEW i \in 1 .. n + 1 PROVE q[i] = F[q[i - 1]]
  <2>1. CASE i = n + 1
    <3>1. i - 1 = n /\ n \in 0 .. n
      BY <1>2, <2>1
    <3>2. QED
      BY <1>1, <1>3, <1>4, <2>1, <3>1
  <2>2. CASE i # n + 1
    <3>1. i \in 1 .. n /\ i \in 0 .. n /\ i - 1 \in 0 .. n
      BY <1>2, <2>2
    <3>2. QED
      BY <1>2, <1>3, <3>1
  <2>3. QED
    BY <2>1, <2>2
<1>7. Walk(F, q, n + 1) /\ n + 1 \in Nat
  BY <1>2, <1>5, <1>6 DEF Walk
<1>8. QED
  BY <1>4, <1>7 DEF Reaches

\* What a walk passes is reached.
LEMMA WalkReaches ==
  ASSUME NEW F, NEW p, NEW n \in Nat, Walk(F, p, n), NEW m \in 0 .. n
  PROVE  Reaches(F, p[0], m, p[m])
<1>1. p \in [0 .. n -> Clusters] /\ \A i \in 1 .. n : p[i] = F[p[i - 1]]
  BY DEF Walk
<1> DEFINE q == [i \in 0 .. m |-> p[i]]
<1>2. m \in Nat /\ 0 .. m \subseteq 0 .. n /\ 1 .. m \subseteq 1 .. n
  OBVIOUS
<1>3. q \in [0 .. m -> Clusters] /\ \A i \in 0 .. m : q[i] = p[i]
  BY <1>1, <1>2
<1> HIDE DEF q
<1>4. \A i \in 1 .. m : i \in 0 .. m /\ i - 1 \in 0 .. m
  BY <1>2
<1>5. \A i \in 1 .. m : q[i] = F[q[i - 1]]
  BY <1>1, <1>2, <1>3, <1>4
<1>6. 0 \in 0 .. m /\ m \in 0 .. m
  BY <1>2
<1>7. Walk(F, q, m) /\ q[0] = p[0] /\ q[m] = p[m]
  BY <1>3, <1>5, <1>6 DEF Walk
<1>8. QED
  BY <1>2, <1>7 DEF Reaches

\* A cluster that is reached has one before it, and that leads to it.
LEMMA ReachLast ==
  ASSUME NEW F, NEW h, NEW n, NEW c, Reaches(F, h, n, c), n # 0
  PROVE  \E d \in Clusters : Reaches(F, h, n - 1, d) /\ F[d] = c
<1>1. PICK p : Walk(F, p, n) /\ p[0] = h /\ p[n] = c
  BY DEF Reaches
<1>2. n \in Nat /\ n \in 1 .. n /\ n - 1 \in 0 .. n
  BY DEF Reaches
<1>3. p[n - 1] \in Clusters /\ F[p[n - 1]] = c
  BY <1>1, <1>2 DEF Walk
<1>4. Reaches(F, h, n - 1, p[n - 1])
  BY <1>1, <1>2, WalkReaches
<1>5. QED
  BY <1>3, <1>4

\* At its first position a chain is at its start.
LEMMA ReachFirst ==
  ASSUME NEW F, NEW h, NEW c, Reaches(F, h, 0, c)
  PROVE  h = c
BY DEF Reaches

\* What is in front of a cluster that is reached.
LEMMA ReachBefore ==
  ASSUME NEW F, NEW h, NEW n, NEW c, Reaches(F, h, n, c), NEW m \in Nat, m < n
  PROVE  \E d \in Clusters : /\ Reaches(F, h, m, d) /\ F[d] \in Clusters
                             /\ Reaches(F, h, m + 1, F[d])
<1>1. PICK p : Walk(F, p, n) /\ p[0] = h /\ p[n] = c
  BY DEF Reaches
<1>2. n \in Nat /\ m \in 0 .. n /\ m + 1 \in 0 .. n /\ m + 1 \in 1 .. n
  BY DEF Reaches
<1>a. (m + 1) - 1 = m
  OBVIOUS
<1>3. p[m] \in Clusters /\ p[m + 1] \in Clusters /\ p[m + 1] = F[p[m]]
  BY <1>1, <1>2, <1>a DEF Walk
<1>4. Reaches(F, h, m, p[m]) /\ Reaches(F, h, m + 1, p[m + 1])
  BY <1>1, <1>2, WalkReaches
<1>5. QED
  BY <1>3, <1>4

\* A position is one cluster only.
LEMMA ReachOne ==
  ASSUME NEW F, NEW h, NEW n, NEW c, NEW d, Reaches(F, h, n, c), Reaches(F, h, n, d)
  PROVE  c = d
<1> DEFINE S == {k \in Nat : \A x, y \in Clusters :
                               Reaches(F, h, k, x) /\ Reaches(F, h, k, y) => x = y}
<1>1. 0 \in S
  BY ReachFirst
<1>2. ASSUME NEW k \in S PROVE k + 1 \in S
  <2>1. k \in Nat /\ k + 1 \in Nat /\ k + 1 # 0 /\ (k + 1) - 1 = k
    OBVIOUS
  <2>2. ASSUME NEW x \in Clusters, NEW y \in Clusters,
               Reaches(F, h, k + 1, x), Reaches(F, h, k + 1, y)
        PROVE  x = y
    <3>1. PICK u \in Clusters : Reaches(F, h, k, u) /\ F[u] = x
      BY <2>1, <2>2, ReachLast
    <3>2. PICK v \in Clusters : Reaches(F, h, k, v) /\ F[v] = y
      BY <2>1, <2>2, ReachLast
    <3>3. u = v
      BY <1>2, <3>1, <3>2
    <3>4. QED
      BY <3>1, <3>2, <3>3
  <2>3. QED
    BY <2>1, <2>2
<1>3. S = Nat
  <2>1. S \subseteq Nat
    OBVIOUS
  <2> HIDE DEF S
  <2>2. QED
    BY <1>1, <1>2, <2>1, AllNumbers
<1>4. n \in S /\ c \in Clusters /\ d \in Clusters
  BY <1>3, ReachTypes
<1>5. QED
  BY <1>4

\* A walk is not disturbed by what happens to other clusters, or to its last one.
LEMMA ReachStays ==
  ASSUME NEW F, NEW G, NEW h, NEW n, NEW c, Reaches(F, h, n, c),
         \A m \in Nat : \A d \in Clusters : m < n /\ Reaches(F, h, m, d) => G[d] = F[d]
  PROVE  Reaches(G, h, n, c)
<1>1. PICK p : Walk(F, p, n) /\ p[0] = h /\ p[n] = c
  BY DEF Reaches
<1>2. n \in Nat /\ p \in [0 .. n -> Clusters] /\ \A i \in 1 .. n : p[i] = F[p[i - 1]]
  BY <1>1 DEF Reaches, Walk
<1>3. ASSUME NEW i \in 1 .. n PROVE p[i] = G[p[i - 1]]
  <2>1. i - 1 \in Nat /\ i - 1 < n /\ i - 1 \in 0 .. n
    BY <1>2
  <2>2. Reaches(F, h, i - 1, p[i - 1]) /\ p[i - 1] \in Clusters
    BY <1>1, <1>2, <2>1, WalkReaches
  <2>3. QED
    BY <1>2, <2>1, <2>2
<1>4. Walk(G, p, n)
  BY <1>2, <1>3 DEF Walk
<1>5. QED
  BY <1>1, <1>2, <1>4 DEF Reaches

-----------------------------------------------------------------------------
(* Where the files are in the FAT.                                         *)

\* A sector before the end of the k-th cluster is in a cluster up to it.
LEMMA ClUpTo ==
  ASSUME NEW o \in Nat, NEW k \in Nat, o < ClusterSectors * (k + 1)
  PROVE  Cl(o) \in Nat /\ Cl(o) <= k
<1> DEFINE q == o \div ClusterSectors
           r == o % ClusterSectors
<1>1. ClusterSectors \in Nat \ {0}
  BY FatConstants
<1>2. q \in Nat /\ r \in Nat /\ o = ClusterSectors * q + r
  BY <1>1
<1> HIDE DEF q, r
<1>3. ASSUME k + 1 <= q PROVE FALSE
  <2>1. PICK j \in Nat : q = (k + 1) + j
    <3>1. q - (k + 1) \in Nat /\ q = (k + 1) + (q - (k + 1))
      BY <1>2, <1>3
    <3> QED
      BY <3>1
  <2>2. ClusterSectors * q = ClusterSectors * (k + 1) + ClusterSectors * j
    BY <1>1, <2>1
  <2>3. ClusterSectors * j \in Nat /\ ClusterSectors * (k + 1) \in Nat
    BY <1>1
  <2> QED
    BY <1>2, <2>2, <2>3
<1> QED
  BY <1>2, <1>3 DEF q, Cl

\* An earlier sector is in an earlier cluster or in the same.
LEMMA ClMonotone ==
  ASSUME NEW o \in Nat, NEW p \in Nat, o <= p
  PROVE  Cl(o) \in Nat /\ Cl(p) \in Nat /\ Cl(o) <= Cl(p)
<1>1. Cl(p) \in Nat /\ p < ClusterSectors * (Cl(p) + 1) /\ ClusterSectors * (Cl(p) + 1) \in Nat
  BY ClOf
<1>2. o < ClusterSectors * (Cl(p) + 1)
  BY <1>1
<1> QED
  BY <1>1, <1>2, ClUpTo

\* What a chain that begins with h has on its first positions.
LEMMA ReachLess ==
  ASSUME NEW F, NEW h, NEW n, NEW c, Reaches(F, h, n, c), NEW m \in Nat, m <= n
  PROVE  \E d : Reaches(F, h, m, d)
<1>1. n \in Nat
  BY ReachTypes
<1>2. m = n \/ m < n
  BY <1>1
<1> QED
  BY <1>2, ReachBefore

\* The chain of the FAT F that begins with h has a cluster for each of the
\* first n sectors.
Covered(F, h, n) == n # 0 => \E c : Reaches(F, h, Cl(n - 1), c)

\* It has one up to the end of a cluster that it reaches.
LEMMA CoveredTo ==
  ASSUME NEW F, NEW h, NEW k, NEW c, Reaches(F, h, k, c), NEW n \in Nat,
         n <= ClusterSectors * (k + 1)
  PROVE  Covered(F, h, n)
<1> SUFFICES ASSUME n # 0 PROVE \E d : Reaches(F, h, Cl(n - 1), d)
  BY DEF Covered
<1>1. k \in Nat
  BY ReachTypes
<1>2. n - 1 \in Nat /\ ClusterSectors * (k + 1) \in Nat
  BY <1>1, FatConstants
<1>3. n - 1 < ClusterSectors * (k + 1)
  BY <1>2
<1>4. Cl(n - 1) \in Nat /\ Cl(n - 1) <= k
  BY <1>1, <1>2, <1>3, ClUpTo
<1> QED
  BY <1>4, ReachLess

\* It has one for each sector up to one that is in a cluster that it reaches.
LEMMA CoveredHere ==
  ASSUME NEW F, NEW h, NEW n \in Nat, NEW c, Reaches(F, h, Cl(n), c)
  PROVE  Covered(F, h, n)
<1>1. Cl(n) \in Nat /\ n < ClusterSectors * (Cl(n) + 1) /\ ClusterSectors * (Cl(n) + 1) \in Nat
  BY ClOf
<1>2. n <= ClusterSectors * (Cl(n) + 1)
  BY <1>1
<1> QED
  BY <1>2, CoveredTo

\* Fewer sectors are covered as well.
LEMMA CoveredLess ==
  ASSUME NEW F, NEW h, NEW n \in Nat, Covered(F, h, n), NEW m \in Nat, m <= n
  PROVE  Covered(F, h, m)
<1> SUFFICES ASSUME m # 0 PROVE \E d : Reaches(F, h, Cl(m - 1), d)
  BY DEF Covered
<1>1. m - 1 \in Nat /\ n - 1 \in Nat /\ m - 1 <= n - 1 /\ n # 0
  OBVIOUS
<1>2. PICK c : Reaches(F, h, Cl(n - 1), c)
  BY <1>1 DEF Covered
<1>3. Cl(m - 1) \in Nat /\ Cl(m - 1) <= Cl(n - 1)
  BY <1>1, ClMonotone
<1> QED
  BY <1>2, <1>3, ReachLess

\* A chain that does not exist has no sector.
LEMMA CoveredNone ==
  ASSUME NEW F
  PROVE  \A n : Covered(F, FREE, n) <=> n = 0
BY ReachTypes, Numbers DEF Covered

\* The cursor of r is where it says it is and its sectors have clusters.
InChain(F, r) ==
  /\ r.start # FREE => Reaches(F, r.start, r.rel, r.cluster)
  /\ r.start = FREE => r.rel = 0
  /\ Covered(F, r.start, r.size)

\* The FAT G has all that F has of the chain that begins with h.
Keeps(F, G, h) == \A n, c : Reaches(F, h, n, c) => Reaches(G, h, n, c)

\* Nothing is lost of such a chain.
LEMMA KeepsAll ==
  ASSUME NEW F, NEW G, NEW h, Keeps(F, G, h)
  PROVE  /\ \A n : Covered(F, h, n) => Covered(G, h, n)
         /\ \A r : r.start = h /\ InChain(F, r) => InChain(G, r)
<1>1. \A n : Covered(F, h, n) => Covered(G, h, n)
  BY DEF Keeps, Covered
<1> QED
  BY <1>1 DEF Keeps, InChain

\* There is nothing to keep of a chain that does not exist.
LEMMA KeepsNone == \A F, G : Keeps(F, G, FREE) /\ \A h : Keeps(F, F, h)
BY ReachTypes, Numbers DEF Keeps

\* An entry that does not lead on, be it free or the end of a chain, can be
\* changed without loss.
LEMMA KeepsEnds ==
  ASSUME NEW F, NEW G, \A d \in Clusters : F[d] \in Clusters => G[d] = F[d]
  PROVE  \A h : Keeps(F, G, h)
<1> SUFFICES ASSUME NEW h, NEW n, NEW c, Reaches(F, h, n, c) PROVE Reaches(G, h, n, c)
  BY DEF Keeps
<1>1. ASSUME NEW m \in Nat, NEW d \in Clusters, m < n, Reaches(F, h, m, d) PROVE G[d] = F[d]
  <2>1. PICK e \in Clusters : Reaches(F, h, m, e) /\ F[e] \in Clusters
    BY <1>1, ReachBefore
  <2>2. e = d
    BY <1>1, <2>1, ReachOne
  <2> QED
    BY <2>1, <2>2
<1> QED
  BY <1>1, ReachStays

\* An entry that a chain does not reach can be changed without loss.
LEMMA KeepsOther ==
  ASSUME NEW F, NEW G, NEW h, NEW x, \A n : ~Reaches(F, h, n, x),
         \A d \in Clusters : d # x => G[d] = F[d]
  PROVE  Keeps(F, G, h)
<1> SUFFICES ASSUME NEW n, NEW c, Reaches(F, h, n, c) PROVE Reaches(G, h, n, c)
  BY DEF Keeps
<1>1. ASSUME NEW m \in Nat, NEW d \in Clusters, m < n, Reaches(F, h, m, d) PROVE G[d] = F[d]
  BY <1>1
<1> QED
  BY <1>1, ReachStays

\* What a file reaches is neither free nor the rest of another chain.
LEMMA ReachAllocated ==
  ASSUME NEW F \in FatType, NEW H, NEW r, Sound(F, H, r), NEW f \in Files,
         NEW n, NEW c, Reaches(F, H[f], n, c)
  PROVE  c \in Clusters /\ F[c] # FREE /\ c # r
<1>1. n \in Nat /\ c \in Clusters /\ H[f] \in Clusters
  BY ReachTypes
<1>2. CASE n = 0
  <2>1. H[f] = c
    BY <1>2, ReachFirst
  <2> QED
    BY <1>1, <2>1 DEF Sound
<1>3. CASE n # 0
  <2>1. PICK d \in Clusters : F[d] = c
    BY <1>3, ReachLast
  <2> QED
    BY <1>1, <2>1 DEF Sound
<1> QED
  BY <1>2, <1>3

\* No two chains meet, and none of them meets itself.
LEMMA ReachDisjoint ==
  ASSUME NEW F \in FatType, NEW H, NEW r, Sound(F, H, r), NEW f \in Files, NEW g \in Files,
         NEW n, NEW m, NEW c, Reaches(F, H[f], n, c), Reaches(F, H[g], m, c)
  PROVE  f = g /\ n = m
<1> DEFINE S == {k \in Nat : \A l, x : Reaches(F, H[f], k, x) /\ Reaches(F, H[g], l, x)
                                          => f = g /\ k = l}
<1>1. \A k, x : Reaches(F, H[f], k, x) => k \in Nat /\ H[f] \in Clusters /\ x \in Clusters
  BY ReachTypes
<1>2. \A k, x : Reaches(F, H[g], k, x) => k \in Nat /\ H[g] \in Clusters /\ x \in Clusters
  BY ReachTypes
<1>3. ASSUME NEW l, NEW x, Reaches(F, H[f], 0, x), Reaches(F, H[g], l, x)
      PROVE  f = g /\ 0 = l
  <2>1. x = H[f] /\ x \in Clusters
    BY <1>1, <1>3, ReachFirst
  <2>2. CASE l = 0
    <3>1. x = H[g]
      BY <1>3, <2>2, ReachFirst
    <3> QED
      BY <2>1, <2>2, <3>1 DEF Sound
  <2>3. CASE l # 0
    <3>1. PICK d \in Clusters : F[d] = x
      BY <1>3, <2>3, ReachLast
    <3> QED
      BY <2>1, <3>1 DEF Sound
  <2> QED
    BY <2>2, <2>3
<1>4. ASSUME NEW k \in S PROVE k + 1 \in S
  <2>1. k \in Nat /\ k + 1 \in Nat /\ k + 1 # 0 /\ (k + 1) - 1 = k
    OBVIOUS
  <2>2. ASSUME NEW l, NEW x, Reaches(F, H[f], k + 1, x), Reaches(F, H[g], l, x)
        PROVE  f = g /\ k + 1 = l
    <3>1. PICK u \in Clusters : Reaches(F, H[f], k, u) /\ F[u] = x
      BY <2>1, <2>2, ReachLast
    <3>2. x \in Clusters /\ l \in Nat
      BY <1>1, <1>2, <2>2
    <3>3. CASE l = 0
      <4>1. x = H[g]
        BY <2>2, <3>3, ReachFirst
      <4> QED
        BY <3>1, <3>2, <4>1 DEF Sound
    <3>4. CASE l # 0
      <4>1. PICK v \in Clusters : Reaches(F, H[g], l - 1, v) /\ F[v] = x
        BY <2>2, <3>4, ReachLast
      <4>2. u = v
        BY <3>1, <3>2, <4>1 DEF Sound
      <4>3. f = g /\ k = l - 1
        BY <1>4, <3>1, <4>1, <4>2
      <4> QED
        BY <2>1, <3>2, <4>3
    <3> QED
      BY <3>3, <3>4
  <2> QED
    BY <2>1, <2>2
<1>5. S = Nat
  <2>1. S \subseteq Nat /\ 0 \in S
    BY <1>3
  <2> HIDE DEF S
  <2> QED
    BY <1>4, <2>1, AllNumbers
<1>6. n \in S
  BY <1>1, <1>5
<1> QED
  BY <1>6

\* The SFTs S and the directory D and the FAT F, with the call c on its way.
\* The SFT of a call that wipes out what it has cut off is old.
SftChain(S, D, c, F) ==
  /\ \A s \in Sfts : S[s].writes /\ ~(c.s = s /\ c.op = "cut" /\ c.pc = "wipe")
                       => InChain(F, S[s])
  /\ \A s \in Sfts : S[s].writes /\ S[s].clean => D[S[s].file].size = S[s].size
  /\ \A f \in Files : /\ \A s \in Sfts : ~Writer(S, s, f)
                      /\ ~(c.file = f /\ c.op \in {"create", "delete"})
                      => Covered(F, D[f].start, D[f].size)
  /\ \A f \in Files : ~D[f].used => D[f] = NoEntry

\* The call: it has the clusters for what it has put in the transfer so far.
CallChain(c, S, F) ==
  /\ c.op \in {"write", "cut"} => InChain(F, c)
  /\ c.op = "write" /\ c.pc \in {"run", "data"} => Covered(F, c.start, c.offset)
  /\ c.op = "cut" /\ c.pc = "head" => c.offset <= c.size
  /\ c.op = "read" /\ S[c.s].writes => InChain(F, c) /\ c.size = S[c.s].size

ChainsIn(F) == SftChain(sft, dir, call, F) /\ CallChain(call, sft, F)
ChainInv == ChainsIn(fat)

\* T has the instances that write as S has them.
WritersStay(S, T) ==
  \A s \in Sfts : /\ T[s].file = S[s].file /\ T[s].writes = S[s].writes
                  /\ S[s].writes => T[s] = S[s]

SameCall(c) == c.op = call.op /\ c.s = call.s /\ c.file = call.file

\* merge_file_changes leaves the instances that write as they are.
LEMMA MergedSame ==
  ASSUME NEW S \in SftsType, NEW c, \A t \in Sfts : t # c.s /\ S[t].file = c.file => ~S[t].writes
  PROVE  WritersStay(S, Merged(S, c))
<1>1. \A t \in Sfts : S[t] \in SftType
  BY DEF SftsType
<1> SUFFICES ASSUME NEW t \in Sfts
             PROVE  /\ Merged(S, c)[t].file = S[t].file
                    /\ Merged(S, c)[t].writes = S[t].writes
                    /\ S[t].writes => Merged(S, c)[t] = S[t]
  BY DEF WritersStay
<1>2. Merged(S, c)[t] = IF t # c.s /\ S[t].file = c.file
                        THEN [S[t] EXCEPT !.start = c.start, !.size = c.size] ELSE S[t]
  BY DEF Merged
<1>3. CASE t # c.s /\ S[t].file = c.file
  <2>1. Merged(S, c)[t] = [S[t] EXCEPT !.start = c.start, !.size = c.size]
    BY <1>2, <1>3
  <2>2. Merged(S, c)[t].file = S[t].file /\ Merged(S, c)[t].writes = S[t].writes
    BY <1>1, <2>1 DEF SftType
  <2> QED
    BY <1>3, <2>2
<1>4. CASE ~(t # c.s /\ S[t].file = c.file)
  BY <1>2, <1>4
<1> QED
  BY <1>3, <1>4

\* A call that writes is the only one that does, so that its changes go to
\* instances that read.
LEMMA MergedStays ==
  ASSUME IInv, call.op \in {"write", "cut"}, NEW c \in CallType, SameCall(c)
  PROVE  WritersStay(sft, Merged(sft, c))
<1>1. Writer(sft, call.s, call.file) /\ OneWriter(sft) /\ call.file \in Files /\ sft \in SftsType
  BY WriterAt DEF WriteInv, IInv, CallSide, SftInv
<1>2. \A t \in Sfts : t # c.s /\ sft[t].file = c.file => ~sft[t].writes
  BY <1>1 DEF OneWriter, Writer, SameCall
<1> QED
  BY <1>1, <1>2, MergedSame

\* A step of a call that leaves the instances that write as they are.
LEMMA ChainMoves ==
  ASSUME NEW F, SftChain(sft, dir, call, F), fat' = F, dir' = dir, WritersStay(sft, sft'),
         NEW c, call' = c, SameCall(c), call.pc = "wipe" => c.pc = "wipe",
         c.op = "read" => c.s \in Sfts, CallChain(c, sft, F)
  PROVE  ChainInv'
<1>1. \A s \in Sfts : \A f : Writer(sft', s, f) <=> Writer(sft, s, f)
  BY DEF WritersStay, Writer
<1>2. \A s \in Sfts : sft'[s].writes <=> sft[s].writes
  BY DEF WritersStay
<1>3. \A s \in Sfts : sft[s].writes => sft'[s] = sft[s]
  BY DEF WritersStay
<1>4. SftChain(sft', dir', call', fat')
  <2>1. \A s \in Sfts : sft'[s].writes
                          /\ ~(call'.s = s /\ call'.op = "cut" /\ call'.pc = "wipe")
                          => InChain(fat', sft'[s])
    BY <1>2, <1>3 DEF SftChain, SameCall
  <2>2. \A s \in Sfts : sft'[s].writes /\ sft'[s].clean => dir'[sft'[s].file].size = sft'[s].size
    BY <1>2, <1>3 DEF SftChain
  <2>3. \A f \in Files : /\ \A s \in Sfts : ~Writer(sft', s, f)
                         /\ ~(call'.file = f /\ call'.op \in {"create", "delete"})
                         => Covered(fat', dir'[f].start, dir'[f].size)
    BY <1>1 DEF SftChain, SameCall
  <2>4. \A f \in Files : ~dir'[f].used => dir'[f] = NoEntry
    BY DEF SftChain
  <2> QED
    BY <2>1, <2>2, <2>3, <2>4 DEF SftChain
<1>5. CallChain(call', sft', fat')
  BY <1>2, <1>3 DEF CallChain
<1> QED
  BY <1>4, <1>5 DEF ChainInv, ChainsIn

\* Nothing changes for the instances that write if no SFT does.
LEMMA SameWriters == sft' = sft => WritersStay(sft, sft')
BY DEF WritersStay

\* A call that reads has an SFT.
LEMMA ReaderAt ==
  ASSUME IInv, call.op = "read"
  PROVE  call.s \in Sfts /\ ReadInv(call, sft)
BY DEF IInv, CallSide, CallInv, ReadInv

\* A call stores what it knows of its chain.
LEMMA ChainReturns ==
  ASSUME IInv, NEW F, ChainsIn(F), fat' = F, dir' = dir, NEW c \in CallType, Return(c),
         SameFile(c), call.op \in {"read", "write", "cut"},
         c.op \in {"write", "cut"} => InChain(F, c),
         c.op = "read" /\ sft[c.s].writes => InChain(F, c) /\ c.size = sft[c.s].size
  PROVE  ChainInv'
<1>0. c.s \in Sfts /\ sft[c.s].file = c.file
  BY WriterAt, ReaderAt DEF SameFile, WriteInv, ReadInv, Writer
<1> DEFINE r == [sft[c.s] EXCEPT !.clean = c.clean, !.start = c.start, !.size = c.size,
                                 !.offset = c.offset, !.cluster = c.cluster, !.rel = c.rel]
<1>1. sft' = [sft EXCEPT ![c.s] = r] /\ call' = Idle
  BY DEF Return, Stored
<1>2. sft[c.s] \in SftType /\ sft \in SftsType
  BY <1>0 DEF SftsType, IInv, CallSide
<1>3. /\ r.file = c.file /\ r.writes = sft[c.s].writes /\ r.clean = c.clean /\ r.size = c.size
      /\ r.start = c.start /\ r.cluster = c.cluster /\ r.rel = c.rel
  BY <1>0, <1>2 DEF SftType, CallType
<1> HIDE DEF r
<1>4. \A s \in Sfts : sft'[s] = IF s = c.s THEN r ELSE sft[s]
  BY <1>1, <1>2 DEF SftsType
<1>5. \A s \in Sfts : \A f : Writer(sft', s, f) <=> Writer(sft, s, f)
  BY <1>0, <1>3, <1>4 DEF Writer
<1>6. Idle.op = "none" /\ Idle.pc = "idle"
  BY DEF Idle
<1>7. r.writes => InChain(F, r)
  <2> SUFFICES ASSUME sft[c.s].writes PROVE InChain(F, c)
    BY <1>3 DEF InChain
  <2> QED
    BY DEF SameFile
<1>8. r.writes /\ r.clean => dir[r.file].size = r.size
  <2> SUFFICES ASSUME sft[c.s].writes, c.clean PROVE dir[c.file].size = c.size
    BY <1>3
  <2>1. c.op = "read"
    BY WriterAt DEF SameFile, WriteInv
  <2>2. c.size = sft[c.s].size /\ sft[c.s].clean
    BY <2>1, ReaderAt DEF SameFile, ReadInv
  <2> QED
    BY <1>0, <2>2 DEF ChainsIn, SftChain
<1>9. SftChain(sft', dir', call', fat')
  <2>1. ASSUME NEW s \in Sfts, sft'[s].writes PROVE InChain(fat', sft'[s])
    <3>1. CASE s = c.s
      BY <1>4, <1>7, <2>1, <3>1
    <3>2. CASE s # c.s
      BY <1>4, <2>1, <3>2 DEF ChainsIn, SftChain, SameFile
    <3> QED
      BY <3>1, <3>2
  <2>2. ASSUME NEW s \in Sfts, sft'[s].writes, sft'[s].clean
        PROVE  dir'[sft'[s].file].size = sft'[s].size
    <3>1. CASE s = c.s
      BY <1>4, <1>8, <2>2, <3>1
    <3>2. CASE s # c.s
      BY <1>4, <2>2, <3>2 DEF ChainsIn, SftChain
    <3> QED
      BY <3>1, <3>2
  <2>3. ASSUME NEW f \in Files, \A s \in Sfts : ~Writer(sft', s, f)
        PROVE  Covered(fat', dir'[f].start, dir'[f].size)
    BY <1>5, <2>3 DEF ChainsIn, SftChain
  <2>4. \A f \in Files : ~dir'[f].used => dir'[f] = NoEntry
    BY DEF ChainsIn, SftChain
  <2> QED
    BY <2>1, <2>2, <2>3, <2>4 DEF SftChain
<1>10. CallChain(call', sft', fat')
  BY <1>1, <1>6 DEF CallChain
<1> QED
  BY <1>9, <1>10 DEF ChainInv, ChainsIn

\* A call that changes nothing can return at any time before it wipes.
LEMMA ChainDrops ==
  ASSUME NEW F, ChainsIn(F), fat' = F, dir' = dir, Drop, call.op \in {"read", "write", "cut"},
         call.pc # "wipe"
  PROVE  ChainInv'
<1>1. call' = Idle /\ sft' = sft /\ Idle.op = "none" /\ Idle.pc = "idle"
  BY DEF Drop, Idle
<1>2. SftChain(sft', dir', call', fat')
  BY <1>1 DEF ChainsIn, SftChain
<1>3. CallChain(call', sft', fat')
  BY <1>1 DEF CallChain
<1> QED
  BY <1>2, <1>3 DEF ChainInv, ChainsIn

\* What the callers of map_cluster do with an error.
LEMMA ChainNotMapped ==
  ASSUME IInv, NEW F, ChainsIn(F), fat' = F, dir' = dir, Mapping, NotMapped
  PROVE  ChainInv'
<1>1. call \in CallType /\ SameFile(call) /\ call.pc # "wipe"
  BY OpAtPc DEF SameFile, Mapping
<1>2. CASE call.pc \in {"extend", "map"} /\ Return(call)
  <2>1. call.op \in {"read", "write", "cut"}
    BY <1>2, OpAtPc
  <2> QED
    BY <1>1, <1>2, <2>1, ChainReturns DEF ChainsIn, CallChain
<1>3. CASE call.pc = "run" /\ Continue([call EXCEPT !.pc = "data"])
  <2> DEFINE c == [call EXCEPT !.pc = "data"]
  <2>1. call' = c /\ sft' = sft
    BY <1>3 DEF Continue
  <2>2. /\ SameCall(c) /\ c.cluster = call.cluster /\ c.rel = call.rel /\ c.start = call.start
        /\ c.pc = "data" /\ c.offset = call.offset /\ c.size = call.size
    BY <1>1 DEF CallType, SameCall
  <2> HIDE DEF c
  <2>3. CallChain(c, sft, F)
    BY <1>3, <2>2 DEF ChainsIn, CallChain, InChain, SameCall
  <2>4. c.op = "read" => c.s \in Sfts
    BY <2>2, ReaderAt DEF SameCall
  <2> QED
    BY <1>1, <2>1, <2>2, <2>3, <2>4, SameWriters, ChainMoves DEF ChainsIn
<1>4. CASE call.pc = "cut" /\ Drop
  BY <1>1, <1>4, OpAtPc, ChainDrops
<1> QED
  BY <1>2, <1>3, <1>4 DEF NotMapped

\* A call that stays at its cursor and knows of the same sectors.
LEMMA InChainSame ==
  ASSUME NEW F, NEW c, NEW d, InChain(F, c), d.start = c.start, d.rel = c.rel,
         d.cluster = c.cluster, d.size = c.size
  PROVE  InChain(F, d)
BY DEF InChain

-----------------------------------------------------------------------------
(* What the steps do to the chains: those that read the FAT only.          *)

\* A step that changes nothing of what a chain is.
Quiet == fat' = fat /\ Heads' = Heads /\ Rest' = Rest /\ (failed => failed')

\* The heads stay where they are in a step of a call that keeps its start.
LEMMA HeadsStay ==
  ASSUME IInv, dir' = dir, WritersStay(sft, sft'), SameFile(call')
  PROVE  Heads' = Heads
<1>1. \A s \in Sfts : \A f : Writer(sft', s, f) <=> Writer(sft, s, f)
  BY DEF WritersStay, Writer
<1>2. OneWriter(sft) /\ OneWriter(sft')
  BY <1>1 DEF IInv, CallSide, SftInv, OneWriter
<1>3. \A s \in Sfts : \A f : Writer(sft, s, f) => sft'[s] = sft[s]
  BY DEF WritersStay, Writer
<1>4. ASSUME NEW f \in Files PROVE Head(f)' = Head(f)
  <2>1. HeadIs(sft, dir, call, f, Head(f))
    BY <1>2, HeadOfFile
  <2>2. HeadIs(sft', dir', call', f, Head(f))
    BY <1>1, <1>3, <2>1 DEF HeadIs, SameFile
  <2> QED
    BY <1>2, <2>2, HeadAfter
<1> QED
  BY <1>4 DEF Heads

\* A step within a call.
LEMMA QuietMove ==
  ASSUME IInv, ChainInv, UNCHANGED <<fat, dir, failed>>, WritersStay(sft, sft'),
         NEW c, call' = c, SameFile(c), call.pc # "wipe", c.pc # "wipe",
         CallChain(c, sft, fat)
  PROVE  ChainInv' /\ Quiet
<1>1. SameCall(c) /\ (c.op = "read" => c.s \in Sfts)
  BY ReaderAt DEF SameFile, SameCall
<1>2. ChainInv'
  BY <1>1, ChainMoves DEF ChainInv, ChainsIn
<1>3. Heads' = Heads
  BY HeadsStay
<1> QED
  BY <1>2, <1>3 DEF Quiet, Rest

\* The end of a call.
LEMMA QuietReturn ==
  ASSUME IInv, ChainInv, UNCHANGED <<fat, dir, failed>>, NEW c \in CallType, Return(c), SameFile(c),
         c.pc = call.pc, call.pc # "wipe", call.op \in {"read", "write", "cut"},
         AtCursor(call) => AtCursor(c),
         c.op \in {"write", "cut"} => InChain(fat, c),
         c.op = "read" /\ sft[c.s].writes => InChain(fat, c) /\ c.size = sft[c.s].size
  PROVE  ChainInv' /\ Quiet
<1>1. ChainInv'
  BY ChainReturns DEF ChainInv
<1>2. Heads' = Heads /\ Rest' = FREE
  BY ReturnEnds
<1> QED
  BY <1>1, <1>2 DEF Quiet, Rest

\* The cursor goes back to the start of the file.
LEMMA MapRestartChains == IInv /\ ChainInv /\ MapRestart => ChainInv' /\ Quiet
<1> SUFFICES ASSUME IInv, ChainInv, MapRestart PROVE ChainInv' /\ Quiet
  OBVIOUS
<1> DEFINE c == [call EXCEPT !.cluster = call.start, !.rel = 0]
<1>1. /\ SameFile(c) /\ c.pc = call.pc /\ c.cluster = call.start /\ c.rel = 0
      /\ c.offset = call.offset /\ c.size = call.size /\ call.start \in Pointers
  BY OpAtPc DEF CallType, SameFile
<1>2. call' = c /\ UNCHANGED <<fat, dir, sft, failed>>
  BY DEF MapRestart, Continue
<1> HIDE DEF c
<1>3. InChain(fat, call) => InChain(fat, c)
  <2>1. call.start # FREE => Reaches(fat, call.start, 0, call.start)
    BY <1>1, ReachHere DEF Pointers
  <2> QED
    BY <1>1, <2>1 DEF InChain, SameFile
<1>4. CallChain(c, sft, fat)
  BY <1>1, <1>3 DEF ChainInv, ChainsIn, CallChain, SameFile
<1> QED
  BY <1>1, <1>2, <1>4, SameWriters, QuietMove DEF MapRestart, Mapping

\* The cursor goes on by one cluster.
LEMMA MapFollowChains == IInv /\ ChainInv /\ MapFollow => ChainInv' /\ Quiet
<1> SUFFICES ASSUME IInv, ChainInv, MapFollow PROVE ChainInv' /\ Quiet
  OBVIOUS
<1> DEFINE next == next_cluster(call.cluster)
           rel == call.rel + 1
           c == [call EXCEPT !.cluster = next, !.rel = rel]
<1>1. next \in Clusters /\ next = fat[call.cluster]
  BY NextCluster, Numbers DEF MapFollow
<1>2. call' = [call EXCEPT !.cluster = next_cluster(@), !.rel = @ + 1]
      /\ UNCHANGED <<fat, dir, sft, failed>>
  BY DEF MapFollow, Continue
<1>3. call' = c
  BY <1>2
<1> HIDE DEF next
<1>4. /\ SameFile(c) /\ c.pc = call.pc /\ c.cluster = next /\ c.rel = rel
      /\ c.offset = call.offset /\ c.size = call.size
  BY OpAtPc DEF CallType, SameFile
<1> HIDE DEF c
<1>5. InChain(fat, call) /\ AtCursor(call) => InChain(fat, c)
  <2>1. Reaches(fat, call.start, call.rel, call.cluster) => Reaches(fat, call.start, rel, next)
    BY <1>1, ReachNext
  <2>2. call.cluster # FREE
    BY DEF MapFollow, Ahead
  <2> QED
    BY <1>4, <2>1, <2>2 DEF InChain, SameFile, AtCursor
<1>6. /\ call.op \in {"write", "cut"} => AtCursor(call)
      /\ call.op = "read" /\ sft[call.s].writes => AtCursor(call)
  BY WriterAt, ReaderAt DEF ReadInv
<1>7. CallChain(c, sft, fat)
  BY <1>4, <1>5, <1>6 DEF ChainInv, ChainsIn, CallChain, SameFile
<1> QED
  BY <1>2, <1>3, <1>4, <1>7, SameWriters, QuietMove DEF MapFollow, Mapping

\* The loop of rwblock goes to map_cluster.
LEMMA PositionChains == IInv /\ ChainInv /\ Position => ChainInv' /\ Quiet
<1> SUFFICES ASSUME IInv, ChainInv, Position PROVE ChainInv' /\ Quiet
  OBVIOUS
<1> DEFINE c == [call EXCEPT !.pc = "map"]
<1>1. call' = c /\ UNCHANGED <<fat, dir, sft, failed>> /\ call.pc = "head"
  BY DEF Position, Continue
<1>2. /\ SameFile(c) /\ c.pc = "map" /\ c.cluster = call.cluster /\ c.rel = call.rel
      /\ c.offset = call.offset /\ c.size = call.size
  BY OpAtPc DEF CallType, SameFile
<1> HIDE DEF c
<1>3. CallChain(c, sft, fat)
  BY <1>2 DEF ChainInv, ChainsIn, CallChain, SameFile, InChain
<1> QED
  BY <1>1, <1>2, <1>3, SameWriters, QuietMove

\* A call that is done stores its cursor.
LEMMA FinishChains == IInv /\ ChainInv /\ Finish => ChainInv' /\ Quiet
<1> SUFFICES ASSUME IInv, ChainInv, Finish PROVE ChainInv' /\ Quiet
  OBVIOUS
<1>1. Return(call) /\ UNCHANGED <<fat, dir, failed>> /\ call.pc = "head"
  BY DEF Finish
<1>2. call \in CallType /\ call.op \in {"read", "write", "cut"} /\ SameFile(call)
  BY <1>1, OpAtPc DEF SameFile
<1> QED
  BY <1>1, <1>2, QuietReturn DEF ChainInv, ChainsIn, CallChain

\* A failed transfer takes the offset back, not the cursor.
LEMMA TransferFailsChains == IInv /\ ChainInv /\ TransferFails => ChainInv' /\ Quiet
<1> SUFFICES ASSUME IInv, ChainInv, TransferFails PROVE ChainInv' /\ Quiet
  OBVIOUS
<1> DEFINE c == [call EXCEPT !.offset = call.from]
<1>1. Return(c) /\ UNCHANGED <<fat, dir, failed>> /\ call.pc = "data"
  BY DEF TransferFails
<1>2. /\ c \in CallType /\ SameFile(c) /\ c.pc = call.pc /\ c.cluster = call.cluster
      /\ c.rel = call.rel /\ c.size = call.size
  BY OpAtPc DEF CallType, SameFile
<1> HIDE DEF c
<1>3. call.op \in {"read", "write", "cut"} /\ (AtCursor(call) => AtCursor(c))
  BY <1>1, <1>2, OpAtPc DEF SameFile, AtCursor
<1>4. InChain(fat, call) => InChain(fat, c)
  BY <1>2 DEF InChain, SameFile
<1>5. CallChain(call, sft, fat)
  BY DEF ChainInv, ChainsIn
<1> QED
  BY <1>1, <1>2, <1>3, <1>4, <1>5, QuietReturn DEF CallChain, SameFile

\* A transfer takes sectors up to the end of a cluster.
LEMMA TakenWithin ==
  ASSUME NEW c \in CallType
  PROVE  Taken(c).offset <= ClusterSectors * (Cl(c.offset) + 1)
<1> DEFINE far == ClusterSectors * (Cl(c.offset) + 1)
           want == Wanted(c)
           end == Smaller(far, want)
           pc == IF end < want THEN "run" ELSE "data"
<1>1. c.offset \in Nat /\ c.from \in Nat /\ c.left \in Nat /\ c.size \in Nat
  BY DEF CallType, Offsets
<1>2. far \in Nat /\ want \in Int
  BY <1>1, ClOf DEF Wanted, Smaller
<1> HIDE DEF far, want
<1>3. end <= far
  BY <1>2 DEF Smaller
<1> HIDE DEF end
<1>4. [c EXCEPT !.offset = end, !.pc = pc].offset = end
  BY DEF CallType
<1> QED
  BY <1>3, <1>4 DEF Taken, end, far, want

\* The sectors that are taken are in the chain.
LEMMA TakenCovered ==
  ASSUME NEW F, NEW c \in CallType, c.start # FREE, InChain(F, c), c.rel = Cl(c.offset),
         IsTaken(c, Taken(c))
  PROVE  Covered(F, c.start, Taken(c).offset)
<1>1. Taken(c).offset <= ClusterSectors * (c.rel + 1)
  BY TakenWithin
<1>2. Taken(c).offset \in Nat
  BY DEF IsTaken, CallType, Offsets
<1>3. Reaches(F, c.start, c.rel, c.cluster)
  BY DEF InChain
<1> QED
  BY <1>1, <1>2, <1>3, CoveredTo

\* A transfer takes the next cluster if it follows on the disk.
LEMMA AnotherClusterChains == IInv /\ ChainInv /\ AnotherCluster => ChainInv' /\ Quiet
<1> SUFFICES ASSUME IInv, ChainInv, AnotherCluster PROVE ChainInv' /\ Quiet
  OBVIOUS
<1>1. /\ call \in CallType /\ call.op \in {"read", "write"} /\ call.pc = "run" /\ BoundsInv(call)
      /\ call.cluster # FREE /\ call.rel = Cl(call.offset)
  BY OpAtPc DEF AnotherCluster, There
<1>2. PICK c : call' = c /\ (c = Taken(call) \/ c = [call EXCEPT !.pc = "data"])
  BY DEF AnotherCluster, Continue
<1>3. call.from <= call.offset /\ call.offset <= Wanted(call) /\ Wanted(call) <= MaxOffset
  BY <1>1 DEF BoundsInv
<1>4. CallChain(call, sft, fat)
  BY DEF ChainInv, ChainsIn
<1>5. /\ SameFile(c) /\ c.cluster = call.cluster /\ c.rel = call.rel /\ c.size = call.size
      /\ c.pc \in {"run", "data"}
      /\ call.op = "write" => Covered(fat, c.start, c.offset)
  <2>1. CASE c = Taken(call)
    <3>1. IsTaken(call, c)
      BY <1>1, <1>3, <2>1, TakenBounds
    <3>2. ASSUME call.op = "write" PROVE Covered(fat, call.start, c.offset)
      <4>1. call.start # FREE /\ InChain(fat, call)
        BY <1>1, <1>4, <3>2, WriterAt DEF AtCursor, CallChain
      <4> QED
        BY <1>1, <2>1, <3>1, <4>1, TakenCovered
    <3> QED
      BY <3>1, <3>2 DEF IsTaken, SameFile
  <2>2. CASE c = [call EXCEPT !.pc = "data"]
    <3>1. /\ SameFile(c) /\ c.cluster = call.cluster /\ c.rel = call.rel /\ c.size = call.size
          /\ c.pc = "data" /\ c.offset = call.offset
      BY <1>1, <2>2 DEF CallType, SameFile
    <3> QED
      BY <1>1, <1>4, <3>1 DEF CallChain, SameFile
  <2> QED
    BY <1>2, <2>1, <2>2
<1>6. InChain(fat, call) => InChain(fat, c)
  BY <1>5 DEF InChain, SameFile
<1>7. CallChain(c, sft, fat)
  BY <1>1, <1>4, <1>5, <1>6 DEF CallChain, SameFile
<1>8. UNCHANGED <<fat, dir, sft, failed>>
  BY DEF AnotherCluster, Continue
<1> QED
  BY <1>1, <1>2, <1>5, <1>7, <1>8, SameWriters, QuietMove

\* A transfer begins: the sectors that it takes have clusters.
LEMMA FirstClusterChains == IInv /\ ChainInv /\ FirstCluster => ChainInv' /\ Quiet
<1> SUFFICES ASSUME IInv, ChainInv, FirstCluster PROVE ChainInv' /\ Quiet
  OBVIOUS
<1>1. /\ call \in CallType /\ call.op \in {"read", "write"} /\ call.pc = "map" /\ BoundsInv(call)
      /\ call.cluster # FREE /\ call.rel = Cl(call.offset)
  BY OpAtPc DEF FirstCluster, There
<1> DEFINE d == [call EXCEPT !.from = call.offset, !.st = call.cluster]
<1>2. call' = Taken(d) /\ UNCHANGED <<fat, dir, failed>>
  BY DEF FirstCluster
<1>3. /\ d \in CallType /\ SameFile(d) /\ d.cluster = call.cluster /\ d.rel = call.rel
      /\ d.from = call.offset /\ d.offset = call.offset /\ d.left = call.left /\ d.size = call.size
  BY <1>1 DEF CallType, SameFile
<1> HIDE DEF d
<1>4. /\ call.offset \in Nat /\ call.left \in Nat /\ call.size \in Nat /\ call.size <= MaxOffset
      /\ MaxOffset \in Nat
  BY <1>1, FatConstants DEF CallType, Offsets
<1>5. d.from <= d.offset /\ d.offset <= Wanted(d) /\ Wanted(d) <= MaxOffset
  <2>1. CASE call.op = "read"
    <3>1. call.offset < call.size
      BY <1>1, <2>1 DEF BoundsInv
    <3> QED
      BY <1>3, <1>4, <2>1, <3>1 DEF Wanted, Smaller, SameFile
  <2>2. CASE call.op = "write"
    <3>1. call.offset + call.left <= MaxOffset
      BY <1>1, <2>2 DEF BoundsInv
    <3> QED
      BY <1>3, <1>4, <2>2, <3>1 DEF Wanted, SameFile
  <2> QED
    BY <1>1, <2>1, <2>2
<1>6. IsTaken(d, Taken(d))
  BY <1>3, <1>5, TakenBounds
<1>7. /\ SameFile(call') /\ call'.pc \in {"run", "data"}
      /\ call'.cluster = call.cluster /\ call'.rel = call.rel /\ call'.size = call.size
  BY <1>2, <1>3, <1>6 DEF IsTaken, SameFile
<1>8. CallChain(call, sft, fat)
  BY DEF ChainInv, ChainsIn
<1>9. ASSUME call.op = "write" PROVE Covered(fat, call.start, call'.offset)
  <2>1. call.start # FREE /\ InChain(fat, call)
    BY <1>1, <1>8, <1>9, WriterAt DEF AtCursor, CallChain
  <2>2. InChain(fat, d) /\ d.start = call.start
    BY <1>3, <2>1 DEF InChain, SameFile
  <2> QED
    BY <1>1, <1>2, <1>3, <1>6, <2>1, <2>2, TakenCovered
<1>10. InChain(fat, call) => InChain(fat, call')
  BY <1>7 DEF InChain, SameFile
<1>11. CallChain(call', sft, fat)
  BY <1>1, <1>7, <1>8, <1>9, <1>10 DEF CallChain, SameFile
<1>12. WritersStay(sft, sft')
  <2>1. CASE call.op = "read"
    BY <2>1, SameWriters DEF FirstCluster
  <2>2. CASE call.op = "write"
    <3>1. sft' = Merged(sft, call) /\ SameCall(call)
      BY <2>2 DEF FirstCluster, SameCall
    <3> QED
      BY <1>1, <2>2, <3>1, MergedStays
  <2> QED
    BY <1>1, <2>1, <2>2
<1> QED
  BY <1>1, <1>2, <1>7, <1>11, <1>12, QuietMove

\* dos_extend sets the size once the clusters are there.
LEMMA ExtendedChains == IInv /\ ChainInv /\ Extended => ChainInv' /\ Quiet
<1> SUFFICES ASSUME IInv, ChainInv, Extended PROVE ChainInv' /\ Quiet
  OBVIOUS
<1>1. /\ call \in CallType /\ call.op \in {"write", "cut"} /\ call.pc = "extend"
      /\ call.cluster # FREE /\ call.rel = Cl(call.offset)
  BY OpAtPc DEF Extended, There
<1> DEFINE c == [call EXCEPT !.pc = "head", !.size = call.offset]
<1>2. call' = c /\ sft' = Merged(sft, c) /\ UNCHANGED <<fat, dir, failed>>
  BY DEF Extended
<1>3. /\ c \in CallType /\ SameFile(c) /\ c.pc = "head" /\ c.cluster = call.cluster
      /\ c.rel = call.rel /\ c.offset = call.offset /\ c.size = call.offset
  BY <1>1 DEF CallType, SameFile, Pcs
<1> HIDE DEF c
<1>4. CallChain(call, sft, fat) /\ call.start # FREE /\ call.offset \in Nat
  BY <1>1, WriterAt DEF ChainInv, ChainsIn, AtCursor, CallType, Offsets
<1>5. Reaches(fat, call.start, call.rel, call.cluster)
  BY <1>1, <1>4 DEF CallChain, InChain
<1>6. Covered(fat, call.start, call.offset)
  BY <1>1, <1>4, <1>5, CoveredHere
<1>7. InChain(fat, c)
  BY <1>3, <1>4, <1>5, <1>6 DEF InChain, SameFile
<1>8. CallChain(c, sft, fat)
  BY <1>1, <1>3, <1>4, <1>7 DEF CallChain, SameFile
<1>9. WritersStay(sft, sft')
  BY <1>1, <1>2, <1>3, MergedStays DEF SameCall, SameFile
<1> QED
  BY <1>1, <1>2, <1>3, <1>8, <1>9, QuietMove

\* A write sets the size after the transfer.
LEMMA TransferChains == IInv /\ ChainInv /\ Transfer => ChainInv' /\ Quiet
<1> SUFFICES ASSUME IInv, ChainInv, Transfer PROVE ChainInv' /\ Quiet
  OBVIOUS
<1>1. call \in CallType /\ call.op \in {"read", "write"} /\ call.pc = "data" /\ BoundsInv(call)
  BY OpAtPc DEF Transfer
<1>2. /\ call.offset \in Nat /\ call.left \in Nat /\ call.size \in Nat /\ call.from \in Nat
      /\ call.from <= call.offset /\ call.offset <= Wanted(call) /\ Wanted(call) <= MaxOffset
  BY <1>1 DEF BoundsInv, CallType, Offsets
<1> DEFINE left == call.left - (call.offset - call.from)
           size == IF call.op = "write" /\ call.offset > call.size THEN call.offset ELSE call.size
           c == [call EXCEPT !.pc = "head", !.left = left, !.size = size]
           d == [c EXCEPT !.from = 0, !.st = FREE]
<1>3. /\ call' = d /\ sft' = IF call.op = "write" THEN Merged(sft, c) ELSE sft
      /\ UNCHANGED <<fat, dir, failed>>
  BY DEF Transfer
<1>4. left \in Nat /\ size \in Offsets
  BY <1>1, <1>2 DEF Wanted, Smaller, CallType
<1>5. CallChain(call, sft, fat)
  BY DEF ChainInv, ChainsIn
<1>6. /\ call.op = "write" => InChain(fat, call) /\ Covered(fat, call.start, size)
      /\ call.op = "read" => size = call.size
  BY <1>1, <1>5 DEF CallChain, InChain
<1> HIDE DEF left, size
<1>7. /\ c \in CallType /\ SameFile(c) /\ c.cluster = call.cluster /\ c.rel = call.rel
      /\ c.pc = "head" /\ c.size = size
  BY <1>1, <1>4 DEF CallType, SameFile, Pcs
<1> HIDE DEF c
<1>8. /\ SameFile(d) /\ d.cluster = call.cluster /\ d.rel = call.rel
      /\ d.pc = "head" /\ d.size = size
  BY <1>7 DEF CallType, SameFile
<1> HIDE DEF d
<1>9. /\ call.op = "write" => InChain(fat, d)
      /\ call.op = "read" /\ InChain(fat, call) => InChain(fat, d)
  BY <1>6, <1>8 DEF InChain, SameFile
<1>10. CallChain(d, sft, fat)
  BY <1>1, <1>5, <1>6, <1>8, <1>9 DEF CallChain, SameFile
<1>11. WritersStay(sft, sft')
  <2>1. CASE call.op = "read"
    BY <1>3, <2>1, SameWriters
  <2>2. CASE call.op = "write"
    BY <1>3, <1>7, <2>2, MergedStays DEF SameCall, SameFile
  <2> QED
    BY <1>1, <2>1, <2>2
<1> QED
  BY <1>1, <1>3, <1>8, <1>10, <1>11, QuietMove

\* shrink_file sets the size before it cuts.
LEMMA ShrinkChains == IInv /\ ChainInv /\ Shrink => ChainInv' /\ Quiet
<1> SUFFICES ASSUME IInv, ChainInv, Shrink PROVE ChainInv' /\ Quiet
  OBVIOUS
<1>1. call \in CallType /\ call.op = "cut" /\ call.pc = "head"
  BY OpAtPc DEF Shrink
<1> DEFINE c == [call EXCEPT !.size = call.offset]
           back == IF c.offset = 0 THEN 0 ELSE c.offset - 1
           d == [c EXCEPT !.pc = "cut", !.from = c.offset, !.offset = back]
<1>2. \/ Return(c)
      \/ call' = d /\ sft' = sft
  BY DEF Shrink, Continue
<1>3. /\ c \in CallType /\ SameFile(c) /\ c.pc = "head" /\ c.cluster = call.cluster
      /\ c.rel = call.rel /\ c.size = call.offset
  BY <1>1 DEF CallType, SameFile
<1> HIDE DEF c, back
<1>4. UNCHANGED <<fat, dir, failed>>
  BY DEF Shrink
<1>5. CallChain(call, sft, fat) /\ call.offset \in Nat /\ call.size \in Nat
  BY <1>1 DEF ChainInv, ChainsIn, CallType, Offsets
<1>6. Covered(fat, call.start, call.offset)
  BY <1>1, <1>5, CoveredLess DEF CallChain, InChain
<1>7. InChain(fat, c)
  BY <1>1, <1>3, <1>5, <1>6 DEF CallChain, InChain, SameFile
<1>8. CASE Return(c)
  <2>1. AtCursor(call) => AtCursor(c)
    BY <1>3 DEF AtCursor, SameFile
  <2> QED
    BY <1>1, <1>3, <1>4, <1>7, <1>8, <2>1, QuietReturn DEF SameFile
<1>9. CASE call' = d /\ sft' = sft
  <2>1. /\ SameFile(d) /\ d.pc = "cut" /\ d.cluster = c.cluster /\ d.rel = c.rel
        /\ d.size = c.size /\ d.start = c.start
    BY <1>3 DEF CallType, SameFile
  <2> HIDE DEF d
  <2>2. InChain(fat, d)
    BY <1>7, <2>1, InChainSame
  <2>3. CallChain(d, sft, fat)
    BY <1>1, <2>1, <2>2 DEF CallChain, SameFile
  <2> QED
    BY <1>1, <1>4, <1>9, <2>1, <2>3, SameWriters, QuietMove
<1> QED
  BY <1>2, <1>8, <1>9

-----------------------------------------------------------------------------
(* What is lost.                                                           *)

\* Every cluster of the FAT F that is not free belongs to a chain.
Owned(F, H, r) ==
  \A c \in Clusters : F[c] # FREE => \/ \E d \in Clusters : F[d] = c
                                     \/ \E f \in Files : H[f] = c
                                     \/ r = c

\* NothingLost, said of the heads.
LEMMA LostIs ==
  /\ NothingLost <=> failed \/ Owned(fat, Heads, Rest)
  /\ NothingLost' <=> failed' \/ Owned(fat', Heads', Rest')
BY HeadsAre DEF NothingLost, Owned, Free

\* Nothing is lost in a step that changes no chain.
LEMMA QuietKeeps == NothingLost /\ Quiet => NothingLost'
BY LostIs DEF Quiet

\* What the loops find is what the FAT says, as long as a cluster is allocated.
LEMMA NextAllocated ==
  ASSUME IInv, NEW c \in Clusters, fat[c] # FREE
  PROVE  next_cluster(c) = fat[c] /\ next_cluster(c) > 1
<1>1. fat[c] \in Clusters \cup {LAST} /\ (fat[c] \in Clusters => fat[fat[c]] # FREE)
  BY Numbers DEF IInv, FatSide, FatType, Pointers, Sound
<1> QED
  BY <1>1, Numbers DEF next_cluster

\* A call that writes begins at the head of its file.
LEMMA WriterHead ==
  ASSUME IInv, call.op \in {"write", "cut"}
  PROVE  Heads[call.file] = call.start /\ call.file \in Files
<1>1. call.file \in Files /\ HeadIs(sft, dir, call, call.file, Head(call.file))
  BY WriterAt, HeadOfFile DEF IInv, CallSide, SftInv
<1> QED
  BY <1>1, HeadsAre DEF HeadIs

\* The cursor of a call that writes is an allocated cluster.
LEMMA CursorAllocated ==
  ASSUME IInv, ChainInv, call.op \in {"write", "cut"}, call.cluster # FREE
  PROVE  /\ call.cluster \in Clusters /\ fat[call.cluster] # FREE
         /\ Reaches(fat, call.start, call.rel, call.cluster)
         /\ next_cluster(call.cluster) = fat[call.cluster] /\ next_cluster(call.cluster) > 1
<1>1. call.start # FREE
  BY WriterAt DEF AtCursor
<1>2. Reaches(fat, call.start, call.rel, call.cluster)
  BY <1>1 DEF ChainInv, ChainsIn, CallChain, InChain
<1>3. Sound(fat, Heads, Rest) /\ fat \in FatType
  BY DEF IInv, FatSide
<1>4. call.cluster \in Clusters /\ fat[call.cluster] # FREE
  BY <1>2, <1>3, WriterHead, ReachAllocated
<1> QED
  BY <1>2, <1>4, NextAllocated

\* shrink_file finds the clusters that it looks for.
LEMMA CutFinds ==
  ASSUME IInv, ChainInv, call.pc = "cut", Ahead
  PROVE  next_cluster(call.cluster) \in Clusters
<1>1. /\ call.op = "cut" /\ call \in CallType /\ BoundsInv(call)
      /\ call.cluster # FREE /\ call.rel < Cl(call.offset)
  BY OpAtPc DEF Ahead
<1>2. /\ Reaches(fat, call.start, call.rel, call.cluster)
      /\ next_cluster(call.cluster) = fat[call.cluster]
  BY <1>1, CursorAllocated
<1>3. /\ call.size = call.from /\ call.offset = IF call.from = 0 THEN 0 ELSE call.from - 1
      /\ call.rel \in Nat /\ call.from \in Nat
  BY <1>1 DEF BoundsInv, CallType, Offsets
<1>4. Cl(0) = 0
  BY FatConstants DEF Cl
<1>5. call.size # 0 /\ call.offset = call.size - 1
  BY <1>1, <1>3, <1>4
<1>6. PICK x : Reaches(fat, call.start, Cl(call.offset), x)
  BY <1>1, <1>5 DEF ChainInv, ChainsIn, CallChain, InChain, Covered
<1>7. PICK e \in Clusters : Reaches(fat, call.start, call.rel, e) /\ fat[e] \in Clusters
  BY <1>1, <1>3, <1>6, ReachBefore
<1>8. e = call.cluster
  BY <1>2, <1>7, ReachOne
<1> QED
  BY <1>2, <1>7, <1>8

\* An error of map_cluster loses nothing: the file is at fault only if it has
\* no cluster at all, and then there is nothing to cut off.
LEMMA NotMappedSaves ==
  ASSUME IInv, ChainInv, Mapping, NotMapped, dir' = dir,
         call.pc = "cut" => call.start = FREE
  PROVE  Heads' = Heads /\ Rest' = Rest
<1>1. Rest = FREE /\ Rest' = FREE
  BY NotMappedEnds DEF Mapping, Rest
<1>2. CASE call.pc # "cut"
  BY <1>1, <1>2, NotMappedEnds
<1>3. CASE call.pc = "cut"
  <2>1. call.op = "cut" /\ Drop
    BY <1>3, OpAtPc DEF NotMapped
  <2>2. \A f \in Files : /\ Head(f)' \in {Head(f), FREE}
                         /\ f # call.file => Head(f)' = Head(f)
    BY <1>3, <2>1, DropEnds
  <2>3. Heads[call.file] = FREE /\ call.file \in Files
    BY <1>3, <2>1, WriterHead
  <2>4. \A f \in Files : Head(f)' = Head(f)
    BY <2>2, <2>3, HeadsAre
  <2> QED
    BY <1>1, <2>4 DEF Heads
<1> QED
  BY <1>2, <1>3

\* map_cluster returns an error.
LEMMA MapFailsChains == IInv /\ ChainInv /\ MapFails => ChainInv' /\ (NothingLost => NothingLost')
<1> SUFFICES ASSUME IInv, ChainInv, MapFails PROVE ChainInv' /\ (NothingLost => NothingLost')
  OBVIOUS
<1>1. /\ Mapping /\ NotMapped /\ UNCHANGED <<fat, dir>>
      /\ \/ Reading /\ AtEnd /\ failed' = failed
         \/ Ahead /\ next_cluster(call.cluster) <= 1 /\ failed' = failed
         \/ Fault
  BY DEF MapFails
<1>2. ChainInv'
  BY <1>1, ChainNotMapped DEF ChainInv
<1>3. CASE Fault
  BY <1>2, <1>3 DEF Fault, NothingLost
<1>4. CASE ~Fault
  <2>1. ASSUME call.pc = "cut" PROVE call.start = FREE
    <3>1. call.op = "cut"
      BY <2>1, OpAtPc
    <3>2. ~Ahead
      <4> SUFFICES ASSUME Ahead PROVE FALSE
        OBVIOUS
      <4>1. next_cluster(call.cluster) \in Clusters
        BY <2>1, CutFinds
      <4>2. next_cluster(call.cluster) = LAST \/ next_cluster(call.cluster) <= 1
        BY <1>1, <1>4 DEF AtEnd
      <4>3. next_cluster(call.cluster) > 1 /\ next_cluster(call.cluster) \in Int
        BY <4>1, Numbers
      <4> QED
        BY <4>1, <4>2, <4>3, Numbers
    <3>3. call.cluster = FREE
      BY <1>1, <1>4, <3>2 DEF AtEnd
    <3> QED
      BY <3>1, <3>3, WriterAt DEF AtCursor
  <2>2. Heads' = Heads /\ Rest' = Rest
    BY <1>1, <2>1, NotMappedSaves
  <2>3. failed' = failed
    BY <1>1, <1>4
  <2> QED
    BY <1>1, <1>2, <2>2, <2>3, QuietKeeps DEF Quiet
<1> QED
  BY <1>3, <1>4

\* shrink_file fails at the cluster where it would cut.
LEMMA CutFailsChains == IInv /\ ChainInv /\ CutFails => ChainInv' /\ (NothingLost => NothingLost')
<1> SUFFICES ASSUME IInv, ChainInv, CutFails PROVE ChainInv' /\ (NothingLost => NothingLost')
  OBVIOUS
<1>1. /\ Drop /\ UNCHANGED <<fat, dir>> /\ call.pc = "cut" /\ call.op = "cut"
      /\ call.cluster # FREE /\ (next_cluster(call.cluster) <= 1 \/ Fault)
  BY OpAtPc DEF CutFails, There
<1>2. ChainInv'
  BY <1>1, ChainDrops DEF ChainInv
<1>3. next_cluster(call.cluster) > 1 /\ next_cluster(call.cluster) \in Int
  <2>1. fat[call.cluster] \in Pointers \cup {LAST}
    BY <1>1, CursorAllocated DEF IInv, FatSide, FatType
  <2>2. fat[call.cluster] \in Int
    BY <2>1, FatConstants DEF Pointers, Clusters, FREE, LAST
  <2> QED
    BY <1>1, <2>2, CursorAllocated
<1>4. Fault
  BY <1>1, <1>3
<1> QED
  BY <1>2, <1>4 DEF Fault, NothingLost

\* What all the chains keep, the invariant keeps.
LEMMA ChainsInKept ==
  ASSUME NEW F, NEW G, ChainsIn(F), \A h : Keeps(F, G, h)
  PROVE  ChainsIn(G)
<1>1. \A r : InChain(F, r) => InChain(G, r)
  BY KeepsAll
<1>2. \A h, n : Covered(F, h, n) => Covered(G, h, n)
  BY KeepsAll
<1>3. SftChain(sft, dir, call, G)
  BY <1>1, <1>2 DEF ChainsIn, SftChain
<1>4. CallChain(call, sft, G)
  BY <1>1, <1>2 DEF ChainsIn, CallChain
<1> QED
  BY <1>3, <1>4 DEF ChainsIn

\* A free cluster is marked.
LEMMA MarkedKeeps ==
  ASSUME NEW F \in FatType, NEW c \in Clusters, F[c] = FREE
  PROVE  \A h : Keeps(F, [F EXCEPT ![c] = LAST], h)
<1>1. \A d \in Clusters : F[d] \in Clusters => [F EXCEPT ![c] = LAST][d] = F[d]
  BY Numbers DEF FatType
<1> QED
  BY <1>1, KeepsEnds

\* extend finds no cluster, or fails at one of its writes to the FAT.
LEMMA ExtendFailsChains ==
  IInv /\ ChainInv /\ ExtendFails => ChainInv' /\ (NothingLost => NothingLost')
<1> SUFFICES ASSUME IInv, ChainInv, ExtendFails PROVE ChainInv' /\ (NothingLost => NothingLost')
  OBVIOUS
<1>1. Mapping /\ ~Reading /\ AtEnd /\ dir' = dir /\ NotMapped
  BY DEF ExtendFails
<1>2. PICK c \in FindFatFree :
        \/ failed' = (failed \/ c # FirstFree) /\ fat' = fat
        \/ Fault /\ fat' = fat
        \/ c # LAST /\ Fault /\ fat' = [fat EXCEPT ![c] = LAST]
  BY DEF ExtendFails
<1>3. ASSUME c # LAST PROVE c \in Clusters /\ fat[c] = FREE
  BY <1>3, FoundIsFree DEF Free
<1>4. ChainInv'
  <2>1. CASE fat' = fat
    BY <1>1, <2>1, ChainNotMapped DEF ChainInv
  <2>2. CASE c # LAST /\ fat' = [fat EXCEPT ![c] = LAST]
    <3>1. \A h : Keeps(fat, fat', h)
      BY <1>3, <2>2, MarkedKeeps DEF IInv, FatSide
    <3>2. ChainsIn(fat')
      BY <3>1, ChainsInKept DEF ChainInv
    <3> QED
      BY <1>1, <3>2, ChainNotMapped
  <2> QED
    BY <1>2, <2>1, <2>2
<1>5. CASE Fault
  BY <1>4, <1>5 DEF Fault, NothingLost
<1>6. CASE ~Fault
  <2>1. fat' = fat /\ failed' = (failed \/ c # FirstFree)
    BY <1>2, <1>6
  <2>2. call.pc # "cut"
    BY <1>1, AtEndIs
  <2>3. Heads' = Heads /\ Rest' = Rest
    BY <1>1, <2>2, NotMappedSaves
  <2>4. failed => failed'
    BY <2>1
  <2> QED
    BY <1>4, <2>1, <2>3, <2>4, QuietKeeps DEF Quiet
<1> QED
  BY <1>5, <1>6

-----------------------------------------------------------------------------
(* What the steps do to the chains: those that change the FAT.             *)

\* extend links a free cluster behind the cursor, or as the start.
LEMMA ExtendChains == IInv /\ ChainInv /\ Extend => ChainInv' /\ (NothingLost => NothingLost')
<1> SUFFICES ASSUME IInv, ChainInv, Extend PROVE ChainInv' /\ (NothingLost => NothingLost')
  OBVIOUS
<1>1. Mapping /\ ~Reading /\ AtEnd /\ dir' = dir
  BY DEF Extend
<1>2. PICK c \in FindFatFree \ {LAST} :
        /\ failed' = (failed \/ c # FirstFree)
        /\ \/ /\ call.cluster = FREE
              /\ fat' = [fat EXCEPT ![c] = LAST]
              /\ Continue([call EXCEPT !.cluster = c, !.start = c])
           \/ /\ call.cluster # FREE
              /\ fat' = [fat EXCEPT ![c] = LAST, ![call.cluster] = c]
              /\ Continue([call EXCEPT !.cluster = c, !.rel = @ + 1])
  BY DEF Extend
<1>3. c \in Clusters /\ fat[c] = FREE /\ c \in Pointers /\ c # FREE
  BY FoundIsFree, Numbers DEF Free, Pointers
<1>4. fat \in FatType /\ Rest = FREE
  BY <1>1, AtEndIs DEF IInv, FatSide
<1>5. /\ call \in CallType /\ call.rel \in Nat /\ call.file \in Files
      /\ call.op \in {"write", "cut"} /\ call.pc \in {"extend", "map", "run"}
  BY <1>1, AtEndIs, WriterAt, OpAtPc DEF CallType
<1>6. CallChain(call, sft, fat)
  BY DEF ChainInv, ChainsIn
<1>7. CASE /\ call.cluster = FREE
           /\ fat' = [fat EXCEPT ![c] = LAST]
           /\ Continue([call EXCEPT !.cluster = c, !.start = c])
  <2> DEFINE d == [call EXCEPT !.cluster = c, !.start = c]
  <2>1. call' = d /\ sft' = sft
    BY <1>7 DEF Continue
  <2>2. /\ d \in CallType /\ d.op = call.op /\ d.pc = call.pc /\ d.s = call.s /\ d.file = call.file
        /\ d.clean = call.clean /\ d.size = call.size /\ d.offset = call.offset
        /\ d.left = call.left /\ d.from = call.from /\ d.cluster = c /\ d.start = c
        /\ d.rel = call.rel
    BY <1>3, <1>5 DEF CallType
  <2> HIDE DEF d
  <2>3. /\ Rest' = FREE
        /\ \A f \in Files : Head(f)' = IF f = call.file THEN c ELSE Head(f)
    BY <1>1, <1>3, <1>7, <2>1, <2>2, ExtendedCall
  <2>4. call.start = FREE
    BY <1>1, <1>7, AtEndIs
  <2>5. ChainsIn(fat')
    <3>1. \A h : Keeps(fat, fat', h)
      BY <1>3, <1>4, <1>7, MarkedKeeps
    <3> QED
      BY <3>1, ChainsInKept DEF ChainInv
  <2>6. d.rel = 0 /\ d.size = 0
    BY <1>5, <1>6, <2>2, <2>4, CoveredNone DEF CallChain, InChain
  <2>7. InChain(fat', d)
    BY <1>3, <2>2, <2>6, ReachHere DEF InChain, Covered
  <2>8. CallChain(d, sft, fat')
    <3>1. d.op = "write" /\ d.pc = "run" => d.offset = 0
      BY <1>6, <2>2, <2>4, CoveredNone DEF CallChain
    <3>2. d.op = "write" /\ d.pc \in {"run", "data"} => Covered(fat', d.start, d.offset)
      BY <1>5, <2>2, <3>1 DEF Covered
    <3> QED
      BY <1>5, <2>2, <2>7, <3>2 DEF CallChain
  <2>9. ChainInv'
    BY <1>1, <1>5, <2>1, <2>2, <2>5, <2>8, SameWriters, ChainMoves DEF SameCall, ChainsIn
  <2>10. Owned(fat, Heads, Rest) => Owned(fat', Heads', Rest')
    <3> SUFFICES ASSUME Owned(fat, Heads, Rest), NEW x \in Clusters, fat'[x] # FREE
                 PROVE  \/ \E e \in Clusters : fat'[e] = x
                        \/ \E f \in Files : Heads'[f] = x
      BY DEF Owned
    <3>1. \A f \in Files : Heads'[f] = IF f = call.file THEN c ELSE Heads[f]
      BY <2>3, HeadsAre
    <3>2. CASE x = c
      BY <1>5, <3>1, <3>2
    <3>3. CASE x # c
      <4>1. fat[x] # FREE
        BY <1>3, <1>4, <1>7, <3>3 DEF FatType
      <4>2. CASE \E e \in Clusters : fat[e] = x
        <5>1. PICK e \in Clusters : fat[e] = x
          BY <4>2
        <5>2. e # c
          BY <1>3, <5>1, Numbers
        <5> QED
          BY <1>4, <1>7, <5>1, <5>2 DEF FatType
      <4>3. CASE \E f \in Files : Heads[f] = x
        <5>1. PICK f \in Files : Heads[f] = x
          BY <4>3
        <5>2. Heads[call.file] = FREE
          BY <1>5, <2>4, WriterHead
        <5>3. f # call.file
          BY <5>1, <5>2, Numbers
        <5> QED
          BY <3>1, <5>1, <5>3
      <4> QED
        BY <1>4, <4>1, <4>2, <4>3, Numbers DEF Owned
    <3> QED
      BY <3>2, <3>3
  <2>11. failed => failed'
    BY <1>2
  <2> QED
    BY <2>9, <2>10, <2>11, LostIs
<1>8. CASE /\ call.cluster # FREE
           /\ fat' = [fat EXCEPT ![c] = LAST, ![call.cluster] = c]
           /\ Continue([call EXCEPT !.cluster = c, !.rel = @ + 1])
  <2> DEFINE rel == call.rel + 1
             d == [call EXCEPT !.cluster = c, !.rel = rel]
  <2>1. call' = d /\ sft' = sft
    BY <1>8 DEF Continue
  <2>2. rel \in Nat /\ rel # 0
    BY <1>5
  <2>3. /\ d \in CallType /\ d.op = call.op /\ d.pc = call.pc /\ d.s = call.s /\ d.file = call.file
        /\ d.clean = call.clean /\ d.size = call.size /\ d.offset = call.offset
        /\ d.left = call.left /\ d.from = call.from /\ d.cluster = c /\ d.start = call.start
        /\ d.rel = rel
    BY <1>3, <1>5, <2>2 DEF CallType
  <2> HIDE DEF d
  <2>4. Heads' = Heads /\ Rest' = Rest
    <3>1. /\ Rest' = FREE
          /\ \A f \in Files : Head(f)' = IF f = call.file THEN d.start ELSE Head(f)
      BY <1>1, <1>3, <1>8, <2>1, <2>2, <2>3, ExtendedCall
    <3>2. Heads[call.file] = call.start
      BY <1>5, WriterHead
    <3>3. \A f \in Files : Head(f)' = Head(f)
      BY <2>3, <3>1, <3>2, HeadsAre
    <3> QED
      BY <1>4, <3>1, <3>3 DEF Heads
  <2>5. call.cluster \in Clusters /\ fat[call.cluster] = LAST /\ call.cluster # c
    BY <1>1, <1>3, <1>8, AtEndIs, Numbers
  <2>6. \A e \in Clusters :
          fat'[e] = IF e = call.cluster THEN c ELSE IF e = c THEN LAST ELSE fat[e]
    BY <1>4, <1>8, <2>5 DEF FatType
  <2>7. \A h : Keeps(fat, fat', h)
    <3>1. \A e \in Clusters : fat[e] \in Clusters => fat'[e] = fat[e]
      BY <1>3, <2>5, <2>6, Numbers
    <3> QED
      BY <3>1, KeepsEnds
  <2>8. ChainsIn(fat')
    BY <2>7, ChainsInKept DEF ChainInv
  <2>9. Reaches(fat', call.start, rel, c)
    <3>1. Reaches(fat', call.start, call.rel, call.cluster)
      BY <1>5, <1>8, <2>7, CursorAllocated DEF Keeps
    <3>2. fat'[call.cluster] = c
      BY <2>5, <2>6
    <3> QED
      BY <1>3, <3>1, <3>2, ReachNext
  <2> HIDE DEF rel
  <2>10. CallChain(d, sft, fat')
    <3>1. d.start # FREE
      BY <1>5, <1>8, <2>3, WriterAt DEF AtCursor
    <3>2. InChain(fat', d)
      BY <1>5, <2>3, <2>8, <2>9, <3>1 DEF ChainsIn, CallChain, InChain
    <3> QED
      BY <1>5, <2>3, <2>8, <3>2 DEF ChainsIn, CallChain
  <2>11. ChainInv'
    BY <1>1, <1>5, <2>1, <2>3, <2>8, <2>10, SameWriters, ChainMoves DEF SameCall, ChainsIn
  <2>12. Owned(fat, Heads, Rest) => Owned(fat', Heads', Rest')
    <3> SUFFICES ASSUME Owned(fat, Heads, Rest), NEW x \in Clusters, fat'[x] # FREE
                 PROVE  \/ \E e \in Clusters : fat'[e] = x
                        \/ \E f \in Files : Heads[f] = x
      BY <2>4 DEF Owned
    <3>2. CASE x = c
      BY <2>5, <2>6, <3>2
    <3>3. CASE x # c
      <4>1. fat[x] # FREE
        BY <2>5, <2>6, <3>3, Numbers
      <4>2. \A e \in Clusters : fat[e] = x => e # c /\ e # call.cluster
        BY <1>3, <2>5, Numbers
      <4>3. \A e \in Clusters : fat[e] = x => fat'[e] = x
        BY <2>6, <4>2
      <4> QED
        BY <1>4, <4>1, <4>3, Numbers DEF Owned
    <3> QED
      BY <3>2, <3>3
  <2>13. failed => failed'
    BY <1>2
  <2> QED
    BY <2>11, <2>12, <2>13, LostIs
<1> QED
  BY <1>2, <1>7, <1>8

\* What a call does to the chain that it wipes out does not matter to the
\* other files.
LEMMA OthersKeep ==
  ASSUME IInv, SftChain(sft, dir, call, fat), NEW c, SameCall(c), c.pc = "wipe",
         call.op \in {"create", "delete", "cut"},
         NEW G, \A f \in Files : f # call.file => Keeps(fat, G, Heads[f])
  PROVE  SftChain(sft, dir, c, G)
<1>1. \A f \in Files : HeadIs(sft, dir, call, f, Heads[f])
  BY HeadOfFile, HeadsAre DEF IInv, CallSide, SftInv
<1>2. CASE call.op = "cut"
  <2>1. Writer(sft, call.s, call.file) /\ OneWriter(sft) /\ call.file \in Files
    BY <1>2, WriterAt DEF WriteInv, IInv, CallSide, SftInv
  <2>2. ASSUME NEW s \in Sfts, sft[s].writes, s # call.s PROVE InChain(G, sft[s])
    <3>1. sft[s].file # call.file /\ sft[s].file \in Files
      <4>1. sft[s].file # NoFile /\ sft[s] \in SftType
        BY <2>2, ClosedIs DEF IInv, CallSide, SftInv, SftsType
      <4> QED
        BY <2>1, <2>2, <4>1 DEF OneWriter, Writer, SftType
    <3>2. Heads[sft[s].file] = sft[s].start
      BY <1>1, <2>2, <3>1 DEF HeadIs, Writer
    <3>3. Keeps(fat, G, sft[s].start)
      BY <3>1, <3>2
    <3>4. InChain(fat, sft[s])
      BY <2>2 DEF SftChain
    <3> QED
      BY <3>3, <3>4, KeepsAll
  <2>3. ASSUME NEW f \in Files, \A s \in Sfts : ~Writer(sft, s, f)
        PROVE  Covered(G, dir[f].start, dir[f].size)
    <3>1. f # call.file
      BY <2>1, <2>3 DEF Writer
    <3>2. Heads[f] = dir[f].start
      BY <1>1, <2>3, <3>1 DEF HeadIs
    <3>3. Covered(fat, dir[f].start, dir[f].size)
      BY <2>3, <3>1 DEF SftChain
    <3>4. Keeps(fat, G, dir[f].start)
      BY <3>1, <3>2
    <3> QED
      BY <3>3, <3>4, KeepsAll
  <2> QED
    BY <1>2, <2>2, <2>3 DEF SftChain, SameCall
<1>3. CASE call.op \in {"create", "delete"}
  <2>1. \A s \in Sfts : ~Writer(sft, s, call.file)
    BY <1>3, ClosedIs DEF IInv, CallSide, CallInv, CreateInv, DeleteInv, Writer
  <2>2. ASSUME NEW s \in Sfts, sft[s].writes PROVE InChain(G, sft[s])
    <3>1. sft[s].file # call.file /\ sft[s].file \in Files
      <4>1. sft[s].file # NoFile /\ sft[s] \in SftType
        BY <2>2, ClosedIs DEF IInv, CallSide, SftInv, SftsType
      <4> QED
        BY <2>1, <2>2, <4>1 DEF Writer, SftType
    <3>2. Heads[sft[s].file] = sft[s].start
      BY <1>1, <2>2, <3>1 DEF HeadIs, Writer
    <3>3. Keeps(fat, G, sft[s].start)
      BY <3>1, <3>2
    <3>4. InChain(fat, sft[s])
      BY <1>3, <2>2 DEF SftChain
    <3> QED
      BY <3>3, <3>4, KeepsAll
  <2>3. ASSUME NEW f \in Files, \A s \in Sfts : ~Writer(sft, s, f), f # call.file
        PROVE  Covered(G, dir[f].start, dir[f].size)
    <3>1. Heads[f] = dir[f].start
      BY <1>1, <2>3 DEF HeadIs
    <3>2. Covered(fat, dir[f].start, dir[f].size)
      BY <2>3 DEF SftChain
    <3>3. Keeps(fat, G, dir[f].start)
      BY <2>3, <3>1
    <3> QED
      BY <3>2, <3>3, KeepsAll
  <2> QED
    BY <1>3, <2>2, <2>3 DEF SftChain, SameCall
<1> QED
  BY <1>2, <1>3

\* wipe_out frees a cluster of the rest that no file reaches.
LEMMA WipeClusterChains ==
  IInv /\ ChainInv /\ WipeCluster => ChainInv' /\ (NothingLost => NothingLost')
<1> SUFFICES ASSUME IInv, ChainInv, WipeCluster PROVE ChainInv' /\ (NothingLost => NothingLost')
  OBVIOUS
<1> DEFINE st == call.st
           next == next_cluster(st)
           c == [call EXCEPT !.st = next]
<1>1. /\ call.pc = "wipe" /\ next > 1 /\ fat' = [fat EXCEPT ![st] = FREE]
      /\ call' = c /\ UNCHANGED <<dir, sft, failed>>
  BY DEF WipeCluster, Continue
<1>2. /\ st \in Clusters /\ fat[st] # FREE /\ next = fat[st] /\ next \in Clusters \cup {LAST}
  BY <1>1, NextCluster
<1>3. call \in CallType /\ call.op \in {"create", "delete", "cut"}
  BY <1>1, OpAtPc
<1> HIDE DEF next
<1>4. /\ c.pc = "wipe" /\ SameFile(c) /\ c.st = next /\ c.cluster = call.cluster
      /\ c.rel = call.rel /\ c.size = call.size
  BY <1>1, <1>3 DEF CallType, SameFile
<1> HIDE DEF c
<1>5. /\ fat \in FatType /\ Sound(fat, Heads, st) /\ Rest = st /\ Rest' = fat[st]
  BY <1>1, <1>2, <1>4 DEF IInv, FatSide, Rest
<1>6. \A d \in Clusters : fat'[d] = IF d = st THEN FREE ELSE fat[d]
  BY <1>1, <1>5 DEF FatType
<1>7. \A f \in Files : Keeps(fat, fat', Heads[f])
  <2> SUFFICES ASSUME NEW f \in Files PROVE Keeps(fat, fat', Heads[f])
    OBVIOUS
  <2>1. \A n : ~Reaches(fat, Heads[f], n, st)
    BY <1>5, ReachAllocated
  <2> QED
    BY <1>6, <2>1, KeepsOther
<1>8. SftChain(sft', dir', call', fat')
  <2>1. SftChain(sft, dir, call, fat) /\ SameCall(c)
    BY <1>4 DEF ChainInv, ChainsIn, SameCall, SameFile
  <2>2. SftChain(sft, dir, c, fat')
    BY <1>3, <1>4, <1>7, <2>1, OthersKeep
  <2> QED
    BY <1>1, <2>2
<1>9. CallChain(call', sft', fat')
  <2>1. ASSUME call.op = "cut" PROVE InChain(fat', c)
    <3>1. InChain(fat, call)
      BY <2>1 DEF ChainInv, ChainsIn, CallChain
    <3>2. Keeps(fat, fat', call.start)
      BY <1>7, <2>1, WriterHead
    <3>3. InChain(fat', call)
      BY <3>1, <3>2, KeepsAll
    <3> QED
      BY <1>4, <3>3, InChainSame DEF SameFile
  <2> QED
    BY <1>1, <1>3, <1>4, <2>1 DEF CallChain, SameFile
<1>10. Heads' = Heads
  BY <1>1, <1>4, SameWriters, HeadsStay
<1>11. Owned(fat, Heads, Rest) => Owned(fat', Heads', Rest')
  <2> SUFFICES ASSUME Owned(fat, Heads, st), NEW x \in Clusters, fat'[x] # FREE
               PROVE  \/ \E d \in Clusters : fat'[d] = x
                      \/ \E f \in Files : Heads[f] = x
                      \/ fat[st] = x
    BY <1>5, <1>10 DEF Owned
  <2>1. x # st /\ fat[x] # FREE
    BY <1>6
  <2>2. ASSUME NEW d \in Clusters, fat[d] = x PROVE fat'[d] = x \/ fat[st] = x
    BY <1>6, <2>2
  <2> QED
    BY <2>1, <2>2 DEF Owned
<1> QED
  BY <1>1, <1>8, <1>9, <1>11, LostIs DEF ChainInv, ChainsIn

\* A part of a chain that is cut behind the cluster d stays.
LEMMA CutKeepsFront ==
  ASSUME NEW F \in FatType, NEW H, NEW r, Sound(F, H, r), NEW f \in Files,
         NEW n, NEW d, Reaches(F, H[f], n, d), NEW G, \A e \in Clusters : e # d => G[e] = F[e]
  PROVE  Reaches(G, H[f], n, d) /\ \A g \in Files : g # f => Keeps(F, G, H[g])
<1>1. n \in Nat /\ d \in Clusters
  BY ReachTypes
<1>2. ASSUME NEW m \in Nat, NEW e \in Clusters, m < n, Reaches(F, H[f], m, e) PROVE G[e] = F[e]
  <2>1. CASE e = d
    <3>1. m = n
      BY <1>2, <2>1, ReachDisjoint
    <3> QED
      BY <1>1, <1>2, <3>1
  <2>2. CASE e # d
    BY <2>2
  <2> QED
    BY <2>1, <2>2
<1>3. Reaches(G, H[f], n, d)
  BY <1>2, ReachStays
<1>4. ASSUME NEW g \in Files, g # f PROVE Keeps(F, G, H[g])
  <2>1. \A m : ~Reaches(F, H[g], m, d)
    BY <1>4, ReachDisjoint
  <2> QED
    BY <2>1, KeepsOther
<1> QED
  BY <1>3, <1>4

\* shrink_file cuts the chain: what the new size needs is in front of the cut.
LEMMA CutChains == IInv /\ ChainInv /\ Cut => ChainInv' /\ (NothingLost => NothingLost')
<1> SUFFICES ASSUME IInv, ChainInv, Cut PROVE ChainInv' /\ (NothingLost => NothingLost')
  OBVIOUS
<1> DEFINE st == call.cluster
           next == next_cluster(st)
           back == [call EXCEPT !.offset = call.from, !.from = 0]
           all == [back EXCEPT !.pc = "wipe", !.st = next, !.cluster = FREE, !.start = FREE]
           rest == [back EXCEPT !.pc = "wipe", !.st = next]
<1>1. /\ call.pc = "cut" /\ call.cluster # FREE /\ call.rel = Cl(call.offset) /\ next > 1
      /\ UNCHANGED <<dir, failed>>
      /\ \/ /\ call.size = 0 /\ fat' = [fat EXCEPT ![st] = FREE]
            /\ call' = all /\ sft' = sft
         \/ /\ call.size # 0 /\ fat' = [fat EXCEPT ![st] = LAST]
            /\ call' = rest /\ sft' = sft
         \/ Return(back) /\ fat' = fat
  BY DEF Cut, There, Continue
<1>2. call.op = "cut" /\ call \in CallType /\ BoundsInv(call)
  BY <1>1, OpAtPc
<1>3. /\ st \in Clusters /\ fat[st] # FREE /\ next = fat[st]
      /\ Reaches(fat, call.start, call.rel, st)
  BY <1>1, <1>2, CursorAllocated
<1>4. WriteInv(call, sft) /\ AtCursor(call) /\ call.file \in Files
      /\ Heads[call.file] = call.start
  BY <1>2, WriterAt, WriterHead
<1>5. /\ fat \in FatType /\ Sound(fat, Heads, FREE) /\ Rest = FREE
  BY <1>1 DEF IInv, FatSide, Rest
<1>6. next \in Pointers \cup {LAST}
  BY <1>3, <1>5 DEF FatType
<1>7. 0 \in Offsets /\ FREE \in Pointers
  BY FatConstants DEF Offsets, Pointers
<1> HIDE DEF next
<1>8. /\ back \in CallType /\ back.op = "cut" /\ back.pc = "cut" /\ back.s = call.s
      /\ back.file = call.file /\ back.clean = call.clean /\ back.start = call.start
      /\ back.cluster = st /\ back.rel = call.rel /\ back.size = call.size
  BY <1>1, <1>2, <1>7 DEF CallType
<1> HIDE DEF back
<1>9. CallChain(call, sft, fat) /\ SftChain(sft, dir, call, fat) /\ InChain(fat, call)
  BY <1>2 DEF ChainInv, ChainsIn, CallChain
<1>10. /\ call.size = call.from /\ call.offset = IF call.from = 0 THEN 0 ELSE call.from - 1
       /\ Cl(0) = 0 /\ call.from \in Nat
  BY <1>1, <1>2, FatConstants DEF BoundsInv, CallType, Offsets, Cl
<1>11. \A f \in Files : HeadIs(sft, dir, call, f, Head(f)) /\ OneWriter(sft)
  BY HeadOfFile DEF IInv, CallSide, SftInv
<1>12. CASE /\ call.size = 0 /\ fat' = [fat EXCEPT ![st] = FREE]
            /\ call' = all /\ sft' = sft
  <2>1. /\ all.op = "cut" /\ all.pc = "wipe" /\ all.s = call.s
        /\ all.file = call.file /\ all.start = FREE
        /\ all.cluster = FREE /\ all.st = next /\ all.rel = call.rel /\ all.size = call.size
    BY <1>8 DEF CallType
  <2> HIDE DEF all
  <2>2. call.rel = 0 /\ st = call.start
    BY <1>1, <1>4, <1>10, <1>12 DEF AtCursor
  <2>3. \A e \in Clusters : fat'[e] = IF e = st THEN FREE ELSE fat[e]
    BY <1>5, <1>12 DEF FatType
  <2>4. \A f \in Files : f # call.file => Keeps(fat, fat', Heads[f])
    <3>1. Reaches(fat, Heads[call.file], call.rel, st)
      BY <1>3, <1>4
    <3>2. \A e \in Clusters : e # st => fat'[e] = fat[e]
      BY <2>3
    <3>3. /\ Reaches(fat', Heads[call.file], call.rel, st)
          /\ \A f \in Files : f # call.file => Keeps(fat, fat', Heads[f])
      BY <1>4, <1>5, <3>1, <3>2, CutKeepsFront
    <3> QED
      BY <1>4, <3>3
  <2>5. SftChain(sft', dir', call', fat')
    <3>1. SftChain(sft, dir, all, fat')
      BY <1>2, <1>9, <2>1, <2>4, OthersKeep DEF SameCall
    <3> QED
      BY <1>1, <1>12, <3>1
  <2>6. CallChain(call', sft', fat')
    <3>1. InChain(fat', all)
      BY <1>12, <2>1, <2>2 DEF InChain, Covered
    <3> QED
      BY <1>12, <2>1, <3>1 DEF CallChain
  <2>7. Rest' = fat[st]
    BY <1>3, <1>12, <2>1 DEF Rest
  <2>8. ASSUME NEW f \in Files PROVE Head(f)' = IF f = call.file THEN FREE ELSE Head(f)
    <3> DEFINE h == IF f = call.file THEN FREE ELSE Head(f)
    <3>1. HeadIs(sft', dir', call', f, h)
      BY <1>1, <1>2, <1>11, <1>12, <2>1 DEF HeadIs
    <3> HIDE DEF h
    <3>2. Head(f)' = h
      BY <1>11, <1>12, <3>1, HeadAfter
    <3> QED
      BY <3>2 DEF h
  <2>9. Owned(fat, Heads, Rest) => Owned(fat', Heads', Rest')
    <3> SUFFICES ASSUME Owned(fat, Heads, FREE), NEW x \in Clusters, fat'[x] # FREE
                 PROVE  \/ \E d \in Clusters : fat'[d] = x
                        \/ \E f \in Files : Heads'[f] = x
                        \/ fat[st] = x
      BY <1>5, <2>7 DEF Owned
    <3>1. x # st /\ fat[x] # FREE
      BY <2>3
    <3>2. ASSUME NEW d \in Clusters, fat[d] = x PROVE fat'[d] = x \/ fat[st] = x
      BY <2>3, <3>2
    <3>3. ASSUME NEW f \in Files, Heads[f] = x PROVE Heads'[f] = x
      <4>1. f # call.file
        BY <1>4, <2>2, <3>1, <3>3
      <4> QED
        BY <2>8, <3>3, <4>1, HeadsAre
    <3> QED
      BY <3>1, <3>2, <3>3, Numbers DEF Owned
  <2> QED
    BY <1>1, <2>5, <2>6, <2>9, LostIs DEF ChainInv, ChainsIn
<1>13. CASE /\ call.size # 0 /\ fat' = [fat EXCEPT ![st] = LAST]
            /\ call' = rest /\ sft' = sft
  <2>1. /\ rest.op = "cut" /\ rest.pc = "wipe" /\ rest.s = call.s /\ SameFile(rest)
        /\ rest.file = call.file /\ rest.start = call.start /\ rest.cluster = st
        /\ rest.st = next /\ rest.rel = call.rel /\ rest.size = call.size
    BY <1>2, <1>8 DEF CallType, SameFile
  <2> HIDE DEF rest
  <2>3. \A e \in Clusters : fat'[e] = IF e = st THEN LAST ELSE fat[e]
    BY <1>5, <1>13 DEF FatType
  <2>4. /\ Reaches(fat', call.start, call.rel, st)
        /\ \A f \in Files : f # call.file => Keeps(fat, fat', Heads[f])
    <3>1. Reaches(fat, Heads[call.file], call.rel, st)
      BY <1>3, <1>4
    <3>2. \A e \in Clusters : e # st => fat'[e] = fat[e]
      BY <2>3
    <3>3. /\ Reaches(fat', Heads[call.file], call.rel, st)
          /\ \A f \in Files : f # call.file => Keeps(fat, fat', Heads[f])
      BY <1>4, <1>5, <3>1, <3>2, CutKeepsFront
    <3> QED
      BY <1>4, <3>3
  <2>5. SftChain(sft', dir', call', fat')
    <3>1. SftChain(sft, dir, rest, fat')
      BY <1>2, <1>9, <2>1, <2>4, OthersKeep DEF SameCall
    <3> QED
      BY <1>1, <1>13, <3>1
  <2>6. CallChain(call', sft', fat')
    <3>1. call.rel = Cl(call.size - 1)
      BY <1>1, <1>10, <1>13
    <3>2. Covered(fat', call.start, call.size)
      BY <2>4, <3>1 DEF Covered
    <3>3. call.start # FREE
      BY <1>1, <1>4 DEF AtCursor
    <3>4. InChain(fat', rest)
      BY <2>1, <2>4, <3>2, <3>3 DEF InChain
    <3> QED
      BY <1>13, <2>1, <3>4 DEF CallChain
  <2>7. Rest' = fat[st]
    BY <1>3, <1>13, <2>1 DEF Rest
  <2>8. Heads' = Heads
    BY <1>1, <1>13, <2>1, SameWriters, HeadsStay
  <2>9. Owned(fat, Heads, Rest) => Owned(fat', Heads', Rest')
    <3> SUFFICES ASSUME Owned(fat, Heads, FREE), NEW x \in Clusters, fat'[x] # FREE
                 PROVE  \/ \E d \in Clusters : fat'[d] = x
                        \/ \E f \in Files : Heads[f] = x
                        \/ fat[st] = x
      BY <1>5, <2>7, <2>8 DEF Owned
    <3>1. fat[x] # FREE
      BY <1>3, <2>3
    <3>2. ASSUME NEW d \in Clusters, fat[d] = x PROVE fat'[d] = x \/ fat[st] = x
      BY <2>3, <3>2
    <3> QED
      BY <3>1, <3>2, Numbers DEF Owned
  <2> QED
    BY <1>1, <2>5, <2>6, <2>9, LostIs DEF ChainInv, ChainsIn
<1>14. CASE Return(back) /\ fat' = fat
  <2>1. SameFile(back) /\ (AtCursor(call) => AtCursor(back)) /\ InChain(fat, back)
    BY <1>2, <1>8, <1>9 DEF SameFile, AtCursor, InChain
  <2> QED
    BY <1>1, <1>2, <1>8, <1>14, <2>1, QuietReturn, QuietKeeps
<1> QED
  BY <1>1, <1>12, <1>13, <1>14

-----------------------------------------------------------------------------
(* The ends of dos_open and dos_delete.                                    *)

\* The cursor of an opened file is at its start.
LEMMA OpenedCursor ==
  ASSUME NEW f \in Files, NEW w \in BOOLEAN, NEW e, e.start \in Pointers, e.size \in Offsets
  PROVE  /\ Opened(f, w, e).cluster = e.start /\ Opened(f, w, e).rel = 0
         /\ Opened(f, w, e).size = e.size
<1>1. Closed \in SftType /\ Closed.rel = 0
  BY FatConstants DEF Closed, SftType, Offsets, Pointers
<1> QED
  BY <1>1 DEF Opened, SftType

\* A file that is created is empty.
LEMMA CreatedChains ==
  ASSUME IInv, ChainInv, NEW s \in Sfts, NEW f \in Files, Created(s, f), sft[s] = Closed,
         \A t \in Sfts : ~Writer(sft, t, f), fat' = fat,
         call = Idle \/ (call.op = "create" /\ call.file = f)
  PROVE  ChainInv'
<1> DEFINE new == [NoEntry EXCEPT !.used = TRUE]
           r == Opened(f, TRUE, new)
           S == [sft EXCEPT ![s] = r]
           c == [Idle EXCEPT !.s = s, !.file = f]
           M == Merged(S, c)
<1>1. dir' = [dir EXCEPT ![f] = new] /\ sft' = M /\ call' = Idle
  BY DEF Created
<1>2. /\ new \in DirType /\ new.used /\ new.start = FREE /\ new.size = 0
      /\ new.start \in Pointers /\ new.size \in Offsets
  <2>1. 0 \in Offsets /\ FREE \in Pointers
    BY FatConstants DEF Offsets, Pointers
  <2>2. NoEntry \in DirType /\ NoEntry.start = FREE /\ NoEntry.size = 0
    BY <2>1 DEF NoEntry, DirType
  <2> QED
    BY <2>1, <2>2 DEF DirType
<1> HIDE DEF new
<1>3. /\ r \in SftType /\ r.file = f /\ r.writes /\ r.start = FREE /\ r.size = 0 /\ r.rel = 0
  <2>1. IsOpened(r, f, TRUE, new)
    BY <1>2, OpenedIs, Zenon
  <2>2. r.rel = 0 /\ r.size = new.size
    BY <1>2, OpenedCursor, Zenon
  <2> QED
    BY <1>2, <2>1, <2>2 DEF IsOpened
<1> HIDE DEF r
<1>4. /\ sft \in SftsType /\ dir \in [Files -> DirType] /\ SftChain(sft, dir, call, fat)
      /\ \A t \in Sfts : sft[t] \in SftType
  BY DEF IInv, CallSide, ChainInv, ChainsIn, SftsType
<1>5. S \in SftsType /\ \A t \in Sfts : S[t] = IF t = s THEN r ELSE sft[t]
  BY <1>3, <1>4 DEF SftsType
<1> HIDE DEF S
<1>6. c.file = f /\ c.s = s
  BY IdleSound DEF CallType, Idle
<1> HIDE DEF c
<1>7. WritersStay(S, M)
  <2>1. \A t \in Sfts : t # c.s /\ S[t].file = c.file => ~S[t].writes
    BY <1>5, <1>6 DEF Writer
  <2> QED
    BY <1>5, <2>1, MergedSame
<1> HIDE DEF M
<1>8. \A t \in Sfts : (sft'[t].writes <=> S[t].writes) /\ (S[t].writes => sft'[t] = S[t])
  BY <1>1, <1>7 DEF WritersStay
<1>9. /\ dir' \in [Files -> DirType]
      /\ \A g \in Files : dir'[g] = IF g = f THEN new ELSE dir[g]
  BY <1>1, <1>2, <1>4
<1>10. Idle.op = "none" /\ Idle.pc = "idle"
  BY DEF Idle
<1>11. ASSUME NEW t \in Sfts, sft'[t].writes PROVE InChain(fat', sft'[t])
  <2>1. sft'[t] = S[t] /\ S[t].writes
    BY <1>8, <1>11
  <2>2. CASE t = s
    BY <1>3, <1>5, <2>1, <2>2 DEF InChain, Covered
  <2>3. CASE t # s
    <3>1. sft'[t] = sft[t] /\ sft[t].writes
      BY <1>5, <2>1, <2>3
    <3>2. call.op # "cut"
      BY <1>10
    <3> QED
      BY <1>4, <3>1, <3>2 DEF SftChain
  <2> QED
    BY <2>2, <2>3
<1>12. ASSUME NEW t \in Sfts, sft'[t].writes, sft'[t].clean
       PROVE  dir'[sft'[t].file].size = sft'[t].size
  <2>1. sft'[t] = S[t] /\ S[t].writes
    BY <1>8, <1>12
  <2>2. CASE t = s
    BY <1>2, <1>3, <1>5, <1>9, <2>1, <2>2
  <2>3. CASE t # s
    <3>1. sft'[t] = sft[t] /\ sft[t].writes /\ sft[t].clean
      BY <1>5, <1>12, <2>1, <2>3
    <3>2. sft[t].file # f /\ sft[t].file \in Files
      BY <1>4, <3>1, ClosedIs DEF Writer, IInv, CallSide, SftInv, SftType
    <3> QED
      BY <1>4, <1>9, <3>1, <3>2 DEF SftChain
  <2> QED
    BY <2>2, <2>3
<1>13. ASSUME NEW g \in Files, \A t \in Sfts : ~Writer(sft', t, g)
       PROVE  Covered(fat', dir'[g].start, dir'[g].size)
  <2>1. CASE g = f
    BY <1>2, <1>9, <2>1 DEF Covered
  <2>2. CASE g # f
    <3>1. dir'[g] = dir[g]
      BY <1>9, <2>2
    <3>2. ASSUME NEW t \in Sfts, Writer(sft, t, g) PROVE FALSE
      <4>1. t # s
        BY <3>2, ClosedIs DEF Writer
      <4>2. sft'[t] = sft[t] /\ sft[t].writes
        BY <1>5, <1>8, <3>2, <4>1 DEF Writer
      <4> QED
        BY <1>13, <3>2, <4>2 DEF Writer
    <3>3. ~(call.file = g /\ call.op \in {"create", "delete"})
      BY <1>10, <2>2
    <3> QED
      BY <1>4, <3>1, <3>2, <3>3 DEF SftChain
  <2> QED
    BY <2>1, <2>2
<1>14. \A g \in Files : ~dir'[g].used => dir'[g] = NoEntry
  BY <1>2, <1>4, <1>9 DEF SftChain
<1>15. SftChain(sft', dir', call', fat')
  BY <1>11, <1>12, <1>13, <1>14 DEF SftChain
<1>16. CallChain(call', sft', fat')
  BY <1>1, <1>10 DEF CallChain
<1> QED
  BY <1>15, <1>16 DEF ChainInv, ChainsIn

\* wipe_out is at its end: there is no rest, unless an access failed.
LEMMA WipeEndsChains == IInv /\ ChainInv /\ WipeEnds => ChainInv' /\ (NothingLost => NothingLost')
<1> SUFFICES ASSUME IInv, ChainInv, WipeEnds PROVE ChainInv' /\ (NothingLost => NothingLost')
  OBVIOUS
<1>1. /\ call.pc = "wipe" /\ Wiped /\ fat' = fat
      /\ \/ next_cluster(call.st) <= 1 /\ failed' = failed
         \/ Fault
  BY DEF WipeEnds
<1>2. call \in CallType /\ CallInv(call, sft, dir)
  BY OpAtPc DEF IInv, CallSide
<1>3. ChainInv'
  <2>1. CASE call.op = "create" /\ Created(call.s, call.file)
    <3>1. CreateInv(call, sft, dir)
      BY <1>2, <2>1 DEF CallInv
    <3> QED
      BY <1>1, <2>1, <3>1, CreatedChains DEF CreateInv
  <2>2. CASE call.op = "delete" /\ dir' = [dir EXCEPT ![call.file] = NoEntry] /\ Drop
    <3>1. DeleteInv(call, sft, dir)
      BY <1>2, <2>2 DEF CallInv
    <3> DEFINE f == call.file
    <3>2. f \in Files /\ \A s \in Sfts : sft[s].file # f
      BY <3>1 DEF DeleteInv
    <3>3. dir \in [Files -> DirType] /\ SftInv(sft, dir) /\ sft \in SftsType
      BY DEF IInv, CallSide
    <3>4. \A g \in Files : dir'[g] = IF g = f THEN NoEntry ELSE dir[g]
      BY <2>2, <3>2, <3>3
    <3>5. sft' = sft /\ call' = Idle /\ Idle.op = "none" /\ Idle.pc = "idle"
      BY <2>2 DEF Drop, Idle
    <3>6. SftChain(sft, dir, call, fat)
      BY DEF ChainInv, ChainsIn
    <3>7. \A s \in Sfts : sft'[s].writes => InChain(fat', sft'[s])
      BY <1>1, <2>2, <3>5, <3>6 DEF SftChain
    <3>8. ASSUME NEW s \in Sfts, sft[s].writes, sft[s].clean
          PROVE  dir'[sft[s].file].size = sft[s].size
      <4>1. sft[s].file \in Files /\ sft[s].file # f
        BY <3>2, <3>3, <3>8, ClosedIs DEF SftInv, SftsType, SftType
      <4> QED
        BY <3>4, <3>6, <3>8, <4>1 DEF SftChain
    <3>9. NoEntry.size = 0
      BY DEF NoEntry
    <3>10. ASSUME NEW g \in Files, \A s \in Sfts : ~Writer(sft, s, g)
           PROVE  Covered(fat, dir'[g].start, dir'[g].size)
      <4>1. CASE g = f
        BY <3>4, <3>9, <4>1 DEF Covered
      <4>2. CASE g # f
        BY <3>4, <3>6, <3>10, <4>2 DEF SftChain
      <4> QED
        BY <4>1, <4>2
    <3>11. \A g \in Files : ~dir'[g].used => dir'[g] = NoEntry
      BY <3>4, <3>6 DEF SftChain
    <3>12. SftChain(sft', dir', call', fat')
      BY <1>1, <3>5, <3>7, <3>8, <3>10, <3>11 DEF SftChain
    <3>13. CallChain(call', sft', fat')
      BY <3>5 DEF CallChain
    <3> QED
      BY <3>12, <3>13 DEF ChainInv, ChainsIn
  <2>3. CASE call.op = "cut" /\ Return(call) /\ UNCHANGED dir
    BY <1>1, <1>2, <2>3, ChainReturns DEF ChainInv, ChainsIn, CallChain, SameFile
  <2> QED
    BY <1>1, <2>1, <2>2, <2>3 DEF Wiped
<1>4. Heads' = Heads /\ Rest' = FREE
  BY WipeEndsKeeps
<1>5. CASE Fault
  BY <1>3, <1>5 DEF Fault, NothingLost
<1>6. CASE ~Fault
  <2>1. Rest \notin Clusters
    <3> SUFFICES ASSUME call.st \in Clusters PROVE FALSE
      BY <1>1 DEF Rest
    <3>1. fat[call.st] # FREE
      BY <1>1 DEF IInv, FatSide, Sound, Rest
    <3>2. next_cluster(call.st) = fat[call.st] /\ next_cluster(call.st) > 1
      BY <3>1, NextAllocated
    <3>3. fat[call.st] \in Pointers \cup {LAST}
      BY DEF IInv, FatSide, FatType
    <3>4. fat[call.st] \in Int
      BY <3>3, FatConstants DEF Pointers, Clusters, FREE, LAST
    <3> QED
      BY <1>1, <1>6, <3>2, <3>4
  <2>2. Owned(fat, Heads, Rest) => Owned(fat', Heads', Rest')
    BY <1>1, <1>4, <2>1 DEF Owned
  <2> QED
    BY <1>1, <1>3, <1>6, <2>2, LostIs
<1> QED
  BY <1>5, <1>6

-----------------------------------------------------------------------------
(* What programs do to the chains.                                         *)

\* A call begins: it knows of its chain what its SFT knows.
LEMMA ChainStarts ==
  ASSUME ChainInv, Ready, UNCHANGED <<fat, dir, sft>>, CallChain(call', sft, fat)
  PROVE  ChainInv'
<1>1. call = Idle /\ Idle.op = "none" /\ Idle.pc = "idle"
  BY DEF Ready, Idle
<1>2. SftChain(sft', dir', call', fat')
  BY <1>1 DEF ChainInv, ChainsIn, SftChain
<1> QED
  BY <1>2 DEF ChainInv, ChainsIn

\* A read begins,
LEMMA ReadChains ==
  ASSUME IInv, ChainInv, NEW s \in Sfts, NEW n \in ReadCounts, Read(s, n)
  PROVE  ChainInv' /\ Quiet
<1>1. Ready /\ UNCHANGED <<fat, dir, sft, failed>>
  BY DEF Read, Continue
<1>2. /\ Heads' = Heads /\ Rest' = Rest
      /\ BegunIs(call', s, "head", "read", n, sft[s].clean)
  BY ReadStarts
<1>3. sft[s].writes => InChain(fat, sft[s])
  BY <1>1 DEF ChainInv, ChainsIn, SftChain, Ready, Idle
<1>4. CallChain(call', sft, fat)
  BY <1>2, <1>3 DEF BegunIs, CallChain, InChain
<1>5. ChainInv'
  BY <1>1, <1>4, ChainStarts
<1> QED
  BY <1>1, <1>2, <1>5 DEF Quiet

\* or a write.
LEMMA WriteChains ==
  ASSUME IInv, ChainInv, NEW s \in Sfts, NEW n \in WriteCounts, Write(s, n)
  PROVE  ChainInv' /\ Quiet
<1>1. Ready /\ UNCHANGED <<fat, dir, sft, failed>> /\ sft[s].writes
  BY DEF Write, Continue
<1>2. Heads' = Heads /\ Rest' = Rest
  BY WriteStarts
<1>3. PICK o \in {"cut", "write"}, p \in {"extend", "head"} :
        /\ BegunIs(call', s, p, o, n, FALSE)
        /\ p = "head" => ~(sft[s].offset > sft[s].size)
  BY WriteStarts
<1>4. InChain(fat, sft[s])
  BY <1>1 DEF ChainInv, ChainsIn, SftChain, Ready, Idle
<1>5. sft[s].offset \in Int /\ sft[s].size \in Int
  BY <1>1, ReadyIdle DEF SftType, Offsets
<1>6. p = "head" => sft[s].offset <= sft[s].size
  BY <1>3, <1>5
<1>7. CallChain(call', sft, fat)
  BY <1>3, <1>4, <1>6 DEF BegunIs, CallChain, InChain
<1>8. ChainInv'
  BY <1>1, <1>7, ChainStarts
<1> QED
  BY <1>1, <1>2, <1>8 DEF Quiet

\* What belongs to the file belongs to the call that has taken it over.
LEMMA TakenOverKeeps ==
  ASSUME IInv, Ready, NEW f \in Files, TakenOver(f), UNCHANGED <<fat, failed>>, NothingLost
  PROVE  NothingLost'
<1>1. Rest = FREE
  BY ReadyIdle
<1>2. Owned(fat, Heads, Rest) => Owned(fat', Heads', Rest')
  BY <1>1, Numbers DEF Owned, TakenOver
<1> QED
  BY <1>2, LostIs

\* O_TRUNC begins to wipe out a file,
LEMMA TruncateChains ==
  ASSUME IInv, ChainInv, NEW s \in Sfts, NEW f \in Files, Truncate(s, f)
  PROVE  ChainInv' /\ (NothingLost => NothingLost')
<1>1. Ready /\ UNCHANGED <<fat, dir, sft, failed>>
  BY DEF Truncate, Continue
<1>2. TakenOver(f) /\ call'.op = "create"
  BY TruncateKeeps
<1>3. CallChain(call', sft, fat)
  BY <1>2 DEF CallChain
<1> QED
  BY <1>1, <1>2, <1>3, ChainStarts, TakenOverKeeps

\* and so does dos_delete.
LEMMA DeleteChains ==
  ASSUME IInv, ChainInv, NEW f \in Files, Delete(f)
  PROVE  ChainInv' /\ (NothingLost => NothingLost')
<1>1. Ready /\ UNCHANGED <<fat, dir, sft, failed>>
  BY DEF Delete, Continue
<1>2. TakenOver(f) /\ call'.op = "delete"
  BY DeleteKeeps
<1>3. CallChain(call', sft, fat)
  BY <1>2 DEF CallChain
<1> QED
  BY <1>1, <1>2, <1>3, ChainStarts, TakenOverKeeps

\* A new file has no chain.
LEMMA CreateChains ==
  ASSUME IInv, ChainInv, NEW s \in Sfts, NEW f \in Files, Create(s, f)
  PROVE  ChainInv' /\ Quiet
<1>1. /\ Ready /\ sft[s] = Closed /\ ~dir[f].used /\ Created(s, f)
      /\ UNCHANGED <<fat, hint, nfree, failed>>
  BY DEF Create
<1>2. \A t \in Sfts : ~Writer(sft, t, f)
  BY <1>1, ReadyIdle, FatConstants DEF Writer, SftInv
<1>3. ChainInv'
  BY <1>1, <1>2, CreatedChains DEF Ready
<1>4. Rest' = FREE /\ \A g \in Files : Head(g)' = IF g = f THEN FREE ELSE Head(g)
  BY <1>1, <1>2, CreatedEnds DEF Ready
<1>5. dir[f].start = FREE
  BY <1>1 DEF ChainInv, ChainsIn, SftChain, NoEntry
<1>6. Head(f) = FREE
  BY <1>1, <1>2, <1>5, ReadyIdle DEF HeadIs, Idle
<1>7. Heads' = Heads /\ Rest' = Rest
  BY <1>1, <1>4, <1>6, ReadyIdle DEF Heads
<1> QED
  BY <1>1, <1>3, <1>7 DEF Quiet

\* dos_free counts.
LEMMA DosFreeChains == IInv /\ ChainInv /\ DosFree => ChainInv' /\ Quiet
<1> SUFFICES ASSUME IInv, ChainInv, DosFree PROVE ChainInv' /\ Quiet
  OBVIOUS
<1>1. UNCHANGED <<fat, dir, sft, call>> /\ (failed => failed')
  BY DEF DosFree, Fault
<1>2. Heads' = Heads /\ Rest' = Rest
  BY <1>1 DEF Heads, Head, Current, Collected, Writing, Using, Rest
<1>3. ChainInv'
  BY <1>1 DEF ChainInv, ChainsIn, SftChain, CallChain
<1> QED
  BY <1>1, <1>2, <1>3 DEF Quiet

\* SftSeek2 moves the offset only: the cursor follows in map_cluster.
LEMMA SeekChains ==
  ASSUME IInv, ChainInv, NEW s \in Sfts, NEW o \in SeekTo, Seek(s, o)
  PROVE  ChainInv' /\ Quiet
<1>1. /\ Ready /\ sft' = [sft EXCEPT ![s].offset = o]
      /\ UNCHANGED <<fat, dir, call, failed>>
  BY DEF Seek
<1> DEFINE r == [sft[s] EXCEPT !.offset = o]
<1>2. sft' = [sft EXCEPT ![s] = r]
  BY <1>1
<1>3. sft[s] \in SftType
  BY <1>1, ReadyIdle
<1>4. /\ r.file = sft[s].file /\ r.writes = sft[s].writes /\ r.clean = sft[s].clean
      /\ r.start = sft[s].start /\ r.cluster = sft[s].cluster /\ r.rel = sft[s].rel
      /\ r.size = sft[s].size
  BY <1>3 DEF SftType
<1> HIDE DEF r
<1>5. \A t \in Sfts : sft'[t] = IF t = s THEN r ELSE sft[t]
  BY <1>1, <1>2, ReadyIdle DEF SftsType
<1>6. \A t \in Sfts : /\ sft'[t].file = sft[t].file /\ sft'[t].writes = sft[t].writes
                      /\ sft'[t].clean = sft[t].clean /\ sft'[t].size = sft[t].size
                      /\ InChain(fat, sft[t]) => InChain(fat, sft'[t])
  BY <1>4, <1>5 DEF InChain
<1>7. \A t \in Sfts : \A f : Writer(sft', t, f) <=> Writer(sft, t, f)
  BY <1>6 DEF Writer
<1>8. SftChain(sft, dir, call, fat)
  BY DEF ChainInv, ChainsIn
<1>9. SftChain(sft', dir', call', fat')
  BY <1>1, <1>6, <1>7, <1>8 DEF SftChain
<1>10. CallChain(call', sft', fat')
  BY <1>1 DEF CallChain, Ready, Idle
<1>11. Heads' = Heads /\ Rest' = Rest
  BY SeekKeeps
<1> QED
  BY <1>1, <1>9, <1>10, <1>11 DEF Quiet, ChainInv, ChainsIn

\* An opened file has its cursor at its start.
LEMMA OpenChains ==
  ASSUME IInv, ChainInv, NEW s \in Sfts, NEW f \in Files, NEW w \in Modes, Open(s, f, w)
  PROVE  ChainInv' /\ Quiet
<1> DEFINE e == Collected(f)
           r == Opened(f, w, e)
<1>1. /\ Ready /\ sft[s] = Closed /\ Admitted(f, w)
      /\ sft' = [sft EXCEPT ![s] = r] /\ UNCHANGED <<fat, dir, call, failed>>
  BY DEF Open
<1>2. /\ SftChain(sft, dir, call, fat) /\ (\A t \in Sfts : sft[t] \in SftType)
      /\ dir \in [Files -> DirType] /\ call = Idle /\ Idle.op = "none" /\ Idle.pc = "idle"
  BY <1>1, ReadyIdle DEF ChainInv, ChainsIn, IInv, CallSide, Idle
<1>3. e.start \in Pointers /\ e.size \in Offsets
  <2>1. CASE Writing(f) = {}
    BY <1>2, <2>1 DEF Collected, DirType
  <2>2. CASE Writing(f) # {}
    <3>1. PICK t \in Sfts : e = sft[t]
      BY <2>2 DEF Collected, Writing, Using
    <3> QED
      BY <1>2, <3>1 DEF SftType
  <2> QED
    BY <2>1, <2>2
<1>4. w => e = dir[f] /\ \A t \in Sfts : ~Writer(sft, t, f)
  BY <1>1, NoWriters DEF Admitted, Collected
<1> HIDE DEF e
<1>5. /\ r \in SftType /\ r.file = f /\ r.writes = w /\ r.start = e.start /\ r.rel = 0
      /\ r.cluster = e.start /\ r.size = e.size
  <2>1. w \in BOOLEAN
    BY FatConstants
  <2>2. IsOpened(r, f, w, e)
    BY <1>3, <2>1, OpenedIs, Zenon
  <2>3. r.cluster = e.start /\ r.rel = 0 /\ r.size = e.size
    BY <1>3, <2>1, OpenedCursor, Zenon
  <2> QED
    BY <2>2, <2>3 DEF IsOpened
<1> HIDE DEF r
<1>6. \A t \in Sfts : sft'[t] = IF t = s THEN r ELSE sft[t]
  BY <1>1, ReadyIdle DEF SftsType
<1>7. ASSUME w PROVE InChain(fat, r) /\ dir[f].size = r.size
  <2>1. Covered(fat, e.start, e.size) /\ e = dir[f]
    BY <1>2, <1>4, <1>7 DEF SftChain
  <2>2. r.start # FREE => Reaches(fat, r.start, r.rel, r.cluster)
    BY <1>3, <1>5, ReachHere DEF Pointers
  <2> QED
    BY <1>5, <2>1, <2>2 DEF InChain
<1>8. SftChain(sft', dir', call', fat')
  <2>1. \A t \in Sfts : sft'[t].writes
                          /\ ~(call'.s = t /\ call'.op = "cut" /\ call'.pc = "wipe")
                          => InChain(fat', sft'[t])
    BY <1>1, <1>2, <1>5, <1>6, <1>7 DEF SftChain
  <2>2. \A t \in Sfts : sft'[t].writes /\ sft'[t].clean => dir'[sft'[t].file].size = sft'[t].size
    BY <1>1, <1>2, <1>5, <1>6, <1>7 DEF SftChain
  <2>3. ASSUME NEW g \in Files, \A t \in Sfts : ~Writer(sft', t, g)
        PROVE  Covered(fat', dir'[g].start, dir'[g].size)
    <3>1. \A t \in Sfts : ~Writer(sft, t, g)
      BY <1>1, <1>6, <2>3, ClosedIs DEF Writer
    <3> QED
      BY <1>1, <1>2, <3>1 DEF SftChain
  <2>4. \A g \in Files : ~dir'[g].used => dir'[g] = NoEntry
    BY <1>1, <1>2 DEF SftChain
  <2> QED
    BY <2>1, <2>2, <2>3, <2>4 DEF SftChain
<1>9. CallChain(call', sft', fat')
  BY <1>1, <1>2 DEF CallChain
<1>10. Heads' = Heads /\ Rest' = Rest
  BY OpenKeeps
<1> QED
  BY <1>1, <1>8, <1>9, <1>10 DEF Quiet, ChainInv, ChainsIn

\* The entry takes start and size of the instance that writes.
LEMMA UpdateChains ==
  ASSUME IInv, ChainInv, NEW s \in Sfts, NEW a, a \in {sft[s], Closed}, Update(s, a)
  PROVE  ChainInv' /\ Quiet
<1> DEFINE S == [sft EXCEPT ![s] = a]
           f == sft[s].file
<1>1. Ready /\ f # NoFile /\ UNCHANGED <<fat, call, failed>>
  BY DEF Update
<1>2. (\A t \in Sfts : sft[t] \in SftType) /\ a \in SftType /\ f \in Files
  BY <1>1, ReadyIdle, ClosedIs DEF SftType
<1>3. /\ S \in SftsType /\ \A t \in Sfts : S[t] = IF t = s THEN a ELSE sft[t]
  BY <1>1, <1>2, ReadyIdle DEF SftsType
<1> HIDE DEF S
<1>4. /\ SftChain(sft, dir, call, fat) /\ dir \in [Files -> DirType]
      /\ call = Idle /\ Idle.op = "none" /\ Idle.pc = "idle"
      /\ OneWriter(sft) /\ SftInv(sft, dir)
  BY <1>1, ReadyIdle DEF ChainInv, ChainsIn, IInv, CallSide, Idle
<1>5. \A t \in Sfts : S[t].writes => S[t] = sft[t] /\ sft[t].writes
  BY <1>3, ClosedIs
<1>6. ASSUME NEW g \in Files, g # f \/ ~sft[s].writes, \A t \in Sfts : ~Writer(S, t, g)
      PROVE  Covered(fat, dir[g].start, dir[g].size)
  <2>1. \A t \in Sfts : ~Writer(sft, t, g)
    BY <1>3, <1>6 DEF Writer
  <2> QED
    BY <1>4, <2>1 DEF SftChain
<1>7. ASSUME sft[s].writes PROVE InChain(fat, sft[s])
  BY <1>4, <1>7 DEF SftChain
<1>8. Heads' = Heads /\ Rest' = Rest
  BY UpdateKeeps
<1>9. CallChain(call', sft', fat')
  BY <1>1, <1>4 DEF CallChain
<1>10. CASE sft[s].clean
  <2>1. sft' = S /\ dir' = dir
    BY <1>10 DEF Update, S
  <2>2. SftChain(sft', dir', call', fat')
    <3>1. \A t \in Sfts : S[t].writes => InChain(fat, S[t])
      BY <1>4, <1>5 DEF SftChain
    <3>2. \A t \in Sfts : S[t].writes /\ S[t].clean => dir[S[t].file].size = S[t].size
      BY <1>4, <1>5 DEF SftChain
    <3>3. ASSUME NEW g \in Files, \A t \in Sfts : ~Writer(S, t, g)
          PROVE  Covered(fat, dir[g].start, dir[g].size)
      <4>1. CASE g # f \/ ~sft[s].writes
        BY <1>6, <3>3, <4>1
      <4>2. CASE g = f /\ sft[s].writes
        BY <1>4, <1>7, <1>10, <4>2 DEF SftInv, SftChain, InChain
      <4> QED
        BY <4>1, <4>2
    <3>4. \A g \in Files : ~dir[g].used => dir[g] = NoEntry
      BY <1>4 DEF SftChain
    <3> QED
      BY <1>1, <2>1, <3>1, <3>2, <3>3, <3>4 DEF SftChain
  <2> QED
    BY <1>1, <1>8, <1>9, <2>2 DEF Quiet, ChainInv, ChainsIn
<1>11. CASE ~sft[s].clean
  <2> DEFINE new == [used |-> TRUE, start |-> sft[s].start, size |-> sft[s].size]
             c == FromSft(s)
             M == Merged(S, c)
  <2>1. sft' = M /\ dir' = [dir EXCEPT ![f] = new]
    BY <1>11 DEF Update, S
  <2>2. new.used /\ new.start = sft[s].start /\ new.size = sft[s].size
    OBVIOUS
  <2> HIDE DEF new
  <2>3. \A g \in Files : dir'[g] = IF g = f THEN new ELSE dir[g]
    BY <1>2, <1>4, <2>1
  <2>4. c.file = f /\ c.s = s
    BY FromSftFields DEF IInv, CallSide
  <2> HIDE DEF c
  <2>5. sft[s].writes /\ Writer(sft, s, f)
    BY <1>4, <1>11 DEF SftInv, Writer
  <2>6. \A t \in Sfts : t # s /\ S[t].file = f => ~S[t].writes
    BY <1>2, <1>3, <1>4, <2>5 DEF OneWriter, Writer
  <2>7. WritersStay(S, M)
    BY <1>3, <2>4, <2>6, MergedSame
  <2> HIDE DEF M
  <2>8. \A t \in Sfts : /\ M[t].writes => M[t] = S[t] /\ S[t].writes
                        /\ \A g : Writer(M, t, g) <=> Writer(S, t, g)
    BY <2>7 DEF WritersStay, Writer
  <2>9. \A t \in Sfts : M[t].writes => InChain(fat, M[t])
    BY <1>4, <1>5, <2>8 DEF SftChain
  <2>10. ASSUME NEW t \in Sfts, M[t].writes, M[t].clean PROVE dir'[M[t].file].size = M[t].size
    <3>1. M[t] = sft[t] /\ sft[t].writes
      BY <1>5, <2>8, <2>10
    <3>2. t # s
      BY <1>11, <2>10, <3>1
    <3>3. sft[t].file # f /\ sft[t].file \in Files
      <4>1. sft[t].file # NoFile
        BY <1>4, <3>1, ClosedIs DEF SftInv
      <4> QED
        BY <1>2, <1>4, <2>5, <3>1, <3>2, <4>1 DEF OneWriter, Writer, SftType
    <3> QED
      BY <1>4, <2>3, <2>10, <3>1, <3>3 DEF SftChain
  <2>11. ASSUME NEW g \in Files, \A t \in Sfts : ~Writer(M, t, g)
         PROVE  Covered(fat, dir'[g].start, dir'[g].size)
    <3>1. CASE g # f
      BY <1>6, <2>3, <2>8, <2>11, <3>1
    <3>2. CASE g = f
      BY <1>7, <2>2, <2>3, <2>5, <3>2 DEF InChain
    <3> QED
      BY <3>1, <3>2
  <2>12. \A g \in Files : ~dir'[g].used => dir'[g] = NoEntry
    BY <1>4, <2>2, <2>3 DEF SftChain
  <2>13. SftChain(sft', dir', call', fat')
    BY <1>1, <2>1, <2>9, <2>10, <2>11, <2>12 DEF SftChain
  <2> QED
    BY <1>1, <1>8, <1>9, <2>13 DEF Quiet, ChainInv, ChainsIn
<1> QED
  BY <1>10, <1>11

-----------------------------------------------------------------------------
(* The invariant of the chains.                                            *)

\* At the start there are no chains.
LEMMA ChainInvInit == Init => ChainInv
<1> SUFFICES ASSUME Init PROVE ChainInv
  OBVIOUS
<1>1. /\ call = Idle /\ Idle.op = "none" /\ \A s \in Sfts : ~sft[s].writes
      /\ \A f \in Files : dir[f] = NoEntry /\ NoEntry.size = 0
  BY ClosedIs DEF Init, Idle, NoEntry
<1>2. SftChain(sft, dir, call, fat)
  BY <1>1 DEF SftChain, Covered
<1>3. CallChain(call, sft, fat)
  BY <1>1 DEF CallChain
<1> QED
  BY <1>2, <1>3 DEF ChainInv, ChainsIn

\* What a step does: it keeps the invariant and loses no cluster.
Kept == ChainInv' /\ (NothingLost => NothingLost')

\* A step that changes no chain keeps all.
LEMMA QuietIsKept == ChainInv' /\ Quiet => Kept
BY QuietKeeps DEF Kept

\* So do the calls of programs,
LEMMA ProgramKept == IInv /\ ChainInv /\ Program => Kept
<1> SUFFICES ASSUME IInv, ChainInv, Program PROVE Kept
  OBVIOUS
<1>1. ASSUME NEW s \in Sfts, NEW f \in Files, Create(s, f) \/ Truncate(s, f) PROVE Kept
  BY <1>1, CreateChains, TruncateChains, QuietIsKept DEF Kept
<1>2. ASSUME NEW s \in Sfts, NEW f \in Files, NEW w \in Modes, Open(s, f, w) PROVE Kept
  BY <1>2, OpenChains, QuietIsKept
<1>3. ASSUME NEW f \in Files, Delete(f) PROVE Kept
  BY <1>3, DeleteChains DEF Kept
<1>4. ASSUME NEW s \in Sfts, Commit(s) \/ Close(s) PROVE Kept
  BY <1>4, UpdateChains, QuietIsKept DEF Commit, Close
<1>5. ASSUME NEW s \in Sfts, NEW offset \in SeekTo, Seek(s, offset) PROVE Kept
  BY <1>5, SeekChains, QuietIsKept
<1>6. ASSUME NEW s \in Sfts, NEW n \in ReadCounts, Read(s, n) PROVE Kept
  BY <1>6, ReadChains, QuietIsKept
<1>7. ASSUME NEW s \in Sfts, NEW n \in WriteCounts, Write(s, n) PROVE Kept
  BY <1>7, WriteChains, QuietIsKept
<1> QED
  BY <1>1, <1>2, <1>3, <1>4, <1>5, <1>6, <1>7, DosFreeChains, QuietIsKept DEF Program

\* the steps within a call
LEMMA KernelKept == IInv /\ ChainInv /\ Kernel => Kept
<1> SUFFICES ASSUME IInv, ChainInv, Kernel PROVE Kept
  OBVIOUS
<1>1. CASE \/ MapRestart \/ MapFollow \/ Extended \/ Finish \/ Position \/ FirstCluster
           \/ AnotherCluster \/ Transfer \/ TransferFails \/ Shrink
  BY <1>1, QuietIsKept, MapRestartChains, MapFollowChains, ExtendedChains, FinishChains,
     PositionChains, FirstClusterChains, AnotherClusterChains, TransferChains,
     TransferFailsChains, ShrinkChains
<1>2. CASE WipeCluster \/ WipeEnds \/ MapFails \/ Extend \/ ExtendFails \/ Cut \/ CutFails
  BY <1>2, WipeClusterChains, WipeEndsChains, MapFailsChains, ExtendChains, ExtendFailsChains,
     CutChains, CutFailsChains DEF Kept
<1> QED
  BY <1>1, <1>2 DEF Kernel

\* and steps of others.
LEMMA StutterKept == ChainInv /\ UNCHANGED vars => Kept
<1> SUFFICES ASSUME ChainInv, UNCHANGED vars PROVE Kept
  OBVIOUS
<1>1. UNCHANGED <<fat, dir, sft, call, failed>>
  BY DEF vars
<1>2. ChainInv'
  BY <1>1 DEF ChainInv, ChainsIn, SftChain, CallChain
<1>3. Quiet
  BY <1>1 DEF Quiet, Heads, Head, Current, Collected, Writing, Using, Rest
<1> QED
  BY <1>2, <1>3, QuietIsKept

\* Every step keeps the invariant of the chains and loses no cluster, unless it
\* loses more.
LEMMA StepKept == IInv /\ ChainInv /\ [Next]_vars => lost' \/ Kept
BY ProgramKept, KernelKept, StutterKept, LossesLose DEF Next

\* The invariant of the chains holds until a buffer, an entry or a flush is
\* lost, whatever accesses to the FAT fail before.
THEOREM ChainsHold == Spec => [](lost \/ (IInv /\ ChainInv))
<1>1. Init => IInv /\ ChainInv
  BY IInvInit, ChainInvInit
<1>2. IInv /\ ChainInv /\ [Next]_vars => lost' \/ (IInv' /\ ChainInv')
  BY IInvStep, StepKept DEF Kept
<1> QED
  BY <1>1, <1>2, LossStays, PTL DEF Spec

\* Every cluster that is allocated belongs to a file, or to the chain that a
\* call is about to wipe out, until an access to the FAT fails: extend,
\* shrink_file and wipe_out leave no cluster behind that nobody frees.
THEOREM NoClusterIsLost == Spec => []NothingLost
<1>1. Init => NothingLost
  BY DEF Init, NothingLost, Free
<1>2. /\ NothingLost /\ (lost \/ (IInv /\ ChainInv)) /\ [Next]_vars
      /\ (lost => failed) /\ (lost => failed)'
      => NothingLost'
  <2>1. lost /\ [Next]_vars /\ (lost => failed)' => NothingLost'
    BY LossStays DEF NothingLost
  <2>2. NothingLost /\ IInv /\ ChainInv /\ [Next]_vars => lost' \/ NothingLost'
    BY StepKept DEF Kept
  <2>3. lost' /\ (lost => failed)' => NothingLost'
    BY DEF NothingLost
  <2> QED
    BY <2>1, <2>2, <2>3
<1> QED
  BY <1>1, <1>2, ChainsHold, TypeCorrect, PTL DEF Spec

-----------------------------------------------------------------------------
(* The chains as the properties see them.                                  *)

\* Chain, for any FAT.
ChainOf(F, start) ==
  LET nth[n \in 0 .. MaxCluster] ==
        IF n = 0 THEN start
        ELSE IF nth[n - 1] \in Clusters THEN F[nth[n - 1]] ELSE FREE
  IN nth

\* g is such a chain up to the position k.
IsChain(F, h, g, k) ==
  g = [n \in 0 .. k |-> IF n = 0 THEN h ELSE IF g[n - 1] \in Clusters THEN F[g[n - 1]] ELSE FREE]

\* Chain is that of the FAT.
LEMMA ChainIs == \A h : Chain(h) = ChainOf(fat, h)
BY DEF Chain, ChainOf

\* There is a chain of each length.
LEMMA ChainExists ==
  ASSUME NEW F, NEW h, NEW k \in Nat
  PROVE  \E g : IsChain(F, h, g, k)
<1> DEFINE S == {m \in Nat : \E g : IsChain(F, h, g, m)}
<1>1. 0 \in S
  <2> DEFINE g == [n \in 0 .. 0 |-> h]
  <2>1. IsChain(F, h, g, 0)
    BY DEF IsChain
  <2> QED
    BY <2>1
<1>2. ASSUME NEW m \in S PROVE m + 1 \in S
  <2>1. PICK g : IsChain(F, h, g, m)
    BY <1>2
  <2> DEFINE next == IF g[m] \in Clusters THEN F[g[m]] ELSE FREE
             e == [n \in 0 .. m + 1 |-> IF n = m + 1 THEN next ELSE g[n]]
  <2>2. m \in Nat /\ m + 1 \in Nat
    OBVIOUS
  <2>3. \A n \in 0 .. m : g[n] = IF n = 0 THEN h
                                 ELSE IF g[n - 1] \in Clusters THEN F[g[n - 1]] ELSE FREE
    BY <2>1, Zenon DEF IsChain
  <2> HIDE DEF next
  <2>4. /\ \A n \in 0 .. m : e[n] = g[n]
        /\ e[m + 1] = next
    BY <2>2
  <2>5. e = [n \in 0 .. m + 1 |-> e[n]]
    OBVIOUS
  <2> HIDE DEF e
  <2>6. ASSUME NEW n \in 0 .. m + 1
        PROVE  e[n] = IF n = 0 THEN h ELSE IF e[n - 1] \in Clusters THEN F[e[n - 1]] ELSE FREE
    <3>1. CASE n = m + 1
      <4>1. n # 0 /\ n - 1 = m /\ m \in 0 .. m
        BY <2>2, <3>1
      <4>2. e[n] = next /\ e[n - 1] = g[m]
        BY <2>4, <3>1, <4>1
      <4> QED
        BY <4>1, <4>2 DEF next
    <3>2. CASE n # m + 1
      <4>1. n \in 0 .. m /\ (n # 0 => n - 1 \in 0 .. m)
        BY <2>2, <3>2
      <4>2. e[n] = g[n] /\ (n # 0 => e[n - 1] = g[n - 1])
        BY <2>4, <4>1
      <4> QED
        BY <2>3, <4>1, <4>2
    <3> QED
      BY <3>1, <3>2
  <2>7. IsChain(F, h, e, m + 1)
    BY <2>5, <2>6, Zenon DEF IsChain
  <2> QED
    BY <2>2, <2>7
<1>3. S = Nat
  <2>1. S \subseteq Nat
    OBVIOUS
  <2> HIDE DEF S
  <2> QED
    BY <1>1, <1>2, <2>1, AllNumbers
<1> QED
  BY <1>3

\* So that what the properties say of a chain is what they mean.
LEMMA ChainSteps ==
  ASSUME NEW F, NEW h, NEW n \in 0 .. MaxCluster
  PROVE  ChainOf(F, h)[n] =
           IF n = 0 THEN h
           ELSE IF ChainOf(F, h)[n - 1] \in Clusters THEN F[ChainOf(F, h)[n - 1]] ELSE FREE
<1>1. MaxCluster \in Nat
  BY FatConstants
<1>2. \E g : IsChain(F, h, g, MaxCluster)
  BY <1>1, ChainExists
<1>3. IsChain(F, h, ChainOf(F, h), MaxCluster)
  BY <1>2, Zenon DEF ChainOf, IsChain
<1> DEFINE g == ChainOf(F, h)
<1>4. g = [m \in 0 .. MaxCluster |->
             IF m = 0 THEN h ELSE IF g[m - 1] \in Clusters THEN F[g[m - 1]] ELSE FREE]
  BY <1>3 DEF IsChain
<1> HIDE DEF g
<1>5. g[n] = IF n = 0 THEN h ELSE IF g[n - 1] \in Clusters THEN F[g[n - 1]] ELSE FREE
  BY <1>4, Zenon
<1> QED
  BY <1>5 DEF g

\* What the properties call the n-th cluster of a chain is where it leads.
LEMMA ChainReaches ==
  ASSUME NEW F, NEW h, NEW n \in 0 .. MaxCluster, NEW c \in Clusters
  PROVE  ChainOf(F, h)[n] = c <=> Reaches(F, h, n, c)
<1> DEFINE g == ChainOf(F, h)
           S == {m \in Nat : m <= MaxCluster =>
                               \A x \in Clusters : g[m] = x <=> Reaches(F, h, m, x)}
<1>1. MaxCluster \in Nat
  BY FatConstants
<1>2. \A m \in 0 .. MaxCluster :
        g[m] = IF m = 0 THEN h ELSE IF g[m - 1] \in Clusters THEN F[g[m - 1]] ELSE FREE
  BY ChainSteps
<1> HIDE DEF g
<1>3. 0 \in S
  <2>1. 0 \in 0 .. MaxCluster
    BY <1>1
  <2>2. g[0] = h
    BY <1>2, <2>1
  <2>3. \A x \in Clusters : h = x <=> Reaches(F, h, 0, x)
    BY ReachHere, ReachFirst
  <2> QED
    BY <2>2, <2>3
<1>4. ASSUME NEW m \in S PROVE m + 1 \in S
  <2>1. m \in Nat /\ m + 1 \in Nat /\ m + 1 # 0 /\ (m + 1) - 1 = m
    OBVIOUS
  <2> SUFFICES ASSUME m + 1 <= MaxCluster, NEW x \in Clusters
               PROVE  g[m + 1] = x <=> Reaches(F, h, m + 1, x)
    BY <2>1
  <2>2. m + 1 \in 0 .. MaxCluster /\ m <= MaxCluster
    BY <1>1, <2>1
  <2>3. g[m + 1] = IF g[m] \in Clusters THEN F[g[m]] ELSE FREE
    BY <1>2, <2>1, <2>2
  <2>4. \A y \in Clusters : g[m] = y <=> Reaches(F, h, m, y)
    BY <1>4, <2>2
  <2>5. ASSUME g[m + 1] = x PROVE Reaches(F, h, m + 1, x)
    <3>1. g[m] \in Clusters /\ F[g[m]] = x
      BY <2>3, <2>5, Numbers
    <3>2. Reaches(F, h, m, g[m])
      BY <2>4, <3>1
    <3> QED
      BY <3>1, <3>2, ReachNext
  <2>6. ASSUME Reaches(F, h, m + 1, x) PROVE g[m + 1] = x
    <3>1. PICK d \in Clusters : Reaches(F, h, m, d) /\ F[d] = x
      BY <2>1, <2>6, ReachLast
    <3>2. g[m] = d
      BY <2>4, <3>1
    <3> QED
      BY <2>3, <3>1, <3>2
  <2> QED
    BY <2>5, <2>6
<1>5. S = Nat
  <2>1. S \subseteq Nat
    OBVIOUS
  <2> HIDE DEF S
  <2> QED
    BY <1>3, <1>4, <2>1, AllNumbers
<1>6. n \in S /\ n <= MaxCluster
  BY <1>1, <1>5
<1>7. g[n] = c <=> Reaches(F, h, n, c)
  BY <1>6
<1> QED
  BY <1>7 DEF g

\* A chain does not come back to a cluster: it is no longer than the volume.
LEMMA ReachBound ==
  ASSUME NEW F \in FatType, NEW H, NEW r, Sound(F, H, r), NEW f \in Files,
         NEW n, NEW c, Reaches(F, H[f], n, c)
  PROVE  n \in 0 .. MaxCluster
<1>1. PICK p : Walk(F, p, n) /\ p[0] = H[f] /\ p[n] = c
  BY DEF Reaches
<1>2. n \in Nat /\ MaxCluster \in Nat
  BY FatConstants DEF Reaches
<1>3. p \in [0 .. n -> Clusters]
  BY <1>1 DEF Walk
<1>4. \A i, j \in 0 .. n : p[i] = p[j] => i = j
  <2> SUFFICES ASSUME NEW i \in 0 .. n, NEW j \in 0 .. n, p[i] = p[j] PROVE i = j
    OBVIOUS
  <2>1. Reaches(F, H[f], i, p[i]) /\ Reaches(F, H[f], j, p[j])
    BY <1>1, <1>2, WalkReaches
  <2>2. Reaches(F, H[f], j, p[i])
    BY <2>1
  <2> QED
    BY <2>1, <2>2, ReachDisjoint
<1>5. IsFiniteSet(0 .. n) /\ Cardinality(0 .. n) = n + 1
  <2>1. 0 \in Int /\ n \in Int /\ ~(0 > n) /\ n - 0 + 1 = n + 1
    BY <1>2
  <2> QED
    BY <2>1, FS_Interval
<1>6. ~(Cardinality(Clusters) < Cardinality(0 .. n))
  <2> SUFFICES ASSUME Cardinality(Clusters) < Cardinality(0 .. n) PROVE FALSE
    OBVIOUS
  <2>1. \E i, j \in 0 .. n : i # j /\ p[i] = p[j]
    BY <1>3, <1>5, ClustersFinite, FS_PigeonHole
  <2> QED
    BY <1>4, <2>1
<1>7. ~(MaxCluster - 1 < n + 1)
  BY <1>5, <1>6, ClustersFinite
<1> QED
  BY <1>2, <1>7

\* The chain of a file that is reached somewhere is what Chain says.
LEMMA FileChain ==
  ASSUME IInv, NEW f \in Files, NEW n, NEW c, Reaches(fat, Head(f), n, c)
  PROVE  n \in 0 .. MaxCluster /\ c \in Clusters /\ Chain(Head(f))[n] = c
<1>1. fat \in FatType /\ Sound(fat, Heads, Rest) /\ Heads[f] = Head(f)
  BY HeadsAre DEF IInv, FatSide
<1>2. n \in 0 .. MaxCluster /\ c \in Clusters
  BY <1>1, ReachBound, ReachTypes
<1>3. ChainOf(fat, Head(f))[n] = c
  BY <1>2, ChainReaches
<1> QED
  BY <1>2, <1>3, ChainIs

\* The instance that writes begins where its file does, unless the call on its
\* way is its own.
LEMMA WriterIsHead ==
  ASSUME IInv, NEW s \in Sfts, sft[s].writes, call.s # s
  PROVE  sft[s].file \in Files /\ Head(sft[s].file) = sft[s].start
<1>1. sft[s].file \in Files /\ OneWriter(sft)
  <2>1. sft[s].file # NoFile /\ sft[s] \in SftType
    BY ClosedIs DEF IInv, CallSide, SftInv, SftsType
  <2> QED
    BY <2>1 DEF IInv, CallSide, SftInv, SftType
<1>2. Writer(sft, s, sft[s].file)
  BY DEF Writer
<1>3. ~(call.file = sft[s].file /\ call.op \in {"create", "delete", "write", "cut"})
  <2>1. call.op \in {"write", "cut"} => call.file # sft[s].file
    <3> SUFFICES ASSUME call.op \in {"write", "cut"}, call.file = sft[s].file PROVE FALSE
      OBVIOUS
    <3>1. Writer(sft, call.s, sft[s].file)
      BY WriterAt DEF WriteInv
    <3>2. call.s \in Sfts
      BY <3>1 DEF Writer
    <3> QED
      BY <1>1, <1>2, <3>1, <3>2 DEF OneWriter
  <2>2. call.op = "create" => call.file # sft[s].file
    BY <1>2 DEF IInv, CallSide, CallInv, CreateInv
  <2>3. call.op = "delete" => call.file # sft[s].file
    BY DEF IInv, CallSide, CallInv, DeleteInv
  <2> QED
    BY <2>1, <2>2, <2>3
<1> QED
  BY <1>1, <1>2, <1>3, HeadOfFile DEF HeadIs

\* The cursor of an instance that writes is the cluster that its number in the
\* chain says it is, after any calls and any accesses to the FAT that fail, so
\* that map_cluster can go on from it.  A flush of shrink_file that fails ends
\* it: the cursor of that SFT may then be a cluster that is free.
THEOREM CursorIsInChain == Spec => []CursorInChain
<1>1. lost \/ (IInv /\ ChainInv) => CursorInChain
  <2> SUFFICES ASSUME IInv, ChainInv, NEW s \in Sfts, sft[s].writes, call.s # s
               PROVE  IF sft[s].start = FREE THEN sft[s].cluster = FREE
                      ELSE Chain(sft[s].start)[sft[s].rel] = sft[s].cluster
    BY DEF CursorInChain
  <2>1. sft[s].start = FREE <=> sft[s].cluster = FREE
    BY DEF IInv, CallSide, SftInv, AtCursor
  <2>2. InChain(fat, sft[s])
    BY DEF ChainInv, ChainsIn, SftChain
  <2>3. ASSUME sft[s].start # FREE PROVE Chain(sft[s].start)[sft[s].rel] = sft[s].cluster
    BY <2>2, <2>3, WriterIsHead, FileChain DEF InChain
  <2> QED
    BY <2>1, <2>3
<1> QED
  BY <1>1, ChainsHold, PTL

\* A file has a cluster for each of its sectors: no size is set before the
\* clusters are there, and no cluster goes while the size says it is used.  It
\* ends with the first loss, as above.
THEOREM SizeIsCovered == Spec => []SizeCovered
<1>1. lost \/ (IInv /\ ChainInv) => SizeCovered
  <2> SUFFICES ASSUME IInv, ChainInv, NEW f \in Files, Current(f).size # 0
               PROVE  Chain(Head(f))[Cl(Current(f).size - 1)] \in Clusters
    BY DEF SizeCovered
  <2>1. Covered(fat, Head(f), Current(f).size)
    <3>1. CASE call.file = f /\ call.op \in {"create", "delete"}
      <4>1. Current(f) = NoEntry /\ NoEntry.size = 0
        BY <3>1 DEF Current, NoEntry
      <4> QED
        BY <4>1
    <3>2. CASE call.file = f /\ call.op \in {"write", "cut"}
      <4>1. Current(f) = call
        BY <3>2 DEF Current
      <4> QED
        BY <3>2, <4>1 DEF Head, ChainInv, ChainsIn, CallChain, InChain
    <3>3. CASE ~(call.file = f /\ call.op \in {"create", "delete", "write", "cut"})
      <4>1. Current(f) = Collected(f)
        BY <3>3 DEF Current
      <4>2. CASE Writing(f) = {}
        <5>1. Current(f) = dir[f] /\ \A s \in Sfts : ~Writer(sft, s, f)
          BY <4>1, <4>2, NoWriters DEF Collected
        <5> QED
          BY <3>3, <5>1 DEF Head, ChainInv, ChainsIn, SftChain
      <4>3. CASE Writing(f) # {}
        <5>1. PICK s \in Sfts : Current(f) = sft[s] /\ sft[s].writes /\ sft[s].file = f
          BY <4>1, <4>3 DEF Collected, Writing, Using
        <5>2. ~(call.s = s /\ call.op = "cut")
          BY <3>3, <5>1, WriterAt DEF WriteInv, Writer
        <5> QED
          BY <5>1, <5>2 DEF Head, ChainInv, ChainsIn, SftChain, InChain
      <4> QED
        BY <4>2, <4>3
    <3> QED
      BY <3>1, <3>2, <3>3
  <2>2. PICK c : Reaches(fat, Head(f), Cl(Current(f).size - 1), c)
    BY <2>1 DEF Covered
  <2> QED
    BY <2>2, FileChain
<1> QED
  BY <1>1, ChainsHold, PTL

-----------------------------------------------------------------------------
(* What a call leaves of the other files.                                  *)

\* A chain is the same in a FAT that has the entries of all that it reaches.
LEMMA SameChain ==
  ASSUME NEW F, NEW G, NEW h,
         \A d \in Clusters : (\E n : Reaches(F, h, n, d)) => G[d] = F[d]
  PROVE  \A n, c : Reaches(G, h, n, c) <=> Reaches(F, h, n, c)
<1> DEFINE S == {k \in Nat : \A x : Reaches(G, h, k, x) => Reaches(F, h, k, x)}
<1>1. 0 \in S
  <2> SUFFICES ASSUME NEW x, Reaches(G, h, 0, x) PROVE Reaches(F, h, 0, x)
    OBVIOUS
  <2>1. h = x /\ h \in Clusters
    BY ReachFirst, ReachTypes
  <2> QED
    BY <2>1, ReachHere
<1>2. ASSUME NEW k \in S PROVE k + 1 \in S
  <2>1. k \in Nat /\ k + 1 \in Nat /\ k + 1 # 0 /\ (k + 1) - 1 = k
    OBVIOUS
  <2> SUFFICES ASSUME NEW x, Reaches(G, h, k + 1, x) PROVE Reaches(F, h, k + 1, x)
    BY <2>1
  <2>2. PICK d \in Clusters : Reaches(G, h, k, d) /\ G[d] = x
    BY <2>1, ReachLast
  <2>3. Reaches(F, h, k, d)
    BY <1>2, <2>2
  <2>4. F[d] = x /\ x \in Clusters
    BY <2>2, <2>3, ReachTypes
  <2> QED
    BY <2>3, <2>4, ReachNext
<1>3. S = Nat
  <2>1. S \subseteq Nat
    OBVIOUS
  <2> HIDE DEF S
  <2> QED
    BY <1>1, <1>2, <2>1, AllNumbers
<1>4. ASSUME NEW n, NEW c, Reaches(G, h, n, c) PROVE Reaches(F, h, n, c)
  <2>1. n \in S
    BY <1>3, <1>4, ReachTypes
  <2> QED
    BY <1>4, <2>1
<1>5. ASSUME NEW n, NEW c, Reaches(F, h, n, c) PROVE Reaches(G, h, n, c)
  BY <1>5, ReachStays
<1> QED
  BY <1>4, <1>5

\* The clusters of a chain.
LEMMA ClustersOfChain ==
  ASSUME NEW F, NEW h
  PROVE  {ChainOf(F, h)[n] : n \in 0 .. MaxCluster} \cap Clusters
           = {c \in Clusters : \E n \in 0 .. MaxCluster : Reaches(F, h, n, c)}
BY ChainReaches

\* A file keeps its clusters if it keeps its head, and its clusters their
\* entries.
LEMMA Untouched ==
  ASSUME NEW f \in Files, Head(f)' = Head(f),
         \A d \in Clusters : (\E n : Reaches(fat, Head(f), n, d)) => fat'[d] = fat[d]
  PROVE  Clusters_of(f)' = Clusters_of(f)
<1> DEFINE h == Head(f)
           In(F) == {c \in Clusters : \E n \in 0 .. MaxCluster : Reaches(F, h, n, c)}
<1>1. Clusters_of(f) = {ChainOf(fat, h)[n] : n \in 0 .. MaxCluster} \cap Clusters
  BY DEF Clusters_of, Chain, ChainOf
<1>2. Clusters_of(f)' = {ChainOf(fat', h')[n] : n \in 0 .. MaxCluster} \cap Clusters
  BY DEF Clusters_of, Chain, ChainOf
<1>3. h' = h
  OBVIOUS
<1> HIDE DEF h
<1>4. \A n, c : Reaches(fat', h, n, c) <=> Reaches(fat, h, n, c)
  BY SameChain DEF h
<1>5. In(fat') = In(fat)
  BY <1>4
<1> QED
  BY <1>1, <1>2, <1>3, <1>5, ClustersOfChain

\* What a file reaches is not free, nor the rest of a chain, nor the cursor of
\* a call on another file that writes.
LEMMA ReachedByOther ==
  ASSUME IInv, ChainInv, NEW f \in Files, f # call.file, NEW n, NEW d, Reaches(fat, Head(f), n, d)
  PROVE  /\ d \in Clusters /\ fat[d] # FREE /\ d # Rest
         /\ call.op \in {"write", "cut"} /\ call.cluster # FREE => d # call.cluster
<1>1. fat \in FatType /\ Sound(fat, Heads, Rest) /\ Heads[f] = Head(f)
  BY HeadsAre DEF IInv, FatSide
<1>2. d \in Clusters /\ fat[d] # FREE /\ d # Rest
  BY <1>1, ReachAllocated
<1>3. ASSUME call.op \in {"write", "cut"}, call.cluster # FREE, d = call.cluster PROVE FALSE
  <2>1. Reaches(fat, Heads[call.file], call.rel, call.cluster) /\ call.file \in Files
    BY <1>3, WriterHead, CursorAllocated
  <2>2. Reaches(fat, Heads[f], n, call.cluster)
    BY <1>1, <1>3
  <2> QED
    BY <1>1, <2>1, <2>2, ReachDisjoint
<1> QED
  BY <1>2, <1>3

\* A step within a call moves no head of another file.
LEMMA OtherHead ==
  ASSUME UNCHANGED <<dir, sft>>, call'.file = call.file, NEW f \in Files, f # call.file
  PROVE  Head(f)' = Head(f)
BY DEF Head, Current, Collected, Writing, Using

\* The step leaves the chains of the other files alone.
OthersStay == \A f \in Files \ {call.file} : Clusters_of(f)' = Clusters_of(f)

\* wipe_out frees what no other file reaches.
LEMMA WipeClusterApart == IInv /\ ChainInv /\ WipeCluster => OthersStay
<1> SUFFICES ASSUME IInv, ChainInv, WipeCluster, NEW f \in Files, f # call.file
             PROVE  Clusters_of(f)' = Clusters_of(f)
  BY DEF OthersStay
<1>1. /\ call.pc = "wipe" /\ next_cluster(call.st) > 1 /\ fat' = [fat EXCEPT ![call.st] = FREE]
      /\ call' = [call EXCEPT !.st = next_cluster(call.st)] /\ UNCHANGED <<dir, sft>>
  BY DEF WipeCluster, Continue
<1>2. call'.file = call.file
  BY <1>1, OpAtPc DEF CallType
<1>3. ASSUME NEW n, NEW d, Reaches(fat, Head(f), n, d) PROVE fat'[d] = fat[d]
  <2>1. d # call.st /\ d \in Clusters
    BY <1>1, <1>3, ReachedByOther DEF Rest
  <2> QED
    BY <1>1, <2>1 DEF IInv, FatSide, FatType
<1> QED
  BY <1>1, <1>2, <1>3, OtherHead, Untouched

\* extend changes a free cluster, and the end of the chain of its own file.
LEMMA ExtendApart == IInv /\ ChainInv /\ Extend => OthersStay
<1> SUFFICES ASSUME IInv, ChainInv, Extend, NEW f \in Files, f # call.file
             PROVE  Clusters_of(f)' = Clusters_of(f)
  BY DEF OthersStay
<1>1. Mapping /\ ~Reading /\ AtEnd /\ dir' = dir
  BY DEF Extend
<1>2. PICK c \in FindFatFree \ {LAST} :
        \/ /\ fat' = [fat EXCEPT ![c] = LAST]
           /\ Continue([call EXCEPT !.cluster = c, !.start = c])
        \/ /\ call.cluster # FREE
           /\ fat' = [fat EXCEPT ![c] = LAST, ![call.cluster] = c]
           /\ Continue([call EXCEPT !.cluster = c, !.rel = @ + 1])
  BY DEF Extend
<1>3. c \in Clusters /\ fat[c] = FREE
  BY FoundIsFree DEF Free
<1>4. call.op \in {"write", "cut"} /\ call \in CallType /\ fat \in FatType
  BY <1>1, AtEndIs, OpAtPc DEF IInv, FatSide
<1>5. call'.file = call.file /\ sft' = sft
  BY <1>2, <1>4 DEF CallType, Continue
<1>6. ASSUME NEW n, NEW d, Reaches(fat, Head(f), n, d) PROVE fat'[d] = fat[d]
  <2>1. d \in Clusters /\ d # c /\ (call.cluster # FREE => d # call.cluster)
    BY <1>3, <1>4, <1>6, ReachedByOther
  <2>2. CASE fat' = [fat EXCEPT ![c] = LAST]
    BY <1>4, <2>1, <2>2 DEF FatType
  <2>3. CASE call.cluster # FREE /\ fat' = [fat EXCEPT ![c] = LAST, ![call.cluster] = c]
    BY <1>4, <2>1, <2>3 DEF FatType
  <2> QED
    BY <1>2, <2>2, <2>3
<1> QED
  BY <1>1, <1>5, <1>6, OtherHead, Untouched

\* The cluster that is lost in extend was free.
LEMMA ExtendFailsApart == IInv /\ ChainInv /\ ExtendFails => OthersStay
<1> SUFFICES ASSUME IInv, ChainInv, ExtendFails, NEW f \in Files, f # call.file
             PROVE  Clusters_of(f)' = Clusters_of(f)
  BY DEF OthersStay
<1>1. Mapping /\ ~Reading /\ AtEnd /\ dir' = dir /\ NotMapped
  BY DEF ExtendFails
<1>2. PICK c \in FindFatFree :
        fat' = fat \/ (c # LAST /\ fat' = [fat EXCEPT ![c] = LAST])
  BY DEF ExtendFails
<1>3. c # LAST => c \in Clusters /\ fat[c] = FREE
  BY FoundIsFree DEF Free
<1>4. Head(f)' = Head(f)
  BY <1>1, AtEndIs, NotMappedEnds, HeadsAre
<1>5. ASSUME NEW n, NEW d, Reaches(fat, Head(f), n, d) PROVE fat'[d] = fat[d]
  <2>1. d \in Clusters /\ fat[d] # FREE
    BY <1>5, ReachedByOther
  <2> QED
    BY <1>2, <1>3, <2>1 DEF IInv, FatSide, FatType
<1> QED
  BY <1>4, <1>5, Untouched

\* shrink_file changes the entry at its cursor.
LEMMA CutApart == IInv /\ ChainInv /\ Cut => OthersStay \/ fat' = fat
<1> SUFFICES ASSUME IInv, ChainInv, Cut, fat' # fat, NEW f \in Files, f # call.file
             PROVE  Clusters_of(f)' = Clusters_of(f)
  BY DEF OthersStay
<1> DEFINE st == call.cluster
           next == next_cluster(st)
           back == [call EXCEPT !.offset = call.from, !.from = 0]
<1>1. /\ call.pc = "cut" /\ call.cluster # FREE /\ dir' = dir
      /\ \/ /\ fat' = [fat EXCEPT ![st] = FREE]
            /\ Continue([back EXCEPT !.pc = "wipe", !.st = next, !.cluster = FREE, !.start = FREE])
         \/ /\ fat' = [fat EXCEPT ![st] = LAST]
            /\ Continue([back EXCEPT !.pc = "wipe", !.st = next])
  BY DEF Cut, There
<1>2. call.op = "cut" /\ call \in CallType /\ fat \in FatType
  BY <1>1, OpAtPc DEF IInv, FatSide
<1>3. back \in CallType /\ back.file = call.file
  <2>1. 0 \in Offsets
    BY FatConstants DEF Offsets
  <2> QED
    BY <1>2, <2>1 DEF CallType
<1> HIDE DEF back, next
<1>4. call'.file = call.file /\ sft' = sft
  BY <1>1, <1>3 DEF CallType, Continue
<1>5. ASSUME NEW n, NEW d, Reaches(fat, Head(f), n, d) PROVE fat'[d] = fat[d]
  <2>1. d \in Clusters /\ d # st
    BY <1>1, <1>2, <1>5, ReachedByOther
  <2> QED
    BY <1>1, <1>2, <2>1 DEF FatType
<1> QED
  BY <1>1, <1>4, <1>5, OtherHead, Untouched

\* Only these steps and losses change the FAT.
LEMMA FatChanges ==
  [Next]_vars /\ fat' # fat => WipeCluster \/ Extend \/ ExtendFails \/ Cut \/ lost'
<1> SUFFICES ASSUME [Next]_vars, fat' # fat
             PROVE  WipeCluster \/ Extend \/ ExtendFails \/ Cut \/ lost'
  OBVIOUS
<1>1. CASE Program
  BY <1>1 DEF Program, Create, Truncate, Open, Delete, Commit, Close, Update, Seek, Read, Write,
     DosFree
<1>2. CASE Kernel
  BY <1>2 DEF Kernel, WipeEnds, MapRestart, MapFollow, MapFails, Extended, Finish, Position,
     FirstCluster, AnotherCluster, Transfer, TransferFails, Shrink, CutFails
<1>3. CASE Losses
  BY <1>3, LossesLose
<1>4. CASE UNCHANGED vars
  BY <1>4 DEF vars
<1> QED
  BY <1>1, <1>2, <1>3, <1>4 DEF Next

\* A call on a file changes the chain of no other one: not when it allocates,
\* cuts off or frees clusters, and not when an access to the FAT fails in
\* between.  Behind a loss it may, for then chains can meet.
THEOREM OtherFilesUntouched == Spec => OthersUntouched
<1> DEFINE A == fat' # fat /\ ~lost' =>
                  \A f \in Files \ {call.file} : Clusters_of(f)' = Clusters_of(f)
<1>1. (lost \/ (IInv /\ ChainInv)) /\ [Next]_vars => A
  BY FatChanges, LossStays, WipeClusterApart, ExtendApart, ExtendFailsApart, CutApart
     DEF OthersStay
<1>2. Spec => [][A]_vars
  BY <1>1, ChainsHold, PTL DEF Spec
<1> QED
  BY <1>2 DEF OthersUntouched
=============================================================================
