---------------------------- MODULE FatFsProofs ----------------------------
(***************************************************************************)
(* Theorems about FatFs.                                                   *)
(*                                                                         *)
(* The invariant says how the copies of a start that a call, the SFTs and  *)
(* the directory keep depend on each other (SftInv, CallInv), so that each *)
(* file has one head, and that the FAT is sound for these heads and for    *)
(* the rest of a chain that is being wiped out (Sound).  It is stated of   *)
(* values, not of variables, so that a step is two applications of it.     *)
(***************************************************************************)
EXTENDS FatFs, FiniteSetTheorems, NaturalsInduction, WellFoundedInduction, TLAPS

SftType ==
  [file : Files \cup {NoFile}, writes : BOOLEAN, clean : BOOLEAN, start : Pointers,
   size : Offsets, offset : Offsets, cluster : Pointers, rel : Nat]
CallType ==
  [pc : Pcs, op : Ops, s : {NoSft} \cup Sfts, file : Files \cup {NoFile},
   clean : BOOLEAN, start : Pointers, size : Offsets, offset : Offsets,
   cluster : Pointers, rel : Nat, left : Nat,
   from : Offsets, st : Pointers \cup {LAST}]
SftsType == [Sfts -> SftType]
DirType == [used : BOOLEAN, start : Pointers, size : Offsets]
FatType == [Clusters -> Pointers \cup {LAST}]

\* The cursor of an instance or a call that writes.
AtCursor(r) == (r.cluster = FREE <=> r.start = FREE) /\ (r.rel = 0 => r.cluster = r.start)

Writer(S, s, f) == s \in Sfts /\ S[s].file = f /\ S[s].writes

OneWriter(S) == \A s, t \in Sfts, f \in Files : Writer(S, s, f) /\ Writer(S, t, f) => s = t

\* The SFTs S and the directory D.
SftInv(S, D) ==
  /\ OneWriter(S)
  /\ \A s \in Sfts :
       /\ S[s].file = NoFile => S[s] = Closed
       /\ S[s].file # NoFile => D[S[s].file].used
       /\ ~S[s].clean => S[s].writes
       /\ S[s].writes => AtCursor(S[s])
       /\ S[s].writes /\ S[s].clean => D[S[s].file].start = S[s].start

\* What a call c that writes has left of the SFT it began with.
WriteInv(c, S) ==
  /\ c.pc \in {"extend", "head", "map", "run", "data", "cut", "wipe"}
  /\ c.op = "write" => c.pc \notin {"cut", "wipe"}
  /\ c.op = "cut" => c.pc \notin {"map", "run", "data"}
  /\ Writer(S, c.s, c.file) /\ c.file \in Files
  /\ ~c.clean /\ AtCursor(c)
  /\ c.pc # "wipe" => S[c.s].start \in {c.start, FREE}

ReadInv(c, S) ==
  /\ c.pc \in {"head", "map", "run", "data"}
  /\ c.s \in Sfts /\ c.file \in Files /\ S[c.s].file = c.file
  /\ c.start = S[c.s].start /\ c.clean = S[c.s].clean
  /\ S[c.s].writes => AtCursor(c)

CreateInv(c, S, D) ==
  /\ c.pc = "wipe" /\ c.s \in Sfts /\ c.file \in Files
  /\ S[c.s] = Closed /\ D[c.file].used
  /\ \A s \in Sfts : ~Writer(S, s, c.file)

DeleteInv(c, S, D) ==
  /\ c.pc = "wipe" /\ c.file \in Files /\ D[c.file].used
  /\ \A s \in Sfts : S[s].file # c.file

\* How far a transfer goes.
BoundsInv(c) ==
  /\ c.op \in {"write", "cut"} /\ c.pc \in {"extend", "head", "map"} => c.offset + c.left <= MaxOffset
  /\ c.op = "read" /\ c.pc = "map" => c.offset < c.size
  /\ c.pc \in {"run", "data"} => c.from <= c.offset /\ c.offset <= Wanted(c) /\ Wanted(c) <= MaxOffset
  /\ c.pc = "run" => c.offset < Wanted(c)
  /\ c.pc = "cut" => c.size = c.from
                     /\ c.offset = IF c.from = 0 THEN 0 ELSE c.from - 1

CallInv(c, S, D) ==
  /\ c.op = "none" => c = Idle
  /\ c.op # "none" => c.pc # "idle"
  /\ c.op \in {"write", "cut"} => WriteInv(c, S)
  /\ c.op = "read" => ReadInv(c, S)
  /\ c.op = "create" => CreateInv(c, S, D)
  /\ c.op = "delete" => DeleteInv(c, S, D)
  /\ BoundsInv(c)

\* A FAT F is sound for the heads H and the rest r of a chain.
Sound(F, H, r) ==
  /\ \A c, d \in Clusters : F[c] = F[d] /\ F[c] \in Clusters => c = d
  /\ \A f, g \in Files : H[f] = H[g] /\ H[f] \in Clusters => f = g
  /\ \A f \in Files, c \in Clusters : H[f] = F[c] => H[f] \notin Clusters
  /\ r \in Clusters => /\ \A f \in Files : H[f] # r
                       /\ \A c \in Clusters : F[c] # r
  /\ \A c \in Clusters : F[c] \in Clusters => F[F[c]] # FREE
  /\ \A f \in Files : H[f] \in Clusters => F[H[f]] # FREE
  /\ r \in Clusters => F[r] # FREE

Heads == [f \in Files |-> Head(f)]

CallSide ==
  /\ dir \in [Files -> DirType] /\ sft \in SftsType /\ call \in CallType
  /\ SftInv(sft, dir) /\ CallInv(call, sft, dir)

FatSide ==
  /\ fat \in FatType /\ hint \in Pointers /\ nfree \in 0 .. UNKNCLSTFREE /\ failed \in BOOLEAN
  /\ Sound(fat, Heads, Rest)
  /\ FreeCountExact

IInv == CallSide /\ FatSide

-----------------------------------------------------------------------------
(* What the steps do to a sound FAT.                                       *)

LEMMA Numbers ==
  /\ FREE \notin Clusters /\ LAST \notin Clusters /\ ERROR \notin Clusters
  /\ FREE # LAST /\ FREE # ERROR /\ LAST # ERROR
  /\ \A c \in Clusters : c > 1 /\ c \in Int
  /\ LAST > 1 /\ ~(ERROR > 1) /\ ~(FREE > 1)
BY FatConstants DEF FREE, LAST, ERROR, Clusters

HeadsType == [Files -> Pointers]

\* Some files lose their chains.
LEMMA ForgetKeeps ==
  ASSUME NEW F \in FatType, NEW H \in HeadsType, NEW r, Sound(F, H, r),
         NEW G \in HeadsType, \A f \in Files : G[f] \in {H[f], FREE},
         NEW q \in {r, FREE, LAST}
  PROVE  Sound(F, G, q)
BY Numbers DEF Sound, FatType, HeadsType

\* The chain of a file is what is to be wiped out.
LEMMA TakeKeeps ==
  ASSUME NEW F \in FatType, NEW H \in HeadsType, NEW r, Sound(F, H, r),
         NEW G \in HeadsType, NEW h \in Files,
         G[h] = FREE, \A f \in Files \ {h} : G[f] = H[f]
  PROVE  Sound(F, G, H[h])
BY Numbers DEF Sound, FatType, HeadsType

\* The rest of a chain loses its first cluster.
LEMMA WipeKeeps ==
  ASSUME NEW F \in FatType, NEW H \in HeadsType, NEW r \in Clusters, Sound(F, H, r)
  PROVE  Sound([F EXCEPT ![r] = FREE], H, F[r])
BY Numbers DEF Sound, FatType, HeadsType

\* A free cluster becomes a chain that nobody knows.
LEMMA MarkKeeps ==
  ASSUME NEW F \in FatType, NEW H \in HeadsType, NEW r, Sound(F, H, r),
         NEW c \in Clusters, F[c] = FREE
  PROVE  Sound([F EXCEPT ![c] = LAST], H, r)
BY Numbers DEF Sound, FatType, HeadsType

\* extend, 1a
LEMMA StartKeeps ==
  ASSUME NEW F \in FatType, NEW H \in HeadsType, Sound(F, H, FREE),
         NEW c \in Clusters, F[c] = FREE, NEW h \in Files, NEW G \in HeadsType,
         G[h] = c, \A f \in Files \ {h} : G[f] = H[f]
  PROVE  Sound([F EXCEPT ![c] = LAST], G, FREE)
BY Numbers DEF Sound, FatType, HeadsType

\* extend, 1b
LEMMA LinkKeeps ==
  ASSUME NEW F \in FatType, NEW H \in HeadsType, Sound(F, H, FREE),
         NEW c \in Clusters, F[c] = FREE, NEW d \in Clusters, F[d] = LAST
  PROVE  Sound([F EXCEPT ![c] = LAST, ![d] = c], H, FREE)
<1> DEFINE E == [F EXCEPT ![c] = LAST, ![d] = c]
<1>1. /\ E \in FatType /\ c # d
      /\ \A e \in Clusters : E[e] = IF e = d THEN c ELSE IF e = c THEN LAST ELSE F[e]
  BY Numbers DEF FatType, Pointers
<1>2. \A e \in Clusters : F[e] # c
  BY DEF Sound
<1>3. \A f \in Files : H[f] # c
  BY DEF Sound
<1> HIDE DEF E
<1>4. Sound(E, H, FREE)
  BY <1>1, <1>2, <1>3, Numbers DEF Sound, HeadsType
<1> QED
  BY <1>4 DEF E

\* shrink_file: all of a chain, or what is behind a cluster
LEMMA CutAllKeeps ==
  ASSUME NEW F \in FatType, NEW H \in HeadsType, Sound(F, H, FREE), NEW h \in Files,
         NEW G \in HeadsType, G[h] = FREE, \A f \in Files \ {h} : G[f] = H[f],
         H[h] \in Clusters
  PROVE  Sound([F EXCEPT ![H[h]] = FREE], G, F[H[h]])
BY Numbers DEF Sound, FatType, HeadsType

LEMMA CutKeeps ==
  ASSUME NEW F \in FatType, NEW H \in HeadsType, Sound(F, H, FREE),
         NEW d \in Clusters, F[d] # FREE
  PROVE  Sound([F EXCEPT ![d] = LAST], H, F[d])
BY Numbers DEF Sound, FatType, HeadsType

-----------------------------------------------------------------------------
(* Where a file begins.                                                    *)

\* h is the head of f.
HeadIs(S, D, c, f, h) ==
  /\ c.file = f /\ c.op \in {"create", "delete"} => h = FREE
  /\ c.file = f /\ c.op \in {"write", "cut"} => h = c.start
  /\ ~(c.file = f /\ c.op \in {"create", "delete", "write", "cut"}) =>
       /\ \A s \in Sfts : Writer(S, s, f) => h = S[s].start
       /\ (\A s \in Sfts : ~Writer(S, s, f)) => h = D[f].start

LEMMA HeadOfFile ==
  ASSUME OneWriter(sft), NEW f \in Files
  PROVE  HeadIs(sft, dir, call, f, Head(f))
<1>1. ASSUME NEW s \in Sfts, Writer(sft, s, f) PROVE Collected(f) = sft[s]
  <2>1. s \in Writing(f)
    BY <1>1 DEF Writer, Writing, Using
  <2>2. \A t \in Writing(f) : t = s
    BY <1>1 DEF OneWriter, Writer, Writing, Using
  <2> QED
    BY <2>1, <2>2 DEF Collected
<1>2. (\A s \in Sfts : ~Writer(sft, s, f)) => Collected(f) = dir[f]
  BY DEF Collected, Writer, Writing, Using
<1>3. NoEntry.start = FREE
  BY DEF NoEntry
<1> QED
  BY <1>1, <1>2, <1>3 DEF HeadIs, Head, Current

\* After a step the head is what HeadIs says.
LEMMA HeadAfter ==
  ASSUME OneWriter(sft'), NEW f \in Files, NEW h, HeadIs(sft', dir', call', f, h)
  PROVE  Head(f)' = h
<1>1. ASSUME NEW s \in Sfts, Writer(sft', s, f) PROVE Collected(f)' = sft'[s]
  <2>1. s \in Writing(f)'
    BY <1>1 DEF Writer, Writing, Using
  <2>2. \A t \in Writing(f)' : t = s
    BY <1>1 DEF OneWriter, Writer, Writing, Using
  <2> QED
    BY <2>1, <2>2 DEF Collected
<1>2. (\A s \in Sfts : ~Writer(sft', s, f)) => Collected(f)' = dir'[f]
  BY DEF Collected, Writer, Writing, Using
<1>3. NoEntry.start = FREE
  BY DEF NoEntry
<1> QED
  BY <1>1, <1>2, <1>3 DEF HeadIs, Head, Current

\* T differs from S in nothing that the invariant is about.
Alike(S, T) ==
  \A s \in Sfts :
    /\ T[s].file = S[s].file /\ T[s].writes = S[s].writes /\ T[s].clean = S[s].clean
    /\ S[s].file = NoFile => T[s] = S[s]
    /\ S[s].writes => /\ T[s].start = S[s].start
                      /\ T[s].cluster = S[s].cluster /\ T[s].rel = S[s].rel

LEMMA AlikeKeeps ==
  ASSUME NEW S, NEW T, NEW D, Alike(S, T)
  PROVE  /\ SftInv(S, D) => SftInv(T, D)
         /\ \A s \in Sfts : \A f : Writer(T, s, f) <=> Writer(S, s, f)
         /\ \A c : WriteInv(c, S) => WriteInv(c, T)
         /\ \A c, f, h : HeadIs(S, D, c, f, h) => HeadIs(T, D, c, f, h)
<1>1. \A s \in Sfts : \A f : Writer(T, s, f) <=> Writer(S, s, f)
  BY DEF Alike, Writer
<1>2. OneWriter(S) => OneWriter(T)
  BY <1>1 DEF OneWriter
<1>3. SftInv(S, D) => SftInv(T, D)
  BY <1>2 DEF SftInv, Alike, AtCursor
<1>4. \A c : WriteInv(c, S) => WriteInv(c, T)
  BY <1>1 DEF WriteInv, Alike, Writer
<1>5. \A c, f, h : HeadIs(S, D, c, f, h) => HeadIs(T, D, c, f, h)
  BY <1>1 DEF HeadIs, Alike, Writer
<1> QED
  BY <1>1, <1>3, <1>4, <1>5

\* merge_file_changes after a change by an instance that writes.
LEMMA MergedKeeps ==
  ASSUME NEW S \in SftsType, NEW c, c.start \in Pointers, c.size \in Offsets,
         c.file \in Files, OneWriter(S),
         c.s \in Sfts,
         \A s \in Sfts : s # c.s => ~Writer(S, s, c.file)
  PROVE  Merged(S, c) \in SftsType /\ Alike(S, Merged(S, c)) /\ Merged(S, c)[c.s] = S[c.s]
<1> DEFINE M == Merged(S, c)
<1>1. \A t \in Sfts : M[t] = IF t # c.s /\ S[t].file = c.file
                            THEN [S[t] EXCEPT !.start = c.start, !.size = c.size]
                            ELSE S[t]
  BY DEF Merged
<1>2. DOMAIN M = Sfts /\ M = [t \in Sfts |-> M[t]]
  BY DEF Merged
<1> HIDE DEF M
<1>3. \A t \in Sfts : S[t] \in SftType
  BY DEF SftsType
<1>4. \A t \in Sfts : M[t] \in SftType
  BY <1>1, <1>3 DEF SftType
<1>5. M \in SftsType
  BY <1>2, <1>4 DEF SftsType
<1>6. Alike(S, M)
  <2> SUFFICES ASSUME NEW t \in Sfts
               PROVE  /\ M[t].file = S[t].file /\ M[t].writes = S[t].writes
                      /\ M[t].clean = S[t].clean
                      /\ S[t].file = NoFile => M[t] = S[t]
                      /\ S[t].writes => /\ M[t].start = S[t].start
                                        /\ M[t].cluster = S[t].cluster
                                        /\ M[t].rel = S[t].rel
    BY DEF Alike
  <2>1. CASE t # c.s /\ S[t].file = c.file
    <3>1. ~S[t].writes /\ S[t].file # NoFile
      BY <2>1, FatConstants DEF Writer
    <3> QED
      BY <2>1, <3>1, <1>1, <1>3 DEF SftType
  <2>2. CASE ~(t # c.s /\ S[t].file = c.file)
    BY <2>2, <1>1
  <2> QED
    BY <2>1, <2>2
<1> QED
  BY <1>1, <1>5, <1>6 DEF M

\* The end of a call.
LEMMA ReturnKeeps ==
  ASSUME sft \in SftsType, SftInv(sft, dir), dir' = dir,
         NEW c \in CallType, Return(c),
         \/ c.op \in {"write", "cut"} /\ WriteInv(c, sft)
         \/ c.op = "read" /\ ReadInv(c, sft)
  PROVE  /\ call' = Idle /\ sft' \in SftsType /\ SftInv(sft', dir')
         /\ \A f \in Files : \A h : HeadIs(sft, dir, c, f, h) => HeadIs(sft', dir', call', f, h)
<1>0. c.s \in Sfts /\ sft[c.s].file = c.file /\ c.file \in Files /\ c.file # NoFile
  BY FatConstants DEF WriteInv, ReadInv, Writer
<1> DEFINE r == [sft[c.s] EXCEPT !.clean = c.clean, !.start = c.start, !.size = c.size,
                                 !.offset = c.offset, !.cluster = c.cluster, !.rel = c.rel]
<1>1. /\ sft' = [sft EXCEPT ![c.s] = r] /\ call' = Idle
  BY DEF Return, Stored
<1>2. sft[c.s] \in SftType
  BY <1>0 DEF SftsType
<1>3. /\ r \in SftType
      /\ r.file = c.file /\ r.writes = sft[c.s].writes /\ r.clean = c.clean
      /\ r.start = c.start /\ r.cluster = c.cluster /\ r.rel = c.rel
  BY <1>0, <1>2 DEF SftType, CallType
<1> HIDE DEF r
<1>4. \A s \in Sfts : sft'[s] = IF s = c.s THEN r ELSE sft[s]
  BY <1>1 DEF SftsType
<1>5. sft' \in SftsType
  BY <1>1, <1>3 DEF SftsType
<1>6. \A s \in Sfts : \A f : Writer(sft', s, f) <=> Writer(sft, s, f)
  BY <1>0, <1>3, <1>4 DEF Writer
<1>7. OneWriter(sft')
  BY <1>6 DEF OneWriter, SftInv
<1>8. /\ ~r.clean => r.writes
      /\ r.writes => AtCursor(r)
      /\ r.writes /\ r.clean => dir[r.file].start = r.start
      /\ dir[r.file].used
  <2>1. CASE c.op \in {"write", "cut"}
    BY <2>1, <1>0, <1>3 DEF WriteInv, Writer, AtCursor, SftInv
  <2>2. CASE c.op = "read"
    BY <2>2, <1>0, <1>3 DEF ReadInv, Writer, AtCursor, SftInv
  <2> QED
    BY <2>1, <2>2
<1>9. SftInv(sft', dir')
  BY <1>0, <1>3, <1>4, <1>7, <1>8 DEF SftInv
<1>10. ASSUME NEW f \in Files, NEW h, HeadIs(sft, dir, c, f, h)
       PROVE  HeadIs(sft', dir', call', f, h)
  <2>1. call'.file # f /\ call'.op = "none"
    BY <1>1, FatConstants DEF Idle
  <2>2. \A s \in Sfts : Writer(sft', s, f) => h = sft'[s].start
    <3> SUFFICES ASSUME NEW s \in Sfts, Writer(sft, s, f) PROVE h = sft'[s].start
      BY <1>6
    <3>1. CASE c.op \in {"write", "cut"} /\ c.file = f
      <4>1. h = c.start
        BY <3>1, <1>10 DEF HeadIs
      <4>2. WriteInv(c, sft)
        BY <3>1
      <4>3. s = c.s
        BY <4>2, <3>1, <1>0 DEF WriteInv, SftInv, OneWriter
      <4> QED
        BY <4>1, <4>3, <1>3, <1>4
    <3>2. CASE c.op = "read" \/ c.file # f
      <4>1. h = sft[s].start
        BY <3>2, <1>10 DEF HeadIs
      <4>2. s = c.s => sft'[s].start = sft[s].start
        BY <3>2, <1>0, <1>3, <1>4 DEF ReadInv, Writer
      <4> QED
        BY <4>1, <4>2, <1>4
    <3> QED
      BY <3>1, <3>2
  <2>3. (\A s \in Sfts : ~Writer(sft', s, f)) => h = dir'[f].start
    <3> SUFFICES ASSUME \A s \in Sfts : ~Writer(sft, s, f) PROVE h = dir[f].start
      BY <1>6
    <3>1. c.op \in {"write", "cut"} => c.file # f
      BY <1>0 DEF WriteInv
    <3>2. c.op \notin {"create", "delete"}
      OBVIOUS
    <3> QED
      BY <3>1, <3>2, <1>10 DEF HeadIs
  <2> QED
    BY <2>1, <2>2, <2>3 DEF HeadIs
<1> QED
  BY <1>1, <1>5, <1>9, <1>10

-----------------------------------------------------------------------------
(* Steps that leave the FAT alone.                                         *)

HeadsOK == Heads \in HeadsType

LEMMA HeadsTyped == CallSide => HeadsOK
<1> SUFFICES ASSUME CallSide, NEW f \in Files PROVE Head(f) \in Pointers
  BY DEF HeadsOK, Heads, HeadsType
<1>1. HeadIs(sft, dir, call, f, Head(f))
  BY HeadOfFile DEF CallSide, SftInv
<1>2. call.start \in Pointers /\ FREE \in Pointers /\ dir[f].start \in Pointers
  BY DEF CallSide, CallType, DirType, Pointers
<1>3. \A s \in Sfts : sft[s].start \in Pointers
  BY DEF CallSide, SftsType, SftType
<1> QED
  BY <1>1, <1>2, <1>3 DEF HeadIs, Writer

LEMMA HeadsTypedAfter == CallSide' => HeadsOK'
BY HeadsTyped, PTL

\* Nothing happens to the FAT, and no file gets another chain.
LEMMA FatStays ==
  ASSUME IInv, CallSide', UNCHANGED <<fat, nfree>>, hint' \in Pointers,
         failed' \in BOOLEAN, failed => failed',
         \A f \in Files : Head(f)' \in {Head(f), FREE}, Rest' \in {Rest, FREE, LAST}
  PROVE  IInv'
<1>1. Heads \in HeadsType /\ Heads' \in HeadsType
  BY HeadsTyped, HeadsTypedAfter DEF HeadsOK, IInv
<1>2. Sound(fat, Heads', Rest')
  BY <1>1, ForgetKeeps DEF Heads, HeadsType, IInv, FatSide
<1>3. FreeCountExact'
  BY DEF IInv, FatSide, FreeCountExact, Free
<1> QED
  BY <1>2, <1>3 DEF IInv, FatSide

\* Between two calls.
LEMMA IdleSound == Idle \in CallType /\ \A S, D : CallInv(Idle, S, D)
BY FatConstants DEF Idle, CallType, CallInv, BoundsInv, Pcs, Ops, Pointers, Offsets, FREE

\* What a step of a call that reads or writes leaves as it was.
SameFile(c) ==
  /\ c.op = call.op /\ c.s = call.s /\ c.file = call.file
  /\ c.clean = call.clean /\ c.start = call.start

\* Where a call that reads or writes can be.
PcFits(c) ==
  /\ c.op = "read" => c.pc \in {"head", "map", "run", "data"}
  /\ c.op = "write" => c.pc \in {"extend", "head", "map", "run", "data"}
  /\ c.op = "cut" => c.pc \in {"extend", "head", "cut"}

\* A step within a call.
LEMMA MoveKeeps ==
  ASSUME IInv, NEW c \in CallType, call' = c, UNCHANGED dir,
         sft' \in SftsType, Alike(sft, sft'), call.op = "read" => sft' = sft,
         SameFile(c), call.op \in {"read", "write", "cut"}, call.pc # "wipe",
         PcFits(c),
         AtCursor(call) => AtCursor(c), BoundsInv(c)
  PROVE  CallSide' /\ Heads' = Heads /\ Rest' = Rest
<1>1. SftInv(sft', dir')
  BY AlikeKeeps DEF IInv, CallSide
<1>2. ASSUME c.op \in {"write", "cut"} PROVE WriteInv(c, sft')
  <2>1. WriteInv(call, sft)
    BY <1>2 DEF SameFile, IInv, CallSide, CallInv
  <2>2. WriteInv(c, sft)
    BY <2>1, <1>2 DEF WriteInv, SameFile, PcFits
  <2> QED
    BY <2>2, AlikeKeeps
<1>3. ASSUME c.op = "read" PROVE ReadInv(c, sft')
  <2>1. ReadInv(call, sft) /\ sft' = sft
    BY <1>3 DEF SameFile, IInv, CallSide, CallInv
  <2> QED
    BY <2>1, <1>3 DEF ReadInv, SameFile, PcFits
<1>4. CallInv(call', sft', dir')
  BY <1>2, <1>3 DEF CallInv, SameFile, PcFits
<1>5. CallSide'
  BY <1>1, <1>4 DEF CallSide, IInv
<1>6. ASSUME NEW f \in Files PROVE Head(f)' = Head(f)
  <2>1. HeadIs(sft, dir, call, f, Head(f))
    BY HeadOfFile DEF IInv, CallSide, SftInv
  <2>2. HeadIs(sft, dir, call', f, Head(f))
    BY <2>1 DEF HeadIs, SameFile
  <2>3. HeadIs(sft', dir', call', f, Head(f))
    BY <2>2, AlikeKeeps
  <2>4. OneWriter(sft')
    BY <1>1 DEF SftInv
  <2> QED
    BY <2>3, <2>4, HeadAfter
<1>7. Rest' = Rest
  <2>1. c.pc # "wipe"
    BY DEF SameFile, PcFits
  <2> QED
    BY <2>1 DEF Rest
<1> QED
  BY <1>5, <1>6, <1>7 DEF Heads

LEMMA HeadsAre ==
  /\ \A f \in Files : Heads[f] = Head(f) /\ Heads'[f] = Head(f)'
  /\ Heads' = Heads => \A f \in Files : Head(f)' = Head(f)
BY DEF Heads

LEMMA MoveQuietly ==
  ASSUME IInv, UNCHANGED <<fat, nfree>>, hint' \in Pointers,
         failed' \in BOOLEAN, failed => failed',
         CallSide', Heads' = Heads, Rest' \in {Rest, FREE, LAST}
  PROVE  IInv'
<1>1. \A f \in Files : Head(f)' = Head(f)
  <2> SUFFICES ASSUME NEW f \in Files PROVE Head(f)' = Head(f)
    OBVIOUS
  <2>1. Heads[f] = Head(f) /\ Heads'[f] = Head(f)'
    BY DEF Heads
  <2> QED
    BY <2>1
<1> QED
  BY <1>1, FatStays

\* The end of a call that reads or writes.
LEMMA ReturnEnds ==
  ASSUME IInv, NEW c \in CallType, Return(c), UNCHANGED dir,
         SameFile(c), c.pc = call.pc, call.op \in {"read", "write", "cut"},
         AtCursor(call) => AtCursor(c)
  PROVE  CallSide' /\ Heads' = Heads /\ Rest' = FREE
<1>1. \/ c.op \in {"write", "cut"} /\ WriteInv(c, sft)
      \/ c.op = "read" /\ ReadInv(c, sft)
  <2>1. CASE call.op \in {"write", "cut"}
    BY <2>1 DEF SameFile, IInv, CallSide, CallInv, WriteInv
  <2>2. CASE call.op = "read"
    BY <2>2 DEF SameFile, IInv, CallSide, CallInv, ReadInv
  <2> QED
    BY <2>1, <2>2
<1>2. /\ call' = Idle /\ sft' \in SftsType /\ SftInv(sft', dir')
      /\ \A f \in Files : \A h : HeadIs(sft, dir, c, f, h) => HeadIs(sft', dir', call', f, h)
  BY <1>1, ReturnKeeps DEF IInv, CallSide
<1>3. CallSide'
  BY <1>2, IdleSound DEF CallSide, IInv
<1>4. ASSUME NEW f \in Files PROVE Head(f)' = Head(f)
  <2>1. HeadIs(sft, dir, call, f, Head(f))
    BY HeadOfFile DEF IInv, CallSide, SftInv
  <2>2. HeadIs(sft, dir, c, f, Head(f))
    BY <2>1 DEF HeadIs, SameFile
  <2>3. OneWriter(sft')
    BY <1>2 DEF SftInv
  <2> QED
    BY <1>2, <2>2, <2>3, HeadAfter
<1>5. Rest' = FREE
  BY <1>2 DEF Rest, Idle
<1> QED
  BY <1>3, <1>4, <1>5 DEF Heads

\* shrink_file gives up: what its caller has changed in fnode[0] is gone.
LEMMA DropEnds ==
  ASSUME IInv, Drop, UNCHANGED dir, call.op = "cut", call.pc = "cut"
  PROVE  /\ CallSide' /\ Rest' = FREE
         /\ \A f \in Files : Head(f)' \in {Head(f), FREE}
         /\ \A f \in Files : f # call.file => Head(f)' = Head(f)
<1>1. call' = Idle /\ sft' = sft /\ dir' = dir
  BY DEF Drop
<1>2. CallSide'
  BY <1>1, IdleSound DEF CallSide, IInv
<1>3. WriteInv(call, sft) /\ sft[call.s].start \in {call.start, FREE}
  BY DEF IInv, CallSide, CallInv, WriteInv
<1>4. ASSUME NEW f \in Files
      PROVE  Head(f)' \in {Head(f), FREE} /\ (f # call.file => Head(f)' = Head(f))
  <2>1. HeadIs(sft, dir, call, f, Head(f)) /\ OneWriter(sft) /\ OneWriter(sft')
    BY <1>1, HeadOfFile DEF IInv, CallSide, SftInv
  <2>2. Idle.op = "none"
    BY DEF Idle
  <2>3. CASE call.file = f
    <3>1. Head(f) = call.start
      BY <2>1, <2>3 DEF HeadIs
    <3>2. \A s \in Sfts : Writer(sft, s, f) <=> s = call.s
      BY <1>3, <2>1, <2>3 DEF WriteInv, OneWriter, Writer
    <3>3. call.s \in Sfts /\ Writer(sft, call.s, f)
      BY <1>3, <2>3 DEF WriteInv, Writer
    <3>4. HeadIs(sft', dir', call', f, sft[call.s].start)
      BY <1>1, <2>2, <3>2, <3>3 DEF HeadIs
    <3>5. Head(f)' = sft[call.s].start
      BY <2>1, <3>4, HeadAfter
    <3> QED
      BY <1>3, <2>3, <3>1, <3>5
  <2>4. CASE call.file # f
    <3>1. HeadIs(sft', dir', call', f, Head(f))
      BY <1>1, <2>1, <2>2, <2>4 DEF HeadIs
    <3> QED
      BY <2>1, <2>4, <3>1, HeadAfter
  <2> QED
    BY <2>3, <2>4
<1>5. Rest' = FREE
  BY <1>1 DEF Rest, Idle
<1> QED
  BY <1>2, <1>4, <1>5

-----------------------------------------------------------------------------
(* Steps of the loops that read only.                                      *)

\* What is at work in each place.
LEMMA OpAtPc ==
  ASSUME IInv
  PROVE  /\ call \in CallType /\ call.op \in Ops /\ call.pc \in Pcs
         /\ call.pc = "head" => call.op \in {"read", "write", "cut"}
         /\ call.pc = "extend" => call.op \in {"write", "cut"}
         /\ call.pc \in {"map", "run", "data"} => call.op \in {"read", "write"}
         /\ call.pc = "cut" => call.op = "cut"
         /\ call.pc = "wipe" => call.op \in {"create", "delete", "cut"}
         /\ call.pc = "idle" => call = Idle
         /\ BoundsInv(call) /\ (call.pc # "wipe" => PcFits(call))
<1>1. call \in CallType /\ CallInv(call, sft, dir) /\ call.op \in Ops /\ call.pc \in Pcs
  BY DEF IInv, CallSide, CallType
<1>2. Idle.pc = "idle"
  BY DEF Idle
<1>3. /\ call.op = "none" => call = Idle
      /\ call.op # "none" => call.pc # "idle"
      /\ call.op = "read" => call.pc \in {"head", "map", "run", "data"}
      /\ call.op = "write" => call.pc \in {"extend", "head", "map", "run", "data"}
      /\ call.op = "cut" => call.pc \in {"extend", "head", "cut", "wipe"}
      /\ call.op = "create" => call.pc = "wipe"
      /\ call.op = "delete" => call.pc = "wipe"
      /\ BoundsInv(call)
  BY <1>1 DEF CallInv, WriteInv, ReadInv, CreateInv, DeleteInv
<1> QED
  BY <1>1, <1>2, <1>3 DEF Ops, PcFits

LEMMA AlikeItself == \A S : Alike(S, S)
BY DEF Alike

LEMMA ClOf ==
  ASSUME NEW o \in Nat
  PROVE  Cl(o) \in Nat /\ o < ClusterSectors * (Cl(o) + 1) /\ ClusterSectors * (Cl(o) + 1) \in Nat
BY FatConstants DEF Cl

LEMMA ContinueKeeps ==
  ASSUME IInv, NEW c \in CallType, call' = c, UNCHANGED <<fat, dir, hint, nfree>>,
         failed' \in BOOLEAN, failed => failed',
         sft' \in SftsType, Alike(sft, sft'), call.op = "read" => sft' = sft,
         SameFile(c), call.op \in {"read", "write", "cut"}, call.pc # "wipe",
         PcFits(c), BoundsInv(c), AtCursor(call) => AtCursor(c)
  PROVE  IInv'
<1>1. CallSide' /\ Heads' = Heads /\ Rest' = Rest
  BY MoveKeeps
<1> QED
  BY <1>1, MoveQuietly DEF IInv, FatSide

\* SFTs that stay as they are.
LEMMA SftsStay == IInv => \A S : S = sft => S \in SftsType /\ Alike(sft, S)
BY DEF IInv, CallSide, Alike

LEMMA ReturnQuietly ==
  ASSUME IInv, NEW c \in CallType, Return(c), UNCHANGED <<fat, dir, hint, nfree>>,
         failed' \in BOOLEAN, failed => failed',
         SameFile(c), c.pc = call.pc, call.op \in {"read", "write", "cut"},
         AtCursor(call) => AtCursor(c)
  PROVE  IInv'
<1>1. CallSide' /\ Heads' = Heads /\ Rest' = FREE
  BY ReturnEnds
<1> QED
  BY <1>1, MoveQuietly DEF IInv, FatSide

LEMMA MapRestartKeeps == IInv /\ MapRestart => IInv'
<1> SUFFICES ASSUME IInv, MapRestart PROVE IInv'
  OBVIOUS
<1> DEFINE c == [call EXCEPT !.cluster = call.start, !.rel = 0]
<1>1. /\ c \in CallType /\ SameFile(c) /\ c.pc = call.pc /\ c.cluster = call.start /\ c.rel = 0
      /\ c.offset = call.offset /\ c.size = call.size /\ c.left = call.left /\ c.from = call.from
  BY OpAtPc DEF CallType, SameFile
<1>2. call' = c /\ sft' = sft /\ UNCHANGED <<fat, dir, hint, nfree, failed>>
  BY DEF MapRestart, Continue
<1> HIDE DEF c
<1>3. call.op \in {"read", "write", "cut"} /\ call.pc # "wipe" /\ PcFits(c)
  BY <1>1, OpAtPc DEF MapRestart, Mapping, SameFile, PcFits
<1>4. BoundsInv(c)
  BY <1>1, OpAtPc DEF BoundsInv, SameFile, Wanted
<1>5. AtCursor(c) /\ Alike(sft, sft') /\ sft' \in SftsType
  BY <1>1, <1>2, AlikeItself DEF AtCursor, SameFile, IInv, CallSide
<1> QED
  BY <1>1, <1>2, <1>3, <1>4, <1>5, ContinueKeeps DEF IInv, FatSide

LEMMA MapFollowKeeps == IInv /\ MapFollow => IInv'
<1> SUFFICES ASSUME IInv, MapFollow PROVE IInv'
  OBVIOUS
<1> DEFINE next == next_cluster(call.cluster)
           rel == call.rel + 1
           c == [call EXCEPT !.cluster = next, !.rel = rel]
<1>1. next \in Clusters /\ next # FREE /\ call.cluster # FREE
  BY Numbers DEF MapFollow, Ahead
<1>2. call' = [call EXCEPT !.cluster = next_cluster(@), !.rel = @ + 1]
      /\ UNCHANGED <<fat, dir, sft, hint, nfree, failed>>
  BY DEF MapFollow, Continue
<1>3. call' = c
  BY <1>2
<1>4. call \in CallType /\ rel \in Nat /\ rel # 0
  BY OpAtPc DEF CallType
<1> HIDE DEF next, rel
<1>5. /\ c \in CallType /\ SameFile(c) /\ c.pc = call.pc /\ c.cluster = next /\ c.rel = rel
      /\ c.offset = call.offset /\ c.size = call.size /\ c.left = call.left /\ c.from = call.from
  BY <1>1, <1>4 DEF CallType, SameFile, Pointers
<1> HIDE DEF c
<1>6. call.op \in {"read", "write", "cut"} /\ call.pc # "wipe" /\ PcFits(c)
  BY <1>5, OpAtPc DEF MapFollow, Mapping, SameFile, PcFits
<1>7. BoundsInv(c)
  BY <1>5, OpAtPc DEF BoundsInv, SameFile, Wanted
<1>8. AtCursor(call) => AtCursor(c)
  BY <1>1, <1>4, <1>5 DEF AtCursor, SameFile
<1> QED
  BY <1>2, <1>3, <1>5, <1>6, <1>7, <1>8, SftsStay, ContinueKeeps DEF IInv, FatSide

LEMMA PositionKeeps == IInv /\ Position => IInv'
<1> SUFFICES ASSUME IInv, Position PROVE IInv'
  OBVIOUS
<1> DEFINE c == [call EXCEPT !.pc = "map"]
<1>1. call' = c /\ UNCHANGED <<fat, dir, sft, hint, nfree, failed>>
  BY DEF Position, Continue
<1>2. /\ c \in CallType /\ SameFile(c) /\ c.pc = "map" /\ c.cluster = call.cluster /\ c.rel = call.rel
      /\ c.offset = call.offset /\ c.size = call.size /\ c.left = call.left /\ c.from = call.from
  BY OpAtPc DEF CallType, SameFile, Pcs
<1> HIDE DEF c
<1>3. call.op \in {"read", "write"} /\ call.pc = "head" /\ PcFits(c)
  BY <1>2, OpAtPc DEF Position, SameFile, PcFits
<1>4. BoundsInv(c)
  BY <1>2, <1>3, OpAtPc DEF BoundsInv, SameFile, Wanted, Position
<1>5. AtCursor(call) => AtCursor(c)
  BY <1>2 DEF AtCursor, SameFile
<1> QED
  BY <1>1, <1>2, <1>3, <1>4, <1>5, SftsStay, ContinueKeeps DEF IInv, FatSide

LEMMA FinishKeeps == IInv /\ Finish => IInv'
<1> SUFFICES ASSUME IInv, Finish PROVE IInv'
  OBVIOUS
<1>1. Return(call) /\ UNCHANGED <<fat, dir, hint, nfree, failed>> /\ call.pc = "head"
  BY DEF Finish
<1>2. call \in CallType /\ call.op \in {"read", "write", "cut"} /\ SameFile(call)
  BY <1>1, OpAtPc DEF SameFile
<1> QED
  BY <1>1, <1>2, ReturnQuietly DEF IInv, FatSide

LEMMA TransferFailsKeeps == IInv /\ TransferFails => IInv'
<1> SUFFICES ASSUME IInv, TransferFails PROVE IInv'
  OBVIOUS
<1> DEFINE c == [call EXCEPT !.offset = call.from]
<1>1. Return(c) /\ UNCHANGED <<fat, dir, hint, nfree, failed>> /\ call.pc = "data"
  BY DEF TransferFails
<1>2. c \in CallType /\ SameFile(c) /\ c.pc = call.pc /\ c.cluster = call.cluster /\ c.rel = call.rel
  BY OpAtPc DEF CallType, SameFile
<1> HIDE DEF c
<1>3. call.op \in {"read", "write", "cut"} /\ (AtCursor(call) => AtCursor(c))
  BY <1>1, <1>2, OpAtPc DEF SameFile, AtCursor
<1> QED
  BY <1>1, <1>2, <1>3, ReturnQuietly DEF IInv, FatSide

\* A transfer goes on to the end of a cluster at most.
IsTaken(c, t) ==
  /\ t \in CallType /\ t.pc \in {"run", "data"}
  /\ t.op = c.op /\ t.s = c.s /\ t.file = c.file /\ t.clean = c.clean /\ t.start = c.start
  /\ t.size = c.size /\ t.cluster = c.cluster /\ t.rel = c.rel
  /\ t.left = c.left /\ t.from = c.from
  /\ t.from <= t.offset /\ t.offset <= Wanted(t) /\ Wanted(t) <= MaxOffset
  /\ t.pc = "run" => t.offset < Wanted(t)

LEMMA TakenBounds ==
  ASSUME NEW c \in CallType, c.from <= c.offset, c.offset <= Wanted(c), Wanted(c) <= MaxOffset
  PROVE  IsTaken(c, Taken(c))
<1> DEFINE far == ClusterSectors * (Cl(c.offset) + 1)
           want == Wanted(c)
           end == Smaller(far, want)
           pc == IF end < want THEN "run" ELSE "data"
           t == [c EXCEPT !.offset = end, !.pc = pc]
<1>1. /\ c.offset \in Nat /\ c.from \in Nat /\ c.left \in Nat /\ c.size \in Nat
      /\ MaxOffset \in Nat
  BY FatConstants DEF CallType, Offsets
<1>2. far \in Nat /\ c.offset < far
  BY <1>1, ClOf
<1>3. want \in Int
  BY <1>1 DEF Wanted, Smaller
<1>4. Taken(c) = t
  BY DEF Taken
<1> HIDE DEF far
<1>5. want <= MaxOffset /\ c.offset <= want
  OBVIOUS
<1> HIDE DEF want
<1>6. /\ end \in Nat /\ c.from <= end /\ end <= want /\ end <= MaxOffset
      /\ end = want \/ end < want
  BY <1>1, <1>2, <1>3, <1>5 DEF Smaller
<1>7. end \in Offsets /\ pc \in {"run", "data"} /\ (pc = "run" => end < want)
  BY <1>1, <1>6 DEF Offsets
<1> HIDE DEF end, pc
<1>8. /\ t \in CallType /\ t.pc = pc /\ t.offset = end
      /\ t.op = c.op /\ t.s = c.s /\ t.file = c.file /\ t.clean = c.clean /\ t.start = c.start
      /\ t.size = c.size /\ t.cluster = c.cluster /\ t.rel = c.rel
      /\ t.left = c.left /\ t.from = c.from
  BY <1>7 DEF CallType, Pcs
<1> HIDE DEF t
<1>9. Wanted(t) = want
  BY <1>8 DEF Wanted, want
<1>10. IsTaken(c, t)
  BY <1>5, <1>6, <1>7, <1>8, <1>9 DEF IsTaken
<1> QED
  BY <1>4, <1>10

\* A step that ends with a transfer.
LEMMA TakenFits ==
  ASSUME NEW c, NEW t, IsTaken(c, t), c.op \in {"read", "write"}
  PROVE  BoundsInv(t) /\ PcFits(t)
BY DEF IsTaken, BoundsInv, PcFits

LEMMA AnotherClusterKeeps == IInv /\ AnotherCluster => IInv'
<1> SUFFICES ASSUME IInv, AnotherCluster PROVE IInv'
  OBVIOUS
<1>1. call \in CallType /\ call.op \in {"read", "write"} /\ call.pc = "run" /\ BoundsInv(call)
  BY OpAtPc DEF AnotherCluster
<1>2. PICK c : /\ call' = c
               /\ c = IF call.cluster = call.st + call.rel - Cl(call.from)
                      THEN Taken(call) ELSE [call EXCEPT !.pc = "data"]
  BY DEF AnotherCluster, Continue
<1>3. call.from <= call.offset /\ call.offset <= Wanted(call) /\ Wanted(call) <= MaxOffset
  BY <1>1 DEF BoundsInv
<1>4. /\ c \in CallType /\ SameFile(c) /\ c.cluster = call.cluster /\ c.rel = call.rel
      /\ BoundsInv(c) /\ PcFits(c)
  <2>1. CASE c = Taken(call)
    <3>1. IsTaken(call, c)
      BY <1>1, <1>3, <2>1, TakenBounds
    <3> QED
      BY <1>1, <3>1, TakenFits DEF IsTaken, SameFile
  <2>2. CASE c = [call EXCEPT !.pc = "data"]
    <3>1. /\ c \in CallType /\ SameFile(c) /\ c.cluster = call.cluster /\ c.rel = call.rel
          /\ c.pc = "data" /\ c.from = call.from /\ c.offset = call.offset
          /\ c.left = call.left /\ c.size = call.size
      BY <1>1, <2>2 DEF CallType, SameFile, Pcs
    <3>2. Wanted(c) = Wanted(call)
      BY <3>1 DEF Wanted, SameFile
    <3> QED
      BY <1>1, <1>3, <3>1, <3>2 DEF BoundsInv, PcFits, SameFile
  <2> QED
    BY <1>2, <2>1, <2>2
<1>5. AtCursor(call) => AtCursor(c)
  BY <1>4 DEF AtCursor, SameFile
<1>6. UNCHANGED <<fat, dir, sft, hint, nfree, failed>>
  BY DEF AnotherCluster, Continue
<1> QED
  BY <1>1, <1>2, <1>4, <1>5, <1>6, SftsStay, ContinueKeeps DEF IInv, FatSide

LEMMA WriterMerges ==
  ASSUME IInv, call.op \in {"write", "cut"}, NEW c \in CallType, SameFile(c)
  PROVE  Merged(sft, c) \in SftsType /\ Alike(sft, Merged(sft, c))
<1>1. Writer(sft, call.s, call.file) /\ call.file \in Files
  BY DEF IInv, CallSide, CallInv, WriteInv
<1>2. OneWriter(sft) /\ sft \in SftsType
  BY DEF IInv, CallSide, SftInv
<1>3. c.start \in Pointers /\ c.size \in Offsets
  BY DEF CallType
<1>4. c.s = call.s /\ c.file = call.file /\ c.s \in Sfts /\ c.file \in Files
  BY <1>1 DEF SameFile, Writer
<1>5. \A s \in Sfts : s # c.s => ~Writer(sft, s, c.file)
  BY <1>1, <1>2, <1>4 DEF OneWriter
<1> QED
  BY <1>2, <1>3, <1>4, <1>5, MergedKeeps

LEMMA FirstClusterKeeps == IInv /\ FirstCluster => IInv'
<1> SUFFICES ASSUME IInv, FirstCluster PROVE IInv'
  OBVIOUS
<1>1. call \in CallType /\ call.op \in {"read", "write"} /\ call.pc = "map" /\ BoundsInv(call)
  BY OpAtPc DEF FirstCluster
<1> DEFINE d == [call EXCEPT !.from = call.offset, !.st = call.cluster]
<1>2. call' = Taken(d)
  BY DEF FirstCluster
<1>3. /\ d \in CallType /\ SameFile(d) /\ d.cluster = call.cluster /\ d.rel = call.rel
      /\ d.from = call.offset /\ d.offset = call.offset /\ d.left = call.left /\ d.size = call.size
  BY <1>1 DEF CallType, SameFile
<1> HIDE DEF d
<1>4. /\ call.offset \in Nat /\ call.left \in Nat /\ call.size \in Nat /\ call.size <= MaxOffset
      /\ MaxOffset \in Nat
  BY <1>1, FatConstants DEF CallType, Offsets
<1>5. d.from <= d.offset /\ d.offset <= Wanted(d) /\ Wanted(d) <= MaxOffset
  <2>1. CASE call.op = "read"
    <3>1. call.offset < call.size
      BY <1>1, <2>1 DEF BoundsInv
    <3> QED
      BY <1>3, <1>4, <2>1, <3>1 DEF Wanted, Smaller, SameFile
  <2>2. CASE call.op = "write"
    <3>1. call.offset + call.left <= MaxOffset
      BY <1>1, <2>2 DEF BoundsInv
    <3> QED
      BY <1>3, <1>4, <2>2, <3>1 DEF Wanted, SameFile
  <2> QED
    BY <1>1, <2>1, <2>2
<1>6. IsTaken(d, call')
  BY <1>2, <1>3, <1>5, TakenBounds
<1>7. /\ call' \in CallType /\ SameFile(call') /\ BoundsInv(call') /\ PcFits(call')
      /\ call'.cluster = call.cluster /\ call'.rel = call.rel
  BY <1>1, <1>3, <1>6, TakenFits DEF IsTaken, SameFile
<1>8. AtCursor(call) => AtCursor(call')
  BY <1>7 DEF AtCursor, SameFile
<1>9. sft' \in SftsType /\ Alike(sft, sft') /\ (call.op = "read" => sft' = sft)
  <2>1. CASE call.op = "read"
    <3>1. sft' = sft
      BY <2>1 DEF FirstCluster
    <3> QED
      BY <3>1, SftsStay
  <2>2. CASE call.op = "write"
    <3>1. sft' = Merged(sft, call)
      BY <2>2 DEF FirstCluster
    <3>2. SameFile(call)
      BY DEF SameFile
    <3> QED
      BY <1>1, <2>2, <3>1, <3>2, WriterMerges
  <2> QED
    BY <1>1, <2>1, <2>2
<1>10. UNCHANGED <<fat, dir, hint, nfree, failed>>
  BY DEF FirstCluster
<1> QED
  BY <1>1, <1>7, <1>8, <1>9, <1>10, ContinueKeeps DEF IInv, FatSide

LEMMA ExtendedKeeps == IInv /\ Extended => IInv'
<1> SUFFICES ASSUME IInv, Extended PROVE IInv'
  OBVIOUS
<1>1. call \in CallType /\ call.op \in {"write", "cut"} /\ call.pc = "extend" /\ BoundsInv(call)
  BY OpAtPc DEF Extended
<1> DEFINE c == [call EXCEPT !.pc = "head", !.size = call.offset]
<1>2. call' = c /\ sft' = Merged(sft, c)
  BY DEF Extended
<1>3. /\ c \in CallType /\ SameFile(c) /\ c.pc = "head" /\ c.cluster = call.cluster /\ c.rel = call.rel
      /\ c.offset = call.offset /\ c.left = call.left /\ c.from = call.from
  BY <1>1 DEF CallType, SameFile, Pcs
<1> HIDE DEF c
<1>4. BoundsInv(c) /\ PcFits(c)
  BY <1>1, <1>3 DEF BoundsInv, PcFits, SameFile
<1>5. AtCursor(call) => AtCursor(c)
  BY <1>3 DEF AtCursor, SameFile
<1>6. sft' \in SftsType /\ Alike(sft, sft')
  BY <1>1, <1>2, <1>3, WriterMerges
<1>7. UNCHANGED <<fat, dir, hint, nfree, failed>>
  BY DEF Extended
<1> QED
  BY <1>1, <1>2, <1>3, <1>4, <1>5, <1>6, <1>7, ContinueKeeps DEF IInv, FatSide

LEMMA TransferKeeps == IInv /\ Transfer => IInv'
<1> SUFFICES ASSUME IInv, Transfer PROVE IInv'
  OBVIOUS
<1>1. call \in CallType /\ call.op \in {"read", "write"} /\ call.pc = "data" /\ BoundsInv(call)
  BY OpAtPc DEF Transfer
<1>2. /\ call.offset \in Nat /\ call.left \in Nat /\ call.size \in Nat /\ call.from \in Nat
      /\ call.from <= call.offset /\ call.offset <= Wanted(call) /\ Wanted(call) <= MaxOffset
  BY <1>1 DEF BoundsInv, CallType, Offsets
<1> DEFINE left == call.left - (call.offset - call.from)
           size == IF call.op = "write" /\ call.offset > call.size THEN call.offset ELSE call.size
           c == [call EXCEPT !.pc = "head", !.left = left, !.size = size]
           d == [c EXCEPT !.from = 0, !.st = FREE]
<1>3. call' = d /\ sft' = IF call.op = "write" THEN Merged(sft, c) ELSE sft
  BY DEF Transfer
<1>4. left \in Nat /\ call.offset + left = call.from + call.left
  BY <1>2 DEF Wanted, Smaller
<1>5. size \in Offsets
  BY <1>1 DEF CallType
<1> HIDE DEF left, size
<1>6. /\ c \in CallType /\ SameFile(c) /\ c.cluster = call.cluster /\ c.rel = call.rel
      /\ c.pc = "head" /\ c.offset = call.offset /\ c.left = left
  BY <1>1, <1>4, <1>5 DEF CallType, SameFile, Pcs
<1> HIDE DEF c
<1>7. 0 \in Offsets /\ FREE \in Pointers \cup {LAST}
  BY FatConstants DEF Offsets, Pointers
<1>8. /\ d \in CallType /\ SameFile(d) /\ d.cluster = call.cluster /\ d.rel = call.rel
      /\ d.pc = "head" /\ d.offset = call.offset /\ d.left = left
  BY <1>6, <1>7 DEF CallType, SameFile
<1> HIDE DEF d
<1>9. call.op = "write" => d.offset + d.left <= MaxOffset
  BY <1>2, <1>4, <1>8 DEF Wanted
<1>10. BoundsInv(d) /\ PcFits(d)
  BY <1>1, <1>8, <1>9 DEF BoundsInv, PcFits, SameFile
<1>11. AtCursor(call) => AtCursor(d)
  BY <1>8 DEF AtCursor, SameFile
<1>12. sft' \in SftsType /\ Alike(sft, sft') /\ (call.op = "read" => sft' = sft)
  <2>1. CASE call.op = "read"
    BY <1>3, <2>1, SftsStay
  <2>2. CASE call.op = "write"
    BY <1>3, <1>6, <2>2, WriterMerges
  <2> QED
    BY <1>1, <2>1, <2>2
<1>13. UNCHANGED <<fat, dir, hint, nfree, failed>>
  BY DEF Transfer
<1> QED
  BY <1>1, <1>3, <1>8, <1>10, <1>11, <1>12, <1>13, ContinueKeeps DEF IInv, FatSide

\* Shrink makes the size smaller, and looks for a cluster or leaves.
LEMMA ShrinkKeeps == IInv /\ Shrink => IInv'
<1> SUFFICES ASSUME IInv, Shrink PROVE IInv'
  OBVIOUS
<1>1. call \in CallType /\ call.op = "cut" /\ call.pc = "head" /\ BoundsInv(call)
  BY OpAtPc DEF Shrink
<1> DEFINE c == [call EXCEPT !.size = call.offset]
           back == IF c.offset = 0 THEN 0 ELSE c.offset - 1
           d == [c EXCEPT !.pc = "cut", !.from = c.offset, !.offset = back]
<1>2. \/ Return(c)
      \/ call' = d /\ sft' = sft
  BY DEF Shrink, Continue
<1>3. /\ c \in CallType /\ SameFile(c) /\ c.pc = "head" /\ c.cluster = call.cluster /\ c.rel = call.rel
      /\ c.offset = call.offset /\ c.size = call.offset
  BY <1>1 DEF CallType, SameFile
<1> HIDE DEF c
<1>4. UNCHANGED <<fat, dir, hint, nfree, failed>>
  BY DEF Shrink
<1>5. CASE Return(c)
  <2>1. AtCursor(call) => AtCursor(c)
    BY <1>3 DEF AtCursor, SameFile
  <2> QED
    BY <1>1, <1>3, <1>4, <1>5, <2>1, ReturnQuietly DEF IInv, FatSide
<1>6. CASE call' = d /\ sft' = sft
  <2>1. call.offset \in 0 .. MaxOffset /\ MaxOffset \in Nat
    BY <1>1, FatConstants DEF CallType, Offsets
  <2>2. back = IF call.offset = 0 THEN 0 ELSE call.offset - 1
    BY <1>3
  <2> HIDE DEF back
  <2>0. back \in Offsets
    BY <2>1, <2>2 DEF Offsets
  <2>3. /\ d \in CallType /\ SameFile(d) /\ d.pc = "cut" /\ d.cluster = call.cluster /\ d.rel = call.rel
        /\ d.offset = back /\ d.from = call.offset /\ d.size = call.offset
    BY <1>3, <2>0 DEF CallType, SameFile, Pcs
  <2> HIDE DEF d
  <2>4. BoundsInv(d) /\ PcFits(d)
    BY <1>1, <2>2, <2>3 DEF BoundsInv, PcFits, SameFile
  <2>5. AtCursor(call) => AtCursor(d)
    BY <2>3 DEF AtCursor, SameFile
  <2> QED
    BY <1>1, <1>4, <1>6, <2>3, <2>4, <2>5, SftsStay, ContinueKeeps DEF IInv, FatSide
<1> QED
  BY <1>2, <1>5, <1>6

\* What the callers of map_cluster do with an error changes no head but that
\* of a file that is cut.
LEMMA NotMappedEnds ==
  ASSUME IInv, Mapping, NotMapped, UNCHANGED dir
  PROVE  /\ CallSide' /\ Rest' = FREE
         /\ \A f \in Files : Head(f)' \in {Head(f), FREE}
         /\ call.pc # "cut" => Heads' = Heads
<1>1. Rest = FREE /\ call \in CallType
  BY OpAtPc DEF Mapping, Rest
<1>2. CASE call.pc \in {"extend", "map"} /\ Return(call)
  <2>1. SameFile(call) /\ call.op \in {"read", "write", "cut"}
    BY <1>2, OpAtPc DEF SameFile
  <2>2. CallSide' /\ Heads' = Heads /\ Rest' = FREE
    BY <1>1, <1>2, <2>1, ReturnEnds
  <2> QED
    BY <2>2, HeadsAre
<1>3. CASE call.pc = "run" /\ Continue([call EXCEPT !.pc = "data"])
  <2> DEFINE c == [call EXCEPT !.pc = "data"]
  <2>1. call' = c /\ sft' = sft
    BY <1>3 DEF Continue
  <2>2. /\ c \in CallType /\ SameFile(c) /\ c.cluster = call.cluster /\ c.rel = call.rel
        /\ c.pc = "data" /\ c.from = call.from /\ c.offset = call.offset
        /\ c.left = call.left /\ c.size = call.size
    BY <1>1 DEF CallType, SameFile, Pcs
  <2> HIDE DEF c
  <2>3. Wanted(c) = Wanted(call) /\ call.op \in {"read", "write"} /\ BoundsInv(call)
    BY <1>3, <2>2, OpAtPc DEF Wanted, SameFile
  <2>4. BoundsInv(c) /\ PcFits(c)
    BY <1>3, <2>2, <2>3 DEF BoundsInv, PcFits, SameFile
  <2>5. AtCursor(call) => AtCursor(c)
    BY <2>2 DEF AtCursor, SameFile
  <2>6. CallSide' /\ Heads' = Heads /\ Rest' = Rest
    BY <1>3, <2>1, <2>2, <2>3, <2>4, <2>5, SftsStay, MoveKeeps
  <2> QED
    BY <1>1, <2>6, HeadsAre
<1>4. CASE call.pc = "cut" /\ Drop
  BY <1>4, OpAtPc, DropEnds
<1> QED
  BY <1>2, <1>3, <1>4 DEF NotMapped

LEMMA MapFailsKeeps == IInv /\ MapFails => IInv'
<1> SUFFICES ASSUME IInv, MapFails PROVE IInv'
  OBVIOUS
<1>1. Mapping /\ NotMapped /\ UNCHANGED <<fat, dir, hint, nfree>> /\ (failed' = failed \/ failed' = TRUE)
  BY DEF MapFails, Fault
<1>2. /\ CallSide' /\ Rest' = FREE
      /\ \A f \in Files : Head(f)' \in {Head(f), FREE}
  BY <1>1, NotMappedEnds
<1>3. hint' \in Pointers /\ failed' \in BOOLEAN /\ (failed => failed')
  <2>1. hint \in Pointers /\ failed \in BOOLEAN
    BY DEF IInv, FatSide
  <2> QED
    BY <1>1, <2>1, Zenon
<1> QED
  BY <1>1, <1>2, <1>3, FatStays

LEMMA CutFailsKeeps == IInv /\ CutFails => IInv'
<1> SUFFICES ASSUME IInv, CutFails PROVE IInv'
  OBVIOUS
<1>1. /\ Drop /\ UNCHANGED <<fat, dir, hint, nfree>> /\ (failed' = failed \/ failed' = TRUE)
      /\ call.pc = "cut" /\ call.op = "cut"
  BY OpAtPc DEF CutFails, Fault
<1>2. /\ CallSide' /\ Rest' = FREE
      /\ \A f \in Files : Head(f)' \in {Head(f), FREE}
  BY <1>1, DropEnds
<1>3. hint' \in Pointers /\ failed' \in BOOLEAN /\ (failed => failed')
  <2>1. hint \in Pointers /\ failed \in BOOLEAN
    BY DEF IInv, FatSide
  <2> QED
    BY <1>1, <2>1, Zenon
<1> QED
  BY <1>1, <1>2, <1>3, FatStays

-----------------------------------------------------------------------------
(* Steps that begin a call.                                                *)

LEMMA ReadyIdle ==
  ASSUME IInv, Ready
  PROVE  /\ call = Idle /\ Rest = FREE
         /\ \A f \in Files : HeadIs(sft, dir, Idle, f, Head(f))
         /\ OneWriter(sft) /\ sft \in SftsType /\ SftInv(sft, dir)
         /\ \A s \in Sfts : sft[s] \in SftType
BY HeadOfFile DEF Ready, Rest, Idle, IInv, CallSide, SftInv, SftsType

LEMMA CallStarts ==
  ASSUME IInv, Ready, NEW c \in CallType, call' = c, CallInv(c, sft, dir),
         UNCHANGED <<fat, dir, sft, hint, nfree, failed>>, c.pc # "wipe",
         \A f \in Files : \A h : HeadIs(sft, dir, Idle, f, h) => HeadIs(sft, dir, c, f, h)
  PROVE  IInv' /\ Heads' = Heads /\ Rest' = Rest
<1>1. CallSide'
  BY DEF IInv, CallSide
<1>2. \A f \in Files : Head(f)' = Head(f)
  BY ReadyIdle, HeadAfter
<1>3. Rest' = FREE /\ Rest = FREE
  BY ReadyIdle DEF Rest
<1>4. IInv'
  BY <1>1, <1>2, <1>3, FatStays DEF IInv, FatSide
<1> QED
  BY <1>2, <1>3, <1>4 DEF Heads

\* sft_to_fnode, and what the call adds
Begun(s, p, o, n, k) == [FromSft(s) EXCEPT !.clean = k, !.left = n, !.op = o, !.pc = p]
BegunIs(c, s, p, o, n, k) ==
  /\ c \in CallType /\ c.pc = p /\ c.op = o /\ c.left = n /\ c.clean = k
  /\ c.s = s /\ c.file = sft[s].file /\ c.start = sft[s].start
  /\ c.size = sft[s].size /\ c.offset = sft[s].offset
  /\ c.cluster = sft[s].cluster /\ c.rel = sft[s].rel

LEMMA FromSftFields ==
  ASSUME sft \in SftsType, NEW s \in Sfts
  PROVE  /\ FromSft(s) \in CallType
         /\ FromSft(s).s = s /\ FromSft(s).file = sft[s].file /\ FromSft(s).start = sft[s].start
         /\ FromSft(s).size = sft[s].size /\ FromSft(s).offset = sft[s].offset
         /\ FromSft(s).cluster = sft[s].cluster /\ FromSft(s).rel = sft[s].rel
<1>1. sft[s] \in SftType
  BY DEF SftsType
<1>2. Idle \in CallType
  BY IdleSound
<1> QED
  BY <1>1, <1>2 DEF FromSft, CallType, SftType

LEMMA FromSftIs ==
  ASSUME sft \in SftsType, NEW s \in Sfts, NEW p \in Pcs, NEW o \in Ops, NEW n \in Nat, NEW k \in BOOLEAN
  PROVE  BegunIs(Begun(s, p, o, n, k), s, p, o, n, k)
<1> DEFINE d == FromSft(s)
<1>1. /\ d \in CallType /\ d.s = s /\ d.file = sft[s].file /\ d.start = sft[s].start
      /\ d.size = sft[s].size /\ d.offset = sft[s].offset
      /\ d.cluster = sft[s].cluster /\ d.rel = sft[s].rel
  BY FromSftFields
<1> HIDE DEF d
<1> DEFINE c == [d EXCEPT !.clean = k, !.left = n, !.op = o, !.pc = p]
<1>2. BegunIs(c, s, p, o, n, k)
  BY <1>1 DEF CallType, BegunIs
<1> QED
  BY <1>2 DEF d, Begun

LEMMA ReadBegins ==
  ASSUME sft \in SftsType, NEW s \in Sfts, NEW n \in ReadCounts, Read(s, n)
  PROVE  /\ Ready /\ sft[s].file # NoFile
         /\ UNCHANGED <<fat, dir, sft, hint, nfree, failed>>
         /\ BegunIs(call', s, "head", "read", n, sft[s].clean)
<1>1. Ready /\ sft[s].file # NoFile /\ UNCHANGED <<fat, dir, sft, hint, nfree, failed>>
      /\ call' = [FromSft(s) EXCEPT !.pc = "head", !.op = "read", !.left = n]
  BY DEF Read, Continue
<1>2. n \in Nat /\ "head" \in Pcs /\ "read" \in Ops /\ sft[s] \in SftType /\ sft[s].clean \in BOOLEAN
  BY FatConstants DEF Pcs, Ops, SftType, SftsType
<1> DEFINE c == [FromSft(s) EXCEPT !.clean = sft[s].clean, !.left = n, !.op = "read", !.pc = "head"]
<1>3. call' = c
  <2>1. Idle \in CallType
    BY IdleSound
  <2>2. FromSft(s).clean = sft[s].clean /\ FromSft(s) \in CallType
    BY <1>2, <2>1 DEF FromSft, CallType, SftType
  <2> QED
    BY <1>1, <2>2 DEF CallType
<1>4. c = Begun(s, "head", "read", n, sft[s].clean)
  BY DEF Begun
<1> HIDE DEF c
<1>5. BegunIs(c, s, "head", "read", n, sft[s].clean)
  BY <1>2, <1>4, FromSftIs
<1> QED
  BY <1>1, <1>3, <1>5

LEMMA ReadStarts ==
  ASSUME IInv, NEW s \in Sfts, NEW n \in ReadCounts, Read(s, n)
  PROVE  /\ IInv' /\ Heads' = Heads /\ Rest' = Rest
         /\ BegunIs(call', s, "head", "read", n, sft[s].clean)
<1> DEFINE c == call'
<1>1. /\ Ready /\ sft[s].file # NoFile /\ UNCHANGED <<fat, dir, sft, hint, nfree, failed>>
      /\ BegunIs(c, s, "head", "read", n, sft[s].clean)
  BY ReadBegins DEF IInv, CallSide
<1>2. sft[s] \in SftType
  BY <1>1, ReadyIdle
<1>4. /\ c \in CallType /\ c.pc = "head" /\ c.op = "read" /\ c.left = n /\ c.clean = sft[s].clean
      /\ c.s = s /\ c.file = sft[s].file /\ c.start = sft[s].start
      /\ c.cluster = sft[s].cluster /\ c.rel = sft[s].rel
  BY <1>1 DEF BegunIs
<1>5. ReadInv(c, sft)
  BY <1>1, <1>2, <1>4, ReadyIdle DEF ReadInv, SftInv, AtCursor, SftType
<1>6. CallInv(c, sft, dir)
  BY <1>4, <1>5 DEF CallInv, BoundsInv
<1>7. \A f \in Files : \A h : HeadIs(sft, dir, Idle, f, h) => HeadIs(sft, dir, c, f, h)
  BY <1>4 DEF HeadIs, Idle
<1> QED
  BY <1>1, <1>4, <1>6, <1>7, CallStarts

\* A write that begins behind the end of the file extends it first.
LEMMA WriteBegins ==
  ASSUME sft \in SftsType, NEW s \in Sfts, NEW n \in WriteCounts, Write(s, n)
  PROVE  /\ Ready /\ sft[s].file # NoFile /\ sft[s].writes /\ sft[s].offset + n <= MaxOffset
         /\ UNCHANGED <<fat, dir, sft, hint, nfree, failed>>
         /\ \E o \in {"cut", "write"}, p \in {"extend", "head"} :
              /\ BegunIs(call', s, p, o, n, FALSE)
              /\ p = "head" => ~(sft[s].offset > sft[s].size)
<1>1. /\ Ready /\ sft[s].file # NoFile /\ sft[s].writes /\ sft[s].offset + n <= MaxOffset
      /\ UNCHANGED <<fat, dir, sft, hint, nfree, failed>>
  BY DEF Write, Continue
<1> DEFINE o == IF n = 0 THEN "cut" ELSE "write"
           e == [FromSft(s) EXCEPT !.clean = FALSE, !.left = n, !.op = o]
           p == IF e.offset > e.size THEN "extend" ELSE "head"
           c == [FromSft(s) EXCEPT !.clean = FALSE, !.left = n, !.op = o, !.pc = p]
<1>2. call' = [e EXCEPT !.pc = p]
  BY DEF Write, Continue
<1>3. call' = c
  BY <1>2
<1>4. n \in Nat /\ p \in Pcs /\ o \in Ops
  BY FatConstants DEF Pcs, Ops
<1>5. p \in {"extend", "head"} /\ o \in {"cut", "write"}
  OBVIOUS
<1>6. p = "head" => ~(sft[s].offset > sft[s].size)
  <2>1. FromSft(s) \in CallType /\ FromSft(s).offset = sft[s].offset /\ FromSft(s).size = sft[s].size
    BY FromSftFields
  <2>2. e.offset = sft[s].offset /\ e.size = sft[s].size
    BY <2>1 DEF CallType
  <2> HIDE DEF e
  <2> QED
    BY <2>2
<1> HIDE DEF p, o, e
<1>7. c = Begun(s, p, o, n, FALSE)
  BY DEF Begun
<1> HIDE DEF c
<1>8. BegunIs(c, s, p, o, n, FALSE)
  BY <1>4, <1>7, FromSftIs, Zenon
<1> QED
  BY <1>1, <1>3, <1>5, <1>6, <1>8

LEMMA WriteStarts ==
  ASSUME IInv, NEW s \in Sfts, NEW n \in WriteCounts, Write(s, n)
  PROVE  /\ IInv' /\ Heads' = Heads /\ Rest' = Rest
         /\ \E o \in {"cut", "write"}, p \in {"extend", "head"} :
              /\ BegunIs(call', s, p, o, n, FALSE)
              /\ p = "head" => ~(sft[s].offset > sft[s].size)
<1> DEFINE c == call'
<1>1. /\ Ready /\ sft[s].file # NoFile /\ sft[s].writes /\ sft[s].offset + n <= MaxOffset
      /\ UNCHANGED <<fat, dir, sft, hint, nfree, failed>>
      /\ \E o \in {"cut", "write"}, p \in {"extend", "head"} :
           BegunIs(c, s, p, o, n, FALSE) /\ (p = "head" => ~(sft[s].offset > sft[s].size))
  BY WriteBegins DEF IInv, CallSide
<1>2. PICK o \in {"cut", "write"}, p \in {"extend", "head"} : BegunIs(c, s, p, o, n, FALSE)
  BY <1>1
<1>6. /\ c \in CallType /\ c.pc = p /\ c.op = o /\ c.left = n /\ c.clean = FALSE
      /\ c.s = s /\ c.file = sft[s].file /\ c.start = sft[s].start /\ c.offset = sft[s].offset
      /\ c.cluster = sft[s].cluster /\ c.rel = sft[s].rel
  BY <1>2 DEF BegunIs
<1>7. sft[s].file \in Files
  BY <1>1, ReadyIdle DEF SftType
<1>8. AtCursor(c)
  BY <1>1, <1>6, ReadyIdle DEF SftInv, AtCursor
<1>9. WriteInv(c, sft)
  BY <1>1, <1>6, <1>7, <1>8 DEF WriteInv, Writer
<1>10. BoundsInv(c)
  BY <1>1, <1>6 DEF BoundsInv
<1>11. CallInv(c, sft, dir)
  BY <1>6, <1>9, <1>10 DEF CallInv
<1>12. \A f \in Files : \A h : HeadIs(sft, dir, Idle, f, h) => HeadIs(sft, dir, c, f, h)
  <2> SUFFICES ASSUME NEW f \in Files, NEW h, HeadIs(sft, dir, Idle, f, h)
               PROVE  HeadIs(sft, dir, c, f, h)
    OBVIOUS
  <2>1. c.file = f => h = c.start
    BY <1>1, <1>6 DEF HeadIs, Idle, Writer
  <2> QED
    BY <1>6, <2>1 DEF HeadIs, Idle
<1>16. IInv' /\ Heads' = Heads /\ Rest' = Rest
  BY <1>1, <1>6, <1>11, <1>12, CallStarts
<1> QED
  BY <1>1, <1>16

-----------------------------------------------------------------------------
(* Steps that change SFTs between two calls.                               *)

LEMMA SftsChange ==
  ASSUME IInv, UNCHANGED <<fat, hint, nfree, failed>>, call' = Idle, Rest = FREE,
         dir' \in [Files -> DirType], sft' \in SftsType, SftInv(sft', dir'),
         \A f \in Files : HeadIs(sft', dir', Idle, f, Head(f))
  PROVE  IInv' /\ Heads' = Heads /\ Rest' = Rest
<1>1. CallSide'
  BY IdleSound DEF CallSide
<1>2. \A f \in Files : Head(f)' = Head(f)
  BY HeadAfter DEF SftInv
<1>3. Rest' = FREE
  BY DEF Rest, Idle
<1>4. IInv'
  BY <1>1, <1>2, <1>3, FatStays DEF IInv, FatSide
<1> QED
  BY <1>2, <1>3, <1>4 DEF Heads

LEMMA SeekKeeps ==
  ASSUME IInv, NEW s \in Sfts, NEW o \in SeekTo, Seek(s, o)
  PROVE  IInv' /\ Heads' = Heads /\ Rest' = Rest
<1>1. Ready /\ sft[s].file # NoFile /\ sft' = [sft EXCEPT ![s].offset = o]
      /\ UNCHANGED <<fat, dir, hint, nfree, call, failed>>
  BY DEF Seek
<1> DEFINE r == [sft[s] EXCEPT !.offset = o]
<1>2. sft' = [sft EXCEPT ![s] = r]
  BY <1>1
<1>3. o \in Offsets /\ sft[s] \in SftType
  BY <1>1, ReadyIdle, FatConstants DEF Offsets
<1>4. /\ r \in SftType /\ r.file = sft[s].file /\ r.writes = sft[s].writes /\ r.clean = sft[s].clean
      /\ r.start = sft[s].start /\ r.cluster = sft[s].cluster /\ r.rel = sft[s].rel
  BY <1>3 DEF SftType
<1> HIDE DEF r
<1>5. sft' \in SftsType /\ \A t \in Sfts : sft'[t] = IF t = s THEN r ELSE sft[t]
  BY <1>1, <1>2, <1>4, ReadyIdle DEF SftsType
<1>6. Alike(sft, sft')
  BY <1>1, <1>4, <1>5 DEF Alike
<1>7. SftInv(sft', dir')
  BY <1>1, <1>6, ReadyIdle, AlikeKeeps
<1>8. \A f \in Files : HeadIs(sft', dir', Idle, f, Head(f))
  BY <1>1, <1>6, ReadyIdle, AlikeKeeps
<1>9. dir' \in [Files -> DirType] /\ call' = Idle /\ Rest = FREE
  BY <1>1, ReadyIdle DEF IInv, CallSide
<1> QED
  BY <1>1, <1>5, <1>7, <1>8, <1>9, SftsChange

LEMMA NoWriters == \A f : Writing(f) = {} <=> \A s \in Sfts : ~Writer(sft, s, f)
BY DEF Writing, Using, Writer

\* An SFT of an opened file.
IsOpened(r, f, w, e) ==
  /\ r \in SftType /\ r.file = f /\ r.writes = w /\ r.clean
  /\ r.start = e.start /\ AtCursor(r)

LEMMA OpenedIs ==
  ASSUME NEW f \in Files, NEW w \in BOOLEAN, NEW e, e.start \in Pointers, e.size \in Offsets
  PROVE  IsOpened(Opened(f, w, e), f, w, e)
<1>1. Closed \in SftType
  BY FatConstants DEF Closed, SftType, Offsets, Pointers
<1>2. Closed.clean /\ Closed.rel = 0
  BY DEF Closed
<1> DEFINE r == Opened(f, w, e)
<1>3. /\ r \in SftType /\ r.file = f /\ r.writes = w /\ r.clean = Closed.clean
      /\ r.start = e.start /\ r.cluster = e.start
  BY <1>1 DEF Opened, SftType
<1> QED
  BY <1>2, <1>3 DEF AtCursor, IsOpened

LEMMA OpenKeeps ==
  ASSUME IInv, NEW s \in Sfts, NEW f \in Files, NEW w \in Modes, Open(s, f, w)
  PROVE  IInv' /\ Heads' = Heads /\ Rest' = Rest
<1> DEFINE e == Collected(f)
           r == Opened(f, w, e)
<1>1. /\ Ready /\ sft[s] = Closed /\ dir[f].used /\ Admitted(f, w)
      /\ sft' = [sft EXCEPT ![s] = r] /\ UNCHANGED <<fat, dir, hint, nfree, call, failed>>
  BY DEF Open
<1>2. \A t \in Sfts : sft[t] \in SftType
  BY <1>1, ReadyIdle
<1>3. e.start = Head(f)
  BY <1>1, ReadyIdle DEF Head, Current, Idle
<1>4. e.start \in Pointers /\ e.size \in Offsets
  <2>1. CASE Writing(f) = {}
    BY <2>1 DEF Collected, IInv, CallSide, DirType
  <2>2. CASE Writing(f) # {}
    <3>1. PICK t \in Sfts : e = sft[t]
      BY <2>2 DEF Collected, Writing, Using
    <3> QED
      BY <3>1, <1>2 DEF SftType
  <2> QED
    BY <2>1, <2>2
<1>5. w => e = dir[f] /\ \A t \in Sfts : ~Writer(sft, t, f)
  BY <1>1, NoWriters DEF Admitted, Collected
<1> HIDE DEF e
<1>6. /\ r \in SftType /\ r.file = f /\ (r.writes <=> w) /\ r.clean
      /\ r.start = e.start /\ AtCursor(r)
  <2>1. w \in BOOLEAN
    BY FatConstants
  <2> QED
    BY <1>4, <2>1, OpenedIs DEF IsOpened
<1> HIDE DEF r
<1>7. sft' \in SftsType /\ \A t \in Sfts : sft'[t] = IF t = s THEN r ELSE sft[t]
  BY <1>1, <1>6, ReadyIdle DEF SftsType
<1>8. \A t \in Sfts : sft[t].file = NoFile => sft[t] = Closed
  BY <1>1, ReadyIdle DEF SftInv
<1>9. \A g \in Files : ~Writer(sft, s, g)
  BY <1>1, FatConstants DEF Writer, Closed
<1>10. \A t \in Sfts, g \in Files : Writer(sft', t, g) <=> Writer(sft, t, g) \/ (t = s /\ g = f /\ w)
  BY <1>6, <1>7, <1>9 DEF Writer
<1>11. OneWriter(sft')
  BY <1>5, <1>10, ReadyIdle, <1>1 DEF OneWriter
<1>12. SftInv(sft', dir')
  <2>1. f # NoFile
    BY FatConstants
  <2>2. r.writes /\ r.clean => dir[r.file].start = r.start
    BY <1>5, <1>6
  <2> QED
    BY <1>1, <1>6, <1>7, <1>11, <2>1, <2>2, ReadyIdle DEF SftInv
<1>13. ASSUME NEW g \in Files PROVE HeadIs(sft', dir', Idle, g, Head(g))
  <2>1. HeadIs(sft, dir, Idle, g, Head(g))
    BY <1>1, ReadyIdle
  <2>2. \A t \in Sfts : Writer(sft', t, g) => Head(g) = sft'[t].start
    BY <1>3, <1>6, <1>7, <1>9, <1>10, <2>1 DEF HeadIs, Idle
  <2>3. (\A t \in Sfts : ~Writer(sft', t, g)) => Head(g) = dir'[g].start
    BY <1>1, <1>10, <2>1 DEF HeadIs, Idle
  <2> QED
    BY <2>2, <2>3 DEF HeadIs, Idle
<1>14. dir' \in [Files -> DirType] /\ call' = Idle /\ Rest = FREE
  BY <1>1, ReadyIdle DEF IInv, CallSide
<1> QED
  BY <1>1, <1>7, <1>12, <1>13, <1>14, SftsChange

LEMMA ClosedIs ==
  /\ Closed \in SftType /\ Closed.file = NoFile /\ ~Closed.writes /\ Closed.clean
  /\ Closed.file \notin Files
BY FatConstants DEF Closed, SftType, Offsets, Pointers

\* dos_commit, or dos_close, which leaves no SFT behind.
LEMMA UpdateKeeps ==
  ASSUME IInv, NEW s \in Sfts, NEW a, a \in {sft[s], Closed}, Update(s, a)
  PROVE  IInv' /\ Heads' = Heads /\ Rest' = Rest
<1> DEFINE S == [sft EXCEPT ![s] = a]
           f == sft[s].file
<1>1. Ready /\ f # NoFile /\ UNCHANGED <<fat, hint, nfree, call, failed>>
  BY DEF Update
<1>2. (\A t \in Sfts : sft[t] \in SftType) /\ a \in SftType /\ f \in Files
  BY <1>1, ReadyIdle, ClosedIs DEF SftType
<1>3. /\ S \in SftsType /\ \A t \in Sfts : S[t] = IF t = s THEN a ELSE sft[t]
  BY <1>1, <1>2, ReadyIdle DEF SftsType
<1>4. /\ \A t \in Sfts, g \in Files : Writer(S, t, g) => Writer(sft, t, g)
      /\ \A t \in Sfts, g \in Files : Writer(sft, t, g) => Writer(S, t, g) \/ (t = s /\ g = f /\ a = Closed)
  BY <1>3, ClosedIs DEF Writer
<1> HIDE DEF S
<1>5. OneWriter(S)
  BY <1>1, <1>4, ReadyIdle DEF OneWriter
<1>6. call' = Idle /\ Rest = FREE /\ OneWriter(sft) /\ dir \in [Files -> DirType]
  BY <1>1, ReadyIdle DEF IInv, CallSide
<1>7. CASE sft[s].clean
  <2>1. sft' = S /\ dir' = dir
    BY <1>7 DEF Update, S
  <2>2. SftInv(sft', dir')
    BY <1>1, <1>3, <1>5, <2>1, ReadyIdle, ClosedIs DEF SftInv
  <2>3. ASSUME NEW g \in Files PROVE HeadIs(sft', dir', Idle, g, Head(g))
    <3>1. HeadIs(sft, dir, Idle, g, Head(g))
      BY <1>1, ReadyIdle
    <3>2. \A t \in Sfts : Writer(S, t, g) => Head(g) = S[t].start
      BY <1>3, <1>4, <3>1, ClosedIs DEF HeadIs, Idle, Writer
    <3>3. Writer(sft, s, g) => dir[g].start = sft[s].start
      BY <1>1, <1>7, ReadyIdle DEF SftInv, Writer
    <3>4. (\A t \in Sfts : ~Writer(S, t, g)) => Head(g) = dir[g].start
      <4> SUFFICES ASSUME \A t \in Sfts : ~Writer(S, t, g) PROVE Head(g) = dir[g].start
        OBVIOUS
      <4>1. CASE Writer(sft, s, g)
        BY <3>1, <3>3, <4>1 DEF HeadIs, Idle
      <4>2. CASE ~Writer(sft, s, g)
        BY <1>4, <3>1, <4>2 DEF HeadIs, Idle
      <4> QED
        BY <4>1, <4>2
    <3> QED
      BY <2>1, <3>2, <3>4 DEF HeadIs, Idle
  <2>4. dir' \in [Files -> DirType] /\ sft' \in SftsType
    BY <1>3, <1>6, <2>1
  <2> QED
    BY <1>1, <1>6, <2>2, <2>3, <2>4, SftsChange
<1>8. CASE ~sft[s].clean
  <2> DEFINE new == [used |-> TRUE, start |-> sft[s].start, size |-> sft[s].size]
             c == FromSft(s)
             M == Merged(S, c)
  <2>1. sft' = M /\ dir' = [dir EXCEPT ![f] = new]
    BY <1>8 DEF Update, S
  <2>2. new \in DirType /\ new.used /\ new.start = sft[s].start
    BY <1>2 DEF DirType, SftType
  <2> HIDE DEF new
  <2>3. /\ dir' \in [Files -> DirType]
        /\ \A g \in Files : dir'[g] = IF g = f THEN new ELSE dir[g]
    BY <1>2, <1>6, <2>1, <2>2
  <2>4. /\ c.start \in Pointers /\ c.size \in Offsets /\ c.file = f /\ c.s = s
    BY <1>2, FromSftFields DEF SftType, IInv, CallSide
  <2>5. Writer(sft, s, f)
    BY <1>1, <1>8, ReadyIdle DEF SftInv, Writer
  <2>6. \A t \in Sfts : t # s => ~Writer(S, t, f)
    BY <1>2, <1>4, <1>6, <2>5 DEF OneWriter
  <2> HIDE DEF c
  <2>7. M \in SftsType /\ Alike(S, M)
    BY <1>2, <1>3, <1>5, <2>4, <2>6, MergedKeeps
  <2> HIDE DEF M
  <2>8. SftInv(S, dir')
    <3>1. \A t \in Sfts : sft[t].file \in Files \cup {NoFile}
      BY <1>2 DEF SftType
    <3>2. \A t \in Sfts : S[t].file # NoFile => dir'[S[t].file].used
      BY <1>1, <1>3, <2>2, <2>3, <3>1, ReadyIdle, ClosedIs DEF SftInv
    <3>3. ASSUME NEW t \in Sfts, S[t].writes, S[t].clean PROVE dir'[S[t].file].start = S[t].start
      <4>1. t # s \/ a = Closed
        BY <1>3, <1>8, <3>3
      <4>2. t # s
        BY <1>3, <3>3, <4>1, ClosedIs
      <4>3. S[t] = sft[t] /\ sft[t].file # f
        BY <1>2, <1>3, <1>6, <2>5, <3>3, <4>2 DEF OneWriter, Writer
      <4>4. sft[t].file \in Files
        BY <1>1, <3>1, <3>3, <4>3, ReadyIdle, ClosedIs DEF SftInv
      <4> QED
        BY <1>1, <2>3, <3>3, <4>3, <4>4, ReadyIdle DEF SftInv
    <3>4. \A t \in Sfts : /\ S[t].file = NoFile => S[t] = Closed
                          /\ ~S[t].clean => S[t].writes
                          /\ S[t].writes => AtCursor(S[t])
      BY <1>1, <1>3, ReadyIdle, ClosedIs DEF SftInv
    <3> QED
      BY <1>5, <3>2, <3>3, <3>4 DEF SftInv
  <2>9. ASSUME NEW g \in Files PROVE HeadIs(S, dir', Idle, g, Head(g))
    <3>1. HeadIs(sft, dir, Idle, g, Head(g))
      BY <1>1, ReadyIdle
    <3>2. CASE g = f
      <4>1. Head(g) = sft[s].start
        BY <2>5, <3>1, <3>2 DEF HeadIs, Idle
      <4>2. \A t \in Sfts : Writer(S, t, g) => t = s /\ S[t] = sft[s]
        BY <1>2, <1>3, <2>6, <3>2, ClosedIs DEF Writer
      <4> QED
        BY <2>2, <2>3, <3>2, <4>1, <4>2 DEF HeadIs, Idle
    <3>3. CASE g # f
      <4>1. \A t \in Sfts : Writer(S, t, g) <=> Writer(sft, t, g)
        BY <1>4, <3>3
      <4>2. \A t \in Sfts : Writer(S, t, g) => S[t] = sft[t]
        BY <1>3, ClosedIs DEF Writer
      <4> QED
        BY <2>3, <3>1, <3>3, <4>1, <4>2 DEF HeadIs, Idle
    <3> QED
      BY <3>2, <3>3
  <2>12. SftInv(M, dir')
    BY <2>7, <2>8, AlikeKeeps
  <2>13. \A d, g, h : HeadIs(S, dir', d, g, h) => HeadIs(M, dir', d, g, h)
    BY <2>7, AlikeKeeps
  <2>14. \A g \in Files : HeadIs(M, dir', Idle, g, Head(g))
    BY <2>9, <2>13
  <2>10. SftInv(sft', dir') /\ \A g \in Files : HeadIs(sft', dir', Idle, g, Head(g))
    BY <2>1, <2>12, <2>14
  <2>11. sft' \in SftsType
    BY <2>1, <2>7
  <2> QED
    BY <1>1, <1>6, <2>3, <2>10, <2>11, SftsChange
<1> QED
  BY <1>7, <1>8

LEMMA CommitKeeps == ASSUME IInv, NEW s \in Sfts, Commit(s) PROVE IInv'
BY UpdateKeeps DEF Commit

LEMMA CloseKeeps == ASSUME IInv, NEW s \in Sfts, Close(s) PROVE IInv'
BY UpdateKeeps DEF Close

-----------------------------------------------------------------------------
(* A file that is created, and chains that are wiped out.                  *)

\* The end of dos_open for a file without a chain: the file has no other SFT
\* that writes, and the call, if there is one, is about this file.
LEMMA CreatedEnds ==
  ASSUME IInv, NEW s \in Sfts, NEW f \in Files, Created(s, f), sft[s] = Closed,
         \A t \in Sfts : ~Writer(sft, t, f),
         call = Idle \/ (call.op = "create" /\ call.file = f)
  PROVE  /\ CallSide' /\ Rest' = FREE
         /\ \A g \in Files : Head(g)' = IF g = f THEN FREE ELSE Head(g)
<1> DEFINE new == [NoEntry EXCEPT !.used = TRUE]
           r == Opened(f, TRUE, new)
           S == [sft EXCEPT ![s] = r]
           c == [Idle EXCEPT !.s = s, !.file = f]
           M == Merged(S, c)
<1>1. dir' = [dir EXCEPT ![f] = new] /\ sft' = M /\ call' = Idle
  BY DEF Created
<1>2. /\ new \in DirType /\ new.used /\ new.start = FREE /\ new.size = 0
      /\ new.start \in Pointers /\ new.size \in Offsets
  <2>1. 0 \in Offsets /\ FREE \in Pointers
    BY FatConstants DEF Offsets, Pointers
  <2>2. NoEntry \in DirType /\ NoEntry.start = FREE /\ NoEntry.size = 0
    BY <2>1 DEF NoEntry, DirType
  <2> QED
    BY <2>1, <2>2 DEF DirType
<1> HIDE DEF new
<1>3. /\ r \in SftType /\ r.file = f /\ r.writes /\ r.clean /\ r.start = FREE /\ AtCursor(r)
  <2>1. IsOpened(r, f, TRUE, new)
    BY <1>2, OpenedIs, Zenon
  <2> QED
    BY <1>2, <2>1 DEF IsOpened
<1> HIDE DEF r
<1>4. /\ sft \in SftsType /\ OneWriter(sft) /\ SftInv(sft, dir)
      /\ dir \in [Files -> DirType]
  BY DEF IInv, CallSide, SftInv
<1>5. \A t \in Sfts : sft[t] \in SftType
  BY <1>4 DEF SftsType
<1>6. S \in SftsType /\ \A t \in Sfts : S[t] = IF t = s THEN r ELSE sft[t]
  BY <1>3, <1>4 DEF SftsType
<1> HIDE DEF S
<1>7. /\ c.start \in Pointers /\ c.size \in Offsets /\ c.file = f /\ c.s = s
  BY IdleSound DEF CallType, Idle
<1> HIDE DEF c
<1>8. \A t \in Sfts, g \in Files : Writer(S, t, g) <=> (Writer(sft, t, g) /\ t # s) \/ (t = s /\ g = f)
  BY <1>3, <1>6 DEF Writer
<1>9. OneWriter(S) /\ \A t \in Sfts : t # s => ~Writer(S, t, f)
  BY <1>4, <1>8 DEF OneWriter
<1>10. M \in SftsType /\ Alike(S, M) /\ M[s] = S[s]
  BY <1>6, <1>7, <1>9, MergedKeeps
<1> HIDE DEF M
<1>11. /\ dir' \in [Files -> DirType]
       /\ \A g \in Files : dir'[g] = IF g = f THEN new ELSE dir[g]
  BY <1>1, <1>2, <1>4
<1>12. SftInv(S, dir')
  <2>1. f # NoFile /\ \A t \in Sfts : sft[t].file \in Files \cup {NoFile}
    BY <1>5, FatConstants DEF SftType
  <2>2. \A t \in Sfts : S[t].file # NoFile => dir'[S[t].file].used
    BY <1>2, <1>3, <1>4, <1>6, <1>11, <2>1 DEF SftInv
  <2>3. ASSUME NEW t \in Sfts, S[t].writes, S[t].clean PROVE dir'[S[t].file].start = S[t].start
    <3>1. CASE t = s
      BY <1>2, <1>3, <1>6, <1>11, <3>1
    <3>2. CASE t # s
      <4>1. S[t] = sft[t] /\ sft[t].file # NoFile /\ sft[t].file # f
        BY <1>4, <1>6, <2>3, <3>2, ClosedIs DEF SftInv, Writer
      <4> QED
        BY <1>4, <1>11, <2>1, <2>3, <4>1 DEF SftInv
    <3> QED
      BY <3>1, <3>2
  <2>4. \A t \in Sfts : /\ S[t].file = NoFile => S[t] = Closed
                        /\ ~S[t].clean => S[t].writes
                        /\ S[t].writes => AtCursor(S[t])
    BY <1>3, <1>4, <1>6, <2>1 DEF SftInv
  <2> QED
    BY <1>9, <2>2, <2>3, <2>4 DEF SftInv
<1>13. SftInv(M, dir')
  BY <1>10, <1>12, AlikeKeeps
<1>14. \A d, g, h : HeadIs(S, dir', d, g, h) => HeadIs(M, dir', d, g, h)
  BY <1>10, AlikeKeeps
<1>15. CallSide'
  BY <1>1, <1>10, <1>11, <1>13, IdleSound DEF CallSide
<1>16. ASSUME NEW g \in Files PROVE Head(g)' = IF g = f THEN FREE ELSE Head(g)
  <2>1. CASE g = f
    <3>1. HeadIs(S, dir', Idle, g, FREE)
      BY <1>2, <1>3, <1>6, <1>8, <1>9, <1>11, <2>1 DEF HeadIs, Idle
    <3>2. HeadIs(M, dir', Idle, g, FREE)
      BY <1>14, <3>1
    <3> QED
      BY <1>1, <1>13, <2>1, <3>2, HeadAfter DEF SftInv
  <2>2. CASE g # f
    <3>1. HeadIs(sft, dir, call, g, Head(g))
      BY <1>4, HeadOfFile
    <3>2. Idle.op = "none"
      BY DEF Idle
    <3>3. HeadIs(sft, dir, Idle, g, Head(g))
      BY <2>2, <3>1, <3>2 DEF HeadIs
    <3>4. ~Writer(sft, s, g)
      BY ClosedIs DEF Writer
    <3>5. HeadIs(S, dir', Idle, g, Head(g))
      BY <1>6, <1>8, <1>11, <2>2, <3>2, <3>3, <3>4 DEF HeadIs
    <3>6. HeadIs(M, dir', Idle, g, Head(g))
      BY <1>14, <3>5
    <3> QED
      BY <1>1, <1>13, <2>2, <3>6, HeadAfter DEF SftInv
  <2> QED
    BY <2>1, <2>2
<1>17. Rest' = FREE
  BY <1>1 DEF Rest, Idle
<1> QED
  BY <1>15, <1>16, <1>17

LEMMA CreateKeeps == ASSUME IInv, NEW s \in Sfts, NEW f \in Files, Create(s, f) PROVE IInv'
<1>1. /\ Ready /\ sft[s] = Closed /\ ~dir[f].used /\ Created(s, f)
      /\ UNCHANGED <<fat, hint, nfree, failed>>
  BY DEF Create
<1>2. \A t \in Sfts : ~Writer(sft, t, f)
  BY <1>1, ReadyIdle, FatConstants DEF Writer, SftInv
<1>3. /\ CallSide' /\ Rest' = FREE
      /\ \A g \in Files : Head(g)' \in {Head(g), FREE}
  BY <1>1, <1>2, CreatedEnds DEF Ready
<1> QED
  BY <1>1, <1>3, FatStays DEF IInv, FatSide

\* The call takes the chain of the file f over.
TakenOver(f) ==
  Rest' = Heads[f] /\ \A g \in Files : Heads'[g] = IF g = f THEN FREE ELSE Heads[g]

\* A call begins to wipe out the chain of a file.
LEMMA WipeStarts ==
  ASSUME IInv, Ready, NEW c \in CallType, call' = c, CallInv(c, sft, dir),
         UNCHANGED <<fat, dir, sft, hint, nfree, failed>>,
         NEW f \in Files, c.file = f, c.op \in {"create", "delete"}, c.pc = "wipe",
         c.st = dir[f].start, \A t \in Sfts : ~Writer(sft, t, f)
  PROVE  IInv' /\ TakenOver(f) /\ call' = c
<1>1. CallSide'
  BY DEF IInv, CallSide
<1>2. Head(f) = dir[f].start
  BY ReadyIdle DEF HeadIs, Idle
<1>3. HeadIs(sft', dir', call', f, FREE)
  BY DEF HeadIs
<1>4. \A g \in Files \ {f} : HeadIs(sft', dir', call', g, Head(g))
  BY ReadyIdle DEF HeadIs, Idle
<1>5. OneWriter(sft')
  BY ReadyIdle
<1>6. Head(f)' = FREE /\ \A g \in Files \ {f} : Head(g)' = Head(g)
  BY <1>3, <1>4, <1>5, HeadAfter
<1>7. Rest' = Head(f)
  BY <1>2 DEF Rest
<1>8. Heads \in HeadsType /\ Heads' \in HeadsType
  BY <1>1, HeadsTyped, HeadsTypedAfter DEF HeadsOK, IInv
<1>9. Heads'[f] = FREE /\ (\A g \in Files \ {f} : Heads'[g] = Heads[g]) /\ Heads[f] = Head(f)
  BY <1>6, HeadsAre
<1>10. fat \in FatType /\ Sound(fat, Heads, Rest)
  BY DEF IInv, FatSide
<1>11. Sound(fat, Heads', Heads[f])
  BY <1>8, <1>9, <1>10, TakeKeeps
<1>12. FreeCountExact'
  BY DEF IInv, FatSide, FreeCountExact, Free
<1>13. IInv'
  BY <1>1, <1>7, <1>9, <1>11, <1>12 DEF IInv, FatSide
<1> QED
  BY <1>7, <1>9, <1>13 DEF TakenOver

LEMMA TruncateKeeps ==
  ASSUME IInv, NEW s \in Sfts, NEW f \in Files, Truncate(s, f)
  PROVE  IInv' /\ TakenOver(f) /\ call'.op = "create"
<1> DEFINE c == [Idle EXCEPT !.pc = "wipe", !.op = "create", !.s = s, !.file = f, !.st = dir[f].start]
<1>1. /\ Ready /\ sft[s] = Closed /\ dir[f].used /\ Writing(f) = {}
      /\ call' = c /\ UNCHANGED <<fat, dir, sft, hint, nfree, failed>>
  BY DEF Truncate, Continue, Admitted
<1>2. dir[f].start \in Pointers
  BY DEF IInv, CallSide, DirType
<1>3. /\ c \in CallType /\ c.pc = "wipe" /\ c.op = "create" /\ c.s = s /\ c.file = f
      /\ c.st = dir[f].start
  BY <1>2, IdleSound DEF CallType, Pcs, Ops
<1> HIDE DEF c
<1>4. \A t \in Sfts : ~Writer(sft, t, f)
  BY <1>1, NoWriters
<1>5. CallInv(c, sft, dir)
  BY <1>1, <1>3, <1>4 DEF CallInv, CreateInv, BoundsInv
<1> QED
  BY <1>1, <1>3, <1>4, <1>5, WipeStarts

LEMMA DeleteKeeps ==
  ASSUME IInv, NEW f \in Files, Delete(f)
  PROVE  IInv' /\ TakenOver(f) /\ call'.op = "delete"
<1> DEFINE c == [Idle EXCEPT !.pc = "wipe", !.op = "delete", !.file = f, !.st = dir[f].start]
<1>1. /\ Ready /\ dir[f].used /\ Using(f) = {}
      /\ call' = c /\ UNCHANGED <<fat, dir, sft, hint, nfree, failed>>
  BY DEF Delete, Continue
<1>2. dir[f].start \in Pointers
  BY DEF IInv, CallSide, DirType
<1>3. /\ c \in CallType /\ c.pc = "wipe" /\ c.op = "delete" /\ c.file = f /\ c.st = dir[f].start
  BY <1>2, IdleSound DEF CallType, Pcs, Ops
<1> HIDE DEF c
<1>4. \A t \in Sfts : sft[t].file # f
  BY <1>1 DEF Using
<1>5. \A t \in Sfts : ~Writer(sft, t, f)
  BY <1>4 DEF Writer
<1>6. CallInv(c, sft, dir)
  BY <1>1, <1>3, <1>4 DEF CallInv, DeleteInv, BoundsInv
<1> QED
  BY <1>1, <1>3, <1>5, <1>6, WipeStarts

-----------------------------------------------------------------------------
(* The number of free clusters.                                            *)

FreeIn(F) == {c \in Clusters : F[c] = FREE}

LEMMA ClustersFinite == IsFiniteSet(Clusters) /\ Cardinality(Clusters) = MaxCluster - 1
<1>1. 2 \in Int /\ MaxCluster \in Int /\ MaxCluster >= 2
  BY FatConstants
<1> QED
  BY <1>1, FS_Interval DEF Clusters

LEMMA FreeFinite ==
  ASSUME NEW S \in SUBSET Clusters
  PROVE  IsFiniteSet(S) /\ Cardinality(S) \in Nat /\ Cardinality(S) <= MaxCluster - 1
BY ClustersFinite, FS_Subset, FS_CardinalityType

LEMMA OneMoreFree ==
  ASSUME NEW F \in FatType, NEW c \in Clusters, F[c] # FREE
  PROVE  Cardinality(FreeIn([F EXCEPT ![c] = FREE])) = Cardinality(FreeIn(F)) + 1
<1>1. FreeIn([F EXCEPT ![c] = FREE]) = FreeIn(F) \cup {c}
  BY DEF FreeIn, FatType
<1>2. FreeIn(F) \in SUBSET Clusters /\ c \notin FreeIn(F)
  BY DEF FreeIn
<1> QED
  BY <1>1, <1>2, FreeFinite, FS_AddElement

LEMMA OneLessFree ==
  ASSUME NEW F \in FatType, NEW G, NEW c \in Clusters, F[c] = FREE, FreeIn(G) = FreeIn(F) \ {c}
  PROVE  Cardinality(FreeIn(G)) = Cardinality(FreeIn(F)) - 1
<1>1. FreeIn(F) \in SUBSET Clusters /\ c \in FreeIn(F)
  BY DEF FreeIn
<1> QED
  BY <1>1, FreeFinite, FS_RemoveElement

LEMMA FreeCounts == \A F : Cardinality(FreeIn(F)) \in Nat
<1> SUFFICES ASSUME NEW F PROVE Cardinality(FreeIn(F)) \in Nat
  OBVIOUS
<1>1. FreeIn(F) \in SUBSET Clusters
  BY DEF FreeIn
<1> QED
  BY <1>1, FreeFinite

\* An unknown count stays unknown, a known one is adjusted.
LEMMA CountedIs ==
  ASSUME nfree \in 0 .. UNKNCLSTFREE, NEW i \in {-1, 0, 1}
  PROVE  /\ Counted(i) \in 0 .. UNKNCLSTFREE
         /\ nfree = UNKNCLSTFREE => Counted(i) = UNKNCLSTFREE
         /\ nfree # UNKNCLSTFREE /\ 0 <= nfree + i => Counted(i) = nfree + i
<1> DEFINE m == UNKNCLSTFREE + 1
           n == nfree + i
<1>1. m \in Nat /\ m > 0 /\ n \in Int /\ (nfree # UNKNCLSTFREE => n < m)
  BY FatConstants DEF UNKNCLSTFREE
<1>2. Counted(i) = IF nfree = UNKNCLSTFREE THEN nfree ELSE n % m
  BY DEF Counted
<1>3. m = UNKNCLSTFREE + 1 /\ n = nfree + i /\ UNKNCLSTFREE \in Nat
  BY FatConstants DEF UNKNCLSTFREE
<1> HIDE DEF m, n
<1>4. n % m \in 0 .. (m - 1)
  BY <1>1
<1>5. 0 <= n /\ n < m => n % m = n
  BY <1>1
<1> QED
  BY <1>1, <1>2, <1>3, <1>4, <1>5

LEMMA FreeIs == Free = FreeIn(fat) /\ Free' = FreeIn(fat')
BY DEF Free, FreeIn

\* A cluster more, or a cluster less.
LEMMA CountAfter ==
  ASSUME IInv, NEW i \in {-1, 0, 1}, nfree' = Counted(i), failed => failed',
         Cardinality(FreeIn(fat')) = Cardinality(FreeIn(fat)) + i
  PROVE  nfree' \in 0 .. UNKNCLSTFREE /\ FreeCountExact'
<1>1. nfree \in 0 .. UNKNCLSTFREE /\ FreeCountExact
  BY DEF IInv, FatSide
<1>2. FreeIn(fat') \in SUBSET Clusters
  BY DEF FreeIn
<1>3. Cardinality(FreeIn(fat')) \in Nat
  BY <1>2, FreeFinite
<1> QED
  BY <1>1, <1>3, CountedIs, FreeIs DEF FreeCountExact

\* Some number of a set of numbers is the smallest.
LEMMA LeastExists ==
  ASSUME NEW S, S \subseteq Nat, S # {}
  PROVE  \E c \in S : Least(S, c)
<1> DEFINE R == {ss \in Nat \X Nat : ss[1] < ss[2]}
<1>1. OpToRel(<, Nat) = R
  BY DEF OpToRel
<1>2. IsWellFoundedOn(R, Nat)
  BY <1>1, NatLessThanWellFounded
<1>3. \A x, y \in Nat : <<x, y>> \in R <=> x < y
  OBVIOUS
<1> HIDE DEF R
<1>4. PICK x \in S : \A y \in S : ~(<<y, x>> \in R)
  BY <1>2, WFMin
<1>5. \A y \in S : x <= y
  <2> TAKE y \in S
  <2>1. x \in Nat /\ y \in Nat
    OBVIOUS
  <2>2. ~(y < x)
    BY <1>3, <1>4, <2>1
  <2> QED
    BY <2>1, <2>2
<1> QED
  BY <1>5 DEF Least

\* find_fat_free returns a free cluster, or says that there is none.
LEMMA FoundIsFree == FindFatFree \subseteq Free \cup {LAST}
<1>1. FirstFree \in Free \cup {LAST}
  <2>1. CASE Free = {}
    BY <2>1 DEF FirstFree
  <2>2. CASE Free # {}
    <3> DEFINE ahead == {c \in Free : c >= hint}
               S == IF ahead = {} THEN Free ELSE ahead
    <3>1. S \subseteq Nat /\ S # {} /\ S \subseteq Free
      BY <2>2, FatConstants DEF Free, Clusters
    <3> HIDE DEF S
    <3>2. \E c \in Free : Least(S, c)
      BY <3>1, LeastExists
    <3>3. FirstFree = CHOOSE c \in Free : Least(S, c)
      BY <2>2 DEF FirstFree, S
    <3> QED
      BY <3>2, <3>3
  <2> QED
    BY <2>1, <2>2
<1> QED
  BY <1>1 DEF FindFatFree

-----------------------------------------------------------------------------
(* Steps that change the FAT.                                              *)

LEMMA NextCluster ==
  ASSUME IInv, NEW c, next_cluster(c) > 1
  PROVE  /\ c \in Clusters /\ fat[c] # FREE /\ next_cluster(c) = fat[c]
         /\ fat[c] \in Clusters \cup {LAST}
<1>1. fat \in FatType
  BY DEF IInv, FatSide
<1>2. c \in Clusters
  BY Numbers DEF next_cluster
<1>3. fat[c] \in Pointers \cup {LAST}
  BY <1>1, <1>2 DEF FatType
<1> QED
  BY <1>2, <1>3, Numbers DEF next_cluster, Pointers

LEMMA FatStep ==
  ASSUME IInv, CallSide', fat' \in FatType, hint' \in Pointers, nfree' \in 0 .. UNKNCLSTFREE,
         failed' \in BOOLEAN, Sound(fat', Heads', Rest'), FreeCountExact'
  PROVE  IInv'
BY DEF IInv, FatSide

LEMMA WipeClusterKeeps == IInv /\ WipeCluster => IInv'
<1> SUFFICES ASSUME IInv, WipeCluster PROVE IInv'
  OBVIOUS
<1> DEFINE st == call.st
           next == next_cluster(st)
           c == [call EXCEPT !.st = next]
<1>1. /\ call.pc = "wipe" /\ next > 1 /\ fat' = [fat EXCEPT ![st] = FREE]
      /\ nfree' = Counted(IF fat[st] = FREE THEN 0 ELSE 1)
      /\ hint' \in {st, hint} /\ call' = c
      /\ UNCHANGED <<dir, sft, failed>>
  BY DEF WipeCluster, Continue
<1>2. /\ st \in Clusters /\ fat[st] # FREE /\ next = fat[st] /\ next \in Clusters \cup {LAST}
  BY <1>1, NextCluster
<1>3. call \in CallType /\ call.op \in {"create", "delete", "cut"}
  BY <1>1, OpAtPc
<1> HIDE DEF next
<1>4. /\ c \in CallType /\ c.pc = "wipe" /\ SameFile(c) /\ c.st = next
      /\ c.cluster = call.cluster /\ c.rel = call.rel
  BY <1>1, <1>2, <1>3 DEF CallType, SameFile, Pointers
<1> HIDE DEF c
<1>5. CallInv(c, sft, dir)
  <2>1. CallInv(call, sft, dir)
    BY DEF IInv, CallSide
  <2>2. call.op = "cut" => WriteInv(c, sft)
    BY <1>1, <1>4, <2>1 DEF CallInv, WriteInv, AtCursor, SameFile
  <2>3. call.op = "create" => CreateInv(c, sft, dir)
    BY <1>4, <2>1 DEF CallInv, CreateInv, SameFile
  <2>4. call.op = "delete" => DeleteInv(c, sft, dir)
    BY <1>4, <2>1 DEF CallInv, DeleteInv, SameFile
  <2>5. BoundsInv(c)
    BY <1>3, <1>4 DEF BoundsInv, SameFile
  <2> QED
    BY <1>3, <1>4, <2>2, <2>3, <2>4, <2>5 DEF CallInv, SameFile
<1>6. CallSide'
  BY <1>1, <1>4, <1>5 DEF IInv, CallSide
<1>7. \A f \in Files : Head(f)' = Head(f)
  <2> SUFFICES ASSUME NEW f \in Files PROVE Head(f)' = Head(f)
    OBVIOUS
  <2>1. HeadIs(sft, dir, call, f, Head(f)) /\ OneWriter(sft)
    BY HeadOfFile DEF IInv, CallSide, SftInv
  <2>2. HeadIs(sft', dir', call', f, Head(f)) /\ OneWriter(sft')
    BY <1>1, <1>4, <2>1 DEF HeadIs, SameFile
  <2> QED
    BY <2>2, HeadAfter
<1>8. Rest = st /\ Rest' = fat[st]
  BY <1>1, <1>2, <1>4 DEF Rest
<1>9. fat \in FatType /\ Heads \in HeadsType /\ Sound(fat, Heads, st) /\ Heads' = Heads
      /\ hint \in Pointers /\ failed \in BOOLEAN
  BY <1>7, <1>8, HeadsTyped DEF HeadsOK, IInv, FatSide, Heads
<1>10. Sound(fat', Heads', Rest') /\ fat' \in FatType
  <2>1. Sound([fat EXCEPT ![st] = FREE], Heads, fat[st])
    BY <1>2, <1>9, WipeKeeps
  <2>2. [fat EXCEPT ![st] = FREE] \in FatType
    BY <1>2, <1>9 DEF FatType, Pointers
  <2> QED
    BY <1>1, <1>8, <1>9, <2>1, <2>2
<1>11. nfree' = Counted(1) /\ Cardinality(FreeIn(fat')) = Cardinality(FreeIn(fat)) + 1
  BY <1>1, <1>2, <1>9, OneMoreFree
<1>12. nfree' \in 0 .. UNKNCLSTFREE /\ FreeCountExact'
  BY <1>1, <1>11, CountAfter
<1>13. hint' \in Pointers /\ failed' \in BOOLEAN
  BY <1>1, <1>2, <1>9 DEF Pointers
<1> QED
  BY <1>6, <1>10, <1>12, <1>13, FatStep

LEMMA WipeEndsKeeps == IInv /\ WipeEnds => IInv' /\ Heads' = Heads /\ Rest' = FREE
<1> SUFFICES ASSUME IInv, WipeEnds PROVE IInv' /\ Heads' = Heads /\ Rest' = FREE
  OBVIOUS
<1>1. /\ call.pc = "wipe" /\ (failed' = failed \/ failed' = TRUE) /\ Wiped
      /\ UNCHANGED <<fat, hint, nfree>>
  BY DEF WipeEnds, Fault
<1>2. call \in CallType /\ CallInv(call, sft, dir)
  BY OpAtPc DEF IInv, CallSide
<1>0. call.op \in {"create", "delete"} => \A g \in Files : g = call.file => Head(g) = FREE
  BY HeadOfFile DEF HeadIs, IInv, CallSide, SftInv
<1>3. /\ CallSide' /\ Rest' = FREE
      /\ \A g \in Files : Head(g)' = Head(g)
  <2>1. CASE call.op = "create" /\ Created(call.s, call.file)
    <3>1. CreateInv(call, sft, dir)
      BY <1>2, <2>1 DEF CallInv
    <3> QED
      BY <1>0, <2>1, <3>1, CreatedEnds DEF CreateInv
  <2>2. CASE call.op = "delete" /\ dir' = [dir EXCEPT ![call.file] = NoEntry] /\ Drop
    <3>1. DeleteInv(call, sft, dir)
      BY <1>2, <2>2 DEF CallInv
    <3> DEFINE f == call.file
    <3>2. f \in Files /\ \A s \in Sfts : sft[s].file # f
      BY <3>1 DEF DeleteInv
    <3>3. /\ NoEntry \in DirType /\ NoEntry.start = FREE
      BY FatConstants DEF NoEntry, DirType, Pointers, Offsets
    <3>4. dir \in [Files -> DirType] /\ SftInv(sft, dir) /\ sft \in SftsType
      BY DEF IInv, CallSide
    <3>5. dir' \in [Files -> DirType] /\ \A g \in Files : dir'[g] = IF g = f THEN NoEntry ELSE dir[g]
      BY <2>2, <3>2, <3>3, <3>4
    <3>6. sft' = sft /\ call' = Idle
      BY <2>2 DEF Drop
    <3>7. \A s \in Sfts : sft[s].file \in Files \cup {NoFile}
      BY <3>4 DEF SftsType, SftType
    <3>8. SftInv(sft', dir')
      <4>1. \A s \in Sfts : sft[s].file # NoFile => dir'[sft[s].file] = dir[sft[s].file]
        BY <3>2, <3>5, <3>7
      <4>2. \A s \in Sfts : sft[s].writes => sft[s].file # NoFile
        BY <3>4, ClosedIs DEF SftInv
      <4> QED
        BY <3>4, <3>6, <4>1, <4>2 DEF SftInv
    <3>9. CallSide'
      BY <3>4, <3>5, <3>6, <3>8, IdleSound DEF CallSide
    <3>10. ASSUME NEW g \in Files PROVE Head(g)' = Head(g)
      <4>1. HeadIs(sft, dir, call, g, Head(g)) /\ OneWriter(sft')
        BY <3>4, <3>6, HeadOfFile DEF SftInv
      <4>2. CASE g = f
        <5>1. HeadIs(sft', dir', call', g, FREE)
          BY <3>2, <3>3, <3>5, <3>6, <4>2 DEF HeadIs, Idle, Writer
        <5> QED
          BY <1>0, <2>2, <4>1, <4>2, <5>1, HeadAfter
      <4>3. CASE g # f
        <5>1. HeadIs(sft', dir', call', g, Head(g))
          BY <3>5, <3>6, <4>1, <4>3 DEF HeadIs, Idle
        <5> QED
          BY <4>1, <4>3, <5>1, HeadAfter
      <4> QED
        BY <4>2, <4>3
    <3>11. Rest' = FREE
      BY <3>6 DEF Rest, Idle
    <3> QED
      BY <3>9, <3>10, <3>11
  <2>3. CASE call.op = "cut" /\ Return(call) /\ UNCHANGED dir
    <3>1. SameFile(call)
      BY DEF SameFile
    <3>2. CallSide' /\ Heads' = Heads /\ Rest' = FREE
      BY <1>2, <2>3, <3>1, ReturnEnds
    <3> QED
      BY <3>2, HeadsAre
  <2> QED
    BY <1>1, <2>1, <2>2, <2>3 DEF Wiped
<1>4. hint' \in Pointers /\ failed' \in BOOLEAN /\ (failed => failed')
  <2>1. hint \in Pointers /\ failed \in BOOLEAN
    BY DEF IInv, FatSide
  <2> QED
    BY <1>1, <2>1, Zenon
<1>5. IInv'
  BY <1>1, <1>3, <1>4, FatStays
<1> QED
  BY <1>3, <1>5 DEF Heads

LEMMA WriterAt ==
  ASSUME IInv, call.op \in {"write", "cut"}
  PROVE  WriteInv(call, sft) /\ call.file \in Files /\ AtCursor(call)
BY DEF IInv, CallSide, CallInv, WriteInv

\* extend is called at the end of a chain, or for a file without one.
LEMMA AtEndIs ==
  ASSUME IInv, Mapping, ~Reading, AtEnd
  PROVE  /\ call.op \in {"write", "cut"} /\ call.pc \in {"extend", "map", "run"}
         /\ Rest = FREE
         /\ call.cluster = FREE => call.start = FREE
         /\ call.cluster # FREE => call.cluster \in Clusters /\ fat[call.cluster] = LAST
<1>1. call.op \in {"write", "cut"} /\ call.pc \in {"extend", "map", "run"}
  BY OpAtPc DEF Mapping, Reading
<1>2. Rest = FREE
  BY <1>1 DEF Rest
<1>3. call.cluster = FREE => call.start = FREE
  BY <1>1, WriterAt DEF AtCursor
<1>4. ASSUME call.cluster # FREE PROVE call.cluster \in Clusters /\ fat[call.cluster] = LAST
  <2>1. next_cluster(call.cluster) = LAST
    BY <1>4 DEF AtEnd, Ahead
  <2>2. next_cluster(call.cluster) > 1
    BY <2>1, Numbers
  <2> QED
    BY <2>1, <2>2, NextCluster
<1> QED
  BY <1>1, <1>2, <1>3, <1>4

\* A free cluster is marked, and a chain is continued with it.
LEMMA Linked ==
  ASSUME NEW F \in FatType, NEW c \in Clusters, F[c] = FREE, NEW d \in Clusters, F[d] = LAST
  PROVE  /\ [F EXCEPT ![c] = LAST, ![d] = c] \in FatType
         /\ FreeIn([F EXCEPT ![c] = LAST, ![d] = c]) = FreeIn(F) \ {c}
<1> DEFINE E == [F EXCEPT ![c] = LAST, ![d] = c]
<1>1. /\ E \in FatType /\ c # d
      /\ \A e \in Clusters : E[e] = IF e = d THEN c ELSE IF e = c THEN LAST ELSE F[e]
  BY Numbers DEF FatType, Pointers
<1> HIDE DEF E
<1>2. FreeIn(E) = FreeIn(F) \ {c}
  BY <1>1, Numbers DEF FreeIn
<1> QED
  BY <1>1, <1>2 DEF E

LEMMA Marked ==
  ASSUME NEW F \in FatType, NEW c \in Clusters, F[c] = FREE
  PROVE  /\ [F EXCEPT ![c] = LAST] \in FatType
         /\ FreeIn([F EXCEPT ![c] = LAST]) = FreeIn(F) \ {c}
<1> DEFINE E == [F EXCEPT ![c] = LAST]
<1>1. /\ E \in FatType
      /\ \A e \in Clusters : E[e] = IF e = c THEN LAST ELSE F[e]
  BY DEF FatType, Pointers
<1> HIDE DEF E
<1>2. FreeIn(E) = FreeIn(F) \ {c}
  BY <1>1, Numbers DEF FreeIn
<1> QED
  BY <1>1, <1>2 DEF E

\* What extend leaves of the rest of the kernel.
LEMMA ExtendedCall ==
  ASSUME IInv, Mapping, ~Reading, AtEnd, UNCHANGED <<dir, sft>>, NEW c \in Clusters,
         NEW d \in CallType, call' = d,
         d.op = call.op, d.pc = call.pc, d.s = call.s, d.file = call.file, d.clean = call.clean,
         d.size = call.size, d.offset = call.offset, d.left = call.left, d.from = call.from,
         d.cluster = c,
         \/ call.cluster = FREE /\ d.start = c
         \/ call.cluster # FREE /\ d.start = call.start /\ d.rel # 0
  PROVE  /\ CallSide' /\ Rest' = FREE
         /\ \A f \in Files : Head(f)' = IF f = call.file THEN d.start ELSE Head(f)
<1>1. WriteInv(call, sft) /\ BoundsInv(call) /\ AtCursor(call) /\ call.file \in Files
      /\ call.op \in {"write", "cut"}
  BY AtEndIs, WriterAt, OpAtPc
<1>2. c # FREE
  BY Numbers
<1>3. AtCursor(d)
  BY <1>1, <1>2 DEF AtCursor
<1>4. WriteInv(d, sft)
  BY <1>1, <1>3, AtEndIs DEF WriteInv
<1>5. BoundsInv(d)
  BY <1>1 DEF BoundsInv, Wanted
<1>6. CallSide'
  BY <1>1, <1>4, <1>5 DEF IInv, CallSide, CallInv
<1>7. Rest' = FREE
  BY AtEndIs DEF Rest
<1>8. ASSUME NEW f \in Files, NEW h, h = IF f = call.file THEN d.start ELSE Head(f)
      PROVE  Head(f)' = h
  <2>1. HeadIs(sft, dir, call, f, Head(f)) /\ OneWriter(sft)
    BY HeadOfFile DEF IInv, CallSide, SftInv
  <2>2. HeadIs(sft', dir', call', f, h) /\ OneWriter(sft')
    BY <1>1, <1>8, <2>1 DEF HeadIs
  <2> QED
    BY <2>2, HeadAfter
<1> QED
  BY <1>1, <1>6, <1>7, <1>8

LEMMA ExtendKeeps == IInv /\ Extend => IInv'
<1> SUFFICES ASSUME IInv, Extend PROVE IInv'
  OBVIOUS
<1>1. Mapping /\ ~Reading /\ AtEnd /\ dir' = dir
  BY DEF Extend
<1>2. PICK c \in FindFatFree \ {LAST} :
        /\ hint' = c /\ nfree' = Counted(-1) /\ failed' = (failed \/ c # FirstFree)
        /\ \/ /\ call.cluster = FREE
              /\ fat' = [fat EXCEPT ![c] = LAST]
              /\ Continue([call EXCEPT !.cluster = c, !.start = c])
           \/ /\ call.cluster # FREE
              /\ fat' = [fat EXCEPT ![c] = LAST, ![call.cluster] = c]
              /\ Continue([call EXCEPT !.cluster = c, !.rel = @ + 1])
  BY DEF Extend
<1>3. c \in Clusters /\ fat[c] = FREE /\ c \in Pointers
  BY FoundIsFree DEF Free, Pointers
<1>4. /\ fat \in FatType /\ Heads \in HeadsType /\ Sound(fat, Heads, FREE) /\ failed \in BOOLEAN
  BY <1>1, AtEndIs, HeadsTyped DEF HeadsOK, IInv, FatSide
<1>5. call \in CallType /\ call.rel \in Nat /\ call.file \in Files /\ call.op \in {"write", "cut"}
  BY <1>1, AtEndIs, WriterAt, OpAtPc DEF CallType
<1>6. failed' \in BOOLEAN /\ (failed => failed')
  BY <1>2, <1>4, Zenon
<1>7. CASE /\ call.cluster = FREE
           /\ fat' = [fat EXCEPT ![c] = LAST]
           /\ Continue([call EXCEPT !.cluster = c, !.start = c])
  <2> DEFINE d == [call EXCEPT !.cluster = c, !.start = c]
  <2>1. call' = d /\ sft' = sft
    BY <1>7 DEF Continue
  <2>2. /\ d \in CallType /\ d.op = call.op /\ d.pc = call.pc /\ d.s = call.s /\ d.file = call.file
        /\ d.clean = call.clean /\ d.size = call.size /\ d.offset = call.offset
        /\ d.left = call.left /\ d.from = call.from /\ d.cluster = c /\ d.start = c
    BY <1>3, <1>5 DEF CallType
  <2> HIDE DEF d
  <2>3. /\ CallSide' /\ Rest' = FREE
        /\ \A f \in Files : Head(f)' = IF f = call.file THEN c ELSE Head(f)
    BY <1>1, <1>3, <1>7, <2>1, <2>2, ExtendedCall
  <2>4. Heads' \in HeadsType /\ Heads'[call.file] = c
        /\ \A f \in Files \ {call.file} : Heads'[f] = Heads[f]
    BY <1>5, <2>3, HeadsTypedAfter, HeadsAre DEF HeadsOK
  <2>5. Sound(fat', Heads', Rest')
    BY <1>3, <1>4, <1>5, <1>7, <2>3, <2>4, StartKeeps
  <2>6. fat' \in FatType /\ FreeIn(fat') = FreeIn(fat) \ {c}
    BY <1>3, <1>4, <1>7, Marked
  <2>7. Cardinality(FreeIn(fat')) = Cardinality(FreeIn(fat)) + (-1)
    BY <1>3, <1>4, <2>6, OneLessFree, FreeCounts
  <2>8. nfree' \in 0 .. UNKNCLSTFREE /\ FreeCountExact'
    BY <1>2, <1>6, <2>7, CountAfter
  <2> QED
    BY <1>2, <1>3, <1>6, <2>3, <2>5, <2>6, <2>8, FatStep
<1>8. CASE /\ call.cluster # FREE
           /\ fat' = [fat EXCEPT ![c] = LAST, ![call.cluster] = c]
           /\ Continue([call EXCEPT !.cluster = c, !.rel = @ + 1])
  <2> DEFINE rel == call.rel + 1
             d == [call EXCEPT !.cluster = c, !.rel = rel]
  <2>1. call' = d /\ sft' = sft
    BY <1>8 DEF Continue
  <2>2. rel \in Nat /\ rel # 0
    BY <1>5
  <2> HIDE DEF rel
  <2>3. /\ d \in CallType /\ d.op = call.op /\ d.pc = call.pc /\ d.s = call.s /\ d.file = call.file
        /\ d.clean = call.clean /\ d.size = call.size /\ d.offset = call.offset
        /\ d.left = call.left /\ d.from = call.from /\ d.cluster = c /\ d.start = call.start
        /\ d.rel # 0
    BY <1>3, <1>5, <2>2 DEF CallType
  <2> HIDE DEF d
  <2>4. /\ CallSide' /\ Rest' = FREE
        /\ \A f \in Files : Head(f)' = IF f = call.file THEN call.start ELSE Head(f)
    BY <1>1, <1>3, <1>8, <2>1, <2>3, ExtendedCall
  <2>5. Head(call.file) = call.start
    <3>1. HeadIs(sft, dir, call, call.file, Head(call.file))
      BY <1>5, HeadOfFile DEF IInv, CallSide, SftInv
    <3> QED
      BY <1>5, <3>1 DEF HeadIs
  <2>6. Heads' = Heads
    <3>1. \A f \in Files : Head(f)' = Head(f)
      BY <2>4, <2>5
    <3> QED
      BY <3>1 DEF Heads
  <2>7. call.cluster \in Clusters /\ fat[call.cluster] = LAST
    BY <1>1, <1>8, AtEndIs
  <2>8. Sound(fat', Heads', Rest')
    BY <1>3, <1>4, <1>8, <2>4, <2>6, <2>7, LinkKeeps
  <2>9. fat' \in FatType /\ FreeIn(fat') = FreeIn(fat) \ {c}
    BY <1>3, <1>4, <1>8, <2>7, Linked
  <2>10. Cardinality(FreeIn(fat')) = Cardinality(FreeIn(fat)) + (-1)
    BY <1>3, <1>4, <2>9, OneLessFree, FreeCounts
  <2>11. nfree' \in 0 .. UNKNCLSTFREE /\ FreeCountExact'
    BY <1>2, <1>6, <2>10, CountAfter
  <2> QED
    BY <1>2, <1>3, <1>6, <2>4, <2>8, <2>9, <2>11, FatStep
<1> QED
  BY <1>2, <1>7, <1>8

LEMMA ExtendFailsKeeps == IInv /\ ExtendFails => IInv'
<1> SUFFICES ASSUME IInv, ExtendFails PROVE IInv'
  OBVIOUS
<1>1. Mapping /\ ~Reading /\ AtEnd /\ dir' = dir /\ NotMapped
  BY DEF ExtendFails
<1>2. PICK c \in FindFatFree :
        /\ hint' = IF c = LAST THEN UNKNCLUSTER ELSE c
        /\ \/ failed' = (failed \/ c # FirstFree) /\ UNCHANGED <<fat, nfree>>
           \/ Fault /\ UNCHANGED <<fat, nfree>>
           \/ c # LAST /\ Fault /\ fat' = [fat EXCEPT ![c] = LAST] /\ nfree' = Counted(-1)
  BY DEF ExtendFails
<1>3. /\ CallSide' /\ Rest' = FREE /\ Heads' = Heads /\ Rest = FREE
      /\ \A f \in Files : Head(f)' \in {Head(f), FREE}
  BY <1>1, NotMappedEnds, AtEndIs
<1>4. c = LAST \/ (c \in Clusters /\ fat[c] = FREE)
  BY FoundIsFree DEF Free
<1>5. hint' \in Pointers
  BY <1>2, <1>4 DEF Pointers, UNKNCLUSTER, FREE
<1>6. /\ fat \in FatType /\ Heads \in HeadsType /\ Sound(fat, Heads, Rest) /\ failed \in BOOLEAN
      /\ nfree \in 0 .. UNKNCLSTFREE
  BY HeadsTyped DEF HeadsOK, IInv, FatSide
<1>7. failed' \in BOOLEAN /\ (failed => failed')
  BY <1>2, <1>6, Zenon DEF Fault
<1>8. CASE UNCHANGED <<fat, nfree>>
  BY <1>3, <1>5, <1>7, <1>8, FatStays
<1>9. CASE c # LAST /\ Fault /\ fat' = [fat EXCEPT ![c] = LAST] /\ nfree' = Counted(-1)
  <2>1. fat' \in FatType /\ Sound(fat', Heads', Rest')
    BY <1>3, <1>4, <1>6, <1>9, Marked, MarkKeeps
  <2>2. nfree' \in 0 .. UNKNCLSTFREE
    BY <1>6, <1>9, CountedIs
  <2>3. FreeCountExact'
    BY <1>9 DEF Fault, FreeCountExact
  <2> QED
    BY <1>3, <1>5, <1>7, <2>1, <2>2, <2>3, FatStep
<1> QED
  BY <1>2, <1>8, <1>9

\* shrink_file cuts a chain.
LEMMA CutChainKeeps == IInv /\ Cut => IInv'
<1> SUFFICES ASSUME IInv, Cut PROVE IInv'
  OBVIOUS
<1> DEFINE st == call.cluster
           next == next_cluster(st)
           back == [call EXCEPT !.offset = call.from, !.from = 0]
           all == [back EXCEPT !.pc = "wipe", !.st = next, !.cluster = FREE, !.start = FREE]
           rest == [back EXCEPT !.pc = "wipe", !.st = next]
<1>1. /\ call.pc = "cut" /\ call.cluster # FREE /\ call.rel = Cl(call.offset) /\ next > 1
      /\ UNCHANGED <<dir, hint, failed>>
      /\ \/ /\ call.size = 0 /\ fat' = [fat EXCEPT ![st] = FREE]
            /\ nfree' = Counted(IF fat[st] = FREE THEN 0 ELSE 1)
            /\ call' = all /\ sft' = sft
         \/ /\ call.size # 0 /\ next # LAST /\ fat' = [fat EXCEPT ![st] = LAST]
            /\ call' = rest /\ sft' = sft /\ nfree' = nfree
         \/ Return(back) /\ UNCHANGED <<fat, nfree>>
  BY DEF Cut, There, Continue
<1>2. st \in Clusters /\ fat[st] # FREE /\ next = fat[st] /\ next \in Clusters \cup {LAST}
  BY <1>1, NextCluster
<1>3. call.op = "cut" /\ call \in CallType /\ BoundsInv(call)
  BY <1>1, OpAtPc
<1>4. WriteInv(call, sft) /\ AtCursor(call) /\ call.file \in Files
  BY <1>3, WriterAt
<1>5. /\ fat \in FatType /\ Heads \in HeadsType /\ Sound(fat, Heads, FREE) /\ failed \in BOOLEAN
      /\ hint \in Pointers /\ nfree \in 0 .. UNKNCLSTFREE /\ Rest = FREE
  BY <1>1, HeadsTyped DEF HeadsOK, IInv, FatSide, Rest
<1>6. 0 \in Offsets /\ FREE \in Pointers /\ next \in Pointers \cup {LAST}
  BY <1>2, FatConstants DEF Offsets, Pointers
<1> HIDE DEF next
<1>7. /\ back \in CallType /\ back.op = "cut" /\ back.pc = "cut" /\ back.s = call.s
      /\ back.file = call.file /\ back.clean = call.clean /\ back.start = call.start
      /\ back.cluster = st /\ back.rel = call.rel
  BY <1>1, <1>3, <1>6 DEF CallType
<1> HIDE DEF back
<1>8. \A f \in Files : HeadIs(sft, dir, call, f, Head(f)) /\ OneWriter(sft)
  BY HeadOfFile DEF IInv, CallSide, SftInv
<1>9. CASE /\ call.size = 0 /\ fat' = [fat EXCEPT ![st] = FREE]
           /\ nfree' = Counted(IF fat[st] = FREE THEN 0 ELSE 1)
           /\ call' = all /\ sft' = sft
  <2>1. /\ all \in CallType /\ all.op = "cut" /\ all.pc = "wipe" /\ all.s = call.s
        /\ all.file = call.file /\ all.clean = call.clean /\ all.start = FREE
        /\ all.cluster = FREE /\ all.st = next
    BY <1>6, <1>7 DEF CallType, Pcs
  <2> HIDE DEF all
  <2>2. WriteInv(all, sft)
    BY <1>4, <1>3, <2>1 DEF WriteInv, AtCursor
  <2>3. CallSide'
    BY <1>1, <1>9, <2>1, <2>2 DEF IInv, CallSide, CallInv, BoundsInv
  <2>4. Rest' = fat[st]
    BY <1>2, <1>9, <2>1 DEF Rest
  <2>5. ASSUME NEW f \in Files PROVE Head(f)' = IF f = call.file THEN FREE ELSE Head(f)
    <3> DEFINE h == IF f = call.file THEN FREE ELSE Head(f)
    <3>1. HeadIs(sft', dir', call', f, h)
      BY <1>1, <1>3, <1>8, <1>9, <2>1 DEF HeadIs
    <3> HIDE DEF h
    <3>2. Head(f)' = h
      BY <1>8, <1>9, <3>1, HeadAfter
    <3> QED
      BY <3>2 DEF h
  <2>6. Head(call.file) = st
    <3>1. Head(call.file) = call.start
      BY <1>3, <1>4, <1>8 DEF HeadIs
    <3>2. call.offset = 0
      BY <1>1, <1>3, <1>9 DEF BoundsInv
    <3>3. Cl(0) = 0
      BY FatConstants DEF Cl
    <3>4. call.rel = 0
      BY <1>1, <3>2, <3>3
    <3> QED
      BY <1>4, <3>1, <3>4 DEF AtCursor
  <2>7. /\ Heads' \in HeadsType /\ Heads'[call.file] = FREE /\ Heads[call.file] = st
        /\ \A f \in Files \ {call.file} : Heads'[f] = Heads[f]
    BY <1>4, <2>3, <2>5, <2>6, HeadsTypedAfter, HeadsAre DEF HeadsOK
  <2>8. Sound(fat', Heads', Rest')
    <3>1. Sound([fat EXCEPT ![Heads[call.file]] = FREE], Heads', fat[Heads[call.file]])
      BY <1>2, <1>4, <1>5, <2>7, CutAllKeeps
    <3> QED
      BY <1>9, <2>4, <2>7, <3>1
  <2>9. fat' \in FatType
    BY <1>2, <1>5, <1>9 DEF FatType, Pointers
  <2>10. nfree' = Counted(1) /\ Cardinality(FreeIn(fat')) = Cardinality(FreeIn(fat)) + 1
    BY <1>2, <1>5, <1>9, OneMoreFree
  <2>11. nfree' \in 0 .. UNKNCLSTFREE /\ FreeCountExact'
    BY <1>1, <2>10, CountAfter
  <2> QED
    BY <1>1, <1>5, <2>3, <2>8, <2>9, <2>11, FatStep
<1>10. CASE /\ call.size # 0 /\ next # LAST /\ fat' = [fat EXCEPT ![st] = LAST]
            /\ call' = rest /\ sft' = sft /\ nfree' = nfree
  <2>1. /\ rest \in CallType /\ rest.op = "cut" /\ rest.pc = "wipe" /\ rest.s = call.s
        /\ rest.file = call.file /\ rest.clean = call.clean /\ rest.start = call.start
        /\ rest.cluster = st /\ rest.rel = call.rel /\ rest.st = next
    BY <1>6, <1>7 DEF CallType, Pcs
  <2> HIDE DEF rest
  <2>2. WriteInv(rest, sft)
    BY <1>3, <1>4, <2>1 DEF WriteInv, AtCursor
  <2>3. CallSide'
    BY <1>1, <1>10, <2>1, <2>2 DEF IInv, CallSide, CallInv, BoundsInv
  <2>4. Rest' = fat[st]
    BY <1>2, <1>10, <2>1 DEF Rest
  <2>5. ASSUME NEW f \in Files PROVE Head(f)' = Head(f)
    <3>1. HeadIs(sft', dir', call', f, Head(f))
      BY <1>1, <1>3, <1>8, <1>10, <2>1 DEF HeadIs
    <3> QED
      BY <1>8, <1>10, <3>1, HeadAfter
  <2>6. Heads' = Heads
    BY <2>5 DEF Heads
  <2>7. Sound(fat', Heads', Rest')
    BY <1>2, <1>5, <1>10, <2>4, <2>6, CutKeeps
  <2>8. fat' \in FatType
    BY <1>2, <1>5, <1>10 DEF FatType, Pointers
  <2>9. FreeIn(fat') = FreeIn(fat)
    BY <1>2, <1>5, <1>10, Numbers DEF FreeIn, FatType
  <2>10. FreeCountExact'
    BY <1>1, <1>10, <2>9, FreeIs DEF IInv, FatSide, FreeCountExact
  <2> QED
    BY <1>1, <1>5, <1>10, <2>3, <2>7, <2>8, <2>10, FatStep
<1>11. CASE Return(back) /\ UNCHANGED <<fat, nfree>>
  <2>1. SameFile(back) /\ (AtCursor(call) => AtCursor(back))
    BY <1>3, <1>7 DEF SameFile, AtCursor
  <2> QED
    BY <1>1, <1>3, <1>5, <1>7, <1>11, <2>1, ReturnQuietly
<1> QED
  BY <1>1, <1>9, <1>10, <1>11

LEMMA DosFreeKeeps == IInv /\ DosFree => IInv'
<1> SUFFICES ASSUME IInv, DosFree PROVE IInv'
  OBVIOUS
<1>1. PICK seen \in SUBSET Free :
        /\ \/ seen = Free /\ UNCHANGED failed
           \/ Fault
        /\ nfree' = Cardinality(seen)
        /\ hint' = hint \/ (seen # {} /\ Least(seen, hint'))
  BY DEF DosFree
<1>2. UNCHANGED <<fat, dir, sft, call>>
  BY DEF DosFree
<1>3. seen \in SUBSET Clusters
  BY DEF Free
<1>4. nfree' \in 0 .. UNKNCLSTFREE
  BY <1>1, <1>3, FreeFinite, FatConstants DEF UNKNCLSTFREE
<1>5. hint' \in Pointers
  BY <1>1, <1>3 DEF Least, Pointers, IInv, FatSide
<1>6. failed' \in BOOLEAN
  BY <1>1 DEF Fault, IInv, FatSide
<1>7. FreeCountExact'
  BY <1>1, <1>2 DEF FreeCountExact, Fault, Free
<1>8. Heads' = Heads /\ Rest' = Rest
  BY <1>2 DEF Heads, Head, Current, Collected, Writing, Using, Rest
<1>9. CallSide'
  BY <1>2 DEF IInv, CallSide
<1> QED
  BY <1>2, <1>4, <1>5, <1>6, <1>7, <1>8, <1>9 DEF IInv, FatSide

-----------------------------------------------------------------------------
(* The types, which no loss breaks.                                        *)

\* What is at work in each place, also on tables that are not sound.
OpFits(c) ==
  /\ c.pc = "head" => c.op \in {"read", "write", "cut"}
  /\ c.pc = "extend" => c.op \in {"write", "cut"}
  /\ c.pc \in {"map", "run", "data"} => c.op \in {"read", "write"}
  /\ c.pc = "cut" => c.op = "cut"

CallOK(c) == c \in CallType /\ OpFits(c) /\ BoundsInv(c)

DiskOK ==
  /\ fat \in [Clusters -> 0 .. LAST] /\ dir \in [Files -> DirType]
  /\ hint \in Pointers /\ nfree \in 0 .. UNKNCLSTFREE

HistoryOK == failed \in BOOLEAN /\ lost \in BOOLEAN /\ (lost => failed)

TypeInv == DiskOK /\ HistoryOK /\ sft \in SftsType /\ CallOK(call)

LEMMA IdleOK == CallOK(Idle)
BY FatConstants DEF Idle, CallOK, OpFits, CallType, BoundsInv, Pcs, Ops, Pointers, Offsets, FREE

\* Whatever the FAT has: what is more than 1 is a cluster or the end.
LEMMA NextTyped ==
  ASSUME fat \in [Clusters -> 0 .. LAST], NEW c, next_cluster(c) > 1
  PROVE  c \in Clusters /\ next_cluster(c) \in Clusters \cup {LAST}
<1>1. c \in Clusters
  BY Numbers DEF next_cluster
<1>2. fat[c] \in 0 .. LAST
  BY <1>1
<1>3. next_cluster(c) \in {ERROR, fat[c]}
  BY <1>1 DEF next_cluster
<1>4. next_cluster(c) = fat[c] /\ fat[c] > 1
  BY <1>2, <1>3, Numbers
<1>5. fat[c] \in Clusters \cup {LAST}
  BY <1>2, <1>4, FatConstants DEF Clusters, LAST
<1> QED
  BY <1>1, <1>4, <1>5

LEMMA MergedTyped ==
  ASSUME NEW S \in SftsType, NEW c, c.start \in Pointers, c.size \in Offsets
  PROVE  Merged(S, c) \in SftsType
<1>1. \A t \in Sfts : S[t] \in SftType
  BY DEF SftsType
<1>2. \A t \in Sfts : [S[t] EXCEPT !.start = c.start, !.size = c.size] \in SftType
  BY <1>1 DEF SftType
<1> QED
  BY <1>1, <1>2 DEF Merged, SftsType

LEMMA ReturnTyped ==
  ASSUME sft \in SftsType, NEW c \in CallType, Return(c)
  PROVE  sft' \in SftsType /\ CallOK(call')
<1> DEFINE r == [sft[c.s] EXCEPT !.clean = c.clean, !.start = c.start, !.size = c.size,
                                 !.offset = c.offset, !.cluster = c.cluster, !.rel = c.rel]
<1>1. sft' = [sft EXCEPT ![c.s] = r] /\ call' = Idle
  BY DEF Return, Stored
<1>2. c.s \in Sfts => r \in SftType
  <2>1. c.s \in Sfts => sft[c.s] \in SftType
    BY DEF SftsType
  <2>2. /\ c.clean \in BOOLEAN /\ c.start \in Pointers /\ c.size \in Offsets
        /\ c.offset \in Offsets /\ c.cluster \in Pointers /\ c.rel \in Nat
    BY DEF CallType
  <2>3. \A e \in SftType : [e EXCEPT !.clean = c.clean, !.start = c.start, !.size = c.size,
                          !.offset = c.offset, !.cluster = c.cluster, !.rel = c.rel] \in SftType
    BY <2>2 DEF SftType
  <2> QED
    BY <2>1, <2>3
<1> HIDE DEF r
<1> QED
  BY <1>1, <1>2, IdleOK DEF SftsType

LEMMA DropTyped == sft \in SftsType /\ Drop => sft' \in SftsType /\ CallOK(call')
BY IdleOK DEF Drop

\* The call stays where it is and only its cursor moves.
SameBounds(d) ==
  /\ d \in CallType /\ d.op = call.op /\ d.pc = call.pc /\ d.offset = call.offset
  /\ d.size = call.size /\ d.left = call.left /\ d.from = call.from

LEMMA CursorTyped == \A d : CallOK(call) /\ SameBounds(d) => CallOK(d)
BY DEF SameBounds, CallOK, OpFits, BoundsInv, Wanted

LEMMA NotMappedTyped ==
  ASSUME sft \in SftsType, CallOK(call), NotMapped
  PROVE  sft' \in SftsType /\ CallOK(call')
<1>1. CASE call.pc = "run" /\ Continue([call EXCEPT !.pc = "data"])
  <2> DEFINE d == [call EXCEPT !.pc = "data"]
  <2>1. /\ d \in CallType /\ d.op = call.op /\ d.pc = "data" /\ d.offset = call.offset
        /\ d.size = call.size /\ d.left = call.left /\ d.from = call.from
    BY DEF CallOK, CallType, Pcs
  <2> HIDE DEF d
  <2>2. CallOK(d)
    BY <1>1, <2>1 DEF CallOK, OpFits, BoundsInv, Wanted
  <2> QED
    BY <1>1, <2>2 DEF Continue, d
<1>2. CASE Return(call) \/ Drop
  BY <1>2, ReturnTyped, DropTyped DEF CallOK
<1> QED
  BY <1>1, <1>2 DEF NotMapped

\* Steps that leave the SFTs and the call with their types.
SidesOK == sft' \in SftsType /\ CallOK(call')

LEMMA MapTyped ==
  TypeInv /\ (MapRestart \/ MapFollow \/ MapFails \/ Extend \/ ExtendFails) => SidesOK
<1> SUFFICES ASSUME TypeInv PROVE
      MapRestart \/ MapFollow \/ MapFails \/ Extend \/ ExtendFails => SidesOK
  OBVIOUS
<1>0. /\ fat \in [Clusters -> 0 .. LAST] /\ sft \in SftsType /\ CallOK(call)
      /\ call \in CallType /\ call.rel \in Nat /\ call.start \in Pointers
  BY DEF TypeInv, DiskOK, CallOK, CallType
<1>1. ASSUME MapRestart PROVE SidesOK
  <2>1. SameBounds([call EXCEPT !.cluster = call.start, !.rel = 0])
    BY <1>0 DEF CallType, SameBounds
  <2> QED
    BY <1>0, <1>1, <2>1, CursorTyped DEF MapRestart, Continue, SidesOK
<1> DEFINE rel == call.rel + 1
<1>r. rel \in Nat
  BY <1>0
<1>2. ASSUME MapFollow PROVE SidesOK
  <2> DEFINE c == next_cluster(call.cluster)
             d == [call EXCEPT !.cluster = c, !.rel = rel]
  <2>1. c \in Clusters /\ Continue(d)
    BY <1>2 DEF MapFollow
  <2>2. call' = d /\ sft' = sft
    BY <2>1 DEF Continue
  <2> HIDE DEF c, rel
  <2>3. SameBounds(d)
    BY <1>0, <1>r, <2>1 DEF CallType, SameBounds, Pointers
  <2> QED
    BY <1>0, <2>2, <2>3, CursorTyped DEF SidesOK
<1>3. ASSUME MapFails \/ ExtendFails PROVE SidesOK
  BY <1>0, <1>3, NotMappedTyped DEF MapFails, ExtendFails, SidesOK
<1>4. ASSUME Extend PROVE SidesOK
  <2>1. PICK c \in Clusters :
          \/ call' = [call EXCEPT !.cluster = c, !.start = c] /\ sft' = sft
          \/ call' = [call EXCEPT !.cluster = c, !.rel = @ + 1] /\ sft' = sft
    <3>1. PICK c \in FindFatFree \ {LAST} :
            \/ Continue([call EXCEPT !.cluster = c, !.start = c])
            \/ Continue([call EXCEPT !.cluster = c, !.rel = @ + 1])
      BY <1>4 DEF Extend
    <3>2. c \in Clusters
      BY <3>1, FoundIsFree DEF Free
    <3> QED
      BY <3>1, <3>2 DEF Continue
  <2>2. c \in Pointers
    BY DEF Pointers
  <2> DEFINE first == [call EXCEPT !.cluster = c, !.start = c]
             more == [call EXCEPT !.cluster = c, !.rel = rel]
  <2>3. call' \in {first, more} /\ sft' = sft
    BY <2>1
  <2> HIDE DEF rel
  <2>4. SameBounds(first) /\ SameBounds(more)
    BY <1>0, <1>r, <2>2 DEF CallType, SameBounds
  <2>5. CallOK(first) /\ CallOK(more)
    BY <1>0, <2>4, CursorTyped
  <2> HIDE DEF first, more
  <2> QED
    BY <1>0, <2>3, <2>5 DEF SidesOK
<1> QED
  BY <1>1, <1>2, <1>3, <1>4

\* The beginning of a call and the loop over the sectors.
LEMMA HeadTyped ==
  TypeInv /\ (Extended \/ Finish \/ Position) => SidesOK
<1> SUFFICES ASSUME TypeInv PROVE Extended \/ Finish \/ Position => SidesOK
  OBVIOUS
<1>0. sft \in SftsType /\ CallOK(call) /\ call \in CallType
  BY DEF TypeInv, CallOK
<1>1. ASSUME Extended PROVE SidesOK
  <2> DEFINE c == [call EXCEPT !.pc = "head", !.size = call.offset]
  <2>1. /\ c \in CallType /\ c.op = call.op /\ c.pc = "head" /\ c.offset = call.offset
        /\ c.left = call.left /\ c.start \in Pointers /\ c.size \in Offsets
    BY <1>0 DEF CallType, Pcs
  <2>2. call' = c /\ sft' = Merged(sft, c) /\ call.pc = "extend"
    BY <1>1 DEF Extended
  <2> HIDE DEF c
  <2>3. CallOK(c)
    BY <1>0, <2>1, <2>2 DEF CallOK, OpFits, BoundsInv
  <2> QED
    BY <1>0, <2>1, <2>2, <2>3, MergedTyped DEF SidesOK
<1>2. ASSUME Finish PROVE SidesOK
  BY <1>0, <1>2, ReturnTyped DEF Finish, SidesOK
<1>3. ASSUME Position PROVE SidesOK
  <2> DEFINE c == [call EXCEPT !.pc = "map"]
  <2>1. /\ c \in CallType /\ c.op = call.op /\ c.pc = "map" /\ c.offset = call.offset
        /\ c.size = call.size /\ c.left = call.left
    BY <1>0 DEF CallType, Pcs
  <2>2. /\ call' = c /\ sft' = sft /\ call.pc = "head" /\ call.op # "cut"
        /\ call.op = "read" => call.offset < call.size
    BY <1>3 DEF Position, Continue
  <2> HIDE DEF c
  <2>3. CallOK(c)
    BY <1>0, <2>1, <2>2 DEF CallOK, OpFits, BoundsInv
  <2> QED
    BY <1>0, <2>2, <2>3 DEF SidesOK
<1> QED
  BY <1>1, <1>2, <1>3

LEMMA TakenTyped ==
  ASSUME NEW c \in CallType, c.from <= c.offset, c.offset <= Wanted(c), Wanted(c) <= MaxOffset,
         c.op \in {"read", "write"}
  PROVE  CallOK(Taken(c))
<1>1. IsTaken(c, Taken(c))
  BY TakenBounds
<1> QED
  BY <1>1, TakenFits DEF IsTaken, CallOK, OpFits

\* Transfers.
LEMMA DataTyped ==
  TypeInv /\ (FirstCluster \/ AnotherCluster \/ Transfer \/ TransferFails) => SidesOK
<1> SUFFICES ASSUME TypeInv
             PROVE  FirstCluster \/ AnotherCluster \/ Transfer \/ TransferFails => SidesOK
  OBVIOUS
<1>0. /\ sft \in SftsType /\ CallOK(call) /\ call \in CallType
      /\ call.offset \in Nat /\ call.from \in Nat /\ call.left \in Nat /\ call.size \in Nat
      /\ call.start \in Pointers /\ call.size \in Offsets /\ MaxOffset \in Nat
  BY FatConstants DEF TypeInv, CallOK, CallType, Offsets
<1>1. ASSUME FirstCluster PROVE SidesOK
  <2> DEFINE c == [call EXCEPT !.from = call.offset, !.st = call.cluster]
  <2>1. /\ c \in CallType /\ c.op = call.op /\ c.offset = call.offset /\ c.from = call.offset
        /\ c.size = call.size /\ c.left = call.left
    BY <1>0 DEF CallType
  <2>2. /\ call.pc = "map" /\ call' = Taken(c)
        /\ sft' = IF call.op = "write" THEN Merged(sft, call) ELSE sft
    BY <1>1 DEF FirstCluster
  <2> HIDE DEF c
  <2>3. /\ call.op \in {"read", "write"}
        /\ call.op = "write" => call.offset + call.left <= MaxOffset
        /\ call.op = "read" => call.offset < call.size /\ call.size <= MaxOffset
    BY <1>0, <2>2 DEF CallOK, OpFits, BoundsInv, Offsets
  <2>4. c.offset <= Wanted(c) /\ Wanted(c) <= MaxOffset
    BY <1>0, <2>1, <2>3 DEF Wanted, Smaller
  <2>5. CallOK(call')
    BY <1>0, <2>1, <2>2, <2>3, <2>4, TakenTyped
  <2> QED
    BY <1>0, <2>2, <2>5, MergedTyped DEF SidesOK
<1>2. ASSUME AnotherCluster PROVE SidesOK
  <2>1. /\ call.pc = "run" /\ sft' = sft
        /\ call' \in {Taken(call), [call EXCEPT !.pc = "data"]}
    BY <1>2 DEF AnotherCluster, Continue
  <2>2. CASE call' = Taken(call)
    <3>1. /\ call.op \in {"read", "write"} /\ call.from <= call.offset
          /\ call.offset <= Wanted(call) /\ Wanted(call) <= MaxOffset
      BY <1>0, <2>1 DEF CallOK, OpFits, BoundsInv
    <3> QED
      BY <1>0, <2>1, <2>2, <3>1, TakenTyped DEF SidesOK
  <2>3. CASE call' = [call EXCEPT !.pc = "data"]
    <3> DEFINE d == [call EXCEPT !.pc = "data"]
    <3>1. /\ d \in CallType /\ d.op = call.op /\ d.pc = "data" /\ d.offset = call.offset
          /\ d.size = call.size /\ d.left = call.left /\ d.from = call.from
      BY <1>0 DEF CallType, Pcs
    <3> HIDE DEF d
    <3>2. CallOK(d)
      BY <1>0, <2>1, <3>1 DEF CallOK, OpFits, BoundsInv, Wanted
    <3> QED
      BY <1>0, <2>1, <2>3, <3>2 DEF SidesOK, d
  <2> QED
    BY <2>1, <2>2, <2>3
<1>3. ASSUME Transfer PROVE SidesOK
  <2> DEFINE m == call.left - (call.offset - call.from)
             z == IF call.op = "write" /\ call.offset > call.size THEN call.offset ELSE call.size
             c == [call EXCEPT !.pc = "head", !.left = m, !.size = z]
             d == [c EXCEPT !.from = 0, !.st = FREE]
  <2>1. /\ call.pc = "data" /\ call' = d
        /\ sft' = IF call.op = "write" THEN Merged(sft, c) ELSE sft
    BY <1>3 DEF Transfer
  <2>2. /\ call.op \in {"read", "write"} /\ call.from <= call.offset
        /\ call.offset <= Wanted(call) /\ Wanted(call) <= MaxOffset
    BY <1>0, <2>1 DEF CallOK, OpFits, BoundsInv
  <2>3. m \in Nat /\ (call.op = "write" => call.offset + m <= MaxOffset)
    BY <1>0, <2>2 DEF Wanted, Smaller
  <2>4. z \in Offsets /\ 0 \in Offsets
    BY <1>0, FatConstants DEF Offsets, CallType
  <2> HIDE DEF m, z
  <2>5. c \in CallType /\ c.start \in Pointers /\ c.size \in Offsets
    BY <1>0, <2>3, <2>4 DEF CallType, Pcs
  <2>6. /\ d \in CallType /\ d.op = call.op /\ d.pc = "head" /\ d.offset = call.offset
        /\ d.left = m
    BY <1>0, <2>3, <2>4 DEF CallType, Pcs, Pointers
  <2> HIDE DEF c, d
  <2>7. CallOK(d)
    BY <2>2, <2>3, <2>6 DEF CallOK, OpFits, BoundsInv
  <2> QED
    BY <1>0, <2>1, <2>5, <2>7, MergedTyped DEF SidesOK
<1>4. ASSUME TransferFails PROVE SidesOK
  <2>1. [call EXCEPT !.offset = call.from] \in CallType
    BY <1>0 DEF CallType
  <2> QED
    BY <1>0, <1>4, <2>1, ReturnTyped DEF TransferFails, SidesOK
<1> QED
  BY <1>1, <1>2, <1>3, <1>4

\* A chain that is wiped out or cut.
LEMMA CutTyped ==
  TypeInv /\ (WipeCluster \/ Shrink \/ Cut \/ CutFails) => SidesOK
<1> SUFFICES ASSUME TypeInv PROVE WipeCluster \/ Shrink \/ Cut \/ CutFails => SidesOK
  OBVIOUS
<1>0. /\ fat \in [Clusters -> 0 .. LAST] /\ sft \in SftsType /\ CallOK(call)
      /\ call \in CallType /\ call.offset \in Nat /\ call.offset <= MaxOffset
      /\ 0 \in Offsets /\ MaxOffset \in Nat
  BY FatConstants DEF TypeInv, DiskOK, CallOK, CallType, Offsets
<1>1. ASSUME WipeCluster PROVE SidesOK
  <2> DEFINE n == next_cluster(call.st)
             c == [call EXCEPT !.st = n]
  <2>1. call' = c /\ sft' = sft /\ n > 1
    BY <1>1 DEF WipeCluster, Continue
  <2>2. n \in Pointers \cup {LAST}
    BY <1>0, <2>1, NextTyped DEF Pointers
  <2> HIDE DEF n
  <2>3. SameBounds(c)
    BY <1>0, <2>2 DEF CallType, SameBounds
  <2> QED
    BY <1>0, <2>1, <2>3, CursorTyped DEF SidesOK
<1>2. ASSUME Shrink PROVE SidesOK
  <2> DEFINE c == [call EXCEPT !.size = call.offset]
             o == IF c.offset = 0 THEN 0 ELSE c.offset - 1
             d == [c EXCEPT !.pc = "cut", !.from = c.offset,
                            !.offset = IF @ = 0 THEN 0 ELSE @ - 1]
  <2>1. call.op = "cut" /\ (Return(c) \/ Continue(d))
    BY <1>2 DEF Shrink
  <2>2. c \in CallType /\ c.op = call.op /\ c.offset = call.offset /\ c.size = call.offset
    BY <1>0 DEF CallType
  <2>3. o \in Offsets
    BY <1>0, <2>2 DEF Offsets
  <2>4. /\ d \in CallType /\ d.op = "cut" /\ d.pc = "cut" /\ d.from = call.offset
        /\ d.size = call.offset /\ d.offset = o
    BY <1>0, <2>1, <2>2, <2>3 DEF CallType, Pcs
  <2>5. CallOK(d)
    BY <2>2, <2>4 DEF CallOK, OpFits, BoundsInv
  <2> HIDE DEF c, d
  <2> QED
    BY <1>0, <2>1, <2>2, <2>5, ReturnTyped DEF SidesOK, Continue
<1>3. ASSUME Cut PROVE SidesOK
  <2> DEFINE n == next_cluster(call.cluster)
             back == [call EXCEPT !.offset = call.from, !.from = 0]
             all == [back EXCEPT !.pc = "wipe", !.st = n, !.cluster = FREE, !.start = FREE]
             rest == [back EXCEPT !.pc = "wipe", !.st = n]
  <2>1. /\ n > 1
        /\ Return(back) \/ Continue(all) \/ Continue(rest)
    BY <1>3 DEF Cut
  <2>2. n \in Pointers \cup {LAST}
    BY <1>0, <2>1, NextTyped DEF Pointers
  <2> HIDE DEF n
  <2>3. back \in CallType
    BY <1>0 DEF CallType
  <2>4. all \in CallType /\ all.pc = "wipe" /\ rest \in CallType /\ rest.pc = "wipe"
    BY <2>2, <2>3 DEF CallType, Pcs, Pointers
  <2> HIDE DEF back, all, rest
  <2>5. CallOK(all) /\ CallOK(rest)
    BY <2>4 DEF CallOK, OpFits, BoundsInv
  <2> QED
    BY <1>0, <2>1, <2>3, <2>5, ReturnTyped DEF SidesOK, Continue
<1>4. ASSUME CutFails PROVE SidesOK
  BY <1>0, <1>4, DropTyped DEF CutFails, SidesOK
<1> QED
  BY <1>1, <1>2, <1>3, <1>4

\* Calls of programs.
LEMMA OpenedTyped ==
  ASSUME NEW f \in Files \cup {NoFile}, NEW w \in BOOLEAN, NEW e,
         e.start \in Pointers, e.size \in Offsets
  PROVE  Opened(f, w, e) \in SftType
BY ClosedIs DEF Opened, SftType

LEMMA CreatedTyped ==
  ASSUME sft \in SftsType, NEW s, NEW f \in Files \cup {NoFile}, Created(s, f)
  PROVE  SidesOK
<1> DEFINE new == [NoEntry EXCEPT !.used = TRUE]
           S == [sft EXCEPT ![s] = Opened(f, TRUE, new)]
           c == [Idle EXCEPT !.s = s, !.file = f]
<1>1. sft' = Merged(S, c) /\ call' = Idle
  BY DEF Created
<1>2. new.start \in Pointers /\ new.size \in Offsets
  BY FatConstants DEF NoEntry, Pointers, Offsets
<1>3. S \in SftsType
  BY <1>2, OpenedTyped DEF SftsType
<1>4. c.start \in Pointers /\ c.size \in Offsets
  BY FatConstants DEF Idle, Pointers, Offsets
<1> HIDE DEF S, c
<1> QED
  BY <1>1, <1>3, <1>4, MergedTyped, IdleOK DEF SidesOK

\* A chain is wiped out only in calls that have a place for it.
LEMMA WipeTyped ==
  ASSUME TypeInv, NEW s \in {NoSft} \cup Sfts, NEW f \in Files, NEW o \in {"create", "delete"},
         NEW c, \/ c = [Idle EXCEPT !.pc = "wipe", !.op = o, !.s = s, !.file = f, !.st = dir[f].start]
                \/ c = [Idle EXCEPT !.pc = "wipe", !.op = o, !.file = f, !.st = dir[f].start]
  PROVE  CallOK(c)
<1>1. dir[f].start \in Pointers
  BY DEF TypeInv, DiskOK, DirType
<1>2. Idle \in CallType
  BY IdleOK DEF CallOK
<1>3. "wipe" \in Pcs /\ o \in Ops
  BY DEF Pcs, Ops
<1> HIDE DEF Pcs, Ops
<1>4. c \in CallType /\ c.pc = "wipe" /\ c.op = o
  <2>1. CASE c = [Idle EXCEPT !.pc = "wipe", !.op = o, !.s = s, !.file = f, !.st = dir[f].start]
    BY <1>1, <1>2, <1>3, <2>1 DEF CallType
  <2>2. CASE c = [Idle EXCEPT !.pc = "wipe", !.op = o, !.file = f, !.st = dir[f].start]
    BY <1>1, <1>2, <1>3, <2>2 DEF CallType
  <2> QED
    BY <2>1, <2>2
<1> QED
  BY <1>4 DEF CallOK, OpFits, BoundsInv

LEMMA UpdateTyped ==
  ASSUME TypeInv, NEW s \in Sfts, NEW after \in SftType, Update(s, after)
  PROVE  SidesOK
<1> DEFINE S == [sft EXCEPT ![s] = after]
<1>1. S \in SftsType /\ CallOK(call) /\ sft \in SftsType
  BY DEF TypeInv, SftsType
<1>2. sft' \in {S, Merged(S, FromSft(s))} /\ call' = call
  BY DEF Update
<1>3. FromSft(s).start \in Pointers /\ FromSft(s).size \in Offsets
  BY <1>1, FromSftFields DEF CallType
<1> HIDE DEF S
<1> QED
  BY <1>1, <1>2, <1>3, MergedTyped DEF SidesOK

LEMMA BegunTyped ==
  ASSUME sft \in SftsType, NEW s \in Sfts, NEW p, NEW o, NEW n, NEW k, NEW c,
         BegunIs(c, s, p, o, n, k),
         \/ p = "head" /\ o = "read"
         \/ p \in {"extend", "head"} /\ o \in {"cut", "write"} /\ sft[s].offset + n <= MaxOffset
  PROVE  CallOK(c)
BY DEF BegunIs, CallOK, OpFits, BoundsInv

LEMMA ProgramTyped == TypeInv /\ Program => SidesOK
<1> SUFFICES ASSUME TypeInv, Program PROVE SidesOK
  OBVIOUS
<1>0. sft \in SftsType /\ CallOK(call) /\ dir \in [Files -> DirType]
  BY DEF TypeInv, DiskOK
<1>1. ASSUME NEW s \in Sfts, NEW f \in Files, Create(s, f) PROVE SidesOK
  BY <1>0, <1>1, CreatedTyped DEF Create
<1>2. ASSUME NEW s \in Sfts, NEW f \in Files, Truncate(s, f) PROVE SidesOK
  <2> DEFINE c == [Idle EXCEPT !.pc = "wipe", !.op = "create", !.s = s, !.file = f,
                               !.st = dir[f].start]
  <2>1. call' = c /\ sft' = sft
    BY <1>2 DEF Truncate, Continue
  <2>2. CallOK(c)
    BY WipeTyped
  <2> QED
    BY <1>0, <2>1, <2>2 DEF SidesOK
<1>3. ASSUME NEW f \in Files, Delete(f) PROVE SidesOK
  <2> DEFINE c == [Idle EXCEPT !.pc = "wipe", !.op = "delete", !.file = f, !.st = dir[f].start]
  <2>1. call' = c /\ sft' = sft
    BY <1>3 DEF Delete, Continue
  <2>2. CallOK(c)
    BY WipeTyped
  <2> QED
    BY <1>0, <2>1, <2>2 DEF SidesOK
<1>4. ASSUME NEW s \in Sfts, NEW f \in Files, NEW w \in Modes, Open(s, f, w) PROVE SidesOK
  <2> DEFINE e == Collected(f)
  <2>1. sft' = [sft EXCEPT ![s] = Opened(f, w, e)] /\ call' = call
    BY <1>4 DEF Open
  <2>2. e.start \in Pointers /\ e.size \in Offsets
    <3>1. CASE Writing(f) = {}
      BY <1>0, <3>1 DEF Collected, DirType
    <3>2. CASE Writing(f) # {}
      <4>1. (CHOOSE t \in Writing(f) : TRUE) \in Sfts
        BY <3>2 DEF Writing, Using
      <4> QED
        BY <1>0, <3>2, <4>1 DEF Collected, SftsType, SftType
    <3> QED
      BY <3>1, <3>2
  <2>3. w \in BOOLEAN
    BY FatConstants
  <2> HIDE DEF e
  <2>4. Opened(f, w, e) \in SftType
    BY <2>2, <2>3, OpenedTyped
  <2> QED
    BY <1>0, <2>1, <2>4 DEF SftsType, SidesOK
<1>5. ASSUME NEW s \in Sfts, Commit(s) \/ Close(s) PROVE SidesOK
  <2>1. sft[s] \in SftType /\ Closed \in SftType
    BY <1>0, ClosedIs DEF SftsType
  <2> QED
    BY <1>5, <2>1, UpdateTyped DEF Commit, Close
<1>6. ASSUME NEW s \in Sfts, NEW offset \in SeekTo, Seek(s, offset) PROVE SidesOK
  <2>1. offset \in Offsets
    BY FatConstants DEF Offsets
  <2>2. sft' = [sft EXCEPT ![s].offset = offset] /\ call' = call
    BY <1>6 DEF Seek
  <2>3. sft' \in SftsType
    BY <1>0, <2>1, <2>2 DEF SftsType, SftType
  <2> QED
    BY <1>0, <2>2, <2>3 DEF SidesOK
<1>7. ASSUME NEW s \in Sfts, NEW n \in ReadCounts, Read(s, n) PROVE SidesOK
  BY <1>0, <1>7, ReadBegins, BegunTyped DEF SidesOK
<1>8. ASSUME NEW s \in Sfts, NEW n \in WriteCounts, Write(s, n) PROVE SidesOK
  <2>1. /\ sft[s].offset + n <= MaxOffset /\ sft' = sft
        /\ \E o \in {"cut", "write"}, p \in {"extend", "head"} : BegunIs(call', s, p, o, n, FALSE)
    BY <1>0, <1>8, WriteBegins
  <2>2. PICK o \in {"cut", "write"}, p \in {"extend", "head"} : BegunIs(call', s, p, o, n, FALSE)
    BY <2>1
  <2>3. CallOK(call')
    BY <1>0, <2>1, <2>2, BegunTyped
  <2> QED
    BY <1>0, <2>1, <2>3 DEF SidesOK
<1>9. ASSUME DosFree PROVE SidesOK
  BY <1>0, <1>9 DEF DosFree, SidesOK
<1> QED
  BY <1>1, <1>2, <1>3, <1>4, <1>5, <1>6, <1>7, <1>8, <1>9 DEF Program

LEMMA WipeEndsTyped == TypeInv /\ WipeEnds => SidesOK
<1> SUFFICES ASSUME TypeInv, WipeEnds PROVE SidesOK
  OBVIOUS
<1>1. sft \in SftsType /\ call \in CallType
  BY DEF TypeInv, CallOK
<1>2. call.file \in Files \cup {NoFile}
  BY <1>1 DEF CallType
<1>3. Created(call.s, call.file) \/ Drop \/ Return(call)
  BY DEF WipeEnds, Wiped
<1> QED
  BY <1>1, <1>2, <1>3, CreatedTyped, DropTyped, ReturnTyped DEF SidesOK

LEMMA LossesTyped == TypeInv /\ Losses => SidesOK
<1> SUFFICES ASSUME TypeInv, Losses PROVE SidesOK
  OBVIOUS
<1>1. sft \in SftsType /\ CallOK(call)
  BY DEF TypeInv
<1>2. ASSUME NEW s \in Sfts, UpdateUnwritten(s) PROVE SidesOK
  <2>1. sft' \in {sft, Merged(sft, FromSft(s))} /\ call' = call
    BY <1>2 DEF UpdateUnwritten
  <2>2. FromSft(s).start \in Pointers /\ FromSft(s).size \in Offsets
    BY <1>1, FromSftFields DEF CallType
  <2> QED
    BY <1>1, <2>1, <2>2, MergedTyped DEF SidesOK
<1>3. ASSUME NEW s \in Sfts, NEW f \in Files, CreateUnwritten(s, f) PROVE SidesOK
  BY <1>1, <1>3 DEF CreateUnwritten, SidesOK
<1>4. ASSUME WipeUnwritten PROVE SidesOK
  BY <1>1, <1>4, DropTyped DEF WipeUnwritten, SidesOK
<1>5. ASSUME BufferLost PROVE SidesOK
  BY <1>1, <1>5 DEF BufferLost, SidesOK
<1> QED
  BY <1>2, <1>3, <1>4, <1>5 DEF Losses

LEMMA SidesTyped == TypeInv /\ Next => SidesOK
BY ProgramTyped, LossesTyped, MapTyped, HeadTyped, DataTyped, CutTyped, WipeEndsTyped
   DEF Next, Kernel

LEMMA KernelHistory ==
  HistoryOK /\ Kernel => lost' = lost /\ failed' \in BOOLEAN /\ (failed => failed')
<1> SUFFICES ASSUME HistoryOK, Kernel
             PROVE  lost' = lost /\ failed' \in BOOLEAN /\ (failed => failed')
  OBVIOUS
<1>1. failed \in BOOLEAN
  BY DEF HistoryOK
<1>2. CASE MapFails \/ WipeEnds \/ CutFails
  BY <1>1, <1>2 DEF MapFails, WipeEnds, CutFails, Fault
<1>3. CASE Extend
  <2>1. lost' = lost /\ \E c \in FindFatFree : failed' = (failed \/ c # FirstFree)
    BY <1>3 DEF Extend
  <2> QED
    BY <1>1, <2>1
<1>4. CASE ExtendFails
  <2>1. lost' = lost /\ \E c \in FindFatFree : failed' = (failed \/ c # FirstFree) \/ failed' = TRUE
    BY <1>4 DEF ExtendFails, Fault
  <2> QED
    BY <1>1, <2>1
<1>5. CASE WipeCluster \/ MapRestart \/ MapFollow \/ Cut \/ Shrink
  BY <1>1, <1>5 DEF WipeCluster, MapRestart, MapFollow, Cut, Shrink
<1>6. CASE Extended \/ Finish \/ Position \/ FirstCluster \/ AnotherCluster \/ Transfer \/ TransferFails
  BY <1>1, <1>6 DEF Extended, Finish, Position, FirstCluster, AnotherCluster, Transfer, TransferFails
<1> QED
  BY <1>2, <1>3, <1>4, <1>5, <1>6 DEF Kernel

\* A step that changes the history is a loss or an access that fails.
LEMMA HistoryTyped == TypeInv /\ Next => HistoryOK'
<1> SUFFICES ASSUME TypeInv, Next PROVE HistoryOK'
  OBVIOUS
<1>1. HistoryOK
  BY DEF TypeInv
<1>2. ASSUME Losses PROVE failed' = TRUE /\ lost' = TRUE
  BY <1>2 DEF Losses, BufferLost, WipeUnwritten, CreateUnwritten, UpdateUnwritten, NotWritten, Lose
<1>3. ASSUME Program PROVE lost' = lost /\ (failed' = failed \/ failed' = TRUE)
  BY <1>3 DEF Program, Create, Truncate, Open, Delete, Commit, Close, Update, Seek, Read, Write,
     DosFree, Fault
<1>4. ASSUME Kernel PROVE lost' = lost /\ failed' \in BOOLEAN /\ (failed => failed')
  BY <1>1, <1>4, KernelHistory
<1>5. ASSUME Losses PROVE HistoryOK'
  BY <1>2, <1>5 DEF HistoryOK
<1>6. ASSUME Program PROVE HistoryOK'
  <2>1. CASE failed' = failed
    BY <1>1, <1>3, <1>6, <2>1 DEF HistoryOK
  <2>2. CASE failed' = TRUE
    BY <1>1, <1>3, <1>6, <2>2 DEF HistoryOK
  <2> QED
    BY <1>3, <1>6, <2>1, <2>2
<1>7. ASSUME Kernel PROVE HistoryOK'
  BY <1>1, <1>4, <1>7 DEF HistoryOK
<1> QED
  BY <1>5, <1>6, <1>7 DEF Next

\* An entry of the FAT, and one of the directory.
LEMMA FatEntry ==
  ASSUME NEW F \in [Clusters -> 0 .. LAST], NEW c, NEW e \in 0 .. LAST
  PROVE  [F EXCEPT ![c] = e] \in [Clusters -> 0 .. LAST]
OBVIOUS

LEMMA DirEntry ==
  ASSUME NEW D \in [Files -> DirType], NEW f, NEW e \in DirType
  PROVE  [D EXCEPT ![f] = e] \in [Files -> DirType]
OBVIOUS

LEMMA FatNumbers ==
  /\ FREE \in 0 .. LAST /\ LAST \in 0 .. LAST /\ Clusters \subseteq 0 .. LAST
  /\ NoEntry \in DirType /\ [NoEntry EXCEPT !.used = TRUE] \in DirType
  /\ FREE \in Pointers /\ Clusters \subseteq Pointers
<1>1. FREE \in 0 .. LAST /\ LAST \in 0 .. LAST /\ Clusters \subseteq 0 .. LAST
  BY FatConstants DEF FREE, LAST, Clusters
<1>2. FREE \in Pointers /\ Clusters \subseteq Pointers /\ 0 \in Offsets
  BY FatConstants DEF Pointers, Offsets
<1>3. NoEntry \in DirType
  BY <1>2 DEF NoEntry, DirType
<1>4. [NoEntry EXCEPT !.used = TRUE] \in DirType
  BY <1>3 DEF DirType
<1> QED
  BY <1>1, <1>2, <1>3, <1>4

LEMMA ProgramDisk == TypeInv /\ Program => DiskOK'
<1> SUFFICES ASSUME TypeInv, Program PROVE DiskOK'
  OBVIOUS
<1>0. DiskOK /\ sft \in SftsType
  BY DEF TypeInv
<1>1. ASSUME NEW s \in Sfts, NEW f \in Files, Create(s, f) PROVE DiskOK'
  <2>1. /\ dir' = [dir EXCEPT ![f] = [NoEntry EXCEPT !.used = TRUE]]
        /\ UNCHANGED <<fat, hint, nfree>>
    BY <1>1 DEF Create, Created
  <2> QED
    BY <1>0, <2>1, FatEntry, DirEntry, FatNumbers DEF DiskOK
<1>2. ASSUME NEW s \in Sfts, NEW after, Update(s, after) PROVE DiskOK'
  <2> DEFINE e == [used |-> TRUE, start |-> sft[s].start, size |-> sft[s].size]
  <2>1. e \in DirType
    BY <1>0 DEF SftsType, SftType, DirType
  <2>2. dir' \in {dir, [dir EXCEPT ![sft[s].file] = e]} /\ UNCHANGED <<fat, hint, nfree>>
    BY <1>2 DEF Update
  <2> HIDE DEF e
  <2> QED
    BY <1>0, <2>1, <2>2, FatEntry, DirEntry DEF DiskOK
<1>3. ASSUME DosFree PROVE DiskOK'
  <2>1. PICK seen \in SUBSET Free :
          /\ nfree' = Cardinality(seen)
          /\ hint' = hint \/ (seen # {} /\ Least(seen, hint'))
    BY <1>3 DEF DosFree
  <2>2. seen \in SUBSET Clusters
    BY DEF Free
  <2>3. nfree' \in 0 .. UNKNCLSTFREE
    BY <2>1, <2>2, FreeFinite, FatConstants DEF UNKNCLSTFREE
  <2>4. hint' \in Pointers
    BY <1>0, <2>1, <2>2 DEF Least, Pointers, DiskOK
  <2>5. UNCHANGED <<fat, dir>>
    BY <1>3 DEF DosFree
  <2> QED
    BY <1>0, <2>3, <2>4, <2>5 DEF DiskOK
<1>4. ASSUME UNCHANGED <<fat, dir, hint, nfree>> PROVE DiskOK'
  BY <1>0, <1>4 DEF DiskOK
<1>5. ASSUME NEW s \in Sfts, NEW f \in Files, Truncate(s, f) PROVE DiskOK'
  BY <1>4, <1>5 DEF Truncate
<1>6. ASSUME NEW s \in Sfts, NEW f \in Files, NEW w \in Modes, Open(s, f, w) PROVE DiskOK'
  BY <1>4, <1>6 DEF Open
<1>7. ASSUME NEW f \in Files, Delete(f) PROVE DiskOK'
  BY <1>4, <1>7 DEF Delete
<1>8. ASSUME NEW s \in Sfts, NEW offset \in SeekTo, Seek(s, offset) PROVE DiskOK'
  BY <1>4, <1>8 DEF Seek
<1>9. ASSUME NEW s \in Sfts, NEW n \in ReadCounts, Read(s, n) PROVE DiskOK'
  BY <1>4, <1>9 DEF Read
<1>10. ASSUME NEW s \in Sfts, NEW n \in WriteCounts, Write(s, n) PROVE DiskOK'
  BY <1>4, <1>10 DEF Write
<1> QED
  BY <1>1, <1>2, <1>3, <1>5, <1>6, <1>7, <1>8, <1>9, <1>10 DEF Program, Commit, Close

LEMMA KernelDisk == TypeInv /\ Kernel => DiskOK'
<1> SUFFICES ASSUME TypeInv, Kernel PROVE DiskOK'
  OBVIOUS
<1>0. DiskOK /\ fat \in [Clusters -> 0 .. LAST] /\ nfree \in 0 .. UNKNCLSTFREE
  BY DEF TypeInv, DiskOK
<1>n. \A i \in {-1, 0, 1} : Counted(i) \in 0 .. UNKNCLSTFREE
  BY <1>0, CountedIs
<1>1. ASSUME WipeCluster PROVE DiskOK'
  <2>1. call.st \in Clusters
    BY <1>0, <1>1, NextTyped DEF WipeCluster
  <2>2. /\ fat' = [fat EXCEPT ![call.st] = FREE] /\ hint' \in {hint, call.st} /\ dir' = dir
        /\ nfree' \in {Counted(0), Counted(1)}
    BY <1>1 DEF WipeCluster
  <2> QED
    BY <1>0, <1>n, <2>1, <2>2, FatEntry, DirEntry, FatNumbers DEF DiskOK
<1>2. ASSUME WipeEnds PROVE DiskOK'
  <2> DEFINE new == [NoEntry EXCEPT !.used = TRUE]
  <2>1. /\ dir' \in {dir, [dir EXCEPT ![call.file] = new], [dir EXCEPT ![call.file] = NoEntry]}
        /\ UNCHANGED <<fat, hint, nfree>>
    BY <1>2 DEF WipeEnds, Wiped, Created
  <2>2. new \in DirType /\ NoEntry \in DirType /\ dir \in [Files -> DirType]
    BY <1>0, FatNumbers DEF DiskOK
  <2> HIDE DEF new
  <2>3. dir' \in [Files -> DirType]
    BY <2>1, <2>2, FatEntry, DirEntry
  <2> QED
    BY <1>0, <2>1, <2>3 DEF DiskOK
<1>3. ASSUME Extend PROVE DiskOK'
  <2>1. PICK c \in FindFatFree \ {LAST} :
          LET marked == [fat EXCEPT ![c] = LAST]
          IN /\ hint' = c /\ nfree' = Counted(-1) /\ dir' = dir
             /\ fat' \in {marked, [marked EXCEPT ![call.cluster] = c]}
    BY <1>3 DEF Extend
  <2>2. c \in Clusters
    BY <2>1, FoundIsFree DEF Free
  <2>3. fat' \in [Clusters -> 0 .. LAST]
    BY <1>0, <2>1, <2>2, FatNumbers
  <2> QED
    BY <1>0, <1>n, <2>1, <2>2, <2>3, FatNumbers DEF DiskOK
<1>4. ASSUME ExtendFails PROVE DiskOK'
  <2>1. PICK c \in FindFatFree :
          /\ hint' = (IF c = LAST THEN UNKNCLUSTER ELSE c) /\ dir' = dir
          /\ \/ UNCHANGED <<fat, nfree>>
             \/ fat' = [fat EXCEPT ![c] = LAST] /\ nfree' = Counted(-1)
    BY <1>4 DEF ExtendFails
  <2>2. hint' \in Pointers
    BY <2>1, FoundIsFree, FatNumbers DEF Free, UNKNCLUSTER, FREE
  <2> QED
    BY <1>0, <1>n, <2>1, <2>2, FatEntry, DirEntry, FatNumbers DEF DiskOK
<1>5. ASSUME Cut PROVE DiskOK'
  <2>1. /\ fat' \in {fat, [fat EXCEPT ![call.cluster] = FREE], [fat EXCEPT ![call.cluster] = LAST]}
        /\ UNCHANGED <<dir, hint>> /\ nfree' \in {nfree, Counted(0), Counted(1)}
    BY <1>5 DEF Cut
  <2> QED
    BY <1>0, <1>n, <2>1, FatEntry, DirEntry, FatNumbers DEF DiskOK
<1>6. ASSUME UNCHANGED <<fat, dir, hint, nfree>> PROVE DiskOK'
  BY <1>0, <1>6 DEF DiskOK
<1>7. ASSUME MapRestart \/ MapFollow \/ MapFails \/ Shrink \/ CutFails \/ Extended PROVE DiskOK'
  BY <1>6, <1>7 DEF MapRestart, MapFollow, MapFails, Shrink, CutFails, Extended
<1>8. ASSUME Finish \/ Position \/ FirstCluster \/ AnotherCluster \/ Transfer \/ TransferFails
      PROVE  DiskOK'
  BY <1>6, <1>8 DEF Finish, Position, FirstCluster, AnotherCluster, Transfer, TransferFails
<1> QED
  BY <1>1, <1>2, <1>3, <1>4, <1>5, <1>7, <1>8 DEF Kernel

LEMMA LossesDisk == TypeInv /\ Losses => DiskOK'
<1> SUFFICES ASSUME TypeInv, Losses PROVE DiskOK'
  OBVIOUS
<1>0. DiskOK /\ sft \in SftsType
  BY DEF TypeInv
<1>1. ASSUME BufferLost PROVE DiskOK'
  <2>1. Tables \subseteq [Clusters -> 0 .. LAST] /\ Directories \subseteq [Files -> DirType]
    BY FatConstants DEF Clusters, LAST, DirType, Pointers, Offsets, FREE
  <2> QED
    BY <1>0, <1>1, <2>1 DEF BufferLost, DiskOK
<1>2. ASSUME NEW f, NEW e \in DirType, NotWritten(f, e), UNCHANGED <<fat, hint, nfree>>
      PROVE  DiskOK'
  BY <1>0, <1>2, FatEntry, DirEntry DEF NotWritten, DiskOK
<1>3. ASSUME NEW s \in Sfts, NEW f \in Files, CreateUnwritten(s, f) PROVE DiskOK'
  BY <1>2, <1>3, FatNumbers DEF CreateUnwritten
<1>4. ASSUME WipeUnwritten PROVE DiskOK'
  BY <1>0, <1>2, <1>4, FatNumbers DEF WipeUnwritten, DiskOK
<1>5. ASSUME NEW s \in Sfts, UpdateUnwritten(s) PROVE DiskOK'
  <2> DEFINE e == [used |-> TRUE, start |-> sft[s].start, size |-> sft[s].size]
  <2>1. e \in DirType
    BY <1>0 DEF SftsType, SftType, DirType
  <2>2. (NotWritten(sft[s].file, e) \/ UNCHANGED dir) /\ UNCHANGED <<fat, hint, nfree>>
    BY <1>5 DEF UpdateUnwritten
  <2> HIDE DEF e
  <2> QED
    BY <1>0, <1>2, <2>1, <2>2 DEF DiskOK
<1> QED
  BY <1>1, <1>3, <1>4, <1>5 DEF Losses

LEMMA TypeInvStep == TypeInv /\ [Next]_vars => TypeInv'
<1> SUFFICES ASSUME TypeInv, [Next]_vars PROVE TypeInv'
  OBVIOUS
<1>1. CASE Next
  BY <1>1, SidesTyped, HistoryTyped, ProgramDisk, KernelDisk, LossesDisk
     DEF Next, TypeInv, SidesOK
<1>2. CASE UNCHANGED vars
  BY <1>2 DEF vars, TypeInv, DiskOK, HistoryOK, CallOK, OpFits, BoundsInv, Wanted
<1> QED
  BY <1>1, <1>2

LEMMA TypeInvInit == Init => TypeInv
<1> SUFFICES ASSUME Init PROVE TypeInv
  OBVIOUS
<1>1. fat \in [Clusters -> 0 .. LAST] /\ dir \in [Files -> DirType]
  BY FatNumbers DEF Init
<1>2. hint \in Pointers /\ nfree \in 0 .. UNKNCLSTFREE
  BY FatConstants DEF Init, UNKNCLUSTER, UNKNCLSTFREE, Pointers, FREE
<1>3. sft \in SftsType
  BY ClosedIs DEF Init, SftsType
<1> QED
  BY <1>1, <1>2, <1>3, IdleOK DEF Init, TypeInv, DiskOK, HistoryOK

-----------------------------------------------------------------------------
(* The invariant.                                                          *)

LEMMA IInvInit == Init => IInv
<1> SUFFICES ASSUME Init PROVE IInv
  OBVIOUS
<1>1. call = Idle /\ \A s \in Sfts : sft[s] = Closed
  BY DEF Init
<1>2. sft \in SftsType
  BY ClosedIs DEF Init, SftsType
<1>3. \A s \in Sfts : \A f : ~Writer(sft, s, f)
  BY <1>1, ClosedIs DEF Writer
<1>4. SftInv(sft, dir)
  BY <1>1, <1>3, ClosedIs DEF SftInv, OneWriter
<1>5. /\ NoEntry \in DirType /\ NoEntry.start = FREE
  BY FatConstants DEF NoEntry, DirType, Pointers, Offsets
<1>6. dir \in [Files -> DirType] /\ \A f \in Files : dir[f].start = FREE
  BY <1>5 DEF Init
<1>7. CallSide
  BY <1>1, <1>2, <1>4, <1>6, IdleSound DEF CallSide
<1>8. \A f \in Files : Head(f) = FREE
  <2> SUFFICES ASSUME NEW f \in Files PROVE Head(f) = FREE
    OBVIOUS
  <2>1. HeadIs(sft, dir, Idle, f, Head(f))
    BY <1>1, <1>4, HeadOfFile DEF SftInv
  <2> QED
    BY <1>3, <1>6, <2>1 DEF HeadIs, Idle
<1>9. Rest = FREE /\ Heads = [f \in Files |-> FREE]
  BY <1>1, <1>8 DEF Rest, Idle, Heads
<1>10. fat = [c \in Clusters |-> FREE] /\ fat \in FatType
  BY DEF Init, FatType, Pointers
<1>11. Sound(fat, Heads, Rest)
  BY <1>9, <1>10, Numbers DEF Sound
<1>12. hint \in Pointers /\ nfree \in 0 .. UNKNCLSTFREE /\ failed \in BOOLEAN /\ FreeCountExact
  <2>1. hint \in Pointers
    BY DEF Init, UNKNCLUSTER, Pointers, FREE
  <2>2. nfree = UNKNCLSTFREE /\ UNKNCLSTFREE \in 0 .. UNKNCLSTFREE
    BY FatConstants DEF Init, UNKNCLSTFREE
  <2>3. failed \in BOOLEAN
    BY DEF Init
  <2>4. FreeCountExact
    BY <2>2 DEF FreeCountExact
  <2> QED
    BY <2>1, <2>2, <2>3, <2>4
<1> QED
  BY <1>7, <1>10, <1>11, <1>12 DEF IInv, FatSide

LEMMA IInvStutter == IInv /\ UNCHANGED vars => IInv'
<1> SUFFICES ASSUME IInv, UNCHANGED vars PROVE IInv'
  OBVIOUS
<1>1. UNCHANGED <<fat, dir, sft, hint, nfree, call, failed>>
  BY DEF vars
<1>2. Heads' = Heads /\ Rest' = Rest /\ FreeCountExact' = FreeCountExact
  BY <1>1 DEF Heads, Head, Current, Collected, Writing, Using, Rest, FreeCountExact, Free
<1> QED
  BY <1>1, <1>2 DEF IInv, CallSide, FatSide

\* A loss is remembered.
LEMMA LossStays == lost /\ [Next]_vars => lost'
<1>1. Program => UNCHANGED lost
  BY DEF Program, Create, Truncate, Open, Delete, Commit, Close, Update, Seek, Read, Write, DosFree
<1>2. MapRestart \/ MapFollow \/ MapFails \/ Extend \/ ExtendFails => UNCHANGED lost
  BY DEF MapRestart, MapFollow, MapFails, Extend, ExtendFails
<1>3. Extended \/ Finish \/ Position \/ FirstCluster \/ AnotherCluster => UNCHANGED lost
  BY DEF Extended, Finish, Position, FirstCluster, AnotherCluster
<1>4. WipeCluster \/ WipeEnds \/ Transfer \/ TransferFails \/ Shrink \/ Cut \/ CutFails
        => UNCHANGED lost
  BY DEF WipeCluster, WipeEnds, Transfer, TransferFails, Shrink, Cut, CutFails
<1>5. Losses => lost'
  BY DEF Losses, BufferLost, WipeUnwritten, CreateUnwritten, UpdateUnwritten, NotWritten, Lose
<1> QED
  BY <1>1, <1>2, <1>3, <1>4, <1>5 DEF Next, Kernel, vars

LEMMA LossesLose == Losses => lost'
BY DEF Losses, BufferLost, WipeUnwritten, CreateUnwritten, UpdateUnwritten, NotWritten, Lose

LEMMA IInvStep == IInv /\ [Next]_vars => lost' \/ IInv'
<1> SUFFICES ASSUME IInv, [Next]_vars PROVE lost' \/ IInv'
  OBVIOUS
<1>1. CASE Program
  <2>1. ASSUME NEW s \in Sfts, NEW f \in Files, Create(s, f) \/ Truncate(s, f) PROVE IInv'
    BY <2>1, CreateKeeps, TruncateKeeps
  <2>2. ASSUME NEW s \in Sfts, NEW f \in Files, NEW w \in Modes, Open(s, f, w) PROVE IInv'
    BY <2>2, OpenKeeps
  <2>3. ASSUME NEW f \in Files, Delete(f) PROVE IInv'
    BY <2>3, DeleteKeeps
  <2>4. ASSUME NEW s \in Sfts, Commit(s) \/ Close(s) PROVE IInv'
    BY <2>4, CommitKeeps, CloseKeeps
  <2>5. ASSUME NEW s \in Sfts, NEW offset \in SeekTo, Seek(s, offset) PROVE IInv'
    BY <2>5, SeekKeeps
  <2>6. ASSUME NEW s \in Sfts, NEW n \in ReadCounts, Read(s, n) PROVE IInv'
    BY <2>6, ReadStarts
  <2>7. ASSUME NEW s \in Sfts, NEW n \in WriteCounts, Write(s, n) PROVE IInv'
    BY <2>7, WriteStarts
  <2> QED
    BY <1>1, <2>1, <2>2, <2>3, <2>4, <2>5, <2>6, <2>7, DosFreeKeeps DEF Program
<1>2. CASE Kernel
  BY <1>2, WipeClusterKeeps, WipeEndsKeeps, MapRestartKeeps, MapFollowKeeps, MapFailsKeeps,
     ExtendKeeps, ExtendFailsKeeps, ExtendedKeeps, FinishKeeps, PositionKeeps,
     FirstClusterKeeps, AnotherClusterKeeps, TransferKeeps, TransferFailsKeeps, ShrinkKeeps,
     CutChainKeeps, CutFailsKeeps DEF Kernel
<1>3. CASE Losses
  BY <1>3, LossesLose
<1>4. CASE UNCHANGED vars
  BY <1>4, IInvStutter
<1> QED
  BY <1>1, <1>2, <1>3, <1>4 DEF Next

\* Every variable keeps its type, also on a damaged volume: no step moves a
\* cursor or the hint to a cluster that is none, carries a transfer past the
\* largest offset, or lets the count of free clusters wrap around.  A loss
\* never comes without a failed access.
THEOREM TypeCorrect == Spec => [](TypeOK /\ (lost => failed))
<1>1. TypeInv => TypeOK /\ (lost => failed)
  BY DEF TypeInv, DiskOK, HistoryOK, CallOK, TypeOK, DirType, SftsType, SftType, CallType
<1>2. Spec => []TypeInv
  BY TypeInvInit, TypeInvStep, PTL DEF Spec
<1> QED
  BY <1>1, <1>2, PTL

\* The invariant holds until a buffer, an entry or a flush is lost: an access
\* that fails at any place of a call, and leaves the tables as they are, does
\* not break it.
THEOREM InvariantHolds == Spec => [](lost \/ IInv)
BY IInvInit, IInvStep, LossStays, PTL DEF Spec

\* With any number of files, SFTs and clusters, and whichever accesses to the
\* FAT fail, no cluster is linked twice until something is lost.
THEOREM ChainsNotCrossLinked == Spec => []NotCrossLinked
<1>1. lost \/ IInv => NotCrossLinked
  <2> SUFFICES ASSUME IInv PROVE NotCrossLinked
    BY DEF NotCrossLinked
  <2>1. Sound(fat, Heads, Rest)
    BY DEF IInv, FatSide
  <2> QED
    BY <2>1, HeadsAre DEF Sound, NotCrossLinked
<1> QED
  BY <1>1, InvariantHolds, PTL

\* Until something is lost, no file and no entry of the FAT leads to a free
\* cluster, so that no chain is cut short by the allocation of its clusters to
\* another file.
THEOREM ChainsAreAllocated == Spec => []ChainsAllocated
<1>1. lost \/ IInv => ChainsAllocated
  <2> SUFFICES ASSUME IInv PROVE ChainsAllocated
    BY DEF ChainsAllocated
  <2>1. Sound(fat, Heads, Rest)
    BY DEF IInv, FatSide
  <2> QED
    BY <2>1, HeadsAre DEF Sound, ChainsAllocated, Free
<1> QED
  BY <1>1, InvariantHolds, PTL

\* The count of free clusters that link_fat keeps is right or unknown, as
\* long as no access to the FAT has failed.
THEOREM FreeCountIsExact == Spec => []FreeCountExact
<1>1. (lost \/ IInv) /\ (lost => failed) => FreeCountExact
  BY DEF IInv, FatSide, FreeCountExact
<1> QED
  BY <1>1, InvariantHolds, TypeCorrect, PTL
=============================================================================
