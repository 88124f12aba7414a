----------------------------- MODULE BlockCache -----------------------------
(***************************************************************************)
(* The block buffers of src/kernel/kernel/blockio.c and the ways in which  *)
(* the file system (fattab.c, fatdir.c, fatfs.c) and the absolute disk     *)
(* calls (inthndlr.c) use them.                                            *)
(*                                                                         *)
(* The chain of buffers is a numbering: firstbuf, the one used last, has   *)
(* the smallest number, and 0 is out of the chain.  A call that finds a    *)
(* buffer moves it to the front; one that does not takes a victim, flushes *)
(* it and reads.                                                           *)
(* A transfer can fail if its block is Weak.  The user then answers FAIL   *)
(* (the call returns an error), IGNORE (it goes on as if nothing happened) *)
(* or ABORT (the kernel leaves the call where it is); RETRY is no step.    *)
(* What a transfer that fails leaves behind is not known: where it should  *)
(* have gone is as before, as it should be, or garbage.                    *)
(***************************************************************************)
EXTENDS Naturals, FiniteSets

CONSTANTS
  Bufs,       \* the buffers
  Kept,       \* those that INT 2F/4A02 cannot take
  NoBuf,      \* no buffer
  Blocks,     \* the blocks: pairs of a unit and a block number
  FatBlocks,  \* those of a file allocation table, which are kept twice
  Data,       \* what can be stored in a block
  Garbage,    \* any content that nobody stored in the block
  Weak,       \* the blocks whose transfers can fail
  Raw         \* the blocks that programs write themselves

\* config_init_buffers makes at least six buffers.
ASSUME CacheBufs ==
  /\ IsFiniteSet(Bufs) /\ NoBuf \notin Bufs
  /\ Kept \subseteq Bufs /\ \E b, c \in Kept : b # c

ASSUME CacheBlocks ==
  /\ Blocks \subseteq Nat \X Nat /\ Blocks # {}
  /\ FatBlocks \subseteq Blocks /\ Weak \subseteq Blocks /\ Raw \subseteq Blocks
  /\ Data # {} /\ Garbage \notin Data

VARIABLES
  buf,     \* the buffers: block, flags and contents
  place,   \* the place of each buffer in the chain, 0 if it has none
  disk,    \* the blocks on their media, the first copy of FAT blocks
  mirror,  \* the second copy of FAT blocks
  link,    \* link_fat, while an entry lies on two blocks
  astray,  \* history: blocks that a transfer failed for, or that were
           \* written behind the buffers
  apart    \* history: those with copies that were not written together

vars == <<buf, place, disk, mirror, link, astray, apart>>

Values == Data \cup {Garbage}
Flags == {"VALID", "DIRTY", "FAT", "UNCACHE"}
NoBlock == <<>>
NoLink == [blk |-> NoBlock, bp |-> NoBuf, bp1 |-> NoBuf]

\* A buffer without flags: what it was is of no consequence.
Empty == [blk |-> NoBlock, flag |-> {}, data |-> Garbage]

Units == {k[1] : k \in Blocks}
OfUnit(u) == {k \in Blocks : k[1] = u}
After(k) == <<k[1], k[2] + 1>>
Span(j, k) == {i \in OfUnit(j[1]) : j[2] <= i[2] /\ i[2] <= k[2]}

\* What one transfer can cover: neighbours on one unit.
Runs == {Span(j, k) : j, k \in Blocks} \ {{}}

Linked == {b \in Bufs : place[b] # 0}
OnUnit(u) == {b \in Linked : buf[b].blk \in OfUnit(u)}
Valid(b) == "VALID" \in buf[b].flag
Dirty(b) == {"VALID", "DIRTY"} \subseteq buf[b].flag
Cached(k) == {b \in Linked : Valid(b) /\ buf[b].blk = k}

\* The buffers that DeleteBlockInBufferCache looks for.
Covers(K) == {b \in Linked : Valid(b) /\ buf[b].blk \in K}

\* What a reader of block k gets.
Content(k) ==
  LET held == Cached(k)
  IN IF held = {} THEN disk[k] ELSE buf[CHOOSE b \in held : TRUE].data

Init ==
  /\ buf = [b \in Bufs |-> Empty]
  /\ place \in [Bufs -> 1 .. Cardinality(Bufs)]
  /\ \A b, c \in Bufs : b # c => place[b] # place[c]
  /\ \E v \in Data : disk = [k \in Blocks |-> v] /\ mirror = [k \in FatBlocks |-> v]
  /\ link = NoLink
  /\ astray = {} /\ apart = {}

-----------------------------------------------------------------------------
(* searchblock: a hit, or the buffer to give up.                           *)

\* Mutant: a buffer marked for release is not found again.
FoundUnmarked(k) == {b \in Cached(k) : "UNCACHE" \notin buf[b].flag}

\* The buffers that searchblock takes for the block.
Found(k) == Cached(k)

First(S, b) == b \in S /\ \A c \in S : place[b] <= place[c]
Last(S, b) == b \in S /\ \A c \in S : place[c] <= place[b]

Spare == {b \in Linked : "UNCACHE" \in buf[b].flag}
FatBufs == {b \in Linked : "FAT" \in buf[b].flag}

\* Behind the loop bp is firstbuf again: the FAT buffer that is spared is
\* the first one, not the last.
SparesFat ==
  /\ \E b \in FatBufs : First(Linked, b)
  /\ Cardinality(FatBufs) < 3
  /\ Linked # FatBufs

Victim(b) ==
  \/ Spare # {} /\ Last(Spare, b)
  \/ Spare = {} /\ SparesFat /\ Last(Linked \ FatBufs, b)
  \/ Spare = {} /\ ~SparesFat /\ Last(Linked, b)

\* move_buffer
ToFront(b) ==
  [c \in Bufs |->
     IF c = b THEN 1
     ELSE IF place[c] # 0 /\ place[c] < place[b] THEN place[c] + 1 ELSE place[c]]

-----------------------------------------------------------------------------
(* flush1 for the buffers F.  The first copies of the blocks bad1 and the  *)
(* second copies of bad2 do not reach the medium; for those in lost the    *)
(* user said FAIL, for the others IGNORE.                                  *)

DirtyIn(F) == {buf[b].blk : b \in {c \in F : Dirty(c)}}
Faults(F, bad1, bad2, lost) ==
  /\ bad1 \subseteq Weak \cap DirtyIn(F)
  /\ bad2 \subseteq Weak \cap FatBlocks \cap DirtyIn(F)
  /\ lost \subseteq bad1 \cup bad2

\* What writes that fail leave of the blocks of the medium m.
Torn(m, bad) ==
  {t \in [bad -> Values] : \A k \in bad : t[k] \in {m[k], Content(k), Garbage}}

DiskAfter(F, bad) ==
  {[k \in Blocks |-> IF k \notin DirtyIn(F) THEN disk[k]
                     ELSE IF k \in bad THEN t[k] ELSE Content(k)] : t \in Torn(disk, bad)}

\* Only a buffer with the FAT flag is written twice.
MirrorAfter(F, bad) ==
  {[k \in FatBlocks |-> IF k \notin DirtyIn(F \cap FatBufs) THEN mirror[k]
                        ELSE IF k \in bad THEN t[k] ELSE Content(k)] : t \in Torn(mirror, bad)}

\* Written or not, the buffer is no longer dirty; after FAIL it is invalid.
Flushed(b, lost) ==
  LET gone == Dirty(b) /\ buf[b].blk \in lost
  IN [buf[b] EXCEPT !.flag = @ \ ({"DIRTY"} \cup IF gone THEN {"VALID"} ELSE {}),
                    !.data = IF gone THEN Garbage ELSE @]

\* flush1 for one buffer after the other, in the order of the chain.  At
\* stop the user said ABORT: one of its copies is bad and the rest of the
\* chain is as it was.

\* Mutant: the loop begins behind firstbuf.
DoneButFirst(F, stop) ==
  {c \in F : ~First(Linked, c) /\ (stop = NoBuf \/ place[c] < place[stop])}

\* Mutant: the buffer that is aborted is no longer dirty.
DoneAtStop(F, stop) == IF stop = NoBuf THEN F ELSE {c \in F : place[c] <= place[stop]}

Done(F, stop) == IF stop = NoBuf THEN F ELSE {c \in F : place[c] < place[stop]}

FlushLoop(F, stop, bad, lost) ==
  \E bad2 \in SUBSET Weak :
    LET done == Done(F, stop)
        parted == (apart \ DirtyIn(done)) \cup (bad \cap FatBlocks) \cup bad2
    IN
    /\ Faults(done, bad, bad2, lost)
    /\ \/ /\ stop = NoBuf
          /\ disk' \in DiskAfter(done, bad)
          /\ mirror' \in MirrorAfter(done, bad2)
          /\ apart' = parted
       \/ /\ stop \in F /\ Dirty(stop) /\ buf[stop].blk \in Weak
          /\ \/ /\ disk' \in DiskAfter(done \cup {stop}, bad \cup {buf[stop].blk})
                /\ mirror' \in MirrorAfter(done, bad2)
             \/ /\ stop \in FatBufs
                /\ \E copy1 \in {{}, {buf[stop].blk}} :
                     disk' \in DiskAfter(done \cup {stop}, bad \cup copy1)
                /\ mirror' \in MirrorAfter(done \cup {stop}, bad2 \cup {buf[stop].blk})
          /\ apart' = parted \cup ({buf[stop].blk} \cap FatBlocks)

\* The blocks that were written in full hold what they should.
AstrayAfter(F, stop, bad) == (astray \ DirtyIn(Done(F, stop))) \cup bad

-----------------------------------------------------------------------------
(* getblk and what its callers do with the buffer: they read it, change a  *)
(* part of it (w) or all of it (over), and may release it at once (spare). *)

Uses == [w : Data \cup {NoBlock}, over : BOOLEAN, spare : BOOLEAN]

\* Nothing of the FAT is overwritten unread or released early.
Legal(k, use) ==
  /\ use.over => use.w # NoBlock
  /\ k \in FatBlocks => ~use.over /\ ~use.spare

\* Mutant: a block of the FAT is marked as one of a directory.
UsedAsDir(r, use) ==
  [blk  |-> r.blk,
   flag |-> (r.flag \ {"UNCACHE", "FAT"})
              \cup (IF use.w # NoBlock THEN {"DIRTY", "VALID"} ELSE {})
              \cup (IF use.spare THEN {"UNCACHE"} ELSE {}),
   data |-> IF use.w = NoBlock \/ (r.data = Garbage /\ ~use.over)
            THEN r.data ELSE use.w]

Used(r, use) ==
  [blk  |-> r.blk,
   flag |-> (r.flag \ {"UNCACHE", "FAT"})
              \cup (IF use.w # NoBlock THEN {"DIRTY", "VALID"} ELSE {})
              \cup (IF r.blk \in FatBlocks THEN {"FAT"} ELSE {})
              \cup (IF use.spare THEN {"UNCACHE"} ELSE {}),
   data |-> IF use.w = NoBlock \/ (r.data = Garbage /\ ~use.over)
            THEN r.data ELSE use.w]

Hit(k, use, b) ==
  /\ First(Found(k), b)
  /\ buf' = [buf EXCEPT ![b] = Used(@, use)]
  /\ place' = ToFront(b)
  /\ UNCHANGED <<disk, mirror, astray, apart>>

\* What the medium gives, and whether the user ignores that it does not.
Read(k, data, doubt) ==
  \/ data = disk'[k] /\ doubt = {}
  \/ k \in Weak /\ data = Garbage /\ doubt = {k}

\* Mutant: the buffer keeps the mark that searchblock gave it.
MissMarked(k, use, b) ==
  /\ Found(k) = {} /\ Victim(b)
  /\ \E bad \in SUBSET Weak, data \in Values, doubt \in {{}, {k}} :
       /\ FlushLoop({b}, NoBuf, bad, {})
       /\ IF use.over THEN doubt = {} ELSE Read(k, data, doubt)
       /\ LET r == Used([blk |-> k, flag |-> {"VALID"}, data |-> data], use)
          IN buf' = [buf EXCEPT ![b] = [r EXCEPT !.flag = @ \cup {"UNCACHE"}]]
       /\ astray' = (AstrayAfter({b}, NoBuf, bad) \ {k}) \cup doubt
  /\ place' = ToFront(b)

Miss(k, use, b) ==
  /\ Found(k) = {} /\ Victim(b)
  /\ \E bad \in SUBSET Weak, data \in Values, doubt \in {{}, {k}} :
       /\ FlushLoop({b}, NoBuf, bad, {})
       /\ IF use.over THEN doubt = {} ELSE Read(k, data, doubt)
       /\ buf' = [buf EXCEPT ![b] =
                    Used([blk |-> k, flag |-> {"VALID"}, data |-> data], use)]
       /\ astray' = (AstrayAfter({b}, NoBuf, bad) \ {k}) \cup doubt
  /\ place' = ToFront(b)

Get(k, use, b) == Legal(k, use) /\ (Hit(k, use, b) \/ Miss(k, use, b))

Marked(r) == [r EXCEPT !.flag = @ \cup {"UNCACHE"}]

\* The three ways to get no buffer.  A read that fails has overwritten a
\* buffer that still says it holds its old block.
FailedFlush(b) ==
  \/ \E bad \in SUBSET Weak, lost \in SUBSET Weak \ {{}} :
       /\ FlushLoop({b}, NoBuf, bad, lost)
       /\ buf' = [buf EXCEPT ![b] = Marked(Flushed(b, lost))]
       /\ astray' = AstrayAfter({b}, NoBuf, bad)
  \/ FlushLoop({b}, b, {}, {}) /\ buf' = [buf EXCEPT ![b] = Marked(@)] /\ UNCHANGED astray

FailedRead(k, b) ==
  \E bad \in SUBSET Weak, data \in {buf[b].data, Garbage} :
    /\ k \in Weak /\ FlushLoop({b}, NoBuf, bad, {})
    /\ buf' = [buf EXCEPT ![b] = [Marked(Flushed(b, {})) EXCEPT !.data = data]]
    /\ astray' = AstrayAfter({b}, NoBuf, bad) \cup IF Valid(b) THEN {buf[b].blk} ELSE {}

GetFails(k, over) ==
  /\ Found(k) = {}
  /\ \E b \in Bufs :
       /\ Victim(b)
       /\ FailedFlush(b) \/ (~over /\ FailedRead(k, b))
       /\ place' = ToFront(b)

-----------------------------------------------------------------------------
(* The calls of the file system.                                           *)

Idle == link = NoLink

\* A block of the FAT, of a directory or of a file: link_fat, dir_read,
\* dir_write, clear_dir, dos_extend and rwblock.
AccessBlock ==
  /\ Idle
  /\ \E k \in Blocks, use \in Uses, b \in Bufs : Get(k, use, b)
  /\ UNCHANGED link

AccessFails ==
  /\ Idle
  /\ \E k \in Blocks, over \in BOOLEAN :
       (over => k \notin FatBlocks) /\ GetFails(k, over)
  /\ UNCHANGED link

\* link_fat of a FAT12 entry that lies on two blocks: it gets both, one
\* after the other, and uses them together.
NoUse == [w |-> NoBlock, over |-> FALSE, spare |-> FALSE]

LinkFirst ==
  /\ Idle
  /\ \E k \in FatBlocks, b \in Bufs :
       /\ After(k) \in FatBlocks
       /\ Get(k, NoUse, b)
       /\ link' = [blk |-> k, bp |-> b, bp1 |-> NoBuf]

LinkSecond ==
  /\ link.bp # NoBuf /\ link.bp1 = NoBuf
  /\ \/ \E b \in Bufs : Get(After(link.blk), NoUse, b) /\ link' = [link EXCEPT !.bp1 = b]
     \/ GetFails(After(link.blk), FALSE) /\ link' = NoLink

LinkBoth ==
  /\ link.bp1 # NoBuf
  /\ \/ UNCHANGED buf
     \/ \E w \in Data :
          buf' = [b \in Bufs |->
                    IF b \in {link.bp, link.bp1}
                    THEN Used(buf[b], [NoUse EXCEPT !.w = w]) ELSE buf[b]]
  /\ link' = NoLink
  /\ UNCHANGED <<place, disk, mirror, astray, apart>>

\* Mutant: the buffers are dropped, as for a write.
DirectReadDropping(K, stop) ==
  /\ Idle /\ UNCHANGED <<place, link, astray, apart>> /\ K \cap FatBlocks = {}
  /\ buf' = [b \in Bufs |-> IF b \in Done(Covers(K), stop) THEN Empty ELSE buf[b]]
  /\ UNCHANGED <<disk, mirror>>

\* rwblock of whole sectors: DeleteBlockInBufferCache, which does not say
\* that a flush failed, and the transfer into the memory of the program.
DirectRead(K, stop) ==
  LET F == Covers(K) IN
  /\ Idle /\ UNCHANGED <<place, link>> /\ K \cap FatBlocks = {}
  /\ \E lost \in SUBSET Weak :
       /\ buf' = [b \in Bufs |-> IF b \in Done(F, stop) THEN Flushed(b, lost) ELSE buf[b]]
       /\ \E bad \in SUBSET Weak :
            FlushLoop(F, stop, bad, lost) /\ astray' = AstrayAfter(F, stop, bad)

\* A write of v to blocks of a medium, of which some may not get it.
Stored(m, K, v, ok) ==
  IF ok THEN {[k \in DOMAIN m |-> IF k \in K THEN v ELSE m[k]]}
  ELSE {n \in [DOMAIN m -> Values] :
          \A k \in DOMAIN m :
            n[k] \in {m[k]} \cup IF k \notin K THEN {}
                                ELSE {v} \cup IF k \in Weak THEN {Garbage} ELSE {}}

\* Mutant: the buffers of the blocks stay.
DirectWriteKeeping(K) ==
  /\ Idle /\ K \cap FatBlocks = {}
  /\ \E v \in Data, ok \in BOOLEAN :
       /\ ok \/ K \cap Weak # {}
       /\ disk' \in Stored(disk, K, v, ok)
       /\ astray' = IF ok THEN astray \ K ELSE astray \cup K
  /\ UNCHANGED <<buf, place, mirror, link, apart>>

\* The buffers are empty, also if the transfer then fails.
DirectWrite(K) ==
  /\ Idle /\ K \cap FatBlocks = {}
  /\ buf' = [b \in Bufs |-> IF b \in Covers(K) THEN Empty ELSE buf[b]]
  /\ \E v \in Data, ok \in BOOLEAN :
       /\ ok \/ K \cap Weak # {}
       /\ disk' \in Stored(disk, K, v, ok)
       /\ astray' = IF ok THEN astray \ K ELSE astray \cup K
  /\ UNCHANGED <<place, mirror, link, apart>>

TransferBlocks ==
  \E K \in Runs :
    \/ \E stop \in Bufs \cup {NoBuf} : DirectRead(K, stop)
    \/ DirectWrite(K)

\* flush_buffers: commit, close, dir_write, the ends of chains
FlushBuffers(u, stop) ==
  LET F == OnUnit(u) IN
  /\ Idle /\ UNCHANGED <<place, link>>
  /\ \E lost \in SUBSET Weak :
       /\ buf' = [b \in Bufs |-> IF b \in Done(F, stop) THEN Flushed(b, lost) ELSE buf[b]]
       /\ \E bad \in SUBSET Weak :
            FlushLoop(F, stop, bad, lost) /\ astray' = AstrayAfter(F, stop, bad)

FlushUnit == \E u \in Units, stop \in Bufs \cup {NoBuf} : FlushBuffers(u, stop)

\* flush, for INT 21/0D: no buffer stays valid.
Flush(stop) ==
  /\ Idle
  /\ \E bad, lost \in SUBSET Weak :
       /\ FlushLoop(Linked, stop, bad, lost)
       /\ astray' = IF stop = NoBuf THEN bad ELSE AstrayAfter(Linked, stop, bad)
  /\ buf' = [b \in Bufs |->
               IF b \in Done(Linked, stop)
               THEN [Flushed(b, {}) EXCEPT !.flag = @ \ {"VALID"}, !.data = Garbage]
               ELSE buf[b]]
  /\ UNCHANGED <<place, link>>

DiskReset == \E stop \in Bufs \cup {NoBuf} : Flush(stop)

-----------------------------------------------------------------------------
(* Calls that go behind the buffers or take them away.                     *)

\* setinvld: the buffers of the unit are empty, whatever was in them.
Invalidated(u) == [b \in Bufs |-> IF b \in OnUnit(u) THEN Empty ELSE buf[b]]

\* media_check.  Without dirty buffers a drive that does not know is taken
\* to have another medium; with dirty ones it is not.
MediaCheck ==
  /\ Idle
  /\ \E u \in Units, known \in BOOLEAN, v \in Data :
       /\ known \/ \A b \in OnUnit(u) : ~Dirty(b)
       /\ buf' = Invalidated(u)
       /\ disk' = [i \in Blocks |-> IF i[1] = u THEN v ELSE disk[i]]
       /\ mirror' = [i \in FatBlocks |-> IF i[1] = u THEN v ELSE mirror[i]]
       /\ astray' = astray \ OfUnit(u) /\ apart' = apart \ OfUnit(u)
  /\ UNCHANGED <<place, link>>

\* A program writes sectors of one unit itself: blocks K, the first copies of
\* those of a FAT, and second copies M.
Written(K, M, v, ok) ==
  /\ ok \/ (K \cup M) \cap Weak # {}
  /\ disk' \in Stored(disk, K, v, ok) /\ mirror' \in Stored(mirror, M, v, ok)
  /\ apart' = apart \cup (K \cap FatBlocks) \cup M

\* INT 26 invalidates the unit if the write failed.
Int26(K, M, u, v, ok) ==
  /\ Idle /\ Written(K, M, v, ok)
  /\ IF ok
     THEN buf' = buf /\ astray' = astray \cup K
     ELSE buf' = Invalidated(u) /\ astray' = astray \ OfUnit(u)
  /\ UNCHANGED <<place, link>>

\* INT 21/7305 invalidates the unit if the write succeeded.
ExtendedWrite(K, M, u, v, ok) ==
  /\ Idle /\ Written(K, M, v, ok)
  /\ IF ok
     THEN buf' = Invalidated(u) /\ astray' = astray \ OfUnit(u)
     ELSE buf' = buf /\ astray' = astray \cup K
  /\ UNCHANGED <<place, link>>

AbsoluteWrite ==
  \E u \in Units, S \in Runs, v \in Data, ok \in BOOLEAN :
    /\ S \subseteq Raw \cap OfUnit(u)
    /\ \E K \in {{}, S}, M \in {{}, S \cap FatBlocks} :
         /\ K \cup M # {}
         /\ Int26(K, M, u, v, ok) \/ ExtendedWrite(K, M, u, v, ok)

\* INT 2F/4A02: a program takes buffers behind the first ones.
AllocateHMASpace ==
  /\ Idle
  /\ \E F \in SUBSET (Linked \ Kept), stop \in Bufs \cup {NoBuf}, bad, lost \in SUBSET Weak :
       LET out == Done(F, stop) IN
       /\ F # {} /\ FlushLoop(F, stop, bad, lost)
       /\ astray' = AstrayAfter(F, stop, bad)
       /\ buf' = [b \in Bufs |-> IF b \in out THEN Empty ELSE buf[b]]
       /\ place' = [b \in Bufs |-> IF b \in out THEN 0 ELSE place[b]]
  /\ UNCHANGED link

Next ==
  \/ AccessBlock \/ AccessFails
  \/ LinkFirst \/ LinkSecond \/ LinkBoth
  \/ TransferBlocks \/ FlushUnit \/ DiskReset
  \/ MediaCheck \/ AbsoluteWrite \/ AllocateHMASpace

Spec == Init /\ [][Next]_vars

-----------------------------------------------------------------------------
(* Properties                                                              *)

TypeOK ==
  /\ buf \in [Bufs -> [blk : Blocks \cup {NoBlock}, flag : SUBSET Flags, data : Values]]
  /\ place \in [Bufs -> 0 .. Cardinality(Bufs)]
  /\ disk \in [Blocks -> Values]
  /\ mirror \in [FatBlocks -> Values]
  /\ link \in [blk : FatBlocks \cup {NoBlock}, bp : Bufs \cup {NoBuf},
               bp1 : Bufs \cup {NoBuf}]
  /\ astray \subseteq Blocks /\ apart \subseteq FatBlocks

\* No block is in two buffers: what one caller changes the others see.
OneCopy == \A b, c \in Linked : Valid(b) /\ Valid(c) /\ buf[b].blk = buf[c].blk => b = c

\* A buffer that is not dirty can be given up: the medium has what it holds,
\* unless the last transfer of the block failed or went behind the buffers.
CleanOnDisk ==
  \A b \in Linked :
    Valid(b) /\ ~Dirty(b) /\ buf[b].blk \notin astray => disk[buf[b].blk] = buf[b].data

\* The two copies of a block of the FAT agree, unless a write of one of them
\* failed or was aborted, or a program wrote sectors of the FAT itself, and
\* the block has not been written back since.
MirrorsAgree == \A k \in FatBlocks \ apart : mirror[k] = disk[k]

\* fattab.c:248: the second block of an entry never takes the buffer of
\* the first.
PairHeld ==
  link.bp1 # NoBuf =>
    /\ link.bp # link.bp1
    /\ link.bp \in Cached(link.blk) /\ link.bp1 \in Cached(After(link.blk))

\* Every block of K is on the medium as its readers saw it.
Durable(K) ==
  \A k \in K \ (astray \cup astray') :
    disk'[k] = Content(k) /\ \A b \in Cached(k) : ~Dirty(b)'

\* flush_buffers leaves nothing of the unit in the buffers alone.
FlushIsDurable ==
  [][\A u \in Units : Durable(OfUnit(u)) \/ ~FlushBuffers(u, NoBuf)]_vars

\* A direct read gets what the buffers hold.
DirectReadsCurrent ==
  [][\A K \in Runs : Durable(K) \/ ~DirectRead(K, NoBuf)]_vars

\* The buffers cannot be seen, except through blocks that are astray.
Disk == INSTANCE BlockDisk WITH content <- [k \in Blocks |-> Content(k)], stable <- disk
IsDisk == Disk!Spec
=============================================================================
