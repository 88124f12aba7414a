----------------------------- MODULE BlockDisk ------------------------------
(***************************************************************************)
(* What the block buffers promise to the file system: an array of blocks   *)
(* that hold what was last stored in them, over a medium that lags behind. *)
(*                                                                         *)
(* A block keeps its promise unless it is astray: a transfer of it failed, *)
(* a failing read of another one went into its buffer, or it was written   *)
(* behind the buffers (INT 26, INT 21/7305).  An astray block may show     *)
(* what it should, or what is on the medium, which can be an older         *)
(* content, or garbage; no other block is touched by that.                 *)
(***************************************************************************)
EXTENDS Naturals

CONSTANTS
  Blocks,   \* pairs of a unit and a block number
  Values,   \* what a block can hold
  Garbage,  \* what nobody stored in a block
  Weak      \* blocks whose transfers can fail

VARIABLES
  content,  \* what a reader of the block gets
  stable,   \* what is on the medium
  astray    \* the blocks that may come back as they are on the medium

vars == <<content, stable, astray>>

Units == {k[1] : k \in Blocks}
OfUnit(u) == {k \in Blocks : k[1] = u}
Span(j, k) == {i \in OfUnit(j[1]) : j[2] <= i[2] /\ i[2] <= k[2]}

Init ==
  /\ content \in [Blocks -> Values]
  /\ stable = content
  /\ astray = {}

\* A block goes astray because its own transfer fails, or that of the span S
\* it is in, or, one at most, because its buffer takes a read that fails.
Strays(S) ==
  \E k \in Blocks :
    astray' \subseteq astray \cup IF Weak = {} THEN {}
                                  ELSE Weak \cup IF S \cap Weak = {} THEN {k} ELSE S \cup {k}

\* The medium gets what the block held or what is stored now, or a write to
\* it fails.
WrittenBack(S, v, k) ==
  stable'[k] \in {stable[k], content[k]} \cup (IF k \in S THEN {v} ELSE {})
                                         \cup (IF k \in Weak THEN {Garbage} ELSE {})

\* A block outside S keeps its content, a block of S has v.  A part that is
\* stored in garbage leaves it garbage.
Shown(S, v, k) ==
  \/ content'[k] = (IF k \in S THEN v ELSE content[k])
  \/ content'[k] = Garbage /\ content[k] = Garbage
  \/ content'[k] = stable'[k] /\ k \in astray \cup astray'
  \/ content'[k] = Garbage /\ k \in astray' /\ Weak # {}

\* A call stores in no block, in one, or in neighbours.
Calls == {{}} \cup {Span(j, k) : j, k \in Blocks}

Access(S, v) ==
  /\ \A k \in Blocks : Shown(S, v, k) /\ WrittenBack(S, v, k)
  /\ Strays(S)

\* Another medium, or a write behind the buffers: what is stored in the unit
\* shows at once, or the block is astray.  No other unit is touched.
Renew(u) ==
  /\ astray' \subseteq astray \cup OfUnit(u)
  /\ \A k \in Blocks \ OfUnit(u) :
       /\ content'[k] = content[k] /\ stable'[k] = stable[k]
       /\ k \in astray => k \in astray'
  /\ \A k \in OfUnit(u) :
       \/ content'[k] = stable'[k]
       \/ content'[k] = content[k] /\ (stable'[k] = stable[k] \/ k \in astray')

Next ==
  /\ content' \in [Blocks -> Values] /\ stable' \in [Blocks -> Values]
  /\ \/ \E v \in Values, S \in Calls : Access(S, v)
     \/ \E u \in Units : Renew(u)

Spec == Init /\ [][Next]_vars
=============================================================================
