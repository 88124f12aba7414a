------------------------------ MODULE MCFatFs ------------------------------
(* Instances of FatFs for TLC.                                             *)
EXTENDS FatFs, TLC

\* What comes back when a buffer is lost: a FAT without chains, one that runs
\* in a circle, one with an entry out of range; the directory without its
\* files, or with all of them in the same cluster.
MCTables ==
  {[c \in Clusters |-> FREE], [c \in Clusters |-> IF c = MaxCluster THEN 2 ELSE c + 1],
   [c \in Clusters |-> IF c = MaxCluster THEN ERROR ELSE c + 1]}
MCDirectories ==
  {[f \in Files |-> NoEntry],
   [f \in Files |-> [used |-> TRUE, start |-> 2, size |-> MaxOffset]]}

MCSymmetry == Permutations(Files) \cup Permutations(Sfts)
=============================================================================
