---------------------------- MODULE MCBlockCache ----------------------------
(* Instances of BlockCache for TLC on a unit of two blocks: both of a FAT, *)
(* or one of a FAT and one of a file.                                      *)
EXTENDS BlockCache, TLC

MCBlocks == {<<1, 1>>, <<1, 2>>}
MCFirst == {<<1, 1>>}
MCSecond == {<<1, 2>>}
MCNone == {}
MCSymmetry == Permutations(Kept) \cup Permutations(Data)
=============================================================================
