----------------------------- MODULE MCDosFiles -----------------------------
(* Instances of DosFiles for TLC.                                          *)
EXTENDS DosFiles, TLC

CONSTANTS f1, f2, p1

\* With the compatibility modes of FcbOpen and DosExec, the two modes that the
\* open of DosSetFattr goes with.
MCOpenRequests == {<<0, 4, TRUE>>}

MCNames == {f1, f2}

MCRegions == {<<0, 1>>}

NameSymmetries == Permutations(MCNames)
=============================================================================
