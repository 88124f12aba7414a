------------------------------ MODULE MCMemMgr ------------------------------
(* Instances of MemMgr for TLC.                                            *)
EXTENDS MemMgr

\* Each way to choose a block, and each way to treat upper memory.
MCStrategies ==
  {[fit |-> FIRST_FIT, U |-> FALSE, UO |-> FALSE],
   [fit |-> BEST_FIT,  U |-> TRUE,  UO |-> FALSE],
   [fit |-> LAST_FIT,  U |-> FALSE, UO |-> TRUE]}
=============================================================================
