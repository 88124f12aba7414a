------------------------------ MODULE MCShare ------------------------------
(* Instances of Share for TLC.                                             *)
EXTENDS Share, TLC

CONSTANTS f1, f2, p1, p2, s1, s2, s3

MCNames == {f1, f2}
MCPsps  == {p1, p2}
MCSfts  == {s1, s2, s3}

\* Opens that share all, in compatibility mode, that deny writing, and with
\* values out of range.
MCRequests == {<<2, 4>>, <<0, 0>>, <<0, 2>>, <<1, 5>>}

\* Regions of which one holds another, two meet, two overlap on one side, and
\* one wraps around.
MCCallRegions == {<<0, 4>>, <<1, 2>>, <<2, 2>>, <<5, 1>>}

\* Two shares of one file are enough to take locks through.
MCFewRequests == {<<2, 4>>, <<0, 0>>}
MCRegions == {<<0, 1>>, <<0, 4>>, <<1, 2>>, <<2, 2>>, <<3, 0>>, <<3, 3>>, <<5, 1>>}

Symmetries == Permutations(MCPsps) \cup Permutations(MCSfts)
=============================================================================
