--------------------------- MODULE MCBPlusIndexP ---------------------------
(* Instances of BPlusIndexP for TLC: trees to start from.                   *)
EXTENDS BPlusIndexP

\* An empty index, and trees whose head is full after adds in one direction.
MCPreloads == {<<>>, <<2, 4, 6, 8, 10, 12, 14, 16>>, <<16, 14, 12, 10, 8, 6, 4, 2>>}
=============================================================================
