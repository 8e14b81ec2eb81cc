----------------------------- MODULE MCRankLoop -----------------------------
(* Every text of Lengths symbols over 1..Sigma, for TLC.                   *)
EXTENDS RankLoop

CONSTANTS Sigma, Lengths

MCTexts == UNION {[1 .. n -> 1 .. Sigma] : n \in Lengths}
=============================================================================
