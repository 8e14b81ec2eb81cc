---------------------------- MODULE MCPipeline ----------------------------
(* Every text of Lengths symbols over 1..2, for TLC.                       *)
EXTENDS Pipeline

CONSTANT Lengths

MCTexts == UNION {[1 .. n -> 1 .. 2] : n \in Lengths}
=============================================================================
