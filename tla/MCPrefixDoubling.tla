-------------------------- MODULE MCPrefixDoubling --------------------------
(* Every text of up to MaxLen symbols over 1..Sigma, for TLC.              *)
EXTENDS PrefixDoubling

CONSTANTS Sigma, MaxLen

MCTexts == UNION {[1 .. n -> 1 .. Sigma] : n \in 1 .. MaxLen}
=============================================================================
