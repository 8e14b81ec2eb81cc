----------------------------- MODULE MCVerify -----------------------------
(* All files with up to Positions(text) ranks in all, in up to MaxRanks    *)
(* chunks; ranks go one past the last slot.                                *)
EXTENDS Verify

CONSTANTS MaxLength, MaxRanks

MCTexts == UNION {[1 .. n -> 1 .. 2] : n \in 1 .. MaxLength}

MCRankFiles(S) ==
  UNION {
    {files \in [1 .. K -> UNION {[1 .. n -> 0 .. K * S] : n \in 0 .. S}] :
       Len(FlattenSeq(files)) <= MaxRanks} : K \in {K \in 1 .. MaxRanks : K * S <= MaxRanks + 1}}

MCSAFiles(S) == UNION {[1 .. n -> 0 .. MaxRanks - 1] : n \in 0 .. S + 1}
=============================================================================
