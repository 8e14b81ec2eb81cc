------------------------------ MODULE MCMerge ------------------------------
(* Merge on what the loop's iterations leave for it, for every text of     *)
(* Lengths symbols over 1..Sigma.                                          *)
EXTENDS Merge

CONSTANTS
  Sigma, Lengths, ChunkSizes,
  MaxIteration      \* how many iterations may precede this one

MCTexts == UNION {[1 .. n -> 1 .. Sigma] : n \in Lengths}

(* The positions still in a local suffix array after the iterations with   *)
(* the prefix lengths k, 2k ...: those no iteration found unique.          *)
Live(text, S, k, iteration) ==
  {p \in Positions(text) : \A i \in 0 .. iteration - 1 :
     \/ PastTextEnd(text, S, k * 2 ^ i, ChunkOf(S, p))
     \/ \E q \in Positions(text) \ {p} : PrefixEq(text, k * 2 ^ (i + 1), p, q)}

(* The next rank refine reads for p; past the text, what an earlier chunk  *)
(* left in the same slot of the buffer.                                    *)
NextRankRead(text, S, L, p) ==
  LET read == {q \in 0 .. p : (p - q) % S = 0 /\ q + L \in Positions(text)}
  IN  IF read = {} THEN 0 ELSE PrefixRank(text, L, Max(read) + L)

InputRuns(text, S, L, positions, RankOf(_)) ==
  [c \in Chunks(text, S) |->
    LET sa == InSuffixOrder(text, {p \in positions : ChunkOf(S, p) = c})
    IN  Runs([j \in DOMAIN sa |-> RankOf(sa[j])])]

InputOf(text, S, iteration) ==
  LET k == KmerLength(text, S)
      L == k * 2 ^ iteration
      live == Live(text, S, k, iteration)
      active == {p \in live : ~ PastTextEnd(text, S, L, ChunkOf(S, p))}
  IN  [currents |-> InputRuns(text, S, L, live, LAMBDA p : PrefixRank(text, L, p)),
       nexts |-> InputRuns(text, S, L, active, LAMBDA p : NextRankRead(text, S, L, p))]

(* refine says when no chunk has runs left: merge is not started then.     *)
MCInputs ==
  {input \in {InputOf(text, S, iteration) :
               text \in MCTexts, S \in ChunkSizes, iteration \in 0 .. MaxIteration} :
     \E c \in DOMAIN input.nexts : input.nexts[c] # <<>>}
=============================================================================
