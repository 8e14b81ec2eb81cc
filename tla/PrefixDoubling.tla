--------------------------- MODULE PrefixDoubling ---------------------------
(***************************************************************************)
(* What the loop of suffixrank.sh promises: one iteration of refine,       *)
(* merge and update as one step on ranks, without files, runs and chunks   *)
(* of suffix arrays.                                                       *)
(*                                                                         *)
(* Init has ranked every position by its first prefix_len characters; an   *)
(* iteration re-ranks the positions that are still in a local suffix array *)
(* by the pair of their rank and the rank prefix_len further on, drops the *)
(* positions whose pair nobody shares, and doubles prefix_len.  The loop   *)
(* ends when refine finds no run in any chunk.                             *)
(***************************************************************************)
EXTENDS SuffixText

CONSTANTS
  Texts,        \* the texts considered
  ChunkSizes,   \* the chunk sizes considered (CHUNK_SIZE)
  KmerLengths   \* the prefix lengths init may start the loop with

ASSUME TextsAssumption == Texts \subseteq Seq(Nat \ {0})
ASSUME ChunkSizesAssumption == ChunkSizes \subseteq Nat \ {0}
ASSUME KmerLengthsAssumption == KmerLengths \subseteq Nat \ {0}

VARIABLES
  text,         \* the input file
  chunk_size,
  prefix_len,   \* L of suffixrank.sh
  rank,         \* the ranks_<id> files, position by position
  live,         \* the positions in the sa_<id> files
  more_runs     \* MORE_RUNS of suffixrank.sh: the loop goes on

vars == <<text, chunk_size, prefix_len, rank, live, more_runs>>

Pos == Positions(text)

Init ==
  /\ text \in Texts
  /\ chunk_size \in ChunkSizes
  /\ prefix_len \in KmerLengths
  /\ rank = [p \in Pos |-> PrefixRank(text, prefix_len, p)]
  /\ live = Pos
  /\ more_runs = TRUE

(* The positions that have a run this iteration.                           *)
Active == {p \in live : ~ PastTextEnd(text, chunk_size, prefix_len, ChunkOf(chunk_size, p))}

(* A slip: the rank just before the one a prefix length further on.        *)
NextRank_Early(p) == IF p + prefix_len \in Pos THEN rank[p + prefix_len - 1] ELSE 0

(* A position whose next rank is past the text shares its rank with no     *)
(* other position: what stands in for its next rank decides nothing.       *)
NextRank(p) == IF p + prefix_len \in Pos THEN rank[p + prefix_len] ELSE 0

(* A slip: the position's next rank compared with everyone's.              *)
Group_Everyone(p) == Active

Group(p) == {q \in Active : rank[q] = rank[p]}

(* A slip: ties count as smaller.                                          *)
Before_WithTies(p) == {q \in Group(p) : NextRank(q) <= NextRank(p)}

Before(p) == {q \in Group(p) : NextRank(q) < NextRank(p)}

(* A slip: a pair that is alone in its chunk taken for alone in the text.  *)
Shared_InChunk(p) ==
  \E q \in Group(p) \ {p} :
    NextRank(q) = NextRank(p) /\ ChunkOf(chunk_size, q) = ChunkOf(chunk_size, p)

Shared(p) == \E q \in Group(p) \ {p} : NextRank(q) = NextRank(p)

(* A slip: the prefix length halved.                                       *)
Doubled_Halved(L) == L \div 2

Doubled(L) == 2 * L

(* refine finds runs: merge resolves the pairs and update applies them.    *)
Iterate ==
  /\ more_runs
  /\ Active # {}
  /\ rank' = [p \in Pos |-> IF p \in Active THEN rank[p] + Cardinality(Before(p)) ELSE rank[p]]
  /\ live' = live \ {p \in Active : ~ Shared(p)}
  /\ prefix_len' = Doubled(prefix_len)
  /\ UNCHANGED <<text, chunk_size, more_runs>>

(* refine finds no run in any chunk: the loop ends.                        *)
Finish ==
  /\ more_runs
  /\ Active = {}
  /\ more_runs' = FALSE
  /\ prefix_len' = Doubled(prefix_len)
  /\ UNCHANGED <<text, chunk_size, rank, live>>

Next == Iterate \/ Finish

Spec == Init /\ [][Next]_vars

FairSpec == Spec /\ WF_vars(Next)

-----------------------------------------------------------------------------
TypeOK ==
  /\ text \in Texts
  /\ chunk_size \in ChunkSizes
  /\ prefix_len \in Nat \ {0}
  /\ rank \in [Pos -> Nat]
  /\ live \in SUBSET Pos
  /\ more_runs \in BOOLEAN

(* The rank of a position is always the number of positions with a smaller *)
(* prefix of length prefix_len: those update rewrote in this iteration and *)
(* those it dropped from the suffix array earlier, or never looks at.      *)
RanksArePrefixRanks ==
  \A p \in Pos : rank[p] = PrefixRank(text, prefix_len, p)

(* update drops a position only when no other position can ever tie with   *)
(* it: a dropped position is never re-ranked, so dropping it early would   *)
(* freeze a wrong rank.                                                    *)
DroppedAreUnique ==
  \A p \in Pos \ live : \A q \in Pos \ {p} : ~ PrefixEq(text, prefix_len, p, q)

(* When the loop ends no two positions tie, although it looks only at      *)
(* whether refine found a run.                                             *)
FinishedAreUnique ==
  ~ more_runs => \A p \in Pos : \A q \in Pos \ {p} : ~ PrefixEq(text, prefix_len, p, q)

(* When the loop ends every rank is the index of the suffix in the suffix  *)
(* array: create_pairs and invert write the suffix array of the text.      *)
FinalRanksAreSuffixRanks ==
  ~ more_runs => \A p \in Pos : rank[p] = SuffixRank(text, p)

(* An iteration refines the order of the positions and never inverts it:   *)
(* the local suffix arrays, sorted once by init, stay sorted by rank.      *)
OrderNeverInverted ==
  [][\A p, q \in Pos : rank[p] < rank[q] => rank'[p] < rank'[q]]_vars

(* The loop ends.                                                          *)
LoopEnds == <>(~ more_runs)
=============================================================================
