------------------------------ MODULE RankLoop ------------------------------
(***************************************************************************)
(* The loop of suffixrank.sh on its files: refine and update take the      *)
(* chunks one after the other, merge takes all of them at once.  For chunk *)
(* c, ranks[c], sa[c], currents[c], bounds[c], nexts[c] and global[c] are  *)
(* the contents of the files of those names.                               *)
(*                                                                         *)
(* bounds is read by refine and update when they start and written when    *)
(* update ends; update only touches the entry of the chunk it has in hand, *)
(* so one variable stands for the file and update's copy of it.            *)
(***************************************************************************)
EXTENDS RunStreams

CONSTANTS Texts, ChunkSizes

(* init does not get past an empty file.                                   *)
ASSUME TextsAssumption == Texts \subseteq Seq(Nat \ {0}) \ {<<>>}
ASSUME ChunkSizesAssumption == ChunkSizes \subseteq Nat \ {0}

VARIABLES
  text, chunk_size,
  prefix_len,   \* L of suffixrank.sh
  pc,           \* the program that runs: refine, merge, update; or finished, failed
  chunk,        \* the chunk refine or update takes next
  ranks, sa, currents, bounds,      \* the files of RANK_DIR
  nexts, global,                    \* the files of TEMP_DIR
  next_ranks_buffer,                \* refine's, kept from one chunk to the next
  status                            \* more_runs of refine

files == <<ranks, sa, currents, bounds>>
vars == <<text, chunk_size, prefix_len, pc, chunk, files, nexts, global,
          next_ranks_buffer, status>>

AllChunks == Chunks(text, chunk_size)

TotalChunks == ChunkOf(chunk_size, Len(text)) + 1

(* The local positions of a chunk.                                         *)
Local(c) == {i \in 0 .. chunk_size - 1 : c * chunk_size + i \in Positions(text)}

-----------------------------------------------------------------------------
(* What init leaves behind.                                                *)

(* A chunk's suffix array, of local positions.                             *)
LocalSA(t, S, c) ==
  LET order == InSuffixOrder(t, {p \in Positions(t) : ChunkOf(S, p) = c})
  IN  [n \in DOMAIN order |-> order[n] - c * S]

Empty == <<0, -1>>    \* the window of a chunk without live positions

Init ==
  /\ text \in Texts
  /\ chunk_size \in ChunkSizes
  /\ prefix_len = KmerLength(text, chunk_size)
  /\ pc = "refine" /\ chunk = 0 /\ status = "EMPTY"
  /\ ranks = [c \in AllChunks |-> [i \in Local(c) |->
                PrefixRank(text, prefix_len, c * chunk_size + i)]]
  /\ sa = [c \in AllChunks |-> LocalSA(text, chunk_size, c)]
  /\ currents = [c \in AllChunks |-> Runs([j \in DOMAIN sa[c] |-> ranks[c][sa[c][j]]])]
  /\ bounds = [c \in AllChunks |-> <<0, Cardinality(Local(c)) - 1>>]
  /\ nexts = [c \in AllChunks |-> <<>>]
  /\ global = [c \in AllChunks |-> <<>>]
  /\ next_ranks_buffer = [i \in 0 .. chunk_size - 1 |-> 0]

-----------------------------------------------------------------------------
(* A slip: a chunk whose next ranks reach into the last chunk skipped.     *)
IsEmpty_OffByOne(c) == BaseChunk(chunk_size, prefix_len, c) >= TotalChunks - 1

(* next_rank_loc's is_empty, shared by refine and update.                  *)
IsEmpty(c) == PastTextEnd(text, chunk_size, prefix_len, c)

Window(c) == bounds[c][1] .. bounds[c][2]

(* A slip: next ranks past the end of base_chunk looked up at its head.    *)
NextRankAt_NoSpill(c, p) ==
  <<BaseChunk(chunk_size, prefix_len, c), (prefix_len + p) % chunk_size>>

(* The chunk and the index there of the next rank of local position p: in  *)
(* base_chunk, or past its end and so in the chunk after it.               *)
NextRankAt(c, p) ==
  LET base == BaseChunk(chunk_size, prefix_len, c)
      i == (prefix_len % chunk_size) + p
  IN  IF i < chunk_size THEN <<base, i>> ELSE <<base + 1, i - chunk_size>>

(* refine reads the next ranks of the window; where the text has ended,    *)
(* the files are short and the buffer keeps what an earlier chunk left.    *)
ReadNextRanks(c) ==
  [p \in 0 .. chunk_size - 1 |->
    LET at == NextRankAt(c, p)
    IN  IF p \in Window(c) /\ at[1] < TotalChunks /\ at[2] \in Local(at[1])
        THEN ranks[at[1]][at[2]] ELSE next_ranks_buffer[p]]

(* generate_local_runs_fast on the next chunk.                             *)
Refine ==
  /\ pc = "refine"
  /\ chunk < TotalChunks
  /\ chunk' = chunk + 1
  /\ IF IsEmpty(chunk)
     THEN UNCHANGED <<next_ranks_buffer, nexts, status>>
     ELSE /\ next_ranks_buffer' = ReadNextRanks(chunk)
          /\ nexts' = [nexts EXCEPT ![chunk] =
                         Runs([j \in DOMAIN sa[chunk] |-> next_ranks_buffer'[sa[chunk][j]]])]
          /\ status' = IF sa[chunk] = <<>> THEN status ELSE "SUCCESS"
  /\ UNCHANGED <<text, chunk_size, prefix_len, pc, files, global>>

(* A slip: the prefix length halved.                                       *)
Doubled_Halved(L) == L \div 2

Doubled(L) == 2 * L

(* The shell's look at refine's status: the loop ends on EMPTY alone.      *)
EndRefine ==
  /\ pc = "refine"
  /\ chunk = TotalChunks
  /\ IF status = "EMPTY"
     THEN pc' = "finished" /\ prefix_len' = Doubled(prefix_len)
     ELSE pc' = "merge" /\ UNCHANGED prefix_len
  /\ UNCHANGED <<text, chunk_size, chunk, files, nexts, global, next_ranks_buffer, status>>

AllTriples == [c \in AllChunks |-> Triples(currents[c], nexts[c])]

(* merge, as one step: it fails on streams that disagree and on an empty   *)
(* heap.  Merge shows how it does this.                                    *)
MergeRuns ==
  /\ pc = "merge"
  /\ IF \/ \E c \in AllChunks : StreamsDisagree(currents[c], nexts[c])
        \/ AllTriples = [c \in AllChunks |-> <<>>]
     THEN pc' = "failed" /\ UNCHANGED <<chunk, global>>
     ELSE /\ pc' = "update" /\ chunk' = 0
          /\ \E triples \in {AllTriples} : global' = Resolved(triples)
  /\ UNCHANGED <<text, chunk_size, prefix_len, files, nexts, next_ranks_buffer, status>>

-----------------------------------------------------------------------------
(* update_local_ranks leaves a chunk alone that has no run.                *)
Skips(c) == IsEmpty(c) \/ global[c] = <<>>

Survives(run) == run.count # 0

(* A slip: the resolved entries left in place.                             *)
UpdatedSA_NotCompacted(c) == sa[c]

(* The entries of the suffix array whose run survives, in their order.     *)
UpdatedSA(c) ==
  LET slot == Slots(global[c])
  IN  Selected(sa[c], {j \in DOMAIN sa[c] : Survives(global[c][slot[j]])})

(* The runs that survive: the stream of the next iteration.                *)
UpdatedCurrents(c) ==
  Selected(global[c], {j \in DOMAIN global[c] : Survives(global[c][j])})

(* A slip: the last position of the window not written back.               *)
UpdatedRanks_ShortWrite(c) ==
  LET slot == Slots(global[c])
      Slot(i) == slot[CHOOSE j \in DOMAIN sa[c] : sa[c][j] = i]
  IN  [i \in Local(c) |->
        IF i \in (Window(c) \ {bounds[c][2]}) \cap Range(sa[c])
        THEN global[c][Slot(i)].rank ELSE ranks[c][i]]

(* The ranks of the runs, in the window's slice of the file alone: what    *)
(* lies outside is not written back.                                       *)
UpdatedRanks(c) ==
  LET slot == Slots(global[c])
      Slot(i) == slot[CHOOSE j \in DOMAIN sa[c] : sa[c][j] = i]
  IN  [i \in Local(c) |->
        IF i \in Window(c) \cap Range(sa[c])
        THEN global[c][Slot(i)].rank ELSE ranks[c][i]]

(* Slips: a window one position too wide, and one too narrow.              *)
Tightened_Wide(positions) ==
  IF positions = {} THEN Empty ELSE <<Min(positions), Max(positions) + 1>>

Tightened_Narrow(positions) ==
  IF positions = {} THEN Empty ELSE <<Min(positions) + 1, Max(positions)>>

Tightened(positions) ==
  IF positions = {} THEN Empty ELSE <<Min(positions), Max(positions)>>

(* update_local_ranks on the next chunk.  When the counts do not cover the *)
(* suffix array the script exits: what is left in the files is not read.   *)
Update ==
  /\ pc = "update"
  /\ chunk < TotalChunks
  /\ \/ /\ Skips(chunk)
        /\ chunk' = chunk + 1
        /\ UNCHANGED <<pc, files>>
     \/ /\ ~ Skips(chunk)
        /\ Len(Slots(global[chunk])) # Len(sa[chunk])
        /\ pc' = "failed"
        /\ UNCHANGED <<chunk, files>>
     \/ /\ ~ Skips(chunk)
        /\ Len(Slots(global[chunk])) = Len(sa[chunk])
        /\ chunk' = chunk + 1
        /\ ranks' = [ranks EXCEPT ![chunk] = UpdatedRanks(chunk)]
        /\ sa' = [sa EXCEPT ![chunk] = UpdatedSA(chunk)]
        /\ currents' = [currents EXCEPT ![chunk] = UpdatedCurrents(chunk)]
        /\ bounds' = [bounds EXCEPT ![chunk] = Tightened(Range(UpdatedSA(chunk)))]
        /\ UNCHANGED pc
  /\ UNCHANGED <<text, chunk_size, prefix_len, nexts, global, next_ranks_buffer, status>>

(* The next iteration: TEMP_DIR is wiped, and refine starts anew.          *)
EndUpdate ==
  /\ pc = "update"
  /\ chunk = TotalChunks
  /\ pc' = "refine" /\ chunk' = 0 /\ status' = "EMPTY"
  /\ prefix_len' = Doubled(prefix_len)
  /\ nexts' = [c \in AllChunks |-> <<>>]
  /\ global' = [c \in AllChunks |-> <<>>]
  /\ next_ranks_buffer' = [i \in 0 .. chunk_size - 1 |-> 0]
  /\ UNCHANGED <<text, chunk_size, files>>

Next == Refine \/ EndRefine \/ MergeRuns \/ Update \/ EndUpdate

Spec == Init /\ [][Next]_vars

(* One program runs after the other, and nothing waits.                    *)
FairSpec == Spec /\ WF_vars(Next)

-----------------------------------------------------------------------------
IsRuns(runs) == \A j \in DOMAIN runs : runs[j].rank \in Nat /\ runs[j].count \in Nat

TypeOK ==
  /\ text \in Texts /\ chunk_size \in ChunkSizes
  /\ prefix_len \in Nat \ {0}
  /\ pc \in {"refine", "merge", "update", "finished", "failed"}
  /\ chunk \in 0 .. TotalChunks
  /\ \A c \in AllChunks :
       /\ ranks[c] \in [Local(c) -> Nat]
       /\ Range(sa[c]) \subseteq Local(c)
       /\ IsRuns(currents[c]) /\ IsRuns(nexts[c]) /\ IsRuns(global[c])
       /\ Window(c) \subseteq Local(c)
  /\ next_ranks_buffer \in [0 .. chunk_size - 1 -> Nat]
  /\ status \in {"SUCCESS", "EMPTY"}

(* Neither merge nor update meets streams that do not fit one another: what*)
(* update wrote to currents and sa an iteration ago still covers the runs  *)
(* refine makes of sa now.                                                 *)
NeverFails == pc # "failed"

(* Every chunk's currents, written by update an iteration ago or more, or  *)
(* by init, say the ranks of its suffix array's entries.                   *)
CurrentsFollowRanks ==
  pc \in {"refine", "merge"} =>
    \A c \in AllChunks :
      Expand(currents[c]) = [j \in DOMAIN sa[c] |-> ranks[c][sa[c][j]]]

(* merge's heap takes the smallest of the chunks' first triples: each      *)
(* chunk's triples come in order although no program sorts them, stale     *)
(* next ranks included.                                                    *)
TriplesInOrder ==
  pc = "merge" =>
    \A c \in AllChunks : \A j \in 2 .. Len(AllTriples[c]) :
      LET t == AllTriples[c][j - 1]
          u == AllTriples[c][j]
      IN  t.current < u.current \/ (t.current = u.current /\ t.next < u.next)

(* The window that refine loads holds every position it looks up, the      *)
(* slice that update writes back every rank it changes: a position outside *)
(* would keep a stale rank, or be ranked by another chunk's.               *)
WindowCoversLive ==
  \A c \in AllChunks : Range(sa[c]) \subseteq Window(c)

(* An iteration as one step: PrefixDoubling's is taken when merge has      *)
(* resolved the ranks, chunks that update has not reached yet showing what *)
(* it is about to write.                                                   *)
Pending(c) == pc = "update" /\ chunk <= c /\ ~ Skips(c)

ranks_then(c) == IF Pending(c) THEN UpdatedRanks(c) ELSE ranks[c]

sa_then(c) == IF Pending(c) THEN UpdatedSA(c) ELSE sa[c]

prefix_len_then == IF pc = "update" THEN Doubled(prefix_len) ELSE prefix_len

rank_then ==
  [p \in Positions(text) |-> ranks_then(ChunkOf(chunk_size, p))[p % chunk_size]]

live_then == UNION {{c * chunk_size + i : i \in Range(sa_then(c))} : c \in AllChunks}

Doubling == INSTANCE PrefixDoubling WITH
  KmerLengths <- Nat \ {0},
  prefix_len <- prefix_len_then,
  rank <- rank_then,
  live <- live_then,
  more_runs <- pc # "finished"

(* The files' loop implements PrefixDoubling: its ranks are the right ones *)
(* after every iteration, whatever the chunks and whatever was dropped.    *)
ImplementsDoubling == Doubling!Spec

(* The loop ends.                                                          *)
Terminates == <>(pc = "finished")
=============================================================================
