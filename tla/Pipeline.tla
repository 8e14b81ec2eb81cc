------------------------------ MODULE Pipeline ------------------------------
(***************************************************************************)
(* suffixrank.sh as a whole, from the files init leaves to the exit code:  *)
(* the loop, create_pairs, invert and, if asked for, verify.  A program    *)
(* may be killed at any point.  Its status is then neither SUCCESS nor     *)
(* EMPTY nor FAILURE, and since the script compares with FAILURE alone, it *)
(* goes on with whatever files there are; verify's status is the exception.*)
(*                                                                         *)
(* What a killed program leaves: files that it has closed are whole, of a  *)
(* stream it is writing there is some first part, a file not opened is the *)
(* one there was before, or missing, and then the next program that opens  *)
(* it exits with 1.  What update writes of a chunk fits stdio's buffers: a *)
(* file that it has not closed is empty, or ranks as it was.  init is left *)
(* out: bounds, the last file it writes, is the first that refine opens.   *)
(***************************************************************************)
EXTENDS RankLoop, Inversion, VerifyFiles

CONSTANT MaxFaults

ASSUME MaxFaultsAssumption == MaxFaults \in Nat

VARIABLES
  run_verify,       \* RUN_VERIFY
  faults,           \* programs killed and writes lost so far
  stored_bounds,    \* the file; bounds is update's copy of it
  pairs,            \* the files pairs_<id>
  suffixarray,      \* invert's buffer
  output,           \* the files suffixarray_<id>
  exit_code         \* of the script; -1 while it runs

loop_vars == <<text, chunk_size, prefix_len, chunk, files, nexts, global,
               next_ranks_buffer, status>>
tail_vars == <<pairs, suffixarray, output, exit_code>>
all_vars == <<vars, run_verify, faults, stored_bounds, tail_vars>>

PInit ==
  /\ Init
  /\ run_verify \in BOOLEAN
  /\ faults = 0
  /\ stored_bounds = bounds
  /\ pairs = [k \in AllChunks |-> <<>>]
  /\ suffixarray = [i \in 0 .. chunk_size - 1 |-> 0]
  /\ output = [k \in AllChunks |-> <<>>]
  /\ exit_code = -1

-----------------------------------------------------------------------------
(* merge fails on the streams that MergeRuns fails on.                     *)
MergeInTurn ==
  /\ pc = "merge"
  /\ IF \/ \E c \in AllChunks : StreamsDisagree(currents[c], nexts[c])
        \/ AllTriples = [c \in AllChunks |-> <<>>]
     THEN pc' = "failed" /\ UNCHANGED <<chunk, global>>
     ELSE /\ pc' = "update" /\ chunk' = 0
          /\ global' = MergedInTurn(AllTriples)
  /\ UNCHANGED <<text, chunk_size, prefix_len, files, nexts, next_ranks_buffer, status,
                 run_verify, faults, stored_bounds, tail_vars>>

(* The other programs of the loop, when nothing goes wrong: update stores  *)
(* the windows at its end.                                                 *)
LoopStep ==
  /\ \/ (Refine \/ EndRefine \/ Update) /\ UNCHANGED stored_bounds
     \/ EndUpdate /\ stored_bounds' = bounds
  /\ UNCHANGED <<run_verify, faults, tail_vars>>

(* $STATUS -eq $FAILURE                                                    *)
Failure ==
  /\ pc = "failed"
  /\ pc' = "exited" /\ exit_code' = 1
  /\ UNCHANGED <<loop_vars, run_verify, faults, stored_bounds, pairs, suffixarray, output>>

ChunkRanks(c) == [i \in 1 .. Cardinality(Local(c)) |-> ranks[c][i - 1]]

StartPairs ==
  /\ pc = "finished"
  /\ pc' = "create_pairs" /\ chunk' = 0
  /\ UNCHANGED <<text, chunk_size, prefix_len, files, nexts, global, next_ranks_buffer, status,
                 run_verify, faults, stored_bounds, tail_vars>>

(* The chunk's ranks as pairs, bucket by bucket.                           *)
ChunkBuffer ==
  InverseBuffer(chunk_size, TotalChunks, InverseRecords(chunk_size, chunk, ChunkRanks(chunk)))

(* The pairs files when create_pairs has appended chunk's slices of the    *)
(* given buckets.                                                          *)
AppendedPairs(buffer, buckets) ==
  [k \in AllChunks |->
    IF k \in buckets THEN pairs[k] \o PairsSlice(chunk_size, buffer, ChunkRanks(chunk), k)
                     ELSE pairs[k]]

CreatePairs ==
  /\ pc = "create_pairs"
  /\ chunk < TotalChunks
  /\ \E buffer \in {ChunkBuffer} : pairs' = AppendedPairs(buffer, AllChunks)
  /\ chunk' = chunk + 1
  /\ UNCHANGED <<text, chunk_size, prefix_len, pc, files, nexts, global, next_ranks_buffer,
                 status, run_verify, faults, stored_bounds, suffixarray, output, exit_code>>

EndPairs ==
  /\ pc = "create_pairs"
  /\ chunk = TotalChunks
  /\ pc' = "invert" /\ chunk' = 0
  /\ UNCHANGED <<text, chunk_size, prefix_len, files, nexts, global, next_ranks_buffer, status,
                 run_verify, faults, stored_bounds, tail_vars>>

Invert ==
  /\ pc = "invert"
  /\ chunk < TotalChunks
  /\ suffixarray' = Placed(chunk_size, suffixarray, pairs[chunk])
  /\ output' = [output EXCEPT ![chunk] = WrittenChunk(chunk_size, suffixarray, pairs[chunk])]
  /\ chunk' = chunk + 1
  /\ UNCHANGED <<text, chunk_size, prefix_len, pc, files, nexts, global, next_ranks_buffer,
                 status, run_verify, faults, stored_bounds, pairs, exit_code>>

EndInvert ==
  /\ pc = "invert"
  /\ chunk = TotalChunks
  /\ IF run_verify THEN pc' = "verify" /\ UNCHANGED exit_code
                   ELSE pc' = "exited" /\ exit_code' = 0
  /\ UNCHANGED <<loop_vars, run_verify, faults, stored_bounds, pairs, suffixarray, output>>

Files(f) == [c \in 1 .. TotalChunks |-> f[c - 1]]

VerifyEnds(code) ==
  /\ pc = "verify"
  /\ pc' = "exited" /\ exit_code' = code
  /\ UNCHANGED <<loop_vars, run_verify, stored_bounds, pairs, suffixarray, output>>

(* verify, as one step; Verify shows how it comes to its verdict.          *)
RunVerify ==
  /\ VerifyEnds(IF Accepts(text, chunk_size, Files([c \in AllChunks |-> ChunkRanks(c)]),
                           Files(output))
                THEN 0 ELSE 1)
  /\ UNCHANGED faults

-----------------------------------------------------------------------------
(* Faults.                                                                 *)

Fault == faults < MaxFaults /\ faults' = faults + 1

FirstParts(s) == {SubSeq(s, 1, n) : n \in 0 .. Len(s)}

(* refine is killed: there is a nexts file missing, on which merge exits,  *)
(* unless it has come to its last chunk; then merge takes what there is.   *)
KillRefine ==
  /\ pc = "refine"
  /\ Fault
  /\ \/ /\ chunk < TotalChunks
        /\ pc' = "failed"
        /\ UNCHANGED nexts
     \/ /\ chunk = TotalChunks - 1 /\ ~ IsEmpty(chunk)
        /\ LET read == ReadNextRanks(chunk)
           IN  \E part \in FirstParts(Runs([j \in DOMAIN sa[chunk] |-> read[sa[chunk][j]]])) :
                 nexts' = [nexts EXCEPT ![chunk] = part]
        /\ pc' = "merge"
     \/ /\ \/ chunk = TotalChunks
           \/ chunk = TotalChunks - 1 /\ IsEmpty(chunk)
        /\ pc' = "merge"
        /\ UNCHANGED nexts
  /\ UNCHANGED <<text, chunk_size, prefix_len, chunk, files, global, next_ranks_buffer, status,
                 run_verify, stored_bounds, tail_vars>>

(* merge writes a triple's run in the turn after the triple's own, unless  *)
(* it has failed: where the streams of a chunk disagree, in the turn of    *)
(* the chunk's last triple, before the first turn if it has none.          *)
ComesToWrite(c, j) ==
  LET order == PopOrder(AllTriples)
      Turn(x) == CHOOSE n \in DOMAIN order : order[n] = x
  IN  \A d \in AllChunks : StreamsDisagree(currents[d], nexts[d]) =>
        /\ AllTriples[d] # <<>>
        /\ Turn(<<c, j>>) + 1 < Turn(<<d, Len(AllTriples[d])>>)

(* merge is killed: of each global file a first part, or some are missing, *)
(* on which update exits.  Streams that disagree may not have been noticed.*)
KillMerge ==
  /\ pc = "merge"
  /\ Fault
  /\ \/ /\ pc' = "failed"
        /\ UNCHANGED <<chunk, global>>
     \/ /\ pc' = "update" /\ chunk' = 0
        /\ \E resolved \in {MergedInTurn(AllTriples)}, length \in [AllChunks -> 0 .. chunk_size] :
             /\ \A c \in AllChunks : length[c] <= Len(resolved[c])
             /\ \A c \in AllChunks : length[c] = 0 \/ ComesToWrite(c, length[c])
             /\ global' = [c \in AllChunks |-> SubSeq(resolved[c], 1, length[c])]
  /\ UNCHANGED <<text, chunk_size, prefix_len, files, nexts, next_ranks_buffer, status,
                 run_verify, stored_bounds, tail_vars>>

(* The script goes on with the next iteration, the windows being those     *)
(* that an earlier update stored.                                          *)
AfterKilledUpdate ==
  /\ pc' = "refine" /\ chunk' = 0 /\ status' = "EMPTY"
  /\ prefix_len' = Doubled(prefix_len)
  /\ bounds' = stored_bounds
  /\ nexts' = [c \in AllChunks |-> <<>>]
  /\ global' = [c \in AllChunks |-> <<>>]
  /\ next_ranks_buffer' = [i \in 0 .. chunk_size - 1 |-> 0]

(* update is killed: between two chunks, or in one after it has truncated  *)
(* currents, truncated sa, written ranks, or written sa as well.           *)
KillUpdate ==
  /\ pc = "update"
  /\ Fault
  /\ AfterKilledUpdate
  /\ \/ UNCHANGED <<ranks, sa, currents>>
     \/ /\ chunk < TotalChunks /\ ~ Skips(chunk)
        /\ Len(Slots(global[chunk])) = Len(sa[chunk])
        /\ currents' = [currents EXCEPT ![chunk] = <<>>]
        /\ \/ UNCHANGED <<ranks, sa>>
           \/ sa' = [sa EXCEPT ![chunk] = <<>>] /\ UNCHANGED ranks
           \/ /\ ranks' = [ranks EXCEPT ![chunk] = UpdatedRanks(chunk)]
              /\ \E rest \in {<<>>, UpdatedSA(chunk)} : sa' = [sa EXCEPT ![chunk] = rest]
  /\ UNCHANGED <<text, chunk_size, run_verify, stored_bounds, tail_vars>>

(* update is killed while it stores the windows: refine finds bounds short *)
(* and exits.                                                              *)
KillStore ==
  /\ pc = "update"
  /\ chunk = TotalChunks
  /\ Fault
  /\ pc' = "failed"
  /\ UNCHANGED <<loop_vars, run_verify, stored_bounds, tail_vars>>

(* create_pairs is killed between two appends; in its first chunk there    *)
(* are files missing, on which invert exits.                               *)
KillPairs ==
  /\ pc = "create_pairs"
  /\ chunk < TotalChunks
  /\ Fault
  /\ IF chunk = 0
     THEN pc' = "failed" /\ UNCHANGED <<pairs, chunk>>
     ELSE /\ pc' = "invert" /\ chunk' = 0
          /\ \E buffer \in {ChunkBuffer}, b \in AllChunks :
               pairs' = AppendedPairs(buffer, 0 .. b - 1)
  /\ UNCHANGED <<text, chunk_size, prefix_len, files, nexts, global, next_ranks_buffer, status,
                 run_verify, stored_bounds, suffixarray, output, exit_code>>

(* create_pairs does not look at what fwrite returns: a slice is lost.     *)
LosePairs ==
  /\ pc = "create_pairs"
  /\ chunk < TotalChunks
  /\ Fault
  /\ \E buffer \in {ChunkBuffer}, b \in AllChunks :
       pairs' = AppendedPairs(buffer, AllChunks \ {b})
  /\ chunk' = chunk + 1
  /\ UNCHANGED <<text, chunk_size, prefix_len, pc, files, nexts, global, next_ranks_buffer,
                 status, run_verify, stored_bounds, suffixarray, output, exit_code>>

(* invert is killed: the files of the remaining chunks are missing.        *)
KillInvert ==
  /\ pc = "invert"
  /\ Fault
  /\ IF run_verify THEN pc' = "verify" /\ UNCHANGED exit_code
                   ELSE pc' = "exited" /\ exit_code' = 0
  /\ UNCHANGED <<loop_vars, run_verify, stored_bounds, pairs, suffixarray, output>>

(* A slip: verify's status compared as the others are.                     *)
KilledVerifyExit_AsOthers == 0

(* $STATUS -ne $SUCCESS                                                    *)
KilledVerifyExit == 1

KillVerify == Fault /\ VerifyEnds(KilledVerifyExit)

PNext ==
  \/ LoopStep \/ MergeInTurn \/ Failure
  \/ StartPairs \/ CreatePairs \/ EndPairs \/ Invert \/ EndInvert \/ RunVerify
  \/ KillRefine \/ KillMerge \/ KillUpdate \/ KillStore
  \/ KillPairs \/ LosePairs \/ KillInvert \/ KillVerify

PSpec == PInit /\ [][PNext]_all_vars

(* The script starts one program after the other, and none of them waits:  *)
(* merge and verify, here one step each, end in some way, and the others   *)
(* take their steps.  No program has to be killed.                         *)
PFairSpec ==
  /\ PSpec
  /\ WF_all_vars(LoopStep \/ Failure
                 \/ StartPairs \/ CreatePairs \/ EndPairs \/ Invert \/ EndInvert)
  /\ WF_pc(pc = "merge" /\ pc' \in {"update", "failed"})
  /\ WF_pc(pc = "verify" /\ pc' = "exited")

-----------------------------------------------------------------------------
PTypeOK ==
  /\ run_verify \in BOOLEAN /\ faults \in 0 .. MaxFaults
  /\ pc \in {"refine", "merge", "update", "finished", "failed", "create_pairs", "invert",
             "verify", "exited"}
  /\ chunk \in 0 .. TotalChunks
  /\ exit_code \in {-1, 0, 1} /\ (exit_code = -1 <=> pc # "exited")
  /\ \A c \in AllChunks :
       /\ ranks[c] \in [Local(c) -> Positions(text)]
       /\ Range(sa[c]) \subseteq Local(c)
       /\ \A record \in Range(pairs[c]) :
            record.index \in Positions(text) /\ Bucket(chunk_size, record.value) = c
       /\ Range(output[c]) \subseteq Positions(text)

SuffixArray == InSuffixOrder(text, Positions(text))

(* When the script exits with 0 the output is the suffix array of the      *)
(* text: if no program was killed, and if verify was asked for, whatever   *)
(* program was killed, verify among them.  A run in which nothing goes     *)
(* wrong never exits with 1.                                               *)
ExitCodeIsTrue ==
  /\ exit_code = 0 /\ (run_verify \/ faults = 0) => FlattenSeq(Files(output)) = SuffixArray
  /\ exit_code = 1 => faults > 0

(* The script exits, whatever was killed: an iteration lost is not one     *)
(* repeated, since the prefix length doubles all the same.                 *)
Exits == <>(pc = "exited")
=============================================================================
