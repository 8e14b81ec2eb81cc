------------------------------- MODULE Verify -------------------------------
(***************************************************************************)
(* verify.c on arbitrary files: the checker is all that stands between a   *)
(* run that went wrong and its user, and must not trust what it checks.    *)
(* The contents of suffixarray_<k> are picked when verify opens it.        *)
(***************************************************************************)
EXTENDS VerifyFiles

CONSTANTS
  Texts, ChunkSizes,
  RankFiles(_),    \* for a chunk size: the sequences of files ranks_*
  SAFiles(_)       \* for a chunk size: the files suffixarray_<k>

ASSUME TextsAssumption == Texts \subseteq Seq(Nat \ {0})
ASSUME ChunkSizesAssumption == ChunkSizes \subseteq Nat \ {0}
ASSUME FilesAssumption ==
  \A S \in ChunkSizes : RankFiles(S) \subseteq Seq(Seq(Nat)) /\ SAFiles(S) \subseteq Seq(Int)

VARIABLES
  text, W,
  ranks, sa,      \* the files; of sa, those opened so far
  pc,             \* partition, check; accepted or rejected
  chunk_id,
  stream,         \* symbols read from the input
  verify_files,   \* the records, by chunk of ranks
  carry

vars == <<text, W, ranks, sa, pc, chunk_id, stream, verify_files, carry>>

total_chunks == Len(ranks)

Init ==
  /\ text \in Texts
  /\ W \in ChunkSizes
  /\ ranks \in RankFiles(W)
  /\ sa = <<>> /\ pc = "partition" /\ chunk_id = 0 /\ stream = 0
  /\ verify_files = [k \in 1 .. total_chunks |-> {}]
  /\ carry = <<>>

Reject == pc' = "rejected"

(* verify_partition on the next file of ranks.                             *)
Partition ==
  /\ pc = "partition"
  /\ chunk_id < total_chunks
  /\ IF PartitionFails(text, W, ranks, stream, chunk_id)
     THEN Reject /\ UNCHANGED <<chunk_id, stream, verify_files>>
     ELSE /\ verify_files' = [k \in 1 .. total_chunks |->
               verify_files[k] \cup
               {record \in VerifyRecords(text, W, ranks, stream, chunk_id) : record.target = k - 1}]
          /\ stream' = stream + Len(ReadRanks(W, ranks[chunk_id + 1]))
          /\ chunk_id' = chunk_id + 1
          /\ UNCHANGED pc
  /\ UNCHANGED <<text, W, ranks, sa, carry>>

(* The input must be at its end.                                           *)
EndPartition ==
  /\ pc = "partition"
  /\ chunk_id = total_chunks
  /\ IF stream # Len(text) + 1
     THEN Reject /\ UNCHANGED chunk_id
     ELSE pc' = "check" /\ chunk_id' = 0
  /\ UNCHANGED <<text, W, ranks, sa, stream, verify_files, carry>>

(* verify_check on the next chunk of the suffix array.                     *)
Check ==
  /\ pc = "check"
  /\ chunk_id < total_chunks
  /\ \E file \in SAFiles(W) :
       LET records == verify_files[chunk_id + 1]
       IN  /\ sa' = Append(sa, file)
           /\ IF Fits(W, file, records) /\ InOrder(file, InSlotOrder(records), carry)
              THEN /\ carry' = CarryAfter(InSlotOrder(records), carry)
                   /\ chunk_id' = chunk_id + 1
                   /\ UNCHANGED pc
              ELSE Reject /\ UNCHANGED <<carry, chunk_id>>
  /\ UNCHANGED <<text, W, ranks, stream, verify_files>>

Accept ==
  /\ pc = "check"
  /\ chunk_id = total_chunks
  /\ pc' = "accepted"
  /\ UNCHANGED <<text, W, ranks, sa, chunk_id, stream, verify_files, carry>>

Next == Partition \/ EndPartition \/ Check \/ Accept

Spec == Init /\ [][Next]_vars

-----------------------------------------------------------------------------
TypeOK ==
  /\ text \in Texts /\ W \in ChunkSizes
  /\ pc \in {"partition", "check", "accepted", "rejected"}
  /\ chunk_id \in 0 .. total_chunks
  /\ stream \in 0 .. Len(text) + 1
  /\ Len(sa) \in {chunk_id, chunk_id + 1, 0}
  /\ \A k \in DOMAIN verify_files : \A record \in verify_files[k] :
       /\ record.target = k - 1 /\ record.slot \in 0 .. W - 1
       /\ record.next_rank \in Nat \cup {-1}
  /\ Len(carry) <= 1

(* init, which alone writes whole files of ranks, fills all but the last.  *)
Shaped == \A c \in 1 .. total_chunks - 1 : Len(ranks[c]) = W

(* Whatever the ranks are, final or not, duplicates or numbers without     *)
(* sense, and whatever the files hold: if verify accepts, the files are    *)
(* the suffix array, one after the other.  Every position is in one of     *)
(* them, and an entry's suffix is smaller than that of any later entry, of *)
(* the same file or not.                                                   *)
AcceptsOnlySuffixArrays ==
  pc = "accepted" /\ Shaped =>
    /\ \A p \in Positions(text) : \E k \in DOMAIN sa : \E n \in DOMAIN sa[k] : sa[k][n] = p
    /\ \A k \in DOMAIN sa : \A n \in DOMAIN sa[k] :
         /\ sa[k][n] \in Positions(text)
         /\ \A l \in DOMAIN sa : \A m \in DOMAIN sa[l] :
              k < l \/ (k = l /\ n < m) => SuffixLess(text, sa[k][n], sa[l][m])

(* The files that a run without faults leaves.                             *)
RightRanks ==
  ranks = [c \in 1 .. ChunkOf(W, Len(text)) + 1 |->
            [i \in 1 .. Cardinality({p \in Positions(text) : ChunkOf(W, p) = c - 1}) |->
              SuffixRank(text, (c - 1) * W + i - 1)]]

RightSA ==
  \A k \in DOMAIN sa :
    sa[k] = [n \in 1 .. Len(ranks[k]) |->
              CHOOSE p \in Positions(text) : SuffixRank(text, p) = (k - 1) * W + n - 1]

(* verify never rejects these: neither the chunk boundary between a        *)
(* position and the next, nor the one between two neighbours of the suffix *)
(* array, nor the end of the text is held against them.  And its verdict   *)
(* is the one that Accepts gives of the files as a whole.                  *)
AcceptsRightFiles ==
  /\ pc = "rejected" => ~ (RightRanks /\ RightSA)
  /\ Len(sa) = total_chunks /\ pc \in {"accepted", "rejected"} =>
       (pc = "accepted" <=> Accepts(text, W, ranks, sa))
=============================================================================
