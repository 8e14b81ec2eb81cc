----------------------------- MODULE Inversion -----------------------------
(***************************************************************************)
(* create_pairs.c and invert.c: the final ranks, a chunk at a time, become *)
(* pairs (position, rank) in a file per chunk of ranks, and each of these  *)
(* files a chunk of the suffix array.  Ranks are given as they are in the  *)
(* files, final or not.                                                    *)
(***************************************************************************)
EXTENDS RunStreams

Bucket(S, rank) == rank \div S

(* create_pairs: the records of a chunk's ranks, in order of position.     *)
InverseRecords(S, chunk_id, ranks) ==
  [i \in DOMAIN ranks |-> [index |-> i - 1 + chunk_id * S, value |-> ranks[i]]]

(* How many of the ranks belong to buckets up to b: bucket_starts[b] when  *)
(* all records are in their places.                                        *)
BucketEnd(S, ranks, b) == Cardinality({i \in DOMAIN ranks : Bucket(S, ranks[i]) <= b})

(* The buffer in which the records lie bucket by bucket.                   *)
InverseBuffer(S, total_chunks, records) ==
  FlattenSeq([b \in 1 .. total_chunks |->
    Selected(records, {i \in DOMAIN records : Bucket(S, records[i].value) = b - 1})])

(* A slip: bucket b's slice taken to start at its end.                     *)
PairsSlice_NextBucket(S, buffer, ranks, b) ==
  SubSeq(buffer, BucketEnd(S, ranks, b) + 1, BucketEnd(S, ranks, b + 1))

(* The slice of the buffer that create_pairs appends to pairs_<b>.         *)
PairsSlice(S, buffer, ranks, b) ==
  SubSeq(buffer, BucketEnd(S, ranks, b - 1) + 1, BucketEnd(S, ranks, b))

-----------------------------------------------------------------------------
(* invert reads at most a chunk of records; of several with one rank the   *)
(* last one counts.                                                        *)
ReadPairs(S, pairs) == SubSeq(pairs, 1, IF Len(pairs) < S THEN Len(pairs) ELSE S)

(* invert's suffixarray, which keeps from one chunk to the next what no    *)
(* record of the chunk replaces.                                           *)
Placed(S, suffixarray, pairs) ==
  LET read == ReadPairs(S, pairs)
  IN  [slot \in DOMAIN suffixarray |->
        LET hits == {n \in DOMAIN read : read[n].value % S = slot}
        IN  IF hits = {} THEN suffixarray[slot] ELSE read[Max(hits)].index]

(* suffixarray_<id>: as many entries as records were read.                 *)
WrittenChunk(S, suffixarray, pairs) ==
  LET placed == Placed(S, suffixarray, pairs)
  IN  [j \in 1 .. Len(ReadPairs(S, pairs)) |-> placed[j - 1]]
=============================================================================
