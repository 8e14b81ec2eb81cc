----------------------------- MODULE VerifyFiles -----------------------------
(***************************************************************************)
(* What verify.c computes from the files: the records of a chunk of        *)
(* ranks_*, and the tests of a chunk of suffixarray_*.  W is the chunk     *)
(* size, ranks and sa are sequences of files, a file being a sequence.     *)
(***************************************************************************)
EXTENDS SuffixText, SequencesExt

(* A slip: the sentinel last.                                              *)
EncodeFirstKey_SentinelLast(symbol) == IF symbol = 0 THEN 300 ELSE 1 + symbol

(* encode_first_key: the sentinel first, then the bytes in order.          *)
EncodeFirstKey(symbol) == IF symbol = 0 THEN 0 ELSE 1 + symbol

(* At most W ranks of a file are read.                                     *)
ReadRanks(W, file) == SubSeq(file, 1, IF Len(file) < W THEN Len(file) ELSE W)

(* A slip: the next rank of a chunk's last position taken to be missing.   *)
NextRank_NoPeek(W, ranks, chunk_id, i) ==
  LET R == ReadRanks(W, ranks[chunk_id + 1])
  IN  IF i < Len(R) THEN R[i + 1] ELSE -1

(* The next rank of a chunk's i-th position: in the chunk, the first of    *)
(* the next chunk, or -1 for the text's last position.                     *)
NextRank(W, ranks, chunk_id, i) ==
  LET R == ReadRanks(W, ranks[chunk_id + 1])
  IN  IF i < Len(R) THEN R[i + 1]
      ELSE IF chunk_id + 1 < Len(ranks) THEN ranks[chunk_id + 2][1]
      ELSE -1

(* verify_partition on a chunk's i-th rank, stream symbols having been     *)
(* read before the chunk: the position that a record names is computed     *)
(* from the chunk, its symbol is the next one of the input.                *)
VerifyRecord(text, W, ranks, stream, chunk_id, i) ==
  LET rank == ranks[chunk_id + 1][i]
  IN  [position |-> chunk_id * W + i - 1,
       next_rank |-> NextRank(W, ranks, chunk_id, i),
       target |-> rank \div W,
       slot |-> rank % W,
       first_key |-> EncodeFirstKey(Symbol(text, stream + i - 1))]

(* The records of a chunk.  No two name the same position, and the order   *)
(* in which they are written is not looked at.                             *)
VerifyRecords(text, W, ranks, stream, chunk_id) ==
  {VerifyRecord(text, W, ranks, stream, chunk_id, i) :
     i \in DOMAIN ReadRanks(W, ranks[chunk_id + 1])}

(* A slip: the end of the input not looked for.                            *)
PartitionFails_NoEnd(text, W, ranks, stream, chunk_id) ==
  LET R == ReadRanks(W, ranks[chunk_id + 1])
  IN  \/ chunk_id + 1 < Len(ranks) /\ ranks[chunk_id + 2] = <<>>
      \/ \E i \in DOMAIN R : R[i] \div W >= Len(ranks)

(* Where the partition gives up: no first rank of the next chunk, no       *)
(* symbol left for a rank, a rank beyond the last chunk.                   *)
PartitionFails(text, W, ranks, stream, chunk_id) ==
  LET R == ReadRanks(W, ranks[chunk_id + 1])
  IN  \/ chunk_id + 1 < Len(ranks) /\ ranks[chunk_id + 2] = <<>>
      \/ stream + Len(R) > Len(text) + 1
      \/ \E i \in DOMAIN R : R[i] \div W >= Len(ranks)

-----------------------------------------------------------------------------
(* The records of a chunk of ranks fill the slots of suffixarray_<k>, each *)
(* of them once.                                                           *)
Fits(W, file, records) ==
  /\ Len(file) <= W
  /\ \A record \in records : record.slot < Len(file)
  /\ \A r, s \in records : r.slot = s.slot => r = s
  /\ Cardinality(records) = Len(file)

(* The records in the order of their slots.                                *)
InSlotOrder(records) ==
  [n \in 1 .. Cardinality(records) |-> CHOOSE record \in records : record.slot = n - 1]

(* lex_less_strict: by first symbol, then by next rank.                    *)
LexLessStrict(p, c) ==
  IF p.first_key # c.first_key THEN p.first_key < c.first_key
  ELSE p.next_rank < c.next_rank

(* The file names the records' positions, and these increase, from the     *)
(* carry (the last record before, if there is one) on.                     *)
InOrder(file, placed, carry) ==
  LET neighbours == carry \o placed
  IN  /\ \A n \in DOMAIN placed : placed[n].position = file[n]
      /\ \A n \in 2 .. Len(neighbours) : LexLessStrict(neighbours[n - 1], neighbours[n])

(* The carry after a chunk.                                                *)
CarryAfter(placed, carry) == IF placed = <<>> THEN carry ELSE <<Last(placed)>>

-----------------------------------------------------------------------------
(* All of verify as one test.                                              *)
Accepts(text, W, ranks, sa) ==
  LET K == Len(ranks)
      stream == [c \in 0 .. K |-> Len(FlattenSeq([j \in 1 .. c |-> ReadRanks(W, ranks[j])]))]
      records == UNION {VerifyRecords(text, W, ranks, stream[c], c) : c \in 0 .. K - 1}
      routed == [k \in 1 .. K |-> {record \in records : record.target = k - 1}]
      placed == [k \in 1 .. K |-> InSlotOrder(routed[k])]
      carry == [k \in 1 .. K |-> LET before == FlattenSeq(SubSeq(placed, 1, k - 1))
                                 IN  IF before = <<>> THEN <<>> ELSE <<Last(before)>>]
  IN  /\ \A c \in 0 .. K - 1 : ~ PartitionFails(text, W, ranks, stream[c], c)
      /\ stream[K] = Len(text) + 1
      /\ \A k \in 1 .. K : Fits(W, sa[k], routed[k])
      /\ \A k \in 1 .. K : InOrder(sa[k], placed[k], carry[k])
=============================================================================
