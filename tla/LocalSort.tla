----------------------------- MODULE LocalSort -----------------------------
(***************************************************************************)
(* init's pass 3 (init.cpp, run_pass_3; srank.hpp): the chunks are sorted  *)
(* one by one, from the last to the first, each as a plain string of       *)
(* bytes, in which a suffix that ends is the smallest.  For the result to  *)
(* be the order of the text's suffixes, the Z transform adds one to the    *)
(* bytes from which the text after the chunk decides.  Which these are is  *)
(* told by the bits gt_eof, computed from the next chunk's bytes and its   *)
(* bits gt_head with a matcher that skips ahead along periods.             *)
(*                                                                         *)
(* A bit vector is the set of its bits; positions within a chunk are       *)
(* 0-based.                                                                *)
(***************************************************************************)
EXTENDS RunStreams

CONSTANTS Texts, ChunkSizes

(* Bytes shifted by one: 255 is left for the transform (KmerRanks).        *)
ASSUME TextsAssumption == Texts \subseteq Seq(1 .. 254) \ {<<>>}
ASSUME ChunkSizesAssumption == ChunkSizes \subseteq Nat \ {0}

VARIABLES
  text, chunk_size,
  chunk_id,       \* the chunk in hand
  pc,             \* load, gt_eof, transform, gt_head, sort; or done
  X,              \* its bytes, transformed once they are
  A,              \* the next chunk's bytes, as its X_<id> holds them: untransformed
  gt_head,        \* the bits kept in gt_head_<id> of the chunk last finished
  bits,           \* gt_eof or the new gt_head while it is computed
  m,              \* the matcher: i, the match there, the longest match and its place
  ranks, sa, currents, bounds   \* files, of the chunks sorted so far; ranks by pass C

vars == <<text, chunk_size, chunk_id, pc, X, A, gt_head, bits, m, ranks, sa, currents, bounds>>

AllChunks == Chunks(text, chunk_size)

LastChunk == ChunkOf(chunk_size, Len(text))

(* X_<id>: the chunk's part of the text with its sentinel.                 *)
RawChunk(c) ==
  [i \in {i \in 0 .. chunk_size - 1 : c * chunk_size + i \in Positions(text)} |->
    Symbol(text, c * chunk_size + i)]

Size(bytes) == Cardinality(DOMAIN bytes)

-----------------------------------------------------------------------------
(* srank_next: the maximal suffix of T[0 .. length) starts at s and has    *)
(* period p; r counts within the period.  d is what is known for           *)
(* length - 1.                                                             *)
SRankNext(T, length, d) ==
  LET Scan[i \in Nat, e \in [s : Nat, p : Nat, r : Nat]] ==
        IF i >= length THEN e
        ELSE LET a == T[e.s + e.r]
                 b == T[i]
             IN  IF a > b THEN Scan[i + 1, [s |-> e.s, p |-> i - e.s + 1, r |-> 0]]
                 ELSE IF a < b THEN Scan[i - e.r + 1, [s |-> i - e.r, p |-> 1, r |-> 0]]
                 ELSE Scan[i + 1, [e EXCEPT !.r = IF @ + 1 = e.p THEN 0 ELSE @ + 1]]
  IN  IF length = 1 THEN [s |-> 0, p |-> 1, r |-> 0] ELSE Scan[length - 1, d]

(* The match of T's first el bytes, and the maximal suffix d of these.     *)
NoMatch == [el |-> 0, d |-> [s |-> 0, p |-> 0, r |-> 0]]

Matcher(i) == [i |-> i, found |-> NoMatch, i_max |-> 0, longest |-> NoMatch]

(* The match grown while Y's bytes from i on are T's.                      *)
Extended(T, Y, i, match) ==
  LET Grow[f \in [el : Nat, d : [s : Nat, p : Nat, r : Nat]]] ==
        IF i + f.el < Size(Y) /\ f.el < Size(T) /\ Y[i + f.el] = T[f.el]
        THEN Grow[[el |-> f.el + 1, d |-> SRankNext(T, f.el + 1, f.d)]]
        ELSE f
  IN  Grow[match]

(* T's matched bytes have a period short enough to skip ahead by it.       *)
Periodic(T, match) ==
  /\ match.d.p # 0
  /\ 3 * match.d.p <= match.el
  /\ \A j \in 0 .. match.d.s - 1 : T[j] = T[match.d.p + j]

(* A slip: the whole match skipped.                                        *)
Skip_WholeMatch(T, match) ==
  IF Periodic(T, match) THEN match.d.p ELSE match.el + 1

(* How far the matcher moves.                                              *)
Skip(T, match) ==
  IF Periodic(T, match) THEN match.d.p ELSE match.el \div 3 + 1

(* The bits of gt_head are stored from right to left.                      *)
BitOf(i) == IF pc = "gt_head" THEN Size(X) - 1 - i ELSE i

(* One turn of the matcher over X against T, greater telling the bit of    *)
(* position i.  The shorter of the present and the longest match decides   *)
(* how far to skip; the bits skipped are those after the longest match     *)
(* before, copied one after the other.                                     *)
Turn(T, Greater(_)) ==
  LET found == Extended(T, X, m.i, m.found)
      longer == found.el > m.longest.el
      shorter == IF longer THEN m.longest ELSE found
      set == IF Greater(found.el) THEN bits \cup {BitOf(m.i)} ELSE bits
  IN  /\ bits' = FoldLeft(LAMBDA b, q : IF BitOf(m.i_max + q) \in b
                                       THEN b \cup {BitOf(m.i + q)} ELSE b,
                         set, [q \in 1 .. Skip(T, shorter) - 1 |-> q])
      /\ m' = [i |-> m.i + Skip(T, shorter),
               found |-> IF Periodic(T, shorter)
                         THEN [shorter EXCEPT !.el = @ - shorter.d.p]
                         ELSE [NoMatch EXCEPT !.d.r = shorter.d.r],
               i_max |-> IF longer THEN m.i ELSE m.i_max,
               longest |-> IF longer THEN found ELSE m.longest]

-----------------------------------------------------------------------------
Init ==
  /\ text \in Texts
  /\ chunk_size \in ChunkSizes
  /\ chunk_id = LastChunk /\ pc = "load"
  /\ X = <<>> /\ A = <<>> /\ gt_head = {} /\ bits = {} /\ m = Matcher(0)
  /\ ranks = [c \in AllChunks |-> [i \in DOMAIN RawChunk(c) |->
                PrefixRank(text, KmerLength(text, chunk_size), c * chunk_size + i)]]
  /\ sa = [c \in AllChunks |-> <<>>]
  /\ currents = [c \in AllChunks |-> <<>>]
  /\ bounds = [c \in AllChunks |-> <<0, -1>>]

(* What follows when the chunk's bytes are final: the bits are of no use   *)
(* to a single chunk.                                                      *)
AfterTransform == IF LastChunk = 0 THEN "sort" ELSE "gt_head"

Load ==
  /\ pc = "load"
  /\ X' = RawChunk(chunk_id)
  /\ bounds' = [bounds EXCEPT ![chunk_id] = <<0, Size(X') - 1>>]
  /\ bits' = {}
  /\ IF chunk_id < LastChunk
     THEN pc' = "gt_eof" /\ A' = RawChunk(chunk_id + 1) /\ m' = Matcher(0)
     ELSE pc' = AfterTransform /\ A' = A /\ m' = Matcher(1)
  /\ UNCHANGED <<text, chunk_size, chunk_id, gt_head, ranks, sa, currents>>

(* A slip: the bits of the next chunk read from left to right.             *)
BeyondTail_LeftToRight(el) == el \notin gt_head

(* X is at its end: A, from el on, decides against A.                      *)
BeyondTail(el) == (Size(A) - 1 - el) \notin gt_head

(* Is the text from position m.i of the chunk greater than the text after  *)
(* the chunk, the two matching in el bytes?                                *)
GreaterThanNext(el) ==
  \/ el = Size(A)
  \/ el < Size(A) /\ m.i + el = Size(X) /\ BeyondTail(el)
  \/ el < Size(A) /\ m.i + el < Size(X) /\ X[m.i + el] > A[el]

(* compute_gt_eof_bv                                                       *)
CompareWithNext ==
  /\ pc = "gt_eof"
  /\ m.i < Size(X)
  /\ Turn(A, GreaterThanNext)
  /\ UNCHANGED <<text, chunk_size, chunk_id, pc, X, A, gt_head, ranks, sa, currents, bounds>>

LastByte == X[Size(X) - 1]

(* A slip: a byte equal to the last one always incremented.                *)
Increments_Ties(j) == X[j] >= 1 /\ (j = Size(X) - 1 \/ X[j] >= LastByte)

(* The bytes that decide against the last one as the text does: a larger   *)
(* one, and an equal one when what follows is larger than what follows the *)
(* chunk.  The sentinel is left alone.                                     *)
Increments(j) ==
  /\ X[j] >= 1
  /\ \/ j = Size(X) - 1
     \/ X[j] > LastByte
     \/ X[j] = LastByte /\ (j + 1) \in bits

Transform ==
  /\ pc = "gt_eof"
  /\ m.i >= Size(X)
  /\ X' = [j \in DOMAIN X |-> IF Increments(j) THEN (X[j] + 1) % 256 ELSE X[j]]
  /\ pc' = AfterTransform
  /\ bits' = {} /\ m' = Matcher(1)
  /\ UNCHANGED <<text, chunk_size, chunk_id, A, gt_head, ranks, sa, currents, bounds>>

(* Is the chunk from position m.i greater than the whole chunk?            *)
GreaterThanHead(el) == m.i + el < Size(X) /\ X[m.i + el] > X[el]

(* compute_new_gt_head_bv                                                  *)
CompareWithHead ==
  /\ pc = "gt_head"
  /\ m.i < Size(X)
  /\ Turn(X, GreaterThanHead)
  /\ UNCHANGED <<text, chunk_size, chunk_id, pc, X, A, gt_head, ranks, sa, currents, bounds>>

SaveHead ==
  /\ pc = "gt_head"
  /\ m.i >= Size(X)
  /\ gt_head' = bits
  /\ pc' = "sort"
  /\ UNCHANGED <<text, chunk_size, chunk_id, X, A, bits, m, ranks, sa, currents, bounds>>

(* divsufsort: the suffixes of a string, one that ends before the other    *)
(* being the smaller.                                                      *)
PlainLess(bytes, p, q) ==
  \E d \in 0 .. Size(bytes) - 1 :
    /\ p + d <= Size(bytes) /\ q + d < Size(bytes)
    /\ \A e \in 0 .. d - 1 : bytes[p + e] = bytes[q + e]
    /\ p + d < Size(bytes) => bytes[p + d] < bytes[q + d]

Divsufsort(bytes) ==
  LET Before(p) == {q \in DOMAIN bytes : PlainLess(bytes, q, p)}
  IN  [n \in 1 .. Size(bytes) |-> CHOOSE p \in DOMAIN bytes : Cardinality(Before(p)) = n - 1]

(* The suffix array and, over it, the runs of the ranks of pass C.         *)
Sort ==
  /\ pc = "sort"
  /\ sa' = [sa EXCEPT ![chunk_id] = Divsufsort(X)]
  /\ currents' = [currents EXCEPT ![chunk_id] =
                    Runs([j \in DOMAIN sa'[chunk_id] |-> ranks[chunk_id][sa'[chunk_id][j]]])]
  /\ IF chunk_id = 0 THEN pc' = "done" /\ UNCHANGED chunk_id
                     ELSE pc' = "load" /\ chunk_id' = chunk_id - 1
  /\ UNCHANGED <<text, chunk_size, X, A, gt_head, bits, m, ranks, bounds>>

Next == Load \/ CompareWithNext \/ Transform \/ CompareWithHead \/ SaveHead \/ Sort

Spec == Init /\ [][Next]_vars

-----------------------------------------------------------------------------
IsMatch(match) ==
  /\ match.el \in 0 .. chunk_size
  /\ match.d.s \in 0 .. chunk_size /\ match.d.p \in 0 .. chunk_size
  /\ match.d.r \in 0 .. chunk_size

TypeOK ==
  /\ text \in Texts /\ chunk_size \in ChunkSizes
  /\ chunk_id \in AllChunks
  /\ pc \in {"load", "gt_eof", "gt_head", "sort", "done"}
  /\ Range(X) \subseteq 0 .. 255 /\ Range(A) \subseteq 0 .. 254
  /\ bits \subseteq DOMAIN X /\ gt_head \subseteq 0 .. chunk_size - 1
  /\ m.i \in 0 .. chunk_size /\ m.i_max \in 0 .. chunk_size - 1
  /\ IsMatch(m.found) /\ IsMatch(m.longest)
  /\ \A c \in AllChunks : Len(sa[c]) \in {0, Size(RawChunk(c))}

(* Every bit that the matcher has passed compares the suffixes of the      *)
(* text: with the text after the chunk, and with the suffix at the chunk's *)
(* head.  Skipped positions have theirs from another place, and the bits   *)
(* of the next chunk stand for all the text that follows.  Bit 0 of gt_eof *)
(* is never read.                                                          *)
BitsCompareSuffixes ==
  LET base == chunk_id * chunk_size
      passed == 1 .. IF m.i < Size(X) THEN m.i - 1 ELSE Size(X) - 1
  IN  /\ pc = "gt_eof" =>
           \A i \in passed : i \in bits <=> SuffixLess(text, base + Size(X), base + i)
      /\ pc = "gt_head" =>
           \A i \in passed : (Size(X) - 1 - i) \in bits <=> SuffixLess(text, base, base + i)

(* What the loop starts from.                                              *)
Loop == INSTANCE RankLoop WITH
  prefix_len <- KmerLength(text, chunk_size),
  pc <- "refine", chunk <- 0, status <- "EMPTY",
  nexts <- [c \in AllChunks |-> <<>>], global <- [c \in AllChunks |-> <<>>],
  next_ranks_buffer <- [i \in 0 .. chunk_size - 1 |-> 0]

(* Sorting each chunk as bytes leaves it in the order of the text's        *)
(* suffixes, and the files as RankLoop takes them to be.                   *)
HandsOver == pc = "done" => Loop!Init
=============================================================================
