----------------------------- MODULE KmerRanks -----------------------------
(***************************************************************************)
(* init's passes 1, B and C (init.cpp, run_passes_1_and_2): dense codes    *)
(* for the bytes that occur, the length k of the prefixes that ranks start *)
(* from, the histogram of all k-mers, and the files ranks_<id> and X_<id>. *)
(* Passes B and C feed the same symbols to the same rolling window; the    *)
(* blocks in which the input is read leave no trace and are left out.      *)
(***************************************************************************)
EXTENDS SuffixText, SequencesExt

CONSTANTS
  Inputs, ChunkSizes,
  KWrap           \* the counter k of the search has KWrap values

MaxAllowedByte == 253

ASSUME InputsAssumption == Inputs \subseteq Seq(0 .. 255)
ASSUME ChunkSizesAssumption == ChunkSizes \subseteq Nat \ {0}
ASSUME KWrapAssumption == KWrap \in Nat \ {0}

VARIABLES
  input, chunk_size,
  pc,             \* scan, search, histogram, ranks; done or failed
  code_of_byte, B, k, hist_size,
  w,              \* KWin: ring, key and feed index p
  counts,         \* the histogram; from pass C on, bucketstart
  X, ranks        \* the chunk files written and the buffer of the next one

vars == <<input, chunk_size, pc, code_of_byte, B, k, hist_size, w, counts, X, ranks>>

(* The text the later programs see: byte 0 is the sentinel's.              *)
Text == [i \in DOMAIN input |-> input[i] + 1]

-----------------------------------------------------------------------------
(* The rolling window.                                                     *)

KWinReset(length) == [ring |-> [i \in 0 .. length - 1 |-> 0], key |-> 0, p |-> 0]

(* A slip: the code that leaves the window not taken out of the key.       *)
KWinFeed_KeepsOld(win, e) ==
  [ring |-> [win.ring EXCEPT ![win.p % k] = e],
   key |-> win.key * B + e,
   p |-> win.p + 1]

(* A code enters the window, and the one k symbols back leaves it.         *)
KWinFeed(win, e) ==
  [ring |-> [win.ring EXCEPT ![win.p % k] = e],
   key |-> (win.key - win.ring[win.p % k] * (hist_size \div B)) * B + e,
   p |-> win.p + 1]

(* The window has passed its first k - 1 symbols: it holds the k-mer of    *)
(* the next position in order.                                             *)
Emits(win) == win.p >= k

(* The window is fed the input and then k - 1 zeros.                       *)
Feeds == Len(input) + k - 1

NextCode == IF w.p < Len(input) THEN code_of_byte[input[w.p + 1]] ELSE 0

-----------------------------------------------------------------------------
(* Chunk files: a buffer goes to its file when it is full, and at the end  *)
(* unless it is empty.                                                     *)
NoOutput == [files |-> <<>>, buffer |-> <<>>]

(* A slip: the buffer is kept when it is full.                             *)
Flushed_NotCleared(out) ==
  IF Len(out.buffer) = chunk_size
  THEN [out EXCEPT !.files = Append(@, out.buffer)]
  ELSE out

Flushed(out) ==
  IF Len(out.buffer) = chunk_size
  THEN [files |-> Append(out.files, out.buffer), buffer |-> <<>>]
  ELSE out

Appended(out, value) == Flushed([out EXCEPT !.buffer = Append(@, value)])

Closed(out) ==
  IF out.buffer = <<>> THEN out
  ELSE [files |-> Append(out.files, out.buffer), buffer |-> <<>>]

(* A byte of X: 0 is the sentinel's, and the Z transform will add 1.       *)
XByte(byte) == (1 + byte) % 256

-----------------------------------------------------------------------------
Init ==
  /\ input \in Inputs
  /\ chunk_size \in ChunkSizes
  /\ pc = "scan"
  /\ code_of_byte = <<>> /\ B = 1 /\ k = 1 /\ hist_size = 1
  /\ w = KWinReset(1) /\ counts = <<>>
  /\ X = NoOutput /\ ranks = NoOutput

(* A slip: byte 254 let through.                                           *)
TooLarge_LetsThrough(byte) == byte > MaxAllowedByte + 1

TooLarge(byte) == byte > MaxAllowedByte

(* 1 + the number of smaller bytes that occur: 0 is the sentinel's code.   *)
DenseCode(byte) == 1 + Cardinality({b \in Range(input) : b < byte})

(* Pass 1.                                                                 *)
Scan ==
  /\ pc = "scan"
  /\ IF \E byte \in Range(input) : TooLarge(byte)
     THEN pc' = "failed" /\ UNCHANGED <<code_of_byte, B, hist_size>>
     ELSE /\ pc' = "search"
          /\ code_of_byte' = [byte \in Range(input) |-> DenseCode(byte)]
          /\ B' = Cardinality(Range(input)) + 1
          /\ hist_size' = B'
  /\ UNCHANGED <<input, chunk_size, k, w, counts, X, ranks>>

(* B^(k+1) is within the budget, one entry per element of a chunk.         *)
StillFits == hist_size <= chunk_size \div B

GrowK ==
  /\ pc = "search"
  /\ StillFits
  /\ hist_size' = hist_size * B
  /\ k' = (k + 1) % KWrap
  /\ UNCHANGED <<input, chunk_size, pc, code_of_byte, B, w, counts, X, ranks>>

EndSearch ==
  /\ pc = "search"
  /\ ~ StillFits
  /\ pc' = "histogram"
  /\ w' = KWinReset(k)
  /\ counts' = [K \in 0 .. hist_size - 1 |-> 0]
  /\ UNCHANGED <<input, chunk_size, code_of_byte, B, k, hist_size, X, ranks>>

(* Pass B, one symbol or one of the zeros that push out the last k - 1     *)
(* positions: these add nothing to X.                                      *)
CountKmer ==
  /\ pc = "histogram"
  /\ w.p < Feeds
  /\ w' = KWinFeed(w, NextCode)
  /\ X' = IF w.p < Len(input) THEN Appended(X, XByte(input[w.p + 1])) ELSE X
  /\ counts' = IF Emits(w') THEN [counts EXCEPT ![w'.key] = @ + 1] ELSE counts
  /\ UNCHANGED <<input, chunk_size, pc, code_of_byte, B, k, hist_size, ranks>>

(* A slip: a bucket starts after its own k-mers.                           *)
BucketStart_Inclusive ==
  LET acc[K \in DOMAIN counts] == IF K = 0 THEN counts[0] ELSE acc[K - 1] + counts[K]
  IN  acc

(* The cumulative sum: how many positions have a smaller k-mer.            *)
BucketStart ==
  LET acc[K \in DOMAIN counts] == IF K = 0 THEN 0 ELSE acc[K - 1] + counts[K - 1]
  IN  acc

(* The sentinel ends X; then the cumulative sum, and pass C's window.      *)
EndHistogram ==
  /\ pc = "histogram"
  /\ w.p = Feeds
  /\ pc' = "ranks"
  /\ X' = Closed(Appended(X, 0))
  /\ counts' = BucketStart
  /\ w' = KWinReset(k)
  /\ UNCHANGED <<input, chunk_size, code_of_byte, B, k, hist_size, ranks>>

(* Pass C: rank 0 is the sentinel's.                                       *)
RankKmer ==
  /\ pc = "ranks"
  /\ w.p < Feeds
  /\ w' = KWinFeed(w, NextCode)
  /\ ranks' = IF Emits(w') THEN Appended(ranks, 1 + counts[w'.key]) ELSE ranks
  /\ UNCHANGED <<input, chunk_size, pc, code_of_byte, B, k, hist_size, counts, X>>

EndRanks ==
  /\ pc = "ranks"
  /\ w.p = Feeds
  /\ pc' = "done"
  /\ ranks' = Closed(Appended(ranks, 0))
  /\ UNCHANGED <<input, chunk_size, code_of_byte, B, k, hist_size, w, counts, X>>

Next == Scan \/ GrowK \/ EndSearch \/ CountKmer \/ EndHistogram \/ RankKmer \/ EndRanks

Spec == Init /\ [][Next]_vars

(* init waits for nothing.                                                 *)
FairSpec == Spec /\ WF_vars(Next)

-----------------------------------------------------------------------------
IsOutput(out, S) ==
  /\ Len(out.buffer) < chunk_size
  /\ \A j \in DOMAIN out.files : Len(out.files[j]) \in 1 .. chunk_size
  /\ out.buffer \in Seq(S) /\ \A j \in DOMAIN out.files : out.files[j] \in Seq(S)

(* The size of a histogram of all k-mers, base to the k-th power.          *)
KmersOf(base, length) ==
  LET size[j \in 0 .. length] == IF j = 0 THEN 1 ELSE size[j - 1] * base
  IN  size[length]

TypeOK ==
  /\ input \in Inputs /\ chunk_size \in ChunkSizes
  /\ pc \in {"scan", "search", "histogram", "ranks", "done", "failed"}
  /\ \A byte \in DOMAIN code_of_byte : code_of_byte[byte] \in 1 .. B - 1
  /\ k \in 0 .. KWrap - 1 /\ hist_size = KmersOf(B, k)
  /\ w.p \in 0 .. Len(input) + k /\ w.key \in Nat
  /\ \A K \in DOMAIN counts : counts[K] \in 0 .. Len(input)
  /\ IsOutput(X, 0 .. 255) /\ IsOutput(ranks, 0 .. Len(input))

(* The rolling key never leaves the histogram: a code that stays in the    *)
(* key when it has left the window would make it write past the end.  And  *)
(* k is the largest that the budget allows, or 1.                          *)
KeyInHistogram ==
  /\ pc \in {"histogram", "ranks"} => w.key \in DOMAIN counts
  /\ pc \in {"histogram", "ranks", "done"} =>
       /\ hist_size * B > chunk_size
       /\ hist_size <= chunk_size \/ k = 1

(* The ranks leave pass C in the order of the positions, k - 1 symbols     *)
(* behind the input, and each is the number of smaller prefixes of k       *)
(* symbols: what the loop starts from.                                     *)
RanksWritten ==
  pc \in {"ranks", "done"} =>
    LET written == FlattenSeq(ranks.files) \o ranks.buffer
    IN  /\ written = [j \in DOMAIN written |-> PrefixRank(Text, k, j - 1)]
        /\ pc = "done" => Len(written) = Len(input) + 1

(* Passes B and C, with separate buffers, cut the text into the same       *)
(* chunks, the trailing sentinel and a full last chunk included: X_<id> is *)
(* what ranks_<id> ranks.  Each symbol is distinct from the sentinel's and *)
(* has room for the Z transform's increment.                               *)
ChunksCutAlike ==
  pc = "done" =>
    /\ Len(X.files) = Cardinality(Chunks(Text, chunk_size))
    /\ [c \in DOMAIN X.files |-> Len(X.files[c])] = [c \in DOMAIN ranks.files |-> Len(ranks.files[c])]
    /\ FlattenSeq(X.files) = Append(Text, 0)
    /\ \A i \in DOMAIN Text : Text[i] + 1 < 256

(* The search for the largest k is over at some point.                     *)
SearchEnds == pc = "search" ~> pc # "search"
=============================================================================
