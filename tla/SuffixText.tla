----------------------------- MODULE SuffixText -----------------------------
(***************************************************************************)
(* The text that SUFFIX_RANK indexes, and the order of its suffixes.       *)
(*                                                                         *)
(* A text is the sequence of the input file's bytes, each shifted by one   *)
(* so that 0 is free for the sentinel (init.cpp's code_of_byte keeps the   *)
(* order of the bytes).  Positions are 0-based, as in the code: position   *)
(* Len(text) is the trailing sentinel.                                     *)
(***************************************************************************)
EXTENDS Integers, Sequences, FiniteSets

(* The positions of the text, its sentinel included.                       *)
Positions(text) == 0 .. Len(text)

(* The symbol at a position.  Past the last byte it is 0: the sentinel and *)
(* the pads the k-mer window is fed with after it.                         *)
Symbol(text, i) == IF i < Len(text) THEN text[i + 1] ELSE 0

-----------------------------------------------------------------------------
(* The reference definitions: prefixes of length L of two suffixes agree,  *)
(* or differ first at a symbol that is smaller in the first of them.       *)
PrefixEq(text, L, p, q) ==
  \A d \in 0 .. L - 1 : Symbol(text, p + d) = Symbol(text, q + d)

PrefixLess(text, L, p, q) ==
  \E d \in 0 .. L - 1 :
    /\ Symbol(text, p + d) < Symbol(text, q + d)
    /\ PrefixEq(text, d, p, q)

(* Two suffixes differ at the latest where the longer one has the sentinel *)
SuffixLess(text, p, q) == PrefixLess(text, Len(text) + 1, p, q)

(* How many suffixes have a smaller prefix of length L.                    *)
PrefixRank(text, L, p) ==
  Cardinality({q \in Positions(text) : PrefixLess(text, L, q, p)})

(* The rank of a suffix: its index in the suffix array.                    *)
SuffixRank(text, p) ==
  Cardinality({q \in Positions(text) : SuffixLess(text, q, p)})

-----------------------------------------------------------------------------
(* The text is cut into chunks of S positions; the last may be shorter.    *)
ChunkOf(S, p) == p \div S

Chunks(text, S) == 0 .. ChunkOf(S, Len(text))

(* next_rank_loc: chunk c's next ranks start in chunk c + L / S.           *)
BaseChunk(S, L, c) == c + L \div S

(* A slip: the last chunk taken for one past the end.                      *)
PastTextEnd_OffByOne(text, S, L, c) == BaseChunk(S, L, c) >= ChunkOf(S, Len(text))

(* next_rank_loc's is_empty: every next rank of chunk c is past the text,  *)
(* so refine emits no run for c and update leaves c alone.                 *)
PastTextEnd(text, S, L, c) == BaseChunk(S, L, c) > ChunkOf(S, Len(text))
=============================================================================
