---------------------------- MODULE MCLocalSort ----------------------------
(* Short texts over the smallest and the largest byte, and longer ones,    *)
(* nearly periodic and with a larger chunk size, in which matches are long *)
(* enough to be skipped along.                                             *)
EXTENDS LocalSort

CONSTANTS Short, Long     \* lengths of short texts, and of the second chunk of long ones

Bytes == {1, 254}
LargeChunk == 10

Periodic2(n) == {[i \in 1 .. n |-> word[((i - 1) % p) + 1]] :
                   <<p, word>> \in UNION {{p} \X [1 .. p -> Bytes] : p \in 1 .. 3}}

NearlyPeriodic(n) ==
  Periodic2(n) \cup {[w EXCEPT ![i] = 255 - @] : w \in Periodic2(n), i \in {1, n \div 2, n}}

ShortTexts == UNION {[1 .. n -> Bytes] : n \in Short}

MCTexts ==
  ShortTexts \cup
  {u \o v : u \in NearlyPeriodic(LargeChunk), v \in UNION {Periodic2(n) : n \in Long}}

MCInit ==
  /\ text \in Texts
  /\ chunk_size \in ChunkSizes
  /\ text \in ShortTexts <=> chunk_size < LargeChunk
  /\ Init

MCSpec == MCInit /\ [][Next]_vars
=============================================================================
