---------------------------- MODULE MCKmerRanks ----------------------------
(* Short inputs over bytes at both ends of the range, one of them too      *)
(* large, and longer ones over two bytes, so that a text of several chunks *)
(* has k-mers of two symbols.                                              *)
EXTENDS KmerRanks

MCInputs ==
  UNION {[1 .. n -> {0, 97, 253, 254}] : n \in 1 .. 4} \cup
  UNION {[1 .. n -> {0, 253}] : n \in {8, 9}}

Empty == {<<>>}
=============================================================================
