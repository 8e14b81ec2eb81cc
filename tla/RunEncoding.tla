---------------------------- MODULE RunEncoding ----------------------------
(***************************************************************************)
(* How a logical run is laid out in records (RankRun, 6 bytes): the rank   *)
(* and a byte for the count.  A count that does not fit the byte, and one  *)
(* of exactly COUNT_ESCAPE, follows in the rank of a record of its own.    *)
(***************************************************************************)
EXTENDS Integers, SequencesExt

CONSTANT COUNT_ESCAPE     \* 255 in algorithm.h

ASSUME EscapeAssumption == COUNT_ESCAPE \in Nat \ {0, 1}

(* A slip: a count of exactly COUNT_ESCAPE kept in the byte.               *)
Encode_Inclusive(run) ==
  IF run.count <= COUNT_ESCAPE THEN <<run>>
  ELSE <<[rank |-> run.rank, count |-> COUNT_ESCAPE], [rank |-> run.count, count |-> 0]>>

(* rankrun_emit, and write_output's two cases.                             *)
Encode(run) ==
  IF run.count < COUNT_ESCAPE THEN <<run>>
  ELSE <<[rank |-> run.rank, count |-> COUNT_ESCAPE], [rank |-> run.count, count |-> 0]>>

Encoded(runs) == FlattenSeq([j \in DOMAIN runs |-> Encode(runs[j])])
=============================================================================
