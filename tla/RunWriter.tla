----------------------------- MODULE RunWriter -----------------------------
(***************************************************************************)
(* How init, refine and update write the runs of a chunk's stream: into a  *)
(* buffer of a third of a chunk, flushed when the next run might not fit.  *)
(* update and init make the buffer at least two records long; refine does  *)
(* not (LeastCapacity is 2 for the former and 0 for the latter).           *)
(***************************************************************************)
EXTENDS RunEncoding

CONSTANTS
  ChunkSizes,
  LeastCapacity

ASSUME ChunkSizesAssumption == ChunkSizes \subseteq Nat \ {0}
ASSUME LeastCapacityAssumption == LeastCapacity \in Nat

VARIABLES
  chunk_size,
  emitted,      \* the runs handed over so far
  covered,      \* how many entries of the chunk they stand for
  pending,      \* the run about to be emitted: none, or one
  buf,          \* the records in the buffer
  file,         \* the records in the file
  closed

vars == <<chunk_size, emitted, covered, pending, buf, file, closed>>

(* A slip: the least capacity that holds a record, not a pair.             *)
Capacity_OneLess ==
  IF chunk_size \div 3 < LeastCapacity THEN LeastCapacity - 1 ELSE chunk_size \div 3

(* currents_capacity, currents_cap and runs_capacity.                      *)
Capacity == IF chunk_size \div 3 < LeastCapacity THEN LeastCapacity ELSE chunk_size \div 3

Init ==
  /\ chunk_size \in ChunkSizes
  /\ emitted = <<>> /\ covered = 0 /\ pending = <<>> /\ buf = <<>> /\ file = <<>>
  /\ closed = FALSE

(* A slip: room made for a single record.                                  *)
NoRoom_ForOne == Len(buf) + 1 > Capacity

NoRoom == Len(buf) + 2 > Capacity

(* The next run, and the flush before it when an escape pair would not fit.*)
Reserve ==
  /\ pending = <<>> /\ ~ closed
  /\ \E n \in 1 .. chunk_size - covered :
       pending' = <<[rank |-> Len(emitted), count |-> n]>>
  /\ IF NoRoom THEN file' = file \o buf /\ buf' = <<>> ELSE UNCHANGED <<file, buf>>
  /\ UNCHANGED <<chunk_size, emitted, covered, closed>>

(* rankrun_emit.                                                           *)
Emit ==
  /\ pending # <<>>
  /\ buf' = buf \o Encode(Head(pending))
  /\ emitted' = emitted \o pending
  /\ covered' = covered + Head(pending).count
  /\ pending' = <<>>
  /\ UNCHANGED <<chunk_size, file, closed>>

(* A slip: the last records left in the buffer.                            *)
LastFlush_Skipped == file

(* The records still in the buffer go to the file when the chunk is done.  *)
LastFlush == file \o buf

Close ==
  /\ pending = <<>> /\ ~ closed
  /\ file' = LastFlush
  /\ closed' = TRUE
  /\ UNCHANGED <<chunk_size, emitted, covered, pending, buf>>

Next == Reserve \/ Emit \/ Close

Spec == Init /\ [][Next]_vars

-----------------------------------------------------------------------------
(* The buffer is never written past its end.                               *)
TypeOK ==
  /\ chunk_size \in ChunkSizes
  /\ covered \in 0 .. chunk_size
  /\ Len(pending) <= 1
  /\ Len(buf) <= Capacity
  /\ closed \in BOOLEAN

(* rankrun_emit is called with room for an escape pair: algorithm.h asks   *)
(* its callers for it.                                                     *)
RoomForPair == pending # <<>> => Capacity - Len(buf) >= 2

(* Every run reaches the file, once and in order.                          *)
AllRunsWritten == closed => file = Encoded(emitted)
=============================================================================
