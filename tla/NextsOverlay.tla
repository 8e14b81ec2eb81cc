---------------------------- MODULE NextsOverlay ----------------------------
(***************************************************************************)
(* One nexts buffer of merge, used as merge uses it: records are read in   *)
(* turn, output records are written over the slots that are read, and the  *)
(* buffer is flushed at the end.  How many records are written between two *)
(* reads is left open: merge may split a run of nexts into many.           *)
(***************************************************************************)
EXTENDS RankRunBuffers

CONSTANTS
  Records,      \* the records of the files
  Files,        \* the contents nexts_<id> may have
  Capacities,   \* nexts_capacity
  Outputs,      \* the records merge may write
  MaxWrites     \* how many it writes at most

ASSUME FilesAssumption == Files \subseteq Seq(Records)
ASSUME OutputsAssumption == Outputs \subseteq Records
ASSUME CapacitiesAssumption == Capacities \subseteq Nat \ {0}
ASSUME MaxWritesAssumption == MaxWrites \in Nat

VARIABLES
  buffer,       \* the nexts buffer of a chunk and its files
  consumed,     \* the records read so far
  produced,     \* the records written so far
  closed        \* the final flush is done

vars == <<buffer, consumed, produced, closed>>

Init ==
  /\ \E f \in Files, n \in Capacities : buffer = Opened(f, n)
  /\ consumed = <<>>
  /\ produced = <<>>
  /\ closed = FALSE

(* get_phys_rankrun finds a record.                                        *)
Read ==
  /\ ~ closed
  /\ ~ Drained(Ready(buffer))
  /\ buffer' = Taken(Ready(buffer))
  /\ consumed' = Append(consumed, Record(Ready(buffer)))
  /\ UNCHANGED <<produced, closed>>

(* get_phys_rankrun finds the stream drained.                              *)
ReadEnd ==
  /\ ~ closed
  /\ Drained(Ready(buffer))
  /\ buffer' = Ready(buffer)
  /\ UNCHANGED <<consumed, produced, closed>>

(* put_current, for a chunk that has had an element in the heap.           *)
Write ==
  /\ ~ closed
  /\ consumed # <<>>
  /\ Len(produced) < MaxWrites
  /\ \E rec \in Outputs :
       /\ buffer' = PutCurrent(buffer, rec)
       /\ produced' = Append(produced, rec)
  /\ UNCHANGED <<consumed, closed>>

(* merge_runs's last flush.                                                *)
Close ==
  /\ ~ closed
  /\ Drained(buffer)
  /\ buffer' = Flushed(buffer)
  /\ closed' = TRUE
  /\ UNCHANGED <<consumed, produced>>

Next == Read \/ ReadEnd \/ Write \/ Close

Spec == Init /\ [][Next]_vars

-----------------------------------------------------------------------------
TypeOK ==
  /\ buffer.file \in Files
  /\ buffer.capacity \in Capacities
  /\ DOMAIN buffer.buf = 0 .. buffer.capacity - 1
  /\ buffer.pos \in -1 .. buffer.len
  /\ buffer.len \in 0 .. buffer.capacity
  /\ buffer.filepos \in -1 .. Len(buffer.file)
  /\ buffer.out_pos \in 0 .. buffer.capacity
  /\ closed \in BOOLEAN

(* What is read is the file, record by record: no output record is ever    *)
(* laid over one that is not read yet, and no refill skips or repeats one. *)
ReadsTheFile == consumed = SubSeq(buffer.file, 1, Len(consumed))

(* A stream is taken for drained only when its file is read to the end,    *)
(* however the length of the file and the capacity relate.                 *)
DrainedAtEnd == Drained(buffer) => Len(consumed) = Len(buffer.file)

(* What is written reaches the output file in the order written, whether a *)
(* collision, a refill or the end flushed it: no refill overwrites output. *)
OutputInOrder == produced = buffer.out \o Overlay(buffer)
=============================================================================
