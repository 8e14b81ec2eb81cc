--------------------------- MODULE RankRunBuffers ---------------------------
(***************************************************************************)
(* A chunk's buffer in merge, as a record: the buffer of one of its two    *)
(* input streams, with the read cursor in it, and, in the nexts buffer,    *)
(* merge's own output laid over the slots that are read already.           *)
(*                                                                         *)
(* Fields, all named as in Manager: capacity and buf (its slots counted    *)
(* from 0, as in the code), pos, len and filepos of the stream (pos = -1   *)
(* once it is drained, filepos = -1 once its file's end is met), out_pos,  *)
(* and the contents of the two files: file is read, out is written         *)
(* (nexts_<id> and global_<id>).  The currents buffer is never written to: *)
(* its out_pos stays 0.                                                    *)
(***************************************************************************)
EXTENDS Integers, Sequences

(* setup: buffer empty, at the start of the file.                          *)
Opened(file, capacity) ==
  [file |-> file, capacity |-> capacity, buf |-> [i \in 0 .. capacity - 1 |-> <<>>],
   pos |-> 0, len |-> 0, filepos |-> 0, out_pos |-> 0, out |-> <<>>]

(* The output that is still in the front of the buffer.                    *)
Overlay(b) == [i \in 1 .. b.out_pos |-> b.buf[i - 1]]

(* A buffer whose reading, or writing, has come further.                   *)
Reading(b, buf, pos, len, filepos) ==
  [file |-> b.file, capacity |-> b.capacity, buf |-> buf,
   pos |-> pos, len |-> len, filepos |-> filepos, out_pos |-> b.out_pos, out |-> b.out]

Writing(b, buf, out_pos, out) ==
  [file |-> b.file, capacity |-> b.capacity, buf |-> buf,
   pos |-> b.pos, len |-> b.len, filepos |-> b.filepos, out_pos |-> out_pos, out |-> out]

(* flush_output, and the callers' reset of the write cursor.               *)
Flushed(b) == Writing(b, b.buf, 0, b.out \o Overlay(b))

-----------------------------------------------------------------------------
(* How many records a read finds, and the buffer's slots after it.         *)
Got(b) ==
  LET left == Len(b.file) - b.filepos
  IN  IF left < b.capacity THEN left ELSE b.capacity

Loaded(b) ==
  [i \in 0 .. b.capacity - 1 |->
    IF i < Got(b) THEN b.file[b.filepos + i + 1] ELSE b.buf[i]]

(* A slip: a read that comes back full taken for the last one.             *)
Advanced_FullIsLast(b) == IF Got(b) <= b.capacity THEN -1 ELSE b.filepos + Got(b)

(* A read that comes back short has met the end of the file.               *)
Advanced(b) == IF Got(b) < b.capacity THEN -1 ELSE b.filepos + Got(b)

(* A slip: the output in the buffer's front overwritten by what is read.   *)
Refill_NoFlush(b) ==
  IF b.filepos = -1 THEN Reading(b, b.buf, -1, b.len, -1)
  ELSE IF Got(b) > 0 THEN Reading(b, Loaded(b), 0, Got(b), Advanced(b))
  ELSE Reading(b, b.buf, -1, b.len, -1)

(* refill_nexts and refill_currents: output goes to its file before input  *)
(* is read over it.  Without a record to read the stream is drained.       *)
Refill(b) ==
  IF b.filepos = -1 THEN Reading(b, b.buf, -1, b.len, -1)
  ELSE IF Got(b) > 0 THEN Reading(Flushed(b), Loaded(b), 0, Got(b), Advanced(b))
  ELSE Reading(Flushed(b), b.buf, -1, b.len, -1)

(* get_phys_rankrun: the buffer when it is about to give its next record,  *)
(* or is drained; the record; the buffer without it.                       *)
Ready(b) == IF b.pos # -1 /\ b.pos >= b.len THEN Refill(b) ELSE b

Drained(b) == b.pos = -1

Record(b) == b.buf[b.pos]

Taken(b) == Reading(b, b.buf, b.pos + 1, b.len, b.filepos)

-----------------------------------------------------------------------------
(* Slips: one slot too many taken for free, before the end and after it.   *)
FreeSlots_OneMore(b) ==
  IF b.pos = -1 \/ b.pos = b.capacity THEN b.capacity ELSE b.pos + 1

FreeSlots_Unbounded(b) == IF b.pos = -1 THEN b.capacity + 1 ELSE b.pos

(* put_current: the slots read already are free, all of them once the      *)
(* stream is drained.                                                      *)
FreeSlots(b) == IF b.pos = -1 THEN b.capacity ELSE b.pos

PutCurrent(b, rec) ==
  LET room == IF b.out_pos + 1 > FreeSlots(b) THEN Flushed(b) ELSE b
  IN  Writing(room, [room.buf EXCEPT ![room.out_pos] = rec], room.out_pos + 1, room.out)
=============================================================================
