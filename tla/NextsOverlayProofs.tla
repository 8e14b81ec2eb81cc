------------------------- MODULE NextsOverlayProofs -------------------------
(***************************************************************************)
(* For every file, every capacity and every interleaving of reads and      *)
(* writes: the nexts buffer gives the records of its file in order, and    *)
(* what is written over it reaches the output file in order.               *)
(***************************************************************************)
EXTENDS NextsOverlay, TLAPS, SequenceTheorems

(* What a slot may hold: a record, or what Calloc left there.              *)
Slots == Records \cup {<<>>}

(* The types of the fields, and the ranges of the cursors.                 *)
BufferType(b) ==
  /\ b.file \in Seq(Slots) /\ b.out \in Seq(Slots)
  /\ b.capacity \in Nat \ {0}
  /\ b.buf \in [0 .. b.capacity - 1 -> Slots]
  /\ b.len \in 0 .. b.capacity /\ b.out_pos \in 0 .. b.capacity
  /\ b.pos \in -1 .. b.len
  /\ b.filepos \in -1 .. Len(b.file)

(* The buffer's part of the inductive invariant, n records having been     *)
(* read: the slots from pos on hold what is next in the file, and output   *)
(* lies only in slots before pos.                                          *)
BufferInv(b, n) ==
  /\ BufferType(b)
  /\ n \in 0 .. Len(b.file)
  /\ b.pos = -1 => n = Len(b.file)
  /\ b.pos # -1 =>
       /\ b.pos <= n
       /\ b.out_pos <= b.pos
       /\ n - b.pos + b.len = IF b.filepos = -1 THEN Len(b.file) ELSE b.filepos
       /\ \A i \in b.pos .. b.len - 1 : b.buf[i] = b.file[n - b.pos + i + 1]

Output(b) == b.out \o Overlay(b)

IInv ==
  /\ BufferInv(buffer, Len(consumed))
  /\ buffer.file \in Files /\ buffer.capacity \in Capacities
  /\ buffer.pos = 0 => consumed = <<>>
  /\ consumed \in Seq(Slots)
  /\ \A i \in 1 .. Len(consumed) : consumed[i] = buffer.file[i]
  /\ produced \in Seq(Slots)
  /\ produced = Output(buffer)
  /\ closed \in BOOLEAN

-----------------------------------------------------------------------------
(* The output in the buffer is a sequence of slots.                        *)
LEMMA OverlayType ==
  ASSUME NEW b, BufferType(b)
  PROVE  /\ Overlay(b) \in Seq(Slots)
         /\ Len(Overlay(b)) = b.out_pos
         /\ \A i \in 1 .. b.out_pos : Overlay(b)[i] = b.buf[i - 1]
<1>1. b.out_pos \in Nat
  BY DEF BufferType
<1>2. ASSUME NEW i \in 1 .. b.out_pos PROVE b.buf[i - 1] \in Slots
  <2>1. b.capacity \in Nat /\ b.out_pos <= b.capacity /\ b.buf \in [0 .. b.capacity - 1 -> Slots]
    BY DEF BufferType
  <2>2. i - 1 \in 0 .. b.capacity - 1
    BY <1>1, <2>1
  <2> QED
    BY <2>1, <2>2
<1>3. Overlay(b) \in Seq(Slots)
  BY <1>1, <1>2, IsASeq DEF Overlay
<1> QED
  BY <1>1, <1>3 DEF Overlay

(* A flush moves output to the file and changes nothing else.              *)
LEMMA FlushKeeps ==
  ASSUME NEW b, BufferType(b)
  PROVE  /\ BufferType(Flushed(b))
         /\ Output(b) \in Seq(Slots)
         /\ Output(Flushed(b)) = Output(b)
         /\ Flushed(b).out = Output(b)
<1>1. b.out \in Seq(Slots)
  BY DEF BufferType
<1>2. Overlay(b) \in Seq(Slots)
  BY OverlayType
<1>3. Output(b) \in Seq(Slots)
  BY <1>2, <1>1, ConcatProperties DEF Output
<1>4. BufferType(Flushed(b))
  BY <1>3 DEF BufferType, Flushed, Writing, Output
<1>5. Overlay(Flushed(b)) = <<>>
  <2>1. Flushed(b).out_pos = 0 /\ Flushed(b).buf = b.buf /\ Flushed(b).capacity = b.capacity
    BY DEF Flushed, Writing
  <2>2. Overlay(Flushed(b)) \in Seq(Slots) /\ Len(Overlay(Flushed(b))) = 0
    BY <1>4, <2>1, OverlayType
  <2> QED
    BY <2>2, EmptySeq
<1>6. Flushed(b).out = Output(b)
  BY DEF Flushed, Writing, Output
<1>7. Output(Flushed(b)) = Output(b)
  BY <1>3, <1>5, <1>6, ConcatEmptySeq DEF Output
<1> QED
  BY <1>3, <1>4, <1>6, <1>7

(* With no output in its front, a buffer's output is what its file holds.  *)
LEMMA NoOverlay ==
  ASSUME NEW b, BufferType(b), b.out_pos = 0
  PROVE  Output(b) = b.out
<1>1. Overlay(b) \in Seq(Slots) /\ Len(Overlay(b)) = 0
  BY OverlayType
<1>2. Overlay(b) = <<>>
  BY <1>1, EmptySeq
<1> QED
  BY <1>2, ConcatEmptySeq DEF Output, BufferType

(* A refill loads what is next in the file, or finds that nothing is.      *)
LEMMA RefillKeeps ==
  ASSUME NEW b, NEW n \in Nat, BufferInv(b, n), b.pos = b.len
  PROVE  /\ BufferInv(Refill(b), n)
         /\ Refill(b).file = b.file /\ Refill(b).capacity = b.capacity
         /\ Output(Refill(b)) = Output(b)
         /\ Refill(b).pos # -1 => Refill(b).pos < Refill(b).len
<1>1. /\ BufferType(b) /\ b.buf \in [0 .. b.capacity - 1 -> Slots]
      /\ b.out_pos <= b.capacity /\ b.len <= b.capacity
      /\ n \in 0 .. Len(b.file) /\ b.filepos \in -1 .. Len(b.file)
  BY DEF BufferInv, BufferType
<1>2. /\ b.file \in Seq(Slots) /\ b.capacity \in Nat \ {0} /\ b.len \in Nat /\ b.pos \in Int
      /\ b.out_pos \in Nat /\ b.out \in Seq(Slots)
  BY <1>1 DEF BufferType
<1>3. n = IF b.filepos = -1 THEN Len(b.file) ELSE b.filepos
  BY <1>1, <1>2 DEF BufferInv
<1>4. BufferType(Flushed(b)) /\ Flushed(b).out = Output(b) /\ Output(b) \in Seq(Slots)
  BY <1>1, FlushKeeps
<1>5. CASE b.filepos = -1
  <2>1. Refill(b) = Reading(b, b.buf, -1, b.len, -1)
    BY <1>5 DEF Refill
  <2>2. BufferType(Refill(b))
    BY <1>1, <1>2, <2>1 DEF BufferType, Reading
  <2>3. BufferInv(Refill(b), n)
    BY <1>1, <1>2, <1>3, <1>5, <2>1, <2>2 DEF BufferInv, Reading
  <2>4. Output(Refill(b)) = Output(b)
    <3>1. Refill(b).out = b.out /\ Refill(b).buf = b.buf /\ Refill(b).out_pos = b.out_pos
      BY <2>1 DEF Reading
    <3> QED
      BY <3>1 DEF Output, Overlay
  <2> QED
    BY <2>1, <2>3, <2>4 DEF Reading
<1>6. CASE b.filepos # -1 /\ ~ Got(b) > 0
  <2>1. Refill(b) = Reading(Flushed(b), b.buf, -1, b.len, -1)
    BY <1>6 DEF Refill
  <2>2. BufferType(Refill(b))
    BY <1>1, <1>2, <1>4, <2>1 DEF BufferType, Reading, Flushed, Writing
  <2>3. n = Len(b.file)
    BY <1>1, <1>2, <1>3, <1>6 DEF Got
  <2>4. BufferInv(Refill(b), n)
    BY <1>1, <1>2, <2>1, <2>2, <2>3 DEF BufferInv, Reading, Flushed, Writing
  <2>5. Refill(b).out_pos = 0 /\ Refill(b).out = Output(b)
    BY <1>4, <2>1 DEF Reading, Flushed, Writing
  <2>6. Output(Refill(b)) = Output(b)
    BY <2>2, <2>4, <2>5, NoOverlay DEF BufferInv
  <2> QED
    BY <2>1, <2>4, <2>6 DEF Reading, Flushed, Writing
<1>7. CASE b.filepos # -1 /\ Got(b) > 0
  <2>1. Refill(b) = Reading(Flushed(b), Loaded(b), 0, Got(b), Advanced(b))
    BY <1>7 DEF Refill
  <2>2. /\ Got(b) \in Nat /\ Got(b) <= b.capacity /\ b.filepos + Got(b) <= Len(b.file)
        /\ b.filepos \in Nat
        /\ Got(b) < b.capacity => b.filepos + Got(b) = Len(b.file)
    <3> DEFINE left == Len(b.file) - b.filepos
    <3>1. /\ b.filepos \in Nat /\ Len(b.file) \in Nat /\ b.capacity \in Nat
          /\ left \in Nat /\ b.filepos + left = Len(b.file)
      BY <1>1, <1>2, <1>7
    <3>2. Got(b) = IF left < b.capacity THEN left ELSE b.capacity
      BY DEF Got
    <3> HIDE DEF left
    <3> QED
      BY <3>1, <3>2
  <2>3. ASSUME NEW i \in 0 .. Got(b) - 1
        PROVE  b.filepos + i + 1 \in 1 .. Len(b.file)
    <3> DEFINE from == b.filepos
               got == Got(b)
               end == Len(b.file)
    <3>1. from \in Nat /\ got \in Nat /\ end \in Nat /\ from + got <= end
      BY <1>2, <2>2
    <3> HIDE DEF from, got, end
    <3>2. i \in 0 .. got - 1
      BY DEF got
    <3>3. from + i + 1 \in 1 .. end
      BY <3>1, <3>2
    <3> QED
      BY <3>3 DEF from, end
  <2>4. ASSUME NEW i \in 0 .. b.capacity - 1
        PROVE  Loaded(b)[i] \in Slots
    <3>1. CASE i < Got(b)
      <4>1. i \in 0 .. Got(b) - 1
        BY <1>2, <2>2, <3>1
      <4>2. b.file[b.filepos + i + 1] \in Slots
        BY <1>2, <2>3, <4>1, ElementOfSeq
      <4> QED
        BY <3>1, <4>2 DEF Loaded
    <3>2. CASE ~ i < Got(b)
      <4>1. b.buf[i] \in Slots
        BY <1>1
      <4> QED
        BY <3>2, <4>1 DEF Loaded
    <3> QED
      BY <3>1, <3>2
  <2>5. Loaded(b) \in [0 .. b.capacity - 1 -> Slots]
    BY <2>4 DEF Loaded
  <2>6. /\ Refill(b).file = b.file /\ Refill(b).capacity = b.capacity
        /\ Refill(b).buf = Loaded(b) /\ Refill(b).pos = 0 /\ Refill(b).len = Got(b)
        /\ Refill(b).filepos = Advanced(b) /\ Refill(b).out_pos = 0 /\ Refill(b).out = Output(b)
    BY <1>4, <2>1 DEF Reading, Flushed, Writing
  <2>7. \A i \in 0 .. Got(b) - 1 : Loaded(b)[i] = b.file[b.filepos + i + 1]
    BY <1>2, <2>2 DEF Loaded
  <2>8. Advanced(b) \in -1 .. Len(b.file)
    BY <1>2, <2>2 DEF Advanced
  <2>9. BufferType(Refill(b))
    BY <1>2, <1>4, <2>2, <2>5, <2>6, <2>8 DEF BufferType
  <2>10. n + Got(b) = IF Advanced(b) = -1 THEN Len(b.file) ELSE Advanced(b)
    BY <1>2, <1>3, <1>7, <2>2 DEF Advanced
  <2>11. \A i \in 0 .. Got(b) - 1 : Loaded(b)[i] = b.file[n - 0 + i + 1]
    BY <1>3, <1>7, <2>7
  <2>12. BufferInv(Refill(b), n)
    BY <1>1, <2>2, <2>6, <2>9, <2>10, <2>11 DEF BufferInv
  <2>13. Output(Refill(b)) = Output(b)
    BY <2>6, <2>9, NoOverlay
  <2> QED
    BY <1>7, <2>2, <2>6, <2>12, <2>13
<1> QED
  BY <1>5, <1>6, <1>7

(* A buffer made ready holds the next record of the file, or is drained.   *)
LEMMA ReadyKeeps ==
  ASSUME NEW b, NEW n \in Nat, BufferInv(b, n)
  PROVE  /\ BufferInv(Ready(b), n)
         /\ Ready(b).file = b.file /\ Ready(b).capacity = b.capacity
         /\ Output(Ready(b)) = Output(b)
         /\ ~ Drained(Ready(b)) => Ready(b).pos < Ready(b).len
<1>1. b.pos \in -1 .. b.len /\ b.len \in Nat
  BY DEF BufferInv, BufferType
<1>2. CASE b.pos # -1 /\ b.pos >= b.len
  <2>1. b.pos = b.len
    BY <1>1, <1>2
  <2> QED
    BY <1>2, <2>1, RefillKeeps DEF Ready, Drained
<1>3. CASE ~ (b.pos # -1 /\ b.pos >= b.len)
  BY <1>1, <1>3 DEF Ready, Drained
<1> QED
  BY <1>2, <1>3

(* What a ready buffer gives is the next record of the file.               *)
LEMMA TakenKeeps ==
  ASSUME NEW b, NEW n \in Nat, BufferInv(b, n), b.pos # -1, b.pos < b.len
  PROVE  /\ BufferInv(Taken(b), n + 1)
         /\ Taken(b).file = b.file /\ Taken(b).capacity = b.capacity
         /\ Output(Taken(b)) = Output(b)
         /\ n + 1 \in 1 .. Len(b.file)
         /\ Record(b) = b.file[n + 1]
         /\ Taken(b).pos # 0
<1>1. /\ BufferType(b) /\ n \in 0 .. Len(b.file)
      /\ b.pos <= n /\ b.out_pos <= b.pos
      /\ n - b.pos + b.len = IF b.filepos = -1 THEN Len(b.file) ELSE b.filepos
      /\ \A i \in b.pos .. b.len - 1 : b.buf[i] = b.file[n - b.pos + i + 1]
  BY DEF BufferInv
<1>2. /\ b.len \in Nat /\ b.pos \in 0 .. b.len /\ Len(b.file) \in Nat
      /\ b.filepos \in -1 .. Len(b.file) /\ n \in Nat /\ b.out_pos \in Nat
  BY <1>1 DEF BufferType
<1>3. n + 1 \in 1 .. Len(b.file)
  BY <1>1, <1>2
<1>4. Record(b) = b.file[n + 1]
  <2>1. b.pos \in b.pos .. b.len - 1 /\ n - b.pos + b.pos + 1 = n + 1
    BY <1>2
  <2> QED
    BY <1>1, <2>1 DEF Record
<1>5. /\ Taken(b).pos = b.pos + 1
      /\ Taken(b).buf = b.buf /\ Taken(b).file = b.file /\ Taken(b).capacity = b.capacity
      /\ Taken(b).len = b.len /\ Taken(b).filepos = b.filepos
      /\ Taken(b).out_pos = b.out_pos /\ Taken(b).out = b.out
  BY DEF Taken, Reading
<1>6. BufferType(Taken(b))
  BY <1>1, <1>2, <1>5 DEF BufferType
<1>7. BufferInv(Taken(b), n + 1)
  <2>1. ASSUME NEW i \in b.pos + 1 .. b.len - 1
        PROVE  b.buf[i] = b.file[(n + 1) - (b.pos + 1) + i + 1]
    <3>1. i \in b.pos .. b.len - 1
      BY <1>2
    <3>2. \A x, y, z \in Int : (x + 1) - (y + 1) + z + 1 = x - y + z + 1
      OBVIOUS
    <3>3. i \in Int /\ n \in Int /\ b.pos \in Int
      BY <1>2, <3>1
    <3>4. (n + 1) - (b.pos + 1) + i + 1 = n - b.pos + i + 1
      BY <3>2, <3>3
    <3> QED
      BY <1>1, <3>1, <3>4
  <2> QED
    <3>1. (n + 1) - (b.pos + 1) + b.len = n - b.pos + b.len /\ b.pos + 1 <= n + 1 /\ b.out_pos <= b.pos + 1 /\ b.pos + 1 # -1
      BY <1>1, <1>2
    <3> QED
      BY <1>1, <1>3, <1>5, <1>6, <2>1, <3>1 DEF BufferInv
<1>8. Output(Taken(b)) = Output(b)
  BY <1>5 DEF Output, Overlay
<1> QED
  BY <1>1, <1>2, <1>3, <1>4, <1>5, <1>7, <1>8

(* A record put in a slot that is read already joins the output, and no    *)
(* slot that is still to be read is touched.                               *)
LEMMA PutKeeps ==
  ASSUME NEW b, NEW n \in Nat, BufferInv(b, n), b.pos # 0, NEW rec \in Records
  PROVE  /\ BufferInv(PutCurrent(b, rec), n)
         /\ PutCurrent(b, rec).file = b.file /\ PutCurrent(b, rec).capacity = b.capacity
         /\ PutCurrent(b, rec).pos = b.pos
         /\ Output(PutCurrent(b, rec)) = Append(Output(b), rec)
<1> DEFINE room == IF b.out_pos + 1 > FreeSlots(b) THEN Flushed(b) ELSE b
           put == Writing(room, [room.buf EXCEPT ![room.out_pos] = rec], room.out_pos + 1, room.out)
<1>1. PutCurrent(b, rec) = put
  BY DEF PutCurrent
<1>2. /\ BufferType(b) /\ b.buf \in [0 .. b.capacity - 1 -> Slots]
      /\ b.out_pos \in 0 .. b.capacity /\ b.len \in 0 .. b.capacity
      /\ b.capacity \in Nat \ {0}
      /\ b.pos \in -1 .. b.len
  BY DEF BufferInv, BufferType
<1>3. /\ BufferType(room)
      /\ room.file = b.file /\ room.capacity = b.capacity /\ room.buf = b.buf
      /\ room.pos = b.pos /\ room.len = b.len /\ room.filepos = b.filepos
      /\ Output(room) = Output(b)
      /\ room.out_pos \in Nat /\ room.out_pos < FreeSlots(b) /\ FreeSlots(b) \in 1 .. b.capacity
  <2>1. FreeSlots(b) \in 1 .. b.capacity
    BY <1>2 DEF FreeSlots
  <2>2. CASE b.out_pos + 1 > FreeSlots(b)
    <3>1. BufferType(Flushed(b)) /\ Output(Flushed(b)) = Output(b)
      BY <1>2, FlushKeeps
    <3> QED
      BY <2>1, <2>2, <3>1 DEF Flushed, Writing
  <2>3. CASE ~ b.out_pos + 1 > FreeSlots(b)
    BY <1>2, <2>1, <2>3
  <2> QED
    BY <2>2, <2>3
<1> HIDE DEF room
<1>4. /\ put.file = b.file /\ put.capacity = b.capacity /\ put.pos = b.pos /\ put.len = b.len
      /\ put.filepos = b.filepos /\ put.out_pos = room.out_pos + 1 /\ put.out = room.out
      /\ put.buf = [b.buf EXCEPT ![room.out_pos] = rec]
  BY <1>3 DEF Writing
<1> HIDE DEF put
<1>5. room.out_pos \in 0 .. b.capacity - 1
  BY <1>2, <1>3
<1>6. put.buf \in [0 .. b.capacity - 1 -> Slots]
  BY <1>5, <1>2, <1>4 DEF Slots
<1>7. BufferType(put)
  BY <1>5, <1>2, <1>3, <1>4, <1>6, SMTT(20) DEF BufferType
<1>8. \A i \in 0 .. b.capacity - 1 : i # room.out_pos => put.buf[i] = b.buf[i]
  BY <1>2, <1>4
<1>9. put.buf[room.out_pos] = rec
  BY <1>5, <1>2, <1>4
<1>10. BufferInv(put, n)
  <2>1. b.pos # -1 => room.out_pos < b.pos
    BY <1>3 DEF FreeSlots
  <2>2. ASSUME b.pos # -1
        PROVE  \A i \in b.pos .. b.len - 1 : put.buf[i] = b.file[n - b.pos + i + 1]
    <3>1. \A i \in b.pos .. b.len - 1 :
            b.buf[i] = b.file[n - b.pos + i + 1] /\ i \in 0 .. b.capacity - 1 /\ i # room.out_pos
      <4>1. \A i \in b.pos .. b.len - 1 : b.buf[i] = b.file[n - b.pos + i + 1]
        BY <2>2 DEF BufferInv
      <4>2. \A i \in b.pos .. b.len - 1 : i \in 0 .. b.capacity - 1 /\ i # room.out_pos
        BY <1>2, <1>3, <2>1, <2>2
      <4> QED
        BY <4>1, <4>2
    <3> QED
      BY <1>8, <3>1
  <2> QED
    BY <1>2, <1>3, <1>4, <1>7, <2>1, <2>2 DEF BufferInv
<1>11. room.out_pos \in Nat
  BY <1>3
<1>12. Overlay(put) = Append(Overlay(room), rec)
  <2>1. /\ Overlay(room) \in Seq(Slots) /\ Len(Overlay(room)) = room.out_pos
        /\ \A i \in 1 .. room.out_pos : Overlay(room)[i] = b.buf[i - 1]
    BY <1>2, <1>3, OverlayType
  <2>2. /\ Overlay(put) \in Seq(Slots) /\ Len(Overlay(put)) = room.out_pos + 1
        /\ \A i \in 1 .. room.out_pos + 1 : Overlay(put)[i] = put.buf[i - 1]
    BY <1>4, <1>7, OverlayType, ZenonT(40)
  <2>3. Append(Overlay(room), rec) \in Seq(Slots) /\ Len(Append(Overlay(room), rec)) = room.out_pos + 1
    BY <2>1, AppendProperties DEF Slots
  <2>4. ASSUME NEW i \in 1 .. room.out_pos + 1
        PROVE  Overlay(put)[i] = Append(Overlay(room), rec)[i]
    <3>1. CASE i = room.out_pos + 1
      BY <1>3, <1>9, <2>1, <2>2, <3>1, AppendProperties DEF Slots
    <3>2. CASE i \in 1 .. room.out_pos
      <4>1. put.buf[i - 1] = b.buf[i - 1]
        <5>1. i - 1 \in 0 .. b.capacity - 1 /\ i - 1 # room.out_pos
          BY <1>5, <1>2, <3>2
        <5> QED
          BY <1>8, <5>1
      <4> QED
        BY <1>3, <2>1, <2>2, <3>2, <4>1, AppendProperties DEF Slots
    <3>3. i = room.out_pos + 1 \/ i \in 1 .. room.out_pos
      BY <1>11
    <3> QED
      BY <3>1, <3>2, <3>3
  <2> QED
    BY <2>2, <2>3, <2>4, SeqEqual
<1>13. Output(put) = Append(Output(b), rec)
  <2>1. rec \in Slots
    BY DEF Slots
  <2>2. room.out \in Seq(Slots) /\ Overlay(room) \in Seq(Slots) /\ <<rec>> \in Seq(Slots)
    <3>1. room.out \in Seq(Slots)
      BY <1>3 DEF BufferType
    <3>2. Overlay(room) \in Seq(Slots)
      BY <1>3, OverlayType
    <3> QED
      BY <2>1, <3>1, <3>2
  <2>3. Overlay(put) = Overlay(room) \o <<rec>>
    BY <1>12, <2>1, <2>2, AppendIsConcat
  <2>4. (room.out \o Overlay(room)) \o <<rec>> = room.out \o (Overlay(room) \o <<rec>>)
    <3> HIDE DEF Slots
    <3>1. ASSUME NEW s \in Seq(Slots), NEW t \in Seq(Slots), NEW u \in Seq(Slots)
          PROVE  (s \o t) \o u = s \o (t \o u)
      BY ConcatAssociative, SMTT(20)
    <3> QED
      BY <2>2, <3>1
  <2>5. Output(put) = Output(b) \o <<rec>>
    BY <1>3, <1>4, <2>3, <2>4 DEF Output
  <2>6. Output(b) \in Seq(Slots)
    BY <1>2, FlushKeeps
  <2> QED
    BY <2>1, <2>5, <2>6, AppendIsConcat
<1> QED
  BY <1>1, <1>4, <1>10, <1>13

-----------------------------------------------------------------------------
(* The files' records are slots.                                           *)
LEMMA FilesType ==
  /\ \A f \in Files : f \in Seq(Slots)
  /\ \A rec \in Outputs : rec \in Records /\ rec \in Slots
<1>1. Seq(Records) \subseteq Seq(Slots)
  BY SeqMonotonic DEF Slots
<1> QED
  BY <1>1, FilesAssumption, OutputsAssumption DEF Slots

LEMMA InitIInv == Init => IInv
<1> SUFFICES ASSUME Init PROVE IInv
  OBVIOUS
<1>1. PICK f \in Files, n \in Capacities : buffer = Opened(f, n)
  BY DEF Init
<1>2. f \in Seq(Slots) /\ n \in Nat \ {0} /\ Len(f) \in Nat
  BY FilesType, CapacitiesAssumption
<1>3. /\ buffer.file = f /\ buffer.capacity = n /\ buffer.buf = [i \in 0 .. n - 1 |-> <<>>]
      /\ buffer.pos = 0 /\ buffer.len = 0 /\ buffer.filepos = 0 /\ buffer.out_pos = 0
      /\ buffer.out = <<>>
  BY <1>1 DEF Opened
<1>4. /\ buffer.buf \in [0 .. n - 1 -> Slots]
      /\ <<>> \in Seq(Slots) /\ Len(<<>>) = 0
  BY <1>3, EmptySeq DEF Slots
<1>5. BufferType(buffer)
  BY <1>2, <1>3, <1>4 DEF BufferType
<1>6. BufferInv(buffer, 0)
  BY <1>2, <1>3, <1>5 DEF BufferInv
<1>7. Output(buffer) = <<>>
  BY <1>3, <1>5, NoOverlay
<1>8. consumed = <<>> /\ produced = <<>> /\ closed = FALSE
  BY DEF Init
<1>9. Len(consumed) = 0 /\ 1 .. Len(consumed) = {}
  BY <1>4, <1>8
<1> QED
  BY <1>3, <1>4, <1>6, <1>7, <1>8, <1>9 DEF IInv

LEMMA NextIInv == IInv /\ [Next]_vars => IInv'
<1> SUFFICES ASSUME IInv, [Next]_vars PROVE IInv'
  OBVIOUS
<1>1. /\ BufferInv(buffer, Len(consumed))
      /\ buffer.file \in Files /\ buffer.capacity \in Capacities
      /\ buffer.pos = 0 => consumed = <<>>
      /\ consumed \in Seq(Slots) /\ Len(consumed) \in Nat
      /\ \A i \in 1 .. Len(consumed) : consumed[i] = buffer.file[i]
      /\ produced \in Seq(Slots)
      /\ produced = Output(buffer)
      /\ closed \in BOOLEAN
  BY DEF IInv
<1> DEFINE ready == Ready(buffer)
<1>2. /\ BufferInv(ready, Len(consumed))
      /\ ready.file = buffer.file /\ ready.capacity = buffer.capacity
      /\ Output(ready) = Output(buffer)
      /\ ~ Drained(ready) => ready.pos < ready.len
  BY <1>1, ReadyKeeps
<1> HIDE DEF ready
<1>3. CASE Read
  <2>1. /\ ~ Drained(ready) /\ buffer' = Taken(ready)
        /\ consumed' = Append(consumed, Record(ready))
        /\ produced' = produced /\ closed' = closed
    BY <1>3 DEF Read, ready
  <2>2. /\ BufferInv(buffer', Len(consumed) + 1)
        /\ buffer'.file = buffer.file /\ buffer'.capacity = buffer.capacity
        /\ Output(buffer') = Output(buffer)
        /\ Len(consumed) + 1 \in 1 .. Len(buffer.file)
        /\ Record(ready) = buffer.file[Len(consumed) + 1]
        /\ buffer'.pos # 0
    BY <1>1, <1>2, <2>1, TakenKeeps DEF Drained
  <2>3. Record(ready) \in Slots
    BY <1>1, <2>2, FilesType, ElementOfSeq
  <2>4. consumed' \in Seq(Slots) /\ Len(consumed') = Len(consumed) + 1
    BY <1>1, <2>1, <2>3, AppendProperties
  <2>5. \A i \in 1 .. Len(consumed') : consumed'[i] = buffer'.file[i]
    <3>1. \A i \in 1 .. Len(consumed) : consumed'[i] = consumed[i]
      BY <1>1, <2>1, <2>3, AppendProperties
    <3>2. consumed'[Len(consumed) + 1] = Record(ready)
      BY <1>1, <2>1, <2>3, AppendProperties
    <3> QED
      BY <1>1, <2>2, <2>4, <3>1, <3>2
  <2> QED
    BY <1>1, <2>1, <2>2, <2>4, <2>5 DEF IInv, Output, Overlay
<1>4. CASE ReadEnd
  <2>1. /\ ready.pos = -1 /\ buffer' = ready
        /\ consumed' = consumed /\ produced' = produced /\ closed' = closed
    BY <1>4 DEF ReadEnd, ready, Drained
  <2>2. BufferInv(buffer', Len(consumed)) /\ Output(buffer') = Output(buffer)
    BY <1>2, <2>1
  <2>3. buffer'.file = buffer.file /\ buffer'.capacity = buffer.capacity /\ buffer'.pos = -1
    BY <1>2, <2>1
  <2> QED
    <3>1. buffer'.pos # 0 /\ buffer'.file \in Files /\ buffer'.capacity \in Capacities
      BY <1>1, <2>3
    <3>2. \A i \in 1 .. Len(consumed') : consumed'[i] = buffer'.file[i]
      BY <1>1, <2>1, <2>3
    <3>3. produced' = Output(buffer') /\ produced' \in Seq(Slots) /\ consumed' \in Seq(Slots) /\ closed' \in BOOLEAN
      BY <1>1, <2>1, <2>2
    <3>4. BufferInv(buffer', Len(consumed'))
      BY <2>1, <2>2
    <3> QED
      BY <3>1, <3>2, <3>3, <3>4 DEF IInv, Output, Overlay
<1>5. CASE Write
  <2>1. PICK rec \in Outputs :
          /\ buffer' = PutCurrent(buffer, rec)
          /\ produced' = Append(produced, rec)
    BY <1>5 DEF Write
  <2>2. consumed # <<>> /\ consumed' = consumed /\ closed' = closed
    BY <1>5 DEF Write
  <2>3. rec \in Records /\ rec \in Slots
    BY FilesType
  <2>4. /\ BufferInv(buffer', Len(consumed))
        /\ buffer'.file = buffer.file /\ buffer'.capacity = buffer.capacity
        /\ buffer'.pos = buffer.pos
        /\ Output(buffer') = Append(Output(buffer), rec)
    BY <1>1, <2>1, <2>2, <2>3, PutKeeps
  <2>5. produced' \in Seq(Slots)
    BY <1>1, <2>1, <2>3, AppendProperties
  <2> QED
    BY <1>1, <2>1, <2>2, <2>4, <2>5 DEF IInv, Output, Overlay
<1>6. CASE Close
  <2>1. /\ buffer.pos = -1 /\ buffer' = Flushed(buffer) /\ closed' = TRUE
        /\ consumed' = consumed /\ produced' = produced
    BY <1>6 DEF Close, Drained
  <2>2. BufferType(buffer)
    BY <1>1 DEF BufferInv
  <2>3. BufferType(buffer') /\ Output(buffer') = Output(buffer)
    BY <2>1, <2>2, FlushKeeps
  <2>4. buffer'.file = buffer.file /\ buffer'.capacity = buffer.capacity /\ buffer'.pos = buffer.pos
    BY <2>1 DEF Flushed, Writing
  <2>5. BufferInv(buffer', Len(consumed))
    BY <1>1, <2>1, <2>3, <2>4 DEF BufferInv
  <2> QED
    BY <1>1, <2>1, <2>3, <2>4, <2>5 DEF IInv, Output, Overlay
<1>7. CASE UNCHANGED vars
  BY <1>1, <1>7 DEF IInv, vars, Output, Overlay
<1> QED
  BY <1>3, <1>4, <1>5, <1>6, <1>7 DEF Next

THEOREM Inductive == Spec => []IInv
  BY InitIInv, NextIInv, PTL DEF Spec

-----------------------------------------------------------------------------
(* The cursors stay within the buffer and the file.                        *)
THEOREM TypeCorrect == Spec => []TypeOK
<1>1. IInv => TypeOK
  <2> SUFFICES ASSUME IInv PROVE TypeOK
    OBVIOUS
  <2>1. BufferType(buffer) /\ buffer.file \in Files /\ buffer.capacity \in Capacities /\ closed \in BOOLEAN
    BY DEF IInv, BufferInv
  <2> QED
    BY <2>1 DEF BufferType, TypeOK
<1> QED
  BY <1>1, Inductive, PTL

(* What merge reads of nexts_<id> is the file, in order, although it       *)
(* writes to the buffer it reads from.                                     *)
THEOREM OverlayKeepsInput == Spec => []ReadsTheFile
<1>1. IInv => ReadsTheFile
  <2> SUFFICES ASSUME IInv PROVE ReadsTheFile
    OBVIOUS
  <2>1. /\ consumed \in Seq(Slots) /\ Len(consumed) \in 0 .. Len(buffer.file)
        /\ \A i \in 1 .. Len(consumed) : consumed[i] = buffer.file[i]
        /\ buffer.file \in Seq(Slots)
    BY DEF IInv, BufferInv, BufferType
  <2> DEFINE n == Len(consumed)
             read == SubSeq(buffer.file, 1, n)
  <2>2. n \in Nat /\ \A i \in 1 .. n : buffer.file[i] \in Slots
    BY <2>1, ElementOfSeq
  <2>3. /\ read \in Seq(Slots) /\ Len(read) = n
        /\ \A i \in 1 .. n : read[i] = buffer.file[i]
    BY <2>2, SubSeqProperties
  <2> QED
    BY <2>1, <2>3, SeqEqual DEF ReadsTheFile
<1> QED
  BY <1>1, Inductive, PTL

(* merge takes a chunk for finished only when its file is read to the end. *)
THEOREM DrainedOnlyAtEnd == Spec => []DrainedAtEnd
<1>1. IInv => DrainedAtEnd
  BY DEF IInv, BufferInv, DrainedAtEnd, Drained
<1> QED
  BY <1>1, Inductive, PTL

(* No record that merge writes is lost, duplicated or put out of order.    *)
THEOREM OverlayKeepsOutput == Spec => []OutputInOrder
<1>1. IInv => OutputInOrder
  BY DEF IInv, OutputInOrder, Output
<1> QED
  BY <1>1, Inductive, PTL
=============================================================================
