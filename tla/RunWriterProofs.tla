--------------------------- MODULE RunWriterProofs ---------------------------
(***************************************************************************)
(* init and update raise the capacity of their run buffers to two records. *)
(* With that, and only with that (refine's does without, see               *)
(* MCRefineWriter.cfg), no run is written past a buffer's end, whatever    *)
(* the chunk size and the count from which on a run takes a pair.          *)
(***************************************************************************)
EXTENDS RunWriter, RunStreamTheorems

RunRecords == [rank : Nat, count : Nat]

(* RoomForPair is not inductive: Emit relies on the run being one of the   *)
(* chunk's entries, and on the buffer having been looked at before.        *)
IInv ==
  /\ TypeOK
  /\ RoomForPair
  /\ buf \in Seq(RunRecords)
  /\ emitted \in Seq(RunRecords)
  /\ pending \in Seq(RunRecords)
  /\ pending # <<>> => Head(pending).count \in 1 .. chunk_size - covered

(* A run takes a record, or two.                                           *)
LEMMA EncodeType ==
  ASSUME NEW run \in RunRecords
  PROVE  Encode(run) \in Seq(RunRecords) /\ Len(Encode(run)) \in {1, 2}
<1>1. COUNT_ESCAPE \in Nat
  BY EscapeAssumption
<1>2. run.rank \in Nat /\ run.count \in Nat
  BY DEF RunRecords
<1>3. CASE run.count < COUNT_ESCAPE
  BY <1>3 DEF Encode
<1>4. CASE ~ (run.count < COUNT_ESCAPE)
  <2>1. /\ [rank |-> run.rank, count |-> COUNT_ESCAPE] \in RunRecords
        /\ [rank |-> run.count, count |-> 0] \in RunRecords
    BY <1>1, <1>2 DEF RunRecords
  <2> QED
    BY <1>4, <2>1 DEF Encode
<1> QED
  BY <1>3, <1>4

LEMMA CapacityType ==
  ASSUME LeastCapacity >= 2, chunk_size \in ChunkSizes
  PROVE  Capacity \in Nat /\ Capacity >= 2
<1>1. chunk_size \in Nat /\ LeastCapacity \in Nat
  BY ChunkSizesAssumption, LeastCapacityAssumption
<1>2. chunk_size \div 3 \in Nat
  BY <1>1
<1> QED
  BY <1>1, <1>2 DEF Capacity

LEMMA InitEstablishes ==
  ASSUME LeastCapacity >= 2, Init PROVE IInv
<1>1. chunk_size \in Nat \ {0}
  BY ChunkSizesAssumption DEF Init
<1>2. Capacity \in Nat
  BY CapacityType DEF Init
<1>3. /\ pending = <<>> /\ buf = <<>> /\ emitted = <<>> /\ covered = 0 /\ closed = FALSE
      /\ chunk_size \in ChunkSizes
  BY DEF Init
<1>4. <<>> \in Seq(RunRecords) /\ Len(<<>>) = 0
  OBVIOUS
<1>5. TypeOK
  <2>1. Len(pending) <= 1 /\ Len(buf) <= Capacity /\ covered \in 0 .. chunk_size
    BY <1>1, <1>2, <1>3, <1>4
  <2> QED
    BY <1>3, <2>1 DEF TypeOK
<1>6. RoomForPair
  BY <1>3 DEF RoomForPair
<1> QED
  BY <1>3, <1>4, <1>5, <1>6 DEF IInv

LEMMA ReserveKeeps ==
  ASSUME LeastCapacity >= 2, IInv, Reserve PROVE IInv'
<1>1. /\ chunk_size \in ChunkSizes /\ chunk_size \in Nat /\ covered \in 0 .. chunk_size
      /\ Capacity \in Nat /\ Capacity >= 2
  BY ChunkSizesAssumption, CapacityType DEF IInv, TypeOK
<1>2. chunk_size' = chunk_size /\ covered' = covered /\ emitted' = emitted /\ closed' = closed
      /\ Capacity' = Capacity
  BY DEF Reserve, Capacity
<1>3. PICK n \in 1 .. chunk_size - covered : pending' = <<[rank |-> Len(emitted), count |-> n]>>
  BY DEF Reserve
<1>4. /\ pending' \in Seq(RunRecords) /\ Len(pending') = 1 /\ Head(pending').count = n
  <2>1. [rank |-> Len(emitted), count |-> n] \in RunRecords
    BY <1>1, <1>3 DEF IInv, RunRecords
  <2> QED
    BY <1>3, <2>1
<1>5. buf' \in Seq(RunRecords) /\ Capacity - Len(buf') >= 2
  <2>1. CASE NoRoom
    BY <1>1, <2>1 DEF Reserve
  <2>2. CASE ~ NoRoom
    <3>1. buf' = buf /\ Len(buf) \in Nat
      BY <2>2 DEF Reserve, IInv
    <3> QED
      BY <1>1, <2>2, <3>1 DEF NoRoom, IInv
  <2> QED
    BY <2>1, <2>2
<1> QED
  BY <1>1, <1>2, <1>3, <1>4, <1>5 DEF IInv, TypeOK, RoomForPair

LEMMA EmitKeeps ==
  ASSUME LeastCapacity >= 2, IInv, Emit PROVE IInv'
<1> DEFINE run == Head(pending)
<1>1. /\ chunk_size \in ChunkSizes /\ chunk_size \in Nat /\ covered \in 0 .. chunk_size
      /\ Capacity \in Nat
  BY ChunkSizesAssumption, CapacityType DEF IInv, TypeOK
<1>2. /\ run \in RunRecords /\ run.count \in 1 .. chunk_size - covered
      /\ Capacity - Len(buf) >= 2
  BY DEF Emit, IInv, RoomForPair
<1>3. /\ chunk_size' = chunk_size /\ closed' = closed /\ Capacity' = Capacity
      /\ pending' = <<>>
      /\ buf' = buf \o Encode(run)
      /\ emitted' = emitted \o pending
      /\ covered' = covered + run.count
  BY DEF Emit, Capacity
<1> HIDE DEF run
<1>4. Encode(run) \in Seq(RunRecords) /\ Len(Encode(run)) \in {1, 2}
  BY <1>2, EncodeType
<1>5. buf' \in Seq(RunRecords) /\ Len(buf') <= Capacity
  <2>1. buf \in Seq(RunRecords)
    BY DEF IInv
  <2> DEFINE code == Encode(run)
  <2>2. code \in Seq(RunRecords) /\ Len(code) \in {1, 2} /\ buf' = buf \o code
    BY <1>3, <1>4
  <2> HIDE DEF code
  <2>3. buf' \in Seq(RunRecords) /\ Len(buf') = Len(buf) + Len(code) /\ Len(buf) \in Nat
    BY <2>1, <2>2
  <2> DEFINE old == Len(buf)
             more == Len(code)
  <2>4. old \in Nat /\ more \in {1, 2} /\ Capacity - old >= 2 /\ Len(buf') = old + more
    BY <1>2, <2>2, <2>3
  <2> HIDE DEF old, more
  <2>5. old + more <= Capacity
    BY <1>1, <2>4
  <2> QED
    BY <2>3, <2>4, <2>5
<1>6. emitted' \in Seq(RunRecords) /\ covered' \in 0 .. chunk_size
  BY <1>1, <1>2, <1>3 DEF IInv
<1> QED
  BY <1>1, <1>3, <1>5, <1>6 DEF IInv, TypeOK, RoomForPair

LEMMA CloseKeeps ==
  ASSUME IInv, Close PROVE IInv'
  BY DEF Close, IInv, TypeOK, RoomForPair, Capacity

LEMMA IInvHolds ==
  ASSUME LeastCapacity >= 2 PROVE Spec => []IInv
<1>1. Init => IInv
  BY InitEstablishes
<1>2. IInv /\ [Next]_vars => IInv'
  <2> SUFFICES ASSUME IInv, [Next]_vars PROVE IInv'
    OBVIOUS
  <2>1. CASE Reserve
    BY <2>1, ReserveKeeps
  <2>2. CASE Emit
    BY <2>2, EmitKeeps
  <2>3. CASE Close
    BY <2>3, CloseKeeps
  <2>4. CASE UNCHANGED vars
    BY <2>4 DEF vars, IInv, TypeOK, RoomForPair, Capacity
  <2> QED
    BY <2>1, <2>2, <2>3, <2>4 DEF Next
<1> QED
  BY <1>1, <1>2, PTL DEF Spec

(* rankrun_emit never writes past the end of init's or update's buffer,    *)
(* and the runs of a chunk cover no more than its entries.                 *)
THEOREM WriterTypeCorrect ==
  ASSUME LeastCapacity >= 2 PROVE Spec => []TypeOK
<1>1. IInv => TypeOK
  BY DEF IInv
<1> QED
  BY <1>1, IInvHolds, PTL

(* When a run is emitted there is room for an escape pair, as algorithm.h  *)
(* asks of the callers, for every chunk size.                              *)
THEOREM AlwaysRoomForPair ==
  ASSUME LeastCapacity >= 2 PROVE Spec => []RoomForPair
<1>1. IInv => RoomForPair
  BY DEF IInv
<1> QED
  BY <1>1, IInvHolds, PTL

-----------------------------------------------------------------------------
(* Encoded takes the runs one by one.                                      *)
LEMMA EncodedLast ==
  ASSUME NEW runs \in Seq(RunRecords), NEW run \in RunRecords
  PROVE  /\ Encoded(runs) \in Seq(RunRecords)
         /\ Encoded(runs \o <<run>>) = Encoded(runs) \o Encode(run)
<1> DEFINE m == Len(runs)
           all == runs \o <<run>>
           codes == [j \in DOMAIN all |-> Encode(all[j])]
<1>1. /\ m \in Nat /\ DOMAIN runs = 1 .. m
      /\ DOMAIN all = 1 .. m + 1
      /\ \A j \in 1 .. m : all[j] = runs[j] /\ runs[j] \in RunRecords
      /\ all[m + 1] = run
  OBVIOUS
<1> HIDE DEF m, all
<1>2. codes \in [1 .. m + 1 -> Seq(RunRecords)]
  <2>1. ASSUME NEW j \in 1 .. m + 1 PROVE Encode(all[j]) \in Seq(RunRecords)
    <3>1. all[j] \in RunRecords
      BY <1>1
    <3> QED
      BY <3>1, EncodeType
  <2> QED
    BY <1>1, <2>1
<1>3. [j \in 1 .. m |-> codes[j]] = [j \in DOMAIN runs |-> Encode(runs[j])]
  BY <1>1
<1>4. codes[m + 1] = Encode(run)
  BY <1>1
<1> HIDE DEF codes
<1>5. /\ FlattenSeq([j \in 1 .. m |-> codes[j]]) \in Seq(RunRecords)
      /\ FlattenSeq(codes) = FlattenSeq([j \in 1 .. m |-> codes[j]]) \o codes[m + 1]
  BY <1>1, <1>2, FlattenLast
<1> QED
  BY <1>3, <1>4, <1>5 DEF Encoded, codes, all

LEMMA EncodedNothing ==
  Encoded(<<>>) = <<>>
<1>1. [j \in DOMAIN <<>> |-> Encode(<<>>[j])] = <<>>
  OBVIOUS
<1> QED
  BY <1>1 DEF Encoded, FlattenSeq

(* File and buffer together are what was emitted, until the buffer has     *)
(* gone to the file and is not looked at any more.                         *)
WrittenInv ==
  /\ buf \in Seq(RunRecords) /\ file \in Seq(RunRecords)
  /\ emitted \in Seq(RunRecords)
  /\ pending = <<>> \/ (~ closed /\ \E run \in RunRecords : pending = <<run>>)
  /\ closed \in BOOLEAN
  /\ (IF closed THEN file ELSE file \o buf) = Encoded(emitted)

LEMMA WrittenInit ==
  ASSUME Init PROVE WrittenInv
<1>1. <<>> \in Seq(RunRecords) /\ <<>> \o <<>> = <<>>
  OBVIOUS
<1> QED
  BY <1>1, EncodedNothing DEF Init, WrittenInv

LEMMA WrittenNext ==
  ASSUME WrittenInv, [Next]_vars PROVE WrittenInv'
<1>1. CASE Reserve
  <2>1. /\ ~ closed /\ closed' = closed /\ emitted' = emitted
        /\ buf \in Seq(RunRecords) /\ file \in Seq(RunRecords) /\ emitted \in Seq(RunRecords)
        /\ file \o buf = Encoded(emitted)
    BY <1>1 DEF Reserve, WrittenInv
  <2>2. \E run \in RunRecords : pending' = <<run>>
    <3>1. PICK n \in 1 .. chunk_size - covered : pending' = <<[rank |-> Len(emitted), count |-> n]>>
      BY <1>1 DEF Reserve
    <3>2. [rank |-> Len(emitted), count |-> n] \in RunRecords
      BY <2>1, <3>1 DEF RunRecords
    <3> QED
      BY <3>1, <3>2
  <2>3. buf' \in Seq(RunRecords) /\ file' \in Seq(RunRecords) /\ file' \o buf' = file \o buf
    <3>1. CASE NoRoom
      <4>1. file' = file \o buf /\ buf' = <<>>
        BY <1>1, <3>1 DEF Reserve
      <4>2. file \o buf \in Seq(RunRecords) /\ (file \o buf) \o <<>> = file \o buf
        BY <2>1, ConcatEmptySeq, ConcatProperties
      <4> QED
        BY <4>1, <4>2
    <3>2. CASE ~ NoRoom
      BY <1>1, <2>1, <3>2 DEF Reserve
    <3> QED
      BY <3>1, <3>2
  <2> QED
    BY <2>1, <2>2, <2>3 DEF WrittenInv
<1>2. CASE Emit
  <2>1. PICK run \in RunRecords : pending = <<run>>
    BY <1>2 DEF Emit, WrittenInv
  <2>2. /\ ~ closed /\ closed' = closed /\ file' = file /\ pending' = <<>>
        /\ Head(pending) = run
        /\ buf' = buf \o Encode(run) /\ emitted' = emitted \o <<run>>
        /\ buf \in Seq(RunRecords) /\ file \in Seq(RunRecords) /\ emitted \in Seq(RunRecords)
        /\ file \o buf = Encoded(emitted)
    BY <1>2, <2>1 DEF Emit, WrittenInv
  <2>3. Encode(run) \in Seq(RunRecords)
    BY EncodeType
  <2>4. buf' \in Seq(RunRecords) /\ emitted' \in Seq(RunRecords)
    BY <2>2, <2>3
  <2>5. file' \o buf' = (file \o buf) \o Encode(run)
    <3>1. (file \o buf) \o Encode(run) = file \o (buf \o Encode(run))
      <4>1. file \in Seq(RunRecords) /\ buf \in Seq(RunRecords) /\ Encode(run) \in Seq(RunRecords)
        BY <2>2, <2>3
      <4> DEFINE code == Encode(run)
      <4> HIDE DEF code
      <4>2. code \in Seq(RunRecords)
        BY <4>1 DEF code
      <4> QED
        BY <4>1, <4>2, ConcatAssociative DEF code
    <3>2. file' \o buf' = file \o (buf \o Encode(run))
      <4> DEFINE code == buf \o Encode(run)
      <4>1. file' = file /\ buf' = code
        BY <2>2
      <4> HIDE DEF code
      <4>2. file' \o buf' = file \o code
        BY <4>1
      <4> QED
        BY <4>2 DEF code
    <3> QED
      BY <3>1, <3>2
  <2>6. Encoded(emitted') = Encoded(emitted) \o Encode(run)
    BY <2>2, EncodedLast
  <2> QED
    BY <2>2, <2>4, <2>5, <2>6 DEF WrittenInv
<1>3. CASE Close
  BY <1>3 DEF Close, LastFlush, WrittenInv
<1>4. CASE UNCHANGED vars
  BY <1>4 DEF vars, WrittenInv
<1> QED
  BY <1>1, <1>2, <1>3, <1>4 DEF Next

(* Every run reaches the file, once and in order, whatever the capacity:   *)
(* refine's is short of room and still loses nothing.                      *)
THEOREM EveryRunWritten == Spec => []AllRunsWritten
<1>1. WrittenInv => AllRunsWritten
  BY DEF WrittenInv, AllRunsWritten
<1>2. Init => WrittenInv
  BY WrittenInit
<1>3. WrittenInv /\ [Next]_vars => WrittenInv'
  BY WrittenNext
<1> QED
  BY <1>1, <1>2, <1>3, PTL DEF Spec
=============================================================================
