---------------------------- MODULE MemoryBudget ----------------------------
(***************************************************************************)
(* How a memory limit, or a pinned chunk size, becomes the sizes of        *)
(* buffers: suffixrank.sh derives the chunk size, the programs parse it as *)
(* a 32-bit int, the script compares the open-file limit with the number   *)
(* of chunks, and merge's setup divides the budget among the buffers of    *)
(* the chunks in int arithmetic.                                           *)
(***************************************************************************)
EXTENDS Integers

CONSTANTS
  IntWidth,         \* bits of an int, 32 in the code; the other constants are sets of numbers
  Limits,           \* memory limits in bytes
  PinnedSizes,      \* --chunk-size
  TextLengths,
  OpenFileLimits

RamDivisor == 15    \* RAM_DIVISOR
RankRunBytes == 6   \* sizeof(RankRun)

VARIABLES
  text_len, open_file_limit,
  pc,               \* derive, init, limit, setup, merge; or failed
  pinned,           \* whether the chunk size was given
  argument,
  mem_bytes, chunk_size, chunks,
  cur_capacity, nexts_capacity

vars == <<text_len, open_file_limit, pc, pinned, argument, mem_bytes, chunk_size, chunks,
          cur_capacity, nexts_capacity>>

IntMax == 2 ^ (IntWidth - 1) - 1

(* What an int keeps of a value.                                           *)
ToInt(value) == ((value + IntMax + 1) % (2 * (IntMax + 1))) - (IntMax + 1)

Init ==
  /\ text_len \in TextLengths /\ open_file_limit \in OpenFileLimits
  /\ pc = "derive"
  /\ \/ pinned = TRUE /\ argument \in PinnedSizes
     \/ pinned = FALSE /\ argument \in Limits
  /\ mem_bytes = 0 /\ chunk_size = 0 /\ chunks = 0
  /\ cur_capacity = 0 /\ nexts_capacity = 0

-----------------------------------------------------------------------------
(* The chunk size of a limit is clamped to an int.                         *)
DerivedSize(limit) ==
  IF limit \div RamDivisor > IntMax THEN IntMax ELSE limit \div RamDivisor

Derive ==
  /\ pc = "derive"
  /\ chunk_size' = IF pinned THEN argument ELSE DerivedSize(argument)
  /\ mem_bytes' = IF pinned THEN argument * RamDivisor ELSE argument
  /\ pc' = IF chunk_size' = 0 THEN "failed" ELSE "init"
  /\ UNCHANGED <<text_len, open_file_limit, pinned, argument, chunks, cur_capacity,
                 nexts_capacity>>

(* init, which rejects a pinned size that is no int; the script counts the *)
(* sa_* files it leaves.                                                   *)
RunInit ==
  /\ pc = "init"
  /\ IF chunk_size > IntMax
     THEN pc' = "failed" /\ UNCHANGED chunks
     ELSE pc' = "limit" /\ chunks' = text_len \div chunk_size + 1
  /\ UNCHANGED <<text_len, open_file_limit, pinned, argument, mem_bytes, chunk_size,
                 cur_capacity, nexts_capacity>>

(* merge keeps three files open per chunk.                                 *)
CheckOpenFiles ==
  /\ pc = "limit"
  /\ pc' = IF open_file_limit < 3 * chunks + 16 THEN "failed" ELSE "setup"
  /\ UNCHANGED <<text_len, open_file_limit, pinned, argument, mem_bytes, chunk_size, chunks,
                 cur_capacity, nexts_capacity>>

AtLeastOne(n) == IF n < 1 THEN 1 ELSE n

Setup ==
  /\ pc = "setup"
  /\ cur_capacity' = AtLeastOne(ToInt(mem_bytes \div (RankRunBytes * 3 * chunks)))
  /\ nexts_capacity' = ToInt(2 * cur_capacity')
  /\ pc' = "merge"
  /\ UNCHANGED <<text_len, open_file_limit, pinned, argument, mem_bytes, chunk_size, chunks>>

Next == Derive \/ RunInit \/ CheckOpenFiles \/ Setup

Spec == Init /\ [][Next]_vars

-----------------------------------------------------------------------------
(* The nexts buffer is twice as large as the currents buffer, as setup's   *)
(* comment says: it has to hold the output as well.                        *)
NextsIsTwiceCurrents == pc = "merge" => nexts_capacity = 2 * cur_capacity
=============================================================================
