----------------------------- MODULE SliceReads -----------------------------
(***************************************************************************)
(* Reading a slice: SliceData_get_next_int (slice_data.c) and              *)
(* deserialize_value (message.c) called in any order and for any number of *)
(* bits, with one step per round of their loops.                           *)
(***************************************************************************)
EXTENDS SliceLoop

CONSTANTS
  SIZE,      \* bytes of the slice; a uint8_t for the cells of a message
  Buffers,   \* what the bytes may be
  Widths,    \* the numbers of bits that are asked for
  Lengths    \* the numbers of bytes that are asked for

ASSUME ReadsAssumption ==
  /\ SIZE \in 1 .. 255
  /\ Buffers \subseteq [0 .. SIZE - 1 -> Byte]
  /\ Widths \subseteq 0 .. 255
  /\ Lengths \subseteq 0 .. 255

\* pc is "idle", in the loop "int" or "value", or returned from it, or "thrown".
VARIABLES
  asked,   \* the number of bits, or bytes, the running call is for
  word,    \* value of SliceData_get_int, a uint64_t
  out      \* the bytes deserialize_value has copied

reads == <<data, start, pc, asked, round, word, out>>

ReadsTypeOK ==
  /\ data \in [0 .. SIZE - 1 -> Byte]
  /\ start \in 0 .. 8 * SIZE
  /\ pc \in {"idle", "int", "gotInt", "value", "gotValue", "thrown"}
  /\ asked \in 0 .. 255
  /\ round \in 0 .. 255
  /\ word \in Word(64)
  /\ out \in [0 .. 255 -> Byte]

\* The caller's buffer: every byte is assigned before it is added to.
NoBytes == [m \in 0 .. 255 |-> ZeroWord(8)]

\* SliceData_init.
Slice_init ==
  /\ data \in Buffers
  /\ start = 0
  /\ pc = "idle"
  /\ asked = 0
  /\ round = 0
  /\ word = ZeroWord(64)
  /\ out = NoBytes

Ready == pc \in {"idle", "gotInt", "gotValue"}

-----------------------------------------------------------------------------
CallInt(bits) ==
  /\ Ready
  /\ asked' = bits
  /\ round' = 0
  /\ word' = ZeroWord(64)
  /\ pc' = IF bits > remaining_bits(SIZE, start) \/ bits > 64 THEN "thrown"
           ELSE IF bits = 0 THEN "gotInt" ELSE "int"
  /\ out' = NoBytes
  /\ UNCHANGED <<data, start>>

ReadByte ==
  /\ pc = "int"
  /\ round < asked \div 8
  /\ word' = IntByte(word, data, SIZE, start, round)
  /\ round' = round + 1
  /\ UNCHANGED <<data, start, pc, asked, out>>

\* The remainder, the final shift, and SliceData_move_by.
ReturnInt ==
  /\ pc = "int"
  /\ round = asked \div 8
  /\ word' = ShiftRight(IF asked % 8 = 0 THEN word
                        ELSE IntRest(word, data, SIZE, start, asked), 64 - asked)
  /\ start' = start + asked
  /\ pc' = "gotInt"
  /\ UNCHANGED <<data, asked, round, out>>

CallValue(length) ==
  /\ Ready
  /\ asked' = length
  /\ round' = 0
  /\ word' = ZeroWord(64)
  /\ out' = NoBytes
  /\ pc' = "value"
  /\ UNCHANGED <<data, start>>

CopyByte ==
  /\ pc = "value"
  /\ round < asked
  /\ IF start \div 8 + round + 1 <= SIZE
     THEN /\ out' = ArrayByte(out, data, SIZE, start, asked, round)
          /\ round' = round + 1
          /\ UNCHANGED pc
     ELSE pc' = "thrown" /\ UNCHANGED <<round, out>>
  /\ UNCHANGED <<data, start, asked, word>>

ReturnValue ==
  /\ pc = "value"
  /\ round = asked
  /\ IF start + 8 * asked <= 8 * SIZE
     THEN start' = start + 8 * asked /\ pc' = "gotValue"
     ELSE pc' = "thrown" /\ UNCHANGED start
  /\ UNCHANGED <<data, asked, round, word, out>>

\* The next cell.
NextSlice ==
  /\ Ready \/ pc = "thrown"
  /\ data' \in Buffers
  /\ start' = 0
  /\ pc' = "idle"
  /\ word' = ZeroWord(64)
  /\ out' = NoBytes
  /\ UNCHANGED <<asked, round>>

ReadsNext ==
  \/ \E bits \in Widths : CallInt(bits)
  \/ ReadByte
  \/ ReturnInt
  \/ \E length \in Lengths : CallValue(length)
  \/ CopyByte
  \/ ReturnValue
  \/ NextSlice

ReadsSpec == Slice_init /\ [][ReadsNext]_reads

-----------------------------------------------------------------------------
(***************************************************************************)
(* IntIsBits: an integer read from any position is the number that the     *)
(* next bits of the slice spell, and nothing of the bits before it that    *)
(* SliceData_get_bits leaves unmasked is in it (slice_data.c:46-116).      *)
(***************************************************************************)
IntOf(from, bits) ==
  [k \in 0 .. 63 |-> IF k < bits THEN BitAt(data, from + bits - 1 - k) ELSE 0]

IntIsBits ==
  pc = "gotInt" => asked <= start /\ word = IntOf(start - asked, asked)

(***************************************************************************)
(* ValueIsBits: the bytes copied from any position are the next bits of    *)
(* the slice; a value that does not fit throws and is never returned with  *)
(* bits of its last byte missing (message.c:12-62).                        *)
(***************************************************************************)
ValueIsBits ==
  pc = "gotValue" =>
    /\ 8 * asked <= start
    /\ \A p \in 0 .. 8 * asked - 1 : BitAt(out, p) = BitAt(data, start - 8 * asked + p)
=============================================================================
