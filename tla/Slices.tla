------------------------------- MODULE Slices -------------------------------
(***************************************************************************)
(* slice_data.c and the copying loop of message.c on the bytes themselves. *)
(* (Cells has the same operations on whole fields.)                        *)
(*                                                                         *)
(* The window of a slice ends with its last byte, so a slice is its bytes, *)
(* their number size, and the start of the window.                         *)
(***************************************************************************)
EXTENDS Bits

remaining_bits(size, start) == IF start > 8 * size THEN 0 ELSE 8 * size - start

-----------------------------------------------------------------------------
(***************************************************************************)
(* SliceData_get_bits: 1 to 8 bits at position at.  Bits that come from    *)
(* two bytes are not masked: above them the result keeps what precedes     *)
(* them in the first byte.                                                 *)
(***************************************************************************)
TwoBytes(data, size, q) ==
  [k \in 0 .. 15 |-> IF k >= 8 THEN data[q][k - 8]
                     ELSE IF q < size - 1 THEN data[q + 1][k] ELSE 0]

get_bits(data, size, at, bits) ==
  LET q == at \div 8
      r == at % 8
  IN  IF r = 0 THEN ShiftRight(data[q], 8 - bits)
      ELSE IF bits <= 8 - r THEN LowBits(ShiftRight(data[q], 8 - r - bits), bits)
      ELSE Resize(ShiftRight(ShiftRight(TwoBytes(data, size, q), 8 - r), 8 - bits), 8)

\* SliceData_get_int: value |= byte << (8 * (7 - i)), for whole bytes.
IntByte(word, data, size, start, i) ==
  BitOr(word, ShiftLeft(Resize(get_bits(data, size, start + 8 * i, 8), 64), 8 * (7 - i)))

\* Mutant: the remainder is not moved up to the top of its byte.
IntRestLow(word, data, size, start, bits) ==
  BitOr(word, ShiftLeft(Resize(get_bits(data, size, start + 8 * (bits \div 8), bits % 8), 64),
                        8 * (7 - bits \div 8)))

\* value |= r << (8 * (7 - bytes) + (8 - remainder)), for the remainder.
IntRest(word, data, size, start, bits) ==
  BitOr(word, ShiftLeft(Resize(get_bits(data, size, start + 8 * (bits \div 8), bits % 8), 64),
                        8 * (7 - bits \div 8) + (8 - (bits % 8))))

-----------------------------------------------------------------------------
(***************************************************************************)
(* deserialize_array: round j of copying length bytes from bit start on.   *)
(***************************************************************************)
\* Mutant: the low bits of a byte are completed at the end only.
ArrayByteLast(out, data, size, start, length, j) ==
  LET shift == start % 8
      i     == start \div 8 + j
      cur   == ShiftLeft(data[i], shift)
  IN  [out EXCEPT ![j] = IF j = length - 1 /\ i + 1 < size
                         THEN BitOr(cur, ShiftRight(data[i + 1], 8 - shift)) ELSE cur]

ArrayByte(out, data, size, start, length, j) ==
  LET shift == start % 8
      i     == start \div 8 + j
      cur   == ShiftLeft(data[i], shift)
      last  == IF j = length - 1 /\ i + 1 < size
               THEN BitOr(cur, ShiftRight(data[i + 1], 8 - shift)) ELSE cur
  IN  [m \in DOMAIN out |->
         IF m = j THEN last
         ELSE IF m = j - 1 THEN BitOr(out[m], ShiftRight(data[i], 8 - shift))
         ELSE out[m]]

-----------------------------------------------------------------------------
(***************************************************************************)
(* SliceData_append of whole bytes at a position that is no byte boundary: *)
(* round j writes byte i, and the last round also the byte behind it.      *)
(***************************************************************************)
\* The first shift bits of a byte are kept.
HighBits(byte, shift) == ShiftLeft(ShiftRight(byte, 8 - shift), 8 - shift)

Tagged(byte, shift) == [byte EXCEPT ![7 - shift] = 1]

\* Mutant: the byte that is begun already is not kept.
AppendByteOver(data, in, start, j, tag) ==
  LET shift == start % 8
      i     == start \div 8 + j
      left  == IF j = 0 THEN ZeroWord(8) ELSE ShiftLeft(in[j - 1], 8 - shift)
      rest  == ShiftLeft(in[j], 8 - shift)
  IN  [data EXCEPT ![i] = BitOr(left, ShiftRight(in[j], shift)),
                   ![i + 1] = IF j + 1 \in DOMAIN in THEN @
                              ELSE IF tag THEN Tagged(rest, shift) ELSE rest]

AppendByte(data, in, start, j, tag) ==
  LET shift == start % 8
      i     == start \div 8 + j
      left  == IF j = 0 THEN HighBits(data[i], shift) ELSE ShiftLeft(in[j - 1], 8 - shift)
      rest  == ShiftLeft(in[j], 8 - shift)
  IN  [data EXCEPT ![i] = BitOr(left, ShiftRight(in[j], shift)),
                   ![i + 1] = IF j + 1 \in DOMAIN in THEN @
                              ELSE IF tag THEN Tagged(rest, shift) ELSE rest]
=============================================================================
