-------------------------------- MODULE Bits --------------------------------
(***************************************************************************)
(* Machine words as C sees them: a word of n bits is a function from       *)
(* 0 .. n - 1, bit 0 being the least significant one.  A shift loses what  *)
(* it moves out of the word, and a conversion to a wider or narrower type  *)
(* keeps the low bits.                                                     *)
(***************************************************************************)
EXTENDS Integers

Bit == {0, 1}
Word(n) == [0 .. n - 1 -> Bit]
Byte == Word(8)

ZeroWord(n) == [k \in 0 .. n - 1 |-> 0]

Resize(w, n) == [k \in 0 .. n - 1 |-> IF k \in DOMAIN w THEN w[k] ELSE 0]

ShiftLeft(w, by) == [k \in DOMAIN w |-> IF k >= by THEN w[k - by] ELSE 0]

ShiftRight(w, by) ==
  [k \in DOMAIN w |-> IF k + by \in DOMAIN w THEN w[k + by] ELSE 0]

BitOr(v, w) == [k \in DOMAIN v |-> IF v[k] = 1 \/ w[k] = 1 THEN 1 ELSE 0]

\* w & ((1 << n) - 1)
LowBits(w, n) == [k \in DOMAIN w |-> IF k < n THEN w[k] ELSE 0]

(***************************************************************************)
(* The bits of an array of bytes in the order of a cell: bit 0 is the most *)
(* significant one of byte 0.                                              *)
(***************************************************************************)
BitAt(bytes, p) == bytes[p \div 8][7 - (p % 8)]

\* The byte of a number, for instances.
ByteOf(n) == [k \in 0 .. 7 |-> (n \div 2 ^ k) % 2]
=============================================================================
