---------------------------- MODULE SliceProofs ----------------------------
(***************************************************************************)
(* Reading and appending bits, for every content and every size of the     *)
(* slices, every position and every number of bits.                        *)
(***************************************************************************)
EXTENDS SliceReads, Appends, SequenceTheorems, WellFoundedInduction, TLAPS

(***************************************************************************)
(* What the loops have done after some rounds.  Bits of word are counted   *)
(* from its top.  The last bits of the last byte copied are missing until  *)
(* the next round, or the end, brings them.                                *)
(***************************************************************************)
Spells(w, array, from, n) ==
  \A k \in 0 .. 63 : w[k] = IF 63 - k < n THEN BitAt(array, from + (63 - k)) ELSE 0

IntSoFar ==
  pc = "int" =>
    /\ asked \in 1 .. 64
    /\ start + asked <= 8 * SIZE
    /\ round <= asked \div 8
    /\ Spells(word, data, start, 8 * round)

Slice == [0 .. SIZE - 1 -> Byte]
Copy == [0 .. 255 -> Byte]

\* Eight bits of two bytes, from bit skip of the first on.
Joined(b, c, skip) ==
  [k \in 0 .. 7 |-> IF k >= skip THEN b[k - skip] ELSE c[k + (8 - skip)]]

Complete(m, first, length, j) == m < j - 1 \/ (j = length /\ first + length < SIZE)

Fills(o, array, first, skip, length, j) ==
  \A m \in 0 .. j - 1 :
    o[m] = Joined(array[first + m],
                  IF Complete(m, first, length, j) THEN array[first + m + 1] ELSE ZeroWord(8),
                  skip)

SameBits(o, array, from, length) ==
  \A p \in 0 .. 8 * length - 1 : BitAt(o, p) = BitAt(array, from + p)

ValueSoFar ==
  pc = "value" =>
    /\ round <= asked
    /\ round > 0 => (start \div 8) + round <= SIZE
    /\ Fills(out, data, start \div 8, start % 8, asked, round)

ReadsInv == ReadsTypeOK /\ IntSoFar /\ ValueSoFar /\ IntIsBits /\ ValueIsBits

-----------------------------------------------------------------------------
(***************************************************************************)
(* What the operators of Bits do to one bit, and where a bit of a slice is.*)
(***************************************************************************)
LEMMA Place ==
  ASSUME NEW q \in Nat, NEW r \in 0 .. 7
  PROVE  (8 * q + r) \div 8 = q /\ (8 * q + r) % 8 = r
  OBVIOUS

LEMMA BitAtPlace ==
  ASSUME NEW array, NEW q \in Nat, NEW r \in 0 .. 7
  PROVE  BitAt(array, 8 * q + r) = array[q][7 - r]
  BY Place DEF BitAt

-----------------------------------------------------------------------------
(***************************************************************************)
(* GetBits: the low bits of the result are the bits asked for; a bit above *)
(* them is zero or the bit of the slice that stands there.                 *)
(***************************************************************************)
LEMMA GetBits ==
  ASSUME NEW array \in [0 .. SIZE - 1 -> Byte],
         NEW at \in Nat, NEW bits \in 1 .. 8, at + bits <= 8 * SIZE
  PROVE  /\ DOMAIN get_bits(array, SIZE, at, bits) = 0 .. 7
         /\ \A k \in 0 .. 7 :
              LET g == get_bits(array, SIZE, at, bits)[k]
                  p == at + bits - 1 - k
              IN  /\ g \in Bit
                  /\ k < bits => g = BitAt(array, p)
                  /\ g = 0 \/ (p >= 0 /\ g = BitAt(array, p))
  <1>1. PICK q \in Nat, r \in 0 .. 7 : at = 8 * q + r
    <2>1. at \div 8 \in Nat /\ at % 8 \in 0 .. 7 /\ at = 8 * (at \div 8) + (at % 8)
      OBVIOUS
    <2> QED
      BY <2>1
  <1>2. at \div 8 = q /\ at % 8 = r
    BY <1>1, Place
  <1>3. SIZE \in Nat /\ q \in 0 .. SIZE - 1 /\ (r + bits > 8 => q + 1 \in 0 .. SIZE - 1)
    BY <1>1, ReadsAssumption
  <1>4. \A b \in 0 .. SIZE - 1 : DOMAIN array[b] = 0 .. 7 /\ \A m \in 0 .. 7 : array[b][m] \in Bit
    BY DEF Byte, Word
  <1> DEFINE g == get_bits(array, SIZE, at, bits)
  <1>5. \A k \in 0 .. 7 : /\ k - bits + 1 <= r => at + bits - 1 - k >= 0
                          /\ r + bits - 1 - k \in 0 .. 7 =>
                               BitAt(array, at + bits - 1 - k) = array[q][8 - r - bits + k]
                          /\ r + bits - 1 - k \in 8 .. 15 =>
                               BitAt(array, at + bits - 1 - k) = array[q + 1][16 - r - bits + k]
    <2> TAKE k \in 0 .. 7
    <2>1. ASSUME r + bits - 1 - k \in 0 .. 7
          PROVE  BitAt(array, at + bits - 1 - k) = array[q][8 - r - bits + k]
      <3>1. at + bits - 1 - k = 8 * q + (r + bits - 1 - k)
        BY <1>1
      <3>2. BitAt(array, 8 * q + (r + bits - 1 - k)) = array[q][7 - (r + bits - 1 - k)]
        BY <2>1, BitAtPlace
      <3>3. 7 - (r + bits - 1 - k) = 8 - r - bits + k
        OBVIOUS
      <3> QED
        BY <3>1, <3>2, <3>3
    <2>2. ASSUME r + bits - 1 - k \in 8 .. 15
          PROVE  BitAt(array, at + bits - 1 - k) = array[q + 1][16 - r - bits + k]
      <3>1. at + bits - 1 - k = 8 * (q + 1) + (r + bits - 9 - k) /\ r + bits - 9 - k \in 0 .. 7
        BY <1>1, <2>2
      <3>2. q + 1 \in Nat
        OBVIOUS
      <3>4. BitAt(array, 8 * (q + 1) + (r + bits - 9 - k)) = array[q + 1][7 - (r + bits - 9 - k)]
        BY <3>1, <3>2, BitAtPlace
      <3>3. 7 - (r + bits - 9 - k) = 16 - r - bits + k
        OBVIOUS
      <3> QED
        BY <3>1, <3>3, <3>4
    <2>3. k - bits + 1 <= r => at + bits - 1 - k >= 0
      BY <1>1
    <2> QED
      BY <2>1, <2>2, <2>3
  <1>6. CASE r = 0
    <2>1. g = ShiftRight(array[q], 8 - bits)
      BY <1>2, <1>6 DEF get_bits
    <2>2. /\ DOMAIN g = 0 .. 7
          /\ \A k \in 0 .. 7 : g[k] = IF k + (8 - bits) <= 7 THEN array[q][k + (8 - bits)] ELSE 0
      <3>1. DOMAIN array[q] = 0 .. 7 /\ 8 - bits \in Nat
        BY <1>3, <1>4
      <3> HIDE DEF g
      <3> QED
        BY <2>1, <3>1 DEF ShiftRight
    <2> HIDE DEF g
    <2>3. ASSUME NEW k \in 0 .. 7
          PROVE  /\ g[k] \in Bit
                 /\ k < bits => g[k] = BitAt(array, at + bits - 1 - k)
                 /\ g[k] = 0 \/ (at + bits - 1 - k >= 0 /\ g[k] = BitAt(array, at + bits - 1 - k))
      <3>1. CASE k < bits
        <4>1. k + (8 - bits) \in 0 .. 7 /\ k + (8 - bits) = 8 - r - bits + k
             /\ r + bits - 1 - k \in 0 .. 7
          BY <1>6, <3>1
        <4>6. g[k] = IF k + (8 - bits) <= 7 THEN array[q][k + (8 - bits)] ELSE 0
          BY <2>2
        <4>5. g[k] = array[q][k + (8 - bits)]
          BY <4>1, <4>6
        <4>2. g[k] = array[q][8 - r - bits + k]
          BY <4>1, <4>5
        <4>4. g[k] = BitAt(array, at + bits - 1 - k)
          BY <1>5, <4>1, <4>2
        <4>3. at + bits - 1 - k >= 0
          BY <1>5, <1>6, <3>1
        <4> QED
          BY <1>3, <1>4, <4>1, <4>2, <4>3, <4>4
      <3>2. CASE k >= bits
        BY <2>2, <3>2 DEF Bit
      <3> QED
        BY <3>1, <3>2
    <2> QED
      BY <2>2, <2>3 DEF g
  <1>7. CASE r # 0 /\ bits <= 8 - r
    <2>1. g = LowBits(ShiftRight(array[q], 8 - r - bits), bits)
      BY <1>2, <1>7 DEF get_bits
    <2>2. /\ DOMAIN ShiftRight(array[q], 8 - r - bits) = 0 .. 7
          /\ \A k \in 0 .. 7 : ShiftRight(array[q], 8 - r - bits)[k] =
                                 IF k + (8 - r - bits) <= 7 THEN array[q][k + (8 - r - bits)] ELSE 0
      <3>1. DOMAIN array[q] = 0 .. 7 /\ 8 - r - bits \in Nat
        BY <1>3, <1>4, <1>7
      <3> QED
        BY <3>1 DEF ShiftRight
    <2>3. DOMAIN g = 0 .. 7
         /\ \A k \in 0 .. 7 : g[k] = IF k < bits THEN array[q][8 - r - bits + k] ELSE 0
      BY <1>7, <2>1, <2>2 DEF LowBits
    <2>4. ASSUME NEW k \in 0 .. 7
          PROVE  /\ g[k] \in Bit
                 /\ k < bits => g[k] = BitAt(array, at + bits - 1 - k)
                 /\ g[k] = 0 \/ (at + bits - 1 - k >= 0 /\ g[k] = BitAt(array, at + bits - 1 - k))
      <3>1. CASE k < bits
        <4>1. 8 - r - bits + k \in 0 .. 7 /\ r + bits - 1 - k \in 0 .. 7
          BY <1>7, <3>1
        <4>2. g[k] = array[q][8 - r - bits + k] /\ g[k] = BitAt(array, at + bits - 1 - k)
          BY <1>5, <2>3, <3>1, <4>1
        <4>3. at + bits - 1 - k >= 0
          BY <1>5, <3>1
        <4> QED
          BY <1>3, <1>4, <4>1, <4>2, <4>3
      <3>2. CASE k >= bits
        BY <2>3, <3>2 DEF Bit
      <3> QED
        BY <3>1, <3>2
    <2> QED
      BY <2>3, <2>4
  <1>8. CASE r # 0 /\ bits > 8 - r
    <2> DEFINE two == TwoBytes(array, SIZE, q)
               w1 == ShiftRight(two, 8 - r)
               w2 == ShiftRight(w1, 8 - bits)
    <2>1. q + 1 \in 0 .. SIZE - 1 /\ q < SIZE - 1 /\ 8 - r \in Nat /\ 8 - bits \in Nat
      BY <1>3, <1>8
    <2>2. /\ DOMAIN two = 0 .. 15
          /\ \A m \in 0 .. 15 : two[m] = IF m >= 8 THEN array[q][m - 8] ELSE array[q + 1][m]
      BY <2>1 DEF TwoBytes
    <2>3. /\ DOMAIN w1 = 0 .. 15
          /\ \A m \in 0 .. 15 : w1[m] = IF m + (8 - r) <= 15 THEN two[m + (8 - r)] ELSE 0
      <3> HIDE DEF two
      <3>1. w1 = [m \in 0 .. 15 |-> IF m + (8 - r) \in 0 .. 15 THEN two[m + (8 - r)] ELSE 0]
        BY <2>2 DEF ShiftRight, w1
      <3>2. \A m \in 0 .. 15 : m + (8 - r) <= 15 <=> m + (8 - r) \in 0 .. 15
        OBVIOUS
      <3> HIDE DEF w1
      <3> QED
        BY <3>1, <3>2
    <2>4. /\ DOMAIN w2 = 0 .. 15
          /\ \A m \in 0 .. 15 : w2[m] = IF m + (8 - bits) <= 15 THEN w1[m + (8 - bits)] ELSE 0
      <3>1. w2 = [m \in 0 .. 15 |-> IF m + (8 - bits) \in 0 .. 15 THEN w1[m + (8 - bits)] ELSE 0]
        <4> HIDE DEF w1
        <4> QED
          BY <2>3 DEF ShiftRight
      <3>2. \A m \in 0 .. 15 : m + (8 - bits) <= 15 <=> m + (8 - bits) \in 0 .. 15
        OBVIOUS
      <3> HIDE DEF w2, w1
      <3> QED
        BY <3>1, <3>2
    <2>5. g = Resize(w2, 8)
      BY <1>2, <1>8 DEF get_bits
    <2>6. /\ DOMAIN g = 0 .. 7
          /\ \A k \in 0 .. 7 : g[k] = w2[k]
      <3> HIDE DEF w2, g
      <3> QED
        BY <2>4, <2>5 DEF Resize
    <2> HIDE DEF g, two, w1, w2
    <2>7. ASSUME NEW k \in 0 .. 7
          PROVE  /\ g[k] \in Bit
                 /\ k < bits => g[k] = BitAt(array, at + bits - 1 - k)
                 /\ g[k] = 0 \/ (at + bits - 1 - k >= 0 /\ g[k] = BitAt(array, at + bits - 1 - k))
      <3> DEFINE n == 16 - r - bits + k
      <3>6. k + (8 - bits) \in 0 .. 15
        OBVIOUS
      <3>9. k \in 0 .. 15
        OBVIOUS
      <3>7. g[k] = w2[k]
        BY <2>6
      <3>8. w2[k] = IF k + (8 - bits) <= 15 THEN w1[k + (8 - bits)] ELSE 0
        BY <2>4, <3>9
      <3>1. k + (8 - bits) \in 0 .. 15 /\ g[k] = w1[k + (8 - bits)]
        BY <3>6, <3>7, <3>8
      <3>2. g[k] = IF n <= 15 THEN two[n] ELSE 0
        <4>1. w1[k + (8 - bits)] = IF k + (8 - bits) + (8 - r) <= 15
                                   THEN two[k + (8 - bits) + (8 - r)] ELSE 0
          BY <2>3, <3>1
        <4>2. k + (8 - bits) + (8 - r) = n
          OBVIOUS
        <4> QED
          BY <3>1, <4>1, <4>2
      <3>3. CASE n >= 16
        BY <3>2, <3>3, <1>8 DEF Bit
      <3>4. CASE n < 16 /\ n >= 8
        <4>1. r + bits - 1 - k \in 0 .. 7 /\ n \in 0 .. 15
             /\ n - 8 = 8 - r - bits + k /\ n - 8 \in 0 .. 7
          BY <3>4, <1>8
        <4>4. two[n] = array[q][8 - r - bits + k]
          BY <2>2, <3>4, <4>1
        <4>5. BitAt(array, at + bits - 1 - k) = array[q][8 - r - bits + k]
          BY <1>5, <4>1
        <4>2. g[k] = array[q][8 - r - bits + k] /\ g[k] = BitAt(array, at + bits - 1 - k)
          BY <3>2, <3>4, <4>4, <4>5
        <4>3. at + bits - 1 - k >= 0
          BY <1>5, <4>1
        <4> QED
          BY <1>3, <1>4, <4>1, <4>2, <4>3
      <3>5. CASE n < 8
        <4>1. r + bits - 1 - k \in 8 .. 15 /\ n \in 0 .. 7
          BY <3>5, <1>8
        <4> HIDE DEF n
        <4>8. n \in 0 .. 15
          BY <4>1
        <4>7. two[n] = IF n >= 8 THEN array[q][n - 8] ELSE array[q + 1][n]
          BY <2>2, <4>8, Zenon
        <4>4. two[n] = array[q + 1][n]
          BY <3>5, <4>7, <4>1
        <4>5. BitAt(array, at + bits - 1 - k) = array[q + 1][n]
          BY <1>5, <4>1 DEF n
        <4>6. g[k] = two[n]
          BY <3>2, <4>1
        <4>2. g[k] = array[q + 1][n] /\ g[k] = BitAt(array, at + bits - 1 - k)
          BY <4>4, <4>5, <4>6
        <4>3. at + bits - 1 - k >= 0
          BY <1>5, <4>1
        <4> QED
          BY <2>1, <1>4, <4>1, <4>2, <4>3
      <3> QED
        BY <3>3, <3>4, <3>5
    <2> QED
      BY <2>6, <2>7 DEF g
  <1> QED
    BY <1>6, <1>7, <1>8

-----------------------------------------------------------------------------
(***************************************************************************)
(* A round of SliceData_get_int adds the next eight bits, and its          *)
(* remainder the rest: the bits it left unmasked fall on the same bits.    *)
(***************************************************************************)
LEMMA GetInt ==
  ASSUME NEW array \in [0 .. SIZE - 1 -> Byte], NEW w \in Word(64),
         NEW from \in Nat, NEW i \in 0 .. 7, NEW bits \in 1 .. 8,
         from + 8 * i + bits <= 8 * SIZE,
         NEW sum, sum = BitOr(w, ShiftLeft(Resize(get_bits(array, SIZE, from + 8 * i, bits), 64),
                                           8 * (7 - i) + (8 - bits))),
         Spells(w, array, from, 8 * i)
  PROVE  sum \in Word(64) /\ Spells(sum, array, from, 8 * i + bits)
  <1>10. \A k \in 0 .. 63 :
           LET by == 8 * (7 - i) + (8 - bits)
           IN  /\ by \in 0 .. 63
               /\ k >= by <=> 63 - k < 8 * i + bits
               /\ k >= by => /\ k - by \in 0 .. 63
                             /\ from + 8 * i + bits - 1 - (k - by) = from + (63 - k)
                             /\ k - by < bits => 63 - k >= 8 * i /\ k - by \in 0 .. 7
                             /\ k - by >= bits => 63 - k < 8 * i
                             /\ k - by < bits \/ k - by >= bits
               /\ k < by => 63 - k >= 8 * i
               /\ k < by \/ k >= by
               /\ 63 - k >= 8 * i => ~(63 - k < 8 * i)
    OBVIOUS
  <1> DEFINE g == get_bits(array, SIZE, from + 8 * i, bits)
             by == 8 * (7 - i) + (8 - bits)
             wide == Resize(g, 64)
             moved == ShiftLeft(wide, by)
  <1>0. from + 8 * i \in Nat /\ 8 * SIZE \in Nat
    BY ReadsAssumption
  <1>1. DOMAIN g = 0 .. 7
    BY <1>0, GetBits
  <1>2. \A k \in 0 .. 7 :
          /\ g[k] \in Bit
          /\ k < bits => g[k] = BitAt(array, from + 8 * i + bits - 1 - k)
          /\ g[k] = 0 \/ g[k] = BitAt(array, from + 8 * i + bits - 1 - k)
    BY <1>0, GetBits
  <1> HIDE DEF g
  <1>3. wide = [k \in 0 .. 63 |-> IF k \in 0 .. 7 THEN g[k] ELSE 0]
    BY <1>1 DEF Resize
  <1> HIDE DEF wide
  <1>4. moved = [k \in 0 .. 63 |-> IF k >= by THEN wide[k - by] ELSE 0]
    BY <1>3 DEF ShiftLeft
  <1>5. sum = BitOr(w, moved)
    BY DEF wide, g
  <1> HIDE DEF moved
  <1>6. DOMAIN w = 0 .. 63
    BY DEF Word
  <1> HIDE DEF by
  <1>7. sum = [k \in 0 .. 63 |-> IF w[k] = 1 \/ moved[k] = 1 THEN 1 ELSE 0]
    BY <1>5, <1>6 DEF BitOr
  <1>8. sum \in Word(64)
    <2>1. Word(64) = [0 .. 63 -> Bit] /\ 0 \in Bit /\ 1 \in Bit
      BY DEF Word, Bit
    <2> QED
      BY <1>7, <2>1
  <1>9. ASSUME NEW k \in 0 .. 63
        PROVE  sum[k] = IF 63 - k < 8 * i + bits THEN BitAt(array, from + (63 - k)) ELSE 0
    <2> DEFINE h == k - by
               p == from + (63 - k)
    <2>1. sum[k] = IF w[k] = 1 \/ moved[k] = 1 THEN 1 ELSE 0
      BY <1>7
    <2>2. w[k] \in Bit /\ w[k] = IF 63 - k < 8 * i THEN BitAt(array, p) ELSE 0
      <3>1. Word(64) = [0 .. 63 -> Bit]
        BY DEF Word
      <3>2. w[k] \in Bit
        BY <3>1
      <3> QED
        BY <3>2 DEF Spells
    <2>3. moved[k] = IF k >= by THEN wide[h] ELSE 0
      BY <1>4
    <2>4. k >= by => /\ h \in 0 .. 63 /\ from + 8 * i + bits - 1 - h = p
                     /\ h < bits => 63 - k >= 8 * i /\ h \in 0 .. 7
                     /\ h >= bits => 63 - k < 8 * i
                     /\ h < bits \/ h >= bits
      BY <1>10 DEF by
    <2>5. k >= by <=> 63 - k < 8 * i + bits
      BY <1>10 DEF by
    <2>10. /\ by \in 0 .. 63
           /\ k < by => 63 - k >= 8 * i
           /\ k < by \/ k >= by
           /\ 63 - k >= 8 * i => ~(63 - k < 8 * i)
      BY <1>10 DEF by
    <2> HIDE DEF h, p
    <2>6. k >= by => wide[h] = IF h \in 0 .. 7 THEN g[h] ELSE 0
      BY <1>3, <2>4
    <2>7. CASE k < by
      <3>1. moved[k] = 0 /\ ~(63 - k < 8 * i + bits) /\ ~(63 - k < 8 * i)
        BY <2>3, <2>5, <2>7, <2>10
      <3> QED
        BY <2>1, <2>2, <3>1
    <2>8. CASE k >= by /\ h < bits
      <3>1. h \in 0 .. 7
        BY <2>4, <2>8, <2>10
      <3>2. moved[k] = g[h] /\ g[h] \in Bit /\ g[h] = BitAt(array, p)
        BY <1>2, <2>3, <2>4, <2>6, <2>8, <3>1
      <3>3. w[k] = 0 /\ 63 - k < 8 * i + bits
        BY <2>2, <2>4, <2>5, <2>8
      <3> QED
        BY <2>1, <3>2, <3>3 DEF Bit, p
    <2>9. CASE k >= by /\ h >= bits
      <3>1. w[k] = BitAt(array, p) /\ 63 - k < 8 * i + bits
        BY <2>2, <2>4, <2>5, <2>9, <2>10
      <3>2. moved[k] = 0 \/ moved[k] = BitAt(array, p)
        <4>1. CASE h \in 0 .. 7
          BY <1>2, <2>3, <2>4, <2>6, <2>9, <4>1
        <4>2. CASE h \notin 0 .. 7
          BY <2>3, <2>6, <2>9, <4>2
        <4> QED
          BY <4>1, <4>2
      <3> QED
        BY <2>1, <2>2, <3>1, <3>2 DEF Bit, p
    <2> QED
      <3>1. k < by \/ (k >= by /\ h < bits) \/ (k >= by /\ h >= bits)
        BY <2>4, <2>10
      <3> QED
        BY <2>7, <2>8, <2>9, <3>1
  <1> QED
    BY <1>8, <1>9 DEF Spells

-----------------------------------------------------------------------------
(***************************************************************************)
(* A round of deserialize_array: the byte it begins, and the one before,   *)
(* which it completes.                                                     *)
(***************************************************************************)
LEMMA NoByte == ZeroWord(8) \in Byte
  BY DEF ZeroWord, Byte, Word, Bit

LEMMA JoinedBytes ==
  ASSUME NEW b \in Byte, NEW c \in Byte, NEW skip \in 0 .. 7
  PROVE  /\ Joined(b, c, skip) \in Byte
         /\ ShiftLeft(b, skip) = Joined(b, ZeroWord(8), skip)
         /\ BitOr(ShiftLeft(b, skip), ShiftRight(c, 8 - skip)) = Joined(b, c, skip)
  <1>1. Byte = [0 .. 7 -> Bit] /\ 0 \in Bit /\ 1 \in Bit
    BY DEF Byte, Word, Bit
  <1>2. DOMAIN b = 0 .. 7 /\ DOMAIN c = 0 .. 7 /\ \A k \in 0 .. 7 : b[k] \in Bit /\ c[k] \in Bit
    BY <1>1
  <1>3. \A k \in 0 .. 7 : /\ k + (8 - skip) \in 0 .. 7 <=> ~(k >= skip)
                          /\ k >= skip => k - skip \in 0 .. 7
    OBVIOUS
  <1> DEFINE left == ShiftLeft(b, skip)
             right == ShiftRight(c, 8 - skip)
  <1>4. left = [k \in 0 .. 7 |-> IF k >= skip THEN b[k - skip] ELSE 0]
    BY <1>2 DEF ShiftLeft
  <1>5. right = [k \in 0 .. 7 |-> IF k + (8 - skip) \in 0 .. 7 THEN c[k + (8 - skip)] ELSE 0]
    BY <1>2 DEF ShiftRight
  <1> HIDE DEF left, right
  <1>6. BitOr(left, right) = [k \in 0 .. 7 |-> IF left[k] = 1 \/ right[k] = 1 THEN 1 ELSE 0]
    BY <1>4 DEF BitOr
  <1>7. ASSUME NEW k \in 0 .. 7
        PROVE  /\ (IF k >= skip THEN b[k - skip] ELSE c[k + (8 - skip)]) \in Bit
               /\ (IF k >= skip THEN b[k - skip] ELSE 0) =
                    IF k >= skip THEN b[k - skip] ELSE ZeroWord(8)[k + (8 - skip)]
               /\ (IF left[k] = 1 \/ right[k] = 1 THEN 1 ELSE 0) =
                    IF k >= skip THEN b[k - skip] ELSE c[k + (8 - skip)]
    <2>1. /\ left[k] = IF k >= skip THEN b[k - skip] ELSE 0
          /\ right[k] = IF k + (8 - skip) \in 0 .. 7 THEN c[k + (8 - skip)] ELSE 0
      BY <1>4, <1>5
    <2>2. CASE k >= skip
      <3>1. k - skip \in 0 .. 7 /\ b[k - skip] \in Bit /\ ~(k + (8 - skip) \in 0 .. 7)
        BY <1>2, <1>3, <2>2
      <3>2. left[k] = b[k - skip] /\ right[k] = 0
        BY <2>1, <2>2, <3>1
      <3> QED
        BY <2>2, <3>1, <3>2 DEF Bit
    <2>3. CASE ~(k >= skip)
      <3>1. k + (8 - skip) \in 0 .. 7 /\ c[k + (8 - skip)] \in Bit
        BY <1>2, <1>3, <2>3
      <3>2. left[k] = 0 /\ right[k] = c[k + (8 - skip)]
        BY <2>1, <2>3, <3>1
      <3>3. ZeroWord(8)[k + (8 - skip)] = 0
        BY <3>1 DEF ZeroWord
      <3> QED
        BY <2>3, <3>1, <3>2, <3>3 DEF Bit
    <2> QED
      BY <2>2, <2>3
  <1>8. Joined(b, c, skip) \in Byte
    BY <1>1, <1>7 DEF Joined
  <1>9. left = Joined(b, ZeroWord(8), skip)
    BY <1>4, <1>7 DEF Joined
  <1>10. BitOr(left, right) = Joined(b, c, skip)
    BY <1>6, <1>7 DEF Joined
  <1> QED
    BY <1>8, <1>9, <1>10 DEF left, right

LEMMA CopyRound ==
  ASSUME NEW array \in Slice, NEW o \in Copy,
         NEW first \in Nat, NEW skip \in 0 .. 7,
         NEW length \in 0 .. 255, NEW j \in 0 .. 254, j < length, first + j < SIZE,
         Fills(o, array, first, skip, length, j)
  PROVE  /\ ArrayByte(o, array, SIZE, 8 * first + skip, length, j) \in Copy
         /\ Fills(ArrayByte(o, array, SIZE, 8 * first + skip, length, j),
                  array, first, skip, length, j + 1)
  <1> DEFINE b1 == array[first + j]
             b2 == array[first + j + 1]
             ends == j = length - 1 /\ first + j + 1 < SIZE
             last == IF ends THEN BitOr(ShiftLeft(b1, skip), ShiftRight(b2, 8 - skip))
                     ELSE ShiftLeft(b1, skip)
             before == BitOr(o[j - 1], ShiftRight(b1, 8 - skip))
             o2 == ArrayByte(o, array, SIZE, 8 * first + skip, length, j)
  <1>1. SIZE \in Nat /\ first + j \in 0 .. SIZE - 1 /\ (ends => first + j + 1 \in 0 .. SIZE - 1)
    BY ReadsAssumption
  <1>2. b1 \in Byte /\ (ends => b2 \in Byte)
    <2>1. \A b \in 0 .. SIZE - 1 : array[b] \in Byte
      BY DEF Slice
    <2> HIDE DEF ends
    <2> QED
      BY <1>1, <2>1
  <1>3. ZeroWord(8) \in Byte
    BY NoByte
  <1>4. o2 = [m \in 0 .. 255 |-> IF m = j THEN last
                                 ELSE IF m = j - 1 THEN BitOr(o[m], ShiftRight(b1, 8 - skip))
                                 ELSE o[m]]
    <2>1. (8 * first + skip) \div 8 = first /\ (8 * first + skip) % 8 = skip
      BY Place
    <2>2. DOMAIN o = 0 .. 255
      BY DEF Copy
    <2> QED
      BY <2>1, <2>2, Zenon DEF ArrayByte
  <1>5. ends <=> Complete(j, first, length, j + 1)
    BY <1>1 DEF Complete
  <1>6. last = Joined(b1, IF Complete(j, first, length, j + 1) THEN b2 ELSE ZeroWord(8), skip)
        /\ last \in Byte
    <2>1. CASE ends
      <3>1. last = BitOr(ShiftLeft(b1, skip), ShiftRight(b2, 8 - skip))
        BY <2>1
      <3> HIDE DEF b1, b2, last
      <3>2. Joined(b1, b2, skip) \in Byte
            /\ BitOr(ShiftLeft(b1, skip), ShiftRight(b2, 8 - skip)) = Joined(b1, b2, skip)
        BY <1>2, <2>1, JoinedBytes
      <3> QED
        BY <1>5, <2>1, <3>1, <3>2
    <2>2. CASE ~ends
      <3>1. last = ShiftLeft(b1, skip)
        BY <2>2
      <3> HIDE DEF b1, b2, last
      <3>2. Joined(b1, ZeroWord(8), skip) \in Byte
            /\ ShiftLeft(b1, skip) = Joined(b1, ZeroWord(8), skip)
        BY <1>2, <1>3, JoinedBytes
      <3> QED
        BY <1>5, <2>2, <3>1, <3>2
    <2> QED
      BY <2>1, <2>2
  <1>7. j > 0 => before = Joined(array[first + (j - 1)], b1, skip) /\ before \in Byte
    <2> SUFFICES ASSUME j > 0
                 PROVE  before = Joined(array[first + (j - 1)], b1, skip) /\ before \in Byte
      OBVIOUS
    <2> DEFINE b0 == array[first + (j - 1)]
    <2>1. first + (j - 1) \in 0 .. SIZE - 1 /\ j - 1 \in 0 .. j - 1
          /\ ~Complete(j - 1, first, length, j)
      BY <1>1 DEF Complete
    <2>2. b0 \in Byte
      BY <2>1 DEF Slice
    <2>3. o[j - 1] = Joined(b0, ZeroWord(8), skip)
      BY <2>1 DEF Fills
    <2> HIDE DEF b0, b1
    <2>4. o[j - 1] = ShiftLeft(b0, skip)
      BY <1>3, <2>2, <2>3, JoinedBytes
    <2>5. BitOr(ShiftLeft(b0, skip), ShiftRight(b1, 8 - skip)) = Joined(b0, b1, skip)
          /\ Joined(b0, b1, skip) \in Byte
      BY <1>2, <2>2, JoinedBytes
    <2> QED
      BY <2>4, <2>5 DEF b0
  <1> HIDE DEF last, b1, b2, o2, before, ends
  <1>8. ASSUME NEW m \in 0 .. 255
        PROVE  /\ m = j => o2[m] = last
               /\ m = j - 1 => o2[m] = before
               /\ m # j /\ m # j - 1 => o2[m] = o[m]
    <2>1. o2[m] = IF m = j THEN last
                  ELSE IF m = j - 1 THEN BitOr(o[m], ShiftRight(b1, 8 - skip)) ELSE o[m]
      BY <1>4
    <2>2. m = j - 1 => m # j
      OBVIOUS
    <2> QED
      BY <2>1, <2>2 DEF before
  <1>9. o2 \in Copy
    <2>1. ASSUME NEW m \in 0 .. 255 PROVE o2[m] \in Byte
      <3>1. m = j - 1 => j > 0
        OBVIOUS
      <3>2. o[m] \in Byte
        BY DEF Copy
      <3> QED
        BY <1>6, <1>7, <1>8, <3>1, <3>2
    <2>2. DOMAIN o2 = 0 .. 255 /\ o2 = [m \in DOMAIN o2 |-> o2[m]]
      BY <1>4
    <2> QED
      BY <2>1, <2>2 DEF Copy
  <1>10. ASSUME NEW m \in 0 .. j
         PROVE  o2[m] = Joined(array[first + m],
                               IF Complete(m, first, length, j + 1) THEN array[first + m + 1]
                               ELSE ZeroWord(8), skip)
    <2>1. m \in 0 .. 255
      OBVIOUS
    <2>2. CASE m = j
      BY <1>6, <1>8, <2>1, <2>2 DEF b1, b2
    <2>3. CASE m = j - 1
      <3>1. j > 0 /\ Complete(m, first, length, j + 1) /\ first + m + 1 = first + j
        BY <2>3 DEF Complete
      <3>2. o2[m] = before
        BY <1>8, <2>1, <2>3
      <3>3. before = Joined(array[first + m], array[first + m + 1], skip)
        BY <1>7, <2>3, <3>1 DEF b1
      <3> QED
        BY <3>1, <3>2, <3>3
    <2>4. CASE m < j - 1
      <3>1. m \in 0 .. j - 1 /\ m # j /\ m # j - 1
        BY <2>4
      <3>2. Complete(m, first, length, j) /\ Complete(m, first, length, j + 1)
        BY <2>4 DEF Complete
      <3>3. o2[m] = o[m]
        BY <1>8, <2>1, <3>1
      <3>4. o[m] = Joined(array[first + m], array[first + m + 1], skip)
        BY <3>1, <3>2 DEF Fills
      <3> QED
        BY <3>2, <3>3, <3>4
    <2> QED
      BY <2>2, <2>3, <2>4
  <1>11. Fills(o2, array, first, skip, length, j + 1)
    <2>1. 0 .. (j + 1) - 1 = 0 .. j
      OBVIOUS
    <2> QED
      BY <1>10, <2>1 DEF Fills
  <1> QED
    BY <1>9, <1>11 DEF o2

LEMMA FillsBits ==
  ASSUME NEW array, NEW o, NEW first \in Nat, NEW skip \in 0 .. 7, NEW length \in 0 .. 255,
         Fills(o, array, first, skip, length, length),
         8 * first + skip + 8 * length <= 8 * SIZE
  PROVE  SameBits(o, array, 8 * first + skip, length)
  <1> SUFFICES ASSUME NEW p \in 0 .. 8 * length - 1
               PROVE  BitAt(o, p) = BitAt(array, 8 * first + skip + p)
    BY DEF SameBits
  <1>1. PICK m \in Nat, b \in 0 .. 7 : p = 8 * m + b
    <2>1. p \div 8 \in Nat /\ p % 8 \in 0 .. 7 /\ p = 8 * (p \div 8) + (p % 8)
      OBVIOUS
    <2> QED
      BY <2>1
  <1>2. m \in 0 .. length - 1
    BY <1>1
  <1>3. BitAt(o, p) = o[m][7 - b]
    BY <1>1, BitAtPlace
  <1>4. skip > 0 => first + length < SIZE
    BY ReadsAssumption
  <1>5. o[m] = Joined(array[first + m],
                      IF Complete(m, first, length, length) THEN array[first + m + 1]
                      ELSE ZeroWord(8), skip)
    BY <1>2 DEF Fills
  <1>6. CASE 7 - b >= skip
    <2>1. o[m][7 - b] = array[first + m][7 - b - skip]
      BY <1>5, <1>6 DEF Joined
    <2>2. first + m \in Nat /\ b + skip \in 0 .. 7 /\ 7 - (b + skip) = 7 - b - skip
          /\ 8 * first + skip + p = 8 * (first + m) + (b + skip)
      BY <1>1, <1>6
    <2>3. BitAt(array, 8 * (first + m) + (b + skip)) = array[first + m][7 - (b + skip)]
      BY <2>2, BitAtPlace
    <2> QED
      BY <1>3, <2>1, <2>2, <2>3
  <1>7. CASE ~(7 - b >= skip)
    <2>1. Complete(m, first, length, length)
      BY <1>4, <1>7 DEF Complete
    <2>2. o[m][7 - b] = array[first + m + 1][7 - b + (8 - skip)]
      BY <1>5, <1>7, <2>1 DEF Joined
    <2>3. first + m + 1 \in Nat /\ b + skip - 8 \in 0 .. 7
          /\ 7 - (b + skip - 8) = 7 - b + (8 - skip)
          /\ 8 * first + skip + p = 8 * (first + m + 1) + (b + skip - 8)
      BY <1>1, <1>7
    <2>4. BitAt(array, 8 * (first + m + 1) + (b + skip - 8)) =
            array[first + m + 1][7 - (b + skip - 8)]
      BY <2>3, BitAtPlace
    <2> QED
      BY <1>3, <2>2, <2>3, <2>4
  <1> QED
    BY <1>6, <1>7

-----------------------------------------------------------------------------
(***************************************************************************)
(* The invariant: it holds at the start, and each operation keeps it.      *)
(***************************************************************************)
LEMMA NoWord ==
  /\ ZeroWord(64) \in Word(64)
  /\ NoBytes \in Copy
  /\ \A array, from : Spells(ZeroWord(64), array, from, 0)
  <1>1. ZeroWord(64) \in Word(64) /\ ZeroWord(8) \in Byte
    BY DEF ZeroWord, Byte, Word, Bit
  <1>2. NoBytes \in Copy
    BY <1>1 DEF NoBytes, Copy
  <1>3. \A array, from : Spells(ZeroWord(64), array, from, 0)
    <2> TAKE array, from
    <2>1. \A k \in 0 .. 63 : ZeroWord(64)[k] = 0 /\ ~(63 - k < 0)
      BY DEF ZeroWord
    <2> QED
      BY <2>1 DEF Spells
  <1> QED
    BY <1>1, <1>2, <1>3

LEMMA ReadsStart == Slice_init => ReadsInv
  <1> SUFFICES ASSUME Slice_init PROVE ReadsInv
    OBVIOUS
  <1>1. ReadsTypeOK
    <2>1. data \in [0 .. SIZE - 1 -> Byte]
      BY ReadsAssumption DEF Slice_init
    <2>2. start \in 0 .. 8 * SIZE
      BY ReadsAssumption DEF Slice_init
    <2>3. word \in Word(64) /\ out \in [0 .. 255 -> Byte]
      BY NoWord DEF Slice_init, Copy
    <2> QED
      BY <2>1, <2>2, <2>3 DEF Slice_init, ReadsTypeOK
  <1>2. pc = "idle"
    BY DEF Slice_init
  <1> QED
    BY <1>1, <1>2 DEF ReadsInv, IntSoFar, ValueSoFar, IntIsBits, ValueIsBits

LEMMA Typed ==
  ASSUME ReadsInv
  PROVE  /\ SIZE \in 1 .. 255 /\ data \in Slice /\ start \in 0 .. 8 * SIZE
         /\ asked \in 0 .. 255 /\ round \in 0 .. 255 /\ word \in Word(64) /\ out \in Copy
         /\ pc \in {"idle", "int", "gotInt", "value", "gotValue", "thrown"}
  BY ReadsAssumption DEF ReadsInv, ReadsTypeOK, Slice, Copy

LEMMA CallIntKeeps ==
  ASSUME ReadsInv, NEW bits \in Widths, CallInt(bits)
  PROVE  ReadsInv'
  <1>1. bits \in 0 .. 255 /\ SIZE \in Nat
    BY ReadsAssumption
  <1>2. ReadsTypeOK'
    <2>1. ReadsTypeOK /\ data' = data /\ start' = start /\ asked' = bits /\ round' = 0
          /\ word' = ZeroWord(64) /\ out' = NoBytes
          /\ pc' \in {"thrown", "gotInt", "int"}
      BY DEF ReadsInv, CallInt
    <2>2. data \in Slice /\ start \in 0 .. 8 * SIZE
      BY DEF ReadsInv, ReadsTypeOK, Slice
    <2>3. data' \in Slice /\ start' \in 0 .. 8 * SIZE
      <3>1. data' = data /\ start' = start
        BY <2>1
      <3> QED
        BY <2>2, <3>1
    <2>4. asked' \in 0 .. 255 /\ round' \in 0 .. 255
      BY <1>1, <2>1
    <2>5. word' \in Word(64) /\ out' \in Copy
      BY <2>1, NoWord
    <2> QED
      BY <2>1, <2>3, <2>4, <2>5 DEF ReadsTypeOK, Slice, Copy
  <1>3. IntSoFar'
    <2> SUFFICES ASSUME pc' = "int" PROVE IntSoFar'
      BY DEF IntSoFar
    <2>1. /\ bits # 0 /\ ~(bits > 64) /\ ~(bits > remaining_bits(SIZE, start))
          /\ start' = start /\ asked' = bits /\ round' = 0 /\ word' = ZeroWord(64) /\ data' = data
      BY DEF CallInt
    <2>2. start \in 0 .. 8 * SIZE
      BY DEF ReadsInv, ReadsTypeOK
    <2>3. start + bits <= 8 * SIZE
      BY <1>1, <2>1, <2>2 DEF remaining_bits
    <2>4. bits \in 1 .. 64 /\ 0 <= bits \div 8 /\ 8 * 0 = 0
      BY <1>1, <2>1
    <2>5. Spells(ZeroWord(64), data, start, 0)
      BY NoWord
    <2> QED
      BY <2>1, <2>3, <2>4, <2>5 DEF IntSoFar
  <1>4. IntIsBits'
    <2> SUFFICES ASSUME pc' = "gotInt" PROVE IntIsBits'
      BY DEF IntIsBits
    <2>1. bits = 0 /\ asked' = 0 /\ start' = start /\ word' = ZeroWord(64) /\ data' = data
      BY DEF CallInt
    <2>2. start \in 0 .. 8 * SIZE
      BY DEF ReadsInv, ReadsTypeOK
    <2>3. asked' <= start'
      BY <1>1, <2>1, <2>2
    <2>4. \A k \in 0 .. 63 : ~(k < asked')
      BY <2>1
    <2>5. word' = ZeroWord(64)
      BY <2>1
    <2>6. (word = IntOf(start - asked, asked))'
      BY <2>4, <2>5 DEF IntOf, ZeroWord
    <2> QED
      BY <2>3, <2>6 DEF IntIsBits
  <1>5. pc' # "value" /\ pc' # "gotValue"
    BY DEF CallInt
  <1> QED
    BY <1>2, <1>3, <1>4, <1>5 DEF ReadsInv, ValueSoFar, ValueIsBits

LEMMA ReadByteKeeps ==
  ASSUME ReadsInv, ReadByte
  PROVE  ReadsInv'
  <1>1. /\ pc = "int" /\ pc' = "int" /\ round < asked \div 8 /\ round' = round + 1
        /\ data' = data /\ start' = start /\ asked' = asked /\ out' = out
        /\ word' = IntByte(word, data, SIZE, start, round)
    BY DEF ReadByte
  <1>2. /\ asked \in 1 .. 64 /\ start + asked <= 8 * SIZE /\ Spells(word, data, start, 8 * round)
    BY <1>1 DEF ReadsInv, IntSoFar
  <1>3. /\ SIZE \in Nat /\ start \in Nat /\ round \in 0 .. 7 /\ round + 1 \in 0 .. 255
        /\ round + 1 <= asked \div 8 /\ start + 8 * round + 8 <= 8 * SIZE
        /\ 8 * (round + 1) = 8 * round + 8 /\ 8 * (7 - round) = 8 * (7 - round) + (8 - 8)
    BY <1>1, <1>2, Typed
  <1>4. word' \in Word(64) /\ Spells(word', data, start, 8 * round + 8)
    <2>1. data \in [0 .. SIZE - 1 -> Byte] /\ word \in Word(64)
      BY Typed DEF Slice
    <2>2. word' = BitOr(word, ShiftLeft(Resize(get_bits(data, SIZE, start + 8 * round, 8), 64),
                                        8 * (7 - round) + (8 - 8)))
      BY <1>1, <1>3 DEF IntByte
    <2>3. 8 \in 1 .. 8
      OBVIOUS
    <2> QED
      BY <1>2, <1>3, <2>1, <2>2, <2>3, GetInt
  <1>5. ReadsTypeOK'
    BY <1>1, <1>3, <1>4 DEF ReadsInv, ReadsTypeOK
  <1>6. IntSoFar'
    BY <1>1, <1>2, <1>3, <1>4 DEF IntSoFar
  <1> QED
    BY <1>1, <1>5, <1>6 DEF ReadsInv, ValueSoFar, IntIsBits, ValueIsBits

LEMMA ReturnIntKeeps ==
  ASSUME ReadsInv, ReturnInt
  PROVE  ReadsInv'
  <1> DEFINE all == IF asked % 8 = 0 THEN word ELSE IntRest(word, data, SIZE, start, asked)
  <1>1. /\ pc = "int" /\ pc' = "gotInt" /\ round = asked \div 8 /\ round' = round
        /\ data' = data /\ start' = start + asked /\ asked' = asked /\ out' = out
        /\ word' = ShiftRight(all, 64 - asked)
    BY DEF ReturnInt
  <1>2. /\ asked \in 1 .. 64 /\ start + asked <= 8 * SIZE /\ Spells(word, data, start, 8 * round)
    BY <1>1 DEF ReadsInv, IntSoFar
  <1>3. SIZE \in Nat /\ start \in Nat /\ start + asked \in 0 .. 8 * SIZE
    BY <1>2, Typed
  <1>4. /\ round \in 0 .. 8 /\ asked = 8 * round + (asked % 8) /\ asked % 8 \in 0 .. 7
        /\ asked % 8 # 0 => round \in 0 .. 7
    BY <1>1, <1>2
  <1>5. all \in Word(64) /\ Spells(all, data, start, asked)
    <2>1. CASE asked % 8 = 0
      <3>1. asked = 8 * round
        BY <1>4, <2>1
      <3> QED
        BY <1>2, <2>1, <3>1, Typed
    <2>2. CASE asked % 8 # 0
      <3> DEFINE rest == asked % 8
      <3>1. rest \in 1 .. 8 /\ start + 8 * round + rest <= 8 * SIZE /\ 8 * round + rest = asked
        BY <1>2, <1>3, <1>4, <2>2
      <3>2. all = BitOr(word, ShiftLeft(Resize(get_bits(data, SIZE, start + 8 * round, rest), 64),
                                        8 * (7 - round) + (8 - rest)))
        BY <1>1, <2>2 DEF IntRest
      <3>3. data \in [0 .. SIZE - 1 -> Byte] /\ word \in Word(64)
        BY Typed DEF Slice
      <3>4. round \in 0 .. 7
        BY <1>4, <2>2
      <3>5. all \in Word(64) /\ Spells(all, data, start, 8 * round + rest)
        <4> HIDE DEF all, rest
        <4> QED
          BY <1>2, <1>3, <3>1, <3>2, <3>3, <3>4, GetInt, ZenonT(60)
      <3> QED
        BY <3>1, <3>5
    <2> QED
      BY <2>1, <2>2
  <1> HIDE DEF all
  <1>6. word' = [k \in 0 .. 63 |-> IF k < asked THEN BitAt(data, start + asked - 1 - k) ELSE 0]
    <2>1. DOMAIN all = 0 .. 63
      BY <1>5 DEF Word
    <2>2. word' = [k \in 0 .. 63 |-> IF k + (64 - asked) \in 0 .. 63
                                     THEN all[k + (64 - asked)] ELSE 0]
      BY <1>1, <2>1 DEF ShiftRight
    <2>3. ASSUME NEW k \in 0 .. 63
          PROVE  (IF k + (64 - asked) \in 0 .. 63 THEN all[k + (64 - asked)] ELSE 0) =
                   IF k < asked THEN BitAt(data, start + asked - 1 - k) ELSE 0
      <3>1. k + (64 - asked) \in 0 .. 63 <=> k < asked
        BY <1>2
      <3>2. CASE k < asked
        <4> DEFINE h == k + (64 - asked)
        <4>1. h \in 0 .. 63 /\ 63 - h < asked /\ start + (63 - h) = start + asked - 1 - k
          BY <1>2, <1>3, <3>2
        <4> HIDE DEF h
        <4>2. all[h] = BitAt(data, start + (63 - h))
          BY <1>5, <4>1 DEF Spells
        <4> QED
          BY <3>1, <3>2, <4>1, <4>2 DEF h
      <3>3. CASE ~(k < asked)
        BY <3>1, <3>3
      <3> QED
        BY <3>2, <3>3
    <2> QED
      BY <2>2, <2>3, Zenon
  <1>7. word' \in Word(64)
    <2>1. \A k \in 0 .. 63 : k < asked => BitAt(data, start + asked - 1 - k) \in Bit
      <3> SUFFICES ASSUME NEW k \in 0 .. 63, k < asked
                   PROVE  BitAt(data, start + asked - 1 - k) \in Bit
        OBVIOUS
      <3>1. (start + asked - 1 - k) \div 8 \in 0 .. SIZE - 1
            /\ 7 - ((start + asked - 1 - k) % 8) \in 0 .. 7
        BY <1>2, <1>3
      <3> QED
        <4> DEFINE i == (start + asked - 1 - k) \div 8
                   b == 7 - ((start + asked - 1 - k) % 8)
        <4>1. BitAt(data, start + asked - 1 - k) = data[i][b]
          BY DEF BitAt
        <4> HIDE DEF i, b
        <4>2. data[i] \in [0 .. 7 -> Bit]
          BY <3>1, Typed DEF Slice, Byte, Word, i
        <4> QED
          BY <3>1, <4>1, <4>2 DEF b
    <2>2. Word(64) = [0 .. 63 -> Bit] /\ 0 \in Bit
      BY DEF Word, Bit
    <2> QED
      BY <1>6, <2>1, <2>2
  <1>8. ReadsTypeOK'
    <2>1. round' \in 0 .. 255 /\ asked' \in 0 .. 255 /\ start' \in 0 .. 8 * SIZE
      BY <1>1, <1>3, Typed
    <2>2. data' \in Slice /\ out' \in Copy
      BY <1>1, Typed
    <2> QED
      BY <1>1, <1>7, <2>1, <2>2 DEF ReadsTypeOK, Slice, Copy
  <1>9. IntIsBits'
    <2>1. asked' <= start' /\ start' - asked' = start
      BY <1>1, <1>2, <1>3
    <2>2. (word = IntOf(start - asked, asked))'
      BY <1>1, <1>6, <2>1 DEF IntOf
    <2> QED
      BY <2>1, <2>2 DEF IntIsBits
  <1> QED
    BY <1>1, <1>8, <1>9 DEF ReadsInv, IntSoFar, ValueSoFar, ValueIsBits

LEMMA CallValueKeeps ==
  ASSUME ReadsInv, NEW length \in Lengths, CallValue(length)
  PROVE  ReadsInv'
  <1>1. /\ asked' = length /\ round' = 0 /\ word' = ZeroWord(64) /\ out' = NoBytes
        /\ pc' = "value" /\ data' = data /\ start' = start
    BY DEF CallValue
  <1>2. length \in 0 .. 255
    BY ReadsAssumption
  <1>3. ReadsTypeOK'
    <2>1. data' \in Slice /\ start' \in 0 .. 8 * SIZE
      BY <1>1, Typed
    <2>2. word' \in Word(64) /\ out' \in Copy
      BY <1>1, NoWord
    <2>3. asked' \in 0 .. 255 /\ round' \in 0 .. 255
      BY <1>1, <1>2
    <2> QED
      BY <1>1, <2>1, <2>2, <2>3 DEF ReadsTypeOK, Slice, Copy
  <1>4. ValueSoFar'
    <2>1. round' <= asked' /\ ~(round' > 0)
      BY <1>1, <1>2
    <2>2. \A m : ~(m \in 0 .. 0 - 1)
      OBVIOUS
    <2>3. Fills(out, data, start \div 8, start % 8, asked, round)'
      BY <1>1, <2>2 DEF Fills
    <2> QED
      BY <2>1, <2>3 DEF ValueSoFar
  <1> QED
    BY <1>1, <1>3, <1>4 DEF ReadsInv, IntSoFar, IntIsBits, ValueIsBits

LEMMA StartPlace ==
  ASSUME ReadsInv
  PROVE  /\ start \div 8 \in Nat /\ start % 8 \in 0 .. 7
         /\ start = 8 * (start \div 8) + (start % 8)
  <1>1. start \in Nat
    BY Typed
  <1> QED
    BY <1>1

LEMMA CopyByteKeeps ==
  ASSUME ReadsInv, CopyByte
  PROVE  ReadsInv'
  <1> DEFINE first == start \div 8
             skip == start % 8
  <1>1. /\ pc = "value" /\ round < asked
        /\ data' = data /\ start' = start /\ asked' = asked /\ word' = word
    BY DEF CopyByte
  <1>2. /\ data \in Slice /\ out \in Copy /\ asked \in 0 .. 255 /\ round \in 0 .. 254
        /\ round + 1 \in 0 .. 255 /\ SIZE \in Nat /\ start \in 0 .. 8 * SIZE /\ word \in Word(64)
    <2>1. /\ data \in Slice /\ out \in Copy /\ word \in Word(64)
          /\ asked \in 0 .. 255 /\ round \in 0 .. 255 /\ SIZE \in 1 .. 255
          /\ start \in 0 .. 8 * SIZE
      BY Typed
    <2>2. round \in 0 .. 254 /\ round + 1 \in 0 .. 255 /\ SIZE \in Nat
      BY <1>1, <2>1
    <2> QED
      BY <2>1, <2>2
  <1>3. first \in Nat /\ skip \in 0 .. 7 /\ start = 8 * first + skip
    BY StartPlace
  <1>4. Fills(out, data, first, skip, asked, round)
    BY <1>1 DEF ReadsInv, ValueSoFar
  <1>5. CASE first + round + 1 <= SIZE
    <2>1. /\ out' = ArrayByte(out, data, SIZE, start, asked, round)
          /\ round' = round + 1 /\ pc' = "value"
      BY <1>1, <1>5 DEF CopyByte
    <2>2. out' = ArrayByte(out, data, SIZE, 8 * first + skip, asked, round)
      BY <1>3, <2>1
    <2>3. out' \in Copy /\ Fills(out', data, first, skip, asked, round + 1)
      <3>1. first + round < SIZE
        BY <1>2, <1>3, <1>5
      <3> HIDE DEF first, skip
      <3> QED
        BY <1>1, <1>2, <1>3, <1>4, <2>2, <3>1, CopyRound, ZenonT(60)
    <2>4. ReadsTypeOK'
      BY <1>1, <1>2, <2>1, <2>3 DEF ReadsTypeOK, Slice, Copy
    <2>5. ValueSoFar'
      <3>1. round' <= asked' /\ (start' \div 8) + round' <= SIZE
        BY <1>1, <1>2, <1>3, <1>5, <2>1
      <3>2. Fills(out, data, start \div 8, start % 8, asked, round)'
        BY <1>1, <2>1, <2>3
      <3> QED
        BY <3>1, <3>2 DEF ValueSoFar
    <2> QED
      BY <2>1, <2>4, <2>5 DEF ReadsInv, IntSoFar, IntIsBits, ValueIsBits
  <1>6. CASE ~(first + round + 1 <= SIZE)
    <2>1. pc' = "thrown" /\ round' = round /\ out' = out
      BY <1>1, <1>6 DEF CopyByte
    <2> HIDE DEF first, skip
    <2>2. ReadsTypeOK'
      <3>1. round' \in 0 .. 255
        BY <1>2, <2>1
      <3> QED
        BY <1>1, <1>2, <2>1, <3>1 DEF ReadsTypeOK, Slice, Copy
    <2> QED
      BY <2>1, <2>2 DEF ReadsInv, IntSoFar, ValueSoFar, IntIsBits, ValueIsBits
  <1> QED
    BY <1>5, <1>6

LEMMA ReturnValueKeeps ==
  ASSUME ReadsInv, ReturnValue
  PROVE  ReadsInv'
  <1>1. /\ pc = "value" /\ round = asked
        /\ data' = data /\ asked' = asked /\ round' = round /\ word' = word /\ out' = out
    BY DEF ReturnValue
  <1>2. /\ data \in Slice /\ out \in Copy /\ asked \in 0 .. 255
        /\ SIZE \in Nat /\ start \in 0 .. 8 * SIZE /\ word \in Word(64)
    BY Typed
  <1>3. CASE start + 8 * asked <= 8 * SIZE
    <2>1. start' = start + 8 * asked /\ pc' = "gotValue"
      BY <1>1, <1>3 DEF ReturnValue
    <2>2. start' \in 0 .. 8 * SIZE /\ 8 * asked' <= start' /\ start' - 8 * asked' = start
      BY <1>1, <1>2, <1>3, <2>1
    <2>3. ReadsTypeOK'
      <3>1. round' \in 0 .. 255
        BY <1>1, <1>2
      <3> QED
        BY <1>1, <1>2, <2>1, <2>2, <3>1 DEF ReadsTypeOK, Slice, Copy
    <2>4. \A p \in 0 .. 8 * asked - 1 : BitAt(out, p) = BitAt(data, start + p)
      <3> DEFINE first == start \div 8
                 skip == start % 8
      <3>1. first \in Nat /\ skip \in 0 .. 7 /\ start = 8 * first + skip
        BY StartPlace
      <3>2. Fills(out, data, first, skip, asked, asked)
        BY <1>1 DEF ReadsInv, ValueSoFar
      <3> HIDE DEF first, skip
      <3>3. 8 * first + skip + 8 * asked <= 8 * SIZE
        BY <1>3, <3>1
      <3>4. asked \in 0 .. 255 /\ first \in Nat /\ skip \in 0 .. 7
        BY <1>2, <3>1
      <3>5. SameBits(out, data, 8 * first + skip, asked)
        BY <3>2, <3>3, <3>4, FillsBits, ZenonT(60)
      <3> QED
        BY <3>1, <3>5 DEF SameBits
    <2>5. ValueIsBits'
      <3>1. \A p \in 0 .. 8 * asked' - 1 : BitAt(out', p) = BitAt(data', start' - 8 * asked' + p)
        BY <1>1, <2>2, <2>4
      <3> QED
        BY <2>2, <3>1 DEF ValueIsBits
    <2> QED
      BY <2>1, <2>3, <2>5 DEF ReadsInv, IntSoFar, ValueSoFar, IntIsBits
  <1>4. CASE ~(start + 8 * asked <= 8 * SIZE)
    <2>1. start' = start /\ pc' = "thrown"
      BY <1>1, <1>4 DEF ReturnValue
    <2>2. ReadsTypeOK'
      BY <1>1, <1>2, <2>1 DEF ReadsTypeOK, Slice, Copy
    <2> QED
      BY <2>1, <2>2 DEF ReadsInv, IntSoFar, ValueSoFar, IntIsBits, ValueIsBits
  <1> QED
    BY <1>3, <1>4

LEMMA NextSliceKeeps ==
  ASSUME ReadsInv, NextSlice
  PROVE  ReadsInv'
  <1>1. /\ data' \in Buffers /\ start' = 0 /\ pc' = "idle" /\ word' = ZeroWord(64)
        /\ out' = NoBytes /\ asked' = asked /\ round' = round
    BY DEF NextSlice
  <1>2. ReadsTypeOK'
    <2>1. data' \in Slice
      BY <1>1, ReadsAssumption DEF Slice
    <2>2. start' \in 0 .. 8 * SIZE /\ asked' \in 0 .. 255 /\ round' \in 0 .. 255
      BY <1>1, Typed
    <2>3. word' \in Word(64) /\ out' \in Copy
      BY <1>1, NoWord
    <2> QED
      BY <1>1, <2>1, <2>2, <2>3 DEF ReadsTypeOK, Slice, Copy
  <1> QED
    BY <1>1, <1>2 DEF ReadsInv, IntSoFar, ValueSoFar, IntIsBits, ValueIsBits

LEMMA StutterKeeps ==
  ASSUME ReadsInv, UNCHANGED reads
  PROVE  ReadsInv'
  BY DEF ReadsInv, ReadsTypeOK, IntSoFar, ValueSoFar, IntIsBits, ValueIsBits, IntOf, reads

LEMMA ReadsKept == ReadsInv /\ [ReadsNext]_reads => ReadsInv'
  <1> SUFFICES ASSUME ReadsInv, [ReadsNext]_reads PROVE ReadsInv'
    OBVIOUS
  <1>1. CASE \E bits \in Widths : CallInt(bits)
    BY <1>1, CallIntKeeps
  <1>2. CASE ReadByte
    BY <1>2, ReadByteKeeps
  <1>3. CASE ReturnInt
    BY <1>3, ReturnIntKeeps
  <1>4. CASE \E length \in Lengths : CallValue(length)
    BY <1>4, CallValueKeeps
  <1>5. CASE CopyByte
    BY <1>5, CopyByteKeeps
  <1>6. CASE ReturnValue
    BY <1>6, ReturnValueKeeps
  <1>7. CASE NextSlice
    BY <1>7, NextSliceKeeps
  <1>8. CASE UNCHANGED reads
    BY <1>8, StutterKeeps
  <1> QED
    BY <1>1, <1>2, <1>3, <1>4, <1>5, <1>6, <1>7, <1>8 DEF ReadsNext

(***************************************************************************)
(* ReadsAlways: what the loops of the reads have done so far is always a   *)
(* part of the slice (slice_data.c:46-116, message.c:12-62).               *)
(***************************************************************************)
THEOREM ReadsAlways == ReadsSpec => []ReadsInv
  BY ReadsStart, ReadsKept, PTL DEF ReadsSpec

(***************************************************************************)
(* EveryIntIsBits: SliceData_get_next_int returns the number the next bits *)
(* spell, for every slice, position and number of bits.                    *)
(***************************************************************************)
THEOREM EveryIntIsBits == ReadsSpec => []IntIsBits
  <1>1. ReadsInv => IntIsBits
    BY DEF ReadsInv
  <1> QED
    BY <1>1, ReadsAlways, PTL

(***************************************************************************)
(* EveryValueIsBits: deserialize_value returns the next bits, whole, for   *)
(* every slice, position and length.                                       *)
(***************************************************************************)
THEOREM EveryValueIsBits == ReadsSpec => []ValueIsBits
  <1>1. ReadsInv => ValueIsBits
    BY DEF ReadsInv
  <1> QED
    BY <1>1, ReadsAlways, PTL

-----------------------------------------------------------------------------
(***************************************************************************)
(* Appending.  The bits that stand before the cursor, and in the middle of *)
(* a call the bits it has brought so far: those of the last byte that are  *)
(* cut off at the byte's end are missing until the next round.             *)
(***************************************************************************)
AppendsTypeOK ==
  /\ job \in Jobs
  /\ data \in [0 .. job.size -> Byte]
  /\ start \in Nat /\ round \in Nat
  /\ text \in Seq(Bit)
  /\ pc \in {"append", "done", "thrown"}

Holds(array, in, from, n) == \A p \in 0 .. n - 1 : BitAt(array, from + p) = BitAt(in, p)

TextSoFar ==
  pc # "thrown" =>
    /\ Len(text) = start
    /\ \A p \in 0 .. start - 1 : BitAt(data, p) = text[p + 1]
    /\ round > 0 => /\ start % 8 # 0 /\ calls # << >> /\ 8 * round < Head(calls).bits
                    /\ Holds(data, Head(calls).in, start, 8 * round - (start % 8))

\* How far a job is, and which bits it has to put there.
RootBit(p) ==
  IF p < 3 THEN BitAt(job.calls[1].in, p)
  ELSE IF p < 11 THEN BitAt(job.calls[2].in, p - 3)
  ELSE IF p < 267 THEN BitAt(job.calls[3].in, p - 11)
  ELSE BitAt(job.calls[4].in, p - 267)

KeyBit(p) ==
  IF p < job.start THEN BitAt(job.buffer, p)
  ELSE IF p < job.start + 256 THEN BitAt(job.calls[1].in, p - job.start)
  ELSE IF p = job.start + 256 THEN 1 ELSE 0

RootProgress ==
  LET c    == job.calls
      full == Cell_get_data_size(job.cell)
  IN  /\ \A p \in 0 .. start - 1 : text[p + 1] = RootBit(p)
      /\ \/ calls = <<c[1], c[2], c[3], c[4]>> /\ start = 0 /\ pc = "append"
         \/ calls = <<c[2], c[3], c[4]>> /\ start = 3 /\ pc = "append"
         \/ calls = <<c[3], c[4]>> /\ start = 11 /\ pc = "append"
         \/ calls = <<c[4]>> /\ start = 267 /\ pc = "append"
         \/ /\ calls = << >> /\ start = 267 + 8 * full /\ pc = "done"
            /\ 33 + full <= job.size
            /\ \A p \in start .. start + 4 : BitAt(data, p) = 0

KeyProgress ==
  LET end == IF job.start % 8 = 0 THEN job.start + 256 ELSE 8 * (job.start \div 8 + 33)
  IN  /\ \A p \in 0 .. start - 1 : text[p + 1] = KeyBit(p)
      /\ \/ calls = <<job.calls[1]>> /\ start = job.start /\ pc = "append"
         \/ calls = << >> /\ start = end /\ pc = "done" /\ end <= 8 * job.size + 8

Progress == pc # "thrown" => IF job.kind = "root" THEN RootProgress ELSE KeyProgress

AppendsInv == AppendsTypeOK /\ TextSoFar /\ Progress

LEMMA LeastNumber ==
  ASSUME NEW T \in SUBSET Nat, T # {}
  PROVE  \E low \in T : \A j \in T : low <= j
  <1> DEFINE Less == OpToRel(<, Nat)
  <1>1. \E low \in T : \A j \in T : ~(<<j, low>> \in Less)
    <2>1. IsWellFoundedOn(Less, Nat)
      BY NatLessThanWellFounded
    <2> HIDE DEF Less
    <2> QED
      BY <2>1, WFMin
  <1>2. PICK low \in T : \A j \in T : ~(<<j, low>> \in Less)
    BY <1>1
  <1>3. \A j \in T : ~(j < low)
    BY <1>2 DEF OpToRel
  <1> QED
    BY <1>3

-----------------------------------------------------------------------------
(***************************************************************************)
(* The bytes a round of SliceData_append makes, bit by bit from the top.   *)
(***************************************************************************)
LEMMA ShiftedLeft ==
  ASSUME NEW c \in Byte, NEW s \in 1 .. 7
  PROVE  /\ ShiftLeft(c, 8 - s) \in Byte
         /\ \A x \in 0 .. 7 : ShiftLeft(c, 8 - s)[7 - x] = IF x < s THEN c[7 - (x + (8 - s))] ELSE 0
  <1>1. Byte = [0 .. 7 -> {0, 1}]
    BY DEF Byte, Word, Bit
  <1>2. ShiftLeft(c, 8 - s) = [k \in 0 .. 7 |-> IF k >= 8 - s THEN c[k - (8 - s)] ELSE 0]
    BY <1>1 DEF ShiftLeft
  <1>3. \A k \in 0 .. 7 : k >= 8 - s => k - (8 - s) \in 0 .. 7
    OBVIOUS
  <1>4. ShiftLeft(c, 8 - s) \in Byte
    BY <1>1, <1>2, <1>3
  <1>5. ASSUME NEW x \in 0 .. 7
        PROVE  ShiftLeft(c, 8 - s)[7 - x] = IF x < s THEN c[7 - (x + (8 - s))] ELSE 0
    <2>1. 7 - x \in 0 .. 7 /\ (7 - x >= 8 - s <=> x < s)
          /\ (7 - x) - (8 - s) = 7 - (x + (8 - s))
      OBVIOUS
    <2> QED
      BY <1>2, <2>1
  <1> QED
    BY <1>4, <1>5

LEMMA ShiftedRight ==
  ASSUME NEW c \in Byte, NEW s \in 1 .. 7
  PROVE  /\ ShiftRight(c, s) \in Byte
         /\ \A x \in 0 .. 7 : ShiftRight(c, s)[7 - x] = IF x < s THEN 0 ELSE c[7 - (x - s)]
  <1>1. Byte = [0 .. 7 -> {0, 1}]
    BY DEF Byte, Word, Bit
  <1>2. ShiftRight(c, s) = [k \in 0 .. 7 |-> IF k + s \in 0 .. 7 THEN c[k + s] ELSE 0]
    BY <1>1 DEF ShiftRight
  <1>4. ShiftRight(c, s) \in Byte
    BY <1>1, <1>2
  <1>5. ASSUME NEW x \in 0 .. 7
        PROVE  ShiftRight(c, s)[7 - x] = IF x < s THEN 0 ELSE c[7 - (x - s)]
    <2>1. 7 - x \in 0 .. 7 /\ (7 - x + s \in 0 .. 7 <=> ~(x < s)) /\ 7 - x + s = 7 - (x - s)
      OBVIOUS
    <2> QED
      BY <1>2, <2>1
  <1> QED
    BY <1>4, <1>5

LEMMA HighBitsKept ==
  ASSUME NEW c \in Byte, NEW s \in 1 .. 7
  PROVE  /\ HighBits(c, s) \in Byte
         /\ \A x \in 0 .. 7 : HighBits(c, s)[7 - x] = IF x < s THEN c[7 - x] ELSE 0
  <1> DEFINE d == ShiftRight(c, 8 - s)
  <1>1. 8 - s \in 1 .. 7
    OBVIOUS
  <1>2. d \in Byte /\ \A x \in 0 .. 7 : d[7 - x] = IF x < 8 - s THEN 0 ELSE c[7 - (x - (8 - s))]
    BY <1>1, ShiftedRight
  <1>3. HighBits(c, s) = ShiftLeft(d, 8 - s)
    BY DEF HighBits
  <1> HIDE DEF d
  <1>4. HighBits(c, s) \in Byte
    BY <1>2, <1>3, ShiftedLeft
  <1>5. ASSUME NEW x \in 0 .. 7
        PROVE  HighBits(c, s)[7 - x] = IF x < s THEN c[7 - x] ELSE 0
    <2>1. HighBits(c, s)[7 - x] = IF x < s THEN d[7 - (x + (8 - s))] ELSE 0
      BY <1>2, <1>3, ShiftedLeft
    <2>2. x < s => x + (8 - s) \in 0 .. 7 /\ ~(x + (8 - s) < 8 - s) /\ (x + (8 - s)) - (8 - s) = x
      OBVIOUS
    <2> QED
      BY <1>2, <2>1, <2>2
  <1> QED
    BY <1>4, <1>5

\* The first s bits of one byte and the others of a second one.
LEMMA JoinedAt ==
  ASSUME NEW b \in Byte, NEW c \in Byte, NEW s \in 1 .. 7,
         \A x \in 0 .. 7 : x >= s => b[7 - x] = 0, \A x \in 0 .. 7 : x < s => c[7 - x] = 0
  PROVE  /\ BitOr(b, c) \in Byte
         /\ \A x \in 0 .. 7 : BitOr(b, c)[7 - x] = IF x < s THEN b[7 - x] ELSE c[7 - x]
  <1>1. Byte = [0 .. 7 -> {0, 1}]
    BY DEF Byte, Word, Bit
  <1>2. BitOr(b, c) = [k \in 0 .. 7 |-> IF b[k] = 1 \/ c[k] = 1 THEN 1 ELSE 0]
    BY <1>1 DEF BitOr
  <1>3. BitOr(b, c) \in Byte
    BY <1>1, <1>2
  <1>4. ASSUME NEW x \in 0 .. 7
        PROVE  BitOr(b, c)[7 - x] = IF x < s THEN b[7 - x] ELSE c[7 - x]
    <2>1. 7 - x \in 0 .. 7
      OBVIOUS
    <2>2. b[7 - x] \in {0, 1} /\ c[7 - x] \in {0, 1}
      BY <1>1, <2>1
    <2> QED
      BY <1>2, <2>1, <2>2
  <1> QED
    BY <1>3, <1>4

(***************************************************************************)
(* A round keeps what is before the cursor and brings all bits of its byte *)
(* but those cut off; the last one brings these too, and behind them the   *)
(* tag and zeros, or zeros only.                                           *)
(***************************************************************************)
\* The byte of round j, and after the last round the one behind it.
RoundMakes(new, size, array, n, in, q, s, j, tag) ==
  /\ new \in [0 .. size -> Byte]
  /\ \A b \in 0 .. size : b # q + j /\ b # q + j + 1 => new[b] = array[b]
  /\ \A x \in 0 .. 7 :
       new[q + j][7 - x] = IF x >= s THEN in[j][7 - (x - s)]
                           ELSE IF j = 0 THEN array[q + j][7 - x]
                           ELSE in[j - 1][7 - (x + (8 - s))]
  /\ j + 1 = n => \A x \in 0 .. 7 :
       new[q + j + 1][7 - x] = IF x < s THEN in[j][7 - (x + (8 - s))]
                               ELSE IF x = s /\ tag THEN 1 ELSE 0

LEMMA RoundBytes ==
  ASSUME NEW size \in Nat, NEW array \in [0 .. size -> Byte],
         NEW n \in Nat, NEW in \in [0 .. n - 1 -> Byte], NEW q \in Nat, NEW s \in 1 .. 7,
         NEW j \in 0 .. n - 1, q + j < size, NEW tag \in BOOLEAN
  PROVE  RoundMakes(AppendByte(array, in, 8 * q + s, j, tag), size, array, n, in, q, s, j, tag)
  <1> DEFINE i == q + j
             left == IF j = 0 THEN HighBits(array[i], s) ELSE ShiftLeft(in[j - 1], 8 - s)
             right == ShiftRight(in[j], s)
             rest == ShiftLeft(in[j], 8 - s)
             tail == IF tag THEN Tagged(rest, s) ELSE rest
             new == AppendByte(array, in, 8 * q + s, j, tag)
  <1>1. (8 * q + s) \div 8 = q /\ (8 * q + s) % 8 = s
    BY Place
  <1>2. i \in 0 .. size /\ i + 1 \in 0 .. size /\ in[j] \in Byte /\ array[i] \in Byte
        /\ (j # 0 => in[j - 1] \in Byte)
    OBVIOUS
  <1>3. DOMAIN in = 0 .. n - 1
    OBVIOUS
  <1>4. new = [array EXCEPT ![i] = BitOr(left, right),
                            ![i + 1] = IF j + 1 \in 0 .. n - 1 THEN @ ELSE tail]
    BY <1>1, <1>3 DEF AppendByte
  <1> HIDE DEF new
  <1>5. /\ left \in Byte
        /\ \A x \in 0 .. 7 : left[7 - x] = IF x >= s THEN 0
                                           ELSE IF j = 0 THEN array[i][7 - x]
                                           ELSE in[j - 1][7 - (x + (8 - s))]
    <2>1. CASE j = 0
      <3> HIDE DEF i
      <3>1. left = HighBits(array[i], s)
        BY <2>1
      <3> HIDE DEF left
      <3>2. /\ HighBits(array[i], s) \in Byte
            /\ \A x \in 0 .. 7 : HighBits(array[i], s)[7 - x] = IF x < s THEN array[i][7 - x] ELSE 0
        BY <1>2, HighBitsKept
      <3>3. \A x \in 0 .. 7 : x < s <=> ~(x >= s)
        OBVIOUS
      <3> QED
        BY <2>1, <3>1, <3>2, <3>3
    <2>2. CASE j # 0
      <3> HIDE DEF i
      <3>1. left = ShiftLeft(in[j - 1], 8 - s)
        BY <2>2
      <3> HIDE DEF left
      <3> QED
        BY <1>2, <2>2, <3>1, ShiftedLeft
    <2> QED
      BY <2>1, <2>2
  <1>6. /\ right \in Byte
        /\ \A x \in 0 .. 7 : right[7 - x] = IF x < s THEN 0 ELSE in[j][7 - (x - s)]
    BY <1>2, ShiftedRight
  <1>7. /\ rest \in Byte
        /\ \A x \in 0 .. 7 : rest[7 - x] = IF x < s THEN in[j][7 - (x + (8 - s))] ELSE 0
    BY <1>2, ShiftedLeft
  <1> HIDE DEF left, right, rest
  <1>8. /\ BitOr(left, right) \in Byte
        /\ \A x \in 0 .. 7 : BitOr(left, right)[7 - x] = IF x < s THEN left[7 - x] ELSE right[7 - x]
    BY <1>5, <1>6, JoinedAt
  <1>9. /\ tail \in Byte
        /\ \A x \in 0 .. 7 : tail[7 - x] = IF x = s /\ tag THEN 1 ELSE rest[7 - x]
    <2>1. Byte = [0 .. 7 -> {0, 1}]
      BY DEF Byte, Word, Bit
    <2>2. Tagged(rest, s) \in Byte
      BY <1>7, <2>1 DEF Tagged
    <2>3. ASSUME NEW x \in 0 .. 7
          PROVE  Tagged(rest, s)[7 - x] = IF x = s THEN 1 ELSE rest[7 - x]
      <3>1. 7 - x \in 0 .. 7 /\ (7 - x = 7 - s <=> x = s)
        OBVIOUS
      <3> QED
        BY <1>7, <2>1, <3>1 DEF Tagged
    <2> QED
      BY <1>7, <2>2, <2>3
  <1> HIDE DEF tail
  <1>10. /\ new \in [0 .. size -> Byte]
         /\ \A b \in 0 .. size : b # i /\ b # i + 1 => new[b] = array[b]
         /\ new[i] = BitOr(left, right)
         /\ j + 1 = n => new[i + 1] = tail
    <2> HIDE DEF i
    <2>1. i # i + 1
      BY <1>2
    <2>2. j + 1 = n => j + 1 \notin 0 .. n - 1
      OBVIOUS
    <2> QED
      BY <1>2, <1>4, <1>8, <1>9, <2>1, <2>2
  <1>11. ASSUME NEW x \in 0 .. 7
         PROVE  BitOr(left, right)[7 - x] = IF x >= s THEN in[j][7 - (x - s)]
                                            ELSE IF j = 0 THEN array[i][7 - x]
                                            ELSE in[j - 1][7 - (x + (8 - s))]
    <2>1. x >= s <=> ~(x < s)
      OBVIOUS
    <2> QED
      BY <1>5, <1>6, <1>8, <2>1
  <1>12. ASSUME NEW x \in 0 .. 7
         PROVE  tail[7 - x] = IF x < s THEN in[j][7 - (x + (8 - s))]
                              ELSE IF x = s /\ tag THEN 1 ELSE 0
    <2>1. x = s => ~(x < s)
      OBVIOUS
    <2> QED
      BY <1>7, <1>9, <2>1
  <1>13. RoundMakes(new, size, array, n, in, q, s, j, tag)
    BY <1>10, <1>11, <1>12 DEF RoundMakes
  <1> QED
    BY <1>13 DEF new


LEMMA Divided ==
  ASSUME NEW p \in Nat
  PROVE  \E b \in Nat, x \in 0 .. 7 : p = 8 * b + x
  <1>1. p \div 8 \in Nat /\ p % 8 \in 0 .. 7 /\ p = 8 * (p \div 8) + (p % 8)
    OBVIOUS
  <1> QED
    BY <1>1

RoundBrings(new, size, array, n, in, from, j, tag) ==
  /\ new \in [0 .. size -> Byte]
  /\ \A p \in 0 .. from - 1 : BitAt(new, p) = BitAt(array, p)
  /\ Holds(new, in, from, 8 * (j + 1) - (from % 8))
  /\ j + 1 = n =>
       /\ Holds(new, in, from, 8 * n)
       /\ \A p \in from + 8 * n .. 8 * (from \div 8 + n + 1) - 1 :
            BitAt(new, p) = IF p = from + 8 * n /\ tag THEN 1 ELSE 0

LEMMA RoundBits ==
  ASSUME NEW size \in Nat, NEW array \in [0 .. size -> Byte],
         NEW n \in Nat, NEW in \in [0 .. n - 1 -> Byte], NEW from \in Nat, from % 8 # 0,
         NEW j \in 0 .. n - 1, from \div 8 + j < size, NEW tag \in BOOLEAN,
         Holds(array, in, from, 8 * j - (from % 8)),
         NEW new, new = AppendByte(array, in, from, j, tag)
  PROVE  RoundBrings(new, size, array, n, in, from, j, tag)
  <1>1. PICK q \in Nat, s \in 0 .. 7 : from = 8 * q + s
    BY Divided
  <1>2. from \div 8 = q /\ from % 8 = s
    BY <1>1, Place
  <1>3. s \in 1 .. 7 /\ q + j < size
    BY <1>2
  <1>4. /\ new \in [0 .. size -> Byte]
        /\ \A b \in 0 .. size : b # q + j /\ b # q + j + 1 => new[b] = array[b]
        /\ \A x \in 0 .. 7 :
             new[q + j][7 - x] = IF x >= s THEN in[j][7 - (x - s)]
                                 ELSE IF j = 0 THEN array[q + j][7 - x]
                                 ELSE in[j - 1][7 - (x + (8 - s))]
        /\ j + 1 = n => \A x \in 0 .. 7 :
             new[q + j + 1][7 - x] = IF x < s THEN in[j][7 - (x + (8 - s))]
                                     ELSE IF x = s /\ tag THEN 1 ELSE 0
    <2>1. RoundMakes(AppendByte(array, in, 8 * q + s, j, tag), size, array, n, in, q, s, j, tag)
      BY <1>3, RoundBytes
    <2> QED
      BY <1>1, <2>1 DEF RoundMakes
  <1>5. ASSUME NEW p \in 0 .. from - 1
        PROVE  BitAt(new, p) = BitAt(array, p)
    <2>0. p \in Nat
      OBVIOUS
    <2>1. PICK b \in Nat, x \in 0 .. 7 : p = 8 * b + x
      BY <2>0, Divided
    <2>6. BitAt(new, 8 * b + x) = new[b][7 - x] /\ BitAt(array, 8 * b + x) = array[b][7 - x]
      BY BitAtPlace, Zenon
    <2>2. BitAt(new, p) = new[b][7 - x] /\ BitAt(array, p) = array[b][7 - x]
      BY <2>1, <2>6, Zenon
    <2>3. b <= q /\ (b = q => x < s)
      BY <1>1, <2>1
    <2>4. CASE b = q + j
      <3>1. j = 0 /\ x < s /\ ~(x >= s)
        BY <1>3, <2>3, <2>4
      <3> QED
        BY <1>4, <2>2, <2>4, <3>1
    <2>5. CASE b # q + j
      <3>1. b \in 0 .. size /\ b # q + j + 1
        BY <1>3, <2>3
      <3> QED
        BY <1>4, <2>2, <2>5, <3>1
    <2> QED
      BY <2>4, <2>5
  <1>6. ASSUME NEW p \in 0 .. 8 * (j + 1) - s - 1
        PROVE  BitAt(new, from + p) = BitAt(in, p)
    <2>1. PICK b \in Nat, x \in 0 .. 7 : from + p = 8 * b + x
      <3>1. from + p \in Nat
        OBVIOUS
      <3> QED
        BY <3>1, Divided
    <2>7. BitAt(new, 8 * b + x) = new[b][7 - x] /\ BitAt(array, 8 * b + x) = array[b][7 - x]
      BY BitAtPlace
    <2>2. BitAt(new, from + p) = new[b][7 - x] /\ BitAt(array, from + p) = array[b][7 - x]
      BY <2>1, <2>7
    <2>3. b <= q + j
      BY <1>1, <2>1
    <2>4. CASE b < q + j
      <3>1. b \in 0 .. size /\ b # q + j /\ b # q + j + 1 /\ p \in 0 .. 8 * j - s - 1
        BY <1>1, <1>3, <2>1, <2>4
      <3>2. BitAt(array, from + p) = BitAt(in, p)
        BY <1>2, <3>1 DEF Holds
      <3> QED
        BY <1>4, <2>2, <3>1, <3>2
    <2>5. CASE b = q + j /\ x >= s
      <3>1. p = 8 * j + (x - s) /\ x - s \in 0 .. 7 /\ j \in Nat
        BY <1>1, <2>1, <2>5
      <3>2. BitAt(in, p) = in[j][7 - (x - s)]
        BY <3>1, BitAtPlace
      <3> QED
        BY <1>4, <2>2, <2>5, <3>2
    <2>6. CASE b = q + j /\ x < s
      <3>1. p = 8 * (j - 1) + (x + (8 - s)) /\ x + (8 - s) \in 0 .. 7 /\ j - 1 \in Nat /\ j # 0
            /\ ~(x >= s)
        BY <1>1, <2>1, <2>6
      <3>2. BitAt(in, p) = in[j - 1][7 - (x + (8 - s))]
        BY <3>1, BitAtPlace
      <3> QED
        BY <1>4, <2>2, <2>6, <3>1, <3>2
    <2> QED
      <3>1. b < q + j \/ (b = q + j /\ x >= s) \/ (b = q + j /\ x < s)
        BY <1>3, <2>3
      <3> QED
        BY <2>4, <2>5, <2>6, <3>1
  <1>7. ASSUME j + 1 = n, NEW p \in 8 * n - s .. 8 * n - 1
        PROVE  BitAt(new, from + p) = BitAt(in, p)
    <2> DEFINE x == p - (8 * n - s)
    <2>1. /\ x \in 0 .. 7 /\ x < s /\ from + p = 8 * (q + j + 1) + x /\ q + j + 1 \in Nat
          /\ p = 8 * j + (x + (8 - s)) /\ x + (8 - s) \in 0 .. 7 /\ j \in Nat
      BY <1>1, <1>3, <1>7
    <2> HIDE DEF x
    <2>3. BitAt(new, 8 * (q + j + 1) + x) = new[q + j + 1][7 - x]
      BY <2>1, BitAtPlace
    <2>4. BitAt(in, 8 * j + (x + (8 - s))) = in[j][7 - (x + (8 - s))]
      BY <2>1, BitAtPlace
    <2>2. BitAt(new, from + p) = new[q + j + 1][7 - x] /\ BitAt(in, p) = in[j][7 - (x + (8 - s))]
      BY <2>1, <2>3, <2>4
    <2> QED
      BY <1>4, <1>7, <2>1, <2>2
  <1>8. ASSUME j + 1 = n, NEW p \in from + 8 * n .. 8 * (q + n + 1) - 1
        PROVE  BitAt(new, p) = IF p = from + 8 * n /\ tag THEN 1 ELSE 0
    <2> DEFINE x == p - 8 * (q + n)
    <2>1. /\ x \in 0 .. 7 /\ ~(x < s) /\ p = 8 * (q + j + 1) + x /\ q + j + 1 \in Nat
          /\ (p = from + 8 * n <=> x = s)
      BY <1>1, <1>3, <1>8
    <2> HIDE DEF x
    <2>2. BitAt(new, p) = new[q + j + 1][7 - x]
      BY <2>1, BitAtPlace
    <2> QED
      BY <1>4, <1>8, <2>1, <2>2
  <1>9. Holds(new, in, from, 8 * (j + 1) - (from % 8))
    BY <1>2, <1>6 DEF Holds
  <1>10. j + 1 = n => Holds(new, in, from, 8 * n)
    <2> SUFFICES ASSUME j + 1 = n, NEW p \in 0 .. 8 * n - 1
                 PROVE  BitAt(new, from + p) = BitAt(in, p)
      BY DEF Holds
    <2>1. p \in 0 .. 8 * (j + 1) - s - 1 \/ p \in 8 * n - s .. 8 * n - 1
      BY <1>3
    <2> QED
      BY <1>6, <1>7, <2>1
  <1> QED
    BY <1>2, <1>4, <1>5, <1>8, <1>9, <1>10 DEF RoundBrings

(***************************************************************************)
(* A copy at a byte boundary, of whole bytes or of one byte that begins    *)
(* with the bits.                                                          *)
(***************************************************************************)
CopyBrings(new, size, array, n, in, q) ==
  /\ new \in [0 .. size -> Byte]
  /\ \A p \in 0 .. 8 * q - 1 : BitAt(new, p) = BitAt(array, p)
  /\ Holds(new, in, 8 * q, 8 * n)

LEMMA CopyBits ==
  ASSUME NEW size \in Nat, NEW array \in [0 .. size -> Byte],
         NEW n \in Nat, n > 0, NEW in \in [0 .. n - 1 -> Byte],
         NEW q \in Nat, q + n <= size + 1, NEW new,
         new = [b \in DOMAIN array |-> IF b - q \in 0 .. n - 1 THEN in[b - q] ELSE array[b]]
  PROVE  CopyBrings(new, size, array, n, in, q)
  <1>1. new = [b \in 0 .. size |-> IF b - q \in 0 .. n - 1 THEN in[b - q] ELSE array[b]]
    OBVIOUS
  <1>2. new \in [0 .. size -> Byte]
    BY <1>1
  <1>3. ASSUME NEW p \in 0 .. 8 * q - 1
        PROVE  BitAt(new, p) = BitAt(array, p)
    <2>0. p \in Nat
      OBVIOUS
    <2>1. PICK b \in Nat, x \in 0 .. 7 : p = 8 * b + x
      BY <2>0, Divided
    <2>4. BitAt(new, 8 * b + x) = new[b][7 - x] /\ BitAt(array, 8 * b + x) = array[b][7 - x]
      BY BitAtPlace, Zenon
    <2>2. BitAt(new, p) = new[b][7 - x] /\ BitAt(array, p) = array[b][7 - x]
      BY <2>1, <2>4, Zenon
    <2>3. b \in 0 .. size /\ b - q \notin 0 .. n - 1
      BY <2>1
    <2> QED
      BY <1>1, <2>2, <2>3
  <1>4. ASSUME NEW p \in 0 .. 8 * n - 1
        PROVE  BitAt(new, 8 * q + p) = BitAt(in, p)
    <2>0. p \in Nat
      OBVIOUS
    <2>1. PICK b \in Nat, x \in 0 .. 7 : p = 8 * b + x
      BY <2>0, Divided
    <2>2. 8 * q + p = 8 * (q + b) + x /\ q + b \in Nat /\ q + b \in 0 .. size
          /\ (q + b) - q = b /\ b \in 0 .. n - 1
      BY <2>1
    <2>4. BitAt(new, 8 * (q + b) + x) = new[q + b][7 - x] /\ BitAt(in, 8 * b + x) = in[b][7 - x]
      BY <2>2, BitAtPlace
    <2>3. BitAt(new, 8 * q + p) = new[q + b][7 - x] /\ BitAt(in, p) = in[b][7 - x]
      BY <2>1, <2>2, <2>4
    <2> QED
      BY <1>1, <2>2, <2>3
  <1> QED
    BY <1>2, <1>3, <1>4 DEF Holds, CopyBrings

-----------------------------------------------------------------------------
(***************************************************************************)
(* The text.                                                               *)
(***************************************************************************)
LEMMA BitOfBytes ==
  ASSUME NEW n \in Nat, NEW in \in [0 .. n - 1 -> Byte], NEW p \in 0 .. 8 * n - 1
  PROVE  BitAt(in, p) \in Bit
  <1>1. Byte = [0 .. 7 -> Bit]
    BY DEF Byte, Word
  <1>2. p \div 8 \in 0 .. n - 1 /\ 7 - (p % 8) \in 0 .. 7
    OBVIOUS
  <1> QED
    BY <1>1, <1>2 DEF BitAt

LEMMA TextOfBytes ==
  ASSUME NEW n \in Nat, NEW in \in [0 .. n - 1 -> Byte], NEW bits \in 0 .. 8 * n
  PROVE  /\ TextOf(in, bits) \in Seq(Bit) /\ Len(TextOf(in, bits)) = bits
         /\ \A p \in 0 .. bits - 1 : TextOf(in, bits)[p + 1] = BitAt(in, p)
  <1>1. \A p \in 1 .. bits : BitAt(in, p - 1) \in Bit
    BY BitOfBytes
  <1>2. TextOf(in, bits) \in [1 .. bits -> Bit]
    BY <1>1 DEF TextOf
  <1>3. bits \in Nat
    OBVIOUS
  <1>4. TextOf(in, bits) \in Seq(Bit) /\ Len(TextOf(in, bits)) = bits
    BY <1>2, <1>3, IsASeq
  <1>5. ASSUME NEW p \in 0 .. bits - 1
        PROVE  TextOf(in, bits)[p + 1] = BitAt(in, p)
    <2>1. p + 1 \in 1 .. bits /\ (p + 1) - 1 = p
      OBVIOUS
    <2> QED
      BY <2>1 DEF TextOf
  <1> QED
    BY <1>4, <1>5

LEMMA Concat ==
  ASSUME NEW s \in Seq(Bit), NEW t \in Seq(Bit)
  PROVE  /\ s \o t \in Seq(Bit) /\ Len(s \o t) = Len(s) + Len(t)
         /\ \A p \in 0 .. Len(s) - 1 : (s \o t)[p + 1] = s[p + 1]
         /\ \A p \in 0 .. Len(t) - 1 : (s \o t)[Len(s) + p + 1] = t[p + 1]
  <1>1. Len(s) \in Nat /\ Len(t) \in Nat
    OBVIOUS
  <1>2. s \o t \in Seq(Bit) /\ Len(s \o t) = Len(s) + Len(t)
    OBVIOUS
  <1>3. ASSUME NEW p \in 0 .. Len(s) - 1
        PROVE  (s \o t)[p + 1] = s[p + 1]
    BY <1>1
  <1>4. ASSUME NEW p \in 0 .. Len(t) - 1
        PROVE  (s \o t)[Len(s) + p + 1] = t[p + 1]
    <2>1. Len(s) + p + 1 \in 1 .. Len(s) + Len(t) /\ ~(Len(s) + p + 1 <= Len(s))
          /\ Len(s) + p + 1 - Len(s) = p + 1
      BY <1>1
    <2> QED
      BY <2>1
  <1> QED
    BY <1>2, <1>3, <1>4

LEMMA CompletionBits ==
  ASSUME start % 8 # 0, start \in Nat
  PROVE  /\ Completion \in Seq(Bit) /\ Len(Completion) = 8 - (start % 8)
         /\ \A p \in 0 .. 8 - (start % 8) - 1 : Completion[p + 1] = IF p = 0 THEN 1 ELSE 0
  <1> DEFINE n == 8 - (start % 8)
  <1>1. n \in Nat
    OBVIOUS
  <1>2. Completion = [p \in 1 .. n |-> IF p = 1 THEN 1 ELSE 0]
    BY DEF Completion, shift
  <1> HIDE DEF n
  <1>3. Completion \in [1 .. n -> Bit]
    BY <1>2 DEF Bit
  <1>4. Completion \in Seq(Bit) /\ Len(Completion) = n
    BY <1>1, <1>3, IsASeq
  <1>5. ASSUME NEW p \in 0 .. n - 1
        PROVE  Completion[p + 1] = IF p = 0 THEN 1 ELSE 0
    BY <1>1, <1>2
  <1> QED
    BY <1>4, <1>5 DEF n

-----------------------------------------------------------------------------
(***************************************************************************)
(* The jobs.                                                               *)
(***************************************************************************)
LEMMA CellFacts ==
  ASSUME NEW cell, IsCell(cell)
  PROVE  /\ Cell_get_data_size(cell) \in Nat \ {0}
         /\ cell.data \in [0 .. Cell_get_data_size(cell) - 1 -> Byte]
         /\ Cell_get_data_size(cell) <= 128
  <1>1. cell.whole \in 0 .. 127 /\ Cell_get_data_size(cell) > 0
        /\ cell.data \in [0 .. Cell_get_data_size(cell) - 1 -> Byte]
    BY Zenon DEF IsCell
  <1>2. \/ Cell_get_data_size(cell) = cell.whole + 1
        \/ Cell_get_data_size(cell) = cell.whole + 0
    BY Zenon DEF Cell_get_data_size
  <1>3. Cell_get_data_size(cell) \in Nat \ {0} /\ Cell_get_data_size(cell) <= 128
    <2> DEFINE n == Cell_get_data_size(cell)
               w == cell.whole
    <2>1. w \in 0 .. 127 /\ n > 0 /\ (n = w + 1 \/ n = w + 0)
      BY <1>1, <1>2
    <2> HIDE DEF n, w
    <2>2. n \in Nat \ {0} /\ n <= 128
      BY <2>1
    <2> QED
      BY <2>2 DEF n
  <1> QED
    BY <1>1, <1>3

LEMMA Tuple4 ==
  ASSUME NEW a, NEW b, NEW c, NEW d
  PROVE  /\ <<a, b, c, d>>[1] = a /\ <<a, b, c, d>>[2] = b /\ <<a, b, c, d>>[3] = c
         /\ <<a, b, c, d>>[4] = d
         /\ <<a, b, c, d>> # << >> /\ Head(<<a, b, c, d>>) = a /\ Tail(<<a, b, c, d>>) = <<b, c, d>>
         /\ <<b, c, d>> # << >> /\ Head(<<b, c, d>>) = b /\ Tail(<<b, c, d>>) = <<c, d>>
         /\ <<c, d>> # << >> /\ Head(<<c, d>>) = c /\ Tail(<<c, d>>) = <<d>>
         /\ <<d>> # << >> /\ Head(<<d>>) = d /\ Tail(<<d>>) = << >> /\ <<d>>[1] = d
  OBVIOUS

IsCall(c, in, bits, tag) == c.in = in /\ c.bits = bits /\ c.tag = tag

LEMMA CallIsCall ==
  ASSUME NEW in, NEW bits, NEW tag
  PROVE  IsCall(Call(in, bits, tag), in, bits, tag)
  BY DEF Call, IsCall

LEMMA RootFacts ==
  ASSUME NEW j, IsRootJob(j)
  PROVE  /\ j.kind = "root" /\ j.start = 0 /\ j.size \in Nat /\ j.buffer \in [0 .. j.size -> Byte]
         /\ j.calls = <<j.calls[1], j.calls[2], j.calls[3], j.calls[4]>>
         /\ IsCall(j.calls[1], OneByte(Prefix), 3, FALSE)
         /\ IsCall(j.calls[2], j.calls[2].in, 8, FALSE) /\ j.calls[2].in \in [0 .. 0 -> Byte]
         /\ IsCall(j.calls[3], j.calls[3].in, 256, FALSE) /\ j.calls[3].in \in [0 .. 31 -> Byte]
         /\ IsCall(j.calls[4], j.cell.data, 8 * Cell_get_data_size(j.cell), FALSE)
  <1> DEFINE a == Call(OneByte(Prefix), 3, FALSE)
             b == Call(OneByte(j.calls[2].in[0]), 8, FALSE)
             c == Call(j.calls[3].in, 256, FALSE)
             d == Call(j.cell.data, 8 * Cell_get_data_size(j.cell), FALSE)
  <1>1. j = RootJob(j.cell, j.calls[2].in[0], j.calls[3].in, j.size, j.buffer)
    BY DEF IsRootJob
  <1>2. /\ RootJob(j.cell, j.calls[2].in[0], j.calls[3].in, j.size, j.buffer).calls = <<a, b, c, d>>
        /\ RootJob(j.cell, j.calls[2].in[0], j.calls[3].in, j.size, j.buffer).start = 0
    <2>1. 8 * PUBLIC_KEY_LENGTH = 256
      BY DEF PUBLIC_KEY_LENGTH
    <2> QED
      BY <2>1, Zenon DEF RootJob
  <1>3. IsCall(a, OneByte(Prefix), 3, FALSE) /\ IsCall(b, OneByte(j.calls[2].in[0]), 8, FALSE)
        /\ IsCall(c, j.calls[3].in, 256, FALSE)
        /\ IsCall(d, j.cell.data, 8 * Cell_get_data_size(j.cell), FALSE)
    BY CallIsCall
  <1> HIDE DEF a, b, c, d
  <1>4. j.calls = <<a, b, c, d>> /\ j.start = 0
    BY <1>1, <1>2, Zenon
  <1>5. j.calls[1] = a /\ j.calls[2] = b /\ j.calls[3] = c /\ j.calls[4] = d
    BY <1>4, Tuple4
  <1>6. j.calls[2].in[0] \in Byte /\ j.calls[3].in \in [0 .. 31 -> Byte]
    BY DEF IsRootJob, Key, PUBLIC_KEY_LENGTH
  <1>7. b.in = OneByte(j.calls[2].in[0]) /\ OneByte(j.calls[2].in[0]) \in [0 .. 0 -> Byte]
    BY <1>3, <1>6 DEF IsCall, OneByte
  <1>8. IsCall(j.calls[2], j.calls[2].in, 8, FALSE) /\ IsCall(j.calls[3], j.calls[3].in, 256, FALSE)
    BY <1>3, <1>5, Zenon DEF IsCall
  <1>9. /\ IsCall(j.calls[1], OneByte(Prefix), 3, FALSE)
        /\ IsCall(j.calls[4], j.cell.data, 8 * Cell_get_data_size(j.cell), FALSE)
    BY <1>3, <1>5, Zenon
  <1>10. j.calls[2].in \in [0 .. 0 -> Byte]
    BY <1>5, <1>7, Zenon
  <1>11. j.kind = "root" /\ j.size \in Nat /\ j.buffer \in [0 .. j.size -> Byte]
    BY DEF IsRootJob
  <1> QED
    BY <1>4, <1>5, <1>6, <1>8, <1>9, <1>10, <1>11, Zenon

LEMMA KeyFacts ==
  ASSUME NEW j, IsKeyJob(j)
  PROVE  /\ j.kind = "key" /\ j.kind # "root"
         /\ j.start \in Nat /\ j.start + 256 <= 8 * j.size
         /\ j.size \in Nat /\ j.buffer \in [0 .. j.size -> Byte]
         /\ Cell_get_data_size(j.cell) <= j.size
         /\ \A b \in 0 .. Cell_get_data_size(j.cell) - 1 : j.buffer[b] = j.cell.data[b]
         /\ j.calls = <<j.calls[1]>>
         /\ IsCall(j.calls[1], j.calls[1].in, 256, TRUE) /\ j.calls[1].in \in [0 .. 31 -> Byte]
  <1> DEFINE a == Call(j.calls[1].in, 256, TRUE)
             k == KeyJob(j.cell, j.start, j.calls[1].in, j.size, j.buffer)
             n == Cell_get_data_size(j.cell)
  <1>1. j = k
    BY DEF IsKeyJob
  <1>2. /\ k.calls = <<a>>
        /\ k.buffer = [b \in DOMAIN j.buffer |-> IF b < n THEN j.cell.data[b] ELSE j.buffer[b]]
    <2>1. 8 * PUBLIC_KEY_LENGTH = 256
      BY DEF PUBLIC_KEY_LENGTH
    <2> QED
      BY <2>1, Zenon DEF KeyJob
  <1> HIDE DEF k
  <1>3. IsCall(a, j.calls[1].in, 256, TRUE)
    BY CallIsCall
  <1> HIDE DEF a
  <1>4. j.calls = <<a>>
    BY <1>1, <1>2, Zenon
  <1>5. j.calls[1] = a
    BY <1>4, Tuple4
  <1>6. /\ j.kind = "key" /\ j.start \in Nat /\ j.start + 256 <= 8 * j.size
        /\ j.size \in Nat /\ j.buffer \in [0 .. j.size -> Byte] /\ n <= j.size
        /\ j.calls[1].in \in [0 .. 31 -> Byte]
    BY DEF IsKeyJob, Key, PUBLIC_KEY_LENGTH
  <1>7. IsCall(j.calls[1], j.calls[1].in, 256, TRUE)
    BY <1>3, <1>5, Zenon DEF IsCall
  <1>8. n \in Nat
    BY CellFacts DEF IsKeyJob
  <1>9. ASSUME NEW b \in 0 .. n - 1
        PROVE  j.buffer[b] = j.cell.data[b]
    <2>1. j.buffer = [m \in DOMAIN j.buffer |-> IF m < n THEN j.cell.data[m] ELSE j.buffer[m]]
      BY <1>1, <1>2, Zenon
    <2> HIDE DEF n, a
    <2>3. DOMAIN j.buffer = 0 .. j.size
      BY <1>6
    <2>4. n <= j.size /\ j.size \in Nat
      BY <1>6
    <2>5. b \in 0 .. j.size /\ b < n
      BY <1>8, <2>4
    <2>2. b \in DOMAIN j.buffer /\ b < n
      BY <2>3, <2>5
    <2> QED
      BY <2>1, <2>2, Zenon
  <1> QED
    BY <1>4, <1>5, <1>6, <1>7, <1>9, Zenon

-----------------------------------------------------------------------------
(***************************************************************************)
(* A call, whichever it is: where it leaves the cursor, the text and the   *)
(* bytes.                                                                  *)
(***************************************************************************)
JobOK == IsRootJob(job) \/ IsKeyJob(job)

LEMMA TheJob ==
  ASSUME AppendsInv
  PROVE  JobOK /\ job.size \in Nat /\ job.kind \in {"root", "key"}
  <1>1. JobOK
    BY JobsAssumption DEF AppendsInv, AppendsTypeOK, JobOK
  <1> QED
    BY <1>1, RootFacts, KeyFacts DEF JobOK

LEMMA PrefixBytes == OneByte(Prefix) \in [0 .. 0 -> Byte]
  BY DEF OneByte, Prefix, Byte, Word, Bit

\* The running call appends n bytes, or begins the first one.
Runs(n) ==
  /\ n \in Nat /\ n > 0
  /\ calls # << >> /\ call.in \in [0 .. n - 1 -> Byte] /\ call.tag \in BOOLEAN
  /\ \/ call.bits = 8 * n
     \/ n = 1 /\ call.bits = 3 /\ start = 0 /\ call.tag = FALSE

LEMMA One ==
  /\ 1 \in Nat /\ 1 > 0 /\ 1 - 1 = 0 /\ 8 = 8 * 1
  /\ 32 \in Nat /\ 32 > 0 /\ 32 - 1 = 31 /\ 256 = 8 * 32
  /\ FALSE \in BOOLEAN /\ TRUE \in BOOLEAN
  OBVIOUS

LEMMA SomeCall ==
  ASSUME AppendsInv, pc = "append"
  PROVE  \E n : Runs(n)
  <1> USE DEF Runs, IsCall, call
  <1> DEFINE c == job.calls
  <1>1. CASE job.kind = "root"
    <2>1. IsRootJob(job)
      BY <1>1, TheJob, KeyFacts DEF JobOK
    <2>2. /\ IsCall(c[1], OneByte(Prefix), 3, FALSE)
          /\ IsCall(c[2], c[2].in, 8, FALSE) /\ c[2].in \in [0 .. 0 -> Byte]
          /\ IsCall(c[3], c[3].in, 256, FALSE) /\ c[3].in \in [0 .. 31 -> Byte]
          /\ IsCall(c[4], job.cell.data, 8 * Cell_get_data_size(job.cell), FALSE)
      <3> HIDE DEF Runs, IsCall, call
      <3> QED
        BY <2>1, RootFacts, Zenon
    <2>3. RootProgress
      BY <1>1 DEF AppendsInv, Progress
    <2> DEFINE full == Cell_get_data_size(job.cell)
    <2>9. full \in Nat /\ full > 0 /\ job.cell.data \in [0 .. full - 1 -> Byte]
      BY <2>1, CellFacts DEF IsRootJob
    <2> HIDE DEF c, full
    <2>4. CASE calls = <<c[1], c[2], c[3], c[4]>> /\ start = 0
      <3>1. calls # << >> /\ Head(calls) = c[1]
        BY <2>4, Tuple4
      <3>2. Runs(1)
        <4>1. /\ call.bits = 3 /\ call.tag = FALSE /\ call.in \in [0 .. 0 -> Byte]
          <5>1. IsCall(Head(calls), OneByte(Prefix), 3, FALSE)
            BY <2>2, <3>1, Zenon
          <5> QED
            BY <5>1, PrefixBytes, Zenon
        <4> QED
          BY <2>4, <3>1, <4>1, One, Zenon
      <3> QED
        BY <3>2
    <2>5. CASE calls = <<c[2], c[3], c[4]>>
      <3>1. calls # << >> /\ Head(calls) = c[2]
        BY <2>5, Tuple4
      <3>3. /\ call.bits = 8 /\ call.tag = FALSE
            /\ call.in \in [0 .. 0 -> Byte]
        BY <2>2, <3>1, Zenon
      <3>2. Runs(1)
        BY <3>1, <3>3, One, Zenon
      <3> QED
        BY <3>2
    <2>6. CASE calls = <<c[3], c[4]>>
      <3>1. calls # << >> /\ Head(calls) = c[3]
        BY <2>6, Tuple4, Zenon
      <3>2. Runs(32)
        BY <2>2, <3>1, One, Zenon
      <3> QED
        BY <3>2
    <2>7. CASE calls = <<c[4]>>
      <3>1. calls # << >> /\ Head(calls) = c[4]
        BY <2>7, Tuple4, Zenon
      <3>3. call.bits = 8 * full /\ call.tag = FALSE /\ call.in = job.cell.data
        BY <2>2, <3>1, Zenon DEF full
      <3>2. Runs(full)
        BY <2>9, <3>1, <3>3
      <3> QED
        BY <3>2
    <2> QED
      BY <2>3, <2>4, <2>5, <2>6, <2>7, Zenon DEF RootProgress, c
  <1>2. CASE job.kind # "root"
    <2>1. IsKeyJob(job)
      BY <1>2, TheJob, RootFacts DEF JobOK
    <2>2. calls = <<c[1]>>
      BY <1>2, Zenon DEF AppendsInv, Progress, KeyProgress
    <2>3. calls # << >> /\ Head(calls) = c[1]
      BY <2>2, Tuple4, Zenon
    <2>4. IsCall(c[1], c[1].in, 256, TRUE) /\ c[1].in \in [0 .. 31 -> Byte]
      BY <2>1, KeyFacts
    <2> HIDE DEF c
    <2>5. Runs(32)
      BY <2>3, <2>4, One, Zenon
    <2> QED
      BY <2>5
  <1> QED
    BY <1>1, <1>2

Extends(in, bits, more) ==
  /\ text' \in Seq(Bit) /\ Len(text') = start + bits + more
  /\ \A p \in 0 .. start - 1 : text'[p + 1] = text[p + 1]
  /\ \A p \in 0 .. bits - 1 : text'[start + p + 1] = BitAt(in, p)
  /\ \A p \in 0 .. more - 1 : text'[start + bits + p + 1] = IF p = 0 THEN 1 ELSE 0

LEMMA PlainText ==
  ASSUME text \in Seq(Bit), Len(text) = start,
         NEW n \in Nat, NEW in \in [0 .. n - 1 -> Byte], NEW bits \in 0 .. 8 * n,
         text' = text \o TextOf(in, bits)
  PROVE  Extends(in, bits, 0)
  <1> DEFINE t == TextOf(in, bits)
  <1>1. t \in Seq(Bit) /\ Len(t) = bits /\ \A p \in 0 .. bits - 1 : t[p + 1] = BitAt(in, p)
    BY TextOfBytes
  <1> HIDE DEF t
  <1>2. /\ text \o t \in Seq(Bit) /\ Len(text \o t) = start + bits
        /\ \A p \in 0 .. start - 1 : (text \o t)[p + 1] = text[p + 1]
        /\ \A p \in 0 .. bits - 1 : (text \o t)[start + p + 1] = t[p + 1]
    BY <1>1, Concat
  <1>3. text' = text \o t /\ start \in Nat
    BY DEF t
  <1>4. start + bits + 0 = start + bits /\ 0 .. 0 - 1 = {}
    BY <1>3
  <1> QED
    BY <1>1, <1>2, <1>3, <1>4 DEF Extends

LEMMA TaggedText ==
  ASSUME text \in Seq(Bit), Len(text) = start, start % 8 # 0,
         NEW n \in Nat, NEW in \in [0 .. n - 1 -> Byte], NEW bits \in 0 .. 8 * n,
         text' = text \o TextOf(in, bits) \o Completion
  PROVE  Extends(in, bits, 8 - (start % 8))
  <1> DEFINE t == TextOf(in, bits)
             s == text \o t
             m == 8 - (start % 8)
  <1>1. t \in Seq(Bit) /\ Len(t) = bits /\ \A p \in 0 .. bits - 1 : t[p + 1] = BitAt(in, p)
    BY TextOfBytes
  <1>0. start \in Nat /\ m \in Nat
    OBVIOUS
  <1>5. /\ Completion \in Seq(Bit) /\ Len(Completion) = m
        /\ \A p \in 0 .. m - 1 : Completion[p + 1] = IF p = 0 THEN 1 ELSE 0
    BY <1>0, CompletionBits
  <1> HIDE DEF t, m
  <1>2. /\ s \in Seq(Bit) /\ Len(s) = start + bits
        /\ \A p \in 0 .. start - 1 : s[p + 1] = text[p + 1]
        /\ \A p \in 0 .. bits - 1 : s[start + p + 1] = t[p + 1]
    BY <1>1, Concat
  <1>3. text' = s \o Completion
    BY DEF t
  <1> HIDE DEF s
  <1>4. /\ text' \in Seq(Bit) /\ Len(text') = start + bits + m
        /\ \A p \in 0 .. start + bits - 1 : text'[p + 1] = s[p + 1]
        /\ \A p \in 0 .. m - 1 : text'[start + bits + p + 1] = Completion[p + 1]
    <2>1. /\ s \o Completion \in Seq(Bit) /\ Len(s \o Completion) = Len(s) + Len(Completion)
          /\ \A p \in 0 .. Len(s) - 1 : (s \o Completion)[p + 1] = s[p + 1]
          /\ \A p \in 0 .. Len(Completion) - 1 :
               (s \o Completion)[Len(s) + p + 1] = Completion[p + 1]
      BY <1>2, <1>5, Concat
    <2>2. Len(s) = start + bits /\ Len(Completion) = m
      BY <1>2, <1>5
    <2>3. text' \in Seq(Bit) /\ Len(text') = start + bits + m
      BY <1>3, <2>1, <2>2
    <2>7. \A p \in 0 .. Len(s) - 1 : text'[p + 1] = s[p + 1]
      BY <1>3, <2>1, Zenon
    <2>4. ASSUME NEW p \in 0 .. start + bits - 1
          PROVE  text'[p + 1] = s[p + 1]
      <3>1. 0 .. Len(s) - 1 = 0 .. start + bits - 1
        BY <2>2
      <3>2. p \in 0 .. Len(s) - 1
        BY <3>1
      <3> QED
        BY <2>7, <3>2
    <2>5. \A p \in 0 .. m - 1 : text'[Len(s) + p + 1] = Completion[p + 1]
      BY <1>3, <2>1, <2>2
    <2>6. \A p \in 0 .. m - 1 : text'[start + bits + p + 1] = Completion[p + 1]
      BY <2>2, <2>5
    <2> QED
      BY <2>3, <2>4, <2>6
  <1>6. ASSUME NEW p \in 0 .. start - 1
        PROVE  text'[p + 1] = text[p + 1]
    <2>1. p \in 0 .. start + bits - 1
      BY <1>0
    <2> QED
      BY <1>2, <1>4, <2>1
  <1>7. ASSUME NEW p \in 0 .. bits - 1
        PROVE  text'[start + p + 1] = BitAt(in, p)
    <2>1. start + p \in 0 .. start + bits - 1 /\ start + p + 1 = (start + p) + 1
      BY <1>0
    <2>2. text'[start + p + 1] = s[start + p + 1]
      BY <1>4, <2>1
    <2> QED
      BY <1>1, <1>2, <2>2
  <1>8. Extends(in, bits, m)
    <2>1. \A p \in 0 .. m - 1 : text'[start + bits + p + 1] = IF p = 0 THEN 1 ELSE 0
      <3>1. /\ \A p \in 0 .. m - 1 : text'[start + bits + p + 1] = Completion[p + 1]
            /\ \A p \in 0 .. m - 1 : Completion[p + 1] = IF p = 0 THEN 1 ELSE 0
        BY <1>4, <1>5, Zenon
      <3> TAKE p \in 0 .. m - 1
      <3>2. text'[start + bits + p + 1] = Completion[p + 1]
        BY <3>1, Zenon
      <3>3. Completion[p + 1] = IF p = 0 THEN 1 ELSE 0
        BY <3>1, Zenon
      <3> QED
        BY <3>2, <3>3, Zenon
    <2> QED
      BY <1>4, <1>6, <1>7, <2>1, Zenon DEF Extends
  <1> QED
    BY <1>8 DEF m

\* What the bytes have to do for that.
LEMMA TextStands ==
  ASSUME AppendsInv, pc # "thrown", NEW in, NEW bits \in Nat, NEW more \in Nat,
         Extends(in, bits, more),
         \A p \in 0 .. start - 1 : BitAt(data', p) = BitAt(data, p),
         Holds(data', in, start, bits),
         \A p \in start + bits .. start + bits + more - 1 :
           BitAt(data', p) = IF p = start + bits THEN 1 ELSE 0,
         start' = start + bits + more, round' = 0
  PROVE  TextSoFar'
  <1>1. /\ start \in Nat /\ Len(text) = start
        /\ \A p \in 0 .. start - 1 : BitAt(data, p) = text[p + 1]
    BY DEF AppendsInv, AppendsTypeOK, TextSoFar
  <1>2. Len(text') = start' /\ ~(round' > 0)
    BY DEF Extends
  <1>3. ASSUME NEW p \in 0 .. start' - 1
        PROVE  BitAt(data', p) = text'[p + 1]
    <2>1. CASE p < start
      <3>1. p \in 0 .. start - 1
        BY <1>1, <2>1
      <3> QED
        BY <1>1, <3>1 DEF Extends
    <2>2. CASE p >= start /\ p < start + bits
      <3>1. p - start \in 0 .. bits - 1 /\ start + (p - start) = p
        BY <1>1, <2>2
      <3>2. BitAt(data', p) = BitAt(in, p - start)
        BY <3>1 DEF Holds
      <3>3. text'[start + (p - start) + 1] = BitAt(in, p - start)
        BY <3>1 DEF Extends
      <3> QED
        BY <3>1, <3>2, <3>3
    <2>3. CASE p >= start + bits
      <3>1. /\ p - (start + bits) \in 0 .. more - 1 /\ start + bits + (p - (start + bits)) = p
            /\ p \in start + bits .. start + bits + more - 1
            /\ (p = start + bits <=> p - (start + bits) = 0)
        BY <1>1, <2>3
      <3>2. text'[start + bits + (p - (start + bits)) + 1] = IF p - (start + bits) = 0 THEN 1 ELSE 0
        BY <3>1 DEF Extends
      <3> QED
        BY <3>1, <3>2
    <2> QED
      BY <1>1, <2>1, <2>2, <2>3
  <1> QED
    BY <1>2, <1>3 DEF TextSoFar


(***************************************************************************)
(* The two actions.                                                        *)
(***************************************************************************)
\* The call that ran is over: it brought bits and more of its own.
Over(bits, more) ==
  /\ job' = job /\ data' \in [0 .. job.size -> Byte]
  /\ start' = start + bits + more /\ round' = 0 /\ calls' = Tail(calls)
  /\ pc' = IF Tail(calls) = << >> THEN "done" ELSE "append"
  /\ TextSoFar' /\ Extends(call.in, bits, more)

LEMMA CopyStep ==
  ASSUME AppendsInv, CopyAligned, pc' # "thrown"
  PROVE  \E n : /\ Runs(n) /\ Over(call.bits, 0)
                /\ start % 8 = 0
                /\ job.kind = "root" => start = 0
  <1>1. pc = "append"
    BY DEF CopyAligned
  <1>2. PICK n : Runs(n)
    BY <1>1, SomeCall
  <1>3. /\ start \in Nat /\ text \in Seq(Bit) /\ Len(text) = start
        /\ data \in [0 .. job.size -> Byte] /\ job.size \in Nat
    BY <1>1, TheJob DEF AppendsInv, AppendsTypeOK, TextSoFar
  <1>4. ~Underflow
    BY DEF CopyAligned, Thrown
  <1>5. /\ data' = [b \in DOMAIN data |->
                      IF b - (start \div 8) \in 0 .. Max({bytes, 1}) - 1
                      THEN call.in[b - (start \div 8)] ELSE data[b]]
        /\ text' = text \o TextOf(call.in, call.bits)
        /\ start' = start + call.bits /\ calls' = Tail(calls) /\ round' = 0
        /\ pc' = IF Tail(calls) = << >> THEN "done" ELSE "append"
        /\ job' = job
    BY <1>4, Zenon DEF CopyAligned, Return
  <1>6. n \in Nat /\ n > 0 /\ call.in \in [0 .. n - 1 -> Byte] /\ call.bits \in 0 .. 8 * n
    BY <1>2 DEF Runs
  <1>7. start % 8 = 0 /\ Max({bytes, 1}) = n
    <2>1. \A m \in Nat : m > 0 => Max({m, 1}) = m
      BY DEF Max
    <2>2. Max({0, 1}) = 1
      BY DEF Max
    <2>3. CASE call.bits = 8 * n
      <3>1. bytes = n /\ bytes # 0
        BY <1>6, <2>3 DEF bytes
      <3> QED
        BY <1>6, <2>1, <3>1 DEF CopyAligned, shift
    <2>4. CASE n = 1 /\ call.bits = 3 /\ start = 0
      BY <2>2, <2>4 DEF bytes
    <2> QED
      BY <1>2, <2>3, <2>4 DEF Runs
  <1>8. job.kind = "root" => start = 0
    <2>1. ASSUME job.kind = "root" PROVE start \in {0, 3, 11, 267}
      BY <1>1, <2>1 DEF AppendsInv, Progress, RootProgress
    <2> QED
      BY <1>7, <2>1
  <1>9. start \div 8 + n <= job.size + 1
    <2>1. CASE job.kind = "root"
      <3>1. calls = <<job.calls[1], job.calls[2], job.calls[3], job.calls[4]>>
        BY <1>1, <1>8, <2>1 DEF AppendsInv, Progress, RootProgress
      <3>2. call = job.calls[1]
        BY <3>1, Tuple4 DEF call
      <3>3. call.bits = 3
        BY <2>1, <3>2, TheJob, RootFacts, KeyFacts DEF JobOK, IsCall
      <3>4. n = 1 /\ start = 0
        BY <1>2, <1>8, <2>1, <3>3 DEF Runs
      <3> QED
        BY <1>3, <3>4
    <2>2. CASE job.kind # "root"
      <3>1. IsKeyJob(job)
        BY <2>2, TheJob, RootFacts DEF JobOK
      <3>2. start = job.start /\ calls = <<job.calls[1]>>
        BY <1>1, <2>2 DEF AppendsInv, Progress, KeyProgress
      <3>3. call.bits = 256
        <4>1. call = job.calls[1]
          BY <3>2, Tuple4 DEF call
        <4> QED
          BY <3>1, <4>1, KeyFacts DEF IsCall
      <3>4. n = 32
        BY <1>2, <3>3 DEF Runs
      <3>5. start + 256 <= 8 * job.size
        BY <3>1, <3>2, KeyFacts
      <3> QED
        BY <1>3, <3>4, <3>5
    <2> QED
      BY <2>1, <2>2
  <1>10. PICK q \in Nat : start = 8 * q /\ start \div 8 = q
    <2>1. start \div 8 \in Nat /\ start = 8 * (start \div 8)
      BY <1>3, <1>7
    <2> QED
      BY <2>1
  <1>11. /\ data' \in [0 .. job.size -> Byte]
         /\ \A p \in 0 .. 8 * q - 1 : BitAt(data', p) = BitAt(data, p)
         /\ Holds(data', call.in, 8 * q, 8 * n)
    <2>1. data' = [b \in DOMAIN data |-> IF b - q \in 0 .. n - 1 THEN call.in[b - q] ELSE data[b]]
      BY <1>5, <1>7, <1>10
    <2>2. q + n <= job.size + 1
      BY <1>9, <1>10
    <2>3. CopyBrings(data', job.size, data, n, call.in, q)
      BY <1>3, <1>6, <2>1, <2>2, CopyBits
    <2> QED
      BY <2>3 DEF CopyBrings
  <1>12. Extends(call.in, call.bits, 0)
    BY <1>3, <1>5, <1>6, PlainText
  <1>13. Holds(data', call.in, start, call.bits)
    BY <1>6, <1>10, <1>11 DEF Holds
  <1>14. TextSoFar'
    <2>1. call.bits \in Nat /\ start' = start + call.bits + 0
          /\ start + call.bits .. start + call.bits + 0 - 1 = {}
      BY <1>3, <1>5, <1>6
    <2> QED
      BY <1>1, <1>5, <1>10, <1>11, <1>12, <1>13, <2>1, TextStands
  <1>15. Over(call.bits, 0)
    <2>1. start' = start + call.bits + 0
      BY <1>3, <1>5, <1>6
    <2> QED
      BY <1>5, <1>11, <1>12, <1>14, <2>1 DEF Over
  <1> QED
    BY <1>2, <1>7, <1>8, <1>15

\* A round in the middle of a call, and its last one.
Middle ==
  /\ UNCHANGED <<job, start, calls, pc, text>> /\ round' \in Nat
  /\ data' \in [0 .. job.size -> Byte] /\ TextSoFar'

Last(n) ==
  LET more == IF call.tag THEN 8 - (start % 8) ELSE 0
  IN  /\ Over(8 * n, more)
      /\ start \div 8 + n <= job.size
      /\ \A p \in start + 8 * n .. 8 * (start \div 8 + n + 1) - 1 :
           BitAt(data', p) = IF p = start + 8 * n /\ call.tag THEN 1 ELSE 0

LEMMA RoundStep ==
  ASSUME AppendsInv, AppendRound, pc' # "thrown"
  PROVE  \E n : Runs(n) /\ start % 8 # 0 /\ call.bits = 8 * n /\ (Middle \/ Last(n))
  <1>1. pc = "append" /\ start % 8 # 0 /\ bytes # 0
    BY DEF AppendRound, shift
  <1>2. PICK n : Runs(n)
    BY <1>1, SomeCall
  <1>3. /\ start \in Nat /\ text \in Seq(Bit) /\ Len(text) = start /\ round \in Nat
        /\ data \in [0 .. job.size -> Byte] /\ job.size \in Nat
        /\ \A p \in 0 .. start - 1 : BitAt(data, p) = text[p + 1]
    BY <1>1, TheJob DEF AppendsInv, AppendsTypeOK, TextSoFar
  <1>4. /\ n \in Nat /\ n > 0 /\ call.in \in [0 .. n - 1 -> Byte] /\ call.tag \in BOOLEAN
        /\ call.bits = 8 * n /\ bytes = n
    <2>1. call.bits = 8 * n
      BY <1>1, <1>2 DEF Runs, bytes
    <2> QED
      BY <1>2, <2>1 DEF Runs, bytes
  <1>5. /\ start \div 8 + round < job.size
        /\ data' = AppendByte(data, call.in, start, round, call.tag)
        /\ job' = job
        /\ IF round + 1 < bytes
           THEN round' = round + 1 /\ UNCHANGED <<start, calls, pc, text>>
           ELSE /\ text' = text \o TextOf(call.in, call.bits)
                           \o (IF call.tag THEN Completion ELSE << >>)
                /\ Return(call.bits + IF call.tag THEN 8 - shift ELSE 0)
    <2>1. ~(start \div 8 + round >= job.size)
      BY DEF AppendRound, Thrown
    <2>2. start \div 8 + round < job.size
      BY <1>3, <2>1
    <2> QED
      BY <2>2, Zenon DEF AppendRound, Thrown
  <1>6. /\ round < n
        /\ Holds(data, call.in, start, 8 * round - (start % 8))
    <2>1. CASE round = 0
      <3>1. 0 .. 8 * round - (start % 8) - 1 = {}
        BY <1>1, <1>3, <2>1
      <3> QED
        BY <1>4, <2>1, <3>1 DEF Holds
    <2>2. CASE round > 0
      BY <1>1, <1>3, <1>4, <2>2 DEF AppendsInv, TextSoFar, call
    <2> QED
      BY <1>3, <2>1, <2>2
  <1>7. /\ data' \in [0 .. job.size -> Byte]
        /\ \A p \in 0 .. start - 1 : BitAt(data', p) = BitAt(data, p)
        /\ Holds(data', call.in, start, 8 * (round + 1) - (start % 8))
        /\ round + 1 = n =>
             /\ Holds(data', call.in, start, 8 * n)
             /\ \A p \in start + 8 * n .. 8 * (start \div 8 + n + 1) - 1 :
                  BitAt(data', p) = IF p = start + 8 * n /\ call.tag THEN 1 ELSE 0
    <2>1. round \in 0 .. n - 1
      BY <1>3, <1>4, <1>6
    <2>2. RoundBrings(data', job.size, data, n, call.in, start, round, call.tag)
      BY <1>1, <1>3, <1>4, <1>5, <1>6, <2>1, RoundBits
    <2> QED
      BY <2>2 DEF RoundBrings
  <1>8. CASE round + 1 < n
    <2>1. round' = round + 1 /\ UNCHANGED <<start, calls, pc, text>>
      BY <1>4, <1>5, <1>8
    <2>2. call' = call
      BY <2>1 DEF call
    <2>3. TextSoFar'
      <3>1. Len(text') = start' /\ \A p \in 0 .. start' - 1 : BitAt(data', p) = text'[p + 1]
        BY <1>3, <1>7, <2>1
      <3>2. start' % 8 # 0 /\ calls' # << >> /\ 8 * round' < Head(calls').bits
        BY <1>1, <1>2, <1>3, <1>4, <1>8, <2>1 DEF Runs, call
      <3>3. Holds(data', Head(calls').in, start', 8 * round' - (start' % 8))
        BY <1>7, <2>1 DEF call
      <3> QED
        BY <3>1, <3>2, <3>3 DEF TextSoFar
    <2>4. Middle
      BY <1>3, <1>5, <1>7, <2>1, <2>3 DEF Middle
    <2> QED
      BY <1>1, <1>2, <1>4, <2>4
  <1>9. CASE round + 1 = n
    <2> DEFINE more == IF call.tag THEN 8 - (start % 8) ELSE 0
    <2>1. /\ text' = text \o TextOf(call.in, call.bits) \o (IF call.tag THEN Completion ELSE << >>)
          /\ Return(call.bits + more)
      <3>1. ~(round + 1 < bytes)
        BY <1>3, <1>4, <1>9
      <3> QED
        BY <1>5, <3>1, Zenon DEF shift
    <2>2. more \in Nat /\ call.bits \in 0 .. 8 * n
      BY <1>1, <1>3, <1>4
    <2>3. Extends(call.in, call.bits, more)
      <3>1. CASE call.tag
        <4>1. text' = text \o TextOf(call.in, call.bits) \o Completion /\ more = 8 - (start % 8)
          BY <2>1, <3>1, Zenon
        <4> QED
          BY <1>1, <1>3, <1>4, <2>2, <4>1, TaggedText
      <3>2. CASE ~call.tag
        <4>1. text' = text \o TextOf(call.in, call.bits) \o << >> /\ more = 0
          BY <2>1, <3>2, Zenon
        <4>2. TextOf(call.in, call.bits) \in Seq(Bit)
          BY <1>4, <2>2, TextOfBytes
        <4>3. text \o TextOf(call.in, call.bits) \in Seq(Bit)
          BY <1>3, <4>2, Concat
        <4>4. \A s \in Seq(Bit) : s \o << >> = s
          OBVIOUS
        <4>5. text' = text \o TextOf(call.in, call.bits)
          BY <4>1, <4>3, <4>4
        <4> QED
          BY <1>3, <1>4, <2>2, <4>1, <4>5, PlainText
      <3> QED
        BY <3>1, <3>2
    <2>4. start' = start + 8 * n + more /\ round' = 0 /\ calls' = Tail(calls)
          /\ pc' = IF Tail(calls) = << >> THEN "done" ELSE "append"
      BY <1>3, <1>4, <2>1, <2>2 DEF Return
    <2>5. \A p \in start + 8 * n .. start + 8 * n + more - 1 :
            BitAt(data', p) = IF p = start + 8 * n THEN 1 ELSE 0
      <3>1. CASE call.tag
        <4>1. start + 8 * n + more - 1 = 8 * (start \div 8 + n + 1) - 1
          BY <1>3, <1>4, <3>1
        <4> QED
          BY <1>7, <1>9, <3>1, <4>1
      <3>2. CASE ~call.tag
        BY <1>3, <1>4, <3>2
      <3> QED
        BY <3>1, <3>2
    <2>6. TextSoFar'
      <3>1. 8 * n \in Nat /\ Extends(call.in, 8 * n, more) /\ Holds(data', call.in, start, 8 * n)
        BY <1>4, <1>7, <1>9, <2>3
      <3>2. pc # "thrown"
        BY <1>1
      <3> HIDE DEF more
      <3> QED
        BY <1>7, <2>2, <2>4, <2>5, <3>1, <3>2, TextStands
    <2>7. Over(8 * n, more)
      BY <1>4, <1>5, <1>7, <2>3, <2>4, <2>6 DEF Over
    <2>8. start \div 8 + n <= job.size
      BY <1>3, <1>4, <1>5, <1>9
    <2>9. Last(n)
      BY <1>7, <1>9, <2>7, <2>8 DEF Last
    <2> QED
      BY <1>1, <1>2, <1>4, <2>9
  <1> QED
    BY <1>3, <1>4, <1>6, <1>8, <1>9


-----------------------------------------------------------------------------
(***************************************************************************)
(* The invariant.                                                          *)
(***************************************************************************)
LEMMA AppendsStart == AppendsInit => AppendsInv
  <1> SUFFICES ASSUME AppendsInit PROVE AppendsInv
    OBVIOUS
  <1> USE DEF AppendsInit
  <1>1. JobOK
    BY JobsAssumption DEF JobOK
  <1> DEFINE n == job.size + 1
  <1>2. /\ job.size \in Nat /\ job.buffer \in [0 .. job.size -> Byte]
        /\ job.start \in Nat /\ job.start <= 8 * job.size
    <2>1. CASE IsRootJob(job)
      <3>1. /\ job.start = 0 /\ job.size \in Nat /\ job.buffer \in [0 .. job.size -> Byte]
        BY <2>1, RootFacts, Zenon
      <3> QED
        BY <3>1
    <2>2. CASE IsKeyJob(job)
      <3>1. /\ job.size \in Nat /\ job.buffer \in [0 .. job.size -> Byte]
            /\ job.start \in Nat /\ job.start + 256 <= 8 * job.size
        BY <2>2, KeyFacts, Zenon
      <3> QED
        BY <3>1
    <2> QED
      BY <1>1, <2>1, <2>2 DEF JobOK
  <1>3. n \in Nat /\ 0 .. n - 1 = 0 .. job.size /\ job.start \in 0 .. 8 * n
    BY <1>2
  <1>4. /\ text \in Seq(Bit) /\ Len(text) = job.start
        /\ \A p \in 0 .. job.start - 1 : text[p + 1] = BitAt(job.buffer, p)
    <2> HIDE DEF n
    <2>1. job.buffer \in [0 .. n - 1 -> Byte]
      BY <1>2, <1>3
    <2> QED
      BY <1>3, <2>1, TextOfBytes
  <1>5. AppendsTypeOK
    BY <1>2, <1>4 DEF AppendsTypeOK
  <1>6. TextSoFar
    BY <1>4 DEF TextSoFar
  <1>7. CASE IsRootJob(job)
    <2>1. job.kind = "root" /\ job.start = 0
          /\ job.calls = <<job.calls[1], job.calls[2], job.calls[3], job.calls[4]>>
      BY <1>7, RootFacts
    <2>2. RootProgress
      BY <2>1 DEF RootProgress
    <2> QED
      BY <1>5, <1>6, <2>1, <2>2 DEF AppendsInv, Progress
  <1>8. CASE IsKeyJob(job)
    <2>1. job.kind # "root" /\ job.calls = <<job.calls[1]>>
      BY <1>8, KeyFacts
    <2>2. \A p \in 0 .. start - 1 : text[p + 1] = KeyBit(p)
      BY <1>2, <1>4 DEF KeyBit
    <2>3. KeyProgress
      BY <2>1, <2>2 DEF KeyProgress
    <2> QED
      BY <1>5, <1>6, <2>1, <2>3 DEF AppendsInv, Progress
  <1> QED
    BY <1>1, <1>7, <1>8 DEF JobOK

LEMMA ThrownKeeps ==
  ASSUME AppendsInv, Thrown, job' = job
  PROVE  AppendsInv'
  BY DEF AppendsInv, AppendsTypeOK, TextSoFar, Progress, Thrown

LEMMA RootText ==
  ASSUME NEW bits \in Nat, start \in Nat, job' = job,
         \A p \in 0 .. start - 1 : text[p + 1] = RootBit(p),
         \A p \in start .. start + bits - 1 : RootBit(p) = BitAt(call.in, p - start),
         Extends(call.in, bits, 0), start' = start + bits + 0
  PROVE  \A p \in 0 .. start' - 1 : text'[p + 1] = RootBit(p)'
  <1>0. \A p \in 0 .. start' - 1 : RootBit(p)' = RootBit(p)
    BY Zenon DEF RootBit
  <1> SUFFICES ASSUME NEW p \in 0 .. start' - 1 PROVE text'[p + 1] = RootBit(p)
    BY <1>0, Zenon
  <1>1. CASE p < start
    <2>1. p \in 0 .. start - 1
      BY <1>1
    <2> QED
      BY <2>1 DEF Extends
  <1>2. CASE p >= start
    <2>1. p - start \in 0 .. bits - 1 /\ start + (p - start) = p /\ p \in start .. start + bits - 1
      BY <1>2
    <2>2. text'[start + (p - start) + 1] = BitAt(call.in, p - start)
      BY <2>1 DEF Extends
    <2> QED
      BY <2>1, <2>2
  <1> QED
    BY <1>1, <1>2

LEMMA RootOver ==
  ASSUME AppendsInv, pc = "append", IsRootJob(job), NEW n, Runs(n), Over(call.bits, 0),
         start % 8 # 0 => /\ start \div 8 + n <= job.size
                          /\ \A p \in start + 8 * n .. 8 * (start \div 8 + n + 1) - 1 :
                               BitAt(data', p) = 0
  PROVE  RootProgress' /\ pc' # "thrown"
  <1> DEFINE c == job.calls
             full == Cell_get_data_size(job.cell)
  <1>1. /\ IsCall(c[1], OneByte(Prefix), 3, FALSE) /\ IsCall(c[2], c[2].in, 8, FALSE)
        /\ IsCall(c[3], c[3].in, 256, FALSE) /\ IsCall(c[4], job.cell.data, 8 * full, FALSE)
        /\ job.kind = "root" /\ job.size \in Nat /\ full \in Nat /\ full > 0
    <2>1. full \in Nat /\ full > 0
      BY CellFacts DEF IsRootJob
    <2> QED
      BY <2>1, RootFacts, Zenon
  <1>2. RootProgress
    BY <1>1 DEF AppendsInv, Progress
  <1>3. /\ job' = job /\ start' = start + call.bits + 0 /\ calls' = Tail(calls)
        /\ pc' = IF Tail(calls) = << >> THEN "done" ELSE "append"
        /\ Extends(call.in, call.bits, 0)
    BY DEF Over
  <1>4. start \in Nat /\ \A p \in 0 .. start - 1 : text[p + 1] = RootBit(p)
    BY <1>2 DEF AppendsInv, AppendsTypeOK, RootProgress
  <1>5. pc' # "thrown"
    BY <1>3
  <1> HIDE DEF c, full
  <1>6. CASE calls = <<c[1], c[2], c[3], c[4]>> /\ start = 0
    <2>1. call = c[1] /\ calls' = <<c[2], c[3], c[4]>> /\ Tail(calls) # << >>
      BY <1>3, <1>6, Tuple4 DEF call
    <2>2. call.bits = 3 /\ start' = 3 /\ pc' = "append"
      BY <1>1, <1>3, <1>6, <2>1 DEF IsCall
    <2>3. \A p \in start .. start + 3 - 1 : RootBit(p) = BitAt(call.in, p - start)
      BY <1>6, <2>1 DEF RootBit, c
    <2>4. \A p \in 0 .. start' - 1 : text'[p + 1] = RootBit(p)'
      <3>1. 3 \in Nat /\ start' = start + 3 + 0 /\ Extends(call.in, 3, 0)
        BY <1>3, <2>2
      <3>2. start \in Nat /\ job' = job /\ \A p \in 0 .. start - 1 : text[p + 1] = RootBit(p)
        BY <1>3, <1>4
      <3> QED
        BY <2>3, <3>1, <3>2, RootText
    <2> QED
      BY <1>3, <1>5, <2>1, <2>2, <2>4, Zenon DEF RootProgress, c
  <1>7. CASE calls = <<c[2], c[3], c[4]>> /\ start = 3
    <2>1. call = c[2] /\ calls' = <<c[3], c[4]>> /\ Tail(calls) # << >>
      BY <1>3, <1>7, Tuple4 DEF call
    <2>2. call.bits = 8 /\ start' = 11 /\ pc' = "append"
      BY <1>1, <1>3, <1>7, <2>1 DEF IsCall
    <2>3. \A p \in start .. start + 8 - 1 : RootBit(p) = BitAt(call.in, p - start)
      BY <1>7, <2>1 DEF RootBit, c
    <2>4. \A p \in 0 .. start' - 1 : text'[p + 1] = RootBit(p)'
      <3>1. 8 \in Nat /\ start' = start + 8 + 0 /\ Extends(call.in, 8, 0)
        BY <1>3, <2>2
      <3>2. start \in Nat /\ job' = job /\ \A p \in 0 .. start - 1 : text[p + 1] = RootBit(p)
        BY <1>3, <1>4
      <3> QED
        BY <2>3, <3>1, <3>2, RootText
    <2> QED
      BY <1>3, <1>5, <2>1, <2>2, <2>4, Zenon DEF RootProgress, c
  <1>8. CASE calls = <<c[3], c[4]>> /\ start = 11
    <2>1. call = c[3] /\ calls' = <<c[4]>> /\ Tail(calls) # << >>
      BY <1>3, <1>8, Tuple4 DEF call
    <2>2. call.bits = 256 /\ start' = 267 /\ pc' = "append"
      BY <1>1, <1>3, <1>8, <2>1 DEF IsCall
    <2>3. \A p \in start .. start + 256 - 1 : RootBit(p) = BitAt(call.in, p - start)
      BY <1>8, <2>1 DEF RootBit, c
    <2>4. \A p \in 0 .. start' - 1 : text'[p + 1] = RootBit(p)'
      <3>1. 256 \in Nat /\ start' = start + 256 + 0 /\ Extends(call.in, 256, 0)
        BY <1>3, <2>2
      <3>2. start \in Nat /\ job' = job /\ \A p \in 0 .. start - 1 : text[p + 1] = RootBit(p)
        BY <1>3, <1>4
      <3> QED
        BY <2>3, <3>1, <3>2, RootText
    <2> QED
      BY <1>3, <1>5, <2>1, <2>2, <2>4, Zenon DEF RootProgress, c
  <1>9. CASE calls = <<c[4]>> /\ start = 267
    <2>1. call = c[4] /\ calls' = << >> /\ Tail(calls) = << >>
      BY <1>3, <1>9, Tuple4 DEF call
    <2>2. call.bits = 8 * full /\ start' = 267 + 8 * full /\ pc' = "done"
      BY <1>1, <1>3, <1>9, <2>1 DEF IsCall
    <2>3. \A p \in start .. start + 8 * full - 1 : RootBit(p) = BitAt(call.in, p - start)
      BY <1>1, <1>9, <2>1 DEF RootBit, c
    <2>4. \A p \in 0 .. start' - 1 : text'[p + 1] = RootBit(p)'
      <3> DEFINE bits == 8 * full
      <3>1. bits \in Nat
        BY <1>1
      <3>2. call.bits = bits /\ start' = start + bits + 0 /\ Extends(call.in, bits, 0)
        BY <1>3, <2>2
      <3>3. \A p \in start .. start + bits - 1 : RootBit(p) = BitAt(call.in, p - start)
        BY <2>3
      <3> HIDE DEF bits
      <3>4. start \in Nat /\ job' = job /\ \A p \in 0 .. start - 1 : text[p + 1] = RootBit(p)
        BY <1>3, <1>4
      <3> QED
        BY <3>1, <3>2, <3>3, <3>4, RootText, Zenon
    <2>5. n = full /\ start % 8 # 0 /\ start \div 8 = 33
      BY <1>1, <1>9, <2>2 DEF Runs
    <2>6. 33 + full <= job.size
      BY <2>5
    <2>7. \A p \in start' .. start' + 4 : BitAt(data', p) = 0
      BY <1>1, <1>9, <2>2, <2>5
    <2>8. full' = full
      BY <1>3 DEF full
    <2> QED
      BY <1>3, <1>5, <2>1, <2>2, <2>4, <2>6, <2>7, <2>8, Zenon DEF RootProgress, full
  <1> QED
    BY <1>2, <1>6, <1>7, <1>8, <1>9, Zenon DEF RootProgress, c

LEMMA KeyOver ==
  ASSUME AppendsInv, pc = "append", IsKeyJob(job), NEW n, Runs(n),
         \/ start % 8 = 0 /\ Over(call.bits, 0)
         \/ start % 8 # 0 /\ Over(call.bits, 8 - (start % 8)) /\ start \div 8 + n <= job.size
  PROVE  KeyProgress' /\ pc' # "thrown"
  <1> DEFINE more == IF start % 8 = 0 THEN 0 ELSE 8 - (start % 8)
             end == IF job.start % 8 = 0 THEN job.start + 256 ELSE 8 * (job.start \div 8 + 33)
  <1>1. job.kind # "root" /\ job.size \in Nat /\ job.start \in Nat
        /\ job.start + 256 <= 8 * job.size /\ IsCall(job.calls[1], job.calls[1].in, 256, TRUE)
    BY KeyFacts
  <1>2. KeyProgress
    BY <1>1 DEF AppendsInv, Progress
  <1>3. calls = <<job.calls[1]>> /\ start = job.start
        /\ \A p \in 0 .. start - 1 : text[p + 1] = KeyBit(p)
    BY <1>2 DEF KeyProgress
  <1>4. call = job.calls[1] /\ Tail(calls) = << >>
    BY <1>3, Tuple4 DEF call
  <1>5. call.bits = 256
    BY <1>1, <1>4 DEF IsCall
  <1>6. n = 32
    BY <1>5 DEF Runs
  <1>7. Over(256, more)
    BY <1>5
  <1>8. /\ job' = job /\ start' = start + 256 + more /\ calls' = << >> /\ pc' = "done"
        /\ Extends(call.in, 256, more)
    BY <1>4, <1>7 DEF Over
  <1>9. start' = end /\ end <= 8 * job.size + 8 /\ more \in Nat /\ start' \in Nat
    <2>1. CASE start % 8 = 0
      <3>1. more = 0 /\ end = start + 256 /\ start' = start + 256 + 0
        BY <1>3, <1>8, <2>1, Zenon
      <3> HIDE DEF more, end
      <3> QED
        BY <1>1, <1>3, <3>1
    <2>2. CASE start % 8 # 0
      <3>1. start \div 8 + 32 <= job.size
        BY <1>6, <2>2
      <3>2. more = 8 - (start % 8) /\ end = 8 * (start \div 8 + 33)
            /\ start' = start + 256 + (8 - (start % 8))
        BY <1>3, <1>8, <2>2, Zenon
      <3> HIDE DEF more, end
      <3>3. start \in Nat /\ job.size \in Nat
        BY <1>1, <1>3
      <3>4. PICK q \in Nat, r \in 0 .. 7 : start = 8 * q + r
        BY <3>3, Divided
      <3>5. start \div 8 = q /\ start % 8 = r
        BY <3>4, Place
      <3>6. more = 8 - r /\ end = 8 * (q + 33) /\ start' = start + 256 + (8 - r)
            /\ q + 32 <= job.size
        BY <3>1, <3>2, <3>5
      <3> QED
        BY <3>3, <3>4, <3>6
    <2> QED
      BY <2>1, <2>2
  <1>13. start \in Nat /\ start' \in Nat /\ more \in Nat /\ start' = start + 256 + more
    BY <1>1, <1>3, <1>8, <1>9
  <1>10. ASSUME NEW p \in 0 .. start' - 1
         PROVE  text'[p + 1] = KeyBit(p)
    <2> HIDE DEF more, end
    <2>1. CASE p < start
      <3>1. p \in 0 .. start - 1
        BY <1>1, <1>3, <2>1
      <3> QED
        BY <1>3, <1>8, <3>1 DEF Extends
    <2>2. CASE p >= start /\ p < start + 256
      <3>1. p - start \in 0 .. 256 - 1 /\ start + (p - start) = p
        BY <1>13, <2>2
      <3>2. text'[start + (p - start) + 1] = BitAt(call.in, p - start)
        BY <1>8, <3>1 DEF Extends
      <3>3. KeyBit(p) = BitAt(call.in, p - start)
        BY <1>1, <1>3, <1>4, <2>2 DEF KeyBit
      <3> QED
        BY <3>1, <3>2, <3>3
    <2>3. CASE p >= start + 256
      <3> DEFINE d == p - (start + 256)
      <3>1. d \in 0 .. more - 1 /\ start + 256 + d = p /\ (d = 0 <=> p = start + 256)
        BY <1>13, <2>3
      <3>4. \A i \in 0 .. more - 1 : text'[start + 256 + i + 1] = IF i = 0 THEN 1 ELSE 0
        BY <1>8, Zenon DEF Extends
      <3> HIDE DEF d
      <3>2. text'[start + 256 + d + 1] = IF d = 0 THEN 1 ELSE 0
        <4>1. d \in 0 .. more - 1
          BY <3>1
        <4> QED
          BY <3>4, <4>1, SMT
      <3>3. KeyBit(p) = IF p = start + 256 THEN 1 ELSE 0
        BY <1>1, <1>3, <2>3 DEF KeyBit
      <3> QED
        BY <3>1, <3>2, <3>3
    <2> QED
      BY <1>1, <1>3, <2>1, <2>2, <2>3
  <1>11. \A p \in 0 .. start' - 1 : text'[p + 1] = KeyBit(p)'
    BY <1>8, <1>10 DEF KeyBit
  <1>12. job'.start = job.start /\ job'.size = job.size
    BY <1>8
  <1> QED
    BY <1>8, <1>9, <1>11, <1>12 DEF KeyProgress

LEMMA OverKeeps ==
  ASSUME AppendsInv, pc = "append", NEW n, Runs(n),
         \/ /\ Over(call.bits, 0) /\ start % 8 = 0
         \/ start % 8 # 0 /\ call.bits = 8 * n /\ Last(n)
  PROVE  AppendsInv'
  <1> DEFINE more == IF start % 8 # 0 /\ call.tag THEN 8 - (start % 8) ELSE 0
  <1>1. Over(call.bits, more)
    BY Zenon DEF Last
  <1> HIDE DEF more
  <1>2. AppendsTypeOK'
    <2>1. start' \in Nat
      <3>1. start \in Nat /\ call.bits \in Nat /\ more \in Nat
        BY DEF AppendsInv, AppendsTypeOK, Runs, more
      <3> QED
        BY <1>1, <3>1 DEF Over
    <2> QED
      BY <1>1, <2>1 DEF AppendsInv, AppendsTypeOK, Over, Extends
  <1>3. TextSoFar' /\ job' = job
    BY <1>1 DEF Over
  <1>4. CASE IsRootJob(job)
    <2>1. ~call.tag
      <3> DEFINE c == job.calls
      <3>1. /\ c[1].tag = FALSE /\ c[2].tag = FALSE /\ c[3].tag = FALSE /\ c[4].tag = FALSE
            /\ job.kind = "root"
        BY <1>4, RootFacts DEF IsCall
      <3>2. RootProgress
        BY <3>1 DEF AppendsInv, Progress
      <3> HIDE DEF c
      <3>3. call \in {c[1], c[2], c[3], c[4]}
        BY <3>2, Tuple4 DEF RootProgress, call, c
      <3> QED
        BY <3>1, <3>3
    <2>2. more = 0
      BY <2>1 DEF more
    <2>3. start % 8 # 0 => /\ start \div 8 + n <= job.size
                           /\ \A p \in start + 8 * n .. 8 * (start \div 8 + n + 1) - 1 :
                                BitAt(data', p) = 0
      BY <2>1, Zenon DEF Last
    <2>4. RootProgress' /\ pc' # "thrown"
      BY <1>1, <1>4, <2>2, <2>3, RootOver
    <2>5. job.kind = "root"
      BY <1>4, RootFacts
    <2> QED
      BY <1>2, <1>3, <2>4, <2>5 DEF AppendsInv, Progress
  <1>5. CASE IsKeyJob(job)
    <2>1. job.kind # "root" /\ job.calls = <<job.calls[1]>>
          /\ IsCall(job.calls[1], job.calls[1].in, 256, TRUE)
      BY <1>5, KeyFacts
    <2>2. call.tag
      <3>1. calls = <<job.calls[1]>>
        BY <2>1 DEF AppendsInv, Progress, KeyProgress
      <3>2. call = job.calls[1]
        BY <3>1, Tuple4 DEF call
      <3> QED
        BY <2>1, <3>2 DEF IsCall
    <2>3. \/ start % 8 = 0 /\ Over(call.bits, 0)
          \/ start % 8 # 0 /\ Over(call.bits, 8 - (start % 8)) /\ start \div 8 + n <= job.size
      BY <2>2, Zenon DEF Last
    <2>4. KeyProgress' /\ pc' # "thrown"
      BY <1>5, <2>3, KeyOver
    <2> QED
      BY <1>2, <1>3, <2>1, <2>4 DEF AppendsInv, Progress
  <1> QED
    BY <1>4, <1>5, TheJob DEF JobOK

LEMMA MiddleKeeps ==
  ASSUME AppendsInv, pc = "append", Middle
  PROVE  AppendsInv'
  <1>1. UNCHANGED <<job, start, calls, pc, text>> /\ TextSoFar'
    BY DEF Middle
  <1>2. AppendsTypeOK'
    BY DEF AppendsInv, AppendsTypeOK, Middle
  <1>3. CASE job.kind = "root"
    <2>1. RootProgress
      BY <1>3 DEF AppendsInv, Progress
    <2>2. RootProgress'
      BY <1>1, <2>1 DEF RootProgress, RootBit
    <2> QED
      BY <1>1, <1>2, <1>3, <2>2 DEF AppendsInv, Progress
  <1>4. CASE job.kind # "root"
    <2>1. KeyProgress
      BY <1>4 DEF AppendsInv, Progress
    <2>2. KeyProgress'
      BY <1>1, <2>1 DEF KeyProgress, KeyBit
    <2> QED
      BY <1>1, <1>2, <1>4, <2>2 DEF AppendsInv, Progress
  <1> QED
    BY <1>3, <1>4


LEMMA AppendsKept == AppendsInv /\ [AppendsNext]_appends => AppendsInv'
  <1> SUFFICES ASSUME AppendsInv, [AppendsNext]_appends PROVE AppendsInv'
    OBVIOUS
  <1>1. CASE CopyAligned
    <2>1. pc = "append" /\ job' = job
      BY <1>1 DEF CopyAligned
    <2>2. CASE pc' # "thrown"
      BY <1>1, <2>1, <2>2, CopyStep, OverKeeps
    <2>3. CASE pc' = "thrown"
      <3>1. Thrown
        BY <1>1, <2>3, Zenon DEF CopyAligned, Return
      <3> QED
        BY <2>1, <3>1, ThrownKeeps
    <2> QED
      BY <2>2, <2>3
  <1>2. CASE AppendRound
    <2>1. pc = "append" /\ job' = job
      BY <1>2 DEF AppendRound
    <2>2. CASE pc' # "thrown"
      <3>1. PICK n : Runs(n) /\ start % 8 # 0 /\ call.bits = 8 * n /\ (Middle \/ Last(n))
        BY <1>2, <2>2, RoundStep
      <3> QED
        BY <2>1, <3>1, MiddleKeeps, OverKeeps
    <2>3. CASE pc' = "thrown"
      <3>1. Thrown
        <4>1. pc' = pc => pc' # "thrown"
          BY <2>1
        <4> QED
          BY <1>2, <2>3, <4>1, Zenon DEF AppendRound, Return
      <3> QED
        BY <2>1, <3>1, ThrownKeeps
    <2> QED
      BY <2>2, <2>3
  <1>3. CASE UNCHANGED appends
    <2>1. UNCHANGED <<job, data, start, calls, round, pc, text>>
      BY <1>3 DEF appends
    <2> QED
      BY <2>1 DEF AppendsInv, AppendsTypeOK, TextSoFar, Progress, RootProgress, KeyProgress,
            RootBit, KeyBit, Holds
  <1> QED
    BY <1>1, <1>2, <1>3 DEF AppendsNext

-----------------------------------------------------------------------------
(***************************************************************************)
(* The cell that is built.                                                 *)
(***************************************************************************)
LEMMA Highest ==
  ASSUME NEW m \in Nat, NEW S \in SUBSET (0 .. m), S # {}
  PROVE  Max(S) \in S /\ \A k \in S : k <= Max(S)
  <1> DEFINE T == {j \in Nat : m - j \in S}
  <1>1. PICK k \in S : TRUE
    OBVIOUS
  <1>2. m - k \in T
    <2>1. m - k \in Nat /\ m - (m - k) = k
      OBVIOUS
    <2> QED
      BY <2>1
  <1>3. PICK low \in T : \A j \in T : low <= j
    BY <1>2, LeastNumber
  <1>4. m - low \in S
    BY <1>3
  <1>5. ASSUME NEW j \in S
        PROVE  j <= m - low
    <2>1. m - j \in Nat /\ m - (m - j) = j
      OBVIOUS
    <2>2. m - j \in T
      BY <2>1
    <2>3. low <= m - j /\ low \in Nat
      BY <1>3, <2>2
    <2> QED
      BY <2>1, <2>3
  <1>6. \E x \in S : \A y \in S : x >= y
    <2> DEFINE x == m - low
    <2>1. \A y \in S : x >= y
      BY <1>3, <1>5
    <2> QED
      BY <1>4, <2>1
  <1>7. Max(S) \in S /\ \A y \in S : Max(S) >= y
    BY <1>6 DEF Max
  <1> QED
    BY <1>7

LEMMA TaggedLength ==
  ASSUME NEW cell, cell.tagged, NEW n \in Nat, Cell_get_data_size(cell) = n,
         NEW k \in 0 .. 8 * n - 1, BitAt(cell.data, k) = 1,
         \A p \in k + 1 .. 8 * n - 1 : BitAt(cell.data, p) # 1
  PROVE  Cell_bit_len(cell) = k
  <1> DEFINE S == {p \in 0 .. 8 * n - 1 : BitAt(cell.data, p) = 1}
  <1>1. k \in S /\ S # {} /\ S \in SUBSET (0 .. 8 * n)
    OBVIOUS
  <1>2. Cell_bit_len(cell) = Max(S)
    BY <1>1 DEF Cell_bit_len
  <1>3. \A p \in S : p <= k
    OBVIOUS
  <1> HIDE DEF S
  <1>4. 8 * n \in Nat
    OBVIOUS
  <1>5. Max(S) \in S /\ k <= Max(S)
    BY <1>1, <1>4, Highest
  <1>6. Max(S) <= k /\ Max(S) \in 0 .. 8 * n
    BY <1>1, <1>3, <1>5
  <1> QED
    BY <1>2, <1>5, <1>6

LEMMA TagOfCell ==
  ASSUME NEW cell, IsCell(cell), HasTag(cell), NEW n, n = Cell_get_data_size(cell)
  PROVE  /\ Cell_bit_len(cell) \in 0 .. 8 * n - 1
         /\ BitAt(cell.data, Cell_bit_len(cell)) = 1
         /\ \A p \in Cell_bit_len(cell) + 1 .. 8 * n - 1 : BitAt(cell.data, p) = 0
  <1> DEFINE S == {p \in 0 .. 8 * n - 1 : BitAt(cell.data, p) = 1}
             k == Max(S)
  <1>1. n \in Nat /\ cell.data \in [0 .. n - 1 -> Byte]
    BY CellFacts
  <1>2. S # {} /\ S \in SUBSET (0 .. 8 * n)
    BY <1>1 DEF HasTag
  <1>3. cell.tagged
    BY DEF HasTag
  <1>4. Cell_bit_len(cell) = k
    BY <1>2, <1>3 DEF Cell_bit_len
  <1>5. k \in S /\ \A j \in S : j <= k
    <2> HIDE DEF S
    <2>1. 8 * n \in Nat
      BY <1>1
    <2> QED
      BY <1>2, <2>1, Highest
  <1> HIDE DEF k
  <1>6. ASSUME NEW p \in k + 1 .. 8 * n - 1
        PROVE  BitAt(cell.data, p) = 0
    <2>1. p \in 0 .. 8 * n - 1 /\ ~(p <= k) /\ k \in 0 .. 8 * n - 1
      BY <1>1, <1>5
    <2>2. BitAt(cell.data, p) \in Bit
      BY <1>1, <2>1, BitOfBytes
    <2> QED
      BY <1>5, <2>1, <2>2 DEF Bit
  <1> QED
    BY <1>4, <1>5, <1>6

\* A sequence is the text of bytes that have its bits.
LEMMA TextIs ==
  ASSUME NEW s \in Seq(Bit), NEW array, \A p \in 0 .. Len(s) - 1 : BitAt(array, p) = s[p + 1]
  PROVE  TextOf(array, Len(s)) = s
  <1>1. Len(s) \in Nat /\ s = [p \in 1 .. Len(s) |-> s[p]]
    OBVIOUS
  <1>2. ASSUME NEW p \in 1 .. Len(s)
        PROVE  BitAt(array, p - 1) = s[p]
    <2>1. p - 1 \in 0 .. Len(s) - 1 /\ (p - 1) + 1 = p
      BY <1>1
    <2> QED
      BY <2>1
  <1>3. TextOf(array, Len(s)) = [p \in 1 .. Len(s) |-> BitAt(array, p - 1)]
    BY DEF TextOf
  <1>4. [p \in 1 .. Len(s) |-> BitAt(array, p - 1)] = [p \in 1 .. Len(s) |-> s[p]]
    BY <1>2
  <1> QED
    BY <1>1, <1>3, <1>4

\* u is s, of m bits, with t, of n bits, behind it.
Joins(u, s, t, m, n) ==
  /\ u \in Seq(Bit) /\ Len(u) = m + n
  /\ \A p \in 0 .. m - 1 : u[p + 1] = s[p + 1]
  /\ \A p \in 0 .. n - 1 : u[m + p + 1] = t[p + 1]

LEMMA ConcatJoins ==
  ASSUME NEW s \in Seq(Bit), NEW t \in Seq(Bit), NEW m \in Nat, NEW n \in Nat,
         Len(s) = m, Len(t) = n
  PROVE  Joins(s \o t, s, t, m, n)
  <1>1. /\ s \o t \in Seq(Bit) /\ Len(s \o t) = Len(s) + Len(t)
        /\ \A p \in 0 .. Len(s) - 1 : (s \o t)[p + 1] = s[p + 1]
        /\ \A p \in 0 .. Len(t) - 1 : (s \o t)[Len(s) + p + 1] = t[p + 1]
    BY Concat
  <1> DEFINE u == s \o t
  <1>2. /\ u \in Seq(Bit) /\ Len(u) = m + n
        /\ \A p \in 0 .. Len(s) - 1 : u[p + 1] = s[p + 1]
        /\ \A p \in 0 .. Len(t) - 1 : u[Len(s) + p + 1] = t[p + 1]
    BY <1>1, Zenon
  <1> HIDE DEF u
  <1>3. Joins(u, s, t, m, n)
    BY <1>2 DEF Joins
  <1> QED
    BY <1>3 DEF u


Shows(t, in, n) ==
  t \in Seq(Bit) /\ Len(t) = n /\ \A p \in 0 .. n - 1 : t[p + 1] = BitAt(in, p)

LEMMA TextShows ==
  ASSUME NEW n \in Nat, NEW in \in [0 .. n - 1 -> Byte], NEW bits \in 0 .. 8 * n
  PROVE  Shows(TextOf(in, bits), in, bits)
  <1> DEFINE t == TextOf(in, bits)
  <1>1. t \in Seq(Bit) /\ Len(t) = bits /\ \A p \in 0 .. bits - 1 : t[p + 1] = BitAt(in, p)
    BY TextOfBytes
  <1> HIDE DEF t
  <1>2. Shows(t, in, bits)
    BY <1>1, Zenon DEF Shows
  <1> QED
    BY <1>2 DEF t

LEMMA RootParts ==
  ASSUME IsRootJob(job), Fits
  PROVE  LET L == Cell_bit_len(job.cell)
         IN  /\ L \in 0 .. 8 * Cell_get_data_size(job.cell) - 1 /\ L + 267 < 1024
             /\ Parts \in Seq(Bit) /\ Len(Parts) = L + 267
             /\ \A p \in 0 .. L + 267 - 1 : Parts[p + 1] = RootBit(p)
  <1> DEFINE L == Cell_bit_len(job.cell)
             full == Cell_get_data_size(job.cell)
             c == job.calls
             t1 == <<1, 0, 0>>
             t2 == TextOf(c[2].in, 8)
             t3 == TextOf(c[3].in, 256)
             t4 == TextOf(job.cell.data, L)
  <1>1. /\ job.kind = "root" /\ IsCall(c[1], OneByte(Prefix), 3, FALSE)
        /\ c[2].in \in [0 .. 0 -> Byte] /\ c[3].in \in [0 .. 31 -> Byte]
        /\ c[4].in = job.cell.data
    <2>1. /\ job.kind = "root" /\ IsCall(c[1], OneByte(Prefix), 3, FALSE)
          /\ c[2].in \in [0 .. 0 -> Byte] /\ c[3].in \in [0 .. 31 -> Byte]
          /\ IsCall(c[4], job.cell.data, 8 * full, FALSE)
      BY RootFacts, Zenon
    <2> QED
      BY <2>1, Zenon DEF IsCall
  <1>2. full \in Nat /\ job.cell.data \in [0 .. full - 1 -> Byte] /\ IsCell(job.cell)
    BY CellFacts DEF IsRootJob
  <1>3. HasTag(job.cell) /\ L + 11 + 8 * PUBLIC_KEY_LENGTH < 1024
    BY <1>1 DEF Fits
  <1>4. L \in 0 .. 8 * full - 1
    BY <1>2, <1>3, TagOfCell
  <1>5. L + 267 < 1024
    BY <1>3, <1>4 DEF PUBLIC_KEY_LENGTH
  <1>6. Parts = t1 \o t2 \o t3 \o t4
    <2>1. 8 * PUBLIC_KEY_LENGTH = 256
      BY DEF PUBLIC_KEY_LENGTH
    <2> QED
      BY <1>1, <2>1, Zenon DEF Parts
  <1>7. t1 \in Seq(Bit) /\ Len(t1) = 3 /\ \A p \in 0 .. 2 : t1[p + 1] = BitAt(c[1].in, p)
    <2>1. t1 \in Seq(Bit) /\ Len(t1) = 3 /\ t1[1] = 1 /\ t1[2] = 0 /\ t1[3] = 0
      BY DEF Bit
    <2>2. c[1].in[0] = Prefix
      BY <1>1 DEF IsCall, OneByte
    <2>3. \A p \in 0 .. 2 : BitAt(c[1].in, p) = IF p = 0 THEN 1 ELSE 0
      BY <2>2 DEF BitAt, Prefix
    <2> HIDE DEF t1
    <2> QED
      BY <2>1, <2>3
  <1>8. t2 \in Seq(Bit) /\ Len(t2) = 8 /\ \A p \in 0 .. 8 - 1 : t2[p + 1] = BitAt(c[2].in, p)
    <2>1. c[2].in \in [0 .. 1 - 1 -> Byte] /\ 8 \in 0 .. 8 * 1
      BY <1>1
    <2> QED
      BY <2>1, TextOfBytes
  <1> DEFINE m == 256
  <1>d. m = 256 /\ m \in Nat /\ m \in 0 .. 8 * 32 /\ 32 \in Nat /\ t3 = TextOf(c[3].in, m)
    BY DEF PUBLIC_KEY_LENGTH
  <1> HIDE DEF m, c, t3
  <1>e. Shows(t3, c[3].in, m)
    <2>1. c[3].in \in [0 .. 32 - 1 -> Byte]
      BY <1>1
    <2>2. Shows(TextOf(c[3].in, m), c[3].in, m)
      BY <1>d, <2>1, TextShows
    <2> QED
      BY <1>d, <2>2, Zenon
  <1>9. t3 \in Seq(Bit) /\ Len(t3) = m /\ \A p \in 0 .. m - 1 : t3[p + 1] = BitAt(c[3].in, p)
    BY <1>e, Zenon DEF Shows
  <1>10. t4 \in Seq(Bit) /\ Len(t4) = L /\ \A p \in 0 .. L - 1 : t4[p + 1] = BitAt(job.cell.data, p)
    <2>1. L \in 0 .. 8 * full
      BY <1>2, <1>4
    <2> QED
      BY <1>2, <2>1, TextOfBytes
  <1> HIDE DEF t1, t2, t4, L, full
  <1> DEFINE u2 == t1 \o t2
             u3 == u2 \o t3
             u4 == u3 \o t4
  <1>11. Joins(u2, t1, t2, 3, 8)
    BY <1>7, <1>8, ConcatJoins
  <1>a. u2 \in Seq(Bit) /\ Len(u2) = 11
    BY <1>11 DEF Joins
  <1> HIDE DEF u2
  <1>12. Joins(u3, u2, t3, 11, m)
    <2>1. u2 \in Seq(Bit) /\ t3 \in Seq(Bit) /\ Len(u2) = 11 /\ Len(t3) = m
      BY <1>9, <1>a, Zenon
    <2>2. m \in Nat /\ 11 \in Nat
      BY <1>d
    <2> HIDE DEF u2
    <2>3. Joins(u2 \o t3, u2, t3, 11, m)
      BY <2>1, <2>2, ConcatJoins, Zenon
    <2> QED
      BY <2>3
  <1>b. u3 \in Seq(Bit) /\ Len(u3) = 267
    <2>1. u3 \in Seq(Bit) /\ Len(u3) = 11 + m
      BY <1>12, Zenon DEF Joins
    <2> QED
      BY <1>d, <2>1
  <1> HIDE DEF u3
  <1>13. Joins(u4, u3, t4, 267, L)
    <2>1. /\ u3 \in Seq(Bit) /\ t4 \in Seq(Bit) /\ 267 \in Nat /\ L \in Nat
          /\ Len(u3) = 267 /\ Len(t4) = L
      BY <1>2, <1>4, <1>10, <1>b
    <2> QED
      BY <2>1, ConcatJoins, Zenon
  <1>c. u4 \in Seq(Bit) /\ Len(u4) = L + 267
    BY <1>4, <1>13 DEF Joins
  <1>14. Parts = u4
    BY <1>6 DEF u2, u3
  <1> HIDE DEF u4
  <1>15. ASSUME NEW p \in 0 .. L + 267 - 1
         PROVE  u4[p + 1] = RootBit(p)
    <2>0. p \in Nat /\ L \in Nat
      BY <1>4
    <2>1. CASE p < 3
      <3>1. p \in 0 .. 267 - 1 /\ p \in 0 .. 11 - 1 /\ p \in 0 .. 3 - 1
        BY <2>0, <2>1
      <3>2. u4[p + 1] = u3[p + 1] /\ u3[p + 1] = u2[p + 1] /\ u2[p + 1] = t1[p + 1]
        BY <1>11, <1>12, <1>13, <3>1 DEF Joins
      <3>3. t1[p + 1] = BitAt(c[1].in, p)
        BY <1>7, <3>1
      <3>4. RootBit(p) = BitAt(c[1].in, p)
        BY <2>1, Zenon DEF RootBit, c
      <3> QED
        BY <3>2, <3>3, <3>4
    <2>2. CASE p >= 3 /\ p < 11
      <3> DEFINE k == p - 3
      <3>1. p \in 0 .. 267 - 1 /\ p \in 0 .. 11 - 1 /\ k \in 0 .. 8 - 1 /\ 3 + k = p /\ ~(p < 3)
        BY <2>0, <2>2
      <3>2. u4[p + 1] = u3[p + 1] /\ u3[p + 1] = u2[p + 1]
        BY <1>12, <1>13, <3>1 DEF Joins
      <3>4. RootBit(p) = BitAt(c[2].in, k)
        BY <2>2, <3>1, Zenon DEF RootBit, c
      <3> HIDE DEF k
      <3>5. u2[3 + k + 1] = t2[k + 1]
        BY <1>11, <3>1 DEF Joins
      <3>3. t2[k + 1] = BitAt(c[2].in, k)
        BY <1>8, <3>1
      <3> QED
        BY <3>1, <3>2, <3>3, <3>4, <3>5
    <2>3. CASE p >= 11 /\ p < 267
      <3> DEFINE k == p - 11
      <3>1. p \in 0 .. 267 - 1 /\ k \in 0 .. m - 1 /\ 11 + k = p /\ ~(p < 3) /\ ~(p < 11)
        BY <1>d, <2>0, <2>3
      <3>2. u4[p + 1] = u3[p + 1]
        BY <1>13, <3>1 DEF Joins
      <3>4. RootBit(p) = BitAt(c[3].in, k)
        BY <2>3, <3>1, Zenon DEF RootBit, c
      <3> HIDE DEF k
      <3>5. u3[11 + k + 1] = t3[k + 1]
        BY <1>12, <3>1 DEF Joins
      <3>3. t3[k + 1] = BitAt(c[3].in, k)
        BY <1>9, <3>1
      <3> QED
        BY <3>1, <3>2, <3>3, <3>4, <3>5
    <2>4. CASE p >= 267
      <3> DEFINE k == p - 267
      <3>1. k \in 0 .. L - 1 /\ 267 + k = p /\ ~(p < 3) /\ ~(p < 11) /\ ~(p < 267)
        BY <2>0, <2>4
      <3>4. RootBit(p) = BitAt(job.cell.data, k)
        BY <1>1, <3>1, Zenon DEF RootBit, c
      <3> HIDE DEF k
      <3>5. u4[267 + k + 1] = t4[k + 1]
        BY <1>13, <3>1 DEF Joins
      <3>3. t4[k + 1] = BitAt(job.cell.data, k)
        BY <1>10, <3>1
      <3> QED
        BY <3>1, <3>3, <3>4, <3>5
    <2> QED
      BY <2>0, <2>1, <2>2, <2>3, <2>4
  <1> QED
    BY <1>4, <1>5, <1>c, <1>14, <1>15 DEF L, full

LEMMA RootIsText ==
  ASSUME AppendsInv, pc = "done", IsRootJob(job), Fits
  PROVE  Cell_bit_len(Built) = Len(Parts) /\ TextOf(Built.data, Len(Parts)) = Parts
  <1> DEFINE L == Cell_bit_len(job.cell)
             full == Cell_get_data_size(job.cell)
             bits == L + 267
             size == SizeOf(bits)
             n == Cell_get_data_size(size)
             new == Built.data
  <1>1. /\ L \in 0 .. 8 * full - 1 /\ L + 267 < 1024 /\ Parts \in Seq(Bit) /\ Len(Parts) = bits
        /\ \A p \in 0 .. bits - 1 : Parts[p + 1] = RootBit(p)
    BY RootParts
  <1>2. job.kind = "root" /\ job.calls[4].in = job.cell.data /\ job.size \in Nat
    BY RootFacts DEF IsCall
  <1>3. full \in Nat /\ IsCell(job.cell) /\ HasTag(job.cell) /\ Len(job.cell.refs) \in Nat
    <2>1. job.cell.refs \in Seq(Byte) /\ IsCell(job.cell)
      BY DEF IsRootJob, IsCell
    <2> QED
      BY <1>2, <2>1, CellFacts DEF Fits
  <1>4. RootProgress
    BY <1>2 DEF AppendsInv, Progress
  <1>5. /\ start = 267 + 8 * full /\ 33 + full <= job.size
        /\ \A p \in start .. start + 4 : BitAt(data, p) = 0
        /\ \A p \in 0 .. start - 1 : text[p + 1] = RootBit(p)
    BY <1>4 DEF RootProgress
  <1>6. data \in [0 .. job.size -> Byte] /\ \A p \in 0 .. start - 1 : BitAt(data, p) = RootBit(p)
    BY <1>5 DEF AppendsInv, AppendsTypeOK, TextSoFar
  <1>7. size.whole = bits \div 8 /\ (size.tagged <=> bits % 8 # 0)
    <2>1. size.whole = (bits \div 8) % 128 /\ size.tagged = (bits % 8 # 0)
      BY DEF SizeOf
    <2>2. (bits \div 8) % 128 = bits \div 8
      <3>1. L \in Nat
        BY <1>1
      <3>4. bits = L + 267 /\ L + 267 < 1024
        BY <1>1
      <3> HIDE DEF L
      <3>2. bits \in 0 .. 1023
        BY <3>1, <3>4
      <3> HIDE DEF bits
      <3>3. bits \div 8 \in 0 .. 127
        BY <3>2
      <3> QED
        BY <3>3
    <2> QED
      BY <2>1, <2>2
  <1>8. n = bits \div 8 + (IF bits % 8 # 0 THEN 1 ELSE 0)
    <2>1. n = size.whole + (IF size.tagged THEN 1 ELSE 0)
      BY Zenon DEF Cell_get_data_size
    <2> HIDE DEF n, size, bits
    <2> QED
      BY <1>7, <2>1, Zenon
  <1> HIDE DEF full, L
  <1>9. /\ n \in Nat /\ bits \in Nat /\ bits <= 8 * n /\ 8 * n <= start + 5 /\ n <= job.size + 1
        /\ bits % 8 = 0 => bits = 8 * n
        /\ bits % 8 # 0 => bits < 8 * n
    <2> DEFINE q == bits \div 8
               r == bits % 8
    <2>1. bits \in Nat /\ L \in Nat /\ L <= 8 * full - 1
      BY <1>1
    <2>2. q \in Nat /\ r \in 0 .. 7 /\ bits = 8 * q + r
      BY <2>1
    <2>3. n = q + (IF r # 0 THEN 1 ELSE 0)
      BY <1>8
    <2> HIDE DEF n, size
    <2>4. bits = L + 267
      OBVIOUS
    <2> HIDE DEF q, r, bits
    <2>5. 8 * q + r = L + 267
      BY <2>2, <2>4
    <2>6. q <= 33 + full
      BY <1>3, <2>1, <2>2, <2>5
    <2>9. bits % 8 = r
      BY DEF r
    <2>10. 33 + full <= job.size /\ start = 267 + 8 * full /\ job.size \in Nat /\ full \in Nat
      BY <1>2, <1>3, <1>5
    <2>7. CASE r = 0
      <3>1. n = q
        BY <2>2, <2>3, <2>7
      <3> QED
        BY <2>1, <2>2, <2>5, <2>6, <2>7, <2>9, <2>10, <3>1
    <2>8. CASE r # 0
      <3>1. n = q + 1
        BY <2>3, <2>8
      <3> QED
        BY <2>1, <2>2, <2>5, <2>6, <2>8, <2>9, <2>10, <3>1
    <2> QED
      BY <2>7, <2>8
  <1>10. /\ Built.whole = size.whole /\ Built.tagged = size.tagged
         /\ new = [b \in DOMAIN data |-> IF b - n \in 0 .. Len(job.cell.refs) - 1
                                         THEN job.cell.refs[b - n + 1] ELSE data[b]]
    <2>1. Built = Longer
      BY <1>2 DEF Built
    <2>2. Cell_bit_len(job.cell) + 11 + 8 * PUBLIC_KEY_LENGTH = bits
      BY <1>1 DEF PUBLIC_KEY_LENGTH, L
    <2>3. /\ Longer.whole = size.whole /\ Longer.tagged = size.tagged
          /\ Longer.data = [b \in DOMAIN data |-> IF b - n \in 0 .. Len(job.cell.refs) - 1
                                                  THEN job.cell.refs[b - n + 1] ELSE data[b]]
      BY <2>2, Zenon DEF Longer
    <2> QED
      BY <2>1, <2>3
  <1>11. Cell_get_data_size(Built) = n
    BY <1>10, Zenon DEF Cell_get_data_size
  <1> HIDE DEF n, size, new
  <1>12. ASSUME NEW p \in 0 .. 8 * n - 1
         PROVE  BitAt(new, p) = BitAt(data, p)
    <2>0. p \in Nat
      OBVIOUS
    <2>1. PICK b \in Nat, x \in 0 .. 7 : p = 8 * b + x
      BY <2>0, Divided
    <2>2. BitAt(new, 8 * b + x) = new[b][7 - x] /\ BitAt(data, 8 * b + x) = data[b][7 - x]
      BY BitAtPlace
    <2>3. b \in 0 .. job.size /\ b - n \notin 0 .. Len(job.cell.refs) - 1
      BY <1>2, <1>3, <1>9, <2>1
    <2>4. new[b] = data[b]
      BY <1>6, <1>10, <2>3
    <2> QED
      BY <2>1, <2>2, <2>4
  <1> HIDE DEF bits
  <1>13. ASSUME NEW p \in 0 .. bits - 1
         PROVE  BitAt(new, p) = RootBit(p)
    <2>2. bits \in Nat /\ bits <= 8 * n /\ n \in Nat
      BY <1>9
    <2>3. bits <= start /\ start \in Nat
      BY <1>1, <1>3, <1>5 DEF bits
    <2>1. p \in 0 .. 8 * n - 1 /\ p \in 0 .. start - 1
      BY <2>2, <2>3
    <2> QED
      BY <1>6, <1>12, <2>1
  <1>14. Cell_bit_len(Built) = bits
    <2>1. CASE bits % 8 = 0
      BY <1>7, <1>9, <1>10, <1>11, <2>1 DEF Cell_bit_len
    <2>2. CASE bits % 8 # 0
      <3>1. Built.tagged
        BY <1>7, <1>10, <2>2
      <3>2. bits \in 0 .. 8 * n - 1
        BY <1>9, <2>2
      <3>3. /\ BitAt(job.cell.data, L) = 1
            /\ \A p \in L + 1 .. 8 * full - 1 : BitAt(job.cell.data, p) = 0
        BY <1>3, TagOfCell DEF L, full
      <3>4. \A p \in bits .. start - 1 :
              /\ RootBit(p) = BitAt(job.cell.data, p - 267)
              /\ p - 267 \in L .. 8 * full - 1 /\ (p - 267 = L <=> p = bits)
        BY <1>1, <1>2, <1>3, <1>5 DEF RootBit, bits
      <3>5. BitAt(new, bits) = 1
        <4>1. bits \in bits .. start - 1 /\ bits \in 0 .. start - 1
          BY <1>1, <1>3, <1>5, <1>9 DEF bits
        <4>2. RootBit(bits) = BitAt(job.cell.data, L)
          BY <3>4, <4>1 DEF bits
        <4> QED
          BY <1>6, <1>12, <3>2, <3>3, <4>1, <4>2
      <3>6. ASSUME NEW p \in bits + 1 .. 8 * n - 1
            PROVE  BitAt(new, p) # 1
        <4>1. p \in 0 .. 8 * n - 1 /\ p \in Nat
          BY <1>9
        <4>2. CASE p < start
          <5>1. p \in bits .. start - 1 /\ p # bits /\ p \in 0 .. start - 1
            BY <1>3, <1>5, <1>9, <4>1, <4>2
          <5>2. p - 267 \in L + 1 .. 8 * full - 1
            BY <1>1, <1>3, <3>4, <5>1
          <5> QED
            BY <1>6, <1>12, <3>3, <3>4, <4>1, <5>1, <5>2
        <4>3. CASE p >= start
          <5>1. p \in start .. start + 4
            BY <1>3, <1>5, <1>9, <4>1, <4>3
          <5> QED
            BY <1>5, <1>12, <4>1, <5>1
        <4> QED
          BY <1>3, <1>5, <4>1, <4>2, <4>3
      <3> QED
        BY <1>9, <1>11, <3>1, <3>2, <3>5, <3>6, TaggedLength DEF new
    <2> QED
      BY <2>1, <2>2
  <1>15. TextOf(new, Len(Parts)) = Parts
    BY <1>1, <1>13, TextIs
  <1> QED
    BY <1>1, <1>14, <1>15 DEF new

LEMMA KeyIsText ==
  ASSUME AppendsInv, pc = "done", IsKeyJob(job), Fits
  PROVE  Cell_bit_len(Built) = Len(Parts) /\ TextOf(Built.data, Len(Parts)) = Parts
  <1> DEFINE n == Cell_get_data_size(job.cell)
             s == job.start
             m == 256
             k == s + m
             in == job.calls[1].in
             t1 == TextOf(job.cell.data, s)
             t2 == TextOf(in, m)
             new == Built.data
  <1>1. /\ job.kind # "root" /\ s \in Nat /\ job.size \in Nat
        /\ \A b \in 0 .. n - 1 : job.buffer[b] = job.cell.data[b]
        /\ in \in [0 .. 31 -> Byte]
    BY KeyFacts, Zenon
  <1>2. n \in Nat /\ n # 0 /\ job.cell.data \in [0 .. n - 1 -> Byte] /\ IsCell(job.cell)
    BY CellFacts DEF IsKeyJob
  <1>3. job.cell.tagged /\ s % 8 # 0 /\ n = s \div 8 + PUBLIC_KEY_LENGTH + 1
    BY <1>1, Zenon DEF Fits
  <1>4. KeyProgress
    BY <1>1 DEF AppendsInv, Progress
  <1>5. start = 8 * (s \div 8 + 33) /\ \A p \in 0 .. start - 1 : text[p + 1] = KeyBit(p)
    BY <1>3, <1>4 DEF KeyProgress
  <1>6. data \in [0 .. job.size -> Byte] /\ \A p \in 0 .. start - 1 : BitAt(data, p) = text[p + 1]
    BY DEF AppendsInv, AppendsTypeOK, TextSoFar
  <1>7. m = 256 /\ m \in Nat /\ m \in 0 .. 8 * 32 /\ 8 * PUBLIC_KEY_LENGTH = m
    BY DEF PUBLIC_KEY_LENGTH
  <1>8. Parts = t1 \o t2
    BY <1>1, <1>7, Zenon DEF Parts
  <1>9. Built.data = data /\ Built.whole = job.cell.whole /\ Built.tagged = job.cell.tagged
    <2>1. DOMAIN job.cell = {"whole", "tagged", "data", "refs"}
      BY <1>2 DEF IsCell
    <2>2. Built = [job.cell EXCEPT !.data = data]
      BY <1>1 DEF Built
    <2> QED
      BY <2>1, <2>2
  <1>10. Cell_get_data_size(Built) = n
    BY <1>9, Zenon DEF Cell_get_data_size
  <1> HIDE DEF m, n, s, in, t1, t2, new
  <1>11. /\ start = 8 * n /\ k \in Nat /\ k < 8 * n /\ s < 8 * n /\ k = s + 256
         /\ 8 * n <= k + 8
    <2>1. PICK q \in Nat, r \in 0 .. 7 : s = 8 * q + r
      BY <1>1, Divided
    <2>2. s \div 8 = q /\ s % 8 = r
      BY <2>1, Place
    <2>3. n = q + 33 /\ r # 0 /\ start = 8 * (q + 33)
      BY <1>3, <1>5, <2>2 DEF PUBLIC_KEY_LENGTH
    <2> QED
      BY <1>7, <2>1, <2>3
  <1>12. Shows(t1, job.cell.data, s)
    <2>1. s \in 0 .. 8 * n
      BY <1>1, <1>2, <1>11
    <2> QED
      BY <1>2, <2>1, TextShows DEF t1
  <1>13. Shows(t2, in, m)
    <2>1. 32 \in Nat /\ in \in [0 .. 32 - 1 -> Byte]
      BY <1>1
    <2>2. Shows(TextOf(in, m), in, m)
      <3>1. m \in 0 .. 8 * 32
        BY <1>7
      <3> QED
        BY <2>1, <3>1, TextShows, Zenon
    <2> QED
      BY <2>2, Zenon DEF t2
  <1> DEFINE u == t1 \o t2
  <1>14. Joins(u, t1, t2, s, m)
    <2>1. t1 \in Seq(Bit) /\ t2 \in Seq(Bit) /\ Len(t1) = s /\ Len(t2) = m
      BY <1>12, <1>13, Zenon DEF Shows
    <2>2. s \in Nat /\ m \in Nat
      BY <1>1, <1>7
    <2> QED
      BY <2>1, <2>2, ConcatJoins, Zenon
  <1> HIDE DEF u
  <1>15. u \in Seq(Bit) /\ Len(u) = k
    BY <1>14 DEF Joins
  <1>16. ASSUME NEW p \in 0 .. s - 1
         PROVE  KeyBit(p) = BitAt(job.cell.data, p)
    <2>1. p \in Nat /\ p < s
      BY <1>1
    <2>2. KeyBit(p) = BitAt(job.buffer, p)
      BY <2>1, Zenon DEF KeyBit, s
    <2>3. PICK b \in Nat, x \in 0 .. 7 : p = 8 * b + x
      BY <2>1, Divided
    <2>4. b \in 0 .. n - 1
      <3>1. s \in Nat /\ s < 8 * n /\ n \in Nat
        BY <1>1, <1>2, <1>11
      <3> QED
        BY <2>1, <2>3, <3>1
    <2>5. /\ BitAt(job.buffer, p) = job.buffer[b][7 - x]
          /\ BitAt(job.cell.data, p) = job.cell.data[b][7 - x]
      BY <2>3, BitAtPlace
    <2>6. job.buffer[b] = job.cell.data[b]
      BY <1>1, <2>4
    <2> QED
      BY <2>2, <2>5, <2>6
  <1>17. ASSUME NEW i \in 0 .. m - 1
         PROVE  KeyBit(s + i) = BitAt(in, i)
    <2> DEFINE p == s + i
    <2>2. p < job.start + 256 /\ ~(p < job.start) /\ p - job.start = i
      BY <1>1, <1>7 DEF s
    <2> HIDE DEF p
    <2>3. KeyBit(p) = BitAt(job.calls[1].in, p - job.start)
      BY <2>2, Zenon DEF KeyBit
    <2> QED
      BY <2>2, <2>3, Zenon DEF p, in
  <1>18. ASSUME NEW p \in 0 .. k - 1
         PROVE  BitAt(data, p) = u[p + 1]
    <2>0. p \in Nat /\ p \in 0 .. start - 1
      BY <1>2, <1>11
    <2>1. BitAt(data, p) = KeyBit(p)
      BY <1>5, <1>6, <2>0
    <2>2. CASE p < s
      <3>1. p \in 0 .. s - 1
        BY <1>1, <2>0, <2>2
      <3>2. u[p + 1] = t1[p + 1]
        BY <1>14, <3>1 DEF Joins
      <3>3. t1[p + 1] = BitAt(job.cell.data, p)
        BY <1>12, <3>1, Zenon DEF Shows
      <3> QED
        BY <1>16, <2>1, <3>1, <3>2, <3>3
    <2>3. CASE p >= s
      <3> DEFINE i == p - s
      <3>1. i \in 0 .. m - 1 /\ s + i = p
        BY <1>1, <1>7, <1>11, <2>0, <2>3
      <3> HIDE DEF i
      <3>2. u[s + i + 1] = t2[i + 1]
        BY <1>14, <3>1 DEF Joins
      <3>3. t2[i + 1] = BitAt(in, i)
        BY <1>13, <3>1, Zenon DEF Shows
      <3>4. KeyBit(s + i) = BitAt(in, i)
        BY <1>17, <3>1
      <3> QED
        BY <2>1, <3>1, <3>2, <3>3, <3>4
    <2> QED
      BY <1>1, <2>0, <2>2, <2>3
  <1>19. Cell_bit_len(Built) = k
    <2>1. k \in 0 .. 8 * n - 1
      BY <1>2, <1>11
    <2>2. ASSUME NEW p \in k .. 8 * n - 1
          PROVE  BitAt(data, p) = IF p = k THEN 1 ELSE 0
      <3>1. p \in Nat /\ p \in 0 .. start - 1
        BY <1>2, <1>11
      <3>2. ~(p < job.start) /\ ~(p < job.start + 256) /\ (p = job.start + 256 <=> p = k)
        BY <1>1, <1>11, <3>1 DEF s
      <3>3. KeyBit(p) = IF p = k THEN 1 ELSE 0
        BY <3>2, Zenon DEF KeyBit
      <3> QED
        BY <1>5, <1>6, <3>1, <3>3
    <2> HIDE DEF k
    <2>3. BitAt(data, k) = 1 /\ \A p \in k + 1 .. 8 * n - 1 : BitAt(data, p) # 1
      BY <2>1, <2>2
    <2>4. BitAt(Built.data, k) = 1 /\ \A p \in k + 1 .. 8 * n - 1 : BitAt(Built.data, p) # 1
      BY <1>9, <2>3, Zenon
    <2>5. Built.tagged
      BY <1>3, <1>9
    <2> QED
      BY <1>2, <1>10, <2>1, <2>4, <2>5, TaggedLength
  <1>20. TextOf(data, Len(u)) = u
    <2>1. \A p \in 0 .. Len(u) - 1 : BitAt(data, p) = u[p + 1]
      BY <1>15, <1>18
    <2> QED
      BY <1>15, <2>1, TextIs
  <1>21. Parts = u
    BY <1>8 DEF u
  <1> QED
    BY <1>9, <1>15, <1>19, <1>20, <1>21, Zenon

\* Every state of a job has the bits its calls have brought so far.
THEOREM AppendsAlways == AppendsSpec => []AppendsInv
  BY AppendsStart, AppendsKept, PTL DEF AppendsSpec

(***************************************************************************)
(* For every list of appends, into any buffer whatever it held before: the *)
(* bits up to the cursor are those that were appended, in order, although  *)
(* an append that is not aligned begins in the byte the one before it      *)
(* ended in (SliceData_append, slice_data.c:157-200).                      *)
(***************************************************************************)
THEOREM EveryAppendedIsText == AppendsSpec => []AppendedIsText
  <1>1. ASSUME AppendsInv PROVE AppendedIsText
    <2> SUFFICES ASSUME pc # "thrown", round = 0 PROVE AppendedIsText
      BY DEF AppendedIsText
    <2>1. /\ start \in Nat /\ Len(text) = start
          /\ \A p \in 0 .. start - 1 : BitAt(data, p) = text[p + 1]
      BY <1>1 DEF AppendsInv, AppendsTypeOK, TextSoFar
    <2>2. ASSUME NEW p \in 1 .. start
          PROVE  text[p] = BitAt(data, p - 1)
      <3>1. p - 1 \in 0 .. start - 1 /\ (p - 1) + 1 = p
        BY <2>1
      <3> QED
        BY <2>1, <3>1
    <2> QED
      BY <2>1, <2>2 DEF AppendedIsText
  <1> QED
    BY <1>1, AppendsAlways, PTL

(***************************************************************************)
(* For every root and every key cell: what prepend_address_to_cell and     *)
(* compute_multisig_address leave to be hashed is the cell they mean, with *)
(* its size and its completion tag, if it has room for what is appended.   *)
(***************************************************************************)
THEOREM EveryCellIsText == AppendsSpec => []CellIsText
  <1>1. ASSUME AppendsInv PROVE CellIsText
    <2>1. IsRootJob(job) \/ IsKeyJob(job)
      BY <1>1, TheJob DEF JobOK
    <2> QED
      BY <1>1, <2>1, RootIsText, KeyIsText DEF CellIsText
  <1> QED
    BY <1>1, AppendsAlways, PTL
=============================================================================
