---------------------------- MODULE AmountProofs ----------------------------
(***************************************************************************)
(* What holds of the double-dabble loop, of the loops that write the       *)
(* digits of scratch as a text, and of the C strings the text goes         *)
(* through, for every SCRATCH_SIZE up to that of a uint8_t, every bound    *)
(* MAX_VALUE, every amount, every number of decimals and every ticker.     *)
(***************************************************************************)
EXTENDS AmountText, TLAPS, SequenceTheorems, WellFoundedInduction

\* Both parts together are inductive: the shift keeps a digit below 10 only
\* because AddThree has taken it out of 5 .. 7 before, and the digits left
\* of smin stay zero only because smin moves when its digit carries over.
LoopInv == LoopTypeOK /\ ScratchIsDecimal

(***************************************************************************)
(* AddedDigits: after the additions a decimal digit is 0 .. 4 or 8 .. 12,  *)
(* and the high half means the digit was 5 or more.                        *)
(***************************************************************************)
LEMMA AddedDigits ==
  ASSUME NEW scratch \in [1 .. SCRATCH_SIZE -> 0 .. 9],
         NEW smin \in 1 .. SCRATCH_SIZE - 1,
         \A k \in 1 .. smin - 1 : scratch[k] = 0
  PROVE  \A k \in 1 .. SCRATCH_SIZE :
           /\ AddThree(scratch, smin)[k] \in 0 .. 12
           /\ scratch[k] < 5 => AddThree(scratch, smin)[k] = scratch[k]
           /\ scratch[k] >= 5 => AddThree(scratch, smin)[k] = scratch[k] + 3
  BY ScratchSizeAssumption DEF AddThree

(***************************************************************************)
(* ShiftedDigits: the shift doubles every digit with decimal carries.      *)
(***************************************************************************)
LEMMA ShiftedDigits ==
  ASSUME NEW scratch \in [1 .. SCRATCH_SIZE -> 0 .. 9],
         NEW smin \in 1 .. SCRATCH_SIZE - 1,
         NEW low \in {smin, smin - 1}, low >= 1,
         \A k \in 1 .. smin - 1 : scratch[k] = 0,
         low = smin => scratch[smin] < 5,
         NEW bit \in {0, 1},
         NEW k \in 1 .. SCRATCH_SIZE
  PROVE  ShiftIn(AddThree(scratch, smin), low, bit)[k] =
           2 * scratch[k] - 10 * Carry(scratch, k)
           + IF k = SCRATCH_SIZE THEN bit ELSE Carry(scratch, k + 1)
  <1> DEFINE added == AddThree(scratch, smin)
  <1>1. /\ \A j \in 1 .. SCRATCH_SIZE :
             /\ added[j] \in 0 .. 12
             /\ scratch[j] < 5 => added[j] = scratch[j]
             /\ scratch[j] >= 5 => added[j] = scratch[j] + 3
    BY AddedDigits
  <1>2. \A j \in 1 .. SCRATCH_SIZE : added[j] >= 8 <=> scratch[j] >= 5
    BY <1>1
  <1>3. (2 * added[k]) % 16 = 2 * scratch[k] - 10 * Carry(scratch, k)
    <2>1. CASE scratch[k] < 5
      <3>1. 2 * added[k] \in 0 .. 8
        BY <1>1, <2>1
      <3> QED
        BY <1>1, <2>1, <3>1 DEF Carry
    <2>2. CASE scratch[k] >= 5
      <3>1. 2 * added[k] = 16 + (2 * scratch[k] - 10) /\ 2 * scratch[k] - 10 \in 0 .. 8
        BY <1>1, <2>2, SMTT(30)
      <3> QED
        BY <1>1, <2>2, <3>1 DEF Carry
    <2> QED
      BY <2>1, <2>2
  <1>4. CASE k < low
    <2>1. scratch[k] = 0 /\ added[k] = 0
      BY <1>1, <1>4
    <2>2. k + 1 \in 1 .. SCRATCH_SIZE /\ scratch[k + 1] < 5
      BY <1>4, ScratchSizeAssumption
    <2>3. Carry(scratch, k) = 0 /\ Carry(scratch, k + 1) = 0
      BY <2>1, <2>2 DEF Carry
    <2> QED
      BY <1>4, <2>1, <2>3 DEF ShiftIn
  <1>5. CASE k >= low
    <2>1. CASE k = SCRATCH_SIZE
      <3>1. ShiftIn(added, low, bit)[k] = ((2 * added[k]) % 16) + bit
        BY <1>5, <2>1 DEF ShiftIn
      <3> QED
        BY <1>3, <2>1, <3>1
    <2>2. CASE k # SCRATCH_SIZE
      <3>1. ShiftIn(added, low, bit)[k] =
              ((2 * added[k]) % 16) + IF added[k + 1] >= 8 THEN 1 ELSE 0
        BY <1>5, <2>2 DEF ShiftIn
      <3>2. k + 1 \in 1 .. SCRATCH_SIZE
        BY <2>2, ScratchSizeAssumption
      <3>3. Carry(scratch, k + 1) = IF added[k + 1] >= 8 THEN 1 ELSE 0
        BY <1>2, <3>2 DEF Carry
      <3> QED
        BY <1>3, <2>2, <3>1, <3>3
    <2> QED
      BY <2>1, <2>2
  <1> QED
    BY <1>4, <1>5, ScratchSizeAssumption

(***************************************************************************)
(* ShiftedInRange: hence the digits stay decimal.                          *)
(***************************************************************************)
LEMMA ShiftedInRange ==
  ASSUME NEW scratch \in [1 .. SCRATCH_SIZE -> 0 .. 9],
         NEW smin \in 1 .. SCRATCH_SIZE - 1,
         NEW low \in {smin, smin - 1}, low >= 1,
         \A k \in 1 .. smin - 1 : scratch[k] = 0,
         low = smin => scratch[smin] < 5,
         NEW bit \in {0, 1}
  PROVE  /\ ShiftIn(AddThree(scratch, smin), low, bit) \in [1 .. SCRATCH_SIZE -> 0 .. 9]
         /\ \A k \in 1 .. low - 1 :
              ShiftIn(AddThree(scratch, smin), low, bit)[k] = 0
  <1> DEFINE shifted == ShiftIn(AddThree(scratch, smin), low, bit)
  <1>1. \A k \in 1 .. SCRATCH_SIZE : shifted[k] \in 0 .. 9
    <2> SUFFICES ASSUME NEW k \in 1 .. SCRATCH_SIZE
                 PROVE  shifted[k] \in 0 .. 9
      OBVIOUS
    <2>1. shifted[k] = 2 * scratch[k] - 10 * Carry(scratch, k)
                       + IF k = SCRATCH_SIZE THEN bit ELSE Carry(scratch, k + 1)
      BY ShiftedDigits
    <2>2. 2 * scratch[k] - 10 * Carry(scratch, k) \in 0 .. 8
      BY DEF Carry
    <2>3. (IF k = SCRATCH_SIZE THEN bit ELSE Carry(scratch, k + 1)) \in 0 .. 1
      BY DEF Carry
    <2> QED
      BY <2>1, <2>2, <2>3
  <1>2. shifted = [k \in 1 .. SCRATCH_SIZE |-> shifted[k]]
    BY DEF ShiftIn
  <1>3. \A k \in 1 .. low - 1 : shifted[k] = 0
    <2> SUFFICES ASSUME NEW k \in 1 .. low - 1
                 PROVE  shifted[k] = 0
      OBVIOUS
    <2>1. k \in 1 .. SCRATCH_SIZE /\ k < smin /\ k < low /\ scratch[k] = 0
      BY ScratchSizeAssumption
    <2>2. AddThree(scratch, smin)[k] = 0
      BY <2>1 DEF AddThree
    <2> QED
      BY <2>1, <2>2 DEF ShiftIn
  <1>4. shifted \in [1 .. SCRATCH_SIZE -> 0 .. 9]
    BY <1>1, <1>2
  <1> QED
    BY <1>3, <1>4

-----------------------------------------------------------------------------
(***************************************************************************)
(* ShiftStep: a bit that raises no error shifts in the digits above.       *)
(***************************************************************************)
Full(s) == AddThree(s.scratch, s.smin)[s.smin] >= 8

LEMMA FullIsFive ==
  ASSUME NEW s \in [scratch : [1 .. SCRATCH_SIZE -> 0 .. 9], smin : 1 .. SCRATCH_SIZE - 1,
                    err : {"SUCCESS", "ERR_INVALID_DATA"}],
         \A k \in 1 .. s.smin - 1 : s.scratch[k] = 0
  PROVE  Full(s) <=> s.scratch[s.smin] >= 5
  <1>1. s.smin \in 1 .. SCRATCH_SIZE - 1 /\ s.smin \in 1 .. SCRATCH_SIZE
    BY ScratchSizeAssumption
  <1>2. s.scratch[s.smin] \in 0 .. 9
    BY <1>1
  <1>3. /\ s.scratch[s.smin] < 5 => AddThree(s.scratch, s.smin)[s.smin] = s.scratch[s.smin]
        /\ s.scratch[s.smin] >= 5 =>
             AddThree(s.scratch, s.smin)[s.smin] = s.scratch[s.smin] + 3
    BY <1>1, AddedDigits
  <1> QED
    BY <1>2, <1>3 DEF Full

LEMMA DecimalState ==
  ASSUME LoopInv, st.err = "SUCCESS"
  PROVE  /\ st \in [scratch : [1 .. SCRATCH_SIZE -> 0 .. 9], smin : 1 .. SCRATCH_SIZE - 1,
                    err : {"SUCCESS", "ERR_INVALID_DATA"}]
         /\ st.smin \in 2 .. SCRATCH_SIZE - 1
         /\ \A k \in 1 .. st.smin - 1 : st.scratch[k] = 0
  BY DEF LoopInv, LoopTypeOK, ScratchIsDecimal, Digits

LEMMA ShiftStep ==
  ASSUME LoopInv, NEW bit \in {0, 1}, NextBit(bit), ~(Full(st) /\ st.smin <= 2)
  PROVE  \E low \in {st.smin, st.smin - 1} :
           /\ low \in 2 .. SCRATCH_SIZE - 1
           /\ low = st.smin => st.scratch[st.smin] < 5
           /\ st' = [st EXCEPT !.scratch = ShiftIn(AddThree(st.scratch, st.smin), low, bit),
                               !.smin = low]
  <1>1. st.err = "SUCCESS"
    BY DEF NextBit
  <1>2. /\ st.smin \in 2 .. SCRATCH_SIZE - 1 /\ st.smin \in 1 .. SCRATCH_SIZE
        /\ st.scratch[st.smin] \in 0 .. 9
        /\ Full(st) <=> st.scratch[st.smin] >= 5
    BY <1>1, DecimalState, FullIsFive, ScratchSizeAssumption
  <1>3. CASE Full(st)
    <2>1. st' = [st EXCEPT !.scratch = ShiftIn(AddThree(st.scratch, st.smin),
                                               st.smin - 1, bit),
                           !.smin = st.smin - 1]
      BY <1>1, <1>3 DEF NextBit, DabbleBit, Full
    <2>2. st.smin - 1 \in 2 .. SCRATCH_SIZE - 1 /\ st.smin - 1 # st.smin
      BY <1>2, <1>3, ScratchSizeAssumption
    <2> QED
      BY <2>1, <2>2
  <1>4. CASE ~Full(st)
    <2>1. st' = [st EXCEPT !.scratch = ShiftIn(AddThree(st.scratch, st.smin), st.smin, bit),
                           !.smin = st.smin]
      BY <1>1, <1>4 DEF NextBit, DabbleBit, Full
    <2>2. st.scratch[st.smin] < 5
      BY <1>2, <1>4
    <2> QED
      BY <1>2, <2>1, <2>2
  <1> QED
    BY <1>3, <1>4

-----------------------------------------------------------------------------
(***************************************************************************)
(* One step of the loop.                                                   *)
(***************************************************************************)
LEMMA ErrorStep ==
  ASSUME LoopInv, NEW bit \in {0, 1}, NextBit(bit), Full(st), st.smin <= 2
  PROVE  LoopInv' /\ st'.err # "SUCCESS"
  <1>1. st.err = "SUCCESS"
    BY DEF NextBit
  <1>2. st' = [st EXCEPT !.scratch = AddThree(st.scratch, st.smin),
                         !.err = "ERR_INVALID_DATA"]
    BY <1>1 DEF NextBit, DabbleBit, Full
  <1>3. AddThree(st.scratch, st.smin) \in Digits
    BY <1>1, DecimalState, ScratchSizeAssumption, SMTT(30) DEF AddThree, Digits
  <1>4. value' \in Nat
    BY DEF LoopInv, LoopTypeOK, NextBit
  <1> QED
    BY <1>2, <1>3, <1>4 DEF LoopInv, LoopTypeOK, ScratchIsDecimal

LEMMA BitKeepsLoopInv ==
  ASSUME LoopInv, NEW bit \in {0, 1}, NextBit(bit)
  PROVE  LoopInv'
  <1>1. CASE Full(st) /\ st.smin <= 2
    BY <1>1, ErrorStep
  <1>2. CASE ~(Full(st) /\ st.smin <= 2)
    <2>1. PICK low \in {st.smin, st.smin - 1} :
            /\ low \in 2 .. SCRATCH_SIZE - 1
            /\ low = st.smin => st.scratch[st.smin] < 5
            /\ st' = [st EXCEPT !.scratch = ShiftIn(AddThree(st.scratch, st.smin), low, bit),
                                !.smin = low]
      BY <1>2, ShiftStep
    <2>2. st.err = "SUCCESS"
      BY DEF NextBit
    <2>3. /\ ShiftIn(AddThree(st.scratch, st.smin), low, bit)
                \in [1 .. SCRATCH_SIZE -> 0 .. 9]
          /\ \A k \in 1 .. low - 1 :
               ShiftIn(AddThree(st.scratch, st.smin), low, bit)[k] = 0
      BY <2>1, <2>2, DecimalState, ShiftedInRange
    <2>4. ShiftIn(AddThree(st.scratch, st.smin), low, bit) \in Digits
      BY <2>3 DEF Digits
    <2>5. low \in 1 .. SCRATCH_SIZE - 1
      BY <2>1, ScratchSizeAssumption
    <2>6. /\ st' \in [scratch : Digits, smin : 1 .. SCRATCH_SIZE - 1,
                      err : {"SUCCESS", "ERR_INVALID_DATA"}]
          /\ st'.scratch = ShiftIn(AddThree(st.scratch, st.smin), low, bit)
          /\ st'.smin = low
      BY <2>1, <2>4, <2>5 DEF LoopInv, LoopTypeOK
    <2>7. value' \in Nat
      BY DEF LoopInv, LoopTypeOK, NextBit
    <2> QED
      BY <2>1, <2>3, <2>6, <2>7 DEF LoopInv, LoopTypeOK, ScratchIsDecimal
  <1> QED
    BY <1>1, <1>2

LEMMA BitDoubles ==
  ASSUME LoopInv, NEW bit \in {0, 1}, NextBit(bit), st'.err = "SUCCESS",
         NEW k \in 1 .. SCRATCH_SIZE - 1
  PROVE  st'.scratch[k] = 2 * st.scratch[k] - 10 * Carry(st.scratch, k)
                          + Carry(st.scratch, k + 1)
  <1>1. ~(Full(st) /\ st.smin <= 2)
    BY ErrorStep
  <1>2. PICK low \in {st.smin, st.smin - 1} :
          /\ low \in 2 .. SCRATCH_SIZE - 1
          /\ low = st.smin => st.scratch[st.smin] < 5
          /\ st' = [st EXCEPT !.scratch = ShiftIn(AddThree(st.scratch, st.smin), low, bit),
                              !.smin = low]
    BY <1>1, ShiftStep
  <1>3. st.err = "SUCCESS"
    BY DEF NextBit
  <1>4. st'.scratch = ShiftIn(AddThree(st.scratch, st.smin), low, bit)
    BY <1>2 DEF LoopInv, LoopTypeOK
  <1>5. k \in 1 .. SCRATCH_SIZE /\ k # SCRATCH_SIZE
    BY ScratchSizeAssumption
  <1> QED
    BY <1>2, <1>3, <1>4, <1>5, DecimalState, ShiftedDigits

LEMMA LoopInvInductive == LoopInv /\ [LoopNext]_loop => LoopInv'
  <1> SUFFICES ASSUME LoopInv, [LoopNext]_loop
               PROVE  LoopInv'
    OBVIOUS
  <1>1. ASSUME NEW bit \in {0, 1}, NextBit(bit)
        PROVE  LoopInv'
    BY <1>1, BitKeepsLoopInv
  <1>2. CASE UNCHANGED loop
    BY <1>2 DEF loop, LoopInv, LoopTypeOK, ScratchIsDecimal
  <1> QED
    BY <1>1, <1>2 DEF LoopNext

LEMMA LoopInvInitially == LoopInit => LoopInv
  BY ScratchSizeAssumption
     DEF LoopInit, LoopInv, LoopTypeOK, ScratchIsDecimal, DabbleStart, Digits

-----------------------------------------------------------------------------
(***************************************************************************)
(* LoopAlwaysDecimal: at every step of every conversion the scratch digits *)
(* are decimal, and zero left of smin (utils.c:138-152).                   *)
(***************************************************************************)
THEOREM LoopAlwaysDecimal == LoopSpec => [](LoopTypeOK /\ ScratchIsDecimal)
  <1>1. LoopSpec => []LoopInv
    BY LoopInvInitially, LoopInvInductive, PTL DEF LoopSpec
  <1> QED
    BY <1>1, PTL DEF LoopInv

(***************************************************************************)
(* EveryBitDoubles: every bit that is shifted in without an error doubles  *)
(* the digits with the carries of decimal arithmetic.                      *)
(***************************************************************************)
THEOREM EveryBitDoubles == LoopSpec => DigitsDouble
  <1> DEFINE Doubles ==
        st'.err = "SUCCESS" =>
          \A k \in 1 .. SCRATCH_SIZE - 1 :
            st'.scratch[k] = 2 * st.scratch[k] - 10 * Carry(st.scratch, k)
                             + Carry(st.scratch, k + 1)
  <1>1. LoopInv /\ [LoopNext]_loop => [Doubles]_loop
    <2> SUFFICES ASSUME LoopInv, NEW bit \in {0, 1}, NextBit(bit),
                        st'.err = "SUCCESS", NEW k \in 1 .. SCRATCH_SIZE - 1
                 PROVE  st'.scratch[k] = 2 * st.scratch[k] - 10 * Carry(st.scratch, k)
                                         + Carry(st.scratch, k + 1)
      BY DEF LoopNext
    <2> QED
      BY BitDoubles
  <1>2. LoopSpec => []LoopInv
    BY LoopInvInitially, LoopInvInductive, PTL DEF LoopSpec
  <1> QED
    BY <1>1, <1>2, PTL DEF LoopSpec, DigitsDouble

-----------------------------------------------------------------------------
(***************************************************************************)
(* The loops over the digits.                                              *)
(***************************************************************************)
Scratch == [1 .. SCRATCH_SIZE -> 0 .. 9]
Chars == 0 .. 10

LEMMA Sizes ==
  /\ SCRATCH_SIZE \in 3 .. 255
  /\ AMOUNT_STR_SIZE \in Nat /\ AMOUNT_STR_SIZE >= SCRATCH_SIZE + 2
  BY ScratchSizeAssumption, AmountTextAssumption

-----------------------------------------------------------------------------
(***************************************************************************)
(* The integer part: digits 1 .. n without leading zeros.                  *)
(***************************************************************************)
FirstIs(low, d, n) ==
  /\ low \in 1 .. n /\ d[low] # 0
  /\ \A k \in 1 .. low - 1 : d[k] = 0

Stripped(text, d, n) ==
  \/ text = << >> /\ \A k \in 1 .. n : d[k] = 0
  \/ \E low \in 1 .. n : FirstIs(low, d, n) /\ text = SubSeq(d, low, n)

IntegerText(d, n) ==
  LET first == {k \in 1 .. n : d[k] # 0}
  IN  IF first = {} THEN <<0>>
      ELSE SubSeq(d, CHOOSE k \in first : \A j \in first : k <= j, n)

LEMMA LeastElement ==
  ASSUME NEW T \in SUBSET Nat, T # {}
  PROVE  \E low \in T : \A j \in T : low <= j
  <1> DEFINE Less == OpToRel(<, Nat)
  <1>1. \E low \in T : \A j \in T : ~(<<j, low>> \in Less)
    <2>1. IsWellFoundedOn(Less, Nat)
      BY NatLessThanWellFounded
    <2> HIDE DEF Less
    <2> QED
      BY <2>1, WFMin
  <1>2. PICK low \in T : \A j \in T : ~(<<j, low>> \in Less)
    BY <1>1
  <1>3. \A j \in T : ~(j < low)
    BY <1>2 DEF OpToRel
  <1> QED
    BY <1>3

LEMMA Lowest ==
  ASSUME NEW T \in SUBSET Int, NEW low \in T, \A j \in T : low <= j
  PROVE  (CHOOSE k \in T : \A j \in T : k <= j) = low
  <1> DEFINE c == CHOOSE k \in T : \A j \in T : k <= j
  <1>1. c \in T /\ \A j \in T : c <= j
    OBVIOUS
  <1>2. c <= low /\ low <= c /\ c \in Int /\ low \in Int
    BY <1>1
  <1> QED
    BY <1>2

LEMMA Highest ==
  ASSUME NEW T \in SUBSET Int, NEW high \in T, \A j \in T : high >= j
  PROVE  (CHOOSE k \in T : \A j \in T : k >= j) = high
  <1> DEFINE c == CHOOSE k \in T : \A j \in T : k >= j
  <1>1. c \in T /\ \A j \in T : c >= j
    OBVIOUS
  <1>2. c <= high /\ high <= c /\ c \in Int /\ high \in Int
    BY <1>1
  <1> QED
    BY <1>2

LEMMA DigitsBetween ==
  ASSUME NEW d \in Scratch, NEW m \in 1 .. SCRATCH_SIZE + 1, NEW n \in 0 .. SCRATCH_SIZE
  PROVE  /\ SubSeq(d, m, n) \in Seq(0 .. 9)
         /\ SubSeq(d, m, n) \in Seq(Chars)
         /\ Len(SubSeq(d, m, n)) = IF m <= n THEN n - m + 1 ELSE 0
         /\ \A p \in 1 .. n - m + 1 : SubSeq(d, m, n)[p] = d[m + p - 1]
  <1>1. \A p \in m .. n : d[p] \in 0 .. 9
    BY Sizes DEF Scratch
  <1>2. 0 .. 9 \subseteq Chars
    BY DEF Chars
  <1>3. m \in Int /\ n \in Int
    BY Sizes
  <1> QED
    BY <1>1, <1>2, <1>3, SubSeqProperties, SeqMonotonic

LEMMA OneMoreDigit ==
  ASSUME NEW d \in Scratch, NEW m \in 1 .. SCRATCH_SIZE, NEW n \in 0 .. SCRATCH_SIZE - 1,
         m <= n + 1
  PROVE  SubSeq(d, m, n + 1) = SubSeq(d, m, n) \o <<d[n + 1]>>
  <1>1. d \in Seq(0 .. 9) /\ Len(d) = SCRATCH_SIZE
    BY Sizes DEF Scratch
  <1>2. m \in 1 .. Len(d) /\ n + 1 \in m .. Len(d) /\ (n + 1) - 1 = n
    BY <1>1, Sizes
  <1>3. SubSeq(d, m, n + 1) = SubSeq(d, m, (n + 1) - 1) \o <<d[n + 1]>>
    BY <1>1, <1>2, SubSeqRecursiveSecond
  <1> QED
    BY <1>2, <1>3

LEMMA StrippedStep ==
  ASSUME NEW d \in Scratch, NEW n \in 0 .. SCRATCH_SIZE - 1, NEW text, Stripped(text, d, n)
  PROVE  Stripped(IF text = << >> /\ d[n + 1] = 0 THEN text ELSE Append(text, d[n + 1]),
                  d, n + 1)
  <1> DEFINE more == IF text = << >> /\ d[n + 1] = 0 THEN text ELSE Append(text, d[n + 1])
  <1>1. n + 1 \in 1 .. SCRATCH_SIZE /\ n + 1 \in Nat /\ n \in Nat
    BY Sizes
  <1>2. CASE text = << >> /\ \A k \in 1 .. n : d[k] = 0
    <2>1. CASE d[n + 1] = 0
      BY <1>1, <1>2, <2>1 DEF Stripped
    <2>2. CASE d[n + 1] # 0
      <3>1. FirstIs(n + 1, d, n + 1)
        BY <1>1, <1>2, <2>2 DEF FirstIs
      <3>2. SubSeq(d, n + 1, n) = << >>
        BY <1>1, SubSeqEmpty
      <3>3. SubSeq(d, n + 1, n + 1) = SubSeq(d, n + 1, n) \o <<d[n + 1]>>
        <4>1. n + 1 <= n + 1
          BY <1>1
        <4> HIDE DEF more
        <4> QED
          BY <1>1, <4>1, OneMoreDigit
      <3>4. SubSeq(d, n + 1, n + 1) = Append(text, d[n + 1])
        <4>1. d[n + 1] \in 0 .. 9
          BY <1>1 DEF Scratch
        <4>2. << >> \o <<d[n + 1]>> = Append(<< >>, d[n + 1])
          BY <4>1
        <4> QED
          BY <1>2, <3>2, <3>3, <4>2
      <3> QED
        BY <1>1, <2>2, <3>1, <3>4 DEF Stripped
    <2> QED
      BY <2>1, <2>2
  <1>3. ASSUME NEW low \in 1 .. n, FirstIs(low, d, n), text = SubSeq(d, low, n)
        PROVE  Stripped(more, d, n + 1)
    <2>1. low \in 1 .. SCRATCH_SIZE /\ low <= n + 1 /\ low \in 1 .. n + 1 /\ low <= n
      BY <1>1, Sizes
    <2>2. SubSeq(d, low, n + 1) = text \o <<d[n + 1]>>
      BY <1>3, <2>1, OneMoreDigit
    <2>3. text \in Seq(0 .. 9) /\ Len(text) = n - low + 1
      <3>1. low \in 1 .. SCRATCH_SIZE + 1 /\ n \in 0 .. SCRATCH_SIZE
        BY <2>1, Sizes
      <3> QED
        BY <1>3, <2>1, <3>1, DigitsBetween
    <2>4. d[n + 1] \in 0 .. 9
      BY <1>1 DEF Scratch
    <2>5. text # << >> /\ text \o <<d[n + 1]>> = Append(text, d[n + 1])
      BY <1>1, <2>1, <2>3, <2>4
    <2>6. FirstIs(low, d, n + 1)
      BY <1>3, <2>1 DEF FirstIs
    <2> QED
      BY <2>1, <2>2, <2>5, <2>6 DEF Stripped
  <1> QED
    BY <1>2, <1>3 DEF Stripped

LEMMA StrippedIsText ==
  ASSUME NEW d \in Scratch, NEW n \in 0 .. SCRATCH_SIZE, NEW text, Stripped(text, d, n)
  PROVE  /\ (IF text = << >> THEN <<0>> ELSE text) = IntegerText(d, n)
         /\ text \in Seq(0 .. 9) /\ Len(text) <= n
  <1> DEFINE first == {k \in 1 .. n : d[k] # 0}
  <1>1. CASE text = << >> /\ \A k \in 1 .. n : d[k] = 0
    <2>1. first = {}
      BY <1>1
    <2> QED
      BY <1>1, <2>1, EmptySeq DEF IntegerText
  <1>2. ASSUME NEW low \in 1 .. n, FirstIs(low, d, n), text = SubSeq(d, low, n)
        PROVE  /\ (IF text = << >> THEN <<0>> ELSE text) = IntegerText(d, n)
               /\ text \in Seq(0 .. 9) /\ Len(text) <= n
    <2>1. low \in first /\ first \in SUBSET Int /\ \A j \in first : low <= j
      <3>1. \A j \in first : low <= j
        <4> SUFFICES ASSUME NEW j \in first, j < low PROVE FALSE
          OBVIOUS
        <4>1. j \in 1 .. low - 1
          OBVIOUS
        <4> QED
          BY <1>2, <4>1 DEF FirstIs
      <3> QED
        BY <1>2, <3>1 DEF FirstIs
    <2>2. (CHOOSE k \in first : \A j \in first : k <= j) = low
      BY <2>1, Lowest
    <2>3. low \in 1 .. SCRATCH_SIZE + 1 /\ low <= n
      BY Sizes
    <2>4. text \in Seq(0 .. 9) /\ Len(text) = n - low + 1
      BY <1>2, <2>3, DigitsBetween
    <2>5. text # << >> /\ Len(text) <= n
      BY <2>3, <2>4
    <2>6. IntegerText(d, n) = SubSeq(d, low, n)
      BY <2>1, <2>2 DEF IntegerText
    <2> QED
      BY <1>2, <2>4, <2>5, <2>6
  <1> QED
    BY <1>1, <1>2 DEF Stripped

-----------------------------------------------------------------------------
(***************************************************************************)
(* The fraction: digits from + 1 .. from + n, and nothing of it if the     *)
(* first of them that is not looked at yet, and all after it, are zero.    *)
(***************************************************************************)
Fraction(d, from, n) ==
  IF n = 0 THEN << >> ELSE <<Point>> \o SubSeq(d, from + 1, from + n)

ZeroFrom(d, from, n) == \A k \in from + n + 1 .. SCRATCH_SIZE : d[k] = 0

LEMMA TextParts ==
  ASSUME NEW d \in Scratch, NEW dec \in 0 .. SCRATCH_SIZE, NEW n \in 0 .. dec,
         ZeroFrom(d, SCRATCH_SIZE - dec, n),
         n > 0 => ~ZeroFrom(d, SCRATCH_SIZE - dec, n - 1)
  PROVE  Text(d, dec) =
           IntegerText(d, SCRATCH_SIZE - dec) \o Fraction(d, SCRATCH_SIZE - dec, n)
  <1> DEFINE from == SCRATCH_SIZE - dec
             last == {k \in from + 1 .. SCRATCH_SIZE : d[k] # 0}
             high == CHOOSE k \in last : \A j \in last : k >= j
  <1>1. Text(d, dec) = IntegerText(d, from) \o
          (IF last = {} THEN << >> ELSE <<Point>> \o SubSeq(d, from + 1, high))
    BY DEF Text, IntegerText
  <1>2. from \in 0 .. SCRATCH_SIZE /\ from + dec = SCRATCH_SIZE
    BY Sizes
  <1>3. CASE n = 0
    <2>1. last = {}
      BY <1>2, <1>3 DEF ZeroFrom
    <2> QED
      BY <1>1, <1>3, <2>1 DEF Fraction
  <1>4. CASE n > 0
    <2>1. PICK k \in from + (n - 1) + 1 .. SCRATCH_SIZE : d[k] # 0
      BY <1>4 DEF ZeroFrom
    <2>2. k \notin from + n + 1 .. SCRATCH_SIZE
      BY <2>1 DEF ZeroFrom
    <2>3. k = from + n /\ k \in last
      BY <1>2, <1>4, <2>1, <2>2
    <2>4. last \in SUBSET Int /\ \A j \in last : k >= j
      <3>1. \A j \in last : k >= j
        <4> SUFFICES ASSUME NEW j \in last, j > k PROVE FALSE
          BY <2>3, <1>2
        <4>1. j \in from + n + 1 .. SCRATCH_SIZE
          BY <1>2, <2>3
        <4> QED
          BY <4>1 DEF ZeroFrom
      <3> QED
        BY <1>2, <3>1
    <2>5. high = from + n
      BY <2>3, <2>4, Highest
    <2>6. last # {}
      BY <2>3
    <2>7. Fraction(d, from, n) = <<Point>> \o SubSeq(d, from + 1, from + n)
      <3>1. n # 0
        BY <1>2, <1>4, Sizes
      <3> QED
        BY <3>1 DEF Fraction
    <2> HIDE DEF last, high
    <2> QED
      BY <1>1, <2>5, <2>6, <2>7
  <1> QED
    BY <1>3, <1>4

LEMMA FractionType ==
  ASSUME NEW d \in Scratch, NEW from \in 0 .. SCRATCH_SIZE,
         NEW n \in 0 .. SCRATCH_SIZE - from
  PROVE  /\ Fraction(d, from, n) \in Seq(Chars)
         /\ Len(Fraction(d, from, n)) = IF n = 0 THEN 0 ELSE n + 1
         /\ n > 0 => Fraction(d, from, n)[1] = Point
  <1>1. CASE n = 0
    BY <1>1, EmptySeq DEF Fraction
  <1>2. CASE n > 0
    <2> DEFINE digits == SubSeq(d, from + 1, from + n)
    <2>1. from + 1 \in 1 .. SCRATCH_SIZE + 1 /\ from + n \in 0 .. SCRATCH_SIZE
      BY Sizes
    <2>2. digits \in Seq(Chars) /\ Len(digits) = n
      <3>1. from + 1 <= from + n /\ (from + n) - (from + 1) + 1 = n
        BY <1>2
      <3> QED
        BY <2>1, <3>1, DigitsBetween
    <2>3. <<Point>> \in Seq(Chars) /\ Len(<<Point>>) = 1 /\ <<Point>>[1] = Point
      BY DEF Point, Chars
    <2>4. Fraction(d, from, n) = <<Point>> \o digits
      BY <1>2 DEF Fraction
    <2> HIDE DEF digits
    <2> QED
      BY <1>2, <2>2, <2>3, <2>4, ConcatProperties
  <1> QED
    BY <1>1, <1>2

LEMMA FractionStep ==
  ASSUME NEW d \in Scratch, NEW from \in 0 .. SCRATCH_SIZE,
         NEW n \in 0 .. SCRATCH_SIZE - from, n < SCRATCH_SIZE - from
  PROVE  Fraction(d, from, n + 1) =
           (Fraction(d, from, n) \o (IF n = 0 THEN <<Point>> ELSE << >>))
           \o <<d[from + n + 1]>>
  <1> DEFINE before == SubSeq(d, from + 1, from + n)
             digit  == <<d[from + n + 1]>>
  <1>1. from + 1 \in 1 .. SCRATCH_SIZE /\ from + n \in 0 .. SCRATCH_SIZE - 1
        /\ from + 1 <= from + n + 1 /\ from + (n + 1) = (from + n) + 1 /\ n + 1 # 0
    BY Sizes
  <1>2. SubSeq(d, from + 1, (from + n) + 1) = before \o digit
    BY <1>1, OneMoreDigit
  <1>3. Fraction(d, from, n + 1) = <<Point>> \o (before \o digit)
    BY <1>1, <1>2 DEF Fraction
  <1>4. before \in Seq(Chars)
    <2>1. from + 1 \in 1 .. SCRATCH_SIZE + 1 /\ from + n \in 0 .. SCRATCH_SIZE
      BY Sizes
    <2> QED
      BY <2>1, DigitsBetween
  <1>5. digit \in Seq(Chars) /\ <<Point>> \in Seq(Chars)
    <2>1. d[from + n + 1] \in 0 .. 9
      BY <1>1, Sizes DEF Scratch
    <2> QED
      BY <2>1 DEF Chars, Point
  <1>6. CASE n = 0
    <2>1. before = << >>
      BY <1>1, <1>6, SubSeqEmpty
    <2>2. Fraction(d, from, n) = << >>
      BY <1>6 DEF Fraction
    <2>3. before \o digit = digit /\ << >> \o <<Point>> = <<Point>>
      BY <1>5, <2>1, ConcatEmptySeq
    <2> QED
      BY <1>3, <1>6, <2>2, <2>3
  <1>7. CASE n # 0
    <2>1. Fraction(d, from, n) = <<Point>> \o before
      BY <1>7 DEF Fraction
    <2> HIDE DEF before, digit
    <2>2. (<<Point>> \o before) \o << >> = <<Point>> \o before
      BY <1>4, <1>5, ConcatProperties, ConcatEmptySeq
    <2>3. <<Point>> \o (before \o digit) = (<<Point>> \o before) \o digit
      BY <1>4, <1>5, ConcatAssociative, SMTT(30)
    <2> QED
      BY <1>3, <1>7, <2>1, <2>2, <2>3 DEF digit
  <1> QED
    BY <1>6, <1>7

LEMMA IntegerTextType ==
  ASSUME NEW d \in Scratch, NEW n \in 0 .. SCRATCH_SIZE
  PROVE  IntegerText(d, n) \in Seq(0 .. 9) /\ Len(IntegerText(d, n)) \in 1 .. n + 1
  <1> DEFINE first == {k \in 1 .. n : d[k] # 0}
             low   == CHOOSE k \in first : \A j \in first : k <= j
  <1>1. CASE first = {}
    <2>1. IntegerText(d, n) = <<0>>
      BY <1>1 DEF IntegerText
    <2> QED
      BY <2>1
  <1>2. CASE first # {}
    <2>1. low \in first
      <3>1. first \in SUBSET Nat
        OBVIOUS
      <3>2. \E k \in first : \A j \in first : k <= j
        <4> HIDE DEF first
        <4> QED
          BY <1>2, <3>1, LeastElement
      <3> HIDE DEF first
      <3> QED
        BY <3>2
    <2>2. IntegerText(d, n) = SubSeq(d, low, n)
      BY <1>2 DEF IntegerText
    <2>3. low \in 1 .. n /\ low \in 1 .. SCRATCH_SIZE + 1 /\ low <= n
      <3> HIDE DEF low
      <3> QED
        BY <2>1, Sizes
    <2> HIDE DEF low
    <2>4. SubSeq(d, low, n) \in Seq(0 .. 9) /\ Len(SubSeq(d, low, n)) = n - low + 1
      BY <2>3, DigitsBetween
    <2> QED
      BY <2>2, <2>3, <2>4
  <1> QED
    BY <1>1, <1>2

LEMMA TextSoFarType ==
  ASSUME NEW d \in Scratch, NEW from \in 0 .. SCRATCH_SIZE,
         NEW n \in 0 .. SCRATCH_SIZE - from
  PROVE  LET text == IntegerText(d, from) \o Fraction(d, from, n)
         IN  /\ text \in Seq(Chars)
             /\ Len(text) <= SCRATCH_SIZE + 2
             /\ (\E p \in DOMAIN text : text[p] = Point) <=> n > 0
  <1> DEFINE whole == IntegerText(d, from)
             rest  == Fraction(d, from, n)
             text  == whole \o rest
  <1>1. whole \in Seq(0 .. 9) /\ Len(whole) \in 1 .. from + 1
    BY IntegerTextType
  <1>2. rest \in Seq(Chars) /\ Len(rest) = (IF n = 0 THEN 0 ELSE n + 1)
        /\ (n > 0 => rest[1] = Point)
    BY FractionType
  <1>3. whole \in Seq(Chars)
    <2>1. 0 .. 9 \subseteq Chars
      BY DEF Chars
    <2> HIDE DEF whole
    <2> QED
      BY <1>1, <2>1, SeqMonotonic
  <1> HIDE DEF whole, rest
  <1>4. /\ text \in Seq(Chars)
        /\ Len(text) = Len(whole) + Len(rest)
        /\ \A p \in 1 .. Len(whole) + Len(rest) :
             text[p] = IF p <= Len(whole) THEN whole[p] ELSE rest[p - Len(whole)]
        /\ DOMAIN text = 1 .. Len(text)
    BY <1>2, <1>3, ConcatProperties, LenProperties
  <1>5. Len(text) <= SCRATCH_SIZE + 2
    BY <1>1, <1>2, <1>4, Sizes
  <1> HIDE DEF text
  <1>6. ASSUME n > 0 PROVE \E p \in DOMAIN text : text[p] = Point
    <2>1. Len(whole) + 1 \in DOMAIN text
      BY <1>1, <1>2, <1>4, <1>6, Sizes
    <2>2. text[Len(whole) + 1] = rest[1]
      BY <1>1, <1>2, <1>4, <1>6, Sizes
    <2> QED
      BY <1>2, <1>6, <2>1, <2>2
  <1>7. ASSUME n = 0, NEW p \in DOMAIN text PROVE text[p] # Point
    <2>1. p \in 1 .. Len(whole) /\ text[p] = whole[p]
      BY <1>1, <1>2, <1>4, <1>7, Sizes
    <2>2. whole[p] \in 0 .. 9
      BY <1>1, <2>1, ElementOfSeq
    <2> QED
      BY <2>1, <2>2 DEF Point
  <1>8. n > 0 \/ n = 0
    BY Sizes
  <1> QED
    BY <1>4, <1>5, <1>6, <1>7, <1>8 DEF text, whole, rest

-----------------------------------------------------------------------------
(***************************************************************************)
(* The loops between two rounds.  In the integer loop the cursor is the    *)
(* number of rounds; it cannot end when LOOP1 has wrapped, because scratch *)
(* ends before.  In the fraction the digit of the last round was not the   *)
(* last one that counts, or it was and is not zero.                        *)
(***************************************************************************)
TextTypeOK ==
  /\ pc \in {"bits", "integer", "fraction", "append", "shown", "thrown", "outside"}
  /\ decimals \in 0 .. 255
  /\ pc \notin {"bits", "thrown"} => st.err = "SUCCESS"

AtBits == pc = "bits" => i = 0 /\ offset = 0 /\ out = << >> /\ decimals = 0

AtInteger ==
  pc = "integer" =>
    /\ i \in 0 .. SCRATCH_SIZE /\ i <= LOOP1 /\ offset = i
    /\ Stripped(out, st.scratch, i)

AtFraction ==
  pc = "fraction" =>
    /\ decimals <= SCRATCH_SIZE
    /\ i \in 0 .. decimals
    /\ workOffset = SCRATCH_SIZE - decimals /\ offset = workOffset + i
    /\ out = IntegerText(st.scratch, workOffset) \o Fraction(st.scratch, workOffset, i)
    /\ i > 0 => ~ZeroFrom(st.scratch, workOffset, i - 1)

AtEnd ==
  /\ pc \in {"append", "shown", "thrown"} =>
       /\ decimals <= SCRATCH_SIZE
       /\ out \in Seq(Chars) /\ Len(out) <= SCRATCH_SIZE + 2
  /\ pc = "outside" => decimals > SCRATCH_SIZE

WritingInv ==
  TextTypeOK /\ AtBits /\ AtInteger /\ AtFraction /\ AtEnd /\ LoopsWriteText

TextInv == LoopInv /\ WritingInv

LEMMA Wraps ==
  ASSUME decimals \in 0 .. 255
  PROVE  /\ decimals <= SCRATCH_SIZE => LOOP1 = SCRATCH_SIZE - decimals
         /\ decimals > SCRATCH_SIZE => LOOP1 > SCRATCH_SIZE
         /\ LOOP1 \in Nat
  BY Sizes DEF LOOP1, uint8

LEMMA ScratchNow ==
  ASSUME TextInv, pc \notin {"bits", "thrown"}
  PROVE  st.scratch \in Scratch
  BY DecimalState DEF TextInv, WritingInv, TextTypeOK, Scratch

LEMMA InitText == TextInit => TextInv
  <1> SUFFICES ASSUME TextInit PROVE TextInv
    OBVIOUS
  <1>1. LoopInv
    BY LoopInvInitially DEF TextInit
  <1>2. WritingInv
    BY DEF TextInit, WritingInv, TextTypeOK, AtBits, AtInteger, AtFraction, AtEnd,
           LoopsWriteText
  <1> QED
    BY <1>1, <1>2 DEF TextInv

LEMMA BitsInv == TextInv /\ ShiftBit => TextInv'
  <1> SUFFICES ASSUME TextInv, ShiftBit PROVE TextInv'
    OBVIOUS
  <1>1. LoopInv'
    BY LoopInvInductive DEF TextInv, ShiftBit
  <1>2. WritingInv'
    BY DEF TextInv, ShiftBit, atext, WritingInv, TextTypeOK, AtBits, AtInteger, AtFraction,
           AtEnd, LoopsWriteText
  <1> QED
    BY <1>1, <1>2 DEF TextInv

LEMMA SameLoop == LoopInv /\ UNCHANGED loop => LoopInv'
  BY LoopInvInductive

LEMMA BitsEndInv == TextInv /\ BitsEnd => TextInv'
  <1> SUFFICES ASSUME TextInv, BitsEnd PROVE TextInv'
    OBVIOUS
  <1>1. LoopInv' /\ st' = st
    BY SameLoop DEF TextInv, BitsEnd, loop
  <1>2. CASE st.err = "SUCCESS"
    <2>1. /\ pc' = "integer" /\ decimals' \in 0 .. 255
          /\ i' = 0 /\ offset' = 0 /\ out' = << >>
      BY <1>2, AmountTextAssumption DEF BitsEnd, TextInv, WritingInv, AtBits
    <2>2. Stripped(out', st'.scratch, i')
      BY <2>1 DEF Stripped
    <2>3. LOOP1' \in Nat
      <3>1. SCRATCH_SIZE - decimals' \in Int
        BY <2>1, Sizes
      <3>2. (SCRATCH_SIZE - decimals') % 256 \in Nat
        BY <3>1
      <3> QED
        BY <3>2 DEF LOOP1, uint8
    <2> QED
      BY <1>1, <1>2, <2>1, <2>2, <2>3, Sizes
         DEF TextInv, WritingInv, TextTypeOK, AtBits, AtInteger, AtFraction, AtEnd,
             LoopsWriteText
  <1>3. CASE st.err # "SUCCESS"
    <2>1. pc' = "thrown" /\ decimals' = 0 /\ out' = << >>
      BY <1>3 DEF BitsEnd, TextInv, WritingInv, AtBits
    <2>2. out' \in Seq(Chars) /\ Len(out') = 0
      BY <2>1, EmptySeq
    <2> QED
      BY <1>1, <2>1, <2>2, Sizes
         DEF TextInv, WritingInv, TextTypeOK, AtBits, AtInteger, AtFraction, AtEnd,
             LoopsWriteText
  <1> QED
    BY <1>2, <1>3

LEMMA IntegerDigitInv == TextInv /\ IntegerDigit => TextInv'
  <1> SUFFICES ASSUME TextInv, IntegerDigit PROVE TextInv'
    OBVIOUS
  <1>1. LoopInv' /\ st' = st /\ decimals' = decimals
    BY SameLoop DEF TextInv, IntegerDigit, loop
  <1>2. /\ pc = "integer" /\ i < LOOP1 /\ offset = i /\ i \in 0 .. SCRATCH_SIZE
        /\ Stripped(out, st.scratch, i) /\ decimals \in 0 .. 255 /\ st.err = "SUCCESS"
    BY DEF TextInv, WritingInv, TextTypeOK, AtInteger, IntegerDigit
  <1>3. CASE ~InScratch(offset)
    <2>1. decimals > SCRATCH_SIZE
      BY <1>2, <1>3, Wraps, Sizes DEF InScratch
    <2>2. pc' = "outside"
      BY <1>3 DEF IntegerDigit
    <2> QED
      BY <1>1, <1>2, <2>1, <2>2
         DEF TextInv, WritingInv, TextTypeOK, AtBits, AtInteger, AtFraction, AtEnd,
             LoopsWriteText
  <1>4. CASE InScratch(offset)
    <2>1. /\ out' = IF out = << >> /\ st.scratch[i + 1] = 0 THEN out
                    ELSE Append(out, st.scratch[i + 1])
          /\ offset' = i + 1 /\ i' = i + 1 /\ pc' = "integer"
      BY <1>2, <1>4 DEF IntegerDigit, Digit
    <2>2. i \in 0 .. SCRATCH_SIZE - 1
      BY <1>2, <1>4, Sizes DEF InScratch
    <2>3. st.scratch \in Scratch
      BY <1>2, ScratchNow
    <2>4. Stripped(out', st'.scratch, i + 1)
      BY <1>1, <1>2, <2>1, <2>2, <2>3, StrippedStep
    <2>5. i + 1 <= LOOP1' /\ i + 1 \in 0 .. SCRATCH_SIZE
      <3>1. LOOP1' = LOOP1 /\ LOOP1 \in Nat
        BY <1>1, <1>2, Wraps DEF LOOP1
      <3> QED
        BY <1>2, <2>2, <3>1, Sizes
    <2> QED
      BY <1>1, <1>2, <2>1, <2>4, <2>5
         DEF TextInv, WritingInv, TextTypeOK, AtBits, AtInteger, AtFraction, AtEnd,
             LoopsWriteText
  <1> QED
    BY <1>3, <1>4

LEMMA IntegerEndInv == TextInv /\ IntegerEnd => TextInv'
  <1> SUFFICES ASSUME TextInv, IntegerEnd PROVE TextInv'
    OBVIOUS
  <1>1. LoopInv' /\ st' = st /\ decimals' = decimals /\ pc' = "fraction" /\ i' = 0
        /\ offset' = offset /\ workOffset' = offset
    BY SameLoop DEF TextInv, IntegerEnd, loop
  <1>2. /\ pc = "integer" /\ i = LOOP1 /\ offset = i /\ i \in 0 .. SCRATCH_SIZE
        /\ Stripped(out, st.scratch, i) /\ decimals \in 0 .. 255 /\ st.err = "SUCCESS"
    BY DEF TextInv, WritingInv, TextTypeOK, AtInteger, IntegerEnd
  <1>3. decimals <= SCRATCH_SIZE /\ i = SCRATCH_SIZE - decimals
    BY <1>2, Wraps, Sizes
  <1>4. st.scratch \in Scratch
    BY <1>2, ScratchNow
  <1>5. out' = IntegerText(st.scratch, i)
    BY <1>2, <1>4, StrippedIsText DEF IntegerEnd
  <1>6. out' = IntegerText(st.scratch, i) \o Fraction(st.scratch, i, 0)
    <2>1. IntegerText(st.scratch, i) \in Seq(0 .. 9)
      BY <1>2, <1>4, IntegerTextType
    <2>2. Fraction(st.scratch, i, 0) = << >>
      BY DEF Fraction
    <2> QED
      BY <1>5, <2>1, <2>2, ConcatEmptySeq
  <1> QED
    BY <1>1, <1>2, <1>3, <1>6, Sizes
       DEF TextInv, WritingInv, TextTypeOK, AtBits, AtInteger, AtFraction, AtEnd,
           LoopsWriteText

LEMMA AllZeroIsZeroFrom ==
  ASSUME decimals \in 0 .. SCRATCH_SIZE, i \in 0 .. decimals,
         workOffset = SCRATCH_SIZE - decimals
  PROVE  allZero <=> ZeroFrom(st.scratch, workOffset, i)
  <1>1. ASSUME allZero, NEW k \in workOffset + i + 1 .. SCRATCH_SIZE
        PROVE  st.scratch[k] = 0
    <2>1. k - workOffset - 1 \in i .. LOOP2 - 1 /\ workOffset + (k - workOffset - 1) + 1 = k
      BY <1>1, Sizes DEF LOOP2
    <2> QED
      BY <1>1, <2>1 DEF allZero, Digit
  <1>2. ASSUME ZeroFrom(st.scratch, workOffset, i), NEW k \in i .. LOOP2 - 1
        PROVE  Digit(workOffset + k) = 0
    <2>1. workOffset + k + 1 \in workOffset + i + 1 .. SCRATCH_SIZE
      BY Sizes DEF LOOP2
    <2> QED
      BY <1>2, <2>1 DEF ZeroFrom, Digit
  <1> QED
    BY <1>1, <1>2 DEF allZero, ZeroFrom

\* The text is complete when no digit from here on counts.
LEMMA FractionComplete ==
  ASSUME TextInv, pc = "fraction", ZeroFrom(st.scratch, workOffset, i)
  PROVE  /\ out = Text(st.scratch, decimals)
         /\ out \in Seq(Chars) /\ Len(out) <= SCRATCH_SIZE + 2
         /\ decimals <= SCRATCH_SIZE
  <1>1. /\ decimals \in 0 .. SCRATCH_SIZE /\ i \in 0 .. decimals
        /\ workOffset = SCRATCH_SIZE - decimals
        /\ out = IntegerText(st.scratch, workOffset) \o Fraction(st.scratch, workOffset, i)
        /\ i > 0 => ~ZeroFrom(st.scratch, workOffset, i - 1)
    BY Sizes DEF TextInv, WritingInv, TextTypeOK, AtFraction
  <1>2. st.scratch \in Scratch
    BY ScratchNow
  <1>3. out = Text(st.scratch, decimals)
    BY <1>1, <1>2, TextParts
  <1>4. workOffset \in 0 .. SCRATCH_SIZE /\ i \in 0 .. SCRATCH_SIZE - workOffset
    BY <1>1, Sizes
  <1>5. out \in Seq(Chars) /\ Len(out) <= SCRATCH_SIZE + 2
    BY <1>1, <1>2, <1>4, TextSoFarType
  <1> QED
    BY <1>1, <1>3, <1>5

LEMMA FractionEnds ==
  ASSUME TextInv, pc = "fraction", ZeroFrom(st.scratch, workOffset, i),
         pc' = "append", UNCHANGED <<loop, decimals, out>>
  PROVE  TextInv'
  <1>1. LoopInv' /\ st' = st
    BY SameLoop DEF TextInv, loop
  <1>2. /\ out' = Text(st'.scratch, decimals')
        /\ out' \in Seq(Chars) /\ Len(out') <= SCRATCH_SIZE + 2
        /\ decimals' <= SCRATCH_SIZE
    BY <1>1, FractionComplete
  <1> QED
    BY <1>1, <1>2
       DEF TextInv, WritingInv, TextTypeOK, AtBits, AtInteger, AtFraction, AtEnd,
           LoopsWriteText

LEMMA FractionDigitInv == TextInv /\ FractionDigit => TextInv'
  <1> SUFFICES ASSUME TextInv, FractionDigit PROVE TextInv'
    OBVIOUS
  <1>1. /\ pc = "fraction" /\ decimals \in 0 .. SCRATCH_SIZE /\ i \in 0 .. decimals
        /\ workOffset = SCRATCH_SIZE - decimals /\ offset = workOffset + i
        /\ out = IntegerText(st.scratch, workOffset) \o Fraction(st.scratch, workOffset, i)
        /\ st.err = "SUCCESS"
    BY Sizes DEF TextInv, WritingInv, TextTypeOK, AtFraction, FractionDigit
  <1>2. CASE allZero
    <2>1. pc' = "append" /\ UNCHANGED <<loop, decimals, out>>
      BY <1>2 DEF FractionDigit
    <2>2. ZeroFrom(st.scratch, workOffset, i)
      BY <1>1, <1>2, AllZeroIsZeroFrom
    <2> QED
      BY <1>1, <2>1, <2>2, FractionEnds
  <1>3. CASE ~allZero
    <2> DEFINE digit == st.scratch[workOffset + i + 1]
               whole == IntegerText(st.scratch, workOffset)
               rest  == Fraction(st.scratch, workOffset, i)
               point == IF i = 0 THEN <<Point>> ELSE << >>
    <2>1. LoopInv' /\ st' = st /\ decimals' = decimals /\ workOffset' = workOffset
          /\ offset' = offset + 1 /\ i' = i + 1 /\ pc' = "fraction"
      BY <1>1, <1>3, SameLoop DEF TextInv, FractionDigit, loop
    <2>2. st.scratch \in Scratch
      BY <1>1, ScratchNow
    <2>3. workOffset \in 0 .. SCRATCH_SIZE /\ i \in 0 .. SCRATCH_SIZE - workOffset
          /\ i < SCRATCH_SIZE - workOffset /\ i + 1 \in 0 .. decimals
      BY <1>1, Sizes DEF FractionDigit, LOOP2
    <2>4. HasPoint <=> i > 0
      BY <1>1, <2>2, <2>3, TextSoFarType DEF HasPoint
    <2>5. out' = (out \o point) \o <<digit>>
      <3>1. (IF HasPoint THEN << >> ELSE <<Point>>) = point
        BY <1>1, <2>3, <2>4
      <3>2. Digit(offset) = digit
        BY <1>1 DEF Digit
      <3>3. out' = out \o (IF HasPoint THEN << >> ELSE <<Point>>) \o <<Digit(offset)>>
        BY <1>3 DEF FractionDigit
      <3> HIDE DEF point, digit
      <3> QED
        BY <3>1, <3>2, <3>3
    <2>6. /\ whole \in Seq(Chars) /\ rest \in Seq(Chars)
          /\ point \in Seq(Chars) /\ <<digit>> \in Seq(Chars)
      <3>1. rest \in Seq(Chars)
        BY <2>2, <2>3, FractionType
      <3>2. whole \in Seq(Chars)
        <4>1. whole \in Seq(0 .. 9)
          BY <2>2, <2>3, IntegerTextType
        <4>2. 0 .. 9 \subseteq Chars
          BY DEF Chars
        <4> HIDE DEF whole
        <4> QED
          BY <4>1, <4>2, SeqMonotonic
      <3>3. point \in Seq(Chars)
        <4>1. <<Point>> \in Seq(Chars) /\ << >> \in Seq(Chars)
          BY DEF Chars, Point
        <4> QED
          BY <4>1
      <3>4. <<digit>> \in Seq(Chars)
        <4>1. workOffset + i + 1 \in 1 .. SCRATCH_SIZE
          BY <2>3, Sizes
        <4>2. digit \in Chars
          <5>1. digit \in 0 .. 9
            BY <2>2, <4>1 DEF Scratch
          <5> HIDE DEF digit
          <5> QED
            BY <5>1 DEF Chars
        <4> HIDE DEF digit
        <4> QED
          BY <4>2
      <3> QED
        BY <3>1, <3>2, <3>3, <3>4
    <2>7. out' = whole \o Fraction(st.scratch, workOffset, i + 1)
      <3>1. Fraction(st.scratch, workOffset, i + 1) = (rest \o point) \o <<digit>>
        BY <2>2, <2>3, FractionStep
      <3>2. out = whole \o rest
        BY <1>1
      <3> HIDE DEF whole, rest, point, digit
      <3>3. out' = (whole \o (rest \o point)) \o <<digit>>
        BY <2>5, <2>6, <3>2, ConcatAssociative
      <3>4. rest \o point \in Seq(Chars)
        BY <2>6, ConcatProperties
      <3>5. (whole \o (rest \o point)) \o <<digit>> = whole \o ((rest \o point) \o <<digit>>)
        BY <2>6, <3>4, ConcatAssociative
      <3> QED
        BY <3>1, <3>3, <3>5
    <2>8. ~ZeroFrom(st.scratch, workOffset, (i + 1) - 1)
      <3>1. (i + 1) - 1 = i
        BY <2>3, Sizes
      <3> QED
        BY <1>1, <1>3, <3>1, AllZeroIsZeroFrom
    <2>9. AtFraction'
      BY <1>1, <2>1, <2>3, <2>7, <2>8, Sizes DEF AtFraction
    <2> QED
      BY <1>1, <2>1, <2>9
         DEF TextInv, WritingInv, TextTypeOK, AtBits, AtInteger, AtEnd, LoopsWriteText
  <1> QED
    BY <1>2, <1>3

LEMMA FractionEndInv == TextInv /\ FractionEnd => TextInv'
  <1> SUFFICES ASSUME TextInv, FractionEnd PROVE TextInv'
    OBVIOUS
  <1>1. pc = "fraction" /\ pc' = "append" /\ UNCHANGED <<loop, decimals, out>>
    BY DEF FractionEnd
  <1>2. /\ decimals \in 0 .. SCRATCH_SIZE /\ i = decimals
        /\ workOffset = SCRATCH_SIZE - decimals
    BY Sizes DEF TextInv, WritingInv, TextTypeOK, AtFraction, FractionEnd, LOOP2
  <1>3. ZeroFrom(st.scratch, workOffset, i)
    BY <1>2, Sizes DEF ZeroFrom
  <1> QED
    BY <1>1, <1>3, FractionEnds

LEMMA SetAmountInv == TextInv /\ set_amount => TextInv'
  <1> SUFFICES ASSUME TextInv, set_amount PROVE TextInv'
    OBVIOUS
  <1>1. /\ pc = "append" /\ pc' \in {"shown", "thrown"}
        /\ UNCHANGED <<loop, decimals, i, offset, workOffset, out>>
    BY DEF set_amount
  <1>2. LoopInv' /\ st' = st
    BY <1>1, SameLoop DEF TextInv, loop
  <1> QED
    BY <1>1, <1>2
       DEF TextInv, WritingInv, TextTypeOK, AtBits, AtInteger, AtFraction, AtEnd,
           LoopsWriteText

LEMMA TextAlways == TextSpec => []TextInv
  <1>1. TextInv /\ [TextNext]_<<loop, atext, pc>> => TextInv'
    <2> SUFFICES ASSUME TextInv, [TextNext]_<<loop, atext, pc>> PROVE TextInv'
      OBVIOUS
    <2>1. CASE TextNext
      BY <2>1, BitsInv, BitsEndInv, IntegerDigitInv, IntegerEndInv, FractionDigitInv,
         FractionEndInv, SetAmountInv DEF TextNext
    <2>2. CASE UNCHANGED <<loop, atext, pc>>
      <3>1. LoopInv' /\ st' = st
        BY <2>2, SameLoop DEF TextInv, loop
      <3> QED
        BY <2>2, <3>1
           DEF TextInv, atext, WritingInv, TextTypeOK, AtBits, AtInteger, AtFraction, AtEnd,
               LoopsWriteText, LOOP1
    <2> QED
      BY <2>1, <2>2
  <1> QED
    BY <1>1, InitText, PTL DEF TextSpec

-----------------------------------------------------------------------------
(***************************************************************************)
(* LoopsAlwaysInside: the loops read within scratch and write within       *)
(* amount_str for every number of decimals up to SCRATCH_SIZE, and with    *)
(* more they never come to a text (utils.c:119, 155-185).                  *)
(***************************************************************************)
THEOREM LoopsAlwaysInside == TextSpec => []LoopsStayInside
  <1>1. TextInv => LoopsStayInside
    <2> SUFFICES ASSUME TextInv PROVE LoopsStayInside
      OBVIOUS
    <2>1. decimals \in 0 .. 255 /\ pc \in {"bits", "integer", "fraction", "append", "shown",
                                          "thrown", "outside"}
      BY DEF TextInv, WritingInv, TextTypeOK
    <2>2. CASE pc = "bits"
      BY <2>2, Sizes DEF TextInv, WritingInv, AtBits, LoopsStayInside
    <2>3. CASE pc = "integer"
      <3>1. i \in 0 .. SCRATCH_SIZE /\ Stripped(out, st.scratch, i)
        BY <2>3 DEF TextInv, WritingInv, AtInteger
      <3>2. Len(out) <= i /\ Len(out) \in Nat
        <4>1. st.scratch \in Scratch
          BY <2>3, ScratchNow
        <4> QED
          BY <3>1, <4>1, StrippedIsText, LenProperties
      <3> QED
        BY <2>3, <3>1, <3>2, Sizes DEF LoopsStayInside
    <2>4. CASE pc = "fraction"
      <3>1. /\ decimals <= SCRATCH_SIZE /\ i \in 0 .. decimals
            /\ workOffset = SCRATCH_SIZE - decimals
            /\ out = IntegerText(st.scratch, workOffset)
                     \o Fraction(st.scratch, workOffset, i)
        BY <2>4 DEF TextInv, WritingInv, AtFraction
      <3>2. workOffset \in 0 .. SCRATCH_SIZE /\ i \in 0 .. SCRATCH_SIZE - workOffset
            /\ workOffset + LOOP2 <= SCRATCH_SIZE
        BY <2>1, <3>1, Sizes DEF LOOP2
      <3>3. out \in Seq(Chars) /\ Len(out) <= SCRATCH_SIZE + 2
        <4>1. st.scratch \in Scratch
          BY <2>4, ScratchNow
        <4> QED
          BY <3>1, <3>2, <4>1, TextSoFarType
      <3>4. Len(out) <= AMOUNT_STR_SIZE
        BY <3>3, LenProperties, Sizes
      <3> QED
        BY <2>1, <2>4, <3>1, <3>2, <3>4, Sizes DEF LoopsStayInside
    <2>5. CASE pc \in {"append", "shown", "thrown", "outside"}
      <3>1. pc # "outside" => decimals <= SCRATCH_SIZE /\ Len(out) <= AMOUNT_STR_SIZE
        BY <2>5, LenProperties, Sizes DEF TextInv, WritingInv, AtEnd
      <3>2. pc = "outside" => decimals > SCRATCH_SIZE
        BY DEF TextInv, WritingInv, AtEnd
      <3> QED
        <4>1. CASE pc = "outside"
          <5>1. decimals > SCRATCH_SIZE /\ ~(decimals <= SCRATCH_SIZE)
            BY <2>1, <3>2, <4>1, Sizes
          <5> QED
            BY <4>1, <5>1 DEF LoopsStayInside
        <4>2. CASE pc \in {"append", "shown", "thrown"}
          <5>1. ~(decimals > SCRATCH_SIZE)
            BY <2>1, <3>1, <4>2, Sizes
          <5>2. pc # "outside" /\ pc # "fraction"
            BY <4>2
          <5> QED
            BY <3>1, <5>1, <5>2 DEF LoopsStayInside
        <4> QED
          BY <2>5, <4>1, <4>2
    <2> QED
      BY <2>1, <2>2, <2>3, <2>4, <2>5
  <1> QED
    BY <1>1, TextAlways, PTL

(***************************************************************************)
(* LoopsAlwaysText: the two loops write the integer part without leading   *)
(* zeros, and the point and the fraction without trailing zeros if there   *)
(* is one: the text the messages' model shows (utils.c:155-185).           *)
(***************************************************************************)
THEOREM LoopsAlwaysText == TextSpec => []LoopsWriteText
  <1>1. TextInv => LoopsWriteText
    BY DEF TextInv, WritingInv
  <1> QED
    BY <1>1, TextAlways, PTL

-----------------------------------------------------------------------------
(***************************************************************************)
(* C strings.                                                              *)
(***************************************************************************)
LEMMA StringEnds ==
  ASSUME NEW array \in Seq(Nat), NEW behind \in Seq(Nat),
         NEW n \in 1 .. Len(array \o behind), (array \o behind)[n] = Nul,
         \A p \in 1 .. n - 1 : (array \o behind)[p] # Nul
  PROVE  CString(array, behind) = SubSeq(array \o behind, 1, n - 1)
  <1> DEFINE all  == array \o behind
             ends == {p \in DOMAIN all : all[p] = Nul}
  <1>1. all \in Seq(Nat) /\ DOMAIN all = 1 .. Len(all) /\ Len(all) \in Nat
    BY ConcatProperties, LenProperties
  <1>2. n \in ends
    BY <1>1
  <1>3. ends \in SUBSET Int
    BY <1>1
  <1>4. \A q \in ends : n <= q
    <2> SUFFICES ASSUME NEW q \in ends, q < n PROVE FALSE
      BY <1>1
    <2>1. q \in 1 .. n - 1
      BY <1>1
    <2> QED
      BY <2>1
  <1>5. (CHOOSE p \in ends : \A q \in ends : p <= q) = n
    <2> HIDE DEF ends
    <2> QED
      BY <1>2, <1>3, <1>4, Lowest
  <1> QED
    BY <1>5 DEF CString

LEMMA NulsAre ==
  ASSUME NEW n \in Nat
  PROVE  /\ Nuls(n) \in Seq(Nat) /\ Len(Nuls(n)) = n
         /\ \A p \in 1 .. n : Nuls(n)[p] = Nul
  BY DEF Nuls, Nul

\* The string in an array that has a first NUL within its bytes or behind.
LEMMA StringOf ==
  ASSUME NEW bytes \in Seq(Nat), NEW more \in Seq(Nat), NEW rest \in Seq(Nat),
         NEW n \in 1 .. Len(bytes) + 1,
         \A p \in 1 .. n - 1 : bytes[p] # Nul,
         n <= Len(bytes) => bytes[n] = Nul,
         n = Len(bytes) + 1 => /\ Len(more) + Len(rest) > 0
                               /\ (more \o rest)[1] = Nul
  PROVE  CString(bytes \o more, rest) = SubSeq(bytes, 1, n - 1)
  <1> DEFINE after == more \o rest
             all   == bytes \o after
  <1>1. /\ after \in Seq(Nat) /\ Len(after) = Len(more) + Len(rest)
        /\ bytes \o more \in Seq(Nat)
        /\ Len(bytes) \in Nat /\ Len(more) \in Nat /\ Len(rest) \in Nat
    BY ConcatProperties, LenProperties
  <1>2. (bytes \o more) \o rest = all
    <2> DEFINE Bytes == Nat
    <2>1. bytes \in Seq(Bytes) /\ more \in Seq(Bytes) /\ rest \in Seq(Bytes)
      OBVIOUS
    <2> HIDE DEF Bytes
    <2>2. (bytes \o more) \o rest = bytes \o (more \o rest)
      BY ONLY <2>1, ConcatAssociative, SMTT(60)
    <2> QED
      BY <2>2
  <1> HIDE DEF after
  <1>3. /\ all \in Seq(Nat) /\ Len(all) = Len(bytes) + Len(after)
        /\ \A p \in 1 .. Len(bytes) + Len(after) :
             all[p] = IF p <= Len(bytes) THEN bytes[p] ELSE after[p - Len(bytes)]
    BY <1>1, ConcatProperties, ZenonT(40)
  <1> HIDE DEF all
  <1>4. n \in 1 .. Len(all) /\ all[n] = Nul
    <2>1. CASE n <= Len(bytes)
      BY <1>1, <1>3, <2>1, SMTT(30)
    <2>2. CASE n = Len(bytes) + 1
      <3>1. n \in 1 .. Len(bytes) + Len(after) /\ n - Len(bytes) = 1 /\ ~(n <= Len(bytes))
        BY <1>1, <2>2
      <3>2. after[1] = Nul
        BY <2>2 DEF after
      <3> QED
        BY <1>3, <3>1, <3>2
    <2> QED
      BY <1>1, <2>1, <2>2
  <1>5. \A p \in 1 .. n - 1 : all[p] = bytes[p] /\ p \in 1 .. Len(bytes)
    BY <1>1, <1>3, SMTT(30)
  <1>6. CString(bytes \o more, rest) = SubSeq(all, 1, n - 1)
    <2>1. \A p \in 1 .. n - 1 : all[p] # Nul
      BY <1>5
    <2> QED
      BY <1>1, <1>2, <1>4, <2>1, StringEnds
  <1>7. SubSeq(all, 1, n - 1) = SubSeq(bytes, 1, n - 1)
    <2>1. \A p \in 1 .. n - 1 : all[p] \in Nat /\ bytes[p] \in Nat
      BY <1>5, ElementOfSeq
    <2>2. n - 1 \in Int /\ n - 1 \in Nat
      BY <1>1
    <2> DEFINE a == SubSeq(all, 1, n - 1)
               b == SubSeq(bytes, 1, n - 1)
    <2>3. a \in Seq(Nat) /\ Len(a) = n - 1 /\ \A p \in 1 .. n - 1 : a[p] = all[p]
      BY <2>1, <2>2, SubSeqProperties
    <2>4. b \in Seq(Nat) /\ Len(b) = n - 1 /\ \A p \in 1 .. n - 1 : b[p] = bytes[p]
      BY <2>1, <2>2, SubSeqProperties
    <2> HIDE DEF a, b
    <2>5. a = b
      BY <1>5, <2>3, <2>4, SeqEqual
    <2> QED
      BY <2>5 DEF a, b
  <1> QED
    BY <1>6, <1>7

\* Where the string in some bytes ends: at their first NUL, or behind them.
LEMMA FirstNul ==
  ASSUME NEW bytes \in Seq(Nat)
  PROVE  \E n \in 1 .. Len(bytes) + 1 :
           /\ \A p \in 1 .. n - 1 : bytes[p] # Nul
           /\ n <= Len(bytes) => bytes[n] = Nul
  <1> DEFINE ends == {p \in 1 .. Len(bytes) : bytes[p] = Nul} \cup {Len(bytes) + 1}
  <1>1. Len(bytes) \in Nat
    BY LenProperties
  <1>2. ends \in SUBSET Nat /\ ends # {}
    BY <1>1
  <1>3. PICK n \in ends : \A q \in ends : n <= q
    <2> HIDE DEF ends
    <2> QED
      BY <1>2, LeastElement
  <1>4. n \in 1 .. Len(bytes) + 1 /\ (n <= Len(bytes) => bytes[n] = Nul)
    BY <1>1, <1>3
  <1>5. \A p \in 1 .. n - 1 : bytes[p] # Nul
    <2> SUFFICES ASSUME NEW p \in 1 .. n - 1, bytes[p] = Nul PROVE FALSE
      OBVIOUS
    <2>1. p \in ends /\ ~(n <= p)
      BY <1>1, <1>4
    <2> QED
      BY <1>3, <2>1
  <1> QED
    BY <1>4, <1>5

TickerEnds(t) == Len(t) < MAX_TICKER_LEN \/ \E p \in DOMAIN t : t[p] = Nul

LEMMA TickerString ==
  ASSUME NEW t \in Seq(Nat), Len(t) \in 1 .. MAX_TICKER_LEN, TickerEnds(t),
         NEW rest \in Seq(Nat), MAX_TICKER_LEN \in Nat
  PROVE  /\ CString(TickerArray(t), rest) = CString(t, <<Nul>>)
         /\ CString(t, <<Nul>>) \in Seq(Nat)
         /\ \A p \in 1 .. Len(CString(t, <<Nul>>)) : CString(t, <<Nul>>)[p] # Nul
  <1> DEFINE zeros == Nuls(MAX_TICKER_LEN - Len(t))
  <1>1. Len(t) \in Nat /\ DOMAIN t = 1 .. Len(t)
    BY LenProperties
  <1>2. PICK n \in 1 .. Len(t) + 1 :
          /\ \A p \in 1 .. n - 1 : t[p] # Nul
          /\ n <= Len(t) => t[n] = Nul
    BY FirstNul
  <1>3. /\ zeros \in Seq(Nat) /\ Len(zeros) = MAX_TICKER_LEN - Len(t)
        /\ \A p \in 1 .. MAX_TICKER_LEN - Len(t) : zeros[p] = Nul
    <2>1. MAX_TICKER_LEN - Len(t) \in Nat
      BY <1>1
    <2> QED
      BY <2>1, NulsAre
  <1> HIDE DEF zeros
  <1>4. n = Len(t) + 1 => Len(zeros) > 0
    <2> SUFFICES ASSUME n = Len(t) + 1 PROVE Len(zeros) > 0
      OBVIOUS
    <2>1. ~ \E p \in DOMAIN t : t[p] = Nul
      BY <1>1, <1>2
    <2> QED
      BY <1>1, <1>3, <2>1 DEF TickerEnds
  <1>5. CString(TickerArray(t), rest) = SubSeq(t, 1, n - 1)
    <2>1. n = Len(t) + 1 => Len(zeros) + Len(rest) > 0 /\ (zeros \o rest)[1] = Nul
      <3> SUFFICES ASSUME n = Len(t) + 1
                   PROVE  Len(zeros) + Len(rest) > 0 /\ (zeros \o rest)[1] = Nul
        OBVIOUS
      <3>1. Len(zeros) > 0 /\ Len(rest) \in Nat /\ zeros[1] = Nul /\ Len(zeros) \in Nat
        BY <1>1, <1>3, <1>4, LenProperties
      <3>2. 1 \in 1 .. Len(zeros) + Len(rest) /\ 1 <= Len(zeros)
        BY <3>1
      <3>3. (zeros \o rest)[1] = zeros[1]
        BY <1>3, <3>2, ConcatProperties
      <3> QED
        BY <3>1, <3>3
    <2>2. CString(t \o zeros, rest) = SubSeq(t, 1, n - 1)
      BY <1>2, <1>3, <2>1, StringOf
    <2> QED
      BY <2>2 DEF TickerArray, zeros
  <1>6. CString(t, <<Nul>>) = SubSeq(t, 1, n - 1)
    <2> DEFINE one  == <<Nul>>
               none == << >>
    <2>1. none \in Seq(Nat) /\ one \in Seq(Nat) /\ Len(one) = 1 /\ Len(none) = 0
          /\ one[1] = Nul
      BY DEF Nul
    <2>2. (none \o one)[1] = Nul
      <3> HIDE DEF one
      <3> QED
        BY <2>1, ConcatEmptySeq
    <2> HIDE DEF one, none
    <2>3. n = Len(t) + 1 => Len(none) + Len(one) > 0 /\ (none \o one)[1] = Nul
      BY <2>1, <2>2
    <2>4. CString(t \o none, one) = SubSeq(t, 1, n - 1)
      <3>1. none \in Seq(Nat) /\ one \in Seq(Nat)
        BY <2>1
      <3>2. \A p \in 1 .. n - 1 : t[p] # Nul
        BY <1>2
      <3>3. n <= Len(t) => t[n] = Nul
        BY <1>2
      <3> QED
        BY <2>3, <3>1, <3>2, <3>3, StringOf, ZenonT(40)
    <2>5. t \o none = t
      BY ConcatEmptySeq DEF none
    <2> QED
      BY <2>4, <2>5 DEF one
  <1>7. /\ SubSeq(t, 1, n - 1) \in Seq(Nat)
        /\ \A p \in 1 .. Len(SubSeq(t, 1, n - 1)) : SubSeq(t, 1, n - 1)[p] # Nul
    <2> DEFINE name == SubSeq(t, 1, n - 1)
    <2>1. \A p \in 1 .. n - 1 : t[p] \in Nat
      BY <1>1, <1>2, ElementOfSeq
    <2>2. /\ name \in Seq(Nat) /\ Len(name) = (IF 1 <= n - 1 THEN (n - 1) - 1 + 1 ELSE 0)
          /\ \A p \in 1 .. (n - 1) - 1 + 1 : name[p] = t[1 + p - 1]
      BY <1>1, <2>1, SubSeqProperties
    <2> HIDE DEF name
    <2>3. ASSUME NEW p \in 1 .. Len(name) PROVE name[p] # Nul
      <3>1. p \in 1 .. n - 1 /\ p \in 1 .. (n - 1) - 1 + 1 /\ 1 + p - 1 = p
        BY <1>1, <2>2
      <3> QED
        BY <1>2, <2>2, <3>1
    <2> QED
      BY <2>2, <2>3 DEF name
  <1> QED
    BY <1>5, <1>6, <1>7

\* What is put into amount_str, full or not, is read from it again.
LEMMA AmountStrString ==
  ASSUME NEW text \in Seq(Nat), Len(text) <= AMOUNT_STR_SIZE,
         \A p \in 1 .. Len(text) : text[p] # Nul,
         NEW behind \in Seq(Nat), Len(behind) # 0,
         Len(text) < AMOUNT_STR_SIZE \/ behind[1] = Nul
  PROVE  CString(text \o Nuls(AMOUNT_STR_SIZE - Len(text)), behind) = text
  <1> DEFINE zeros == Nuls(AMOUNT_STR_SIZE - Len(text))
  <1>1. Len(text) \in Nat /\ AMOUNT_STR_SIZE - Len(text) \in Nat
    BY LenProperties, Sizes
  <1>2. /\ zeros \in Seq(Nat) /\ Len(zeros) = AMOUNT_STR_SIZE - Len(text)
        /\ \A p \in 1 .. Len(zeros) : zeros[p] = Nul
    BY <1>1, NulsAre
  <1>3. behind \in Seq(Nat) /\ Len(behind) \in Nat /\ Len(behind) > 0
    BY LenProperties
  <1> HIDE DEF zeros
  <1>4. Len(zeros) + Len(behind) > 0 /\ (zeros \o behind)[1] = Nul
    <2>1. Len(zeros) \in Nat /\ 1 \in 1 .. Len(zeros) + Len(behind)
      BY <1>1, <1>2, <1>3, Sizes
    <2>2. (zeros \o behind)[1] = IF 1 <= Len(zeros) THEN zeros[1] ELSE behind[1 - Len(zeros)]
      BY <1>2, <1>3, <2>1, ConcatProperties
    <2>3. 1 <= Len(zeros) => zeros[1] = Nul
      BY <1>2, <2>1
    <2>4. ~(1 <= Len(zeros)) => behind[1 - Len(zeros)] = Nul
      <3> SUFFICES ASSUME ~(1 <= Len(zeros)) PROVE behind[1 - Len(zeros)] = Nul
        OBVIOUS
      <3>1. Len(zeros) = 0 /\ 1 - Len(zeros) = 1
        BY <2>1
      <3>2. ~(Len(text) < AMOUNT_STR_SIZE)
        BY <1>1, <1>2, <3>1, Sizes
      <3> QED
        BY <3>1, <3>2
    <2> QED
      BY <1>3, <2>1, <2>2, <2>3, <2>4, SMTT(30)
  <1>5. CString(text \o zeros, behind) = SubSeq(text, 1, (Len(text) + 1) - 1)
    <2>1. /\ Len(text) + 1 \in 1 .. Len(text) + 1
          /\ \A p \in 1 .. (Len(text) + 1) - 1 : text[p] # Nul
          /\ ~(Len(text) + 1 <= Len(text))
      BY <1>1
    <2> QED
      BY <1>2, <1>3, <1>4, <2>1, StringOf
  <1>6. SubSeq(text, 1, (Len(text) + 1) - 1) = text
    <2>1. (Len(text) + 1) - 1 = Len(text)
      BY <1>1
    <2> QED
      BY <2>1, SubSeqFull
  <1> QED
    BY <1>5, <1>6 DEF zeros

LEMMA SetAmountShows ==
  ASSUME TextInv, \A t \in Tickers : TickerEnds(t), set_amount, pc' = "shown",
         NEW id \in TransactionIds, Len(wanted') < AMOUNT_STR_SIZE \/ id[1] = Nul
  PROVE  Shown(id)' = wanted'
  <1>1. PICK t \in Tickers, tail \in Tails :
          LET ticker == CString(TickerArray(t), tail \o <<Nul>>)
              text   == out \o <<Space>> \o ticker
          IN  /\ wanted' = out \o <<Space>> \o CString(t, <<Nul>>)
              /\ Fits(ticker)
              /\ amount_str' = text \o Nuls(AMOUNT_STR_SIZE - Len(text))
    BY DEF set_amount
  <1> DEFINE ticker == CString(t, <<Nul>>)
             start  == out \o <<Space>>
             text   == start \o ticker
  <1>2. /\ CString(TickerArray(t), tail \o <<Nul>>) = ticker
        /\ ticker \in Seq(Nat) /\ \A p \in 1 .. Len(ticker) : ticker[p] # Nul
    <2> DEFINE rest == tail \o <<Nul>>
    <2>1. t \in Seq(Nat) /\ Len(t) \in 1 .. MAX_TICKER_LEN /\ TickerEnds(t)
          /\ MAX_TICKER_LEN \in Nat
      BY AmountTextAssumption
    <2>2. rest \in Seq(Nat)
      <3>1. tail \in Seq(Nat)
        <4>1. tail \in Seq(Nat \ {Nul}) /\ Nat \ {Nul} \subseteq Nat
          BY AmountTextAssumption
        <4> QED
          BY <4>1, SeqMonotonic
      <3>2. <<Nul>> \in Seq(Nat)
        BY DEF Nul
      <3> QED
        BY <3>1, <3>2, ConcatProperties
    <2> HIDE DEF rest
    <2>3. /\ CString(TickerArray(t), rest) = CString(t, <<Nul>>)
          /\ CString(t, <<Nul>>) \in Seq(Nat)
          /\ \A p \in 1 .. Len(CString(t, <<Nul>>)) : CString(t, <<Nul>>)[p] # Nul
      BY <2>1, <2>2, TickerString
    <2> QED
      BY <2>3 DEF rest
  <1> HIDE DEF ticker
  <1>3. /\ wanted' = text
        /\ AMOUNT_STR_SIZE >= Len(out) + 1 + Len(ticker)
        /\ amount_str' = text \o Nuls(AMOUNT_STR_SIZE - Len(text))
    BY <1>1, <1>2 DEF Fits, ticker
  <1>4. out \in Seq(Nat) /\ \A p \in 1 .. Len(out) : out[p] # Nul
    <2>1. out \in Seq(Chars)
      BY DEF TextInv, WritingInv, AtEnd, set_amount
    <2>2. Chars \subseteq Nat /\ Nul \notin Chars
      BY DEF Chars, Nul
    <2> QED
      BY <2>1, <2>2, SeqMonotonic, ElementOfSeq
  <1>5. /\ start \in Seq(Nat) /\ Len(start) = Len(out) + 1
        /\ \A p \in 1 .. Len(start) : start[p] # Nul
    <2> DEFINE space == <<Space>>
    <2>1. space \in Seq(Nat) /\ Len(space) = 1 /\ space[1] = Space /\ Space # Nul
      BY DEF Space, Nul
    <2> HIDE DEF space, start, text
    <2>2. /\ out \o space \in Seq(Nat) /\ Len(out \o space) = Len(out) + 1
          /\ Len(out) \in Nat
          /\ \A p \in 1 .. Len(out) + 1 :
               (out \o space)[p] = IF p <= Len(out) THEN out[p] ELSE space[p - Len(out)]
      <3>1. out \in Seq(Nat) /\ space \in Seq(Nat)
        BY <1>4, <2>1
      <3>2. Len(out) \in Nat
        BY <3>1, LenProperties
      <3>3. /\ out \o space \in Seq(Nat) /\ Len(out \o space) = Len(out) + Len(space)
            /\ \A p \in 1 .. Len(out) + Len(space) :
                 (out \o space)[p] = IF p <= Len(out) THEN out[p] ELSE space[p - Len(out)]
        BY <3>1, ConcatProperties
      <3> QED
        BY <2>1, <3>2, <3>3
    <2>3. ASSUME NEW p \in 1 .. Len(out) + 1 PROVE (out \o space)[p] # Nul
      <3>1. CASE p <= Len(out)
        BY <1>4, <2>2, <3>1
      <3>2. CASE p = Len(out) + 1
        BY <2>1, <2>2, <3>2
      <3> QED
        BY <2>2, <3>1, <3>2
    <2> QED
      BY <2>2, <2>3 DEF space, start
  <1> HIDE DEF start
  <1>6. /\ text \in Seq(Nat) /\ Len(text) = Len(out) + 1 + Len(ticker)
        /\ \A p \in 1 .. Len(text) : text[p] # Nul
    <2>1. /\ text \in Seq(Nat) /\ Len(text) = Len(start) + Len(ticker)
          /\ Len(start) \in Nat /\ Len(ticker) \in Nat
          /\ \A p \in 1 .. Len(start) + Len(ticker) :
               text[p] = IF p <= Len(start) THEN start[p] ELSE ticker[p - Len(start)]
      BY <1>2, <1>5, ConcatProperties, LenProperties
    <2> HIDE DEF text
    <2>2. ASSUME NEW p \in 1 .. Len(text) PROVE text[p] # Nul
      <3>1. CASE p <= Len(start)
        BY <1>5, <2>1, <3>1
      <3>2. CASE p > Len(start)
        <4>1. p - Len(start) \in 1 .. Len(ticker)
          BY <2>1, <3>2
        <4>2. p \in 1 .. Len(start) + Len(ticker) /\ ~(p <= Len(start))
          BY <2>1, <3>2
        <4>3. text[p] = ticker[p - Len(start)]
          BY <2>1, <4>2
        <4> QED
          BY <1>2, <4>1, <4>3
      <3> QED
        BY <2>1, <3>1, <3>2
    <2> QED
      BY <1>5, <2>1, <2>2
  <1> HIDE DEF text
  <1>7. CString(amount_str', id) = text
    <2>1. id \in Seq(Nat) /\ Len(id) # 0
      BY AmountTextAssumption
    <2>2. Len(text) <= AMOUNT_STR_SIZE /\ (Len(text) < AMOUNT_STR_SIZE \/ id[1] = Nul)
      BY <1>3, <1>6
    <2>3. CString(text \o Nuls(AMOUNT_STR_SIZE - Len(text)), id) = text
      BY <1>6, <2>1, <2>2, AmountStrString
    <2> QED
      BY <1>3, <2>3
  <1>8. Shown(id)' = CString(amount_str', id)
    BY DEF Shown
  <1> QED
    BY <1>3, <1>7, <1>8

(***************************************************************************)
(* ShownAlwaysAmount: when every ticker ends within its array, with a NUL  *)
(* of its own or one byte before the array does, the screen shows the text *)
(* and the ticker, whatever lies behind ticker, and behind amount_str too  *)
(* unless they fill it to its last byte (message.c:87-99).                 *)
(***************************************************************************)
THEOREM ShownAlwaysAmount ==
  ASSUME \A t \in Tickers : TickerEnds(t)
  PROVE  TextSpec => []ShownIsAmount
  <1>1. TextInit => ShownIsAmount
    BY DEF TextInit, ShownIsAmount
  <1>2. TextInv /\ ShownIsAmount /\ [TextNext]_<<loop, atext, pc>> => ShownIsAmount'
    <2> SUFFICES ASSUME TextInv, ShownIsAmount, [TextNext]_<<loop, atext, pc>>,
                        pc' = "shown", NEW id \in TransactionIds,
                        Len(wanted') < AMOUNT_STR_SIZE \/ id[1] = Nul
                 PROVE  Shown(id)' = wanted'
      BY DEF ShownIsAmount
    <2>1. CASE set_amount
      BY <2>1, SetAmountShows
    <2>2. CASE UNCHANGED <<loop, atext, pc>>
      BY <2>2 DEF ShownIsAmount, Shown, atext
    <2>3. ~(ShiftBit \/ BitsEnd \/ IntegerDigit \/ IntegerEnd \/ FractionDigit
            \/ FractionEnd)
      BY DEF ShiftBit, BitsEnd, IntegerDigit, IntegerEnd, FractionDigit, FractionEnd
    <2> QED
      BY <2>1, <2>2, <2>3 DEF TextNext
  <1> QED
    BY <1>1, <1>2, TextAlways, PTL DEF TextSpec


-----------------------------------------------------------------------------
(***************************************************************************)
(* Decimal notation.  Horner(x, start, d, n): x[k] is what the first k of  *)
(* the n digits d stand for behind start.  The induction over a number of  *)
(* digits is a proof that there is no least one to refute the claim.       *)
(***************************************************************************)
Horner(x, start, d, n) ==
  /\ x \in [0 .. n -> Nat]
  /\ x[0] = start
  /\ \A k \in 1 .. n : x[k] = 10 * x[k - 1] + d[k]

LEMMA EveryNumber ==
  ASSUME NEW T \in SUBSET Nat, 0 \in T, \A n \in Nat : n \in T => n + 1 \in T
  PROVE  T = Nat
  <1> SUFFICES ASSUME Nat \ T # {} PROVE FALSE
    OBVIOUS
  <1>1. PICK low \in Nat \ T : \A j \in Nat \ T : low <= j
    BY LeastElement
  <1>2. low - 1 \in Nat /\ ~(low <= low - 1) /\ (low - 1) + 1 = low
    BY <1>1
  <1>3. low - 1 \in T
    BY <1>1, <1>2
  <1> QED
    BY <1>1, <1>2, <1>3

LEMMA HornerExists ==
  ASSUME NEW start \in Nat, NEW n \in Nat, NEW d, \A k \in 1 .. n : d[k] \in Nat
  PROVE  \E x : Horner(x, start, d, n)
  <1> DEFINE T == {m \in Nat : m <= n => \E x : Horner(x, start, d, m)}
  <1>1. 0 \in T
    <2>1. Horner([k \in 0 .. 0 |-> start], start, d, 0)
      BY DEF Horner
    <2> QED
      BY <2>1
  <1>2. ASSUME NEW m \in Nat, m \in T
        PROVE  m + 1 \in T
    <2> SUFFICES ASSUME m + 1 <= n
                 PROVE  \E x : Horner(x, start, d, m + 1)
      OBVIOUS
    <2>1. PICK x : Horner(x, start, d, m)
      BY <1>2
    <2> DEFINE y == [k \in 0 .. m + 1 |-> IF k = m + 1 THEN 10 * x[m] + d[m + 1] ELSE x[k]]
    <2>2. m \in 0 .. m /\ m + 1 \in 1 .. n
      OBVIOUS
    <2>3. x[m] \in Nat /\ d[m + 1] \in Nat
      BY <2>1, <2>2 DEF Horner
    <2>4. y \in [0 .. m + 1 -> Nat]
      <3> SUFFICES ASSUME NEW k \in 0 .. m + 1
                   PROVE  y[k] \in Nat
        OBVIOUS
      <3>1. CASE k = m + 1
        BY <2>3, <3>1
      <3>2. CASE k # m + 1
        <4>1. k \in 0 .. m
          BY <3>2
        <4> QED
          BY <2>1, <3>2, <4>1 DEF Horner
      <3> QED
        BY <3>1, <3>2
    <2>5. y[0] = start
      BY <2>1 DEF Horner
    <2>6. ASSUME NEW k \in 1 .. m + 1
          PROVE  y[k] = 10 * y[k - 1] + d[k]
      <3>1. k - 1 \in 0 .. m + 1 /\ k - 1 # m + 1 /\ k \in 0 .. m + 1
        OBVIOUS
      <3>2. y[k - 1] = x[k - 1]
        BY <3>1
      <3>3. CASE k = m + 1
        BY <3>1, <3>2, <3>3
      <3>4. CASE k # m + 1
        <4>1. k \in 1 .. m
          BY <3>4
        <4> QED
          BY <2>1, <3>1, <3>2, <3>4, <4>1 DEF Horner
      <3> QED
        BY <3>3, <3>4
    <2> HIDE DEF y
    <2>7. Horner(y, start, d, m + 1)
      BY <2>4, <2>5, <2>6 DEF Horner
    <2> QED
      BY <2>7
  <1>3. T \in SUBSET Nat
    OBVIOUS
  <1> HIDE DEF T
  <1>4. T = Nat
    BY <1>1, <1>2, <1>3, EveryNumber
  <1>5. n \in T
    BY <1>4
  <1> QED
    BY <1>5 DEF T

LEMMA HornerUnique ==
  ASSUME NEW n \in Nat, NEW m \in Nat, NEW x, NEW y, NEW start, NEW d, NEW e,
         Horner(x, start, d, n), Horner(y, start, e, m),
         NEW l \in Nat, l <= n, l <= m, \A k \in 1 .. l : d[k] = e[k]
  PROVE  \A k \in 0 .. l : x[k] = y[k]
  <1> DEFINE T == {k \in Nat : k <= l => x[k] = y[k]}
  <1>1. 0 \in T
    BY DEF Horner
  <1>2. ASSUME NEW k \in Nat, k \in T
        PROVE  k + 1 \in T
    <2> SUFFICES ASSUME k + 1 <= l
                 PROVE  x[k + 1] = y[k + 1]
      OBVIOUS
    <2>1. /\ k + 1 \in 1 .. n /\ k + 1 \in 1 .. m /\ k + 1 \in 1 .. l
          /\ (k + 1) - 1 = k
      OBVIOUS
    <2>2. x[k] = y[k] /\ d[k + 1] = e[k + 1]
      BY <1>2, <2>1
    <2>3. x[k + 1] = 10 * x[k] + d[k + 1] /\ y[k + 1] = 10 * y[k] + e[k + 1]
      BY <2>1 DEF Horner
    <2> QED
      BY <2>2, <2>3
  <1>3. T \in SUBSET Nat
    OBVIOUS
  <1> HIDE DEF T
  <1>4. T = Nat
    BY <1>1, <1>2, <1>3, EveryNumber
  <1>5. \A k \in 0 .. l : k \in T
    BY <1>4
  <1> QED
    BY <1>5 DEF T

(***************************************************************************)
(* Powers: the recursive definition of Decimals has the function it means. *)
(***************************************************************************)
LEMMA Powers ==
  /\ Pow10[0] = 1
  /\ \A k \in Nat : Pow10[k] \in Nat /\ Pow10[k] >= 1 /\ Pow10[k + 1] = 10 * Pow10[k]
  <1> DEFINE zeros == [k \in Nat |-> 0]
             upTo(n) == CHOOSE x : Horner(x, 1, zeros, n)
             p == [n \in Nat |-> upTo(n)[n]]
  <1>1. \A n \in Nat : Horner(upTo(n), 1, zeros, n)
    <2> SUFFICES ASSUME NEW n \in Nat
                 PROVE  \E x : Horner(x, 1, zeros, n)
      OBVIOUS
    <2>1. \A k \in 1 .. n : zeros[k] \in Nat
      OBVIOUS
    <2> HIDE DEF zeros
    <2> QED
      BY <2>1, HornerExists
  <1>2. p[0] = 1
    BY <1>1 DEF Horner
  <1>3. ASSUME NEW n \in Nat
        PROVE  p[n] \in Nat /\ p[n + 1] = 10 * p[n]
    <2>1. Horner(upTo(n), 1, zeros, n) /\ Horner(upTo(n + 1), 1, zeros, n + 1)
      BY <1>1
    <2>2. zeros[n + 1] = 0
      OBVIOUS
    <2> HIDE DEF upTo, zeros
    <2>3. upTo(n + 1)[n] = upTo(n)[n]
      <3>1. n <= n /\ n <= n + 1 /\ n + 1 \in Nat /\ n \in 0 .. n
        OBVIOUS
      <3> QED
        BY <2>1, <3>1, HornerUnique
    <2>4. upTo(n + 1)[n + 1] = 10 * upTo(n + 1)[n] + 0
      <3>1. n + 1 \in 1 .. n + 1 /\ (n + 1) - 1 = n
        OBVIOUS
      <3> QED
        BY <2>1, <2>2, <3>1 DEF Horner
    <2>5. upTo(n)[n] \in Nat
      BY <2>1 DEF Horner
    <2> QED
      BY <2>3, <2>4, <2>5
  <1>4. p = [k \in Nat |-> IF k = 0 THEN 1 ELSE 10 * p[k - 1]]
    <2>1. ASSUME NEW k \in Nat, k # 0
          PROVE  p[k] = 10 * p[k - 1]
      <3>1. k - 1 \in Nat /\ (k - 1) + 1 = k
        BY <2>1
      <3> HIDE DEF p
      <3> QED
        BY <1>3, <3>1
    <2>2. \A k \in Nat : p[k] = IF k = 0 THEN 1 ELSE 10 * p[k - 1]
      BY <1>2, <2>1
    <2>3. p = [k \in Nat |-> p[k]]
      OBVIOUS
    <2> HIDE DEF p
    <2> QED
      BY <2>2, <2>3
  <1>5. Pow10 = [k \in Nat |-> IF k = 0 THEN 1 ELSE 10 * Pow10[k - 1]]
    <2> HIDE DEF p
    <2>1. \E q : q = [k \in Nat |-> IF k = 0 THEN 1 ELSE 10 * q[k - 1]]
      BY <1>4
    <2> QED
      BY <2>1, Zenon DEF Pow10
  <1> DEFINE T == {k \in Nat : Pow10[k] \in Nat /\ Pow10[k] >= 1}
  <1>6. Pow10[0] = 1
    BY <1>5
  <1>7. \A k \in Nat : Pow10[k + 1] = 10 * Pow10[k]
    <2> SUFFICES ASSUME NEW k \in Nat
                 PROVE  Pow10[k + 1] = 10 * Pow10[k]
      OBVIOUS
    <2>1. k + 1 \in Nat /\ k + 1 # 0 /\ (k + 1) - 1 = k
      OBVIOUS
    <2> QED
      BY <1>5, <2>1
  <1>8. 0 \in T /\ \A k \in Nat : k \in T => k + 1 \in T
    BY <1>6, <1>7
  <1>9. T \in SUBSET Nat
    OBVIOUS
  <1> HIDE DEF T
  <1>10. T = Nat
    BY <1>8, <1>9, EveryNumber
  <1>11. \A k \in Nat : k \in T
    BY <1>10
  <1> QED
    BY <1>6, <1>7, <1>11 DEF T

LEMMA DivideBack ==
  ASSUME NEW q \in Nat, NEW r \in Nat, NEW b \in Nat, NEW a, a = q * b + r, r < b
  PROVE  a \div b = q /\ a % b = r
  <1>1. (q * b + r) \div b = q
    OBVIOUS
  <1>2. (q * b + r) % b = r
    OBVIOUS
  <1> QED
    BY <1>1, <1>2

LEMMA PowersGrow ==
  ASSUME NEW m \in Nat, NEW n \in Nat, m <= n
  PROVE  Pow10[m] <= Pow10[n]
  <1> DEFINE T == {k \in Nat : Pow10[m] <= Pow10[m + k]}
  <1>1. 0 \in T
    BY Powers
  <1>2. ASSUME NEW k \in Nat, k \in T
        PROVE  k + 1 \in T
    <2>1. m + k \in Nat /\ m + (k + 1) = (m + k) + 1
      OBVIOUS
    <2>2. Pow10[m + (k + 1)] = 10 * Pow10[m + k] /\ Pow10[m] \in Nat /\ Pow10[m + k] \in Nat
      BY <2>1, Powers
    <2> QED
      BY <1>2, <2>2
  <1>3. T \in SUBSET Nat
    OBVIOUS
  <1> HIDE DEF T
  <1>4. T = Nat
    BY <1>1, <1>2, <1>3, EveryNumber
  <1>5. n - m \in T /\ m + (n - m) = n
    BY <1>4
  <1> QED
    BY <1>5 DEF T

-----------------------------------------------------------------------------
(***************************************************************************)
(* The digits behind place low are those of the remainder, the ones up to  *)
(* it those of the quotient.                                               *)
(***************************************************************************)
Spells(v, d, n) == Horner(v, 0, d, n) /\ \A k \in 1 .. n : d[k] \in 0 .. 9

Rest(w, e, d, low, n) == Horner(w, 0, e, n) /\ \A k \in 1 .. n : e[k] = d[low + k]

LEMMA Behind ==
  ASSUME NEW n \in Nat, NEW v, NEW d, Spells(v, d, n), NEW low \in 0 .. n,
         NEW w, NEW e, Rest(w, e, d, low, n - low)
  PROVE  \A k \in 0 .. n - low :
           /\ v[low + k] = v[low] * Pow10[k] + w[k]
           /\ w[k] < Pow10[k]
           /\ w[k] = 0 <=> \A j \in 1 .. k : d[low + j] = 0
  <1> DEFINE Claim(k) == /\ v[low + k] = v[low] * Pow10[k] + w[k]
                         /\ w[k] < Pow10[k]
                         /\ w[k] = 0 <=> \A j \in 1 .. k : d[low + j] = 0
             T == {k \in Nat : k <= n - low => Claim(k)}
  <1>1. v[low] \in Nat
    BY DEF Spells, Horner
  <1>2. 0 \in T
    <2>1. v[low + 0] = v[low] /\ w[0] = 0 /\ Pow10[0] = 1
      BY Powers DEF Rest, Horner
    <2>2. v[low + 0] = v[low] * Pow10[0] + w[0] /\ w[0] < Pow10[0]
      BY <1>1, <2>1
    <2>3. w[0] = 0 <=> \A j \in 1 .. 0 : d[low + j] = 0
      BY <2>1
    <2> QED
      BY <2>2, <2>3
  <1>3. ASSUME NEW k \in Nat, k \in T
        PROVE  k + 1 \in T
    <2> SUFFICES ASSUME k + 1 <= n - low
                 PROVE  Claim(k + 1)
      OBVIOUS
    <2>1. /\ k + 1 \in 1 .. n - low /\ k \in 0 .. n - low /\ (k + 1) - 1 = k
          /\ low + k + 1 \in 1 .. n /\ (low + k + 1) - 1 = low + k
          /\ low + (k + 1) = low + k + 1 /\ low + k \in 0 .. n
      OBVIOUS
    <2>2. Claim(k)
      BY <1>3, <2>1
    <2>3. /\ v[low + (k + 1)] = 10 * v[low + k] + d[low + (k + 1)]
          /\ d[low + (k + 1)] \in 0 .. 9
      BY <2>1 DEF Spells, Horner
    <2>4. w[k + 1] = 10 * w[k] + d[low + (k + 1)] /\ w[k] \in Nat
      BY <2>1 DEF Rest, Horner
    <2>5. Pow10[k + 1] = 10 * Pow10[k] /\ Pow10[k] \in Nat
      BY Powers
    <2>6. v[low + (k + 1)] = v[low] * Pow10[k + 1] + w[k + 1]
      <3>1. \A a, p, b, c \in Nat : 10 * (a * p + b) + c = a * (10 * p) + (10 * b + c)
        OBVIOUS
      <3> HIDE DEF T
      <3>2. d[low + (k + 1)] \in Nat
        BY <2>3
      <3>3. 10 * (v[low] * Pow10[k] + w[k]) + d[low + (k + 1)]
              = v[low] * (10 * Pow10[k]) + (10 * w[k] + d[low + (k + 1)])
        BY <1>1, <2>4, <2>5, <3>1, <3>2
      <3> QED
        BY <2>2, <2>3, <2>4, <2>5, <3>3
    <2>7. w[k + 1] < Pow10[k + 1]
      BY <2>2, <2>3, <2>4, <2>5
    <2>8. w[k + 1] = 0 <=> \A j \in 1 .. k + 1 : d[low + j] = 0
      <3>1. w[k + 1] = 0 <=> w[k] = 0 /\ d[low + (k + 1)] = 0
        BY <2>3, <2>4
      <3>2. (\A j \in 1 .. k + 1 : d[low + j] = 0)
              <=> (\A j \in 1 .. k : d[low + j] = 0) /\ d[low + (k + 1)] = 0
        <4>1. \A j \in 1 .. k + 1 : j \in 1 .. k \/ j = k + 1
          OBVIOUS
        <4>2. \A j \in 1 .. k : j \in 1 .. k + 1
          OBVIOUS
        <4>3. k + 1 \in 1 .. k + 1
          OBVIOUS
        <4> HIDE DEF T, Claim
        <4> QED
          BY <4>1, <4>2, <4>3
      <3> QED
        BY <2>2, <3>1, <3>2
    <2> QED
      BY <2>6, <2>7, <2>8
  <1>4. T \in SUBSET Nat
    OBVIOUS
  <1> HIDE DEF T
  <1>5. T = Nat
    BY <1>2, <1>3, <1>4, EveryNumber
  <1>6. \A k \in 0 .. n - low : k \in T /\ k <= n - low
    BY <1>5
  <1>7. \A k \in 0 .. n - low : Claim(k)
    <2> HIDE DEF Claim
    <2> QED
      BY <1>6 DEF T
  <1> QED
    BY <1>7, Zenon

LEMMA AllZero ==
  ASSUME NEW n \in Nat, NEW v, NEW d, Spells(v, d, n), NEW k \in 0 .. n
  PROVE  v[k] = 0 <=> \A j \in 1 .. k : d[j] = 0
  <1>1. 0 \in 0 .. n /\ n - 0 = n /\ \A j \in Nat : 0 + j = j
    OBVIOUS
  <1>2. \A j \in 1 .. n - 0 : d[j] = d[0 + j]
    BY <1>1
  <1>3. Rest(v, d, d, 0, n - 0)
    BY <1>1, <1>2 DEF Spells, Rest
  <1>4. v[k] = 0 <=> \A j \in 1 .. k : d[0 + j] = 0
    <2>1. \A m \in 0 .. n - 0 : v[m] = 0 <=> \A j \in 1 .. m : d[0 + j] = 0
      BY <1>1, <1>3, Behind
    <2> QED
      BY <1>1, <2>1
  <1>5. (\A j \in 1 .. k : d[0 + j] = 0) <=> \A j \in 1 .. k : d[j] = 0
    BY <1>1
  <1> QED
    BY <1>4, <1>5

LEMMA RestExists ==
  ASSUME NEW n \in Nat, NEW v, NEW d, Spells(v, d, n), NEW low \in 0 .. n
  PROVE  \E w, e : Rest(w, e, d, low, n - low) /\ Spells(w, e, n - low)
  <1> DEFINE e == [k \in 1 .. n - low |-> d[low + k]]
  <1>1. n - low \in Nat
    OBVIOUS
  <1>2. \A k \in 1 .. n - low : e[k] = d[low + k] /\ e[k] \in 0 .. 9
    <2>1. \A k \in 1 .. n - low : low + k \in 1 .. n
      OBVIOUS
    <2> QED
      BY <2>1 DEF Spells
  <1> HIDE DEF e
  <1>3. PICK w : Horner(w, 0, e, n - low)
    <2>1. \A k \in 1 .. n - low : e[k] \in Nat
      BY <1>2
    <2> QED
      BY <1>1, <2>1, HornerExists
  <1> QED
    BY <1>2, <1>3 DEF Spells, Rest

LEMMA Divided ==
  ASSUME NEW n \in Nat, NEW v, NEW d, Spells(v, d, n), NEW low \in 0 .. n,
         NEW w, NEW e, Rest(w, e, d, low, n - low)
  PROVE  /\ v[n] \div Pow10[n - low] = v[low]
         /\ v[n] % Pow10[n - low] = w[n - low]
         /\ v[n] < Pow10[n - low] <=> v[low] = 0
         /\ w[n - low] = 0 <=> \A k \in low + 1 .. n : d[k] = 0
  <1> DEFINE q == v[low]
             r == w[n - low]
             b == Pow10[n - low]
  <1>1. n - low \in Nat /\ n - low \in 0 .. n - low /\ low + (n - low) = n
    OBVIOUS
  <1>2. /\ v[n] = q * b + r
        /\ r < b
        /\ r = 0 <=> \A j \in 1 .. n - low : d[low + j] = 0
    <2>1. \A k \in 0 .. n - low :
            /\ v[low + k] = v[low] * Pow10[k] + w[k]
            /\ w[k] < Pow10[k]
            /\ w[k] = 0 <=> \A j \in 1 .. k : d[low + j] = 0
      BY Behind
    <2>2. v[low + (n - low)] = v[low] * Pow10[n - low] + w[n - low]
      BY <1>1, <2>1, Zenon
    <2> QED
      BY <1>1, <2>1, <2>2, Zenon
  <1>3. q \in Nat /\ r \in Nat /\ b \in Nat /\ v[n] \in Nat
    <2>1. q \in Nat /\ v[n] \in Nat
      BY <1>1 DEF Spells, Horner
    <2>2. r \in Nat
      BY <1>1 DEF Rest, Horner
    <2>3. b \in Nat
      BY <1>1, Powers
    <2> QED
      BY <2>1, <2>2, <2>3
  <1>4. (\A j \in 1 .. n - low : d[low + j] = 0) <=> \A k \in low + 1 .. n : d[k] = 0
    <2>1. ASSUME \A j \in 1 .. n - low : d[low + j] = 0, NEW k \in low + 1 .. n
          PROVE  d[k] = 0
      <3>1. k - low \in 1 .. n - low /\ low + (k - low) = k
        OBVIOUS
      <3> QED
        BY <2>1, <3>1
    <2>2. ASSUME \A k \in low + 1 .. n : d[k] = 0, NEW j \in 1 .. n - low
          PROVE  d[low + j] = 0
      <3>1. low + j \in low + 1 .. n
        OBVIOUS
      <3> QED
        BY <2>2, <3>1
    <2> QED
      BY <2>1, <2>2
  <1> HIDE DEF q, r, b
  <1>5. v[n] \div b = q /\ v[n] % b = r
    <2>1. q \in Nat /\ r \in Nat /\ b \in Nat /\ v[n] = q * b + r /\ r < b
      BY <1>2, <1>3, Zenon
    <2> QED
      BY <2>1, DivideBack
  <1>6. v[n] < b <=> q = 0
    <2>1. ASSUME q # 0
          PROVE  v[n] >= b
      <3>1. PICK p \in Nat : q = p + 1
        <4>1. q - 1 \in Nat /\ q = (q - 1) + 1
          BY <1>3, <2>1
        <4> QED
          BY <4>1
      <3>2. q * b = p * b + b /\ p * b \in Nat
        BY <1>3, <3>1
      <3> QED
        BY <1>2, <1>3, <3>2
    <2>2. ASSUME q = 0
          PROVE  v[n] < b
      BY <1>2, <1>3, <2>2
    <2> QED
      BY <1>3, <2>1, <2>2
  <1> QED
    BY <1>2, <1>4, <1>5, <1>6 DEF q, r, b

LEMMA Quotient ==
  ASSUME NEW n \in Nat, NEW v, NEW d, Spells(v, d, n), NEW low \in 0 .. n
  PROVE  v[n] \div Pow10[n - low] = v[low]
  BY RestExists, Divided

LEMMA Below ==
  ASSUME NEW n \in Nat, NEW v, NEW d, Spells(v, d, n), NEW low \in 0 .. n
  PROVE  v[n] < Pow10[n - low] <=> \A k \in 1 .. low : d[k] = 0
  <1>1. v[n] < Pow10[n - low] <=> v[low] = 0
    BY RestExists, Divided
  <1> QED
    BY <1>1, AllZero

LEMMA Remainder ==
  ASSUME NEW n \in Nat, NEW v, NEW d, Spells(v, d, n), NEW low \in 0 .. n
  PROVE  v[n] % Pow10[n - low] = 0 <=> \A k \in low + 1 .. n : d[k] = 0
  BY RestExists, Divided

LEMMA RemainderIs ==
  ASSUME NEW n \in Nat, NEW v, NEW d, Spells(v, d, n), NEW low \in 0 .. n
  PROVE  \E w, e : /\ Rest(w, e, d, low, n - low) /\ Spells(w, e, n - low)
                   /\ w[n - low] = v[n] % Pow10[n - low]
  <1>1. PICK w, e : Rest(w, e, d, low, n - low) /\ Spells(w, e, n - low)
    BY RestExists
  <1>2. w[n - low] = v[n] % Pow10[n - low]
    BY <1>1, Divided
  <1> QED
    BY <1>1, <1>2

LEMMA DigitIs ==
  ASSUME NEW n \in Nat, NEW v, NEW d, Spells(v, d, n), NEW k \in 1 .. n
  PROVE  (v[n] \div Pow10[n - k]) % 10 = d[k]
  <1>1. k \in 0 .. n /\ k - 1 \in 0 .. n
    OBVIOUS
  <1>2. v[n] \div Pow10[n - k] = v[k]
    BY <1>1, Quotient
  <1>3. v[k] = 10 * v[k - 1] + d[k] /\ v[k - 1] \in Nat /\ d[k] \in 0 .. 9
    BY <1>1 DEF Spells, Horner
  <1>4. v[k] % 10 = d[k]
    BY <1>3
  <1> QED
    BY <1>2, <1>4

-----------------------------------------------------------------------------
(***************************************************************************)
(* The two parts of a text.                                                *)
(***************************************************************************)
LEMMA WidthIs ==
  ASSUME NEW n \in Nat, NEW width \in 1 .. SCRATCH_SIZE, n < Pow10[width],
         width = 1 \/ n >= Pow10[width - 1]
  PROVE  Width(n) = width
  <1> DEFINE c == CHOOSE k \in 1 .. SCRATCH_SIZE : n < Pow10[k] /\ (k = 1 \/ n >= Pow10[k - 1])
  <1>1. c \in 1 .. SCRATCH_SIZE /\ n < Pow10[c] /\ (c = 1 \/ n >= Pow10[c - 1])
    OBVIOUS
  <1> HIDE DEF c
  <1>2. c \in Nat /\ width \in Nat /\ c - 1 \in Nat /\ width - 1 \in Nat
    BY <1>1, ScratchSizeAssumption
  <1>3. /\ Pow10[c] \in Nat /\ Pow10[c - 1] \in Nat
        /\ Pow10[width] \in Nat /\ Pow10[width - 1] \in Nat
    BY <1>2, Powers
  <1>4. ASSUME c < width
        PROVE  FALSE
    <2>1. c <= width - 1 /\ width # 1
      BY <1>1, <1>2, <1>4
    <2>2. Pow10[c] <= Pow10[width - 1]
      BY <1>2, <2>1, PowersGrow
    <2> QED
      BY <1>1, <1>3, <2>1, <2>2
  <1>5. ASSUME width < c
        PROVE  FALSE
    <2>1. width <= c - 1 /\ c # 1
      BY <1>2, <1>5
    <2>2. Pow10[width] <= Pow10[c - 1]
      BY <1>2, <2>1, PowersGrow
    <2> QED
      BY <1>1, <1>3, <2>1, <2>2
  <1>6. c = width
    BY <1>2, <1>4, <1>5
  <1> QED
    BY <1>6 DEF c, Width

LEMMA SpellsFewer ==
  ASSUME NEW d \in Scratch, NEW v, Spells(v, d, SCRATCH_SIZE), NEW n \in 0 .. SCRATCH_SIZE
  PROVE  \E w : Spells(w, d, n) /\ w[n] = v[n]
  <1> DEFINE w == [k \in 0 .. n |-> v[k]]
  <1>1. \A k \in 0 .. n : k \in 0 .. SCRATCH_SIZE /\ w[k] = v[k]
    BY Sizes
  <1>2. \A k \in 1 .. n : k - 1 \in 0 .. n /\ k \in 0 .. n /\ k \in 1 .. SCRATCH_SIZE
    BY Sizes
  <1>3. n \in 0 .. n /\ 0 \in 0 .. n
    BY Sizes
  <1>4. w \in [0 .. n -> Nat]
    BY <1>1 DEF Spells, Horner
  <1> HIDE DEF w
  <1>5. w[0] = 0 /\ \A k \in 1 .. n : w[k] = 10 * w[k - 1] + d[k] /\ d[k] \in 0 .. 9
    BY <1>1, <1>2, <1>3 DEF Spells, Horner
  <1>6. Spells(w, d, n)
    BY <1>4, <1>5 DEF Spells, Horner
  <1> QED
    BY <1>1, <1>3, <1>6

LEMMA IntegerDigits ==
  ASSUME NEW d \in Scratch, NEW n \in 0 .. SCRATCH_SIZE, NEW v, Spells(v, d, n)
  PROVE  IntegerText(d, n) = DigitsOf(v[n], Width(v[n]))
  <1> DEFINE first == {k \in 1 .. n : d[k] # 0}
  <1>1. n \in Nat /\ v[n] \in Nat /\ 1 \in 1 .. SCRATCH_SIZE
    BY Sizes DEF Spells, Horner
  <1>2. CASE first = {}
    <2>1. v[n] = 0
      <3>1. n \in 0 .. n /\ \A j \in 1 .. n : d[j] = 0
        BY <1>1, <1>2
      <3> QED
        BY <1>1, <3>1, AllZero
    <2>2. Pow10[1] = 10 /\ Pow10[0] = 1
      <3>1. Pow10[0 + 1] = 10 * Pow10[0] /\ Pow10[0] = 1
        BY Powers
      <3> QED
        BY <3>1
    <2>3. Width(v[n]) = 1
      BY <1>1, <2>1, <2>2, WidthIs
    <2>4. DigitsOf(0, 1) = <<0>>
      <3>1. (0 \div Pow10[1 - 1]) % 10 = 0
        BY <2>2
      <3>2. DigitsOf(0, 1) = [k \in 1 .. 1 |-> 0]
        BY <3>1 DEF DigitsOf
      <3>3. <<0>> = [k \in 1 .. 1 |-> 0]
        OBVIOUS
      <3> QED
        BY <3>2, <3>3
    <2> QED
      BY <1>2, <2>1, <2>3, <2>4 DEF IntegerText
  <1>3. CASE first # {}
    <2>1. first \in SUBSET Nat /\ first \in SUBSET Int
      OBVIOUS
    <2>2. PICK low \in first : \A j \in first : low <= j
      BY <1>3, <2>1, LeastElement
    <2> DEFINE width == n - low + 1
    <2>3. /\ low \in 1 .. n /\ low \in 0 .. n /\ low - 1 \in 0 .. n /\ d[low] # 0
          /\ width \in 1 .. SCRATCH_SIZE /\ width \in Nat
          /\ width = n - (low - 1) /\ width - 1 = n - low
          /\ n \in n .. n
      BY <1>1, <2>2, Sizes
    <2>4. \A k \in 1 .. low - 1 : d[k] = 0
      <3> SUFFICES ASSUME NEW k \in 1 .. low - 1, d[k] # 0 PROVE FALSE
        OBVIOUS
      <3>1. k \in first /\ ~(low <= k)
        BY <2>3
      <3> QED
        BY <2>2, <3>1
    <2>5. IntegerText(d, n) = SubSeq(d, low, n)
      <3>1. (CHOOSE k \in first : \A j \in first : k <= j) = low
        BY <2>1, <2>2, Lowest
      <3> QED
        BY <1>3, <3>1 DEF IntegerText
    <2>6. Width(v[n]) = width
      <3>1. v[n] < Pow10[width]
        BY <1>1, <2>3, <2>4, Below
      <3>2. ~(v[n] < Pow10[width - 1])
        BY <1>1, <2>3, Below
      <3>3. Pow10[width - 1] \in Nat
        <4>1. width - 1 \in Nat
          BY <2>3
        <4> QED
          BY <4>1, Powers
      <3>4. v[n] >= Pow10[width - 1]
        BY <1>1, <3>2, <3>3
      <3> HIDE DEF width
      <3> QED
        BY <1>1, <2>3, <3>1, <3>4, WidthIs
    <2>7. SubSeq(d, low, n) = [p \in 1 .. width |-> d[low + p - 1]]
      <3>1. low \in 1 .. SCRATCH_SIZE + 1 /\ low <= n
        BY <2>3, Sizes
      <3>2. /\ SubSeq(d, low, n) \in Seq(0 .. 9)
            /\ Len(SubSeq(d, low, n)) = width
            /\ \A p \in 1 .. width : SubSeq(d, low, n)[p] = d[low + p - 1]
        BY <3>1, DigitsBetween
      <3>3. DOMAIN SubSeq(d, low, n) = 1 .. width
        BY <3>2
      <3>4. SubSeq(d, low, n) = [p \in 1 .. width |-> SubSeq(d, low, n)[p]]
        BY <3>2, <3>3
      <3> QED
        BY <3>2, <3>4
    <2>8. \A p \in 1 .. width : (v[n] \div Pow10[width - p]) % 10 = d[low + p - 1]
      <3> SUFFICES ASSUME NEW p \in 1 .. width
                   PROVE  (v[n] \div Pow10[width - p]) % 10 = d[low + p - 1]
        OBVIOUS
      <3>1. low + p - 1 \in 1 .. n /\ width - p = n - (low + p - 1)
        BY <1>1, <2>3
      <3> QED
        BY <1>1, <3>1, DigitIs
    <2> HIDE DEF width
    <2>9. DigitsOf(v[n], width) = [p \in 1 .. width |-> d[low + p - 1]]
      BY <2>8 DEF DigitsOf
    <2> QED
      BY <2>5, <2>6, <2>7, <2>9
  <1> QED
    BY <1>2, <1>3

LEMMA FractionDigits ==
  ASSUME NEW d \in Scratch, NEW from \in 0 .. SCRATCH_SIZE, NEW n \in 0 .. SCRATCH_SIZE - from,
         NEW e, NEW w, NEW dec \in Nat, dec = SCRATCH_SIZE - from,
         Spells(w, e, dec), \A k \in 1 .. dec : e[k] = d[from + k]
  PROVE  SubSeq(DigitsOf(w[dec], dec), 1, n) = SubSeq(d, from + 1, from + n)
  <1> DEFINE all == DigitsOf(w[dec], dec)
  <1>1. all = [k \in 1 .. dec |-> d[from + k]]
    <2>1. \A k \in 1 .. dec : (w[dec] \div Pow10[dec - k]) % 10 = d[from + k]
      BY DigitIs
    <2> QED
      BY <2>1 DEF DigitsOf
  <1> HIDE DEF all
  <1>2. \A k \in 1 .. n : k \in 1 .. dec /\ all[k] = d[from + k] /\ d[from + k] \in 0 .. 9
    <2>1. \A k \in 1 .. n : k \in 1 .. dec /\ from + k \in 1 .. SCRATCH_SIZE
      BY Sizes
    <2> QED
      BY <1>1, <2>1 DEF Scratch
  <1>3. /\ SubSeq(all, 1, n) \in Seq(0 .. 9) /\ Len(SubSeq(all, 1, n)) = n
        /\ \A k \in 1 .. n : SubSeq(all, 1, n)[k] = d[from + k]
    <2>1. \A k \in 1 .. n : all[k] \in 0 .. 9
      BY <1>2
    <2>2. 1 \in Int /\ n \in Int /\ n \in Nat /\ n - 1 + 1 = n /\ \A k \in 1 .. n : 1 + k - 1 = k
      BY Sizes
    <2>3. /\ SubSeq(all, 1, n) \in Seq(0 .. 9)
          /\ Len(SubSeq(all, 1, n)) = IF 1 <= n THEN n - 1 + 1 ELSE 0
          /\ \A k \in 1 .. n - 1 + 1 : SubSeq(all, 1, n)[k] = all[1 + k - 1]
      BY <2>1, <2>2, SubSeqProperties
    <2> QED
      BY <1>2, <2>2, <2>3
  <1>4. /\ SubSeq(d, from + 1, from + n) \in Seq(0 .. 9)
        /\ Len(SubSeq(d, from + 1, from + n)) = n
        /\ \A k \in 1 .. n : SubSeq(d, from + 1, from + n)[k] = d[from + k]
    <2>1. /\ from + 1 \in 1 .. SCRATCH_SIZE + 1 /\ from + n \in 0 .. SCRATCH_SIZE
          /\ (from + n) - (from + 1) + 1 = n /\ \A k \in 1 .. n : (from + 1) + k - 1 = from + k
          /\ n \in Nat /\ (n = 0 \/ from + 1 <= from + n) /\ (n = 0 => ~(from + 1 <= from + n))
      BY Sizes
    <2>2. /\ SubSeq(d, from + 1, from + n) \in Seq(0 .. 9)
          /\ Len(SubSeq(d, from + 1, from + n)) =
               IF from + 1 <= from + n THEN (from + n) - (from + 1) + 1 ELSE 0
          /\ \A k \in 1 .. (from + n) - (from + 1) + 1 :
               SubSeq(d, from + 1, from + n)[k] = d[(from + 1) + k - 1]
      BY <2>1, DigitsBetween
    <2> QED
      BY <2>1, <2>2
  <1>5. SubSeq(all, 1, n) = SubSeq(d, from + 1, from + n)
    BY <1>3, <1>4, SeqEqual
  <1> QED
    BY <1>5 DEF all

(***************************************************************************)
(* SpelledText: the text of the digits is that of the number they spell.   *)
(***************************************************************************)
LEMMA SpelledText ==
  ASSUME NEW d \in Scratch, NEW v, Spells(v, d, SCRATCH_SIZE), NEW dec \in 0 .. SCRATCH_SIZE
  PROVE  Text(d, dec) = DecimalText(v[SCRATCH_SIZE], dec)
  <1> DEFINE size == SCRATCH_SIZE
             from == size - dec
             number == v[size]
             whole == number \div Pow10[dec]
             rest  == number % Pow10[dec]
             Keeps(k) == /\ rest % Pow10[dec - k] = 0
                         /\ \A j \in 0 .. k - 1 : rest % Pow10[dec - j] # 0
             kept  == CHOOSE k \in 0 .. dec :
                        /\ rest % Pow10[dec - k] = 0
                        /\ \A j \in 0 .. k - 1 : rest % Pow10[dec - j] # 0
             fraction == IF rest = 0 THEN << >>
                         ELSE <<Point>> \o SubSeq(DigitsOf(rest, dec), 1, kept)
  <1>1. /\ size \in Nat /\ from \in 0 .. size /\ dec \in Nat /\ size - from = dec
        /\ from + dec = size
    BY Sizes
  <1>2. DecimalText(number, dec) = DigitsOf(whole, Width(whole)) \o fraction
    BY DEF DecimalText
  <1>3. /\ whole = v[from]
        /\ \E w, e : /\ Spells(w, e, dec) /\ w[dec] = rest
                      /\ \A k \in 1 .. dec : e[k] = d[from + k]
    <2>1. Spells(v, d, size)
      OBVIOUS
    <2> HIDE DEF size, from
    <2>2. v[size] \div Pow10[size - from] = v[from]
      BY <1>1, <2>1, Quotient
    <2>3. \E w, e : /\ Spells(w, e, size - from) /\ w[size - from] = v[size] % Pow10[size - from]
                    /\ \A k \in 1 .. size - from : e[k] = d[from + k]
      <3>1. \E w, e : /\ Rest(w, e, d, from, size - from) /\ Spells(w, e, size - from)
                      /\ w[size - from] = v[size] % Pow10[size - from]
        BY <1>1, <2>1, RemainderIs
      <3> QED
        BY <3>1 DEF Rest
    <2> QED
      BY <1>1, <2>2, <2>3
  <1>4. IntegerText(d, from) = DigitsOf(whole, Width(whole))
    <2>1. PICK w : Spells(w, d, from) /\ w[from] = v[from]
      BY <1>1, SpellsFewer
    <2> QED
      BY <1>1, <1>3, <2>1, IntegerDigits
  <1>5. PICK w, e : /\ Spells(w, e, dec) /\ w[dec] = rest
                    /\ \A k \in 1 .. dec : e[k] = d[from + k]
    BY <1>3
  <1>6. \A k \in 1 .. dec : e[k] = d[from + k]
    BY <1>5
  <1> HIDE DEF whole, rest, size, from, kept, number
  <1>7. \A k \in 0 .. dec : rest % Pow10[dec - k] = 0 <=> ZeroFrom(d, from, k)
    <2> SUFFICES ASSUME NEW k \in 0 .. dec
                 PROVE  rest % Pow10[dec - k] = 0 <=> ZeroFrom(d, from, k)
      OBVIOUS
    <2>1. rest % Pow10[dec - k] = 0 <=> \A j \in k + 1 .. dec : e[j] = 0
      BY <1>1, <1>5, Remainder
    <2>2. ASSUME \A j \in k + 1 .. dec : e[j] = 0, NEW j \in from + k + 1 .. size
          PROVE  d[j] = 0
      <3>1. j - from \in k + 1 .. dec /\ j - from \in 1 .. dec /\ from + (j - from) = j
        BY <1>1
      <3> QED
        BY <1>6, <2>2, <3>1
    <2>3. ASSUME \A j \in from + k + 1 .. size : d[j] = 0, NEW j \in k + 1 .. dec
          PROVE  e[j] = 0
      <3>1. from + j \in from + k + 1 .. size /\ j \in 1 .. dec
        BY <1>1
      <3> QED
        BY <1>6, <2>3, <3>1
    <2> QED
      BY <2>1, <2>2, <2>3 DEF ZeroFrom, size
  <1>8. rest = 0 <=> ZeroFrom(d, from, 0)
    <2>1. rest = 0 <=> \A j \in 1 .. dec : e[j] = 0
      <3>1. dec \in 0 .. dec
        BY <1>1
      <3> QED
        BY <1>1, <1>5, <3>1, AllZero
    <2>2. ASSUME \A j \in 1 .. dec : e[j] = 0, NEW j \in from + 0 + 1 .. size
          PROVE  d[j] = 0
      <3>1. j - from \in 1 .. dec /\ from + (j - from) = j
        BY <1>1
      <3> QED
        BY <1>6, <2>2, <3>1
    <2>3. ASSUME \A j \in from + 0 + 1 .. size : d[j] = 0, NEW j \in 1 .. dec
          PROVE  e[j] = 0
      <3>1. from + j \in from + 0 + 1 .. size
        BY <1>1
      <3> QED
        BY <1>6, <2>3, <3>1
    <2> QED
      BY <2>1, <2>2, <2>3 DEF ZeroFrom, size
  <1>9. CASE rest = 0
    <2>1. Text(d, dec) = IntegerText(d, from) \o Fraction(d, from, 0)
      <3>1. 0 \in 0 .. dec /\ ~(0 > 0) /\ ZeroFrom(d, SCRATCH_SIZE - dec, 0)
        BY <1>1, <1>8, <1>9 DEF from, size
      <3> QED
        BY <3>1, TextParts DEF from, size
    <2>2. Fraction(d, from, 0) = << >>
      BY DEF Fraction
    <2>3. fraction = << >>
      BY <1>9
    <2> QED
      BY <1>2, <1>4, <2>1, <2>2, <2>3 DEF number, size
  <1>10. CASE rest # 0
    <2>1. /\ kept \in 0 .. dec /\ ZeroFrom(d, from, kept)
          /\ \A j \in 0 .. kept - 1 : ~ZeroFrom(d, from, j)
      <3> DEFINE T == {k \in 0 .. dec : rest % Pow10[dec - k] = 0}
      <3>1. dec \in T
        <4>1. ZeroFrom(d, from, dec)
          BY <1>1 DEF ZeroFrom, size
        <4> QED
          BY <1>1, <1>7, <4>1
      <3>2. T \in SUBSET Nat
        OBVIOUS
      <3>3. PICK low \in T : \A j \in T : low <= j
        BY <3>1, <3>2, LeastElement
      <3>4. Keeps(low) /\ low \in 0 .. dec
        <4>1. ASSUME NEW j \in 0 .. low - 1
              PROVE  rest % Pow10[dec - j] # 0
          <5>1. j \in 0 .. dec /\ ~(low <= j)
            BY <3>3
          <5>2. j \notin T
            BY <3>3, <5>1
          <5> QED
            BY <5>1, <5>2
        <4> QED
          BY <3>3, <4>1
      <3>5. kept \in 0 .. dec /\ Keeps(kept)
        BY <3>4 DEF kept
      <3>6. \A j \in 0 .. kept - 1 : j \in 0 .. dec
        BY <3>5
      <3> QED
        BY <1>7, <3>5, <3>6
    <2>2. kept > 0
      BY <1>8, <1>10, <2>1
    <2>3. ~ZeroFrom(d, from, kept - 1)
      BY <2>1, <2>2
    <2>4. Text(d, dec) = IntegerText(d, from) \o Fraction(d, from, kept)
      BY <2>1, <2>2, <2>3, TextParts DEF from, size
    <2>5. Fraction(d, from, kept) = <<Point>> \o SubSeq(d, from + 1, from + kept)
      <3>1. kept # 0
        BY <1>1, <2>1, <2>2
      <3> QED
        BY <3>1 DEF Fraction
    <2>6. SubSeq(DigitsOf(rest, dec), 1, kept) = SubSeq(d, from + 1, from + kept)
      <3>1. kept \in 0 .. SCRATCH_SIZE - from /\ dec = SCRATCH_SIZE - from
            /\ from \in 0 .. SCRATCH_SIZE
        BY <1>1, <2>1 DEF size
      <3>2. SubSeq(DigitsOf(w[dec], dec), 1, kept) = SubSeq(d, from + 1, from + kept)
        BY <1>1, <1>5, <1>6, <3>1, FractionDigits
      <3> QED
        BY <1>5, <3>2
    <2>7. fraction = <<Point>> \o SubSeq(d, from + 1, from + kept)
      BY <1>10, <2>6
    <2> QED
      BY <1>2, <1>4, <2>4, <2>5, <2>7 DEF number, size
  <1> QED
    BY <1>9, <1>10

-----------------------------------------------------------------------------
(***************************************************************************)
(* ValueInv: the digits in scratch spell the number shifted in so far, and *)
(* after an error that number needs all SCRATCH_SIZE digits.  v is the     *)
(* witness: the numbers that the first 0, 1, 2, ... digits spell.          *)
(***************************************************************************)
ValueInv ==
  /\ LoopInv
  /\ st.err = "SUCCESS" => \E v : Spells(v, st.scratch, SCRATCH_SIZE) /\ v[SCRATCH_SIZE] = value
  /\ st.err # "SUCCESS" => value >= Pow10[SCRATCH_SIZE - 1]

LEMMA ValueInit == LoopInit => ValueInv
  <1> SUFFICES ASSUME LoopInit PROVE ValueInv
    OBVIOUS
  <1> DEFINE v == [k \in 0 .. SCRATCH_SIZE |-> 0]
  <1>1. st.err = "SUCCESS" /\ value = 0 /\ st.scratch = [k \in 1 .. SCRATCH_SIZE |-> 0]
    BY DEF LoopInit, DabbleStart
  <1>2. \A k \in 1 .. SCRATCH_SIZE : k \in 0 .. SCRATCH_SIZE /\ k - 1 \in 0 .. SCRATCH_SIZE
    BY ScratchSizeAssumption
  <1>3. 0 \in 0 .. SCRATCH_SIZE /\ SCRATCH_SIZE \in 0 .. SCRATCH_SIZE
    BY ScratchSizeAssumption
  <1>4. Spells(v, st.scratch, SCRATCH_SIZE) /\ v[SCRATCH_SIZE] = value
    BY <1>1, <1>2, <1>3 DEF Spells, Horner
  <1>5. LoopInv
    BY LoopInvInitially
  <1> HIDE DEF v
  <1> QED
    BY <1>1, <1>4, <1>5 DEF ValueInv

(***************************************************************************)
(* DoubledValue: a bit that is shifted in doubles every number v[k], with  *)
(* the carry out of the digit behind; nothing is carried out of the first  *)
(* digit, which is zero.                                                   *)
(***************************************************************************)
LEMMA DoubledValue ==
  ASSUME ValueInv, NEW bit \in {0, 1}, NextBit(bit), ~(Full(st) /\ st.smin <= 2)
  PROVE  /\ st'.err = "SUCCESS"
         /\ \E v : Spells(v, st'.scratch, SCRATCH_SIZE) /\ v[SCRATCH_SIZE] = value'
  <1>1. LoopInv /\ st.err = "SUCCESS" /\ value' = 2 * value + bit
    BY DEF ValueInv, NextBit
  <1>2. PICK v : Spells(v, st.scratch, SCRATCH_SIZE) /\ v[SCRATCH_SIZE] = value
    BY <1>1 DEF ValueInv
  <1>3. PICK low \in {st.smin, st.smin - 1} :
          /\ low \in 2 .. SCRATCH_SIZE - 1
          /\ low = st.smin => st.scratch[st.smin] < 5
          /\ st' = [st EXCEPT !.scratch = ShiftIn(AddThree(st.scratch, st.smin), low, bit),
                              !.smin = low]
    BY <1>1, ShiftStep
  <1>4. /\ st'.scratch = ShiftIn(AddThree(st.scratch, st.smin), low, bit)
        /\ st'.err = "SUCCESS"
    BY <1>1, <1>3 DEF LoopInv, LoopTypeOK
  <1> DEFINE d == st.scratch
             c == [k \in 0 .. SCRATCH_SIZE |->
                     IF k = SCRATCH_SIZE THEN bit ELSE Carry(d, k + 1)]
             x == [k \in 0 .. SCRATCH_SIZE |-> 2 * v[k] + c[k]]
  <1>5. /\ d \in [1 .. SCRATCH_SIZE -> 0 .. 9] /\ st.smin \in 1 .. SCRATCH_SIZE - 1
        /\ st.smin \in 2 .. SCRATCH_SIZE - 1
        /\ \A k \in 1 .. st.smin - 1 : d[k] = 0
    BY <1>1, DecimalState
  <1>6. \A k \in 1 .. SCRATCH_SIZE : st'.scratch[k] = 2 * d[k] - 10 * Carry(d, k) + c[k]
    <2> SUFFICES ASSUME NEW k \in 1 .. SCRATCH_SIZE
                 PROVE  st'.scratch[k] = 2 * d[k] - 10 * Carry(d, k) + c[k]
      OBVIOUS
    <2>1. c[k] = IF k = SCRATCH_SIZE THEN bit ELSE Carry(d, k + 1)
      BY ScratchSizeAssumption
    <2>2. low >= 1
      BY <1>3, ScratchSizeAssumption
    <2> HIDE DEF c, d
    <2>3. ShiftIn(AddThree(d, st.smin), low, bit)[k] =
            2 * d[k] - 10 * Carry(d, k) + IF k = SCRATCH_SIZE THEN bit ELSE Carry(d, k + 1)
      <3>1. low = st.smin => d[st.smin] < 5
        BY <1>3 DEF d
      <3> QED
        BY <1>3, <1>5, <2>2, <3>1, ShiftedDigits
    <2> QED
      BY <1>4, <2>1, <2>3 DEF d
  <1>7. \A k \in 0 .. SCRATCH_SIZE : c[k] \in {0, 1}
    BY DEF Carry
  <1>8. c[0] = 0
    <2>1. 1 \in 1 .. st.smin - 1 /\ 0 \in 0 .. SCRATCH_SIZE /\ 0 # SCRATCH_SIZE
      BY <1>5, ScratchSizeAssumption
    <2>2. d[1] = 0
      BY <1>5, <2>1
    <2>3. Carry(d, 0 + 1) = 0
      BY <2>2 DEF Carry
    <2> QED
      BY <2>1, <2>3
  <1>9. \A k \in 1 .. SCRATCH_SIZE : c[k - 1] = Carry(d, k)
    <2> SUFFICES ASSUME NEW k \in 1 .. SCRATCH_SIZE
                 PROVE  c[k - 1] = Carry(d, k)
      OBVIOUS
    <2>1. k - 1 \in 0 .. SCRATCH_SIZE /\ k - 1 # SCRATCH_SIZE /\ (k - 1) + 1 = k
      BY ScratchSizeAssumption
    <2> QED
      BY <2>1
  <1> HIDE DEF c
  <1>10. x \in [0 .. SCRATCH_SIZE -> Nat]
    <2>1. \A k \in 0 .. SCRATCH_SIZE : v[k] \in Nat
      BY <1>2 DEF Spells, Horner
    <2> QED
      BY <1>7, <2>1
  <1>11. x[0] = 0
    <2>1. v[0] = 0 /\ 0 \in 0 .. SCRATCH_SIZE
      BY <1>2, ScratchSizeAssumption DEF Spells, Horner
    <2> QED
      BY <1>8, <2>1
  <1>12. ASSUME NEW k \in 1 .. SCRATCH_SIZE
         PROVE  x[k] = 10 * x[k - 1] + st'.scratch[k] /\ st'.scratch[k] \in 0 .. 9
    <2>1. k \in 0 .. SCRATCH_SIZE /\ k - 1 \in 0 .. SCRATCH_SIZE
      BY ScratchSizeAssumption
    <2>2. /\ v[k] = 10 * v[k - 1] + d[k] /\ v[k - 1] \in Nat /\ d[k] \in 0 .. 9
          /\ c[k] \in {0, 1} /\ c[k - 1] \in {0, 1}
      BY <1>2, <1>7, <2>1 DEF Spells, Horner
    <2>3. st'.scratch[k] = 2 * d[k] - 10 * c[k - 1] + c[k]
      BY <1>6, <1>9
    <2>4. x[k] = 2 * v[k] + c[k] /\ x[k - 1] = 2 * v[k - 1] + c[k - 1]
      BY <2>1
    <2>5. Carry(d, k) = c[k - 1] /\ Carry(d, k) = IF d[k] >= 5 THEN 1 ELSE 0
      BY <1>9 DEF Carry
    <2> HIDE DEF d, x
    <2> QED
      BY <2>2, <2>3, <2>4, <2>5
  <1>13. x[SCRATCH_SIZE] = value'
    <2>1. SCRATCH_SIZE \in 0 .. SCRATCH_SIZE
      BY ScratchSizeAssumption
    <2>2. c[SCRATCH_SIZE] = bit
      BY <2>1 DEF c
    <2> QED
      BY <1>1, <1>2, <2>1, <2>2
  <1> HIDE DEF x
  <1>14. Spells(x, st'.scratch, SCRATCH_SIZE)
    BY <1>10, <1>11, <1>12 DEF Spells, Horner
  <1> QED
    BY <1>4, <1>13, <1>14

LEMMA TooLarge ==
  ASSUME ValueInv, NEW bit \in {0, 1}, NextBit(bit), Full(st), st.smin <= 2
  PROVE  value' >= Pow10[SCRATCH_SIZE - 1]
  <1>1. LoopInv /\ st.err = "SUCCESS" /\ value' = 2 * value + bit
    BY DEF ValueInv, NextBit
  <1>2. PICK v : Spells(v, st.scratch, SCRATCH_SIZE) /\ v[SCRATCH_SIZE] = value
    BY <1>1 DEF ValueInv
  <1>3. st.smin = 2 /\ 2 \in 1 .. SCRATCH_SIZE
    BY <1>1, DecimalState, ScratchSizeAssumption
  <1>4. st.scratch[2] >= 5
    <2>1. st.scratch[st.smin] >= 5
      BY <1>1, DecimalState, FullIsFive
    <2> QED
      BY <1>3, <2>1
  <1>5. v[2] >= 5 /\ v[2] \in Nat
    <2>1. v[2] = 10 * v[2 - 1] + st.scratch[2] /\ st.scratch[2] \in 0 .. 9
      BY <1>2, <1>3 DEF Spells, Horner
    <2>2. 2 - 1 \in 0 .. SCRATCH_SIZE
      BY ScratchSizeAssumption
    <2>3. v[2 - 1] \in Nat
      BY <1>2, <2>2 DEF Spells, Horner
    <2> QED
      BY <1>4, <2>1, <2>3
  <1>6. /\ SCRATCH_SIZE \in Nat /\ 2 \in 0 .. SCRATCH_SIZE
        /\ SCRATCH_SIZE - 2 \in 0 .. SCRATCH_SIZE - 2
        /\ 2 + (SCRATCH_SIZE - 2) = SCRATCH_SIZE /\ SCRATCH_SIZE - 2 \in Nat
        /\ (SCRATCH_SIZE - 2) + 1 = SCRATCH_SIZE - 1
    BY ScratchSizeAssumption
  <1>7. PICK w, e : Rest(w, e, st.scratch, 2, SCRATCH_SIZE - 2)
    BY <1>2, <1>6, RestExists
  <1>8. v[2 + (SCRATCH_SIZE - 2)] = v[2] * Pow10[SCRATCH_SIZE - 2] + w[SCRATCH_SIZE - 2]
    <2>1. \A k \in 0 .. SCRATCH_SIZE - 2 : v[2 + k] = v[2] * Pow10[k] + w[k]
      BY <1>2, <1>6, <1>7, Behind
    <2> QED
      BY <1>6, <2>1, Zenon
  <1> DEFINE p == Pow10[SCRATCH_SIZE - 2]
             r == w[SCRATCH_SIZE - 2]
             a == v[2]
  <1>9. p \in Nat /\ Pow10[SCRATCH_SIZE - 1] = 10 * p
    BY <1>6, Powers
  <1>10. r \in Nat
    BY <1>6, <1>7 DEF Rest, Horner
  <1>11. value = a * p + r
    BY <1>2, <1>6, <1>8, Zenon
  <1>12. a >= 5 /\ a \in Nat
    BY <1>5
  <1> HIDE DEF p, r, a
  <1>13. PICK m \in Nat : a = 5 + m
    <2>1. a - 5 \in Nat /\ a = 5 + (a - 5)
      BY <1>12
    <2> QED
      BY <2>1
  <1>14. a * p = 5 * p + m * p /\ m * p \in Nat
    BY <1>9, <1>13
  <1> QED
    BY <1>1, <1>9, <1>10, <1>11, <1>14

LEMMA ValueInductive == ValueInv /\ [LoopNext]_loop => ValueInv'
  <1> SUFFICES ASSUME ValueInv, [LoopNext]_loop
               PROVE  ValueInv'
    OBVIOUS
  <1>1. LoopInv'
    BY LoopInvInductive DEF ValueInv
  <1>2. ASSUME NEW bit \in {0, 1}, NextBit(bit)
        PROVE  ValueInv'
    <2>1. CASE Full(st) /\ st.smin <= 2
      <3>1. st'.err # "SUCCESS"
        BY <1>2, <2>1, ErrorStep DEF ValueInv
      <3>2. value' >= Pow10[SCRATCH_SIZE - 1]
        BY <1>2, <2>1, TooLarge
      <3> QED
        BY <1>1, <3>1, <3>2 DEF ValueInv
    <2>2. CASE ~(Full(st) /\ st.smin <= 2)
      <3>1. /\ st'.err = "SUCCESS"
            /\ \E v : Spells(v, st'.scratch, SCRATCH_SIZE) /\ v[SCRATCH_SIZE] = value'
        BY <1>2, <2>2, DoubledValue
      <3> QED
        BY <1>1, <3>1 DEF ValueInv
    <2> QED
      BY <2>1, <2>2
  <1>3. CASE UNCHANGED loop
    <2>1. st' = st /\ value' = value
      BY <1>3 DEF loop
    <2> QED
      BY <1>1, <2>1 DEF ValueInv
  <1> QED
    BY <1>2, <1>3 DEF LoopNext

LEMMA ValueShows ==
  ASSUME ValueInv
  PROVE  TextIsValue
  <1>1. CASE st.err # "SUCCESS"
    <2>1. value >= Pow10[SCRATCH_SIZE - 1] /\ value \in Nat
      BY <1>1 DEF ValueInv, LoopInv, LoopTypeOK
    <2>2. Pow10[SCRATCH_SIZE - 1] \in Nat
      <3>1. SCRATCH_SIZE - 1 \in Nat
        BY ScratchSizeAssumption
      <3> QED
        BY <3>1, Powers
    <2>3. ~(value < Pow10[SCRATCH_SIZE - 1])
      BY <2>1, <2>2
    <2> QED
      BY <1>1, <2>3 DEF TextIsValue
  <1>2. CASE st.err = "SUCCESS"
    <2>1. PICK v : Spells(v, st.scratch, SCRATCH_SIZE) /\ v[SCRATCH_SIZE] = value
      BY <1>2 DEF ValueInv
    <2>2. st.scratch \in Scratch /\ st.scratch[1] = 0
      <3>1. /\ st.scratch \in [1 .. SCRATCH_SIZE -> 0 .. 9] /\ st.smin \in 2 .. SCRATCH_SIZE - 1
            /\ \A k \in 1 .. st.smin - 1 : st.scratch[k] = 0
        BY <1>2, DecimalState DEF ValueInv
      <3>2. 1 \in 1 .. st.smin - 1
        BY <3>1, ScratchSizeAssumption
      <3> QED
        BY <3>1, <3>2 DEF Scratch
    <2>3. value < Pow10[SCRATCH_SIZE - 1]
      <3>1. SCRATCH_SIZE \in Nat /\ 1 \in 0 .. SCRATCH_SIZE /\ \A k \in 1 .. 1 : k = 1
        BY ScratchSizeAssumption
      <3>2. v[SCRATCH_SIZE] < Pow10[SCRATCH_SIZE - 1] <=> \A k \in 1 .. 1 : st.scratch[k] = 0
        BY <2>1, <3>1, Below
      <3> QED
        BY <2>1, <2>2, <3>1, <3>2
    <2>4. \A dec \in 0 .. SCRATCH_SIZE : Text(st.scratch, dec) = DecimalText(value, dec)
      BY <2>1, <2>2, SpelledText
    <2> QED
      BY <1>2, <2>3, <2>4 DEF TextIsValue
  <1> QED
    BY <1>1, <1>2

LEMMA ValueAlways == LoopSpec => []ValueInv
  BY ValueInit, ValueInductive, PTL DEF LoopSpec

-----------------------------------------------------------------------------
(***************************************************************************)
(* LoopWellTyped: digits of four bits, smin within scratch, at every step  *)
(* of every conversion (utils.c:125-152).                                  *)
(***************************************************************************)
THEOREM LoopWellTyped == LoopSpec => []LoopTypeOK
  BY ValueAlways, PTL DEF ValueInv, LoopInv

(***************************************************************************)
(* TextAlwaysValue: whatever bits have been shifted in, the text of the    *)
(* digits is the amount in decimal notation, with any number of decimals,  *)
(* and the conversion has given up exactly if the amount needs all         *)
(* SCRATCH_SIZE digits (utils.c:133-185).                                  *)
(***************************************************************************)
THEOREM TextAlwaysValue == LoopSpec => []TextIsValue
  BY ValueAlways, ValueShows, PTL

(***************************************************************************)
(* TextIsLoop: the steps from the bits to the screen implement the loop    *)
(* over the bits and otherwise leave it alone, so that all the above holds *)
(* of them too (utils.c:119-185).                                          *)
(***************************************************************************)
THEOREM TextIsLoop == TextSpec => LoopSpec
  <1>1. TextInit => LoopInit
    BY DEF TextInit
  <1>2. [TextNext]_<<loop, atext, pc>> => [LoopNext]_loop
    BY DEF TextNext, ShiftBit, BitsEnd, IntegerDigit, IntegerEnd, FractionDigit, FractionEnd,
           set_amount, loop
  <1> QED
    BY <1>1, <1>2, PTL DEF TextSpec, LoopSpec

=============================================================================
