------------------------------- MODULE Amount -------------------------------
(***************************************************************************)
(* convert_hex_amount_to_displayable of utils.c: a big-endian binary       *)
(* amount is turned into decimal digits by double dabble (shift in one bit *)
(* at a time, adding 3 to every digit of 5 or more first) and printed with *)
(* a decimal point.                                                        *)
(*                                                                         *)
(* scratch[1 .. SCRATCH_SIZE] holds the digits, the least significant one  *)
(* last; digits left of smin are zero and are not touched.                 *)
(***************************************************************************)
EXTENDS Integers, Sequences

CONSTANT SCRATCH_SIZE     \* 37 in the code

ASSUME ScratchSizeAssumption == SCRATCH_SIZE \in Nat /\ SCRATCH_SIZE > 2

Point == 10               \* '.' in a text; the digits are 0 .. 9

Digits == [1 .. SCRATCH_SIZE -> 0 .. 15]

\* smin is a C index: it starts at nscratch - 2, the last digit but one.
DabbleStart ==
  [scratch |-> [k \in 1 .. SCRATCH_SIZE |-> 0], smin |-> SCRATCH_SIZE - 1,
   err |-> "SUCCESS"]

(***************************************************************************)
(* One round of the loop over the bits.                                    *)
(***************************************************************************)
\* Mutant: a five is not corrected.
AddThreeAboveFive(scratch, smin) ==
  [k \in 1 .. SCRATCH_SIZE |->
     IF k >= smin /\ scratch[k] > 5 THEN scratch[k] + 3 ELSE scratch[k]]

AddThree(scratch, smin) ==
  [k \in 1 .. SCRATCH_SIZE |->
     IF k >= smin /\ scratch[k] >= 5 THEN scratch[k] + 3 ELSE scratch[k]]

\* Mutant: the digits are not cut to four bits.
ShiftInWide(scratch, smin, bit) ==
  [k \in 1 .. SCRATCH_SIZE |->
     IF k < smin THEN scratch[k]
     ELSE (2 * scratch[k])
          + IF k = SCRATCH_SIZE THEN bit ELSE IF scratch[k + 1] >= 8 THEN 1 ELSE 0]

\* Mutant: a carry is lost.
ShiftInNoEight(scratch, smin, bit) ==
  [k \in 1 .. SCRATCH_SIZE |->
     IF k < smin THEN scratch[k]
     ELSE ((2 * scratch[k]) % 16)
          + IF k = SCRATCH_SIZE THEN bit ELSE IF scratch[k + 1] > 8 THEN 1 ELSE 0]

ShiftIn(scratch, smin, bit) ==
  [k \in 1 .. SCRATCH_SIZE |->
     IF k < smin THEN scratch[k]
     ELSE LET carry == IF k = SCRATCH_SIZE THEN bit
                       ELSE IF scratch[k + 1] >= 8 THEN 1 ELSE 0
          IN  ((2 * scratch[k]) % 16) + carry]

DabbleBit(st, bit) ==
  LET added == AddThree(st.scratch, st.smin)
      full  == added[st.smin] >= 8
      smin  == IF full THEN st.smin - 1 ELSE st.smin
  IN  IF st.err # "SUCCESS" THEN st
      ELSE IF full /\ st.smin <= 2
      THEN [st EXCEPT !.scratch = added, !.err = "ERR_INVALID_DATA"]
      ELSE [st EXCEPT !.scratch = ShiftIn(added, smin, bit), !.smin = smin]

\* Bit i of a byte, the most significant one being bit 0.
BitOf(byte, i) == (byte \div 2 ^ (7 - i)) % 2

DabbleByte(st, byte) ==
  LET after[i \in 0 .. 8] ==
        IF i = 0 THEN st ELSE DabbleBit(after[i - 1], BitOf(byte, i - 1))
  IN  after[8]

Dabble(amount) ==
  LET after[n \in 0 .. Len(amount)] ==
        IF n = 0 THEN DabbleStart
        ELSE LET st == after[n - 1]
             IN  IF st.err # "SUCCESS" THEN st ELSE DabbleByte(st, amount[n])
  IN  after[Len(amount)]

(***************************************************************************)
(* The text: the integer digits without leading zeros, "0" if there are    *)
(* none, then a point and the fraction without trailing zeros, if it has a *)
(* non-zero digit.  decimals is at most SCRATCH_SIZE.                      *)
(***************************************************************************)
\* Mutant: all decimals are printed.
TextOfAll(scratch, decimals) ==
  LET loop1 == SCRATCH_SIZE - decimals
      first == {k \in 1 .. loop1 : scratch[k] # 0}
  IN  (IF first = {} THEN <<0>>
       ELSE SubSeq(scratch, CHOOSE k \in first : \A j \in first : k <= j, loop1))
      \o <<Point>> \o SubSeq(scratch, loop1 + 1, SCRATCH_SIZE)

Text(scratch, decimals) ==
  LET loop1 == SCRATCH_SIZE - decimals
      first == {k \in 1 .. loop1 : scratch[k] # 0}
      last  == {k \in loop1 + 1 .. SCRATCH_SIZE : scratch[k] # 0}
      Low(S)  == CHOOSE k \in S : \A j \in S : k <= j
      High(S) == CHOOSE k \in S : \A j \in S : k >= j
  IN  (IF first = {} THEN <<0>> ELSE SubSeq(scratch, Low(first), loop1))
      \o (IF last = {} THEN << >>
          ELSE <<Point>> \o SubSeq(scratch, loop1 + 1, High(last)))

convert_hex_amount_to_displayable(amount, decimals) ==
  LET st == Dabble(amount)
  IN  [err |-> st.err,
       text |-> IF st.err = "SUCCESS" THEN Text(st.scratch, decimals) ELSE << >>]
=============================================================================
