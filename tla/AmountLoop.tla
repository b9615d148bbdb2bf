----------------------------- MODULE AmountLoop -----------------------------
(***************************************************************************)
(* The loop of convert_hex_amount_to_displayable as a state machine: one   *)
(* step per bit of the amount.  value is the number whose bits have been   *)
(* shifted in so far, kept as a number; the properties compare the digits  *)
(* in scratch with it.                                                     *)
(***************************************************************************)
EXTENDS Decimals

CONSTANT MAX_VALUE     \* bound of the model: larger numbers are not tried

ASSUME MaxValueAssumption == MAX_VALUE \in Nat

VARIABLES
  st,     \* the loop's variables, see DabbleStart
  value   \* the number the bits so far stand for

loop == <<st, value>>

LoopTypeOK ==
  /\ st \in [scratch : Digits, smin : 1 .. SCRATCH_SIZE - 1,
             err : {"SUCCESS", "ERR_INVALID_DATA"}]
  /\ value \in Nat

LoopInit ==
  /\ st = DabbleStart
  /\ value = 0

\* An amount may end after any byte, and its bits are arbitrary.
NextBit(bit) ==
  /\ st.err = "SUCCESS"
  /\ 2 * value + bit <= MAX_VALUE
  /\ st' = DabbleBit(st, bit)
  /\ value' = 2 * value + bit

LoopNext == \E bit \in {0, 1} : NextBit(bit)

LoopSpec == LoopInit /\ [][LoopNext]_loop

-----------------------------------------------------------------------------
(***************************************************************************)
(* ScratchIsDecimal: between two bits every digit is one of 0 .. 9, all    *)
(* digits left of smin are zero, and smin itself is never the first digit: *)
(* the invariant the two inner loops of utils.c:138-152 rely on to leave   *)
(* the high digits alone.                                                  *)
(***************************************************************************)
ScratchIsDecimal ==
  st.err = "SUCCESS" =>
    /\ st.smin \in 2 .. SCRATCH_SIZE - 1
    /\ \A k \in 1 .. SCRATCH_SIZE : st.scratch[k] \in 0 .. 9
    /\ \A k \in 1 .. st.smin - 1 : st.scratch[k] = 0

(***************************************************************************)
(* TextIsValue: for every number of decimals the text is the amount in     *)
(* decimal notation, and the conversion gives up exactly on the amounts    *)
(* that need all SCRATCH_SIZE digits (utils.c:133-185).                    *)
(***************************************************************************)
TextIsValue ==
  /\ st.err = "SUCCESS" <=> value < Pow10[SCRATCH_SIZE - 1]
  /\ st.err = "SUCCESS" =>
       \A decimals \in 0 .. SCRATCH_SIZE :
         Text(st.scratch, decimals) = DecimalText(value, decimals)

(***************************************************************************)
(* DigitsDouble: a bit doubles every digit, with the carries of decimal    *)
(* arithmetic: what 5 or more carries over is ten times the unit of the    *)
(* digit to its left (utils.c:142-152).                                    *)
(***************************************************************************)
Carry(scratch, k) == IF k <= SCRATCH_SIZE /\ scratch[k] >= 5 THEN 1 ELSE 0

DigitsDouble ==
  [][st'.err = "SUCCESS" =>
       \A k \in 1 .. SCRATCH_SIZE - 1 :
         st'.scratch[k] = 2 * st.scratch[k] - 10 * Carry(st.scratch, k)
                          + Carry(st.scratch, k + 1)]_loop
=============================================================================
