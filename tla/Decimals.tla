------------------------------ MODULE Decimals ------------------------------
(***************************************************************************)
(* Decimal notation by arithmetic: what convert_hex_amount_to_displayable  *)
(* is compared with.  A text is a sequence of digits with at most one      *)
(* Point (see Amount).                                                     *)
(***************************************************************************)
EXTENDS Integers, Sequences, Amount

Pow10[k \in Nat] == IF k = 0 THEN 1 ELSE 10 * Pow10[k - 1]

\* The last width digits of n, the most significant one first.
DigitsOf(n, width) == [i \in 1 .. width |-> (n \div Pow10[width - i]) % 10]

\* The number of digits of n without leading zeros.
Width(n) == CHOOSE k \in 1 .. SCRATCH_SIZE : n < Pow10[k] /\ (k = 1 \/ n >= Pow10[k - 1])

\* All integer digits, then the fraction without its trailing zeros.
DecimalText(n, decimals) ==
  LET whole == n \div Pow10[decimals]
      rest  == n % Pow10[decimals]
      kept  == CHOOSE k \in 0 .. decimals :
                 /\ rest % Pow10[decimals - k] = 0
                 /\ \A j \in 0 .. k - 1 : rest % Pow10[decimals - j] # 0
  IN  DigitsOf(whole, Width(whole))
      \o IF rest = 0 THEN << >>
         ELSE <<Point>> \o SubSeq(DigitsOf(rest, decimals), 1, kept)
=============================================================================
