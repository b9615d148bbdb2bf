----------------------------- MODULE MCAmounts -----------------------------
(***************************************************************************)
(* TLC instance of AmountText.  Sizes are scaled: 4 digits for 37, 7 bytes *)
(* of amount_str for 40 (both leave room for "0." and one byte more), and  *)
(* 3 bytes of ticker for 10.  All amounts up to beyond the largest that    *)
(* fits are converted, with every number of decimals up to SCRATCH_SIZE    *)
(* and some above; tickers let text and ticker fill amount_str to the      *)
(* byte, and by one byte more; an id of a transaction may lie behind it.   *)
(***************************************************************************)
EXTENDS AmountText

SomeDecimals == (0 .. SCRATCH_SIZE + 1) \cup {255}

Letters(n) == [p \in 1 .. n |-> 12 + p]

\* The third has a zero byte in it.
ShortTickers == {Letters(1), Letters(2), <<Nul, 14>>}
FullTickers == {Letters(MAX_TICKER_LEN)}
SomeTails == {<< >>, <<30, 31>>}
SomeIds == {Nuls(3), <<40, 41, Nul>>}
=============================================================================
