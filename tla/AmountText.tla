----------------------------- MODULE AmountText -----------------------------
(***************************************************************************)
(* The way of an amount to the screen, with the C arrays it goes through:  *)
(* convert_hex_amount_to_displayable (utils.c), which is the loop over the *)
(* bits of AmountLoop and then two loops over the digits in scratch, a     *)
(* round a step; set_amount (message.c), which puts the ticker behind the  *)
(* text in amount_str; and the screen, which reads a C string there.       *)
(***************************************************************************)
EXTENDS AmountLoop, FiniteSets

CONSTANTS
  AMOUNT_STR_SIZE,   \* 40
  MAX_TICKER_LEN,    \* 10
  DecimalCounts,     \* the numbers of decimals a request may name
  Tickers,           \* the bytes of a request's ticker
  Tails,             \* what strlen may find behind the array ticker, which
                     \* ends data_context: the bytes up to the first zero
  TransactionIds     \* what transaction_id_str, the array behind amount_str,
                     \* may hold: zeros, or the text of an id and a NUL

\* Characters: the digits 0 .. 9, Point, and
Space == 11
Nul == 12

\* amount_str has room for all digits, a zero before the point, and the point.
ASSUME AmountTextAssumption ==
  /\ SCRATCH_SIZE <= 255
  /\ AMOUNT_STR_SIZE \in Nat /\ AMOUNT_STR_SIZE >= SCRATCH_SIZE + 2
  /\ MAX_TICKER_LEN \in Nat
  /\ DecimalCounts \subseteq 0 .. 255
  /\ \A t \in Tickers : t \in Seq(Nat) /\ Len(t) \in 1 .. MAX_TICKER_LEN
  /\ \A t \in Tails : t \in Seq(Nat \ {Nul})
  /\ \A id \in TransactionIds : id \in Seq(Nat) /\ \E p \in DOMAIN id : id[p] = Nul

uint8(n) == n % 256

VARIABLES
  decimals,    \* of the request; the text loops are the first to look at it
  i, offset, workOffset,   \* locals of the loops
  out,         \* the text written so far; targetOffset is its length
  amount_str,  \* the array, after set_amount
  wanted,      \* ghost: the text and the ticker that it should show
  pc           \* "bits", "integer", "fraction", "append"; "shown", "thrown", or
               \* "outside": about to read beyond the end of scratch

atext == <<decimals, i, offset, workOffset, out, amount_str, wanted>>

TextInit ==
  /\ LoopInit
  /\ decimals = 0
  /\ i = 0 /\ offset = 0 /\ workOffset = 0
  /\ out = << >> /\ amount_str = << >> /\ wanted = << >>
  /\ pc = "bits"

ShiftBit == pc = "bits" /\ LoopNext /\ UNCHANGED <<atext, pc>>

\* The loop over the bits has ended, or given up.
BitsEnd ==
  /\ pc = "bits"
  /\ IF st.err = "SUCCESS"
     THEN pc' = "integer" /\ decimals' \in DecimalCounts
     ELSE pc' = "thrown" /\ UNCHANGED decimals
  /\ UNCHANGED <<loop, i, offset, workOffset, out, amount_str, wanted>>

-----------------------------------------------------------------------------
(***************************************************************************)
(* utils.c:155-185.  LOOP1 is a uint8_t: it wraps.                         *)
(***************************************************************************)
\* Mutant: one digit too many goes before the point.
LOOP1_and_one == uint8(SCRATCH_SIZE - decimals + 1)

LOOP1 == uint8(SCRATCH_SIZE - decimals)
LOOP2 == decimals
InScratch(at) == at < SCRATCH_SIZE
Digit(at) == st.scratch[at + 1]

IntegerDigit ==
  /\ pc = "integer" /\ i < LOOP1
  /\ IF ~InScratch(offset)
     THEN pc' = "outside" /\ UNCHANGED <<i, offset, out>>
     ELSE /\ out' = IF out = << >> /\ Digit(offset) = 0 THEN out
                    ELSE Append(out, Digit(offset))
          /\ offset' = offset + 1 /\ i' = i + 1
          /\ UNCHANGED pc
  /\ UNCHANGED <<loop, decimals, workOffset, amount_str, wanted>>

IntegerEnd ==
  /\ pc = "integer" /\ i = LOOP1
  /\ out' = IF out = << >> THEN <<0>> ELSE out
  /\ workOffset' = offset /\ i' = 0 /\ pc' = "fraction"
  /\ UNCHANGED <<loop, decimals, offset, amount_str, wanted>>

\* Mutant: the zeros are looked for from the cursor on.
allZero_from_offset == \A k \in i .. LOOP2 - 1 :
                          InScratch(offset + k) => Digit(offset + k) = 0

\* The reads of the inner loop stop at the first digit that is not zero.
allZero == \A k \in i .. LOOP2 - 1 : Digit(workOffset + k) = 0

HasPoint == \E p \in DOMAIN out : out[p] = Point

FractionDigit ==
  /\ pc = "fraction" /\ i < LOOP2
  /\ IF allZero THEN pc' = "append" /\ UNCHANGED <<i, offset, out>>
     ELSE /\ out' = out \o (IF HasPoint THEN << >> ELSE <<Point>>) \o <<Digit(offset)>>
          /\ offset' = offset + 1 /\ i' = i + 1
          /\ UNCHANGED pc
  /\ UNCHANGED <<loop, decimals, workOffset, amount_str, wanted>>

FractionEnd ==
  /\ pc = "fraction" /\ i = LOOP2
  /\ pc' = "append"
  /\ UNCHANGED <<loop, decimals, i, offset, workOffset, out, amount_str, wanted>>

-----------------------------------------------------------------------------
(***************************************************************************)
(* C strings.  ticker and amount_str have no room of their own for a NUL.  *)
(***************************************************************************)
Nuls(n) == [p \in 1 .. n |-> Nul]

CString(array, behind) ==
  LET all  == array \o behind
      ends == {p \in DOMAIN all : all[p] = Nul}
  IN  SubSeq(all, 1, (CHOOSE p \in ends : \A q \in ends : p <= q) - 1)

\* Mutant: the context is not zeroed when a request begins.
TickerArray_not_reset(t) == t \o [p \in 1 .. MAX_TICKER_LEN - Len(t) |-> 13]

\* The array ticker, zero before the request's bytes were copied to it.
TickerArray(t) == t \o Nuls(MAX_TICKER_LEN - Len(t))

Fits(ticker) == AMOUNT_STR_SIZE >= Len(out) + 1 + Len(ticker)

set_amount ==
  /\ pc = "append"
  /\ \E t \in Tickers, tail \in Tails :
       LET ticker == CString(TickerArray(t), tail \o <<Nul>>)
           text   == out \o <<Space>> \o ticker
       IN  /\ wanted' = out \o <<Space>> \o CString(t, <<Nul>>)
           /\ IF Fits(ticker)
              THEN /\ amount_str' = text \o Nuls(AMOUNT_STR_SIZE - Len(text))
                   /\ pc' = "shown"
              ELSE pc' = "thrown" /\ UNCHANGED amount_str
  /\ UNCHANGED <<loop, decimals, i, offset, workOffset, out>>

TextNext ==
  \/ ShiftBit \/ BitsEnd
  \/ IntegerDigit \/ IntegerEnd \/ FractionDigit \/ FractionEnd
  \/ set_amount

TextSpec == TextInit /\ [][TextNext]_<<loop, atext, pc>>

-----------------------------------------------------------------------------
(***************************************************************************)
(* LoopsStayInside: with up to SCRATCH_SIZE decimals the loops read within *)
(* scratch and never write more than amount_str holds, though the length   *)
(* is checked only afterwards; with more, LOOP1 wraps and the integer loop *)
(* runs out of scratch (utils.c:119, 155-185).                             *)
(***************************************************************************)
LoopsStayInside ==
  /\ pc = "outside" => decimals > SCRATCH_SIZE
  /\ decimals > SCRATCH_SIZE => pc \in {"integer", "outside"}
  /\ decimals <= SCRATCH_SIZE => Len(out) <= AMOUNT_STR_SIZE
  /\ pc = "fraction" => workOffset + LOOP2 <= SCRATCH_SIZE

(***************************************************************************)
(* LoopsWriteText: the loops, which stop at the last digit of the fraction *)
(* that is not zero and look for it anew in every round, write what Amount *)
(* and the models above it take for the text (utils.c:155-185).            *)
(***************************************************************************)
LoopsWriteText ==
  pc = "append" => out = Text(st.scratch, decimals)

(***************************************************************************)
(* ShownIsAmount: the screen shows the text and the ticker, no less and no *)
(* more, whatever lies behind ticker.  When they fill amount_str to its    *)
(* last byte it has no NUL, and this takes that transaction_id_str begins  *)
(* with one: a first chunk zeroes it, and only a CONFIRM call writes to it *)
(* (message.c:87-99, 333-344); one with a token body behind it shows an    *)
(* amount and has an id all the same (message.c:546-556).                  *)
(***************************************************************************)
Shown(transaction_id_str) == CString(amount_str, transaction_id_str)

ShownIsAmount ==
  pc = "shown" =>
    \A id \in TransactionIds :
      Len(wanted) < AMOUNT_STR_SIZE \/ id[1] = Nul => Shown(id) = wanted

(***************************************************************************)
(* FullTickerIsShown: the same for a ticker of MAX_TICKER_LEN bytes, which *)
(* sign_transaction.c:41 lets through; "Ticker length must be between 1    *)
(* and 10 bytes" (everscale_transaction.py:67).                            *)
(***************************************************************************)
FullTickerIsShown == ShownIsAmount
=============================================================================
