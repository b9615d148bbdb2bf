---------------------------- MODULE FuzzHarness -----------------------------
(***************************************************************************)
(* The fuzzing harness (fuzzing/fuzzer.c, os_mocks.c): the transaction     *)
(* parser of the application, run on one input after the other in one      *)
(* process.  Unlike the application it never resets boc_context and        *)
(* data_context, so an input finds there what earlier ones left.           *)
(***************************************************************************)
EXTENDS Message

CONSTANTS
  Inputs,       \* [len, wallet, items]: the first byte, then a boc
  NO_CONTEXT    \* NULL

VARIABLES
  data_context,      \* kept from input to input
  boc_context,
  input,             \* the input that is run, or the last one
  current_context,   \* of os_mocks.c: where os_longjmp goes
  outer,             \* the previous context, kept by BEGIN_TRY
  phase,             \* "ready", "begin", "try" or "end"
  outcome            \* how the last input ended

fuzz == <<data_context, boc_context, input, current_context, outer, phase, outcome>>

NoInput == [len |-> 0, wallet |-> 0, items |-> << >>]
Outcome(err, flow) == [err |-> err, flow |-> flow]

FuzzInit ==
  /\ data_context = ZeroContext /\ boc_context = ZeroBoc
  /\ input = NoInput
  /\ current_context = NO_CONTEXT /\ outer = NO_CONTEXT
  /\ phase = "ready" /\ outcome = Outcome("none", "none")

LLVMFuzzerTestOneInput(x) ==
  /\ phase = "ready"
  /\ input' = x
  /\ IF x.len < 1
     THEN outcome' = Outcome("rejected", "none") /\ UNCHANGED <<data_context, phase>>
     ELSE /\ data_context' = [data_context EXCEPT !.tx_current_wallet_type = x.wallet % 9]
          /\ phase' = "begin"
          /\ UNCHANGED outcome
  /\ UNCHANGED <<boc_context, current_context, outer>>

\* BEGIN_TRY: try_context_set.
try_context_set ==
  /\ phase = "begin"
  /\ current_context' = "input" /\ outer' = current_context
  /\ phase' = "try"
  /\ UNCHANGED <<data_context, boc_context, input, outcome>>

\* The wallet's own address is the harness's, on the default workchain.
FuzzContext(c, x) ==
  [c EXCEPT !.tx_data = x.items, !.tx_wc = DEFAULT_WORKCHAIN_ID,
            !.tx_address = "address", !.tx_prepend_address = "address"]

Parsed(b, c, x) ==
  IF x.len = 1 THEN [err |-> "ERR_END_OF_STREAM", flow |-> "error"]
  ELSE LET r == prepare_to_sign(b, FuzzContext(c, x)) IN [err |-> r.err, flow |-> r.flow]

\* ByteStream_init and prepare_to_sign, up to the end or to the longjmp.
run_input ==
  /\ phase = "try" /\ current_context # NO_CONTEXT
  /\ outcome' = Parsed(boc_context, data_context, input)
  /\ IF input.len = 1 THEN UNCHANGED <<data_context, boc_context>>
     ELSE \E r \in {prepare_to_sign(boc_context, FuzzContext(data_context, input))} :
            /\ boc_context' = r.bc
            /\ data_context' = [data_context EXCEPT
                                  !.tx_address_str = r.address_str,
                                  !.tx_amount_str = r.amount_str,
                                  !.tx_transaction_id_str = r.transaction_id_str,
                                  !.tx_to_sign = r.to_sign]
  /\ phase' = "end"
  /\ UNCHANGED <<input, current_context, outer>>

\* CATCH_OTHER and END_TRY: whatever was thrown, the outer context is back.
end_try ==
  /\ phase = "end"
  /\ current_context' = outer
  /\ phase' = "ready"
  /\ UNCHANGED <<data_context, boc_context, input, outer, outcome>>

FuzzNext ==
  \/ \E x \in Inputs : LLVMFuzzerTestOneInput(x)
  \/ try_context_set \/ run_input \/ end_try

FuzzSpec == FuzzInit /\ [][FuzzNext]_fuzz

-----------------------------------------------------------------------------
(***************************************************************************)
(* OutcomeIsInputs: how an input ends, with which error or which kind of   *)
(* review, depends on nothing an earlier input left behind: an input that  *)
(* was reported ends the same way when it is run alone (fuzzer.c:32-68;    *)
(* message.c:453-621 on contexts that were not reset).  Only the hash may  *)
(* differ, by depths that an earlier tree left in cell_depth.              *)
(***************************************************************************)
OutcomeIsInputs ==
  phase = "end" => outcome = Parsed(ZeroBoc, [ZeroContext EXCEPT
                                   !.tx_current_wallet_type = input.wallet % 9], input)
=============================================================================
