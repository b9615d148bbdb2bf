------------------------------ MODULE Message ------------------------------
(***************************************************************************)
(* message.c: what handleSignTransaction does with a complete message.     *)
(* prepare_to_sign parses the boc for the wallet type of the request,      *)
(* writes the strings the user will review, and computes the bytes to sign.*)
(*                                                                         *)
(* A parse state p is a slice (see Cells) together with the strings        *)
(* written so far, the review flow, and the slice of the body cell that    *)
(* the token parser may fall back on:                                      *)
(*   ref     << >> for the NULL slice, or << the cell >>                   *)
(*   on_ref  the reads already go to the body cell                         *)
(***************************************************************************)
EXTENDS Wallet, Amount

CONSTANT AMOUNT_STR_SIZE    \* sizeof amount_str: 40 in the code

DEFAULT_WORKCHAIN_ID == 0
ADDRESS_LENGTH == 32
AMOUNT_LENGTH == 16
TRANSACTION_ID_LENGTH == 8
PREPEND_BUFFER_SIZE == 130

MULTISIG_DEPLOY_TRANSACTION == 1813932348
MULTISIG_SEND_TRANSACTION == 1290691692
MULTISIG_SUBMIT_TRANSACTION == 320701133
MULTISIG_CONFIRM_TRANSACTION == 447168749
MULTISIG2_DEPLOY_TRANSACTION == 733015951
MULTISIG2_SUBMIT_TRANSACTION == 1428000117

TOKEN_BURN == 1445284013
TOKEN_TRANSFER == 1944199491
TOKEN_TRANSFER_TO_WALLET == 1185535980

NORMAL_FLAG == 3
ALL_BALANCE_FLAG == 128
ALL_BALANCE_AND_DELETE_FLAG == 160

Flows == {"transfer", "deploy", "confirm", "burn"}

-----------------------------------------------------------------------------
(***************************************************************************)
(* Parse states.                                                           *)
(***************************************************************************)
Open(p, cell) ==
  [p EXCEPT !.data = cell.data, !.pos = 0, !.end = 8 * DataSize(cell)]

StartParse(cell, dc) ==
  [data |-> cell.data, pos |-> 0, end |-> 8 * DataSize(cell), val |-> 0,
   err |-> SUCCESS, flow |-> "error", ref |-> << >>, on_ref |-> FALSE,
   address_str |-> dc.tx_address_str, amount_str |-> dc.tx_amount_str,
   transaction_id_str |-> dc.tx_transaction_id_str]

Flow(p, flow) == [p EXCEPT !.flow = flow]

\* Mutant: a value that ends with the slice is sought in the other cell.
FallBackEarly(p, bits) ==
  IF p.err # SUCCESS \/ RemainingBits(p) > bits THEN p
  ELSE IF p.ref = << >> THEN [p EXCEPT !.err = "ERR_SLICE_IS_EMPTY"]
  ELSE IF p.on_ref THEN p
  ELSE [Open(p, p.ref[1]) EXCEPT !.on_ref = TRUE]

\* "slice = ref_slice" of the token parser, when too few bits remain.
FallBack(p, bits) ==
  IF p.err # SUCCESS \/ RemainingBits(p) >= bits THEN p
  ELSE IF p.ref = << >> THEN [p EXCEPT !.err = "ERR_SLICE_IS_EMPTY"]
  ELSE IF p.on_ref THEN p
  ELSE [Open(p, p.ref[1]) EXCEPT !.on_ref = TRUE]

-----------------------------------------------------------------------------
(***************************************************************************)
(* The strings of the review.                                              *)
(***************************************************************************)
Int8(byte) == IF byte > 127 THEN byte - 256 ELSE byte

set_dst_address(p, wc, address) ==
  IF p.err # SUCCESS THEN p
  ELSE [p EXCEPT !.address_str = [wc |-> Int8(wc), address |-> address]]

\* p after p.val, an amount, is shown; ctx gives its decimals and ticker.
ShowAmount(p, flags, text, ticker) ==
  [p EXCEPT !.amount_str = [flag |-> flags, text |-> text, ticker |-> ticker]]

AmountFails(p, code) == [p EXCEPT !.amount_str = Zero, !.err = code]

ShowNumber(p, number, ticker) ==
  IF number.err # SUCCESS THEN AmountFails(p, number.err)
  ELSE IF Len(number.text) + 1 + Len(ticker) > AMOUNT_STR_SIZE
  THEN AmountFails(p, "ERR_INVALID_MESSAGE")
  ELSE ShowAmount(p, NORMAL_FLAG, number.text, ticker)

set_amount(p, flags, ctx) ==
  IF p.err # SUCCESS THEN p
  ELSE IF flags = NORMAL_FLAG
  THEN ShowNumber(p, convert_hex_amount_to_displayable(p.val, ctx.tx_decimals),
                  ctx.tx_ticker)
  ELSE IF flags \in {ALL_BALANCE_FLAG, ALL_BALANCE_AND_DELETE_FLAG}
  THEN ShowAmount(p, flags, << >>, << >>)
  ELSE AmountFails(p, "ERR_INVALID_FLAG")

set_transaction_id(p) ==
  IF p.err # SUCCESS THEN p
  ELSE [p EXCEPT !.transaction_id_str = <<"hex", p.val>>]

-----------------------------------------------------------------------------
(***************************************************************************)
(* deserialize_address: val becomes [wc, address].  addr_none sets neither:*)
(* the caller's wc is 0 and its address buffer is uninitialised.           *)
(***************************************************************************)
deserialize_std(p) ==
  [Next_value(p, ADDRESS_LENGTH) EXCEPT !.val = [wc |-> p.val, address |-> @]]

deserialize_address(p) ==
  LET Type(type) ==
        IF type.err # SUCCESS THEN type
        ELSE IF type.val = 0 THEN [type EXCEPT !.val = [wc |-> 0, address |-> Junk]]
        ELSE deserialize_std(Next_int(Next_int(type, 1), 8))
  IN  Type(Expect(Next_int(p, 2), {0, 2}, "ERR_INVALID_MESSAGE"))

\* An address that is parsed and then shown.
Show_dst_address(p) ==
  LET Show(dst) == IF dst.err # SUCCESS THEN dst
                   ELSE set_dst_address(dst, dst.val.wc, dst.val.address)
  IN  Show(deserialize_address(p))

\* An amount of as many bytes as the four bits before it tell.
Next_coins(p) ==
  LET Coins(len) == IF len.err # SUCCESS THEN len ELSE Next_value(len, len.val)
  IN  Coins(Expect(Next_int(p, 4), 0 .. AMOUNT_LENGTH, "ERR_INVALID_MESSAGE"))

deserialize_int_message_header(p, flags, ctx) ==
  LET int_msg == Expect(Next_int(p, 1), {0}, "ERR_INVALID_MESSAGE")
      dst     == Show_dst_address(deserialize_address(Next_int(Skip(int_msg, 1, 1), 1)))
      amount  == set_amount(Next_coins(dst), flags, ctx)
      ihr     == Expect(Next_int(Next_int(amount, 1), 4), {0}, "ERR_INVALID_MESSAGE")
      fwd     == Expect(Next_int(ihr, 4), {0}, "ERR_INVALID_MESSAGE")
  IN  Skip(fwd, 64, 32)

Token_amount(p, ctx) ==
  set_amount(Next_value(FallBack(p, 8 * AMOUNT_LENGTH), AMOUNT_LENGTH), NORMAL_FLAG, ctx)

Token_call(id, ctx) ==
  IF id.err # SUCCESS THEN id
  ELSE IF id.val \in {TOKEN_TRANSFER, TOKEN_TRANSFER_TO_WALLET}
  THEN Flow(Show_dst_address(FallBack(Token_amount(id, ctx), 8 * ADDRESS_LENGTH)),
            "transfer")
  ELSE IF id.val = TOKEN_BURN THEN Flow(Token_amount(id, ctx), "burn")
  ELSE Flow(id, "transfer")

deserialize_token_body(p, ctx) ==
  LET empty == p.ref = << >> \/ 8 * DataSize(p.ref[1]) < 32
  IN  IF p.err # SUCCESS THEN p
      ELSE IF RemainingBits(p) < 32 /\ empty THEN Flow(p, "transfer")
      ELSE Token_call(Next_int(FallBack(p, 32), 32), ctx)

Send_flags(amount, ctx) ==
  LET Flags(flags) == set_amount([flags EXCEPT !.val = amount.val], flags.val, ctx)
  IN  Flags(Next_int(Next_int(amount, 1), 8))

\* Mutant: the flag of a submit is not read.
Submit_always_amount(amount, ctx) == set_amount(amount, NORMAL_FLAG, ctx)

Submit_flags(amount, ctx) ==
  LET Flag(all) == set_amount([all EXCEPT !.val = amount.val],
                              IF all.val = 0 THEN NORMAL_FLAG ELSE ALL_BALANCE_FLAG, ctx)
  IN  Flag(Next_int(Next_int(amount, 1), 1))

deserialize_multisig_params(p, function_id, ctx) ==
  LET amount == Next_value(Show_dst_address(p), AMOUNT_LENGTH)
  IN  IF p.err # SUCCESS THEN p
      ELSE CASE function_id \in {MULTISIG_DEPLOY_TRANSACTION,
                                 MULTISIG2_DEPLOY_TRANSACTION} ->
                  Flow(set_dst_address(p, ctx.tx_wc, ctx.tx_address), "deploy")
             [] function_id = MULTISIG_SEND_TRANSACTION ->
                  Flow(Send_flags(amount, ctx), "transfer")
             [] function_id \in {MULTISIG_SUBMIT_TRANSACTION,
                                 MULTISIG2_SUBMIT_TRANSACTION} ->
                  Flow(Submit_flags(amount, ctx), "transfer")
             [] function_id = MULTISIG_CONFIRM_TRANSACTION ->
                  Flow(set_transaction_id(Next_value(p, TRANSACTION_ID_LENGTH)), "confirm")
             [] OTHER -> [p EXCEPT !.err = "ERR_INVALID_FUNCTION_ID"]

-----------------------------------------------------------------------------
(***************************************************************************)
(* The headers of the root cell; val is the message flags, respectively    *)
(* the function id.                                                        *)
(***************************************************************************)
NoMoreBits(p) == Validate(p, RemainingBits(p) = 0, "ERR_INVALID_MESSAGE")

deserialize_wallet_v3(p) ==
  LET id == Expect(Next_int(p, 32), {WALLET_ID}, "ERR_INVALID_MESSAGE")
  IN  NoMoreBits(Next_int(Skip(id, 32, 32), 8))

deserialize_contract_header(p) ==
  LET Signed(bit) == IF bit.val = 1 THEN MoveBy(bit, 256) ELSE bit
  IN  Next_int(Skip(Signed(Next_int(p, 1)), 64, 32), 32)

(***************************************************************************)
(* prepend_address_to_cell: the root cell with the wallet's address in     *)
(* front of its data.  The data is copied with its completion tag; data of *)
(* whole bytes has none, and then the result lacks one too.  d2 is a byte: *)
(* of more than 1023 bits it keeps 1024 less, and as much of the data is   *)
(* hashed.                                                                 *)
(***************************************************************************)
prepend_address_to_cell(cell, wc, address) ==
  LET bit_len == BitLen(cell) + 267
      long == <<Fld(3, 4), Fld(8, wc), Fld(256, address)>> \o cell.data
      tagged == IF BitLen(cell) % 8 = 0 THEN Append(long, Fld(0, Junk)) ELSE long
      data == IF bit_len < 1024 THEN tagged ELSE <<Fld(bit_len - 1024, Junk)>>
  IN  [cell |-> [cell EXCEPT !.data = data],
       err  |-> IF 33 + DataSize(cell) > PREPEND_BUFFER_SIZE
                THEN "ERR_INVALID_DATA" ELSE SUCCESS]

-----------------------------------------------------------------------------
(***************************************************************************)
(* prepare_to_sign.  The result has the code thrown, the review flow, the  *)
(* boc_context, the strings, and to_sign: the hash of the root cell, with  *)
(* the chain id in front when the request has one.                         *)
(***************************************************************************)
HasCell(p, cells, index) ==
  Validate(p, Len(cells) > index, "ERR_INVALID_CELL_INDEX")

parse_wallet_v3(p, cells, ctx) ==
  LET Body(body) ==
        IF body.err # SUCCESS \/ (body.val = 0 /\ cells[2].refs = << >>)
        THEN Flow(body, "transfer")
        ELSE IF Len(cells) <= 2 THEN HasCell(body, cells, 2)
        ELSE deserialize_token_body([body EXCEPT !.ref = <<cells[3]>>], ctx)
      Gift(root) ==
        IF root.err # SUCCESS THEN root
        ELSE LET head == deserialize_int_message_header(Open(root, cells[2]), root.val, ctx)
             IN  Body(Next_int(Expect(Next_int(head, 1), {0}, "ERR_INVALID_MESSAGE"), 1))
  IN  Gift(HasCell(deserialize_wallet_v3(p), cells, 1))

\* The parameters of the call are in cell 1, or in the root for a confirm
\* of a wallet whose ABI keeps them there.
parse_multisig(p, cells, ctx, confirm_in_root) ==
  LET Body(args, holder) ==
        IF args.err # SUCCESS \/ holder.refs = << >> THEN args
        ELSE IF Len(cells) <= 2 THEN HasCell(args, cells, 2)
        ELSE IF DataSize(cells[3]) = 0 THEN args
        ELSE deserialize_token_body(Open(args, cells[3]), ctx)
      Call(root) ==
        IF confirm_in_root /\ root.val = MULTISIG_CONFIRM_TRANSACTION
        THEN Body(deserialize_multisig_params(root, root.val, ctx), cells[1])
        ELSE IF root.err # SUCCESS \/ Len(cells) <= 1 THEN HasCell(root, cells, 1)
        ELSE Body(deserialize_multisig_params(Open(root, cells[2]), root.val, ctx), cells[2])
  IN  Call(deserialize_contract_header(p))

PayloadHash(hashed, ctx) ==
  [err |-> hashed.err, bc |-> hashed.bc,
   to_sign |-> IF ctx.tx_sign_with_chain_id
               THEN <<ctx.tx_chain_id, hashed.bc.hashes[0]>>
               ELSE <<hashed.bc.hashes[0]>>]

prepare_payload_hash(bc, ctx) == PayloadHash(HashCells(bc, Len(bc.cells) - 1), ctx)

PrependedWallets == {EVER_WALLET, MULTISIG_2, MULTISIG_2_1}
MultisigWallets == {SAFE_MULTISIG_WALLET, SAFE_MULTISIG_WALLET_24H,
                    SETCODE_MULTISIG_WALLET, BRIDGE_MULTISIG_WALLET, SURF_WALLET}

\* The message is parsed into p: the hash of its root, which for the newer
\* wallets is first replaced by the longer one.
Hashed(p, code, bc, to_sign) ==
  [err |-> code, flow |-> p.flow, bc |-> bc, address_str |-> p.address_str,
   amount_str |-> p.amount_str, transaction_id_str |-> p.transaction_id_str,
   to_sign |-> to_sign]

HashPlain(p, bc, ctx) ==
  LET Done(h) == Hashed(p, h.err, h.bc, IF h.err = SUCCESS THEN h.to_sign
                                        ELSE ctx.tx_to_sign)
  IN  Done(prepare_payload_hash(bc, ctx))

HashPrepended(p, bc, ctx) ==
  LET Done(h, b) == Hashed(p, h.err, IF h.err = SUCCESS THEN ZeroBoc ELSE b,
                           IF h.err = SUCCESS THEN h.to_sign ELSE ctx.tx_to_sign)
      Long(root) ==
        IF root.err # SUCCESS THEN Hashed(p, root.err, bc, ctx.tx_to_sign)
        ELSE LET longer == [bc EXCEPT !.cells[1] = root.cell]
             IN  Done(prepare_payload_hash(longer, ctx), longer)
  IN  Long(prepend_address_to_cell(bc.cells[1], ctx.tx_wc, ctx.tx_prepend_address))

HashParsed(p, bc, ctx) ==
  IF p.err # SUCCESS THEN Hashed(p, p.err, bc, ctx.tx_to_sign)
  ELSE IF ctx.tx_current_wallet_type \in PrependedWallets THEN HashPrepended(p, bc, ctx)
  ELSE HashPlain(p, bc, ctx)

Parse(p, cells, ctx) ==
  IF ctx.tx_current_wallet_type = WALLET_V3 THEN parse_wallet_v3(p, cells, ctx)
  ELSE parse_multisig(p, cells, ctx, ctx.tx_current_wallet_type \in MultisigWallets)

SignTree(tree, ctx) ==
  LET bc    == tree.bc
      start == StartParse(bc.cells[1], ctx)
      Stop(code) ==
        [err |-> code, flow |-> "error", bc |-> bc,
         address_str |-> ctx.tx_address_str, amount_str |-> ctx.tx_amount_str,
         transaction_id_str |-> ctx.tx_transaction_id_str, to_sign |-> ctx.tx_to_sign]
  IN  IF tree.err # SUCCESS THEN Stop(tree.err)
      ELSE IF bc.cells = << >> THEN Stop("ERR_INVALID_MESSAGE")
      ELSE IF ctx.tx_current_wallet_type \notin WALLET_V3 .. MULTISIG_2_1
      THEN Stop("ERR_INVALID_WALLET_TYPE")
      ELSE HashParsed(Parse(start, bc.cells, ctx), bc, ctx)

prepare_to_sign(bc, ctx) == SignTree(deserialize_cells_tree(bc, ctx.tx_data), ctx)
=============================================================================
