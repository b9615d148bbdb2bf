---------------------------- MODULE EverscaleApp ----------------------------
(***************************************************************************)
(* The command loop of the application: main.c, apdu/dispatcher.c, the     *)
(* five handlers, the review callbacks and the responses.                  *)
(*                                                                         *)
(* The application is one thread.  A handler runs to its end before the    *)
(* next event, and the buttons of a review are served while io_recv_command*)
(* waits, so each handler and each callback is one action.  The transport  *)
(* is lock-step: the host sends a command only when the last one has been  *)
(* answered (the SDK holds back a command that arrives during a review).   *)
(***************************************************************************)
EXTENDS Message

CONSTANTS
  None,         \* no command, no answer, no header
  Commands,     \* the APDUs the host may send
  MAX_DATA_LEN  \* size of the message buffer: 1024 in the code

ASSUME AppAssumption ==
  /\ MAX_DATA_LEN \in Nat \ {0}
  /\ None \notin Commands
  /\ \A c \in Commands :
       /\ c.block.len \in Nat
       /\ c.ins = "SIGN_TRANSACTION" /\ c.p2 \in {0, 2} => c.header # None

\* P2 is a byte, a block of some bytes holds some part of a message, and the
\* data of a chunk that is no first one is its block.
ASSUME ChunkAssumption ==
  \A c \in {d \in Commands : d.ins = "SIGN_TRANSACTION"} :
    /\ c.p2 \in 0 .. 255
    /\ Len(c.block.items) \in Nat
    /\ c.block.items = [i \in 1 .. Len(c.block.items) |-> c.block.items[i]]
    /\ c.block.len # 0 => c.block.items # << >>
    /\ c.p2 \in {1, 3} /\ c.lc # 0 => c.block.len # 0

VARIABLES
  app,    \* "running", or "stopped" once app_main has returned
  apdu,   \* the command received and not answered yet, or None
  ui,     \* "menu", or the review on the screen
  flow,   \* the flow of a transaction review
  dc,     \* data_context
  bc,     \* boc_context
  reply,  \* the answer to the last command, NoReply until it is given
  sess    \* ghost: the signing session whose chunks the buffer holds

vars == <<app, apdu, ui, flow, dc, bc, reply, sess>>

Reviews == {"pubkey", "address", "message", "transaction"}
MAX_TICKER_LEN == 10

(***************************************************************************)
(* sess remembers what the host sent: the header of the first chunk that   *)
(* was accepted since the context was last reset, the message parts that   *)
(* were buffered, and whether no other command has written to the context  *)
(* in between.                                                             *)
(***************************************************************************)
NoSession == [header |-> None, items |-> << >>, len |-> 0, intact |-> TRUE]
Disturbed(s) == [header |-> s.header, items |-> s.items, len |-> s.len, intact |-> FALSE]

TypeOK ==
  /\ app \in {"running", "stopped"}
  /\ apdu \in Commands \cup {None}
  /\ ui \in Reviews \cup {"menu"}
  /\ DOMAIN dc = Fields
  /\ dc.tx_data_offset \in 0 .. MAX_DATA_LEN
  /\ flow \in Flows \cup {"error"}
  /\ sess.len \in Nat
  /\ sess.intact \in BOOLEAN

-----------------------------------------------------------------------------
(***************************************************************************)
(* Answers.  io_send_sw and io_send_response_pointer answer the pending    *)
(* command; kind is what the answer carries.  A throw is caught by         *)
(* app_main, which answers with its code and returns.                      *)
(***************************************************************************)
NoReply == [sw |-> "none", kind |-> "none", data |-> None]

Reply(sw, kind, data) ==
  /\ reply' = [sw |-> sw, kind |-> kind, data |-> data]
  /\ apdu' = None

io_send_sw(sw) == Reply(sw, "status", None)

\* Mutant: the loop goes on after an exception.
ThrowAndGoOn(code, dc1, bc1) ==
  /\ io_send_sw(code)
  /\ dc' = dc1
  /\ bc' = bc1
  /\ UNCHANGED <<app, ui, flow, sess>>

Throw(code, dc1, bc1) ==
  /\ io_send_sw(code)
  /\ app' = "stopped"
  /\ dc' = dc1
  /\ bc' = bc1
  /\ UNCHANGED <<ui, flow, sess>>

reset_app_context ==
  /\ dc' = ZeroContext
  /\ bc' = ZeroBoc
  /\ sess' = NoSession

Signature(account, bytes) == <<"signature", account, bytes>>

-----------------------------------------------------------------------------
(***************************************************************************)
(* Receiving and dispatching.                                              *)
(***************************************************************************)
Init ==
  /\ app = "running"
  /\ apdu = None
  /\ ui = "menu"
  /\ flow = "error"
  /\ dc = ZeroContext
  /\ bc = ZeroBoc
  /\ reply = NoReply
  /\ sess = NoSession

\* The host sends a command, and io_recv_command returns it.
Receive(c) ==
  /\ app = "running"
  /\ apdu = None
  /\ apdu' = c
  /\ reply' = NoReply
  /\ UNCHANGED <<app, ui, flow, dc, bc, sess>>

\* A received command that no handler has seen yet.
Fresh == app = "running" /\ apdu # None /\ ui = "menu"

dispatch_error(c) ==
  LET p1p2 == CASE c.ins = "GET_APP_CONFIGURATION" -> c.p1 = 0 /\ c.p2 = 0
                [] c.ins \in {"GET_PUBLIC_KEY", "GET_ADDRESS"} -> c.p1 <= 1 /\ c.p2 = 0
                [] c.ins = "SIGN" -> c.p1 = 1 /\ c.p2 = 0
                [] c.ins = "SIGN_TRANSACTION" -> c.p1 = 1 /\ c.p2 <= 3
                [] OTHER -> TRUE
      lc   == CASE c.ins = "GET_APP_CONFIGURATION" -> c.lc = 0
                [] c.ins = "GET_PUBLIC_KEY" -> c.lc = 4
                [] c.ins = "GET_ADDRESS" -> c.lc = 5
                [] c.ins = "SIGN" -> c.lc # 0
                [] OTHER -> TRUE
  IN  IF ~c.cla_ok THEN "ERR_CLA_NOT_SUPPORTED"
      ELSE IF c.ins = "unknown" THEN "ERR_INS_NOT_SUPPORTED"
      ELSE IF ~p1p2 THEN "ERR_WRONG_P1P2"
      ELSE IF ~lc THEN "ERR_WRONG_DATA_LENGTH"
      ELSE IF c.ins = "SIGN_TRANSACTION" /\ c.lc = 0 THEN "ERR_NO_DATA"
      ELSE SUCCESS

\* apdu_parser or the dispatcher answer with an error, and the loop goes on.
Refuse ==
  /\ Fresh
  /\ \/ ~apdu.parsed /\ io_send_sw("ERR_WRONG_DATA_LENGTH")
     \/ /\ apdu.parsed
        /\ dispatch_error(apdu) # SUCCESS
        /\ io_send_sw(dispatch_error(apdu))
  /\ UNCHANGED <<app, ui, flow, dc, bc, sess>>

Dispatched(ins) ==
  /\ Fresh
  /\ apdu.parsed
  /\ apdu.ins = ins
  /\ dispatch_error(apdu) = SUCCESS

-----------------------------------------------------------------------------
(***************************************************************************)
(* The handlers.  derived and signed tell whether the SDK calls that       *)
(* derive keys and sign succeed.                                           *)
(***************************************************************************)
handleGetAppConfiguration ==
  /\ Dispatched("GET_APP_CONFIGURATION")
  /\ Reply(SUCCESS, "version", <<"version">>)
  /\ UNCHANGED <<app, ui, flow, dc, bc, sess>>

(***************************************************************************)
(* helper_send_response_public_key, _address: the bytes are copied out and *)
(* the context is reset.                                                   *)
(***************************************************************************)
\* Mutant: the contexts are kept.
helper_send_response_no_reset(kind, data) ==
  Reply(SUCCESS, kind, data) /\ UNCHANGED <<dc, bc, sess>>

helper_send_response(kind, data) ==
  /\ Reply(SUCCESS, kind, data)
  /\ reset_app_context

handleGetPublicKey(derived) ==
  LET key == PublicKey(apdu.account)
  IN  /\ Dispatched("GET_PUBLIC_KEY")
      /\ UNCHANGED <<app, flow>>
      /\ \/ /\ ~derived
            /\ io_send_sw("ERR_GET_PUBLIC_KEY_FAILED")
            /\ UNCHANGED <<ui, dc, bc, sess>>
         \/ /\ derived
            /\ apdu.p1 = 0
            /\ helper_send_response("key", key)
            /\ UNCHANGED ui
         \/ /\ derived
            /\ apdu.p1 = 1
            /\ dc' = Write(dc, [pk_public_key |-> key,
                                pk_public_key_str |-> <<"hex", key>>])
            /\ sess' = Disturbed(sess)
            /\ ui' = "pubkey"
            /\ UNCHANGED <<apdu, reply, bc>>

\* get_address on the globals: a multisig wallet leaves its public key in
\* pk_context before the address is stored in the caller's field.
KeyLeft(dc0, found, account) ==
  IF found.key_left
  THEN Write(dc0, [pk_public_key |-> PublicKey(account)]) ELSE dc0

AddressFound(found, left) ==
  \/ /\ found.err # SUCCESS
     /\ Throw(found.err, left, found.bc)
  \/ /\ found.err = SUCCESS
     /\ apdu.p1 = 0
     /\ helper_send_response("address", found.address)
     /\ UNCHANGED <<app, ui, flow>>
  \/ /\ found.err = SUCCESS
     /\ apdu.p1 = 1
     /\ dc' = Write(left, [addr_address |-> found.address,
                           addr_address_str |-> <<"hex", found.address>>])
     /\ bc' = found.bc
     /\ sess' = Disturbed(sess)
     /\ ui' = "address"
     /\ UNCHANGED <<app, apdu, reply, flow>>

handleGetAddress(derived) ==
  /\ Dispatched("GET_ADDRESS")
  /\ \E found \in {get_address(bc, apdu.account, apdu.wallet, derived)} :
       AddressFound(found, KeyLeft(dc, found, apdu.account))

\* SIGN: the payload is prefixed with the magic of a plain message.
SIGN_MAGIC == "FFFFFFFF"

handleSign ==
  LET account == Write(dc, [sign_account_number |-> apdu.account])
      bytes   == <<SIGN_MAGIC, apdu.payload>>
  IN  /\ Dispatched("SIGN")
      /\ \/ /\ apdu.lc < 4
            /\ Throw("ERR_INVALID_REQUEST", dc, bc)
         \/ /\ apdu.lc \in 4 .. 35
            /\ Throw("ERR_INVALID_REQUEST", account, bc)
         \/ /\ apdu.lc >= 36
            /\ dc' = Write(account, [sign_to_sign |-> bytes,
                                     sign_to_sign_str |-> <<"hex", bytes>>])
            /\ sess' = Disturbed(sess)
            /\ ui' = "message"
            /\ UNCHANGED <<app, apdu, reply, flow, bc>>

-----------------------------------------------------------------------------
(***************************************************************************)
(* handleSignTransaction, first chunk: the header.  A step of the handler  *)
(* is a check and the assignments after it; a failed check throws.         *)
(* present is how many of the header's items the APDU holds, in the order  *)
(* they are read:                                                          *)
(*   1 account, 2 wallet type, 3 decimals, 4 ticker length, 5 ticker,      *)
(*   6 metadata, 7 current wallet type, 8 workchain, 9 address, 10 chain id*)
(***************************************************************************)
Step(st, cond, code, w) ==
  IF st.err # SUCCESS THEN st
  ELSE IF ~cond THEN [dc |-> st.dc, bc |-> st.bc, err |-> code]
  ELSE [dc |-> Write(st.dc, w), bc |-> st.bc, err |-> SUCCESS]

Item(st, h, n, w) == Step(st, h.present >= n, "ERR_INVALID_REQUEST", w)

Nothing == [f \in {} |-> Zero]

Option(st, given, h, n, w) == IF given THEN Item(st, h, n, w) ELSE st

ReadWallet(h) ==
  LET start  == [dc |-> ZeroContext, bc |-> ZeroBoc, err |-> SUCCESS]
      number == Item(start, h, 1, [tx_account_number |-> h.account])
      origin == Item(number, h, 2, [tx_origin_wallet_type |-> h.origin])
      digits == Item(origin, h, 3, [tx_decimals |-> h.decimals])
      length == Step(Item(digits, h, 4, Nothing),
                     Len(h.ticker) \in 1 .. MAX_TICKER_LEN, "ERR_TICKER_LENGTH",
                     Nothing)
      ticker == Item(length, h, 5, [tx_ticker |-> h.ticker])
      given  == "wallet" \in h.flags
  IN  Item(Item(ticker, h, 6, Nothing), h, IF given THEN 7 ELSE 6,
           [tx_current_wallet_type |-> IF given THEN h.current ELSE h.origin])

\* Mutant: boc_context is not cleared after the wallet's own address.
StoreAddressOnly(found, left) ==
  [dc |-> IF found.err # SUCCESS THEN left ELSE Write(left, [tx_address |-> found.address]),
   bc |-> found.bc, err |-> found.err]

\* get_address into context->address, then memset of boc_context.
StoreAddress(found, left) ==
  IF found.err # SUCCESS THEN [dc |-> left, bc |-> found.bc, err |-> found.err]
  ELSE [dc |-> Write(left, [tx_address |-> found.address]), bc |-> ZeroBoc,
        err |-> SUCCESS]

OwnAddressOf(st, h, found) == StoreAddress(found, KeyLeft(st.dc, found, h.account))

ReadAddress(st, h, derived) ==
  IF st.err # SUCCESS THEN st
  ELSE OwnAddressOf(st, h, get_address(st.bc, h.account, h.origin, derived))

\* Mutant: the address in the header is ignored.
ReadPrependOwn(st, h) ==
  Step(st, TRUE, SUCCESS, [tx_prepend_address |-> st.dc.tx_address])

ReadPrepend(st, h) ==
  IF "address" \in h.flags THEN Item(st, h, 9, [tx_prepend_address |-> h.address])
  ELSE Step(st, TRUE, SUCCESS, [tx_prepend_address |-> st.dc.tx_address])

ReadOptions(st, h) ==
  LET default == Step(st, TRUE, SUCCESS, [tx_wc |-> DEFAULT_WORKCHAIN_ID])
      wc      == Option(default, "wc" \in h.flags, h, 8, [tx_wc |-> h.wc])
      flag    == Step(ReadPrepend(wc, h), TRUE, SUCCESS,
                      [tx_sign_with_chain_id |-> "chain" \in h.flags])
  IN  Option(flag, "chain" \in h.flags, h, 10, [tx_chain_id |-> h.chain])

ReadHeader(h, derived) == ReadOptions(ReadAddress(ReadWallet(h), h, derived), h)

\* Mutant: no bound on the buffer.
AppendUnchecked(st, block) ==
  Step(st, TRUE, SUCCESS,
       [tx_data |-> st.dc.tx_data \o block.items,
        tx_data_offset |-> st.dc.tx_data_offset + block.len])

\* Mutant: the buffer may be filled to the last byte.
AppendToTheEnd(st, block) ==
  Step(st, st.dc.tx_data_offset + block.len <= MAX_DATA_LEN, "ERR_INVALID_DATA",
       [tx_data |-> st.dc.tx_data \o block.items,
        tx_data_offset |-> st.dc.tx_data_offset + block.len])

\* The rest of the APDU goes to the end of the message buffer.
AppendBlock(st, block) ==
  IF block.len = 0 THEN st
  ELSE Step(st, st.dc.tx_data_offset + block.len < MAX_DATA_LEN, "ERR_INVALID_DATA",
            [tx_data |-> st.dc.tx_data \o block.items,
             tx_data_offset |-> st.dc.tx_data_offset + block.len])

\* P2_EXTEND and P2_MORE.
is_first_chunk(c) == c.p2 \in {0, 2}
more(c) == c.p2 \in {2, 3}

Chunk(c, derived) ==
  AppendBlock(IF is_first_chunk(c) THEN ReadHeader(c.header, derived)
         ELSE [dc |-> dc, bc |-> bc, err |-> SUCCESS],
         c.block)

SessionWith(s, c) ==
  LET first == is_first_chunk(c)
      items == IF first THEN << >> ELSE s.items
  IN  [header |-> IF first THEN c.header ELSE s.header,
       items  |-> IF c.block.len = 0 THEN items ELSE items \o c.block.items,
       len    |-> IF first THEN c.block.len ELSE s.len + c.block.len,
       intact |-> first \/ s.intact]

(***************************************************************************)
(* The last chunk: ByteStream_init, prepare_to_sign, and the review.  The  *)
(* flag sign_with_chain_id may be a byte another command has left there;   *)
(* flag is what it reads as.                                               *)
(***************************************************************************)
Reviewed(st, flag, r) ==
  Write([st.dc EXCEPT !.tx_sign_with_chain_id = flag],
        [tx_address_str |-> r.address_str, tx_amount_str |-> r.amount_str,
         tx_transaction_id_str |-> r.transaction_id_str, tx_to_sign |-> r.to_sign])

\* ui_display_sign_transaction throws on a flow it does not know.
ReviewError(r) ==
  IF r.err # SUCCESS THEN r.err
  ELSE IF r.flow \notin Flows THEN "ERR_INVALID_REQUEST" ELSE SUCCESS

ShowTransaction(st, flag, r) ==
  \/ /\ ReviewError(r) # SUCCESS
     /\ Throw(ReviewError(r), Reviewed(st, flag, r), r.bc)
  \/ /\ ReviewError(r) = SUCCESS
     /\ dc' = Reviewed(st, flag, r)
     /\ bc' = r.bc
     /\ flow' = r.flow
     /\ ui' = "transaction"
     /\ sess' = SessionWith(sess, apdu)
     /\ UNCHANGED <<app, apdu, reply>>

AfterChunk(st) ==
  \/ /\ st.err # SUCCESS
     /\ Throw(st.err, st.dc, st.bc)
  \/ /\ st.err = SUCCESS
     /\ more(apdu)
     /\ io_send_sw(SUCCESS)
     /\ dc' = st.dc
     /\ bc' = st.bc
     /\ sess' = SessionWith(sess, apdu)
     /\ UNCHANGED <<app, ui, flow>>
  \/ /\ st.err = SUCCESS
     /\ ~more(apdu)
     /\ st.dc.tx_data_offset = 0
     /\ Throw("ERR_END_OF_STREAM", st.dc, st.bc)
  \/ /\ st.err = SUCCESS
     /\ ~more(apdu)
     /\ st.dc.tx_data_offset > 0
     /\ \E flag \in BOOLEAN :
          /\ st.dc.tx_sign_with_chain_id \in {flag, Junk}
          /\ \E r \in {prepare_to_sign(st.bc, [st.dc EXCEPT
                                               !.tx_sign_with_chain_id = flag])} :
               ShowTransaction(st, flag, r)

handleSignTransaction(derived) ==
  /\ Dispatched("SIGN_TRANSACTION")
  /\ \E st \in {Chunk(apdu, derived)} : AfterChunk(st)

-----------------------------------------------------------------------------
(***************************************************************************)
(* The review callbacks (ui/action/validate.c); Decide is the screen's     *)
(* side, which returns to the menu (ui/display_*.c, modelled in detail in  *)
(* DisplayBagl and DisplayNbgl).  A refusal leaves the context as it is.   *)
(***************************************************************************)
\* Mutant: the review stays on the screen after the decision.
DecideAndStay(screen) ==
  /\ app = "running"
  /\ ui = screen
  /\ UNCHANGED <<app, ui, flow>>

Decide(screen) ==
  /\ app = "running"
  /\ ui = screen
  /\ ui' = "menu"
  /\ UNCHANGED <<app, flow>>

\* Mutant: the menu comes back and nothing is sent.
RejectSilently == UNCHANGED <<apdu, reply, dc, bc, sess>>

Reject ==
  /\ io_send_sw("ERR_USER_REJECTED")
  /\ UNCHANGED <<dc, bc, sess>>

validate_pubkey(choice) ==
  IF choice THEN helper_send_response("key", dc.pk_public_key) ELSE Reject

validate_address(choice) ==
  IF choice THEN helper_send_response("address", dc.addr_address) ELSE Reject

\* crypto_sign_message, then helper_send_response_sign.
validate_message(choice, signed) ==
  LET signature == Signature(dc.sign_account_number, dc.sign_to_sign)
  IN  IF ~choice THEN Reject
      ELSE /\ IF signed
              THEN /\ Reply(SUCCESS, "signature", signature)
                   /\ dc' = Write(dc, [sign_signature |-> signature])
              ELSE io_send_sw("ERR_SIGNING_FAILED") /\ UNCHANGED dc
           /\ sess' = Disturbed(sess)
           /\ UNCHANGED bc

(***************************************************************************)
(* crypto_sign_transaction signs 32 or 36 bytes of to_sign as the flag     *)
(* says; to_sign has one part or two.                                      *)
(***************************************************************************)
SignedBytes(c) ==
  IF c.tx_sign_with_chain_id = (Len(c.tx_to_sign) = 2) THEN c.tx_to_sign
  ELSE <<Junk>>

\* Mutant: the account of the other signing context.
validate_transaction_as_message(choice, signed) ==
  LET signature == Signature(dc.sign_account_number, SignedBytes(dc))
  IN  IF ~choice THEN Reject
      ELSE /\ Reply(SUCCESS, "signature", signature)
           /\ dc' = Write(dc, [tx_signature |-> signature])
           /\ UNCHANGED <<bc, sess>>

validate_transaction(choice, signed) ==
  LET signature == Signature(dc.tx_account_number, SignedBytes(dc))
  IN  IF ~choice THEN Reject
      ELSE /\ IF signed
              THEN /\ Reply(SUCCESS, "signature", signature)
                   /\ dc' = Write(dc, [tx_signature |-> signature])
              ELSE io_send_sw("ERR_SIGNING_FAILED") /\ UNCHANGED dc
           /\ UNCHANGED <<bc, sess>>

-----------------------------------------------------------------------------
(***************************************************************************)
(* The end of app_main: the user quits from the menu, or io_recv_command   *)
(* fails, which also shows the menu and the reviews; a pending command is  *)
(* lost.  app_main starts again with fresh contexts when the application   *)
(* is opened again.                                                        *)
(***************************************************************************)
Stop ==
  /\ app = "running"
  /\ app' = "stopped"
  /\ apdu' = None
  /\ UNCHANGED <<ui, flow, dc, bc, reply, sess>>

Quit == apdu = None /\ ui = "menu" /\ Stop

ReceiveFails == (apdu = None \/ ui \in Reviews) /\ Stop

app_main ==
  /\ app = "stopped"
  /\ app' = "running"
  /\ apdu' = None
  /\ ui' = "menu"
  /\ flow' = "error"
  /\ reply' = NoReply
  /\ reset_app_context

-----------------------------------------------------------------------------
Handle ==
  \/ Refuse
  \/ handleGetAppConfiguration
  \/ handleSign
  \/ \E derived \in BOOLEAN :
       \/ handleGetPublicKey(derived)
       \/ handleGetAddress(derived)
       \/ handleSignTransaction(derived)

UserDecides ==
  \E choice \in BOOLEAN :
    \/ Decide("pubkey") /\ validate_pubkey(choice)
    \/ Decide("address") /\ validate_address(choice)
    \/ \E signed \in BOOLEAN :
         \/ Decide("message") /\ validate_message(choice, signed)
         \/ Decide("transaction") /\ validate_transaction(choice, signed)

Next ==
  \/ \E c \in Commands : Receive(c)
  \/ Handle
  \/ UserDecides
  \/ Quit
  \/ ReceiveFails
  \/ app_main

Spec == Init /\ [][Next]_vars

-----------------------------------------------------------------------------
(***************************************************************************)
(* The fields of the header that a session keeps.  Every other command may *)
(* run between two chunks and writes through its own member of the union;  *)
(* these fields lie beyond the other members.                              *)
(***************************************************************************)
Kept(h, address) ==
  IF h = None
  THEN [tx_account_number |-> 0, tx_origin_wallet_type |-> 0,
        tx_current_wallet_type |-> 0, tx_decimals |-> 0, tx_ticker |-> << >>,
        tx_wc |-> 0, tx_address |-> Zero, tx_prepend_address |-> Zero]
  ELSE [tx_account_number |-> h.account, tx_origin_wallet_type |-> h.origin,
        tx_current_wallet_type |-> IF "wallet" \in h.flags THEN h.current ELSE h.origin,
        tx_decimals |-> h.decimals, tx_ticker |-> h.ticker,
        tx_wc |-> IF "wc" \in h.flags THEN h.wc ELSE DEFAULT_WORKCHAIN_ID,
        tx_address |-> address,
        tx_prepend_address |-> IF "address" \in h.flags THEN h.address ELSE address]

OwnAddress(h) == get_address(ZeroBoc, h.account, h.origin, TRUE).address

(***************************************************************************)
(* HeaderSurvives: while the application runs, the account, wallet, token  *)
(* and addresses that a review will use are those of the one first chunk   *)
(* that opened the session - never those of another command that ran       *)
(* between two chunks, nor of a first chunk that failed half way - or all  *)
(* zero when no first chunk came (sign_transaction.c:16-88 against the     *)
(* writes of the other handlers to the union of globals.h:94).             *)
(***************************************************************************)
HeaderSurvives ==
  app = "running" =>
    LET kept == Kept(sess.header, IF sess.header = None THEN Zero
                                  ELSE OwnAddress(sess.header))
    IN  \A f \in DOMAIN kept : dc[f] = kept[f]

(***************************************************************************)
(* BufferIsSession: the message buffer holds the parts of this session's   *)
(* chunks, in the order sent and nothing else, and is never full: one byte *)
(* always stays free (sign_transaction.c:96-100).                          *)
(***************************************************************************)
BufferIsSession ==
  app = "running" =>
    /\ dc.tx_data = sess.items
    /\ dc.tx_data_offset = sess.len
    /\ sess.len < MAX_DATA_LEN

(***************************************************************************)
(* ReviewIsSession: the review of a transaction shows what a device that   *)
(* was just started would show for the one message the chunks add up to,   *)
(* under the header of the first one, and what it would sign it signs:     *)
(* where the chunks were cut and what else ran before or in between leave  *)
(* no trace.  If another command has run in between, this is so but for    *)
(* the bytes signed, and for what it has left in the strings of the review *)
(* (left) that the message does not set.  A session of which a part was    *)
(* reviewed already is left out (sign_transaction.c:16-142).               *)
(***************************************************************************)
SessionContext(h, items, left) ==
  [ReadHeader(h, TRUE).dc EXCEPT
     !.tx_data = items, !.tx_address_str = left, !.tx_amount_str = left]

SessionReview(h, items, left) ==
  prepare_to_sign(ZeroBoc, SessionContext(h, items, left))

IsReviewed(h, items) ==
  \E left \in {Zero, Junk} : ReviewError(SessionReview(h, items, left)) = SUCCESS

ReviewedBefore ==
  \E n \in 1 .. Len(sess.items) - 1 :
    IsReviewed(sess.header, SubSeq(sess.items, 1, n))

OnScreen ==
  [flow |-> flow, address_str |-> dc.tx_address_str, amount_str |-> dc.tx_amount_str,
   transaction_id_str |-> dc.tx_transaction_id_str]

ShownBy(r) ==
  [flow |-> r.flow, address_str |-> r.address_str, amount_str |-> r.amount_str,
   transaction_id_str |-> r.transaction_id_str]

ReviewIsSession ==
  app = "running" /\ ui = "transaction" /\ sess.header # None /\ ~ReviewedBefore =>
    \E left \in {Zero, Junk} :
      \E r \in {SessionReview(sess.header, sess.items, left)} :
        /\ OnScreen = ShownBy(r)
        /\ sess.intact => left = Zero /\ SignedBytes(dc) = r.to_sign

(***************************************************************************)
(* AnswersMatch: a positive answer is the one the command asked for: the   *)
(* public key of its account, a signature of its account over its payload  *)
(* behind the magic, or a signature of the account of the session (zero    *)
(* when no first chunk came) over all the bytes that were prepared; and no *)
(* other command is answered with a signature - also when a review lay in  *)
(* between (validate.c:41-115, send_response.c).                           *)
(***************************************************************************)
Answered == apdu # None /\ apdu' = None /\ app' = "running" /\ reply'.sw = SUCCESS

SessionAccount == IF sess.header = None THEN 0 ELSE sess.header.account

AnswersMatch ==
  [][Answered =>
       CASE apdu.ins = "GET_PUBLIC_KEY" -> reply'.data = PublicKey(apdu.account)
         [] apdu.ins = "SIGN" ->
              reply'.data = Signature(apdu.account, <<SIGN_MAGIC, apdu.payload>>)
         [] apdu.ins = "SIGN_TRANSACTION" /\ ui = "transaction" ->
              reply'.data = Signature(SessionAccount, dc.tx_to_sign)
         [] apdu.ins = "SIGN_TRANSACTION" /\ ui = "menu" -> reply'.kind = "status"
         [] OTHER -> reply'.kind # "signature"]_vars

(***************************************************************************)
(* EveryCommandAnswered: a command that was received is answered, by its   *)
(* handler or by a decision that the screens let the user come to, unless  *)
(* the application stops (IO_ASYNCH_REPLY of the handlers, validate.c).    *)
(***************************************************************************)
EveryCommandAnswered == (apdu # None) ~> (apdu = None)

(***************************************************************************)
(* IsSigningDevice: the application is a signing device (SigningDevice):   *)
(* the request is what the callback of the review on the screen would sign *)
(* now, and a signature is out while it is the last answer (validate.c).   *)
(***************************************************************************)
PendingRequest ==
  IF app # "running" THEN {}
  ELSE CASE ui = "message" ->
              {[account |-> dc.sign_account_number, bytes |-> dc.sign_to_sign]}
         [] ui = "transaction" ->
              {[account |-> dc.tx_account_number, bytes |-> SignedBytes(dc)]}
         [] OTHER -> {}

SignatureOut == IF reply.kind = "signature" THEN {reply.data} ELSE {}

Device == INSTANCE SigningDevice WITH pending <- PendingRequest, out <- SignatureOut

IsSigningDevice == Device!Spec
=============================================================================
