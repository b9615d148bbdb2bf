------------------------------ MODULE Requests ------------------------------
(***************************************************************************)
(* The other side of EverscaleApp: what a host sends (client/src/main.rs   *)
(* builds the same messages), and what the user and the host expect of the *)
(* device, stated without the device's own parsing and hashing loops.      *)
(*                                                                         *)
(* A request m is what the host means:                                     *)
(*   [kind, wallet, wc, to, amount, owners]                                *)
(* Message(m) is the boc that carries it to the wallet contract.           *)
(***************************************************************************)
EXTENDS EverscaleApp, Decimals

CONSTANT Sent     \* the requests whose messages the host may send

\* Amounts are 16-byte big-endian numbers; the model uses the last two bytes.
Bytes16(n) == [i \in 1 .. 14 |-> 0] \o <<n \div 256, n % 256>>
ValueOf(amount) == 256 * amount[15] + amount[16]
ShortBytes(n) == IF n = 0 THEN << >>
                 ELSE IF n < 256 THEN <<n>> ELSE <<n \div 256, n % 256>>

-----------------------------------------------------------------------------
(***************************************************************************)
(* Messages.                                                               *)
(***************************************************************************)
\* addr_none, for a message without a recipient, or addr_std; a workchain is
\* a signed byte.
AddrStd(wc, address) ==
  IF address = None THEN <<Fld(2, 0)>>
  ELSE <<Fld(2, 2), Fld(1, 0), Fld(8, wc % 256), Fld(256, address)>>

TokenCall(id, m) ==
  <<Fld(32, id), Fld(128, Bytes16(m.amount))>>
  \o IF id = TOKEN_BURN THEN << >> ELSE AddrStd(m.wc, m.to)

\* The call a token request carries to the token wallet, and no call else.
BodyData(m) ==
  CASE m.kind = "token"  -> TokenCall(TOKEN_TRANSFER, m)
    [] m.kind = "mint"   -> TokenCall(TOKEN_TRANSFER_TO_WALLET, m)
    [] m.kind = "burn"   -> TokenCall(TOKEN_BURN, m)
    [] m.kind = "other"  -> <<Fld(32, 7), Fld(64, 1)>>
    [] OTHER -> << >>

\* A token request sends its coins to the token wallet.
Native(m) ==
  IF m.kind \in {"token", "mint", "burn"}
  THEN [wc |-> 0, to |-> "token wallet", amount |-> 500]
  ELSE [wc |-> m.wc, to |-> m.to, amount |-> m.amount]

V3Root(m) ==
  Cell(<<Fld(32, WALLET_ID), Fld(32, 0), Fld(32, 0),
         Fld(8, IF m.kind = "all" THEN ALL_BALANCE_FLAG ELSE NORMAL_FLAG)>>, <<1>>)

V3Gift(m) ==
  LET n     == Native(m)
      coins == ShortBytes(n.amount)
      body  == BodyData(m)
  IN  Cell(<<Fld(1, 0), Fld(1, 1), Fld(1, 1), Fld(1, 0), Fld(2, 0)>>
           \o AddrStd(n.wc, n.to)
           \o <<Fld(4, Len(coins))>>
           \o (IF coins = << >> THEN << >> ELSE <<Fld(8 * Len(coins), coins)>>)
           \o <<Fld(1, 0), Fld(4, 0), Fld(4, 0), Fld(64, 0), Fld(32, 0), Fld(1, 0),
                Fld(1, IF body = << >> THEN 0 ELSE 1)>>,
           IF body = << >> THEN << >> ELSE <<2>>)

CallRoot(m, id, more_data, refs) ==
  Cell(<<Fld(1, 1), Fld(256, "pubkey"), Fld(64, 0), Fld(32, 0), Fld(32, id)>>
       \o more_data, refs)

CallId(m) ==
  LET second == m.wallet \in {MULTISIG_2, MULTISIG_2_1}
  IN  CASE m.kind = "deploy" -> IF second THEN MULTISIG2_DEPLOY_TRANSACTION
                                ELSE MULTISIG_DEPLOY_TRANSACTION
        [] m.kind = "confirm" -> MULTISIG_CONFIRM_TRANSACTION
        [] m.kind = "send all" -> MULTISIG_SEND_TRANSACTION
        [] OTHER -> IF second THEN MULTISIG2_SUBMIT_TRANSACTION
                    ELSE IF m.wallet = EVER_WALLET THEN MULTISIG_SEND_TRANSACTION
                    ELSE MULTISIG_SUBMIT_TRANSACTION

CallArgs(m) ==
  LET n     == Native(m)
      flags == IF CallId(m) = MULTISIG_SEND_TRANSACTION
               THEN Fld(8, CASE m.kind = "all" -> ALL_BALANCE_FLAG
                             [] m.kind = "send all" -> ALL_BALANCE_AND_DELETE_FLAG
                             [] OTHER -> NORMAL_FLAG)
               ELSE Fld(1, IF m.kind = "all" THEN 1 ELSE 0)
  IN  Cell(AddrStd(n.wc, n.to) \o <<Fld(128, Bytes16(n.amount)), Fld(1, 1), flags>>, <<2>>)

\* The dictionary of the owners of a multisig wallet to deploy.
Owners(n) ==
  IF n = 1 THEN <<Cell(<<Fld(35, 1), Fld(256, "owner")>>, << >>)>>
  ELSE <<Cell(<<Fld(33, 2)>>, <<2, 3>>), Cell(<<Fld(32, 3), Fld(227, "owner")>>, << >>),
         Cell(<<Fld(32, 4), Fld(227, "owner")>>, << >>)>>

MessageCells(m) ==
  IF m.wallet = WALLET_V3
  THEN <<V3Root(m), V3Gift(m)>>
       \o IF BodyData(m) = << >> THEN << >> ELSE <<Cell(BodyData(m), << >>)>>
  ELSE IF m.kind = "deploy"
  THEN <<CallRoot(m, CallId(m), <<Fld(32, m.owners), Fld(1, 1), Fld(8, 1)>>, <<1>>)>>
       \o Owners(m.owners)
  ELSE IF m.kind = "confirm"
  THEN IF m.wallet \in MultisigWallets
       THEN <<CallRoot(m, CallId(m), <<Fld(64, m.to)>>, << >>)>>
       ELSE <<CallRoot(m, CallId(m), << >>, <<1>>), Cell(<<Fld(64, m.to)>>, << >>)>>
  ELSE <<CallRoot(m, CallId(m), << >>, <<1>>), CallArgs(m), Cell(BodyData(m), << >>)>>

Message(m) == <<Header(Len(MessageCells(m)))>> \o MessageCells(m)

-----------------------------------------------------------------------------
(***************************************************************************)
(* What the device should show.                                            *)
(***************************************************************************)
WantedFlow(m) ==
  CASE m.kind \in {"deploy", "confirm", "burn"} -> m.kind
    [] OTHER -> "transfer"

WantedAmount(m, header) ==
  IF m.kind = "all" THEN [flag |-> ALL_BALANCE_FLAG, text |-> << >>, ticker |-> << >>]
  ELSE IF m.kind = "send all"
  THEN [flag |-> ALL_BALANCE_AND_DELETE_FLAG, text |-> << >>, ticker |-> << >>]
  ELSE [flag |-> NORMAL_FLAG, text |-> DecimalText(m.amount, header.decimals),
        ticker |-> header.ticker]

-----------------------------------------------------------------------------
(***************************************************************************)
(* What an approval should sign: the representation hash of the message,   *)
(* by recursion over the tree.                                             *)
(***************************************************************************)
\* Ordinary cells whose references point forward and to a cell that is there.
ProperTree(cells) ==
  /\ Len(cells) \in 1 .. MAX_CONTRACT_CELLS_COUNT
  /\ \A i \in 1 .. Len(cells) :
        /\ cells[i].kind = "cell" /\ cells[i].type = "ordinary" /\ cells[i].whole
        /\ Len(cells[i].refs) \in 0 .. MAX_REFERENCES_COUNT
        /\ \A c \in 1 .. Len(cells[i].refs) : cells[i].refs[c] \in i .. Len(cells) - 1

TreeDepths(cells) ==
  LET depth[i \in 1 .. Len(cells)] ==
        LET below == {depth[cells[i].refs[c] + 1] : c \in 1 .. Len(cells[i].refs)}
        IN  IF below = {} THEN 0 ELSE Max(below) + 1
  IN  depth

TreeHashes(cells) ==
  LET hash[i \in 1 .. Len(cells)] ==
        LET kids == [c \in 1 .. Len(cells[i].refs) |-> cells[i].refs[c] + 1]
        IN  Sha256(cells[i].data, [c \in DOMAIN kids |-> TreeDepths(cells)[kids[c]]],
                   [c \in DOMAIN kids |-> hash[kids[c]]])
  IN  hash

TreeHash(cells) == TreeHashes(cells)[1]

WalletOf(h) == IF "wallet" \in h.flags THEN h.current ELSE h.origin

\* The wallets of the newer ABI sign the root with the address in front.
Prefix(h, own) ==
  <<Fld(3, 4), Fld(8, IF "wc" \in h.flags THEN h.wc ELSE 0),
    Fld(256, IF "address" \in h.flags THEN h.address ELSE own)>>

SignedCells(cells, h, own) ==
  IF WalletOf(h) \notin PrependedWallets THEN cells
  ELSE [cells EXCEPT ![1].data = Prefix(h, own) \o @]

WantedBytes(cells, h, own) ==
  (IF "chain" \in h.flags THEN <<h.chain>> ELSE << >>)
  \o <<TreeHash(SignedCells(cells, h, own))>>

-----------------------------------------------------------------------------
(***************************************************************************)
(* The address of a wallet: the hash of its initial state, written out.    *)
(***************************************************************************)
WantedAddress(account, wallet) ==
  LET leaf(label) == Sha256(label \o <<Fld(256, PublicKey(account))>>, << >>, << >>)
      fork == Sha256(LabelSame(0, 7, 60), <<0, 1>>,
                     <<leaf(LabelSame(0, 2, 3)),
                       Sha256(<<Fld(6, 55)>>, <<0>>,
                              <<Sha256(<<Fld(10, 832)>>, << >>, << >>)>>)>>)
      data(depth, dict) == Sha256(<<Fld(1, 1)>>, <<depth>>, <<dict>>)
  IN  CASE wallet = WALLET_V3 -> compute_wallet_v3_address(account)
        [] wallet = EVER_WALLET -> compute_ever_wallet_address(account)
        [] wallet \in {SAFE_MULTISIG_WALLET, SAFE_MULTISIG_WALLET_24H,
                       SETCODE_MULTISIG_WALLET} ->
             Sha256(StateInit, <<CodeDepth[wallet], 3>>,
                    <<CodeHash(wallet), data(2, fork)>>)
        [] OTHER ->
             Sha256(StateInit, <<CodeDepth[wallet], 1>>,
                    <<CodeHash(wallet), data(0, leaf(LabelSame(0, 7, 64)))>>)

(***************************************************************************)
(* AddressIsWallets: a GET_ADDRESS command is answered with the address of *)
(* the wallet it names, whatever ran before (api.md:112).                  *)
(***************************************************************************)
AddressAnswer ==
  Answered /\ apdu.ins = "GET_ADDRESS" =>
    reply'.data = WantedAddress(apdu.account, apdu.wallet)

AddressIsWallets == [][AddressAnswer]_vars

(***************************************************************************)
(* AddressFromCleanBoc: a GET_ADDRESS command that finds boc_context as    *)
(* reset_app_context leaves it answers with, or puts before the user, the  *)
(* address of the wallet it names (contract.c:297-341, cell.c:97-153,      *)
(* hashmap_label.c:26-82).                                                 *)
(***************************************************************************)
AddressFromCleanBoc ==
  [][apdu # None /\ apdu.ins = "GET_ADDRESS" /\ ui = "menu" /\ bc = ZeroBoc =>
       LET wanted == WantedAddress(apdu.account, apdu.wallet)
       IN  /\ Answered => reply'.data = wanted
           /\ ui' = "address" => dc'.addr_address = wanted]_vars

-----------------------------------------------------------------------------
(***************************************************************************)
(* The requests the buffer holds, under a header of their wallet.          *)
(***************************************************************************)
Held ==
  IF ui # "transaction" \/ app # "running" \/ sess.header = None THEN {}
  ELSE {m \in Sent : /\ Message(m) = sess.items
                     /\ m.wallet = WalletOf(sess.header)}

SignsHeldMessage ==
  \A m \in Held :
    SignedBytes(dc) = WantedBytes(MessageCells(m), sess.header,
                                  WantedAddress(sess.header.account, sess.header.origin))

(***************************************************************************)
(* PayloadIsTree: at the end of a session that no other command has        *)
(* disturbed, and whose parts add up to any proper tree of cells, what an  *)
(* approval will sign is the chain id of the header and the hash of that   *)
(* tree, with the address in front for the newer ABI.  A root cell of      *)
(* whole bytes gets no completion tag behind the address, and one of more  *)
(* than 756 bits has no room for it: both are left out (message.c:352-370, *)
(* 406-451; cell.c:97-153).                                                *)
(***************************************************************************)
SentCells(items) == SubSeq(items, 2, Len(items))

\* A root that brings a completion tag along and has room for the address.
TakesAddress(cell) == BitLen(cell) % 8 # 0 /\ BitLen(cell) + 267 < 1024

SentTree(items, h) ==
  /\ Head(items).kind = "boc" /\ Head(items).cells_count = Len(items) - 1
  /\ ProperTree(SentCells(items))
  /\ WalletOf(h) \in PrependedWallets => TakesAddress(SentCells(items)[1])

PayloadIsTree ==
  /\ app = "running" /\ ui = "transaction" /\ sess.header # None
  /\ sess.intact /\ ~ReviewedBefore /\ SentTree(sess.items, sess.header)
  => SignedBytes(dc) = WantedBytes(SentCells(sess.items), sess.header,
                                   OwnAddress(sess.header))

(***************************************************************************)
(* PayloadIsMessage: at the end of a session that no other command has     *)
(* disturbed, what an approval will sign is the chain id of the header and *)
(* the hash of the message the host sent in chunks, with the wallet's      *)
(* address in front for the newer ABI (message.c:352-370, 406-451;         *)
(* cell.c:97-153).                                                         *)
(***************************************************************************)
PayloadIsMessage == sess.intact => SignsHeldMessage

(***************************************************************************)
(* ExtendedBufferIsSigned: the same for every session: a chunk with        *)
(* P2_EXTEND "extends, rather than replaces, the current message buffer"   *)
(* (dispatcher.c:115-116).                                                 *)
(***************************************************************************)
ExtendedBufferIsSigned == SignsHeldMessage

(***************************************************************************)
(* ReviewShowsRequest: the review shows the amount, the recipient or the   *)
(* id that the host's request has, in the header's decimals and ticker     *)
(* (message.c:64-350, display_nbgl.c:89-150).  Where an amount is shown    *)
(* the bytes behind amount_str are zero: they end a text that fills it     *)
(* (see AmountText).  A deploy for several owners is left to               *)
(* TransferShowsAmount.                                                    *)
(***************************************************************************)
SignedByte(b) == ((b + 128) % 256) - 128

ShowsRequest(screen, m, h) ==
  /\ screen.flow = WantedFlow(m)
  /\ screen.flow \in {"transfer", "burn"} =>
       screen.amount_str = WantedAmount(m, h) /\ screen.transaction_id_str = Zero
  /\ screen.flow = "transfer" => screen.address_str = [wc |-> m.wc, address |-> m.to]
  /\ screen.flow = "deploy" => screen.address_str =
       [wc |-> IF "wc" \in h.flags THEN SignedByte(h.wc) ELSE 0,
        address |-> WantedAddress(h.account, h.origin)]
  /\ screen.flow = "confirm" => screen.transaction_id_str = <<"hex", m.to>>

ReviewShowsRequest ==
  \A m \in Held : m.owners = 1 => ShowsRequest(OnScreen, m, sess.header)

(***************************************************************************)
(* What message.c makes of each message alone, sent whole to a device that *)
(* was just started, and what get_address makes of each header alone.      *)
(* These are statements about functions of the constants only.  The first  *)
(* two are the premises under which PayloadIsMessage and                   *)
(* ReviewShowsRequest hold in every behaviour; the third holds always.     *)
(*                                                                         *)
(* MessagesAreWhole: a part of a message is refused.                       *)
(* MessagesAreRead: and a review of all of it shows the request.           *)
(* AddressesAreRight: the device computes the address of the wallet.       *)
(***************************************************************************)
HeadersRead ==
  {h \in {c.header : c \in {d \in Commands : d.ins = "SIGN_TRANSACTION" /\ is_first_chunk(d)}} :
     ReadHeader(h, TRUE).err = SUCCESS}

MessagesAreWhole ==
  \A h \in HeadersRead, m \in Sent : m.wallet = WalletOf(h) =>
    \A n \in 1 .. Len(Message(m)) - 1 : ~IsReviewed(h, SubSeq(Message(m), 1, n))

ReadAsMeant(m, h) ==
  \A left \in {Zero, Junk} :
    \A r \in {SessionReview(h, Message(m), left)} :
      ReviewError(r) = SUCCESS /\ m.owners = 1 => ShowsRequest(ShownBy(r), m, h)

MessagesAreRead ==
  /\ MessagesAreWhole
  /\ \A h \in HeadersRead, m \in Sent : m.wallet = WalletOf(h) => ReadAsMeant(m, h)

AddressesAreRight ==
  \A h \in HeadersRead : OwnAddress(h) = WantedAddress(h.account, h.origin)

(***************************************************************************)
(* RequestsAreReviewed: a well-formed request of any kind, sent whole to   *)
(* its wallet under a complete header, comes before the user: the only     *)
(* error that may answer it is that the SDK could not derive the key       *)
(* (message.c:453-621).                                                    *)
(***************************************************************************)
CompleteHeader(h) ==
  \A option \in h.flags :
    h.present >= CASE option = "wallet" -> 7 [] option = "wc" -> 8
                   [] option = "address" -> 9 [] option = "chain" -> 10

SentWhole(m) ==
  /\ apdu # None /\ ui = "menu"
  /\ apdu.ins = "SIGN_TRANSACTION" /\ apdu.p2 = 0
  /\ apdu.block.items = Message(m)
  /\ WalletOf(apdu.header) = m.wallet
  /\ CompleteHeader(apdu.header)

RequestsAreReviewed ==
  [][\A m \in Sent :
       SentWhole(m) /\ m.owners = 1 /\ apdu' = None /\ reply' # NoReply =>
         reply'.sw = "ERR_GET_PUBLIC_KEY_FAILED"]_vars

(***************************************************************************)
(* TransferShowsAmount: a review that shows an amount shows one that       *)
(* set_amount has written for this message (display_nbgl.c:116).           *)
(***************************************************************************)
TransferShowsAmount ==
  ui = "transaction" /\ flow \in {"transfer", "burn"} =>
    dc.tx_amount_str \notin {Zero, Junk}

(***************************************************************************)
(* RecipientWasRead: the review of a transfer shows an address that was    *)
(* read from the message: dst_address is the "Recipient address"           *)
(* (message.c:149).  deserialize_address leaves it uninitialised when the  *)
(* message has none.                                                       *)
(***************************************************************************)
RecipientWasRead ==
  ui = "transaction" /\ flow = "transfer" =>
    dc.tx_address_str # [wc |-> 0, address |-> Junk]

(***************************************************************************)
(* P2IsAsCommented: a chunk with P2_EXTEND and P2_MORE that follows no     *)
(* first chunk is refused, since P2_EXTEND "can't be in first chunk"       *)
(* (dispatcher.c:110), or handled as a request of its own, since           *)
(* "P2_EXTEND && P2_MORE = ordinary request without chunks"                *)
(* (dispatcher.c:113): its data is not merely kept for a later chunk.      *)
(***************************************************************************)
P2IsAsCommented ==
  [][Answered /\ apdu.ins = "SIGN_TRANSACTION" /\ apdu.p2 = 3 /\ sess.header = None =>
       reply'.kind # "status"]_vars
=============================================================================
