------------------------- MODULE EverscaleAppProofs -------------------------
(***************************************************************************)
(* What holds of the command loop for every set of commands, every buffer  *)
(* size and every length of a session: types, the contents of the message  *)
(* buffer, and the header fields a review depends on; that every positive  *)
(* answer is the one its command asked for; and that the application       *)
(* implements the abstract signing device.                                 *)
(***************************************************************************)
EXTENDS EverscaleApp, TLAPS

\* The fields of a session that lie beyond every other member of the union.
BufferFields == {"tx_data", "tx_data_offset"}
HeaderFields ==
  {"tx_account_number", "tx_origin_wallet_type", "tx_current_wallet_type",
   "tx_decimals", "tx_ticker", "tx_wc", "tx_address", "tx_prepend_address"}
PrivateFields == HeaderFields \cup BufferFields

-----------------------------------------------------------------------------
(***************************************************************************)
(* Writes to the union.                                                    *)
(***************************************************************************)
LEMMA FieldNames ==
  Fields = { "pk_public_key", "pk_public_key_str", "addr_address", "addr_address_str",
             "sign_to_sign", "sign_signature", "sign_account_number", "sign_to_sign_str",
             "tx_sign_with_chain_id", "tx_chain_id", "tx_to_sign", "tx_signature",
             "tx_address_str", "tx_amount_str", "tx_transaction_id_str",
             "tx_account_number", "tx_origin_wallet_type", "tx_current_wallet_type",
             "tx_decimals", "tx_address", "tx_prepend_address", "tx_wc", "tx_data",
             "tx_data_offset", "tx_ticker" }
  BY DEF Fields, Layout

\* No other field shares a byte with a private one.
LEMMA PrivateLayout ==
  \A f \in PrivateFields, g \in Fields : f # g => ~Overlap(f, g)
  <1>1. \A f \in HeaderFields, g \in Fields : f # g => ~Overlap(f, g)
    BY FieldNames DEF HeaderFields, Overlap, Layout
  <1>2. \A f \in BufferFields, g \in Fields : f # g => ~Overlap(f, g)
    BY FieldNames DEF BufferFields, Overlap, Layout
  <1> QED
    BY <1>1, <1>2 DEF PrivateFields

LEMMA PrivateAreFields == PrivateFields \subseteq Fields
  BY FieldNames DEF PrivateFields, HeaderFields, BufferFields

LEMMA WritePrivate ==
  ASSUME NEW d, NEW w, DOMAIN w \subseteq Fields, NEW f \in PrivateFields
  PROVE  Write(d, w)[f] = IF f \in DOMAIN w THEN w[f] ELSE d[f]
  <1>1. \A g \in DOMAIN w : f # g => ~Overlap(f, g)
    BY PrivateLayout
  <1>2. f \in Fields
    BY PrivateAreFields
  <1> QED
    BY <1>1, <1>2 DEF Write

LEMMA WriteDomain == \A d, w : DOMAIN Write(d, w) = Fields
  BY DEF Write

-----------------------------------------------------------------------------
(***************************************************************************)
(* One step of a handler: what it writes if there was no error, and that   *)
(* it writes nothing else to the private fields in any case.               *)
(***************************************************************************)
Stepped(st, next, w) ==
  /\ DOMAIN st.dc = Fields => DOMAIN next.dc = Fields
  /\ next.bc = st.bc
  /\ \A f \in PrivateFields \ DOMAIN w : next.dc[f] = st.dc[f]
  /\ next.err = SUCCESS =>
       st.err = SUCCESS /\ \A f \in PrivateFields \cap DOMAIN w : next.dc[f] = w[f]

LEMMA StepLemma ==
  ASSUME NEW st, NEW cond, NEW code, NEW w, DOMAIN w \subseteq Fields,
         code # SUCCESS \/ cond
  PROVE  Stepped(st, Step(st, cond, code, w), w)
  <1>1. CASE st.err # SUCCESS
    BY <1>1 DEF Step, Stepped
  <1>2. CASE st.err = SUCCESS /\ ~cond
    BY <1>2 DEF Step, Stepped
  <1>3. CASE st.err = SUCCESS /\ cond
    <2> DEFINE next == Step(st, cond, code, w)
    <2>1. /\ next.dc = Write(st.dc, w)
          /\ next.bc = st.bc
          /\ next.err = SUCCESS
      BY <1>3 DEF Step
    <2> HIDE DEF next
    <2>2. DOMAIN next.dc = Fields
      BY <2>1, WriteDomain
    <2>3. ASSUME NEW f \in PrivateFields \ DOMAIN w
          PROVE  next.dc[f] = st.dc[f]
      BY <2>1, <2>3, WritePrivate
    <2>4. ASSUME NEW f \in PrivateFields \cap DOMAIN w
          PROVE  next.dc[f] = w[f]
      BY <2>1, <2>4, WritePrivate
    <2>5. Stepped(st, next, w)
      BY <1>3, <2>1, <2>2, <2>3, <2>4 DEF Stepped
    <2> QED
      BY <2>5 DEF next
  <1> QED
    BY <1>1, <1>2, <1>3

LEMMA ItemLemma ==
  ASSUME NEW st, NEW h, NEW n, NEW w, DOMAIN w \subseteq Fields
  PROVE  Stepped(st, Item(st, h, n, w), w)
  BY StepLemma DEF Item, SUCCESS

-----------------------------------------------------------------------------
(***************************************************************************)
(* The header of a first chunk.                                            *)
(***************************************************************************)
NothingBuffered(st) ==
  /\ DOMAIN st.dc = Fields
  /\ st.dc.tx_data = << >>
  /\ st.dc.tx_data_offset = 0

WalletRead(st, h) ==
  /\ st.dc.tx_account_number = h.account
  /\ st.dc.tx_origin_wallet_type = h.origin
  /\ st.dc.tx_decimals = h.decimals
  /\ st.dc.tx_ticker = h.ticker
  /\ st.dc.tx_current_wallet_type =
       IF "wallet" \in h.flags THEN h.current ELSE h.origin

LEMMA ReadWalletLemma ==
  ASSUME NEW h, NEW st, st = ReadWallet(h)
  PROVE  NothingBuffered(st) /\ st.bc = ZeroBoc /\ (st.err = SUCCESS => WalletRead(st, h))
  <1> DEFINE start  == [dc |-> ZeroContext, bc |-> ZeroBoc, err |-> SUCCESS]
             number == Item(start, h, 1, [tx_account_number |-> h.account])
             origin == Item(number, h, 2, [tx_origin_wallet_type |-> h.origin])
             digits == Item(origin, h, 3, [tx_decimals |-> h.decimals])
             count  == Item(digits, h, 4, Nothing)
             length == Step(count, Len(h.ticker) \in 1 .. MAX_TICKER_LEN,
                            "ERR_TICKER_LENGTH", Nothing)
             ticker == Item(length, h, 5, [tx_ticker |-> h.ticker])
             meta   == Item(ticker, h, 6, Nothing)
             given  == "wallet" \in h.flags
             wallet == [tx_current_wallet_type |-> IF given THEN h.current ELSE h.origin]
  <1>1. NothingBuffered(start) /\ start.bc = ZeroBoc
    BY FieldNames DEF ZeroContext, NothingBuffered
  <1>2. Stepped(start, number, [tx_account_number |-> h.account])
    BY ItemLemma, FieldNames
  <1>3. Stepped(number, origin, [tx_origin_wallet_type |-> h.origin])
    BY ItemLemma, FieldNames
  <1>4. Stepped(origin, digits, [tx_decimals |-> h.decimals])
    BY ItemLemma, FieldNames
  <1>5. Stepped(digits, count, Nothing)
    BY ItemLemma DEF Nothing
  <1>6. Stepped(count, length, Nothing)
    BY StepLemma DEF Nothing, SUCCESS
  <1>7. Stepped(length, ticker, [tx_ticker |-> h.ticker])
    BY ItemLemma, FieldNames
  <1>8. Stepped(ticker, meta, Nothing)
    BY ItemLemma DEF Nothing
  <1>9. Stepped(meta, st, wallet)
    <2>1. st = Item(meta, h, IF given THEN 7 ELSE 6, wallet)
      BY DEF ReadWallet
    <2> QED
      BY <2>1, ItemLemma, FieldNames
  <1> HIDE DEF start, number, origin, digits, count, length, ticker, meta
  <1>10. NothingBuffered(st)
    BY <1>1, <1>2, <1>3, <1>4, <1>5, <1>6, <1>7, <1>8, <1>9
       DEF Stepped, PrivateFields, BufferFields, Nothing, NothingBuffered
  <1>11. st.bc = ZeroBoc
    BY <1>1, <1>2, <1>3, <1>4, <1>5, <1>6, <1>7, <1>8, <1>9 DEF Stepped
  <1>12. ASSUME st.err = SUCCESS
         PROVE  WalletRead(st, h)
    BY <1>12, <1>2, <1>3, <1>4, <1>5, <1>6, <1>7, <1>8, <1>9
       DEF Stepped, PrivateFields, HeaderFields, Nothing, WalletRead
  <1> QED
    BY <1>10, <1>11, <1>12

\* get_address answers only if the key could be derived.
LEMMA AddressNeedsKey ==
  ASSUME NEW b, NEW account, NEW type, NEW derived \in BOOLEAN,
         get_address(b, account, type, derived).err = SUCCESS
  PROVE  derived = TRUE
  <1>1. SUFFICES ASSUME derived = FALSE PROVE FALSE
    OBVIOUS
  <1>2. CASE type \in {WALLET_V3, EVER_WALLET}
    BY <1>1, <1>2 DEF get_address, SUCCESS
  <1>3. CASE type \notin {WALLET_V3, EVER_WALLET}
               /\ type \in SAFE_MULTISIG_WALLET .. MULTISIG_2_1
    <2> DEFINE tree == deserialize_cells_tree(b, WalletBoc(type))
               key  == find_public_key_cell(tree.bc.cells)
    <2>1. get_address(b, account, type, derived) = with_tree(tree, account, type, derived)
      BY <1>3 DEF get_address, compute_multisig_address
    <2> HIDE DEF tree
    <2>2. tree.err = SUCCESS
      BY <2>1 DEF with_tree, NoAddress
    <2>3. get_address(b, account, type, derived)
            = hash_with_key(tree.bc, key, account, type, derived)
      BY <2>1, <2>2 DEF with_tree
    <2> HIDE DEF key
    <2> QED
      BY <2>3, <1>1 DEF hash_with_key, NoAddress, SUCCESS
  <1>4. CASE type \notin {WALLET_V3, EVER_WALLET}
               /\ type \notin SAFE_MULTISIG_WALLET .. MULTISIG_2_1
    BY <1>4 DEF get_address, NoAddress, SUCCESS
  <1> QED
    BY <1>2, <1>3, <1>4

\* A public key left in pk_context does not reach the private fields.
LEMMA KeyLeftLemma ==
  ASSUME NEW d, DOMAIN d = Fields, NEW found, NEW account
  PROVE  /\ DOMAIN KeyLeft(d, found, account) = Fields
         /\ \A f \in PrivateFields : KeyLeft(d, found, account)[f] = d[f]
  <1> DEFINE w == [pk_public_key |-> PublicKey(account)]
  <1>1. DOMAIN w \subseteq Fields /\ DOMAIN w \cap PrivateFields = {}
    BY FieldNames DEF PrivateFields, HeaderFields, BufferFields
  <1> HIDE DEF w
  <1>2. DOMAIN Write(d, w) = Fields /\ \A f \in PrivateFields : Write(d, w)[f] = d[f]
    BY <1>1, WritePrivate, WriteDomain
  <1> QED
    BY <1>2 DEF KeyLeft, w

LEMMA ReadAddressLemma ==
  ASSUME NEW h, NEW derived \in BOOLEAN, NEW st,
         st = ReadAddress(ReadWallet(h), h, derived)
  PROVE  /\ NothingBuffered(st)
         /\ st.err = SUCCESS => WalletRead(st, h) /\ st.dc.tx_address = OwnAddress(h)
  <1> DEFINE before == ReadWallet(h)
             found  == get_address(ZeroBoc, h.account, h.origin, derived)
             left   == KeyLeft(before.dc, found, h.account)
             w      == [tx_address |-> found.address]
  <1>1. NothingBuffered(before) /\ before.bc = ZeroBoc
          /\ (before.err = SUCCESS => WalletRead(before, h))
    BY ReadWalletLemma
  <1>2. st = IF before.err # SUCCESS THEN before ELSE StoreAddress(found, left)
    BY <1>1 DEF ReadAddress, OwnAddressOf
  <1>3. found.err = SUCCESS => found.address = OwnAddress(h)
    BY AddressNeedsKey DEF OwnAddress
  <1>4. DOMAIN w \subseteq Fields
    BY FieldNames
  <1> HIDE DEF before, found
  <1>5. DOMAIN left = Fields /\ \A f \in PrivateFields : left[f] = before.dc[f]
    BY <1>1, KeyLeftLemma DEF NothingBuffered
  <1> HIDE DEF left
  <1>6. DOMAIN Write(left, w) = Fields
          /\ \A f \in PrivateFields : Write(left, w)[f]
                                      = IF f \in DOMAIN w THEN w[f] ELSE left[f]
    BY <1>4, WritePrivate, WriteDomain
  <1>7. CASE before.err # SUCCESS
    BY <1>1, <1>2, <1>7
  <1>8. CASE before.err = SUCCESS /\ found.err # SUCCESS
    <2>1. st.dc = left /\ st.err # SUCCESS
      BY <1>2, <1>8 DEF StoreAddress
    <2> QED
      BY <2>1, <1>1, <1>5 DEF NothingBuffered, PrivateFields, BufferFields
  <1>9. CASE before.err = SUCCESS /\ found.err = SUCCESS
    <2>1. st.dc = Write(left, w)
      BY <1>2, <1>9 DEF StoreAddress
    <2> QED
      BY <2>1, <1>1, <1>3, <1>5, <1>6, <1>9
         DEF NothingBuffered, WalletRead, PrivateFields, BufferFields, HeaderFields
  <1> QED
    BY <1>7, <1>8, <1>9

(***************************************************************************)
(* A first chunk's header, read without an error, leaves the fields that   *)
(* HeaderSurvives asks for; and it buffers nothing in any case.            *)
(***************************************************************************)
LEMMA ReadHeaderLemma ==
  ASSUME NEW h, h # None, NEW derived \in BOOLEAN, NEW st, st = ReadHeader(h, derived)
  PROVE  /\ NothingBuffered(st)
         /\ st.err = SUCCESS =>
              \A f \in HeaderFields : st.dc[f] = Kept(h, OwnAddress(h))[f]
  <1> DEFINE own     == ReadAddress(ReadWallet(h), h, derived)
             default == Step(own, TRUE, SUCCESS, [tx_wc |-> DEFAULT_WORKCHAIN_ID])
             wc      == Option(default, "wc" \in h.flags, h, 8, [tx_wc |-> h.wc])
             prepend == ReadPrepend(wc, h)
             target  == [tx_prepend_address |-> IF "address" \in h.flags THEN h.address
                                                ELSE wc.dc.tx_address]
             flag    == Step(prepend, TRUE, SUCCESS,
                             [tx_sign_with_chain_id |-> "chain" \in h.flags])
             chain   == [tx_chain_id |-> h.chain]
  <1>1. NothingBuffered(own)
          /\ (own.err = SUCCESS => WalletRead(own, h) /\ own.dc.tx_address = OwnAddress(h))
    BY ReadAddressLemma
  <1>2. Stepped(own, default, [tx_wc |-> DEFAULT_WORKCHAIN_ID])
    BY StepLemma, FieldNames
  <1>3. IF "wc" \in h.flags THEN Stepped(default, wc, [tx_wc |-> h.wc]) ELSE wc = default
    <2>1. wc = IF "wc" \in h.flags THEN Item(default, h, 8, [tx_wc |-> h.wc]) ELSE default
      BY DEF Option
    <2> QED
      BY <2>1, ItemLemma, FieldNames
  <1>4. Stepped(wc, prepend, target)
    <2>1. CASE "address" \in h.flags
      <3>1. prepend = Item(wc, h, 9, target)
        BY <2>1 DEF ReadPrepend
      <3> QED
        BY <3>1, ItemLemma, FieldNames
    <2>2. CASE "address" \notin h.flags
      <3>1. prepend = Step(wc, TRUE, SUCCESS, target)
        BY <2>2 DEF ReadPrepend
      <3> QED
        BY <3>1, StepLemma, FieldNames
    <2> QED
      BY <2>1, <2>2
  <1>5. Stepped(prepend, flag, [tx_sign_with_chain_id |-> "chain" \in h.flags])
    BY StepLemma, FieldNames
  <1>6. IF "chain" \in h.flags THEN Stepped(flag, st, chain) ELSE st = flag
    <2>1. st = IF "chain" \in h.flags THEN Item(flag, h, 10, chain) ELSE flag
      BY DEF ReadHeader, ReadOptions, Option
    <2> QED
      BY <2>1, ItemLemma, FieldNames
  <1> HIDE DEF own, default, wc, prepend, flag
  <1>7. NothingBuffered(default) /\ NothingBuffered(wc)
    BY <1>1, <1>2, <1>3 DEF Stepped, NothingBuffered, PrivateFields, BufferFields
  <1>8. NothingBuffered(prepend) /\ NothingBuffered(flag) /\ NothingBuffered(st)
    BY <1>4, <1>5, <1>6, <1>7 DEF Stepped, NothingBuffered, PrivateFields, BufferFields
  <1>9. ASSUME st.err = SUCCESS
        PROVE  \A f \in HeaderFields : st.dc[f] = Kept(h, OwnAddress(h))[f]
    <2>1. /\ flag.err = SUCCESS /\ prepend.err = SUCCESS /\ wc.err = SUCCESS
          /\ default.err = SUCCESS /\ own.err = SUCCESS
      BY <1>9, <1>2, <1>3, <1>4, <1>5, <1>6 DEF Stepped
    <2>2. \A f \in HeaderFields : st.dc[f] = prepend.dc[f]
      BY <1>5, <1>6 DEF Stepped, HeaderFields, PrivateFields
    <2>3. /\ prepend.dc.tx_prepend_address = target.tx_prepend_address
          /\ \A f \in HeaderFields \ {"tx_prepend_address"} : prepend.dc[f] = wc.dc[f]
      BY <1>4, <2>1 DEF Stepped, HeaderFields, PrivateFields
    <2>4. /\ wc.dc.tx_wc = IF "wc" \in h.flags THEN h.wc ELSE DEFAULT_WORKCHAIN_ID
          /\ \A f \in HeaderFields \ {"tx_wc"} : wc.dc[f] = own.dc[f]
      BY <1>2, <1>3, <2>1 DEF Stepped, HeaderFields, PrivateFields
    <2>5. WalletRead(own, h) /\ own.dc.tx_address = OwnAddress(h)
      BY <1>1, <2>1
    <2>6. target.tx_prepend_address = IF "address" \in h.flags THEN h.address
                                      ELSE OwnAddress(h)
      BY <2>4, <2>5 DEF HeaderFields
    <2> HIDE DEF target
    <2> QED
      BY <2>2, <2>3, <2>4, <2>5, <2>6 DEF WalletRead, Kept, HeaderFields
  <1> QED
    BY <1>8, <1>9

-----------------------------------------------------------------------------
(***************************************************************************)
(* The inductive invariant, and the two ways in which an action keeps it:  *)
(* by leaving the private fields and the session alone, or by a reset.     *)
(***************************************************************************)
SessionKept ==
  app = "running" =>
    \A f \in HeaderFields :
      dc[f] = Kept(sess.header, IF sess.header = None THEN Zero
                                ELSE OwnAddress(sess.header))[f]

AppInv == TypeOK /\ BufferIsSession /\ SessionKept

LEMMA ZeroHeader == \A f \in HeaderFields : ZeroContext[f] = Kept(None, Zero)[f]
  <1>1. /\ ZeroContext.tx_account_number = 0
        /\ ZeroContext.tx_origin_wallet_type = 0
        /\ ZeroContext.tx_current_wallet_type = 0
        /\ ZeroContext.tx_decimals = 0
        /\ ZeroContext.tx_wc = 0
    BY FieldNames DEF ZeroContext
  <1>2. ZeroContext.tx_ticker = << >>
    BY FieldNames DEF ZeroContext
  <1>3. ZeroContext.tx_address = Zero /\ ZeroContext.tx_prepend_address = Zero
    BY FieldNames DEF ZeroContext
  <1> QED
    BY <1>1, <1>2, <1>3 DEF Kept, HeaderFields

LEMMA SessionKeptIsHeaderSurvives == SessionKept => HeaderSurvives
  <1>1. \A h, a : DOMAIN Kept(h, a) = HeaderFields
    BY DEF Kept, HeaderFields
  <1> QED
    BY <1>1 DEF SessionKept, HeaderSurvives

LEMMA InitInv == Init => AppInv
  <1> SUFFICES ASSUME Init PROVE AppInv
    OBVIOUS
  <1> USE DEF Init
  <1>1. TypeOK
    BY AppAssumption, FieldNames
       DEF TypeOK, ZeroContext, NoSession
  <1>2. BufferIsSession
    BY AppAssumption, FieldNames DEF BufferIsSession, ZeroContext, NoSession
  <1>3. SessionKept
    BY ZeroHeader DEF SessionKept, NoSession
  <1> QED
    BY <1>1, <1>2, <1>3 DEF AppInv

\* The private fields and the session are as they were.
Undisturbed ==
  /\ DOMAIN dc' = Fields
  /\ \A f \in PrivateFields : dc'[f] = dc[f]
  /\ sess' = sess \/ sess' = Disturbed(sess)

ControlTyped ==
  /\ app' \in {"running", "stopped"}
  /\ apdu' \in Commands \cup {None}
  /\ ui' \in Reviews \cup {"menu"}
  /\ flow' \in Flows \cup {"error"}

LEMMA UndisturbedKeeps ==
  ASSUME AppInv, Undisturbed, ControlTyped, app = "running" \/ app' = "stopped"
  PROVE  AppInv'
  <1> USE DEF AppInv, Undisturbed
  <1>1. /\ dc'.tx_data = dc.tx_data /\ dc'.tx_data_offset = dc.tx_data_offset
        /\ \A f \in HeaderFields : dc'[f] = dc[f]
    BY DEF PrivateFields, BufferFields
  <1>2. /\ sess'.header = sess.header /\ sess'.items = sess.items
        /\ sess'.len = sess.len /\ sess'.intact \in BOOLEAN
    <2>1. CASE sess' = sess
      BY <2>1 DEF TypeOK
    <2>2. CASE sess' = Disturbed(sess)
      BY <2>2 DEF Disturbed
    <2> QED
      BY <2>1, <2>2
  <1>3. TypeOK'
    BY <1>1, <1>2 DEF TypeOK, ControlTyped
  <1>4. BufferIsSession'
    BY <1>1, <1>2 DEF BufferIsSession, ControlTyped
  <1>5. SessionKept'
    BY <1>1, <1>2 DEF SessionKept, ControlTyped
  <1> QED
    BY <1>3, <1>4, <1>5

LEMMA ResetKeeps ==
  ASSUME reset_app_context, ControlTyped
  PROVE  AppInv'
  <1> USE DEF reset_app_context
  <1>1. TypeOK'
    BY AppAssumption, FieldNames DEF TypeOK, ZeroContext, NoSession, ControlTyped
  <1>2. BufferIsSession'
    BY AppAssumption, FieldNames DEF BufferIsSession, ZeroContext, NoSession
  <1>3. SessionKept'
    BY ZeroHeader DEF SessionKept, NoSession
  <1> QED
    BY <1>1, <1>2, <1>3 DEF AppInv

-----------------------------------------------------------------------------
(***************************************************************************)
(* A chunk.  Fits(st): what the context holds of the session, error or     *)
(* not; Holds(st, s): that it holds exactly the session s.                 *)
(***************************************************************************)
Fits(st) ==
  /\ DOMAIN st.dc = Fields
  /\ st.dc.tx_data_offset \in Nat
  /\ st.dc.tx_data_offset < MAX_DATA_LEN

Holds(st, s) ==
  /\ st.dc.tx_data = s.items
  /\ st.dc.tx_data_offset = s.len
  /\ \A f \in HeaderFields :
       st.dc[f] = Kept(s.header, IF s.header = None THEN Zero
                                 ELSE OwnAddress(s.header))[f]

\* The session before the block of the chunk is appended.
Opened(s, c) ==
  [header |-> IF is_first_chunk(c) THEN c.header ELSE s.header,
   items  |-> IF is_first_chunk(c) THEN << >> ELSE s.items,
   len    |-> IF is_first_chunk(c) THEN 0 ELSE s.len]

LEMMA AppendLemma ==
  ASSUME NEW before, Fits(before), NEW s, before.err = SUCCESS => Holds(before, s),
         NEW block, block.len \in Nat, NEW st, st = AppendBlock(before, block)
  PROVE  /\ Fits(st)
         /\ st.err = SUCCESS =>
              Holds(st, [header |-> s.header,
                         items |-> IF block.len = 0 THEN s.items
                                   ELSE s.items \o block.items,
                         len |-> s.len + block.len])
  <1> DEFINE w == [tx_data |-> before.dc.tx_data \o block.items,
                   tx_data_offset |-> before.dc.tx_data_offset + block.len]
             cond == before.dc.tx_data_offset + block.len < MAX_DATA_LEN
  <1>1. CASE block.len = 0
    <2>1. st = before
      BY <1>1 DEF AppendBlock
    <2>2. before.err = SUCCESS => s.len + block.len = s.len
      BY <1>1 DEF Holds, Fits
    <2> QED
      BY <1>1, <2>1, <2>2 DEF Holds
  <1>2. CASE block.len # 0
    <2>1. st = Step(before, cond, "ERR_INVALID_DATA", w)
      BY <1>2 DEF AppendBlock
    <2>2. DOMAIN w \subseteq Fields
      BY FieldNames
    <2>3. Stepped(before, st, w)
      BY <2>1, <2>2, StepLemma DEF SUCCESS
    <2>4. CASE st.err # SUCCESS
      <3>1. st.dc = before.dc
        BY <2>1, <2>4 DEF Step
      <3> QED
        BY <3>1, <2>4 DEF Fits
    <2>5. CASE st.err = SUCCESS
      <3>1. before.err = SUCCESS /\ cond
        BY <2>1, <2>5 DEF Step, SUCCESS
      <3>2. /\ st.dc.tx_data = before.dc.tx_data \o block.items
            /\ st.dc.tx_data_offset = before.dc.tx_data_offset + block.len
            /\ \A f \in HeaderFields : st.dc[f] = before.dc[f]
        BY <2>3, <2>5 DEF Stepped, PrivateFields, BufferFields, HeaderFields
      <3>3. Fits(st)
        BY <3>1, <3>2, <2>3 DEF Fits, Stepped
      <3> QED
        BY <1>2, <3>1, <3>2, <3>3 DEF Holds
    <2> QED
      BY <2>4, <2>5
  <1> QED
    BY <1>1, <1>2

LEMMA ChunkLemma ==
  ASSUME AppInv, app = "running", apdu.block.len \in Nat,
         is_first_chunk(apdu) => apdu.header # None,
         NEW derived \in BOOLEAN, NEW st, st = Chunk(apdu, derived)
  PROVE  /\ Fits(st)
         /\ SessionWith(sess, apdu).len \in Nat
         /\ SessionWith(sess, apdu).intact \in BOOLEAN
         /\ st.err = SUCCESS => Holds(st, SessionWith(sess, apdu))
  <1> DEFINE before == IF is_first_chunk(apdu) THEN ReadHeader(apdu.header, derived)
                       ELSE [dc |-> dc, bc |-> bc, err |-> SUCCESS]
             opened == Opened(sess, apdu)
             after  == SessionWith(sess, apdu)
  <1>1. st = AppendBlock(before, apdu.block)
    BY DEF Chunk
  <1>2. Fits(before) /\ (before.err = SUCCESS => Holds(before, opened))
    <2>1. CASE is_first_chunk(apdu)
      <3>1. before = ReadHeader(apdu.header, derived)
        BY <2>1
      <3>2. NothingBuffered(before) /\ (before.err = SUCCESS =>
              \A f \in HeaderFields :
                before.dc[f] = Kept(apdu.header, OwnAddress(apdu.header))[f])
        BY <2>1, <3>1, ReadHeaderLemma
      <3>3. /\ opened.header = apdu.header /\ opened.items = << >> /\ opened.len = 0
            /\ apdu.header # None
        BY <2>1 DEF Opened
      <3> HIDE DEF before, opened
      <3> QED
        BY <3>2, <3>3, AppAssumption DEF Fits, Holds, NothingBuffered
    <2>2. CASE ~is_first_chunk(apdu)
      <3>1. before.dc = dc
        BY <2>2
      <3>2. opened.header = sess.header /\ opened.items = sess.items
              /\ opened.len = sess.len
        BY <2>2 DEF Opened
      <3>3. Fits(before)
        BY <3>1 DEF AppInv, TypeOK, BufferIsSession, Fits
      <3>4. Holds(before, opened)
        BY <3>1, <3>2 DEF AppInv, BufferIsSession, SessionKept, Holds
      <3> QED
        BY <3>3, <3>4
    <2> QED
      BY <2>1, <2>2
  <1>3. /\ after.header = opened.header
        /\ after.items = IF apdu.block.len = 0 THEN opened.items
                         ELSE opened.items \o apdu.block.items
        /\ after.len = opened.len + apdu.block.len
    BY DEF SessionWith, Opened, AppInv, TypeOK
  <1>4. after.len \in Nat
    BY DEF SessionWith, AppInv, TypeOK
  <1>5. after.intact \in BOOLEAN
    BY DEF SessionWith, AppInv, TypeOK
  <1> HIDE DEF before, opened, after
  <1>6. Fits(st) /\ (st.err = SUCCESS =>
          Holds(st, [header |-> opened.header,
                     items |-> IF apdu.block.len = 0 THEN opened.items
                               ELSE opened.items \o apdu.block.items,
                     len |-> opened.len + apdu.block.len]))
    BY <1>1, <1>2, AppendLemma
  <1>7. st.err = SUCCESS => Holds(st, after)
    BY <1>3, <1>6 DEF Holds
  <1> QED
    BY <1>4, <1>5, <1>6, <1>7 DEF after

-----------------------------------------------------------------------------
(***************************************************************************)
(* The actions.                                                            *)
(***************************************************************************)
LEMMA OtherWrite ==
  ASSUME NEW d, NEW w, DOMAIN w \subseteq Fields, DOMAIN w \cap PrivateFields = {}
  PROVE  /\ DOMAIN Write(d, w) = Fields
         /\ \A f \in PrivateFields : Write(d, w)[f] = d[f]
  BY WritePrivate, WriteDomain

\* An action that leaves the contexts alone.
LEMMA UnchangedKeeps ==
  ASSUME AppInv, dc' = dc, sess' = sess \/ sess' = Disturbed(sess), ControlTyped,
         app = "running" \/ app' = "stopped"
  PROVE  AppInv'
  BY UndisturbedKeeps DEF Undisturbed, AppInv, TypeOK

LEMMA ReceiveInv ==
  ASSUME AppInv, NEW c \in Commands, Receive(c)
  PROVE  AppInv'
  BY UnchangedKeeps DEF Receive, ControlTyped, AppInv, TypeOK

LEMMA RefuseInv == ASSUME AppInv, Refuse PROVE AppInv'
  BY UnchangedKeeps DEF Refuse, Fresh, io_send_sw, Reply, ControlTyped, AppInv, TypeOK

LEMMA ConfigurationInv == ASSUME AppInv, handleGetAppConfiguration PROVE AppInv'
  BY UnchangedKeeps
     DEF handleGetAppConfiguration, Dispatched, Fresh, Reply, ControlTyped, AppInv, TypeOK

LEMMA StopInv == ASSUME AppInv, Stop PROVE AppInv'
  BY UnchangedKeeps DEF Stop, ControlTyped, AppInv, TypeOK

LEMMA StartInv == ASSUME AppInv, app_main PROVE AppInv'
  BY ResetKeeps DEF app_main, ControlTyped

LEMMA PublicKeyInv ==
  ASSUME AppInv, NEW derived \in BOOLEAN, handleGetPublicKey(derived)
  PROVE  AppInv'
  <1> DEFINE key == PublicKey(apdu.account)
             w   == [pk_public_key |-> key, pk_public_key_str |-> <<"hex", key>>]
  <1>1. app = "running" /\ app' = app /\ flow' = flow
    BY DEF handleGetPublicKey, Dispatched, Fresh
  <1>2. CASE io_send_sw("ERR_GET_PUBLIC_KEY_FAILED") /\ UNCHANGED <<ui, dc, bc, sess>>
    BY <1>1, <1>2, UnchangedKeeps DEF io_send_sw, Reply, ControlTyped, AppInv, TypeOK
  <1>3. CASE helper_send_response("key", key) /\ UNCHANGED ui
    BY <1>1, <1>3, ResetKeeps
       DEF helper_send_response, Reply, ControlTyped, AppInv, TypeOK
  <1>4. CASE /\ dc' = Write(dc, w) /\ sess' = Disturbed(sess)
             /\ ui' = "pubkey" /\ UNCHANGED <<apdu, reply, bc>>
    <2>1. DOMAIN w \subseteq Fields /\ DOMAIN w \cap PrivateFields = {}
      BY FieldNames DEF PrivateFields, HeaderFields, BufferFields
    <2> HIDE DEF w
    <2>2. Undisturbed
      BY <1>4, <2>1, OtherWrite DEF Undisturbed
    <2>3. ControlTyped
      BY <1>1, <1>4 DEF ControlTyped, AppInv, TypeOK, Reviews
    <2> QED
      BY <1>1, <2>2, <2>3, UndisturbedKeeps
  <1> QED
    BY <1>2, <1>3, <1>4 DEF handleGetPublicKey

LEMMA AddressInv ==
  ASSUME AppInv, NEW derived \in BOOLEAN, handleGetAddress(derived)
  PROVE  AppInv'
  <1>1. app = "running"
    BY DEF handleGetAddress, Dispatched, Fresh
  <1>2. PICK found : AddressFound(found, KeyLeft(dc, found, apdu.account))
    BY DEF handleGetAddress
  <1> DEFINE left == KeyLeft(dc, found, apdu.account)
             w    == [addr_address |-> found.address,
                      addr_address_str |-> <<"hex", found.address>>]
  <1>3. DOMAIN left = Fields /\ \A f \in PrivateFields : left[f] = dc[f]
    BY KeyLeftLemma DEF AppInv, TypeOK
  <1>4. DOMAIN w \subseteq Fields /\ DOMAIN w \cap PrivateFields = {}
    BY FieldNames DEF PrivateFields, HeaderFields, BufferFields
  <1> HIDE DEF left, w
  <1>5. CASE Throw(found.err, left, found.bc)
    <2>1. Undisturbed
      BY <1>3, <1>5 DEF Throw, Undisturbed
    <2>2. ControlTyped /\ app' = "stopped"
      BY <1>5 DEF Throw, io_send_sw, Reply, ControlTyped, AppInv, TypeOK
    <2> QED
      BY <2>1, <2>2, UndisturbedKeeps
  <1>6. CASE helper_send_response("address", found.address) /\ UNCHANGED <<app, ui, flow>>
    BY <1>6, ResetKeeps DEF helper_send_response, Reply, ControlTyped, AppInv, TypeOK
  <1>7. CASE /\ dc' = Write(left, w) /\ sess' = Disturbed(sess) /\ ui' = "address"
             /\ UNCHANGED <<app, apdu, reply, flow>>
    <2>1. Undisturbed
      BY <1>3, <1>4, <1>7, OtherWrite DEF Undisturbed
    <2>2. ControlTyped
      BY <1>7 DEF ControlTyped, AppInv, TypeOK, Reviews
    <2> QED
      BY <1>1, <2>1, <2>2, UndisturbedKeeps
  <1> QED
    BY <1>2, <1>5, <1>6, <1>7 DEF AddressFound, left, w

LEMMA SignInv ==
  ASSUME AppInv, handleSign
  PROVE  AppInv'
  <1> DEFINE v       == [sign_account_number |-> apdu.account]
             account == Write(dc, v)
             bytes   == <<SIGN_MAGIC, apdu.payload>>
             w       == [sign_to_sign |-> bytes, sign_to_sign_str |-> <<"hex", bytes>>]
  <1>1. app = "running"
    BY DEF handleSign, Dispatched, Fresh
  <1>2. /\ DOMAIN v \subseteq Fields /\ DOMAIN v \cap PrivateFields = {}
        /\ DOMAIN w \subseteq Fields /\ DOMAIN w \cap PrivateFields = {}
    BY FieldNames DEF PrivateFields, HeaderFields, BufferFields
  <1>3. \/ Throw("ERR_INVALID_REQUEST", dc, bc)
        \/ Throw("ERR_INVALID_REQUEST", account, bc)
        \/ /\ dc' = Write(account, w) /\ sess' = Disturbed(sess) /\ ui' = "message"
           /\ UNCHANGED <<app, apdu, reply, flow>>
    BY DEF handleSign
  <1> HIDE DEF v, w
  <1>4. DOMAIN account = Fields /\ \A f \in PrivateFields : account[f] = dc[f]
    BY <1>2, OtherWrite
  <1> HIDE DEF account
  <1>5. CASE Throw("ERR_INVALID_REQUEST", dc, bc)
    BY <1>5, UnchangedKeeps DEF Throw, io_send_sw, Reply, ControlTyped, AppInv, TypeOK
  <1>6. CASE Throw("ERR_INVALID_REQUEST", account, bc)
    <2>1. Undisturbed
      BY <1>4, <1>6 DEF Throw, Undisturbed
    <2>2. ControlTyped /\ app' = "stopped"
      BY <1>6 DEF Throw, io_send_sw, Reply, ControlTyped, AppInv, TypeOK
    <2> QED
      BY <2>1, <2>2, UndisturbedKeeps
  <1>7. CASE /\ dc' = Write(account, w) /\ sess' = Disturbed(sess) /\ ui' = "message"
             /\ UNCHANGED <<app, apdu, reply, flow>>
    <2>1. Undisturbed
      BY <1>2, <1>4, <1>7, OtherWrite DEF Undisturbed
    <2>2. ControlTyped
      BY <1>7 DEF ControlTyped, AppInv, TypeOK, Reviews
    <2> QED
      BY <1>1, <2>1, <2>2, UndisturbedKeeps
  <1> QED
    BY <1>3, <1>5, <1>6, <1>7

\* The private fields are those of st, which holds the new session.
LEMMA HeldInv ==
  ASSUME NEW st, Fits(st), Holds(st, sess'), sess'.len \in Nat, sess'.intact \in BOOLEAN,
         ControlTyped, DOMAIN dc' = Fields,
         \A f \in PrivateFields : dc'[f] = st.dc[f]
  PROVE  AppInv'
  <1>1. /\ dc'.tx_data = st.dc.tx_data /\ dc'.tx_data_offset = st.dc.tx_data_offset
        /\ \A f \in HeaderFields : dc'[f] = st.dc[f]
    BY DEF PrivateFields, BufferFields
  <1>2. TypeOK'
    BY <1>1, AppAssumption DEF TypeOK, ControlTyped, Fits
  <1>3. BufferIsSession'
    BY <1>1 DEF BufferIsSession, Fits, Holds
  <1>4. SessionKept'
    BY <1>1 DEF SessionKept, Holds
  <1> QED
    BY <1>2, <1>3, <1>4 DEF AppInv

\* A throw ends app_main: the context only has to be well formed.
LEMMA ThrowInv ==
  ASSUME AppInv, NEW code, NEW d, NEW b, Throw(code, d, b), DOMAIN d = Fields,
         d.tx_data_offset \in Nat, d.tx_data_offset < MAX_DATA_LEN
  PROVE  AppInv'
  <1>1. TypeOK'
    BY AppAssumption DEF Throw, io_send_sw, Reply, AppInv, TypeOK
  <1>2. app' = "stopped"
    BY DEF Throw
  <1> QED
    BY <1>1, <1>2 DEF AppInv, BufferIsSession, SessionKept

LEMMA ReviewedLemma ==
  ASSUME NEW st, DOMAIN st.dc = Fields, NEW flag, NEW r
  PROVE  /\ DOMAIN Reviewed(st, flag, r) = Fields
         /\ \A f \in PrivateFields : Reviewed(st, flag, r)[f] = st.dc[f]
  <1> DEFINE d == [st.dc EXCEPT !.tx_sign_with_chain_id = flag]
             w == [tx_address_str |-> r.address_str, tx_amount_str |-> r.amount_str,
                   tx_transaction_id_str |-> r.transaction_id_str,
                   tx_to_sign |-> r.to_sign]
  <1>1. DOMAIN w \subseteq Fields /\ DOMAIN w \cap PrivateFields = {}
    BY FieldNames DEF PrivateFields, HeaderFields, BufferFields
  <1>2. \A f \in PrivateFields : d[f] = st.dc[f]
    BY PrivateAreFields DEF PrivateFields, HeaderFields, BufferFields
  <1>3. Reviewed(st, flag, r) = Write(d, w)
    BY DEF Reviewed
  <1> HIDE DEF d, w
  <1> QED
    BY <1>1, <1>2, <1>3, OtherWrite

LEMMA ShowInv ==
  ASSUME AppInv, NEW st, Fits(st), Holds(st, SessionWith(sess, apdu)),
         SessionWith(sess, apdu).len \in Nat, SessionWith(sess, apdu).intact \in BOOLEAN,
         NEW flag, NEW r, ShowTransaction(st, flag, r)
  PROVE  AppInv'
  <1> DEFINE d == Reviewed(st, flag, r)
  <1>1. DOMAIN d = Fields /\ \A f \in PrivateFields : d[f] = st.dc[f]
    BY ReviewedLemma DEF Fits
  <1> HIDE DEF d
  <1>2. CASE Throw(ReviewError(r), d, r.bc)
    <2>1. d.tx_data_offset = st.dc.tx_data_offset
      BY <1>1 DEF PrivateFields, BufferFields
    <2> QED
      BY <1>1, <1>2, <2>1, ThrowInv DEF Fits
  <1>3. CASE /\ ReviewError(r) = SUCCESS /\ dc' = d /\ flow' = r.flow
             /\ ui' = "transaction" /\ sess' = SessionWith(sess, apdu)
             /\ UNCHANGED <<app, apdu, reply>>
    <2>1. r.flow \in Flows
      BY <1>3 DEF ReviewError, SUCCESS
    <2>2. ControlTyped
      BY <1>3, <2>1 DEF ControlTyped, AppInv, TypeOK, Reviews
    <2> QED
      BY <1>1, <1>3, <2>2, HeldInv
  <1> QED
    BY <1>2, <1>3 DEF ShowTransaction, d

LEMMA SignTransactionInv ==
  ASSUME AppInv, NEW derived \in BOOLEAN, handleSignTransaction(derived)
  PROVE  AppInv'
  <1>1. app = "running" /\ apdu \in Commands /\ apdu.ins = "SIGN_TRANSACTION"
    BY DEF handleSignTransaction, Dispatched, Fresh, AppInv, TypeOK
  <1>2. /\ apdu.block.len \in Nat
        /\ is_first_chunk(apdu) => apdu.header # None
    BY <1>1, AppAssumption DEF is_first_chunk
  <1>3. PICK st : st = Chunk(apdu, derived) /\ AfterChunk(st)
    BY DEF handleSignTransaction
  <1>4. /\ Fits(st)
        /\ SessionWith(sess, apdu).len \in Nat
        /\ SessionWith(sess, apdu).intact \in BOOLEAN
        /\ st.err = SUCCESS => Holds(st, SessionWith(sess, apdu))
    BY <1>1, <1>2, <1>3, ChunkLemma
  <1>5. CASE \E code : Throw(code, st.dc, st.bc)
    BY <1>4, <1>5, ThrowInv DEF Fits
  <1>6. CASE /\ st.err = SUCCESS /\ io_send_sw(SUCCESS) /\ dc' = st.dc
             /\ sess' = SessionWith(sess, apdu) /\ UNCHANGED <<app, ui, flow>>
    <2>1. ControlTyped
      BY <1>6 DEF io_send_sw, Reply, ControlTyped, AppInv, TypeOK
    <2> QED
      BY <1>4, <1>6, <2>1, HeldInv DEF Fits
  <1>7. CASE st.err = SUCCESS /\ \E flag, r : ShowTransaction(st, flag, r)
    BY <1>4, <1>7, ShowInv
  <1>8. \/ \E code : Throw(code, st.dc, st.bc)
        \/ /\ st.err = SUCCESS /\ io_send_sw(SUCCESS) /\ dc' = st.dc
           /\ sess' = SessionWith(sess, apdu) /\ UNCHANGED <<app, ui, flow>>
        \/ st.err = SUCCESS /\ \E flag, r : ShowTransaction(st, flag, r)
    BY <1>3, Zenon DEF AfterChunk
  <1> QED
    BY <1>5, <1>6, <1>7, <1>8

LEMMA KeyDecisionInv ==
  ASSUME AppInv, NEW choice \in BOOLEAN,
         \/ Decide("pubkey") /\ validate_pubkey(choice)
         \/ Decide("address") /\ validate_address(choice)
  PROVE  AppInv'
  <1>1. app = "running" /\ ui' = "menu" /\ app' = app /\ flow' = flow
    BY DEF Decide
  <1>2. Reject \/ \E kind, data : helper_send_response(kind, data)
    BY DEF validate_pubkey, validate_address
  <1>3. CASE Reject
    BY <1>1, <1>3, UnchangedKeeps DEF Reject, io_send_sw, Reply, ControlTyped, AppInv, TypeOK
  <1>4. CASE \E kind, data : helper_send_response(kind, data)
    BY <1>1, <1>4, ResetKeeps DEF helper_send_response, Reply, ControlTyped, AppInv, TypeOK
  <1> QED
    BY <1>2, <1>3, <1>4

LEMMA SignatureWrites ==
  \A s : /\ DOMAIN [sign_signature |-> s] \subseteq Fields
         /\ DOMAIN [sign_signature |-> s] \cap PrivateFields = {}
         /\ DOMAIN [tx_signature |-> s] \subseteq Fields
         /\ DOMAIN [tx_signature |-> s] \cap PrivateFields = {}
  BY FieldNames DEF PrivateFields, HeaderFields, BufferFields

LEMMA SignatureDecisionInv ==
  ASSUME AppInv, NEW choice \in BOOLEAN, NEW signed \in BOOLEAN,
         \/ Decide("message") /\ validate_message(choice, signed)
         \/ Decide("transaction") /\ validate_transaction(choice, signed)
  PROVE  AppInv'
  <1>1. app = "running" /\ ui' = "menu" /\ app' = app /\ flow' = flow
    BY DEF Decide
  <1>2. apdu' = None
    BY DEF validate_message, validate_transaction, Reject, io_send_sw, Reply
  <1>3. sess' = sess \/ sess' = Disturbed(sess)
    BY DEF validate_message, validate_transaction, Reject
  <1>4. \/ dc' = dc
        \/ \E s : dc' = Write(dc, [sign_signature |-> s])
        \/ \E s : dc' = Write(dc, [tx_signature |-> s])
    BY DEF validate_message, validate_transaction, Reject
  <1>5. DOMAIN dc' = Fields /\ \A f \in PrivateFields : dc'[f] = dc[f]
    <2>1. CASE dc' = dc
      BY <2>1 DEF AppInv, TypeOK
    <2>2. ASSUME NEW s, dc' = Write(dc, [sign_signature |-> s])
          PROVE  DOMAIN dc' = Fields /\ \A f \in PrivateFields : dc'[f] = dc[f]
      BY <2>2, SignatureWrites, OtherWrite
    <2>3. ASSUME NEW s, dc' = Write(dc, [tx_signature |-> s])
          PROVE  DOMAIN dc' = Fields /\ \A f \in PrivateFields : dc'[f] = dc[f]
      BY <2>3, SignatureWrites, OtherWrite
    <2> QED
      BY <1>4, <2>1, <2>2, <2>3
  <1>6. Undisturbed
    BY <1>3, <1>5 DEF Undisturbed
  <1>7. ControlTyped
    BY <1>1, <1>2 DEF ControlTyped, AppInv, TypeOK
  <1> QED
    BY <1>1, <1>6, <1>7, UndisturbedKeeps

LEMMA NextInv == AppInv /\ [Next]_vars => AppInv'
  <1> SUFFICES ASSUME AppInv, [Next]_vars PROVE AppInv'
    OBVIOUS
  <1>1. CASE \E c \in Commands : Receive(c)
    BY <1>1, ReceiveInv
  <1>2. CASE Handle
    BY <1>2, RefuseInv, ConfigurationInv, SignInv, PublicKeyInv, AddressInv,
       SignTransactionInv DEF Handle
  <1>3. CASE UserDecides
    BY <1>3, KeyDecisionInv, SignatureDecisionInv DEF UserDecides
  <1>4. CASE Quit \/ ReceiveFails
    BY <1>4, StopInv DEF Quit, ReceiveFails
  <1>5. CASE app_main
    BY <1>5, StartInv
  <1>6. CASE UNCHANGED vars
    BY <1>6 DEF vars, AppInv, TypeOK, BufferIsSession, SessionKept
  <1> QED
    BY <1>1, <1>2, <1>3, <1>4, <1>5, <1>6 DEF Next

LEMMA AppAlways == Spec => []AppInv
  BY InitInv, NextInv, PTL DEF Spec

-----------------------------------------------------------------------------
(***************************************************************************)
(* The results, for every set of commands and every size of the buffer.    *)
(***************************************************************************)

\* Every reachable state is well formed; in particular the write position of
\* the message buffer never passes its end.
THEOREM WellTyped == Spec => []TypeOK
  BY AppAlways, PTL DEF AppInv

\* The message buffer holds what the session's chunks carried, in order, and
\* always has a free byte, however many chunks come, of whatever lengths, and
\* whatever other commands run in between.
THEOREM BufferAlwaysSession == Spec => []BufferIsSession
  BY AppAlways, PTL DEF AppInv

\* The account, wallet types, token and addresses a review works with are
\* those of the session's one complete first chunk.
THEOREM HeaderAlwaysSurvives == Spec => []HeaderSurvives
  BY AppAlways, SessionKeptIsHeaderSurvives, PTL DEF AppInv

-----------------------------------------------------------------------------
(***************************************************************************)
(* The invariant: a review is up only for a command that is still owed its *)
(* answer, and the fields its callback will use are those of that command, *)
(* shown as they are.                                                      *)
(***************************************************************************)
AnswerOwed ==
  app = "running" =>
    /\ ui # "menu" => apdu # None
    /\ apdu # None => reply = NoReply

ReviewIsCommand ==
  app = "running" =>
    CASE ui = "pubkey" ->
           /\ apdu.ins = "GET_PUBLIC_KEY"
           /\ dc.pk_public_key = PublicKey(apdu.account)
           /\ dc.pk_public_key_str = <<"hex", dc.pk_public_key>>
      [] ui = "address" ->
           /\ apdu.ins = "GET_ADDRESS"
           /\ dc.addr_address_str = <<"hex", dc.addr_address>>
      [] ui = "message" ->
           /\ apdu.ins = "SIGN"
           /\ dc.sign_account_number = apdu.account
           /\ dc.sign_to_sign = <<SIGN_MAGIC, apdu.payload>>
           /\ dc.sign_to_sign_str = <<"hex", dc.sign_to_sign>>
      [] ui = "transaction" ->
           apdu.ins = "SIGN_TRANSACTION" /\ SignedBytes(dc) = dc.tx_to_sign
      [] OTHER -> TRUE

SigningInv == AppInv /\ AnswerOwed /\ ReviewIsCommand

-----------------------------------------------------------------------------
(***************************************************************************)
(* What is prepared has a chain id in front if and only if the flag is set,*)
(* so that the callback signs all of it.                                   *)
(***************************************************************************)
LEMMA PreparedParts ==
  ASSUME NEW b, NEW ctx, ctx.tx_sign_with_chain_id \in BOOLEAN,
         NEW r, r = prepare_to_sign(b, ctx), r.err = SUCCESS
  PROVE  ctx.tx_sign_with_chain_id <=> Len(r.to_sign) = 2
  <1> DEFINE tree == deserialize_cells_tree(b, ctx.tx_data)
             bc1  == tree.bc
             p    == Parse(StartParse(bc1.cells[1], ctx), bc1.cells, ctx)
  <1>1. r = HashParsed(p, bc1, ctx)
    BY DEF prepare_to_sign, SignTree, SUCCESS
  <1> HIDE DEF p, bc1
  <1>2. \A hashed : LET h == PayloadHash(hashed, ctx)
                    IN  ctx.tx_sign_with_chain_id <=> Len(h.to_sign) = 2
    BY DEF PayloadHash
  <1>3. \/ r = HashPlain(p, bc1, ctx)
        \/ r = HashPrepended(p, bc1, ctx)
    BY <1>1 DEF HashParsed, Hashed
  <1>4. CASE r = HashPlain(p, bc1, ctx)
    <2> DEFINE h == prepare_payload_hash(bc1, ctx)
    <2>1. /\ r.err = h.err
          /\ h.err = SUCCESS => r.to_sign = h.to_sign
      BY <1>4 DEF HashPlain, Hashed
    <2>2. ctx.tx_sign_with_chain_id <=> Len(h.to_sign) = 2
      BY <1>2 DEF prepare_payload_hash
    <2> QED
      BY <2>1, <2>2
  <1>5. CASE r = HashPrepended(p, bc1, ctx)
    <2> DEFINE root == prepend_address_to_cell(bc1.cells[1], ctx.tx_wc,
                                               ctx.tx_prepend_address)
               h    == prepare_payload_hash([bc1 EXCEPT !.cells[1] = root.cell], ctx)
    <2>1. root.err = SUCCESS
      BY <1>5 DEF HashPrepended, Hashed
    <2>2. /\ r.err = h.err
          /\ h.err = SUCCESS => r.to_sign = h.to_sign
      BY <1>5, <2>1 DEF HashPrepended, Hashed
    <2>3. ctx.tx_sign_with_chain_id <=> Len(h.to_sign) = 2
      BY <1>2 DEF prepare_payload_hash
    <2> QED
      BY <2>2, <2>3
  <1> QED
    BY <1>3, <1>4, <1>5

-----------------------------------------------------------------------------
(***************************************************************************)
(* The steps.  A step that answers leads to the menu; one that does not is *)
(* the arrival of a command or the opening of a review.                    *)
(***************************************************************************)
AtMenu == app' = "running" => apdu' = None /\ ui' = "menu"

LEMMA AtMenuInv == AtMenu => AnswerOwed' /\ ReviewIsCommand'
  BY DEF AtMenu, AnswerOwed, ReviewIsCommand

LEMMA StoppedInv == app' = "stopped" => AnswerOwed' /\ ReviewIsCommand'
  BY DEF AnswerOwed, ReviewIsCommand

LEMMA InitSigning == Init => SigningInv
  <1> SUFFICES ASSUME Init PROVE SigningInv
    OBVIOUS
  <1>1. AnswerOwed
    BY DEF Init, AnswerOwed
  <1>2. ReviewIsCommand
    BY DEF Init, ReviewIsCommand
  <1> QED
    BY <1>1, <1>2, InitInv DEF SigningInv

LEMMA ReceiveSigning ==
  ASSUME SigningInv, NEW c \in Commands, Receive(c)
  PROVE  AnswerOwed' /\ ReviewIsCommand'
  <1>1. ui = "menu" /\ ui' = "menu" /\ reply' = NoReply
    BY DEF SigningInv, AnswerOwed, Receive
  <1> QED
    BY <1>1 DEF AnswerOwed, ReviewIsCommand

LEMMA PublicKeySigning ==
  ASSUME SigningInv, NEW derived \in BOOLEAN, handleGetPublicKey(derived)
  PROVE  AnswerOwed' /\ ReviewIsCommand'
  <1> DEFINE key == PublicKey(apdu.account)
             w   == [pk_public_key |-> key, pk_public_key_str |-> <<"hex", key>>]
  <1>1. /\ app = "running" /\ apdu # None /\ ui = "menu"
        /\ apdu.ins = "GET_PUBLIC_KEY" /\ reply = NoReply
    BY DEF handleGetPublicKey, Dispatched, Fresh, SigningInv, AnswerOwed
  <1>2. CASE apdu' = None /\ ui' = ui
    BY <1>1, <1>2, AtMenuInv DEF AtMenu
  <1>3. CASE dc' = Write(dc, w) /\ ui' = "pubkey" /\ UNCHANGED <<apdu, reply>>
    <2>1. dc'.pk_public_key = key /\ dc'.pk_public_key_str = <<"hex", key>>
      BY <1>3, FieldNames DEF Write
    <2> QED
      BY <1>1, <1>3, <2>1 DEF AnswerOwed, ReviewIsCommand
  <1>4. (apdu' = None /\ ui' = ui) \/
        (dc' = Write(dc, w) /\ ui' = "pubkey" /\ UNCHANGED <<apdu, reply>>)
    BY DEF handleGetPublicKey, io_send_sw, helper_send_response, Reply
  <1> QED
    BY <1>2, <1>3, <1>4

LEMMA AddressSigning ==
  ASSUME SigningInv, NEW derived \in BOOLEAN, handleGetAddress(derived)
  PROVE  AnswerOwed' /\ ReviewIsCommand'
  <1>1. /\ app = "running" /\ apdu # None /\ ui = "menu"
        /\ apdu.ins = "GET_ADDRESS" /\ reply = NoReply
    BY DEF handleGetAddress, Dispatched, Fresh, SigningInv, AnswerOwed
  <1>2. PICK found : AddressFound(found, KeyLeft(dc, found, apdu.account))
    BY DEF handleGetAddress
  <1>3. \/ app' = "stopped"
        \/ apdu' = None /\ ui' = ui
        \/ /\ dc' = Write(KeyLeft(dc, found, apdu.account),
                          [addr_address |-> found.address,
                           addr_address_str |-> <<"hex", found.address>>])
           /\ ui' = "address" /\ UNCHANGED <<apdu, reply>>
    BY <1>2 DEF AddressFound, Throw, helper_send_response, Reply
  <1>4. CASE app' = "stopped"
    BY <1>4, StoppedInv
  <1>5. CASE apdu' = None /\ ui' = ui
    BY <1>1, <1>5, AtMenuInv DEF AtMenu
  <1>6. CASE /\ dc' = Write(KeyLeft(dc, found, apdu.account),
                           [addr_address |-> found.address,
                            addr_address_str |-> <<"hex", found.address>>])
             /\ ui' = "address" /\ UNCHANGED <<apdu, reply>>
    <2>1. dc'.addr_address_str = <<"hex", dc'.addr_address>>
      BY <1>6, FieldNames DEF Write
    <2> QED
      BY <1>1, <1>6, <2>1 DEF AnswerOwed, ReviewIsCommand
  <1> QED
    BY <1>3, <1>4, <1>5, <1>6

LEMMA SignSigning ==
  ASSUME SigningInv, handleSign
  PROVE  AnswerOwed' /\ ReviewIsCommand'
  <1> DEFINE account == Write(dc, [sign_account_number |-> apdu.account])
             bytes   == <<SIGN_MAGIC, apdu.payload>>
             w       == [sign_to_sign |-> bytes, sign_to_sign_str |-> <<"hex", bytes>>]
  <1>1. /\ app = "running" /\ apdu # None /\ ui = "menu"
        /\ apdu.ins = "SIGN" /\ reply = NoReply
    BY DEF handleSign, Dispatched, Fresh, SigningInv, AnswerOwed
  <1>2. \/ app' = "stopped"
        \/ dc' = Write(account, w) /\ ui' = "message" /\ UNCHANGED <<apdu, reply>>
    BY DEF handleSign, Throw
  <1>3. CASE dc' = Write(account, w) /\ ui' = "message" /\ UNCHANGED <<apdu, reply>>
    <2>1. account.sign_account_number = apdu.account
      BY FieldNames DEF Write
    <2> HIDE DEF account
    <2>2. \A g \in DOMAIN w : ~Overlap("sign_account_number", g)
      BY DEF Overlap, Layout
    <2>3. dc'.sign_account_number = account.sign_account_number
      BY <1>3, <2>2, FieldNames DEF Write
    <2>4. dc'.sign_to_sign = bytes /\ dc'.sign_to_sign_str = <<"hex", bytes>>
      BY <1>3, FieldNames DEF Write
    <2> QED
      BY <1>1, <1>3, <2>1, <2>3, <2>4 DEF AnswerOwed, ReviewIsCommand
  <1> QED
    BY <1>2, <1>3, StoppedInv

\* The strings of the review do not touch the flag.
LEMMA ReviewedFlag ==
  ASSUME NEW st, DOMAIN st.dc = Fields, NEW flag, NEW r
  PROVE  /\ Reviewed(st, flag, r).tx_sign_with_chain_id = flag
         /\ Reviewed(st, flag, r).tx_to_sign = r.to_sign
  <1> DEFINE d == [st.dc EXCEPT !.tx_sign_with_chain_id = flag]
             w == [tx_address_str |-> r.address_str, tx_amount_str |-> r.amount_str,
                   tx_transaction_id_str |-> r.transaction_id_str,
                   tx_to_sign |-> r.to_sign]
  <1>1. Reviewed(st, flag, r) = Write(d, w)
    BY DEF Reviewed
  <1>2. d.tx_sign_with_chain_id = flag
    BY FieldNames
  <1> HIDE DEF d
  <1>3. \A g \in DOMAIN w : ~Overlap("tx_sign_with_chain_id", g)
    BY DEF Overlap, Layout
  <1>4. Write(d, w).tx_sign_with_chain_id = d.tx_sign_with_chain_id
    BY <1>3, FieldNames DEF Write
  <1>5. Write(d, w).tx_to_sign = r.to_sign
    BY FieldNames DEF Write
  <1> QED
    BY <1>1, <1>2, <1>4, <1>5

LEMMA SignTransactionSigning ==
  ASSUME SigningInv, NEW derived \in BOOLEAN, handleSignTransaction(derived)
  PROVE  AnswerOwed' /\ ReviewIsCommand'
  <1>1. /\ app = "running" /\ apdu # None /\ apdu \in Commands /\ ui = "menu"
        /\ apdu.ins = "SIGN_TRANSACTION" /\ reply = NoReply
    BY DEF handleSignTransaction, Dispatched, Fresh, SigningInv, AnswerOwed, AppInv, TypeOK
  <1>2. PICK st : st = Chunk(apdu, derived) /\ AfterChunk(st)
    BY DEF handleSignTransaction
  <1>3. DOMAIN st.dc = Fields
    <2>1. /\ apdu.block.len \in Nat
          /\ is_first_chunk(apdu) => apdu.header # None
      BY <1>1, AppAssumption DEF is_first_chunk
    <2> QED
      BY <1>1, <1>2, <2>1, ChunkLemma DEF SigningInv, Fits
  <1>4. CASE app' = "stopped"
    BY <1>4, StoppedInv
  <1>5. CASE apdu' = None /\ ui' = ui
    BY <1>1, <1>5, AtMenuInv DEF AtMenu
  <1>6. ASSUME NEW flag \in BOOLEAN, NEW r,
               r = prepare_to_sign(st.bc, [st.dc EXCEPT !.tx_sign_with_chain_id = flag]),
               ShowTransaction(st, flag, r)
        PROVE  AnswerOwed' /\ ReviewIsCommand'
    <2>1. \/ app' = "stopped"
          \/ /\ r.err = SUCCESS /\ dc' = Reviewed(st, flag, r)
             /\ ui' = "transaction" /\ UNCHANGED <<apdu, reply>>
      BY <1>6 DEF ShowTransaction, Throw, ReviewError
    <2>2. CASE /\ r.err = SUCCESS /\ dc' = Reviewed(st, flag, r)
               /\ ui' = "transaction" /\ UNCHANGED <<apdu, reply>>
      <3> DEFINE ctx == [st.dc EXCEPT !.tx_sign_with_chain_id = flag]
      <3>1. ctx.tx_sign_with_chain_id = flag
        BY <1>3, FieldNames
      <3>2. r = prepare_to_sign(st.bc, ctx)
        BY <1>6
      <3> HIDE DEF ctx
      <3>3. flag <=> Len(r.to_sign) = 2
        BY <2>2, <3>1, <3>2, PreparedParts
      <3>4. dc'.tx_sign_with_chain_id = flag /\ dc'.tx_to_sign = r.to_sign
        BY <1>3, <2>2, ReviewedFlag
      <3>5. SignedBytes(dc') = dc'.tx_to_sign
        BY <3>3, <3>4 DEF SignedBytes
      <3> QED
        BY <1>1, <2>2, <3>5 DEF AnswerOwed, ReviewIsCommand
    <2> QED
      BY <2>1, <2>2, StoppedInv
  <1>7. \/ app' = "stopped"
        \/ apdu' = None /\ ui' = ui
        \/ \E flag \in BOOLEAN : \E r :
             /\ r = prepare_to_sign(st.bc, [st.dc EXCEPT !.tx_sign_with_chain_id = flag])
             /\ ShowTransaction(st, flag, r)
    BY <1>2, Zenon DEF AfterChunk, Throw, io_send_sw, Reply
  <1> QED
    BY <1>4, <1>5, <1>6, <1>7

LEMMA DecisionSigning ==
  ASSUME SigningInv, UserDecides
  PROVE  AnswerOwed' /\ ReviewIsCommand'
  <1>1. apdu' = None /\ ui' = "menu"
    BY DEF UserDecides, Decide, validate_pubkey, validate_address, validate_message,
           validate_transaction, Reject, helper_send_response, io_send_sw, Reply
  <1> QED
    BY <1>1, AtMenuInv DEF AtMenu

LEMMA NextSigning == SigningInv /\ [Next]_vars => SigningInv'
  <1> SUFFICES ASSUME SigningInv, [Next]_vars PROVE AnswerOwed' /\ ReviewIsCommand'
    BY NextInv DEF SigningInv
  <1>1. CASE \E c \in Commands : Receive(c)
    BY <1>1, ReceiveSigning
  <1>2. CASE Refuse \/ handleGetAppConfiguration
    <2>1. apdu' = None /\ ui' = "menu"
      BY <1>2 DEF Refuse, handleGetAppConfiguration, Dispatched, Fresh, io_send_sw, Reply
    <2> QED
      BY <2>1, AtMenuInv DEF AtMenu
  <1>3. CASE handleSign
    BY <1>3, SignSigning
  <1>4. CASE \E derived \in BOOLEAN : \/ handleGetPublicKey(derived)
                                     \/ handleGetAddress(derived)
                                     \/ handleSignTransaction(derived)
    BY <1>4, PublicKeySigning, AddressSigning, SignTransactionSigning
  <1>5. CASE UserDecides
    BY <1>5, DecisionSigning
  <1>6. CASE Quit \/ ReceiveFails
    BY <1>6, StoppedInv DEF Quit, ReceiveFails, Stop
  <1>7. CASE app_main
    BY <1>7, AtMenuInv DEF app_main, AtMenu
  <1>8. CASE UNCHANGED vars
    BY <1>8 DEF vars, SigningInv, AnswerOwed, ReviewIsCommand
  <1> QED
    BY <1>1, <1>2, <1>3, <1>4, <1>5, <1>6, <1>7, <1>8 DEF Next, Handle

LEMMA SigningAlways == Spec => []SigningInv
  BY InitSigning, NextSigning, PTL DEF Spec

-----------------------------------------------------------------------------
(***************************************************************************)
(* Answers.  A step that answers is a handler's or a decision's.           *)
(***************************************************************************)
AnswerMatches ==
  CASE apdu.ins = "GET_PUBLIC_KEY" -> reply'.data = PublicKey(apdu.account)
    [] apdu.ins = "SIGN" ->
         reply'.data = Signature(apdu.account, <<SIGN_MAGIC, apdu.payload>>)
    [] apdu.ins = "SIGN_TRANSACTION" /\ ui = "transaction" ->
         reply'.data = Signature(SessionAccount, dc.tx_to_sign)
    [] apdu.ins = "SIGN_TRANSACTION" /\ ui = "menu" -> reply'.kind = "status"
    [] OTHER -> reply'.kind # "signature"

\* No error code is SUCCESS.
LEMMA HandlerAnswers ==
  ASSUME SigningInv, Handle, Answered
  PROVE  AnswerMatches
  <1>1. app = "running" /\ ui = "menu"
    BY DEF Handle, Refuse, handleGetAppConfiguration, handleSign, handleGetPublicKey,
           handleGetAddress, handleSignTransaction, Dispatched, Fresh
  <1>2. CASE Refuse
    BY <1>2 DEF Refuse, Answered, io_send_sw, Reply, SUCCESS
  <1>3. CASE handleGetAppConfiguration
    BY <1>3 DEF handleGetAppConfiguration, Dispatched, Reply, AnswerMatches
  <1>4. CASE handleSign
    BY <1>4 DEF handleSign, Throw, Answered
  <1>5. ASSUME NEW derived \in BOOLEAN, handleGetPublicKey(derived)
        PROVE  AnswerMatches
    BY <1>5 DEF handleGetPublicKey, Dispatched, Answered, helper_send_response,
                io_send_sw, Reply, SUCCESS, AnswerMatches
  <1>6. ASSUME NEW derived \in BOOLEAN, handleGetAddress(derived)
        PROVE  AnswerMatches
    <2>1. PICK found : AddressFound(found, KeyLeft(dc, found, apdu.account))
      BY <1>6 DEF handleGetAddress
    <2>2. reply'.kind = "address"
      BY <2>1 DEF AddressFound, Throw, Answered, helper_send_response, Reply
    <2>3. apdu.ins = "GET_ADDRESS"
      BY <1>6 DEF handleGetAddress, Dispatched
    <2> QED
      BY <2>2, <2>3 DEF AnswerMatches
  <1>7. ASSUME NEW derived \in BOOLEAN, handleSignTransaction(derived)
        PROVE  AnswerMatches
    <2>1. PICK st : AfterChunk(st)
      BY <1>7 DEF handleSignTransaction
    <2>2. io_send_sw(SUCCESS) \/ app' = "stopped" \/ apdu' = apdu
      BY <2>1, Zenon DEF AfterChunk, ShowTransaction, Throw
    <2>3. reply'.kind = "status"
      BY <2>2 DEF Answered, io_send_sw, Reply
    <2>4. apdu.ins = "SIGN_TRANSACTION"
      BY <1>7 DEF handleSignTransaction, Dispatched
    <2> QED
      BY <1>1, <2>3, <2>4 DEF AnswerMatches
  <1> QED
    BY <1>2, <1>3, <1>4, <1>5, <1>6, <1>7 DEF Handle

LEMMA DecisionAnswers ==
  ASSUME SigningInv, UserDecides, Answered
  PROVE  AnswerMatches
  <1>1. app = "running"
    BY DEF UserDecides, Decide
  <1>2. PICK choice \in BOOLEAN, signed \in BOOLEAN :
          \/ Decide("pubkey") /\ validate_pubkey(choice)
          \/ Decide("address") /\ validate_address(choice)
          \/ Decide("message") /\ validate_message(choice, signed)
          \/ Decide("transaction") /\ validate_transaction(choice, signed)
    BY DEF UserDecides
  <1>3. ~Reject
    BY DEF Reject, io_send_sw, Reply, Answered, SUCCESS
  <1>4. CASE Decide("pubkey") /\ validate_pubkey(choice)
    <2>1. apdu.ins = "GET_PUBLIC_KEY" /\ dc.pk_public_key = PublicKey(apdu.account)
      BY <1>1, <1>4 DEF SigningInv, ReviewIsCommand, Decide
    <2>2. reply'.data = dc.pk_public_key
      BY <1>3, <1>4 DEF validate_pubkey, helper_send_response, Reply
    <2> QED
      BY <2>1, <2>2 DEF AnswerMatches
  <1>5. CASE Decide("address") /\ validate_address(choice)
    <2>1. apdu.ins = "GET_ADDRESS"
      BY <1>1, <1>5 DEF SigningInv, ReviewIsCommand, Decide
    <2>2. reply'.kind = "address"
      BY <1>3, <1>5 DEF validate_address, helper_send_response, Reply
    <2> QED
      BY <2>1, <2>2 DEF AnswerMatches
  <1>6. CASE Decide("message") /\ validate_message(choice, signed)
    <2>1. /\ apdu.ins = "SIGN"
          /\ dc.sign_account_number = apdu.account
          /\ dc.sign_to_sign = <<SIGN_MAGIC, apdu.payload>>
      BY <1>1, <1>6 DEF SigningInv, ReviewIsCommand, Decide
    <2>2. reply'.data = Signature(dc.sign_account_number, dc.sign_to_sign)
      BY <1>3, <1>6 DEF validate_message, io_send_sw, Reply, Answered, SUCCESS
    <2> QED
      BY <2>1, <2>2 DEF AnswerMatches
  <1>7. CASE Decide("transaction") /\ validate_transaction(choice, signed)
    <2>1. /\ ui = "transaction" /\ apdu.ins = "SIGN_TRANSACTION"
          /\ SignedBytes(dc) = dc.tx_to_sign
      BY <1>1, <1>7 DEF SigningInv, ReviewIsCommand, Decide
    <2>2. reply'.data = Signature(dc.tx_account_number, SignedBytes(dc))
      BY <1>3, <1>7 DEF validate_transaction, io_send_sw, Reply, Answered, SUCCESS
    <2>3. dc.tx_account_number = SessionAccount
      BY <1>1 DEF SigningInv, AppInv, SessionKept, HeaderFields, Kept, SessionAccount
    <2> QED
      BY <2>1, <2>2, <2>3 DEF AnswerMatches
  <1> QED
    BY <1>2, <1>4, <1>5, <1>6, <1>7

LEMMA StepAnswers == SigningInv /\ [Next]_vars => [Answered => AnswerMatches]_vars
  <1> SUFFICES ASSUME SigningInv, Next, Answered PROVE AnswerMatches
    BY DEF vars
  <1>1. CASE \E c \in Commands : Receive(c)
    BY <1>1 DEF Receive, Answered
  <1>2. CASE Quit \/ ReceiveFails
    BY <1>2 DEF Quit, ReceiveFails, Stop, Answered
  <1>3. CASE app_main
    BY <1>3 DEF app_main, Answered, NoReply, SUCCESS
  <1> QED
    BY <1>1, <1>2, <1>3, HandlerAnswers, DecisionAnswers DEF Next

\* Whatever commands come and in whatever order, a positive answer is the one
\* its command asked for: its account's key, its account's signature over its
\* payload, or the signature of the session's account over all the bytes that
\* were prepared for the review (validate.c, send_response.c).
THEOREM AnswersAlwaysMatch == Spec => AnswersMatch
  <1>1. SigningInv /\ [Next]_vars => [Answered =>
       CASE apdu.ins = "GET_PUBLIC_KEY" -> reply'.data = PublicKey(apdu.account)
         [] apdu.ins = "SIGN" ->
              reply'.data = Signature(apdu.account, <<SIGN_MAGIC, apdu.payload>>)
         [] apdu.ins = "SIGN_TRANSACTION" /\ ui = "transaction" ->
              reply'.data = Signature(SessionAccount, dc.tx_to_sign)
         [] apdu.ins = "SIGN_TRANSACTION" /\ ui = "menu" -> reply'.kind = "status"
         [] OTHER -> reply'.kind # "signature"]_vars
    BY StepAnswers DEF AnswerMatches
  <1> QED
    BY <1>1, SigningAlways, PTL DEF Spec, AnswersMatch

-----------------------------------------------------------------------------
(***************************************************************************)
(* The refinement.                                                         *)
(***************************************************************************)
LEMMA InitDevice == Init => Device!Init
  BY DEF Init, Device!Init, PendingRequest, SignatureOut, NoReply

\* At the menu, or stopped, nothing is pending.
LEMMA NothingPending ==
  /\ app # "running" \/ ui \notin {"message", "transaction"} => PendingRequest = {}
  /\ reply.kind # "signature" => SignatureOut = {}
  BY DEF PendingRequest, SignatureOut

LEMMA NothingPendingNext ==
  /\ app' # "running" \/ ui' \notin {"message", "transaction"} => PendingRequest' = {}
  /\ reply'.kind # "signature" => SignatureOut' = {}
  BY DEF PendingRequest, SignatureOut

SignerStep == Device!Next \/ UNCHANGED <<PendingRequest, SignatureOut>>

LEMMA ForgetStep ==
  ASSUME PendingRequest = {}, PendingRequest' = {}, SignatureOut' = {}
  PROVE  SignerStep
  BY DEF SignerStep, Device!Next, Device!Forget

LEMMA AskStep ==
  ASSUME PendingRequest = {}, NEW request, PendingRequest' = {request},
         SignatureOut' = {}
  PROVE  SignerStep
  BY DEF SignerStep, Device!Next, Device!Ask

LEMMA RefuseStep ==
  ASSUME PendingRequest # {}, PendingRequest' = {}, SignatureOut' = {}
  PROVE  SignerStep
  BY DEF SignerStep, Device!Next, Device!Refuse

LEMMA ApproveStep ==
  ASSUME NEW account, NEW bytes,
         PendingRequest = {[account |-> account, bytes |-> bytes]},
         PendingRequest' = {}, SignatureOut' = {Signature(account, bytes)}
  PROVE  SignerStep
  BY DEF SignerStep, Device!Next, Device!Approve, Device!Signature, Signature

LEMMA HandleDevice ==
  ASSUME SigningInv, Handle
  PROVE  SignerStep
  <1>1. app = "running" /\ ui = "menu" /\ reply = NoReply
    BY DEF Handle, Refuse, handleGetAppConfiguration, handleSign, handleGetPublicKey,
           handleGetAddress, handleSignTransaction, Dispatched, Fresh, SigningInv, AnswerOwed
  <1>2. PendingRequest = {}
    BY <1>1, NothingPending
  <1>3. reply'.kind # "signature"
    <2>1. CASE Refuse \/ handleGetAppConfiguration \/ handleSign
      BY <1>1, <2>1 DEF Refuse, handleGetAppConfiguration, handleSign, Throw, io_send_sw,
                        Reply, NoReply
    <2>2. CASE \E derived \in BOOLEAN : handleGetPublicKey(derived)
      BY <1>1, <2>2 DEF handleGetPublicKey, helper_send_response, io_send_sw, Reply, NoReply
    <2>3. CASE \E derived \in BOOLEAN : handleGetAddress(derived)
      <3>1. PICK found : AddressFound(found, KeyLeft(dc, found, apdu.account))
        BY <2>3 DEF handleGetAddress
      <3> QED
        BY <1>1, <3>1 DEF AddressFound, Throw, helper_send_response, io_send_sw, Reply, NoReply
    <2>4. CASE \E derived \in BOOLEAN : handleSignTransaction(derived)
      <3>1. PICK st : AfterChunk(st)
        BY <2>4 DEF handleSignTransaction
      <3>2. (\E code : io_send_sw(code)) \/ reply' = reply
        BY <3>1, Zenon DEF AfterChunk, ShowTransaction, Throw
      <3> QED
        BY <1>1, <3>2 DEF io_send_sw, Reply, NoReply
    <2> QED
      BY <2>1, <2>2, <2>3, <2>4 DEF Handle
  <1>4. SignatureOut' = {}
    BY <1>3, NothingPendingNext
  <1>5. PendingRequest' = {} \/ \E request : PendingRequest' = {request}
    BY DEF PendingRequest
  <1> QED
    BY <1>2, <1>4, <1>5, ForgetStep, AskStep

LEMMA DecideDevice ==
  ASSUME SigningInv, UserDecides
  PROVE  SignerStep
  <1>1. app = "running" /\ ui' = "menu"
    BY DEF UserDecides, Decide
  <1>2. PendingRequest' = {}
    BY <1>1, NothingPendingNext
  <1>3. CASE reply'.kind # "signature"
    BY <1>2, <1>3, NothingPendingNext, ForgetStep, RefuseStep
  <1>4. CASE reply'.kind = "signature"
    <2>1. \/ ui = "message" /\ reply'.data = Signature(dc.sign_account_number, dc.sign_to_sign)
          \/ ui = "transaction" /\ reply'.data = Signature(dc.tx_account_number, SignedBytes(dc))
      BY <1>4 DEF UserDecides, Decide, validate_pubkey, validate_address, validate_message,
                  validate_transaction, Reject, helper_send_response, io_send_sw, Reply
    <2>2. SignatureOut' = {reply'.data}
      BY <1>4 DEF SignatureOut
    <2>3. CASE /\ ui = "message"
               /\ reply'.data = Signature(dc.sign_account_number, dc.sign_to_sign)
      BY <1>1, <1>2, <2>2, <2>3, ApproveStep DEF PendingRequest
    <2>4. CASE /\ ui = "transaction"
               /\ reply'.data = Signature(dc.tx_account_number, SignedBytes(dc))
      BY <1>1, <1>2, <2>2, <2>4, ApproveStep DEF PendingRequest
    <2> QED
      BY <2>1, <2>3, <2>4
  <1> QED
    BY <1>3, <1>4

\* While a review is up nothing was answered yet.
LEMMA OwedOut ==
  ASSUME SigningInv, PendingRequest # {}
  PROVE  SignatureOut = {}
  <1>1. app = "running" /\ ui # "menu"
    BY NothingPending
  <1> QED
    BY <1>1, NothingPending DEF SigningInv, AnswerOwed, NoReply

LEMMA StopDevice ==
  ASSUME SigningInv, Stop
  PROVE  SignerStep
  <1>1. PendingRequest' = {} /\ SignatureOut' = SignatureOut
    BY DEF Stop, PendingRequest, SignatureOut
  <1>2. CASE PendingRequest = {}
    BY <1>1, <1>2 DEF SignerStep
  <1>3. CASE PendingRequest # {}
    BY <1>1, <1>3, OwedOut, RefuseStep
  <1> QED
    BY <1>2, <1>3

LEMMA NextDevice == SigningInv /\ [Next]_vars => SignerStep
  <1> SUFFICES ASSUME SigningInv, [Next]_vars PROVE SignerStep
    OBVIOUS
  <1>1. CASE \E c \in Commands : Receive(c)
    <2>1. PICK c \in Commands : Receive(c)
      BY <1>1
    <2>2. app = "running" /\ apdu = None /\ ui' = ui /\ reply' = NoReply
      BY <2>1 DEF Receive
    <2>3. ui = "menu"
      BY <2>2 DEF SigningInv, AnswerOwed
    <2>4. PendingRequest = {} /\ PendingRequest' = {} /\ SignatureOut' = {}
      BY <2>2, <2>3, NothingPending, NothingPendingNext DEF NoReply
    <2> QED
      BY <2>4, ForgetStep
  <1>2. CASE app_main
    <2>1. PendingRequest = {} /\ PendingRequest' = {} /\ SignatureOut' = {}
      BY <1>2, NothingPending, NothingPendingNext DEF app_main, NoReply
    <2> QED
      BY <2>1, ForgetStep
  <1>3. CASE UNCHANGED vars
    BY <1>3 DEF vars, SignerStep, PendingRequest, SignatureOut, SignedBytes
  <1> QED
    BY <1>1, <1>2, <1>3, HandleDevice, DecideDevice, StopDevice
       DEF Next, Quit, ReceiveFails

\* The application implements the abstract signing device: it puts one request
\* at a time before the user, the request does not change while the user looks
\* at it, and a signature leaves only as the answer to an approval, over that
\* request (main.c, validate.c).
THEOREM AlwaysSigningDevice == Spec => IsSigningDevice
  BY InitDevice, NextDevice, SigningAlways, PTL
     DEF Spec, IsSigningDevice, SignerStep, Device!Spec
=============================================================================
