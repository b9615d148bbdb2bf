-------------------------- MODULE RequestsProofs ---------------------------
(***************************************************************************)
(* What the sessions of the signing command come to, for every set of      *)
(* commands: a review is a function of the header and the parts of its own *)
(* session (ReviewIsSession), and what it will sign is the hash of the     *)
(* tree of cells that these parts add up to (PayloadIsTree).  Every        *)
(* message of a host is such a tree, and the address of the wallet behind  *)
(* a session is the right one (AddressesAreRight), so what holds of each   *)
(* message alone (MessagesAreRead, MessagesAreWhole) gives what holds of   *)
(* the messages in every behaviour.  The fuzzing harness parses with the   *)
(* same code: how an input ends depends on the input alone                 *)
(* (OutcomeIsInputs).                                                      *)
(***************************************************************************)
EXTENDS Requests, FuzzHarness, EverscaleAppProofs, SequenceTheorems, FiniteSetTheorems, Counting

(***************************************************************************)
(* The inductive invariant.  d and b are the contexts and s the session:   *)
(* Unreviewed: no part of s was reviewed yet; of what message.c will read, *)
(*           other commands have changed the strings at most, and nothing  *)
(*           at all while s is intact                                      *)
(* Reviewing: the review of s is on the screen.                            *)
(***************************************************************************)
StringFields == {"tx_address_str", "tx_amount_str", "tx_transaction_id_str"}
SigningFields == {"tx_sign_with_chain_id", "tx_chain_id", "tx_to_sign"}

IsSequence(items) ==
  Len(items) \in Nat /\ items = [i \in 1 .. Len(items) |-> items[i]]

WellOpened(s) ==
  /\ s.header \in HeadersRead
  /\ IsSequence(s.items)
  /\ s.len # 0 => s.items # << >>

PartReviewed(s, last) ==
  \E n \in 1 .. last : IsReviewed(s.header, SubSeq(s.items, 1, n))

Unreviewed(s, d, b) ==
  \E left \in {Zero, Junk} :
    /\ d.tx_address_str = left /\ d.tx_amount_str = left
    /\ d.tx_transaction_id_str = Zero
    /\ s.intact =>
         /\ left = Zero /\ b = ZeroBoc
         /\ \A f \in SigningFields : d[f] = ReadHeader(s.header, TRUE).dc[f]

Reviewing(s, d, shown_flow) ==
  \E left \in {Zero, Junk} : \E r \in {SessionReview(s.header, s.items, left)} :
    /\ ReviewError(r) = SUCCESS
    /\ shown_flow = r.flow
    /\ d.tx_address_str = r.address_str /\ d.tx_amount_str = r.amount_str
    /\ d.tx_transaction_id_str = r.transaction_id_str
    /\ s.intact => left = Zero /\ SignedBytes(d) = r.to_sign

SessionOpen ==
  app = "running" /\ sess.header # None =>
    /\ WellOpened(sess)
    /\ IF ui = "transaction"
       THEN /\ sess.items # << >>
            /\ PartReviewed(sess, Len(sess.items) - 1) \/ Reviewing(sess, dc, flow)
       ELSE PartReviewed(sess, Len(sess.items)) \/ Unreviewed(sess, dc, bc)

\* boc_context has its fields.
BocTyped(b) == DOMAIN b = DOMAIN ZeroBoc
BocWhole == app = "running" => BocTyped(bc)

SessionInv == SigningInv /\ BocWhole /\ SessionOpen

-----------------------------------------------------------------------------
(***************************************************************************)
(* What message.c reads of data_context: the results of two runs agree if  *)
(* the contexts agree on these fields, whatever else they hold.            *)
(***************************************************************************)
Alike(c1, c2) ==
  /\ c1.tx_data = c2.tx_data
  /\ c1.tx_current_wallet_type = c2.tx_current_wallet_type
  /\ c1.tx_decimals = c2.tx_decimals /\ c1.tx_ticker = c2.tx_ticker
  /\ c1.tx_wc = c2.tx_wc /\ c1.tx_address = c2.tx_address
  /\ c1.tx_prepend_address = c2.tx_prepend_address
  /\ c1.tx_address_str = c2.tx_address_str /\ c1.tx_amount_str = c2.tx_amount_str
  /\ c1.tx_transaction_id_str = c2.tx_transaction_id_str

LEMMA AmountAlike ==
  ASSUME NEW c1, NEW c2, Alike(c1, c2)
  PROVE  \A p, flags : set_amount(p, flags, c1) = set_amount(p, flags, c2)
  BY DEF Alike, set_amount

LEMMA HeaderAlike ==
  ASSUME NEW c1, NEW c2, Alike(c1, c2)
  PROVE  \A p, flags : deserialize_int_message_header(p, flags, c1)
                       = deserialize_int_message_header(p, flags, c2)
  BY AmountAlike DEF deserialize_int_message_header

LEMMA TokenAlike ==
  ASSUME NEW c1, NEW c2, Alike(c1, c2)
  PROVE  \A p : deserialize_token_body(p, c1) = deserialize_token_body(p, c2)
  <1>1. \A p : Token_amount(p, c1) = Token_amount(p, c2)
    BY AmountAlike DEF Token_amount
  <1>2. \A p : Token_call(p, c1) = Token_call(p, c2)
    BY <1>1 DEF Token_call
  <1> QED
    BY <1>2 DEF deserialize_token_body

LEMMA ParamsAlike ==
  ASSUME NEW c1, NEW c2, Alike(c1, c2)
  PROVE  \A p, id : deserialize_multisig_params(p, id, c1)
                    = deserialize_multisig_params(p, id, c2)
  <1>1. \A p : Send_flags(p, c1) = Send_flags(p, c2)
    BY AmountAlike DEF Send_flags
  <1>2. \A p : Submit_flags(p, c1) = Submit_flags(p, c2)
    BY AmountAlike DEF Submit_flags
  <1>3. c1.tx_wc = c2.tx_wc /\ c1.tx_address = c2.tx_address
    BY DEF Alike
  <1> QED
    BY <1>1, <1>2, <1>3 DEF deserialize_multisig_params

LEMMA ParseAlike ==
  ASSUME NEW c1, NEW c2, Alike(c1, c2)
  PROVE  \A p, cells : Parse(p, cells, c1) = Parse(p, cells, c2)
  <1>1. \A p, cells : parse_wallet_v3(p, cells, c1) = parse_wallet_v3(p, cells, c2)
    BY HeaderAlike, TokenAlike DEF parse_wallet_v3
  <1>2. \A p, cells, in_root : parse_multisig(p, cells, c1, in_root)
                               = parse_multisig(p, cells, c2, in_root)
    BY ParamsAlike, TokenAlike DEF parse_multisig
  <1> QED
    BY <1>1, <1>2 DEF Parse, Alike

\* What the user sees does not depend on boc_context either.
LEMMA PayloadAlike ==
  ASSUME NEW b1, NEW b2, b1.cells = b2.cells, NEW c1, NEW c2
  PROVE  prepare_payload_hash(b1, c1).err = prepare_payload_hash(b2, c2).err
  BY DEF prepare_payload_hash, PayloadHash, HashCells

SeenAlike(r1, r2) == r1.err = r2.err /\ ShownBy(r1) = ShownBy(r2)

LEMMA BocFields ==
  DOMAIN ZeroBoc = {"cells", "hashes", "cell_depth", "public_key_cell_data",
                    "public_key_cell_index", "public_key_label_size_bits"}
  BY DEF ZeroBoc

LEMMA HashAlike ==
  ASSUME NEW c1, NEW c2, Alike(c1, c2), NEW p, NEW b1, NEW b2, b1.cells = b2.cells,
         BocTyped(b1), BocTyped(b2)
  PROVE  SeenAlike(HashParsed(p, b1, c1), HashParsed(p, b2, c2))
  <1> DEFINE root1 == prepend_address_to_cell(b1.cells[1], c1.tx_wc, c1.tx_prepend_address)
             root2 == prepend_address_to_cell(b2.cells[1], c2.tx_wc, c2.tx_prepend_address)
             long1 == [b1 EXCEPT !.cells[1] = root1.cell]
             long2 == [b2 EXCEPT !.cells[1] = root2.cell]
  <1>1. root1 = root2
    BY DEF Alike
  <1>2. CASE p.err # SUCCESS
    BY <1>2 DEF HashParsed, Hashed, SeenAlike, ShownBy
  <1>3. SeenAlike(HashPlain(p, b1, c1), HashPlain(p, b2, c2))
    BY PayloadAlike DEF HashPlain, Hashed, SeenAlike, ShownBy
  <1>4. prepare_payload_hash(long1, c1).err = prepare_payload_hash(long2, c2).err
    <2> HIDE DEF root1, root2
    <2>1. long1.cells = long2.cells
      BY <1>1, BocFields DEF BocTyped
    <2> HIDE DEF long1, long2
    <2> QED
      BY <2>1, PayloadAlike
  <1>5. SeenAlike(HashPrepended(p, b1, c1), HashPrepended(p, b2, c2))
    BY <1>1, <1>4 DEF HashPrepended, Hashed, SeenAlike, ShownBy
  <1> QED
    BY <1>2, <1>3, <1>5 DEF HashParsed, Alike

\* The cells are those of the stream, whatever boc_context held.
LEMMA TreeAlike ==
  ASSUME NEW b1, NEW b2, BocTyped(b1), BocTyped(b2), NEW src,
         NEW t1, t1 = deserialize_cells_tree(b1, src),
         NEW t2, t2 = deserialize_cells_tree(b2, src)
  PROVE  /\ t1.err = t2.err
         /\ BocTyped(t1.bc) /\ BocTyped(t2.bc)
         /\ t1.err = SUCCESS => t1.bc.cells = t2.bc.cells
  <1> DEFINE count == Head(src).cells_count
             read  == IF count < Len(src) - 1 THEN count ELSE Len(src) - 1
             cells == SubSeq(src, 2, read + 1)
  <1>1. t1.err = t2.err
    BY DEF deserialize_cells_tree
  <1>2. CASE ~HeaderOk(Head(src))
    BY <1>1, <1>2 DEF deserialize_cells_tree, SUCCESS
  <1>3. CASE HeaderOk(Head(src))
    <2>1. /\ t1.bc = [b1 EXCEPT !.cells = cells]
          /\ t2.bc = [b2 EXCEPT !.cells = cells]
      BY <1>3 DEF deserialize_cells_tree, CellsRead
    <2> HIDE DEF cells
    <2> QED
      BY <1>1, <2>1, BocFields DEF BocTyped
  <1> QED
    BY <1>2, <1>3

LEMMA PreparedSeen ==
  ASSUME NEW c1, NEW c2, Alike(c1, c2), NEW b1, NEW b2, BocTyped(b1), BocTyped(b2)
  PROVE  SeenAlike(prepare_to_sign(b1, c1), prepare_to_sign(b2, c2))
  <1> DEFINE t1 == deserialize_cells_tree(b1, c1.tx_data)
             t2 == deserialize_cells_tree(b2, c2.tx_data)
             p1 == Parse(StartParse(t1.bc.cells[1], c1), t1.bc.cells, c1)
             p2 == Parse(StartParse(t2.bc.cells[1], c2), t2.bc.cells, c2)
  <1>1. /\ t1.err = t2.err /\ BocTyped(t1.bc) /\ BocTyped(t2.bc)
        /\ t1.err = SUCCESS => t1.bc.cells = t2.bc.cells
    <2>1. c1.tx_data = c2.tx_data
      BY DEF Alike
    <2> QED
      BY <2>1, TreeAlike
  <1> HIDE DEF t1, t2
  <1>2. t1.err = SUCCESS => p1 = p2
    <2>1. t1.err = SUCCESS =>
            StartParse(t1.bc.cells[1], c1) = StartParse(t2.bc.cells[1], c2)
      BY <1>1 DEF StartParse, Alike
    <2> QED
      BY <1>1, <2>1, ParseAlike
  <1>3. t1.err = SUCCESS => SeenAlike(HashParsed(p1, t1.bc, c1), HashParsed(p2, t2.bc, c2))
    <2> HIDE DEF p1, p2
    <2> QED
      BY <1>1, <1>2, HashAlike
  <1> HIDE DEF p1, p2
  <1>4. SeenAlike(SignTree(t1, c1), SignTree(t2, c2))
    BY <1>1, <1>3 DEF SignTree, SeenAlike, ShownBy, Alike, p1, p2
  <1> QED
    BY <1>4 DEF prepare_to_sign, t1, t2

LEMMA PreparedSame ==
  ASSUME NEW c1, NEW c2, Alike(c1, c2), NEW b, \A f \in SigningFields : c1[f] = c2[f]
  PROVE  prepare_to_sign(b, c1) = prepare_to_sign(b, c2)
  <1>1. /\ c1.tx_sign_with_chain_id = c2.tx_sign_with_chain_id
        /\ c1.tx_chain_id = c2.tx_chain_id /\ c1.tx_to_sign = c2.tx_to_sign
    BY DEF SigningFields
  <1>2. \A p, b1 : HashPlain(p, b1, c1) = HashPlain(p, b1, c2)
    BY <1>1 DEF HashPlain, prepare_payload_hash, PayloadHash
  <1>3. \A p, b1 : HashPrepended(p, b1, c1) = HashPrepended(p, b1, c2)
    BY <1>1 DEF HashPrepended, prepare_payload_hash, PayloadHash, Alike
  <1>4. \A p, b1 : HashParsed(p, b1, c1) = HashParsed(p, b1, c2)
    BY <1>1, <1>2, <1>3 DEF HashParsed, Alike
  <1>5. \A tree : SignTree(tree, c1) = SignTree(tree, c2)
    BY <1>1, <1>4, ParseAlike DEF SignTree, StartParse, Alike
  <1> QED
    BY <1>5 DEF prepare_to_sign, Alike

-----------------------------------------------------------------------------
(***************************************************************************)
(* No handler takes a field from boc_context.                              *)
(***************************************************************************)
LEMMA HashCellsBoc ==
  ASSUME NEW b, BocTyped(b), NEW last
  PROVE  BocTyped(HashCells(b, last).bc)
  BY DEF HashCells, BocTyped

LEMMA TreeBoc ==
  ASSUME NEW b, BocTyped(b), NEW src
  PROVE  BocTyped(deserialize_cells_tree(b, src).bc)
  BY TreeAlike

LEMMA AddressBoc ==
  ASSUME NEW b, BocTyped(b), NEW account, NEW type, NEW derived
  PROVE  BocTyped(get_address(b, account, type, derived).bc)
  <1>1. ASSUME NEW b1, BocTyped(b1), NEW key
        PROVE  BocTyped(hash_with_key(b1, key, account, type, derived).bc)
    <2> DEFINE found == hash_with_key(b1, key, account, type, derived)
    <2>1. \/ found.bc = b1
          \/ \E coded : BocTyped(coded) /\ found.bc = coded
          \/ \E coded : BocTyped(coded) /\ found.bc = HashCells(coded, key.index).bc
      BY <1>1 DEF hash_with_key, NoAddress, RootHash, BocTyped
    <2> HIDE DEF found
    <2>2. BocTyped(found.bc)
      BY <1>1, <2>1, HashCellsBoc
    <2> QED
      BY <2>2 DEF found
  <1>2. BocTyped(compute_multisig_address(b, account, type, derived).bc)
    <2> DEFINE tree == deserialize_cells_tree(b, WalletBoc(type))
    <2>1. BocTyped(tree.bc)
      BY TreeBoc
    <2>2. compute_multisig_address(b, account, type, derived)
            = with_tree(tree, account, type, derived)
      BY DEF compute_multisig_address
    <2> HIDE DEF tree
    <2>3. BocTyped(with_tree(tree, account, type, derived).bc)
      BY <1>1, <2>1 DEF with_tree, NoAddress
    <2> QED
      BY <2>2, <2>3
  <1> QED
    BY <1>2 DEF get_address, NoAddress

LEMMA PreparedBoc ==
  ASSUME NEW b, BocTyped(b), NEW ctx
  PROVE  BocTyped(prepare_to_sign(b, ctx).bc)
  <1>1. ASSUME NEW b1, BocTyped(b1)
        PROVE  BocTyped(prepare_payload_hash(b1, ctx).bc)
    BY <1>1, HashCellsBoc DEF prepare_payload_hash, PayloadHash
  <1>2. ASSUME NEW p, NEW b1, BocTyped(b1)
        PROVE  BocTyped(HashPlain(p, b1, ctx).bc)
    BY <1>1, <1>2 DEF HashPlain, Hashed
  <1>3. ASSUME NEW p, NEW b1, BocTyped(b1)
        PROVE  BocTyped(HashPrepended(p, b1, ctx).bc)
    BY <1>3 DEF HashPrepended, Hashed, BocTyped
  <1>4. ASSUME NEW p, NEW b1, BocTyped(b1)
        PROVE  BocTyped(HashParsed(p, b1, ctx).bc)
    BY <1>2, <1>3, <1>4 DEF HashParsed, Hashed
  <1>5. ASSUME NEW tree, BocTyped(tree.bc)
        PROVE  BocTyped(SignTree(tree, ctx).bc)
    BY <1>4, <1>5 DEF SignTree
  <1> QED
    BY <1>5, TreeBoc DEF prepare_to_sign

-----------------------------------------------------------------------------
(***************************************************************************)
(* The strings of a review, and the header of a session.                   *)
(***************************************************************************)
\* No string shares a byte with what a first chunk, a key or a signature
\* writes.
AsideFields ==
  HeaderFields \cup BufferFields
  \cup {"tx_sign_with_chain_id", "tx_chain_id", "pk_public_key", "pk_public_key_str",
        "addr_address", "addr_address_str", "sign_signature", "tx_signature"}

LEMMA StringLayout ==
  \A f \in StringFields, g \in AsideFields : f # g /\ ~Overlap(f, g)
  BY DEF StringFields, AsideFields, HeaderFields, BufferFields, Overlap, Layout

LEMMA WriteAside ==
  ASSUME NEW d, NEW w, DOMAIN w \subseteq AsideFields, NEW f \in StringFields
  PROVE  Write(d, w)[f] = d[f]
  <1>1. f \in Fields
    BY FieldNames DEF StringFields
  <1>2. f \notin DOMAIN w /\ \A g \in DOMAIN w : ~Overlap(f, g)
    BY StringLayout
  <1> QED
    BY <1>1, <1>2 DEF Write

StringsZero(d) == \A f \in StringFields : d[f] = Zero

LEMMA StepAside ==
  ASSUME NEW st, NEW cond, NEW code, NEW w, DOMAIN w \subseteq AsideFields,
         NEW f \in StringFields
  PROVE  Step(st, cond, code, w).dc[f] = st.dc[f]
  <1>1. Write(st.dc, w)[f] = st.dc[f]
    BY WriteAside
  <1> QED
    BY <1>1 DEF Step

\* A step that writes no string.
Aside(st, next) ==
  /\ StringsZero(st.dc) => StringsZero(next.dc)
  /\ next.bc = st.bc
  /\ next.err = SUCCESS => st.err = SUCCESS

LEMMA StepIsAside ==
  ASSUME NEW st, NEW cond, NEW code, NEW w, DOMAIN w \subseteq AsideFields,
         code # SUCCESS \/ cond
  PROVE  Aside(st, Step(st, cond, code, w))
  <1>1. StringsZero(st.dc) => StringsZero(Step(st, cond, code, w).dc)
    BY StepAside DEF StringsZero
  <1> QED
    BY <1>1 DEF Aside, Step

LEMMA ItemIsAside ==
  ASSUME NEW st, NEW h, NEW n, NEW w, DOMAIN w \subseteq AsideFields
  PROVE  Aside(st, Item(st, h, n, w))
  BY StepIsAside DEF Item, SUCCESS

\* What a first chunk reads leaves the strings as the reset has set them.
LEMMA ReadWalletAside ==
  ASSUME NEW h
  PROVE  StringsZero(ReadWallet(h).dc)
  <1> DEFINE start  == [dc |-> ZeroContext, bc |-> ZeroBoc, err |-> SUCCESS]
             number == Item(start, h, 1, [tx_account_number |-> h.account])
             origin == Item(number, h, 2, [tx_origin_wallet_type |-> h.origin])
             digits == Item(origin, h, 3, [tx_decimals |-> h.decimals])
             count  == Item(digits, h, 4, Nothing)
             length == Step(count, Len(h.ticker) \in 1 .. MAX_TICKER_LEN,
                            "ERR_TICKER_LENGTH", Nothing)
             ticker == Item(length, h, 5, [tx_ticker |-> h.ticker])
             meta   == Item(ticker, h, 6, Nothing)
             given  == "wallet" \in h.flags
             wallet == Item(meta, h, IF given THEN 7 ELSE 6,
                            [tx_current_wallet_type |-> IF given THEN h.current
                                                        ELSE h.origin])
  <1> USE DEF AsideFields, HeaderFields
  <1>1. StringsZero(start.dc)
    BY FieldNames DEF StringsZero, StringFields, ZeroContext
  <1>2. StringsZero(number.dc)
    BY <1>1, ItemIsAside DEF Aside
  <1>3. StringsZero(origin.dc)
    BY <1>2, ItemIsAside DEF Aside
  <1>4. StringsZero(digits.dc)
    BY <1>3, ItemIsAside DEF Aside
  <1>5. StringsZero(count.dc)
    BY <1>4, ItemIsAside DEF Nothing, Aside
  <1>6. StringsZero(length.dc)
    BY <1>5, StepIsAside DEF Nothing, Aside, SUCCESS
  <1>7. StringsZero(ticker.dc)
    BY <1>6, ItemIsAside DEF Aside
  <1>8. StringsZero(meta.dc)
    BY <1>7, ItemIsAside DEF Nothing, Aside
  <1>9. StringsZero(wallet.dc)
    <2> HIDE DEF meta
    <2> QED
      BY <1>8, ItemIsAside DEF Aside
  <1>10. ReadWallet(h) = wallet
    BY DEF ReadWallet
  <1> QED
    BY <1>9, <1>10

LEMMA ReadAddressAside ==
  ASSUME NEW h, NEW derived \in BOOLEAN, NEW st,
         st = ReadAddress(ReadWallet(h), h, derived)
  PROVE  /\ StringsZero(st.dc)
         /\ st.err = SUCCESS => st.bc = ZeroBoc /\ derived = TRUE
  <1> DEFINE before == ReadWallet(h)
             found  == get_address(ZeroBoc, h.account, h.origin, derived)
             key    == [pk_public_key |-> PublicKey(h.account)]
             left   == KeyLeft(before.dc, found, h.account)
             w      == [tx_address |-> found.address]
  <1>1. StringsZero(before.dc) /\ before.bc = ZeroBoc
    BY ReadWalletAside, ReadWalletLemma
  <1>2. st = IF before.err # SUCCESS THEN before ELSE StoreAddress(found, left)
    BY <1>1 DEF ReadAddress, OwnAddressOf
  <1>3. found.err = SUCCESS => derived = TRUE
    BY AddressNeedsKey
  <1>4. DOMAIN key \subseteq AsideFields /\ DOMAIN w \subseteq AsideFields
    BY DEF AsideFields, HeaderFields
  <1> HIDE DEF before, found, key
  <1>5. StringsZero(left)
    BY <1>1, <1>4, WriteAside DEF KeyLeft, key, StringsZero
  <1> HIDE DEF left, w
  <1>6. StringsZero(Write(left, w))
    BY <1>4, <1>5, WriteAside DEF StringsZero
  <1> QED
    BY <1>1, <1>2, <1>3, <1>5, <1>6 DEF StoreAddress, w

LEMMA ReadHeaderAside ==
  ASSUME NEW h, NEW derived \in BOOLEAN, NEW st, st = ReadHeader(h, derived)
  PROVE  /\ StringsZero(st.dc)
         /\ st.err = SUCCESS =>
              /\ st.bc = ZeroBoc /\ derived = TRUE
              /\ st.dc.tx_sign_with_chain_id = ("chain" \in h.flags)
              /\ "chain" \in h.flags => st.dc.tx_chain_id = h.chain
  <1> DEFINE own     == ReadAddress(ReadWallet(h), h, derived)
             default == Step(own, TRUE, SUCCESS, [tx_wc |-> DEFAULT_WORKCHAIN_ID])
             wc      == Option(default, "wc" \in h.flags, h, 8, [tx_wc |-> h.wc])
             prepend == ReadPrepend(wc, h)
             w       == [tx_sign_with_chain_id |-> "chain" \in h.flags]
             flag    == Step(prepend, TRUE, SUCCESS, w)
             id      == [tx_chain_id |-> h.chain]
  <1>1. /\ StringsZero(own.dc)
        /\ own.err = SUCCESS => own.bc = ZeroBoc /\ derived = TRUE
    BY ReadAddressAside
  <1>2. st = Option(flag, "chain" \in h.flags, h, 10, id)
    BY DEF ReadHeader, ReadOptions
  <1>3. Aside(own, default)
    BY StepIsAside DEF AsideFields, HeaderFields
  <1>4. Aside(default, wc)
    <2> HIDE DEF default
    <2>1. Aside(default, Item(default, h, 8, [tx_wc |-> h.wc]))
      BY ItemIsAside DEF AsideFields, HeaderFields
    <2> QED
      BY <2>1 DEF Option, Aside
  <1>5. Aside(wc, prepend)
    <2> HIDE DEF wc
    <2>1. Aside(wc, Item(wc, h, 9, [tx_prepend_address |-> h.address]))
      BY ItemIsAside DEF AsideFields, HeaderFields
    <2>2. Aside(wc, Step(wc, TRUE, SUCCESS, [tx_prepend_address |-> wc.dc.tx_address]))
      BY StepIsAside DEF AsideFields, HeaderFields
    <2> QED
      BY <2>1, <2>2 DEF ReadPrepend
  <1>6. Aside(prepend, flag) /\ (flag.err = SUCCESS => flag.dc = Write(prepend.dc, w))
    <2> HIDE DEF prepend
    <2>1. Aside(prepend, flag)
      BY StepIsAside DEF AsideFields
    <2> HIDE DEF w
    <2> QED
      BY <2>1 DEF Step
  <1>7. /\ Aside(flag, st)
        /\ st.err = SUCCESS =>
             IF "chain" \in h.flags THEN st.dc = Write(flag.dc, id) ELSE st.dc = flag.dc
    <2> HIDE DEF flag
    <2>1. Aside(flag, Item(flag, h, 10, id))
      BY ItemIsAside DEF AsideFields
    <2> HIDE DEF id
    <2>2. Aside(flag, st)
      BY <1>2, <2>1 DEF Option, Aside
    <2>3. st = IF "chain" \in h.flags
               THEN Step(flag, h.present >= 10, "ERR_INVALID_REQUEST", id) ELSE flag
      BY <1>2 DEF Option, Item
    <2> QED
      BY <2>2, <2>3 DEF Step, SUCCESS
  <1> HIDE DEF own, default, wc, prepend, flag
  <1>8. Write(prepend.dc, w).tx_sign_with_chain_id = ("chain" \in h.flags)
    BY FieldNames DEF Write
  <1>9. Write(flag.dc, id).tx_sign_with_chain_id = flag.dc.tx_sign_with_chain_id
    <2>1. \A g \in DOMAIN id : ~Overlap("tx_sign_with_chain_id", g)
      BY DEF Overlap, Layout
    <2> QED
      BY <2>1, FieldNames DEF Write
  <1>10. Write(flag.dc, id).tx_chain_id = h.chain
    BY FieldNames DEF Write
  <1> HIDE DEF w, id
  <1> QED
    BY <1>1, <1>3, <1>4, <1>5, <1>6, <1>7, <1>8, <1>9, <1>10 DEF Aside

-----------------------------------------------------------------------------
(***************************************************************************)
(* Sequences of parts.                                                     *)
(***************************************************************************)
LEMMA PartsAreSeq ==
  ASSUME NEW s, IsSequence(s)
  PROVE  \E S : s \in Seq(S)
  <1> DEFINE S == {s[i] : i \in 1 .. Len(s)}
  <1>1. s \in [1 .. Len(s) -> S]
    BY DEF IsSequence
  <1>2. s \in Seq(S)
    <2> HIDE DEF S
    <2> QED
      BY <1>1, SeqDef DEF IsSequence
  <1> QED
    BY <1>2

LEMMA Joined ==
  ASSUME NEW s, IsSequence(s), NEW t, IsSequence(t)
  PROVE  /\ IsSequence(s \o t)
         /\ Len(s \o t) = Len(s) + Len(t)
         /\ \A n \in 0 .. Len(s) : SubSeq(s \o t, 1, n) = SubSeq(s, 1, n)
  <1>1. PICK S1, S2 : s \in Seq(S1) /\ t \in Seq(S2)
    BY PartsAreSeq
  <1> DEFINE S == S1 \cup S2
  <1>2. s \in Seq(S) /\ t \in Seq(S)
    BY <1>1
  <1> HIDE DEF S
  <1>3. /\ s \o t \in Seq(S) /\ Len(s \o t) = Len(s) + Len(t)
        /\ \A i \in 1 .. Len(s) : (s \o t)[i] = s[i]
    BY <1>2
  <1>4. IsSequence(s \o t)
    <2> SUFFICES ASSUME NEW u \in Seq(S) PROVE IsSequence(u)
      BY <1>3
    <2> QED
      BY LenProperties DEF IsSequence
  <1>5. ASSUME NEW n \in 0 .. Len(s)
        PROVE  SubSeq(s \o t, 1, n) = SubSeq(s, 1, n)
    <2>1. /\ \A i \in 1 .. n : s[i] \in S /\ (s \o t)[i] \in S
          /\ \A i \in 1 .. n : (s \o t)[i] = s[i]
      BY <1>2, <1>3, ElementOfSeq DEF IsSequence
    <2>2. n \in Int /\ n >= 0
      BY DEF IsSequence
    <2> DEFINE joined == s \o t
    <2>3. /\ SubSeq(s, 1, n) \in Seq(S) /\ Len(SubSeq(s, 1, n)) = n
          /\ \A i \in 1 .. n : SubSeq(s, 1, n)[i] = s[i]
      BY <2>1, <2>2, SubSeqProperties
    <2> HIDE DEF joined
    <2>4. /\ SubSeq(joined, 1, n) \in Seq(S) /\ Len(SubSeq(joined, 1, n)) = n
          /\ \A i \in 1 .. n : SubSeq(joined, 1, n)[i] = s[i]
      BY <2>1, <2>2, SubSeqProperties DEF joined
    <2>5. SubSeq(joined, 1, n) = SubSeq(s, 1, n)
      BY <2>3, <2>4, SeqEqual
    <2> QED
      BY <2>5 DEF joined
  <1> QED
    BY <1>3, <1>4, <1>5

LEMMA AllOfIt ==
  ASSUME NEW s, IsSequence(s)
  PROVE  SubSeq(s, 1, Len(s)) = s
  <1>1. PICK S : s \in Seq(S)
    BY PartsAreSeq
  <1> QED
    BY <1>1

LEMMA NotEmpty ==
  ASSUME NEW s, IsSequence(s)
  PROVE  s # << >> => Len(s) > 0
  <1>1. PICK S : s \in Seq(S)
    BY PartsAreSeq
  <1> QED
    BY <1>1

-----------------------------------------------------------------------------
(***************************************************************************)
(* A chunk.                                                                *)
(***************************************************************************)
\* Appending to the buffer writes nothing else.
LEMMA AppendSame ==
  ASSUME NEW before, DOMAIN before.dc = Fields, NEW block, NEW st,
         st = AppendBlock(before, block), st.err = SUCCESS
  PROVE  /\ before.err = SUCCESS
         /\ st.bc = before.bc
         /\ \A f \in Fields \ BufferFields : st.dc[f] = before.dc[f]
  <1> DEFINE w == [tx_data |-> before.dc.tx_data \o block.items,
                   tx_data_offset |-> before.dc.tx_data_offset + block.len]
             cond == before.dc.tx_data_offset + block.len < MAX_DATA_LEN
  <1>1. CASE block.len = 0
    BY <1>1 DEF AppendBlock
  <1>2. CASE block.len # 0
    <2>1. st = Step(before, cond, "ERR_INVALID_DATA", w)
      BY <1>2 DEF AppendBlock
    <2>2. DOMAIN w = BufferFields
      BY DEF BufferFields
    <2> HIDE DEF w, cond
    <2>3. before.err = SUCCESS /\ st.bc = before.bc /\ st.dc = Write(before.dc, w)
      BY <2>1 DEF Step, SUCCESS
    <2>4. ASSUME NEW f \in Fields \ BufferFields
          PROVE  st.dc[f] = before.dc[f]
      <3>1. \A g \in BufferFields : Overlap(f, g) => Overlap(g, f)
        BY DEF Overlap
      <3>2. \A g \in BufferFields : ~Overlap(f, g)
        BY <3>1, PrivateLayout DEF PrivateFields
      <3> QED
        BY <2>2, <2>3, <3>2 DEF Write
    <2> QED
      BY <2>3, <2>4
  <1> QED
    BY <1>1, <1>2

\* The session a chunk adds to, and what it makes of it.
LEMMA SessionGrows ==
  ASSUME SessionInv, app = "running", apdu \in Commands, apdu.ins = "SIGN_TRANSACTION",
         is_first_chunk(apdu) => apdu.header \in HeadersRead,
         NEW s, s = SessionWith(sess, apdu), s.header # None
  PROVE  /\ WellOpened(s)
         /\ ~is_first_chunk(apdu) /\ PartReviewed(sess, Len(sess.items)) =>
              PartReviewed(s, Len(sess.items))
         /\ Len(s.items) \in Nat
         /\ ~is_first_chunk(apdu) =>
              /\ Len(sess.items) \in Nat /\ Len(sess.items) <= Len(s.items)
              /\ apdu.block.len # 0 => Len(sess.items) < Len(s.items)
  <1> DEFINE block == apdu.block
  <1>1. /\ IsSequence(block.items) /\ block.len \in Nat
        /\ block.len # 0 => block.items # << >>
    BY AppAssumption, ChunkAssumption DEF IsSequence
  <1> HIDE DEF block
  <1>2. CASE is_first_chunk(apdu)
    <2>1. /\ s.header = apdu.header /\ s.len = block.len
          /\ s.items = IF block.len = 0 THEN << >> ELSE << >> \o block.items
      BY <1>2 DEF SessionWith, block
    <2>2. IsSequence(<< >>)
      BY DEF IsSequence
    <2>3. IsSequence(<< >> \o block.items)
      BY <1>1, <2>2, Joined
    <2>4. Len(<< >> \o block.items) = Len(block.items)
      BY <1>1, <2>2, Joined DEF IsSequence
    <2>5. block.len # 0 => Len(block.items) > 0
      BY <1>1, NotEmpty
    <2>6. block.len # 0 => s.items # << >>
      BY <2>1, <2>4, <2>5
    <2> QED
      BY <1>2, <2>1, <2>2, <2>3, <2>6 DEF WellOpened, IsSequence
  <1>3. CASE ~is_first_chunk(apdu)
    <2>1. /\ s.header = sess.header /\ s.len = sess.len + block.len
          /\ s.items = IF block.len = 0 THEN sess.items ELSE sess.items \o block.items
      BY <1>3 DEF SessionWith, block
    <2>2. WellOpened(sess) /\ sess.len \in Nat
      BY <2>1 DEF SessionInv, SessionOpen, SigningInv, AppInv, TypeOK
    <2>3. /\ IsSequence(sess.items \o block.items)
          /\ Len(sess.items \o block.items) = Len(sess.items) + Len(block.items)
          /\ \A n \in 0 .. Len(sess.items) :
               SubSeq(sess.items \o block.items, 1, n) = SubSeq(sess.items, 1, n)
      BY <1>1, <2>2, Joined DEF WellOpened
    <2>4. block.len # 0 => Len(block.items) > 0
      BY <1>1, NotEmpty
    <2>5. Len(sess.items) \in Nat /\ Len(block.items) \in Nat
      BY <1>1, <2>2 DEF WellOpened, IsSequence
    <2>6. /\ IsSequence(s.items)
          /\ Len(sess.items) <= Len(s.items)
          /\ block.len # 0 => Len(sess.items) < Len(s.items)
          /\ \A n \in 0 .. Len(sess.items) :
               SubSeq(s.items, 1, n) = SubSeq(sess.items, 1, n)
      <3>1. CASE block.len = 0
        BY <2>1, <2>2, <2>5, <3>1 DEF WellOpened
      <3>2. CASE block.len # 0
        <4> DEFINE joined == sess.items \o block.items
        <4>1. s.items = joined
          BY <2>1, <3>2
        <4>2. /\ IsSequence(joined) /\ Len(joined) = Len(sess.items) + Len(block.items)
              /\ \A n \in 0 .. Len(sess.items) :
                   SubSeq(joined, 1, n) = SubSeq(sess.items, 1, n)
          BY <2>3
        <4> HIDE DEF joined
        <4>3. Len(block.items) > 0
          BY <2>4, <3>2
        <4>4. \A a, b \in Nat : b > 0 => a < a + b /\ a <= a + b
          OBVIOUS
        <4>5. Len(sess.items) < Len(joined) /\ Len(sess.items) <= Len(joined)
          BY <2>5, <4>2, <4>3, <4>4
        <4> QED
          BY <4>1, <4>2, <4>5
      <3> QED
        BY <3>1, <3>2
    <2>7. s.len # 0 => s.items # << >>
      <3>1. CASE sess.len # 0
        <4>1. Len(sess.items) > 0
          BY <2>2, <3>1, NotEmpty DEF WellOpened
        <4> QED
          BY <2>5, <2>6, <4>1
      <3>2. CASE sess.len = 0 /\ block.len # 0
        BY <2>5, <2>6, <3>2
      <3>3. CASE sess.len = 0 /\ block.len = 0
        BY <2>1, <3>3
      <3> QED
        BY <3>1, <3>2, <3>3
    <2>8. PartReviewed(sess, Len(sess.items)) => PartReviewed(s, Len(sess.items))
      <3>1. 1 .. Len(sess.items) \subseteq 0 .. Len(sess.items)
        BY <2>5
      <3> QED
        BY <2>1, <2>6, <3>1 DEF PartReviewed
    <2>9. WellOpened(s)
      BY <2>1, <2>2, <2>6, <2>7 DEF WellOpened
    <2> QED
      BY <1>3, <2>5, <2>6, <2>8, <2>9 DEF IsSequence, block
  <1> QED
    BY <1>2, <1>3

\* A chunk that went well, of a session no part of which was reviewed.
ChunkTaken(st) ==
  \E derived \in BOOLEAN : st = Chunk(apdu, derived) /\ st.err = SUCCESS

LEMMA FirstIsRead ==
  ASSUME SessionInv, app = "running", apdu \in Commands, apdu.ins = "SIGN_TRANSACTION",
         is_first_chunk(apdu), NEW st, ChunkTaken(st)
  PROVE  /\ apdu.header \in HeadersRead
         /\ st.bc = ZeroBoc
         /\ \A f \in Fields \ BufferFields :
              st.dc[f] = ReadHeader(apdu.header, TRUE).dc[f]
  <1> DEFINE h == apdu.header
  <1>1. PICK derived \in BOOLEAN : st = Chunk(apdu, derived) /\ st.err = SUCCESS
    BY DEF ChunkTaken
  <1>2. st = AppendBlock(ReadHeader(h, derived), apdu.block)
    BY <1>1 DEF Chunk
  <1> DEFINE before == ReadHeader(h, derived)
  <1>3. DOMAIN before.dc = Fields
    <2>1. h # None
      BY AppAssumption DEF is_first_chunk
    <2> QED
      BY <2>1, ReadHeaderLemma DEF NothingBuffered
  <1>4. /\ before.err = SUCCESS => before.bc = ZeroBoc /\ derived = TRUE
    BY ReadHeaderAside
  <1>5. st = AppendBlock(before, apdu.block)
    BY <1>2
  <1> HIDE DEF before
  <1>6. /\ before.err = SUCCESS /\ st.bc = before.bc
        /\ \A f \in Fields \ BufferFields : st.dc[f] = before.dc[f]
    BY <1>1, <1>3, <1>5, AppendSame
  <1>7. before = ReadHeader(h, TRUE)
    BY <1>4, <1>6 DEF before
  <1>8. h \in HeadersRead
    BY <1>6, <1>7 DEF HeadersRead
  <1> QED
    BY <1>4, <1>6, <1>7, <1>8

LEMMA ExtensionSame ==
  ASSUME AppInv, ~is_first_chunk(apdu), NEW st, ChunkTaken(st)
  PROVE  st.bc = bc /\ \A f \in Fields \ BufferFields : st.dc[f] = dc[f]
  <1> DEFINE before == [dc |-> dc, bc |-> bc, err |-> SUCCESS]
  <1>1. st = AppendBlock(before, apdu.block) /\ st.err = SUCCESS
    BY DEF ChunkTaken, Chunk
  <1>2. DOMAIN before.dc = Fields
    BY DEF AppInv, TypeOK
  <1> HIDE DEF before
  <1>3. st.bc = before.bc /\ \A f \in Fields \ BufferFields : st.dc[f] = before.dc[f]
    BY <1>1, <1>2, AppendSame
  <1> QED
    BY <1>3 DEF before

LEMMA SessionFields ==
  StringFields \subseteq Fields \ BufferFields /\ SigningFields \subseteq Fields \ BufferFields
  BY FieldNames DEF StringFields, SigningFields, BufferFields

LEMMA StillUnreviewed ==
  ASSUME SessionInv, app = "running", ui = "menu", apdu \in Commands,
         apdu.ins = "SIGN_TRANSACTION", NEW st, ChunkTaken(st),
         NEW s, s = SessionWith(sess, apdu), s.header # None
  PROVE  \/ ~is_first_chunk(apdu) /\ PartReviewed(sess, Len(sess.items))
         \/ Unreviewed(s, st.dc, st.bc)
  <1>1. CASE is_first_chunk(apdu)
    <2>1. /\ st.bc = ZeroBoc
          /\ \A f \in Fields \ BufferFields :
               st.dc[f] = ReadHeader(apdu.header, TRUE).dc[f]
      BY <1>1, FirstIsRead
    <2>2. StringsZero(ReadHeader(apdu.header, TRUE).dc)
      BY ReadHeaderAside
    <2>3. s.header = apdu.header
      BY <1>1 DEF SessionWith
    <2>4. /\ st.dc.tx_address_str = Zero /\ st.dc.tx_amount_str = Zero
          /\ st.dc.tx_transaction_id_str = Zero
      BY <2>1, <2>2, SessionFields DEF StringsZero, StringFields
    <2> QED
      BY <2>1, <2>3, <2>4, SessionFields DEF Unreviewed
  <1>2. CASE ~is_first_chunk(apdu)
    <2>1. /\ s.header = sess.header /\ s.intact = sess.intact
      BY <1>2 DEF SessionWith, SessionInv, SigningInv, AppInv, TypeOK
    <2>2. PartReviewed(sess, Len(sess.items)) \/ Unreviewed(sess, dc, bc)
      BY <2>1 DEF SessionInv, SessionOpen
    <2>3. st.bc = bc /\ \A f \in Fields \ BufferFields : st.dc[f] = dc[f]
      BY <1>2, ExtensionSame DEF SessionInv, SigningInv
    <2>4. /\ st.dc.tx_address_str = dc.tx_address_str
          /\ st.dc.tx_amount_str = dc.tx_amount_str
          /\ st.dc.tx_transaction_id_str = dc.tx_transaction_id_str
      BY <2>3, SessionFields DEF StringFields
    <2>5. \A f \in SigningFields : st.dc[f] = dc[f]
      BY <2>3, SessionFields
    <2> QED
      BY <1>2, <2>1, <2>2, <2>3, <2>4, <2>5 DEF Unreviewed
  <1> QED
    BY <1>1, <1>2

-----------------------------------------------------------------------------
(***************************************************************************)
(* The review of a session no part of which was reviewed.                  *)
(***************************************************************************)
LEMMA SessionAlike ==
  ASSUME NEW st, DOMAIN st.dc = Fields, NEW s, s.header # None, Holds(st, s),
         NEW left, st.dc.tx_address_str = left, st.dc.tx_amount_str = left,
         st.dc.tx_transaction_id_str = Zero, s.header \in HeadersRead, NEW flag
  PROVE  Alike([st.dc EXCEPT !.tx_sign_with_chain_id = flag],
               SessionContext(s.header, s.items, left))
  <1> DEFINE start == ReadHeader(s.header, TRUE)
             c1    == [st.dc EXCEPT !.tx_sign_with_chain_id = flag]
             c2    == SessionContext(s.header, s.items, left)
  <1>1. start.err = SUCCESS
    BY DEF HeadersRead
  <1>2. /\ DOMAIN start.dc = Fields
        /\ \A f \in HeaderFields :
             start.dc[f] = Kept(s.header, OwnAddress(s.header))[f]
    BY <1>1, ReadHeaderLemma DEF NothingBuffered
  <1>3. StringsZero(start.dc)
    BY ReadHeaderAside
  <1> HIDE DEF start
  <1>4. \A f \in HeaderFields : st.dc[f] = start.dc[f]
    BY <1>2 DEF Holds
  <1>5. /\ \A f \in HeaderFields : c1[f] = st.dc[f]
        /\ c1.tx_data = s.items /\ c1.tx_address_str = left /\ c1.tx_amount_str = left
        /\ c1.tx_transaction_id_str = Zero
    BY FieldNames DEF HeaderFields, Holds
  <1>6. /\ \A f \in HeaderFields : c2[f] = start.dc[f]
        /\ c2.tx_data = s.items /\ c2.tx_address_str = left /\ c2.tx_amount_str = left
        /\ c2.tx_transaction_id_str = Zero
    BY <1>2, <1>3, FieldNames
       DEF SessionContext, HeaderFields, StringsZero, StringFields, start
  <1> HIDE DEF c1, c2
  <1>7. Alike(c1, c2)
    BY <1>4, <1>5, <1>6 DEF Alike, HeaderFields
  <1> QED
    BY <1>7 DEF c1, c2

\* An intact session is reviewed as it would be alone.
LEMMA ReviewsSession ==
  ASSUME NEW st, DOMAIN st.dc = Fields, BocTyped(st.bc), NEW s, s.header # None,
         Holds(st, s), s.header \in HeadersRead, Unreviewed(s, st.dc, st.bc),
         NEW flag \in BOOLEAN, st.dc.tx_sign_with_chain_id \in {flag, Junk},
         NEW r, r = prepare_to_sign(st.bc, [st.dc EXCEPT !.tx_sign_with_chain_id = flag]),
         ReviewError(r) = SUCCESS
  PROVE  Reviewing(s, Reviewed(st, flag, r), r.flow)
  <1>1. PICK left \in {Zero, Junk} :
          /\ st.dc.tx_address_str = left /\ st.dc.tx_amount_str = left
          /\ st.dc.tx_transaction_id_str = Zero
          /\ s.intact =>
               /\ left = Zero /\ st.bc = ZeroBoc
               /\ \A f \in SigningFields : st.dc[f] = ReadHeader(s.header, TRUE).dc[f]
    BY DEF Unreviewed
  <1> DEFINE ctx   == [st.dc EXCEPT !.tx_sign_with_chain_id = flag]
             alone == SessionContext(s.header, s.items, left)
             whole == SessionReview(s.header, s.items, left)
             d     == Reviewed(st, flag, r)
  <1>2. Alike(ctx, alone)
    BY <1>1, SessionAlike
  <1>3. r = prepare_to_sign(st.bc, ctx) /\ whole = prepare_to_sign(ZeroBoc, alone)
    BY DEF SessionReview
  <1>4. ASSUME s.intact
        PROVE  \A f \in SigningFields : ctx[f] = alone[f]
    <2> DEFINE start == ReadHeader(s.header, TRUE)
    <2>1. start.err = SUCCESS
      BY DEF HeadersRead
    <2>2. DOMAIN start.dc = Fields
      BY ReadHeaderLemma DEF NothingBuffered
    <2>3. start.dc.tx_sign_with_chain_id \in BOOLEAN
      <3>1. start.dc.tx_sign_with_chain_id = ("chain" \in s.header.flags)
        BY <2>1, ReadHeaderAside
      <3> HIDE DEF start
      <3> QED
        BY <3>1
    <2>4. \A f \in SigningFields : st.dc[f] = start.dc[f]
      BY <1>1, <1>4
    <2>5. alone = [start.dc EXCEPT !.tx_data = s.items, !.tx_address_str = left,
                                  !.tx_amount_str = left]
      BY DEF SessionContext
    <2> HIDE DEF start, alone
    <2>6. \A f \in SigningFields : alone[f] = start.dc[f]
      BY <2>2, <2>5, FieldNames DEF SigningFields
    <2>7. st.dc.tx_sign_with_chain_id = flag
      BY <2>3, <2>4, JunkAssumption DEF SigningFields
    <2>8. \A f \in SigningFields : ctx[f] = st.dc[f]
      BY <2>7, FieldNames DEF SigningFields
    <2> QED
      BY <2>4, <2>6, <2>8
  <1>5. SeenAlike(r, whole)
    <2>1. BocTyped(ZeroBoc)
      BY DEF BocTyped
    <2> HIDE DEF ctx, alone, whole
    <2> QED
      BY <1>2, <1>3, <2>1, PreparedSeen
  <1>6. s.intact => r = whole
    <2> HIDE DEF ctx, alone, whole
    <2> QED
      BY <1>1, <1>2, <1>3, <1>4, PreparedSame
  <1>7. d.tx_sign_with_chain_id = flag /\ d.tx_to_sign = r.to_sign
    BY ReviewedFlag
  <1>8. SignedBytes(d) = r.to_sign
    <2>1. ctx.tx_sign_with_chain_id = flag
      BY FieldNames
    <2>2. r.err = SUCCESS
      BY DEF ReviewError
    <2> HIDE DEF ctx, d
    <2>3. flag <=> Len(r.to_sign) = 2
      BY <1>3, <2>1, <2>2, PreparedParts
    <2> QED
      BY <1>7, <2>3 DEF SignedBytes
  <1>9. /\ d.tx_address_str = r.address_str /\ d.tx_amount_str = r.amount_str
        /\ d.tx_transaction_id_str = r.transaction_id_str
    BY FieldNames DEF Reviewed, Write
  <1> HIDE DEF ctx, alone, whole, d
  <1>10. /\ ReviewError(whole) = SUCCESS /\ r.flow = whole.flow
         /\ r.address_str = whole.address_str /\ r.amount_str = whole.amount_str
         /\ r.transaction_id_str = whole.transaction_id_str
    BY <1>5 DEF SeenAlike, ShownBy, ReviewError
  <1>11. Reviewing(s, d, r.flow)
    BY <1>1, <1>6, <1>8, <1>9, <1>10 DEF Reviewing, whole
  <1> QED
    BY <1>11 DEF d

-----------------------------------------------------------------------------
(***************************************************************************)
(* The actions.                                                            *)
(***************************************************************************)
SessionNext == BocWhole' /\ SessionOpen'

LEMMA StoppedSession == app' = "stopped" => SessionNext
  BY DEF SessionNext, BocWhole, SessionOpen

LEMMA ResetSession == reset_app_context => SessionNext
  BY DEF reset_app_context, SessionNext, BocWhole, SessionOpen, BocTyped, NoSession

LEMMA ReviewedSoFar ==
  ASSUME NEW s, NEW m \in Nat, NEW n \in Nat, m <= n, PartReviewed(s, m)
  PROVE  PartReviewed(s, n)
  BY DEF PartReviewed

\* A chunk that is not the last one.
LEMMA MoreSession ==
  ASSUME SessionInv, app = "running", ui = "menu", apdu \in Commands,
         apdu.ins = "SIGN_TRANSACTION", NEW st, ChunkTaken(st), BocTyped(st.bc),
         dc' = st.dc, bc' = st.bc, ui' = ui, sess' = SessionWith(sess, apdu)
  PROVE  SessionNext
  <1> DEFINE s == SessionWith(sess, apdu)
  <1>1. CASE s.header = None
    BY <1>1 DEF SessionNext, BocWhole, SessionOpen
  <1>2. CASE s.header # None
    <2>1. is_first_chunk(apdu) => apdu.header \in HeadersRead
      BY FirstIsRead
    <2>2. /\ WellOpened(s) /\ Len(s.items) \in Nat
          /\ ~is_first_chunk(apdu) /\ PartReviewed(sess, Len(sess.items)) =>
               /\ PartReviewed(s, Len(sess.items))
               /\ Len(sess.items) \in Nat /\ Len(sess.items) <= Len(s.items)
      BY <1>2, <2>1, SessionGrows
    <2>3. \/ ~is_first_chunk(apdu) /\ PartReviewed(sess, Len(sess.items))
          \/ Unreviewed(s, st.dc, st.bc)
      BY <1>2, StillUnreviewed
    <2> HIDE DEF s
    <2>4. PartReviewed(s, Len(s.items)) \/ Unreviewed(s, st.dc, st.bc)
      BY <2>2, <2>3, ReviewedSoFar
    <2>5. sess' = s
      BY DEF s
    <2> QED
      BY <2>2, <2>4, <2>5 DEF SessionNext, BocWhole, SessionOpen
  <1> QED
    BY <1>1, <1>2

\* The last chunk, and the review it opens.
LEMMA ShowSession ==
  ASSUME SessionInv, app = "running", ui = "menu", apdu \in Commands,
         apdu.ins = "SIGN_TRANSACTION", ~more(apdu), dispatch_error(apdu) = SUCCESS,
         NEW st, ChunkTaken(st), BocTyped(st.bc), Fits(st),
         Holds(st, SessionWith(sess, apdu)), st.dc.tx_data_offset > 0,
         NEW flag \in BOOLEAN, st.dc.tx_sign_with_chain_id \in {flag, Junk},
         NEW r, r = prepare_to_sign(st.bc, [st.dc EXCEPT !.tx_sign_with_chain_id = flag]),
         ReviewError(r) = SUCCESS,
         dc' = Reviewed(st, flag, r), bc' = r.bc, flow' = r.flow,
         ui' = "transaction", sess' = SessionWith(sess, apdu)
  PROVE  SessionNext
  <1> DEFINE s == SessionWith(sess, apdu)
  <1>1. BocTyped(r.bc)
    BY PreparedBoc
  <1>2. CASE s.header = None
    BY <1>1, <1>2 DEF SessionNext, BocWhole, SessionOpen
  <1>3. CASE s.header # None
    <2>1. is_first_chunk(apdu) => apdu.header \in HeadersRead
      BY FirstIsRead
    <2>2. WellOpened(s) /\ Len(s.items) \in Nat
      BY <1>3, <2>1, SessionGrows
    <2>3. s.items # << >>
      BY <2>2 DEF WellOpened, Holds
    <2>4. ~is_first_chunk(apdu) => apdu.block.len # 0
      <3>1. ASSUME ~is_first_chunk(apdu) PROVE apdu.lc # 0 /\ apdu.p2 \in {1, 3}
        <4>1. apdu.p2 \notin {0, 2}
          BY <3>1 DEF is_first_chunk
        <4>2. apdu.lc # 0 /\ apdu.p2 <= 3
          BY DEF dispatch_error, SUCCESS
        <4>3. apdu.p2 \in 0 .. 255
          BY ChunkAssumption
        <4> QED
          BY <4>1, <4>2, <4>3
      <3> QED
        BY <3>1, ChunkAssumption
    <2>5. ~is_first_chunk(apdu) /\ PartReviewed(sess, Len(sess.items)) =>
            /\ PartReviewed(s, Len(sess.items))
            /\ Len(sess.items) \in Nat /\ Len(sess.items) < Len(s.items)
      BY <1>3, <2>1, <2>4, SessionGrows
    <2>6. \/ ~is_first_chunk(apdu) /\ PartReviewed(sess, Len(sess.items))
          \/ Unreviewed(s, st.dc, st.bc)
      BY <1>3, StillUnreviewed
    <2> HIDE DEF s
    <2>7. CASE ~is_first_chunk(apdu) /\ PartReviewed(sess, Len(sess.items))
      <3>1. \A m, n \in Nat : m < n => n - 1 \in Nat /\ m <= n - 1
        OBVIOUS
      <3>2. PartReviewed(s, Len(s.items) - 1)
        BY <2>2, <2>5, <2>7, <3>1, ReviewedSoFar
      <3>3. sess' = s
        BY DEF s
      <3> QED
        BY <1>1, <2>2, <2>3, <3>2, <3>3 DEF SessionNext, BocWhole, SessionOpen
    <2>8. CASE Unreviewed(s, st.dc, st.bc)
      <3>1. s.header \in HeadersRead /\ DOMAIN st.dc = Fields /\ Holds(st, s)
        BY <2>2 DEF WellOpened, Fits, s
      <3>2. Reviewing(s, Reviewed(st, flag, r), r.flow)
        BY <1>3, <2>8, <3>1, ReviewsSession
      <3>3. sess' = s
        BY DEF s
      <3> QED
        BY <1>1, <2>2, <2>3, <3>2, <3>3 DEF SessionNext, BocWhole, SessionOpen
    <2> QED
      BY <2>6, <2>7, <2>8
  <1> QED
    BY <1>2, <1>3

LEMMA SignTransactionSession ==
  ASSUME SessionInv, NEW derived \in BOOLEAN, handleSignTransaction(derived)
  PROVE  SessionNext
  <1>1. /\ app = "running" /\ ui = "menu" /\ apdu \in Commands
        /\ apdu.ins = "SIGN_TRANSACTION" /\ dispatch_error(apdu) = SUCCESS
    BY DEF handleSignTransaction, Dispatched, Fresh, SessionInv, SigningInv, AppInv, TypeOK
  <1>2. PICK st : st = Chunk(apdu, derived) /\ AfterChunk(st)
    BY DEF handleSignTransaction
  <1>3. Fits(st) /\ (st.err = SUCCESS => Holds(st, SessionWith(sess, apdu)))
    <2>1. /\ apdu.block.len \in Nat
          /\ is_first_chunk(apdu) => apdu.header # None
      BY <1>1, AppAssumption DEF is_first_chunk
    <2> QED
      BY <1>1, <1>2, <2>1, ChunkLemma DEF SessionInv, SigningInv
  <1>4. st.err = SUCCESS => ChunkTaken(st)
    BY <1>2 DEF ChunkTaken
  <1>5. st.err = SUCCESS => BocTyped(st.bc)
    <2>1. CASE is_first_chunk(apdu)
      BY <1>1, <1>4, <2>1, FirstIsRead DEF BocTyped
    <2>2. CASE ~is_first_chunk(apdu)
      BY <1>1, <1>4, <2>2, ExtensionSame DEF SessionInv, SigningInv, BocWhole
    <2> QED
      BY <2>1, <2>2
  <1>6. CASE app' = "stopped"
    BY <1>6, StoppedSession
  <1>7. CASE /\ st.err = SUCCESS /\ dc' = st.dc /\ bc' = st.bc /\ ui' = ui
             /\ sess' = SessionWith(sess, apdu)
    BY <1>1, <1>4, <1>5, <1>7, MoreSession
  <1>8. ASSUME st.err = SUCCESS, ~more(apdu), st.dc.tx_data_offset > 0,
               NEW flag \in BOOLEAN, st.dc.tx_sign_with_chain_id \in {flag, Junk}, NEW r,
               r = prepare_to_sign(st.bc, [st.dc EXCEPT !.tx_sign_with_chain_id = flag]),
               ShowTransaction(st, flag, r)
        PROVE  SessionNext
    <2>1. \/ app' = "stopped"
          \/ /\ ReviewError(r) = SUCCESS /\ dc' = Reviewed(st, flag, r) /\ bc' = r.bc
             /\ flow' = r.flow /\ ui' = "transaction"
             /\ sess' = SessionWith(sess, apdu)
      BY <1>8 DEF ShowTransaction, Throw
    <2> QED
      BY <1>1, <1>3, <1>4, <1>5, <1>8, <2>1, ShowSession, StoppedSession
  <1>9. \/ app' = "stopped"
        \/ /\ st.err = SUCCESS /\ dc' = st.dc /\ bc' = st.bc /\ ui' = ui
           /\ sess' = SessionWith(sess, apdu)
        \/ /\ st.err = SUCCESS /\ ~more(apdu) /\ st.dc.tx_data_offset > 0
           /\ \E flag \in BOOLEAN :
                /\ st.dc.tx_sign_with_chain_id \in {flag, Junk}
                /\ \E r : /\ r = prepare_to_sign(st.bc, [st.dc EXCEPT
                                                  !.tx_sign_with_chain_id = flag])
                          /\ ShowTransaction(st, flag, r)
    BY <1>2, Zenon DEF AfterChunk, Throw
  <1> QED
    BY <1>6, <1>7, <1>8, <1>9

\* A step of another command: it may disturb the session, and what the review
\* of a disturbed session shows is at most what it leaves in two strings.
Disturbs ==
  /\ app = "running" /\ ui # "transaction" /\ ui' # "transaction"
  /\ BocTyped(bc')
  /\ sess' = sess \/ sess' = Disturbed(sess)
  /\ dc'.tx_transaction_id_str = dc.tx_transaction_id_str
  /\ \/ dc'.tx_address_str = dc.tx_address_str /\ dc'.tx_amount_str = dc.tx_amount_str
     \/ dc'.tx_address_str = Junk /\ dc'.tx_amount_str = Junk
  /\ sess'.intact => dc' = dc /\ bc' = bc

LEMMA DisturbsSession ==
  ASSUME SessionInv, Disturbs
  PROVE  SessionNext
  <1>1. /\ sess'.header = sess.header /\ sess'.items = sess.items
        /\ sess'.len = sess.len /\ (sess'.intact => sess.intact)
    BY DEF Disturbs, Disturbed
  <1>2. CASE sess.header = None
    BY <1>1, <1>2 DEF SessionNext, BocWhole, SessionOpen, Disturbs
  <1>3. CASE sess.header # None
    <2>1. /\ WellOpened(sess)
          /\ PartReviewed(sess, Len(sess.items)) \/ Unreviewed(sess, dc, bc)
      BY <1>3 DEF SessionInv, SessionOpen, Disturbs
    <2>2. WellOpened(sess') /\ (PartReviewed(sess, Len(sess.items)) =>
                                  PartReviewed(sess', Len(sess'.items)))
      BY <1>1, <2>1 DEF WellOpened, PartReviewed
    <2>3. CASE Unreviewed(sess, dc, bc)
      <3>1. CASE sess'.intact
        <4>1. dc' = dc /\ bc' = bc
          BY <3>1 DEF Disturbs
        <4>2. Unreviewed(sess', dc, bc)
          BY <1>1, <2>3 DEF Unreviewed
        <4> QED
          BY <2>2, <4>1, <4>2 DEF SessionNext, BocWhole, SessionOpen, Disturbs
      <3>2. CASE ~sess'.intact
        <4>1. Unreviewed(sess', dc', bc')
          BY <2>3, <3>2 DEF Unreviewed, Disturbs
        <4> QED
          BY <2>2, <4>1 DEF SessionNext, BocWhole, SessionOpen, Disturbs
      <3> QED
        BY <3>1, <3>2
    <2> QED
      BY <2>1, <2>2, <2>3 DEF SessionNext, BocWhole, SessionOpen, Disturbs
  <1> QED
    BY <1>2, <1>3

\* An action that leaves the contexts alone.
LEMMA SameSession ==
  ASSUME SessionInv, app = "running", ui # "transaction", ui' = ui, dc' = dc, bc' = bc,
         sess' = sess
  PROVE  SessionNext
  BY DisturbsSession DEF Disturbs, SessionInv, BocWhole

LEMMA PublicKeySession ==
  ASSUME SessionInv, NEW derived \in BOOLEAN, handleGetPublicKey(derived)
  PROVE  SessionNext
  <1> DEFINE key == PublicKey(apdu.account)
             w   == [pk_public_key |-> key, pk_public_key_str |-> <<"hex", key>>]
  <1>1. app = "running" /\ ui = "menu"
    BY DEF handleGetPublicKey, Dispatched, Fresh
  <1>2. CASE UNCHANGED <<ui, dc, bc, sess>>
    BY <1>1, <1>2, SameSession
  <1>3. CASE dc' = Write(dc, w) /\ sess' = Disturbed(sess) /\ ui' = "pubkey" /\ bc' = bc
    <2>1. DOMAIN w \subseteq AsideFields
      BY DEF AsideFields
    <2> HIDE DEF w
    <2>2. \A f \in StringFields : dc'[f] = dc[f]
      BY <1>3, <2>1, WriteAside
    <2>3. Disturbs
      BY <1>1, <1>3, <2>2 DEF Disturbs, StringFields, Disturbed, SessionInv, BocWhole
    <2> QED
      BY <2>3, DisturbsSession
  <1>4. \/ UNCHANGED <<ui, dc, bc, sess>>
        \/ reset_app_context
        \/ dc' = Write(dc, w) /\ sess' = Disturbed(sess) /\ ui' = "pubkey" /\ bc' = bc
    BY DEF handleGetPublicKey, helper_send_response
  <1> QED
    BY <1>2, <1>3, <1>4, ResetSession

LEMMA AddressSession ==
  ASSUME SessionInv, NEW derived \in BOOLEAN, handleGetAddress(derived)
  PROVE  SessionNext
  <1>1. app = "running" /\ ui = "menu"
    BY DEF handleGetAddress, Dispatched, Fresh
  <1> DEFINE found == get_address(bc, apdu.account, apdu.wallet, derived)
             left  == KeyLeft(dc, found, apdu.account)
             key   == [pk_public_key |-> PublicKey(apdu.account)]
             w     == [addr_address |-> found.address,
                       addr_address_str |-> <<"hex", found.address>>]
  <1>2. AddressFound(found, left)
    BY DEF handleGetAddress
  <1>3. BocTyped(found.bc)
    BY <1>1, AddressBoc DEF SessionInv, BocWhole
  <1>4. DOMAIN key \subseteq AsideFields /\ DOMAIN w \subseteq AsideFields
    BY DEF AsideFields
  <1>5. \/ app' = "stopped"
        \/ reset_app_context
        \/ /\ dc' = Write(left, w) /\ bc' = found.bc /\ sess' = Disturbed(sess)
           /\ ui' = "address"
    BY <1>2 DEF AddressFound, Throw, helper_send_response
  <1> HIDE DEF found, key
  <1>6. \A f \in StringFields : left[f] = dc[f]
    BY <1>4, WriteAside DEF KeyLeft, key
  <1> HIDE DEF left, w
  <1>7. CASE /\ dc' = Write(left, w) /\ bc' = found.bc /\ sess' = Disturbed(sess)
             /\ ui' = "address"
    <2>1. \A f \in StringFields : dc'[f] = dc[f]
      BY <1>4, <1>6, <1>7, WriteAside
    <2>2. Disturbs
      BY <1>1, <1>3, <1>7, <2>1 DEF Disturbs, StringFields, Disturbed
    <2> QED
      BY <2>2, DisturbsSession
  <1> QED
    BY <1>5, <1>7, StoppedSession, ResetSession

LEMMA SignSession ==
  ASSUME SessionInv, handleSign
  PROVE  SessionNext
  <1> DEFINE v       == [sign_account_number |-> apdu.account]
             account == Write(dc, v)
             bytes   == <<SIGN_MAGIC, apdu.payload>>
             w       == [sign_to_sign |-> bytes, sign_to_sign_str |-> <<"hex", bytes>>]
  <1>1. app = "running" /\ ui = "menu"
    BY DEF handleSign, Dispatched, Fresh
  <1>2. \/ app' = "stopped"
        \/ /\ dc' = Write(account, w) /\ sess' = Disturbed(sess) /\ ui' = "message"
           /\ bc' = bc
    BY DEF handleSign, Throw
  <1>3. CASE /\ dc' = Write(account, w) /\ sess' = Disturbed(sess) /\ ui' = "message"
             /\ bc' = bc
    <2>1. /\ Overlap("tx_address_str", "sign_to_sign_str")
          /\ Overlap("tx_amount_str", "sign_to_sign_str")
          /\ ~Overlap("tx_transaction_id_str", "sign_to_sign_str")
          /\ ~Overlap("tx_transaction_id_str", "sign_to_sign")
          /\ ~Overlap("tx_transaction_id_str", "sign_account_number")
      BY DEF Overlap, Layout
    <2>2. account.tx_transaction_id_str = dc.tx_transaction_id_str
      BY <2>1, FieldNames DEF Write
    <2> HIDE DEF account
    <2>3. /\ dc'.tx_address_str = Junk /\ dc'.tx_amount_str = Junk
          /\ dc'.tx_transaction_id_str = account.tx_transaction_id_str
      BY <1>3, <2>1, FieldNames DEF Write
    <2>4. Disturbs
      BY <1>1, <1>3, <2>2, <2>3 DEF Disturbs, Disturbed, SessionInv, BocWhole
    <2> QED
      BY <2>4, DisturbsSession
  <1> QED
    BY <1>2, <1>3, StoppedSession

\* The decision on a review: that of a transaction leaves its session reviewed.
LEMMA DecidedSession ==
  ASSUME SessionInv, Decide("transaction"), NEW choice \in BOOLEAN, NEW signed \in BOOLEAN,
         validate_transaction(choice, signed)
  PROVE  SessionNext
  <1>1. app = "running" /\ ui = "transaction" /\ ui' = "menu" /\ sess' = sess /\ bc' = bc
    BY DEF Decide, validate_transaction, Reject
  <1>2. CASE sess.header = None
    BY <1>1, <1>2 DEF SessionNext, BocWhole, SessionOpen, SessionInv
  <1>3. CASE sess.header # None
    <2>1. /\ WellOpened(sess) /\ sess.items # << >>
          /\ PartReviewed(sess, Len(sess.items) - 1) \/ Reviewing(sess, dc, flow)
      BY <1>1, <1>3 DEF SessionInv, SessionOpen
    <2>2. Len(sess.items) \in Nat /\ Len(sess.items) > 0
      BY <2>1, NotEmpty DEF WellOpened, IsSequence
    <2>3. CASE PartReviewed(sess, Len(sess.items) - 1)
      <3>1. \A n \in Nat : n > 0 => n - 1 \in Nat /\ n - 1 <= n
        OBVIOUS
      <3>2. Len(sess.items) - 1 \in Nat /\ Len(sess.items) - 1 <= Len(sess.items)
        BY <2>2, <3>1
      <3>3. PartReviewed(sess, Len(sess.items))
        BY <2>2, <2>3, <3>2, ReviewedSoFar
      <3> QED
        BY <1>1, <2>1, <3>3 DEF SessionNext, BocWhole, SessionOpen, SessionInv
    <2>4. CASE Reviewing(sess, dc, flow)
      <3>1. IsReviewed(sess.header, sess.items)
        BY <2>4 DEF Reviewing, IsReviewed
      <3>2. SubSeq(sess.items, 1, Len(sess.items)) = sess.items
        BY <2>1, AllOfIt DEF WellOpened
      <3>3. IsReviewed(sess.header, SubSeq(sess.items, 1, Len(sess.items)))
        BY <3>1, <3>2
      <3>4. Len(sess.items) \in 1 .. Len(sess.items)
        BY <2>2
      <3>5. PartReviewed(sess, Len(sess.items))
        BY <3>3, <3>4 DEF PartReviewed
      <3> QED
        BY <1>1, <2>1, <3>5 DEF SessionNext, BocWhole, SessionOpen, SessionInv
    <2> QED
      BY <2>1, <2>3, <2>4
  <1> QED
    BY <1>2, <1>3

LEMMA MessageDecidedSession ==
  ASSUME SessionInv, Decide("message"), NEW choice \in BOOLEAN, NEW signed \in BOOLEAN,
         validate_message(choice, signed)
  PROVE  SessionNext
  <1>1. app = "running" /\ ui = "message" /\ ui' = "menu" /\ bc' = bc
    BY DEF Decide, validate_message, Reject
  <1>2. \/ dc' = dc /\ sess' = sess
        \/ dc' = dc /\ sess' = Disturbed(sess)
        \/ sess' = Disturbed(sess) /\ \E s : dc' = Write(dc, [sign_signature |-> s])
    BY DEF validate_message, Reject
  <1>3. ASSUME NEW s, dc' = Write(dc, [sign_signature |-> s])
        PROVE  \A f \in StringFields : dc'[f] = dc[f]
    <2>1. DOMAIN [sign_signature |-> s] \subseteq AsideFields
      BY DEF AsideFields
    <2> QED
      BY <1>3, <2>1, WriteAside
  <1>4. /\ sess' = sess \/ sess' = Disturbed(sess)
        /\ sess'.intact => dc' = dc /\ bc' = bc
    BY <1>1, <1>2 DEF Disturbed
  <1>5. \A f \in StringFields : dc'[f] = dc[f]
    BY <1>2, <1>3
  <1>6. Disturbs
    BY <1>1, <1>4, <1>5 DEF Disturbs, StringFields, SessionInv, BocWhole
  <1> QED
    BY <1>6, DisturbsSession

LEMMA KeyDecidedSession ==
  ASSUME SessionInv, NEW choice \in BOOLEAN,
         \/ Decide("pubkey") /\ validate_pubkey(choice)
         \/ Decide("address") /\ validate_address(choice)
  PROVE  SessionNext
  <1>1. app = "running" /\ ui # "transaction" /\ ui' = "menu"
    BY DEF Decide
  <1>2. reset_app_context \/ UNCHANGED <<dc, bc, sess>>
    BY DEF validate_pubkey, validate_address, helper_send_response, Reject
  <1>3. CASE UNCHANGED <<dc, bc, sess>>
    BY <1>1, <1>3, DisturbsSession DEF Disturbs, SessionInv, BocWhole
  <1> QED
    BY <1>2, <1>3, ResetSession

LEMMA ReceiveSession ==
  ASSUME SessionInv, NEW c \in Commands, Receive(c)
  PROVE  SessionNext
  <1>1. app = "running" /\ ui = "menu" /\ UNCHANGED <<ui, dc, bc, sess>>
    BY DEF Receive, SessionInv, SigningInv, AnswerOwed
  <1> QED
    BY <1>1, SameSession

LEMMA InitSession == Init => SessionInv
  <1>1. Init => BocWhole /\ SessionOpen
    BY DEF Init, BocWhole, SessionOpen, BocTyped, NoSession
  <1> QED
    BY <1>1, InitSigning DEF SessionInv

LEMMA NextSession == SessionInv /\ [Next]_vars => SessionInv'
  <1> SUFFICES ASSUME SessionInv, [Next]_vars PROVE SessionNext
    BY NextSigning DEF SessionInv, SessionNext
  <1>1. CASE \E c \in Commands : Receive(c)
    BY <1>1, ReceiveSession
  <1>2. CASE Refuse \/ handleGetAppConfiguration
    <2>1. app = "running" /\ ui = "menu" /\ UNCHANGED <<ui, dc, bc, sess>>
      BY <1>2 DEF Refuse, handleGetAppConfiguration, Dispatched, Fresh
    <2> QED
      BY <2>1, SameSession
  <1>3. CASE handleSign
    BY <1>3, SignSession
  <1>4. CASE \E derived \in BOOLEAN : \/ handleGetPublicKey(derived)
                                     \/ handleGetAddress(derived)
                                     \/ handleSignTransaction(derived)
    BY <1>4, PublicKeySession, AddressSession, SignTransactionSession
  <1>5. CASE UserDecides
    BY <1>5, KeyDecidedSession, MessageDecidedSession, DecidedSession DEF UserDecides
  <1>6. CASE Quit \/ ReceiveFails
    BY <1>6, StoppedSession DEF Quit, ReceiveFails, Stop
  <1>7. CASE app_main
    BY <1>7, ResetSession DEF app_main
  <1>8. CASE UNCHANGED vars
    BY <1>8 DEF vars, SessionInv, SessionNext, BocWhole, SessionOpen
  <1> QED
    BY <1>1, <1>2, <1>3, <1>4, <1>5, <1>6, <1>7, <1>8 DEF Next, Handle

LEMMA SessionAlways == Spec => []SessionInv
  BY InitSession, NextSession, PTL DEF Spec

-----------------------------------------------------------------------------
(***************************************************************************)
(* A review shows what its own session holds.                              *)
(***************************************************************************)
LEMMA SessionShown ==
  ASSUME SessionInv, app = "running", ui = "transaction", sess.header # None,
         ~ReviewedBefore
  PROVE  /\ sess.header \in HeadersRead
         /\ \E left \in {Zero, Junk} :
              \E r \in {SessionReview(sess.header, sess.items, left)} :
                /\ ReviewError(r) = SUCCESS /\ OnScreen = ShownBy(r)
                /\ sess.intact => left = Zero /\ SignedBytes(dc) = r.to_sign
  <1>1. sess.header \in HeadersRead
    BY DEF SessionInv, SessionOpen, WellOpened
  <1>2. Reviewing(sess, dc, flow)
    BY DEF SessionInv, SessionOpen, ReviewedBefore, PartReviewed
  <1> QED
    BY <1>1, <1>2 DEF Reviewing, OnScreen, ShownBy

\* A review of a transaction is what a device that was just started would show
\* of the one message the chunks add up to, and an undisturbed one signs what
\* that device would sign - for every set of commands, of any lengths, cut and
\* interleaved in any way (sign_transaction.c, message.c).
THEOREM ReviewAlwaysSession == Spec => []ReviewIsSession
  <1>1. SessionInv => ReviewIsSession
    BY SessionShown DEF ReviewIsSession
  <1> QED
    BY <1>1, SessionAlways, PTL

-----------------------------------------------------------------------------
(***************************************************************************)
(* Trees of cells.  The loop which hashes the cells of a bag from the last *)
(* to the first computes the hash of the tree, defined by recursion from   *)
(* the root, for every bag of cells.                                       *)
(***************************************************************************)

(***************************************************************************)
(* The depth of a cell: one more than the greatest depth of its children.  *)
(***************************************************************************)
Above(d, refs, depths) ==
  /\ \A c \in 1 .. Len(refs) : depths[refs[c]] + 1 <= d
  /\ d = 0 \/ \E c \in 1 .. Len(refs) : d = depths[refs[c]] + 1

\* It is raised child by child.
ChildDepths(b, i, n, child) ==
  /\ n \in Nat /\ Len(b.cells[i + 1].refs) = n
  /\ b.cell_depth[i] = 0
  /\ \A c \in 1 .. n : child[c] \in Nat /\ child[c] <= 254
  /\ \A c \in 1 .. n : b.cell_depth[b.cells[i + 1].refs[c]] = child[c]

RaisedBy(r, n, child) ==
  /\ r[0] = 0
  /\ \A c \in 1 .. n : r[c] = Raise(r[c - 1], child[c])

LEMMA RaisedByChild ==
  ASSUME NEW b, NEW i, NEW n, NEW child, ChildDepths(b, i, n, child)
  PROVE  \E r : RaisedBy(r, n, child) /\ RaisedDepth(b, i) = r[n]
  <1> USE DEF ChildDepths, RaisedBy
  <1> DEFINE IsRaised(r) == r = [c \in 0 .. n |-> IF c = 0 THEN 0 ELSE
                                    Raise(r[c - 1], b.cell_depth[b.cells[i + 1].refs[c]])]
  <1>1. RaisedDepth(b, i) = (CHOOSE r : IsRaised(r))[n]
    BY DEF RaisedDepth
  <1>2. \E f : IsRaised(f)
    <2> DEFINE step == [c \in 1 .. n |-> [v \in Nat |-> Raise(v, child[c])]]
    <2>1. \A v \in Nat, c \in 1 .. n : Raise(v, child[c]) \in Nat
      BY DEF Raise
    <2>2. step \in [1 .. n -> [Nat -> Nat]]
      BY <2>1
    <2>3. \A v \in Nat, c \in 1 .. n : step[c][v] = Raise(v, child[c])
      OBVIOUS
    <2> HIDE DEF step
    <2>4. PICK f : Iterated(f, Nat, n, 0, step)
      <3>1. 0 \in Nat
        OBVIOUS
      <3> QED
        BY <2>2, <3>1, Iterates, Zenon
    <2>5. ASSUME NEW c \in 0 .. n, c # 0
          PROVE  f[c] = Raise(f[c - 1], b.cell_depth[b.cells[i + 1].refs[c]])
      <3>1. c \in 1 .. n /\ c - 1 \in 0 .. n
        BY <2>5
      <3>2. f[c - 1] \in Nat
        BY <2>4, <3>1 DEF Iterated
      <3>3. f[c] = step[c][f[c - 1]]
        BY <2>4, <3>1 DEF Iterated
      <3> QED
        BY <2>3, <3>1, <3>2, <3>3
    <2>6. f \in [0 .. n -> Nat] /\ f[0] = 0
      BY <2>4 DEF Iterated
    <2>7. IsRaised(f)
      BY <2>5, <2>6
    <2> QED
      BY <2>7
  <1>3. PICK r : IsRaised(r) /\ r = CHOOSE g : IsRaised(g)
    <2> HIDE DEF IsRaised
    <2> QED
      BY <1>2
  <1>4. r[0] = 0 /\ \A c \in 1 .. n : r[c] = Raise(r[c - 1], child[c])
    <2>1. r = [c \in 0 .. n |-> IF c = 0 THEN 0 ELSE
                 Raise(r[c - 1], b.cell_depth[b.cells[i + 1].refs[c]])]
      BY <1>3
    <2>2. ASSUME NEW c \in 1 .. n
          PROVE  r[c] = Raise(r[c - 1], child[c])
      <3>1. c \in 0 .. n /\ c # 0
        OBVIOUS
      <3>2. r[c] = Raise(r[c - 1], b.cell_depth[b.cells[i + 1].refs[c]])
        BY <2>1, <3>1
      <3> QED
        BY <3>2
    <2>3. 0 \in 0 .. n
      OBVIOUS
    <2>4. r[0] = 0
      BY <2>1, <2>3
    <2> QED
      BY <2>2, <2>4
  <1> HIDE DEF IsRaised
  <1> QED
    BY <1>1, <1>3, <1>4

\* From zero, to just above the greatest.
LEMMA RaisedIs ==
  ASSUME NEW n \in Nat, NEW child, \A c \in 1 .. n : child[c] \in Nat /\ child[c] <= 254,
         NEW r, RaisedBy(r, n, child),
         NEW d \in Nat, \A c \in 1 .. n : child[c] + 1 <= d,
         d = 0 \/ \E c \in 1 .. n : d = child[c] + 1
  PROVE  r[n] = d
  <1> USE DEF RaisedBy
  <1> DEFINE Reached(k) == /\ r[k] \in Nat
                           /\ \A c \in 1 .. k : child[c] + 1 <= r[k]
                           /\ r[k] = 0 \/ \E c \in 1 .. k : r[k] = child[c] + 1
             T == {k \in Nat : k <= n => Reached(k)}
  <1>1. 0 \in T
    OBVIOUS
  <1>2. ASSUME NEW k \in Nat, k \in T
        PROVE  k + 1 \in T
    <2> SUFFICES ASSUME k + 1 <= n PROVE Reached(k + 1)
      OBVIOUS
    <2>1. Reached(k)
      BY <1>2
    <2>2. k + 1 \in 1 .. n /\ (k + 1) - 1 = k
      OBVIOUS
    <2>3. child[k + 1] \in Nat /\ child[k + 1] <= 254
      BY <2>2
    <2>4. r[k + 1] = IF r[k] > child[k + 1] + 1 THEN r[k] ELSE child[k + 1] + 1
      BY <2>2, <2>3 DEF Raise
    <2>5. \A c \in 1 .. k : child[c] \in Nat
      BY <2>2
    <2> QED
      BY <2>1, <2>3, <2>4, <2>5
  <1>3. T = Nat
    <2>1. T \in SUBSET Nat
      OBVIOUS
    <2> HIDE DEF T
    <2> QED
      BY <1>1, <1>2, <2>1, EveryCount
  <1>4. Reached(n)
    BY <1>3
  <1>5. \A c \in 1 .. n : child[c] \in Nat
    OBVIOUS
  <1> HIDE DEF T
  <1> QED
    BY <1>4, <1>5

-----------------------------------------------------------------------------
(***************************************************************************)
(* The loop.  depths and hashes are those of a tree of which b holds the   *)
(* cells up to last (IsTree), and from cell i on the loop has found them   *)
(* (Stage).                                                                *)
(***************************************************************************)
IsTree(b, last, depths, hashes) ==
  \A i \in 0 .. last :
    LET cell == b.cells[i + 1]
    IN  /\ cell.type # "pruned" /\ Len(cell.refs) \in Nat
        /\ \A c \in 1 .. Len(cell.refs) : cell.refs[c] \in i + 1 .. MAX_CONTRACT_CELLS_COUNT - 1
        /\ \A c \in 1 .. Len(cell.refs) :
              depths[cell.refs[c]] \in Nat /\ depths[cell.refs[c]] <= 254
        /\ depths[i] \in Nat /\ Above(depths[i], cell.refs, depths)
        /\ hashes[i] = Sha256(HashedData(b, i),
                              [c \in 1 .. Len(cell.refs) |-> depths[cell.refs[c]]],
                              [c \in 1 .. Len(cell.refs) |-> hashes[cell.refs[c]]])

Stage(x, b, i, depths, hashes) ==
  /\ DOMAIN x = DOMAIN ZeroBoc
  /\ DOMAIN x.hashes = CellIndex /\ DOMAIN x.cell_depth = CellIndex
  /\ x.cells = b.cells /\ x.public_key_cell_data = b.public_key_cell_data
  /\ x.public_key_cell_index = b.public_key_cell_index
  /\ \A j \in CellIndex :
        IF j >= i THEN x.hashes[j] = hashes[j] /\ x.cell_depth[j] = depths[j]
        ELSE x.cell_depth[j] = 0

LEMMA StageStep ==
  ASSUME NEW b, NEW last \in CellIndex, NEW depths, NEW hashes,
         IsTree(b, last, depths, hashes),
         NEW i \in 0 .. last, NEW x, Stage(x, b, i + 1, depths, hashes)
  PROVE  Stage(calc_cell_hash(x, i), b, i, depths, hashes)
  <1> DEFINE cell == b.cells[i + 1]
             n == Len(cell.refs)
             child == [c \in 1 .. n |-> depths[cell.refs[c]]]
             kids == [c \in 1 .. n |-> hashes[cell.refs[c]]]
             hash == Sha256(HashedData(x, i),
                            [c \in 1 .. n |-> x.cell_depth[cell.refs[c]]],
                            [c \in 1 .. n |-> x.hashes[cell.refs[c]]])
  <1>1. /\ cell.type # "pruned" /\ n \in Nat
        /\ \A c \in 1 .. n : cell.refs[c] \in i + 1 .. 15
        /\ \A c \in 1 .. n : depths[cell.refs[c]] \in Nat /\ depths[cell.refs[c]] <= 254
        /\ depths[i] \in Nat /\ Above(depths[i], cell.refs, depths)
        /\ hashes[i] = Sha256(HashedData(b, i), child, kids)
    <2>1. MAX_CONTRACT_CELLS_COUNT - 1 = 15
      BY DEF MAX_CONTRACT_CELLS_COUNT
    <2> QED
      BY <2>1, Zenon DEF IsTree
  <1>2. i \in CellIndex /\ ~(i >= i + 1) /\ CellIndex = 0 .. 15
    BY DEF CellIndex, MAX_CONTRACT_CELLS_COUNT
  <1>3. x.cells[i + 1] = cell /\ x.cell_depth[i] = 0
    BY <1>2 DEF Stage
  <1>4. \A c \in 1 .. n : /\ x.cell_depth[cell.refs[c]] = depths[cell.refs[c]]
                         /\ x.hashes[cell.refs[c]] = hashes[cell.refs[c]]
    <2> SUFFICES ASSUME NEW c \in 1 .. n
                 PROVE  /\ x.cell_depth[cell.refs[c]] = depths[cell.refs[c]]
                        /\ x.hashes[cell.refs[c]] = hashes[cell.refs[c]]
      OBVIOUS
    <2> DEFINE j == cell.refs[c]
    <2>1. j \in i + 1 .. 15
      BY <1>1
    <2> HIDE DEF j, cell
    <2>2. j \in CellIndex /\ j >= i + 1
      BY <1>2, <2>1
    <2>3. x.cell_depth[j] = depths[j] /\ x.hashes[j] = hashes[j]
      BY <2>2 DEF Stage
    <2> QED
      BY <2>3 DEF j
  <1>5. RaisedDepth(x, i) = depths[i]
    <2>1. ChildDepths(x, i, n, child)
      <3>1. \A c \in 1 .. n : child[c] = depths[cell.refs[c]]
        OBVIOUS
      <3>2. Len(x.cells[i + 1].refs) = n
        BY <1>3
      <3>3. \A c \in 1 .. n : x.cell_depth[x.cells[i + 1].refs[c]] = child[c]
        <4> SUFFICES ASSUME NEW c \in 1 .. n
                     PROVE  x.cell_depth[x.cells[i + 1].refs[c]] = child[c]
          OBVIOUS
        <4>1. x.cell_depth[cell.refs[c]] = depths[cell.refs[c]]
          BY <1>4
        <4>2. child[c] = depths[cell.refs[c]]
          BY <3>1
        <4> HIDE DEF child, cell, n
        <4> QED
          BY <1>3, <4>1, <4>2
      <3>4. n \in Nat /\ \A c \in 1 .. n : child[c] \in Nat /\ child[c] <= 254
        BY <1>1, <3>1
      <3> HIDE DEF child, n, cell
      <3> QED
        BY <1>3, <3>2, <3>3, <3>4 DEF ChildDepths
    <2>2. /\ \A c \in 1 .. n : child[c] + 1 <= depths[i]
          /\ depths[i] = 0 \/ \E c \in 1 .. n : depths[i] = child[c] + 1
      BY <1>1 DEF Above
    <2>3. n \in Nat /\ depths[i] \in Nat /\ \A c \in 1 .. n : child[c] \in Nat /\ child[c] <= 254
      BY <1>1
    <2> HIDE DEF child, n, cell
    <2>4. PICK r : RaisedBy(r, n, child) /\ RaisedDepth(x, i) = r[n]
      BY <2>1, RaisedByChild
    <2> QED
      BY <2>2, <2>3, <2>4, RaisedIs
  <1>6. HashedData(x, i) = HashedData(b, i)
    BY DEF Stage, HashedData
  <1>7. hash = hashes[i]
    <2>1. [c \in 1 .. n |-> x.cell_depth[cell.refs[c]]] = child
      BY <1>4
    <2>2. [c \in 1 .. n |-> x.hashes[cell.refs[c]]] = kids
      BY <1>4
    <2> QED
      BY <1>1, <1>6, <2>1, <2>2
  <1>8. calc_cell_hash(x, i) =
          [x EXCEPT !.cell_depth[i] = RaisedDepth(x, i), !.hashes[i] = hash]
    BY <1>1, <1>3 DEF calc_cell_hash
  <1> HIDE DEF hash, cell, child, kids
  <1> DEFINE y == [x EXCEPT !.cell_depth[i] = depths[i], !.hashes[i] = hashes[i]]
  <1>9. calc_cell_hash(x, i) = y
    BY <1>5, <1>7, <1>8
  <1>10. /\ DOMAIN y = DOMAIN ZeroBoc
         /\ y.cells = x.cells /\ y.public_key_cell_data = x.public_key_cell_data
         /\ y.public_key_cell_index = x.public_key_cell_index
         /\ y.hashes = [x.hashes EXCEPT ![i] = hashes[i]]
         /\ y.cell_depth = [x.cell_depth EXCEPT ![i] = depths[i]]
    BY DEF Stage, ZeroBoc
  <1> HIDE DEF y
  <1>11. ASSUME NEW j \in CellIndex
         PROVE  IF j >= i THEN y.hashes[j] = hashes[j] /\ y.cell_depth[j] = depths[j]
                ELSE y.cell_depth[j] = 0
    <2>1. DOMAIN x.hashes = CellIndex /\ DOMAIN x.cell_depth = CellIndex
      BY DEF Stage
    <2>2. CASE j = i
      BY <1>2, <1>10, <2>1, <2>2
    <2>3. CASE j # i
      <3>1. y.hashes[j] = x.hashes[j] /\ y.cell_depth[j] = x.cell_depth[j]
        BY <1>10, <2>1, <2>3
      <3>2. j >= i <=> j >= i + 1
        BY <1>2, <2>3
      <3> QED
        BY <3>1, <3>2 DEF Stage
    <2> QED
      BY <2>2, <2>3
  <1>12. Stage(y, b, i, depths, hashes)
    BY <1>10, <1>11 DEF Stage
  <1> QED
    BY <1>9, <1>12

LEMMA HashLoop ==
  ASSUME NEW b, NEW last \in CellIndex, NEW depths, NEW hashes,
         IsTree(b, last, depths, hashes), Stage(b, b, last + 1, depths, hashes)
  PROVE  /\ HashCells(b, last).err = SUCCESS
         /\ HashCells(b, last).bc.hashes[0] = hashes[0]
  <1> DEFINE IsDone(f, m) == f = [k \in 0 .. m |-> IF k = 0 THEN b
                                 ELSE calc_cell_hash(f[k - 1], last + 1 - k)]
             done == CHOOSE f : IsDone(f, last + 1)
             T == {m \in Nat : \E f : IsDone(f, m)}
             S == {m \in Nat : m <= last + 1 =>
                     Stage(done[m], b, last + 1 - m, depths, hashes)}
  <1>1. last \in Nat /\ last <= 15
    BY DEF CellIndex, MAX_CONTRACT_CELLS_COUNT
  <1>2. /\ HashCells(b, last).bc =
             [b EXCEPT !.hashes = done[last + 1].hashes, !.cell_depth = done[last + 1].cell_depth]
        /\ HashCells(b, last).err =
             IF \E i \in 0 .. last :
                    /\ b.cells[i + 1].type # "pruned"
                    /\ \E r \in 1 .. Len(b.cells[i + 1].refs) :
                          b.cells[i + 1].refs[r] >= MAX_CONTRACT_CELLS_COUNT
               THEN "ERR_INVALID_CELL" ELSE SUCCESS
    BY Zenon DEF HashCells
  <1>3. 0 \in T
    <2> DEFINE f == [k \in 0 .. 0 |-> b]
    <2>1. f = [k \in 0 .. 0 |-> IF k = 0 THEN b ELSE calc_cell_hash(f[k - 1], last + 1 - k)]
      OBVIOUS
    <2> QED
      BY <2>1
  <1>4. ASSUME NEW m \in Nat, m \in T
        PROVE  m + 1 \in T
    <2>1. PICK f : IsDone(f, m)
      BY <1>4
    <2> DEFINE next == calc_cell_hash(f[m], last - m)
               g == [k \in 0 .. m + 1 |-> IF k = m + 1 THEN next ELSE f[k]]
    <2> HIDE DEF next
    <2>2. ASSUME NEW k \in 0 .. m + 1
          PROVE  g[k] = IF k = 0 THEN b ELSE calc_cell_hash(g[k - 1], last + 1 - k)
      <3>1. CASE k = 0
        <4>1. 0 \in 0 .. m /\ 0 # m + 1
          OBVIOUS
        <4>2. f[0] = b
          BY <2>1, <4>1
        <4> QED
          BY <3>1, <4>1, <4>2
      <3>2. CASE k = m + 1
        <4>1. /\ k - 1 = m /\ m \in 0 .. m + 1 /\ m # m + 1 /\ k # 0
              /\ last + 1 - k = last - m
          BY <1>1, <3>2
        <4>2. g[k - 1] = f[m] /\ g[k] = next
          BY <3>2, <4>1
        <4> QED
          BY <4>1, <4>2 DEF next
      <3>3. CASE k # 0 /\ k # m + 1
        <4>1. k \in 0 .. m /\ k - 1 \in 0 .. m + 1 /\ k - 1 # m + 1
          BY <3>3
        <4>2. g[k - 1] = f[k - 1] /\ g[k] = f[k]
          BY <3>3, <4>1
        <4>3. f[k] = calc_cell_hash(f[k - 1], last + 1 - k)
          BY <2>1, <3>3, <4>1
        <4> QED
          BY <3>3, <4>2, <4>3
      <3> QED
        BY <3>1, <3>2, <3>3
    <2>3. g = [k \in 0 .. m + 1 |-> g[k]]
      OBVIOUS
    <2> HIDE DEF g
    <2>4. IsDone(g, m + 1)
      BY <2>2, <2>3
    <2> QED
      BY <2>4
  <1>5. last + 1 \in T
    <2>1. T \in SUBSET Nat
      OBVIOUS
    <2> HIDE DEF T
    <2>2. T = Nat
      BY <1>3, <1>4, <2>1, EveryCount
    <2> QED
      BY <1>1, <2>2
  <1>6. IsDone(done, last + 1)
    <2> HIDE DEF IsDone
    <2> QED
      BY <1>5
  <1> HIDE DEF done, T
  <1>7. 0 \in S
    <2>1. 0 \in 0 .. last + 1 /\ last + 1 - 0 = last + 1
      BY <1>1
    <2>2. done[0] = b
      BY <1>6, <2>1
    <2> QED
      BY <2>1, <2>2
  <1>8. ASSUME NEW m \in Nat, m \in S
        PROVE  m + 1 \in S
    <2> SUFFICES ASSUME m + 1 <= last + 1
                 PROVE  Stage(done[m + 1], b, last + 1 - (m + 1), depths, hashes)
      OBVIOUS
    <2> DEFINE i == last - m
    <2>1. /\ m + 1 \in 0 .. last + 1 /\ m + 1 # 0 /\ (m + 1) - 1 = m
          /\ last + 1 - (m + 1) = i /\ last + 1 - m = i + 1
          /\ i \in 0 .. last /\ m <= last + 1
      BY <1>1
    <2>2. Stage(done[m], b, i + 1, depths, hashes)
      BY <1>8, <2>1
    <2>3. done[m + 1] = calc_cell_hash(done[m], i)
      BY <1>6, <2>1
    <2> HIDE DEF i, S, IsDone
    <2>4. Stage(calc_cell_hash(done[m], i), b, i, depths, hashes)
      BY <2>1, <2>2, StageStep
    <2> QED
      BY <2>1, <2>3, <2>4
  <1>9. Stage(done[last + 1], b, 0, depths, hashes)
    <2>1. S \in SUBSET Nat
      OBVIOUS
    <2>2. last + 1 \in Nat /\ last + 1 <= last + 1 /\ last + 1 - (last + 1) = 0
      BY <1>1
    <2>3. S = Nat
      <3> HIDE DEF S
      <3> QED
        BY <1>7, <1>8, <2>1, EveryCount
    <2> QED
      BY <2>2, <2>3
  <1>10. HashCells(b, last).bc.hashes[0] = hashes[0]
    <2>1. 0 \in CellIndex /\ 0 >= 0
      BY DEF CellIndex, MAX_CONTRACT_CELLS_COUNT
    <2>2. done[last + 1].hashes[0] = hashes[0]
      BY <1>9, <2>1 DEF Stage
    <2>3. "hashes" \in DOMAIN b
      BY DEF Stage, ZeroBoc
    <2> QED
      BY <1>2, <2>2, <2>3
  <1>11. HashCells(b, last).err = SUCCESS
    <2>1. ASSUME NEW i \in 0 .. last, NEW r \in 1 .. Len(b.cells[i + 1].refs)
          PROVE  ~(b.cells[i + 1].refs[r] >= MAX_CONTRACT_CELLS_COUNT)
      <3>1. b.cells[i + 1].refs[r] \in i + 1 .. MAX_CONTRACT_CELLS_COUNT - 1
        BY DEF IsTree
      <3> DEFINE j == b.cells[i + 1].refs[r]
      <3> HIDE DEF j
      <3>2. j \in i + 1 .. MAX_CONTRACT_CELLS_COUNT - 1
        BY <3>1 DEF j
      <3>3. ~(j >= MAX_CONTRACT_CELLS_COUNT)
        BY <3>2 DEF MAX_CONTRACT_CELLS_COUNT
      <3> QED
        BY <3>3 DEF j
    <2> QED
      BY <1>2, <2>1
  <1> QED
    BY <1>10, <1>11

-----------------------------------------------------------------------------
(***************************************************************************)
(* The tree by recursion.  Every reference points forward, so that there   *)
(* are functions which satisfy the recursion: by induction from the last   *)
(* cell.                                                                   *)
(***************************************************************************)
DepthAt(cells, d, i) ==
  LET below == {d[cells[i].refs[c] + 1] : c \in 1 .. Len(cells[i].refs)}
  IN  IF below = {} THEN 0 ELSE Max(below) + 1

HashAt(cells, h, i) ==
  LET kids == [c \in 1 .. Len(cells[i].refs) |-> cells[i].refs[c] + 1]
  IN  Sha256(cells[i].data, [c \in DOMAIN kids |-> TreeDepths(cells)[kids[c]]],
             [c \in DOMAIN kids |-> h[kids[c]]])

LEMMA DepthsExist ==
  ASSUME NEW cells, ProperTree(cells)
  PROVE  TreeDepths(cells) = [i \in 1 .. Len(cells) |-> DepthAt(cells, TreeDepths(cells), i)]
  <1> DEFINE n == Len(cells)
             IsDepth(f, m) == f = [i \in m + 1 .. n |-> DepthAt(cells, f, i)]
             T == {k \in Nat : k <= n => \E f : IsDepth(f, n - k)}
  <1>1. n \in Nat /\ \A i \in 1 .. n : \A c \in 1 .. Len(cells[i].refs) :
                        cells[i].refs[c] \in i .. n - 1
    BY DEF ProperTree
  <1>2. TreeDepths(cells) = CHOOSE f : f = [i \in 1 .. n |-> DepthAt(cells, f, i)]
    BY Zenon DEF TreeDepths, DepthAt
  <1> HIDE DEF n
  <1>3. 0 \in T
    <2>1. n + 1 .. n = {} /\ n - 0 = n
      BY <1>1
    <2>2. IsDepth(<< >>, n - 0)
      BY <2>1
    <2> QED
      BY <2>2
  <1>4. ASSUME NEW k \in Nat, k \in T
        PROVE  k + 1 \in T
    <2> SUFFICES ASSUME k + 1 <= n PROVE \E f : IsDepth(f, n - (k + 1))
      OBVIOUS
    <2> DEFINE m == n - k
    <2>1. m \in 1 .. n /\ n - (k + 1) = m - 1 /\ (m - 1) + 1 = m
      BY <1>1
    <2>2. PICK f : IsDepth(f, m)
      BY <1>1, <1>4
    <2> HIDE DEF m
    <2> DEFINE g == [i \in m .. n |-> IF i = m THEN DepthAt(cells, f, m) ELSE f[i]]
    <2>3. ASSUME NEW i \in m .. n
          PROVE  DepthAt(cells, g, i) = DepthAt(cells, f, i)
      <3>1. ASSUME NEW c \in 1 .. Len(cells[i].refs)
            PROVE  g[cells[i].refs[c] + 1] = f[cells[i].refs[c] + 1]
        <4> DEFINE j == cells[i].refs[c]
        <4>1. i \in 1 .. n
          BY <1>1, <2>1
        <4>2. j \in i .. n - 1
          BY <1>1, <4>1
        <4> HIDE DEF j
        <4>3. j + 1 \in m .. n /\ j + 1 # m
          BY <1>1, <2>1, <4>1, <4>2
        <4>4. g[j + 1] = f[j + 1]
          BY <4>3
        <4> QED
          BY <4>4 DEF j
      <3> HIDE DEF g
      <3>2. {g[cells[i].refs[c] + 1] : c \in 1 .. Len(cells[i].refs)}
            = {f[cells[i].refs[c] + 1] : c \in 1 .. Len(cells[i].refs)}
        BY <3>1
      <3> QED
        BY <3>2 DEF DepthAt
    <2>4. ASSUME NEW i \in m .. n
          PROVE  g[i] = DepthAt(cells, g, i)
      <3>1. CASE i = m
        BY <2>3, <3>1
      <3>2. CASE i # m
        <4>1. i \in m + 1 .. n
          BY <1>1, <2>1, <3>2
        <4>2. f[i] = DepthAt(cells, f, i)
          BY <2>2, <4>1
        <4> QED
          BY <2>3, <3>2, <4>2
      <3> QED
        BY <3>1, <3>2
    <2>5. g = [i \in m .. n |-> g[i]]
      OBVIOUS
    <2> HIDE DEF g
    <2>6. IsDepth(g, m - 1)
      BY <2>1, <2>4, <2>5
    <2> QED
      BY <2>1, <2>6
  <1>5. \E f : IsDepth(f, 0)
    <2>1. T \in SUBSET Nat
      OBVIOUS
    <2>2. T = Nat
      <3> HIDE DEF T
      <3> QED
        BY <1>3, <1>4, <2>1, EveryCount
    <2>3. n \in T
      <3> HIDE DEF T
      <3> QED
        BY <1>1, <2>2
    <2>4. n <= n /\ n - n = 0
      BY <1>1
    <2> QED
      BY <2>3, <2>4
  <1>6. \E f : f = [i \in 1 .. n |-> DepthAt(cells, f, i)]
    BY <1>5
  <1> QED
    BY <1>2, <1>6, Zenon DEF n

LEMMA HashesExist ==
  ASSUME NEW cells, ProperTree(cells)
  PROVE  TreeHashes(cells) = [i \in 1 .. Len(cells) |-> HashAt(cells, TreeHashes(cells), i)]
  <1> DEFINE n == Len(cells)
             IsHash(f, m) == f = [i \in m + 1 .. n |-> HashAt(cells, f, i)]
             T == {k \in Nat : k <= n => \E f : IsHash(f, n - k)}
  <1>1. n \in Nat /\ \A i \in 1 .. n : \A c \in 1 .. Len(cells[i].refs) :
                        cells[i].refs[c] \in i .. n - 1
    BY DEF ProperTree
  <1>2. TreeHashes(cells) = CHOOSE f : f = [i \in 1 .. n |-> HashAt(cells, f, i)]
    BY Zenon DEF TreeHashes, HashAt
  <1> HIDE DEF n
  <1>3. 0 \in T
    <2>1. n + 1 .. n = {} /\ n - 0 = n
      BY <1>1
    <2>2. IsHash(<< >>, n - 0)
      BY <2>1
    <2> QED
      BY <2>2
  <1>4. ASSUME NEW k \in Nat, k \in T
        PROVE  k + 1 \in T
    <2> SUFFICES ASSUME k + 1 <= n PROVE \E f : IsHash(f, n - (k + 1))
      OBVIOUS
    <2> DEFINE m == n - k
    <2>1. m \in 1 .. n /\ n - (k + 1) = m - 1 /\ (m - 1) + 1 = m
      BY <1>1
    <2>2. PICK f : IsHash(f, m)
      BY <1>1, <1>4
    <2> HIDE DEF m
    <2> DEFINE g == [i \in m .. n |-> IF i = m THEN HashAt(cells, f, m) ELSE f[i]]
    <2>3. ASSUME NEW i \in m .. n
          PROVE  HashAt(cells, g, i) = HashAt(cells, f, i)
      <3> DEFINE kids == [c \in 1 .. Len(cells[i].refs) |-> cells[i].refs[c] + 1]
      <3>1. ASSUME NEW c \in 1 .. Len(cells[i].refs)
            PROVE  g[kids[c]] = f[kids[c]]
        <4> DEFINE j == cells[i].refs[c]
        <4>1. i \in 1 .. n
          BY <1>1, <2>1
        <4>2. j \in i .. n - 1
          BY <1>1, <4>1
        <4>3. kids[c] = j + 1
          OBVIOUS
        <4> HIDE DEF j, kids
        <4>4. j + 1 \in m .. n /\ j + 1 # m
          BY <1>1, <2>1, <4>1, <4>2
        <4> QED
          BY <4>3, <4>4
      <3>2. DOMAIN kids = 1 .. Len(cells[i].refs)
        OBVIOUS
      <3> HIDE DEF g, kids
      <3>3. [c \in DOMAIN kids |-> g[kids[c]]] = [c \in DOMAIN kids |-> f[kids[c]]]
        BY <3>1, <3>2
      <3> QED
        BY <3>3 DEF HashAt, kids
    <2>4. ASSUME NEW i \in m .. n
          PROVE  g[i] = HashAt(cells, g, i)
      <3>1. CASE i = m
        BY <2>3, <3>1
      <3>2. CASE i # m
        <4>1. i \in m + 1 .. n
          BY <1>1, <2>1, <3>2
        <4>2. f[i] = HashAt(cells, f, i)
          BY <2>2, <4>1
        <4> QED
          BY <2>3, <3>2, <4>2
      <3> QED
        BY <3>1, <3>2
    <2>5. g = [i \in m .. n |-> g[i]]
      OBVIOUS
    <2> HIDE DEF g
    <2>6. IsHash(g, m - 1)
      BY <2>1, <2>4, <2>5
    <2> QED
      BY <2>1, <2>6
  <1>5. \E f : IsHash(f, 0)
    <2>1. T \in SUBSET Nat
      OBVIOUS
    <2>2. T = Nat
      <3> HIDE DEF T
      <3> QED
        BY <1>3, <1>4, <2>1, EveryCount
    <2>3. n \in T
      <3> HIDE DEF T
      <3> QED
        BY <1>1, <2>2
    <2>4. n <= n /\ n - n = 0
      BY <1>1
    <2> QED
      BY <2>3, <2>4
  <1>6. \E f : f = [i \in 1 .. n |-> HashAt(cells, f, i)]
    BY <1>5
  <1> QED
    BY <1>2, <1>6, Zenon DEF n

\* The recursion gives each cell the depth just above its children.
KidsWithin(cells, d, i, m) ==
  \A c \in 1 .. Len(cells[i].refs) :
    d[cells[i].refs[c] + 1] \in Nat /\ d[cells[i].refs[c] + 1] <= m

AboveKids(cells, d, i, deep) ==
  /\ \A c \in 1 .. Len(cells[i].refs) : d[cells[i].refs[c] + 1] + 1 <= deep
  /\ deep = 0 \/ \E c \in 1 .. Len(cells[i].refs) : deep = d[cells[i].refs[c] + 1] + 1

LEMMA DepthIsAbove ==
  ASSUME NEW cells, NEW d, NEW i, NEW m \in Nat, Len(cells[i].refs) \in Nat,
         KidsWithin(cells, d, i, m)
  PROVE  /\ DepthAt(cells, d, i) \in 0 .. m + 1
         /\ AboveKids(cells, d, i, DepthAt(cells, d, i))
  <1> DEFINE k == Len(cells[i].refs)
  <1> USE DEF KidsWithin, AboveKids
  <1> DEFINE below == {d[cells[i].refs[c] + 1] : c \in 1 .. k}
  <1>1. DepthAt(cells, d, i) = IF below = {} THEN 0 ELSE Max(below) + 1
    BY DEF DepthAt
  <1>2. below \in SUBSET (0 .. m)
    OBVIOUS
  <1>3. /\ \A x \in below : x \in Nat /\ x <= m
        /\ \A c \in 1 .. k : d[cells[i].refs[c] + 1] \in below
        /\ \A x \in below : \E c \in 1 .. k : x = d[cells[i].refs[c] + 1]
    OBVIOUS
  <1> HIDE DEF below
  <1>4. CASE below = {}
    BY <1>1, <1>3, <1>4
  <1>5. CASE below # {}
    <2>1. Max(below) \in below /\ \A x \in below : x <= Max(below)
      BY <1>2, <1>5, Greatest
    <2>2. DepthAt(cells, d, i) = Max(below) + 1 /\ Max(below) \in Nat /\ Max(below) <= m
      BY <1>1, <1>3, <1>5, <2>1
    <2> DEFINE top == Max(below)
    <2> HIDE DEF top
    <2>3. \A c \in 1 .. k : d[cells[i].refs[c] + 1] \in Nat /\ d[cells[i].refs[c] + 1] <= top
      BY <1>3, <2>1 DEF top
    <2>4. \E c \in 1 .. k : top = d[cells[i].refs[c] + 1]
      BY <1>3, <2>1 DEF top
    <2>5. DepthAt(cells, d, i) = top + 1 /\ top \in Nat /\ top <= m
      BY <2>2 DEF top
    <2> QED
      BY <2>3, <2>4, <2>5, SMTT(30)
  <1> QED
    BY <1>4, <1>5

LEMMA NextLower ==
  \A n, k \in Nat : k + 1 <= n =>
    \A i \in n - (k + 1) + 1 .. n :
      i \notin n - k + 1 .. n => i = n - k /\ i \in 1 .. n /\ i + 1 = n - k + 1
  OBVIOUS

LEMMA DepthsBounded ==
  ASSUME NEW cells, ProperTree(cells), NEW n, n = Len(cells), NEW d, d = TreeDepths(cells)
  PROVE  \A i \in 1 .. n : d[i] \in 0 .. n - i /\ AboveKids(cells, d, i, d[i])
  <1>1. /\ n \in Nat
        /\ \A i \in 1 .. n : Len(cells[i].refs) \in Nat
        /\ \A i \in 1 .. n : \A c \in 1 .. Len(cells[i].refs) : cells[i].refs[c] \in i .. n - 1
    BY DEF ProperTree
  <1>2. \A i \in 1 .. n : d[i] = DepthAt(cells, d, i)
    <2>1. d = [i \in 1 .. n |-> DepthAt(cells, d, i)]
      BY DepthsExist
    <2> QED
      BY <2>1
  <1> DEFINE Low(i) == d[i] \in 0 .. n - i
             T == {k \in Nat : k <= n => \A i \in n - k + 1 .. n : Low(i)}
  <1>3. ASSUME NEW i \in 1 .. n, \A j \in i + 1 .. n : Low(j)
        PROVE  Low(i) /\ AboveKids(cells, d, i, d[i])
    <2>1. d[i] = DepthAt(cells, d, i) /\ Len(cells[i].refs) \in Nat
      BY <1>1, <1>2
    <2> DEFINE m == n - i - 1
    <2>2. ASSUME NEW c \in 1 .. Len(cells[i].refs)
          PROVE  d[cells[i].refs[c] + 1] \in Nat /\ d[cells[i].refs[c] + 1] <= m
      <3> DEFINE j == cells[i].refs[c]
      <3>1. j \in i .. n - 1
        BY <1>1
      <3> HIDE DEF j
      <3>2. j + 1 \in i + 1 .. n /\ j \in Nat
        BY <1>1, <3>1
      <3>3. d[j + 1] \in 0 .. n - (j + 1)
        BY <1>3, <3>2
      <3>4. d[j + 1] \in Nat /\ d[j + 1] <= m
        BY <1>1, <3>1, <3>2, <3>3
      <3> QED
        BY <3>4 DEF j
    <2>3. CASE Len(cells[i].refs) = 0
      <3>1. {d[cells[i].refs[c] + 1] : c \in 1 .. Len(cells[i].refs)} = {}
        BY <2>3
      <3>2. d[i] = 0
        BY <2>1, <3>1 DEF DepthAt
      <3>3. 0 \in 0 .. n - i
        BY <1>1
      <3> QED
        BY <2>3, <3>2, <3>3 DEF AboveKids
    <2>4. CASE Len(cells[i].refs) # 0
      <3>1. m \in Nat /\ m + 1 = n - i
        <4>1. 1 \in 1 .. Len(cells[i].refs)
          BY <2>1, <2>4
        <4>2. cells[i].refs[1] \in i .. n - 1
          BY <1>1, <4>1
        <4> QED
          BY <1>1, <4>2
      <3>2. KidsWithin(cells, d, i, m)
        BY <2>2 DEF KidsWithin
      <3> HIDE DEF m
      <3>3. /\ DepthAt(cells, d, i) \in 0 .. m + 1
            /\ AboveKids(cells, d, i, DepthAt(cells, d, i))
        BY <2>1, <3>1, <3>2, DepthIsAbove
      <3> QED
        BY <2>1, <3>1, <3>3
    <2> QED
      BY <2>3, <2>4
  <1>4. 0 \in T
    BY <1>1
  <1>5. ASSUME NEW k \in Nat, k \in T
        PROVE  k + 1 \in T
    <2> SUFFICES ASSUME k + 1 <= n, NEW i \in n - (k + 1) + 1 .. n
                 PROVE  Low(i)
      OBVIOUS
    <2>1. \A j \in n - k + 1 .. n : Low(j)
      BY <1>1, <1>5
    <2> HIDE DEF Low, T
    <2>2. CASE i \in n - k + 1 .. n
      BY <2>1, <2>2
    <2>3. CASE i \notin n - k + 1 .. n
      <3>1. i = n - k /\ i \in 1 .. n /\ i + 1 = n - k + 1
        BY <1>1, <2>3, NextLower, Zenon
      <3> QED
        BY <1>3, <2>1, <3>1
    <2> QED
      BY <2>2, <2>3
  <1>6. \A i \in 1 .. n : Low(i)
    <2>1. T \in SUBSET Nat
      OBVIOUS
    <2>2. T = Nat
      <3> HIDE DEF T
      <3> QED
        BY <1>4, <1>5, <2>1, EveryCount
    <2>3. n \in T
      <3> HIDE DEF T
      <3> QED
        BY <1>1, <2>2
    <2>4. n <= n /\ n - n + 1 = 1
      BY <1>1
    <2> QED
      BY <2>3, <2>4
  <1>7. ASSUME NEW i \in 1 .. n
        PROVE  \A j \in i + 1 .. n : Low(j)
    <2> HIDE DEF Low
    <2>1. \A j \in i + 1 .. n : j \in 1 .. n
      BY <1>1
    <2> QED
      BY <1>6, <2>1
  <1> QED
    BY <1>3, <1>7
\* A boc of which no cell was hashed yet, and no key put in.
Unhashed(b, cells) ==
  /\ DOMAIN b = DOMAIN ZeroBoc
  /\ b.cells = cells /\ b.public_key_cell_index = 0
  /\ DOMAIN b.hashes = CellIndex /\ DOMAIN b.cell_depth = CellIndex
  /\ \A i \in CellIndex : b.cell_depth[i] = 0

\* The loop over the cells from the last to the first finds the hash of the
\* tree, for every tree of ordinary cells that the device has room for
\* (cell.c:97-153).
THEOREM TreeHashed ==
  ASSUME NEW cells, ProperTree(cells), NEW b, Unhashed(b, cells)
  PROVE  /\ HashCells(b, Len(cells) - 1).err = SUCCESS
         /\ HashCells(b, Len(cells) - 1).bc.hashes[0] = TreeHash(cells)
  <1> DEFINE n == Len(cells)
             last == n - 1
             td == TreeDepths(cells)
             th == TreeHashes(cells)
             depths == [j \in CellIndex |-> IF j < n THEN td[j + 1] ELSE 0]
             hashes == [j \in CellIndex |-> IF j < n THEN th[j + 1] ELSE b.hashes[j]]
  <1>1. n \in 1 .. 16 /\ CellIndex = 0 .. 15 /\ MAX_CONTRACT_CELLS_COUNT = 16
    BY DEF ProperTree, MAX_CONTRACT_CELLS_COUNT, CellIndex
  <1>2. \A i \in 1 .. n : td[i] \in 0 .. n - i /\ AboveKids(cells, td, i, td[i])
    BY DepthsBounded
  <1>3. \A i \in 1 .. n : th[i] = HashAt(cells, th, i)
    <2>1. th = [i \in 1 .. n |-> HashAt(cells, th, i)]
      BY HashesExist
    <2> HIDE DEF th
    <2> QED
      BY <2>1
  <1>4. \A i \in 1 .. n : /\ cells[i].type = "ordinary" /\ Len(cells[i].refs) \in Nat
                           /\ \A c \in 1 .. Len(cells[i].refs) : cells[i].refs[c] \in i .. n - 1
    BY DEF ProperTree
  <1>5. /\ last \in CellIndex /\ last + 1 = n
        /\ \A i \in 0 .. last : i \in CellIndex /\ i < n /\ i + 1 \in 1 .. n
        /\ \A i \in 0 .. last : i \in Nat
    <2> HIDE DEF n, td, th, depths, hashes
    <2> QED
      BY <1>1
  <1>6. \A j \in CellIndex : depths[j] = IF j < n THEN td[j + 1] ELSE 0
    OBVIOUS
  <1>7. \A j \in CellIndex : hashes[j] = IF j < n THEN th[j + 1] ELSE b.hashes[j]
    OBVIOUS
  <1> HIDE DEF n, last, td, th, depths, hashes
  <1>8. \A j \in 0 .. last : depths[j] = td[j + 1] /\ hashes[j] = th[j + 1]
    BY <1>5, <1>6, <1>7
  <1>9. ASSUME NEW i \in 0 .. last
        PROVE  LET cell == b.cells[i + 1]
               IN  /\ cell.type # "pruned" /\ Len(cell.refs) \in Nat
                   /\ \A c \in 1 .. Len(cell.refs) :
                         cell.refs[c] \in i + 1 .. MAX_CONTRACT_CELLS_COUNT - 1
                   /\ \A c \in 1 .. Len(cell.refs) :
                         depths[cell.refs[c]] \in Nat /\ depths[cell.refs[c]] <= 254
                   /\ depths[i] \in Nat /\ Above(depths[i], cell.refs, depths)
                   /\ hashes[i] = Sha256(HashedData(b, i),
                                 [c \in 1 .. Len(cell.refs) |-> depths[cell.refs[c]]],
                                 [c \in 1 .. Len(cell.refs) |-> hashes[cell.refs[c]]])
    <2> DEFINE cell == cells[i + 1]
               k == Len(cell.refs)
    <2>1. /\ i + 1 \in 1 .. n /\ b.cells[i + 1] = cell
          /\ depths[i] = td[i + 1] /\ hashes[i] = th[i + 1]
      BY <1>5, <1>8 DEF Unhashed
    <2>2. /\ cell.type = "ordinary" /\ k \in Nat
          /\ \A c \in 1 .. k : cell.refs[c] \in i + 1 .. n - 1
      BY <1>4, <2>1
    <2>3. /\ td[i + 1] \in 0 .. n - (i + 1)
          /\ \A c \in 1 .. k : td[cell.refs[c] + 1] + 1 <= td[i + 1]
          /\ \/ td[i + 1] = 0
             \/ \E c \in 1 .. k : td[i + 1] = td[cell.refs[c] + 1] + 1
      BY <1>2, <2>1 DEF AboveKids
    <2>4. HashAt(cells, th, i + 1) =
            Sha256(cell.data, [c \in 1 .. k |-> td[cell.refs[c] + 1]],
                   [c \in 1 .. k |-> th[cell.refs[c] + 1]])
      <3> DEFINE kids == [c \in 1 .. k |-> cell.refs[c] + 1]
      <3>1. DOMAIN kids = 1 .. k /\ \A c \in 1 .. k : kids[c] = cell.refs[c] + 1
        OBVIOUS
      <3>2. HashAt(cells, th, i + 1) =
              Sha256(cell.data, [c \in DOMAIN kids |-> td[kids[c]]],
                     [c \in DOMAIN kids |-> th[kids[c]]])
        BY DEF HashAt, td
      <3> HIDE DEF kids, cell, k
      <3> QED
        BY <3>1, <3>2
    <2>5. HashedData(b, i) = cell.data
      BY <2>1 DEF HashedData, Unhashed
    <2> HIDE DEF cell, k
    <2>6. ASSUME NEW c \in 1 .. k
          PROVE  /\ cell.refs[c] \in i + 1 .. 15
                 /\ depths[cell.refs[c]] = td[cell.refs[c] + 1]
                 /\ hashes[cell.refs[c]] = th[cell.refs[c] + 1]
                 /\ depths[cell.refs[c]] \in Nat /\ depths[cell.refs[c]] <= 254
      <3> DEFINE j == cell.refs[c]
      <3>1. j \in i + 1 .. n - 1
        BY <2>2
      <3> HIDE DEF j
      <3>2. j \in i + 1 .. 15 /\ j \in 0 .. last /\ j + 1 \in 1 .. n
        BY <1>1, <1>5, <3>1
      <3>3. td[j + 1] \in 0 .. n - (j + 1)
        BY <1>2, <3>2
      <3>4. td[j + 1] \in Nat /\ td[j + 1] <= 254
        BY <1>1, <3>2, <3>3
      <3> QED
        BY <1>8, <3>2, <3>4 DEF j
    <2>7. Above(depths[i], cell.refs, depths)
      BY <2>1, <2>3, <2>6 DEF Above, k
    <2>8. [c \in 1 .. k |-> depths[cell.refs[c]]] = [c \in 1 .. k |-> td[cell.refs[c] + 1]]
      BY <2>6
    <2>9. [c \in 1 .. k |-> hashes[cell.refs[c]]] = [c \in 1 .. k |-> th[cell.refs[c] + 1]]
      BY <2>6
    <2>10. hashes[i] = Sha256(HashedData(b, i), [c \in 1 .. k |-> depths[cell.refs[c]]],
                              [c \in 1 .. k |-> hashes[cell.refs[c]]])
      <3>1. hashes[i] = HashAt(cells, th, i + 1)
        BY <1>3, <2>1
      <3> QED
        BY <2>4, <2>5, <2>8, <2>9, <3>1
    <2>11. depths[i] \in Nat
      BY <1>1, <2>1, <2>3
    <2>12. MAX_CONTRACT_CELLS_COUNT - 1 = 15
      BY <1>1
    <2> QED
      BY <2>1, <2>2, <2>6, <2>7, <2>10, <2>11, <2>12, Zenon DEF k
  <1>10. IsTree(b, last, depths, hashes)
    BY <1>9, Zenon DEF IsTree
  <1>11. Stage(b, b, last + 1, depths, hashes)
    <2>1. ASSUME NEW j \in CellIndex
          PROVE  IF j >= last + 1 THEN b.hashes[j] = hashes[j] /\ b.cell_depth[j] = depths[j]
                 ELSE b.cell_depth[j] = 0
      BY <1>1, <1>5, <1>6, <1>7 DEF Unhashed
    <2> QED
      BY <2>1 DEF Stage, Unhashed
  <1>12. /\ HashCells(b, last).err = SUCCESS
         /\ HashCells(b, last).bc.hashes[0] = hashes[0]
    BY <1>5, <1>10, <1>11, HashLoop
  <1>13. hashes[0] = TreeHash(cells)
    BY <1>5, <1>8, <1>1 DEF TreeHash, th
  <1> QED
    BY <1>12, <1>13 DEF last, n

-----------------------------------------------------------------------------
(***************************************************************************)
(* The payload: what a review will sign is the hash of the tree that the   *)
(* chunks add up to.                                                       *)
(***************************************************************************)
LEMMA PartOfIt ==
  ASSUME NEW s, IsSequence(s), NEW n \in 1 .. Len(s)
  PROVE  IsSequence(SubSeq(s, n, Len(s)))
  <1>1. PICK S : s \in Seq(S)
    BY PartsAreSeq
  <1>2. Len(s) \in Nat
    BY DEF IsSequence
  <1>3. \A i \in n .. Len(s) : s[i] \in S
    BY <1>1, <1>2, ElementOfSeq
  <1>4. SubSeq(s, n, Len(s)) \in Seq(S)
    BY <1>1, <1>2, <1>3, SubSeqProperties
  <1> QED
    BY <1>4, LenProperties DEF IsSequence

\* A cell changed in its data only.
LEMMA OtherData ==
  ASSUME NEW cells, IsSequence(cells), ProperTree(cells), NEW data,
         NEW longer, longer = [cells EXCEPT ![1].data = data]
  PROVE  IsSequence(longer) /\ ProperTree(longer) /\ Len(longer) = Len(cells)
  <1> DEFINE root == [cells[1] EXCEPT !.data = data]
  <1>1. PICK S : cells \in Seq(S)
    BY PartsAreSeq
  <1>2. 1 \in 1 .. Len(cells) /\ Len(cells) \in Nat
    BY DEF ProperTree, MAX_CONTRACT_CELLS_COUNT
  <1>3. longer = [cells EXCEPT ![1] = root]
    OBVIOUS
  <1>4. /\ root.kind = cells[1].kind /\ root.type = cells[1].type
        /\ root.whole = cells[1].whole /\ root.refs = cells[1].refs
    OBVIOUS
  <1> DEFINE T == S \cup {root}
  <1>5. cells \in Seq(T) /\ root \in T
    BY <1>1
  <1> HIDE DEF root, T
  <1>6. /\ longer \in Seq(T) /\ Len(longer) = Len(cells)
        /\ \A i \in 1 .. Len(cells) : longer[i] = IF i = 1 THEN root ELSE cells[i]
    BY <1>2, <1>3, <1>5, ExceptSeq
  <1>7. IsSequence(longer)
    BY <1>6, LenProperties DEF IsSequence
  <1>8. ASSUME NEW i \in 1 .. Len(cells)
        PROVE  /\ longer[i].kind = cells[i].kind /\ longer[i].type = cells[i].type
               /\ longer[i].whole = cells[i].whole /\ longer[i].refs = cells[i].refs
    BY <1>4, <1>6
  <1> QED
    BY <1>6, <1>7, <1>8 DEF ProperTree

\* The cells of the boc are those of the stream, and none is hashed yet.
LEMMA SentAreRead ==
  ASSUME NEW items, NEW tree, tree = deserialize_cells_tree(ZeroBoc, items),
         tree.err = SUCCESS, Len(items) \in Nat, Head(items).cells_count = Len(items) - 1
  PROVE  Unhashed(tree.bc, SentCells(items))
  <1> DEFINE count == Head(items).cells_count
             read  == IF count < Len(items) - 1 THEN count ELSE Len(items) - 1
             cells == SubSeq(items, 2, read + 1)
  <1>1. HeaderOk(Head(items))
    BY DEF deserialize_cells_tree, SUCCESS
  <1>2. tree.bc = [ZeroBoc EXCEPT !.cells = cells]
    BY <1>1 DEF deserialize_cells_tree, CellsRead
  <1>3. read + 1 = Len(items)
    OBVIOUS
  <1>4. cells = SentCells(items)
    BY <1>3 DEF SentCells
  <1> HIDE DEF cells
  <1> QED
    BY <1>2, <1>4 DEF Unhashed, ZeroBoc

LongRoot(cell, wc, address) ==
  [cell EXCEPT !.data = <<Fld(3, 4), Fld(8, wc), Fld(256, address)>> \o cell.data]

LEMMA PrependedRoot ==
  \A cell, wc, address : TakesAddress(cell) =>
    prepend_address_to_cell(cell, wc, address).cell = LongRoot(cell, wc, address)
  <1> SUFFICES ASSUME NEW cell, NEW wc, NEW address, BitLen(cell) % 8 # 0, BitLen(cell) + 267 < 1024
               PROVE  prepend_address_to_cell(cell, wc, address).cell = LongRoot(cell, wc, address)
    BY DEF TakesAddress
  <1> QED
    BY DEF prepend_address_to_cell, LongRoot

\* What a proper tree is hashed to, behind a prefix of the root.
Payload(ctx, hash) ==
  IF ctx.tx_sign_with_chain_id THEN <<ctx.tx_chain_id, hash>> ELSE <<hash>>

LEMMA PlainHashed ==
  ASSUME NEW cells, ProperTree(cells), NEW b, Unhashed(b, cells), NEW ctx
  PROVE  /\ prepare_payload_hash(b, ctx).err = SUCCESS
         /\ prepare_payload_hash(b, ctx).to_sign = Payload(ctx, TreeHash(cells))
  <1>1. b.cells = cells
    BY DEF Unhashed
  <1>2. /\ HashCells(b, Len(cells) - 1).err = SUCCESS
        /\ HashCells(b, Len(cells) - 1).bc.hashes[0] = TreeHash(cells)
    BY TreeHashed
  <1> QED
    BY <1>1, <1>2 DEF prepare_payload_hash, PayloadHash, Payload

ContextCells(cells, ctx) ==
  IF ctx.tx_current_wallet_type \notin PrependedWallets THEN cells
  ELSE [cells EXCEPT ![1].data =
          <<Fld(3, 4), Fld(8, ctx.tx_wc), Fld(256, ctx.tx_prepend_address)>> \o @]

LEMMA ParsedHashed ==
  ASSUME NEW cells, IsSequence(cells), ProperTree(cells), NEW b, Unhashed(b, cells), NEW ctx,
         ctx.tx_current_wallet_type \in PrependedWallets => TakesAddress(cells[1]),
         NEW p, HashParsed(p, b, ctx).err = SUCCESS
  PROVE  HashParsed(p, b, ctx).to_sign = Payload(ctx, TreeHash(ContextCells(cells, ctx)))
  <1>1. p.err = SUCCESS
    BY DEF HashParsed, Hashed
  <1>2. CASE ctx.tx_current_wallet_type \notin PrependedWallets
    <2>1. HashParsed(p, b, ctx) = HashPlain(p, b, ctx) /\ ContextCells(cells, ctx) = cells
      BY <1>1, <1>2 DEF HashParsed, ContextCells
    <2>2. HashPlain(p, b, ctx).to_sign = prepare_payload_hash(b, ctx).to_sign
      BY PlainHashed DEF HashPlain, Hashed
    <2> QED
      BY <2>1, <2>2, PlainHashed
  <1>3. CASE ctx.tx_current_wallet_type \in PrependedWallets
    <2> DEFINE long == prepend_address_to_cell(b.cells[1], ctx.tx_wc, ctx.tx_prepend_address)
               longer == [b EXCEPT !.cells[1] = long.cell]
               data == <<Fld(3, 4), Fld(8, ctx.tx_wc), Fld(256, ctx.tx_prepend_address)>>
                       \o cells[1].data
               lengthened == [cells EXCEPT ![1].data = data]
    <2>1. HashParsed(p, b, ctx) = HashPrepended(p, b, ctx) /\ ContextCells(cells, ctx) = lengthened
      BY <1>1, <1>3 DEF HashParsed, ContextCells
    <2>2. long.err = SUCCESS
      BY <2>1 DEF HashPrepended, Hashed
    <2>3. b.cells = cells /\ long.cell = [cells[1] EXCEPT !.data = data]
      <3>1. b.cells = cells
        BY DEF Unhashed
      <3>2. TakesAddress(cells[1])
        BY <1>3
      <3> HIDE DEF longer, lengthened
      <3>3. prepend_address_to_cell(cells[1], ctx.tx_wc, ctx.tx_prepend_address).cell
              = LongRoot(cells[1], ctx.tx_wc, ctx.tx_prepend_address)
        BY <3>2, PrependedRoot, Zenon
      <3> QED
        BY <3>1, <3>3 DEF LongRoot
    <2> HIDE DEF data
    <2>4. ProperTree(lengthened)
      BY OtherData
    <2>5. HashPrepended(p, b, ctx).to_sign = prepare_payload_hash(longer, ctx).to_sign
      <3>1. HashPrepended(p, b, ctx).err = prepare_payload_hash(longer, ctx).err
        BY <2>2 DEF HashPrepended, Hashed
      <3>2. prepare_payload_hash(longer, ctx).err = SUCCESS
        BY <2>1, <3>1
      <3> QED
        BY <2>2, <3>2 DEF HashPrepended, Hashed
    <2> HIDE DEF long
    <2>6. Unhashed(longer, lengthened)
      <3>1. DOMAIN b = DOMAIN ZeroBoc /\ b.cells = cells
        BY DEF Unhashed
      <3>2. longer.cells = [cells EXCEPT ![1] = long.cell]
        BY <3>1, BocFields
      <3>3. longer.cells = lengthened
        BY <2>3, <3>2
      <3> HIDE DEF lengthened
      <3>4. /\ DOMAIN longer = DOMAIN ZeroBoc /\ longer.hashes = b.hashes
            /\ longer.cell_depth = b.cell_depth
            /\ longer.public_key_cell_index = b.public_key_cell_index
        BY <3>1, BocFields
      <3> HIDE DEF longer
      <3> QED
        BY <3>3, <3>4 DEF Unhashed
    <2> HIDE DEF longer, lengthened
    <2> QED
      BY <2>1, <2>4, <2>5, <2>6, PlainHashed
  <1> QED
    BY <1>2, <1>3
-----------------------------------------------------------------------------
LEMMA SignedTree ==
  ASSUME NEW ctx, NEW items, ctx.tx_data = items, IsSequence(items),
         Head(items).cells_count = Len(items) - 1,
         NEW cells, cells = SentCells(items), ProperTree(cells),
         ctx.tx_current_wallet_type \in PrependedWallets => TakesAddress(cells[1]),
         prepare_to_sign(ZeroBoc, ctx).err = SUCCESS
  PROVE  prepare_to_sign(ZeroBoc, ctx).to_sign = Payload(ctx, TreeHash(ContextCells(cells, ctx)))
  <1> DEFINE tree == deserialize_cells_tree(ZeroBoc, items)
             bc1 == tree.bc
             p == Parse(StartParse(bc1.cells[1], ctx), bc1.cells, ctx)
  <1>1. prepare_to_sign(ZeroBoc, ctx) = SignTree(tree, ctx)
    BY DEF prepare_to_sign
  <1>2. Len(items) \in Nat /\ Len(items) > 0
    <2>1. Len(cells) \in Nat /\ Len(cells) > 0
      BY DEF ProperTree
    <2>2. Len(items) \in Nat
      BY DEF IsSequence
    <2>3. CASE Len(items) = 0
      <3>1. Len(SubSeq(items, 2, 0)) = 0
        BY SubSeqProperties
      <3> QED
        BY <2>1, <2>3, <3>1 DEF SentCells
    <2> QED
      BY <2>2, <2>3
  <1> HIDE DEF tree, bc1
  <1>3. /\ tree.err = SUCCESS
        /\ SignTree(tree, ctx) = HashParsed(p, bc1, ctx)
    <2> HIDE DEF p
    <2> QED
      BY <1>1 DEF SignTree, SUCCESS, p, bc1
  <1> HIDE DEF p
  <1>4. Unhashed(bc1, cells)
    BY <1>2, <1>3, SentAreRead DEF tree, bc1
  <1>5. IsSequence(cells)
    <2>1. CASE Len(items) = 1
      <3>1. Len(SubSeq(items, 2, 1)) = 0
        BY SubSeqProperties
      <3> QED
        BY <2>1, <3>1 DEF SentCells, ProperTree
    <2>2. CASE Len(items) # 1
      <3>1. 2 \in 1 .. Len(items)
        <4>1. \A n \in Nat : n > 0 /\ n # 1 => 2 \in 1 .. n
          OBVIOUS
        <4> QED
          BY <1>2, <2>2, <4>1, Zenon
      <3> QED
        BY <3>1, PartOfIt DEF SentCells
    <2> QED
      BY <2>1, <2>2
  <1>6. HashParsed(p, bc1, ctx).to_sign = Payload(ctx, TreeHash(ContextCells(cells, ctx)))
    BY <1>1, <1>3, <1>4, <1>5, ParsedHashed
  <1> QED
    BY <1>1, <1>3, <1>6

\* The context of a session holds the header of its first chunk.
OfSession(ctx, h, items) ==
  /\ ctx.tx_data = items
  /\ ctx.tx_current_wallet_type = WalletOf(h)
  /\ ctx.tx_wc = IF "wc" \in h.flags THEN h.wc ELSE 0
  /\ ctx.tx_prepend_address = IF "address" \in h.flags THEN h.address ELSE OwnAddress(h)
  /\ ctx.tx_sign_with_chain_id = ("chain" \in h.flags)
  /\ "chain" \in h.flags => ctx.tx_chain_id = h.chain

LEMMA SessionHeader ==
  ASSUME NEW h, h # None, ReadHeader(h, TRUE).err = SUCCESS, NEW items, NEW left,
         NEW ctx, ctx = SessionContext(h, items, left)
  PROVE  OfSession(ctx, h, items)
  <1> DEFINE d == ReadHeader(h, TRUE).dc
             kept == Kept(h, OwnAddress(h))
  <1>1. /\ DOMAIN d = Fields
        /\ \A f \in HeaderFields : d[f] = kept[f]
    BY ReadHeaderLemma DEF NothingBuffered
  <1>2. /\ d.tx_sign_with_chain_id = ("chain" \in h.flags)
        /\ "chain" \in h.flags => d.tx_chain_id = h.chain
    BY ReadHeaderAside
  <1>3. /\ kept.tx_current_wallet_type = WalletOf(h)
        /\ kept.tx_wc = IF "wc" \in h.flags THEN h.wc ELSE 0
        /\ kept.tx_prepend_address = IF "address" \in h.flags THEN h.address ELSE OwnAddress(h)
    BY DEF Kept, WalletOf, DEFAULT_WORKCHAIN_ID
  <1> HIDE DEF d, kept
  <1>4. ctx = [d EXCEPT !.tx_data = items, !.tx_address_str = left, !.tx_amount_str = left]
    BY DEF SessionContext, d
  <1>5. /\ ctx.tx_data = items
        /\ ctx.tx_current_wallet_type = d.tx_current_wallet_type /\ ctx.tx_wc = d.tx_wc
        /\ ctx.tx_prepend_address = d.tx_prepend_address
        /\ ctx.tx_sign_with_chain_id = d.tx_sign_with_chain_id
        /\ ctx.tx_chain_id = d.tx_chain_id
    BY <1>1, <1>4, FieldNames
  <1>6. /\ d.tx_current_wallet_type = kept.tx_current_wallet_type /\ d.tx_wc = kept.tx_wc
        /\ d.tx_prepend_address = kept.tx_prepend_address
    BY <1>1 DEF HeaderFields
  <1> QED
    BY <1>2, <1>3, <1>5, <1>6 DEF OfSession

LEMMA OneAfter == \A a, b : <<a>> \o <<b>> = <<a, b>> /\ << >> \o <<b>> = <<b>>
  <1> SUFFICES ASSUME NEW a, NEW b PROVE <<a>> \o <<b>> = <<a, b>> /\ << >> \o <<b>> = <<b>>
    OBVIOUS
  <1> DEFINE S == {a, b}
  <1>1. << >> \in Seq(S) /\ <<a>> \in Seq(S) /\ <<b>> \in Seq(S) /\ <<a, b>> \in Seq(S)
    OBVIOUS
  <1> HIDE DEF S
  <1>2. <<a>> \o <<b>> = <<a, b>>
    <2>1. /\ Len(<<a>> \o <<b>>) = 2 /\ <<a>> \o <<b>> \in Seq(S)
          /\ (<<a>> \o <<b>>)[1] = a /\ (<<a>> \o <<b>>)[2] = b
      BY <1>1
    <2>2. Len(<<a, b>>) = 2 /\ <<a, b>>[1] = a /\ <<a, b>>[2] = b
      OBVIOUS
    <2>3. \A i \in 1 .. 2 : (<<a>> \o <<b>>)[i] = <<a, b>>[i]
      BY <2>1, <2>2
    <2> QED
      BY <1>1, <2>1, <2>2, <2>3, SeqEqual
  <1>3. << >> \o <<b>> = <<b>>
    BY <1>1
  <1> QED
    BY <1>2, <1>3

LEMMA SessionSigned ==
  ASSUME NEW h, h # None, ReadHeader(h, TRUE).err = SUCCESS, NEW items, IsSequence(items),
         SentTree(items, h), NEW left, NEW r, r = SessionReview(h, items, left),
         ReviewError(r) = SUCCESS
  PROVE  r.to_sign = WantedBytes(SentCells(items), h, OwnAddress(h))
  <1> DEFINE ctx == SessionContext(h, items, left)
             cells == SentCells(items)
  <1>1. OfSession(ctx, h, items)
    <2>1. ctx = SessionContext(h, items, left)
      OBVIOUS
    <2> HIDE DEF ctx, cells
    <2> QED
      BY <2>1, SessionHeader, Zenon
  <1>2. r = prepare_to_sign(ZeroBoc, ctx)
    BY DEF SessionReview
  <1> HIDE DEF ctx
  <1>3. r.err = SUCCESS
    BY DEF ReviewError
  <1>4. r.to_sign = Payload(ctx, TreeHash(ContextCells(cells, ctx)))
    <2>1. /\ ProperTree(cells) /\ Head(items).cells_count = Len(items) - 1
          /\ ctx.tx_current_wallet_type \in PrependedWallets => TakesAddress(cells[1])
      BY <1>1 DEF SentTree, OfSession
    <2> QED
      BY <1>1, <1>2, <1>3, <2>1, SignedTree DEF OfSession
  <1>5. ContextCells(cells, ctx) = SignedCells(cells, h, OwnAddress(h))
    BY <1>1 DEF ContextCells, SignedCells, Prefix, OfSession
  <1>6. \A hash : Payload(ctx, hash) =
          (IF "chain" \in h.flags THEN <<h.chain>> ELSE << >>) \o <<hash>>
    BY <1>1, OneAfter DEF Payload, OfSession
  <1> QED
    BY <1>4, <1>5, <1>6 DEF WantedBytes

-----------------------------------------------------------------------------
(***************************************************************************)
(* The messages of the host are proper trees.                              *)
(***************************************************************************)
\* Tuples in one.
LEMMA Tuples ==
  \A a, b, c, d :
    /\ <<a>> \o <<b>> = <<a, b>> /\ <<a>> \o <<b, c, d>> = <<a, b, c, d>>
    /\ <<a, b>> \o << >> = <<a, b>> /\ <<a, b>> \o <<c>> = <<a, b, c>>
  <1> SUFFICES ASSUME NEW a, NEW b, NEW c, NEW d
               PROVE  /\ <<a>> \o <<b>> = <<a, b>> /\ <<a>> \o <<b, c, d>> = <<a, b, c, d>>
                      /\ <<a, b>> \o << >> = <<a, b>> /\ <<a, b>> \o <<c>> = <<a, b, c>>
    OBVIOUS
  <1> DEFINE S == {a, b, c, d}
  <1>1. /\ <<a>> \in Seq(S) /\ <<b>> \in Seq(S) /\ <<c>> \in Seq(S) /\ <<a, b>> \in Seq(S)
        /\ <<a, b, c>> \in Seq(S) /\ <<b, c, d>> \in Seq(S) /\ <<a, b, c, d>> \in Seq(S)
    OBVIOUS
  <1> HIDE DEF S
  <1>2. <<a>> \o <<b>> = <<a, b>>
    BY OneAfter
  <1>3. <<a>> \o <<b, c, d>> = <<a, b, c, d>>
    <2>1. /\ Len(<<a>> \o <<b, c, d>>) = 4 /\ <<a>> \o <<b, c, d>> \in Seq(S)
          /\ (<<a>> \o <<b, c, d>>)[1] = a /\ (<<a>> \o <<b, c, d>>)[2] = b
          /\ (<<a>> \o <<b, c, d>>)[3] = c /\ (<<a>> \o <<b, c, d>>)[4] = d
      BY <1>1
    <2>2. \A i \in 1 .. 4 : (<<a>> \o <<b, c, d>>)[i] = <<a, b, c, d>>[i]
      BY <2>1
    <2>3. Len(<<a, b, c, d>>) = 4
      OBVIOUS
    <2> QED
      BY <1>1, <2>1, <2>2, <2>3, SeqEqual, ZenonT(40)
  <1>4. <<a, b>> \o << >> = <<a, b>>
    BY <1>1
  <1>5. <<a, b>> \o <<c>> = <<a, b, c>>
    <2>1. /\ Len(<<a, b>> \o <<c>>) = 3 /\ <<a, b>> \o <<c>> \in Seq(S)
          /\ (<<a, b>> \o <<c>>)[1] = a /\ (<<a, b>> \o <<c>>)[2] = b
          /\ (<<a, b>> \o <<c>>)[3] = c
      BY <1>1
    <2>2. \A i \in 1 .. 3 : (<<a, b>> \o <<c>>)[i] = <<a, b, c>>[i]
      BY <2>1
    <2>3. Len(<<a, b, c>>) = 3
      OBVIOUS
    <2> QED
      BY <1>1, <2>1, <2>2, <2>3, SeqEqual
  <1> QED
    BY <1>2, <1>3, <1>4, <1>5

Ordinary(cell, refs) ==
  cell.kind = "cell" /\ cell.type = "ordinary" /\ cell.whole /\ cell.refs = refs

LEMMA CellIsOrdinary == \A data, refs : Ordinary(Cell(data, refs), refs)
  BY DEF Cell, Ordinary

LEMMA SmallTrees ==
  \A a, b, c, d :
    /\ Ordinary(a, << >>) => ProperTree(<<a>>)
    /\ Ordinary(a, <<1>>) /\ Ordinary(b, << >>) => ProperTree(<<a, b>>)
    /\ Ordinary(a, <<1>>) /\ Ordinary(b, <<2>>) /\ Ordinary(c, << >>) => ProperTree(<<a, b, c>>)
    /\ Ordinary(a, <<1>>) /\ Ordinary(b, <<2, 3>>) /\ Ordinary(c, << >>) /\ Ordinary(d, << >>) =>
         ProperTree(<<a, b, c, d>>)
  BY DEF Ordinary, ProperTree, MAX_CONTRACT_CELLS_COUNT, MAX_REFERENCES_COUNT

\* A stream: its header, and the cells behind it.
LEMMA StreamOf ==
  ASSUME NEW cells, IsSequence(cells), NEW hdr, NEW items, items = <<hdr>> \o cells
  PROVE  /\ IsSequence(items) /\ Head(items) = hdr /\ Len(items) = Len(cells) + 1
         /\ SentCells(items) = cells
  <1>1. PICK S1 : cells \in Seq(S1)
    BY PartsAreSeq
  <1> DEFINE S == S1 \cup {hdr}
  <1>2. cells \in Seq(S) /\ <<hdr>> \in Seq(S)
    BY <1>1
  <1> HIDE DEF S
  <1>3. Len(cells) \in Nat
    BY <1>2
  <1>4. /\ items \in Seq(S) /\ Len(items) = Len(cells) + 1
        /\ items[1] = hdr /\ \A i \in 1 .. Len(cells) : items[i + 1] = cells[i]
    BY <1>2
  <1>5. IsSequence(items) /\ Head(items) = hdr
    BY <1>4, LenProperties DEF IsSequence
  <1>6. SentCells(items) = cells
    <2>1. \A i \in 2 .. Len(items) : items[i] \in S
      BY <1>3, <1>4, ElementOfSeq
    <2>2. /\ SubSeq(items, 2, Len(items)) \in Seq(S)
          /\ Len(SubSeq(items, 2, Len(items))) = Len(cells)
          /\ \A i \in 1 .. Len(cells) : SubSeq(items, 2, Len(items))[i] = items[2 + i - 1]
      BY <1>3, <1>4, <2>1, SubSeqProperties
    <2>3. \A i \in 1 .. Len(cells) : items[2 + i - 1] = cells[i]
      BY <1>3, <1>4
    <2> QED
      BY <1>2, <2>2, <2>3, SeqEqual DEF SentCells
  <1> QED
    BY <1>4, <1>5, <1>6

\* The root of a call ends inside a byte.
LEMMA FiveAnd ==
  ASSUME NEW S, NEW a \in S, NEW b \in S, NEW c \in S, NEW d \in S, NEW e \in S,
         NEW args \in Seq(S), NEW data, data = <<a, b, c, d, e>> \o args
  PROVE  /\ Len(data) = 5 + Len(args)
         /\ data[1] = a /\ data[2] = b /\ data[3] = c /\ data[4] = d /\ data[5] = e
         /\ \A i \in 1 .. Len(args) : data[5 + i] = args[i]
  <1> DEFINE base == <<a, b, c, d, e>>
  <1>1. /\ base \in Seq(S) /\ Len(base) = 5
        /\ base[1] = a /\ base[2] = b /\ base[3] = c /\ base[4] = d /\ base[5] = e
    OBVIOUS
  <1>2. data = base \o args
    OBVIOUS
  <1> HIDE DEF base
  <1>3. /\ Len(data) = Len(base) + Len(args)
        /\ \A i \in 1 .. Len(base) + Len(args) :
              data[i] = IF i <= Len(base) THEN base[i] ELSE args[i - Len(base)]
    BY <1>1, <1>2, ConcatProperties
  <1>4. Len(args) \in Nat
    OBVIOUS
  <1>5. \A i \in 1 .. 5 + Len(args) : data[i] = IF i <= 5 THEN base[i] ELSE args[i - 5]
    BY <1>1, <1>3
  <1>6. ASSUME NEW i \in 1 .. Len(args)
        PROVE  data[5 + i] = args[i]
    <2>1. 5 + i \in 1 .. 5 + Len(args) /\ ~(5 + i <= 5) /\ 5 + i - 5 = i
      BY <1>4
    <2> QED
      BY <1>5, <2>1
  <1> QED
    BY <1>1, <1>3, <1>4, <1>5, <1>6

CallData(data) ==
  /\ Len(data) \in {5, 6, 8}
  /\ data[1].w = 1 /\ data[2].w = 256 /\ data[3].w = 64 /\ data[4].w = 32 /\ data[5].w = 32
  /\ Len(data) = 6 => data[6].w = 64
  /\ Len(data) = 8 => data[6].w = 32 /\ data[7].w = 1 /\ data[8].w = 8

LEMMA CallBits ==
  ASSUME NEW data, CallData(data)
  PROVE  BitsOf(data) \in {385, 449, 426}
  <1> USE DEF CallData
  <1>1. \A i \in 1 .. Len(data) : data[i].w \in Nat
    <2> SUFFICES ASSUME NEW i \in 1 .. Len(data) PROVE data[i].w \in Nat
      OBVIOUS
    <2>1. CASE i <= 5
      <3>1. i = 1 \/ i = 2 \/ i = 3 \/ i = 4 \/ i = 5
        BY <2>1
      <3> QED
        BY <3>1
    <2>2. CASE i > 5 /\ Len(data) = 5
      BY <2>2
    <2>3. CASE i > 5 /\ Len(data) = 6
      <3>1. i = 6
        BY <2>3
      <3> QED
        BY <2>3, <3>1
    <2>4. CASE i > 5 /\ Len(data) = 8
      <3>1. i = 6 \/ i = 7 \/ i = 8
        BY <2>4
      <3> QED
        BY <2>4, <3>1
    <2> QED
      BY <2>1, <2>2, <2>3, <2>4
  <1>2. Len(data) \in Nat
    OBVIOUS
  <1>3. PICK u : AddedUp(u, data) /\ BitsOf(data) = u[Len(data)]
    BY <1>1, <1>2, BitsAddUp
  <1>4. u[0] = 0 /\ \A i \in 1 .. Len(data) : u[i] = u[i - 1] + data[i].w
    BY <1>3 DEF AddedUp
  <1>5. /\ u[1] = u[0] + data[1].w /\ u[2] = u[1] + data[2].w /\ u[3] = u[2] + data[3].w
        /\ u[4] = u[3] + data[4].w /\ u[5] = u[4] + data[5].w
    <2>1. 1 \in 1 .. Len(data) /\ 2 \in 1 .. Len(data) /\ 3 \in 1 .. Len(data)
            /\ 4 \in 1 .. Len(data) /\ 5 \in 1 .. Len(data)
      OBVIOUS
    <2>2. 1 - 1 = 0 /\ 2 - 1 = 1 /\ 3 - 1 = 2 /\ 4 - 1 = 3 /\ 5 - 1 = 4
      OBVIOUS
    <2> QED
      BY <1>4, <2>1, <2>2
  <1>6. u[5] = 385
    BY <1>4, <1>5
  <1>7. CASE Len(data) = 5
    BY <1>3, <1>6, <1>7
  <1>8. CASE Len(data) = 6
    <2>1. 6 \in 1 .. Len(data) /\ 6 - 1 = 5
      BY <1>8
    <2>2. u[6] = u[5] + data[6].w
      BY <1>4, <2>1
    <2> QED
      BY <1>3, <1>6, <1>8, <2>2
  <1>9. CASE Len(data) = 8
    <2>1. 6 \in 1 .. Len(data) /\ 6 - 1 = 5 /\ 7 \in 1 .. Len(data) /\ 7 - 1 = 6
            /\ 8 \in 1 .. Len(data) /\ 8 - 1 = 7
      BY <1>9
    <2>2. u[6] = u[5] + data[6].w /\ u[7] = u[6] + data[7].w /\ u[8] = u[7] + data[8].w
      BY <1>4, <2>1
    <2> QED
      BY <1>3, <1>6, <1>9, <2>2
  <1> QED
    BY <1>7, <1>8, <1>9

LEMMA RootBits ==
  ASSUME NEW m, NEW id, NEW refs, NEW n, NEW x,
         NEW args, args \in {<< >>, <<Fld(64, x)>>, <<Fld(32, n), Fld(1, 1), Fld(8, 1)>>}
  PROVE  TakesAddress(CallRoot(m, id, args, refs))
  <1> DEFINE a == Fld(1, 1)
             b == Fld(256, "pubkey")
             c == Fld(64, 0)
             d == Fld(32, 0)
             e == Fld(32, id)
             S == {a, b, c, d, e, Fld(64, x), Fld(32, n), Fld(8, 1)}
             data == <<a, b, c, d, e>> \o args
  <1>1. BitLen(CallRoot(m, id, args, refs)) = BitsOf(data)
    BY DEF BitLen, CallRoot, Cell
  <1>2. a.w = 1 /\ b.w = 256 /\ c.w = 64 /\ d.w = 32 /\ e.w = 32
    BY DEF Fld
  <1>3. /\ Len(args) \in {0, 1, 3}
        /\ Len(args) = 1 => args[1].w = 64
        /\ Len(args) = 3 => args[1].w = 32 /\ args[2].w = 1 /\ args[3].w = 8
    BY DEF Fld
  <1>4. a \in S /\ b \in S /\ c \in S /\ d \in S /\ e \in S /\ args \in Seq(S)
    <2>1. a \in S /\ b \in S /\ c \in S /\ d \in S /\ e \in S
      <3> HIDE DEF a, b, c, d, e
      <3> QED
        BY DEF S
    <2>2. Fld(64, x) \in S /\ Fld(32, n) \in S /\ Fld(1, 1) \in S /\ Fld(8, 1) \in S
      OBVIOUS
    <2> HIDE DEF a, b, c, d, e, S
    <2>3. args \in Seq(S)
      <3>1. {<< >>, <<Fld(64, x)>>, <<Fld(32, n), Fld(1, 1), Fld(8, 1)>>} \subseteq Seq(S)
        <4>1. /\ << >> \in Seq(S) /\ <<Fld(64, x)>> \in Seq(S)
              /\ <<Fld(32, n), Fld(1, 1), Fld(8, 1)>> \in Seq(S)
          <5> DEFINE p == Fld(64, x)
                     q == Fld(32, n)
                     r == Fld(1, 1)
                     t == Fld(8, 1)
          <5>1. p \in S /\ q \in S /\ r \in S /\ t \in S
            BY <2>2
          <5>2. << >> \in Seq(S) /\ <<p>> \in Seq(S) /\ <<q, r, t>> \in Seq(S)
            <6> HIDE DEF p, q, r, t
            <6> QED
              BY <5>1
          <5> QED
            BY <5>2
        <4> QED
          BY <4>1, Zenon
      <3> QED
        BY <3>1, Zenon
    <2> QED
      BY <2>1, <2>3
  <1> HIDE DEF a, b, c, d, e, S, data
  <1>5. /\ Len(data) = 5 + Len(args)
        /\ data[1] = a /\ data[2] = b /\ data[3] = c /\ data[4] = d /\ data[5] = e
        /\ \A i \in 1 .. Len(args) : data[5 + i] = args[i]
    BY <1>4, FiveAnd DEF data
  <1>6. /\ Len(data) \in {5, 6, 8}
        /\ Len(data) = 6 => Len(args) = 1 /\ data[6] = args[1]
        /\ Len(data) = 8 => /\ Len(args) = 3 /\ data[6] = args[1] /\ data[7] = args[2]
                            /\ data[8] = args[3]
    <2>1. 5 + 1 = 6 /\ 5 + 2 = 7 /\ 5 + 3 = 8
      OBVIOUS
    <2>2. Len(args) = 1 => 1 \in 1 .. Len(args)
      OBVIOUS
    <2>3. Len(args) = 3 => 1 \in 1 .. Len(args) /\ 2 \in 1 .. Len(args) /\ 3 \in 1 .. Len(args)
      OBVIOUS
    <2>4. Len(args) = 1 => data[6] = args[1]
      BY <1>5, <2>1, <2>2
    <2>5. Len(args) = 3 => data[6] = args[1] /\ data[7] = args[2] /\ data[8] = args[3]
      BY <1>5, <2>1, <2>3
    <2> QED
      BY <1>3, <1>5, <2>4, <2>5
  <1>7. BitsOf(data) \in {385, 449, 426}
    <2>1. /\ data[1].w = 1 /\ data[2].w = 256 /\ data[3].w = 64 /\ data[4].w = 32
          /\ data[5].w = 32
      BY <1>2, <1>5, Zenon
    <2>2. Len(data) = 6 => data[6].w = 64
      BY <1>3, <1>6, Zenon
    <2>3. Len(data) = 8 => data[6].w = 32 /\ data[7].w = 1 /\ data[8].w = 8
      BY <1>3, <1>6, Zenon
    <2>4. CallData(data)
      BY <1>6, <2>1, <2>2, <2>3, Zenon DEF CallData
    <2> QED
      BY <2>4, CallBits
  <1>8. /\ 385 % 8 # 0 /\ 385 + 267 < 1024
        /\ 449 % 8 # 0 /\ 449 + 267 < 1024
        /\ 426 % 8 # 0 /\ 426 + 267 < 1024
    OBVIOUS
  <1> QED
    BY <1>1, <1>7, <1>8 DEF TakesAddress

LEMMA TuplesAreSequences ==
  \A a, b, c, d :
    /\ IsSequence(<<a>>) /\ IsSequence(<<a, b>>) /\ IsSequence(<<a, b, c>>)
    /\ IsSequence(<<a, b, c, d>>)
  <1> SUFFICES ASSUME NEW a, NEW b, NEW c, NEW d
               PROVE  IsSequence(<<a>>) /\ IsSequence(<<a, b>>) /\ IsSequence(<<a, b, c>>)
                        /\ IsSequence(<<a, b, c, d>>)
    OBVIOUS
  <1> DEFINE S == {a, b, c, d}
  <1>1. /\ <<a>> \in Seq(S) /\ <<a, b>> \in Seq(S) /\ <<a, b, c>> \in Seq(S)
        /\ <<a, b, c, d>> \in Seq(S)
    OBVIOUS
  <1>2. \A s \in Seq(S) : IsSequence(s)
    <2> HIDE DEF S
    <2> QED
      BY LenProperties DEF IsSequence
  <1> QED
    BY <1>1, <1>2

MessageIsTree(m) ==
  /\ IsSequence(MessageCells(m)) /\ ProperTree(MessageCells(m))
  /\ m.wallet \in PrependedWallets => TakesAddress(MessageCells(m)[1])

LEMMA FirstOfTuple ==
  \A a, b, c, d : <<a>>[1] = a /\ <<a, b>>[1] = a /\ <<a, b, c>>[1] = a /\ <<a, b, c, d>>[1] = a
  OBVIOUS

LEMMA OneTree ==
  ASSUME NEW m, NEW cells, MessageCells(m) = cells, IsSequence(cells), ProperTree(cells),
         NEW root, cells[1] = root, m.wallet \in PrependedWallets => TakesAddress(root)
  PROVE  MessageIsTree(m)
  BY Zenon DEF MessageIsTree

\* Every message is a proper tree.
LEMMA EveryMessage ==
  ASSUME NEW m
  PROVE  MessageIsTree(m)
  <1>1. CASE m.wallet = WALLET_V3
    <2> USE DEF MessageIsTree
    <2>1. Ordinary(V3Root(m), <<1>>)
      BY CellIsOrdinary DEF V3Root
    <2>2. Ordinary(V3Gift(m), IF BodyData(m) = << >> THEN << >> ELSE <<2>>)
      BY CellIsOrdinary, Zenon DEF V3Gift
    <2>3. m.wallet \notin PrependedWallets
      BY <1>1 DEF PrependedWallets, WALLET_V3, EVER_WALLET, MULTISIG_2, MULTISIG_2_1
    <2>4. CASE BodyData(m) = << >>
      <3>1. MessageCells(m) = <<V3Root(m), V3Gift(m)>>
        BY <1>1, <2>4, Tuples, Zenon DEF MessageCells
      <3>2. Ordinary(V3Gift(m), << >>)
        BY <2>2, <2>4
      <3> QED
        BY <2>1, <2>3, <3>1, <3>2, SmallTrees, TuplesAreSequences
    <2>5. CASE BodyData(m) # << >>
      <3> DEFINE body == Cell(BodyData(m), << >>)
      <3>1. MessageCells(m) = <<V3Root(m), V3Gift(m), body>>
        BY <1>1, <2>5, Tuples, Zenon DEF MessageCells
      <3>2. Ordinary(V3Gift(m), <<2>>) /\ Ordinary(body, << >>)
        BY <2>2, <2>5, CellIsOrdinary
      <3> HIDE DEF body
      <3> QED
        BY <2>1, <2>3, <3>1, <3>2, SmallTrees, TuplesAreSequences
    <2> QED
      BY <2>4, <2>5
  <1>2. ASSUME m.wallet # WALLET_V3, m.kind = "deploy"
        PROVE  MessageIsTree(m)
    <2> DEFINE args == <<Fld(32, m.owners), Fld(1, 1), Fld(8, 1)>>
               root == CallRoot(m, CallId(m), args, <<1>>)
    <2>1. Ordinary(root, <<1>>)
      BY CellIsOrdinary DEF CallRoot
    <2>2. TakesAddress(root)
      <3>1. args \in {<< >>, <<Fld(64, m.to)>>, <<Fld(32, m.owners), Fld(1, 1), Fld(8, 1)>>}
        OBVIOUS
      <3> HIDE DEF args
      <3> QED
        BY <3>1, RootBits
    <2>3. MessageCells(m) = <<root>> \o Owners(m.owners)
      BY <1>2, Zenon DEF MessageCells
    <2> HIDE DEF root
    <2>4. CASE m.owners = 1
      <3>1. PICK only : Owners(m.owners) = <<only>> /\ Ordinary(only, << >>)
        BY <2>4, CellIsOrdinary DEF Owners
      <3>2. MessageCells(m) = <<root, only>>
        BY <2>3, <3>1, Tuples
      <3>3. ProperTree(<<root, only>>)
        BY <2>1, <3>1, SmallTrees, Zenon
      <3>4. IsSequence(<<root, only>>) /\ <<root, only>>[1] = root
        BY TuplesAreSequences, FirstOfTuple, Zenon
      <3> QED
        BY <2>2, <3>2, <3>3, <3>4, OneTree, Zenon
    <2>5. CASE m.owners # 1
      <3>1. PICK fork, left, right :
              /\ Owners(m.owners) = <<fork, left, right>>
              /\ Ordinary(fork, <<2, 3>>) /\ Ordinary(left, << >>) /\ Ordinary(right, << >>)
        <4> DEFINE fork == Cell(<<Fld(33, 2)>>, <<2, 3>>)
                   left == Cell(<<Fld(32, 3), Fld(227, "owner")>>, << >>)
                   right == Cell(<<Fld(32, 4), Fld(227, "owner")>>, << >>)
        <4>1. Owners(m.owners) = <<fork, left, right>>
          BY <2>5 DEF Owners
        <4>2. Ordinary(fork, <<2, 3>>) /\ Ordinary(left, << >>) /\ Ordinary(right, << >>)
          BY CellIsOrdinary
        <4> HIDE DEF fork, left, right
        <4> QED
          BY <4>1, <4>2
      <3>2. MessageCells(m) = <<root, fork, left, right>>
        BY <2>3, <3>1, Tuples
      <3>3. ProperTree(<<root, fork, left, right>>)
        BY <2>1, <3>1, SmallTrees, Zenon
      <3>4. IsSequence(<<root, fork, left, right>>) /\ <<root, fork, left, right>>[1] = root
        BY TuplesAreSequences, FirstOfTuple, Zenon
      <3> QED
        BY <2>2, <3>2, <3>3, <3>4, OneTree, Zenon
    <2> QED
      BY <2>4, <2>5
  <1>3. ASSUME m.wallet # WALLET_V3, m.kind = "confirm"
        PROVE  MessageIsTree(m)
    <2>1. CASE m.wallet \in MultisigWallets
      <3> DEFINE root == CallRoot(m, CallId(m), <<Fld(64, m.to)>>, << >>)
      <3>1. Ordinary(root, << >>)
        BY CellIsOrdinary DEF CallRoot
      <3>2. MessageCells(m) = <<root>>
        BY <1>3, <2>1, Zenon DEF MessageCells
      <3>3. m.wallet \notin PrependedWallets
        BY <2>1 DEF PrependedWallets, MultisigWallets, EVER_WALLET, MULTISIG_2, MULTISIG_2_1,
             SAFE_MULTISIG_WALLET, SAFE_MULTISIG_WALLET_24H, SETCODE_MULTISIG_WALLET,
             BRIDGE_MULTISIG_WALLET, SURF_WALLET
      <3> HIDE DEF root
      <3> QED
        BY <3>1, <3>2, <3>3, SmallTrees, TuplesAreSequences, FirstOfTuple, OneTree, Zenon
    <2>2. CASE m.wallet \notin MultisigWallets
      <3> DEFINE root == CallRoot(m, CallId(m), << >>, <<1>>)
                 id == Cell(<<Fld(64, m.to)>>, << >>)
      <3>1. Ordinary(root, <<1>>) /\ Ordinary(id, << >>)
        BY CellIsOrdinary DEF CallRoot
      <3>2. MessageCells(m) = <<root, id>>
        BY <1>3, <2>2, Zenon DEF MessageCells
      <3>3. TakesAddress(root)
        BY RootBits
      <3> HIDE DEF root, id
      <3>4. ProperTree(<<root, id>>)
        BY <3>1, SmallTrees, Zenon
      <3>5. IsSequence(<<root, id>>) /\ <<root, id>>[1] = root
        BY TuplesAreSequences, FirstOfTuple, Zenon
      <3> QED
        BY <3>2, <3>3, <3>4, <3>5, OneTree, Zenon
    <2> QED
      BY <2>1, <2>2
  <1>4. ASSUME m.wallet # WALLET_V3, m.kind # "deploy", m.kind # "confirm"
        PROVE  MessageIsTree(m)
    <2> DEFINE root == CallRoot(m, CallId(m), << >>, <<1>>)
               body == Cell(BodyData(m), << >>)
    <2>1. Ordinary(root, <<1>>) /\ Ordinary(CallArgs(m), <<2>>) /\ Ordinary(body, << >>)
      BY CellIsOrdinary, Zenon DEF CallRoot, CallArgs
    <2>2. MessageCells(m) = <<root, CallArgs(m), body>>
      BY <1>4, Zenon DEF MessageCells
    <2>3. TakesAddress(root)
      BY RootBits
    <2> HIDE DEF root, body
    <2>4. ProperTree(<<root, CallArgs(m), body>>)
      BY <2>1, SmallTrees, Zenon
    <2>5. /\ IsSequence(<<root, CallArgs(m), body>>)
          /\ <<root, CallArgs(m), body>>[1] = root
      BY TuplesAreSequences, FirstOfTuple, Zenon
    <2> QED
      BY <2>2, <2>3, <2>4, <2>5, OneTree, Zenon
  <1> QED
    BY <1>1, <1>2, <1>3, <1>4

\* And is sent as one.
LEMMA MessageSent ==
  ASSUME NEW m, NEW h, m.wallet = WalletOf(h)
  PROVE  /\ IsSequence(Message(m))
         /\ SentTree(Message(m), h) /\ SentCells(Message(m)) = MessageCells(m)
  <1> DEFINE cells == MessageCells(m)
             hdr == Header(Len(cells))
  <1>1. MessageIsTree(m)
    BY EveryMessage
  <1>2. Message(m) = <<hdr>> \o cells
    BY DEF Message
  <1>3. hdr.kind = "boc" /\ hdr.cells_count = Len(cells) /\ Len(cells) \in Nat
    BY <1>1 DEF Header, MessageIsTree, IsSequence
  <1> HIDE DEF cells, hdr
  <1>4. /\ IsSequence(Message(m)) /\ Head(Message(m)) = hdr
        /\ Len(Message(m)) = Len(cells) + 1 /\ SentCells(Message(m)) = cells
    BY <1>1, <1>2, StreamOf DEF MessageIsTree, cells
  <1>5. Len(cells) = Len(Message(m)) - 1
    BY <1>3, <1>4
  <1> QED
    BY <1>1, <1>3, <1>4, <1>5 DEF MessageIsTree, SentTree, cells

-----------------------------------------------------------------------------
(***************************************************************************)
(* Wallet addresses.  A label of a dictionary is read as it was written:   *)
(* the fields of a cell add up, and each of its bits is read where it is.  *)
(***************************************************************************)

\* The first fields of a cell add up as all of them do.
LEMMA PrefixBits ==
  ASSUME NEW S, NEW data \in Seq(S), \A i \in 1 .. Len(data) : data[i].w \in Nat,
         NEW u, AddedUp(u, data), NEW k \in 0 .. Len(data)
  PROVE  BitsOf(SubSeq(data, 1, k)) = u[k]
  <1> DEFINE part == SubSeq(data, 1, k)
  <1>1. Len(data) \in Nat /\ k \in Nat /\ k <= Len(data)
    OBVIOUS
  <1>2. Len(part) = k /\ \A i \in 1 .. k : part[i] = data[i]
    <2>1. \A i \in 1 .. k : data[i] \in S
      BY <1>1, ElementOfSeq
    <2>2. part \in Seq(S) /\ Len(part) = k /\ \A i \in 1 .. k : part[i] = data[i]
      BY <1>1, <2>1, SubSeqProperties
    <2> QED
      BY <2>2
  <1> HIDE DEF part
  <1>3. \A i \in 1 .. k : i \in 1 .. Len(data)
    BY <1>1
  <1>4. PICK v : AddedUp(v, part) /\ BitsOf(part) = v[Len(part)]
    <2>1. \A i \in 1 .. Len(part) : part[i].w \in Nat
      BY <1>2, <1>3
    <2> QED
      BY <1>1, <1>2, <2>1, BitsAddUp
  <1> DEFINE T == {m \in Nat : m <= k => v[m] = u[m]}
  <1>5. 0 \in T
    BY <1>4 DEF AddedUp
  <1>6. ASSUME NEW m \in Nat, m \in T
        PROVE  m + 1 \in T
    <2> SUFFICES ASSUME m + 1 <= k PROVE v[m + 1] = u[m + 1]
      OBVIOUS
    <2>1. m + 1 \in 1 .. k /\ (m + 1) - 1 = m /\ v[m] = u[m]
      BY <1>1, <1>6
    <2>2. v[m + 1] = v[m] + part[m + 1].w
      BY <1>2, <1>4, <2>1 DEF AddedUp
    <2>3. u[m + 1] = u[m] + data[m + 1].w
      BY <1>3, <2>1 DEF AddedUp
    <2> QED
      BY <1>2, <2>1, <2>2, <2>3
  <1>7. T = Nat
    <2>1. T \in SUBSET Nat
      OBVIOUS
    <2> HIDE DEF T
    <2> QED
      BY <1>5, <1>6, <2>1, EveryCount
  <1>8. v[k] = u[k]
    BY <1>1, <1>7
  <1> QED
    BY <1>2, <1>4, <1>8 DEF part

\* A read of the bits of field j.
LEMMA FieldIs ==
  ASSUME NEW s, NEW bits, Len(s.data) \in Nat, NEW j \in 1 .. Len(s.data), s.data[j].w = bits,
         BitsOf(SubSeq(s.data, 1, j - 1)) = s.pos,
         \A i \in 1 .. Len(s.data) : i # j => BitsOf(SubSeq(s.data, 1, i - 1)) # s.pos
  PROVE  FieldAt(s, bits) = s.data[j].v
  <1> DEFINE here == {i \in 1 .. Len(s.data) :
                        /\ BitsOf(SubSeq(s.data, 1, i - 1)) = s.pos
                        /\ s.data[i].w = bits}
  <1>1. here = {j}
    OBVIOUS
  <1>2. FieldAt(s, bits) = IF here = {} THEN Junk ELSE s.data[CHOOSE i \in here : TRUE].v
    BY DEF FieldAt
  <1> HIDE DEF here
  <1>3. (CHOOSE i \in here : TRUE) = j
    BY <1>1
  <1>4. here # {}
    BY <1>1
  <1> QED
    BY <1>2, <1>3, <1>4

(***************************************************************************)
(* The data of a dictionary cell: a label of n zeros, n written in w bits, *)
(* and perhaps the place of the key.                                       *)
(***************************************************************************)
LabelData(data, w, n) ==
  /\ Len(data) \in {4, 5} /\ \E S : data \in Seq(S)
  /\ data[1] = Fld(1, 1) /\ data[2] = Fld(1, 1) /\ data[3] = Fld(1, 0) /\ data[4] = Fld(w, n)
  /\ Len(data) = 5 => data[5].w = 256

LabelSums(data, w) ==
  /\ BitsOf(SubSeq(data, 1, 0)) = 0 /\ BitsOf(SubSeq(data, 1, 1)) = 1
  /\ BitsOf(SubSeq(data, 1, 2)) = 2 /\ BitsOf(SubSeq(data, 1, 3)) = 3
  /\ BitsOf(SubSeq(data, 1, 4)) = 3 + w
  /\ Len(data) = 5 => BitsOf(SubSeq(data, 1, 5)) = 259 + w
  /\ BitsOf(data) = IF Len(data) = 5 THEN 259 + w ELSE 3 + w

LEMMA LabelBits ==
  ASSUME NEW data, NEW w \in 1 .. 16, NEW n, LabelData(data, w, n)
  PROVE  LabelSums(data, w)
  <1>1. PICK S : data \in Seq(S)
    BY DEF LabelData
  <1>2. /\ data[1].w = 1 /\ data[2].w = 1 /\ data[3].w = 1 /\ data[4].w = w
        /\ Len(data) = 5 => data[5].w = 256
    BY DEF LabelData, Fld
  <1>3. Len(data) \in {4, 5}
    BY DEF LabelData
  <1>4. /\ 0 \in 0 .. Len(data) /\ 1 \in 0 .. Len(data) /\ 2 \in 0 .. Len(data)
        /\ 3 \in 0 .. Len(data) /\ 4 \in 0 .. Len(data) /\ (Len(data) = 5 => 5 \in 0 .. Len(data))
        /\ 1 \in 1 .. Len(data) /\ 2 \in 1 .. Len(data) /\ 3 \in 1 .. Len(data)
        /\ 4 \in 1 .. Len(data) /\ (Len(data) = 5 => 5 \in 1 .. Len(data))
    <2> DEFINE l == Len(data)
    <2>1. l \in {4, 5}
      BY <1>3
    <2> HIDE DEF l
    <2>2. /\ 0 \in 0 .. l /\ 1 \in 0 .. l /\ 2 \in 0 .. l
          /\ 3 \in 0 .. l /\ 4 \in 0 .. l /\ (l = 5 => 5 \in 0 .. l)
          /\ 1 \in 1 .. l /\ 2 \in 1 .. l /\ 3 \in 1 .. l
          /\ 4 \in 1 .. l /\ (l = 5 => 5 \in 1 .. l)
      BY <2>1
    <2> QED
      BY <2>2 DEF l
  <1>5. \A i \in 1 .. Len(data) : data[i].w \in Nat
    <2> SUFFICES ASSUME NEW i \in 1 .. Len(data) PROVE data[i].w \in Nat
      OBVIOUS
    <2>1. i \in {1, 2, 3, 4} \/ (i = 5 /\ Len(data) = 5)
      <3> DEFINE l == Len(data)
      <3>1. i \in 1 .. l /\ l \in {4, 5}
        BY <1>3
      <3> HIDE DEF l
      <3>2. i \in {1, 2, 3, 4} \/ (i = 5 /\ l = 5)
        BY <3>1
      <3> QED
        BY <3>2 DEF l
    <2>2. w \in Nat
      OBVIOUS
    <2> QED
      BY <1>2, <2>1, <2>2
  <1>6. PICK u : AddedUp(u, data) /\ BitsOf(data) = u[Len(data)]
    BY <1>3, <1>5, BitsAddUp
  <1>7. \A k \in 0 .. Len(data) : BitsOf(SubSeq(data, 1, k)) = u[k]
    BY <1>1, <1>5, <1>6, PrefixBits
  <1>8. /\ u[0] = 0 /\ u[1] = u[0] + data[1].w /\ u[2] = u[1] + data[2].w
        /\ u[3] = u[2] + data[3].w /\ u[4] = u[3] + data[4].w
        /\ Len(data) = 5 => u[5] = u[4] + data[5].w
    <2>1. /\ 1 \in 1 .. Len(data) /\ 2 \in 1 .. Len(data) /\ 3 \in 1 .. Len(data)
          /\ 4 \in 1 .. Len(data) /\ (Len(data) = 5 => 5 \in 1 .. Len(data))
      BY <1>4
    <2>2. 1 - 1 = 0 /\ 2 - 1 = 1 /\ 3 - 1 = 2 /\ 4 - 1 = 3 /\ 5 - 1 = 4
      OBVIOUS
    <2> QED
      BY <1>6, <2>1, <2>2 DEF AddedUp
  <1>9. /\ u[0] = 0 /\ u[1] = 1 /\ u[2] = 2 /\ u[3] = 3 /\ u[4] = 3 + w
        /\ Len(data) = 5 => u[5] = 259 + w
    <2>1. u[1] = 1 /\ u[2] = 2 /\ u[3] = 3
      BY <1>2, <1>8
    <2>2. u[4] = 3 + w
      BY <1>2, <1>8, <2>1
    <2>3. Len(data) = 5 => u[5] = (3 + w) + 256
      BY <1>2, <1>8, <2>2
    <2>4. (3 + w) + 256 = 259 + w
      OBVIOUS
    <2> QED
      BY <1>8, <2>1, <2>2, <2>3, <2>4
  <1>10. BitsOf(data) = IF Len(data) = 5 THEN 259 + w ELSE 3 + w
    BY <1>3, <1>6, <1>9
  <1> QED
    BY <1>7, <1>9, <1>4, <1>10, Zenon DEF LabelSums

\* Where each field of a label is read.
LEMMA LabelField ==
  ASSUME NEW data, NEW w \in 1 .. 16, NEW n, LabelData(data, w, n), NEW s, s.data = data
  PROVE  /\ s.pos = 0 => FieldAt(s, 1) = 1
         /\ s.pos = 1 => FieldAt(s, 1) = 1
         /\ s.pos = 2 => FieldAt(s, 1) = 0
         /\ s.pos = 3 => FieldAt(s, w) = n
  <1>1. LabelSums(data, w)
    BY LabelBits
  <1>2. /\ data[1].w = 1 /\ data[2].w = 1 /\ data[3].w = 1 /\ data[4].w = w
        /\ data[1].v = 1 /\ data[2].v = 1 /\ data[3].v = 0 /\ data[4].v = n
        /\ Len(data) \in {4, 5}
    BY DEF LabelData, Fld
  <1> DEFINE l == Len(data)
             sum == [i \in 1 .. 5 |-> IF i = 5 THEN 3 + w ELSE i - 1]
  <1>3. l \in {4, 5}
    BY <1>2
  <1>4. ASSUME NEW i \in 1 .. l
        PROVE  BitsOf(SubSeq(data, 1, i - 1)) = sum[i] /\ i \in 1 .. 5
    <2>1. i \in {1, 2, 3, 4, 5}
      <3> HIDE DEF l, sum
      <3> QED
        BY <1>3
    <2>2. /\ sum[1] = 0 /\ sum[2] = 1 /\ sum[3] = 2 /\ sum[4] = 3 /\ sum[5] = 3 + w
          /\ 1 - 1 = 0 /\ 2 - 1 = 1 /\ 3 - 1 = 2 /\ 4 - 1 = 3 /\ 5 - 1 = 4
      OBVIOUS
    <2> HIDE DEF sum, l
    <2> QED
      BY <1>1, <2>1, <2>2 DEF LabelSums
  <1>5. \A i, j \in 1 .. 5 : i # j => sum[i] # sum[j]
    BY w \in Nat /\ w >= 1
  <1>6. sum[1] = 0 /\ sum[2] = 1 /\ sum[3] = 2 /\ sum[4] = 3
    OBVIOUS
  <1> HIDE DEF sum
  <1>7. ASSUME NEW j \in {1, 2, 3, 4}, s.pos = sum[j]
        PROVE  FieldAt(s, data[j].w) = data[j].v
    <2>1. j \in 1 .. l /\ l \in Nat
      <3> HIDE DEF l
      <3> QED
        BY <1>3
    <2>2. BitsOf(SubSeq(data, 1, j - 1)) = s.pos
      BY <1>4, <1>7, <2>1
    <2>3. \A i \in 1 .. l : i # j => BitsOf(SubSeq(data, 1, i - 1)) # s.pos
      BY <1>4, <1>5, <1>7, <2>1
    <2> QED
      BY <2>1, <2>2, <2>3, FieldIs
  <1> QED
    BY <1>2, <1>6, <1>7

\* A read that fits.
Cursor(s, data, pos, end) ==
  /\ DOMAIN s = {"data", "pos", "end", "val", "err"}
  /\ s.data = data /\ s.pos = pos /\ s.end = end /\ s.err = SUCCESS

Reads(s, bits, data, pos, next, end, value) ==
  (Cursor(s, data, pos, end) /\ FieldAt(s, bits) = value) =>
     Cursor(Next_int(s, bits), data, next, end) /\ Next_int(s, bits).val = value

LEMMA ReadsField ==
  ASSUME NEW s, NEW data, NEW pos \in Nat, NEW end \in Nat,
         NEW bits \in Nat, NEW next, next = pos + bits, next <= end, NEW value
  PROVE  Reads(s, bits, data, pos, next, end, value)
  <1> SUFFICES ASSUME Cursor(s, data, pos, end), FieldAt(s, bits) = value
               PROVE  Cursor(Next_int(s, bits), data, next, end)
                      /\ Next_int(s, bits).val = value
    BY Zenon DEF Reads
  <1>1. ~(bits > RemainingBits(s))
    BY DEF Cursor, RemainingBits
  <1>2. Next_int(s, bits) = [s EXCEPT !.val = FieldAt(s, bits), !.pos = @ + bits]
    BY <1>1 DEF Next_int, Cursor
  <1> QED
    BY <1>2 DEF Cursor

LEMMA ExpectsField ==
  ASSUME NEW s, NEW data, NEW pos, NEW end, Cursor(s, data, pos, end), NEW values,
         s.val \in values, NEW code
  PROVE  Expect(s, values, code) = s
  BY DEF Expect, Validate

LabelSteps(s, data, w, n, end) ==
  /\ Cursor(s, data, 0, end) =>
       Cursor(Next_int(s, 1), data, 1, end) /\ Next_int(s, 1).val = 1
  /\ Cursor(s, data, 1, end) =>
       Cursor(Next_int(s, 1), data, 2, end) /\ Next_int(s, 1).val = 1
  /\ Cursor(s, data, 2, end) =>
       Cursor(Next_int(s, 1), data, 3, end) /\ Next_int(s, 1).val = 0
  /\ Cursor(s, data, 3, end) =>
       Cursor(Next_int(s, w), data, 3 + w, end) /\ Next_int(s, w).val = n

LEMMA LabelStep ==
  ASSUME NEW data, NEW w \in 1 .. 16, NEW n, LabelData(data, w, n),
         NEW end \in Nat, 3 + w <= end, NEW s
  PROVE  LabelSteps(s, data, w, n, end)
  <1>1. ASSUME Cursor(s, data, 0, end)
        PROVE  Cursor(Next_int(s, 1), data, 1, end) /\ Next_int(s, 1).val = 1
    <2>1. FieldAt(s, 1) = 1
      BY <1>1, LabelField DEF Cursor
    <2>2. Reads(s, 1, data, 0, 1, end, 1)
      <3>1. 1 = 0 + 1 /\ 0 \in Nat /\ 1 \in Nat /\ 1 <= end
        OBVIOUS
      <3> QED
        BY <3>1, ReadsField
    <2> QED
      BY <1>1, <2>1, <2>2, Zenon DEF Reads
  <1>2. ASSUME Cursor(s, data, 1, end)
        PROVE  Cursor(Next_int(s, 1), data, 2, end) /\ Next_int(s, 1).val = 1
    <2>1. FieldAt(s, 1) = 1
      BY <1>2, LabelField DEF Cursor
    <2>2. Reads(s, 1, data, 1, 2, end, 1)
      <3>1. 2 = 1 + 1 /\ 1 \in Nat /\ 1 \in Nat /\ 2 <= end
        OBVIOUS
      <3> QED
        BY <3>1, ReadsField
    <2> QED
      BY <1>2, <2>1, <2>2, Zenon DEF Reads
  <1>3. ASSUME Cursor(s, data, 2, end)
        PROVE  Cursor(Next_int(s, 1), data, 3, end) /\ Next_int(s, 1).val = 0
    <2>1. FieldAt(s, 1) = 0
      BY <1>3, LabelField DEF Cursor
    <2>2. Reads(s, 1, data, 2, 3, end, 0)
      <3>1. 3 = 2 + 1 /\ 2 \in Nat /\ 1 \in Nat /\ 3 <= end
        OBVIOUS
      <3> QED
        BY <3>1, ReadsField
    <2> QED
      BY <1>3, <2>1, <2>2, Zenon DEF Reads
  <1>4. ASSUME Cursor(s, data, 3, end)
        PROVE  Cursor(Next_int(s, w), data, 3 + w, end) /\ Next_int(s, w).val = n
    <2>1. FieldAt(s, w) = n
      BY <1>4, LabelField DEF Cursor
    <2>2. Reads(s, w, data, 3, 3 + w, end, n)
      <3>1. 3 + w = 3 + w /\ 3 \in Nat /\ w \in Nat /\ 3 + w <= end
        OBVIOUS
      <3> QED
        BY <3>1, ReadsField
    <2> QED
      BY <1>4, <2>1, <2>2, Zenon DEF Reads
  <1> QED
    BY <1>1, <1>2, <1>3, <1>4, Zenon DEF LabelSteps

\* The label of a node is read as it was written.
ReadsLabel(cell, max, n) ==
  get_label(cell, max) = [err |-> SUCCESS, same |-> 0, len |-> n]

LEMMA LabelRead ==
  ASSUME NEW w \in 1 .. 16, NEW n \in 0 .. 64, NEW cell, LabelData(cell.data, w, n),
         NEW max \in 1 .. 64, BitWidth(max) = w
  PROVE  ReadsLabel(cell, max, n)
  <1> DEFINE data == cell.data
             end == 8 * DataSize(cell)
             s0 == FromCell(cell)
             s1 == Next_int(s0, 1)
             s2 == Next_int(s1, 1)
             s3 == Next_int(s2, 1)
             s4 == Next_int(s3, w)
  <1>1. end \in Nat /\ 3 + w <= end /\ DataSize(cell) > 0
    <2> DEFINE bits == BitLen(cell)
               size == DataSize(cell)
    <2>1. bits \in {3 + w, 259 + w}
      <3>1. LabelSums(data, w)
        BY LabelBits
      <3> QED
        BY <3>1, Zenon DEF LabelSums, BitLen
    <2>2. size = (bits + 7) \div 8
      BY DEF DataSize
    <2> HIDE DEF bits, size
    <2>3. size \in Nat /\ 8 * size >= bits /\ size > 0
      BY <2>1, <2>2
    <2>4. end = 8 * size
      BY DEF size
    <2> QED
      BY <2>1, <2>3, <2>4 DEF size
  <1>2. Cursor(s0, data, 0, end)
    BY DEF FromCell, Cursor
  <1>3. Validate(s0, DataSize(cell) > 0, "ERR_SLICE_IS_EMPTY") = s0
    BY <1>1 DEF Validate
  <1>4. LabelData(data, w, n)
    OBVIOUS
  <1> HIDE DEF end, data, s0
  <1>5. Cursor(s1, data, 1, end) /\ s1.val = 1
    <2>1. LabelSteps(s0, data, w, n, end)
      BY <1>1, <1>4, LabelStep
    <2> QED
      BY <1>2, <2>1, Zenon DEF LabelSteps, s1
  <1>6. Expect(s1, {1}, "ERR_WRONG_LABEL") = s1
    BY <1>5, ExpectsField
  <1> HIDE DEF s1
  <1>7. Cursor(s2, data, 2, end) /\ s2.val = 1
    <2>1. LabelSteps(s1, data, w, n, end)
      BY <1>1, <1>4, LabelStep
    <2> QED
      BY <1>5, <2>1, Zenon DEF LabelSteps, s2
  <1>8. Expect(s2, {1}, "ERR_WRONG_LABEL") = s2
    BY <1>7, ExpectsField
  <1> HIDE DEF s2
  <1>9. Cursor(s3, data, 3, end) /\ s3.val = 0
    <2>1. LabelSteps(s2, data, w, n, end)
      BY <1>1, <1>4, LabelStep
    <2> QED
      BY <1>7, <2>1, Zenon DEF LabelSteps, s3
  <1> HIDE DEF s3
  <1>10. Cursor(s4, data, 3 + w, end) /\ s4.val = n
    <2>1. LabelSteps(s3, data, w, n, end)
      BY <1>1, <1>4, LabelStep
    <2> QED
      BY <1>9, <2>1, Zenon DEF LabelSteps, s4
  <1>11. Expect(s4, 0 .. 64, "ERR_RANGE_CHECK") = s4
    BY <1>10, ExpectsField
  <1>12. get_label_same(s3, max) = [err |-> SUCCESS, same |-> 0, len |-> n]
    <2>1. max # 0
      OBVIOUS
    <2>2. get_label_same(s3, max) = [err |-> s4.err, same |-> s3.val, len |-> s4.val]
      BY <1>11, <2>1 DEF get_label_same, s4
    <2> HIDE DEF s4
    <2> QED
      BY <1>9, <1>10, <2>2 DEF Cursor
  <1>13. get_label(cell, max) = get_label_same(s3, max)
    BY <1>3, <1>6, <1>8, Zenon DEF get_label, s0, s1, s2, s3
  <1> QED
    BY <1>12, <1>13 DEF ReadsLabel

-----------------------------------------------------------------------------
(***************************************************************************)
(* The walk to the cell of key 0 ends in two steps, and stays there.       *)
(***************************************************************************)

\* The widths of the labels that are met.
LEMMA Widths == BitWidth(64) = 7 /\ BitWidth(3) = 2
  <1>1. Cardinality({1, 2}) = 2 /\ IsFiniteSet({1, 2})
    <2>1. {1, 2} = {1} \cup {2} /\ 2 \notin {1}
      OBVIOUS
    <2>2. IsFiniteSet({1}) /\ Cardinality({1}) = 1
      BY FS_Singleton
    <2> QED
      BY <2>1, <2>2, FS_AddElement
  <1>2. ASSUME NEW S, IsFiniteSet(S), NEW n \in Nat, Cardinality(S) = n, NEW x, x \notin S
        PROVE  IsFiniteSet(S \cup {x}) /\ Cardinality(S \cup {x}) = n + 1
    BY <1>2, FS_AddElement
  <1>3. IsFiniteSet({1, 2, 4}) /\ Cardinality({1, 2, 4}) = 3
    <2>1. {1, 2, 4} = {1, 2} \cup {4} /\ 4 \notin {1, 2} /\ 2 + 1 = 3
      OBVIOUS
    <2> QED
      BY <1>1, <1>2, <2>1
  <1>4. IsFiniteSet({1, 2, 4, 8}) /\ Cardinality({1, 2, 4, 8}) = 4
    <2>1. {1, 2, 4, 8} = {1, 2, 4} \cup {8} /\ 8 \notin {1, 2, 4} /\ 3 + 1 = 4
      OBVIOUS
    <2> QED
      BY <1>3, <1>2, <2>1
  <1>5. IsFiniteSet({1, 2, 4, 8, 16}) /\ Cardinality({1, 2, 4, 8, 16}) = 5
    <2>1. {1, 2, 4, 8, 16} = {1, 2, 4, 8} \cup {16} /\ 16 \notin {1, 2, 4, 8} /\ 4 + 1 = 5
      OBVIOUS
    <2> QED
      BY <1>4, <1>2, <2>1
  <1>6. IsFiniteSet({1, 2, 4, 8, 16, 32}) /\ Cardinality({1, 2, 4, 8, 16, 32}) = 6
    <2>1. /\ {1, 2, 4, 8, 16, 32} = {1, 2, 4, 8, 16} \cup {32}
          /\ 32 \notin {1, 2, 4, 8, 16} /\ 5 + 1 = 6
      OBVIOUS
    <2> QED
      BY <1>5, <1>2, <2>1
  <1>7. Cardinality({1, 2, 4, 8, 16, 32, 64}) = 7
    <2>1. /\ {1, 2, 4, 8, 16, 32, 64} = {1, 2, 4, 8, 16, 32} \cup {64}
          /\ 64 \notin {1, 2, 4, 8, 16, 32} /\ 6 + 1 = 7
      OBVIOUS
    <2> QED
      BY <1>6, <1>2, <2>1
  <1>8. {power \in PowersOfTwo : power <= 64} = {1, 2, 4, 8, 16, 32, 64}
    BY DEF PowersOfTwo
  <1>9. {power \in PowersOfTwo : power <= 3} = {1, 2}
    BY DEF PowersOfTwo
  <1> QED
    BY <1>1, <1>7, <1>8, <1>9 DEF BitWidth

\* A walk that stays where its second step ends.
LEMMA WalkEnds ==
  ASSUME NEW cells, NEW first, NEW p1, visit(cells, Visit(first, 64)) = p1,
         NEW p2, visit(cells, p1) = p2, visit(cells, p2) = p2
  PROVE  put_to_node(cells, first, 64) = p2
  <1> DEFINE p0 == Visit(first, 64)
             D == {p0, p1, p2}
             IsWalk(f) == f = [k \in 0 .. 16 |-> IF k = 0 THEN p0 ELSE visit(cells, f[k - 1])]
             walk == CHOOSE f : IsWalk(f)
             step == [c \in 1 .. 16 |-> [v \in D |-> visit(cells, v)]]
  <1>1. put_to_node(cells, first, 64) = walk[16]
    BY DEF put_to_node, MAX_CONTRACT_CELLS_COUNT
  <1>2. p0 \in D /\ step \in [1 .. 16 -> [D -> D]]
    OBVIOUS
  <1>3. \A c \in 1 .. 16, v \in D : step[c][v] = visit(cells, v)
    OBVIOUS
  <1> HIDE DEF p0, D, step
  <1>4. PICK f : Iterated(f, D, 16, p0, step)
    BY <1>2, Iterates
  <1>5. IsWalk(f)
    <2>1. f \in [0 .. 16 -> D] /\ f[0] = p0 /\ \A c \in 1 .. 16 : f[c] = step[c][f[c - 1]]
      BY <1>4 DEF Iterated
    <2>2. ASSUME NEW k \in 0 .. 16
          PROVE  f[k] = IF k = 0 THEN p0 ELSE visit(cells, f[k - 1])
      <3>1. CASE k = 0
        BY <2>1, <3>1
      <3>2. CASE k # 0
        <4>1. k \in 1 .. 16 /\ k - 1 \in 0 .. 16
          BY <3>2
        <4>2. f[k - 1] \in D
          BY <2>1, <4>1
        <4> QED
          BY <1>3, <2>1, <3>2, <4>1, <4>2
      <3> QED
        BY <3>1, <3>2
    <2> QED
      BY <2>1, <2>2
  <1>6. IsWalk(walk)
    <2> HIDE DEF IsWalk
    <2> QED
      BY <1>5
  <1> HIDE DEF walk
  <1>7. walk[0] = p0 /\ \A k \in 1 .. 16 : walk[k] = visit(cells, walk[k - 1])
    <2>1. \A k \in 1 .. 16 : k \in 0 .. 16 /\ k # 0
      OBVIOUS
    <2>2. 0 \in 0 .. 16
      OBVIOUS
    <2> QED
      BY <1>6, <2>1, <2>2
  <1> HIDE DEF IsWalk
  <1> DEFINE T == {k \in Nat : k + 2 <= 16 => walk[k + 2] = p2}
  <1>8. 0 \in T
    <2>1. 1 \in 1 .. 16 /\ 2 \in 1 .. 16 /\ 1 - 1 = 0 /\ 2 - 1 = 1 /\ 0 + 2 = 2
      OBVIOUS
    <2>2. walk[1] = p1
      BY <1>7, <2>1 DEF p0
    <2>3. walk[2] = p2
      BY <1>7, <2>1, <2>2
    <2> QED
      BY <2>1, <2>3
  <1>9. ASSUME NEW k \in Nat, k \in T
        PROVE  k + 1 \in T
    <2> SUFFICES ASSUME (k + 1) + 2 <= 16 PROVE walk[(k + 1) + 2] = p2
      OBVIOUS
    <2>1. (k + 1) + 2 \in 1 .. 16 /\ ((k + 1) + 2) - 1 = k + 2 /\ k + 2 <= 16
      OBVIOUS
    <2>2. walk[k + 2] = p2
      BY <1>9, <2>1
    <2> QED
      BY <1>7, <2>1, <2>2
  <1>10. walk[16] = p2
    <2>1. T \in SUBSET Nat
      OBVIOUS
    <2>2. T = Nat
      <3> HIDE DEF T
      <3> QED
        BY <1>8, <1>9, <2>1, EveryCount
    <2>3. 14 \in Nat /\ 14 + 2 = 16 /\ 16 <= 16
      OBVIOUS
    <2> QED
      BY <2>2, <2>3
  <1> QED
    BY <1>1, <1>10

(***************************************************************************)
(* The embedded trees, up to the cell of the key.                          *)
(***************************************************************************)
PlainCells(cells) ==
  /\ Len(cells) = 3
  /\ cells[1] = Cell(StateInit, <<3, 1>>) /\ cells[2] = Cell(<<Fld(1, 1)>>, <<2>>)
  /\ cells[3] = Leaf(7, 64)

ForkedCells(cells) ==
  /\ Len(cells) = 6
  /\ cells[1] = Cell(StateInit, <<6, 1>>) /\ cells[2] = Cell(<<Fld(1, 1)>>, <<2>>)
  /\ cells[3] = Cell(LabelSame(0, 7, 60), <<5, 3>>) /\ cells[4] = Cell(<<Fld(6, 55)>>, <<4>>)
  /\ cells[5] = Cell(<<Fld(10, 832)>>, << >>) /\ cells[6] = Leaf(2, 3)

\* The cells of a stream without a throw.
ReadTree(src, cells) ==
  deserialize_cells_tree(ZeroBoc, src)
    = [bc |-> [ZeroBoc EXCEPT !.cells = cells], err |-> SUCCESS]

LEMMA TreeIsRead ==
  ASSUME NEW n \in 1 .. 6, NEW count \in Nat, n < count, NEW src, Len(src) = n + 1,
         src[1] = Header(count), Head(src) = src[1],
         \A i \in 0 .. n - 1 : deserialize_cell(src[i + 2], i, count) = SUCCESS
  PROVE  ReadTree(src, SubSeq(src, 2, n + 1))
  <1>1. HeaderOk(Head(src)) /\ Head(src).cells_count = count
    BY DEF HeaderOk, Header, MAX_ROOTS_COUNT
  <1>2. (IF count < Len(src) - 1 THEN count ELSE Len(src) - 1) = n
    OBVIOUS
  <1>3. ASSUME NEW i \in 0 .. n - 1
        PROVE  (IF i >= MAX_CONTRACT_CELLS_COUNT THEN "ERR_INVALID_CONTRACT"
                ELSE deserialize_cell(src[i + 2], i, count)) = SUCCESS
    BY DEF MAX_CONTRACT_CELLS_COUNT
  <1>4. ~(count > 0 /\ n = 0)
    OBVIOUS
  <1> DEFINE bad == {i \in 0 .. n - 1 :
                       (IF i >= MAX_CONTRACT_CELLS_COUNT THEN "ERR_INVALID_CONTRACT"
                        ELSE deserialize_cell(src[i + 2], i, count)) # SUCCESS}
  <1>5. bad = {}
    BY <1>3
  <1>6. CellsRead(ZeroBoc, src, n) = SubSeq(src, 2, n + 1)
    BY DEF CellsRead
  <1> HIDE DEF bad
  <1> QED
    BY <1>1, <1>2, <1>4, <1>5, <1>6, Zenon DEF deserialize_cells_tree, ReadTree, bad

\* Cells whose references point forward are taken.
LEMMA CellIsTaken ==
  ASSUME NEW data, NEW refs, Len(refs) <= 4, NEW index, NEW count,
         \A r \in 1 .. Len(refs) : ~(refs[r] > count) /\ ~(refs[r] <= index)
  PROVE  deserialize_cell(Cell(data, refs), index, count) = SUCCESS
  BY DEF deserialize_cell, Cell, MAX_REFERENCES_COUNT

IsLabel(label, w, n) ==
  /\ label = LabelSame(0, w, n) /\ Len(label) = 4 /\ LabelData(label, w, n)

\* What is in a leaf: its label, and a value of 256 bits.
IsLeafData(data, w, n, value) ==
  /\ data = LabelSame(0, w, n) \o <<Fld(256, value)>>
  /\ Len(data) = 5 /\ LabelData(data, w, n) /\ data[5] = Fld(256, value)
  /\ \A i \in 1 .. 4 : data[i] = LabelSame(0, w, n)[i]

LEMMA LabelIs ==
  ASSUME NEW w, NEW n
  PROVE  IsLabel(LabelSame(0, w, n), w, n)
  <1> DEFINE label == LabelSame(0, w, n)
             S == {Fld(1, 1), Fld(1, 0), Fld(w, n)}
  <1>1. /\ Len(label) = 4 /\ label[1] = Fld(1, 1) /\ label[2] = Fld(1, 1)
        /\ label[3] = Fld(1, 0) /\ label[4] = Fld(w, n)
    BY DEF LabelSame
  <1>2. label \in Seq(S)
    BY DEF LabelSame
  <1>3. label = LabelSame(0, w, n)
    OBVIOUS
  <1> HIDE DEF label, S
  <1>4. LabelData(label, w, n)
    BY <1>1, <1>2 DEF LabelData
  <1> QED
    BY <1>1, <1>3, <1>4, Zenon DEF IsLabel

LEMMA LeafIs ==
  ASSUME NEW w, NEW n, NEW value
  PROVE  IsLeafData(LabelSame(0, w, n) \o <<Fld(256, value)>>, w, n, value)
  <1> DEFINE label == LabelSame(0, w, n)
             last == Fld(256, value)
             data == label \o <<last>>
             S == {Fld(1, 1), Fld(1, 0), Fld(w, n), last}
  <1>1. /\ Len(label) = 4 /\ label[1] = Fld(1, 1) /\ label[2] = Fld(1, 1)
        /\ label[3] = Fld(1, 0) /\ label[4] = Fld(w, n)
    BY DEF LabelSame
  <1>2. label \in Seq(S) /\ <<last>> \in Seq(S)
    BY DEF LabelSame
  <1>3. data = LabelSame(0, w, n) \o <<Fld(256, value)>> /\ last.w = 256
    BY DEF Fld
  <1>4. data = label \o <<last>> /\ last = Fld(256, value) /\ label = LabelSame(0, w, n)
    OBVIOUS
  <1> HIDE DEF label, S, last, data
  <1>5. /\ data \in Seq(S) /\ Len(data) = 5 /\ data[5] = last
        /\ \A i \in 1 .. 4 : data[i] = label[i]
    BY <1>1, <1>2, <1>4
  <1>6. LabelData(data, w, n)
    <2>1. /\ data[1] = Fld(1, 1) /\ data[2] = Fld(1, 1) /\ data[3] = Fld(1, 0)
          /\ data[4] = Fld(w, n)
      BY <1>1, <1>5
    <2>2. data[5].w = 256
      BY <1>3, <1>5
    <2> QED
      BY <1>5, <2>1, <2>2 DEF LabelData
  <1>7. \A i \in 1 .. 4 : data[i] = LabelSame(0, w, n)[i]
    BY <1>4, <1>5
  <1>8. data[5] = Fld(256, value)
    BY <1>4, <1>5
  <1>9. IsLeafData(data, w, n, value)
    BY <1>3, <1>5, <1>6, <1>7, <1>8, Zenon DEF IsLeafData
  <1> QED
    BY <1>3, <1>9

\* The steps of the walk: at a leaf that the key ends in, and at the fork.
Found(index, left, bits) ==
  [err |-> SUCCESS, index |-> index, left |-> left, label_bits |-> bits]

LEMMA VisitLeaf ==
  ASSUME NEW cells, NEW index, NEW left \in 1 .. 64, NEW w \in 1 .. 16, BitWidth(left) = w,
         cells[index + 1] = Leaf(w, left)
  PROVE  visit(cells, Visit(index, left)) = Found(index, left, 3 + w)
  <1> DEFINE at == Visit(index, left)
             label == get_label(cells[at.index + 1], at.left)
  <1>1. at.err = SUCCESS /\ at.index = index /\ at.left = left /\ at.label_bits = 0
    BY DEF Visit
  <1>2. label = [err |-> SUCCESS, same |-> 0, len |-> left]
    <2>1. IsLeafData(Leaf(w, left).data, w, left, Zero)
      BY LeafIs DEF Leaf, Cell
    <2>2. LabelData(cells[index + 1].data, w, left)
      BY <2>1 DEF IsLeafData
    <2>3. left \in 0 .. 64
      OBVIOUS
    <2>4. get_label(cells[index + 1], left) = [err |-> SUCCESS, same |-> 0, len |-> left]
      <3> DEFINE cell == cells[index + 1]
      <3>1. LabelData(cell.data, w, left)
        BY <2>2
      <3> HIDE DEF cell
      <3>2. ReadsLabel(cell, left, left)
        <4>1. LabelData(cell.data, w, left) /\ BitWidth(left) = w /\ left \in 1 .. 64
          BY <3>1
        <4> QED
          BY <2>3, <4>1, LabelRead
      <3> QED
        BY <3>2 DEF cell, ReadsLabel
    <2> QED
      BY <1>1, <2>4
  <1>3. visit(cells, at) = [at EXCEPT !.label_bits = 2 + 1 + BitWidth(at.left)]
    <2>1. label.err = SUCCESS /\ label.len = at.left /\ label.same = 0
      BY <1>1, <1>2
    <2> HIDE DEF at
    <2> QED
      BY <1>1, <2>1, Zenon DEF visit, label
  <1>4. 2 + 1 + BitWidth(at.left) = 3 + w
    <2>1. BitWidth(at.left) = w
      BY <1>1
    <2> HIDE DEF at
    <2> QED
      BY <2>1
  <1>5. [at EXCEPT !.label_bits = 3 + w] = Found(index, left, 3 + w)
    BY DEF Visit, Found
  <1> QED
    BY <1>3, <1>4, <1>5, Zenon

LEMMA VisitFound ==
  ASSUME NEW cells, NEW index, NEW left, NEW bits, bits # 0
  PROVE  visit(cells, Found(index, left, bits)) = Found(index, left, bits)
  <1>1. Found(index, left, bits).label_bits # 0
    BY DEF Found
  <1> QED
    BY <1>1, Zenon DEF visit

MovedTo(at, i, l) == [at EXCEPT !.index = i, !.left = l]

LEMMA Moved ==
  ASSUME NEW i, NEW l, NEW i2, NEW l2
  PROVE  MovedTo(Visit(i, l), i2, l2) = Visit(i2, l2)
  <1>1. [Visit(i, l) EXCEPT !.index = i2] = Visit(i2, l)
    BY DEF Visit
  <1>2. [Visit(i2, l) EXCEPT !.left = l2] = Visit(i2, l2)
    BY DEF Visit
  <1>3. [Visit(i, l) EXCEPT !.index = i2, !.left = l2]
          = [[Visit(i, l) EXCEPT !.index = i2] EXCEPT !.left = l2]
    BY DEF Visit
  <1> QED
    BY <1>1, <1>2, <1>3 DEF MovedTo

LEMMA VisitFork ==
  ASSUME NEW cells, cells[3] = Cell(LabelSame(0, 7, 60), <<5, 3>>)
  PROVE  visit(cells, Visit(2, 64)) = Visit(5, 3)
  <1> DEFINE at == Visit(2, 64)
             label == get_label(cells[at.index + 1], at.left)
             refs == cells[at.index + 1].refs
  <1>1. at.err = SUCCESS /\ at.index + 1 = 3 /\ at.left = 64 /\ at.label_bits = 0
    BY DEF Visit
  <1>2. label = [err |-> SUCCESS, same |-> 0, len |-> 60]
    <2>1. IsLabel(LabelSame(0, 7, 60), 7, 60)
      BY LabelIs
    <2>2. LabelData(cells[3].data, 7, 60)
      BY <2>1 DEF IsLabel, Cell
    <2>3. BitWidth(64) = 7 /\ 64 \in 1 .. 64 /\ 7 \in 1 .. 16 /\ 60 \in 0 .. 64
      BY Widths
    <2>4. get_label(cells[3], 64) = [err |-> SUCCESS, same |-> 0, len |-> 60]
      <3> DEFINE cell == cells[3]
      <3>1. LabelData(cell.data, 7, 60)
        BY <2>2
      <3> HIDE DEF cell
      <3>2. ReadsLabel(cell, 64, 60)
        BY <2>3, <3>1, LabelRead
      <3> QED
        BY <3>2 DEF cell, ReadsLabel
    <2> QED
      BY <1>1, <2>4
  <1>3. label.err = SUCCESS /\ label.len = 60 /\ label.same = 0
    BY <1>2
  <1>4. refs # << >> /\ refs[1] = 5 /\ 5 \in 1 .. MAX_CONTRACT_CELLS_COUNT
    BY <1>1 DEF Cell, MAX_CONTRACT_CELLS_COUNT
  <1>5. /\ ~(60 = 64) /\ 60 < 64 /\ ~(64 - 60 < 1) /\ ~(0 = 1) /\ 64 - 60 - 1 = 3
    OBVIOUS
  <1> DEFINE common == IF label.same = 1 THEN 0
                       ELSE IF label.len < at.left THEN label.len ELSE at.left
  <1>6. common = 60
    BY <1>1, <1>3, <1>5
  <1> HIDE DEF common
  <1>7. visit(cells, at) = MovedTo(at, refs[1], at.left - common - 1)
    <2>1. ~(label.len = at.left) /\ ~(at.left - common < 1)
      BY <1>1, <1>3, <1>5, <1>6
    <2> HIDE DEF at
    <2> QED
      BY <1>1, <1>3, <1>4, <2>1, Zenon DEF visit, label, refs, common, MovedTo
  <1>8. at.left - common - 1 = 3
    <2> HIDE DEF at
    <2> QED
      BY <1>1, <1>5, <1>6
  <1> HIDE DEF refs
  <1>9. visit(cells, at) = MovedTo(at, 5, 3)
    <2> HIDE DEF at
    <2> QED
      BY <1>4, <1>7, <1>8, Zenon
  <1>10. MovedTo(Visit(2, 64), 5, 3) = Visit(5, 3)
    BY Moved
  <1> QED
    BY <1>9, <1>10, Zenon

\* The cell of key 0.
LEMMA PlainFound ==
  ASSUME NEW cells, PlainCells(cells)
  PROVE  find_public_key_cell(cells) = Found(2, 64, 10)
  <1>1. visit(cells, Visit(2, 64)) = Found(2, 64, 10)
    <2>1. BitWidth(64) = 7 /\ 64 \in 1 .. 64 /\ 7 \in 1 .. 16 /\ 2 + 1 = 3 /\ 3 + 7 = 10
      BY Widths
    <2>2. cells[2 + 1] = Leaf(7, 64)
      BY <2>1 DEF PlainCells
    <2>3. visit(cells, Visit(2, 64)) = Found(2, 64, 3 + 7)
      BY <2>1, <2>2, VisitLeaf
    <2> QED
      BY <2>1, <2>3
  <1>2. put_to_node(cells, 2, 64) = Found(2, 64, 10)
    <2>1. visit(cells, Found(2, 64, 10)) = Found(2, 64, 10)
      BY VisitFound
    <2> QED
      BY <1>1, <2>1, WalkEnds
  <1> DEFINE root == cells[1].refs
             branch == cells[root[Len(root)] + 1].refs
  <1>3. root = <<3, 1>> /\ cells[1].data[3].v = 1 /\ cells[2].refs = <<2>>
    BY DEF PlainCells, Cell, StateInit, Fld
  <1>4. Len(root) = 2 /\ root[Len(root)] + 1 = 2
    BY <1>3
  <1>5. branch # << >> /\ branch[1] = 2
    <2> HIDE DEF root
    <2>1. branch = <<2>>
      BY <1>3, <1>4, Zenon
    <2> HIDE DEF branch
    <2> QED
      BY <2>1
  <1>6. ~(cells[1].data[3].v # 1 \/ Len(root) \notin 1 .. 2)
    BY <1>3, <1>4
  <1> QED
    BY <1>2, <1>5, <1>6, Zenon DEF find_public_key_cell

LEMMA ForkedFound ==
  ASSUME NEW cells, ForkedCells(cells)
  PROVE  find_public_key_cell(cells) = Found(5, 3, 5)
  <1>1. visit(cells, Visit(5, 3)) = Found(5, 3, 5)
    <2>1. BitWidth(3) = 2 /\ 3 \in 1 .. 64 /\ 2 \in 1 .. 16 /\ 5 + 1 = 6 /\ 3 + 2 = 5
      BY Widths
    <2>2. cells[5 + 1] = Leaf(2, 3)
      BY <2>1 DEF ForkedCells
    <2>3. visit(cells, Visit(5, 3)) = Found(5, 3, 3 + 2)
      BY <2>1, <2>2, VisitLeaf
    <2> QED
      BY <2>1, <2>3
  <1>2. put_to_node(cells, 2, 64) = Found(5, 3, 5)
    <2>1. visit(cells, Found(5, 3, 5)) = Found(5, 3, 5)
      BY VisitFound
    <2>2. visit(cells, Visit(2, 64)) = Visit(5, 3)
      BY VisitFork DEF ForkedCells
    <2> QED
      BY <1>1, <2>1, <2>2, WalkEnds
  <1> DEFINE root == cells[1].refs
             branch == cells[root[Len(root)] + 1].refs
  <1>3. root = <<6, 1>> /\ cells[1].data[3].v = 1 /\ cells[2].refs = <<2>>
    BY DEF ForkedCells, Cell, StateInit, Fld
  <1>4. Len(root) = 2 /\ root[Len(root)] + 1 = 2
    BY <1>3
  <1>5. branch # << >> /\ branch[1] = 2
    <2> HIDE DEF root
    <2>1. branch = <<2>>
      BY <1>3, <1>4, Zenon
    <2> HIDE DEF branch
    <2> QED
      BY <2>1
  <1>6. ~(cells[1].data[3].v # 1 \/ Len(root) \notin 1 .. 2)
    BY <1>3, <1>4
  <1> QED
    BY <1>2, <1>5, <1>6, Zenon DEF find_public_key_cell

\* The data kept aside: the label as it was, and the public key behind it.
LEMMA KeyPutIn ==
  ASSUME NEW w \in 1 .. 16, NEW n, NEW account
  PROVE  KeyCellData(Leaf(w, n), 3 + w, account)
           = LabelSame(0, w, n) \o <<Fld(256, PublicKey(account))>>
  <1> DEFINE data == Leaf(w, n).data
             label == {m \in 0 .. Len(data) : BitsOf(SubSeq(data, 1, m)) = 3 + w}
  <1>1. IsLeafData(data, w, n, Zero)
    BY LeafIs DEF Leaf, Cell
  <1>2. KeyCellData(Leaf(w, n), 3 + w, account)
          = SubSeq(data, 1, Max(label)) \o <<Fld(256, PublicKey(account))>>
    BY Zenon DEF KeyCellData
  <1> HIDE DEF data
  <1>3. Len(data) = 5 /\ LabelSums(data, w)
    BY <1>1, LabelBits DEF IsLeafData
  <1>4. label = {4}
    <2>1. \A m \in 0 .. 5 : BitsOf(SubSeq(data, 1, m)) = 3 + w <=> m = 4
      <3>1. /\ ~(0 = 3 + w) /\ ~(1 = 3 + w) /\ ~(2 = 3 + w) /\ ~(3 = 3 + w)
            /\ ~(259 + w = 3 + w)
        BY w \in Nat /\ w >= 1
      <3>2. \A m \in 0 .. 5 : m \in {0, 1, 2, 3, 4, 5}
        OBVIOUS
      <3> QED
        BY <1>3, <3>1, <3>2 DEF LabelSums
    <2>2. 4 \in 0 .. 5
      OBVIOUS
    <2> QED
      BY <1>3, <2>1, <2>2
  <1> HIDE DEF label
  <1>5. Max(label) = 4
    <2>1. label \in SUBSET (0 .. 5) /\ label # {}
      BY <1>4
    <2> QED
      BY <1>4, <2>1, Greatest
  <1>6. SubSeq(data, 1, 4) = LabelSame(0, w, n)
    <2>1. PICK S : data \in Seq(S)
      BY <1>1 DEF IsLeafData, LabelData
    <2>2. \A i \in 1 .. 4 : data[i] \in S
      <3>1. \A i \in 1 .. 4 : i \in 1 .. Len(data)
        BY <1>3
      <3> QED
        BY <2>1, <3>1, ElementOfSeq
    <2>3. SubSeq(data, 1, 4) \in Seq(S) /\ Len(SubSeq(data, 1, 4)) = 4
          /\ \A i \in 1 .. 4 : SubSeq(data, 1, 4)[i] = data[i]
      BY <1>3, <2>1, <2>2, SubSeqProperties
    <2>4. IsLabel(LabelSame(0, w, n), w, n)
      BY LabelIs
    <2>5. PICK S2 : LabelSame(0, w, n) \in Seq(S2)
      BY <2>4 DEF IsLabel, LabelData
    <2> DEFINE S3 == S \cup S2
    <2>6. SubSeq(data, 1, 4) \in Seq(S3) /\ LabelSame(0, w, n) \in Seq(S3)
      BY <2>3, <2>5
    <2> HIDE DEF S3
    <2>7. \A i \in 1 .. 4 : SubSeq(data, 1, 4)[i] = LabelSame(0, w, n)[i]
      BY <1>1, <2>3 DEF IsLeafData
    <2>8. Len(LabelSame(0, w, n)) = 4
      BY <2>4 DEF IsLabel
    <2> QED
      BY <2>3, <2>6, <2>7, <2>8, SeqEqual
  <1> QED
    BY <1>2, <1>5, <1>6

\* It is as long as what it takes the place of.
LEMMA KeyFits ==
  ASSUME NEW w \in 1 .. 16, NEW n, NEW v1, NEW v2
  PROVE  BitsOf(LabelSame(0, w, n) \o <<Fld(256, v1)>>)
           = BitsOf(LabelSame(0, w, n) \o <<Fld(256, v2)>>)
  <1>1. ASSUME NEW v
        PROVE  BitsOf(LabelSame(0, w, n) \o <<Fld(256, v)>>) = 259 + w
    <2> DEFINE data == LabelSame(0, w, n) \o <<Fld(256, v)>>
    <2>1. IsLeafData(data, w, n, v)
      BY LeafIs
    <2> HIDE DEF data
    <2>2. LabelData(data, w, n) /\ Len(data) = 5
      BY <2>1 DEF IsLeafData
    <2>3. BitsOf(data) = 259 + w
      BY <2>2, LabelBits DEF LabelSums
    <2> QED
      BY <2>3 DEF data
  <1> QED
    BY <1>1

LEMMA OneIsTaken ==
  ASSUME NEW data, NEW index, NEW count, NEW k, ~(k > count), ~(k <= index)
  PROVE  deserialize_cell(Cell(data, <<k>>), index, count) = SUCCESS
  <1> DEFINE refs == <<k>>
  <1>1. Len(refs) <= 4 /\ \A r \in 1 .. Len(refs) : refs[r] = k
    OBVIOUS
  <1> HIDE DEF refs
  <1>2. deserialize_cell(Cell(data, refs), index, count) = SUCCESS
    BY <1>1, CellIsTaken
  <1> QED
    BY <1>2 DEF refs

LEMMA TwoAreTaken ==
  ASSUME NEW data, NEW index, NEW count, NEW k, ~(k > count), ~(k <= index),
         NEW l, ~(l > count), ~(l <= index)
  PROVE  deserialize_cell(Cell(data, <<k, l>>), index, count) = SUCCESS
  <1> DEFINE refs == <<k, l>>
  <1>1. Len(refs) <= 4 /\ \A r \in 1 .. Len(refs) : refs[r] = k \/ refs[r] = l
    OBVIOUS
  <1> HIDE DEF refs
  <1>2. deserialize_cell(Cell(data, refs), index, count) = SUCCESS
    BY <1>1, CellIsTaken
  <1> QED
    BY <1>2 DEF refs

\* The embedded bocs are read without a throw.
LEMMA PlainRead ==
  ASSUME NEW count \in Nat, count > 6
  PROVE  \E cells : PlainCells(cells) /\ ReadTree(PlainWallet(count), cells)
  <1> DEFINE src == PlainWallet(count)
             cells == SubSeq(src, 2, 4)
             S == {src[1], src[2], src[3], src[4]}
  <1>1. /\ Len(src) = 4 /\ src[1] = Header(count) /\ Head(src) = src[1]
        /\ src[2] = Cell(StateInit, <<3, 1>>) /\ src[3] = Cell(<<Fld(1, 1)>>, <<2>>)
        /\ src[4] = Leaf(7, 64)
    BY DEF PlainWallet
  <1>2. src \in Seq(S)
    BY DEF PlainWallet
  <1> HIDE DEF src, S
  <1>3. /\ deserialize_cell(Cell(StateInit, <<3, 1>>), 0, count) = SUCCESS
        /\ deserialize_cell(Cell(<<Fld(1, 1)>>, <<2>>), 1, count) = SUCCESS
        /\ deserialize_cell(Leaf(7, 64), 2, count) = SUCCESS
    <2>1. deserialize_cell(Cell(StateInit, <<3, 1>>), 0, count) = SUCCESS
      <3>1. ~(3 > count) /\ ~(3 <= 0) /\ ~(1 > count) /\ ~(1 <= 0)
        OBVIOUS
      <3> QED
        BY <3>1, TwoAreTaken
    <2>2. deserialize_cell(Cell(<<Fld(1, 1)>>, <<2>>), 1, count) = SUCCESS
      <3>1. ~(2 > count) /\ ~(2 <= 1)
        OBVIOUS
      <3> QED
        BY <3>1, OneIsTaken
    <2>3. deserialize_cell(Leaf(7, 64), 2, count) = SUCCESS
      BY CellIsTaken DEF Leaf
    <2> QED
      BY <2>1, <2>2, <2>3
  <1>4. \A i \in 0 .. 3 - 1 : deserialize_cell(src[i + 2], i, count) = SUCCESS
    <2> SUFFICES ASSUME NEW i \in 0 .. 2
                 PROVE  deserialize_cell(src[i + 2], i, count) = SUCCESS
      OBVIOUS
    <2>1. i \in {0, 1, 2} /\ 0 + 2 = 2 /\ 1 + 2 = 3 /\ 2 + 2 = 4
      OBVIOUS
    <2> QED
      BY <1>1, <1>3, <2>1
  <1>5. ReadTree(src, cells)
    <2>1. 3 \in 1 .. 6 /\ 3 < count /\ 3 + 1 = 4
      OBVIOUS
    <2> HIDE DEF cells
    <2>2. ReadTree(src, SubSeq(src, 2, 3 + 1))
      BY <1>1, <1>4, <2>1, TreeIsRead
    <2> QED
      BY <2>1, <2>2 DEF cells
  <1>6. Len(cells) = 3 /\ \A i \in 1 .. 3 : cells[i] = src[2 + i - 1]
    <2>1. \A i \in 2 .. 4 : i \in 1 .. Len(src)
      BY <1>1
    <2>2. \A i \in 2 .. 4 : src[i] \in S
      BY <1>2, <2>1, ElementOfSeq
    <2> QED
      BY <1>1, <1>2, <2>2, SubSeqProperties
  <1>7. PlainCells(cells)
    <2>1. 2 + 1 - 1 = 2 /\ 2 + 2 - 1 = 3 /\ 2 + 3 - 1 = 4
      OBVIOUS
    <2>2. cells[1] = src[2] /\ cells[2] = src[3] /\ cells[3] = src[4]
      BY <1>6, <2>1
    <2> QED
      BY <1>1, <1>6, <2>2 DEF PlainCells
  <1> QED
    BY <1>5, <1>7 DEF src

LEMMA ForkedRead ==
  ASSUME NEW count \in Nat, count > 6
  PROVE  \E cells : ForkedCells(cells) /\ ReadTree(ForkedWallet(count), cells)
  <1> DEFINE src == ForkedWallet(count)
             cells == SubSeq(src, 2, 7)
             S == {src[1], src[2], src[3], src[4], src[5], src[6], src[7]}
  <1>1. /\ Len(src) = 7 /\ src[1] = Header(count) /\ Head(src) = src[1]
        /\ src[2] = Cell(StateInit, <<6, 1>>) /\ src[3] = Cell(<<Fld(1, 1)>>, <<2>>)
        /\ src[4] = Cell(LabelSame(0, 7, 60), <<5, 3>>)
        /\ src[5] = Cell(<<Fld(6, 55)>>, <<4>>)
        /\ src[6] = Cell(<<Fld(10, 832)>>, << >>) /\ src[7] = Leaf(2, 3)
    BY DEF ForkedWallet
  <1>2. src \in Seq(S)
    BY DEF ForkedWallet
  <1> HIDE DEF src, S
  <1>3. /\ deserialize_cell(src[2], 0, count) = SUCCESS
        /\ deserialize_cell(src[3], 1, count) = SUCCESS
        /\ deserialize_cell(src[4], 2, count) = SUCCESS
        /\ deserialize_cell(src[5], 3, count) = SUCCESS
        /\ deserialize_cell(src[6], 4, count) = SUCCESS
        /\ deserialize_cell(src[7], 5, count) = SUCCESS
    <2>1. deserialize_cell(Cell(StateInit, <<6, 1>>), 0, count) = SUCCESS
      <3>1. ~(6 > count) /\ ~(6 <= 0) /\ ~(1 > count) /\ ~(1 <= 0)
        OBVIOUS
      <3> QED
        BY <3>1, TwoAreTaken
    <2>2. deserialize_cell(Cell(<<Fld(1, 1)>>, <<2>>), 1, count) = SUCCESS
      <3>1. ~(2 > count) /\ ~(2 <= 1)
        OBVIOUS
      <3> QED
        BY <3>1, OneIsTaken
    <2>3. deserialize_cell(Cell(LabelSame(0, 7, 60), <<5, 3>>), 2, count) = SUCCESS
      <3>1. ~(5 > count) /\ ~(5 <= 2) /\ ~(3 > count) /\ ~(3 <= 2)
        OBVIOUS
      <3> QED
        BY <3>1, TwoAreTaken
    <2>4. deserialize_cell(Cell(<<Fld(6, 55)>>, <<4>>), 3, count) = SUCCESS
      <3>1. ~(4 > count) /\ ~(4 <= 3)
        OBVIOUS
      <3> QED
        BY <3>1, OneIsTaken
    <2>5. deserialize_cell(Cell(<<Fld(10, 832)>>, << >>), 4, count) = SUCCESS
      BY CellIsTaken
    <2>6. deserialize_cell(Leaf(2, 3), 5, count) = SUCCESS
      BY CellIsTaken DEF Leaf
    <2> QED
      BY <1>1, <2>1, <2>2, <2>3, <2>4, <2>5, <2>6
  <1>4. \A i \in 0 .. 6 - 1 : deserialize_cell(src[i + 2], i, count) = SUCCESS
    <2> SUFFICES ASSUME NEW i \in 0 .. 5
                 PROVE  deserialize_cell(src[i + 2], i, count) = SUCCESS
      OBVIOUS
    <2>1. /\ i \in {0, 1, 2, 3, 4, 5} /\ 0 + 2 = 2 /\ 1 + 2 = 3 /\ 2 + 2 = 4
          /\ 3 + 2 = 5 /\ 4 + 2 = 6 /\ 5 + 2 = 7
      OBVIOUS
    <2> QED
      BY <1>3, <2>1
  <1>5. ReadTree(src, cells)
    <2>1. 6 \in 1 .. 6 /\ 6 < count /\ 6 + 1 = 7
      OBVIOUS
    <2> HIDE DEF cells
    <2>2. ReadTree(src, SubSeq(src, 2, 6 + 1))
      BY <1>1, <1>4, <2>1, TreeIsRead
    <2> QED
      BY <2>1, <2>2 DEF cells
  <1>6. Len(cells) = 6 /\ \A i \in 1 .. 6 : cells[i] = src[2 + i - 1]
    <2>1. \A i \in 2 .. 7 : i \in 1 .. Len(src)
      BY <1>1
    <2>2. \A i \in 2 .. 7 : src[i] \in S
      BY <1>2, <2>1, ElementOfSeq
    <2> QED
      BY <1>1, <1>2, <2>2, SubSeqProperties
  <1>7. ForkedCells(cells)
    <2>1. /\ 2 + 1 - 1 = 2 /\ 2 + 2 - 1 = 3 /\ 2 + 3 - 1 = 4
          /\ 2 + 4 - 1 = 5 /\ 2 + 5 - 1 = 6 /\ 2 + 6 - 1 = 7
      OBVIOUS
    <2>2. /\ cells[1] = src[2] /\ cells[2] = src[3] /\ cells[3] = src[4]
          /\ cells[4] = src[5] /\ cells[5] = src[6] /\ cells[6] = src[7]
      <3> HIDE DEF cells
      <3> QED
        BY <1>6, <2>1
    <2> QED
      BY <1>1, <1>6, <2>2 DEF ForkedCells
  <1> QED
    BY <1>5, <1>7 DEF src

-----------------------------------------------------------------------------
(***************************************************************************)
(* The loop over such a tree.  A node of it, by the number of children.    *)
(***************************************************************************)
Node(b, i, depths, hashes) ==
  LET cell == b.cells[i + 1]
  IN  /\ cell.type # "pruned" /\ Len(cell.refs) \in Nat
      /\ \A c \in 1 .. Len(cell.refs) : cell.refs[c] \in i + 1 .. MAX_CONTRACT_CELLS_COUNT - 1
      /\ \A c \in 1 .. Len(cell.refs) :
            depths[cell.refs[c]] \in Nat /\ depths[cell.refs[c]] <= 254
      /\ depths[i] \in Nat /\ Above(depths[i], cell.refs, depths)
      /\ hashes[i] = Sha256(HashedData(b, i),
                            [c \in 1 .. Len(cell.refs) |-> depths[cell.refs[c]]],
                            [c \in 1 .. Len(cell.refs) |-> hashes[cell.refs[c]]])

WithNone(b, i, depths, hashes, data, d) ==
  /\ b.cells[i + 1] = Cell(data, << >>) /\ HashedData(b, i) = d
  /\ depths[i] = 0 /\ hashes[i] = Sha256(d, << >>, << >>)

WithOne(b, i, depths, hashes, data, k, x, h) ==
  /\ i \in Nat /\ k \in i + 1 .. 15 /\ b.cells[i + 1] = Cell(data, <<k>>)
  /\ HashedData(b, i) = data
  /\ x \in 0 .. 254 /\ depths[k] = x /\ depths[i] = x + 1
  /\ hashes[k] = h /\ hashes[i] = Sha256(data, <<x>>, <<h>>)

WithTwo(b, i, depths, hashes, data, k, l, x, y, g, h) ==
  /\ i \in Nat /\ k \in i + 1 .. 15 /\ l \in i + 1 .. 15
  /\ b.cells[i + 1] = Cell(data, <<k, l>>) /\ HashedData(b, i) = data
  /\ x \in 0 .. 254 /\ depths[k] = x /\ y \in 0 .. 254 /\ depths[l] = y
  /\ depths[i] \in {x + 1, y + 1} /\ x + 1 <= depths[i] /\ y + 1 <= depths[i]
  /\ hashes[k] = g /\ hashes[l] = h /\ hashes[i] = Sha256(data, <<x, y>>, <<g, h>>)

LEMMA NoKids ==
  ASSUME NEW b, NEW i, NEW depths, NEW hashes, NEW data, NEW d,
         WithNone(b, i, depths, hashes, data, d)
  PROVE  Node(b, i, depths, hashes)
  <1> USE DEF WithNone
  <1> DEFINE refs == b.cells[i + 1].refs
  <1>1. refs = << >> /\ b.cells[i + 1].type # "pruned"
    BY DEF Cell
  <1> HIDE DEF refs
  <1>2. Len(refs) = 0 /\ 1 .. 0 = {}
    BY <1>1
  <1>3. /\ [c \in 1 .. Len(refs) |-> depths[refs[c]]] = << >>
        /\ [c \in 1 .. Len(refs) |-> hashes[refs[c]]] = << >>
    BY <1>2
  <1>4. Above(depths[i], refs, depths) /\ depths[i] \in Nat /\ Len(refs) \in Nat
    BY <1>2 DEF Above
  <1> QED
    BY <1>1, <1>2, <1>3, <1>4 DEF Node, refs

LEMMA OneKid ==
  ASSUME NEW b, NEW i, NEW depths, NEW hashes, NEW data, NEW k, NEW x, NEW h,
         WithOne(b, i, depths, hashes, data, k, x, h)
  PROVE  Node(b, i, depths, hashes)
  <1> USE DEF WithOne
  <1> DEFINE refs == b.cells[i + 1].refs
  <1>1. refs = <<k>> /\ b.cells[i + 1].type # "pruned"
    BY DEF Cell
  <1> HIDE DEF refs
  <1>2. Len(refs) = 1 /\ refs[1] = k /\ \A c \in 1 .. 1 : c = 1
    BY <1>1
  <1>3. [c \in 1 .. Len(refs) |-> depths[refs[c]]] = <<x>>
    BY <1>2
  <1>4. [c \in 1 .. Len(refs) |-> hashes[refs[c]]] = <<h>>
    BY <1>2
  <1>5. Above(depths[i], refs, depths) /\ depths[i] \in Nat /\ Len(refs) \in Nat
    BY <1>2 DEF Above
  <1>6. \A c \in 1 .. Len(refs) : /\ refs[c] \in i + 1 .. MAX_CONTRACT_CELLS_COUNT - 1
                                 /\ depths[refs[c]] \in Nat /\ depths[refs[c]] <= 254
    BY <1>2 DEF MAX_CONTRACT_CELLS_COUNT
  <1> QED
    BY <1>1, <1>3, <1>4, <1>5, <1>6 DEF Node, refs

LEMMA TwoKids ==
  ASSUME NEW b, NEW i, NEW depths, NEW hashes, NEW data, NEW k, NEW l, NEW x, NEW y,
         NEW g, NEW h, WithTwo(b, i, depths, hashes, data, k, l, x, y, g, h)
  PROVE  Node(b, i, depths, hashes)
  <1> USE DEF WithTwo
  <1> DEFINE refs == b.cells[i + 1].refs
  <1>1. refs = <<k, l>> /\ b.cells[i + 1].type # "pruned"
    BY DEF Cell
  <1> HIDE DEF refs
  <1>2. /\ Len(refs) = 2 /\ refs[1] = k /\ refs[2] = l
        /\ \A c \in 1 .. 2 : c = 1 \/ c = 2
    BY <1>1
  <1>3. [c \in 1 .. Len(refs) |-> depths[refs[c]]] = <<x, y>>
    BY <1>2
  <1>4. [c \in 1 .. Len(refs) |-> hashes[refs[c]]] = <<g, h>>
    BY <1>2
  <1>5. Above(depths[i], refs, depths) /\ depths[i] \in Nat /\ Len(refs) \in Nat
    BY <1>2 DEF Above
  <1>6. \A c \in 1 .. Len(refs) : /\ refs[c] \in i + 1 .. MAX_CONTRACT_CELLS_COUNT - 1
                                 /\ depths[refs[c]] \in Nat /\ depths[refs[c]] <= 254
    BY <1>2 DEF MAX_CONTRACT_CELLS_COUNT
  <1> QED
    BY <1>1, <1>3, <1>4, <1>5, <1>6 DEF Node, refs

(***************************************************************************)
(* boc_context before the loop: the code behind the cells, the data with   *)
(* the key kept aside.                                                     *)
(***************************************************************************)
Coded(b, cells, index, held, code, depth) ==
  /\ DOMAIN b = DOMAIN ZeroBoc
  /\ b.cells = cells /\ b.public_key_cell_index = index /\ b.public_key_cell_data = held
  /\ DOMAIN b.hashes = CellIndex /\ DOMAIN b.cell_depth = CellIndex
  /\ b.hashes[index + 1] = code
  /\ \A j \in CellIndex : b.cell_depth[j] = IF j = index + 1 THEN depth ELSE 0

LEMMA CodedStage ==
  ASSUME NEW cells, NEW index \in 1 .. 14, NEW held, NEW code, NEW depth, NEW b,
         Coded(b, cells, index, held, code, depth), NEW depths, NEW hashes,
         \A j \in CellIndex : j > index => depths[j] = b.cell_depth[j] /\ hashes[j] = b.hashes[j]
  PROVE  Stage(b, b, index + 1, depths, hashes)
  <1>1. ASSUME NEW j \in CellIndex
        PROVE  IF j >= index + 1
               THEN b.hashes[j] = hashes[j] /\ b.cell_depth[j] = depths[j]
               ELSE b.cell_depth[j] = 0
    <2>1. j \in 0 .. 15
      BY DEF CellIndex, MAX_CONTRACT_CELLS_COUNT
    <2>2. CASE j >= index + 1
      BY <2>1, <2>2
    <2>3. CASE ~(j >= index + 1)
      BY <2>1, <2>3 DEF Coded
    <2> QED
      BY <2>2, <2>3
  <1> QED
    BY <1>1 DEF Stage, Coded

\* The data hashed in place of that of the key's cell.
AsLong(held, cells, index) == BitsOf(held) = BitsOf(cells[index + 1].data)

HashesHeld(b, cells, index, held) ==
  /\ HashedData(b, index) = held
  /\ \A i : i # index => HashedData(b, i) = cells[i + 1].data

LEMMA HashedWithKey ==
  ASSUME NEW b, NEW cells, NEW index, index # 0, NEW held, NEW code, NEW depth,
         Coded(b, cells, index, held, code, depth), AsLong(held, cells, index)
  PROVE  HashesHeld(b, cells, index, held)
  <1>1. /\ b.public_key_cell_index = index /\ index # 0 /\ b.cells = cells
        /\ b.public_key_cell_data = held
    BY DEF Coded
  <1>2. (BitsOf(held) + 7) \div 8 = DataSize(cells[index + 1])
    BY DEF DataSize, BitLen, AsLong
  <1>3. HashedData(b, index) = held
    BY <1>1, <1>2, Zenon DEF HashedData
  <1>4. \A i : i # index => HashedData(b, i) = cells[i + 1].data
    BY <1>1, Zenon DEF HashedData
  <1> QED
    BY <1>3, <1>4, Zenon DEF HashesHeld

-----------------------------------------------------------------------------
(***************************************************************************)
(* The hash of each embedded tree with the key in its place.               *)
(***************************************************************************)

LEMMA TreeOfNodes ==
  ASSUME NEW b, NEW last, NEW depths, NEW hashes, \A i \in 0 .. last : Node(b, i, depths, hashes)
  PROVE  IsTree(b, last, depths, hashes)
  BY Zenon DEF IsTree, Node

\* The hash of the key's cell, of the dictionary with a fork, of the data and
\* of the wallet.
KeyHash(label, account) == Sha256(label \o <<Fld(256, PublicKey(account))>>, << >>, << >>)

TenHash == Sha256(<<Fld(10, 832)>>, << >>, << >>)
SixHash == Sha256(<<Fld(6, 55)>>, <<0>>, <<TenHash>>)
ForkHash(leaf) == Sha256(LabelSame(0, 7, 60), <<0, 1>>, <<leaf, SixHash>>)
DictHash(depth, dict) == Sha256(<<Fld(1, 1)>>, <<depth>>, <<dict>>)
InitHash(code_depth, depth, code, data) ==
  Sha256(StateInit, <<code_depth, depth>>, <<code, data>>)

\* A hash found without a throw.
HashesTo(b, last, hash) ==
  HashCells(b, last).err = SUCCESS /\ HashCells(b, last).bc.hashes[0] = hash

LEMMA PlainHash ==
  ASSUME NEW cells, PlainCells(cells), NEW account, NEW held,
         held = LabelSame(0, 7, 64) \o <<Fld(256, PublicKey(account))>>,
         NEW code, NEW depth \in 2 .. 100, NEW b, Coded(b, cells, 2, held, code, depth)
  PROVE  HashesTo(b, 2, InitHash(depth, 1, code,
                          DictHash(0, KeyHash(LabelSame(0, 7, 64), account))))
  <1> DEFINE leaf == KeyHash(LabelSame(0, 7, 64), account)
             dict == DictHash(0, leaf)
             root == InitHash(depth, 1, code, dict)
             depths == [j \in CellIndex |-> IF j = 0 THEN depth + 1 ELSE IF j = 1 THEN 1
                          ELSE IF j = 2 THEN 0 ELSE b.cell_depth[j]]
             hashes == [j \in CellIndex |-> IF j = 0 THEN root ELSE IF j = 1 THEN dict
                          ELSE IF j = 2 THEN leaf ELSE b.hashes[j]]
  <1>1. /\ 0 \in CellIndex /\ 1 \in CellIndex /\ 2 \in CellIndex /\ 3 \in CellIndex
        /\ \A j \in CellIndex : j > 2 => j # 0 /\ j # 1 /\ j # 2
    BY DEF CellIndex, MAX_CONTRACT_CELLS_COUNT
  <1>2. b.hashes[3] = code /\ b.cell_depth[3] = depth
    <2>1. 2 + 1 = 3
      OBVIOUS
    <2> QED
      BY <1>1, <2>1 DEF Coded
  <1>3. /\ depths[0] = depth + 1 /\ depths[1] = 1 /\ depths[2] = 0 /\ depths[3] = depth
        /\ hashes[0] = root /\ hashes[1] = dict /\ hashes[2] = leaf /\ hashes[3] = code
    BY <1>1, <1>2
  <1>4. \A j \in CellIndex : j > 2 => depths[j] = b.cell_depth[j] /\ hashes[j] = b.hashes[j]
    BY <1>1
  <1>5. leaf = Sha256(held, << >>, << >>)
    BY DEF KeyHash
  <1>6. dict = Sha256(<<Fld(1, 1)>>, <<0>>, <<leaf>>)
    BY DEF DictHash
  <1>7. root = Sha256(StateInit, <<depth, 1>>, <<code, dict>>)
    BY DEF InitHash
  <1>8. HashesTo(b, 2, root) => HashesTo(b, 2, InitHash(depth, 1, code,
                                   DictHash(0, KeyHash(LabelSame(0, 7, 64), account))))
    BY Zenon
  <1> HIDE DEF leaf, dict, root, depths, hashes
  <1>9. /\ b.cells[1] = Cell(StateInit, <<3, 1>>) /\ b.cells[2] = Cell(<<Fld(1, 1)>>, <<2>>)
        /\ b.cells[3] = Cell(cells[3].data, << >>) /\ cells[3].data = Leaf(7, 64).data
        /\ cells[1].data = StateInit /\ cells[2].data = <<Fld(1, 1)>>
    BY DEF Coded, PlainCells, Leaf, Cell
  <1>10. /\ HashedData(b, 0) = StateInit /\ HashedData(b, 1) = <<Fld(1, 1)>>
         /\ HashedData(b, 2) = held
    <2>1. Leaf(7, 64).data = LabelSame(0, 7, 64) \o <<Fld(256, Zero)>>
      BY DEF Leaf, Cell
    <2>2. AsLong(held, cells, 2)
      <3>1. BitsOf(held) = BitsOf(LabelSame(0, 7, 64) \o <<Fld(256, Zero)>>)
        <4>1. 7 \in 1 .. 16
          OBVIOUS
        <4> QED
          BY <4>1, KeyFits
      <3>2. 2 + 1 = 3
        OBVIOUS
      <3> QED
        BY <1>9, <2>1, <3>1, <3>2 DEF AsLong
    <2>3. 2 \in 1 .. 14 /\ 0 + 1 = 1 /\ 1 + 1 = 2 /\ 0 # 2 /\ 1 # 2
      OBVIOUS
    <2>4. HashesHeld(b, cells, 2, held)
      <3>1. 2 # 0
        OBVIOUS
      <3> QED
        BY <2>2, <3>1, HashedWithKey
    <2>5. HashedData(b, 2) = held
      BY <2>4 DEF HashesHeld
    <2>6. HashedData(b, 0) = cells[0 + 1].data /\ HashedData(b, 1) = cells[1 + 1].data
      BY <2>3, <2>4, Zenon DEF HashesHeld
    <2> QED
      BY <1>9, <2>3, <2>6, <2>5
  <1>11. Node(b, 2, depths, hashes)
    <2>1. WithNone(b, 2, depths, hashes, cells[3].data, held)
      BY <1>3, <1>5, <1>9, <1>10 DEF WithNone
    <2> QED
      BY <2>1, NoKids
  <1>12. Node(b, 1, depths, hashes)
    <2>1. WithOne(b, 1, depths, hashes, <<Fld(1, 1)>>, 2, 0, leaf)
      BY <1>3, <1>6, <1>9, <1>10 DEF WithOne
    <2> QED
      BY <2>1, OneKid
  <1>13. Node(b, 0, depths, hashes)
    <2>1. WithTwo(b, 0, depths, hashes, StateInit, 3, 1, depth, 1, code, dict)
      BY <1>3, <1>7, <1>9, <1>10 DEF WithTwo
    <2> QED
      BY <2>1, TwoKids
  <1>14. IsTree(b, 2, depths, hashes)
    <2>1. \A i \in 0 .. 2 : i = 0 \/ i = 1 \/ i = 2
      OBVIOUS
    <2>2. \A i \in 0 .. 2 : Node(b, i, depths, hashes)
      BY <1>11, <1>12, <1>13, <2>1, Zenon
    <2> QED
      BY <2>2, TreeOfNodes
  <1>15. Stage(b, b, 2 + 1, depths, hashes)
    <2>1. 2 \in 1 .. 14
      OBVIOUS
    <2> QED
      BY <1>4, <2>1, CodedStage
  <1>16. HashesTo(b, 2, root)
    BY <1>1, <1>3, <1>14, <1>15, HashLoop DEF HashesTo
  <1> QED
    BY <1>8, <1>16

LEMMA ForkedHash ==
  ASSUME NEW cells, ForkedCells(cells), NEW account, NEW held,
         held = LabelSame(0, 2, 3) \o <<Fld(256, PublicKey(account))>>,
         NEW code, NEW depth \in 4 .. 100, NEW b, Coded(b, cells, 5, held, code, depth)
  PROVE  HashesTo(b, 5, InitHash(depth, 3, code,
                          DictHash(2, ForkHash(KeyHash(LabelSame(0, 2, 3), account)))))
  <1> DEFINE leaf == KeyHash(LabelSame(0, 2, 3), account)
             fork == ForkHash(leaf)
             dict == DictHash(2, fork)
             root == InitHash(depth, 3, code, dict)
             depths == [j \in CellIndex |-> IF j = 0 THEN depth + 1 ELSE IF j = 1 THEN 3
                          ELSE IF j = 2 THEN 2 ELSE IF j = 3 THEN 1 ELSE IF j = 4 THEN 0
                          ELSE IF j = 5 THEN 0 ELSE b.cell_depth[j]]
             hashes == [j \in CellIndex |-> IF j = 0 THEN root ELSE IF j = 1 THEN dict
                          ELSE IF j = 2 THEN fork ELSE IF j = 3 THEN SixHash
                          ELSE IF j = 4 THEN TenHash ELSE IF j = 5 THEN leaf ELSE b.hashes[j]]
  <1>1. /\ 0 \in CellIndex /\ 1 \in CellIndex /\ 2 \in CellIndex /\ 3 \in CellIndex
        /\ 4 \in CellIndex /\ 5 \in CellIndex /\ 6 \in CellIndex
        /\ \A j \in CellIndex : j > 5 => j # 0 /\ j # 1 /\ j # 2 /\ j # 3 /\ j # 4 /\ j # 5
    BY DEF CellIndex, MAX_CONTRACT_CELLS_COUNT
  <1>2. b.hashes[6] = code /\ b.cell_depth[6] = depth
    <2>1. 5 + 1 = 6
      OBVIOUS
    <2> QED
      BY <1>1, <2>1 DEF Coded
  <1>3. /\ depths[0] = depth + 1 /\ depths[1] = 3 /\ depths[2] = 2 /\ depths[3] = 1
        /\ depths[4] = 0 /\ depths[5] = 0 /\ depths[6] = depth
    BY <1>1, <1>2
  <1>4. /\ hashes[0] = root /\ hashes[1] = dict /\ hashes[2] = fork /\ hashes[3] = SixHash
         /\ hashes[4] = TenHash /\ hashes[5] = leaf /\ hashes[6] = code
    BY <1>1, <1>2
  <1>5. \A j \in CellIndex : j > 5 => depths[j] = b.cell_depth[j] /\ hashes[j] = b.hashes[j]
    BY <1>1
  <1>6. leaf = Sha256(held, << >>, << >>)
    BY DEF KeyHash
  <1>7. dict = Sha256(<<Fld(1, 1)>>, <<2>>, <<fork>>)
    BY DEF DictHash
  <1>8. fork = Sha256(LabelSame(0, 7, 60), <<0, 1>>, <<leaf, SixHash>>)
    BY DEF ForkHash
  <1>9. /\ SixHash = Sha256(<<Fld(6, 55)>>, <<0>>, <<TenHash>>)
         /\ TenHash = Sha256(<<Fld(10, 832)>>, << >>, << >>)
    BY DEF SixHash, TenHash
  <1>10. root = Sha256(StateInit, <<depth, 3>>, <<code, dict>>)
    BY DEF InitHash
  <1>11. HashesTo(b, 5, root) => HashesTo(b, 5, InitHash(depth, 3, code,
                          DictHash(2, ForkHash(KeyHash(LabelSame(0, 2, 3), account)))))
    BY Zenon
  <1> HIDE DEF leaf, fork, dict, root, depths, hashes
  <1>12. /\ b.cells[1] = Cell(StateInit, <<6, 1>>) /\ b.cells[2] = Cell(<<Fld(1, 1)>>, <<2>>)
        /\ b.cells[3] = Cell(LabelSame(0, 7, 60), <<5, 3>>)
        /\ b.cells[4] = Cell(<<Fld(6, 55)>>, <<4>>) /\ b.cells[5] = Cell(<<Fld(10, 832)>>, << >>)
        /\ b.cells[6] = Cell(cells[6].data, << >>) /\ cells[6].data = Leaf(2, 3).data
    BY DEF Coded, ForkedCells, Leaf, Cell
  <1>13. /\ cells[1].data = StateInit /\ cells[2].data = <<Fld(1, 1)>>
         /\ cells[3].data = LabelSame(0, 7, 60) /\ cells[4].data = <<Fld(6, 55)>>
         /\ cells[5].data = <<Fld(10, 832)>>
    BY DEF ForkedCells, Cell
  <1>14. /\ HashedData(b, 0) = StateInit /\ HashedData(b, 1) = <<Fld(1, 1)>>
         /\ HashedData(b, 2) = LabelSame(0, 7, 60) /\ HashedData(b, 3) = <<Fld(6, 55)>>
         /\ HashedData(b, 4) = <<Fld(10, 832)>> /\ HashedData(b, 5) = held
    <2>1. Leaf(2, 3).data = LabelSame(0, 2, 3) \o <<Fld(256, Zero)>>
      BY DEF Leaf, Cell
    <2>2. AsLong(held, cells, 5)
      <3>1. BitsOf(held) = BitsOf(LabelSame(0, 2, 3) \o <<Fld(256, Zero)>>)
        <4>1. 2 \in 1 .. 16
          OBVIOUS
        <4> QED
          BY <4>1, KeyFits
      <3>2. 5 + 1 = 6
        OBVIOUS
      <3> QED
        BY <1>12, <2>1, <3>1, <3>2 DEF AsLong
    <2>3. /\ 5 \in 1 .. 14 /\ 0 + 1 = 1 /\ 1 + 1 = 2 /\ 2 + 1 = 3 /\ 3 + 1 = 4 /\ 4 + 1 = 5
          /\ 0 # 5 /\ 1 # 5 /\ 2 # 5 /\ 3 # 5 /\ 4 # 5
      OBVIOUS
    <2>4. HashesHeld(b, cells, 5, held)
      <3>1. 5 # 0
        OBVIOUS
      <3> QED
        BY <2>2, <3>1, HashedWithKey
    <2>5. HashedData(b, 5) = held
      BY <2>4 DEF HashesHeld
    <2>6. /\ HashedData(b, 0) = cells[0 + 1].data /\ HashedData(b, 1) = cells[1 + 1].data
          /\ HashedData(b, 2) = cells[2 + 1].data /\ HashedData(b, 3) = cells[3 + 1].data
          /\ HashedData(b, 4) = cells[4 + 1].data
      BY <2>3, <2>4, Zenon DEF HashesHeld
    <2>7. HashedData(b, 0) = cells[1].data /\ HashedData(b, 1) = cells[2].data
      BY <2>6
    <2>8. /\ HashedData(b, 2) = cells[3].data /\ HashedData(b, 3) = cells[4].data
          /\ HashedData(b, 4) = cells[5].data
      BY <2>6
    <2> QED
      BY <1>13, <2>5, <2>7, <2>8, Zenon
  <1>15. Node(b, 5, depths, hashes)
    <2>1. WithNone(b, 5, depths, hashes, cells[6].data, held)
      BY <1>3, <1>12, <1>14, <1>4, <1>6 DEF WithNone
    <2> QED
      BY <2>1, NoKids
  <1>16. Node(b, 4, depths, hashes)
    <2>1. WithNone(b, 4, depths, hashes, <<Fld(10, 832)>>, <<Fld(10, 832)>>)
      BY <1>3, <1>12, <1>14, <1>4, <1>9 DEF WithNone
    <2> QED
      BY <2>1, NoKids
  <1>17. Node(b, 3, depths, hashes)
    <2>1. WithOne(b, 3, depths, hashes, <<Fld(6, 55)>>, 4, 0, TenHash)
      BY <1>3, <1>12, <1>14, <1>4, <1>9 DEF WithOne
    <2> QED
      BY <2>1, OneKid
  <1>18. Node(b, 2, depths, hashes)
    <2>1. WithTwo(b, 2, depths, hashes, LabelSame(0, 7, 60), 5, 3, 0, 1, leaf, SixHash)
      BY <1>3, <1>12, <1>14, <1>4, <1>8 DEF WithTwo
    <2> QED
      BY <2>1, TwoKids
  <1>19. Node(b, 1, depths, hashes)
    <2>1. WithOne(b, 1, depths, hashes, <<Fld(1, 1)>>, 2, 2, fork)
      BY <1>3, <1>12, <1>14, <1>4, <1>7 DEF WithOne
    <2> QED
      BY <2>1, OneKid
  <1>20. Node(b, 0, depths, hashes)
    <2>1. WithTwo(b, 0, depths, hashes, StateInit, 6, 1, depth, 3, code, dict)
      BY <1>3, <1>12, <1>14, <1>4, <1>10 DEF WithTwo
    <2> QED
      BY <2>1, TwoKids
  <1>21. IsTree(b, 5, depths, hashes)
    <2>1. \A i \in 0 .. 5 : i = 0 \/ i = 1 \/ i = 2 \/ i = 3 \/ i = 4 \/ i = 5
      OBVIOUS
    <2>2. \A i \in 0 .. 5 : Node(b, i, depths, hashes)
      BY <1>15, <1>19, <1>20, <1>16, <1>17, <1>18, <2>1, Zenon
    <2> QED
      BY <2>2, TreeOfNodes
  <1>22. Stage(b, b, 5 + 1, depths, hashes)
    <2>1. 5 \in 1 .. 14
      OBVIOUS
    <2> QED
      BY <1>5, <2>1, CodedStage
  <1>23. HashesTo(b, 5, root)
    BY <1>1, <1>21, <1>22, <1>4, HashLoop DEF HashesTo
  <1> QED
    BY <1>11, <1>23

-----------------------------------------------------------------------------
(***************************************************************************)
(* The address that get_address finds from a clean boc_context.            *)
(***************************************************************************)

\* What the search leaves in boc_context.
PutIn(b, key, account, wallet_type) ==
  [b EXCEPT
     !.public_key_cell_index = key.index,
     !.public_key_label_size_bits = key.label_bits,
     !.hashes[key.index + 1] = CodeHash(wallet_type),
     !.cell_depth[key.index + 1] = CodeDepth[wallet_type],
     !.public_key_cell_data = KeyCellData(b.cells[key.index + 1], key.label_bits, account)]

LEMMA KeyHashed ==
  ASSUME NEW b, NEW key, key.err = SUCCESS, NEW account, NEW wallet_type
  PROVE  hash_with_key(b, key, account, wallet_type, TRUE)
           = RootHash(HashCells(PutIn(b, key, account, wallet_type), key.index))
  BY Zenon DEF hash_with_key, PutIn

LEMMA PutInCoded ==
  ASSUME NEW cells, NEW index \in 1 .. 14, NEW left, NEW bits, NEW account, NEW wallet_type,
         NEW b, b = PutIn([ZeroBoc EXCEPT !.cells = cells], Found(index, left, bits), account,
                          wallet_type)
  PROVE  Coded(b, cells, index, KeyCellData(cells[index + 1], bits, account),
               CodeHash(wallet_type), CodeDepth[wallet_type])
  <1> DEFINE b0 == [ZeroBoc EXCEPT !.cells = cells]
             key == Found(index, left, bits)
  <1>1. /\ DOMAIN b0 = DOMAIN ZeroBoc /\ b0.cells = cells
        /\ b0.hashes = [i \in CellIndex |-> Zero] /\ b0.cell_depth = [i \in CellIndex |-> 0]
    BY DEF ZeroBoc
  <1>2. key.index = index /\ key.label_bits = bits
    BY DEF Found
  <1>3. index + 1 \in CellIndex
    BY DEF CellIndex, MAX_CONTRACT_CELLS_COUNT
  <1>4. b = PutIn(b0, key, account, wallet_type)
    OBVIOUS
  <1>5. /\ "cells" \in DOMAIN ZeroBoc /\ "public_key_cell_index" \in DOMAIN ZeroBoc
        /\ "public_key_cell_data" \in DOMAIN ZeroBoc /\ "hashes" \in DOMAIN ZeroBoc
        /\ "cell_depth" \in DOMAIN ZeroBoc
        /\ "public_key_label_size_bits" \in DOMAIN ZeroBoc
    BY DEF ZeroBoc
  <1> HIDE DEF b0, key
  <1>6. /\ DOMAIN b = DOMAIN ZeroBoc /\ b.cells = cells /\ b.public_key_cell_index = index
    BY <1>1, <1>2, <1>4, <1>5 DEF PutIn
  <1>7. b.public_key_cell_data = KeyCellData(cells[index + 1], bits, account)
    BY <1>1, <1>2, <1>4, <1>5 DEF PutIn
  <1>8. b.hashes = [b0.hashes EXCEPT ![index + 1] = CodeHash(wallet_type)]
    BY <1>1, <1>2, <1>4, <1>5 DEF PutIn
  <1>9. b.cell_depth = [b0.cell_depth EXCEPT ![index + 1] = CodeDepth[wallet_type]]
    BY <1>1, <1>2, <1>4, <1>5 DEF PutIn
  <1>10. /\ DOMAIN b.hashes = CellIndex /\ b.hashes[index + 1] = CodeHash(wallet_type)
    BY <1>1, <1>3, <1>8
  <1>11. /\ DOMAIN b.cell_depth = CellIndex
         /\ \A j \in CellIndex :
               b.cell_depth[j] = IF j = index + 1 THEN CodeDepth[wallet_type] ELSE 0
    BY <1>1, <1>3, <1>9
  <1> QED
    BY <1>6, <1>7, <1>10, <1>11 DEF Coded

\* An address found without a throw.
FindsAddress(found, address) == found.err = SUCCESS /\ found.address = address

LEMMA RootFound ==
  ASSUME NEW b, NEW last, NEW hash, HashesTo(b, last, hash)
  PROVE  FindsAddress(RootHash(HashCells(b, last)), hash)
  BY DEF HashesTo, FindsAddress, RootHash

PlainWanted(account, wallet_type) ==
  InitHash(CodeDepth[wallet_type], 1, CodeHash(wallet_type),
           DictHash(0, KeyHash(LabelSame(0, 7, 64), account)))

ForkedWanted(account, wallet_type) ==
  InitHash(CodeDepth[wallet_type], 3, CodeHash(wallet_type),
           DictHash(2, ForkHash(KeyHash(LabelSame(0, 2, 3), account))))

LEMMA DepthOfCode == \A t \in SAFE_MULTISIG_WALLET .. MULTISIG_2_1 : CodeDepth[t] \in 10 .. 13
  BY DEF CodeDepth

LEMMA PlainAddress ==
  ASSUME NEW count \in Nat, count > 6, NEW account,
         NEW wallet_type \in SAFE_MULTISIG_WALLET .. MULTISIG_2_1
  PROVE  FindsAddress(with_tree(deserialize_cells_tree(ZeroBoc, PlainWallet(count)), account,
                                wallet_type, TRUE),
                      PlainWanted(account, wallet_type))
  <1>1. PICK cells : PlainCells(cells) /\ ReadTree(PlainWallet(count), cells)
    BY PlainRead
  <1> DEFINE b0 == [ZeroBoc EXCEPT !.cells = cells]
             tree == [bc |-> b0, err |-> SUCCESS]
             key == Found(2, 64, 10)
             b == PutIn(b0, key, account, wallet_type)
             held == KeyCellData(cells[3], 10, account)
             depth == CodeDepth[wallet_type]
  <1>2. deserialize_cells_tree(ZeroBoc, PlainWallet(count)) = tree
    BY <1>1, Zenon DEF ReadTree
  <1>3. tree.err = SUCCESS /\ tree.bc = b0 /\ b0.cells = cells
    BY DEF ZeroBoc
  <1>4. key.err = SUCCESS /\ key.index = 2
    BY DEF Found
  <1>5. Coded(b, cells, 2, held, CodeHash(wallet_type), depth)
    <2>1. 2 \in 1 .. 14 /\ 2 + 1 = 3
      OBVIOUS
    <2>2. Coded(b, cells, 2, KeyCellData(cells[2 + 1], 10, account), CodeHash(wallet_type), depth)
      <3> HIDE DEF depth
      <3> QED
        BY <2>1, PutInCoded DEF depth
    <2> HIDE DEF b, depth
    <2> QED
      BY <2>1, <2>2
  <1>6. held = LabelSame(0, 7, 64) \o <<Fld(256, PublicKey(account))>>
    <2>1. 7 \in 1 .. 16 /\ 3 + 7 = 10
      OBVIOUS
    <2>2. KeyCellData(Leaf(7, 64), 3 + 7, account)
            = LabelSame(0, 7, 64) \o <<Fld(256, PublicKey(account))>>
      BY <2>1, KeyPutIn
    <2> QED
      BY <1>1, <2>1, <2>2 DEF PlainCells
  <1>7. depth \in 2 .. 100
    BY DepthOfCode
  <1> HIDE DEF tree, key, b, held, depth, b0
  <1>8. HashesTo(b, 2, InitHash(depth, 1, CodeHash(wallet_type),
                                DictHash(0, KeyHash(LabelSame(0, 7, 64), account))))
    BY <1>1, <1>5, <1>6, <1>7, PlainHash
  <1>9. HashesTo(b, 2, PlainWanted(account, wallet_type))
    BY <1>8 DEF PlainWanted, depth
  <1>10. find_public_key_cell(cells) = key
    BY <1>1, PlainFound DEF key
  <1>11. with_tree(tree, account, wallet_type, TRUE)
           = hash_with_key(b0, key, account, wallet_type, TRUE)
    BY <1>3, <1>10, Zenon DEF with_tree
  <1>12. hash_with_key(b0, key, account, wallet_type, TRUE) = RootHash(HashCells(b, 2))
    <2>1. hash_with_key(b0, key, account, wallet_type, TRUE)
            = RootHash(HashCells(PutIn(b0, key, account, wallet_type), key.index))
      BY <1>4, KeyHashed
    <2> QED
      BY <1>4, <2>1 DEF b
  <1>13. FindsAddress(RootHash(HashCells(b, 2)), PlainWanted(account, wallet_type))
    BY <1>9, RootFound
  <1> QED
    BY <1>2, <1>11, <1>12, <1>13, Zenon

LEMMA ForkedAddress ==
  ASSUME NEW count \in Nat, count > 6, NEW account,
         NEW wallet_type \in SAFE_MULTISIG_WALLET .. MULTISIG_2_1
  PROVE  FindsAddress(with_tree(deserialize_cells_tree(ZeroBoc, ForkedWallet(count)), account,
                                wallet_type, TRUE),
                      ForkedWanted(account, wallet_type))
  <1>1. PICK cells : ForkedCells(cells) /\ ReadTree(ForkedWallet(count), cells)
    BY ForkedRead
  <1> DEFINE b0 == [ZeroBoc EXCEPT !.cells = cells]
             tree == [bc |-> b0, err |-> SUCCESS]
             key == Found(5, 3, 5)
             b == PutIn(b0, key, account, wallet_type)
             held == KeyCellData(cells[6], 5, account)
             depth == CodeDepth[wallet_type]
  <1>2. deserialize_cells_tree(ZeroBoc, ForkedWallet(count)) = tree
    BY <1>1, Zenon DEF ReadTree
  <1>3. tree.err = SUCCESS /\ tree.bc = b0 /\ b0.cells = cells
    BY DEF ZeroBoc
  <1>4. key.err = SUCCESS /\ key.index = 5
    BY DEF Found
  <1>5. Coded(b, cells, 5, held, CodeHash(wallet_type), depth)
    <2>1. 5 \in 1 .. 14 /\ 5 + 1 = 6
      OBVIOUS
    <2>2. Coded(b, cells, 5, KeyCellData(cells[5 + 1], 5, account), CodeHash(wallet_type), depth)
      <3> HIDE DEF depth
      <3> QED
        BY <2>1, PutInCoded DEF depth
    <2> HIDE DEF b, depth
    <2> QED
      BY <2>1, <2>2
  <1>6. held = LabelSame(0, 2, 3) \o <<Fld(256, PublicKey(account))>>
    <2>1. 2 \in 1 .. 16 /\ 3 + 2 = 5
      OBVIOUS
    <2>2. KeyCellData(Leaf(2, 3), 3 + 2, account)
            = LabelSame(0, 2, 3) \o <<Fld(256, PublicKey(account))>>
      BY <2>1, KeyPutIn
    <2> QED
      BY <1>1, <2>1, <2>2 DEF ForkedCells
  <1>7. depth \in 4 .. 100
    BY DepthOfCode
  <1> HIDE DEF tree, key, b, held, depth, b0
  <1>8. HashesTo(b, 5, InitHash(depth, 3, CodeHash(wallet_type),
                                DictHash(2, ForkHash(KeyHash(LabelSame(0, 2, 3), account)))))
    BY <1>1, <1>5, <1>6, <1>7, ForkedHash
  <1>9. HashesTo(b, 5, ForkedWanted(account, wallet_type))
    BY <1>8 DEF ForkedWanted, depth
  <1>10. find_public_key_cell(cells) = key
    BY <1>1, ForkedFound DEF key
  <1>11. with_tree(tree, account, wallet_type, TRUE)
           = hash_with_key(b0, key, account, wallet_type, TRUE)
    BY <1>3, <1>10, Zenon DEF with_tree
  <1>12. hash_with_key(b0, key, account, wallet_type, TRUE) = RootHash(HashCells(b, 5))
    <2>1. hash_with_key(b0, key, account, wallet_type, TRUE)
            = RootHash(HashCells(PutIn(b0, key, account, wallet_type), key.index))
      BY <1>4, KeyHashed
    <2> QED
      BY <1>4, <2>1 DEF b
  <1>13. FindsAddress(RootHash(HashCells(b, 5)), ForkedWanted(account, wallet_type))
    BY <1>9, RootFound
  <1> QED
    BY <1>2, <1>11, <1>12, <1>13, Zenon

\* The wallet types.
LEMMA WalletTypes ==
  /\ WALLET_V3 = 0 /\ EVER_WALLET = 1
  /\ SAFE_MULTISIG_WALLET .. MULTISIG_2_1
       = {SAFE_MULTISIG_WALLET, SAFE_MULTISIG_WALLET_24H, SETCODE_MULTISIG_WALLET,
          BRIDGE_MULTISIG_WALLET, SURF_WALLET, MULTISIG_2, MULTISIG_2_1}
  /\ WALLET_V3 \notin SAFE_MULTISIG_WALLET .. MULTISIG_2_1
  /\ EVER_WALLET \notin SAFE_MULTISIG_WALLET .. MULTISIG_2_1
  BY DEF WALLET_V3, EVER_WALLET, SAFE_MULTISIG_WALLET, SAFE_MULTISIG_WALLET_24H,
     SETCODE_MULTISIG_WALLET, BRIDGE_MULTISIG_WALLET, SURF_WALLET, MULTISIG_2, MULTISIG_2_1

\* The two trees of the multisig wallets, written as WantedAddress writes them.
LEMMA WantedOf ==
  ASSUME NEW account, NEW t \in SAFE_MULTISIG_WALLET .. MULTISIG_2_1
  PROVE  WantedAddress(account, t)
           = IF t \in {SAFE_MULTISIG_WALLET, SAFE_MULTISIG_WALLET_24H, SETCODE_MULTISIG_WALLET}
             THEN ForkedWanted(account, t) ELSE PlainWanted(account, t)
  <1>1. t # WALLET_V3 /\ t # EVER_WALLET
    BY WalletTypes
  <1>2. CASE t \in {SAFE_MULTISIG_WALLET, SAFE_MULTISIG_WALLET_24H, SETCODE_MULTISIG_WALLET}
    <2>1. ForkedWanted(account, t)
            = Sha256(StateInit, <<CodeDepth[t], 3>>,
                <<CodeHash(t),
                  Sha256(<<Fld(1, 1)>>, <<2>>,
                    <<Sha256(LabelSame(0, 7, 60), <<0, 1>>,
                        <<Sha256(LabelSame(0, 2, 3) \o <<Fld(256, PublicKey(account))>>,
                                 << >>, << >>),
                          Sha256(<<Fld(6, 55)>>, <<0>>,
                                 <<Sha256(<<Fld(10, 832)>>, << >>, << >>)>>)>>)>>)>>)
      BY Zenon DEF ForkedWanted, InitHash, DictHash, ForkHash, SixHash, TenHash, KeyHash
    <2> QED
      BY <1>1, <1>2, <2>1, Zenon DEF WantedAddress
  <1>3. CASE t \notin {SAFE_MULTISIG_WALLET, SAFE_MULTISIG_WALLET_24H,
                       SETCODE_MULTISIG_WALLET}
    <2>1. PlainWanted(account, t)
            = Sha256(StateInit, <<CodeDepth[t], 1>>,
                <<CodeHash(t),
                  Sha256(<<Fld(1, 1)>>, <<0>>,
                    <<Sha256(LabelSame(0, 7, 64) \o <<Fld(256, PublicKey(account))>>,
                             << >>, << >>)>>)>>)
      BY Zenon DEF PlainWanted, InitHash, DictHash, KeyHash
    <2> QED
      BY <1>1, <1>3, <2>1, Zenon DEF WantedAddress
  <1> QED
    BY <1>2, <1>3

\* The boc of each of them.
LEMMA BocOf ==
  ASSUME NEW t \in SAFE_MULTISIG_WALLET .. MULTISIG_2_1
  PROVE  \E count \in Nat :
           /\ count > 6
           /\ WalletBoc(t)
                = IF t \in {SAFE_MULTISIG_WALLET, SAFE_MULTISIG_WALLET_24H,
                            SETCODE_MULTISIG_WALLET}
                  THEN ForkedWallet(count) ELSE PlainWallet(count)
  <1>1. \/ WalletBoc(t) = ForkedWallet(101) /\ t = SETCODE_MULTISIG_WALLET
        \/ /\ WalletBoc(t) = ForkedWallet(73)
           /\ t \in {SAFE_MULTISIG_WALLET, SAFE_MULTISIG_WALLET_24H}
        \/ WalletBoc(t) = PlainWallet(69) /\ t = BRIDGE_MULTISIG_WALLET
        \/ WalletBoc(t) = PlainWallet(86) /\ t = MULTISIG_2
        \/ WalletBoc(t) = PlainWallet(77) /\ t \in {MULTISIG_2_1, SURF_WALLET}
    BY WalletTypes
       DEF WalletBoc, SAFE_MULTISIG_WALLET, SAFE_MULTISIG_WALLET_24H, SETCODE_MULTISIG_WALLET,
           BRIDGE_MULTISIG_WALLET, SURF_WALLET, MULTISIG_2, MULTISIG_2_1
  <1>2. /\ 101 \in Nat /\ 101 > 6 /\ 73 \in Nat /\ 73 > 6 /\ 69 \in Nat /\ 69 > 6
        /\ 86 \in Nat /\ 86 > 6 /\ 77 \in Nat /\ 77 > 6
    OBVIOUS
  <1>3. \A x \in {BRIDGE_MULTISIG_WALLET, SURF_WALLET, MULTISIG_2, MULTISIG_2_1} :
          x \notin {SAFE_MULTISIG_WALLET, SAFE_MULTISIG_WALLET_24H, SETCODE_MULTISIG_WALLET}
    BY DEF SAFE_MULTISIG_WALLET, SAFE_MULTISIG_WALLET_24H, SETCODE_MULTISIG_WALLET,
           BRIDGE_MULTISIG_WALLET, SURF_WALLET, MULTISIG_2, MULTISIG_2_1
  <1> QED
    BY <1>1, <1>2, <1>3, Zenon

\* From a clean boc_context, get_address finds the address or throws.
LEMMA CleanAddress ==
  ASSUME NEW account, NEW t, get_address(ZeroBoc, account, t, TRUE).err = SUCCESS
  PROVE  get_address(ZeroBoc, account, t, TRUE).address = WantedAddress(account, t)
  <1>1. CASE t = WALLET_V3
    <2>1. t # EVER_WALLET /\ t \notin SAFE_MULTISIG_WALLET .. MULTISIG_2_1
      BY <1>1, WalletTypes
    <2>2. get_address(ZeroBoc, account, t, TRUE).address = compute_wallet_v3_address(account)
      BY <1>1, Zenon DEF get_address
    <2>3. WantedAddress(account, t) = compute_wallet_v3_address(account)
      BY <1>1, <2>1, WalletTypes, Zenon DEF WantedAddress
    <2> QED
      BY <2>2, <2>3
  <1>2. CASE t = EVER_WALLET
    <2>1. t # WALLET_V3
      BY <1>2 DEF WALLET_V3, EVER_WALLET
    <2>2. get_address(ZeroBoc, account, t, TRUE).address = compute_ever_wallet_address(account)
      BY <1>2, <2>1, Zenon DEF get_address
    <2>3. WantedAddress(account, t) = compute_ever_wallet_address(account)
      BY <1>2, <2>1, WalletTypes, Zenon DEF WantedAddress
    <2> QED
      BY <2>2, <2>3
  <1>3. CASE t \in SAFE_MULTISIG_WALLET .. MULTISIG_2_1
    <2>1. t # WALLET_V3 /\ t # EVER_WALLET
      BY <1>3, WalletTypes
    <2>2. get_address(ZeroBoc, account, t, TRUE)
            = with_tree(deserialize_cells_tree(ZeroBoc, WalletBoc(t)), account, t, TRUE)
      BY <1>3, <2>1, Zenon DEF get_address, compute_multisig_address
    <2>3. PICK count \in Nat :
            /\ count > 6
            /\ WalletBoc(t)
                 = IF t \in {SAFE_MULTISIG_WALLET, SAFE_MULTISIG_WALLET_24H,
                             SETCODE_MULTISIG_WALLET}
                   THEN ForkedWallet(count) ELSE PlainWallet(count)
      BY <1>3, BocOf
    <2>4. /\ FindsAddress(with_tree(deserialize_cells_tree(ZeroBoc, ForkedWallet(count)),
                                    account, t, TRUE), ForkedWanted(account, t))
          /\ FindsAddress(with_tree(deserialize_cells_tree(ZeroBoc, PlainWallet(count)),
                                    account, t, TRUE), PlainWanted(account, t))
      BY <1>3, <2>3, ForkedAddress, PlainAddress
    <2>5. FindsAddress(with_tree(deserialize_cells_tree(ZeroBoc, WalletBoc(t)),
                                 account, t, TRUE), WantedAddress(account, t))
      BY <1>3, <2>3, <2>4, WantedOf, Zenon
    <2> QED
      BY <2>2, <2>5, Zenon DEF FindsAddress
  <1>4. CASE /\ t # WALLET_V3 /\ t # EVER_WALLET
             /\ t \notin SAFE_MULTISIG_WALLET .. MULTISIG_2_1
    <2>1. get_address(ZeroBoc, account, t, TRUE).err = "ERR_INVALID_WALLET_TYPE"
      BY <1>4, Zenon DEF get_address, NoAddress
    <2>2. "ERR_INVALID_WALLET_TYPE" # SUCCESS
      BY DEF SUCCESS
    <2> QED
      BY <2>1, <2>2
  <1> QED
    BY <1>1, <1>2, <1>3, <1>4

\* A header that was read is one whose address was found.
LEMMA FoundByHeader ==
  ASSUME NEW h, h # None, ReadHeader(h, TRUE).err = SUCCESS
  PROVE  get_address(ZeroBoc, h.account, h.origin, TRUE).err = SUCCESS
  <1> DEFINE before == ReadWallet(h)
             own     == ReadAddress(before, h, TRUE)
             found   == get_address(ZeroBoc, h.account, h.origin, TRUE)
             default == Step(own, TRUE, SUCCESS, [tx_wc |-> DEFAULT_WORKCHAIN_ID])
             wc      == Option(default, "wc" \in h.flags, h, 8, [tx_wc |-> h.wc])
             prepend == ReadPrepend(wc, h)
             flag    == Step(prepend, TRUE, SUCCESS,
                             [tx_sign_with_chain_id |-> "chain" \in h.flags])
             st      == ReadHeader(h, TRUE)
  <1>1. st = Option(flag, "chain" \in h.flags, h, 10, [tx_chain_id |-> h.chain])
    BY DEF ReadHeader, ReadOptions
  <1>2. before.bc = ZeroBoc
    BY ReadWalletLemma
  <1>3. own = IF before.err # SUCCESS THEN before
              ELSE StoreAddress(found, KeyLeft(before.dc, found, h.account))
    BY <1>2 DEF ReadAddress, OwnAddressOf
  <1>4. \A r, cond, code, w : Step(r, cond, code, w).err = SUCCESS => r.err = SUCCESS
    BY DEF Step
  <1>5. \A r, n, w, given :
          /\ Item(r, h, n, w).err = SUCCESS => r.err = SUCCESS
          /\ Option(r, given, h, n, w).err = SUCCESS => r.err = SUCCESS
    BY <1>4 DEF Item, Option
  <1> HIDE DEF before, found, own
  <1>6. own.err = SUCCESS => found.err = SUCCESS
    BY <1>3, Zenon DEF StoreAddress
  <1>7. wc.err = SUCCESS => own.err = SUCCESS
    <2>1. default.err = SUCCESS => own.err = SUCCESS
      BY <1>4
    <2> HIDE DEF default
    <2> QED
      BY <1>5, <2>1
  <1> HIDE DEF wc
  <1>8. prepend.err = SUCCESS => wc.err = SUCCESS
    BY <1>4, <1>5 DEF ReadPrepend
  <1> HIDE DEF prepend
  <1>9. flag.err = SUCCESS => prepend.err = SUCCESS
    BY <1>4
  <1> HIDE DEF flag
  <1>10. st.err = SUCCESS => flag.err = SUCCESS
    BY <1>1, <1>5
  <1> HIDE DEF st
  <1> QED
    BY <1>6, <1>7, <1>8, <1>9, <1>10 DEF found, st

\* What AddressFromCleanBoc asks of a step.
AddressGiven ==
  LET wanted == WantedAddress(apdu.account, apdu.wallet)
  IN  (Answered => reply'.data = wanted) /\ (ui' = "address" => dc'.addr_address = wanted)

\* get_address throws, answers with the address or puts it on the screen.
LEMMA AddressHandledClean ==
  ASSUME NEW derived \in BOOLEAN, handleGetAddress(derived), bc = ZeroBoc
  PROVE  AddressGiven
  <1> DEFINE found  == get_address(ZeroBoc, apdu.account, apdu.wallet, derived)
             left   == KeyLeft(dc, found, apdu.account)
             wanted == WantedAddress(apdu.account, apdu.wallet)
             w      == [addr_address |-> found.address,
                        addr_address_str |-> <<"hex", found.address>>]
  <1>1. AddressFound(found, left) /\ ui = "menu"
    BY DEF handleGetAddress, Dispatched, Fresh
  <1>2. found.err = SUCCESS => found.address = wanted
    <2> SUFFICES ASSUME found.err = SUCCESS PROVE found.address = wanted
      OBVIOUS
    <2>1. derived = TRUE
      BY AddressNeedsKey
    <2> QED
      BY <2>1, CleanAddress
  <1> HIDE DEF found, left, wanted
  <1>3. CASE found.err # SUCCESS /\ Throw(found.err, left, found.bc)
    BY <1>1, <1>3 DEF Throw, Answered, AddressGiven
  <1>4. CASE /\ found.err = SUCCESS /\ helper_send_response("address", found.address)
             /\ ui' = ui
    BY <1>1, <1>2, <1>4 DEF helper_send_response, Reply, AddressGiven, wanted
  <1>5. CASE found.err = SUCCESS /\ dc' = Write(left, w) /\ apdu' = apdu
    <2>1. "addr_address" \in Fields /\ "addr_address" \in DOMAIN w
      BY FieldNames
    <2>2. Write(left, w).addr_address = w.addr_address
      <3> HIDE DEF w
      <3> QED
        BY <2>1 DEF Write
    <2> QED
      BY <1>2, <1>5, <2>2 DEF Answered, AddressGiven, wanted
  <1> QED
    BY <1>1, <1>3, <1>4, <1>5 DEF AddressFound

LEMMA StepAddress ==
  ASSUME [Next]_vars, apdu # None, apdu.ins = "GET_ADDRESS", ui = "menu", bc = ZeroBoc
  PROVE  AddressGiven \/ UNCHANGED vars
  <1>1. CASE \E c \in Commands : Receive(c)
    BY <1>1 DEF Receive
  <1>2. CASE Refuse
    BY <1>2 DEF Refuse, io_send_sw, Reply, Answered, AddressGiven, SUCCESS
  <1>3. CASE handleGetAppConfiguration \/ handleSign
    BY <1>3 DEF handleGetAppConfiguration, handleSign, Dispatched
  <1>4. ASSUME NEW derived \in BOOLEAN, \/ handleGetPublicKey(derived)
                                        \/ handleGetAddress(derived)
                                        \/ handleSignTransaction(derived)
        PROVE  AddressGiven
    BY <1>4, AddressHandledClean DEF handleGetPublicKey, handleSignTransaction, Dispatched
  <1>5. CASE UserDecides
    BY <1>5 DEF UserDecides, Decide
  <1>6. CASE Quit \/ ReceiveFails
    BY <1>6 DEF Quit, ReceiveFails, Stop, Answered, AddressGiven
  <1>7. CASE app_main
    BY <1>7 DEF app_main, NoReply, Answered, AddressGiven, SUCCESS
  <1> QED
    BY <1>1, <1>2, <1>3, <1>4, <1>5, <1>6, <1>7 DEF Next, Handle

-----------------------------------------------------------------------------
(***************************************************************************)
(* The results.                                                            *)
(***************************************************************************)
\* A header that was read is that of a first chunk.
LEMMA HeaderIsOne == \A h \in HeadersRead : h # None /\ ReadHeader(h, TRUE).err = SUCCESS
  BY AppAssumption DEF HeadersRead, is_first_chunk

\* The device computes the address of the wallet for every header that it reads,
\* whatever the set of commands (contract.c:297-341, cell.c:97-153,
\* hashmap_label.c:26-82).
THEOREM AddressesAlwaysRight == AddressesAreRight
  <1> SUFFICES ASSUME NEW h \in HeadersRead
               PROVE  OwnAddress(h) = WantedAddress(h.account, h.origin)
    BY DEF AddressesAreRight
  <1>1. h # None /\ ReadHeader(h, TRUE).err = SUCCESS
    BY HeaderIsOne
  <1>2. get_address(ZeroBoc, h.account, h.origin, TRUE).err = SUCCESS
    BY <1>1, FoundByHeader
  <1> QED
    BY <1>2, CleanAddress DEF OwnAddress

\* The address that a GET_ADDRESS command answers with or shows is that of the
\* wallet it names, if it finds boc_context clean, whatever ran before and for
\* every set of commands (get_address.c, contract.c:297-341).
THEOREM AddressAlwaysFromCleanBoc == Spec => AddressFromCleanBoc
  <1>1. [Next]_vars =>
          [apdu # None /\ apdu.ins = "GET_ADDRESS" /\ ui = "menu" /\ bc = ZeroBoc =>
             LET wanted == WantedAddress(apdu.account, apdu.wallet)
             IN  /\ Answered => reply'.data = wanted
                 /\ ui' = "address" => dc'.addr_address = wanted]_vars
    BY StepAddress DEF AddressGiven
  <1> QED
    BY <1>1, PTL DEF Spec, AddressFromCleanBoc

LEMMA SessionPayload ==
  ASSUME SessionInv, app = "running", ui = "transaction", sess.header # None,
         sess.intact, ~ReviewedBefore, SentTree(sess.items, sess.header)
  PROVE  SignedBytes(dc) = WantedBytes(SentCells(sess.items), sess.header,
                                       OwnAddress(sess.header))
  <1>1. sess.header \in HeadersRead /\ IsSequence(sess.items)
    BY DEF SessionInv, SessionOpen, WellOpened
  <1>2. PICK left \in {Zero, Junk} : \E r \in {SessionReview(sess.header, sess.items, left)} :
          ReviewError(r) = SUCCESS /\ SignedBytes(dc) = r.to_sign
    BY SessionShown
  <1> DEFINE r == SessionReview(sess.header, sess.items, left)
  <1>3. ReviewError(r) = SUCCESS /\ SignedBytes(dc) = r.to_sign
    BY <1>2
  <1> HIDE DEF r
  <1> QED
    BY <1>1, <1>3, HeaderIsOne, SessionSigned DEF r

\* An undisturbed session signs the hash of the tree that its chunks add up
\* to, whatever proper tree that is and whatever else was sent, for every set
\* of commands (message.c:352-451, cell.c:97-153).
THEOREM PayloadAlwaysTree == Spec => []PayloadIsTree
  <1>1. SessionInv => PayloadIsTree
    BY SessionPayload DEF PayloadIsTree
  <1> QED
    BY <1>1, SessionAlways, PTL

\* What is held of a request comes from a session without an earlier review.
LEMMA HeldWhole ==
  ASSUME MessagesAreWhole, SessionInv, NEW m \in Held
  PROVE  /\ app = "running" /\ ui = "transaction" /\ sess.header # None
         /\ m \in Sent /\ Message(m) = sess.items /\ m.wallet = WalletOf(sess.header)
         /\ sess.header \in HeadersRead /\ ~ReviewedBefore
  <1>1. /\ app = "running" /\ ui = "transaction" /\ sess.header # None
        /\ m \in Sent /\ Message(m) = sess.items /\ m.wallet = WalletOf(sess.header)
    BY DEF Held
  <1>2. sess.header \in HeadersRead
    BY <1>1 DEF SessionInv, SessionOpen, WellOpened
  <1>3. ~ReviewedBefore
    BY <1>1, <1>2 DEF MessagesAreWhole, ReviewedBefore
  <1> QED
    BY <1>1, <1>2, <1>3

\* If no part of a message is taken for a message, then an undisturbed session
\* of a message signs the hash of that message and nothing else, in every
\* behaviour (message.c:352-370, 406-451; cell.c:97-153).
THEOREM PayloadAlwaysMessage == MessagesAreWhole => (Spec => []PayloadIsMessage)
  <1> SUFFICES ASSUME MessagesAreWhole PROVE Spec => []PayloadIsMessage
    OBVIOUS
  <1>1. SessionInv => PayloadIsMessage
    <2> SUFFICES ASSUME SessionInv, sess.intact, NEW m \in Held
                 PROVE  SignedBytes(dc) = WantedBytes(MessageCells(m), sess.header,
                          WantedAddress(sess.header.account, sess.header.origin))
      BY DEF PayloadIsMessage, SignsHeldMessage
    <2>1. /\ app = "running" /\ ui = "transaction" /\ sess.header # None
          /\ Message(m) = sess.items /\ m.wallet = WalletOf(sess.header)
          /\ sess.header \in HeadersRead /\ ~ReviewedBefore
      BY HeldWhole
    <2>2. SentTree(sess.items, sess.header) /\ SentCells(sess.items) = MessageCells(m)
      BY <2>1, MessageSent
    <2>3. OwnAddress(sess.header) = WantedAddress(sess.header.account, sess.header.origin)
      BY <2>1, AddressesAlwaysRight DEF AddressesAreRight
    <2>4. SignedBytes(dc) = WantedBytes(SentCells(sess.items), sess.header,
                                        OwnAddress(sess.header))
      BY <2>1, <2>2, SessionPayload
    <2> QED
      BY <2>2, <2>3, <2>4
  <1> QED
    BY <1>1, SessionAlways, PTL

\* If each message alone is read as meant, then the review shows the host's
\* request in every behaviour, disturbed or not.
THEOREM ReviewAlwaysRequest == MessagesAreRead => (Spec => []ReviewShowsRequest)
  <1> SUFFICES ASSUME MessagesAreRead PROVE Spec => []ReviewShowsRequest
    OBVIOUS
  <1>1. SessionInv => ReviewShowsRequest
    <2> SUFFICES ASSUME SessionInv, NEW m \in Held, m.owners = 1
                 PROVE  ShowsRequest(OnScreen, m, sess.header)
      BY DEF ReviewShowsRequest
    <2>1. /\ app = "running" /\ ui = "transaction" /\ sess.header # None
          /\ m \in Sent /\ Message(m) = sess.items /\ m.wallet = WalletOf(sess.header)
          /\ sess.header \in HeadersRead /\ ~ReviewedBefore
      BY HeldWhole DEF MessagesAreRead
    <2>2. PICK left \in {Zero, Junk} :
            \E r \in {SessionReview(sess.header, Message(m), left)} :
              ReviewError(r) = SUCCESS /\ OnScreen = ShownBy(r)
      BY <2>1, SessionShown
    <2>3. ReadAsMeant(m, sess.header)
      BY <2>1 DEF MessagesAreRead
    <2> QED
      BY <2>2, <2>3 DEF ReadAsMeant
  <1> QED
    BY <1>1, SessionAlways, PTL

-----------------------------------------------------------------------------
(***************************************************************************)
(* The fuzzing harness.  A parser decides by what it reads, never by what  *)
(* it writes: two runs of it that differ in the strings they found stay    *)
(* alike in all else, and end alike.                                       *)
(***************************************************************************)
ReadFields == {"data", "pos", "end", "val", "err", "flow", "ref", "on_ref"}

SameReads(p1, p2) ==
  /\ ReadFields \subseteq DOMAIN p1 /\ ReadFields \subseteq DOMAIN p2
  /\ p1.data = p2.data /\ p1.pos = p2.pos /\ p1.end = p2.end /\ p1.val = p2.val
  /\ p1.err = p2.err /\ p1.flow = p2.flow /\ p1.ref = p2.ref /\ p1.on_ref = p2.on_ref

\* Alike, but for the strings.
SameCall(c1, c2) ==
  /\ c1.tx_data = c2.tx_data
  /\ c1.tx_current_wallet_type = c2.tx_current_wallet_type
  /\ c1.tx_decimals = c2.tx_decimals /\ c1.tx_ticker = c2.tx_ticker
  /\ c1.tx_wc = c2.tx_wc /\ c1.tx_address = c2.tx_address
  /\ c1.tx_prepend_address = c2.tx_prepend_address

LEMMA SetSame ==
  ASSUME NEW p1, NEW p2, SameReads(p1, p2)
  PROVE  \A v : /\ SameReads([p1 EXCEPT !.val = v], [p2 EXCEPT !.val = v])
                /\ SameReads([p1 EXCEPT !.err = v], [p2 EXCEPT !.err = v])
                /\ SameReads([p1 EXCEPT !.ref = v], [p2 EXCEPT !.ref = v])
                /\ SameReads(Flow(p1, v), Flow(p2, v))
  BY DEF SameReads, ReadFields, Flow

LEMMA OpenSame ==
  ASSUME NEW p1, NEW p2, SameReads(p1, p2)
  PROVE  \A cell : SameReads(Open(p1, cell), Open(p2, cell))
  BY DEF SameReads, ReadFields, Open

LEMMA RemainingSame ==
  ASSUME NEW p1, NEW p2, SameReads(p1, p2)
  PROVE  RemainingBits(p1) = RemainingBits(p2)
  BY DEF SameReads, RemainingBits

LEMMA ValidateSame ==
  ASSUME NEW p1, NEW p2, SameReads(p1, p2)
  PROVE  \A cond, values, code :
           /\ SameReads(Validate(p1, cond, code), Validate(p2, cond, code))
           /\ SameReads(Expect(p1, values, code), Expect(p2, values, code))
  <1>1. p1.err = p2.err /\ p1.val = p2.val
    BY DEF SameReads
  <1>2. \A cond, code : SameReads(Validate(p1, cond, code), Validate(p2, cond, code))
    BY <1>1, SetSame DEF Validate
  <1> QED
    BY <1>1, <1>2 DEF Expect

LEMMA MoveBySame ==
  ASSUME NEW p1, NEW p2, SameReads(p1, p2)
  PROVE  \A bits : SameReads(MoveBy(p1, bits), MoveBy(p2, bits))
  BY DEF SameReads, ReadFields, MoveBy

LEMMA Next_intSame ==
  ASSUME NEW p1, NEW p2, SameReads(p1, p2)
  PROVE  \A bits : SameReads(Next_int(p1, bits), Next_int(p2, bits))
  <1>1. \A bits : FieldAt(p1, bits) = FieldAt(p2, bits)
    BY DEF SameReads, FieldAt
  <1> QED
    BY <1>1, RemainingSame DEF SameReads, ReadFields, Next_int

LEMMA SkipSame ==
  ASSUME NEW p1, NEW p2, SameReads(p1, p2)
  PROVE  \A first, second : SameReads(Skip(p1, first, second), Skip(p2, first, second))
  BY Next_intSame DEF Skip

LEMMA Next_valueSame ==
  ASSUME NEW p1, NEW p2, SameReads(p1, p2), NEW bytes
  PROVE  SameReads(Next_value(p1, bytes), Next_value(p2, bytes))
  <1> DEFINE fits1 == p1.pos \div 8 + bytes <= p1.end \div 8
             fits2 == p2.pos \div 8 + bytes <= p2.end \div 8
             at1 == [p1 EXCEPT !.val = FieldAt(p1, 8 * bytes)]
             at2 == [p2 EXCEPT !.val = FieldAt(p2, 8 * bytes)]
  <1>1. FieldAt(p1, 8 * bytes) = FieldAt(p2, 8 * bytes) /\ p1.err = p2.err /\ fits1 = fits2
    BY DEF SameReads, FieldAt
  <1>2. SameReads(at1, at2)
    BY <1>1, SetSame
  <1> HIDE DEF at1, at2
  <1>3. SameReads(MoveBy(Validate(at1, fits1, "ERR_INVALID_MESSAGE"), 8 * bytes),
                  MoveBy(Validate(at2, fits2, "ERR_INVALID_MESSAGE"), 8 * bytes))
    BY <1>1, <1>2, ValidateSame, MoveBySame
  <1> QED
    BY <1>1, <1>3, SetSame DEF Next_value, at1, at2

LEMMA FallBackSame ==
  ASSUME NEW p1, NEW p2, SameReads(p1, p2), NEW bits
  PROVE  SameReads(FallBack(p1, bits), FallBack(p2, bits))
  <1>1. /\ p1.err = p2.err /\ p1.ref = p2.ref /\ p1.on_ref = p2.on_ref
        /\ RemainingBits(p1) = RemainingBits(p2)
    BY RemainingSame DEF SameReads
  <1>2. SameReads(Open(p1, p1.ref[1]), Open(p2, p2.ref[1]))
    BY <1>1, OpenSame
  <1>3. SameReads([Open(p1, p1.ref[1]) EXCEPT !.on_ref = TRUE],
                  [Open(p2, p2.ref[1]) EXCEPT !.on_ref = TRUE])
    BY <1>2 DEF SameReads, ReadFields
  <1> QED
    BY <1>1, <1>3, SetSame DEF FallBack

LEMMA AddressSame ==
  ASSUME NEW p1, NEW p2, SameReads(p1, p2)
  PROVE  \A wc, address : SameReads(set_dst_address(p1, wc, address),
                                    set_dst_address(p2, wc, address))
  BY DEF SameReads, ReadFields, set_dst_address

LEMMA AmountSame ==
  ASSUME NEW p1, NEW p2, SameReads(p1, p2), NEW c1, NEW c2, SameCall(c1, c2), NEW flags
  PROVE  SameReads(set_amount(p1, flags, c1), set_amount(p2, flags, c2))
  <1>1. /\ p1.err = p2.err /\ p1.val = p2.val
        /\ c1.tx_decimals = c2.tx_decimals /\ c1.tx_ticker = c2.tx_ticker
    BY DEF SameReads, SameCall
  <1>2. \A text, ticker : SameReads(ShowAmount(p1, flags, text, ticker),
                                    ShowAmount(p2, flags, text, ticker))
    BY DEF SameReads, ReadFields, ShowAmount
  <1>3. \A text, ticker : SameReads(ShowAmount(p1, NORMAL_FLAG, text, ticker),
                                    ShowAmount(p2, NORMAL_FLAG, text, ticker))
    BY DEF SameReads, ReadFields, ShowAmount
  <1>4. \A code : SameReads(AmountFails(p1, code), AmountFails(p2, code))
    BY DEF SameReads, ReadFields, AmountFails
  <1>5. \A number, ticker : SameReads(ShowNumber(p1, number, ticker),
                                      ShowNumber(p2, number, ticker))
    BY <1>3, <1>4 DEF ShowNumber
  <1> QED
    BY <1>1, <1>2, <1>4, <1>5 DEF set_amount

LEMMA IdSame ==
  ASSUME NEW p1, NEW p2, SameReads(p1, p2)
  PROVE  SameReads(set_transaction_id(p1), set_transaction_id(p2))
  BY DEF SameReads, ReadFields, set_transaction_id

LEMMA DeserializedSame ==
  ASSUME NEW p1, NEW p2, SameReads(p1, p2)
  PROVE  SameReads(deserialize_address(p1), deserialize_address(p2))
  <1>1. ASSUME NEW q1, NEW q2, SameReads(q1, q2)
        PROVE  SameReads(deserialize_std(q1), deserialize_std(q2))
    <2> DEFINE r1 == Next_value(q1, ADDRESS_LENGTH)
               r2 == Next_value(q2, ADDRESS_LENGTH)
    <2>1. SameReads(r1, r2)
      BY <1>1, Next_valueSame
    <2> HIDE DEF r1, r2
    <2>2. r1.val = r2.val /\ q1.val = q2.val
      BY <1>1, <2>1 DEF SameReads
    <2>3. /\ deserialize_std(q1) = [r1 EXCEPT !.val = [wc |-> q1.val, address |-> r1.val]]
          /\ deserialize_std(q2) = [r2 EXCEPT !.val = [wc |-> q2.val, address |-> r2.val]]
      BY DEF deserialize_std, r1, r2
    <2>4. \A v : SameReads([r1 EXCEPT !.val = v], [r2 EXCEPT !.val = v])
      BY <2>1, SetSame
    <2> QED
      BY <2>2, <2>3, <2>4
  <1> DEFINE t1 == Expect(Next_int(p1, 2), {0, 2}, "ERR_INVALID_MESSAGE")
             t2 == Expect(Next_int(p2, 2), {0, 2}, "ERR_INVALID_MESSAGE")
  <1>2. SameReads(t1, t2)
    BY Next_intSame, ValidateSame
  <1> HIDE DEF t1, t2
  <1>3. t1.err = t2.err /\ t1.val = t2.val
    BY <1>2 DEF SameReads
  <1>4. SameReads(deserialize_std(Next_int(Next_int(t1, 1), 8)),
                  deserialize_std(Next_int(Next_int(t2, 1), 8)))
    BY <1>1, <1>2, Next_intSame
  <1> QED
    BY <1>2, <1>3, <1>4, SetSame DEF deserialize_address, t1, t2

LEMMA ShownSame ==
  ASSUME NEW p1, NEW p2, SameReads(p1, p2)
  PROVE  SameReads(Show_dst_address(p1), Show_dst_address(p2))
  <1> DEFINE d1 == deserialize_address(p1)
             d2 == deserialize_address(p2)
  <1>1. SameReads(d1, d2)
    BY DeserializedSame
  <1> HIDE DEF d1, d2
  <1>2. d1.err = d2.err /\ d1.val = d2.val
    BY <1>1 DEF SameReads
  <1> QED
    BY <1>1, <1>2, AddressSame DEF Show_dst_address, d1, d2

LEMMA CoinsSame ==
  ASSUME NEW p1, NEW p2, SameReads(p1, p2)
  PROVE  SameReads(Next_coins(p1), Next_coins(p2))
  <1> DEFINE len1 == Expect(Next_int(p1, 4), 0 .. AMOUNT_LENGTH, "ERR_INVALID_MESSAGE")
             len2 == Expect(Next_int(p2, 4), 0 .. AMOUNT_LENGTH, "ERR_INVALID_MESSAGE")
  <1>1. SameReads(len1, len2)
    BY Next_intSame, ValidateSame
  <1> HIDE DEF len1, len2
  <1>2. len1.err = len2.err /\ len1.val = len2.val
    BY <1>1 DEF SameReads
  <1> QED
    BY <1>1, <1>2, Next_valueSame DEF Next_coins, len1, len2

LEMMA HeaderSame ==
  ASSUME NEW p1, NEW p2, SameReads(p1, p2), NEW c1, NEW c2, SameCall(c1, c2), NEW flags
  PROVE  SameReads(deserialize_int_message_header(p1, flags, c1),
                   deserialize_int_message_header(p2, flags, c2))
  <1> DEFINE msg1 == Expect(Next_int(p1, 1), {0}, "ERR_INVALID_MESSAGE")
             msg2 == Expect(Next_int(p2, 1), {0}, "ERR_INVALID_MESSAGE")
             dst1 == Show_dst_address(deserialize_address(Next_int(Skip(msg1, 1, 1), 1)))
             dst2 == Show_dst_address(deserialize_address(Next_int(Skip(msg2, 1, 1), 1)))
             amount1 == set_amount(Next_coins(dst1), flags, c1)
             amount2 == set_amount(Next_coins(dst2), flags, c2)
             ihr1 == Expect(Next_int(Next_int(amount1, 1), 4), {0}, "ERR_INVALID_MESSAGE")
             ihr2 == Expect(Next_int(Next_int(amount2, 1), 4), {0}, "ERR_INVALID_MESSAGE")
             fwd1 == Expect(Next_int(ihr1, 4), {0}, "ERR_INVALID_MESSAGE")
             fwd2 == Expect(Next_int(ihr2, 4), {0}, "ERR_INVALID_MESSAGE")
  <1>1. SameReads(msg1, msg2)
    BY Next_intSame, ValidateSame
  <1> HIDE DEF msg1, msg2
  <1>2. SameReads(dst1, dst2)
    BY <1>1, SkipSame, Next_intSame, DeserializedSame, ShownSame
  <1> HIDE DEF dst1, dst2
  <1>3. SameReads(amount1, amount2)
    BY <1>2, CoinsSame, AmountSame
  <1> HIDE DEF amount1, amount2
  <1>4. SameReads(ihr1, ihr2)
    BY <1>3, Next_intSame, ValidateSame
  <1> HIDE DEF ihr1, ihr2
  <1>5. SameReads(fwd1, fwd2)
    BY <1>4, Next_intSame, ValidateSame
  <1> HIDE DEF fwd1, fwd2
  <1>6. SameReads(Skip(fwd1, 64, 32), Skip(fwd2, 64, 32))
    BY <1>5, SkipSame
  <1> QED
    BY <1>6 DEF deserialize_int_message_header, fwd1, fwd2, ihr1, ihr2, amount1, amount2,
                dst1, dst2, msg1, msg2

LEMMA TokenAmountSame ==
  ASSUME NEW p1, NEW p2, SameReads(p1, p2), NEW c1, NEW c2, SameCall(c1, c2)
  PROVE  SameReads(Token_amount(p1, c1), Token_amount(p2, c2))
  BY FallBackSame, Next_valueSame, AmountSame DEF Token_amount

LEMMA TokenBodySame ==
  ASSUME NEW p1, NEW p2, SameReads(p1, p2), NEW c1, NEW c2, SameCall(c1, c2)
  PROVE  SameReads(deserialize_token_body(p1, c1), deserialize_token_body(p2, c2))
  <1>1. ASSUME NEW q1, NEW q2, SameReads(q1, q2)
        PROVE  SameReads(Token_call(q1, c1), Token_call(q2, c2))
    <2>1. q1.err = q2.err /\ q1.val = q2.val
      BY <1>1 DEF SameReads
    <2>2. SameReads(Token_amount(q1, c1), Token_amount(q2, c2))
      BY <1>1, TokenAmountSame
    <2>3. SameReads(Show_dst_address(FallBack(Token_amount(q1, c1), 8 * ADDRESS_LENGTH)),
                    Show_dst_address(FallBack(Token_amount(q2, c2), 8 * ADDRESS_LENGTH)))
      BY <2>2, FallBackSame, ShownSame
    <2> QED
      BY <1>1, <2>1, <2>2, <2>3, SetSame DEF Token_call
  <1>2. SameReads(Token_call(Next_int(FallBack(p1, 32), 32), c1),
                  Token_call(Next_int(FallBack(p2, 32), 32), c2))
    BY <1>1, FallBackSame, Next_intSame
  <1>3. p1.err = p2.err /\ p1.ref = p2.ref /\ RemainingBits(p1) = RemainingBits(p2)
    BY RemainingSame DEF SameReads
  <1> QED
    BY <1>2, <1>3, SetSame DEF deserialize_token_body

LEMMA FlagsSame ==
  ASSUME NEW p1, NEW p2, SameReads(p1, p2), NEW c1, NEW c2, SameCall(c1, c2)
  PROVE  /\ SameReads(Send_flags(p1, c1), Send_flags(p2, c2))
         /\ SameReads(Submit_flags(p1, c1), Submit_flags(p2, c2))
  <1>1. ASSUME NEW bits
        PROVE  LET f1 == Next_int(Next_int(p1, 1), bits)
                   f2 == Next_int(Next_int(p2, 1), bits)
               IN  /\ f1.val = f2.val
                   /\ SameReads([f1 EXCEPT !.val = p1.val], [f2 EXCEPT !.val = p2.val])
    <2> DEFINE f1 == Next_int(Next_int(p1, 1), bits)
               f2 == Next_int(Next_int(p2, 1), bits)
    <2>1. SameReads(f1, f2)
      BY Next_intSame
    <2> HIDE DEF f1, f2
    <2>2. f1.val = f2.val /\ p1.val = p2.val
      BY <2>1 DEF SameReads
    <2>3. \A v : SameReads([f1 EXCEPT !.val = v], [f2 EXCEPT !.val = v])
      BY <2>1, SetSame
    <2> QED
      BY <2>2, <2>3 DEF f1, f2
  <1>2. SameReads(Send_flags(p1, c1), Send_flags(p2, c2))
    BY <1>1, AmountSame DEF Send_flags
  <1>3. SameReads(Submit_flags(p1, c1), Submit_flags(p2, c2))
    BY <1>1, AmountSame DEF Submit_flags
  <1> QED
    BY <1>2, <1>3

LEMMA ParamsSame ==
  ASSUME NEW p1, NEW p2, SameReads(p1, p2), NEW c1, NEW c2, SameCall(c1, c2), NEW id
  PROVE  SameReads(deserialize_multisig_params(p1, id, c1),
                   deserialize_multisig_params(p2, id, c2))
  <1> DEFINE amount1 == Next_value(Show_dst_address(p1), AMOUNT_LENGTH)
             amount2 == Next_value(Show_dst_address(p2), AMOUNT_LENGTH)
  <1>1. p1.err = p2.err /\ c1.tx_wc = c2.tx_wc /\ c1.tx_address = c2.tx_address
    BY DEF SameReads, SameCall
  <1>2. SameReads(amount1, amount2)
    BY ShownSame, Next_valueSame
  <1> HIDE DEF amount1, amount2
  <1>3. SameReads(Flow(set_dst_address(p1, c1.tx_wc, c1.tx_address), "deploy"),
                  Flow(set_dst_address(p2, c2.tx_wc, c2.tx_address), "deploy"))
    BY <1>1, AddressSame, SetSame
  <1>4. /\ SameReads(Flow(Send_flags(amount1, c1), "transfer"),
                     Flow(Send_flags(amount2, c2), "transfer"))
        /\ SameReads(Flow(Submit_flags(amount1, c1), "transfer"),
                     Flow(Submit_flags(amount2, c2), "transfer"))
    BY <1>2, FlagsSame, SetSame
  <1>5. SameReads(Flow(set_transaction_id(Next_value(p1, TRANSACTION_ID_LENGTH)), "confirm"),
                  Flow(set_transaction_id(Next_value(p2, TRANSACTION_ID_LENGTH)), "confirm"))
    BY Next_valueSame, IdSame, SetSame
  <1>6. SameReads([p1 EXCEPT !.err = "ERR_INVALID_FUNCTION_ID"],
                  [p2 EXCEPT !.err = "ERR_INVALID_FUNCTION_ID"])
    BY SetSame
  <1> QED
    BY <1>1, <1>3, <1>4, <1>5, <1>6 DEF deserialize_multisig_params, amount1, amount2

LEMMA RootSame ==
  ASSUME NEW p1, NEW p2, SameReads(p1, p2)
  PROVE  /\ SameReads(deserialize_wallet_v3(p1), deserialize_wallet_v3(p2))
         /\ SameReads(deserialize_contract_header(p1), deserialize_contract_header(p2))
  <1>1. ASSUME NEW q1, NEW q2, SameReads(q1, q2)
        PROVE  SameReads(NoMoreBits(q1), NoMoreBits(q2))
    BY <1>1, RemainingSame, ValidateSame DEF NoMoreBits
  <1>2. SameReads(deserialize_wallet_v3(p1), deserialize_wallet_v3(p2))
    <2> DEFINE id1 == Expect(Next_int(p1, 32), {WALLET_ID}, "ERR_INVALID_MESSAGE")
               id2 == Expect(Next_int(p2, 32), {WALLET_ID}, "ERR_INVALID_MESSAGE")
    <2>1. SameReads(id1, id2)
      BY Next_intSame, ValidateSame
    <2> HIDE DEF id1, id2
    <2>2. SameReads(Next_int(Skip(id1, 32, 32), 8), Next_int(Skip(id2, 32, 32), 8))
      BY <2>1, SkipSame, Next_intSame
    <2> QED
      BY <1>1, <2>2 DEF deserialize_wallet_v3, id1, id2
  <1>3. SameReads(deserialize_contract_header(p1), deserialize_contract_header(p2))
    <2> DEFINE bit1 == Next_int(p1, 1)
               bit2 == Next_int(p2, 1)
               after1 == IF bit1.val = 1 THEN MoveBy(bit1, 256) ELSE bit1
               after2 == IF bit2.val = 1 THEN MoveBy(bit2, 256) ELSE bit2
    <2>1. SameReads(bit1, bit2)
      BY Next_intSame
    <2> HIDE DEF bit1, bit2
    <2>2. bit1.val = bit2.val
      BY <2>1 DEF SameReads
    <2>3. SameReads(MoveBy(bit1, 256), MoveBy(bit2, 256))
      BY <2>1, MoveBySame
    <2>4. SameReads(after1, after2)
      BY <2>1, <2>2, <2>3
    <2> HIDE DEF after1, after2
    <2>5. SameReads(Next_int(Skip(after1, 64, 32), 32), Next_int(Skip(after2, 64, 32), 32))
      BY <2>4, SkipSame, Next_intSame
    <2> QED
      BY <2>5 DEF deserialize_contract_header, after1, after2, bit1, bit2
  <1> QED
    BY <1>2, <1>3

LEMMA HasCellSame ==
  ASSUME NEW p1, NEW p2, SameReads(p1, p2)
  PROVE  \A cells, index : SameReads(HasCell(p1, cells, index), HasCell(p2, cells, index))
  BY ValidateSame DEF HasCell

LEMMA WalletSame ==
  ASSUME NEW p1, NEW p2, SameReads(p1, p2), NEW c1, NEW c2, SameCall(c1, c2), NEW cells
  PROVE  SameReads(parse_wallet_v3(p1, cells, c1), parse_wallet_v3(p2, cells, c2))
  <1> DEFINE Body(body, ctx) ==
               IF body.err # SUCCESS \/ (body.val = 0 /\ cells[2].refs = << >>)
               THEN Flow(body, "transfer")
               ELSE IF Len(cells) <= 2 THEN HasCell(body, cells, 2)
               ELSE deserialize_token_body([body EXCEPT !.ref = <<cells[3]>>], ctx)
             Head_(root, ctx) ==
               deserialize_int_message_header(Open(root, cells[2]), root.val, ctx)
             Rest(root, ctx) ==
               Body(Next_int(Expect(Next_int(Head_(root, ctx), 1), {0},
                                    "ERR_INVALID_MESSAGE"), 1), ctx)
             Gift(root, ctx) == IF root.err # SUCCESS THEN root ELSE Rest(root, ctx)
  <1>1. ASSUME NEW q1, NEW q2, SameReads(q1, q2)
        PROVE  SameReads(Body(q1, c1), Body(q2, c2))
    <2>1. q1.err = q2.err /\ q1.val = q2.val
      BY <1>1 DEF SameReads
    <2>2. SameReads(deserialize_token_body([q1 EXCEPT !.ref = <<cells[3]>>], c1),
                    deserialize_token_body([q2 EXCEPT !.ref = <<cells[3]>>], c2))
      BY <1>1, SetSame, TokenBodySame
    <2> QED
      BY <1>1, <2>1, <2>2, SetSame, HasCellSame
  <1> HIDE DEF Body
  <1>2. ASSUME NEW q1, NEW q2, SameReads(q1, q2)
        PROVE  SameReads(Head_(q1, c1), Head_(q2, c2))
    <2>1. q1.val = q2.val
      BY <1>2 DEF SameReads
    <2>2. SameReads(Open(q1, cells[2]), Open(q2, cells[2]))
      BY <1>2, OpenSame
    <2> QED
      BY <2>1, <2>2, HeaderSame
  <1> HIDE DEF Head_
  <1>3. ASSUME NEW q1, NEW q2, SameReads(q1, q2)
        PROVE  SameReads(Rest(q1, c1), Rest(q2, c2))
    BY <1>1, <1>2, <1>3, Next_intSame, ValidateSame
  <1> HIDE DEF Rest
  <1>4. ASSUME NEW q1, NEW q2, SameReads(q1, q2)
        PROVE  SameReads(Gift(q1, c1), Gift(q2, c2))
    <2>1. q1.err = q2.err
      BY <1>4 DEF SameReads
    <2> QED
      BY <1>3, <1>4, <2>1
  <1> HIDE DEF Gift
  <1>5. SameReads(HasCell(deserialize_wallet_v3(p1), cells, 1),
                  HasCell(deserialize_wallet_v3(p2), cells, 1))
    BY RootSame, HasCellSame
  <1>6. SameReads(Gift(HasCell(deserialize_wallet_v3(p1), cells, 1), c1),
                  Gift(HasCell(deserialize_wallet_v3(p2), cells, 1), c2))
    BY <1>4, <1>5
  <1> QED
    BY <1>6 DEF parse_wallet_v3, Gift, Rest, Head_, Body

LEMMA MultisigSame ==
  ASSUME NEW p1, NEW p2, SameReads(p1, p2), NEW c1, NEW c2, SameCall(c1, c2), NEW cells,
         NEW in_root
  PROVE  SameReads(parse_multisig(p1, cells, c1, in_root),
                   parse_multisig(p2, cells, c2, in_root))
  <1> DEFINE Body(args, holder, ctx) ==
               IF args.err # SUCCESS \/ holder.refs = << >> THEN args
               ELSE IF Len(cells) <= 2 THEN HasCell(args, cells, 2)
               ELSE IF DataSize(cells[3]) = 0 THEN args
               ELSE deserialize_token_body(Open(args, cells[3]), ctx)
             InRoot(root, ctx) ==
               Body(deserialize_multisig_params(root, root.val, ctx), cells[1], ctx)
             InCell(root, ctx) ==
               Body(deserialize_multisig_params(Open(root, cells[2]), root.val, ctx),
                    cells[2], ctx)
             Call(root, ctx) ==
               IF in_root /\ root.val = MULTISIG_CONFIRM_TRANSACTION THEN InRoot(root, ctx)
               ELSE IF root.err # SUCCESS \/ Len(cells) <= 1 THEN HasCell(root, cells, 1)
               ELSE InCell(root, ctx)
  <1>1. ASSUME NEW q1, NEW q2, SameReads(q1, q2), NEW holder
        PROVE  SameReads(Body(q1, holder, c1), Body(q2, holder, c2))
    <2>1. q1.err = q2.err
      BY <1>1 DEF SameReads
    <2>2. SameReads(deserialize_token_body(Open(q1, cells[3]), c1),
                    deserialize_token_body(Open(q2, cells[3]), c2))
      BY <1>1, OpenSame, TokenBodySame
    <2> QED
      BY <1>1, <2>1, <2>2, HasCellSame
  <1> HIDE DEF Body
  <1>2. ASSUME NEW q1, NEW q2, SameReads(q1, q2)
        PROVE  /\ SameReads(InRoot(q1, c1), InRoot(q2, c2))
               /\ SameReads(InCell(q1, c1), InCell(q2, c2))
    <2>1. q1.val = q2.val
      BY <1>2 DEF SameReads
    <2>2. SameReads(Open(q1, cells[2]), Open(q2, cells[2]))
      BY <1>2, OpenSame
    <2> QED
      BY <1>1, <1>2, <2>1, <2>2, ParamsSame
  <1> HIDE DEF InRoot, InCell
  <1>3. ASSUME NEW q1, NEW q2, SameReads(q1, q2)
        PROVE  SameReads(Call(q1, c1), Call(q2, c2))
    <2>1. q1.err = q2.err /\ q1.val = q2.val
      BY <1>3 DEF SameReads
    <2> QED
      BY <1>2, <1>3, <2>1, HasCellSame
  <1> HIDE DEF Call
  <1>4. SameReads(Call(deserialize_contract_header(p1), c1),
                  Call(deserialize_contract_header(p2), c2))
    BY <1>3, RootSame
  <1> QED
    BY <1>4 DEF parse_multisig, Call, InRoot, InCell, Body

LEMMA ParseSame ==
  ASSUME NEW p1, NEW p2, SameReads(p1, p2), NEW c1, NEW c2, SameCall(c1, c2), NEW cells
  PROVE  SameReads(Parse(p1, cells, c1), Parse(p2, cells, c2))
  BY WalletSame, MultisigSame DEF Parse, SameCall

SameEnd(r1, r2) == r1.err = r2.err /\ r1.flow = r2.flow

LEMMA HashEnd ==
  ASSUME NEW p1, NEW p2, SameReads(p1, p2), NEW c1, NEW c2, SameCall(c1, c2),
         NEW b1, NEW b2, b1.cells = b2.cells, BocTyped(b1), BocTyped(b2)
  PROVE  SameEnd(HashParsed(p1, b1, c1), HashParsed(p2, b2, c2))
  <1> DEFINE root1 == prepend_address_to_cell(b1.cells[1], c1.tx_wc, c1.tx_prepend_address)
             root2 == prepend_address_to_cell(b2.cells[1], c2.tx_wc, c2.tx_prepend_address)
             long1 == [b1 EXCEPT !.cells[1] = root1.cell]
             long2 == [b2 EXCEPT !.cells[1] = root2.cell]
  <1>1. /\ root1 = root2 /\ p1.err = p2.err /\ p1.flow = p2.flow
        /\ c1.tx_current_wallet_type = c2.tx_current_wallet_type
    BY DEF SameReads, SameCall
  <1>2. \A code, b, sign, d, sign_ : SameEnd(Hashed(p1, code, b, sign),
                                             Hashed(p2, code, d, sign_))
    BY <1>1 DEF Hashed, SameEnd
  <1>3. SameEnd(HashPlain(p1, b1, c1), HashPlain(p2, b2, c2))
    <2>1. prepare_payload_hash(b1, c1).err = prepare_payload_hash(b2, c2).err
      BY PayloadAlike
    <2> QED
      BY <1>2, <2>1 DEF HashPlain
  <1>4. prepare_payload_hash(long1, c1).err = prepare_payload_hash(long2, c2).err
    <2> HIDE DEF root1, root2
    <2>1. long1.cells = long2.cells
      BY <1>1, BocFields DEF BocTyped
    <2> HIDE DEF long1, long2
    <2> QED
      BY <2>1, PayloadAlike
  <1>5. SameEnd(HashPrepended(p1, b1, c1), HashPrepended(p2, b2, c2))
    BY <1>1, <1>2, <1>4 DEF HashPrepended
  <1> QED
    BY <1>1, <1>2, <1>3, <1>5 DEF HashParsed

LEMMA PreparedEnd ==
  ASSUME NEW c1, NEW c2, SameCall(c1, c2), NEW b1, NEW b2, BocTyped(b1), BocTyped(b2)
  PROVE  SameEnd(prepare_to_sign(b1, c1), prepare_to_sign(b2, c2))
  <1> DEFINE t1 == deserialize_cells_tree(b1, c1.tx_data)
             t2 == deserialize_cells_tree(b2, c2.tx_data)
             p1 == Parse(StartParse(t1.bc.cells[1], c1), t1.bc.cells, c1)
             p2 == Parse(StartParse(t2.bc.cells[1], c2), t2.bc.cells, c2)
  <1>1. c1.tx_data = c2.tx_data /\ c1.tx_current_wallet_type = c2.tx_current_wallet_type
    BY DEF SameCall
  <1>2. /\ t1.err = t2.err /\ BocTyped(t1.bc) /\ BocTyped(t2.bc)
        /\ t1.err = SUCCESS => t1.bc.cells = t2.bc.cells
    BY <1>1, TreeAlike
  <1> HIDE DEF t1, t2
  <1>3. t1.err = SUCCESS => SameReads(p1, p2)
    <2> SUFFICES ASSUME t1.err = SUCCESS PROVE SameReads(p1, p2)
      OBVIOUS
    <2>1. SameReads(StartParse(t1.bc.cells[1], c1), StartParse(t2.bc.cells[1], c2))
      BY <1>2 DEF StartParse, SameReads, ReadFields
    <2> QED
      BY <1>2, <2>1, ParseSame
  <1> HIDE DEF p1, p2
  <1>4. t1.err = SUCCESS => SameEnd(HashParsed(p1, t1.bc, c1), HashParsed(p2, t2.bc, c2))
    BY <1>2, <1>3, HashEnd
  <1>5. SameEnd(SignTree(t1, c1), SignTree(t2, c2))
    BY <1>1, <1>2, <1>4 DEF SignTree, SameEnd, p1, p2
  <1> QED
    BY <1>5 DEF prepare_to_sign, t1, t2

(***************************************************************************)
(* What earlier inputs leave: a boc_context with its fields, the strings   *)
(* and the bytes to sign; the rest of data_context is as it was zeroed,    *)
(* but for the wallet type, which is the running input's.                  *)
(***************************************************************************)
LeftFields == StringFields \cup {"tx_to_sign", "tx_current_wallet_type"}

FuzzInv ==
  /\ BocTyped(boc_context)
  /\ DOMAIN data_context = Fields
  /\ \A f \in Fields \ LeftFields : data_context[f] = ZeroContext[f]
  /\ phase # "ready" => data_context.tx_current_wallet_type = input.wallet % 9
  /\ OutcomeIsInputs

LEMMA InputsEnd ==
  ASSUME FuzzInv, phase # "ready"
  PROVE  Parsed(boc_context, data_context, input)
           = Parsed(ZeroBoc, [ZeroContext EXCEPT
                              !.tx_current_wallet_type = input.wallet % 9], input)
  <1> DEFINE zero == [ZeroContext EXCEPT !.tx_current_wallet_type = input.wallet % 9]
             c1 == FuzzContext(data_context, input)
             c2 == FuzzContext(zero, input)
  <1>1. /\ DOMAIN zero = Fields
        /\ zero.tx_current_wallet_type = data_context.tx_current_wallet_type
        /\ zero.tx_decimals = data_context.tx_decimals
        /\ zero.tx_ticker = data_context.tx_ticker
    <2>1. {"tx_current_wallet_type", "tx_decimals", "tx_ticker"} \subseteq Fields
      BY FieldNames
    <2>2. DOMAIN ZeroContext = Fields
      BY DEF ZeroContext
    <2> HIDE DEF zero
    <2>3. zero = [ZeroContext EXCEPT !.tx_current_wallet_type = input.wallet % 9]
      BY DEF zero
    <2>4. data_context.tx_current_wallet_type = input.wallet % 9
      BY DEF FuzzInv
    <2>5. /\ data_context.tx_decimals = ZeroContext.tx_decimals
          /\ data_context.tx_ticker = ZeroContext.tx_ticker
      BY <2>1 DEF FuzzInv, LeftFields, StringFields
    <2> QED
      BY <2>1, <2>2, <2>3, <2>4, <2>5
  <1> HIDE DEF zero
  <1>2. {"tx_data", "tx_wc", "tx_address", "tx_prepend_address", "tx_current_wallet_type",
         "tx_decimals", "tx_ticker"} \subseteq Fields
    BY FieldNames
  <1>3. DOMAIN data_context = Fields /\ BocTyped(boc_context) /\ BocTyped(ZeroBoc)
    BY DEF FuzzInv, BocTyped
  <1>4. SameCall(c1, c2)
    BY <1>1, <1>2, <1>3 DEF SameCall, FuzzContext
  <1> HIDE DEF c1, c2
  <1>5. SameEnd(prepare_to_sign(boc_context, c1), prepare_to_sign(ZeroBoc, c2))
    BY <1>3, <1>4, PreparedEnd
  <1>6. Parsed(boc_context, data_context, input) = Parsed(ZeroBoc, zero, input)
    BY <1>5 DEF Parsed, SameEnd, c1, c2
  <1> QED
    BY <1>6 DEF zero

\* How an input of the harness ends is a function of the input (fuzzer.c:32-68).
THEOREM OutcomeAlwaysInputs == FuzzSpec => []OutcomeIsInputs
  <1>1. FuzzInit => FuzzInv
    BY DEF FuzzInit, FuzzInv, OutcomeIsInputs, BocTyped, ZeroContext
  <1>2. FuzzInv /\ [FuzzNext]_fuzz => FuzzInv'
    <2> SUFFICES ASSUME FuzzInv, [FuzzNext]_fuzz PROVE FuzzInv'
      OBVIOUS
    <2>1. ASSUME NEW x \in Inputs, LLVMFuzzerTestOneInput(x) PROVE FuzzInv'
      <3>1. /\ data_context' \in {data_context, [data_context EXCEPT
                                       !.tx_current_wallet_type = x.wallet % 9]}
            /\ phase' \in {"ready", "begin"} /\ input' = x /\ boc_context' = boc_context
            /\ phase' # "ready" => data_context' = [data_context EXCEPT
                                       !.tx_current_wallet_type = x.wallet % 9]
        BY <2>1 DEF LLVMFuzzerTestOneInput
      <3>2. "tx_current_wallet_type" \in Fields
        BY FieldNames
      <3>3. /\ DOMAIN data_context' = Fields
            /\ \A f \in Fields \ LeftFields : data_context'[f] = ZeroContext[f]
        BY <3>1 DEF FuzzInv, LeftFields
      <3>4. phase' # "ready" => data_context'.tx_current_wallet_type = input'.wallet % 9
        BY <3>1, <3>2 DEF FuzzInv
      <3> QED
        BY <3>1, <3>3, <3>4 DEF FuzzInv, OutcomeIsInputs, ZeroContext, Fields, Layout
    <2>2. ASSUME try_context_set PROVE FuzzInv'
      BY <2>2 DEF try_context_set, FuzzInv, OutcomeIsInputs
    <2>3. ASSUME run_input PROVE FuzzInv'
      <3> DEFINE r == prepare_to_sign(boc_context, FuzzContext(data_context, input))
      <3>1. BocTyped(r.bc)
        BY PreparedBoc DEF FuzzInv
      <3> HIDE DEF r
      <3>2. /\ outcome' = Parsed(boc_context, data_context, input)
            /\ phase = "try" /\ phase' = "end" /\ input' = input
            /\ \/ UNCHANGED <<data_context, boc_context>>
               \/ /\ boc_context' = r.bc
                  /\ data_context' = [data_context EXCEPT
                                        !.tx_address_str = r.address_str,
                                        !.tx_amount_str = r.amount_str,
                                        !.tx_transaction_id_str = r.transaction_id_str,
                                        !.tx_to_sign = r.to_sign]
        BY <2>3 DEF run_input, r
      <3>3. OutcomeIsInputs'
        BY <3>2, InputsEnd DEF OutcomeIsInputs
      <3>4. /\ DOMAIN data_context' = Fields
            /\ \A f \in Fields \ LeftFields : data_context'[f] = ZeroContext[f]
            /\ data_context'.tx_current_wallet_type = data_context.tx_current_wallet_type
        <4>1. DOMAIN data_context = Fields
          BY DEF FuzzInv
        <4>2. \/ data_context' = data_context
              \/ data_context' = [data_context EXCEPT
                                    !.tx_address_str = r.address_str,
                                    !.tx_amount_str = r.amount_str,
                                    !.tx_transaction_id_str = r.transaction_id_str,
                                    !.tx_to_sign = r.to_sign]
          BY <3>2
        <4>3. DOMAIN data_context' = Fields
          BY <4>1, <4>2
        <4>4. \A f \in Fields \ (StringFields \cup {"tx_to_sign"}) :
                data_context'[f] = data_context[f]
          BY <4>1, <4>2 DEF StringFields
        <4>5. "tx_current_wallet_type" \in Fields \ (StringFields \cup {"tx_to_sign"})
          BY FieldNames DEF StringFields
        <4>6. data_context'.tx_current_wallet_type = data_context.tx_current_wallet_type
          BY <4>4, <4>5
        <4>7. \A f \in Fields \ LeftFields : data_context[f] = ZeroContext[f]
          BY DEF FuzzInv
        <4> QED
          BY <4>3, <4>4, <4>6, <4>7 DEF LeftFields
      <3> QED
        BY <3>1, <3>2, <3>3, <3>4 DEF FuzzInv
    <2>4. ASSUME end_try PROVE FuzzInv'
      BY <2>4 DEF end_try, FuzzInv, OutcomeIsInputs
    <2>5. CASE UNCHANGED fuzz
      BY <2>5 DEF fuzz, FuzzInv, OutcomeIsInputs
    <2> QED
      BY <2>1, <2>2, <2>3, <2>4, <2>5 DEF FuzzNext
  <1>3. FuzzInv => OutcomeIsInputs
    BY DEF FuzzInv
  <1> QED
    BY <1>1, <1>2, <1>3, PTL DEF FuzzSpec

=============================================================================
