------------------------------- MODULE Wallet -------------------------------
(***************************************************************************)
(* Wallet addresses: contract.c and hashmap_label.c.                       *)
(*                                                                         *)
(* An address is the hash of the wallet's initial state: its code and a    *)
(* data tree that holds the owner's public key.  For the multisig wallets  *)
(* the code keeps a boc of the data tree with an empty key, walks its      *)
(* dictionary to the cell of key 0, puts the public key in a copy of that  *)
(* cell's data, and hashes the tree up to the root.                        *)
(***************************************************************************)
EXTENDS Cells

\* enum of contract.h
WALLET_V3 == 0
EVER_WALLET == 1
SAFE_MULTISIG_WALLET == 2
SAFE_MULTISIG_WALLET_24H == 3
SETCODE_MULTISIG_WALLET == 4
BRIDGE_MULTISIG_WALLET == 5
SURF_WALLET == 6
MULTISIG_2 == 7
MULTISIG_2_1 == 8

WALLET_ID == 1269378442

\* get_public_key: derived from the seed by the SDK, for one account.
PublicKey(account) == <<"public key", account>>

CodeHash(wallet_type) == <<"code", wallet_type>>

CodeDepth ==
  [t \in SAFE_MULTISIG_WALLET .. MULTISIG_2_1 |->
     CASE t = SETCODE_MULTISIG_WALLET -> 13
       [] t = BRIDGE_MULTISIG_WALLET -> 11
       [] t = MULTISIG_2_1 -> 10
       [] OTHER -> 12]

-----------------------------------------------------------------------------
(***************************************************************************)
(* The embedded bocs.  Only the first cells are stored: the trees end with *)
(* the cell of the public key, and the next index stands for the code.     *)
(***************************************************************************)
Cell(data, refs) ==
  [kind |-> "cell", type |-> "ordinary", data |-> data, refs |-> refs,
   whole |-> TRUE]

Header(count) ==
  [kind |-> "boc", plain |-> TRUE, ref_size |-> 1, offset_size |-> 2,
   cells_count |-> count, roots_count |-> 1]

\* split_depth, special, code, data, library
StateInit == <<Fld(1, 0), Fld(1, 0), Fld(1, 1), Fld(1, 1), Fld(1, 0)>>

\* A dictionary label "len bits, all equal to bit", its length in width bits.
LabelSame(bit, width, len) ==
  <<Fld(1, 1), Fld(1, 1), Fld(1, bit), Fld(width, len)>>

Leaf(width, len) == Cell(LabelSame(0, width, len) \o <<Fld(256, Zero)>>, << >>)

ForkedWallet(count) ==
  <<Header(count),
    Cell(StateInit, <<6, 1>>),
    Cell(<<Fld(1, 1)>>, <<2>>),
    Cell(LabelSame(0, 7, 60), <<5, 3>>),
    Cell(<<Fld(6, 55)>>, <<4>>),
    Cell(<<Fld(10, 832)>>, << >>),
    Leaf(2, 3)>>

PlainWallet(count) ==
  <<Header(count), Cell(StateInit, <<3, 1>>), Cell(<<Fld(1, 1)>>, <<2>>),
    Leaf(7, 64)>>

\* The declared number of cells is that of the whole tree, code included.
WalletBoc(wallet_type) ==
  CASE wallet_type = SETCODE_MULTISIG_WALLET -> ForkedWallet(101)
    [] wallet_type \in {SAFE_MULTISIG_WALLET, SAFE_MULTISIG_WALLET_24H} ->
         ForkedWallet(73)
    [] wallet_type = BRIDGE_MULTISIG_WALLET -> PlainWallet(69)
    [] wallet_type = MULTISIG_2 -> PlainWallet(86)
    [] wallet_type \in {MULTISIG_2_1, SURF_WALLET} -> PlainWallet(77)

-----------------------------------------------------------------------------
(***************************************************************************)
(* get_label and get_label_same: the label of a dictionary node for keys   *)
(* of at most max bits.  val is its length, same the repeated bit.         *)
(***************************************************************************)
\* 16 - leading_zeros: one bit for every power of two up to n.
PowersOfTwo == {1, 2, 4, 8, 16, 32, 64, 128, 256, 512, 1024, 2048, 4096, 8192, 16384, 32768}

BitWidth(n) == Cardinality({power \in PowersOfTwo : power <= n})

get_label_same(same, max) ==
  LET size == Expect(IF max = 0 THEN [same EXCEPT !.val = 0]
                     ELSE Next_int(same, BitWidth(max)),
                     0 .. 64, "ERR_RANGE_CHECK")
  IN  [err |-> size.err, same |-> same.val, len |-> size.val]

get_label(cell, max) ==
  LET start == Validate(FromCell(cell), DataSize(cell) > 0, "ERR_SLICE_IS_EMPTY")
      long  == Expect(Next_int(start, 1), {1}, "ERR_WRONG_LABEL")
      same  == Expect(Next_int(long, 1), {1}, "ERR_WRONG_LABEL")
  IN  get_label_same(Next_int(same, 1), max)

(***************************************************************************)
(* put_to_node: walk down the dictionary from cell first along the         *)
(* all-zero key, of which left bits are left, to the node whose label is   *)
(* the rest of the key.  It calls itself last of all, on a later cell, so  *)
(* at most once for every index; visit is what one of these calls does.    *)
(***************************************************************************)
visit(cells, at) ==
  LET label  == get_label(cells[at.index + 1], at.left)
      refs   == cells[at.index + 1].refs
      common == IF label.same = 1 THEN 0
                ELSE IF label.len < at.left THEN label.len ELSE at.left
  IN  IF at.err # SUCCESS \/ at.label_bits # 0 THEN at
      ELSE IF label.err # SUCCESS THEN [at EXCEPT !.err = label.err]
      ELSE IF label.len = at.left /\ (label.same = 0 \/ at.left = 0)
      THEN [at EXCEPT !.label_bits = 2 + 1 + BitWidth(at.left)]
      ELSE IF at.left - common < 1 THEN [at EXCEPT !.err = "ERR_CELL_UNDERFLOW"]
      ELSE IF refs = << >> \/ refs[1] \notin 1 .. MAX_CONTRACT_CELLS_COUNT
      THEN [at EXCEPT !.err = "ERR_INVALID_DATA"]
      ELSE [at EXCEPT !.index = refs[1], !.left = @ - common - 1]

Visit(index, left) == [err |-> SUCCESS, index |-> index, left |-> left, label_bits |-> 0]
Halted(code) == [Visit(0, 0) EXCEPT !.err = code]

put_to_node(cells, first, length) ==
  LET walk[k \in 0 .. MAX_CONTRACT_CELLS_COUNT] ==
        IF k = 0 THEN Visit(first, length) ELSE visit(cells, walk[k - 1])
  IN  walk[MAX_CONTRACT_CELLS_COUNT]

find_public_key_cell(cells) ==
  LET root == cells[1].refs
  IN  IF cells[1].data[3].v # 1 \/ Len(root) \notin 1 .. 2
      THEN Halted("ERR_INVALID_CONTRACT")
      ELSE LET branch == cells[root[Len(root)] + 1].refs
           IN  IF branch = << >> THEN Halted("ERR_INVALID_CONTRACT")
               ELSE put_to_node(cells, branch[1], 64)

-----------------------------------------------------------------------------
(***************************************************************************)
(* The address of a wallet.  Each operator returns the new boc_context,    *)
(* the address, the code thrown, and whether the public key was left in    *)
(* data_context.pk_context on the way, which the multisig wallets do.      *)
(* derived tells whether the SDK could derive the key.                     *)
(***************************************************************************)
StateHash(data, depth, wallet_type) ==
  Sha256(StateInit, <<depth, 0>>,
         <<CodeHash(wallet_type), Sha256(data, << >>, << >>)>>)

compute_wallet_v3_address(account) ==
  StateHash(<<Fld(64, WALLET_ID), Fld(256, PublicKey(account))>>, 0, WALLET_V3)

compute_ever_wallet_address(account) ==
  StateHash(<<Fld(256, PublicKey(account)), Fld(64, 0)>>, 3, EVER_WALLET)

\* The label of the cell, then the public key over what follows it.
KeyCellData(cell, label_bits, account) ==
  LET label == {n \in 0 .. Len(cell.data) :
                  BitsOf(SubSeq(cell.data, 1, n)) = label_bits}
  IN  SubSeq(cell.data, 1, Max(label)) \o <<Fld(256, PublicKey(account))>>

NoAddress(code, bc) == [err |-> code, bc |-> bc, address |-> Zero, key_left |-> FALSE]

RootHash(hashed) ==
  [err |-> hashed.err, bc |-> hashed.bc, address |-> hashed.bc.hashes[0],
   key_left |-> TRUE]

\* The tree is read and the key's cell found: the code's hash and depth go
\* to the next index, and the cell's data is kept aside to take the key.
hash_with_key(bc, key, account, wallet_type, derived) ==
  LET held  == bc.cells[key.index + 1]
      coded == [bc EXCEPT
                  !.public_key_cell_index = key.index,
                  !.public_key_label_size_bits = key.label_bits,
                  !.hashes[key.index + 1] = CodeHash(wallet_type),
                  !.cell_depth[key.index + 1] = CodeDepth[wallet_type],
                  !.public_key_cell_data =
                     IF derived THEN KeyCellData(held, key.label_bits, account)
                     ELSE held.data]
  IN  IF key.err # SUCCESS THEN NoAddress(key.err, bc)
      ELSE IF ~derived THEN NoAddress("ERR_GET_PUBLIC_KEY_FAILED", coded)
      ELSE RootHash(HashCells(coded, key.index))

with_tree(tree, account, wallet_type, derived) ==
  IF tree.err # SUCCESS THEN NoAddress(tree.err, tree.bc)
  ELSE hash_with_key(tree.bc, find_public_key_cell(tree.bc.cells), account,
                     wallet_type, derived)

compute_multisig_address(bc, account, wallet_type, derived) ==
  with_tree(deserialize_cells_tree(bc, WalletBoc(wallet_type)), account, wallet_type,
            derived)

get_address(bc, account, wallet_type, derived) ==
  LET Plain(address) ==
        [err |-> IF derived THEN SUCCESS ELSE "ERR_GET_PUBLIC_KEY_FAILED",
         bc |-> bc, address |-> address, key_left |-> FALSE]
  IN  IF wallet_type = WALLET_V3
      THEN Plain(compute_wallet_v3_address(account))
      ELSE IF wallet_type = EVER_WALLET
      THEN Plain(compute_ever_wallet_address(account))
      ELSE IF wallet_type \in SAFE_MULTISIG_WALLET .. MULTISIG_2_1
      THEN compute_multisig_address(bc, account, wallet_type, derived)
      ELSE NoAddress("ERR_INVALID_WALLET_TYPE", bc)
=============================================================================
