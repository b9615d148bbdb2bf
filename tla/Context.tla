------------------------------ MODULE Context ------------------------------
(***************************************************************************)
(* The global data_context of the application (globals.h): one C union     *)
(* whose four members are the contexts of GET_PUBLIC_KEY, GET_ADDRESS,     *)
(* SIGN and SIGN_TRANSACTION.  A handler writes through the member of its  *)
(* own request, and thereby overwrites whatever the other members keep in  *)
(* the same bytes.                                                         *)
(*                                                                         *)
(* A context is a record with one field per field of each member, named    *)
(* <member>_<field>.  Write stores values through one member and turns     *)
(* every other field that shares a byte with a written one into Junk.      *)
(***************************************************************************)
EXTENDS Integers

CONSTANTS
  Junk,   \* bytes whose value the model does not track: overwritten through
          \* another member of the union, or never initialised
  Zero    \* a byte array of zeros

ASSUME JunkAssumption == Junk \notin BOOLEAN

(***************************************************************************)
(* Offset and size in bytes of every field, as the C layout rules give     *)
(* them (uint32_t aligned to 4, uint16_t to 2, all else to 1).             *)
(***************************************************************************)
Layout ==
  [ pk_public_key          |-> [at |->    0, size |->   32],
    pk_public_key_str      |-> [at |->   32, size |->   65],
    addr_address           |-> [at |->    0, size |->   32],
    addr_address_str       |-> [at |->   32, size |->   65],
    sign_to_sign           |-> [at |->    4, size |->   36],
    sign_signature         |-> [at |->   40, size |->   64],
    sign_account_number    |-> [at |->  104, size |->    4],
    sign_to_sign_str       |-> [at |->  108, size |->   73],
    tx_sign_with_chain_id  |-> [at |->    0, size |->    1],
    tx_chain_id            |-> [at |->    1, size |->    4],
    tx_to_sign             |-> [at |->    5, size |->   36],
    tx_signature           |-> [at |->   41, size |->   64],
    tx_address_str         |-> [at |->  105, size |->   70],
    tx_amount_str          |-> [at |->  175, size |->   40],
    tx_transaction_id_str  |-> [at |->  215, size |->   20],
    tx_account_number      |-> [at |->  236, size |->    4],
    tx_origin_wallet_type  |-> [at |->  240, size |->    1],
    tx_current_wallet_type |-> [at |->  241, size |->    1],
    tx_decimals            |-> [at |->  242, size |->    1],
    tx_address             |-> [at |->  243, size |->   32],
    tx_prepend_address     |-> [at |->  275, size |->   32],
    tx_wc                  |-> [at |->  307, size |->    1],
    tx_data                |-> [at |->  308, size |-> 1024],
    tx_data_offset         |-> [at |-> 1332, size |->    2],
    tx_ticker              |-> [at |-> 1334, size |->   10] ]

Fields == DOMAIN Layout

Overlap(f, g) ==
  /\ Layout[f].at < Layout[g].at + Layout[g].size
  /\ Layout[g].at < Layout[f].at + Layout[f].size

(***************************************************************************)
(* The context after the fields of the record w are assigned.              *)
(***************************************************************************)
Write(dc, w) ==
  [f \in Fields |->
     IF f \in DOMAIN w THEN w[f]
     ELSE IF \E g \in DOMAIN w : Overlap(f, g) THEN Junk
     ELSE dc[f]]

(***************************************************************************)
(* data_context after reset_app_context.  A zeroed number is the number 0, *)
(* a zeroed wallet type is WALLET_V3, and a zeroed ticker is the empty one.*)
(***************************************************************************)
ZeroContext ==
  [f \in Fields |->
     CASE f \in {"tx_account_number", "tx_origin_wallet_type",
                 "tx_current_wallet_type", "tx_decimals", "tx_wc",
                 "tx_data_offset", "sign_account_number"} -> 0
       [] f \in {"tx_data", "tx_ticker"} -> << >>
       [] f = "tx_sign_with_chain_id" -> FALSE
       [] OTHER -> Zero]
=============================================================================
