----------------------------- MODULE MCSessions -----------------------------
(***************************************************************************)
(* TLC instances of Requests with few messages and all interleavings: one  *)
(* message in two chunks, every other command in between, refusals, failed *)
(* SDK calls, throws and restarts.                                         *)
(*                                                                         *)
(* Lengths are scaled: a block is 3 long and the buffer 9, so that two     *)
(* blocks fit and a third one fills the buffer to the last byte.           *)
(***************************************************************************)
EXTENDS Requests

CONSTANTS to, host, magic    \* a recipient, a host-given address, a chain id

\* An APDU with the fields that its instruction does not use set to None.
Apdu(ins, p1, p2, lc) ==
  [parsed |-> TRUE, cla_ok |-> TRUE, ins |-> ins, p1 |-> p1, p2 |-> p2, lc |-> lc,
   account |-> 0, wallet |-> 0, payload |-> None, header |-> None,
   block |-> [len |-> 0, items |-> << >>]]

GetConfiguration == Apdu("GET_APP_CONFIGURATION", 0, 0, 0)
GetPublicKey(p1) == [Apdu("GET_PUBLIC_KEY", p1, 0, 4) EXCEPT !.account = 3]
GetAddress(p1, wallet) ==
  [Apdu("GET_ADDRESS", p1, 0, 5) EXCEPT !.account = 4, !.wallet = wallet]
SignPlain(lc) == [Apdu("SIGN", 1, 0, lc) EXCEPT !.account = 5, !.payload = "payload"]
SignTransaction(p2, header, block) ==
  [Apdu("SIGN_TRANSACTION", 1, p2, 255) EXCEPT !.header = header, !.block = block]

-----------------------------------------------------------------------------
Transfer == [kind |-> "transfer", wallet |-> WALLET_V3, wc |-> 0, to |-> to,
             amount |-> 5, owners |-> 1]

OneRequest == {Transfer}

Block(items, len) == [items |-> items, len |-> len]
FirstHalf  == Block(SubSeq(Message(Transfer), 1, 2), 3)
SecondHalf == Block(SubSeq(Message(Transfer), 3, 3), 3)
Whole      == Block(Message(Transfer), 6)

ShortHeader ==
  [account |-> 1, origin |-> WALLET_V3, decimals |-> 0, ticker |-> <<"T">>,
   flags |-> {}, current |-> 0, wc |-> 0, address |-> host, chain |-> magic,
   present |-> 6]
\* A wallet whose address takes the multisig path, used as a V3 wallet.
LongHeader ==
  [account |-> 2, origin |-> BRIDGE_MULTISIG_WALLET, decimals |-> 1, ticker |-> <<"L">>,
   flags |-> {"wallet", "wc", "address", "chain"}, current |-> WALLET_V3, wc |-> 255,
   address |-> host, chain |-> magic, present |-> 10]
Truncated(n) == [LongHeader EXCEPT !.present = n]

FirstMore(header)  == SignTransaction(2, header, FirstHalf)
FirstLast(header)  == SignTransaction(0, header, Whole)
ExtendMore         == SignTransaction(3, None, SecondHalf)
ExtendLast         == SignTransaction(1, None, SecondHalf)

-----------------------------------------------------------------------------
SessionCommands ==
  { GetConfiguration,
    [GetConfiguration EXCEPT !.parsed = FALSE],
    [GetConfiguration EXCEPT !.p1 = 1],
    [GetConfiguration EXCEPT !.cla_ok = FALSE],
    GetPublicKey(0), GetPublicKey(1),
    GetAddress(0, WALLET_V3), GetAddress(1, WALLET_V3),
    GetAddress(1, BRIDGE_MULTISIG_WALLET),
    SignPlain(3), SignPlain(35), SignPlain(36),
    FirstMore(ShortHeader), FirstMore(LongHeader), FirstLast(LongHeader),
    FirstMore(Truncated(9)),
    ExtendMore, ExtendLast }

\* Every wallet type, and one that is none.
AddressCommands ==
  {GetAddress(p1, wallet) : p1 \in {0, 1}, wallet \in WALLET_V3 .. MULTISIG_2_1 + 1}

\* A message in two chunks, and one command that may come between them.
ChunkCommands == {FirstMore(LongHeader), ExtendLast, GetAddress(1, BRIDGE_MULTISIG_WALLET)}

ExtendCommands == {FirstMore(ShortHeader), ExtendMore, ExtendLast}

\* The premises of the theorems about Requests hold of this message.
ASSUME OneIsRead == MessagesAreRead
=============================================================================
