----------------------------- MODULE MCMessages -----------------------------
(***************************************************************************)
(* TLC instance of Requests with many messages, each sent whole in one     *)
(* APDU: every kind of request of every class of wallet, amounts at the    *)
(* borders of the conversions, and headers with and without the options;   *)
(* and the addresses of every type of wallet, and of one that is none.     *)
(* SCRATCH_SIZE and AMOUNT_STR_SIZE are those of the code.                 *)
(***************************************************************************)
EXTENDS Requests

CONSTANTS to, host, magic

Req(wallet, kind, wc, amount) ==
  [kind |-> kind, wallet |-> wallet, wc |-> wc, to |-> to, amount |-> amount,
   owners |-> 1]

PlainRequests ==
  {Req(WALLET_V3, "transfer", 0, amount) : amount \in {0, 9, 500, 65535}}
  \cup {Req(WALLET_V3, kind, -1, 40) : kind \in {"all", "token", "mint", "burn", "other"}}

MultisigRequests ==
  {Req(wallet, kind, -1, 1000) :
     wallet \in {SAFE_MULTISIG_WALLET, SURF_WALLET},
     kind \in {"transfer", "send all", "token", "burn", "confirm", "deploy"}}
  \cup {Req(SETCODE_MULTISIG_WALLET, kind, 0, 77) : kind \in {"all", "mint", "other"}}

NewAbiRequests ==
  {Req(EVER_WALLET, kind, 0, 256) :
     kind \in {"transfer", "all", "send all", "token", "confirm"}}
  \cup {Req(MULTISIG_2_1, kind, 0, 31) : kind \in {"transfer", "all", "burn", "deploy"}}

AllRequests == PlainRequests \cup MultisigRequests \cup NewAbiRequests

ManyOwners(wallet) == [Req(wallet, "deploy", 0, 0) EXCEPT !.owners = 2]
DeployRequests ==
  AllRequests \cup {ManyOwners(SAFE_MULTISIG_WALLET), ManyOwners(MULTISIG_2)}

NoRecipient == {[Req(WALLET_V3, "transfer", 0, 5) EXCEPT !.to = None]}

-----------------------------------------------------------------------------
\* Its own wallet, nine decimals; and one that names every option.
Short(m) ==
  [account |-> 1, origin |-> m.wallet, decimals |-> 9, ticker |-> <<"E", "V", "E", "R">>,
   flags |-> {}, current |-> 0, wc |-> 0, address |-> host, chain |-> magic,
   present |-> 6]
Long(m) ==
  [Short(m) EXCEPT !.origin = MULTISIG_2, !.decimals = 2, !.ticker = <<"T">>,
     !.flags = {"wallet", "wc", "address", "chain"}, !.current = m.wallet, !.wc = 255,
     !.present = 10]

SignTransaction(header, items) ==
  [parsed |-> TRUE, cla_ok |-> TRUE, ins |-> "SIGN_TRANSACTION", p1 |-> 1, p2 |-> 0,
   lc |-> 255, account |-> 0, wallet |-> 0, payload |-> None, header |-> header,
   block |-> [len |-> 200, items |-> items]]

GetAddress(p1, wallet) ==
  [SignTransaction(None, << >>) EXCEPT
     !.ins = "GET_ADDRESS", !.p1 = p1, !.lc = 5, !.account = 4, !.wallet = wallet]

\* An address that was answered leaves boc_context clean, one that was shown
\* and refused does not: one such wallet, whose cells have depths.
AddressCommands ==
  {GetAddress(0, wallet) : wallet \in WALLET_V3 .. MULTISIG_2_1 + 1}
  \cup {GetAddress(1, SURF_WALLET)}

\* The deploys for two owners are no requests of Sent: their cells fork.
MessageCommands ==
  AddressCommands
  \cup {SignTransaction(Short(m), Message(m)) : m \in AllRequests}
  \cup {SignTransaction(Long(m), Message(m)) :
          m \in {r \in AllRequests : r.amount \in {9, 40, 256, 1000}}}
  \cup {SignTransaction(Short(m), Message(m)) : m \in DeployRequests \ AllRequests}

NoRecipientCommands == {SignTransaction(Short(m), Message(m)) : m \in NoRecipient}
DeployCommands ==
  {SignTransaction(header, Message(m)) :
     header \in {Short(r) : r \in AllRequests} \cup {Long(r) : r \in AllRequests},
     m \in DeployRequests}

\* The premises of the theorems about Requests, and what another states of the
\* addresses, hold of AllRequests: TLC evaluates them where all headers are
\* sent, under MCDeploy.cfg.
ASSUME AllAreRead == Commands = DeployCommands => MessagesAreRead /\ AddressesAreRight
=============================================================================
