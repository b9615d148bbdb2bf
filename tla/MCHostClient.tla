---------------------------- MODULE MCHostClient ----------------------------
(***************************************************************************)
(* TLC instance of HostClient: one run of each kind, in any order, with    *)
(* wallets whose addresses take each of the three ways, a message with a   *)
(* tree of cells, and one that signs with the wallet's address in front;   *)
(* and a transfer from a wallet that the client does not implement.        *)
(***************************************************************************)
EXTENDS HostClient

CONSTANT to

Request(kind, wallet) ==
  [kind |-> kind, wallet |-> wallet, wc |-> 0, to |-> to, amount |-> 5, owners |-> 1]

Run(sub, wallet, confirm, request) ==
  [sub |-> sub, account |-> 1, wallet |-> wallet, confirm |-> confirm,
   request |-> request, decimals |-> 1, ticker |-> <<"E">>]

SendTransaction == Run("send", EVER_WALLET, FALSE, Request("transfer", EVER_WALLET))
SendToken == Run("send", BRIDGE_MULTISIG_WALLET, FALSE,
                 Request("token", BRIDGE_MULTISIG_WALLET))
Deploy == Run("deploy", SAFE_MULTISIG_WALLET, FALSE,
              Request("deploy", SAFE_MULTISIG_WALLET))

SomePrograms ==
  { SendTransaction, SendToken, Deploy,
    Run("get pubkey", WALLET_V3, TRUE, None),
    Run("get address", BRIDGE_MULTISIG_WALLET, TRUE, None),
    Run("get balance", WALLET_V3, FALSE, None),
    Run("send", SURF_WALLET, FALSE, None) }

TheirRequests == {SendTransaction.request, SendToken.request, Deploy.request}

TheirCommands ==
  UNION {{ledger_get_pubkey(p), ledger_get_address(p)} : p \in SomePrograms}
  \cup UNION {{Chunk_of(p, 0, Message(p.request)), Chunk_of(p, 2, FirstHalf(p)),
               Chunk_of(p, 1, SecondHalf(p))} : p \in {SendTransaction, SendToken, Deploy}}

\* The premise of the theorem about SentIsSigned.
ASSUME TheirsAreWhole == MessagesAreWhole
=============================================================================
