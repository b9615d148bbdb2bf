----------------------------- MODULE HostClient -----------------------------
(***************************************************************************)
(* The command-line client (client/src/main.rs) and the application it     *)
(* talks to.  A run of the client asks the device for a key, an address    *)
(* and a signature, in this order and as far as its subcommand needs them, *)
(* and gives up at the first answer that is an error.  The library that    *)
(* turns its calls into APDUs is not part of the repository: calls of it   *)
(* are modelled by the commands of the protocol (doc/api.md).              *)
(*                                                                         *)
(* Nothing but the device ties two runs together: a run may be interrupted *)
(* between two commands, and the next one finds the device as it was left. *)
(***************************************************************************)
EXTENDS Requests

CONSTANT Programs    \* runs: [sub, account, wallet, confirm, request]

ASSUME ProgramsAssumption ==
  \A p \in Programs : p.sub \in {"get pubkey", "get address", "get balance",
                                 "send", "deploy"}

VARIABLES
  prog,      \* the run, or None
  step,      \* the call it is in: "key", "address", "state", "sign", "more",
             \* "rest" or "signature"
  waiting,   \* a command was sent and its answer not read
  held,      \* the key and the address the run got from the device
  result     \* what the last run ended with, or None

client == <<prog, step, waiting, held, result>>
allvars == <<vars, client>>

Nothing_held == [key |-> None, address |-> None]

ClientInit ==
  /\ Init
  /\ prog = None /\ step = "key" /\ waiting = FALSE
  /\ held = Nothing_held /\ result = None

\* The runs that may come to a signature: those for SURF_WALLET end in
\* unimplemented!() when the account is known.
Sends(p) == p.sub \in {"send", "deploy"} /\ p.wallet # SURF_WALLET

-----------------------------------------------------------------------------
(***************************************************************************)
(* The commands.  SignTransactionMeta::default() sets no option.           *)
(***************************************************************************)
Apdu(ins, p1, lc, p) ==
  [parsed |-> TRUE, cla_ok |-> TRUE, ins |-> ins, p1 |-> p1, p2 |-> 0, lc |-> lc,
   account |-> p.account, wallet |-> p.wallet, payload |-> None, header |-> None,
   block |-> [len |-> 0, items |-> << >>]]

Confirm(p, sub) == IF p.sub = sub /\ p.confirm THEN 1 ELSE 0

ledger_get_pubkey(p) == Apdu("GET_PUBLIC_KEY", Confirm(p, "get pubkey"), 4, p)
ledger_get_address(p) == Apdu("GET_ADDRESS", Confirm(p, "get address"), 5, p)

HeaderOf(p) ==
  [account |-> p.account, origin |-> p.wallet, decimals |-> p.decimals,
   ticker |-> p.ticker, flags |-> {}, current |-> 0, wc |-> 0, address |-> None,
   chain |-> None, present |-> 6]

\* sign_transaction, whole or in two chunks.
Chunk_of(p, p2, items) ==
  [Apdu("SIGN_TRANSACTION", 1, 255, p) EXCEPT
     !.p2 = p2, !.header = IF p2 = 1 THEN None ELSE HeaderOf(p),
     !.block = [len |-> Len(items), items |-> items]]

FirstHalf(p) == SubSeq(Message(p.request), 1, 2)
SecondHalf(p) == SubSeq(Message(p.request), 3, Len(Message(p.request)))

\* The host's commands are among those of the device, and the requests of its
\* runs, which are made for the wallet of the run, among those of the host.
ASSUME RunsAssumption ==
  /\ None \notin Programs
  /\ \A p \in Programs :
       /\ {ledger_get_pubkey(p), ledger_get_address(p)} \subseteq Commands
       /\ Sends(p) =>
            /\ p.request \in Sent /\ p.request.wallet = p.wallet
            /\ {Chunk_of(p, 0, Message(p.request)), Chunk_of(p, 2, FirstHalf(p)),
                Chunk_of(p, 1, SecondHalf(p))} \subseteq Commands

-----------------------------------------------------------------------------
(***************************************************************************)
(* A run: where it starts and what it does with an answer.                 *)
(***************************************************************************)
FirstCall(p) == IF p.sub \in {"get address", "get balance"} THEN "address" ELSE "key"

Start(p) ==
  /\ prog = None
  /\ prog' = p /\ step' = FirstCall(p)
  /\ waiting' = FALSE /\ held' = Nothing_held /\ result' = None
  /\ UNCHANGED vars

Send(c, call) ==
  /\ Receive(c)
  /\ step' = call /\ waiting' = TRUE
  /\ UNCHANGED <<prog, held, result>>

Call ==
  /\ prog # None /\ ~waiting
  /\ \/ step = "key" /\ Send(ledger_get_pubkey(prog), "key")
     \/ step = "address" /\ Send(ledger_get_address(prog), "address")
     \/ step = "sign" /\ Send(Chunk_of(prog, 0, Message(prog.request)), "signature")
     \/ step = "sign" /\ Send(Chunk_of(prog, 2, FirstHalf(prog)), "more")
     \/ step = "rest" /\ Send(Chunk_of(prog, 1, SecondHalf(prog)), "signature")

End(what) ==
  /\ prog' = None /\ waiting' = FALSE /\ result' = what
  /\ UNCHANGED <<step, held>>

GoOn(call, got) ==
  /\ step' = call /\ waiting' = FALSE /\ held' = got
  /\ UNCHANGED <<prog, result>>

Printed(value) == [what |-> "printed", prog |-> prog, value |-> value]
SentOut(signature) ==
  [what |-> "sent", prog |-> prog, held |-> held, signature |-> signature]
Failed == [what |-> "failed", prog |-> prog]

\* The "?" behind every call.
Answer ==
  /\ prog # None /\ waiting /\ apdu = None /\ reply # NoReply
  /\ IF reply.sw # SUCCESS THEN End(Failed)
     ELSE \/ /\ step = "key"
             /\ IF prog.sub = "get pubkey" THEN End(Printed(reply.data))
                ELSE GoOn("address", [held EXCEPT !.key = reply.data])
          \/ /\ step = "address"
             /\ IF prog.sub = "get address" THEN End(Printed(reply.data))
                ELSE GoOn("state", [held EXCEPT !.address = reply.data])
          \/ step = "more" /\ GoOn("rest", held)
          \/ step = "signature" /\ End(SentOut(reply.data))
  /\ UNCHANGED vars

\* get_contract_state: what the network says of the address that is held.
IsMultisig(p) == p.wallet \notin {WALLET_V3, EVER_WALLET}

Signs(p, state) ==
  /\ Sends(p) /\ state # "none"
  /\ p.sub = "deploy" => IsMultisig(p) /\ state # "active"
  /\ p.sub = "send" /\ IsMultisig(p) => state # "uninit"

Unimplemented(p, state) ==
  p.sub \in {"send", "deploy"} /\ p.wallet = SURF_WALLET /\ state # "none"

get_contract_state ==
  /\ prog # None /\ step = "state"
  /\ \E state \in {"none", "uninit", "active"} :
       \/ Signs(prog, state) /\ GoOn("sign", held)
       \/ Unimplemented(prog, state) /\ End(Failed)
       \/ /\ ~Signs(prog, state) /\ ~Unimplemented(prog, state)
          /\ End(Printed(held.address))
  /\ UNCHANGED vars

\* The application was closed: a call fails, or its answer never comes.
Closed ==
  /\ prog # None
  /\ \/ ~waiting /\ app = "stopped" /\ step # "state"
     \/ waiting /\ apdu = None /\ reply = NoReply
  /\ End(Failed) /\ UNCHANGED vars

\* The user ends a run that is not inside a call.
Interrupt ==
  prog # None /\ ~waiting /\ End(Failed) /\ UNCHANGED vars

-----------------------------------------------------------------------------
ClientStep == Call \/ Answer \/ get_contract_state \/ Closed

DeviceStep ==
  /\ Handle \/ UserDecides \/ Quit \/ ReceiveFails \/ app_main
  /\ UNCHANGED client

ClientNext ==
  \/ \E p \in Programs : Start(p)
  \/ ClientStep
  \/ Interrupt
  \/ DeviceStep

(***************************************************************************)
(* A run takes its next step unless it is interrupted, the loop handles    *)
(* what it has received, and the user answers a review.  The latter two    *)
(* are WF_vars(Handle) and WF_vars(UserDecides) with ENABLED written out:  *)
(* Handle is enabled exactly while a command is Fresh and ends that, and   *)
(* so does UserDecides with a review.  The application may be closed at    *)
(* any time and need not be opened again.                                  *)
(***************************************************************************)
ClientSpec ==
  /\ ClientInit /\ [][ClientNext]_allvars
  /\ []<>~Fresh
  /\ []<>~(app = "running" /\ ui \in Reviews)
  /\ WF_client(ClientStep)

-----------------------------------------------------------------------------
(***************************************************************************)
(* SentIsSigned: what a run sends to the network is made for the key and   *)
(* the address of its own account and wallet and carries that account's    *)
(* signature of its own message, whatever runs were refused, interrupted   *)
(* or closed before it.  Its address is right because its first command,   *)
(* an unconfirmed GET_PUBLIC_KEY, resets the contexts (main.rs:536-760,    *)
(* helper/send_response.c).                                                *)
(***************************************************************************)
SentIsSigned ==
  result # None /\ result.what = "sent" =>
    LET p   == result.prog
        own == WantedAddress(p.account, p.wallet)
    IN  /\ result.held = [key |-> PublicKey(p.account), address |-> own]
        /\ result.signature =
             Signature(p.account, WantedBytes(MessageCells(p.request), HeaderOf(p), own))

(***************************************************************************)
(* RunsEnd: every run of the client ends, though it blocks on each answer: *)
(* with what it was run for, or with an error when the user refuses or     *)
(* closes the application, or a call of the SDK fails.                     *)
(***************************************************************************)
RunsEnd == (prog # None) ~> (prog = None)
=============================================================================
