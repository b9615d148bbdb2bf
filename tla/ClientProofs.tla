---------------------------- MODULE ClientProofs ----------------------------
(***************************************************************************)
(* That what a run of the client sends is its own, for every set of runs:  *)
(* the client and the application together are an application that meets  *)
(* a host, so that everything proved of it holds, and what is between them *)
(* at each call is what the next one needs (ClientInv).                    *)
(***************************************************************************)
EXTENDS HostClient, RequestsProofs

(***************************************************************************)
(* The invariant of the runs.  Nothing but the client sends commands, so   *)
(* while one is with the device it is the one of the call the run is in,   *)
(* and its answer is read before the next.  The first command of a run     *)
(* that will send leaves the contexts clean, and they stay so up to its    *)
(* GET_ADDRESS, whatever was refused or interrupted before.                *)
(*   CommandAsked: what the device is working on                           *)
(*   AnswerGot:    what a positive answer that was not read yet says       *)
(*   RunHolds:     what the run has got so far, and what the device keeps  *)
(*                 for it between two calls                                *)
(*   ResultRight:  what was sent.                                          *)
(***************************************************************************)
Clean == dc = ZeroContext /\ bc = ZeroBoc
Own(p) == OwnAddress(HeaderOf(p))
GotBoth(p) == [key |-> PublicKey(p.account), address |-> Own(p)]
SignatureWanted(p) ==
  Signature(p.account, WantedBytes(MessageCells(p.request), HeaderOf(p), Own(p)))

\* The session after the first of two chunks, unless the application was closed.
Halfway(p) ==
  sess \in {NoSession, [header |-> HeaderOf(p), items |-> FirstHalf(p),
                        len |-> Len(FirstHalf(p)), intact |-> TRUE]}
WholeSession(p) ==
  sess.header = HeaderOf(p) /\ sess.items = Message(p.request) /\ sess.intact

AtDevice(p) ==
  \/ step = "key" /\ ui = "menu" /\ apdu = ledger_get_pubkey(p)
  \/ step = "address" /\ ui = "menu" /\ apdu = ledger_get_address(p) /\ Clean
  \/ step = "more" /\ ui = "menu" /\ apdu = Chunk_of(p, 2, FirstHalf(p))
  \/ step = "signature" /\ ui = "menu" /\ apdu = Chunk_of(p, 0, Message(p.request))
  \/ /\ step = "signature" /\ ui = "menu" /\ apdu = Chunk_of(p, 1, SecondHalf(p))
     /\ Halfway(p)
  \/ step = "signature" /\ ui = "transaction" /\ WholeSession(p)

CommandAsked ==
  apdu # None =>
    /\ app = "running" /\ reply = NoReply
    /\ prog # None /\ waiting /\ step # "state"
    /\ Sends(prog) => AtDevice(prog)

Says(p) ==
  \/ step = "key" /\ reply.data = PublicKey(p.account) /\ Clean
  \/ step = "address" /\ reply.data = Own(p)
  \/ step = "more" /\ Halfway(p)
  \/ /\ step = "signature" /\ reply.data = SignatureWanted(p)
     /\ HeaderOf(p) \in HeadersRead

AnswerGot ==
  prog # None /\ Sends(prog) /\ waiting /\ apdu = None /\ reply.sw = SUCCESS => Says(prog)

Holding(p) ==
  \/ step = "key" /\ held = Nothing_held
  \/ /\ step = "address" /\ held = [key |-> PublicKey(p.account), address |-> None]
     /\ ~waiting => Clean
  \/ step \in {"state", "sign", "more", "signature"} /\ held = GotBoth(p)
  \/ step = "rest" /\ held = GotBoth(p) /\ Halfway(p)

RunHolds ==
  prog # None => IF Sends(prog) THEN Holding(prog) ELSE step \in {"key", "address", "state"}

ResultRight ==
  result # None /\ result.what = "sent" =>
    /\ HeaderOf(result.prog) \in HeadersRead
    /\ result.held = GotBoth(result.prog)
    /\ result.signature = SignatureWanted(result.prog)

ClientInv ==
  /\ prog \in Programs \cup {None}
  /\ CommandAsked /\ AnswerGot /\ RunHolds /\ ResultRight

-----------------------------------------------------------------------------
(***************************************************************************)
(* The commands of a run.                                                  *)
(***************************************************************************)
LEMMA RunCommands ==
  ASSUME NEW p \in Programs
  PROVE  /\ p # None
         /\ ledger_get_pubkey(p) \in Commands /\ ledger_get_address(p) \in Commands
         /\ Sends(p) => /\ p.request \in Sent /\ p.request.wallet = p.wallet
                        /\ Chunk_of(p, 0, Message(p.request)) \in Commands
                        /\ Chunk_of(p, 2, FirstHalf(p)) \in Commands
                        /\ Chunk_of(p, 1, SecondHalf(p)) \in Commands
  BY RunsAssumption DEF Sends

LEMMA PlainCommands ==
  ASSUME NEW p
  PROVE  /\ ledger_get_pubkey(p).ins = "GET_PUBLIC_KEY"
         /\ ledger_get_pubkey(p).account = p.account
         /\ Sends(p) => ledger_get_pubkey(p).p1 = 0
         /\ ledger_get_address(p).ins = "GET_ADDRESS"
         /\ ledger_get_address(p).account = p.account
         /\ ledger_get_address(p).wallet = p.wallet
         /\ Sends(p) => ledger_get_address(p).p1 = 0
  BY DEF ledger_get_pubkey, ledger_get_address, Apdu, Confirm, Sends

LEMMA ChunkCommands ==
  ASSUME NEW p, NEW p2, NEW items
  PROVE  /\ Chunk_of(p, p2, items).ins = "SIGN_TRANSACTION"
         /\ Chunk_of(p, p2, items).p2 = p2
         /\ Chunk_of(p, p2, items).lc = 255
         /\ p2 # 1 => Chunk_of(p, p2, items).header = HeaderOf(p)
         /\ Chunk_of(p, p2, items).block.len = Len(items)
         /\ Chunk_of(p, p2, items).block.items = items
  BY DEF Chunk_of, Apdu

LEMMA HeaderFacts ==
  ASSUME NEW p
  PROVE  /\ WalletOf(HeaderOf(p)) = p.wallet
         /\ HeaderOf(p).account = p.account /\ HeaderOf(p).origin = p.wallet
         /\ Own(p) = get_address(ZeroBoc, p.account, p.wallet, TRUE).address
  BY DEF WalletOf, HeaderOf, Own, OwnAddress

LEMMA HeaderNeverNone ==
  ASSUME NEW p \in Programs, Sends(p)
  PROVE  HeaderOf(p) # None
  <1> DEFINE m == Message(p.request)
             c == Chunk_of(p, 0, m)
  <1>1. c \in Commands
    BY RunCommands
  <1> HIDE DEF m
  <1>2. c.ins = "SIGN_TRANSACTION" /\ c.p2 = 0 /\ c.header = HeaderOf(p)
    BY ChunkCommands
  <1> HIDE DEF c
  <1> QED
    BY <1>1, <1>2, AppAssumption

\* A sequence cut in two.
LEMMA CutInTwo ==
  ASSUME NEW s, IsSequence(s), NEW n \in 1 .. Len(s) - 1
  PROVE  /\ IsSequence(SubSeq(s, 1, n)) /\ Len(SubSeq(s, 1, n)) = n
         /\ IsSequence(SubSeq(s, n + 1, Len(s))) /\ Len(SubSeq(s, n + 1, Len(s))) = Len(s) - n
         /\ Head(SubSeq(s, n + 1, Len(s))) = s[n + 1]
         /\ SubSeq(s, 1, n) \o SubSeq(s, n + 1, Len(s)) = s
  <1>1. PICK S : s \in Seq(S)
    BY PartsAreSeq
  <1>2. Len(s) \in Nat /\ \A i \in 1 .. Len(s) : s[i] \in S
    BY <1>1, ElementOfSeq DEF IsSequence
  <1> DEFINE a == SubSeq(s, 1, n)
             b == SubSeq(s, n + 1, Len(s))
  <1>3. a \in Seq(S) /\ Len(a) = n /\ \A i \in 1 .. n : a[i] = s[i]
    <2>1. \A i \in 1 .. n : s[i] \in S
      BY <1>2
    <2>2. \A i \in 1 .. n : 1 + i - 1 = i
      OBVIOUS
    <2> QED
      BY <1>1, <1>2, <2>1, <2>2, SubSeqProperties
  <1>4. b \in Seq(S) /\ Len(b) = Len(s) - n /\ \A i \in 1 .. Len(s) - n : b[i] = s[n + i]
    <2>1. \A i \in n + 1 .. Len(s) : s[i] \in S
      BY <1>2
    <2>2. \A i \in 1 .. Len(s) - n : n + 1 + i - 1 = n + i
      OBVIOUS
    <2> QED
      BY <1>1, <1>2, <2>1, <2>2, SubSeqProperties
  <1> HIDE DEF a, b
  <1>5. IsSequence(a) /\ IsSequence(b)
    BY <1>3, <1>4, LenProperties DEF IsSequence
  <1>6. Head(b) = s[n + 1]
    BY <1>2, <1>4
  <1>7. a \o b = s
    <2>1. /\ a \o b \in Seq(S) /\ Len(a \o b) = Len(s)
          /\ \A i \in 1 .. Len(s) : (a \o b)[i] = IF i <= n THEN a[i] ELSE b[i - n]
      <3>1. Len(a) + Len(b) = Len(s)
        BY <1>2, <1>3, <1>4
      <3>2. /\ a \o b \in Seq(S) /\ Len(a \o b) = Len(a) + Len(b)
            /\ \A i \in 1 .. Len(a) + Len(b) :
                 (a \o b)[i] = IF i <= Len(a) THEN a[i] ELSE b[i - Len(a)]
        BY <1>3, <1>4, ConcatProperties
      <3> QED
        BY <1>3, <3>1, <3>2
    <2>2. \A i \in 1 .. Len(s) : (a \o b)[i] = s[i]
      <3> SUFFICES ASSUME NEW i \in 1 .. Len(s) PROVE (a \o b)[i] = s[i]
        OBVIOUS
      <3>1. CASE i <= n
        BY <1>3, <2>1, <3>1
      <3>2. CASE ~(i <= n)
        <4>1. i - n \in 1 .. Len(s) - n /\ n + (i - n) = i
          BY <1>2, <3>2
        <4> QED
          BY <1>4, <2>1, <3>2, <4>1
      <3> QED
        BY <3>1, <3>2
    <2> QED
      BY <1>1, <2>1, <2>2, SeqEqual
  <1> QED
    BY <1>3, <1>4, <1>5, <1>6, <1>7 DEF a, b

LEMMA NothingBefore ==
  ASSUME NEW s, IsSequence(s)
  PROVE  << >> \o s = s
  <1>1. PICK S : s \in Seq(S)
    BY PartsAreSeq
  <1> QED
    BY <1>1, ConcatEmptySeq

\* The two chunks of a message: the second begins with a cell.
LEMMA TwoChunks ==
  ASSUME NEW p \in Programs, Sends(p)
  PROVE  /\ IsSequence(Message(p.request)) /\ Len(Message(p.request)) > 2
         /\ IsSequence(FirstHalf(p)) /\ Len(FirstHalf(p)) = 2
         /\ IsSequence(SecondHalf(p)) /\ Len(SecondHalf(p)) = Len(Message(p.request)) - 2
         /\ Head(SecondHalf(p)).kind = "cell"
         /\ FirstHalf(p) \o SecondHalf(p) = Message(p.request)
         /\ SentTree(Message(p.request), HeaderOf(p))
         /\ SentCells(Message(p.request)) = MessageCells(p.request)
  <1> DEFINE m == Message(p.request)
  <1>1. /\ IsSequence(m) /\ SentTree(m, HeaderOf(p))
        /\ SentCells(m) = MessageCells(p.request)
    <2>1. p.request.wallet = WalletOf(HeaderOf(p))
      BY RunCommands, HeaderFacts
    <2> QED
      BY <2>1, MessageSent
  <1>2. SecondHalf(p) # << >>
    <2> DEFINE half == SecondHalf(p)
               c == Chunk_of(p, 1, half)
    <2>1. c \in Commands
      BY RunCommands
    <2> HIDE DEF half
    <2>2. c.ins = "SIGN_TRANSACTION" /\ c.p2 = 1 /\ c.lc = 255 /\ c.block.items = half
      BY ChunkCommands
    <2> HIDE DEF c
    <2>3. c \in {d \in Commands : d.ins = "SIGN_TRANSACTION"}
      BY <2>1, <2>2
    <2>4. c.p2 \in {1, 3} /\ c.lc # 0
      BY <2>2
    <2>5. c.block.items # << >>
      BY <2>3, <2>4, ChunkAssumption
    <2> QED
      BY <2>2, <2>5 DEF half
  <1> HIDE DEF m
  <1>3. FirstHalf(p) = SubSeq(m, 1, 2) /\ SecondHalf(p) = SubSeq(m, 3, Len(m))
    BY DEF FirstHalf, SecondHalf, m
  <1>4. Len(m) \in Nat
    BY <1>1 DEF IsSequence
  <1>5. Len(m) > 2
    <2> SUFFICES ASSUME Len(m) <= 2 PROVE FALSE
      BY <1>4
    <2>1. SubSeq(m, 3, Len(m)) = << >>
      BY <1>4
    <2> QED
      BY <1>2, <1>3, <2>1
  <1>6. /\ IsSequence(SubSeq(m, 1, 2)) /\ Len(SubSeq(m, 1, 2)) = 2
        /\ IsSequence(SubSeq(m, 3, Len(m))) /\ Len(SubSeq(m, 3, Len(m))) = Len(m) - 2
        /\ Head(SubSeq(m, 3, Len(m))) = m[3]
        /\ SubSeq(m, 1, 2) \o SubSeq(m, 3, Len(m)) = m
    <2>1. 2 \in 1 .. Len(m) - 1 /\ 2 + 1 = 3
      BY <1>4, <1>5
    <2> QED
      BY <1>1, <2>1, CutInTwo
  <1>7. m[3].kind = "cell"
    <2>1. 1 \in 1 .. Len(m) - 1 /\ 1 + 1 = 2
      BY <1>4, <1>5
    <2>2. SentCells(m) = SubSeq(m, 2, Len(m)) /\ Len(SentCells(m)) = Len(m) - 1
      BY <1>1, <2>1, CutInTwo DEF SentCells
    <2>3. SentCells(m)[2] = m[3]
      <3>1. PICK S : m \in Seq(S)
        BY <1>1, PartsAreSeq
      <3>2. \A i \in 2 .. Len(m) : m[i] \in S
        BY <1>4, <3>1, ElementOfSeq
      <3>3. \A i \in 1 .. Len(m) - 1 : SubSeq(m, 2, Len(m))[i] = m[2 + i - 1]
        BY <1>4, <3>1, <3>2, <1>5, SubSeqProperties
      <3>4. 2 \in 1 .. Len(m) - 1 /\ 2 + 2 - 1 = 3
        BY <1>4, <1>5
      <3> QED
        BY <2>2, <3>3, <3>4
    <2>4. 2 \in 1 .. Len(SentCells(m))
      BY <1>4, <1>5, <2>2
    <2>5. ProperTree(SentCells(m))
      BY <1>1 DEF SentTree
    <2> QED
      BY <2>3, <2>4, <2>5 DEF ProperTree
  <1> QED
    BY <1>1, <1>3, <1>5, <1>6, <1>7 DEF m

\* What does not begin with a header is no message.
LEMMA NotABag ==
  ASSUME NEW b, NEW ctx, Head(ctx.tx_data).kind = "cell"
  PROVE  prepare_to_sign(b, ctx).err # SUCCESS
  <1>1. deserialize_cells_tree(b, ctx.tx_data).err = "ERR_INVALID_CONTRACT"
    BY DEF deserialize_cells_tree, HeaderOk
  <1> QED
    BY <1>1 DEF prepare_to_sign, SignTree, SUCCESS


-----------------------------------------------------------------------------
(***************************************************************************)
(* What the handlers do with the commands of a run.                        *)
(***************************************************************************)
Refused == apdu' = None /\ reply'.sw # SUCCESS
Pending == UNCHANGED <<app, apdu, reply>>

LEMMA StatusAnswer ==
  ASSUME NEW code, io_send_sw(code), code # SUCCESS
  PROVE  Refused
  BY DEF io_send_sw, Reply, Refused

LEMMA ThrowAnswer ==
  ASSUME NEW code, NEW d, NEW b, Throw(code, d, b), code # SUCCESS
  PROVE  Refused
  BY StatusAnswer DEF Throw

LEMMA RefuseAnswer == ASSUME Refuse PROVE Refused
  <1>1. CASE io_send_sw("ERR_WRONG_DATA_LENGTH")
    BY <1>1, StatusAnswer DEF SUCCESS
  <1>2. CASE dispatch_error(apdu) # SUCCESS /\ io_send_sw(dispatch_error(apdu))
    BY <1>2, StatusAnswer
  <1> QED
    BY <1>1, <1>2 DEF Refuse

\* A command goes to its own handler.
LEMMA HandledBy ==
  ASSUME Handle
  PROVE  /\ app = "running" /\ apdu # None /\ ui = "menu"
         /\ \/ Refuse
            \/ apdu.ins = "GET_APP_CONFIGURATION" /\ handleGetAppConfiguration
            \/ apdu.ins = "SIGN" /\ handleSign
            \/ /\ apdu.ins = "GET_PUBLIC_KEY"
               /\ \E derived \in BOOLEAN : handleGetPublicKey(derived)
            \/ /\ apdu.ins = "GET_ADDRESS"
               /\ \E derived \in BOOLEAN : handleGetAddress(derived)
            \/ /\ apdu.ins = "SIGN_TRANSACTION"
               /\ \E derived \in BOOLEAN : handleSignTransaction(derived)
  <1>1. ASSUME NEW ins, Dispatched(ins)
        PROVE  app = "running" /\ apdu # None /\ ui = "menu" /\ apdu.ins = ins
    BY <1>1 DEF Dispatched, Fresh
  <1>2. CASE Refuse
    BY <1>2 DEF Refuse, Fresh
  <1>3. CASE handleGetAppConfiguration
    BY <1>1, <1>3 DEF handleGetAppConfiguration
  <1>4. CASE handleSign
    BY <1>1, <1>4 DEF handleSign
  <1>5. CASE \E derived \in BOOLEAN : handleGetPublicKey(derived)
    BY <1>1, <1>5 DEF handleGetPublicKey
  <1>6. CASE \E derived \in BOOLEAN : handleGetAddress(derived)
    BY <1>1, <1>6 DEF handleGetAddress
  <1>7. CASE \E derived \in BOOLEAN : handleSignTransaction(derived)
    BY <1>1, <1>7 DEF handleSignTransaction
  <1> QED
    BY <1>2, <1>3, <1>4, <1>5, <1>6, <1>7 DEF Handle

\* GET_PUBLIC_KEY without a confirmation cleans the contexts.
LEMMA KeyHandled ==
  ASSUME Handle, apdu.ins = "GET_PUBLIC_KEY", apdu.p1 = 0
  PROVE  /\ apdu' = None
         /\ reply'.sw = SUCCESS => reply'.data = PublicKey(apdu.account) /\ Clean'
  <1>1. CASE Refuse
    BY <1>1, RefuseAnswer DEF Refused
  <1>2. CASE \E derived \in BOOLEAN : handleGetPublicKey(derived)
    <2>1. PICK derived \in BOOLEAN : handleGetPublicKey(derived)
      BY <1>2
    <2>2. CASE io_send_sw("ERR_GET_PUBLIC_KEY_FAILED")
      BY <2>2, StatusAnswer DEF SUCCESS, Refused
    <2>3. CASE helper_send_response("key", PublicKey(apdu.account))
      BY <2>3 DEF helper_send_response, Reply, reset_app_context, Clean
    <2> QED
      BY <2>1, <2>2, <2>3 DEF handleGetPublicKey
  <1> QED
    BY <1>1, <1>2, HandledBy

\* GET_ADDRESS without one, from a clean boc_context, gives the own address.
LEMMA AddressHandled ==
  ASSUME Handle, apdu.ins = "GET_ADDRESS", apdu.p1 = 0, bc = ZeroBoc
  PROVE  /\ apdu' = None
         /\ reply'.sw = SUCCESS =>
              reply'.data = get_address(ZeroBoc, apdu.account, apdu.wallet, TRUE).address
  <1>1. CASE Refuse
    BY <1>1, RefuseAnswer DEF Refused
  <1>2. CASE \E derived \in BOOLEAN : handleGetAddress(derived)
    <2>1. PICK derived \in BOOLEAN : handleGetAddress(derived)
      BY <1>2
    <2> DEFINE found == get_address(ZeroBoc, apdu.account, apdu.wallet, derived)
    <2>2. AddressFound(found, KeyLeft(dc, found, apdu.account))
      BY <2>1 DEF handleGetAddress
    <2>3. found.err = SUCCESS => derived = TRUE
      BY AddressNeedsKey
    <2> HIDE DEF found
    <2>4. CASE found.err # SUCCESS
      <3>1. Throw(found.err, KeyLeft(dc, found, apdu.account), found.bc)
        BY <2>2, <2>4 DEF AddressFound
      <3> QED
        BY <2>4, <3>1, ThrowAnswer DEF Refused
    <2>5. CASE found.err = SUCCESS
      <3>1. helper_send_response("address", found.address)
        BY <2>2, <2>5 DEF AddressFound
      <3>2. apdu' = None /\ reply'.data = found.address
        BY <3>1 DEF helper_send_response, Reply
      <3> QED
        BY <2>3, <2>5, <3>2 DEF found
    <2> QED
      BY <2>4, <2>5
  <1> QED
    BY <1>1, <1>2, HandledBy

\* A chunk: refused, taken, or with the last one a review of what is prepared.
Prepared(st) ==
  \E flag \in BOOLEAN :
    ReviewError(prepare_to_sign(st.bc, [st.dc EXCEPT !.tx_sign_with_chain_id = flag]))
      = SUCCESS

LEMMA ChunkHandled ==
  ASSUME SessionInv, Handle, apdu.ins = "SIGN_TRANSACTION"
  PROVE  \/ Refused
         \/ more(apdu) /\ apdu' = None /\ sess' = SessionWith(sess, apdu)
         \/ /\ ~more(apdu) /\ ui' = "transaction" /\ Pending
            /\ sess' = SessionWith(sess, apdu)
            /\ \E st : Holds(st, SessionWith(sess, apdu)) /\ Prepared(st)
  <1>1. CASE Refuse
    BY <1>1, RefuseAnswer
  <1>2. CASE \E derived \in BOOLEAN : handleSignTransaction(derived)
    <2>1. PICK derived \in BOOLEAN : handleSignTransaction(derived)
      BY <1>2
    <2> DEFINE st == Chunk(apdu, derived)
    <2>2. AfterChunk(st)
      BY <2>1 DEF handleSignTransaction
    <2>3. st.err = SUCCESS => Holds(st, SessionWith(sess, apdu))
      <3>1. app = "running" /\ apdu # None /\ dispatch_error(apdu) = SUCCESS
        BY <2>1 DEF handleSignTransaction, Dispatched, Fresh
      <3>2. AppInv /\ apdu \in Commands
        BY <3>1 DEF SessionInv, SigningInv, AppInv, TypeOK
      <3>3. apdu.block.len \in Nat /\ (is_first_chunk(apdu) => apdu.header # None)
        BY <3>2, AppAssumption DEF is_first_chunk
      <3> QED
        BY <3>1, <3>2, <3>3, ChunkLemma
    <2> HIDE DEF st
    <2>4. CASE st.err # SUCCESS
      <3>1. Throw(st.err, st.dc, st.bc)
        BY <2>2, <2>4 DEF AfterChunk
      <3> QED
        BY <2>4, <3>1, ThrowAnswer
    <2>5. CASE st.err = SUCCESS /\ more(apdu)
      BY <2>2, <2>5 DEF AfterChunk, io_send_sw, Reply
    <2>6. CASE st.err = SUCCESS /\ ~more(apdu)
      <3>1. CASE Throw("ERR_END_OF_STREAM", st.dc, st.bc)
        BY <3>1, ThrowAnswer DEF SUCCESS
      <3>2. CASE \E flag \in BOOLEAN :
                   ShowTransaction(st, flag, prepare_to_sign(st.bc, [st.dc EXCEPT
                                               !.tx_sign_with_chain_id = flag]))
        <4>1. PICK flag \in BOOLEAN :
                ShowTransaction(st, flag, prepare_to_sign(st.bc, [st.dc EXCEPT
                                            !.tx_sign_with_chain_id = flag]))
          BY <3>2
        <4> DEFINE r == prepare_to_sign(st.bc, [st.dc EXCEPT !.tx_sign_with_chain_id = flag])
        <4>2. ReviewError(r) = SUCCESS => Prepared(st)
          BY DEF Prepared
        <4>3. ShowTransaction(st, flag, r)
          BY <4>1
        <4> HIDE DEF r
        <4>4. CASE ReviewError(r) # SUCCESS
          <5>1. Throw(ReviewError(r), Reviewed(st, flag, r), r.bc)
            BY <4>3, <4>4 DEF ShowTransaction
          <5> QED
            BY <4>4, <5>1, ThrowAnswer
        <4>5. CASE ReviewError(r) = SUCCESS
          <5>1. ui' = "transaction" /\ Pending /\ sess' = SessionWith(sess, apdu)
            BY <4>3, <4>5 DEF ShowTransaction, Pending
          <5> QED
            BY <2>3, <2>6, <4>2, <4>5, <5>1
        <4> QED
          BY <4>4, <4>5
      <3> QED
        BY <2>2, <2>6, <3>1, <3>2 DEF AfterChunk
    <2> QED
      BY <2>4, <2>5, <2>6
  <1> QED
    BY <1>1, <1>2, HandledBy

\* Every command ends or is put before the user.
LEMMA Handled ==
  ASSUME SessionInv, Handle
  PROVE  apdu' = None \/ Pending
  <1>1. CASE Refuse
    BY <1>1, RefuseAnswer DEF Refused
  <1>2. CASE handleGetAppConfiguration
    BY <1>2 DEF handleGetAppConfiguration, Reply
  <1>3. CASE handleSign
    BY <1>3 DEF handleSign, Throw, io_send_sw, Reply, Pending
  <1>4. CASE \E derived \in BOOLEAN : handleGetPublicKey(derived)
    <2>1. PICK derived \in BOOLEAN : handleGetPublicKey(derived)
      BY <1>4
    <2> QED
      BY <2>1 DEF handleGetPublicKey, helper_send_response, io_send_sw, Reply, Pending
  <1>5. CASE \E derived \in BOOLEAN : handleGetAddress(derived)
    <2>1. PICK found : AddressFound(found, KeyLeft(dc, found, apdu.account))
      BY <1>5 DEF handleGetAddress
    <2> QED
      BY <2>1 DEF AddressFound, Throw, helper_send_response, io_send_sw, Reply, Pending
  <1>6. CASE apdu.ins = "SIGN_TRANSACTION"
    BY <1>6, ChunkHandled DEF Refused
  <1> QED
    BY <1>1, <1>2, <1>3, <1>4, <1>5, <1>6, HandledBy

LEMMA DecisionHandled ==
  ASSUME UserDecides
  PROVE  app = "running" /\ ui # "menu" /\ apdu' = None
  <1> PICK choice \in BOOLEAN, signed \in BOOLEAN :
        \/ Decide("pubkey") /\ validate_pubkey(choice)
        \/ Decide("address") /\ validate_address(choice)
        \/ Decide("message") /\ validate_message(choice, signed)
        \/ Decide("transaction") /\ validate_transaction(choice, signed)
    BY DEF UserDecides
  <1>1. app = "running" /\ ui # "menu"
    BY DEF Decide
  <1>2. apdu' = None
    BY DEF validate_pubkey, validate_address, validate_message, validate_transaction,
           Reject, helper_send_response, io_send_sw, Reply
  <1> QED
    BY <1>1, <1>2


-----------------------------------------------------------------------------
(***************************************************************************)
(* What becomes of a command of a run: it ends, and a positive answer says *)
(* what the run needs, or its review comes before the user.                *)
(***************************************************************************)
GoesOn(p) ==
  \/ apdu' = None /\ (reply'.sw = SUCCESS => Says(p)')
  \/ Pending /\ AtDevice(p)'

LEMMA RefusedGoesOn == ASSUME NEW p, Refused PROVE GoesOn(p)
  BY DEF Refused, GoesOn

LEMMA KeyAsked ==
  ASSUME NEW p \in Programs, Sends(p), Handle, UNCHANGED client,
         step = "key", apdu = ledger_get_pubkey(p)
  PROVE  GoesOn(p)
  <1>1. apdu.ins = "GET_PUBLIC_KEY" /\ apdu.p1 = 0 /\ apdu.account = p.account
    BY PlainCommands
  <1>2. step' = "key"
    BY DEF client
  <1> QED
    BY <1>1, <1>2, KeyHandled DEF GoesOn, Says

LEMMA AddressAsked ==
  ASSUME NEW p \in Programs, Sends(p), Handle, UNCHANGED client,
         step = "address", apdu = ledger_get_address(p), Clean
  PROVE  GoesOn(p)
  <1>1. /\ apdu.ins = "GET_ADDRESS" /\ apdu.p1 = 0
        /\ apdu.account = p.account /\ apdu.wallet = p.wallet
    BY PlainCommands
  <1>2. step' = "address"
    BY DEF client
  <1>3. Own(p) = get_address(ZeroBoc, apdu.account, apdu.wallet, TRUE).address
    BY <1>1, HeaderFacts
  <1>4. apdu' = None /\ (reply'.sw = SUCCESS => reply'.data = Own(p))
    BY <1>1, <1>3, AddressHandled DEF Clean
  <1>5. Own(p)' = Own(p)
    BY DEF Own, OwnAddress, HeaderOf
  <1> QED
    BY <1>2, <1>4, <1>5 DEF GoesOn, Says

\* The sessions that the chunks of a run make.
LEMMA FirstOfTwo ==
  ASSUME NEW p \in Programs, Sends(p), apdu = Chunk_of(p, 2, FirstHalf(p))
  PROVE  /\ more(apdu)
         /\ SessionWith(sess, apdu) =
              [header |-> HeaderOf(p), items |-> FirstHalf(p),
               len |-> Len(FirstHalf(p)), intact |-> TRUE]
  <1> DEFINE half == FirstHalf(p)
  <1>1. IsSequence(half) /\ Len(half) = 2
    BY TwoChunks
  <1>2. apdu = Chunk_of(p, 2, half)
    OBVIOUS
  <1> HIDE DEF half
  <1>3. /\ apdu.p2 = 2 /\ apdu.header = HeaderOf(p)
        /\ apdu.block.len = Len(half) /\ apdu.block.items = half
    BY <1>2, ChunkCommands
  <1>4. << >> \o half = half
    BY <1>1, NothingBefore
  <1>5. is_first_chunk(apdu) /\ more(apdu)
    BY <1>3 DEF is_first_chunk, more
  <1>6. apdu.block.len # 0
    BY <1>1, <1>3
  <1>7. SessionWith(sess, apdu) =
          [header |-> HeaderOf(p), items |-> half, len |-> Len(half), intact |-> TRUE]
    BY <1>3, <1>4, <1>5, <1>6 DEF SessionWith
  <1> QED
    BY <1>5, <1>7 DEF half

LEMMA AllAtOnce ==
  ASSUME NEW p \in Programs, Sends(p), apdu = Chunk_of(p, 0, Message(p.request))
  PROVE  /\ ~more(apdu)
         /\ LET s == SessionWith(sess, apdu)
            IN  s.header = HeaderOf(p) /\ s.items = Message(p.request) /\ s.intact
  <1> DEFINE m == Message(p.request)
  <1>1. IsSequence(m) /\ Len(m) > 2
    BY TwoChunks
  <1>2. apdu = Chunk_of(p, 0, m)
    OBVIOUS
  <1> HIDE DEF m
  <1>3. /\ apdu.p2 = 0 /\ apdu.header = HeaderOf(p)
        /\ apdu.block.len = Len(m) /\ apdu.block.items = m
    BY <1>2, ChunkCommands
  <1>4. << >> \o m = m
    BY <1>1, NothingBefore
  <1>5. apdu.block.len # 0
    BY <1>1, <1>3
  <1>6. is_first_chunk(apdu) /\ ~more(apdu)
    BY <1>3 DEF is_first_chunk, more
  <1>7. LET s == SessionWith(sess, apdu)
        IN  s.header = HeaderOf(p) /\ s.items = m /\ s.intact
    BY <1>3, <1>4, <1>5, <1>6 DEF SessionWith
  <1> QED
    BY <1>6, <1>7 DEF m

LEMMA SecondOfTwo ==
  ASSUME NEW p \in Programs, Sends(p), apdu = Chunk_of(p, 1, SecondHalf(p)), Halfway(p)
  PROVE  /\ ~more(apdu)
         /\ LET s == SessionWith(sess, apdu)
            IN  \/ s.header = HeaderOf(p) /\ s.items = Message(p.request) /\ s.intact
                \/ s.items = SecondHalf(p)
  <1> DEFINE half == SecondHalf(p)
             first == FirstHalf(p)
  <1>1. IsSequence(half) /\ Len(half) = Len(Message(p.request)) - 2
        /\ Len(Message(p.request)) > 2 /\ IsSequence(Message(p.request))
        /\ first \o half = Message(p.request)
    BY TwoChunks
  <1>2. /\ apdu = Chunk_of(p, 1, half)
        /\ sess \in {NoSession, [header |-> HeaderOf(p), items |-> first,
                                 len |-> Len(first), intact |-> TRUE]}
    BY DEF Halfway
  <1> HIDE DEF half, first
  <1>3. /\ apdu.p2 = 1 /\ apdu.block.len = Len(half) /\ apdu.block.items = half
    BY <1>2, ChunkCommands
  <1>4. << >> \o half = half
    BY <1>1, NothingBefore
  <1>5. apdu.block.len # 0
    BY <1>1, <1>3 DEF IsSequence
  <1>6. ~more(apdu) /\ ~is_first_chunk(apdu)
    BY <1>3 DEF more, is_first_chunk
  <1>7. CASE sess = NoSession
    <2>1. SessionWith(sess, apdu).items = << >> \o half
      BY <1>3, <1>5, <1>6, <1>7 DEF SessionWith, NoSession
    <2> QED
      BY <1>4, <1>6, <2>1 DEF half
  <1>8. CASE sess = [header |-> HeaderOf(p), items |-> first, len |-> Len(first), intact |-> TRUE]
    <2>1. /\ SessionWith(sess, apdu).items = first \o half
          /\ SessionWith(sess, apdu).header = HeaderOf(p)
          /\ SessionWith(sess, apdu).intact
      BY <1>3, <1>5, <1>6, <1>8 DEF SessionWith
    <2> QED
      BY <1>1, <1>6, <2>1
  <1> QED
    BY <1>2, <1>7, <1>8

LEMMA MoreAsked ==
  ASSUME NEW p \in Programs, Sends(p), SessionInv, Handle, UNCHANGED client,
         step = "more", apdu = Chunk_of(p, 2, FirstHalf(p))
  PROVE  GoesOn(p)
  <1>1. apdu.ins = "SIGN_TRANSACTION"
    BY ChunkCommands
  <1>2. /\ more(apdu)
        /\ SessionWith(sess, apdu) =
             [header |-> HeaderOf(p), items |-> FirstHalf(p),
              len |-> Len(FirstHalf(p)), intact |-> TRUE]
    BY FirstOfTwo
  <1>3. Refused \/ (apdu' = None /\ sess' = SessionWith(sess, apdu))
    BY <1>1, <1>2, ChunkHandled
  <1>4. step' = "more"
    BY DEF client
  <1>5. sess' = SessionWith(sess, apdu) => Halfway(p)'
    BY <1>2 DEF Halfway, HeaderOf, FirstHalf
  <1> QED
    BY <1>3, <1>4, <1>5, RefusedGoesOn DEF GoesOn, Says

LEMMA WholeAsked ==
  ASSUME NEW p \in Programs, Sends(p), SessionInv, Handle, UNCHANGED client,
         step = "signature",
         \/ apdu = Chunk_of(p, 0, Message(p.request))
         \/ apdu = Chunk_of(p, 1, SecondHalf(p)) /\ Halfway(p)
  PROVE  GoesOn(p)
  <1> DEFINE s == SessionWith(sess, apdu)
  <1>1. apdu.ins = "SIGN_TRANSACTION"
    BY ChunkCommands
  <1>2. /\ ~more(apdu)
        /\ \/ s.header = HeaderOf(p) /\ s.items = Message(p.request) /\ s.intact
           \/ s.items = SecondHalf(p)
    BY AllAtOnce, SecondOfTwo
  <1>3. \/ Refused
        \/ /\ ui' = "transaction" /\ Pending /\ sess' = s
           /\ \E st : Holds(st, s) /\ Prepared(st)
    BY <1>1, <1>2, ChunkHandled
  <1> HIDE DEF s
  <1>4. ASSUME NEW st, Holds(st, s), Prepared(st) PROVE s.items # SecondHalf(p)
    <2> SUFFICES ASSUME s.items = SecondHalf(p) PROVE FALSE
      OBVIOUS
    <2>1. PICK flag \in BOOLEAN :
            ReviewError(prepare_to_sign(st.bc, [st.dc EXCEPT !.tx_sign_with_chain_id = flag]))
              = SUCCESS
      BY <1>4 DEF Prepared
    <2> DEFINE ctx == [st.dc EXCEPT !.tx_sign_with_chain_id = flag]
    <2>2. ctx.tx_data = SecondHalf(p)
      BY <1>4 DEF Holds
    <2>3. prepare_to_sign(st.bc, ctx).err # SUCCESS
      <3> HIDE DEF ctx
      <3> QED
        BY <2>2, TwoChunks, NotABag
    <2> QED
      BY <2>1, <2>3 DEF ReviewError
  <1>5. step' = "signature"
    BY DEF client
  <1>6. CASE Refused
    BY <1>6, RefusedGoesOn
  <1>7. CASE /\ ui' = "transaction" /\ Pending /\ sess' = s
             /\ \E st : Holds(st, s) /\ Prepared(st)
    <2>1. s.header = HeaderOf(p) /\ s.items = Message(p.request) /\ s.intact
      BY <1>2, <1>4, <1>7
    <2>2. WholeSession(p)'
      BY <1>7, <2>1 DEF WholeSession, HeaderOf
    <2> QED
      BY <1>5, <1>7, <2>2 DEF GoesOn, AtDevice
  <1> QED
    BY <1>3, <1>6, <1>7


\* The approval of a review of the run's message signs it.
LEMMA ReviewDecided ==
  ASSUME MessagesAreWhole, NEW p \in Programs, Sends(p), SessionInv, UserDecides,
         UNCHANGED client, app = "running", step = "signature", ui = "transaction",
         WholeSession(p)
  PROVE  apdu' = None /\ (reply'.sw = SUCCESS => Says(p)')
  <1>1. /\ sess.header = HeaderOf(p) /\ sess.items = Message(p.request) /\ sess.intact
    BY DEF WholeSession
  <1>2. HeaderOf(p) \in HeadersRead /\ HeaderOf(p) # None
    <2>1. sess.header # None
      BY <1>1, HeaderNeverNone
    <2> QED
      BY <1>1, <2>1 DEF SessionInv, SessionOpen, WellOpened
  <1>3. ~ReviewedBefore
    <2>1. p.request \in Sent /\ p.request.wallet = WalletOf(HeaderOf(p))
      BY RunCommands, HeaderFacts
    <2>2. \A n \in 1 .. Len(Message(p.request)) - 1 :
            ~IsReviewed(HeaderOf(p), SubSeq(Message(p.request), 1, n))
      BY <1>2, <2>1 DEF MessagesAreWhole
    <2> QED
      BY <1>1, <2>2 DEF ReviewedBefore
  <1>4. SignedBytes(dc) = WantedBytes(MessageCells(p.request), HeaderOf(p), Own(p))
    <2>1. /\ SentTree(sess.items, sess.header)
          /\ SentCells(sess.items) = MessageCells(p.request)
      BY <1>1, TwoChunks
    <2>2. SignedBytes(dc) = WantedBytes(SentCells(sess.items), sess.header,
                                        OwnAddress(sess.header))
      BY <1>1, <1>2, <1>3, <2>1, SessionPayload
    <2> QED
      BY <1>1, <2>1, <2>2 DEF Own
  <1>5. dc.tx_account_number = p.account
    <2>1. dc.tx_account_number = Kept(sess.header, OwnAddress(sess.header)).tx_account_number
      BY <1>1, <1>2 DEF SessionInv, SigningInv, AppInv, SessionKept, HeaderFields
    <2> QED
      BY <1>1, <1>2, <2>1, HeaderFacts DEF Kept
  <1>6. PICK choice \in BOOLEAN, signed \in BOOLEAN : validate_transaction(choice, signed)
    BY DEF UserDecides, Decide
  <1>7. apdu' = None /\ (reply'.sw = SUCCESS => reply'.data = SignatureWanted(p))
    <2>1. SignatureWanted(p) = Signature(dc.tx_account_number, SignedBytes(dc))
      BY <1>4, <1>5 DEF SignatureWanted
    <2>2. CASE Reject
      BY <2>2, StatusAnswer DEF Reject, SUCCESS, Refused
    <2>3. CASE io_send_sw("ERR_SIGNING_FAILED")
      BY <2>3, StatusAnswer DEF SUCCESS, Refused
    <2>4. CASE Reply(SUCCESS, "signature", Signature(dc.tx_account_number, SignedBytes(dc)))
      BY <2>1, <2>4 DEF Reply
    <2> QED
      BY <1>6, <2>2, <2>3, <2>4 DEF validate_transaction
  <1>8. step' = "signature"
    BY DEF client
  <1>9. /\ SignatureWanted(p)' = SignatureWanted(p)
        /\ (HeaderOf(p) \in HeadersRead)' <=> HeaderOf(p) \in HeadersRead
    BY DEF SignatureWanted, HeaderOf, HeadersRead, Own
  <1> QED
    BY <1>2, <1>7, <1>8, <1>9 DEF Says

-----------------------------------------------------------------------------
(***************************************************************************)
(* The steps of the device.                                                *)
(***************************************************************************)
\* A command that the device has ends so that the invariant holds.
LEMMA CommandEnds ==
  ASSUME ClientInv, UNCHANGED client, apdu # None,
         apdu' = None \/ Pending,
         \A p \in Programs : p = prog /\ Sends(p) => GoesOn(p)
  PROVE  ClientInv'
  <1> USE DEF ClientInv
  <1>1. /\ app = "running" /\ reply = NoReply /\ prog # None /\ waiting /\ step # "state"
        /\ prog' = prog /\ step' = step /\ waiting' = waiting /\ held' = held
        /\ result' = result
    BY DEF CommandAsked, client
  <1>2. PICK p \in Programs : p = prog
    BY <1>1
  <1>3. Sends(p) => GoesOn(p)
    BY <1>2
  <1>4. CommandAsked'
    BY <1>1, <1>2, <1>3 DEF CommandAsked, GoesOn, Pending, Sends
  <1>5. AnswerGot'
    BY <1>1, <1>2, <1>3 DEF AnswerGot, GoesOn, Pending, Sends
  <1>6. RunHolds'
    <2>1. Sends(prog) => Holding(prog) /\ AtDevice(prog)
      BY <1>1 DEF RunHolds, CommandAsked
    <2>2. Sends(prog) => step # "rest"
      BY <2>1 DEF AtDevice
    <2> QED
      BY <1>1, <2>1, <2>2 DEF RunHolds, Holding, Sends, GotBoth, Own, OwnAddress, HeaderOf
  <1>7. ResultRight'
    BY <1>1 DEF ResultRight, GotBoth, Own, OwnAddress, HeaderOf, HeadersRead, SignatureWanted
  <1> QED
    BY <1>1, <1>4, <1>5, <1>6, <1>7


LEMMA HandledKeeps ==
  ASSUME ClientInv, SessionInv, UNCHANGED client, Handle
  PROVE  ClientInv'
  <1>1. app = "running" /\ apdu # None /\ ui = "menu"
    BY HandledBy
  <1>2. apdu' = None \/ Pending
    BY Handled
  <1>3. ASSUME NEW p \in Programs, p = prog, Sends(p) PROVE GoesOn(p)
    <2>1. AtDevice(p)
      BY <1>1, <1>3 DEF ClientInv, CommandAsked
    <2>2. CASE step = "key" /\ apdu = ledger_get_pubkey(p)
      BY <1>3, <2>1, <2>2, KeyAsked
    <2>3. CASE step = "address" /\ apdu = ledger_get_address(p) /\ Clean
      BY <1>3, <2>1, <2>3, AddressAsked
    <2>4. CASE step = "more" /\ apdu = Chunk_of(p, 2, FirstHalf(p))
      BY <1>3, <2>1, <2>4, MoreAsked
    <2>5. CASE /\ step = "signature"
               /\ \/ apdu = Chunk_of(p, 0, Message(p.request))
                  \/ apdu = Chunk_of(p, 1, SecondHalf(p)) /\ Halfway(p)
      BY <1>3, <2>1, <2>5, WholeAsked
    <2> QED
      BY <1>1, <2>1, <2>2, <2>3, <2>4, <2>5 DEF AtDevice
  <1> QED
    BY <1>1, <1>2, <1>3, CommandEnds

LEMMA DecidedKeeps ==
  ASSUME MessagesAreWhole, ClientInv, SessionInv, UNCHANGED client, UserDecides
  PROVE  ClientInv'
  <1>1. app = "running" /\ ui # "menu" /\ apdu' = None
    BY DecisionHandled
  <1>2. apdu # None
    BY <1>1 DEF SessionInv, SigningInv, AnswerOwed
  <1>3. ASSUME NEW p \in Programs, p = prog, Sends(p) PROVE GoesOn(p)
    <2>1. AtDevice(p)
      BY <1>2, <1>3 DEF ClientInv, CommandAsked
    <2>2. step = "signature" /\ ui = "transaction" /\ WholeSession(p)
      BY <1>1, <2>1 DEF AtDevice
    <2> QED
      BY <1>1, <1>3, <2>1, <2>2, ReviewDecided DEF GoesOn
  <1> QED
    BY <1>1, <1>2, <1>3, CommandEnds

\* The application is closed: what it has kept stays until it is opened again.
LEMMA StopKeeps ==
  ASSUME ClientInv, UNCHANGED client, Stop
  PROVE  ClientInv'
  <1> USE DEF ClientInv
  <1>1. /\ prog' = prog /\ step' = step /\ waiting' = waiting /\ held' = held
        /\ result' = result
        /\ apdu' = None /\ dc' = dc /\ bc' = bc /\ sess' = sess /\ reply' = reply
    BY DEF client, Stop
  <1>2. CommandAsked'
    BY <1>1 DEF CommandAsked
  <1>3. AnswerGot'
    <2> SUFFICES ASSUME prog # None, Sends(prog), waiting, reply.sw = SUCCESS
                 PROVE  Says(prog)'
      BY <1>1 DEF AnswerGot, Sends
    <2>1. apdu = None
      BY DEF CommandAsked, NoReply, SUCCESS
    <2>2. Says(prog)
      BY <2>1 DEF AnswerGot
    <2> QED
      BY <1>1, <2>2 DEF Says, Clean, Own, OwnAddress, HeaderOf, Halfway, FirstHalf,
                        SignatureWanted, HeadersRead
  <1>4. RunHolds'
    BY <1>1 DEF RunHolds, Holding, Sends, GotBoth, Own, OwnAddress, HeaderOf, Clean,
                Halfway, FirstHalf
  <1>5. ResultRight'
    BY <1>1 DEF ResultRight, GotBoth, Own, OwnAddress, HeaderOf, HeadersRead, SignatureWanted
  <1> QED
    BY <1>1, <1>2, <1>3, <1>4, <1>5

\* It is opened again with everything clean.
LEMMA OpenKeeps ==
  ASSUME ClientInv, UNCHANGED client, app_main
  PROVE  ClientInv'
  <1> USE DEF ClientInv
  <1>1. /\ prog' = prog /\ step' = step /\ waiting' = waiting /\ held' = held
        /\ result' = result
        /\ apdu' = None /\ reply' = NoReply /\ sess' = NoSession
        /\ dc' = ZeroContext /\ bc' = ZeroBoc
    BY DEF client, app_main, reset_app_context
  <1>2. CommandAsked'
    BY <1>1 DEF CommandAsked
  <1>3. AnswerGot'
    BY <1>1 DEF AnswerGot, NoReply, SUCCESS
  <1>4. RunHolds'
    BY <1>1 DEF RunHolds, Holding, Sends, GotBoth, Own, OwnAddress, HeaderOf, Clean,
                Halfway, NoSession
  <1>5. ResultRight'
    BY <1>1 DEF ResultRight, GotBoth, Own, OwnAddress, HeaderOf, HeadersRead, SignatureWanted
  <1> QED
    BY <1>1, <1>2, <1>3, <1>4, <1>5

LEMMA DeviceKeeps ==
  ASSUME MessagesAreWhole, ClientInv, SessionInv, DeviceStep
  PROVE  ClientInv'
  <1>1. UNCHANGED client
    BY DEF DeviceStep
  <1>2. CASE Handle
    BY <1>1, <1>2, HandledKeeps
  <1>3. CASE UserDecides
    BY <1>1, <1>3, DecidedKeeps
  <1>4. CASE Quit \/ ReceiveFails
    BY <1>1, <1>4, StopKeeps DEF Quit, ReceiveFails
  <1>5. CASE app_main
    BY <1>1, <1>5, OpenKeeps
  <1> QED
    BY <1>2, <1>3, <1>4, <1>5 DEF DeviceStep

-----------------------------------------------------------------------------
(***************************************************************************)
(* The steps of a run.                                                     *)
(***************************************************************************)
LEMMA StartKeeps ==
  ASSUME ClientInv, NEW p \in Programs, Start(p)
  PROVE  ClientInv'
  <1> USE DEF ClientInv
  <1>1. /\ prog = None /\ prog' = p /\ step' = FirstCall(p) /\ waiting' = FALSE
        /\ held' = Nothing_held /\ result' = None /\ apdu' = apdu
    BY DEF Start, vars
  <1>2. apdu = None
    BY <1>1 DEF CommandAsked
  <1>3. FirstCall(p) \in {"key", "address"} /\ (Sends(p) => FirstCall(p) = "key")
    BY DEF FirstCall, Sends
  <1>4. RunHolds'
    BY <1>1, <1>3 DEF RunHolds, Holding, Sends
  <1> QED
    BY <1>1, <1>2, <1>4 DEF CommandAsked, AnswerGot, ResultRight

\* A run ends without having sent.
LEMMA EndKeeps ==
  ASSUME ClientInv, UNCHANGED vars, NEW what, End(what), apdu = None,
         what.what = "sent" =>
           /\ HeaderOf(what.prog) \in HeadersRead
           /\ what.held = GotBoth(what.prog)
           /\ what.signature = SignatureWanted(what.prog)
  PROVE  ClientInv'
  <1>1. prog' = None /\ apdu' = None /\ result' = what
    BY DEF End, vars
  <1>2. CommandAsked' /\ AnswerGot' /\ RunHolds'
    BY <1>1 DEF CommandAsked, AnswerGot, RunHolds
  <1>3. ResultRight'
    BY <1>1 DEF ResultRight, GotBoth, Own, OwnAddress, HeaderOf, HeadersRead, SignatureWanted
  <1> QED
    BY <1>1, <1>2, <1>3 DEF ClientInv

LEMMA GoOnKeeps ==
  ASSUME ClientInv, UNCHANGED vars, NEW call, NEW got, GoOn(call, got), apdu = None,
         prog # None,
         IF Sends(prog)
         THEN \/ /\ call = "address" /\ Clean
                 /\ got = [key |-> PublicKey(prog.account), address |-> None]
              \/ call \in {"state", "sign"} /\ got = GotBoth(prog)
              \/ call = "rest" /\ got = GotBoth(prog) /\ Halfway(prog)
         ELSE call \in {"key", "address", "state"}
  PROVE  ClientInv'
  <1>1. /\ prog' = prog /\ step' = call /\ waiting' = FALSE /\ held' = got
        /\ result' = result /\ apdu' = None
    BY DEF GoOn, vars
  <1>2. CommandAsked' /\ AnswerGot'
    BY <1>1 DEF CommandAsked, AnswerGot
  <1>3. RunHolds'
    <2>1. GotBoth(prog)' = GotBoth(prog)
      BY <1>1 DEF GotBoth, Own, OwnAddress, HeaderOf
    <2>2. (Sends(prog)' <=> Sends(prog)) /\ (Clean' <=> Clean) /\ (Halfway(prog)' <=> Halfway(prog))
      BY <1>1 DEF Sends, Clean, Halfway, FirstHalf, HeaderOf, vars
    <2> QED
      BY <1>1, <2>1, <2>2 DEF RunHolds, Holding
  <1>4. ResultRight'
    BY <1>1 DEF ClientInv, ResultRight, GotBoth, Own, OwnAddress, HeaderOf, HeadersRead,
                SignatureWanted
  <1> QED
    BY <1>1, <1>2, <1>3, <1>4 DEF ClientInv


\* A command is sent from the menu, and it is one of the device's.
LEMMA SendKeeps ==
  ASSUME ClientInv, SessionInv, prog # None, ~waiting,
         NEW c \in Commands, NEW call, Send(c, call),
         IF Sends(prog)
         THEN \/ call = "key" /\ c = ledger_get_pubkey(prog) /\ held = Nothing_held
              \/ /\ call = "address" /\ c = ledger_get_address(prog) /\ Clean
                 /\ held = [key |-> PublicKey(prog.account), address |-> None]
              \/ /\ held = GotBoth(prog)
                 /\ \/ call = "more" /\ c = Chunk_of(prog, 2, FirstHalf(prog))
                    \/ call = "signature" /\ c = Chunk_of(prog, 0, Message(prog.request))
                    \/ /\ call = "signature" /\ c = Chunk_of(prog, 1, SecondHalf(prog))
                       /\ Halfway(prog)
         ELSE call \in {"key", "address"}
  PROVE  ClientInv'
  <1>1. /\ app = "running" /\ app' = app /\ apdu = None /\ apdu' = c /\ reply' = NoReply
        /\ ui' = ui /\ dc' = dc /\ bc' = bc /\ sess' = sess
        /\ prog' = prog /\ step' = call /\ waiting' = TRUE /\ held' = held
        /\ result' = result
    BY DEF Send, Receive
  <1>2. ui = "menu"
    BY <1>1 DEF SessionInv, SigningInv, AnswerOwed
  <1>3. c # None
    BY AppAssumption
  <1>4. PICK p \in Programs : p = prog
    BY DEF ClientInv
  <1>5. CommandAsked'
    <2>1. Sends(p) => AtDevice(p)'
      BY <1>1, <1>2, <1>4 DEF AtDevice, Clean, Halfway
    <2>2. call # "state"
      OBVIOUS
    <2> QED
      BY <1>1, <1>4, <2>1, <2>2 DEF CommandAsked, Sends
  <1>6. AnswerGot'
    BY <1>1, <1>3 DEF AnswerGot
  <1>7. RunHolds'
    BY <1>1, <1>4 DEF RunHolds, Holding, Sends, GotBoth, Own, OwnAddress, HeaderOf
  <1>8. ResultRight'
    BY <1>1 DEF ClientInv, ResultRight, GotBoth, Own, OwnAddress, HeaderOf, HeadersRead,
                SignatureWanted
  <1> QED
    BY <1>1, <1>4, <1>5, <1>6, <1>7, <1>8 DEF ClientInv

LEMMA CallKeeps ==
  ASSUME ClientInv, SessionInv, Call
  PROVE  ClientInv'
  <1>1. prog \in Programs /\ prog # None /\ ~waiting
    BY DEF Call, ClientInv
  <1>2. IF Sends(prog) THEN Holding(prog) ELSE step \in {"key", "address", "state"}
    BY <1>1 DEF ClientInv, RunHolds
  <1>3. CASE step = "key" /\ Send(ledger_get_pubkey(prog), "key")
    <2>1. ledger_get_pubkey(prog) \in Commands
      BY <1>1, RunCommands
    <2>2. Sends(prog) => held = Nothing_held
      BY <1>2, <1>3 DEF Holding
    <2> QED
      BY <1>1, <1>3, <2>1, <2>2, SendKeeps
  <1>4. CASE step = "address" /\ Send(ledger_get_address(prog), "address")
    <2>1. ledger_get_address(prog) \in Commands
      BY <1>1, RunCommands
    <2>2. Sends(prog) =>
            Clean /\ held = [key |-> PublicKey(prog.account), address |-> None]
      BY <1>1, <1>2, <1>4 DEF Holding
    <2> QED
      BY <1>1, <1>4, <2>1, <2>2, SendKeeps
  <1>5. step \in {"sign", "rest"} =>
          Sends(prog) /\ held = GotBoth(prog) /\ (step = "rest" => Halfway(prog))
    BY <1>2 DEF Holding
  <1>6. CASE step = "sign" /\ Send(Chunk_of(prog, 0, Message(prog.request)), "signature")
    <2>1. Chunk_of(prog, 0, Message(prog.request)) \in Commands
      BY <1>1, <1>5, <1>6, RunCommands
    <2> QED
      BY <1>1, <1>5, <1>6, <2>1, SendKeeps
  <1>7. CASE step = "sign" /\ Send(Chunk_of(prog, 2, FirstHalf(prog)), "more")
    <2>1. Chunk_of(prog, 2, FirstHalf(prog)) \in Commands
      BY <1>1, <1>5, <1>7, RunCommands
    <2> QED
      BY <1>1, <1>5, <1>7, <2>1, SendKeeps
  <1>8. CASE step = "rest" /\ Send(Chunk_of(prog, 1, SecondHalf(prog)), "signature")
    <2>1. Chunk_of(prog, 1, SecondHalf(prog)) \in Commands
      BY <1>1, <1>5, <1>8, RunCommands
    <2> QED
      BY <1>1, <1>5, <1>8, <2>1, SendKeeps
  <1> QED
    BY <1>3, <1>4, <1>6, <1>7, <1>8 DEF Call

LEMMA AnswerKeeps ==
  ASSUME ClientInv, Answer
  PROVE  ClientInv'
  <1>1. /\ prog \in Programs /\ prog # None /\ waiting /\ apdu = None /\ UNCHANGED vars
    BY DEF Answer, ClientInv
  <1>2. IF Sends(prog) THEN Holding(prog) ELSE step \in {"key", "address", "state"}
    BY <1>1 DEF ClientInv, RunHolds
  <1>3. CASE reply.sw # SUCCESS
    <2>1. End(Failed) /\ Failed.what = "failed"
      BY <1>3 DEF Answer, Failed
    <2> QED
      BY <1>1, <2>1, EndKeeps
  <1>4. CASE reply.sw = SUCCESS
    <2>1. Sends(prog) => Says(prog)
      BY <1>1, <1>4 DEF ClientInv, AnswerGot
    <2>2. ASSUME NEW value, End(Printed(value)) PROVE ClientInv'
      <3>1. Printed(value).what = "printed"
        BY DEF Printed
      <3> QED
        BY <1>1, <2>2, <3>1, EndKeeps
    <2>3. CASE step = "key" /\ prog.sub # "get pubkey"
      <3> DEFINE got == [held EXCEPT !.key = reply.data]
      <3>1. GoOn("address", got)
        BY <1>4, <2>3 DEF Answer
      <3>2. Sends(prog) => /\ Clean
                           /\ got = [key |-> PublicKey(prog.account), address |-> None]
        <4>1. Sends(prog) => held = Nothing_held /\ Clean /\ reply.data = PublicKey(prog.account)
          BY <1>2, <2>1, <2>3 DEF Says, Holding
        <4> QED
          BY <4>1 DEF Nothing_held
      <3> HIDE DEF got
      <3> QED
        BY <1>1, <3>1, <3>2, GoOnKeeps
    <2>4. CASE step = "address" /\ prog.sub # "get address"
      <3> DEFINE got == [held EXCEPT !.address = reply.data]
      <3>1. GoOn("state", got)
        BY <1>4, <2>4 DEF Answer
      <3>2. Sends(prog) => got = GotBoth(prog)
        <4>1. Sends(prog) => /\ held = [key |-> PublicKey(prog.account), address |-> None]
                             /\ reply.data = Own(prog)
          BY <1>2, <2>1, <2>4 DEF Says, Holding
        <4> QED
          BY <4>1 DEF GotBoth
      <3> HIDE DEF got
      <3> QED
        BY <1>1, <3>1, <3>2, GoOnKeeps
    <2>5. CASE /\ step \in {"key", "address"}
               /\ prog.sub = IF step = "key" THEN "get pubkey" ELSE "get address"
      BY <1>4, <2>2, <2>5 DEF Answer
    <2>6. CASE step = "more"
      <3>1. GoOn("rest", held)
        BY <1>4, <2>6 DEF Answer
      <3>2. Sends(prog) /\ held = GotBoth(prog) /\ Halfway(prog)
        BY <1>2, <2>1, <2>6 DEF Says, Holding
      <3> QED
        BY <1>1, <3>1, <3>2, GoOnKeeps
    <2>7. CASE step = "signature"
      <3> DEFINE sent == SentOut(reply.data)
      <3>1. End(sent)
        BY <1>4, <2>7 DEF Answer
      <3>2. /\ held = GotBoth(prog) /\ reply.data = SignatureWanted(prog)
            /\ HeaderOf(prog) \in HeadersRead
        BY <1>2, <2>1, <2>7 DEF Says, Holding
      <3>3. sent.prog = prog /\ sent.held = held /\ sent.signature = reply.data
        BY DEF SentOut
      <3> HIDE DEF sent
      <3> QED
        BY <1>1, <3>1, <3>2, <3>3, EndKeeps
    <2> QED
      BY <1>4, <2>3, <2>4, <2>5, <2>6, <2>7 DEF Answer
  <1> QED
    BY <1>3, <1>4

LEMMA StateKeeps ==
  ASSUME ClientInv, get_contract_state
  PROVE  ClientInv'
  <1>1. /\ prog \in Programs /\ prog # None /\ step = "state" /\ UNCHANGED vars
    BY DEF get_contract_state, ClientInv
  <1>2. apdu = None
    BY <1>1 DEF ClientInv, CommandAsked
  <1>3. CASE End(Printed(held.address))
    <2>1. Printed(held.address).what = "printed"
      BY DEF Printed
    <2> QED
      BY <1>1, <1>2, <1>3, <2>1, EndKeeps
  <1>4. CASE End(Failed)
    <2>1. Failed.what = "failed"
      BY DEF Failed
    <2> QED
      BY <1>1, <1>2, <1>4, <2>1, EndKeeps
  <1>5. CASE /\ GoOn("sign", held)
             /\ \E state \in {"none", "uninit", "active"} : Signs(prog, state)
    <2>1. Sends(prog)
      BY <1>5 DEF Signs
    <2>2. held = GotBoth(prog)
      BY <1>1, <2>1 DEF ClientInv, RunHolds, Holding
    <2> QED
      BY <1>1, <1>2, <1>5, <2>1, <2>2, GoOnKeeps
  <1> QED
    BY <1>3, <1>4, <1>5 DEF get_contract_state

LEMMA FailureKeeps ==
  ASSUME ClientInv, Closed \/ Interrupt
  PROVE  ClientInv'
  <1>1. End(Failed) /\ UNCHANGED vars /\ Failed.what = "failed"
    BY DEF Closed, Interrupt, Failed
  <1>2. apdu = None
    BY DEF Closed, Interrupt, ClientInv, CommandAsked
  <1> QED
    BY <1>1, <1>2, EndKeeps

-----------------------------------------------------------------------------
(***************************************************************************)
(* To the application, a run is a host, whatever the messages are: it only *)
(* asks for a signature when it is to send one.                            *)
(***************************************************************************)
AsksInTurn ==
  /\ prog \in Programs \cup {None}
  /\ prog # None /\ step \notin {"key", "address", "state"} => Sends(prog)

LEMMA InitAsks == ClientInit => AsksInTurn
  BY DEF ClientInit, AsksInTurn

LEMMA NextAsks == AsksInTurn /\ [ClientNext]_allvars => AsksInTurn'
  <1> SUFFICES ASSUME AsksInTurn, [ClientNext]_allvars PROVE AsksInTurn'
    OBVIOUS
  <1> USE DEF AsksInTurn
  <1>1. CASE UNCHANGED client
    BY <1>1 DEF client, Sends
  <1>2. CASE \E p \in Programs : Start(p)
    BY <1>2 DEF Start, FirstCall
  <1>3. ASSUME NEW what, End(what) PROVE AsksInTurn'
    BY <1>3 DEF End
  <1>4. CASE Call
    BY <1>4 DEF Call, Send, Sends
  <1>5. CASE Answer
    BY <1>3, <1>5 DEF Answer, GoOn, Sends
  <1>6. CASE get_contract_state
    BY <1>3, <1>6 DEF get_contract_state, GoOn, Signs, Sends
  <1>7. CASE Closed \/ Interrupt
    BY <1>3, <1>7 DEF Closed, Interrupt
  <1> QED
    BY <1>1, <1>2, <1>4, <1>5, <1>6, <1>7
       DEF ClientNext, ClientStep, DeviceStep, allvars, client

LEMMA CallSends ==
  ASSUME AsksInTurn, Call
  PROVE  \E c \in Commands : Receive(c)
  <1>1. prog \in Programs
    BY DEF AsksInTurn, Call
  <1>2. step \in {"sign", "rest"} => Sends(prog)
    BY <1>1, RunCommands DEF AsksInTurn
  <1>3. ASSUME NEW c \in Commands, NEW call, Send(c, call) PROVE Receive(c)
    BY <1>3 DEF Send
  <1> QED
    BY <1>1, <1>2, <1>3, RunCommands DEF Call

LEMMA ClientAsHost == AsksInTurn /\ [ClientNext]_allvars => [Next]_vars
  <1> SUFFICES ASSUME AsksInTurn, ClientNext PROVE [Next]_vars
    BY DEF allvars
  <1>1. CASE Call
    BY <1>1, CallSends DEF Next
  <1>2. CASE DeviceStep
    BY <1>2 DEF DeviceStep, Next
  <1>3. CASE UNCHANGED vars
    BY <1>3
  <1> QED
    BY <1>1, <1>2, <1>3
       DEF ClientNext, ClientStep, Start, Answer, get_contract_state, Closed, Interrupt

\* The client and its application are the application with some host, so that
\* every theorem of Spec is one about them.
THEOREM ClientIsHost == ClientSpec => Spec
  <1>1. ClientSpec => ClientInit /\ [][ClientNext]_allvars
    BY PTL DEF ClientSpec
  <1>2. ClientInit => Init
    BY DEF ClientInit
  <1> QED
    BY <1>1, <1>2, InitAsks, NextAsks, ClientAsHost, PTL DEF Spec

-----------------------------------------------------------------------------
LEMMA InitClient == ClientInit => ClientInv
  BY DEF ClientInit, Init, ClientInv, CommandAsked, AnswerGot, RunHolds, ResultRight

LEMMA NextClient ==
  MessagesAreWhole =>
    (ClientInv /\ SessionInv /\ [ClientNext]_allvars => ClientInv')
  <1> SUFFICES ASSUME MessagesAreWhole, ClientInv, SessionInv, [ClientNext]_allvars
               PROVE  ClientInv'
    OBVIOUS
  <1>1. CASE \E p \in Programs : Start(p)
    BY <1>1, StartKeeps
  <1>2. CASE Call
    BY <1>2, CallKeeps
  <1>3. CASE Answer
    BY <1>3, AnswerKeeps
  <1>4. CASE get_contract_state
    BY <1>4, StateKeeps
  <1>5. CASE Closed \/ Interrupt
    BY <1>5, FailureKeeps
  <1>6. CASE DeviceStep
    BY <1>6, DeviceKeeps
  <1>7. CASE UNCHANGED allvars
    BY <1>7 DEF allvars, client, vars, ClientInv, CommandAsked, AnswerGot, RunHolds,
                ResultRight, Sends, AtDevice, Says, Holding, GotBoth, Clean, Halfway,
                WholeSession, SignatureWanted, Own, OwnAddress, HeadersRead
  <1> QED
    BY <1>1, <1>2, <1>3, <1>4, <1>5, <1>6, <1>7 DEF ClientNext, ClientStep

LEMMA ResultSigned ==
  ASSUME ResultRight
  PROVE  SentIsSigned
  <1> SUFFICES ASSUME result # None, result.what = "sent", NEW p, p = result.prog
               PROVE  LET own == WantedAddress(p.account, p.wallet)
                      IN  /\ result.held = [key |-> PublicKey(p.account), address |-> own]
                          /\ result.signature = Signature(p.account,
                               WantedBytes(MessageCells(p.request), HeaderOf(p), own))
    BY DEF SentIsSigned
  <1>1. Own(p) = WantedAddress(p.account, p.wallet)
    BY HeaderFacts, AddressesAlwaysRight DEF ResultRight, AddressesAreRight, Own
  <1> QED
    BY <1>1 DEF ResultRight, GotBoth, SignatureWanted

\* What a run sends is made for its own key and address and carries its own
\* signature, in every behaviour of every set of runs, if no part of a message
\* is taken for a message (client/src/main.rs:536-760, helper/send_response.c).
THEOREM SentAlwaysSigned == MessagesAreWhole => (ClientSpec => []SentIsSigned)
  <1> SUFFICES ASSUME MessagesAreWhole PROVE ClientSpec => []SentIsSigned
    OBVIOUS
  <1>1. ClientInv /\ SessionInv /\ [ClientNext]_allvars => ClientInv'
    BY NextClient
  <1>2. ClientInv => SentIsSigned
    BY ResultSigned DEF ClientInv
  <1>3. ClientSpec => ClientInit /\ [][ClientNext]_allvars
    BY PTL DEF ClientSpec
  <1> QED
    BY <1>1, <1>2, <1>3, InitClient, ClientIsHost, SessionAlways, PTL
=============================================================================
