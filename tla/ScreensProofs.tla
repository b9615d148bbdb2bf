--------------------------- MODULE ScreensProofs ---------------------------
(***************************************************************************)
(* The screens of both builds, whatever the commands are and in whatever   *)
(* order the user presses or swipes: the buttons and the list of a review  *)
(* belong to that review, the application under them takes its own steps   *)
(* only, and nothing leaves the device that was not on its pages.          *)
(***************************************************************************)
EXTENDS Screens, EverscaleAppProofs, SequenceTheorems

-----------------------------------------------------------------------------
(***************************************************************************)
(* The pages of a review, in their order.                                  *)
(***************************************************************************)
LEMMA PageTitle == \A title, text : Page(title, text).title = title
  BY DEF Page

RequestPages(review, kind) ==
  CASE review = "pubkey"  -> <<Page("Public key", "pk_public_key_str")>>
    [] review = "address" -> <<Page("Address", "addr_address_str")>>
    [] review = "message" -> <<Page("Message", "sign_to_sign_str")>>
    [] OTHER ->
         CASE kind = "burn"    -> <<Page("Action", "Burn"), Page("Amount", "tx_amount_str")>>
           [] kind = "deploy"  -> <<Page("Action", "Deploy"), Page("To", "tx_address_str")>>
           [] kind = "confirm" -> <<Page("Action", "Confirm"),
                                    Page("Transaction id", "tx_transaction_id_str")>>
           [] OTHER -> <<Page("Action", "Transfer"), Page("Amount", "tx_amount_str"),
                         Page("To", "tx_address_str")>>

\* The single page of a review of a key, an address or a message.
LEMMA SinglePages ==
  ASSUME NEW kind
  PROVE  /\ RequestPages("pubkey", kind) = <<Page("Public key", "pk_public_key_str")>>
         /\ RequestPages("address", kind) = <<Page("Address", "addr_address_str")>>
         /\ RequestPages("message", kind) = <<Page("Message", "sign_to_sign_str")>>
  BY Zenon DEF RequestPages

\* The pages of a transaction are those that must be read.
LEMMA TransactionPagesListed ==
  ASSUME flow \in Flows
  PROVE  LET pages == RequestPages("transaction", flow)
         IN  {pages[i] : i \in 1 .. Len(pages)} = TransactionPages
  <1> DEFINE Listed(pages) == {pages[i] : i \in 1 .. Len(pages)}
  <1>1. \A p, q : Listed(<<p, q>>) = {p, q}
    <2> TAKE p, q
    <2>1. <<p, q>>[1] = p /\ <<p, q>>[2] = q /\ 1 .. Len(<<p, q>>) = {1, 2}
      OBVIOUS
    <2> QED
      BY <2>1
  <1>2. \A p, q, r : Listed(<<p, q, r>>) = {p, q, r}
    <2> TAKE p, q, r
    <2>1. /\ <<p, q, r>>[1] = p /\ <<p, q, r>>[2] = q /\ <<p, q, r>>[3] = r
          /\ 1 .. Len(<<p, q, r>>) = {1, 2, 3}
      OBVIOUS
    <2> QED
      BY <2>1
  <1> HIDE DEF Listed
  <1>3. SUFFICES Listed(RequestPages("transaction", flow)) = TransactionPages
    BY DEF Listed
  <1>4. CASE flow = "transfer"
    <2>1. RequestPages("transaction", flow) =
            <<Page("Action", "Transfer"), Page("Amount", "tx_amount_str"),
              Page("To", "tx_address_str")>>
      BY <1>4, Zenon DEF RequestPages
    <2>2. TransactionPages =
            {Page("Action", "Transfer"), Page("Amount", "tx_amount_str"),
             Page("To", "tx_address_str")}
      BY <1>4, Zenon DEF TransactionPages
    <2> QED
      BY <1>2, <2>1, <2>2, Zenon
  <1>5. CASE flow = "deploy"
    <2>1. RequestPages("transaction", flow) =
            <<Page("Action", "Deploy"), Page("To", "tx_address_str")>>
      BY <1>5, Zenon DEF RequestPages
    <2>2. TransactionPages =
            {Page("Action", "Deploy"), Page("To", "tx_address_str")}
      BY <1>5, Zenon DEF TransactionPages
    <2> QED
      BY <1>1, <2>1, <2>2, Zenon
  <1>6. CASE flow = "confirm"
    <2>1. RequestPages("transaction", flow) =
            <<Page("Action", "Confirm"), Page("Transaction id", "tx_transaction_id_str")>>
      BY <1>6, Zenon DEF RequestPages
    <2>2. TransactionPages =
            {Page("Action", "Confirm"), Page("Transaction id", "tx_transaction_id_str")}
      BY <1>6, Zenon DEF TransactionPages
    <2> QED
      BY <1>1, <2>1, <2>2, Zenon
  <1>7. CASE flow = "burn"
    <2>1. RequestPages("transaction", flow) =
            <<Page("Action", "Burn"), Page("Amount", "tx_amount_str")>>
      BY <1>7, Zenon DEF RequestPages
    <2>2. TransactionPages =
            {Page("Action", "Burn"), Page("Amount", "tx_amount_str")}
      BY <1>7, Zenon DEF TransactionPages
    <2> QED
      BY <1>1, <2>1, <2>2, Zenon
  <1> QED
    BY <1>4, <1>5, <1>6, <1>7 DEF Flows

\* A page of a field says what the context holds.
LEMMA SaysField ==
  \A title : \A field \in Fields : Says(Page(title, field), dc) = <<title, dc[field]>>
  BY DEF Says, Page

-----------------------------------------------------------------------------
(***************************************************************************)
(* Opening and deciding.                                                   *)
(***************************************************************************)
\* A handler starts at the menu and leaves it for a review or not at all.
LEMMA HandleOpens ==
  ASSUME SigningInv, Handle
  PROVE  /\ app = "running" /\ ui = "menu"
         /\ ui' # "menu" => /\ ui' \in Reviews
                            /\ ui' = "transaction" => flow' \in Flows
  <1>1. app = "running" /\ ui = "menu"
    BY DEF Handle, Refuse, handleGetAppConfiguration, handleSign, handleGetPublicKey,
           handleGetAddress, handleSignTransaction, Dispatched, Fresh
  <1>2. CASE Refuse \/ handleGetAppConfiguration \/ handleSign
    BY <1>1, <1>2 DEF Refuse, handleGetAppConfiguration, handleSign, Throw, Reviews
  <1>3. CASE \E derived \in BOOLEAN : handleGetPublicKey(derived)
    BY <1>1, <1>3 DEF handleGetPublicKey, Reviews
  <1>4. CASE \E derived \in BOOLEAN : handleGetAddress(derived)
    <2>1. PICK found : AddressFound(found, KeyLeft(dc, found, apdu.account))
      BY <1>4 DEF handleGetAddress
    <2> QED
      BY <1>1, <2>1 DEF AddressFound, Throw, Reviews
  <1>5. CASE \E derived \in BOOLEAN : handleSignTransaction(derived)
    <2>1. PICK st : AfterChunk(st)
      BY <1>5 DEF handleSignTransaction
    <2>2. ui' = ui \/ \E r : ui' = "transaction" /\ flow' = r.flow /\ ReviewError(r) = SUCCESS
      BY <2>1, Zenon DEF AfterChunk, ShowTransaction, Throw
    <2> QED
      BY <1>1, <2>2 DEF ReviewError, Reviews, SUCCESS
  <1> QED
    BY <1>2, <1>3, <1>4, <1>5 DEF Handle

(***************************************************************************)
(* The callback of the review that the application waits for.              *)
(***************************************************************************)
Callback(choice) ==
  /\ ui = "pubkey"  => validate_pubkey(choice)
  /\ ui = "address" => validate_address(choice)
  /\ ui = "message" => \E signed \in BOOLEAN : validate_message(choice, signed)
  /\ ui = "transaction" => \E signed \in BOOLEAN : validate_transaction(choice, signed)

LEMMA CallbackDecides ==
  ASSUME app = "running", ui \in Reviews, ui' = "menu", UNCHANGED <<app, flow>>,
         NEW choice \in BOOLEAN, Callback(choice)
  PROVE  UserDecides
  <1>1. \A review : review = ui => Decide(review)
    BY DEF Decide
  <1> QED
    BY <1>1 DEF Callback, UserDecides, Reviews

LEMMA RejectionIsNoApproval ==
  ASSUME ui \in Reviews, Callback(FALSE)
  PROVE  reply'.sw # SUCCESS
  <1>1. io_send_sw("ERR_USER_REJECTED")
    BY DEF Callback, Reviews, validate_pubkey, validate_address, validate_message,
           validate_transaction, Reject
  <1> QED
    BY <1>1 DEF io_send_sw, Reply, SUCCESS

-----------------------------------------------------------------------------
(***************************************************************************)
(* What an approval sends was on the pages.                                *)
(***************************************************************************)
PagesRead ==
  Approved =>
    CASE ui = "pubkey"  -> <<"Public key", <<"hex", reply'.data>>>> \in seen
      [] ui = "address" -> <<"Address", <<"hex", reply'.data>>>> \in seen
      [] ui = "message" -> <<"Message", <<"hex", reply'.data[3]>>>> \in seen
      [] ui = "transaction" ->
           {Says(p, dc) : p \in TransactionPages} \subseteq seen

LEMMA ApprovalWasShown ==
  ASSUME SigningInv, app = "running", Approved, Callback(TRUE),
         ui = "transaction" => flow \in Flows,
         LET pages == RequestPages(ui, flow)
         IN  \A i \in 1 .. Len(pages) : Says(pages[i], dc) \in seen
  PROVE  PagesRead
  <1>1. app = "running" /\ ui \in Reviews /\ reply'.sw = SUCCESS
    BY DEF Approved
  <1>2. \A i \in 1 .. Len(RequestPages(ui, flow)) : Says(RequestPages(ui, flow)[i], dc) \in seen
    OBVIOUS
  <1>3. \A p : Len(<<p>>) = 1 /\ <<p>>[1] = p
    OBVIOUS
  <1>4. ASSUME NEW p, RequestPages(ui, flow) = <<p>> PROVE Says(p, dc) \in seen
    BY <1>2, <1>3, <1>4
  <1>5. /\ ui = "pubkey"  => validate_pubkey(TRUE)
        /\ ui = "address" => validate_address(TRUE)
        /\ ui = "message" => \E signed \in BOOLEAN : validate_message(TRUE, signed)
    BY DEF Callback
  <1>6. CASE ui = "pubkey"
    <2>1. reply'.data = dc.pk_public_key
      BY <1>5, <1>6 DEF validate_pubkey, helper_send_response, Reply
    <2>2. dc.pk_public_key_str = <<"hex", dc.pk_public_key>>
      BY <1>1, <1>6 DEF SigningInv, ReviewIsCommand
    <2>3. Says(Page("Public key", "pk_public_key_str"), dc) \in seen
      BY <1>4, <1>6, SinglePages
    <2>4. "pk_public_key_str" \in Fields
      BY FieldNames
    <2>5. Says(Page("Public key", "pk_public_key_str"), dc) = <<"Public key", dc.pk_public_key_str>>
      BY <2>4, SaysField, Zenon
    <2>6. <<"Public key", <<"hex", reply'.data>>>> \in seen
      BY <2>1, <2>2, <2>3, <2>5, Zenon
    <2> QED
      BY <1>6, <2>6, Zenon DEF PagesRead
  <1>7. CASE ui = "address"
    <2>1. reply'.data = dc.addr_address
      BY <1>5, <1>7 DEF validate_address, helper_send_response, Reply
    <2>2. dc.addr_address_str = <<"hex", dc.addr_address>>
      BY <1>1, <1>7 DEF SigningInv, ReviewIsCommand
    <2>3. Says(Page("Address", "addr_address_str"), dc) \in seen
      BY <1>4, <1>7, SinglePages
    <2>4. "addr_address_str" \in Fields
      BY FieldNames
    <2>5. Says(Page("Address", "addr_address_str"), dc) = <<"Address", dc.addr_address_str>>
      BY <2>4, SaysField, Zenon
    <2>6. <<"Address", <<"hex", reply'.data>>>> \in seen
      BY <2>1, <2>2, <2>3, <2>5, Zenon
    <2> QED
      BY <1>7, <2>6, Zenon DEF PagesRead
  <1>8. CASE ui = "message"
    <2>1. reply'.data = Signature(dc.sign_account_number, dc.sign_to_sign)
      BY <1>1, <1>5, <1>8 DEF validate_message, io_send_sw, Reply, SUCCESS
    <2>2. dc.sign_to_sign_str = <<"hex", dc.sign_to_sign>>
      BY <1>1, <1>8 DEF SigningInv, ReviewIsCommand
    <2>3. Says(Page("Message", "sign_to_sign_str"), dc) \in seen
      BY <1>4, <1>8, SinglePages
    <2>4. reply'.data[3] = dc.sign_to_sign
      BY <2>1 DEF Signature
    <2>5. "sign_to_sign_str" \in Fields
      BY FieldNames
    <2>6. Says(Page("Message", "sign_to_sign_str"), dc) = <<"Message", dc.sign_to_sign_str>>
      BY <2>5, SaysField, Zenon
    <2>7. <<"Message", <<"hex", reply'.data[3]>>>> \in seen
      BY <2>2, <2>3, <2>4, <2>6, Zenon
    <2> QED
      BY <1>8, <2>7, Zenon DEF PagesRead
  <1>9. CASE ui = "transaction"
    <2>1. flow \in Flows
      BY <1>9
    <2>2. \A p \in TransactionPages : Says(p, dc) \in seen
      BY <1>2, <1>9, <2>1, TransactionPagesListed
    <2>3. {Says(p, dc) : p \in TransactionPages} \subseteq seen
      BY <2>2
    <2> QED
      BY <1>9, <2>3, Zenon DEF PagesRead
  <1> QED
    BY <1>1, <1>6, <1>7, <1>8, <1>9 DEF Reviews

-----------------------------------------------------------------------------
(***************************************************************************)
(* Two buttons.                                                            *)
(***************************************************************************)
-----------------------------------------------------------------------------
(***************************************************************************)
(* The flows.                                                              *)
(***************************************************************************)
Intro   == Page("intro", "Review")
Approve == ux_display_approve_step
Refusal == ux_display_reject_step

Texts ==
  { Intro, Approve, Refusal,
    Page("Public key", "pk_public_key_str"), Page("Address", "addr_address_str"),
    Page("Message", "sign_to_sign_str"), Page("Action", "Burn"), Page("Action", "Deploy"),
    Page("Action", "Confirm"), Page("Action", "Transfer"),
    Page("Transaction id", "tx_transaction_id_str"),
    Page("Amount", "tx_amount_str"), Page("To", "tx_address_str") }

(***************************************************************************)
(* A flow is the intro, its pages, and the two decisions.                  *)
(***************************************************************************)
IsFlowOf(s, pages) ==
  /\ Len(s) = Len(pages) + 3
  /\ s[1] = Intro
  /\ \A i \in 1 .. Len(pages) : s[i + 1] = pages[i]
  /\ s[Len(s) - 1] = Approve
  /\ s[Len(s)] = Refusal

LEMMA FlowOfPages ==
  ASSUME NEW pages \in Seq(Texts)
  PROVE  IsFlowOf(UX_FLOW(pages), pages)
  <1> DEFINE first == <<Intro>>
             last  == <<Approve, Refusal>>
  <1>1. Intro \in Texts /\ Approve \in Texts /\ Refusal \in Texts
    BY DEF Texts
  <1>2. first \in Seq(Texts) /\ Len(first) = 1 /\ first[1] = Intro
    BY <1>1
  <1>3. last \in Seq(Texts) /\ Len(last) = 2 /\ last[1] = Approve /\ last[2] = Refusal
    BY <1>1
  <1>4. UX_FLOW(pages) = (first \o pages) \o last
    BY DEF UX_FLOW, Intro, Approve, Refusal
  <1> HIDE DEF first, last
  <1>5. Len(pages) \in Nat
    OBVIOUS
  <1> DEFINE front == first \o pages
  <1>6. first \in Seq(Texts) /\ last \in Seq(Texts)
    BY <1>2, <1>3
  <1>7. /\ front \in Seq(Texts)
        /\ Len(front) = Len(first) + Len(pages)
        /\ \A i \in 1 .. Len(first) + Len(pages) :
             front[i] = IF i <= Len(first) THEN first[i] ELSE pages[i - Len(first)]
    BY <1>6, ConcatProperties, Zenon
  <1> HIDE DEF front
  <1>8. front \in Seq(Texts)
    BY <1>7
  <1>9. /\ Len(front \o last) = Len(front) + Len(last)
        /\ \A i \in 1 .. Len(front) + Len(last) :
             (front \o last)[i] = IF i <= Len(front) THEN front[i]
                                 ELSE last[i - Len(front)]
    BY <1>6, <1>8, ConcatProperties, Zenon
  <1> DEFINE whole == front \o last
  <1>10. UX_FLOW(pages) = whole
    BY <1>4 DEF front, whole
  <1> HIDE DEF whole
  <1> QED
    <2>1. Len(whole) = Len(pages) + 3
      BY <1>2, <1>3, <1>5, <1>7, <1>9 DEF whole
    <2>2. \A i \in 1 .. Len(pages) + 3 :
            whole[i] = IF i = 1 THEN Intro
                       ELSE IF i <= Len(pages) + 1 THEN pages[i - 1]
                       ELSE IF i = Len(pages) + 2 THEN Approve ELSE Refusal
      <3> SUFFICES ASSUME NEW i \in 1 .. Len(pages) + 3
                   PROVE  whole[i] = IF i = 1 THEN Intro
                                     ELSE IF i <= Len(pages) + 1 THEN pages[i - 1]
                                     ELSE IF i = Len(pages) + 2 THEN Approve ELSE Refusal
        OBVIOUS
      <3>1. whole[i] = IF i <= Len(pages) + 1 THEN front[i] ELSE last[i - (Len(pages) + 1)]
        BY <1>2, <1>3, <1>5, <1>7, <1>9 DEF whole
      <3>2. CASE i <= Len(pages) + 1
        <4>1. front[i] = IF i <= 1 THEN first[i] ELSE pages[i - 1]
          BY <1>2, <1>5, <1>7, <3>2
        <4> QED
          BY <1>2, <3>1, <3>2, <4>1
      <3>3. CASE ~(i <= Len(pages) + 1)
        <4>1. i = Len(pages) + 2 \/ i = Len(pages) + 3
          BY <1>5, <3>3
        <4> QED
          BY <1>3, <1>5, <3>1, <3>3, <4>1
      <3> QED
        BY <3>2, <3>3
    <2> QED
      BY <1>5, <1>10, <2>1, <2>2 DEF IsFlowOf

ReviewFlow(review, kind) == UX_FLOW(RequestPages(review, kind))

\* What display_bagl.c shows for each review.
LEMMA FlowsAreReviews ==
  /\ ux_display_public_flow = ReviewFlow("pubkey", flow')
  /\ ux_display_address_flow = ReviewFlow("address", flow')
  /\ ux_sign_flow = ReviewFlow("message", flow')
  /\ \A kind \in Flows : ux_sign_transaction_flow(kind) = ReviewFlow("transaction", kind)
  <1>1. ASSUME NEW kind \in Flows
        PROVE  ux_sign_transaction_flow(kind) = ReviewFlow("transaction", kind)
    BY Zenon DEF Flows, ux_sign_transaction_flow, ux_sign_transaction_amount,
                 ux_sign_transaction_address, ReviewFlow, RequestPages
  <1> QED
    BY <1>1, Zenon DEF ux_display_public_flow, ux_display_address_flow, ux_sign_flow,
                       ReviewFlow, RequestPages

\* The pages say something of the request: none acts, none quits.
LEMMA PagesSay ==
  ASSUME NEW review, NEW kind
  PROVE  /\ RequestPages(review, kind) \in Seq(Texts)
         /\ Len(RequestPages(review, kind)) \in 1 .. 3
         /\ \A i \in 1 .. Len(RequestPages(review, kind)) :
              RequestPages(review, kind)[i].title \notin {"approve", "reject", "quit", "ready"}
  <1> DEFINE Says3(pages) ==
               /\ pages \in Seq(Texts) /\ Len(pages) \in 1 .. 3
               /\ \A i \in 1 .. Len(pages) :
                    pages[i].title \notin {"approve", "reject", "quit", "ready"}
             Say(p)       == p \in Texts /\ p.title \notin {"approve", "reject", "quit", "ready"}
  <1>1. /\ \A p : Say(p) => Says3(<<p>>)
        /\ \A p, q : Say(p) /\ Say(q) => Says3(<<p, q>>)
        /\ \A p, q, r : Say(p) /\ Say(q) /\ Say(r) => Says3(<<p, q, r>>)
    <2>1. ASSUME NEW p, Say(p) PROVE Says3(<<p>>)
      BY <2>1
    <2>2. ASSUME NEW p, NEW q, Say(p), Say(q) PROVE Says3(<<p, q>>)
      <3>1. \A i \in 1 .. 2 : <<p, q>>[i] = p \/ <<p, q>>[i] = q
        OBVIOUS
      <3> QED
        BY <2>2, <3>1
    <2>3. ASSUME NEW p, NEW q, NEW r, Say(p), Say(q), Say(r) PROVE Says3(<<p, q, r>>)
      <3>1. \A i \in 1 .. 3 : \/ <<p, q, r>>[i] = p \/ <<p, q, r>>[i] = q
                                \/ <<p, q, r>>[i] = r
        OBVIOUS
      <3> QED
        BY <2>3, <3>1
    <2> QED
      BY <2>1, <2>2, <2>3
  <1>2. /\ Say(Page("Public key", "pk_public_key_str"))
        /\ Say(Page("Address", "addr_address_str"))
        /\ Say(Page("Message", "sign_to_sign_str"))
    BY DEF Texts, Page
  <1>3. \A title \in {"Burn", "Deploy", "Confirm", "Transfer"} : Say(Page("Action", title))
    BY DEF Texts, Page
  <1>4. /\ Say(Page("Transaction id", "tx_transaction_id_str"))
        /\ Say(Page("Amount", "tx_amount_str"))
        /\ Say(Page("To", "tx_address_str"))
    BY DEF Texts, Page
  <1> HIDE DEF Says3, Say
  <1>5. Says3(RequestPages(review, kind))
    BY <1>1, <1>2, <1>3, <1>4, Zenon DEF RequestPages
  <1> QED
    BY <1>5 DEF Says3

-----------------------------------------------------------------------------
(***************************************************************************)
(* The steps that act: those of a review at its end, those of the menu     *)
(* never.                                                                  *)
(***************************************************************************)
LEMMA MenuSteps ==
  /\ Len(ux_idle_flow) = 3
  /\ \A i \in 1 .. 3 : ux_idle_flow[i] # Approve /\ ux_idle_flow[i] # Refusal
  <1>1. /\ Len(ux_idle_flow) = 3
        /\ ux_idle_flow[1] = Page("ready", "Application is ready")
        /\ ux_idle_flow[2] = Page("version", "Version")
        /\ ux_idle_flow[3] = Page("quit", "Quit")
    BY DEF ux_idle_flow
  <1>2. /\ ux_idle_flow[1].title = "ready" /\ ux_idle_flow[2].title = "version"
        /\ ux_idle_flow[3].title = "quit"
    BY <1>1, PageTitle, Zenon
  <1>3. \A i \in 1 .. 3 : ux_idle_flow[i].title \in {"ready", "version", "quit"}
    BY <1>2
  <1>4. Approve.title = "approve" /\ Refusal.title = "reject"
    BY DEF Approve, Refusal, ux_display_approve_step, ux_display_reject_step, Page
  <1> QED
    BY <1>1, <1>3, <1>4

LEMMA ReviewSteps ==
  ASSUME NEW review, NEW kind, NEW s, s = ReviewFlow(review, kind)
  PROVE  /\ IsFlowOf(s, RequestPages(review, kind))
         /\ Len(s) \in 4 .. 6
         /\ \A i \in 1 .. Len(s) : /\ s[i] = Approve => i = Len(s) - 1
                                   /\ s[i] = Refusal => i = Len(s)
                                   /\ s[i].title # "quit"
         /\ s # ux_idle_flow
  <1> DEFINE pages == RequestPages(review, kind)
  <1>1. pages \in Seq(Texts)
    BY PagesSay
  <1>2. IsFlowOf(s, pages)
    BY <1>1, FlowOfPages DEF ReviewFlow
  <1>3. /\ Len(pages) \in 1 .. 3
        /\ \A i \in 1 .. Len(pages) :
             pages[i].title \notin {"approve", "reject", "quit", "ready"}
    BY PagesSay
  <1> HIDE DEF pages
  <1>4. Len(s) \in 4 .. 6
    BY <1>2, <1>3 DEF IsFlowOf
  <1>5. /\ Approve.title = "approve" /\ Refusal.title = "reject" /\ Intro.title = "intro"
    BY DEF Approve, Refusal, Intro, ux_display_approve_step, ux_display_reject_step, Page
  <1>6. ASSUME NEW i \in 1 .. Len(s)
        PROVE  \/ i = 1 /\ s[i] = Intro
               \/ i = Len(s) - 1 /\ s[i] = Approve
               \/ i = Len(s) /\ s[i] = Refusal
               \/ i - 1 \in 1 .. Len(pages) /\ s[i] = pages[i - 1]
    BY <1>2, <1>3, <1>4 DEF IsFlowOf
  <1>7. \A i \in 1 .. Len(s) : /\ s[i] = Approve => i = Len(s) - 1
                               /\ s[i] = Refusal => i = Len(s)
                               /\ s[i].title # "quit"
    BY <1>3, <1>5, <1>6
  <1>8. s # ux_idle_flow
    BY <1>4, MenuSteps
  <1> QED
    BY <1>2, <1>4, <1>7, <1>8 DEF pages

-----------------------------------------------------------------------------
(***************************************************************************)
(* The invariant: the flow on the screen is that of what the application   *)
(* waits for.                                                              *)
(***************************************************************************)
FlowOnScreen ==
  app = "running" =>
    /\ steps = IF ui = "menu" THEN ux_idle_flow ELSE ReviewFlow(ui, flow)
    /\ ui = "transaction" => flow \in Flows

BaglInv == SigningInv /\ FlowOnScreen /\ StepsAreReview

LEMMA InitBagl == Init /\ BaglInit => BaglInv
  <1> SUFFICES ASSUME Init, BaglInit PROVE BaglInv
    OBVIOUS
  <1>1. FlowOnScreen /\ StepsAreReview
    BY MenuSteps DEF Init, BaglInit, FlowOnScreen, StepsAreReview, Reviews
  <1> QED
    BY <1>1, InitSigning DEF BaglInv

-----------------------------------------------------------------------------
(***************************************************************************)
(* The loop.                                                               *)
(***************************************************************************)
\* Where a flow opens: on its first step, which has been seen then.
LEMMA ReviewOpened ==
  ASSUME ui' \in Reviews, ui' = "transaction" => flow' \in Flows,
         g_validate_callback' = ui', ux_flow_init(ReviewFlow(ui', flow'))
  PROVE  FlowOnScreen' /\ StepsAreReview'
  <1>1. ui' # "menu"
    BY DEF Reviews
  <1>2. steps' = ReviewFlow(ui', flow') /\ at' = 1 /\ Says(steps'[1], dc') \in seen'
    BY DEF ux_flow_init
  <1>3. Len(steps') \in 4 .. 6 /\ steps' # ux_idle_flow
    <2>1. \A review, kind : LET s == ReviewFlow(review, kind)
                           IN  Len(s) \in 4 .. 6 /\ s # ux_idle_flow
      BY ReviewSteps, Zenon
    <2> QED
      BY <1>2, <2>1
  <1>4. {Says(steps'[i], dc') : i \in 1 .. at'} \subseteq seen'
    BY <1>2
  <1>5. FlowOnScreen'
    BY <1>1, <1>2 DEF FlowOnScreen
  <1> QED
    BY <1>1, <1>2, <1>3, <1>4, <1>5 DEF StepsAreReview

LEMMA AtIdle ==
  ASSUME ui' = "menu", steps' = ux_idle_flow, at' \in 1 .. 3
  PROVE  FlowOnScreen' /\ StepsAreReview'
  BY MenuSteps DEF FlowOnScreen, StepsAreReview, Reviews

LEMMA Down ==
  ASSUME app' # "running"
  PROVE  FlowOnScreen' /\ StepsAreReview'
  BY DEF FlowOnScreen, StepsAreReview

LEMMA LoopBagl ==
  ASSUME BaglInv, BaglLoop
  PROVE  FlowOnScreen' /\ StepsAreReview'
  <1>1. /\ app = "running" /\ ui = "menu"
        /\ ui' # "menu" => ui' \in Reviews /\ (ui' = "transaction" => flow' \in Flows)
    <2>1. CASE Handle
      BY <2>1, HandleOpens DEF BaglInv
    <2>2. CASE \E c \in Commands : Receive(c)
      BY <2>2 DEF Receive, BaglInv, SigningInv, AnswerOwed
    <2> QED
      BY <2>1, <2>2 DEF BaglLoop
  <1>2. steps = ux_idle_flow /\ at \in 1 .. 3
    BY <1>1, MenuSteps DEF BaglInv, FlowOnScreen, StepsAreReview
  <1>3. CASE ui' = "menu"
    <2>1. UNCHANGED baglScreen
      BY <1>3, Zenon DEF BaglLoop, ui_display_bagl
    <2> QED
      BY <1>2, <1>3, <2>1, AtIdle DEF baglScreen
  <1>4. CASE ui' # "menu"
    <2>1. /\ g_validate_callback' = ui'
          /\ ux_flow_init(ReviewFlow(ui', flow'))
      <3>1. ui_display_bagl
        BY DEF BaglLoop
      <3>2. CASE ui' = "address"
        BY <3>1, <3>2, FlowsAreReviews, Zenon DEF ui_display_bagl, ui_display_address_bagl
      <3>3. CASE ui' = "pubkey"
        BY <3>1, <3>3, FlowsAreReviews, Zenon DEF ui_display_bagl, ui_display_public_key_bagl
      <3>4. CASE ui' = "message"
        BY <3>1, <3>4, FlowsAreReviews, Zenon DEF ui_display_bagl, ui_display_sign_bagl
      <3>5. CASE ui' = "transaction"
        <4>1. ui_display_sign_transaction_bagl(flow')
          BY <3>1, <3>5, Zenon DEF ui_display_bagl
        <4>2. ux_sign_transaction_flow(flow') = ReviewFlow("transaction", flow')
          BY <1>1, <1>4, <3>5, FlowsAreReviews
        <4> QED
          BY <3>5, <4>1, <4>2, Zenon DEF ui_display_sign_transaction_bagl
      <3> QED
        BY <1>1, <1>4, <3>2, <3>3, <3>4, <3>5 DEF Reviews
    <2> QED
      BY <1>1, <1>4, <2>1, ReviewOpened
  <1> QED
    BY <1>3, <1>4

-----------------------------------------------------------------------------
(***************************************************************************)
(* The buttons.                                                            *)
(***************************************************************************)
Turned == \E i \in 1 .. Len(steps) :
  /\ Turn(i)
  /\ ui \in Reviews => i \in {at - 1, at + 1}

LEMMA ButtonsTurn ==
  ASSUME BaglInv, Left \/ Right
  PROVE  Turned
  <1>1. app = "running"
    BY DEF Left, Right, Turn
  <1>2. at \in 1 .. Len(steps) /\ (ui = "menu") = (steps = ux_idle_flow)
    BY <1>1 DEF BaglInv, StepsAreReview
  <1>3. Len(steps) \in Nat
    BY <1>1, MenuSteps, ReviewSteps DEF BaglInv, FlowOnScreen
  <1>4. Looping => ui \notin Reviews
    BY <1>2 DEF Looping, Reviews
  <1> QED
    BY <1>2, <1>3, <1>4 DEF Left, Right, Turned

LEMMA TurnBagl ==
  ASSUME BaglInv, Turned
  PROVE  FlowOnScreen' /\ StepsAreReview'
  <1>1. PICK i \in 1 .. Len(steps) : Turn(i) /\ (ui \in Reviews => i \in {at - 1, at + 1})
    BY DEF Turned
  <1>2. /\ app = "running" /\ at' = i /\ seen' = seen \cup {Says(steps[i], dc)}
        /\ app' = app /\ ui' = ui /\ flow' = flow /\ dc' = dc
        /\ steps' = steps /\ g_validate_callback' = g_validate_callback
    BY <1>1 DEF Turn, vars
  <1>3. FlowOnScreen'
    BY <1>2 DEF BaglInv, FlowOnScreen
  <1>4. at' \in 1 .. Len(steps')
    BY <1>2
  <1>5. ASSUME ui \in Reviews
        PROVE  {Says(steps'[j], dc') : j \in 1 .. at'} \subseteq seen'
    <2>1. \A j \in 1 .. at : Says(steps[j], dc) \in seen
      BY <1>2, <1>5 DEF BaglInv, StepsAreReview
    <2>2. at \in Int /\ i \in Int
      BY <1>2 DEF BaglInv, StepsAreReview
    <2>3. \A j \in 1 .. i : j \in 1 .. at \/ j = i
      BY <1>1, <1>5, <2>2
    <2>4. \A j \in 1 .. at' : Says(steps'[j], dc') \in seen'
      BY <1>2, <2>1, <2>3
    <2> QED
      BY <2>4
  <1>6. StepsAreReview'
    BY <1>2, <1>4, <1>5 DEF BaglInv, StepsAreReview
  <1> QED
    BY <1>3, <1>6

\* Both buttons on a decision: only a review has one, and its callback runs.
LEMMA PressDecides ==
  ASSUME BaglInv, NEW choice \in BOOLEAN, Press(choice)
  PROVE  /\ UserDecides
         /\ ui \in Reviews
         /\ ui' = "menu" /\ steps' = ux_idle_flow /\ at' = 1
         /\ choice => at = Len(steps) - 1
         /\ Callback(choice)
  <1>1. /\ app = "running" /\ at \in 1 .. Len(steps)
        /\ steps[at] = IF choice THEN Approve ELSE Refusal
    BY DEF Press, BaglInv, StepsAreReview, Approve, Refusal
  <1>2. ui # "menu"
    <2>1. CASE ui = "menu"
      <3>1. steps = ux_idle_flow
        BY <1>1, <2>1 DEF BaglInv, FlowOnScreen
      <3> QED
        BY <1>1, <3>1, MenuSteps
    <2> QED
      BY <2>1
  <1>3. ui \in Reviews
    BY <1>2 DEF BaglInv, SigningInv, AppInv, TypeOK
  <1>4. g_validate_callback = ui
    BY <1>1, <1>3 DEF BaglInv, StepsAreReview
  <1>5. choice => at = Len(steps) - 1
    <2>1. steps = ReviewFlow(ui, flow)
      BY <1>1, <1>2 DEF BaglInv, FlowOnScreen
    <2>2. \A review, kind : \A i \in 1 .. Len(ReviewFlow(review, kind)) :
            ReviewFlow(review, kind)[i] = Approve => i = Len(ReviewFlow(review, kind)) - 1
      BY ReviewSteps, Zenon
    <2> QED
      BY <1>1, <2>1, <2>2
  <1>6. /\ ui_action_validate(choice)
        /\ ui' = "menu" /\ steps' = ux_idle_flow /\ at' = 1 /\ UNCHANGED <<app, flow>>
    BY DEF Press, ui_main_menu, ux_flow_init
  <1>7. Callback(choice)
    BY <1>4, <1>6, Zenon DEF ui_action_validate, Callback
  <1>8. UserDecides
    BY <1>1, <1>3, <1>6, <1>7, CallbackDecides
  <1> QED
    BY <1>3, <1>5, <1>6, <1>7, <1>8

-----------------------------------------------------------------------------
(***************************************************************************)
(* Every step of the screens is one of the application, or none of it.     *)
(***************************************************************************)
LEMMA BaglStepIsApplication == BaglInv /\ [BaglNext]_<<vars, baglScreen>> => [Next]_vars
  <1> SUFFICES ASSUME BaglInv, [BaglNext]_<<vars, baglScreen>> PROVE [Next]_vars
    OBVIOUS
  <1>1. CASE BaglLoop
    BY <1>1 DEF BaglLoop, Next
  <1>2. CASE Left \/ Right
    BY <1>2 DEF Left, Right, Turn
  <1>3. CASE \E choice \in BOOLEAN : Press(choice)
    BY <1>3, PressDecides DEF Next
  <1>4. CASE PressQuit \/ ReceiveFails \/ BaglRestart
    BY <1>4 DEF PressQuit, BaglRestart, Next
  <1>5. CASE UNCHANGED <<vars, baglScreen>>
    BY <1>5
  <1> QED
    BY <1>1, <1>2, <1>3, <1>4, <1>5 DEF BaglNext

LEMMA NextBagl == BaglInv /\ [BaglNext]_<<vars, baglScreen>> => BaglInv'
  <1> SUFFICES ASSUME BaglInv, [BaglNext]_<<vars, baglScreen>>
               PROVE  FlowOnScreen' /\ StepsAreReview'
    BY BaglStepIsApplication, NextSigning DEF BaglInv
  <1>1. CASE BaglLoop
    BY <1>1, LoopBagl
  <1>2. CASE Left \/ Right
    BY <1>2, ButtonsTurn, TurnBagl
  <1>3. CASE \E choice \in BOOLEAN : Press(choice)
    BY <1>3, PressDecides, AtIdle
  <1>4. CASE PressQuit \/ (ReceiveFails /\ UNCHANGED baglScreen)
    BY <1>4, Down DEF PressQuit, Quit, ReceiveFails, Stop
  <1>5. CASE BaglRestart
    BY <1>5, AtIdle DEF BaglRestart, app_main, ux_flow_init
  <1>6. CASE UNCHANGED <<vars, baglScreen>>
    BY <1>6 DEF vars, baglScreen, BaglInv, FlowOnScreen, StepsAreReview
  <1> QED
    BY <1>1, <1>2, <1>3, <1>4, <1>5, <1>6 DEF BaglNext

LEMMA BaglAlways == BaglSpec => []BaglInv
  BY InitBagl, NextBagl, PTL DEF BaglSpec

\* Between two events the buttons are those of the review the application waits
\* for, and whoever has come to a step has seen every step before it with the
\* text it has now (display_bagl.c:43-56, 180-213).
THEOREM StepsAlwaysReview == BaglSpec => []StepsAreReview
  BY BaglAlways, PTL DEF BaglInv

\* With the two-button screens the application takes its own steps only: the
\* static callback is always that of the review on the screen, so a decision
\* never runs another review's (display_bagl.c:23-27).
THEOREM BaglIsApplication == BaglSpec => IsApplication
  BY BaglAlways, BaglStepIsApplication, PTL DEF BaglSpec, IsApplication, Spec

-----------------------------------------------------------------------------
(***************************************************************************)
(* What an approval sends was on the pages.                                *)
(***************************************************************************)
LEMMA OnlyPressApproves ==
  ASSUME BaglInv, [BaglNext]_<<vars, baglScreen>>, Approved
  PROVE  Press(TRUE)
  <1>1. ui \in Reviews /\ ui' = "menu" /\ app' = "running" /\ reply'.sw = SUCCESS /\ ui # "menu"
    BY DEF Approved, Reviews
  <1>2. ~Handle
    BY <1>1, HandleOpens DEF BaglInv
  <1>3. ~BaglLoop
    BY <1>1, <1>2 DEF BaglLoop, Receive
  <1>4. ~(Left \/ Right)
    BY <1>1 DEF Left, Right, Turn, vars
  <1>5. ~(PressQuit \/ ReceiveFails)
    BY <1>1 DEF PressQuit, Quit, ReceiveFails, Stop
  <1>6. ~BaglRestart
    BY <1>1 DEF BaglRestart, app_main, NoReply, SUCCESS
  <1>7. ~UNCHANGED <<vars, baglScreen>>
    BY <1>1 DEF vars
  <1>8. ~Press(FALSE)
    BY <1>1, PressDecides, RejectionIsNoApproval
  <1> QED
    BY <1>3, <1>4, <1>5, <1>6, <1>7, <1>8 DEF BaglNext

\* Approve comes after the pages, and only a neighbour is turned to.
LEMMA PagesBeforeApproval ==
  ASSUME BaglInv, Press(TRUE)
  PROVE  LET pages == RequestPages(ui, flow)
         IN  \A i \in 1 .. Len(pages) : Says(pages[i], dc) \in seen
  <1> DEFINE pages == RequestPages(ui, flow)
  <1>1. app = "running" /\ ui \in Reviews /\ ui # "menu" /\ at = Len(steps) - 1
    BY PressDecides DEF Press, Reviews
  <1>2. steps = ReviewFlow(ui, flow)
    BY <1>1 DEF BaglInv, FlowOnScreen
  <1>3. IsFlowOf(steps, pages)
    <2>1. \A review, kind : IsFlowOf(ReviewFlow(review, kind), RequestPages(review, kind))
      BY ReviewSteps, Zenon
    <2> QED
      BY <1>2, <2>1
  <1>4. Len(pages) \in Nat
    <2>1. \A review, kind : Len(RequestPages(review, kind)) \in 1 .. 3
      BY PagesSay, Zenon
    <2> QED
      BY <2>1
  <1>5. \A i \in 1 .. at : Says(steps[i], dc) \in seen
    BY <1>1 DEF BaglInv, StepsAreReview
  <1> HIDE DEF pages
  <1>6. \A i \in 1 .. Len(pages) : i + 1 \in 1 .. at /\ steps[i + 1] = pages[i]
    BY <1>1, <1>3, <1>4 DEF IsFlowOf
  <1>7. \A i \in 1 .. Len(pages) : Says(pages[i], dc) \in seen
    BY <1>5, <1>6
  <1> QED
    BY <1>7 DEF pages

LEMMA PressApproves ==
  ASSUME BaglInv, [BaglNext]_<<vars, baglScreen>>
  PROVE  PagesRead
  <1> SUFFICES ASSUME Approved PROVE PagesRead
    BY DEF PagesRead
  <1>1. Press(TRUE)
    BY OnlyPressApproves
  <1>2. Callback(TRUE)
    BY <1>1, PressDecides
  <1>3. app = "running" /\ (ui = "transaction" => flow \in Flows)
    BY <1>1 DEF Press, BaglInv, FlowOnScreen
  <1> QED
    BY <1>1, <1>2, <1>3, PagesBeforeApproval, ApprovalWasShown DEF BaglInv

\* Nothing leaves the device on an approval that the user did not read: the key,
\* the address or the message was on its page, and every page of the flow of a
\* transaction was shown with the strings of this transaction, in whatever order
\* the buttons were pressed (display_bagl.c:29-210).
THEOREM PressesWereShown == BaglSpec => AnswerWasShown
  <1>1. BaglInv /\ [BaglNext]_<<vars, baglScreen>> =>
          [Approved =>
             CASE ui = "pubkey"  -> <<"Public key", <<"hex", reply'.data>>>> \in seen
               [] ui = "address" -> <<"Address", <<"hex", reply'.data>>>> \in seen
               [] ui = "message" -> <<"Message", <<"hex", reply'.data[3]>>>> \in seen
               [] ui = "transaction" ->
                    {Says(p, dc) : p \in TransactionPages} \subseteq seen]_<<vars, seen>>
    BY PressApproves, Zenon DEF PagesRead
  <1> QED
    BY <1>1, BaglAlways, PTL DEF BaglSpec, AnswerWasShown

(***************************************************************************)
(* The touch screens.                                                      *)
(***************************************************************************)
-----------------------------------------------------------------------------
(***************************************************************************)
(* The lists.                                                              *)
(***************************************************************************)
LEMMA Pair == \A p, q : <<p>> \o <<q>> = <<p, q>>
  <1> TAKE p, q
  <1> DEFINE S == {p, q}
             s == <<p>> \o <<q>>
  <1>1. <<p>> \in Seq(S) /\ <<q>> \in Seq(S) /\ Len(<<p>>) = 1 /\ Len(<<q>>) = 1
    OBVIOUS
  <1>2. /\ s \in Seq(S) /\ Len(s) = 2
        /\ \A i \in 1 .. 2 : s[i] = IF i <= 1 THEN <<p>>[i] ELSE <<q>>[i - 1]
    BY <1>1, ConcatProperties
  <1> HIDE DEF s
  <1>3. s \in Seq(S) /\ Len(s) = 2 /\ s[1] = p /\ s[2] = q
    BY <1>2
  <1>4. s = <<p, q>>
    BY <1>3
  <1> QED
    BY <1>4 DEF s

LEMMA Triple == \A p, q, r : <<p, q>> \o <<r>> = <<p, q, r>>
  <1> TAKE p, q, r
  <1> DEFINE S == {p, q, r}
             s == <<p, q>> \o <<r>>
  <1>1. <<p, q>> \in Seq(S) /\ <<r>> \in Seq(S) /\ Len(<<p, q>>) = 2 /\ Len(<<r>>) = 1
    OBVIOUS
  <1>2. /\ s \in Seq(S) /\ Len(s) = 3
        /\ \A i \in 1 .. 3 : s[i] = IF i <= 2 THEN <<p, q>>[i] ELSE <<r>>[i - 2]
    BY <1>1, ConcatProperties
  <1> HIDE DEF s
  <1>3. s \in Seq(S) /\ Len(s) = 3 /\ s[1] = p /\ s[2] = q /\ s[3] = r
    BY <1>2
  <1>4. s = <<p, q, r>>
    BY <1>3
  <1> QED
    BY <1>4 DEF s

LEMMA NoLine == /\ \A p : <<p>> \o << >> = <<p>>
                /\ \A p, q : <<p, q>> \o << >> = <<p, q>>
                /\ \A p, q, r : <<p, q, r>> \o << >> = <<p, q, r>>
  <1>1. \A S : \A s \in Seq(S) : s \o << >> = s
    BY ConcatEmptySeq, Zenon
  <1>2. \A p : <<p>> \in Seq({p})
    OBVIOUS
  <1>3. \A p, q : <<p, q>> \in Seq({p, q})
    OBVIOUS
  <1>4. \A p, q, r : <<p, q, r>> \in Seq({p, q, r})
    OBVIOUS
  <1>5. \A p : <<p>> \o << >> = <<p>>
    BY <1>1, <1>2, SMT
  <1>6. \A p, q : <<p, q>> \o << >> = <<p, q>>
    BY <1>1, <1>3, SMT
  <1>7. \A p, q, r : <<p, q, r>> \o << >> = <<p, q, r>>
    BY <1>1, <1>4, SMT
  <1> QED
    BY <1>5, <1>6, <1>7

\* What display_nbgl.c fills in for each flow of a transaction.
LEMMA TransactionList ==
  ASSUME NEW kind \in Flows, ui_display_sign_transaction_nbgl(kind)
  PROVE  UseCase("transaction") /\ FillPairs(RequestPages("transaction", kind))
  <1> DEFINE Line(kinds, item, value) ==
               IF kind \in kinds THEN <<Page(item, value)>> ELSE << >>
             list == <<Page("Action", action(kind))>>
                       \o Line({"transfer", "burn"}, "Amount", "tx_amount_str")
                       \o Line({"transfer", "deploy"}, "To", "tx_address_str")
                       \o Line({"confirm"}, "Transaction id", "tx_transaction_id_str")
  <1>1. UseCase("transaction") /\ FillPairs(list)
    BY DEF ui_display_sign_transaction_nbgl
  <1>2. list = RequestPages("transaction", kind)
    <2>1. CASE kind = "transfer"
      <3> DEFINE a == Page("Action", "Transfer")
                 b == Page("Amount", "tx_amount_str")
                 c == Page("To", "tx_address_str")
      <3>1. list = <<a>> \o <<b>> \o <<c>> \o << >>
        BY <2>1, Zenon DEF action
      <3>2. RequestPages("transaction", kind) = <<a, b, c>>
        BY <2>1, Zenon DEF RequestPages
      <3> HIDE DEF list, a, b, c
      <3>3. <<a>> \o <<b>> = <<a, b>> /\ <<a, b>> \o <<c>> = <<a, b, c>>
        BY Pair, Triple, Zenon
      <3>4. <<a, b, c>> \o << >> = <<a, b, c>>
        BY NoLine, Zenon
      <3> QED
        BY <3>1, <3>2, <3>3, <3>4, Zenon
    <2>2. CASE kind = "deploy"
      <3>1. list = <<Page("Action", "Deploy")>> \o << >> \o <<Page("To", "tx_address_str")>>
                     \o << >>
        BY <2>2, Zenon DEF action
      <3> QED
        BY <2>2, <3>1, Pair, NoLine, Zenon DEF RequestPages
    <2>3. CASE kind = "confirm"
      <3>1. list = <<Page("Action", "Confirm")>> \o << >> \o << >>
                     \o <<Page("Transaction id", "tx_transaction_id_str")>>
        BY <2>3, Zenon DEF action
      <3> QED
        BY <2>3, <3>1, Pair, NoLine, Zenon DEF RequestPages
    <2>4. CASE kind = "burn"
      <3>1. list = <<Page("Action", "Burn")>> \o <<Page("Amount", "tx_amount_str")>>
                     \o << >> \o << >>
        BY <2>4, Zenon DEF action
      <3> QED
        BY <2>4, <3>1, Pair, NoLine, Zenon DEF RequestPages
    <2> QED
      BY <2>1, <2>2, <2>3, <2>4 DEF Flows
  <1> HIDE DEF list
  <1> QED
    BY <1>1, <1>2

LEMMA ListLengths == \A review, kind : Len(RequestPages(review, kind)) \in 1 .. MAX_PAIRS
  <1> TAKE review, kind
  <1>1. /\ \A p : Len(<<p>>) = 1
        /\ \A p, q : Len(<<p, q>>) = 2
        /\ \A p, q, r : Len(<<p, q, r>>) = 3
    OBVIOUS
  <1>2. Len(RequestPages(review, kind)) \in {1, 2, 3}
    BY <1>1, Zenon DEF RequestPages
  <1> QED
    BY <1>2 DEF MAX_PAIRS

-----------------------------------------------------------------------------
(***************************************************************************)
(* The invariant: the pages of the use case on the screen are those of the *)
(* review, and those that were turned have been read as they are now.      *)
(***************************************************************************)
PairsOnScreen ==
  app = "running" =>
    /\ ui = "menu" => screen \in {"menu", "status"}
    /\ ui = "transaction" => flow \in Flows
    /\ ui # "menu" =>
         /\ screen = ui
         /\ NbPages = Len(RequestPages(ui, flow))
         /\ \A i \in 1 .. NbPages : PageAt(i) = RequestPages(ui, flow)[i]
         /\ page \in 0 .. NbPages
         /\ \A i \in 1 .. page : Says(PageAt(i), dc) \in seen

NbglInv == SigningInv /\ PairsOnScreen

LEMMA InitNbgl == Init /\ NbglInit => NbglInv
  BY InitSigning DEF NbglInv, PairsOnScreen, Init, NbglInit

LEMMA ReviewFilled ==
  ASSUME ui' \in Reviews, ui' = "transaction" => flow' \in Flows, UseCase(ui'),
         ui' # "address" => FillPairs(RequestPages(ui', flow'))
  PROVE  PairsOnScreen'
  <1>1. ui' # "menu" /\ screen' = ui' /\ page' = 0
    BY DEF Reviews, UseCase
  <1>2. /\ NbPages' = Len(RequestPages(ui', flow'))
        /\ \A i \in 1 .. NbPages' : PageAt(i)' = RequestPages(ui', flow')[i]
    <2>1. CASE ui' = "address"
      <3>1. RequestPages(ui', flow') = <<Page("Address", "addr_address_str")>>
        BY <2>1, SinglePages
      <3>2. NbPages' = 1 /\ \A i : PageAt(i)' = Page("Address", "addr_address_str")
        BY <1>1, <2>1 DEF NbPages, PageAt
      <3> QED
        BY <3>1, <3>2
    <2>2. CASE ui' # "address"
      <3>1. NbPages' = nbPairs' /\ \A i : PageAt(i)' = pairs'[i]
        BY <1>1, <2>2 DEF NbPages, PageAt
      <3>2. nbPairs' = Len(RequestPages(ui', flow')) /\ nbPairs' \in 1 .. MAX_PAIRS
        BY <2>2, ListLengths DEF FillPairs
      <3>3. \A i \in 1 .. nbPairs' : pairs'[i] = RequestPages(ui', flow')[i]
        BY <2>2, <3>2 DEF FillPairs, MAX_PAIRS
      <3> QED
        BY <3>1, <3>2, <3>3
    <2> QED
      BY <2>1, <2>2
  <1>3. 0 \in 0 .. NbPages'
    BY <1>2, ListLengths
  <1> QED
    BY <1>1, <1>2, <1>3 DEF PairsOnScreen

-----------------------------------------------------------------------------
(***************************************************************************)
(* The loop and the gestures.                                              *)
(***************************************************************************)
LEMMA LoopNbgl ==
  ASSUME NbglInv, NbglLoop
  PROVE  PairsOnScreen'
  <1>1. /\ app = "running" /\ ui = "menu"
        /\ ui' # "menu" => ui' \in Reviews /\ (ui' = "transaction" => flow' \in Flows)
    <2>1. CASE Handle
      BY <2>1, HandleOpens DEF NbglInv
    <2>2. CASE \E c \in Commands : Receive(c)
      BY <2>2 DEF Receive, NbglInv, SigningInv, AnswerOwed
    <2> QED
      BY <2>1, <2>2 DEF NbglLoop
  <1>2. ui_display_nbgl
    BY DEF NbglLoop
  <1>3. CASE ui' = "menu"
    <2>1. UNCHANGED nbglScreen
      BY <1>2, <1>3, Zenon DEF ui_display_nbgl
    <2> QED
      BY <1>1, <1>3, <2>1 DEF NbglInv, PairsOnScreen, nbglScreen
  <1>4. CASE ui' # "menu"
    <2>1. UseCase(ui') /\ (ui' # "address" => FillPairs(RequestPages(ui', flow')))
      <3>1. CASE ui' = "address"
        BY <1>2, <3>1, Zenon DEF ui_display_nbgl, ui_display_address_nbgl
      <3>2. CASE ui' = "pubkey"
        BY <1>2, <3>2, SinglePages, Zenon DEF ui_display_nbgl, ui_display_public_key_nbgl
      <3>3. CASE ui' = "message"
        BY <1>2, <3>3, SinglePages, Zenon DEF ui_display_nbgl, ui_display_sign_nbgl
      <3>4. CASE ui' = "transaction"
        <4>1. ui_display_sign_transaction_nbgl(flow')
          BY <1>2, <3>4, Zenon DEF ui_display_nbgl
        <4>2. flow' \in Flows
          BY <1>1, <1>4, <3>4
        <4> QED
          BY <3>4, <4>1, <4>2, TransactionList
      <3> QED
        BY <1>1, <1>4, <3>1, <3>2, <3>3, <3>4 DEF Reviews
    <2> QED
      BY <1>1, <1>4, <2>1, ReviewFilled
  <1> QED
    BY <1>3, <1>4

\* The list is on the screen only while its review is.
LEMMA ReviewingUi ==
  ASSUME NbglInv, Reviewing
  PROVE  app = "running" /\ ui = screen /\ ui \in Reviews /\ ui # "menu"
  BY DEF NbglInv, SigningInv, AppInv, TypeOK, PairsOnScreen, Reviewing, Reviews

LEMMA SwipeNbgl ==
  ASSUME NbglInv, Swipe \/ SwipeBack
  PROVE  PairsOnScreen'
  <1>1. Reviewing
    BY DEF Swipe, SwipeBack
  <1>2. /\ app = "running" /\ ui = screen /\ ui # "menu"
        /\ NbPages = Len(RequestPages(ui, flow))
        /\ page \in 0 .. NbPages
        /\ \A i \in 1 .. page : Says(PageAt(i), dc) \in seen
    BY <1>1, ReviewingUi DEF NbglInv, PairsOnScreen
  <1>3. NbPages \in Nat
    BY <1>2, ListLengths DEF MAX_PAIRS
  <1>4. UNCHANGED <<vars, screen, pairs, nbPairs>> /\ UNCHANGED NbPages
        /\ \A i : PageAt(i)' = PageAt(i)
    BY DEF Swipe, SwipeBack, NbPages, PageAt
  <1>5. page' \in 0 .. NbPages /\ \A i \in 1 .. page' : Says(PageAt(i), dc) \in seen'
    <2>1. CASE Swipe
      <3>1. page' = page + 1 /\ page < NbPages /\ seen' = seen \cup {Says(PageAt(page + 1), dc)}
        BY <2>1 DEF Swipe
      <3>2. \A i \in 1 .. page' : i \in 1 .. page \/ i = page + 1
        BY <1>2, <1>3, <3>1
      <3> QED
        BY <1>2, <1>3, <3>1, <3>2
    <2>2. CASE SwipeBack
      <3>1. page' = page - 1 /\ page > 1 /\ seen' = seen
        BY <2>2 DEF SwipeBack
      <3> QED
        BY <1>2, <1>3, <3>1
    <2> QED
      BY <2>1, <2>2
  <1> QED
    BY <1>2, <1>4, <1>5 DEF vars, NbglInv, PairsOnScreen

LEMMA ChooseDecides ==
  ASSUME NbglInv, NEW choice \in BOOLEAN, Choose(choice)
  PROVE  /\ UserDecides /\ Callback(choice)
         /\ app = "running" /\ ui \in Reviews /\ ui' = "menu" /\ screen' = "status"
         /\ choice => page = NbPages
  <1>1. /\ Reviewing /\ review_choice(choice) /\ (choice => page = NbPages)
        /\ ui' = "menu" /\ screen' = "status" /\ UNCHANGED <<app, flow>>
    BY DEF Choose, ShowStatus
  <1>2. app = "running" /\ ui = screen /\ ui \in Reviews
    BY <1>1, ReviewingUi
  <1>3. Callback(choice)
    BY <1>1, <1>2, Zenon DEF review_choice, Callback
  <1>4. UserDecides
    BY <1>1, <1>2, <1>3, CallbackDecides
  <1> QED
    BY <1>1, <1>2, <1>3, <1>4

-----------------------------------------------------------------------------
LEMMA NbglStepIsApplication == NbglInv /\ [NbglNext]_<<vars, nbglScreen>> => [Next]_vars
  <1> SUFFICES ASSUME NbglInv, [NbglNext]_<<vars, nbglScreen>> PROVE [Next]_vars
    OBVIOUS
  <1>1. CASE NbglLoop
    BY <1>1 DEF NbglLoop, Next
  <1>2. CASE Swipe \/ SwipeBack \/ StatusEnds
    BY <1>2 DEF Swipe, SwipeBack, StatusEnds
  <1>3. CASE \E choice \in BOOLEAN : Choose(choice)
    BY <1>3, ChooseDecides DEF Next
  <1>4. CASE QuitTouched \/ ReceiveFails \/ NbglRestart
    BY <1>4 DEF QuitTouched, NbglRestart, Next
  <1>5. CASE UNCHANGED <<vars, nbglScreen>>
    BY <1>5 DEF nbglScreen
  <1> QED
    BY <1>1, <1>2, <1>3, <1>4, <1>5 DEF NbglNext

LEMMA NextNbgl == NbglInv /\ [NbglNext]_<<vars, nbglScreen>> => NbglInv'
  <1> SUFFICES ASSUME NbglInv, [NbglNext]_<<vars, nbglScreen>> PROVE PairsOnScreen'
    BY NbglStepIsApplication, NextSigning DEF NbglInv
  <1>1. CASE NbglLoop
    BY <1>1, LoopNbgl
  <1>2. CASE Swipe \/ SwipeBack
    BY <1>2, SwipeNbgl
  <1>3. CASE \E choice \in BOOLEAN : Choose(choice)
    BY <1>3, ChooseDecides DEF PairsOnScreen
  <1>4. CASE StatusEnds
    <2>1. ui = "menu"
      BY <1>4 DEF StatusEnds, NbglInv, PairsOnScreen, SigningInv, AppInv, TypeOK, Reviews
    <2> QED
      BY <1>4, <2>1 DEF StatusEnds, vars, NbglInv, PairsOnScreen
  <1>5. CASE QuitTouched \/ ReceiveFails
    BY <1>5 DEF QuitTouched, Quit, ReceiveFails, Stop, PairsOnScreen
  <1>6. CASE NbglRestart
    BY <1>6 DEF NbglRestart, app_main, PairsOnScreen
  <1>7. CASE UNCHANGED <<vars, nbglScreen>>
    BY <1>7 DEF nbglScreen, vars, NbglInv, PairsOnScreen, NbPages, PageAt
  <1> QED
    BY <1>1, <1>2, <1>3, <1>4, <1>5, <1>6, <1>7 DEF NbglNext

LEMMA NbglAlways == NbglSpec => []NbglInv
  BY InitNbgl, NextNbgl, PTL DEF NbglSpec

LEMMA InvPairs == NbglInv => PairsAreReview
  <1> SUFFICES ASSUME NbglInv, Reviewing, ui = "transaction"
               PROVE  {pairs[i] : i \in 1 .. nbPairs} = TransactionPages
    BY ReviewingUi DEF PairsAreReview
  <1> DEFINE list == RequestPages("transaction", flow)
  <1>1. app = "running" /\ ui # "menu"
    BY ReviewingUi
  <1>2. flow \in Flows /\ nbPairs = Len(list) /\ \A i \in 1 .. nbPairs : pairs[i] = list[i]
    BY <1>1 DEF NbglInv, PairsOnScreen, NbPages, PageAt
  <1>3. {list[i] : i \in 1 .. Len(list)} = TransactionPages
    BY <1>2, TransactionPagesListed
  <1> HIDE DEF list
  <1>4. {pairs[i] : i \in 1 .. nbPairs} = {list[i] : i \in 1 .. Len(list)}
    BY <1>2
  <1> QED
    BY <1>3, <1>4

\* The list on the screen has the pairs of the review the application waits for,
\* whatever earlier reviews have left in the static array (display_nbgl.c:9-10,
\* 89-150).
THEOREM ListAlwaysReview == NbglSpec => []PairsAreReview
  BY NbglAlways, InvPairs, PTL

\* With the touch screens too the application takes its own steps only; the
\* commands it answers under the status page open no second review behind it
\* (display_nbgl.c:17-50).
THEOREM NbglIsApplication == NbglSpec => IsApplication
  BY NbglAlways, NbglStepIsApplication, PTL DEF NbglSpec, IsApplication, Spec

-----------------------------------------------------------------------------
(***************************************************************************)
(* What an approval sends was on the pages.                                *)
(***************************************************************************)
LEMMA OnlyChooseApproves ==
  ASSUME NbglInv, [NbglNext]_<<vars, nbglScreen>>, Approved
  PROVE  Choose(TRUE)
  <1>1. ui \in Reviews /\ ui' = "menu" /\ app' = "running" /\ reply'.sw = SUCCESS /\ ui # "menu"
    BY DEF Approved, Reviews
  <1>2. ~Handle
    BY <1>1, HandleOpens DEF NbglInv
  <1>3. ~NbglLoop
    BY <1>1, <1>2 DEF NbglLoop, Receive
  <1>4. ~(Swipe \/ SwipeBack \/ StatusEnds)
    BY <1>1 DEF Swipe, SwipeBack, StatusEnds, vars
  <1>5. ~(QuitTouched \/ ReceiveFails)
    BY <1>1 DEF QuitTouched, Quit, ReceiveFails, Stop
  <1>6. ~NbglRestart
    BY <1>1 DEF NbglRestart, app_main, NoReply, SUCCESS
  <1>7. ~UNCHANGED <<vars, nbglScreen>>
    BY <1>1 DEF nbglScreen, vars
  <1>8. ~Choose(FALSE)
    BY <1>1, ChooseDecides, RejectionIsNoApproval
  <1> QED
    BY <1>3, <1>4, <1>5, <1>6, <1>7, <1>8 DEF NbglNext

LEMMA ChoiceApproves ==
  ASSUME NbglInv, [NbglNext]_<<vars, nbglScreen>>
  PROVE  PagesRead
  <1> SUFFICES ASSUME Approved PROVE PagesRead
    BY DEF PagesRead
  <1> DEFINE list == RequestPages(ui, flow)
  <1>1. Choose(TRUE)
    BY OnlyChooseApproves
  <1>2. Callback(TRUE) /\ app = "running" /\ ui # "menu" /\ page = NbPages
    BY <1>1, ChooseDecides DEF Reviews
  <1>3. /\ ui = "transaction" => flow \in Flows
        /\ NbPages = Len(list)
        /\ \A i \in 1 .. NbPages : PageAt(i) = list[i] /\ Says(PageAt(i), dc) \in seen
    BY <1>2 DEF NbglInv, PairsOnScreen
  <1>4. \A i \in 1 .. Len(list) : Says(list[i], dc) \in seen
    BY <1>3
  <1> QED
    BY <1>2, <1>3, <1>4, ApprovalWasShown DEF NbglInv

\* Nothing leaves the touch device on an approval that the user did not see, in
\* whatever order the pages were swiped (display_nbgl.c:52-173).
THEOREM ChoicesWereShown == NbglSpec => AnswerWasShown
  <1>1. NbglInv /\ [NbglNext]_<<vars, nbglScreen>> =>
          [Approved =>
             CASE ui = "pubkey"  -> <<"Public key", <<"hex", reply'.data>>>> \in seen
               [] ui = "address" -> <<"Address", <<"hex", reply'.data>>>> \in seen
               [] ui = "message" -> <<"Message", <<"hex", reply'.data[3]>>>> \in seen
               [] ui = "transaction" ->
                    {Says(p, dc) : p \in TransactionPages} \subseteq seen]_<<vars, seen>>
    BY ChoiceApproves, Zenon DEF PagesRead, nbglScreen
  <1> QED
    BY <1>1, NbglAlways, PTL DEF NbglSpec, AnswerWasShown

-----------------------------------------------------------------------------
(***************************************************************************)
(* The application with the screens of its build.  On a device with two    *)
(* buttons there never is a list.                                          *)
(***************************************************************************)
ScreensInv ==
  \/ build = "bagl" /\ BaglInv /\ screen = "menu"
  \/ build = "nbgl" /\ NbglInv

BaglStep ==
  /\ build = "bagl" /\ build' = build /\ screen' = screen
  /\ [BaglNext]_<<vars, baglScreen>>
NbglStep == build = "nbgl" /\ build' = build /\ [NbglNext]_<<vars, nbglScreen>>

LEMMA ScreensStart == ScreensInit => ScreensInv
  BY InitBagl, InitNbgl DEF ScreensInit, ScreensInv, NbglInit

LEMMA OneBuild ==
  ASSUME ScreensInv, [ScreensNext]_screens
  PROVE  (BaglStep /\ BaglInv /\ screen = "menu") \/ (NbglStep /\ NbglInv)
  <1>1. CASE ScreensNext
    BY <1>1, Zenon DEF ScreensNext, BaglOnly, NbglOnly, ScreensInv, BaglStep, NbglStep
  <1>2. CASE UNCHANGED screens
    <2>1. /\ build' = build /\ screen' = screen
          /\ UNCHANGED <<vars, baglScreen>> /\ UNCHANGED <<vars, nbglScreen>>
      BY <1>2 DEF screens, baglScreen, nbglScreen
    <2> QED
      BY <2>1, Zenon DEF ScreensInv, BaglStep, NbglStep
  <1> QED
    BY <1>1, <1>2

LEMMA ScreensKept == ScreensInv /\ [ScreensNext]_screens => ScreensInv'
  <1> SUFFICES ASSUME ScreensInv, [ScreensNext]_screens PROVE ScreensInv'
    OBVIOUS
  <1>1. CASE BaglStep /\ BaglInv /\ screen = "menu"
    BY <1>1, NextBagl DEF BaglStep, ScreensInv
  <1>2. CASE NbglStep /\ NbglInv
    BY <1>2, NextNbgl DEF NbglStep, ScreensInv
  <1> QED
    BY <1>1, <1>2, OneBuild

LEMMA ScreensAlways == ScreensSpec => []ScreensInv
  BY ScreensStart, ScreensKept, PTL DEF ScreensSpec

\* Between two events the buttons are those of the review the application waits
\* for, and whoever has come to a step has seen every step before it with the
\* text it has now (display_bagl.c:43-56, 180-213).
THEOREM ScreenAlwaysReview == ScreensSpec => []ScreenIsReview
  <1>1. ScreensInv => ScreenIsReview
    BY DEF ScreensInv, BaglInv, ScreenIsReview
  <1> QED
    BY <1>1, ScreensAlways, PTL

\* The list on the screen has the pairs of the review the application waits for,
\* whatever earlier reviews have left in the static array (display_nbgl.c:9-10,
\* 89-150).
THEOREM PairsAlwaysReview == ScreensSpec => []PairsAreReview
  <1>1. ScreensInv => PairsAreReview
    BY InvPairs DEF ScreensInv, PairsAreReview, Reviewing, Reviews
  <1> QED
    BY <1>1, ScreensAlways, PTL

\* Under the screens of either build the application takes its own steps only:
\* a decision runs the callback of its own review, and answers once.
THEOREM ScreensAreApplication == ScreensSpec => IsApplication
  <1>1. ScreensInit => Init
    BY DEF ScreensInit
  <1>2. ScreensInv /\ [ScreensNext]_screens => [Next]_vars
    BY OneBuild, BaglStepIsApplication, NbglStepIsApplication DEF BaglStep, NbglStep
  <1> QED
    BY <1>1, <1>2, ScreensAlways, PTL DEF ScreensSpec, IsApplication, Spec

\* Nothing leaves either device on an approval that the user did not read on
\* the pages of this review (display_bagl.c:29-210, display_nbgl.c:52-173).
THEOREM ApprovalsWereShown == ScreensSpec => AnswerWasShown
  <1>1. ScreensInv /\ [ScreensNext]_screens => PagesRead
    BY OneBuild, PressApproves, ChoiceApproves DEF BaglStep, NbglStep
  <1>2. ScreensInv /\ [ScreensNext]_screens =>
          [Approved =>
             CASE ui = "pubkey"  -> <<"Public key", <<"hex", reply'.data>>>> \in seen
               [] ui = "address" -> <<"Address", <<"hex", reply'.data>>>> \in seen
               [] ui = "message" -> <<"Message", <<"hex", reply'.data[3]>>>> \in seen
               [] ui = "transaction" ->
                    {Says(p, dc) : p \in TransactionPages} \subseteq seen]_<<vars, seen>>
    BY <1>1, Zenon DEF PagesRead
  <1> QED
    BY <1>2, ScreensAlways, PTL DEF ScreensSpec, AnswerWasShown
=============================================================================
