---------------------------- MODULE DisplayNbgl ----------------------------
(***************************************************************************)
(* ui/display_nbgl.c and ui/menu_nbgl.c: the screens of the devices with a *)
(* touch screen.  A review is a list of pairs (item, value) in the static  *)
(* array pairs, which the SDK's use case turns into pages, one pair a page *)
(* here, with the approval behind the last one and a rejection on each.    *)
(* The review of an address has one page and leaves pairs alone.           *)
(* After the choice a status page is shown, and then the menu; the device  *)
(* answers further commands meanwhile.                                     *)
(*                                                                         *)
(* Both builds have functions ui_display_*: here they end in _nbgl.        *)
(***************************************************************************)
EXTENDS Display, Sequences

VARIABLES
  screen,   \* "menu", "status", or the use case with its review callback
  pairs,    \* the static array: the pairs of the last review that used it
  nbPairs,  \* how many of them the last list had
  page      \* pages of the review turned so far

nbglScreen == <<screen, pairs, nbPairs, page, seen>>

MAX_PAIRS == 3     \* the most pairs a review fills in; the array has ten

-----------------------------------------------------------------------------
\* Mutant: the number of pairs is that of the last review.
FillPairsOnly(list) ==
  /\ pairs' = [i \in 1 .. MAX_PAIRS |-> IF i <= Len(list) THEN list[i] ELSE pairs[i]]
  /\ UNCHANGED nbPairs

\* pairs[pairIndex++] for each of the pairs of a list: the rest is kept.
FillPairs(list) ==
  /\ pairs' = [i \in 1 .. MAX_PAIRS |-> IF i <= Len(list) THEN list[i] ELSE pairs[i]]
  /\ nbPairs' = Len(list)

UseCase(callback) ==
  /\ screen' = callback
  /\ page' = 0
  /\ seen' = {}

\* nbgl_useCaseAddressReview takes the address itself as its only page.
ui_display_address_nbgl == UseCase("address") /\ UNCHANGED <<pairs, nbPairs>>

ui_display_public_key_nbgl ==
  /\ UseCase("pubkey")
  /\ FillPairs(<<Page("Public key", "pk_public_key_str")>>)

ui_display_sign_nbgl ==
  /\ UseCase("message")
  /\ FillPairs(<<Page("Message", "sign_to_sign_str")>>)

\* handleSignTransaction throws on other flows, see ShowTransaction.
action(kind) ==
  CASE kind = "transfer" -> "Transfer" [] kind = "deploy" -> "Deploy"
    [] kind = "confirm" -> "Confirm"   [] kind = "burn" -> "Burn"

\* Mutant: no amount line for a burn.
ui_display_sign_transaction_nbgl_no_burn(kind) ==
  LET Line(kinds, item, value) == IF kind \in kinds THEN <<Page(item, value)>> ELSE << >>
  IN  /\ UseCase("transaction")
      /\ FillPairs(<<Page("Action", action(kind))>>
                   \o Line({"transfer"}, "Amount", "tx_amount_str")
                   \o Line({"transfer", "deploy"}, "To", "tx_address_str")
                   \o Line({"confirm"}, "Transaction id", "tx_transaction_id_str"))

ui_display_sign_transaction_nbgl(kind) ==
  LET Line(kinds, item, value) == IF kind \in kinds THEN <<Page(item, value)>> ELSE << >>
  IN  /\ UseCase("transaction")
      /\ FillPairs(<<Page("Action", action(kind))>>
                   \o Line({"transfer", "burn"}, "Amount", "tx_amount_str")
                   \o Line({"transfer", "deploy"}, "To", "tx_address_str")
                   \o Line({"confirm"}, "Transaction id", "tx_transaction_id_str"))

ui_display_nbgl ==
  CASE ui' = "address" -> ui_display_address_nbgl
    [] ui' = "pubkey" -> ui_display_public_key_nbgl
    [] ui' = "message" -> ui_display_sign_nbgl
    [] ui' = "transaction" -> ui_display_sign_transaction_nbgl(flow')
    [] OTHER -> UNCHANGED nbglScreen

-----------------------------------------------------------------------------
(***************************************************************************)
(* Gestures.                                                               *)
(***************************************************************************)
Reviewing == app = "running" /\ screen \in Reviews

\* The pages of the use case on the screen.
NbPages == IF screen = "address" THEN 1 ELSE nbPairs
PageAt(i) == IF screen = "address" THEN Page("Address", "addr_address_str") ELSE pairs[i]

\* The next page; it shows the pair as the context has it now.
Swipe ==
  /\ Reviewing
  /\ page < NbPages
  /\ page' = page + 1
  /\ seen' = seen \cup {Says(PageAt(page + 1), dc)}
  /\ UNCHANGED <<vars, screen, pairs, nbPairs>>

SwipeBack ==
  /\ Reviewing
  /\ page > 1
  /\ page' = page - 1
  /\ UNCHANGED <<vars, seen, screen, pairs, nbPairs>>

\* Mutant: an address is approved by the callback of a public key.
review_choice_swapped(choice) ==
  \/ screen \in {"pubkey", "address"} /\ validate_pubkey(choice)
  \/ \E signed \in BOOLEAN :
       \/ screen = "message" /\ validate_message(choice, signed)
       \/ screen = "transaction" /\ validate_transaction(choice, signed)

review_choice(choice) ==
  \/ screen = "pubkey" /\ validate_pubkey(choice)
  \/ screen = "address" /\ validate_address(choice)
  \/ \E signed \in BOOLEAN :
       \/ screen = "message" /\ validate_message(choice, signed)
       \/ screen = "transaction" /\ validate_transaction(choice, signed)

\* nbgl_useCaseReviewStatus, with ui_main_menu when the page has been left.
ShowStatus == screen' = "status" /\ UNCHANGED <<seen, pairs, nbPairs, page>>

\* Mutant: the review stays on the screen after the choice.
ChooseAndStay(choice) ==
  /\ Reviewing
  /\ choice => page = NbPages
  /\ review_choice(choice)
  /\ UNCHANGED <<app, ui, flow, seen, screen, pairs, nbPairs, page>>

Choose(choice) ==
  /\ Reviewing
  /\ choice => page = NbPages
  /\ review_choice(choice)
  /\ ui' = "menu"
  /\ ShowStatus
  /\ UNCHANGED <<app, flow>>

\* The page goes away after a while or at a touch.
StatusEnds ==
  /\ app = "running" /\ ~Fresh
  /\ screen = "status"
  /\ screen' = "menu"
  /\ UNCHANGED <<vars, seen, pairs, nbPairs, page>>

-----------------------------------------------------------------------------
NbglInit ==
  /\ screen = "menu"
  /\ pairs = [i \in 1 .. MAX_PAIRS |-> None]
  /\ nbPairs = 0
  /\ page = 0

\* The loop of app_main; a review that opens replaces the status page.
NbglLoop == (Handle \/ \E c \in Commands : Receive(c)) /\ ui_display_nbgl

\* app_quit, from the menu.
QuitTouched ==
  screen = "menu" /\ Quit /\ UNCHANGED nbglScreen

NbglRestart ==
  /\ app_main
  /\ screen' = "menu"
  /\ pairs' = [i \in 1 .. MAX_PAIRS |-> None]
  /\ nbPairs' = 0 /\ page' = 0 /\ seen' = {}

NbglNext ==
  \/ NbglLoop
  \/ Swipe \/ SwipeBack
  \/ \E choice \in BOOLEAN : Choose(choice)
  \/ StatusEnds
  \/ QuitTouched
  \/ ReceiveFails /\ UNCHANGED nbglScreen
  \/ NbglRestart

NbglSpec ==
  /\ Init /\ NbglInit /\ seen = {}
  /\ [][NbglNext]_<<vars, nbglScreen>>

-----------------------------------------------------------------------------
(***************************************************************************)
(* PairsAreReview: the list on the screen has the pairs of the review that *)
(* the application waits for, and none that an earlier one has left in the *)
(* static array (display_nbgl.c:9-10, 89-150).                             *)
(***************************************************************************)
PairsAreReview ==
  Reviewing =>
    /\ screen = ui
    /\ ui = "transaction" =>
         {pairs[i] : i \in 1 .. nbPairs} = TransactionPages
=============================================================================
