------------------------------ MODULE Display ------------------------------
(***************************************************************************)
(* What the screens of a review owe to the user and to the application,    *)
(* for either build: DisplayBagl (ui/display_bagl.c, devices with two      *)
(* buttons) and DisplayNbgl (ui/display_nbgl.c, touch screens).            *)
(*                                                                         *)
(* A page shows a title and a text.  The text of most pages is an array in *)
(* data_context, so what it says depends on when it is looked at.          *)
(***************************************************************************)
EXTENDS EverscaleApp

VARIABLE seen    \* ghost: what the pages of this review have said so far

Page(title, text) == [title |-> title, text |-> text]

Says(page, context) ==
  <<page.title,
    IF page.text \in Fields THEN context[page.text] ELSE page.text>>

(***************************************************************************)
(* What the user must have read before an approval.                        *)
(***************************************************************************)
TransactionPages ==
  CASE flow = "transfer" -> {Page("Action", "Transfer"), Page("Amount", "tx_amount_str"),
                             Page("To", "tx_address_str")}
    [] flow = "deploy"   -> {Page("Action", "Deploy"), Page("To", "tx_address_str")}
    [] flow = "confirm"  -> {Page("Action", "Confirm"),
                             Page("Transaction id", "tx_transaction_id_str")}
    [] flow = "burn"     -> {Page("Action", "Burn"), Page("Amount", "tx_amount_str")}

UnderReview == app = "running" /\ ui \in Reviews

Approved ==
  /\ ui \in Reviews /\ ui' = "menu" /\ app' = "running"
  /\ reply'.sw = SUCCESS

(***************************************************************************)
(* AnswerWasShown: what leaves the device on an approval is what the user  *)
(* has read on the pages of this review: the key, the address or the       *)
(* message in the answer is the one that was shown, and for a transaction  *)
(* every page of its flow was shown with the strings the context holds at  *)
(* the decision (display_bagl.c:29-210, display_nbgl.c:52-173).            *)
(***************************************************************************)
AnswerWasShown ==
  [][Approved =>
       CASE ui = "pubkey"  -> <<"Public key", <<"hex", reply'.data>>>> \in seen
         [] ui = "address" -> <<"Address", <<"hex", reply'.data>>>> \in seen
         [] ui = "message" -> <<"Message", <<"hex", reply'.data[3]>>>> \in seen
         [] ui = "transaction" ->
              {Says(p, dc) : p \in TransactionPages} \subseteq seen]_<<vars, seen>>

(***************************************************************************)
(* IsApplication: with its screens the application still takes the steps   *)
(* of EverscaleApp only: the button or the gesture that decides a review   *)
(* runs the callback of this review, answers once, and the review is over. *)
(***************************************************************************)
IsApplication == Spec
=============================================================================
