---------------------------- MODULE DisplayBagl ----------------------------
(***************************************************************************)
(* ui/display_bagl.c and ui/menu_bagl.c: the screens of the devices with   *)
(* two buttons.  A flow is a list of steps; the left and right buttons     *)
(* turn to the neighbouring step and both buttons together act on it.      *)
(*                                                                         *)
(* The steps Approve and Reject are the same for all reviews but SIGN's:   *)
(* they call g_validate_callback, which the function that opened the       *)
(* review has set.                                                         *)
(*                                                                         *)
(* Both builds have functions ui_display_*: here they end in _bagl.        *)
(***************************************************************************)
EXTENDS Display, Sequences

VARIABLES
  g_validate_callback,  \* the review whose callback is set, None at first
  steps,                \* the flow on the screen
  at                    \* the step of it that is shown

baglScreen == <<g_validate_callback, steps, at, seen>>

-----------------------------------------------------------------------------
(***************************************************************************)
(* The flows.  A step that acts is a page that says nothing of a request.  *)
(***************************************************************************)
ux_display_approve_step == Page("approve", "Approve")
ux_display_reject_step  == Page("reject", "Reject")

\* Mutant: a flow where the decision comes before the last page.
DecideBeforeLast(pages) ==
  <<Page("intro", "Review")>> \o Front(pages)
  \o <<ux_display_approve_step, ux_display_reject_step, Last(pages)>>

\* Mutant: a flow that ends with its last page.
NoDecision(pages) == <<Page("intro", "Review")>> \o pages

UX_FLOW(pages) ==
  <<Page("intro", "Review")>> \o pages
  \o <<ux_display_approve_step, ux_display_reject_step>>

ux_display_address_flow == UX_FLOW(<<Page("Address", "addr_address_str")>>)
ux_display_public_flow  == UX_FLOW(<<Page("Public key", "pk_public_key_str")>>)
ux_sign_flow            == UX_FLOW(<<Page("Message", "sign_to_sign_str")>>)

ux_sign_transaction_amount  == Page("Amount", "tx_amount_str")
ux_sign_transaction_address == Page("To", "tx_address_str")

ux_sign_transaction_flow(kind) ==
  CASE kind = "burn" ->
         UX_FLOW(<<Page("Action", "Burn"), ux_sign_transaction_amount>>)
    [] kind = "deploy" ->
         UX_FLOW(<<Page("Action", "Deploy"), ux_sign_transaction_address>>)
    [] kind = "confirm" ->
         UX_FLOW(<<Page("Action", "Confirm"),
                   Page("Transaction id", "tx_transaction_id_str")>>)
    [] kind = "transfer" ->
         UX_FLOW(<<Page("Action", "Transfer"), ux_sign_transaction_amount,
                   ux_sign_transaction_address>>)

ux_idle_flow ==
  <<Page("ready", "Application is ready"), Page("version", "Version"), Page("quit", "Quit")>>

-----------------------------------------------------------------------------
(***************************************************************************)
(* Showing.  The context is the one the handler leaves.                    *)
(***************************************************************************)
ux_flow_init(flow_steps) ==
  /\ steps' = flow_steps
  /\ at' = 1
  /\ seen' = {Says(flow_steps[1], dc')}

ui_main_menu == ux_flow_init(ux_idle_flow) /\ UNCHANGED g_validate_callback

\* Mutant: the callback of the last review is kept.
ui_display_address_bagl_keeps_callback ==
  ux_flow_init(ux_display_address_flow) /\ UNCHANGED g_validate_callback

ui_display_address_bagl ==
  g_validate_callback' = "address" /\ ux_flow_init(ux_display_address_flow)

ui_display_public_key_bagl ==
  g_validate_callback' = "pubkey" /\ ux_flow_init(ux_display_public_flow)

ui_display_sign_bagl ==
  g_validate_callback' = "message" /\ ux_flow_init(ux_sign_flow)

\* handleSignTransaction throws on other flows, see ShowTransaction.
ui_display_sign_transaction_bagl(kind) ==
  g_validate_callback' = "transaction" /\ ux_flow_init(ux_sign_transaction_flow(kind))

ui_display_bagl ==
  CASE ui' = "address" -> ui_display_address_bagl
    [] ui' = "pubkey" -> ui_display_public_key_bagl
    [] ui' = "message" -> ui_display_sign_bagl
    [] ui' = "transaction" -> ui_display_sign_transaction_bagl(flow')
    [] OTHER -> UNCHANGED baglScreen

-----------------------------------------------------------------------------
(***************************************************************************)
(* Buttons, which io_recv_command looks after while it waits.  The flow of *)
(* the menu is a loop, those of reviews are not.                           *)
(***************************************************************************)
Turn(to_step) ==
  /\ app = "running" /\ ~Fresh
  /\ at' = to_step
  /\ seen' = seen \cup {Says(steps[to_step], dc)}
  /\ UNCHANGED <<vars, g_validate_callback, steps>>

Looping == steps = ux_idle_flow

Right ==
  \/ at < Len(steps) /\ Turn(at + 1)
  \/ at = Len(steps) /\ Looping /\ Turn(1)

Left ==
  \/ at > 1 /\ Turn(at - 1)
  \/ at = 1 /\ Looping /\ Turn(Len(steps))

\* ui_action_validate_*: the callback of validate.c, then the menu.
ui_action_validate(choice) ==
  \/ g_validate_callback = "pubkey" /\ validate_pubkey(choice)
  \/ g_validate_callback = "address" /\ validate_address(choice)
  \/ \E signed \in BOOLEAN :
       \/ g_validate_callback = "message" /\ validate_message(choice, signed)
       \/ g_validate_callback = "transaction" /\ validate_transaction(choice, signed)

\* Mutant: the review is not left after the callback.
PressAndStay(choice) ==
  /\ app = "running"
  /\ steps[at] = IF choice THEN ux_display_approve_step ELSE ux_display_reject_step
  /\ ui_action_validate(choice)
  /\ UNCHANGED <<app, ui, flow, baglScreen>>

\* Both buttons on Approve (Sign) or Reject (Cancel).
Press(choice) ==
  /\ app = "running"
  /\ steps[at] = IF choice THEN ux_display_approve_step ELSE ux_display_reject_step
  /\ ui_action_validate(choice)
  /\ ui' = "menu"
  /\ ui_main_menu
  /\ UNCHANGED <<app, flow>>

\* Both buttons on Quit: os_sched_exit.
PressQuit == app = "running" /\ steps[at].title = "quit" /\ Quit /\ UNCHANGED baglScreen

-----------------------------------------------------------------------------
BaglInit ==
  /\ g_validate_callback = None
  /\ steps = ux_idle_flow
  /\ at = 1

\* The loop of app_main; a handler that opens a review calls ui_display_*.
BaglLoop == (Handle \/ \E c \in Commands : Receive(c)) /\ ui_display_bagl

BaglRestart == app_main /\ g_validate_callback' = None /\ ux_flow_init(ux_idle_flow)

BaglNext ==
  \/ BaglLoop
  \/ Left \/ Right
  \/ \E choice \in BOOLEAN : Press(choice)
  \/ PressQuit
  \/ ReceiveFails /\ UNCHANGED baglScreen
  \/ BaglRestart

BaglSpec ==
  Init /\ BaglInit /\ seen = {} /\ [][BaglNext]_<<vars, baglScreen>>

-----------------------------------------------------------------------------
(***************************************************************************)
(* StepsAreReview: between two events the buttons belong to what the       *)
(* application waits for: under a review Approve and Reject run that       *)
(* review's callback, and whichever step is shown, every step before it    *)
(* has been shown with the text it has now (display_bagl.c:43-56, 180-213).*)
(***************************************************************************)
StepsAreReview ==
  app = "running" =>
    /\ at \in 1 .. Len(steps)
    /\ (ui = "menu") = (steps = ux_idle_flow)
    /\ ui \in Reviews =>
         /\ g_validate_callback = ui
         /\ {Says(steps[i], dc) : i \in 1 .. at} \subseteq seen
=============================================================================
