------------------------------ MODULE Screens ------------------------------
(***************************************************************************)
(* The application with the screens of the build that was chosen: with     *)
(* HAVE_BAGL those of DisplayBagl, with HAVE_NBGL those of DisplayNbgl.    *)
(***************************************************************************)
EXTENDS DisplayBagl, DisplayNbgl

VARIABLE build    \* "bagl" or "nbgl"

screens ==
  <<vars, seen, build, g_validate_callback, steps, at, screen, pairs, nbPairs, page>>

-----------------------------------------------------------------------------
\* The screens of the build that is not chosen stay as they are at the start.
ScreensInit ==
  /\ Init
  /\ build \in {"bagl", "nbgl"}
  /\ BaglInit
  /\ NbglInit
  /\ seen = {}

BaglOnly(Action) ==
  build = "bagl" /\ Action /\ UNCHANGED <<build, screen, pairs, nbPairs, page>>
NbglOnly(Action) ==
  build = "nbgl" /\ Action /\ UNCHANGED <<build, g_validate_callback, steps, at>>

ScreensNext == BaglOnly(BaglNext) \/ NbglOnly(NbglNext)

(***************************************************************************)
(* The loop handles what it has received: WF_vars(Handle) with its ENABLED *)
(* written out, which is Fresh, as the absence of deadlock shows (nothing  *)
(* else can happen then).  The user turns pages in any order, but not for  *)
(* ever between the same two: whoever comes to a page again and again      *)
(* moves on, and whoever comes to a decision again and again takes one.    *)
(***************************************************************************)
MAX_PAGES == 5    \* the pages of the longest flow before its last decision

TurnPage(i) ==
  /\ UnderReview
  /\ \/ at = i /\ BaglOnly(Right)
     \/ page = i - 1 /\ NbglOnly(Swipe)

TakeDecision ==
  /\ UnderReview
  /\ \E choice \in BOOLEAN : BaglOnly(Press(choice)) \/ NbglOnly(Choose(choice))

ScreensFairness ==
  /\ []<>~Fresh
  /\ \A i \in 1 .. MAX_PAGES : SF_screens(TurnPage(i))
  /\ SF_screens(TakeDecision)

ScreensSpec == ScreensInit /\ [][ScreensNext]_screens /\ ScreensFairness

-----------------------------------------------------------------------------
(***************************************************************************)
(* ScreenIsReview: StepsAreReview of DisplayBagl, for the devices that     *)
(* have its screens.  (PairsAreReview of DisplayNbgl is about a list on    *)
(* the screen, and the other devices never have one.)                      *)
(***************************************************************************)
ScreenIsReview == build = "bagl" => StepsAreReview
=============================================================================
