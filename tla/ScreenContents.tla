--------------------------- MODULE ScreenContents ---------------------------
(***************************************************************************)
(* The screens that keep a state of their own (the slides, the password    *)
(* field, the overlays of home) while the person moves between them.       *)
(*                                                                         *)
(* A screen lives as long as it is on the navigation stack: one that is    *)
(* covered keeps its state, one that is popped or whose stack is replaced  *)
(* takes its state with it, and the next one starts afresh.  ScreenFlow    *)
(* says when answers arrive and how roots are replaced; here they just do. *)
(* Bound: one set of tabs is on the stack at a time.                       *)
(***************************************************************************)
EXTENDS WelcomeCarousel, SignUpForm, HomeScreen, Sequences, SequencesExt

VARIABLES
    screens,  \* the kinds of the screens on the stack, bottom first
    placed    \* the root that the launch decided on is in place

contentsVars == <<screens, placed, carouselVars, formVars, homeVars>>

Visible == Last(screens)

ContentsInit ==
    /\ screens = <<"welcome">>
    /\ placed = FALSE
    /\ CarouselInit
    /\ FormInit
    /\ HomeInit

-----------------------------------------------------------------------------
(* A screen that goes leaves nothing behind: the next one of its kind      *)
(* starts afresh.  A welcome screen that is not there has no timer.        *)

CarouselResets(shown) ==
    /\ currentPage' = 0 /\ dots' = 0 /\ pos' = 0 /\ beside' = 0
    /\ motion' = "rest"
    /\ timer' = shown
    /\ onScreen' = shown

FormResets ==
    /\ password' = Empty
    /\ secure' = TRUE
    /\ clears' = FALSE
    /\ strength' = "empty"
    /\ hidden' = TRUE /\ eye' = TRUE
    /\ label' = "storyboard" /\ bars' = "storyboard"

HomeResets ==
    /\ listHidden' = TRUE /\ descriptionHidden' = TRUE
    /\ selectedApp' = NoApp /\ described' = NoApp
    /\ pressed' = {}

-----------------------------------------------------------------------------
(* The person moves on.                                                    *)

didTapGetStartedButton ==
    /\ Visible = "welcome"
    /\ viewWillDisappear
    /\ screens' = Append(screens, "login")
    /\ UNCHANGED <<placed, formVars, homeVars>>

handleCreateAccountTap ==
    /\ Visible = "login"
    /\ screens' = Append(screens, "signUp")
    /\ UNCHANGED <<placed, carouselVars, formVars, homeVars>>

(* The answer to Sign in pushes the tabs on the stack of its login screen, *)
(* over the sign-up screen when the person is there by now.                *)
SignInAnswered ==
    /\ Visible \in {"login", "signUp"}
    /\ screens' = Append(screens, "tabs")
    /\ UNCHANGED <<placed, carouselVars, formVars, homeVars>>

Back ==
    /\ Len(screens) > 1
    /\ screens' = Front(screens)
    /\ IF Visible = "login" THEN ComesBack ELSE UNCHANGED carouselVars
    /\ IF Visible = "signUp" THEN FormResets ELSE UNCHANGED formVars
    /\ IF Visible = "tabs" THEN HomeResets ELSE UNCHANGED homeVars
    /\ UNCHANGED placed

(* checkAuthentication, at launch and when an account has been made: the   *)
(* whole stack is replaced, by a new welcome screen or by the tabs.        *)
RootReplaced(kind) ==
    /\ placed => "signUp" \in ToSet(screens)
    /\ screens' = <<kind>>
    /\ placed' = TRUE
    /\ CarouselResets(kind = "welcome")
    /\ FormResets
    /\ HomeResets

-----------------------------------------------------------------------------
(* The screens by themselves: a scroll that is under way goes on when its  *)
(* screen is covered; the other two need a finger.                         *)
SlidesMove ==
    /\ CarouselMoves
    /\ UNCHANGED <<screens, placed, formVars, homeVars>>

FormMoves ==
    /\ Visible = "signUp"
    /\ FormNext
    /\ UNCHANGED <<screens, placed, carouselVars, homeVars>>

HomeMoves ==
    /\ Visible = "tabs"
    /\ HomeNext
    /\ UNCHANGED <<screens, placed, carouselVars, formVars>>

ContentsNext ==
    \/ didTapGetStartedButton
    \/ handleCreateAccountTap
    \/ SignInAnswered
    \/ Back
    \/ \E kind \in {"welcome", "tabs"} : RootReplaced(kind)
    \/ SlidesMove
    \/ FormMoves
    \/ HomeMoves

(* The fairness of the slides: nothing makes a person move.                *)
ContentsSpec ==
    ContentsInit /\ [][ContentsNext]_contentsVars /\ CarouselFairness

(* What one screen shows stays consistent through what navigation does to  *)
(* the others: no carousel turns behind another screen, the meter's parts  *)
(* agree, and the description names the row selected last                  *)
(* (WelcomeViewController, SignUpViewController, CustomListView).          *)
ContentsConsistent ==
    /\ CarouselTypeOK /\ FormTypeOK /\ HomeTypeOK
    /\ TimerOnlyOnScreen /\ MeterAgrees /\ DescriptionNamesSelection
=============================================================================
