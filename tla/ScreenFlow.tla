----------------------------- MODULE ScreenFlow -----------------------------
(***************************************************************************)
(* What the person sees: the window, its navigation stack, the alerts, and *)
(* the answers of AuthService that arrive whenever they arrive.            *)
(*                                                                         *)
(* A screen that asks AuthService for something passes a closure.  The     *)
(* login closure keeps its screen alive and pushes the home tabs on the    *)
(* screen's own navigation stack, wherever that stack is by then.  The     *)
(* sign-up closure is weak: it acts only while its screen lives, and       *)
(* replaces the root of the window only while its screen is visible.       *)
(* Replacing the root is itself three steps: the session is read, a block  *)
(* on the main queue starts a fade, and the fade's completion block        *)
(* installs the new root.                                                  *)
(*                                                                         *)
(* UIKit (the navigation stack, presentation, touches) is modelled from    *)
(* how these screens use it.                                               *)
(***************************************************************************)
EXTENDS Naturals, Sequences, SequencesExt

CONSTANTS
    Calls,     \* identities of taps on Sign in / Sign up, each used once
    Screens,   \* identities of view controllers
    NoScreen   \* no view controller

ASSUME NoScreenAssumption == NoScreen \notin Screens

VARIABLES
    session,    \* Auth.auth().currentUser and its past: none yet, active,
                \* revoked, or active again after that
    stack,      \* the root navigation controller's screens, bottom first
    barHidden,  \* its navigation bar is hidden
    opacity,    \* of the window's layer
    fades,      \* root replacements under way, oldest first
    alerts,     \* blocks on the main queue that will present an alert
    alertUp,    \* an alert is presented
    calls       \* every call's kind, screen and stage

vars == <<session, stack, barHidden, opacity, fades, alerts, alertUp, calls>>

Kinds == {"welcome", "login", "signUp", "tabs"}
Screen(s, k) == [id |-> s, kind |-> k]
Fade(target, phase) == [target |-> target, phase |-> phase]
NoCall == [kind |-> "none", by |-> NoScreen, stage |-> "idle"]

Ids == {stack[i].id : i \in DOMAIN stack}
Top == Last(stack)

(* Identities that nothing refers to any more may be used again.           *)
Fresh == {s \in Screens :
            /\ s \notin Ids
            /\ \A i \in DOMAIN alerts : alerts[i] # s
            /\ \A c \in Calls : calls[c].stage # "done" => calls[c].by # s}

(* checkAuthentication decides on the session it reads now.                *)
SomebodySignedIn == session \in {"active", "again"}
NewRoot == Fade(IF SomebodySignedIn THEN "tabs" ELSE "welcome", "posted")
CheckAuthentication == Append(fades, NewRoot)

(* scene(willConnectTo:): the welcome screen is the first root, and the    *)
(* first checkAuthentication follows at once.                              *)
Init ==
    /\ session \in {"none", "active"}
    /\ \E s \in Screens : stack = <<Screen(s, "welcome")>>
    /\ barHidden = FALSE
    /\ opacity = 1
    /\ fades = <<NewRoot>>
    /\ alerts = <<>>
    /\ alertUp = FALSE
    /\ calls = [c \in Calls |-> NoCall]

-----------------------------------------------------------------------------
(* Touches reach the top screen unless an alert covers it or the window    *)
(* fades or is about to.                                                   *)
Touchable ==
    /\ ~alertUp
    /\ opacity = 1
    /\ \A i \in DOMAIN fades : fades[i].phase # "posted"

Push(s, k) == stack' = Append(stack, Screen(s, k))

TapGetStarted ==
    /\ Touchable
    /\ Top.kind = "welcome"
    /\ \E s \in Fresh : Push(s, "login")
    /\ UNCHANGED <<session, barHidden, opacity, fades, alerts, alertUp, calls>>

TapCreateAccount ==
    /\ Touchable
    /\ Top.kind = "login"
    /\ \E s \in Fresh : Push(s, "signUp")
    /\ UNCHANGED <<session, barHidden, opacity, fades, alerts, alertUp, calls>>

(* The back button, or the edge swipe, which a hidden bar does not stop:   *)
(* it also leads from the tabs back to the login screen.                   *)
GoBack ==
    /\ Touchable
    /\ Len(stack) > 1
    /\ stack' = Front(stack)
    /\ UNCHANGED <<session, barHidden, opacity, fades, alerts, alertUp, calls>>

(* Sign in and Sign up with input the Validator accepts.  The buttons stay *)
(* enabled: a second tap makes a second call.                              *)
TapSubmit(c) ==
    /\ Touchable
    /\ calls[c].stage = "idle"
    /\ Top.kind \in {"login", "signUp"}
    /\ calls' = [calls EXCEPT ![c] =
                   [kind |-> IF Top.kind = "login" THEN "signIn" ELSE "register",
                    by |-> Top.id, stage |-> "sent"]]
    /\ UNCHANGED <<session, stack, barHidden, opacity, fades, alerts, alertUp>>

TapSubmitInvalid ==
    /\ Touchable
    /\ Top.kind \in {"login", "signUp"}
    /\ alerts = <<>>
    /\ alerts' = <<Top.id>>
    /\ UNCHANGED <<session, stack, barHidden, opacity, fades, alertUp, calls>>

DismissAlert ==
    /\ alertUp
    /\ alertUp' = FALSE
    /\ UNCHANGED <<session, stack, barHidden, opacity, fades, alerts, calls>>

-----------------------------------------------------------------------------
(* The session, which changes away from the main queue.                    *)

SignedIn(c) ==
    /\ calls[c].stage = "sent"
    /\ calls' = [calls EXCEPT ![c].stage = "signedIn"]
    /\ session' = IF session \in {"none", "active"} THEN "active" ELSE "again"
    /\ UNCHANGED <<stack, barHidden, opacity, fades, alerts, alertUp>>

(* The keychain became readable after the scene had asked who is there.    *)
SessionRestored ==
    /\ session = "none"
    /\ session' = "active"
    /\ UNCHANGED <<stack, barHidden, opacity, fades, alerts, alertUp, calls>>

SessionRevoked ==
    /\ SomebodySignedIn
    /\ session' = "revoked"
    /\ UNCHANGED <<stack, barHidden, opacity, fades, alerts, alertUp, calls>>

-----------------------------------------------------------------------------
(* The answers of AuthService, blocks of the main queue.                   *)

Answer(c) == calls' = [calls EXCEPT ![c].stage = "done"]

(* A mistake: home is pushed wherever the person is by now.                *)
PushesAnywhere(c) ==
    /\ calls[c].kind = "signIn" /\ calls[c].stage = "signedIn"
    /\ Answer(c)
    /\ \E s \in Fresh : Push(s, "tabs")
    /\ barHidden' = TRUE
    /\ UNCHANGED <<session, opacity, fades, alerts, alertUp>>

(* A login screen that left the stack has no navigation controller, and    *)
(* nothing is pushed; one that is merely covered still has it.             *)
SignInSucceeds(c) ==
    /\ calls[c].kind = "signIn" /\ calls[c].stage = "signedIn"
    /\ Answer(c)
    /\ \/ /\ calls[c].by \in Ids
          /\ \E s \in Fresh : Push(s, "tabs")
          /\ barHidden' = TRUE
       \/ /\ calls[c].by \notin Ids
          /\ UNCHANGED <<stack, barHidden>>
    /\ UNCHANGED <<session, opacity, fades, alerts, alertUp>>

(* The login closure posts its alert whether or not its screen is there.   *)
SignInFails(c) ==
    /\ calls[c].kind = "signIn" /\ calls[c].stage = "sent"
    /\ Answer(c)
    /\ alerts' = Append(alerts, calls[c].by)
    /\ UNCHANGED <<session, stack, barHidden, opacity, fades, alertUp>>

(* A mistake: a sign-up screen that is gone sends everybody to the start.  *)
StartsOver(c) ==
    /\ calls[c].kind = "register" /\ calls[c].stage = "signedIn"
    /\ Answer(c)
    /\ fades' = IF calls[c].by = Top.id THEN CheckAuthentication
                ELSE Append(fades, Fade("welcome", "posted"))
    /\ UNCHANGED <<session, stack, barHidden, opacity, alerts, alertUp>>

RegisterSucceeds(c) ==
    /\ calls[c].kind = "register" /\ calls[c].stage = "signedIn"
    /\ Answer(c)
    /\ fades' = IF calls[c].by = Top.id THEN CheckAuthentication ELSE fades
    /\ UNCHANGED <<session, stack, barHidden, opacity, alerts, alertUp>>

(* The account was refused, or it exists and its profile was refused.      *)
RegisterFails(c) ==
    /\ calls[c].kind = "register" /\ calls[c].stage \in {"sent", "signedIn"}
    /\ Answer(c)
    /\ alerts' = IF calls[c].by \in Ids THEN Append(alerts, calls[c].by)
                                        ELSE alerts
    /\ UNCHANGED <<session, stack, barHidden, opacity, fades, alertUp>>

(* present(alert): refused by UIKit when the screen is gone or another     *)
(* alert is up; nobody tries again.                                        *)
PresentAlert ==
    /\ alerts # <<>>
    /\ alertUp' = (alertUp \/ Head(alerts) \in Ids)
    /\ alerts' = Tail(alerts)
    /\ UNCHANGED <<session, stack, barHidden, opacity, fades, calls>>

-----------------------------------------------------------------------------
(* The three steps of a new root.                                          *)

StartFade ==
    /\ \E i \in DOMAIN fades :
          /\ fades[i].phase = "posted"
          /\ \A j \in 1 .. i - 1 : fades[j].phase # "posted"
          /\ fades' = [fades EXCEPT ![i].phase = "fading"]
    /\ opacity' = 0
    /\ UNCHANGED <<session, stack, barHidden, alerts, alertUp, calls>>

(* A mistake: one completed fade forgets the rest.                         *)
FinishesAll ==
    /\ \E i \in DOMAIN fades :
          /\ fades[i].phase = "fading"
          /\ \E s \in Fresh : stack' = <<Screen(s, fades[i].target)>>
          /\ barHidden' = (fades[i].target = "tabs")
    /\ fades' = <<>>
    /\ opacity' = 1
    /\ UNCHANGED <<session, alerts, alertUp, calls>>

(* Animations complete in any order.  An alert of the old root goes with   *)
(* it or stays over the new one.                                           *)
FinishFade ==
    /\ \E i \in DOMAIN fades :
          /\ fades[i].phase = "fading"
          /\ \E s \in Fresh : stack' = <<Screen(s, fades[i].target)>>
          /\ barHidden' = (fades[i].target = "tabs")
          /\ fades' = RemoveAt(fades, i)
    /\ opacity' = 1
    /\ alertUp' \in {FALSE, alertUp}
    /\ UNCHANGED <<session, alerts, calls>>

-----------------------------------------------------------------------------
Arrives(c) == \/ SignInSucceeds(c)
              \/ SignInFails(c)
              \/ RegisterSucceeds(c)
              \/ RegisterFails(c)

Next ==
    \/ TapGetStarted
    \/ TapCreateAccount
    \/ GoBack
    \/ \E c \in Calls : TapSubmit(c)
    \/ TapSubmitInvalid
    \/ DismissAlert
    \/ \E c \in Calls : SignedIn(c)
    \/ SessionRestored
    \/ SessionRevoked
    \/ \E c \in Calls : Arrives(c)
    \/ PresentAlert
    \/ StartFade
    \/ FinishFade

(* The main queue runs, animations end, and a call is answered.  Nothing   *)
(* makes a person tap.                                                     *)
Fairness ==
    /\ WF_vars(StartFade)
    /\ WF_vars(FinishFade)
    /\ WF_vars(PresentAlert)
    /\ \A c \in Calls : WF_vars(Arrives(c))

Spec == Init /\ [][Next]_vars
FairSpec == Spec /\ Fairness

-----------------------------------------------------------------------------
(* Every variable has its type (the screens, SceneDelegate, AlertManager). *)
TypeOK ==
    /\ session \in {"none", "active", "revoked", "again"}
    /\ stack \in Seq([id : Screens, kind : Kinds])
    /\ barHidden \in BOOLEAN
    /\ opacity \in {0, 1}
    /\ fades \in Seq([target : {"welcome", "tabs"}, phase : {"posted", "fading"}])
    /\ alerts \in Seq(Screens)
    /\ alertUp \in BOOLEAN
    /\ calls \in [Calls -> [kind : {"none", "signIn", "register"},
                            by : Screens \cup {NoScreen},
                            stage : {"idle", "sent", "signedIn", "done"}]]

(* Whatever the answers push and replace, the stack keeps one shape:       *)
(* either the tabs alone, with nothing to go back to, or welcome, then     *)
(* login, then sign-up, with tabs only on top of a login screen.           *)
StackShape ==
    /\ stack # <<>>
    /\ stack[1].kind \in {"welcome", "tabs"}
    /\ stack[1].kind = "tabs" => Len(stack) = 1
    /\ \A i \in 2 .. Len(stack) :
          \/ stack[i].kind = "login" /\ i = 2
          \/ stack[i].kind = "signUp" /\ i = 3
          \/ stack[i].kind = "tabs" /\ i > 2
    /\ \A i, j \in DOMAIN stack : stack[i].id = stack[j].id => i = j

(* The home tabs are never shown, and never decided on, in a process       *)
(* nobody has signed in to.                                                *)
HomeNeedsSession ==
    session = "none" =>
        /\ \A i \in DOMAIN stack : stack[i].kind # "tabs"
        /\ \A i \in DOMAIN fades : fades[i].target # "tabs"

(* The window never stays dark: without a fade it is visible.              *)
VisibleWithoutFade ==
    (\A i \in DOMAIN fades : fades[i].phase # "fading") => opacity = 1

(* Stack, session and fades fit together at any moment, whatever answers   *)
(* and taps arrive (SceneDelegate.goToController, LoginViewController).    *)
FlowConsistent ==
    TypeOK /\ StackShape /\ HomeNeedsSession /\ VisibleWithoutFade

(* Once the tabs are the root, no late answer of an old screen and no late *)
(* fade brings another one, unless a session was revoked in this process.  *)
HomeRootStays ==
    [][stack[1].kind = "tabs" =>
          stack'[1].kind = "tabs" \/ session \in {"revoked", "again"}]_vars

(* Once the flow has decided on the home tabs, the person gets there,      *)
(* however many other answers and fades arrive in between.                 *)
RegistrationLeadsHome ==
    (\E i \in DOMAIN fades : fades[i].target = "tabs")
      ~> (stack[1].kind = "tabs")
=============================================================================
