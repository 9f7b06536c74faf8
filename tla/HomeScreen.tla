------------------------------ MODULE HomeScreen ----------------------------
(***************************************************************************)
(* The home screen and the two views that lie on it: the list of apps, and *)
(* inside it the description of one app, which covers the whole list.      *)
(*                                                                         *)
(* Both views are made once and then only hidden and shown.  A control     *)
(* acts when a finger is lifted from it, and keeps acting when another     *)
(* view has covered it since the finger came down: two fingers can select  *)
(* a row and close the list under its description.                         *)
(***************************************************************************)
CONSTANTS
    Apps,    \* the rows of listApps
    NoApp    \* nil, and what the storyboard shows

ASSUME NoAppAssumption == NoApp \notin Apps

VARIABLES
    listHidden,         \* listView.isHidden
    descriptionHidden,  \* appDescriptionView.isHidden
    selectedApp,        \* CustomListView.selectedApp
    described,          \* the app whose icon and name the description shows
    pressed             \* the controls with a finger on them

homeVars == <<listHidden, descriptionHidden, selectedApp, described, pressed>>

Controls == {"add", "closeList", "closeDescription"} \cup Apps

HomeInit ==
    /\ listHidden = TRUE
    /\ descriptionHidden = TRUE
    /\ selectedApp = NoApp
    /\ described = NoApp
    /\ pressed = {}

(* What a finger that comes down now can reach.  The table view tracks one *)
(* row at a time.                                                          *)
Reachable ==
    IF listHidden THEN {"add"}
    ELSE IF ~descriptionHidden THEN {"closeDescription"}
    ELSE {"closeList"} \cup {a \in Apps : pressed \cap Apps = {}}

Press(x) ==
    /\ x \in Reachable \ pressed
    /\ pressed' = pressed \cup {x}
    /\ UNCHANGED <<listHidden, descriptionHidden, selectedApp, described>>

Lift(x) ==
    /\ x \in pressed
    /\ pressed' = pressed \ {x}

(* The finger slides off, or the touch is cancelled.                       *)
SlideOff(x) ==
    /\ Lift(x)
    /\ UNCHANGED <<listHidden, descriptionHidden, selectedApp, described>>

-----------------------------------------------------------------------------
(* AppDescriptionView.update(with:)                                        *)
update(app) == described' = IF app = NoApp THEN described ELSE app

showListView ==
    /\ Lift("add")
    /\ listHidden' = FALSE
    /\ UNCHANGED <<descriptionHidden, selectedApp, described>>

didTapCloseListView ==
    /\ Lift("closeList")
    /\ listHidden' = TRUE
    /\ UNCHANGED <<descriptionHidden, selectedApp, described>>

(* A mistake: the description is updated before the row is noted.          *)
UpdatesTooSoon(a) ==
    /\ Lift(a)
    /\ selectedApp' = a
    /\ descriptionHidden' = FALSE
    /\ update(selectedApp)
    /\ UNCHANGED listHidden

didSelectRowAt(a) ==
    /\ Lift(a)
    /\ selectedApp' = a
    /\ descriptionHidden' = FALSE
    /\ update(selectedApp')
    /\ UNCHANGED listHidden

didTapCloseAppDescriptionView ==
    /\ Lift("closeDescription")
    /\ descriptionHidden' = TRUE
    /\ UNCHANGED <<listHidden, selectedApp, described>>

HomeNext ==
    \/ \E x \in Controls : Press(x) \/ SlideOff(x)
    \/ showListView
    \/ didTapCloseListView
    \/ \E a \in Apps : didSelectRowAt(a)
    \/ didTapCloseAppDescriptionView

HomeSpec == HomeInit /\ [][HomeNext]_homeVars

-----------------------------------------------------------------------------
(* Every variable has its type (CustomListView, AppDescriptionView).       *)
HomeTypeOK ==
    /\ {listHidden, descriptionHidden} \subseteq BOOLEAN
    /\ {selectedApp, described} \subseteq Apps \cup {NoApp}
    /\ pressed \subseteq Controls

(* A description on the screen is the description of the row that was      *)
(* selected last, also when the list was closed under it, reopened, or     *)
(* another row was lifted late.                                            *)
DescriptionNamesSelection ==
    ~descriptionHidden => described = selectedApp /\ selectedApp \in Apps
=============================================================================
