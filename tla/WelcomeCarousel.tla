--------------------------- MODULE WelcomeCarousel --------------------------
(***************************************************************************)
(* The slides of the welcome screen: a timer that turns the page every two *)
(* seconds, a finger that may turn it at any time, and the page control    *)
(* that follows both and the cells as they appear.                         *)
(*                                                                         *)
(* The collection view pages: a drag that is let go between two pages      *)
(* glides to one of them and ends with scrollViewDidEndDecelerating, one   *)
(* that is let go exactly on a page does not glide.  The timer runs in the *)
(* default mode of the run loop, so it never fires under a finger or       *)
(* during a glide.                                                         *)
(***************************************************************************)
EXTENDS Naturals

CONSTANT NumberOfPages
ASSUME PagesAssumption == NumberOfPages \in Nat \ {0}

VARIABLES
    currentPage, \* the screen's idea of the page
    dots,        \* slidePageControl.currentPage
    pos,         \* the page the collection view rests on, or has moved from
    beside,      \* the page that is partly visible next to it, or pos
    motion,      \* what moves the collection view
    timer,       \* autoScrollTimer is scheduled
    onScreen     \* the screen is visible

carouselVars == <<currentPage, dots, pos, beside, motion, timer, onScreen>>

Pages == 0 .. NumberOfPages - 1
Neighbours(p) == {q \in Pages : q + 1 = p \/ p + 1 = q}

(* viewDidLoad *)
CarouselInit ==
    /\ currentPage = 0
    /\ dots = 0
    /\ pos = 0
    /\ beside = 0
    /\ motion = "rest"
    /\ timer = TRUE
    /\ onScreen = TRUE

-----------------------------------------------------------------------------
(* A mistake: the last page is never left.                                 *)
ScrollsOnce ==
    /\ timer
    /\ motion = "rest"
    /\ currentPage + 1 < NumberOfPages
    /\ currentPage' = currentPage + 1
    /\ dots' = currentPage + 1
    /\ motion' = "auto"
    /\ UNCHANGED <<pos, beside, timer, onScreen>>

autoScrollToNextPage ==
    /\ timer
    /\ motion = "rest"
    /\ LET nextPage == IF currentPage + 1 < NumberOfPages THEN currentPage + 1
                                                          ELSE 0
       IN /\ currentPage' = nextPage
          /\ dots' = nextPage
    /\ motion' = "auto"
    /\ UNCHANGED <<pos, beside, timer, onScreen>>

(* Every cell that comes into view on the way sets the page control.       *)
AutoScroll ==
    /\ motion = "auto"
    /\ pos # currentPage
    /\ pos' = IF pos < currentPage THEN pos + 1 ELSE pos - 1
    /\ beside' = pos'
    /\ dots' = pos'
    /\ UNCHANGED <<currentPage, motion, timer, onScreen>>

AutoScrollEnds ==
    /\ motion = "auto"
    /\ pos = currentPage
    /\ motion' = "rest"
    /\ UNCHANGED <<currentPage, dots, pos, beside, timer, onScreen>>

BeginDrag ==
    /\ onScreen
    /\ motion # "drag"
    /\ motion' = "drag"
    /\ UNCHANGED <<currentPage, dots, pos, beside, timer, onScreen>>

(* Under the finger a neighbour comes into view, takes over, or goes away. *)
Drag ==
    /\ motion = "drag"
    /\ \/ \E q \in Neighbours(pos) : beside' = q /\ dots' = q /\ UNCHANGED pos
       \/ /\ beside # pos
          /\ pos' = beside
          /\ UNCHANGED <<beside, dots>>
       \/ /\ beside # pos
          /\ beside' = pos
          /\ UNCHANGED <<pos, dots>>
    /\ UNCHANGED <<currentPage, motion, timer, onScreen>>

LetGo ==
    /\ motion = "drag"
    /\ motion' = IF beside = pos THEN "rest" ELSE "glide"
    /\ UNCHANGED <<currentPage, dots, pos, beside, timer, onScreen>>

(* A mistake: only the page is corrected, not its dot.                     *)
EndsWithStaleDot ==
    /\ motion = "glide"
    /\ \E p \in {pos, beside} : pos' = p /\ beside' = p /\ currentPage' = p
    /\ motion' = "rest"
    /\ UNCHANGED <<dots, timer, onScreen>>

scrollViewDidEndDecelerating ==
    /\ motion = "glide"
    /\ \E p \in {pos, beside} :
          /\ pos' = p
          /\ beside' = p
          /\ currentPage' = p
          /\ dots' = p
    /\ motion' = "rest"
    /\ UNCHANGED <<timer, onScreen>>

(* Get started, or a new root: the screen leaves and its timer is stopped. *)
viewWillDisappear ==
    /\ onScreen
    /\ motion # "drag"
    /\ onScreen' = FALSE
    /\ timer' = FALSE
    /\ UNCHANGED <<currentPage, dots, pos, beside, motion>>

(* Back from the login screen: viewDidLoad does not run again.             *)
ComesBack ==
    /\ ~onScreen
    /\ onScreen' = TRUE
    /\ UNCHANGED <<currentPage, dots, pos, beside, motion, timer>>

CarouselMoves ==
    \/ autoScrollToNextPage
    \/ AutoScroll
    \/ AutoScrollEnds
    \/ BeginDrag
    \/ Drag
    \/ LetGo
    \/ scrollViewDidEndDecelerating

CarouselNext == CarouselMoves \/ viewWillDisappear \/ ComesBack

CarouselFairness ==
    /\ WF_carouselVars(autoScrollToNextPage)
    /\ WF_carouselVars(AutoScroll)
    /\ WF_carouselVars(AutoScrollEnds)
    /\ WF_carouselVars(scrollViewDidEndDecelerating)

CarouselSpec == CarouselInit /\ [][CarouselNext]_carouselVars

-----------------------------------------------------------------------------
(* Every variable has its type; the pages are those of the page control.   *)
CarouselTypeOK ==
    /\ {currentPage, dots, pos, beside} \subseteq Pages
    /\ motion \in {"rest", "auto", "drag", "glide"}
    /\ {timer, onScreen} \subseteq BOOLEAN

(* A screen nobody sees turns no pages: the timer, which keeps the screen  *)
(* alive, is gone with it.                                                 *)
TimerOnlyOnScreen == timer => onScreen

(* A page that comes to rest by itself rests under its own dot, and the    *)
(* screen knows it, whatever cells came into view on the way.  (A drag     *)
(* that is let go exactly on a page may leave the neighbour's dot.)        *)
RestsUnderItsDot ==
    [][(motion \in {"auto", "glide"} /\ motion' = "rest")
          => (currentPage' = pos' /\ dots' = pos')]_carouselVars

(* Left alone on the screen, the carousel keeps showing every slide - or,  *)
(* if it was left once and come back to, stands still for good: its timer  *)
(* stopped when it disappeared, and only viewDidLoad starts one.  Nothing  *)
(* but leaving it ends its turning.                                        *)
KeepsTurning ==
    <>[](onScreen /\ motion # "drag") =>
        \/ \A p \in Pages : []<>(pos = p)
        \/ <>~onScreen /\ <>[](~timer /\ motion = "rest")
=============================================================================
