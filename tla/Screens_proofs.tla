--------------------------- MODULE Screens_proofs --------------------------
(***************************************************************************)
(* Theorems about what the person sees.                                    *)
(*                                                                         *)
(* ScreenContents and the three screens it is made of, for any number of   *)
(* slides, passwords of any lengths and any list of apps: first each       *)
(* screen by itself, then all of them under navigation.  A step of         *)
(* navigation is, for each screen, a step of its own, a fresh start or no  *)
(* step, so the invariant of the whole is the conjunction of theirs.       *)
(*                                                                         *)
(* Then ScreenFlow, for any number of calls and of screens that have left  *)
(* the stack but are still referred to.                                    *)
(***************************************************************************)
EXTENDS ScreenContents, ScreenFlow, SequenceTheorems, TLAPS

(* The slides (WelcomeCarousel).                                           *)

(* The part of the type invariant that the proofs need.                    *)
PagesOK ==
    /\ currentPage \in Pages /\ dots \in Pages
    /\ pos \in Pages /\ beside \in Pages
    /\ motion \in {"rest", "auto", "drag", "glide"}
    /\ timer \in BOOLEAN /\ onScreen \in BOOLEAN

(* A scroll that has reached its page has set that page's dot on the way:  *)
(* the timer set it at once, and every cell that came into view since.     *)
DotFollows == motion = "auto" /\ pos = currentPage => dots = currentPage

CarouselInv == PagesOK /\ DotFollows /\ TimerOnlyOnScreen

LEMMA FirstPage == 0 \in Pages /\ Pages \subseteq Nat
BY PagesAssumption DEF Pages

LEMMA CarouselInvInit == CarouselInit => CarouselInv
BY FirstPage
   DEF CarouselInit, CarouselInv, PagesOK, DotFollows, TimerOnlyOnScreen

LEMMA CarouselInvStep == CarouselInv /\ [CarouselNext]_carouselVars => CarouselInv'
<1> SUFFICES ASSUME CarouselInv, [CarouselNext]_carouselVars PROVE CarouselInv'
  OBVIOUS
<1> USE FirstPage DEF CarouselInv, PagesOK, DotFollows, TimerOnlyOnScreen
<1>1. CASE autoScrollToNextPage
  <2>1. IF currentPage + 1 < NumberOfPages
          THEN currentPage + 1 \in Pages ELSE 0 \in Pages
    BY PagesAssumption DEF Pages
  <2> QED  BY <1>1, <2>1 DEF autoScrollToNextPage
<1>2. CASE AutoScroll
  <2>1. pos' \in Pages
    BY <1>2, PagesAssumption DEF AutoScroll, Pages
  <2> QED  BY <1>2, <2>1 DEF AutoScroll
<1>3. CASE AutoScrollEnds
  BY <1>3 DEF AutoScrollEnds
<1>4. CASE BeginDrag
  BY <1>4 DEF BeginDrag
<1>5. CASE Drag
  BY <1>5 DEF Drag, Neighbours
<1>6. CASE LetGo
  BY <1>6 DEF LetGo
<1>7. CASE scrollViewDidEndDecelerating
  BY <1>7 DEF scrollViewDidEndDecelerating
<1>8. CASE viewWillDisappear
  BY <1>8 DEF viewWillDisappear
<1>9. CASE ComesBack
  BY <1>9 DEF ComesBack
<1>10. CASE UNCHANGED carouselVars
  BY <1>10 DEF carouselVars
<1> QED
  BY <1>1, <1>2, <1>3, <1>4, <1>5, <1>6, <1>7, <1>8, <1>9, <1>10
     DEF CarouselNext, CarouselMoves

LEMMA CarouselInductive == CarouselSpec => []CarouselInv
BY CarouselInvInit, CarouselInvStep, PTL DEF CarouselSpec

(* currentPage and the page control stay within the slides, although the   *)
(* timer, a finger and a glide all turn the page.                          *)
THEOREM CarouselTyped == CarouselSpec => []CarouselTypeOK
<1>1. CarouselInv => CarouselTypeOK
  BY DEF CarouselInv, PagesOK, CarouselTypeOK
<1> QED  BY <1>1, CarouselInductive, PTL

(* autoScrollTimer never outlives the screen's appearance.                 *)
THEOREM CarouselTimerStops == CarouselSpec => []TimerOnlyOnScreen
<1>1. CarouselInv => TimerOnlyOnScreen
  BY DEF CarouselInv
<1> QED  BY <1>1, CarouselInductive, PTL

(* The step of a scroll or a glide that ends.                              *)
Rests ==
    (motion \in {"auto", "glide"} /\ motion' = "rest")
       => (currentPage' = pos' /\ dots' = pos')

LEMMA CarouselStops ==
    CarouselInv /\ [CarouselNext]_carouselVars => [Rests]_carouselVars
<1> SUFFICES ASSUME CarouselInv, CarouselNext, motion \in {"auto", "glide"},
                    motion' = "rest"
             PROVE  currentPage' = pos' /\ dots' = pos'
  BY DEF Rests
<1>1. AutoScrollEnds \/ scrollViewDidEndDecelerating
  BY DEF CarouselNext, CarouselMoves, autoScrollToNextPage, AutoScroll,
         BeginDrag, Drag, LetGo, viewWillDisappear, ComesBack
<1>2. CASE AutoScrollEnds
  BY <1>2 DEF AutoScrollEnds, CarouselInv, DotFollows, PagesOK
<1>3. CASE scrollViewDidEndDecelerating
  BY <1>3 DEF scrollViewDidEndDecelerating
<1> QED  BY <1>1, <1>2, <1>3

(* A scroll or a glide that ends leaves page, dot and view in agreement.   *)
THEOREM CarouselRests == CarouselSpec => RestsUnderItsDot
<1>1. CarouselSpec => [][Rests]_carouselVars
  BY CarouselStops, CarouselInductive, PTL DEF CarouselSpec
<1>2. [][Rests]_carouselVars <=> RestsUnderItsDot
  BY DEF RestsUnderItsDot, Rests
<1> QED  BY <1>1, <1>2

-----------------------------------------------------------------------------
(* The password field and its meter (SignUpForm).                          *)

(* The part of the type invariant that the proofs need.                    *)
FieldOK ==
    /\ password \in Passwords
    /\ secure \in BOOLEAN /\ clears \in BOOLEAN
    /\ hidden \in BOOLEAN /\ eye \in BOOLEAN
    /\ strength \in Grades
    /\ label \in Grades \cup {"storyboard"}
    /\ bars \in Grades \cup {"storyboard"}

FormInv == FieldOK /\ MeterAgrees

(* The grades in their order, and which passwords get which.               *)
LEMMA Ranks ==
    /\ Rank["empty"] = 0 /\ Rank["weak"] = 1
    /\ Rank["medium"] = 2 /\ Rank["strong"] = 3
BY DEF Rank, Grades

LEMMA PasswordShape ==
    ASSUME NEW p \in Passwords
    PROVE  /\ p.length \in Nat /\ p.padding \in {0, 1} /\ p.mixed \in BOOLEAN
           /\ p.mixed => p.length >= 4
           /\ count(p) \in Nat
           /\ count(p) = 0 <=> p = Empty
<1>1. /\ p.length \in Nat /\ p.padding \in {0, 1} /\ p.mixed \in BOOLEAN
      /\ p.mixed => p.length >= 4
      /\ p = [length |-> p.length, padding |-> p.padding, mixed |-> p.mixed]
  BY LengthsAssumption DEF Passwords
<1>2. count(p) \in Nat
  BY <1>1 DEF count
<1>3. count(p) = 0 => p = Empty
  BY <1>1 DEF count, Empty, Password
<1>4. p = Empty => count(p) = 0
  BY DEF count, Empty, Password
<1> QED  BY <1>1, <1>2, <1>3, <1>4

LEMMA GradeShape ==
    ASSUME NEW p \in Passwords
    PROVE  /\ Grade(p) \in Grades
           /\ Grade(p) = "empty" <=> p = Empty
           /\ isPasswordValid(p) => Grade(p) = "strong"
           /\ count(p) = 1 => Grade(p) = "weak"
<1>1. /\ p.length \in Nat /\ p.padding \in {0, 1} /\ p.mixed \in BOOLEAN
      /\ p.mixed => p.length >= 4 /\ count(p) \in Nat
      /\ count(p) = 0 <=> p = Empty
  BY PasswordShape
<1>2. isPasswordValid(p) => count(p) # 0 /\ count(p) # 1
  BY <1>1 DEF isPasswordValid, count
<1> QED  BY <1>1, <1>2 DEF Grade, Grades

LEMMA EmptyTyped == Empty \in Passwords /\ Grade(Empty) = "empty"
<1>1. Empty \in Passwords
  BY LengthsAssumption DEF Empty, Password, Passwords
<1> QED  BY <1>1, GradeShape

LEMMA FormInvInit == FormInit => FormInv
<1> SUFFICES ASSUME FormInit PROVE FormInv
  OBVIOUS
<1>1. FieldOK
  BY EmptyTyped DEF FormInit, FieldOK, Grades
<1>2. MeterAgrees
  BY DEF FormInit, MeterAgrees
<1> QED  BY <1>1, <1>2 DEF FormInv

(* What the delegate does with the text that is about to be produced.      *)
LEMMA AskedAbout ==
    ASSUME NEW newText \in Passwords, FieldOK, MeterAgrees,
           ShouldChange(newText)
    PROVE  /\ MeterAgrees'
           /\ strength' = Grade(newText) /\ strength' \in Grades
           /\ hidden' \in BOOLEAN /\ eye' \in BOOLEAN
           /\ label' \in Grades \cup {"storyboard"}
           /\ bars' \in Grades \cup {"storyboard"}
<1>1. /\ strength' = Grade(newText) /\ strength' \in Grades
      /\ strength' = "empty" <=> newText = Empty
  BY GradeShape DEF ShouldChange
<1>2. /\ hidden' = (newText = Empty) /\ eye' = (newText = Empty)
      /\ IF newText = Empty THEN label' = label /\ bars' = bars
         ELSE label' = Grade(newText) /\ bars' = Grade(newText)
  BY DEF ShouldChange, Show, Paint
<1>3. /\ hidden' \in BOOLEAN /\ eye' \in BOOLEAN
      /\ label' \in Grades \cup {"storyboard"}
      /\ bars' \in Grades \cup {"storyboard"}
  BY <1>1, <1>2 DEF FieldOK
<1>4. MeterAgrees'
  BY <1>1, <1>2 DEF MeterAgrees
<1> QED  BY <1>1, <1>3, <1>4

LEMMA FormInvStep == FormInv /\ [FormNext]_formVars => FormInv'
<1> SUFFICES ASSUME FormInv, [FormNext]_formVars PROVE FormInv'
  OBVIOUS
<1> USE DEF FormInv
<1>1. CASE Edit
  <2>1. PICK newText \in Passwords : ShouldChange(newText) /\ password' = newText
    BY <1>1 DEF Edit
  <2>2. secure' = secure /\ clears' = clears
    BY <1>1 DEF Edit
  <2> QED  BY <2>1, <2>2, AskedAbout DEF FieldOK
<1>2. CASE EditCleared
  <2>1. secure' = secure /\ clears' = FALSE
    BY <1>2 DEF EditCleared
  <2>2. PICK typed \in Passwords :
              /\ \E newText \in Replacing(password, typed) :
                    ShouldChange(newText)
              /\ password' = typed
    BY <1>2 DEF EditCleared
  <2>3. PICK newText \in Passwords : ShouldChange(newText)
    BY <2>2 DEF Replacing
  <2> QED  BY <2>1, <2>2, <2>3, AskedAbout DEF FieldOK
<1>3. CASE BeginEditing
  BY <1>3 DEF BeginEditing, FieldOK, MeterAgrees
<1>4. CASE togglePasswordVisibility
  <2>1. /\ password' = password /\ strength' = strength
        /\ label' = label /\ bars' = bars
        /\ hidden' = hidden /\ eye' = hidden
        /\ secure' \in BOOLEAN /\ clears' \in BOOLEAN
    BY <1>4 DEF togglePasswordVisibility, Show, FieldOK
  <2> QED  BY <2>1 DEF FieldOK, MeterAgrees
<1>5. CASE UNCHANGED formVars
  BY <1>5 DEF formVars, FieldOK, MeterAgrees
<1> QED  BY <1>1, <1>2, <1>3, <1>4, <1>5 DEF FormNext

LEMMA FormInductive == FormSpec => []FormInv
BY FormInvInit, FormInvStep, PTL DEF FormSpec

(* The outlets of SignUpViewController keep their types.                   *)
THEOREM FormTyped == FormSpec => []FormTypeOK
<1>1. FormInv => FormTypeOK
  BY DEF FormInv, FieldOK, FormTypeOK
<1> QED  BY <1>1, FormInductive, PTL

(* The label, the bars and the eye belong to one grade while the meter is  *)
(* visible (updatePasswordStrengthViews).                                  *)
THEOREM FormMeterAgrees == FormSpec => []MeterAgrees
<1>1. FormInv => MeterAgrees
  BY DEF FormInv
<1> QED  BY <1>1, FormInductive, PTL

(* What a step of the form may do to the rating.                           *)
Justified ==
    Understated' =>
        \/ Understated /\ UNCHANGED password
        \/ /\ clears /\ isPasswordValid(password')
           /\ count(password) + count(password') > 32

(* The meter, hidden or not, shows the strength found last.                *)
LEMMA ShowsStrength == FormInv => Shown = strength
BY DEF FormInv, MeterAgrees, Shown

LEMMA ShowsStrengthNext == FormInv' => Shown' = strength'
BY DEF FormInv, MeterAgrees, Shown

(* A text with s in it grades as high as s, unless it is too long.         *)
LEMMA ReplacedGrade ==
    ASSUME NEW p \in Passwords, NEW s \in Passwords,
           NEW q \in Replacing(p, s)
    PROVE  /\ q \in Passwords
           /\ ~isPasswordValid(s) => Rank[Grade(s)] <= Rank[Grade(q)]
           /\ isPasswordValid(s) /\ Grade(q) # "strong"
                 => count(p) + count(s) > 32
<1>1. /\ q \in Passwords /\ count(q) \in count(s) .. count(p) + count(s)
      /\ q.length >= s.length /\ (s.mixed => q.mixed)
  BY DEF Replacing
<1>2. /\ p.length \in Nat /\ p.padding \in {0, 1} /\ count(p) \in Nat
      /\ s.length \in Nat /\ s.padding \in {0, 1} /\ count(s) \in Nat
      /\ q.length \in Nat /\ q.padding \in {0, 1} /\ count(q) \in Nat
      /\ q.mixed \in BOOLEAN /\ s.mixed \in BOOLEAN
  BY <1>1, PasswordShape
<1>3. count(q) >= count(s) /\ count(q) <= count(p) + count(s)
  BY <1>1, <1>2
<1>4. ASSUME ~isPasswordValid(s) PROVE Rank[Grade(s)] <= Rank[Grade(q)]
  <2>1. CASE count(s) = 0
    BY <2>1, GradeShape, <1>1, Ranks DEF Grade, Grades
  <2>2. CASE count(s) # 0 /\ count(s) < 6
    <3>1. Grade(s) = "weak"
      BY <1>2, <1>4, <2>2 DEF Grade
    <3>2. Grade(q) \in {"weak", "medium", "strong"}
      BY <1>2, <1>3, <2>2 DEF Grade
    <3> QED  BY <3>1, <3>2, Ranks
  <2>3. CASE count(s) >= 6
    <3>1. Grade(s) = "medium"
      BY <1>2, <1>4, <2>3 DEF Grade
    <3>2. Grade(q) \in {"medium", "strong"}
      BY <1>2, <1>3, <2>3 DEF Grade
    <3> QED  BY <3>1, <3>2, Ranks
  <2> QED  BY <1>2, <2>1, <2>2, <2>3
<1>5. ASSUME isPasswordValid(s), Grade(q) # "strong"
      PROVE  count(p) + count(s) > 32
  <2>1. q.mixed /\ q.length >= 6 /\ count(q) >= q.length
    BY <1>1, <1>2, <1>5 DEF isPasswordValid, count
  <2>2. ~isPasswordValid(q)
    BY <1>2, <1>5, <2>1 DEF Grade
  <2>3. q.length > 32
    BY <1>2, <2>1, <2>2 DEF isPasswordValid
  <2> QED  BY <1>2, <1>3, <2>1, <2>3
<1> QED  BY <1>1, <1>4, <1>5

LEMMA FormJustified == FormInv /\ [FormNext]_formVars => [Justified]_formVars
<1> SUFFICES ASSUME FormInv, FormNext PROVE Justified
  OBVIOUS
<1>1. FormInv' /\ Shown' = strength' /\ Shown = strength
  BY FormInvStep, ShowsStrength, ShowsStrengthNext
<1>2. CASE Edit
  <2>1. PICK newText \in Passwords : ShouldChange(newText) /\ password' = newText
    BY <1>2 DEF Edit
  <2>2. strength' = Grade(password') /\ password' \in Passwords
    BY <2>1 DEF ShouldChange
  <2>3. /\ isPasswordValid(password') => strength' = "strong"
        /\ ~ (Rank[strength'] < Rank[Grade(password')])
    BY <2>2, GradeShape, Ranks DEF Grades
  <2> QED  BY <1>1, <2>3 DEF Justified, Understated
<1>3. CASE EditCleared
  <2>1. PICK typed \in Passwords :
              /\ \E newText \in Replacing(password, typed) :
                    ShouldChange(newText)
              /\ password' = typed
    BY <1>3 DEF EditCleared
  <2>2. PICK newText \in Replacing(password, typed) : ShouldChange(newText)
    BY <2>1
  <2>3. password \in Passwords /\ clears /\ strength' = Grade(newText)
    BY <1>3, <2>2 DEF FormInv, FieldOK, EditCleared, ShouldChange
  <2>4. CASE isPasswordValid(typed)
    <3>1. Grade(typed) = "strong"
      BY GradeShape, <2>4
    <3>2. Grade(newText) = "strong" \/ count(password) + count(typed) > 32
      BY ReplacedGrade, <2>3, <2>4
    <3>3. CASE Grade(newText) = "strong"
      BY <1>1, <2>1, <2>3, <3>1, <3>3, Ranks DEF Justified, Understated
    <3>4. CASE count(password) + count(typed) > 32
      BY <2>1, <2>3, <2>4, <3>4 DEF Justified
    <3> QED  BY <3>2, <3>3, <3>4
  <2>5. CASE ~isPasswordValid(typed)
    <3>1. /\ Rank[Grade(typed)] <= Rank[Grade(newText)]
          /\ Grade(newText) \in Grades /\ Grade(typed) \in Grades
      BY ReplacedGrade, <2>3, <2>5, GradeShape
    <3>2. ~ (Rank[Grade(newText)] < Rank[Grade(typed)])
      BY <3>1, Ranks DEF Grades
    <3> QED  BY <1>1, <2>1, <2>3, <2>5, <3>2 DEF Justified, Understated
  <2> QED  BY <2>4, <2>5
<1>4. CASE BeginEditing \/ togglePasswordVisibility
  <2>1. password' = password /\ strength' = strength
    BY <1>4 DEF BeginEditing, togglePasswordVisibility
  <2> QED  BY <1>1, <2>1 DEF Justified, Understated
<1> QED  BY <1>2, <1>3, <1>4 DEF FormNext

(* The meter begins to understate only when a valid password is put into a *)
(* field that UIKit clears for it, with the old text too long to be valid. *)
THEOREM FormUnderstates == FormSpec => UnderstatesOnlyTooLong
<1>1. FormSpec => [][Justified]_formVars
  BY FormJustified, FormInductive, PTL DEF FormSpec
<1>2. [][Justified]_formVars <=> UnderstatesOnlyTooLong
  BY DEF UnderstatesOnlyTooLong, Justified
<1> QED  BY <1>1, <1>2

-----------------------------------------------------------------------------
(* The overlays of home (HomeScreen).                                      *)

(* The part of the type invariant that the proofs need.                    *)
OverlaysOK ==
    /\ listHidden \in BOOLEAN /\ descriptionHidden \in BOOLEAN
    /\ selectedApp \in Apps \cup {NoApp}
    /\ described \in Apps \cup {NoApp}
    /\ pressed \subseteq Controls

HomeInv == OverlaysOK /\ DescriptionNamesSelection

LEMMA HomeInvInit == HomeInit => HomeInv
BY DEF HomeInit, HomeInv, OverlaysOK, DescriptionNamesSelection

LEMMA HomeInvStep == HomeInv /\ [HomeNext]_homeVars => HomeInv'
<1> SUFFICES ASSUME HomeInv, [HomeNext]_homeVars PROVE HomeInv'
  OBVIOUS
<1> USE DEF HomeInv, OverlaysOK, DescriptionNamesSelection
<1>1. ASSUME NEW x \in Controls, Press(x) \/ SlideOff(x) PROVE HomeInv'
  <2>1. pressed' \subseteq Controls
    BY <1>1 DEF Press, SlideOff, Lift
  <2> QED  BY <1>1, <2>1 DEF Press, SlideOff
<1>2. CASE showListView
  BY <1>2 DEF showListView, Lift
<1>3. CASE didTapCloseListView
  BY <1>3 DEF didTapCloseListView, Lift
<1>4. ASSUME NEW a \in Apps, didSelectRowAt(a) PROVE HomeInv'
  <2>1. /\ listHidden' = listHidden /\ pressed' \subseteq Controls
        /\ selectedApp' = a /\ descriptionHidden' = FALSE
    BY <1>4 DEF didSelectRowAt, Lift
  <2>2. a # NoApp
    BY NoAppAssumption
  <2>3. described' = a
    BY <1>4, <2>1, <2>2 DEF didSelectRowAt, update
  <2> QED  BY <2>1, <2>3
<1>5. CASE didTapCloseAppDescriptionView
  BY <1>5 DEF didTapCloseAppDescriptionView, Lift
<1>6. CASE UNCHANGED homeVars
  BY <1>6 DEF homeVars
<1> QED  BY <1>1, <1>2, <1>3, <1>4, <1>5, <1>6 DEF HomeNext

LEMMA HomeInductive == HomeSpec => []HomeInv
BY HomeInvInit, HomeInvStep, PTL DEF HomeSpec

(* A description on the screen is that of the row selected last, whichever *)
(* views were closed and reopened, and whichever fingers were lifted late, *)
(* in between (CustomListView.didSelectRowAt).                             *)
THEOREM HomeNamesSelection == HomeSpec => []DescriptionNamesSelection
<1>1. HomeInv => DescriptionNamesSelection
  BY DEF HomeInv
<1> QED  BY <1>1, HomeInductive, PTL

-----------------------------------------------------------------------------
(* The screens together (ScreenContents).                                  *)

ContentsInv == CarouselInv /\ FormInv /\ HomeInv

(* What a step of the whole is to each of the screens.                     *)
CarouselGoes ==
    \/ [CarouselNext]_carouselVars
    \/ \E shown \in BOOLEAN : CarouselResets(shown)
FormGoes == [FormNext]_formVars \/ FormResets
HomeGoes == [HomeNext]_homeVars \/ HomeResets

LEMMA EachScreenGoes ==
    [ContentsNext]_contentsVars => CarouselGoes /\ FormGoes /\ HomeGoes
<1> SUFFICES ASSUME [ContentsNext]_contentsVars
             PROVE  CarouselGoes /\ FormGoes /\ HomeGoes
  OBVIOUS
<1> USE DEF CarouselGoes, FormGoes, HomeGoes
<1>1. CASE didTapGetStartedButton
  BY <1>1 DEF didTapGetStartedButton, CarouselNext
<1>2. CASE handleCreateAccountTap \/ SignInAnswered
  BY <1>2 DEF handleCreateAccountTap, SignInAnswered
<1>3. CASE Back
  <2>1. [CarouselNext]_carouselVars
    BY <1>3 DEF Back, CarouselNext
  <2>2. FormGoes /\ HomeGoes
    BY <1>3 DEF Back
  <2> QED  BY <2>1, <2>2
<1>4. ASSUME NEW kind \in {"welcome", "tabs"}, RootReplaced(kind)
      PROVE  CarouselGoes /\ FormGoes /\ HomeGoes
  <2>1. CarouselResets(kind = "welcome") /\ (kind = "welcome") \in BOOLEAN
    BY <1>4 DEF RootReplaced
  <2>2. CarouselGoes
    <3> HIDE DEF CarouselGoes
    <3> SUFFICES \E shown \in BOOLEAN : CarouselResets(shown)
      BY DEF CarouselGoes
    <3> QED  BY <2>1
  <2>3. FormGoes /\ HomeGoes
    BY <1>4 DEF RootReplaced
  <2> QED  BY <2>2, <2>3
<1>5. CASE SlidesMove
  BY <1>5 DEF SlidesMove, CarouselNext
<1>6. CASE FormMoves
  BY <1>6 DEF FormMoves
<1>7. CASE HomeMoves
  BY <1>7 DEF HomeMoves
<1>8. CASE UNCHANGED contentsVars
  BY <1>8 DEF contentsVars
<1> QED
  BY <1>1, <1>2, <1>3, <1>4, <1>5, <1>6, <1>7, <1>8 DEF ContentsNext

LEMMA CarouselKept == CarouselInv /\ CarouselGoes => CarouselInv'
<1> SUFFICES ASSUME CarouselInv, NEW shown \in BOOLEAN, CarouselResets(shown)
             PROVE  CarouselInv'
  BY CarouselInvStep DEF CarouselGoes
<1> QED  BY FirstPage DEF CarouselResets, CarouselInv, PagesOK, DotFollows,
                         TimerOnlyOnScreen

(* A form that starts afresh is in an initial state of its own.            *)
LEMMA FormKept == FormInv /\ FormGoes => FormInv'
<1> SUFFICES ASSUME FormResets PROVE FormInv'
  BY FormInvStep DEF FormGoes
<1>1. FormInit'
  BY DEF FormInit, FormResets
<1>2. FieldOK'
  BY <1>1, EmptyTyped DEF FormInit, FieldOK, Grades
<1>3. MeterAgrees'
  BY <1>1 DEF FormInit, MeterAgrees
<1> QED  BY <1>2, <1>3 DEF FormInv

LEMMA HomeKept == HomeInv /\ HomeGoes => HomeInv'
<1> SUFFICES ASSUME HomeResets PROVE HomeInv'
  BY HomeInvStep DEF HomeGoes
<1> QED  BY DEF HomeResets, HomeInv, OverlaysOK, DescriptionNamesSelection

LEMMA ContentsInductive == ContentsSpec => []ContentsInv
<1>1. ContentsInit => ContentsInv
  BY CarouselInvInit, FormInvInit, HomeInvInit DEF ContentsInit, ContentsInv
<1>2. ContentsInv /\ [ContentsNext]_contentsVars => ContentsInv'
  BY EachScreenGoes, CarouselKept, FormKept, HomeKept DEF ContentsInv
<1> QED  BY <1>1, <1>2, PTL DEF ContentsSpec

(* No screen's state is damaged by what navigation does to the others:     *)
(* a covered carousel has no timer, the meter's parts agree, and the       *)
(* description names the row that was selected last.                       *)
THEOREM ContentsAreConsistent == ContentsSpec => []ContentsConsistent
<1>1. ContentsInv => ContentsConsistent
  <2>1. CarouselInv => CarouselTypeOK /\ TimerOnlyOnScreen
    BY DEF CarouselInv, PagesOK, CarouselTypeOK
  <2>2. FormInv => FormTypeOK /\ MeterAgrees
    BY DEF FormInv, FieldOK, FormTypeOK
  <2>3. HomeInv => HomeTypeOK /\ DescriptionNamesSelection
    BY DEF HomeInv, OverlaysOK, HomeTypeOK
  <2> QED  BY <2>1, <2>2, <2>3 DEF ContentsInv, ContentsConsistent
<1> QED  BY <1>1, ContentsInductive, PTL

(* The meter of a form that is covered, uncovered or made anew begins to   *)
(* understate no earlier than that of one that is left alone.              *)
THEOREM ContentsUnderstate == ContentsSpec => UnderstatesOnlyTooLong
<1>1. ContentsInv /\ [ContentsNext]_contentsVars => [Justified]_formVars
  <2> SUFFICES ASSUME FormInv, FormGoes PROVE [Justified]_formVars
    BY EachScreenGoes DEF ContentsInv
  <2>1. CASE [FormNext]_formVars
    BY <2>1, FormJustified
  <2>2. CASE FormResets
    <3>1. password' = Empty /\ Shown' = "empty"
      BY <2>2 DEF FormResets, Shown
    <3>2. Grade(password') = "empty" /\ ~isPasswordValid(password')
      BY <3>1, EmptyTyped DEF isPasswordValid, Empty, Password
    <3> QED  BY <3>1, <3>2, Ranks DEF Justified, Understated
  <2> QED  BY <2>1, <2>2 DEF FormGoes
<1>2. ContentsSpec => [][Justified]_formVars
  BY <1>1, ContentsInductive, PTL DEF ContentsSpec
<1>3. [][Justified]_formVars <=> UnderstatesOnlyTooLong
  BY DEF UnderstatesOnlyTooLong, Justified
<1> QED  BY <1>2, <1>3

(* A page that comes to rest rests under its own dot, also behind the      *)
(* login screen and when a new root replaces the screen in mid scroll.     *)
THEOREM ContentsRest == ContentsSpec => RestsUnderItsDot
<1>1. ContentsInv /\ [ContentsNext]_contentsVars => [Rests]_carouselVars
  <2> SUFFICES ASSUME CarouselInv, CarouselGoes
               PROVE  [Rests]_carouselVars
    BY EachScreenGoes DEF ContentsInv
  <2>1. CASE [CarouselNext]_carouselVars
    BY <2>1, CarouselStops
  <2>2. ASSUME NEW shown \in BOOLEAN, CarouselResets(shown) PROVE Rests
    BY <2>2 DEF CarouselResets, Rests
  <2> QED  BY <2>1, <2>2 DEF CarouselGoes
<1>2. ContentsSpec => [][Rests]_carouselVars
  BY <1>1, ContentsInductive, PTL DEF ContentsSpec
<1>3. [][Rests]_carouselVars <=> RestsUnderItsDot
  BY DEF RestsUnderItsDot, Rests
<1> QED  BY <1>2, <1>3

-----------------------------------------------------------------------------
(* The flow between the screens (ScreenFlow).                              *)

ScreenRecords == [id : Screens, kind : Kinds]
FadeRecords == [target : {"welcome", "tabs"}, phase : {"posted", "fading"}]
CallRecords == [kind : {"none", "signIn", "register"},
                by : Screens \cup {NoScreen},
                stage : {"idle", "sent", "signedIn", "done"}]

(* The login closure of a call that is not answered holds a login screen:  *)
(* where its identity is on the stack, that is what it names.  An answer   *)
(* that came needed a session.                                             *)
CallsMatch ==
    /\ \A c \in Calls : \A i \in DOMAIN stack :
          (/\ calls[c].kind = "signIn" /\ calls[c].stage \in {"sent", "signedIn"}
           /\ stack[i].id = calls[c].by) => stack[i].kind = "login"
    /\ \A c \in Calls : calls[c].stage \in {"sent", "signedIn"}
                            => calls[c].by \in Screens
    /\ \A c \in Calls : calls[c].stage = "signedIn" => session # "none"

FlowInv == TypeOK /\ StackShape /\ CallsMatch
           /\ HomeNeedsSession /\ VisibleWithoutFade

-----------------------------------------------------------------------------
(* The operators on sequences that the flow is built from.                 *)

LEMMA AppendShape ==
    ASSUME NEW S, NEW q \in Seq(S), NEW m \in S
    PROVE  /\ Append(q, m) \in Seq(S)
           /\ Len(Append(q, m)) = Len(q) + 1
           /\ DOMAIN Append(q, m) = 1 .. Len(q) + 1
           /\ DOMAIN q = 1 .. Len(q)
           /\ Len(q) \in Nat
           /\ \A i \in 1 .. Len(q) : Append(q, m)[i] = q[i]
           /\ Append(q, m)[Len(q) + 1] = m
OBVIOUS

LEMMA FrontShape ==
    ASSUME NEW S, NEW q \in Seq(S), Len(q) > 0
    PROVE  /\ Front(q) \in Seq(S)
           /\ Len(Front(q)) = Len(q) - 1
           /\ DOMAIN Front(q) = 1 .. Len(q) - 1
           /\ DOMAIN q = 1 .. Len(q)
           /\ \A i \in 1 .. Len(q) - 1 : Front(q)[i] = q[i]
<1> DEFINE n == Len(q)
           f == SubSeq(q, 1, n - 1)
<1>1. /\ n \in Nat /\ n > 0 /\ DOMAIN q = 1 .. n
      /\ \A i \in 1 .. n : q[i] \in S
  BY LenProperties, ElementOfSeq
<1> HIDE DEF n
<1>2. n - 1 \in Int /\ \A i \in 1 .. n - 1 : q[i] \in S
  BY <1>1
<1>3. /\ f \in Seq(S)
      /\ Len(f) = IF 1 <= n - 1 THEN n - 1 - 1 + 1 ELSE 0
      /\ \A i \in 1 .. n - 1 - 1 + 1 : f[i] = q[1 + i - 1]
  BY <1>2, SubSeqProperties
<1> HIDE DEF f
<1>4. Len(f) = n - 1 /\ \A i \in 1 .. n - 1 : f[i] = q[i]
  BY <1>1, <1>3
<1>5. DOMAIN f = 1 .. n - 1
  BY <1>3, <1>4, LenProperties
<1>6. Front(q) = f
  BY DEF Front, f, n
<1> QED  BY <1>1, <1>3, <1>4, <1>5, <1>6 DEF n

(* What is left of a sequence was in it.                                   *)
LEMMA RemoveAtShape ==
    ASSUME NEW S, NEW q \in Seq(S), NEW i \in 1 .. Len(q)
    PROVE  /\ RemoveAt(q, i) \in Seq(S)
           /\ \A j \in DOMAIN RemoveAt(q, i) :
                  \E k \in DOMAIN q : RemoveAt(q, i)[j] = q[k]
<1> DEFINE n == Len(q)
           a == SubSeq(q, 1, i - 1)
           b == SubSeq(q, i + 1, n)
           r == a \o b
<1>1. /\ n \in Nat /\ i \in 1 .. n /\ DOMAIN q = 1 .. n
      /\ \A j \in 1 .. n : q[j] \in S
  BY LenProperties, ElementOfSeq
<1> HIDE DEF n
<1>2. /\ a \in Seq(S)
      /\ \A j \in 1 .. Len(a) : a[j] = q[j] /\ j \in 1 .. n
  <2>1. i - 1 \in Int /\ \A j \in 1 .. i - 1 : q[j] \in S
    BY <1>1
  <2>2. /\ a \in Seq(S)
        /\ Len(a) = IF 1 <= i - 1 THEN i - 1 - 1 + 1 ELSE 0
        /\ \A j \in 1 .. i - 1 - 1 + 1 : a[j] = q[1 + j - 1]
    BY <2>1, SubSeqProperties
  <2> HIDE DEF a
  <2> QED  BY <1>1, <2>2
<1>3. /\ b \in Seq(S)
      /\ \A j \in 1 .. Len(b) : b[j] = q[i + j] /\ i + j \in 1 .. n
  <2>1. /\ i + 1 \in Int /\ n \in Int
        /\ \A j \in i + 1 .. n : q[j] \in S
    BY <1>1
  <2>2. /\ b \in Seq(S)
        /\ Len(b) = IF i + 1 <= n THEN n - (i + 1) + 1 ELSE 0
        /\ \A j \in 1 .. n - (i + 1) + 1 : b[j] = q[i + 1 + j - 1]
    BY <2>1, SubSeqProperties
  <2> HIDE DEF b
  <2>3. Len(b) = n - i
    BY <1>1, <2>2
  <2>4. \A j \in 1 .. n - i : b[j] = q[i + 1 + j - 1]
    BY <1>1, <2>2
  <2>5. \A j \in 1 .. n - i : i + 1 + j - 1 = i + j /\ i + j \in 1 .. n
    BY <1>1
  <2> QED  BY <2>2, <2>3, <2>4, <2>5
<1>4. Len(a) \in Nat /\ Len(b) \in Nat
  BY <1>2, <1>3, LenProperties
<1> HIDE DEF a, b
<1>5. /\ r \in Seq(S)
      /\ Len(r) = Len(a) + Len(b)
      /\ \A j \in 1 .. Len(a) + Len(b) :
             r[j] = IF j <= Len(a) THEN a[j] ELSE b[j - Len(a)]
  BY <1>2, <1>3, ConcatProperties
<1>6. DOMAIN r = 1 .. Len(a) + Len(b)
  BY <1>5, LenProperties
<1> HIDE DEF r
<1>7. ASSUME NEW j \in 1 .. Len(a) + Len(b)
      PROVE  \E k \in 1 .. n : r[j] = q[k]
  <2>1. CASE j <= Len(a)
    BY <1>2, <1>4, <1>5, <2>1
  <2>2. CASE j > Len(a)
    <3>1. r[j] = b[j - Len(a)] /\ j - Len(a) \in 1 .. Len(b)
      BY <1>4, <1>5, <2>2
    <3>2. /\ b[j - Len(a)] = q[i + (j - Len(a))]
          /\ i + (j - Len(a)) \in 1 .. n
      BY <1>3, <3>1
    <3> QED  BY <3>1, <3>2
  <2> QED  BY <1>4, <2>1, <2>2
<1>8. RemoveAt(q, i) = r
  BY DEF RemoveAt, r, a, b, n
<1> QED  BY <1>1, <1>5, <1>6, <1>7, <1>8

(* A new screen is on the stack nowhere, and no unanswered call names it.  *)
LEMMA FreshApart ==
    ASSUME NEW s \in Fresh
    PROVE  /\ s \in Screens
           /\ \A i \in DOMAIN stack : stack[i].id # s
           /\ \A c \in Calls : calls[c].stage # "done" => calls[c].by # s
BY DEF Fresh, Ids

LEMMA NewRootShape ==
    /\ NewRoot \in FadeRecords
    /\ NewRoot.phase = "posted"
    /\ NewRoot.target = "tabs" <=> SomebodySignedIn
BY DEF NewRoot, Fade, FadeRecords

LEMMA FadesTyped ==
    ASSUME TypeOK
    PROVE  /\ fades \in Seq(FadeRecords)
           /\ DOMAIN fades = 1 .. Len(fades)
           /\ \A i \in DOMAIN fades :
                  /\ fades[i] \in FadeRecords
                  /\ fades[i].target \in {"welcome", "tabs"}
                  /\ fades[i].phase \in {"posted", "fading"}
<1>1. fades \in Seq(FadeRecords)
  BY DEF TypeOK, FadeRecords
<1>2. DOMAIN fades = 1 .. Len(fades)
  BY <1>1, LenProperties
<1>3. \A i \in DOMAIN fades : fades[i] \in FadeRecords
  BY <1>1, <1>2, ElementOfSeq
<1> QED  BY <1>1, <1>2, <1>3 DEF FadeRecords

(* A posted fade starts.                                                   *)
LEMMA FadeStarts ==
    ASSUME TypeOK, NEW i \in DOMAIN fades,
           fades' = [fades EXCEPT ![i].phase = "fading"]
    PROVE  /\ fades' \in Seq(FadeRecords)
           /\ DOMAIN fades' = DOMAIN fades
           /\ Len(fades') = Len(fades)
           /\ fades'[i].phase = "fading"
           /\ \A j \in DOMAIN fades : fades'[j].target = fades[j].target
<1> DEFINE f == [fades[i] EXCEPT !.phase = "fading"]
<1>1. /\ f \in FadeRecords /\ f.phase = "fading"
      /\ f.target = fades[i].target
  BY FadesTyped DEF FadeRecords
<1>2. fades' = [fades EXCEPT ![i] = f]
  OBVIOUS
<1> HIDE DEF f
<1>3. i \in 1 .. Len(fades) /\ fades \in Seq(FadeRecords)
  BY FadesTyped
<1>4. /\ fades' \in Seq(FadeRecords)
      /\ Len(fades') = Len(fades)
      /\ \A j \in 1 .. Len(fades) :
             fades'[j] = IF j = i THEN f ELSE fades[j]
  BY <1>1, <1>2, <1>3, ExceptSeq
<1>5. DOMAIN fades' = 1 .. Len(fades)
  BY <1>4, LenProperties
<1> QED  BY <1>1, <1>3, <1>4, <1>5, FadesTyped

-----------------------------------------------------------------------------
(* Pushing a new screen.                                                   *)
LEMMA PushKeepsShape ==
    ASSUME TypeOK, StackShape, CallsMatch, NEW s \in Fresh, NEW k \in Kinds,
           Push(s, k),
           \/ k = "login" /\ Len(stack) = 1
           \/ k = "signUp" /\ Len(stack) = 2
           \/ k = "tabs" /\ Len(stack) >= 2,
           stack[1].kind # "tabs"
    PROVE  /\ stack' \in Seq(ScreenRecords)
           /\ StackShape'
           /\ \A i \in DOMAIN stack' :
                  \/ i \in DOMAIN stack /\ stack'[i] = stack[i]
                  \/ stack'[i] = Screen(s, k)
<1>1. Screen(s, k) \in ScreenRecords /\ Screen(s, k).id = s
      /\ Screen(s, k).kind = k
  BY FreshApart DEF Screen, ScreenRecords
<1>2. stack \in Seq(ScreenRecords) /\ stack # <<>>
  BY DEF TypeOK, ScreenRecords, StackShape
<1>3. /\ stack' \in Seq(ScreenRecords)
      /\ Len(stack') = Len(stack) + 1
      /\ DOMAIN stack' = 1 .. Len(stack) + 1
      /\ DOMAIN stack = 1 .. Len(stack)
      /\ Len(stack) \in Nat
      /\ \A i \in 1 .. Len(stack) : stack'[i] = stack[i]
      /\ stack'[Len(stack) + 1] = Screen(s, k)
  BY <1>1, <1>2, AppendShape DEF Push
<1>4. Len(stack) >= 1
  BY <1>2
<1>5. \A i \in 2 .. Len(stack') :
          \/ stack'[i].kind = "login" /\ i = 2
          \/ stack'[i].kind = "signUp" /\ i = 3
          \/ stack'[i].kind = "tabs" /\ i > 2
  <2> SUFFICES ASSUME NEW i \in 2 .. Len(stack')
               PROVE  \/ stack'[i].kind = "login" /\ i = 2
                      \/ stack'[i].kind = "signUp" /\ i = 3
                      \/ stack'[i].kind = "tabs" /\ i > 2
    OBVIOUS
  <2>1. CASE i \in 2 .. Len(stack)
    BY <1>3, <2>1 DEF StackShape
  <2>2. CASE i = Len(stack) + 1
    BY <1>1, <1>3, <2>2
  <2> QED  BY <1>3, <2>1, <2>2
<1>6. \A i, j \in DOMAIN stack' : stack'[i].id = stack'[j].id => i = j
  <2>1. \A i \in 1 .. Len(stack) : stack'[i].id # s /\ stack'[i].id = stack[i].id
    BY <1>3, FreshApart
  <2>2. stack'[Len(stack) + 1].id = s
    BY <1>1, <1>3
  <2>3. \A i, j \in 1 .. Len(stack) : stack[i].id = stack[j].id => i = j
    BY <1>3 DEF StackShape
  <2> QED  BY <1>3, <2>1, <2>2, <2>3
<1>7. stack' # <<>> /\ stack'[1] = stack[1]
  BY <1>3, <1>4
<1> QED  BY <1>3, <1>5, <1>6, <1>7 DEF StackShape

(* A push leaves what unanswered calls name as it was.                     *)
LEMMA PushKeepsCalls ==
    ASSUME TypeOK, CallsMatch, NEW s \in Fresh, NEW k \in Kinds,
           \A i \in DOMAIN stack' :
               \/ i \in DOMAIN stack /\ stack'[i] = stack[i]
               \/ stack'[i] = Screen(s, k),
           \A c \in Calls : \/ calls'[c] = calls[c]
                            \/ calls'[c].stage = "done",
           session' = session
    PROVE  CallsMatch'
<1>1. Screen(s, k).id = s
  BY DEF Screen
<1>2. ASSUME NEW c \in Calls, NEW i \in DOMAIN stack',
             calls'[c].kind = "signIn", calls'[c].stage \in {"sent", "signedIn"},
             stack'[i].id = calls'[c].by
      PROVE  stack'[i].kind = "login"
  <2>1. calls'[c] = calls[c] /\ calls[c].by # s
    BY <1>2, FreshApart
  <2>2. i \in DOMAIN stack /\ stack'[i] = stack[i]
    BY <1>1, <1>2, <2>1
  <2> QED  BY <1>2, <2>1, <2>2 DEF CallsMatch
<1> QED  BY <1>2 DEF CallsMatch

(* What the kind of the top screen says of the stack.                      *)
LEMMA TopShape ==
    ASSUME TypeOK, StackShape
    PROVE  /\ Len(stack) \in Nat /\ Len(stack) >= 1
           /\ DOMAIN stack = 1 .. Len(stack)
           /\ Top = stack[Len(stack)]
           /\ Top \in ScreenRecords
           /\ Top.kind \in {"welcome", "login", "signUp"}
                  => stack[1].kind # "tabs"
           /\ Top.kind = "welcome" => Len(stack) = 1
           /\ Top.kind = "login" => Len(stack) = 2
           /\ Len(stack) >= 2 => stack[1].kind # "tabs"
<1>1. stack \in Seq(ScreenRecords) /\ stack # <<>>
  BY DEF TypeOK, ScreenRecords, StackShape
<1>2. /\ Len(stack) \in Nat /\ Len(stack) >= 1
      /\ DOMAIN stack = 1 .. Len(stack)
      /\ stack[Len(stack)] \in ScreenRecords
  BY <1>1
<1>3. Top = stack[Len(stack)]
  BY DEF Top, Last
<1>4. CASE Len(stack) = 1
  BY <1>2, <1>3, <1>4 DEF StackShape
<1>5. CASE Len(stack) >= 2
  <2>1. Len(stack) \in 2 .. Len(stack)
    BY <1>2, <1>5
  <2>2. \/ Top.kind = "login" /\ Len(stack) = 2
        \/ Top.kind = "signUp" /\ Len(stack) = 3
        \/ Top.kind = "tabs" /\ Len(stack) > 2
    BY <1>3, <2>1 DEF StackShape
  <2>3. stack[1].kind # "tabs"
    BY <1>2, <1>5 DEF StackShape
  <2> QED  BY <1>2, <1>3, <2>2, <2>3
<1> QED  BY <1>2, <1>4, <1>5

-----------------------------------------------------------------------------
(* Types *)

LEMMA FlowTypeStep ==
    TypeOK /\ StackShape /\ CallsMatch /\ [Next]_vars => TypeOK'
<1> SUFFICES ASSUME TypeOK, StackShape, CallsMatch, [Next]_vars PROVE TypeOK'
  OBVIOUS
<1>t. /\ session \in {"none", "active", "revoked", "again"}
      /\ stack \in Seq(ScreenRecords)
      /\ barHidden \in BOOLEAN /\ opacity \in {0, 1}
      /\ fades \in Seq(FadeRecords) /\ alerts \in Seq(Screens)
      /\ alertUp \in BOOLEAN /\ calls \in [Calls -> CallRecords]
  BY DEF TypeOK, ScreenRecords, FadeRecords, CallRecords
<1> DEFINE Typed ==
      /\ session \in {"none", "active", "revoked", "again"}
      /\ stack \in Seq(ScreenRecords)
      /\ barHidden \in BOOLEAN /\ opacity \in {0, 1}
      /\ fades \in Seq(FadeRecords) /\ alerts \in Seq(Screens)
      /\ alertUp \in BOOLEAN /\ calls \in [Calls -> CallRecords]
<1>d. Typed' => TypeOK'
  BY DEF TypeOK, ScreenRecords, FadeRecords, CallRecords
<1>0. \A s \in Fresh, k \in Kinds : Screen(s, k) \in ScreenRecords
  BY FreshApart DEF Screen, ScreenRecords
<1>1. CASE TapGetStarted \/ TapCreateAccount
  <2>1. PICK s \in Fresh, k \in Kinds : stack' = Append(stack, Screen(s, k))
    BY <1>1 DEF TapGetStarted, TapCreateAccount, Push, Kinds
  <2>2. stack' \in Seq(ScreenRecords)
    BY <2>1, <1>0, <1>t, AppendShape
  <2> QED  BY <1>1, <1>d, <1>t, <2>2 DEF TapGetStarted, TapCreateAccount
<1>2. CASE GoBack
  <2>1. stack' \in Seq(ScreenRecords)
    BY <1>2, <1>t, FrontShape, TopShape DEF GoBack
  <2> QED  BY <1>2, <1>d, <1>t, <2>1 DEF GoBack
<1>3. ASSUME NEW c \in Calls, TapSubmit(c) PROVE TypeOK'
  <2>1. Top.id \in Screens
    BY TopShape DEF ScreenRecords
  <2>2. calls' \in [Calls -> CallRecords]
    BY <1>3, <1>t, <2>1 DEF TapSubmit, CallRecords
  <2> QED  BY <1>3, <1>d, <1>t, <2>2 DEF TapSubmit
<1>4. CASE TapSubmitInvalid
  <2>1. Top.id \in Screens
    BY TopShape DEF ScreenRecords
  <2>2. alerts' \in Seq(Screens)
    BY <1>4, <2>1 DEF TapSubmitInvalid
  <2> QED  BY <1>4, <1>d, <1>t, <2>2 DEF TapSubmitInvalid
<1>5. CASE DismissAlert \/ SessionRestored \/ SessionRevoked
  BY <1>5, <1>d, <1>t DEF DismissAlert, SessionRestored, SessionRevoked
<1>6. ASSUME NEW c \in Calls, SignedIn(c) PROVE TypeOK'
  <2>1. calls' \in [Calls -> CallRecords]
    BY <1>6, <1>t DEF SignedIn, CallRecords
  <2> QED  BY <1>6, <1>d, <1>t, <2>1 DEF SignedIn
<1>7. ASSUME NEW c \in Calls, Arrives(c) PROVE TypeOK'
  <2>1. calls' \in [Calls -> CallRecords]
    BY <1>7, <1>t DEF Arrives, SignInSucceeds, SignInFails, RegisterSucceeds,
                      RegisterFails, Answer, CallRecords
  <2>2. CASE SignInSucceeds(c)
    <3>0. \/ stack' = stack
          \/ \E s \in Fresh, k \in Kinds : stack' = Append(stack, Screen(s, k))
      BY <2>2 DEF SignInSucceeds, Push, Kinds
    <3>1. stack' \in Seq(ScreenRecords)
      BY <3>0, <1>0, <1>t, AppendShape
    <3> QED  BY <2>1, <2>2, <3>1, <1>d, <1>t DEF SignInSucceeds
  <2>3. CASE SignInFails(c) \/ RegisterFails(c)
    <3>1. calls[c].by \in Screens
      BY <2>3 DEF SignInFails, RegisterFails, CallsMatch
    <3>2. alerts' \in {alerts, Append(alerts, calls[c].by)}
      BY <2>3 DEF SignInFails, RegisterFails
    <3>3. Append(alerts, calls[c].by) \in Seq(Screens)
      BY <3>1, <1>t
    <3> QED  BY <2>1, <2>3, <3>2, <3>3, <1>d, <1>t DEF SignInFails, RegisterFails
  <2>4. CASE RegisterSucceeds(c)
    <3>1. fades' \in Seq(FadeRecords)
      BY <2>4, <1>t, NewRootShape, AppendShape
         DEF RegisterSucceeds, CheckAuthentication
    <3> QED  BY <2>1, <2>4, <3>1, <1>d, <1>t DEF RegisterSucceeds
  <2> QED  BY <1>7, <2>2, <2>3, <2>4 DEF Arrives
<1>8. CASE PresentAlert
  <2>1. alerts' \in Seq(Screens)
    BY <1>8, <1>t DEF PresentAlert
  <2> QED  BY <1>8, <1>d, <1>t, <2>1 DEF PresentAlert
<1>9. CASE StartFade
  <2>1. PICK i \in DOMAIN fades : fades' = [fades EXCEPT ![i].phase = "fading"]
    BY <1>9 DEF StartFade
  <2>2. fades' \in Seq(FadeRecords)
    BY <2>1, FadeStarts
  <2> QED  BY <1>9, <1>d, <1>t, <2>2 DEF StartFade
<1>10. CASE FinishFade
  <2>1. PICK i \in DOMAIN fades :
            /\ \E s \in Fresh : stack' = <<Screen(s, fades[i].target)>>
            /\ barHidden' = (fades[i].target = "tabs")
            /\ fades' = RemoveAt(fades, i)
    BY <1>10 DEF FinishFade
  <2>2. fades[i].target \in Kinds /\ i \in 1 .. Len(fades)
    BY <2>1, FadesTyped DEF Kinds
  <2>3. stack' \in Seq(ScreenRecords)
    BY <1>0, <2>1, <2>2
  <2>4. fades' \in Seq(FadeRecords)
    BY <1>t, <2>1, <2>2, RemoveAtShape
  <2> QED  BY <1>10, <1>d, <1>t, <2>1, <2>3, <2>4 DEF FinishFade
<1>11. CASE UNCHANGED vars
  BY <1>11, <1>d, <1>t DEF vars
<1> QED
  BY <1>1, <1>2, <1>3, <1>4, <1>5, <1>6, <1>7, <1>8, <1>9, <1>10, <1>11 DEF Next

-----------------------------------------------------------------------------
(* The stack *)

LEMMA FlowShapeStep ==
    TypeOK /\ StackShape /\ CallsMatch /\ [Next]_vars
        => StackShape' /\ CallsMatch'
<1> SUFFICES ASSUME TypeOK, StackShape, CallsMatch, [Next]_vars
             PROVE  StackShape' /\ CallsMatch'
  OBVIOUS
<1>t. /\ stack \in Seq(ScreenRecords) /\ fades \in Seq(FadeRecords)
      /\ calls \in [Calls -> CallRecords]
  BY DEF TypeOK, ScreenRecords, FadeRecords, CallRecords
<1>1. CASE TapGetStarted
  <2>1. PICK s \in Fresh : Push(s, "login")
    BY <1>1 DEF TapGetStarted
  <2>2. "login" \in Kinds /\ Len(stack) = 1 /\ stack[1].kind # "tabs"
    BY <1>1, TopShape DEF TapGetStarted, Kinds
  <2> QED  BY <1>1, <2>1, <2>2, PushKeepsShape, PushKeepsCalls DEF TapGetStarted
<1>2. CASE TapCreateAccount
  <2>1. PICK s \in Fresh : Push(s, "signUp")
    BY <1>2 DEF TapCreateAccount
  <2>2. "signUp" \in Kinds /\ Len(stack) = 2 /\ stack[1].kind # "tabs"
    BY <1>2, TopShape DEF TapCreateAccount, Kinds
  <2> QED  BY <1>2, <2>1, <2>2, PushKeepsShape, PushKeepsCalls DEF TapCreateAccount
<1>3. CASE GoBack
  <2>1. /\ Len(stack) \in Nat /\ Len(stack) > 1 /\ Len(stack) > 0
        /\ DOMAIN stack = 1 .. Len(stack)
        /\ calls' = calls /\ session' = session
        /\ stack' = Front(stack)
    BY <1>3, TopShape DEF GoBack
  <2>2. /\ Len(stack') = Len(stack) - 1
        /\ DOMAIN stack' = 1 .. Len(stack) - 1
        /\ \A i \in 1 .. Len(stack) - 1 : stack'[i] = stack[i]
    BY <1>t, <2>1, FrontShape
  <2>3. stack' # <<>> /\ stack'[1] = stack[1]
    BY <2>1, <2>2
  <2>4. stack'[1].kind = "tabs" => Len(stack') = 1
    BY <2>1, <2>3, TopShape
  <2>5. \A i \in 2 .. Len(stack') : i \in 2 .. Len(stack) /\ stack'[i] = stack[i]
    BY <2>1, <2>2
  <2>6. \A i, j \in DOMAIN stack' : stack'[i].id = stack'[j].id => i = j
    BY <2>1, <2>2 DEF StackShape
  <2>7. StackShape'
    BY <2>3, <2>4, <2>5, <2>6 DEF StackShape
  <2>8. CallsMatch'
    BY <2>1, <2>2 DEF CallsMatch
  <2> QED  BY <2>7, <2>8
<1>4. ASSUME NEW c \in Calls, SignInSucceeds(c) PROVE StackShape' /\ CallsMatch'
  <2>1. /\ calls[c].kind = "signIn" /\ calls[c].stage = "signedIn"
        /\ session' = session
        /\ calls'[c].stage = "done"
        /\ \A d \in Calls : d # c => calls'[d] = calls[d]
    BY <1>4, <1>t DEF SignInSucceeds, Answer, CallRecords
  <2>2. CASE UNCHANGED stack
    BY <2>1, <2>2 DEF StackShape, CallsMatch
  <2>3. CASE calls[c].by \in Ids /\ \E s \in Fresh : Push(s, "tabs")
    <3>1. PICK s \in Fresh : Push(s, "tabs")
      BY <2>3
    <3>2. PICK i \in DOMAIN stack : stack[i].id = calls[c].by
      BY <2>3 DEF Ids
    <3>3. stack[i].kind = "login"
      BY <2>1, <3>2 DEF CallsMatch
    <3>4. Len(stack) >= 2 /\ stack[1].kind # "tabs"
      BY <3>2, <3>3, TopShape DEF StackShape
    <3> QED
      BY <2>1, <3>1, <3>4, PushKeepsShape, PushKeepsCalls DEF Kinds
  <2> QED  BY <1>4, <2>2, <2>3 DEF SignInSucceeds
<1>5. ASSUME NEW c \in Calls, TapSubmit(c) PROVE StackShape' /\ CallsMatch'
  <2>1. /\ stack' = stack /\ session' = session
        /\ calls'[c].kind = IF Top.kind = "login" THEN "signIn" ELSE "register"
        /\ calls'[c].by = Top.id /\ calls'[c].stage = "sent"
        /\ \A d \in Calls : d # c => calls'[d] = calls[d]
    BY <1>5, <1>t DEF TapSubmit
  <2>2. Top.id \in Screens
    BY TopShape DEF ScreenRecords
  <2>3. \A i \in DOMAIN stack : stack[i].id = Top.id => stack[i] = Top
    BY TopShape DEF StackShape
  <2> QED  BY <2>1, <2>2, <2>3 DEF StackShape, CallsMatch
<1>6. ASSUME NEW c \in Calls, SignedIn(c) PROVE StackShape' /\ CallsMatch'
  <2>1. /\ stack' = stack /\ session' # "none"
        /\ calls[c].stage = "sent" /\ calls'[c].stage = "signedIn"
        /\ calls'[c].kind = calls[c].kind /\ calls'[c].by = calls[c].by
        /\ \A d \in Calls : d # c => calls'[d] = calls[d]
    BY <1>6, <1>t DEF SignedIn, CallRecords
  <2> QED  BY <2>1 DEF StackShape, CallsMatch
<1>7. ASSUME NEW c \in Calls, SignInFails(c) \/ RegisterSucceeds(c) \/ RegisterFails(c)
      PROVE StackShape' /\ CallsMatch'
  <2>1. /\ stack' = stack /\ session' = session
        /\ calls'[c].stage = "done"
        /\ \A d \in Calls : d # c => calls'[d] = calls[d]
    BY <1>7, <1>t DEF SignInFails, RegisterSucceeds, RegisterFails, Answer,
                      CallRecords
  <2> QED  BY <2>1 DEF StackShape, CallsMatch
<1>8. CASE FinishFade
  <2>1. /\ session' = session /\ calls' = calls
        /\ \E i \in DOMAIN fades, s \in Fresh :
               stack' = <<Screen(s, fades[i].target)>>
    BY <1>8 DEF FinishFade
  <2>2. PICK i \in DOMAIN fades, s \in Fresh :
            stack' = <<Screen(s, fades[i].target)>>
    BY <2>1
  <2>3. /\ Len(stack') = 1 /\ DOMAIN stack' = {1} /\ stack' # <<>>
        /\ stack'[1].id = s /\ stack'[1].kind = fades[i].target
        /\ fades[i].target \in {"welcome", "tabs"}
    BY <2>2, FadesTyped DEF Screen
  <2>4. StackShape'
    BY <2>3 DEF StackShape
  <2>5. CallsMatch'
    BY <2>1, <2>3, FreshApart DEF CallsMatch
  <2> QED  BY <2>4, <2>5
<1>9. CASE \/ TapSubmitInvalid \/ DismissAlert \/ SessionRestored
           \/ SessionRevoked \/ PresentAlert \/ StartFade \/ UNCHANGED vars
  <2>1. /\ stack' = stack /\ calls' = calls
        /\ session # "none" => session' # "none"
    BY <1>9 DEF TapSubmitInvalid, DismissAlert, SessionRestored,
                SessionRevoked, PresentAlert, StartFade, vars
  <2> QED  BY <2>1 DEF StackShape, CallsMatch
<1> QED
  BY <1>1, <1>2, <1>3, <1>4, <1>5, <1>6, <1>7, <1>8, <1>9 DEF Next, Arrives

-----------------------------------------------------------------------------
(* Home and the window *)

LEMMA FlowHomeStep ==
    TypeOK /\ StackShape /\ CallsMatch /\ HomeNeedsSession /\ [Next]_vars
        => HomeNeedsSession'
<1> SUFFICES ASSUME TypeOK, StackShape, CallsMatch, HomeNeedsSession,
                    [Next]_vars, session' = "none"
             PROVE  /\ \A i \in DOMAIN stack' : stack'[i].kind # "tabs"
                    /\ \A i \in DOMAIN fades' : fades'[i].target # "tabs"
  BY DEF HomeNeedsSession
<1>t. /\ stack \in Seq(ScreenRecords) /\ fades \in Seq(FadeRecords)
  BY DEF TypeOK, ScreenRecords, FadeRecords
<1>1. session = "none"
  BY DEF Next, TapGetStarted, TapCreateAccount, GoBack, TapSubmit,
         TapSubmitInvalid, DismissAlert, SignedIn, SessionRestored,
         SessionRevoked, Arrives, SignInSucceeds, SignInFails,
         RegisterSucceeds, RegisterFails, PresentAlert, StartFade,
         FinishFade, vars, TypeOK
<1>2. /\ \A i \in DOMAIN stack : stack[i].kind # "tabs"
      /\ \A i \in DOMAIN fades : fades[i].target # "tabs"
      /\ \A c \in Calls : calls[c].stage # "signedIn"
  BY <1>1 DEF HomeNeedsSession, CallsMatch
<1>3. CASE TapGetStarted \/ TapCreateAccount
  <2>1. fades' = fades
    BY <1>3 DEF TapGetStarted, TapCreateAccount
  <2>2. PICK s \in Fresh, k \in {"login", "signUp"} : Push(s, k)
    BY <1>3 DEF TapGetStarted, TapCreateAccount
  <2>3. Screen(s, k) \in ScreenRecords /\ Screen(s, k).kind # "tabs"
    BY <2>2, FreshApart DEF Screen, ScreenRecords, Kinds
  <2>4. \A i \in DOMAIN stack' : stack'[i].kind # "tabs"
    BY <1>t, <1>2, <2>2, <2>3, AppendShape DEF Push
  <2> QED  BY <1>2, <2>1, <2>4
<1>4. CASE GoBack
  <2>1. stack' = Front(stack) /\ fades' = fades /\ Len(stack) > 1
    BY <1>4 DEF GoBack
  <2>2. /\ Len(Front(stack)) = Len(stack) - 1
        /\ \A i \in 1 .. Len(stack) - 1 : Front(stack)[i] = stack[i]
        /\ Front(stack) \in Seq(ScreenRecords)
    BY <1>t, <2>1, FrontShape
  <2>3. \A i \in DOMAIN stack' : stack'[i].kind # "tabs"
    BY <1>t, <1>2, <2>1, <2>2
  <2> QED  BY <1>2, <2>1, <2>3
<1>5. CASE StartFade
  <2>1. /\ stack' = stack
        /\ \E i \in DOMAIN fades : fades' = [fades EXCEPT ![i].phase = "fading"]
    BY <1>5 DEF StartFade
  <2>2. PICK i \in DOMAIN fades : fades' = [fades EXCEPT ![i].phase = "fading"]
    BY <2>1
  <2>3. DOMAIN fades' = DOMAIN fades
        /\ \A j \in DOMAIN fades : fades'[j].target = fades[j].target
    BY <2>2, FadeStarts
  <2> QED  BY <1>2, <2>1, <2>3
<1>6. CASE FinishFade
  <2>1. PICK i \in DOMAIN fades :
            /\ \E s \in Fresh : stack' = <<Screen(s, fades[i].target)>>
            /\ fades' = RemoveAt(fades, i)
    BY <1>6 DEF FinishFade
  <2>2. i \in 1 .. Len(fades)
    BY <1>t, <2>1
  <2>3. \A j \in DOMAIN fades' : \E k \in DOMAIN fades : fades'[j] = fades[k]
    BY <1>t, <2>1, <2>2, RemoveAtShape
  <2>4. \A j \in DOMAIN stack' : stack'[j].kind = fades[i].target
    BY <2>1 DEF Screen
  <2> QED  BY <1>2, <2>1, <2>3, <2>4
<1>7. CASE \/ TapSubmitInvalid \/ DismissAlert \/ SessionRestored
           \/ SessionRevoked \/ PresentAlert \/ UNCHANGED vars
           \/ \E c \in Calls : TapSubmit(c) \/ SignedIn(c) \/ Arrives(c)
  <2>1. stack' = stack /\ fades' = fades
    BY <1>7, <1>2
       DEF TapSubmitInvalid, DismissAlert, SessionRestored, SessionRevoked,
           PresentAlert, vars, TapSubmit, SignedIn, Arrives, SignInSucceeds,
           SignInFails, RegisterSucceeds, RegisterFails
  <2> QED  BY <1>2, <2>1
<1> QED  BY <1>3, <1>4, <1>5, <1>6, <1>7 DEF Next

LEMMA FlowVisibleStep ==
    TypeOK /\ VisibleWithoutFade /\ [Next]_vars => VisibleWithoutFade'
<1> SUFFICES ASSUME TypeOK, VisibleWithoutFade, [Next]_vars
             PROVE  VisibleWithoutFade'
  OBVIOUS
<1>t. fades \in Seq(FadeRecords)
  BY DEF TypeOK, FadeRecords
<1>1. CASE StartFade
  <2>1. PICK i \in DOMAIN fades : fades' = [fades EXCEPT ![i].phase = "fading"]
    BY <1>1 DEF StartFade
  <2>2. i \in DOMAIN fades' /\ fades'[i].phase = "fading"
    BY <2>1, FadeStarts
  <2> QED  BY <2>2 DEF VisibleWithoutFade
<1>2. CASE FinishFade
  BY <1>2 DEF FinishFade, VisibleWithoutFade
<1>3. ASSUME NEW c \in Calls, Arrives(c) PROVE VisibleWithoutFade'
  <2>1. opacity' = opacity
    BY <1>3 DEF Arrives, SignInSucceeds, SignInFails, RegisterSucceeds, RegisterFails
  <2>2. fades' = fades \/ fades' = Append(fades, NewRoot)
    BY <1>3 DEF Arrives, SignInSucceeds, SignInFails, RegisterSucceeds,
                RegisterFails, CheckAuthentication
  <2>3. \A i \in DOMAIN fades : i \in DOMAIN fades' /\ fades'[i] = fades[i]
    BY <1>t, <2>2, NewRootShape, AppendShape
  <2> QED  BY <2>1, <2>3 DEF VisibleWithoutFade
<1>4. CASE \/ TapGetStarted \/ TapCreateAccount \/ GoBack
           \/ TapSubmitInvalid \/ DismissAlert \/ SessionRestored
           \/ SessionRevoked \/ PresentAlert \/ UNCHANGED vars
           \/ \E c \in Calls : TapSubmit(c) \/ SignedIn(c)
  <2>1. fades' = fades /\ opacity' = opacity
    BY <1>4 DEF TapGetStarted, TapCreateAccount, GoBack, TapSubmitInvalid,
                DismissAlert, SessionRestored, SessionRevoked, PresentAlert,
                vars, TapSubmit, SignedIn
  <2> QED  BY <2>1 DEF VisibleWithoutFade
<1> QED  BY <1>1, <1>2, <1>3, <1>4 DEF Next

(* Until somebody's session is revoked, a fade to the welcome screen is    *)
(* the first of the process: it keeps every finger off until it is over.   *)
WelcomeFirst ==
    (/\ session \in {"none", "active"}
     /\ \E i \in DOMAIN fades : fades[i].target = "welcome")
        => /\ \A c \in Calls : calls[c].stage = "idle"
           /\ stack[1].kind = "welcome"
           /\ Len(fades) = 1
           /\ opacity = 1 => fades[1].phase = "posted"

LEMMA FlowWelcomeStep ==
    TypeOK /\ StackShape /\ CallsMatch /\ WelcomeFirst /\ [Next]_vars
        => WelcomeFirst'
<1> SUFFICES ASSUME TypeOK, StackShape, CallsMatch, WelcomeFirst, [Next]_vars,
                    session' \in {"none", "active"},
                    \E i \in DOMAIN fades' : fades'[i].target = "welcome"
             PROVE  /\ \A c \in Calls : calls'[c].stage = "idle"
                    /\ stack'[1].kind = "welcome"
                    /\ Len(fades') = 1
                    /\ opacity' = 1 => fades'[1].phase = "posted"
  BY DEF WelcomeFirst
<1>t. /\ fades \in Seq(FadeRecords)
      /\ stack \in Seq(ScreenRecords)
  BY DEF TypeOK, FadeRecords, ScreenRecords
<1>1. session \in {"none", "active"}
  BY DEF Next, TapGetStarted, TapCreateAccount, GoBack, TapSubmit,
         TapSubmitInvalid, DismissAlert, SignedIn, SessionRestored,
         SessionRevoked, Arrives, SignInSucceeds, SignInFails,
         RegisterSucceeds, RegisterFails, PresentAlert, StartFade,
         FinishFade, vars, TypeOK
<1>2. CASE StartFade
  <2>1. PICK i \in DOMAIN fades : fades' = [fades EXCEPT ![i].phase = "fading"]
    BY <1>2 DEF StartFade
  <2>2. /\ DOMAIN fades' = DOMAIN fades /\ Len(fades') = Len(fades)
        /\ \A j \in DOMAIN fades : fades'[j].target = fades[j].target
    BY <2>1, FadeStarts
  <2>3. opacity' = 0 /\ calls' = calls /\ stack' = stack
    BY <1>2 DEF StartFade
  <2> QED  BY <1>1, <2>2, <2>3 DEF WelcomeFirst
<1>3. CASE FinishFade
  <2>1. PICK i \in DOMAIN fades : fades' = RemoveAt(fades, i)
    BY <1>3 DEF FinishFade
  <2>2. i \in 1 .. Len(fades)
    BY <1>t, <2>1
  <2>3. \A j \in DOMAIN fades' : \E k \in DOMAIN fades : fades'[j] = fades[k]
    BY <1>t, <2>1, <2>2, RemoveAtShape
  <2>4. Len(fades) = 1 /\ i = 1
    BY <1>1, <1>t, <2>2, <2>3 DEF WelcomeFirst
  <2>5. SubSeq(fades, 1, 0) = <<>> /\ SubSeq(fades, 2, 1) = <<>>
    BY SubSeqEmpty
  <2>6. fades' = <<>> \o <<>>
    BY <2>1, <2>4, <2>5 DEF RemoveAt
  <2>7. fades' = <<>>
    BY <2>6
  <2> QED  BY <2>7
<1>4. ASSUME NEW c \in Calls, Arrives(c) PROVE FALSE
  <2>1. calls[c].stage # "idle"
    BY <1>4 DEF Arrives, SignInSucceeds, SignInFails, RegisterSucceeds, RegisterFails
  <2>2. \A i \in DOMAIN fades : fades[i].target # "welcome"
    BY <1>1, <2>1 DEF WelcomeFirst
  <2>3. fades' # fades
    BY <2>2
  <2>4. RegisterSucceeds(c) /\ fades' = Append(fades, NewRoot)
    BY <1>4, <2>3 DEF Arrives, SignInSucceeds, SignInFails, RegisterSucceeds,
                      RegisterFails, CheckAuthentication
  <2>5. session = "active"
    BY <1>1, <2>4 DEF RegisterSucceeds, CallsMatch
  <2>6. NewRoot.target = "tabs"
    BY <2>5, NewRootShape DEF SomebodySignedIn
  <2>7. \A i \in DOMAIN fades' : fades'[i].target # "welcome"
    BY <1>t, <2>2, <2>4, <2>6, NewRootShape, AppendShape
  <2> QED  BY <2>7
<1>5. CASE fades' = fades
  <2>1. /\ \A c \in Calls : calls[c].stage = "idle"
        /\ stack[1].kind = "welcome" /\ Len(fades) = 1
        /\ opacity = 1 => fades[1].phase = "posted"
    BY <1>1, <1>5 DEF WelcomeFirst
  <2>2. 1 \in DOMAIN fades /\ ~Touchable
    BY <1>t, <2>1 DEF Touchable
  <2>3. \/ DismissAlert \/ SessionRestored \/ SessionRevoked \/ PresentAlert
        \/ UNCHANGED vars \/ StartFade \/ FinishFade
    BY <1>4, <2>1, <2>2
       DEF Next, TapGetStarted, TapCreateAccount, GoBack, TapSubmit,
           TapSubmitInvalid, SignedIn
  <2>4. CASE StartFade \/ FinishFade
    BY <1>2, <1>3, <2>4
  <2>5. CASE \/ DismissAlert \/ SessionRestored \/ SessionRevoked
             \/ PresentAlert \/ UNCHANGED vars
    <3>1. stack' = stack /\ calls' = calls /\ opacity' = opacity
      BY <2>5 DEF DismissAlert, SessionRestored, SessionRevoked, PresentAlert, vars
    <3> QED  BY <1>5, <2>1, <3>1
  <2> QED  BY <2>3, <2>4, <2>5
<1>6. \/ fades' = fades \/ StartFade \/ FinishFade
      \/ \E c \in Calls : Arrives(c)
  BY DEF Next, TapGetStarted, TapCreateAccount, GoBack, TapSubmit,
         TapSubmitInvalid, DismissAlert, SignedIn, SessionRestored,
         SessionRevoked, PresentAlert, vars
<1> QED  BY <1>2, <1>3, <1>4, <1>5, <1>6

-----------------------------------------------------------------------------
(* The theorems *)

LEMMA FlowInvInit == Init => FlowInv /\ WelcomeFirst
<1> SUFFICES ASSUME Init PROVE FlowInv /\ WelcomeFirst
  OBVIOUS
<1>1. PICK s \in Screens : stack = <<Screen(s, "welcome")>>
  BY DEF Init
<1>2. /\ Screen(s, "welcome") \in ScreenRecords
      /\ Screen(s, "welcome").kind = "welcome"
  BY DEF Screen, ScreenRecords, Kinds
<1>3. /\ fades = <<NewRoot>> /\ fades \in Seq(FadeRecords)
      /\ Len(fades) = 1 /\ DOMAIN fades = {1} /\ fades[1] = NewRoot
  BY NewRootShape DEF Init
<1>4. /\ stack \in Seq(ScreenRecords)
      /\ Len(stack) = 1 /\ DOMAIN stack = {1} /\ stack # <<>>
      /\ stack[1].kind = "welcome"
  BY <1>1, <1>2
<1>5. calls \in [Calls -> CallRecords] /\ \A c \in Calls : calls[c].stage = "idle"
  BY DEF Init, NoCall, CallRecords
<1>6. TypeOK
  <2>1. /\ session \in {"none", "active", "revoked", "again"}
        /\ barHidden \in BOOLEAN /\ alertUp \in BOOLEAN
    BY DEF Init
  <2>2. opacity \in {0, 1}
    BY DEF Init
  <2>3. alerts \in Seq(Screens)
    BY EmptySeq DEF Init
  <2> QED
    BY <1>3, <1>4, <1>5, <2>1, <2>2, <2>3 DEF TypeOK, ScreenRecords, FadeRecords, CallRecords
<1>7. StackShape
  BY <1>4 DEF StackShape
<1>8. CallsMatch
  BY <1>5 DEF CallsMatch
<1>9. HomeNeedsSession
  BY <1>3, <1>4, NewRootShape DEF HomeNeedsSession, SomebodySignedIn
<1>10. VisibleWithoutFade
  BY DEF Init, VisibleWithoutFade
<1>11. WelcomeFirst
  BY <1>3, <1>4, <1>5, NewRootShape DEF WelcomeFirst
<1> QED  BY <1>6, <1>7, <1>8, <1>9, <1>10, <1>11 DEF FlowInv

LEMMA FlowInductive == Spec => [](FlowInv /\ WelcomeFirst)
<1>1. FlowInv /\ WelcomeFirst /\ [Next]_vars => (FlowInv /\ WelcomeFirst)'
  BY FlowTypeStep, FlowShapeStep, FlowHomeStep, FlowVisibleStep,
     FlowWelcomeStep DEF FlowInv
<1> QED  BY <1>1, FlowInvInit, PTL DEF Spec

(* Whatever late answers push and replace, the stack keeps its shape, the  *)
(* tabs are shown only to a process somebody has signed in to, and         *)
(* SceneDelegate never leaves the window dark.                             *)
THEOREM FlowIsConsistent == Spec => []FlowConsistent
<1>1. FlowInv => FlowConsistent
  BY DEF FlowInv, FlowConsistent
<1> QED  BY <1>1, FlowInductive, PTL

(* Tabs at the root stay there while no session is revoked.                *)
THEOREM FlowHomeStays == Spec => HomeRootStays
<1> DEFINE Stays == stack[1].kind = "tabs" =>
              stack'[1].kind = "tabs" \/ session \in {"revoked", "again"}
<1>1. FlowInv /\ WelcomeFirst /\ [Next]_vars => [Stays]_vars
  <2> SUFFICES ASSUME FlowInv, WelcomeFirst, Next, stack[1].kind = "tabs",
                      session \notin {"revoked", "again"}
               PROVE  stack'[1].kind = "tabs"
    OBVIOUS
  <2>t. /\ TypeOK /\ StackShape /\ session \in {"none", "active"}
        /\ fades \in Seq(FadeRecords) /\ stack \in Seq(ScreenRecords)
    BY DEF FlowInv, TypeOK, FadeRecords, ScreenRecords
  <2>1. Len(stack) = 1
    BY <2>t DEF StackShape
  <2>2. CASE FinishFade
    <3>1. PICK i \in DOMAIN fades :
              \E s \in Fresh : stack' = <<Screen(s, fades[i].target)>>
      BY <2>2 DEF FinishFade
    <3>2. fades[i].target \in {"welcome", "tabs"}
      BY <2>t, <3>1, FadesTyped
    <3>3. fades[i].target # "welcome"
      BY <2>t, <3>1 DEF WelcomeFirst
    <3> QED  BY <3>1, <3>2, <3>3 DEF Screen
  <2>3. CASE \E c \in Calls : SignInSucceeds(c)
    <3>1. \/ stack' = stack
          \/ \E s \in Fresh : Push(s, "tabs")
      BY <2>3 DEF SignInSucceeds
    <3>2. ASSUME NEW s \in Fresh, Push(s, "tabs") PROVE stack'[1] = stack[1]
      <4>1. Screen(s, "tabs") \in ScreenRecords
        BY FreshApart DEF Screen, ScreenRecords, Kinds
      <4> QED  BY <2>t, <2>1, <3>2, <4>1, AppendShape DEF Push
    <3> QED  BY <3>1, <3>2
  <2>4. CASE TapGetStarted \/ TapCreateAccount \/ GoBack
    BY <2>1, <2>4, <2>t, TopShape DEF TapGetStarted, TapCreateAccount, GoBack
  <2>5. CASE ~ (\/ FinishFade \/ TapGetStarted \/ TapCreateAccount \/ GoBack
                \/ \E c \in Calls : SignInSucceeds(c))
    <3>1. stack' = stack
      BY <2>5 DEF Next, TapSubmit, TapSubmitInvalid, DismissAlert, SignedIn,
                  SessionRestored, SessionRevoked, Arrives, SignInFails,
                  RegisterSucceeds, RegisterFails, PresentAlert, StartFade
    <3> QED  BY <3>1
  <2> QED  BY <2>2, <2>3, <2>4, <2>5
<1> QED  BY <1>1, FlowInductive, PTL DEF Spec, HomeRootStays
=============================================================================
