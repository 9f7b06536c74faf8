------------------------------ MODULE SignUpForm ----------------------------
(***************************************************************************)
(* The password field of the sign-up screen and the meter that grades what *)
(* is typed into it.                                                       *)
(*                                                                         *)
(* The screen grades the text that an edit is about to produce: the        *)
(* delegate is asked before the field changes.  A secure field that is     *)
(* edited again after it was left, or hidden again, does not produce that  *)
(* text: UIKit throws the old text away and keeps only what is typed or    *)
(* pasted, and the delegate is not asked again.                            *)
(*                                                                         *)
(* A password is its length without and with the surrounding whitespace,   *)
(* and whether it has a lower case letter, an upper case letter, a digit   *)
(* and a symbol.                                                           *)
(***************************************************************************)
EXTENDS Naturals

CONSTANT Lengths   \* lengths of the passwords people type, without whitespace
ASSUME LengthsAssumption == Lengths \subseteq Nat /\ 0 \in Lengths

VARIABLES
    password,  \* passwordSignUpTextField.text
    secure,    \* isSecureTextEntry, and isPasswordHidden
    clears,    \* UIKit will replace the text at the next edit
    strength,  \* passwordStrength
    hidden,    \* the meter is hidden (isPasswordStrengthViewsHidden)
    eye,       \* showHidePasswordImageView is visible
    label,     \* passwordAlertLabel
    bars       \* the grade whose colours the three bars have

formVars == <<password, secure, clears, strength, hidden, eye, label, bars>>

Grades == {"empty", "weak", "medium", "strong"}
Rank == [g \in Grades |-> CASE g = "empty" -> 0 [] g = "weak" -> 1
                            [] g = "medium" -> 2 [] g = "strong" -> 3]

Password(length, padding, mixed) ==
    [length |-> length, padding |-> padding, mixed |-> mixed]
Empty == Password(0, 0, FALSE)
Passwords == {p \in [length : Lengths, padding : {0, 1}, mixed : BOOLEAN] :
                 p.mixed => p.length >= 4}

(* Validator.isPasswordValid judges the trimmed text, newText.count counts *)
(* all of it.                                                              *)
isPasswordValid(p) == p.mixed /\ p.length \in 6 .. 32
count(p) == p.length + p.padding

(* A mistake: the meter does not trim and the Validator does.              *)
GradeUntrimmed(p) ==
    IF count(p) = 0 THEN "empty"
    ELSE IF p.mixed /\ count(p) \in 6 .. 32 THEN "strong"
    ELSE IF count(p) >= 6 THEN "medium" ELSE "weak"

Grade(p) ==
    IF count(p) = 0 THEN "empty"
    ELSE IF isPasswordValid(p) THEN "strong"
    ELSE IF count(p) >= 6 THEN "medium" ELSE "weak"

FormInit ==
    /\ password = Empty
    /\ secure = TRUE
    /\ clears = FALSE
    /\ strength = "empty"
    /\ hidden = TRUE
    /\ eye = TRUE
    /\ label = "storyboard"
    /\ bars = "storyboard"

-----------------------------------------------------------------------------
Show(h) == hidden' = h /\ eye' = h
Paint(g) == label' = g /\ bars' = g

(* textField(_:shouldChangeCharactersIn:replacementString:).  An emptied   *)
(* field hides the meter and leaves its label and its colours as they are. *)
ShouldChange(newText) ==
    /\ strength' = Grade(newText)
    /\ Show(newText = Empty)
    /\ IF newText = Empty THEN UNCHANGED <<label, bars>>
                             ELSE Paint(Grade(newText))

Edit ==
    /\ ~clears
    /\ \E newText \in Passwords : ShouldChange(newText) /\ password' = newText
    /\ UNCHANGED <<secure, clears>>

(* What an edit can make of the text p: some part of it, all of it or      *)
(* nothing, gives way to s, which is typed, pasted, or empty.              *)
Replacing(p, s) ==
    {q \in Passwords :
        /\ count(q) \in count(s) .. count(p) + count(s)
        /\ count(q) = count(s) => q = s
        /\ q.length >= s.length
        /\ s.mixed => q.mixed
        /\ s = Empty /\ q.mixed => p.mixed}

(* The first edit of a secure field, says UIKit, leaves only what is put   *)
(* in; the delegate has been asked about the old text with that in it.     *)
EditCleared ==
    /\ clears
    /\ \E typed \in Passwords :
          /\ \E newText \in Replacing(password, typed) : ShouldChange(newText)
          /\ password' = typed
    /\ clears' = FALSE
    /\ UNCHANGED secure

(* The field is left and entered again.                                    *)
BeginEditing ==
    /\ clears' = secure
    /\ UNCHANGED <<password, secure, strength, hidden, eye, label, bars>>

togglePasswordVisibility ==
    /\ secure' = ~secure
    /\ clears' = secure'
    /\ Show(hidden)
    /\ UNCHANGED <<password, strength, label, bars>>

FormNext == Edit \/ EditCleared \/ BeginEditing \/ togglePasswordVisibility

FormSpec == FormInit /\ [][FormNext]_formVars

-----------------------------------------------------------------------------
(* Every variable has its type (the outlets of SignUpViewController).      *)
FormTypeOK ==
    /\ password \in Passwords
    /\ {secure, clears, hidden, eye} \subseteq BOOLEAN
    /\ strength \in Grades
    /\ {label, bars} \subseteq Grades \cup {"storyboard"}

(* A meter that is visible shows one grade: label, bars and strength agree, *)
(* although emptying the field leaves the label and the bars stale.        *)
MeterAgrees ==
    /\ hidden = (strength = "empty")
    /\ eye = hidden
    /\ ~hidden => label = strength /\ bars = strength

(* The meter rates the password in the field lower than it is.            *)
Shown == IF hidden THEN "empty" ELSE label
Understated ==
    \/ isPasswordValid(password) /\ Shown # "strong"
    \/ Rank[Shown] < Rank[Grade(password)]

(* The meter may flatter, when UIKit threw the old text away.  It begins   *)
(* to understate in one case only: a password that Sign up accepts is put  *)
(* into a field that is cleared for it, and with the old text it would     *)
(* have been too long (shouldChangeCharactersIn).                          *)
UnderstatesOnlyTooLong ==
    [][Understated' =>
          \/ Understated /\ UNCHANGED password
          \/ /\ clears /\ isPasswordValid(password')
             /\ count(password) + count(password') > 32]_formVars
=============================================================================
