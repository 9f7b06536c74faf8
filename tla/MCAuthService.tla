---------------------------- MODULE MCAuthService ---------------------------
(* AuthService on small instances, with the state space cut down without   *)
(* loss of generality.  Emails are interchangeable, calls are too: every   *)
(* behaviour of FairSpec can be renamed so that the first call that is     *)
(* made is FirstCall and is about FirstEmail, and no property names one.   *)
(* (A SYMMETRY set would be unsound beside a liveness property.)           *)
EXTENDS AuthService

CONSTANTS FirstCall, FirstEmail

ASSUME FirstAssumption == FirstCall \in Calls /\ FirstEmail \in Emails

(* A step that starts a call starts this one if none was started before.   *)
FirstIsFirst ==
    \A c \in Calls :
        calls'[c].stage # "idle" => /\ calls'[FirstCall].stage # "idle"
                                    /\ calls'[FirstCall].email = FirstEmail

ServiceByFirst == Init /\ [][Next /\ FirstIsFirst]_vars /\ Fairness
=============================================================================
