---------------------------- MODULE AccountService --------------------------
(***************************************************************************)
(* What the class AuthService promises to the screens that call it:        *)
(*                                                                         *)
(*   - every call is answered at most once, and never after the process    *)
(*     that made it has died;                                              *)
(*   - a registration that is answered "ok" has an account and a profile,  *)
(*     a sign-in that is answered "ok" has an account;                     *)
(*   - a profile is written only by the registration that created the      *)
(*     account, so no later call can replace it.                           *)
(*                                                                         *)
(* "failed" promises nothing about the backend: the account, and even the  *)
(* profile, may exist.                                                     *)
(***************************************************************************)
EXTENDS FiniteSets, Naturals, Sequences

CONSTANTS Emails, Calls

VARIABLES
    made,     \* made[e]: the call that created the account of e, or a marker
    asked,    \* asked[c]: the operation and the email of a call
    written,  \* registrations whose profile the backend has
    told,     \* told[c]: the answers given to the caller of c
    dead      \* calls whose process has died

promiseVars == <<made, asked, written, told, dead>>

Nobody == "nobody"       \* the account does not exist
Earlier == "earlier"     \* it existed before
NotAsked == [op |-> "none"]

PromiseInit ==
    /\ made \in [Emails -> {Nobody, Earlier}]
    /\ asked = [c \in Calls |-> NotAsked]
    /\ written = {}
    /\ told = [c \in Calls |-> <<>>]
    /\ dead = {}

Ask(c, op, e) ==
    /\ asked[c] = NotAsked
    /\ asked' = [asked EXCEPT ![c] = [op |-> op, email |-> e]]
    /\ UNCHANGED <<made, written, told, dead>>

Open(c) == asked[c] # NotAsked /\ told[c] = <<>> /\ c \notin dead

MakeAccount(c) ==
    /\ Open(c)
    /\ asked[c].op = "register"
    /\ made[asked[c].email] = Nobody
    /\ made' = [made EXCEPT ![asked[c].email] = c]
    /\ UNCHANGED <<asked, written, told, dead>>

(* The profile may arrive after the caller has died: the write is durable. *)
(* It does not arrive after the caller was answered.                       *)
WriteProfile(c) ==
    /\ asked[c] # NotAsked
    /\ told[c] = <<>>
    /\ asked[c].op = "register"
    /\ made[asked[c].email] = c
    /\ written' = written \cup {c}
    /\ UNCHANGED <<made, asked, told, dead>>

TellOk(c) ==
    /\ Open(c)
    /\ made[asked[c].email] # Nobody
    /\ asked[c].op = "register" => c \in written
    /\ told' = [told EXCEPT ![c] = <<"ok">>]
    /\ UNCHANGED <<made, asked, written, dead>>

TellFailed(c) ==
    /\ Open(c)
    /\ told' = [told EXCEPT ![c] = <<"failed">>]
    /\ UNCHANGED <<made, asked, written, dead>>

Die ==
    /\ dead' = dead \cup {c \in Calls : Open(c)}
    /\ UNCHANGED <<made, asked, written, told>>

PromiseNext ==
    \/ \E c \in Calls, op \in {"register", "signIn"}, e \in Emails :
           Ask(c, op, e)
    \/ \E c \in Calls : \/ MakeAccount(c)
                        \/ WriteProfile(c)
                        \/ TellOk(c)
                        \/ TellFailed(c)
    \/ Die

Promise == PromiseInit /\ [][PromiseNext]_promiseVars
=============================================================================
