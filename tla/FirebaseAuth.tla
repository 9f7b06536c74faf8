---------------------------- MODULE FirebaseAuth ----------------------------
(***************************************************************************)
(* The signed-in session of FIRAuth.                                       *)
(*                                                                         *)
(* FIRAuth keeps the current user in memory and in the keychain, does all  *)
(* its work on one serial work queue, and reports on the main queue: first *)
(* the state-change notification, then the caller's completion block.  A   *)
(* sign-up or sign-in is three steps on the work queue: the request, the   *)
(* answer of the identity backend, and the retrieval of the account that   *)
(* ends in updateCurrentUser.  The answers of two calls, a token refresh   *)
(* and the keychain load of a launch interleave freely.                    *)
(*                                                                         *)
(* A user is named by the email of the account: the backend keeps one      *)
(* account per email.                                                      *)
(***************************************************************************)
EXTENDS Naturals, Sequences

CONSTANTS
    Emails,      \* the emails people register and sign in with
    Calls,       \* identities of createUser / signIn calls, each used once
    NoUser,      \* nil: nobody is signed in
    MaxRestarts, \* bound: how often the process dies and is launched again
    MaxBacklog   \* bound: token refreshes and device unlocks happen only while
                 \* fewer than this many blocks wait on the main queue

ASSUME NoUserAssumption == NoUser \notin Emails
ASSUME BoundsAssumption == MaxRestarts \in Nat /\ MaxBacklog \in Nat

VARIABLES
    accounts,     \* the emails that own an account at the identity backend
    currentUser,  \* FIRAuth._currentUser
    keychain,     \* the user archived in the keychain
    loader,       \* progress of protectedDataInitialization
    calls,        \* every call's operation, email and stage
    mainQueue,    \* blocks dispatched to the main queue, oldest first
    heard,        \* the user of the last notification the observers received
    restarts      \* launches so far, bounded by MaxRestarts

authVars == <<accounts, currentUser, keychain, loader, calls, mainQueue,
              heard, restarts>>

Users == Emails \cup {NoUser}
Ops == {"register", "signIn"}
Stages == {"idle", "sent", "granted", "refused", "replying", "answered", "lost"}
Loaders == {"booting", "waiting", "reloading", "done"}

(* What FIRAuth dispatches to the main queue: a state-change notification, *)
(* or a caller's completion block with its outcome.                        *)
Notice(u) == [type |-> "notice", user |-> u]
Answers == {"ok", "failed"}
Reply(c, a) == [type |-> "reply", call |-> c, answer |-> a]
AuthItems == [type : {"notice"}, user : Users]
               \cup [type : {"reply"}, call : Calls, answer : Answers]

IdleCall == [op |-> "none", email |-> NoUser, stage |-> "idle"]
CallRecords == {IdleCall} \cup [op : Ops, email : Emails, stage : Stages \ {"idle"}]

At(c, stages) == calls[c].stage \in stages
MoveTo(c, stage) == calls' = [calls EXCEPT ![c].stage = stage]

AuthInit ==
    /\ accounts \in SUBSET Emails
    /\ currentUser = NoUser
    /\ keychain = NoUser
    /\ loader = "booting"
    /\ calls = [c \in Calls |-> IdleCall]
    /\ mainQueue = <<>>
    /\ heard = NoUser
    /\ restarts = 0

-----------------------------------------------------------------------------
(* The initialisation block.  It is the first block on the work queue, so  *)
(* nothing else runs there while loader = "booting".                       *)

(* Installing a user object: observers are told only when the token        *)
(* changed, and the same archived user carries the same token.             *)
PostIfChanged(u) ==
    mainQueue' = IF u = currentUser THEN mainQueue
                                    ELSE Append(mainQueue, Notice(u))

LoadSavedUser ==
    /\ loader \in {"booting", "reloading"}
    /\ loader' = "done"
    /\ currentUser' = keychain
    /\ PostIfChanged(keychain)
    /\ UNCHANGED <<accounts, keychain, calls, heard, restarts>>

(* The keychain is not readable (prewarming before the first unlock): an   *)
(* observer waits for protected data.                                      *)
LoadFails ==
    /\ loader \in {"booting", "reloading"}
    /\ loader' = "waiting"
    /\ UNCHANGED <<accounts, currentUser, keychain, calls, mainQueue, heard,
                   restarts>>

ProtectedDataDidBecomeAvailable ==
    /\ loader = "waiting"
    /\ Len(mainQueue) < MaxBacklog
    /\ loader' = "reloading"
    /\ UNCHANGED <<accounts, currentUser, keychain, calls, mainQueue, heard,
                   restarts>>

-----------------------------------------------------------------------------
(* One call of createUser or signIn.                                       *)

Invoke(c, op, e) ==
    /\ At(c, {"idle"})
    /\ calls' = [calls EXCEPT ![c] = [op |-> op, email |-> e, stage |-> "sent"]]
    /\ UNCHANGED <<accounts, currentUser, keychain, loader, mainQueue, heard,
                   restarts>>

(* A mistake to be caught: signing up for a taken email is granted again.  *)
GrantsTakenEmail(c) ==
    /\ loader # "booting"
    /\ At(c, {"sent"})
    /\ accounts' = accounts \cup {calls[c].email}
    /\ MoveTo(c, "granted")
    /\ UNCHANGED <<currentUser, keychain, loader, mainQueue, heard, restarts>>

(* The backend: signUpNewUser creates the account unless the email is      *)
(* taken; verifyPassword needs the account, and may reject the password.   *)
BackendGrants(c) ==
    /\ loader # "booting"
    /\ At(c, {"sent"})
    /\ (calls[c].op = "register") <=> (calls[c].email \notin accounts)
    /\ accounts' = accounts \cup {calls[c].email}
    /\ MoveTo(c, "granted")
    /\ UNCHANGED <<currentUser, keychain, loader, mainQueue, heard, restarts>>

BackendRefuses(c) ==
    /\ loader # "booting"
    /\ At(c, {"sent"})
    /\ calls[c].op = "register" => calls[c].email \in accounts
    /\ MoveTo(c, "refused")
    /\ UNCHANGED <<accounts, currentUser, keychain, loader, mainQueue, heard,
                   restarts>>

(* Mistakes: the user is installed and not archived; the completion block  *)
(* is dispatched ahead of the notification.                                *)
CompletesUnsaved(c) ==
    /\ At(c, {"granted"})
    /\ currentUser' = calls[c].email
    /\ mainQueue' = Append(Append(mainQueue, Notice(calls[c].email)),
                           Reply(c, "ok"))
    /\ MoveTo(c, "replying")
    /\ UNCHANGED <<accounts, keychain, loader, heard, restarts>>

CompletesReplyFirst(c) ==
    /\ At(c, {"granted"})
    /\ keychain' = calls[c].email
    /\ currentUser' = calls[c].email
    /\ mainQueue' = Append(Append(mainQueue, Reply(c, "ok")),
                           Notice(calls[c].email))
    /\ MoveTo(c, "replying")
    /\ UNCHANGED <<accounts, loader, heard, restarts>>

(* The account was retrieved: updateCurrentUser archives the user first    *)
(* and installs it in memory, posts the notification, and only then the    *)
(* decorated completion block is dispatched.                               *)
CompleteSignIn(c) ==
    /\ At(c, {"granted"})
    /\ keychain' = calls[c].email
    /\ currentUser' = calls[c].email
    /\ mainQueue' = Append(Append(mainQueue, Notice(calls[c].email)),
                           Reply(c, "ok"))
    /\ MoveTo(c, "replying")
    /\ UNCHANGED <<accounts, loader, heard, restarts>>

(* A mistake: an error path without a completion block.                    *)
FailsSilently(c) ==
    /\ loader # "booting"
    /\ At(c, {"sent", "granted", "refused"})
    /\ MoveTo(c, "replying")
    /\ UNCHANGED <<accounts, currentUser, keychain, loader, mainQueue, heard,
                   restarts>>

(* The error paths: the request or its answer is lost, the backend         *)
(* refused, the account cannot be retrieved, the keychain refuses the      *)
(* archive.  The account may exist by now; the session is left alone.      *)
FailCall(c) ==
    /\ loader # "booting"
    /\ At(c, {"sent", "granted", "refused"})
    /\ mainQueue' = Append(mainQueue, Reply(c, "failed"))
    /\ MoveTo(c, "replying")
    /\ UNCHANGED <<accounts, currentUser, keychain, loader, heard, restarts>>

-----------------------------------------------------------------------------
(* A mistake: signing out without telling the observers.                   *)
SignsOutUnannounced ==
    /\ loader # "booting"
    /\ currentUser # NoUser
    /\ keychain' = NoUser
    /\ currentUser' = NoUser
    /\ UNCHANGED <<accounts, loader, calls, mainQueue, heard, restarts>>

(* signOut blocks its caller on the work queue: it runs after the blocks   *)
(* before it.  A keychain that cannot be cleared leaves the session alone. *)
SignOut ==
    /\ loader # "booting"
    /\ currentUser # NoUser
    /\ keychain' = NoUser
    /\ currentUser' = NoUser
    /\ mainQueue' = Append(mainQueue, Notice(NoUser))
    /\ UNCHANGED <<accounts, loader, calls, heard, restarts>>

(* The scheduled refresh fetched a new token: the user is archived again   *)
(* and observers are told of the same user.                                *)
RefreshToken ==
    /\ loader # "booting"
    /\ currentUser # NoUser
    /\ Len(mainQueue) < MaxBacklog
    /\ mainQueue' = Append(mainQueue, Notice(currentUser))
    /\ UNCHANGED <<accounts, currentUser, keychain, loader, calls, heard,
                   restarts>>

(* A token refresh learns that the account is disabled, deleted or its     *)
(* token revoked: the user is signed out by force, even when the keychain  *)
(* cannot be cleared.                                                      *)
RevokeSession ==
    /\ loader # "booting"
    /\ currentUser # NoUser
    /\ keychain' \in {NoUser, keychain}
    /\ currentUser' = NoUser
    /\ mainQueue' = Append(mainQueue, Notice(NoUser))
    /\ UNCHANGED <<accounts, loader, calls, heard, restarts>>

-----------------------------------------------------------------------------
(* The main queue runs one block at a time.                                *)

DeliverNotice ==
    /\ mainQueue # <<>>
    /\ Head(mainQueue).type = "notice"
    /\ heard' = Head(mainQueue).user
    /\ mainQueue' = Tail(mainQueue)
    /\ UNCHANGED <<accounts, currentUser, keychain, loader, calls, restarts>>

DeliverReply ==
    /\ mainQueue # <<>>
    /\ Head(mainQueue).type = "reply"
    /\ MoveTo(Head(mainQueue).call, "answered")
    /\ mainQueue' = Tail(mainQueue)
    /\ UNCHANGED <<accounts, currentUser, keychain, loader, heard, restarts>>

(* The process dies and is launched again: only the keychain and the       *)
(* backend remember anything, and nobody answers the calls in flight.      *)
Lost(c) == At(c, {"sent", "granted", "refused", "replying"})

Restart ==
    /\ restarts < MaxRestarts
    /\ restarts' = restarts + 1
    /\ currentUser' = NoUser
    /\ loader' = "booting"
    /\ calls' = [c \in Calls |->
                   IF Lost(c) THEN [calls[c] EXCEPT !.stage = "lost"]
                              ELSE calls[c]]
    /\ mainQueue' = <<>>
    /\ heard' = NoUser
    /\ UNCHANGED <<accounts, keychain>>

-----------------------------------------------------------------------------
WorkStep(c) == \/ BackendGrants(c)
               \/ BackendRefuses(c)
               \/ CompleteSignIn(c)
               \/ FailCall(c)

AuthNext ==
    \/ LoadSavedUser
    \/ LoadFails
    \/ ProtectedDataDidBecomeAvailable
    \/ \E c \in Calls, op \in Ops, e \in Emails : Invoke(c, op, e)
    \/ \E c \in Calls : WorkStep(c)
    \/ SignOut
    \/ RefreshToken
    \/ RevokeSession
    \/ DeliverNotice
    \/ DeliverReply
    \/ Restart

AuthSpec == AuthInit /\ [][AuthNext]_authVars

-----------------------------------------------------------------------------
(* Every variable has its type; a call that was made has an operation and  *)
(* an email (FIRAuth, one record per completion block).                    *)
AuthTypeOK ==
    /\ accounts \subseteq Emails
    /\ currentUser \in Users
    /\ keychain \in Users
    /\ loader \in Loaders
    /\ calls \in [Calls -> CallRecords]
    /\ mainQueue \in Seq(AuthItems)
    /\ heard \in Users
    /\ restarts \in 0 .. MaxRestarts

(* The session a launch would restore is the session in memory: whatever   *)
(* sign-ins, failed archives, revocations and late keychain loads          *)
(* interleaved, a user in memory is the user in the keychain               *)
(* (updateCurrentUser:byForce:savingToDisk: archives before it installs).  *)
KeychainHoldsSession == currentUser # NoUser => keychain = currentUser

(* Every call has one completion block, dispatched once: it is on the main *)
(* queue exactly while the call waits for it.                              *)
IsReply(i) == mainQueue[i].type = "reply"

OneReplyPerCall ==
    /\ \A i \in 1 .. Len(mainQueue) :
          IsReply(i) => At(mainQueue[i].call, {"replying"})
    /\ \A i, j \in 1 .. Len(mainQueue) :
          /\ IsReply(i) /\ IsReply(j)
          /\ mainQueue[i].call = mainQueue[j].call
          => i = j
    /\ \A c \in Calls : At(c, {"replying"}) =>
          \E i \in 1 .. Len(mainQueue) : IsReply(i) /\ mainQueue[i].call = c

(* What is in memory, in the queues and in the calls fits together, which  *)
(* makes it last: a block that is delivered finds its call still waiting   *)
(* for it (FIRAuth.signInFlowAuthDataResultCallbackByDecoratingCallback).  *)
AuthConsistent == AuthTypeOK /\ OneReplyPerCall

(* u is what the observers have heard once the first n blocks of the main  *)
(* queue have run.                                                         *)
IsNotice(i) == mainQueue[i].type = "notice"

HeardAfter(n, u) ==
    \/ /\ \A i \in 1 .. n : ~IsNotice(i)
       /\ heard = u
    \/ \E i \in 1 .. n : /\ IsNotice(i)
                        /\ mainQueue[i].user = u
                        /\ \A j \in i + 1 .. n : ~IsNotice(j)

(* No change of session goes unannounced or is announced out of order:     *)
(* once the main queue has drained, the observers know who is signed in    *)
(* (possiblyPostAuthStateChangeNotification).                              *)
ObserversCatchUp == HeardAfter(Len(mainQueue), currentUser)

(* When a successful completion block runs, the observers have already     *)
(* been told of that call's user, and of nobody since.  Firestore depends  *)
(* on it: its credentials follow the notification, and the app's profile   *)
(* write follows the block.                                                *)
NoticeBeforeReply ==
    \A i \in 1 .. Len(mainQueue) :
        IsReply(i) /\ mainQueue[i].answer = "ok"
          => HeardAfter(i, calls[mainQueue[i].call].email)

=============================================================================
