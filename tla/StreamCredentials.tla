-------------------------- MODULE StreamCredentials -------------------------
(***************************************************************************)
(* Whose token a Firestore stream is opened with.                          *)
(*                                                                         *)
(* Three queues hand a credential on.  FIRAuth's work queue changes the    *)
(* current user and its access token, and posts both the notification of   *)
(* a change and the answer to a request for a token to the main queue.     *)
(* The main queue runs the credentials provider's blocks, which enqueue    *)
(* credential changes and tokens on Firestore's worker queue.  The worker  *)
(* restarts the stream at every credential change and asks the provider    *)
(* for a token whenever the stream starts.                                 *)
(*                                                                         *)
(* The provider reads FIRAuth's user directly when it is made, ahead of    *)
(* the notifications that are still on the main queue.                     *)
(***************************************************************************)
EXTENDS Naturals, Sequences, FiniteSets

CONSTANTS
    People,       \* the users who can be signed in
    NoUser,       \* nil: nobody is signed in, and the token is nil
    NoEngine,     \* the worker has not run Initialize
    MaxChanges,   \* bound: changes of FIRAuth's user or of its token
    MaxFailures   \* bound: streams that break and tokens that are not got

ASSUME CredentialsNobodyAssumption ==
    NoUser \notin People /\ NoEngine \notin People \cup {NoUser}
ASSUME CredentialsBoundsAssumption == MaxChanges \in Nat /\ MaxFailures \in Nat

VARIABLES
    authUser,      \* FIRAuth's _currentUser
    mainQueue,     \* notifications and answers on the main queue
    credential,    \* the provider's current_user, NoEngine before it is made
    tokenCounter,  \* the provider's token_counter
    inAuth,        \* requests for a token inside FIRAuth
    worker,        \* blocks on the worker queue
    syncUser,      \* the user the worker knows
    stream,        \* "stopped", "starting", "open" or "backoff"
    closeCount,    \* Stream::close_count_
    callUser,      \* whose token the open call carries
    changes,       \* changes so far, bounded by MaxChanges
    failures       \* failures so far, bounded by MaxFailures

authVars == <<authUser, inAuth, changes>>
providerVars == <<credential, tokenCounter>>
openingVars == <<syncUser, stream, closeCount, callUser>>
credVars == <<authVars, mainQueue, providerVars, worker, openingVars, failures>>

Owners == People \cup {NoUser}
Asks == [counter : Nat, close : Nat]
Nowhere == "not looked at"       \* FIRAuth has not taken the request up
Fetching == [ask : Asks, user : People \cup {Nowhere}]
Notified(u) == [type |-> "notification", user |-> u]
Answer(a, u) == [type |-> "answer", ask |-> a, user |-> u]
Changed(u) == [type |-> "credential", user |-> u]
Token(n, u) == [type |-> "token", close |-> n, user |-> u]
Failed == "error"

CredInit ==
    /\ authUser \in Owners
    /\ mainQueue = <<>>
    /\ credential = NoEngine
    /\ tokenCounter = 0
    /\ inAuth = {}
    /\ worker = <<>>
    /\ syncUser = NoEngine
    /\ stream = "stopped"
    /\ closeCount = 0
    /\ callUser = NoUser
    /\ changes = 0
    /\ failures = 0

Fails ==
    /\ failures < MaxFailures
    /\ failures' = failures + 1

-----------------------------------------------------------------------------
(* FIRAuth's work queue.                                                   *)

(* Sign-in, sign-out, or a new token of the same user: the notification is *)
(* posted after the change (possiblyPostAuthStateChangeNotification).      *)
AuthChanges(u) ==
    /\ u # NoUser \/ authUser # NoUser
    /\ changes < MaxChanges
    /\ changes' = changes + 1
    /\ authUser' = u
    /\ mainQueue' = Append(mainQueue, Notified(u))
    /\ UNCHANGED <<inAuth, providerVars, worker, openingVars, failures>>

(* A mistake: a request is not answered while nobody is signed in.         *)
TakesRequestSilently(r) ==
    /\ r \in inAuth
    /\ r.user = Nowhere
    /\ inAuth' = IF authUser = NoUser THEN inAuth \ {r}
                 ELSE (inAuth \ {r}) \cup {[r EXCEPT !.user = authUser]}
    /\ UNCHANGED <<authUser, mainQueue, providerVars, worker, openingVars,
                   changes, failures>>

(* getTokenForcingRefresh takes a request up: the user is the one of this  *)
(* moment, whatever happens while the token is fetched.                    *)
TakesRequest(r) ==
    /\ r \in inAuth
    /\ r.user = Nowhere
    /\ IF authUser = NoUser
         THEN /\ inAuth' = inAuth \ {r}
              /\ mainQueue' = Append(mainQueue, Answer(r.ask, NoUser))
         ELSE /\ inAuth' = (inAuth \ {r}) \cup {[r EXCEPT !.user = authUser]}
              /\ UNCHANGED mainQueue
    /\ UNCHANGED <<authUser, providerVars, worker, openingVars, changes,
                   failures>>

(* A mistake: the callback runs on the work queue.                         *)
FetchesOffMain(r) ==
    /\ r \in inAuth
    /\ r.user # Nowhere
    /\ inAuth' = inAuth \ {r}
    /\ worker' = IF r.ask.counter = tokenCounter
                   THEN Append(worker, Token(r.ask.close, r.user)) ELSE worker
    /\ UNCHANGED <<authUser, mainQueue, providerVars, openingVars, changes,
                   failures>>

(* The token service has the token of that user, cached or fetched; a new  *)
(* token of the user who is still current is notified first.               *)
FetchesToken(r) ==
    /\ r \in inAuth
    /\ r.user # Nowhere
    /\ inAuth' = inAuth \ {r}
    /\ \/ /\ mainQueue' = Append(mainQueue, Answer(r.ask, r.user))
          /\ UNCHANGED changes
       \/ /\ r.user = authUser
          /\ changes < MaxChanges
          /\ changes' = changes + 1
          /\ mainQueue' = mainQueue \o <<Notified(r.user), Answer(r.ask, r.user)>>
    /\ UNCHANGED <<authUser, providerVars, worker, openingVars, failures>>

FailsToFetch(r) ==
    /\ r \in inAuth
    /\ r.user # Nowhere
    /\ Fails
    /\ inAuth' = inAuth \ {r}
    /\ mainQueue' = Append(mainQueue, Answer(r.ask, Failed))
    /\ UNCHANGED <<authUser, changes, providerVars, worker, openingVars>>

-----------------------------------------------------------------------------
(* The main queue, and the provider's blocks on it.                        *)

GetToken(counter, close) ==
    [ask |-> [counter |-> counter, close |-> close], user |-> Nowhere]

(* The app's first use of Firestore: the provider is made with the user of *)
(* this moment, and its listener fires the initial event.                  *)
MakesProvider ==
    /\ credential = NoEngine
    /\ credential' = authUser
    /\ worker' = Append(worker, Changed(authUser))
    /\ UNCHANGED <<authVars, mainQueue, tokenCounter, openingVars, failures>>

(* The provider's observer.                                                *)
NotificationRuns ==
    /\ mainQueue # <<>>
    /\ Head(mainQueue).type = "notification"
    /\ mainQueue' = Tail(mainQueue)
    /\ IF credential = NoEngine
         THEN UNCHANGED <<credential, tokenCounter, worker>>
         ELSE /\ credential' = Head(mainQueue).user
              /\ tokenCounter' = tokenCounter + 1
              /\ worker' = Append(worker, Changed(Head(mainQueue).user))
    /\ UNCHANGED <<authVars, openingVars, failures>>

(* The provider's callback: asked again if the counter has moved.          *)
AnswerRuns ==
    /\ mainQueue # <<>>
    /\ Head(mainQueue).type = "answer"
    /\ mainQueue' = Tail(mainQueue)
    /\ LET answer == Head(mainQueue)
       IN IF answer.ask.counter # tokenCounter
            THEN /\ inAuth' = inAuth \cup {GetToken(tokenCounter, answer.ask.close)}
                 /\ UNCHANGED worker
            ELSE /\ worker' = Append(worker, Token(answer.ask.close, answer.user))
                 /\ UNCHANGED inAuth
    /\ UNCHANGED <<authUser, changes, providerVars, openingVars, failures>>

-----------------------------------------------------------------------------
(* The worker queue.                                                       *)

(* Stream::Start, or the stream stays stopped because nothing needs it.    *)
StartOrStay(close) ==
    \/ /\ stream' = "starting"
       /\ inAuth' = inAuth \cup {GetToken(tokenCounter, close)}
    \/ /\ stream' = "stopped"
       /\ UNCHANGED inAuth

(* SyncEngine::HandleCredentialChange, also when the user stays the same.  *)
WorkerChangesUser ==
    /\ worker # <<>>
    /\ Head(worker).type = "credential"
    /\ worker' = Tail(worker)
    /\ syncUser' = Head(worker).user
    /\ closeCount' = IF stream = "stopped" THEN closeCount ELSE closeCount + 1
    /\ StartOrStay(closeCount')
    /\ callUser' = NoUser
    /\ UNCHANGED <<authUser, changes, mainQueue, providerVars, failures>>

(* Writes arrive while the stream is stopped.                              *)
StreamStarts ==
    /\ syncUser # NoEngine
    /\ stream = "stopped"
    /\ stream' = "starting"
    /\ inAuth' = inAuth \cup {GetToken(tokenCounter, closeCount)}
    /\ UNCHANGED <<authUser, changes, mainQueue, providerVars, worker, syncUser,
                   closeCount, callUser, failures>>

(* A mistake: the close count of the request is not looked at.             *)
TokenStartsAnyCall ==
    /\ worker # <<>>
    /\ Head(worker).type = "token"
    /\ worker' = Tail(worker)
    /\ IF stream # "starting" \/ Head(worker).user = Failed
         THEN UNCHANGED <<stream, callUser, closeCount>>
         ELSE /\ stream' = "open"
              /\ callUser' = Head(worker).user
              /\ UNCHANGED closeCount
    /\ UNCHANGED <<authVars, mainQueue, providerVars, syncUser, failures>>

(* Stream::ResumeStartWithCredentials, unless the stream has been closed.  *)
WorkerTakesToken ==
    /\ worker # <<>>
    /\ Head(worker).type = "token"
    /\ worker' = Tail(worker)
    /\ IF Head(worker).close # closeCount
         THEN UNCHANGED <<stream, callUser, closeCount>>
       ELSE IF Head(worker).user = Failed
         THEN /\ stream' = "backoff"
              /\ closeCount' = closeCount + 1
              /\ UNCHANGED callUser
         ELSE /\ stream' = "open"
              /\ callUser' = Head(worker).user
              /\ UNCHANGED closeCount
    /\ UNCHANGED <<authVars, mainQueue, providerVars, syncUser, failures>>

(* The connection breaks, or the stream has been idle.                     *)
StreamEnds ==
    /\ stream = "open"
    /\ Fails
    /\ stream' \in {"backoff", "stopped"}
    /\ closeCount' = closeCount + 1
    /\ callUser' = NoUser
    /\ UNCHANGED <<authVars, mainQueue, providerVars, worker, syncUser>>

BackoffEnds ==
    /\ stream = "backoff"
    /\ stream' = "starting"
    /\ inAuth' = inAuth \cup {GetToken(tokenCounter, closeCount)}
    /\ UNCHANGED <<authUser, changes, mainQueue, providerVars, worker, syncUser,
                   closeCount, callUser, failures>>

-----------------------------------------------------------------------------
CredNext ==
    \/ \E u \in Owners : AuthChanges(u)
    \/ \E r \in inAuth : TakesRequest(r) \/ FetchesToken(r) \/ FailsToFetch(r)
    \/ MakesProvider
    \/ NotificationRuns
    \/ AnswerRuns
    \/ WorkerChangesUser
    \/ StreamStarts
    \/ WorkerTakesToken
    \/ StreamEnds
    \/ BackoffEnds

(* Every queue runs, and every request for a token is answered.            *)
CredFairness ==
    /\ WF_credVars(\E r \in inAuth : TakesRequest(r) \/ FetchesToken(r))
    /\ WF_credVars(NotificationRuns \/ AnswerRuns)
    /\ WF_credVars(WorkerChangesUser \/ WorkerTakesToken)

CredSpec == CredInit /\ [][CredNext]_credVars
CredFairSpec == CredSpec /\ CredFairness

-----------------------------------------------------------------------------
(* Every variable has its type (provider, Stream).                         *)
CredTypeOK ==
    /\ authUser \in Owners
    /\ mainQueue \in Seq([type : {"notification"}, user : Owners]
           \cup [type : {"answer"}, ask : Asks, user : Owners \cup {Failed}])
    /\ credential \in Owners \cup {NoEngine}
    /\ tokenCounter \in Nat
    /\ inAuth \subseteq Fetching
    /\ worker \in Seq([type : {"credential"}, user : Owners]
           \cup [type : {"token"}, close : Nat, user : Owners \cup {Failed}])
    /\ syncUser \in Owners \cup {NoEngine}
    /\ stream \in {"stopped", "starting", "open", "backoff"}
    /\ closeCount \in Nat
    /\ callUser \in Owners
    /\ changes \in 0 .. MaxChanges
    /\ failures \in 0 .. MaxFailures

(* A stream never carries the token of a user other than the one whose     *)
(* queue it sends: the notification overtakes no token on the main queue,  *)
(* and a token that was asked for before the stream was closed is stale.   *)
OpenForSyncUser == stream = "open" => callUser = syncUser

(* A starting stream waits for exactly one token that it will accept, and  *)
(* a stream in another state for none ("State should still be 'Starting'", *)
(* stream.cc).                                                             *)
Live(n) == n = closeCount
WaitsInAuth == {r \in inAuth : Live(r.ask.close)}
WaitsOnMain == {i \in DOMAIN mainQueue :
                   mainQueue[i].type = "answer" /\ Live(mainQueue[i].ask.close)}
WaitsOnWorker == {i \in DOMAIN worker :
                   worker[i].type = "token" /\ Live(worker[i].close)}
OneTokenAwaited ==
    Cardinality(WaitsInAuth) + Cardinality(WaitsOnMain) + Cardinality(WaitsOnWorker)
        = IF stream = "starting" THEN 1 ELSE 0

(* The provider and the worker lag behind FIRAuth but never lose a change, *)
(* although the provider is made with a user that is read ahead of the     *)
(* notifications: the last change on a queue names the user at its source, *)
(* and an empty queue means that both of its ends have the same user.      *)
Of(queue, kind) == {i \in DOMAIN queue : queue[i].type = kind}
LeadsTo(source, queue, kind, sink) ==
    IF Of(queue, kind) = {} THEN source = sink
    ELSE \E i \in Of(queue, kind) :
            /\ source = queue[i].user
            /\ \A j \in Of(queue, kind) : j <= i
CatchesUp ==
    credential # NoEngine =>
        /\ LeadsTo(authUser, mainQueue, "notification", credential)
        /\ LeadsTo(credential, worker, "credential", syncUser)

(* Provider, stream and worker agree on who waits for what, and on who is  *)
(* signed in once the queues between them have run                         *)
(* (Stream::RequestCredentials, FirebaseAuthCredentialsProvider).          *)
CredConsistent == CredTypeOK /\ OneTokenAwaited /\ CatchesUp

(* A stream that starts gets its token or an error, or is restarted; it    *)
(* does not wait for ever.                                                 *)
StartingEnds == stream = "starting" ~> stream # "starting"
=============================================================================
