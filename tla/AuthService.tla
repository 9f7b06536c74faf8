----------------------------- MODULE AuthService ----------------------------
(***************************************************************************)
(* registerUser, signIn and signOut of AuthService, over the FirebaseAuth  *)
(* and Firestore of the same process.                                      *)
(*                                                                         *)
(* registerUser is two remote steps with no transaction around them:       *)
(* createUser, and from its completion block setData of the profile.  The  *)
(* two services share the main queue, where the notification of a new      *)
(* session and the completion block of the call follow each other, and     *)
(* they share nothing else: Firestore learns who is signed in from the     *)
(* notification, or from FIRAuth itself when it is built.                  *)
(***************************************************************************)
EXTENDS Naturals, Sequences, FiniteSets, SequencesExt

CONSTANTS
    Emails, Calls, NoUser, NoEngine,
    MaxRestarts,    \* bound: how often the process dies
    MaxBacklog,     \* bound: refreshes and unlocks only while queues are short
    MaxOutstanding, \* bound: calls the screens have in flight together
    Operations      \* the operations the screens call

ASSUME OperationsAssumption == Operations \subseteq {"register", "signIn", "signOut"}
ASSUME UsersAssumption == NoUser \notin Emails /\ NoEngine \notin Emails \cup {NoUser}
ASSUME BoundsAssumption == MaxRestarts \in Nat

VARIABLES
    accounts, currentUser, keychain, loader, calls, heard,  \* FirebaseAuth
    created, credential, worker, syncUser, mutations, callbacks, applied,
    issued,                                                 \* FirestoreClient
    mainQueue, restarts,                                    \* shared by both
    told,       \* told[c]: the answers the completion closure of c received
    abandoned,  \* calls whose process died before they were answered
    made,       \* history: the call that created each account, or a marker
    builders    \* history: the calls whose setData built the client

Auth == INSTANCE FirebaseAuth

Store == INSTANCE FirestoreClient WITH People <- Emails, Writes <- Calls,
                                       MaxQueued <- MaxBacklog

authOnly == <<accounts, currentUser, keychain, loader, calls, heard>>
storeOnly == <<created, credential, worker, syncUser, mutations, callbacks,
               applied, issued>>
vars == <<authOnly, storeOnly, mainQueue, restarts, told, abandoned, made,
          builders>>

Nobody == "nobody"
Earlier == "earlier"

ASSUME MarkersAssumption == {Nobody, Earlier} \cap Calls = {}

Init ==
    /\ Auth!AuthInit
    /\ Store!StoreInit
    /\ told = [c \in Calls |-> <<>>]
    /\ abandoned = {}
    /\ made = [e \in Emails |-> IF e \in accounts THEN Earlier ELSE Nobody]
    /\ builders = {}

Waits(c) == calls[c].stage # "idle" /\ told[c] = <<>> /\ c \notin abandoned

-----------------------------------------------------------------------------
(* Calls from the screens.                                                 *)

Start(c, op, e) ==
    /\ Cardinality({d \in Calls : Waits(d)}) < MaxOutstanding
    /\ Auth!Invoke(c, op, e)
    /\ UNCHANGED <<storeOnly, told, abandoned, made, builders>>

registerUser(c, e) == "register" \in Operations /\ Start(c, "register", e)
signIn(c, e) == "signIn" \in Operations /\ Start(c, "signIn", e)

signOut ==
    /\ "signOut" \in Operations
    /\ Auth!SignOut
    /\ UNCHANGED <<storeOnly, told, abandoned, made, builders>>

-----------------------------------------------------------------------------
(* Steps of the auth work queue and of the identity backend.               *)

Grant(c) ==
    /\ Auth!BackendGrants(c)
    /\ made' = IF calls[c].op = "register"
                 THEN [made EXCEPT ![calls[c].email] = c] ELSE made
    /\ UNCHANGED <<storeOnly, told, abandoned, builders>>

WorkQueueStep ==
    /\ \/ Auth!LoadSavedUser
       \/ Auth!LoadFails
       \/ Auth!ProtectedDataDidBecomeAvailable
       \/ Len(worker) < MaxBacklog /\ Auth!RefreshToken
       \/ Auth!RevokeSession
       \/ \E c \in Calls : \/ Auth!BackendRefuses(c)
                           \/ Auth!CompleteSignIn(c)
                           \/ Auth!FailCall(c)
    /\ UNCHANGED <<storeOnly, told, abandoned, made, builders>>

(* Steps of the Firestore worker queue, and of the Firestore backend.      *)
WorkerStep ==
    /\ Store!HandleCredential \/ Store!WriteMutations
    /\ UNCHANGED <<authOnly, told, abandoned, made, builders>>

StoreStep ==
    /\ \/ \E c \in Calls : Store!BackendApplies(c)
       \/ Store!HandleSuccessfulWrite
       \/ Store!HandleRejectedWrite
    /\ UNCHANGED <<authOnly, told, abandoned, made, builders>>

-----------------------------------------------------------------------------
(* Blocks of the main queue.                                               *)

Tell(c, answer) == told' = [told EXCEPT ![c] = Append(@, answer)]

Notification ==
    /\ Auth!DeliverNotice
    /\ Store!CredentialChanges(Head(mainQueue).user)
    /\ UNCHANGED <<told, abandoned, made, builders>>

(* The completion block of signIn, and of createUser when it failed.       *)
CallAnswered ==
    /\ Auth!DeliverReply
    /\ LET r == Head(mainQueue)
       IN /\ r.answer = "ok" => calls[r.call].op = "signIn"
          /\ Tell(r.call, r.answer)
    /\ UNCHANGED <<storeOnly, abandoned, made, builders>>

(* A mistake: the screen is told before the profile is written.            *)
AnswersEarly ==
    /\ Auth!DeliverReply
    /\ LET r == Head(mainQueue)
       IN /\ r.answer = "ok"
          /\ calls[r.call].op = "register"
          /\ Store!SetData(r.call, currentUser)
          /\ Tell(r.call, "ok")
          /\ builders' = IF created THEN builders ELSE builders \cup {r.call}
    /\ UNCHANGED <<abandoned, made>>

(* The completion block of a createUser that succeeded goes on to write    *)
(* the profile; a client built here asks FIRAuth who is signed in now.     *)
AccountCreated ==
    /\ Auth!DeliverReply
    /\ LET r == Head(mainQueue)
       IN /\ r.answer = "ok"
          /\ calls[r.call].op = "register"
          /\ Store!SetData(r.call, currentUser)
          /\ builders' = IF created THEN builders ELSE builders \cup {r.call}
    /\ UNCHANGED <<told, abandoned, made>>

(* A mistake: a refused profile is not reported.                           *)
SettlesInSilence ==
    /\ Store!DeliverWritten
    /\ LET r == Head(mainQueue)
       IN IF r.answer = "ok" THEN Tell(r.write, "ok") ELSE UNCHANGED told
    /\ UNCHANGED <<authOnly, abandoned, made, builders>>

ProfileSettled ==
    /\ Store!DeliverWritten
    /\ Tell(Head(mainQueue).write, Head(mainQueue).answer)
    /\ UNCHANGED <<authOnly, abandoned, made, builders>>

(* The process dies and is launched again.                                 *)
Relaunch ==
    /\ Auth!Restart
    /\ Store!Relaunch
    /\ abandoned' = abandoned \cup {c \in Calls : Waits(c)}
    /\ UNCHANGED <<told, made, builders>>

-----------------------------------------------------------------------------
MainStep == Notification \/ CallAnswered \/ AccountCreated \/ ProfileSettled

Next ==
    \/ \E c \in Calls, e \in Emails : registerUser(c, e) \/ signIn(c, e)
    \/ signOut
    \/ \E c \in Calls : Grant(c)
    \/ WorkQueueStep
    \/ WorkerStep
    \/ StoreStep
    \/ MainStep
    \/ Relaunch

AuthWork(c) ==
    \/ Grant(c)
    \/ /\ Auth!BackendRefuses(c) \/ Auth!CompleteSignIn(c) \/ Auth!FailCall(c)
       /\ UNCHANGED <<storeOnly, told, abandoned, made, builders>>

LoadWork ==
    /\ Auth!LoadSavedUser \/ Auth!LoadFails
    /\ UNCHANGED <<storeOnly, told, abandoned, made, builders>>

(* The queues run while the process lives, every request is answered or    *)
(* times out, and Firestore goes on resending what waits.                  *)
Fairness ==
    /\ WF_vars(MainStep)
    /\ WF_vars(LoadWork)
    /\ \A c \in Calls : WF_vars(AuthWork(c))
    /\ WF_vars(WorkerStep)
    /\ WF_vars(StoreStep)

Spec == Init /\ [][Next]_vars
FairSpec == Spec /\ Fairness

-----------------------------------------------------------------------------
(* Every variable has its type, in the two services together.              *)
TypeOK ==
    /\ accounts \subseteq Emails
    /\ {currentUser, keychain, heard, credential} \subseteq Emails \cup {NoUser}
    /\ loader \in Auth!Loaders
    /\ calls \in [Calls -> Auth!CallRecords]
    /\ created \in BOOLEAN
    /\ worker \in Seq(Store!Blocks)
    /\ syncUser \in Emails \cup {NoUser, NoEngine}
    /\ mutations \in [Store!Owners -> Seq(Calls)]
    /\ callbacks \in [Store!Owners -> SUBSET Calls]
    /\ applied \cup issued \cup abandoned \cup builders \subseteq Calls
    /\ mainQueue \in Seq(Auth!AuthItems \cup Store!WrittenItems)
    /\ restarts \in 0 .. MaxRestarts
    /\ told \in [Calls -> Seq(Auth!Answers)]
    /\ made \in [Emails -> Calls \cup {Nobody, Earlier}]

(* The profile of a new account is filed under that account: the session   *)
(* notification always reaches the worker before the write does.  The one  *)
(* exception is the write that builds the client, whose owner is whoever   *)
(* FIRAuth has signed in by then (AuthService.registerUser,                *)
(* Firestore.firestore() inside the createUser completion block).          *)
ProfileFiledUnderOwner ==
    \A u \in Store!Owners : \A c \in ToSet(mutations[u]) :
        c \notin builders => u = calls[c].email

(* The closure a screen passed is called at most once.                     *)
ToldOnce == \A c \in Calls : Len(told[c]) <= 1

(* The two services together stay well formed while they hand calls,       *)
(* notifications and writes to each other (AuthService.registerUser).      *)
ServiceConsistent == TypeOK /\ ProfileFiledUnderOwner /\ ToldOnce

(* An account whose profile this device neither wrote nor still can write. *)
Writing(c) ==
    /\ calls[c].op = "register"
    /\ \/ calls[c].stage = "granted"
       \/ \E i \in DOMAIN mainQueue : mainQueue[i] = Auth!Reply(c, "ok")
       \/ \E i \in DOMAIN worker : worker[i] = Store!Write(c)
       \/ \E u \in Store!Owners : c \in ToSet(mutations[u])
       \/ c \in applied

Orphan(e) ==
    e \in accounts /\ \A c \in Calls : calls[c].email = e => ~Writing(c)

(* Once the second step of a registration is lost - refused, or dropped    *)
(* with the process - no later registration, sign-in or launch ever writes *)
(* the profile.                                                            *)
OrphansStayOrphans == [][\A e \in Emails : Orphan(e) => Orphan(e)']_vars

(* AuthService keeps its promise to the screens.                           *)
Promised == INSTANCE AccountService WITH
    asked <- [c \in Calls |->
                IF calls[c].stage = "idle" THEN [op |-> "none"]
                ELSE [op |-> calls[c].op, email |-> calls[c].email]],
    written <- applied,
    dead <- abandoned

KeepsPromise == Promised!Promise

(* Every call is answered, unless the process dies or another user's       *)
(* session strands the profile write in its owner's queue.                 *)
Stranded(c) ==
    \E u \in Store!Owners : u # syncUser /\ c \in ToSet(mutations[u])

EveryCallAnswered ==
    \A c \in Calls :
        Waits(c) ~> (told[c] # <<>> \/ c \in abandoned \/ Stranded(c))
=============================================================================
