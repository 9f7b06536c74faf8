--------------------------- MODULE FirestoreClient --------------------------
(***************************************************************************)
(* The Firestore client as the app uses it: setData and nothing else.      *)
(*                                                                         *)
(* The client is created by its first use in a process.  Its credentials   *)
(* provider then follows the notifications of FIRAuth; every credential    *)
(* change and every write is a block on one serial worker queue.  A write  *)
(* is appended to the mutation queue of the user the worker knows at that  *)
(* moment; mutation queues are persistent and only the current user's is   *)
(* sent.  The completion blocks live in memory, filed under the user and   *)
(* the batch, and are dispatched to the main queue when the backend has    *)
(* settled the batch.                                                      *)
(*                                                                         *)
(* The streams below this module (handshake, pipeline, resending) appear   *)
(* as the backend applying a write, once or again, before the client       *)
(* learns of it.                                                           *)
(***************************************************************************)
EXTENDS Naturals, Sequences, SequencesExt

CONSTANTS
    People,       \* the users who can be signed in
    NoUser,       \* nil: User::Unauthenticated
    NoEngine,     \* there is no SyncEngine yet
    Writes,       \* identities of setData calls, each used once
    MaxRestarts,  \* bound: how often the process dies and is launched again
    MaxQueued     \* bound: credential changes arrive only while fewer than
                  \* this many blocks wait on the worker queue

ASSUME NobodyAssumption == NoUser \notin People /\ NoEngine \notin People \cup {NoUser}
ASSUME StoreBoundsAssumption == MaxRestarts \in Nat /\ MaxQueued \in Nat

VARIABLES
    created,     \* Firestore.firestore() has built the client
    credential,  \* the provider's contents->current_user
    worker,      \* blocks on the worker queue, oldest first
    syncUser,    \* SyncEngine::current_user_, NoEngine until Initialize has run
    mutations,   \* every user's persistent mutation queue
    callbacks,   \* SyncEngine::mutation_callbacks_
    applied,     \* writes the backend has applied
    issued,      \* setData calls made so far
    mainQueue,   \* completion blocks dispatched to the main queue
    restarts     \* launches so far, bounded by MaxRestarts

storeVars == <<created, credential, worker, syncUser, mutations, callbacks,
               applied, issued, mainQueue, restarts>>

Owners == People \cup {NoUser}
Credential(u) == [type |-> "credential", user |-> u]
Write(w) == [type |-> "write", write |-> w]
Blocks == [type : {"credential"}, user : Owners]
            \cup [type : {"write"}, write : Writes]
Answers == {"ok", "failed"}
Written(w, a) == [type |-> "written", write |-> w, answer |-> a]
WrittenItems == [type : {"written"}, write : Writes, answer : Answers]

StoreInit ==
    /\ created = FALSE
    /\ credential = NoUser
    /\ worker = <<>>
    /\ syncUser = NoEngine
    /\ mutations = [u \in Owners |-> <<>>]
    /\ callbacks = [u \in Owners |-> {}]
    /\ applied = {}
    /\ issued = {}
    /\ mainQueue = <<>>
    /\ restarts = 0

-----------------------------------------------------------------------------
(* Blocks of the main queue that reach the client.  What else such a block *)
(* does to the main queue is its caller's business.                        *)

(* The provider's observer: without a client nobody observes.              *)
CredentialChanges(u) ==
    /\ credential' = IF created THEN u ELSE credential
    /\ worker' = IF created THEN Append(worker, Credential(u)) ELSE worker
    /\ UNCHANGED <<created, syncUser, mutations, callbacks, applied, issued,
                   restarts>>

(* Firestore.firestore().collection("users").document(uid).setData: the    *)
(* first use builds the client with the user signed in right now, and      *)
(* Initialize becomes the worker's first block.                            *)
SetData(w, signedIn) ==
    /\ w \notin issued
    /\ issued' = issued \cup {w}
    /\ created' = TRUE
    /\ credential' = IF created THEN credential ELSE signedIn
    /\ worker' = IF created THEN Append(worker, Write(w))
                 ELSE <<Credential(signedIn), Write(w)>>
    /\ UNCHANGED <<syncUser, mutations, callbacks, applied, restarts>>

-----------------------------------------------------------------------------
(* The worker queue runs one block at a time.                              *)

(* Initialize, or HandleCredentialChange on the engine it made.            *)
HandleCredential ==
    /\ worker # <<>>
    /\ Head(worker).type = "credential"
    /\ syncUser' = Head(worker).user
    /\ worker' = Tail(worker)
    /\ UNCHANGED <<created, credential, mutations, callbacks, applied, issued,
                   mainQueue, restarts>>

WriteMutations ==
    /\ worker # <<>>
    /\ Head(worker).type = "write"
    /\ LET w == Head(worker).write
       IN /\ mutations' = [mutations EXCEPT ![syncUser] = Append(@, w)]
          /\ callbacks' = [callbacks EXCEPT ![syncUser] = @ \cup {w}]
    /\ worker' = Tail(worker)
    /\ UNCHANGED <<created, credential, syncUser, applied, issued, mainQueue,
                   restarts>>

-----------------------------------------------------------------------------
(* The backend, and what the client does with its answers.                 *)

Pending(u) == ToSet(mutations[u])
Sending == syncUser # NoEngine /\ mutations[syncUser] # <<>>

(* The backend works through the current user's queue in order and may run *)
(* ahead of the answers it sends; a write sent again is applied again.     *)
BackendApplies(w) ==
    /\ Sending
    /\ \E i \in DOMAIN mutations[syncUser] :
          /\ mutations[syncUser][i] = w
          /\ \A j \in 1 .. i - 1 : mutations[syncUser][j] \in applied
    /\ applied' = applied \cup {w}
    /\ UNCHANGED <<created, credential, worker, syncUser, mutations, callbacks,
                   issued, mainQueue, restarts>>

(* The head of the queue leaves the disk, and the completion block filed   *)
(* under the current user, if this process has one, is dispatched.         *)
Settled == Head(mutations[syncUser])
RemoveMutationBatch ==
    mutations' = [mutations EXCEPT ![syncUser] = Tail(@)]
Dispatch(a) ==
    mainQueue' = IF Settled \in callbacks[syncUser]
                   THEN Append(mainQueue, Written(Settled, a)) ELSE mainQueue
NotifyUser(a) ==
    /\ callbacks' = [callbacks EXCEPT ![syncUser] = @ \ {Settled}]
    /\ Dispatch(a)

SettleHead(a) ==
    /\ RemoveMutationBatch
    /\ NotifyUser(a)
    /\ UNCHANGED <<created, credential, worker, syncUser, applied, issued,
                   restarts>>

HandleSuccessfulWrite ==
    /\ Sending
    /\ Head(mutations[syncUser]) \in applied
    /\ SettleHead("ok")

(* A permanent error: the security rules refuse the write, even one that   *)
(* is a repetition of a write they allowed before.                         *)
HandleRejectedWrite ==
    /\ Sending
    /\ SettleHead("failed")

(* The completion block of setData runs.                                   *)
DeliverWritten ==
    /\ mainQueue # <<>>
    /\ Head(mainQueue).type = "written"
    /\ mainQueue' = Tail(mainQueue)
    /\ UNCHANGED <<created, credential, worker, syncUser, mutations, callbacks,
                   applied, issued, restarts>>

(* The process dies and is launched again: mutation queues are on disk.    *)
Relaunch ==
    /\ restarts < MaxRestarts
    /\ restarts' = restarts + 1
    /\ created' = FALSE
    /\ credential' = NoUser
    /\ worker' = <<>>
    /\ syncUser' = NoEngine
    /\ callbacks' = [u \in Owners |-> {}]
    /\ mainQueue' = <<>>
    /\ UNCHANGED <<mutations, applied, issued>>

-----------------------------------------------------------------------------
StoreNext ==
    \/ \E u \in Owners : /\ Len(worker) < MaxQueued
                         /\ CredentialChanges(u)
                         /\ UNCHANGED mainQueue
    \/ \E w \in Writes, u \in Owners : /\ SetData(w, u)
                                       /\ UNCHANGED mainQueue
    \/ HandleCredential
    \/ WriteMutations
    \/ \E w \in Writes : BackendApplies(w)
    \/ HandleSuccessfulWrite
    \/ HandleRejectedWrite
    \/ DeliverWritten
    \/ Relaunch

StoreSpec == StoreInit /\ [][StoreNext]_storeVars

-----------------------------------------------------------------------------
(* Every variable has its type (SyncEngine, LocalStore).                   *)
StoreTypeOK ==
    /\ created \in BOOLEAN
    /\ credential \in Owners
    /\ worker \in Seq(Blocks)
    /\ syncUser \in Owners \cup {NoEngine}
    /\ mutations \in [Owners -> Seq(Writes)]
    /\ callbacks \in [Owners -> SUBSET Writes]
    /\ applied \subseteq Writes
    /\ issued \subseteq Writes
    /\ mainQueue \in Seq(WrittenItems)
    /\ restarts \in 0 .. MaxRestarts

(* u is the user the engine knows when the first n blocks have run.        *)
IsChange(i) == worker[i].type = "credential"

SyncUserAfter(n, u) ==
    \/ /\ \A i \in 1 .. n : ~IsChange(i)
       /\ syncUser = u
    \/ \E i \in 1 .. n : /\ IsChange(i)
                        /\ worker[i].user = u
                        /\ \A j \in i + 1 .. n : ~IsChange(j)

(* A write never meets a client without an engine, and the worker's view   *)
(* of the user is the provider's view, late but never wrong: Initialize is *)
(* the first block, and no credential change overtakes another.            *)
WorkerFollowsProvider ==
    /\ created => SyncUserAfter(Len(worker), credential)
    /\ \A i \in 1 .. Len(worker) :
          worker[i].type = "write" => \E u \in Owners : SyncUserAfter(i, u)

(* A completion block is kept exactly as long as its write waits under the *)
(* same user: a switch of users strands blocks together with their writes, *)
(* and never loses one or keeps one whose write is gone.                   *)
CallbacksHaveWrites == \A u \in Owners : callbacks[u] \subseteq Pending(u)

(* No write is queued, or answered, twice.                                 *)
OneOwner == \A u, v \in Owners : u # v => Pending(u) \cap Pending(v) = {}
QueuedOnce == \A u \in Owners : IsInjective(mutations[u])
AnsweredAfterQueued ==
    \A i \in DOMAIN mainQueue : \A u \in Owners :
        mainQueue[i].write \notin Pending(u)
AnsweredOnce ==
    \A i, j \in DOMAIN mainQueue :
        mainQueue[i].write = mainQueue[j].write => i = j

WriteInOnePlace == OneOwner /\ QueuedOnce /\ AnsweredAfterQueued /\ AnsweredOnce

(* The client always knows whose write is where, who waits for it, and for *)
(* whom the worker works (FirestoreClient, SyncEngine, LocalStore).        *)
ClientConsistent ==
    StoreTypeOK /\ WorkerFollowsProvider /\ CallbacksHaveWrites /\ WriteInOnePlace

(* What keeps it so: a block on the worker queue is the only place of its  *)
(* write, and whatever is queued or answered was issued.                   *)
IsWrite(i) == worker[i].type = "write"

WaitingIsNowhereElse ==
    \A i \in DOMAIN worker : IsWrite(i) =>
        /\ worker[i].write \in issued
        /\ \A u \in Owners : worker[i].write \notin Pending(u)
        /\ \A j \in DOMAIN mainQueue : mainQueue[j].write # worker[i].write
WaitingOnce ==
    \A i, j \in DOMAIN worker :
        /\ IsWrite(i)
        /\ IsWrite(j)
        /\ worker[i].write = worker[j].write
        => i = j
OnlyIssued ==
    /\ \A u \in Owners : Pending(u) \subseteq issued
    /\ \A i \in DOMAIN mainQueue : mainQueue[i].write \in issued

WritesAccounted ==
    WriteInOnePlace /\ WaitingIsNowhereElse /\ WaitingOnce /\ OnlyIssued

(* A completion block that reports success is about a write the backend    *)
(* has applied.                                                            *)
SuccessMeansApplied ==
    \A i \in DOMAIN mainQueue :
        mainQueue[i].answer = "ok" => mainQueue[i].write \in applied

(* A queued write leaves the device only by being settled as the head of   *)
(* the current user's queue: neither a user switch nor a crash drops or    *)
(* reorders what is queued.                                                *)
QueuesAreDurable ==
    [][\A u \in Owners :
          \/ mutations'[u] = mutations[u]
          \/ /\ u = syncUser
             /\ \/ /\ mutations[u] # <<>>
                   /\ mutations'[u] = Tail(mutations[u])
                \/ \E w \in Writes : mutations'[u] = Append(mutations[u], w)
      ]_storeVars

(* Once the worker stays with one user, everything queued for that user is *)
(* settled, what a dead process left behind and what is still added        *)
(* (RemoteStore::FillWritePipeline after every answer).                    *)
CurrentQueueDrains ==
    \A u \in Owners : <>[](syncUser = u) => []<>(mutations[u] = <<>>)
=============================================================================
