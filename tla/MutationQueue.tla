---------------------------- MODULE MutationQueue ---------------------------
(***************************************************************************)
(* The mutation queues of FirestoreClient as they are kept: rows of one    *)
(* LevelDB table, ordered by user and batch id.                            *)
(*                                                                         *)
(* A queue hands out ids from a counter in memory, which is set to one     *)
(* above every id on disk when the queue is opened; ids are used again     *)
(* when their batches are gone.  The pipeline looks for what follows its   *)
(* last id, and completion blocks are filed under the user and the id.     *)
(* Handling an answer takes two steps, and the process may die between     *)
(* them: a success is told before the batch leaves the disk, an error      *)
(* after.                                                                  *)
(*                                                                         *)
(* The module implements FirestoreClient, whose queues are sequences and   *)
(* whose answers are one step, but for a death between those two steps.    *)
(***************************************************************************)
EXTENDS Integers, Sequences, FiniteSets, FiniteSetsExt, SequencesExt

CONSTANTS
    People,           \* the users who can be signed in
    NoUser,           \* nil: User::Unauthenticated
    NoEngine,         \* there is no SyncEngine yet
    Writes,           \* identities of setData calls, each used once
    NoRow,            \* no answer is half handled
    MaxRestarts,      \* bound: how often the process dies
    MaxQueued,        \* bound: blocks on the worker queue at a user change
    MaxPendingWrites  \* kMaxPendingWrites

ASSUME QueueNobodyAssumption ==
    /\ NoUser \notin People
    /\ NoEngine \notin People \cup {NoUser}
    /\ NoRow \notin [user : People \cup {NoUser}, id : Int, write : Writes]
ASSUME QueueBoundsAssumption ==
    /\ MaxRestarts \in Nat
    /\ MaxQueued \in Nat
    /\ MaxPendingWrites \in Nat \ {0}

VARIABLES
    created, credential, worker, syncUser,  \* as in FirestoreClient
    applied, issued, mainQueue, restarts,
    rows,         \* the table of mutations on disk
    nextBatchId,  \* LevelDbMutationQueue::next_batch_id_ of the open queue
    blocks,       \* SyncEngine::mutation_callbacks_
    pipeline,     \* RemoteStore::write_pipeline_
    settling,     \* the batch whose answer is half handled, or NoRow
    verdict,      \* the answer it has got
    told          \* writes whose completion block has been dispatched

clientVars == <<created, credential, worker, syncUser, applied, issued,
                mainQueue, restarts>>
rowVars == <<rows, nextBatchId, blocks, pipeline, settling, verdict, told>>
queueVars == <<clientVars, rowVars>>

Owners == People \cup {NoUser}
BatchIds == Nat \ {0}
kBatchIdUnknown == -1
Rows == [user : Owners, id : BatchIds, write : Writes]
RowsOf(u) == {r \in rows : r.user = u}
Idle == settling = NoRow

QueueInit ==
    /\ created = FALSE
    /\ credential = NoUser
    /\ worker = <<>>
    /\ syncUser = NoEngine
    /\ applied = {}
    /\ issued = {}
    /\ mainQueue = <<>>
    /\ restarts = 0
    /\ rows = {}
    /\ nextBatchId = 1
    /\ blocks = {}
    /\ pipeline = <<>>
    /\ settling = NoRow
    /\ verdict = "ok"
    /\ told = {}

-----------------------------------------------------------------------------
(* The table.                                                              *)

(* A mistake: the count is started again.                                  *)
NextIdFromOne(rs) == 1

(* LoadNextBatchIdFromDb: one above the last row of every user.            *)
LoadNextBatchIdFromDb(rs) == 1 + Max({0} \cup {r.id : r \in rs})

(* A mistake: the newest row is found.                                     *)
NewestBatchAfter(rs, u, id) ==
    LET later == {r \in rs : r.user = u /\ r.id > id}
    IN {r \in later : \A s \in later : r.id >= s.id}

(* NextMutationBatchAfterBatchId, as a set that is empty or a singleton.   *)
NextMutationBatchAfterBatchId(rs, u, id) ==
    LET later == {r \in rs : r.user = u /\ r.id > id}
    IN {r \in later : \A s \in later : r.id <= s.id}

(* RemoteStore::FillWritePipeline: rows are added one by one until the     *)
(* pipeline is full or the queue has no more.                              *)
FillWritePipeline(p, rs, u) ==
    LET fill[n \in Nat] ==
            IF n = 0 THEN p
            ELSE LET q == fill[n - 1]
                     next == NextMutationBatchAfterBatchId(rs, u,
                                 IF q = <<>> THEN kBatchIdUnknown ELSE Last(q).id)
                 IN IF next = {} THEN q
                    ELSE Append(q, CHOOSE r \in next : TRUE)
    IN fill[MaxPendingWrites - Len(p)]

-----------------------------------------------------------------------------
(* FirestoreClient's view: the queues in the order of their ids.  A batch  *)
(* is settled when its completion block is told, so one that is told is    *)
(* gone although it is still on disk, and one that has been rejected is    *)
(* still there although it has left the disk.                              *)
Outstanding ==
    IF Idle THEN rows
    ELSE IF verdict = "ok" THEN rows \ {settling} ELSE rows \cup {settling}
InOrder(rs) ==
    CHOOSE q \in [1 .. Cardinality(rs) -> rs] :
        /\ ToSet(q) = rs
        /\ \A i, j \in DOMAIN q : i < j => q[i].id <= q[j].id
WritesOf(q) == [i \in DOMAIN q |-> q[i].write]

Client == INSTANCE FirestoreClient WITH
    mutations <- [u \in Owners |->
                     WritesOf(InOrder({r \in Outstanding : r.user = u}))],
    callbacks <- [u \in Owners |->
                     {b.write : b \in {r \in blocks : r.user = u}}]

-----------------------------------------------------------------------------
(* The main queue and the backend.                                         *)

AppSetsData(w, u) ==
    /\ UNCHANGED <<rowVars, mainQueue>>
    /\ Client!SetData(w, u)

UserChanges(u) ==
    /\ Len(worker) < MaxQueued
    /\ UNCHANGED <<rowVars, mainQueue>>
    /\ Client!CredentialChanges(u)

CompletionRuns ==
    /\ UNCHANGED rowVars
    /\ Client!DeliverWritten

(* The backend applies the pipeline in order, and a refusal ends the call. *)
BackendApplies(i) ==
    /\ Idle \/ verdict = "ok"
    /\ i \in DOMAIN pipeline
    /\ \A j \in 1 .. i - 1 : pipeline[j].write \in applied
    /\ applied' = applied \cup {pipeline[i].write}
    /\ UNCHANGED <<created, credential, worker, syncUser, issued, mainQueue,
                   restarts, rowVars>>

-----------------------------------------------------------------------------
(* Blocks of the worker queue, one at a time.                              *)

(* Initialize, or HandleCredentialChange: the queue is opened only when    *)
(* the user is another one, the pipeline is filled again in any case.      *)
HandleCredential ==
    /\ Idle
    /\ worker # <<>>
    /\ Head(worker).type = "credential"
    /\ syncUser' = Head(worker).user
    /\ nextBatchId' = IF syncUser' = syncUser THEN nextBatchId
                      ELSE LoadNextBatchIdFromDb(rows)
    /\ pipeline' = FillWritePipeline(<<>>, rows, syncUser')
    /\ worker' = Tail(worker)
    /\ UNCHANGED <<created, credential, applied, issued, mainQueue, restarts,
                   rows, blocks, settling, verdict, told>>

WriteMutations ==
    /\ Idle
    /\ worker # <<>>
    /\ Head(worker).type = "write"
    /\ LET batch == [user |-> syncUser, id |-> nextBatchId,
                     write |-> Head(worker).write]
       IN /\ rows' = rows \cup {batch}
          /\ blocks' = blocks \cup {batch}
          /\ pipeline' = FillWritePipeline(pipeline, rows', syncUser)
    /\ nextBatchId' = nextBatchId + 1
    /\ worker' = Tail(worker)
    /\ UNCHANGED <<created, credential, syncUser, applied, issued, mainQueue,
                   restarts, settling, verdict, told>>

BlocksFor(batch) == {b \in blocks : b.user = syncUser /\ b.id = batch.id}

(* A mistake: the block stays on file.                                     *)
NotifiesAgain(batch, answer) ==
    /\ mainQueue' = mainQueue \o
           [i \in 1 .. Cardinality(BlocksFor(batch)) |->
               Client!Written((CHOOSE b \in BlocksFor(batch) : TRUE).write, answer)]
    /\ told' = told \cup {b.write : b \in BlocksFor(batch)}
    /\ UNCHANGED blocks

(* NotifyUser: the block that is filed under this user and this id.        *)
NotifyUser(batch, answer) ==
    /\ mainQueue' = mainQueue \o
           [i \in 1 .. Cardinality(BlocksFor(batch)) |->
               Client!Written((CHOOSE b \in BlocksFor(batch) : TRUE).write, answer)]
    /\ told' = told \cup {b.write : b \in BlocksFor(batch)}
    /\ blocks' = blocks \ BlocksFor(batch)

(* HandleSuccessfulWrite: the completion block is told first ...           *)
SuccessIsTold ==
    /\ Idle
    /\ pipeline # <<>>
    /\ Head(pipeline).write \in applied
    /\ NotifyUser(Head(pipeline), "ok")
    /\ settling' = Head(pipeline)
    /\ verdict' = "ok"
    /\ pipeline' = Tail(pipeline)
    /\ UNCHANGED <<created, credential, worker, syncUser, applied, issued,
                   restarts, rows, nextBatchId>>

(* ... then AcknowledgeBatch removes the row, and the pipeline is filled.  *)
AcknowledgeBatch ==
    /\ settling # NoRow
    /\ verdict = "ok"
    /\ rows' = {r \in rows : <<r.user, r.id>> # <<syncUser, settling.id>>}
    /\ pipeline' = FillWritePipeline(pipeline, rows', syncUser)
    /\ settling' = NoRow
    /\ UNCHANGED <<clientVars, nextBatchId, blocks, verdict, told>>

(* HandleRejectedWrite: RejectBatch looks the batch up and removes it ...  *)
RejectBatch ==
    /\ Idle
    /\ pipeline # <<>>
    /\ settling' = Head(pipeline)
    /\ verdict' = "failed"
    /\ rows' = {r \in rows : <<r.user, r.id>> # <<syncUser, Head(pipeline).id>>}
    /\ pipeline' = Tail(pipeline)
    /\ UNCHANGED <<clientVars, nextBatchId, blocks, told>>

(* ... then the completion block is told, and the pipeline is filled.      *)
FailureIsTold ==
    /\ settling # NoRow
    /\ verdict = "failed"
    /\ NotifyUser(settling, "failed")
    /\ pipeline' = FillWritePipeline(pipeline, rows, syncUser)
    /\ settling' = NoRow
    /\ UNCHANGED <<created, credential, worker, syncUser, applied, issued,
                   restarts, rows, nextBatchId, verdict>>

(* The table is on disk, everything else in memory.                        *)
ProcessDies ==
    /\ restarts < MaxRestarts
    /\ restarts' = restarts + 1
    /\ created' = FALSE
    /\ credential' = NoUser
    /\ worker' = <<>>
    /\ syncUser' = NoEngine
    /\ mainQueue' = <<>>
    /\ nextBatchId' = 1
    /\ blocks' = {}
    /\ pipeline' = <<>>
    /\ settling' = NoRow
    /\ UNCHANGED <<applied, issued, rows, verdict, told>>

-----------------------------------------------------------------------------
QueueNext ==
    \/ \E w \in Writes, u \in Owners : AppSetsData(w, u)
    \/ \E u \in Owners : UserChanges(u)
    \/ CompletionRuns
    \/ \E i \in DOMAIN pipeline : BackendApplies(i)
    \/ HandleCredential
    \/ WriteMutations
    \/ SuccessIsTold
    \/ AcknowledgeBatch
    \/ RejectBatch
    \/ FailureIsTold
    \/ ProcessDies

QueueSpec == QueueInit /\ [][QueueNext]_queueVars

-----------------------------------------------------------------------------
(* Every variable has its type (LevelDbMutationQueue, SyncEngine).         *)
QueueTypeOK ==
    /\ created \in BOOLEAN
    /\ credential \in Owners
    /\ worker \in Seq(Client!Blocks)
    /\ syncUser \in Owners \cup {NoEngine}
    /\ applied \subseteq Writes
    /\ issued \subseteq Writes
    /\ mainQueue \in Seq(Client!WrittenItems)
    /\ restarts \in 0 .. MaxRestarts
    /\ rows \subseteq Rows
    /\ nextBatchId \in BatchIds
    /\ blocks \subseteq Rows
    /\ pipeline \in Seq(Rows)
    /\ settling \in Rows \cup {NoRow}
    /\ verdict \in {"ok", "failed"}
    /\ told \subseteq Writes

(* An id names one batch, whoever it belongs to, and the next id is free:  *)
(* although ids are used again after the queues have emptied, none is      *)
(* handed out while a row, or a completion block, still has it.            *)
OneBatchPerId ==
    /\ \A r, s \in rows : r.id = s.id => r = s
    /\ syncUser # NoEngine => \A r \in rows : r.id < nextBatchId

(* A completion block found by its id is the one of the batch that is      *)
(* settled: a block on file has its row on disk, or the row was rejected   *)
(* a moment ago.                                                           *)
BlocksMeetTheirBatch == blocks \subseteq Outstanding

(* What is sent is the front of the current user's queue, every row of it  *)
(* still on disk ("Mutation batch did not exist", "Attempt to reject       *)
(* nonexistent batch").                                                    *)
Current ==
    InOrder({r \in Outstanding : r.user = syncUser} \ {settling})
PipelineIsFront ==
    /\ IsPrefix(pipeline, Current)
    /\ Idle => Len(pipeline) = Min({Len(Current), MaxPendingWrites})
    /\ (settling # NoRow /\ verdict = "ok") => settling \in rows

(* A completion block is called once, although a batch that was told of is *)
(* sent again when the process dies before it leaves the disk.             *)
ToldOnce ==
    [][\A i \in DOMAIN mainQueue' :
          i > Len(mainQueue) => mainQueue'[i].write \notin told]_queueVars

(* The rows and ids implement FirestoreClient's queues, but for a death    *)
(* half way through an answer.                                             *)
DiesHalfway == ~Idle /\ ProcessDies
ImplementsClient ==
    /\ Client!StoreInit
    /\ [][Client!StoreNext \/ DiesHalfway]_(Client!storeVars)
=============================================================================
