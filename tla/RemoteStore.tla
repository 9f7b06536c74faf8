----------------------------- MODULE RemoteStore ----------------------------
(***************************************************************************)
(* How the Firestore client sends the writes FirestoreClient queues.       *)
(*                                                                         *)
(* RemoteStore keeps a pipeline: the batches of the current user's queue   *)
(* that have been handed to the write stream.  The stream (Stream and      *)
(* WriteStream) asks for credentials, opens a gRPC call, makes a handshake *)
(* and then sends the pipeline; the backend answers in order.  A stream    *)
(* that fails is restarted after a backoff, one that has nothing to send   *)
(* is stopped by an idle timer, and a change of user or of connectivity    *)
(* tears it down and starts again from the disk.                           *)
(*                                                                         *)
(* Every action below but those of the backend is one block of the worker  *)
(* queue, so it is atomic.  The HARD_ASSERTs of the code are the           *)
(* invariants AssertionsHold and AnswersMatchPipeline.                     *)
(*                                                                         *)
(* A request that is lost with its call has either been applied before or  *)
(* is never applied: nothing on the device tells that from a late arrival. *)
(***************************************************************************)
EXTENDS FirestoreClient

CONSTANTS
    Handshake,         \* the request that opens a write stream, and its answer
    NoToken,           \* the empty stream token
    MaxPendingWrites,  \* kMaxPendingWrites
    MaxDisruptions,    \* bound: credential changes, changes of connectivity
                       \* and failures of the stream
    AnswersMayBeLost   \* a write that fails may cost answers that have come
                       \* before the end of the call (GrpcStream)

ASSUME HandshakeAssumption == Handshake \notin Writes /\ NoToken \notin Owners
ASSUME PipelineAssumption ==
    /\ MaxPendingWrites \in Nat \ {0}
    /\ MaxDisruptions \in Nat
    /\ AnswersMayBeLost \in BOOLEAN

VARIABLES
    stream,       \* Stream::state_
    handshake,    \* WriteStream::handshake_complete_
    closeCount,   \* Stream::close_count_
    asked,        \* close counts of the unanswered requests for credentials
    timers,       \* delayed operations of the stream that are scheduled
    pipeline,     \* RemoteStore::write_pipeline_
    requests,     \* what the open call has sent and the backend not handled
    responses,    \* what the backend has answered and the worker not handled
    verdict,      \* the status with which the backend has ended the call
    streamToken,  \* WriteStream::last_stream_token_, as the user it is about
    storedToken,  \* the token saved with every user's mutation queue
    disruptions   \* disruptions so far, bounded by MaxDisruptions

callVars == <<requests, responses, verdict>>
tokenVars == <<streamToken, storedToken>>
streamVars == <<stream, handshake, closeCount, asked, timers>>
remoteVars == <<streamVars, pipeline, callVars, tokenVars, disruptions>>
pipelineVars == <<storeVars, remoteVars>>

States == {"Initial", "Starting", "Open", "Healthy", "Error", "Backoff"}
Timers == {"idle", "health", "backoff"}

(* Datastore::IsPermanentError: everything but "transient";                *)
(* Datastore::IsPermanentWriteError: "permanent" alone.                    *)
Statuses == {"transient", "aborted", "permanent"}
PermanentError(status) == status \in {"aborted", "permanent"}
PermanentWriteError(status) == status = "permanent"

(* The status that ends a call, the request it is about, and whether it    *)
(* may be handed out ahead of the answers that are not read yet.           *)
NoVerdict == [status |-> "none", about |-> Handshake, overtakes |-> FALSE]
Verdicts ==
    {NoVerdict} \cup [status : Statuses, about : Writes \cup {Handshake},
                      overtakes : BOOLEAN]

IsOpen == stream \in {"Open", "Healthy"}
IsStarted == IsOpen \/ stream \in {"Starting", "Backoff"}

NoCall ==
    /\ requests = <<>>
    /\ responses = <<>>
    /\ verdict = NoVerdict

RemoteInit ==
    /\ StoreInit
    /\ stream = "Initial"
    /\ handshake = FALSE
    /\ closeCount = 0
    /\ asked = {}
    /\ timers = {}
    /\ pipeline = <<>>
    /\ NoCall
    /\ streamToken = NoToken
    /\ storedToken = [u \in Owners |-> NoToken]
    /\ disruptions = 0

Disrupts ==
    /\ disruptions < MaxDisruptions
    /\ disruptions' = disruptions + 1

-----------------------------------------------------------------------------
(* The pipeline.                                                           *)

Position(q, w) == CHOOSE i \in DOMAIN q : q[i] = w

(* LocalStore::GetNextMutationBatch: what follows the last batch that is   *)
(* in the pipeline already.                                                *)
After(p, q) ==
    IF p = <<>> \/ Last(p) \notin ToSet(q) THEN q
    ELSE SubSeq(q, Position(q, Last(p)) + 1, Len(q))

NextBatches(p, q) ==
    LET rest == After(p, q)
    IN SubSeq(rest, 1, Min({Len(rest), MaxPendingWrites - Len(p)}))

(* Stream::Start in state "from", by a stream that has been closed "count" *)
(* times and has the requests for credentials "pending".                   *)
Start(from, count, pending) ==
    IF from = "Error"
      THEN /\ stream' = "Backoff"
           /\ timers' = {"backoff"}
           /\ asked' = pending
      ELSE /\ stream' = "Starting"
           /\ timers' = {}
           /\ asked' = pending \cup {count}

(* A mistake: the stream is not started by what is added to the pipeline.  *)
FillStoppedNeverStarting(p, q, from, count, pending) ==
    /\ pipeline' = p \o NextBatches(p, q)
    /\ stream' = from
    /\ timers' = {}
    /\ asked' = pending

(* FillWritePipeline while the stream is stopped, in state "from".         *)
FillStopped(p, q, from, count, pending) ==
    /\ pipeline' = p \o NextBatches(p, q)
    /\ IF pipeline' = <<>>
         THEN /\ stream' = from
              /\ timers' = {}
              /\ asked' = pending
         ELSE Start(from, count, pending)

(* A mistake: what is added to the pipeline is not sent.                   *)
FillSilently(p, q, answered) ==
    /\ pipeline' = p \o NextBatches(p, q)
    /\ responses' = answered
    /\ timers' = IF pipeline' = <<>> THEN timers \cup {"idle"}
                 ELSE timers \ {"idle"}
    /\ UNCHANGED <<stream, asked, requests>>

(* FillWritePipeline while the stream is started: what is added is sent if *)
(* the handshake is complete, and an empty pipeline arms the idle timer.   *)
(* Nothing that is written to a call the backend has ended arrives.        *)
FillStarted(p, q, answered) ==
    LET added == NextBatches(p, q)
    IN /\ pipeline' = p \o added
       /\ responses' = answered
       /\ requests' = IF handshake /\ verdict = NoVerdict
                        THEN requests \o added ELSE requests
       /\ timers' = IF IsOpen /\ pipeline' = <<>> THEN timers \cup {"idle"}
                    ELSE IF handshake /\ added # <<>> THEN timers \ {"idle"}
                    ELSE timers
       /\ UNCHANGED <<stream, asked>>

(* A mistake: answers of the old call stay on the worker queue.            *)
DropRequestsOnly == requests' = <<>> /\ UNCHANGED <<responses, verdict>>

(* The call is gone: GrpcStream lets no answer through once it is finished. *)
DropCall ==
    /\ requests' = <<>>
    /\ responses' = <<>>
    /\ verdict' = NoVerdict

(* Stream::Close, but for the state and the timers.                        *)
Close ==
    /\ closeCount' = closeCount + 1
    /\ handshake' = FALSE
    /\ DropCall

(* SyncEngine::HandleSuccessfulWrite and HandleRejectedWrite: the batch,   *)
(* looked up by its id, leaves the disk, and its completion block is told. *)
QueueWithout(w) == RemoveAt(mutations[syncUser], Position(mutations[syncUser], w))

Tell(w, answer) ==
    /\ mainQueue' = IF w \in callbacks[syncUser]
                      THEN Append(mainQueue, Written(w, answer)) ELSE mainQueue
    /\ UNCHANGED <<created, credential, worker, syncUser, applied, issued,
                   restarts>>

(* A mistake: the batch stays queued.                                      *)
SettlesKeepingBatch(w, answer) ==
    /\ callbacks' = [callbacks EXCEPT ![syncUser] = @ \ {w}]
    /\ Tell(w, answer)
    /\ UNCHANGED mutations

Settle(w, answer) ==
    /\ mutations' = [mutations EXCEPT ![syncUser] = QueueWithout(w)]
    /\ callbacks' = [callbacks EXCEPT ![syncUser] = @ \ {w}]
    /\ Tell(w, answer)

-----------------------------------------------------------------------------
(* Blocks of the main queue, and the process.                              *)

AppSetsData(w, u) ==
    /\ SetData(w, u)
    /\ UNCHANGED <<mainQueue, remoteVars>>

UserChanges(u) ==
    /\ Len(worker) < MaxQueued
    /\ CredentialChanges(u)
    /\ Disrupts
    /\ UNCHANGED <<mainQueue, streamVars, pipeline, callVars, tokenVars>>

CompletionRuns ==
    /\ DeliverWritten
    /\ UNCHANGED remoteVars

ProcessDies ==
    /\ Relaunch
    /\ stream' = "Initial"
    /\ handshake' = FALSE
    /\ closeCount' = 0
    /\ asked' = {}
    /\ timers' = {}
    /\ pipeline' = <<>>
    /\ DropCall
    /\ streamToken' = NoToken
    /\ UNCHANGED <<storedToken, disruptions>>

-----------------------------------------------------------------------------
(* Blocks that FirestoreClient and the connectivity monitor enqueue.       *)

(* RemoteStore::RestartNetwork, or the EnableNetwork of a new RemoteStore, *)
(* once u is the current user.                                             *)
RestartNetwork(u) ==
    /\ IF IsStarted THEN Close ELSE UNCHANGED <<closeCount, handshake, callVars>>
    /\ streamToken' = storedToken[u]
    /\ FillStopped(<<>>, mutations[u], "Initial", closeCount', asked)

WorkerHandlesCredential ==
    /\ HandleCredential
    /\ RestartNetwork(Head(worker).user)
    /\ UNCHANGED <<storedToken, disruptions>>

ConnectivityReturns ==
    /\ syncUser # NoEngine
    /\ Disrupts
    /\ RestartNetwork(syncUser)
    /\ UNCHANGED <<storeVars, storedToken>>

(* SyncEngine::WriteMutations: the new batch may be next for the pipeline. *)
WorkerWritesMutations ==
    /\ WriteMutations
    /\ LET q == Append(mutations[syncUser], Head(worker).write)
       IN IF IsStarted
            THEN FillStarted(pipeline, q, responses)
            ELSE /\ FillStopped(pipeline, q, stream, closeCount, asked)
                 /\ UNCHANGED <<requests, responses>>
    /\ UNCHANGED <<handshake, closeCount, verdict, tokenVars, disruptions>>

-----------------------------------------------------------------------------
(* The stream starts.                                                      *)

(* Stream::ResumeStartWithCredentials and GrpcStream::Start, which opens   *)
(* the stream and writes the handshake at once.                            *)
CredentialsArrive(count) ==
    /\ count \in asked
    /\ count = closeCount
    /\ asked' = asked \ {count}
    /\ stream' = "Open"
    /\ timers' = (timers \ {"idle"}) \cup {"health"}
    /\ requests' = <<Handshake>>
    /\ UNCHANGED <<storeVars, handshake, closeCount, pipeline, responses,
                   verdict, tokenVars, disruptions>>

(* The stream has been closed since this request was made.                 *)
CredentialsAreStale(count) ==
    /\ count \in asked
    /\ count # closeCount
    /\ asked' = asked \ {count}
    /\ UNCHANGED <<storeVars, stream, handshake, closeCount, timers, pipeline,
                   callVars, tokenVars, disruptions>>

BackoffElapses ==
    /\ "backoff" \in timers
    /\ Start("Initial", closeCount, asked)
    /\ UNCHANGED <<storeVars, handshake, closeCount, pipeline, callVars,
                   tokenVars, disruptions>>

HealthTimerElapses ==
    /\ "health" \in timers
    /\ timers' = timers \ {"health"}
    /\ stream' = IF IsOpen THEN "Healthy" ELSE stream
    /\ UNCHANGED <<storeVars, handshake, closeCount, asked, pipeline, callVars,
                   tokenVars, disruptions>>

-----------------------------------------------------------------------------
(* The backend handles the requests of the open call in order.             *)

BackendAnswers ==
    /\ requests # <<>>
    /\ verdict = NoVerdict
    /\ requests' = Tail(requests)
    /\ responses' = Append(responses, Head(requests))
    /\ applied' = applied \cup ({Head(requests)} \cap Writes)
    /\ UNCHANGED <<created, credential, worker, syncUser, mutations, callbacks,
                   issued, mainQueue, restarts, streamVars, pipeline, verdict,
                   tokenVars, disruptions>>

BackendRefuses(status) ==
    /\ requests # <<>>
    /\ verdict = NoVerdict
    /\ Disrupts
    /\ verdict' = [status |-> status, about |-> Head(requests),
                   overtakes |-> FALSE]
    /\ requests' = <<>>
    /\ UNCHANGED <<storeVars, streamVars, pipeline, responses, tokenVars>>

-----------------------------------------------------------------------------
(* Answers reach the worker.                                               *)

SaveToken(token) ==
    /\ streamToken' = token
    /\ storedToken' = [storedToken EXCEPT ![syncUser] = token]

(* The first answer is taken for the handshake: the pipeline is sent.      *)
HandshakeCompletes ==
    /\ responses # <<>>
    /\ ~handshake
    /\ handshake' = TRUE
    /\ SaveToken(syncUser)
    /\ requests' = IF verdict = NoVerdict THEN requests \o pipeline ELSE requests
    /\ timers' = IF pipeline = <<>> THEN timers ELSE timers \ {"idle"}
    /\ responses' = Tail(responses)
    /\ UNCHANGED <<storeVars, stream, closeCount, asked, pipeline, verdict,
                   disruptions>>

(* A write behind the refused one fails with the call.  When its callback  *)
(* waits on the worker queue while an answer is handled, the read of the   *)
(* next answer is cancelled, and the answer lost.                          *)
WriteFails ==
    /\ AnswersMayBeLost
    /\ verdict # NoVerdict
    /\ Len(pipeline) > Len(responses) + 1

(* Every other answer is about the front of the pipeline.                  *)
MutationResultArrives ==
    /\ responses # <<>>
    /\ handshake
    /\ pipeline # <<>>
    /\ SaveToken(syncUser)
    /\ Settle(Head(pipeline), "ok")
    /\ FillStarted(Tail(pipeline), QueueWithout(Head(pipeline)), Tail(responses))
    /\ verdict' = [verdict EXCEPT !.overtakes = @ \/ WriteFails]
    /\ UNCHANGED <<handshake, closeCount, disruptions>>

-----------------------------------------------------------------------------
(* The stream ends.                                                        *)

(* RemoteStore::HandleWriteError: the front of the pipeline is rejected,   *)
(* and the restart does not wait.                                          *)
HandleWriteError(pending) ==
    /\ Settle(Head(pipeline), "failed")
    /\ FillStopped(Tail(pipeline), QueueWithout(Head(pipeline)), "Initial",
                   closeCount', pending)
    /\ UNCHANGED tokenVars

(* Any other error leaves the pipeline, and the stream restarts after the  *)
(* backoff; a permanent one during the handshake is blamed on the token.   *)
RetryLater(status, pending) ==
    /\ Start("Error", closeCount', pending)
    /\ IF ~handshake /\ PermanentError(status) THEN SaveToken(NoToken)
       ELSE UNCHANGED tokenVars
    /\ UNCHANGED <<storeVars, pipeline>>

StayClosed(pending) ==
    /\ stream' = "Error"
    /\ timers' = {}
    /\ asked' = pending
    /\ UNCHANGED <<storeVars, pipeline, tokenVars>>

(* A mistake: every error is taken for a refusal of the write.             *)
FinishRejecting(status, pending) ==
    /\ Close
    /\ IF pipeline = <<>> THEN StayClosed(pending)
       ELSE HandleWriteError(pending)

(* Stream::OnStreamFinish with an error, to the end of OnWriteStreamClose. *)
OnStreamFinish(status, pending) ==
    /\ Close
    /\ IF pipeline = <<>> THEN StayClosed(pending)
       ELSE IF handshake /\ PermanentWriteError(status)
         THEN HandleWriteError(pending)
       ELSE RetryLater(status, pending)

(* The provider could not get a token.                                     *)
CredentialsFail(count) ==
    /\ count \in asked
    /\ count = closeCount
    /\ Disrupts
    /\ OnStreamFinish("transient", asked \ {count})

(* The connection breaks; answers that were not read yet are lost.         *)
ConnectionBreaks ==
    /\ IsOpen
    /\ Disrupts
    /\ OnStreamFinish("transient", asked)

(* Stream::OnStreamRead of an answer that does not parse, or decode: the   *)
(* stream ends itself with kErrorDataLoss, which counts as permanent,      *)
(* although the backend has done what it was asked.                        *)
UnreadableAnswerArrives ==
    /\ responses # <<>>
    /\ Disrupts
    /\ OnStreamFinish("permanent", asked)

(* gRPC hands out the status after the answers that came before it, unless *)
(* GrpcStream asked for it too soon.                                       *)
VerdictArrives ==
    /\ verdict # NoVerdict
    /\ responses = <<>> \/ verdict.overtakes
    /\ OnStreamFinish(verdict.status, asked)
    /\ UNCHANGED disruptions

(* The idle timer: Stop, which is graceful.                                *)
IdleTimerElapses ==
    /\ "idle" \in timers
    /\ Close
    /\ stream' = "Initial"
    /\ timers' = {}
    /\ UNCHANGED <<storeVars, asked, pipeline, tokenVars, disruptions>>

-----------------------------------------------------------------------------
RemoteNext ==
    \/ \E w \in Writes, u \in Owners : AppSetsData(w, u)
    \/ \E u \in Owners : UserChanges(u)
    \/ CompletionRuns
    \/ ProcessDies
    \/ WorkerHandlesCredential
    \/ ConnectivityReturns
    \/ WorkerWritesMutations
    \/ \E count \in asked : \/ CredentialsArrive(count)
                            \/ CredentialsAreStale(count)
                            \/ CredentialsFail(count)
    \/ BackoffElapses
    \/ HealthTimerElapses
    \/ IdleTimerElapses
    \/ BackendAnswers
    \/ \E status \in Statuses : BackendRefuses(status)
    \/ HandshakeCompletes
    \/ MutationResultArrives
    \/ UnreadableAnswerArrives
    \/ ConnectionBreaks
    \/ VerdictArrives

RemoteSpec == RemoteInit /\ [][RemoteNext]_pipelineVars

(* The worker queue and the main queue keep running, credentials and       *)
(* answers arrive in the end, a backoff ends; failures are bounded.        *)
RemoteFairness ==
    /\ WF_pipelineVars(WorkerHandlesCredential \/ WorkerWritesMutations)
    /\ WF_pipelineVars(CompletionRuns)
    /\ WF_pipelineVars(\E count \in asked : CredentialsArrive(count))
    /\ WF_pipelineVars(BackoffElapses)
    /\ WF_pipelineVars(BackendAnswers)
    /\ WF_pipelineVars(HandshakeCompletes \/ MutationResultArrives)
    /\ WF_pipelineVars(VerdictArrives)

RemoteFairSpec == RemoteSpec /\ RemoteFairness

-----------------------------------------------------------------------------
(* Every variable has its type (Stream, WriteStream, RemoteStore).         *)
RemoteTypeOK ==
    /\ StoreTypeOK
    /\ stream \in States
    /\ handshake \in BOOLEAN
    /\ closeCount \in Nat
    /\ asked \in SUBSET Nat
    /\ timers \in SUBSET Timers
    /\ pipeline \in Seq(Writes)
    /\ requests \in Seq(Writes \cup {Handshake})
    /\ responses \in Seq(Writes \cup {Handshake})
    /\ verdict \in Verdicts
    /\ streamToken \in Owners \cup {NoToken}
    /\ storedToken \in [Owners -> Owners \cup {NoToken}]
    /\ disruptions \in 0 .. MaxDisruptions

Current == IF syncUser = NoEngine THEN <<>> ELSE mutations[syncUser]

(* The pipeline is the longest front of the current user's queue that the  *)
(* limit allows, whatever was acknowledged, rejected, added, restarted or  *)
(* switched, and the stream is on its way whenever there is something in   *)
(* it (FillWritePipeline, OnWriteStreamClose).                             *)
PipelineIsFilled ==
    pipeline = SubSeq(Current, 1, Min({Len(Current), MaxPendingWrites}))
StreamRunsWhileNeeded == pipeline # <<>> => IsStarted

PipelineFollowsQueue == PipelineIsFilled /\ StreamRunsWhileNeeded

(* Once the handshake is complete, what is under way is the pipeline, in   *)
(* order: an answer is always about the front of it, and an error is about *)
(* what is the front when it arrives ("should be correlated to the first   *)
(* write in our write pipeline", remote_store.cc).  Before, the handshake  *)
(* is the only request.                                                    *)
Expected == IF handshake THEN pipeline ELSE <<Handshake>>
AnswersMatchPipeline ==
    IF IsOpen
      THEN IF verdict = NoVerdict THEN responses \o requests = Expected
           ELSE /\ requests = <<>>
                /\ IsPrefix(Append(responses, verdict.about), Expected)
      ELSE NoCall

(* The HARD_ASSERTs about the stream's state: a stream that stops because  *)
(* it is idle has nothing to send; credentials that are accepted find the  *)
(* stream starting, and only one request is waited for; a backoff ends in  *)
(* the state it began in; a call that opens has no handshake behind it; a  *)
(* stream that starts or runs without a handshake is needed.               *)
AssertionsHold ==
    /\ "idle" \in timers => pipeline = <<>> /\ IsOpen
    /\ closeCount \in asked <=> stream = "Starting"
    /\ \A count \in asked : count <= closeCount
    /\ "backoff" \in timers <=> stream = "Backoff"
    /\ "health" \in timers => stream = "Open"
    /\ handshake => IsOpen
    /\ IsStarted /\ ~handshake => pipeline # <<>>

(* The token sent with a write is the one the backend gave this user last, *)
(* and no user's token is ever saved with the queue of another.            *)
TokenFollowsUser ==
    /\ syncUser # NoEngine => streamToken = storedToken[syncUser]
    /\ \A u \in Owners : storedToken[u] \in {u, NoToken}

(* The stream's bookkeeping agrees with the queue it sends and with what   *)
(* the backend has been asked, whatever was interrupted (RemoteStore,      *)
(* WriteStream).                                                           *)
RemoteConsistent ==
    /\ RemoteTypeOK /\ AssertionsHold
    /\ PipelineFollowsQueue /\ AnswersMatchPipeline /\ TokenFollowsUser

Refused(w) == verdict.status = "permanent" /\ verdict.about = w

AnswerIsUnreadable(w) ==
    UnreadableAnswerArrives /\ responses # <<>> /\ Head(responses) = w

FailsNow(w) ==
    \E i \in DOMAIN mainQueue' : /\ i > Len(mainQueue)
                                 /\ mainQueue'[i] = Written(w, "failed")

(* A write is answered with an error only when the backend has refused it  *)
(* for good ("the request itself was the problem", HandleWriteError), or   *)
(* when its own answer cannot be read: an aborted or interrupted one is    *)
(* sent again.                                                             *)
FailedMeansRefused ==
    [][\A w \in Writes :
          FailsNow(w) => Refused(w) \/ AnswerIsUnreadable(w)]_pipelineVars

(* It is so unless the refusal of a write has overtaken the answer to the  *)
(* one before it, which is then blamed; a status that is not a permanent   *)
(* write error blames nobody, and no unreadable answer blames a write but  *)
(* the one it is about.                                                    *)
FailedMeansRefusedInOrder ==
    [][\A w \in Writes :
          FailsNow(w) => \/ Refused(w) \/ AnswerIsUnreadable(w)
                         \/ verdict.overtakes /\ verdict.status = "permanent"
      ]_pipelineVars
=============================================================================
