# A verification development for DuplicatedApps

DuplicatedApps is an iOS application (Swift, UIKit) with a vendored Firebase
(Objective-C and C++, under `src/DuplicatedApps/Pods`). Its own code is small -
a welcome screen, login and sign-up, a home screen with two overlays - and most
of what can go wrong in it happens *between* things: between two remote steps of
one registration, between a completion block and the screen that asked for it,
between two users of one device, between a crash and the next launch, between
the queues and threads of the Firebase client that carries a profile to the
backend. The modules here model that.

Paths below are relative to the repository: `App/` stands for
`src/DuplicatedApps/DuplicatedApps/`, `Pods/` for `src/DuplicatedApps/Pods/`, and
`Core/` for `Pods/FirebaseFirestore/Firestore/core/src/`.

## 1. The system

### Components

| Component | Source | State it keeps | Operations |
|---|---|---|---|
| AuthService | `App/Auth/AuthService.swift` | none of its own: closures in flight | `registerUser` (createUser, then setData from its completion block), `signIn`, `signOut` |
| FIRAuth session | `Pods/FirebaseAuth/.../FIRAuth.m`, `FIRUser.m` | `_currentUser`, keychain archive, last notified token; three flags and the timers of the automatic refresh | launch and late keychain load, sign-up, sign-in, sign-out, token refresh (asked for and automatic), forced sign-out, foreground and background |
| Firestore client | `Core/core/firestore_client.cc`, `sync_engine.cc`, `local/local_store.cc`, `local/leveldb_mutation_queue.cc` | `current_user_`, one mutation queue per user (rows of a LevelDB table), `mutation_callbacks_`, `next_batch_id_` | lazy creation, credential change, `WriteMutations`, `HandleSuccessfulWrite`, `HandleRejectedWrite` |
| Write stream and pipeline | `Core/remote/remote_store.cc`, `stream.cc`, `write_stream.cc` | stream state, at most ten writes in the pipeline, stream token, timers | open, handshake, send, result, error, backoff, idle stop, restart of the network |
| gRPC call | `Core/remote/grpc_stream.cc`, `grpc_completion.cc` | completions in flight, buffered writes | read, write, finish, the blocking shutdown |
| Credentials provider | `Core/credentials/firebase_auth_credentials_provider_apple.mm` | `current_user`, `token_counter`, listener | notifications, `GetToken` and its repetition |
| Worker queue | `Core/util/async_queue.cc`, `executor_libdispatch.mm`, `task.cc` | mode, tables of tasks, reference counts | enqueue, timers, cancel, run, restricted mode, dispose |
| Screen flow | `App/Supporting/SceneDelegate.swift`, `App/Constants/AlertManager.swift`, the login, sign-up, welcome and home controllers | window root, navigation stack, layer opacity, presented alert | taps, completion closures, `checkAuthentication`, alerts |
| Welcome carousel | `App/Controller/WelcomeScreen/WelcomeViewController.swift` | `currentPage`, page control, timer | timer, drag, deceleration, `willDisplay`, `viewWillDisappear` |
| Sign-up form | `App/Controller/SignUpScreen/SignUpViewController.swift`, `App/Auth/Validator.swift` | text, secure entry, strength, meter | edits, visibility toggle |
| Home overlays | `App/Controller/HomeScreen/...` | two `isHidden` flags, `selectedApp`, the described app | show, close, select, close description |
| Not modelled | Core Data stack, tab layout, cells, colours and fonts, keyboard observers, other vendored libraries | - | see `PROJECT.json` and section 8 |

### How they interact

* A screen calls AuthService with a closure. The login closure holds its screen
  strongly, the sign-up closure weakly.
* AuthService calls FIRAuth. FIRAuth does its work on one serial **work queue**
  and reports on the **main queue**: first the state-change notification, then
  the completion block, two separate dispatches.
* From the completion block of `createUser`, AuthService calls Firestore. The
  first such call in a process *builds* the Firestore client: its credentials
  provider reads `getUserID` directly and from then on follows the notification.
* Every credential change and every write is a block on Firestore's serial
  **worker queue**; the completion blocks come back on the main queue. The
  worker also owns the write stream: answers of gRPC reach it through the
  **poll thread**, tokens through FIRAuth's work queue and the main queue.
* `SceneDelegate.checkAuthentication` reads FIRAuth's `currentUser` on the main
  thread and installs a root two asynchronous steps later.
* What survives a crash: the keychain, the table of mutations with the stream
  tokens, both backends.

### What is hard, and what correct means

* **AuthService**: no transaction spans the account and the profile. Correct:
  each closure is called at most once, "ok" is never said before both steps are
  done, a profile is filed under its owner, only the call that made an account
  writes its profile. What it does *not* promise is modelled too: an account
  can be orphaned for good.
* **FIRAuth**: answers of several calls, refreshes, revocations and a late
  keychain load interleave. Correct: memory and keychain agree, observers end
  up knowing who is signed in, each call is answered exactly once and after its
  notification; in the foreground, a token has a refresh on its way.
* **Firestore client**: user switches swap queues under running writes, a crash
  loses the blocks and keeps the queues, batch ids are used again. Correct:
  queues are durable, blocks live as long as their writes and meet their own
  batch, nothing is answered twice or too early.
* **Write stream**: it breaks, idles, is torn down and asks for tokens that
  arrive late. Correct: the pipeline is the front of the queue, an answer is
  about the write it settles, the token is that of the user whose queue is
  sent, what waits is sent in the end.
* **gRPC call and worker queue**: completions, callbacks and tasks belong to two
  threads at once. Correct: nothing is used after it is destroyed, nothing runs
  after the end, and the waits end.
* **Screen flow**: answers arrive at screens that were left, covered or
  replaced; fades overlap. Correct: the stack keeps its shape, the window never
  stays dark, no home without a session, home stays.
* **Carousel, form, overlays**: three writers of one page control; a text field
  that changes without asking; two fingers on overlapping views; screens that
  are covered and come back.

The full list of hazards, each at its line and with the properties that would
notice it going wrong, is in `PROJECT.json` under `hazards`.

## 2. Modules and the code

| Module | Models | Correspondence |
|---|---|---|
| `FirebaseAuth` | the FIRAuth session | one action per block of the work queue and of the main queue; `mainQueue` is the sequence of dispatched blocks, `loader` the progress of `protectedDataInitialization`, `calls[c]` the stage of a call |
| `AutoTokenRefresh` | `_autoRefreshTokens`, `_autoRefreshScheduled`, `_isAppInBackground`, their timers and requests | one action per block of the work queue; the observer on the main thread is cut where it reads and writes what the work queue shares |
| `FirestoreClient` | the Firestore client under `setData` | `worker` is the worker queue, `syncUser` is `SyncEngine::current_user_`, `mutations[u]` the persistent queue of a user, `callbacks[u]` is `mutation_callbacks_[u]` |
| `MutationQueue` | the same queues as rows of one table, with ids and the two steps of an answer | `rows`, `next_batch_id_`, the pipeline by id; `NotifyUser` and the removal from the table are separate steps with a crash between them; implements `FirestoreClient` |
| `BatchIdScan` | `LoadNextBatchIdFromDb` | the scan as a recursive function over the keys of the database that `MutationQueue` is in |
| `RemoteStore` | pipeline, `Stream` and `WriteStream` over `FirestoreClient`'s variables | one action per block of the worker queue; `closeCount` is `close_count_`, `asked` the unanswered requests for credentials; implements `FirestoreClient` |
| `GrpcStream` | one gRPC call | worker, gRPC and poll thread; `held` is `completions_`, `worker` the callbacks enqueued, `waiting` what a blocking wait is for |
| `StreamCredentials` | provider, `FIRAuth`'s tokens, `Stream`'s start | three queues; `tokenCounter` and `closeCount` are the two counters that tell a stale token |
| `TaskExecutor` | `AsyncQueue`, `ExecutorLibdispatch`, `Task` | one action per section under a lock; `refs` is `ref_count_`, `linked` the tasks whose `executor_` is set |
| `AuthService` | the class AuthService over **one** FirebaseAuth and **one** FirestoreClient | INSTANCEs both; they share `mainQueue` and `restarts` and meet only in `Notification` and `AccountCreated` |
| `AccountService` | the abstract promise | five variables: accounts, what was asked, what was written, what was told, who died |
| `ScreenFlow` | window, stack, fades, alerts, answers | one action per tap and per closure; the fade of `goToController` is `NewRoot` posted, `StartFade`, `FinishFade` |
| `WelcomeCarousel` | the slides | one action per delegate method and per step of UIKit's scrolling |
| `SignUpForm` | password field and meter | `ShouldChange` is the delegate method; `Edit` and `EditCleared` are what UIKit then does with the text |
| `HomeScreen` | list and description overlays | `pressed` is the fingers that are down; a control acts on lift |
| `ScreenContents` | the three screens above on one navigation stack | a covered screen keeps its state, a popped or replaced one is released; leaving and returning to the carousel are the navigation's steps |
| `*_proofs` | - | the theorems about the module of that name; `FirebaseAuth_proofs` has those of `AutoTokenRefresh` too, `RemoteStore_proofs` those of `FirestoreClient`, `MutationQueue_proofs` those of `BatchIdScan`, `Screens_proofs` those of `ScreenFlow`, `ScreenContents` and the three screens |
| `MC...` | - | what TLC needs and the proofs do not: symmetry sets; where liveness is checked beside them, an order of calls, users or writes that loses no generality; a bound of its own |

How they fit together: `FirestoreClient` is at once a component of `AuthService`
and the abstract specification of what lies below it. `RemoteStore` and
`MutationQueue` each implement it, the one in how a write reaches the backend,
the other in how it is kept. What `RemoteStore` assumes of its neighbours is the
subject of the modules beside it: that a call delivers in order and its end is
noticed (`GrpcStream`), that credentials arrive, and for the right user
(`StreamCredentials`), that a block of the worker runs once and a cancelled timer,
until the client ends, never (`TaskExecutor`).

Abstractions worth knowing:

* A user *is* the email of the account: the backend keeps one account per email.
  Access tokens appear in `AutoTokenRefresh` as numbers and in
  `StreamCredentials` as the user they belong to.
* The backends are external. An identity backend grants or refuses; a lost
  request and a lost answer are both `FailCall`, taken before or after
  `BackendGrants`. In `FirestoreClient` the Firestore backend applies the current
  user's queue in order, possibly running ahead of its answers, and may refuse
  the head at any time; in `RemoteStore` it handles the requests of one call in
  order and may end the call with a status about the next one.
* A request that is lost with its call has been applied before or never is.
* `UnreadableAnswerArrives` is an answer that does not parse (`Stream::OnStreamRead`,
  `WriteStream::NotifyStreamResponse`): the stream ends itself with
  `kErrorDataLoss`, a permanent error. An answer that parses and whose results
  cannot be decoded differs only in what is not modelled, the token in memory
  being another one of the same user's, and the length of the backoff.
* `WriteFails` in `RemoteStore` is what `GrpcStream` does to an answer when a
  write behind it fails (`GrpcStream::OnOperationFailed`): it may be lost.
* The lengths of backoff, idle and health timers are left out: a timer that is
  armed may elapse at any time.
* An answer to a request for an access token may bring a new token, the token the
  user has (`AnswerUnchanged`), or that one with a new refresh token
  (`RefreshTokenIsSaved`); `notified` is `_lastNotifiedUserToken`, and `stalled`
  remembers that an automatic refresh was answered with the token the user had.
* UIKit is modelled from how these screens use it: touches under a fade or an
  alert, the edge swipe that a hidden bar does not stop, the refusal of a second
  alert, the clearing of a secure field, the run-loop mode of the timer.
* An edit of the password replaces any part of it by any text, typed or pasted
  (`Replacing` is what the delegate may then be asked about).
* A password is its trimmed length, whether it is padded with blanks, and
  whether it has all four kinds of characters.

### Deliberate mistakes

Next to an action a module may define a variant introduced by a comment "A
mistake", for example `CompletesReplyFirst` beside `CompleteSignIn`. No
specification uses them. Each is a bug somebody could plausibly write at that
place (a dropped guard, a swapped order, a missing reset); substituted for the
action it shadows, it makes TLC refute the property that `PROJECT.json` pairs it
with. They show that the properties can fail.

## 3. Runs

| Run | Instance | What it shows |
|---|---|---|
| `FirebaseAuth` | 2 emails, 2 calls, 1 restart, backlog 2; 101,964 states | `AuthConsistent`, `KeychainHoldsSession`, `ObserversCatchUp`, `NoticeBeforeReply` |
| `AuthService` | 2 emails, 2 calls, 1 restart, all operations; 492,637 | `ServiceConsistent`, `OrphansStayOrphans`, that it implements `AccountService` (`KeepsPromise`), and `EveryCallAnswered` |
| `AutoTokenRefresh` | 2 uids, 2 sign-ins, 3 tokens, 2 timers and requests, 2 failures; 919,976 | `RefreshConsistent`, `ComingRefreshArrives` |
| `MutationQueue` | 2 people, 3 writes, 1 restart, pipeline of 2; 288,783 up to symmetry | `QueueConsistent`, `OneBatchPerId`, `ToldOnce`, and that it implements `FirestoreClient` (`ImplementsClient`) |
| `RemoteStore` | 1 person and nobody, 5 writes, pipeline of 4, 1 restart and 2 disruptions, no more than 2 of them together, answers may be lost or unreadable; 1.3M | `ClientConsistent`, `SuccessMeansApplied`, `CurrentQueueDrains` of the client; `RemoteConsistent`, `FailedMeansRefusedInOrder` of the stream; and that it implements `FirestoreClient` (`StoreSpec`) |
| `RemoteStoreBlame` | 4 writes in one pipeline, 1 disruption | finds `FailedMeansRefused` violated: section 5 |
| `StreamCredentials` | 2 people, 3 changes of user or token, 1 failure; 1.3M | `CredConsistent`, `OpenForSyncUser`, `StartingEnds` |
| `GrpcStream` | 3 writes, 2 answers; 60,924 | `StreamConsistent`, `SafeToDestroy`, `ToldAtMostOnce`, `WorkerGoesOn`, `EndIsNoticed` |
| `TaskExecutor` | 2 operations, 2 timers, the termination; 220,701 | `ExecConsistent`, `NoCallbackAfterDispose`, `CancelHolds`, `ExecutesBeforeDisposeOrNotAtAll`, `DisposeEnds` |
| `TaskExecutorCancel` | 1 operation, 1 timer, the termination | finds `CancelledNeverRuns` violated: section 5 |
| `ScreenFlow` | 2 calls, 5 view controllers; 1.9M | `FlowConsistent`, `HomeRootStays`, `RegistrationLeadsHome` |
| `ScreenContents` | 3 pages, eleven lengths around 0, 4, 6 and 32, 2 rows; 1.2M | `ContentsConsistent`, `UnderstatesOnlyTooLong`, `RestsUnderItsDot`, `KeepsTurning` |

A property named `...Consistent` is a conjunction of named invariants of its
module, the type invariant among them; each part has its own definition and
comment:

| Property | Parts besides the types |
|---|---|
| `AuthConsistent` | `OneReplyPerCall` |
| `ServiceConsistent` | `ProfileFiledUnderOwner`, `ToldOnce` |
| `RefreshConsistent` | `FlagDownMeansAsked`, `OnlyUnsavedUnnoticed` |
| `QueueConsistent` | `BlocksMeetTheirBatch`, `PipelineIsFront`, `ScanFindsHighest` |
| `ClientConsistent` | `WorkerFollowsProvider`, `CallbacksHaveWrites`, `WriteInOnePlace` |
| `RemoteConsistent` | `AssertionsHold`, `PipelineFollowsQueue`, `AnswersMatchPipeline`, `TokenFollowsUser` |
| `CredConsistent` | `OneTokenAwaited`, `CatchesUp` |
| `StreamConsistent` | `OneAtATime`, `WrittenInOrder`, `NeverDeaf` |
| `ExecConsistent` | `OwnersAreCounted`, `EnqueuedTaskLives` |
| `FlowConsistent` | `StackShape`, `HomeNeedsSession`, `VisibleWithoutFade` |
| `ContentsConsistent` | `TimerOnlyOnScreen`, `MeterAgrees`, `DescriptionNamesSelection` |

The systems that may simply stop (all calls used, nobody taps, the queue
disposed of) say `CHECK_DEADLOCK FALSE`; `ScreenContents` does not.

Two things the runs taught about `StreamCredentials`: the provider's token
counter and the stream's close count each suffice for `OpenForSyncUser` - one
without the other still keeps an old token from opening a stream - but the
order of the main queue does not: a token that is handed on without passing
through it opens a stream for a user the worker has not been told of.

### Bounds, and why they are enough

* `Calls` / `Writes` are used once each. Two calls are needed for every race
  between two answers. Two people are needed for a switch of users; a third
  adds nothing, since only "same" and "other" are distinguished. In
  `RemoteStore` the two owners of a queue are a person and nobody.
* A lost answer that is blamed on the wrong write needs four writes in one
  pipeline (`RemoteStoreBlame`), so `RemoteStore` has a pipeline of four, and a
  fifth write behind its limit: the exception of `FailedMeansRefusedInOrder`
  occurs in the run. The code's limit is ten.
* `MaxRestarts = 1`: what a launch finds (keychain, queues, accounts) is
  arbitrary in content after one crash; a second adds no new kind of state.
* `MaxBacklog`, `MaxQueued`, `MaxChanges`, `MaxDisruptions`, `MaxFailures`,
  `MaxPending` bound only what could repeat for ever (refreshes, unlocks,
  credential changes, failures, requests for a token); what these have set off
  is never held back. Three changes of user are sign-in, switch and return, the
  shortest way for an old token to be taken for a new one.
* `MaxSignIns`, `MaxTokens` in `AutoTokenRefresh`: a person who signs in again
  is a new `FIRUser` with the old uid; a third token is the one a stale timer
  would be armed for.
* `MaxOutstanding = 2` in `AuthService`: calls the screens have in flight.
* `Screens` = 5: the stack is at most welcome, login, sign-up and tabs of each
  of the two calls. View controllers that nothing refers to are used again. In
  `ScreenContents` at most one set of tabs is on the stack.
* `MaxTroubles` in `MCRemoteStore` keeps restarts and disruptions together at two.
* Symmetry is declared only where no liveness is checked. Where it is, an order
  does its work: the first call is `FirstCall` and is about `FirstEmail`
  (`MCAuthService`), the first to sign in is `First` (`MCAutoTokenRefresh`), and
  writes are issued in the order of their numbers (`MCRemoteStore`). Each
  behaviour can be renamed to one of these, and no property names a call, a user
  or a write.

### Fairness

Weak fairness, and only where the code's scheduling gives it: serial queues run
while the process lives; threads run and every operation of the worker ends;
every request ends in an answer or an error (the SDK has timeouts), and every
operation of a gRPC call that is over comes back; an armed backoff or refresh
timer elapses; animations and scrolls end; the run loop fires a scheduled timer.
Nothing makes a person tap, a device unlock, a process die, a session be revoked
or a connection break. Failures are bounded, so a stream that is retried gets
through in the end; that is what `CurrentQueueDrains`, `StartingEnds` and
`ComingRefreshArrives` need of the world, and all they need.

## 4. Specifications and what implements them

`AccountService` says what a screen may rely on: a call is answered at most
once and not after its process died; an "ok" to a registration means account
*and* profile; only the registration that created an account writes its
profile. "failed" promises nothing. `AuthService!KeepsPromise` instantiates it
with a refinement mapping (`asked` from the calls, `written` from the writes
Firestore applied, `dead` from the calls a crash abandoned). TLC checks it on the
instance, and `ServiceKeepsPromise` proves it for every one.

`FirestoreClient` is implemented twice, and both are proved
(`RemoteStoreImplementsClient`, `QueueImplementsClient`):

* `RemoteStore` extends it and keeps its variables; every step of streams and
  pipeline is a step of `FirestoreClient` or a stutter (property `StoreSpec`). In
  particular the backend's part of `FirestoreClient` - writes are applied in
  order, acknowledged only when applied, settled at the head only - is what the
  pipeline and the order of one call provide, through breaks, restarts and
  switches of users.
* `MutationQueue!ImplementsClient` maps rows to queues, and blocks filed under an
  id to blocks filed under a write. One step has no counterpart: a process that
  dies half way through an answer (`DiesHalfway`). Its completion block was told
  and its batch is still on disk; the next process sends a write again that the
  backend already has.

The things the screens might *wish* for and do not get are stated as they are:

* `OrphansStayOrphans`: once the profile write of a new account is lost (the
  second step refused, or the process gone before `setData` was queued), no later
  registration, sign-in or launch writes it - a second attempt meets a taken
  email.
* `ProfileFiledUnderOwner` excepts the single write that builds the Firestore
  client in a process: its owner is whoever FIRAuth has signed in by then.
* `EveryCallAnswered` excepts a registration whose write waits in the queue of a
  user who is no longer the current one.
* `ExecutesBeforeDisposeOrNotAtAll` is about the orderly end (restricted mode,
  the termination enqueued and started, then Dispose), which is what the client
  does; a bare `AsyncQueue::Dispose` may return while a timer that has
  cancelled itself still runs.
* `CancelHolds`: a cancelled timer begins only when Dispose had taken it off the
  tables and its loop has not come to it. That window is there in the orderly
  end as well (section 5).
* `UnderstatesOnlyTooLong`: the meter grades what the delegate is asked about.
  When UIKit clears the field, that is not what the field gets: with 12
  characters in it, a pasted password of 24 that `Sign up` would accept is graded
  as the 36 characters it never becomes, "medium". The meter begins to understate
  in this case only, a valid password that was too long together with the old
  text.
* `KeepsTurning`: a carousel that was left and come back to may stand still for
  good. `startAutoScroll` is called by `viewDidLoad` only
  (`App/Controller/WelcomeScreen/WelcomeViewController.swift:30-40`), and the timer
  ends with `viewWillDisappear`: Get Started and Back are enough. A carousel that
  was never left keeps turning.
* `RefreshConsistent` and `ComingRefreshArrives` except one end of an automatic
  refresh: an answer with the access token the user has
  (`FIRSecureTokenService.m:174,197-202`). It is no failure, so nothing retries,
  and no change, so `possiblyPostAuthStateChangeNotification` returns early
  (`FIRAuth.m:2068`) and arms no timer. No refresh follows until the app becomes
  active again or another token is noticed.
* `FailedMeansRefusedInOrder` excepts a write whose own answer cannot be read: the
  backend has applied it, and it is reported as failed.

## 5. Findings

**A refusal blamed on another write** (`RemoteStoreBlame`).
`Core/remote/remote_store.cc:538-539` says of a permanent error
"the request itself was the problem", and `HandleWriteError` therefore rejects
the front of the pipeline. It is the front that the error is about as long as no
answer is lost. When a write behind the refused one fails with the call, its
callback (`Core/remote/grpc_stream.cc:319`) makes the outstanding read a no-op
although its answer has come. The refusal of the second write then arrives
while the first is still the front: the first write, which the backend has
applied, is removed and reported as failed, and the refused one is sent again.

This is one of two ways in which a write that the backend applied is reported as
failed. The other is an answer that cannot be read
(`Core/remote/stream.cc:261-268`, `write_stream.cc:129-160`): its error,
`kErrorDataLoss`, is permanent (`datastore.cc:411`), and the front is rejected -
here the write that the answer is about. `FailedMeansRefused` allows that one.
`FailedMeansRefusedInOrder`, which holds, says that there is no third.

**A cancelled timer that begins** (`TaskExecutorCancel`).
`Core/remote/stream.cc:296-297` cancels the stream's timers, "they're guaranteed not to
execute", and `Core/util/executor.h:173-174` says of `DelayedOperation::Cancel`
"If the operation has not been run yet, cancels the operation". When the client
ends, `FirestoreClient::Dispose` (`Core/core/firestore_client.cc:286-307`) waits for
the termination to *start* and disposes of the queue. Dispose swaps the
executor's tables (`Core/util/executor_libdispatch.mm:63-81`) while
`TerminateInternal` runs; the Cancel that `TerminateInternal` then makes finds
nothing (`executor_libdispatch.mm:210-214`) and leaves the timer alone. If the
timer is due it begins after the termination, before Dispose's loop comes to it.
`CancelHolds` says that this is the only way. `ExecutesBeforeDisposeOrNotAtAll` is
not touched: Dispose waits for the timer that runs.

## 6. Proofs

Each theorem is for every value of the constants, from the named assumptions of
the module alone. Every invariant, action property and refinement that a passing
run checks is proved; what stays with TLC is liveness (section 7).

| Module | Theorems | Properties | Invariant |
|---|---|---|---|
| `FirebaseAuth_proofs` | `AuthTypeCorrect`, `OneReply`, `AuthIsConsistent`, `KeychainHolds`, `ObserversAreTold`, `AnnouncedBeforeAnswered` | everything the run checks | `AuthConsistent` |
| | `RefreshIsConsistent` | `RefreshConsistent` | `RefreshInv` |
| `AuthService_proofs` | `ServiceInvariant`, `ServiceIsConsistent`, `OrphansStay`, `ServiceKeepsPromise` | `ServiceConsistent`, `OrphansStayOrphans`, `KeepsPromise` | `ServiceInv` |
| `RemoteStore_proofs` | `StoreTypeCorrect`, `WorkerKeepsUp`, `BlocksStayWithWrites`, `EveryWriteInOnePlace`, `ClientIsConsistent`, `SuccessIsEarned`, `NothingQueuedIsLost` | of `FirestoreClient`: `ClientConsistent` and its parts, `SuccessMeansApplied`, `QueuesAreDurable` | `StoreInv` |
| | `RemoteInvariant`, `RemoteStoreImplementsClient`, `RemoteIsConsistent`, `RemoteKeepsClientConsistent`, `RemoteSuccessIsEarned`, `RemoteLosesNothing`, `OnlyRefusedWritesFail` | of `RemoteStore`: `StoreSpec`, `RemoteConsistent`, `FailedMeansRefusedInOrder`, and those of the client again | `RemoteInv` |
| `MutationQueue_proofs` | `OneBatchPerIdHolds`, `QueueInvariant`, `QueueIsConsistent`, `BlocksAreToldOnce`, `QueueImplementsClient` | `OneBatchPerId`, `QueueConsistent`, `ToldOnce`, `ImplementsClient` | `QueueInv` |
| `StreamCredentials_proofs` | `StreamCarriesSyncUser`, `CredentialsAreConsistent` | `OpenForSyncUser`, `CredConsistent` | `CredInv` |
| `GrpcStream_proofs` | `GrpcIsSafeToDestroy`, `GrpcTellsOnce`, `GrpcStreamIsConsistent` | `SafeToDestroy`, `ToldAtMostOnce`, `StreamConsistent` | `GrpcInv`, `UsageInv` |
| `TaskExecutor_proofs` | `ExecutorTyped`, `CancelIsKept`, `ExecutorNotCalledBack`, `ExecutorKeepsPromise`, `ExecutorIsConsistent` | `CancelHolds`, `NoCallbackAfterDispose`, `ExecutesBeforeDisposeOrNotAtAll`, `ExecConsistent` | `EnqueueInv`, `CancelInv`, `CallbackInv`, `PromiseInv`, `SharesInv` |
| `Screens_proofs` | `CarouselTyped`, `CarouselTimerStops`, `CarouselRests`, `FormTyped`, `FormMeterAgrees`, `FormUnderstates`, `HomeNamesSelection` | of each screen by itself | `CarouselInv`, `FormInv`, `HomeInv` |
| | `ContentsAreConsistent`, `ContentsUnderstate`, `ContentsRest` | `ContentsConsistent`, `UnderstatesOnlyTooLong`, `RestsUnderItsDot` | `ContentsInv` |
| | `FlowIsConsistent`, `FlowHomeStays` | `FlowConsistent`, `HomeRootStays` | `FlowInv`, `WelcomeFirst` |

**FirebaseAuth.** Neither conjunct of the invariant is inductive alone:
`DeliverReply` moves the call named by the block at the head of the main queue to
"answered", which is a legal record only because that call is waiting
("replying"), and that is what `OneReplyPerCall` says; and `OneReplyPerCall` talks
of the fields of blocks whose shape `AuthTypeOK` gives. The rest is relative to
it. `KeychainHoldsSession` holds because every step that installs a user archives
it first, and the one step that may leave the keychain behind (`RevokeSession`)
ends with nobody in memory. `ObserversCatchUp` and `NoticeBeforeReply` speak of
what the observers have heard after a prefix of the main queue (`HeardAfter`);
lemmas say how that changes when a block is appended and when the head goes.

**AutoTokenRefresh.** An armed timer of the current token does not count as a
refresh that is coming: a refresh asked for by another SDK that is not saved
replaces the token and leaves the timer without one. `FlagDownMeansAsked` wants
more: while the flag is down, a timer's block has passed its checks, an
*automatic* request of the current user's is in the queue, or the last one
brought the token the user had (`stalled`). An automatic request is made whatever
the age of the token (`Queued`), so its answer arms a timer, signs the user out or
stalls. `TokensAtHand` adds that a signed-in user has a token and that the main
thread arms no timer without one. `OnlyUnsavedUnnoticed`, that the observers know every
token but one that was not saved, holds because every other token is noticed in
the step that brings it: a refresh token that comes alone arms a timer only after
such a failure.

**AuthService.** `ServiceInv` says where a call can be. `OnceEach`: no two blocks of
a queue are about the same call. `AccountsMade` and `Earned`: a granted call has
its account, a registration made it itself, and only an answered registration
has issued a write. `OnePlace`: that write is on the worker queue, in one
mutation queue, on its way back or nowhere. `Untold` and `Bereft`: whoever may
still be told has been told nothing, and an abandoned call has nobody left to
tell. `WorkerKnows` and `Announced` carry `ProfileFiledUnderOwner` through both
queues: the completion block of a success follows the notification of its own
user, so Firestore's user is that user when the block writes. Of an orphan, no
registration, reply, write or queued batch is left, which no step undoes
(`OrphansStay`). Every step of the service is a step of `AccountService` or a
stutter under the mapping (`ServiceKeepsPromise`).

**FirestoreClient.** `WriteInOnePlace` does not say where a write is while its
block still waits on the worker queue, so a block that runs could queue a write
a second time. `WritesAccounted` adds that a waiting block is the only place of
its write and that whatever is queued or answered was issued, which is why a
fresh call of `setData` collides with nothing. `WorkerFollowsProvider` speaks of
prefixes of the worker queue: lemmas say that a block more leaves shorter
prefixes alone, and that running the oldest turns what was said of n + 1 blocks
into what is said of n. `QueuesAreDurable` needs the types alone; no run checks
it by itself. Since both `RemoteStore` and `MutationQueue` are proved to implement
this module, what is proved of the abstract client holds of them too; for
`RemoteStore`, whose steps are all the client's, the theorems say so.

**RemoteStore.** `RemoteInv` is the client's `StoreInv` together with: the stream's
assertions (`Bookkept`); the answers under way are about the front of the
pipeline, in its order, and each answer comes from a backend that has applied
the write (`Carried`); the pipeline is the front of the current user's queue, and
as long as the limit allows (`PipelineIsFilled`); the stream token is the current
user's (`TokensKept`). That a success is earned is where `Carried` is needed: the
head that is settled is the write the answer is about. The lemmas on fronts
(`SettlingFront`, `FillingAfterFront`, `FillingAfterWrite`) say what removing the
head, refilling and appending make of the front of a queue.

**MutationQueue.** Ids are unique because the next id is above every row of every
user. That is true once a queue is open and must be true of the first use:
`OpensFirst` says that a client that has been made opens a queue before it writes
(the first block is Initialize), and `QueueTyped` that ids are naturals, without
which a highest one need not exist. That it does is the lemma `MaxOfBounded`,
from well-foundedness of finite sets. `PipelineFilled` says that the pipeline is a
front of the rows that wait, full or all of them while nothing is half handled;
`HalfHandled` what a half-handled batch has left behind, in either order of its
two halves; `WritesOnce` that a write is on the worker queue, in one batch, or in
neither. The pipeline and the scan are recursive functions. The library's
induction theorems cannot be used by these provers; the lemmas `Induction` (over
sets of naturals, from `Smallest`) and `Recursion` (a function with given first
value and step exists) do their work: `FillUnfolds` and `ScanUnfolds` unfold the two
functions, and an invariant of their turns says what they return
(`FillFront`, `ScanEnds`). For the scan that is `ScanGood`: it stands at the first row of the
next user's and has seen the highest id before it; every turn moves to a later
user, so one turn for each is enough. In the refinement a success is handled
abstractly when the block is told, a failure too; the other half of an answer
is a stutter, and a death is the client's own unless it falls between the halves.

**StreamCredentials.** That a stream opens for the worker's user follows from what
three queues hold: `Follows` says that the notifications under way lead from
`FIRAuth`'s user to the provider's, and the credential blocks from there to the
worker's; `Right` that a request or token whose counter is still current was asked
for the user at the end of its queue, unless a change lies before it, which
will make the counter stale; `OneWaits` that a starting stream waits for exactly
one request, in one of three places.

**GrpcStream.** `SafeToDestroy` says nothing of a callback that is still to come
while the worker waits. `CompletionInv` adds that whatever gRPC has, or would do
something, has its completion in `completions_`; that ids are never used again,
so that dropping one completion frees one operation; that what is on the worker
queue has left gRPC; and that the worker waits for the promises only when every
callback is a no-op. Then the end of the wait leaves gRPC with nothing.
`EndingInv` says who decided on the end, and that a shutdown the client asked for
tells nobody. `UsageInv` carries `StreamConsistent`: gRPC has one operation of a
type (`OneOfEach`), what was written is what was submitted and then what is
buffered (`Ordered`), and a stream that has not finished has a read out or its
answer on the way (`FinishingInv`).

**TaskExecutor.** `EnqueueInv` ties the worker's place to the state of its task:
exactly one task runs, and it is the worker's. A timer that was cancelled has
been enqueued, and until Dispose takes the tables one that has not begun is in
the schedule, is being cancelled, or is one that Dispose took and has not come to
(`CancelInv`): what Dispose awaits has begun or is cancelled, and once it has taken
the tables nothing new is registered. Whatever can still call the
executor back is in the tables, in Dispose's own list, being cancelled, or done
with its lock free (`CallbackInv`); tables and list are empty when Dispose
returns. `ModeInv` and `TerminateInv` follow the orderly end: once the termination
has begun, no timer is scheduled and the task that runs is one that Dispose
awaits. `ShareInv` says who owns a share of each task; the reference count is the
number of these owners (`OwnersAreCounted`), so every step that takes or gives up
a share changes both by one.

**Screens.** `DotFollows`: a scroll that has reached its page has set that page's dot
on the way. A visible meter shows `strength` (`ShowsStrength`), so an
understatement is a `strength` below the grade of the text that UIKit left in the
field. Whatever the old text was, the one the delegate was asked about contains
what is put in, and grades no lower unless it is longer than 32
(`ReplacedGrade`); every other step grades the very text it leaves
(`FormJustified`). Navigation is, for each of the three screens,
a step of its own, a fresh start or no step (`EachScreenGoes`), so the invariant of
`ScreenContents` is the conjunction of theirs. `StackShape` alone does not survive
the answer to a sign-in, which pushes the tabs on the stack its screen is in.
`CallsMatch` says that the screen of an unanswered sign-in, where it is on the
stack, is a login screen; identities are used again only when no call, alert or
stack refers to them. `WelcomeFirst` carries `HomeRootStays`: until a session is
revoked, a fade to the welcome screen is the first of the process, and it keeps
every finger off until it is over.

The layout is one lemma per shape of step, one step per action in the
preservation theorems, and a temporal theorem that combines them with PTL.

## 7. What is only model-checked

* All liveness (`CurrentQueueDrains`, `EveryCallAnswered`,
  `RegistrationLeadsHome`, `KeepsTurning`, `StartingEnds`, `WorkerGoesOn`,
  `EndIsNoticed`, `DisposeEnds`, `ComingRefreshArrives`): liveness under fairness
  and ENABLED are outside the prover.
* The findings of section 5, each a single behaviour.
* That no deliberate mistake goes unnoticed.

## 8. What is not modelled, and why

* Queries, listeners, the watch stream, transactions, overlays and garbage
  collection of Firestore; all sign-in methods other than email and password; App
  Check: the app does not use them.
* The graceful end of a write stream by the backend, and the lengths of delays.
* `ExecuteBlocking` and `RunScheduledOperationsUntil`, which nothing on the app's
  path calls.
* The torn read in `getUserID`, which reads `_currentUser` off the work queue
  (`FIRAuth.m:2567`); that the value may be *old* is modelled.
* The unlock that happens between the failed keychain read and the registration
  of its observer (`FIRAuth.m:549`): the model may stay unloaded for ever, and no
  property says otherwise.
* Which alert is dropped when two are asked for close together
  (`AlertManager.swift:17`): `PresentAlert` drops it, and nothing promises that an
  alert is shown.
* The text typed into the app description, which nothing reads.
* Core Data and CloudKit (configured, never used), the empty favourite and
  setting screens, cells and layout, colours and fonts, keyboard handling, and
  the vendored libraries below Firebase.

## 9. What is left

1. `AuthService` over `RemoteStore` instead of `FirestoreClient`: by
   `RemoteStoreImplementsClient` nothing it relies on changes, but the composition
   itself is not stated.
2. `ScreenFlow` over `AccountService` instead of its own reduced view of the
   session.
3. The watch stream, should the app begin to read what it writes.
