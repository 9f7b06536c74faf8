---------------------------- MODULE TaskExecutor ---------------------------
(***************************************************************************)
(* The worker queue of the Firestore client: AsyncQueue over               *)
(* ExecutorLibdispatch over reference-counted Tasks, at the grain of their *)
(* locks.                                                                  *)
(*                                                                         *)
(* Any thread enqueues operations; the operations run one at a time on a   *)
(* serial dispatch queue, which cannot forget what it was given.  An       *)
(* operation schedules timers and cancels them, its own timer included.    *)
(* Another thread disposes of the queue: it takes the executor's tables    *)
(* and cancels every task in them, waiting for the one that runs.  Before  *)
(* that, FirestoreClient's Dispose lets the queue run one last operation,  *)
(* TerminateInternal; AsyncQueue's own Dispose, and its destructor, do not. *)
(*                                                                         *)
(* An action is a section under one lock.  The lock of a Task is held      *)
(* across two of them, from the end of its operation to the end of         *)
(* OnCompletion: the worker is then "completing".                          *)
(***************************************************************************)
EXTENDS Naturals, Sequences, FiniteSets

CONSTANTS
    Immediate,  \* operations the callers enqueue, each from its thread
    Delayed,    \* operations that running operations schedule
    Terminate,  \* the operation that FirestoreClient::Dispose enqueues
    NoTask

ASSUME TaskAssumption ==
    /\ Immediate \cap Delayed = {}
    /\ Terminate \notin Immediate \cup Delayed
    /\ NoTask \notin Immediate \cup Delayed \cup {Terminate}

VARIABLES
    mode,       \* AsyncQueue::mode_
    adding,     \* the task whose enqueuing thread holds AsyncQueue::mutex_
    disposed,   \* disposed_
    tasks,      \* tasks_
    schedule,   \* schedule_
    timers,     \* tasks given to dispatch_after and not yet due
    queue,      \* tasks on the dispatch queue
    state,      \* Task::state_, "none" before and "refused" without a task
    linked,     \* the tasks whose executor_ is set
    refs,       \* Task::ref_count_
    worker,     \* what the thread of the dispatch queue does, and a timer
                \* that its operation is cancelling
    disposer,   \* where Dispose is, the tasks it took, the one it awaits
    cancelled   \* timers whose Cancel has returned

tableVars == <<disposed, tasks, schedule>>
dispatchVars == <<timers, queue>>
taskVars == <<state, linked, refs>>
execVars == <<mode, adding, tableVars, dispatchVars, taskVars, worker,
              disposer, cancelled>>

Tasks == Immediate \cup Delayed \cup {Terminate}

ExecInit ==
    /\ mode = "running" /\ adding = NoTask
    /\ disposed = FALSE /\ tasks = {} /\ schedule = {}
    /\ timers = {} /\ queue = <<>>
    /\ state = [t \in Tasks |-> "none"]
    /\ linked = {} /\ refs = [t \in Tasks |-> 0]
    /\ worker = [at |-> "idle", task |-> NoTask, cancels |-> NoTask]
    /\ disposer = [at |-> "away", took |-> {}, awaits |-> NoTask]
    /\ cancelled = {}

-----------------------------------------------------------------------------
(* Task *)

Retained(t) == [refs EXCEPT ![t] = @ + 1]
Released(t) == [refs EXCEPT ![t] = @ - 1]

LockFree(t) == ~ (worker.at = "completing" /\ worker.task = t)

(* A mistake: the task that runs keeps its executor.                       *)
CancelTaskLinked(t) ==
    /\ LockFree(t)
    /\ state' = [state EXCEPT ![t] = IF @ = "initial" THEN "cancelled" ELSE @]
    /\ linked' = IF state[t] = "initial" THEN linked \ {t} ELSE linked

(* Task::Cancel, up to its wait: a task that has not begun will not, and   *)
(* none will call its executor back.                                       *)
CancelTask(t) ==
    /\ LockFree(t)
    /\ state' = [state EXCEPT ![t] = IF @ = "initial" THEN "cancelled" ELSE @]
    /\ linked' = IF state[t] \in {"initial", "running"}
                 THEN linked \ {t} ELSE linked

(* A mistake: Cancel never waits.                                          *)
NeverAwaited(t) == LockFree(t)

IsComplete(t) == LockFree(t) /\ state[t] \in {"cancelled", "done"}

-----------------------------------------------------------------------------
(* Enqueuing *)

Accepts(t) == IF t = Terminate THEN mode # "disposed" ELSE mode = "running"

(* AsyncQueue's mutex is taken and kept, the task is registered.           *)
Register(t) ==
    /\ adding = NoTask
    /\ state[t] = "none"
    /\ IF Accepts(t) /\ ~disposed
       THEN /\ adding' = t
            /\ state' = [state EXCEPT ![t] = "initial"]
            /\ refs' = Retained(t)
            /\ linked' = linked \cup {t}
            /\ tasks' = tasks \cup {t}
            /\ schedule' = schedule \cup ({t} \cap Delayed)
       ELSE /\ state' = [state EXCEPT ![t] = "refused"]
            /\ UNCHANGED <<adding, refs, linked, tasks, schedule>>
    /\ UNCHANGED <<mode, disposed, dispatchVars, worker, cancelled>>

Enqueue(t) == t \in Immediate /\ Register(t) /\ UNCHANGED disposer

(* libdispatch gets its share of the task; AsyncQueue's mutex is released. *)
Dispatch ==
    /\ adding # NoTask
    /\ refs' = Retained(adding)
    /\ IF adding \in Delayed
       THEN timers' = timers \cup {adding} /\ UNCHANGED queue
       ELSE queue' = Append(queue, adding) /\ UNCHANGED timers
    /\ adding' = NoTask
    /\ UNCHANGED <<mode, tableVars, state, linked, worker, disposer,
                   cancelled>>

(* libdispatch: the delay of a timer is over.                              *)
TimerIsDue(t) ==
    /\ t \in timers
    /\ timers' = timers \ {t}
    /\ queue' = Append(queue, t)
    /\ UNCHANGED <<mode, adding, tableVars, taskVars, worker, disposer,
                   cancelled>>

-----------------------------------------------------------------------------
(* The thread of the dispatch queue *)

(* ExecuteAndRelease: an operation that was cancelled is only released.    *)
Begin ==
    /\ worker.at = "idle"
    /\ queue # <<>>
    /\ queue' = Tail(queue)
    /\ LET t == Head(queue) IN
       IF state[t] = "initial"
       THEN /\ state' = [state EXCEPT ![t] = "running"]
            /\ worker' = [worker EXCEPT !.at = "operating", !.task = t]
       ELSE /\ worker' = [worker EXCEPT !.at = "releasing", !.task = t]
            /\ UNCHANGED state
    /\ UNCHANGED <<mode, adding, tableVars, timers, linked, refs, disposer,
                   cancelled>>

Operating ==
    worker.at = "operating" /\ worker.cancels = NoTask /\ adding \notin Delayed

(* AsyncQueue::EnqueueAfterDelay, by the running operation.                *)
ScheduleTimer(t) ==
    /\ Operating
    /\ t \in Delayed /\ Register(t)
    /\ UNCHANGED disposer

(* ExecutorLibdispatch::Cancel: the tables' share of the task passes to    *)
(* the caller.                                                             *)
CancelTimer(t) ==
    /\ Operating
    /\ t \in Delayed \ cancelled
    /\ state[t] \notin {"none", "refused"}
    /\ IF t \in schedule
       THEN /\ schedule' = schedule \ {t}
            /\ tasks' = tasks \ {t}
            /\ worker' = [worker EXCEPT !.cancels = t]
            /\ UNCHANGED cancelled
       ELSE /\ cancelled' = cancelled \cup {t}
            /\ UNCHANGED <<tasks, schedule, worker>>
    /\ UNCHANGED <<mode, adding, disposed, dispatchVars, taskVars, disposer>>

(* Mistakes: it waits for the task although it may be the                  *)
(* running one; it only takes the task off the tables.                     *)
CancelAwaits ==
    /\ worker.cancels # NoTask
    /\ state[worker.cancels] # "running"
    /\ CancelTask(worker.cancels)
    /\ refs' = Released(worker.cancels)
    /\ cancelled' = cancelled \cup {worker.cancels}
    /\ worker' = [worker EXCEPT !.cancels = NoTask]
    /\ UNCHANGED <<mode, adding, tableVars, dispatchVars, disposer>>

CancelOnlyUnlists ==
    /\ worker.cancels # NoTask
    /\ refs' = Released(worker.cancels)
    /\ cancelled' = cancelled \cup {worker.cancels}
    /\ worker' = [worker EXCEPT !.cancels = NoTask]
    /\ UNCHANGED <<mode, adding, tableVars, dispatchVars, state, linked,
                   disposer>>

(* Task::Cancel by the worker does not wait: the only task that can be     *)
(* running is the one whose operation makes the call.                      *)
CancelReturns ==
    /\ worker.cancels # NoTask
    /\ CancelTask(worker.cancels)
    /\ refs' = Released(worker.cancels)
    /\ cancelled' = cancelled \cup {worker.cancels}
    /\ worker' = [worker EXCEPT !.cancels = NoTask]
    /\ UNCHANGED <<mode, adding, tableVars, dispatchVars, disposer>>

(* The operation ends; TerminateInternal has cancelled every timer.        *)
OperationEnds ==
    /\ Operating
    /\ worker.task = Terminate =>
           \A t \in Delayed \ cancelled : state[t] \in {"none", "refused"}
    /\ state' = [state EXCEPT ![worker.task] = "done"]
    /\ worker' = [worker EXCEPT !.at = "completing"]
    /\ UNCHANGED <<mode, adding, tableVars, dispatchVars, linked, refs,
                   disposer, cancelled>>

(* A mistake: a task that was not found is released all the same.          *)
CompletionAlwaysReleases ==
    /\ worker.at = "completing"
    /\ LET t == worker.task IN
       IF t \in linked
       THEN /\ tasks' = tasks \ {t}
            /\ schedule' = schedule \ {t}
            /\ refs' = Released(t)
       ELSE UNCHANGED <<tasks, schedule, refs>>
    /\ worker' = [worker EXCEPT !.at = "releasing"]
    /\ UNCHANGED <<mode, adding, disposed, dispatchVars, state, linked,
                   disposer, cancelled>>

(* OnCompletion: the tables lose the task, and the executor its share,     *)
(* unless Cancel or Dispose has taken it.                                  *)
OnCompletion ==
    /\ worker.at = "completing"
    /\ LET t == worker.task IN
       IF t \in linked /\ t \in tasks
       THEN /\ tasks' = tasks \ {t}
            /\ schedule' = schedule \ {t}
            /\ refs' = Released(t)
       ELSE UNCHANGED <<tasks, schedule, refs>>
    /\ worker' = [worker EXCEPT !.at = "releasing"]
    /\ UNCHANGED <<mode, adding, disposed, dispatchVars, state, linked,
                   disposer, cancelled>>

Release ==
    /\ worker.at = "releasing"
    /\ refs' = Released(worker.task)
    /\ worker' = [worker EXCEPT !.at = "idle", !.task = NoTask]
    /\ UNCHANGED <<mode, adding, tableVars, dispatchVars, state, linked,
                   disposer, cancelled>>

-----------------------------------------------------------------------------
(* Disposing *)

DisposerGoes(to) == disposer' = [disposer EXCEPT !.at = to]

(* FirestoreClient::Dispose: EnterRestrictedMode.                          *)
EnterRestrictedMode ==
    /\ disposer.at = "away"
    /\ adding = NoTask
    /\ mode' = "restricted"
    /\ DisposerGoes("restricted")
    /\ UNCHANGED <<adding, tableVars, dispatchVars, taskVars, worker,
                   cancelled>>

EnqueueTerminate ==
    /\ disposer.at = "restricted"
    /\ Register(Terminate)
    /\ DisposerGoes("waiting")

(* AsyncQueue::Dispose: the client calls it once its operation runs.       *)
EnterDisposedMode ==
    /\ \/ disposer.at = "away"
       \/ disposer.at = "waiting" /\ state[Terminate] # "initial"
    /\ adding = NoTask
    /\ mode' = "disposed"
    /\ DisposerGoes("disposing")
    /\ UNCHANGED <<adding, tableVars, dispatchVars, taskVars, worker,
                   cancelled>>

(* ExecutorLibdispatch::Dispose takes the tables.                          *)
TakeTables ==
    /\ disposer.at = "disposing"
    /\ disposed' = TRUE
    /\ tasks' = {} /\ schedule' = {}
    /\ disposer' = [disposer EXCEPT !.at = "cancelling", !.took = tasks]
    /\ UNCHANGED <<mode, adding, dispatchVars, taskVars, worker, cancelled>>

(* Its loop over them, in any order.                                       *)
CancelTaken(t) ==
    /\ disposer.at = "cancelling"
    /\ disposer.awaits = NoTask
    /\ t \in disposer.took
    /\ CancelTask(t)
    /\ disposer' = [disposer EXCEPT !.awaits = t]
    /\ UNCHANGED <<mode, adding, tableVars, dispatchVars, refs, worker,
                   cancelled>>

ReleaseTaken ==
    /\ disposer.awaits # NoTask
    /\ IsComplete(disposer.awaits)
    /\ refs' = Released(disposer.awaits)
    /\ disposer' = [disposer EXCEPT !.took = @ \ {disposer.awaits},
                                    !.awaits = NoTask]
    /\ UNCHANGED <<mode, adding, tableVars, dispatchVars, state, linked,
                   worker, cancelled>>

DisposeReturns ==
    /\ disposer.at = "cancelling"
    /\ disposer.took = {}
    /\ DisposerGoes("disposed")
    /\ UNCHANGED <<mode, adding, tableVars, dispatchVars, taskVars, worker,
                   cancelled>>

-----------------------------------------------------------------------------
WorkerNext == Begin \/ CancelReturns \/ OperationEnds \/ OnCompletion \/ Release

DisposerNext ==
    \/ EnqueueTerminate \/ EnterDisposedMode \/ TakeTables
    \/ ReleaseTaken \/ DisposeReturns
    \/ \E t \in Tasks : CancelTaken(t)

ExecNext ==
    \/ \E t \in Immediate : Enqueue(t)
    \/ Dispatch
    \/ \E t \in Delayed : TimerIsDue(t) \/ ScheduleTimer(t) \/ CancelTimer(t)
    \/ WorkerNext
    \/ EnterRestrictedMode
    \/ DisposerNext

ExecSpec == ExecInit /\ [][ExecNext]_execVars

(* Threads run, delays pass, and every operation ends: TerminateInternal   *)
(* once it has gone through its timers.                                    *)
ExecLiveSpec ==
    /\ ExecSpec
    /\ WF_execVars(Dispatch)
    /\ WF_execVars(WorkerNext)
    /\ WF_execVars(\E t \in Delayed :
                       worker.task = Terminate /\ CancelTimer(t))
    /\ WF_execVars(disposer.at # "away" /\ DisposerNext)
    /\ \A t \in Delayed : WF_execVars(TimerIsDue(t))

-----------------------------------------------------------------------------
(* Every variable has its type (AsyncQueue, ExecutorLibdispatch, Task).    *)
ExecTypeOK ==
    /\ mode \in {"running", "restricted", "disposed"}
    /\ adding \in Tasks \cup {NoTask}
    /\ disposed \in BOOLEAN
    /\ tasks \subseteq Tasks
    /\ schedule \subseteq tasks \cap Delayed
    /\ timers \subseteq Delayed
    /\ queue \in Seq(Tasks)
    /\ state \in [Tasks -> {"none", "refused", "initial", "running",
                            "done", "cancelled"}]
    /\ linked \subseteq Tasks
    /\ refs \in [Tasks -> Nat]
    /\ worker \in [at : {"idle", "operating", "completing", "releasing"},
                   task : Tasks \cup {NoTask},
                   cancels : Delayed \cup {NoTask}]
    /\ disposer \in [at : {"away", "restricted", "waiting", "disposing",
                           "cancelling", "disposed"},
                     took : SUBSET Tasks, awaits : Tasks \cup {NoTask}]
    /\ cancelled \subseteq Delayed

(* The shares of a task: the tables', libdispatch's until the worker has   *)
(* released it, a canceller's and the disposer's.                          *)
Shares(t) ==
    {s \in {"tables", "timer", "queue", "worker", "canceller", "disposer"} :
        \/ s = "tables" /\ t \in tasks
        \/ s = "timer" /\ t \in timers
        \/ s = "queue" /\ \E i \in DOMAIN queue : queue[i] = t
        \/ s = "worker" /\ worker.task = t
        \/ s = "canceller" /\ worker.cancels = t
        \/ s = "disposer" /\ t \in disposer.took}

(* A task's reference count is the number of its owners, whoever of Cancel, *)
(* Dispose and OnCompletion finds it in the tables first: it is deleted     *)
(* when the last one has done with it, never twice, and never kept.         *)
OwnersAreCounted == \A t \in Tasks : refs[t] = Cardinality(Shares(t))

(* Dispose never deletes a task that an enqueuing thread has registered    *)
(* and is about to hand to libdispatch.                                    *)
EnqueuedTaskLives == adding # NoTask => adding \in tasks /\ refs[adding] = 1

(* The tables, the libdispatch queue and the tasks fit together: nothing   *)
(* is used after it is deleted (ExecutorLibdispatch, Task::Release).       *)
ExecConsistent == ExecTypeOK /\ OwnersAreCounted /\ EnqueuedTaskLives

(* Once Dispose has returned no task can call the executor back, not even  *)
(* one that still runs because it has cancelled itself (or is about to:    *)
(* the worker has taken it off the tables).                                *)
NoCallbackAfterDispose ==
    disposer.at = "disposed" =>
        \A t \in linked \ {worker.cancels} : state[t] = "done" /\ LockFree(t)

(* A cancelled timer does not begin, unless Dispose had taken it and has   *)
(* not come to it: once the tables are swapped, Cancel finds nothing, and  *)
(* a timer that is due may begin before Dispose's loop cancels it.  This   *)
(* window is there in the orderly end too, where TerminateInternal cancels *)
(* its timers while the executor is disposed of; nothing else lets a       *)
(* cancelled timer begin, not a Cancel that returns as Dispose begins.     *)
CancelHolds ==
    \A t \in cancelled :
        state[t] = "initial" => t \in disposer.took \ {disposer.awaits}

(* Stream::Close says of the timers it cancels "they're guaranteed not to  *)
(* execute", and DelayedOperation::Cancel that an operation that has not   *)
(* been run is cancelled.  Not so in the window of CancelHolds, after the  *)
(* client has begun its orderly end.                                       *)
CancelledNeverRuns ==
    [][state[Terminate] # "none" =>
           \A t \in cancelled :
               state[t] = "initial" => state'[t] # "running"]_execVars

(* The promise of AsyncQueue::Wrap: an operation "will either execute      *)
(* before Dispose completes or not at all".  A timer that has cancelled    *)
(* itself is in no table and Dispose does not wait for it; the promise is  *)
(* kept for FirestoreClient, because the operation that it lets run first  *)
(* comes after the timer's.                                                *)
ExecutesBeforeDisposeOrNotAtAll ==
    disposer.at = "disposed" /\ state[Terminate] # "none" =>
        worker.at # "operating" /\ \A t \in Tasks : state[t] # "initial"

(* Dispose returns, though it waits for the running task and for the lock  *)
(* of a task that is completing, and though its caller first waits for an  *)
(* operation to start.                                                     *)
DisposeEnds == disposer.at # "away" ~> disposer.at = "disposed"

=============================================================================
