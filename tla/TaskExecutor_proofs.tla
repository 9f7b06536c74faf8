------------------------- MODULE TaskExecutor_proofs -----------------------
(***************************************************************************)
(* Theorems about TaskExecutor, for any operations and timers.             *)
(***************************************************************************)
EXTENDS TaskExecutor, FiniteSetTheorems, TLAPS

States == {"none", "refused", "initial", "running", "done", "cancelled"}
Places == {"idle", "operating", "completing", "releasing"}
Stages == {"away", "restricted", "waiting", "disposing", "cancelling", "disposed"}

(* The part of the type invariant that the proofs need.                    *)
Typed ==
    /\ adding \in Tasks \cup {NoTask}
    /\ disposed \in BOOLEAN
    /\ tasks \subseteq Tasks
    /\ schedule \subseteq Delayed
    /\ state \in [Tasks -> States]
    /\ linked \subseteq Tasks
    /\ worker \in [at : Places, task : Tasks \cup {NoTask},
                   cancels : Delayed \cup {NoTask}]
    /\ disposer \in [at : Stages, took : SUBSET Tasks,
                     awaits : Tasks \cup {NoTask}]
    /\ cancelled \subseteq Delayed

(* What the worker's place says of its task.                               *)
WorkerMatches ==
    /\ worker.at = "idle" <=> worker.task = NoTask
    /\ worker.at = "operating" => state[worker.task] = "running"
    /\ worker.at = "completing" => state[worker.task] = "done"
    /\ \A t \in Tasks : state[t] = "running" =>
                            worker.at = "operating" /\ worker.task = t
    /\ worker.cancels # NoTask => worker.at = "operating"

(* The dispatch queue holds tasks.                                         *)
Dispatched == timers \subseteq Delayed /\ queue \in Seq(Tasks)

EnqueueInv == Typed /\ WorkerMatches /\ Dispatched

LEMMA NoTaskApart == NoTask \notin Tasks /\ Delayed \subseteq Tasks
BY TaskAssumption DEF Tasks

(* The task that Register deals with, whoever calls it.                    *)
LEMMA RegisterStep ==
    ASSUME NEW t \in Tasks, EnqueueInv, Register(t),
           disposer' \in [at : Stages, took : SUBSET Tasks,
                          awaits : Tasks \cup {NoTask}]
    PROVE  EnqueueInv'
<1> USE NoTaskApart
<1>1. /\ adding' \in Tasks \cup {NoTask}
      /\ tasks' \subseteq Tasks
      /\ schedule' \subseteq Delayed
      /\ state' \in [Tasks -> States]
      /\ linked' \subseteq Tasks
  BY DEF EnqueueInv, Typed, Register, States
<1>2. Typed'
  BY <1>1 DEF EnqueueInv, Typed, Register
<1>3. /\ worker' = worker
      /\ state[t] = "none"
      /\ state'[t] \in {"initial", "refused"}
      /\ \A u \in Tasks : u # t => state'[u] = state[u]
  BY DEF EnqueueInv, Typed, Register
<1>4. WorkerMatches'
  BY <1>3 DEF EnqueueInv, Typed, WorkerMatches
<1>5. Dispatched'
  BY DEF EnqueueInv, Dispatched, Register, dispatchVars
<1> QED  BY <1>2, <1>4, <1>5 DEF EnqueueInv

LEMMA EnqueueInvInit == ExecInit => EnqueueInv
<1> SUFFICES ASSUME ExecInit PROVE EnqueueInv
  OBVIOUS
<1>1. Typed
  BY NoTaskApart DEF ExecInit, Typed, States, Places, Stages
<1>2. WorkerMatches
  BY DEF ExecInit, WorkerMatches
<1>3. Dispatched
  BY DEF ExecInit, Dispatched
<1> QED  BY <1>1, <1>2, <1>3 DEF EnqueueInv

LEMMA EnqueueInvStep == EnqueueInv /\ [ExecNext]_execVars => EnqueueInv'
<1> SUFFICES ASSUME EnqueueInv, [ExecNext]_execVars PROVE EnqueueInv'
  OBVIOUS
<1> USE NoTaskApart
<1> USE DEF tableVars, dispatchVars, taskVars
<1>t. Typed /\ WorkerMatches /\ Dispatched
  BY DEF EnqueueInv
<1>1. ASSUME NEW t \in Immediate, Enqueue(t) PROVE EnqueueInv'
  <2>1. t \in Tasks /\ disposer' = disposer
    BY <1>1 DEF Enqueue, Tasks
  <2> QED  BY <1>1, <2>1, <1>t, RegisterStep DEF Enqueue, Typed
<1>2. CASE Dispatch
  <2>1. Typed'
    BY <1>2, <1>t DEF Dispatch, Typed
  <2>2. WorkerMatches'
    BY <1>2, <1>t DEF Dispatch, WorkerMatches
  <2>3. Dispatched'
    <3>1. adding \in Tasks
      BY <1>2, <1>t DEF Dispatch, Typed
    <3>2. CASE adding \in Delayed
      BY <1>2, <1>t, <3>2 DEF Dispatch, Dispatched
    <3>3. CASE adding \notin Delayed
      BY <1>2, <1>t, <3>1, <3>3 DEF Dispatch, Dispatched
    <3> QED  BY <3>2, <3>3
  <2> QED  BY <2>1, <2>2, <2>3 DEF EnqueueInv
<1>3. ASSUME NEW t \in Delayed, TimerIsDue(t) PROVE EnqueueInv'
  <2>1. Typed'
    BY <1>3, <1>t DEF TimerIsDue, Typed
  <2>2. WorkerMatches'
    BY <1>3, <1>t DEF TimerIsDue, WorkerMatches
  <2>3. Dispatched'
    <3>1. t \in Tasks
      OBVIOUS
    <3> QED  BY <1>3, <1>t, <3>1 DEF TimerIsDue, Dispatched
  <2> QED  BY <2>1, <2>2, <2>3 DEF EnqueueInv
<1>4. CASE Begin
  <2> DEFINE t == Head(queue)
  <2>1. t \in Tasks /\ Tail(queue) \in Seq(Tasks)
    BY <1>4, <1>t DEF Begin, Dispatched
  <2>2. worker.cancels = NoTask
    BY <1>4, <1>t DEF Begin, WorkerMatches
  <2>3. Dispatched'
    BY <1>4, <1>t, <2>1 DEF Begin, Dispatched
  <2>4. CASE state[t] = "initial"
    <3>1. /\ state' = [state EXCEPT ![t] = "running"]
          /\ worker' = [worker EXCEPT !.at = "operating", !.task = t]
      BY <1>4, <2>4 DEF Begin
    <3>2. Typed'
      <4>1. state' \in [Tasks -> States]
        BY <1>t, <2>1, <3>1 DEF Typed, States
      <4>2. worker' \in [at : Places, task : Tasks \cup {NoTask},
                         cancels : Delayed \cup {NoTask}]
        BY <1>t, <2>1, <3>1 DEF Typed, Places
      <4> QED  BY <1>4, <1>t, <4>1, <4>2 DEF Begin, Typed
    <3>3. WorkerMatches'
      BY <1>4, <1>t, <2>1, <2>2, <3>1 DEF Begin, Typed, WorkerMatches
    <3> QED  BY <2>3, <3>2, <3>3 DEF EnqueueInv
  <2>5. CASE state[t] # "initial"
    <3>1. /\ state' = state
          /\ worker' = [worker EXCEPT !.at = "releasing", !.task = t]
      BY <1>4, <2>5 DEF Begin
    <3>2. Typed'
      <4>1. worker' \in [at : Places, task : Tasks \cup {NoTask},
                         cancels : Delayed \cup {NoTask}]
        BY <1>t, <2>1, <3>1 DEF Typed, Places
      <4> QED  BY <1>4, <1>t, <3>1, <4>1 DEF Begin, Typed
    <3>3. WorkerMatches'
      BY <1>4, <1>t, <2>1, <2>2, <3>1 DEF Begin, Typed, WorkerMatches
    <3> QED  BY <2>3, <3>2, <3>3 DEF EnqueueInv
  <2> QED  BY <2>4, <2>5
<1>5. ASSUME NEW t \in Delayed, ScheduleTimer(t) PROVE EnqueueInv'
  <2>1. t \in Tasks /\ disposer' = disposer
    BY <1>5 DEF ScheduleTimer
  <2> QED  BY <1>5, <2>1, <1>t, RegisterStep DEF ScheduleTimer, Typed
<1>6. ASSUME NEW t \in Delayed, CancelTimer(t) PROVE EnqueueInv'
  <2>1. Typed'
    BY <1>6, <1>t DEF CancelTimer, Typed
  <2>2. WorkerMatches'
    BY <1>6, <1>t DEF CancelTimer, Operating, Typed, WorkerMatches
  <2>3. Dispatched'
    BY <1>6, <1>t DEF CancelTimer, Dispatched
  <2> QED  BY <2>1, <2>2, <2>3 DEF EnqueueInv
<1>7. CASE CancelReturns
  <2>1. worker.cancels \in Tasks
    BY <1>7, <1>t DEF CancelReturns, Typed
  <2>2. Typed'
    BY <1>7, <1>t, <2>1 DEF CancelReturns, CancelTask, Typed, States
  <2>3. WorkerMatches'
    BY <1>7, <1>t, <2>1 DEF CancelReturns, CancelTask, Typed, WorkerMatches
  <2>4. Dispatched'
    BY <1>7, <1>t DEF CancelReturns, Dispatched
  <2> QED  BY <2>2, <2>3, <2>4 DEF EnqueueInv
<1>8. CASE OperationEnds
  <2>1. worker.task \in Tasks
    BY <1>8, <1>t DEF OperationEnds, Operating, Typed, WorkerMatches
  <2>2. Typed'
    BY <1>8, <1>t, <2>1 DEF OperationEnds, Typed, States, Places
  <2>3. WorkerMatches'
    BY <1>8, <1>t, <2>1 DEF OperationEnds, Operating, Typed, WorkerMatches
  <2>4. Dispatched'
    BY <1>8, <1>t DEF OperationEnds, Dispatched
  <2> QED  BY <2>2, <2>3, <2>4 DEF EnqueueInv
<1>9. CASE OnCompletion
  <2>1. Typed'
    BY <1>9, <1>t DEF OnCompletion, Typed, Places
  <2>2. WorkerMatches'
    BY <1>9, <1>t DEF OnCompletion, Typed, WorkerMatches
  <2>3. Dispatched'
    BY <1>9, <1>t DEF OnCompletion, Dispatched
  <2> QED  BY <2>1, <2>2, <2>3 DEF EnqueueInv
<1>10. CASE Release
  <2>1. Typed'
    BY <1>10, <1>t DEF Release, Typed, Places
  <2>2. WorkerMatches'
    BY <1>10, <1>t DEF Release, Typed, WorkerMatches
  <2>3. Dispatched'
    BY <1>10, <1>t DEF Release, Dispatched
  <2> QED  BY <2>1, <2>2, <2>3 DEF EnqueueInv
<1>11. CASE EnqueueTerminate
  <2>1. Terminate \in Tasks
    BY DEF Tasks
  <2>2. disposer' = [disposer EXCEPT !.at = "waiting"]
    BY <1>11 DEF EnqueueTerminate, DisposerGoes
  <2>3. disposer' \in [at : Stages, took : SUBSET Tasks,
                       awaits : Tasks \cup {NoTask}]
    BY <1>t, <2>2 DEF Typed, Stages
  <2> QED  BY <1>11, <2>1, <2>3, RegisterStep DEF EnqueueTerminate
<1>12. ASSUME NEW t \in Tasks, CancelTaken(t) PROVE EnqueueInv'
  <2>1. Typed'
    BY <1>12, <1>t DEF CancelTaken, CancelTask, Typed, States
  <2>2. WorkerMatches'
    BY <1>12, <1>t DEF CancelTaken, CancelTask, Typed, WorkerMatches
  <2>3. Dispatched'
    BY <1>12, <1>t DEF CancelTaken, Dispatched
  <2> QED  BY <2>1, <2>2, <2>3 DEF EnqueueInv
<1>13. CASE EnterRestrictedMode \/ EnterDisposedMode \/ TakeTables
            \/ ReleaseTaken \/ DisposeReturns
  <2>1. disposer' \in [at : Stages, took : SUBSET Tasks,
                       awaits : Tasks \cup {NoTask}]
    <3>1. CASE EnterRestrictedMode \/ EnterDisposedMode \/ DisposeReturns
      BY <3>1, <1>t DEF EnterRestrictedMode, EnterDisposedMode, DisposeReturns,
                        DisposerGoes, Typed, Stages
    <3>2. CASE TakeTables
      BY <3>2, <1>t DEF TakeTables, Typed, Stages
    <3>3. CASE ReleaseTaken
      BY <3>3, <1>t DEF ReleaseTaken, Typed, Stages
    <3> QED  BY <1>13, <3>1, <3>2, <3>3
  <2>2. /\ worker' = worker /\ state' = state /\ linked' = linked
        /\ timers' = timers /\ queue' = queue /\ adding' = adding
        /\ cancelled' = cancelled
    BY <1>13 DEF EnterRestrictedMode, EnterDisposedMode, TakeTables,
                 ReleaseTaken, DisposeReturns
  <2>3. disposed' \in BOOLEAN /\ tasks' \subseteq Tasks /\ schedule' \subseteq Delayed
    BY <1>13, <1>t DEF EnterRestrictedMode, EnterDisposedMode, TakeTables,
                       ReleaseTaken, DisposeReturns, Typed
  <2> QED
    BY <1>t, <2>1, <2>2, <2>3 DEF EnqueueInv, Typed, WorkerMatches, Dispatched
<1>14. CASE UNCHANGED execVars
  BY <1>14, <1>t DEF execVars, EnqueueInv, Typed, WorkerMatches, Dispatched
<1> QED
  BY <1>1, <1>2, <1>3, <1>4, <1>5, <1>6, <1>7, <1>8, <1>9, <1>10, <1>11,
     <1>12, <1>13, <1>14
     DEF ExecNext, WorkerNext, DisposerNext

(* Exactly one task runs, the worker's, and what the main queue will run   *)
(* has been enqueued (ExecutorLibdispatch::Execute, Task::Execute).        *)
THEOREM ExecutorTyped == ExecSpec => []EnqueueInv
BY EnqueueInvInit, EnqueueInvStep, PTL DEF ExecSpec

-----------------------------------------------------------------------------
(* When a cancelled timer may still begin                                  *)

(* A timer that has not begun is in the schedule, in the hands of the      *)
(* operation that is cancelling it, or among the tasks that Dispose took   *)
(* and has not come to.                                                    *)
CancelInv ==
    /\ \A t \in cancelled \cup {worker.cancels} :
           t \in Tasks => state[t] \notin {"none", "refused"}
    /\ \A t \in Delayed :
           state[t] = "initial" => \/ t \in schedule \/ worker.cancels = t
                                  \/ t \in disposer.took
    /\ schedule \subseteq tasks
    /\ disposer.awaits \in Tasks => state[disposer.awaits] # "initial"
    /\ disposer.at = "cancelling" => disposed
    /\ disposer.at # "cancelling" => disposer.took = {} /\ disposer.awaits = NoTask
    /\ disposer.awaits \in disposer.took \cup {NoTask}
    /\ CancelHolds

LEMMA CancelInvRegister ==
    ASSUME NEW t \in Tasks, EnqueueInv, CancelInv, Register(t),
           disposer'.took = disposer.took, disposer'.awaits = disposer.awaits,
           disposer'.at = disposer.at
               \/ {disposer'.at, disposer.at} \subseteq {"restricted", "waiting"}
    PROVE  CancelInv'
<1>1. /\ state[t] = "none"
      /\ state'[t] \in {"initial", "refused"}
      /\ state'[t] = "initial" => schedule' = schedule \cup ({t} \cap Delayed)
                                  /\ tasks' = tasks \cup {t}
      /\ state'[t] = "refused" => schedule' = schedule /\ tasks' = tasks
      /\ \A u \in Tasks : u # t => state'[u] = state[u]
      /\ cancelled' = cancelled /\ worker' = worker
      /\ disposed' = disposed /\ (disposed => state'[t] = "refused")
  BY DEF EnqueueInv, Typed, Register
<1>2. /\ t \notin cancelled \cup {worker.cancels}
      /\ cancelled \subseteq Tasks /\ Delayed \subseteq Tasks
      /\ t = disposer.awaits => disposed
  BY <1>1, NoTaskApart DEF CancelInv, EnqueueInv, Typed
<1>3. \A u \in cancelled' \cup {worker'.cancels} :
          u \in Tasks => state'[u] \notin {"none", "refused"}
  BY <1>1, <1>2 DEF CancelInv
<1>4. \A u \in Delayed : state'[u] = "initial" =>
          u \in schedule' \/ worker'.cancels = u \/ u \in disposer'.took
  BY <1>1, <1>2 DEF CancelInv
<1>5. schedule' \subseteq tasks'
  BY <1>1 DEF CancelInv
<1>6. disposer'.awaits \in Tasks => state'[disposer'.awaits] # "initial"
  BY <1>1, <1>2 DEF CancelInv
<1>7. /\ disposer'.at # "cancelling" => disposer'.took = {} /\ disposer'.awaits = NoTask
      /\ disposer'.at = "cancelling" => disposed'
  BY <1>1 DEF CancelInv
<1>8. CancelHolds'
  BY <1>1, <1>2 DEF CancelInv, CancelHolds
<1> QED  BY <1>3, <1>4, <1>5, <1>6, <1>7, <1>8 DEF CancelInv

(* Of the tasks that have begun, or were cancelled, CancelInv says little: *)
(* a step that only lets tasks begin, end or be cancelled preserves it.    *)
LEMMA CancelInvGoesOn ==
    ASSUME EnqueueInv, CancelInv,
           \A t \in Tasks : \/ state'[t] = state[t]
                            \/ state'[t] \in {"running", "done", "cancelled"},
           \A t \in schedule : state'[t] = "initial" => t \in schedule',
           schedule' \subseteq tasks',
           cancelled' = cancelled, worker'.cancels = worker.cancels,
           disposer' = disposer, disposed' = disposed
    PROVE  CancelInv'
<1>1. /\ cancelled \subseteq Tasks /\ Delayed \subseteq Tasks
  BY NoTaskApart DEF EnqueueInv, Typed
<1>2. \A u \in cancelled' \cup {worker'.cancels} :
          u \in Tasks => state'[u] \notin {"none", "refused"}
  BY DEF CancelInv
<1>3. \A u \in Delayed : state'[u] = "initial" =>
          u \in schedule' \/ worker'.cancels = u \/ u \in disposer'.took
  BY <1>1 DEF CancelInv
<1>4. disposer'.awaits \in Tasks => state'[disposer'.awaits] # "initial"
  BY DEF CancelInv
<1>5. /\ disposer'.at # "cancelling" => disposer'.took = {} /\ disposer'.awaits = NoTask
      /\ disposer'.at = "cancelling" => disposed'
  BY DEF CancelInv
<1>6. CancelHolds'
  BY <1>1 DEF CancelInv, CancelHolds
<1> QED  BY <1>2, <1>3, <1>4, <1>5, <1>6 DEF CancelInv

LEMMA CancelInvStep ==
    EnqueueInv /\ CancelInv /\ [ExecNext]_execVars => CancelInv'
<1> SUFFICES ASSUME EnqueueInv, CancelInv, [ExecNext]_execVars PROVE CancelInv'
  OBVIOUS
<1> USE NoTaskApart
<1> USE DEF tableVars, dispatchVars, taskVars
<1>t. Typed /\ WorkerMatches /\ Dispatched
  BY DEF EnqueueInv
<1>s. schedule \subseteq tasks
  BY DEF CancelInv
<1>1. ASSUME NEW t \in Tasks, Register(t), UNCHANGED disposer PROVE CancelInv'
  BY <1>1, CancelInvRegister
<1>2. CASE EnqueueTerminate
  <2>1. /\ Terminate \in Tasks
        /\ disposer.at = "restricted"
        /\ disposer' = [disposer EXCEPT !.at = "waiting"]
    BY <1>2 DEF EnqueueTerminate, DisposerGoes, Tasks
  <2>2. /\ disposer'.took = disposer.took
        /\ disposer'.awaits = disposer.awaits
        /\ disposer'.at = "waiting"
    BY <1>t, <2>1 DEF Typed
  <2> QED  BY <1>2, <2>1, <2>2, CancelInvRegister DEF EnqueueTerminate
<1>3. CASE Begin
  <2>1. /\ \A t \in Tasks : state'[t] = state[t] \/ state'[t] = "running"
        /\ worker'.cancels = worker.cancels
        /\ schedule' = schedule /\ tasks' = tasks
        /\ cancelled' = cancelled /\ disposer' = disposer /\ disposed' = disposed
    BY <1>3, <1>t DEF Begin, Typed, Dispatched
  <2> QED  BY <1>s, <2>1, CancelInvGoesOn
<1>4. CASE OperationEnds
  <2>1. /\ \A t \in Tasks : state'[t] = state[t] \/ state'[t] = "done"
        /\ worker'.cancels = worker.cancels
        /\ schedule' = schedule /\ tasks' = tasks
        /\ cancelled' = cancelled /\ disposer' = disposer /\ disposed' = disposed
    BY <1>4, <1>t DEF OperationEnds, Typed
  <2> QED  BY <1>s, <2>1, CancelInvGoesOn
<1>5. CASE OnCompletion
  <2>1. /\ state' = state /\ worker'.cancels = worker.cancels
        /\ cancelled' = cancelled /\ disposer' = disposer /\ disposed' = disposed
        /\ state[worker.task] = "done"
    BY <1>5, <1>t DEF OnCompletion, Typed, WorkerMatches
  <2>2. /\ \A t \in schedule : t # worker.task => t \in schedule'
        /\ schedule' \subseteq tasks'
    BY <1>5, <1>s DEF OnCompletion
  <2>3. \A t \in schedule : state'[t] = "initial" => t \in schedule'
    BY <2>1, <2>2
  <2> QED  BY <2>1, <2>2, <2>3, CancelInvGoesOn
<1>6. ASSUME NEW t \in Delayed, CancelTimer(t) PROVE CancelInv'
  <2>1. /\ state' = state /\ disposer' = disposer /\ disposed' = disposed
        /\ worker.cancels = NoTask
        /\ t \notin cancelled
        /\ state[t] \notin {"none", "refused"}
    BY <1>6 DEF CancelTimer, Operating
  <2>2. CASE t \in schedule
    <3>1. /\ schedule' = schedule \ {t} /\ tasks' = tasks \ {t}
          /\ cancelled' = cancelled /\ worker'.cancels = t
      BY <1>6, <1>t, <2>2 DEF CancelTimer, Typed
    <3> QED  BY <2>1, <3>1 DEF CancelInv, CancelHolds
  <2>3. CASE t \notin schedule
    <3>1. /\ schedule' = schedule /\ tasks' = tasks
          /\ cancelled' = cancelled \cup {t} /\ worker' = worker
      BY <1>6, <2>3 DEF CancelTimer
    <3>2. state[t] = "initial" => t \in disposer.took \ {disposer.awaits}
      BY <2>1, <2>3 DEF CancelInv
    <3> QED  BY <2>1, <3>1, <3>2 DEF CancelInv, CancelHolds
  <2> QED  BY <2>2, <2>3
<1>7. CASE CancelReturns
  <2> DEFINE c == worker.cancels
  <2>1. /\ c \in Delayed /\ c \in Tasks
        /\ worker'.cancels = NoTask
        /\ cancelled' = cancelled \cup {c}
        /\ schedule' = schedule /\ tasks' = tasks /\ disposer' = disposer
        /\ disposed' = disposed
    BY <1>7, <1>t DEF CancelReturns, Typed
  <2>2. /\ \A t \in Tasks : t # c => state'[t] = state[t]
        /\ state'[c] # "initial"
        /\ state'[c] = state[c] \/ state'[c] = "cancelled"
    BY <1>7, <1>t, <2>1 DEF CancelReturns, CancelTask, Typed
  <2> QED
    BY <1>t, <2>1, <2>2 DEF CancelInv, CancelHolds, Typed
<1>8. ASSUME NEW t \in Tasks, CancelTaken(t) PROVE CancelInv'
  <2>1. /\ \A u \in Tasks : \/ state'[u] = state[u]
                            \/ state[u] = "initial" /\ state'[u] = "cancelled"
        /\ state'[t] # "initial"
        /\ worker' = worker /\ schedule' = schedule
        /\ tasks' = tasks /\ cancelled' = cancelled
        /\ disposer.at = "cancelling" /\ disposed' = disposed
    BY <1>8, <1>t DEF CancelTaken, CancelTask, Typed
  <2>2. /\ disposer'.at = "cancelling" /\ disposer'.took = disposer.took
        /\ disposer'.awaits = t /\ t \in disposer.took
    BY <1>8, <1>t DEF CancelTaken, Typed
  <2>3. cancelled \subseteq Tasks
    BY <1>t DEF Typed
  <2>4. \A u \in cancelled' \cup {worker'.cancels} :
            u \in Tasks => state'[u] \notin {"none", "refused"}
    BY <2>1 DEF CancelInv
  <2>5. \A u \in Delayed : state'[u] = "initial" =>
            u \in schedule' \/ worker'.cancels = u \/ u \in disposer'.took
    BY <2>1, <2>2 DEF CancelInv
  <2>6. CancelHolds'
    BY <2>1, <2>2, <2>3 DEF CancelInv, CancelHolds
  <2> QED  BY <1>s, <2>1, <2>2, <2>4, <2>5, <2>6 DEF CancelInv
<1>9. CASE ReleaseTaken
  <2>1. /\ state' = state /\ worker' = worker /\ schedule' = schedule
        /\ tasks' = tasks /\ cancelled' = cancelled
        /\ state[disposer.awaits] # "initial" /\ disposed' = disposed
    BY <1>9 DEF ReleaseTaken, IsComplete
  <2>2. /\ disposer'.at = disposer.at
        /\ disposer'.took = disposer.took \ {disposer.awaits}
        /\ disposer'.awaits = NoTask
    BY <1>9, <1>t DEF ReleaseTaken, Typed
  <2>3. \A u \in Delayed : state'[u] = "initial" =>
            u \in schedule' \/ worker'.cancels = u \/ u \in disposer'.took
    BY <2>1, <2>2 DEF CancelInv
  <2>4. CancelHolds'
    BY <1>t, <2>1, <2>2 DEF CancelInv, CancelHolds, Typed
  <2> QED  BY <2>1, <2>2, <2>3, <2>4, NoTaskApart DEF CancelInv
<1>10. CASE TakeTables
  <2>1. /\ state' = state /\ worker' = worker /\ cancelled' = cancelled
        /\ schedule' = {} /\ tasks' = {} /\ disposed' = TRUE
    BY <1>10 DEF TakeTables
  <2>2. /\ disposer'.at = "cancelling" /\ disposer'.took = tasks
        /\ disposer'.awaits = disposer.awaits
        /\ disposer.at # "cancelling"
    BY <1>10, <1>t DEF TakeTables, Typed
  <2> QED  BY <2>1, <2>2 DEF CancelInv, CancelHolds
<1>11. CASE EnterRestrictedMode \/ EnterDisposedMode \/ DisposeReturns
  <2>1. /\ state' = state /\ worker' = worker /\ schedule' = schedule
        /\ tasks' = tasks /\ cancelled' = cancelled /\ disposed' = disposed
    BY <1>11 DEF EnterRestrictedMode, EnterDisposedMode, DisposeReturns
  <2>2. /\ disposer'.took = disposer.took /\ disposer'.awaits = disposer.awaits
        /\ disposer'.at # "cancelling"
    BY <1>11, <1>t
       DEF EnterRestrictedMode, EnterDisposedMode, DisposeReturns,
           DisposerGoes, Typed
  <2>3. disposer.took = {} /\ disposer.awaits = NoTask
    BY <1>11, <1>t
       DEF EnterRestrictedMode, EnterDisposedMode, DisposeReturns, CancelInv,
           Typed
  <2> QED  BY <2>1, <2>2, <2>3 DEF CancelInv, CancelHolds
<1>12. CASE Dispatch \/ Release \/ UNCHANGED execVars
            \/ \E t \in Delayed : TimerIsDue(t)
  <2>1. /\ state' = state /\ worker'.cancels = worker.cancels
        /\ schedule' = schedule /\ tasks' = tasks
        /\ cancelled' = cancelled /\ disposer' = disposer /\ disposed' = disposed
    BY <1>12, <1>t DEF Dispatch, Release, execVars, TimerIsDue, Typed
  <2> QED  BY <1>s, <2>1, CancelInvGoesOn
<1> QED
  BY <1>1, <1>2, <1>3, <1>4, <1>5, <1>6, <1>7, <1>8, <1>9, <1>10, <1>11, <1>12
     DEF ExecNext, WorkerNext, DisposerNext, Enqueue, ScheduleTimer, Tasks

(* A timer whose Cancel has returned does not begin, unless Dispose took   *)
(* it off the tables first and has not come to it: then Cancel found       *)
(* nothing (DelayedOperation::Cancel, ExecutorLibdispatch::Dispose).       *)
THEOREM CancelIsKept == ExecSpec => []CancelHolds
<1>1. ExecInit => CancelInv
  BY NoTaskApart DEF ExecInit, CancelInv, CancelHolds
<1>2. CancelInv => CancelHolds
  BY DEF CancelInv
<1> QED  BY <1>1, <1>2, ExecutorTyped, CancelInvStep, PTL DEF ExecSpec

-----------------------------------------------------------------------------
(* No task calls back an executor that is gone                             *)

(* A task that may still call its executor back is in the tables or among  *)
(* the tasks that Dispose has taken, or is being cancelled by an operation. *)
CallbackInv ==
    /\ \A t \in linked : state[t] \in {"initial", "running", "done"}
    /\ \A t \in linked : \/ state[t] = "done" /\ LockFree(t)
                         \/ t \in tasks \/ t \in disposer.took
                         \/ t = worker.cancels
    /\ disposed => tasks = {}
    /\ disposer.at \in {"cancelling", "disposed"} => disposed
    /\ disposer.at # "cancelling" => disposer.took = {} /\ disposer.awaits = NoTask
    /\ disposer.awaits \in disposer.took \cup {NoTask}
    /\ disposer.awaits \in linked => state[disposer.awaits] = "done"

LEMMA CallbackInvRegister ==
    ASSUME NEW t \in Tasks, EnqueueInv, CallbackInv, Register(t),
           disposer'.took = disposer.took, disposer'.awaits = disposer.awaits,
           disposer'.at = disposer.at
               \/ {disposer'.at, disposer.at} \subseteq {"restricted", "waiting"}
    PROVE  CallbackInv'
<1>1. /\ state[t] = "none" /\ t \notin linked
      /\ \A u \in Tasks : u # t => state'[u] = state[u]
      /\ worker' = worker /\ disposed' = disposed
      /\ linked \subseteq Tasks
  BY DEF EnqueueInv, Typed, Register, CallbackInv
<1>2. \/ /\ ~disposed /\ state'[t] = "initial"
         /\ linked' = linked \cup {t} /\ tasks' = tasks \cup {t}
      \/ linked' = linked /\ tasks' = tasks
  BY DEF EnqueueInv, Typed, Register
<1>3. \A u \in Tasks : LockFree(u)' = LockFree(u)
  BY <1>1 DEF LockFree
<1>4. disposer.at # "cancelling" => disposer.awaits = NoTask
  BY DEF CallbackInv
<1>5. t # NoTask
  BY NoTaskApart
<1>6. CASE linked' = linked /\ tasks' = tasks
  BY <1>1, <1>3, <1>4, <1>6 DEF CallbackInv
<1>7. CASE /\ ~disposed /\ state'[t] = "initial"
           /\ linked' = linked \cup {t} /\ tasks' = tasks \cup {t}
  <2>1. disposer.at # "cancelling" /\ disposer.awaits = NoTask
    BY <1>4, <1>7 DEF CallbackInv
  <2>2. disposer'.at \notin {"cancelling", "disposed"}
    BY <1>7, <2>1 DEF CallbackInv
  <2>3. \A u \in linked' : state'[u] \in {"initial", "running", "done"}
    BY <1>1, <1>7 DEF CallbackInv
  <2>4. \A u \in linked' : \/ state'[u] = "done" /\ LockFree(u)'
                           \/ u \in tasks' \/ u \in disposer'.took
                           \/ u = worker'.cancels
    BY <1>1, <1>3, <1>7 DEF CallbackInv
  <2>5. disposer'.awaits = NoTask /\ NoTask \notin linked'
    BY <1>1, <1>5, <1>7, <2>1, NoTaskApart
  <2> QED  BY <1>1, <1>7, <2>1, <2>2, <2>3, <2>4, <2>5 DEF CallbackInv
<1> QED  BY <1>2, <1>6, <1>7

LEMMA CallbackInvStep ==
    EnqueueInv /\ CallbackInv /\ [ExecNext]_execVars => CallbackInv'
<1> SUFFICES ASSUME EnqueueInv, CallbackInv, [ExecNext]_execVars PROVE CallbackInv'
  OBVIOUS
<1> USE NoTaskApart
<1> USE DEF tableVars, dispatchVars, taskVars
<1>t. Typed /\ WorkerMatches /\ Dispatched
  BY DEF EnqueueInv
<1>1. ASSUME NEW t \in Tasks, Register(t), UNCHANGED disposer
      PROVE  CallbackInv'
  BY <1>1, CallbackInvRegister
<1>2. CASE EnqueueTerminate
  <2>1. /\ Terminate \in Tasks
        /\ disposer.at = "restricted"
        /\ disposer' = [disposer EXCEPT !.at = "waiting"]
    BY <1>2 DEF EnqueueTerminate, DisposerGoes, Tasks
  <2>2. /\ disposer'.took = disposer.took
        /\ disposer'.awaits = disposer.awaits
        /\ disposer'.at = "waiting"
    BY <1>t, <2>1 DEF Typed
  <2> QED  BY <1>2, <2>1, <2>2, CallbackInvRegister DEF EnqueueTerminate
<1>3. CASE Begin
  <2>1. /\ \A t \in Tasks : \/ state'[t] = state[t]
                            \/ state[t] = "initial" /\ state'[t] = "running"
        /\ worker'.cancels = worker.cancels
        /\ worker.at = "idle" /\ worker'.at \in {"operating", "releasing"}
        /\ linked' = linked /\ tasks' = tasks /\ disposer' = disposer
        /\ disposed' = disposed
    BY <1>3, <1>t DEF Begin, Typed, Dispatched
  <2>2. \A t \in Tasks : LockFree(t) /\ LockFree(t)'
    BY <2>1 DEF LockFree
  <2> QED  BY <1>t, <2>1, <2>2 DEF CallbackInv, Typed
<1>4. ASSUME NEW t \in Delayed, CancelTimer(t) PROVE CallbackInv'
  <2>1. /\ state' = state /\ linked' = linked /\ disposer' = disposer
        /\ disposed' = disposed
        /\ worker.cancels = NoTask
        /\ worker'.at = worker.at /\ worker'.task = worker.task
        /\ \/ tasks' = tasks /\ worker'.cancels = NoTask
           \/ tasks' = tasks \ {t} /\ worker'.cancels = t
    BY <1>4, <1>t DEF CancelTimer, Operating, Typed
  <2>2. \A u \in Tasks : LockFree(u)' = LockFree(u)
    BY <2>1 DEF LockFree
  <2> QED  BY <1>t, <2>1, <2>2 DEF CallbackInv, Typed
<1>5. CASE CancelReturns
  <2> DEFINE c == worker.cancels
  <2>1. /\ c \in Tasks
        /\ worker'.cancels = NoTask
        /\ worker'.at = worker.at /\ worker'.task = worker.task
        /\ worker.at = "operating"
        /\ tasks' = tasks /\ disposer' = disposer /\ disposed' = disposed
    BY <1>5, <1>t DEF CancelReturns, Typed, WorkerMatches
  <2>2. \A u \in Tasks : LockFree(u) /\ LockFree(u)'
    BY <2>1 DEF LockFree
  <2>3. /\ \A t \in Tasks : t # c => state'[t] = state[t]
        /\ linked' \subseteq linked
        /\ c \in linked' => state[c] = "done" /\ state'[c] = "done"
    BY <1>5, <1>t, <2>1 DEF CancelReturns, CancelTask, Typed, CallbackInv
  <2> QED  BY <1>t, <2>1, <2>2, <2>3 DEF CallbackInv, Typed
<1>6. CASE OperationEnds
  <2>1. /\ worker.task \in Tasks
        /\ state[worker.task] = "running"
        /\ \A t \in Tasks : t # worker.task => state'[t] = state[t]
        /\ state'[worker.task] = "done"
        /\ worker'.cancels = worker.cancels
        /\ worker'.task = worker.task
        /\ worker.at = "operating"
        /\ linked' = linked /\ tasks' = tasks /\ disposer' = disposer
        /\ disposed' = disposed
    BY <1>6, <1>t DEF OperationEnds, Operating, Typed, WorkerMatches
  <2>2. \A t \in Tasks : t # worker.task => LockFree(t)'
    BY <2>1 DEF LockFree
  <2> QED  BY <1>t, <2>1, <2>2 DEF CallbackInv, Typed
<1>7. CASE OnCompletion
  <2>1. /\ state' = state /\ worker'.cancels = worker.cancels
        /\ worker.at = "completing"
        /\ state[worker.task] = "done"
        /\ worker'.at = "releasing"
        /\ linked' = linked /\ disposer' = disposer /\ disposed' = disposed
        /\ tasks' \subseteq tasks
        /\ \A t \in tasks : t # worker.task => t \in tasks'
    BY <1>7, <1>t DEF OnCompletion, Typed, WorkerMatches
  <2>2. \A t \in Tasks : LockFree(t)'
    BY <2>1 DEF LockFree
  <2> QED  BY <1>t, <2>1, <2>2 DEF CallbackInv, Typed
<1>8. CASE Release
  <2>1. /\ state' = state /\ worker'.cancels = worker.cancels
        /\ worker'.at = "idle"
        /\ linked' = linked /\ tasks' = tasks /\ disposer' = disposer
        /\ disposed' = disposed
    BY <1>8, <1>t DEF Release, Typed
  <2>2. \A t \in Tasks : LockFree(t)'
    BY <2>1 DEF LockFree
  <2> QED  BY <1>t, <2>1, <2>2 DEF CallbackInv, Typed
<1>9. CASE TakeTables
  <2>1. /\ disposer.took = {} /\ disposer.awaits = NoTask
        /\ disposer'.took = tasks /\ disposer'.awaits = NoTask
        /\ disposer'.at = "cancelling"
        /\ disposed' = TRUE /\ tasks' = {}
        /\ state' = state /\ linked' = linked /\ worker' = worker
    BY <1>9, <1>t DEF TakeTables, Typed, CallbackInv
  <2>2. \A u \in Tasks : LockFree(u)' = LockFree(u)
    BY <2>1 DEF LockFree
  <2> QED  BY <1>t, <2>1, <2>2 DEF CallbackInv, Typed
<1>10. ASSUME NEW t \in Tasks, CancelTaken(t) PROVE CallbackInv'
  <2>1. /\ disposer.at = "cancelling" /\ disposer'.at = "cancelling"
        /\ disposer'.took = disposer.took /\ disposer'.awaits = t
        /\ LockFree(t)
        /\ \A u \in Tasks : u # t => state'[u] = state[u]
        /\ worker' = worker /\ disposed' = disposed /\ tasks' = tasks
    BY <1>10, <1>t DEF CancelTaken, CancelTask, Typed
  <2>2. /\ linked' \subseteq linked
        /\ t \in linked' => state[t] = "done" /\ state'[t] = "done"
    BY <1>10, <1>t DEF CancelTaken, CancelTask, Typed, CallbackInv
  <2>3. \A u \in Tasks : LockFree(u)' = LockFree(u)
    BY <2>1 DEF LockFree
  <2>4. \A u \in linked' : state'[u] \in {"initial", "running", "done"}
    BY <1>t, <2>1, <2>2 DEF CallbackInv, Typed
  <2>5. \A u \in linked' : \/ state'[u] = "done" /\ LockFree(u)'
                           \/ u \in tasks' \/ u \in disposer'.took
                           \/ u = worker'.cancels
    BY <1>t, <2>1, <2>2, <2>3 DEF CallbackInv, Typed
  <2>6. t \in disposer'.took
    BY <1>10, <2>1 DEF CancelTaken
  <2> QED  BY <1>t, <2>1, <2>2, <2>4, <2>5, <2>6 DEF CallbackInv
<1>11. CASE ReleaseTaken
  <2> DEFINE a == disposer.awaits
  <2>1. /\ a \in Tasks
        /\ disposer'.took = disposer.took \ {a}
        /\ disposer'.awaits = NoTask /\ disposer'.at = disposer.at
        /\ LockFree(a) /\ state[a] \in {"cancelled", "done"}
        /\ state' = state /\ linked' = linked /\ worker' = worker
        /\ disposed' = disposed /\ tasks' = tasks
    BY <1>11, <1>t DEF ReleaseTaken, IsComplete, Typed
  <2>2. \A u \in Tasks : LockFree(u)' = LockFree(u)
    BY <2>1 DEF LockFree
  <2>3. a \in linked => state[a] = "done"
    BY <2>1 DEF CallbackInv
  <2> QED  BY <1>t, <2>1, <2>2, <2>3 DEF CallbackInv, Typed
<1>12. CASE EnterRestrictedMode \/ EnterDisposedMode \/ DisposeReturns
  <2>1. /\ disposer'.took = disposer.took
        /\ disposer'.awaits = disposer.awaits
        /\ state' = state /\ linked' = linked /\ worker' = worker
        /\ disposed' = disposed /\ tasks' = tasks
    BY <1>12, <1>t DEF EnterRestrictedMode, EnterDisposedMode, DisposeReturns,
                       DisposerGoes, Typed
  <2>2. \A u \in Tasks : LockFree(u)' = LockFree(u)
    BY <2>1 DEF LockFree
  <2>3. \/ disposer'.at \in {"restricted", "disposing"}
               /\ disposer.at # "cancelling"
        \/ /\ disposer'.at = "disposed" /\ disposer.at = "cancelling"
           /\ disposer.took = {}
    BY <1>12, <1>t DEF EnterRestrictedMode, EnterDisposedMode, DisposeReturns,
                       DisposerGoes, Typed
  <2>4. disposer'.at # "cancelling" =>
            disposer.awaits = NoTask /\ disposer.took = {}
    BY <2>3 DEF CallbackInv
  <2> QED  BY <1>t, <2>1, <2>2, <2>3, <2>4 DEF CallbackInv, Typed
<1>13. CASE Dispatch \/ UNCHANGED execVars \/ \E t \in Delayed : TimerIsDue(t)
  <2>1. /\ state' = state /\ linked' = linked /\ worker' = worker
        /\ disposed' = disposed /\ tasks' = tasks /\ disposer' = disposer
    BY <1>13 DEF Dispatch, execVars, TimerIsDue
  <2>2. \A u \in Tasks : LockFree(u)' = LockFree(u)
    BY <2>1 DEF LockFree
  <2> QED  BY <1>t, <2>1, <2>2 DEF CallbackInv, Typed
<1> QED
  BY <1>1, <1>2, <1>3, <1>4, <1>5, <1>6, <1>7, <1>8, <1>9, <1>10, <1>11,
     <1>12, <1>13
     DEF ExecNext, WorkerNext, DisposerNext, Enqueue, ScheduleTimer, Tasks

LEMMA CallbackInductive == ExecSpec => []CallbackInv
<1>1. ExecInit => CallbackInv
  BY NoTaskApart DEF ExecInit, CallbackInv
<1> QED  BY <1>1, ExecutorTyped, CallbackInvStep, PTL DEF ExecSpec

(* When Dispose has returned, a task that still runs has cancelled itself  *)
(* and makes no callback to the executor (Task::Cancel).                   *)
THEOREM ExecutorNotCalledBack == ExecSpec => []NoCallbackAfterDispose
<1>1. CallbackInv => NoCallbackAfterDispose
  BY DEF CallbackInv, NoCallbackAfterDispose
<1> QED  BY <1>1, CallbackInductive, PTL

-----------------------------------------------------------------------------
(* An operation executes before Dispose returns, or not at all             *)

(* What the caller of Dispose has done to the queue, as it goes along.     *)
ModeInv ==
    /\ mode \in {"running", "restricted", "disposed"}
    /\ disposer.at # "away" => mode # "running"
    /\ disposer.at \in {"restricted", "waiting"} => mode = "restricted"
    /\ disposer.at \in {"disposing", "cancelling", "disposed"} =>
           mode = "disposed" /\ adding = NoTask
    /\ disposed => disposer.at \in {"cancelling", "disposed"}

(* TerminateInternal begins before Dispose goes on; from then on no timer  *)
(* is scheduled, and the task that runs is one that Dispose will await.    *)
TerminateInv ==
    /\ disposer.at \in {"away", "restricted"} => state[Terminate] = "none"
    /\ disposer.at = "waiting" =>
           state[Terminate] \in {"initial", "running", "done"}
    /\ disposer.at \in {"disposing", "cancelling", "disposed"} =>
           state[Terminate] \in {"none", "running", "done"}
    /\ state[Terminate] = "done" =>
           \A t \in Delayed \ cancelled : state[t] \in {"none", "refused"}
    /\ state[Terminate] \in {"running", "done"} /\ worker.at = "operating" =>
           worker.task \in tasks \cup disposer.took
    /\ \A t \in Tasks : state[t] = "initial" =>
           t \in tasks \cup disposer.took \cup {worker.cancels}
    /\ disposer.awaits # NoTask => state[disposer.awaits] # "initial"

PromiseInv == ModeInv /\ TerminateInv

LEMMA PromiseInvInit == ExecInit => PromiseInv
<1> SUFFICES ASSUME ExecInit PROVE PromiseInv
  OBVIOUS
<1>1. \A t \in Tasks : state[t] = "none"
  BY DEF ExecInit
<1>2. Terminate \in Tasks
  BY DEF Tasks
<1> QED  BY <1>1, <1>2 DEF ExecInit, PromiseInv, ModeInv, TerminateInv

(* A task is registered: nothing but TerminateInternal once Dispose has    *)
(* begun.                                                                  *)
LEMMA PromiseInvRegister ==
    ASSUME NEW t \in Tasks, EnqueueInv, CallbackInv, PromiseInv, Register(t),
           \/ t # Terminate /\ disposer' = disposer
           \/ /\ t = Terminate /\ disposer.at = "restricted"
              /\ disposer'.at = "waiting" /\ disposer'.took = disposer.took
              /\ disposer'.awaits = disposer.awaits
    PROVE  PromiseInv'
<1> USE NoTaskApart DEF PromiseInv
<1>1. /\ state[t] = "none"
      /\ \A u \in Tasks : u # t => state'[u] = state[u]
      /\ UNCHANGED <<mode, disposed, worker, cancelled>>
      /\ Terminate \in Tasks
  BY DEF EnqueueInv, Typed, Register, Tasks
<1>2. \/ /\ Accepts(t) /\ ~disposed /\ state'[t] = "initial"
         /\ tasks' = tasks \cup {t} /\ adding' = t
      \/ /\ ~(Accepts(t) /\ ~disposed) /\ state'[t] = "refused"
         /\ tasks' = tasks /\ adding' = adding
  BY DEF EnqueueInv, Typed, Register
<1>3. disposer'.took = disposer.took /\ disposer'.awaits = disposer.awaits
  OBVIOUS
<1>4. t = Terminate => state'[t] = "initial"
  BY <1>2 DEF ModeInv, Accepts
<1>5. state[Terminate] # "none" => mode # "running"
  BY DEF TerminateInv, ModeInv, EnqueueInv, Typed, Stages
<1>6. t # Terminate /\ mode # "running" => state'[t] = "refused"
  BY <1>2 DEF Accepts
<1>7. ModeInv'
  <2>1. adding' = adding \/ mode # "disposed"
    BY <1>2 DEF Accepts, ModeInv
  <2> QED  BY <1>1, <2>1 DEF ModeInv
<1>8. TerminateInv'
  <2>1. /\ disposer'.at \in {"away", "restricted"} => state'[Terminate] = "none"
        /\ disposer'.at = "waiting" =>
              state'[Terminate] \in {"initial", "running", "done"}
        /\ disposer'.at \in {"disposing", "cancelling", "disposed"} =>
              state'[Terminate] \in {"none", "running", "done"}
    BY <1>1, <1>4 DEF TerminateInv
  <2>2. state'[Terminate] = "done" =>
           \A u \in Delayed \ cancelled' : state'[u] \in {"none", "refused"}
    <3>1. state'[Terminate] = "done" => state[Terminate] = "done" /\ t # Terminate
      BY <1>1, <1>4
    <3> QED  BY <1>1, <1>5, <1>6, <3>1 DEF TerminateInv
  <2>3. state'[Terminate] \in {"running", "done"} /\ worker'.at = "operating" =>
           worker'.task \in tasks' \cup disposer'.took
    <3>1. state'[Terminate] \in {"running", "done"} =>
             state[Terminate] = state'[Terminate]
      BY <1>1, <1>4
    <3> QED  BY <1>1, <1>2, <1>3, <3>1 DEF TerminateInv
  <2>4. \A u \in Tasks : state'[u] = "initial" =>
           u \in tasks' \cup disposer'.took \cup {worker'.cancels}
    BY <1>1, <1>2, <1>3 DEF TerminateInv
  <2>5. disposer'.awaits # NoTask => state'[disposer'.awaits] # "initial"
    <3>1. disposer.awaits # NoTask => disposed /\ disposer.awaits \in Tasks
      BY DEF CallbackInv, EnqueueInv, Typed
    <3> QED  BY <1>1, <1>2, <1>3, <3>1 DEF TerminateInv
  <2> QED  BY <2>1, <2>2, <2>3, <2>4, <2>5 DEF TerminateInv
<1> QED  BY <1>7, <1>8

LEMMA PromiseInvStep ==
    EnqueueInv /\ CallbackInv /\ PromiseInv /\ [ExecNext]_execVars => PromiseInv'
<1> SUFFICES ASSUME EnqueueInv, CallbackInv, PromiseInv, [ExecNext]_execVars
             PROVE  PromiseInv'
  OBVIOUS
<1> USE NoTaskApart DEF tableVars, dispatchVars, taskVars
<1>t. /\ Typed /\ WorkerMatches /\ Dispatched /\ ModeInv /\ TerminateInv
      /\ Terminate \in Tasks /\ Terminate \notin Delayed
  BY TaskAssumption DEF EnqueueInv, PromiseInv, Tasks
<1>1. ASSUME NEW t \in Immediate \cup Delayed, Register(t), UNCHANGED disposer
      PROVE  PromiseInv'
  <2>1. t \in Tasks /\ t # Terminate
    BY TaskAssumption DEF Tasks
  <2> QED  BY <1>1, <2>1, PromiseInvRegister
<1>2. CASE EnqueueTerminate
  <2>1. /\ disposer.at = "restricted"
        /\ disposer' = [disposer EXCEPT !.at = "waiting"]
    BY <1>2 DEF EnqueueTerminate, DisposerGoes
  <2>2. /\ disposer'.took = disposer.took
        /\ disposer'.awaits = disposer.awaits
        /\ disposer'.at = "waiting"
    BY <1>t, <2>1 DEF Typed
  <2> QED  BY <1>2, <1>t, <2>1, <2>2, PromiseInvRegister DEF EnqueueTerminate
<1>3. CASE Begin
  <2> DEFINE t == Head(queue)
  <2>1. t \in Tasks /\ worker.cancels = NoTask /\ worker'.cancels = NoTask
    <3>1. t \in Tasks
      BY <1>3, <1>t DEF Begin, Dispatched
    <3>2. worker.cancels = NoTask
      BY <1>3, <1>t DEF Begin, WorkerMatches
    <3>3. worker'.cancels = worker.cancels
      BY <1>3, <1>t DEF Begin, Typed
    <3> QED  BY <3>1, <3>2, <3>3
  <2>2. UNCHANGED <<mode, adding, disposed, tasks, disposer, cancelled>>
    BY <1>3 DEF Begin
  <2>3. CASE state[t] = "initial"
    <3>1. /\ state' = [state EXCEPT ![t] = "running"]
          /\ worker'.at = "operating" /\ worker'.task = t
      BY <1>3, <1>t, <2>3 DEF Begin, Typed
    <3>2. t \in tasks \cup disposer.took
      BY <1>t, <2>1, <2>3 DEF TerminateInv
    <3>3. /\ state'[t] = "running"
          /\ \A u \in Tasks : u # t => state'[u] = state[u]
      BY <1>t, <2>1, <3>1 DEF Typed
    <3>4. disposer.awaits \in Tasks \cup {NoTask}
      BY <1>t DEF Typed
    <3>5. TerminateInv'
      <4>1. /\ disposer.at \in {"away", "restricted"} => t # Terminate
            /\ disposer.at \in {"disposing", "cancelling", "disposed"} => t # Terminate
        BY <1>t, <2>3 DEF TerminateInv
      <4>2. state'[Terminate] = "done" =>
               \A u \in Delayed \ cancelled : state'[u] \in {"none", "refused"}
        BY <1>t, <2>3, <3>3 DEF TerminateInv
      <4>3. \A u \in Tasks : state'[u] = "initial" => state[u] = "initial"
        BY <3>3
      <4> HIDE DEF t
      <4> QED  BY <1>t, <2>1, <2>2, <3>1, <3>2, <3>3, <3>4, <4>1, <4>2, <4>3 DEF TerminateInv
    <3> QED  BY <1>t, <2>2, <3>5 DEF PromiseInv, ModeInv
  <2>4. CASE state[t] # "initial"
    <3>1. state' = state /\ worker'.at = "releasing"
      BY <1>3, <1>t, <2>4 DEF Begin, Typed
    <3> QED  BY <1>t, <2>1, <2>2, <3>1 DEF PromiseInv, ModeInv, TerminateInv
  <2> QED  BY <2>3, <2>4
<1>4. ASSUME NEW t \in Delayed, CancelTimer(t) PROVE PromiseInv'
  <2>1. /\ UNCHANGED <<mode, adding, disposed, state, disposer>>
        /\ worker.cancels = NoTask
        /\ worker'.at = worker.at /\ worker'.task = worker.task
        /\ worker.at = "operating"
        /\ t \notin cancelled /\ state[t] \notin {"none", "refused"}
        /\ \/ /\ tasks' = tasks \ {t} /\ worker'.cancels = t
              /\ cancelled' = cancelled
           \/ /\ tasks' = tasks /\ worker'.cancels = NoTask
              /\ cancelled' = cancelled \cup {t}
    BY <1>4, <1>t DEF CancelTimer, Operating, Typed
  <2>2. state[Terminate] # "done"
    BY <1>t, <2>1 DEF TerminateInv
  <2>3. state[Terminate] = "running" => worker.task # t
    BY <1>t DEF WorkerMatches
  <2> QED  BY <1>t, <2>1, <2>2, <2>3 DEF PromiseInv, ModeInv, TerminateInv
<1>5. CASE CancelReturns
  <2> DEFINE c == worker.cancels
  <2>1. /\ c \in Delayed /\ c \in Tasks /\ c # Terminate
        /\ worker'.cancels = NoTask
        /\ worker'.at = worker.at /\ worker'.task = worker.task
        /\ cancelled' = cancelled \cup {c}
        /\ UNCHANGED <<mode, adding, disposed, tasks, disposer>>
    BY <1>5, <1>t DEF CancelReturns, Typed
  <2>2. /\ \A t \in Tasks : t # c => state'[t] = state[t]
        /\ state'[c] # "initial"
    BY <1>5, <1>t, <2>1 DEF CancelReturns, CancelTask, Typed
  <2>3. disposer.awaits \in Tasks \cup {NoTask}
    BY <1>t DEF Typed
  <2> HIDE DEF c
  <2>4. TerminateInv'
    <3>1. state'[Terminate] = state[Terminate]
      BY <1>t, <2>1, <2>2
    <3>2. \A u \in Tasks : state'[u] = "initial" => state[u] = "initial" /\ u # c
      BY <2>2
    <3>3. \A u \in Tasks : state'[u] = "initial" =>
             u \in tasks \cup disposer.took \cup {NoTask}
      BY <1>t, <3>2 DEF TerminateInv, c
    <3> QED  BY <1>t, <2>1, <2>2, <2>3, <3>1, <3>3 DEF TerminateInv
  <2> QED  BY <1>t, <2>1, <2>4 DEF PromiseInv, ModeInv
<1>6. CASE OperationEnds
  <2> DEFINE w == worker.task
  <2>1. /\ w \in Tasks /\ state[w] = "running"
        /\ \A u \in Tasks : u # w => state'[u] = state[u]
        /\ state'[w] = "done"
        /\ worker'.at = "completing" /\ worker'.cancels = worker.cancels
        /\ UNCHANGED <<mode, adding, disposed, tasks, disposer, cancelled>>
    BY <1>6, <1>t DEF OperationEnds, Operating, Typed, WorkerMatches
  <2>2. w = Terminate =>
           \A u \in Delayed \ cancelled : state[u] \in {"none", "refused"}
    BY <1>6 DEF OperationEnds
  <2>3. state'[Terminate] = "done" =>
           \A u \in Delayed \ cancelled : state'[u] \in {"none", "refused"}
    BY <1>t, <2>1, <2>2 DEF TerminateInv
  <2>4. disposer.awaits \in Tasks \cup {NoTask}
    BY <1>t DEF Typed
  <2> HIDE DEF w
  <2>5. \A u \in Tasks : state'[u] = "initial" => state[u] = "initial"
    BY <2>1
  <2>6. \/ state'[Terminate] = state[Terminate]
        \/ state[Terminate] = "running" /\ state'[Terminate] = "done"
    BY <1>t, <2>1
  <2>7. TerminateInv'
    BY <1>t, <2>1, <2>3, <2>4, <2>5, <2>6 DEF TerminateInv
  <2> QED  BY <1>t, <2>1, <2>7 DEF PromiseInv, ModeInv
<1>7. CASE OnCompletion
  <2>1. /\ state[worker.task] = "done"
        /\ worker'.at = "releasing" /\ worker'.cancels = worker.cancels
        /\ \A t \in tasks : t # worker.task => t \in tasks'
        /\ UNCHANGED <<mode, adding, disposed, state, disposer, cancelled>>
    BY <1>7, <1>t DEF OnCompletion, Typed, WorkerMatches
  <2>2. \A t \in tasks : state[t] = "initial" => t \in tasks'
    BY <2>1
  <2> QED  BY <1>t, <2>1, <2>2 DEF PromiseInv, ModeInv, TerminateInv
<1>8. CASE Release
  <2>1. /\ worker'.at = "idle" /\ worker'.cancels = worker.cancels
        /\ UNCHANGED <<mode, adding, disposed, tasks, state, disposer, cancelled>>
    BY <1>8, <1>t DEF Release, Typed
  <2> QED  BY <1>t, <2>1 DEF PromiseInv, ModeInv, TerminateInv
<1>9. CASE EnterRestrictedMode
  <2>1. /\ disposer.at = "away" /\ mode' = "restricted" /\ disposer'.at = "restricted"
        /\ disposer'.took = disposer.took /\ disposer'.awaits = disposer.awaits
        /\ UNCHANGED <<adding, disposed, tasks, state, worker, cancelled>>
    BY <1>9, <1>t DEF EnterRestrictedMode, DisposerGoes, Typed
  <2> QED  BY <1>t, <2>1 DEF PromiseInv, ModeInv, TerminateInv
<1>10. CASE EnterDisposedMode
  <2>1. /\ disposer.at = "away" \/ (disposer.at = "waiting" /\ state[Terminate] # "initial")
        /\ adding = NoTask
        /\ mode' = "disposed" /\ disposer'.at = "disposing"
        /\ disposer'.took = disposer.took /\ disposer'.awaits = disposer.awaits
        /\ UNCHANGED <<adding, disposed, tasks, state, worker, cancelled>>
    <3>1. disposer' = [disposer EXCEPT !.at = "disposing"]
      BY <1>10 DEF EnterDisposedMode, DisposerGoes
    <3>2. /\ disposer'.at = "disposing"
          /\ disposer'.took = disposer.took /\ disposer'.awaits = disposer.awaits
      BY <1>t, <3>1 DEF Typed
    <3>3. /\ disposer.at = "away" \/ (disposer.at = "waiting" /\ state[Terminate] # "initial")
          /\ adding = NoTask /\ mode' = "disposed"
      BY <1>10 DEF EnterDisposedMode
    <3>4. UNCHANGED <<adding, disposed, tasks, state, worker, cancelled>>
      BY <1>10 DEF EnterDisposedMode
    <3> QED  BY <3>2, <3>3, <3>4
  <2> QED  BY <1>t, <2>1 DEF PromiseInv, ModeInv, TerminateInv
<1>11. CASE TakeTables
  <2>1. /\ disposer.took = {} /\ disposer.awaits = NoTask
        /\ disposer'.took = tasks /\ disposer'.awaits = NoTask
        /\ disposer.at = "disposing" /\ disposer'.at = "cancelling"
        /\ disposed' = TRUE /\ tasks' = {}
        /\ UNCHANGED <<mode, adding, state, worker, cancelled>>
    BY <1>11, <1>t DEF TakeTables, Typed, CallbackInv
  <2> QED  BY <1>t, <2>1 DEF PromiseInv, ModeInv, TerminateInv
<1>12. ASSUME NEW t \in Tasks, CancelTaken(t) PROVE PromiseInv'
  <2>1. /\ disposer.at = "cancelling" /\ disposer'.at = "cancelling"
        /\ disposer'.took = disposer.took /\ disposer'.awaits = t
        /\ state'[t] = IF state[t] = "initial" THEN "cancelled" ELSE state[t]
        /\ \A u \in Tasks : u # t => state'[u] = state[u]
        /\ UNCHANGED <<mode, adding, disposed, tasks, worker, cancelled>>
    BY <1>12, <1>t DEF CancelTaken, CancelTask, Typed
  <2>2. state[Terminate] # "initial"
    BY <1>t, <2>1 DEF TerminateInv
  <2>3. state'[Terminate] = state[Terminate]
    BY <1>t, <2>1, <2>2
  <2>4. \A u \in Delayed : state[u] \in {"none", "refused"} =>
           state'[u] \in {"none", "refused"}
    BY <1>t, <2>1
  <2> QED  BY <1>t, <2>1, <2>3, <2>4 DEF PromiseInv, ModeInv, TerminateInv
<1>13. CASE ReleaseTaken
  <2> DEFINE a == disposer.awaits
  <2>1. /\ a \in Tasks
        /\ disposer'.took = disposer.took \ {a}
        /\ disposer'.awaits = NoTask /\ disposer'.at = disposer.at
        /\ state[a] \in {"cancelled", "done"}
        /\ UNCHANGED <<mode, adding, disposed, tasks, state, worker, cancelled>>
    BY <1>13, <1>t DEF ReleaseTaken, IsComplete, Typed
  <2>2. worker.at = "operating" => worker.task # a
    BY <1>t, <2>1 DEF WorkerMatches
  <2> QED  BY <1>t, <2>1, <2>2 DEF PromiseInv, ModeInv, TerminateInv
<1>14. CASE DisposeReturns
  <2>1. /\ disposer.at = "cancelling" /\ disposer'.at = "disposed"
        /\ disposer'.took = disposer.took /\ disposer'.awaits = disposer.awaits
        /\ UNCHANGED <<mode, adding, disposed, tasks, state, worker, cancelled>>
    BY <1>14, <1>t DEF DisposeReturns, DisposerGoes, Typed
  <2> QED  BY <1>t, <2>1 DEF PromiseInv, ModeInv, TerminateInv
<1>15. CASE Dispatch \/ UNCHANGED execVars \/ \E t \in Delayed : TimerIsDue(t)
  <2>1. /\ adding' \in {adding, NoTask}
        /\ UNCHANGED <<mode, disposed, tasks, state, worker, disposer, cancelled>>
    BY <1>15 DEF Dispatch, execVars, TimerIsDue
  <2> QED  BY <1>t, <2>1 DEF PromiseInv, ModeInv, TerminateInv
<1> QED
  BY <1>1, <1>2, <1>3, <1>4, <1>5, <1>6, <1>7, <1>8, <1>9, <1>10, <1>11,
     <1>12, <1>13, <1>14, <1>15
     DEF ExecNext, WorkerNext, DisposerNext, Enqueue, ScheduleTimer

LEMMA PromiseInductive == ExecSpec => []PromiseInv
BY PromiseInvInit, PromiseInvStep, ExecutorTyped, CallbackInductive, PTL
   DEF ExecSpec

(* The promise of AsyncQueue::Wrap, once FirestoreClient has given the     *)
(* queue its last operation: when Dispose has returned no operation runs   *)
(* and none will begin, whatever timers were due, cancelled themselves or  *)
(* were cancelled by TerminateInternal.                                    *)
THEOREM ExecutorKeepsPromise == ExecSpec => []ExecutesBeforeDisposeOrNotAtAll
<1>1. EnqueueInv /\ CallbackInv /\ PromiseInv => ExecutesBeforeDisposeOrNotAtAll
  <2> SUFFICES ASSUME EnqueueInv, CallbackInv, PromiseInv,
                      disposer.at = "disposed", state[Terminate] # "none"
               PROVE  worker.at # "operating" /\ \A t \in Tasks : state[t] # "initial"
    BY DEF ExecutesBeforeDisposeOrNotAtAll
  <2>1. tasks = {} /\ disposer.took = {}
    BY DEF CallbackInv
  <2>2. state[Terminate] \in {"running", "done"}
    BY DEF PromiseInv, TerminateInv
  <2>3. worker.at # "operating"
    BY <2>1, <2>2 DEF PromiseInv, TerminateInv
  <2>4. worker.cancels = NoTask
    BY <2>3 DEF EnqueueInv, WorkerMatches
  <2> QED  BY <2>1, <2>3, <2>4, NoTaskApart DEF PromiseInv, TerminateInv
<1> QED
  BY <1>1, ExecutorTyped, CallbackInductive, PromiseInductive, PTL

-----------------------------------------------------------------------------
(* Tasks are deleted when their last owner has done with them              *)

InQueue(t) == \E i \in DOMAIN queue : queue[i] = t

(* A task is on its way through libdispatch at one place only, and nobody  *)
(* but the tables owns one that is being enqueued.                         *)
ShareInv ==
    /\ \A t \in Tasks : state[t] \in {"none", "refused"} => Shares(t) = {}
    /\ schedule \subseteq tasks
    /\ \A i, j \in DOMAIN queue : queue[i] = queue[j] => i = j
    /\ \A t \in timers : ~InQueue(t) /\ worker.task # t
    /\ \A t \in Tasks : InQueue(t) => worker.task # t
    /\ worker.cancels \notin tasks \cup disposer.took
    /\ adding # NoTask => Shares(adding) = {"tables"}
    /\ adding \in Delayed => worker.cancels = NoTask

Counted == refs \in [Tasks -> Nat] /\ OwnersAreCounted

(* All that the steps below need of the other invariants.                  *)
SharesInv == EnqueueInv /\ CallbackInv /\ PromiseInv /\ ShareInv /\ Counted

Owners == {"tables", "timer", "queue", "worker", "canceller", "disposer"}

LEMMA SharesFinite == \A t : IsFiniteSet(Shares(t)) /\ Shares(t) \subseteq Owners
<1>1. IsFiniteSet(Owners)
  <2>1. /\ IsFiniteSet({"tables"}) /\ IsFiniteSet({"timer"}) /\ IsFiniteSet({"queue"})
        /\ IsFiniteSet({"worker"}) /\ IsFiniteSet({"canceller"}) /\ IsFiniteSet({"disposer"})
    BY FS_Singleton
  <2>2. IsFiniteSet({"tables"} \cup {"timer"} \cup {"queue"} \cup {"worker"}
                    \cup {"canceller"} \cup {"disposer"})
    BY <2>1, FS_Union
  <2>3. Owners = {"tables"} \cup {"timer"} \cup {"queue"} \cup {"worker"}
                    \cup {"canceller"} \cup {"disposer"}
    BY DEF Owners
  <2> QED  BY <2>2, <2>3
<1>2. \A t : Shares(t) \subseteq Owners
  BY DEF Shares, Owners
<1> QED  BY <1>1, <1>2, FS_Subset

(* A task gets one owner more.                                             *)
LEMMA OwnerMore ==
    ASSUME Counted, NEW t \in Tasks, NEW s, s \notin Shares(t),
           Shares(t)' = Shares(t) \cup {s},
           \A u \in Tasks : u # t => Shares(u)' = Shares(u),
           refs' = Retained(t)
    PROVE  Counted'
<1>1. /\ Cardinality(Shares(t)') = Cardinality(Shares(t)) + 1
      /\ refs[t] = Cardinality(Shares(t)) /\ refs[t] \in Nat
  BY SharesFinite, FS_AddElement DEF Counted, OwnersAreCounted
<1>2. /\ refs' \in [Tasks -> Nat] /\ refs'[t] = refs[t] + 1
      /\ \A u \in Tasks : u # t => refs'[u] = refs[u]
  BY <1>1 DEF Counted, Retained
<1>3. ASSUME NEW u \in Tasks
      PROVE  refs'[u] = Cardinality(Shares(u)')
  <2>1. CASE u = t
    BY <1>1, <1>2, <2>1
  <2>2. CASE u # t
    BY <1>2, <2>2 DEF Counted, OwnersAreCounted
  <2> QED  BY <2>1, <2>2
<1> QED  BY <1>2, <1>3 DEF Counted, OwnersAreCounted

(* An owner of a task has done with it.                                    *)
LEMMA OwnerLess ==
    ASSUME Counted, NEW t \in Tasks, NEW s, s \in Shares(t),
           Shares(t)' = Shares(t) \ {s},
           \A u \in Tasks : u # t => Shares(u)' = Shares(u),
           refs' = Released(t)
    PROVE  Counted'
<1>1. /\ Cardinality(Shares(t)') = Cardinality(Shares(t)) - 1
      /\ refs[t] = Cardinality(Shares(t)) /\ refs[t] \in Nat
  BY SharesFinite, FS_RemoveElement DEF Counted, OwnersAreCounted
<1>2. Cardinality(Shares(t)') \in Nat
  <2>1. IsFiniteSet(Shares(t) \ {s})
    BY SharesFinite, FS_Subset
  <2> QED  BY <2>1, FS_CardinalityType
<1>3. /\ refs' \in [Tasks -> Nat] /\ refs'[t] = refs[t] - 1
      /\ \A u \in Tasks : u # t => refs'[u] = refs[u]
  BY <1>1, <1>2 DEF Counted, Released
<1>4. ASSUME NEW u \in Tasks
      PROVE  refs'[u] = Cardinality(Shares(u)')
  <2>1. CASE u = t
    BY <1>1, <1>3, <2>1
  <2>2. CASE u # t
    BY <1>3, <2>2 DEF Counted, OwnersAreCounted
  <2> QED  BY <2>1, <2>2
<1> QED  BY <1>3, <1>4 DEF Counted, OwnersAreCounted

(* A share passes from one owner to another.                               *)
LEMMA OwnerChanges ==
    ASSUME Counted, refs' = refs,
           \A u \in Tasks : \/ Shares(u)' = Shares(u)
                            \/ \E s \in Shares(u), r \in Owners :
                                  /\ r \notin Shares(u)
                                  /\ Shares(u)' = (Shares(u) \ {s}) \cup {r}
    PROVE  Counted'
<1>1. ASSUME NEW u \in Tasks
      PROVE  Cardinality(Shares(u)') = Cardinality(Shares(u))
  <2>1. CASE Shares(u)' = Shares(u)
    BY <2>1
  <2>2. ASSUME NEW s \in Shares(u), NEW r \in Owners, r \notin Shares(u),
               Shares(u)' = (Shares(u) \ {s}) \cup {r}
        PROVE  Cardinality(Shares(u)') = Cardinality(Shares(u))
    <3>1. /\ IsFiniteSet(Shares(u)) /\ Cardinality(Shares(u)) \in Nat
      BY SharesFinite, FS_CardinalityType
    <3>2. /\ IsFiniteSet(Shares(u) \ {s})
          /\ Cardinality(Shares(u) \ {s}) = Cardinality(Shares(u)) - 1
      BY <3>1, FS_RemoveElement
    <3>3. r \notin Shares(u) \ {s}
      BY <2>2
    <3>4. Cardinality((Shares(u) \ {s}) \cup {r}) = Cardinality(Shares(u) \ {s}) + 1
      BY <3>2, <3>3, FS_AddElement
    <3> QED  BY <2>2, <3>1, <3>2, <3>4
  <2> QED  BY <1>1, <2>1, <2>2
<1> QED  BY <1>1 DEF Counted, OwnersAreCounted

(* Who owns a task, before a step and after it.                            *)
LEMMA SharesMembers ==
    \A t : /\ "tables" \in Shares(t) <=> t \in tasks
           /\ "timer" \in Shares(t) <=> t \in timers
           /\ "queue" \in Shares(t) <=> InQueue(t)
           /\ "worker" \in Shares(t) <=> worker.task = t
           /\ "canceller" \in Shares(t) <=> worker.cancels = t
           /\ "disposer" \in Shares(t) <=> t \in disposer.took
BY DEF Shares, InQueue

LEMMA SharesOfNext ==
    ASSUME NEW t, NEW S \in SUBSET Owners,
           "tables" \in S <=> t \in tasks',
           "timer" \in S <=> t \in timers',
           "queue" \in S <=> InQueue(t)',
           "worker" \in S <=> worker'.task = t,
           "canceller" \in S <=> worker'.cancels = t,
           "disposer" \in S <=> t \in disposer'.took
    PROVE  Shares(t)' = S
BY DEF Shares, InQueue, Owners

(* A task in the tables, and at one more place or none.                    *)
LEMMA SharesAdded ==
    ASSUME NEW t, t \in tasks', worker'.task # t, worker'.cancels # t,
           t \notin disposer'.took
    PROVE  /\ t \notin timers' /\ ~InQueue(t)' => Shares(t)' = {"tables"}
           /\ t \in timers' /\ ~InQueue(t)' => Shares(t)' = {"tables", "timer"}
           /\ t \notin timers' /\ InQueue(t)' => Shares(t)' = {"tables", "queue"}
BY DEF Shares, InQueue

LEMMA SharesKept ==
    ASSUME NEW t, t \in tasks' <=> t \in tasks, t \in timers' <=> t \in timers,
           InQueue(t)' <=> InQueue(t), worker'.task = t <=> worker.task = t,
           worker'.cancels = t <=> worker.cancels = t,
           t \in disposer'.took <=> t \in disposer.took
    PROVE  Shares(t)' = Shares(t)
BY DEF Shares, InQueue

(* The dispatch queue gets a task at its end, or loses its head.           *)
LEMMA QueueGains ==
    ASSUME queue \in Seq(Tasks), NEW t \in Tasks, ~InQueue(t),
           \A i, j \in DOMAIN queue : queue[i] = queue[j] => i = j,
           queue' = Append(queue, t)
    PROVE  /\ \A u : InQueue(u)' <=> InQueue(u) \/ u = t
           /\ \A i, j \in DOMAIN queue' : queue'[i] = queue'[j] => i = j
<1>1. /\ DOMAIN queue = 1 .. Len(queue) /\ Len(queue) \in Nat
      /\ DOMAIN queue' = 1 .. Len(queue) + 1
      /\ queue'[Len(queue) + 1] = t
      /\ \A i \in 1 .. Len(queue) : queue'[i] = queue[i]
  OBVIOUS
<1>2. \A i \in DOMAIN queue' : i \in DOMAIN queue \/ i = Len(queue) + 1
  BY <1>1
<1>3. \A i \in DOMAIN queue : queue[i] # t /\ i \in DOMAIN queue'
  BY <1>1 DEF InQueue
<1>4. Len(queue) + 1 \in DOMAIN queue'
  BY <1>1
<1> QED  BY <1>1, <1>2, <1>3, <1>4 DEF InQueue

LEMMA QueueLoses ==
    ASSUME queue \in Seq(Tasks), queue # <<>>,
           \A i, j \in DOMAIN queue : queue[i] = queue[j] => i = j,
           queue' = Tail(queue)
    PROVE  /\ \A u : InQueue(u)' <=> InQueue(u) /\ u # Head(queue)
           /\ InQueue(Head(queue))
           /\ \A i, j \in DOMAIN queue' : queue'[i] = queue'[j] => i = j
<1>1. /\ DOMAIN queue = 1 .. Len(queue) /\ Len(queue) \in Nat /\ Len(queue) >= 1
      /\ Head(queue) = queue[1]
      /\ DOMAIN queue' = 1 .. Len(queue) - 1
      /\ \A i \in 1 .. Len(queue) - 1 : queue'[i] = queue[i + 1]
  OBVIOUS
<1>2. \A i \in DOMAIN queue' : i + 1 \in DOMAIN queue /\ i + 1 # 1
  BY <1>1
<1>3. \A i \in DOMAIN queue : i # 1 => i - 1 \in DOMAIN queue' /\ (i - 1) + 1 = i
  BY <1>1
<1>4. ASSUME NEW u
      PROVE  InQueue(u)' <=> InQueue(u) /\ u # Head(queue)
  <2>1. ASSUME InQueue(u)' PROVE InQueue(u) /\ u # Head(queue)
    BY <1>1, <1>2, <2>1 DEF InQueue
  <2>2. ASSUME InQueue(u), u # Head(queue) PROVE InQueue(u)'
    BY <1>1, <1>3, <2>2 DEF InQueue
  <2> QED  BY <2>1, <2>2
<1>5. \A i, j \in DOMAIN queue' : queue'[i] = queue'[j] => i = j
  <2> SUFFICES ASSUME NEW i \in DOMAIN queue', NEW j \in DOMAIN queue',
                      queue'[i] = queue'[j]
               PROVE  i = j
    OBVIOUS
  <2>1. i + 1 = j + 1
    BY <1>1, <1>2
  <2> QED  BY <1>1, <2>1
<1> QED  BY <1>1, <1>4, <1>5 DEF InQueue

LEMMA ShareInvInit == ExecInit => ShareInv /\ Counted
<1> SUFFICES ASSUME ExecInit PROVE ShareInv /\ Counted
  OBVIOUS
<1>1. \A t \in Tasks : Shares(t) = {}
  BY NoTaskApart DEF ExecInit, Shares
<1>2. \A t \in Tasks : refs[t] = 0
  BY DEF ExecInit
<1>3. Counted
  BY <1>1, <1>2, FS_EmptySet DEF ExecInit, Counted, OwnersAreCounted
<1>4. ShareInv
  BY <1>1, NoTaskApart DEF ExecInit, ShareInv, InQueue
<1> QED  BY <1>3, <1>4

LEMMA SharesRegister ==
    ASSUME NEW t \in Tasks, SharesInv, Register(t),
           disposer'.took = disposer.took,
           t \in Delayed => worker.cancels = NoTask
    PROVE  ShareInv' /\ Counted'
<1> USE NoTaskApart
<1>i. /\ ShareInv /\ Counted /\ Typed
      /\ state[t] = "none" /\ adding = NoTask
      /\ \A u \in Tasks : u # t => state'[u] = state[u]
      /\ UNCHANGED <<timers, queue, worker>>
  BY DEF SharesInv, EnqueueInv, Typed, Register, dispatchVars
<1>1. Shares(t) = {}
  BY <1>i DEF ShareInv
<1>2. /\ t \notin tasks /\ t \notin timers /\ ~InQueue(t) /\ worker.task # t
      /\ worker.cancels # t /\ t \notin disposer.took
  BY <1>1, SharesMembers
<1>3. CASE Accepts(t) /\ ~disposed
  <2>1. /\ adding' = t /\ state'[t] = "initial" /\ refs' = Retained(t)
        /\ tasks' = tasks \cup {t}
        /\ schedule' = schedule \cup ({t} \cap Delayed)
    BY <1>3, <1>i DEF Register, Typed
  <2>2. \A u \in Tasks : u # t => Shares(u)' = Shares(u)
    BY <1>i, <2>1, SharesKept DEF InQueue
  <2>3. Shares(t)' = {"tables"}
    <3>1. /\ t \in tasks' /\ t \notin timers' /\ ~InQueue(t)' /\ worker'.task # t
          /\ worker'.cancels # t /\ t \notin disposer'.took
      BY <1>i, <1>2, <2>1 DEF InQueue
    <3> QED  BY <3>1, SharesAdded
  <2>4. Counted'
    <3>1. "tables" \notin Shares(t) /\ Shares(t)' = Shares(t) \cup {"tables"}
      BY <1>1, <2>3
    <3> QED  BY <1>i, <2>1, <2>2, <3>1, OwnerMore
  <2>5. \A u \in Tasks : state'[u] \in {"none", "refused"} => Shares(u)' = {}
    BY <1>i, <2>1, <2>2 DEF ShareInv
  <2>6. worker'.cancels \notin tasks' \cup disposer'.took
    BY <1>i, <1>2, <2>1 DEF ShareInv
  <2>7. ShareInv'
    BY <1>i, <2>1, <2>3, <2>5, <2>6 DEF ShareInv, InQueue
  <2> QED  BY <2>4, <2>7
<1>4. CASE ~(Accepts(t) /\ ~disposed)
  <2>1. UNCHANGED <<adding, refs, tasks, schedule>>
    BY <1>4 DEF Register
  <2>2. \A u \in Tasks : Shares(u)' = Shares(u)
    BY <1>i, <2>1, SharesKept DEF InQueue
  <2>3. Counted'
    BY <1>i, <2>1, <2>2 DEF Counted, OwnersAreCounted
  <2>4. \A u \in Tasks : state'[u] \in {"none", "refused"} => Shares(u)' = {}
    BY <1>i, <1>1, <2>2 DEF ShareInv
  <2>5. ShareInv'
    BY <1>i, <2>1, <2>4 DEF ShareInv, InQueue
  <2> QED  BY <2>3, <2>5
<1> QED  BY <1>3, <1>4

LEMMA SharesStep == SharesInv /\ [ExecNext]_execVars => ShareInv' /\ Counted'
<1> SUFFICES ASSUME SharesInv, [ExecNext]_execVars PROVE ShareInv' /\ Counted'
  OBVIOUS
<1> USE NoTaskApart DEF tableVars, dispatchVars, taskVars
<1>t. /\ Typed /\ WorkerMatches /\ Dispatched /\ ModeInv /\ TerminateInv
      /\ CallbackInv /\ ShareInv /\ Counted
      /\ Terminate \in Tasks /\ Terminate \notin Delayed
  BY TaskAssumption DEF SharesInv, EnqueueInv, PromiseInv, Tasks
<1>1. ASSUME NEW t \in Immediate \cup Delayed, Register(t), UNCHANGED disposer,
             t \in Delayed => worker.cancels = NoTask
      PROVE  ShareInv' /\ Counted'
  <2>1. t \in Tasks
    BY DEF Tasks
  <2> QED  BY <1>1, <2>1, SharesRegister
<1>2. CASE EnqueueTerminate
  <2>1. disposer' = [disposer EXCEPT !.at = "waiting"]
    BY <1>2 DEF EnqueueTerminate, DisposerGoes
  <2>2. disposer'.took = disposer.took
    BY <1>t, <2>1 DEF Typed
  <2> QED  BY <1>2, <1>t, <2>2, SharesRegister DEF EnqueueTerminate
<1>s. ASSUME \A u \in Tasks : Shares(u)' = Shares(u),
             UNCHANGED <<refs, adding, schedule, tasks, timers, queue>>,
             worker'.task = worker.task, worker'.cancels = worker.cancels,
             disposer'.took = disposer.took,
             \A u \in Tasks : state'[u] \in {"none", "refused"} =>
                                 state[u] \in {"none", "refused"}
      PROVE  ShareInv' /\ Counted'
  <2>1. Counted'
    BY <1>t, <1>s DEF Counted, OwnersAreCounted
  <2>2. adding # NoTask => Shares(adding)' = Shares(adding)
    BY <1>t, <1>s DEF Typed
  <2>3. \A u \in Tasks : state'[u] \in {"none", "refused"} => Shares(u)' = {}
    BY <1>t, <1>s DEF ShareInv
  <2>4. ShareInv'
    BY <1>t, <1>s, <2>2, <2>3 DEF ShareInv, InQueue
  <2> QED  BY <2>1, <2>4
<1>3. CASE Dispatch
  <2>1. PICK a \in Tasks :
           /\ a = adding /\ adding' = NoTask /\ refs' = Retained(a)
           /\ UNCHANGED <<tasks, schedule, state, worker, disposer>>
    BY <1>3, <1>t DEF Dispatch, Typed
  <2>2. Shares(a) = {"tables"}
    BY <1>3, <1>t, <2>1 DEF Dispatch, ShareInv
  <2>3. /\ a \in tasks /\ a \notin timers /\ ~InQueue(a) /\ worker.task # a
        /\ worker.cancels # a /\ a \notin disposer.took
    BY <2>2, SharesMembers
  <2>4. state[a] \notin {"none", "refused"}
    BY <1>t, <2>1, <2>2 DEF ShareInv
  <2>5. CASE a \in Delayed
    <3>1. timers' = timers \cup {a} /\ queue' = queue
      BY <1>3, <2>1, <2>5 DEF Dispatch
    <3>2. \A u \in Tasks : u # a => Shares(u)' = Shares(u)
      BY <2>1, <3>1, SharesKept DEF InQueue
    <3>3. Shares(a)' = {"tables", "timer"}
      <4>1. /\ a \in tasks' /\ a \in timers' /\ ~InQueue(a)' /\ worker'.task # a
            /\ worker'.cancels # a /\ a \notin disposer'.took
        BY <2>1, <2>3, <3>1 DEF InQueue
      <4> QED  BY <4>1, SharesAdded
    <3>4. Counted'
      <4>1. "timer" \notin Shares(a) /\ Shares(a)' = Shares(a) \cup {"timer"}
        BY <2>2, <3>3
      <4> QED  BY <1>t, <2>1, <3>2, <4>1, OwnerMore
    <3>5. \A u \in Tasks : state'[u] \in {"none", "refused"} => Shares(u)' = {}
      BY <1>t, <2>1, <2>4, <3>2 DEF ShareInv
    <3>6. ShareInv'
      <4> QED  BY <1>t, <2>1, <2>3, <3>1, <3>5 DEF ShareInv, InQueue
    <3> QED  BY <3>4, <3>6
  <2>6. CASE a \notin Delayed
    <3>1. timers' = timers /\ queue' = Append(queue, a)
      BY <1>3, <2>1, <2>6 DEF Dispatch
    <3>q. /\ \A u : InQueue(u)' <=> InQueue(u) \/ u = a
          /\ \A i, j \in DOMAIN queue' : queue'[i] = queue'[j] => i = j
      <4>1. /\ queue \in Seq(Tasks)
            /\ \A i, j \in DOMAIN queue : queue[i] = queue[j] => i = j
        BY <1>t DEF Dispatched, ShareInv
      <4> QED  BY <2>1, <2>3, <3>1, <4>1, QueueGains
    <3>2. \A u \in Tasks : u # a => Shares(u)' = Shares(u)
      BY <2>1, <3>1, <3>q, SharesKept
    <3>3. Shares(a)' = {"tables", "queue"}
      <4>1. /\ a \in tasks' /\ a \notin timers' /\ InQueue(a)' /\ worker'.task # a
            /\ worker'.cancels # a /\ a \notin disposer'.took
        BY <2>1, <2>3, <3>1, <3>q
      <4> QED  BY <4>1, SharesAdded
    <3>4. Counted'
      <4>1. "queue" \notin Shares(a) /\ Shares(a)' = Shares(a) \cup {"queue"}
        BY <2>2, <3>3
      <4> QED  BY <1>t, <2>1, <3>2, <4>1, OwnerMore
    <3>5. \A u \in Tasks : state'[u] \in {"none", "refused"} => Shares(u)' = {}
      BY <1>t, <2>1, <2>4, <3>2 DEF ShareInv
    <3>6. ShareInv'
      <4> QED  BY <1>t, <2>1, <2>3, <3>1, <3>q, <3>5 DEF ShareInv
    <3> QED  BY <3>4, <3>6
  <2> QED  BY <2>5, <2>6
<1>4. ASSUME NEW t \in Delayed, TimerIsDue(t) PROVE ShareInv' /\ Counted'
  <2>1. /\ t \in Tasks /\ t \in timers /\ timers' = timers \ {t}
        /\ queue' = Append(queue, t)
        /\ UNCHANGED <<adding, tasks, schedule, state, refs, worker, disposer>>
    BY <1>4 DEF TimerIsDue
  <2>2. ~InQueue(t) /\ worker.task # t
    BY <1>t, <2>1 DEF ShareInv
  <2>q. /\ \A u : InQueue(u)' <=> InQueue(u) \/ u = t
        /\ \A i, j \in DOMAIN queue' : queue'[i] = queue'[j] => i = j
    <3>1. /\ queue \in Seq(Tasks)
          /\ \A i, j \in DOMAIN queue : queue[i] = queue[j] => i = j
      BY <1>t DEF Dispatched, ShareInv
    <3> QED  BY <2>1, <2>2, <3>1, QueueGains
  <2>3. \A u \in Tasks : u # t => Shares(u)' = Shares(u)
    BY <2>1, <2>q, SharesKept
  <2>4. "timer" \in Shares(t) /\ "queue" \notin Shares(t)
    BY <2>1, <2>2, SharesMembers
  <2>5. Shares(t)' = (Shares(t) \ {"timer"}) \cup {"queue"}
    <3> DEFINE S == (Shares(t) \ {"timer"}) \cup {"queue"}
    <3>1. S \in SUBSET Owners
      BY SharesFinite DEF Owners
    <3>2. /\ "tables" \in S <=> t \in tasks' 
          /\ "timer" \in S <=> t \in timers'
          /\ "queue" \in S <=> InQueue(t)'
          /\ "worker" \in S <=> worker'.task = t
          /\ "canceller" \in S <=> worker'.cancels = t
          /\ "disposer" \in S <=> t \in disposer'.took
      BY <2>1, <2>q, SharesMembers
    <3> HIDE DEF S
    <3>3. Shares(t)' = S
      BY <3>1, <3>2, SharesOfNext
    <3> QED  BY <3>3 DEF S
  <2>6. Counted'
    <3>1. "queue" \in Owners
      BY DEF Owners
    <3> QED  BY <1>t, <2>1, <2>3, <2>4, <2>5, <3>1, OwnerChanges
  <2>7. adding # NoTask => Shares(adding)' = {"tables"}
    <3>1. adding # t
      BY <1>t, <2>4 DEF ShareInv
    <3> QED  BY <1>t, <2>1, <2>3, <3>1 DEF ShareInv, Typed
  <2>8. \A u \in Tasks : state'[u] \in {"none", "refused"} => Shares(u)' = {}
    BY <1>t, <2>1, <2>3, <2>4 DEF ShareInv
  <2>9. ShareInv'
    BY <1>t, <2>1, <2>2, <2>q, <2>7, <2>8 DEF ShareInv
  <2> QED  BY <2>6, <2>9
<1>5. CASE Begin
  <2>1. PICK t \in Tasks :
           /\ t = Head(queue) /\ queue # <<>> /\ queue' = Tail(queue)
           /\ worker.at = "idle" /\ worker.task = NoTask /\ worker.cancels = NoTask
           /\ UNCHANGED <<adding, tasks, schedule, timers, refs, disposer>>
    <3>1. Head(queue) \in Tasks
      BY <1>5, <1>t DEF Begin, Dispatched
    <3>2. worker.at = "idle" /\ worker.task = NoTask /\ worker.cancels = NoTask
      BY <1>5, <1>t DEF Begin, WorkerMatches
    <3> QED  BY <1>5, <3>1, <3>2 DEF Begin
  <2>2. /\ worker'.task = t /\ worker'.cancels = NoTask
        /\ \A u \in Tasks : state'[u] \in {"none", "refused"} =>
                               state[u] \in {"none", "refused"}
    <3>1. CASE state[t] = "initial"
      BY <1>5, <1>t, <2>1, <3>1 DEF Begin, Typed
    <3>2. CASE state[t] # "initial"
      BY <1>5, <1>t, <2>1, <3>2 DEF Begin, Typed
    <3> QED  BY <3>1, <3>2
  <2>q. /\ \A u : InQueue(u)' <=> InQueue(u) /\ u # t
        /\ InQueue(t)
        /\ \A i, j \in DOMAIN queue' : queue'[i] = queue'[j] => i = j
    <3>1. /\ queue \in Seq(Tasks)
          /\ \A i, j \in DOMAIN queue : queue[i] = queue[j] => i = j
      BY <1>t DEF Dispatched, ShareInv
    <3> QED  BY <2>1, <3>1, QueueLoses
  <2>3. \A u \in Tasks : u # t => Shares(u)' = Shares(u)
    BY <2>1, <2>2, <2>q, SharesKept
  <2>4. "queue" \in Shares(t) /\ "worker" \notin Shares(t)
    BY <2>1, <2>q, SharesMembers
  <2>5. Shares(t)' = (Shares(t) \ {"queue"}) \cup {"worker"}
    <3> DEFINE S == (Shares(t) \ {"queue"}) \cup {"worker"}
    <3>1. S \in SUBSET Owners
      BY SharesFinite DEF Owners
    <3>2. /\ "tables" \in S <=> t \in tasks' 
          /\ "timer" \in S <=> t \in timers'
          /\ "queue" \in S <=> InQueue(t)'
          /\ "worker" \in S <=> worker'.task = t
          /\ "canceller" \in S <=> worker'.cancels = t
          /\ "disposer" \in S <=> t \in disposer'.took
      BY <2>1, <2>2, <2>q, SharesMembers
    <3> HIDE DEF S
    <3>3. Shares(t)' = S
      BY <3>1, <3>2, SharesOfNext
    <3> QED  BY <3>3 DEF S
  <2>6. Counted'
    <3>1. "worker" \in Owners
      BY DEF Owners
    <3> QED  BY <1>t, <2>1, <2>3, <2>4, <2>5, <3>1, OwnerChanges
  <2>7. adding # NoTask => Shares(adding)' = {"tables"}
    <3>1. adding # t
      BY <1>t, <2>4 DEF ShareInv
    <3> QED  BY <1>t, <2>1, <2>3, <3>1 DEF ShareInv, Typed
  <2>8. \A u \in Tasks : state'[u] \in {"none", "refused"} => Shares(u)' = {}
    BY <1>t, <2>2, <2>3, <2>4 DEF ShareInv
  <2>9. ShareInv'
    BY <1>t, <2>1, <2>2, <2>q, <2>7, <2>8 DEF ShareInv, Dispatched
  <2> QED  BY <2>6, <2>9
<1>l. ASSUME NEW t \in Tasks, NEW s, s \in Shares(t),
             Shares(t)' = Shares(t) \ {s},
             \A u \in Tasks : u # t => Shares(u)' = Shares(u),
             refs' = Released(t), adding # t,
             UNCHANGED <<adding, timers, queue>>,
             schedule' \subseteq tasks',
             worker'.task \in {worker.task, NoTask},
             worker'.cancels \in {worker.cancels, NoTask},
             worker'.cancels \notin tasks' \cup disposer'.took,
             \A u \in Tasks : state'[u] \in {"none", "refused"} =>
                                 state[u] \in {"none", "refused"}
      PROVE  ShareInv' /\ Counted'
  <2>1. Counted'
    BY <1>t, <1>l, OwnerLess
  <2>2. adding # NoTask => Shares(adding)' = Shares(adding)
    BY <1>t, <1>l DEF Typed
  <2>3. \A u \in Tasks : state'[u] \in {"none", "refused"} => Shares(u)' = {}
    BY <1>t, <1>l DEF ShareInv
  <2>4. ShareInv'
    BY <1>t, <1>l, <2>2, <2>3 DEF ShareInv, InQueue, Typed, Dispatched
  <2> QED  BY <2>1, <2>4
<1>6. ASSUME NEW t \in Delayed, CancelTimer(t) PROVE ShareInv' /\ Counted'
  <2>1. /\ UNCHANGED <<adding, timers, queue, state, refs, disposer, disposed>>
        /\ adding \notin Delayed /\ t # adding /\ t \in Tasks
        /\ worker.cancels = NoTask
    BY <1>6 DEF CancelTimer, Operating
  <2>2. CASE t \notin schedule
    <3>1. UNCHANGED <<tasks, schedule, worker>>
      BY <1>6, <2>2 DEF CancelTimer
    <3>2. \A u \in Tasks : Shares(u)' = Shares(u)
      BY <2>1, <3>1, SharesKept DEF InQueue
    <3> QED  BY <1>s, <2>1, <3>1, <3>2
  <2>3. CASE t \in schedule
    <3>1. /\ schedule' = schedule \ {t} /\ tasks' = tasks \ {t}
          /\ worker'.task = worker.task /\ worker'.cancels = t
          /\ t \in tasks
      BY <1>6, <1>t, <2>3 DEF CancelTimer, Typed, ShareInv
    <3>2. t \notin disposer.took
      BY <1>t, <3>1 DEF CallbackInv
    <3>3. \A u \in Tasks : u # t => Shares(u)' = Shares(u)
      BY <2>1, <3>1, SharesKept DEF InQueue
    <3>4. "tables" \in Shares(t) /\ "canceller" \notin Shares(t)
      BY <2>1, <3>1, SharesMembers
    <3>5. Shares(t)' = (Shares(t) \ {"tables"}) \cup {"canceller"}
      <4> DEFINE S == (Shares(t) \ {"tables"}) \cup {"canceller"}
      <4>1. S \in SUBSET Owners
        BY SharesFinite DEF Owners
      <4>2. /\ "tables" \in S <=> t \in tasks'
            /\ "timer" \in S <=> t \in timers'
            /\ "queue" \in S <=> InQueue(t)'
            /\ "worker" \in S <=> worker'.task = t
            /\ "canceller" \in S <=> worker'.cancels = t
            /\ "disposer" \in S <=> t \in disposer'.took
        BY <2>1, <3>1, SharesMembers DEF InQueue
      <4> HIDE DEF S
      <4>3. Shares(t)' = S
        BY <4>1, <4>2, SharesOfNext
      <4> QED  BY <4>3 DEF S
    <3>6. Counted'
      <4>1. "canceller" \in Owners
        BY DEF Owners
      <4> QED  BY <1>t, <2>1, <3>3, <3>4, <3>5, <4>1, OwnerChanges
    <3>7. adding # NoTask => Shares(adding)' = {"tables"}
      BY <1>t, <2>1, <3>3 DEF ShareInv, Typed
    <3>8. \A u \in Tasks : state'[u] \in {"none", "refused"} => Shares(u)' = {}
      BY <1>t, <2>1, <3>3, <3>4 DEF ShareInv
    <3>9. ShareInv'
      BY <1>t, <2>1, <3>1, <3>2, <3>7, <3>8 DEF ShareInv, InQueue
    <3> QED  BY <3>6, <3>9
  <2> QED  BY <2>2, <2>3
<1>7. CASE CancelReturns
  <2>1. PICK c \in Tasks :
           /\ c = worker.cancels /\ c \in Delayed /\ refs' = Released(c)
           /\ worker'.task = worker.task /\ worker'.cancels = NoTask
           /\ UNCHANGED <<adding, tasks, schedule, timers, queue, disposer>>
    BY <1>7, <1>t DEF CancelReturns, Typed
  <2>2. \A u \in Tasks : state'[u] \in {"none", "refused"} =>
                            state[u] \in {"none", "refused"}
    BY <1>7, <1>t, <2>1 DEF CancelReturns, CancelTask, Typed
  <2>3. "canceller" \in Shares(c) /\ adding # c
    BY <1>t, <2>1, SharesMembers DEF ShareInv
  <2>4. \A u \in Tasks : u # c => Shares(u)' = Shares(u)
    BY <2>1, SharesKept DEF InQueue
  <2>5. Shares(c)' = Shares(c) \ {"canceller"}
    <3> DEFINE S == Shares(c) \ {"canceller"}
    <3>1. S \in SUBSET Owners
      BY SharesFinite DEF Owners
    <3>2. /\ "tables" \in S <=> c \in tasks'
          /\ "timer" \in S <=> c \in timers'
          /\ "queue" \in S <=> InQueue(c)'
          /\ "worker" \in S <=> worker'.task = c
          /\ "canceller" \in S <=> worker'.cancels = c
          /\ "disposer" \in S <=> c \in disposer'.took
      BY <2>1, SharesMembers DEF InQueue
    <3> HIDE DEF S
    <3>3. Shares(c)' = S
      BY <3>1, <3>2, SharesOfNext
    <3> QED  BY <3>3 DEF S
  <2>6. NoTask \notin tasks' \cup disposer'.took
    BY <1>t, <2>1 DEF Typed
  <2>7. schedule' \subseteq tasks'
    BY <1>t, <2>1 DEF ShareInv
  <2> QED  BY <1>l, <2>1, <2>2, <2>3, <2>4, <2>5, <2>6, <2>7
<1>8. CASE OperationEnds
  <2>1. /\ worker.task \in Tasks /\ state[worker.task] = "running"
        /\ \A u \in Tasks : u # worker.task => state'[u] = state[u]
        /\ state'[worker.task] = "done"
        /\ worker'.task = worker.task /\ worker'.cancels = worker.cancels
        /\ UNCHANGED <<refs, adding, tasks, schedule, timers, queue, disposer>>
    BY <1>8, <1>t DEF OperationEnds, Operating, Typed, WorkerMatches
  <2>2. \A u \in Tasks : Shares(u)' = Shares(u)
    BY <2>1, SharesKept DEF InQueue
  <2>3. \A u \in Tasks : state'[u] \in {"none", "refused"} =>
                            state[u] \in {"none", "refused"}
    BY <2>1
  <2> QED  BY <1>s, <2>1, <2>2, <2>3
<1>9. CASE OnCompletion
  <2>1. PICK w \in Tasks :
           /\ w = worker.task
           /\ worker'.task = worker.task /\ worker'.cancels = worker.cancels
           /\ UNCHANGED <<adding, timers, queue, state, disposer>>
    BY <1>9, <1>t DEF OnCompletion, Typed, WorkerMatches
  <2>2. worker.cancels = NoTask
    BY <1>9, <1>t DEF OnCompletion, WorkerMatches
  <2>3. adding # w
    BY <1>t, <2>1, SharesMembers DEF ShareInv
  <2>4. CASE w \in linked /\ w \in tasks
    <3>1. /\ tasks' = tasks \ {w} /\ schedule' = schedule \ {w}
          /\ refs' = Released(w)
      BY <1>9, <2>1, <2>4 DEF OnCompletion
    <3>2. "tables" \in Shares(w)
      BY <2>4, SharesMembers
    <3>3. \A u \in Tasks : u # w => Shares(u)' = Shares(u)
      BY <2>1, <3>1, SharesKept DEF InQueue
    <3>4. Shares(w)' = Shares(w) \ {"tables"}
      <4> DEFINE S == Shares(w) \ {"tables"}
      <4>1. S \in SUBSET Owners
        BY SharesFinite DEF Owners
      <4>2. /\ "tables" \in S <=> w \in tasks'
            /\ "timer" \in S <=> w \in timers'
            /\ "queue" \in S <=> InQueue(w)'
            /\ "worker" \in S <=> worker'.task = w
            /\ "canceller" \in S <=> worker'.cancels = w
            /\ "disposer" \in S <=> w \in disposer'.took
        BY <2>1, <3>1, SharesMembers DEF InQueue
      <4> HIDE DEF S
      <4>3. Shares(w)' = S
        BY <4>1, <4>2, SharesOfNext
      <4> QED  BY <4>3 DEF S
    <3>5. NoTask \notin tasks' \cup disposer'.took
      BY <1>t, <2>1, <3>1 DEF Typed
    <3>6. schedule' \subseteq tasks'
      BY <1>t, <3>1 DEF ShareInv
    <3> QED  BY <1>l, <2>1, <2>2, <2>3, <3>1, <3>2, <3>3, <3>4, <3>5, <3>6
  <2>5. CASE ~(w \in linked /\ w \in tasks)
    <3>1. UNCHANGED <<tasks, schedule, refs>>
      BY <1>9, <2>1, <2>5 DEF OnCompletion
    <3>2. \A u \in Tasks : Shares(u)' = Shares(u)
      BY <2>1, <3>1, SharesKept DEF InQueue
    <3> QED  BY <1>s, <2>1, <3>1, <3>2
  <2> QED  BY <2>4, <2>5
<1>10. CASE Release
  <2>1. worker.task \in Tasks
    BY <1>10, <1>t DEF Release, Typed, WorkerMatches
  <2>2. PICK w \in Tasks :
           /\ w = worker.task /\ refs' = Released(w)
           /\ worker'.task = NoTask /\ worker'.cancels = worker.cancels
           /\ UNCHANGED <<adding, tasks, schedule, timers, queue, state, disposer>>
    BY <1>10, <1>t, <2>1 DEF Release, Typed
  <2>3. "worker" \in Shares(w) /\ adding # w
    BY <1>t, <2>2, SharesMembers DEF ShareInv
  <2>4. \A u \in Tasks : u # w => Shares(u)' = Shares(u)
    BY <2>2, SharesKept DEF InQueue
  <2>5. Shares(w)' = Shares(w) \ {"worker"}
    <3> DEFINE S == Shares(w) \ {"worker"}
    <3>1. S \in SUBSET Owners
      BY SharesFinite DEF Owners
    <3>2. /\ "tables" \in S <=> w \in tasks'
          /\ "timer" \in S <=> w \in timers'
          /\ "queue" \in S <=> InQueue(w)'
          /\ "worker" \in S <=> worker'.task = w
          /\ "canceller" \in S <=> worker'.cancels = w
          /\ "disposer" \in S <=> w \in disposer'.took
      BY <2>2, SharesMembers DEF InQueue
    <3> HIDE DEF S
    <3>3. Shares(w)' = S
      BY <3>1, <3>2, SharesOfNext
    <3> QED  BY <3>3 DEF S
  <2>6. worker'.cancels \notin tasks' \cup disposer'.took /\ schedule' \subseteq tasks'
    BY <1>t, <2>2 DEF ShareInv
  <2> QED  BY <1>l, <2>2, <2>3, <2>4, <2>5, <2>6
<1>11. CASE EnterRestrictedMode \/ EnterDisposedMode \/ DisposeReturns
  <2>1. /\ disposer'.took = disposer.took
        /\ UNCHANGED <<refs, adding, tasks, schedule, timers, queue, state, worker>>
    BY <1>11, <1>t DEF EnterRestrictedMode, EnterDisposedMode, DisposeReturns,
                       DisposerGoes, Typed
  <2>2. \A u \in Tasks : Shares(u)' = Shares(u)
    BY <2>1, SharesKept DEF InQueue
  <2> QED  BY <1>s, <2>1, <2>2
<1>12. CASE TakeTables
  <2>1. /\ disposer.took = {} /\ disposer'.took = tasks
        /\ tasks' = {} /\ schedule' = {} /\ adding = NoTask
        /\ UNCHANGED <<refs, adding, timers, queue, state, worker>>
    BY <1>12, <1>t DEF TakeTables, Typed, CallbackInv, ModeInv
  <2>2. ASSUME NEW u \in Tasks, u \notin tasks
        PROVE  Shares(u)' = Shares(u)
    BY <2>1, <2>2, SharesKept DEF InQueue
  <2>3. ASSUME NEW u \in Tasks, u \in tasks
        PROVE  /\ "tables" \in Shares(u) /\ "disposer" \notin Shares(u)
               /\ Shares(u)' = (Shares(u) \ {"tables"}) \cup {"disposer"}
    <3> DEFINE S == (Shares(u) \ {"tables"}) \cup {"disposer"}
    <3>1. S \in SUBSET Owners
      BY SharesFinite DEF Owners
    <3>2. /\ "tables" \in S <=> u \in tasks'
          /\ "timer" \in S <=> u \in timers'
          /\ "queue" \in S <=> InQueue(u)'
          /\ "worker" \in S <=> worker'.task = u
          /\ "canceller" \in S <=> worker'.cancels = u
          /\ "disposer" \in S <=> u \in disposer'.took
      BY <2>1, <2>3, SharesMembers DEF InQueue
    <3> HIDE DEF S
    <3>3. Shares(u)' = S
      BY <3>1, <3>2, SharesOfNext
    <3> QED  BY <2>1, <2>3, <3>3, SharesMembers DEF S
  <2>4. Counted'
    <3>1. "disposer" \in Owners
      BY DEF Owners
    <3> QED  BY <1>t, <2>1, <2>2, <2>3, <3>1, OwnerChanges
  <2>5. \A u \in Tasks : state'[u] \in {"none", "refused"} => Shares(u)' = {}
    <3>1. \A u \in Tasks : Shares(u) = {} => Shares(u)' = {}
      BY <2>2, <2>3
    <3> QED  BY <1>t, <2>1, <3>1 DEF ShareInv
  <2>6. ShareInv'
    BY <1>t, <2>1, <2>5 DEF ShareInv, InQueue
  <2> QED  BY <2>4, <2>6
<1>13. ASSUME NEW t \in Tasks, CancelTaken(t) PROVE ShareInv' /\ Counted'
  <2>1. /\ disposer'.took = disposer.took
        /\ \A u \in Tasks : \/ state'[u] = state[u]
                            \/ state'[u] = "cancelled"
        /\ UNCHANGED <<refs, adding, tasks, schedule, timers, queue, worker>>
    BY <1>13, <1>t DEF CancelTaken, CancelTask, Typed
  <2>2. \A u \in Tasks : Shares(u)' = Shares(u)
    BY <2>1, SharesKept DEF InQueue
  <2>3. \A u \in Tasks : state'[u] \in {"none", "refused"} =>
                            state[u] \in {"none", "refused"}
    BY <2>1
  <2> QED  BY <1>s, <2>1, <2>2, <2>3
<1>14. CASE ReleaseTaken
  <2>1. PICK a \in Tasks :
           /\ a = disposer.awaits /\ a \in disposer.took /\ refs' = Released(a)
           /\ disposer'.took = disposer.took \ {a}
           /\ UNCHANGED <<adding, tasks, schedule, timers, queue, state, worker>>
    BY <1>14, <1>t DEF ReleaseTaken, Typed, CallbackInv
  <2>2. "disposer" \in Shares(a) /\ adding # a
    BY <1>t, <2>1, SharesMembers DEF ShareInv
  <2>3. \A u \in Tasks : u # a => Shares(u)' = Shares(u)
    BY <2>1, SharesKept DEF InQueue
  <2>4. Shares(a)' = Shares(a) \ {"disposer"}
    <3> DEFINE S == Shares(a) \ {"disposer"}
    <3>1. S \in SUBSET Owners
      BY SharesFinite DEF Owners
    <3>2. /\ "tables" \in S <=> a \in tasks'
          /\ "timer" \in S <=> a \in timers'
          /\ "queue" \in S <=> InQueue(a)'
          /\ "worker" \in S <=> worker'.task = a
          /\ "canceller" \in S <=> worker'.cancels = a
          /\ "disposer" \in S <=> a \in disposer'.took
      BY <2>1, SharesMembers DEF InQueue
    <3> HIDE DEF S
    <3>3. Shares(a)' = S
      BY <3>1, <3>2, SharesOfNext
    <3> QED  BY <3>3 DEF S
  <2>5. worker'.cancels \notin tasks' \cup disposer'.took /\ schedule' \subseteq tasks'
    BY <1>t, <2>1 DEF ShareInv
  <2> QED  BY <1>l, <2>1, <2>2, <2>3, <2>4, <2>5
<1>15. CASE UNCHANGED execVars
  <2>1. \A u \in Tasks : Shares(u)' = Shares(u)
    BY <1>15, SharesKept DEF InQueue, execVars
  <2> QED  BY <1>s, <1>15, <2>1 DEF execVars
<1>16. ASSUME NEW t \in Immediate, Enqueue(t) PROVE ShareInv' /\ Counted'
  <2>1. t \notin Delayed
    BY TaskAssumption
  <2> QED  BY <1>1, <1>16, <2>1 DEF Enqueue
<1>17. ASSUME NEW t \in Delayed, ScheduleTimer(t) PROVE ShareInv' /\ Counted'
  BY <1>1, <1>17 DEF ScheduleTimer, Operating
<1> QED
  BY <1>2, <1>3, <1>4, <1>5, <1>6, <1>7, <1>8, <1>9, <1>10, <1>11, <1>12,
     <1>13, <1>14, <1>15, <1>16, <1>17
     DEF ExecNext, WorkerNext, DisposerNext

LEMMA SharesInductive == ExecSpec => []SharesInv
<1>1. ExecInit => SharesInv
  BY EnqueueInvInit, PromiseInvInit, ShareInvInit, NoTaskApart
     DEF SharesInv, ExecInit, CallbackInv
<1>2. SharesInv /\ [ExecNext]_execVars => SharesInv'
  BY EnqueueInvStep, CallbackInvStep, PromiseInvStep, SharesStep DEF SharesInv
<1> QED  BY <1>1, <1>2, PTL DEF ExecSpec

(* A task's reference count is the number of those who own it: a task that *)
(* is being enqueued lives, none is deleted under its user or twice, and   *)
(* none is kept (Task::Retain, Task::Release), for any tasks and timers.   *)
THEOREM ExecutorIsConsistent == ExecSpec => []ExecConsistent
<1>1. SharesInv => ExecConsistent
  <2> SUFFICES ASSUME SharesInv PROVE ExecConsistent
    OBVIOUS
  <2> USE DEF SharesInv, EnqueueInv, PromiseInv
  <2>1. ExecTypeOK
    BY DEF ExecTypeOK, Typed, Dispatched, ModeInv, ShareInv, Counted, States,
           Places, Stages
  <2>2. EnqueuedTaskLives
    <3> SUFFICES ASSUME adding # NoTask
                 PROVE  adding \in tasks /\ refs[adding] = 1
      BY DEF EnqueuedTaskLives
    <3>1. adding \in Tasks /\ Shares(adding) = {"tables"}
      BY DEF Typed, ShareInv
    <3>2. adding \in tasks
      BY <3>1, SharesMembers
    <3>3. refs[adding] = Cardinality({"tables"})
      BY <3>1 DEF Counted, OwnersAreCounted
    <3> QED  BY <3>2, <3>3, FS_Singleton
  <2> QED  BY <2>1, <2>2 DEF ExecConsistent, Counted
<1> QED  BY <1>1, SharesInductive, PTL
=============================================================================
