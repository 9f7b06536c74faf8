------------------------------ MODULE GrpcStream ----------------------------
(***************************************************************************)
(* One gRPC call of a Firestore stream, from its start to its destruction. *)
(*                                                                         *)
(* Three parties take part.  The worker queue owns the GrpcStream: it      *)
(* issues reads, writes and the final "finish", and keeps a completion for *)
(* each.  gRPC carries the operations out.  The poll thread takes finished *)
(* operations off gRPC's completion queue: it first fulfils the promise of *)
(* the completion, then enqueues its callback on the worker queue.  To end *)
(* the call the worker makes the callbacks no-ops and blocks until every   *)
(* promise is fulfilled; then nothing of the stream is in gRPC's hands.    *)
(*                                                                         *)
(* Stream destroys the GrpcStream as soon as it is shut down.              *)
(***************************************************************************)
EXTENDS Naturals, Sequences, FiniteSets, SequencesExt

CONSTANTS
    MaxWrites,  \* bound: messages the client submits
    MaxAnswers  \* bound: messages the backend sends

ASSUME GrpcBoundsAssumption == MaxWrites \in Nat /\ MaxAnswers \in Nat

VARIABLES
    ops,          \* operations whose callback has not run
    held,         \* completions_: the ids of operations
    lastOp,       \* the id of the operation issued last
    worker,       \* callbacks on the worker queue, as ids
    waiting,      \* what the worker blocks for
    finished,     \* is_grpc_call_finished_
    alive,        \* the GrpcStream exists, and its observer is set
    notifies,     \* the shutdown under way is FinishAndNotify
    buffered,     \* BufferedWriter::queue_
    activeWrite,  \* BufferedWriter::has_active_write_
    submitted,    \* messages submitted so far
    written,      \* messages handed to gRPC, in order
    call,         \* gRPC's call: "open", "ended" or "cancelled"
    incoming,     \* messages of the backend that no read has returned
    sent,         \* messages the backend has sent
    delivered,    \* messages the observer was told of
    ending        \* how the observer learnt of the end: "none", "notified",
                  \* or "client" when it asked for the end itself

opVars == <<ops, held, lastOp>>
shutdownVars == <<waiting, finished, alive, notifies, ending>>
writeVars == <<buffered, activeWrite, submitted, written>>
backendVars == <<incoming, sent>>
grpcVars == <<opVars, worker, shutdownVars, writeVars, call, backendVars,
              delivered>>

Types == {"read", "write", "finish"}
Places == {"grpc", "off", "queued"}
Ops == [id : Nat, type : Types, place : Places, ok : BOOLEAN, live : BOOLEAN]
New(type, n) ==
    [id |-> n, type |-> type, place |-> "grpc", ok |-> TRUE, live |-> TRUE]

(* The call has been started, and the first read issued.                   *)
GrpcInit ==
    /\ ops = {New("read", 1)}
    /\ held = {1}
    /\ lastOp = 1
    /\ worker = <<>>
    /\ waiting = "no"
    /\ finished = FALSE
    /\ alive = TRUE
    /\ notifies = FALSE
    /\ buffered = <<>>
    /\ activeWrite = FALSE
    /\ submitted = 0
    /\ written = <<>>
    /\ call = "open"
    /\ incoming = 0
    /\ sent = 0
    /\ delivered = 0
    /\ ending = "none"

Free == waiting = "no"
IsOff(o) == o.place # "grpc"
HeldOps == {o \in ops : o.id \in held}

-----------------------------------------------------------------------------
(* What the worker's blocks are made of.                                   *)

Issue(type, os, hs) ==
    /\ lastOp' = lastOp + 1
    /\ ops' = os \cup {New(type, lastOp + 1)}
    /\ held' = hs \cup {lastOp + 1}

(* FastFinishCompletionsBlocking, up to its wait.                          *)
CancelCallbacks(os, hs) ==
    {IF o.id \in hs THEN [o EXCEPT !.live = FALSE] ELSE o : o \in os}

(* BufferedWriter::TryStartWrite and MaybeWrite.                           *)
TryStartWrite(queue, active, os, hs) ==
    IF queue = <<>> \/ active
      THEN /\ buffered' = queue
           /\ activeWrite' = active
           /\ written' = written
           /\ ops' = os
           /\ held' = hs
           /\ lastOp' = lastOp
      ELSE /\ buffered' = Tail(queue)
           /\ activeWrite' = TRUE
           /\ written' = Append(written, Head(queue))
           /\ Issue("write", os, hs)

(* A mistake: the call is not cancelled.                                   *)
ShutsDownPatiently(os, hs) ==
    /\ held' = hs
    /\ ops' = CancelCallbacks(os, hs)
    /\ IF hs # {} /\ ~finished
         THEN /\ finished' = TRUE
              /\ waiting' = "shutdown"
              /\ UNCHANGED call
         ELSE /\ waiting' = "drain"
              /\ UNCHANGED <<call, finished>>

(* Shutdown, up to its first wait: a running call is cancelled.            *)
Shutdown(os, hs) ==
    /\ held' = hs
    /\ ops' = CancelCallbacks(os, hs)
    /\ IF hs # {} /\ ~finished
         THEN /\ call' = IF call = "open" THEN "cancelled" ELSE call
              /\ finished' = TRUE
              /\ waiting' = "shutdown"
         ELSE /\ waiting' = "drain"
              /\ UNCHANGED <<call, finished>>

(* FinishImmediately, which tells nobody, or FinishAndNotify.              *)
Finish(notify, os, hs) ==
    /\ Shutdown(os, hs)
    /\ notifies' = notify
    /\ ending' = IF notify THEN ending ELSE "client"

-----------------------------------------------------------------------------
(* Stream and GrpcConnection use the call.                                 *)

CanUse == Free /\ alive

Write ==
    /\ CanUse
    /\ submitted < MaxWrites
    /\ submitted' = submitted + 1
    /\ TryStartWrite(Append(buffered, submitted + 1), activeWrite, ops, held)
    /\ UNCHANGED <<worker, shutdownVars, call, backendVars, delivered>>

(* A stop before the handshake, or GrpcConnection::Shutdown; and a change  *)
(* of connectivity, which notifies.                                        *)
FinishImmediately ==
    /\ CanUse
    /\ Finish(FALSE, ops, held)
    /\ UNCHANGED <<lastOp, worker, alive, writeVars, backendVars, delivered>>
FinishAndNotify ==
    /\ CanUse
    /\ Finish(TRUE, ops, held)
    /\ UNCHANGED <<lastOp, worker, alive, writeVars, backendVars, delivered>>

(* WriteAndFinish: TryLastWrite, unless the call is finished already; no   *)
(* wait when a write is active.                                            *)
WriteAndFinish ==
    /\ CanUse
    /\ ~finished
    /\ ~activeWrite
    /\ submitted < MaxWrites
    /\ submitted' = submitted + 1
    /\ TryStartWrite(Append(buffered, submitted + 1), activeWrite, ops, held)
    /\ waiting' = "last write"
    /\ UNCHANGED <<worker, finished, alive, notifies, ending, call, backendVars,
                   delivered>>

(* The last write is off the queue, or 500 milliseconds have passed.       *)
LastWriteWaited ==
    /\ waiting = "last write"
    /\ Finish(FALSE, ops, held)
    /\ UNCHANGED <<lastOp, worker, alive, writeVars, backendVars, delivered>>

-----------------------------------------------------------------------------
(* The worker is woken: every promise it waited for is fulfilled.          *)

WaitIsOver == \A o \in HeldOps : IsOff(o)

(* FinishGrpcCall continues: "finish" is issued and, in a shutdown, made a *)
(* no-op and waited for.                                                   *)
FinishGrpcCall ==
    /\ waiting \in {"finish", "shutdown"}
    /\ WaitIsOver
    /\ lastOp' = lastOp + 1
    /\ held' = {lastOp + 1}
    /\ IF waiting = "finish"
         THEN /\ ops' = ops \cup {New("finish", lastOp + 1)}
              /\ waiting' = "no"
         ELSE /\ ops' = ops \cup {[New("finish", lastOp + 1) EXCEPT !.live = FALSE]}
              /\ waiting' = "drain"
    /\ UNCHANGED <<worker, finished, alive, notifies, ending, writeVars, call,
                   backendVars, delivered>>

(* Mistakes: the drain does not wait; the observer is always told.         *)
DestroysAtOnce ==
    /\ waiting = "drain"
    /\ held' = {}
    /\ alive' = FALSE
    /\ ending' = IF notifies THEN "notified" ELSE ending
    /\ waiting' = "no"
    /\ UNCHANGED <<ops, lastOp, worker, finished, notifies, writeVars, call,
                   backendVars, delivered>>

DestroysAndTells ==
    /\ waiting = "drain"
    /\ WaitIsOver
    /\ held' = {}
    /\ alive' = FALSE
    /\ ending' = "notified"
    /\ waiting' = "no"
    /\ UNCHANGED <<ops, lastOp, worker, finished, notifies, writeVars, call,
                   backendVars, delivered>>

(* Shutdown is complete: the observer is told or not, and Stream destroys  *)
(* the GrpcStream.                                                         *)
Destroy ==
    /\ waiting = "drain"
    /\ WaitIsOver
    /\ held' = {}
    /\ alive' = FALSE
    /\ ending' = IF notifies THEN "notified" ELSE ending
    /\ waiting' = "no"
    /\ UNCHANGED <<ops, lastOp, worker, finished, notifies, writeVars, call,
                   backendVars, delivered>>

-----------------------------------------------------------------------------
(* The worker runs the callback of a completion.                           *)

Runs(o) ==
    /\ Free
    /\ worker # <<>>
    /\ o.id = Head(worker)
    /\ worker' = Tail(worker)

(* The completion has been cancelled.                                      *)
RunNothing(o) ==
    /\ Runs(o)
    /\ ~o.live
    /\ ops' = ops \ {o}
    /\ UNCHANGED <<held, lastOp, shutdownVars, writeVars, call, backendVars,
                   delivered>>

(* A mistake: no further read is issued.                                   *)
ReadsOnce(o) ==
    /\ Runs(o)
    /\ o.live /\ o.ok /\ o.type = "read"
    /\ delivered' = delivered + 1
    /\ ops' = ops \ {o}
    /\ held' = held \ {o.id}
    /\ UNCHANGED <<lastOp, shutdownVars, writeVars, call, backendVars>>

(* OnRead: the next read first, then the observer.                         *)
OnRead(o) ==
    /\ Runs(o)
    /\ o.live /\ o.ok /\ o.type = "read"
    /\ delivered' = delivered + 1
    /\ Issue("read", ops \ {o}, held \ {o.id})
    /\ UNCHANGED <<shutdownVars, writeVars, call, backendVars>>

(* OnRead, of a message the observer cannot parse: it ends the call.       *)
OnReadUnparsable(o) ==
    /\ Runs(o)
    /\ o.live /\ o.ok /\ o.type = "read"
    /\ lastOp' = lastOp + 1
    /\ Finish(FALSE, (ops \ {o}) \cup {New("read", lastOp + 1)},
              (held \ {o.id}) \cup {lastOp + 1})
    /\ UNCHANGED <<alive, writeVars, backendVars, delivered>>

OnWrite(o) ==
    /\ Runs(o)
    /\ o.live /\ o.ok /\ o.type = "write"
    /\ TryStartWrite(buffered, FALSE, ops \ {o}, held \ {o.id})
    /\ UNCHANGED <<shutdownVars, submitted, call, backendVars, delivered>>

(* OnOperationFailed: the first failure finishes the call.                 *)
OnOperationFailed(o) ==
    /\ Runs(o)
    /\ o.live /\ ~o.ok
    /\ held' = held \ {o.id}
    /\ IF finished
         THEN /\ ops' = ops \ {o}
              /\ UNCHANGED <<finished, waiting>>
         ELSE /\ ops' = CancelCallbacks(ops \ {o}, held')
              /\ finished' = TRUE
              /\ waiting' = "finish"
    /\ UNCHANGED <<lastOp, alive, notifies, ending, writeVars, call,
                   backendVars, delivered>>

(* The status of the call is known.                                        *)
OnFinished(o) ==
    /\ Runs(o)
    /\ o.live /\ o.type = "finish"
    /\ Finish(TRUE, ops \ {o}, held \ {o.id})
    /\ UNCHANGED <<lastOp, alive, writeVars, backendVars, delivered>>

-----------------------------------------------------------------------------
(* gRPC and the poll thread.                                               *)

ComesBack(o, ok) ==
    /\ o.place = "grpc"
    /\ ops' = (ops \ {o}) \cup {[o EXCEPT !.place = "off", !.ok = ok]}
    /\ UNCHANGED <<held, lastOp, worker, shutdownVars, writeVars, call, sent,
                   delivered>>

ReadComesBack(o) ==
    /\ o.type = "read"
    /\ \/ /\ incoming > 0
          /\ call # "cancelled"
          /\ incoming' = incoming - 1
          /\ ComesBack(o, TRUE)
       \/ /\ call = "cancelled" \/ (call = "ended" /\ incoming = 0)
          /\ UNCHANGED incoming
          /\ ComesBack(o, FALSE)

(* A write fails when the call is over; one that was under way may not.    *)
WriteComesBack(o) ==
    /\ o.type = "write"
    /\ UNCHANGED incoming
    /\ \E ok \in BOOLEAN : ComesBack(o, ok) /\ (ok \/ call # "open")

FinishComesBack(o) ==
    /\ o.type = "finish"
    /\ call # "open"
    /\ UNCHANGED incoming
    /\ ComesBack(o, TRUE)

OpComesBack ==
    \E o \in ops : ReadComesBack(o) \/ WriteComesBack(o) \/ FinishComesBack(o)

(* GrpcCompletion::Complete, after the promise.                            *)
Enqueues(o) ==
    /\ o.place = "off"
    /\ ops' = (ops \ {o}) \cup {[o EXCEPT !.place = "queued"]}
    /\ worker' = Append(worker, o.id)
    /\ UNCHANGED <<held, lastOp, shutdownVars, writeVars, call, backendVars,
                   delivered>>

BackendSends ==
    /\ call = "open"
    /\ sent < MaxAnswers
    /\ sent' = sent + 1
    /\ incoming' = incoming + 1
    /\ UNCHANGED <<opVars, worker, shutdownVars, writeVars, call, delivered>>

(* The backend sends a status, or the connection is lost.                  *)
CallEnds ==
    /\ call = "open"
    /\ call' = "ended"
    /\ UNCHANGED <<opVars, worker, shutdownVars, writeVars, backendVars,
                   delivered>>

-----------------------------------------------------------------------------
RunsCallback ==
    \E o \in ops : \/ RunNothing(o)
                   \/ OnRead(o)
                   \/ OnReadUnparsable(o)
                   \/ OnWrite(o)
                   \/ OnOperationFailed(o)
                   \/ OnFinished(o)

GrpcNext ==
    \/ Write
    \/ FinishImmediately
    \/ FinishAndNotify
    \/ WriteAndFinish
    \/ LastWriteWaited
    \/ FinishGrpcCall
    \/ Destroy
    \/ RunsCallback
    \/ OpComesBack
    \/ \E o \in ops : Enqueues(o)
    \/ BackendSends
    \/ CallEnds

(* The worker and the poll thread run; gRPC returns the operations of a    *)
(* call that is over.  Nothing is fair while the call is open.             *)
GrpcFairness ==
    /\ WF_grpcVars(FinishGrpcCall \/ Destroy \/ LastWriteWaited \/ RunsCallback)
    /\ WF_grpcVars(\E o \in ops : Enqueues(o))
    /\ \A type \in Types :
          WF_grpcVars(call # "open" /\ \E o \in ops : o.type = type /\
              (ReadComesBack(o) \/ WriteComesBack(o) \/ FinishComesBack(o)))

GrpcSpec == GrpcInit /\ [][GrpcNext]_grpcVars
GrpcFairSpec == GrpcSpec /\ GrpcFairness

-----------------------------------------------------------------------------
(* Every variable has its type (GrpcStream, BufferedWriter).               *)
GrpcTypeOK ==
    /\ ops \subseteq Ops
    /\ held \subseteq 1 .. lastOp
    /\ worker \in Seq(1 .. lastOp)
    /\ waiting \in {"no", "finish", "shutdown", "drain", "last write"}
    /\ {finished, alive, notifies, activeWrite} \subseteq BOOLEAN
    /\ buffered \in Seq(1 .. submitted)
    /\ written \in Seq(1 .. submitted)
    /\ submitted \in 0 .. MaxWrites
    /\ call \in {"open", "ended", "cancelled"}
    /\ incoming + delivered <= sent
    /\ sent \in 0 .. MaxAnswers
    /\ ending \in {"none", "notified", "client"}

(* gRPC allows one read and one write at a time, and one finish for ever   *)
(* ("only one write operation may be active at any given time",            *)
(* "FinishGrpcCall called twice"), although blocks of writes, failures and *)
(* stops come in any order.                                                *)
InGrpc(type) == {o \in ops : o.type = type /\ ~IsOff(o)}
Finishes == {o \in ops : o.type = "finish"}
OneAtATime ==
    /\ \A type \in Types : Cardinality(InGrpc(type)) <= 1
    /\ Cardinality(Finishes) <= 1
    /\ Finishes # {} => finished
    /\ waiting = "finish" => Finishes = {}

(* A GrpcStream is destroyed only when gRPC has none of its operations and *)
(* no callback would touch it ("without proper shutdown", "Missing         *)
(* GrpcCompletion").                                                       *)
SafeToDestroy ==
    /\ \A o \in ops : o.live => alive /\ o.id \in held
    /\ ~alive => held = {} /\ \A o \in ops : IsOff(o)

(* Messages reach gRPC in the order they were submitted, none left out.    *)
WrittenInOrder ==
    written \o buffered = [i \in 1 .. submitted |-> i]

(* While the call goes on a read is outstanding: an answer, or the end of  *)
(* the call, never goes unnoticed, and Shutdown can tell by its            *)
(* completions that the call was started.  A write that nobody waits for   *)
(* does not keep the next ones back.                                       *)
NeverDeaf ==
    alive /\ Free /\ ~finished =>
        /\ \E o \in HeldOps : o.type = "read" /\ o.live
        /\ activeWrite <=> \E o \in HeldOps : o.type = "write" /\ o.live
        /\ buffered # <<>> => activeWrite

(* What the stream believes of its call is what gRPC does: the operations, *)
(* the writes buffered and the read that listens (GrpcStream,              *)
(* BufferedWriter).                                                        *)
StreamConsistent ==
    GrpcTypeOK /\ OneAtATime /\ WrittenInOrder /\ NeverDeaf

(* The observer is told of the end once, unless it asked for the end       *)
(* itself, and of nothing afterwards ("will _not_ notify the observer      *)
(* about finish if the finish was initiated by the client").               *)
ToldAtMostOnce ==
    [][/\ ending' # ending => ending = "none" /\ alive
       /\ delivered' # delivered => ending = "none" /\ alive
       ]_grpcVars

(* The worker never blocks for ever in Shutdown: cancelling makes every     *)
(* operation come back, and the poll thread needs nothing of the worker.   *)
WorkerGoesOn == ~Free ~> Free

(* A call that is over is destroyed: a read is always out to notice it.    *)
EndIsNoticed == call = "ended" ~> ~alive
=============================================================================
