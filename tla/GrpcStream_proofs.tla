-------------------------- MODULE GrpcStream_proofs -------------------------
(***************************************************************************)
(* Proofs about GrpcStream: the stream is destroyed only when gRPC and the *)
(* worker queue have nothing of it, its observer learns of one end, gRPC   *)
(* has one operation of a type, and a read listens while the call goes on. *)
(***************************************************************************)
EXTENDS GrpcStream, FiniteSetTheorems, SequenceTheorems, TLAPS

(* An operation that gRPC has, or whose callback would do something, has   *)
(* its completion in completions_; ids are never used again.               *)
Accounted(os, hs, n) ==
    /\ os \subseteq Ops
    /\ \A o \in os : o.id <= n
    /\ \A o, p \in os : o.id = p.id => o = p
    /\ \A o \in os : (o.live \/ ~IsOff(o)) => o.id \in hs

(* What the worker queue has is neither in gRPC nor about to be enqueued.  *)
Arrived(os, queue, n) ==
    /\ queue \in Seq(Nat)
    /\ \A i \in 1 .. Len(queue) :
          /\ queue[i] <= n
          /\ \A o \in os : o.id = queue[i] => o.place = "queued"

Quiet(os) == \A o \in os : ~o.live

(* The wait for the promises begins when every callback is a no-op, and    *)
(* only a stream that exists waits.                                        *)
CompletionInv ==
    /\ lastOp \in Nat
    /\ Accounted(ops, held, lastOp)
    /\ Arrived(ops, worker, lastOp)
    /\ waiting \in {"finish", "shutdown", "drain"} => Quiet(ops)
    /\ waiting # "no" => alive
    /\ ~alive => held = {}

(* The end is decided on once: by the client, and then the shutdown tells  *)
(* nobody, or by the shutdown.                                             *)
EndingInv ==
    alive => \/ ending = "none"
             \/ waiting \in {"shutdown", "drain"} /\ ~notifies

GrpcInv == CompletionInv /\ EndingInv

-----------------------------------------------------------------------------
(* What the worker's blocks are made of.                                   *)

LEMMA NewIsOp ==
    ASSUME NEW n \in Nat, NEW type \in Types
    PROVE  /\ New(type, n) \in Ops
           /\ New(type, n).id = n
           /\ New(type, n).live = TRUE
           /\ [New(type, n) EXCEPT !.live = FALSE] \in Ops
           /\ [New(type, n) EXCEPT !.live = FALSE].id = n
           /\ [New(type, n) EXCEPT !.live = FALSE].live = FALSE
  BY DEF New, Ops, Types, Places

(* One more operation, with its completion.                                *)
LEMMA Issuing ==
    ASSUME NEW os, NEW hs, NEW n \in Nat, NEW queue, NEW o \in Ops,
           o.id = n + 1, Accounted(os, hs, n), Arrived(os, queue, n)
    PROVE  /\ Accounted(os \cup {o}, hs \cup {n + 1}, n + 1)
           /\ Arrived(os \cup {o}, queue, n + 1)
<1>1. \A p \in os : p.id \in Nat /\ p.id <= n
  BY DEF Accounted, Ops
<1>2. Accounted(os \cup {o}, hs \cup {n + 1}, n + 1)
  BY <1>1 DEF Accounted
<1>3. \A i \in 1 .. Len(queue) : queue[i] \in Nat /\ queue[i] <= n
  BY DEF Arrived
<1>4. Arrived(os \cup {o}, queue, n + 1)
  BY <1>3 DEF Arrived
<1> QED  BY <1>2, <1>4

(* The callbacks of every completion become no-ops.                        *)
LEMMA Cancelling ==
    ASSUME NEW os, NEW hs, NEW n \in Nat, NEW queue,
           Accounted(os, hs, n), Arrived(os, queue, n)
    PROVE  /\ Accounted(CancelCallbacks(os, hs), hs, n)
           /\ Arrived(CancelCallbacks(os, hs), queue, n)
           /\ Quiet(CancelCallbacks(os, hs))
<1> DEFINE Off(o) == IF o.id \in hs THEN [o EXCEPT !.live = FALSE] ELSE o
<1>1. CancelCallbacks(os, hs) = {Off(o) : o \in os}
  BY DEF CancelCallbacks
<1>2. \A o \in os : /\ Off(o) \in Ops
                    /\ Off(o).id = o.id
                    /\ Off(o).place = o.place
                    /\ ~Off(o).live
  BY DEF Accounted, Ops
<1> HIDE DEF Off
<1>3. Accounted({Off(o) : o \in os}, hs, n)
  <2>1. {Off(o) : o \in os} \subseteq Ops
    BY <1>2
  <2>2. \A o \in os : Off(o).id <= n
    BY <1>2 DEF Accounted
  <2>3. \A o, p \in os : Off(o).id = Off(p).id => Off(o) = Off(p)
    BY <1>2 DEF Accounted
  <2>4. \A o \in os : (Off(o).live \/ ~IsOff(Off(o))) => Off(o).id \in hs
    BY <1>2 DEF Accounted, IsOff
  <2> QED  BY <2>1, <2>2, <2>3, <2>4 DEF Accounted
<1>4. Arrived({Off(o) : o \in os}, queue, n)
  BY <1>2 DEF Arrived
<1>5. Quiet({Off(o) : o \in os})
  BY <1>2 DEF Quiet
<1> QED  BY <1>1, <1>3, <1>4, <1>5

(* A callback runs: its operation and its completion are gone.             *)
LEMMA Removing ==
    ASSUME NEW os, NEW hs, NEW n \in Nat, NEW queue, NEW o \in os,
           Accounted(os, hs, n), Arrived(os, queue, n),
           queue # <<>>, o.id = Head(queue)
    PROVE  /\ Accounted(os \ {o}, hs \ {o.id}, n)
           /\ ~o.live => Accounted(os \ {o}, hs, n)
           /\ Arrived(os \ {o}, Tail(queue), n)
<1>1. queue \in Seq(Nat)
  BY DEF Arrived
<1>2. /\ Tail(queue) \in Seq(Nat)
      /\ \A i \in 1 .. Len(Tail(queue)) :
            i + 1 \in 1 .. Len(queue) /\ Tail(queue)[i] = queue[i + 1]
  BY <1>1
<1>3. Arrived(os \ {o}, Tail(queue), n)
  BY <1>2 DEF Arrived
<1>4. /\ Accounted(os \ {o}, hs \ {o.id}, n)
      /\ Accounted(os \ {o}, hs, n)
  BY DEF Accounted
<1> QED  BY <1>3, <1>4

(* Another write may follow the one that is done.                          *)
LEMMA Writing ==
    ASSUME NEW queue, NEW active, NEW os, NEW hs, NEW pending,
           lastOp \in Nat, Accounted(os, hs, lastOp),
           Arrived(os, pending, lastOp),
           TryStartWrite(queue, active, os, hs)
    PROVE  /\ lastOp' \in Nat
           /\ Accounted(ops', held', lastOp')
           /\ Arrived(ops', pending, lastOp')
<1>1. CASE queue = <<>> \/ active
  <2>1. ops' = os /\ held' = hs /\ lastOp' = lastOp
    BY <1>1 DEF TryStartWrite
  <2> QED  BY <2>1
<1>2. CASE ~(queue = <<>> \/ active)
  <2>1. /\ lastOp' = lastOp + 1
        /\ ops' = os \cup {New("write", lastOp + 1)}
        /\ held' = hs \cup {lastOp + 1}
    BY <1>2 DEF TryStartWrite, Issue
  <2>2. New("write", lastOp + 1) \in Ops /\ New("write", lastOp + 1).id = lastOp + 1
    <3>1. lastOp + 1 \in Nat /\ "write" \in Types
      BY DEF Types
    <3> QED  BY <3>1, NewIsOp
  <2> QED  BY <2>1, <2>2, Issuing
<1> QED  BY <1>1, <1>2

(* The end of the call begins, by the client or by the shutdown itself.    *)
LEMMA Ending ==
    ASSUME NEW os, NEW hs, NEW n \in Nat, NEW pending, NEW notify \in BOOLEAN,
           Accounted(os, hs, n), Arrived(os, pending, n),
           Finish(notify, os, hs)
    PROVE  /\ Accounted(ops', held', n)
           /\ Arrived(ops', pending, n)
           /\ Quiet(ops')
           /\ waiting' \in {"shutdown", "drain"}
           /\ notifies' = notify
           /\ ending' = IF notify THEN ending ELSE "client"
  BY Cancelling DEF Finish, Shutdown

(* An operation goes on its way: from gRPC to the poll thread, or from     *)
(* there to the worker queue.                                              *)
LEMMA Moving ==
    ASSUME NEW os, NEW hs, NEW n \in Nat, NEW queue, NEW o \in os, NEW p \in Ops,
           Accounted(os, hs, n), Arrived(os, queue, n),
           o.place # "queued", p.id = o.id, p.live = o.live, IsOff(p)
    PROVE  /\ Accounted((os \ {o}) \cup {p}, hs, n)
           /\ Arrived((os \ {o}) \cup {p}, queue, n)
           /\ p.place = "queued" =>
                 Arrived((os \ {o}) \cup {p}, Append(queue, o.id), n)
<1>1. o \in Ops /\ o.id \in Nat /\ o.id <= n
  BY DEF Accounted, Ops
<1>2. Accounted((os \ {o}) \cup {p}, hs, n)
  BY <1>1 DEF Accounted, IsOff
<1>3. \A i \in 1 .. Len(queue) : queue[i] # o.id
  BY DEF Arrived
<1>4. Arrived((os \ {o}) \cup {p}, queue, n)
  BY <1>3 DEF Arrived
<1>5. ASSUME p.place = "queued"
      PROVE  Arrived((os \ {o}) \cup {p}, Append(queue, o.id), n)
  <2>1. /\ queue \in Seq(Nat)
        /\ Append(queue, o.id) \in Seq(Nat)
        /\ Len(Append(queue, o.id)) = Len(queue) + 1
        /\ Append(queue, o.id)[Len(queue) + 1] = o.id
        /\ \A i \in 1 .. Len(queue) : Append(queue, o.id)[i] = queue[i]
    BY <1>1 DEF Arrived
  <2>2. \A q \in (os \ {o}) \cup {p} : q.id = o.id => q.place = "queued"
    BY <1>5 DEF Accounted
  <2>3. ASSUME NEW i \in 1 .. Len(Append(queue, o.id))
        PROVE  /\ Append(queue, o.id)[i] <= n
               /\ \A q \in (os \ {o}) \cup {p} :
                     q.id = Append(queue, o.id)[i] => q.place = "queued"
    <3>1. CASE i = Len(queue) + 1
      BY <3>1, <2>1, <2>2, <1>1
    <3>2. CASE i \in 1 .. Len(queue)
      BY <3>2, <2>1, <1>4 DEF Arrived
    <3> QED  BY <3>1, <3>2, <2>1
  <2> QED  BY <2>1, <2>3 DEF Arrived
<1> QED  BY <1>2, <1>4, <1>5

-----------------------------------------------------------------------------
(* Every step preserves the invariant.                                     *)

LEMMA GrpcInvInit == GrpcInit => GrpcInv
<1> SUFFICES ASSUME GrpcInit PROVE GrpcInv
  OBVIOUS
<1>1. /\ New("read", 1) \in Ops /\ New("read", 1).id = 1
  BY DEF New, Ops, Types, Places
<1>2. Accounted(ops, held, lastOp)
  BY <1>1 DEF GrpcInit, Accounted
<1>3. Arrived(ops, worker, lastOp)
  BY DEF GrpcInit, Arrived
<1> QED  BY <1>2, <1>3 DEF GrpcInit, GrpcInv, CompletionInv, EndingInv

(* The calls of Stream and GrpcConnection, by a worker that is free.       *)
LEMMA UseStep ==
    ASSUME GrpcInv,
           Write \/ FinishImmediately \/ FinishAndNotify \/ WriteAndFinish
             \/ LastWriteWaited
    PROVE  GrpcInv'
<1> USE DEF GrpcInv, CompletionInv
<1>1. CASE Write
  <2>1. TryStartWrite(Append(buffered, submitted + 1), activeWrite, ops, held)
        /\ UNCHANGED <<worker, shutdownVars>> /\ waiting = "no"
    BY <1>1 DEF Write, CanUse, Free
  <2>2. /\ lastOp' \in Nat /\ Accounted(ops', held', lastOp')
        /\ Arrived(ops', worker, lastOp')
    BY <2>1, Writing
  <2> QED  BY <2>1, <2>2, <1>1 DEF shutdownVars, EndingInv, Write, CanUse
<1>2. CASE FinishImmediately \/ FinishAndNotify \/ LastWriteWaited
  <2>1. PICK notify \in BOOLEAN : Finish(notify, ops, held)
    BY <1>2 DEF FinishImmediately, FinishAndNotify, LastWriteWaited
  <2>2. /\ UNCHANGED <<lastOp, worker, alive>>
        /\ alive
        /\ waiting \in {"no", "last write"}
    BY <1>2 DEF FinishImmediately, FinishAndNotify, LastWriteWaited, CanUse, Free
  <2>3. /\ Accounted(ops', held', lastOp) /\ Arrived(ops', worker, lastOp)
        /\ Quiet(ops') /\ waiting' \in {"shutdown", "drain"}
        /\ notifies' = notify /\ ending' = IF notify THEN ending ELSE "client"
    BY <2>1, Ending
  <2>4. ending = "none"
    BY <2>2 DEF EndingInv
  <2> QED  BY <2>2, <2>3, <2>4 DEF EndingInv
<1>3. CASE WriteAndFinish
  <2>1. /\ TryStartWrite(Append(buffered, submitted + 1), activeWrite, ops, held)
        /\ UNCHANGED <<worker, alive, notifies, ending>>
        /\ alive /\ waiting = "no" /\ waiting' = "last write"
    BY <1>3 DEF WriteAndFinish, CanUse, Free
  <2>2. /\ lastOp' \in Nat /\ Accounted(ops', held', lastOp')
        /\ Arrived(ops', worker, lastOp')
    BY <2>1, Writing
  <2> QED  BY <2>1, <2>2 DEF EndingInv
<1> QED  BY <1>1, <1>2, <1>3

(* The waits end.                                                          *)
LEMMA WakeStep ==
    ASSUME GrpcInv, FinishGrpcCall \/ Destroy
    PROVE  GrpcInv'
<1> USE DEF GrpcInv, CompletionInv
<1>1. CASE FinishGrpcCall
  <2> DEFINE n == lastOp + 1
             dead == [New("finish", n) EXCEPT !.live = FALSE]
  <2>1. n \in Nat /\ "finish" \in Types
    BY DEF Types
  <2>2. /\ New("finish", n) \in Ops /\ New("finish", n).id = n
        /\ dead \in Ops /\ dead.id = n /\ ~dead.live
    BY <2>1, NewIsOp
  <2>3. /\ Quiet(ops) /\ alive
        /\ \A o \in ops : IsOff(o)
    BY <1>1 DEF FinishGrpcCall, WaitIsOver, HeldOps, Accounted
  <2>4. Accounted(ops, {}, lastOp)
    BY <2>3 DEF Accounted, Quiet
  <2>5. ASSUME NEW o \in {New("finish", n), dead}
        PROVE  /\ Accounted(ops \cup {o}, {n}, n)
               /\ Arrived(ops \cup {o}, worker, n)
    <3>1. o \in Ops /\ o.id = lastOp + 1
      BY <2>2
    <3>2. /\ Accounted(ops \cup {o}, {} \cup {lastOp + 1}, lastOp + 1)
          /\ Arrived(ops \cup {o}, worker, lastOp + 1)
      BY <3>1, <2>4, Issuing
    <3> QED  BY <3>2
  <2>6. Quiet(ops \cup {dead})
    BY <2>2, <2>3 DEF Quiet
  <2>7. /\ lastOp' = n /\ held' = {n}
        /\ UNCHANGED <<worker, alive, notifies, ending>>
        /\ \/ /\ waiting = "finish" /\ waiting' = "no"
              /\ ops' = ops \cup {New("finish", n)}
           \/ /\ waiting = "shutdown" /\ waiting' = "drain"
              /\ ops' = ops \cup {dead}
    BY <1>1 DEF FinishGrpcCall
  <2>8. Accounted(ops', held', lastOp') /\ Arrived(ops', worker', lastOp')
    BY <2>5, <2>7
  <2>9. waiting' # "no" => Quiet(ops')
    BY <2>6, <2>7
  <2> QED  BY <2>1, <2>3, <2>7, <2>8, <2>9 DEF EndingInv
<1>2. CASE Destroy
  <2>1. /\ waiting = "drain" /\ waiting' = "no" /\ held' = {} /\ alive' = FALSE
        /\ UNCHANGED <<ops, lastOp, worker>>
        /\ WaitIsOver
    BY <1>2 DEF Destroy
  <2>2. Accounted(ops', held', lastOp')
    BY <2>1 DEF Accounted, Quiet, WaitIsOver, HeldOps
  <2> QED  BY <2>1, <2>2 DEF EndingInv
<1> QED  BY <1>1, <1>2

(* The worker runs a callback.                                             *)
LEMMA CallbackStep ==
    ASSUME GrpcInv, NEW o \in ops,
           RunNothing(o) \/ OnRead(o) \/ OnReadUnparsable(o) \/ OnWrite(o)
             \/ OnOperationFailed(o) \/ OnFinished(o)
    PROVE  GrpcInv'
<1> USE DEF GrpcInv, CompletionInv
<1>1. /\ waiting = "no" /\ worker # <<>> /\ o.id = Head(worker)
      /\ worker' = Tail(worker)
  BY DEF Runs, Free, RunNothing, OnRead, OnReadUnparsable, OnWrite,
         OnOperationFailed, OnFinished
<1>2. /\ Accounted(ops \ {o}, held \ {o.id}, lastOp)
      /\ ~o.live => Accounted(ops \ {o}, held, lastOp)
      /\ Arrived(ops \ {o}, worker', lastOp)
  BY <1>1, Removing
<1>3. o.live => alive /\ ending = "none"
  BY <1>1 DEF Accounted, EndingInv
<1>4. /\ New("read", lastOp + 1) \in Ops
      /\ New("read", lastOp + 1).id = lastOp + 1
  <2>1. lastOp + 1 \in Nat /\ "read" \in Types
    BY DEF Types
  <2> QED  BY <2>1, NewIsOp
<1>5. /\ Accounted((ops \ {o}) \cup {New("read", lastOp + 1)},
                   (held \ {o.id}) \cup {lastOp + 1}, lastOp + 1)
      /\ Arrived((ops \ {o}) \cup {New("read", lastOp + 1)}, worker', lastOp + 1)
  BY <1>2, <1>4, Issuing
<1>6. CASE RunNothing(o)
  BY <1>1, <1>2, <1>6 DEF RunNothing, shutdownVars, EndingInv
<1>7. CASE OnRead(o)
  BY <1>1, <1>3, <1>5, <1>7 DEF OnRead, Issue, shutdownVars, EndingInv
<1>8. CASE OnReadUnparsable(o)
  <2>1. /\ Finish(FALSE, (ops \ {o}) \cup {New("read", lastOp + 1)},
                  (held \ {o.id}) \cup {lastOp + 1})
        /\ lastOp' = lastOp + 1 /\ alive' = alive /\ alive
    BY <1>3, <1>8 DEF OnReadUnparsable
  <2>2. /\ Accounted(ops', held', lastOp + 1) /\ Arrived(ops', worker', lastOp + 1)
        /\ Quiet(ops') /\ waiting' \in {"shutdown", "drain"} /\ notifies' = FALSE
    <3>1. lastOp + 1 \in Nat
      OBVIOUS
    <3> QED  BY <1>5, <2>1, <3>1, Ending
  <2> QED  BY <2>1, <2>2 DEF EndingInv
<1>9. CASE OnWrite(o)
  <2>1. /\ TryStartWrite(buffered, FALSE, ops \ {o}, held \ {o.id})
        /\ UNCHANGED shutdownVars /\ alive /\ ending = "none"
    BY <1>3, <1>9 DEF OnWrite
  <2>2. /\ lastOp' \in Nat /\ Accounted(ops', held', lastOp')
        /\ Arrived(ops', worker', lastOp')
    BY <1>2, <2>1, Writing
  <2> QED  BY <1>1, <2>1, <2>2 DEF shutdownVars, EndingInv
<1>10. CASE OnOperationFailed(o)
  <2>1. /\ held' = held \ {o.id} /\ UNCHANGED <<lastOp, alive, notifies, ending>>
        /\ alive /\ ending = "none"
        /\ \/ ops' = ops \ {o} /\ waiting' = waiting
           \/ ops' = CancelCallbacks(ops \ {o}, held') /\ waiting' = "finish"
    BY <1>3, <1>10 DEF OnOperationFailed
  <2>2. CASE ops' = ops \ {o} /\ waiting' = waiting
    BY <1>1, <1>2, <2>1, <2>2 DEF EndingInv
  <2>3. CASE ops' = CancelCallbacks(ops \ {o}, held') /\ waiting' = "finish"
    <3>1. Accounted(ops', held', lastOp) /\ Arrived(ops', worker', lastOp)
          /\ Quiet(ops')
      BY <1>2, <2>1, <2>3, Cancelling
    <3> QED  BY <2>1, <2>3, <3>1 DEF EndingInv
  <2> QED  BY <2>1, <2>2, <2>3
<1>11. CASE OnFinished(o)
  <2>1. /\ Finish(TRUE, ops \ {o}, held \ {o.id})
        /\ lastOp' = lastOp /\ alive' = alive /\ alive /\ ending = "none"
    BY <1>3, <1>11 DEF OnFinished
  <2>2. /\ Accounted(ops', held', lastOp) /\ Arrived(ops', worker', lastOp)
        /\ Quiet(ops') /\ waiting' \in {"shutdown", "drain"} /\ ending' = ending
    BY <1>2, <2>1, Ending
  <2> QED  BY <2>1, <2>2 DEF EndingInv
<1> QED  BY <1>6, <1>7, <1>8, <1>9, <1>10, <1>11

(* gRPC and the poll thread hand an operation on.                          *)
LEMMA HandOnStep ==
    ASSUME GrpcInv, NEW o \in ops,
           (\E ok \in BOOLEAN : ComesBack(o, ok)) \/ Enqueues(o)
    PROVE  GrpcInv'
<1> USE DEF GrpcInv, CompletionInv
<1>1. o \in Ops
  BY DEF Accounted
<1>2. PICK p \in Ops :
         /\ p.id = o.id /\ p.live = o.live /\ IsOff(p)
         /\ o.place # "queued"
         /\ ops' = (ops \ {o}) \cup {p}
         /\ UNCHANGED <<held, lastOp, shutdownVars>>
         /\ \/ worker' = worker
            \/ worker' = Append(worker, o.id) /\ p.place = "queued"
  <2>1. CASE Enqueues(o)
    <3> DEFINE p == [o EXCEPT !.place = "queued"]
    <3>1. p \in Ops /\ p.id = o.id /\ p.live = o.live /\ p.place = "queued"
      BY <1>1 DEF Ops, Places
    <3> QED  BY <2>1, <3>1 DEF Enqueues, IsOff
  <2>2. ASSUME NEW ok \in BOOLEAN, ComesBack(o, ok)
        PROVE  \E p \in Ops :
                 /\ p.id = o.id /\ p.live = o.live /\ IsOff(p)
                 /\ o.place # "queued"
                 /\ ops' = (ops \ {o}) \cup {p}
                 /\ UNCHANGED <<held, lastOp, shutdownVars>>
                 /\ worker' = worker
    <3> DEFINE p == [o EXCEPT !.place = "off", !.ok = ok]
    <3>1. p \in Ops /\ p.id = o.id /\ p.live = o.live /\ p.place = "off"
      BY <1>1 DEF Ops, Places
    <3> QED  BY <2>2, <3>1 DEF ComesBack, IsOff
  <2> QED  BY <2>1, <2>2
<1>3. Accounted(ops', held, lastOp) /\ Arrived(ops', worker', lastOp)
  <2>1. /\ lastOp \in Nat /\ Accounted(ops, held, lastOp)
        /\ Arrived(ops, worker, lastOp)
    OBVIOUS
  <2>2. /\ o.place # "queued" /\ p.id = o.id /\ p.live = o.live /\ IsOff(p)
    BY <1>2
  <2>3. /\ Accounted((ops \ {o}) \cup {p}, held, lastOp)
        /\ Arrived((ops \ {o}) \cup {p}, worker, lastOp)
        /\ p.place = "queued" =>
              Arrived((ops \ {o}) \cup {p}, Append(worker, o.id), lastOp)
    BY <2>1, <2>2, Moving
  <2> QED  BY <1>2, <2>3
<1>4. Quiet(ops) => Quiet(ops')
  BY <1>2 DEF Quiet
<1> QED  BY <1>2, <1>3, <1>4 DEF shutdownVars, EndingInv

LEMMA GrpcInvStep == GrpcInv /\ [GrpcNext]_grpcVars => GrpcInv'
<1> SUFFICES ASSUME GrpcInv, [GrpcNext]_grpcVars PROVE GrpcInv'
  OBVIOUS
<1>1. CASE Write \/ FinishImmediately \/ FinishAndNotify \/ WriteAndFinish
             \/ LastWriteWaited
  BY <1>1, UseStep
<1>2. CASE FinishGrpcCall \/ Destroy
  BY <1>2, WakeStep
<1>3. CASE RunsCallback
  BY <1>3, CallbackStep DEF RunsCallback
<1>4. CASE OpComesBack
  <2>1. PICK o \in ops : \E ok \in BOOLEAN : ComesBack(o, ok)
    BY <1>4 DEF OpComesBack, ReadComesBack, WriteComesBack, FinishComesBack
  <2> QED  BY <2>1, HandOnStep
<1>5. CASE \E o \in ops : Enqueues(o)
  BY <1>5, HandOnStep
<1>6. CASE BackendSends \/ CallEnds \/ UNCHANGED grpcVars
  BY <1>6 DEF BackendSends, CallEnds, grpcVars, opVars, shutdownVars, GrpcInv,
              CompletionInv, EndingInv
<1> QED  BY <1>1, <1>2, <1>3, <1>4, <1>5, <1>6 DEF GrpcNext

LEMMA GrpcInductive == GrpcSpec => []GrpcInv
BY GrpcInvInit, GrpcInvStep, PTL DEF GrpcSpec

-----------------------------------------------------------------------------
(* When Stream destroys the GrpcStream, gRPC has none of its operations    *)
(* and no callback on the worker queue would touch it, whatever order      *)
(* reads, writes, failures and stops came in.                              *)
THEOREM GrpcIsSafeToDestroy == GrpcSpec => []SafeToDestroy
<1>1. GrpcInv => SafeToDestroy
  BY DEF GrpcInv, CompletionInv, Accounted, SafeToDestroy
<1> QED  BY <1>1, GrpcInductive, PTL

(* The observer learns of the end once, from the shutdown or because it    *)
(* asked for it, and of no message afterwards.                             *)
THEOREM GrpcTellsOnce == GrpcSpec => ToldAtMostOnce
<1> DEFINE Tells == /\ ending' # ending => ending = "none" /\ alive
                    /\ delivered' # delivered => ending = "none" /\ alive
<1>1. GrpcInv /\ [GrpcNext]_grpcVars => [Tells]_grpcVars
  <2> SUFFICES ASSUME GrpcInv, GrpcNext PROVE Tells
    OBVIOUS
  <2> USE DEF GrpcInv, CompletionInv, EndingInv
  <2>1. CASE Write \/ WriteAndFinish \/ FinishGrpcCall \/ BackendSends \/ CallEnds
    BY <2>1 DEF Write, WriteAndFinish, FinishGrpcCall, BackendSends, CallEnds,
                shutdownVars
  <2>2. CASE FinishImmediately \/ FinishAndNotify \/ LastWriteWaited
    BY <2>2 DEF FinishImmediately, FinishAndNotify, LastWriteWaited, CanUse, Free
  <2>3. CASE Destroy
    BY <2>3 DEF Destroy
  <2>4. ASSUME NEW o \in ops,
               RunNothing(o) \/ OnRead(o) \/ OnReadUnparsable(o) \/ OnWrite(o)
                 \/ OnOperationFailed(o) \/ OnFinished(o)
        PROVE  Tells
    <3>1. waiting = "no" /\ (o.live => alive)
      BY <2>4 DEF Runs, Free, RunNothing, OnRead, OnReadUnparsable, OnWrite,
                  OnOperationFailed, OnFinished, Accounted
    <3>2. o.live => ending = "none"
      BY <3>1
    <3>3. CASE RunNothing(o)
      BY <3>3 DEF RunNothing, shutdownVars
    <3>4. CASE ~RunNothing(o)
      BY <2>4, <3>1, <3>2, <3>4
         DEF OnRead, OnReadUnparsable, OnWrite, OnOperationFailed, OnFinished
    <3> QED  BY <3>3, <3>4
  <2>5. CASE OpComesBack
    BY <2>5 DEF OpComesBack, ReadComesBack, WriteComesBack, FinishComesBack,
                ComesBack, shutdownVars
  <2>6. CASE \E o \in ops : Enqueues(o)
    BY <2>6 DEF Enqueues, shutdownVars
  <2> QED  BY <2>1, <2>2, <2>3, <2>4, <2>5, <2>6 DEF GrpcNext, RunsCallback
<1> QED  BY <1>1, GrpcInductive, PTL DEF GrpcSpec, ToldAtMostOnce
-----------------------------------------------------------------------------
(* What the stream believes of its call is what gRPC does.                 *)

(* Of each type at most one operation has a completion, and at most one    *)
(* "finish" was ever issued; a write with a completion is the active one.  *)
OneOfEach(os, hs, n, active) ==
    /\ hs \subseteq 1 .. n
    /\ \A o, p \in os :
          /\ o.type = p.type
          /\ (o.id \in hs /\ p.id \in hs) \/ o.type = "finish"
          => o = p
    /\ \A o \in os : o.type = "write" /\ o.id \in hs => active

(* A read listens, and a write that is active will come back.              *)
Listens(os, hs, active) ==
    /\ \E o \in os : o.id \in hs /\ o.type = "read" /\ o.live
    /\ active => \E o \in os : o.id \in hs /\ o.type = "write" /\ o.live

(* A read that has come back brings a message of the backend that nobody   *)
(* has counted as delivered.                                               *)
Answered(os, inc, del, snt) ==
    /\ inc \in Nat /\ del \in Nat /\ snt \in Nat
    /\ inc + del <= snt
    /\ \A o \in os :
          o.type = "read" /\ o.live /\ o.ok /\ IsOff(o) => inc + del < snt

(* The messages written and those buffered are the ones submitted.         *)
Ordered(w, b, n) ==
    /\ w \in Seq(Nat) /\ b \in Seq(Nat) /\ n \in Nat
    /\ Len(w) + Len(b) = n
    /\ \A i \in 1 .. Len(w) : w[i] = i
    /\ \A i \in 1 .. Len(b) : b[i] = Len(w) + i

(* Ids count from 1.                                                       *)
Positive(os, queue) ==
    /\ \A o \in os : o.id >= 1
    /\ \A i \in 1 .. Len(queue) : queue[i] >= 1

(* While the call is not finished the worker does not wait for its end.    *)
FinishingInv ==
    /\ \A o \in ops : o.type = "finish" =>
          finished /\ waiting \notin {"finish", "shutdown"}
    /\ waiting \in {"finish", "shutdown"} => finished
    /\ alive /\ ~finished =>
          waiting \in {"no", "last write"} /\ Listens(ops, held, activeWrite)
    /\ buffered # <<>> => activeWrite

SimplyTyped ==
    /\ waiting \in {"no", "finish", "shutdown", "drain", "last write"}
    /\ finished \in BOOLEAN /\ alive \in BOOLEAN
    /\ notifies \in BOOLEAN /\ activeWrite \in BOOLEAN
    /\ call \in {"open", "ended", "cancelled"}
    /\ ending \in {"none", "notified", "client"}

Bounded ==
    /\ submitted \in 0 .. MaxWrites
    /\ sent \in 0 .. MaxAnswers

UsageInv ==
    /\ OneOfEach(ops, held, lastOp, activeWrite)
    /\ Answered(ops, incoming, delivered, sent)
    /\ Ordered(written, buffered, submitted)
    /\ Positive(ops, worker)
    /\ FinishingInv
    /\ SimplyTyped
    /\ Bounded

(* One more operation of a type that has none.                             *)
LEMMA IssuingOne ==
    ASSUME NEW os, NEW hs, NEW n \in Nat, NEW active, NEW on \in BOOLEAN,
           NEW o \in Ops, o.id = n + 1, Accounted(os, hs, n),
           OneOfEach(os, hs, n, active), active => on,
           o.type = "write" => on,
           \A p \in os : p.type = o.type => p.id \notin hs /\ p.type # "finish"
    PROVE  OneOfEach(os \cup {o}, hs \cup {n + 1}, n + 1, on)
<1>1. \A p \in os : p.id \in Nat /\ p.id # n + 1
  BY DEF Accounted, Ops
<1>2. hs \cup {n + 1} \subseteq 1 .. n + 1
  BY DEF OneOfEach
<1>3. ASSUME NEW p \in os \cup {o}, NEW q \in os \cup {o}, p.type = q.type,
             (p.id \in hs \cup {n + 1} /\ q.id \in hs \cup {n + 1})
               \/ p.type = "finish"
      PROVE  p = q
  <2>1. CASE p \in os /\ q \in os
    BY <1>1, <1>3, <2>1 DEF OneOfEach
  <2>2. CASE p = o /\ q \in os
    BY <1>1, <1>3, <2>2
  <2>3. CASE p \in os /\ q = o
    BY <1>1, <1>3, <2>3
  <2> QED  BY <2>1, <2>2, <2>3
<1>4. \A p \in os \cup {o} : p.type = "write" /\ p.id \in hs \cup {n + 1} => on
  BY <1>1 DEF OneOfEach
<1> QED  BY <1>2, <1>3, <1>4 DEF OneOfEach

(* Fewer operations, or fewer completions.                                 *)
LEMMA Fewer ==
    ASSUME NEW os, NEW hs, NEW n, NEW active, NEW os2 \in SUBSET os,
           NEW hs2 \in SUBSET hs, OneOfEach(os, hs, n, active)
    PROVE  OneOfEach(os2, hs2, n, active)
BY DEF OneOfEach

LEMMA CancellingKeeps ==
    ASSUME NEW os, NEW hs, NEW n, NEW active, NEW inc, NEW del, NEW snt,
           NEW queue, os \subseteq Ops
    PROVE  LET cs == CancelCallbacks(os, hs) IN
           /\ OneOfEach(os, hs, n, active) => OneOfEach(cs, hs, n, active)
           /\ Answered(os, inc, del, snt) => Answered(cs, inc, del, snt)
           /\ Positive(os, queue) => Positive(cs, queue)
           /\ \A c \in cs : c.type = "finish" =>
                 \E o \in os : o.type = "finish"
<1> DEFINE Off(o) == IF o.id \in hs THEN [o EXCEPT !.live = FALSE] ELSE o
           cs == {Off(o) : o \in os}
<1>1. CancelCallbacks(os, hs) = cs
  BY DEF CancelCallbacks
<1>2. \A o \in os : /\ Off(o).id = o.id /\ Off(o).type = o.type
                    /\ Off(o).place = o.place /\ Off(o).ok = o.ok
                    /\ Off(o).live => o.live
  BY DEF Ops
<1> HIDE DEF Off
<1>3. OneOfEach(os, hs, n, active) => OneOfEach(cs, hs, n, active)
  BY <1>2 DEF OneOfEach
<1>4. Answered(os, inc, del, snt) => Answered(cs, inc, del, snt)
  BY <1>2 DEF Answered, IsOff
<1>5. Positive(os, queue) => Positive(cs, queue)
  BY <1>2 DEF Positive
<1>6. \A c \in cs : c.type = "finish" => \E o \in os : o.type = "finish"
  BY <1>2
<1> QED  BY <1>1, <1>3, <1>4, <1>5, <1>6

(* The queue of BufferedWriter: a message is submitted, or goes to gRPC.   *)
LEMMA Submitting ==
    ASSUME NEW w, NEW b, NEW n, Ordered(w, b, n)
    PROVE  Ordered(w, Append(b, n + 1), n + 1)
<1>1. /\ Append(b, n + 1) \in Seq(Nat) /\ Len(Append(b, n + 1)) = Len(b) + 1
      /\ Append(b, n + 1)[Len(b) + 1] = n + 1
      /\ \A i \in 1 .. Len(b) : Append(b, n + 1)[i] = b[i]
      /\ Len(b) \in Nat /\ Len(w) \in Nat /\ n = Len(w) + Len(b)
  BY DEF Ordered
<1>2. ASSUME NEW i \in 1 .. Len(b) + 1
      PROVE  Append(b, n + 1)[i] = Len(w) + i
  <2>1. CASE i = Len(b) + 1
    BY <1>1, <2>1
  <2>2. CASE i \in 1 .. Len(b)
    BY <1>1, <2>2 DEF Ordered
  <2> QED  BY <2>1, <2>2, <1>1
<1> QED  BY <1>1, <1>2 DEF Ordered

LEMMA Sending ==
    ASSUME NEW w, NEW b, NEW n, Ordered(w, b, n), b # <<>>
    PROVE  Ordered(Append(w, Head(b)), Tail(b), n)
<1>1. /\ b \in Seq(Nat) /\ w \in Seq(Nat) /\ Len(b) \in Nat /\ Len(w) \in Nat
      /\ Len(b) >= 1 /\ Head(b) = Len(w) + 1 /\ Head(b) \in Nat
  BY DEF Ordered
<1>2. /\ Append(w, Head(b)) \in Seq(Nat) /\ Len(Append(w, Head(b))) = Len(w) + 1
      /\ Append(w, Head(b))[Len(w) + 1] = Len(w) + 1
      /\ \A i \in 1 .. Len(w) : Append(w, Head(b))[i] = w[i]
  BY <1>1
<1>3. /\ Tail(b) \in Seq(Nat) /\ Len(Tail(b)) = Len(b) - 1
      /\ \A i \in 1 .. Len(Tail(b)) : i + 1 \in 1 .. Len(b) /\ Tail(b)[i] = b[i + 1]
  BY <1>1
<1>4. \A i \in 1 .. Len(w) + 1 : Append(w, Head(b))[i] = i
  BY <1>1, <1>2 DEF Ordered
<1>5. \A i \in 1 .. Len(Tail(b)) : Tail(b)[i] = Len(w) + 1 + i
  BY <1>1, <1>3 DEF Ordered
<1>6. Len(Append(w, Head(b))) + Len(Tail(b)) = n /\ n \in Nat
  BY <1>1, <1>2, <1>3 DEF Ordered
<1> QED  BY <1>2, <1>3, <1>4, <1>5, <1>6 DEF Ordered

(* TryStartWrite, with a queue and whether a write is active.              *)
LEMMA WritingOne ==
    ASSUME NEW queue, NEW active \in BOOLEAN, NEW os, NEW hs, NEW pending,
           NEW inc, NEW del, NEW snt, NEW n,
           lastOp \in Nat, Accounted(os, hs, lastOp),
           OneOfEach(os, hs, lastOp, active), Answered(os, inc, del, snt),
           Positive(os, pending), Ordered(written, queue, n),
           TryStartWrite(queue, active, os, hs)
    PROVE  /\ OneOfEach(ops', held', lastOp', activeWrite')
           /\ Answered(ops', inc, del, snt)
           /\ Positive(ops', pending)
           /\ Ordered(written', buffered', n)
           /\ activeWrite' \in BOOLEAN
           /\ buffered' # <<>> => activeWrite'
           /\ \A o \in ops' : o.type = "finish" => o \in os
           /\ Listens(os, hs, active) => Listens(ops', held', activeWrite')
<1>1. CASE queue = <<>> \/ active
  <2>1. /\ ops' = os /\ held' = hs /\ lastOp' = lastOp
        /\ buffered' = queue /\ activeWrite' = active /\ written' = written
    BY <1>1 DEF TryStartWrite
  <2> QED  BY <1>1, <2>1
<1>2. CASE ~(queue = <<>> \/ active)
  <2> DEFINE o == New("write", lastOp + 1)
  <2>1. /\ lastOp' = lastOp + 1 /\ ops' = os \cup {o}
        /\ held' = hs \cup {lastOp + 1}
        /\ buffered' = Tail(queue) /\ activeWrite' = TRUE
        /\ written' = Append(written, Head(queue))
    BY <1>2 DEF TryStartWrite, Issue
  <2>2. o \in Ops /\ o.id = lastOp + 1 /\ o.type = "write" /\ ~IsOff(o) /\ o.live
    BY DEF New, Ops, Types, Places, IsOff
  <2> HIDE DEF o
  <2>3. \A p \in os : p.type = o.type => p.id \notin hs /\ p.type # "finish"
    BY <1>2, <2>2 DEF OneOfEach
  <2>4. OneOfEach(ops', held', lastOp', TRUE)
    <3>1. OneOfEach(os \cup {o}, hs \cup {lastOp + 1}, lastOp + 1, TRUE)
      BY <2>2, <2>3, IssuingOne
    <3> QED  BY <2>1, <3>1
  <2>5. Answered(ops', inc, del, snt)
    BY <2>1, <2>2 DEF Answered
  <2>6. Positive(ops', pending)
    BY <2>1, <2>2 DEF Positive
  <2>7. Ordered(written', buffered', n)
    BY <1>2, <2>1, Sending
  <2>8. Listens(os, hs, active) => Listens(ops', held', TRUE)
    BY <2>1, <2>2 DEF Listens
  <2> QED  BY <2>1, <2>2, <2>4, <2>5, <2>6, <2>7, <2>8
<1> QED  BY <1>1, <1>2

(* The end of the call begins.                                             *)
LEMMA EndingOne ==
    ASSUME NEW os, NEW hs, NEW n, NEW active, NEW inc, NEW del, NEW snt,
           NEW pending, NEW notify \in BOOLEAN, os \subseteq Ops,
           OneOfEach(os, hs, n, active), Answered(os, inc, del, snt),
           Positive(os, pending), SimplyTyped,
           \A o \in os : o.type = "finish" => finished,
           finished \/ hs # {},
           Finish(notify, os, hs)
    PROVE  /\ OneOfEach(ops', held', n, active)
           /\ Answered(ops', inc, del, snt)
           /\ Positive(ops', pending)
           /\ finished' = TRUE
           /\ waiting' \in {"shutdown", "drain"}
           /\ \A o \in ops' : o.type = "finish" => waiting' = "drain"
           /\ call' \in {"open", "ended", "cancelled"}
           /\ notifies' \in BOOLEAN
           /\ ending' \in {"none", "notified", "client"}
<1>1. ops' = CancelCallbacks(os, hs) /\ held' = hs
  BY DEF Finish, Shutdown
<1>2. /\ OneOfEach(ops', held', n, active) /\ Answered(ops', inc, del, snt)
      /\ Positive(ops', pending)
      /\ \A c \in ops' : c.type = "finish" => \E o \in os : o.type = "finish"
  BY <1>1, CancellingKeeps
<1>3. /\ finished' = TRUE
      /\ waiting' \in {"shutdown", "drain"}
      /\ waiting' = "shutdown" => ~finished
      /\ call' \in {"open", "ended", "cancelled"}
      /\ notifies' \in BOOLEAN
      /\ ending' \in {"none", "notified", "client"}
  BY DEF Finish, Shutdown, SimplyTyped
<1> QED  BY <1>2, <1>3

LEMMA UsageInvInit == GrpcInit => UsageInv
<1> SUFFICES ASSUME GrpcInit PROVE UsageInv
  OBVIOUS
<1> DEFINE o == New("read", 1)
<1>1. o.id = 1 /\ o.type = "read" /\ o.live /\ ~IsOff(o)
  BY DEF New, IsOff
<1>2. ops = {o} /\ held = {1} /\ lastOp = 1
  BY DEF GrpcInit
<1> HIDE DEF o
<1>3. /\ OneOfEach(ops, held, lastOp, activeWrite)
      /\ Listens(ops, held, activeWrite)
  BY <1>1, <1>2 DEF GrpcInit, OneOfEach, Listens
<1>4. Answered(ops, incoming, delivered, sent) /\ Positive(ops, worker)
  BY <1>1, <1>2 DEF GrpcInit, Answered, Positive
<1>5. Ordered(written, buffered, submitted)
  BY DEF GrpcInit, Ordered
<1>6. FinishingInv
  BY <1>1, <1>2, <1>3 DEF GrpcInit, FinishingInv
<1>7. SimplyTyped
  BY DEF GrpcInit, SimplyTyped
<1>8. Bounded
  BY GrpcBoundsAssumption DEF GrpcInit, Bounded
<1> QED  BY <1>3, <1>4, <1>5, <1>6, <1>7, <1>8 DEF UsageInv

(* The calls of Stream and GrpcConnection, by a worker that is free.       *)
LEMMA UseKeeps ==
    ASSUME GrpcInv, UsageInv,
           Write \/ FinishImmediately \/ FinishAndNotify \/ WriteAndFinish
             \/ LastWriteWaited
    PROVE  UsageInv'
<1> USE DEF GrpcInv, CompletionInv, UsageInv
<1>1. CASE Write \/ WriteAndFinish
  <2> DEFINE queue == Append(buffered, submitted + 1)
  <2>n. submitted \in Nat /\ MaxWrites \in Nat
    BY GrpcBoundsAssumption DEF Bounded
  <2>1. /\ submitted < MaxWrites /\ submitted' = submitted + 1
        /\ TryStartWrite(queue, activeWrite, ops, held)
        /\ UNCHANGED <<worker, finished, alive, notifies, ending, call,
                       incoming, sent, delivered>>
        /\ waiting = "no" /\ waiting' \in {"no", "last write"}
    BY <1>1 DEF Write, WriteAndFinish, CanUse, Free, shutdownVars, backendVars
  <2>2. Ordered(written, queue, submitted + 1) /\ activeWrite \in BOOLEAN
    BY Submitting DEF SimplyTyped
  <2>3. /\ OneOfEach(ops', held', lastOp', activeWrite')
        /\ Answered(ops', incoming, delivered, sent)
        /\ Positive(ops', worker)
        /\ Ordered(written', buffered', submitted + 1)
        /\ activeWrite' \in BOOLEAN
        /\ buffered' # <<>> => activeWrite'
        /\ \A o \in ops' : o.type = "finish" => o \in ops
        /\ Listens(ops, held, activeWrite) => Listens(ops', held', activeWrite')
    <3>1. /\ lastOp \in Nat /\ Accounted(ops, held, lastOp)
          /\ OneOfEach(ops, held, lastOp, activeWrite)
          /\ Answered(ops, incoming, delivered, sent) /\ Positive(ops, worker)
      OBVIOUS
    <3> HIDE DEF queue, GrpcInv, CompletionInv, UsageInv
    <3> QED  BY <2>1, <2>2, <3>1, WritingOne
  <2>4. FinishingInv'
    BY <2>1, <2>3 DEF FinishingInv
  <2>5. SimplyTyped'
    BY <2>1, <2>3 DEF SimplyTyped
  <2>6. Bounded'
    <3>1. submitted' = submitted + 1 /\ submitted < MaxWrites /\ sent' = sent
      BY <2>1
    <3>2. submitted' \in 0 .. MaxWrites
      BY <2>n, <3>1
    <3>3. sent' \in 0 .. MaxAnswers
      BY <3>1 DEF Bounded
    <3> QED  BY <3>2, <3>3 DEF Bounded
  <2> QED  BY <2>1, <2>3, <2>4, <2>5, <2>6
<1>2. CASE FinishImmediately \/ FinishAndNotify \/ LastWriteWaited
  <2>1. PICK notify \in BOOLEAN : Finish(notify, ops, held)
    BY <1>2 DEF FinishImmediately, FinishAndNotify, LastWriteWaited
  <2>2. /\ UNCHANGED <<lastOp, worker, alive, writeVars, backendVars, delivered>>
        /\ alive
        /\ waiting \in {"no", "last write"}
    BY <1>2 DEF FinishImmediately, FinishAndNotify, LastWriteWaited, CanUse, Free
  <2>3. /\ ops \subseteq Ops /\ SimplyTyped
        /\ \A o \in ops : o.type = "finish" => finished
        /\ finished \/ held # {}
    BY <2>2 DEF FinishingInv, Listens, Accounted
  <2>4. /\ OneOfEach(ops', held', lastOp, activeWrite)
        /\ Answered(ops', incoming, delivered, sent)
        /\ Positive(ops', worker)
        /\ finished' = TRUE
        /\ waiting' \in {"shutdown", "drain"}
        /\ \A o \in ops' : o.type = "finish" => waiting' = "drain"
        /\ call' \in {"open", "ended", "cancelled"}
        /\ notifies' \in BOOLEAN
        /\ ending' \in {"none", "notified", "client"}
    BY <2>1, <2>3, EndingOne
  <2>5. FinishingInv'
    BY <2>2, <2>4 DEF FinishingInv, writeVars
  <2>6. SimplyTyped'
    BY <2>2, <2>4 DEF SimplyTyped, writeVars, backendVars
  <2> QED  BY <2>2, <2>4, <2>5, <2>6 DEF writeVars, backendVars, Bounded
<1> QED  BY <1>1, <1>2

(* The waits end.                                                          *)
LEMMA WakeKeeps ==
    ASSUME GrpcInv, UsageInv, FinishGrpcCall \/ Destroy
    PROVE  UsageInv'
<1> USE DEF GrpcInv, CompletionInv, UsageInv
<1>1. CASE FinishGrpcCall
  <2> DEFINE n == lastOp + 1
             dead == [New("finish", n) EXCEPT !.live = FALSE]
  <2>1. PICK o \in {New("finish", n), dead} : ops' = ops \cup {o}
    BY <1>1 DEF FinishGrpcCall
  <2>2. /\ o.id = n /\ o.type = "finish"
    <3>1. New("finish", n).id = n /\ New("finish", n).type = "finish"
      BY DEF New
    <3>2. dead.id = n /\ dead.type = "finish"
      BY DEF New
    <3> HIDE DEF dead
    <3> QED  BY <3>1, <3>2
  <2>3. /\ waiting \in {"finish", "shutdown"} /\ waiting' \in {"no", "drain"}
        /\ lastOp' = n /\ held' = {n}
        /\ UNCHANGED <<worker, finished, alive, notifies, ending, writeVars, call,
                       backendVars, delivered>>
    BY <1>1 DEF FinishGrpcCall
  <2> HIDE DEF dead
  <2>4. \A p \in ops : p.type # "finish"
    BY <2>3 DEF FinishingInv
  <2>5. OneOfEach(ops', held', lastOp', activeWrite)
    <3>1. OneOfEach(ops, {}, lastOp, activeWrite)
      BY Fewer
    <3>2. \A p, q \in ops' :
             /\ p.type = q.type
             /\ (p.id \in held' /\ q.id \in held') \/ p.type = "finish"
             => p = q
      <4>1. \A p \in ops : p.id # n
        BY DEF Accounted, Ops
      <4> QED  BY <2>1, <2>2, <2>3, <2>4, <4>1
    <3>3. held' \subseteq 1 .. lastOp'
      BY <2>3
    <3>4. \A p \in ops' : p.type = "write" => p.id \notin held'
      <4>1. \A p \in ops : p.id # n
        BY DEF Accounted, Ops
      <4> QED  BY <2>1, <2>2, <2>3, <4>1
    <3> QED  BY <3>2, <3>3, <3>4 DEF OneOfEach
  <2>6. Answered(ops', incoming, delivered, sent) /\ Positive(ops', worker)
    BY <2>1, <2>2 DEF Answered, Positive
  <2>7. FinishingInv'
    BY <2>3 DEF FinishingInv, writeVars
  <2>8. SimplyTyped'
    BY <2>3 DEF SimplyTyped, writeVars, backendVars
  <2> QED  BY <2>3, <2>5, <2>6, <2>7, <2>8 DEF writeVars, backendVars, Bounded
<1>2. CASE Destroy
  <2>1. /\ waiting' = "no" /\ held' = {} /\ alive' = FALSE
        /\ ending' \in {"notified", ending}
        /\ UNCHANGED <<ops, lastOp, worker, finished, notifies, writeVars, call,
                       backendVars, delivered>>
    BY <1>2 DEF Destroy
  <2>2. OneOfEach(ops, held', lastOp, activeWrite)
    BY <2>1, Fewer
  <2>3. FinishingInv'
    BY <2>1 DEF FinishingInv, writeVars
  <2>4. SimplyTyped'
    BY <2>1 DEF SimplyTyped, writeVars, backendVars
  <2> QED  BY <2>1, <2>2, <2>3, <2>4 DEF writeVars, backendVars, Bounded
<1> QED  BY <1>1, <1>2

(* The worker runs a callback.                                             *)
LEMMA CallbackKeeps ==
    ASSUME GrpcInv, UsageInv, NEW o \in ops,
           RunNothing(o) \/ OnRead(o) \/ OnReadUnparsable(o) \/ OnWrite(o)
             \/ OnOperationFailed(o) \/ OnFinished(o)
    PROVE  UsageInv'
<1> USE DEF GrpcInv, CompletionInv, UsageInv
<1> DEFINE os == ops \ {o}
           hs == held \ {o.id}
           next == New("read", lastOp + 1)
<1>1. /\ waiting = "no" /\ worker # <<>> /\ o.id = Head(worker)
      /\ worker' = Tail(worker)
  BY DEF Runs, Free, RunNothing, OnRead, OnReadUnparsable, OnWrite,
         OnOperationFailed, OnFinished
<1>2. /\ OneOfEach(os, hs, lastOp, activeWrite)
      /\ OneOfEach(os, held, lastOp, activeWrite)
      /\ Answered(os, incoming, delivered, sent)
      /\ \A p \in os : p.type = "finish" => finished
  <2>1. os \in SUBSET ops /\ hs \in SUBSET held /\ held \in SUBSET held
    OBVIOUS
  <2>2. OneOfEach(os, hs, lastOp, activeWrite) /\ OneOfEach(os, held, lastOp, activeWrite)
    BY <2>1, Fewer
  <2> QED  BY <2>2 DEF Answered, FinishingInv
<1>3. Positive(os, worker')
  <2>1. /\ worker \in Seq(Nat)
        /\ \A i \in 1 .. Len(Tail(worker)) :
              i + 1 \in 1 .. Len(worker) /\ Tail(worker)[i] = worker[i + 1]
    BY <1>1 DEF Arrived
  <2> QED  BY <1>1, <2>1 DEF Positive
<1>4. Accounted(os, hs, lastOp) /\ os \subseteq Ops
  <2>1. Accounted(os, hs, lastOp)
    BY <1>1, Removing
  <2> QED  BY <2>1 DEF Accounted
<1>5. o.live => alive /\ o.id \in held
  BY DEF Accounted
<1>6. o.live /\ o.type \in {"read", "write"} =>
         \A p \in os : p.type = o.type => p.id \notin hs
  BY <1>5 DEF OneOfEach
<1>7. ASSUME o.live, o.type = "read"
      PROVE  /\ OneOfEach(os \cup {next}, hs \cup {lastOp + 1}, lastOp + 1, activeWrite)
             /\ Answered(os \cup {next}, incoming, delivered, sent)
             /\ Positive(os \cup {next}, worker')
             /\ next \in Ops /\ next.id = lastOp + 1 /\ next.type = "read" /\ next.live
             /\ ~IsOff(next)
  <2>1. next \in Ops /\ next.id = lastOp + 1 /\ next.type = "read" /\ next.live
        /\ ~IsOff(next)
    BY DEF New, Ops, Types, Places, IsOff
  <2> HIDE DEF next
  <2>2. \A p \in os : p.type = next.type => p.id \notin hs /\ p.type # "finish"
    BY <1>6, <1>7, <2>1
  <2>3. OneOfEach(os \cup {next}, hs \cup {lastOp + 1}, lastOp + 1, activeWrite)
    <3>1. lastOp \in Nat /\ activeWrite \in BOOLEAN
      BY DEF SimplyTyped
    <3> HIDE DEF os, hs
    <3> QED  BY <1>2, <1>4, <2>1, <2>2, <3>1, IssuingOne
  <2>4. Answered(os \cup {next}, incoming, delivered, sent)
    BY <1>2, <2>1 DEF Answered
  <2>5. Positive(os \cup {next}, worker')
    BY <1>3, <2>1 DEF Positive
  <2> QED  BY <2>1, <2>3, <2>4, <2>5
<1>8. CASE RunNothing(o)
  <2>1. /\ ops' = os /\ ~o.live
        /\ UNCHANGED <<held, lastOp, shutdownVars, writeVars, call, backendVars,
                       delivered>>
    BY <1>8 DEF RunNothing
  <2>2. Listens(ops, held, activeWrite) => Listens(ops', held, activeWrite)
    BY <2>1 DEF Listens
  <2>3. FinishingInv'
    BY <1>2, <2>1, <2>2 DEF FinishingInv, shutdownVars, writeVars
  <2>4. SimplyTyped'
    BY <2>1 DEF SimplyTyped, shutdownVars, writeVars, backendVars
  <2> QED  BY <1>2, <1>3, <2>1, <2>3, <2>4 DEF writeVars, backendVars, Bounded
<1>9. CASE OnRead(o)
  <2>1. /\ ops' = os \cup {next} /\ held' = hs \cup {lastOp + 1}
        /\ lastOp' = lastOp + 1 /\ delivered' = delivered + 1
        /\ o.live /\ o.type = "read" /\ o.ok
        /\ UNCHANGED <<shutdownVars, writeVars, call, backendVars>>
    BY <1>9 DEF OnRead, Issue
  <2>2. o.place = "queued"
    <3>1. /\ worker \in Seq(Nat) /\ 1 \in 1 .. Len(worker) /\ Head(worker) = worker[1]
      BY <1>1 DEF Arrived
    <3> QED  BY <1>1, <3>1 DEF Arrived
  <2>3. incoming + delivered < sent
    BY <2>1, <2>2 DEF Answered, IsOff
  <2>4. \A p \in ops' : p.type = "read" /\ p.live /\ IsOff(p) => FALSE
    <3>1. \A p \in os : p.type = "read" /\ p.live => p.id \notin hs
      BY <1>6, <2>1
    <3>2. \A p \in os : p.live => p.id \in hs
      BY <1>4 DEF Accounted
    <3> QED  BY <1>7, <2>1, <3>1, <3>2
  <2>5. Answered(ops', incoming, delivered + 1, sent)
    BY <2>3, <2>4 DEF Answered
  <2>6. \A p \in ops' : p.type = "finish" => finished
    BY <1>2, <1>7, <2>1
  <2>7. Listens(ops, held, activeWrite) => Listens(ops', held', activeWrite)
    <3>1. \A p \in ops : p.type = "write" /\ p.id \in held => p \in os /\ p.id \in hs
      BY <2>1 DEF Accounted
    <3>2. next \in ops' /\ next.type = "read" /\ next.live /\ next.id \in held'
      BY <1>7, <2>1
    <3> QED  BY <2>1, <3>1, <3>2 DEF Listens
  <2>8. FinishingInv'
    BY <1>1, <2>1, <2>6, <2>7 DEF FinishingInv, shutdownVars, writeVars
  <2>9. SimplyTyped'
    BY <2>1 DEF SimplyTyped, shutdownVars, writeVars, backendVars
  <2> QED  BY <1>7, <2>1, <2>5, <2>8, <2>9 DEF writeVars, backendVars, Bounded
<1>10. ASSUME NEW os2 \in SUBSET Ops, NEW hs2, NEW n, NEW notify \in BOOLEAN,
              OneOfEach(os2, hs2, n, activeWrite),
              Answered(os2, incoming, delivered, sent), Positive(os2, worker'),
              \A p \in os2 : p.type = "finish" => finished,
              finished \/ hs2 # {}, Finish(notify, os2, hs2),
              lastOp' = n, UNCHANGED <<alive, writeVars, backendVars, delivered>>
       PROVE  UsageInv'
  <2>1. /\ OneOfEach(ops', held', n, activeWrite)
        /\ Answered(ops', incoming, delivered, sent)
        /\ Positive(ops', worker')
        /\ finished' = TRUE
        /\ waiting' \in {"shutdown", "drain"}
        /\ \A p \in ops' : p.type = "finish" => waiting' = "drain"
        /\ call' \in {"open", "ended", "cancelled"}
        /\ notifies' \in BOOLEAN
        /\ ending' \in {"none", "notified", "client"}
    BY <1>10, EndingOne
  <2>2. FinishingInv'
    BY <1>10, <2>1 DEF FinishingInv, writeVars
  <2>3. SimplyTyped'
    BY <1>10, <2>1 DEF SimplyTyped, writeVars, backendVars
  <2> QED  BY <1>10, <2>1, <2>2, <2>3 DEF writeVars, backendVars, Bounded
<1>11. CASE OnReadUnparsable(o)
  <2> DEFINE os2 == os \cup {next}
             hs2 == hs \cup {lastOp + 1}
  <2>1. /\ Finish(FALSE, os2, hs2) /\ lastOp' = lastOp + 1
        /\ o.live /\ o.type = "read"
        /\ UNCHANGED <<alive, writeVars, backendVars, delivered>>
    BY <1>11 DEF OnReadUnparsable
  <2>2. /\ OneOfEach(os2, hs2, lastOp + 1, activeWrite)
        /\ Answered(os2, incoming, delivered, sent) /\ Positive(os2, worker')
        /\ \A p \in os2 : p.type = "finish" => finished
        /\ os2 \in SUBSET Ops /\ hs2 # {}
    BY <1>2, <1>4, <1>7, <2>1
  <2> HIDE DEF os2, hs2
  <2> QED  BY <1>10, <2>1, <2>2
<1>12. CASE OnWrite(o)
  <2>1. /\ TryStartWrite(buffered, FALSE, os, hs)
        /\ o.live /\ o.type = "write"
        /\ UNCHANGED <<shutdownVars, submitted, call, backendVars, delivered>>
    BY <1>12 DEF OnWrite
  <2>2. OneOfEach(os, hs, lastOp, FALSE)
    BY <1>2, <1>6, <2>1 DEF OneOfEach
  <2>3. /\ OneOfEach(ops', held', lastOp', activeWrite')
        /\ Answered(ops', incoming, delivered, sent)
        /\ Positive(ops', worker')
        /\ Ordered(written', buffered', submitted)
        /\ activeWrite' \in BOOLEAN
        /\ buffered' # <<>> => activeWrite'
        /\ \A p \in ops' : p.type = "finish" => p \in os
        /\ Listens(os, hs, FALSE) => Listens(ops', held', activeWrite')
    <3>1. lastOp \in Nat /\ Ordered(written, buffered, submitted)
      OBVIOUS
    <3> HIDE DEF os, hs, GrpcInv, CompletionInv, UsageInv
    <3> QED  BY <1>2, <1>3, <1>4, <2>1, <2>2, <3>1, WritingOne
  <2>4. Listens(ops, held, activeWrite) => Listens(os, hs, FALSE)
    BY <2>1 DEF Listens, Accounted
  <2>5. FinishingInv'
    BY <1>2, <2>1, <2>3, <2>4 DEF FinishingInv, shutdownVars
  <2>6. SimplyTyped'
    BY <2>1, <2>3 DEF SimplyTyped, shutdownVars, backendVars
  <2> QED  BY <2>1, <2>3, <2>5, <2>6 DEF backendVars, Bounded
<1>13. CASE OnOperationFailed(o)
  <2>1. /\ held' = hs /\ o.live
        /\ UNCHANGED <<lastOp, alive, notifies, ending, writeVars, call,
                       backendVars, delivered>>
        /\ \/ finished /\ ops' = os /\ UNCHANGED <<finished, waiting>>
           \/ /\ ~finished /\ ops' = CancelCallbacks(os, hs)
              /\ finished' = TRUE /\ waiting' = "finish"
    BY <1>13 DEF OnOperationFailed
  <2>2. /\ OneOfEach(ops', held', lastOp, activeWrite)
        /\ Answered(ops', incoming, delivered, sent)
        /\ Positive(ops', worker')
        /\ \A p \in ops' : p.type = "finish" => finished
    <3>1. CASE ops' = os
      BY <1>2, <1>3, <2>1, <3>1
    <3>2. CASE ops' = CancelCallbacks(os, hs)
      <4>1. /\ OneOfEach(ops', hs, lastOp, activeWrite)
            /\ Answered(ops', incoming, delivered, sent)
            /\ Positive(ops', worker')
            /\ \A c \in ops' : c.type = "finish" => \E p \in os : p.type = "finish"
        BY <1>2, <1>3, <1>4, <3>2, CancellingKeeps
      <4> QED  BY <1>2, <2>1, <4>1
    <3> QED  BY <2>1, <3>1, <3>2
  <2>3. FinishingInv'
    <3>1. CASE finished
      BY <1>1, <2>1, <2>2, <3>1 DEF FinishingInv, writeVars, SimplyTyped
    <3>2. CASE ~finished
      <4>1. \A p \in ops' : p.type # "finish"
        BY <2>2, <3>2
      <4> QED  BY <2>1, <3>2, <4>1 DEF FinishingInv, writeVars
    <3> QED  BY <3>1, <3>2
  <2>4. SimplyTyped'
    BY <2>1 DEF SimplyTyped, writeVars, backendVars
  <2> QED  BY <2>1, <2>2, <2>3, <2>4 DEF writeVars, backendVars, Bounded
<1>14. CASE OnFinished(o)
  <2>1. /\ Finish(TRUE, os, hs) /\ o.type = "finish"
        /\ UNCHANGED <<lastOp, alive, writeVars, backendVars, delivered>>
    BY <1>14 DEF OnFinished
  <2>2. finished
    BY <2>1 DEF FinishingInv
  <2> HIDE DEF os, hs
  <2> QED  BY <1>2, <1>3, <1>4, <1>10, <2>1, <2>2
<1> QED  BY <1>8, <1>9, <1>11, <1>12, <1>13, <1>14

(* gRPC and the poll thread hand an operation on.                          *)
LEMMA HandOnKeeps ==
    ASSUME GrpcInv, UsageInv, OpComesBack \/ \E o \in ops : Enqueues(o)
    PROVE  UsageInv'
<1> USE DEF GrpcInv, CompletionInv, UsageInv
<1>1. PICK o \in ops : \/ ReadComesBack(o) \/ WriteComesBack(o)
                       \/ FinishComesBack(o) \/ Enqueues(o)
  BY DEF OpComesBack
<1>2. o \in Ops
  BY DEF Accounted
<1>3. PICK p \in Ops :
         /\ p.id = o.id /\ p.live = o.live /\ p.type = o.type /\ IsOff(p)
         /\ ops' = (ops \ {o}) \cup {p}
         /\ UNCHANGED <<held, lastOp, shutdownVars, writeVars, call, sent,
                        delivered>>
         /\ worker' \in {worker, Append(worker, o.id)}
         /\ \/ incoming' = incoming
            \/ incoming > 0 /\ incoming' = incoming - 1
         /\ (p.type = "read" /\ p.ok) =>
               \/ o.ok /\ IsOff(o) /\ incoming' = incoming
               \/ incoming > 0 /\ incoming' = incoming - 1
  <2>1. CASE Enqueues(o)
    <3> DEFINE p == [o EXCEPT !.place = "queued"]
    <3>1. /\ p \in Ops /\ p.id = o.id /\ p.live = o.live /\ p.type = o.type
          /\ p.ok = o.ok /\ p.place = "queued"
      BY <1>2 DEF Ops, Places
    <3> HIDE DEF p
    <3>2. /\ o.place = "off"
          /\ ops' = (ops \ {o}) \cup {p}
          /\ worker' = Append(worker, o.id)
          /\ UNCHANGED <<held, lastOp, shutdownVars, writeVars, call, incoming,
                         sent, delivered>>
      BY <2>1 DEF Enqueues, backendVars, p
    <3> QED  BY <3>1, <3>2 DEF IsOff
  <2>2. ASSUME NEW ok \in BOOLEAN, ComesBack(o, ok),
               \/ incoming' = incoming
               \/ incoming > 0 /\ incoming' = incoming - 1,
               o.type = "read" /\ ok => incoming > 0 /\ incoming' = incoming - 1
        PROVE  \E p \in Ops :
         /\ p.id = o.id /\ p.live = o.live /\ p.type = o.type /\ IsOff(p)
         /\ ops' = (ops \ {o}) \cup {p}
         /\ UNCHANGED <<held, lastOp, shutdownVars, writeVars, call, sent,
                        delivered>>
         /\ worker' \in {worker, Append(worker, o.id)}
         /\ \/ incoming' = incoming
            \/ incoming > 0 /\ incoming' = incoming - 1
         /\ (p.type = "read" /\ p.ok) =>
               \/ o.ok /\ IsOff(o) /\ incoming' = incoming
               \/ incoming > 0 /\ incoming' = incoming - 1
    <3> DEFINE p == [o EXCEPT !.place = "off", !.ok = ok]
    <3>1. /\ p \in Ops /\ p.id = o.id /\ p.live = o.live /\ p.type = o.type
          /\ p.ok = ok /\ p.place = "off"
      BY <1>2 DEF Ops, Places
    <3> HIDE DEF p
    <3>2. /\ ops' = (ops \ {o}) \cup {p}
          /\ UNCHANGED <<held, lastOp, worker, shutdownVars, writeVars, call,
                         sent, delivered>>
      BY <2>2 DEF ComesBack, p
    <3> QED  BY <2>2, <3>1, <3>2 DEF IsOff
  <2>3. CASE ReadComesBack(o)
    BY <2>2, <2>3 DEF ReadComesBack
  <2>4. CASE WriteComesBack(o)
    <3>1. PICK ok \in BOOLEAN : ComesBack(o, ok)
      BY <2>4 DEF WriteComesBack
    <3>2. o.type # "read" /\ incoming' = incoming
      BY <2>4 DEF WriteComesBack
    <3> QED  BY <2>2, <3>1, <3>2
  <2>5. CASE FinishComesBack(o)
    BY <2>2, <2>5 DEF FinishComesBack
  <2> QED  BY <1>1, <2>1, <2>3, <2>4, <2>5
<1>4. OneOfEach(ops', held, lastOp, activeWrite)
  BY <1>3 DEF OneOfEach
<1>5. Answered(ops', incoming', delivered, sent)
  <2>1. /\ incoming \in Nat /\ delivered \in Nat /\ sent \in Nat
        /\ incoming + delivered <= sent
    BY DEF Answered
  <2>2. incoming' \in Nat /\ incoming' + delivered <= sent
    BY <1>3, <2>1
  <2>3. ASSUME NEW q \in ops', q.type = "read", q.live, q.ok, IsOff(q)
        PROVE  incoming' + delivered < sent
    <3>1. CASE q = p
      BY <1>3, <2>1, <2>3, <3>1 DEF Answered
    <3>2. CASE q \in ops
      BY <1>3, <2>1, <2>3, <3>2 DEF Answered
    <3> QED  BY <1>3, <3>1, <3>2
  <2> QED  BY <2>1, <2>2, <2>3 DEF Answered
<1>6. Positive(ops', worker')
  <2>1. o.id >= 1 /\ o.id \in Nat /\ worker \in Seq(Nat)
    BY <1>2 DEF Positive, Ops, Arrived
  <2>2. /\ Len(Append(worker, o.id)) = Len(worker) + 1
        /\ Append(worker, o.id)[Len(worker) + 1] = o.id
        /\ \A i \in 1 .. Len(worker) : Append(worker, o.id)[i] = worker[i]
        /\ \A i \in 1 .. Len(worker) + 1 :
              i \in 1 .. Len(worker) \/ i = Len(worker) + 1
    BY <2>1
  <2>3. \A i \in 1 .. Len(worker') : worker'[i] >= 1
    BY <1>3, <2>1, <2>2 DEF Positive
  <2>4. \A q \in ops' : q.id >= 1
    BY <1>3, <2>1 DEF Positive
  <2> QED  BY <2>3, <2>4 DEF Positive
<1>7. Listens(ops, held, activeWrite) => Listens(ops', held, activeWrite)
  <2>1. ASSUME NEW q \in ops, q.live
        PROVE  \E r \in ops' : r.id = q.id /\ r.type = q.type /\ r.live
    BY <1>3, <2>1
  <2> QED  BY <2>1 DEF Listens
<1>8. FinishingInv'
  <2>1. \A q \in ops' : q.type = "finish" => \E r \in ops : r.type = "finish"
    BY <1>3
  <2> QED  BY <1>3, <1>7, <2>1 DEF FinishingInv, shutdownVars, writeVars
<1>9. SimplyTyped'
  BY <1>3 DEF SimplyTyped, shutdownVars, writeVars
<1> QED  BY <1>3, <1>4, <1>5, <1>6, <1>8, <1>9 DEF writeVars, Bounded

LEMMA UsageInvStep == GrpcInv /\ UsageInv /\ [GrpcNext]_grpcVars => UsageInv'
<1> SUFFICES ASSUME GrpcInv, UsageInv, [GrpcNext]_grpcVars PROVE UsageInv'
  OBVIOUS
<1>1. CASE Write \/ FinishImmediately \/ FinishAndNotify \/ WriteAndFinish
             \/ LastWriteWaited
  BY <1>1, UseKeeps
<1>2. CASE FinishGrpcCall \/ Destroy
  BY <1>2, WakeKeeps
<1>3. CASE RunsCallback
  BY <1>3, CallbackKeeps DEF RunsCallback
<1>4. CASE OpComesBack \/ \E o \in ops : Enqueues(o)
  BY <1>4, HandOnKeeps
<1>5. CASE BackendSends \/ CallEnds \/ UNCHANGED grpcVars
  <2>1. /\ UNCHANGED <<opVars, worker, shutdownVars, writeVars, delivered>>
        /\ call' \in {call, "ended"}
        /\ \/ UNCHANGED backendVars
           \/ sent < MaxAnswers /\ sent' = sent + 1 /\ incoming' = incoming + 1
    BY <1>5 DEF BackendSends, CallEnds, grpcVars
  <2>2. Answered(ops', incoming', delivered', sent')
    BY <2>1 DEF UsageInv, Answered, opVars, backendVars
  <2>3. SimplyTyped'
    BY <2>1 DEF UsageInv, SimplyTyped, shutdownVars, writeVars
  <2>4. Bounded'
    BY <2>1, GrpcBoundsAssumption DEF UsageInv, Bounded, writeVars, backendVars
  <2> QED  BY <2>1, <2>2, <2>3, <2>4
           DEF UsageInv, FinishingInv, opVars, shutdownVars, writeVars
<1> QED  BY <1>1, <1>2, <1>3, <1>4, <1>5 DEF GrpcNext

LEMMA UsageInductive == GrpcSpec => []UsageInv
BY UsageInvInit, UsageInvStep, GrpcInductive, PTL DEF GrpcSpec

(* A set whose elements are all the same.                                  *)
LEMMA AtMostOne ==
    ASSUME NEW S, \A x, y \in S : x = y
    PROVE  Cardinality(S) <= 1
<1>1. CASE S = {}
  BY <1>1, FS_EmptySet
<1>2. CASE S # {}
  <2>1. PICK x : S = {x}
    BY <1>2
  <2> QED  BY <2>1, FS_Singleton
<1> QED  BY <1>1, <1>2

(* gRPC has at most one operation of a type, and one "finish" for ever; a  *)
(* read is out while the call goes on; a write that nobody waits for does  *)
(* not keep the next ones back, and they reach gRPC in order (GrpcStream,  *)
(* BufferedWriter): for any number of writes and answers.                  *)
THEOREM GrpcStreamIsConsistent == GrpcSpec => []StreamConsistent
<1>1. GrpcInv /\ UsageInv => StreamConsistent
  <2> SUFFICES ASSUME GrpcInv, UsageInv PROVE StreamConsistent
    OBVIOUS
  <2> USE DEF GrpcInv, CompletionInv, UsageInv
  <2>1. GrpcTypeOK
    <3>1. worker \in Seq(1 .. lastOp)
      <4>1. /\ worker \in Seq(Nat)
            /\ \A i \in 1 .. Len(worker) : worker[i] \in 1 .. lastOp
        BY DEF Arrived, Positive
      <4> QED  BY <4>1
    <3>2. buffered \in Seq(1 .. submitted) /\ written \in Seq(1 .. submitted)
      <4>1. /\ buffered \in Seq(Nat) /\ written \in Seq(Nat)
            /\ Len(buffered) \in Nat /\ Len(written) \in Nat
            /\ Len(written) + Len(buffered) = submitted
        BY DEF Ordered
      <4>2. \A i \in 1 .. Len(buffered) : buffered[i] \in 1 .. submitted
        BY <4>1 DEF Ordered
      <4>3. \A i \in 1 .. Len(written) : written[i] \in 1 .. submitted
        BY <4>1 DEF Ordered
      <4>4. buffered \in Seq(1 .. submitted)
        BY <4>1, <4>2
      <4>5. written \in Seq(1 .. submitted)
        BY <4>1, <4>3
      <4> QED  BY <4>4, <4>5
    <3>3. ops \subseteq Ops /\ held \subseteq 1 .. lastOp
      BY DEF Accounted, OneOfEach
    <3>4. incoming + delivered <= sent
      BY DEF Answered
    <3> QED  BY <3>1, <3>2, <3>3, <3>4 DEF GrpcTypeOK, SimplyTyped, Bounded
  <2>2. OneAtATime
    <3>1. ASSUME NEW type \in Types
          PROVE  Cardinality(InGrpc(type)) <= 1
      <4>1. \A o, p \in InGrpc(type) : o = p
        BY DEF InGrpc, Accounted, OneOfEach
      <4> QED  BY <4>1, AtMostOne
    <3>2. Cardinality(Finishes) <= 1
      <4>1. \A o, p \in Finishes : o = p
        BY DEF Finishes, OneOfEach
      <4> QED  BY <4>1, AtMostOne
    <3>3. (Finishes # {} => finished) /\ (waiting = "finish" => Finishes = {})
      BY DEF Finishes, FinishingInv
    <3> QED  BY <3>1, <3>2, <3>3 DEF OneAtATime
  <2>3. WrittenInOrder
    <3> DEFINE all == written \o buffered
    <3>1. /\ written \in Seq(Nat) /\ buffered \in Seq(Nat)
          /\ Len(buffered) \in Nat /\ Len(written) \in Nat
          /\ Len(written) + Len(buffered) = submitted
      BY DEF Ordered
    <3>2. /\ all \in Seq(Nat) /\ Len(all) = submitted
          /\ \A i \in 1 .. Len(written) : all[i] = written[i]
          /\ \A i \in 1 .. Len(buffered) : all[Len(written) + i] = buffered[i]
      BY <3>1
    <3>3. ASSUME NEW i \in 1 .. submitted
          PROVE  all[i] = i
      <4>1. CASE i <= Len(written)
        BY <3>1, <3>2, <4>1 DEF Ordered
      <4>2. CASE i > Len(written)
        <5>1. PICK j \in 1 .. Len(buffered) : i = Len(written) + j
          <6>1. /\ i - Len(written) \in 1 .. Len(buffered)
                /\ i = Len(written) + (i - Len(written))
            BY <3>1, <4>2
          <6> QED  BY <6>1
        <5>2. all[i] = buffered[j] /\ buffered[j] = Len(written) + j
          BY <3>2, <5>1 DEF Ordered
        <5> QED  BY <5>1, <5>2
      <4> QED  BY <3>1, <4>1, <4>2
    <3>4. all = [i \in 1 .. submitted |-> all[i]]
      <4>1. all \in [1 .. Len(all) -> Nat]
        BY <3>2, LenProperties
      <4> HIDE DEF all
      <4> QED  BY <3>2, <4>1
    <3>5. all = [i \in 1 .. submitted |-> i]
      <4> HIDE DEF all
      <4> QED  BY <3>3, <3>4
    <3> QED  BY <3>5 DEF WrittenInOrder
  <2>4. NeverDeaf
    BY DEF NeverDeaf, FinishingInv, Listens, HeldOps, Free, OneOfEach
  <2> QED  BY <2>1, <2>2, <2>3, <2>4 DEF StreamConsistent
<1> QED  BY <1>1, GrpcInductive, UsageInductive, PTL
=============================================================================
