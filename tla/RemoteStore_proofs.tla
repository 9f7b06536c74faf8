------------------------- MODULE RemoteStore_proofs -------------------------
(***************************************************************************)
(* Theorems about FirestoreClient and about RemoteStore, which implements  *)
(* it: for any people and writes, a worker queue of any length, a pipeline *)
(* of any limit and any number of restarts and disruptions.                *)
(***************************************************************************)
EXTENDS RemoteStore, SequenceTheorems, TLAPS

(* What the queues carry is of the types they hold.                        *)
LEMMA BlocksTyped ==
    /\ \A u \in Owners : Credential(u) \in Blocks
    /\ \A w \in Writes : Write(w) \in Blocks
    /\ \A b \in Blocks : /\ b.type \in {"credential", "write"}
                         /\ b.type = "credential" => b.user \in Owners
                         /\ b.type = "write" => b.write \in Writes
<1>1. \A u \in Owners : Credential(u) \in Blocks
  BY DEF Credential, Blocks
<1>2. \A w \in Writes : Write(w) \in Blocks
  BY DEF Write, Blocks
<1>3. \A b \in Blocks : /\ b.type \in {"credential", "write"}
                        /\ b.type = "credential" => b.user \in Owners
                        /\ b.type = "write" => b.write \in Writes
  BY DEF Blocks
<1> QED  BY <1>1, <1>2, <1>3

LEMMA WrittenTyped ==
    /\ \A w \in Writes, a \in Answers : Written(w, a) \in WrittenItems
    /\ \A m \in WrittenItems : m.write \in Writes /\ m.answer \in Answers
BY DEF Written, WrittenItems

(* The empty queue of blocks, and what appending and taking do to a queue. *)
LEMMA AppendShape ==
    ASSUME NEW S, NEW q \in Seq(S), NEW m \in S
    PROVE  /\ Append(q, m) \in Seq(S)
           /\ Len(Append(q, m)) = Len(q) + 1
           /\ \A i \in 1 .. Len(q) : Append(q, m)[i] = q[i]
           /\ Append(q, m)[Len(q) + 1] = m
OBVIOUS

LEMMA TailShape ==
    ASSUME NEW S, NEW q \in Seq(S), q # <<>>
    PROVE  /\ Tail(q) \in Seq(S)
           /\ Head(q) = q[1]
           /\ Head(q) \in S
           /\ Len(q) \in Nat \ {0}
           /\ Len(Tail(q)) = Len(q) - 1
           /\ \A i \in 1 .. Len(q) - 1 : Tail(q)[i] = q[i + 1]
OBVIOUS

(* The same about the set of what a queue holds.                           *)
LEMMA ToSetOfAppend ==
    ASSUME NEW S, NEW q \in Seq(S), NEW m \in S
    PROVE  ToSet(Append(q, m)) = ToSet(q) \cup {m}
<1>1. DOMAIN Append(q, m) = 1 .. Len(q) + 1 /\ DOMAIN q = 1 .. Len(q)
  OBVIOUS
<1>2. ASSUME NEW x \in ToSet(Append(q, m)) PROVE x \in ToSet(q) \cup {m}
  <2>1. PICK i \in 1 .. Len(q) + 1 : x = Append(q, m)[i]
    BY <1>1 DEF ToSet
  <2> QED  BY <1>1, <2>1, AppendShape DEF ToSet
<1>3. ASSUME NEW x \in ToSet(q) PROVE x \in ToSet(Append(q, m))
  <2>1. PICK i \in 1 .. Len(q) : x = q[i]
    BY <1>1 DEF ToSet
  <2>2. i \in 1 .. Len(q) + 1 /\ Append(q, m)[i] = x
    BY <2>1, AppendShape
  <2> QED  BY <1>1, <2>2 DEF ToSet
<1>4. m \in ToSet(Append(q, m))
  <2>1. Len(q) + 1 \in 1 .. Len(q) + 1
    OBVIOUS
  <2> QED  BY <1>1, <2>1, AppendShape DEF ToSet
<1> QED  BY <1>2, <1>3, <1>4

LEMMA ToSetOfTail ==
    ASSUME NEW S, NEW q \in Seq(S), q # <<>>
    PROVE  ToSet(q) = ToSet(Tail(q)) \cup {Head(q)}
<1>1. DOMAIN Tail(q) = 1 .. Len(q) - 1 /\ DOMAIN q = 1 .. Len(q)
  OBVIOUS
<1>2. ASSUME NEW x \in ToSet(q) PROVE x \in ToSet(Tail(q)) \cup {Head(q)}
  <2>1. PICK i \in 1 .. Len(q) : x = q[i]
    BY <1>1 DEF ToSet
  <2>2. CASE i = 1
    BY <2>1, <2>2, TailShape
  <2>3. CASE i # 1
    <3>1. i - 1 \in 1 .. Len(q) - 1 /\ Tail(q)[i - 1] = x
      BY <2>1, <2>3
    <3> QED  BY <1>1, <3>1 DEF ToSet
  <2> QED  BY <2>2, <2>3
<1>3. ASSUME NEW x \in ToSet(Tail(q)) PROVE x \in ToSet(q)
  <2>1. PICK i \in 1 .. Len(q) - 1 : x = Tail(q)[i]
    BY <1>1 DEF ToSet
  <2>2. i + 1 \in 1 .. Len(q) /\ q[i + 1] = x
    BY <2>1
  <2> QED  BY <1>1, <2>2 DEF ToSet
<1>4. Head(q) \in ToSet(q)
  <2>1. 1 \in 1 .. Len(q) /\ Head(q) = q[1]
    OBVIOUS
  <2> QED  BY <1>1, <2>1 DEF ToSet
<1> QED  BY <1>2, <1>3, <1>4

-----------------------------------------------------------------------------
(* Types                                                                   *)

LEMMA StoreTypeInit == StoreInit => StoreTypeOK
<1> SUFFICES ASSUME StoreInit PROVE StoreTypeOK
  OBVIOUS
<1>1. mutations \in [Owners -> Seq(Writes)]
  BY DEF StoreInit
<1>2. callbacks \in [Owners -> SUBSET Writes]
  BY DEF StoreInit
<1>3. NoUser \in Owners /\ restarts \in 0 .. MaxRestarts
  BY StoreBoundsAssumption DEF StoreInit, Owners
<1>4. worker \in Seq(Blocks) /\ mainQueue \in Seq(WrittenItems)
  BY DEF StoreInit
<1>5. applied \subseteq Writes /\ issued \subseteq Writes
  BY DEF StoreInit
<1>6. /\ created \in BOOLEAN
      /\ credential \in Owners
      /\ syncUser \in Owners \cup {NoEngine}
  BY <1>3 DEF StoreInit
<1> QED
  BY <1>1, <1>2, <1>3, <1>4, <1>5, <1>6 DEF StoreTypeOK

(* What settling the head of the current user's queue does.                *)
LEMMA Settling ==
    ASSUME StoreTypeOK, Sending, NEW a \in Answers, SettleHead(a)
    PROVE  /\ syncUser \in Owners
           /\ mutations[syncUser] \in Seq(Writes)
           /\ mutations[syncUser] # <<>>
           /\ Settled \in Writes
           /\ mutations' \in [Owners -> Seq(Writes)]
           /\ mutations'[syncUser] = Tail(mutations[syncUser])
           /\ callbacks' \in [Owners -> SUBSET Writes]
           /\ callbacks'[syncUser] = callbacks[syncUser] \ {Settled}
           /\ \A u \in Owners : u # syncUser =>
                 /\ mutations'[u] = mutations[u]
                 /\ callbacks'[u] = callbacks[u]
           /\ mainQueue' \in Seq(WrittenItems)
<1>1. syncUser \in Owners /\ mutations[syncUser] # <<>>
  BY DEF StoreTypeOK, Sending
<1>2. mutations[syncUser] \in Seq(Writes)
  BY <1>1 DEF StoreTypeOK
<1>3. Settled \in Writes /\ Tail(mutations[syncUser]) \in Seq(Writes)
  BY <1>1, <1>2 DEF Settled
<1>4. /\ mutations' \in [Owners -> Seq(Writes)]
      /\ mutations'[syncUser] = Tail(mutations[syncUser])
      /\ \A u \in Owners : u # syncUser => mutations'[u] = mutations[u]
  BY <1>1, <1>3 DEF StoreTypeOK, SettleHead, RemoveMutationBatch
<1>5. /\ callbacks' \in [Owners -> SUBSET Writes]
      /\ callbacks'[syncUser] = callbacks[syncUser] \ {Settled}
      /\ \A u \in Owners : u # syncUser => callbacks'[u] = callbacks[u]
  BY <1>1, <1>3 DEF StoreTypeOK, SettleHead, NotifyUser
<1>6. mainQueue' \in Seq(WrittenItems)
  BY <1>3, WrittenTyped DEF StoreTypeOK, SettleHead, NotifyUser, Dispatch
<1> QED  BY <1>1, <1>2, <1>3, <1>4, <1>5, <1>6

(* What committing a write under the current user does.                    *)
LEMMA Committing ==
    ASSUME StoreTypeOK, WriteMutations, syncUser \in Owners
    PROVE  /\ Head(worker).write \in Writes
           /\ mutations' \in [Owners -> Seq(Writes)]
           /\ mutations'[syncUser] =
                 Append(mutations[syncUser], Head(worker).write)
           /\ callbacks' \in [Owners -> SUBSET Writes]
           /\ callbacks'[syncUser] =
                 callbacks[syncUser] \cup {Head(worker).write}
           /\ \A u \in Owners : u # syncUser =>
                 /\ mutations'[u] = mutations[u]
                 /\ callbacks'[u] = callbacks[u]
<1>1. Head(worker) \in Blocks /\ Head(worker).type = "write"
  BY DEF StoreTypeOK, WriteMutations
<1>2. Head(worker).write \in Writes
  BY <1>1, BlocksTyped
<1>3. Append(mutations[syncUser], Head(worker).write) \in Seq(Writes)
  BY <1>2 DEF StoreTypeOK
<1>4. /\ mutations' =
            [mutations EXCEPT
               ![syncUser] = Append(mutations[syncUser], Head(worker).write)]
      /\ callbacks' =
            [callbacks EXCEPT
               ![syncUser] = callbacks[syncUser] \cup {Head(worker).write}]
  BY DEF WriteMutations
<1>5. /\ mutations' \in [Owners -> Seq(Writes)]
      /\ mutations'[syncUser] =
            Append(mutations[syncUser], Head(worker).write)
      /\ \A u \in Owners : u # syncUser => mutations'[u] = mutations[u]
  BY <1>3, <1>4 DEF StoreTypeOK
<1>6. /\ callbacks' \in [Owners -> SUBSET Writes]
      /\ callbacks'[syncUser] =
            callbacks[syncUser] \cup {Head(worker).write}
      /\ \A u \in Owners : u # syncUser => callbacks'[u] = callbacks[u]
  BY <1>2, <1>4 DEF StoreTypeOK
<1> QED  BY <1>2, <1>5, <1>6

(* A write that met no engine would be filed under nobody.                 *)
LEMMA CommittingNowhere ==
    ASSUME StoreTypeOK, WriteMutations, syncUser \notin Owners
    PROVE  mutations' = mutations /\ callbacks' = callbacks
BY DEF StoreTypeOK, WriteMutations

LEMMA StoreTypeStep == StoreTypeOK /\ [StoreNext]_storeVars => StoreTypeOK'
<1> SUFFICES ASSUME StoreTypeOK, [StoreNext]_storeVars PROVE StoreTypeOK'
  OBVIOUS
<1>1. ASSUME NEW u \in Owners, CredentialChanges(u), UNCHANGED mainQueue
      PROVE  StoreTypeOK'
  BY <1>1, BlocksTyped DEF StoreTypeOK, CredentialChanges
<1>2. ASSUME NEW w \in Writes, NEW u \in Owners, SetData(w, u),
             UNCHANGED mainQueue
      PROVE  StoreTypeOK'
  <2>1. worker' \in Seq(Blocks)
    BY <1>2, BlocksTyped DEF StoreTypeOK, SetData
  <2> QED  BY <1>2, <2>1 DEF StoreTypeOK, SetData
<1>3. CASE HandleCredential
  <2>1. Head(worker) \in Blocks /\ Tail(worker) \in Seq(Blocks)
    BY <1>3 DEF StoreTypeOK, HandleCredential
  <2> QED  BY <1>3, <2>1, BlocksTyped DEF StoreTypeOK, HandleCredential
<1>4. CASE WriteMutations
  <2>1. Tail(worker) \in Seq(Blocks)
    BY <1>4 DEF StoreTypeOK, WriteMutations
  <2>2. /\ mutations' \in [Owners -> Seq(Writes)]
        /\ callbacks' \in [Owners -> SUBSET Writes]
    BY <1>4, Committing, CommittingNowhere DEF StoreTypeOK
  <2> QED  BY <1>4, <2>1, <2>2 DEF StoreTypeOK, WriteMutations
<1>5. ASSUME NEW w \in Writes, BackendApplies(w) PROVE StoreTypeOK'
  BY <1>5 DEF StoreTypeOK, BackendApplies
<1>6. ASSUME NEW a \in Answers, Sending, SettleHead(a) PROVE StoreTypeOK'
  BY <1>6, Settling DEF StoreTypeOK, SettleHead
<1>7. CASE DeliverWritten
  BY <1>7 DEF StoreTypeOK, DeliverWritten
<1>8. CASE Relaunch
  <2>1. callbacks' \in [Owners -> SUBSET Writes]
    BY <1>8 DEF Relaunch
  <2>2. NoUser \in Owners /\ restarts' \in 0 .. MaxRestarts
    BY <1>8, StoreBoundsAssumption DEF StoreTypeOK, Relaunch, Owners
  <2>3. worker' \in Seq(Blocks) /\ mainQueue' \in Seq(WrittenItems)
    BY <1>8 DEF Relaunch
  <2>4. /\ created' \in BOOLEAN
        /\ credential' \in Owners
        /\ syncUser' \in Owners \cup {NoEngine}
    BY <1>8, <2>2 DEF Relaunch
  <2>5. UNCHANGED <<mutations, applied, issued>>
    BY <1>8 DEF Relaunch
  <2> QED  BY <2>1, <2>2, <2>3, <2>4, <2>5 DEF StoreTypeOK
<1>9. CASE UNCHANGED storeVars
  BY <1>9 DEF StoreTypeOK, storeVars
<1> QED
  BY <1>1, <1>2, <1>3, <1>4, <1>5, <1>6, <1>7, <1>8, <1>9
     DEF StoreNext, HandleSuccessfulWrite, HandleRejectedWrite, Answers

(* Every variable keeps its type.                                          *)
THEOREM StoreTypeCorrect == StoreSpec => []StoreTypeOK
<1> QED  BY StoreTypeInit, StoreTypeStep, PTL DEF StoreSpec

-----------------------------------------------------------------------------
(* Completion blocks and the writes they belong to                         *)

LEMMA CallbacksStep ==
    StoreTypeOK /\ CallbacksHaveWrites /\ [StoreNext]_storeVars
        => CallbacksHaveWrites'
<1> SUFFICES ASSUME StoreTypeOK, CallbacksHaveWrites, [StoreNext]_storeVars
             PROVE  CallbacksHaveWrites'
  OBVIOUS
<1>1. CASE WriteMutations
  <2>1. CASE syncUser \in Owners
    <3>1. mutations[syncUser] \in Seq(Writes) /\ Head(worker).write \in Writes
      BY <1>1, <2>1, Committing DEF StoreTypeOK
    <3>2. ToSet(Append(mutations[syncUser], Head(worker).write))
            = ToSet(mutations[syncUser]) \cup {Head(worker).write}
      BY <3>1, ToSetOfAppend
    <3> QED
      BY <1>1, <2>1, <3>2, Committing DEF CallbacksHaveWrites, Pending
  <2>2. CASE syncUser \notin Owners
    BY <1>1, <2>2, CommittingNowhere DEF CallbacksHaveWrites, Pending
  <2> QED  BY <2>1, <2>2
<1>2. ASSUME NEW a \in Answers, Sending, SettleHead(a)
      PROVE  CallbacksHaveWrites'
  <2>1. ToSet(mutations[syncUser])
          = ToSet(Tail(mutations[syncUser])) \cup {Settled}
    BY <1>2, Settling, ToSetOfTail DEF Settled
  <2> QED  BY <1>2, <2>1, Settling DEF CallbacksHaveWrites, Pending
<1>3. CASE Relaunch
  BY <1>3 DEF Relaunch, CallbacksHaveWrites, Pending
<1>4. CASE UNCHANGED <<mutations, callbacks>>
  BY <1>4 DEF CallbacksHaveWrites, Pending
<1> QED
  BY <1>1, <1>2, <1>3, <1>4
     DEF StoreNext, HandleSuccessfulWrite, HandleRejectedWrite, Answers,
         CredentialChanges, SetData, HandleCredential, BackendApplies,
         DeliverWritten, storeVars

(* A completion block is on file exactly while its write is queued: no     *)
(* switch of users and no answer separates the two.                        *)
THEOREM BlocksStayWithWrites == StoreSpec => []CallbacksHaveWrites
<1>1. StoreInit => CallbacksHaveWrites
  BY DEF StoreInit, CallbacksHaveWrites, Pending
<1> QED  BY <1>1, StoreTypeCorrect, CallbacksStep, PTL DEF StoreSpec

-----------------------------------------------------------------------------
(* Success is about writes that were applied                               *)

LEMMA SuccessStep ==
    StoreTypeOK /\ SuccessMeansApplied /\ [StoreNext]_storeVars
        => SuccessMeansApplied'
<1> SUFFICES ASSUME StoreTypeOK, SuccessMeansApplied, [StoreNext]_storeVars
             PROVE  SuccessMeansApplied'
  OBVIOUS
<1>q. mainQueue \in Seq(WrittenItems) /\ DOMAIN mainQueue = 1 .. Len(mainQueue)
  BY DEF StoreTypeOK
<1>1. ASSUME NEW a \in Answers, Sending, SettleHead(a),
             a = "ok" => Settled \in applied
      PROVE  SuccessMeansApplied'
  <2>1. applied' = applied
    BY <1>1 DEF SettleHead
  <2>2. CASE mainQueue' = mainQueue
    BY <2>1, <2>2 DEF SuccessMeansApplied
  <2>3. CASE mainQueue' = Append(mainQueue, Written(Settled, a))
    <3>1. Written(Settled, a) \in WrittenItems
      BY <1>1, Settling, WrittenTyped
    <3>2. /\ DOMAIN mainQueue' = 1 .. Len(mainQueue) + 1
          /\ \A i \in 1 .. Len(mainQueue) : mainQueue'[i] = mainQueue[i]
          /\ mainQueue'[Len(mainQueue) + 1] = Written(Settled, a)
      BY <1>q, <2>3, <3>1, AppendShape
    <3>3. Written(Settled, a).answer = a /\ Written(Settled, a).write = Settled
      BY DEF Written
    <3>4. ASSUME NEW i \in DOMAIN mainQueue', mainQueue'[i].answer = "ok"
          PROVE  mainQueue'[i].write \in applied
      <4>1. CASE i \in 1 .. Len(mainQueue)
        BY <1>q, <3>2, <3>4, <4>1 DEF SuccessMeansApplied
      <4>2. CASE i = Len(mainQueue) + 1
        BY <1>1, <3>2, <3>3, <3>4, <4>2
      <4> QED  BY <1>q, <3>2, <4>1, <4>2
    <3> QED  BY <2>1, <3>4 DEF SuccessMeansApplied
  <2> QED  BY <1>1, <2>2, <2>3 DEF SettleHead, NotifyUser, Dispatch
<1>2. CASE HandleSuccessfulWrite
  BY <1>1, <1>2 DEF HandleSuccessfulWrite, Answers, Settled
<1>3. CASE HandleRejectedWrite
  BY <1>1, <1>3 DEF HandleRejectedWrite, Answers
<1>4. CASE DeliverWritten
  <2>1. /\ mainQueue # <<>>
        /\ mainQueue' = Tail(mainQueue)
        /\ applied' = applied
    BY <1>4 DEF DeliverWritten
  <2>2. /\ DOMAIN mainQueue' = 1 .. Len(mainQueue) - 1
        /\ \A i \in 1 .. Len(mainQueue) - 1 :
              mainQueue'[i] = mainQueue[i + 1] /\ i + 1 \in DOMAIN mainQueue
    BY <1>q, <2>1, TailShape
  <2> QED  BY <2>1, <2>2 DEF SuccessMeansApplied
<1>5. ASSUME NEW w \in Writes, BackendApplies(w) PROVE SuccessMeansApplied'
  BY <1>5 DEF BackendApplies, SuccessMeansApplied
<1>6. CASE Relaunch
  BY <1>6 DEF Relaunch, SuccessMeansApplied
<1>7. CASE UNCHANGED <<applied, mainQueue>>
  BY <1>7 DEF SuccessMeansApplied
<1> QED
  BY <1>2, <1>3, <1>4, <1>5, <1>6, <1>7
     DEF StoreNext, CredentialChanges, SetData, HandleCredential,
         WriteMutations, storeVars

(* The app is never told that a write succeeded which no backend applied.  *)
THEOREM SuccessIsEarned == StoreSpec => []SuccessMeansApplied
<1>1. StoreInit => SuccessMeansApplied
  BY DEF StoreInit, SuccessMeansApplied
<1> QED  BY <1>1, StoreTypeCorrect, SuccessStep, PTL DEF StoreSpec

-----------------------------------------------------------------------------
(* Durability                                                              *)

(* No step, a crash and a switch of users included, drops or reorders a    *)
(* queued write: only the head of the current user's queue leaves it.      *)
THEOREM NothingQueuedIsLost == StoreSpec => QueuesAreDurable
<1> DEFINE Kept(u) ==
      \/ mutations'[u] = mutations[u]
      \/ /\ u = syncUser
         /\ \/ /\ mutations[u] # <<>>
               /\ mutations'[u] = Tail(mutations[u])
            \/ \E w \in Writes : mutations'[u] = Append(mutations[u], w)
<1>1. ASSUME StoreTypeOK, StoreNext, NEW u \in Owners PROVE Kept(u)
  <2>1. CASE WriteMutations
    <3>1. CASE syncUser \in Owners
      BY <2>1, <3>1, <1>1, Committing
    <3>2. CASE syncUser \notin Owners
      BY <2>1, <3>2, <1>1, CommittingNowhere
    <3> QED  BY <3>1, <3>2
  <2>2. ASSUME NEW a \in Answers, Sending, SettleHead(a) PROVE Kept(u)
    BY <2>2, <1>1, Settling
  <2>3. CASE UNCHANGED mutations
    BY <2>3
  <2> QED
    BY <1>1, <2>1, <2>2, <2>3
       DEF StoreNext, HandleSuccessfulWrite, HandleRejectedWrite, Answers,
           CredentialChanges, SetData, HandleCredential, BackendApplies,
           DeliverWritten, Relaunch
<1>2. StoreTypeOK /\ [StoreNext]_storeVars
        => [\A u \in Owners : Kept(u)]_storeVars
  BY <1>1
<1> QED
  BY <1>2, StoreTypeCorrect, PTL DEF StoreSpec, QueuesAreDurable

-----------------------------------------------------------------------------
(* Every write is in one place                                             *)

LEMMA InjectiveAppend ==
    ASSUME NEW S, NEW q \in Seq(S), NEW m \in S,
           IsInjective(q), m \notin ToSet(q)
    PROVE  IsInjective(Append(q, m))
<1>1. DOMAIN Append(q, m) = 1 .. Len(q) + 1 /\ DOMAIN q = 1 .. Len(q)
  OBVIOUS
<1>2. \A i \in 1 .. Len(q) : Append(q, m)[i] = q[i] /\ q[i] # m
  BY <1>1, AppendShape DEF ToSet
<1>3. Append(q, m)[Len(q) + 1] = m
  OBVIOUS
<1>4. ASSUME NEW i \in 1 .. Len(q) + 1, NEW j \in 1 .. Len(q) + 1,
             Append(q, m)[i] = Append(q, m)[j]
      PROVE  i = j
  <2>1. CASE i \in 1 .. Len(q) /\ j \in 1 .. Len(q)
    BY <1>1, <1>2, <1>4, <2>1 DEF IsInjective
  <2>2. CASE i = Len(q) + 1 \/ j = Len(q) + 1
    BY <1>2, <1>3, <1>4, <2>2
  <2> QED  BY <2>1, <2>2
<1> QED  BY <1>1, <1>4 DEF IsInjective

LEMMA InjectiveTail ==
    ASSUME NEW S, NEW q \in Seq(S), q # <<>>, IsInjective(q)
    PROVE  IsInjective(Tail(q)) /\ Head(q) \notin ToSet(Tail(q))
<1>1. /\ DOMAIN Tail(q) = 1 .. Len(q) - 1
      /\ DOMAIN q = 1 .. Len(q)
      /\ Len(q) \in Nat \ {0}
      /\ Head(q) = q[1]
  OBVIOUS
<1>2. \A i \in 1 .. Len(q) - 1 : Tail(q)[i] = q[i + 1] /\ i + 1 \in 1 .. Len(q)
  BY TailShape
<1>3. ASSUME NEW i \in 1 .. Len(q) - 1, NEW j \in 1 .. Len(q) - 1,
             Tail(q)[i] = Tail(q)[j]
      PROVE  i = j
  <2>1. i + 1 = j + 1
    BY <1>1, <1>2, <1>3 DEF IsInjective
  <2> QED  BY <2>1
<1>4. ASSUME NEW i \in 1 .. Len(q) - 1, Tail(q)[i] = Head(q) PROVE FALSE
  <2>1. i + 1 = 1
    BY <1>1, <1>2, <1>4 DEF IsInjective
  <2> QED  BY <2>1
<1> QED  BY <1>1, <1>3, <1>4 DEF IsInjective, ToSet

(* A call of setData brings one block that is nowhere yet.                 *)
LEMMA AccountedSetData ==
    ASSUME StoreTypeOK, WritesAccounted, NEW w \in Writes, NEW u \in Owners,
           SetData(w, u), UNCHANGED mainQueue
    PROVE  WritesAccounted'
<1> USE DEF WritesAccounted
<1>1. UNCHANGED <<mutations, mainQueue>> /\ issued' = issued \cup {w}
  BY DEF SetData
<1>2. w \notin issued
  BY DEF SetData
<1>3. \A i \in DOMAIN worker' : worker'[i].type = "write" =>
         \/ i \in DOMAIN worker /\ worker'[i] = worker[i]
         \/ i = Len(worker') /\ worker'[i].write = w
  <2>1. CASE created
    <3>1. worker' = Append(worker, Write(w))
      BY <2>1 DEF SetData
    <3>2. worker \in Seq(Blocks) /\ Write(w) \in Blocks /\ Write(w).write = w
      BY BlocksTyped DEF StoreTypeOK, Write
    <3>3. /\ DOMAIN worker' = 1 .. Len(worker) + 1
          /\ DOMAIN worker = 1 .. Len(worker)
          /\ Len(worker') = Len(worker) + 1
          /\ \A i \in 1 .. Len(worker) : worker'[i] = worker[i]
          /\ worker'[Len(worker) + 1] = Write(w)
      BY <3>1, <3>2, AppendShape
    <3> QED  BY <3>2, <3>3
  <2>2. CASE ~created
    <3>1. worker' = <<Credential(u), Write(w)>>
      BY <2>2 DEF SetData
    <3>2. Credential(u).type = "credential" /\ Write(w).write = w
      BY DEF Credential, Write
    <3>3. /\ DOMAIN worker' = 1 .. 2
          /\ Len(worker') = 2
          /\ worker'[1] = Credential(u)
          /\ worker'[2] = Write(w)
      BY <3>1
    <3> QED  BY <3>2, <3>3
  <2> QED  BY <2>1, <2>2
<1>4. WriteInOnePlace'
  BY <1>1 DEF WriteInOnePlace, OneOwner, QueuedOnce, AnsweredAfterQueued,
              AnsweredOnce, Pending
<1>5. OnlyIssued'
  BY <1>1 DEF OnlyIssued, Pending
<1>6. WaitingIsNowhereElse'
  <2>1. /\ \A v \in Owners : w \notin Pending(v)
        /\ \A j \in DOMAIN mainQueue : mainQueue[j].write # w
    BY <1>2 DEF OnlyIssued
  <2>2. ASSUME NEW i \in DOMAIN worker', worker'[i].type = "write"
        PROVE  /\ worker'[i].write \in issued \cup {w}
               /\ \A v \in Owners : worker'[i].write \notin Pending(v)
               /\ \A j \in DOMAIN mainQueue :
                     mainQueue[j].write # worker'[i].write
    BY <1>3, <2>1, <2>2 DEF WaitingIsNowhereElse, IsWrite
  <2> QED  BY <1>1, <2>2 DEF WaitingIsNowhereElse, IsWrite, Pending
<1>7. WaitingOnce'
  <2>1. \A i \in DOMAIN worker : IsWrite(i) => worker[i].write # w
    BY <1>2 DEF WaitingIsNowhereElse
  <2>2. ASSUME NEW i \in DOMAIN worker', NEW j \in DOMAIN worker',
               worker'[i].type = "write", worker'[j].type = "write",
               worker'[i].write = worker'[j].write
        PROVE  i = j
    BY <1>3, <2>1, <2>2 DEF WaitingOnce, IsWrite
  <2> QED  BY <2>2 DEF WaitingOnce, IsWrite
<1> QED  BY <1>4, <1>5, <1>6, <1>7

(* A change of user brings a block without a write.                        *)
LEMMA AccountedChange ==
    ASSUME StoreTypeOK, WritesAccounted, NEW u \in Owners,
           CredentialChanges(u), UNCHANGED mainQueue
    PROVE  WritesAccounted'
<1> USE DEF WritesAccounted
<1>1. UNCHANGED <<mutations, mainQueue, issued>>
  BY DEF CredentialChanges
<1>2. \A i \in DOMAIN worker' : worker'[i].type = "write" =>
         i \in DOMAIN worker /\ worker'[i] = worker[i]
  <2>1. CASE created
    <3>1. worker' = Append(worker, Credential(u))
      BY <2>1 DEF CredentialChanges
    <3>2. /\ worker \in Seq(Blocks)
          /\ Credential(u) \in Blocks
          /\ Credential(u).type = "credential"
      BY BlocksTyped DEF StoreTypeOK, Credential
    <3>3. /\ DOMAIN worker' = 1 .. Len(worker) + 1
          /\ DOMAIN worker = 1 .. Len(worker)
          /\ \A i \in 1 .. Len(worker) : worker'[i] = worker[i]
          /\ worker'[Len(worker) + 1] = Credential(u)
      BY <3>1, <3>2, AppendShape
    <3> QED  BY <3>2, <3>3
  <2>2. CASE ~created
    BY <2>2 DEF CredentialChanges
  <2> QED  BY <2>1, <2>2
<1>3. WriteInOnePlace' /\ OnlyIssued'
  BY <1>1 DEF WriteInOnePlace, OneOwner, QueuedOnce, AnsweredAfterQueued,
              AnsweredOnce, OnlyIssued, Pending
<1>4. WaitingIsNowhereElse'
  BY <1>1, <1>2 DEF WaitingIsNowhereElse, IsWrite, Pending
<1>5. WaitingOnce'
  BY <1>2 DEF WaitingOnce, IsWrite
<1> QED  BY <1>3, <1>4, <1>5

(* Taking a block moves the others up.                                     *)
LEMMA WorkerTail ==
    ASSUME StoreTypeOK, worker # <<>>, worker' = Tail(worker)
    PROVE  /\ 1 \in DOMAIN worker
           /\ Head(worker) = worker[1]
           /\ \A i \in DOMAIN worker' : /\ i \in Nat \ {0}
                                        /\ i + 1 \in DOMAIN worker
                                        /\ i + 1 # 1
                                        /\ worker'[i] = worker[i + 1]
<1>1. worker \in Seq(Blocks)
  BY DEF StoreTypeOK
<1>2. /\ DOMAIN worker = 1 .. Len(worker)
      /\ DOMAIN worker' = 1 .. Len(worker) - 1
      /\ Len(worker) \in Nat \ {0}
      /\ Head(worker) = worker[1]
      /\ \A i \in 1 .. Len(worker) - 1 : worker'[i] = worker[i + 1]
  BY <1>1, TailShape
<1> QED  BY <1>2

LEMMA AccountedHandled ==
    ASSUME StoreTypeOK, WritesAccounted, worker # <<>>, worker' = Tail(worker),
           UNCHANGED <<mutations, mainQueue, issued>>
    PROVE  WritesAccounted'
<1> USE DEF WritesAccounted
<1>1. WriteInOnePlace' /\ OnlyIssued'
  BY DEF WriteInOnePlace, OneOwner, QueuedOnce, AnsweredAfterQueued,
         AnsweredOnce, OnlyIssued, Pending
<1>2. WaitingIsNowhereElse'
  BY WorkerTail DEF WaitingIsNowhereElse, IsWrite, Pending
<1>3. WaitingOnce'
  <2>1. ASSUME NEW i \in DOMAIN worker', NEW j \in DOMAIN worker',
               worker'[i].type = "write", worker'[j].type = "write",
               worker'[i].write = worker'[j].write
        PROVE  i = j
    <3>1. i + 1 = j + 1
      BY <2>1, WorkerTail DEF WaitingOnce, IsWrite
    <3> QED  BY <3>1, WorkerTail
  <2> QED  BY <2>1 DEF WaitingOnce, IsWrite
<1> QED  BY <1>1, <1>2, <1>3

(* The write leaves the worker queue for the current user's queue.         *)
LEMMA AccountedCommit ==
    ASSUME StoreTypeOK, WritesAccounted, WriteMutations
    PROVE  WritesAccounted'
<1> USE DEF WritesAccounted
<1> DEFINE w == Head(worker).write
<1>1. /\ worker # <<>>
      /\ Head(worker).type = "write"
      /\ worker' = Tail(worker)
      /\ UNCHANGED <<mainQueue, issued>>
  BY DEF WriteMutations
<1>2. CASE syncUser \notin Owners
  BY <1>1, <1>2, CommittingNowhere, AccountedHandled
<1>3. CASE syncUser \in Owners
  <2>1. /\ w \in Writes
        /\ w \in issued
        /\ \A u \in Owners : w \notin Pending(u)
        /\ \A j \in DOMAIN mainQueue : mainQueue[j].write # w
    BY <1>1, <1>3, WorkerTail, Committing DEF WaitingIsNowhereElse, IsWrite
  <2>2. \A i \in DOMAIN worker' :
           worker'[i].type = "write" => worker'[i].write # w
    BY <1>1, WorkerTail DEF WaitingOnce, IsWrite
  <2>3. /\ mutations[syncUser] \in Seq(Writes)
        /\ mutations'[syncUser] = Append(mutations[syncUser], w)
        /\ \A u \in Owners : u # syncUser => mutations'[u] = mutations[u]
    BY <1>3, Committing DEF StoreTypeOK
  <2>4. ToSet(Append(mutations[syncUser], w)) = Pending(syncUser) \cup {w}
    BY <2>1, <2>3, ToSetOfAppend DEF Pending
  <2>5. \A u \in Owners :
           Pending(u)' = IF u = syncUser THEN Pending(u) \cup {w}
                                         ELSE Pending(u)
    BY <2>3, <2>4 DEF Pending
  <2>6. IsInjective(Append(mutations[syncUser], w))
    BY <1>3, <2>1, <2>3, InjectiveAppend
       DEF WriteInOnePlace, QueuedOnce, Pending
  <2>7. OneOwner'
    BY <2>1, <2>5 DEF WriteInOnePlace, OneOwner
  <2>8. QueuedOnce'
    BY <2>3, <2>6 DEF WriteInOnePlace, QueuedOnce
  <2>9. AnsweredAfterQueued' /\ AnsweredOnce'
    BY <1>1, <2>1, <2>5
       DEF WriteInOnePlace, AnsweredAfterQueued, AnsweredOnce
  <2>10. OnlyIssued'
    BY <1>1, <2>1, <2>5 DEF OnlyIssued
  <2>11. WaitingIsNowhereElse'
    BY <1>1, <2>2, <2>5, WorkerTail DEF WaitingIsNowhereElse, IsWrite
  <2>12. WaitingOnce'
    <3>1. ASSUME NEW i \in DOMAIN worker', NEW j \in DOMAIN worker',
                 worker'[i].type = "write", worker'[j].type = "write",
                 worker'[i].write = worker'[j].write
          PROVE  i = j
      <4>1. i + 1 = j + 1
        BY <1>1, <3>1, WorkerTail DEF WaitingOnce, IsWrite
      <4> QED  BY <1>1, <4>1, WorkerTail
    <3> QED  BY <3>1 DEF WaitingOnce, IsWrite
  <2> QED
    BY <2>7, <2>8, <2>9, <2>10, <2>11, <2>12 DEF WriteInOnePlace
<1> QED  BY <1>2, <1>3

(* A settled write leaves its queue, for the main queue or for good.       *)
LEMMA AccountedSettle ==
    ASSUME StoreTypeOK, WritesAccounted, Sending, NEW a \in Answers,
           SettleHead(a)
    PROVE  WritesAccounted'
<1> USE DEF WritesAccounted
<1>1. UNCHANGED <<worker, issued>>
  BY DEF SettleHead
<1>2. /\ syncUser \in Owners
      /\ mutations[syncUser] \in Seq(Writes)
      /\ mutations[syncUser] # <<>>
      /\ Settled = Head(mutations[syncUser])
      /\ mutations'[syncUser] = Tail(mutations[syncUser])
      /\ \A u \in Owners : u # syncUser => mutations'[u] = mutations[u]
  BY Settling DEF Settled
<1>3. /\ Pending(syncUser) = ToSet(Tail(mutations[syncUser])) \cup {Settled}
      /\ Settled \notin ToSet(Tail(mutations[syncUser]))
      /\ IsInjective(Tail(mutations[syncUser]))
  BY <1>2, ToSetOfTail, InjectiveTail DEF WriteInOnePlace, QueuedOnce, Pending
<1>4. \A u \in Owners :
         Pending(u)' = IF u = syncUser THEN Pending(u) \ {Settled}
                                       ELSE Pending(u)
  BY <1>2, <1>3 DEF Pending
<1>5. Settled \in Pending(syncUser)
  BY <1>3
<1>6. \A u \in Owners : Settled \notin Pending(u)'
  BY <1>2, <1>4, <1>5 DEF WriteInOnePlace, OneOwner
<1>7. /\ \A i \in DOMAIN mainQueue' :
            \/ i \in DOMAIN mainQueue /\ mainQueue'[i] = mainQueue[i]
            \/ i = Len(mainQueue) + 1 /\ mainQueue'[i].write = Settled
  <2>1. CASE mainQueue' = mainQueue
    BY <2>1
  <2>2. CASE mainQueue' = Append(mainQueue, Written(Settled, a))
    <3>1. /\ mainQueue \in Seq(WrittenItems)
          /\ Written(Settled, a) \in WrittenItems
          /\ Written(Settled, a).write = Settled
      BY Settling, WrittenTyped DEF StoreTypeOK, Written
    <3>2. /\ DOMAIN mainQueue' = 1 .. Len(mainQueue) + 1
          /\ DOMAIN mainQueue = 1 .. Len(mainQueue)
          /\ \A i \in 1 .. Len(mainQueue) : mainQueue'[i] = mainQueue[i]
          /\ mainQueue'[Len(mainQueue) + 1] = Written(Settled, a)
      BY <2>2, <3>1, AppendShape
    <3> QED  BY <3>1, <3>2
  <2> QED  BY <2>1, <2>2 DEF SettleHead, NotifyUser, Dispatch
<1>8. OneOwner' /\ QueuedOnce'
  BY <1>2, <1>3, <1>4 DEF WriteInOnePlace, OneOwner, QueuedOnce
<1>9. AnsweredAfterQueued'
  BY <1>4, <1>6, <1>7 DEF WriteInOnePlace, AnsweredAfterQueued
<1>10. AnsweredOnce'
  <2>1. \A i \in DOMAIN mainQueue : mainQueue[i].write # Settled
    BY <1>2, <1>5 DEF WriteInOnePlace, AnsweredAfterQueued
  <2> QED
    BY <1>7, <2>1 DEF WriteInOnePlace, AnsweredOnce
<1>11. OnlyIssued'
  <2>1. Settled \in issued
    BY <1>2, <1>5 DEF OnlyIssued
  <2> QED  BY <1>1, <1>4, <1>7, <2>1 DEF OnlyIssued
<1>12. WaitingIsNowhereElse'
  <2>1. \A i \in DOMAIN worker : IsWrite(i) => worker[i].write # Settled
    BY <1>2, <1>5 DEF WaitingIsNowhereElse
  <2>2. ASSUME NEW i \in DOMAIN worker, IsWrite(i)
        PROVE  /\ worker[i].write \in issued
               /\ \A u \in Owners : worker[i].write \notin Pending(u)'
               /\ \A j \in DOMAIN mainQueue' :
                     mainQueue'[j].write # worker[i].write
    BY <1>4, <1>7, <2>1, <2>2 DEF WaitingIsNowhereElse
  <2> QED  BY <1>1, <2>2 DEF WaitingIsNowhereElse, IsWrite
<1>13. WaitingOnce'
  BY <1>1 DEF WaitingOnce, IsWrite
<1> QED
  BY <1>8, <1>9, <1>10, <1>11, <1>12, <1>13 DEF WriteInOnePlace

(* A completion block that has run is gone.                                *)
LEMMA AccountedDelivery ==
    ASSUME StoreTypeOK, WritesAccounted, DeliverWritten
    PROVE  WritesAccounted'
<1> USE DEF WritesAccounted
<1>1. UNCHANGED <<worker, mutations, issued>>
  BY DEF DeliverWritten
<1>2. \A i \in DOMAIN mainQueue' : /\ i \in Nat
                                   /\ i + 1 \in DOMAIN mainQueue
                                   /\ mainQueue'[i] = mainQueue[i + 1]
  <2>1. /\ mainQueue \in Seq(WrittenItems)
        /\ mainQueue # <<>>
        /\ mainQueue' = Tail(mainQueue)
    BY DEF StoreTypeOK, DeliverWritten
  <2>2. /\ DOMAIN mainQueue = 1 .. Len(mainQueue)
        /\ DOMAIN mainQueue' = 1 .. Len(mainQueue) - 1
        /\ Len(mainQueue) \in Nat \ {0}
        /\ \A i \in 1 .. Len(mainQueue) - 1 : mainQueue'[i] = mainQueue[i + 1]
    BY <2>1, TailShape
  <2> QED  BY <2>2
<1>3. OneOwner' /\ QueuedOnce' /\ WaitingOnce'
  BY <1>1 DEF WriteInOnePlace, OneOwner, QueuedOnce, WaitingOnce, IsWrite,
              Pending
<1>4. AnsweredAfterQueued' /\ OnlyIssued'
  BY <1>1, <1>2 DEF WriteInOnePlace, AnsweredAfterQueued, OnlyIssued, Pending
<1>5. AnsweredOnce'
  <2>1. ASSUME NEW i \in DOMAIN mainQueue', NEW j \in DOMAIN mainQueue',
               mainQueue'[i].write = mainQueue'[j].write
        PROVE  i = j
    <3>1. i + 1 = j + 1
      BY <1>2, <2>1 DEF WriteInOnePlace, AnsweredOnce
    <3> QED  BY <1>2, <3>1
  <2> QED  BY <2>1 DEF AnsweredOnce
<1>6. WaitingIsNowhereElse'
  BY <1>1, <1>2 DEF WaitingIsNowhereElse, IsWrite, Pending
<1> QED  BY <1>3, <1>4, <1>5, <1>6 DEF WriteInOnePlace

(* A crash empties every queue but those on disk.                          *)
LEMMA AccountedRelaunch ==
    ASSUME WritesAccounted, Relaunch
    PROVE  WritesAccounted'
<1> USE DEF WritesAccounted
<1>1. /\ UNCHANGED <<mutations, issued>>
      /\ DOMAIN worker' = {}
      /\ DOMAIN mainQueue' = {}
  BY DEF Relaunch
<1>2. WriteInOnePlace' /\ OnlyIssued'
  BY <1>1 DEF WriteInOnePlace, OneOwner, QueuedOnce, AnsweredAfterQueued,
              AnsweredOnce, OnlyIssued, Pending
<1>3. WaitingIsNowhereElse' /\ WaitingOnce'
  BY <1>1 DEF WaitingIsNowhereElse, WaitingOnce
<1> QED  BY <1>2, <1>3

LEMMA AccountedUnchanged ==
    ASSUME WritesAccounted, UNCHANGED <<worker, mutations, issued, mainQueue>>
    PROVE  WritesAccounted'
BY DEF WritesAccounted, WriteInOnePlace, OneOwner, QueuedOnce,
       AnsweredAfterQueued, AnsweredOnce, OnlyIssued, WaitingIsNowhereElse,
       WaitingOnce, IsWrite, Pending

LEMMA AccountedInit == StoreInit => WritesAccounted
BY DEF StoreInit, WritesAccounted, WriteInOnePlace, OneOwner, QueuedOnce,
       AnsweredAfterQueued, AnsweredOnce, OnlyIssued, WaitingIsNowhereElse,
       WaitingOnce, Pending, IsInjective, ToSet

LEMMA AccountedStep ==
    StoreTypeOK /\ WritesAccounted /\ [StoreNext]_storeVars => WritesAccounted'
<1> SUFFICES ASSUME StoreTypeOK, WritesAccounted, [StoreNext]_storeVars
             PROVE  WritesAccounted'
  OBVIOUS
<1>1. ASSUME NEW u \in Owners, CredentialChanges(u), UNCHANGED mainQueue
      PROVE  WritesAccounted'
  BY <1>1, AccountedChange
<1>2. ASSUME NEW w \in Writes, NEW u \in Owners, SetData(w, u),
             UNCHANGED mainQueue
      PROVE  WritesAccounted'
  BY <1>2, AccountedSetData
<1>3. CASE HandleCredential
  BY <1>3, AccountedHandled DEF HandleCredential
<1>4. CASE WriteMutations
  BY <1>4, AccountedCommit
<1>5. ASSUME NEW w \in Writes, BackendApplies(w) PROVE WritesAccounted'
  BY <1>5, AccountedUnchanged DEF BackendApplies
<1>6. ASSUME NEW a \in Answers, Sending, SettleHead(a)
      PROVE  WritesAccounted'
  BY <1>6, AccountedSettle
<1>7. CASE DeliverWritten
  BY <1>7, AccountedDelivery
<1>8. CASE Relaunch
  BY <1>8, AccountedRelaunch
<1>9. CASE UNCHANGED storeVars
  BY <1>9, AccountedUnchanged DEF storeVars
<1> QED
  BY <1>1, <1>2, <1>3, <1>4, <1>5, <1>6, <1>7, <1>8, <1>9
     DEF StoreNext, HandleSuccessfulWrite, HandleRejectedWrite, Answers

(* No write is ever queued or answered twice, whatever order users and     *)
(* crashes come in.                                                        *)
THEOREM EveryWriteInOnePlace == StoreSpec => []WriteInOnePlace
<1>1. WritesAccounted => WriteInOnePlace
  BY DEF WritesAccounted
<1> QED  BY <1>1, AccountedInit, AccountedStep, StoreTypeCorrect, PTL DEF StoreSpec

-----------------------------------------------------------------------------
(* The worker's user is the provider's user, late                          *)

(* SyncUserAfter with its queue and its engine's user as parameters.       *)
UserAfter(q, s, n, u) ==
    \/ /\ \A i \in 1 .. n : q[i].type # "credential"
       /\ s = u
    \/ \E i \in 1 .. n : /\ q[i].type = "credential"
                        /\ q[i].user = u
                        /\ \A j \in i + 1 .. n : q[j].type # "credential"

WritesHaveEngine(q, s) ==
    \A i \in 1 .. Len(q) :
        q[i].type = "write" => \E u \in Owners : UserAfter(q, s, i, u)

(* A block more keeps what was said of the earlier ones.                   *)
LEMMA UserAfterKept ==
    ASSUME NEW q, NEW r, NEW s, NEW n \in Nat, NEW u,
           \A i \in 1 .. n : r[i] = q[i]
    PROVE  UserAfter(r, s, n, u) <=> UserAfter(q, s, n, u)
BY DEF UserAfter

LEMMA UserAfterChange ==
    ASSUME NEW q, NEW s, NEW n \in Nat, NEW u,
           q[n + 1].type = "credential", q[n + 1].user = u
    PROVE  UserAfter(q, s, n + 1, u)
BY DEF UserAfter

LEMMA UserAfterWrite ==
    ASSUME NEW q, NEW s, NEW n \in Nat, NEW u,
           q[n + 1].type # "credential", UserAfter(q, s, n, u)
    PROVE  UserAfter(q, s, n + 1, u)
<1>1. CASE s = u /\ \A i \in 1 .. n : q[i].type # "credential"
  <2>1. \A i \in 1 .. n + 1 : i \in 1 .. n \/ i = n + 1
    OBVIOUS
  <2> QED  BY <1>1, <2>1 DEF UserAfter
<1>2. ASSUME NEW i \in 1 .. n, q[i].type = "credential", q[i].user = u,
             \A j \in i + 1 .. n : q[j].type # "credential"
      PROVE  UserAfter(q, s, n + 1, u)
  <2>1. \A j \in i + 1 .. n + 1 : j \in i + 1 .. n \/ j = n + 1
    OBVIOUS
  <2>2. i \in 1 .. n + 1
    OBVIOUS
  <2> QED  BY <1>2, <2>1, <2>2 DEF UserAfter
<1> QED  BY <1>1, <1>2 DEF UserAfter

(* The oldest block runs: t is the engine's user afterwards.               *)
LEMMA UserAfterTail ==
    ASSUME NEW q, NEW r, NEW s, NEW t, NEW n \in Nat, NEW u,
           \A i \in 1 .. n : r[i] = q[i + 1],
           IF q[1].type = "credential" THEN t = q[1].user ELSE t = s,
           UserAfter(q, s, n + 1, u)
    PROVE  UserAfter(r, t, n, u)
<1>1. CASE s = u /\ \A i \in 1 .. n + 1 : q[i].type # "credential"
  <2>1. \A i \in 1 .. n : r[i].type # "credential"
    BY <1>1
  <2>2. 1 \in 1 .. n + 1
    OBVIOUS
  <2>3. t = u
    BY <1>1, <2>2
  <2> QED  BY <2>1, <2>3 DEF UserAfter
<1>2. ASSUME NEW i \in 1 .. n + 1, q[i].type = "credential", q[i].user = u,
             \A j \in i + 1 .. n + 1 : q[j].type # "credential"
      PROVE  UserAfter(r, t, n, u)
  <2>1. CASE i = 1
    <3>1. \A j \in 1 .. n : r[j].type # "credential"
      <4>1. ASSUME NEW j \in 1 .. n PROVE r[j].type # "credential"
        <5>1. j + 1 \in i + 1 .. n + 1
          BY <2>1
        <5> QED  BY <1>2, <5>1
      <4> QED  BY <4>1
    <3>2. t = u
      BY <1>2, <2>1
    <3> QED  BY <3>1, <3>2 DEF UserAfter
  <2>2. CASE i # 1
    <3>1. PICK k \in 1 .. n : k + 1 = i
      <4>1. i - 1 \in 1 .. n /\ (i - 1) + 1 = i
        BY <2>2
      <4> QED  BY <4>1
    <3>2. r[k].type = "credential" /\ r[k].user = u
      BY <1>2, <3>1
    <3>3. ASSUME NEW j \in k + 1 .. n PROVE r[j].type # "credential"
      <4>1. j \in 1 .. n /\ j + 1 \in i + 1 .. n + 1
        BY <3>1
      <4> QED  BY <1>2, <4>1
    <3> QED  BY <3>2, <3>3 DEF UserAfter
  <2> QED  BY <2>1, <2>2
<1> QED  BY <1>1, <1>2 DEF UserAfter

(* WorkerFollowsProvider in these terms, in a state and in the next.       *)
LEMMA FollowsMeans ==
    /\ WorkerFollowsProvider <=>
          /\ created => UserAfter(worker, syncUser, Len(worker), credential)
          /\ WritesHaveEngine(worker, syncUser)
    /\ WorkerFollowsProvider' <=>
          /\ created' =>
                UserAfter(worker', syncUser', Len(worker'), credential')
          /\ WritesHaveEngine(worker', syncUser')
BY DEF WorkerFollowsProvider, SyncUserAfter, IsChange, UserAfter,
       WritesHaveEngine

(* A block m is added to the queue of an engine that stays.                *)
LEMMA FollowsAppend ==
    ASSUME NEW q \in Seq(Blocks), NEW s, NEW m \in Blocks,
           NEW u \in Owners, NEW v \in Owners,
           UserAfter(q, s, Len(q), u), WritesHaveEngine(q, s),
           IF m.type = "credential" THEN v = m.user ELSE v = u
    PROVE  /\ UserAfter(Append(q, m), s, Len(Append(q, m)), v)
           /\ WritesHaveEngine(Append(q, m), s)
<1> DEFINE r == Append(q, m)
           n == Len(q)
<1>1. /\ n \in Nat
      /\ Len(r) = n + 1
      /\ \A i \in 1 .. n : r[i] = q[i]
      /\ r[n + 1] = m
  BY AppendShape
<1> HIDE DEF r, n
<1>2. UserAfter(r, s, n + 1, v)
  <2>1. CASE m.type = "credential"
    BY <1>1, <2>1, UserAfterChange
  <2>2. CASE m.type # "credential"
    <3>1. UserAfter(r, s, n, u)
      BY <1>1, UserAfterKept DEF n
    <3> QED  BY <1>1, <2>2, <3>1, UserAfterWrite
  <2> QED  BY <2>1, <2>2
<1>3. ASSUME NEW i \in 1 .. n + 1, r[i].type = "write"
      PROVE  \E w \in Owners : UserAfter(r, s, i, w)
  <2>1. CASE i = n + 1
    BY <1>2, <2>1
  <2>2. CASE i # n + 1
    <3>1. i \in 1 .. n /\ q[i].type = "write"
      BY <1>1, <1>3, <2>2
    <3>2. PICK w \in Owners : UserAfter(q, s, i, w)
      BY <3>1 DEF WritesHaveEngine, n
    <3>3. \A j \in 1 .. i : r[j] = q[j]
      BY <1>1, <3>1
    <3> QED  BY <3>2, <3>3, UserAfterKept
  <2> QED  BY <2>1, <2>2
<1>4. WritesHaveEngine(r, s)
  BY <1>1, <1>3 DEF WritesHaveEngine
<1> QED  BY <1>1, <1>2, <1>4 DEF r

(* The oldest block runs on a queue q, and t is the user afterwards.       *)
LEMMA FollowsTail ==
    ASSUME NEW q \in Seq(Blocks), q # <<>>, NEW s, NEW t,
           IF q[1].type = "credential" THEN t = q[1].user ELSE t = s,
           WritesHaveEngine(q, s)
    PROVE  /\ \A u : UserAfter(q, s, Len(q), u)
                        => UserAfter(Tail(q), t, Len(Tail(q)), u)
           /\ WritesHaveEngine(Tail(q), t)
<1> DEFINE r == Tail(q)
           n == Len(q) - 1
<1>1. /\ n \in Nat
      /\ Len(r) = n
      /\ Len(q) = n + 1
      /\ \A i \in 1 .. n : r[i] = q[i + 1]
  BY TailShape
<1> HIDE DEF r, n
<1>2. ASSUME NEW u, UserAfter(q, s, Len(q), u)
      PROVE  UserAfter(r, t, n, u)
  BY <1>1, <1>2, UserAfterTail
<1>3. ASSUME NEW i \in 1 .. n, r[i].type = "write"
      PROVE  \E u \in Owners : UserAfter(r, t, i, u)
  <2>1. i + 1 \in 1 .. Len(q) /\ q[i + 1].type = "write" /\ i \in Nat
    BY <1>1, <1>3
  <2>2. PICK u \in Owners : UserAfter(q, s, i + 1, u)
    BY <2>1 DEF WritesHaveEngine
  <2>3. \A j \in 1 .. i : r[j] = q[j + 1]
    BY <1>1
  <2>4. UserAfter(r, t, i, u)
    BY <2>1, <2>2, <2>3, UserAfterTail
  <2> QED  BY <2>4
<1>4. WritesHaveEngine(r, t)
  BY <1>1, <1>3 DEF WritesHaveEngine
<1> QED  BY <1>1, <1>2, <1>4 DEF r

LEMMA FollowsStep ==
    StoreTypeOK /\ WorkerFollowsProvider /\ [StoreNext]_storeVars
        => WorkerFollowsProvider'
<1> SUFFICES ASSUME StoreTypeOK, WorkerFollowsProvider, [StoreNext]_storeVars
             PROVE  WorkerFollowsProvider'
  OBVIOUS
<1>q. worker \in Seq(Blocks) /\ credential \in Owners
  BY DEF StoreTypeOK
<1>f. /\ created => UserAfter(worker, syncUser, Len(worker), credential)
      /\ WritesHaveEngine(worker, syncUser)
  BY FollowsMeans
<1>1. ASSUME NEW u \in Owners, CredentialChanges(u)
      PROVE  WorkerFollowsProvider'
  <2>1. CASE created
    <3>1. /\ worker' = Append(worker, Credential(u))
          /\ credential' = u
          /\ syncUser' = syncUser
      BY <1>1, <2>1 DEF CredentialChanges
    <3>2. /\ Credential(u) \in Blocks
          /\ Credential(u).type = "credential"
          /\ Credential(u).user = u
      BY BlocksTyped DEF Credential
    <3>3. /\ UserAfter(worker', syncUser', Len(worker'), credential')
          /\ WritesHaveEngine(worker', syncUser')
      BY <1>q, <1>f, <2>1, <3>1, <3>2, FollowsAppend
    <3> QED  BY <3>3, FollowsMeans
  <2>2. CASE ~created
    <3>1. UNCHANGED <<created, credential, worker, syncUser>>
      BY <1>1, <2>2 DEF CredentialChanges
    <3> QED  BY <1>f, <3>1, FollowsMeans
  <2> QED  BY <2>1, <2>2
<1>2. ASSUME NEW w \in Writes, NEW u \in Owners, SetData(w, u)
      PROVE  WorkerFollowsProvider'
  <2>0. /\ Write(w) \in Blocks
        /\ Write(w).type = "write"
        /\ Credential(u) \in Blocks
        /\ Credential(u).type = "credential"
        /\ Credential(u).user = u
    BY BlocksTyped DEF Write, Credential
  <2>1. CASE created
    <3>1. /\ worker' = Append(worker, Write(w))
          /\ credential' = credential
          /\ syncUser' = syncUser
      BY <1>2, <2>1 DEF SetData
    <3>2. /\ UserAfter(worker', syncUser', Len(worker'), credential')
          /\ WritesHaveEngine(worker', syncUser')
      BY <1>q, <1>f, <2>0, <2>1, <3>1, FollowsAppend
    <3> QED  BY <3>2, FollowsMeans
  <2>2. CASE ~created
    <3>1. /\ worker' = <<Credential(u), Write(w)>>
          /\ credential' = u
      BY <1>2, <2>2 DEF SetData
    <3>2. /\ Len(worker') = 2
          /\ worker'[1] = Credential(u)
          /\ worker'[2] = Write(w)
      BY <3>1
    <3>3. UserAfter(worker', syncUser', 2, u)
      <4>1. 1 \in 1 .. 2 /\ \A j \in 1 + 1 .. 2 : j = 2
        OBVIOUS
      <4>2. \A j \in 1 + 1 .. 2 : worker'[j].type # "credential"
        BY <2>0, <3>2, <4>1
      <4> QED  BY <2>0, <3>2, <4>1, <4>2 DEF UserAfter
    <3>4. WritesHaveEngine(worker', syncUser')
      <4>1. \A i \in 1 .. 2 : worker'[i].type = "write" => i = 2
        BY <2>0, <3>2
      <4> QED  BY <3>2, <3>3, <4>1 DEF WritesHaveEngine
    <3> QED  BY <3>1, <3>2, <3>3, <3>4, FollowsMeans
  <2> QED  BY <2>1, <2>2
<1>3. CASE HandleCredential \/ WriteMutations
  <2>1. /\ worker # <<>>
        /\ worker' = Tail(worker)
        /\ created' = created
        /\ credential' = credential
    BY <1>3 DEF HandleCredential, WriteMutations
  <2>2. Head(worker) = worker[1]
    BY <1>q, <2>1
  <2>3. IF worker[1].type = "credential" THEN syncUser' = worker[1].user
                                         ELSE syncUser' = syncUser
    BY <1>3, <2>2 DEF HandleCredential, WriteMutations
  <2>4. /\ UserAfter(worker, syncUser, Len(worker), credential)
             => UserAfter(worker', syncUser', Len(worker'), credential')
        /\ WritesHaveEngine(worker', syncUser')
    BY <1>q, <1>f, <2>1, <2>3, FollowsTail
  <2> QED  BY <1>f, <2>1, <2>4, FollowsMeans
<1>4. CASE Relaunch
  <2>1. /\ created' = FALSE
        /\ worker' = <<>>
    BY <1>4 DEF Relaunch
  <2>2. WritesHaveEngine(worker', syncUser')
    BY <2>1 DEF WritesHaveEngine
  <2> QED  BY <2>1, <2>2, FollowsMeans
<1>5. CASE UNCHANGED <<created, credential, worker, syncUser>>
  BY <1>5, <1>f, FollowsMeans
<1> QED
  BY <1>1, <1>2, <1>3, <1>4, <1>5
     DEF StoreNext, BackendApplies, HandleSuccessfulWrite,
         HandleRejectedWrite, SettleHead, DeliverWritten, storeVars

(* A write never meets a client without an engine, and the worker's user   *)
(* is the provider's, late but never wrong.                                *)
THEOREM WorkerKeepsUp == StoreSpec => []WorkerFollowsProvider
<1>1. StoreInit => WorkerFollowsProvider
  BY DEF StoreInit, WorkerFollowsProvider
<1> QED  BY <1>1, StoreTypeCorrect, FollowsStep, PTL DEF StoreSpec

(* The client knows whose write is where, who waits for it and for whom    *)
(* the worker works (FirestoreClient, SyncEngine, LocalStore).             *)
THEOREM ClientIsConsistent == StoreSpec => []ClientConsistent
<1>1. StoreTypeOK /\ WorkerFollowsProvider /\ CallbacksHaveWrites /\ WriteInOnePlace
        => ClientConsistent
  BY DEF ClientConsistent
<1> QED
  BY <1>1, StoreTypeCorrect, WorkerKeepsUp, BlocksStayWithWrites,
     EveryWriteInOnePlace, PTL

(* All of this in one invariant of the client.                             *)
StoreInv == StoreTypeOK /\ WritesAccounted /\ WorkerFollowsProvider

LEMMA StoreInvInit == StoreInit => StoreInv
BY StoreTypeInit, AccountedInit DEF StoreInv, StoreInit, WorkerFollowsProvider

LEMMA StoreInvStep == StoreInv /\ [StoreNext]_storeVars => StoreInv'
BY StoreTypeStep, AccountedStep, FollowsStep DEF StoreInv

-----------------------------------------------------------------------------
(* The pipeline is the front of the queue                                  *)

Full(q) == Min({Len(q), MaxPendingWrites})
FrontOf(q) == SubSeq(q, 1, Full(q))

LEMMA Least ==
    ASSUME NEW a \in Nat, NEW b \in Nat
    PROVE  Min({a, b}) = IF a <= b THEN a ELSE b
BY DEF Min

LEMMA FullShape ==
    ASSUME NEW q \in Seq(Writes)
    PROVE  /\ Full(q) \in 0 .. Len(q) /\ Full(q) <= MaxPendingWrites
           /\ Full(q) = Len(q) \/ Full(q) = MaxPendingWrites
           /\ Len(q) \in Nat /\ MaxPendingWrites \in Nat /\ MaxPendingWrites >= 1
           /\ Full(q) \in Nat
BY LenProperties, PipelineAssumption, Least DEF Full

LEMMA Fronts ==
    ASSUME NEW T, NEW q \in Seq(T), NEW k \in 0 .. Len(q)
    PROVE  /\ SubSeq(q, 1, k) \in Seq(T)
           /\ Len(SubSeq(q, 1, k)) = k
           /\ \A i \in 1 .. k : SubSeq(q, 1, k)[i] = q[i]
           /\ \A i \in 1 .. Len(q) : q[i] \in T
           /\ Len(q) \in Nat /\ DOMAIN q = 1 .. Len(q) /\ k \in Nat
<1>1. Len(q) \in Nat /\ DOMAIN q = 1 .. Len(q) /\ \A i \in 1 .. Len(q) : q[i] \in T
  BY LenProperties, ElementOfSeq
<1>2. /\ SubSeq(q, 1, k) \in Seq(T)
      /\ Len(SubSeq(q, 1, k)) = IF 1 <= k THEN k - 1 + 1 ELSE 0
      /\ \A i \in 1 .. k - 1 + 1 : SubSeq(q, 1, k)[i] = q[1 + i - 1]
  BY <1>1, SubSeqProperties
<1> QED  BY <1>1, <1>2

(* What follows the last batch of the pipeline is what it does not hold.   *)
LEMMA Following ==
    ASSUME NEW q \in Seq(Writes), IsInjective(q), NEW k \in 0 .. Len(q)
    PROVE  After(SubSeq(q, 1, k), q) = SubSeq(q, k + 1, Len(q))
<1> DEFINE p == SubSeq(q, 1, k)
<1>1. /\ p \in Seq(Writes) /\ Len(p) = k
      /\ \A i \in 1 .. k : p[i] = q[i]
      /\ Len(q) \in Nat /\ DOMAIN q = 1 .. Len(q) /\ k \in Nat
  BY Fronts
<1>2. CASE k = 0
  <2>1. p = <<>>
    BY <1>1, <1>2, EmptySeq
  <2>2. SubSeq(q, k + 1, Len(q)) = q
    BY <1>1, <1>2, SubSeqFull
  <2> QED  BY <2>1, <2>2 DEF After
<1>3. CASE k # 0
  <2>1. p # <<>> /\ Last(p) = q[k] /\ k \in DOMAIN q
    BY <1>1, <1>3, EmptySeq DEF Last
  <2>2. Last(p) \in ToSet(q)
    BY <2>1 DEF ToSet
  <2>3. Position(q, Last(p)) = k
    BY <2>1 DEF Position, IsInjective
  <2> HIDE DEF p
  <2>4. After(p, q) = SubSeq(q, k + 1, Len(q))
    BY <2>1, <2>2, <2>3 DEF After
  <2> QED  BY <2>4 DEF p
<1> QED  BY <1>2, <1>3

LEMMA Filling ==
    ASSUME NEW q \in Seq(Writes), IsInjective(q),
           NEW k \in 0 .. Len(q), k <= MaxPendingWrites
    PROVE  /\ NextBatches(SubSeq(q, 1, k), q) \in Seq(Writes)
           /\ SubSeq(q, 1, k) \o NextBatches(SubSeq(q, 1, k), q) = FrontOf(q)
<1> DEFINE p == SubSeq(q, 1, k)
           rest == SubSeq(q, k + 1, Len(q))
<1>1. /\ p \in Seq(Writes) /\ Len(p) = k
      /\ Len(q) \in Nat /\ k \in Nat
      /\ \A i \in 1 .. Len(q) : q[i] \in Writes
      /\ MaxPendingWrites \in Nat
  BY Fronts, PipelineAssumption
<1>2. /\ rest \in Seq(Writes) /\ Len(rest) = Len(q) - k
      /\ \A i \in 1 .. Len(q) - k : rest[i] = q[k + i]
  <2>1. /\ rest \in Seq(Writes)
        /\ Len(rest) = IF k + 1 <= Len(q) THEN Len(q) - (k + 1) + 1 ELSE 0
        /\ \A i \in 1 .. Len(q) - (k + 1) + 1 : rest[i] = q[k + 1 + i - 1]
    BY <1>1, SubSeqProperties
  <2> QED  BY <1>1, <2>1
<1>3. Full(q) \in k .. Len(q)
      /\ Min({Len(q) - k, MaxPendingWrites - k}) = Full(q) - k
  BY <1>1, Least DEF Full
<1>4. NextBatches(p, q) = SubSeq(rest, 1, Full(q) - k)
  BY <1>1, <1>2, <1>3, Following DEF NextBatches
<1>5. SubSeq(rest, 1, Full(q) - k) = SubSeq(q, k + 1, Full(q))
  <2>1. /\ SubSeq(rest, 1, Full(q) - k) \in Seq(Writes)
        /\ Len(SubSeq(rest, 1, Full(q) - k)) = Full(q) - k
        /\ \A i \in 1 .. Full(q) - k : SubSeq(rest, 1, Full(q) - k)[i] = q[k + i]
    <3>1. Full(q) - k \in 0 .. Len(rest)
      BY <1>1, <1>2, <1>3
    <3> HIDE DEF rest
    <3> QED  BY <1>1, <1>2, <1>3, <3>1, Fronts
  <2>2. /\ SubSeq(q, k + 1, Full(q)) \in Seq(Writes)
        /\ Len(SubSeq(q, k + 1, Full(q)))
              = IF k + 1 <= Full(q) THEN Full(q) - (k + 1) + 1 ELSE 0
        /\ \A i \in 1 .. Full(q) - (k + 1) + 1 :
              SubSeq(q, k + 1, Full(q))[i] = q[k + 1 + i - 1]
    BY <1>1, <1>3, SubSeqProperties
  <2> HIDE DEF rest
  <2>3. \A i \in 1 .. Full(q) - k : SubSeq(q, k + 1, Full(q))[i] = q[k + i]
    BY <1>1, <1>3, <2>2
  <2>4. Len(SubSeq(q, k + 1, Full(q))) = Full(q) - k
    BY <1>1, <1>3, <2>2
  <2> QED  BY <2>1, <2>2, <2>3, <2>4, SeqEqual
<1>6. SubSeq(q, k + 1, Full(q)) \in Seq(Writes)
  BY <1>1, <1>3, SubSeqProperties
<1>7. p \o SubSeq(q, k + 1, Full(q)) = FrontOf(q)
  <2>1. 1 \in 1 .. Len(q) + 1 /\ k \in 1 - 1 .. Len(q) /\ Full(q) \in k .. Len(q)
    BY <1>1, <1>3
  <2> QED  BY <2>1, ConcatAdjacentSubSeq DEF FrontOf
<1> QED  BY <1>4, <1>5, <1>6, <1>7

(* After a restart the pipeline is filled from nothing.                    *)
LEMMA FillingAnew ==
    ASSUME NEW q \in Seq(Writes), IsInjective(q)
    PROVE  /\ NextBatches(<<>>, q) \in Seq(Writes)
           /\ <<>> \o NextBatches(<<>>, q) = FrontOf(q)
<1>1. SubSeq(q, 1, 0) = <<>>
  BY SubSeqEmpty
<1>2. 0 \in 0 .. Len(q) /\ 0 <= MaxPendingWrites
  BY LenProperties, PipelineAssumption
<1> QED  BY <1>1, <1>2, Filling

(* The front of the pipeline is the head of the queue, and what is left of *)
(* the pipeline when both are settled is the front of the rest.            *)
LEMMA SettlingFront ==
    ASSUME NEW q \in Seq(Writes), IsInjective(q), q # <<>>
    PROVE  /\ FrontOf(q) # <<>> /\ Head(FrontOf(q)) = Head(q)
           /\ RemoveAt(q, Position(q, Head(q))) = Tail(q)
           /\ Tail(q) \in Seq(Writes) /\ IsInjective(Tail(q))
           /\ Tail(FrontOf(q)) = SubSeq(Tail(q), 1, Full(q) - 1)
           /\ Full(q) - 1 \in 0 .. Len(Tail(q))
<1>1. /\ Full(q) \in 0 .. Len(q) /\ Len(q) \in Nat
      /\ Full(q) = Len(q) \/ Full(q) = MaxPendingWrites
      /\ MaxPendingWrites >= 1
  BY FullShape
<1>2. /\ Len(q) >= 1 /\ Tail(q) \in Seq(Writes) /\ Len(Tail(q)) = Len(q) - 1
      /\ Head(q) = q[1]
      /\ \A i \in 1 .. Len(q) - 1 : Tail(q)[i] = q[i + 1]
  BY HeadTailProperties, EmptySeq, LenProperties
<1>3. Full(q) >= 1 /\ Full(q) - 1 \in 0 .. Len(Tail(q))
  BY <1>1, <1>2
<1>4. /\ FrontOf(q) \in Seq(Writes) /\ Len(FrontOf(q)) = Full(q)
      /\ \A i \in 1 .. Full(q) : FrontOf(q)[i] = q[i]
  BY <1>1, Fronts DEF FrontOf
<1>5. FrontOf(q) # <<>> /\ Head(FrontOf(q)) = Head(q)
  <2>1. FrontOf(q) # <<>>
    BY <1>3, <1>4, EmptySeq
  <2>2. Head(FrontOf(q)) = FrontOf(q)[1]
    BY <1>4, <2>1
  <2> QED  BY <1>1, <1>2, <1>3, <1>4, <2>1, <2>2
<1>6. IsInjective(Tail(q))
  BY InjectiveTail
<1>7. Tail(FrontOf(q)) = SubSeq(Tail(q), 1, Full(q) - 1)
  <2>1. /\ Tail(FrontOf(q)) \in Seq(Writes) /\ Len(Tail(FrontOf(q))) = Full(q) - 1
        /\ \A i \in 1 .. Full(q) - 1 : Tail(FrontOf(q))[i] = FrontOf(q)[i + 1]
    BY <1>4, <1>5, HeadTailProperties
  <2>2. /\ SubSeq(Tail(q), 1, Full(q) - 1) \in Seq(Writes)
        /\ Len(SubSeq(Tail(q), 1, Full(q) - 1)) = Full(q) - 1
        /\ \A i \in 1 .. Full(q) - 1 :
              SubSeq(Tail(q), 1, Full(q) - 1)[i] = Tail(q)[i]
    BY <1>2, <1>3, Fronts
  <2>3. \A i \in 1 .. Full(q) - 1 :
            Tail(FrontOf(q))[i] = SubSeq(Tail(q), 1, Full(q) - 1)[i]
    BY <1>1, <1>2, <1>3, <1>4, <2>1, <2>2
  <2> QED  BY <2>1, <2>2, <2>3, SeqEqual
<1>8. RemoveAt(q, Position(q, Head(q))) = Tail(q)
  <2>1. DOMAIN q = 1 .. Len(q) /\ 1 \in DOMAIN q
    BY <1>1, <1>2, LenProperties
  <2>2. Position(q, Head(q)) = 1
    BY <1>2, <2>1 DEF Position, IsInjective
  <2>3. RemoveAt(q, 1) = SubSeq(q, 1, 1 - 1) \o SubSeq(q, 1 + 1, Len(q))
    BY DEF RemoveAt
  <2>4. SubSeq(q, 1, 1 - 1) = <<>>
    BY SubSeqEmpty
  <2>5. SubSeq(q, 1 + 1, Len(q)) = Tail(q)
    BY TailIsSubSeq
  <2>6. <<>> \o Tail(q) = Tail(q)
    BY <1>2, ConcatEmptySeq
  <2> QED  BY <2>2, <2>3, <2>4, <2>5, <2>6
<1> QED  BY <1>2, <1>3, <1>5, <1>6, <1>7, <1>8

LEMMA FillingAfterFront ==
    ASSUME NEW q \in Seq(Writes), IsInjective(q), q # <<>>
    PROVE  /\ NextBatches(Tail(FrontOf(q)), Tail(q)) \in Seq(Writes)
           /\ Tail(FrontOf(q)) \o NextBatches(Tail(FrontOf(q)), Tail(q))
                 = FrontOf(Tail(q))
<1>1. Full(q) - 1 <= MaxPendingWrites
  BY FullShape
<1> QED  BY <1>1, SettlingFront, Filling

(* A new write may or may not be next.                                     *)
LEMMA FillingAfterWrite ==
    ASSUME NEW q \in Seq(Writes), IsInjective(q), NEW w \in Writes, w \notin ToSet(q)
    PROVE  /\ NextBatches(FrontOf(q), Append(q, w)) \in Seq(Writes)
           /\ FrontOf(q) \o NextBatches(FrontOf(q), Append(q, w))
                 = FrontOf(Append(q, w))
<1>1. /\ Append(q, w) \in Seq(Writes) /\ Len(Append(q, w)) = Len(q) + 1
      /\ \A i \in 1 .. Len(q) : Append(q, w)[i] = q[i]
  BY AppendProperties
<1>2. IsInjective(Append(q, w))
  BY InjectiveAppend
<1>3. Full(q) \in 0 .. Len(q) /\ Full(q) <= MaxPendingWrites /\ Len(q) \in Nat
  BY FullShape
<1>4. Full(q) \in 0 .. Len(Append(q, w))
  BY <1>1, <1>3
<1>5. FrontOf(q) = SubSeq(Append(q, w), 1, Full(q))
  <2>1. /\ FrontOf(q) \in Seq(Writes) /\ Len(FrontOf(q)) = Full(q)
        /\ \A i \in 1 .. Full(q) : FrontOf(q)[i] = q[i]
    BY <1>3, Fronts DEF FrontOf
  <2>2. /\ SubSeq(Append(q, w), 1, Full(q)) \in Seq(Writes)
        /\ Len(SubSeq(Append(q, w), 1, Full(q))) = Full(q)
        /\ \A i \in 1 .. Full(q) : SubSeq(Append(q, w), 1, Full(q))[i] = Append(q, w)[i]
    BY <1>1, <1>4, Fronts
  <2>3. \A i \in 1 .. Full(q) :
            FrontOf(q)[i] = SubSeq(Append(q, w), 1, Full(q))[i]
    BY <1>1, <1>3, <2>1, <2>2
  <2> QED  BY <2>1, <2>2, <2>3, SeqEqual
<1> QED  BY <1>1, <1>2, <1>3, <1>4, <1>5, Filling

-----------------------------------------------------------------------------
(* The inductive invariant of RemoteStore                                  *)

Sent == Writes \cup {Handshake}

(* The stream, its timers and its requests for credentials.                *)
StreamTyped ==
    /\ stream \in States
    /\ handshake \in BOOLEAN
    /\ timers \in SUBSET Timers
CountsTyped ==
    /\ closeCount \in Nat
    /\ asked \in SUBSET Nat
Bookkept == StreamTyped /\ CountsTyped /\ AssertionsHold /\ StreamRunsWhileNeeded

(* The call and the pipeline.  What has been answered has been applied:    *)
(* without it an answer would not be a success.                            *)
CallTyped ==
    /\ pipeline \in Seq(Writes)
    /\ requests \in Seq(Sent)
    /\ responses \in Seq(Sent)
    /\ verdict \in Verdicts
AnswersApplied ==
    \A i \in DOMAIN responses : responses[i] \in Writes => responses[i] \in applied
Carried == CallTyped /\ AnswersMatchPipeline /\ AnswersApplied

TokensKept ==
    /\ streamToken \in Owners \cup {NoToken}
    /\ storedToken \in [Owners -> Owners \cup {NoToken}]
    /\ TokenFollowsUser

Bounded == disruptions \in 0 .. MaxDisruptions

RemoteInv ==
    StoreInv /\ Bookkept /\ Carried /\ PipelineIsFilled /\ TokensKept /\ Bounded

LEMMA Users ==
    /\ NoEngine \notin Owners /\ NoToken \notin Owners
    /\ \A u \in Owners : u # NoEngine
BY NobodyAssumption, HandshakeAssumption DEF Owners

(* The queue of the current user.                                          *)
LEMMA CurrentShape ==
    ASSUME StoreInv
    PROVE  /\ \A u \in Owners : mutations[u] \in Seq(Writes) /\ IsInjective(mutations[u])
           /\ syncUser = NoEngine => Current = <<>>
           /\ syncUser # NoEngine => syncUser \in Owners /\ Current = mutations[syncUser]
BY Users DEF StoreInv, StoreTypeOK, WritesAccounted, WriteInOnePlace, QueuedOnce, Current

LEMMA EmptyFront == FrontOf(<<>>) = <<>>
<1>1. <<>> \in Seq(Writes) /\ Len(<<>>) = 0
  BY EmptySeq
<1>2. Full(<<>>) \in 0 .. Len(<<>>)
  BY <1>1, FullShape
<1>3. Full(<<>>) = 0
  BY <1>1, <1>2
<1>4. SubSeq(<<>>, 1, 0) = <<>>
  BY SubSeqEmpty
<1> QED  BY <1>3, <1>4 DEF FrontOf

LEMMA FilledMeans == PipelineIsFilled <=> pipeline = FrontOf(Current)
BY DEF PipelineIsFilled, FrontOf, Full

LEMMA FilledMeansNext == PipelineIsFilled' <=> pipeline' = FrontOf(Current')
BY DEF PipelineIsFilled, FrontOf, Full

(* A pipeline that holds something is the front of a user's queue.         *)
LEMMA PipelineShape ==
    ASSUME StoreInv, PipelineIsFilled, pipeline # <<>>
    PROVE  /\ syncUser \in Owners /\ syncUser # NoEngine
           /\ mutations[syncUser] \in Seq(Writes) /\ mutations[syncUser] # <<>>
           /\ IsInjective(mutations[syncUser])
           /\ pipeline = FrontOf(mutations[syncUser])
           /\ Head(pipeline) = Head(mutations[syncUser])
           /\ QueueWithout(Head(pipeline)) = Tail(mutations[syncUser])
<1>1. pipeline = FrontOf(Current)
  BY FilledMeans
<1>2. Current # <<>>
  BY <1>1, EmptyFront
<1>3. /\ syncUser # NoEngine /\ syncUser \in Owners /\ Current = mutations[syncUser]
      /\ mutations[syncUser] \in Seq(Writes) /\ IsInjective(mutations[syncUser])
  BY <1>2, CurrentShape
<1> QED  BY <1>1, <1>2, <1>3, SettlingFront DEF QueueWithout

(* A stream that is closed carries nothing.                                *)
LEMMA NothingCarried ==
    ASSUME NoCall', ~IsOpen', pipeline' \in Seq(Writes)
    PROVE  Carried'
<1>1. requests' = <<>> /\ responses' = <<>> /\ verdict' = NoVerdict
  BY DEF NoCall
<1>2. CallTyped'
  BY <1>1 DEF CallTyped, Verdicts
<1> QED  BY <1>1, <1>2 DEF Carried, AnswersMatchPipeline, AnswersApplied

(* Stream::Start, from a stream that is closed for the count-th time.      *)
LEMMA Starts ==
    ASSUME NEW from \in {"Initial", "Error"}, NEW count \in Nat,
           NEW pending \in SUBSET Nat,
           \A n \in pending : n <= count /\ n # count,
           Start(from, count, pending), closeCount' = count, handshake' = FALSE,
           pipeline' # <<>>
    PROVE  Bookkept' /\ ~IsOpen'
<1> USE DEF Bookkept, StreamTyped, CountsTyped, AssertionsHold, StreamRunsWhileNeeded,
            IsOpen, IsStarted, States, Timers
<1>1. CASE from = "Error"
  <2>1. stream' = "Backoff" /\ timers' = {"backoff"} /\ asked' = pending
    BY <1>1 DEF Start
  <2> QED  BY <2>1
<1>2. CASE from = "Initial"
  <2>1. stream' = "Starting" /\ timers' = {} /\ asked' = pending \cup {count}
    BY <1>2 DEF Start
  <2>2. StreamTyped' /\ ~IsOpen'
    BY <2>1
  <2>3. CountsTyped'
    BY <2>1
  <2>4. /\ closeCount' \in asked'
        /\ \A n \in asked' : n <= closeCount'
    BY <2>1
  <2>5. /\ timers' = {} /\ stream' = "Starting" /\ handshake' = FALSE
        /\ pipeline' # <<>>
    BY <2>1
  <2>6. AssertionsHold'
    BY <2>4, <2>5
  <2>7. StreamRunsWhileNeeded'
    BY <2>1
  <2> QED  BY <2>2, <2>3, <2>6, <2>7
<1> QED  BY <1>1, <1>2

LEMMA Stays ==
    ASSUME NEW from \in {"Initial", "Error"}, NEW count \in Nat,
           NEW pending \in SUBSET Nat,
           \A n \in pending : n <= count /\ n # count,
           stream' = from, timers' = {}, asked' = pending,
           closeCount' = count, handshake' = FALSE, pipeline' = <<>>
    PROVE  Bookkept' /\ ~IsOpen'
BY DEF Bookkept, StreamTyped, CountsTyped, AssertionsHold, StreamRunsWhileNeeded,
       IsOpen, IsStarted, States, Timers

LEMMA FillsStopped ==
    ASSUME NEW from \in {"Initial", "Error"}, NEW count \in Nat,
           NEW pending \in SUBSET Nat, NEW p, NEW q,
           \A n \in pending : n <= count /\ n # count,
           FillStopped(p, q, from, count, pending),
           closeCount' = count, handshake' = FALSE
    PROVE  Bookkept' /\ ~IsOpen'
<1>1. CASE pipeline' = <<>>
  <2>1. stream' = from /\ timers' = {} /\ asked' = pending
    BY <1>1 DEF FillStopped
  <2> QED  BY <1>1, <2>1, Stays
<1>2. CASE pipeline' # <<>>
  <2>1. Start(from, count, pending)
    BY <1>2 DEF FillStopped
  <2> QED  BY <1>2, <2>1, Starts
<1> QED  BY <1>1, <1>2

(* Closing outdates every request for credentials; a stream that is not    *)
(* starting waits for none.                                                *)
LEMMA Outdated ==
    ASSUME Bookkept
    PROVE  /\ closeCount \in Nat /\ closeCount + 1 \in Nat /\ asked \in SUBSET Nat
           /\ \A n \in asked : n <= closeCount + 1 /\ n # closeCount + 1
           /\ stream # "Starting" => \A n \in asked : n <= closeCount /\ n # closeCount
           /\ ~IsOpen => handshake = FALSE
           /\ stream \in States
           /\ ~IsStarted => stream \in {"Initial", "Error"}
BY DEF Bookkept, StreamTyped, CountsTyped, AssertionsHold, IsOpen, IsStarted, States

(* What a step leaves alone keeps its part of the invariant.               *)
PipelineInv == Bookkept /\ Carried /\ PipelineIsFilled /\ TokensKept /\ Bounded

LEMMA BookkeptKept ==
    ASSUME Bookkept, UNCHANGED <<streamVars, pipeline>>
    PROVE  Bookkept'
BY DEF Bookkept, StreamTyped, CountsTyped, AssertionsHold, StreamRunsWhileNeeded,
       IsOpen, IsStarted, streamVars

LEMMA CarriedKept ==
    ASSUME Carried, UNCHANGED <<stream, handshake, pipeline, callVars, applied>>
    PROVE  Carried'
BY DEF Carried, CallTyped, AnswersMatchPipeline, AnswersApplied, Expected, NoCall,
       IsOpen, callVars

LEMMA FilledKept ==
    ASSUME PipelineIsFilled, UNCHANGED <<pipeline, mutations, syncUser>>
    PROVE  PipelineIsFilled'
BY DEF PipelineIsFilled, Current

LEMMA TokensStay ==
    ASSUME TokensKept, UNCHANGED <<tokenVars, syncUser>>
    PROVE  TokensKept'
BY DEF TokensKept, TokenFollowsUser, tokenVars

LEMMA BoundedKept ==
    ASSUME Bounded, UNCHANGED disruptions \/ Disrupts
    PROVE  Bounded'
BY PipelineAssumption DEF Bounded, Disrupts

-----------------------------------------------------------------------------
(* The steps of the main queue, of the process and of the timers           *)

(* A call of setData is not seen by RemoteStore.                           *)
LEMMA AppSetsDataStep ==
    ASSUME RemoteInv, NEW w \in Writes, NEW u \in Owners, AppSetsData(w, u)
    PROVE  [StoreNext]_storeVars /\ PipelineInv'
<1>1. SetData(w, u) /\ UNCHANGED mainQueue /\ UNCHANGED remoteVars
  BY DEF AppSetsData
<1>2. StoreNext
  BY <1>1 DEF StoreNext
<1>3. UNCHANGED <<mutations, syncUser, applied>>
  BY <1>1 DEF SetData
<1> QED
  BY <1>1, <1>2, <1>3, BookkeptKept, CarriedKept, FilledKept, TokensStay, BoundedKept
     DEF RemoteInv, PipelineInv, remoteVars, streamVars

(* The provider's observer only enqueues.                                  *)
LEMMA UserChangesStep ==
    ASSUME RemoteInv, NEW u \in Owners, UserChanges(u)
    PROVE  [StoreNext]_storeVars /\ PipelineInv'
<1>1. /\ CredentialChanges(u) /\ UNCHANGED mainQueue /\ Len(worker) < MaxQueued
      /\ Disrupts /\ UNCHANGED <<streamVars, pipeline, callVars, tokenVars>>
  BY DEF UserChanges
<1>2. StoreNext
  BY <1>1 DEF StoreNext
<1>3. UNCHANGED <<mutations, syncUser, applied>>
  BY <1>1 DEF CredentialChanges
<1> QED
  BY <1>1, <1>2, <1>3, BookkeptKept, CarriedKept, FilledKept, TokensStay, BoundedKept
     DEF RemoteInv, PipelineInv, streamVars

(* A completion block runs on the main queue.                              *)
LEMMA CompletionRunsStep ==
    ASSUME RemoteInv, CompletionRuns
    PROVE  [StoreNext]_storeVars /\ PipelineInv'
<1>1. DeliverWritten /\ UNCHANGED remoteVars
  BY DEF CompletionRuns
<1>2. StoreNext
  BY <1>1 DEF StoreNext
<1>3. UNCHANGED <<mutations, syncUser, applied>>
  BY <1>1 DEF DeliverWritten
<1> QED
  BY <1>1, <1>2, <1>3, BookkeptKept, CarriedKept, FilledKept, TokensStay, BoundedKept
     DEF RemoteInv, PipelineInv, remoteVars, streamVars

(* A new process has an empty pipeline and no user yet.                    *)
LEMMA ProcessDiesStep ==
    ASSUME RemoteInv, ProcessDies
    PROVE  [StoreNext]_storeVars /\ PipelineInv'
<1>1. Relaunch /\ StoreNext
  BY DEF ProcessDies, StoreNext
<1>2. /\ stream' = "Initial" /\ timers' = {} /\ asked' = {}
      /\ closeCount' = 0 /\ handshake' = FALSE /\ pipeline' = <<>>
      /\ streamToken' = NoToken /\ UNCHANGED <<storedToken, disruptions>>
      /\ NoCall'
  BY DEF ProcessDies, DropCall, NoCall, NoVerdict
<1>3. syncUser' = NoEngine /\ Current' = <<>>
  BY <1>1 DEF Relaunch, Current
<1>4. Bookkept' /\ ~IsOpen'
  <2>1. 0 \in Nat /\ {} \in SUBSET Nat /\ \A n \in {} : n <= 0 /\ n # 0
    OBVIOUS
  <2> QED  BY <1>2, <2>1, Stays
<1>5. Carried'
  BY <1>2, <1>4, NothingCarried, EmptySeq
<1>6. PipelineIsFilled'
  BY <1>2, <1>3, EmptyFront, FilledMeansNext
<1>7. TokensKept'
  BY <1>2, <1>3 DEF RemoteInv, TokensKept, TokenFollowsUser
<1>8. Bounded'
  BY <1>2, BoundedKept DEF RemoteInv
<1> QED  BY <1>1, <1>4, <1>5, <1>6, <1>7, <1>8 DEF PipelineInv

(* A request for credentials that comes too late changes nothing else.     *)
LEMMA CredentialsAreStaleStep ==
    ASSUME RemoteInv, NEW count \in asked, CredentialsAreStale(count)
    PROVE  [StoreNext]_storeVars /\ PipelineInv'
<1>1. /\ count # closeCount /\ asked' = asked \ {count}
      /\ UNCHANGED <<storeVars, stream, handshake, closeCount, timers, pipeline,
                     callVars, tokenVars, disruptions>>
  BY DEF CredentialsAreStale
<1>2. UNCHANGED <<mutations, syncUser, applied>>
  BY <1>1 DEF storeVars
<1>3. Bookkept'
  BY <1>1 DEF RemoteInv, Bookkept, StreamTyped, CountsTyped, AssertionsHold,
              StreamRunsWhileNeeded, IsOpen, IsStarted
<1> QED
  BY <1>1, <1>2, <1>3, CarriedKept, FilledKept, TokensStay, BoundedKept
     DEF RemoteInv, PipelineInv

(* A stream that is not open has nothing under way.                        *)
LEMMA Closed ==
    ASSUME Carried, ~IsOpen
    PROVE  NoCall /\ requests = <<>> /\ responses = <<>> /\ verdict = NoVerdict
BY DEF Carried, AnswersMatchPipeline, NoCall

LEMMA BackoffElapsesStep ==
    ASSUME RemoteInv, BackoffElapses
    PROVE  [StoreNext]_storeVars /\ PipelineInv'
<1>1. /\ "backoff" \in timers
      /\ Start("Initial", closeCount, asked)
      /\ UNCHANGED <<storeVars, handshake, closeCount, pipeline, callVars,
                     tokenVars, disruptions>>
  BY DEF BackoffElapses
<1>2. Bookkept /\ Carried
  BY DEF RemoteInv
<1>3. stream = "Backoff" /\ ~IsOpen
  BY <1>1, <1>2 DEF Bookkept, AssertionsHold, IsOpen
<1>4. handshake = FALSE /\ pipeline # <<>>
  BY <1>2, <1>3, Outdated DEF Bookkept, AssertionsHold, IsStarted
<1>5. \A n \in asked : n <= closeCount /\ n # closeCount
  BY <1>2, <1>3, Outdated
<1>6. closeCount \in Nat /\ asked \in SUBSET Nat
  BY <1>2, Outdated
<1>7. Bookkept' /\ ~IsOpen'
  <2>1. closeCount' = closeCount /\ handshake' = FALSE /\ pipeline' # <<>>
    BY <1>1, <1>4
  <2> QED  BY <1>1, <1>5, <1>6, <2>1, Starts
<1>8. Carried'
  <2>1. NoCall' /\ pipeline' \in Seq(Writes)
    BY <1>1, <1>2, <1>3, Closed DEF NoCall, callVars, NoVerdict, Carried, CallTyped
  <2> QED  BY <1>7, <2>1, NothingCarried
<1>9. UNCHANGED <<mutations, syncUser>>
  BY <1>1 DEF storeVars
<1> QED
  BY <1>1, <1>7, <1>8, <1>9, FilledKept, TokensStay, BoundedKept
     DEF RemoteInv, PipelineInv

(* A stream that is open long enough is healthy.                           *)
LEMMA HealthTimerElapsesStep ==
    ASSUME RemoteInv, HealthTimerElapses
    PROVE  [StoreNext]_storeVars /\ PipelineInv'
<1>1. /\ "health" \in timers
      /\ timers' = timers \ {"health"}
      /\ stream' = IF IsOpen THEN "Healthy" ELSE stream
      /\ UNCHANGED <<storeVars, handshake, closeCount, asked, pipeline, callVars,
                     tokenVars, disruptions>>
  BY DEF HealthTimerElapses
<1>2. stream = "Open" /\ stream' = "Healthy"
  BY <1>1 DEF RemoteInv, Bookkept, AssertionsHold, IsOpen
<1>3. Bookkept'
  BY <1>1, <1>2 DEF RemoteInv, Bookkept, StreamTyped, CountsTyped, AssertionsHold,
                    StreamRunsWhileNeeded, IsOpen, IsStarted, States
<1>4. UNCHANGED <<mutations, syncUser, applied>>
  BY <1>1 DEF storeVars
<1>5. Carried'
  BY <1>1, <1>2, <1>4 DEF RemoteInv, Carried, CallTyped, AnswersMatchPipeline,
        AnswersApplied, Expected, IsOpen, callVars
<1> QED
  BY <1>1, <1>3, <1>4, <1>5, FilledKept, TokensStay, BoundedKept
     DEF RemoteInv, PipelineInv

(* A stream that has nothing to send is stopped.                           *)
LEMMA IdleTimerElapsesStep ==
    ASSUME RemoteInv, IdleTimerElapses
    PROVE  [StoreNext]_storeVars /\ PipelineInv'
<1>1. /\ "idle" \in timers /\ stream' = "Initial" /\ timers' = {}
      /\ UNCHANGED <<storeVars, asked, pipeline, tokenVars, disruptions>>
      /\ closeCount' = closeCount + 1 /\ handshake' = FALSE /\ NoCall'
  BY DEF IdleTimerElapses, Close, DropCall, NoCall, NoVerdict
<1>2. pipeline = <<>>
  BY <1>1 DEF RemoteInv, Bookkept, AssertionsHold
<1>3. /\ closeCount + 1 \in Nat /\ asked \in SUBSET Nat
      /\ \A n \in asked : n <= closeCount + 1 /\ n # closeCount + 1
  BY Outdated DEF RemoteInv
<1>4. Bookkept' /\ ~IsOpen'
  <2>1. pipeline' = <<>> /\ asked' = asked
    BY <1>1, <1>2
  <2> QED  BY <1>1, <1>3, <2>1, Stays
<1>5. Carried'
  BY <1>1, <1>2, <1>4, NothingCarried, EmptySeq
<1>6. UNCHANGED <<mutations, syncUser>>
  BY <1>1 DEF storeVars
<1> QED
  BY <1>1, <1>4, <1>5, <1>6, FilledKept, TokensStay, BoundedKept
     DEF RemoteInv, PipelineInv

-----------------------------------------------------------------------------
(* What is under way is a front of what is expected                        *)

LEMMA Prefix ==
    ASSUME NEW s \in Seq(Sent), NEW t \in Seq(Sent)
    PROVE  IsPrefix(s, t) <=> /\ Len(s) <= Len(t)
                              /\ \A i \in 1 .. Len(s) : s[i] = t[i]
<1>1. Len(s) \in Nat /\ Len(t) \in Nat
  BY LenProperties
<1>2. ASSUME Len(s) <= Len(t)
      PROVE  SubSeq(s, 1, Len(s)) = SubSeq(t, 1, Len(s))
                <=> \A i \in 1 .. Len(s) : s[i] = t[i]
  <2>1. Len(s) \in 0 .. Len(s) /\ Len(s) \in 0 .. Len(t)
    BY <1>1, <1>2
  <2>2. /\ SubSeq(s, 1, Len(s)) \in Seq(Sent)
        /\ Len(SubSeq(s, 1, Len(s))) = Len(s)
        /\ \A i \in 1 .. Len(s) : SubSeq(s, 1, Len(s))[i] = s[i]
    BY <2>1, Fronts
  <2>3. /\ SubSeq(t, 1, Len(s)) \in Seq(Sent)
        /\ Len(SubSeq(t, 1, Len(s))) = Len(s)
        /\ \A i \in 1 .. Len(s) : SubSeq(t, 1, Len(s))[i] = t[i]
    BY <2>1, Fronts
  <2>4. (\A i \in 1 .. Len(s) : s[i] = t[i])
           => SubSeq(s, 1, Len(s)) = SubSeq(t, 1, Len(s))
    <3>1. SUFFICES ASSUME \A i \in 1 .. Len(s) : s[i] = t[i]
                   PROVE  SubSeq(s, 1, Len(s)) = SubSeq(t, 1, Len(s))
      OBVIOUS
    <3>2. \A i \in 1 .. Len(s) :
              SubSeq(s, 1, Len(s))[i] = SubSeq(t, 1, Len(s))[i]
      BY <2>2, <2>3, <3>1
    <3> QED  BY <2>2, <2>3, <3>2, SeqEqual
  <2> QED  BY <2>2, <2>3, <2>4
<1> QED  BY <1>2 DEF IsPrefix

(* An answer is the first of what is expected, and the others follow.      *)
LEMMA AnswerLeads ==
    ASSUME NEW r \in Seq(Sent), NEW s \in Seq(Sent), NEW e \in Seq(Sent),
           r # <<>>, r \o s = e
    PROVE  e # <<>> /\ Head(e) = Head(r) /\ Tail(r) \o s = Tail(e)
<1>1. /\ Len(r) >= 1 /\ Head(r) = r[1]
      /\ Tail(r) \in Seq(Sent) /\ Len(Tail(r)) = Len(r) - 1
      /\ \A i \in 1 .. Len(r) - 1 : Tail(r)[i] = r[i + 1]
  BY HeadTailProperties, EmptySeq, LenProperties
<1>2. /\ Len(r) \in Nat /\ Len(s) \in Nat /\ Len(e) \in Nat
  BY LenProperties
<1>3. /\ Len(e) = Len(r) + Len(s)
      /\ \A i \in 1 .. Len(r) + Len(s) :
            e[i] = IF i <= Len(r) THEN r[i] ELSE s[i - Len(r)]
  BY ConcatProperties
<1>4. e # <<>> /\ Head(e) = e[1]
  BY <1>1, <1>2, <1>3, EmptySeq, HeadTailProperties
<1>5. e[1] = r[1]
  BY <1>1, <1>2, <1>3
<1>6. /\ Tail(e) \in Seq(Sent) /\ Len(Tail(e)) = Len(e) - 1
      /\ \A i \in 1 .. Len(e) - 1 : Tail(e)[i] = e[i + 1]
  BY <1>4, HeadTailProperties
<1>7. /\ Tail(r) \o s \in Seq(Sent)
      /\ Len(Tail(r) \o s) = Len(r) - 1 + Len(s)
      /\ \A i \in 1 .. Len(r) - 1 + Len(s) :
            (Tail(r) \o s)[i] = IF i <= Len(r) - 1 THEN Tail(r)[i]
                                                   ELSE s[i - (Len(r) - 1)]
  BY <1>1, ConcatProperties
<1>8. \A i \in 1 .. Len(e) - 1 : (Tail(r) \o s)[i] = Tail(e)[i]
  <2>1. TAKE i \in 1 .. Len(e) - 1
  <2>2. i + 1 \in 1 .. Len(r) + Len(s) /\ i \in 1 .. Len(r) - 1 + Len(s)
    BY <1>2, <1>3
  <2>3. Tail(e)[i] = IF i + 1 <= Len(r) THEN r[i + 1] ELSE s[i + 1 - Len(r)]
    BY <1>3, <1>6, <2>2
  <2>4. CASE i <= Len(r) - 1
    <3>1. i \in 1 .. Len(r) - 1
      BY <1>2, <2>4
    <3> QED  BY <1>1, <1>2, <1>7, <2>2, <2>3, <3>1
  <2>5. CASE ~(i <= Len(r) - 1)
    <3>1. i - (Len(r) - 1) = i + 1 - Len(r) /\ ~(i + 1 <= Len(r))
      BY <1>2, <2>5
    <3> QED  BY <1>7, <2>2, <2>3, <2>5, <3>1
  <2> QED  BY <2>4, <2>5
<1>9. Len(Tail(r) \o s) = Len(Tail(e))
  BY <1>2, <1>3, <1>6, <1>7
<1> QED  BY <1>4, <1>1, <1>5, <1>6, <1>7, <1>8, <1>9, SeqEqual

(* The refusal of a request stands behind the answers before it.           *)
LEMMA RefusalFollows ==
    ASSUME NEW r \in Seq(Sent), NEW a \in Sent, NEW e \in Seq(Sent),
           r # <<>>, IsPrefix(Append(r, a), e)
    PROVE  /\ e # <<>> /\ Head(e) = Head(r) /\ Len(e) >= 2
           /\ IsPrefix(Append(Tail(r), a), Tail(e))
<1>1. /\ Len(r) >= 1 /\ Head(r) = r[1]
      /\ Tail(r) \in Seq(Sent) /\ Len(Tail(r)) = Len(r) - 1
      /\ \A i \in 1 .. Len(r) - 1 : Tail(r)[i] = r[i + 1]
  BY HeadTailProperties, EmptySeq, LenProperties
<1>2. Len(r) \in Nat /\ Len(e) \in Nat
  BY LenProperties
<1>3. /\ Append(r, a) \in Seq(Sent) /\ Len(Append(r, a)) = Len(r) + 1
      /\ \A i \in 1 .. Len(r) : Append(r, a)[i] = r[i]
      /\ Append(r, a)[Len(r) + 1] = a
  BY AppendProperties
<1>4. /\ Append(Tail(r), a) \in Seq(Sent) /\ Len(Append(Tail(r), a)) = Len(r)
      /\ \A i \in 1 .. Len(r) - 1 : Append(Tail(r), a)[i] = Tail(r)[i]
      /\ Append(Tail(r), a)[Len(r)] = a
  <2>1. /\ Append(Tail(r), a) \in Seq(Sent)
        /\ Len(Append(Tail(r), a)) = Len(Tail(r)) + 1
        /\ \A i \in 1 .. Len(Tail(r)) : Append(Tail(r), a)[i] = Tail(r)[i]
        /\ Append(Tail(r), a)[Len(Tail(r)) + 1] = a
    BY <1>1, AppendProperties
  <2>2. Len(Tail(r)) + 1 = Len(r)
    BY <1>1, <1>2
  <2> QED  BY <1>1, <2>1, <2>2
<1>5. /\ Len(r) + 1 <= Len(e)
      /\ \A i \in 1 .. Len(r) + 1 : Append(r, a)[i] = e[i]
  BY <1>3, Prefix
<1>6. e # <<>> /\ Head(e) = e[1] /\ Len(e) >= 2
  BY <1>1, <1>2, <1>5, EmptySeq, HeadTailProperties
<1>7. /\ Tail(e) \in Seq(Sent) /\ Len(Tail(e)) = Len(e) - 1
      /\ \A i \in 1 .. Len(e) - 1 : Tail(e)[i] = e[i + 1]
  BY <1>6, HeadTailProperties
<1>8. e[1] = r[1]
  <2>1. 1 \in 1 .. Len(r) /\ 1 \in 1 .. Len(r) + 1
    BY <1>1, <1>2
  <2> QED  BY <1>3, <1>5, <2>1
<1>9. \A i \in 1 .. Len(r) : Append(Tail(r), a)[i] = Tail(e)[i]
  <2>1. TAKE i \in 1 .. Len(r)
  <2>2. i + 1 \in 1 .. Len(r) + 1 /\ i \in 1 .. Len(e) - 1
    BY <1>2, <1>5
  <2>3. Tail(e)[i] = Append(r, a)[i + 1]
    BY <1>5, <1>7, <2>2
  <2>4. CASE i = Len(r)
    BY <1>3, <1>4, <2>3, <2>4
  <2>5. CASE i # Len(r)
    <3>1. i \in 1 .. Len(r) - 1 /\ i + 1 \in 1 .. Len(r)
      BY <1>2, <2>5
    <3> QED  BY <1>1, <1>3, <1>4, <2>3, <3>1
  <2> QED  BY <2>4, <2>5
<1>10. Len(r) <= Len(e) - 1
  BY <1>2, <1>5
<1>11. IsPrefix(Append(Tail(r), a), Tail(e))
  BY <1>4, <1>7, <1>9, <1>10, Prefix
<1> QED  BY <1>1, <1>6, <1>8, <1>11

(* What is added to the pipeline comes behind what is under way.           *)
LEMMA PrefixGrows ==
    ASSUME NEW s \in Seq(Sent), NEW e \in Seq(Sent), NEW x \in Seq(Sent),
           IsPrefix(s, e)
    PROVE  IsPrefix(s, e \o x)
<1>1. Len(s) \in Nat /\ Len(e) \in Nat /\ Len(x) \in Nat
  BY LenProperties
<1>2. /\ e \o x \in Seq(Sent) /\ Len(e \o x) = Len(e) + Len(x)
      /\ \A i \in 1 .. Len(e) + Len(x) :
            (e \o x)[i] = IF i <= Len(e) THEN e[i] ELSE x[i - Len(e)]
  BY ConcatProperties
<1>3. Len(s) <= Len(e) /\ \A i \in 1 .. Len(s) : s[i] = e[i]
  BY Prefix
<1>4. \A i \in 1 .. Len(s) : s[i] = (e \o x)[i]
  <2>1. TAKE i \in 1 .. Len(s)
  <2>2. i \in 1 .. Len(e) + Len(x) /\ i <= Len(e)
    BY <1>1, <1>3
  <2> QED  BY <1>2, <1>3, <2>2
<1>5. Len(s) <= Len(e \o x)
  BY <1>1, <1>2, <1>3
<1> QED  BY <1>2, <1>4, <1>5, Prefix

(* What is sent behind the requests comes behind what is expected.         *)
LEMMA SentBehind ==
    ASSUME NEW r \in Seq(Sent), NEW s \in Seq(Sent), NEW t \in Seq(Sent)
    PROVE  r \o (s \o t) = (r \o s) \o t
<1>1. /\ \E st \in Seq(Sent) : st = s \o t
      /\ \E e \in Seq(Sent) : e = r \o s
  BY ConcatProperties
<1>2. PICK st \in Seq(Sent), e \in Seq(Sent) : st = s \o t /\ e = r \o s
  BY <1>1
<1>3. PICK a \in Seq(Sent) : a = r \o st
  BY ConcatProperties
<1>4. PICK b \in Seq(Sent) : b = e \o t
  BY ConcatProperties
<1>5. /\ Len(r) \in Nat /\ Len(s) \in Nat /\ Len(t) \in Nat
      /\ Len(st) = Len(s) + Len(t)
      /\ Len(e) = Len(r) + Len(s)
      /\ Len(a) = Len(r) + Len(st) /\ Len(b) = Len(e) + Len(t)
  BY <1>2, <1>3, <1>4, ConcatProperties, LenProperties
<1>6. /\ \A i \in 1 .. Len(s) + Len(t) :
            st[i] = IF i <= Len(s) THEN s[i] ELSE t[i - Len(s)]
      /\ \A i \in 1 .. Len(r) + Len(s) :
            e[i] = IF i <= Len(r) THEN r[i] ELSE s[i - Len(r)]
  BY <1>2, ConcatProperties
<1>7. /\ \A i \in 1 .. Len(r) + Len(st) :
            a[i] = IF i <= Len(r) THEN r[i] ELSE st[i - Len(r)]
      /\ \A i \in 1 .. Len(e) + Len(t) :
            b[i] = IF i <= Len(e) THEN e[i] ELSE t[i - Len(e)]
  BY <1>3, <1>4, ConcatProperties
<1>8. \A i \in 1 .. Len(a) : a[i] = b[i]
  <2>1. TAKE i \in 1 .. Len(a)
  <2>2. i \in 1 .. Len(r) + Len(st) /\ i \in 1 .. Len(e) + Len(t)
    BY <1>5
  <2>3. CASE i <= Len(r)
    <3>1. i \in 1 .. Len(r) + Len(s) /\ i <= Len(e)
      BY <1>5, <2>2, <2>3
    <3> QED  BY <1>6, <1>7, <2>2, <2>3, <3>1
  <2>4. CASE ~(i <= Len(r)) /\ i <= Len(e)
    <3>1. /\ i \in 1 .. Len(r) + Len(s) /\ i - Len(r) \in 1 .. Len(s) + Len(t)
          /\ i - Len(r) <= Len(s)
      BY <1>5, <2>2, <2>4
    <3> QED  BY <1>6, <1>7, <2>2, <2>4, <3>1
  <2>5. CASE ~(i <= Len(e))
    <3>1. /\ i - Len(r) \in 1 .. Len(s) + Len(t)
          /\ ~(i <= Len(r)) /\ ~(i - Len(r) <= Len(s))
          /\ i - Len(r) - Len(s) = i - Len(e)
      BY <1>5, <2>2, <2>5
    <3> QED  BY <1>6, <1>7, <2>2, <2>5, <3>1
  <2> QED  BY <2>3, <2>4, <2>5
<1>9. Len(a) = Len(b)
  BY <1>5
<1>20. a = b
  BY <1>8, <1>9, SeqEqual
<1> QED  BY <1>2, <1>3, <1>4, <1>20

(* The first request is what is expected behind the answers.               *)
LEMMA RequestIsNext ==
    ASSUME NEW r \in Seq(Sent), NEW s \in Seq(Sent), NEW e \in Seq(Sent),
           s # <<>>, r \o s = e
    PROVE  /\ Head(s) \in Sent /\ Tail(s) \in Seq(Sent)
           /\ Len(r) + 1 \in 1 .. Len(e) /\ e[Len(r) + 1] = Head(s)
           /\ \A i \in 1 .. Len(r) : e[i] = r[i]
           /\ Append(r, Head(s)) \in Seq(Sent)
           /\ Append(r, Head(s)) \o Tail(s) = e
           /\ IsPrefix(Append(r, Head(s)), e)
<1>1. /\ Len(s) >= 1 /\ Head(s) = s[1] /\ Head(s) \in Sent
      /\ Tail(s) \in Seq(Sent) /\ Len(Tail(s)) = Len(s) - 1
      /\ \A i \in 1 .. Len(s) - 1 : Tail(s)[i] = s[i + 1]
  BY HeadTailProperties, EmptySeq, LenProperties
<1>2. Len(r) \in Nat /\ Len(s) \in Nat /\ Len(e) \in Nat
  BY LenProperties
<1>3. /\ Len(e) = Len(r) + Len(s)
      /\ \A i \in 1 .. Len(r) + Len(s) :
            e[i] = IF i <= Len(r) THEN r[i] ELSE s[i - Len(r)]
  BY ConcatProperties
<1>4. /\ Append(r, Head(s)) \in Seq(Sent) /\ Len(Append(r, Head(s))) = Len(r) + 1
      /\ \A i \in 1 .. Len(r) : Append(r, Head(s))[i] = r[i]
      /\ Append(r, Head(s))[Len(r) + 1] = Head(s)
  BY <1>1, AppendProperties
<1>5. Len(r) + 1 \in 1 .. Len(e) /\ e[Len(r) + 1] = Head(s)
  <2>1. Len(r) + 1 \in 1 .. Len(r) + Len(s) /\ ~(Len(r) + 1 <= Len(r))
        /\ Len(r) + 1 - Len(r) = 1
    BY <1>1, <1>2
  <2> QED  BY <1>1, <1>3, <2>1
<1>6. \A i \in 1 .. Len(r) : e[i] = r[i]
  <2>1. \A i \in 1 .. Len(r) : i \in 1 .. Len(r) + Len(s) /\ i <= Len(r)
    BY <1>2
  <2> QED  BY <1>3, <2>1
<1>7. IsPrefix(Append(r, Head(s)), e)
  <2>1. \A i \in 1 .. Len(r) + 1 : i \in 1 .. Len(r) \/ i = Len(r) + 1
    BY <1>2
  <2>2. \A i \in 1 .. Len(r) + 1 : Append(r, Head(s))[i] = e[i]
    BY <1>4, <1>5, <1>6, <2>1
  <2>3. Len(r) + 1 <= Len(e)
    BY <1>5
  <2> QED  BY <1>4, <2>2, <2>3, Prefix
<1>8. /\ Append(r, Head(s)) \o Tail(s) \in Seq(Sent)
      /\ Len(Append(r, Head(s)) \o Tail(s)) = Len(r) + 1 + (Len(s) - 1)
      /\ \A i \in 1 .. Len(r) + 1 + (Len(s) - 1) :
            (Append(r, Head(s)) \o Tail(s))[i]
               = IF i <= Len(r) + 1 THEN Append(r, Head(s))[i]
                                    ELSE Tail(s)[i - (Len(r) + 1)]
  BY <1>1, <1>4, ConcatProperties
<1>9. \A i \in 1 .. Len(e) : (Append(r, Head(s)) \o Tail(s))[i] = e[i]
  <2>1. TAKE i \in 1 .. Len(e)
  <2>2. i \in 1 .. Len(r) + Len(s) /\ i \in 1 .. Len(r) + 1 + (Len(s) - 1)
    BY <1>2, <1>3
  <2>3. CASE i <= Len(r)
    <3>1. i \in 1 .. Len(r) /\ i <= Len(r) + 1
      BY <1>2, <2>3
    <3> QED  BY <1>4, <1>6, <1>8, <2>2, <3>1
  <2>4. CASE i = Len(r) + 1
    BY <1>2, <1>4, <1>5, <1>8, <2>2, <2>4
  <2>5. CASE i > Len(r) + 1
    <3>1. /\ i - (Len(r) + 1) \in 1 .. Len(s) - 1
          /\ i - (Len(r) + 1) + 1 = i - Len(r)
          /\ ~(i <= Len(r) + 1) /\ ~(i <= Len(r))
      BY <1>2, <1>3, <2>5
    <3>2. Tail(s)[i - (Len(r) + 1)] = s[i - Len(r)]
      BY <1>1, <3>1
    <3> QED  BY <1>3, <1>8, <2>2, <3>1, <3>2
  <2> QED  BY <1>2, <2>3, <2>4, <2>5
<1>10. Len(Append(r, Head(s)) \o Tail(s)) = Len(e)
  BY <1>2, <1>3, <1>8
<1>11. Append(r, Head(s)) \o Tail(s) = e
  BY <1>8, <1>9, <1>10, SeqEqual
<1> QED  BY <1>1, <1>4, <1>5, <1>6, <1>7, <1>11

-----------------------------------------------------------------------------
(* The steps that start or restart the stream                              *)

(* RestartNetwork for the user u, whose queue the pipeline is filled from. *)
LEMMA Restarting ==
    ASSUME RemoteInv, NEW u \in Owners, RestartNetwork(u),
           syncUser' = u, UNCHANGED <<mutations, storedToken>>
    PROVE  Bookkept' /\ Carried' /\ PipelineIsFilled' /\ TokensKept'
<1>1. Bookkept /\ Carried
  BY DEF RemoteInv
<1>2. mutations[u] \in Seq(Writes) /\ IsInjective(mutations[u])
  BY CurrentShape DEF RemoteInv
<1>3. FillStopped(<<>>, mutations[u], "Initial", closeCount', asked)
  BY DEF RestartNetwork
<1>4. pipeline' = FrontOf(mutations[u]) /\ pipeline' \in Seq(Writes)
  <2>1. pipeline' = <<>> \o NextBatches(<<>>, mutations[u])
    BY <1>3 DEF FillStopped
  <2>2. FrontOf(mutations[u]) \in Seq(Writes)
    BY <1>2, FullShape, Fronts DEF FrontOf
  <2> QED  BY <1>2, <2>1, <2>2, FillingAnew
<1>5. Current' = mutations[u]
  BY Users DEF Current
<1>6. PipelineIsFilled'
  BY <1>4, <1>5, FilledMeansNext
<1>7. /\ closeCount' \in Nat /\ asked \in SUBSET Nat /\ handshake' = FALSE /\ NoCall'
      /\ \A n \in asked : n <= closeCount' /\ n # closeCount'
  <2>1. CASE IsStarted
    <3>1. closeCount' = closeCount + 1 /\ handshake' = FALSE /\ NoCall'
      BY <2>1 DEF RestartNetwork, Close, DropCall, NoCall, NoVerdict
    <3> QED  BY <1>1, <3>1, Outdated
  <2>2. CASE ~IsStarted
    <3>1. UNCHANGED <<closeCount, handshake, callVars>>
      BY <2>2 DEF RestartNetwork
    <3>2. stream # "Starting" /\ ~IsOpen
      BY <2>2 DEF IsStarted
    <3>3. NoCall'
      BY <1>1, <3>1, <3>2, Closed DEF NoCall, callVars, NoVerdict
    <3> QED  BY <1>1, <3>1, <3>2, <3>3, Outdated
  <2> QED  BY <2>1, <2>2
<1>8. Bookkept' /\ ~IsOpen'
  BY <1>3, <1>7, FillsStopped
<1>9. Carried'
  BY <1>4, <1>7, <1>8, NothingCarried
<1>10. TokensKept'
  BY DEF RestartNetwork, RemoteInv, TokensKept, TokenFollowsUser
<1> QED  BY <1>6, <1>8, <1>9, <1>10

LEMMA WorkerHandlesCredentialStep ==
    ASSUME RemoteInv, WorkerHandlesCredential
    PROVE  [StoreNext]_storeVars /\ PipelineInv'
<1>1. /\ HandleCredential /\ StoreNext
      /\ RestartNetwork(Head(worker).user)
      /\ UNCHANGED <<storedToken, disruptions>>
  BY DEF WorkerHandlesCredential, StoreNext
<1>2. /\ syncUser' = Head(worker).user /\ UNCHANGED mutations
      /\ worker # <<>> /\ Head(worker).type = "credential"
  BY <1>1 DEF HandleCredential
<1>3. worker \in Seq(Blocks)
  BY DEF RemoteInv, StoreInv, StoreTypeOK
<1>4. Head(worker) \in Blocks
  BY <1>2, <1>3, HeadTailProperties
<1>5. Head(worker).user \in Owners
  BY <1>2, <1>4, BlocksTyped
<1>6. Bookkept' /\ Carried' /\ PipelineIsFilled' /\ TokensKept'
  BY <1>1, <1>2, <1>5, Restarting
<1> QED  BY <1>1, <1>6, BoundedKept DEF PipelineInv, RemoteInv

LEMMA ConnectivityReturnsStep ==
    ASSUME RemoteInv, ConnectivityReturns
    PROVE  [StoreNext]_storeVars /\ PipelineInv'
<1>1. /\ syncUser # NoEngine /\ Disrupts /\ RestartNetwork(syncUser)
      /\ UNCHANGED <<storeVars, storedToken>>
  BY DEF ConnectivityReturns
<1>2. syncUser \in Owners /\ syncUser' = syncUser /\ UNCHANGED mutations
  BY <1>1, CurrentShape DEF RemoteInv, storeVars
<1>3. Bookkept' /\ Carried' /\ PipelineIsFilled' /\ TokensKept'
  BY <1>1, <1>2, Restarting
<1> QED  BY <1>1, <1>3, BoundedKept DEF PipelineInv, RemoteInv

(* The credentials find the stream starting, and the call opens with the   *)
(* handshake.                                                              *)
LEMMA CredentialsArriveStep ==
    ASSUME RemoteInv, NEW count \in asked, CredentialsArrive(count)
    PROVE  [StoreNext]_storeVars /\ PipelineInv'
<1>1. /\ count = closeCount /\ asked' = asked \ {count}
      /\ stream' = "Open" /\ timers' = (timers \ {"idle"}) \cup {"health"}
      /\ requests' = <<Handshake>>
      /\ UNCHANGED <<storeVars, handshake, closeCount, pipeline, responses,
                     verdict, tokenVars, disruptions>>
  BY DEF CredentialsArrive
<1>2. Bookkept /\ Carried
  BY DEF RemoteInv
<1>3. stream = "Starting" /\ ~IsOpen
  BY <1>1, <1>2 DEF Bookkept, AssertionsHold, IsOpen
<1>4. /\ handshake = FALSE /\ pipeline # <<>> /\ "backoff" \notin timers
  BY <1>2, <1>3, Outdated DEF Bookkept, AssertionsHold, IsStarted
<1>5. responses' = <<>> /\ verdict' = NoVerdict /\ handshake' = FALSE
  BY <1>1, <1>2, <1>3, <1>4, Closed
<1>6. Bookkept'
  <2>1. StreamTyped'
    BY <1>1, <1>2 DEF Bookkept, StreamTyped, States, Timers
  <2>2. CountsTyped'
    BY <1>1, <1>2 DEF Bookkept, CountsTyped
  <2>3. /\ "idle" \notin timers' /\ "backoff" \notin timers'
        /\ closeCount' \notin asked'
        /\ stream' = "Open" /\ handshake' = FALSE /\ pipeline' # <<>>
    BY <1>1, <1>4, <1>5
  <2>4. \A n \in asked' : n <= closeCount'
    BY <1>1, <1>2 DEF Bookkept, AssertionsHold
  <2>5. AssertionsHold' /\ StreamRunsWhileNeeded'
    BY <2>3, <2>4 DEF AssertionsHold, StreamRunsWhileNeeded, IsOpen, IsStarted
  <2> QED  BY <2>1, <2>2, <2>5 DEF Bookkept
<1>7. Carried'
  <2>1. <<Handshake>> \in Seq(Sent) /\ <<>> \in Seq(Sent)
    BY DEF Sent
  <2>2. CallTyped'
    BY <1>1, <1>2, <1>5, <2>1 DEF Carried, CallTyped
  <2>3. <<>> \o <<Handshake>> = <<Handshake>>
    BY <2>1, ConcatEmptySeq
  <2>4. IsOpen' /\ Expected' = <<Handshake>>
    BY <1>1, <1>5 DEF IsOpen, Expected
  <2>5. AnswersMatchPipeline'
    BY <1>1, <1>5, <2>3, <2>4 DEF AnswersMatchPipeline
  <2>6. AnswersApplied'
    BY <1>5 DEF AnswersApplied
  <2> QED  BY <2>2, <2>5, <2>6 DEF Carried
<1>8. UNCHANGED <<mutations, syncUser>>
  BY <1>1 DEF storeVars
<1> QED
  BY <1>1, <1>6, <1>7, <1>8, FilledKept, TokensStay, BoundedKept
     DEF RemoteInv, PipelineInv

-----------------------------------------------------------------------------
(* The steps that settle and add                                           *)

(* HandleSuccessfulWrite and HandleRejectedWrite find the front of the     *)
(* pipeline at the head of the user's queue.                               *)
LEMMA SettlesHead ==
    ASSUME RemoteInv, pipeline # <<>>, NEW answer, Settle(Head(pipeline), answer)
    PROVE  /\ Sending /\ SettleHead(answer)
           /\ syncUser' = syncUser /\ syncUser \in Owners
           /\ applied' = applied
           /\ Current' = Tail(mutations[syncUser])
           /\ \A w \in Writes : FailsNow(w) => answer = "failed" /\ w = Head(pipeline)
<1>1. /\ syncUser \in Owners /\ syncUser # NoEngine
      /\ mutations[syncUser] \in Seq(Writes) /\ mutations[syncUser] # <<>>
      /\ Head(pipeline) = Head(mutations[syncUser])
      /\ QueueWithout(Head(pipeline)) = Tail(mutations[syncUser])
  BY PipelineShape DEF RemoteInv
<1>2. Head(pipeline) = Settled
  BY <1>1 DEF Settled
<1>3. /\ mutations' = [mutations EXCEPT ![syncUser] = Tail(mutations[syncUser])]
      /\ callbacks' = [callbacks EXCEPT ![syncUser] = @ \ {Settled}]
      /\ mainQueue' = IF Settled \in callbacks[syncUser]
                        THEN Append(mainQueue, Written(Settled, answer)) ELSE mainQueue
      /\ UNCHANGED <<created, credential, worker, syncUser, applied, issued, restarts>>
  BY <1>1, <1>2 DEF Settle, Tell
<1>4. Sending /\ SettleHead(answer)
  BY <1>1, <1>3 DEF Sending, SettleHead, RemoveMutationBatch, NotifyUser, Dispatch
<1>5. Current' = Tail(mutations[syncUser])
  BY <1>1, <1>3 DEF Current, RemoteInv, StoreInv, StoreTypeOK
<1>6. ASSUME NEW w \in Writes, FailsNow(w)
      PROVE  answer = "failed" /\ w = Head(pipeline)
  <2>1. mainQueue \in Seq(WrittenItems)
    BY DEF RemoteInv, StoreInv, StoreTypeOK
  <2>2. PICK i \in DOMAIN mainQueue' : /\ i > Len(mainQueue)
                                       /\ mainQueue'[i] = Written(w, "failed")
    BY <1>6 DEF FailsNow
  <2>3. CASE Settled \notin callbacks[syncUser]
    BY <1>3, <2>1, <2>2, <2>3
  <2>4. CASE Settled \in callbacks[syncUser]
    <3>1. mainQueue' = Append(mainQueue, Written(Settled, answer))
      BY <1>3, <2>4
    <3>2. i = Len(mainQueue) + 1 /\ mainQueue'[i] = Written(Settled, answer)
      BY <2>1, <2>2, <3>1
    <3>3. Written(Settled, answer) = Written(w, "failed")
      BY <2>2, <3>2
    <3> QED  BY <1>2, <3>3 DEF Written
  <2> QED  BY <2>3, <2>4
<1> QED  BY <1>1, <1>3, <1>4, <1>5, <1>6

(* Any other step tells nobody of a failure.                               *)
LEMMA NobodyFails ==
    ASSUME StoreInv,
           \/ UNCHANGED mainQueue
           \/ mainQueue # <<>> /\ mainQueue' = Tail(mainQueue)
           \/ mainQueue' = <<>>,
           NEW w \in Writes
    PROVE  ~FailsNow(w)
<1>1. mainQueue \in Seq(WrittenItems)
  BY DEF StoreInv, StoreTypeOK
<1>2. Len(mainQueue) \in Nat /\ DOMAIN mainQueue = 1 .. Len(mainQueue)
  BY <1>1, LenProperties
<1>3. CASE UNCHANGED mainQueue
  BY <1>2, <1>3 DEF FailsNow
<1>4. CASE mainQueue # <<>> /\ mainQueue' = Tail(mainQueue)
  <2>1. DOMAIN mainQueue' = 1 .. Len(mainQueue) - 1
    BY <1>1, <1>4
  <2> QED  BY <1>2, <2>1 DEF FailsNow
<1>5. CASE mainQueue' = <<>>
  <2>1. DOMAIN mainQueue' = {}
    BY <1>5
  <2> QED  BY <2>1 DEF FailsNow
<1> QED  BY <1>3, <1>4, <1>5

(* FillWritePipeline on a started stream: what is added is sent behind     *)
(* what is under way, and the timers still say what the stream does.       *)
LEMMA FillsStarted ==
    ASSUME Bookkept, IsStarted, NEW p \in Seq(Writes), NEW q, NEW answered,
           FillStarted(p, q, answered), UNCHANGED <<handshake, closeCount>>,
           NextBatches(p, q) \in Seq(Writes),
           "idle" \in timers => p = <<>> /\ handshake /\ IsOpen,
           ~handshake => p # <<>>
    PROVE  Bookkept' /\ (IsOpen' <=> IsOpen)
<1>1. PICK added \in Seq(Writes) : added = NextBatches(p, q)
  OBVIOUS
<1>2. /\ pipeline' = p \o added
      /\ timers' = IF IsOpen /\ pipeline' = <<>> THEN timers \cup {"idle"}
                   ELSE IF handshake /\ added # <<>> THEN timers \ {"idle"}
                   ELSE timers
      /\ UNCHANGED <<stream, asked, handshake, closeCount>>
  BY <1>1 DEF FillStarted
<1>3. pipeline' = <<>> <=> p = <<>> /\ added = <<>>
  <2>1. Len(p) \in Nat /\ Len(added) \in Nat /\ Len(p \o added) = Len(p) + Len(added)
    BY LenProperties, ConcatProperties
  <2>2. p \o added \in Seq(Writes)
    BY ConcatProperties
  <2>3. (p \o added = <<>> <=> Len(p \o added) = 0)
        /\ (p = <<>> <=> Len(p) = 0) /\ (added = <<>> <=> Len(added) = 0)
    BY <2>2, EmptySeq
  <2> QED  BY <1>2, <2>1, <2>3
<1>4. "idle" \in timers' => pipeline' = <<>> /\ IsOpen
  BY <1>2, <1>3
<1>5. /\ "backoff" \in timers' <=> "backoff" \in timers
      /\ "health" \in timers' => "health" \in timers
      /\ timers' \in SUBSET Timers
  BY <1>2 DEF Bookkept, StreamTyped, Timers
<1>6. IsOpen' = IsOpen /\ IsStarted' = IsStarted
  BY <1>2 DEF IsOpen, IsStarted
<1>7. StreamTyped' /\ CountsTyped'
  BY <1>2, <1>5 DEF Bookkept, StreamTyped, CountsTyped
<1>8. IsStarted /\ ~handshake' => pipeline' # <<>>
  BY <1>2, <1>3
<1>9. AssertionsHold'
  BY <1>2, <1>4, <1>5, <1>6, <1>8 DEF Bookkept, AssertionsHold
<1>10. StreamRunsWhileNeeded'
  BY <1>6 DEF StreamRunsWhileNeeded
<1> QED  BY <1>6, <1>7, <1>9, <1>10 DEF Bookkept

(* A write of the worker's queue has an engine, and is queued nowhere yet. *)
LEMMA WriteIsNew ==
    ASSUME StoreInv, worker # <<>>, Head(worker).type = "write"
    PROVE  /\ syncUser \in Owners /\ syncUser # NoEngine
           /\ Head(worker).write \in Writes
           /\ Head(worker).write \notin ToSet(mutations[syncUser])
<1>1. worker \in Seq(Blocks)
  BY DEF StoreInv, StoreTypeOK
<1>2. /\ Head(worker) = worker[1] /\ 1 \in 1 .. Len(worker)
      /\ DOMAIN worker = 1 .. Len(worker) /\ Head(worker) \in Blocks
  BY <1>1, HeadTailProperties, EmptySeq, LenProperties
<1>3. Head(worker).write \in Writes
  BY <1>2, BlocksTyped
<1>4. PICK u \in Owners : SyncUserAfter(1, u)
  BY <1>2 DEF StoreInv, WorkerFollowsProvider
<1>5. \A i \in 1 .. 1 : i = 1
  OBVIOUS
<1>6. syncUser = u
  BY <1>2, <1>4, <1>5 DEF SyncUserAfter, IsChange
<1>7. Head(worker).write \notin Pending(syncUser)
  BY <1>2, <1>6 DEF StoreInv, WritesAccounted, WaitingIsNowhereElse, IsWrite
<1> QED  BY <1>3, <1>6, <1>7, Users DEF Pending

LEMMA WorkerWritesMutationsStep ==
    ASSUME RemoteInv, WorkerWritesMutations
    PROVE  [StoreNext]_storeVars /\ PipelineInv'
<1>1. /\ WriteMutations /\ StoreNext
      /\ UNCHANGED <<handshake, closeCount, verdict, tokenVars, disruptions>>
  BY DEF WorkerWritesMutations, StoreNext
<1>2. Bookkept /\ Carried
  BY DEF RemoteInv
<1>3. worker # <<>> /\ Head(worker).type = "write"
  BY <1>1 DEF WriteMutations
<1>4. /\ syncUser \in Owners /\ syncUser # NoEngine
      /\ Head(worker).write \in Writes
      /\ Head(worker).write \notin ToSet(mutations[syncUser])
  BY <1>3, WriteIsNew DEF RemoteInv
<1>5. PICK s \in Owners : s = syncUser
  BY <1>4
<1>6. PICK w \in Writes : w = Head(worker).write
  BY <1>4
<1>7. PICK q \in Seq(Writes) : q = mutations[s] /\ IsInjective(q)
  BY <1>5, CurrentShape DEF RemoteInv
<1>8. PICK x \in Seq(Writes) : x = Append(q, w)
  BY AppendProperties
<1>9. PICK p \in Seq(Writes) : p = pipeline
  BY <1>2 DEF Carried, CallTyped
<1>10. /\ mutations' = [mutations EXCEPT ![s] = x]
       /\ syncUser' = s /\ applied' = applied
  BY <1>1, <1>5, <1>6, <1>7, <1>8 DEF WriteMutations
<1>11. Current' = x
  BY <1>4, <1>5, <1>10 DEF Current, RemoteInv, StoreInv, StoreTypeOK
<1>12. /\ p = FrontOf(q)
       /\ NextBatches(p, x) \in Seq(Writes) /\ p \o NextBatches(p, x) = FrontOf(x)
  <2>1. p = FrontOf(q)
    BY <1>4, <1>5, <1>7, <1>9, FilledMeans, CurrentShape DEF RemoteInv
  <2>2. w \notin ToSet(q)
    BY <1>4, <1>5, <1>6, <1>7
  <2> QED  BY <1>7, <1>8, <2>1, <2>2, FillingAfterWrite
<1>13. PICK added \in Seq(Writes) : added = NextBatches(p, x)
  BY <1>12
<1>14. pipeline' = p \o added /\ pipeline' = FrontOf(x) /\ pipeline' \in Seq(Writes)
  <2>1. pipeline' = p \o NextBatches(p, x)
    BY <1>5, <1>6, <1>7, <1>8, <1>9
       DEF WorkerWritesMutations, FillStarted, FillStopped
  <2> QED  BY <1>12, <1>13, <2>1, ConcatProperties
<1>15. PipelineIsFilled'
  BY <1>11, <1>14, FilledMeansNext
<1>16. TokensKept' /\ Bounded'
  BY <1>1, <1>5, <1>10, TokensStay, BoundedKept DEF RemoteInv
<1>17. CASE IsStarted
  <2>1. FillStarted(p, x, responses)
    BY <1>5, <1>6, <1>7, <1>8, <1>9, <1>17 DEF WorkerWritesMutations
  <2>2. "idle" \in timers => p = <<>> /\ handshake /\ IsOpen
    BY <1>2, <1>9, <1>17 DEF Bookkept, AssertionsHold
  <2>3. ~handshake => p # <<>>
    BY <1>2, <1>9, <1>17 DEF Bookkept, AssertionsHold
  <2>4. Bookkept' /\ (IsOpen' <=> IsOpen)
    BY <1>1, <1>2, <1>12, <1>17, <2>1, <2>2, <2>3, FillsStarted
  <2>5. /\ responses' = responses
        /\ requests' = IF handshake /\ verdict = NoVerdict
                         THEN requests \o added ELSE requests
    BY <1>13, <2>1 DEF FillStarted
  <2>6. /\ requests \in Seq(Sent) /\ responses \in Seq(Sent) /\ verdict \in Verdicts
        /\ added \in Seq(Sent) /\ p \in Seq(Sent)
        /\ requests \o added \in Seq(Sent)
    <3>1. /\ requests \in Seq(Sent) /\ added \in Seq(Sent) /\ p \in Seq(Sent)
          /\ responses \in Seq(Sent) /\ verdict \in Verdicts
      BY <1>2 DEF Carried, CallTyped, Sent
    <3> QED  BY <3>1, ConcatProperties
  <2>7. CallTyped'
    BY <1>1, <1>14, <2>5, <2>6 DEF CallTyped
  <2>8. AnswersApplied'
    BY <1>2, <1>10, <2>5 DEF Carried, AnswersApplied
  <2>9. CASE ~IsOpen
    <3>1. NoCall /\ ~handshake
      BY <1>2, <2>9, Closed, Outdated
    <3>2. NoCall'
      BY <1>1, <2>5, <3>1 DEF NoCall, NoVerdict
    <3> QED  BY <1>14, <2>4, <2>9, <3>2, NothingCarried, <1>1, <1>15, <1>16
             DEF PipelineInv
  <2>10. CASE IsOpen /\ ~handshake
    <3>1. Expected' = <<Handshake>> /\ Expected = <<Handshake>>
      BY <1>1, <2>10 DEF Expected
    <3>2. requests' = requests /\ verdict' = verdict
      BY <1>1, <2>5, <2>10
    <3>3. AnswersMatchPipeline'
      BY <1>2, <2>4, <2>5, <2>10, <3>1, <3>2
         DEF Carried, AnswersMatchPipeline, NoVerdict
    <3> QED  BY <1>1, <1>15, <1>16, <2>4, <2>7, <2>8, <3>3 DEF PipelineInv, Carried
  <2>11. CASE IsOpen /\ handshake /\ verdict = NoVerdict
    <3>1. Expected = p /\ Expected' = p \o added
      BY <1>1, <1>9, <1>14, <2>11 DEF Expected
    <3>2. responses \o requests = p
      BY <1>2, <2>11, <3>1 DEF Carried, AnswersMatchPipeline
    <3>3. requests' = requests \o added /\ verdict' = NoVerdict
      BY <1>1, <2>5, <2>11 DEF NoVerdict
    <3>4. responses \o requests' = p \o added
      <4>1. responses \o (requests \o added) = (responses \o requests) \o added
        BY <2>6, SentBehind
      <4> QED  BY <3>2, <3>3, <4>1
    <3>5. AnswersMatchPipeline'
      BY <2>4, <2>5, <2>11, <3>1, <3>3, <3>4 DEF AnswersMatchPipeline, NoVerdict
    <3> QED  BY <1>1, <1>15, <1>16, <2>4, <2>7, <2>8, <3>5 DEF PipelineInv, Carried
  <2>12. CASE IsOpen /\ handshake /\ verdict # NoVerdict
    <3>1. Expected = p /\ Expected' = p \o added
      BY <1>1, <1>9, <1>14, <2>12 DEF Expected
    <3>2. requests = <<>> /\ IsPrefix(Append(responses, verdict.about), p)
      BY <1>2, <2>12, <3>1 DEF Carried, AnswersMatchPipeline
    <3>3. verdict.about \in Sent
      BY <2>6 DEF Verdicts, NoVerdict, Sent
    <3>4. IsPrefix(Append(responses, verdict.about), p \o added)
      BY <2>6, <3>2, <3>3, AppendProperties, PrefixGrows
    <3>5. requests' = requests /\ verdict' = verdict
      BY <1>1, <2>5, <2>12
    <3>6. AnswersMatchPipeline'
      BY <2>4, <2>5, <2>12, <3>1, <3>2, <3>4, <3>5 DEF AnswersMatchPipeline, NoVerdict
    <3> QED  BY <1>1, <1>15, <1>16, <2>4, <2>7, <2>8, <3>6 DEF PipelineInv, Carried
  <2> QED  BY <2>9, <2>10, <2>11, <2>12
<1>18. CASE ~IsStarted
  <2>1. /\ FillStopped(p, x, stream, closeCount, asked)
        /\ UNCHANGED <<requests, responses>>
    BY <1>5, <1>6, <1>7, <1>8, <1>9, <1>18 DEF WorkerWritesMutations
  <2>2. ~IsOpen /\ stream # "Starting"
    BY <1>18 DEF IsStarted
  <2>3. /\ stream \in {"Initial", "Error"} /\ handshake = FALSE
        /\ closeCount \in Nat /\ asked \in SUBSET Nat
        /\ \A n \in asked : n <= closeCount /\ n # closeCount
    BY <1>2, <1>18, <2>2, Outdated
  <2>4. closeCount' = closeCount /\ handshake' = FALSE
    BY <1>1, <2>3
  <2>5. Bookkept' /\ ~IsOpen'
    BY <2>1, <2>3, <2>4, FillsStopped
  <2>6. NoCall'
    BY <1>1, <1>2, <2>1, <2>2, Closed DEF NoCall, NoVerdict
  <2>7. Carried'
    BY <1>14, <2>5, <2>6, NothingCarried
  <2> QED  BY <1>1, <1>15, <1>16, <2>5, <2>7 DEF PipelineInv
<1> QED  BY <1>17, <1>18

-----------------------------------------------------------------------------
(* The steps of the backend, and of its answers                            *)

(* What is under way when the call is not over.                            *)
LEMMA UnderWay ==
    ASSUME Carried
    PROVE  /\ requests \in Seq(Sent) /\ responses \in Seq(Sent)
           /\ pipeline \in Seq(Writes) /\ pipeline \in Seq(Sent)
           /\ verdict \in Verdicts /\ verdict.about \in Sent
           /\ Expected \in Seq(Sent)
           /\ requests # <<>> \/ responses # <<>> \/ verdict # NoVerdict => IsOpen
           /\ IsOpen /\ verdict = NoVerdict => responses \o requests = Expected
           /\ verdict # NoVerdict =>
                 /\ requests = <<>>
                 /\ IsPrefix(Append(responses, verdict.about), Expected)
<1>1. CallTyped
  BY DEF Carried
<1>2. /\ requests \in Seq(Sent) /\ responses \in Seq(Sent)
      /\ pipeline \in Seq(Writes) /\ pipeline \in Seq(Sent)
      /\ verdict \in Verdicts
  BY <1>1 DEF CallTyped, Sent
<1>3. verdict.about \in Sent
  BY <1>2 DEF Verdicts, NoVerdict, Sent
<1>4. Expected \in Seq(Sent)
  <2>1. <<Handshake>> \in Seq(Sent)
    BY DEF Sent
  <2> QED  BY <1>2, <2>1 DEF Expected
<1>5. requests # <<>> \/ responses # <<>> \/ verdict # NoVerdict => IsOpen
  BY DEF Carried, AnswersMatchPipeline, NoCall
<1> QED  BY <1>2, <1>3, <1>4, <1>5 DEF Carried, AnswersMatchPipeline

(* The backend applies the first request that is not answered: every batch *)
(* before it in the user's queue has been applied.                         *)
LEMMA BackendAnswersStep ==
    ASSUME RemoteInv, BackendAnswers
    PROVE  [StoreNext]_storeVars /\ PipelineInv'
<1>1. /\ requests # <<>> /\ verdict = NoVerdict
      /\ requests' = Tail(requests)
      /\ responses' = Append(responses, Head(requests))
      /\ applied' = applied \cup ({Head(requests)} \cap Writes)
      /\ UNCHANGED <<created, credential, worker, syncUser, mutations, callbacks,
                     issued, mainQueue, restarts, streamVars, pipeline, verdict,
                     tokenVars, disruptions>>
  BY DEF BackendAnswers
<1>2. Bookkept /\ Carried
  BY DEF RemoteInv
<1>3. /\ requests \in Seq(Sent) /\ responses \in Seq(Sent) /\ Expected \in Seq(Sent)
      /\ pipeline \in Seq(Writes) /\ verdict \in Verdicts
      /\ IsOpen /\ responses \o requests = Expected
  BY <1>1, <1>2, UnderWay
<1>4. /\ Head(requests) \in Sent /\ Tail(requests) \in Seq(Sent)
      /\ Len(responses) + 1 \in 1 .. Len(Expected)
      /\ Expected[Len(responses) + 1] = Head(requests)
      /\ \A i \in 1 .. Len(responses) : Expected[i] = responses[i]
      /\ Append(responses, Head(requests)) \in Seq(Sent)
      /\ Append(responses, Head(requests)) \o Tail(requests) = Expected
  BY <1>1, <1>3, RequestIsNext
<1>5. [StoreNext]_storeVars
  <2>1. CASE Head(requests) \notin Writes
    <3>1. applied' = applied
      BY <1>1, <2>1
    <3> QED  BY <1>1, <3>1 DEF storeVars
  <2>2. CASE Head(requests) \in Writes
    <3>1. handshake
      <4>1. ASSUME ~handshake PROVE FALSE
        <5>1. Expected = <<Handshake>> /\ Len(Expected) = 1
          BY <4>1 DEF Expected
        <5>2. Len(responses) + 1 = 1
          BY <1>4, <5>1
        <5> QED  BY <1>4, <2>2, <5>1, <5>2, HandshakeAssumption
      <4> QED  BY <4>1
    <3>2. Expected = pipeline
      BY <3>1 DEF Expected
    <3>3. PICK n \in Nat : n = Len(responses)
      BY <1>3, LenProperties
    <3>4. pipeline # <<>>
      BY <1>4, <3>2, <3>3
    <3>5. /\ syncUser \in Owners /\ syncUser # NoEngine
          /\ mutations[syncUser] \in Seq(Writes) /\ mutations[syncUser] # <<>>
          /\ pipeline = FrontOf(mutations[syncUser])
      BY <3>4, PipelineShape DEF RemoteInv
    <3>6. PICK q \in Seq(Writes) : q = mutations[syncUser]
      BY <3>5
    <3>7. /\ Len(pipeline) = Full(q) /\ Full(q) \in 0 .. Len(q) /\ Len(q) \in Nat
          /\ \A i \in 1 .. Full(q) : pipeline[i] = q[i]
          /\ DOMAIN q = 1 .. Len(q)
      BY <3>5, <3>6, FullShape, Fronts DEF FrontOf
    <3>8. n + 1 \in DOMAIN q /\ q[n + 1] = Head(requests)
      BY <1>4, <3>2, <3>3, <3>7
    <3>9. \A j \in 1 .. n + 1 - 1 : q[j] \in applied
      <4>1. TAKE j \in 1 .. n + 1 - 1
      <4>2. j \in 1 .. n /\ j \in 1 .. Full(q)
        BY <1>4, <3>2, <3>3, <3>7
      <4>3. q[j] = responses[j]
        BY <1>4, <3>2, <3>3, <3>7, <4>2
      <4>4. j \in DOMAIN responses /\ q[j] \in Writes
        BY <1>3, <3>3, <3>7, <4>2, LenProperties, ElementOfSeq
      <4> QED  BY <1>2, <4>3, <4>4 DEF Carried, AnswersApplied
    <3>10. applied' = applied \cup {Head(requests)}
      BY <1>1, <2>2
    <3>11. BackendApplies(Head(requests))
      BY <1>1, <3>5, <3>6, <3>8, <3>9, <3>10 DEF BackendApplies, Sending
    <3> QED  BY <2>2, <3>11 DEF StoreNext
  <2> QED  BY <2>1, <2>2
<1>6. Carried'
  <2>1. CallTyped'
    BY <1>1, <1>3, <1>4 DEF CallTyped
  <2>2. IsOpen' = IsOpen /\ Expected' = Expected /\ verdict' = NoVerdict
    BY <1>1 DEF IsOpen, Expected, streamVars, NoVerdict
  <2>3. AnswersMatchPipeline'
    BY <1>1, <1>3, <1>4, <2>2 DEF AnswersMatchPipeline, NoVerdict
  <2>4. AnswersApplied'
    <3>1. /\ DOMAIN responses' = 1 .. Len(responses) + 1
          /\ DOMAIN responses = 1 .. Len(responses) /\ Len(responses) \in Nat
          /\ \A i \in 1 .. Len(responses) : responses'[i] = responses[i]
          /\ responses'[Len(responses) + 1] = Head(requests)
      BY <1>1, <1>3, <1>4, AppendProperties, LenProperties
    <3>2. ASSUME NEW i \in DOMAIN responses', responses'[i] \in Writes
          PROVE  responses'[i] \in applied'
      <4>1. CASE i = Len(responses) + 1
        BY <1>1, <3>1, <3>2, <4>1
      <4>2. CASE i # Len(responses) + 1
        <5>1. i \in DOMAIN responses /\ responses'[i] = responses[i]
          BY <3>1, <3>2, <4>2
        <5> QED  BY <1>1, <1>2, <3>2, <5>1 DEF Carried, AnswersApplied
      <4> QED  BY <4>1, <4>2
    <3> QED  BY <3>2 DEF AnswersApplied
  <2> QED  BY <2>1, <2>3, <2>4 DEF Carried
<1> QED
  BY <1>1, <1>2, <1>5, <1>6, BookkeptKept, FilledKept, TokensStay, BoundedKept
     DEF RemoteInv, PipelineInv

(* A call that is refused carries nothing more to the backend.             *)
LEMMA BackendRefusesStep ==
    ASSUME RemoteInv, NEW status \in Statuses, BackendRefuses(status)
    PROVE  [StoreNext]_storeVars /\ PipelineInv'
<1>1. /\ requests # <<>> /\ verdict = NoVerdict /\ Disrupts
      /\ verdict' = [status |-> status, about |-> Head(requests), overtakes |-> FALSE]
      /\ requests' = <<>>
      /\ UNCHANGED <<storeVars, streamVars, pipeline, responses, tokenVars>>
  BY DEF BackendRefuses
<1>2. Bookkept /\ Carried
  BY DEF RemoteInv
<1>3. /\ requests \in Seq(Sent) /\ responses \in Seq(Sent) /\ Expected \in Seq(Sent)
      /\ pipeline \in Seq(Writes)
      /\ IsOpen /\ responses \o requests = Expected
  BY <1>1, <1>2, UnderWay
<1>4. Head(requests) \in Sent /\ IsPrefix(Append(responses, Head(requests)), Expected)
  BY <1>1, <1>3, RequestIsNext
<1>5. verdict' \in Verdicts /\ verdict' # NoVerdict /\ verdict'.about = Head(requests)
  <2>1. status # "none"
    BY DEF Statuses
  <2> QED  BY <1>1, <1>4, <2>1 DEF Verdicts, NoVerdict, Sent
<1>6. CallTyped'
  BY <1>1, <1>3, <1>5, EmptySeq DEF CallTyped
<1>7. IsOpen' = IsOpen /\ Expected' = Expected
  BY <1>1 DEF IsOpen, Expected, streamVars
<1>8. AnswersMatchPipeline'
  BY <1>1, <1>3, <1>4, <1>5, <1>7 DEF AnswersMatchPipeline, NoVerdict
<1>9. UNCHANGED <<mutations, syncUser, applied>>
  BY <1>1 DEF storeVars
<1>10. AnswersApplied'
  BY <1>1, <1>2, <1>9 DEF Carried, AnswersApplied
<1> QED
  BY <1>1, <1>2, <1>6, <1>8, <1>9, <1>10, BookkeptKept, FilledKept, TokensStay,
     BoundedKept DEF RemoteInv, PipelineInv, Carried

(* The answer to the handshake is the only one, and sends the pipeline.    *)
LEMMA HandshakeCompletesStep ==
    ASSUME RemoteInv, HandshakeCompletes
    PROVE  [StoreNext]_storeVars /\ PipelineInv'
<1>1. /\ responses # <<>> /\ ~handshake /\ handshake' = TRUE
      /\ streamToken' = syncUser
      /\ storedToken' = [storedToken EXCEPT ![syncUser] = syncUser]
      /\ requests' = IF verdict = NoVerdict THEN requests \o pipeline ELSE requests
      /\ timers' = IF pipeline = <<>> THEN timers ELSE timers \ {"idle"}
      /\ responses' = Tail(responses)
      /\ UNCHANGED <<storeVars, stream, closeCount, asked, pipeline, verdict,
                     disruptions>>
  BY DEF HandshakeCompletes, SaveToken
<1>2. Bookkept /\ Carried
  BY DEF RemoteInv
<1>3. /\ requests \in Seq(Sent) /\ responses \in Seq(Sent) /\ Expected \in Seq(Sent)
      /\ pipeline \in Seq(Writes) /\ pipeline \in Seq(Sent) /\ verdict \in Verdicts
      /\ verdict.about \in Sent /\ IsOpen
  BY <1>1, <1>2, UnderWay
<1>4. Expected = <<Handshake>> /\ Len(Expected) = 1
  BY <1>1 DEF Expected
<1>5. verdict = NoVerdict
  <2>1. ASSUME verdict # NoVerdict PROVE FALSE
    <3>1. IsPrefix(Append(responses, verdict.about), Expected)
      BY <1>2, <2>1, UnderWay
    <3>2. Len(Expected) >= 2
      BY <1>1, <1>3, <3>1, RefusalFollows
    <3> QED  BY <1>4, <3>2
  <2> QED  BY <2>1
<1>6. responses \o requests = Expected
  BY <1>2, <1>3, <1>5, UnderWay
<1>7. responses' = <<>> /\ requests' = pipeline
  <2>1. requests = <<>> /\ Len(responses) = 1
    <3>1. Len(requests) \in Nat /\ Len(responses) \in Nat
      BY <1>3, LenProperties
    <3>2. responses # <<>>
      BY <1>1
    <3>3. Len(responses) # 0
      BY <1>3, <3>2, EmptySeq
    <3>4. Len(responses \o requests) = Len(responses) + Len(requests)
      BY <1>3, ConcatProperties
    <3>5. Len(responses) + Len(requests) = 1
      BY <1>4, <1>6, <3>4
    <3>6. Len(requests) = 0 /\ Len(responses) = 1
      BY <3>1, <3>3, <3>5
    <3> QED  BY <1>3, <3>6, EmptySeq
  <2>2. requests = <<>> /\ Len(responses) = 1
    BY <2>1
  <2>3. Tail(responses) \in Seq(Sent) /\ Len(Tail(responses)) = 0
    BY <1>1, <1>3, <2>2, HeadTailProperties
  <2>4. Tail(responses) = <<>>
    BY <2>3, EmptySeq
  <2>5. <<>> \o pipeline = pipeline
    BY <1>3, ConcatEmptySeq
  <2> QED  BY <1>1, <1>5, <2>2, <2>4, <2>5
<1>8. /\ pipeline # <<>> /\ timers' = timers \ {"idle"}
  BY <1>1, <1>2, <1>3 DEF Bookkept, AssertionsHold, IsStarted
<1>9. IsOpen' /\ IsStarted'
  BY <1>1, <1>3 DEF IsOpen, IsStarted
<1>10. Bookkept'
  <2>1. StreamTyped' /\ CountsTyped'
    BY <1>1, <1>2, <1>8 DEF Bookkept, StreamTyped, CountsTyped
  <2>2. /\ "idle" \notin timers'
        /\ "backoff" \in timers' <=> "backoff" \in timers
        /\ "health" \in timers' <=> "health" \in timers
    BY <1>8
  <2>3. AssertionsHold'
    BY <1>1, <1>2, <1>9, <2>2 DEF Bookkept, AssertionsHold
  <2>4. StreamRunsWhileNeeded'
    BY <1>9 DEF StreamRunsWhileNeeded
  <2> QED  BY <2>1, <2>3, <2>4 DEF Bookkept
<1>11. Carried'
  <2>1. CallTyped'
    BY <1>1, <1>3, <1>7, EmptySeq DEF CallTyped
  <2>2. Expected' = pipeline /\ verdict' = NoVerdict
    BY <1>1, <1>5 DEF Expected, NoVerdict
  <2>3. <<>> \o pipeline = pipeline
    BY <1>3, ConcatEmptySeq
  <2>4. AnswersMatchPipeline'
    BY <1>7, <1>9, <2>2, <2>3 DEF AnswersMatchPipeline, NoVerdict
  <2>5. AnswersApplied'
    BY <1>7 DEF AnswersApplied
  <2> QED  BY <2>1, <2>4, <2>5 DEF Carried
<1>12. UNCHANGED <<mutations, syncUser>>
  BY <1>1 DEF storeVars
<1>13. syncUser \in Owners
  BY <1>8, PipelineShape DEF RemoteInv
<1>14. TokensKept'
  BY <1>1, <1>12, <1>13 DEF RemoteInv, TokensKept, TokenFollowsUser
<1> QED
  BY <1>1, <1>10, <1>11, <1>12, <1>14, FilledKept, BoundedKept
     DEF RemoteInv, PipelineInv

(* The next answer is about the front of the pipeline, which is the head   *)
(* of the queue and has been applied; the others move up with the rest.    *)
LEMMA AnswerIsForFront ==
    ASSUME RemoteInv, responses # <<>>, handshake
    PROVE  /\ IsOpen /\ pipeline # <<>>
           /\ Head(pipeline) \in Writes /\ Head(pipeline) \in applied
           /\ Head(pipeline) = Head(responses)
           /\ Tail(pipeline) \in Seq(Writes) /\ Tail(responses) \in Seq(Sent)
           /\ verdict = NoVerdict => Tail(responses) \o requests = Tail(pipeline)
           /\ verdict # NoVerdict =>
                 /\ requests = <<>>
                 /\ IsPrefix(Append(Tail(responses), verdict.about), Tail(pipeline))
           /\ \A i \in DOMAIN Tail(responses) :
                 Tail(responses)[i] \in Writes => Tail(responses)[i] \in applied
<1>1. Carried
  BY DEF RemoteInv
<1>2. /\ requests \in Seq(Sent) /\ responses \in Seq(Sent)
      /\ pipeline \in Seq(Writes) /\ pipeline \in Seq(Sent)
      /\ verdict.about \in Sent /\ IsOpen /\ Expected = pipeline
  BY <1>1, UnderWay DEF Expected
<1>3. /\ pipeline # <<>> /\ Head(pipeline) = Head(responses)
      /\ verdict = NoVerdict => Tail(responses) \o requests = Tail(pipeline)
      /\ verdict # NoVerdict =>
            /\ requests = <<>>
            /\ IsPrefix(Append(Tail(responses), verdict.about), Tail(pipeline))
  <2>1. CASE verdict = NoVerdict
    <3>1. responses \o requests = pipeline
      BY <1>1, <1>2, <2>1, UnderWay
    <3> QED  BY <1>2, <2>1, <3>1, AnswerLeads
  <2>2. CASE verdict # NoVerdict
    <3>1. requests = <<>> /\ IsPrefix(Append(responses, verdict.about), pipeline)
      BY <1>1, <1>2, <2>2, UnderWay
    <3> QED  BY <1>2, <2>2, <3>1, RefusalFollows
  <2> QED  BY <2>1, <2>2
<1>4. PICK r \in Seq(Sent) : r = responses
  BY <1>2
<1>5. /\ Head(r) = r[1] /\ DOMAIN r = 1 .. Len(r) /\ 1 \in DOMAIN r
      /\ Tail(r) \in Seq(Sent) /\ DOMAIN Tail(r) = 1 .. Len(r) - 1
      /\ Len(r) \in Nat
      /\ \A i \in 1 .. Len(r) - 1 : Tail(r)[i] = r[i + 1]
  BY <1>4, HeadTailProperties, EmptySeq, LenProperties
<1>6. Tail(pipeline) \in Seq(Writes) /\ Head(pipeline) \in Writes
  BY <1>2, <1>3, HeadTailProperties
<1>7. \A i \in DOMAIN r : r[i] \in Writes => r[i] \in applied
  BY <1>1, <1>4 DEF Carried, AnswersApplied
<1>8. Head(pipeline) \in applied
  BY <1>3, <1>4, <1>5, <1>6, <1>7
<1>9. ASSUME NEW i \in DOMAIN Tail(r), Tail(r)[i] \in Writes
      PROVE  Tail(r)[i] \in applied
  <2>1. i + 1 \in DOMAIN r /\ Tail(r)[i] = r[i + 1]
    BY <1>5
  <2> QED  BY <1>7, <1>9, <2>1
<1> QED  BY <1>2, <1>3, <1>4, <1>5, <1>6, <1>8, <1>9

LEMMA MutationResultArrivesStep ==
    ASSUME RemoteInv, MutationResultArrives
    PROVE  [StoreNext]_storeVars /\ PipelineInv' /\ \A w \in Writes : ~FailsNow(w)
<1>1. /\ responses # <<>> /\ handshake /\ pipeline # <<>>
      /\ streamToken' = syncUser
      /\ storedToken' = [storedToken EXCEPT ![syncUser] = syncUser]
      /\ Settle(Head(pipeline), "ok")
      /\ FillStarted(Tail(pipeline), QueueWithout(Head(pipeline)), Tail(responses))
      /\ verdict' = [verdict EXCEPT !.overtakes = @ \/ WriteFails]
      /\ UNCHANGED <<handshake, closeCount, disruptions>>
  BY DEF MutationResultArrives, SaveToken
<1>2. Bookkept /\ Carried
  BY DEF RemoteInv
<1>3. /\ IsOpen /\ Head(pipeline) \in Writes /\ Head(pipeline) \in applied
      /\ Tail(pipeline) \in Seq(Writes) /\ Tail(responses) \in Seq(Sent)
      /\ verdict = NoVerdict => Tail(responses) \o requests = Tail(pipeline)
      /\ verdict # NoVerdict =>
            /\ requests = <<>>
            /\ IsPrefix(Append(Tail(responses), verdict.about), Tail(pipeline))
      /\ \A i \in DOMAIN Tail(responses) :
            Tail(responses)[i] \in Writes => Tail(responses)[i] \in applied
  BY <1>1, AnswerIsForFront
<1>4. /\ Sending /\ SettleHead("ok") /\ syncUser' = syncUser /\ syncUser \in Owners
      /\ applied' = applied
      /\ Current' = Tail(mutations[syncUser])
      /\ \A w \in Writes : ~FailsNow(w)
  BY <1>1, SettlesHead
<1>5. /\ mutations[syncUser] \in Seq(Writes) /\ mutations[syncUser] # <<>>
      /\ IsInjective(mutations[syncUser])
      /\ pipeline = FrontOf(mutations[syncUser])
      /\ Head(pipeline) = Head(mutations[syncUser])
      /\ QueueWithout(Head(pipeline)) = Tail(mutations[syncUser])
  BY <1>1, PipelineShape DEF RemoteInv
<1>6. [StoreNext]_storeVars
  BY <1>3, <1>4, <1>5 DEF StoreNext, HandleSuccessfulWrite
<1>7. PICK q \in Seq(Writes) : q = Tail(mutations[syncUser])
  BY <1>5, SettlingFront
<1>8. PICK p \in Seq(Writes) : p = Tail(pipeline)
  BY <1>3
<1>9. NextBatches(p, q) \in Seq(Writes) /\ p \o NextBatches(p, q) = FrontOf(q)
  BY <1>5, <1>7, <1>8, FillingAfterFront
<1>10. PICK added \in Seq(Writes) : added = NextBatches(p, q)
  BY <1>9
<1>11. FillStarted(p, q, Tail(responses))
  BY <1>1, <1>5, <1>7, <1>8
<1>12. /\ pipeline' = p \o added /\ pipeline' = FrontOf(q) /\ pipeline' \in Seq(Writes)
       /\ responses' = Tail(responses)
       /\ requests' = IF handshake /\ verdict = NoVerdict
                        THEN requests \o added ELSE requests
  BY <1>9, <1>10, <1>11, ConcatProperties DEF FillStarted
<1>13. PipelineIsFilled'
  BY <1>4, <1>7, <1>12, FilledMeansNext
<1>14. TokensKept'
  BY <1>1, <1>4 DEF RemoteInv, TokensKept, TokenFollowsUser
<1>15. Bookkept' /\ IsOpen'
  <2>1. "idle" \notin timers /\ IsStarted
    BY <1>1, <1>2, <1>3 DEF Bookkept, AssertionsHold, IsStarted
  <2> QED  BY <1>1, <1>2, <1>3, <1>9, <1>11, <2>1, FillsStarted
<1>16. verdict = NoVerdict => verdict' = NoVerdict
  <2>1. SUFFICES ASSUME verdict = NoVerdict PROVE verdict' = NoVerdict
    OBVIOUS
  <2>2. PICK b \in BOOLEAN : b = (verdict.overtakes \/ WriteFails)
    OBVIOUS
  <2>3. verdict' = [NoVerdict EXCEPT !.overtakes = b]
    BY <1>1, <2>1, <2>2
  <2>4. ~WriteFails
    BY <2>1 DEF WriteFails
  <2>5. ~verdict.overtakes
    BY <2>1 DEF NoVerdict
  <2>6. b = FALSE
    BY <2>2, <2>4, <2>5
  <2> QED  BY <2>3, <2>6 DEF NoVerdict
<1>17. verdict # NoVerdict =>
          verdict' \in Verdicts /\ verdict' # NoVerdict /\ verdict'.about = verdict.about
  <2>1. ASSUME verdict # NoVerdict
        PROVE  /\ verdict' \in Verdicts /\ verdict' # NoVerdict
               /\ verdict'.about = verdict.about
    <3>1. verdict \in [status : Statuses, about : Writes \cup {Handshake},
                       overtakes : BOOLEAN]
      BY <1>2, <2>1 DEF Carried, CallTyped, Verdicts
    <3>2. PICK b \in BOOLEAN : b = (verdict.overtakes \/ WriteFails)
      OBVIOUS
    <3>3. verdict' = [verdict EXCEPT !.overtakes = b]
      BY <1>1, <3>2
    <3>4. /\ verdict' \in [status : Statuses, about : Writes \cup {Handshake},
                           overtakes : BOOLEAN]
          /\ verdict'.about = verdict.about
      BY <3>1, <3>3
    <3>5. verdict'.status # "none"
      BY <3>4 DEF Statuses
    <3> QED  BY <3>4, <3>5 DEF Verdicts, NoVerdict
  <2> QED  BY <2>1
<1>18. /\ requests \in Seq(Sent) /\ added \in Seq(Sent) /\ p \in Seq(Sent)
       /\ requests \o added \in Seq(Sent) /\ verdict \in Verdicts
       /\ verdict.about \in Sent
  <2>1. /\ requests \in Seq(Sent) /\ verdict \in Verdicts /\ verdict.about \in Sent
        /\ added \in Seq(Sent) /\ p \in Seq(Sent)
    BY <1>2, UnderWay DEF Sent
  <2> QED  BY <2>1, ConcatProperties
<1>19. CallTyped'
  <2>1. verdict' \in Verdicts
    BY <1>16, <1>17 DEF Verdicts
  <2> QED  BY <1>3, <1>12, <1>18, <2>1 DEF CallTyped
<1>20. AnswersApplied'
  BY <1>3, <1>4, <1>12 DEF AnswersApplied
<1>21. Expected' = p \o added
  BY <1>1, <1>12 DEF Expected
<1>22. AnswersMatchPipeline'
  <2>1. CASE verdict = NoVerdict
    <3>1. requests' = requests \o added /\ verdict' = NoVerdict
      BY <1>1, <1>12, <1>16, <2>1 DEF NoVerdict
    <3>2. Tail(responses) \o requests = p
      BY <1>3, <1>8, <2>1
    <3>3. Tail(responses) \o (requests \o added) = (Tail(responses) \o requests) \o added
      BY <1>3, <1>18, SentBehind
    <3>4. responses' \o requests' = p \o added
      BY <1>12, <3>1, <3>2, <3>3
    <3> QED  BY <1>15, <1>21, <3>1, <3>4 DEF AnswersMatchPipeline, NoVerdict
  <2>2. CASE verdict # NoVerdict
    <3>1. requests' = <<>>
      BY <1>3, <1>12, <2>2
    <3>2. IsPrefix(Append(Tail(responses), verdict.about), p)
      BY <1>3, <1>8, <2>2
    <3>3. Append(Tail(responses), verdict.about) \in Seq(Sent)
      BY <1>3, <1>18, AppendProperties
    <3>4. IsPrefix(Append(Tail(responses), verdict.about), p \o added)
      BY <1>18, <3>2, <3>3, PrefixGrows
    <3>5. verdict' # NoVerdict /\ verdict'.about = verdict.about
      BY <1>17, <2>2
    <3> QED
      BY <1>12, <1>15, <1>21, <3>1, <3>4, <3>5 DEF AnswersMatchPipeline, NoVerdict
  <2> QED  BY <2>1, <2>2
<1>23. Bounded'
  BY <1>1, BoundedKept DEF RemoteInv
<1> QED
  BY <1>4, <1>6, <1>13, <1>14, <1>15, <1>19, <1>20, <1>22, <1>23
     DEF PipelineInv, Carried

-----------------------------------------------------------------------------
(* The steps that end the stream                                           *)

(* Whatever ends it, a failure is told only of the front of the pipeline,  *)
(* and only after the handshake and a permanent write error.               *)
LEMMA Finishing ==
    ASSUME RemoteInv, NEW status, NEW pending \in SUBSET asked,
           OnStreamFinish(status, pending)
    PROVE  /\ [StoreNext]_storeVars
           /\ Bookkept' /\ Carried' /\ PipelineIsFilled' /\ TokensKept'
           /\ \A w \in Writes : FailsNow(w) =>
                 /\ handshake /\ PermanentWriteError(status)
                 /\ pipeline # <<>> /\ w = Head(pipeline)
<1>1. closeCount' = closeCount + 1 /\ handshake' = FALSE /\ NoCall'
  BY DEF OnStreamFinish, Close, DropCall, NoCall, NoVerdict
<1>2. Bookkept /\ Carried
  BY DEF RemoteInv
<1>3. /\ closeCount + 1 \in Nat /\ pending \in SUBSET Nat
      /\ \A n \in pending : n <= closeCount + 1 /\ n # closeCount + 1
  BY <1>2, Outdated
<1>4. StoreInv
  BY DEF RemoteInv
<1>5. CASE pipeline = <<>>
  <2>1. /\ stream' = "Error" /\ timers' = {} /\ asked' = pending
        /\ UNCHANGED <<storeVars, pipeline, tokenVars>>
    BY <1>5 DEF OnStreamFinish, StayClosed
  <2>2. pipeline' = <<>>
    BY <1>5, <2>1
  <2>3. Bookkept' /\ ~IsOpen'
    BY <1>1, <1>3, <2>1, <2>2, Stays
  <2>4. Carried'
    BY <1>1, <2>2, <2>3, NothingCarried, EmptySeq
  <2>5. UNCHANGED <<mutations, syncUser, mainQueue>>
    BY <2>1 DEF storeVars
  <2>6. \A w \in Writes : ~FailsNow(w)
    BY <1>4, <2>5, NobodyFails
  <2> QED
    BY <2>1, <2>3, <2>4, <2>5, <2>6, FilledKept, TokensStay DEF RemoteInv
<1>6. CASE pipeline # <<>> /\ handshake /\ PermanentWriteError(status)
  <2>1. /\ Settle(Head(pipeline), "failed")
        /\ FillStopped(Tail(pipeline), QueueWithout(Head(pipeline)), "Initial",
                       closeCount', pending)
        /\ UNCHANGED tokenVars
    BY <1>6 DEF OnStreamFinish, HandleWriteError
  <2>2. /\ Sending /\ SettleHead("failed") /\ syncUser' = syncUser
        /\ Current' = Tail(mutations[syncUser])
        /\ \A w \in Writes : FailsNow(w) => w = Head(pipeline)
    BY <1>6, <2>1, SettlesHead
  <2>3. /\ mutations[syncUser] \in Seq(Writes) /\ mutations[syncUser] # <<>>
        /\ IsInjective(mutations[syncUser])
        /\ pipeline = FrontOf(mutations[syncUser])
        /\ QueueWithout(Head(pipeline)) = Tail(mutations[syncUser])
    BY <1>4, <1>6, PipelineShape DEF RemoteInv
  <2>4. StoreNext
    BY <2>2 DEF StoreNext, HandleRejectedWrite
  <2>5. PICK q \in Seq(Writes) : q = Tail(mutations[syncUser])
    BY <2>3, SettlingFront
  <2>6. Tail(pipeline) \o NextBatches(Tail(pipeline), q) = FrontOf(q)
    BY <2>3, <2>5, FillingAfterFront
  <2>7. pipeline' = FrontOf(q)
    BY <2>1, <2>3, <2>5, <2>6 DEF FillStopped
  <2>8. pipeline' \in Seq(Writes)
    BY <2>7, FullShape, Fronts DEF FrontOf
  <2>9. PipelineIsFilled'
    BY <2>2, <2>5, <2>7, FilledMeansNext
  <2>10. Bookkept' /\ ~IsOpen'
    <3>1. FillStopped(Tail(pipeline), QueueWithout(Head(pipeline)), "Initial",
                      closeCount + 1, pending)
      BY <1>1, <2>1
    <3> QED  BY <1>1, <1>3, <3>1, FillsStopped
  <2>11. Carried'
    BY <1>1, <2>8, <2>10, NothingCarried
  <2>12. TokensKept'
    BY <2>1, <2>2, TokensStay DEF RemoteInv
  <2> QED  BY <1>6, <2>2, <2>4, <2>9, <2>10, <2>11, <2>12
<1>7. CASE pipeline # <<>> /\ ~(handshake /\ PermanentWriteError(status))
  <2>1. /\ Start("Error", closeCount', pending)
        /\ UNCHANGED <<storeVars, pipeline>>
        /\ IF ~handshake /\ PermanentError(status) THEN SaveToken(NoToken)
           ELSE UNCHANGED tokenVars
    BY <1>7 DEF OnStreamFinish, RetryLater
  <2>2. pipeline' # <<>>
    BY <1>7, <2>1
  <2>3. Bookkept' /\ ~IsOpen'
    <3>1. Start("Error", closeCount + 1, pending)
      BY <1>1, <2>1
    <3> QED  BY <1>1, <1>3, <2>2, <3>1, Starts
  <2>4. Carried'
    <3>1. pipeline' \in Seq(Writes)
      BY <1>2, <2>1 DEF Carried, CallTyped
    <3> QED  BY <1>1, <2>3, <3>1, NothingCarried
  <2>5. UNCHANGED <<mutations, syncUser, mainQueue>>
    BY <2>1 DEF storeVars
  <2>6. \A w \in Writes : ~FailsNow(w)
    BY <1>4, <2>5, NobodyFails
  <2>7. syncUser \in Owners
    BY <1>4, <1>7, PipelineShape DEF RemoteInv
  <2>8. TokensKept'
    <3>1. CASE ~handshake /\ PermanentError(status)
      <4>1. /\ streamToken' = NoToken
            /\ storedToken' = [storedToken EXCEPT ![syncUser] = NoToken]
        BY <2>1, <3>1 DEF SaveToken
      <4> QED  BY <2>5, <2>7, <4>1 DEF RemoteInv, TokensKept, TokenFollowsUser
    <3>2. CASE ~(~handshake /\ PermanentError(status))
      BY <2>1, <2>5, <3>2, TokensStay DEF RemoteInv
    <3> QED  BY <3>1, <3>2
  <2> QED  BY <2>1, <2>3, <2>4, <2>5, <2>6, <2>8, FilledKept DEF RemoteInv
<1> QED  BY <1>5, <1>6, <1>7

LEMMA CredentialsFailStep ==
    ASSUME RemoteInv, NEW count \in asked, CredentialsFail(count)
    PROVE  [StoreNext]_storeVars /\ PipelineInv' /\ \A w \in Writes : ~FailsNow(w)
<1>1. /\ Disrupts /\ OnStreamFinish("transient", asked \ {count})
      /\ asked \ {count} \in SUBSET asked
  BY DEF CredentialsFail
<1>2. ~PermanentWriteError("transient")
  BY DEF PermanentWriteError
<1> QED  BY <1>1, <1>2, Finishing, BoundedKept DEF RemoteInv, PipelineInv

LEMMA ConnectionBreaksStep ==
    ASSUME RemoteInv, ConnectionBreaks
    PROVE  [StoreNext]_storeVars /\ PipelineInv' /\ \A w \in Writes : ~FailsNow(w)
<1>1. Disrupts /\ OnStreamFinish("transient", asked) /\ asked \in SUBSET asked
  BY DEF ConnectionBreaks
<1>2. ~PermanentWriteError("transient")
  BY DEF PermanentWriteError
<1> QED  BY <1>1, <1>2, Finishing, BoundedKept DEF RemoteInv, PipelineInv

(* An answer that cannot be read fails the front of the pipeline, and that *)
(* is the write it is about.                                               *)
LEMMA UnreadableAnswerArrivesStep ==
    ASSUME RemoteInv, UnreadableAnswerArrives
    PROVE  /\ [StoreNext]_storeVars /\ PipelineInv'
           /\ \A w \in Writes : FailsNow(w) => AnswerIsUnreadable(w)
<1>1. /\ responses # <<>> /\ Disrupts /\ OnStreamFinish("permanent", asked)
      /\ asked \in SUBSET asked
  BY DEF UnreadableAnswerArrives
<1>2. /\ [StoreNext]_storeVars
      /\ Bookkept' /\ Carried' /\ PipelineIsFilled' /\ TokensKept'
      /\ \A w \in Writes : FailsNow(w) => handshake /\ w = Head(pipeline)
  BY <1>1, Finishing
<1>3. PipelineInv'
  BY <1>1, <1>2, BoundedKept DEF RemoteInv, PipelineInv
<1>4. handshake => Head(pipeline) = Head(responses)
  BY <1>1, AnswerIsForFront
<1> QED  BY <1>1, <1>2, <1>3, <1>4 DEF AnswerIsUnreadable

(* The status of a call fails the front of the pipeline when it is that    *)
(* write's own refusal, or has overtaken the answers before it.            *)
LEMMA VerdictArrivesStep ==
    ASSUME RemoteInv, VerdictArrives
    PROVE  /\ [StoreNext]_storeVars /\ PipelineInv'
           /\ \A w \in Writes : FailsNow(w) =>
                 \/ Refused(w)
                 \/ verdict.overtakes /\ verdict.status = "permanent"
<1>1. /\ verdict # NoVerdict /\ (responses = <<>> \/ verdict.overtakes)
      /\ OnStreamFinish(verdict.status, asked) /\ UNCHANGED disruptions
      /\ asked \in SUBSET asked
  BY DEF VerdictArrives
<1>2. /\ [StoreNext]_storeVars
      /\ Bookkept' /\ Carried' /\ PipelineIsFilled' /\ TokensKept'
      /\ \A w \in Writes : FailsNow(w) =>
            /\ handshake /\ PermanentWriteError(verdict.status)
            /\ pipeline # <<>> /\ w = Head(pipeline)
  BY <1>1, Finishing
<1>3. PipelineInv'
  BY <1>1, <1>2, BoundedKept DEF RemoteInv, PipelineInv
<1>4. ASSUME NEW w \in Writes, FailsNow(w), ~verdict.overtakes
      PROVE  Refused(w)
  <2>1. /\ handshake /\ verdict.status = "permanent"
        /\ pipeline # <<>> /\ w = Head(pipeline) /\ responses = <<>>
    BY <1>1, <1>2, <1>4 DEF PermanentWriteError
  <2>2. Carried
    BY DEF RemoteInv
  <2>3. /\ pipeline \in Seq(Sent) /\ verdict.about \in Sent
        /\ IsPrefix(Append(responses, verdict.about), Expected)
    BY <1>1, <2>2, UnderWay
  <2>4. Expected = pipeline
    BY <2>1 DEF Expected
  <2>5. PICK a \in Sent : a = verdict.about
    BY <2>3
  <2>6. PICK s \in Seq(Sent) : s = Append(responses, a) /\ Len(s) = 1 /\ s[1] = a
    <3>1. <<>> \in Seq(Sent) /\ Len(<<>>) = 0
      BY EmptySeq
    <3>2. /\ Append(<<>>, a) \in Seq(Sent) /\ Len(Append(<<>>, a)) = 1
          /\ Append(<<>>, a)[1] = a
      BY <3>1, AppendProperties
    <3> QED  BY <2>1, <3>2
  <2>7. \A i \in 1 .. Len(s) : s[i] = pipeline[i]
    BY <2>3, <2>4, <2>5, <2>6, Prefix
  <2>8. pipeline[1] = a
    BY <2>6, <2>7
  <2>9. Head(pipeline) = pipeline[1]
    BY <2>1, <2>3, HeadTailProperties
  <2> QED  BY <2>1, <2>5, <2>8, <2>9 DEF Refused
<1>5. \A w \in Writes : FailsNow(w) =>
         Refused(w) \/ (verdict.overtakes /\ verdict.status = "permanent")
  BY <1>2, <1>4 DEF PermanentWriteError
<1> QED  BY <1>2, <1>3, <1>5

-----------------------------------------------------------------------------
(* Theorems about RemoteStore                                              *)

LEMMA RemoteInvInit == RemoteInit => RemoteInv
<1>1. SUFFICES ASSUME RemoteInit PROVE RemoteInv
  OBVIOUS
<1>2. StoreInv
  BY <1>1, StoreInvInit DEF RemoteInit
<1>3. /\ stream = "Initial" /\ handshake = FALSE /\ closeCount = 0 /\ asked = {}
      /\ timers = {} /\ pipeline = <<>> /\ requests = <<>> /\ responses = <<>>
      /\ verdict = NoVerdict /\ NoCall
  BY <1>1 DEF RemoteInit, NoCall
<1>4. StreamTyped /\ CountsTyped
  BY <1>3 DEF StreamTyped, CountsTyped, States, Timers
<1>5. Bookkept
  BY <1>3, <1>4 DEF Bookkept, AssertionsHold, StreamRunsWhileNeeded, IsStarted, IsOpen
<1>6. Carried
  <2>1. CallTyped
    BY <1>3, EmptySeq DEF CallTyped, Verdicts
  <2> QED
    BY <1>3, <2>1 DEF Carried, AnswersMatchPipeline, AnswersApplied, IsOpen
<1>7. syncUser = NoEngine
  BY <1>1 DEF RemoteInit, StoreInit
<1>8. PipelineIsFilled
  BY <1>3, <1>7, FilledMeans, EmptyFront DEF Current
<1>9. TokensKept
  BY <1>1, <1>7 DEF RemoteInit, TokensKept, TokenFollowsUser
<1>10. Bounded
  BY <1>1, PipelineAssumption DEF RemoteInit, Bounded
<1> QED  BY <1>2, <1>5, <1>6, <1>8, <1>9, <1>10 DEF RemoteInv

LEMMA RemoteStutter ==
    ASSUME RemoteInv, UNCHANGED pipelineVars
    PROVE  UNCHANGED storeVars /\ PipelineInv'
<1>1. UNCHANGED storeVars /\ UNCHANGED <<streamVars, pipeline, callVars, tokenVars,
                                        disruptions>>
  BY DEF pipelineVars, remoteVars
<1>2. UNCHANGED <<mutations, syncUser, applied, stream, handshake>>
  BY <1>1 DEF storeVars, streamVars
<1> QED
  BY <1>1, <1>2, BookkeptKept, CarriedKept, FilledKept, TokensStay, BoundedKept
     DEF RemoteInv, PipelineInv

(* Every step of RemoteStore keeps the invariant and is a step of the      *)
(* client, or none that the client can see.                                *)
LEMMA RemoteStep ==
    ASSUME RemoteInv, [RemoteNext]_pipelineVars
    PROVE  [StoreNext]_storeVars /\ RemoteInv'
<1>1. [StoreNext]_storeVars /\ PipelineInv'
  <2>1. ASSUME NEW w \in Writes, NEW u \in Owners, AppSetsData(w, u)
        PROVE  [StoreNext]_storeVars /\ PipelineInv'
    BY <2>1, AppSetsDataStep
  <2>2. ASSUME NEW u \in Owners, UserChanges(u)
        PROVE  [StoreNext]_storeVars /\ PipelineInv'
    BY <2>2, UserChangesStep
  <2>3. ASSUME NEW count \in asked,
               \/ CredentialsArrive(count)
               \/ CredentialsAreStale(count)
               \/ CredentialsFail(count)
        PROVE  [StoreNext]_storeVars /\ PipelineInv'
    BY <2>3, CredentialsArriveStep, CredentialsAreStaleStep, CredentialsFailStep
  <2>4. ASSUME NEW status \in Statuses, BackendRefuses(status)
        PROVE  [StoreNext]_storeVars /\ PipelineInv'
    BY <2>4, BackendRefusesStep
  <2>5. CASE \/ CompletionRuns \/ ProcessDies
             \/ WorkerHandlesCredential \/ ConnectivityReturns
             \/ WorkerWritesMutations
    BY <2>5, CompletionRunsStep, ProcessDiesStep, WorkerHandlesCredentialStep,
       ConnectivityReturnsStep, WorkerWritesMutationsStep
  <2>6. CASE \/ BackoffElapses \/ HealthTimerElapses \/ IdleTimerElapses
             \/ BackendAnswers \/ HandshakeCompletes
    BY <2>6, BackoffElapsesStep, HealthTimerElapsesStep, IdleTimerElapsesStep,
       BackendAnswersStep, HandshakeCompletesStep
  <2>7. CASE \/ MutationResultArrives \/ UnreadableAnswerArrives
             \/ ConnectionBreaks \/ VerdictArrives
    BY <2>7, MutationResultArrivesStep, UnreadableAnswerArrivesStep,
       ConnectionBreaksStep, VerdictArrivesStep
  <2>8. CASE UNCHANGED pipelineVars
    BY <2>8, RemoteStutter
  <2> QED  BY <2>1, <2>2, <2>3, <2>4, <2>5, <2>6, <2>7, <2>8 DEF RemoteNext
<1>2. StoreInv'
  BY <1>1, StoreInvStep DEF RemoteInv
<1> QED  BY <1>1, <1>2 DEF PipelineInv, RemoteInv

(* The invariant that carries the theorems below.                          *)
THEOREM RemoteInvariant == RemoteSpec => []RemoteInv
<1>1. RemoteInv /\ [RemoteNext]_pipelineVars => RemoteInv'
  BY RemoteStep
<1> QED  BY <1>1, RemoteInvInit, PTL DEF RemoteSpec

(* RemoteStore, with its stream, its pipeline, its backoffs and restarts,  *)
(* does nothing the abstract client does not do: the backend is asked in   *)
(* the order of the queue, only the head of the queue is settled, and only *)
(* a write the backend has applied is answered with success (RemoteStore,  *)
(* WriteStream, SyncEngine).                                               *)
THEOREM RemoteStoreImplementsClient == RemoteSpec => StoreSpec
<1>1. RemoteInit => StoreInit
  BY DEF RemoteInit
<1>2. RemoteInv /\ [RemoteNext]_pipelineVars => [StoreNext]_storeVars
  BY RemoteStep
<1> QED  BY <1>1, <1>2, RemoteInvariant, PTL DEF RemoteSpec, StoreSpec

(* The stream's bookkeeping agrees with the queue it sends and with what   *)
(* the backend has been asked, so that no HARD_ASSERT of the stream can    *)
(* fail: the pipeline is the front of the current user's queue, answers    *)
(* match it in order, tokens follow users (RemoteStore, WriteStream).      *)
THEOREM RemoteIsConsistent == RemoteSpec => []RemoteConsistent
<1>1. RemoteInv => RemoteConsistent
  <2>1. SUFFICES ASSUME RemoteInv PROVE RemoteConsistent
    OBVIOUS
  <2>2. /\ StoreTypeOK /\ Bookkept /\ Carried /\ PipelineIsFilled
        /\ TokensKept /\ Bounded
    BY <2>1 DEF RemoteInv, StoreInv
  <2>3. RemoteTypeOK
    BY <2>2 DEF RemoteTypeOK, Bookkept, StreamTyped, CountsTyped, Carried, CallTyped,
                Sent, TokensKept, Bounded
  <2> QED
    BY <2>2, <2>3 DEF RemoteConsistent, PipelineFollowsQueue, Bookkept, Carried,
                      TokensKept
<1> QED  BY <1>1, RemoteInvariant, PTL

(* The client's own promises, kept by the RemoteStore that implements it.  *)
THEOREM RemoteKeepsClientConsistent == RemoteSpec => []ClientConsistent
BY RemoteStoreImplementsClient, ClientIsConsistent, PTL

(* No completion block is told of a success before the backend has applied *)
(* its write, across reconnections, resent writes and overtaking statuses  *)
(* (SyncEngine::HandleSuccessfulWrite).                                    *)
THEOREM RemoteSuccessIsEarned == RemoteSpec => []SuccessMeansApplied
BY RemoteStoreImplementsClient, SuccessIsEarned, PTL

(* What is queued on disk leaves it only as the settled head, whatever the *)
(* stream goes through (LocalStore).                                       *)
THEOREM RemoteLosesNothing == RemoteSpec => QueuesAreDurable
BY RemoteStoreImplementsClient, NothingQueuedIsLost, PTL

LEMMA FailureStep ==
    ASSUME RemoteInv, [RemoteNext]_pipelineVars, NEW w \in Writes, FailsNow(w)
    PROVE  \/ Refused(w) \/ AnswerIsUnreadable(w)
           \/ verdict.overtakes /\ verdict.status = "permanent"
<1>1. StoreInv
  BY DEF RemoteInv
<1>2. CASE \/ \E v \in Writes, u \in Owners : AppSetsData(v, u)
           \/ \E u \in Owners : UserChanges(u)
           \/ WorkerHandlesCredential \/ ConnectivityReturns
           \/ WorkerWritesMutations
  <2>1. UNCHANGED mainQueue
    BY <1>2 DEF AppSetsData, UserChanges, WorkerHandlesCredential, HandleCredential,
                ConnectivityReturns, WorkerWritesMutations, WriteMutations, storeVars
  <2> QED  BY <1>1, <2>1, NobodyFails
<1>3. CASE CompletionRuns
  BY <1>1, <1>3, NobodyFails DEF CompletionRuns, DeliverWritten
<1>4. CASE ProcessDies
  BY <1>1, <1>4, NobodyFails DEF ProcessDies, Relaunch
<1>5. CASE \/ \E count \in asked : CredentialsArrive(count) \/ CredentialsAreStale(count)
           \/ BackoffElapses \/ HealthTimerElapses \/ IdleTimerElapses
           \/ BackendAnswers
           \/ \E status \in Statuses : BackendRefuses(status)
           \/ HandshakeCompletes
           \/ UNCHANGED pipelineVars
  <2>1. UNCHANGED mainQueue
    BY <1>5 DEF CredentialsArrive, CredentialsAreStale, BackoffElapses,
                HealthTimerElapses, IdleTimerElapses, BackendAnswers, BackendRefuses,
                HandshakeCompletes, pipelineVars, storeVars
  <2> QED  BY <1>1, <2>1, NobodyFails
<1>6. ASSUME NEW count \in asked, CredentialsFail(count) PROVE FALSE
  BY <1>6, CredentialsFailStep
<1>7. CASE MutationResultArrives \/ ConnectionBreaks
  BY <1>7, MutationResultArrivesStep, ConnectionBreaksStep
<1>8. CASE VerdictArrives
  BY <1>8, VerdictArrivesStep
<1>9. CASE UnreadableAnswerArrives
  BY <1>9, UnreadableAnswerArrivesStep
<1> QED  BY <1>2, <1>3, <1>4, <1>5, <1>6, <1>7, <1>8, <1>9 DEF RemoteNext

(* A write is answered with a failure only when the backend has refused it *)
(* for good, when its own answer cannot be read, or when a permanent       *)
(* status has overtaken the answers before it: no interruption, retry,     *)
(* change of user or restart makes a write fail                            *)
(* (RemoteStore::HandleWriteError, Stream::OnStreamRead).                  *)
THEOREM OnlyRefusedWritesFail == RemoteSpec => FailedMeansRefusedInOrder
<1>1. RemoteInv /\ [RemoteNext]_pipelineVars =>
        [\A w \in Writes : FailsNow(w) =>
            \/ Refused(w) \/ AnswerIsUnreadable(w)
            \/ verdict.overtakes /\ verdict.status = "permanent"]_pipelineVars
  BY FailureStep
<1> QED
  BY <1>1, RemoteInvariant, PTL DEF RemoteSpec, FailedMeansRefusedInOrder
=============================================================================
