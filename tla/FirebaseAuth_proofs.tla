------------------------- MODULE FirebaseAuth_proofs ------------------------
(***************************************************************************)
(* Theorems about FIRAuth: the session (FirebaseAuth), for any emails, any *)
(* number of calls and restarts and a main queue of any length, and the    *)
(* automatic refresh of its token (AutoTokenRefresh), for any users and    *)
(* any number of sign-ins, tokens, timers, requests and failures.          *)
(***************************************************************************)
EXTENDS FirebaseAuth, AutoTokenRefresh, TLAPS

(* What FIRAuth dispatches is of the type the main queue holds.            *)
LEMMA ItemsTyped ==
    /\ \A u \in Users : Notice(u) \in AuthItems
    /\ \A c \in Calls, a \in Answers : Reply(c, a) \in AuthItems
    /\ \A m \in AuthItems : /\ m.type \in {"notice", "reply"}
                            /\ m.type = "notice" => m.user \in Users
                            /\ m.type = "reply" => m.call \in Calls
<1>1. \A u \in Users : Notice(u) \in AuthItems
  BY DEF Notice, AuthItems
<1>2. \A c \in Calls, a \in Answers : Reply(c, a) \in AuthItems
  BY DEF Reply, AuthItems
<1>3. \A m \in AuthItems : /\ m.type \in {"notice", "reply"}
                           /\ m.type = "notice" => m.user \in Users
                           /\ m.type = "reply" => m.call \in Calls
  BY DEF AuthItems
<1> QED  BY <1>1, <1>2, <1>3

(* A call that was made carries an operation and an email.                 *)
LEMMA MadeCall ==
    ASSUME calls \in [Calls -> CallRecords], NEW c \in Calls,
           ~At(c, {"idle"})
    PROVE  calls[c] \in [op : Ops, email : Emails, stage : Stages \ {"idle"}]
BY DEF CallRecords, IdleCall, At

(* Moving such a call to a later stage keeps the table of calls well typed *)
(* and leaves its operation, its email and the other calls alone.          *)
LEMMA MoveToTyped ==
    ASSUME calls \in [Calls -> CallRecords], NEW c \in Calls,
           ~At(c, {"idle"}),
           NEW stage \in Stages \ {"idle"}, MoveTo(c, stage)
    PROVE  /\ calls' \in [Calls -> CallRecords]
           /\ calls'[c].stage = stage
           /\ \A d \in Calls : calls'[d].email = calls[d].email
           /\ \A d \in Calls : d # c => calls'[d] = calls[d]
<1>1. [calls[c] EXCEPT !.stage = stage]
         \in [op : Ops, email : Emails, stage : Stages \ {"idle"}]
  BY MadeCall
<1>2. calls' = [calls EXCEPT ![c] = [calls[c] EXCEPT !.stage = stage]]
  BY DEF MoveTo
<1>3. calls' \in [Calls -> CallRecords]
  BY <1>1, <1>2 DEF CallRecords
<1>4. calls'[c].stage = stage /\ calls'[c].email = calls[c].email
  BY <1>2, MadeCall
<1>5. \A d \in Calls : d # c => calls'[d] = calls[d]
  BY <1>2
<1> QED  BY <1>3, <1>4, <1>5

LEMMA TypeInit == AuthInit => AuthTypeOK
<1> SUFFICES ASSUME AuthInit PROVE AuthTypeOK
  OBVIOUS
<1>1. calls \in [Calls -> CallRecords]
  BY DEF AuthInit, CallRecords
<1> QED
  BY <1>1, BoundsAssumption DEF AuthInit, AuthTypeOK, Users, Loaders

(* Every action keeps the types.                                           *)
LEMMA TypeStep ==
    AuthTypeOK /\ OneReplyPerCall /\ [AuthNext]_authVars => AuthTypeOK'
<1> SUFFICES ASSUME AuthTypeOK, OneReplyPerCall, [AuthNext]_authVars
             PROVE  AuthTypeOK'
  OBVIOUS
<1> USE DEF AuthTypeOK
<1>1. CASE LoadSavedUser
  BY <1>1, ItemsTyped DEF LoadSavedUser, PostIfChanged, Loaders
<1>2. CASE LoadFails
  BY <1>2 DEF LoadFails, Loaders
<1>3. CASE ProtectedDataDidBecomeAvailable
  BY <1>3 DEF ProtectedDataDidBecomeAvailable, Loaders
<1>4. ASSUME NEW c \in Calls, NEW op \in Ops, NEW e \in Emails,
             Invoke(c, op, e)
      PROVE  AuthTypeOK'
  <2>1. [op |-> op, email |-> e, stage |-> "sent"] \in CallRecords
    BY DEF CallRecords, Users, Stages
  <2> QED  BY <1>4, <2>1 DEF Invoke
<1>5. ASSUME NEW c \in Calls, WorkStep(c) PROVE AuthTypeOK'
  <2>1. ~At(c, {"idle"}) /\ calls[c].email \in Emails
    BY <1>5, MadeCall DEF WorkStep, BackendGrants, BackendRefuses,
                          CompleteSignIn, FailCall, At
  <2>2. CASE BackendGrants(c)
    BY <2>1, <2>2, MoveToTyped DEF BackendGrants, Stages
  <2>3. CASE BackendRefuses(c)
    BY <2>1, <2>3, MoveToTyped DEF BackendRefuses, Stages
  <2>4. CASE CompleteSignIn(c)
    <3>1. calls' \in [Calls -> CallRecords]
      BY <2>1, <2>4, MoveToTyped DEF CompleteSignIn, Stages
    <3>2. mainQueue' \in Seq(AuthItems)
      BY <2>1, <2>4, ItemsTyped DEF CompleteSignIn, Users, Answers
    <3> QED
      BY <2>1, <2>4, <3>1, <3>2 DEF CompleteSignIn, Users
  <2>5. CASE FailCall(c)
    <3>1. calls' \in [Calls -> CallRecords]
      BY <2>1, <2>5, MoveToTyped DEF FailCall, Stages
    <3>2. mainQueue' \in Seq(AuthItems)
      BY <2>5, ItemsTyped DEF FailCall, Answers
    <3> QED
      BY <2>5, <3>1, <3>2 DEF FailCall
  <2> QED  BY <1>5, <2>2, <2>3, <2>4, <2>5 DEF WorkStep
<1>6. CASE SignOut
  BY <1>6, ItemsTyped DEF SignOut, Users
<1>7. CASE RefreshToken
  BY <1>7, ItemsTyped DEF RefreshToken
<1>8. CASE RevokeSession
  BY <1>8, ItemsTyped DEF RevokeSession, Users
<1>9. CASE DeliverNotice
  <2>1. Head(mainQueue) \in AuthItems /\ Tail(mainQueue) \in Seq(AuthItems)
    BY <1>9 DEF DeliverNotice
  <2> QED  BY <1>9, <2>1, ItemsTyped DEF DeliverNotice
<1>10. CASE DeliverReply
  <2>1. Head(mainQueue) \in AuthItems /\ Tail(mainQueue) \in Seq(AuthItems)
    BY <1>10 DEF DeliverReply
  <2>2. Head(mainQueue).call \in Calls
    BY <1>10, <2>1, ItemsTyped DEF DeliverReply
  <2>3. ~At(Head(mainQueue).call, {"idle"})
    BY <1>10 DEF DeliverReply, OneReplyPerCall, IsReply, At
  <2> QED  BY <1>10, <2>1, <2>2, <2>3, MoveToTyped DEF DeliverReply, Stages
<1>11. CASE Restart
  <2>1. ASSUME NEW c \in Calls, Lost(c)
        PROVE  [calls[c] EXCEPT !.stage = "lost"] \in CallRecords
    BY <2>1, MadeCall DEF Lost, At, CallRecords, Stages
  <2>2. calls' \in [Calls -> CallRecords]
    BY <1>11, <2>1 DEF Restart
  <2> QED  BY <1>11, <2>2, BoundsAssumption DEF Restart, Users, Loaders
<1>12. CASE UNCHANGED authVars
  BY <1>12 DEF authVars
<1> QED
  BY <1>1, <1>2, <1>3, <1>4, <1>5, <1>6, <1>7, <1>8, <1>9, <1>10, <1>11,
     <1>12 DEF AuthNext

-----------------------------------------------------------------------------
(* What the three shapes of a queue step do to positions.                  *)

LEMMA AppendShape ==
    ASSUME NEW S, NEW q \in Seq(S), NEW m \in S
    PROVE  /\ Len(Append(q, m)) = Len(q) + 1
           /\ Append(q, m)[Len(q) + 1] = m
           /\ \A i \in 1 .. Len(q) : Append(q, m)[i] = q[i]
OBVIOUS

LEMMA TailShape ==
    ASSUME NEW S, NEW q \in Seq(S), q # <<>>
    PROVE  /\ Len(q) \in Nat \ {0}
           /\ Head(q) = q[1]
           /\ Len(Tail(q)) = Len(q) - 1
           /\ \A i \in 1 .. Len(q) - 1 : Tail(q)[i] = q[i + 1]
OBVIOUS

(* The table of calls changes, if at all, without a call entering or       *)
(* leaving the replying stage.                                             *)
SameReplying == \A c \in Calls : At(c, {"replying"})' <=> At(c, {"replying"})

LEMMA SameQueueReplies ==
    ASSUME AuthTypeOK, OneReplyPerCall, SameReplying, mainQueue' = mainQueue
    PROVE  OneReplyPerCall'
<1>1. \A i \in 1 .. Len(mainQueue) : IsReply(i) => mainQueue[i].call \in Calls
  BY ItemsTyped DEF AuthTypeOK, IsReply
<1> QED
  BY <1>1 DEF OneReplyPerCall, SameReplying, IsReply

LEMMA AppendNoticeReplies ==
    ASSUME AuthTypeOK, OneReplyPerCall, SameReplying, NEW u \in Users,
           mainQueue' = Append(mainQueue, Notice(u))
    PROVE  OneReplyPerCall'
<1> DEFINE n == Len(mainQueue)
<1>1. /\ n \in Nat
      /\ Len(mainQueue') = n + 1
      /\ mainQueue'[n + 1].type = "notice"
      /\ \A i \in 1 .. n : mainQueue'[i] = mainQueue[i]
  BY ItemsTyped, AppendShape DEF AuthTypeOK, Notice
<1>2. \A i \in 1 .. n : IsReply(i) => mainQueue[i].call \in Calls
  BY ItemsTyped DEF AuthTypeOK, IsReply
<1>3. \A i \in 1 .. n + 1 : IsReply(i)' <=> i \in 1 .. n /\ IsReply(i)
  BY <1>1 DEF IsReply
<1> HIDE DEF n
<1> QED
  BY <1>1, <1>2, <1>3 DEF OneReplyPerCall, SameReplying, n

(* A call that was not replying starts to, and its block is appended.      *)
LEMMA AppendReplyReplies ==
    ASSUME AuthTypeOK, OneReplyPerCall, NEW c \in Calls, NEW a \in Answers,
           NEW q \in Seq(AuthItems), mainQueue' = Append(q, Reply(c, a)),
           ~At(c, {"replying"}), At(c, {"replying"})',
           \A d \in Calls \ {c} : At(d, {"replying"})' <=> At(d, {"replying"}),
           \/ q = mainQueue
           \/ \E u \in Users : q = Append(mainQueue, Notice(u))
    PROVE  OneReplyPerCall'
<1> DEFINE m == Len(mainQueue)
           n == Len(q)
<1>1. /\ m \in Nat /\ n \in Nat /\ m <= n
      /\ \A i \in 1 .. m : q[i] = mainQueue[i]
      /\ \A i \in m + 1 .. n : q[i].type = "notice"
  <2>1. CASE q = mainQueue
    BY <2>1 DEF AuthTypeOK
  <2>2. CASE \E u \in Users : q = Append(mainQueue, Notice(u))
    BY <2>2, ItemsTyped, AppendShape DEF AuthTypeOK, Notice
  <2> QED  BY <2>1, <2>2
<1>2. /\ Len(mainQueue') = n + 1
      /\ mainQueue'[n + 1] = Reply(c, a)
      /\ \A i \in 1 .. n : mainQueue'[i] = q[i]
  BY ItemsTyped, AppendShape
<1>3. \A i \in 1 .. m : IsReply(i) =>
         mainQueue[i].call \in Calls /\ mainQueue[i].call # c
  BY ItemsTyped DEF AuthTypeOK, IsReply, OneReplyPerCall
<1>4. \A i \in 1 .. n + 1 :
         IsReply(i)' <=> i = n + 1 \/ (i \in 1 .. m /\ IsReply(i))
  BY <1>1, <1>2 DEF IsReply, Reply
<1>5. \A i \in 1 .. m : mainQueue'[i] = mainQueue[i]
  BY <1>1, <1>2
<1>6. mainQueue'[n + 1].call = c
  BY <1>2 DEF Reply
<1> HIDE DEF m, n
<1>7. (\A i \in 1 .. Len(mainQueue) :
          IsReply(i) => At(mainQueue[i].call, {"replying"}))'
  BY <1>1, <1>2, <1>3, <1>4, <1>5, <1>6 DEF OneReplyPerCall, m
<1>8. (\A i, j \in 1 .. Len(mainQueue) :
          /\ IsReply(i) /\ IsReply(j)
          /\ mainQueue[i].call = mainQueue[j].call
          => i = j)'
  BY <1>1, <1>2, <1>3, <1>4, <1>5, <1>6 DEF OneReplyPerCall, m
<1>9. (\A d \in Calls : At(d, {"replying"}) =>
          \E i \in 1 .. Len(mainQueue) : IsReply(i) /\ mainQueue[i].call = d)'
  <2> SUFFICES ASSUME NEW d \in Calls, At(d, {"replying"})'
               PROVE  (\E i \in 1 .. Len(mainQueue) :
                          IsReply(i) /\ mainQueue[i].call = d)'
    OBVIOUS
  <2>1. CASE d = c
    BY <2>1, <1>1, <1>2, <1>4, <1>6
  <2>2. CASE d # c
    <3>1. PICK i \in 1 .. m : IsReply(i) /\ mainQueue[i].call = d
      BY <2>2 DEF OneReplyPerCall, m
    <3> QED  BY <3>1, <1>1, <1>2, <1>4, <1>5
  <2> QED  BY <2>1, <2>2
<1> QED
  BY <1>7, <1>8, <1>9 DEF OneReplyPerCall

LEMMA DeliverNoticeReplies ==
    ASSUME AuthTypeOK, OneReplyPerCall, DeliverNotice
    PROVE  OneReplyPerCall'
<1> DEFINE n == Len(mainQueue)
<1>1. /\ n \in Nat \ {0}
      /\ ~IsReply(1)
      /\ Len(mainQueue') = n - 1
      /\ \A i \in 1 .. n - 1 : mainQueue'[i] = mainQueue[i + 1]
  BY TailShape DEF DeliverNotice, AuthTypeOK, IsReply
<1>2. \A i \in 1 .. n - 1 : IsReply(i)' <=> IsReply(i + 1)
  BY <1>1 DEF IsReply
<1>3. \A d \in Calls : At(d, {"replying"})' <=> At(d, {"replying"})
  BY DEF DeliverNotice, At
<1>4. \A i \in 1 .. n : IsReply(i) => mainQueue[i].call \in Calls
  BY ItemsTyped DEF AuthTypeOK, IsReply
<1> HIDE DEF n
<1>5. (\A i \in 1 .. Len(mainQueue) :
          IsReply(i) => At(mainQueue[i].call, {"replying"}))'
  BY <1>1, <1>2, <1>3, <1>4 DEF OneReplyPerCall, n
<1>6. (\A i, j \in 1 .. Len(mainQueue) :
          /\ IsReply(i) /\ IsReply(j)
          /\ mainQueue[i].call = mainQueue[j].call
          => i = j)'
  BY <1>1, <1>2, <1>4 DEF OneReplyPerCall, n
<1>7. (\A d \in Calls : At(d, {"replying"}) =>
          \E i \in 1 .. Len(mainQueue) : IsReply(i) /\ mainQueue[i].call = d)'
  <2> SUFFICES ASSUME NEW d \in Calls, At(d, {"replying"})'
               PROVE  (\E i \in 1 .. Len(mainQueue) :
                          IsReply(i) /\ mainQueue[i].call = d)'
    OBVIOUS
  <2>1. PICK i \in 1 .. n : IsReply(i) /\ mainQueue[i].call = d
    BY <1>3 DEF OneReplyPerCall, n
  <2>2. i - 1 \in 1 .. n - 1 /\ (i - 1) + 1 = i
    BY <2>1, <1>1
  <2> QED  BY <2>1, <2>2, <1>1, <1>2
<1> QED  BY <1>5, <1>6, <1>7 DEF OneReplyPerCall

(* The block of a call leaves the queue as the call leaves the replying    *)
(* stage, and it was the only one.                                         *)
LEMMA DeliverReplyReplies ==
    ASSUME AuthTypeOK, OneReplyPerCall, DeliverReply
    PROVE  OneReplyPerCall'
<1> DEFINE n == Len(mainQueue)
<1>1. /\ n \in Nat \ {0}
      /\ Head(mainQueue) = mainQueue[1]
      /\ Len(mainQueue') = n - 1
      /\ \A i \in 1 .. n - 1 : mainQueue'[i] = mainQueue[i + 1]
  BY TailShape DEF DeliverReply, AuthTypeOK
<1>2. \A i \in 1 .. n - 1 : IsReply(i)' <=> IsReply(i + 1)
  BY <1>1 DEF IsReply
<1>3. \A i \in 1 .. n : IsReply(i) => mainQueue[i].call \in Calls
  BY ItemsTyped DEF AuthTypeOK, IsReply
<1>4. PICK c \in Calls : /\ IsReply(1)
                         /\ mainQueue[1].call = c
                         /\ MoveTo(c, "answered")
                         /\ At(c, {"replying"})
  BY <1>1, <1>3 DEF DeliverReply, IsReply, OneReplyPerCall
<1>5. /\ ~At(c, {"replying"})'
      /\ \A d \in Calls : d # c =>
            (At(d, {"replying"})' <=> At(d, {"replying"}))
  <2>1. ~At(c, {"idle"})
    BY <1>4 DEF At
  <2>2. calls'[c].stage = "answered"
        /\ \A d \in Calls : d # c => calls'[d] = calls[d]
    BY <2>1, <1>4, MoveToTyped DEF AuthTypeOK, Stages
  <2> QED  BY <2>2 DEF At
<1> HIDE DEF n
<1>6. \A i \in 2 .. n : IsReply(i) => mainQueue[i].call # c
  BY <1>1, <1>4 DEF OneReplyPerCall, n
<1>7. (\A i \in 1 .. Len(mainQueue) :
          IsReply(i) => At(mainQueue[i].call, {"replying"}))'
  <2> SUFFICES ASSUME NEW i \in 1 .. n - 1, IsReply(i)'
               PROVE  At(mainQueue[i].call, {"replying"})'
    BY <1>1
  <2>1. i + 1 \in 2 .. n /\ IsReply(i + 1)
    BY <1>1, <1>2
  <2>2. At(mainQueue[i + 1].call, {"replying"})
    BY <2>1, <1>1 DEF OneReplyPerCall, n
  <2>3. At(mainQueue[i + 1].call, {"replying"})
          <=> (calls[mainQueue[i + 1].call].stage \in {"replying"})
    BY DEF At
  <2>4. mainQueue[i + 1].call \in Calls \ {c}
    BY <2>1, <1>1, <1>3, <1>6
  <2> QED  BY <2>2, <2>4, <1>1, <1>5 DEF At
<1>8. (\A i, j \in 1 .. Len(mainQueue) :
          /\ IsReply(i) /\ IsReply(j)
          /\ mainQueue[i].call = mainQueue[j].call
          => i = j)'
  BY <1>1, <1>2, <1>3 DEF OneReplyPerCall, n
<1>9. (\A d \in Calls : At(d, {"replying"}) =>
          \E i \in 1 .. Len(mainQueue) : IsReply(i) /\ mainQueue[i].call = d)'
  <2> SUFFICES ASSUME NEW d \in Calls, At(d, {"replying"})'
               PROVE  (\E i \in 1 .. Len(mainQueue) :
                          IsReply(i) /\ mainQueue[i].call = d)'
    OBVIOUS
  <2>1. d # c /\ At(d, {"replying"})
    BY <1>5 DEF At
  <2>2. PICK i \in 1 .. n : IsReply(i) /\ mainQueue[i].call = d
    BY <2>1 DEF OneReplyPerCall, n
  <2>3. i - 1 \in 1 .. n - 1 /\ (i - 1) + 1 = i
    BY <2>1, <2>2, <1>1, <1>4
  <2> QED  BY <2>2, <2>3, <1>1, <1>2
<1> QED  BY <1>7, <1>8, <1>9 DEF OneReplyPerCall

-----------------------------------------------------------------------------
(* Moving a call between two stages that are not replying.                 *)
LEMMA MoveAside ==
    ASSUME AuthTypeOK, NEW c \in Calls, ~At(c, {"idle", "replying"}),
           NEW stage \in Stages \ {"idle", "replying"}, MoveTo(c, stage)
    PROVE  SameReplying
<1>1. ~At(c, {"idle"}) /\ ~At(c, {"replying"})
  BY DEF At
<1>2. /\ calls'[c].stage = stage
      /\ \A d \in Calls : d # c => calls'[d] = calls[d]
  BY <1>1, MoveToTyped DEF AuthTypeOK
<1> QED  BY <1>1, <1>2 DEF SameReplying, At

(* Every action keeps one completion block per waiting call.               *)
LEMMA RepliesStep ==
    AuthTypeOK /\ OneReplyPerCall /\ [AuthNext]_authVars => OneReplyPerCall'
<1> SUFFICES ASSUME AuthTypeOK, OneReplyPerCall, [AuthNext]_authVars
             PROVE  OneReplyPerCall'
  OBVIOUS
<1>1. calls' = calls => SameReplying
  BY DEF SameReplying, At
<1>2. CASE LoadSavedUser
  <2>1. keychain \in Users
    BY DEF AuthTypeOK
  <2> QED
    BY <1>1, <1>2, <2>1, SameQueueReplies, AppendNoticeReplies
       DEF LoadSavedUser, PostIfChanged
<1>3. CASE LoadFails \/ ProtectedDataDidBecomeAvailable
  BY <1>1, <1>3, SameQueueReplies
     DEF LoadFails, ProtectedDataDidBecomeAvailable
<1>4. ASSUME NEW c \in Calls, NEW op \in Ops, NEW e \in Emails,
             Invoke(c, op, e)
      PROVE  OneReplyPerCall'
  <2>1. SameReplying
    BY <1>4 DEF AuthTypeOK, Invoke, At, SameReplying
  <2> QED  BY <1>4, <2>1, SameQueueReplies DEF Invoke
<1>5. ASSUME NEW c \in Calls, WorkStep(c) PROVE OneReplyPerCall'
  <2>1. CASE BackendGrants(c)
    <3>1. ~At(c, {"idle", "replying"})
      BY <2>1 DEF BackendGrants, At
    <3>2. SameReplying
      BY <2>1, <3>1, MoveAside DEF BackendGrants, Stages
    <3> QED  BY <2>1, <3>2, SameQueueReplies DEF BackendGrants
  <2>2. CASE BackendRefuses(c)
    <3>1. ~At(c, {"idle", "replying"})
      BY <2>2 DEF BackendRefuses, At
    <3>2. SameReplying
      BY <2>2, <3>1, MoveAside DEF BackendRefuses, Stages
    <3> QED  BY <2>2, <3>2, SameQueueReplies DEF BackendRefuses
  <2>3. CASE CompleteSignIn(c) \/ FailCall(c)
    <3>1. ~At(c, {"idle"}) /\ ~At(c, {"replying"}) /\ MoveTo(c, "replying")
      BY <2>3 DEF CompleteSignIn, FailCall, At
    <3>2. /\ calls'[c].stage = "replying"
          /\ \A d \in Calls : d # c => calls'[d] = calls[d]
      BY <3>1, MoveToTyped DEF AuthTypeOK, Stages
    <3>3. /\ At(c, {"replying"})'
          /\ \A d \in Calls \ {c} : At(d, {"replying"})' <=> At(d, {"replying"})
      BY <3>2 DEF At
    <3>4. CASE CompleteSignIn(c)
      <4>1. PICK u \in Users : u = calls[c].email
        BY <3>1, MadeCall DEF AuthTypeOK, Users
      <4> DEFINE posted == Append(mainQueue, Notice(u))
      <4>0. posted \in Seq(AuthItems)
        BY ItemsTyped DEF AuthTypeOK
      <4>2. PICK q \in Seq(AuthItems) : q = posted
        BY <4>0
      <4>3. mainQueue' = Append(q, Reply(c, "ok"))
        BY <3>4, <4>1, <4>2 DEF CompleteSignIn
      <4>4. \E v \in Users : q = Append(mainQueue, Notice(v))
        BY <4>2
      <4>5. "ok" \in Answers
        BY DEF Answers
      <4> QED
        BY <3>1, <3>3, <4>3, <4>4, <4>5, AppendReplyReplies
    <3>5. CASE FailCall(c)
      <4>1. PICK q \in Seq(AuthItems) : q = mainQueue
        BY DEF AuthTypeOK
      <4>2. mainQueue' = Append(q, Reply(c, "failed"))
        BY <3>5, <4>1 DEF FailCall
      <4>3. "failed" \in Answers
        BY DEF Answers
      <4> QED
        BY <3>1, <3>3, <4>1, <4>2, <4>3, AppendReplyReplies
    <3> QED  BY <2>3, <3>4, <3>5
  <2> QED  BY <1>5, <2>1, <2>2, <2>3 DEF WorkStep
<1>6. CASE SignOut \/ RefreshToken \/ RevokeSession
  <2>1. PICK u \in Users : mainQueue' = Append(mainQueue, Notice(u))
    BY <1>6 DEF SignOut, RefreshToken, RevokeSession, AuthTypeOK, Users
  <2>2. calls' = calls
    BY <1>6 DEF SignOut, RefreshToken, RevokeSession
  <2> QED  BY <1>1, <2>1, <2>2, AppendNoticeReplies
<1>7. CASE DeliverNotice
  BY <1>7, DeliverNoticeReplies
<1>8. CASE DeliverReply
  BY <1>8, DeliverReplyReplies
<1>9. CASE Restart
  <2>1. mainQueue' = <<>> /\ \A c \in Calls : ~At(c, {"replying"})'
    BY <1>9 DEF Restart, Lost, At, AuthTypeOK, CallRecords, IdleCall
  <2> QED  BY <2>1 DEF OneReplyPerCall
<1>10. CASE UNCHANGED authVars
  BY <1>1, <1>10, SameQueueReplies DEF authVars
<1> QED
  BY <1>2, <1>3, <1>4, <1>5, <1>6, <1>7, <1>8, <1>9, <1>10 DEF AuthNext

(* Every reachable state of FIRAuth is well typed.                         *)
THEOREM AuthTypeCorrect == AuthSpec => []AuthTypeOK
<1>1. AuthInit => AuthTypeOK /\ OneReplyPerCall
  BY TypeInit DEF AuthInit, OneReplyPerCall, At, IdleCall
<1>2. AuthTypeOK /\ OneReplyPerCall /\ [AuthNext]_authVars
        => (AuthTypeOK /\ OneReplyPerCall)'
  BY TypeStep, RepliesStep
<1> QED  BY <1>1, <1>2, PTL DEF AuthSpec

(* Every call has its completion block on the main queue exactly while it  *)
(* waits for it: no answer is dropped, none is given twice.                *)
THEOREM OneReply == AuthSpec => []OneReplyPerCall
<1>1. AuthInit => OneReplyPerCall
  BY DEF AuthInit, OneReplyPerCall, At, IdleCall
<1> QED  BY <1>1, AuthTypeCorrect, RepliesStep, PTL DEF AuthSpec

(* FIRAuth's memory, queues and calls fit together in every reachable      *)
(* state.                                                                  *)
THEOREM AuthIsConsistent == AuthSpec => []AuthConsistent
<1>1. AuthTypeOK /\ OneReplyPerCall => AuthConsistent
  BY DEF AuthConsistent
<1> QED  BY <1>1, AuthTypeCorrect, OneReply, PTL

-----------------------------------------------------------------------------
(* The session in memory is the session a launch would restore, after any  *)
(* interleaving of sign-ins, revocations and late keychain loads.          *)
THEOREM KeychainHolds == AuthSpec => []KeychainHoldsSession
<1>1. AuthInit => KeychainHoldsSession
  BY DEF AuthInit, KeychainHoldsSession
<1>2. KeychainHoldsSession /\ [AuthNext]_authVars => KeychainHoldsSession'
  <2> SUFFICES ASSUME KeychainHoldsSession, [AuthNext]_authVars
               PROVE  KeychainHoldsSession'
    OBVIOUS
  <2> USE DEF KeychainHoldsSession
  <2>1. CASE LoadSavedUser
    BY <2>1 DEF LoadSavedUser
  <2>2. CASE LoadFails \/ ProtectedDataDidBecomeAvailable
    BY <2>2 DEF LoadFails, ProtectedDataDidBecomeAvailable
  <2>3. CASE \E c \in Calls, op \in Ops, e \in Emails : Invoke(c, op, e)
    BY <2>3 DEF Invoke
  <2>4. CASE \E c \in Calls : WorkStep(c)
    BY <2>4 DEF WorkStep, BackendGrants, BackendRefuses, CompleteSignIn,
                FailCall
  <2>5. CASE SignOut \/ RefreshToken \/ RevokeSession
    BY <2>5 DEF SignOut, RefreshToken, RevokeSession
  <2>6. CASE DeliverNotice \/ DeliverReply
    BY <2>6 DEF DeliverNotice, DeliverReply
  <2>7. CASE Restart
    BY <2>7 DEF Restart
  <2>8. CASE UNCHANGED authVars
    BY <2>8 DEF authVars
  <2> QED
    BY <2>1, <2>2, <2>3, <2>4, <2>5, <2>6, <2>7, <2>8 DEF AuthNext
<1> QED  BY <1>1, <1>2, PTL DEF AuthSpec

-----------------------------------------------------------------------------
(* What the observers will have heard, as the queue changes shape.         *)

LEMMA HeardKept ==
    ASSUME NEW n \in Nat, NEW u,
           \A i \in 1 .. n : mainQueue'[i] = mainQueue[i],
           heard' = heard, HeardAfter(n, u)
    PROVE  HeardAfter(n, u)'
BY DEF HeardAfter, IsNotice

(* A completion block changes nothing that has been heard before it.       *)
LEMMA HeardReply ==
    ASSUME NEW n \in Nat, NEW u,
           \A i \in 1 .. n : mainQueue'[i] = mainQueue[i],
           heard' = heard, HeardAfter(n, u), ~IsNotice(n + 1)'
    PROVE  HeardAfter(n + 1, u)'
<1>1. \A i \in 1 .. n : IsNotice(i)' <=> IsNotice(i)
  BY DEF IsNotice
<1>2. CASE (\A i \in 1 .. n : ~IsNotice(i)) /\ heard = u
  <2>1. \A i \in 1 .. n + 1 : ~IsNotice(i)'
    BY <1>1, <1>2
  <2> QED  BY <1>2, <2>1 DEF HeardAfter
<1>3. CASE \E i \in 1 .. n : /\ IsNotice(i)
                             /\ mainQueue[i].user = u
                             /\ \A j \in i + 1 .. n : ~IsNotice(j)
  <2>1. PICK i \in 1 .. n : /\ IsNotice(i)
                            /\ mainQueue[i].user = u
                            /\ \A j \in i + 1 .. n : ~IsNotice(j)
    BY <1>3
  <2>2. \A j \in i + 1 .. n + 1 : ~IsNotice(j)'
    BY <1>1, <2>1
  <2>3. /\ i \in 1 .. n + 1
        /\ IsNotice(i)'
        /\ mainQueue'[i].user = u
    BY <1>1, <2>1
  <2> QED  BY <2>2, <2>3 DEF HeardAfter
<1> QED  BY <1>2, <1>3 DEF HeardAfter

(* Running the first block changes what has been heard, not what will be.  *)
LEMMA HeardDelivered ==
    ASSUME AuthTypeOK, DeliverNotice \/ DeliverReply,
           NEW n \in 1 .. Len(mainQueue), NEW u, HeardAfter(n, u)
    PROVE  HeardAfter(n - 1, u)'
<1>1. /\ Len(mainQueue) \in Nat \ {0}
      /\ \A i \in 1 .. n - 1 : mainQueue'[i] = mainQueue[i + 1]
      /\ IsNotice(1) => heard' = mainQueue[1].user
      /\ ~IsNotice(1) => heard' = heard
  BY TailShape DEF AuthTypeOK, DeliverNotice, DeliverReply, IsNotice
<1>2. \A i \in 1 .. n - 1 : IsNotice(i)' <=> IsNotice(i + 1)
  BY <1>1 DEF IsNotice
<1>3. CASE (\A i \in 1 .. n : ~IsNotice(i)) /\ heard = u
  <2>1. ~IsNotice(1) /\ \A i \in 1 .. n - 1 : ~IsNotice(i)'
    BY <1>1, <1>2, <1>3
  <2> QED  BY <1>1, <1>3, <2>1 DEF HeardAfter
<1>4. CASE \E i \in 1 .. n : /\ IsNotice(i)
                             /\ mainQueue[i].user = u
                             /\ \A j \in i + 1 .. n : ~IsNotice(j)
  <2>1. PICK i \in 1 .. n : /\ IsNotice(i)
                            /\ mainQueue[i].user = u
                            /\ \A j \in i + 1 .. n : ~IsNotice(j)
    BY <1>4
  <2>2. CASE i = 1
    <3>1. \A j \in 1 .. n - 1 : ~IsNotice(j)'
      BY <1>2, <2>1, <2>2
    <3> QED  BY <1>1, <2>1, <2>2, <3>1 DEF HeardAfter
  <2>3. CASE i # 1
    <3>1. /\ i - 1 \in 1 .. n - 1
          /\ IsNotice(i - 1)'
          /\ mainQueue'[i - 1].user = u
      BY <1>1, <1>2, <2>1, <2>3
    <3>2. \A j \in (i - 1) + 1 .. n - 1 : ~IsNotice(j)'
      BY <1>2, <2>1, <2>3
    <3> QED  BY <3>1, <3>2 DEF HeardAfter
  <2> QED  BY <2>2, <2>3
<1> QED  BY <1>3, <1>4 DEF HeardAfter

LEMMA ObserversStep ==
    AuthTypeOK /\ ObserversCatchUp /\ [AuthNext]_authVars => ObserversCatchUp'
<1> SUFFICES ASSUME AuthTypeOK, ObserversCatchUp, [AuthNext]_authVars
             PROVE  ObserversCatchUp'
  OBVIOUS
<1> DEFINE n == Len(mainQueue)
<1>0. PICK k \in Nat : k = n
  BY DEF AuthTypeOK
<1>1. PICK u \in Users : u = currentUser /\ HeardAfter(k, u)
  BY <1>0 DEF AuthTypeOK, ObserversCatchUp
<1>2. ASSUME mainQueue' = mainQueue, heard' = heard, currentUser' = currentUser
      PROVE  ObserversCatchUp'
  <2>1. HeardAfter(k, u)'
    BY <1>1, <1>2, HeardKept
  <2> QED  BY <1>0, <1>1, <1>2, <2>1 DEF ObserversCatchUp
<1>3. ASSUME NEW v \in Users, mainQueue' = Append(mainQueue, Notice(v)),
             currentUser' = v
      PROVE  ObserversCatchUp'
  <2>1. /\ Len(mainQueue') = k + 1
        /\ mainQueue'[k + 1] = Notice(v)
    BY <1>0, <1>3, ItemsTyped, AppendShape DEF AuthTypeOK
  <2>2. IsNotice(k + 1)' /\ mainQueue'[k + 1].user = v
    BY <2>1 DEF IsNotice, Notice
  <2>3. HeardAfter(k + 1, v)'
    BY <2>2 DEF HeardAfter
  <2> QED  BY <1>3, <2>1, <2>3 DEF ObserversCatchUp
<1>4. CASE LoadSavedUser
  <2>1. keychain \in Users
    BY DEF AuthTypeOK
  <2> QED  BY <1>2, <1>3, <1>4, <2>1 DEF LoadSavedUser, PostIfChanged
<1>5. CASE LoadFails \/ ProtectedDataDidBecomeAvailable
  BY <1>2, <1>5 DEF LoadFails, ProtectedDataDidBecomeAvailable
<1>6. CASE \E c \in Calls, op \in Ops, e \in Emails : Invoke(c, op, e)
  BY <1>2, <1>6 DEF Invoke
<1>7. ASSUME NEW c \in Calls, WorkStep(c) PROVE ObserversCatchUp'
  <2>1. CASE BackendGrants(c) \/ BackendRefuses(c)
    BY <1>2, <2>1 DEF BackendGrants, BackendRefuses
  <2>2. CASE CompleteSignIn(c)
    <3>1. ~At(c, {"idle"})
      BY <2>2 DEF CompleteSignIn, At
    <3>2. PICK v \in Users : v = calls[c].email
      BY <3>1, MadeCall DEF AuthTypeOK, Users
    <3> DEFINE posted == Append(mainQueue, Notice(v))
    <3>3. /\ posted \in Seq(AuthItems)
          /\ Len(posted) = k + 1
          /\ posted[k + 1] = Notice(v)
      BY <1>0, ItemsTyped, AppendShape DEF AuthTypeOK
    <3>4. Reply(c, "ok") \in AuthItems
      BY ItemsTyped DEF Answers
    <3>5. /\ mainQueue' = Append(posted, Reply(c, "ok"))
          /\ currentUser' = v
      BY <2>2, <3>2 DEF CompleteSignIn
    <3> HIDE DEF posted
    <3>6. /\ Len(mainQueue') = k + 2
          /\ mainQueue'[k + 1] = Notice(v)
          /\ mainQueue'[k + 2] = Reply(c, "ok")
      BY <3>3, <3>4, <3>5, AppendShape
    <3>7. /\ IsNotice(k + 1)'
          /\ mainQueue'[k + 1].user = v
          /\ \A j \in (k + 1) + 1 .. k + 2 : ~IsNotice(j)'
      BY <3>6 DEF IsNotice, Notice, Reply
    <3>8. HeardAfter(k + 2, v)'
      BY <3>7 DEF HeardAfter
    <3> QED  BY <3>5, <3>6, <3>8 DEF ObserversCatchUp
  <2>3. CASE FailCall(c)
    <3>1. /\ Len(mainQueue') = k + 1
          /\ mainQueue'[k + 1] = Reply(c, "failed")
          /\ \A i \in 1 .. k : mainQueue'[i] = mainQueue[i]
      BY <1>0, <2>3, ItemsTyped, AppendShape DEF FailCall, AuthTypeOK, Answers
    <3>2. ~IsNotice(k + 1)'
      BY <3>1 DEF IsNotice, Reply
    <3>3. HeardAfter(k + 1, u)'
      BY <1>1, <2>3, <3>1, <3>2, HeardReply DEF FailCall
    <3> QED  BY <1>1, <2>3, <3>1, <3>3 DEF FailCall, ObserversCatchUp
  <2> QED  BY <1>7, <2>1, <2>2, <2>3 DEF WorkStep
<1>8. CASE SignOut \/ RefreshToken \/ RevokeSession
  <2>1. NoUser \in Users /\ currentUser \in Users
    BY DEF Users, AuthTypeOK
  <2> QED
    BY <1>3, <1>8, <2>1 DEF SignOut, RefreshToken, RevokeSession
<1>9. CASE DeliverNotice \/ DeliverReply
  <2>1. k \in 1 .. Len(mainQueue) /\ Len(mainQueue') = k - 1
    BY <1>0, <1>9, TailShape DEF AuthTypeOK, DeliverNotice, DeliverReply
  <2>2. HeardAfter(k - 1, u)'
    BY <1>1, <1>9, <2>1, HeardDelivered
  <2>3. currentUser' = u
    BY <1>1, <1>9 DEF DeliverNotice, DeliverReply
  <2> QED  BY <2>1, <2>2, <2>3 DEF ObserversCatchUp
<1>10. CASE Restart
  BY <1>10 DEF Restart, ObserversCatchUp, HeardAfter
<1>11. CASE UNCHANGED authVars
  BY <1>2, <1>11 DEF authVars
<1> QED
  BY <1>4, <1>5, <1>6, <1>7, <1>8, <1>9, <1>10, <1>11 DEF AuthNext

(* Once the main queue has drained the observers know who is signed in:    *)
(* no change of session goes unannounced, none is announced out of order.  *)
THEOREM ObserversAreTold == AuthSpec => []ObserversCatchUp
<1>1. AuthInit => ObserversCatchUp
  BY DEF AuthInit, ObserversCatchUp, HeardAfter
<1> QED  BY <1>1, AuthTypeCorrect, ObserversStep, PTL DEF AuthSpec

-----------------------------------------------------------------------------
(* The email of a call that has been made never changes.                   *)
EmailsKept == \A c \in Calls :
                 ~At(c, {"idle"}) => calls'[c].email = calls[c].email

LEMMA EmailsStep == AuthTypeOK /\ OneReplyPerCall /\ [AuthNext]_authVars => EmailsKept
<1> SUFFICES ASSUME AuthTypeOK, OneReplyPerCall, [AuthNext]_authVars
             PROVE  EmailsKept
  OBVIOUS
<1>1. CASE calls' = calls
  BY <1>1 DEF EmailsKept
<1>2. ASSUME NEW c \in Calls, NEW op \in Ops, NEW e \in Emails,
             Invoke(c, op, e)
      PROVE  EmailsKept
  BY <1>2 DEF Invoke, EmailsKept, At, AuthTypeOK
<1>3. ASSUME NEW c \in Calls, ~At(c, {"idle"}),
             NEW stage \in Stages \ {"idle"}, MoveTo(c, stage)
      PROVE  EmailsKept
  BY <1>3, MoveToTyped DEF EmailsKept, AuthTypeOK
<1>4. ASSUME NEW c \in Calls, WorkStep(c) PROVE EmailsKept
  <2>1. ~At(c, {"idle"})
    BY <1>4 DEF WorkStep, BackendGrants, BackendRefuses, CompleteSignIn,
                FailCall, At
  <2> QED
    BY <1>3, <1>4, <2>1 DEF WorkStep, BackendGrants, BackendRefuses,
                            CompleteSignIn, FailCall, Stages
<1>5. CASE DeliverReply
  <2>1. /\ Len(mainQueue) \in Nat \ {0}
        /\ Head(mainQueue) = mainQueue[1]
        /\ Head(mainQueue) \in AuthItems
    BY <1>5, TailShape DEF AuthTypeOK, DeliverReply
  <2>2. PICK c \in Calls : c = Head(mainQueue).call
    BY <1>5, <2>1, ItemsTyped DEF DeliverReply
  <2>3. ~At(c, {"idle"}) /\ MoveTo(c, "answered")
    BY <1>5, <2>1, <2>2 DEF DeliverReply, OneReplyPerCall, IsReply, At
  <2> QED  BY <1>3, <2>3 DEF Stages
<1>6. CASE Restart
  BY <1>6, MadeCall DEF Restart, EmailsKept, AuthTypeOK
<1> QED
  BY <1>1, <1>2, <1>4, <1>5, <1>6
     DEF AuthNext, LoadSavedUser, LoadFails, ProtectedDataDidBecomeAvailable,
         SignOut, RefreshToken, RevokeSession, DeliverNotice, authVars

(* A block that was well announced stays so while blocks are appended.     *)
LEMMA AnnouncedKept ==
    ASSUME AuthTypeOK, OneReplyPerCall, NoticeBeforeReply, EmailsKept,
           heard' = heard,
           \A i \in 1 .. Len(mainQueue) : mainQueue'[i] = mainQueue[i]
    PROVE  \A i \in 1 .. Len(mainQueue) :
              (IsReply(i) /\ mainQueue[i].answer = "ok")'
                 => HeardAfter(i, calls[mainQueue[i].call].email)'
<1> SUFFICES ASSUME NEW i \in 1 .. Len(mainQueue), IsReply(i)',
                    mainQueue'[i].answer = "ok"
             PROVE  HeardAfter(i, calls[mainQueue[i].call].email)'
  OBVIOUS
<1>1. i \in Nat /\ IsReply(i) /\ mainQueue[i].answer = "ok"
  BY DEF IsReply, AuthTypeOK
<1>2. PICK c \in Calls : c = mainQueue[i].call
  BY <1>1, ItemsTyped DEF AuthTypeOK, IsReply
<1>3. PICK e \in Emails : e = calls[c].email /\ calls'[c].email = e
  <2>1. ~At(c, {"idle"})
    BY <1>1, <1>2 DEF OneReplyPerCall, At
  <2> QED  BY <2>1, MadeCall DEF EmailsKept, AuthTypeOK
<1>4. HeardAfter(i, e)
  BY <1>1, <1>2, <1>3 DEF NoticeBeforeReply
<1>5. HeardAfter(i, e)'
  BY <1>1, <1>4, HeardKept DEF AuthTypeOK
<1>6. calls'[mainQueue'[i].call].email = e
  BY <1>2, <1>3
<1> QED  BY <1>5, <1>6

LEMMA AnnouncedStep ==
    AuthTypeOK /\ OneReplyPerCall /\ NoticeBeforeReply /\ [AuthNext]_authVars
      => NoticeBeforeReply'
<1> SUFFICES ASSUME AuthTypeOK, OneReplyPerCall, NoticeBeforeReply,
                    [AuthNext]_authVars
             PROVE  NoticeBeforeReply'
  OBVIOUS
<1>0. EmailsKept
  BY EmailsStep
<1>1. PICK k \in Nat : k = Len(mainQueue)
  BY DEF AuthTypeOK
<1>2. ASSUME mainQueue' = mainQueue, heard' = heard
      PROVE  NoticeBeforeReply'
  BY <1>0, <1>2, AnnouncedKept DEF NoticeBeforeReply
<1>3. ASSUME NEW m \in AuthItems, mainQueue' = Append(mainQueue, m),
             heard' = heard, m.type = "reply" => m.answer = "failed"
      PROVE  NoticeBeforeReply'
  <2>1. /\ Len(mainQueue') = k + 1
        /\ mainQueue'[k + 1] = m
        /\ \A i \in 1 .. k : mainQueue'[i] = mainQueue[i]
    BY <1>1, <1>3, AppendShape DEF AuthTypeOK
  <2>2. \A i \in 1 .. k : (IsReply(i) /\ mainQueue[i].answer = "ok")'
           => HeardAfter(i, calls[mainQueue[i].call].email)'
    BY <1>0, <1>1, <1>3, <2>1, AnnouncedKept
  <2>3. ~(IsReply(k + 1) /\ mainQueue[k + 1].answer = "ok")'
    BY <1>3, <2>1 DEF IsReply
  <2> QED  BY <2>1, <2>2, <2>3 DEF NoticeBeforeReply
<1>4. CASE LoadSavedUser
  <2>1. Notice(keychain) \in AuthItems /\ Notice(keychain).type = "notice"
    BY ItemsTyped DEF AuthTypeOK, Notice
  <2> QED  BY <1>2, <1>3, <1>4, <2>1 DEF LoadSavedUser, PostIfChanged
<1>5. CASE LoadFails \/ ProtectedDataDidBecomeAvailable
  BY <1>2, <1>5 DEF LoadFails, ProtectedDataDidBecomeAvailable
<1>6. CASE \E c \in Calls, op \in Ops, e \in Emails : Invoke(c, op, e)
  BY <1>2, <1>6 DEF Invoke
<1>7. ASSUME NEW c \in Calls, WorkStep(c) PROVE NoticeBeforeReply'
  <2>1. CASE BackendGrants(c) \/ BackendRefuses(c)
    BY <1>2, <2>1 DEF BackendGrants, BackendRefuses
  <2>2. CASE FailCall(c)
    <3>1. /\ Reply(c, "failed") \in AuthItems
          /\ Reply(c, "failed").answer = "failed"
      BY ItemsTyped DEF Answers, Reply
    <3> QED  BY <1>3, <2>2, <3>1 DEF FailCall
  <2>3. CASE CompleteSignIn(c)
    <3>1. ~At(c, {"idle"})
      BY <2>3 DEF CompleteSignIn, At
    <3>2. PICK v \in Users : v = calls[c].email /\ calls'[c].email = v
      BY <1>0, <3>1, MadeCall DEF AuthTypeOK, Users, EmailsKept
    <3> DEFINE posted == Append(mainQueue, Notice(v))
    <3>3. /\ posted \in Seq(AuthItems)
          /\ Len(posted) = k + 1
          /\ posted[k + 1] = Notice(v)
          /\ \A i \in 1 .. k : posted[i] = mainQueue[i]
      BY <1>1, ItemsTyped, AppendShape DEF AuthTypeOK
    <3>4. Reply(c, "ok") \in AuthItems
      BY ItemsTyped DEF Answers
    <3>5. mainQueue' = Append(posted, Reply(c, "ok")) /\ heard' = heard
      BY <2>3, <3>2 DEF CompleteSignIn
    <3> HIDE DEF posted
    <3>6. /\ Len(mainQueue') = k + 2
          /\ mainQueue'[k + 1] = Notice(v)
          /\ mainQueue'[k + 2] = Reply(c, "ok")
          /\ \A i \in 1 .. k : mainQueue'[i] = mainQueue[i]
      BY <3>3, <3>4, <3>5, AppendShape
    <3>7. \A i \in 1 .. k : (IsReply(i) /\ mainQueue[i].answer = "ok")'
             => HeardAfter(i, calls[mainQueue[i].call].email)'
      BY <1>0, <1>1, <3>5, <3>6, AnnouncedKept
    <3>8. ~IsReply(k + 1)'
      BY <3>6 DEF IsReply, Notice
    <3>9. HeardAfter(k + 2, v)'
      <4>1. /\ IsNotice(k + 1)'
            /\ mainQueue'[k + 1].user = v
            /\ \A j \in (k + 1) + 1 .. k + 2 : ~IsNotice(j)'
        BY <3>6 DEF IsNotice, Notice, Reply
      <4> QED  BY <4>1 DEF HeardAfter
    <3>10. calls'[mainQueue'[k + 2].call].email = v
      BY <3>2, <3>6 DEF Reply
    <3>11. HeardAfter(k + 2, calls[mainQueue[k + 2].call].email)'
      BY <3>9, <3>10
    <3>12. \A i \in 1 .. k + 2 : i \in 1 .. k \/ i = k + 1 \/ i = k + 2
      OBVIOUS
    <3> QED
      BY <3>6, <3>7, <3>8, <3>11, <3>12 DEF NoticeBeforeReply
  <2> QED  BY <1>7, <2>1, <2>2, <2>3 DEF WorkStep
<1>8. CASE SignOut \/ RefreshToken \/ RevokeSession
  <2>1. \A u \in {NoUser, currentUser} :
           Notice(u) \in AuthItems /\ Notice(u).type = "notice"
    BY ItemsTyped DEF AuthTypeOK, Notice, Users
  <2> QED
    BY <1>3, <1>8, <2>1 DEF SignOut, RefreshToken, RevokeSession
<1>9. CASE DeliverNotice \/ DeliverReply
  <2>1. /\ k \in Nat \ {0}
        /\ Len(mainQueue') = k - 1
        /\ \A i \in 1 .. k - 1 : mainQueue'[i] = mainQueue[i + 1]
    BY <1>1, <1>9, TailShape DEF AuthTypeOK, DeliverNotice, DeliverReply
  <2> SUFFICES ASSUME NEW i \in 1 .. k - 1, IsReply(i)',
                      mainQueue'[i].answer = "ok"
               PROVE  HeardAfter(i, calls[mainQueue[i].call].email)'
    BY <2>1 DEF NoticeBeforeReply
  <2>2. i + 1 \in 1 .. Len(mainQueue) /\ IsReply(i + 1)
        /\ mainQueue[i + 1].answer = "ok"
    BY <1>1, <2>1 DEF IsReply
  <2>3. PICK c \in Calls : c = mainQueue[i + 1].call
    BY <2>2, ItemsTyped DEF AuthTypeOK, IsReply
  <2>4. PICK e \in Emails : e = calls[c].email /\ calls'[c].email = e
    <3>1. ~At(c, {"idle"})
      BY <2>2, <2>3 DEF OneReplyPerCall, At
    <3> QED  BY <1>0, <3>1, MadeCall DEF EmailsKept, AuthTypeOK
  <2>5. HeardAfter(i + 1, e)
    BY <2>2, <2>3, <2>4 DEF NoticeBeforeReply
  <2>6. HeardAfter((i + 1) - 1, e)'
    BY <1>9, <2>2, <2>5, HeardDelivered
  <2>7. (i + 1) - 1 = i
    OBVIOUS
  <2>8. calls'[mainQueue'[i].call].email = e
    BY <2>1, <2>3, <2>4
  <2> QED  BY <2>6, <2>7, <2>8
<1>10. CASE Restart
  BY <1>10 DEF Restart, NoticeBeforeReply
<1>11. CASE UNCHANGED authVars
  BY <1>2, <1>11 DEF authVars
<1> QED
  BY <1>4, <1>5, <1>6, <1>7, <1>8, <1>9, <1>10, <1>11 DEF AuthNext

(* When a successful completion block runs, the observers have last been   *)
(* told of that call's own user: Firestore has the user before the app     *)
(* writes the profile.                                                     *)
THEOREM AnnouncedBeforeAnswered == AuthSpec => []NoticeBeforeReply
<1>1. AuthInit => NoticeBeforeReply
  BY DEF AuthInit, NoticeBeforeReply
<1> QED
  BY <1>1, AuthTypeCorrect, OneReply, AnnouncedStep, PTL DEF AuthSpec

-----------------------------------------------------------------------------
(* The automatic refresh of the token *)

(* A timer's request is made whatever the token's age.                     *)
Queued == {r \in Requests : r.auto => r.force}

RefreshTyped ==
    /\ owners \in Seq(Uids) /\ Len(owners) <= MaxSignIns
    /\ session \in 0 .. Len(owners)
    /\ token \in TokenIds /\ issued \in TokenIds /\ notified \in TokenIds
    /\ fresh \in BOOLEAN /\ enabled \in BOOLEAN
    /\ scheduled \in BOOLEAN /\ stalled \in BOOLEAN /\ background \in BOOLEAN
    /\ BagToSet(timers) \subseteq Timers /\ IsABag(timers)
    /\ firing \subseteq Timers
    /\ main \in [at : {"idle", "checks", "arms"}, token : TokenIds]
    /\ requests \in Seq(Queued)
    /\ failures \in 0 .. MaxFailures

(* An automatic refresh has been asked for on behalf of session s.         *)
Asked(q, s) == \E i \in 1 .. Len(q) : q[i].auto /\ q[i].session = s

(* No timer is armed without a token, and while the flag is down a timer's *)
(* block or the request it made is on its way, or the last such request    *)
(* was answered with the token the user had.                               *)
TokensAtHand ==
    /\ session # 0 => token # 0
    /\ main.at = "arms" => main.token # 0
FlagDownAsked ==
    Active /\ ~scheduled => firing # {} \/ Asked(requests, session) \/ stalled

RefreshInv ==
    RefreshTyped /\ TokensAtHand /\ FlagDownAsked /\ OnlyUnsavedUnnoticed

LEMMA OwnersBounded ==
    ASSUME NEW q \in Seq(Uids), Len(q) <= MaxSignIns
    PROVE  q \in BoundedSeq(Uids, MaxSignIns)
<1>1. Len(q) \in 0 .. MaxSignIns /\ q \in [1 .. Len(q) -> Uids]
  BY RefreshAssumption
<1> QED  BY <1>1 DEF BoundedSeq, SeqOf

LEMMA RefreshInvIsConsistent == RefreshInv => RefreshConsistent
<1> SUFFICES ASSUME RefreshInv PROVE RefreshConsistent
  OBVIOUS
<1>1. RefreshTypeOK
  BY OwnersBounded DEF RefreshInv, RefreshTyped, RefreshTypeOK, Queued
<1>2. Asked(requests, session) => RefreshIsAsked
  BY DEF RefreshInv, RefreshTyped, Asked, RefreshIsAsked
<1>3. FlagDownMeansAsked
  BY <1>2 DEF RefreshInv, FlagDownAsked, FlagDownMeansAsked, RefreshIsAsked
<1> QED  BY <1>1, <1>3 DEF RefreshInv, RefreshConsistent

-----------------------------------------------------------------------------
(* Timers and requests *)

TimersTyped(b) == BagToSet(b) \subseteq Timers /\ IsABag(b)

LEMMA TimerAdded ==
    ASSUME NEW b, TimersTyped(b), NEW t \in Timers
    PROVE  TimersTyped(BagAdd(b, t))
BY DEF TimersTyped, BagToSet, IsABag, BagAdd

LEMMA TimerRemoved ==
    ASSUME NEW b, TimersTyped(b), NEW t
    PROVE  TimersTyped(BagRemove(b, t))
BY DEF TimersTyped, BagToSet, IsABag, BagRemove

ArmTyped == scheduled \in BOOLEAN /\ stalled \in BOOLEAN /\ TimersTyped(timers)

LEMMA ArmShape ==
    ASSUME RefreshTyped, NEW tok \in TokenIds, NEW delay \in Delays, Arm(tok, delay)
    PROVE  /\ ArmTyped'
           /\ tok # 0 => scheduled'
           /\ scheduled => scheduled'
           /\ stalled => stalled' \/ scheduled'
<1>1. ArmTyped
  BY DEF RefreshTyped, ArmTyped, TimersTyped
<1>2. CASE tok = 0
  BY <1>1, <1>2 DEF Arm, ArmTyped, armVars
<1>3. CASE tok # 0
  <2>1. [token |-> tok, delay |-> delay] \in Timers
    BY DEF Timers
  <2>2. TimersTyped(BagAdd(timers, [token |-> tok, delay |-> delay]))
    BY <1>1, <2>1, TimerAdded DEF ArmTyped
  <2> QED  BY <1>3, <2>2 DEF Arm, ArmTyped
<1> QED  BY <1>2, <1>3

LEMMA ArmKept ==
    ASSUME RefreshTyped, UNCHANGED armVars
    PROVE  ArmTyped' /\ scheduled' = scheduled /\ stalled' = stalled
BY DEF RefreshTyped, ArmTyped, TimersTyped, armVars

LEMMA TokenChangesShape ==
    ASSUME RefreshTyped, NEW tok \in TokenIds, TokenChanges(tok)
    PROVE  /\ ArmTyped' /\ notified' = tok
           /\ enabled /\ tok # 0 => scheduled'
           /\ scheduled => scheduled'
           /\ stalled => stalled' \/ scheduled'
<1>1. 0 \in Delays /\ notified' = tok
  BY DEF Delays, TokenChanges
<1>2. CASE enabled
  BY <1>1, <1>2, ArmShape DEF TokenChanges
<1>3. CASE ~enabled
  BY <1>1, <1>3, ArmKept DEF TokenChanges
<1> QED  BY <1>2, <1>3

LEMMA Delayed ==
    ASSUME NEW delay \in Delays
    PROVE  RescheduleDelay(delay) \in Delays
BY DEF Delays, RescheduleDelay, Smaller, kMaxWaitTimeForBackoff

LEMMA RescheduleShape ==
    ASSUME RefreshTyped, NEW r \in Queued, token' \in TokenIds, Reschedule(r)
    PROVE  /\ ArmTyped'
           /\ scheduled => scheduled'
           /\ stalled => stalled' \/ scheduled'
           /\ (/\ r.auto /\ session' # 0 /\ token' # 0
               /\ owners[session'] = owners[r.session]) => scheduled'
<1>1. RescheduleDelay(r.delay) \in Delays
  BY Delayed DEF Queued, Requests
<1>2. PICK tok \in TokenIds : tok = token'
  OBVIOUS
<1>3. CASE r.auto /\ session' # 0 /\ owners[session'] = owners[r.session]
  <2>1. Arm(tok, RescheduleDelay(r.delay))
    BY <1>2, <1>3 DEF Reschedule
  <2> QED  BY <1>1, <1>2, <1>3, <2>1, ArmShape
<1>4. CASE ~(r.auto /\ session' # 0 /\ owners[session'] = owners[r.session])
  BY <1>4, ArmKept DEF Reschedule
<1> QED  BY <1>3, <1>4

LEMMA AskedOnce ==
    ASSUME NEW q \in Seq(Queued), NEW r \in Queued
    PROVE  /\ Append(q, r) \in Seq(Queued)
           /\ \A s : Asked(q, s) => Asked(Append(q, r), s)
           /\ r.auto => Asked(Append(q, r), r.session)
<1>1. /\ Append(q, r) \in Seq(Queued) /\ Len(Append(q, r)) = Len(q) + 1
      /\ Len(q) \in Nat
      /\ \A i \in 1 .. Len(q) : Append(q, r)[i] = q[i]
      /\ Append(q, r)[Len(q) + 1] = r
  OBVIOUS
<1>2. ASSUME NEW s, Asked(q, s) PROVE Asked(Append(q, r), s)
  BY <1>1, <1>2 DEF Asked
<1>3. r.auto => Asked(Append(q, r), r.session)
  <2>1. Len(q) + 1 \in 1 .. Len(q) + 1
    BY <1>1
  <2> QED  BY <1>1, <2>1 DEF Asked
<1> QED  BY <1>1, <1>2, <1>3

LEMMA JoinedRequests ==
    ASSUME NEW p \in Seq(Queued), NEW t \in Seq(Queued)
    PROVE  /\ p \o t \in Seq(Queued) /\ Len(p \o t) = Len(p) + Len(t)
           /\ \A j \in 1 .. Len(p) : (p \o t)[j] = p[j]
           /\ \A j \in Len(p) + 1 .. Len(p) + Len(t) : (p \o t)[j] = t[j - Len(p)]
OBVIOUS

LEMMA RequestRemoved ==
    ASSUME NEW q \in Seq(Queued), NEW i \in 1 .. Len(q)
    PROVE  /\ RemoveAt(q, i) \in Seq(Queued)
           /\ \A s : /\ Asked(q, s)
                     /\ ~(q[i].auto /\ q[i].session = s)
                     => Asked(RemoveAt(q, i), s)
<1> DEFINE p == SubSeq(q, 1, i - 1)
           t == SubSeq(q, i + 1, Len(q))
<1>1. /\ Len(q) \in Nat /\ i \in Nat
      /\ p \in Seq(Queued) /\ Len(p) = i - 1
      /\ \A j \in 1 .. i - 1 : p[j] = q[j]
  OBVIOUS
<1>2. /\ t \in Seq(Queued) /\ Len(t) = Len(q) - i
      /\ \A j \in 1 .. Len(q) - i : t[j] = q[i + j]
  OBVIOUS
<1> HIDE DEF p, t
<1>3. /\ p \o t \in Seq(Queued) /\ Len(p \o t) = Len(p) + Len(t)
      /\ \A j \in 1 .. Len(p) : (p \o t)[j] = p[j]
      /\ \A j \in Len(p) + 1 .. Len(p) + Len(t) : (p \o t)[j] = t[j - Len(p)]
  <2>1. p \in Seq(Queued) /\ t \in Seq(Queued)
    BY <1>1, <1>2
  <2> QED  BY ONLY <2>1, JoinedRequests
<1>4. RemoveAt(q, i) = p \o t
  BY DEF RemoveAt, p, t
<1>5. ASSUME NEW j \in 1 .. Len(q), j # i
      PROVE  \E k \in 1 .. Len(p \o t) : (p \o t)[k] = q[j]
  <2>1. CASE j < i
    <3>1. j \in 1 .. i - 1 /\ j \in 1 .. Len(p) /\ j \in 1 .. Len(p \o t)
      BY <1>1, <1>2, <1>3, <2>1
    <3> QED  BY <1>1, <1>3, <3>1
  <2>2. CASE j > i
    <3>1. /\ j - 1 \in Len(p) + 1 .. Len(p) + Len(t)
          /\ j - 1 \in 1 .. Len(p \o t)
          /\ (j - 1) - Len(p) = j - i
          /\ j - i \in 1 .. Len(q) - i /\ i + (j - i) = j
      BY <1>1, <1>2, <1>3, <2>2
    <3>2. (p \o t)[j - 1] = t[j - i] /\ t[j - i] = q[j]
      BY <1>2, <1>3, <3>1
    <3> QED  BY <3>1, <3>2
  <2> QED  BY <1>1, <1>5, <2>1, <2>2
<1>6. ASSUME NEW s, Asked(q, s), ~(q[i].auto /\ q[i].session = s)
      PROVE  Asked(p \o t, s)
  <2>1. PICK j \in 1 .. Len(q) : q[j].auto /\ q[j].session = s
    BY <1>6 DEF Asked
  <2>2. j # i
    BY <1>6, <2>1
  <2>3. PICK k \in 1 .. Len(p \o t) : (p \o t)[k] = q[j]
    BY <1>5, <2>2
  <2> QED  BY <2>1, <2>3 DEF Asked
<1> QED  BY <1>3, <1>4, <1>6

-----------------------------------------------------------------------------
(* Answers *)

(* What the answer to request i leaves behind, once its callback has run:  *)
(* the request is gone, and when it was an automatic one of the current    *)
(* user's, or the current user's token is a new one that was noticed, a    *)
(* timer is armed, or the answer is known to have been the old token.      *)
LEMMA AnswerTyped ==
    ASSUME RefreshTyped, NEW i \in DOMAIN requests, Done(i),
           session' \in {0, session}, fresh' \in BOOLEAN,
           token' \in TokenIds, issued' \in TokenIds, notified' \in TokenIds,
           ArmTyped', failures' \in 0 .. MaxFailures
    PROVE  RefreshTyped'
<1>1. requests' \in Seq(Queued)
  BY RequestRemoved DEF Done, RefreshTyped
<1>2. session' \in 0 .. Len(owners') /\ owners' = owners
  BY DEF Done, RefreshTyped
<1>3. /\ enabled' = enabled /\ background' = background /\ firing' = firing
      /\ main' = main
  BY DEF Done
<1> QED  BY <1>1, <1>2, <1>3 DEF RefreshTyped, ArmTyped, TimersTyped

LEMMA AnswerKeeps ==
    ASSUME RefreshInv, NEW i \in DOMAIN requests, Done(i), RefreshTyped',
           session' \in {0, session}, session' # 0 => token' # 0,
           token' # notified' => failures' > 0,
           stalled => stalled' \/ scheduled',
           (/\ session' # 0 /\ enabled /\ session' = session
            /\ scheduled \/ (requests[i].auto /\ requests[i].session = session))
              => scheduled' \/ stalled'
    PROVE  RefreshInv'
<1>1. TokensAtHand' /\ OnlyUnsavedUnnoticed'
  BY DEF RefreshInv, TokensAtHand, OnlyUnsavedUnnoticed, Done
<1>2. ASSUME Active', ~scheduled', ~stalled'
      PROVE  firing' # {} \/ Asked(requests', session')
  <2>1. /\ enabled /\ session' # 0 /\ session' = session /\ ~background
        /\ main.at = "idle" /\ firing' = firing
    BY <1>2 DEF Active, Done
  <2>2. /\ Active /\ ~scheduled /\ ~stalled
        /\ ~(requests[i].auto /\ requests[i].session = session)
    BY <1>2, <2>1 DEF Active
  <2>3. CASE firing # {}
    BY <2>1, <2>3
  <2>4. CASE Asked(requests, session)
    <3>1. requests \in Seq(Queued) /\ i \in 1 .. Len(requests)
      BY DEF RefreshInv, RefreshTyped
    <3>2. Asked(RemoveAt(requests, i), session)
      BY <2>2, <2>4, <3>1, RequestRemoved
    <3> QED  BY <2>1, <3>2 DEF Done
  <2> QED  BY <2>2, <2>3, <2>4 DEF RefreshInv, FlagDownAsked
<1> QED  BY <1>1, <1>2 DEF RefreshInv, FlagDownAsked

LEMMA RequestTyped ==
    ASSUME RefreshTyped, NEW i \in DOMAIN requests
    PROVE  requests[i] \in Queued
BY DEF RefreshTyped

LEMMA OneMoreFailure ==
    ASSUME RefreshTyped, Fails
    PROVE  failures' \in 0 .. MaxFailures /\ failures' > 0
BY RefreshAssumption DEF RefreshTyped, Fails

LEMMA OneMoreToken ==
    ASSUME RefreshTyped, issued < MaxTokens
    PROVE  issued + 1 \in TokenIds /\ issued + 1 # 0
BY RefreshAssumption DEF RefreshTyped, TokenIds

(* While session and token stay, what was known of them stays.             *)
LEMMA NoticeKept ==
    ASSUME RefreshInv, token' = token, notified' = notified,
           failures' = failures \/ failures' > 0
    PROVE  token' # notified' => failures' > 0
BY DEF RefreshInv, OnlyUnsavedUnnoticed

LEMMA NewTokenShape ==
    ASSUME RefreshInv, NEW i \in DOMAIN requests, NewToken(i)
    PROVE  /\ token' \in TokenIds /\ issued' \in TokenIds
           /\ fresh' \in BOOLEAN /\ session' = session /\ Done(i)
           /\ session' # 0 => token' # 0
           /\ issued + 1 \in TokenIds /\ issued + 1 # 0
           /\ token' = IF requests[i].session = session THEN issued + 1 ELSE token
<1>1. RefreshTyped /\ session' = session /\ issued' = issued + 1 /\ Done(i)
  BY DEF RefreshInv, NewToken
<1>2. issued + 1 \in TokenIds /\ issued + 1 # 0
  BY <1>1, OneMoreToken DEF NewToken
<1>3. CASE requests[i].session = session
  BY <1>1, <1>2, <1>3 DEF NewToken
<1>4. CASE requests[i].session # session
  BY <1>1, <1>2, <1>4 DEF NewToken, RefreshInv, RefreshTyped, TokensAtHand
<1> QED  BY <1>1, <1>2, <1>3, <1>4

LEMMA RefreshAnswers ==
    ASSUME RefreshInv, NEW i \in DOMAIN requests,
           \/ TokenStillValid(i) \/ RefreshSucceeds(i) \/ RefreshIsNotSaved(i)
           \/ RefreshFails(i) \/ TokenIsRevoked(i)
    PROVE  RefreshInv'
<1>t. /\ RefreshTyped /\ requests[i] \in Queued /\ failures \in 0 .. MaxFailures
      /\ notified \in TokenIds
  BY RequestTyped DEF RefreshInv, RefreshTyped
<1>1. CASE TokenStillValid(i)
  <2>1. /\ Done(i) /\ session' = session /\ token' = token /\ issued' = issued
        /\ fresh' = fresh /\ notified' = notified /\ failures' = failures
        /\ UNCHANGED armVars /\ ~requests[i].force
    BY <1>1 DEF TokenStillValid, tokenVars
  <2>2. ArmTyped' /\ scheduled' = scheduled /\ stalled' = stalled
    BY <1>t, <2>1, ArmKept
  <2>3. RefreshTyped'
    BY <1>t, <2>1, <2>2, AnswerTyped DEF RefreshTyped
  <2>4. ~requests[i].auto
    BY <1>t, <2>1 DEF Queued
  <2>5. session' # 0 => token' # 0
    BY <2>1 DEF RefreshInv, TokensAtHand
  <2>6. token' # notified' => failures' > 0
    BY <2>1, NoticeKept
  <2> QED  BY <2>1, <2>2, <2>3, <2>4, <2>5, <2>6, AnswerKeeps
<1>2. CASE RefreshSucceeds(i)
  <2>1. NewToken(i) /\ failures' = failures
    BY <1>2 DEF RefreshSucceeds
  <2>2. /\ token' \in TokenIds /\ issued' \in TokenIds /\ fresh' \in BOOLEAN
        /\ session' = session /\ Done(i)
        /\ session' # 0 => token' # 0
        /\ issued + 1 \in TokenIds /\ issued + 1 # 0
        /\ token' = IF requests[i].session = session THEN issued + 1 ELSE token
    BY <2>1, NewTokenShape
  <2>3. /\ ArmTyped' /\ notified' \in TokenIds
        /\ requests[i].session = session /\ enabled => scheduled'
        /\ scheduled => scheduled'
        /\ stalled => stalled' \/ scheduled'
        /\ token' # notified' => failures' > 0
    <3>1. CASE requests[i].session = session
      <4>1. TokenChanges(issued + 1)
        BY <1>2, <3>1 DEF RefreshSucceeds
      <4> QED  BY <1>t, <2>2, <3>1, <4>1, TokenChangesShape
    <3>2. CASE requests[i].session # session
      <4>1. notified' = notified /\ UNCHANGED armVars
        BY <1>2, <3>2 DEF RefreshSucceeds
      <4>2. token' # notified' => failures' > 0
        BY <2>1, <2>2, <3>2, <4>1, NoticeKept
      <4> QED  BY <1>t, <3>2, <4>1, <4>2, ArmKept
    <3> QED  BY <3>1, <3>2
  <2>4. RefreshTyped'
    BY <1>t, <2>1, <2>2, <2>3, AnswerTyped
  <2> QED  BY <2>2, <2>3, <2>4, AnswerKeeps
<1>3. CASE RefreshIsNotSaved(i)
  <2>1. /\ NewToken(i) /\ Fails /\ Reschedule(requests[i])
        /\ requests[i].session = session /\ notified' = notified
    BY <1>3 DEF RefreshIsNotSaved
  <2>2. /\ token' \in TokenIds /\ issued' \in TokenIds /\ fresh' \in BOOLEAN
        /\ session' = session /\ Done(i)
        /\ session' # 0 => token' # 0
    BY <2>1, NewTokenShape
  <2>3. /\ ArmTyped'
        /\ scheduled => scheduled'
        /\ stalled => stalled' \/ scheduled'
        /\ requests[i].auto /\ session' # 0 /\ requests[i].session = session
           => scheduled'
    BY <1>t, <2>1, <2>2, RescheduleShape
  <2>4. failures' \in 0 .. MaxFailures /\ failures' > 0
    BY <1>t, <2>1, OneMoreFailure
  <2>5. RefreshTyped'
    BY <1>t, <2>1, <2>2, <2>3, <2>4, AnswerTyped
  <2> QED  BY <2>2, <2>3, <2>4, <2>5, AnswerKeeps
<1>4. CASE RefreshFails(i)
  <2>1. /\ Fails /\ Reschedule(requests[i]) /\ Done(i)
        /\ session' = session /\ token' = token /\ issued' = issued
        /\ fresh' = fresh /\ notified' = notified
    BY <1>4 DEF RefreshFails, tokenVars
  <2>2. /\ token' \in TokenIds /\ issued' \in TokenIds /\ fresh' \in BOOLEAN
        /\ session' # 0 => token' # 0
    BY <1>t, <2>1 DEF RefreshTyped, RefreshInv, TokensAtHand
  <2>3. /\ ArmTyped'
        /\ scheduled => scheduled'
        /\ stalled => stalled' \/ scheduled'
        /\ requests[i].auto /\ session' # 0 /\ requests[i].session = session
           => scheduled'
    BY <1>t, <2>1, <2>2, RescheduleShape
  <2>4. failures' \in 0 .. MaxFailures /\ failures' > 0
    BY <1>t, <2>1, OneMoreFailure
  <2>5. RefreshTyped'
    BY <1>t, <2>1, <2>2, <2>3, <2>4, AnswerTyped
  <2> QED  BY <2>1, <2>2, <2>3, <2>4, <2>5, AnswerKeeps
<1>5. CASE TokenIsRevoked(i)
  <2>1. Fails /\ Reschedule(requests[i]) /\ Done(i)
    BY <1>5 DEF TokenIsRevoked
  <2>2. /\ issued' = issued /\ fresh' = fresh
        /\ \/ session' = 0 /\ token' = 0 /\ notified' = 0
           \/ session' = session /\ token' = token /\ notified' = notified
    BY <1>5 DEF TokenIsRevoked, SignedOut, tokenVars
  <2>3. /\ token' \in TokenIds /\ issued' \in TokenIds /\ fresh' \in BOOLEAN
        /\ notified' \in TokenIds /\ session' \in {0, session}
        /\ session' # 0 => token' # 0
    BY <1>t, <2>2, RefreshAssumption
       DEF RefreshTyped, RefreshInv, TokensAtHand, TokenIds
  <2>4. /\ ArmTyped'
        /\ scheduled => scheduled'
        /\ stalled => stalled' \/ scheduled'
        /\ requests[i].auto /\ session' # 0 /\ session' = session
           /\ requests[i].session = session => scheduled'
    BY <1>t, <2>1, <2>3, RescheduleShape
  <2>5. failures' \in 0 .. MaxFailures /\ failures' > 0
    BY <1>t, <2>1, OneMoreFailure
  <2>6. RefreshTyped'
    BY <1>t, <2>1, <2>2, <2>3, <2>4, <2>5, AnswerTyped
  <2> QED  BY <2>1, <2>3, <2>4, <2>5, <2>6, AnswerKeeps
<1> QED  BY <1>1, <1>2, <1>3, <1>4, <1>5

(* The answers that bring the token that the user has.                     *)
LEMMA RefreshBringsNothing ==
    ASSUME RefreshInv, NEW i \in DOMAIN requests,
           AnswerUnchanged(i) \/ RefreshTokenIsSaved(i)
    PROVE  RefreshInv'
<1>1. /\ RefreshTyped /\ Done(i) /\ session' = session /\ token' = token
      /\ issued' = issued /\ fresh' = fresh /\ failures' = failures
  BY DEF RefreshInv, AnswerUnchanged, RefreshTokenIsSaved, SameToken
<1>2. /\ session' # 0 => token' # 0
      /\ notified \in TokenIds /\ token \in TokenIds
  BY <1>1 DEF RefreshInv, RefreshTyped, TokensAtHand
<1>3. CASE AnswerUnchanged(i)
  <2>1. /\ notified' = notified /\ scheduled' = scheduled /\ timers' = timers
        /\ stalled' = (stalled \/ (requests[i].auto
                                     /\ requests[i].session = session))
    BY <1>3 DEF AnswerUnchanged
  <2>2. stalled' \in BOOLEAN /\ scheduled' \in BOOLEAN
    BY <1>1, <2>1 DEF RefreshTyped
  <2>3. ArmTyped'
    BY <1>1, <2>1, <2>2 DEF RefreshTyped, ArmTyped, TimersTyped
  <2>4. RefreshTyped'
    BY <1>1, <1>2, <2>1, <2>3, AnswerTyped DEF RefreshTyped
  <2>5. token' # notified' => failures' > 0
    BY <1>1, <2>1, NoticeKept
  <2>6. /\ stalled => stalled' \/ scheduled'
        /\ scheduled \/ (requests[i].auto /\ requests[i].session = session)
             => scheduled' \/ stalled'
    BY <2>1
  <2> QED  BY <1>1, <1>2, <2>4, <2>5, <2>6, AnswerKeeps
<1>4. CASE RefreshTokenIsSaved(i)
  <2>1. TokenChanges(token) /\ requests[i].session = session
    BY <1>4 DEF RefreshTokenIsSaved
  <2>2. /\ ArmTyped' /\ notified' = token
        /\ enabled /\ token # 0 => scheduled'
        /\ scheduled => scheduled'
        /\ stalled => stalled' \/ scheduled'
    BY <1>1, <1>2, <2>1, TokenChangesShape
  <2>3. RefreshTyped'
    BY <1>1, <1>2, <2>2, AnswerTyped DEF RefreshTyped
  <2> QED  BY <1>1, <1>2, <2>2, <2>3, AnswerKeeps
<1> QED  BY <1>3, <1>4

LEMMA RefreshAsksAgain ==
    ASSUME RefreshInv, NEW i \in DOMAIN requests, AnswerTooLate(i)
    PROVE  RefreshInv'
<1> DEFINE r == [requests[i] EXCEPT !.again = TRUE]
<1>1. /\ RefreshTyped /\ requests \in Seq(Queued) /\ i \in 1 .. Len(requests)
      /\ requests[i] \in Queued
  BY RequestTyped DEF RefreshInv, RefreshTyped
<1>2. r \in Queued /\ r.auto = requests[i].auto /\ r.session = requests[i].session
  BY <1>1 DEF Queued, Requests
<1>3. requests' = [requests EXCEPT ![i] = r]
  BY DEF AnswerTooLate
<1> HIDE DEF r
<1>4. /\ requests' \in Seq(Queued) /\ Len(requests') = Len(requests)
      /\ requests'[i] = r
      /\ \A j \in 1 .. Len(requests) : j # i => requests'[j] = requests[j]
  BY <1>1, <1>2, <1>3
<1>5. Asked(requests, session) => Asked(requests', session)
  BY <1>2, <1>4 DEF Asked
<1>6. /\ UNCHANGED <<owners, session, token, fresh, issued, notified, enabled, scheduled, stalled,
                     background, timers, firing, main, failures>>
  BY DEF AnswerTooLate, userVars, tokenVars, armVars
<1>7. RefreshTyped'
  BY <1>1, <1>4, <1>6 DEF RefreshTyped
<1> QED
  BY <1>5, <1>6, <1>7 DEF RefreshInv, TokensAtHand, FlagDownAsked, Active,
           OnlyUnsavedUnnoticed

-----------------------------------------------------------------------------
(* The other steps *)

LEMMA RefreshSignIn ==
    ASSUME RefreshInv, NEW u \in Uids, SignIn(u)
    PROVE  RefreshInv'
<1>1. /\ RefreshTyped /\ Len(owners) < MaxSignIns /\ issued < MaxTokens
      /\ owners' = Append(owners, u) /\ session' = Len(owners) + 1
      /\ issued' = issued + 1 /\ token' = issued + 1 /\ fresh' = TRUE
      /\ TokenChanges(issued + 1)
      /\ UNCHANGED <<enabled, background, firing, main, requests, failures>>
  BY DEF RefreshInv, SignIn
<1>2. issued + 1 \in TokenIds /\ issued + 1 # 0
  BY <1>1, OneMoreToken
<1>3. /\ ArmTyped' /\ notified' = issued + 1
      /\ enabled => scheduled'
  BY <1>1, <1>2, TokenChangesShape
<1>4. /\ owners' \in Seq(Uids) /\ Len(owners') <= MaxSignIns
      /\ session' \in 0 .. Len(owners')
  <2>1. owners \in Seq(Uids) /\ Len(owners) \in Nat
    BY <1>1 DEF RefreshTyped
  <2>2. owners' \in Seq(Uids) /\ Len(owners') = Len(owners) + 1
    BY <1>1, <2>1
  <2> QED  BY <1>1, <2>1, <2>2, RefreshAssumption
<1>5. RefreshTyped'
  BY <1>1, <1>2, <1>3, <1>4 DEF RefreshTyped, ArmTyped, TimersTyped
<1> QED
  BY <1>1, <1>2, <1>3, <1>5
     DEF RefreshInv, TokensAtHand, FlagDownAsked, Active,
           OnlyUnsavedUnnoticed

LEMMA RefreshSignOut ==
    ASSUME RefreshInv, SignsOut
    PROVE  RefreshInv'
<1>1. RefreshTyped'
  BY RefreshAssumption
     DEF RefreshInv, RefreshTyped, SignsOut, SignedOut, armVars, TokenIds
<1> QED
  BY <1>1 DEF RefreshInv, TokensAtHand, FlagDownAsked, Active,
           OnlyUnsavedUnnoticed, SignsOut,
              SignedOut

LEMMA RefreshGetToken ==
    ASSUME RefreshInv, NEW force \in BOOLEAN, GetToken(force)
    PROVE  RefreshInv'
<1> DEFINE r == [session |-> session, auto |-> FALSE, force |-> force,
                 delay |-> 0, again |-> FALSE]
<1>1. /\ RefreshTyped /\ token \in TokenIds /\ requests \in Seq(Queued)
      /\ enabled' = TRUE
      /\ requests' = IF session = 0 THEN requests ELSE Append(requests, r)
      /\ UNCHANGED <<owners, session, token, fresh, issued, notified, background,
                     firing, main, failures>>
  BY DEF RefreshInv, RefreshTyped, GetToken, userVars, tokenVars
<1>2. r \in Queued
  <2>1. session \in Sessions
    BY <1>1, RefreshAssumption DEF RefreshTyped, Sessions
  <2> QED  BY <2>1 DEF Queued, Requests, Delays
<1> HIDE DEF r
<1>3. /\ requests' \in Seq(Queued)
      /\ Asked(requests, session) => Asked(requests', session)
  BY <1>1, <1>2, AskedOnce
<1>4. /\ ArmTyped'
      /\ scheduled => scheduled'
      /\ stalled => stalled' \/ scheduled'
      /\ ~enabled /\ token # 0 => scheduled'
  <2>1. CASE enabled
    BY <1>1, <2>1, ArmKept DEF GetToken
  <2>2. CASE ~enabled
    <3>1. 0 \in Delays /\ Arm(token, 0)
      BY <2>2 DEF GetToken, Delays
    <3> QED  BY <1>1, <3>1, ArmShape
  <2> QED  BY <2>1, <2>2
<1>5. RefreshTyped'
  BY <1>1, <1>3, <1>4 DEF RefreshTyped, ArmTyped, TimersTyped
<1>6. TokensAtHand' /\ OnlyUnsavedUnnoticed'
  BY <1>1 DEF RefreshInv, TokensAtHand, OnlyUnsavedUnnoticed
<1>7. FlagDownAsked'
  BY <1>1, <1>3, <1>4 DEF RefreshInv, TokensAtHand, FlagDownAsked, Active,
           OnlyUnsavedUnnoticed
<1> QED  BY <1>5, <1>6, <1>7 DEF RefreshInv

LEMMA RefreshObservers ==
    ASSUME RefreshInv,
           \/ TokenAges \/ DidEnterBackground \/ DidBecomeActive
           \/ MainReadsToken \/ MainArms
    PROVE  RefreshInv'
<1>t. RefreshTyped /\ main \in [at : {"idle", "checks", "arms"}, token : TokenIds]
  BY DEF RefreshInv, RefreshTyped
<1>1. CASE TokenAges
  <2>1. RefreshTyped'
    BY <1>t, <1>1 DEF RefreshTyped, TokenAges, userVars, armVars
  <2> QED
    BY <1>1, <2>1 DEF RefreshInv, TokensAtHand, FlagDownAsked, Active,
           OnlyUnsavedUnnoticed,
                      TokenAges, userVars, armVars
<1>2. CASE DidEnterBackground
  <2>1. RefreshTyped'
    BY <1>t, <1>2 DEF RefreshTyped, DidEnterBackground, userVars, tokenVars, armVars
  <2> QED
    BY <1>2, <2>1 DEF RefreshInv, TokensAtHand, FlagDownAsked, Active,
           OnlyUnsavedUnnoticed,
                      DidEnterBackground, userVars, tokenVars, armVars
<1>3. CASE DidBecomeActive
  <2>1. /\ main' = [main EXCEPT !.at = "checks"] /\ background' = FALSE
        /\ UNCHANGED <<owners, session, token, fresh, issued, notified, enabled, scheduled, stalled,
                       timers, firing, requests, failures>>
    BY <1>3 DEF DidBecomeActive, userVars, tokenVars, armVars
  <2>2. main'.at = "checks" /\ main' \in [at : {"idle", "checks", "arms"},
                                          token : TokenIds]
    BY <1>t, <2>1
  <2>3. RefreshTyped'
    BY <1>t, <2>1, <2>2 DEF RefreshTyped
  <2> QED
    BY <2>1, <2>2, <2>3 DEF RefreshInv, TokensAtHand, FlagDownAsked, Active,
           OnlyUnsavedUnnoticed
<1>4. CASE MainReadsToken
  <2>1. /\ UNCHANGED <<owners, session, token, fresh, issued, notified, enabled, scheduled, stalled,
                       background, timers, firing, requests, failures>>
    BY <1>4 DEF MainReadsToken, userVars, tokenVars, armVars
  <2>2. CASE scheduled \/ token = 0
    <3>1. main' \in [at : {"idle", "checks", "arms"}, token : TokenIds]
          /\ main'.at = "idle"
      BY <1>t, <1>4, <2>2 DEF MainReadsToken
    <3>2. RefreshTyped'
      BY <1>t, <2>1, <3>1 DEF RefreshTyped
    <3> QED
      BY <2>1, <2>2, <3>1, <3>2
         DEF RefreshInv, TokensAtHand, FlagDownAsked, Active,
           OnlyUnsavedUnnoticed
  <2>3. CASE ~scheduled /\ token # 0
    <3>1. main' = [at |-> "arms", token |-> token]
      BY <1>4, <2>3 DEF MainReadsToken
    <3>2. main' \in [at : {"idle", "checks", "arms"}, token : TokenIds]
          /\ main'.at = "arms" /\ main'.token = token
      BY <1>t, <3>1 DEF RefreshTyped
    <3>3. RefreshTyped'
      BY <1>t, <2>1, <3>2 DEF RefreshTyped
    <3> QED
      BY <2>1, <2>3, <3>2, <3>3
         DEF RefreshInv, TokensAtHand, FlagDownAsked, Active,
           OnlyUnsavedUnnoticed
  <2> QED  BY <2>2, <2>3
<1>5. CASE MainArms
  <2>1. /\ Arm(main.token, 0) /\ main.at = "arms"
        /\ main' = [at |-> "idle", token |-> 0]
        /\ UNCHANGED <<owners, session, token, fresh, issued, notified, enabled, background,
                       firing, requests, failures>>
    BY <1>5 DEF MainArms, userVars, tokenVars
  <2>2. main.token \in TokenIds /\ main.token # 0 /\ 0 \in Delays
    BY <1>t, <2>1 DEF RefreshInv, TokensAtHand, Delays
  <2>3. ArmTyped' /\ scheduled'
    BY <1>t, <2>1, <2>2, ArmShape
  <2>4. main' \in [at : {"idle", "checks", "arms"}, token : TokenIds]
        /\ main'.at = "idle"
    BY <2>1, RefreshAssumption DEF TokenIds
  <2>5. RefreshTyped'
    BY <1>t, <2>1, <2>3, <2>4 DEF RefreshTyped, ArmTyped, TimersTyped
  <2> QED
    BY <2>1, <2>3, <2>4, <2>5
       DEF RefreshInv, TokensAtHand, FlagDownAsked, Active,
           OnlyUnsavedUnnoticed
<1> QED  BY <1>1, <1>2, <1>3, <1>4, <1>5

LEMMA RefreshTimerFires ==
    ASSUME RefreshInv, NEW t \in BagToSet(timers), TimerFires(t)
    PROVE  RefreshInv'
<1>1. /\ RefreshTyped /\ TimersTyped(timers) /\ t \in Timers
      /\ timers' = BagRemove(timers, t) /\ firing = {}
      /\ UNCHANGED <<owners, session, token, fresh, issued, notified, enabled,
                     background, stalled, main, requests, failures>>
  BY DEF RefreshInv, RefreshTyped, TimersTyped, TimerFires, userVars, tokenVars,
         WorkQueueIsFree
<1>2. TimersTyped(timers')
  BY <1>1, TimerRemoved
<1>3. \/ scheduled' = FALSE /\ firing' = {t}
      \/ scheduled' = scheduled /\ firing' = firing
  BY DEF TimerFires
<1>4. RefreshTyped'
  BY <1>1, <1>2, <1>3 DEF RefreshTyped, TimersTyped
<1> QED
  BY <1>1, <1>3, <1>4 DEF RefreshInv, TokensAtHand, FlagDownAsked, Active,
           OnlyUnsavedUnnoticed

LEMMA RefreshTimerRefreshes ==
    ASSUME RefreshInv, NEW t \in firing, TimerRefreshes(t)
    PROVE  RefreshInv'
<1> DEFINE r == [session |-> session, auto |-> TRUE, force |-> TRUE,
                 delay |-> t.delay, again |-> FALSE]
<1>1. /\ RefreshTyped /\ requests \in Seq(Queued) /\ t \in Timers
      /\ requests' = IF background THEN requests ELSE Append(requests, r)
      /\ firing' = {}
      /\ UNCHANGED <<owners, session, token, fresh, issued, notified, enabled, scheduled, stalled,
                     background, timers, main, failures>>
  BY DEF RefreshInv, RefreshTyped, TimerRefreshes, userVars, tokenVars, armVars
<1>2. r \in Queued /\ r.auto = TRUE /\ r.session = session
  <2>1. session \in Sessions
    BY <1>1, RefreshAssumption DEF RefreshTyped, Sessions
  <2> QED  BY <1>1, <2>1 DEF Queued, Requests, Timers
<1> HIDE DEF r
<1>3. /\ requests' \in Seq(Queued)
      /\ ~background => Asked(requests', session)
  BY <1>1, <1>2, AskedOnce
<1>4. RefreshTyped'
  BY <1>1, <1>3 DEF RefreshTyped
<1> QED
  BY <1>1, <1>3, <1>4 DEF RefreshInv, TokensAtHand, FlagDownAsked, Active,
           OnlyUnsavedUnnoticed

LEMMA RefreshStep == RefreshInv /\ [RefreshNext]_refreshVars => RefreshInv'
<1> SUFFICES ASSUME RefreshInv, [RefreshNext]_refreshVars PROVE RefreshInv'
  OBVIOUS
<1>1. CASE UNCHANGED refreshVars
  <2>1. /\ UNCHANGED <<owners, session, token, fresh, issued, notified, enabled, scheduled, stalled,
                       background, timers, firing, main, requests, failures>>
    BY <1>1 DEF refreshVars, userVars, tokenVars, armVars
  <2> QED
    BY <2>1 DEF RefreshInv, RefreshTyped, TokensAtHand, FlagDownAsked, Active,
           OnlyUnsavedUnnoticed
<1>2. CASE \E u \in Uids : SignIn(u)
  BY <1>2, RefreshSignIn
<1>3. CASE SignsOut
  BY <1>3, RefreshSignOut
<1>4. CASE \E force \in BOOLEAN : GetToken(force)
  BY <1>4, RefreshGetToken
<1>5. CASE \/ TokenAges \/ DidEnterBackground \/ DidBecomeActive
           \/ MainReadsToken \/ MainArms
  BY <1>5, RefreshObservers
<1>6. CASE \E t \in BagToSet(timers) : TimerFires(t)
  BY <1>6, RefreshTimerFires
<1>7. CASE \E t \in firing : TimerRefreshes(t)
  BY <1>7, RefreshTimerRefreshes
<1>8. CASE \E i \in DOMAIN requests :
              \/ TokenStillValid(i) \/ AnswerTooLate(i)
              \/ RefreshSucceeds(i) \/ RefreshIsNotSaved(i)
              \/ AnswerUnchanged(i) \/ RefreshTokenIsSaved(i)
              \/ RefreshFails(i) \/ TokenIsRevoked(i)
  BY <1>8, RefreshAnswers, RefreshAsksAgain, RefreshBringsNothing
<1> QED
  BY <1>1, <1>2, <1>3, <1>4, <1>5, <1>6, <1>7, <1>8 DEF RefreshNext

LEMMA RefreshStarts == RefreshInit => RefreshInv
<1> SUFFICES ASSUME RefreshInit PROVE RefreshInv
  OBVIOUS
<1>1. /\ owners \in Seq(Uids) /\ Len(owners) <= MaxSignIns
      /\ session \in 0 .. Len(owners)
      /\ token \in TokenIds /\ issued \in TokenIds
      /\ session # 0 => token # 0
  <2>1. CASE owners = <<>> /\ session = 0 /\ token = 0 /\ issued = 0
    BY <2>1, RefreshAssumption DEF TokenIds
  <2>2. CASE (\E u \in Uids : owners = <<u>>) /\ session = 1 /\ token = 1 /\ issued = 1
    <3>1. PICK u \in Uids : owners = <<u>>
      BY <2>2
    <3>2. owners \in Seq(Uids) /\ Len(owners) = 1
      BY <3>1
    <3> QED  BY <2>2, <3>2, RefreshAssumption DEF TokenIds
  <2> QED  BY <2>1, <2>2 DEF RefreshInit
<1>2. TimersTyped(timers)
  BY DEF RefreshInit, TimersTyped, EmptyBag, SetToBag, BagToSet, IsABag
<1>3. /\ requests = <<>> /\ enabled = FALSE /\ scheduled = FALSE
      /\ background = FALSE /\ firing = {} /\ failures = 0 /\ fresh \in BOOLEAN
      /\ notified = token /\ stalled = FALSE
      /\ main = [at |-> "idle", token |-> 0]
  BY DEF RefreshInit
<1>4. main \in [at : {"idle", "checks", "arms"}, token : TokenIds] /\ main.at = "idle"
  BY <1>3, RefreshAssumption DEF TokenIds
<1>5. requests \in Seq(Queued) /\ failures \in 0 .. MaxFailures
  BY <1>3, RefreshAssumption
<1>6. RefreshTyped
  BY <1>1, <1>2, <1>3, <1>4, <1>5 DEF RefreshTyped, TimersTyped
<1> QED
  BY <1>1, <1>3, <1>4, <1>6 DEF RefreshInv, TokensAtHand, FlagDownAsked, Active,
           OnlyUnsavedUnnoticed

(* Flags, timers and requests fit together: while an active app's user has *)
(* no timer that counts, a refresh is under way, whichever thread saw the  *)
(* flags first, and whichever answers failed, were not saved or came for   *)
(* a user who has left; the answer with the token the user has is the only *)
(* one after which none is (FIRAuth.autoTokenRefreshWithToken).            *)
THEOREM RefreshIsConsistent == RefreshSpec => []RefreshConsistent
BY RefreshStarts, RefreshStep, RefreshInvIsConsistent, PTL DEF RefreshSpec
=============================================================================
