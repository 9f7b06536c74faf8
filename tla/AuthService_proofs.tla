------------------------- MODULE AuthService_proofs ------------------------
(***************************************************************************)
(* Theorems about AuthService over FirebaseAuth and FirestoreClient, for   *)
(* any emails and calls, any number of calls in flight, and queues and     *)
(* restarts without limit.                                                 *)
(***************************************************************************)
EXTENDS AuthService, SequenceTheorems, TLAPS

Users == Emails \cup {NoUser}
Items == Auth!AuthItems \cup Store!WrittenItems
Answers == {"ok", "failed"}

(* Where a call, or the profile write that it became, is.                  *)
Replying(c, a) == Auth!Reply(c, a) \in ToSet(mainQueue)
Settling(c) == \E a \in Answers : Store!Written(c, a) \in ToSet(mainQueue)
InWorker(c) == Store!Write(c) \in ToSet(worker)
Queued(c, u) == c \in ToSet(mutations[u])

-----------------------------------------------------------------------------
(* The invariant                                                           *)

(* Two blocks about the same call.                                         *)
Twins(m, n) ==
    /\ m.type = n.type
    /\ \/ m.type = "reply" /\ m.call = n.call
       \/ m.type \in {"written", "write"} /\ m.write = n.write

NoTwins(q) == \A i, j \in DOMAIN q : Twins(q[i], q[j]) => i = j

OnceEach ==
    /\ NoTwins(mainQueue)
    /\ NoTwins(worker)
    /\ \A u \in Users : IsInjective(mutations[u])

(* A call that was granted has its account, and a registration has made it *)
(* itself; a profile write is issued by nothing else.                      *)
HasAccount(c) ==
    /\ calls[c].email \in accounts
    /\ calls[c].op = "register" => made[calls[c].email] = c

AccountsMade == \A e \in Emails : e \in accounts <=> made[e] # Nobody

Earned ==
    /\ \A c \in Calls : \A a \in Answers :
          Replying(c, a) => calls[c].stage = "replying"
    /\ \A c \in Calls :
          calls[c].stage = "granted" \/ Replying(c, "ok") => HasAccount(c)
    /\ \A c \in issued : /\ calls[c].stage = "answered"
                         /\ calls[c].op = "register"
                         /\ HasAccount(c)

(* A profile write is on the worker queue, in one mutation queue, on its   *)
(* way back, or nowhere any more.                                          *)
OnePlace ==
    /\ applied \subseteq issued
    /\ \A c \in Calls : InWorker(c) =>
          c \in issued /\ ~Settling(c) /\ \A u \in Users : ~Queued(c, u)
    /\ \A c \in Calls : \A u \in Users : Queued(c, u) =>
          c \in issued /\ ~Settling(c) /\ \A v \in Users : Queued(c, v) => u = v
    /\ \A c \in Calls : Settling(c) => c \in issued
    /\ \A u \in Users : \A c \in callbacks[u] : Queued(c, u)
    /\ \A c \in Calls :
          Store!Written(c, "ok") \in ToSet(mainQueue) => c \in applied

(* Who has not been told, and who has no one left to be told.              *)
Untold ==
    \A c \in Calls :
       \/ calls[c].stage # "answered"
       \/ InWorker(c)
       \/ Settling(c)
       \/ \E u \in Users : Queued(c, u)
       => told[c] = <<>>

Bereft ==
    \A c \in abandoned :
       /\ calls[c].stage \in {"answered", "lost"}
       /\ ~InWorker(c)
       /\ ~Settling(c)
       /\ \A u \in Users : c \notin callbacks[u]

(* The user the engine knows once the first n blocks of q have run.        *)
UserAfter(q, s, n, u) ==
    \/ /\ \A i \in 1 .. n : q[i].type # "credential"
       /\ s = u
    \/ \E i \in 1 .. n : /\ q[i].type = "credential"
                        /\ q[i].user = u
                        /\ \A j \in i + 1 .. n : q[j].type # "credential"

(* A write finds an engine, and mine has the pairs of a write and a user   *)
(* that may have it.                                                       *)
Owned(q, s, mine) ==
    \A i \in 1 .. Len(q) : q[i].type = "write" =>
       \E u \in Users : UserAfter(q, s, i, u) /\ <<q[i].write, u>> \in mine

(* Unless it built the client, a write is for the user it was called for.  *)
Mine == {p \in Calls \X Users : p[1] \in builders \/ p[2] = calls[p[1]].email}

(* The worker's user is the provider's, late.                              *)
WorkerKnows ==
    /\ created => UserAfter(worker, syncUser, Len(worker), credential)
    /\ Owned(worker, syncUser, Mine)

(* The block of a successful call is the first, and its user is one of     *)
(* front, or follows the notification of its user immediately.             *)
FollowsNotice(q, emailOf, front) ==
    \A i \in 1 .. Len(q) :
       q[i].type = "reply" /\ q[i].answer = "ok" =>
          \/ i = 1 /\ emailOf[q[i].call] \in front
          \/ i > 1 /\ q[i - 1] = Auth!Notice(emailOf[q[i].call])

EmailOf == [c \in Calls |-> calls[c].email]

(* The users that Firestore may have heard of last.                        *)
HeardLast == {u \in Users : created => credential = u}

Announced == FollowsNotice(mainQueue, EmailOf, HeardLast)

ServiceInv ==
    /\ TypeOK
    /\ OnceEach
    /\ AccountsMade
    /\ Earned
    /\ OnePlace
    /\ Untold
    /\ Bereft
    /\ WorkerKnows
    /\ Announced
    /\ ProfileFiledUnderOwner
    /\ ToldOnce

-----------------------------------------------------------------------------
(* Blocks and queues                                                       *)

LEMMA Fields ==
    /\ \A u : Auth!Notice(u).type = "notice" /\ Auth!Notice(u).user = u
    /\ \A c, a : /\ Auth!Reply(c, a).type = "reply"
                 /\ Auth!Reply(c, a).call = c
                 /\ Auth!Reply(c, a).answer = a
    /\ \A c, a : /\ Store!Written(c, a).type = "written"
                 /\ Store!Written(c, a).write = c
                 /\ Store!Written(c, a).answer = a
    /\ \A c : Store!Write(c).type = "write" /\ Store!Write(c).write = c
    /\ \A u : /\ Store!Credential(u).type = "credential"
              /\ Store!Credential(u).user = u
BY DEF Auth!Notice, Auth!Reply, Store!Written, Store!Write, Store!Credential

LEMMA ItemsTyped ==
    /\ \A u \in Users : Auth!Notice(u) \in Items
    /\ \A c \in Calls : \A a \in Answers :
          Auth!Reply(c, a) \in Items /\ Store!Written(c, a) \in Items
    /\ \A m \in Items :
          /\ m.type \in {"notice", "reply", "written"}
          /\ m.type = "notice" => m.user \in Users /\ m = Auth!Notice(m.user)
          /\ m.type = "reply" => /\ m.call \in Calls
                                 /\ m.answer \in Answers
                                 /\ m = Auth!Reply(m.call, m.answer)
          /\ m.type = "written" => /\ m.write \in Calls
                                   /\ m.answer \in Answers
                                   /\ m = Store!Written(m.write, m.answer)
<1> USE DEF Items, Auth!AuthItems, Store!WrittenItems, Auth!Users, Users,
            Auth!Answers, Store!Answers, Answers
<1>1. \A u \in Users : Auth!Notice(u) \in Items
  BY DEF Auth!Notice
<1>2. \A c \in Calls : \A a \in Answers :
         Auth!Reply(c, a) \in Items /\ Store!Written(c, a) \in Items
  BY DEF Auth!Reply, Store!Written
<1>3. ASSUME NEW m \in Items
      PROVE  /\ m.type \in {"notice", "reply", "written"}
             /\ m.type = "notice" => m.user \in Users /\ m = Auth!Notice(m.user)
             /\ m.type = "reply" => /\ m.call \in Calls
                                    /\ m.answer \in Answers
                                    /\ m = Auth!Reply(m.call, m.answer)
             /\ m.type = "written" => /\ m.write \in Calls
                                      /\ m.answer \in Answers
                                      /\ m = Store!Written(m.write, m.answer)
  <2>1. CASE m \in [type : {"notice"}, user : Users]
    BY <2>1 DEF Auth!Notice
  <2>2. CASE m \in [type : {"reply"}, call : Calls, answer : Answers]
    BY <2>2 DEF Auth!Reply
  <2>3. CASE m \in [type : {"written"}, write : Calls, answer : Answers]
    BY <2>3 DEF Store!Written
  <2> QED  BY <2>1, <2>2, <2>3
<1> QED  BY <1>1, <1>2, <1>3

LEMMA BlocksTyped ==
    /\ \A u \in Users : Store!Credential(u) \in Store!Blocks
    /\ \A c \in Calls : Store!Write(c) \in Store!Blocks
    /\ \A b \in Store!Blocks :
          /\ b.type \in {"credential", "write"}
          /\ b.type = "credential" =>
                b.user \in Users /\ b = Store!Credential(b.user)
          /\ b.type = "write" => b.write \in Calls /\ b = Store!Write(b.write)
<1> USE DEF Store!Blocks, Store!Owners, Users
<1>1. \A u \in Users : Store!Credential(u) \in Store!Blocks
  BY DEF Store!Credential
<1>2. \A c \in Calls : Store!Write(c) \in Store!Blocks
  BY DEF Store!Write
<1>3. ASSUME NEW b \in Store!Blocks
      PROVE  /\ b.type \in {"credential", "write"}
             /\ b.type = "credential" =>
                   b.user \in Users /\ b = Store!Credential(b.user)
             /\ b.type = "write" => b.write \in Calls /\ b = Store!Write(b.write)
  <2>1. CASE b \in [type : {"credential"}, user : Users]
    BY <2>1 DEF Store!Credential
  <2>2. CASE b \in [type : {"write"}, write : Calls]
    BY <2>2 DEF Store!Write
  <2> QED  BY <2>1, <2>2
<1> QED  BY <1>1, <1>2, <1>3

(* What appending and taking do to a queue.                                *)
LEMMA AppendShape ==
    ASSUME NEW S, NEW q \in Seq(S), NEW m \in S
    PROVE  /\ Append(q, m) \in Seq(S)
           /\ Len(Append(q, m)) = Len(q) + 1
           /\ \A i \in 1 .. Len(q) : Append(q, m)[i] = q[i]
           /\ Append(q, m)[Len(q) + 1] = m
OBVIOUS

LEMMA TailShape ==
    ASSUME NEW S, NEW q \in Seq(S), q # <<>>
    PROVE  /\ Tail(q) \in Seq(S)
           /\ Head(q) = q[1]
           /\ Head(q) \in S
           /\ Len(q) \in Nat \ {0}
           /\ Len(Tail(q)) = Len(q) - 1
           /\ \A i \in 1 .. Len(q) - 1 : Tail(q)[i] = q[i + 1]
OBVIOUS

LEMMA ToSetOfAppend ==
    ASSUME NEW S, NEW q \in Seq(S), NEW m \in S
    PROVE  ToSet(Append(q, m)) = ToSet(q) \cup {m}
<1>1. DOMAIN Append(q, m) = 1 .. Len(q) + 1 /\ DOMAIN q = 1 .. Len(q)
  OBVIOUS
<1>2. ASSUME NEW x \in ToSet(Append(q, m)) PROVE x \in ToSet(q) \cup {m}
  <2>1. PICK i \in 1 .. Len(q) + 1 : x = Append(q, m)[i]
    BY <1>1 DEF ToSet
  <2> QED  BY <1>1, <2>1, AppendShape DEF ToSet
<1>3. ASSUME NEW x \in ToSet(q) PROVE x \in ToSet(Append(q, m))
  <2>1. PICK i \in 1 .. Len(q) : x = q[i]
    BY <1>1 DEF ToSet
  <2>2. i \in 1 .. Len(q) + 1 /\ Append(q, m)[i] = x
    BY <2>1, AppendShape
  <2> QED  BY <1>1, <2>2 DEF ToSet
<1>4. m \in ToSet(Append(q, m))
  <2>1. Len(q) + 1 \in 1 .. Len(q) + 1
    OBVIOUS
  <2> QED  BY <1>1, <2>1, AppendShape DEF ToSet
<1> QED  BY <1>2, <1>3, <1>4

LEMMA ToSetOfTail ==
    ASSUME NEW S, NEW q \in Seq(S), q # <<>>
    PROVE  ToSet(q) = ToSet(Tail(q)) \cup {Head(q)}
<1>1. DOMAIN Tail(q) = 1 .. Len(q) - 1 /\ DOMAIN q = 1 .. Len(q)
  OBVIOUS
<1>2. ASSUME NEW x \in ToSet(q) PROVE x \in ToSet(Tail(q)) \cup {Head(q)}
  <2>1. PICK i \in 1 .. Len(q) : x = q[i]
    BY <1>1 DEF ToSet
  <2>2. CASE i = 1
    BY <2>1, <2>2, TailShape
  <2>3. CASE i # 1
    <3>1. i - 1 \in 1 .. Len(q) - 1 /\ Tail(q)[i - 1] = x
      BY <2>1, <2>3
    <3> QED  BY <1>1, <3>1 DEF ToSet
  <2> QED  BY <2>2, <2>3
<1>3. ASSUME NEW x \in ToSet(Tail(q)) PROVE x \in ToSet(q)
  <2>1. PICK i \in 1 .. Len(q) - 1 : x = Tail(q)[i]
    BY <1>1 DEF ToSet
  <2>2. i + 1 \in 1 .. Len(q) /\ q[i + 1] = x
    BY <2>1
  <2> QED  BY <1>1, <2>2 DEF ToSet
<1>4. Head(q) \in ToSet(q)
  <2>1. 1 \in 1 .. Len(q) /\ Head(q) = q[1]
    OBVIOUS
  <2> QED  BY <1>1, <2>1 DEF ToSet
<1> QED  BY <1>2, <1>3, <1>4

LEMMA InjectiveAppend ==
    ASSUME NEW S, NEW q \in Seq(S), NEW m \in S,
           IsInjective(q), m \notin ToSet(q)
    PROVE  IsInjective(Append(q, m))
<1>1. DOMAIN Append(q, m) = 1 .. Len(q) + 1 /\ DOMAIN q = 1 .. Len(q)
  OBVIOUS
<1>2. \A i \in 1 .. Len(q) : Append(q, m)[i] = q[i] /\ q[i] # m
  BY <1>1, AppendShape DEF ToSet
<1>3. Append(q, m)[Len(q) + 1] = m
  OBVIOUS
<1>4. ASSUME NEW i \in 1 .. Len(q) + 1, NEW j \in 1 .. Len(q) + 1,
             Append(q, m)[i] = Append(q, m)[j]
      PROVE  i = j
  <2>1. CASE i \in 1 .. Len(q) /\ j \in 1 .. Len(q)
    BY <1>1, <1>2, <1>4, <2>1 DEF IsInjective
  <2>2. CASE i = Len(q) + 1 \/ j = Len(q) + 1
    BY <1>2, <1>3, <1>4, <2>2
  <2> QED  BY <2>1, <2>2
<1> QED  BY <1>1, <1>4 DEF IsInjective

LEMMA InjectiveTail ==
    ASSUME NEW S, NEW q \in Seq(S), q # <<>>, IsInjective(q)
    PROVE  IsInjective(Tail(q)) /\ Head(q) \notin ToSet(Tail(q))
<1>1. /\ DOMAIN Tail(q) = 1 .. Len(q) - 1
      /\ DOMAIN q = 1 .. Len(q)
      /\ Len(q) \in Nat \ {0}
      /\ Head(q) = q[1]
  OBVIOUS
<1>2. \A i \in 1 .. Len(q) - 1 : Tail(q)[i] = q[i + 1] /\ i + 1 \in 1 .. Len(q)
  BY TailShape
<1>3. ASSUME NEW i \in 1 .. Len(q) - 1, NEW j \in 1 .. Len(q) - 1,
             Tail(q)[i] = Tail(q)[j]
      PROVE  i = j
  <2>1. i + 1 = j + 1
    BY <1>1, <1>2, <1>3 DEF IsInjective
  <2> QED  BY <2>1
<1>4. ASSUME NEW i \in 1 .. Len(q) - 1, Tail(q)[i] = Head(q) PROVE FALSE
  <2>1. i + 1 = 1
    BY <1>1, <1>2, <1>4 DEF IsInjective
  <2> QED  BY <2>1
<1> QED  BY <1>1, <1>3, <1>4 DEF IsInjective, ToSet

LEMMA UserAfterKept ==
    ASSUME NEW q, NEW r, NEW s, NEW n \in Nat, NEW u,
           \A i \in 1 .. n : r[i] = q[i]
    PROVE  UserAfter(r, s, n, u) <=> UserAfter(q, s, n, u)
BY DEF UserAfter

LEMMA UserAfterChange ==
    ASSUME NEW q, NEW s, NEW n \in Nat, NEW u,
           q[n + 1].type = "credential", q[n + 1].user = u
    PROVE  UserAfter(q, s, n + 1, u)
BY DEF UserAfter

LEMMA UserAfterWrite ==
    ASSUME NEW q, NEW s, NEW n \in Nat, NEW u,
           q[n + 1].type # "credential", UserAfter(q, s, n, u)
    PROVE  UserAfter(q, s, n + 1, u)
<1>1. CASE s = u /\ \A i \in 1 .. n : q[i].type # "credential"
  <2>1. \A i \in 1 .. n + 1 : i \in 1 .. n \/ i = n + 1
    OBVIOUS
  <2> QED  BY <1>1, <2>1 DEF UserAfter
<1>2. ASSUME NEW i \in 1 .. n, q[i].type = "credential", q[i].user = u,
             \A j \in i + 1 .. n : q[j].type # "credential"
      PROVE  UserAfter(q, s, n + 1, u)
  <2>1. \A j \in i + 1 .. n + 1 : j \in i + 1 .. n \/ j = n + 1
    OBVIOUS
  <2>2. i \in 1 .. n + 1
    OBVIOUS
  <2> QED  BY <1>2, <2>1, <2>2 DEF UserAfter
<1> QED  BY <1>1, <1>2 DEF UserAfter

LEMMA UserAfterTail ==
    ASSUME NEW q, NEW r, NEW s, NEW t, NEW n \in Nat, NEW u,
           \A i \in 1 .. n : r[i] = q[i + 1],
           IF q[1].type = "credential" THEN t = q[1].user ELSE t = s,
           UserAfter(q, s, n + 1, u)
    PROVE  UserAfter(r, t, n, u)
<1>1. CASE s = u /\ \A i \in 1 .. n + 1 : q[i].type # "credential"
  <2>1. \A i \in 1 .. n : r[i].type # "credential"
    BY <1>1
  <2>2. 1 \in 1 .. n + 1
    OBVIOUS
  <2>3. t = u
    BY <1>1, <2>2
  <2> QED  BY <2>1, <2>3 DEF UserAfter
<1>2. ASSUME NEW i \in 1 .. n + 1, q[i].type = "credential", q[i].user = u,
             \A j \in i + 1 .. n + 1 : q[j].type # "credential"
      PROVE  UserAfter(r, t, n, u)
  <2>1. CASE i = 1
    <3>1. \A j \in 1 .. n : r[j].type # "credential"
      <4>1. ASSUME NEW j \in 1 .. n PROVE r[j].type # "credential"
        <5>1. j + 1 \in i + 1 .. n + 1
          BY <2>1
        <5> QED  BY <1>2, <5>1
      <4> QED  BY <4>1
    <3>2. t = u
      BY <1>2, <2>1
    <3> QED  BY <3>1, <3>2 DEF UserAfter
  <2>2. CASE i # 1
    <3>1. PICK k \in 1 .. n : k + 1 = i
      <4>1. i - 1 \in 1 .. n /\ (i - 1) + 1 = i
        BY <2>2
      <4> QED  BY <4>1
    <3>2. r[k].type = "credential" /\ r[k].user = u
      BY <1>2, <3>1
    <3>3. ASSUME NEW j \in k + 1 .. n PROVE r[j].type # "credential"
      <4>1. j \in 1 .. n /\ j + 1 \in i + 1 .. n + 1
        BY <3>1
      <4> QED  BY <1>2, <4>1
    <3> QED  BY <3>2, <3>3 DEF UserAfter
  <2> QED  BY <2>1, <2>2
<1> QED  BY <1>1, <1>2 DEF UserAfter

(* A block that has no twin in the queue joins it, or the oldest leaves.   *)
LEMMA TwinsAppend ==
    ASSUME NEW S, NEW q \in Seq(S), NEW m \in S, NoTwins(q),
           \A n \in ToSet(q) : ~Twins(n, m) /\ ~Twins(m, n)
    PROVE  NoTwins(Append(q, m))
<1>1. DOMAIN Append(q, m) = 1 .. Len(q) + 1 /\ DOMAIN q = 1 .. Len(q)
  OBVIOUS
<1>2. \A i \in 1 .. Len(q) :
         /\ Append(q, m)[i] = q[i]
         /\ ~Twins(q[i], m)
         /\ ~Twins(m, q[i])
  BY <1>1, AppendShape DEF ToSet
<1>3. Append(q, m)[Len(q) + 1] = m
  OBVIOUS
<1>4. ASSUME NEW i \in 1 .. Len(q) + 1, NEW j \in 1 .. Len(q) + 1,
             Twins(Append(q, m)[i], Append(q, m)[j])
      PROVE  i = j
  <2>1. CASE i \in 1 .. Len(q) /\ j \in 1 .. Len(q)
    BY <1>1, <1>2, <1>4, <2>1 DEF NoTwins
  <2>2. CASE i = Len(q) + 1 \/ j = Len(q) + 1
    BY <1>2, <1>3, <1>4, <2>2
  <2> QED  BY <2>1, <2>2
<1> QED  BY <1>1, <1>4 DEF NoTwins

LEMMA TwinsTail ==
    ASSUME NEW S, NEW q \in Seq(S), q # <<>>, NoTwins(q)
    PROVE  /\ NoTwins(Tail(q))
           /\ \A n \in ToSet(Tail(q)) : ~Twins(n, Head(q))
<1>1. /\ DOMAIN Tail(q) = 1 .. Len(q) - 1
      /\ DOMAIN q = 1 .. Len(q)
      /\ Len(q) \in Nat \ {0}
      /\ Head(q) = q[1]
  OBVIOUS
<1>2. \A i \in 1 .. Len(q) - 1 : Tail(q)[i] = q[i + 1] /\ i + 1 \in 1 .. Len(q)
  BY TailShape
<1>3. ASSUME NEW i \in 1 .. Len(q) - 1, NEW j \in 1 .. Len(q) - 1,
             Twins(Tail(q)[i], Tail(q)[j])
      PROVE  i = j
  <2>1. i + 1 = j + 1
    BY <1>1, <1>2, <1>3 DEF NoTwins
  <2> QED  BY <2>1
<1>4. ASSUME NEW i \in 1 .. Len(q) - 1, Twins(Tail(q)[i], Head(q)) PROVE FALSE
  <2>1. i + 1 = 1
    BY <1>1, <1>2, <1>4 DEF NoTwins
  <2> QED  BY <2>1
<1> QED  BY <1>1, <1>3, <1>4 DEF NoTwins, ToSet

(* The pairs that are allowed to the writes of a queue may change as long  *)
(* as its own writes keep theirs.                                          *)
LEMMA OwnedKept ==
    ASSUME NEW q \in Seq(Store!Blocks), NEW s, NEW mine, NEW ours,
           Owned(q, s, mine),
           \A c \in Calls : Store!Write(c) \in ToSet(q) =>
              \A u \in Users : <<c, u>> \in mine => <<c, u>> \in ours
    PROVE  Owned(q, s, ours)
<1>1. ASSUME NEW i \in 1 .. Len(q), q[i].type = "write"
      PROVE  \E u \in Users : UserAfter(q, s, i, u) /\ <<q[i].write, u>> \in ours
  <2>1. q[i].write \in Calls /\ q[i] = Store!Write(q[i].write)
    BY <1>1, BlocksTyped
  <2>2. Store!Write(q[i].write) \in ToSet(q)
    BY <2>1 DEF ToSet
  <2>3. PICK u \in Users : UserAfter(q, s, i, u) /\ <<q[i].write, u>> \in mine
    BY <1>1 DEF Owned
  <2> QED  BY <2>1, <2>2, <2>3
<1> QED  BY <1>1 DEF Owned

(* A block m joins the queue of an engine that stays: v is its last user.  *)
LEMMA OwnedAppend ==
    ASSUME NEW q \in Seq(Store!Blocks), NEW s, NEW m \in Store!Blocks, NEW mine,
           NEW u \in Users, NEW v \in Users,
           UserAfter(q, s, Len(q), u), Owned(q, s, mine),
           IF m.type = "credential" THEN v = m.user
                                    ELSE v = u /\ <<m.write, v>> \in mine
    PROVE  /\ UserAfter(Append(q, m), s, Len(Append(q, m)), v)
           /\ Owned(Append(q, m), s, mine)
<1> DEFINE r == Append(q, m)
           n == Len(q)
<1>1. /\ n \in Nat
      /\ Len(r) = n + 1
      /\ \A i \in 1 .. n : r[i] = q[i]
      /\ r[n + 1] = m
  BY AppendShape
<1> HIDE DEF r, n
<1>2. UserAfter(r, s, n + 1, v)
  <2>1. CASE m.type = "credential"
    BY <1>1, <2>1, UserAfterChange
  <2>2. CASE m.type # "credential"
    <3>1. UserAfter(r, s, n, u)
      BY <1>1, UserAfterKept DEF n
    <3> QED  BY <1>1, <2>2, <3>1, UserAfterWrite
  <2> QED  BY <2>1, <2>2
<1>3. ASSUME NEW i \in 1 .. n + 1, r[i].type = "write"
      PROVE  \E w \in Users : UserAfter(r, s, i, w) /\ <<r[i].write, w>> \in mine
  <2>1. CASE i = n + 1
    BY <1>1, <1>2, <1>3, <2>1
  <2>2. CASE i # n + 1
    <3>1. i \in 1 .. n /\ q[i].type = "write"
      BY <1>1, <1>3, <2>2
    <3>2. PICK w \in Users : UserAfter(q, s, i, w) /\ <<q[i].write, w>> \in mine
      BY <3>1 DEF Owned, n
    <3>3. \A j \in 1 .. i : r[j] = q[j]
      BY <1>1, <3>1
    <3>4. UserAfter(r, s, i, w)
      BY <3>1, <3>2, <3>3, UserAfterKept
    <3> QED  BY <1>1, <3>1, <3>2, <3>4
  <2> QED  BY <2>1, <2>2
<1>4. Owned(r, s, mine)
  BY <1>1, <1>3 DEF Owned
<1> QED  BY <1>1, <1>2, <1>4 DEF r

(* The oldest block runs, and t is the engine's user afterwards.           *)
LEMMA OwnedTail ==
    ASSUME NEW q \in Seq(Store!Blocks), q # <<>>, NEW s, NEW t, NEW mine,
           IF q[1].type = "credential" THEN t = q[1].user ELSE t = s,
           Owned(q, s, mine)
    PROVE  /\ \A u : UserAfter(q, s, Len(q), u)
                        => UserAfter(Tail(q), t, Len(Tail(q)), u)
           /\ Owned(Tail(q), t, mine)
<1> DEFINE r == Tail(q)
           n == Len(q) - 1
<1>1. /\ n \in Nat
      /\ Len(r) = n
      /\ Len(q) = n + 1
      /\ \A i \in 1 .. n : r[i] = q[i + 1]
  BY TailShape
<1> HIDE DEF r, n
<1>2. ASSUME NEW u, UserAfter(q, s, Len(q), u)
      PROVE  UserAfter(r, t, n, u)
  BY <1>1, <1>2, UserAfterTail
<1>3. ASSUME NEW i \in 1 .. n, r[i].type = "write"
      PROVE  \E u \in Users : UserAfter(r, t, i, u) /\ <<r[i].write, u>> \in mine
  <2>1. i + 1 \in 1 .. Len(q) /\ q[i + 1].type = "write" /\ i \in Nat
    BY <1>1, <1>3
  <2>2. PICK u \in Users :
           UserAfter(q, s, i + 1, u) /\ <<q[i + 1].write, u>> \in mine
    BY <2>1 DEF Owned
  <2>3. \A j \in 1 .. i : r[j] = q[j + 1]
    BY <1>1
  <2>4. UserAfter(r, t, i, u)
    BY <2>1, <2>2, <2>3, UserAfterTail
  <2> QED  BY <1>1, <2>2, <2>4
<1>4. Owned(r, t, mine)
  BY <1>1, <1>3 DEF Owned
<1> QED  BY <1>1, <1>2, <1>4 DEF r

(* The write at the head finds an engine that is its own.                  *)
LEMMA OwnedHead ==
    ASSUME NEW q \in Seq(Store!Blocks), q # <<>>, NEW s, NEW mine,
           Owned(q, s, mine), q[1].type = "write"
    PROVE  s \in Users /\ <<q[1].write, s>> \in mine
<1>1. 1 \in 1 .. Len(q)
  OBVIOUS
<1>2. PICK u \in Users : UserAfter(q, s, 1, u) /\ <<q[1].write, u>> \in mine
  BY <1>1 DEF Owned
<1>3. \A i \in 1 .. 1 : i = 1
  OBVIOUS
<1>4. s = u
  BY <1>2, <1>3 DEF UserAfter
<1> QED  BY <1>2, <1>4

(* A block that is no good news joins the main queue; so does a            *)
(* notification with the good news about its user.                         *)
LEMMA NoticeAppend ==
    ASSUME NEW q \in Seq(Items), NEW m \in Items, NEW emailOf, NEW front,
           FollowsNotice(q, emailOf, front),
           ~(m.type = "reply" /\ m.answer = "ok")
    PROVE  FollowsNotice(Append(q, m), emailOf, front)
<1> DEFINE r == Append(q, m)
<1>1. /\ Len(q) \in Nat
      /\ Len(r) = Len(q) + 1
      /\ \A i \in 1 .. Len(q) : r[i] = q[i]
      /\ r[Len(q) + 1] = m
  BY AppendShape
<1> HIDE DEF r
<1>2. ASSUME NEW i \in 1 .. Len(r), r[i].type = "reply", r[i].answer = "ok"
      PROVE  \/ i = 1 /\ emailOf[r[i].call] \in front
             \/ i > 1 /\ r[i - 1] = Auth!Notice(emailOf[r[i].call])
  <2>1. i \in 1 .. Len(q) /\ r[i] = q[i]
    BY <1>1, <1>2
  <2>2. i > 1 => i - 1 \in 1 .. Len(q)
    BY <2>1
  <2>3. i > 1 => r[i - 1] = q[i - 1]
    BY <1>1, <2>2
  <2> QED  BY <1>2, <2>1, <2>3 DEF FollowsNotice
<1> QED  BY <1>2 DEF FollowsNotice, r

LEMMA NoticeAndReply ==
    ASSUME NEW q \in Seq(Items), NEW c \in Calls, NEW emailOf, NEW front,
           emailOf[c] \in Users,
           FollowsNotice(q, emailOf, front)
    PROVE  FollowsNotice(
              Append(Append(q, Auth!Notice(emailOf[c])), Auth!Reply(c, "ok")),
              emailOf, front)
<1> DEFINE p == Append(q, Auth!Notice(emailOf[c]))
           r == Append(p, Auth!Reply(c, "ok"))
           n == Len(p)
<1>1. /\ Auth!Notice(emailOf[c]) \in Items
      /\ Auth!Reply(c, "ok") \in Items
      /\ Auth!Notice(emailOf[c]).type = "notice"
      /\ Auth!Reply(c, "ok").call = c
  BY ItemsTyped, Fields DEF Answers
<1>2. p \in Seq(Items) /\ n \in Nat /\ n > 0 /\ p[n] = Auth!Notice(emailOf[c])
  BY <1>1, AppendShape
<1>3. FollowsNotice(p, emailOf, front)
  BY <1>1, NoticeAppend
<1> HIDE DEF p
<1>4. /\ Len(r) = n + 1
      /\ \A i \in 1 .. n : r[i] = p[i]
      /\ r[n + 1] = Auth!Reply(c, "ok")
  BY <1>1, <1>2, AppendShape
<1> HIDE DEF r, n
<1>5. ASSUME NEW i \in 1 .. n + 1, r[i].type = "reply", r[i].answer = "ok"
      PROVE  \/ i = 1 /\ emailOf[r[i].call] \in front
             \/ i > 1 /\ r[i - 1] = Auth!Notice(emailOf[r[i].call])
  <2>1. CASE i = n + 1
    <3>1. r[i].call = c /\ i > 1 /\ i - 1 = n /\ n \in 1 .. n
      BY <1>1, <1>2, <1>4, <2>1
    <3> QED  BY <1>2, <1>4, <3>1
  <2>2. CASE i # n + 1
    <3>1. i \in 1 .. n /\ (i > 1 => i - 1 \in 1 .. n)
      BY <1>2, <2>2
    <3>2. \/ i = 1 /\ emailOf[p[i].call] \in front
          \/ i > 1 /\ p[i - 1] = Auth!Notice(emailOf[p[i].call])
      BY <1>3, <1>4, <1>5, <3>1 DEF FollowsNotice, n
    <3> QED  BY <1>4, <3>1, <3>2
  <2> QED  BY <2>1, <2>2
<1> QED  BY <1>4, <1>5 DEF FollowsNotice, r, p

(* The oldest block leaves.  When it was a notification, its user may be   *)
(* the one of the next block.                                              *)
LEMMA NoticeTail ==
    ASSUME NEW q \in Seq(Items), q # <<>>, NEW emailOf, NEW front, NEW back,
           FollowsNotice(q, emailOf, front),
           Head(q).type = "notice" =>
              \A c \in Calls : emailOf[c] = Head(q).user => emailOf[c] \in back
    PROVE  FollowsNotice(Tail(q), emailOf, back)
<1> DEFINE r == Tail(q)
           n == Len(q) - 1
<1>1. /\ n \in Nat
      /\ Len(r) = n
      /\ Len(q) = n + 1
      /\ \A i \in 1 .. n : r[i] = q[i + 1]
      /\ Head(q) = q[1]
      /\ \A i \in 1 .. n + 1 : q[i] \in Items
  BY TailShape
<1> HIDE DEF r, n
<1>2. ASSUME NEW i \in 1 .. n, r[i].type = "reply", r[i].answer = "ok"
      PROVE  \/ i = 1 /\ emailOf[r[i].call] \in back
             \/ i > 1 /\ r[i - 1] = Auth!Notice(emailOf[r[i].call])
  <2>1. /\ i + 1 \in 1 .. n + 1 /\ i + 1 > 1 /\ (i + 1) - 1 = i
        /\ r[i] = q[i + 1]
    BY <1>1, <1>2
  <2>2. q[(i + 1) - 1] = Auth!Notice(emailOf[q[i + 1].call])
    BY <1>1, <1>2, <2>1 DEF FollowsNotice
  <2>3. q[i] = Auth!Notice(emailOf[r[i].call])
    BY <2>1, <2>2
  <2>4. CASE i = 1
    <3>1. r[i].call \in Calls
      BY <1>1, <1>2, <2>1, ItemsTyped
    <3>2. Head(q) = Auth!Notice(emailOf[r[i].call])
      BY <1>1, <2>3, <2>4
    <3>3. Head(q).type = "notice" /\ Head(q).user = emailOf[r[i].call]
      BY <3>2, Fields
    <3> QED  BY <2>4, <3>1, <3>3
  <2>5. CASE i # 1
    <3>1. PICK k \in 1 .. n : k + 1 = i /\ k = i - 1
      <4>1. i - 1 \in 1 .. n /\ (i - 1) + 1 = i
        BY <1>1, <2>5
      <4> QED  BY <4>1
    <3>2. r[k] = q[i]
      BY <1>1, <3>1
    <3> QED  BY <2>3, <2>5, <3>1, <3>2
  <2> QED  BY <2>4, <2>5
<1> QED  BY <1>1, <1>2 DEF FollowsNotice, r

(* The emails of other calls do not matter.                                *)
LEMMA NoticeKept ==
    ASSUME NEW q \in Seq(Items), NEW emailOf, NEW emailsOf, NEW front, NEW back,
           FollowsNotice(q, emailOf, front),
           front \subseteq back,
           \A c \in Calls :
              Auth!Reply(c, "ok") \in ToSet(q) => emailOf[c] = emailsOf[c]
    PROVE  FollowsNotice(q, emailsOf, back)
<1>1. ASSUME NEW i \in 1 .. Len(q), q[i].type = "reply", q[i].answer = "ok"
      PROVE  emailOf[q[i].call] = emailsOf[q[i].call]
  <2>1. q[i].call \in Calls /\ q[i] = Auth!Reply(q[i].call, "ok")
    BY <1>1, ItemsTyped
  <2>2. q[i] \in ToSet(q)
    BY DEF ToSet
  <2> QED  BY <2>1, <2>2
<1> QED  BY <1>1 DEF FollowsNotice

-----------------------------------------------------------------------------
(* What a step leaves alone                                                *)

LEMMA Sets ==
    /\ Store!Owners = Users /\ Auth!Users = Users
    /\ Auth!Answers = Answers /\ Store!Answers = Answers
    /\ "ok" \in Answers /\ "failed" \in Answers
    /\ NoUser \in Users /\ Emails \subseteq Users
BY DEF Store!Owners, Auth!Users, Users, Auth!Answers, Store!Answers, Answers

LEMMA Typed ==
    ASSUME TypeOK
    PROVE  /\ mainQueue \in Seq(Items)
           /\ worker \in Seq(Store!Blocks)
           /\ mutations \in [Users -> Seq(Calls)]
           /\ callbacks \in [Users -> SUBSET Calls]
           /\ issued \subseteq Calls /\ applied \subseteq Calls
           /\ abandoned \subseteq Calls /\ builders \subseteq Calls
           /\ calls \in [Calls -> Auth!CallRecords]
           /\ told \in [Calls -> Seq(Answers)]
           /\ accounts \subseteq Emails
           /\ currentUser \in Users /\ credential \in Users
BY Sets DEF TypeOK, Items, Users

(* A call that was made has an operation and an email.                     *)
LEMMA MadeCall ==
    ASSUME TypeOK, NEW c \in Calls, calls[c].stage # "idle"
    PROVE  calls[c] \in [op : Auth!Ops, email : Emails,
                         stage : Auth!Stages \ {"idle"}]
BY Typed DEF Auth!CallRecords, Auth!IdleCall

LEMMA Moved ==
    ASSUME TypeOK, NEW c \in Calls, calls[c].stage # "idle",
           NEW stage \in Auth!Stages \ {"idle"}, Auth!MoveTo(c, stage)
    PROVE  \E r \in Auth!CallRecords :
              /\ calls' = [calls EXCEPT ![c] = r]
              /\ r.stage = stage
              /\ r.op = calls[c].op
              /\ r.email = calls[c].email
<1> DEFINE r == [calls[c] EXCEPT !.stage = stage]
<1>1. r \in [op : Auth!Ops, email : Emails, stage : Auth!Stages \ {"idle"}]
  BY MadeCall
<1>2. r \in Auth!CallRecords
  BY <1>1 DEF Auth!CallRecords
<1>3. calls' = [calls EXCEPT ![c] = r]
  BY DEF Auth!MoveTo
<1>4. r.stage = stage /\ r.op = calls[c].op /\ r.email = calls[c].email
  BY MadeCall
<1> QED  BY <1>2, <1>3, <1>4

(* No profile write moves.                                                 *)
PlacesStay ==
    /\ callbacks' = callbacks /\ issued' = issued /\ applied' = applied
    /\ \A c \in Calls :
          /\ InWorker(c)' <=> InWorker(c)
          /\ \A u \in Users : Queued(c, u)' <=> Queued(c, u)
          /\ \A a \in Answers :
                Store!Written(c, a) \in ToSet(mainQueue')
                   <=> Store!Written(c, a) \in ToSet(mainQueue)

LEMMA SettlingKept == PlacesStay => \A c \in Calls : Settling(c)' <=> Settling(c)
BY DEF PlacesStay, Settling

LEMMA PlacesKept ==
    ASSUME TypeOK, OnePlace, PlacesStay
    PROVE  OnePlace'
<1> USE SettlingKept, Sets
<1>t. callbacks \in [Users -> SUBSET Calls]
  BY Typed
<1>1. applied' \subseteq issued'
  BY DEF PlacesStay, OnePlace
<1>2. \A c \in Calls : InWorker(c)' =>
         c \in issued' /\ ~Settling(c)' /\ \A u \in Users : ~Queued(c, u)'
  BY DEF PlacesStay, OnePlace
<1>3. \A c \in Calls : \A u \in Users : Queued(c, u)' =>
         /\ c \in issued' /\ ~Settling(c)'
         /\ \A v \in Users : Queued(c, v)' => u = v
  BY DEF PlacesStay, OnePlace
<1>4. \A c \in Calls : Settling(c)' => c \in issued'
  BY DEF PlacesStay, OnePlace
<1>5. \A u \in Users : \A c \in callbacks'[u] : Queued(c, u)'
  BY <1>t DEF PlacesStay, OnePlace
<1>6. \A c \in Calls :
         Store!Written(c, "ok") \in ToSet(mainQueue') => c \in applied'
  BY DEF PlacesStay, OnePlace
<1> QED  BY <1>1, <1>2, <1>3, <1>4, <1>5, <1>6 DEF OnePlace

LEMMA UntoldKept ==
    ASSUME Untold, PlacesStay, told' = told,
           \A c \in Calls : calls'[c].stage # "answered" =>
              calls[c].stage # "answered" \/ told[c] = <<>>
    PROVE  Untold'
<1> USE SettlingKept
<1>1. ASSUME NEW c \in Calls,
             \/ calls'[c].stage # "answered"
             \/ InWorker(c)'
             \/ Settling(c)'
             \/ \E u \in Users : Queued(c, u)'
      PROVE  told'[c] = <<>>
  <2>1. CASE calls'[c].stage # "answered"
    BY <2>1 DEF Untold
  <2>2. CASE InWorker(c)' \/ Settling(c)' \/ \E u \in Users : Queued(c, u)'
    BY <2>2 DEF Untold, PlacesStay
  <2> QED  BY <1>1, <2>1, <2>2
<1> QED  BY <1>1 DEF Untold

LEMMA BereftKept ==
    ASSUME TypeOK, Bereft, PlacesStay, abandoned' = abandoned,
           \A c \in abandoned : calls'[c].stage = calls[c].stage
    PROVE  Bereft'
<1>1. abandoned \subseteq Calls
  BY Typed
<1> QED  BY <1>1, SettlingKept DEF Bereft, PlacesStay

LEMMA EarnedKept ==
    ASSUME Earned, issued' = issued, accounts' = accounts, made' = made,
           calls' = calls,
           \A c \in Calls : \A a \in Answers :
              Auth!Reply(c, a) \in ToSet(mainQueue')
                 => Auth!Reply(c, a) \in ToSet(mainQueue)
    PROVE  Earned'
BY Sets DEF Earned, HasAccount, Replying

(* The user of each write stays what it was.                               *)
LEMMA KnowsKept ==
    ASSUME TypeOK, OnePlace, WorkerKnows, ProfileFiledUnderOwner,
           UNCHANGED <<created, credential, worker, syncUser, mutations,
                       builders>>,
           \A c \in issued : calls'[c].email = calls[c].email
    PROVE  WorkerKnows' /\ ProfileFiledUnderOwner'
<1>1. \A c \in Calls : Store!Write(c) \in ToSet(worker) =>
         \A u \in Users : <<c, u>> \in Mine => <<c, u>> \in Mine'
  BY DEF Mine, OnePlace, InWorker
<1>2. worker \in Seq(Store!Blocks)
  BY Typed
<1>3. Owned(worker, syncUser, Mine')
  BY <1>1, <1>2, OwnedKept DEF WorkerKnows
<1>4. WorkerKnows'
  BY <1>3 DEF WorkerKnows
<1>5. \A u \in Users : ToSet(mutations[u]) \subseteq Calls
  BY Typed DEF ToSet
<1>6. ProfileFiledUnderOwner'
  BY <1>5, Sets DEF ProfileFiledUnderOwner, OnePlace, Queued
<1> QED  BY <1>4, <1>6

-----------------------------------------------------------------------------
(* What a step adds to the main queue                                      *)

LEMMA Joins ==
    ASSUME NEW q \in Seq(Items), NEW m \in Items
    PROVE  /\ Append(q, m) \in Seq(Items)
           /\ ToSet(Append(q, m)) = ToSet(q) \cup {m}
BY ToSetOfAppend

LEMMA NoticeJoins ==
    ASSUME NEW q \in Seq(Items), NoTwins(q), NEW u \in Users
    PROVE  /\ NoTwins(Append(q, Auth!Notice(u)))
           /\ \A c \in Calls : \A a \in Answers :
                 /\ Auth!Reply(c, a) \in ToSet(Append(q, Auth!Notice(u)))
                       <=> Auth!Reply(c, a) \in ToSet(q)
                 /\ Store!Written(c, a) \in ToSet(Append(q, Auth!Notice(u)))
                       <=> Store!Written(c, a) \in ToSet(q)
<1>1. Auth!Notice(u) \in Items /\ Auth!Notice(u).type = "notice"
  BY ItemsTyped, Fields
<1>2. \A n : ~Twins(n, Auth!Notice(u)) /\ ~Twins(Auth!Notice(u), n)
  BY <1>1 DEF Twins
<1>3. NoTwins(Append(q, Auth!Notice(u)))
  BY <1>1, <1>2, TwinsAppend
<1>4. ToSet(Append(q, Auth!Notice(u))) = ToSet(q) \cup {Auth!Notice(u)}
  BY <1>1, Joins
<1>5. \A c, a : /\ Auth!Reply(c, a) # Auth!Notice(u)
                /\ Store!Written(c, a) # Auth!Notice(u)
  BY Fields
<1> QED  BY <1>3, <1>4, <1>5

LEMMA ReplyJoins ==
    ASSUME NEW q \in Seq(Items), NoTwins(q), NEW d \in Calls, NEW b \in Answers,
           \A a \in Answers : Auth!Reply(d, a) \notin ToSet(q)
    PROVE  /\ NoTwins(Append(q, Auth!Reply(d, b)))
           /\ \A c \in Calls : \A a \in Answers :
                 /\ Auth!Reply(c, a) \in ToSet(Append(q, Auth!Reply(d, b)))
                       <=> \/ Auth!Reply(c, a) \in ToSet(q)
                           \/ c = d /\ a = b
                 /\ Store!Written(c, a) \in ToSet(Append(q, Auth!Reply(d, b)))
                       <=> Store!Written(c, a) \in ToSet(q)
<1> DEFINE m == Auth!Reply(d, b)
<1>1. m \in Items /\ m.type = "reply" /\ m.call = d /\ m.answer = b
  BY ItemsTyped, Fields
<1>2. ASSUME NEW n \in ToSet(q) PROVE ~Twins(n, m) /\ ~Twins(m, n)
  <2>1. n \in Items
    BY DEF ToSet
  <2>2. n.type = "reply" => n.call # d
    BY <2>1, ItemsTyped
  <2> QED  BY <1>1, <2>2 DEF Twins
<1>3. NoTwins(Append(q, m))
  BY <1>1, <1>2, TwinsAppend
<1>4. ToSet(Append(q, m)) = ToSet(q) \cup {m}
  BY <1>1, Joins
<1>5. \A c, a : /\ Auth!Reply(c, a) = m <=> c = d /\ a = b
                /\ Store!Written(c, a) # m
  BY Fields
<1> QED  BY <1>3, <1>4, <1>5

LEMMA WrittenJoins ==
    ASSUME NEW q \in Seq(Items), NoTwins(q), NEW d \in Calls, NEW b \in Answers,
           \A a \in Answers : Store!Written(d, a) \notin ToSet(q)
    PROVE  /\ NoTwins(Append(q, Store!Written(d, b)))
           /\ \A c \in Calls : \A a \in Answers :
                 /\ Store!Written(c, a) \in ToSet(Append(q, Store!Written(d, b)))
                       <=> \/ Store!Written(c, a) \in ToSet(q)
                           \/ c = d /\ a = b
                 /\ Auth!Reply(c, a) \in ToSet(Append(q, Store!Written(d, b)))
                       <=> Auth!Reply(c, a) \in ToSet(q)
<1> DEFINE m == Store!Written(d, b)
<1>1. m \in Items /\ m.type = "written" /\ m.write = d /\ m.answer = b
  BY ItemsTyped, Fields
<1>2. ASSUME NEW n \in ToSet(q) PROVE ~Twins(n, m) /\ ~Twins(m, n)
  <2>1. n \in Items
    BY DEF ToSet
  <2>2. n.type = "written" => n.write # d
    BY <2>1, ItemsTyped
  <2> QED  BY <1>1, <2>2 DEF Twins
<1>3. NoTwins(Append(q, m))
  BY <1>1, <1>2, TwinsAppend
<1>4. ToSet(Append(q, m)) = ToSet(q) \cup {m}
  BY <1>1, Joins
<1>5. \A c, a : /\ Store!Written(c, a) = m <=> c = d /\ a = b
                /\ Auth!Reply(c, a) # m
  BY Fields
<1> QED  BY <1>3, <1>4, <1>5

-----------------------------------------------------------------------------
(* Steps of the session                                                    *)

(* A step that changes the session at most, and announces that at most.    *)
LEMMA QuietStep ==
    ASSUME ServiceInv,
           UNCHANGED <<accounts, calls, heard, storeOnly, told, abandoned, made,
                       builders, restarts>>,
           \/ mainQueue' = mainQueue
           \/ \E u \in Users : mainQueue' = Append(mainQueue, Auth!Notice(u)),
           currentUser' \in Users, keychain' \in Users,
           loader' \in Auth!Loaders
    PROVE  ServiceInv'
<1> USE DEF storeOnly
<1>t. /\ TypeOK /\ OnceEach /\ AccountsMade /\ Earned /\ OnePlace /\ Untold
      /\ Bereft /\ WorkerKnows /\ Announced /\ ProfileFiledUnderOwner
      /\ ToldOnce
  BY DEF ServiceInv
<1>q. mainQueue \in Seq(Items) /\ NoTwins(mainQueue)
  BY <1>t, Typed DEF OnceEach
<1>1. /\ mainQueue' \in Seq(Items)
      /\ NoTwins(mainQueue')
      /\ \A c \in Calls : \A a \in Answers :
            /\ Auth!Reply(c, a) \in ToSet(mainQueue')
                  <=> Auth!Reply(c, a) \in ToSet(mainQueue)
            /\ Store!Written(c, a) \in ToSet(mainQueue')
                  <=> Store!Written(c, a) \in ToSet(mainQueue)
      /\ FollowsNotice(mainQueue', EmailOf, HeardLast)
  <2>1. CASE mainQueue' = mainQueue
    BY <1>t, <1>q, <2>1 DEF Announced
  <2>2. ASSUME NEW u \in Users, mainQueue' = Append(mainQueue, Auth!Notice(u))
        PROVE  <1>1!1 /\ <1>1!2 /\ <1>1!3 /\ <1>1!4
    <3>1. Auth!Notice(u) \in Items /\ Auth!Notice(u).type = "notice"
      BY ItemsTyped, Fields
    <3>2. <1>1!4
      BY <1>t, <1>q, <2>2, <3>1, NoticeAppend DEF Announced
    <3> QED  BY <1>q, <2>2, <3>1, <3>2, NoticeJoins, Joins
  <2> QED  BY <2>1, <2>2
<1>2. PlacesStay
  BY <1>1 DEF PlacesStay, InWorker, Queued
<1>3. TypeOK'
  BY <1>t, <1>1 DEF TypeOK, Items, Users
<1>4. OnceEach'
  BY <1>t, <1>1 DEF OnceEach
<1>5. AccountsMade' /\ Earned'
  BY <1>t, <1>1, EarnedKept DEF AccountsMade
<1>6. OnePlace' /\ Untold' /\ Bereft'
  BY <1>t, <1>2, PlacesKept, UntoldKept, BereftKept
<1>7. WorkerKnows' /\ ProfileFiledUnderOwner'
  BY <1>t, KnowsKept
<1>8. Announced'
  BY <1>1 DEF Announced, EmailOf, HeardLast
<1>9. ToldOnce'
  BY <1>t DEF ToldOnce
<1> QED  BY <1>3, <1>4, <1>5, <1>6, <1>7, <1>8, <1>9 DEF ServiceInv

LEMMA SessionSteps ==
    ASSUME ServiceInv,
           \/ signOut
           \/ /\ \/ Auth!LoadSavedUser
                 \/ Auth!LoadFails
                 \/ Auth!ProtectedDataDidBecomeAvailable
                 \/ Auth!RefreshToken
                 \/ Auth!RevokeSession
              /\ UNCHANGED <<storeOnly, told, abandoned, made, builders>>
    PROVE  ServiceInv'
<1>t. /\ currentUser \in Users /\ keychain \in Users /\ NoUser \in Users
      /\ loader \in Auth!Loaders
      /\ \A l \in {"waiting", "reloading", "done"} : l \in Auth!Loaders
  BY Sets DEF ServiceInv, TypeOK, Users, Auth!Loaders
<1>1. CASE signOut
  BY <1>1, <1>t, QuietStep DEF signOut, Auth!SignOut
<1>s. ASSUME UNCHANGED <<storeOnly, told, abandoned, made, builders>>,
             \/ Auth!LoadSavedUser
             \/ Auth!LoadFails
             \/ Auth!ProtectedDataDidBecomeAvailable
             \/ Auth!RefreshToken
             \/ Auth!RevokeSession
      PROVE  ServiceInv'
  <2>1. CASE Auth!LoadSavedUser
    BY <1>s, <2>1, <1>t, QuietStep DEF Auth!LoadSavedUser, Auth!PostIfChanged
  <2>2. CASE Auth!LoadFails
    BY <1>s, <2>2, <1>t, QuietStep DEF Auth!LoadFails
  <2>3. CASE Auth!ProtectedDataDidBecomeAvailable
    BY <1>s, <2>3, <1>t, QuietStep DEF Auth!ProtectedDataDidBecomeAvailable
  <2>4. CASE Auth!RefreshToken
    BY <1>s, <2>4, <1>t, QuietStep DEF Auth!RefreshToken
  <2>5. CASE Auth!RevokeSession
    BY <1>s, <2>5, <1>t, QuietStep DEF Auth!RevokeSession
  <2> QED  BY <1>s, <2>1, <2>2, <2>3, <2>4, <2>5
<1> QED  BY <1>1, <1>s

-----------------------------------------------------------------------------
(* Steps of one call                                                       *)

Early == {"idle", "sent", "granted", "refused"}
Going == {"sent", "granted", "refused", "replying"}

(* Before it is answered, a call is nowhere else.                          *)
LEMMA EarlyCall ==
    ASSUME ServiceInv, NEW c \in Calls, calls[c].stage # "answered"
    PROVE  /\ c \notin issued /\ c \notin applied
           /\ told[c] = <<>>
           /\ ~InWorker(c) /\ ~Settling(c)
           /\ \A u \in Users : ~Queued(c, u)
           /\ calls[c].stage # "replying" =>
                 \A a \in Answers : ~Replying(c, a)
           /\ calls[c].stage # "lost" => c \notin abandoned
<1>t. /\ TypeOK /\ Earned /\ OnePlace /\ Untold /\ Bereft
  BY DEF ServiceInv
<1>1. c \notin issued
  BY <1>t DEF Earned
<1>2. c \notin applied /\ ~InWorker(c) /\ ~Settling(c)
  BY <1>t, <1>1 DEF OnePlace
<1>3. \A u \in Users : ~Queued(c, u)
  BY <1>t, <1>1 DEF OnePlace
<1>4. told[c] = <<>>
  BY <1>t DEF Untold
<1>5. calls[c].stage # "replying" => \A a \in Answers : ~Replying(c, a)
  BY <1>t DEF Earned
<1>6. calls[c].stage # "lost" => c \notin abandoned
  BY <1>t DEF Bereft
<1> QED  BY <1>1, <1>2, <1>3, <1>4, <1>5, <1>6

(* A call goes a stage further, before it is answered.                     *)
LEMMA CallMoves ==
    ASSUME ServiceInv, NEW c \in Calls, calls[c].stage \in Early,
           NEW r \in Auth!CallRecords, r.stage \in Going,
           calls' = [calls EXCEPT ![c] = r],
           UNCHANGED <<storeOnly, told, abandoned, builders>>,
           \A d \in Calls : \A a \in Answers :
              Store!Written(d, a) \in ToSet(mainQueue')
                 <=> Store!Written(d, a) \in ToSet(mainQueue)
    PROVE  /\ calls' \in [Calls -> Auth!CallRecords]
           /\ calls'[c] = r
           /\ \A d \in Calls : d # c => calls'[d] = calls[d]
           /\ OnePlace' /\ Untold' /\ Bereft' /\ ToldOnce'
           /\ WorkerKnows' /\ ProfileFiledUnderOwner'
           /\ FollowsNotice(mainQueue, EmailOf', HeardLast')
<1> USE DEF storeOnly
<1>t. /\ TypeOK /\ OnePlace /\ Untold /\ Bereft /\ WorkerKnows /\ Announced
      /\ ProfileFiledUnderOwner /\ ToldOnce
  BY DEF ServiceInv
<1>e. /\ c \notin issued /\ told[c] = <<>> /\ c \notin abandoned
      /\ \A a \in Answers : ~Replying(c, a)
  BY EarlyCall DEF Early
<1>1. /\ calls' \in [Calls -> Auth!CallRecords]
      /\ calls'[c] = r
      /\ \A d \in Calls : d # c => calls'[d] = calls[d]
  BY <1>t, Typed
<1>2. PlacesStay
  BY DEF PlacesStay, InWorker, Queued
<1>3. OnePlace'
  BY <1>t, <1>2, PlacesKept
<1>4. Untold'
  BY <1>t, <1>e, <1>1, <1>2, UntoldKept
<1>5. Bereft'
  BY <1>t, <1>e, <1>1, <1>2, BereftKept, Typed
<1>6. WorkerKnows' /\ ProfileFiledUnderOwner'
  <2>1. \A d \in issued : calls'[d].email = calls[d].email
    BY <1>t, <1>e, <1>1, Typed
  <2> QED  BY <1>t, <2>1, KnowsKept
<1>7. FollowsNotice(mainQueue, EmailOf', HeardLast')
  <2>1. \A d \in Calls : Auth!Reply(d, "ok") \in ToSet(mainQueue) =>
           EmailOf[d] = EmailOf'[d]
    <3>1. ASSUME NEW d \in Calls, Auth!Reply(d, "ok") \in ToSet(mainQueue)
          PROVE  calls'[d] = calls[d]
      BY <1>e, <1>1, <3>1, Sets DEF Replying
    <3> QED  BY <3>1 DEF EmailOf
  <2>2. HeardLast' = HeardLast
    BY DEF HeardLast
  <2>3. mainQueue \in Seq(Items)
    BY <1>t, Typed
  <2> QED  BY <1>t, <2>1, <2>2, <2>3, NoticeKept DEF Announced
<1>8. ToldOnce'
  BY <1>t DEF ToldOnce
<1> QED  BY <1>1, <1>3, <1>4, <1>5, <1>6, <1>7, <1>8

(* A screen starts a call.                                                 *)
LEMMA InvokeStep ==
    ASSUME ServiceInv, NEW c \in Calls, NEW e \in Emails, NEW op \in Auth!Ops,
           Start(c, op, e)
    PROVE  ServiceInv'
<1> DEFINE r == [op |-> op, email |-> e, stage |-> "sent"]
<1> USE DEF Start, storeOnly
<1>t. TypeOK /\ OnceEach /\ AccountsMade /\ Earned
  BY DEF ServiceInv
<1>1. /\ calls[c].stage = "idle" /\ calls' = [calls EXCEPT ![c] = r]
      /\ UNCHANGED <<accounts, currentUser, keychain, loader, mainQueue, heard,
                     restarts, made>>
  BY DEF Auth!Invoke, Auth!At
<1>2. r \in Auth!CallRecords /\ r.stage = "sent"
  BY DEF Auth!CallRecords, Auth!Stages
<1> HIDE DEF r
<1>3. /\ calls' \in [Calls -> Auth!CallRecords]
      /\ calls'[c] = r
      /\ \A d \in Calls : d # c => calls'[d] = calls[d]
      /\ OnePlace' /\ Untold' /\ Bereft' /\ ToldOnce'
      /\ WorkerKnows' /\ ProfileFiledUnderOwner'
      /\ FollowsNotice(mainQueue, EmailOf', HeardLast')
  BY <1>1, <1>2, CallMoves DEF Early, Going
<1>4. Announced'
  BY <1>1, <1>3 DEF Announced
<1>5. TypeOK'
  BY <1>t, <1>1, <1>3 DEF TypeOK
<1>6. OnceEach' /\ AccountsMade'
  BY <1>t, <1>1 DEF OnceEach, AccountsMade
<1>7. Earned'
  <2>1. /\ c \notin issued
        /\ \A a \in Answers : ~Replying(c, a)
    BY <1>1, EarlyCall
  <2>2. \A d \in Calls : \A a \in Answers : Replying(d, a)' <=> Replying(d, a)
    BY <1>1 DEF Replying
  <2> QED
    BY <1>t, <1>1, <1>2, <1>3, <2>1, <2>2, Typed, Sets DEF Earned, HasAccount
<1> QED  BY <1>3, <1>4, <1>5, <1>6, <1>7 DEF ServiceInv

(* The identity backend grants a call: the account exists from now on.     *)
LEMMA GrantStep ==
    ASSUME ServiceInv, NEW c \in Calls, Grant(c)
    PROVE  ServiceInv'
<1> USE DEF Grant, storeOnly
<1>t. TypeOK /\ OnceEach /\ AccountsMade /\ Earned
  BY DEF ServiceInv
<1>1. /\ calls[c].stage = "sent" /\ Auth!MoveTo(c, "granted")
      /\ (calls[c].op = "register") <=> (calls[c].email \notin accounts)
      /\ accounts' = accounts \cup {calls[c].email}
      /\ UNCHANGED <<currentUser, keychain, loader, mainQueue, heard, restarts>>
  BY DEF Auth!BackendGrants, Auth!At
<1>e. calls[c].email \in Emails
  BY <1>t, <1>1, MadeCall
<1>2. PICK r \in Auth!CallRecords :
         /\ calls' = [calls EXCEPT ![c] = r]
         /\ r.stage = "granted" /\ r.op = calls[c].op
         /\ r.email = calls[c].email
  BY <1>t, <1>1, Moved DEF Auth!Stages
<1>3. /\ calls' \in [Calls -> Auth!CallRecords]
      /\ calls'[c] = r
      /\ \A d \in Calls : d # c => calls'[d] = calls[d]
      /\ OnePlace' /\ Untold' /\ Bereft' /\ ToldOnce'
      /\ WorkerKnows' /\ ProfileFiledUnderOwner'
      /\ FollowsNotice(mainQueue, EmailOf', HeardLast')
  BY <1>1, <1>2, CallMoves DEF Early, Going
<1>4. Announced'
  BY <1>1, <1>3 DEF Announced
<1>m. made \in [Emails -> Calls \cup {Nobody, Earlier}] /\ Nobody \notin Calls
  BY <1>t, MarkersAssumption DEF TypeOK
<1>5. /\ made' \in [Emails -> Calls \cup {Nobody, Earlier}]
      /\ calls[c].op = "register" => made'[calls[c].email] = c
      /\ \A e \in Emails : made'[e] # made[e] =>
            /\ e = calls[c].email /\ made'[e] = c
            /\ e \notin accounts
  BY <1>1, <1>e, <1>m
<1>6. TypeOK'
  BY <1>t, <1>1, <1>e, <1>3, <1>5 DEF TypeOK
<1>7. OnceEach'
  BY <1>t, <1>1 DEF OnceEach
<1>8. AccountsMade'
  <2>1. ASSUME NEW e \in Emails PROVE e \in accounts' <=> made'[e] # Nobody
    <3>1. CASE e = calls[c].email
      BY <1>t, <1>1, <1>5, <1>m, <3>1 DEF AccountsMade
    <3>2. CASE e # calls[c].email
      BY <1>t, <1>1, <1>5, <3>2 DEF AccountsMade
    <3> QED  BY <3>1, <3>2
  <2> QED  BY <2>1 DEF AccountsMade
<1>9. Earned'
  <2>1. /\ c \notin issued
        /\ \A a \in Answers : ~Replying(c, a)
    BY <1>1, EarlyCall
  <2>2. \A d \in Calls : \A a \in Answers : Replying(d, a)' <=> Replying(d, a)
    BY <1>1 DEF Replying
  <2>3. HasAccount(c)'
    BY <1>1, <1>2, <1>3, <1>5 DEF HasAccount
  <2>4. ASSUME NEW d \in Calls, d # c, HasAccount(d) PROVE HasAccount(d)'
    <3>1. calls[d].email \in Emails /\ calls'[d] = calls[d]
      BY <1>t, <1>3, <2>4, Typed DEF HasAccount
    <3>2. made'[calls[d].email] = made[calls[d].email]
      BY <1>5, <2>4, <3>1 DEF HasAccount
    <3> QED  BY <1>1, <2>4, <3>1, <3>2 DEF HasAccount
  <2>5. \A d \in Calls : \A a \in Answers :
           Replying(d, a)' => calls'[d].stage = "replying"
    BY <1>t, <1>3, <2>1, <2>2 DEF Earned
  <2>6. \A d \in Calls :
           calls'[d].stage = "granted" \/ Replying(d, "ok")' => HasAccount(d)'
    BY <1>t, <1>3, <2>1, <2>2, <2>3, <2>4, Sets DEF Earned
  <2>7. \A d \in issued' : /\ calls'[d].stage = "answered"
                           /\ calls'[d].op = "register"
                           /\ HasAccount(d)'
    BY <1>t, <1>3, <2>1, <2>4, Typed DEF Earned
  <2> QED  BY <2>5, <2>6, <2>7 DEF Earned
<1> QED  BY <1>3, <1>4, <1>6, <1>7, <1>8, <1>9 DEF ServiceInv

(* The accounts stay and no other call changes.                            *)
LEMMA AccountsStay ==
    ASSUME TypeOK, AccountsMade, NEW c \in Calls,
           accounts' = accounts, made' = made,
           \A d \in Calls : d # c => calls'[d] = calls[d],
           calls'[c].op = calls[c].op, calls'[c].email = calls[c].email
    PROVE  /\ AccountsMade'
           /\ \A d \in Calls : HasAccount(d)' <=> HasAccount(d)
BY DEF AccountsMade, HasAccount

(* A call fails in the answer of the backend, before it is reported.       *)
LEMMA RefuseStep ==
    ASSUME ServiceInv, NEW c \in Calls, Auth!BackendRefuses(c),
           UNCHANGED <<storeOnly, told, abandoned, made, builders>>
    PROVE  ServiceInv'
<1>t. TypeOK /\ OnceEach /\ AccountsMade /\ Earned
  BY DEF ServiceInv
<1>1. /\ calls[c].stage = "sent" /\ Auth!MoveTo(c, "refused")
      /\ UNCHANGED <<accounts, currentUser, keychain, loader, mainQueue, heard,
                     restarts>>
  BY DEF Auth!BackendRefuses, Auth!At
<1>2. PICK r \in Auth!CallRecords :
         /\ calls' = [calls EXCEPT ![c] = r]
         /\ r.stage = "refused" /\ r.op = calls[c].op
         /\ r.email = calls[c].email
  BY <1>t, <1>1, Moved DEF Auth!Stages
<1>3. /\ calls' \in [Calls -> Auth!CallRecords]
      /\ calls'[c] = r
      /\ \A d \in Calls : d # c => calls'[d] = calls[d]
      /\ OnePlace' /\ Untold' /\ Bereft' /\ ToldOnce'
      /\ WorkerKnows' /\ ProfileFiledUnderOwner'
      /\ FollowsNotice(mainQueue, EmailOf', HeardLast')
  BY <1>1, <1>2, CallMoves DEF Early, Going
<1>4. Announced'
  BY <1>1, <1>3 DEF Announced
<1>5. TypeOK'
  BY <1>t, <1>1, <1>3 DEF TypeOK, storeOnly
<1>6. OnceEach'
  BY <1>t, <1>1 DEF OnceEach, storeOnly
<1>7. AccountsMade' /\ \A d \in Calls : HasAccount(d)' <=> HasAccount(d)
  BY <1>t, <1>1, <1>2, <1>3, AccountsStay
<1>8. Earned'
  <2>1. /\ c \notin issued /\ issued' = issued /\ issued \subseteq Calls
        /\ \A a \in Answers : ~Replying(c, a)
    BY <1>t, <1>1, EarlyCall, Typed DEF storeOnly
  <2>2. \A d \in Calls : \A a \in Answers : Replying(d, a)' <=> Replying(d, a)
    BY <1>1 DEF Replying
  <2> QED
    BY <1>t, <1>2, <1>3, <1>7, <2>1, <2>2, Sets DEF Earned
<1> QED  BY <1>3, <1>4, <1>5, <1>6, <1>7, <1>8 DEF ServiceInv

(* A call is answered: its completion block joins the main queue, after    *)
(* the notification when there is one.                                     *)
LEMMA ReplyStep ==
    ASSUME ServiceInv, NEW c \in Calls, NEW a \in Answers,
           calls[c].stage \in {"sent", "granted", "refused"},
           a = "ok" => calls[c].stage = "granted",
           Auth!MoveTo(c, "replying"),
           NEW q \in Seq(Items), NoTwins(q),
           \A d \in Calls : \A b \in Answers :
              /\ Auth!Reply(d, b) \in ToSet(q)
                    <=> Auth!Reply(d, b) \in ToSet(mainQueue)
              /\ Store!Written(d, b) \in ToSet(q)
                    <=> Store!Written(d, b) \in ToSet(mainQueue),
           mainQueue' = Append(q, Auth!Reply(c, a)),
           FollowsNotice(mainQueue, EmailOf', HeardLast')
              => FollowsNotice(mainQueue', EmailOf', HeardLast'),
           UNCHANGED <<accounts, loader, heard, restarts, storeOnly, told,
                       abandoned, made, builders>>,
           currentUser' \in Users, keychain' \in Users
    PROVE  ServiceInv'
<1>t. TypeOK /\ OnceEach /\ AccountsMade /\ Earned
  BY DEF ServiceInv
<1>e. /\ c \notin issued /\ \A b \in Answers : ~Replying(c, b)
  BY EarlyCall
<1>1. /\ Auth!Reply(c, a) \in Items
      /\ mainQueue' \in Seq(Items)
      /\ NoTwins(mainQueue')
      /\ \A d \in Calls : \A b \in Answers :
            /\ Auth!Reply(d, b) \in ToSet(mainQueue')
                  <=> \/ Auth!Reply(d, b) \in ToSet(mainQueue)
                      \/ d = c /\ b = a
            /\ Store!Written(d, b) \in ToSet(mainQueue')
                  <=> Store!Written(d, b) \in ToSet(mainQueue)
  <2>1. Auth!Reply(c, a) \in Items
    BY ItemsTyped
  <2>2. \A b \in Answers : Auth!Reply(c, b) \notin ToSet(q)
    BY <1>e DEF Replying
  <2> QED  BY <2>1, <2>2, Joins, ReplyJoins
<1>2. PICK r \in Auth!CallRecords :
         /\ calls' = [calls EXCEPT ![c] = r]
         /\ r.stage = "replying" /\ r.op = calls[c].op
         /\ r.email = calls[c].email
  BY <1>t, Moved DEF Auth!Stages
<1>3. /\ calls' \in [Calls -> Auth!CallRecords]
      /\ calls'[c] = r
      /\ \A d \in Calls : d # c => calls'[d] = calls[d]
      /\ OnePlace' /\ Untold' /\ Bereft' /\ ToldOnce'
      /\ WorkerKnows' /\ ProfileFiledUnderOwner'
      /\ FollowsNotice(mainQueue, EmailOf', HeardLast')
  BY <1>1, <1>2, CallMoves DEF Early, Going
<1>4. Announced'
  BY <1>3 DEF Announced
<1>5. TypeOK'
  BY <1>t, <1>1, <1>3 DEF TypeOK, storeOnly, Items, Users
<1>6. OnceEach'
  BY <1>t, <1>1 DEF OnceEach, storeOnly
<1>7. AccountsMade' /\ \A d \in Calls : HasAccount(d)' <=> HasAccount(d)
  BY <1>t, <1>2, <1>3, AccountsStay
<1>8. Earned'
  <2>1. issued' = issued /\ issued \subseteq Calls
    BY <1>t, Typed DEF storeOnly
  <2>2. \A d \in Calls : \A b \in Answers :
           Replying(d, b)' <=> Replying(d, b) \/ (d = c /\ b = a)
    BY <1>1 DEF Replying
  <2>3. calls[c].stage = "granted" => HasAccount(c)
    BY <1>t DEF Earned
  <2>4. \A d \in Calls : \A b \in Answers :
           Replying(d, b)' => calls'[d].stage = "replying"
    BY <1>t, <1>e, <1>2, <1>3, <2>2 DEF Earned
  <2>5. \A d \in Calls :
           calls'[d].stage = "granted" \/ Replying(d, "ok")' => HasAccount(d)'
    BY <1>t, <1>e, <1>2, <1>3, <1>7, <2>2, <2>3, Sets DEF Earned
  <2>6. \A d \in issued' : /\ calls'[d].stage = "answered"
                           /\ calls'[d].op = "register"
                           /\ HasAccount(d)'
    BY <1>t, <1>e, <1>3, <1>7, <2>1 DEF Earned
  <2> QED  BY <2>4, <2>5, <2>6 DEF Earned
<1> QED  BY <1>3, <1>4, <1>5, <1>6, <1>7, <1>8 DEF ServiceInv

LEMMA FailStep ==
    ASSUME ServiceInv, NEW c \in Calls, Auth!FailCall(c),
           UNCHANGED <<storeOnly, told, abandoned, made, builders>>
    PROVE  ServiceInv'
<1>t. TypeOK /\ OnceEach
  BY DEF ServiceInv
<1>q. mainQueue \in Seq(Items) /\ NoTwins(mainQueue)
  BY <1>t, Typed DEF OnceEach
<1>1. /\ calls[c].stage \in {"sent", "granted", "refused"}
      /\ Auth!MoveTo(c, "replying")
      /\ mainQueue' = Append(mainQueue, Auth!Reply(c, "failed"))
      /\ UNCHANGED <<accounts, currentUser, keychain, loader, heard, restarts>>
  BY DEF Auth!FailCall, Auth!At
<1>2. /\ Auth!Reply(c, "failed") \in Items
      /\ Auth!Reply(c, "failed").answer # "ok"
  BY ItemsTyped, Fields, Sets
<1>3. FollowsNotice(mainQueue, EmailOf', HeardLast')
         => FollowsNotice(mainQueue', EmailOf', HeardLast')
  BY <1>q, <1>1, <1>2, NoticeAppend
<1>4. currentUser' \in Users /\ keychain' \in Users
  BY <1>t, <1>1 DEF TypeOK, Users
<1> QED  BY <1>q, <1>1, <1>3, <1>4, Sets, ReplyStep

LEMMA CompleteStep ==
    ASSUME ServiceInv, NEW c \in Calls, Auth!CompleteSignIn(c),
           UNCHANGED <<storeOnly, told, abandoned, made, builders>>
    PROVE  ServiceInv'
<1> DEFINE u == calls[c].email
           q == Append(mainQueue, Auth!Notice(u))
<1>t. TypeOK /\ OnceEach
  BY DEF ServiceInv
<1>q. mainQueue \in Seq(Items) /\ NoTwins(mainQueue)
  BY <1>t, Typed DEF OnceEach
<1>1. /\ calls[c].stage = "granted"
      /\ Auth!MoveTo(c, "replying")
      /\ mainQueue' = Append(q, Auth!Reply(c, "ok"))
      /\ keychain' = u /\ currentUser' = u
      /\ UNCHANGED <<accounts, loader, heard, restarts>>
  BY DEF Auth!CompleteSignIn, Auth!At
<1>2. u \in Users
  BY <1>t, <1>1, MadeCall, Sets
<1>3. EmailOf'[c] = u
  BY <1>t, <1>1, Moved, Typed DEF EmailOf, Auth!Stages
<1>4. /\ q \in Seq(Items) /\ NoTwins(q)
      /\ \A d \in Calls : \A b \in Answers :
            /\ Auth!Reply(d, b) \in ToSet(q)
                  <=> Auth!Reply(d, b) \in ToSet(mainQueue)
            /\ Store!Written(d, b) \in ToSet(q)
                  <=> Store!Written(d, b) \in ToSet(mainQueue)
  BY <1>q, <1>2, NoticeJoins, Joins, ItemsTyped
<1>5. FollowsNotice(mainQueue, EmailOf', HeardLast')
         => FollowsNotice(mainQueue', EmailOf', HeardLast')
  <2>1. mainQueue' = Append(Append(mainQueue, Auth!Notice(EmailOf'[c])),
                            Auth!Reply(c, "ok"))
    BY <1>1, <1>3
  <2>2. EmailOf'[c] \in Users
    BY <1>2, <1>3
  <2> QED  BY <1>q, <2>1, <2>2, NoticeAndReply
<1> HIDE DEF q, u
<1> QED  BY <1>1, <1>2, <1>4, <1>5, Sets, ReplyStep

-----------------------------------------------------------------------------
(* Steps of the worker and of the Firestore backend                        *)

(* They leave the calls and the main queue's replies alone.                *)
LEMMA StoreFrame ==
    ASSUME ServiceInv,
           UNCHANGED <<authOnly, issued, created, credential, told, abandoned,
                       made, builders>>,
           \A c \in Calls : \A a \in Answers :
              Auth!Reply(c, a) \in ToSet(mainQueue')
                 => Auth!Reply(c, a) \in ToSet(mainQueue)
    PROVE  AccountsMade' /\ Earned' /\ ToldOnce' /\ Mine' = Mine
<1>t. AccountsMade /\ Earned /\ ToldOnce
  BY DEF ServiceInv
<1>u. /\ issued' = issued /\ accounts' = accounts /\ made' = made
      /\ calls' = calls /\ told' = told /\ builders' = builders
  BY DEF authOnly
<1>1. Earned'
  BY <1>t, <1>u, EarnedKept
<1>2. AccountsMade' /\ ToldOnce'
  BY <1>t, <1>u DEF AccountsMade, ToldOnce
<1>3. Mine' = Mine
  BY <1>u DEF Mine
<1> QED  BY <1>1, <1>2, <1>3

LEMMA AnnouncedStays ==
    ASSUME Announced, UNCHANGED <<calls, created, credential, mainQueue>>
    PROVE  Announced'
BY DEF Announced, EmailOf, HeardLast

(* The oldest block of the worker, and what is left when it has run.       *)
LEMMA WorkerHead ==
    ASSUME ServiceInv, worker # <<>>
    PROVE  /\ Head(worker) \in Store!Blocks /\ Head(worker) = worker[1]
           /\ Tail(worker) \in Seq(Store!Blocks)
           /\ ToSet(worker) = ToSet(Tail(worker)) \cup {Head(worker)}
           /\ NoTwins(Tail(worker))
           /\ \A n \in ToSet(Tail(worker)) : ~Twins(n, Head(worker))
<1>1. worker \in Seq(Store!Blocks) /\ NoTwins(worker)
  BY Typed DEF ServiceInv, OnceEach
<1> QED  BY <1>1, TailShape, ToSetOfTail, TwinsTail

LEMMA HandleCredentialStep ==
    ASSUME ServiceInv, Store!HandleCredential,
           UNCHANGED <<authOnly, told, abandoned, made, builders>>
    PROVE  ServiceInv'
<1>t. /\ TypeOK /\ OnceEach /\ OnePlace /\ Untold /\ Bereft /\ WorkerKnows
      /\ Announced /\ ProfileFiledUnderOwner
  BY DEF ServiceInv
<1>1. /\ worker # <<>> /\ Head(worker).type = "credential"
      /\ syncUser' = Head(worker).user /\ worker' = Tail(worker)
      /\ UNCHANGED <<created, credential, mutations, callbacks, applied, issued,
                     mainQueue, restarts>>
  BY DEF Store!HandleCredential
<1>u. calls' = calls
  BY DEF authOnly
<1>2. /\ Head(worker).user \in Users
      /\ Head(worker) = Store!Credential(Head(worker).user)
  BY <1>1, WorkerHead, BlocksTyped
<1>3. PlacesStay
  <2>1. \A c \in Calls : Store!Write(c) # Head(worker)
    BY <1>1, Fields
  <2>2. \A c \in Calls : InWorker(c)' <=> InWorker(c)
    BY <1>1, <2>1, WorkerHead DEF InWorker
  <2> QED  BY <1>1, <2>2 DEF PlacesStay, Queued
<1>4. OnePlace' /\ Untold' /\ Bereft'
  BY <1>t, <1>u, <1>3, PlacesKept, UntoldKept, BereftKept
<1>5. AccountsMade' /\ Earned' /\ ToldOnce' /\ Mine' = Mine
  BY <1>1, StoreFrame
<1>6. WorkerKnows'
  <2>1. worker \in Seq(Store!Blocks) /\ worker[1].type = "credential"
        /\ syncUser' = worker[1].user
    BY <1>t, <1>1, WorkerHead, Typed
  <2>2. /\ \A u : UserAfter(worker, syncUser, Len(worker), u)
                     => UserAfter(worker', syncUser', Len(worker'), u)
        /\ Owned(worker', syncUser', Mine)
    BY <1>t, <1>1, <2>1, OwnedTail DEF WorkerKnows
  <2> QED  BY <1>t, <1>1, <1>5, <2>2 DEF WorkerKnows
<1>7. Announced'
  BY <1>t, <1>u, <1>1, AnnouncedStays
<1>8. ProfileFiledUnderOwner'
  BY <1>t, <1>u, <1>1, Sets DEF ProfileFiledUnderOwner
<1>9. OnceEach'
  BY <1>t, <1>1, WorkerHead DEF OnceEach
<1>10. TypeOK'
  BY <1>t, <1>1, <1>2, WorkerHead DEF TypeOK, authOnly, Users
<1> QED
  BY <1>4, <1>5, <1>6, <1>7, <1>8, <1>9, <1>10 DEF ServiceInv

(* A write is filed under the engine's user, which is its own.             *)
LEMMA WriteStep ==
    ASSUME ServiceInv, Store!WriteMutations,
           UNCHANGED <<authOnly, told, abandoned, made, builders>>
    PROVE  ServiceInv'
<1>t. /\ TypeOK /\ OnceEach /\ OnePlace /\ Untold /\ Bereft /\ WorkerKnows
      /\ Announced /\ ProfileFiledUnderOwner
  BY DEF ServiceInv
<1>y. /\ worker \in Seq(Store!Blocks) /\ mutations \in [Users -> Seq(Calls)]
      /\ callbacks \in [Users -> SUBSET Calls]
  BY <1>t, Typed
<1>w. PICK w \in Calls :
         w = Head(worker).write /\ Head(worker) = Store!Write(w)
  BY WorkerHead, BlocksTyped DEF Store!WriteMutations
<1>1. /\ worker # <<>> /\ Head(worker).type = "write"
      /\ mutations' = [mutations EXCEPT ![syncUser] = Append(@, w)]
      /\ callbacks' = [callbacks EXCEPT ![syncUser] = @ \cup {w}]
      /\ worker' = Tail(worker)
      /\ UNCHANGED <<created, credential, syncUser, applied, issued, mainQueue,
                     restarts>>
  BY <1>w DEF Store!WriteMutations
<1>u. calls' = calls
  BY DEF authOnly
<1>2. w \in Calls /\ Head(worker) = Store!Write(w)
  BY <1>w
<1>3. syncUser \in Users /\ <<w, syncUser>> \in Mine
  BY <1>t, <1>w, <1>y, <1>1, WorkerHead, OwnedHead DEF WorkerKnows
<1>4. /\ InWorker(w) /\ ~InWorker(w)'
      /\ \A c \in Calls : c # w => (InWorker(c)' <=> InWorker(c))
  <2>1. \A c \in Calls : Store!Write(c) = Head(worker) <=> c = w
    BY <1>2, Fields
  <2>2. Store!Write(w) \notin ToSet(Tail(worker))
    <3>1. Twins(Store!Write(w), Head(worker))
      BY <1>2, Fields DEF Twins
    <3> QED  BY <1>1, <3>1, WorkerHead
  <2>3. /\ ToSet(worker) = ToSet(Tail(worker)) \cup {Head(worker)}
        /\ worker' = Tail(worker)
    BY <1>1, WorkerHead
  <2>4. InWorker(w) /\ ~InWorker(w)'
    BY <1>2, <2>2, <2>3 DEF InWorker
  <2>5. \A c \in Calls : c # w => (InWorker(c)' <=> InWorker(c))
    BY <2>1, <2>3 DEF InWorker
  <2> QED  BY <2>4, <2>5
<1>5. /\ mutations' \in [Users -> Seq(Calls)]
      /\ callbacks' \in [Users -> SUBSET Calls]
      /\ mutations'[syncUser] = Append(mutations[syncUser], w)
      /\ callbacks'[syncUser] = callbacks[syncUser] \cup {w}
      /\ \A u \in Users : u # syncUser =>
            mutations'[u] = mutations[u] /\ callbacks'[u] = callbacks[u]
  <2>1. mutations[syncUser] \in Seq(Calls)
    BY <1>y, <1>3
  <2>2. Append(mutations[syncUser], w) \in Seq(Calls)
    BY <1>2, <2>1
  <2>3. callbacks[syncUser] \cup {w} \in SUBSET Calls
    BY <1>y, <1>2, <1>3
  <2> QED  BY <1>y, <1>1, <1>3, <2>2, <2>3
<1>6. /\ \A c \in Calls : \A u \in Users :
            Queued(c, u)' <=> Queued(c, u) \/ (c = w /\ u = syncUser)
      /\ \A u \in Users : ~Queued(w, u)
      /\ ~Settling(w) /\ w \in issued
  <2>1. \A u \in Users : ~Queued(w, u)
    BY <1>t, <1>2, <1>4 DEF OnePlace
  <2>2. ToSet(mutations'[syncUser]) = ToSet(mutations[syncUser]) \cup {w}
    BY <1>y, <1>2, <1>3, <1>5, ToSetOfAppend
  <2>3. ASSUME NEW c \in Calls, NEW u \in Users
        PROVE  Queued(c, u)' <=> Queued(c, u) \/ (c = w /\ u = syncUser)
    <3>1. CASE u = syncUser
      BY <2>2, <3>1 DEF Queued
    <3>2. CASE u # syncUser
      BY <1>5, <3>2 DEF Queued
    <3> QED  BY <3>1, <3>2
  <2>4. ~Settling(w) /\ w \in issued
    BY <1>t, <1>2, <1>4 DEF OnePlace
  <2> QED  BY <2>1, <2>3, <2>4
<1>7. \A c \in Calls : Settling(c)' <=> Settling(c)
  BY <1>1 DEF Settling
<1>8. OnePlace'
  <2>1. applied' \subseteq issued'
    BY <1>t, <1>1 DEF OnePlace
  <2>2. \A c \in Calls : InWorker(c)' =>
           c \in issued' /\ ~Settling(c)' /\ \A u \in Users : ~Queued(c, u)'
    <3>1. ASSUME NEW c \in Calls, InWorker(c)'
          PROVE  c # w /\ InWorker(c)
      BY <1>4, <3>1
    <3>2. \A c \in Calls : InWorker(c) =>
             c \in issued /\ ~Settling(c) /\ \A u \in Users : ~Queued(c, u)
      BY <1>t DEF OnePlace
    <3> QED  BY <1>1, <1>6, <1>7, <3>1, <3>2
  <2>3. \A c \in Calls : \A u \in Users : Queued(c, u)' =>
           /\ c \in issued' /\ ~Settling(c)'
           /\ \A v \in Users : Queued(c, v)' => u = v
    BY <1>t, <1>1, <1>6, <1>7 DEF OnePlace
  <2>4. \A c \in Calls : Settling(c)' => c \in issued'
    BY <1>t, <1>1, <1>7 DEF OnePlace
  <2>5. ASSUME NEW u \in Users, NEW c \in callbacks'[u] PROVE Queued(c, u)'
    <3>1. c \in Calls /\ (c \in callbacks[u] \/ (c = w /\ u = syncUser))
      BY <1>5
    <3>2. c \in callbacks[u] => Queued(c, u)
      BY <1>t DEF OnePlace
    <3> QED  BY <1>6, <3>1, <3>2
  <2>6. \A c \in Calls :
           Store!Written(c, "ok") \in ToSet(mainQueue') => c \in applied'
    BY <1>t, <1>1 DEF OnePlace
  <2> QED  BY <2>1, <2>2, <2>3, <2>4, <2>5, <2>6 DEF OnePlace
<1>9. Untold'
  <2>1. told[w] = <<>> /\ told' = told
    BY <1>t, <1>2, <1>4 DEF Untold
  <2>2. ASSUME NEW c \in Calls,
               \/ calls'[c].stage # "answered"
               \/ InWorker(c)'
               \/ Settling(c)'
               \/ \E u \in Users : Queued(c, u)'
        PROVE  told'[c] = <<>>
    <3>1. CASE c = w
      BY <2>1, <3>1
    <3>2. CASE c # w
      BY <1>t, <1>u, <1>4, <1>6, <1>7, <2>1, <2>2, <3>2 DEF Untold
    <3> QED  BY <3>1, <3>2
  <2> QED  BY <2>2 DEF Untold
<1>10. Bereft'
  <2>1. w \notin abandoned
    BY <1>t, <1>4 DEF Bereft
  <2>2. \A c \in abandoned : \A u \in Users :
           c \notin callbacks[u] => c \notin callbacks'[u]
    BY <1>5, <2>1
  <2>3. abandoned' = abandoned /\ abandoned \subseteq Calls
    BY <1>t, Typed
  <2> QED  BY <1>t, <1>u, <1>4, <1>7, <2>1, <2>2, <2>3 DEF Bereft
<1>11. AccountsMade' /\ Earned' /\ ToldOnce' /\ Mine' = Mine
  BY <1>1, StoreFrame
<1>12. WorkerKnows'
  <2>1. worker[1].type # "credential"
    BY <1>1, WorkerHead
  <2>2. /\ \A u : UserAfter(worker, syncUser, Len(worker), u)
                     => UserAfter(worker', syncUser, Len(worker'), u)
        /\ Owned(worker', syncUser, Mine)
    BY <1>t, <1>y, <1>1, <2>1, OwnedTail DEF WorkerKnows
  <2> QED  BY <1>t, <1>1, <1>11, <2>2 DEF WorkerKnows
<1>13. Announced'
  BY <1>t, <1>u, <1>1, AnnouncedStays
<1>14. ProfileFiledUnderOwner'
  <2>1. ASSUME NEW u \in Users, NEW c \in ToSet(mutations'[u]), c \notin builders'
        PROVE  u = calls'[c].email
    <3>1. c \in Calls
      BY <1>5 DEF ToSet
    <3>2. CASE c = w
      <4>1. u = syncUser
        BY <1>6, <2>1, <3>1, <3>2 DEF Queued
      <4> QED  BY <1>u, <1>3, <2>1, <3>2, <4>1 DEF Mine
    <3>3. CASE c # w
      <4>1. c \in ToSet(mutations[u])
        BY <1>6, <2>1, <3>1, <3>3 DEF Queued
      <4> QED  BY <1>t, <1>u, <2>1, <4>1, Sets DEF ProfileFiledUnderOwner
    <3> QED  BY <3>2, <3>3
  <2> QED  BY <2>1, Sets DEF ProfileFiledUnderOwner
<1>15. OnceEach'
  <2>1. IsInjective(mutations'[syncUser])
    <3>1. w \notin ToSet(mutations[syncUser])
      BY <1>3, <1>6 DEF Queued
    <3>2. mutations[syncUser] \in Seq(Calls) /\ IsInjective(mutations[syncUser])
      BY <1>t, <1>y, <1>3 DEF OnceEach
    <3> QED  BY <1>2, <1>5, <3>1, <3>2, InjectiveAppend
  <2>2. \A u \in Users : IsInjective(mutations'[u])
    BY <1>t, <1>5, <2>1 DEF OnceEach
  <2> QED  BY <1>t, <1>1, <2>2, WorkerHead DEF OnceEach
<1>16. TypeOK'
  BY <1>t, <1>1, <1>5, WorkerHead, Sets DEF TypeOK, authOnly
<1> QED
  BY <1>8, <1>9, <1>10, <1>11, <1>12, <1>13, <1>14, <1>15, <1>16
     DEF ServiceInv

(* The backend applies a write that is queued, and so was issued.          *)
LEMMA AppliesStep ==
    ASSUME ServiceInv, NEW w \in Calls, Store!BackendApplies(w),
           UNCHANGED <<authOnly, told, abandoned, made, builders>>
    PROVE  ServiceInv'
<1>t. /\ TypeOK /\ OnceEach /\ OnePlace /\ Untold /\ Bereft /\ WorkerKnows
      /\ Announced /\ ProfileFiledUnderOwner
  BY DEF ServiceInv
<1>1. /\ applied' = applied \cup {w}
      /\ UNCHANGED <<created, credential, worker, syncUser, mutations, callbacks,
                     issued, mainQueue, restarts>>
  BY DEF Store!BackendApplies
<1>u. calls' = calls
  BY DEF authOnly
<1>2. syncUser \in Users /\ Queued(w, syncUser)
  <2>1. syncUser \in Users
    BY <1>t DEF Store!BackendApplies, Store!Sending, TypeOK, Users
  <2>2. PICK i \in DOMAIN mutations[syncUser] : mutations[syncUser][i] = w
    BY DEF Store!BackendApplies
  <2> QED  BY <2>1, <2>2 DEF Queued, ToSet
<1>3. w \in issued
  BY <1>t, <1>2 DEF OnePlace
<1>4. \A c \in Calls : /\ InWorker(c)' <=> InWorker(c)
                       /\ Settling(c)' <=> Settling(c)
                       /\ \A u \in Users : Queued(c, u)' <=> Queued(c, u)
  BY <1>1 DEF InWorker, Settling, Queued
<1>5. OnePlace'
  BY <1>t, <1>1, <1>3, <1>4, Typed DEF OnePlace
<1>6. Untold' /\ Bereft'
  BY <1>t, <1>u, <1>1, <1>4, Typed DEF Untold, Bereft
<1>7. AccountsMade' /\ Earned' /\ ToldOnce' /\ Mine' = Mine
  BY <1>1, StoreFrame
<1>8. WorkerKnows' /\ ProfileFiledUnderOwner'
  BY <1>t, <1>u, <1>1, KnowsKept
<1>9. Announced'
  BY <1>t, <1>u, <1>1, AnnouncedStays
<1>10. OnceEach'
  BY <1>t, <1>1 DEF OnceEach
<1>11. TypeOK'
  BY <1>t, <1>1 DEF TypeOK, authOnly
<1> QED
  BY <1>5, <1>6, <1>7, <1>8, <1>9, <1>10, <1>11 DEF ServiceInv

(* The head of the current user's queue is settled: it leaves the queue,   *)
(* and its completion block, if this process has one, is dispatched.       *)
LEMMA SettleStep ==
    ASSUME ServiceInv, NEW a \in Answers, Store!Sending, Store!SettleHead(a),
           a = "ok" => Head(mutations[syncUser]) \in applied,
           UNCHANGED <<authOnly, told, abandoned, made, builders>>
    PROVE  ServiceInv'
<1>t. /\ TypeOK /\ OnceEach /\ OnePlace /\ Untold /\ Bereft /\ WorkerKnows
      /\ Announced /\ ProfileFiledUnderOwner
  BY DEF ServiceInv
<1>y. /\ mainQueue \in Seq(Items) /\ NoTwins(mainQueue)
      /\ mutations \in [Users -> Seq(Calls)]
      /\ callbacks \in [Users -> SUBSET Calls]
  BY <1>t, Typed DEF OnceEach
<1>u. calls' = calls
  BY DEF authOnly
<1>s. syncUser \in Users /\ mutations[syncUser] # <<>>
  BY <1>t DEF Store!Sending, TypeOK, Users
<1>m. mutations[syncUser] \in Seq(Calls) /\ IsInjective(mutations[syncUser])
  BY <1>t, <1>y, <1>s DEF OnceEach
<1>w. PICK w \in Calls : w = Head(mutations[syncUser])
  BY <1>m, <1>s, TailShape
<1>1. /\ mutations' = [mutations EXCEPT ![syncUser] = Tail(@)]
      /\ callbacks' = [callbacks EXCEPT ![syncUser] = @ \ {w}]
      /\ mainQueue' = IF w \in callbacks[syncUser]
                        THEN Append(mainQueue, Store!Written(w, a))
                        ELSE mainQueue
      /\ UNCHANGED <<created, credential, worker, syncUser, applied, issued,
                     restarts>>
  BY <1>w DEF Store!SettleHead, Store!RemoveMutationBatch, Store!NotifyUser,
              Store!Dispatch, Store!Settled
<1>2. /\ ToSet(mutations[syncUser]) = ToSet(Tail(mutations[syncUser])) \cup {w}
      /\ w \notin ToSet(Tail(mutations[syncUser]))
      /\ IsInjective(Tail(mutations[syncUser]))
      /\ Tail(mutations[syncUser]) \in Seq(Calls)
  BY <1>s, <1>m, <1>w, ToSetOfTail, InjectiveTail, TailShape
<1>3. /\ mutations' \in [Users -> Seq(Calls)]
      /\ callbacks' \in [Users -> SUBSET Calls]
      /\ mutations'[syncUser] = Tail(mutations[syncUser])
      /\ callbacks'[syncUser] = callbacks[syncUser] \ {w}
      /\ \A u \in Users : u # syncUser =>
            mutations'[u] = mutations[u] /\ callbacks'[u] = callbacks[u]
  <2>1. callbacks[syncUser] \ {w} \in SUBSET Calls
    BY <1>y, <1>s
  <2> QED  BY <1>y, <1>s, <1>1, <1>2, <2>1
<1>4. /\ Queued(w, syncUser) /\ w \in issued /\ ~Settling(w) /\ ~InWorker(w)
      /\ told[w] = <<>>
      /\ \A u \in Users : ~Queued(w, u)'
      /\ \A c \in Calls : c # w =>
            \A u \in Users : Queued(c, u)' <=> Queued(c, u)
  <2>1. Queued(w, syncUser)
    BY <1>2 DEF Queued
  <2>2. w \in issued /\ ~Settling(w) /\ \A u \in Users : Queued(w, u) => syncUser = u
    BY <1>t, <1>s, <2>1 DEF OnePlace
  <2>3. ~InWorker(w)
    BY <1>t, <1>s, <2>1 DEF OnePlace
  <2>4. told[w] = <<>>
    BY <1>t, <1>s, <2>1 DEF Untold
  <2>5. ASSUME NEW c \in Calls, NEW u \in Users
        PROVE  Queued(c, u)' <=> Queued(c, u) /\ c # w
    <3>1. CASE u = syncUser
      BY <1>2, <1>3, <3>1 DEF Queued
    <3>2. CASE u # syncUser
      BY <1>3, <2>2, <3>2 DEF Queued
    <3> QED  BY <3>1, <3>2
  <2> QED  BY <2>1, <2>2, <2>3, <2>4, <2>5
<1>5. /\ mainQueue' \in Seq(Items)
      /\ NoTwins(mainQueue')
      /\ FollowsNotice(mainQueue', EmailOf, HeardLast)
      /\ \A c \in Calls : \A b \in Answers :
            /\ Auth!Reply(c, b) \in ToSet(mainQueue')
                  <=> Auth!Reply(c, b) \in ToSet(mainQueue)
            /\ Store!Written(c, b) \in ToSet(mainQueue')
                  <=> \/ Store!Written(c, b) \in ToSet(mainQueue)
                      \/ c = w /\ b = a /\ w \in callbacks[syncUser]
  <2>1. CASE w \notin callbacks[syncUser]
    BY <1>t, <1>y, <1>1, <2>1 DEF Announced
  <2>2. CASE w \in callbacks[syncUser]
    <3>1. mainQueue' = Append(mainQueue, Store!Written(w, a))
      BY <1>1, <2>2
    <3>2. \A b \in Answers : Store!Written(w, b) \notin ToSet(mainQueue)
      BY <1>4 DEF Settling
    <3>3. /\ Store!Written(w, a) \in Items
          /\ Store!Written(w, a).type # "reply"
      BY ItemsTyped, Fields
    <3>4. FollowsNotice(mainQueue', EmailOf, HeardLast)
      BY <1>t, <1>y, <3>1, <3>3, NoticeAppend DEF Announced
    <3> QED  BY <1>y, <2>2, <3>1, <3>2, <3>3, <3>4, Joins, WrittenJoins
  <2> QED  BY <2>1, <2>2
<1>6. /\ \A c \in Calls : c # w => (Settling(c)' <=> Settling(c))
      /\ Settling(w)' => w \in callbacks[syncUser]
      /\ \A c \in Calls : InWorker(c)' <=> InWorker(c)
  BY <1>1, <1>4, <1>5 DEF Settling, InWorker
<1>7. OnePlace'
  <2>1. applied' \subseteq issued'
    BY <1>t, <1>1 DEF OnePlace
  <2>2. ASSUME NEW c \in Calls, InWorker(c)'
        PROVE  c \in issued' /\ ~Settling(c)' /\ \A u \in Users : ~Queued(c, u)'
    <3>1. c # w /\ InWorker(c)
      BY <1>4, <1>6, <2>2
    <3> QED  BY <1>t, <1>1, <1>4, <1>6, <3>1 DEF OnePlace
  <2>3. ASSUME NEW c \in Calls, NEW u \in Users, Queued(c, u)'
        PROVE  /\ c \in issued' /\ ~Settling(c)'
               /\ \A v \in Users : Queued(c, v)' => u = v
    <3>1. c # w /\ Queued(c, u)
      BY <1>4, <2>3
    <3> QED  BY <1>t, <1>1, <1>4, <1>6, <3>1 DEF OnePlace
  <2>4. \A c \in Calls : Settling(c)' => c \in issued'
    BY <1>t, <1>1, <1>4, <1>6 DEF OnePlace
  <2>5. ASSUME NEW u \in Users, NEW c \in callbacks'[u] PROVE Queued(c, u)'
    <3>1. c \in Calls /\ c \in callbacks[u]
      BY <1>3
    <3>2. Queued(c, u)
      BY <1>t, <3>1 DEF OnePlace
    <3>3. CASE c = w
      <4>1. u = syncUser
        BY <1>t, <1>s, <1>4, <3>2, <3>3 DEF OnePlace
      <4> QED  BY <1>3, <3>3, <4>1
    <3>4. CASE c # w
      BY <1>4, <3>1, <3>2, <3>4
    <3> QED  BY <3>3, <3>4
  <2>6. \A c \in Calls :
           Store!Written(c, "ok") \in ToSet(mainQueue') => c \in applied'
    BY <1>t, <1>w, <1>1, <1>5, Sets DEF OnePlace
  <2> QED  BY <2>1, <2>2, <2>3, <2>4, <2>5, <2>6 DEF OnePlace
<1>8. Untold'
  <2>1. ASSUME NEW c \in Calls,
               \/ calls'[c].stage # "answered"
               \/ InWorker(c)'
               \/ Settling(c)'
               \/ \E u \in Users : Queued(c, u)'
        PROVE  told'[c] = <<>>
    <3>1. CASE c = w
      BY <1>4, <3>1
    <3>2. CASE c # w
      BY <1>t, <1>u, <1>4, <1>6, <2>1, <3>2 DEF Untold
    <3> QED  BY <3>1, <3>2
  <2> QED  BY <2>1 DEF Untold
<1>9. Bereft'
  <2>1. abandoned' = abandoned /\ abandoned \subseteq Calls
    BY <1>t, Typed
  <2>2. w \in abandoned => w \notin callbacks[syncUser]
    BY <1>t, <1>s DEF Bereft
  <2>3. \A c \in abandoned : ~Settling(c)'
    BY <1>t, <1>6, <2>1, <2>2 DEF Bereft
  <2>4. \A c \in abandoned : \A u \in Users : c \notin callbacks'[u]
    BY <1>t, <1>3 DEF Bereft
  <2> QED  BY <1>t, <1>u, <1>6, <2>1, <2>3, <2>4 DEF Bereft
<1>10. AccountsMade' /\ Earned' /\ ToldOnce' /\ Mine' = Mine
  BY <1>1, <1>5, StoreFrame, Sets
<1>11. WorkerKnows'
  BY <1>t, <1>1, <1>10 DEF WorkerKnows
<1>12. Announced'
  BY <1>u, <1>1, <1>5 DEF Announced, EmailOf, HeardLast
<1>13. ProfileFiledUnderOwner'
  <2>1. ASSUME NEW u \in Users, NEW c \in ToSet(mutations'[u]), c \notin builders'
        PROVE  u = calls'[c].email
    <3>1. c \in ToSet(mutations[u])
      <4>1. CASE u = syncUser
        BY <1>2, <1>3, <2>1, <4>1
      <4>2. CASE u # syncUser
        BY <1>3, <2>1, <4>2
      <4> QED  BY <4>1, <4>2
    <3> QED  BY <1>t, <1>u, <2>1, <3>1, Sets DEF ProfileFiledUnderOwner
  <2> QED  BY <2>1, Sets DEF ProfileFiledUnderOwner
<1>14. OnceEach'
  BY <1>t, <1>1, <1>2, <1>3, <1>5 DEF OnceEach
<1>15. TypeOK'
  BY <1>t, <1>1, <1>3, <1>5, Sets DEF TypeOK, authOnly, Items
<1> QED
  BY <1>7, <1>8, <1>9, <1>10, <1>11, <1>12, <1>13, <1>14, <1>15 DEF ServiceInv

-----------------------------------------------------------------------------
(* Blocks of the main queue                                                *)

LEMMA MainHead ==
    ASSUME ServiceInv, mainQueue # <<>>
    PROVE  /\ Head(mainQueue) \in Items /\ Head(mainQueue) = mainQueue[1]
           /\ Tail(mainQueue) \in Seq(Items)
           /\ ToSet(mainQueue) = ToSet(Tail(mainQueue)) \cup {Head(mainQueue)}
           /\ NoTwins(Tail(mainQueue))
           /\ \A n \in ToSet(Tail(mainQueue)) : ~Twins(n, Head(mainQueue))
<1>1. mainQueue \in Seq(Items) /\ NoTwins(mainQueue)
  BY Typed DEF ServiceInv, OnceEach
<1> QED  BY <1>1, TailShape, ToSetOfTail, TwinsTail

LEMMA AnnouncedTail ==
    ASSUME ServiceInv, mainQueue # <<>>, mainQueue' = Tail(mainQueue),
           EmailOf' = EmailOf,
           Head(mainQueue).type = "notice" /\ Head(mainQueue).user \in Users
              => Head(mainQueue).user \in HeardLast'
    PROVE  Announced'
<1>1. mainQueue \in Seq(Items) /\ FollowsNotice(mainQueue, EmailOf, HeardLast)
  BY Typed DEF ServiceInv, Announced
<1>2. Head(mainQueue).type = "notice" => Head(mainQueue).user \in Users
  BY MainHead, ItemsTyped
<1>3. FollowsNotice(Tail(mainQueue), EmailOf, HeardLast')
  BY <1>1, <1>2, NoticeTail
<1> QED  BY <1>3 DEF Announced

(* The observers are told; Firestore's provider is one of them.            *)
LEMMA NotificationStep ==
    ASSUME ServiceInv, Notification
    PROVE  ServiceInv'
<1>t. /\ TypeOK /\ OnceEach /\ AccountsMade /\ Earned /\ OnePlace /\ Untold
      /\ Bereft /\ WorkerKnows /\ Announced /\ ProfileFiledUnderOwner
      /\ ToldOnce
  BY DEF ServiceInv
<1>y. worker \in Seq(Store!Blocks) /\ NoTwins(worker) /\ credential \in Users
  BY <1>t, Typed DEF OnceEach
<1>h. mainQueue # <<>> /\ Head(mainQueue).type = "notice"
  BY DEF Notification, Auth!DeliverNotice
<1>w. PICK u \in Users :
         u = Head(mainQueue).user /\ Head(mainQueue) = Auth!Notice(u)
  BY <1>h, MainHead, ItemsTyped
<1>1. /\ mainQueue' = Tail(mainQueue) /\ heard' = u
      /\ UNCHANGED <<accounts, currentUser, keychain, loader, calls, restarts,
                     told, abandoned, made, builders>>
  BY <1>w DEF Notification, Auth!DeliverNotice
<1>2. /\ credential' = IF created THEN u ELSE credential
      /\ worker' = IF created THEN Append(worker, Store!Credential(u)) ELSE worker
      /\ UNCHANGED <<created, syncUser, mutations, callbacks, applied, issued>>
  BY <1>w DEF Notification, Store!CredentialChanges
<1>3. \A c \in Calls : \A a \in Answers :
         /\ Auth!Reply(c, a) \in ToSet(mainQueue')
               <=> Auth!Reply(c, a) \in ToSet(mainQueue)
         /\ Store!Written(c, a) \in ToSet(mainQueue')
               <=> Store!Written(c, a) \in ToSet(mainQueue)
  <2>1. \A c, a : /\ Auth!Reply(c, a) # Head(mainQueue)
                  /\ Store!Written(c, a) # Head(mainQueue)
    BY <1>h, Fields
  <2> QED  BY <1>h, <1>1, <2>1, MainHead
<1>4. /\ worker' \in Seq(Store!Blocks)
      /\ NoTwins(worker')
      /\ \A c \in Calls : InWorker(c)' <=> InWorker(c)
      /\ WorkerKnows'
  <2>m. Mine' = Mine
    BY <1>1 DEF Mine
  <2>1. CASE created
    <3>1. worker' = Append(worker, Store!Credential(u)) /\ credential' = u
      BY <1>2, <2>1
    <3>2. /\ Store!Credential(u) \in Store!Blocks
          /\ Store!Credential(u).type = "credential"
          /\ Store!Credential(u).user = u
          /\ \A c : Store!Write(c) # Store!Credential(u)
      BY BlocksTyped, Fields
    <3>3. worker' \in Seq(Store!Blocks) /\ NoTwins(worker')
      BY <1>y, <3>1, <3>2, TwinsAppend DEF Twins
    <3>4. ToSet(worker') = ToSet(worker) \cup {Store!Credential(u)}
      BY <1>y, <3>1, <3>2, ToSetOfAppend
    <3>5. \A c \in Calls : InWorker(c)' <=> InWorker(c)
      BY <3>2, <3>4 DEF InWorker
    <3>6. /\ UserAfter(worker', syncUser, Len(worker'), u)
          /\ Owned(worker', syncUser, Mine)
      BY <1>t, <1>y, <2>1, <3>1, <3>2, OwnedAppend DEF WorkerKnows
    <3>7. WorkerKnows'
      BY <1>2, <2>m, <3>1, <3>6 DEF WorkerKnows
    <3> QED  BY <3>3, <3>5, <3>7
  <2>2. CASE ~created
    BY <1>t, <1>y, <1>2, <2>m, <2>2 DEF WorkerKnows, InWorker
  <2> QED  BY <2>1, <2>2
<1>5. PlacesStay
  BY <1>2, <1>3, <1>4 DEF PlacesStay, Queued
<1>6. OnePlace' /\ Untold' /\ Bereft'
  BY <1>t, <1>1, <1>5, PlacesKept, UntoldKept, BereftKept
<1>7. Earned'
  BY <1>t, <1>1, <1>2, <1>3, EarnedKept
<1>8. AccountsMade' /\ ToldOnce' /\ ProfileFiledUnderOwner'
  BY <1>t, <1>1, <1>2 DEF AccountsMade, ToldOnce, ProfileFiledUnderOwner
<1>9. Announced'
  <2>1. u \in HeardLast' /\ EmailOf' = EmailOf
    BY <1>1, <1>2 DEF HeardLast, EmailOf
  <2> QED  BY <1>h, <1>w, <1>1, <2>1, AnnouncedTail
<1>10. OnceEach'
  BY <1>t, <1>h, <1>1, <1>2, <1>4, MainHead DEF OnceEach
<1>11. TypeOK'
  BY <1>t, <1>h, <1>1, <1>2, <1>4, MainHead, Sets DEF TypeOK, Items, Users
<1> QED
  BY <1>4, <1>6, <1>7, <1>8, <1>9, <1>10, <1>11 DEF ServiceInv

(* The completion block of call c is the oldest, and runs.                 *)
LEMMA ReplyLeaves ==
    ASSUME ServiceInv, Auth!DeliverReply
    PROVE  \E c \in Calls, a \in Answers, r \in Auth!CallRecords :
              /\ mainQueue # <<>>
              /\ Head(mainQueue) = Auth!Reply(c, a)
              /\ Head(mainQueue).type = "reply"
              /\ Head(mainQueue).call = c /\ Head(mainQueue).answer = a
              /\ calls[c].stage = "replying"
              /\ a = "ok" => HasAccount(c) /\ EmailOf[c] \in HeardLast
              /\ calls' = [calls EXCEPT ![c] = r]
              /\ r.stage = "answered" /\ r.op = calls[c].op
              /\ r.email = calls[c].email
              /\ mainQueue' = Tail(mainQueue)
              /\ \A d \in Calls : \A b \in Answers :
                    /\ Auth!Reply(d, b) \in ToSet(mainQueue')
                          <=> Auth!Reply(d, b) \in ToSet(mainQueue) /\ d # c
                    /\ Store!Written(d, b) \in ToSet(mainQueue')
                          <=> Store!Written(d, b) \in ToSet(mainQueue)
<1>t. TypeOK /\ Earned /\ Announced
  BY DEF ServiceInv
<1>h. /\ mainQueue # <<>> /\ Head(mainQueue).type = "reply"
      /\ mainQueue' = Tail(mainQueue)
      /\ Auth!MoveTo(Head(mainQueue).call, "answered")
  BY DEF Auth!DeliverReply
<1>w. PICK c \in Calls, a \in Answers :
         /\ Head(mainQueue) = Auth!Reply(c, a)
         /\ Head(mainQueue).call = c /\ Head(mainQueue).answer = a
  BY <1>h, MainHead, ItemsTyped
<1>1. Replying(c, a)
  BY <1>h, <1>w, MainHead DEF Replying
<1>2. /\ calls[c].stage = "replying"
      /\ a = "ok" => HasAccount(c)
  BY <1>t, <1>1 DEF Earned
<1>3. a = "ok" => EmailOf[c] \in HeardLast
  <2>1. mainQueue \in Seq(Items)
    BY <1>t, Typed
  <2>2. 1 \in 1 .. Len(mainQueue) /\ ~(1 > 1) /\ mainQueue[1] = Head(mainQueue)
    BY <1>h, <2>1, MainHead
  <2> QED  BY <1>t, <1>h, <1>w, <2>2 DEF Announced, FollowsNotice
<1>4. PICK r \in Auth!CallRecords :
         /\ calls' = [calls EXCEPT ![c] = r]
         /\ r.stage = "answered" /\ r.op = calls[c].op
         /\ r.email = calls[c].email
  BY <1>t, <1>h, <1>w, <1>2, Moved DEF Auth!Stages
<1>5. ASSUME NEW d \in Calls, NEW b \in Answers
      PROVE  /\ Auth!Reply(d, b) \in ToSet(mainQueue')
                   <=> Auth!Reply(d, b) \in ToSet(mainQueue) /\ d # c
             /\ Store!Written(d, b) \in ToSet(mainQueue')
                   <=> Store!Written(d, b) \in ToSet(mainQueue)
  <2>1. ToSet(mainQueue) = ToSet(mainQueue') \cup {Head(mainQueue)}
    BY <1>h, MainHead
  <2>2. /\ Store!Written(d, b) # Head(mainQueue)
        /\ Auth!Reply(d, b) = Head(mainQueue) => d = c
    BY <1>h, <1>w, Fields
  <2>3. Auth!Reply(c, b) \notin ToSet(mainQueue')
    <3>1. Twins(Auth!Reply(c, b), Head(mainQueue))
      BY <1>h, <1>w, Fields DEF Twins
    <3> QED  BY <1>h, <3>1, MainHead
  <2> QED  BY <2>1, <2>2, <2>3
<1> QED  BY <1>h, <1>w, <1>2, <1>3, <1>4, <1>5

(* A call that is answered keeps its email and its account.                *)
LEMMA AnswerKeeps ==
    ASSUME TypeOK, AccountsMade, NEW c \in Calls, NEW r \in Auth!CallRecords,
           calls' = [calls EXCEPT ![c] = r],
           r.op = calls[c].op, r.email = calls[c].email,
           accounts' = accounts, made' = made
    PROVE  /\ calls' \in [Calls -> Auth!CallRecords]
           /\ calls'[c] = r
           /\ \A d \in Calls : d # c => calls'[d] = calls[d]
           /\ \A d \in Calls : calls'[d].email = calls[d].email
           /\ EmailOf' = EmailOf
           /\ AccountsMade'
           /\ \A d \in Calls : HasAccount(d)' <=> HasAccount(d)
<1>1. /\ calls' \in [Calls -> Auth!CallRecords]
      /\ calls'[c] = r
      /\ \A d \in Calls : d # c => calls'[d] = calls[d]
  BY Typed
<1>2. \A d \in Calls : calls'[d].email = calls[d].email
  BY <1>1
<1>3. EmailOf' = EmailOf
  BY <1>2 DEF EmailOf
<1> QED  BY <1>1, <1>2, <1>3, AccountsStay

(* A sign-in, or a call that failed, is answered for good.                 *)
LEMMA CallAnsweredStep ==
    ASSUME ServiceInv, CallAnswered
    PROVE  ServiceInv'
<1>t. /\ TypeOK /\ OnceEach /\ AccountsMade /\ Earned /\ OnePlace /\ Untold
      /\ Bereft /\ WorkerKnows /\ ProfileFiledUnderOwner /\ ToldOnce
  BY DEF ServiceInv
<1>u. /\ UNCHANGED <<accounts, currentUser, keychain, loader, heard, restarts>>
      /\ UNCHANGED <<created, credential, worker, syncUser, mutations, callbacks,
                     applied, issued>>
      /\ UNCHANGED <<abandoned, made, builders>>
  BY DEF CallAnswered, Auth!DeliverReply, storeOnly
<1>1. PICK c \in Calls, a \in Answers, r \in Auth!CallRecords :
              /\ mainQueue # <<>>
              /\ Head(mainQueue).type = "reply"
              /\ Head(mainQueue).call = c /\ Head(mainQueue).answer = a
              /\ calls[c].stage = "replying"
              /\ calls' = [calls EXCEPT ![c] = r]
              /\ r.stage = "answered" /\ r.op = calls[c].op
              /\ r.email = calls[c].email
              /\ mainQueue' = Tail(mainQueue)
              /\ \A d \in Calls : \A b \in Answers :
                    /\ Auth!Reply(d, b) \in ToSet(mainQueue')
                          <=> Auth!Reply(d, b) \in ToSet(mainQueue) /\ d # c
                    /\ Store!Written(d, b) \in ToSet(mainQueue')
                          <=> Store!Written(d, b) \in ToSet(mainQueue)
  BY ReplyLeaves DEF CallAnswered
<1>e. /\ c \notin issued /\ told[c] = <<>> /\ c \notin abandoned
      /\ ~InWorker(c) /\ ~Settling(c) /\ \A u \in Users : ~Queued(c, u)
  BY <1>1, EarlyCall
<1>2. told' = [told EXCEPT ![c] = Append(told[c], a)]
  BY <1>1 DEF CallAnswered, Tell
<1>3. /\ told' \in [Calls -> Seq(Answers)]
      /\ Len(told'[c]) = 1
      /\ \A d \in Calls : d # c => told'[d] = told[d]
  BY <1>t, <1>e, <1>2, Typed
<1>4. /\ calls' \in [Calls -> Auth!CallRecords]
      /\ calls'[c] = r
      /\ \A d \in Calls : d # c => calls'[d] = calls[d]
      /\ \A d \in Calls : calls'[d].email = calls[d].email
      /\ EmailOf' = EmailOf
      /\ AccountsMade'
      /\ \A d \in Calls : HasAccount(d)' <=> HasAccount(d)
  BY <1>t, <1>u, <1>1, AnswerKeeps
<1>5. PlacesStay
  BY <1>u, <1>1 DEF PlacesStay, InWorker, Queued
<1>6. OnePlace'
  BY <1>t, <1>5, PlacesKept
<1>7. Untold'
  <2>1. ASSUME NEW d \in Calls,
               \/ calls'[d].stage # "answered"
               \/ InWorker(d)'
               \/ Settling(d)'
               \/ \E u \in Users : Queued(d, u)'
        PROVE  told'[d] = <<>>
    <3>1. d # c
      BY <1>1, <1>e, <1>4, <1>5, <2>1, SettlingKept DEF PlacesStay
    <3>2. told'[d] = told[d] /\ calls'[d] = calls[d]
      BY <1>3, <1>4, <3>1
    <3> QED  BY <1>t, <1>5, <2>1, <3>2, SettlingKept DEF PlacesStay, Untold
  <2> QED  BY <2>1 DEF Untold
<1>8. Bereft'
  <2>1. \A d \in abandoned : calls'[d].stage = calls[d].stage
    BY <1>t, <1>e, <1>4, Typed
  <2> QED  BY <1>t, <1>u, <1>5, <2>1, BereftKept
<1>9. WorkerKnows' /\ ProfileFiledUnderOwner'
  <2>1. \A d \in issued : calls'[d].email = calls[d].email
    BY <1>t, <1>4, Typed
  <2> QED  BY <1>t, <1>u, <2>1, KnowsKept
<1>10. Announced'
  BY <1>1, <1>4, AnnouncedTail
<1>11. ToldOnce'
  <2>1. \A d \in Calls : Len(told[d]) <= 1
    BY <1>t DEF ToldOnce
  <2>2. ASSUME NEW d \in Calls PROVE Len(told'[d]) <= 1
    <3>1. CASE d = c
      <4>1. Len(told'[d]) = 1
        BY <1>3, <3>1
      <4> QED  BY <4>1
    <3>2. CASE d # c
      BY <1>3, <2>1, <3>2
    <3> QED  BY <3>1, <3>2
  <2> QED  BY <2>2 DEF ToldOnce
<1>12. Earned'
  <2>1. \A d \in Calls : \A b \in Answers :
           Replying(d, b)' => Replying(d, b) /\ d # c
    BY <1>1 DEF Replying
  <2>2. issued' = issued /\ issued \subseteq Calls
    BY <1>t, <1>u, Typed
  <2>3. \A d \in Calls : \A b \in Answers :
           Replying(d, b)' => calls'[d].stage = "replying"
    BY <1>t, <1>4, <2>1 DEF Earned
  <2>4. \A d \in Calls :
           calls'[d].stage = "granted" \/ Replying(d, "ok")' => HasAccount(d)'
    BY <1>t, <1>1, <1>4, <2>1, Sets DEF Earned
  <2>5. \A d \in issued' : /\ calls'[d].stage = "answered"
                           /\ calls'[d].op = "register"
                           /\ HasAccount(d)'
    BY <1>t, <1>e, <1>4, <2>2 DEF Earned
  <2> QED  BY <2>3, <2>4, <2>5 DEF Earned
<1>13. OnceEach'
  BY <1>t, <1>u, <1>1, MainHead DEF OnceEach
<1>14. TypeOK'
  BY <1>t, <1>u, <1>1, <1>3, <1>4, MainHead, Sets DEF TypeOK, Items
<1> QED
  BY <1>4, <1>6, <1>7, <1>8, <1>9, <1>10, <1>11, <1>12, <1>13, <1>14
     DEF ServiceInv

(* The completion block of setData runs: its write is nowhere any more.    *)
LEMMA ProfileSettledStep ==
    ASSUME ServiceInv, ProfileSettled
    PROVE  ServiceInv'
<1>t. /\ TypeOK /\ OnceEach /\ AccountsMade /\ Earned /\ OnePlace /\ Untold
      /\ Bereft /\ WorkerKnows /\ ProfileFiledUnderOwner /\ ToldOnce
  BY DEF ServiceInv
<1>u. /\ UNCHANGED <<accounts, currentUser, keychain, loader, calls, heard>>
      /\ UNCHANGED <<created, credential, worker, syncUser, mutations, callbacks,
                     applied, issued, restarts>>
      /\ UNCHANGED <<abandoned, made, builders>>
  BY DEF ProfileSettled, Store!DeliverWritten, authOnly
<1>h. /\ mainQueue # <<>> /\ Head(mainQueue).type = "written"
      /\ mainQueue' = Tail(mainQueue)
  BY DEF ProfileSettled, Store!DeliverWritten
<1>w. PICK w \in Calls, a \in Answers :
         /\ Head(mainQueue) = Store!Written(w, a)
         /\ Head(mainQueue).write = w /\ Head(mainQueue).answer = a
  BY <1>h, MainHead, ItemsTyped
<1>1. ASSUME NEW d \in Calls, NEW b \in Answers
      PROVE  /\ Auth!Reply(d, b) \in ToSet(mainQueue')
                   <=> Auth!Reply(d, b) \in ToSet(mainQueue)
             /\ Store!Written(d, b) \in ToSet(mainQueue')
                   <=> Store!Written(d, b) \in ToSet(mainQueue) /\ d # w
  <2>1. ToSet(mainQueue) = ToSet(mainQueue') \cup {Head(mainQueue)}
    BY <1>h, MainHead
  <2>2. /\ Auth!Reply(d, b) # Head(mainQueue)
        /\ Store!Written(d, b) = Head(mainQueue) => d = w
    BY <1>h, <1>w, Fields
  <2>3. Store!Written(w, b) \notin ToSet(mainQueue')
    <3>1. Twins(Store!Written(w, b), Head(mainQueue))
      BY <1>h, <1>w, Fields DEF Twins
    <3> QED  BY <1>h, <3>1, MainHead
  <2> QED  BY <2>1, <2>2, <2>3
<1>2. Settling(w)
  BY <1>h, <1>w, MainHead DEF Settling
<1>e. /\ w \in issued /\ told[w] = <<>> /\ ~InWorker(w)
      /\ \A u \in Users : ~Queued(w, u)
      /\ calls[w].stage = "answered"
  BY <1>t, <1>2 DEF OnePlace, Untold, Earned
<1>3. told' = [told EXCEPT ![w] = Append(told[w], a)]
  BY <1>w DEF ProfileSettled, Tell
<1>4. /\ told' \in [Calls -> Seq(Answers)]
      /\ Len(told'[w]) = 1
      /\ \A d \in Calls : d # w => told'[d] = told[d]
  BY <1>t, <1>e, <1>3, Typed
<1>5. \A d \in Calls : /\ InWorker(d)' <=> InWorker(d)
                       /\ Settling(d)' <=> Settling(d) /\ d # w
                       /\ \A u \in Users : Queued(d, u)' <=> Queued(d, u)
  BY <1>u, <1>1 DEF InWorker, Settling, Queued
<1>6. OnePlace'
  <2>1. \A d \in Calls :
           Store!Written(d, "ok") \in ToSet(mainQueue') => d \in applied'
    BY <1>t, <1>u, <1>1, Sets DEF OnePlace
  <2>2. /\ applied' \subseteq issued'
        /\ \A d \in Calls : InWorker(d)' =>
              d \in issued' /\ ~Settling(d)' /\ \A u \in Users : ~Queued(d, u)'
        /\ \A d \in Calls : Settling(d)' => d \in issued'
    BY <1>t, <1>u, <1>5 DEF OnePlace
  <2>3. \A d \in Calls : \A u \in Users : Queued(d, u)' =>
           /\ d \in issued' /\ ~Settling(d)'
           /\ \A v \in Users : Queued(d, v)' => u = v
    BY <1>t, <1>u, <1>5 DEF OnePlace
  <2>4. \A u \in Users : \A d \in callbacks'[u] : Queued(d, u)'
    BY <1>t, <1>u, <1>5, Typed DEF OnePlace
  <2> QED  BY <2>1, <2>2, <2>3, <2>4 DEF OnePlace
<1>7. Untold'
  <2>1. ASSUME NEW d \in Calls,
               \/ calls'[d].stage # "answered"
               \/ InWorker(d)'
               \/ Settling(d)'
               \/ \E u \in Users : Queued(d, u)'
        PROVE  told'[d] = <<>>
    <3>1. d # w
      BY <1>u, <1>e, <1>5, <2>1
    <3> QED  BY <1>t, <1>u, <1>4, <1>5, <2>1, <3>1 DEF Untold
  <2> QED  BY <2>1 DEF Untold
<1>8. Bereft'
  BY <1>t, <1>u, <1>5, Typed DEF Bereft
<1>9. WorkerKnows' /\ ProfileFiledUnderOwner'
  BY <1>t, <1>u, KnowsKept
<1>10. Announced'
  <2>1. EmailOf' = EmailOf
    BY <1>u DEF EmailOf
  <2> QED  BY <1>h, <2>1, AnnouncedTail
<1>11. ToldOnce' /\ AccountsMade'
  <2>1. \A d \in Calls : Len(told[d]) <= 1
    BY <1>t DEF ToldOnce
  <2>2. ASSUME NEW d \in Calls PROVE Len(told'[d]) <= 1
    <3>1. CASE d = w
      <4>1. Len(told'[d]) = 1
        BY <1>4, <3>1
      <4> QED  BY <4>1
    <3>2. CASE d # w
      BY <1>4, <2>1, <3>2
    <3> QED  BY <3>1, <3>2
  <2> QED  BY <1>t, <1>u, <2>2 DEF ToldOnce, AccountsMade
<1>12. Earned'
  BY <1>t, <1>u, <1>1, EarnedKept
<1>13. OnceEach'
  BY <1>t, <1>u, <1>h, MainHead DEF OnceEach
<1>14. TypeOK'
  BY <1>t, <1>u, <1>h, <1>4, MainHead, Sets DEF TypeOK, Items
<1> QED
  BY <1>6, <1>7, <1>8, <1>9, <1>10, <1>11, <1>12, <1>13, <1>14 DEF ServiceInv

(* The completion block of a registration that has its account writes the  *)
(* profile: for the user it is about, if the client is there already.      *)
LEMMA AccountCreatedStep ==
    ASSUME ServiceInv, AccountCreated
    PROVE  ServiceInv'
<1>t. /\ TypeOK /\ OnceEach /\ AccountsMade /\ Earned /\ OnePlace /\ Untold
      /\ Bereft /\ WorkerKnows /\ ProfileFiledUnderOwner /\ ToldOnce
  BY DEF ServiceInv
<1>y. /\ worker \in Seq(Store!Blocks) /\ NoTwins(worker)
      /\ credential \in Users /\ currentUser \in Users
  BY <1>t, Typed DEF OnceEach
<1>u. /\ UNCHANGED <<accounts, currentUser, keychain, loader, heard, restarts>>
      /\ UNCHANGED <<syncUser, mutations, callbacks, applied>>
      /\ UNCHANGED <<told, abandoned, made>>
  BY DEF AccountCreated, Auth!DeliverReply, Store!SetData
<1>1. PICK c \in Calls, a \in Answers, r \in Auth!CallRecords :
              /\ mainQueue # <<>>
              /\ Head(mainQueue).type = "reply"
              /\ Head(mainQueue).call = c /\ Head(mainQueue).answer = a
              /\ calls[c].stage = "replying"
              /\ a = "ok" => HasAccount(c) /\ EmailOf[c] \in HeardLast
              /\ calls' = [calls EXCEPT ![c] = r]
              /\ r.stage = "answered" /\ r.op = calls[c].op
              /\ r.email = calls[c].email
              /\ mainQueue' = Tail(mainQueue)
              /\ \A d \in Calls : \A b \in Answers :
                    /\ Auth!Reply(d, b) \in ToSet(mainQueue')
                          <=> Auth!Reply(d, b) \in ToSet(mainQueue) /\ d # c
                    /\ Store!Written(d, b) \in ToSet(mainQueue')
                          <=> Store!Written(d, b) \in ToSet(mainQueue)
  BY ReplyLeaves DEF AccountCreated
<1>2. /\ a = "ok" /\ calls[c].op = "register"
      /\ issued' = issued \cup {c} /\ created' = TRUE
      /\ credential' = IF created THEN credential ELSE currentUser
      /\ worker' = IF created THEN Append(worker, Store!Write(c))
                   ELSE <<Store!Credential(currentUser), Store!Write(c)>>
      /\ builders' = IF created THEN builders ELSE builders \cup {c}
  BY <1>1 DEF AccountCreated, Store!SetData
<1>e. /\ c \notin issued /\ told[c] = <<>> /\ c \notin abandoned
      /\ ~InWorker(c) /\ ~Settling(c) /\ \A u \in Users : ~Queued(c, u)
  BY <1>1, EarlyCall
<1>3. /\ HasAccount(c)
      /\ created => credential = calls[c].email
  BY <1>1, <1>2 DEF EmailOf, HeardLast
<1>4. /\ calls' \in [Calls -> Auth!CallRecords]
      /\ calls'[c] = r
      /\ \A d \in Calls : d # c => calls'[d] = calls[d]
      /\ \A d \in Calls : calls'[d].email = calls[d].email
      /\ EmailOf' = EmailOf
      /\ AccountsMade'
      /\ \A d \in Calls : HasAccount(d)' <=> HasAccount(d)
  BY <1>t, <1>u, <1>1, AnswerKeeps
<1>5. /\ worker' \in Seq(Store!Blocks)
      /\ NoTwins(worker')
      /\ \A d \in Calls : InWorker(d)' => InWorker(d) \/ d = c
      /\ credential' \in Users
      /\ UserAfter(worker', syncUser, Len(worker'), credential')
      /\ Owned(worker', syncUser, Mine')
  <2>b. /\ Store!Credential(currentUser) \in Store!Blocks
        /\ Store!Write(c) \in Store!Blocks
        /\ Store!Credential(currentUser).type = "credential"
        /\ Store!Credential(currentUser).user = currentUser
        /\ Store!Write(c).type = "write" /\ Store!Write(c).write = c
        /\ \A d : Store!Write(d) = Store!Write(c) <=> d = c
        /\ \A d : Store!Write(d) # Store!Credential(currentUser)
    BY <1>y, BlocksTyped, Fields
  <2>1. CASE created
    <3>1. worker' = Append(worker, Store!Write(c)) /\ credential' = credential
      BY <1>2, <2>1
    <3>2. \A n \in ToSet(worker) :
             ~Twins(n, Store!Write(c)) /\ ~Twins(Store!Write(c), n)
      <4>1. ASSUME NEW n \in ToSet(worker)
            PROVE  n.type = "write" => n.write # c
        <5>1. n \in Store!Blocks
          BY <1>y DEF ToSet
        <5> QED  BY <1>e, <5>1, BlocksTyped DEF InWorker
      <4> QED  BY <2>b, <4>1 DEF Twins
    <3>3. worker' \in Seq(Store!Blocks) /\ NoTwins(worker')
      BY <1>y, <2>b, <3>1, <3>2, TwinsAppend
    <3>4. ToSet(worker') = ToSet(worker) \cup {Store!Write(c)}
      BY <1>y, <2>b, <3>1, ToSetOfAppend
    <3>5. \A d \in Calls : InWorker(d)' => InWorker(d) \/ d = c
      BY <2>b, <3>4 DEF InWorker
    <3>6. Owned(worker, syncUser, Mine')
      <4>1. Mine \subseteq Mine'
        BY <1>2, <1>4 DEF Mine
      <4> QED  BY <1>t, <1>y, <4>1, OwnedKept DEF WorkerKnows
    <3>7. <<c, credential>> \in Mine'
      BY <1>y, <1>3, <1>4, <2>1 DEF Mine
    <3>8. /\ UserAfter(worker', syncUser, Len(worker'), credential)
          /\ Owned(worker', syncUser, Mine')
      BY <1>t, <1>y, <2>1, <2>b, <3>1, <3>6, <3>7, OwnedAppend DEF WorkerKnows
    <3> QED  BY <1>y, <3>1, <3>3, <3>5, <3>8
  <2>2. CASE ~created
    <3>1. /\ worker' = <<Store!Credential(currentUser), Store!Write(c)>>
          /\ credential' = currentUser
      BY <1>2, <2>2
    <3>2. /\ worker' \in Seq(Store!Blocks)
          /\ Len(worker') = 2 /\ DOMAIN worker' = 1 .. 2
          /\ worker'[1] = Store!Credential(currentUser)
          /\ worker'[2] = Store!Write(c)
      BY <2>b, <3>1
    <3>3. \A i \in 1 .. 2 : i = 1 \/ i = 2
      OBVIOUS
    <3>4. NoTwins(worker')
      BY <2>b, <3>2, <3>3 DEF NoTwins, Twins
    <3>5. \A d \in Calls : InWorker(d)' => InWorker(d) \/ d = c
      BY <2>b, <3>2, <3>3 DEF InWorker, ToSet
    <3>6. UserAfter(worker', syncUser, 2, currentUser)
      <4>1. UserAfter(worker', syncUser, 1, currentUser)
        <5>1. \A j \in 1 + 1 .. 1 : worker'[j].type # "credential"
          OBVIOUS
        <5>2. 1 \in 1 .. 1
          OBVIOUS
        <5> QED  BY <2>b, <3>2, <5>1, <5>2 DEF UserAfter
      <4>2. worker'[1 + 1].type # "credential"
        BY <2>b, <3>2
      <4>3. UserAfter(worker', syncUser, 1 + 1, currentUser)
        BY <4>1, <4>2, UserAfterWrite
      <4> QED  BY <4>3
    <3>7. <<c, currentUser>> \in Mine'
      BY <1>y, <1>2, <2>2 DEF Mine
    <3>8. Owned(worker', syncUser, Mine')
      <4>1. ASSUME NEW i \in 1 .. Len(worker'), worker'[i].type = "write"
            PROVE  \E u \in Users : /\ UserAfter(worker', syncUser, i, u)
                                    /\ <<worker'[i].write, u>> \in Mine'
        <5>1. i = 2
          BY <2>b, <3>2, <3>3, <4>1
        <5>2. worker'[i].write = c
          BY <2>b, <3>2, <5>1
        <5> QED  BY <1>y, <3>6, <3>7, <5>1, <5>2
      <4> QED  BY <4>1 DEF Owned
    <3> QED  BY <1>y, <3>1, <3>2, <3>4, <3>5, <3>6, <3>8
  <2> QED  BY <2>1, <2>2
<1>6. \A d \in Calls : /\ Settling(d)' <=> Settling(d)
                       /\ \A u \in Users : Queued(d, u)' <=> Queued(d, u)
  BY <1>u, <1>1 DEF Settling, Queued
<1>7. OnePlace'
  <2>1. \A d \in Calls :
           Store!Written(d, "ok") \in ToSet(mainQueue') => d \in applied'
    BY <1>t, <1>u, <1>1, Sets DEF OnePlace
  <2>2. ASSUME NEW d \in Calls, InWorker(d)'
        PROVE  d \in issued' /\ ~Settling(d)' /\ \A u \in Users : ~Queued(d, u)'
    <3>1. CASE d = c
      BY <1>2, <1>e, <1>6, <3>1
    <3>2. CASE d # c
      <4>1. InWorker(d)
        BY <1>5, <2>2, <3>2
      <4> QED  BY <1>t, <1>2, <1>6, <4>1 DEF OnePlace
    <3> QED  BY <3>1, <3>2
  <2>3. /\ applied' \subseteq issued'
        /\ \A d \in Calls : Settling(d)' => d \in issued'
    BY <1>t, <1>u, <1>2, <1>6 DEF OnePlace
  <2>4. \A d \in Calls : \A u \in Users : Queued(d, u)' =>
           /\ d \in issued' /\ ~Settling(d)'
           /\ \A v \in Users : Queued(d, v)' => u = v
    BY <1>t, <1>2, <1>6 DEF OnePlace
  <2>5. \A u \in Users : \A d \in callbacks'[u] : Queued(d, u)'
    BY <1>t, <1>u, <1>6, Typed DEF OnePlace
  <2> QED  BY <2>1, <2>2, <2>3, <2>4, <2>5 DEF OnePlace
<1>8. Untold'
  <2>1. ASSUME NEW d \in Calls,
               \/ calls'[d].stage # "answered"
               \/ InWorker(d)'
               \/ Settling(d)'
               \/ \E u \in Users : Queued(d, u)'
        PROVE  told'[d] = <<>>
    <3>1. CASE d = c
      BY <1>u, <1>e, <3>1
    <3>2. CASE d # c
      <4>1. calls'[d] = calls[d] /\ (InWorker(d)' => InWorker(d))
        BY <1>4, <1>5, <3>2
      <4> QED  BY <1>t, <1>u, <1>6, <2>1, <4>1 DEF Untold
    <3> QED  BY <3>1, <3>2
  <2> QED  BY <2>1 DEF Untold
<1>9. Bereft'
  <2>1. ASSUME NEW d \in abandoned'
        PROVE  /\ calls'[d].stage \in {"answered", "lost"}
               /\ ~InWorker(d)' /\ ~Settling(d)'
               /\ \A u \in Users : d \notin callbacks'[u]
    <3>1. d \in Calls /\ d \in abandoned /\ d # c
      BY <1>t, <1>u, <1>e, <2>1, Typed
    <3>2. calls'[d] = calls[d] /\ (InWorker(d)' => InWorker(d))
      BY <1>4, <1>5, <3>1
    <3> QED  BY <1>t, <1>u, <1>6, <3>1, <3>2 DEF Bereft
  <2> QED  BY <2>1 DEF Bereft
<1>10. WorkerKnows'
  BY <1>u, <1>5 DEF WorkerKnows
<1>11. ProfileFiledUnderOwner'
  <2>1. builders \subseteq builders'
    BY <1>2
  <2>2. \A u \in Users : ToSet(mutations[u]) \subseteq Calls
    BY <1>t, Typed DEF ToSet
  <2> QED  BY <1>t, <1>u, <1>4, <2>1, <2>2, Sets DEF ProfileFiledUnderOwner
<1>12. Announced'
  BY <1>1, <1>4, AnnouncedTail
<1>13. ToldOnce'
  BY <1>t, <1>u DEF ToldOnce
<1>14. Earned'
  <2>1. \A d \in Calls : \A b \in Answers :
           Replying(d, b)' => Replying(d, b) /\ d # c
    BY <1>1 DEF Replying
  <2>2. issued \subseteq Calls
    BY <1>t, Typed
  <2>3. \A d \in Calls : \A b \in Answers :
           Replying(d, b)' => calls'[d].stage = "replying"
    BY <1>t, <1>4, <2>1 DEF Earned
  <2>4. \A d \in Calls :
           calls'[d].stage = "granted" \/ Replying(d, "ok")' => HasAccount(d)'
    BY <1>t, <1>1, <1>4, <2>1, Sets DEF Earned
  <2>5. ASSUME NEW d \in issued'
        PROVE  /\ calls'[d].stage = "answered"
               /\ calls'[d].op = "register"
               /\ HasAccount(d)'
    <3>1. CASE d = c
      BY <1>1, <1>2, <1>3, <1>4, <3>1
    <3>2. CASE d # c
      <4>1. d \in issued /\ d \in Calls /\ calls'[d] = calls[d]
        BY <1>2, <1>4, <2>2, <2>5, <3>2
      <4> QED  BY <1>t, <1>4, <4>1 DEF Earned
    <3> QED  BY <3>1, <3>2
  <2> QED  BY <2>3, <2>4, <2>5 DEF Earned
<1>15. OnceEach'
  BY <1>t, <1>u, <1>1, <1>5, MainHead DEF OnceEach
<1>16. TypeOK'
  <2>1. created' \in BOOLEAN
    BY <1>2
  <2>2. (applied' \cup issued' \cup abandoned' \cup builders') \subseteq Calls
    BY <1>t, <1>u, <1>2, Typed
  <2>3. mainQueue' \in Seq(Items)
    BY <1>1, MainHead
  <2> QED
    BY <1>t, <1>u, <1>4, <1>5, <2>1, <2>2, <2>3 DEF TypeOK, Items, Users
<1> QED
  BY <1>4, <1>7, <1>8, <1>9, <1>10, <1>11, <1>12, <1>13, <1>14, <1>15, <1>16
     DEF ServiceInv

(* The process dies: what was under way in it is lost or stays on disk.    *)
LEMMA RelaunchStep ==
    ASSUME ServiceInv, Relaunch
    PROVE  ServiceInv'
<1>t. /\ TypeOK /\ OnceEach /\ AccountsMade /\ Earned /\ OnePlace /\ Untold
      /\ Bereft /\ WorkerKnows /\ ProfileFiledUnderOwner /\ ToldOnce
  BY DEF ServiceInv
<1>1. /\ restarts < MaxRestarts /\ restarts' = restarts + 1
      /\ currentUser' = NoUser /\ loader' = "booting"
      /\ calls' = [c \in Calls |->
                     IF Auth!Lost(c) THEN [calls[c] EXCEPT !.stage = "lost"]
                                     ELSE calls[c]]
      /\ mainQueue' = <<>> /\ heard' = NoUser
      /\ UNCHANGED <<accounts, keychain>>
  BY DEF Relaunch, Auth!Restart
<1>2. /\ created' = FALSE /\ credential' = NoUser /\ worker' = <<>>
      /\ syncUser' = NoEngine
      /\ callbacks' = [u \in Users |-> {}]
      /\ UNCHANGED <<mutations, applied, issued>>
      /\ abandoned' = abandoned \cup {c \in Calls : Waits(c)}
      /\ UNCHANGED <<told, made, builders>>
  BY Sets DEF Relaunch, Store!Relaunch
<1>3. ASSUME NEW c \in Calls
      PROVE  /\ calls'[c] \in Auth!CallRecords
             /\ calls'[c].op = calls[c].op /\ calls'[c].email = calls[c].email
             /\ calls'[c].stage \in {"idle", "answered", "lost"}
             /\ calls'[c].stage = "idle" <=> calls[c].stage = "idle"
             /\ calls'[c].stage = "answered" <=> calls[c].stage = "answered"
             /\ calls[c].stage = "lost" => calls'[c].stage = "lost"
  <2>c. calls[c] \in Auth!CallRecords
    BY <1>t, Typed
  <2>1. CASE Auth!Lost(c)
    <3>1. calls'[c] = [calls[c] EXCEPT !.stage = "lost"]
      BY <1>1, <2>1
    <3>2. calls[c].stage \in {"sent", "granted", "refused", "replying"}
      BY <2>1 DEF Auth!Lost, Auth!At
    <3>3. calls[c] \in [op : Auth!Ops, email : Emails,
                        stage : Auth!Stages \ {"idle"}]
      BY <1>t, <3>2, MadeCall
    <3>4. calls'[c] \in [op : Auth!Ops, email : Emails,
                         stage : Auth!Stages \ {"idle"}]
      BY <3>1, <3>3 DEF Auth!Stages
    <3>5. /\ calls'[c].op = calls[c].op /\ calls'[c].email = calls[c].email
          /\ calls'[c].stage = "lost"
      BY <3>1, <3>3
    <3> QED  BY <3>2, <3>4, <3>5 DEF Auth!CallRecords
  <2>2. CASE ~Auth!Lost(c)
    <3>1. calls'[c] = calls[c]
      BY <1>1, <2>2
    <3>2. calls[c].stage \in Auth!Stages
      BY <2>c DEF Auth!CallRecords, Auth!IdleCall, Auth!Stages
    <3>3. calls[c].stage \in {"idle", "answered", "lost"}
      BY <2>2, <3>2 DEF Auth!Lost, Auth!At, Auth!Stages
    <3> QED  BY <2>c, <3>1, <3>3
  <2> QED  BY <2>1, <2>2
<1>4. /\ \A m : m \notin ToSet(mainQueue') /\ m \notin ToSet(worker')
      /\ \A c \in Calls : /\ ~InWorker(c)' /\ ~Settling(c)'
                          /\ \A a \in Answers : ~Replying(c, a)'
                          /\ \A u \in Users : Queued(c, u)' <=> Queued(c, u)
      /\ \A u \in Users : callbacks'[u] = {}
  <2>1. \A m : m \notin ToSet(<<>>)
    BY DEF ToSet
  <2> QED  BY <1>1, <1>2, <2>1 DEF InWorker, Settling, Replying, Queued
<1>5. \A c \in Calls : HasAccount(c)' <=> HasAccount(c)
  BY <1>1, <1>2, <1>3 DEF HasAccount
<1>6. Earned'
  BY <1>t, <1>2, <1>3, <1>4, <1>5, Sets, Typed DEF Earned
<1>7. OnePlace'
  BY <1>t, <1>2, <1>4 DEF OnePlace
<1>8. Untold'
  BY <1>t, <1>2, <1>3, <1>4 DEF Untold
<1>9. Bereft'
  <2>1. ASSUME NEW c \in abandoned'
        PROVE  c \in Calls /\ calls'[c].stage \in {"answered", "lost"}
    <3>1. CASE c \in abandoned
      <4>1. c \in Calls /\ calls[c].stage \in {"answered", "lost"}
        BY <1>t, <3>1, Typed DEF Bereft
      <4> QED  BY <1>3, <4>1
    <3>2. CASE c \notin abandoned
      <4>1. c \in Calls /\ calls[c].stage # "idle"
        BY <1>2, <2>1, <3>2 DEF Waits
      <4> QED  BY <1>3, <4>1
    <3> QED  BY <3>1, <3>2
  <2> QED  BY <1>4, <2>1 DEF Bereft
<1>10. WorkerKnows'
  BY <1>2 DEF WorkerKnows, Owned
<1>11. Announced'
  BY <1>1 DEF Announced, FollowsNotice
<1>12. ProfileFiledUnderOwner'
  <2>1. \A u \in Users : ToSet(mutations[u]) \subseteq Calls
    BY <1>t, Typed DEF ToSet
  <2> QED  BY <1>t, <1>2, <1>3, <2>1, Sets DEF ProfileFiledUnderOwner
<1>13. ToldOnce' /\ AccountsMade'
  BY <1>t, <1>1, <1>2 DEF ToldOnce, AccountsMade
<1>14. OnceEach'
  BY <1>t, <1>1, <1>2 DEF OnceEach, NoTwins
<1>15. TypeOK'
  <2>1. calls' \in [Calls -> Auth!CallRecords]
    BY <1>1, <1>3
  <2>2. callbacks' \in [Store!Owners -> SUBSET Calls]
    BY <1>2, Sets
  <2>3. restarts' \in 0 .. MaxRestarts
    BY <1>t, <1>1, BoundsAssumption DEF TypeOK
  <2>4. /\ mainQueue' \in Seq(Auth!AuthItems \cup Store!WrittenItems)
        /\ worker' \in Seq(Store!Blocks)
    BY <1>1, <1>2
  <2>5. (applied' \cup issued' \cup abandoned' \cup builders') \subseteq Calls
    BY <1>t, <1>2, Typed
  <2>6. /\ created' \in BOOLEAN /\ loader' \in Auth!Loaders
        /\ syncUser' \in Emails \cup {NoUser, NoEngine}
        /\ {currentUser', keychain', heard', credential'}
              \subseteq Emails \cup {NoUser}
    BY <1>t, <1>1, <1>2 DEF TypeOK, Auth!Loaders
  <2>7. /\ accounts' \subseteq Emails
        /\ mutations' \in [Store!Owners -> Seq(Calls)]
        /\ told' \in [Calls -> Seq(Auth!Answers)]
        /\ made' \in [Emails -> Calls \cup {Nobody, Earlier}]
    BY <1>t, <1>1, <1>2 DEF TypeOK
  <2> QED  BY <2>1, <2>2, <2>3, <2>4, <2>5, <2>6, <2>7 DEF TypeOK
<1> QED
  BY <1>6, <1>7, <1>8, <1>9, <1>10, <1>11, <1>12, <1>13, <1>14, <1>15
     DEF ServiceInv

-----------------------------------------------------------------------------
(* The invariant holds                                                     *)

LEMMA ServiceInvInit == Init => ServiceInv
<1> SUFFICES ASSUME Init PROVE ServiceInv
  OBVIOUS
<1>1. /\ accounts \in SUBSET Emails /\ currentUser = NoUser /\ keychain = NoUser
      /\ loader = "booting" /\ calls = [c \in Calls |-> Auth!IdleCall]
      /\ mainQueue = <<>> /\ heard = NoUser /\ restarts = 0
  BY DEF Init, Auth!AuthInit
<1>2. /\ created = FALSE /\ credential = NoUser /\ worker = <<>>
      /\ syncUser = NoEngine
      /\ mutations = [u \in Users |-> <<>>]
      /\ callbacks = [u \in Users |-> {}]
      /\ applied = {} /\ issued = {}
  BY Sets DEF Init, Store!StoreInit
<1>3. /\ told = [c \in Calls |-> <<>>] /\ abandoned = {} /\ builders = {}
      /\ made = [e \in Emails |-> IF e \in accounts THEN Earlier ELSE Nobody]
  BY DEF Init
<1>4. /\ \A m : m \notin ToSet(<<>>)
      /\ IsInjective(<<>>)
  BY DEF ToSet, IsInjective
<1>5. \A c \in Calls : calls[c].stage = "idle"
  BY <1>1 DEF Auth!IdleCall
<1>6. TypeOK
  <2>1. calls \in [Calls -> Auth!CallRecords]
    BY <1>1 DEF Auth!CallRecords
  <2>2. /\ mutations \in [Store!Owners -> Seq(Calls)]
        /\ callbacks \in [Store!Owners -> SUBSET Calls]
    BY <1>2, Sets
  <2>3. told \in [Calls -> Seq(Auth!Answers)]
    BY <1>3
  <2>4. made \in [Emails -> Calls \cup {Nobody, Earlier}]
    BY <1>3
  <2>5. restarts \in 0 .. MaxRestarts
    BY <1>1, BoundsAssumption
  <2>6. /\ accounts \subseteq Emails
        /\ {currentUser, keychain, heard, credential} \subseteq Emails \cup {NoUser}
        /\ created \in BOOLEAN /\ loader \in Auth!Loaders
        /\ syncUser \in Emails \cup {NoUser, NoEngine}
        /\ (applied \cup issued \cup abandoned \cup builders) \subseteq Calls
    BY <1>1, <1>2, <1>3 DEF Auth!Loaders
  <2>7. /\ worker \in Seq(Store!Blocks)
        /\ mainQueue \in Seq(Auth!AuthItems \cup Store!WrittenItems)
    BY <1>1, <1>2
  <2> QED  BY <2>1, <2>2, <2>3, <2>4, <2>5, <2>6, <2>7 DEF TypeOK
<1>7. OnceEach
  BY <1>1, <1>2, <1>4 DEF OnceEach, NoTwins
<1>8. AccountsMade
  BY <1>3 DEF AccountsMade, Nobody, Earlier
<1>9. \A c \in Calls : /\ ~InWorker(c) /\ ~Settling(c)
                       /\ \A a \in Answers : ~Replying(c, a)
                       /\ \A u \in Users : ~Queued(c, u)
                       /\ Store!Written(c, "ok") \notin ToSet(mainQueue)
  BY <1>1, <1>2, <1>4 DEF InWorker, Settling, Replying, Queued
<1>10. Earned
  BY <1>2, <1>5, <1>9, Sets DEF Earned
<1>11. OnePlace
  BY <1>2, <1>9 DEF OnePlace
<1>12. Untold /\ Bereft /\ ToldOnce
  BY <1>3 DEF Untold, Bereft, ToldOnce
<1>13. WorkerKnows /\ Announced
  BY <1>1, <1>2 DEF WorkerKnows, Owned, Announced, FollowsNotice
<1>14. ProfileFiledUnderOwner
  BY <1>2, <1>4, Sets DEF ProfileFiledUnderOwner
<1> QED
  BY <1>6, <1>7, <1>8, <1>10, <1>11, <1>12, <1>13, <1>14 DEF ServiceInv

LEMMA Stutters ==
    ASSUME ServiceInv, UNCHANGED vars
    PROVE  ServiceInv'
<1>1. UNCHANGED <<accounts, calls, heard, storeOnly, told, abandoned, made,
                  builders, restarts, mainQueue, currentUser, keychain, loader>>
  BY DEF vars, authOnly
<1>2. currentUser \in Users /\ keychain \in Users /\ loader \in Auth!Loaders
  BY DEF ServiceInv, TypeOK, Users
<1> QED  BY <1>1, <1>2, QuietStep

LEMMA ServiceInvStep == ServiceInv /\ [Next]_vars => ServiceInv'
<1> SUFFICES ASSUME ServiceInv, [Next]_vars PROVE ServiceInv'
  OBVIOUS
<1>1. ASSUME NEW c \in Calls, NEW e \in Emails, registerUser(c, e) \/ signIn(c, e)
      PROVE  ServiceInv'
  BY <1>1, InvokeStep DEF registerUser, signIn, Auth!Ops
<1>2. CASE signOut
  BY <1>2, SessionSteps
<1>3. ASSUME NEW c \in Calls, Grant(c) PROVE ServiceInv'
  BY <1>3, GrantStep
<1>4. CASE WorkQueueStep
  BY <1>4, SessionSteps, RefuseStep, CompleteStep, FailStep DEF WorkQueueStep
<1>5. CASE WorkerStep
  BY <1>5, HandleCredentialStep, WriteStep DEF WorkerStep
<1>6. CASE StoreStep
  BY <1>6, AppliesStep, SettleStep, Sets
     DEF StoreStep, Store!HandleSuccessfulWrite, Store!HandleRejectedWrite
<1>7. CASE MainStep
  BY <1>7, NotificationStep, CallAnsweredStep, AccountCreatedStep,
     ProfileSettledStep DEF MainStep
<1>8. CASE Relaunch
  BY <1>8, RelaunchStep
<1>9. CASE UNCHANGED vars
  BY <1>9, Stutters
<1> QED
  BY <1>1, <1>2, <1>3, <1>4, <1>5, <1>6, <1>7, <1>8, <1>9 DEF Next

(* The inductive invariant.                                                *)
THEOREM ServiceInvariant == Spec => []ServiceInv
<1> QED  BY ServiceInvInit, ServiceInvStep, PTL DEF Spec

(* The two services stay well formed together: every profile is filed      *)
(* under the account it is about (but the one that built the client), and  *)
(* no closure of a screen is called twice (AuthService.registerUser,       *)
(* AuthService.signIn).                                                    *)
THEOREM ServiceIsConsistent == Spec => []ServiceConsistent
<1>1. ServiceInv => ServiceConsistent
  BY DEF ServiceInv, ServiceConsistent
<1> QED  BY <1>1, ServiceInvariant, PTL

-----------------------------------------------------------------------------
(* The trail of a profile                                                  *)

(* A registration whose profile exists or may still be written: Writing,   *)
(* without the operation.                                                  *)
OnItsWay(c) ==
    \/ calls[c].stage = "granted"
    \/ Replying(c, "ok")
    \/ InWorker(c)
    \/ \E u \in Users : Queued(c, u)
    \/ c \in applied

(* Nobody gets onto the way of a profile but by being granted.             *)
Trail == \A c \in Calls : OnItsWay(c)' => OnItsWay(c)

(* What was asked stays asked, and nothing new is.                         *)
CallsKept ==
    \A c \in Calls :
       /\ calls'[c].op = calls[c].op
       /\ calls'[c].email = calls[c].email
       /\ calls'[c].stage = "idle" <=> calls[c].stage = "idle"

Steady == CallsKept /\ Trail /\ accounts' = accounts

LEMMA InQueue ==
    ASSUME NEW q, NEW x
    PROVE  x \in ToSet(q) <=> \E i \in DOMAIN q : q[i] = x
BY DEF ToSet

LEMMA WritingMeans ==
    ASSUME NEW c \in Calls
    PROVE  Writing(c) <=> calls[c].op = "register" /\ OnItsWay(c)
<1>1. Replying(c, "ok") <=> \E i \in DOMAIN mainQueue :
                               mainQueue[i] = Auth!Reply(c, "ok")
  BY InQueue DEF Replying
<1>2. InWorker(c) <=> \E i \in DOMAIN worker : worker[i] = Store!Write(c)
  BY InQueue DEF InWorker
<1>3. (\E u \in Users : Queued(c, u))
         <=> \E u \in Store!Owners : c \in ToSet(mutations[u])
  BY Sets DEF Queued
<1> QED  BY <1>1, <1>2, <1>3 DEF Writing, OnItsWay

LEMMA WritingMeansNext ==
    ASSUME NEW c \in Calls
    PROVE  Writing(c)' <=> calls'[c].op = "register" /\ OnItsWay(c)'
<1>1. Replying(c, "ok")' <=> \E i \in DOMAIN mainQueue' :
                                mainQueue'[i] = Auth!Reply(c, "ok")
  BY InQueue DEF Replying
<1>2. InWorker(c)' <=> \E i \in DOMAIN worker' : worker'[i] = Store!Write(c)
  BY InQueue DEF InWorker
<1>3. (\E u \in Users : Queued(c, u))'
         <=> \E u \in Store!Owners : c \in ToSet(mutations'[u])
  BY Sets DEF Queued
<1> QED  BY <1>1, <1>2, <1>3 DEF Writing, OnItsWay

(* A call that moves a stage further.                                      *)
LEMMA MoveKeeps ==
    ASSUME ServiceInv, NEW c \in Calls, calls[c].stage # "idle",
           NEW stage \in Auth!Stages \ {"idle"}, Auth!MoveTo(c, stage)
    PROVE  /\ CallsKept
           /\ calls'[c].stage = stage
           /\ \A d \in Calls : d # c => calls'[d] = calls[d]
<1>t. TypeOK
  BY DEF ServiceInv
<1>1. PICK r \in Auth!CallRecords : /\ calls' = [calls EXCEPT ![c] = r]
                                    /\ r.stage = stage
                                    /\ r.op = calls[c].op
                                    /\ r.email = calls[c].email
  BY <1>t, Moved
<1>2. calls'[c] = r /\ \A d \in Calls : d # c => calls'[d] = calls[d]
  BY <1>t, <1>1, Typed
<1>3. ASSUME NEW d \in Calls
      PROVE  /\ calls'[d].op = calls[d].op
             /\ calls'[d].email = calls[d].email
             /\ calls'[d].stage = "idle" <=> calls[d].stage = "idle"
  BY <1>1, <1>2
<1> QED  BY <1>1, <1>2, <1>3 DEF CallsKept

(* A step that moves no profile write.                                     *)
LEMMA SteadyByPlace ==
    ASSUME CallsKept, accounts' = accounts,
           UNCHANGED <<worker, mutations, applied>>,
           \A c \in Calls : calls'[c].stage = "granted" => OnItsWay(c),
           \A c \in Calls : Replying(c, "ok")' => OnItsWay(c)
    PROVE  Steady
<1>1. ASSUME NEW c \in Calls, OnItsWay(c)' PROVE OnItsWay(c)
  <2>1. (InWorker(c)' => InWorker(c)) /\ (c \in applied' => c \in applied)
    BY DEF InWorker
  <2>2. \A u \in Users : Queued(c, u)' => Queued(c, u)
    BY DEF Queued
  <2>3. (OnItsWay(c))' => \/ calls'[c].stage = "granted"
                          \/ Replying(c, "ok")'
                          \/ InWorker(c)'
                          \/ \E u \in Users : Queued(c, u)'
                          \/ c \in applied'
    BY DEF OnItsWay
  <2>4. CASE calls'[c].stage = "granted" \/ Replying(c, "ok")'
    BY <2>4
  <2>5. CASE InWorker(c)' \/ (\E u \in Users : Queued(c, u)') \/ c \in applied'
    BY <2>1, <2>2, <2>5 DEF OnItsWay
  <2> QED  BY <1>1, <2>3, <2>4, <2>5
<1> QED  BY <1>1 DEF Steady, Trail

(* Steps of the session.                                                   *)
LEMMA QuietSteady ==
    ASSUME ServiceInv,
           UNCHANGED <<accounts, calls, storeOnly>>,
           \/ mainQueue' = mainQueue
           \/ \E u \in Users : mainQueue' = Append(mainQueue, Auth!Notice(u))
    PROVE  Steady
<1>q. mainQueue \in Seq(Items) /\ NoTwins(mainQueue)
  BY Typed DEF ServiceInv, OnceEach
<1>1. \A c \in Calls : Replying(c, "ok")' => Replying(c, "ok")
  BY <1>q, NoticeJoins, Sets DEF Replying
<1> QED  BY <1>1, SteadyByPlace DEF storeOnly, CallsKept, OnItsWay

LEMMA SessionSteady ==
    ASSUME ServiceInv,
           \/ Auth!SignOut
           \/ Auth!LoadSavedUser
           \/ Auth!LoadFails
           \/ Auth!ProtectedDataDidBecomeAvailable
           \/ Auth!RefreshToken
           \/ Auth!RevokeSession,
           UNCHANGED storeOnly
    PROVE  Steady
<1>t. currentUser \in Users /\ keychain \in Users /\ NoUser \in Users
  BY Sets DEF ServiceInv, TypeOK, Users
<1>1. CASE Auth!SignOut
  BY <1>1, <1>t, QuietSteady DEF Auth!SignOut
<1>2. CASE Auth!LoadSavedUser
  BY <1>2, <1>t, QuietSteady DEF Auth!LoadSavedUser, Auth!PostIfChanged
<1>3. CASE Auth!LoadFails
  BY <1>3, QuietSteady DEF Auth!LoadFails
<1>4. CASE Auth!ProtectedDataDidBecomeAvailable
  BY <1>4, QuietSteady DEF Auth!ProtectedDataDidBecomeAvailable
<1>5. CASE Auth!RefreshToken
  BY <1>5, <1>t, QuietSteady DEF Auth!RefreshToken
<1>6. CASE Auth!RevokeSession
  BY <1>6, <1>t, QuietSteady DEF Auth!RevokeSession
<1> QED  BY <1>1, <1>2, <1>3, <1>4, <1>5, <1>6

(* Steps of a call, once the backend has answered it.                      *)
LEMMA RefuseSteady ==
    ASSUME ServiceInv, NEW c \in Calls, Auth!BackendRefuses(c),
           UNCHANGED storeOnly
    PROVE  Steady
<1>1. /\ calls[c].stage = "sent" /\ Auth!MoveTo(c, "refused")
      /\ mainQueue' = mainQueue /\ accounts' = accounts
  BY DEF Auth!BackendRefuses, Auth!At
<1>2. /\ CallsKept /\ calls'[c].stage = "refused"
      /\ \A d \in Calls : d # c => calls'[d] = calls[d]
  BY <1>1, MoveKeeps DEF Auth!Stages
<1>3. \A d \in Calls : calls'[d].stage = "granted" => OnItsWay(d)
  BY <1>2 DEF OnItsWay
<1>4. \A d \in Calls : Replying(d, "ok")' => OnItsWay(d)
  BY <1>1 DEF OnItsWay, Replying
<1> QED  BY <1>1, <1>2, <1>3, <1>4, SteadyByPlace DEF storeOnly

LEMMA ReplySteady ==
    ASSUME ServiceInv, NEW c \in Calls, NEW a \in Answers,
           calls[c].stage \in {"sent", "granted", "refused"},
           a = "ok" => calls[c].stage = "granted",
           Auth!MoveTo(c, "replying"),
           NEW q \in Seq(Items),
           \A d \in Calls : Auth!Reply(d, "ok") \in ToSet(q)
                               <=> Auth!Reply(d, "ok") \in ToSet(mainQueue),
           mainQueue' = Append(q, Auth!Reply(c, a)),
           accounts' = accounts,
           UNCHANGED storeOnly
    PROVE  Steady
<1>1. /\ CallsKept /\ calls'[c].stage = "replying"
      /\ \A d \in Calls : d # c => calls'[d] = calls[d]
  BY MoveKeeps DEF Auth!Stages
<1>2. \A d \in Calls : calls'[d].stage = "granted" => OnItsWay(d)
  BY <1>1 DEF OnItsWay
<1>3. ASSUME NEW d \in Calls, Replying(d, "ok")' PROVE OnItsWay(d)
  <2>1. Auth!Reply(d, "ok") \in ToSet(mainQueue')
    BY <1>3 DEF Replying
  <2>2. ToSet(mainQueue') = ToSet(q) \cup {Auth!Reply(c, a)}
    BY ItemsTyped, Joins
  <2>3. CASE Auth!Reply(d, "ok") = Auth!Reply(c, a)
    <3>1. d = c /\ a = "ok"
      BY <2>3, Fields
    <3> QED  BY <3>1 DEF OnItsWay
  <2>4. CASE Auth!Reply(d, "ok") \in ToSet(q)
    BY <2>4 DEF OnItsWay, Replying
  <2> QED  BY <2>1, <2>2, <2>3, <2>4
<1> QED  BY <1>1, <1>2, <1>3, SteadyByPlace DEF storeOnly

LEMMA FailSteady ==
    ASSUME ServiceInv, NEW c \in Calls, Auth!FailCall(c), UNCHANGED storeOnly
    PROVE  Steady
<1>1. /\ calls[c].stage \in {"sent", "granted", "refused"}
      /\ Auth!MoveTo(c, "replying")
      /\ mainQueue' = Append(mainQueue, Auth!Reply(c, "failed"))
      /\ accounts' = accounts
  BY DEF Auth!FailCall, Auth!At
<1>2. mainQueue \in Seq(Items) /\ "failed" \in Answers
  BY Typed, Sets DEF ServiceInv
<1> QED  BY <1>1, <1>2, ReplySteady

LEMMA CompleteSteady ==
    ASSUME ServiceInv, NEW c \in Calls, Auth!CompleteSignIn(c),
           UNCHANGED storeOnly
    PROVE  Steady
<1> DEFINE q == Append(mainQueue, Auth!Notice(calls[c].email))
<1>1. /\ calls[c].stage = "granted"
      /\ Auth!MoveTo(c, "replying")
      /\ mainQueue' = Append(q, Auth!Reply(c, "ok"))
      /\ accounts' = accounts
  BY DEF Auth!CompleteSignIn, Auth!At
<1>2. mainQueue \in Seq(Items) /\ NoTwins(mainQueue)
  BY Typed DEF ServiceInv, OnceEach
<1>3. calls[c].email \in Users
  BY <1>1, MadeCall, Sets DEF ServiceInv
<1>4. /\ q \in Seq(Items)
      /\ \A d \in Calls : Auth!Reply(d, "ok") \in ToSet(q)
                             <=> Auth!Reply(d, "ok") \in ToSet(mainQueue)
  BY <1>2, <1>3, NoticeJoins, Joins, ItemsTyped, Sets
<1> HIDE DEF q
<1> QED  BY <1>1, <1>4, Sets, ReplySteady

(* A step that moves profile writes, and no call.                          *)
LEMMA SteadyByCalls ==
    ASSUME calls' = calls, accounts' = accounts,
           \A c \in Calls :
              /\ Replying(c, "ok")' => Replying(c, "ok")
              /\ InWorker(c)' => OnItsWay(c)
              /\ \A u \in Users : Queued(c, u)' => OnItsWay(c)
              /\ c \in applied' => OnItsWay(c)
    PROVE  Steady
<1>1. ASSUME NEW c \in Calls, OnItsWay(c)' PROVE OnItsWay(c)
  <2>1. \/ calls'[c].stage = "granted"
        \/ Replying(c, "ok")'
        \/ InWorker(c)'
        \/ \E u \in Users : Queued(c, u)'
        \/ c \in applied'
    BY <1>1 DEF OnItsWay
  <2>2. CASE calls'[c].stage = "granted" \/ Replying(c, "ok")'
    BY <2>2 DEF OnItsWay
  <2>3. CASE InWorker(c)' \/ (\E u \in Users : Queued(c, u)') \/ c \in applied'
    BY <2>3
  <2> QED  BY <2>1, <2>2, <2>3
<1>2. CallsKept
  BY DEF CallsKept
<1> QED  BY <1>1, <1>2 DEF Steady, Trail

(* Steps of the worker.                                                    *)
LEMMA HandleCredentialSteady ==
    ASSUME ServiceInv, Store!HandleCredential, UNCHANGED authOnly
    PROVE  Steady
<1>1. /\ worker # <<>> /\ worker' = Tail(worker)
      /\ UNCHANGED <<calls, accounts, mutations, applied, mainQueue>>
  BY DEF Store!HandleCredential, authOnly
<1>2. ToSet(worker') \subseteq ToSet(worker)
  BY <1>1, WorkerHead
<1>3. \A c \in Calls : InWorker(c)' => InWorker(c)
  BY <1>2 DEF InWorker
<1>4. \A c \in Calls : Replying(c, "ok")' => Replying(c, "ok")
  BY <1>1 DEF Replying
<1>5. \A c \in Calls : \A u \in Users : Queued(c, u)' => Queued(c, u)
  BY <1>1 DEF Queued
<1> QED  BY <1>1, <1>3, <1>4, <1>5, SteadyByCalls DEF OnItsWay

LEMMA WriteSteady ==
    ASSUME ServiceInv, Store!WriteMutations, UNCHANGED authOnly
    PROVE  Steady
<1>w. PICK w \in Calls :
         w = Head(worker).write /\ Head(worker) = Store!Write(w)
  BY WorkerHead, BlocksTyped DEF Store!WriteMutations
<1>1. /\ worker # <<>> /\ worker' = Tail(worker)
      /\ mutations' = [mutations EXCEPT ![syncUser] = Append(@, w)]
      /\ UNCHANGED <<calls, accounts, applied, mainQueue>>
  BY <1>w DEF Store!WriteMutations, authOnly
<1>2. ToSet(worker) = ToSet(worker') \cup {Store!Write(w)}
  BY <1>w, <1>1, WorkerHead
<1>3. \A c \in Calls : InWorker(c)' => InWorker(c)
  BY <1>2 DEF InWorker
<1>4. \A c \in Calls : Replying(c, "ok")' => Replying(c, "ok")
  BY <1>1 DEF Replying
<1>5. InWorker(w)
  BY <1>2 DEF InWorker
<1>6. ASSUME NEW c \in Calls, NEW u \in Users, Queued(c, u)'
      PROVE  OnItsWay(c)
  <2>1. mutations \in [Users -> Seq(Calls)]
    BY Typed DEF ServiceInv
  <2>2. CASE u = syncUser
    <3>1. mutations'[u] = Append(mutations[u], w)
      BY <1>1, <2>1, <2>2
    <3>2. ToSet(mutations'[u]) = ToSet(mutations[u]) \cup {w}
      BY <2>1, <3>1, ToSetOfAppend
    <3> QED  BY <1>5, <1>6, <3>2 DEF Queued, OnItsWay
  <2>3. CASE u # syncUser
    <3>1. mutations'[u] = mutations[u]
      BY <1>1, <2>1, <2>3
    <3> QED  BY <1>6, <3>1 DEF Queued, OnItsWay
  <2> QED  BY <2>2, <2>3
<1> QED  BY <1>1, <1>3, <1>4, <1>6, SteadyByCalls DEF OnItsWay

(* Steps of the Firestore backend, and of what answers it.                 *)
LEMMA AppliesQueued ==
    ASSUME ServiceInv, NEW w \in Calls, Store!BackendApplies(w)
    PROVE  syncUser \in Users /\ Queued(w, syncUser)
<1>1. syncUser \in Users
  BY DEF ServiceInv, Store!BackendApplies, Store!Sending, TypeOK, Users
<1>2. PICK i \in DOMAIN mutations[syncUser] : mutations[syncUser][i] = w
  BY DEF Store!BackendApplies
<1> QED  BY <1>1, <1>2 DEF Queued, ToSet

LEMMA AppliesSteady ==
    ASSUME ServiceInv, NEW w \in Calls, Store!BackendApplies(w),
           UNCHANGED authOnly
    PROVE  Steady
<1>1. /\ applied' = applied \cup {w}
      /\ UNCHANGED <<calls, accounts, worker, mutations, mainQueue>>
  BY DEF Store!BackendApplies, authOnly
<1>2. \A c \in Calls : c \in applied' => OnItsWay(c)
  BY <1>1, AppliesQueued DEF OnItsWay
<1>3. \A c \in Calls : /\ Replying(c, "ok")' => Replying(c, "ok")
                       /\ InWorker(c)' => InWorker(c)
                       /\ \A u \in Users : Queued(c, u)' => Queued(c, u)
  BY <1>1 DEF Replying, InWorker, Queued
<1> QED  BY <1>1, <1>2, <1>3, SteadyByCalls DEF OnItsWay

LEMMA SettleSteady ==
    ASSUME ServiceInv, NEW a \in Answers, Store!Sending, Store!SettleHead(a),
           UNCHANGED authOnly
    PROVE  Steady
<1>y. mainQueue \in Seq(Items) /\ mutations \in [Users -> Seq(Calls)]
  BY Typed DEF ServiceInv
<1>s. syncUser \in Users /\ mutations[syncUser] # <<>>
  BY DEF ServiceInv, Store!Sending, TypeOK, Users
<1>w. PICK w \in Calls : w = Head(mutations[syncUser])
  BY <1>y, <1>s, TailShape
<1>1. /\ mutations' = [mutations EXCEPT ![syncUser] = Tail(@)]
      /\ \/ mainQueue' = Append(mainQueue, Store!Written(w, a))
         \/ mainQueue' = mainQueue
      /\ UNCHANGED <<calls, accounts, worker, applied>>
  BY <1>w DEF Store!SettleHead, Store!RemoveMutationBatch, Store!NotifyUser,
              Store!Dispatch, Store!Settled, authOnly
<1>2. ASSUME NEW c \in Calls, NEW u \in Users, Queued(c, u)'
      PROVE  Queued(c, u)
  <2>1. CASE u = syncUser
    <3>1. mutations'[u] = Tail(mutations[u])
      BY <1>y, <1>1, <2>1
    <3>2. ToSet(mutations'[u]) \subseteq ToSet(mutations[u])
      BY <1>y, <1>s, <2>1, <3>1, ToSetOfTail
    <3> QED  BY <1>2, <3>2 DEF Queued
  <2>2. CASE u # syncUser
    <3>1. mutations'[u] = mutations[u]
      BY <1>y, <1>1, <2>2
    <3> QED  BY <1>2, <3>1 DEF Queued
  <2> QED  BY <2>1, <2>2
<1>3. ASSUME NEW c \in Calls, Replying(c, "ok")' PROVE Replying(c, "ok")
  <2>1. /\ Store!Written(w, a) \in Items
        /\ Store!Written(w, a) # Auth!Reply(c, "ok")
    BY ItemsTyped, Fields
  <2>2. CASE mainQueue' = Append(mainQueue, Store!Written(w, a))
    BY <1>y, <1>3, <2>1, <2>2, Joins DEF Replying
  <2>3. CASE mainQueue' = mainQueue
    BY <1>3, <2>3 DEF Replying
  <2> QED  BY <1>1, <2>2, <2>3
<1>4. \A c \in Calls : InWorker(c)' => InWorker(c)
  BY <1>1 DEF InWorker
<1> QED  BY <1>1, <1>2, <1>3, <1>4, SteadyByCalls DEF OnItsWay

(* Blocks of the main queue.                                               *)
LEMMA NotificationSteady ==
    ASSUME ServiceInv, Notification
    PROVE  Steady
<1>h. /\ mainQueue # <<>> /\ Head(mainQueue).type = "notice"
      /\ mainQueue' = Tail(mainQueue)
      /\ UNCHANGED <<calls, accounts, mutations, applied>>
  BY DEF Notification, Auth!DeliverNotice, Store!CredentialChanges
<1>w. PICK u \in Users : u = Head(mainQueue).user
  BY <1>h, MainHead, ItemsTyped
<1>1. \/ worker' = worker
      \/ worker' = Append(worker, Store!Credential(u))
  BY <1>w DEF Notification, Store!CredentialChanges
<1>2. worker \in Seq(Store!Blocks)
  BY Typed DEF ServiceInv
<1>3. ASSUME NEW c \in Calls, InWorker(c)' PROVE InWorker(c)
  <2>1. /\ Store!Credential(u) \in Store!Blocks
        /\ Store!Credential(u) # Store!Write(c)
    BY BlocksTyped, Fields
  <2>2. CASE worker' = Append(worker, Store!Credential(u))
    BY <1>2, <1>3, <2>1, <2>2, ToSetOfAppend DEF InWorker
  <2>3. CASE worker' = worker
    BY <1>3, <2>3 DEF InWorker
  <2> QED  BY <1>1, <2>2, <2>3
<1>4. \A c \in Calls : Replying(c, "ok")' => Replying(c, "ok")
  BY <1>h, MainHead DEF Replying
<1>5. \A c \in Calls : \A v \in Users : Queued(c, v)' => Queued(c, v)
  BY <1>h DEF Queued
<1> QED  BY <1>h, <1>3, <1>4, <1>5, SteadyByCalls DEF OnItsWay

LEMMA ProfileSettledSteady ==
    ASSUME ServiceInv, ProfileSettled
    PROVE  Steady
<1>1. /\ mainQueue # <<>> /\ mainQueue' = Tail(mainQueue)
      /\ UNCHANGED <<calls, accounts, worker, mutations, applied>>
  BY DEF ProfileSettled, Store!DeliverWritten, authOnly
<1>2. \A c \in Calls : Replying(c, "ok")' => Replying(c, "ok")
  BY <1>1, MainHead DEF Replying
<1>3. \A c \in Calls : /\ InWorker(c)' => InWorker(c)
                       /\ \A u \in Users : Queued(c, u)' => Queued(c, u)
  BY <1>1 DEF InWorker, Queued
<1> QED  BY <1>1, <1>2, <1>3, SteadyByCalls DEF OnItsWay

LEMMA AnswerSteady ==
    ASSUME ServiceInv, Auth!DeliverReply
    PROVE  /\ CallsKept
           /\ accounts' = accounts
           /\ \A c \in Calls : calls'[c].stage = "granted" => OnItsWay(c)
           /\ \A c \in Calls : Replying(c, "ok")' => OnItsWay(c)
<1>1. PICK c \in Calls : /\ Head(mainQueue).call = c
                         /\ calls[c].stage = "replying"
                         /\ mainQueue # <<>>
                         /\ mainQueue' = Tail(mainQueue)
  BY ReplyLeaves
<1>2. Auth!MoveTo(c, "answered") /\ accounts' = accounts
  BY <1>1 DEF Auth!DeliverReply
<1>3. /\ CallsKept /\ calls'[c].stage = "answered"
      /\ \A d \in Calls : d # c => calls'[d] = calls[d]
  BY <1>1, <1>2, MoveKeeps DEF Auth!Stages
<1>4. \A d \in Calls : calls'[d].stage = "granted" => OnItsWay(d)
  BY <1>3 DEF OnItsWay
<1>5. \A d \in Calls : Replying(d, "ok")' => OnItsWay(d)
  BY <1>1, MainHead DEF Replying, OnItsWay
<1> QED  BY <1>2, <1>3, <1>4, <1>5

LEMMA CallAnsweredSteady ==
    ASSUME ServiceInv, CallAnswered
    PROVE  Steady
BY AnswerSteady, SteadyByPlace DEF CallAnswered, storeOnly

LEMMA AccountCreatedSteady ==
    ASSUME ServiceInv, AccountCreated
    PROVE  Steady
<1>1. PICK c \in Calls : /\ Head(mainQueue) = Auth!Reply(c, "ok")
                         /\ Head(mainQueue).call = c
                         /\ mainQueue # <<>>
  BY ReplyLeaves DEF AccountCreated
<1>2. /\ worker' = IF created THEN Append(worker, Store!Write(c))
                   ELSE <<Store!Credential(currentUser), Store!Write(c)>>
      /\ UNCHANGED <<mutations, applied>>
  BY <1>1 DEF AccountCreated, Store!SetData
<1>3. OnItsWay(c)
  BY <1>1, MainHead DEF OnItsWay, Replying
<1>4. ASSUME NEW d \in Calls, InWorker(d)' PROVE OnItsWay(d)
  <2>1. CASE created
    <3>1. worker \in Seq(Store!Blocks) /\ Store!Write(c) \in Store!Blocks
      BY Typed, BlocksTyped DEF ServiceInv
    <3>2. ToSet(worker') = ToSet(worker) \cup {Store!Write(c)}
      BY <1>2, <2>1, <3>1, ToSetOfAppend
    <3>3. Store!Write(d) = Store!Write(c) => d = c
      BY Fields
    <3> QED  BY <1>3, <1>4, <3>2, <3>3 DEF InWorker, OnItsWay
  <2>2. CASE ~created
    <3>1. worker' = <<Store!Credential(currentUser), Store!Write(c)>>
      BY <1>2, <2>2
    <3>2. PICK i \in DOMAIN worker' : worker'[i] = Store!Write(d)
      BY <1>4, InQueue DEF InWorker
    <3>3. worker'[i] \in {Store!Credential(currentUser), Store!Write(c)}
      BY <3>1
    <3>4. d = c
      BY <3>2, <3>3, Fields
    <3> QED  BY <1>3, <3>4
  <2> QED  BY <2>1, <2>2
<1>5. ASSUME NEW d \in Calls, OnItsWay(d)' PROVE OnItsWay(d)
  <2>1. \/ calls'[d].stage = "granted"
        \/ Replying(d, "ok")'
        \/ InWorker(d)'
        \/ \E u \in Users : Queued(d, u)'
        \/ d \in applied'
    BY <1>5 DEF OnItsWay
  <2>2. (\E u \in Users : Queued(d, u)') \/ d \in applied' => OnItsWay(d)
    BY <1>2 DEF Queued, OnItsWay
  <2> QED  BY <1>4, <2>1, <2>2, AnswerSteady DEF AccountCreated
<1> QED  BY <1>5, AnswerSteady DEF AccountCreated, Steady, Trail

LEMMA RelaunchSteady ==
    ASSUME ServiceInv, Relaunch
    PROVE  Steady
<1>1. /\ calls' = [c \in Calls |->
                     IF Auth!Lost(c) THEN [calls[c] EXCEPT !.stage = "lost"]
                                     ELSE calls[c]]
      /\ mainQueue' = <<>> /\ worker' = <<>>
      /\ UNCHANGED <<accounts, mutations, applied>>
  BY DEF Relaunch, Auth!Restart, Store!Relaunch
<1>2. ASSUME NEW c \in Calls
      PROVE  /\ calls'[c].op = calls[c].op /\ calls'[c].email = calls[c].email
             /\ calls'[c].stage = "idle" <=> calls[c].stage = "idle"
             /\ calls'[c].stage = "granted" => calls[c].stage = "granted"
  <2>1. CASE Auth!Lost(c)
    <3>1. calls'[c] = [calls[c] EXCEPT !.stage = "lost"]
      BY <1>1, <2>1
    <3>2. calls[c].stage \in {"sent", "granted", "refused", "replying"}
      BY <2>1 DEF Auth!Lost, Auth!At
    <3>3. calls[c] \in [op : Auth!Ops, email : Emails,
                        stage : Auth!Stages \ {"idle"}]
      BY <3>2, MadeCall DEF ServiceInv
    <3>4. /\ calls'[c].op = calls[c].op /\ calls'[c].email = calls[c].email
          /\ calls'[c].stage = "lost"
      BY <3>1, <3>3
    <3> QED  BY <3>2, <3>4
  <2>2. CASE ~Auth!Lost(c)
    BY <1>1, <2>2
  <2> QED  BY <2>1, <2>2
<1>3. ToSet(<<>>) = {}
  BY DEF ToSet
<1>4. \A c \in Calls : ~Replying(c, "ok")' /\ ~InWorker(c)'
  BY <1>1, <1>3 DEF Replying, InWorker
<1>5. \A c \in Calls : OnItsWay(c)' => OnItsWay(c)
  BY <1>1, <1>2, <1>4 DEF OnItsWay, Queued
<1> QED  BY <1>1, <1>2, <1>5 DEF Steady, CallsKept, Trail

LEMMA StutterSteady == UNCHANGED vars => Steady
BY DEF vars, authOnly, storeOnly, Steady, CallsKept, Trail, OnItsWay, Replying,
       InWorker, Queued

-----------------------------------------------------------------------------
(* Orphans                                                                 *)

LEMMA OrphanKept ==
    ASSUME Steady, NEW e \in Emails, Orphan(e)
    PROVE  Orphan(e)'
<1>1. ASSUME NEW c \in Calls, calls'[c].email = e PROVE ~Writing(c)'
  <2>1. calls[c].email = e /\ calls'[c].op = calls[c].op
    BY <1>1 DEF Steady, CallsKept
  <2>2. ~Writing(c)
    BY <2>1 DEF Orphan
  <2>3. OnItsWay(c)' => OnItsWay(c)
    BY DEF Steady, Trail
  <2> QED  BY <2>1, <2>2, <2>3, WritingMeans, WritingMeansNext
<1>2. e \in accounts'
  BY DEF Orphan, Steady
<1> QED  BY <1>1, <1>2 DEF Orphan

(* A call that has just started is on no profile's way.                    *)
LEMMA OrphanInvoke ==
    ASSUME ServiceInv, NEW c \in Calls, NEW op \in Auth!Ops, NEW f \in Emails,
           Start(c, op, f), NEW e \in Emails, Orphan(e)
    PROVE  Orphan(e)'
<1>1. /\ calls[c].stage = "idle"
      /\ calls' = [calls EXCEPT ![c] = [op |-> op, email |-> f, stage |-> "sent"]]
      /\ UNCHANGED <<accounts, mainQueue, worker, mutations, applied>>
  BY DEF Start, Auth!Invoke, Auth!At, storeOnly
<1>2. /\ calls'[c].stage = "sent"
      /\ \A d \in Calls : d # c => calls'[d] = calls[d]
  BY <1>1, Typed DEF ServiceInv
<1>3. ~OnItsWay(c)'
  <2>1. /\ ~Replying(c, "ok") /\ ~InWorker(c) /\ c \notin applied
        /\ \A u \in Users : ~Queued(c, u)
    BY <1>1, EarlyCall, Sets
  <2> QED  BY <1>1, <1>2, <2>1 DEF OnItsWay, Replying, InWorker, Queued
<1>4. \A d \in Calls : d # c => (OnItsWay(d)' => OnItsWay(d))
  BY <1>1, <1>2 DEF OnItsWay, Replying, InWorker, Queued
<1>5. ASSUME NEW d \in Calls, calls'[d].email = e PROVE ~Writing(d)'
  <2>1. CASE d = c
    BY <1>3, <2>1, WritingMeansNext
  <2>2. CASE d # c
    <3>1. calls'[d] = calls[d] /\ ~Writing(d)
      BY <1>2, <1>5, <2>2 DEF Orphan
    <3> QED  BY <1>4, <2>2, <3>1, WritingMeans, WritingMeansNext
  <2> QED  BY <2>1, <2>2
<1> QED  BY <1>1, <1>5 DEF Orphan

(* A registration is granted only what no account has, and an orphan has   *)
(* one.                                                                    *)
LEMMA OrphanGrant ==
    ASSUME ServiceInv, NEW c \in Calls, Grant(c), NEW e \in Emails, Orphan(e)
    PROVE  Orphan(e)'
<1>1. /\ calls[c].stage = "sent" /\ Auth!MoveTo(c, "granted")
      /\ (calls[c].op = "register") <=> (calls[c].email \notin accounts)
      /\ accounts' = accounts \cup {calls[c].email}
      /\ UNCHANGED <<mainQueue, worker, mutations, applied>>
  BY DEF Grant, Auth!BackendGrants, Auth!At, storeOnly
<1>2. /\ CallsKept
      /\ \A d \in Calls : d # c => calls'[d] = calls[d]
  BY <1>1, MoveKeeps DEF Auth!Stages
<1>3. \A d \in Calls : d # c => (OnItsWay(d)' => OnItsWay(d))
  BY <1>1, <1>2 DEF OnItsWay, Replying, InWorker, Queued
<1>4. ASSUME NEW d \in Calls, calls'[d].email = e PROVE ~Writing(d)'
  <2>1. /\ calls[d].email = e /\ calls'[d].op = calls[d].op
        /\ ~Writing(d) /\ e \in accounts
    BY <1>2, <1>4 DEF CallsKept, Orphan
  <2>2. CASE d = c
    BY <1>1, <2>1, <2>2, WritingMeansNext
  <2>3. CASE d # c
    BY <1>3, <2>1, <2>3, WritingMeans, WritingMeansNext
  <2> QED  BY <2>2, <2>3
<1>5. e \in accounts'
  BY <1>1 DEF Orphan
<1> QED  BY <1>4, <1>5 DEF Orphan

(* Every other step is steady.                                             *)
LEMMA StepsSteady ==
    ASSUME ServiceInv, [Next]_vars
    PROVE  \/ Steady
           \/ \E c \in Calls, op \in Auth!Ops, e \in Emails : Start(c, op, e)
           \/ \E c \in Calls : Grant(c)
<1>1. ASSUME NEW c \in Calls, NEW e \in Emails, registerUser(c, e) \/ signIn(c, e)
      PROVE  \E op \in Auth!Ops : Start(c, op, e)
  BY <1>1 DEF registerUser, signIn, Auth!Ops
<1>2. CASE signOut
  BY <1>2, SessionSteady DEF signOut
<1>3. CASE WorkQueueStep
  BY <1>3, SessionSteady, RefuseSteady, CompleteSteady, FailSteady
     DEF WorkQueueStep
<1>4. CASE WorkerStep
  BY <1>4, HandleCredentialSteady, WriteSteady DEF WorkerStep
<1>5. CASE StoreStep
  BY <1>5, AppliesSteady, SettleSteady, Sets
     DEF StoreStep, Store!HandleSuccessfulWrite, Store!HandleRejectedWrite
<1>6. CASE MainStep
  BY <1>6, NotificationSteady, CallAnsweredSteady, AccountCreatedSteady,
     ProfileSettledSteady DEF MainStep
<1>7. CASE Relaunch
  BY <1>7, RelaunchSteady
<1>8. CASE UNCHANGED vars
  BY <1>8, StutterSteady
<1> QED
  BY <1>1, <1>2, <1>3, <1>4, <1>5, <1>6, <1>7, <1>8 DEF Next

LEMMA OrphanStep ==
    ASSUME ServiceInv, [Next]_vars
    PROVE  \A e \in Emails : Orphan(e) => Orphan(e)'
BY StepsSteady, OrphanKept, OrphanInvoke, OrphanGrant

(* An account that the first step of a registration has made and whose     *)
(* second step is lost never gets its profile: no later registration,      *)
(* sign-in or launch writes it (AuthService.registerUser).                 *)
THEOREM OrphansStay == Spec => OrphansStayOrphans
<1>1. ServiceInv /\ [Next]_vars
         => [\A e \in Emails : Orphan(e) => Orphan(e)']_vars
  BY OrphanStep
<1> QED  BY <1>1, ServiceInvariant, PTL DEF Spec, OrphansStayOrphans

-----------------------------------------------------------------------------
(* The promise to the screens                                              *)

(* What the promise calls asked.                                           *)
Asked == [c \in Calls |->
             IF calls[c].stage = "idle" THEN [op |-> "none"]
             ELSE [op |-> calls[c].op, email |-> calls[c].email]]

LEMMA AskedKept == CallsKept => Asked' = Asked
BY DEF CallsKept, Asked

LEMMA AskedOf ==
    ASSUME TypeOK, NEW c \in Calls
    PROVE  /\ calls[c].stage = "idle" => Asked[c] = Promised!NotAsked
           /\ calls[c].stage # "idle" => /\ Asked[c] # Promised!NotAsked
                                         /\ Asked[c].op = calls[c].op
                                         /\ Asked[c].email = calls[c].email
<1>1. CASE calls[c].stage = "idle"
  BY <1>1 DEF Asked, Promised!NotAsked
<1>2. CASE calls[c].stage # "idle"
  <2>1. Asked[c] = [op |-> calls[c].op, email |-> calls[c].email]
    BY <1>2 DEF Asked
  <2>2. calls[c].op \in {"register", "signIn"}
    BY <1>2, MadeCall DEF Auth!Ops
  <2>3. Asked[c].op = calls[c].op /\ Asked[c].email = calls[c].email
    BY <2>1
  <2>4. Promised!NotAsked.op = "none"
    BY DEF Promised!NotAsked
  <2> QED  BY <1>2, <2>2, <2>3, <2>4
<1> QED  BY <1>1, <1>2

LEMMA PromiseInits == Init => Promised!PromiseInit
<1> SUFFICES ASSUME Init PROVE Promised!PromiseInit
  OBVIOUS
<1>1. /\ calls = [c \in Calls |-> Auth!IdleCall] /\ applied = {}
      /\ told = [c \in Calls |-> <<>>] /\ abandoned = {}
      /\ made = [e \in Emails |-> IF e \in accounts THEN Earlier ELSE Nobody]
  BY DEF Init, Auth!AuthInit, Store!StoreInit
<1>2. made \in [Emails -> {Promised!Nobody, Promised!Earlier}]
  BY <1>1 DEF Promised!Nobody, Promised!Earlier, Nobody, Earlier
<1>3. Asked = [c \in Calls |-> Promised!NotAsked]
  BY <1>1 DEF Asked, Auth!IdleCall, Promised!NotAsked
<1> QED  BY <1>1, <1>2, <1>3 DEF Promised!PromiseInit, Asked

(* A step the promise does not see.                                        *)
LEMMA Unseen ==
    ASSUME CallsKept, UNCHANGED <<told, abandoned, made, applied>>
    PROVE  UNCHANGED Promised!promiseVars
<1>1. Asked' = Asked
  BY AskedKept
<1> QED  BY <1>1 DEF Promised!promiseVars, Asked

LEMMA PromiseAsk ==
    ASSUME ServiceInv, NEW c \in Calls, NEW op \in Auth!Ops, NEW e \in Emails,
           Start(c, op, e)
    PROVE  Promised!Ask(c, op, e)
<1>t. TypeOK
  BY DEF ServiceInv
<1> DEFINE r == [op |-> op, email |-> e, stage |-> "sent"]
<1>1. /\ calls[c].stage = "idle" /\ calls' = [calls EXCEPT ![c] = r]
      /\ UNCHANGED <<told, abandoned, made, applied>>
  BY DEF Start, Auth!Invoke, Auth!At, storeOnly
<1>2. calls'[c] = r /\ \A d \in Calls : d # c => calls'[d] = calls[d]
  BY <1>t, <1>1, Typed
<1>3. Asked' = [Asked EXCEPT ![c] = [op |-> op, email |-> e]]
  <2>1. Asked'[c] = [op |-> op, email |-> e]
    BY <1>2 DEF Asked
  <2>2. \A d \in Calls : d # c => Asked'[d] = Asked[d]
    BY <1>2 DEF Asked
  <2>3. /\ Asked = [d \in Calls |-> Asked[d]]
        /\ Asked' = [d \in Calls |-> Asked'[d]]
    BY DEF Asked
  <2> QED  BY <2>1, <2>2, <2>3
<1>4. Asked[c] = Promised!NotAsked
  BY <1>t, <1>1, AskedOf
<1> QED  BY <1>1, <1>3, <1>4 DEF Promised!Ask, Asked

LEMMA PromiseOpen ==
    ASSUME TypeOK, NEW c \in Calls
    PROVE  Promised!Open(c) <=> Waits(c)
<1>1. Asked[c] # Promised!NotAsked <=> calls[c].stage # "idle"
  BY AskedOf
<1> QED  BY <1>1 DEF Promised!Open, Waits, Asked

LEMMA PromiseMakes ==
    ASSUME ServiceInv, NEW c \in Calls, Grant(c)
    PROVE  Promised!MakeAccount(c) \/ UNCHANGED Promised!promiseVars
<1>t. TypeOK /\ AccountsMade
  BY DEF ServiceInv
<1>1. /\ calls[c].stage = "sent" /\ Auth!MoveTo(c, "granted")
      /\ (calls[c].op = "register") <=> (calls[c].email \notin accounts)
      /\ made' = IF calls[c].op = "register"
                   THEN [made EXCEPT ![calls[c].email] = c] ELSE made
      /\ UNCHANGED <<told, abandoned, applied>>
  BY DEF Grant, Auth!BackendGrants, Auth!At, storeOnly
<1>2. CallsKept
  BY <1>1, MoveKeeps DEF Auth!Stages
<1>3. CASE calls[c].op # "register"
  BY <1>1, <1>2, <1>3, Unseen
<1>4. CASE calls[c].op = "register"
  <2>1. Promised!Open(c)
    BY <1>t, <1>1, EarlyCall, PromiseOpen DEF Waits
  <2>2. Asked[c].op = "register" /\ Asked[c].email = calls[c].email
    BY <1>t, <1>1, <1>4, AskedOf
  <2>3. calls[c].email \in Emails
    BY <1>t, <1>1, MadeCall
  <2>4. made[Asked[c].email] = Promised!Nobody
    BY <1>t, <1>1, <1>4, <2>2, <2>3 DEF AccountsMade, Nobody, Promised!Nobody
  <2>5. Asked' = Asked
    BY <1>2, AskedKept
  <2>6. made' = [made EXCEPT ![Asked[c].email] = c]
    BY <1>1, <1>4, <2>2
  <2> QED
    BY <1>1, <2>1, <2>2, <2>4, <2>5, <2>6 DEF Promised!MakeAccount, Asked
<1> QED  BY <1>3, <1>4

(* A call whose profile write was issued is a registration that was asked, *)
(* and made its account.                                                   *)
LEMMA IssuedAsked ==
    ASSUME ServiceInv, NEW c \in issued
    PROVE  /\ c \in Calls /\ calls[c].stage = "answered"
           /\ Asked[c] # Promised!NotAsked
           /\ Asked[c].op = "register" /\ Asked[c].email = calls[c].email
           /\ made[Asked[c].email] = c /\ made[Asked[c].email] # Promised!Nobody
<1>t. TypeOK /\ Earned /\ c \in Calls
  BY Typed DEF ServiceInv
<1>1. /\ calls[c].stage = "answered" /\ calls[c].op = "register"
      /\ made[calls[c].email] = c
  BY <1>t DEF Earned, HasAccount
<1>2. c # Promised!Nobody
  BY <1>t, MarkersAssumption DEF Nobody, Promised!Nobody
<1> QED  BY <1>t, <1>1, <1>2, AskedOf

LEMMA PromiseWrites ==
    ASSUME ServiceInv, NEW c \in Calls, Store!BackendApplies(c),
           UNCHANGED <<authOnly, told, abandoned, made, builders>>
    PROVE  Promised!WriteProfile(c)
<1>1. c \in issued /\ told[c] = <<>>
  BY AppliesQueued DEF ServiceInv, OnePlace, Untold
<1>2. applied' = applied \cup {c} /\ calls' = calls
  BY DEF Store!BackendApplies, authOnly
<1>3. Asked' = Asked
  BY <1>2 DEF Asked
<1>4. /\ Asked[c] # Promised!NotAsked
      /\ Asked[c].op = "register" /\ made[Asked[c].email] = c
  BY <1>1, IssuedAsked
<1> QED  BY <1>1, <1>2, <1>3, <1>4 DEF Promised!WriteProfile, Asked

(* The screen hears of call c, once.                                       *)
LEMMA PromiseTells ==
    ASSUME ServiceInv, NEW c \in Calls, NEW a \in Answers,
           Waits(c), CallsKept, Tell(c, a),
           a = "ok" => made[Asked[c].email] # Promised!Nobody,
           a = "ok" /\ Asked[c].op = "register" => c \in applied,
           UNCHANGED <<abandoned, made, applied>>
    PROVE  Promised!TellOk(c) \/ Promised!TellFailed(c)
<1>1. Promised!Open(c)
  BY PromiseOpen DEF ServiceInv
<1>2. told' = [told EXCEPT ![c] = <<a>>]
  <2>1. told[c] = <<>> /\ Append(told[c], a) = <<a>>
    BY DEF Waits
  <2> QED  BY <2>1 DEF Tell
<1>3. Asked' = Asked
  BY AskedKept
<1>4. CASE a = "ok"
  BY <1>1, <1>2, <1>3, <1>4 DEF Promised!TellOk, Asked
<1>5. CASE a = "failed"
  BY <1>1, <1>2, <1>3, <1>5 DEF Promised!TellFailed, Asked
<1> QED  BY <1>4, <1>5 DEF Answers

LEMMA PromiseAnswers ==
    ASSUME ServiceInv, CallAnswered
    PROVE  \E c \in Calls : Promised!TellOk(c) \/ Promised!TellFailed(c)
<1>t. TypeOK /\ AccountsMade
  BY DEF ServiceInv
<1>1. PICK c \in Calls, a \in Answers :
         /\ Head(mainQueue).call = c /\ Head(mainQueue).answer = a
         /\ calls[c].stage = "replying"
         /\ a = "ok" => HasAccount(c)
  BY ReplyLeaves DEF CallAnswered
<1>2. /\ Tell(c, a)
      /\ a = "ok" => calls[c].op = "signIn"
      /\ UNCHANGED <<abandoned, made, applied>>
  BY <1>1 DEF CallAnswered, storeOnly
<1>3. CallsKept
  BY AnswerSteady DEF CallAnswered
<1>4. Waits(c)
  BY <1>1, EarlyCall DEF Waits
<1>5. Asked[c].op = calls[c].op /\ Asked[c].email = calls[c].email
  BY <1>t, <1>1, AskedOf
<1>6. a = "ok" => made[Asked[c].email] # Promised!Nobody
  BY <1>t, <1>1, <1>5, Typed DEF AccountsMade, HasAccount, Nobody, Promised!Nobody
<1> QED  BY <1>2, <1>3, <1>4, <1>5, <1>6, PromiseTells

LEMMA PromiseSettles ==
    ASSUME ServiceInv, ProfileSettled
    PROVE  \E c \in Calls : Promised!TellOk(c) \/ Promised!TellFailed(c)
<1>h. /\ mainQueue # <<>> /\ Head(mainQueue).type = "written"
      /\ calls' = calls /\ UNCHANGED <<abandoned, made, applied>>
  BY DEF ProfileSettled, Store!DeliverWritten, authOnly
<1>1. PICK c \in Calls, a \in Answers :
         /\ Head(mainQueue) = Store!Written(c, a)
         /\ Head(mainQueue).write = c /\ Head(mainQueue).answer = a
  BY <1>h, MainHead, ItemsTyped
<1>2. Store!Written(c, a) \in ToSet(mainQueue) /\ Settling(c)
  BY <1>h, <1>1, MainHead DEF Settling
<1>3. /\ c \in issued /\ told[c] = <<>> /\ c \notin abandoned
      /\ a = "ok" => c \in applied
  BY <1>2 DEF ServiceInv, OnePlace, Untold, Bereft
<1>4. /\ calls[c].stage = "answered"
      /\ made[Asked[c].email] # Promised!Nobody
  BY <1>3, IssuedAsked
<1>5. Waits(c)
  BY <1>3, <1>4 DEF Waits
<1>6. Tell(c, a) /\ CallsKept
  BY <1>h, <1>1 DEF ProfileSettled, CallsKept
<1> QED  BY <1>h, <1>3, <1>4, <1>5, <1>6, PromiseTells

LEMMA PromiseDies ==
    ASSUME ServiceInv, Relaunch
    PROVE  Promised!Die
<1>1. /\ abandoned' = abandoned \cup {c \in Calls : Waits(c)}
      /\ UNCHANGED <<told, made, applied>>
  BY DEF Relaunch, Store!Relaunch
<1>2. Asked' = Asked
  BY RelaunchSteady, AskedKept DEF Steady
<1>3. {c \in Calls : Waits(c)} = {c \in Calls : Promised!Open(c)}
  BY PromiseOpen DEF ServiceInv
<1> QED  BY <1>1, <1>2, <1>3 DEF Promised!Die, Asked

LEMMA PromiseStep ==
    ASSUME ServiceInv, [Next]_vars
    PROVE  [Promised!PromiseNext]_(Promised!promiseVars)
<1> USE DEF Steady
<1>1. ASSUME NEW c \in Calls, NEW e \in Emails, registerUser(c, e) \/ signIn(c, e)
      PROVE  Promised!PromiseNext
  <2>1. PICK op \in Auth!Ops : Start(c, op, e)
    BY <1>1 DEF registerUser, signIn, Auth!Ops
  <2>2. op \in {"register", "signIn"}
    BY DEF Auth!Ops
  <2> QED  BY <2>1, <2>2, PromiseAsk DEF Promised!PromiseNext
<1>2. CASE signOut
  BY <1>2, SessionSteady, Unseen DEF signOut, storeOnly
<1>3. ASSUME NEW c \in Calls, Grant(c)
      PROVE  Promised!PromiseNext \/ UNCHANGED Promised!promiseVars
  BY <1>3, PromiseMakes DEF Promised!PromiseNext
<1>4. CASE WorkQueueStep
  BY <1>4, SessionSteady, RefuseSteady, CompleteSteady, FailSteady, Unseen
     DEF WorkQueueStep, storeOnly
<1>5. CASE WorkerStep
  <2>1. applied' = applied
    BY <1>5 DEF WorkerStep, Store!HandleCredential, Store!WriteMutations
  <2> QED
    BY <1>5, <2>1, HandleCredentialSteady, WriteSteady, Unseen DEF WorkerStep
<1>6. CASE StoreStep
  <2>1. ASSUME NEW c \in Calls, Store!BackendApplies(c)
        PROVE  Promised!PromiseNext
    BY <1>6, <2>1, PromiseWrites DEF StoreStep, Promised!PromiseNext
  <2>2. ASSUME NEW a \in Answers, Store!Sending, Store!SettleHead(a)
        PROVE  UNCHANGED Promised!promiseVars
    <3>1. applied' = applied
      BY <2>2 DEF Store!SettleHead
    <3> QED  BY <1>6, <2>2, <3>1, SettleSteady, Unseen DEF StoreStep
  <2> QED
    BY <1>6, <2>1, <2>2, Sets
       DEF StoreStep, Store!HandleSuccessfulWrite, Store!HandleRejectedWrite
<1>7. CASE Notification
  <2>1. applied' = applied
    BY <1>7 DEF Notification, Store!CredentialChanges
  <2> QED  BY <1>7, <2>1, NotificationSteady, Unseen DEF Notification
<1>8. CASE CallAnswered
  BY <1>8, PromiseAnswers DEF Promised!PromiseNext
<1>9. CASE AccountCreated
  <2>1. applied' = applied
    BY <1>9 DEF AccountCreated, Store!SetData
  <2> QED  BY <1>9, <2>1, AnswerSteady, Unseen DEF AccountCreated
<1>10. CASE ProfileSettled
  BY <1>10, PromiseSettles DEF Promised!PromiseNext
<1>11. CASE Relaunch
  BY <1>11, PromiseDies DEF Promised!PromiseNext
<1>12. CASE UNCHANGED vars
  BY <1>12, StutterSteady, Unseen DEF vars, storeOnly
<1> QED
  BY <1>1, <1>2, <1>3, <1>4, <1>5, <1>6, <1>7, <1>8, <1>9, <1>10, <1>11, <1>12
     DEF Next, MainStep

(* AuthService keeps its promise to the screens: an "ok" is earned, a call *)
(* is answered at most once and never after its process died, and a        *)
(* profile is written by the registration that made the account alone      *)
(* (AuthService.registerUser, AuthService.signIn).                         *)
THEOREM ServiceKeepsPromise == Spec => KeepsPromise
<1>1. ServiceInv /\ [Next]_vars
         => [Promised!PromiseNext]_(Promised!promiseVars)
  BY PromiseStep
<1> QED
  BY <1>1, PromiseInits, ServiceInvariant, PTL
     DEF Spec, KeepsPromise, Promised!Promise
=============================================================================
