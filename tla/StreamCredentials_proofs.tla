----------------------- MODULE StreamCredentials_proofs --------------------
(***************************************************************************)
(* Theorems about StreamCredentials, for any people, and any number of     *)
(* changes and failures.                                                   *)
(***************************************************************************)
EXTENDS StreamCredentials, FiniteSetTheorems, SequenceTheorems, TLAPS

MainItems ==
    [type : {"notification"}, user : Owners]
       \cup [type : {"answer"}, ask : Asks, user : Owners \cup {Failed}]
WorkerItems ==
    [type : {"credential"}, user : Owners]
       \cup [type : {"token"}, close : Nat, user : Owners \cup {Failed}]

(* The type invariant, in the pieces that the proofs use.                  *)
QueuesTyped ==
    /\ mainQueue \in Seq(MainItems)
    /\ inAuth \subseteq Fetching
    /\ worker \in Seq(WorkerItems)
UsersTyped ==
    /\ authUser \in Owners
    /\ credential \in Owners \cup {NoEngine}
    /\ syncUser \in Owners \cup {NoEngine}
    /\ callUser \in Owners
CountersTyped ==
    /\ tokenCounter \in Nat
    /\ closeCount \in Nat
    /\ changes \in 0 .. MaxChanges
    /\ failures \in 0 .. MaxFailures
StreamTyped == stream \in {"stopped", "starting", "open", "backoff"}

(* Until the provider is made nobody asks for a token.                     *)
NotYet ==
    credential = NoEngine =>
        /\ worker = <<>> /\ inAuth = {}
        /\ Of(mainQueue, "answer") = {}
        /\ syncUser = NoEngine /\ stream = "stopped"

(* A request carries counters of its past.                                 *)
AskedBefore(ask, counter, close) == ask.counter <= counter /\ ask.close <= close
PastOnMain(q, counter, close) ==
    \A i \in Of(q, "answer") : AskedBefore(q[i].ask, counter, close)
PastOnWorker(q, close) ==
    \A i \in Of(q, "token") : q[i].close <= close
PastInAuth ==
    \A r \in inAuth : AskedBefore(r.ask, tokenCounter, closeCount)
AskedInPast ==
    /\ PastInAuth
    /\ PastOnMain(mainQueue, tokenCounter, closeCount)
    /\ PastOnWorker(worker, closeCount)

(* The request that the stream will accept is in one of three places.      *)
One(S) == \E x : S = {x}
InOne(a, b, c) ==
    \/ One(a) /\ b = {} /\ c = {}
    \/ a = {} /\ One(b) /\ c = {}
    \/ a = {} /\ b = {} /\ One(c)
InNone(a, b, c) == a = {} /\ b = {} /\ c = {}
OneWaits ==
    IF stream = "starting" THEN InOne(WaitsInAuth, WaitsOnMain, WaitsOnWorker)
                           ELSE InNone(WaitsInAuth, WaitsOnMain, WaitsOnWorker)

(* The provider's user follows from FIRAuth's, or will when it is made.    *)
Follows ==
    /\ LeadsTo(authUser, mainQueue, "notification",
               IF credential = NoEngine THEN authUser ELSE credential)
    /\ LeadsTo(credential, worker, "credential", syncUser)

(* A request that will pass the provider's check, and a token that will    *)
(* pass the stream's, belong to the user of the queue's end, unless a      *)
(* change lies before them, which will fail them.                          *)
RightInAuth ==
    \A r \in inAuth :
        r.ask.counter = tokenCounter /\ r.user # Nowhere
            /\ Of(mainQueue, "notification") = {}
        => r.user = credential
RightOnMain(q, counter, u) ==
    \A i \in Of(q, "answer") :
        q[i].ask.counter = counter /\ (\A j \in Of(q, "notification") : i < j)
        => q[i].user \in {u, Failed}
RightOnWorker(q, close, u) ==
    \A i \in Of(q, "token") :
        q[i].close = close /\ (\A j \in Of(q, "credential") : i < j)
        => q[i].user \in {u, Failed}
Right ==
    /\ RightInAuth
    /\ RightOnMain(mainQueue, tokenCounter, credential)
    /\ RightOnWorker(worker, closeCount, syncUser)

Typed == QueuesTyped /\ UsersTyped /\ CountersTyped /\ StreamTyped
Agreed == NotYet /\ AskedInPast /\ OneWaits /\ Follows /\ Right /\ OpenForSyncUser
CredInv == Typed /\ Agreed

-----------------------------------------------------------------------------
(* Queues: what joins one and what leaves it, point by point.              *)

LEMMA Points ==
    ASSUME NEW T, NEW q \in Seq(T)
    PROVE  /\ Len(q) \in Nat /\ DOMAIN q = 1 .. Len(q)
           /\ \A i \in 1 .. Len(q) : q[i] \in T
           /\ q = <<>> <=> Len(q) = 0
BY LenProperties, ElementOfSeq, EmptySeq

LEMMA Joins ==
    ASSUME NEW T, NEW q \in Seq(T), NEW x \in T
    PROVE  /\ Append(q, x) \in Seq(T)
           /\ DOMAIN Append(q, x) = 1 .. Len(q) + 1
           /\ \A i \in 1 .. Len(q) : Append(q, x)[i] = q[i]
           /\ Append(q, x)[Len(q) + 1] = x
BY AppendProperties, LenProperties

LEMMA Leaves ==
    ASSUME NEW T, NEW q \in Seq(T), q # <<>>
    PROVE  /\ Tail(q) \in Seq(T)
           /\ Len(q) >= 1 /\ Len(Tail(q)) = Len(q) - 1
           /\ DOMAIN Tail(q) = 1 .. Len(q) - 1
           /\ \A i \in 1 .. Len(q) - 1 : Tail(q)[i] = q[i + 1]
           /\ Head(q) = q[1] /\ Head(q) \in T
BY HeadTailProperties, LenProperties, Points

LEMMA OfJoined ==
    ASSUME NEW T, NEW q \in Seq(T), NEW x \in T, NEW kind
    PROVE  /\ x.type = kind =>
                \A i : i \in Of(Append(q, x), kind)
                          <=> i \in Of(q, kind) \/ i = Len(q) + 1
           /\ x.type # kind => Of(Append(q, x), kind) = Of(q, kind)
           /\ Of(q, kind) \subseteq 1 .. Len(q) /\ Len(q) \in Nat
BY Points, Joins DEF Of

LEMMA OfLeft ==
    ASSUME NEW T, NEW q \in Seq(T), q # <<>>, NEW kind
    PROVE  /\ Of(Tail(q), kind) \subseteq 1 .. Len(q) - 1
           /\ \A i \in 1 .. Len(q) - 1 :
                 i \in Of(Tail(q), kind) <=> i + 1 \in Of(q, kind)
           /\ 1 \in Of(q, kind) <=> Head(q).type = kind
           /\ Of(q, kind) \subseteq 1 .. Len(q) /\ Len(q) \in Nat
BY Points, Leaves DEF Of

(* The last change on a queue, and the user of its far end.                *)
LEMMA LeadsNowhere == ASSUME NEW s, NEW kind PROVE LeadsTo(s, <<>>, kind, s)
BY DEF LeadsTo, Of

LEMMA LeadsOn ==
    ASSUME NEW T, NEW q \in Seq(T), NEW x \in T, NEW kind, NEW s, NEW t
    PROVE  /\ x.type = kind => LeadsTo(x.user, Append(q, x), kind, t)
           /\ x.type # kind /\ LeadsTo(s, q, kind, t)
                 => LeadsTo(s, Append(q, x), kind, t)
<1>1. /\ Len(q) \in Nat /\ Of(q, kind) \subseteq 1 .. Len(q)
      /\ Of(q, kind) \subseteq Nat
      /\ \A i \in Of(q, kind) : Append(q, x)[i] = q[i]
  BY OfJoined, Joins
<1>2. CASE x.type = kind
  <2>1. Of(Append(q, x), kind) = Of(q, kind) \cup {Len(q) + 1}
    BY <1>2, Points, Joins DEF Of
  <2> DEFINE n == Len(q) + 1
  <2>2. n \in Of(Append(q, x), kind) /\ Append(q, x)[n] = x
    BY <1>2, <2>1, Joins
  <2>3. \A j \in Of(Append(q, x), kind) : j <= n
    BY <1>1, <1>2, <2>1
  <2> HIDE DEF n
  <2> QED  BY <1>2, <2>2, <2>3 DEF LeadsTo
<1>3. CASE x.type # kind
  <2>1. Of(Append(q, x), kind) = Of(q, kind)
    BY <1>3, OfJoined
  <2> QED  BY <1>1, <1>3, <2>1 DEF LeadsTo
<1> QED  BY <1>2, <1>3

LEMMA LeadsFromHead ==
    ASSUME NEW T, NEW q \in Seq(T), q # <<>>, NEW kind, NEW s, NEW t,
           LeadsTo(s, q, kind, t)
    PROVE  /\ Head(q).type = kind => LeadsTo(s, Tail(q), kind, Head(q).user)
           /\ Head(q).type # kind => LeadsTo(s, Tail(q), kind, t)
<1>1. /\ Of(Tail(q), kind) \subseteq 1 .. Len(q) - 1
      /\ \A i \in 1 .. Len(q) - 1 :
             i \in Of(Tail(q), kind) <=> i + 1 \in Of(q, kind)
      /\ 1 \in Of(q, kind) <=> Head(q).type = kind
      /\ Of(q, kind) \subseteq 1 .. Len(q) /\ Len(q) \in Nat
  BY OfLeft
<1>2. /\ \A i \in 1 .. Len(q) - 1 : Tail(q)[i] = q[i + 1]
      /\ Head(q) = q[1] /\ Len(q) >= 1
  BY Leaves
<1>3. CASE Of(q, kind) = {}
  <2>1. Of(Tail(q), kind) = {} /\ Head(q).type # kind
    BY <1>1, <1>3
  <2> QED  BY <1>3, <2>1 DEF LeadsTo
<1>4. CASE Of(q, kind) # {}
  <2>1. PICK i \in Of(q, kind) :
            s = q[i].user /\ \A j \in Of(q, kind) : j <= i
    BY <1>4 DEF LeadsTo
  <2>2. CASE i = 1
    <3>1. Of(Tail(q), kind) = {}
      BY <1>1, <2>1, <2>2
    <3> QED  BY <1>1, <1>2, <2>1, <2>2, <3>1 DEF LeadsTo
  <2>3. CASE i # 1
    <3>1. i \in 2 .. Len(q)
      BY <1>1, <2>1, <2>3
    <3>2. PICK m \in 1 .. Len(q) - 1 : m + 1 = i
      <4>1. i - 1 \in 1 .. Len(q) - 1 /\ (i - 1) + 1 = i
        BY <1>1, <3>1
      <4> QED  BY <4>1
    <3>3. m \in Of(Tail(q), kind) /\ Tail(q)[m] = q[i]
      BY <1>1, <1>2, <2>1, <3>2
    <3>4. \A j \in Of(Tail(q), kind) : j <= m
      BY <1>1, <2>1, <3>2
    <3>5. s = Tail(q)[m].user
      BY <2>1, <3>3
    <3> QED  BY <3>3, <3>4, <3>5 DEF LeadsTo
  <2> QED  BY <2>2, <2>3
<1> QED  BY <1>3, <1>4

(* The places on a queue where the items of a set are.                     *)
Held(q, S) == {i \in DOMAIN q : q[i] \in S}

LEMMA HeldJoins ==
    ASSUME NEW T, NEW q \in Seq(T), NEW x \in T, NEW S
    PROVE  /\ x \notin S => Held(Append(q, x), S) = Held(q, S)
           /\ x \in S /\ Held(q, S) = {} => One(Held(Append(q, x), S))
<1>1. x \notin S => Held(Append(q, x), S) = Held(q, S)
  BY Points, Joins DEF Held
<1>2. ASSUME x \in S, Held(q, S) = {} PROVE One(Held(Append(q, x), S))
  <2>1. Held(Append(q, x), S) = {Len(q) + 1}
    BY <1>2, Points, Joins DEF Held
  <2> QED  BY <2>1 DEF One
<1> QED  BY <1>1, <1>2

LEMMA HeldLeaves ==
    ASSUME NEW T, NEW q \in Seq(T), q # <<>>, NEW S
    PROVE  /\ Held(q, S) = {} => Held(Tail(q), S) = {} /\ Head(q) \notin S
           /\ One(Held(q, S)) /\ Head(q) \in S => Held(Tail(q), S) = {}
           /\ One(Held(q, S)) /\ Head(q) \notin S => One(Held(Tail(q), S))
<1>1. /\ Len(q) \in Nat /\ Len(q) >= 1 /\ DOMAIN q = 1 .. Len(q)
      /\ DOMAIN Tail(q) = 1 .. Len(q) - 1
      /\ \A i \in 1 .. Len(q) - 1 : Tail(q)[i] = q[i + 1]
      /\ Head(q) = q[1]
  BY Points, Leaves
<1>2. \A i \in 1 .. Len(q) - 1 : i \in Held(Tail(q), S) <=> i + 1 \in Held(q, S)
  BY <1>1 DEF Held
<1>3. /\ 1 \in Held(q, S) <=> Head(q) \in S
      /\ Held(q, S) \subseteq 1 .. Len(q)
      /\ Held(Tail(q), S) \subseteq 1 .. Len(q) - 1
  BY <1>1 DEF Held
<1>4. Held(q, S) = {} => Held(Tail(q), S) = {} /\ Head(q) \notin S
  BY <1>1, <1>2, <1>3
<1>5. ASSUME One(Held(q, S)), Head(q) \in S PROVE Held(Tail(q), S) = {}
  <2>1. Held(q, S) = {1}
    BY <1>3, <1>5 DEF One
  <2> QED  BY <1>1, <1>2, <1>3, <2>1
<1>6. ASSUME One(Held(q, S)), Head(q) \notin S PROVE One(Held(Tail(q), S))
  <2>1. PICK n : Held(q, S) = {n}
    BY <1>6 DEF One
  <2>2. n \in 1 .. Len(q) /\ n # 1
    BY <1>3, <1>6, <2>1
  <2>3. PICK m \in 1 .. Len(q) - 1 : m + 1 = n
    <3>1. n - 1 \in 1 .. Len(q) - 1 /\ (n - 1) + 1 = n
      BY <1>1, <2>2
    <3> QED  BY <3>1
  <2>4. \A i : i \in Held(Tail(q), S) <=> i = m
    BY <1>1, <1>2, <1>3, <2>1, <2>3
  <2>5. Held(Tail(q), S) = {m}
    BY <2>4
  <2> QED  BY <2>5 DEF One
<1> QED  BY <1>4, <1>5, <1>6

(* Counting what waits is to say where it waits.                           *)
LEMMA Counting == OneWaits => OneTokenAwaited
<1>1. \A S : One(S) => Cardinality(S) = 1
  BY FS_Singleton DEF One
<1>2. Cardinality({}) = 0
  BY FS_EmptySet
<1>3. \A a, b, c : InOne(a, b, c) =>
          Cardinality(a) + Cardinality(b) + Cardinality(c) = 1
  BY <1>1, <1>2 DEF InOne
<1>4. \A a, b, c : InNone(a, b, c) =>
          Cardinality(a) + Cardinality(b) + Cardinality(c) = 0
  BY <1>2 DEF InNone
<1> SUFFICES ASSUME OneWaits PROVE OneTokenAwaited
  OBVIOUS
<1>5. CASE stream = "starting"
  BY <1>3, <1>5 DEF OneWaits, OneTokenAwaited
<1>6. CASE stream # "starting"
  BY <1>4, <1>6 DEF OneWaits, OneTokenAwaited
<1> QED  BY <1>5, <1>6

-----------------------------------------------------------------------------
(* What is put on the queues, and what is found on them.                   *)

LEMMA Shapes ==
    /\ \A u \in Owners : /\ Notified(u) \in MainItems
                         /\ Notified(u).type = "notification"
                         /\ Notified(u).user = u
    /\ \A a \in Asks, u \in Owners \cup {Failed} :
          /\ Answer(a, u) \in MainItems
          /\ Answer(a, u).type = "answer"
          /\ Answer(a, u).ask = a /\ Answer(a, u).user = u
    /\ \A u \in Owners : /\ Changed(u) \in WorkerItems
                         /\ Changed(u).type = "credential"
                         /\ Changed(u).user = u
    /\ \A n \in Nat, u \in Owners \cup {Failed} :
          /\ Token(n, u) \in WorkerItems
          /\ Token(n, u).type = "token"
          /\ Token(n, u).close = n /\ Token(n, u).user = u
BY DEF Notified, Answer, Changed, Token, MainItems, WorkerItems

LEMMA Asking ==
    ASSUME NEW m \in Nat, NEW n \in Nat
    PROVE  /\ GetToken(m, n) \in Fetching
           /\ GetToken(m, n).user = Nowhere
           /\ GetToken(m, n).ask.counter = m /\ GetToken(m, n).ask.close = n
BY DEF GetToken, Fetching, Asks

LEMMA Requests ==
    ASSUME NEW r \in Fetching
    PROVE  /\ r.ask \in Asks
           /\ r.ask.counter \in Nat /\ r.ask.close \in Nat
           /\ r.user # Nowhere => r.user \in People
           /\ \A u \in People : /\ [r EXCEPT !.user = u] \in Fetching
                                /\ [r EXCEPT !.user = u].user = u
                                /\ [r EXCEPT !.user = u].ask = r.ask
BY DEF Fetching, Asks

(* A token that is new is notified first.                                  *)
LEMMA NotifiedThenAnswered ==
    ASSUME NEW T, NEW q \in Seq(T), NEW x \in T, NEW y \in T
    PROVE  q \o <<x, y>> = Append(Append(q, x), y)
OBVIOUS

LEMMA MainShape ==
    ASSUME NEW x \in MainItems
    PROVE  /\ x.type \in {"notification", "answer"}
           /\ x.type = "notification" => x.user \in Owners
           /\ x.type = "answer" => /\ x.ask \in Asks
                                   /\ x.ask.counter \in Nat
                                   /\ x.ask.close \in Nat
                                   /\ x.user \in Owners \cup {Failed}
BY DEF MainItems, Asks

LEMMA WorkerShape ==
    ASSUME NEW x \in WorkerItems
    PROVE  /\ x.type \in {"credential", "token"}
           /\ x.type = "credential" => x.user \in Owners
           /\ x.type = "token" => /\ x.close \in Nat
                                  /\ x.user \in Owners \cup {Failed}
BY DEF WorkerItems

(* What the stream would accept.                                           *)
LiveAnswers(n) == {x \in MainItems : x.type = "answer" /\ x.ask.close = n}
LiveTokens(n) == {x \in WorkerItems : x.type = "token" /\ x.close = n}
LiveRequests(requests, n) == {r \in requests : r.ask.close = n}
Awaited(st, requests, q, w, n) ==
    IF st = "starting"
      THEN InOne(LiveRequests(requests, n), Held(q, LiveAnswers(n)),
                 Held(w, LiveTokens(n)))
      ELSE InNone(LiveRequests(requests, n), Held(q, LiveAnswers(n)),
                  Held(w, LiveTokens(n)))

LEMMA Waiting ==
    ASSUME NEW n, NEW q \in Seq(MainItems), NEW w \in Seq(WorkerItems)
    PROVE  /\ {i \in DOMAIN q : q[i].type = "answer" /\ q[i].ask.close = n}
                  = Held(q, LiveAnswers(n))
           /\ {i \in DOMAIN w : w[i].type = "token" /\ w[i].close = n}
                  = Held(w, LiveTokens(n))
BY Points DEF Held, LiveAnswers, LiveTokens

LEMMA OneAwaited ==
    QueuesTyped => (OneWaits <=> Awaited(stream, inAuth, mainQueue, worker, closeCount))
<1> SUFFICES ASSUME QueuesTyped
             PROVE  OneWaits <=> Awaited(stream, inAuth, mainQueue, worker, closeCount)
  OBVIOUS
<1>1. WaitsInAuth = LiveRequests(inAuth, closeCount)
  BY DEF WaitsInAuth, Live, LiveRequests
<1>2. WaitsOnMain = Held(mainQueue, LiveAnswers(closeCount))
  BY Waiting DEF QueuesTyped, WaitsOnMain, Live
<1>3. WaitsOnWorker = Held(worker, LiveTokens(closeCount))
  BY Waiting DEF QueuesTyped, WaitsOnWorker, Live
<1> QED  BY <1>1, <1>2, <1>3 DEF OneWaits, Awaited

LEMMA OneAwaitedNext ==
    QueuesTyped' =>
       (OneWaits' <=> Awaited(stream', inAuth', mainQueue', worker', closeCount'))
<1> SUFFICES ASSUME QueuesTyped'
             PROVE  OneWaits' <=> Awaited(stream', inAuth', mainQueue', worker', closeCount')
  OBVIOUS
<1>1. WaitsInAuth' = LiveRequests(inAuth', closeCount')
  BY DEF WaitsInAuth, Live, LiveRequests
<1>2. WaitsOnMain' = Held(mainQueue', LiveAnswers(closeCount'))
  BY Waiting DEF QueuesTyped, WaitsOnMain, Live
<1>3. WaitsOnWorker' = Held(worker', LiveTokens(closeCount'))
  BY Waiting DEF QueuesTyped, WaitsOnWorker, Live
<1> QED  BY <1>1, <1>2, <1>3 DEF OneWaits, Awaited

(* Nothing that waits has seen the next closing of the stream.             *)
LEMMA NoneForNext ==
    ASSUME QueuesTyped, CountersTyped, AskedInPast
    PROVE  InNone(LiveRequests(inAuth, closeCount + 1),
                  Held(mainQueue, LiveAnswers(closeCount + 1)),
                  Held(worker, LiveTokens(closeCount + 1)))
<1> USE DEF CountersTyped, AskedInPast, AskedBefore, PastInAuth, PastOnMain,
            PastOnWorker
<1>1. LiveRequests(inAuth, closeCount + 1) = {}
  BY Requests DEF QueuesTyped, LiveRequests
<1>2. Held(mainQueue, LiveAnswers(closeCount + 1)) = {}
  BY Points DEF QueuesTyped, Held, LiveAnswers, Of
<1>3. Held(worker, LiveTokens(closeCount + 1)) = {}
  BY Points DEF QueuesTyped, Held, LiveTokens, Of
<1> QED  BY <1>1, <1>2, <1>3 DEF InNone

(* What is known of the items of the main queue survives the arrival of    *)
(* another and the departure of the first.                                 *)
LEMMA MainJoins ==
    ASSUME NEW q \in Seq(MainItems), NEW x \in MainItems,
           NEW m, NEW n, NEW u,
           PastOnMain(q, m, n), RightOnMain(q, m, u),
           x.type = "answer" =>
               /\ AskedBefore(x.ask, m, n)
               /\ x.ask.counter = m /\ Of(q, "notification") = {}
                     => x.user \in {u, Failed}
    PROVE  PastOnMain(Append(q, x), m, n) /\ RightOnMain(Append(q, x), m, u)
<1>1. /\ \A i : i \in Of(Append(q, x), "answer") =>
            \/ i \in Of(q, "answer") /\ i \in 1 .. Len(q)
            \/ i = Len(q) + 1 /\ x.type = "answer"
      /\ \A i \in 1 .. Len(q) : Append(q, x)[i] = q[i]
      /\ Append(q, x)[Len(q) + 1] = x
      /\ Len(q) \in Nat
  BY OfJoined, Joins
<1>2. /\ Of(q, "notification") \subseteq Of(Append(q, x), "notification")
      /\ Of(q, "notification") \subseteq 1 .. Len(q)
  BY OfJoined
<1>3. PastOnMain(Append(q, x), m, n)
  BY <1>1 DEF PastOnMain
<1>4. ASSUME NEW i \in Of(Append(q, x), "answer"),
             Append(q, x)[i].ask.counter = m,
             \A j \in Of(Append(q, x), "notification") : i < j
      PROVE  Append(q, x)[i].user \in {u, Failed}
  <2>1. CASE i \in Of(q, "answer") /\ i \in 1 .. Len(q)
    BY <1>1, <1>2, <1>4, <2>1 DEF RightOnMain
  <2>2. CASE i = Len(q) + 1 /\ x.type = "answer"
    <3>1. Of(q, "notification") = {}
      BY <1>1, <1>2, <1>4, <2>2
    <3> QED  BY <1>1, <1>4, <2>2, <3>1
  <2> QED  BY <1>1, <2>1, <2>2
<1> QED  BY <1>3, <1>4 DEF RightOnMain

LEMMA MainLeaves ==
    ASSUME NEW q \in Seq(MainItems), q # <<>>,
           NEW m \in Nat, NEW n, NEW u,
           PastOnMain(q, m, n), RightOnMain(q, m, u)
    PROVE  /\ PastOnMain(Tail(q), m, n)
           /\ Head(q).type = "answer" =>
                 /\ AskedBefore(Head(q).ask, m, n)
                 /\ Head(q).ask.counter = m => Head(q).user \in {u, Failed}
                 /\ RightOnMain(Tail(q), m, u)
<1>1. /\ \A kind : /\ Of(Tail(q), kind) \subseteq 1 .. Len(q) - 1
                   /\ \A i \in 1 .. Len(q) - 1 :
                         i \in Of(Tail(q), kind) <=> i + 1 \in Of(q, kind)
                   /\ 1 \in Of(q, kind) <=> Head(q).type = kind
                   /\ Of(q, kind) \subseteq 1 .. Len(q)
      /\ \A i \in 1 .. Len(q) - 1 : Tail(q)[i] = q[i + 1]
      /\ Head(q) = q[1] /\ Len(q) \in Nat /\ Len(q) >= 1
  BY OfLeft, Leaves, Points
<1>2. PastOnMain(Tail(q), m, n)
  BY <1>1 DEF PastOnMain
<1>3. ASSUME Head(q).type = "answer"
      PROVE  AskedBefore(Head(q).ask, m, n)
  BY <1>1, <1>3 DEF PastOnMain
<1>4. ASSUME Head(q).type = "answer", Head(q).ask.counter = m
      PROVE  Head(q).user \in {u, Failed}
  <2>1. 1 \in Of(q, "answer") /\ 1 \notin Of(q, "notification")
    BY <1>1, <1>4
  <2>2. \A j \in Of(q, "notification") : 1 < j
    BY <1>1, <2>1
  <2> QED  BY <1>1, <1>4, <2>1, <2>2 DEF RightOnMain
<1>5. ASSUME Head(q).type = "answer", NEW i \in Of(Tail(q), "answer"),
             Tail(q)[i].ask.counter = m,
             \A j \in Of(Tail(q), "notification") : i < j
      PROVE  Tail(q)[i].user \in {u, Failed}
  <2>1. i + 1 \in Of(q, "answer") /\ Tail(q)[i] = q[i + 1] /\ i \in Nat
    BY <1>1, <1>5
  <2>2. ASSUME NEW j \in Of(q, "notification") PROVE i + 1 < j
    <3>1. j \in 2 .. Len(q)
      BY <1>1, <1>5
    <3>2. PICK k \in 1 .. Len(q) - 1 : k + 1 = j
      <4>1. j - 1 \in 1 .. Len(q) - 1 /\ (j - 1) + 1 = j
        BY <1>1, <3>1
      <4> QED  BY <4>1
    <3>3. k \in Of(Tail(q), "notification")
      BY <1>1, <3>2
    <3> QED  BY <1>5, <2>1, <3>2, <3>3
  <2> QED  BY <1>5, <2>1, <2>2 DEF RightOnMain
<1> QED  BY <1>2, <1>3, <1>4, <1>5 DEF RightOnMain

(* A change of the counter fails every answer that is under way.           *)
LEMMA MainFailed ==
    ASSUME NEW q \in Seq(MainItems), NEW m \in Nat, NEW n \in Nat, NEW u,
           PastOnMain(q, m, n)
    PROVE  PastOnMain(q, m + 1, n) /\ PastOnMain(q, m, n + 1)
              /\ RightOnMain(q, m + 1, u)
<1>1. \A i \in Of(q, "answer") : /\ q[i].ask.counter \in Nat
                                 /\ q[i].ask.close \in Nat
  BY Points, MainShape DEF Of
<1> QED  BY <1>1 DEF PastOnMain, RightOnMain, AskedBefore

(* The same for the worker queue.                                          *)
LEMMA WorkerJoins ==
    ASSUME NEW q \in Seq(WorkerItems), NEW x \in WorkerItems, NEW n, NEW u,
           PastOnWorker(q, n), RightOnWorker(q, n, u),
           x.type = "token" =>
               /\ x.close <= n
               /\ x.close = n /\ Of(q, "credential") = {}
                     => x.user \in {u, Failed}
    PROVE  PastOnWorker(Append(q, x), n) /\ RightOnWorker(Append(q, x), n, u)
<1>1. /\ \A i : i \in Of(Append(q, x), "token") =>
            \/ i \in Of(q, "token") /\ i \in 1 .. Len(q)
            \/ i = Len(q) + 1 /\ x.type = "token"
      /\ \A i \in 1 .. Len(q) : Append(q, x)[i] = q[i]
      /\ Append(q, x)[Len(q) + 1] = x
      /\ Len(q) \in Nat
  BY OfJoined, Joins
<1>2. /\ Of(q, "credential") \subseteq Of(Append(q, x), "credential")
      /\ Of(q, "credential") \subseteq 1 .. Len(q)
  BY OfJoined
<1>3. PastOnWorker(Append(q, x), n)
  BY <1>1 DEF PastOnWorker
<1>4. ASSUME NEW i \in Of(Append(q, x), "token"),
             Append(q, x)[i].close = n,
             \A j \in Of(Append(q, x), "credential") : i < j
      PROVE  Append(q, x)[i].user \in {u, Failed}
  <2>1. CASE i \in Of(q, "token") /\ i \in 1 .. Len(q)
    BY <1>1, <1>2, <1>4, <2>1 DEF RightOnWorker
  <2>2. CASE i = Len(q) + 1 /\ x.type = "token"
    <3>1. Of(q, "credential") = {}
      BY <1>1, <1>2, <1>4, <2>2
    <3> QED  BY <1>1, <1>4, <2>2, <3>1
  <2> QED  BY <1>1, <2>1, <2>2
<1> QED  BY <1>3, <1>4 DEF RightOnWorker

LEMMA WorkerLeaves ==
    ASSUME NEW q \in Seq(WorkerItems), q # <<>>, NEW n \in Nat, NEW u,
           PastOnWorker(q, n), RightOnWorker(q, n, u)
    PROVE  /\ PastOnWorker(Tail(q), n)
           /\ Head(q).type = "token" =>
                 /\ Head(q).close <= n
                 /\ Head(q).close = n => Head(q).user \in {u, Failed}
                 /\ RightOnWorker(Tail(q), n, u)
<1>1. /\ \A kind : /\ Of(Tail(q), kind) \subseteq 1 .. Len(q) - 1
                   /\ \A i \in 1 .. Len(q) - 1 :
                         i \in Of(Tail(q), kind) <=> i + 1 \in Of(q, kind)
                   /\ 1 \in Of(q, kind) <=> Head(q).type = kind
                   /\ Of(q, kind) \subseteq 1 .. Len(q)
      /\ \A i \in 1 .. Len(q) - 1 : Tail(q)[i] = q[i + 1]
      /\ Head(q) = q[1] /\ Len(q) \in Nat /\ Len(q) >= 1
  BY OfLeft, Leaves, Points
<1>2. PastOnWorker(Tail(q), n)
  BY <1>1 DEF PastOnWorker
<1>3. ASSUME Head(q).type = "token"
      PROVE  Head(q).close <= n
  BY <1>1, <1>3 DEF PastOnWorker
<1>4. ASSUME Head(q).type = "token", Head(q).close = n
      PROVE  Head(q).user \in {u, Failed}
  <2>1. 1 \in Of(q, "token") /\ 1 \notin Of(q, "credential")
    BY <1>1, <1>4
  <2>2. \A j \in Of(q, "credential") : 1 < j
    BY <1>1, <2>1
  <2> QED  BY <1>1, <1>4, <2>1, <2>2 DEF RightOnWorker
<1>5. ASSUME Head(q).type = "token", NEW i \in Of(Tail(q), "token"),
             Tail(q)[i].close = n,
             \A j \in Of(Tail(q), "credential") : i < j
      PROVE  Tail(q)[i].user \in {u, Failed}
  <2>1. i + 1 \in Of(q, "token") /\ Tail(q)[i] = q[i + 1] /\ i \in Nat
    BY <1>1, <1>5
  <2>2. ASSUME NEW j \in Of(q, "credential") PROVE i + 1 < j
    <3>1. j \in 2 .. Len(q)
      BY <1>1, <1>5
    <3>2. PICK k \in 1 .. Len(q) - 1 : k + 1 = j
      <4>1. j - 1 \in 1 .. Len(q) - 1 /\ (j - 1) + 1 = j
        BY <1>1, <3>1
      <4> QED  BY <4>1
    <3>3. k \in Of(Tail(q), "credential")
      BY <1>1, <3>2
    <3> QED  BY <1>5, <2>1, <3>2, <3>3
  <2> QED  BY <1>5, <2>1, <2>2 DEF RightOnWorker
<1> QED  BY <1>2, <1>3, <1>4, <1>5 DEF RightOnWorker

(* Closing the stream makes every token that is under way stale.           *)
LEMMA WorkerFailed ==
    ASSUME NEW q \in Seq(WorkerItems), NEW n \in Nat, NEW u, PastOnWorker(q, n)
    PROVE  PastOnWorker(q, n + 1) /\ RightOnWorker(q, n + 1, u)
<1>1. \A i \in Of(q, "token") : q[i].close \in Nat
  BY Points, WorkerShape DEF Of
<1> QED  BY <1>1 DEF PastOnWorker, RightOnWorker

-----------------------------------------------------------------------------
LEMMA CredInvInit == CredInit => CredInv
<1> SUFFICES ASSUME CredInit PROVE CredInv
  OBVIOUS
<1> USE DEF CredInit
<1>1. QueuesTyped
  BY DEF QueuesTyped
<1>2. UsersTyped /\ CountersTyped /\ StreamTyped
  BY CredentialsBoundsAssumption DEF UsersTyped, CountersTyped, StreamTyped, Owners
<1>3. NotYet /\ AskedInPast
  BY DEF NotYet, AskedInPast, PastInAuth, PastOnMain, PastOnWorker, Of
<1>4. OneWaits
  BY DEF OneWaits, InNone, WaitsInAuth, WaitsOnMain, WaitsOnWorker
<1>5. Follows
  BY LeadsNowhere DEF Follows
<1>6. Right /\ OpenForSyncUser
  BY DEF Right, RightInAuth, RightOnMain, RightOnWorker, OpenForSyncUser, Of
<1> QED  BY <1>1, <1>2, <1>3, <1>4, <1>5, <1>6 DEF CredInv, Typed, Agreed

(* The three queues keep their types.                                      *)
LEMMA QueuesKept ==
    ASSUME QueuesTyped, UsersTyped, CountersTyped, CredNext
    PROVE  QueuesTyped'
<1> USE DEF QueuesTyped
<1>1. ASSUME NEW u \in Owners, AuthChanges(u) PROVE QueuesTyped'
  BY <1>1, Shapes, Joins
     DEF AuthChanges, providerVars, openingVars
<1>2. ASSUME NEW r \in inAuth, TakesRequest(r) PROVE QueuesTyped'
  <2>1. worker' = worker
    BY <1>2 DEF TakesRequest
  <2>2. CASE authUser = NoUser
    <3>1. mainQueue' = Append(mainQueue, Answer(r.ask, NoUser))
      BY <1>2, <2>2 DEF TakesRequest
    <3>2. inAuth' \subseteq inAuth
      BY <1>2, <2>2 DEF TakesRequest
    <3>3. Answer(r.ask, NoUser) \in MainItems
      BY Shapes, Requests DEF Owners
    <3> QED  BY <2>1, <3>1, <3>2, <3>3, Joins
  <2>3. CASE authUser # NoUser
    <3>1. mainQueue' = mainQueue
      BY <1>2, <2>3 DEF TakesRequest
    <3>2. inAuth' = (inAuth \ {r}) \cup {[r EXCEPT !.user = authUser]}
      BY <1>2, <2>3 DEF TakesRequest
    <3>3. [r EXCEPT !.user = authUser] \in Fetching
      BY <2>3, Requests DEF UsersTyped, Owners
    <3> QED  BY <2>1, <3>1, <3>2, <3>3
  <2> QED  BY <2>2, <2>3
<1>3. ASSUME NEW r \in inAuth, FetchesToken(r) PROVE QueuesTyped'
  <2>1. worker' = worker /\ inAuth' \subseteq inAuth
    BY <1>3 DEF FetchesToken
  <2>2. r.user \in Owners /\ r.ask \in Asks
    BY <1>3, Requests DEF FetchesToken, Owners
  <2>3. Notified(r.user) \in MainItems /\ Answer(r.ask, r.user) \in MainItems
    BY <2>2, Shapes
  <2>4. \/ mainQueue' = Append(mainQueue, Answer(r.ask, r.user))
        \/ mainQueue' = Append(Append(mainQueue, Notified(r.user)),
                               Answer(r.ask, r.user))
    BY <1>3, <2>3, NotifiedThenAnswered DEF FetchesToken
  <2> QED  BY <2>1, <2>3, <2>4, Joins
<1>4. ASSUME NEW r \in inAuth, FailsToFetch(r) PROVE QueuesTyped'
  <2>1. /\ worker' = worker /\ inAuth' \subseteq inAuth
        /\ mainQueue' = Append(mainQueue, Answer(r.ask, Failed))
    BY <1>4 DEF FailsToFetch
  <2>2. Answer(r.ask, Failed) \in MainItems
    BY Requests, Shapes
  <2> QED  BY <2>1, <2>2, Joins
<1>5. CASE MakesProvider
  <2>1. /\ mainQueue' = mainQueue /\ inAuth' = inAuth
        /\ worker' = Append(worker, Changed(authUser))
    BY <1>5 DEF MakesProvider, authVars
  <2>2. Changed(authUser) \in WorkerItems
    BY Shapes DEF UsersTyped
  <2> QED  BY <2>1, <2>2, Joins
<1>6. CASE NotificationRuns
  <2>1. /\ mainQueue' = Tail(mainQueue) /\ mainQueue # <<>> /\ inAuth' = inAuth
        /\ Head(mainQueue).type = "notification"
        /\ worker' = worker \/ worker' = Append(worker, Changed(Head(mainQueue).user))
    BY <1>6 DEF NotificationRuns, authVars
  <2>2. Head(mainQueue) \in MainItems /\ Tail(mainQueue) \in Seq(MainItems)
    BY <2>1, Leaves
  <2>3. Changed(Head(mainQueue).user) \in WorkerItems
    BY <2>1, <2>2, MainShape, Shapes
  <2> QED  BY <2>1, <2>2, <2>3, Joins
<1>7. CASE AnswerRuns
  <2>1. /\ mainQueue' = Tail(mainQueue) /\ mainQueue # <<>>
        /\ Head(mainQueue).type = "answer"
    BY <1>7 DEF AnswerRuns
  <2>2. Head(mainQueue) \in MainItems /\ Tail(mainQueue) \in Seq(MainItems)
    BY <2>1, Leaves
  <2>3. /\ Token(Head(mainQueue).ask.close, Head(mainQueue).user) \in WorkerItems
        /\ GetToken(tokenCounter, Head(mainQueue).ask.close) \in Fetching
    BY <2>1, <2>2, MainShape, Shapes, Asking DEF CountersTyped
  <2>4. \/ /\ inAuth' = inAuth \cup {GetToken(tokenCounter, Head(mainQueue).ask.close)}
           /\ worker' = worker
        \/ /\ worker' = Append(worker, Token(Head(mainQueue).ask.close,
                                             Head(mainQueue).user))
           /\ inAuth' = inAuth
    BY <1>7 DEF AnswerRuns
  <2>5. inAuth' \subseteq Fetching
    BY <2>3, <2>4
  <2>6. worker' \in Seq(WorkerItems)
    <3> HIDE DEF QueuesTyped
    <3>1. worker \in Seq(WorkerItems)
      BY DEF QueuesTyped
    <3> QED  BY <2>3, <2>4, <3>1, Joins
  <2> QED  BY <2>1, <2>2, <2>5, <2>6
<1>8. CASE WorkerChangesUser
  <2>1. /\ worker' = Tail(worker) /\ worker # <<>> /\ mainQueue' = mainQueue
        /\ StartOrStay(closeCount')
        /\ closeCount' \in {closeCount, closeCount + 1}
    BY <1>8 DEF WorkerChangesUser
  <2>2. inAuth' = inAuth \/ inAuth' = inAuth \cup {GetToken(tokenCounter, closeCount')}
    BY <2>1 DEF StartOrStay
  <2>3. GetToken(tokenCounter, closeCount') \in Fetching
    BY <2>1, Asking DEF CountersTyped
  <2> QED  BY <2>1, <2>2, <2>3, Leaves
<1>9. CASE StreamStarts \/ BackoffEnds
  <2>1. /\ worker' = worker /\ mainQueue' = mainQueue
        /\ inAuth' = inAuth \cup {GetToken(tokenCounter, closeCount)}
    BY <1>9 DEF StreamStarts, BackoffEnds
  <2> QED  BY <2>1, Asking DEF CountersTyped
<1>10. CASE WorkerTakesToken
  <2>1. /\ worker' = Tail(worker) /\ worker # <<>> /\ mainQueue' = mainQueue
        /\ inAuth' = inAuth
    BY <1>10 DEF WorkerTakesToken, authVars
  <2> QED  BY <2>1, Leaves
<1>11. CASE StreamEnds
  BY <1>11 DEF StreamEnds, authVars
<1> QED
  BY <1>1, <1>2, <1>3, <1>4, <1>5, <1>6, <1>7, <1>8, <1>9, <1>10, <1>11 DEF CredNext

(* Users, counters and the state of the stream keep their types.           *)
LEMMA UsersKept ==
    ASSUME QueuesTyped, UsersTyped, CredNext
    PROVE  UsersTyped'
<1> USE DEF UsersTyped, authVars, providerVars, openingVars
<1>1. ASSUME NEW u \in Owners, AuthChanges(u) PROVE UsersTyped'
  BY <1>1 DEF AuthChanges
<1>2. ASSUME NEW r \in inAuth, TakesRequest(r) \/ FetchesToken(r) \/ FailsToFetch(r)
      PROVE UsersTyped'
  BY <1>2 DEF TakesRequest, FetchesToken, FailsToFetch
<1>3. CASE MakesProvider
  BY <1>3 DEF MakesProvider
<1>4. CASE NotificationRuns
  <2>1. /\ Head(mainQueue) \in MainItems
        /\ Head(mainQueue).type = "notification"
    BY <1>4, Leaves DEF NotificationRuns, QueuesTyped
  <2>2. Head(mainQueue).user \in Owners
    BY <2>1, MainShape
  <2> QED  BY <1>4, <2>2 DEF NotificationRuns
<1>5. CASE AnswerRuns \/ StreamStarts \/ BackoffEnds
  BY <1>5 DEF AnswerRuns, StreamStarts, BackoffEnds
<1>6. CASE WorkerChangesUser
  <2>1. /\ Head(worker) \in WorkerItems
        /\ Head(worker).type = "credential"
    BY <1>6, Leaves DEF WorkerChangesUser, QueuesTyped
  <2>2. Head(worker).user \in Owners
    BY <2>1, WorkerShape
  <2> QED  BY <1>6, <2>2 DEF WorkerChangesUser, Owners
<1>7. CASE WorkerTakesToken
  <2>1. /\ Head(worker) \in WorkerItems
        /\ Head(worker).type = "token"
    BY <1>7, Leaves DEF WorkerTakesToken, QueuesTyped
  <2>2. Head(worker).user \in Owners \cup {Failed}
    BY <2>1, WorkerShape
  <2> QED  BY <1>7, <2>2 DEF WorkerTakesToken
<1>8. CASE StreamEnds
  BY <1>8 DEF StreamEnds, Owners
<1> QED
  BY <1>1, <1>2, <1>3, <1>4, <1>5, <1>6, <1>7, <1>8 DEF CredNext

LEMMA CountersKept == CountersTyped /\ StreamTyped /\ CredNext
                         => CountersTyped' /\ StreamTyped'
<1> SUFFICES ASSUME CountersTyped, StreamTyped, CredNext
             PROVE  CountersTyped' /\ StreamTyped'
  OBVIOUS
<1>1. /\ changes' = changes \/ (changes < MaxChanges /\ changes' = changes + 1)
      /\ failures' = failures \/ (failures < MaxFailures /\ failures' = failures + 1)
  BY DEF CredNext, AuthChanges, TakesRequest, FetchesToken, FailsToFetch, Fails,
         MakesProvider, NotificationRuns, AnswerRuns, WorkerChangesUser,
         StreamStarts, WorkerTakesToken, StreamEnds, BackoffEnds, authVars
<1>2. tokenCounter' \in {tokenCounter, tokenCounter + 1}
  BY DEF CredNext, AuthChanges, TakesRequest, FetchesToken, FailsToFetch,
         MakesProvider, NotificationRuns, AnswerRuns, WorkerChangesUser,
         StreamStarts, WorkerTakesToken, StreamEnds, BackoffEnds, providerVars
<1>3. closeCount' \in {closeCount, closeCount + 1}
  BY DEF CredNext, AuthChanges, TakesRequest, FetchesToken, FailsToFetch,
         MakesProvider, NotificationRuns, AnswerRuns, WorkerChangesUser,
         StreamStarts, WorkerTakesToken, StreamEnds, BackoffEnds, openingVars
<1>4. stream' \in {stream, "stopped", "starting", "open", "backoff"}
  BY DEF CredNext, AuthChanges, TakesRequest, FetchesToken, FailsToFetch,
         MakesProvider, NotificationRuns, AnswerRuns, WorkerChangesUser,
         StartOrStay, StreamStarts, WorkerTakesToken, StreamEnds, BackoffEnds,
         openingVars
<1>5. CountersTyped'
  BY <1>1, <1>2, <1>3, CredentialsBoundsAssumption DEF CountersTyped
<1>6. StreamTyped'
  BY <1>4 DEF StreamTyped
<1> QED  BY <1>5, <1>6

(* What else the invariant says of the main queue.                         *)
Expected == IF credential = NoEngine THEN authUser ELSE credential
MainAgrees(q, u) ==
    /\ q \in Seq(MainItems)
    /\ PastOnMain(q, tokenCounter, closeCount)
    /\ RightOnMain(q, tokenCounter, credential)
    /\ Held(q, LiveAnswers(closeCount)) = Held(mainQueue, LiveAnswers(closeCount))
    /\ LeadsTo(u, q, "notification", IF credential = NoEngine THEN u ELSE credential)
    /\ Of(q, "answer") = Of(mainQueue, "answer")

(* A notification joins the main queue (AuthChanges, and a new token).     *)
LEMMA Notifying ==
    ASSUME CredInv, NEW u \in Owners
    PROVE  /\ MainAgrees(Append(mainQueue, Notified(u)), u)
           /\ Of(Append(mainQueue, Notified(u)), "notification") # {}
<1> DEFINE x == Notified(u)
<1>1. /\ mainQueue \in Seq(MainItems) /\ x \in MainItems
      /\ x.type = "notification" /\ x.user = u
  BY Shapes DEF CredInv, Typed, QueuesTyped
<1>2. /\ PastOnMain(mainQueue, tokenCounter, closeCount)
      /\ RightOnMain(mainQueue, tokenCounter, credential)
  BY DEF CredInv, Agreed, AskedInPast, Right
<1> HIDE DEF x
<1>3. Append(mainQueue, x) \in Seq(MainItems)
  BY <1>1, Joins
<1>4. /\ PastOnMain(Append(mainQueue, x), tokenCounter, closeCount)
      /\ RightOnMain(Append(mainQueue, x), tokenCounter, credential)
  BY <1>1, <1>2, MainJoins
<1>5. Held(Append(mainQueue, x), LiveAnswers(closeCount))
         = Held(mainQueue, LiveAnswers(closeCount))
  <2>1. x \notin LiveAnswers(closeCount)
    BY <1>1 DEF LiveAnswers
  <2> QED  BY <1>1, <2>1, HeldJoins
<1>6. \A t : LeadsTo(u, Append(mainQueue, x), "notification", t)
  BY <1>1, LeadsOn
<1>7. /\ Of(Append(mainQueue, x), "answer") = Of(mainQueue, "answer")
      /\ Len(mainQueue) + 1 \in Of(Append(mainQueue, x), "notification")
  BY <1>1, OfJoined
<1> QED  BY <1>3, <1>4, <1>5, <1>6, <1>7 DEF MainAgrees, x

LEMMA AuthChangesKeeps ==
    ASSUME CredInv, NEW u \in Owners, AuthChanges(u), Typed'
    PROVE  Agreed'
<1> DEFINE q == Append(mainQueue, Notified(u))
<1>1. /\ authUser' = u /\ mainQueue' = q
      /\ UNCHANGED <<inAuth, credential, tokenCounter, worker, syncUser, stream,
                     closeCount, callUser>>
  BY DEF AuthChanges, providerVars, openingVars
<1>2. MainAgrees(q, u) /\ Of(q, "notification") # {}
  BY Notifying
<1> HIDE DEF q
<1> USE DEF CredInv, Typed, Agreed
<1>3. NotYet'
  BY <1>1, <1>2 DEF NotYet, MainAgrees
<1>4. AskedInPast'
  BY <1>1, <1>2 DEF AskedInPast, PastInAuth, MainAgrees
<1>5. OneWaits'
  <2>1. Awaited(stream, inAuth, q, worker, closeCount)
    BY <1>2, OneAwaited DEF MainAgrees, Awaited
  <2> QED  BY <1>1, <2>1, OneAwaitedNext
<1>6. Follows'
  BY <1>1, <1>2 DEF Follows, MainAgrees
<1>7. Right'
  BY <1>1, <1>2 DEF Right, RightInAuth, MainAgrees
<1>8. OpenForSyncUser'
  BY <1>1 DEF OpenForSyncUser
<1> QED  BY <1>3, <1>4, <1>5, <1>6, <1>7, <1>8

(* A request that leaves FIRAuth, and its answer on the main queue.        *)
LEMMA Leaving ==
    ASSUME NEW requests, NEW r \in requests, NEW n
    PROVE  /\ r.ask.close # n =>
                LiveRequests(requests \ {r}, n) = LiveRequests(requests, n)
           /\ r.ask.close = n =>
                /\ LiveRequests(requests, n) # {}
                /\ One(LiveRequests(requests, n)) =>
                      LiveRequests(requests \ {r}, n) = {}
BY DEF LiveRequests, One

LEMMA Answering ==
    ASSUME CredInv, Typed',
           NEW r \in inAuth, NEW u \in Owners \cup {Failed}, NEW q,
           MainAgrees(q, authUser),
           r.ask.counter = tokenCounter /\ Of(q, "notification") = {}
               => u \in {credential, Failed},
           Of(mainQueue, "notification") # {} => Of(q, "notification") # {},
           mainQueue' = Append(q, Answer(r.ask, u)),
           inAuth' = inAuth \ {r},
           UNCHANGED <<authUser, credential, tokenCounter, worker, syncUser, stream,
                       closeCount, callUser>>
    PROVE  Agreed'
<1> DEFINE x == Answer(r.ask, u)
<1>1. /\ r \in Fetching /\ r.ask \in Asks
      /\ AskedBefore(r.ask, tokenCounter, closeCount)
  BY Requests DEF CredInv, Typed, Agreed, QueuesTyped, AskedInPast, PastInAuth
<1>2. /\ x \in MainItems /\ x.type = "answer" /\ x.ask = r.ask /\ x.user = u
      /\ mainQueue' = Append(q, x) /\ q \in Seq(MainItems)
  BY <1>1, Shapes DEF MainAgrees
<1> HIDE DEF x
<1> USE DEF CredInv, Typed, Agreed
<1>3. NotYet'
  BY DEF NotYet
<1>4. /\ PastOnMain(Append(q, x), tokenCounter, closeCount)
      /\ RightOnMain(Append(q, x), tokenCounter, credential)
  <2>1. /\ PastOnMain(q, tokenCounter, closeCount)
        /\ RightOnMain(q, tokenCounter, credential)
    BY DEF MainAgrees
  <2>2. /\ AskedBefore(x.ask, tokenCounter, closeCount)
        /\ x.ask.counter = tokenCounter /\ Of(q, "notification") = {}
              => x.user \in {credential, Failed}
    BY <1>1, <1>2
  <2> QED  BY <1>2, <2>1, <2>2, MainJoins
<1>5. AskedInPast'
  BY <1>2, <1>4 DEF AskedInPast, PastInAuth
<1>6. OneWaits'
  <2>1. Awaited(stream, inAuth, q, worker, closeCount)
    BY OneAwaited DEF MainAgrees, Awaited
  <2>2. x \in LiveAnswers(closeCount) <=> r.ask.close = closeCount
    BY <1>2 DEF LiveAnswers
  <2>3. CASE r.ask.close = closeCount
    <3>1. /\ LiveRequests(inAuth, closeCount) # {}
          /\ One(LiveRequests(inAuth, closeCount)) =>
                 LiveRequests(inAuth \ {r}, closeCount) = {}
      BY <2>3, Leaving
    <3>2. Held(q, LiveAnswers(closeCount)) = {} =>
              One(Held(Append(q, x), LiveAnswers(closeCount)))
      BY <1>2, <2>2, <2>3, HeldJoins
    <3>3. Awaited(stream, inAuth \ {r}, Append(q, x), worker, closeCount)
      BY <2>1, <3>1, <3>2 DEF Awaited, InOne, InNone
    <3> QED  BY <1>2, <3>3, OneAwaitedNext
  <2>4. CASE r.ask.close # closeCount
    <3>1. LiveRequests(inAuth \ {r}, closeCount) = LiveRequests(inAuth, closeCount)
      BY <2>4, Leaving
    <3>2. Held(Append(q, x), LiveAnswers(closeCount)) = Held(q, LiveAnswers(closeCount))
      BY <1>2, <2>2, <2>4, HeldJoins
    <3>3. Awaited(stream, inAuth \ {r}, Append(q, x), worker, closeCount)
      BY <2>1, <3>1, <3>2 DEF Awaited
    <3> QED  BY <1>2, <3>3, OneAwaitedNext
  <2> QED  BY <2>3, <2>4
<1>7. Follows'
  <2>1. LeadsTo(authUser, Append(q, x), "notification", Expected)
    BY <1>2, LeadsOn DEF MainAgrees, Expected
  <2> QED  BY <1>2, <2>1 DEF Follows, Expected
<1>8. Right'
  <2>1. Of(Append(q, x), "notification") = Of(q, "notification")
    BY <1>2, OfJoined
  <2>2. RightInAuth'
    BY <1>2, <2>1 DEF Right, RightInAuth
  <2> QED  BY <1>2, <1>4, <2>2 DEF Right
<1>9. OpenForSyncUser'
  BY DEF OpenForSyncUser
<1> QED  BY <1>3, <1>5, <1>6, <1>7, <1>8, <1>9

LEMMA AsItIs == CredInv => MainAgrees(mainQueue, authUser)
BY DEF CredInv, Typed, QueuesTyped, Agreed, AskedInPast, Right, Follows, MainAgrees

(* Whoever asks FIRAuth when no notification is under way asks about the   *)
(* provider's user.                                                        *)
LEMMA CaughtUp ==
    CredInv /\ inAuth # {} /\ Of(mainQueue, "notification") = {}
        => authUser = credential
BY DEF CredInv, Agreed, NotYet, Follows, LeadsTo

(* A request that stays in FIRAuth, and a request that comes in.           *)
LEMMA Staying ==
    ASSUME NEW requests, NEW r \in requests, NEW s, s.ask = r.ask, NEW n
    PROVE  LET after == LiveRequests((requests \ {r}) \cup {s}, n)
           IN  /\ LiveRequests(requests, n) = {} => after = {}
               /\ One(LiveRequests(requests, n)) => One(after)
<1> DEFINE after == LiveRequests((requests \ {r}) \cup {s}, n)
<1>1. LiveRequests(requests, n) = {} => after = {}
  BY DEF LiveRequests
<1>2. ASSUME NEW x, LiveRequests(requests, n) = {x} PROVE One(after)
  <2>1. CASE r.ask.close = n
    <3>1. after = {s}
      BY <1>2, <2>1 DEF LiveRequests
    <3> QED  BY <3>1 DEF One
  <2>2. CASE r.ask.close # n
    <3>1. after = {x}
      BY <1>2, <2>2 DEF LiveRequests
    <3> QED  BY <3>1 DEF One
  <2> QED  BY <2>1, <2>2
<1> QED  BY <1>1, <1>2 DEF One

LEMMA Coming ==
    ASSUME NEW requests, NEW g, NEW n
    PROVE  /\ g.ask.close = n /\ LiveRequests(requests, n) = {}
                 => One(LiveRequests(requests \cup {g}, n))
           /\ g.ask.close # n
                 => LiveRequests(requests \cup {g}, n) = LiveRequests(requests, n)
<1>1. ASSUME g.ask.close = n, LiveRequests(requests, n) = {}
      PROVE  One(LiveRequests(requests \cup {g}, n))
  <2>1. LiveRequests(requests \cup {g}, n) = {g}
    BY <1>1 DEF LiveRequests
  <2> QED  BY <2>1 DEF One
<1>2. ASSUME g.ask.close # n
      PROVE  LiveRequests(requests \cup {g}, n) = LiveRequests(requests, n)
  BY <1>2 DEF LiveRequests
<1> QED  BY <1>1, <1>2

LEMMA TakesRequestKeeps ==
    ASSUME CredInv, NEW r \in inAuth, TakesRequest(r), Typed'
    PROVE  Agreed'
<1>1. UNCHANGED <<authUser, credential, tokenCounter, worker, syncUser, stream,
                  closeCount, callUser>>
  BY DEF TakesRequest, providerVars, openingVars
<1>2. CASE authUser = NoUser
  <2>1. /\ inAuth' = inAuth \ {r}
        /\ mainQueue' = Append(mainQueue, Answer(r.ask, NoUser))
    BY <1>2 DEF TakesRequest
  <2>2. Of(mainQueue, "notification") = {} => NoUser \in {credential, Failed}
    BY <1>2, CaughtUp
  <2> QED  BY <1>1, <2>1, <2>2, AsItIs, Answering DEF Owners
<1>3. CASE authUser # NoUser
  <2> DEFINE s == [r EXCEPT !.user = authUser]
  <2>1. inAuth' = (inAuth \ {r}) \cup {s} /\ mainQueue' = mainQueue
    BY <1>3 DEF TakesRequest
  <2>2. r \in Fetching /\ s.ask = r.ask /\ s.user = authUser
    BY <1>3, Requests DEF CredInv, Typed, QueuesTyped, UsersTyped, Owners
  <2> HIDE DEF s
  <2> USE DEF CredInv, Agreed
  <2>3. NotYet' /\ AskedInPast' /\ Follows' /\ OpenForSyncUser'
    BY <1>1, <2>1, <2>2
       DEF NotYet, AskedInPast, PastInAuth, Follows, OpenForSyncUser
  <2>4. OneWaits'
    <3>1. Awaited(stream, inAuth, mainQueue, worker, closeCount)
      BY OneAwaited DEF Typed
    <3>2. Awaited(stream, inAuth', mainQueue, worker, closeCount)
      BY <2>1, <2>2, <3>1, Staying DEF Awaited, InOne, InNone
    <3> QED  BY <1>1, <2>1, <3>2, OneAwaitedNext DEF Typed
  <2>5. Of(mainQueue, "notification") = {} => s.user = credential
    BY <2>2, CaughtUp
  <2>6. Right'
    BY <1>1, <2>1, <2>5 DEF Right, RightInAuth
  <2> QED  BY <2>3, <2>4, <2>6
<1> QED  BY <1>2, <1>3

LEMMA FetchesTokenKeeps ==
    ASSUME CredInv, NEW r \in inAuth, FetchesToken(r), Typed'
    PROVE  Agreed'
<1>1. /\ inAuth' = inAuth \ {r} /\ r.user # Nowhere
      /\ UNCHANGED <<authUser, credential, tokenCounter, worker, syncUser, stream,
                     closeCount, callUser>>
  BY DEF FetchesToken, providerVars, openingVars
<1>2. r \in Fetching /\ r.user \in Owners /\ r.ask \in Asks
  BY <1>1, Requests DEF CredInv, Typed, QueuesTyped, Owners
<1>3. r.ask.counter = tokenCounter /\ Of(mainQueue, "notification") = {}
          => r.user = credential
  BY <1>1 DEF CredInv, Agreed, Right, RightInAuth
<1>4. CASE mainQueue' = Append(mainQueue, Answer(r.ask, r.user))
  BY <1>1, <1>2, <1>3, <1>4, AsItIs, Answering
<1>5. CASE /\ mainQueue' = mainQueue \o <<Notified(r.user), Answer(r.ask, r.user)>>
           /\ r.user = authUser
  <2> DEFINE q == Append(mainQueue, Notified(r.user))
  <2>1. MainAgrees(q, authUser) /\ Of(q, "notification") # {}
    BY <1>2, <1>5, Notifying
  <2>2. mainQueue' = Append(q, Answer(r.ask, r.user))
    <3>1. /\ Notified(r.user) \in MainItems /\ Answer(r.ask, r.user) \in MainItems
          /\ mainQueue \in Seq(MainItems)
      BY <1>2, Shapes DEF CredInv, Typed, QueuesTyped
    <3> QED  BY <1>5, <3>1, NotifiedThenAnswered
  <2> HIDE DEF q
  <2> QED  BY <1>1, <1>2, <2>1, <2>2, Answering
<1> QED  BY <1>4, <1>5 DEF FetchesToken

LEMMA FailsToFetchKeeps ==
    ASSUME CredInv, NEW r \in inAuth, FailsToFetch(r), Typed'
    PROVE  Agreed'
<1>1. /\ inAuth' = inAuth \ {r}
      /\ mainQueue' = Append(mainQueue, Answer(r.ask, Failed))
      /\ UNCHANGED <<authUser, credential, tokenCounter, worker, syncUser, stream,
                     closeCount, callUser>>
  BY DEF FailsToFetch, providerVars, openingVars
<1> QED  BY <1>1, AsItIs, Answering

(* The provider is made ahead of the notifications under way.              *)
LEMMA MakesProviderKeeps ==
    ASSUME CredInv, MakesProvider, Typed'
    PROVE  Agreed'
<1> DEFINE x == Changed(authUser)
<1>1. /\ credential = NoEngine /\ credential' = authUser
      /\ worker' = Append(worker, x)
      /\ UNCHANGED <<authUser, inAuth, mainQueue, tokenCounter, syncUser, stream,
                     closeCount, callUser>>
  BY DEF MakesProvider, authVars, openingVars
<1>2. /\ worker = <<>> /\ inAuth = {} /\ Of(mainQueue, "answer") = {}
      /\ authUser \in Owners /\ authUser # NoEngine
      /\ worker \in Seq(WorkerItems)
  BY <1>1, CredentialsNobodyAssumption
     DEF CredInv, Typed, Agreed, NotYet, UsersTyped, QueuesTyped, Owners
<1>3. x \in WorkerItems /\ x.type = "credential" /\ x.user = authUser
  BY <1>2, Shapes
<1> HIDE DEF x
<1> USE DEF CredInv, Agreed
<1>4. NotYet' /\ OpenForSyncUser'
  BY <1>1, <1>2 DEF NotYet, OpenForSyncUser
<1>5. /\ PastOnWorker(worker', closeCount)
      /\ RightOnWorker(worker', closeCount, syncUser)
  <2>1. PastOnWorker(worker, closeCount) /\ RightOnWorker(worker, closeCount, syncUser)
    BY DEF AskedInPast, Right
  <2> QED  BY <1>1, <1>2, <1>3, <2>1, WorkerJoins
<1>6. AskedInPast'
  BY <1>1, <1>5 DEF AskedInPast, PastInAuth
<1>7. Right'
  <2>1. RightInAuth' /\ RightOnMain(mainQueue, tokenCounter, credential')
    BY <1>1, <1>2 DEF RightInAuth, RightOnMain
  <2> QED  BY <1>1, <1>5, <2>1 DEF Right
<1>8. OneWaits'
  <2>1. Awaited(stream, inAuth, mainQueue, worker, closeCount)
    BY OneAwaited DEF Typed
  <2>2. Held(Append(worker, x), LiveTokens(closeCount)) = Held(worker, LiveTokens(closeCount))
    <3>1. x \notin LiveTokens(closeCount)
      BY <1>3 DEF LiveTokens
    <3> QED  BY <1>2, <1>3, <3>1, HeldJoins
  <2>3. Awaited(stream, inAuth, mainQueue, Append(worker, x), closeCount)
    BY <2>1, <2>2 DEF Awaited
  <2> QED  BY <1>1, <2>3, OneAwaitedNext DEF Typed
<1>9. Follows'
  <2>1. LeadsTo(authUser, mainQueue, "notification", authUser)
    BY <1>1 DEF Follows
  <2>2. LeadsTo(authUser, Append(worker, x), "credential", syncUser)
    BY <1>2, <1>3, LeadsOn
  <2> QED  BY <1>1, <1>2, <2>1, <2>2 DEF Follows
<1> QED  BY <1>4, <1>6, <1>7, <1>8, <1>9

LEMMA NotificationRunsKeeps ==
    ASSUME CredInv, NotificationRuns, Typed'
    PROVE  Agreed'
<1> DEFINE h == Head(mainQueue)
           q == Tail(mainQueue)
<1>1. /\ mainQueue # <<>> /\ h.type = "notification" /\ mainQueue' = q
      /\ mainQueue \in Seq(MainItems)
      /\ UNCHANGED <<authUser, inAuth, syncUser, stream, closeCount, callUser>>
  BY DEF NotificationRuns, authVars, openingVars, CredInv, Typed, QueuesTyped
<1>2. /\ q \in Seq(MainItems) /\ h \in MainItems
      /\ tokenCounter \in Nat /\ closeCount \in Nat
      /\ PastOnMain(mainQueue, tokenCounter, closeCount)
      /\ RightOnMain(mainQueue, tokenCounter, credential)
  BY <1>1, Leaves
     DEF CredInv, Typed, CountersTyped, Agreed, AskedInPast, Right
<1>3. PastOnMain(q, tokenCounter, closeCount)
  BY <1>1, <1>2, MainLeaves
<1>4. \A s, t : LeadsTo(s, mainQueue, "notification", t)
                    => LeadsTo(s, q, "notification", h.user)
  BY <1>1, LeadsFromHead
<1>5. /\ Held(mainQueue, LiveAnswers(closeCount)) = {}
            => Held(q, LiveAnswers(closeCount)) = {}
      /\ One(Held(mainQueue, LiveAnswers(closeCount)))
            => One(Held(q, LiveAnswers(closeCount)))
  <2>1. h \notin LiveAnswers(closeCount)
    BY <1>1 DEF LiveAnswers
  <2> QED  BY <1>1, <2>1, HeldLeaves
<1>6. Awaited(stream, inAuth, q, worker, closeCount)
  <2>1. Awaited(stream, inAuth, mainQueue, worker, closeCount)
    BY OneAwaited DEF CredInv, Typed, Agreed
  <2> QED  BY <1>5, <2>1 DEF Awaited, InOne, InNone
<1>7. Of(mainQueue, "answer") = {} => Of(q, "answer") = {}
  BY <1>1, <1>2, OfLeft
<1> HIDE DEF h, q
<1> USE DEF CredInv, Agreed
<1>8. OpenForSyncUser'
  BY <1>1 DEF OpenForSyncUser
<1>9. CASE credential = NoEngine
  <2>1. UNCHANGED <<credential, tokenCounter, worker>>
    BY <1>9 DEF NotificationRuns
  <2>2. inAuth = {} /\ Of(q, "answer") = {}
    BY <1>7, <1>9 DEF NotYet
  <2>3. NotYet'
    BY <1>1, <2>1, <2>2 DEF NotYet
  <2>4. AskedInPast'
    BY <1>1, <1>3, <2>1 DEF AskedInPast, PastInAuth
  <2>5. OneWaits'
    BY <1>1, <1>6, <2>1, OneAwaitedNext DEF Typed
  <2>6. Follows'
    <3>1. LeadsTo(authUser, q, "notification", authUser)
      BY <1>4 DEF Follows, LeadsTo
    <3> QED  BY <1>1, <1>9, <2>1, <3>1 DEF Follows
  <2>7. Right'
    BY <1>1, <2>1, <2>2 DEF Right, RightInAuth, RightOnMain
  <2> QED  BY <1>8, <2>3, <2>4, <2>5, <2>6, <2>7
<1>10. CASE credential # NoEngine
  <2> DEFINE x == Changed(h.user)
  <2>1. /\ credential' = h.user /\ tokenCounter' = tokenCounter + 1
        /\ worker' = Append(worker, x)
    BY <1>10 DEF NotificationRuns, h
  <2>2. h.user \in Owners /\ h.user # NoEngine
    BY <1>1, <1>2, MainShape, CredentialsNobodyAssumption DEF Owners
  <2>3. /\ x \in WorkerItems /\ x.type = "credential" /\ x.user = h.user
        /\ worker \in Seq(WorkerItems)
    BY <2>2, Shapes DEF Typed, QueuesTyped
  <2> HIDE DEF x
  <2>4. NotYet'
    BY <2>1, <2>2 DEF NotYet
  <2>5. /\ PastOnMain(q, tokenCounter + 1, closeCount)
        /\ \A u : RightOnMain(q, tokenCounter + 1, u)
    BY <1>2, <1>3, MainFailed
  <2>6. /\ PastOnWorker(Append(worker, x), closeCount)
        /\ RightOnWorker(Append(worker, x), closeCount, syncUser)
    <3>1. PastOnWorker(worker, closeCount) /\ RightOnWorker(worker, closeCount, syncUser)
      BY DEF AskedInPast, Right
    <3> QED  BY <2>3, <3>1, WorkerJoins
  <2>7. \A r \in inAuth : /\ AskedBefore(r.ask, tokenCounter + 1, closeCount)
                          /\ r.ask.counter # tokenCounter + 1
    BY <1>2, Requests DEF Typed, QueuesTyped, AskedInPast, PastInAuth, AskedBefore
  <2>8. AskedInPast'
    BY <1>1, <2>1, <2>5, <2>6, <2>7 DEF AskedInPast, PastInAuth
  <2>9. OneWaits'
    <3>1. Held(Append(worker, x), LiveTokens(closeCount)) = Held(worker, LiveTokens(closeCount))
      <4>1. x \notin LiveTokens(closeCount)
        BY <2>3 DEF LiveTokens
      <4> QED  BY <2>3, <4>1, HeldJoins
    <3>2. Awaited(stream, inAuth, q, Append(worker, x), closeCount)
      BY <1>6, <3>1 DEF Awaited
    <3> QED  BY <1>1, <2>1, <3>2, OneAwaitedNext DEF Typed
  <2>10. Follows'
    <3>1. LeadsTo(authUser, q, "notification", h.user)
      BY <1>4 DEF Follows
    <3>2. LeadsTo(h.user, Append(worker, x), "credential", syncUser)
      BY <2>3, LeadsOn
    <3> QED  BY <1>1, <2>1, <2>2, <3>1, <3>2 DEF Follows
  <2>11. Right'
    <3>1. RightInAuth'
      BY <1>1, <2>1, <2>7 DEF RightInAuth
    <3> QED  BY <1>1, <2>1, <2>5, <2>6, <3>1 DEF Right
  <2> QED  BY <1>8, <2>4, <2>8, <2>9, <2>10, <2>11
<1> QED  BY <1>9, <1>10

LEMMA AnswerRunsKeeps ==
    ASSUME CredInv, AnswerRuns, Typed'
    PROVE  Agreed'
<1> DEFINE h == Head(mainQueue)
           q == Tail(mainQueue)
           g == GetToken(tokenCounter, h.ask.close)
           x == Token(h.ask.close, h.user)
<1>1. /\ mainQueue # <<>> /\ h.type = "answer" /\ mainQueue' = q
      /\ mainQueue \in Seq(MainItems)
      /\ UNCHANGED <<authUser, credential, tokenCounter, syncUser, stream, closeCount,
                     callUser>>
      /\ IF h.ask.counter # tokenCounter
           THEN inAuth' = inAuth \cup {g} /\ worker' = worker
           ELSE worker' = Append(worker, x) /\ inAuth' = inAuth
  BY DEF AnswerRuns, providerVars, openingVars, CredInv, Typed, QueuesTyped
<1>2. /\ q \in Seq(MainItems) /\ h \in MainItems
      /\ tokenCounter \in Nat /\ closeCount \in Nat
      /\ worker \in Seq(WorkerItems)
      /\ PastOnMain(mainQueue, tokenCounter, closeCount)
      /\ RightOnMain(mainQueue, tokenCounter, credential)
  BY <1>1, Leaves
     DEF CredInv, Typed, CountersTyped, QueuesTyped, Agreed, AskedInPast, Right
<1>3. h.ask.close \in Nat /\ h.user \in Owners \cup {Failed}
  BY <1>1, <1>2, MainShape
<1>4. /\ PastOnMain(q, tokenCounter, closeCount)
      /\ AskedBefore(h.ask, tokenCounter, closeCount)
      /\ h.ask.counter = tokenCounter => h.user \in {credential, Failed}
      /\ RightOnMain(q, tokenCounter, credential)
  BY <1>1, <1>2, MainLeaves
<1>5. /\ g.user = Nowhere /\ g.ask.counter = tokenCounter
      /\ g.ask.close = h.ask.close
  BY <1>2, <1>3, Asking
<1>6. /\ x \in WorkerItems /\ x.type = "token" /\ x.close = h.ask.close
      /\ x.user = h.user
  BY <1>3, Shapes
<1>7. /\ credential # NoEngine
      /\ LeadsTo(authUser, q, "notification", credential)
      /\ LeadsTo(credential, worker, "credential", syncUser)
  <2>1. Of(mainQueue, "answer") # {}
    BY <1>1, OfLeft
  <2>2. credential # NoEngine
    BY <2>1 DEF CredInv, Agreed, NotYet
  <2>3. LeadsTo(authUser, mainQueue, "notification", credential)
    BY <2>2 DEF CredInv, Agreed, Follows
  <2>4. h.type # "notification"
    BY <1>1
  <2>5. LeadsTo(authUser, q, "notification", credential)
    BY <1>1, <2>3, <2>4, LeadsFromHead
  <2> QED  BY <2>2, <2>5 DEF CredInv, Agreed, Follows
<1>8. /\ Held(mainQueue, LiveAnswers(closeCount)) = {} =>
             h \notin LiveAnswers(closeCount) /\ Held(q, LiveAnswers(closeCount)) = {}
      /\ One(Held(mainQueue, LiveAnswers(closeCount))) =>
             IF h \in LiveAnswers(closeCount)
               THEN Held(q, LiveAnswers(closeCount)) = {}
               ELSE One(Held(q, LiveAnswers(closeCount)))
  BY <1>1, HeldLeaves
<1>9. h \in LiveAnswers(closeCount) <=> h.ask.close = closeCount
  BY <1>1, <1>2 DEF LiveAnswers
<1>10. Of(mainQueue, "notification") = {} <=> Of(q, "notification") = {}
  <2>1. h.type # "notification"
    BY <1>1
  <2>2. /\ Of(q, "notification") \subseteq 1 .. Len(mainQueue) - 1
        /\ \A i \in 1 .. Len(mainQueue) - 1 :
              i \in Of(q, "notification") <=> i + 1 \in Of(mainQueue, "notification")
        /\ 1 \notin Of(mainQueue, "notification")
        /\ Of(mainQueue, "notification") \subseteq 1 .. Len(mainQueue)
        /\ Len(mainQueue) \in Nat
    BY <1>1, <2>1, OfLeft
  <2>3. ASSUME NEW j \in Of(mainQueue, "notification") PROVE Of(q, "notification") # {}
    <3>1. /\ j - 1 \in 1 .. Len(mainQueue) - 1 /\ (j - 1) + 1 = j
      BY <2>2
    <3> QED  BY <2>2, <3>1
  <2> QED  BY <2>2, <2>3
<1>11. Awaited(stream, inAuth, mainQueue, worker, closeCount)
  BY OneAwaited DEF CredInv, Typed, Agreed
<1> HIDE DEF h, q, g, x
<1> USE DEF CredInv, Agreed
<1>12. NotYet' /\ OpenForSyncUser'
  BY <1>1, <1>7 DEF NotYet, OpenForSyncUser
<1>13. CASE h.ask.counter # tokenCounter
  <2>1. inAuth' = inAuth \cup {g} /\ worker' = worker
    BY <1>1, <1>13
  <2>2. AskedInPast'
    <3>1. AskedBefore(g.ask, tokenCounter, closeCount)
      BY <1>2, <1>4, <1>5 DEF AskedBefore
    <3> QED  BY <1>1, <1>4, <2>1, <3>1 DEF AskedInPast, PastInAuth
  <2>3. Follows'
    BY <1>1, <1>7, <2>1 DEF Follows
  <2>4. Right'
    BY <1>1, <1>4, <1>5, <1>10, <2>1 DEF Right, RightInAuth
  <2>5. OneWaits'
    <3>1. /\ g.ask.close = closeCount /\ LiveRequests(inAuth, closeCount) = {}
                => One(LiveRequests(inAuth \cup {g}, closeCount))
          /\ g.ask.close # closeCount =>
                LiveRequests(inAuth \cup {g}, closeCount) = LiveRequests(inAuth, closeCount)
      BY Coming
    <3>2. Awaited(stream, inAuth \cup {g}, q, worker, closeCount)
      <4>1. CASE h.ask.close = closeCount
        BY <1>5, <1>8, <1>9, <1>11, <3>1, <4>1 DEF Awaited, InOne, InNone
      <4>2. CASE h.ask.close # closeCount
        BY <1>5, <1>8, <1>9, <1>11, <3>1, <4>2 DEF Awaited, InOne, InNone
      <4> QED  BY <4>1, <4>2
    <3> QED  BY <1>1, <2>1, <3>2, OneAwaitedNext DEF Typed
  <2> QED  BY <1>12, <2>2, <2>3, <2>4, <2>5
<1>14. CASE h.ask.counter = tokenCounter
  <2>1. worker' = Append(worker, x) /\ inAuth' = inAuth
    BY <1>1, <1>14
  <2>2. /\ PastOnWorker(Append(worker, x), closeCount)
        /\ RightOnWorker(Append(worker, x), closeCount, syncUser)
    <3>1. PastOnWorker(worker, closeCount) /\ RightOnWorker(worker, closeCount, syncUser)
      BY DEF AskedInPast, Right
    <3>2. x.close <= closeCount
      BY <1>4, <1>6 DEF AskedBefore
    <3>3. Of(worker, "credential") = {} => x.user \in {syncUser, Failed}
      BY <1>4, <1>6, <1>7, <1>14 DEF LeadsTo
    <3> QED  BY <1>2, <1>6, <3>1, <3>2, <3>3, WorkerJoins
  <2>3. AskedInPast'
    BY <1>1, <1>4, <2>1, <2>2 DEF AskedInPast, PastInAuth
  <2>4. Follows'
    <3>1. x.type # "credential"
      BY <1>6
    <3>2. LeadsTo(credential, Append(worker, x), "credential", syncUser)
      BY <1>2, <1>6, <1>7, <3>1, LeadsOn
    <3> QED  BY <1>1, <1>7, <2>1, <3>2 DEF Follows
  <2>5. Right'
    BY <1>1, <1>4, <1>10, <2>1, <2>2 DEF Right, RightInAuth
  <2>6. OneWaits'
    <3>1. /\ x \notin LiveTokens(closeCount) =>
                Held(Append(worker, x), LiveTokens(closeCount))
                   = Held(worker, LiveTokens(closeCount))
          /\ x \in LiveTokens(closeCount) /\ Held(worker, LiveTokens(closeCount)) = {}
                => One(Held(Append(worker, x), LiveTokens(closeCount)))
      BY <1>2, <1>6, HeldJoins
    <3>2. x \in LiveTokens(closeCount) <=> h.ask.close = closeCount
      BY <1>6 DEF LiveTokens
    <3>3. Awaited(stream, inAuth, q, Append(worker, x), closeCount)
      <4>1. CASE h.ask.close = closeCount
        BY <1>8, <1>9, <1>11, <3>1, <3>2, <4>1 DEF Awaited, InOne, InNone
      <4>2. CASE h.ask.close # closeCount
        BY <1>8, <1>9, <1>11, <3>1, <3>2, <4>2 DEF Awaited, InOne, InNone
      <4> QED  BY <4>1, <4>2
    <3> QED  BY <1>1, <2>1, <3>3, OneAwaitedNext DEF Typed
  <2> QED  BY <1>12, <2>3, <2>4, <2>5, <2>6
<1> QED  BY <1>13, <1>14

(* The worker restarts the stream for a credential change.  What was asked *)
(* before is stale: the stream was closed, or nothing was asked.           *)
LEMMA WorkerChangesUserKeeps ==
    ASSUME CredInv, WorkerChangesUser, Typed'
    PROVE  Agreed'
<1> DEFINE h == Head(worker)
           w == Tail(worker)
<1>1. PICK n \in Nat : n = IF stream = "stopped" THEN closeCount ELSE closeCount + 1
  BY DEF CredInv, Typed, CountersTyped
<1> DEFINE g == GetToken(tokenCounter, n)
<1>2. /\ worker # <<>> /\ h.type = "credential" /\ worker' = w
      /\ syncUser' = h.user /\ closeCount' = n
      /\ worker \in Seq(WorkerItems)
      /\ UNCHANGED <<authUser, mainQueue, credential, tokenCounter>>
      /\ \/ stream' = "starting" /\ inAuth' = inAuth \cup {g}
         \/ stream' = "stopped" /\ inAuth' = inAuth
  BY <1>1 DEF WorkerChangesUser, StartOrStay, providerVars, CredInv, Typed, QueuesTyped
<1>3. /\ w \in Seq(WorkerItems) /\ mainQueue \in Seq(MainItems)
      /\ tokenCounter \in Nat /\ closeCount \in Nat
      /\ PastOnWorker(worker, closeCount)
      /\ RightOnWorker(worker, closeCount, syncUser)
      /\ PastOnMain(mainQueue, tokenCounter, closeCount)
  BY <1>2, Leaves
     DEF CredInv, Typed, CountersTyped, QueuesTyped, Agreed, AskedInPast, Right
<1>4. g.user = Nowhere /\ g.ask.counter = tokenCounter /\ g.ask.close = n
  BY <1>1, <1>3, Asking
<1>5. credential # NoEngine /\ LeadsTo(credential, w, "credential", h.user)
  <2>1. credential # NoEngine
    BY <1>2 DEF CredInv, Agreed, NotYet
  <2>2. LeadsTo(credential, worker, "credential", syncUser)
    BY DEF CredInv, Agreed, Follows
  <2> QED  BY <1>2, <2>1, <2>2, LeadsFromHead
<1>6. InNone(LiveRequests(inAuth, n), Held(mainQueue, LiveAnswers(n)),
             Held(worker, LiveTokens(n)))
  <2>1. CASE stream = "stopped"
    <3>1. Awaited(stream, inAuth, mainQueue, worker, closeCount)
      BY OneAwaited DEF CredInv, Typed, Agreed
    <3> QED  BY <1>1, <2>1, <3>1 DEF Awaited
  <2>2. CASE stream # "stopped"
    BY <1>1, <2>2, NoneForNext DEF CredInv, Typed, Agreed
  <2> QED  BY <2>1, <2>2
<1>7. Held(w, LiveTokens(n)) = {}
  BY <1>2, <1>6, HeldLeaves DEF InNone
<1>8. PastOnWorker(w, closeCount)
  BY <1>2, <1>3, WorkerLeaves
<1>9. PastOnWorker(w, closeCount + 1) /\ PastOnMain(mainQueue, tokenCounter, closeCount + 1)
  BY <1>3, <1>8, WorkerFailed, MainFailed
<1>10. PastOnWorker(w, n) /\ PastOnMain(mainQueue, tokenCounter, n)
  BY <1>1, <1>3, <1>8, <1>9
<1>11. \A u : RightOnWorker(w, n, u)
  <2>1. \A i \in Of(w, "token") : w[i].close # n
    BY <1>3, <1>7, Points DEF Held, LiveTokens, Of
  <2> QED  BY <2>1 DEF RightOnWorker
<1> HIDE DEF h, w, g
<1> USE DEF CredInv, Agreed
<1>12. NotYet' /\ OpenForSyncUser'
  BY <1>2, <1>5 DEF NotYet, OpenForSyncUser
<1>13. AskedInPast'
  <2>1. \A r \in inAuth \cup {g} : AskedBefore(r.ask, tokenCounter, n)
    <3>1. AskedBefore(g.ask, tokenCounter, n)
      BY <1>1, <1>3, <1>4 DEF AskedBefore
    <3>2. \A r \in inAuth : AskedBefore(r.ask, tokenCounter, n)
      BY <1>1, <1>3, Requests
         DEF AskedBefore, AskedInPast, PastInAuth, Typed, QueuesTyped
    <3> QED  BY <3>1, <3>2
  <2>2. PastInAuth'
    BY <1>2, <2>1 DEF PastInAuth
  <2> QED  BY <1>2, <1>10, <2>2 DEF AskedInPast
<1>14. Follows'
  BY <1>2, <1>5 DEF Follows
<1>15. Right'
  <2>1. RightInAuth'
    BY <1>2, <1>4 DEF Right, RightInAuth
  <2> QED  BY <1>2, <1>11, <2>1 DEF Right
<1>16. OneWaits'
  <2>1. One(LiveRequests(inAuth \cup {g}, n))
    BY <1>4, <1>6, Coming DEF InNone
  <2>2. Awaited(stream', inAuth', mainQueue, w, n)
    BY <1>2, <1>6, <1>7, <2>1 DEF Awaited, InOne, InNone
  <2> QED  BY <1>2, <2>2, OneAwaitedNext DEF Typed
<1> QED  BY <1>12, <1>13, <1>14, <1>15, <1>16

(* Stream::Start, after a stop or a backoff.                               *)
LEMMA StartingKeeps ==
    ASSUME CredInv, StreamStarts \/ BackoffEnds, Typed'
    PROVE  Agreed'
<1> DEFINE g == GetToken(tokenCounter, closeCount)
<1>1. /\ stream \in {"stopped", "backoff"} /\ stream' = "starting"
      /\ inAuth' = inAuth \cup {g}
      /\ stream = "stopped" => syncUser # NoEngine
      /\ UNCHANGED <<authUser, mainQueue, credential, tokenCounter, worker, syncUser,
                     closeCount, callUser>>
  BY DEF StreamStarts, BackoffEnds, providerVars
<1>2. /\ tokenCounter \in Nat /\ closeCount \in Nat
      /\ g.user = Nowhere /\ g.ask.counter = tokenCounter
      /\ g.ask.close = closeCount
  BY Asking DEF CredInv, Typed, CountersTyped
<1>3. Awaited(stream, inAuth, mainQueue, worker, closeCount)
  BY OneAwaited DEF CredInv, Typed, Agreed
<1> HIDE DEF g
<1> USE DEF CredInv, Agreed
<1>4. NotYet' /\ OpenForSyncUser' /\ Follows'
  BY <1>1 DEF NotYet, OpenForSyncUser, Follows
<1>5. AskedInPast'
  BY <1>1, <1>2 DEF AskedInPast, PastInAuth, AskedBefore
<1>6. Right'
  BY <1>1, <1>2 DEF Right, RightInAuth
<1>7. OneWaits'
  <2>1. LiveRequests(inAuth, closeCount) = {} => One(LiveRequests(inAuth', closeCount))
    BY <1>1, <1>2, Coming
  <2>2. Awaited("starting", inAuth', mainQueue, worker, closeCount)
    BY <1>1, <1>3, <2>1 DEF Awaited, InOne, InNone
  <2> QED  BY <1>1, <2>2, OneAwaitedNext DEF Typed
<1> QED  BY <1>4, <1>5, <1>6, <1>7

(* A stream that is closed, and what that makes of all that is under way.  *)
LEMMA Closing ==
    ASSUME CredInv, Typed', closeCount' = closeCount + 1, stream' # "starting",
           stream' # "open", credential # NoEngine,
           worker' = worker \/ (worker # <<>> /\ worker' = Tail(worker)
                                  /\ Head(worker).type = "token"),
           UNCHANGED <<authUser, mainQueue, credential, tokenCounter, inAuth, syncUser>>
    PROVE  Agreed'
<1>1. /\ worker \in Seq(WorkerItems) /\ worker' \in Seq(WorkerItems)
      /\ mainQueue \in Seq(MainItems)
      /\ tokenCounter \in Nat /\ closeCount \in Nat
      /\ PastOnWorker(worker, closeCount)
      /\ RightOnWorker(worker, closeCount, syncUser)
      /\ PastOnMain(mainQueue, tokenCounter, closeCount)
  BY DEF CredInv, Typed, CountersTyped, QueuesTyped, Agreed, AskedInPast, Right
<1>2. PastOnWorker(worker', closeCount)
  BY <1>1, WorkerLeaves
<1>3. /\ PastOnWorker(worker', closeCount + 1)
      /\ RightOnWorker(worker', closeCount + 1, syncUser)
      /\ PastOnMain(mainQueue, tokenCounter, closeCount + 1)
  BY <1>1, <1>2, WorkerFailed, MainFailed
<1> USE DEF CredInv, Agreed
<1>4. NotYet' /\ OpenForSyncUser'
  BY DEF NotYet, OpenForSyncUser
<1>5. AskedInPast'
  <2>1. \A r \in inAuth : AskedBefore(r.ask, tokenCounter, closeCount + 1)
    BY <1>1, Requests DEF AskedBefore, AskedInPast, PastInAuth, Typed, QueuesTyped
  <2> QED  BY <1>3, <2>1 DEF AskedInPast, PastInAuth
<1>6. Follows'
  <2>1. LeadsTo(credential, worker, "credential", syncUser)
    BY DEF Follows
  <2>2. LeadsTo(credential, worker', "credential", syncUser)
    <3>1. CASE worker' = worker
      BY <2>1, <3>1
    <3>2. CASE worker # <<>> /\ worker' = Tail(worker) /\ Head(worker).type = "token"
      <4>1. Head(worker).type # "credential"
        BY <3>2
      <4> QED  BY <1>1, <2>1, <3>2, <4>1, LeadsFromHead
    <3> QED  BY <3>1, <3>2
  <2> QED  BY <2>2 DEF Follows
<1>7. Right'
  BY <1>3 DEF Right, RightInAuth
<1>8. OneWaits'
  <2>1. InNone(LiveRequests(inAuth, closeCount + 1),
               Held(mainQueue, LiveAnswers(closeCount + 1)),
               Held(worker, LiveTokens(closeCount + 1)))
    BY NoneForNext DEF Typed
  <2>2. Held(worker', LiveTokens(closeCount + 1)) = {}
    BY <1>1, <2>1, HeldLeaves DEF InNone
  <2>3. Awaited(stream', inAuth', mainQueue', worker', closeCount')
    BY <2>1, <2>2 DEF Awaited, InNone
  <2> QED  BY <2>3, OneAwaitedNext DEF Typed
<1> QED  BY <1>4, <1>5, <1>6, <1>7, <1>8

LEMMA StreamEndsKeeps ==
    ASSUME CredInv, StreamEnds, Typed'
    PROVE  Agreed'
<1>1. /\ stream = "open" /\ stream' \in {"backoff", "stopped"}
      /\ closeCount' = closeCount + 1
      /\ UNCHANGED <<authUser, inAuth, mainQueue, credential, tokenCounter, worker,
                     syncUser>>
  BY DEF StreamEnds, authVars, providerVars
<1>2. credential # NoEngine
  BY <1>1 DEF CredInv, Agreed, NotYet
<1> QED  BY <1>1, <1>2, Closing

(* Stream::ResumeStartWithCredentials.                                     *)
LEMMA WorkerTakesTokenKeeps ==
    ASSUME CredInv, WorkerTakesToken, Typed'
    PROVE  Agreed'
<1> DEFINE h == Head(worker)
           w == Tail(worker)
<1>1. /\ worker # <<>> /\ h.type = "token" /\ worker' = w
      /\ worker \in Seq(WorkerItems)
      /\ UNCHANGED <<authUser, inAuth, mainQueue, credential, tokenCounter, syncUser>>
  BY DEF WorkerTakesToken, authVars, providerVars, CredInv, Typed, QueuesTyped
<1>2. credential # NoEngine
  BY <1>1 DEF CredInv, Agreed, NotYet
<1>3. CASE h.close = closeCount /\ h.user = Failed
  <2>1. stream' = "backoff" /\ closeCount' = closeCount + 1
    BY <1>3 DEF WorkerTakesToken
  <2> QED  BY <1>1, <1>2, <2>1, Closing
<1>4. CASE h.close # closeCount \/ h.user # Failed
  <2>1. /\ closeCount' = closeCount
        /\ IF h.close # closeCount THEN stream' = stream /\ callUser' = callUser
           ELSE stream' = "open" /\ callUser' = h.user
    BY <1>4 DEF WorkerTakesToken
  <2>2. /\ w \in Seq(WorkerItems) /\ h \in WorkerItems /\ closeCount \in Nat
        /\ PastOnWorker(worker, closeCount)
        /\ RightOnWorker(worker, closeCount, syncUser)
    BY <1>1, Leaves DEF CredInv, Typed, CountersTyped, Agreed, AskedInPast, Right
  <2>3. /\ PastOnWorker(w, closeCount)
        /\ h.close = closeCount => h.user \in {syncUser, Failed}
        /\ RightOnWorker(w, closeCount, syncUser)
    BY <1>1, <2>2, WorkerLeaves
  <2>4. h \in LiveTokens(closeCount) <=> h.close = closeCount
    BY <1>1, <2>2 DEF LiveTokens
  <2>5. LeadsTo(credential, w, "credential", syncUser)
    <3>1. LeadsTo(credential, worker, "credential", syncUser)
      BY DEF CredInv, Agreed, Follows
    <3>2. h.type # "credential"
      BY <1>1
    <3> QED  BY <1>1, <3>1, <3>2, LeadsFromHead
  <2>6. /\ Held(worker, LiveTokens(closeCount)) = {} =>
               Held(w, LiveTokens(closeCount)) = {} /\ h \notin LiveTokens(closeCount)
        /\ One(Held(worker, LiveTokens(closeCount))) =>
               IF h \in LiveTokens(closeCount) THEN Held(w, LiveTokens(closeCount)) = {}
               ELSE One(Held(w, LiveTokens(closeCount)))
    BY <1>1, HeldLeaves
  <2>7. Awaited(stream, inAuth, mainQueue, worker, closeCount)
    BY OneAwaited DEF CredInv, Typed, Agreed
  <2> HIDE DEF h, w
  <2> USE DEF CredInv, Agreed
  <2>8. NotYet'
    BY <1>1, <1>2 DEF NotYet
  <2>9. OpenForSyncUser'
    BY <1>1, <1>4, <2>1, <2>3 DEF OpenForSyncUser
  <2>10. AskedInPast'
    BY <1>1, <2>1, <2>3 DEF AskedInPast, PastInAuth
  <2>11. Follows'
    BY <1>1, <2>5 DEF Follows
  <2>12. Right'
    BY <1>1, <2>1, <2>3 DEF Right, RightInAuth
  <2>13. OneWaits'
    <3>1. Awaited(stream', inAuth, mainQueue, w, closeCount)
      <4>1. CASE h.close = closeCount
        BY <2>1, <2>4, <2>6, <2>7, <4>1 DEF Awaited, InOne, InNone
      <4>2. CASE h.close # closeCount
        BY <2>1, <2>4, <2>6, <2>7, <4>2 DEF Awaited, InOne, InNone
      <4> QED  BY <4>1, <4>2
    <3> QED  BY <1>1, <2>1, <3>1, OneAwaitedNext DEF Typed
  <2> QED  BY <2>8, <2>9, <2>10, <2>11, <2>12, <2>13
<1> QED  BY <1>3, <1>4

-----------------------------------------------------------------------------
LEMMA CredInvStep == CredInv /\ [CredNext]_credVars => CredInv'
<1>1. ASSUME CredInv, CredNext PROVE CredInv'
  <2>1. Typed'
    BY <1>1, QueuesKept, UsersKept, CountersKept DEF CredInv, Typed
  <2>2. Agreed'
    BY <1>1, <2>1, AuthChangesKeeps, TakesRequestKeeps, FetchesTokenKeeps,
       FailsToFetchKeeps, MakesProviderKeeps, NotificationRunsKeeps, AnswerRunsKeeps,
       WorkerChangesUserKeeps, StartingKeeps, WorkerTakesTokenKeeps, StreamEndsKeeps
       DEF CredNext
  <2> QED  BY <2>1, <2>2 DEF CredInv
<1>2. ASSUME CredInv, UNCHANGED credVars PROVE CredInv'
  <2> USE <1>2 DEF CredInv, credVars, authVars, providerVars, openingVars
  <2>1. Typed'
    BY DEF Typed, QueuesTyped, UsersTyped, CountersTyped, StreamTyped
  <2>2. OneWaits'
    BY DEF Agreed, OneWaits, WaitsInAuth, WaitsOnMain, WaitsOnWorker, Live
  <2>3. NotYet' /\ AskedInPast' /\ Follows' /\ Right' /\ OpenForSyncUser'
    BY DEF Agreed, NotYet, AskedInPast, PastInAuth, Follows, Right, RightInAuth,
           OpenForSyncUser
  <2> QED  BY <2>1, <2>2, <2>3 DEF Agreed
<1> QED  BY <1>1, <1>2

LEMMA CredInductive == CredSpec => []CredInv
BY CredInvInit, CredInvStep, PTL DEF CredSpec

(* A stream is open with the token of the worker's user, and of nobody     *)
(* else, however late the notifications, answers and tokens run on the     *)
(* three queues (FirebaseAuthCredentialsProvider::GetToken,                *)
(* Stream::ResumeStartWithCredentials).                                    *)
THEOREM StreamCarriesSyncUser == CredSpec => []OpenForSyncUser
<1>1. CredInv => OpenForSyncUser
  BY DEF CredInv, Agreed
<1> QED  BY <1>1, CredInductive, PTL

(* A starting stream waits for exactly one token that it will accept, and  *)
(* no change of the user is lost between FIRAuth, provider and worker.     *)
THEOREM CredentialsAreConsistent == CredSpec => []CredConsistent
<1>1. ASSUME CredInv PROVE CredConsistent
  <2>1. CredTypeOK
    BY <1>1 DEF CredInv, Typed, QueuesTyped, UsersTyped, CountersTyped, StreamTyped,
                MainItems, WorkerItems, CredTypeOK
  <2>2. OneTokenAwaited
    BY <1>1, Counting DEF CredInv, Agreed
  <2>3. CatchesUp
    BY <1>1 DEF CredInv, Agreed, Follows, CatchesUp
  <2> QED  BY <2>1, <2>2, <2>3 DEF CredConsistent
<1> QED  BY <1>1, CredInductive, PTL
=============================================================================
