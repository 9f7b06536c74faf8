------------------------ MODULE MutationQueue_proofs -----------------------
(***************************************************************************)
(* Theorems about MutationQueue, for any users and writes, queues of any   *)
(* length and any number of restarts.                                      *)
(*                                                                         *)
(* The pipeline and the scan of the database are recursive functions.      *)
(* Recursion says that such a function exists, and Induction says what it  *)
(* returns.                                                                *)
(***************************************************************************)
EXTENDS BatchIdScan, FiniteSetTheorems, WellFoundedInduction, TLAPS

-----------------------------------------------------------------------------
(* The highest id *)

(* Every set of naturals has a smallest member: the intervals below its    *)
(* members are finite sets, and those are well-founded by inclusion.       *)
LEMMA Smallest ==
    ASSUME NEW T \in SUBSET Nat, T # {}
    PROVE  \E x \in T : \A y \in T : x <= y
<1> DEFINE below == {1 .. n : n \in T}
           R == StrictSubsetOrdering(Nat)
<1>1. \A n \in Nat : 1 .. n \in FiniteSubsetsOf(Nat)
  BY FS_Interval DEF FiniteSubsetsOf
<1>2. below \subseteq FiniteSubsetsOf(Nat) /\ below # {}
  BY <1>1
<1>3. IsWellFoundedOn(R, FiniteSubsetsOf(Nat))
  BY FS_StrictSubsetOrderingWellFounded
<1>4. \A x, y \in Nat : y < x => <<1 .. y, 1 .. x>> \in R
  <2> SUFFICES ASSUME NEW x \in Nat, NEW y \in Nat, y < x
               PROVE  <<1 .. y, 1 .. x>> \in R
    OBVIOUS
  <2>1. 1 .. y \subseteq 1 .. x /\ x \in 1 .. x /\ x \notin 1 .. y
    OBVIOUS
  <2> QED  BY <2>1 DEF StrictSubsetOrdering
<1> HIDE DEF R
<1>5. \E s \in below : \A t \in below : ~ (<<t, s>> \in R)
  BY <1>2, <1>3, WFMin
<1>6. PICK x \in T : \A y \in T : ~ (<<1 .. y, 1 .. x>> \in R)
  BY <1>5
<1>7. ASSUME NEW y \in T PROVE x <= y
  <2>1. x \in Nat /\ y \in Nat
    OBVIOUS
  <2>2. ~ (y < x)
    BY <1>4, <1>6, <2>1
  <2> QED  BY <2>1, <2>2
<1> QED  BY <1>7

LEMMA MaxOfBounded ==
    ASSUME NEW T \in SUBSET Nat, T # {},
           NEW n \in Nat, \A x \in T : x <= n
    PROVE  Max(T) \in T /\ \A x \in T : x <= Max(T)
<1> DEFINE bounds == {b \in Nat : \A x \in T : x <= b}
<1>1. PICK b \in bounds : \A c \in bounds : b <= c
  BY Smallest
<1>2. b \in T
  <2>1. CASE b = 0
    <3>1. PICK x \in T : TRUE
      OBVIOUS
    <3> QED  BY <1>1, <2>1, <3>1
  <2>2. CASE b # 0
    <3>1. b - 1 \in Nat /\ b - 1 \notin bounds
      BY <1>1, <2>2
    <3>2. PICK x \in T : ~ (x <= b - 1)
      BY <3>1
    <3>3. x = b
      BY <1>1, <3>1, <3>2
    <3> QED  BY <3>2, <3>3
  <2> QED  BY <2>1, <2>2
<1>3. \E x \in T : \A y \in T : x >= y
  BY <1>1, <1>2
<1>4. Max(T) \in T /\ \A y \in T : Max(T) >= y
  BY <1>3 DEF Max
<1> QED  BY <1>4

(* The ids of the table have a bound, and the id after the highest of them *)
(* is above every one.                                                     *)
Bounded(rs) == \E n \in Nat : \A r \in rs : r.id <= n

LEMMA NextIdIsFree ==
    ASSUME rows \subseteq Rows, Bounded(rows)
    PROVE  /\ LoadNextBatchIdFromDb(rows) \in BatchIds
           /\ \A r \in rows : r.id < LoadNextBatchIdFromDb(rows)
<1> DEFINE ids == {0} \cup {r.id : r \in rows}
<1>1. ids \in SUBSET Nat /\ ids # {} /\ 0 \in ids
  BY DEF Rows, BatchIds
<1>2. PICK n \in Nat : \A r \in rows : r.id <= n
  BY DEF Bounded
<1>3. \A x \in ids : x <= n
  BY <1>2
<1>4. Max(ids) \in ids /\ \A x \in ids : x <= Max(ids)
  BY <1>1, <1>3, MaxOfBounded
<1>5. LoadNextBatchIdFromDb(rows) = 1 + Max(ids)
  BY DEF LoadNextBatchIdFromDb
<1> HIDE DEF ids
<1>6. Max(ids) \in Nat
  BY <1>1, <1>4
<1>7. \A r \in rows : r.id \in ids /\ r.id \in Nat
  BY DEF ids, Rows, BatchIds
<1> QED  BY <1>4, <1>5, <1>6, <1>7 DEF BatchIds

-----------------------------------------------------------------------------
(* Induction and recursion.  A set of naturals stands for the formula, and *)
(* a function for the step.                                                *)

LEMMA Induction ==
    ASSUME NEW T \in SUBSET Nat, 0 \in T, \A n \in T : n + 1 \in T
    PROVE  T = Nat
<1> SUFFICES ASSUME Nat \ T # {} PROVE FALSE
  OBVIOUS
<1>1. PICK x \in Nat \ T : \A y \in Nat \ T : x <= y
  BY Smallest
<1>2. x # 0 /\ x - 1 \in Nat
  BY <1>1
<1>3. x - 1 \in T
  BY <1>1, <1>2
<1>4. (x - 1) + 1 \in T
  BY <1>3
<1> QED  BY <1>1, <1>4

(* g does the first n steps from a.                                        *)
Steps(T, a, step, n) ==
    {g \in [0 .. n -> T] : /\ g[0] = a
                           /\ \A i \in 0 .. n - 1 : g[i + 1] = step[g[i]]}

LEMMA StepsExist ==
    ASSUME NEW T, NEW a \in T, NEW step \in [T -> T], NEW n \in Nat
    PROVE  Steps(T, a, step, n) # {}
<1> DEFINE S == {k \in Nat : Steps(T, a, step, k) # {}}
<1>1. 0 \in S
  <2>1. [i \in 0 .. 0 |-> a] \in Steps(T, a, step, 0)
    BY DEF Steps
  <2> QED  BY <2>1
<1>2. ASSUME NEW k \in S PROVE k + 1 \in S
  <2>1. PICK g \in Steps(T, a, step, k) : TRUE
    BY <1>2
  <2>2. /\ g \in [0 .. k -> T] /\ g[0] = a
        /\ \A i \in 0 .. k - 1 : g[i + 1] = step[g[i]]
    BY <2>1 DEF Steps
  <2>3. g[k] \in T /\ step[g[k]] \in T
    BY <2>2
  <2> DEFINE h == [i \in 0 .. k + 1 |-> IF i <= k THEN g[i] ELSE step[g[k]]]
  <2>4. h \in [0 .. k + 1 -> T] /\ h[0] = a
    BY <2>2, <2>3
  <2>5. ASSUME NEW i \in 0 .. (k + 1) - 1 PROVE h[i + 1] = step[h[i]]
    <3>1. CASE i = k
      BY <3>1
    <3>2. CASE i # k
      <4>1. i \in 0 .. k - 1
        BY <3>2
      <4> QED  BY <2>2, <4>1
    <3> QED  BY <3>1, <3>2
  <2> HIDE DEF h
  <2>6. h \in Steps(T, a, step, k + 1)
    BY <2>4, <2>5 DEF Steps
  <2> QED  BY <2>6
<1> HIDE DEF S
<1>3. S = Nat
  BY <1>1, <1>2, Induction DEF S
<1> QED  BY <1>3 DEF S

LEMMA StepsAgree ==
    ASSUME NEW T, NEW a \in T, NEW step \in [T -> T],
           NEW m \in Nat, NEW n \in Nat,
           NEW g \in Steps(T, a, step, m), NEW h \in Steps(T, a, step, n),
           NEW i \in Nat, i <= m, i <= n
    PROVE  g[i] = h[i]
<1> DEFINE S == {k \in Nat : k <= m /\ k <= n => g[k] = h[k]}
<1>g. /\ g[0] = a /\ h[0] = a
      /\ \A k \in 0 .. m - 1 : g[k + 1] = step[g[k]]
      /\ \A k \in 0 .. n - 1 : h[k + 1] = step[h[k]]
  BY DEF Steps
<1>1. 0 \in S
  BY <1>g
<1>2. ASSUME NEW k \in S PROVE k + 1 \in S
  <2> SUFFICES ASSUME k + 1 <= m, k + 1 <= n PROVE g[k + 1] = h[k + 1]
    OBVIOUS
  <2>1. k \in 0 .. m - 1 /\ k \in 0 .. n - 1 /\ g[k] = h[k]
    OBVIOUS
  <2> QED  BY <1>g, <2>1
<1> HIDE DEF S
<1>3. S = Nat
  BY <1>1, <1>2, Induction DEF S
<1> QED  BY <1>3 DEF S

Iteration(f, T, a, step) ==
    /\ f \in [Nat -> T]
    /\ f[0] = a
    /\ \A n \in Nat : f[n + 1] = step[f[n]]

LEMMA Recursion ==
    ASSUME NEW T, NEW a \in T, NEW step \in [T -> T]
    PROVE  \E f : Iteration(f, T, a, step)
<1> DEFINE G(n) == CHOOSE g \in Steps(T, a, step, n) : TRUE
           f == [n \in Nat |-> G(n)[n]]
<1>1. ASSUME NEW n \in Nat PROVE G(n) \in Steps(T, a, step, n)
  BY StepsExist
<1> HIDE DEF G
<1>2. \A n \in Nat : G(n)[n] \in T
  BY <1>1 DEF Steps
<1>3. G(0)[0] = a
  BY <1>1 DEF Steps
<1>4. ASSUME NEW n \in Nat PROVE G(n + 1)[n + 1] = step[G(n)[n]]
  <2>1. G(n + 1) \in Steps(T, a, step, n + 1) /\ n + 1 \in Nat
    BY <1>1
  <2>2. n \in 0 .. (n + 1) - 1
    OBVIOUS
  <2>3. G(n + 1)[n + 1] = step[G(n + 1)[n]]
    BY <2>1, <2>2 DEF Steps
  <2>4. G(n + 1)[n] = G(n)[n]
    BY <1>1, <2>1, StepsAgree
  <2> QED  BY <2>3, <2>4
<1>5. f \in [Nat -> T]
  BY <1>2
<1>6. f[0] = a
  BY <1>3
<1>7. \A n \in Nat : f[n + 1] = step[f[n]]
  BY <1>4
<1> HIDE DEF f
<1> QED  BY <1>5, <1>6, <1>7 DEF Iteration

-----------------------------------------------------------------------------
(* FillWritePipeline                                                       *)

LastIdOf(q) == IF q = <<>> THEN kBatchIdUnknown ELSE Last(q).id

(* One turn of its loop.                                                   *)
OneMore(q, rs, u) ==
    LET next == NextMutationBatchAfterBatchId(rs, u, LastIdOf(q))
    IN IF next = {} THEN q ELSE Append(q, CHOOSE r \in next : TRUE)

LEMMA OneMoreTyped ==
    ASSUME NEW rs \in SUBSET Rows, NEW q \in Seq(Rows), NEW u
    PROVE  OneMore(q, rs, u) \in Seq(Rows)
<1> DEFINE next == NextMutationBatchAfterBatchId(rs, u, LastIdOf(q))
<1>1. next \subseteq Rows
  BY DEF NextMutationBatchAfterBatchId
<1>2. OneMore(q, rs, u)
         = IF next = {} THEN q ELSE Append(q, CHOOSE r \in next : TRUE)
  BY DEF OneMore
<1> HIDE DEF next
<1> QED  BY <1>1, <1>2

(* f has the pipeline after each turn.                                     *)
Turns(f, p, rs, u) ==
    /\ f \in [Nat -> Seq(Rows)]
    /\ f[0] = p
    /\ \A n \in Nat : f[n + 1] = OneMore(f[n], rs, u)

LEMMA FillUnfolds ==
    ASSUME NEW rs \in SUBSET Rows, NEW p \in Seq(Rows), NEW u
    PROVE  \E f : /\ Turns(f, p, rs, u)
                  /\ FillWritePipeline(p, rs, u) = f[MaxPendingWrites - Len(p)]
<1> DEFINE Unfolds(f) == f = [n \in Nat |->
                                 IF n = 0 THEN p ELSE OneMore(f[n - 1], rs, u)]
<1>1. PICK step \in [Seq(Rows) -> Seq(Rows)] :
         step = [q \in Seq(Rows) |-> OneMore(q, rs, u)]
  BY OneMoreTyped
<1>2. \A f : Unfolds(f) => Turns(f, p, rs, u)
  <2> SUFFICES ASSUME NEW f, Unfolds(f) PROVE Turns(f, p, rs, u)
    OBVIOUS
  <2>1. f[0] = p
    OBVIOUS
  <2>2. ASSUME NEW n \in Nat PROVE f[n + 1] = OneMore(f[n], rs, u)
    <3>1. n + 1 \in Nat /\ n + 1 # 0 /\ (n + 1) - 1 = n
      OBVIOUS
    <3>2. \A k \in Nat : k # 0 => f[k] = OneMore(f[k - 1], rs, u)
      OBVIOUS
    <3> QED  BY <3>1, <3>2
  <2> DEFINE S == {n \in Nat : f[n] \in Seq(Rows)}
  <2>3. 0 \in S
    BY <2>1
  <2>4. ASSUME NEW n \in S PROVE n + 1 \in S
    BY <2>2, OneMoreTyped
  <2>5. S = Nat
    <3> HIDE DEF S
    <3> QED  BY <2>3, <2>4, Induction DEF S
  <2>6. f = [n \in Nat |-> f[n]]
    OBVIOUS
  <2>7. f \in [Nat -> Seq(Rows)]
    BY <2>5, <2>6
  <2> QED  BY <2>1, <2>2, <2>7 DEF Turns
<1>3. \E f : Unfolds(f)
  <2>1. PICK f : Iteration(f, Seq(Rows), p, step)
    BY Recursion
  <2>2. ASSUME NEW n \in Nat
        PROVE  f[n] = IF n = 0 THEN p ELSE OneMore(f[n - 1], rs, u)
    <3>1. CASE n = 0
      BY <2>1, <3>1 DEF Iteration
    <3>2. CASE n # 0
      <4>1. n - 1 \in Nat /\ (n - 1) + 1 = n
        BY <3>2
      <4>2. f[(n - 1) + 1] = step[f[n - 1]]
        BY <2>1, <4>1 DEF Iteration
      <4> QED  BY <1>1, <2>1, <3>2, <4>1, <4>2 DEF Iteration
    <3> QED  BY <3>1, <3>2
  <2>3. Unfolds(f)
    BY <2>1, <2>2 DEF Iteration
  <2> QED  BY <2>3
<1>4. PICK f : /\ f = CHOOSE g : Unfolds(g)
               /\ FillWritePipeline(p, rs, u) = f[MaxPendingWrites - Len(p)]
  BY DEF FillWritePipeline, OneMore, LastIdOf
<1> HIDE DEF Unfolds
<1>5. Unfolds(f)
  BY <1>3, <1>4
<1> QED  BY <1>2, <1>4, <1>5

-----------------------------------------------------------------------------
(* The front of a queue                                                    *)

OneId(rs) == \A r, s \in rs : r.id = s.id => r = s
OfUser(rs, u) == {r \in rs : r.user = u}

Ascending(q) == \A i, j \in 1 .. Len(q) : i < j => q[i].id < q[j].id
Holds(q, r) == \E i \in 1 .. Len(q) : q[i] = r
HoldsAll(q, rs) == \A r \in rs : Holds(q, r)

(* Rows in the order of their ids, with none left out before the last.     *)
FrontOf(q, rs) ==
    /\ q \in Seq(rs)
    /\ Ascending(q)
    /\ \A r \in rs : Holds(q, r) \/ \A i \in 1 .. Len(q) : q[i].id < r.id

LEMMA FrontLen ==
    ASSUME NEW rs, NEW q, FrontOf(q, rs)
    PROVE  Len(q) \in Nat
BY DEF FrontOf

LEMMA RowIds == \A r \in Rows : r.id \in Nat /\ r.id > 0 /\ r.user \in Owners
                                /\ r.write \in Writes
BY DEF Rows, BatchIds

LEMMA LastId ==
    ASSUME NEW rs \in SUBSET Rows, NEW q, FrontOf(q, rs)
    PROVE  /\ LastIdOf(q) \in Int
           /\ \A i \in 1 .. Len(q) : q[i].id <= LastIdOf(q)
           /\ q # <<>> => \E i \in 1 .. Len(q) : q[i].id = LastIdOf(q)
           /\ q = <<>> => \A r \in rs : LastIdOf(q) < r.id
<1>q. q \in Seq(rs) /\ Ascending(q) /\ Len(q) \in Nat
  BY DEF FrontOf
<1>i. \A i \in 1 .. Len(q) : q[i] \in rs /\ q[i].id \in Nat
  BY <1>q, RowIds
<1>1. CASE q = <<>>
  BY <1>1, RowIds DEF LastIdOf, kBatchIdUnknown
<1>2. CASE q # <<>>
  <2>1. Len(q) \in 1 .. Len(q) /\ LastIdOf(q) = q[Len(q)].id
    BY <1>q, <1>2 DEF LastIdOf, Last
  <2>2. ASSUME NEW i \in 1 .. Len(q) PROVE q[i].id <= LastIdOf(q)
    <3>1. CASE i = Len(q)
      BY <1>i, <2>1, <3>1
    <3>2. CASE i # Len(q)
      <4>1. i < Len(q)
        BY <1>q, <3>2
      <4>2. q[i].id < q[Len(q)].id
        BY <1>q, <2>1, <4>1 DEF Ascending
      <4> QED  BY <1>i, <2>1, <4>2
    <3> QED  BY <3>1, <3>2
  <2> QED  BY <1>2, <1>i, <2>1, <2>2
<1> QED  BY <1>1, <1>2

(* A row that comes after all of a sequence.                               *)
LEMMA AscendingAppend ==
    ASSUME NEW rs \in SUBSET Rows, NEW q \in Seq(rs), Ascending(q), NEW r \in rs,
           \A i \in 1 .. Len(q) : q[i].id < r.id
    PROVE  /\ Append(q, r) \in Seq(rs)
           /\ Ascending(Append(q, r))
           /\ Len(Append(q, r)) = Len(q) + 1
           /\ \A s : Holds(Append(q, r), s) <=> Holds(q, s) \/ s = r
<1>1. /\ Append(q, r) \in Seq(rs)
      /\ Len(Append(q, r)) = Len(q) + 1
      /\ Len(q) \in Nat
      /\ \A i \in 1 .. Len(q) : Append(q, r)[i] = q[i]
      /\ Append(q, r)[Len(q) + 1] = r
  OBVIOUS
<1>2. Ascending(Append(q, r))
  <2> SUFFICES ASSUME NEW i \in 1 .. Len(q) + 1, NEW j \in 1 .. Len(q) + 1, i < j
               PROVE  Append(q, r)[i].id < Append(q, r)[j].id
    BY <1>1 DEF Ascending
  <2>1. i \in 1 .. Len(q)
    BY <1>1
  <2>2. CASE j = Len(q) + 1
    BY <1>1, <2>1, <2>2
  <2>3. CASE j # Len(q) + 1
    <3>1. j \in 1 .. Len(q)
      BY <1>1, <2>3
    <3> QED  BY <1>1, <2>1, <3>1 DEF Ascending
  <2> QED  BY <2>2, <2>3
<1>3. ASSUME NEW s PROVE Holds(Append(q, r), s) <=> Holds(q, s) \/ s = r
  <2>1. ASSUME Holds(q, s) PROVE Holds(Append(q, r), s)
    <3>1. PICK i \in 1 .. Len(q) : q[i] = s
      BY <2>1 DEF Holds
    <3>2. i \in 1 .. Len(q) + 1 /\ Append(q, r)[i] = s
      BY <1>1, <3>1
    <3> QED  BY <1>1, <3>2 DEF Holds
  <2>2. Holds(Append(q, r), r)
    <3>1. Len(q) + 1 \in 1 .. Len(q) + 1
      BY <1>1
    <3> QED  BY <1>1, <3>1 DEF Holds
  <2>3. ASSUME Holds(Append(q, r), s) PROVE Holds(q, s) \/ s = r
    <3>1. PICK i \in 1 .. Len(q) + 1 : Append(q, r)[i] = s
      BY <1>1, <2>3 DEF Holds
    <3>2. CASE i = Len(q) + 1
      BY <1>1, <3>1, <3>2
    <3>3. CASE i # Len(q) + 1
      <4>1. i \in 1 .. Len(q) /\ q[i] = s
        BY <1>1, <3>1, <3>3
      <4> QED  BY <4>1 DEF Holds
    <3> QED  BY <3>2, <3>3
  <2> QED  BY <2>1, <2>2, <2>3
<1> QED  BY <1>1, <1>2, <1>3

LEMMA OneMoreFront ==
    ASSUME NEW rs \in SUBSET Rows, NEW u, OneId(rs),
           NEW q, FrontOf(q, OfUser(rs, u)), NEW m, m = OneMore(q, rs, u)
    PROVE  /\ FrontOf(m, OfUser(rs, u))
           /\ \/ m = q /\ HoldsAll(q, OfUser(rs, u))
              \/ /\ Len(m) = Len(q) + 1
                 /\ ~HoldsAll(q, OfUser(rs, u))
<1> DEFINE mine == OfUser(rs, u)
           id == LastIdOf(q)
           later == {r \in rs : r.user = u /\ r.id > id}
           next == {r \in later : \A s \in later : r.id <= s.id}
<1>m. mine \in SUBSET Rows /\ mine \subseteq rs /\ OneId(mine)
  BY DEF OfUser, OneId
<1>q. /\ q \in Seq(mine) /\ Ascending(q) /\ Len(q) \in Nat
      /\ \A r \in mine : Holds(q, r) \/ \A i \in 1 .. Len(q) : q[i].id < r.id
  BY DEF FrontOf
<1>d. OneMore(q, rs, u)
         = IF next = {} THEN q ELSE Append(q, CHOOSE r \in next : TRUE)
  BY DEF OneMore, NextMutationBatchAfterBatchId
<1>l. /\ id \in Int
      /\ \A i \in 1 .. Len(q) : q[i].id <= id
      /\ q # <<>> => \E i \in 1 .. Len(q) : q[i].id = id
      /\ q = <<>> => \A r \in mine : id < r.id
  BY <1>m, LastId
<1> HIDE DEF id
<1>i. \A r \in mine : r.id \in Nat
  BY <1>m, RowIds
<1>1. \A r \in mine : r \in later <=> ~Holds(q, r)
  <2> SUFFICES ASSUME NEW r \in mine PROVE r.id > id <=> ~Holds(q, r)
    BY DEF OfUser
  <2>1. ASSUME Holds(q, r) PROVE ~(r.id > id)
    BY <1>l, <1>i, <2>1 DEF Holds
  <2>2. ASSUME ~Holds(q, r) PROVE r.id > id
    <3>1. \A i \in 1 .. Len(q) : q[i].id < r.id
      BY <1>q, <2>2
    <3> QED  BY <1>l, <1>i, <3>1
  <2> QED  BY <2>1, <2>2
<1>2. later \subseteq mine /\ next \subseteq later
  BY DEF OfUser
<1>3. ASSUME later # {} PROVE next # {}
  <2>1. {r.id : r \in later} \in SUBSET Nat /\ {r.id : r \in later} # {}
    BY <1>i, <1>2, <1>3
  <2>2. PICK x \in {r.id : r \in later} : \A y \in {r.id : r \in later} : x <= y
    <3> HIDE DEF later
    <3> QED  BY <2>1, Smallest
  <2>3. PICK r \in later : r.id = x
    BY <2>2
  <2>4. r \in next
    BY <2>2, <2>3
  <2> QED  BY <2>4
<1>4. CASE next = {}
  <2>1. HoldsAll(q, mine)
    BY <1>1, <1>3, <1>4 DEF HoldsAll
  <2> QED  BY <1>d, <1>4, <2>1
<1>5. CASE next # {}
  <2>1. PICK r \in next : OneMore(q, rs, u) = Append(q, r)
    BY <1>d, <1>5
  <2>2. /\ r \in mine /\ ~Holds(q, r)
        /\ \A s \in mine : ~Holds(q, s) => r.id <= s.id
    BY <1>1, <1>2, <2>1
  <2> HIDE DEF next, later
  <2>3. \A i \in 1 .. Len(q) : q[i].id < r.id
    BY <1>q, <2>2
  <2> HIDE DEF mine
  <2>4. /\ Append(q, r) \in Seq(mine)
        /\ Ascending(Append(q, r))
        /\ Len(Append(q, r)) = Len(q) + 1
        /\ \A s : Holds(Append(q, r), s) <=> Holds(q, s) \/ s = r
    BY <1>m, <1>q, <2>2, <2>3, AscendingAppend
  <2>5. ASSUME NEW s \in mine, ~Holds(Append(q, r), s)
        PROVE  \A i \in 1 .. Len(q) + 1 : Append(q, r)[i].id < s.id
    <3>1. ~Holds(q, s) /\ s # r
      BY <2>4, <2>5
    <3>2. r.id < s.id
      <4>1. r.id <= s.id /\ r.id # s.id
        BY <1>m, <2>2, <3>1 DEF OneId
      <4> QED  BY <1>i, <2>2, <4>1
    <3>3. \A i \in 1 .. Len(q) : q[i].id < s.id
      BY <1>q, <3>1
    <3> QED  BY <1>q, <3>2, <3>3
  <2>6. FrontOf(Append(q, r), mine)
    BY <2>4, <2>5 DEF FrontOf
  <2>7. ~HoldsAll(q, mine)
    BY <2>2 DEF HoldsAll
  <2> QED  BY <2>1, <2>4, <2>6, <2>7 DEF mine
<1> QED  BY <1>4, <1>5

(* The pipeline is filled with the front of the user's queue: to the brim, *)
(* or with the whole queue.                                                *)
LEMMA FillFront ==
    ASSUME NEW rs \in SUBSET Rows, NEW u, OneId(rs),
           NEW p, FrontOf(p, OfUser(rs, u)), Len(p) <= MaxPendingWrites,
           NEW q, q = FillWritePipeline(p, rs, u)
    PROVE  /\ FrontOf(q, OfUser(rs, u))
           /\ Len(q) <= MaxPendingWrites
           /\ Len(q) = MaxPendingWrites \/ HoldsAll(q, OfUser(rs, u))
<1> DEFINE mine == OfUser(rs, u)
<1>p. p \in Seq(Rows) /\ Len(p) \in Nat /\ mine \in SUBSET Rows
  <2>1. mine \in SUBSET Rows
    BY DEF OfUser
  <2>2. p \in Seq(mine)
    BY DEF FrontOf
  <2> HIDE DEF mine
  <2> QED  BY <2>1, <2>2
<1>1. PICK f : /\ Turns(f, p, rs, u)
               /\ q = f[MaxPendingWrites - Len(p)]
  BY <1>p, FillUnfolds
<1>f. /\ f[0] = p
      /\ \A n \in Nat : f[n] \in Seq(Rows) /\ f[n + 1] = OneMore(f[n], rs, u)
  BY <1>1 DEF Turns
<1> DEFINE S == {n \in Nat : /\ FrontOf(f[n], mine)
                             /\ \/ Len(f[n]) = Len(p) + n
                                \/ /\ Len(f[n]) <= Len(p) + n
                                   /\ HoldsAll(f[n], mine)}
<1>2. 0 \in S
  BY <1>f, <1>p
<1>3. ASSUME NEW n \in S PROVE n + 1 \in S
  <2>1. /\ n \in Nat /\ FrontOf(f[n], mine) /\ Len(f[n]) \in Nat
        /\ \/ Len(f[n]) = Len(p) + n
           \/ Len(f[n]) <= Len(p) + n /\ HoldsAll(f[n], mine)
    BY FrontLen
  <2>2. f[n + 1] = OneMore(f[n], rs, u)
    BY <1>f, <2>1
  <2>3. /\ FrontOf(f[n + 1], mine)
        /\ \/ f[n + 1] = f[n] /\ HoldsAll(f[n], mine)
           \/ Len(f[n + 1]) = Len(f[n]) + 1 /\ ~HoldsAll(f[n], mine)
    BY <2>1, <2>2, OneMoreFront
  <2> HIDE DEF mine
  <2>4. CASE f[n + 1] = f[n] /\ HoldsAll(f[n], mine)
    <3>1. Len(f[n]) <= Len(p) + (n + 1)
      BY <1>p, <2>1
    <3> QED  BY <2>1, <2>3, <2>4, <3>1
  <2>5. CASE Len(f[n + 1]) = Len(f[n]) + 1 /\ ~HoldsAll(f[n], mine)
    <3>1. Len(f[n + 1]) = Len(p) + (n + 1)
      BY <1>p, <2>1, <2>5
    <3> QED  BY <2>1, <2>3, <3>1
  <2> QED  BY <2>3, <2>4, <2>5
<1> HIDE DEF S
<1>4. S = Nat
  BY <1>2, <1>3, Induction DEF S
<1>5. PICK n \in S : n = MaxPendingWrites - Len(p)
  BY <1>4, <1>p, QueueBoundsAssumption
<1>6. /\ FrontOf(q, mine)
      /\ \/ Len(q) = Len(p) + n
         \/ Len(q) <= Len(p) + n /\ HoldsAll(q, mine)
  BY <1>1, <1>5 DEF S
<1>7. Len(p) + n = MaxPendingWrites
  BY <1>4, <1>p, <1>5, QueueBoundsAssumption
<1>8. Len(q) \in Nat
  BY <1>6, FrontLen
<1> HIDE DEF mine
<1>9. Len(q) <= MaxPendingWrites
  BY <1>6, <1>7, <1>8, QueueBoundsAssumption
<1>10. Len(q) = MaxPendingWrites \/ HoldsAll(q, mine)
  BY <1>6, <1>7
<1> QED  BY <1>6, <1>9, <1>10 DEF mine

-----------------------------------------------------------------------------
(* The order of a queue                                                    *)

(* All of rs in the order of its ids.                                      *)
Sorted(q, rs) == q \in Seq(rs) /\ Ascending(q) /\ HoldsAll(q, rs)

LEMMA UpTo ==
    ASSUME NEW n \in Nat
    PROVE  IsFiniteSet(1 .. n) /\ Cardinality(1 .. n) = n
BY FS_Interval

LEMMA SortedIsFront ==
    ASSUME NEW q, NEW rs, Sorted(q, rs)
    PROVE  FrontOf(q, rs)
BY DEF Sorted, FrontOf, HoldsAll

(* The i-th row of a front has i ids up to its own.                        *)
LEMMA RankOf ==
    ASSUME NEW rs \in SUBSET Rows, NEW q, FrontOf(q, rs), NEW i \in 1 .. Len(q)
    PROVE  /\ IsFiniteSet({s \in rs : s.id <= q[i].id})
           /\ Cardinality({s \in rs : s.id <= q[i].id}) = i
<1> DEFINE T == {s \in rs : s.id <= q[i].id}
           f == [j \in 1 .. i |-> q[j]]
<1>q. /\ q \in Seq(rs) /\ Len(q) \in Nat /\ i \in Nat
      /\ \A j \in 1 .. Len(q) : q[j] \in rs /\ q[j].id \in Nat
      /\ \A j, k \in 1 .. Len(q) : j < k => q[j].id < q[k].id
      /\ \A r \in rs : Holds(q, r) \/ \A j \in 1 .. Len(q) : q[j].id < r.id
  BY RowIds DEF FrontOf, Ascending
<1>1. ASSUME NEW j \in 1 .. i PROVE j \in 1 .. Len(q) /\ q[j] \in T
  <2>1. j \in 1 .. Len(q) /\ (j < i \/ j = i)
    BY <1>q
  <2> QED  BY <1>q, <2>1
<1>2. \A j, k \in 1 .. i : j # k => q[j] # q[k]
  <2> SUFFICES ASSUME NEW j \in 1 .. i, NEW k \in 1 .. i, j # k
               PROVE  q[j] # q[k]
    OBVIOUS
  <2>1. j \in 1 .. Len(q) /\ k \in 1 .. Len(q) /\ (j < k \/ k < j)
    BY <1>1
  <2> QED  BY <1>q, <2>1
<1>3. ASSUME NEW s \in T PROVE \E j \in 1 .. i : q[j] = s
  <2>1. s \in rs /\ s.id <= q[i].id /\ s.id \in Nat
    BY RowIds
  <2>2. PICK j \in 1 .. Len(q) : q[j] = s
    BY <1>q, <2>1 DEF Holds
  <2>3. ~(i < j)
    BY <1>q, <2>1, <2>2
  <2>4. j \in 1 .. i
    BY <1>q, <2>3
  <2> QED  BY <2>2, <2>4
<1> HIDE DEF T
<1>4. f \in Bijection(1 .. i, T)
  <2>1. f \in [1 .. i -> T]
    BY <1>1
  <2>2. \A j, k \in 1 .. i : f[j] = f[k] => j = k
    BY <1>2
  <2>3. \A s \in T : \E j \in 1 .. i : f[j] = s
    BY <1>3
  <2> HIDE DEF f
  <2> QED  BY <2>1, <2>2, <2>3 DEF Bijection, Injection, Surjection, IsInjective
<1>5. IsFiniteSet(1 .. i) /\ Cardinality(1 .. i) = i
  BY <1>q, FS_Interval
<1> QED  BY <1>4, <1>5, FS_Bijection DEF ExistsBijection, T

(* Two fronts of one queue agree as far as both go.                        *)
LEMMA FrontsAgree ==
    ASSUME NEW rs \in SUBSET Rows, NEW p, FrontOf(p, rs), NEW q, Sorted(q, rs)
    PROVE  /\ Len(p) <= Len(q)
           /\ \A i \in 1 .. Len(p) : p[i] = q[i]
<1>q. /\ FrontOf(q, rs) /\ HoldsAll(q, rs)
      /\ Len(p) \in Nat /\ Len(q) \in Nat
      /\ \A j \in 1 .. Len(p) : p[j] \in rs
  BY SortedIsFront, FrontLen DEF Sorted, FrontOf
<1>1. ASSUME NEW i \in 1 .. Len(p) PROVE i \in 1 .. Len(q) /\ p[i] = q[i]
  <2>1. PICK k \in 1 .. Len(q) : q[k] = p[i]
    BY <1>q DEF HoldsAll, Holds
  <2>2. Cardinality({s \in rs : s.id <= p[i].id}) = i
    BY RankOf
  <2>3. Cardinality({s \in rs : s.id <= q[k].id}) = k
    BY <1>q, RankOf
  <2>4. k = i
    BY <2>1, <2>2, <2>3
  <2> QED  BY <2>1, <2>4
<1>2. Len(p) <= Len(q)
  <2>1. CASE Len(p) = 0
    BY <1>q, <2>1
  <2>2. CASE Len(p) # 0
    <3>1. Len(p) \in 1 .. Len(p)
      BY <1>q, <2>2
    <3> QED  BY <1>1, <1>q, <3>1
  <2> QED  BY <2>1, <2>2
<1> QED  BY <1>1, <1>2

LEMMA SortedOnce ==
    ASSUME NEW rs \in SUBSET Rows, NEW p, Sorted(p, rs), NEW q, Sorted(q, rs)
    PROVE  p = q
<1>1. p \in Seq(rs) /\ q \in Seq(rs) /\ FrontOf(p, rs) /\ FrontOf(q, rs)
  BY SortedIsFront DEF Sorted
<1>2. Len(p) = Len(q) /\ \A i \in 1 .. Len(p) : p[i] = q[i]
  BY <1>1, FrontsAgree
<1> QED  BY <1>1, <1>2

LEMMA SortedLen ==
    ASSUME NEW rs \in SUBSET Rows, NEW q, Sorted(q, rs)
    PROVE  IsFiniteSet(rs) /\ Cardinality(rs) = Len(q)
<1>q. q \in Seq(rs) /\ Len(q) \in Nat /\ HoldsAll(q, rs) /\ FrontOf(q, rs)
  BY SortedIsFront DEF Sorted
<1>1. CASE Len(q) = 0
  <2>1. rs = {}
    BY <1>q, <1>1 DEF HoldsAll, Holds
  <2> QED  BY <1>1, <2>1, FS_EmptySet
<1>2. CASE Len(q) # 0
  <2>1. Len(q) \in 1 .. Len(q)
    BY <1>q, <1>2
  <2>2. \A s \in rs : s.id <= q[Len(q)].id
    <3> SUFFICES ASSUME NEW s \in rs PROVE s.id <= q[Len(q)].id
      OBVIOUS
    <3>1. PICK j \in 1 .. Len(q) : q[j] = s
      BY <1>q DEF HoldsAll, Holds
    <3>2. q[j].id \in Nat /\ q[Len(q)].id \in Nat /\ (j < Len(q) \/ j = Len(q))
      BY <1>q, <2>1, RowIds
    <3>3. j < Len(q) => q[j].id < q[Len(q)].id
      BY <2>1 DEF Sorted, Ascending
    <3> QED  BY <3>1, <3>2, <3>3
  <2>3. rs = {s \in rs : s.id <= q[Len(q)].id}
    BY <2>2
  <2>4. /\ IsFiniteSet({s \in rs : s.id <= q[Len(q)].id})
        /\ Cardinality({s \in rs : s.id <= q[Len(q)].id}) = Len(q)
    BY <1>q, <2>1, RankOf
  <2> QED  BY <2>3, <2>4
<1> QED  BY <1>1, <1>2

(* A row above all others goes to the end.                                 *)
LEMMA SortedAppend ==
    ASSUME NEW rs \in SUBSET Rows, NEW q, Sorted(q, rs), NEW r \in Rows,
           \A s \in rs : s.id < r.id
    PROVE  Sorted(Append(q, r), rs \cup {r})
<1> DEFINE all == rs \cup {r}
<1>1. all \in SUBSET Rows /\ r \in all /\ rs \subseteq all
  OBVIOUS
<1>2. q \in Seq(rs) /\ Ascending(q) /\ HoldsAll(q, rs)
  BY DEF Sorted
<1>3. q \in Seq(all) /\ \A i \in 1 .. Len(q) : q[i].id < r.id
  BY <1>1, <1>2
<1>4. \A s \in all : s \in rs \/ s = r
  OBVIOUS
<1> HIDE DEF all
<1>5. /\ Append(q, r) \in Seq(all)
      /\ Ascending(Append(q, r))
      /\ \A s : Holds(Append(q, r), s) <=> Holds(q, s) \/ s = r
  BY <1>1, <1>2, <1>3, AscendingAppend
<1>6. HoldsAll(Append(q, r), all)
  BY <1>2, <1>4, <1>5 DEF HoldsAll
<1> QED  BY <1>5, <1>6 DEF Sorted, all

LEMMA SortExists ==
    ASSUME NEW rs \in SUBSET Rows, OneId(rs), Bounded(rs)
    PROVE  \E q : Sorted(q, rs)
<1> DEFINE Below(n) == {r \in rs : r.id <= n}
           S == {n \in Nat : \E q : Sorted(q, Below(n))}
<1>1. 0 \in S
  <2>1. Below(0) = {}
    BY RowIds
  <2>2. Sorted(<<>>, {})
    BY DEF Sorted, Ascending, HoldsAll
  <2> QED  BY <2>1, <2>2
<1>2. ASSUME NEW n \in S PROVE n + 1 \in S
  <2>1. PICK q : Sorted(q, Below(n))
    BY <1>2
  <2>2. n \in Nat /\ n + 1 \in Nat
    OBVIOUS
  <2>3. CASE \E r \in rs : r.id = n + 1
    <3>1. PICK r \in rs : r.id = n + 1
      BY <2>3
    <3>2. Below(n + 1) = Below(n) \cup {r}
      <4>1. \A s \in rs : s.id <= n + 1 <=> s.id <= n \/ s = r
        <5> SUFFICES ASSUME NEW s \in rs
                     PROVE  s.id <= n + 1 <=> s.id <= n \/ s = r
          OBVIOUS
        <5>1. s.id \in Nat /\ (s.id = r.id => s = r)
          BY RowIds DEF OneId
        <5> QED  BY <2>2, <3>1, <5>1
      <4> QED  BY <4>1
    <3>3. \A s \in Below(n) : s.id < r.id
      BY <2>2, <3>1, RowIds
    <3>4. Below(n) \in SUBSET Rows /\ r \in Rows
      OBVIOUS
    <3> HIDE DEF Below
    <3>5. Sorted(Append(q, r), Below(n + 1))
      BY <2>1, <3>2, <3>3, <3>4, SortedAppend
    <3> QED  BY <2>2, <3>5
  <2>4. CASE ~ \E r \in rs : r.id = n + 1
    <3>1. Below(n + 1) = Below(n)
      <4>1. \A s \in rs : s.id <= n + 1 <=> s.id <= n
        BY <2>2, <2>4, RowIds
      <4> QED  BY <4>1
    <3> HIDE DEF Below
    <3> QED  BY <2>1, <2>2, <3>1
  <2> QED  BY <2>3, <2>4
<1> HIDE DEF S
<1>3. S = Nat
  BY <1>1, <1>2, Induction DEF S
<1>4. PICK n \in Nat : \A r \in rs : r.id <= n
  BY DEF Bounded
<1>5. Below(n) = rs
  BY <1>4
<1>6. \E q : Sorted(q, Below(n))
  BY <1>3, <1>4 DEF S
<1> QED  BY <1>5, <1>6

LEMMA InOrderSorted ==
    ASSUME NEW rs \in SUBSET Rows, OneId(rs), Bounded(rs)
    PROVE  Sorted(InOrder(rs), rs)
<1> DEFINE Is(q) == /\ q \in [1 .. Cardinality(rs) -> rs]
                    /\ ToSet(q) = rs
                    /\ \A i, j \in DOMAIN q : i < j => q[i].id <= q[j].id
<1>1. PICK p : Sorted(p, rs)
  BY SortExists
<1>2. IsFiniteSet(rs) /\ Cardinality(rs) = Len(p) /\ Len(p) \in Nat
  BY <1>1, SortedLen DEF Sorted
<1>3. Is(p)
  <2>1. p \in Seq(rs) /\ DOMAIN p = 1 .. Len(p)
    BY <1>1 DEF Sorted
  <2>2. p \in [1 .. Cardinality(rs) -> rs]
    BY <1>2, <2>1
  <2>3. ToSet(p) = rs
    BY <1>1, <2>1 DEF ToSet, Sorted, HoldsAll, Holds
  <2>4. ASSUME NEW i \in DOMAIN p, NEW j \in DOMAIN p, i < j
        PROVE  p[i].id <= p[j].id
    <3>1. p[i].id < p[j].id
      BY <1>1, <2>1, <2>4 DEF Sorted, Ascending
    <3>2. p[i].id \in Nat /\ p[j].id \in Nat
      BY <2>1, RowIds
    <3> QED  BY <3>1, <3>2
  <2> QED  BY <2>2, <2>3, <2>4
<1>4. Is(InOrder(rs))
  BY <1>3 DEF InOrder
<1>5. PICK q : q = InOrder(rs)
  OBVIOUS
<1>6. /\ q \in [1 .. Len(p) -> rs] /\ q \in Seq(rs) /\ Len(q) = Len(p)
      /\ DOMAIN q = 1 .. Len(q)
      /\ \A i, j \in 1 .. Len(q) : i < j => q[i].id <= q[j].id
  BY <1>2, <1>4, <1>5
<1>7. \A r \in rs : \E i \in 1 .. Len(q) : q[i] = r
  <2>1. {q[i] : i \in DOMAIN q} = rs
    BY <1>4, <1>5 DEF ToSet
  <2> QED  BY <1>6, <2>1
<1>8. q \in Surjection(1 .. Len(p), rs)
  <2>1. \A r \in rs : \E i \in 1 .. Len(p) : q[i] = r
    BY <1>6, <1>7
  <2>2. q \in [1 .. Len(p) -> rs]
    BY <1>6
  <2> QED  BY <2>1, <2>2, Zenon DEF Surjection
<1>9. IsFiniteSet(1 .. Len(p)) /\ Cardinality(1 .. Len(p)) = Len(p)
  BY <1>2, UpTo
<1>10. q \in Injection(1 .. Len(p), rs)
  BY <1>2, <1>8, <1>9, FS_Surjection
<1>11. \A i, j \in 1 .. Len(q) : q[i] = q[j] => i = j
  BY <1>6, <1>10 DEF Injection, IsInjective
<1>12. ASSUME NEW i \in 1 .. Len(q), NEW j \in 1 .. Len(q), i < j
       PROVE  q[i].id < q[j].id
  <2>1. q[i] # q[j] /\ q[i] \in rs /\ q[j] \in rs
    BY <1>6, <1>11, <1>12
  <2>2. q[i].id # q[j].id
    BY <2>1 DEF OneId
  <2>3. q[i].id <= q[j].id
    BY <1>6, <1>12
  <2> QED  BY <2>1, <2>2, <2>3, RowIds
<1> QED
  BY <1>5, <1>6, <1>7, <1>12 DEF Sorted, Ascending, HoldsAll, Holds

(* The head of a front is below all other rows, and what follows it is a   *)
(* front of the others.                                                    *)
LEMMA FrontTail ==
    ASSUME NEW rs \in SUBSET Rows, NEW q, FrontOf(q, rs), q # <<>>
    PROVE  /\ Head(q) \in rs
           /\ FrontOf(Tail(q), rs \ {Head(q)})
           /\ \A r \in rs \ {Head(q)} : Head(q).id < r.id
           /\ HoldsAll(q, rs) => HoldsAll(Tail(q), rs \ {Head(q)})
           /\ Len(Tail(q)) = Len(q) - 1
<1> DEFINE h == Head(q)
           t == Tail(q)
           rest == rs \ {h}
<1>q. /\ q \in Seq(rs) /\ Len(q) \in Nat /\ Len(q) # 0
      /\ \A j \in 1 .. Len(q) : q[j] \in rs /\ q[j].id \in Nat
      /\ \A j, k \in 1 .. Len(q) : j < k => q[j].id < q[k].id
      /\ \A r \in rs : Holds(q, r) \/ \A j \in 1 .. Len(q) : q[j].id < r.id
  BY RowIds DEF FrontOf, Ascending
<1>1. /\ h = q[1] /\ h \in rs /\ 1 \in 1 .. Len(q)
      /\ t \in Seq(rs) /\ Len(t) = Len(q) - 1
      /\ \A j \in 1 .. Len(q) - 1 : t[j] = q[j + 1]
  BY <1>q
<1> HIDE DEF h, t
<1>2. \A j \in 1 .. Len(t) : j + 1 \in 1 .. Len(q) /\ 1 < j + 1 /\ t[j] = q[j + 1]
  BY <1>1, <1>q
<1>3. \A j \in 1 .. Len(t) : t[j] \in rs /\ h.id < t[j].id
  BY <1>1, <1>2, <1>q
<1>4. \A j \in 1 .. Len(t) : t[j] \in rest
  BY <1>1, <1>3, <1>q
<1>5. t \in Seq(rest)
  <2>1. Len(t) \in Nat /\ t \in [1 .. Len(t) -> rest]
    <3>1. t \in [1 .. Len(t) -> rs] /\ Len(t) \in Nat
      BY <1>1
    <3> HIDE DEF rest
    <3> QED  BY <1>4, <3>1
  <2> HIDE DEF rest
  <2> QED  BY <2>1
<1>6. Ascending(t)
  <2> SUFFICES ASSUME NEW i \in 1 .. Len(t), NEW j \in 1 .. Len(t), i < j
               PROVE  t[i].id < t[j].id
    BY DEF Ascending
  <2>1. i + 1 < j + 1
    OBVIOUS
  <2> QED  BY <1>2, <1>q, <2>1
<1>7. ASSUME NEW r \in rest, Holds(q, r) PROVE Holds(t, r)
  <2>1. PICK j \in 1 .. Len(q) : q[j] = r
    BY <1>7 DEF Holds
  <2>2. j # 1
    BY <1>1, <2>1
  <2>3. /\ j - 1 \in 1 .. Len(t) /\ (j - 1) + 1 = j
        /\ j - 1 \in 1 .. Len(q) - 1
    BY <1>1, <1>q, <2>2
  <2>4. t[j - 1] = r
    BY <1>1, <2>1, <2>3
  <2> QED  BY <2>3, <2>4 DEF Holds
<1>8. ASSUME NEW r \in rest
      PROVE  /\ Holds(t, r) \/ \A j \in 1 .. Len(t) : t[j].id < r.id
             /\ h.id < r.id
  <2>1. CASE Holds(q, r)
    <3>1. Holds(t, r)
      BY <1>7, <2>1
    <3> QED  BY <1>3, <3>1 DEF Holds
  <2>2. CASE ~Holds(q, r)
    <3>1. \A j \in 1 .. Len(q) : q[j].id < r.id
      BY <1>q, <2>2
    <3> QED  BY <1>1, <1>2, <3>1
  <2> QED  BY <2>1, <2>2
<1>9. FrontOf(t, rest)
  BY <1>5, <1>6, <1>8 DEF FrontOf
<1>10. HoldsAll(q, rs) => HoldsAll(t, rest)
  BY <1>7 DEF HoldsAll
<1> QED  BY <1>1, <1>8, <1>9, <1>10 DEF h, t

LEMMA SortedTail ==
    ASSUME NEW rs \in SUBSET Rows, NEW q, Sorted(q, rs), q # <<>>
    PROVE  Sorted(Tail(q), rs \ {Head(q)})
BY FrontTail, SortedIsFront DEF Sorted, FrontOf

(* A row above all others leaves a front a front.                          *)
LEMMA FrontGrows ==
    ASSUME NEW rs \in SUBSET Rows, NEW q, FrontOf(q, rs), NEW r \in Rows,
           \A s \in rs : s.id < r.id
    PROVE  FrontOf(q, rs \cup {r})
<1>1. q \in Seq(rs) /\ \A i \in 1 .. Len(q) : q[i] \in rs
  BY DEF FrontOf
<1>2. q \in Seq(rs \cup {r})
  BY <1>1
<1>3. \A i \in 1 .. Len(q) : q[i].id < r.id
  BY <1>1
<1> QED  BY <1>2, <1>3 DEF FrontOf

LEMMA NothingInOrder ==
    ASSUME NEW q \in Seq({})
    PROVE  q = <<>>
OBVIOUS

-----------------------------------------------------------------------------
(* One batch per id *)

(* The queue and the worker, as far as the ids depend on them.  Nothing is *)
(* written before the queue is open: the first block of a client names its *)
(* user.                                                                   *)
QueueTyped ==
    /\ created \in BOOLEAN
    /\ worker \in Seq(Client!Blocks)
    /\ syncUser \in Owners \cup {NoEngine}
    /\ rows \subseteq Rows
    /\ nextBatchId \in BatchIds
    /\ Bounded(rows)

OpensFirst ==
    /\ ~created => worker = <<>> /\ syncUser = NoEngine
    /\ syncUser = NoEngine /\ worker # <<>> => Head(worker).type = "credential"
    /\ syncUser = NoEngine /\ created => worker # <<>>

IdInv == QueueTyped /\ OpensFirst /\ OneBatchPerId

LEMMA BlocksTyped ==
    /\ \A u \in Owners : Client!Credential(u) \in Client!Blocks
                         /\ Client!Credential(u).type = "credential"
    /\ \A w \in Writes : Client!Write(w) \in Client!Blocks
    /\ \A b \in Client!Blocks :
           /\ b.type = "credential" => b.user \in Owners
           /\ b.type = "write" => b.write \in Writes
           /\ b.type \in {"credential", "write"}
           /\ b.type = "write" => b = Client!Write(b.write)
<1>1. \A u \in Owners : Client!Credential(u) \in Client!Blocks
                        /\ Client!Credential(u).type = "credential"
  BY DEF Client!Credential, Client!Blocks, Client!Owners, Owners
<1>2. \A w \in Writes : Client!Write(w) \in Client!Blocks
  BY DEF Client!Write, Client!Blocks
<1>3. \A b \in Client!Blocks :
          /\ b.type = "credential" => b.user \in Owners
          /\ b.type = "write" => b.write \in Writes
          /\ b.type \in {"credential", "write"}
          /\ b.type = "write" => b = Client!Write(b.write)
  BY DEF Client!Blocks, Client!Owners, Owners, Client!Write
<1> QED  BY <1>1, <1>2, <1>3

LEMMA AppendShape ==
    ASSUME NEW S, NEW q \in Seq(S), NEW m \in S
    PROVE  /\ Append(q, m) \in Seq(S)
           /\ Append(q, m) # <<>>
           /\ q # <<>> => Head(Append(q, m)) = Head(q)
           /\ Len(Append(q, m)) = Len(q) + 1
           /\ Len(q) \in Nat
           /\ \A i \in 1 .. Len(q) : Append(q, m)[i] = q[i]
           /\ Append(q, m)[Len(q) + 1] = m
<1>1. /\ Append(q, m) \in Seq(S)
      /\ Len(Append(q, m)) = Len(q) + 1
      /\ Len(q) \in Nat
      /\ \A i \in 1 .. Len(q) : Append(q, m)[i] = q[i]
      /\ Append(q, m)[Len(q) + 1] = m
  OBVIOUS
<1>2. Append(q, m) # <<>>
  <2>1. Len(<<>>) = 0
    OBVIOUS
  <2>2. Len(Append(q, m)) # 0
    BY <1>1
  <2> QED  BY <2>1, <2>2
<1>3. ASSUME q # <<>> PROVE Head(Append(q, m)) = Head(q)
  <2>1. 1 \in 1 .. Len(q) /\ Head(q) = q[1]
    BY <1>3
  <2>2. Head(Append(q, m)) = Append(q, m)[1]
    BY <1>1, <1>2
  <2> QED  BY <1>1, <2>1, <2>2
<1> QED  BY <1>1, <1>2, <1>3

LEMMA TailShape ==
    ASSUME NEW S, NEW q \in Seq(S), q # <<>>
    PROVE  /\ Tail(q) \in Seq(S)
           /\ Head(q) = q[1]
           /\ Head(q) \in S
           /\ Len(q) \in Nat \ {0}
           /\ Len(Tail(q)) = Len(q) - 1
           /\ \A i \in 1 .. Len(q) - 1 : Tail(q)[i] = q[i + 1]
OBVIOUS

(* A row that is taken off the table leaves the ids as they were.          *)
LEMMA FewerRows ==
    ASSUME IdInv, rows' \subseteq rows,
           created' = created, worker' = worker, syncUser' = syncUser,
           nextBatchId' = nextBatchId
    PROVE  IdInv'
<1>1. Bounded(rows')
  BY DEF IdInv, QueueTyped, Bounded
<1>2. QueueTyped'
  BY <1>1 DEF IdInv, QueueTyped
<1>3. OpensFirst'
  BY DEF IdInv, OpensFirst
<1>4. OneBatchPerId'
  BY DEF IdInv, OneBatchPerId
<1> QED  BY <1>2, <1>3, <1>4 DEF IdInv

LEMMA IdInvSetData ==
    ASSUME IdInv, NEW w \in Writes, NEW u \in Owners, AppSetsData(w, u)
    PROVE  IdInv'
<1>1. /\ rows' = rows /\ nextBatchId' = nextBatchId /\ syncUser' = syncUser
      /\ created' = TRUE
      /\ worker' = IF created THEN Append(worker, Client!Write(w))
                   ELSE <<Client!Credential(u), Client!Write(w)>>
  BY DEF AppSetsData, Client!SetData, rowVars
<1>2. Client!Write(w) \in Client!Blocks /\ Client!Credential(u) \in Client!Blocks
      /\ Client!Credential(u).type = "credential"
  BY BlocksTyped
<1>3. CASE created
  <2>1. /\ worker' \in Seq(Client!Blocks) /\ worker' # <<>>
        /\ worker # <<>> => Head(worker') = Head(worker)
    BY <1>1, <1>2, <1>3, AppendShape DEF IdInv, QueueTyped
  <2> QED
    BY <1>1, <1>3, <2>1 DEF IdInv, QueueTyped, OpensFirst, OneBatchPerId, Bounded
<1>4. CASE ~created
  <2>1. /\ worker' \in Seq(Client!Blocks) /\ worker' # <<>>
        /\ Head(worker') = Client!Credential(u)
    BY <1>1, <1>2, <1>4
  <2> QED
    BY <1>1, <1>2, <1>4, <2>1
       DEF IdInv, QueueTyped, OpensFirst, OneBatchPerId, Bounded
<1> QED  BY <1>3, <1>4 DEF IdInv, QueueTyped

LEMMA IdInvUserChanges ==
    ASSUME IdInv, NEW u \in Owners, UserChanges(u)
    PROVE  IdInv'
<1>1. /\ rows' = rows /\ nextBatchId' = nextBatchId /\ syncUser' = syncUser
      /\ created' = created
      /\ worker' = IF created THEN Append(worker, Client!Credential(u))
                   ELSE worker
  BY DEF UserChanges, Client!CredentialChanges, rowVars
<1>2. Client!Credential(u) \in Client!Blocks
  BY BlocksTyped
<1>3. /\ worker' \in Seq(Client!Blocks)
      /\ worker # <<>> => Head(worker') = Head(worker)
      /\ worker' = <<>> => worker = <<>>
      /\ ~created => worker' = worker
  BY <1>1, <1>2, AppendShape DEF IdInv, QueueTyped
<1> QED
  BY <1>1, <1>3 DEF IdInv, QueueTyped, OpensFirst, OneBatchPerId, Bounded

LEMMA IdInvHandleCredential ==
    ASSUME IdInv, HandleCredential
    PROVE  IdInv'
<1>1. /\ rows' = rows /\ created' = created
      /\ worker # <<>> /\ Head(worker).type = "credential"
      /\ syncUser' = Head(worker).user
      /\ nextBatchId' = IF syncUser' = syncUser THEN nextBatchId
                        ELSE LoadNextBatchIdFromDb(rows)
      /\ worker' = Tail(worker)
  BY DEF HandleCredential
<1>2. /\ syncUser' \in Owners /\ syncUser' # NoEngine
      /\ worker' \in Seq(Client!Blocks)
  BY <1>1, BlocksTyped, TailShape, QueueNobodyAssumption
     DEF IdInv, QueueTyped, Owners
<1>3. /\ nextBatchId' \in BatchIds
      /\ \A r \in rows : r.id < nextBatchId'
  BY <1>1, <1>2, NextIdIsFree DEF IdInv, QueueTyped, OneBatchPerId
<1>4. created
  BY <1>1 DEF IdInv, QueueTyped, OpensFirst
<1>5. QueueTyped'
  BY <1>1, <1>2, <1>3 DEF IdInv, QueueTyped, Bounded
<1>6. OpensFirst'
  BY <1>1, <1>2, <1>4 DEF OpensFirst
<1>7. OneBatchPerId'
  BY <1>1, <1>3 DEF IdInv, OneBatchPerId
<1> QED  BY <1>5, <1>6, <1>7 DEF IdInv

LEMMA IdInvWriteMutations ==
    ASSUME IdInv, WriteMutations
    PROVE  IdInv'
<1> DEFINE batch == [user |-> syncUser, id |-> nextBatchId,
                     write |-> Head(worker).write]
<1>1. /\ worker # <<>> /\ Head(worker).type = "write"
      /\ rows' = rows \cup {batch}
      /\ nextBatchId' = nextBatchId + 1
      /\ worker' = Tail(worker)
      /\ created' = created /\ syncUser' = syncUser
  BY DEF WriteMutations
<1>2. syncUser \in Owners /\ syncUser # NoEngine
  BY <1>1 DEF IdInv, QueueTyped, OpensFirst
<1>3. Head(worker).write \in Writes /\ worker' \in Seq(Client!Blocks)
  BY <1>1, BlocksTyped, TailShape DEF IdInv, QueueTyped
<1>4. batch \in Rows /\ batch.id = nextBatchId
  BY <1>2, <1>3 DEF IdInv, QueueTyped, Rows
<1> HIDE DEF batch
<1>5. /\ nextBatchId \in Nat /\ nextBatchId' \in BatchIds
      /\ \A r \in rows : r.id \in Nat /\ r.id < nextBatchId
  BY <1>1, <1>2 DEF IdInv, QueueTyped, OneBatchPerId, Rows, BatchIds
<1>6. \A r \in rows' : r.id \in Nat /\ r.id <= nextBatchId /\ r.id < nextBatchId'
  BY <1>1, <1>4, <1>5
<1>7. Bounded(rows')
  BY <1>5, <1>6 DEF Bounded
<1>8. QueueTyped'
  BY <1>1, <1>3, <1>4, <1>5, <1>7 DEF IdInv, QueueTyped
<1>9. OpensFirst'
  BY <1>1, <1>2 DEF IdInv, OpensFirst
<1>10. OneBatchPerId'
  <2>1. \A r, s \in rows' : r.id = s.id => r = s
    BY <1>1, <1>4, <1>5 DEF IdInv, OneBatchPerId
  <2> QED  BY <1>6, <2>1 DEF OneBatchPerId
<1> QED  BY <1>8, <1>9, <1>10 DEF IdInv

LEMMA IdInvStep == IdInv /\ [QueueNext]_queueVars => IdInv'
<1> SUFFICES ASSUME IdInv, [QueueNext]_queueVars PROVE IdInv'
  OBVIOUS
<1>1. ASSUME NEW w \in Writes, NEW u \in Owners, AppSetsData(w, u) PROVE IdInv'
  BY <1>1, IdInvSetData
<1>2. ASSUME NEW u \in Owners, UserChanges(u) PROVE IdInv'
  BY <1>2, IdInvUserChanges
<1>3. CASE HandleCredential
  BY <1>3, IdInvHandleCredential
<1>4. CASE WriteMutations
  BY <1>4, IdInvWriteMutations
<1>5. CASE CompletionRuns \/ SuccessIsTold \/ FailureIsTold \/ UNCHANGED queueVars
  BY <1>5, FewerRows
     DEF CompletionRuns, Client!DeliverWritten, SuccessIsTold, FailureIsTold,
         queueVars, clientVars, rowVars
<1>8. ASSUME NEW i \in DOMAIN pipeline, BackendApplies(i) PROVE IdInv'
  BY <1>8, FewerRows DEF BackendApplies, rowVars
<1>6. CASE AcknowledgeBatch \/ RejectBatch
  BY <1>6, FewerRows DEF AcknowledgeBatch, RejectBatch, clientVars
<1>7. CASE ProcessDies
  <2>1. /\ rows' = rows /\ created' = FALSE /\ worker' = <<>>
        /\ syncUser' = NoEngine /\ nextBatchId' = 1
    BY <1>7 DEF ProcessDies
  <2>2. worker' \in Seq(Client!Blocks) /\ nextBatchId' \in BatchIds
    BY <2>1 DEF BatchIds
  <2> QED
    BY <2>1, <2>2 DEF IdInv, QueueTyped, OpensFirst, OneBatchPerId, Bounded
<1> QED
  BY <1>1, <1>2, <1>3, <1>4, <1>5, <1>6, <1>7, <1>8, Zenon DEF QueueNext

LEMMA IdInvInit == QueueInit => IdInv
<1> SUFFICES ASSUME QueueInit PROVE IdInv
  OBVIOUS
<1>1. Bounded(rows)
  BY DEF QueueInit, Bounded
<1>2. QueueTyped
  <2>1. worker \in Seq(Client!Blocks)
    BY DEF QueueInit
  <2>2. nextBatchId \in BatchIds
    BY DEF QueueInit, BatchIds
  <2> QED  BY <1>1, <2>1, <2>2 DEF QueueInit, QueueTyped
<1>3. OpensFirst /\ OneBatchPerId
  BY DEF QueueInit, OpensFirst, OneBatchPerId
<1> QED
  BY <1>2, <1>3 DEF IdInv

(* LoadNextBatchIdFromDb and the counter never hand out an id that a row   *)
(* on disk has, over any number of restarts and changes of user.           *)
THEOREM OneBatchPerIdHolds == QueueSpec => []OneBatchPerId
<1>1. IdInv => OneBatchPerId
  BY DEF IdInv
<1> QED  BY <1>1, IdInvInit, IdInvStep, PTL DEF QueueSpec

-----------------------------------------------------------------------------
(* Rows, blocks and pipeline                                               *)

(* What waits for the current user behind the batch that is being handled. *)
Waiting == OfUser(rows, syncUser) \ {settling}

(* The pipeline is a front of that, and full or all of it when nothing is  *)
(* half handled.                                                           *)
PipelineFilled ==
    /\ FrontOf(pipeline, Waiting)
    /\ Len(pipeline) <= MaxPendingWrites
    /\ Idle => Len(pipeline) = MaxPendingWrites \/ HoldsAll(pipeline, Waiting)

(* A batch that is half handled was the first of its user: still on disk   *)
(* if it succeeded, gone from it if it failed.                             *)
HalfHandled ==
    ~Idle =>
        /\ settling.user = syncUser
        /\ Len(pipeline) < MaxPendingWrites
        /\ settling.id < nextBatchId
        /\ \A r \in Waiting : settling.id < r.id
        /\ verdict = "ok" => settling \in rows
        /\ verdict # "ok" => \A r \in rows : r.id # settling.id

(* A write is on the worker queue, in a batch, or neither, and once.       *)
Batches == IF Idle THEN rows ELSE rows \cup {settling}

Once(wk, iss, td, bs) ==
    /\ \A i \in 1 .. Len(wk) : wk[i].type = "write" =>
           /\ wk[i].write \in iss
           /\ wk[i].write \notin td
           /\ \A b \in bs : b.write # wk[i].write
    /\ \A i, j \in 1 .. Len(wk) :
           /\ wk[i].type = "write"
           /\ wk[j].type = "write"
           /\ wk[i].write = wk[j].write
           => i = j

OneWrite(bs) == \A r, s \in bs : r.write = s.write => r = s

WritesOnce ==
    /\ Once(worker, issued, told, Batches)
    /\ told \subseteq issued
    /\ \A b \in Batches : b.write \in issued
    /\ OneWrite(Batches)
    /\ \A b \in blocks : b.write \notin told

QueueInv ==
    /\ IdInv
    /\ QueueTypeOK
    /\ PipelineFilled
    /\ HalfHandled
    /\ BlocksMeetTheirBatch
    /\ WritesOnce

LEMMA OnceAppendWrite ==
    ASSUME NEW wk \in Seq(Client!Blocks), NEW iss, NEW td, NEW bs,
           Once(wk, iss, td, bs), NEW w, w \notin iss,
           td \subseteq iss, \A b \in bs : b.write \in iss
    PROVE  /\ Once(Append(wk, Client!Write(w)), iss \cup {w}, td, bs)
           /\ \A u : Once(<<Client!Credential(u), Client!Write(w)>>,
                          iss \cup {w}, td, bs)
<1> DEFINE q == Append(wk, Client!Write(w))
<1>w. Client!Write(w).type = "write" /\ Client!Write(w).write = w
  BY DEF Client!Write
<1>1. /\ Len(q) = Len(wk) + 1 /\ Len(wk) \in Nat
      /\ \A i \in 1 .. Len(wk) : q[i] = wk[i]
      /\ q[Len(wk) + 1] = Client!Write(w)
  OBVIOUS
<1> HIDE DEF q
<1>2. \A i \in 1 .. Len(q) : i \in 1 .. Len(wk) \/ i = Len(wk) + 1
  BY <1>1
<1>3. \A i \in 1 .. Len(q) : q[i].type = "write" =>
          /\ q[i].write \in iss \cup {w}
          /\ q[i].write \notin td
          /\ \A b \in bs : b.write # q[i].write
  BY <1>w, <1>1, <1>2 DEF Once
<1>4. \A i, j \in 1 .. Len(q) :
          /\ q[i].type = "write"
          /\ q[j].type = "write"
          /\ q[i].write = q[j].write
          => i = j
  BY <1>w, <1>1, <1>2 DEF Once
<1>5. Once(q, iss \cup {w}, td, bs)
  BY <1>3, <1>4 DEF Once
<1>6. ASSUME NEW u
      PROVE  Once(<<Client!Credential(u), Client!Write(w)>>, iss \cup {w}, td, bs)
  <2> DEFINE p == <<Client!Credential(u), Client!Write(w)>>
  <2>1. /\ Len(p) = 2 /\ p[2] = Client!Write(w) /\ p[1].type # "write"
        /\ \A i \in 1 .. Len(p) : i = 1 \/ i = 2
    BY DEF Client!Credential
  <2> HIDE DEF p
  <2>2. Once(p, iss \cup {w}, td, bs)
    BY <1>w, <2>1 DEF Once
  <2> QED  BY <2>2 DEF p
<1> QED  BY <1>5, <1>6 DEF q

LEMMA OnceAppendCredential ==
    ASSUME NEW wk \in Seq(Client!Blocks), NEW iss, NEW td, NEW bs,
           Once(wk, iss, td, bs), NEW u
    PROVE  Once(Append(wk, Client!Credential(u)), iss, td, bs)
<1> DEFINE q == Append(wk, Client!Credential(u))
<1>w. Client!Credential(u).type # "write"
  BY DEF Client!Credential
<1>1. /\ Len(q) = Len(wk) + 1 /\ Len(wk) \in Nat
      /\ \A i \in 1 .. Len(wk) : q[i] = wk[i]
      /\ q[Len(wk) + 1] = Client!Credential(u)
  OBVIOUS
<1> HIDE DEF q
<1>2. \A i \in 1 .. Len(q) : i \in 1 .. Len(wk) \/ i = Len(wk) + 1
  BY <1>1
<1>3. Once(q, iss, td, bs)
  BY <1>w, <1>1, <1>2 DEF Once
<1> QED  BY <1>3 DEF q

LEMMA OnceTail ==
    ASSUME NEW wk \in Seq(Client!Blocks), wk # <<>>, NEW iss, NEW td, NEW bs,
           Once(wk, iss, td, bs)
    PROVE  /\ Once(Tail(wk), iss, td, bs)
           /\ Head(wk).type = "write" =>
                 /\ Head(wk).write \in iss
                 /\ Head(wk).write \notin td
                 /\ \A b \in bs : b.write # Head(wk).write
                 /\ \A r : r.write = Head(wk).write
                              => Once(Tail(wk), iss, td, bs \cup {r})
<1> DEFINE q == Tail(wk)
           h == Head(wk)
<1>1. /\ Len(q) = Len(wk) - 1 /\ Len(wk) \in Nat /\ Len(wk) # 0
      /\ \A i \in 1 .. Len(wk) - 1 : q[i] = wk[i + 1]
      /\ h = wk[1]
  OBVIOUS
<1> HIDE DEF q, h
<1>2. \A i \in 1 .. Len(q) : i + 1 \in 1 .. Len(wk) /\ q[i] = wk[i + 1] /\ i + 1 # 1
  BY <1>1
<1>3. 1 \in 1 .. Len(wk)
  BY <1>1
<1>4. \A i, j \in 1 .. Len(q) : i + 1 = j + 1 => i = j
  OBVIOUS
<1>5. Once(q, iss, td, bs)
  <2>1. \A i \in 1 .. Len(q) : q[i].type = "write" =>
            /\ q[i].write \in iss
            /\ q[i].write \notin td
            /\ \A b \in bs : b.write # q[i].write
    BY <1>2 DEF Once
  <2>2. ASSUME NEW i \in 1 .. Len(q), NEW j \in 1 .. Len(q),
               q[i].type = "write", q[j].type = "write", q[i].write = q[j].write
        PROVE  i = j
    <3>1. i + 1 = j + 1
      BY <1>2, <2>2 DEF Once
    <3> QED  BY <1>4, <3>1
  <2> QED  BY <2>1, <2>2 DEF Once
<1>6. ASSUME h.type = "write"
      PROVE  /\ h.write \in iss
             /\ h.write \notin td
             /\ \A b \in bs : b.write # h.write
             /\ \A i \in 1 .. Len(q) : q[i].type = "write" => q[i].write # h.write
  BY <1>1, <1>2, <1>3, <1>6 DEF Once
<1>7. ASSUME h.type = "write", NEW r, r.write = h.write
      PROVE  Once(q, iss, td, bs \cup {r})
  BY <1>5, <1>6, <1>7 DEF Once
<1> QED  BY <1>5, <1>6, <1>7 DEF q, h

(* What is told was in a batch; batches only go.                           *)
LEMMA OnceFewer ==
    ASSUME NEW wk, NEW iss, NEW td, NEW bs, Once(wk, iss, td, bs),
           NEW td2, NEW bs2, bs2 \subseteq bs,
           \A w \in td2 : w \in td \/ \E b \in bs : b.write = w
    PROVE  Once(wk, iss, td2, bs2)
<1>1. \A i \in 1 .. Len(wk) : wk[i].type = "write" =>
          /\ wk[i].write \in iss
          /\ wk[i].write \notin td2
          /\ \A b \in bs2 : b.write # wk[i].write
  BY DEF Once
<1> QED  BY <1>1 DEF Once

(* The parts of the invariant that a step reads.                           *)
LEMMA InvFacts ==
    ASSUME QueueInv
    PROVE  /\ rows \in SUBSET Rows /\ blocks \in SUBSET Rows
           /\ OneId(rows) /\ OneId(Batches) /\ OneId(blocks)
           /\ Batches \in SUBSET Rows
           /\ OfUser(rows, syncUser) \in SUBSET Rows
           /\ pipeline \in Seq(Rows)
           /\ NoRow \notin Rows
           /\ syncUser \in Owners \cup {NoEngine} /\ NoEngine \notin Owners
           /\ Idle => Waiting = OfUser(rows, syncUser)
           /\ ~Idle => settling \in Rows
           /\ Waiting \in SUBSET Rows
<1>1. /\ rows \in SUBSET Rows /\ blocks \in SUBSET Rows /\ pipeline \in Seq(Rows)
      /\ syncUser \in Owners \cup {NoEngine}
      /\ settling \in Rows \cup {NoRow}
  BY DEF QueueInv, QueueTypeOK
<1>2. OneId(rows)
  BY DEF QueueInv, IdInv, OneBatchPerId, OneId
<1>3. NoRow \notin Rows /\ NoEngine \notin Owners
  BY QueueNobodyAssumption DEF Rows, Owners, BatchIds
<1>4. ~Idle => settling \in Rows
  BY <1>1 DEF Idle
<1>5. Batches \in SUBSET Rows
  BY <1>1, <1>4 DEF Batches
<1>6. OneId(Batches)
  <2>1. CASE Idle \/ settling \in rows
    <3>1. Batches = rows
      BY <2>1 DEF Batches
    <3> QED  BY <1>2, <3>1
  <2>2. CASE ~Idle /\ settling \notin rows
    <3>1. \A r \in rows : r.id # settling.id
      BY <2>2 DEF QueueInv, HalfHandled
    <3> QED  BY <1>2, <2>2, <3>1 DEF Batches, OneId
  <2> QED  BY <2>1, <2>2
<1>7. OneId(blocks)
  <2>1. blocks \subseteq Batches
    BY DEF QueueInv, BlocksMeetTheirBatch, Outstanding, Batches
  <2> QED  BY <1>6, <2>1 DEF OneId
<1>8. OfUser(rows, syncUser) \in SUBSET Rows /\ Waiting \in SUBSET Rows
  BY <1>1 DEF OfUser, Waiting
<1>9. Idle => Waiting = OfUser(rows, syncUser)
  BY <1>1, <1>3 DEF Waiting, OfUser, Idle
<1> QED
  BY <1>1, <1>2, <1>3, <1>4, <1>5, <1>6, <1>7, <1>8, <1>9

LEMMA RowRemoved ==
    ASSUME NEW rs \in SUBSET Rows, OneId(rs), NEW s \in rs
    PROVE  {r \in rs : <<r.user, r.id>> # <<s.user, s.id>>} = rs \ {s}
BY DEF OneId

(* The block that is found is that of the batch, if there is one.          *)
LEMMA NotifyShape ==
    ASSUME NEW batch, NEW answer, NotifyUser(batch, answer),
           OneId(blocks \cup {batch}), batch.user = syncUser,
           mainQueue \in Seq(Client!WrittenItems)
    PROVE  /\ batch \in blocks =>
                 /\ mainQueue' = Append(mainQueue,
                                        Client!Written(batch.write, answer))
                 /\ told' = told \cup {batch.write}
           /\ batch \notin blocks => mainQueue' = mainQueue /\ told' = told
           /\ blocks' = blocks \ {batch}
<1>1. BlocksFor(batch) = IF batch \in blocks THEN {batch} ELSE {}
  BY DEF BlocksFor, OneId
<1> DEFINE w == (CHOOSE b \in BlocksFor(batch) : TRUE).write
<1>c. PICK f :
          /\ f = [i \in 1 .. Cardinality(BlocksFor(batch)) |->
                    Client!Written(w, answer)]
          /\ mainQueue' = mainQueue \o f
  BY DEF NotifyUser
<1>n. /\ told' = told \cup {b.write : b \in BlocksFor(batch)}
      /\ blocks' = blocks \ BlocksFor(batch)
  BY DEF NotifyUser
<1> HIDE DEF w
<1>2. CASE batch \in blocks
  <2>1. BlocksFor(batch) = {batch}
    BY <1>1, <1>2
  <2>2. Cardinality(BlocksFor(batch)) = 1 /\ w = batch.write
    BY <2>1, FS_Singleton DEF w
  <2>3. mainQueue' = Append(mainQueue, Client!Written(batch.write, answer))
    BY <1>c, <2>2
  <2> QED  BY <1>n, <1>2, <2>1, <2>3
<1>3. CASE batch \notin blocks
  <2>1. BlocksFor(batch) = {}
    BY <1>1, <1>3
  <2>2. Cardinality(BlocksFor(batch)) = 0
    BY <2>1, FS_EmptySet
  <2>3. mainQueue' = mainQueue
    BY <1>c, <2>2
  <2> QED  BY <1>n, <1>3, <2>1, <2>3
<1> QED  BY <1>2, <1>3

(* The types of the pipeline and of what is told do not depend on how the  *)
(* pipeline is filled.                                                     *)
LEMMA WrittenTyped ==
    ASSUME NEW w \in Writes
    PROVE  /\ Client!Written(w, "ok") \in Client!WrittenItems
           /\ Client!Written(w, "failed") \in Client!WrittenItems
           /\ \A a : Client!Written(w, a).write = w
BY DEF Client!Written, Client!WrittenItems, Client!Answers

-----------------------------------------------------------------------------
(* Steps that leave the table alone                                        *)

LEMMA TableStays ==
    ASSUME QueueInv, UNCHANGED <<rows, nextBatchId, blocks, pipeline, settling,
                                 verdict, syncUser>>
    PROVE  /\ PipelineFilled' /\ HalfHandled' /\ BlocksMeetTheirBatch'
           /\ Batches' = Batches
BY DEF QueueInv, PipelineFilled, HalfHandled, BlocksMeetTheirBatch, Outstanding,
       Batches, Waiting, Idle

LEMMA QueueSetData ==
    ASSUME QueueInv, NEW w \in Writes, NEW u \in Owners, AppSetsData(w, u)
    PROVE  QueueInv'
<1>1. /\ UNCHANGED <<rows, nextBatchId, blocks, pipeline, settling, verdict, told>>
      /\ UNCHANGED <<mainQueue, syncUser, applied, restarts>>
      /\ w \notin issued
      /\ issued' = issued \cup {w}
      /\ created' = TRUE
      /\ credential' = IF created THEN credential ELSE u
      /\ worker' = IF created THEN Append(worker, Client!Write(w))
                   ELSE <<Client!Credential(u), Client!Write(w)>>
  BY DEF AppSetsData, Client!SetData, rowVars
<1>2. IdInv'
  BY IdInvSetData DEF QueueInv
<1>3. /\ PipelineFilled' /\ HalfHandled' /\ BlocksMeetTheirBatch'
      /\ Batches' = Batches
  BY <1>1, TableStays
<1>t. QueueTypeOK
  BY DEF QueueInv
<1>4. worker' \in Seq(Client!Blocks)
  BY <1>2 DEF IdInv, QueueTyped
<1>5. QueueTypeOK'
  BY <1>1, <1>4, <1>t DEF QueueTypeOK
<1>o. WritesOnce
  BY DEF QueueInv
<1>6. Once(worker', issued', told', Batches')
  <2>1. worker \in Seq(Client!Blocks)
    BY <1>t DEF QueueTypeOK
  <2>2. /\ Once(Append(worker, Client!Write(w)), issued \cup {w}, told, Batches)
        /\ Once(<<Client!Credential(u), Client!Write(w)>>, issued \cup {w}, told,
                Batches)
    BY <1>1, <1>o, <2>1, OnceAppendWrite DEF WritesOnce
  <2> QED  BY <1>1, <1>3, <2>2
<1>7. WritesOnce'
  BY <1>1, <1>3, <1>6, <1>o DEF WritesOnce
<1> QED  BY <1>2, <1>3, <1>5, <1>7 DEF QueueInv

LEMMA QueueUserChanges ==
    ASSUME QueueInv, NEW u \in Owners, UserChanges(u)
    PROVE  QueueInv'
<1>1. /\ UNCHANGED <<rows, nextBatchId, blocks, pipeline, settling, verdict, told>>
      /\ UNCHANGED <<mainQueue, syncUser, applied, restarts, issued, created>>
      /\ credential' = IF created THEN u ELSE credential
      /\ worker' = IF created THEN Append(worker, Client!Credential(u)) ELSE worker
  BY DEF UserChanges, Client!CredentialChanges, rowVars
<1>2. IdInv'
  BY IdInvUserChanges DEF QueueInv
<1>3. /\ PipelineFilled' /\ HalfHandled' /\ BlocksMeetTheirBatch'
      /\ Batches' = Batches
  BY <1>1, TableStays
<1>t. QueueTypeOK
  BY DEF QueueInv
<1>4. worker' \in Seq(Client!Blocks)
  BY <1>2 DEF IdInv, QueueTyped
<1>5. QueueTypeOK'
  BY <1>1, <1>4, <1>t DEF QueueTypeOK
<1>o. WritesOnce
  BY DEF QueueInv
<1>6. Once(worker', issued', told', Batches')
  <2>1. worker \in Seq(Client!Blocks)
    BY <1>t DEF QueueTypeOK
  <2>2. Once(Append(worker, Client!Credential(u)), issued, told, Batches)
    BY <1>o, <2>1, OnceAppendCredential DEF WritesOnce
  <2> QED  BY <1>1, <1>3, <1>o, <2>2 DEF WritesOnce
<1>7. WritesOnce'
  BY <1>1, <1>3, <1>6, <1>o DEF WritesOnce
<1> QED  BY <1>2, <1>3, <1>5, <1>7 DEF QueueInv

(* Neither the main queue nor the backend is looked at by the rest.        *)
LEMMA QueueElsewhere ==
    ASSUME QueueInv, UNCHANGED <<rows, nextBatchId, blocks, pipeline, settling,
                                 verdict, told, syncUser, created, credential,
                                 worker, issued, restarts>>,
           applied' \subseteq Writes, mainQueue' \in Seq(Client!WrittenItems)
    PROVE  QueueInv'
<1>1. IdInv'
  BY FewerRows DEF QueueInv
<1>2. /\ PipelineFilled' /\ HalfHandled' /\ BlocksMeetTheirBatch'
      /\ Batches' = Batches
  BY TableStays
<1>3. QueueTypeOK'
  BY DEF QueueInv, QueueTypeOK
<1>4. WritesOnce'
  BY <1>2 DEF QueueInv, WritesOnce
<1> QED  BY <1>1, <1>2, <1>3, <1>4 DEF QueueInv

LEMMA QueueCompletionRuns ==
    ASSUME QueueInv, CompletionRuns
    PROVE  QueueInv'
<1>1. mainQueue # <<>> /\ mainQueue' = Tail(mainQueue) /\ applied' = applied
  BY DEF CompletionRuns, Client!DeliverWritten
<1>2. mainQueue' \in Seq(Client!WrittenItems) /\ applied' \subseteq Writes
  BY <1>1 DEF QueueInv, QueueTypeOK
<1> QED
  BY <1>2, QueueElsewhere DEF CompletionRuns, Client!DeliverWritten, rowVars

LEMMA QueueBackendApplies ==
    ASSUME QueueInv, NEW i \in DOMAIN pipeline, BackendApplies(i)
    PROVE  QueueInv'
<1>1. pipeline[i] \in Rows
  BY InvFacts
<1>2. applied' \subseteq Writes /\ mainQueue' \in Seq(Client!WrittenItems)
  BY <1>1 DEF BackendApplies, Rows, QueueInv, QueueTypeOK
<1> QED
  BY <1>2, QueueElsewhere DEF BackendApplies, rowVars

-----------------------------------------------------------------------------
(* Steps that change it                                                    *)

LEMMA FrontTyped ==
    ASSUME NEW rs \in SUBSET Rows, NEW q, FrontOf(q, rs)
    PROVE  q \in Seq(Rows)
BY DEF FrontOf

LEMMA NothingWaits ==
    ASSUME NEW rs
    PROVE  FrontOf(<<>>, rs) /\ Len(<<>>) = 0
BY DEF FrontOf, Ascending

LEMMA QueueHandleCredential ==
    ASSUME QueueInv, HandleCredential
    PROVE  QueueInv'
<1>1. /\ UNCHANGED <<created, credential, applied, issued, mainQueue, restarts,
                     rows, blocks, settling, verdict, told>>
      /\ Idle
      /\ worker # <<>> /\ worker' = Tail(worker)
      /\ pipeline' = FillWritePipeline(<<>>, rows, syncUser')
  BY DEF HandleCredential
<1>2. IdInv'
  BY IdInvHandleCredential DEF QueueInv
<1>3. Idle' /\ Batches' = Batches /\ settling = NoRow /\ settling' = NoRow
  BY <1>1 DEF Idle, Batches
<1>4. /\ FrontOf(pipeline', OfUser(rows, syncUser'))
      /\ Len(pipeline') <= MaxPendingWrites
      /\ \/ Len(pipeline') = MaxPendingWrites
         \/ HoldsAll(pipeline', OfUser(rows, syncUser'))
  <2>1. 0 <= MaxPendingWrites
    BY QueueBoundsAssumption
  <2> QED  BY <1>1, <2>1, NothingWaits, InvFacts, FillFront
<1>5. Waiting' = OfUser(rows, syncUser') /\ OfUser(rows, syncUser') \in SUBSET Rows
  BY <1>1, <1>3, InvFacts DEF Waiting, OfUser
<1>6. PipelineFilled'
  BY <1>4, <1>5 DEF PipelineFilled
<1>7. HalfHandled' /\ BlocksMeetTheirBatch'
  BY <1>1, <1>3
     DEF HalfHandled, QueueInv, BlocksMeetTheirBatch, Outstanding, Idle
<1>8. QueueTypeOK'
  <2>1. pipeline' \in Seq(Rows)
    BY <1>4, <1>5, FrontTyped
  <2>2. /\ worker' \in Seq(Client!Blocks) /\ nextBatchId' \in BatchIds
        /\ syncUser' \in Owners \cup {NoEngine}
    BY <1>2 DEF IdInv, QueueTyped
  <2> QED  BY <1>1, <2>1, <2>2 DEF QueueInv, QueueTypeOK
<1>9. WritesOnce'
  <2>1. Once(Tail(worker), issued, told, Batches)
    BY <1>1, OnceTail DEF QueueInv, QueueTypeOK, WritesOnce
  <2> QED  BY <1>1, <1>3, <2>1 DEF QueueInv, WritesOnce
<1> QED  BY <1>2, <1>6, <1>7, <1>8, <1>9 DEF QueueInv

(* The batch that is written: a row of the current user above all others.  *)
LEMMA BatchFacts ==
    ASSUME QueueInv, WriteMutations,
           NEW batch, batch = [user |-> syncUser, id |-> nextBatchId,
                               write |-> Head(worker).write]
    PROVE  /\ batch \in Rows /\ batch.user = syncUser /\ batch.id = nextBatchId
           /\ batch.write = Head(worker).write
           /\ \A r \in rows : r.id < batch.id
           /\ \A r \in rows : r.write # batch.write
           /\ batch.write \in issued /\ batch.write \notin told
           /\ rows' = rows \cup {batch}
           /\ blocks' = blocks \cup {batch}
           /\ pipeline' = FillWritePipeline(pipeline, rows', syncUser)
           /\ OfUser(rows', syncUser) = OfUser(rows, syncUser) \cup {batch}
           /\ syncUser \in Owners
<1>1. /\ Idle /\ worker # <<>> /\ Head(worker).type = "write"
      /\ rows' = rows \cup {batch}
      /\ blocks' = blocks \cup {batch}
      /\ pipeline' = FillWritePipeline(pipeline, rows', syncUser)
  BY DEF WriteMutations
<1>2. syncUser \in Owners /\ syncUser # NoEngine
  BY <1>1 DEF QueueInv, IdInv, QueueTyped, OpensFirst
<1>3. Head(worker).write \in Writes
  BY <1>1, BlocksTyped, TailShape DEF QueueInv, IdInv, QueueTyped
<1>4. /\ batch \in Rows /\ batch.user = syncUser /\ batch.id = nextBatchId
      /\ batch.write = Head(worker).write
  BY <1>2, <1>3 DEF QueueInv, IdInv, QueueTyped, Rows
<1>5. \A r \in rows : r.id < nextBatchId
  BY <1>2 DEF QueueInv, IdInv, OneBatchPerId
<1>6. /\ Head(worker).write \in issued /\ Head(worker).write \notin told
      /\ \A b \in rows : b.write # Head(worker).write
  <2>1. Batches = rows
    BY <1>1 DEF Batches
  <2> QED
    BY <1>1, <2>1, OnceTail DEF QueueInv, QueueTypeOK, WritesOnce
<1>7. OfUser(rows', syncUser) = OfUser(rows, syncUser) \cup {batch}
  BY <1>1, <1>4 DEF OfUser
<1> QED  BY <1>1, <1>2, <1>4, <1>5, <1>6, <1>7

LEMMA QueueWriteMutations ==
    ASSUME QueueInv, WriteMutations
    PROVE  QueueInv'
<1> PICK batch : batch = [user |-> syncUser, id |-> nextBatchId,
                          write |-> Head(worker).write]
  OBVIOUS
<1>1. /\ UNCHANGED <<created, credential, syncUser, applied, issued, mainQueue,
                     restarts, settling, verdict, told>>
      /\ Idle /\ worker # <<>> /\ worker' = Tail(worker)
      /\ Head(worker).type = "write"
  BY DEF WriteMutations
<1>2. /\ batch \in Rows /\ batch.user = syncUser /\ batch.id = nextBatchId
      /\ batch.write = Head(worker).write
      /\ \A r \in rows : r.id < batch.id
      /\ \A r \in rows : r.write # batch.write
      /\ batch.write \in issued /\ batch.write \notin told
      /\ rows' = rows \cup {batch}
      /\ blocks' = blocks \cup {batch}
      /\ pipeline' = FillWritePipeline(pipeline, rows', syncUser)
      /\ OfUser(rows', syncUser) = OfUser(rows, syncUser) \cup {batch}
      /\ syncUser \in Owners
  BY BatchFacts
<1>3. IdInv'
  BY IdInvWriteMutations DEF QueueInv
<1>4. /\ Idle' /\ settling = NoRow /\ settling' = NoRow
      /\ Batches = rows /\ Batches' = rows'
  BY <1>1 DEF Idle, Batches
<1>5. /\ OneId(rows') /\ rows' \in SUBSET Rows
      /\ Waiting' = OfUser(rows', syncUser)
      /\ OfUser(rows', syncUser) \in SUBSET Rows
  <2>1. OneId(rows')
    BY <1>3 DEF IdInv, OneBatchPerId, OneId
  <2>2. rows' \in SUBSET Rows
    BY <1>2, InvFacts
  <2>3. NoRow \notin rows'
    BY <2>2, InvFacts
  <2> QED  BY <1>1, <1>4, <2>1, <2>2, <2>3 DEF Waiting, OfUser
<1>6. FrontOf(pipeline, OfUser(rows', syncUser)) /\ Len(pipeline) <= MaxPendingWrites
  <2>1. /\ FrontOf(pipeline, OfUser(rows, syncUser))
        /\ Len(pipeline) <= MaxPendingWrites
        /\ OfUser(rows, syncUser) \in SUBSET Rows
    BY <1>1, InvFacts DEF QueueInv, PipelineFilled
  <2>2. \A r \in OfUser(rows, syncUser) : r.id < batch.id
    BY <1>2 DEF OfUser
  <2>3. FrontOf(pipeline, OfUser(rows, syncUser) \cup {batch})
    BY <1>2, <2>1, <2>2, FrontGrows
  <2> QED  BY <1>2, <2>1, <2>3
<1>7. /\ FrontOf(pipeline', OfUser(rows', syncUser))
      /\ Len(pipeline') <= MaxPendingWrites
      /\ \/ Len(pipeline') = MaxPendingWrites
         \/ HoldsAll(pipeline', OfUser(rows', syncUser))
  BY <1>2, <1>5, <1>6, FillFront
<1>8. PipelineFilled'
  BY <1>5, <1>7 DEF PipelineFilled
<1>9. HalfHandled' /\ BlocksMeetTheirBatch'
  BY <1>1, <1>2, <1>4
     DEF HalfHandled, QueueInv, BlocksMeetTheirBatch, Outstanding, Idle
<1>10. QueueTypeOK'
  <2>1. pipeline' \in Seq(Rows)
    BY <1>5, <1>7, FrontTyped
  <2>2. worker' \in Seq(Client!Blocks) /\ nextBatchId' \in BatchIds
    BY <1>3 DEF IdInv, QueueTyped
  <2> QED  BY <1>1, <1>2, <1>5, <2>1, <2>2 DEF QueueInv, QueueTypeOK
<1>11. WritesOnce'
  <2>1. Once(Tail(worker), issued, told, rows \cup {batch})
    BY <1>1, <1>2, <1>4, OnceTail DEF QueueInv, QueueTypeOK, WritesOnce
  <2>2. OneWrite(rows')
    BY <1>2, <1>4 DEF QueueInv, WritesOnce, OneWrite
  <2> QED  BY <1>1, <1>2, <1>4, <2>1, <2>2 DEF QueueInv, WritesOnce
<1> QED  BY <1>3, <1>8, <1>9, <1>10, <1>11 DEF QueueInv

(* The head of the pipeline is the oldest batch of the current user.       *)
LEMMA HeadFacts ==
    ASSUME QueueInv, Idle, pipeline # <<>>,
           NEW h, h = Head(pipeline), NEW p, p = Tail(pipeline)
    PROVE  /\ h \in rows /\ h.user = syncUser /\ h \in Rows
           /\ FrontOf(p, OfUser(rows, syncUser) \ {h})
           /\ \A r \in OfUser(rows, syncUser) \ {h} : h.id < r.id
           /\ Len(p) < MaxPendingWrites
           /\ Len(p) \in Nat
           /\ h.id < nextBatchId
           /\ p \in Seq(Rows)
           /\ h # NoRow
           /\ OneId(blocks \cup {h})
           /\ {r \in rows : <<r.user, r.id>> # <<syncUser, h.id>>} = rows \ {h}
           /\ \A r \in rows \ {h} : r.id # h.id
<1>1. /\ FrontOf(pipeline, OfUser(rows, syncUser))
      /\ OfUser(rows, syncUser) \in SUBSET Rows
      /\ Len(pipeline) <= MaxPendingWrites /\ Len(pipeline) \in Nat
  BY InvFacts, FrontLen DEF QueueInv, PipelineFilled
<1>2. /\ h \in OfUser(rows, syncUser)
      /\ FrontOf(p, OfUser(rows, syncUser) \ {h})
      /\ \A r \in OfUser(rows, syncUser) \ {h} : h.id < r.id
      /\ Len(p) = Len(pipeline) - 1
  BY <1>1, FrontTail
<1>3. h \in rows /\ h.user = syncUser /\ h \in Rows
  BY <1>2, InvFacts DEF OfUser
<1>4. Len(p) \in Nat
  BY <1>2, FrontLen
<1>5. Len(p) < MaxPendingWrites
  BY <1>1, <1>2, <1>4, QueueBoundsAssumption
<1>6. h.id < nextBatchId
  <2>1. syncUser # NoEngine
    BY <1>3, QueueNobodyAssumption DEF Rows, Owners
  <2> QED  BY <1>3, <2>1 DEF QueueInv, IdInv, OneBatchPerId
<1>7. p \in Seq(Rows)
  BY <1>1, <1>2, FrontTyped
<1>8. h # NoRow
  BY <1>3, InvFacts
<1>9. OneId(blocks \cup {h})
  <2>1. blocks \subseteq rows
    BY DEF QueueInv, BlocksMeetTheirBatch, Outstanding
  <2> QED  BY <1>3, <2>1, InvFacts DEF OneId
<1>10. {r \in rows : <<r.user, r.id>> # <<syncUser, h.id>>} = rows \ {h}
  BY <1>3, RowRemoved, InvFacts
<1>11. \A r \in rows \ {h} : r.id # h.id
  BY <1>3, InvFacts DEF OneId
<1> QED
  BY <1>2, <1>3, <1>4, <1>5, <1>6, <1>7, <1>8, <1>9, <1>10, <1>11

LEMMA QueueSuccessIsTold ==
    ASSUME QueueInv, SuccessIsTold
    PROVE  QueueInv'
<1> PICK h, p : h = Head(pipeline) /\ p = Tail(pipeline)
  OBVIOUS
<1>1. /\ UNCHANGED <<created, credential, worker, syncUser, applied, issued,
                     restarts, rows, nextBatchId>>
      /\ Idle /\ pipeline # <<>>
      /\ NotifyUser(h, "ok")
      /\ settling' = h /\ verdict' = "ok" /\ pipeline' = p
  BY DEF SuccessIsTold
<1>2. /\ h \in rows /\ h.user = syncUser /\ h \in Rows
      /\ FrontOf(p, OfUser(rows, syncUser) \ {h})
      /\ \A r \in OfUser(rows, syncUser) \ {h} : h.id < r.id
      /\ Len(p) < MaxPendingWrites
      /\ Len(p) \in Nat
      /\ h.id < nextBatchId
      /\ p \in Seq(Rows)
      /\ h # NoRow
      /\ OneId(blocks \cup {h})
  BY <1>1, HeadFacts
<1>3. mainQueue \in Seq(Client!WrittenItems)
  BY DEF QueueInv, QueueTypeOK
<1>4. /\ h \in blocks =>
            /\ mainQueue' = Append(mainQueue, Client!Written(h.write, "ok"))
            /\ told' = told \cup {h.write}
      /\ h \notin blocks => mainQueue' = mainQueue /\ told' = told
      /\ blocks' = blocks \ {h}
  BY <1>1, <1>2, <1>3, NotifyShape
<1>5. /\ ~Idle' /\ Batches = rows /\ Batches' = rows
      /\ Waiting' = OfUser(rows, syncUser) \ {h}
      /\ Outstanding = rows /\ Outstanding' = rows \ {h}
  BY <1>1, <1>2 DEF Idle, Batches, Waiting, Outstanding
<1>6. IdInv'
  BY <1>1, FewerRows DEF QueueInv
<1>7. PipelineFilled'
  BY <1>1, <1>2, <1>5, QueueBoundsAssumption DEF PipelineFilled
<1>8. HalfHandled'
  BY <1>1, <1>2, <1>5 DEF HalfHandled
<1>9. BlocksMeetTheirBatch'
  BY <1>4, <1>5 DEF QueueInv, BlocksMeetTheirBatch
<1>10. QueueTypeOK'
  <2>1. mainQueue' \in Seq(Client!WrittenItems)
    <3>1. Client!Written(h.write, "ok") \in Client!WrittenItems
      BY <1>2, WrittenTyped, RowIds
    <3> QED  BY <1>3, <1>4, <3>1
  <2>2. told' \subseteq Writes /\ blocks' \subseteq Rows
    BY <1>2, <1>4, RowIds DEF QueueInv, QueueTypeOK
  <2> QED  BY <1>1, <1>2, <2>1, <2>2 DEF QueueInv, QueueTypeOK
<1>11. WritesOnce'
  <2>1. \A w \in told' : w \in told \/ \E b \in Batches : b.write = w
    BY <1>2, <1>4, <1>5
  <2>2. Once(worker', issued', told', Batches')
    BY <1>1, <1>5, <2>1, OnceFewer DEF QueueInv, WritesOnce
  <2>3. told' \subseteq issued'
    BY <1>1, <1>2, <1>4, <1>5 DEF QueueInv, WritesOnce
  <2>4. \A b \in blocks' : b.write \notin told'
    BY <1>2, <1>4, <1>5 DEF QueueInv, WritesOnce, BlocksMeetTheirBatch, OneWrite
  <2> QED  BY <1>1, <1>5, <2>2, <2>3, <2>4 DEF QueueInv, WritesOnce
<1> QED  BY <1>6, <1>7, <1>8, <1>9, <1>10, <1>11 DEF QueueInv

LEMMA QueueRejectBatch ==
    ASSUME QueueInv, RejectBatch
    PROVE  QueueInv'
<1> PICK h, p : h = Head(pipeline) /\ p = Tail(pipeline)
  OBVIOUS
<1>1. /\ UNCHANGED <<created, credential, worker, syncUser, applied, issued,
                     mainQueue, restarts, nextBatchId, blocks, told>>
      /\ Idle /\ pipeline # <<>>
      /\ settling' = h /\ verdict' = "failed" /\ pipeline' = p
      /\ rows' = {r \in rows : <<r.user, r.id>> # <<syncUser, h.id>>}
  BY DEF RejectBatch, clientVars
<1>2. /\ h \in rows /\ h.user = syncUser /\ h \in Rows
      /\ FrontOf(p, OfUser(rows, syncUser) \ {h})
      /\ \A r \in OfUser(rows, syncUser) \ {h} : h.id < r.id
      /\ Len(p) < MaxPendingWrites
      /\ Len(p) \in Nat
      /\ h.id < nextBatchId
      /\ p \in Seq(Rows)
      /\ h # NoRow
      /\ \A r \in rows \ {h} : r.id # h.id
  BY <1>1, HeadFacts
<1>3. rows' = rows \ {h}
  BY <1>1, HeadFacts
<1>5. /\ ~Idle' /\ Batches = rows /\ Batches' = rows
      /\ Waiting' = OfUser(rows, syncUser) \ {h}
      /\ Outstanding = rows /\ Outstanding' = rows
  BY <1>1, <1>2, <1>3 DEF Idle, Batches, Waiting, Outstanding, OfUser
<1>6. IdInv'
  BY <1>1, <1>3, FewerRows DEF QueueInv
<1>7. PipelineFilled'
  BY <1>1, <1>2, <1>5, QueueBoundsAssumption DEF PipelineFilled
<1>8. HalfHandled'
  BY <1>1, <1>2, <1>3, <1>5 DEF HalfHandled
<1>9. BlocksMeetTheirBatch'
  BY <1>1, <1>5 DEF QueueInv, BlocksMeetTheirBatch
<1>10. QueueTypeOK'
  BY <1>1, <1>2, <1>3 DEF QueueInv, QueueTypeOK
<1>11. WritesOnce'
  BY <1>1, <1>5 DEF QueueInv, WritesOnce
<1> QED  BY <1>6, <1>7, <1>8, <1>9, <1>10, <1>11 DEF QueueInv

(* The row that is acknowledged goes, and a failed one has gone.           *)
LEMMA SettledFacts ==
    ASSUME QueueInv, ~Idle
    PROVE  /\ settling \in Rows /\ settling.user = syncUser
           /\ FrontOf(pipeline, Waiting) /\ Len(pipeline) < MaxPendingWrites
           /\ Len(pipeline) \in Nat
           /\ verdict = "ok" =>
                 /\ settling \in rows
                 /\ {r \in rows : <<r.user, r.id>> # <<syncUser, settling.id>>}
                        = rows \ {settling}
                 /\ OfUser(rows \ {settling}, syncUser) = Waiting
           /\ verdict # "ok" =>
                 /\ settling \notin rows
                 /\ OfUser(rows, syncUser) = Waiting
                 /\ OneId(blocks \cup {settling})
<1>1. settling \in Rows /\ settling.user = syncUser
  BY InvFacts DEF QueueInv, HalfHandled
<1>2. /\ FrontOf(pipeline, Waiting) /\ Len(pipeline) < MaxPendingWrites
      /\ Len(pipeline) \in Nat
  BY FrontLen DEF QueueInv, PipelineFilled, HalfHandled
<1>3. ASSUME verdict = "ok"
      PROVE  /\ settling \in rows
             /\ {r \in rows : <<r.user, r.id>> # <<syncUser, settling.id>>}
                    = rows \ {settling}
             /\ OfUser(rows \ {settling}, syncUser) = Waiting
  <2>1. settling \in rows
    BY <1>3 DEF QueueInv, HalfHandled
  <2>2. {r \in rows : <<r.user, r.id>> # <<syncUser, settling.id>>}
            = rows \ {settling}
    BY <1>1, <2>1, RowRemoved, InvFacts
  <2>3. OfUser(rows \ {settling}, syncUser) = Waiting
    BY DEF OfUser, Waiting
  <2> QED  BY <2>1, <2>2, <2>3
<1>4. ASSUME verdict # "ok"
      PROVE  /\ settling \notin rows
             /\ OfUser(rows, syncUser) = Waiting
             /\ OneId(blocks \cup {settling})
  <2>1. settling \notin rows
    BY <1>4 DEF QueueInv, HalfHandled
  <2>2. OfUser(rows, syncUser) = Waiting
    BY <2>1 DEF OfUser, Waiting
  <2>3. blocks \cup {settling} \subseteq Batches
    BY <1>4 DEF QueueInv, BlocksMeetTheirBatch, Outstanding, Batches
  <2>4. OneId(blocks \cup {settling})
    BY <2>3, InvFacts DEF OneId
  <2> QED  BY <2>1, <2>2, <2>4
<1> QED  BY <1>1, <1>2, <1>3, <1>4

LEMMA QueueAcknowledgeBatch ==
    ASSUME QueueInv, AcknowledgeBatch
    PROVE  QueueInv'
<1>1. /\ UNCHANGED <<created, credential, worker, syncUser, applied, issued,
                     mainQueue, restarts, nextBatchId, blocks, verdict, told>>
      /\ ~Idle /\ verdict = "ok"
      /\ settling' = NoRow
      /\ rows' = {r \in rows : <<r.user, r.id>> # <<syncUser, settling.id>>}
      /\ pipeline' = FillWritePipeline(pipeline, rows', syncUser)
  BY DEF AcknowledgeBatch, clientVars, Idle
<1>2. /\ settling \in Rows /\ settling.user = syncUser
      /\ FrontOf(pipeline, Waiting) /\ Len(pipeline) < MaxPendingWrites
      /\ Len(pipeline) \in Nat
      /\ settling \in rows
      /\ rows' = rows \ {settling}
      /\ OfUser(rows', syncUser) = Waiting
  BY <1>1, SettledFacts
<1>3. /\ OneId(rows') /\ rows' \in SUBSET Rows /\ rows' \subseteq rows
  BY <1>2, InvFacts DEF OneId
<1>4. /\ Idle' /\ Batches = rows /\ Batches' = rows'
      /\ Outstanding = rows' /\ Outstanding' = rows'
      /\ Waiting' = OfUser(rows', syncUser)
  <2>1. NoRow \notin rows'
    BY <1>3, InvFacts
  <2> QED  BY <1>1, <1>2, <2>1 DEF Idle, Batches, Waiting, Outstanding, OfUser
<1>5. /\ FrontOf(pipeline', OfUser(rows', syncUser))
      /\ Len(pipeline') <= MaxPendingWrites
      /\ \/ Len(pipeline') = MaxPendingWrites
         \/ HoldsAll(pipeline', OfUser(rows', syncUser))
  <2>1. FrontOf(pipeline, OfUser(rows', syncUser)) /\ Len(pipeline) <= MaxPendingWrites
    BY <1>2, QueueBoundsAssumption
  <2> QED  BY <1>1, <1>3, <2>1, FillFront
<1>6. IdInv'
  BY <1>1, <1>3, FewerRows DEF QueueInv
<1>7. PipelineFilled'
  BY <1>4, <1>5 DEF PipelineFilled
<1>8. HalfHandled' /\ BlocksMeetTheirBatch'
  BY <1>1, <1>4 DEF HalfHandled, QueueInv, BlocksMeetTheirBatch
<1>9. QueueTypeOK'
  <2>1. pipeline' \in Seq(Rows)
    <3>1. OfUser(rows', syncUser) \in SUBSET Rows
      BY <1>3 DEF OfUser
    <3> QED  BY <1>5, <3>1, FrontTyped
  <2> QED  BY <1>1, <1>3, <2>1 DEF QueueInv, QueueTypeOK
<1>10. WritesOnce'
  <2>1. Once(worker', issued', told', Batches')
    BY <1>1, <1>3, <1>4, OnceFewer DEF QueueInv, WritesOnce
  <2>2. OneWrite(Batches')
    BY <1>3, <1>4 DEF QueueInv, WritesOnce, OneWrite
  <2> QED  BY <1>1, <1>3, <1>4, <2>1, <2>2 DEF QueueInv, WritesOnce
<1> QED  BY <1>6, <1>7, <1>8, <1>9, <1>10 DEF QueueInv

LEMMA QueueFailureIsTold ==
    ASSUME QueueInv, FailureIsTold
    PROVE  QueueInv'
<1> PICK h : h = settling
  OBVIOUS
<1>1. /\ UNCHANGED <<created, credential, worker, syncUser, applied, issued,
                     restarts, rows, nextBatchId, verdict>>
      /\ ~Idle /\ verdict # "ok" /\ verdict = "failed"
      /\ NotifyUser(h, "failed")
      /\ settling' = NoRow
      /\ pipeline' = FillWritePipeline(pipeline, rows, syncUser)
  BY DEF FailureIsTold, Idle
<1>2. /\ h \in Rows /\ h.user = syncUser
      /\ FrontOf(pipeline, Waiting) /\ Len(pipeline) < MaxPendingWrites
      /\ Len(pipeline) \in Nat
      /\ h \notin rows
      /\ OfUser(rows, syncUser) = Waiting
      /\ OneId(blocks \cup {h})
  BY <1>1, SettledFacts
<1>3. mainQueue \in Seq(Client!WrittenItems)
  BY DEF QueueInv, QueueTypeOK
<1>4. /\ h \in blocks =>
            /\ mainQueue' = Append(mainQueue, Client!Written(h.write, "failed"))
            /\ told' = told \cup {h.write}
      /\ h \notin blocks => mainQueue' = mainQueue /\ told' = told
      /\ blocks' = blocks \ {h}
  BY <1>1, <1>2, <1>3, NotifyShape
<1>5. /\ Idle' /\ Batches = rows \cup {h} /\ Batches' = rows
      /\ Outstanding = rows \cup {h} /\ Outstanding' = rows
      /\ Waiting' = OfUser(rows, syncUser)
  <2>1. NoRow \notin rows
    BY InvFacts
  <2> QED  BY <1>1, <1>2, <2>1 DEF Idle, Batches, Waiting, Outstanding, OfUser
<1>6. /\ FrontOf(pipeline', OfUser(rows, syncUser))
      /\ Len(pipeline') <= MaxPendingWrites
      /\ \/ Len(pipeline') = MaxPendingWrites
         \/ HoldsAll(pipeline', OfUser(rows, syncUser))
  <2>1. FrontOf(pipeline, OfUser(rows, syncUser)) /\ Len(pipeline) <= MaxPendingWrites
    BY <1>2, QueueBoundsAssumption
  <2> QED  BY <1>1, <2>1, InvFacts, FillFront
<1>7. IdInv'
  BY <1>1, FewerRows DEF QueueInv
<1>8. PipelineFilled'
  BY <1>5, <1>6 DEF PipelineFilled
<1>9. HalfHandled' /\ BlocksMeetTheirBatch'
  BY <1>1, <1>4, <1>5 DEF HalfHandled, QueueInv, BlocksMeetTheirBatch
<1>10. QueueTypeOK'
  <2>1. pipeline' \in Seq(Rows)
    BY <1>6, InvFacts, FrontTyped
  <2>2. mainQueue' \in Seq(Client!WrittenItems)
    <3>1. Client!Written(h.write, "failed") \in Client!WrittenItems
      BY <1>2, WrittenTyped, RowIds
    <3> QED  BY <1>3, <1>4, <3>1
  <2>3. told' \subseteq Writes /\ blocks' \subseteq Rows
    BY <1>2, <1>4, RowIds DEF QueueInv, QueueTypeOK
  <2> QED  BY <1>1, <2>1, <2>2, <2>3 DEF QueueInv, QueueTypeOK
<1>11. WritesOnce'
  <2>1. \A w \in told' : w \in told \/ \E b \in Batches : b.write = w
    BY <1>4, <1>5
  <2>2. Once(worker', issued', told', Batches')
    BY <1>1, <1>5, <2>1, OnceFewer DEF QueueInv, WritesOnce
  <2>3. told' \subseteq issued' /\ \A b \in Batches' : b.write \in issued'
    BY <1>1, <1>4, <1>5 DEF QueueInv, WritesOnce
  <2>4. \A b \in blocks' : b.write \notin told'
    BY <1>4, <1>5 DEF QueueInv, WritesOnce, BlocksMeetTheirBatch, OneWrite
  <2>5. OneWrite(Batches')
    BY <1>5 DEF QueueInv, WritesOnce, OneWrite
  <2> QED  BY <2>2, <2>3, <2>4, <2>5 DEF WritesOnce
<1> QED  BY <1>7, <1>8, <1>9, <1>10, <1>11 DEF QueueInv

LEMMA QueueProcessDies ==
    ASSUME QueueInv, ProcessDies
    PROVE  QueueInv'
<1>1. /\ UNCHANGED <<applied, issued, rows, verdict, told>>
      /\ restarts < MaxRestarts /\ restarts' = restarts + 1
      /\ created' = FALSE /\ credential' = NoUser /\ worker' = <<>>
      /\ syncUser' = NoEngine /\ mainQueue' = <<>> /\ nextBatchId' = 1
      /\ blocks' = {} /\ pipeline' = <<>> /\ settling' = NoRow
  BY DEF ProcessDies
<1>2. IdInv'
  <2>1. ProcessDies => [QueueNext]_queueVars
    BY DEF QueueNext
  <2> QED  BY <2>1, IdInvStep DEF QueueInv
<1>3. /\ Idle' /\ Batches' = rows /\ Batches' \subseteq Batches
      /\ Outstanding' = rows
  BY <1>1 DEF Idle, Batches, Outstanding
<1>4. Waiting' = {}
  BY <1>1, InvFacts DEF Waiting, OfUser, Rows
<1>5. PipelineFilled'
  <2>1. HoldsAll(pipeline', {}) /\ Len(pipeline') = 0
    BY <1>1 DEF HoldsAll
  <2>2. FrontOf(pipeline', {})
    BY <1>1, NothingWaits
  <2> QED  BY <1>4, <2>1, <2>2, QueueBoundsAssumption DEF PipelineFilled
<1>6. HalfHandled' /\ BlocksMeetTheirBatch'
  BY <1>1, <1>3 DEF HalfHandled, BlocksMeetTheirBatch
<1>7. QueueTypeOK'
  <2>1. /\ worker' \in Seq(Client!Blocks) /\ mainQueue' \in Seq(Client!WrittenItems)
        /\ pipeline' \in Seq(Rows)
    BY <1>1
  <2>2. restarts' \in 0 .. MaxRestarts
    BY <1>1, QueueBoundsAssumption DEF QueueInv, QueueTypeOK
  <2>3. nextBatchId' \in BatchIds
    BY <1>1 DEF BatchIds
  <2> QED
    BY <1>1, <2>1, <2>2, <2>3 DEF QueueInv, QueueTypeOK, Owners
<1>8. WritesOnce'
  <2>1. Once(worker', issued', told', Batches')
    BY <1>1 DEF Once
  <2>2. OneWrite(Batches')
    BY <1>3 DEF QueueInv, WritesOnce, OneWrite
  <2> QED  BY <1>1, <1>3, <2>1, <2>2 DEF QueueInv, WritesOnce
<1> QED  BY <1>2, <1>5, <1>6, <1>7, <1>8 DEF QueueInv

LEMMA QueueStutters ==
    ASSUME QueueInv, UNCHANGED queueVars
    PROVE  QueueInv'
<1>1. applied' \subseteq Writes /\ mainQueue' \in Seq(Client!WrittenItems)
  BY DEF QueueInv, QueueTypeOK, queueVars, clientVars
<1> QED
  BY <1>1, QueueElsewhere DEF queueVars, clientVars, rowVars

LEMMA QueueStep == QueueInv /\ [QueueNext]_queueVars => QueueInv'
<1> SUFFICES ASSUME QueueInv, [QueueNext]_queueVars PROVE QueueInv'
  OBVIOUS
<1>1. ASSUME NEW w \in Writes, NEW u \in Owners, AppSetsData(w, u) PROVE QueueInv'
  BY <1>1, QueueSetData
<1>2. ASSUME NEW u \in Owners, UserChanges(u) PROVE QueueInv'
  BY <1>2, QueueUserChanges
<1>3. CASE CompletionRuns
  BY <1>3, QueueCompletionRuns
<1>4. ASSUME NEW i \in DOMAIN pipeline, BackendApplies(i) PROVE QueueInv'
  BY <1>4, QueueBackendApplies
<1>5. CASE HandleCredential
  BY <1>5, QueueHandleCredential
<1>6. CASE WriteMutations
  BY <1>6, QueueWriteMutations
<1>7. CASE SuccessIsTold
  BY <1>7, QueueSuccessIsTold
<1>8. CASE AcknowledgeBatch
  BY <1>8, QueueAcknowledgeBatch
<1>9. CASE RejectBatch
  BY <1>9, QueueRejectBatch
<1>10. CASE FailureIsTold
  BY <1>10, QueueFailureIsTold
<1>11. CASE ProcessDies
  BY <1>11, QueueProcessDies
<1>12. CASE UNCHANGED queueVars
  BY <1>12, QueueStutters
<1> QED
  BY <1>1, <1>2, <1>3, <1>4, <1>5, <1>6, <1>7, <1>8, <1>9, <1>10, <1>11, <1>12,
     Zenon DEF QueueNext

LEMMA QueueStarts == QueueInit => QueueInv
<1> SUFFICES ASSUME QueueInit PROVE QueueInv
  OBVIOUS
<1>1. IdInv
  BY IdInvInit
<1>2. /\ created = FALSE /\ credential = NoUser /\ worker = <<>>
      /\ syncUser = NoEngine /\ applied = {} /\ issued = {} /\ mainQueue = <<>>
      /\ restarts = 0 /\ rows = {} /\ nextBatchId = 1 /\ blocks = {}
      /\ pipeline = <<>> /\ settling = NoRow /\ verdict = "ok" /\ told = {}
  BY DEF QueueInit
<1>3. QueueTypeOK
  <2>1. /\ worker \in Seq(Client!Blocks) /\ mainQueue \in Seq(Client!WrittenItems)
        /\ pipeline \in Seq(Rows)
    BY <1>2
  <2>2. restarts \in 0 .. MaxRestarts /\ nextBatchId \in BatchIds
    BY <1>2, QueueBoundsAssumption DEF BatchIds
  <2> QED  BY <1>2, <2>1, <2>2 DEF QueueTypeOK, Owners
<1>4. Idle /\ Batches = {} /\ Waiting = {}
  BY <1>2 DEF Idle, Batches, Waiting, OfUser
<1>5. PipelineFilled
  <2>1. HoldsAll(pipeline, {}) /\ Len(pipeline) = 0
    BY <1>2 DEF HoldsAll
  <2>2. FrontOf(pipeline, {})
    BY <1>2, NothingWaits
  <2> QED  BY <1>4, <2>1, <2>2, QueueBoundsAssumption DEF PipelineFilled
<1>6. HalfHandled /\ BlocksMeetTheirBatch
  BY <1>2, <1>4 DEF HalfHandled, BlocksMeetTheirBatch
<1>7. WritesOnce
  <2>1. Once(worker, issued, told, Batches)
    BY <1>2 DEF Once
  <2> QED  BY <1>2, <1>4, <2>1 DEF WritesOnce, OneWrite
<1> QED  BY <1>1, <1>3, <1>5, <1>6, <1>7 DEF QueueInv

(* QueueInv, which the theorems below rest on, always holds.               *)
THEOREM QueueInvariant == QueueSpec => []QueueInv
BY QueueStarts, QueueStep, PTL DEF QueueSpec

-----------------------------------------------------------------------------
(* What follows from it                                                    *)

LEMMA WaitingInOrder ==
    ASSUME QueueInv
    PROVE  Sorted(Current, Waiting)
<1>1. {r \in Outstanding : r.user = syncUser} \ {settling} = Waiting
  BY DEF Outstanding, Waiting, OfUser
<1>2. Waiting \in SUBSET Rows /\ OneId(Waiting) /\ Bounded(Waiting)
  BY InvFacts DEF Waiting, OfUser, OneId, QueueInv, IdInv, QueueTyped, Bounded
<1> QED  BY <1>1, <1>2, InOrderSorted DEF Current

LEMMA PipelineInFront ==
    ASSUME QueueInv
    PROVE  PipelineIsFront
<1> PICK c : c = Current
  OBVIOUS
<1>1. Sorted(c, Waiting) /\ Waiting \in SUBSET Rows /\ FrontOf(pipeline, Waiting)
  BY WaitingInOrder, InvFacts DEF QueueInv, PipelineFilled
<1>2. /\ pipeline \in Seq(Rows) /\ c \in Seq(Rows)
      /\ Len(pipeline) \in Nat /\ Len(c) \in Nat
  BY <1>1, FrontTyped, SortedIsFront, FrontLen
<1>3. Len(pipeline) <= Len(c) /\ \A i \in 1 .. Len(pipeline) : pipeline[i] = c[i]
  BY <1>1, FrontsAgree
<1>4. IsPrefix(pipeline, c)
  <2>1. SubSeq(pipeline, 1, Len(pipeline)) = SubSeq(c, 1, Len(pipeline))
    BY <1>2, <1>3
  <2> QED  BY <1>3, <2>1 DEF IsPrefix
<1>5. ASSUME Idle PROVE Len(pipeline) = Min({Len(c), MaxPendingWrites})
  <2>1. /\ Len(pipeline) <= MaxPendingWrites
        /\ Len(pipeline) = MaxPendingWrites \/ HoldsAll(pipeline, Waiting)
    BY <1>5 DEF QueueInv, PipelineFilled
  <2>2. HoldsAll(pipeline, Waiting) => pipeline = c
    <3> SUFFICES ASSUME HoldsAll(pipeline, Waiting) PROVE pipeline = c
      OBVIOUS
    <3>1. Sorted(pipeline, Waiting)
      BY <1>1 DEF Sorted, FrontOf
    <3> QED  BY <1>1, <3>1, SortedOnce
  <2>3. /\ Len(pipeline) \in {Len(c), MaxPendingWrites}
        /\ \A n \in {Len(c), MaxPendingWrites} : Len(pipeline) <= n
    BY <1>3, <2>1, <2>2
  <2>4. \A n \in {Len(c), MaxPendingWrites} :
            (\A m \in {Len(c), MaxPendingWrites} : n <= m) => n = Len(pipeline)
    BY <1>2, <2>3, QueueBoundsAssumption
  <2> QED  BY <2>3, <2>4 DEF Min
<1>6. settling # NoRow /\ verdict = "ok" => settling \in rows
  BY DEF QueueInv, HalfHandled, Idle
<1> QED  BY <1>4, <1>5, <1>6 DEF PipelineIsFront

LEMMA TellsNew ==
    ASSUME NEW batch, NEW answer, NotifyUser(batch, answer),
           OneId(blocks \cup {batch}), batch.user = syncUser, QueueInv
    PROVE  \A i \in DOMAIN mainQueue' :
               i > Len(mainQueue) => mainQueue'[i].write \notin told
<1>1. mainQueue \in Seq(Client!WrittenItems)
  BY DEF QueueInv, QueueTypeOK
<1>2. /\ batch \in blocks => mainQueue' = Append(mainQueue,
                                        Client!Written(batch.write, answer))
      /\ batch \notin blocks => mainQueue' = mainQueue
  BY <1>1, NotifyShape
<1>3. batch \in blocks => batch.write \notin told
  BY DEF QueueInv, WritesOnce
<1>4. Client!Written(batch.write, answer).write = batch.write
  BY DEF Client!Written
<1>5. CASE batch \in blocks
  <2> DEFINE m == Client!Written(batch.write, answer)
             q == Append(mainQueue, m)
  <2>1. /\ DOMAIN q = 1 .. Len(mainQueue) + 1 /\ Len(mainQueue) \in Nat
        /\ q[Len(mainQueue) + 1] = m
    BY <1>1
  <2> HIDE DEF m, q
  <2>2. ASSUME NEW i \in DOMAIN q, i > Len(mainQueue) PROVE q[i] = m
    <3>1. i = Len(mainQueue) + 1
      BY <2>1, <2>2
    <3> QED  BY <2>1, <3>1
  <2>3. m.write \notin told /\ mainQueue' = q
    BY <1>2, <1>3, <1>4, <1>5 DEF m, q
  <2> QED  BY <2>2, <2>3
<1>6. CASE batch \notin blocks
  BY <1>1, <1>2, <1>6
<1> QED  BY <1>5, <1>6

LEMMA TellsNothing ==
    ASSUME QueueInv, \/ mainQueue' = mainQueue
                     \/ mainQueue' = <<>>
                     \/ mainQueue # <<>> /\ mainQueue' = Tail(mainQueue)
    PROVE  \A i \in DOMAIN mainQueue' : ~(i > Len(mainQueue))
<1>1. mainQueue \in Seq(Client!WrittenItems)
  BY DEF QueueInv, QueueTypeOK
<1>2. CASE mainQueue' = mainQueue \/ mainQueue' = <<>>
  BY <1>1, <1>2
<1>3. CASE mainQueue # <<>> /\ mainQueue' = Tail(mainQueue)
  BY <1>1, <1>3
<1> QED  BY <1>2, <1>3

LEMMA ToldOnceStep ==
    QueueInv /\ [QueueNext]_queueVars
        => [\A i \in DOMAIN mainQueue' :
               i > Len(mainQueue) => mainQueue'[i].write \notin told]_queueVars
<1> SUFFICES ASSUME QueueInv, QueueNext
             PROVE  \A i \in DOMAIN mainQueue' :
                       i > Len(mainQueue) => mainQueue'[i].write \notin told
  OBVIOUS
<1>1. CASE SuccessIsTold
  <2> PICK h, p : h = Head(pipeline) /\ p = Tail(pipeline)
    OBVIOUS
  <2>1. Idle /\ pipeline # <<>> /\ NotifyUser(h, "ok")
    BY <1>1 DEF SuccessIsTold
  <2>2. OneId(blocks \cup {h}) /\ h.user = syncUser
    BY <2>1, HeadFacts
  <2> QED  BY <2>1, <2>2, TellsNew
<1>2. CASE FailureIsTold
  <2> PICK h : h = settling
    OBVIOUS
  <2>1. ~Idle /\ verdict # "ok" /\ NotifyUser(h, "failed")
    BY <1>2 DEF FailureIsTold, Idle
  <2>2. OneId(blocks \cup {h}) /\ h.user = syncUser
    BY <2>1, SettledFacts
  <2> QED  BY <2>1, <2>2, TellsNew
<1>3. ASSUME NEW w \in Writes, NEW u \in Owners, AppSetsData(w, u)
      PROVE  mainQueue' = mainQueue
  BY <1>3 DEF AppSetsData
<1>4. ASSUME NEW u \in Owners, UserChanges(u) PROVE mainQueue' = mainQueue
  BY <1>4 DEF UserChanges
<1>5. ASSUME CompletionRuns PROVE mainQueue # <<>> /\ mainQueue' = Tail(mainQueue)
  BY <1>5 DEF CompletionRuns, Client!DeliverWritten
<1>6. ASSUME NEW i \in DOMAIN pipeline, BackendApplies(i)
      PROVE  mainQueue' = mainQueue
  BY <1>6 DEF BackendApplies
<1>7. CASE HandleCredential \/ WriteMutations
  BY <1>7, TellsNothing DEF HandleCredential, WriteMutations
<1>8. CASE AcknowledgeBatch \/ RejectBatch
  BY <1>8, TellsNothing DEF AcknowledgeBatch, RejectBatch, clientVars
<1>9. CASE ProcessDies
  BY <1>9, TellsNothing DEF ProcessDies
<1> QED
  BY <1>1, <1>2, <1>3, <1>4, <1>5, <1>6, <1>7, <1>8, <1>9, TellsNothing, Zenon
     DEF QueueNext

(* A completion block is called at most once, over restarts that send its  *)
(* batch again (SyncEngine::NotifyUser).                                   *)
THEOREM BlocksAreToldOnce == QueueSpec => ToldOnce
BY ToldOnceStep, QueueInvariant, PTL DEF QueueSpec, ToldOnce

-----------------------------------------------------------------------------
(* The queues as FirestoreClient has them                                  *)

QueueOf(rs, u) == WritesOf(InOrder({r \in rs : r.user = u}))
BlocksOf(bs, u) == {b.write : b \in {r \in bs : r.user = u}}
ClientQueues == [u \in Owners |-> QueueOf(Outstanding, u)]
ClientBlocks == [u \in Owners |-> BlocksOf(blocks, u)]

LEMMA WritesShape ==
    ASSUME NEW q \in Seq(Rows)
    PROVE  /\ WritesOf(q) \in Seq(Writes)
           /\ Len(WritesOf(q)) = Len(q)
           /\ \A i \in 1 .. Len(q) : WritesOf(q)[i] = q[i].write
           /\ q = <<>> => WritesOf(q) = <<>>
           /\ q # <<>> => /\ WritesOf(q) # <<>>
                          /\ Head(WritesOf(q)) = Head(q).write
<1>1. /\ Len(q) \in Nat /\ DOMAIN q = 1 .. Len(q)
      /\ \A i \in 1 .. Len(q) : q[i].write \in Writes
  BY RowIds
<1>2. PICK p : p = [i \in 1 .. Len(q) |-> q[i].write]
  OBVIOUS
<1>3. p \in Seq(Writes) /\ Len(p) = Len(q) /\ \A i \in 1 .. Len(q) : p[i] = q[i].write
  BY <1>1, <1>2
<1>4. WritesOf(q) = p
  BY <1>1, <1>2 DEF WritesOf
<1>5. q = <<>> => p = <<>>
  BY <1>3
<1>6. q # <<>> => p # <<>> /\ Head(p) = Head(q).write
  <2>1. ASSUME q # <<>> PROVE p # <<>> /\ Head(p) = Head(q).write
    <3>1. Len(q) # 0 /\ Head(q) = q[1] /\ 1 \in 1 .. Len(q)
      BY <1>1, <2>1
    <3>2. p # <<>> /\ Head(p) = p[1]
      BY <1>3, <3>1
    <3> QED  BY <1>3, <3>1, <3>2
  <2> QED  BY <2>1
<1> QED  BY <1>3, <1>4, <1>5, <1>6

LEMMA WritesAppend ==
    ASSUME NEW q \in Seq(Rows), NEW r \in Rows
    PROVE  WritesOf(Append(q, r)) = Append(WritesOf(q), r.write)
<1>1. PICK p, a, b : /\ p = Append(q, r) /\ a = WritesOf(p)
                     /\ b = Append(WritesOf(q), r.write)
  OBVIOUS
<1>2. /\ p \in Seq(Rows) /\ Len(p) = Len(q) + 1 /\ Len(q) \in Nat
      /\ \A i \in 1 .. Len(q) : p[i] = q[i]
      /\ p[Len(q) + 1] = r
  BY <1>1
<1>3. /\ a \in Seq(Writes) /\ Len(a) = Len(p)
      /\ \A i \in 1 .. Len(p) : a[i] = p[i].write
  BY <1>1, <1>2, WritesShape
<1>4. /\ b \in Seq(Writes) /\ Len(b) = Len(q) + 1
      /\ \A i \in 1 .. Len(q) : b[i] = q[i].write
      /\ b[Len(q) + 1] = r.write
  BY <1>1, WritesShape, RowIds
<1>5. \A i \in 1 .. Len(q) + 1 : a[i] = b[i]
  BY <1>2, <1>3, <1>4
<1>6. a = b
  BY <1>2, <1>3, <1>4, <1>5
<1> QED  BY <1>1, <1>6

LEMMA WritesTail ==
    ASSUME NEW q \in Seq(Rows), q # <<>>
    PROVE  WritesOf(Tail(q)) = Tail(WritesOf(q))
<1>1. PICK p, a, b : /\ p = Tail(q) /\ a = WritesOf(p)
                     /\ b = Tail(WritesOf(q))
  OBVIOUS
<1>2. /\ p \in Seq(Rows) /\ Len(p) = Len(q) - 1 /\ Len(q) \in Nat /\ Len(q) # 0
      /\ \A i \in 1 .. Len(p) : p[i] = q[i + 1]
  BY <1>1
<1>3. /\ a \in Seq(Writes) /\ Len(a) = Len(p)
      /\ \A i \in 1 .. Len(p) : a[i] = p[i].write
  BY <1>1, <1>2, WritesShape
<1>4. /\ b \in Seq(Writes) /\ Len(b) = Len(q) - 1
      /\ \A i \in 1 .. Len(p) : b[i] = q[i + 1].write
  <2>1. PICK w : w = WritesOf(q)
    OBVIOUS
  <2>2. /\ w \in Seq(Writes) /\ Len(w) = Len(q) /\ w # <<>>
        /\ \A i \in 1 .. Len(q) : w[i] = q[i].write
    BY <2>1, WritesShape
  <2>3. /\ b \in Seq(Writes) /\ Len(b) = Len(q) - 1
        /\ \A i \in 1 .. Len(p) : b[i] = w[i + 1]
    BY <1>1, <1>2, <2>1, <2>2
  <2>4. \A i \in 1 .. Len(p) : i + 1 \in 1 .. Len(q)
    BY <1>2
  <2> QED  BY <2>2, <2>3, <2>4
<1>5. a = b
  BY <1>2, <1>3, <1>4
<1> QED  BY <1>1, <1>5

(* A batch above all others goes to the end of its user's queue, and the   *)
(* one below all others is its head.                                       *)
LEMMA QueueAppends ==
    ASSUME NEW rs \in SUBSET Rows, OneId(rs), Bounded(rs), NEW r \in Rows,
           \A s \in rs : s.id < r.id
    PROVE  WritesOf(InOrder(rs \cup {r})) = Append(WritesOf(InOrder(rs)), r.write)
<1>1. PICK q, p : q = InOrder(rs) /\ p = InOrder(rs \cup {r})
  OBVIOUS
<1>2. Sorted(q, rs) /\ q \in Seq(Rows)
  BY <1>1, InOrderSorted, SortedIsFront, FrontTyped
<1>3. Sorted(Append(q, r), rs \cup {r})
  BY <1>2, SortedAppend
<1>4. /\ rs \cup {r} \in SUBSET Rows /\ OneId(rs \cup {r}) /\ Bounded(rs \cup {r})
  <2>1. \A s \in rs : s.id \in Nat /\ r.id \in Nat
    BY RowIds
  <2>2. OneId(rs \cup {r})
    BY <2>1 DEF OneId
  <2>3. r.id \in Nat /\ \A s \in rs \cup {r} : s.id <= r.id
    BY <2>1, RowIds
  <2> QED  BY <2>2, <2>3 DEF Bounded
<1>5. Sorted(p, rs \cup {r})
  BY <1>1, <1>4, InOrderSorted
<1>6. p = Append(q, r)
  BY <1>3, <1>4, <1>5, SortedOnce
<1> QED  BY <1>1, <1>2, <1>6, WritesAppend

LEMMA QueueTails ==
    ASSUME NEW rs \in SUBSET Rows, OneId(rs), Bounded(rs), NEW h \in rs,
           \A s \in rs \ {h} : h.id < s.id
    PROVE  /\ WritesOf(InOrder(rs)) # <<>>
           /\ Head(WritesOf(InOrder(rs))) = h.write
           /\ WritesOf(InOrder(rs \ {h})) = Tail(WritesOf(InOrder(rs)))
<1>1. PICK q, p : q = InOrder(rs) /\ p = InOrder(rs \ {h})
  OBVIOUS
<1>2. Sorted(q, rs) /\ FrontOf(q, rs) /\ q \in Seq(Rows)
  BY <1>1, InOrderSorted, SortedIsFront, FrontTyped
<1>3. q # <<>>
  <2>1. \E i \in 1 .. Len(q) : q[i] = h
    BY <1>2 DEF Sorted, HoldsAll, Holds
  <2> QED  BY <2>1
<1>4. Head(q) = h
  <2>1. Head(q) \in rs /\ \A r \in rs \ {Head(q)} : Head(q).id < r.id
    BY <1>2, <1>3, FrontTail
  <2> QED  BY <2>1, RowIds
<1>5. Sorted(Tail(q), rs \ {h})
  BY <1>2, <1>3, <1>4, SortedTail
<1>6. rs \ {h} \in SUBSET Rows /\ OneId(rs \ {h}) /\ Bounded(rs \ {h})
  BY DEF OneId, Bounded
<1>7. Sorted(p, rs \ {h})
  BY <1>1, <1>6, InOrderSorted
<1>8. p = Tail(q)
  BY <1>5, <1>6, <1>7, SortedOnce
<1>9. WritesOf(q) # <<>> /\ Head(WritesOf(q)) = h.write
  BY <1>2, <1>3, <1>4, WritesShape
<1> QED  BY <1>1, <1>2, <1>3, <1>8, <1>9, WritesTail

LEMMA OutstandingFacts ==
    ASSUME QueueInv
    PROVE  /\ Outstanding \in SUBSET Rows /\ OneId(Outstanding)
           /\ Bounded(Outstanding) /\ OneWrite(Outstanding)
           /\ \A u : /\ OfUser(Outstanding, u) \in SUBSET Rows
                     /\ OneId(OfUser(Outstanding, u))
                     /\ Bounded(OfUser(Outstanding, u))
<1>1. Outstanding \subseteq Batches
  BY DEF Outstanding, Batches
<1>2. Outstanding \in SUBSET Rows /\ OneId(Outstanding) /\ OneWrite(Outstanding)
  BY <1>1, InvFacts DEF OneId, OneWrite, QueueInv, WritesOnce
<1>3. Bounded(Outstanding)
  <2>1. PICK n \in Nat : \A r \in rows : r.id <= n
    BY DEF QueueInv, IdInv, QueueTyped, Bounded
  <2>2. CASE Idle
    BY <2>1, <2>2 DEF Outstanding, Bounded
  <2>3. CASE ~Idle
    <3>1. settling \in Rows /\ settling.id \in Nat
      BY <2>3, InvFacts, RowIds
    <3>2. n + settling.id \in Nat
      BY <3>1
    <3>3. \A r \in rows : r.id <= n + settling.id
      BY <2>1, <3>1, InvFacts, RowIds
    <3>4. \A r \in Outstanding : r.id <= n + settling.id
      BY <3>1, <3>3 DEF Outstanding
    <3> QED  BY <3>2, <3>4 DEF Bounded
  <2> QED  BY <2>2, <2>3
<1>4. ASSUME NEW u
      PROVE  /\ OfUser(Outstanding, u) \in SUBSET Rows
             /\ OneId(OfUser(Outstanding, u))
             /\ Bounded(OfUser(Outstanding, u))
  BY <1>2, <1>3 DEF OfUser, OneId, Bounded
<1> QED  BY <1>2, <1>3, <1>4

-----------------------------------------------------------------------------
(* Every step is one of FirestoreClient's                                  *)

LEMMA OwnersAgree == Client!Owners = Owners
BY DEF Client!Owners, Owners

LEMMA ClientSees ==
    ASSUME UNCHANGED <<rows, settling, verdict, blocks>>
    PROVE  ClientQueues' = ClientQueues /\ ClientBlocks' = ClientBlocks
BY DEF ClientQueues, ClientBlocks, Outstanding, Idle

LEMMA ClientStarts == QueueInit => Client!StoreInit
<1> SUFFICES ASSUME QueueInit PROVE Client!StoreInit
  OBVIOUS
<1>1. ASSUME NEW u \in Owners
      PROVE  QueueOf(Outstanding, u) = <<>> /\ BlocksOf(blocks, u) = {}
  <2>1. {r \in Outstanding : r.user = u} = {} /\ blocks = {}
    BY DEF QueueInit, Outstanding, Idle
  <2>2. OneId({}) /\ Bounded({})
    BY DEF OneId, Bounded
  <2>3. InOrder({}) = <<>>
    <3>1. Sorted(InOrder({}), {})
      BY <2>2, InOrderSorted
    <3> QED  BY <3>1 DEF Sorted
  <2>4. WritesOf(<<>>) = <<>>
    <3>1. <<>> \in Seq(Rows)
      OBVIOUS
    <3> QED  BY <3>1, WritesShape
  <2> QED  BY <2>1, <2>3, <2>4 DEF QueueOf, BlocksOf
<1>2. ClientQueues = [u \in Owners |-> <<>>] /\ ClientBlocks = [u \in Owners |-> {}]
  BY <1>1 DEF ClientQueues, ClientBlocks
<1> QED
  BY <1>2, OwnersAgree
     DEF QueueInit, Client!StoreInit, ClientQueues, ClientBlocks, QueueOf, BlocksOf

LEMMA ClientSetsData ==
    ASSUME NEW w \in Writes, NEW u \in Owners, AppSetsData(w, u)
    PROVE  Client!StoreNext
<1>1. Client!SetData(w, u) /\ UNCHANGED mainQueue
  BY DEF AppSetsData
<1> QED  BY <1>1, OwnersAgree, Zenon DEF Client!StoreNext

LEMMA ClientUserChanges ==
    ASSUME NEW u \in Owners, UserChanges(u)
    PROVE  Client!StoreNext
<1>1. Client!CredentialChanges(u) /\ UNCHANGED mainQueue /\ Len(worker) < MaxQueued
  BY DEF UserChanges
<1> QED  BY <1>1, OwnersAgree, Zenon DEF Client!StoreNext

LEMMA ClientHandlesCredential ==
    ASSUME HandleCredential
    PROVE  Client!StoreNext
<1>1. ClientQueues' = ClientQueues /\ ClientBlocks' = ClientBlocks
  BY ClientSees DEF HandleCredential
<1>2. Client!HandleCredential
  BY <1>1
     DEF HandleCredential, Client!HandleCredential, ClientQueues, ClientBlocks,
         QueueOf, BlocksOf
<1> QED  BY <1>2, Zenon DEF Client!StoreNext

LEMMA ClientWrites ==
    ASSUME QueueInv, WriteMutations
    PROVE  Client!StoreNext
<1> PICK batch : batch = [user |-> syncUser, id |-> nextBatchId,
                          write |-> Head(worker).write]
  OBVIOUS
<1>1. /\ UNCHANGED <<created, credential, syncUser, applied, issued, mainQueue,
                     restarts, settling, verdict, told>>
      /\ Idle /\ worker # <<>> /\ worker' = Tail(worker)
      /\ Head(worker).type = "write"
  BY DEF WriteMutations
<1>2. /\ batch \in Rows /\ batch.user = syncUser
      /\ batch.write = Head(worker).write
      /\ \A r \in rows : r.id < batch.id
      /\ rows' = rows \cup {batch}
      /\ blocks' = blocks \cup {batch}
      /\ syncUser \in Owners
  BY BatchFacts
<1>3. Outstanding = rows /\ Outstanding' = rows \cup {batch}
  BY <1>1, <1>2 DEF Outstanding, Idle
<1>4. QueueOf(Outstanding', syncUser)
          = Append(QueueOf(Outstanding, syncUser), Head(worker).write)
  <2> DEFINE mine == {r \in rows : r.user = syncUser}
  <2>1. {r \in rows \cup {batch} : r.user = syncUser} = mine \cup {batch}
    BY <1>2
  <2>2. mine \in SUBSET Rows /\ OneId(mine) /\ Bounded(mine)
    BY <1>3, OutstandingFacts DEF OfUser
  <2>3. \A s \in mine : s.id < batch.id
    BY <1>2
  <2> HIDE DEF mine
  <2>4. WritesOf(InOrder(mine \cup {batch}))
            = Append(WritesOf(InOrder(mine)), batch.write)
    BY <1>2, <2>2, <2>3, QueueAppends
  <2> QED  BY <1>2, <1>3, <2>1, <2>4 DEF QueueOf, mine
<1>5. ASSUME NEW u \in Owners, u # syncUser
      PROVE  QueueOf(Outstanding', u) = QueueOf(Outstanding, u)
  <2>1. {r \in rows \cup {batch} : r.user = u} = {r \in rows : r.user = u}
    BY <1>2, <1>5
  <2> QED  BY <1>3, <2>1 DEF QueueOf
<1>6. ClientQueues' = [ClientQueues EXCEPT
                          ![syncUser] = Append(@, Head(worker).write)]
  BY <1>2, <1>4, <1>5 DEF ClientQueues
<1>7. ClientBlocks' = [ClientBlocks EXCEPT
                          ![syncUser] = @ \cup {Head(worker).write}]
  <2>1. BlocksOf(blocks', syncUser)
            = BlocksOf(blocks, syncUser) \cup {Head(worker).write}
    BY <1>2 DEF BlocksOf
  <2>2. \A u \in Owners : u # syncUser => BlocksOf(blocks', u) = BlocksOf(blocks, u)
    BY <1>2 DEF BlocksOf
  <2> QED  BY <1>2, <2>1, <2>2 DEF ClientBlocks
<1>8. Client!WriteMutations
  BY <1>1, <1>6, <1>7
     DEF Client!WriteMutations, ClientQueues, ClientBlocks, QueueOf, BlocksOf
<1> QED  BY <1>8, Zenon DEF Client!StoreNext

LEMMA ClientApplies ==
    ASSUME QueueInv, NEW i \in DOMAIN pipeline, BackendApplies(i)
    PROVE  Client!StoreNext
<1> PICK c : c = Current
  OBVIOUS
<1>1. /\ UNCHANGED <<created, credential, worker, syncUser, issued, mainQueue,
                     restarts, rows, blocks, settling, verdict>>
      /\ Idle \/ verdict = "ok"
      /\ \A j \in 1 .. i - 1 : pipeline[j].write \in applied
      /\ applied' = applied \cup {pipeline[i].write}
  BY DEF BackendApplies, rowVars
<1>2. /\ Sorted(c, Waiting) /\ Waiting \in SUBSET Rows /\ FrontOf(pipeline, Waiting)
  BY WaitingInOrder, InvFacts DEF QueueInv, PipelineFilled
<1>3. /\ pipeline \in Seq(Rows) /\ c \in Seq(Rows)
      /\ Len(pipeline) \in Nat /\ Len(c) \in Nat
      /\ i \in 1 .. Len(pipeline) /\ pipeline[i] \in Waiting
  BY <1>2, FrontTyped, SortedIsFront, FrontLen DEF FrontOf
<1>4. Len(pipeline) <= Len(c) /\ \A j \in 1 .. Len(pipeline) : pipeline[j] = c[j]
  BY <1>2, FrontsAgree
<1>5. {r \in Outstanding : r.user = syncUser} \ {settling}
          = {r \in Outstanding : r.user = syncUser}
  <2>1. settling \notin Outstanding
    BY <1>1, InvFacts DEF Outstanding, Idle
  <2> QED  BY <2>1
<1>6. WritesOf(c) = QueueOf(Outstanding, syncUser)
  BY <1>5 DEF QueueOf, Current
<1>7. syncUser \in Owners /\ syncUser # NoEngine
  BY <1>3, InvFacts, RowIds DEF Waiting, OfUser
<1>8. PICK q : q = ClientQueues[syncUser]
  OBVIOUS
<1>9. /\ q = WritesOf(c) /\ DOMAIN q = 1 .. Len(c) /\ q # <<>>
      /\ \A j \in 1 .. Len(c) : q[j] = c[j].write
  <2>1. q = WritesOf(c)
    BY <1>6, <1>7, <1>8 DEF ClientQueues
  <2>2. c # <<>>
    BY <1>3, <1>4
  <2> QED  BY <1>3, <2>1, <2>2, WritesShape
<1>10. PICK w \in Writes : w = pipeline[i].write
  BY <1>2, <1>3, RowIds
<1>11. /\ i \in DOMAIN q /\ q[i] = w
       /\ \A j \in 1 .. i - 1 : q[j] \in applied
  <2>1. \A j \in 1 .. i : j \in 1 .. Len(c) /\ j \in 1 .. Len(pipeline)
    BY <1>3, <1>4
  <2>2. i \in 1 .. i /\ \A j \in 1 .. i - 1 : j \in 1 .. i
    BY <1>3
  <2> QED  BY <1>1, <1>4, <1>9, <1>10, <2>1, <2>2
<1>12. ClientQueues' = ClientQueues /\ ClientBlocks' = ClientBlocks
  BY <1>1, ClientSees
<1>13. Client!Sending
  BY <1>7, <1>8, <1>9 DEF Client!Sending, ClientQueues, QueueOf
<1>14. \E k \in DOMAIN ClientQueues[syncUser] :
           /\ ClientQueues[syncUser][k] = w
           /\ \A j \in 1 .. k - 1 : ClientQueues[syncUser][j] \in applied
  BY <1>8, <1>11
<1>15. Client!BackendApplies(w)
  BY <1>1, <1>10, <1>12, <1>13, <1>14
     DEF Client!BackendApplies, ClientQueues, ClientBlocks, QueueOf, BlocksOf
<1> QED  BY <1>15, Zenon DEF Client!StoreNext

(* A batch is settled when it is told of: it is the head of its queue, and *)
(* its block, if there is one, is the one that is found.                   *)
LEMMA ClientSettles ==
    ASSUME QueueInv, NEW h \in Outstanding, h.user = syncUser,
           \A r \in OfUser(Outstanding, syncUser) \ {h} : h.id < r.id,
           Outstanding' = Outstanding \ {h},
           NEW answer, NotifyUser(h, answer),
           UNCHANGED <<created, credential, worker, syncUser, applied, issued,
                       restarts>>
    PROVE  /\ Client!Sending
           /\ Client!Settled = h.write
           /\ Client!SettleHead(answer)
<1>f. /\ Outstanding \in SUBSET Rows /\ OneId(Outstanding) /\ OneWrite(Outstanding)
      /\ OfUser(Outstanding, syncUser) \in SUBSET Rows
      /\ OneId(OfUser(Outstanding, syncUser))
      /\ Bounded(OfUser(Outstanding, syncUser))
      /\ blocks \subseteq Outstanding
      /\ syncUser \in Owners /\ syncUser # NoEngine
  BY OutstandingFacts, RowIds, InvFacts DEF QueueInv, BlocksMeetTheirBatch
<1>b. /\ h \in blocks => mainQueue' = Append(mainQueue,
                                             Client!Written(h.write, answer))
      /\ h \notin blocks => mainQueue' = mainQueue
      /\ blocks' = blocks \ {h}
  <2>1. OneId(blocks \cup {h}) /\ mainQueue \in Seq(Client!WrittenItems)
    BY <1>f DEF OneId, QueueInv, QueueTypeOK
  <2> QED  BY <2>1, NotifyShape
<1>1. /\ QueueOf(Outstanding, syncUser) # <<>>
      /\ Head(QueueOf(Outstanding, syncUser)) = h.write
      /\ QueueOf(Outstanding', syncUser) = Tail(QueueOf(Outstanding, syncUser))
  <2> DEFINE mine == {r \in Outstanding : r.user = syncUser}
  <2>1. mine \in SUBSET Rows /\ OneId(mine) /\ Bounded(mine) /\ h \in mine
        /\ \A r \in mine \ {h} : h.id < r.id
    BY <1>f DEF OfUser
  <2>2. {r \in Outstanding \ {h} : r.user = syncUser} = mine \ {h}
    OBVIOUS
  <2> HIDE DEF mine
  <2>3. /\ WritesOf(InOrder(mine)) # <<>>
        /\ Head(WritesOf(InOrder(mine))) = h.write
        /\ WritesOf(InOrder(mine \ {h})) = Tail(WritesOf(InOrder(mine)))
    BY <2>1, QueueTails
  <2> QED  BY <2>2, <2>3 DEF QueueOf, mine
<1>2. ASSUME NEW u \in Owners, u # syncUser
      PROVE  QueueOf(Outstanding', u) = QueueOf(Outstanding, u)
  <2>1. {r \in Outstanding \ {h} : r.user = u} = {r \in Outstanding : r.user = u}
    BY <1>2
  <2> QED  BY <2>1 DEF QueueOf
<1>3. ClientQueues' = [ClientQueues EXCEPT ![syncUser] = Tail(@)]
  BY <1>f, <1>1, <1>2 DEF ClientQueues
<1>4. h.write \in ClientBlocks[syncUser] <=> h \in blocks
  <2>1. h.write \in BlocksOf(blocks, syncUser) <=> h \in blocks
    BY <1>f DEF BlocksOf, OneWrite
  <2> QED  BY <1>f, <2>1 DEF ClientBlocks
<1>5. ClientBlocks' = [ClientBlocks EXCEPT ![syncUser] = @ \ {h.write}]
  <2>1. BlocksOf(blocks', syncUser) = BlocksOf(blocks, syncUser) \ {h.write}
    BY <1>f, <1>b DEF BlocksOf, OneWrite
  <2>2. \A u \in Owners : u # syncUser => BlocksOf(blocks', u) = BlocksOf(blocks, u)
    BY <1>b DEF BlocksOf
  <2> QED  BY <1>f, <2>1, <2>2 DEF ClientBlocks
<1>6. ClientQueues[syncUser] = QueueOf(Outstanding, syncUser)
  BY <1>f DEF ClientQueues
<1>7. Client!Sending
  BY <1>f, <1>1, <1>6 DEF Client!Sending, ClientQueues, QueueOf
<1>8. Client!Settled = h.write
  BY <1>1, <1>6 DEF Client!Settled, ClientQueues, QueueOf
<1>9. Client!RemoveMutationBatch
  BY <1>3 DEF Client!RemoveMutationBatch, ClientQueues, QueueOf
<1>10. Client!Dispatch(answer)
  BY <1>b, <1>4, <1>8 DEF Client!Dispatch, ClientBlocks, BlocksOf
<1>11. Client!NotifyUser(answer)
  BY <1>5, <1>8, <1>10 DEF Client!NotifyUser, ClientBlocks, BlocksOf
<1>12. Client!SettleHead(answer)
  BY <1>9, <1>11 DEF Client!SettleHead
<1> QED  BY <1>7, <1>8, <1>12

LEMMA ClientSucceeds ==
    ASSUME QueueInv, SuccessIsTold
    PROVE  Client!StoreNext
<1> PICK h, p : h = Head(pipeline) /\ p = Tail(pipeline)
  OBVIOUS
<1>1. /\ UNCHANGED <<created, credential, worker, syncUser, applied, issued,
                     restarts, rows>>
      /\ Idle /\ pipeline # <<>> /\ h.write \in applied
      /\ NotifyUser(h, "ok")
      /\ settling' = h /\ verdict' = "ok"
  BY DEF SuccessIsTold
<1>2. /\ h \in rows /\ h.user = syncUser /\ h # NoRow
      /\ \A r \in OfUser(rows, syncUser) \ {h} : h.id < r.id
  BY <1>1, HeadFacts
<1>3. Outstanding = rows /\ Outstanding' = rows \ {h}
  BY <1>1, <1>2 DEF Outstanding, Idle
<1>4. Client!Sending /\ Client!Settled = h.write /\ Client!SettleHead("ok")
  BY <1>1, <1>2, <1>3, ClientSettles
<1>5. Head(ClientQueues[syncUser]) \in applied
  BY <1>1, <1>4 DEF Client!Settled, ClientQueues, QueueOf
<1>6. Client!HandleSuccessfulWrite
  BY <1>4, <1>5 DEF Client!HandleSuccessfulWrite, ClientQueues, QueueOf
<1> QED  BY <1>6, Zenon DEF Client!StoreNext

LEMMA ClientFails ==
    ASSUME QueueInv, FailureIsTold
    PROVE  Client!StoreNext
<1> PICK h : h = settling
  OBVIOUS
<1>1. /\ UNCHANGED <<created, credential, worker, syncUser, applied, issued,
                     restarts, rows>>
      /\ ~Idle /\ verdict # "ok"
      /\ NotifyUser(h, "failed")
      /\ settling' = NoRow
  BY DEF FailureIsTold, Idle
<1>2. h \in Rows /\ h.user = syncUser /\ h \notin rows
  BY <1>1, SettledFacts
<1>3. Outstanding = rows \cup {h} /\ Outstanding' = rows
  BY <1>1 DEF Outstanding, Idle
<1>4. \A r \in OfUser(Outstanding, syncUser) \ {h} : h.id < r.id
  <2>1. \A r \in Waiting : h.id < r.id
    BY <1>1 DEF QueueInv, HalfHandled
  <2> QED  BY <1>3, <2>1 DEF OfUser, Waiting
<1>5. h \in Outstanding /\ Outstanding' = Outstanding \ {h}
  BY <1>2, <1>3
<1>6. Client!Sending /\ Client!SettleHead("failed")
  BY <1>1, <1>2, <1>4, <1>5, ClientSettles
<1>7. Client!HandleRejectedWrite
  BY <1>6 DEF Client!HandleRejectedWrite
<1> QED  BY <1>7, Zenon DEF Client!StoreNext

LEMMA ClientDelivers ==
    ASSUME CompletionRuns
    PROVE  Client!StoreNext
<1>1. Client!DeliverWritten
  BY DEF CompletionRuns
<1> QED  BY <1>1, Zenon DEF Client!StoreNext

LEMMA ClientDies ==
    ASSUME QueueInv, ProcessDies
    PROVE  Client!StoreNext \/ DiesHalfway
<1>1. CASE ~Idle
  BY <1>1 DEF DiesHalfway
<1>2. CASE Idle
  <2>1. Outstanding' = Outstanding
    BY <1>2 DEF ProcessDies, Outstanding, Idle
  <2>2. ClientQueues' = ClientQueues
    BY <2>1 DEF ClientQueues
  <2>3. ClientBlocks' = [u \in Client!Owners |-> {}]
    <3>1. \A u \in Owners : BlocksOf(blocks', u) = {}
      BY DEF ProcessDies, BlocksOf
    <3> QED  BY <3>1, OwnersAgree DEF ClientBlocks
  <2>4. Client!Relaunch
    BY <2>2, <2>3
       DEF ProcessDies, Client!Relaunch, ClientQueues, ClientBlocks, QueueOf,
           BlocksOf
  <2> QED  BY <2>4, Zenon DEF Client!StoreNext
<1> QED  BY <1>1, <1>2

(* The other half of an answer is no step of FirestoreClient's.            *)
LEMMA ClientUnaware ==
    ASSUME Outstanding' = Outstanding, UNCHANGED blocks, UNCHANGED clientVars
    PROVE  UNCHANGED Client!storeVars
<1>1. ClientQueues' = ClientQueues /\ ClientBlocks' = ClientBlocks
  BY DEF ClientQueues, ClientBlocks
<1> QED
  BY <1>1 DEF clientVars, Client!storeVars, ClientQueues, ClientBlocks, QueueOf,
              BlocksOf

LEMMA ClientStep ==
    QueueInv /\ [QueueNext]_queueVars
        => [Client!StoreNext \/ DiesHalfway]_(Client!storeVars)
<1> SUFFICES ASSUME QueueInv, [QueueNext]_queueVars
             PROVE  [Client!StoreNext \/ DiesHalfway]_(Client!storeVars)
  OBVIOUS
<1>1. ASSUME NEW w \in Writes, NEW u \in Owners, AppSetsData(w, u)
      PROVE  Client!StoreNext
  BY <1>1, ClientSetsData
<1>2. ASSUME NEW u \in Owners, UserChanges(u) PROVE Client!StoreNext
  BY <1>2, ClientUserChanges
<1>3. CASE CompletionRuns
  BY <1>3, ClientDelivers
<1>4. ASSUME NEW i \in DOMAIN pipeline, BackendApplies(i) PROVE Client!StoreNext
  BY <1>4, ClientApplies
<1>5. CASE HandleCredential
  BY <1>5, ClientHandlesCredential
<1>6. CASE WriteMutations
  BY <1>6, ClientWrites
<1>7. CASE SuccessIsTold
  BY <1>7, ClientSucceeds
<1>8. CASE AcknowledgeBatch
  <2>1. /\ ~Idle /\ verdict = "ok" /\ Idle'
        /\ rows' = {r \in rows : <<r.user, r.id>> # <<syncUser, settling.id>>}
        /\ UNCHANGED blocks /\ UNCHANGED clientVars
    BY <1>8 DEF AcknowledgeBatch, Idle
  <2>2. rows' = rows \ {settling}
    BY <2>1, SettledFacts
  <2>3. Outstanding' = Outstanding
    BY <2>1, <2>2 DEF Outstanding
  <2> QED  BY <2>1, <2>3, ClientUnaware
<1>9. CASE RejectBatch
  <2> PICK h, p : h = Head(pipeline) /\ p = Tail(pipeline)
    OBVIOUS
  <2>1. /\ Idle /\ pipeline # <<>> /\ settling' = h /\ verdict' = "failed"
        /\ rows' = {r \in rows : <<r.user, r.id>> # <<syncUser, h.id>>}
        /\ UNCHANGED blocks /\ UNCHANGED clientVars
    BY <1>9 DEF RejectBatch
  <2>2. rows' = rows \ {h} /\ h \in rows /\ h # NoRow
    BY <2>1, HeadFacts
  <2>3. Outstanding' = Outstanding
    BY <2>1, <2>2 DEF Outstanding, Idle
  <2> QED  BY <2>1, <2>3, ClientUnaware
<1>10. CASE FailureIsTold
  BY <1>10, ClientFails
<1>11. CASE ProcessDies
  BY <1>11, ClientDies
<1>12. CASE UNCHANGED queueVars
  <2>1. Outstanding' = Outstanding
    BY <1>12 DEF Outstanding, Idle, queueVars, rowVars
  <2> QED  BY <1>12, <2>1, ClientUnaware DEF queueVars, rowVars
<1> QED
  BY <1>1, <1>2, <1>3, <1>4, <1>5, <1>6, <1>7, <1>8, <1>9, <1>10, <1>11, <1>12,
     Zenon DEF QueueNext

(* Rows and ids implement the queues of FirestoreClient, step by step: an  *)
(* answer takes effect when the block is told, whichever half of it comes  *)
(* first, and only a death between the halves is a step that               *)
(* FirestoreClient does not have (LocalStore, SyncEngine, RemoteStore).    *)
THEOREM QueueImplementsClient == QueueSpec => ImplementsClient
BY ClientStarts, ClientStep, QueueInvariant, PTL DEF QueueSpec, ImplementsClient

-----------------------------------------------------------------------------
(* The scan                                                                *)

(* The mutations are the keys after place b, up to place e.                *)
HasTable(K, b, e, n) ==
    /\ Len(K) \in Nat /\ DOMAIN K = 1 .. Len(K)
    /\ b \in Nat /\ e \in b .. Len(K) /\ n \in Nat
    /\ \A i \in 1 .. b : K[i].table = "earlier"
    /\ \A i \in b + 1 .. e : /\ K[i].table = "mutation"
                             /\ K[i].user \in 1 .. n
                             /\ K[i].id \in Nat
    /\ \A i \in e + 1 .. Len(K) : K[i].table = "later"
    /\ \A i, j \in b + 1 .. e : i < j => Precedes(K[i], K[j])

HasIds(K, b, e, ids) ==
    /\ \A i \in b + 1 .. e : K[i].id \in ids
    /\ \A x \in ids : \E i \in b + 1 .. e : K[i].id = x

LEMMA Joined ==
    ASSUME NEW S, NEW p \in Seq(S), NEW q \in Seq(S)
    PROVE  /\ p \o q \in Seq(S)
           /\ Len(p \o q) = Len(p) + Len(q)
           /\ Len(p) \in Nat /\ Len(q) \in Nat
           /\ \A i \in 1 .. Len(p) : (p \o q)[i] = p[i]
           /\ \A i \in Len(p) + 1 .. Len(p) + Len(q) : (p \o q)[i] = q[i - Len(p)]
OBVIOUS

LEMMA TableKeys ==
    ASSUME rows \in SUBSET Rows, IsFiniteSet(rows), NEW N, N = Cardinality(Names),
           NEW place \in Injection(Names, 1 .. N), NEW table \in Tables(place),
           NEW n, n = Cardinality(rows)
    PROVE  /\ n \in Nat /\ N \in Nat
           /\ table \in [1 .. n -> Keys(place)]
           /\ \A i \in 1 .. n : /\ table[i].table = "mutation"
                                /\ table[i].user \in 1 .. N
                                /\ table[i].id \in {r.id : r \in rows}
                                /\ table[i].id \in Nat
           /\ \A i, j \in 1 .. n : i < j => Precedes(table[i], table[j])
           /\ \A r \in rows : \E i \in 1 .. n : table[i].id = r.id
<1>1. n \in Nat
  BY FS_CardinalityType
<1>2. N \in Nat
  <2> DEFINE user == [r \in rows |-> r.user]
  <2>1. user \in Surjection(rows, Names)
    <3>1. user \in [rows -> Names] /\ \A u \in Names : \E r \in rows : user[r] = u
      BY DEF Names
    <3> HIDE DEF user
    <3> QED  BY <3>1 DEF Surjection
  <2> HIDE DEF user
  <2>2. IsFiniteSet(Names)
    BY <2>1, FS_Surjection
  <2> QED  BY <2>2, FS_CardinalityType
<1>3. /\ table \in [1 .. n -> Keys(place)]
      /\ \A i, j \in 1 .. n : i < j => Precedes(table[i], table[j])
  BY <1>1 DEF Tables
<1>4. \A r \in rows : place[r.user] \in 1 .. N
  BY DEF Injection, Names
<1>5. ASSUME NEW i \in 1 .. n
      PROVE  \E r \in rows : table[i] = Mutation(place[r.user], r.id)
  BY <1>3 DEF Keys
<1>6. \A i \in 1 .. n : /\ table[i].table = "mutation"
                        /\ table[i].user \in 1 .. N
                        /\ table[i].id \in {r.id : r \in rows}
                        /\ table[i].id \in Nat
  <2> SUFFICES ASSUME NEW i \in 1 .. n
               PROVE  /\ table[i].table = "mutation"
                      /\ table[i].user \in 1 .. N
                      /\ table[i].id \in {r.id : r \in rows}
                      /\ table[i].id \in Nat
    OBVIOUS
  <2>1. PICK r \in rows : table[i] = Mutation(place[r.user], r.id)
    BY <1>5
  <2>2. /\ table[i].table = "mutation"
        /\ table[i].user = place[r.user]
        /\ table[i].id = r.id
    BY <2>1 DEF Mutation
  <2>3. table[i].user \in 1 .. N
    BY <1>4, <2>2
  <2>4. table[i].id \in {s.id : s \in rows} /\ table[i].id \in Nat
    BY <2>2, RowIds
  <2> QED  BY <2>2, <2>3, <2>4
<1>7. \A i, j \in 1 .. n : i # j => table[i] # table[j]
  <2> SUFFICES ASSUME NEW i \in 1 .. n, NEW j \in 1 .. n, i # j,
                      table[i] = table[j]
               PROVE  FALSE
    OBVIOUS
  <2>1. Precedes(table[i], table[i])
    <3>1. i < j \/ j < i
      BY <1>1
    <3> QED  BY <1>3, <3>1
  <2>2. table[i].user \in Int /\ table[i].id \in Int
    BY <1>6
  <2> QED  BY <2>1, <2>2 DEF Precedes
<1> DEFINE row == [i \in 1 .. n |->
                      CHOOSE r \in rows : table[i] = Mutation(place[r.user], r.id)]
<1>8. \A i \in 1 .. n : /\ row[i] \in rows
                        /\ table[i] = Mutation(place[row[i].user], row[i].id)
  BY <1>5
<1>9. row \in Injection(1 .. n, rows)
  <2>1. row \in [1 .. n -> rows]
    BY <1>8
  <2>2. \A i, j \in 1 .. n : row[i] = row[j] => i = j
    BY <1>7, <1>8
  <2> HIDE DEF row
  <2> QED  BY <2>1, <2>2 DEF Injection, IsInjective
<1>10. row \in Surjection(1 .. n, rows)
  <2>1. Cardinality(1 .. n) = n
    BY <1>1, UpTo
  <2> HIDE DEF row
  <2> QED  BY <1>9, <2>1, FS_Injection
<1>11. ASSUME NEW r \in rows PROVE \E i \in 1 .. n : table[i].id = r.id
  <2>1. PICK i \in 1 .. n : row[i] = r
    <3> HIDE DEF row
    <3> QED  BY <1>10 DEF Surjection
  <2>2. table[i] = Mutation(place[r.user], r.id)
    BY <1>8, <2>1
  <2> QED  BY <2>2 DEF Mutation
<1> QED  BY <1>1, <1>2, <1>3, <1>6, <1>11

LEMMA DatabaseShape ==
    ASSUME rows \in SUBSET Rows, IsFiniteSet(rows), NEW K \in Databases
    PROVE  \E b, e : /\ HasTable(K, b, e, Cardinality(Names))
                     /\ HasIds(K, b, e, {r.id : r \in rows})
<1> DEFINE tables == UNION {Tables(p) : p \in Injection(Names, 1 .. Cardinality(Names))}
           befores == {<<>>, <<Other("earlier")>>}
           afters == {<<>>, <<Other("later")>>}
<1>a. Databases = {x \o y \o z : y \in tables, x \in befores, z \in afters}
  BY DEF Databases
<1>b. /\ \A y \in tables : \E p \in Injection(Names, 1 .. Cardinality(Names)) :
                         y \in Tables(p)
      /\ \A x \in befores : x = <<>> \/ x = <<Other("earlier")>>
      /\ \A z \in afters : z = <<>> \/ z = <<Other("later")>>
  OBVIOUS
<1> HIDE DEF tables, befores, afters
<1>c. \E y \in tables : \E x \in befores : \E z \in afters : K = x \o y \o z
  BY <1>a
<1>0. PICK table \in tables, before \in befores, after \in afters :
         K = before \o table \o after
  BY <1>c
<1> PICK N, n : N = Cardinality(Names) /\ n = Cardinality(rows)
  OBVIOUS
<1>1. PICK place \in Injection(Names, 1 .. N) : table \in Tables(place)
  BY <1>b
<1>2. /\ n \in Nat /\ N \in Nat
      /\ table \in [1 .. n -> Keys(place)]
      /\ \A i \in 1 .. n : /\ table[i].table = "mutation"
                           /\ table[i].user \in 1 .. N
                           /\ table[i].id \in {r.id : r \in rows}
                           /\ table[i].id \in Nat
      /\ \A i, j \in 1 .. n : i < j => Precedes(table[i], table[j])
      /\ \A r \in rows : \E i \in 1 .. n : table[i].id = r.id
  BY <1>1, TableKeys
<1>3. PICK E : Keys(place) \subseteq E /\ Other("earlier") \in E /\ Other("later") \in E
  <2> WITNESS Keys(place) \cup {Other("earlier"), Other("later")}
  <2> QED  OBVIOUS
<1>4. /\ before \in Seq(E) /\ Len(before) \in Nat
      /\ \A i \in 1 .. Len(before) : before[i].table = "earlier"
  <2>1. CASE before = <<>>
    BY <2>1
  <2>2. CASE before = <<Other("earlier")>>
    <3>1. Len(before) = 1 /\ before[1] = Other("earlier") /\ before \in Seq(E)
      BY <1>3, <2>2
    <3>2. \A i \in 1 .. Len(before) : i = 1
      BY <3>1
    <3> QED  BY <3>1, <3>2 DEF Other
  <2> QED  BY <1>b, <2>1, <2>2
<1>5. /\ after \in Seq(E) /\ Len(after) \in Nat
      /\ \A i \in 1 .. Len(after) : after[i].table = "later"
  <2>1. CASE after = <<>>
    BY <2>1
  <2>2. CASE after = <<Other("later")>>
    <3>1. Len(after) = 1 /\ after[1] = Other("later") /\ after \in Seq(E)
      BY <1>3, <2>2
    <3>2. \A i \in 1 .. Len(after) : i = 1
      BY <3>1
    <3> QED  BY <3>1, <3>2 DEF Other
  <2> QED  BY <1>b, <2>1, <2>2
<1>6. table \in Seq(E) /\ Len(table) = n
  <2>1. table \in [1 .. n -> E]
    BY <1>2, <1>3
  <2> QED  BY <1>2, <2>1
<1> PICK b, e : b = Len(before) /\ e = Len(before) + n
  OBVIOUS
<1>n. n \in Nat
  BY <1>2
<1>7. /\ K \in Seq(E) /\ Len(K) = e + Len(after) /\ b \in Nat /\ e \in Nat
      /\ \A i \in 1 .. b : K[i] = before[i]
      /\ \A i \in b + 1 .. e : K[i] = table[i - b]
      /\ \A i \in e + 1 .. Len(K) : K[i] = after[i - e]
  <2>1. PICK h : h = before \o table
    OBVIOUS
  <2>2. /\ h \in Seq(E) /\ Len(h) = e /\ b \in Nat /\ e \in Nat
        /\ \A i \in 1 .. b : h[i] = before[i]
        /\ \A i \in b + 1 .. e : h[i] = table[i - b]
    BY <1>4, <1>6, <1>n, <2>1, Joined
  <2>3. K = h \o after
    BY <1>0, <2>1
  <2>4. /\ K \in Seq(E) /\ Len(K) = e + Len(after)
        /\ \A i \in 1 .. e : K[i] = h[i]
        /\ \A i \in e + 1 .. e + Len(after) : K[i] = after[i - e]
    <3>1. PICK m : m = Len(h)
      OBVIOUS
    <3>2. /\ K \in Seq(E) /\ Len(K) = m + Len(after)
          /\ \A i \in 1 .. m : K[i] = h[i]
          /\ \A i \in m + 1 .. m + Len(after) : K[i] = after[i - m]
      <4>1. h \in Seq(E) /\ after \in Seq(E)
        BY <1>5, <2>2
      <4>2. /\ h \o after \in Seq(E)
            /\ Len(h \o after) = Len(h) + Len(after)
            /\ \A i \in 1 .. Len(h) : (h \o after)[i] = h[i]
            /\ \A i \in Len(h) + 1 .. Len(h) + Len(after) :
                 (h \o after)[i] = after[i - Len(h)]
        BY ONLY <4>1, Joined
      <4> QED  BY ONLY <2>3, <3>1, <4>2
    <3>3. m = e
      BY <2>2, <3>1
    <3> QED  BY <3>2, <3>3
  <2>5. \A i \in 1 .. b : i \in 1 .. e
    BY <1>2, <1>4
  <2>6. \A i \in b + 1 .. e : i \in 1 .. e
    BY <2>2
  <2> QED  BY <2>2, <2>4, <2>5, <2>6
<1>8. \A i \in b + 1 .. e : i - b \in 1 .. n
  BY <1>2, <1>4
<1>9. \A i \in e + 1 .. Len(K) : i - e \in 1 .. Len(after)
  BY <1>5, <1>7
<1>10. HasTable(K, b, e, N)
  <2>1. Len(K) \in Nat /\ DOMAIN K = 1 .. Len(K) /\ e \in b .. Len(K)
    BY <1>2, <1>5, <1>7
  <2>2. \A i \in b + 1 .. e : /\ K[i].table = "mutation"
                              /\ K[i].user \in 1 .. N
                              /\ K[i].id \in Nat
    <3> SUFFICES ASSUME NEW i \in b + 1 .. e
                 PROVE  /\ K[i].table = "mutation"
                        /\ K[i].user \in 1 .. N
                        /\ K[i].id \in Nat
      OBVIOUS
    <3>1. PICK j \in 1 .. n : K[i] = table[j]
      BY <1>7, <1>8
    <3> QED  BY <1>2, <3>1
  <2>3. \A i, j \in b + 1 .. e : i < j => Precedes(K[i], K[j])
    <3> SUFFICES ASSUME NEW i \in b + 1 .. e, NEW j \in b + 1 .. e, i < j
                 PROVE  Precedes(K[i], K[j])
      OBVIOUS
    <3>1. i - b < j - b /\ i - b \in 1 .. n /\ j - b \in 1 .. n
      BY <1>7, <1>8
    <3>2. Precedes(table[i - b], table[j - b])
      BY <1>2, <3>1
    <3> QED  BY <1>7, <3>2
  <2>4. \A i \in 1 .. b : K[i].table = "earlier"
    BY <1>4, <1>7
  <2>5. \A i \in e + 1 .. Len(K) : K[i].table = "later"
    BY <1>5, <1>7, <1>9
  <2>6. b \in Nat /\ N \in Nat
    BY <1>2, <1>4
  <2> QED
    BY <2>1, <2>2, <2>3, <2>4, <2>5, <2>6 DEF HasTable
<1>11. HasIds(K, b, e, {r.id : r \in rows})
  <2>1. ASSUME NEW i \in b + 1 .. e PROVE K[i].id \in {r.id : r \in rows}
    <3>1. PICK j \in 1 .. n : K[i] = table[j]
      BY <1>7, <1>8
    <3> QED  BY <1>2, <3>1
  <2>2. ASSUME NEW r \in rows PROVE \E i \in b + 1 .. e : K[i].id = r.id
    <3>1. PICK j \in 1 .. n : table[j].id = r.id
      BY <1>2
    <3>2. PICK i \in b + 1 .. e : i - b = j
      <4>1. j + b \in b + 1 .. e /\ (j + b) - b = j
        BY <1>2, <1>4
      <4> QED  BY <4>1
    <3>3. K[i].id = r.id
      BY <1>7, <3>1, <3>2
    <3> QED  BY <3>3
  <2> QED  BY <2>1, <2>2 DEF HasIds
<1> QED  BY <1>10, <1>11

LEMMA UsersAscend ==
    ASSUME NEW K, NEW b, NEW e, NEW n, HasTable(K, b, e, n),
           NEW i \in b + 1 .. e, NEW j \in b + 1 .. e, i <= j
    PROVE  /\ K[i].user <= K[j].user
           /\ K[i].user = K[j].user => K[i].id <= K[j].id
<1>1. /\ b \in Nat /\ e \in Nat /\ n \in Nat
      /\ K[i].user \in 1 .. n /\ K[i].id \in Nat
      /\ K[j].user \in 1 .. n /\ K[j].id \in Nat
      /\ i < j => Precedes(K[i], K[j])
  BY DEF HasTable
<1>2. i = j \/ i < j
  BY <1>1
<1>3. CASE i < j
  BY <1>1, <1>3 DEF Precedes
<1> QED  BY <1>1, <1>2, <1>3

(* Seek finds the place after the last row of u's and of the users before. *)
LEMMA EndOf ==
    ASSUME NEW K, NEW b, NEW e, NEW n, HasTable(K, b, e, n), NEW u \in Nat
    PROVE  \E m \in b .. e : /\ UserEnd(K, u) = m + 1
                             /\ \A i \in b + 1 .. m : K[i].user <= u
                             /\ \A i \in m + 1 .. e : K[i].user > u
<1>1. /\ b \in Nat /\ e \in Nat /\ e \in b .. Len(K) /\ Len(K) \in Nat
      /\ DOMAIN K = 1 .. Len(K)
      /\ \A i \in b + 1 .. e : K[i].user \in Nat
  BY DEF HasTable
<1> DEFINE ends == {i \in b .. e : i = e \/ K[i + 1].user > u}
<1>2. ends \in SUBSET Nat /\ e \in ends
  BY <1>1
<1>3. PICK m \in ends : \A i \in ends : m <= i
  BY <1>2, Smallest
<1>4. m \in b .. e /\ m \in Nat
  BY <1>1
<1>5. ASSUME NEW i \in b + 1 .. m PROVE K[i].user <= u
  <2>1. i - 1 \in b .. e /\ (i - 1) + 1 = i /\ i \in b + 1 .. e /\ i - 1 < m
    BY <1>1, <1>4
  <2>2. i - 1 \notin ends
    BY <1>3, <2>1, <1>4
  <2>3. ~ (K[i].user > u)
    BY <2>1, <2>2
  <2> QED  BY <1>1, <2>1, <2>3
<1>6. ASSUME NEW i \in m + 1 .. e PROVE K[i].user > u
  <2>1. /\ m + 1 \in b + 1 .. e /\ i \in b + 1 .. e /\ m + 1 <= i
        /\ m # e
    BY <1>1, <1>4
  <2>2. K[m + 1].user > u
    BY <1>3, <2>1
  <2>3. K[m + 1].user <= K[i].user
    BY <2>1, UsersAscend
  <2> QED  BY <1>1, <2>1, <2>2, <2>3
<1> HIDE DEF ends
<1>7. ASSUME NEW i \in 1 .. Len(K)
      PROVE  (\/ K[i].table = "earlier"
              \/ K[i].table = "mutation" /\ K[i].user <= u)
             <=> i \in 1 .. m
  <2>1. CASE i \in 1 .. b
    <3>1. K[i].table = "earlier"
      BY <2>1 DEF HasTable
    <3>2. i \in 1 .. m
      BY <1>1, <1>4, <2>1
    <3> QED  BY <3>1, <3>2
  <2>2. CASE i \in b + 1 .. m
    <3>1. i \in b + 1 .. e /\ i \in 1 .. m
      BY <1>1, <1>4, <2>2
    <3>2. K[i].table = "mutation"
      BY <3>1 DEF HasTable
    <3> QED  BY <1>5, <2>2, <3>1, <3>2
  <2>3. CASE i \in m + 1 .. e
    <3>1. i \in b + 1 .. e /\ ~ (i \in 1 .. m)
      BY <1>1, <1>4, <2>3
    <3>2. K[i].table = "mutation"
      BY <3>1 DEF HasTable
    <3>3. ~ (K[i].user <= u)
      BY <1>1, <1>6, <2>3, <3>1
    <3> QED  BY <3>1, <3>2, <3>3
  <2>4. CASE i \in e + 1 .. Len(K)
    <3>1. K[i].table = "later"
      BY <2>4 DEF HasTable
    <3>2. ~ (i \in 1 .. m)
      BY <1>1, <1>4, <2>4
    <3> QED  BY <3>1, <3>2
  <2>5. i \in 1 .. b \/ i \in b + 1 .. m \/ i \in m + 1 .. e \/ i \in e + 1 .. Len(K)
    BY <1>1, <1>4
  <2> QED  BY <2>1, <2>2, <2>3, <2>4, <2>5
<1>8. {i \in DOMAIN K : \/ K[i].table = "earlier"
                        \/ K[i].table = "mutation" /\ K[i].user <= u} = 1 .. m
  <2>1. 1 .. m \subseteq 1 .. Len(K)
    BY <1>1, <1>4
  <2> QED  BY <1>1, <1>7, <2>1
<1>9. UserEnd(K, u) = m + 1
  <2>1. UserEnd(K, u) = 1 + Cardinality(1 .. m)
    BY <1>8 DEF UserEnd, Seek
  <2> QED  BY <1>4, <2>1, UpTo
<1> QED  BY <1>4, <1>5, <1>6, <1>9

LEMMA StartOf ==
    ASSUME NEW K, NEW b, NEW e, NEW n, HasTable(K, b, e, n)
    PROVE  TableStart(K) = b + 1
<1>1. /\ b \in Nat /\ e \in b .. Len(K) /\ Len(K) \in Nat
      /\ DOMAIN K = 1 .. Len(K)
  BY DEF HasTable
<1>2. ASSUME NEW i \in 1 .. Len(K)
      PROVE  K[i].table = "earlier" <=> i \in 1 .. b
  <2>1. CASE i \in 1 .. b
    BY <2>1 DEF HasTable
  <2>2. CASE i \in b + 1 .. e
    <3>1. K[i].table = "mutation" /\ ~ (i \in 1 .. b)
      BY <1>1, <2>2 DEF HasTable
    <3> QED  BY <3>1
  <2>3. CASE i \in e + 1 .. Len(K)
    <3>1. K[i].table = "later" /\ ~ (i \in 1 .. b)
      BY <1>1, <2>3 DEF HasTable
    <3> QED  BY <3>1
  <2> QED  BY <1>1, <2>1, <2>2, <2>3
<1>3. {i \in DOMAIN K : K[i].table = "earlier"} = 1 .. b
  <2>1. 1 .. b \subseteq 1 .. Len(K)
    BY <1>1
  <2> QED  BY <1>1, <1>2, <2>1
<1>4. TableStart(K) = 1 + Cardinality(1 .. b)
  BY <1>3 DEF TableStart, Seek
<1> QED  BY <1>1, <1>4, UpTo

(* The key at place i is a mutation's just when i is in the table.         *)
LEMMA DecodesInTable ==
    ASSUME NEW K, NEW b, NEW e, NEW n, HasTable(K, b, e, n),
           NEW i \in Nat, i > b
    PROVE  Decodes(K, i) <=> i \in b + 1 .. e
<1>1. /\ b \in Nat /\ e \in b .. Len(K) /\ Len(K) \in Nat
      /\ DOMAIN K = 1 .. Len(K)
  BY DEF HasTable
<1>2. CASE i \in b + 1 .. e
  <2>1. i \in 1 .. Len(K) /\ K[i].table = "mutation"
    BY <1>1, <1>2 DEF HasTable
  <2> QED  BY <1>1, <1>2, <2>1 DEF Decodes, Valid
<1>3. CASE i \in e + 1 .. Len(K)
  <2>1. K[i].table = "later" /\ ~ (i \in b + 1 .. e)
    BY <1>1, <1>3 DEF HasTable
  <2> QED  BY <2>1 DEF Decodes
<1>4. CASE i > Len(K)
  <2>1. ~ (i \in b + 1 .. e) /\ ~ (i \in 1 .. Len(K))
    BY <1>1, <1>4
  <2> QED  BY <1>1, <2>1 DEF Decodes, Valid
<1> QED  BY <1>1, <1>2, <1>3, <1>4

(* The scan has seen the rows up to place f: highest is the highest of     *)
(* their ids, and 0 when there is none.                                    *)
Seen(K, b, e, f, highest) ==
    /\ \A i \in b + 1 .. f : K[i].id <= highest
    /\ highest = 0 \/ \E i \in b + 1 .. e : K[i].id = highest

ScanStates == [more : BOOLEAN, highest : Nat, stray : {FALSE}, nextUser : Nat]

(* Before a turn it stands at place f, the first row of the next user's.   *)
Standing(K, b, e, s, f) ==
    /\ f \in b + 1 .. e
    /\ K[f].user = s.nextUser
    /\ Seen(K, b, e, f - 1, s.highest)

ScanGood(K, b, e, s) ==
    /\ s \in ScanStates
    /\ s.more => \E f \in b + 1 .. e : Standing(K, b, e, s, f)
    /\ ~s.more => Seen(K, b, e, e, s.highest)

LEMMA ScanStarts ==
    ASSUME NEW K, NEW b, NEW e, NEW n, HasTable(K, b, e, n),
           NEW s, s = StartScan(K)
    PROVE  /\ ScanGood(K, b, e, s)
           /\ s.more => s.nextUser >= 1
<1>1. /\ b \in Nat /\ e \in b .. Len(K) /\ Len(K) \in Nat
      /\ TableStart(K) = b + 1
  BY StartOf DEF HasTable
<1>2. s = [more |-> Decodes(K, b + 1), highest |-> 0, stray |-> FALSE,
           nextUser |-> IF Decodes(K, b + 1) THEN K[b + 1].user ELSE 0]
  BY <1>1 DEF StartScan
<1>3. Decodes(K, b + 1) <=> b + 1 \in b + 1 .. e
  BY <1>1, DecodesInTable
<1>4. CASE b + 1 \in b + 1 .. e
  <2>1. s.more = TRUE /\ s.highest = 0 /\ s.stray = FALSE /\ s.nextUser = K[b + 1].user
    <3>1. s = [more |-> TRUE, highest |-> 0, stray |-> FALSE,
               nextUser |-> K[b + 1].user]
      BY <1>2, <1>3, <1>4 DEF Decodes, Valid
    <3> QED  BY <3>1
  <2>2. K[b + 1].user \in Nat /\ K[b + 1].user >= 1
    BY <1>4 DEF HasTable
  <2>3. s \in ScanStates
    BY <1>2, <1>3, <1>4, <2>2 DEF ScanStates, Decodes, Valid
  <2>4. Seen(K, b, e, (b + 1) - 1, 0)
    BY <1>1 DEF Seen
  <2>5. Standing(K, b, e, s, b + 1)
    BY <1>4, <2>1, <2>4 DEF Standing
  <2> QED  BY <1>4, <2>1, <2>2, <2>3, <2>5 DEF ScanGood
<1>5. CASE ~ (b + 1 \in b + 1 .. e)
  <2>1. s = [more |-> FALSE, highest |-> 0, stray |-> FALSE, nextUser |-> 0]
    BY <1>2, <1>3, <1>5 DEF Decodes, Valid
  <2>2. s \in ScanStates
    BY <2>1 DEF ScanStates
  <2>3. b + 1 .. e = {}
    BY <1>1, <1>5
  <2>4. Seen(K, b, e, e, 0)
    BY <2>3 DEF Seen
  <2>5. s.more = FALSE /\ s.highest = 0
    BY <2>1
  <2> QED  BY <2>2, <2>4, <2>5 DEF ScanGood
<1> QED  BY <1>4, <1>5

LEMMA AtTheEnd ==
    ASSUME NEW i \in Nat, NEW n \in Nat, i <= n, i + 1 \notin 1 .. n
    PROVE  i = n
OBVIOUS

(* One turn sees the rows of one user, and the next user is a later one.   *)
LEMMA ScanTurn ==
    ASSUME NEW K, NEW b, NEW e, NEW n, HasTable(K, b, e, n),
           NEW s, ScanGood(K, b, e, s), s.more,
           NEW t, t = ScanUser(K, s)
    PROVE  /\ ScanGood(K, b, e, t)
           /\ t.more => t.nextUser >= s.nextUser + 1
<1>1. /\ b \in Nat /\ e \in b .. Len(K) /\ Len(K) \in Nat /\ e \in Nat
      /\ DOMAIN K = 1 .. Len(K)
      /\ \A i \in b + 1 .. e : K[i].user \in Nat /\ K[i].id \in Nat
  BY DEF HasTable
<1>2. s.highest \in Nat /\ s.nextUser \in Nat /\ s.stray = FALSE
  BY DEF ScanGood, ScanStates
<1>3. PICK f \in b + 1 .. e : Standing(K, b, e, s, f)
  BY DEF ScanGood
<1>4. PICK m \in b .. e : /\ UserEnd(K, s.nextUser) = m + 1
                          /\ \A i \in b + 1 .. m : K[i].user <= s.nextUser
                          /\ \A i \in m + 1 .. e : K[i].user > s.nextUser
  BY <1>2, EndOf
<1>5. m \in b + 1 .. e /\ f <= m
  <2>1. ~ (f \in m + 1 .. e)
    BY <1>1, <1>2, <1>3, <1>4 DEF Standing
  <2> QED  BY <1>1, <2>1
<1>6. (IF Valid(K, m + 1) THEN (m + 1) - 1 ELSE Len(K)) = m
  <2>1. CASE m + 1 \in 1 .. Len(K)
    BY <1>1, <2>1 DEF Valid
  <2>2. CASE ~ (m + 1 \in 1 .. Len(K))
    <3>0. m \in Nat /\ m <= Len(K)
      BY <1>1
    <3>1. m = Len(K)
      BY <1>1, <2>2, <3>0, AtTheEnd
    <3> QED  BY <1>1, <2>2, <3>1 DEF Valid
  <2> QED  BY <2>1, <2>2
<1>7. Decodes(K, m)
  BY <1>1, <1>5, DecodesInTable
<1>8. Decodes(K, m + 1) <=> m + 1 \in b + 1 .. e
  BY <1>1, <1>5, DecodesInTable
<1> PICK h : h = Max({s.highest, K[m].id})
  OBVIOUS
<1>9. t = [more |-> Decodes(K, m + 1), highest |-> h, stray |-> FALSE,
           nextUser |-> IF Decodes(K, m + 1) THEN K[m + 1].user ELSE s.nextUser]
  BY <1>2, <1>4, <1>6, <1>7 DEF ScanUser
<1>10. h \in {s.highest, K[m].id} /\ s.highest <= h /\ K[m].id <= h /\ h \in Nat
  <2>1. s.highest \in Nat /\ K[m].id \in Nat
    BY <1>1, <1>2, <1>5
  <2>2. \E x \in {s.highest, K[m].id} : \A y \in {s.highest, K[m].id} : x >= y
    BY <2>1
  <2>3. h \in {s.highest, K[m].id} /\ \A y \in {s.highest, K[m].id} : h >= y
    BY <2>2 DEF Max
  <2> QED  BY <2>1, <2>3
<1>11. Seen(K, b, e, m, h)
  <2>1. ASSUME NEW i \in b + 1 .. m PROVE K[i].id <= h
    <3>1. i \in b + 1 .. e /\ K[i].id \in Nat
      BY <1>1, <1>5
    <3>2. CASE i <= f - 1
      <4>1. K[i].id <= s.highest
        BY <1>1, <1>3, <3>2 DEF Standing, Seen
      <4> QED  BY <1>2, <1>10, <3>1, <4>1
    <3>3. CASE f <= i
      <4>1. K[f].user = s.nextUser
        BY <1>3 DEF Standing
      <4>2. K[f].user <= K[i].user /\ K[i].user <= s.nextUser /\ K[m].user <= s.nextUser
        BY <1>1, <1>4, <1>5, <3>1, <3>3, UsersAscend
      <4>3. K[i].user <= K[m].user /\ (K[i].user = K[m].user => K[i].id <= K[m].id)
        <5>1. i <= m
          BY <1>1, <1>5
        <5> QED  BY <1>5, <3>1, <5>1, UsersAscend
      <4>4. K[i].user \in Nat /\ K[m].user \in Nat /\ K[m].id \in Nat
        BY <1>1, <1>5, <3>1
      <4>5. K[i].id <= K[m].id
        BY <1>2, <4>1, <4>2, <4>3, <4>4
      <4> QED  BY <1>10, <3>1, <4>4, <4>5
    <3> QED  BY <1>1, <3>1, <3>2, <3>3
  <2>2. h = 0 \/ \E i \in b + 1 .. e : K[i].id = h
    <3>1. s.highest = 0 \/ \E i \in b + 1 .. e : K[i].id = s.highest
      BY <1>3 DEF Standing, Seen
    <3> QED  BY <1>5, <1>10, <3>1
  <2> QED  BY <2>1, <2>2 DEF Seen
<1>12. CASE m + 1 \in b + 1 .. e
  <2>1. /\ t.more = TRUE /\ t.highest = h /\ t.nextUser = K[m + 1].user
        /\ t \in ScanStates
    <3>1. t = [more |-> TRUE, highest |-> h, stray |-> FALSE,
               nextUser |-> K[m + 1].user]
      BY <1>8, <1>9, <1>12 DEF Decodes, Valid
    <3>2. K[m + 1].user \in Nat
      BY <1>1, <1>12
    <3> QED  BY <1>10, <3>1, <3>2 DEF ScanStates
  <2>2. K[m + 1].user >= s.nextUser + 1
    BY <1>1, <1>2, <1>4, <1>12
  <2>3. Seen(K, b, e, (m + 1) - 1, h)
    BY <1>1, <1>11
  <2>4. Standing(K, b, e, t, m + 1)
    BY <1>12, <2>1, <2>3 DEF Standing
  <2> QED  BY <1>12, <2>1, <2>2, <2>4 DEF ScanGood
<1>13. CASE ~ (m + 1 \in b + 1 .. e)
  <2>1. t = [more |-> FALSE, highest |-> h, stray |-> FALSE, nextUser |-> s.nextUser]
    BY <1>8, <1>9, <1>13 DEF Decodes, Valid
  <2>2. t.more = FALSE /\ t.highest = h /\ t \in ScanStates
    BY <1>2, <1>10, <2>1 DEF ScanStates
  <2>3. m = e
    BY <1>1, <1>5, <1>13
  <2> QED  BY <1>11, <2>2, <2>3 DEF ScanGood
<1> QED  BY <1>12, <1>13

ScanTurns(f, K, b, e) ==
    /\ f[0] = StartScan(K)
    /\ \A n \in Nat : f[n + 1] = IF f[n].more THEN ScanUser(K, f[n]) ELSE f[n]

LEMMA ScanUnfolds ==
    ASSUME NEW K, NEW b, NEW e, NEW n, HasTable(K, b, e, n)
    PROVE  \E f : ScanTurns(f, K, b, e) /\ \A k \in Nat : Scan(K, k) = f[k]
<1> DEFINE G == {s \in ScanStates : ScanGood(K, b, e, s)}
           Unfolds(f) == f = [i \in Nat |->
                                 IF i = 0 THEN StartScan(K)
                                 ELSE IF f[i - 1].more THEN ScanUser(K, f[i - 1])
                                 ELSE f[i - 1]]
<1>1. StartScan(K) \in G
  <2>1. ScanGood(K, b, e, StartScan(K))
    BY ScanStarts
  <2> QED  BY <2>1 DEF ScanGood
<1>2. ASSUME NEW s \in G
      PROVE  (IF s.more THEN ScanUser(K, s) ELSE s) \in G
  <2>1. CASE s.more
    <3>1. ScanGood(K, b, e, ScanUser(K, s))
      BY <2>1, ScanTurn
    <3> QED  BY <2>1, <3>1 DEF ScanGood
  <2>2. CASE ~s.more
    BY <2>2
  <2> QED  BY <2>1, <2>2
<1> HIDE DEF G
<1>3. PICK step \in [G -> G] :
         step = [s \in G |-> IF s.more THEN ScanUser(K, s) ELSE s]
  BY <1>2
<1>4. \E f : Unfolds(f)
  <2>1. PICK f : Iteration(f, G, StartScan(K), step)
    BY <1>1, Recursion
  <2>2. ASSUME NEW i \in Nat
        PROVE  f[i] = IF i = 0 THEN StartScan(K)
                      ELSE IF f[i - 1].more THEN ScanUser(K, f[i - 1])
                      ELSE f[i - 1]
    <3>1. CASE i = 0
      BY <2>1, <3>1 DEF Iteration
    <3>2. CASE i # 0
      <4>1. i - 1 \in Nat /\ (i - 1) + 1 = i
        BY <3>2
      <4>2. f[(i - 1) + 1] = step[f[i - 1]] /\ f[i - 1] \in G
        BY <2>1, <4>1 DEF Iteration
      <4>3. step[f[i - 1]] = IF f[i - 1].more THEN ScanUser(K, f[i - 1])
                             ELSE f[i - 1]
        BY <1>3, <4>2
      <4> QED  BY <3>2, <4>1, <4>2, <4>3
    <3> QED  BY <3>1, <3>2
  <2>3. Unfolds(f)
    BY <2>1, <2>2 DEF Iteration
  <2> QED  BY <2>3
<1>5. PICK f : f = (CHOOSE g : Unfolds(g)) /\ \A k \in Nat : Scan(K, k) = f[k]
  BY DEF Scan
<1>6. Unfolds(f)
  <2> HIDE DEF Unfolds
  <2> QED  BY <1>4, <1>5
<1>7. f[0] = StartScan(K)
  BY <1>6
<1>8. ASSUME NEW k \in Nat
      PROVE  f[k + 1] = IF f[k].more THEN ScanUser(K, f[k]) ELSE f[k]
  <2>1. k + 1 \in Nat /\ k + 1 # 0 /\ (k + 1) - 1 = k
    OBVIOUS
  <2>2. \A i \in Nat : i # 0 => f[i] = IF f[i - 1].more THEN ScanUser(K, f[i - 1])
                                       ELSE f[i - 1]
    BY <1>6
  <2> QED  BY <2>1, <2>2
<1> HIDE DEF Unfolds
<1> QED  BY <1>5, <1>7, <1>8 DEF ScanTurns

(* A turn for each user is enough.                                         *)
LEMMA ScanEnds ==
    ASSUME NEW K, NEW b, NEW e, NEW n, HasTable(K, b, e, n)
    PROVE  ScanGood(K, b, e, Scan(K, n)) /\ ~Scan(K, n).more
<1>n. n \in Nat
  BY DEF HasTable
<1>1. PICK f : ScanTurns(f, K, b, e) /\ \A k \in Nat : Scan(K, k) = f[k]
  BY ScanUnfolds
<1>f. /\ f[0] = StartScan(K)
      /\ \A k \in Nat : f[k + 1] = IF f[k].more THEN ScanUser(K, f[k]) ELSE f[k]
  BY <1>1 DEF ScanTurns
<1> DEFINE S == {k \in Nat : /\ ScanGood(K, b, e, f[k])
                             /\ f[k].more => f[k].nextUser >= k + 1}
<1>2. 0 \in S
  BY <1>f, ScanStarts
<1>3. ASSUME NEW k \in S PROVE k + 1 \in S
  <2>0. k \in Nat /\ ScanGood(K, b, e, f[k])
    OBVIOUS
  <2>1. CASE f[k].more
    <3>1. f[k + 1] = ScanUser(K, f[k])
      BY <1>f, <2>0, <2>1
    <3>2. /\ ScanGood(K, b, e, f[k + 1])
          /\ f[k + 1].more => f[k + 1].nextUser >= f[k].nextUser + 1
      BY <2>0, <2>1, <3>1, ScanTurn
    <3>3. f[k].nextUser \in Nat /\ f[k].nextUser >= k + 1
      BY <2>0, <2>1 DEF ScanGood, ScanStates
    <3>4. f[k + 1].nextUser \in Nat
      BY <3>2 DEF ScanGood, ScanStates
    <3>5. f[k + 1].more => f[k + 1].nextUser >= (k + 1) + 1
      BY <2>0, <3>2, <3>3, <3>4
    <3> QED  BY <2>0, <3>2, <3>5
  <2>2. CASE ~f[k].more
    <3>1. f[k + 1] = f[k]
      BY <1>f, <2>0, <2>2
    <3> QED  BY <2>0, <2>2, <3>1
  <2> QED  BY <2>1, <2>2
<1> HIDE DEF S
<1>4. S = Nat
  BY <1>2, <1>3, Induction DEF S
<1>5. ScanGood(K, b, e, f[n]) /\ (f[n].more => f[n].nextUser >= n + 1)
  BY <1>n, <1>4 DEF S
<1>6. ASSUME f[n].more PROVE FALSE
  <2>1. PICK i \in b + 1 .. e : K[i].user = f[n].nextUser
    BY <1>5, <1>6 DEF ScanGood, Standing
  <2>2. K[i].user \in 1 .. n
    BY DEF HasTable
  <2> QED  BY <1>n, <1>5, <1>6, <2>1, <2>2
<1> QED  BY <1>n, <1>1, <1>5, <1>6

(* What the scan finds is one below the id that LoadNextBatchIdFromDb      *)
(* names.                                                                  *)
LEMMA ScanFinds ==
    ASSUME rows \in SUBSET Rows, IsFiniteSet(rows), Bounded(rows),
           NEW keys \in Databases
    PROVE  LET end == Scan(keys, Cardinality(Names))
           IN /\ ~end.more /\ ~end.stray
              /\ end.highest + 1 = LoadNextBatchIdFromDb(rows)
<1> PICK n, ids : n = Cardinality(Names) /\ ids = {r.id : r \in rows}
  OBVIOUS
<1>1. PICK b, e : HasTable(keys, b, e, n) /\ HasIds(keys, b, e, ids)
  BY DatabaseShape
<1> PICK end : end = Scan(keys, n)
  OBVIOUS
<1>2. ScanGood(keys, b, e, end) /\ ~end.more
  BY <1>1, ScanEnds
<1>3. /\ end.stray = FALSE /\ end.highest \in Nat
      /\ Seen(keys, b, e, e, end.highest)
  BY <1>2 DEF ScanGood, ScanStates
<1>4. /\ \A x \in ids : x <= end.highest
      /\ end.highest = 0 \/ end.highest \in ids
  BY <1>1, <1>3 DEF Seen, HasIds
<1>5. ids \in SUBSET Nat
  BY RowIds
<1> PICK all : all = {0} \cup ids
  OBVIOUS
<1>6. all \in SUBSET Nat /\ end.highest \in all /\ \A x \in all : x <= end.highest
  BY <1>3, <1>4, <1>5
<1>7. Max(all) \in all /\ end.highest <= Max(all)
  BY <1>3, <1>6, MaxOfBounded
<1>8. Max(all) = end.highest
  BY <1>3, <1>6, <1>7
<1>9. LoadNextBatchIdFromDb(rows) = 1 + Max(all)
  BY DEF LoadNextBatchIdFromDb
<1> QED  BY <1>2, <1>3, <1>8, <1>9

LEMMA ScanHolds == QueueInv => ScanFindsHighest
<1> SUFFICES ASSUME QueueInv PROVE ScanFindsHighest
  OBVIOUS
<1>1. rows \in SUBSET Rows /\ OneId(rows) /\ Bounded(rows)
  BY InvFacts DEF QueueInv, IdInv, QueueTyped
<1>2. IsFiniteSet(rows)
  BY <1>1, SortExists, SortedLen
<1> QED  BY <1>1, <1>2, ScanFinds DEF ScanFindsHighest

(* Rows, blocks and pipeline fit together in every reachable state, and    *)
(* whenever a queue is opened the scan ends, stays in its table and finds  *)
(* the highest id, whatever the database has around it                     *)
(* (LevelDbMutationQueue, SyncEngine, RemoteStore).                        *)
THEOREM QueueIsConsistent == QueueSpec => []QueueConsistent
<1>1. QueueInv => QueueConsistent
  BY PipelineInFront, ScanHolds DEF QueueInv, QueueConsistent
<1> QED  BY <1>1, QueueInvariant, PTL
=============================================================================
