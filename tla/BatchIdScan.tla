----------------------------- MODULE BatchIdScan ----------------------------
(***************************************************************************)
(* How a mutation queue that is opened finds the highest batch id on disk  *)
(* (LoadNextBatchIdFromDb): without reading every row.  LevelDB keeps all  *)
(* tables in one sequence of keys; the mutations are the keys of one of    *)
(* them, by user and then by id.  The scan jumps to the first key past a   *)
(* user's rows and steps back by one, which is the user's last row.        *)
(*                                                                         *)
(* MutationQueue takes the result at its word: one above every id.  Here   *)
(* the scan runs on every table that MutationQueue opens a queue over,     *)
(* with and without the rows of other tables around it.                    *)
(***************************************************************************)
EXTENDS MutationQueue

Mutation(user, id) == [table |-> "mutation", user |-> user, id |-> id]
Other(t) == [table |-> t, user |-> 0, id |-> 0]

(* The table as LevelDB keeps it, a user who has rows being known by the   *)
(* place of its name among the names.                                      *)
Names == {r.user : r \in rows}
Keys(place) == {Mutation(place[r.user], r.id) : r \in rows}
Precedes(k, l) == k.user < l.user \/ (k.user = l.user /\ k.id < l.id)
Tables(place) ==
    {q \in [1 .. Cardinality(rows) -> Keys(place)] :
        \A i, j \in DOMAIN q : i < j => Precedes(q[i], q[j])}

(* Rows of other tables may come before and after.                         *)
Databases ==
    {before \o table \o after :
        table \in UNION {Tables(place) :
                            place \in Injection(Names, 1 .. Cardinality(Names))},
        before \in {<<>>, <<Other("earlier")>>},
        after \in {<<>>, <<Other("later")>>}}

-----------------------------------------------------------------------------
Valid(keys, i) == i \in DOMAIN keys
Decodes(keys, i) == Valid(keys, i) /\ keys[i].table = "mutation"

(* Seek: the first key that is not before the one that is sought, or the   *)
(* place after the last key, from the places of the keys before it.        *)
Seek(before) == 1 + Cardinality(before)

TableStart(keys) == Seek({i \in DOMAIN keys : keys[i].table = "earlier"})
UserEnd(keys, u) ==
    Seek({i \in DOMAIN keys : \/ keys[i].table = "earlier"
                              \/ keys[i].table = "mutation" /\ keys[i].user <= u})

(* The first row of the table names the first user.                        *)
StartScan(keys) ==
    LET i == TableStart(keys)
    IN [more |-> Decodes(keys, i), highest |-> 0, stray |-> FALSE,
        nextUser |-> IF Decodes(keys, i) THEN keys[i].user ELSE 0]

(* A mistake: the last user's last row decides.                            *)
ScanLastUser(keys, s) ==
    LET end == UserEnd(keys, s.nextUser)
        last == IF Valid(keys, end) THEN end - 1 ELSE Len(keys)
    IN [more |-> Decodes(keys, end), highest |-> keys[last].id,
        stray |-> s.stray \/ ~Decodes(keys, last),
        nextUser |-> IF Decodes(keys, end) THEN keys[end].user ELSE s.nextUser]

(* One turn of the loop: back from past the last key of all (SeekToLast),  *)
(* from the next user's first row or from another table's row (Prev).  The *)
(* scan is stray when the key it lands on is no mutation's ("There should  *)
(* have been a key previous to").                                          *)
ScanUser(keys, s) ==
    LET end == UserEnd(keys, s.nextUser)
        last == IF Valid(keys, end) THEN end - 1 ELSE Len(keys)
    IN [more |-> Decodes(keys, end), highest |-> Max({s.highest, keys[last].id}),
        stray |-> s.stray \/ ~Decodes(keys, last),
        nextUser |-> IF Decodes(keys, end) THEN keys[end].user ELSE s.nextUser]

(* The loop, after n turns at most.                                        *)
Scan(keys, n) ==
    LET scan[i \in Nat] ==
            IF i = 0 THEN StartScan(keys)
            ELSE IF scan[i - 1].more THEN ScanUser(keys, scan[i - 1])
            ELSE scan[i - 1]
    IN scan[n]

-----------------------------------------------------------------------------
OpensQueue == Idle /\ worker # <<>> /\ Head(worker).type = "credential"

(* Whenever a queue is opened, the scan ends after one turn for each user  *)
(* who has rows, never leaves the table, and finds what MutationQueue says *)
(* it finds: one below the next id, whosever row has it.                   *)
ScanFindsHighest ==
    OpensQueue =>
        \A keys \in Databases :
            LET end == Scan(keys, Cardinality(Names))
            IN /\ ~end.more /\ ~end.stray
               /\ end.highest + 1 = LoadNextBatchIdFromDb(rows)

(* Rows, blocks and pipeline fit together, on the ids that the scan of the *)
(* database hands out (LevelDbMutationQueue, SyncEngine, RemoteStore).     *)
QueueConsistent ==
    /\ QueueTypeOK /\ BlocksMeetTheirBatch /\ PipelineIsFront
    /\ ScanFindsHighest
=============================================================================
