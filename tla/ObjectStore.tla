------------------------------ MODULE ObjectStore ------------------------------
(***************************************************************************)
(* What the generated persistence code promises the engine: a table of     *)
(* objects under ids that are never given twice, where an object that is   *)
(* found is the object last written under its id, in all of its columns,   *)
(* whichever connection wrote it and whatever that connection did before.  *)
(***************************************************************************)
EXTENDS Naturals, Sequences, FiniteSets

CONSTANTS Users, Objects, NoResult

VARIABLES
    table, lastId, cursor,
    passed      \* the object the last operation was given or returned

storeVars == <<table, lastId, cursor, passed>>

StoreInit ==
    /\ table = <<>>
    /\ lastId = 0
    /\ cursor = [u \in Users |-> <<>>]
    /\ passed = NoResult

\* A new object gets an id of its own.
Put(o) ==
    /\ lastId' = lastId + 1
    /\ table' = [i \in DOMAIN table \cup {lastId'} |->
                   IF i = lastId' THEN o ELSE table[i]]
    /\ passed' = o /\ UNCHANGED cursor

Replace(id, o) ==
    /\ id \in DOMAIN table
    /\ table' = [table EXCEPT ![id] = o]
    /\ passed' = o /\ UNCHANGED <<lastId, cursor>>

Delete(ids) ==
    /\ table' = [i \in DOMAIN table \ ids |-> table[i]]
    /\ passed' = NoResult /\ UNCHANGED <<lastId, cursor>>

Get(id) ==
    /\ passed' = IF id \in DOMAIN table THEN table[id] ELSE NoResult
    /\ UNCHANGED <<table, lastId, cursor>>

\* A query sees the rows as they are when it is executed, in the order of ids.
InOrder(ids) ==
    [n \in 1 .. Cardinality(ids) |->
        table[CHOOSE i \in ids : Cardinality({ j \in ids : j <= i }) = n]]

Open(u, ids) ==
    /\ cursor' = [cursor EXCEPT ![u] = InOrder(ids)]
    /\ passed' = NoResult /\ UNCHANGED <<table, lastId>>

Fetch(u) ==
    /\ cursor[u] # <<>>
    /\ passed' = Head(cursor[u])
    /\ cursor' = [cursor EXCEPT ![u] = Tail(@)]
    /\ UNCHANGED <<table, lastId>>

\* An operation on an object that is not there throws and leaves the tables alone.
NotPersistent == passed' = NoResult /\ UNCHANGED <<table, lastId, cursor>>

StoreNext ==
    \/ \E o \in Objects : Put(o) \/ \E id \in 1 .. lastId : Replace(id, o)
    \/ \E ids \in SUBSET (1 .. lastId) : Delete(ids)
    \/ \E id \in 1 .. lastId : Get(id)
    \/ \E u \in Users : Fetch(u) \/ \E ids \in SUBSET DOMAIN table : Open(u, ids)
    \/ NotPersistent

StoreSpec == StoreInit /\ [][StoreNext]_storeVars
=============================================================================
