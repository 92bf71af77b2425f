--------------------------- MODULE ObjectStatements ---------------------------
(***************************************************************************)
(* The persistence code ODB generates for Event and Prediction, on the     *)
(* connections of the engine's threads.  Each connection keeps, per class, *)
(* one image (a buffer per column, which moves when it grows) and three    *)
(* arrays of bindings that point into the image; version numbers say when  *)
(* an array has to be filled anew.  SQL text and bindings meet only in the *)
(* order of the columns.  (The array for the id points to a number, which  *)
(* never moves, and is left out.)                                          *)
(*                                                                         *)
(* A text is known by its column and length, a number by its column and    *)
(* one of two values.  A buffer moves exactly when its capacity changes,   *)
(* so a binding is good if it was made for the capacity the buffer has.    *)
(* An operation is one step: each runs in a transaction of its own thread, *)
(* and SQLite serializes them.                                             *)
(***************************************************************************)
EXTENDS Naturals, Sequences, FiniteSets

CONSTANTS
    Connections,
    LongColumns,    \* choices of the columns that are long in an object
    MaxRows,        \* rows at a time (bound of the model)
    MaxIds          \* rows ever persisted (bound of the model)

VARIABLES
    class,      \* "Event" or "Prediction", the same code for both
    version2,   \* is the database of version 2 (or still of version 1)?
    rows,       \* the table: id -> row
    lastId,     \* its sqlite_sequence: ids are AUTOINCREMENT
    stmts,      \* connection -> its statements and image for the class
    cursor,     \* connection -> rows its query has still to load
    passed      \* the object the last operation was given or returned

statementVars == <<class, version2, rows, lastId, stmts, cursor, passed>>

\* Order in which bind() fills the array, the id in front.
EventBind == <<"id", "label", "subLabel", "camera", "startTime", "endTime", "trackerId",
               "topScore", "score", "thumbnail", "hasClip", "licensePlateResults">>

PredictionBind == <<"id", "eventId", "frameId", "videoTimestamp", "streamTimestamp",
                    "data", "hasSubPredictions">>

\* Order of the columns in the text of INSERT.
EventInsert == <<"id", "label", "subLabel", "camera", "startTime", "endTime", "trackerId",
                 "topScore", "score", "thumbnail", "hasClip", "licensePlateResults">>

PredictionInsert == <<"id", "eventId", "frameId", "videoTimestamp", "streamTimestamp",
                      "data", "hasSubPredictions">>

\* Slip: two assignments of the statement swapped.
EventUpdateSwapped == <<"label", "subLabel", "camera", "endTime", "startTime", "trackerId",
                        "topScore", "score", "thumbnail", "hasClip", "licensePlateResults">>

\* Order in the text of UPDATE; the id comes last, in WHERE.
EventUpdate == <<"label", "subLabel", "camera", "startTime", "endTime", "trackerId",
                 "topScore", "score", "thumbnail", "hasClip", "licensePlateResults">>

PredictionUpdate == <<"eventId", "frameId", "videoTimestamp", "streamTimestamp",
                      "data", "hasSubPredictions">>

\* Order in the texts of find and query.
EventSelect == <<"id", "label", "subLabel", "camera", "startTime", "endTime", "trackerId",
                 "topScore", "score", "thumbnail", "hasClip", "licensePlateResults">>

PredictionSelect == <<"id", "eventId", "frameId", "videoTimestamp", "streamTimestamp",
                      "data", "hasSubPredictions">>

EventQuery == EventSelect

PredictionQuery == PredictionSelect

\* Columns whose image is a buffer with a capacity.
EventTexts == {"label", "subLabel", "camera", "startTime", "endTime", "thumbnail",
               "licensePlateResults"}

PredictionTexts == {"frameId", "videoTimestamp", "streamTimestamp", "data"}

\* Slip: a column is not enlarged after it was found truncated.
EventGrownButOne == EventTexts \ {"thumbnail"}

\* Columns grow() enlarges.
EventGrown == EventTexts

PredictionGrown == PredictionTexts

\* Columns init() copies from an object to the image (the id by the statement's kind),
\* and from the image to an object.
EventSaved == {"label", "subLabel", "camera", "startTime", "endTime", "trackerId",
               "topScore", "score", "thumbnail", "hasClip", "licensePlateResults"}

PredictionSaved == {"eventId", "frameId", "videoTimestamp", "streamTimestamp", "data",
                    "hasSubPredictions"}

EventLoaded == EventSaved

PredictionLoaded == PredictionSaved
------------------------------------------------------------------------------
(* One class at a time, with the columns the database's version has.       *)

Of(event, prediction) == IF class = "Event" THEN event ELSE prediction

\* Columns of version 2 are passed over while the database is of version 1.
Present(c) == version2 \/ c \notin {"licensePlateResults", "hasSubPredictions"}

\* The columns of an order that are present among its first n, for every n.
PresentUpTo(order) ==
    LET found[n \in 0 .. Len(order)] ==
            IF n = 0 THEN <<>>
            ELSE IF Present(order[n]) THEN Append(found[n - 1], order[n]) ELSE found[n - 1]
    IN  found
PresentIn(order) == PresentUpTo(order)[Len(order)]

Kinds == {"insert", "update", "select"}

Slots(kind) ==
    LET all == PresentIn(Of(EventBind, PredictionBind))
    IN  IF kind = "update" THEN Tail(all) ELSE all

InsertText == PresentIn(Of(EventInsert, PredictionInsert))
UpdateText == PresentIn(Of(EventUpdate, PredictionUpdate))
SelectText == PresentIn(Of(EventSelect, PredictionSelect))
QueryText == PresentIn(Of(EventQuery, PredictionQuery))

Columns == { c \in Of(EventSaved, PredictionSaved) : Present(c) }
Texts == Of(EventTexts, PredictionTexts)

Value(c, n) == [of |-> c, len |-> n]
Garbage == Value("freed memory", 0)
NoResult == <<>>

\* Objects of the class: some columns are long, the others short.
Objects == { [c \in Columns |-> Value(c, IF c \in long THEN 2 ELSE 1)] : long \in LongColumns }

\* The same for any class and version.
AnyObject ==
    UNION { { [c \in columns |-> Value(c, IF c \in long THEN 2 ELSE 1)] : long \in LongColumns } :
              columns \in { saved \ old : saved \in {EventSaved, PredictionSaved},
                              old \in {{}, {"licensePlateResults", "hasSubPredictions"}} } }

\* A binding array that was never filled has version 0 in the code.
Unbound == [bound |-> FALSE, version |-> 0, caps |-> [t \in Texts |-> 0]]

FreshStatements ==
    [val |-> [c \in Columns |-> Value(c, 0)], cap |-> [t \in Texts |-> 1], version |-> 0,
     made |-> [k \in Kinds |-> Unbound]]

StatementsInit ==
    /\ class \in {"Event", "Prediction"}
    /\ version2 \in BOOLEAN
    /\ rows = <<>> /\ lastId = 0
    /\ stmts = [u \in Connections |-> FreshStatements]
    /\ cursor = [u \in Connections |-> <<>>]
    /\ passed = NoResult
------------------------------------------------------------------------------
(* Image and bindings.                                                     *)

\* Slip: growing the image goes unnoticed.
ResizedQuietly(s, cap) == [s EXCEPT !.cap = cap]

\* A buffer that grows moves: whoever finds that one grew counts the version up.
Resized(s, cap) ==
    [s EXCEPT !.cap = cap, !.version = IF cap = s.cap THEN @ ELSE @ + 1]

\* init(image, object)
Save(s, o) ==
    LET saved == { c \in Of(EventSaved, PredictionSaved) : Present(c) }
        cap == [t \in Texts |-> IF t \in saved /\ o[t].len > s.cap[t] THEN o[t].len
                                ELSE s.cap[t]]
    IN  [Resized(s, cap) EXCEPT
            !.val = [c \in DOMAIN @ |-> IF c \in saved THEN o[c] ELSE @[c]]]

\* Slip: an array is filled once and for all.
BindOnce(s, kind) ==
    IF s.made[kind].bound THEN s
    ELSE [s EXCEPT !.made[kind] = [bound |-> TRUE, version |-> s.version, caps |-> s.cap]]

\* The array of this kind of statement is filled anew if the image has moved since.
Bind(s, kind) ==
    IF s.made[kind].bound /\ s.made[kind].version = s.version THEN s
    ELSE [s EXCEPT !.made[kind] = [bound |-> TRUE, version |-> s.version, caps |-> s.cap]]

\* Does this array still point to where the image keeps column c?
Points(s, kind, c) == c \in Texts => s.made[kind].caps[c] = s.cap[c]

\* What SQLite reads through the array, under the names of the statement's text.
Sent(s, kind, text) ==
    LET slots == Slots(kind)
        SlotOf(c) == slots[CHOOSE i \in DOMAIN text : text[i] = c]
    IN  [c \in Columns |-> IF Points(s, kind, SlotOf(c)) THEN s.val[SlotOf(c)] ELSE Garbage]

\* What it writes through the array: only values that fit, into the buffer it points to.
Received(s, row, text, columns) ==
    LET slots == Slots("select")
        written == { i \in DOMAIN text : text[i] \in columns /\ Points(s, "select", slots[i]) }
        At(c) == { i \in written : slots[i] = c }
    IN  [s EXCEPT !.val = [c \in DOMAIN @ |->
            IF At(c) = {} THEN @[c] ELSE row[text[CHOOSE i \in At(c) : TRUE]]]]

\* Load a row: what was truncated is fetched again, after its buffers have grown.
Load(s0, row, text) ==
    LET s == Bind(s0, "select")
        columns == Columns
        truncated == { c \in columns \cap Texts : row[c].len > s.made["select"].caps[c] }
        first == Received(s, row, text, columns \ truncated)
        grown == truncated \cap Of(EventGrown, PredictionGrown)
        again == Bind(Resized(first, [t \in Texts |-> IF t \in grown THEN row[t].len
                                                      ELSE first.cap[t]]), "select")
    IN  IF again.version = first.version THEN first
        ELSE Received(again, row, text, truncated)

Loaded(s) == [c \in Columns |-> IF c \in Of(EventLoaded, PredictionLoaded) THEN s.val[c]
                                ELSE Garbage]

------------------------------------------------------------------------------
(* The operations.                                                         *)

\* Slip: the statement runs on whatever the array points to.
PersistUnbound(u, o) ==
    LET s == Save(stmts[u], o) IN
    /\ lastId < MaxIds /\ Cardinality(DOMAIN rows) < MaxRows
    /\ lastId' = lastId + 1
    /\ rows' = [i \in DOMAIN rows \cup {lastId'} |->
                  IF i = lastId' THEN Sent(s, "insert", InsertText) ELSE rows[i]]
    /\ stmts' = [stmts EXCEPT ![u] = s]
    /\ passed' = o /\ UNCHANGED <<class, version2, cursor>>

\* The id is sent as NULL; SQLite gives the next one, and the object gets it back.
Persist(u, o) ==
    LET s == Bind(Save(stmts[u], o), "insert") IN
    /\ lastId < MaxIds /\ Cardinality(DOMAIN rows) < MaxRows
    /\ lastId' = lastId + 1
    /\ rows' = [i \in DOMAIN rows \cup {lastId'} |->
                  IF i = lastId' THEN Sent(s, "insert", InsertText) ELSE rows[i]]
    /\ stmts' = [stmts EXCEPT ![u] = s]
    /\ passed' = o /\ UNCHANGED <<class, version2, cursor>>

\* No row under that id: object_not_persistent, after the image has been filled.
Update(u, id, o) ==
    LET s == Bind(Save(stmts[u], o), "update") IN
    /\ rows' = IF id \in DOMAIN rows
               THEN [rows EXCEPT ![id] = Sent(s, "update", UpdateText)] ELSE rows
    /\ stmts' = [stmts EXCEPT ![u] = s]
    /\ passed' = IF id \in DOMAIN rows THEN o ELSE NoResult
    /\ UNCHANGED <<class, version2, lastId, cursor>>

\* erase() by id, erase_query() by a condition.
Erase(u, ids) ==
    /\ rows' = [i \in DOMAIN rows \ ids |-> rows[i]]
    /\ passed' = NoResult /\ UNCHANGED <<class, version2, lastId, stmts, cursor>>

EraseQuery(u, ids) == Erase(u, ids)

\* find() and reload(), which share find_().
Find(u, id) ==
    LET s == Load(stmts[u], rows[id], SelectText) IN
    /\ IF id \in DOMAIN rows
       THEN passed' = Loaded(s) /\ stmts' = [stmts EXCEPT ![u] = s]
       ELSE passed' = NoResult /\ stmts' = [stmts EXCEPT ![u] = Bind(@, "select")]
    /\ UNCHANGED <<class, version2, rows, lastId, cursor>>

\* query() executes the statement; its result loads row after row, and other
\* operations on the connection may come between.
Query(u, ids) ==
    /\ cursor[u] = <<>>
    /\ stmts' = [stmts EXCEPT ![u] = Bind(@, "select")]
    /\ cursor' = [cursor EXCEPT ![u] =
                    [n \in 1 .. Cardinality(ids) |->
                        rows[CHOOSE i \in ids : Cardinality({ j \in ids : j <= i }) = n]]]
    /\ passed' = NoResult /\ UNCHANGED <<class, version2, rows, lastId>>

NextRow(u) ==
    /\ cursor[u] # <<>>
    /\ LET s == Load(stmts[u], Head(cursor[u]), QueryText) IN
         /\ passed' = Loaded(s)
         /\ stmts' = [stmts EXCEPT ![u] = s]
    /\ cursor' = [cursor EXCEPT ![u] = Tail(@)]
    /\ UNCHANGED <<class, version2, rows, lastId>>

StatementsNext ==
    \E u \in Connections :
        \/ \E o \in Objects : Persist(u, o)
        \/ \E o \in Objects, id \in 1 .. lastId : Update(u, id, o)
        \/ \E id \in 1 .. lastId : Erase(u, {id})
        \/ \E ids \in SUBSET DOMAIN rows : EraseQuery(u, ids)
        \/ \E id \in 1 .. lastId : Find(u, id)
        \/ \E ids \in SUBSET DOMAIN rows : Query(u, ids)
        \/ NextRow(u)

StatementsSpec == StatementsInit /\ [][StatementsNext]_statementVars
------------------------------------------------------------------------------
(* Properties.                                                             *)

StatementsTypeOK ==
    /\ class \in {"Event", "Prediction"} /\ version2 \in BOOLEAN
    /\ lastId \in Nat /\ DOMAIN rows \subseteq 1 .. lastId
    /\ \A u \in Connections :
         /\ stmts[u].cap \in [Texts -> Nat] /\ stmts[u].version \in Nat
         /\ stmts[u].made \in [Kinds -> [bound : BOOLEAN, version : Nat, caps : [Texts -> Nat]]]

\* An array of bindings that passes for current points to the buffers the image has
\* now, however they grew: by saving objects with longer texts, by loading rows that
\* another connection wrote, or between two rows of a query.
BindingsAreLive ==
    \A u \in Connections, k \in Kinds :
        LET array == stmts[u].made[k]
        IN  array.bound /\ array.version = stmts[u].version => array.caps = stmts[u].cap

\* The statements implement the object table: every column of every object arrives in
\* the column of its name and comes back, from whichever connection, and an id is
\* never given to a second row.
Store == INSTANCE ObjectStore
            WITH Users <- Connections, Objects <- AnyObject, table <- rows
KeepsObjects == Store!StoreSpec
=============================================================================
