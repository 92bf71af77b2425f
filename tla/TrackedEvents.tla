----------------------------- MODULE TrackedEvents -----------------------------
(***************************************************************************)
(* The event side of the engine: the TrackedObjectProcessor thread, which  *)
(* turns the tracked objects of each frame into rows of the Event and      *)
(* Prediction tables, the LPRSessionWorker, which reads a completed        *)
(* event's row and writes it back with the plate text, the database both   *)
(* share, and the part of APSSEngine::stop that ends the processor.        *)
(*                                                                         *)
(* The worker is never moved to the thread made for it, so its slot runs   *)
(* in the event loop of the main thread, where APSSEngine::stop runs too:  *)
(* concurrent with the processor, but not with stop.                       *)
(*                                                                         *)
(* A transaction is one step: it commits as a whole or leaves no trace in  *)
(* the tables, whatever it has already done to the processor's memory.     *)
(* Any track may show up in any frame: the tracker keeps ids for longer    *)
(* than MaxLost frames (trackBuffer), does not age them on frames without  *)
(* objects (an early return), and frames may be dropped before this point. *)
(***************************************************************************)
EXTENDS Naturals, Sequences, FiniteSets

CONSTANTS
    Cameras,
    Trackers,       \* tracker ids of one camera
    Scores,         \* confidences a detection may have
    MaxLost,        \* TRACK_MAX_EVENTS
    StepsMayFail,   \* may handling an object, or a transaction, throw?
    CommitMayFail,  \* may the COMMIT that persists a new event throw?
    MaxObjects,     \* tracked objects in one frame (bound of the model)
    MaxFrames       \* frames taken per camera (bound of the model)

ASSUME EventsAssumption ==
    /\ Scores \subseteq Nat
    /\ MaxLost \in Nat
    /\ StepsMayFail \in BOOLEAN
    /\ CommitMayFail \in BOOLEAN
    /\ MaxObjects \in Nat
    /\ MaxFrames \in Nat

VARIABLES
    frames,     \* camera -> frames taken so far; numbers the current frame
    history,    \* cameras_history: track -> its TrackedEvent, or NoEntry
    pc,         \* where the processor thread is
    camera,     \* camera of the frame in hand
    todo,       \* objects of that frame still to be handled
    unsaved,    \* tracks finalizeAllEvents has still to write
    events,     \* the Event table: id -> row
    stored,     \* the Prediction table
    announced,  \* ids eventCompleted was emitted for, in order
    heard,      \* how many of them the recognizer has taken from its event loop
    lpr,        \* the recognizer: the event it works on, or 0, and its row
    stopping    \* how far APSSEngine::stop has got

processorVars == <<frames, history, pc, camera, todo, unsaved>>
databaseVars == <<events, stored>>
recognizerVars == <<heard, lpr>>
vars == <<processorVars, databaseVars, announced, recognizerVars, stopping>>

Track == [camera : Cameras, tracker : Trackers]
Object == [tracker : Trackers, score : Scores]

\* Objects of a frame that carry a tracker id, in the order of its predictions.
Contents == { s \in UNION { [1 .. n -> Object] : n \in 0 .. MaxObjects } :
                \A i, j \in DOMAIN s : s[i].tracker = s[j].tracker => i = j }

\* Id 0 is the value-initialised TrackedEvent; rows are numbered from 1.
NoEntry == [id |-> 0, known |-> FALSE, persisted |-> FALSE, lost |-> 0,
            ended |-> 0, top |-> 0, sightings |-> <<>>]

IdleRecognizer == [id |-> 0, row |-> <<>>]

Init ==
    /\ frames = [c \in Cameras |-> 0]
    /\ history = [t \in Track |-> NoEntry]
    /\ pc = "loop"
    /\ camera \in Cameras
    /\ todo = <<>>
    /\ unsaved = {}
    /\ events = <<>>
    /\ stored = <<>>
    /\ announced = <<>>
    /\ heard = 0
    /\ lpr = IdleRecognizer
    /\ stopping = "no"
------------------------------------------------------------------------------
(* TrackedObjectProcessor: the loop of run() and processFrame.             *)

\* while(!isInterruptionRequested()): on the way out every event is finalized.
LoopCheck ==
    /\ pc = "loop"
    /\ IF stopping # "no"
       THEN /\ pc' = "finalize"
            /\ unsaved' = { t \in Track : history[t].known }
       ELSE /\ pc' = "pop"
            /\ UNCHANGED unsaved
    /\ UNCHANGED <<frames, history, camera, todo, databaseVars,
                   announced, recognizerVars, stopping>>

\* Slip: one lost counter for the tracks of all cameras.
TakeFrameAgesEveryCamera(c, objects) ==
    /\ pc = "pop"
    /\ frames[c] < MaxFrames
    /\ frames' = [frames EXCEPT ![c] = @ + 1]
    /\ camera' = c
    /\ todo' = objects
    /\ history' = [t \in Track |->
                     IF history[t].known THEN [history[t] EXCEPT !.lost = @ + 1]
                     ELSE history[t]]
    /\ pc' = "objects"
    /\ UNCHANGED <<unsaved, databaseVars, announced, recognizerVars, stopping>>

\* A frame of camera c arrives: every track of that camera is lost once more.
TakeFrame(c, objects) ==
    /\ pc = "pop"
    /\ frames[c] < MaxFrames
    /\ frames' = [frames EXCEPT ![c] = @ + 1]
    /\ camera' = c
    /\ todo' = objects
    /\ history' = [t \in Track |->
                     IF t.camera = c /\ history[t].known
                     THEN [history[t] EXCEPT !.lost = @ + 1] ELSE history[t]]
    /\ pc' = "objects"
    /\ UNCHANGED <<unsaved, databaseVars, announced, recognizerVars, stopping>>

Object1 == Head(todo)
Track1 == [camera |-> camera, tracker |-> Object1.tracker]
Sighting(id) == [event |-> id, track |-> Track1,
                 frame |-> frames[camera], score |-> Object1.score]

\* An exception leaves the loop over the frame's objects.
AbandonFrame == pc' = "cleanup" /\ todo' = <<>>

PersistEvent ==
    LET t == Track1
        id == Len(events) + 1
    IN
    /\ pc = "objects" /\ todo # <<>>
    /\ ~history[t].persisted
    /\ events' = Append(events, [track |-> t, start |-> frames[camera], ended |-> 0,
                                 top |-> Object1.score, plates |-> FALSE])
    /\ history' = [history EXCEPT ![t] = [history[t] EXCEPT
                     !.id = id, !.known = TRUE, !.persisted = TRUE, !.lost = 0,
                     !.top = Object1.score, !.sightings = Append(@, Sighting(id))]]
    /\ todo' = Tail(todo)
    /\ UNCHANGED <<frames, pc, camera, unsaved, stored, announced,
                   recognizerVars, stopping>>

\* The row is rolled back, but the id and the prediction stay in memory; the
\* next event to be persisted is given the same id.
PersistCommitFails ==
    LET t == Track1
        id == Len(events) + 1
    IN
    /\ CommitMayFail
    /\ pc = "objects" /\ todo # <<>>
    /\ ~history[t].persisted
    /\ history' = [history EXCEPT ![t] = [history[t] EXCEPT
                     !.id = id, !.known = TRUE, !.lost = 0,
                     !.top = Object1.score, !.sightings = Append(@, Sighting(id))]]
    /\ AbandonFrame
    /\ UNCHANGED <<frames, camera, unsaved, databaseVars, announced,
                   recognizerVars, stopping>>

\* Slip: the latest score replaces the top score.
UpdateTakesLatestScore ==
    LET t == Track1 IN
    /\ pc = "objects" /\ todo # <<>>
    /\ history[t].persisted
    /\ history' = [history EXCEPT ![t] = [history[t] EXCEPT
                     !.lost = 0, !.ended = frames[camera], !.top = Object1.score,
                     !.sightings = Append(@, Sighting(history[t].id))]]
    /\ todo' = Tail(todo)
    /\ UNCHANGED <<frames, pc, camera, unsaved, databaseVars, announced,
                   recognizerVars, stopping>>

UpdateEvent ==
    LET t == Track1 IN
    /\ pc = "objects" /\ todo # <<>>
    /\ history[t].persisted
    /\ history' = [history EXCEPT ![t] = [history[t] EXCEPT
                     !.lost = 0, !.ended = frames[camera],
                     !.top = IF Object1.score > @ THEN Object1.score ELSE @,
                     !.sightings = Append(@, Sighting(history[t].id))]]
    /\ todo' = Tail(todo)
    /\ UNCHANGED <<frames, pc, camera, unsaved, databaseVars, announced,
                   recognizerVars, stopping>>

\* Cropping, writing an image, or the transaction up to its INSERT throws: the
\* entry exists and is not lost, and the rest of the frame is skipped.
ObjectFails ==
    /\ StepsMayFail
    /\ pc = "objects" /\ todo # <<>>
    /\ history' = [history EXCEPT ![Track1] = [@ EXCEPT !.known = TRUE, !.lost = 0]]
    /\ AbandonFrame
    /\ UNCHANGED <<frames, camera, unsaved, databaseVars, announced,
                   recognizerVars, stopping>>

ObjectsDone ==
    /\ pc = "objects" /\ todo = <<>>
    /\ pc' = "cleanup"
    /\ UNCHANGED <<frames, history, camera, todo, unsaved, databaseVars,
                   announced, recognizerVars, stopping>>
------------------------------------------------------------------------------
(* cleanupLostTracks and finalizeAllEvents.                                *)

\* Slip: >= instead of >.
LostTracksTooSoon ==
    { t \in Track : t.camera = camera /\ history[t].known /\ history[t].lost >= MaxLost }

LostTracks ==
    { t \in Track : t.camera = camera /\ history[t].known /\ history[t].lost > MaxLost }

\* The transaction both use: load the row by id, write the outcome to it and
\* insert the predictions; load throws when there is no such row.
WriteOutcome(t) ==
    LET e == history[t] IN
    /\ e.id \in 1 .. Len(events)
    /\ events' = [events EXCEPT ![e.id] = [@ EXCEPT !.ended = e.ended, !.top = e.top]]
    /\ stored' = stored \o e.sightings

\* Slip: the entry is not erased.
CompleteKeepsEntry(t) ==
    /\ pc = "cleanup"
    /\ t \in LostTracks
    /\ WriteOutcome(t)
    /\ announced' = Append(announced, history[t].id)
    /\ UNCHANGED <<frames, history, pc, camera, todo, unsaved, recognizerVars, stopping>>

CompleteEvent(t) ==
    /\ pc = "cleanup"
    /\ t \in LostTracks
    /\ WriteOutcome(t)
    /\ announced' = Append(announced, history[t].id)
    /\ history' = [history EXCEPT ![t] = NoEntry]
    /\ UNCHANGED <<frames, pc, camera, todo, unsaved, recognizerVars, stopping>>

\* Slip: eventCompleted is emitted whether the transaction commits or not.
CompleteFailsAnnounces(t) ==
    /\ pc = "cleanup"
    /\ t \in LostTracks
    /\ StepsMayFail \/ history[t].id \notin 1 .. Len(events)
    /\ announced' = Append(announced, history[t].id)
    /\ pc' = "loop"
    /\ UNCHANGED <<frames, history, camera, todo, unsaved, databaseVars,
                   recognizerVars, stopping>>

\* Slip: the entry is erased even when the transaction failed.
CompleteFailsErases(t) ==
    /\ pc = "cleanup"
    /\ t \in LostTracks
    /\ StepsMayFail \/ history[t].id \notin 1 .. Len(events)
    /\ history' = [history EXCEPT ![t] = NoEntry]
    /\ pc' = "loop"
    /\ UNCHANGED <<frames, camera, todo, unsaved, databaseVars,
                   announced, recognizerVars, stopping>>

\* The exception ends the clean-up; tracks not reached wait for the next frame.
CompleteFails(t) ==
    /\ pc = "cleanup"
    /\ t \in LostTracks
    /\ StepsMayFail \/ history[t].id \notin 1 .. Len(events)
    /\ pc' = "loop"
    /\ UNCHANGED <<frames, history, camera, todo, unsaved, databaseVars,
                   announced, recognizerVars, stopping>>

CleanupDone ==
    /\ pc = "cleanup"
    /\ LostTracks = {}
    /\ pc' = "loop"
    /\ UNCHANGED <<frames, history, camera, todo, unsaved, databaseVars,
                   announced, recognizerVars, stopping>>

\* As CompleteEvent, but no signal is emitted.
FinalizeEvent(t) ==
    /\ pc = "finalize"
    /\ t \in unsaved
    /\ WriteOutcome(t)
    /\ unsaved' = unsaved \ {t}
    /\ UNCHANGED <<frames, history, pc, camera, todo, announced,
                   recognizerVars, stopping>>

FinalizeFails(t) ==
    /\ pc = "finalize"
    /\ t \in unsaved
    /\ StepsMayFail \/ history[t].id \notin 1 .. Len(events)
    /\ pc' = "stopped"
    /\ UNCHANGED <<frames, history, camera, todo, unsaved, databaseVars,
                   announced, recognizerVars, stopping>>

FinalizeDone ==
    /\ pc = "finalize"
    /\ unsaved = {}
    /\ pc' = "stopped"
    /\ UNCHANGED <<frames, history, camera, todo, unsaved, databaseVars,
                   announced, recognizerVars, stopping>>
------------------------------------------------------------------------------
(* LPRSessionWorker::process, run by the main event loop once per signal.  *)

LprLoad ==
    LET id == announced[heard + 1] IN
    /\ lpr.id = 0
    /\ stopping = "no"
    /\ heard < Len(announced)
    /\ heard' = heard + 1
    /\ lpr' = [id |-> id, row |-> events[id]]
    /\ UNCHANGED <<processorVars, databaseVars, announced, stopping>>

\* No plate image, or a step of process() throws.
LprGiveUp ==
    /\ lpr.id # 0
    /\ lpr' = IdleRecognizer
    /\ UNCHANGED <<processorVars, databaseVars, announced, heard, stopping>>

\* The second transaction writes the whole row it loaded in the first.
LprUpdate ==
    /\ lpr.id # 0
    /\ events' = [events EXCEPT ![lpr.id] = [lpr.row EXCEPT !.plates = TRUE]]
    /\ lpr' = IdleRecognizer
    /\ UNCHANGED <<processorVars, stored, announced, heard, stopping>>
------------------------------------------------------------------------------
(* APSSEngine::stop, the part about this thread.                           *)

\* No slot is running, and signals still queued are never delivered.
InterruptProcessor ==
    /\ stopping = "no"
    /\ lpr.id = 0
    /\ stopping' = "interrupted"
    /\ UNCHANGED <<processorVars, databaseVars, announced, recognizerVars>>

\* abort() throws user_abort in a pop that blocks now: run() ends at once.  A
\* processor that has checked for interruption but is not yet blocked misses it.
AbortQueue ==
    /\ stopping = "interrupted"
    /\ stopping' = "aborted"
    /\ IF pc = "pop" THEN pc' \in {"pop", "stopped"} ELSE UNCHANGED pc
    /\ UNCHANGED <<frames, history, camera, todo, unsaved, databaseVars,
                   announced, recognizerVars>>

\* Nothing is left to run.
Stopped ==
    /\ stopping = "aborted"
    /\ pc \in {"pop", "stopped"}
    /\ UNCHANGED vars

Next ==
    \/ LoopCheck
    \/ \E c \in Cameras, objects \in Contents : TakeFrame(c, objects)
    \/ PersistEvent \/ PersistCommitFails \/ UpdateEvent \/ ObjectFails \/ ObjectsDone
    \/ \E t \in Track : CompleteEvent(t) \/ CompleteFails(t)
    \/ CleanupDone
    \/ \E t \in Track : FinalizeEvent(t) \/ FinalizeFails(t)
    \/ FinalizeDone
    \/ LprLoad \/ LprGiveUp \/ LprUpdate
    \/ InterruptProcessor \/ AbortQueue
    \/ Stopped

Spec == Init /\ [][Next]_vars
------------------------------------------------------------------------------
(* Properties.                                                             *)

EventId == 1 .. Len(events)
Stage == {"loop", "pop", "objects", "cleanup", "finalize", "stopped"}
Record == [event : Nat, track : Track, frame : Nat, score : Nat]
Row == [track : Track, start : Nat, ended : Nat, top : Nat, plates : BOOLEAN]
Entry == [id : Nat, known : BOOLEAN, persisted : BOOLEAN, lost : Nat,
          ended : Nat, top : Nat, sightings : Seq(Record)]

(***************************************************************************)
(* Type correctness, with the range of every id that crosses to the        *)
(* recognizer and the frame a clean-up may be about.                       *)
(***************************************************************************)
TypeOK ==
    /\ frames \in [Cameras -> 0 .. MaxFrames]
    /\ history \in [Track -> Entry]
    /\ pc \in Stage
    /\ camera \in Cameras
    /\ todo \in Seq(Object)
    /\ unsaved \in SUBSET Track
    /\ events \in Seq(Row)
    /\ stored \in Seq(Record)
    /\ announced \in Seq(EventId)
    /\ heard \in 0 .. Len(announced)
    /\ lpr \in [id : {0}, row : {<<>>}] \cup [id : EventId, row : Row]
    /\ stopping \in {"no", "interrupted", "aborted"}

\* The outcome of an event is written together with its predictions.
Closed(id) == \E i \in 1 .. Len(stored) : stored[i].event = id

(***************************************************************************)
(* eventCompleted is emitted at most once for an event, so that its plate  *)
(* is recognized at most once, whatever transactions fail and are retried. *)
(***************************************************************************)
CompletedOnce ==
    \A i, j \in 1 .. Len(announced) : announced[i] = announced[j] => i = j

\* The last frame of an event; one that was seen once has no end (null).
LastSeen(row) == IF row.ended = 0 THEN row.start ELSE row.ended

\* Row id agrees with what records, a sequence of predictions, says of the event.
AddsUp(records, id, row) ==
    LET mine == { i \in 1 .. Len(records) : records[i].event = id } IN
    /\ row.ended = 0 \/ row.ended > row.start
    /\ \A i \in mine : /\ records[i].track = row.track
                       /\ row.start <= records[i].frame /\ records[i].frame <= LastSeen(row)
                       /\ records[i].score <= row.top
    /\ \A i, j \in mine : i < j => records[i].frame < records[j].frame
    /\ \E i \in mine : records[i].frame = row.start
    /\ \E i \in mine : records[i].frame = LastSeen(row)
    /\ \E i \in mine : records[i].score = row.top

(***************************************************************************)
(* A written event agrees with its predictions: they are of its own track, *)
(* in frame order, the first at its start and the last at its end (null    *)
(* for an event seen once), and its top score is the best among them.      *)
(***************************************************************************)
OutcomeAddsUp ==
    \A id \in EventId : Closed(id) => AddsUp(stored, id, events[id])

(***************************************************************************)
(* No event is forgotten: until its outcome is written, the processor      *)
(* remembers the event under its own track, even when a clean-up failed.   *)
(***************************************************************************)
NoEventForgotten ==
    \A id \in EventId : ~Closed(id) =>
        history[events[id].track].persisted /\ history[events[id].track].id = id

\* A row, and whether its outcome is written.
LogRow(i) == [track |-> events[i].track, start |-> events[i].start, ended |-> events[i].ended,
              top |-> events[i].top, plates |-> events[i].plates, closed |-> Closed(i)]

(***************************************************************************)
(* The Event table is kept as EventLog promises: a track has at most one   *)
(* open event, a new one starts more than MaxLost frames after the last    *)
(* was seen, an outcome is written once, and the recognizer, which writes  *)
(* whole rows it read earlier, changes nothing but the plate text.         *)
(***************************************************************************)
Log == INSTANCE EventLog WITH log <- [i \in EventId |-> LogRow(i)]
KeepsLog == Log!Spec

(***************************************************************************)
(* Comment at trackedobjectprocessor.cpp:294, "Submit the remaining        *)
(* events": when the processor's thread has ended, no event is left open.  *)
(***************************************************************************)
RemainingSubmitted == pc = "stopped" => \A id \in EventId : Closed(id)
===============================================================================
