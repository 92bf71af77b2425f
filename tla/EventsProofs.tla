------------------------------ MODULE EventsProofs ------------------------------
(***************************************************************************)
(* Theorems about TrackedEvents and, at the end, about Evidence.           *)
(*                                                                         *)
(* TrackedEvents: no event is forgotten whatever fails; unless a COMMIT    *)
(* fails, eventCompleted is emitted once per event, outcomes agree with    *)
(* the predictions stored for them, and the table is an event log.         *)
(*                                                                         *)
(* Evidence: it is TrackedEvents with pictures; a followed track shows     *)
(* itself, and no plate is read that is older than the event it is read    *)
(* for, as long as imwrite does not fail.                                  *)
(***************************************************************************)
EXTENDS Evidence, SequenceTheorems, TLAPS

USE EventsAssumption DEF EventsAssumption

\* What is taken from the frame in hand: an object, its track and its record.
LEMMA InHand ==
    ASSUME TypeOK, todo # <<>>
    PROVE  /\ Object1 \in Object
           /\ Object1.score \in Nat
           /\ Track1 \in Track
           /\ Tail(todo) \in Seq(Object)
           /\ \A id \in Nat : Sighting(id) \in Record
<1>1. Object1 \in Object /\ Tail(todo) \in Seq(Object)
  BY HeadTailProperties DEF TypeOK, Object1
<1>2. Object1.tracker \in Trackers /\ Object1.score \in Nat
  BY <1>1 DEF Object
<1>3. Track1 \in Track
  BY <1>2 DEF Track1, Track, TypeOK
<1>4. frames[camera] \in Nat
  BY DEF TypeOK
<1>5. QED
  BY <1>1, <1>2, <1>3, <1>4 DEF Sighting, Record

\* One more record in a track's entry.
LEMMA EntrySeen ==
    ASSUME NEW e \in Entry, NEW r \in Record
    PROVE  Append(e.sightings, r) \in Seq(Record)
<1>1. e.sightings \in Seq(Record)
  BY DEF Entry
<1>2. QED
  BY <1>1, AppendProperties

\* What a frame brings is a sequence of objects.
LEMMA ContentsAreObjects == \A s \in Contents : s \in Seq(Object)
  BY DEF Contents

\* Ids known to the recognizer stay ids of the table when it grows.
LEMMA IdsGrow ==
    ASSUME NEW m \in Nat, NEW n \in Nat, m <= n, NEW s \in Seq(1 .. m)
    PROVE  s \in Seq(1 .. n)
<1>1. s \in [1 .. Len(s) -> 1 .. m] /\ Len(s) \in Nat
  BY LenProperties
<1>2. s \in [1 .. Len(s) -> 1 .. n]
  BY <1>1
<1>3. QED
  BY <1>1, <1>2, IsASeq

\* The transaction that writes an outcome keeps the tables' types.
LEMMA WriteOutcomeType ==
    ASSUME TypeOK, NEW t \in Track, WriteOutcome(t)
    PROVE  /\ history[t].id \in EventId
           /\ events' \in Seq(Row)
           /\ Len(events') = Len(events)
           /\ stored' \in Seq(Record)
           /\ stored' = stored \o history[t].sightings
<1>1. history[t] \in Entry /\ history[t].sightings \in Seq(Record)
  BY DEF TypeOK, Entry
<1>2. history[t].id \in 1 .. Len(events)
  BY DEF WriteOutcome
<1>3. events[history[t].id] \in Row
  BY <1>2, ElementOfSeq DEF TypeOK
<1>4. [events[history[t].id] EXCEPT !.ended = history[t].ended, !.top = history[t].top] \in Row
  BY <1>1, <1>3 DEF Row, Entry
<1>5. events' = [events EXCEPT ![history[t].id] =
                  [events[history[t].id] EXCEPT !.ended = history[t].ended, !.top = history[t].top]]
  BY DEF WriteOutcome
<1>6. events' \in Seq(Row) /\ Len(events') = Len(events)
  BY <1>2, <1>4, <1>5, ExceptSeq DEF TypeOK
<1>7. stored' = stored \o history[t].sightings
  BY DEF WriteOutcome
<1>8. stored' \in Seq(Record)
  BY <1>1, <1>7, ConcatProperties DEF TypeOK
<1>9. QED
  BY <1>2, <1>6, <1>7, <1>8 DEF EventId

\* No thread has moved: every component has its type.
LEMMA TypeInit == Init => TypeOK
<1> SUFFICES ASSUME Init PROVE TypeOK
  OBVIOUS
<1>1. NoEntry \in Entry
  BY DEF NoEntry, Entry
<1>2. announced \in Seq(EventId) /\ heard \in 0 .. Len(announced)
  BY DEF Init
<1>3. lpr \in [id : {0}, row : {<<>>}]
  BY DEF Init, IdleRecognizer
<1>4. QED
  BY <1>1, <1>2, <1>3 DEF Init, TypeOK, Stage

\* Every step of processor, recognizer and stop() keeps the types.
LEMMA TypeNext == TypeOK /\ [Next]_vars => TypeOK'
<1> SUFFICES ASSUME TypeOK, [Next]_vars PROVE TypeOK'
  OBVIOUS
<1> USE DEF EventId
<1>1. CASE LoopCheck
  BY <1>1 DEF LoopCheck, TypeOK, databaseVars, recognizerVars, Stage
<1>2. ASSUME NEW c \in Cameras, NEW objects \in Contents, TakeFrame(c, objects) PROVE TypeOK'
  <2>1. history' \in [Track -> Entry]
    <3>1. ASSUME NEW t \in Track
          PROVE  [history[t] EXCEPT !.lost = @ + 1] \in Entry /\ history[t] \in Entry
      <4>1. history[t] \in Entry
        BY DEF TypeOK
      <4>2. history[t].lost + 1 \in Nat
        BY <4>1 DEF Entry
      <4>3. QED
        BY <4>1, <4>2 DEF Entry
    <3>2. history' = [t \in Track |->
                        IF t.camera = c /\ history[t].known
                        THEN [history[t] EXCEPT !.lost = @ + 1] ELSE history[t]]
      BY <1>2 DEF TakeFrame
    <3>3. QED
      BY <3>1, <3>2
  <2>2. frames' \in [Cameras -> 0 .. MaxFrames]
    BY <1>2 DEF TakeFrame, TypeOK
  <2>3. todo' \in Seq(Object)
    BY <1>2, ContentsAreObjects DEF TakeFrame
  <2>4. QED
    BY <1>2, <2>1, <2>2, <2>3 DEF TakeFrame, TypeOK, databaseVars, recognizerVars, Stage
<1>3. CASE PersistEvent
  <2> DEFINE id == Len(events) + 1
             e == [history[Track1] EXCEPT
                     !.id = id, !.known = TRUE, !.persisted = TRUE, !.lost = 0,
                     !.top = Object1.score, !.sightings = Append(@, Sighting(id))]
             row == [track |-> Track1, start |-> frames[camera], ended |-> 0,
                     top |-> Object1.score, plates |-> FALSE]
  <2>1. /\ Object1.score \in Nat /\ Track1 \in Track /\ Tail(todo) \in Seq(Object)
        /\ id \in Nat /\ Sighting(id) \in Record /\ frames[camera] \in Nat
    BY <1>3, InHand, LenProperties DEF PersistEvent, TypeOK
  <2>2. e \in Entry
    <3>1. history[Track1] \in Entry
      BY <2>1 DEF TypeOK
    <3>2. Append(history[Track1].sightings, Sighting(id)) \in Seq(Record)
      BY <2>1, <3>1, EntrySeen
    <3>3. QED
      BY <2>1, <3>1, <3>2 DEF Entry
  <2>3. history' \in [Track -> Entry]
    <3>1. history' = [history EXCEPT ![Track1] = e]
      BY <1>3 DEF PersistEvent
    <3>2. QED
      BY <3>1, <2>1, <2>2 DEF TypeOK
  <2>4. row \in Row
    BY <2>1 DEF Row
  <2>5. events' \in Seq(Row) /\ Len(events') = Len(events) + 1
    BY <1>3, <2>4, AppendProperties DEF PersistEvent, TypeOK
  <2>6. announced' \in Seq(1 .. Len(events'))
    BY <1>3, <2>1, <2>5, IdsGrow DEF PersistEvent, TypeOK
  <2>7. lpr' \in [id : {0}, row : {<<>>}] \cup [id : 1 .. Len(events'), row : Row]
    BY <1>3, <2>1, <2>5 DEF PersistEvent, TypeOK, recognizerVars
  <2>8. QED
    BY <1>3, <2>1, <2>3, <2>5, <2>6, <2>7 DEF PersistEvent, TypeOK, recognizerVars
<1>4. CASE PersistCommitFails
  <2> DEFINE id == Len(events) + 1
             e == [history[Track1] EXCEPT
                     !.id = id, !.known = TRUE, !.lost = 0,
                     !.top = Object1.score, !.sightings = Append(@, Sighting(id))]
  <2>0. id \in Nat
    BY LenProperties DEF TypeOK
  <2>1. /\ Object1.score \in Nat /\ Track1 \in Track
        /\ id \in Nat /\ Sighting(id) \in Record
    BY <1>4, <2>0, InHand DEF PersistCommitFails
  <2>2. e \in Entry
    <3>1. history[Track1] \in Entry
      BY <2>1 DEF TypeOK
    <3>2. Append(history[Track1].sightings, Sighting(id)) \in Seq(Record)
      BY <2>1, <3>1, EntrySeen
    <3>3. QED
      BY <2>1, <3>1, <3>2 DEF Entry
  <2>3. history' \in [Track -> Entry]
    <3>1. history' = [history EXCEPT ![Track1] = e]
      BY <1>4 DEF PersistCommitFails
    <3>2. QED
      BY <3>1, <2>1, <2>2 DEF TypeOK
  <2>4. QED
    BY <1>4, <2>3 DEF PersistCommitFails, AbandonFrame, TypeOK, databaseVars, recognizerVars, Stage
<1>5. CASE UpdateEvent
  <2> DEFINE id == history[Track1].id
             e == [history[Track1] EXCEPT
                     !.lost = 0, !.ended = frames[camera],
                     !.top = IF Object1.score > @ THEN Object1.score ELSE @,
                     !.sightings = Append(@, Sighting(id))]
  <2>1. /\ Object1.score \in Nat /\ Track1 \in Track /\ Tail(todo) \in Seq(Object)
        /\ frames[camera] \in Nat
    BY <1>5, InHand DEF UpdateEvent, TypeOK
  <2>2. id \in Nat /\ Sighting(id) \in Record
    BY <1>5, <2>1, InHand DEF UpdateEvent, TypeOK, Entry
  <2>3. e \in Entry
    <3>1. history[Track1] \in Entry
      BY <2>1 DEF TypeOK
    <3>2. Append(history[Track1].sightings, Sighting(id)) \in Seq(Record)
      BY <2>2, <3>1, EntrySeen
    <3>3. QED
      BY <2>1, <2>2, <3>1, <3>2 DEF Entry
  <2>4. history' \in [Track -> Entry]
    <3>1. history' = [history EXCEPT ![Track1] = e]
      BY <1>5 DEF UpdateEvent
    <3>2. QED
      BY <3>1, <2>1, <2>3 DEF TypeOK
  <2>5. QED
    BY <1>5, <2>1, <2>4 DEF UpdateEvent, TypeOK, databaseVars, recognizerVars, Stage
<1>6. CASE ObjectFails
  <2>1. Track1 \in Track
    BY <1>6, InHand DEF ObjectFails
  <2>2. history' \in [Track -> Entry]
    <3>1. history[Track1] \in Entry
      BY <2>1 DEF TypeOK
    <3>2. [history[Track1] EXCEPT !.known = TRUE, !.lost = 0] \in Entry
      BY <3>1 DEF Entry
    <3>3. history' = [history EXCEPT ![Track1] = [history[Track1] EXCEPT !.known = TRUE, !.lost = 0]]
      BY <1>6 DEF ObjectFails
    <3>4. QED
      BY <2>1, <3>2, <3>3 DEF TypeOK
  <2>3. QED
    BY <1>6, <2>2 DEF ObjectFails, AbandonFrame, TypeOK, databaseVars, recognizerVars, Stage
<1>7. CASE ObjectsDone
  BY <1>7 DEF ObjectsDone, TypeOK, databaseVars, recognizerVars, Stage
<1>8. ASSUME NEW t \in Track, CompleteEvent(t) PROVE TypeOK'
  <2>1. /\ history[t].id \in EventId /\ events' \in Seq(Row)
        /\ Len(events') = Len(events) /\ stored' \in Seq(Record)
    BY <1>8, WriteOutcomeType DEF CompleteEvent
  <2>2. history' \in [Track -> Entry]
    BY <1>8 DEF CompleteEvent, TypeOK, NoEntry, Entry
  <2>3. announced' \in Seq(EventId) /\ Len(announced') = Len(announced) + 1
    BY <1>8, <2>1, AppendProperties DEF CompleteEvent, TypeOK
  <2>4. heard' \in 0 .. Len(announced')
    BY <1>8, <2>3, LenProperties DEF CompleteEvent, TypeOK, recognizerVars
  <2>5. QED
    BY <1>8, <2>1, <2>2, <2>3, <2>4 DEF CompleteEvent, TypeOK, recognizerVars, Stage
<1>9. ASSUME NEW t \in Track, CompleteFails(t) PROVE TypeOK'
  BY <1>9 DEF CompleteFails, TypeOK, databaseVars, recognizerVars, Stage
<1>10. CASE CleanupDone
  BY <1>10 DEF CleanupDone, TypeOK, databaseVars, recognizerVars, Stage
<1>11. ASSUME NEW t \in Track, FinalizeEvent(t) PROVE TypeOK'
  <2>1. /\ events' \in Seq(Row) /\ Len(events') = Len(events) /\ stored' \in Seq(Record)
    BY <1>11, WriteOutcomeType DEF FinalizeEvent
  <2>2. QED
    BY <1>11, <2>1 DEF FinalizeEvent, TypeOK, recognizerVars, Stage
<1>12. ASSUME NEW t \in Track, FinalizeFails(t) PROVE TypeOK'
  BY <1>12 DEF FinalizeFails, TypeOK, databaseVars, recognizerVars, Stage
<1>13. CASE FinalizeDone
  BY <1>13 DEF FinalizeDone, TypeOK, databaseVars, recognizerVars, Stage
<1>14. CASE LprLoad
  <2>1. heard + 1 \in 1 .. Len(announced)
    BY <1>14, LenProperties DEF LprLoad, TypeOK
  <2>2. announced[heard + 1] \in EventId
    BY <2>1, ElementOfSeq DEF TypeOK
  <2>3. events[announced[heard + 1]] \in Row
    BY <2>2, ElementOfSeq DEF TypeOK
  <2>4. heard' \in 0 .. Len(announced) /\ lpr' \in [id : EventId, row : Row]
    BY <1>14, <2>1, <2>2, <2>3 DEF LprLoad
  <2>5. QED
    BY <1>14, <2>4 DEF LprLoad, TypeOK, processorVars, databaseVars
<1>15. CASE LprGiveUp
  BY <1>15 DEF LprGiveUp, IdleRecognizer, TypeOK, processorVars, databaseVars
<1>16. CASE LprUpdate
  <2>1. lpr.id \in EventId /\ lpr.row \in Row
    BY <1>16 DEF LprUpdate, TypeOK
  <2>2. [lpr.row EXCEPT !.plates = TRUE] \in Row
    BY <2>1 DEF Row
  <2>3. events' \in Seq(Row) /\ Len(events') = Len(events)
    BY <1>16, <2>1, <2>2, ExceptSeq DEF LprUpdate, TypeOK
  <2>4. QED
    BY <1>16, <2>3 DEF LprUpdate, IdleRecognizer, TypeOK, processorVars
<1>17. CASE InterruptProcessor
  BY <1>17 DEF InterruptProcessor, TypeOK, processorVars, databaseVars, recognizerVars
<1>18. CASE AbortQueue
  BY <1>18 DEF AbortQueue, TypeOK, databaseVars, recognizerVars, Stage
<1>19. CASE UNCHANGED vars
  BY <1>19 DEF TypeOK, vars, processorVars, databaseVars, recognizerVars
<1>20. QED
  BY <1>1, <1>2, <1>3, <1>4, <1>5, <1>6, <1>7, <1>8, <1>9, <1>10, <1>11, <1>12, <1>13,
     <1>14, <1>15, <1>16, <1>17, <1>18, <1>19 DEF Next, Stopped

(***************************************************************************)
(* Types are kept, whatever fails and whenever stop() comes.               *)
(***************************************************************************)
THEOREM TypeCorrect == Spec => []TypeOK
  BY TypeInit, TypeNext, PTL DEF Spec
------------------------------------------------------------------------------
(* No event is forgotten.                                                  *)

\* A remembered event has a record to close it with, and the recognizer's copy of
\* a row is about the row's track.
Remembered ==
    /\ \A t \in Track : history[t].persisted =>
         \E i \in 1 .. Len(history[t].sightings) :
             history[t].sightings[i].event = history[t].id
    /\ lpr.id # 0 => lpr.row.track = events[lpr.id].track

ForgottenInv == TypeOK /\ Remembered /\ NoEventForgotten

\* The track of a row is a track of the system.
LEMMA RowTracks ==
    ASSUME TypeOK, NEW id \in EventId
    PROVE  events[id].track \in Track
<1>1. events[id] \in Row
  BY ElementOfSeq DEF TypeOK, EventId
<1>2. QED
  BY <1>1 DEF Row

\* What an append leaves closed.
LEMMA ClosedGrows ==
    ASSUME TypeOK, NEW s \in Seq(Record), stored' = stored \o s
    PROVE  /\ \A id \in Nat : Closed(id) => Closed(id)'
           /\ \A id \in Nat : (\E i \in 1 .. Len(s) : s[i].event = id) => Closed(id)'
<1>1. /\ Len(stored) \in Nat /\ Len(s) \in Nat /\ Len(stored') = Len(stored) + Len(s)
      /\ \A i \in 1 .. Len(stored) + Len(s) :
           stored'[i] = IF i <= Len(stored) THEN stored[i] ELSE s[i - Len(stored)]
  BY ConcatProperties, LenProperties DEF TypeOK
<1>2. ASSUME NEW id \in Nat, Closed(id) PROVE Closed(id)'
  <2>1. PICK i \in 1 .. Len(stored) : stored[i].event = id
    BY <1>2 DEF Closed
  <2>2. i \in 1 .. Len(stored') /\ stored'[i].event = id
    BY <1>1, <2>1
  <2>3. QED
    BY <2>2 DEF Closed
<1>3. ASSUME NEW id \in Nat, NEW i \in 1 .. Len(s), s[i].event = id PROVE Closed(id)'
  <2>1. Len(stored) + i \in 1 .. Len(stored') /\ stored'[Len(stored) + i] = s[i]
    BY <1>1
  <2>2. QED
    BY <1>3, <2>1 DEF Closed
<1>4. QED
  BY <1>2, <1>3

\* A step that changes none of what the invariant is about.
LEMMA ForgottenFrame ==
    ASSUME ForgottenInv, TypeOK',
           \A t \in Track :
               /\ history'[t].persisted = history[t].persisted
               /\ history'[t].id = history[t].id
               /\ history'[t].sightings = history[t].sightings,
           UNCHANGED <<events, stored, lpr>>
    PROVE  Remembered' /\ NoEventForgotten'
<1>1. Remembered'
  BY DEF ForgottenInv, Remembered
<1>2. ASSUME NEW id \in EventId, ~Closed(id)
      PROVE  history'[events[id].track].persisted /\ history'[events[id].track].id = id
  <2>1. events[id].track \in Track
    BY RowTracks DEF ForgottenInv
  <2>2. QED
    BY <1>2, <2>1 DEF ForgottenInv, NoEventForgotten
<1>3. QED
  BY <1>1, <1>2 DEF NoEventForgotten, EventId, Closed

\* Writing an outcome changes no row's track and closes the event written.
LEMMA WriteOutcomeCloses ==
    ASSUME ForgottenInv, NEW t \in Track, WriteOutcome(t)
    PROVE  /\ \A id \in EventId : events'[id].track = events[id].track
           /\ \A id \in EventId : Closed(id) => Closed(id)'
           /\ \A id \in EventId : history[t].persisted /\ id = history[t].id => Closed(id)'
<1> USE DEF ForgottenInv
<1>1. history[t].id \in EventId /\ stored' = stored \o history[t].sightings
  BY WriteOutcomeType
<1>2. history[t].sightings \in Seq(Record)
  BY DEF TypeOK, Entry
<1>3. \A id \in EventId : events'[id].track = events[id].track
  <2>1. events' = [events EXCEPT ![history[t].id] =
                    [events[history[t].id] EXCEPT !.ended = history[t].ended, !.top = history[t].top]]
    BY DEF WriteOutcome
  <2>2. events[history[t].id] \in Row
    BY <1>1, ElementOfSeq DEF TypeOK, EventId
  <2>3. [events[history[t].id] EXCEPT !.ended = history[t].ended, !.top = history[t].top].track
           = events[history[t].id].track
    BY <2>2 DEF Row
  <2>4. DOMAIN events = EventId
    BY LenProperties DEF TypeOK, EventId
  <2>5. QED
    BY <1>1, <2>1, <2>3, <2>4
<1>4. \A id \in Nat : Closed(id) => Closed(id)'
  BY <1>1, <1>2, ClosedGrows
<1>5. ASSUME NEW id \in EventId, history[t].persisted, id = history[t].id PROVE Closed(id)'
  <2>1. \E i \in 1 .. Len(history[t].sightings) : history[t].sightings[i].event = history[t].id
    BY <1>5 DEF Remembered
  <2>2. \A x \in Nat : (\E i \in 1 .. Len(history[t].sightings) :
                          history[t].sightings[i].event = x) => Closed(x)'
    BY <1>1, <1>2, ClosedGrows
  <2>3. id \in Nat
    BY DEF EventId
  <2>4. QED
    BY <1>5, <2>1, <2>2, <2>3
<1>6. QED
  BY <1>3, <1>4, <1>5 DEF EventId

\* Nor does the recognizer, although it writes the whole row.
LEMMA RecognizerKeepsTracks ==
    ASSUME ForgottenInv, LprUpdate
    PROVE  /\ Len(events') = Len(events)
           /\ \A id \in EventId : events'[id].track = events[id].track
<1>1. TypeOK /\ lpr.id \in EventId /\ lpr.row \in Row
  BY DEF ForgottenInv, LprUpdate, TypeOK
<1>2. events' = [events EXCEPT ![lpr.id] = [lpr.row EXCEPT !.plates = TRUE]]
  BY DEF LprUpdate
<1>3. [lpr.row EXCEPT !.plates = TRUE].track = events[lpr.id].track
  BY <1>1 DEF LprUpdate, Row, ForgottenInv, Remembered
<1>4. [lpr.row EXCEPT !.plates = TRUE] \in Row
  BY <1>1 DEF Row
<1>5. QED
  BY <1>1, <1>2, <1>3, <1>4, ExceptSeq DEF TypeOK, EventId

\* No row exists, so none is forgotten.
LEMMA ForgottenInit == Init => ForgottenInv
<1> SUFFICES ASSUME Init PROVE Remembered /\ NoEventForgotten
  BY TypeInit DEF ForgottenInv
<1>1. EventId = {} /\ lpr.id = 0 /\ \A t \in Track : ~history[t].persisted
  BY DEF Init, EventId, IdleRecognizer, NoEntry
<1>2. QED
  BY <1>1 DEF Remembered, NoEventForgotten

\* Open rows stay remembered through every step, failures included.
LEMMA ForgottenNext == ForgottenInv /\ [Next]_vars => ForgottenInv'
<1> SUFFICES ASSUME ForgottenInv, [Next]_vars PROVE Remembered' /\ NoEventForgotten'
  BY TypeNext DEF ForgottenInv
<1>0. TypeOK /\ TypeOK'
  BY TypeNext DEF ForgottenInv
<1> DEFINE Sides == Remembered' /\ NoEventForgotten'
<1>1. CASE LoopCheck
  BY <1>0, <1>1, ForgottenFrame DEF LoopCheck, databaseVars, recognizerVars
<1>2. ASSUME NEW c \in Cameras, NEW objects \in Contents, TakeFrame(c, objects) PROVE Sides
  <2>1. ASSUME NEW t \in Track
        PROVE  /\ history'[t].persisted = history[t].persisted
               /\ history'[t].id = history[t].id
               /\ history'[t].sightings = history[t].sightings
    <3>1. history[t] \in Entry
      BY <1>0 DEF TypeOK
    <3>2. history'[t] = history[t] \/ history'[t] = [history[t] EXCEPT !.lost = @ + 1]
      BY <1>2 DEF TakeFrame
    <3>3. QED
      BY <3>1, <3>2 DEF Entry
  <2>2. QED
    BY <1>0, <1>2, <2>1, ForgottenFrame DEF TakeFrame, databaseVars, recognizerVars
<1>3. CASE PersistEvent
  <2> DEFINE new == Len(events) + 1
             seen == Append(history[Track1].sightings, Sighting(new))
             e == [history[Track1] EXCEPT
                     !.id = new, !.known = TRUE, !.persisted = TRUE, !.lost = 0,
                     !.top = Object1.score, !.sightings = seen]
             row == [track |-> Track1, start |-> frames[camera], ended |-> 0,
                     top |-> Object1.score, plates |-> FALSE]
  <2>1. /\ Track1 \in Track /\ new \in Nat /\ Sighting(new) \in Record
        /\ Object1.score \in Nat /\ frames[camera] \in Nat
    BY <1>0, <1>3, InHand, LenProperties DEF PersistEvent, TypeOK
  <2>2. history[Track1] \in Entry /\ ~history[Track1].persisted
    BY <1>0, <1>3, <2>1 DEF PersistEvent, TypeOK
  <2>3. history' = [history EXCEPT ![Track1] = e]
    BY <1>3 DEF PersistEvent
  <2>4. /\ seen \in Seq(Record) /\ Len(seen) = Len(history[Track1].sightings) + 1
        /\ seen[Len(seen)] = Sighting(new) /\ Len(seen) \in 1 .. Len(seen)
    <3>1. history[Track1].sightings \in Seq(Record)
      BY <2>2 DEF Entry
    <3>2. QED
      BY <2>1, <3>1, AppendProperties, LenProperties
  <2>5. e.id = new /\ e.persisted /\ e.sightings = seen
    BY <2>2 DEF Entry
  <2>6. \A t \in Track : history'[t] = IF t = Track1 THEN e ELSE history[t]
    BY <1>0, <2>3 DEF TypeOK
  <2>7. /\ Len(events') = new /\ events'[new] = row /\ row.track = Track1
        /\ \A id \in EventId : events'[id] = events[id]
    <3>1. row \in Row
      BY <2>1 DEF Row
    <3>2. events' = Append(events, row)
      BY <1>3 DEF PersistEvent
    <3>3. QED
      BY <1>0, <3>1, <3>2, AppendProperties DEF TypeOK, EventId
  <2>8. Remembered'
    <3>1. ASSUME NEW t \in Track, history'[t].persisted
          PROVE  \E i \in 1 .. Len(history'[t].sightings) :
                    history'[t].sightings[i].event = history'[t].id
      <4>1. CASE t = Track1
        <5>1. Sighting(new).event = new
          BY DEF Sighting
        <5>2. seen[Len(seen)].event = new
          BY <2>4, <5>1
        <5>3. history'[t].sightings = seen /\ history'[t].id = new
          BY <2>5, <2>6, <4>1
        <5>4. QED
          BY <2>4, <5>2, <5>3
      <4>2. CASE t # Track1
        BY <2>6, <3>1, <4>2 DEF ForgottenInv, Remembered
      <4>3. QED
        BY <4>1, <4>2
    <3>2. ASSUME lpr'.id # 0 PROVE lpr'.row.track = events'[lpr'.id].track
      <4>1. lpr' = lpr /\ lpr.id \in EventId
        BY <1>0, <1>3, <3>2 DEF PersistEvent, TypeOK, recognizerVars
      <4>2. QED
        BY <2>7, <3>2, <4>1 DEF ForgottenInv, Remembered
    <3>3. QED
      BY <3>1, <3>2 DEF Remembered
  <2>9. ASSUME NEW id \in 1 .. Len(events'), ~Closed(id)'
        PROVE  history'[events'[id].track].persisted /\ history'[events'[id].track].id = id
    <3>1. CASE id = new
      <4>1. events'[id].track = Track1
        BY <2>7, <3>1
      <4>2. history'[Track1] = e
        BY <2>1, <2>6
      <4>3. e.persisted /\ e.id = id
        BY <2>5, <3>1
      <4> HIDE DEF e, new, row, seen
      <4>4. QED
        BY <4>1, <4>2, <4>3
    <3>2. CASE id \in EventId
      <4>1. ~Closed(id)
        BY <1>3, <2>9 DEF PersistEvent, Closed
      <4>2. history[events[id].track].persisted /\ history[events[id].track].id = id
        BY <3>2, <4>1 DEF ForgottenInv, NoEventForgotten
      <4>3. events[id].track \in Track
        BY <1>0, <3>2, RowTracks
      <4>4. QED
        BY <2>2, <2>6, <2>7, <3>2, <4>2, <4>3
    <3>3. id = new \/ id \in EventId
      <4>1. \A n \in Nat : \A i \in 1 .. n + 1 : i = n + 1 \/ i \in 1 .. n
        OBVIOUS
      <4>2. Len(events) \in Nat
        BY <1>0, LenProperties DEF TypeOK
      <4>3. id \in 1 .. Len(events) + 1
        BY <2>7
      <4>4. QED
        BY <4>1, <4>2, <4>3 DEF EventId
    <3>4. QED
      BY <3>1, <3>2, <3>3
  <2>10. QED
    BY <2>8, <2>9 DEF NoEventForgotten, EventId
<1>4. CASE PersistCommitFails
  <2> DEFINE new == Len(events) + 1
             e == [history[Track1] EXCEPT
                     !.id = new, !.known = TRUE, !.lost = 0,
                     !.top = Object1.score, !.sightings = Append(@, Sighting(new))]
  <2>1. Track1 \in Track
    BY <1>0, <1>4, InHand DEF PersistCommitFails
  <2>2. history[Track1] \in Entry /\ ~history[Track1].persisted
    BY <1>0, <1>4, <2>1 DEF PersistCommitFails, TypeOK
  <2>3. history' = [history EXCEPT ![Track1] = e]
    BY <1>4 DEF PersistCommitFails
  <2>4. ~e.persisted
    BY <2>2 DEF Entry
  <2>5. \A t \in Track : history'[t] = IF t = Track1 THEN e ELSE history[t]
    BY <1>0, <2>3 DEF TypeOK
  <2>6. UNCHANGED <<events, stored, lpr>>
    BY <1>4 DEF PersistCommitFails, databaseVars, recognizerVars
  <2>7. Remembered'
    BY <2>4, <2>5, <2>6 DEF ForgottenInv, Remembered
  <2>8. ASSUME NEW id \in EventId, ~Closed(id)
        PROVE  history'[events[id].track].persisted /\ history'[events[id].track].id = id
    <3>1. history[events[id].track].persisted /\ history[events[id].track].id = id
      BY <2>8 DEF ForgottenInv, NoEventForgotten
    <3>2. events[id].track \in Track
      BY <1>0, RowTracks
    <3>3. QED
      BY <2>2, <2>5, <3>1, <3>2
  <2>9. QED
    BY <2>6, <2>7, <2>8 DEF NoEventForgotten, EventId, Closed
<1>5. CASE UpdateEvent
  <2> DEFINE id == history[Track1].id
             seen == Append(history[Track1].sightings, Sighting(id))
             e == [history[Track1] EXCEPT
                     !.lost = 0, !.ended = frames[camera],
                     !.top = IF Object1.score > @ THEN Object1.score ELSE @,
                     !.sightings = seen]
  <2>1. Track1 \in Track
    BY <1>0, <1>5, InHand DEF UpdateEvent
  <2>2. history[Track1] \in Entry /\ history[Track1].persisted
    BY <1>0, <1>5, <2>1 DEF UpdateEvent, TypeOK
  <2>3. history' = [history EXCEPT ![Track1] = e]
    BY <1>5 DEF UpdateEvent
  <2>4. e.id = history[Track1].id /\ e.persisted /\ e.sightings = seen
    BY <2>2 DEF Entry
  <2>5. \A t \in Track : history'[t] = IF t = Track1 THEN e ELSE history[t]
    BY <1>0, <2>3 DEF TypeOK
  <2>6. UNCHANGED <<events, stored, lpr>>
    BY <1>5 DEF UpdateEvent, databaseVars, recognizerVars
  <2>7. \E i \in 1 .. Len(seen) : seen[i].event = id
    <3>1. history[Track1].sightings \in Seq(Record) /\ id \in Nat
      BY <2>2 DEF Entry
    <3>2. Sighting(id) \in Record
      BY <1>0, <1>5, <3>1, InHand DEF UpdateEvent
    <3>3. /\ Len(seen) = Len(history[Track1].sightings) + 1
          /\ Len(history[Track1].sightings) \in Nat
          /\ seen[Len(history[Track1].sightings) + 1] = Sighting(id)
      BY <3>1, <3>2, AppendProperties, LenProperties
    <3>4. QED
      BY <3>3 DEF Sighting
  <2>8. Remembered'
    <3>1. ASSUME NEW t \in Track, history'[t].persisted
          PROVE  \E i \in 1 .. Len(history'[t].sightings) :
                    history'[t].sightings[i].event = history'[t].id
      <4>1. CASE t = Track1
        <5>1. history'[t].sightings = seen /\ history'[t].id = id
          BY <2>4, <2>5, <4>1
        <5>2. QED
          BY <2>7, <5>1
      <4>2. CASE t # Track1
        BY <2>5, <3>1, <4>2 DEF ForgottenInv, Remembered
      <4>3. QED
        BY <4>1, <4>2
    <3>2. QED
      BY <2>6, <3>1 DEF ForgottenInv, Remembered
  <2>9. ASSUME NEW i \in EventId, ~Closed(i)
        PROVE  history'[events[i].track].persisted /\ history'[events[i].track].id = i
    <3>1. history[events[i].track].persisted /\ history[events[i].track].id = i
      BY <2>9 DEF ForgottenInv, NoEventForgotten
    <3>2. events[i].track \in Track
      BY <1>0, RowTracks
    <3>3. QED
      BY <2>4, <2>5, <3>1, <3>2
  <2>10. QED
    BY <2>6, <2>8, <2>9 DEF NoEventForgotten, EventId, Closed
<1>6. CASE ObjectFails
  <2>1. Track1 \in Track
    BY <1>0, <1>6, InHand DEF ObjectFails
  <2>2. ASSUME NEW t \in Track
        PROVE  /\ history'[t].persisted = history[t].persisted
               /\ history'[t].id = history[t].id
               /\ history'[t].sightings = history[t].sightings
    <3>1. history[t] \in Entry
      BY <1>0 DEF TypeOK
    <3>2. history'[t] = history[t] \/ history'[t] = [history[t] EXCEPT !.known = TRUE, !.lost = 0]
      BY <1>0, <1>6, <2>1 DEF ObjectFails, TypeOK
    <3>3. QED
      BY <3>1, <3>2 DEF Entry
  <2>3. QED
    BY <1>0, <1>6, <2>2, ForgottenFrame DEF ObjectFails, databaseVars, recognizerVars
<1>7. CASE ObjectsDone
  BY <1>0, <1>7, ForgottenFrame DEF ObjectsDone, databaseVars, recognizerVars
<1>8. ASSUME NEW t \in Track, CompleteEvent(t) PROVE Sides
  <2>1. WriteOutcome(t) /\ history' = [history EXCEPT ![t] = NoEntry] /\ lpr' = lpr
    BY <1>8 DEF CompleteEvent, recognizerVars
  <2>2. /\ \A id \in EventId : events'[id].track = events[id].track
        /\ \A id \in EventId : Closed(id) => Closed(id)'
        /\ \A id \in EventId : history[t].persisted /\ id = history[t].id => Closed(id)'
        /\ Len(events') = Len(events)
    BY <1>0, <2>1, WriteOutcomeCloses, WriteOutcomeType
  <2>3. \A u \in Track : history'[u] = IF u = t THEN NoEntry ELSE history[u]
    BY <1>0, <2>1 DEF TypeOK
  <2>4. ~NoEntry.persisted
    BY DEF NoEntry
  <2>5. Remembered'
    <3>1. ASSUME lpr'.id # 0 PROVE lpr'.row.track = events'[lpr'.id].track
      <4>1. lpr.id \in EventId
        BY <1>0, <2>1, <3>1 DEF TypeOK
      <4>2. QED
        BY <2>1, <2>2, <3>1, <4>1 DEF ForgottenInv, Remembered
    <3>2. QED
      BY <2>3, <2>4, <3>1 DEF ForgottenInv, Remembered
  <2>6. ASSUME NEW id \in EventId, ~Closed(id)'
        PROVE  history'[events'[id].track].persisted /\ history'[events'[id].track].id = id
    <3>1. history[events[id].track].persisted /\ history[events[id].track].id = id
      BY <2>2, <2>6 DEF ForgottenInv, NoEventForgotten
    <3>2. events[id].track \in Track
      BY <1>0, RowTracks
    <3>3. events[id].track # t
      BY <2>2, <2>6, <3>1
    <3>4. QED
      BY <2>2, <2>3, <3>1, <3>2, <3>3
  <2>7. QED
    BY <2>2, <2>5, <2>6 DEF NoEventForgotten, EventId
<1>9. ASSUME NEW t \in Track, CompleteFails(t) PROVE Sides
  BY <1>0, <1>9, ForgottenFrame DEF CompleteFails, databaseVars, recognizerVars
<1>10. CASE CleanupDone
  BY <1>0, <1>10, ForgottenFrame DEF CleanupDone, databaseVars, recognizerVars
<1>11. ASSUME NEW t \in Track, FinalizeEvent(t) PROVE Sides
  <2>1. WriteOutcome(t) /\ history' = history /\ lpr' = lpr
    BY <1>11 DEF FinalizeEvent, recognizerVars
  <2>2. /\ \A id \in EventId : events'[id].track = events[id].track
        /\ \A id \in EventId : Closed(id) => Closed(id)'
        /\ Len(events') = Len(events)
    BY <1>0, <2>1, WriteOutcomeCloses, WriteOutcomeType
  <2>3. ASSUME lpr'.id # 0 PROVE lpr'.row.track = events'[lpr'.id].track
    <3>1. lpr.id \in EventId
      BY <1>0, <2>1, <2>3 DEF TypeOK
    <3>2. QED
      BY <2>1, <2>2, <2>3, <3>1 DEF ForgottenInv, Remembered
  <2>4. ASSUME NEW id \in EventId, ~Closed(id)'
        PROVE  history'[events'[id].track].persisted /\ history'[events'[id].track].id = id
    BY <2>1, <2>2, <2>4 DEF ForgottenInv, NoEventForgotten
  <2>5. QED
    BY <2>1, <2>2, <2>3, <2>4 DEF ForgottenInv, Remembered, NoEventForgotten, EventId
<1>12. ASSUME NEW t \in Track, FinalizeFails(t) PROVE Sides
  BY <1>0, <1>12, ForgottenFrame DEF FinalizeFails, databaseVars, recognizerVars
<1>13. CASE FinalizeDone
  BY <1>0, <1>13, ForgottenFrame DEF FinalizeDone, databaseVars, recognizerVars
<1>14. CASE LprLoad
  <2>1. UNCHANGED <<history, events, stored>> /\ lpr'.row = events[lpr'.id]
    BY <1>14 DEF LprLoad, processorVars, databaseVars
  <2>2. QED
    BY <2>1 DEF ForgottenInv, Remembered, NoEventForgotten, EventId, Closed
<1>15. CASE LprGiveUp
  BY <1>15 DEF LprGiveUp, IdleRecognizer, processorVars, databaseVars,
               ForgottenInv, Remembered, NoEventForgotten, EventId, Closed
<1>16. CASE LprUpdate
  <2>1. lpr'.id = 0 /\ UNCHANGED <<history, stored>>
    BY <1>16 DEF LprUpdate, IdleRecognizer, processorVars
  <2>2. Len(events') = Len(events) /\ \A id \in EventId : events'[id].track = events[id].track
    BY <1>16, RecognizerKeepsTracks
  <2>3. QED
    BY <2>1, <2>2 DEF ForgottenInv, Remembered, NoEventForgotten, EventId, Closed
<1>17. CASE InterruptProcessor
  BY <1>0, <1>17, ForgottenFrame DEF InterruptProcessor, processorVars, databaseVars, recognizerVars
<1>18. CASE AbortQueue
  BY <1>0, <1>18, ForgottenFrame DEF AbortQueue, databaseVars, recognizerVars
<1>19. CASE UNCHANGED vars
  BY <1>0, <1>19, ForgottenFrame DEF vars, processorVars, databaseVars, recognizerVars
<1>20. QED
  BY <1>1, <1>2, <1>3, <1>4, <1>5, <1>6, <1>7, <1>8, <1>9, <1>10, <1>11, <1>12, <1>13,
     <1>14, <1>15, <1>16, <1>17, <1>18, <1>19 DEF Next, Stopped

(***************************************************************************)
(* Whatever fails, a row that is not closed belongs to an event the        *)
(* processor still has in memory, under the row's track.                   *)
(***************************************************************************)
THEOREM OpenEventsAreRemembered == Spec => []NoEventForgotten
<1>1. ForgottenInv => NoEventForgotten
  BY DEF ForgottenInv
<1>2. QED
  BY <1>1, ForgottenInit, ForgottenNext, PTL DEF Spec
------------------------------------------------------------------------------
(* One completion per event, as long as the commits of new events succeed. *)

\* An entry without a row has no id; one with a row has a row of its own, which
\* was not announced.
OwnRows ==
    \A t \in Track :
        /\ ~history[t].persisted => history[t].id = 0
        /\ history[t].persisted =>
             /\ history[t].id \in EventId
             /\ events[history[t].id].track = t
             /\ \A i \in 1 .. Len(announced) : announced[i] # history[t].id

OnceInv == ForgottenInv /\ OwnRows /\ CompletedOnce

\* A step that announces nothing and opens nothing.
LEMMA OnceFrame ==
    ASSUME OnceInv,
           \A t \in Track :
               /\ history'[t].persisted = history[t].persisted
               /\ history'[t].id = history[t].id,
           \A id \in EventId : events'[id].track = events[id].track,
           Len(events') = Len(events),
           announced' = announced
    PROVE  OwnRows' /\ CompletedOnce'
  BY DEF OnceInv, OwnRows, CompletedOnce, EventId

\* Without failing commits, only a row that its entry owns is announced.
LEMMA OnceNext ==
    ASSUME ~CommitMayFail
    PROVE  OnceInv /\ [Next]_vars => OnceInv'
<1> SUFFICES ASSUME OnceInv, [Next]_vars PROVE OwnRows' /\ CompletedOnce'
  BY ForgottenNext DEF OnceInv
<1>0. TypeOK /\ ForgottenInv
  BY DEF OnceInv, ForgottenInv
<1> DEFINE Sides == OwnRows' /\ CompletedOnce'
<1>1. CASE LoopCheck
  BY <1>1, OnceFrame DEF LoopCheck, databaseVars, recognizerVars
<1>2. ASSUME NEW c \in Cameras, NEW objects \in Contents, TakeFrame(c, objects) PROVE Sides
  <2>1. ASSUME NEW t \in Track
        PROVE  /\ history'[t].persisted = history[t].persisted
               /\ history'[t].id = history[t].id
    <3>1. history[t] \in Entry
      BY <1>0 DEF TypeOK
    <3>2. history'[t] = history[t] \/ history'[t] = [history[t] EXCEPT !.lost = @ + 1]
      BY <1>2 DEF TakeFrame
    <3>3. QED
      BY <3>1, <3>2 DEF Entry
  <2>2. QED
    BY <1>2, <2>1, OnceFrame DEF TakeFrame, databaseVars, recognizerVars
<1>3. CASE PersistEvent
  <2> DEFINE new == Len(events) + 1
             e == [history[Track1] EXCEPT
                     !.id = new, !.known = TRUE, !.persisted = TRUE, !.lost = 0,
                     !.top = Object1.score,
                     !.sightings = Append(history[Track1].sightings, Sighting(new))]
             row == [track |-> Track1, start |-> frames[camera], ended |-> 0,
                     top |-> Object1.score, plates |-> FALSE]
  <2>1. /\ Track1 \in Track /\ new \in Nat
        /\ Object1.score \in Nat /\ frames[camera] \in Nat
    BY <1>0, <1>3, InHand, LenProperties DEF PersistEvent, TypeOK
  <2>2. history[Track1] \in Entry
    BY <1>0, <2>1 DEF TypeOK
  <2>3. history' = [history EXCEPT ![Track1] = e] /\ announced' = announced
    BY <1>3 DEF PersistEvent
  <2>4. e.id = new /\ e.persisted
    BY <2>2 DEF Entry
  <2>5. \A t \in Track : history'[t] = IF t = Track1 THEN e ELSE history[t]
    BY <1>0, <2>3 DEF TypeOK
  <2>6. /\ Len(events') = new /\ events'[new].track = Track1
        /\ \A id \in EventId : events'[id] = events[id]
    <3>1. row \in Row
      BY <2>1 DEF Row
    <3>2. events' = Append(events, row)
      BY <1>3 DEF PersistEvent
    <3>3. row.track = Track1
      OBVIOUS
    <3>4. QED
      BY <1>0, <3>1, <3>2, <3>3, AppendProperties DEF TypeOK, EventId
  <2>7. \A i \in 1 .. Len(announced) : announced[i] # new
    <3>1. \A i \in 1 .. Len(announced) : announced[i] \in EventId
      BY <1>0, ElementOfSeq DEF TypeOK
    <3>2. QED
      BY <2>1, <3>1 DEF EventId
  <2>8. ASSUME NEW t \in Track
        PROVE  /\ ~history'[t].persisted => history'[t].id = 0
               /\ history'[t].persisted =>
                    /\ history'[t].id \in 1 .. Len(events')
                    /\ events'[history'[t].id].track = t
                    /\ \A i \in 1 .. Len(announced') : announced'[i] # history'[t].id
    <3>1. CASE t = Track1
      <4>1. history'[t].persisted /\ history'[t].id = new
        BY <2>4, <2>5, <3>1
      <4>2. new \in 1 .. Len(events')
        BY <1>0, <2>6, LenProperties DEF TypeOK
      <4>3. QED
        BY <2>3, <2>6, <2>7, <3>1, <4>1, <4>2
    <3>2. CASE t # Track1
      <4>1. history'[t] = history[t]
        BY <2>5, <3>2
      <4>2. EventId \subseteq 1 .. Len(events')
        BY <1>0, <2>6, LenProperties DEF TypeOK, EventId
      <4>3. /\ ~history[t].persisted => history[t].id = 0
            /\ history[t].persisted =>
                 /\ history[t].id \in EventId
                 /\ events[history[t].id].track = t
                 /\ \A i \in 1 .. Len(announced) : announced[i] # history[t].id
        BY DEF OnceInv, OwnRows
      <4>4. history[t].persisted => events'[history[t].id].track = t
        BY <2>6, <4>3
      <4>5. history[t].persisted => history[t].id \in 1 .. Len(events')
        BY <4>2, <4>3
      <4>6. announced' = announced
        BY <2>3
      <4> HIDE DEF e, new, row
      <4>7. QED
        BY <4>1, <4>3, <4>4, <4>5, <4>6
    <3>3. QED
      BY <3>1, <3>2
  <2>9. QED
    BY <2>3, <2>8 DEF OwnRows, OnceInv, CompletedOnce, EventId
<1>4. CASE PersistCommitFails
  BY <1>4 DEF PersistCommitFails
<1>5. CASE UpdateEvent
  <2> DEFINE e == [history[Track1] EXCEPT
                     !.lost = 0, !.ended = frames[camera],
                     !.top = IF Object1.score > @ THEN Object1.score ELSE @,
                     !.sightings = Append(@, Sighting(history[Track1].id))]
  <2>1. Track1 \in Track
    BY <1>0, <1>5, InHand DEF UpdateEvent
  <2>2. history[Track1] \in Entry
    BY <1>0, <2>1 DEF TypeOK
  <2>3. history' = [history EXCEPT ![Track1] = e]
    BY <1>5 DEF UpdateEvent
  <2>4. e.id = history[Track1].id /\ e.persisted = history[Track1].persisted
    BY <2>2 DEF Entry
  <2>5. \A t \in Track : history'[t] = IF t = Track1 THEN e ELSE history[t]
    BY <1>0, <2>3 DEF TypeOK
  <2>6. UNCHANGED <<events, announced>>
    BY <1>5 DEF UpdateEvent, databaseVars
  <2>7. QED
    BY <2>4, <2>5, <2>6, OnceFrame
<1>6. CASE ObjectFails
  <2>1. Track1 \in Track
    BY <1>0, <1>6, InHand DEF ObjectFails
  <2>2. ASSUME NEW t \in Track
        PROVE  /\ history'[t].persisted = history[t].persisted
               /\ history'[t].id = history[t].id
    <3>1. history[t] \in Entry
      BY <1>0 DEF TypeOK
    <3>2. history'[t] = history[t] \/ history'[t] = [history[t] EXCEPT !.known = TRUE, !.lost = 0]
      BY <1>0, <1>6, <2>1 DEF ObjectFails, TypeOK
    <3>3. QED
      BY <3>1, <3>2 DEF Entry
  <2>3. QED
    BY <1>6, <2>2, OnceFrame DEF ObjectFails, databaseVars
<1>7. CASE ObjectsDone
  BY <1>7, OnceFrame DEF ObjectsDone, databaseVars
<1>8. ASSUME NEW t \in Track, CompleteEvent(t) PROVE Sides
  <2> DEFINE done == history[t].id
  <2>1. /\ WriteOutcome(t)
        /\ history' = [history EXCEPT ![t] = NoEntry]
        /\ announced' = Append(announced, done)
    BY <1>8 DEF CompleteEvent
  <2>2. /\ done \in EventId
        /\ \A id \in EventId : events'[id].track = events[id].track
        /\ Len(events') = Len(events)
    BY <1>0, <2>1, WriteOutcomeCloses, WriteOutcomeType
  <2>3. history[t].persisted
    BY <2>2 DEF OnceInv, OwnRows, EventId
  <2>4. \A u \in Track : history'[u] = IF u = t THEN NoEntry ELSE history[u]
    BY <1>0, <2>1 DEF TypeOK
  <2>5. ~NoEntry.persisted /\ NoEntry.id = 0
    BY DEF NoEntry
  <2>6. /\ Len(announced) \in Nat /\ Len(announced') = Len(announced) + 1
        /\ announced'[Len(announced) + 1] = done
        /\ \A i \in 1 .. Len(announced) : announced'[i] = announced[i]
    BY <1>0, <2>1, <2>2, AppendProperties, LenProperties DEF TypeOK
  <2>7. \A i \in 1 .. Len(announced) : announced[i] # done
    BY <2>3 DEF OnceInv, OwnRows
  <2>8. CompletedOnce'
    BY <2>6, <2>7 DEF OnceInv, CompletedOnce
  <2>9. ASSUME NEW u \in Track
        PROVE  /\ ~history'[u].persisted => history'[u].id = 0
               /\ history'[u].persisted =>
                    /\ history'[u].id \in EventId
                    /\ events'[history'[u].id].track = u
                    /\ \A i \in 1 .. Len(announced') : announced'[i] # history'[u].id
    <3>1. CASE u = t
      BY <2>4, <2>5, <3>1
    <3>2. CASE u # t
      <4>1. history'[u] = history[u]
        BY <2>4, <3>2
      <4>2. ASSUME history[u].persisted
            PROVE  /\ history[u].id \in EventId /\ events'[history[u].id].track = u
                   /\ history[u].id # done
                   /\ \A i \in 1 .. Len(announced) : announced[i] # history[u].id
        <5>1. /\ history[u].id \in EventId /\ events[history[u].id].track = u
              /\ events[done].track = t
              /\ \A i \in 1 .. Len(announced) : announced[i] # history[u].id
          BY <2>3, <4>2 DEF OnceInv, OwnRows
        <5>2. QED
          BY <2>2, <3>2, <5>1
      <4>3. ~history[u].persisted => history[u].id = 0
        BY DEF OnceInv, OwnRows
      <4>4. QED
        BY <2>6, <4>1, <4>2, <4>3
    <3>3. QED
      BY <3>1, <3>2
  <2>10. QED
    BY <2>2, <2>8, <2>9 DEF OwnRows, EventId
<1>9. ASSUME NEW t \in Track, CompleteFails(t) PROVE Sides
  BY <1>9, OnceFrame DEF CompleteFails, databaseVars
<1>10. CASE CleanupDone
  BY <1>10, OnceFrame DEF CleanupDone, databaseVars
<1>11. ASSUME NEW t \in Track, FinalizeEvent(t) PROVE Sides
  <2>1. WriteOutcome(t) /\ history' = history /\ announced' = announced
    BY <1>11 DEF FinalizeEvent
  <2>2. /\ \A id \in EventId : events'[id].track = events[id].track
        /\ Len(events') = Len(events)
    BY <1>0, <2>1, WriteOutcomeCloses, WriteOutcomeType
  <2>3. QED
    BY <2>1, <2>2, OnceFrame
<1>12. ASSUME NEW t \in Track, FinalizeFails(t) PROVE Sides
  BY <1>12, OnceFrame DEF FinalizeFails, databaseVars
<1>13. CASE FinalizeDone
  BY <1>13, OnceFrame DEF FinalizeDone, databaseVars
<1>14. CASE LprLoad
  BY <1>14, OnceFrame DEF LprLoad, processorVars, databaseVars
<1>15. CASE LprGiveUp
  BY <1>15, OnceFrame DEF LprGiveUp, processorVars, databaseVars
<1>16. CASE LprUpdate
  <2>1. lpr.id \in EventId /\ lpr.row \in Row /\ UNCHANGED <<history, announced>>
    BY <1>0, <1>16 DEF LprUpdate, TypeOK, processorVars
  <2>2. Len(events') = Len(events) /\ \A id \in EventId : events'[id].track = events[id].track
    BY <1>0, <1>16, RecognizerKeepsTracks
  <2>3. QED
    BY <2>1, <2>2, OnceFrame
<1>17. CASE InterruptProcessor
  BY <1>17, OnceFrame DEF InterruptProcessor, processorVars, databaseVars
<1>18. CASE AbortQueue
  BY <1>18, OnceFrame DEF AbortQueue, databaseVars
<1>19. CASE UNCHANGED vars
  BY <1>19, OnceFrame DEF vars, processorVars, databaseVars
<1>20. QED
  BY <1>1, <1>2, <1>3, <1>4, <1>5, <1>6, <1>7, <1>8, <1>9, <1>10, <1>11, <1>12, <1>13,
     <1>14, <1>15, <1>16, <1>17, <1>18, <1>19 DEF Next, Stopped

(***************************************************************************)
(* While no COMMIT of a new event fails, eventCompleted is emitted at most *)
(* once for an event, whatever else fails and is tried again.              *)
(***************************************************************************)
THEOREM CompletionIsAnnouncedOnce ==
    ASSUME ~CommitMayFail
    PROVE  Spec => []CompletedOnce
<1>1. Init => OnceInv
  <2> SUFFICES ASSUME Init PROVE ForgottenInv /\ OwnRows /\ CompletedOnce
    BY DEF OnceInv
  <2>1. ForgottenInv
    BY ForgottenInit
  <2>2. \A t \in Track : ~history[t].persisted /\ history[t].id = 0
    BY DEF Init, NoEntry
  <2>3. Len(announced) = 0
    BY DEF Init
  <2>4. QED
    BY <2>1, <2>2, <2>3 DEF OwnRows, CompletedOnce
<1>2. OnceInv => CompletedOnce
  BY DEF OnceInv
<1>3. OnceInv /\ [Next]_vars => OnceInv'
  BY OnceNext
<1>4. QED
  BY <1>1, <1>2, <1>3, PTL DEF Spec
------------------------------------------------------------------------------
(* What is written of an event, and the Event table as EventLog has it, as *)
(* long as the commits of new events succeed.                              *)

\* The first sighting of an event is all there is to say of it.
LEMMA AddsUpFirst ==
    ASSUME NEW r \in Record, NEW row,
           row.track = r.track, row.start = r.frame, row.ended = 0, row.top = r.score
    PROVE  AddsUp(Append(<<>>, r), r.event, row)
<1> DEFINE s == Append(<<>>, r)
<1>1. Len(s) = 1 /\ s[1] = r /\ r.frame \in Nat /\ r.score \in Nat
  BY DEF Record
<1>2. LastSeen(row) = r.frame
  BY DEF LastSeen
<1> HIDE DEF s
<1>3. QED
  BY <1>1, <1>2 DEF AddsUp

\* A later sighting moves the end of the event, and its top score if it is better.
LEMMA AddsUpNext ==
    ASSUME NEW s \in Seq(Record), NEW r \in Record, NEW row, NEW new,
           row.start \in Nat, row.ended \in Nat, row.top \in Nat,
           \A i \in 1 .. Len(s) : s[i].event = r.event,
           AddsUp(s, r.event, row),
           r.track = row.track, LastSeen(row) < r.frame,
           new.track = row.track, new.start = row.start, new.ended = r.frame,
           new.top = IF r.score > row.top THEN r.score ELSE row.top
    PROVE  AddsUp(Append(s, r), r.event, new)
<1> DEFINE a == Append(s, r)  n == Len(s)
<1>1. /\ n \in Nat /\ Len(a) = n + 1 /\ a[n + 1] = r
      /\ \A i \in 1 .. n : a[i] = s[i] /\ s[i] \in Record
  BY AppendProperties, LenProperties, ElementOfSeq
<1>2. r.frame \in Nat /\ r.score \in Nat /\ \A i \in 1 .. n : s[i].frame \in Nat /\ s[i].score \in Nat
  BY <1>1 DEF Record
<1>3. /\ row.start <= LastSeen(row) /\ LastSeen(row) \in Nat
      /\ LastSeen(new) = r.frame /\ new.ended > new.start
  BY <1>2 DEF LastSeen, AddsUp
<1>4. /\ \A i \in 1 .. n : /\ s[i].track = row.track
                           /\ row.start <= s[i].frame /\ s[i].frame <= LastSeen(row)
                           /\ s[i].score <= row.top
      /\ \A i, j \in 1 .. n : i < j => s[i].frame < s[j].frame
      /\ \E i \in 1 .. n : s[i].frame = row.start
      /\ \E i \in 1 .. n : s[i].score = row.top
  BY DEF AddsUp
<1> HIDE DEF a, n
<1>5. \A i \in 1 .. n + 1 : i \in 1 .. n \/ i = n + 1
  BY <1>1
<1>6. \A i \in 1 .. n + 1 : a[i].event = r.event
  BY <1>1, <1>5 DEF n
<1>7. \A i \in 1 .. n + 1 : /\ a[i].track = new.track
                            /\ new.start <= a[i].frame /\ a[i].frame <= LastSeen(new)
                            /\ a[i].score <= new.top
  <2>1. ASSUME NEW i \in 1 .. n
        PROVE  /\ a[i].track = new.track
               /\ new.start <= a[i].frame /\ a[i].frame <= LastSeen(new)
               /\ a[i].score <= new.top
    <3>1. /\ s[i].track = row.track /\ row.start <= s[i].frame
          /\ s[i].frame <= LastSeen(row) /\ s[i].score <= row.top /\ a[i] = s[i]
      BY <1>1, <1>4
    <3>2. s[i].frame \in Nat /\ s[i].score \in Nat
      BY <1>2
    <3>3. s[i].frame <= LastSeen(new)
      BY <1>2, <1>3, <3>1, <3>2
    <3>4. s[i].score <= new.top
      <4>1. new.top \in Nat /\ row.top <= new.top
        BY <1>2
      <4>2. QED
        BY <3>1, <3>2, <4>1
    <3>5. QED
      BY <3>1, <3>3, <3>4
  <2>2. /\ a[n + 1].track = new.track
        /\ new.start <= a[n + 1].frame /\ a[n + 1].frame <= LastSeen(new)
        /\ a[n + 1].score <= new.top
    BY <1>1, <1>2, <1>3
  <2>3. QED
    BY <1>5, <2>1, <2>2
<1>8. ASSUME NEW i \in 1 .. n + 1, NEW j \in 1 .. n + 1, i < j PROVE a[i].frame < a[j].frame
  <2>1. i \in 1 .. n /\ a[i] = s[i]
    BY <1>1, <1>8
  <2>2. CASE j \in 1 .. n
    BY <1>1, <1>4, <1>8, <2>1, <2>2
  <2>3. CASE j = n + 1
    <3>1. s[i].frame <= LastSeen(row) /\ s[i].frame \in Nat
      BY <1>2, <1>4, <2>1
    <3>2. a[j].frame = r.frame
      BY <1>1, <2>3
    <3>3. \A x, y, z \in Nat : x <= y /\ y < z => x < z
      OBVIOUS
    <3>4. r.frame \in Nat /\ LastSeen(row) \in Nat
      BY <1>2, <1>3
    <3>5. QED
      BY <2>1, <3>1, <3>2, <3>3, <3>4
  <2>4. QED
    BY <1>5, <2>2, <2>3
<1>9. /\ \E i \in 1 .. n + 1 : a[i].frame = new.start
      /\ \E i \in 1 .. n + 1 : a[i].frame = LastSeen(new)
      /\ \E i \in 1 .. n + 1 : a[i].score = new.top
  <2>1. n + 1 \in 1 .. n + 1 /\ \A i \in 1 .. n : i \in 1 .. n + 1
    BY <1>1
  <2>2. QED
    BY <1>1, <1>3, <1>4, <2>1
<1>10. QED
  BY <1>1, <1>3, <1>6, <1>7, <1>8, <1>9 DEF AddsUp, a

\* Only track, start, end and top score of a row matter.
LEMMA AddsUpSame ==
    ASSUME NEW s, NEW id, NEW row, NEW new,
           new.track = row.track, new.start = row.start, new.ended = row.ended,
           new.top = row.top, AddsUp(s, id, row)
    PROVE  AddsUp(s, id, new)
  BY DEF AddsUp, LastSeen

\* What is stored of one event is not disturbed by the records of another.
LEMMA AddsUpOthers ==
    ASSUME NEW s \in Seq(Record), NEW new \in Seq(Record), NEW id, NEW row,
           \A i \in 1 .. Len(new) : new[i].event # id
    PROVE  AddsUp(s \o new, id, row) <=> AddsUp(s, id, row)
<1> DEFINE c == s \o new
<1>1. /\ Len(s) \in Nat /\ Len(new) \in Nat /\ Len(c) = Len(s) + Len(new)
      /\ \A i \in 1 .. Len(s) + Len(new) :
           c[i] = IF i <= Len(s) THEN s[i] ELSE new[i - Len(s)]
  BY ConcatProperties, LenProperties
<1>2. \A i \in 1 .. Len(c) : (i \in 1 .. Len(s) /\ c[i] = s[i]) \/ c[i].event # id
  <2>1. \A i \in 1 .. Len(c) : i > Len(s) => i - Len(s) \in 1 .. Len(new)
    BY <1>1
  <2>2. QED
    BY <1>1, <2>1
<1>3. \A i \in 1 .. Len(s) : i \in 1 .. Len(c) /\ c[i] = s[i]
  BY <1>1
<1> HIDE DEF c
<1>4. { i \in 1 .. Len(c) : c[i].event = id } = { i \in 1 .. Len(s) : s[i].event = id }
  BY <1>2, <1>3
<1>5. QED
  BY <1>3, <1>4 DEF AddsUp, c

\* The records of an event none of which were stored.
LEMMA AddsUpWritten ==
    ASSUME NEW s \in Seq(Record), NEW new \in Seq(Record), NEW id, NEW row,
           \A i \in 1 .. Len(s) : s[i].event # id,
           \A i \in 1 .. Len(new) : new[i].event = id,
           AddsUp(new, id, row)
    PROVE  AddsUp(s \o new, id, row)
<1> DEFINE c == s \o new  m == Len(s)  n == Len(new)
<1>1. /\ m \in Nat /\ n \in Nat /\ Len(c) = m + n
      /\ \A i \in 1 .. m + n : c[i] = IF i <= m THEN s[i] ELSE new[i - m]
  BY ConcatProperties, LenProperties
<1>2. \A i \in 1 .. m + n : c[i].event = id <=> i > m
  <2>1. \A i \in 1 .. m + n : i > m => i - m \in 1 .. n
    BY <1>1
  <2>2. QED
    BY <1>1, <2>1
<1>3. \A i \in 1 .. n : m + i \in 1 .. m + n /\ m + i > m /\ c[m + i] = new[i]
  BY <1>1
<1>4. \A i \in 1 .. m + n : i > m => i - m \in 1 .. n /\ c[i] = new[i - m] /\ m + (i - m) = i
  BY <1>1
<1> HIDE DEF c, m, n
<1>5. /\ row.ended = 0 \/ row.ended > row.start
      /\ \A i \in 1 .. n : /\ new[i].track = row.track
                           /\ row.start <= new[i].frame /\ new[i].frame <= LastSeen(row)
                           /\ new[i].score <= row.top
      /\ \A i, j \in 1 .. n : i < j => new[i].frame < new[j].frame
      /\ \E i \in 1 .. n : new[i].frame = row.start
      /\ \E i \in 1 .. n : new[i].frame = LastSeen(row)
      /\ \E i \in 1 .. n : new[i].score = row.top
  BY DEF AddsUp, n
<1>6. \A i, j \in 1 .. m + n : i > m /\ j > m /\ i < j => c[i].frame < c[j].frame
  <2>1. \A i, j \in 1 .. m + n : i > m /\ j > m /\ i < j => i - m < j - m
    BY <1>1
  <2>2. QED
    BY <1>4, <1>5, <2>1
<1>7. \A i \in 1 .. m + n : i > m => /\ c[i].track = row.track
                                     /\ row.start <= c[i].frame /\ c[i].frame <= LastSeen(row)
                                     /\ c[i].score <= row.top
  BY <1>4, <1>5
<1>8. /\ \E i \in 1 .. m + n : i > m /\ c[i].frame = row.start
      /\ \E i \in 1 .. m + n : i > m /\ c[i].frame = LastSeen(row)
      /\ \E i \in 1 .. m + n : i > m /\ c[i].score = row.top
  BY <1>3, <1>5
<1>9. AddsUp(c, id, row)
  BY <1>1, <1>2, <1>5, <1>6, <1>7, <1>8 DEF AddsUp
<1>10. QED
  BY <1>9 DEF c

\* What will be written of the event a track's entry is about.
Outcome(t) == [track |-> t, start |-> events[history[t].id].start,
               ended |-> history[t].ended, top |-> history[t].top]

\* The processor's memory of an event agrees with the predictions it keeps, and
\* counts every frame of the camera since the last of them.
EntryAddsUp(t) ==
    /\ ~history[t].persisted => history[t].ended = 0 /\ history[t].sightings = <<>>
    /\ history[t].persisted =>
         /\ \A i \in 1 .. Len(history[t].sightings) :
                history[t].sightings[i].event = history[t].id
         /\ AddsUp(history[t].sightings, history[t].id, Outcome(t))
         /\ history[t].top \in Scores /\ events[history[t].id].top <= history[t].top
         /\ LastSeen(Outcome(t)) + history[t].lost <= frames[t.camera]

\* The objects still to be handled are of distinct tracks, none of which has a
\* prediction in this frame yet.
InFrame ==
    pc = "objects" =>
        /\ frames[camera] >= 1
        /\ \A i, j \in 1 .. Len(todo) : todo[i].tracker = todo[j].tracker => i = j
        /\ \A i \in 1 .. Len(todo) :
             LET t == [camera |-> camera, tracker |-> todo[i].tracker]
             IN  history[t].persisted => LastSeen(Outcome(t)) < frames[camera]

Ending == pc \in {"finalize", "stopped"}

\* An open row is as it was inserted, and the processor remembers closed events
\* only while it ends, once it has written them.
OpenOnes ==
    /\ \A i \in 1 .. Len(stored) : stored[i].event \in EventId
    /\ \A id \in EventId : ~Closed(id) => events[id].ended = 0 /\ ~events[id].plates
    /\ \A t \in Track : history[t].persisted /\ Closed(history[t].id) => Ending /\ t \notin unsaved

\* An event is closed when its track has been missing for more than MaxLost frames.
Gap ==
    \A id \in EventId :
        LET c == events[id].track.camera IN
        Closed(id) /\ ~Ending =>
            LastSeen(events[id]) + MaxLost + (IF pc = "objects" /\ camera = c THEN 2 ELSE 1)
                <= frames[c]

\* Announced events are closed, and nobody else writes the row the recognizer holds.
Hearing ==
    /\ \A i \in 1 .. Len(announced) : Closed(announced[i])
    /\ lpr.id # 0 => Closed(lpr.id) /\ lpr.row = events[lpr.id]

LogInv ==
    /\ OnceInv
    /\ \A t \in Track : EntryAddsUp(t)
    /\ InFrame /\ OpenOnes /\ Gap /\ Hearing
    /\ OutcomeAddsUp

\* The row an entry owns, and what will become of it.
LEMMA OwnRow ==
    ASSUME OnceInv, NEW t \in Track, history[t].persisted
    PROVE  /\ history[t] \in Entry /\ history[t].id \in EventId
           /\ events[history[t].id] \in Row /\ events[history[t].id].track = t
           /\ Outcome(t).start \in Nat /\ Outcome(t).ended \in Nat /\ Outcome(t).top \in Nat
           /\ LastSeen(Outcome(t)) \in Nat
<1>1. TypeOK /\ OwnRows
  BY DEF OnceInv, ForgottenInv
<1>2. history[t] \in Entry /\ history[t].id \in EventId /\ events[history[t].id].track = t
  BY <1>1 DEF TypeOK, OwnRows
<1>3. events[history[t].id] \in Row
  BY <1>1, <1>2, ElementOfSeq DEF TypeOK, EventId
<1>4. Outcome(t).start \in Nat /\ Outcome(t).ended \in Nat /\ Outcome(t).top \in Nat
  BY <1>2, <1>3 DEF Outcome, Row, Entry
<1>5. LastSeen(Outcome(t)) \in Nat
  BY <1>4 DEF LastSeen
<1>6. QED
  BY <1>2, <1>3, <1>4, <1>5

\* Two tracks own different rows.
LEMMA RowsApart ==
    ASSUME OnceInv, NEW t \in Track, NEW u \in Track, t # u,
           history[t].persisted, history[u].persisted
    PROVE  history[t].id # history[u].id
  BY OwnRow

\* A row of the table, its camera and its last frame.
LEMMA RowParts ==
    ASSUME TypeOK, NEW id \in EventId
    PROVE  /\ events[id] \in Row /\ events[id].track \in Track
           /\ events[id].track.camera \in Cameras
           /\ LastSeen(events[id]) \in Nat
<1>1. events[id] \in Row
  BY ElementOfSeq DEF TypeOK, EventId
<1>2. events[id].track \in Track /\ events[id].start \in Nat /\ events[id].ended \in Nat
  BY <1>1 DEF Row
<1>3. events[id].track.camera \in Cameras
  BY <1>2 DEF Track
<1>4. QED
  BY <1>1, <1>2, <1>3 DEF LastSeen

\* The outcomes add up while neither an event nor a prediction is written.
LEMMA OutcomesStay ==
    ASSUME OutcomeAddsUp, UNCHANGED <<events, stored>>
    PROVE  OutcomeAddsUp'
<1>1. events' = events /\ stored' = stored
  OBVIOUS
<1>2. EventId' = EventId /\ \A id : Closed(id)' = Closed(id)
  BY <1>1 DEF EventId, Closed
<1>3. ASSUME NEW id PROVE AddsUp(stored, id, events[id])' = AddsUp(stored, id, events[id])
  BY <1>1 DEF AddsUp, LastSeen
<1>4. QED
  BY <1>1, <1>2, <1>3 DEF OutcomeAddsUp

\* An entry whose record, row and age stay as they are, or that is seen again.
LEMMA EntryFrame ==
    ASSUME OnceInv, OnceInv', NEW t \in Track, EntryAddsUp(t),
           history'[t].persisted = history[t].persisted,
           history'[t].id = history[t].id, history'[t].ended = history[t].ended,
           history[t].persisted => history'[t].top = history[t].top,
           history'[t].sightings = history[t].sightings,
           history[t].persisted =>
               /\ events'[history[t].id].start = events[history[t].id].start
               /\ events'[history[t].id].top <= history[t].top
               /\ history'[t].lost + frames[t.camera] <= history[t].lost + frames'[t.camera]
    PROVE  EntryAddsUp(t)' /\ (history[t].persisted => Outcome(t)' = Outcome(t))
<1>1. CASE ~history[t].persisted
  BY <1>1 DEF EntryAddsUp
<1>2. CASE history[t].persisted
  <2>1. Outcome(t)' = Outcome(t)
    BY <1>2 DEF Outcome
  <2>2. LastSeen(Outcome(t)') = LastSeen(Outcome(t))
    BY <2>1
  <2>3. LastSeen(Outcome(t)) \in Nat /\ history[t].lost \in Nat
    BY <1>2, OwnRow DEF Entry
  <2>4. history'[t].lost \in Nat /\ frames[t.camera] \in Nat /\ frames'[t.camera] \in Nat
    <3>1. TypeOK /\ TypeOK' /\ t.camera \in Cameras
      BY DEF OnceInv, ForgottenInv, Track
    <3>2. history'[t] \in Entry
      BY <3>1 DEF TypeOK
    <3>3. history'[t].lost \in Nat
      BY <3>2 DEF Entry
    <3>4. frames[t.camera] \in Nat /\ frames'[t.camera] \in Nat
      BY <3>1 DEF TypeOK
    <3>5. QED
      BY <3>3, <3>4
  <2>5. LastSeen(Outcome(t)) + history[t].lost <= frames[t.camera]
    BY <1>2 DEF EntryAddsUp
  <2>6. LastSeen(Outcome(t)) + history'[t].lost <= frames'[t.camera]
    BY <1>2, <2>3, <2>4, <2>5
  <2>7. /\ history'[t].persisted /\ history'[t].id = history[t].id
        /\ history'[t].top = history[t].top /\ history'[t].sightings = history[t].sightings
    BY <1>2
  <2>8. AddsUp(history'[t].sightings, history'[t].id, Outcome(t)')
    BY <1>2, <2>1, <2>7 DEF EntryAddsUp
  <2>9. LastSeen(Outcome(t)') + history'[t].lost <= frames'[t.camera]
    BY <2>2, <2>6
  <2>10. /\ history[t].top \in Scores /\ events'[history[t].id].top <= history[t].top
         /\ \A i \in 1 .. Len(history[t].sightings) :
                history[t].sightings[i].event = history[t].id
    BY <1>2 DEF EntryAddsUp
  <2>11. QED
    BY <2>1, <2>7, <2>8, <2>9, <2>10 DEF EntryAddsUp
<1>3. QED
  BY <1>1, <1>2

\* A step that leaves the tables and the entries' memory alone.
LEMMA LogFrame ==
    ASSUME LogInv, OnceInv',
           UNCHANGED <<events, stored, frames>>,
           \A t \in Track :
               /\ history'[t].persisted = history[t].persisted
               /\ history'[t].id = history[t].id
               /\ history'[t].ended = history[t].ended
               /\ history[t].persisted => history'[t].top = history[t].top
               /\ history'[t].sightings = history[t].sightings
               /\ history'[t].lost <= history[t].lost,
           pc' = "objects" => pc = "objects" /\ UNCHANGED <<camera, todo>>,
           Ending => Ending' /\ unsaved' \subseteq unsaved,
           Hearing'
    PROVE  LogInv'
<1>1. TypeOK /\ TypeOK'
  BY DEF LogInv, OnceInv, ForgottenInv
<1>2. ASSUME NEW t \in Track
      PROVE  EntryAddsUp(t)' /\ (history[t].persisted => Outcome(t)' = Outcome(t))
  <2>1. history[t].lost \in Nat /\ history'[t].lost \in Nat /\ frames[t.camera] \in Nat
    <3>1. history[t] \in Entry /\ history'[t] \in Entry /\ t.camera \in Cameras
      BY <1>1 DEF TypeOK, Track
    <3>2. frames[t.camera] \in Nat
      BY <1>1, <3>1 DEF TypeOK
    <3>3. QED
      BY <3>1, <3>2 DEF Entry
  <2>2. history'[t].lost + frames[t.camera] <= history[t].lost + frames'[t.camera]
    BY <2>1
  <2>3. EntryAddsUp(t)
    BY DEF LogInv
  <2>4. history[t].persisted =>
             /\ events'[history[t].id].start = events[history[t].id].start
             /\ events'[history[t].id].top <= history[t].top
    BY <2>3 DEF EntryAddsUp
  <2>5. OnceInv
    BY DEF LogInv
  <2>6. QED
    BY <2>2, <2>3, <2>4, <2>5, EntryFrame
<1>3. InFrame'
  <2> SUFFICES ASSUME pc' = "objects" PROVE InFrame'
    BY DEF InFrame
  <2>1. pc = "objects" /\ camera' = camera /\ todo' = todo /\ frames' = frames
    OBVIOUS
  <2>2. ASSUME NEW i \in 1 .. Len(todo) PROVE [camera |-> camera, tracker |-> todo[i].tracker] \in Track
    <3>1. todo[i] \in Object
      BY <1>1, ElementOfSeq DEF TypeOK
    <3>2. QED
      BY <1>1, <3>1 DEF Object, TypeOK, Track
  <2>3. ASSUME NEW i \in 1 .. Len(todo),
               history'[[camera |-> camera, tracker |-> todo[i].tracker]].persisted
        PROVE  LastSeen(Outcome([camera |-> camera, tracker |-> todo[i].tracker])') < frames[camera]
    BY <1>2, <2>1, <2>2, <2>3 DEF LogInv, InFrame
  <2>4. QED
    BY <2>1, <2>3 DEF LogInv, InFrame, LastSeen
<1>4. OpenOnes'
  <2>1. \A id : Closed(id)' <=> Closed(id)
    BY DEF Closed
  <2>2. EventId' = EventId
    BY DEF EventId
  <2>3. QED
    BY <2>1, <2>2 DEF LogInv, OpenOnes
<1>5. Gap'
  <2>1. ASSUME NEW id \in EventId, Closed(id)', ~Ending'
        PROVE  LastSeen(events[id]) + MaxLost
                 + (IF pc' = "objects" /\ camera' = events[id].track.camera THEN 2 ELSE 1)
                 <= frames[events[id].track.camera]
    <3>1. Closed(id) /\ ~Ending
      BY <2>1 DEF Closed
    <3>2. LastSeen(events[id]) \in Nat /\ frames[events[id].track.camera] \in Nat
      BY <1>1, RowParts DEF TypeOK
    <3>3. LastSeen(events[id]) + MaxLost
            + (IF pc = "objects" /\ camera = events[id].track.camera THEN 2 ELSE 1)
            <= frames[events[id].track.camera]
      BY <3>1 DEF LogInv, Gap
    <3>4. QED
      BY <3>2, <3>3
  <2>2. QED
    BY <2>1 DEF Gap, EventId, LastSeen
<1>6. OutcomeAddsUp'
  BY OutcomesStay DEF LogInv
<1>7. QED
  BY <1>2, <1>3, <1>4, <1>5, <1>6 DEF LogInv

\* The object in hand, and those left after it.
LEMMA RestOfFrame ==
    ASSUME LogInv, pc = "objects", todo # <<>>
    PROVE  /\ history[Track1].persisted => LastSeen(Outcome(Track1)) < frames[camera]
           /\ \A i, j \in 1 .. Len(Tail(todo)) :
                Tail(todo)[i].tracker = Tail(todo)[j].tracker => i = j
           /\ \A i \in 1 .. Len(Tail(todo)) :
                LET t == [camera |-> camera, tracker |-> Tail(todo)[i].tracker]
                IN  /\ t \in Track /\ t # Track1
                    /\ history[t].persisted => LastSeen(Outcome(t)) < frames[camera]
<1>1. TypeOK
  BY DEF LogInv, OnceInv, ForgottenInv
<1>2. /\ Len(todo) \in Nat /\ 1 \in 1 .. Len(todo) /\ Head(todo) = todo[1]
      /\ Len(Tail(todo)) = Len(todo) - 1
      /\ \A i \in 1 .. Len(Tail(todo)) : i + 1 \in 1 .. Len(todo) /\ Tail(todo)[i] = todo[i + 1]
  BY <1>1, HeadTailProperties, LenProperties, EmptySeq DEF TypeOK
<1>3. /\ \A i, j \in 1 .. Len(todo) : todo[i].tracker = todo[j].tracker => i = j
      /\ \A i \in 1 .. Len(todo) :
             LET t == [camera |-> camera, tracker |-> todo[i].tracker]
             IN  history[t].persisted => LastSeen(Outcome(t)) < frames[camera]
  BY DEF LogInv, InFrame
<1>4. Track1 = [camera |-> camera, tracker |-> todo[1].tracker]
  BY <1>2 DEF Track1, Object1
<1>5. ASSUME NEW i \in 1 .. Len(Tail(todo)), NEW j \in 1 .. Len(Tail(todo)),
             Tail(todo)[i].tracker = Tail(todo)[j].tracker
      PROVE  i = j
  <2>1. i + 1 = j + 1
    BY <1>2, <1>3, <1>5
  <2>2. QED
    BY <1>2, <2>1
<1>6. ASSUME NEW i \in 1 .. Len(Tail(todo))
      PROVE  LET t == [camera |-> camera, tracker |-> Tail(todo)[i].tracker]
             IN  /\ t \in Track /\ t # Track1
                 /\ history[t].persisted => LastSeen(Outcome(t)) < frames[camera]
  <2> DEFINE t == [camera |-> camera, tracker |-> Tail(todo)[i].tracker]
  <2>1. i + 1 \in 1 .. Len(todo) /\ Tail(todo)[i] = todo[i + 1] /\ i + 1 # 1
    BY <1>2
  <2>2. todo[i + 1] \in Object
    BY <1>1, <2>1, ElementOfSeq DEF TypeOK
  <2>3. t \in Track
    BY <1>1, <2>1, <2>2 DEF TypeOK, Object, Track
  <2>4. todo[i + 1].tracker # todo[1].tracker
    BY <1>2, <1>3, <2>1
  <2>5. t # Track1
    BY <1>4, <2>1, <2>4
  <2>6. history[t].persisted => LastSeen(Outcome(t)) < frames[camera]
    BY <1>3, <2>1
  <2>7. QED
    BY <2>3, <2>5, <2>6
<1>7. QED
  BY <1>2, <1>3, <1>4, <1>5, <1>6

\* A frame is taken: every track seen before was seen before this frame.
LEMMA LogTake ==
    ASSUME LogInv, OnceInv', NEW c \in Cameras, NEW objects \in Contents, TakeFrame(c, objects)
    PROVE  LogInv'
<1>1. TypeOK /\ TypeOK' /\ OnceInv
  BY DEF LogInv, OnceInv, ForgottenInv
<1>2. /\ pc = "pop" /\ pc' = "objects" /\ camera' = c /\ todo' = objects
      /\ frames' = [frames EXCEPT ![c] = @ + 1]
      /\ UNCHANGED <<unsaved, events, stored, announced, lpr>>
  BY DEF TakeFrame, databaseVars, recognizerVars
<1>3. /\ frames[c] \in Nat /\ frames'[c] = frames[c] + 1
      /\ \A d \in Cameras : /\ frames[d] \in Nat
                            /\ frames'[d] = IF d = c THEN frames[d] + 1 ELSE frames[d]
  BY <1>1, <1>2 DEF TypeOK
<1>4. ASSUME NEW t \in Track
      PROVE  /\ history'[t].persisted = history[t].persisted
             /\ history'[t].id = history[t].id /\ history'[t].ended = history[t].ended
             /\ history'[t].top = history[t].top
             /\ history'[t].sightings = history[t].sightings
             /\ history[t].lost \in Nat
             /\ history'[t].lost \in {history[t].lost, history[t].lost + 1}
             /\ t.camera # c => history'[t].lost = history[t].lost
  <2>1. history[t] \in Entry /\ history[t].lost \in Nat
    BY <1>1 DEF TypeOK, Entry
  <2>2. \/ history'[t] = history[t]
        \/ t.camera = c /\ history'[t] = [history[t] EXCEPT !.lost = @ + 1]
    BY DEF TakeFrame
  <2>3. QED
    BY <2>1, <2>2 DEF Entry
<1>5. ASSUME NEW t \in Track
      PROVE  EntryAddsUp(t)' /\ (history[t].persisted => Outcome(t)' = Outcome(t))
  <2>1. t.camera \in Cameras
    BY DEF Track
  <2>2. history'[t].lost + frames[t.camera] <= history[t].lost + frames'[t.camera]
    BY <1>3, <1>4, <2>1
  <2>3. EntryAddsUp(t)
    BY DEF LogInv
  <2>4. history[t].persisted =>
             /\ events'[history[t].id].start = events[history[t].id].start
             /\ events'[history[t].id].top <= history[t].top
    BY <1>2, <2>3 DEF EntryAddsUp
  <2>5. QED
    BY <1>1, <1>4, <2>2, <2>3, <2>4, EntryFrame
<1>6. ASSUME NEW t \in Track, t.camera = c, history[t].persisted
      PROVE  LastSeen(Outcome(t)) < frames'[c]
  <2>1. LastSeen(Outcome(t)) + history[t].lost <= frames[c]
    BY <1>6 DEF LogInv, EntryAddsUp
  <2>2. LastSeen(Outcome(t)) \in Nat
    BY <1>1, <1>6, OwnRow
  <2>3. history[t].lost \in Nat
    BY <1>4
  <2>4. QED
    BY <1>3, <2>1, <2>2, <2>3
<1>7. InFrame'
  <2>1. \A i, j \in 1 .. Len(objects) : objects[i].tracker = objects[j].tracker => i = j
    BY DEF Contents
  <2>2. ASSUME NEW i \in 1 .. Len(objects),
               history'[[camera |-> c, tracker |-> objects[i].tracker]].persisted
        PROVE  LastSeen(Outcome([camera |-> c, tracker |-> objects[i].tracker])') < frames'[c]
    <3> DEFINE t == [camera |-> c, tracker |-> objects[i].tracker]
    <3>1. objects[i] \in Object
      BY ContentsAreObjects, ElementOfSeq
    <3>2. t \in Track /\ t.camera = c
      BY <3>1 DEF Object, Track
    <3>3. history[t].persisted /\ Outcome(t)' = Outcome(t)
      BY <1>4, <1>5, <2>2, <3>2
    <3>4. LastSeen(Outcome(t)) < frames'[c]
      BY <1>6, <3>2, <3>3
    <3>5. QED
      BY <3>3, <3>4
  <2>3. frames'[c] >= 1
    BY <1>3
  <2>4. QED
    BY <1>2, <2>1, <2>2, <2>3 DEF InFrame, LastSeen
<1>8. OpenOnes'
  <2>1. ~Ending /\ ~Ending' /\ EventId' = EventId /\ \A id : Closed(id)' <=> Closed(id)
    BY <1>2 DEF Ending, EventId, Closed
  <2>2. QED
    BY <1>2, <1>4, <2>1 DEF LogInv, OpenOnes
<1>9. Gap'
  <2>1. ASSUME NEW id \in EventId, Closed(id)
        PROVE  LastSeen(events[id]) + MaxLost + (IF c = events[id].track.camera THEN 2 ELSE 1)
                 <= frames'[events[id].track.camera]
    <3>1. LastSeen(events[id]) + MaxLost + 1 <= frames[events[id].track.camera]
      BY <1>2, <2>1 DEF LogInv, Gap, Ending
    <3>2. LastSeen(events[id]) \in Nat /\ events[id].track.camera \in Cameras
      BY <1>1, RowParts
    <3>3. QED
      BY <1>3, <3>1, <3>2
  <2>2. QED
    BY <1>2, <2>1 DEF Gap, EventId, LastSeen, Closed
<1>10. Hearing'
  BY <1>2 DEF LogInv, Hearing, Closed
<1>11. OutcomeAddsUp'
  BY <1>2, OutcomesStay DEF LogInv
<1>12. QED
  BY <1>5, <1>7, <1>8, <1>9, <1>10, <1>11 DEF LogInv

\* A row is inserted: the event's first sighting is all there is to it.
LEMMA LogPersist ==
    ASSUME LogInv, OnceInv', PersistEvent
    PROVE  LogInv'
<1> DEFINE new == Len(events) + 1
           r == Sighting(new)
           seen == Append(history[Track1].sightings, r)
           e == [history[Track1] EXCEPT
                   !.id = new, !.known = TRUE, !.persisted = TRUE, !.lost = 0,
                   !.top = Object1.score, !.sightings = seen]
           row == [track |-> Track1, start |-> frames[camera], ended |-> 0,
                   top |-> Object1.score, plates |-> FALSE]
<1>1. TypeOK /\ TypeOK' /\ OnceInv
  BY DEF LogInv, OnceInv, ForgottenInv
<1>2. /\ pc = "objects" /\ todo # <<>> /\ ~history[Track1].persisted
      /\ UNCHANGED <<frames, pc, camera, unsaved, stored, announced, lpr>>
      /\ todo' = Tail(todo)
      /\ history' = [history EXCEPT ![Track1] = e]
      /\ events' = Append(events, row)
  BY DEF PersistEvent, recognizerVars
<1>3. /\ Track1 \in Track /\ new \in Nat /\ r \in Record
      /\ Object1 \in Object /\ Object1.score \in Nat /\ frames[camera] \in Nat
      /\ Track1.camera = camera
  BY <1>1, <1>2, InHand, LenProperties DEF TypeOK, Track1
<1>4. /\ Len(events') = new /\ events'[new] = row
      /\ \A id \in EventId : events'[id] = events[id]
      /\ EventId' = EventId \cup {new} /\ new \notin EventId
  <2>1. row \in Row
    BY <1>3 DEF Row
  <2>2. /\ Len(events') = new /\ events'[new] = row
        /\ \A id \in EventId : events'[id] = events[id]
    BY <1>1, <1>2, <2>1, AppendProperties DEF TypeOK, EventId
  <2>3. Len(events) \in Nat
    BY <1>1, LenProperties DEF TypeOK
  <2>4. QED
    BY <2>2, <2>3 DEF EventId
<1>5. history[Track1] \in Entry /\ history[Track1].ended = 0 /\ history[Track1].sightings = <<>>
  BY <1>1, <1>2, <1>3 DEF LogInv, EntryAddsUp, TypeOK
<1>6. /\ e.id = new /\ e.persisted /\ e.lost = 0 /\ e.ended = 0
      /\ e.top = Object1.score /\ e.sightings = Append(<<>>, r)
  BY <1>5 DEF Entry
<1>7. \A t \in Track : history'[t] = IF t = Track1 THEN e ELSE history[t]
  BY <1>1, <1>2 DEF TypeOK
<1>8. \A id \in Nat : Closed(id)' <=> Closed(id)
  BY <1>2 DEF Closed
<1>9. ~Closed(new) /\ \A id \in Nat : Closed(id) => id \in EventId
  BY <1>4 DEF LogInv, OpenOnes, Closed
<1>10. /\ r.event = new /\ r.track = Track1 /\ r.frame = frames[camera] /\ r.score = Object1.score
  BY DEF Sighting
<1>11. /\ row.track = Track1 /\ row.start = frames[camera] /\ row.ended = 0
       /\ row.top = Object1.score /\ row.plates = FALSE
  OBVIOUS
<1> HIDE DEF new, r, seen, e, row
<1>12. ASSUME NEW t \in Track, t = Track1 PROVE EntryAddsUp(t)'
  <2> DEFINE out == Outcome(t)'
  <2>1. history'[t] = e /\ t.camera = camera
    BY <1>3, <1>7, <1>12
  <2>2. /\ out.track = Track1 /\ out.start = frames[camera] /\ out.ended = 0
        /\ out.top = Object1.score
    BY <1>4, <1>6, <1>11, <1>12, <2>1 DEF Outcome
  <2> HIDE DEF out
  <2>3. AddsUp(Append(<<>>, r), new, out)
    BY <1>3, <1>10, <2>2, AddsUpFirst
  <2>4. Object1.score \in Scores
    BY <1>3 DEF Object
  <2>5. \A i \in 1 .. Len(Append(<<>>, r)) : Append(<<>>, r)[i].event = new
    BY <1>10
  <2>6. LastSeen(out) + e.lost <= frames'[camera]
    BY <1>2, <1>3, <1>6, <2>2 DEF LastSeen
  <2>7. events'[new].top <= e.top
    BY <1>3, <1>4, <1>6, <1>11
  <2>8. AddsUp(history[t].sightings, history[t].id, Outcome(t))'
    <3>1. AddsUp(history'[t].sightings, history'[t].id, out)
      BY <1>6, <2>1, <2>3
    <3>2. QED
      BY <3>1 DEF out, AddsUp, LastSeen
  <2>9. LastSeen(Outcome(t))' + history'[t].lost <= frames'[t.camera]
    BY <2>1, <2>6 DEF out, LastSeen
  <2>10. /\ history'[t].persisted /\ history'[t].top \in Scores
         /\ \A i \in 1 .. Len(history'[t].sightings) :
                history'[t].sightings[i].event = history'[t].id
         /\ events'[history'[t].id].top <= history'[t].top
    BY <1>6, <2>1, <2>4, <2>5, <2>7
  <2>11. QED
    BY <2>8, <2>9, <2>10 DEF EntryAddsUp
<1>13. ASSUME NEW t \in Track, t # Track1
       PROVE  /\ EntryAddsUp(t)' /\ history'[t] = history[t]
              /\ history[t].persisted => Outcome(t)' = Outcome(t)
  <2>1. history'[t] = history[t] /\ EntryAddsUp(t)
    BY <1>7, <1>13 DEF LogInv
  <2>2. history[t].persisted => events'[history[t].id] = events[history[t].id]
    BY <1>1, <1>4, OwnRow
  <2>3. history[t].persisted => events[history[t].id].top <= history[t].top
    BY <2>1 DEF EntryAddsUp
  <2>4. history[t].lost \in Nat /\ frames[t.camera] \in Nat
    <3>1. history[t] \in Entry /\ t.camera \in Cameras
      BY <1>1 DEF TypeOK, Track
    <3>2. frames[t.camera] \in Nat
      BY <1>1, <3>1 DEF TypeOK
    <3>3. QED
      BY <3>1, <3>2 DEF Entry
  <2>5. history'[t].lost + frames[t.camera] <= history[t].lost + frames'[t.camera]
    BY <1>2, <2>1, <2>4
  <2>6. QED
    BY <1>1, <2>1, <2>2, <2>3, <2>5, EntryFrame
<1>14. InFrame'
  <2>1. frames[camera] >= 1
    BY <1>2 DEF LogInv, InFrame
  <2>2. ASSUME NEW i \in 1 .. Len(Tail(todo)), NEW t,
               t = [camera |-> camera, tracker |-> Tail(todo)[i].tracker],
               history'[t].persisted
        PROVE  LastSeen(Outcome(t)') < frames[camera]
    <3>1. /\ t \in Track /\ t # Track1
          /\ history[t].persisted => LastSeen(Outcome(t)) < frames[camera]
      BY <1>2, <2>2, RestOfFrame
    <3>2. QED
      BY <1>13, <2>2, <3>1
  <2>3. QED
    BY <1>2, <2>1, <2>2, RestOfFrame DEF InFrame, LastSeen
<1>15. OpenOnes'
  <2>1. \A i \in 1 .. Len(stored) : stored[i].event \in EventId'
    BY <1>4 DEF LogInv, OpenOnes
  <2>2. ASSUME NEW id \in EventId', ~Closed(id)
        PROVE  events'[id].ended = 0 /\ ~events'[id].plates
    BY <1>4, <1>11, <2>2 DEF LogInv, OpenOnes
  <2>3. ASSUME NEW t \in Track, history'[t].persisted
        PROVE  ~Closed(history'[t].id)
    <3>1. CASE t = Track1
      BY <1>6, <1>7, <1>9, <3>1
    <3>2. CASE t # Track1
      BY <1>2, <1>13, <2>3, <3>2 DEF LogInv, OpenOnes, Ending
    <3>3. QED
      BY <3>1, <3>2
  <2>4. QED
    BY <1>2, <2>1, <2>2, <2>3 DEF OpenOnes, Closed
<1>16. Gap'
  <2>1. ASSUME NEW id \in EventId', Closed(id)
        PROVE  LastSeen(events'[id]) + MaxLost
                 + (IF pc = "objects" /\ camera = events'[id].track.camera THEN 2 ELSE 1)
                 <= frames[events'[id].track.camera]
    <3>1. id \in EventId /\ events'[id] = events[id]
      BY <1>4, <1>9, <2>1
    <3>2. QED
      BY <1>2, <2>1, <3>1 DEF LogInv, Gap, Ending
  <2>2. QED
    BY <1>2, <2>1 DEF Gap, LastSeen, Closed
<1>17. Hearing'
  <2>1. \A i \in 1 .. Len(announced) : Closed(announced[i])
    BY DEF LogInv, Hearing
  <2>2. ASSUME lpr.id # 0 PROVE Closed(lpr.id) /\ lpr.row = events'[lpr.id]
    <3>1. lpr.id \in EventId
      BY <1>1, <2>2 DEF TypeOK
    <3>2. QED
      BY <1>4, <2>2, <3>1 DEF LogInv, Hearing
  <2>3. QED
    BY <1>2, <2>1, <2>2 DEF Hearing, Closed
<1>18. OutcomeAddsUp'
  <2>1. ASSUME NEW id \in EventId', Closed(id) PROVE AddsUp(stored, id, events'[id])
    <3>1. id \in EventId /\ events'[id] = events[id]
      BY <1>4, <1>9, <2>1
    <3>2. QED
      BY <2>1, <3>1 DEF LogInv, OutcomeAddsUp
  <2>2. stored' = stored
    BY <1>2
  <2>3. ASSUME NEW id \in EventId', Closed(id)' PROVE AddsUp(stored, id, events[id])'
    BY <2>1, <2>2, <2>3 DEF Closed, AddsUp, LastSeen
  <2>4. QED
    BY <2>3 DEF OutcomeAddsUp
<1>19. QED
  BY <1>1, <1>12, <1>13, <1>14, <1>15, <1>16, <1>17, <1>18 DEF LogInv

\* The event of a track seen again: one sighting more, in a later frame.
LEMMA LogUpdate ==
    ASSUME LogInv, OnceInv', UpdateEvent
    PROVE  LogInv'
<1> DEFINE id == history[Track1].id
           r == Sighting(id)
           top == IF Object1.score > history[Track1].top THEN Object1.score
                  ELSE history[Track1].top
           seen == Append(history[Track1].sightings, r)
           e == [history[Track1] EXCEPT
                   !.lost = 0, !.ended = frames[camera], !.top = top, !.sightings = seen]
<1>1. TypeOK /\ TypeOK' /\ OnceInv
  BY DEF LogInv, OnceInv, ForgottenInv
<1>2. /\ pc = "objects" /\ todo # <<>> /\ history[Track1].persisted
      /\ UNCHANGED <<frames, pc, camera, unsaved, events, stored, announced, lpr>>
      /\ todo' = Tail(todo)
      /\ history' = [history EXCEPT ![Track1] = e]
  BY DEF UpdateEvent, databaseVars, recognizerVars
<1>3. /\ Track1 \in Track /\ Object1 \in Object /\ Object1.score \in Nat
      /\ Object1.score \in Scores /\ frames[camera] \in Nat /\ Track1.camera = camera
  BY <1>1, <1>2, InHand DEF TypeOK, Track1, Object
<1>4. /\ history[Track1] \in Entry /\ id \in EventId /\ id \in Nat
      /\ Outcome(Track1).start \in Nat /\ Outcome(Track1).ended \in Nat
      /\ Outcome(Track1).top \in Nat /\ LastSeen(Outcome(Track1)) \in Nat
  BY <1>1, <1>2, <1>3, OwnRow DEF EventId
<1>5. r \in Record
  BY <1>1, <1>2, <1>4, InHand
<1>6. /\ \A i \in 1 .. Len(history[Track1].sightings) : history[Track1].sightings[i].event = id
      /\ AddsUp(history[Track1].sightings, id, Outcome(Track1))
      /\ history[Track1].top \in Scores /\ events[id].top <= history[Track1].top
  BY <1>2, <1>3 DEF LogInv, EntryAddsUp
<1>7. /\ e.id = id /\ e.persisted /\ e.lost = 0 /\ e.ended = frames[camera]
      /\ e.top = top /\ e.sightings = seen
  BY <1>2, <1>4 DEF Entry
<1>8. \A t \in Track : history'[t] = IF t = Track1 THEN e ELSE history[t]
  BY <1>1, <1>2 DEF TypeOK
<1>9. /\ r.event = id /\ r.track = Track1 /\ r.frame = frames[camera] /\ r.score = Object1.score
  BY DEF Sighting
<1>10. /\ Outcome(Track1).track = Track1 /\ Outcome(Track1).start = events[id].start
       /\ Outcome(Track1).top = history[Track1].top
       /\ LastSeen(Outcome(Track1)) < frames[camera]
  BY <1>2, RestOfFrame DEF Outcome
<1>11. history[Track1].sightings \in Seq(Record)
  BY <1>4 DEF Entry
<1>12. top \in Scores /\ top \in Nat /\ events[id].top <= top
  <2>1. history[Track1].top \in Nat /\ events[id].top \in Nat
    <3>1. events[id] \in Row
      BY <1>1, <1>4, RowParts
    <3>2. QED
      BY <1>4, <3>1 DEF Row, Entry
  <2>2. QED
    BY <1>3, <1>6, <2>1
<1>13. top = IF r.score > Outcome(Track1).top THEN r.score ELSE Outcome(Track1).top
  BY <1>9, <1>10
<1> HIDE DEF id, r, top, seen, e
<1>14. ASSUME NEW t \in Track, t = Track1 PROVE EntryAddsUp(t)'
  <2> DEFINE out == Outcome(t)'
  <2>1. history'[t] = e /\ t.camera = camera
    BY <1>3, <1>8, <1>14
  <2>2. /\ out.track = Track1 /\ out.start = Outcome(Track1).start
        /\ out.ended = frames[camera] /\ out.top = top
    BY <1>2, <1>7, <1>10, <1>14, <2>1 DEF Outcome
  <2> HIDE DEF out
  <2>3. AddsUp(seen, id, out)
    BY <1>4, <1>5, <1>6, <1>9, <1>10, <1>11, <1>13, <2>2, AddsUpNext DEF seen
  <2>4. \A i \in 1 .. Len(seen) : seen[i].event = id
    <3>1. /\ Len(history[Track1].sightings) \in Nat
          /\ Len(seen) = Len(history[Track1].sightings) + 1
          /\ seen[Len(history[Track1].sightings) + 1] = r
          /\ \A i \in 1 .. Len(history[Track1].sightings) :
                seen[i] = history[Track1].sightings[i]
      BY <1>5, <1>11, AppendProperties, LenProperties DEF seen
    <3>2. \A i \in 1 .. Len(seen) : i \in 1 .. Len(history[Track1].sightings)
                                    \/ i = Len(history[Track1].sightings) + 1
      BY <3>1
    <3>3. QED
      BY <1>6, <1>9, <3>1, <3>2
  <2>5. LastSeen(out) + e.lost <= frames'[camera]
    <3>1. frames[camera] # 0
      BY <1>3, <1>4, <1>10
    <3>2. QED
      BY <1>2, <1>3, <1>7, <2>2, <3>1 DEF LastSeen
  <2>6. AddsUp(history[t].sightings, history[t].id, Outcome(t))'
    <3>1. AddsUp(history'[t].sightings, history'[t].id, out)
      BY <1>7, <2>1, <2>3
    <3>2. QED
      BY <3>1 DEF out, AddsUp, LastSeen
  <2>7. LastSeen(Outcome(t))' + history'[t].lost <= frames'[t.camera]
    BY <2>1, <2>5 DEF out, LastSeen
  <2>8. /\ history'[t].persisted /\ history'[t].top \in Scores
        /\ \A i \in 1 .. Len(history'[t].sightings) :
               history'[t].sightings[i].event = history'[t].id
        /\ events'[history'[t].id].top <= history'[t].top
    BY <1>2, <1>7, <1>12, <2>1, <2>4
  <2>9. QED
    BY <2>6, <2>7, <2>8 DEF EntryAddsUp
<1>15. ASSUME NEW t \in Track, t # Track1
       PROVE  /\ EntryAddsUp(t)' /\ history'[t] = history[t]
              /\ history[t].persisted => Outcome(t)' = Outcome(t)
  <2>1. history'[t] = history[t] /\ EntryAddsUp(t)
    BY <1>8, <1>15 DEF LogInv
  <2>2. history[t].persisted => events[history[t].id].top <= history[t].top
    BY <2>1 DEF EntryAddsUp
  <2>3. history[t].lost \in Nat /\ frames[t.camera] \in Nat
    <3>1. history[t] \in Entry /\ t.camera \in Cameras
      BY <1>1 DEF TypeOK, Track
    <3>2. frames[t.camera] \in Nat
      BY <1>1, <3>1 DEF TypeOK
    <3>3. QED
      BY <3>1, <3>2 DEF Entry
  <2>4. history'[t].lost + frames[t.camera] <= history[t].lost + frames'[t.camera]
    BY <1>2, <2>1, <2>3
  <2>5. QED
    BY <1>1, <1>2, <2>1, <2>2, <2>4, EntryFrame
<1>16. InFrame'
  <2>1. frames[camera] >= 1
    BY <1>2 DEF LogInv, InFrame
  <2>2. ASSUME NEW i \in 1 .. Len(Tail(todo)), NEW t,
               t = [camera |-> camera, tracker |-> Tail(todo)[i].tracker],
               history'[t].persisted
        PROVE  LastSeen(Outcome(t)') < frames[camera]
    <3>1. /\ t \in Track /\ t # Track1
          /\ history[t].persisted => LastSeen(Outcome(t)) < frames[camera]
      BY <1>2, <2>2, RestOfFrame
    <3>2. QED
      BY <1>15, <2>2, <3>1
  <2>3. QED
    BY <1>2, <2>1, <2>2, RestOfFrame DEF InFrame, LastSeen
<1>17. OpenOnes'
  <2>1. \A t \in Track : /\ history'[t].persisted <=> history[t].persisted
                          /\ history'[t].id = history[t].id
    BY <1>2, <1>7, <1>8 DEF id
  <2>2. QED
    BY <1>2, <2>1 DEF LogInv, OpenOnes, EventId, Closed, Ending
<1>18. Gap' /\ Hearing'
  BY <1>2 DEF LogInv, Gap, Hearing, EventId, Closed, Ending, LastSeen
<1>19. OutcomeAddsUp'
  BY <1>2 DEF LogInv, OutcomeAddsUp, AddsUp, EventId, Closed, LastSeen
<1>20. QED
  BY <1>14, <1>15, <1>16, <1>17, <1>18, <1>19 DEF LogInv

\* The transaction that writes an outcome, of an event that was open.
LEMMA OutcomeWritten ==
    ASSUME LogInv, NEW t \in Track, WriteOutcome(t), ~Closed(history[t].id)
    PROVE  LET id == history[t].id IN
           /\ history[t].persisted /\ id \in EventId
           /\ events'[id].track = t /\ events'[id].start = events[id].start
           /\ events'[id].ended = history[t].ended /\ events'[id].top = history[t].top
           /\ ~events'[id].plates
           /\ Len(events') = Len(events)
           /\ \A i \in EventId : i # id => events'[i] = events[i]
           /\ \A i \in Nat : Closed(i)' <=> Closed(i) \/ i = id
           /\ OutcomeAddsUp'
           /\ \A i \in 1 .. Len(stored') : stored'[i].event \in EventId
<1> DEFINE id == history[t].id
           new == [events[id] EXCEPT !.ended = history[t].ended, !.top = history[t].top]
<1>1. TypeOK /\ OnceInv /\ OwnRows
  BY DEF LogInv, OnceInv, ForgottenInv
<1>2. /\ id \in EventId /\ Len(events') = Len(events)
      /\ stored' = stored \o history[t].sightings
  BY <1>1, WriteOutcomeType
<1>3. history[t].persisted
  BY <1>1, <1>2 DEF OwnRows, EventId
<1>4. /\ history[t] \in Entry /\ events[id] \in Row /\ events[id].track = t /\ id \in Nat
  BY <1>1, <1>2, <1>3, OwnRow DEF EventId
<1>5. events' = [events EXCEPT ![id] = new] /\ DOMAIN events = EventId
  BY <1>1, LenProperties DEF WriteOutcome, TypeOK, EventId
<1>6. /\ new.track = t /\ new.start = events[id].start /\ new.ended = history[t].ended
      /\ new.top = history[t].top /\ new.plates = events[id].plates
  BY <1>4 DEF Row
<1>7. ~new.plates
  BY <1>2, <1>6 DEF LogInv, OpenOnes
<1>8. events'[id] = new /\ \A i \in EventId : i # id => events'[i] = events[i]
  BY <1>2, <1>5
<1>9. /\ \A i \in 1 .. Len(history[t].sightings) : history[t].sightings[i].event = id
      /\ AddsUp(history[t].sightings, id, Outcome(t))
  BY <1>3 DEF LogInv, EntryAddsUp
<1>10. stored \in Seq(Record) /\ history[t].sightings \in Seq(Record)
  BY <1>1, <1>4 DEF TypeOK, Entry
<1>11. \A i \in 1 .. Len(stored) : stored[i].event # id
  BY DEF Closed
<1>12. /\ Len(stored) \in Nat /\ Len(history[t].sightings) \in Nat
       /\ Len(stored') = Len(stored) + Len(history[t].sightings)
       /\ \A i \in 1 .. Len(stored) + Len(history[t].sightings) :
            stored'[i] = IF i <= Len(stored) THEN stored[i]
                         ELSE history[t].sightings[i - Len(stored)]
  BY <1>2, <1>10, ConcatProperties, LenProperties
<1> HIDE DEF id, new
<1>13. \A i \in 1 .. Len(stored') : stored'[i].event = id \/
            (i \in 1 .. Len(stored) /\ stored'[i] = stored[i])
  <2>1. ASSUME NEW i \in 1 .. Len(stored'), i > Len(stored) PROVE stored'[i].event = id
    <3>1. /\ i - Len(stored) \in 1 .. Len(history[t].sightings)
          /\ stored'[i] = history[t].sightings[i - Len(stored)]
      BY <1>12, <2>1
    <3>2. QED
      BY <1>9, <3>1
  <2>2. ASSUME NEW i \in 1 .. Len(stored'), i <= Len(stored)
        PROVE  i \in 1 .. Len(stored) /\ stored'[i] = stored[i]
    BY <1>12, <2>2
  <2>3. \A i \in 1 .. Len(stored') : i > Len(stored) \/ i <= Len(stored)
    BY <1>12
  <2>4. QED
    BY <2>1, <2>2, <2>3
<1>14. ASSUME NEW i \in Nat PROVE Closed(i)' <=> Closed(i) \/ i = id
  <2>1. Closed(i)' => Closed(i) \/ i = id
    BY <1>13 DEF Closed
  <2>2. Closed(i) => Closed(i)'
    BY <1>1, <1>2, <1>10, ClosedGrows
  <2>3. i = id => Closed(i)'
    BY <1>1, <1>2, <1>3, WriteOutcomeCloses DEF OnceInv, id
  <2>4. QED
    BY <2>1, <2>2, <2>3
<1>15. ASSUME NEW i \in EventId', Closed(i)' PROVE AddsUp(stored', i, events'[i])
  <2>1. i \in EventId /\ i \in Nat
    BY <1>2 DEF EventId
  <2>2. CASE i = id
    <3>1. AddsUp(stored', id, Outcome(t))
      BY <1>2, <1>9, <1>10, <1>11, AddsUpWritten
    <3>2. /\ Outcome(t).track = t /\ Outcome(t).start = events[id].start
          /\ Outcome(t).ended = history[t].ended /\ Outcome(t).top = history[t].top
      BY DEF Outcome, id
    <3>3. AddsUp(stored', id, new)
      BY <1>6, <3>1, <3>2, AddsUpSame
    <3>4. QED
      BY <1>8, <2>2, <3>3
  <2>3. CASE i # id
    <3>1. Closed(i)
      BY <1>14, <1>15, <2>1, <2>3
    <3>2. AddsUp(stored, i, events[i])
      BY <2>1, <3>1 DEF LogInv, OutcomeAddsUp
    <3>3. AddsUp(stored \o history[t].sightings, i, events[i])
      BY <1>9, <1>10, <2>3, <3>2, AddsUpOthers
    <3>4. QED
      BY <1>2, <1>8, <2>1, <2>3, <3>3
  <2>4. QED
    BY <2>2, <2>3
<1>16. OutcomeAddsUp'
  BY <1>15 DEF OutcomeAddsUp, AddsUp, LastSeen
<1>17. \A i \in 1 .. Len(stored') : stored'[i].event \in EventId
  BY <1>2, <1>13 DEF LogInv, OpenOnes
<1>18. QED
  BY <1>2, <1>3, <1>6, <1>7, <1>8, <1>14, <1>16, <1>17 DEF id

\* What a written outcome leaves of the rest: the rows the recognizer knows and the
\* entries of other tracks.
LEMMA WrittenElsewhere ==
    ASSUME LogInv, OnceInv', NEW t \in Track, WriteOutcome(t), ~Closed(history[t].id),
           frames' = frames, lpr' = lpr
    PROVE  /\ \A u \in Track : u # t /\ history'[u] = history[u] => EntryAddsUp(u)'
           /\ \A u \in Track : \A i : u # t /\ history[u].persisted /\ i = history[u].id /\ Closed(i)'
                => Closed(i)
           /\ \A i : i = lpr.id /\ i # 0 => Closed(i)' /\ lpr.row = events'[i]
           /\ \A i \in EventId : ~Closed(i)' => events'[i].ended = 0 /\ ~events'[i].plates
           /\ \A i \in Nat : Closed(i) => Closed(i)'
<1>1. TypeOK /\ OnceInv
  BY DEF LogInv, OnceInv, ForgottenInv
<1>2. /\ history[t].persisted /\ history[t].id \in EventId
      /\ \A i \in EventId : i # history[t].id => events'[i] = events[i]
      /\ \A i \in Nat : Closed(i)' <=> Closed(i) \/ i = history[t].id
  BY OutcomeWritten
<1>3. EventId \subseteq Nat
  BY DEF EventId
<1>4. ASSUME NEW u \in Track, u # t, history'[u] = history[u] PROVE EntryAddsUp(u)'
  <2>1. EntryAddsUp(u)
    BY DEF LogInv
  <2>2. history[u].persisted => events'[history[u].id] = events[history[u].id]
    BY <1>1, <1>2, <1>4, OwnRow, RowsApart
  <2>3. history[u].persisted => events[history[u].id].top <= history[u].top
    BY <2>1 DEF EntryAddsUp
  <2>4. history[u].lost \in Nat /\ frames[u.camera] \in Nat
    <3>1. history[u] \in Entry /\ u.camera \in Cameras
      BY <1>1 DEF TypeOK, Track
    <3>2. frames[u.camera] \in Nat
      BY <1>1, <3>1 DEF TypeOK
    <3>3. QED
      BY <3>1, <3>2 DEF Entry
  <2>5. history'[u].lost + frames[u.camera] <= history[u].lost + frames'[u.camera]
    BY <1>4, <2>4
  <2>6. QED
    BY <1>1, <1>4, <2>1, <2>2, <2>3, <2>5, EntryFrame
<1>5. ASSUME NEW u \in Track, u # t, history[u].persisted
      PROVE  history[u].id \in Nat /\ history[u].id # history[t].id
  BY <1>1, <1>2, <1>3, <1>5, OwnRow, RowsApart
<1>6. ASSUME NEW u \in Track, u # t, history[u].persisted, NEW i, i = history[u].id, Closed(i)'
      PROVE  Closed(i)
  BY <1>2, <1>5, <1>6
<1>7. ASSUME NEW i, i = lpr.id, i # 0
      PROVE  Closed(i)' /\ lpr.row = events'[i]
  <2>1. i \in EventId /\ Closed(i) /\ lpr.row = events[i]
    BY <1>1, <1>7 DEF TypeOK, LogInv, Hearing
  <2>2. QED
    BY <1>2, <1>3, <2>1
<1>8. ASSUME NEW i \in EventId, ~Closed(i)'
      PROVE  events'[i].ended = 0 /\ ~events'[i].plates
  <2>1. ~Closed(i) /\ events'[i] = events[i]
    BY <1>2, <1>3, <1>8
  <2>2. QED
    BY <2>1 DEF LogInv, OpenOnes
<1>9. QED
  BY <1>2, <1>4, <1>6, <1>7, <1>8

\* A track is missed once too often: its event is written, announced and forgotten.
LEMMA LogComplete ==
    ASSUME LogInv, OnceInv', NEW t \in Track, CompleteEvent(t)
    PROVE  LogInv' /\ ~Closed(history[t].id)
<1> DEFINE done == history[t].id
<1>1. TypeOK /\ TypeOK' /\ OnceInv /\ OwnRows
  BY DEF LogInv, OnceInv, ForgottenInv
<1>2. /\ pc = "cleanup" /\ t.camera = camera /\ history[t].lost > MaxLost
      /\ WriteOutcome(t)
      /\ announced' = Append(announced, done)
      /\ history' = [history EXCEPT ![t] = NoEntry]
      /\ UNCHANGED <<frames, pc, camera, todo, unsaved, lpr>>
  BY DEF CompleteEvent, LostTracks, recognizerVars
<1>3. history[t].persisted
  BY <1>1, <1>2, WriteOutcomeType DEF OwnRows, EventId
<1>4. ~Closed(done)
  BY <1>2, <1>3 DEF LogInv, OpenOnes, Ending
<1>5. /\ done \in EventId
      /\ events'[done].track = t /\ events'[done].start = events[done].start
      /\ events'[done].ended = history[t].ended
      /\ Len(events') = Len(events) /\ EventId' = EventId
      /\ \A i \in EventId : i # done => events'[i] = events[i]
      /\ \A i \in Nat : Closed(i)' <=> Closed(i) \/ i = done
      /\ OutcomeAddsUp'
      /\ \A i \in 1 .. Len(stored') : stored'[i].event \in EventId
  BY <1>2, <1>4, OutcomeWritten DEF EventId
<1>6. /\ \A u \in Track : u # t /\ history'[u] = history[u] => EntryAddsUp(u)'
      /\ \A u \in Track : \A i : u # t /\ history[u].persisted /\ i = history[u].id /\ Closed(i)'
           => Closed(i)
      /\ \A i : i = lpr.id /\ i # 0 => Closed(i)' /\ lpr.row = events'[i]
      /\ \A i \in EventId : ~Closed(i)' => events'[i].ended = 0 /\ ~events'[i].plates
      /\ \A i \in Nat : Closed(i) => Closed(i)'
  BY <1>2, <1>4, WrittenElsewhere
<1>7. /\ \A u \in Track : history'[u] = IF u = t THEN NoEntry ELSE history[u]
      /\ ~NoEntry.persisted /\ NoEntry.ended = 0 /\ NoEntry.sightings = <<>>
  BY <1>1, <1>2 DEF TypeOK, NoEntry
<1>8. EventId \subseteq Nat
  BY DEF EventId
<1> HIDE DEF done
<1>9. ASSUME NEW u \in Track PROVE EntryAddsUp(u)'
  <2>1. CASE u = t
    BY <1>7, <2>1 DEF EntryAddsUp
  <2>2. CASE u # t
    BY <1>6, <1>7, <2>2
  <2>3. QED
    BY <2>1, <2>2
<1>10. InFrame'
  BY <1>2 DEF InFrame
<1>11. OpenOnes'
  <2>1. ASSUME NEW u \in Track, history'[u].persisted, NEW i, i = history'[u].id, Closed(i)'
        PROVE  FALSE
    <3>1. u # t /\ history'[u] = history[u]
      BY <1>7, <2>1
    <3>2. Closed(history[u].id)
      BY <1>6, <2>1, <3>1
    <3>3. QED
      BY <1>2, <2>1, <3>1, <3>2 DEF LogInv, OpenOnes, Ending
  <2>2. QED
    BY <1>5, <1>6, <2>1 DEF OpenOnes
<1>12. Gap'
  <2>1. ASSUME NEW i \in EventId, Closed(i)'
        PROVE  LastSeen(events[i])' + MaxLost + 1 <= frames[events'[i].track.camera]
    <3>1. CASE i = done
      <4>1. LastSeen(events[i])' = LastSeen(Outcome(t))
        BY <1>5, <3>1 DEF LastSeen, Outcome, done
      <4>2. LastSeen(Outcome(t)) + history[t].lost <= frames[camera]
        BY <1>2, <1>3 DEF LogInv, EntryAddsUp
      <4>3. LastSeen(Outcome(t)) \in Nat /\ history[t].lost \in Nat
        BY <1>1, <1>3, OwnRow DEF Entry
      <4>4. frames[camera] \in Nat
        BY <1>1 DEF TypeOK
      <4>5. LastSeen(Outcome(t)) + MaxLost + 1 <= frames[camera]
        <5>1. history[t].lost > MaxLost /\ MaxLost \in Nat
          BY <1>2
        <5>2. QED
          BY <4>2, <4>3, <4>4, <5>1
      <4>6. QED
        BY <1>2, <1>5, <3>1, <4>1, <4>5
    <3>2. CASE i # done
      <4>1. Closed(i) /\ events'[i] = events[i]
        BY <1>5, <1>8, <2>1, <3>2
      <4>2. LastSeen(events[i]) + MaxLost + 1 <= frames[events[i].track.camera]
        BY <1>2, <4>1 DEF LogInv, Gap, Ending
      <4>3. QED
        BY <4>1, <4>2 DEF LastSeen
    <3>3. QED
      BY <3>1, <3>2
  <2>2. QED
    BY <1>2, <1>5, <2>1 DEF Gap
<1>13. Hearing'
  <2>1. announced \in Seq(EventId)
    BY <1>1 DEF TypeOK
  <2>2. /\ Len(announced) \in Nat /\ Len(announced') = Len(announced) + 1
        /\ announced'[Len(announced) + 1] = done
        /\ \A i \in 1 .. Len(announced) : announced'[i] = announced[i] /\ announced[i] \in EventId
    BY <1>2, <1>5, <2>1, AppendProperties, LenProperties, ElementOfSeq
  <2>3. ASSUME NEW i \in 1 .. Len(announced'), NEW id, id = announced'[i] PROVE Closed(id)'
    <3>1. CASE i \in 1 .. Len(announced)
      <4>1. Closed(id) /\ id \in Nat
        BY <1>8, <2>2, <2>3, <3>1 DEF LogInv, Hearing
      <4>2. QED
        BY <1>6, <4>1
    <3>2. CASE i = Len(announced) + 1
      BY <1>5, <1>8, <2>2, <2>3, <3>2
    <3>3. QED
      BY <2>2, <3>1, <3>2
  <2>4. ASSUME NEW id, id = lpr'.id, id # 0 PROVE Closed(id)' /\ lpr'.row = events'[id]
    BY <1>2, <1>6, <2>4
  <2>5. QED
    BY <2>3, <2>4 DEF Hearing
<1>14. QED
  BY <1>1, <1>4, <1>5, <1>9, <1>10, <1>11, <1>12, <1>13 DEF LogInv, done

\* While the processor ends it writes what is left, and remembers it all the same.
LEMMA LogFinalize ==
    ASSUME LogInv, OnceInv', NEW t \in Track, FinalizeEvent(t)
    PROVE  LogInv' /\ ~Closed(history[t].id)
<1> DEFINE done == history[t].id
<1>1. TypeOK /\ TypeOK' /\ OnceInv /\ OwnRows
  BY DEF LogInv, OnceInv, ForgottenInv
<1>2. /\ pc = "finalize" /\ t \in unsaved /\ WriteOutcome(t)
      /\ unsaved' = unsaved \ {t}
      /\ UNCHANGED <<frames, history, pc, camera, todo, announced, lpr>>
  BY DEF FinalizeEvent, recognizerVars
<1>3. history[t].persisted
  BY <1>1, <1>2, WriteOutcomeType DEF OwnRows, EventId
<1>4. ~Closed(done)
  BY <1>2, <1>3 DEF LogInv, OpenOnes
<1>5. /\ done \in EventId
      /\ events'[done].start = events[done].start /\ events'[done].top = history[t].top
      /\ Len(events') = Len(events) /\ EventId' = EventId
      /\ OutcomeAddsUp'
      /\ \A i \in 1 .. Len(stored') : stored'[i].event \in EventId
  BY <1>2, <1>4, OutcomeWritten DEF EventId
<1>6. /\ \A u \in Track : u # t /\ history'[u] = history[u] => EntryAddsUp(u)'
      /\ \A u \in Track : \A i : u # t /\ history[u].persisted /\ i = history[u].id /\ Closed(i)'
           => Closed(i)
      /\ \A i : i = lpr.id /\ i # 0 => Closed(i)' /\ lpr.row = events'[i]
      /\ \A i \in EventId : ~Closed(i)' => events'[i].ended = 0 /\ ~events'[i].plates
      /\ \A i \in Nat : Closed(i) => Closed(i)'
  BY <1>2, <1>4, WrittenElsewhere
<1>7. EntryAddsUp(t)'
  <2>1. EntryAddsUp(t) /\ history'[t] = history[t]
    BY <1>2 DEF LogInv
  <2>2. history[t].top \in Nat /\ history[t].lost \in Nat /\ frames[t.camera] \in Nat
    <3>1. history[t] \in Entry /\ t.camera \in Cameras
      BY <1>1 DEF TypeOK, Track
    <3>2. frames[t.camera] \in Nat
      BY <1>1, <3>1 DEF TypeOK
    <3>3. QED
      BY <3>1, <3>2 DEF Entry
  <2>3. /\ events'[history[t].id].top <= history[t].top
        /\ history'[t].lost + frames[t.camera] <= history[t].lost + frames'[t.camera]
    BY <1>2, <1>5, <2>2
  <2>4. QED
    BY <1>1, <1>5, <2>1, <2>3, EntryFrame
<1> HIDE DEF done
<1>8. ASSUME NEW u \in Track PROVE EntryAddsUp(u)'
  BY <1>2, <1>6, <1>7
<1>9. InFrame' /\ Gap'
  BY <1>2 DEF InFrame, Gap, Ending
<1>10. OpenOnes'
  <2>1. ASSUME NEW u \in Track, history'[u].persisted, NEW i, i = history'[u].id, Closed(i)'
        PROVE  Ending' /\ u \notin unsaved'
    <3>1. CASE u = t
      BY <1>2, <3>1 DEF Ending
    <3>2. CASE u # t
      <4>1. Closed(history[u].id)
        BY <1>2, <1>6, <2>1, <3>2
      <4>2. QED
        BY <1>2, <2>1, <4>1 DEF LogInv, OpenOnes, Ending
    <3>3. QED
      BY <3>1, <3>2
  <2>2. QED
    BY <1>5, <1>6, <2>1 DEF OpenOnes
<1>11. Hearing'
  <2>1. ASSUME NEW i \in 1 .. Len(announced), NEW id, id = announced[i] PROVE Closed(id)'
    <3>1. id \in EventId
      BY <1>1, <2>1, ElementOfSeq DEF TypeOK
    <3>2. Closed(id) /\ id \in Nat
      BY <2>1, <3>1 DEF LogInv, Hearing, EventId
    <3>3. QED
      BY <1>6, <3>2
  <2>2. ASSUME NEW id, id = lpr'.id, id # 0 PROVE Closed(id)' /\ lpr'.row = events'[id]
    BY <1>2, <1>6, <2>2
  <2>3. announced' = announced
    BY <1>2
  <2>4. QED
    BY <2>1, <2>2, <2>3 DEF Hearing
<1>12. QED
  BY <1>1, <1>4, <1>5, <1>8, <1>9, <1>10, <1>11 DEF LogInv, done

\* The recognizer loads a closed row, and so the copy it writes back is the row
\* with the plate text.
LEMMA LogAnnotate ==
    ASSUME LogInv, OnceInv', LprUpdate
    PROVE  /\ LogInv'
           /\ lpr.id \in EventId /\ Closed(lpr.id)
           /\ events' = [events EXCEPT ![lpr.id] = [events[lpr.id] EXCEPT !.plates = TRUE]]
<1> DEFINE row == [events[lpr.id] EXCEPT !.plates = TRUE]
<1>1. TypeOK /\ TypeOK' /\ OnceInv
  BY DEF LogInv, OnceInv, ForgottenInv
<1>2. /\ lpr.id # 0 /\ lpr'.id = 0
      /\ UNCHANGED <<frames, history, pc, camera, todo, unsaved, stored, announced>>
  BY DEF LprUpdate, IdleRecognizer, processorVars
<1>3. lpr.id \in EventId /\ Closed(lpr.id) /\ lpr.row = events[lpr.id]
  BY <1>1, <1>2 DEF TypeOK, LogInv, Hearing
<1>4. events' = [events EXCEPT ![lpr.id] = row]
  BY <1>3 DEF LprUpdate
<1>5. events[lpr.id] \in Row /\ row \in Row /\ DOMAIN events = EventId
  <2>1. events[lpr.id] \in Row
    BY <1>1, <1>3, RowParts
  <2>2. row \in Row
    BY <2>1 DEF Row
  <2>3. DOMAIN events = EventId
    BY <1>1, LenProperties DEF TypeOK, EventId
  <2>4. QED
    BY <2>1, <2>2, <2>3
<1>6. /\ row.track = events[lpr.id].track /\ row.start = events[lpr.id].start
      /\ row.ended = events[lpr.id].ended /\ row.top = events[lpr.id].top
  BY <1>5 DEF Row
<1>7. \A i \in EventId :
        /\ events'[i].track = events[i].track /\ events'[i].start = events[i].start
        /\ events'[i].ended = events[i].ended /\ events'[i].top = events[i].top
        /\ i # lpr.id => events'[i] = events[i]
  <2> HIDE DEF row
  <2>1. QED
    BY <1>4, <1>5, <1>6
<1>8. EventId' = EventId
  BY <1>1, <1>3, <1>4, <1>5, ExceptSeq DEF TypeOK, EventId
<1>9. \A i : Closed(i)' <=> Closed(i)
  BY <1>2 DEF Closed
<1>10. ASSUME NEW t \in Track
       PROVE  EntryAddsUp(t)' /\ (history[t].persisted => Outcome(t)' = Outcome(t))
  <2>1. EntryAddsUp(t) /\ history'[t] = history[t]
    BY <1>2 DEF LogInv
  <2>2. history[t].lost \in Nat /\ frames[t.camera] \in Nat
    <3>1. history[t] \in Entry /\ t.camera \in Cameras
      BY <1>1 DEF TypeOK, Track
    <3>2. frames[t.camera] \in Nat
      BY <1>1, <3>1 DEF TypeOK
    <3>3. QED
      BY <3>1, <3>2 DEF Entry
  <2>3. history'[t].lost + frames[t.camera] <= history[t].lost + frames'[t.camera]
    BY <1>2, <2>2
  <2>4. history[t].persisted =>
          /\ events'[history[t].id].start = events[history[t].id].start
          /\ events'[history[t].id].top <= history[t].top
    BY <1>1, <1>7, <2>1, OwnRow DEF EntryAddsUp
  <2>5. QED
    BY <1>1, <2>1, <2>3, <2>4, EntryFrame
<1>11. InFrame'
  <2> SUFFICES ASSUME pc' = "objects" PROVE InFrame'
    BY DEF InFrame
  <2>1. ASSUME NEW i \in 1 .. Len(todo), NEW t,
               t = [camera |-> camera, tracker |-> todo[i].tracker],
               history'[t].persisted
        PROVE  LastSeen(Outcome(t)') < frames[camera]
    <3>1. todo[i] \in Object
      BY <1>1, ElementOfSeq DEF TypeOK
    <3>2. t \in Track
      BY <1>1, <2>1, <3>1 DEF TypeOK, Object, Track
    <3>3. LastSeen(Outcome(t)) < frames[camera]
      BY <1>2, <2>1 DEF LogInv, InFrame
    <3>4. QED
      BY <1>2, <1>10, <2>1, <3>2, <3>3
  <2>2. QED
    BY <1>2, <2>1 DEF LogInv, InFrame, LastSeen
<1>12. OpenOnes'
  <2>1. ASSUME NEW i \in EventId, ~Closed(i) PROVE events'[i].ended = 0 /\ ~events'[i].plates
    BY <1>3, <1>7, <2>1 DEF LogInv, OpenOnes
  <2>2. QED
    BY <1>2, <1>8, <1>9, <2>1 DEF LogInv, OpenOnes, Ending
<1>13. \A i \in EventId : LastSeen(events[i])' = LastSeen(events[i])
  BY <1>7 DEF LastSeen
<1>14. Gap'
  BY <1>2, <1>7, <1>8, <1>9, <1>13 DEF LogInv, Gap, Ending
<1>15. Hearing'
  BY <1>2 DEF LogInv, Hearing, Closed
<1>16. OutcomeAddsUp'
  <2>1. ASSUME NEW i \in EventId, Closed(i) PROVE AddsUp(stored, i, events'[i])
    <3>1. AddsUp(stored, i, events[i])
      BY <2>1 DEF LogInv, OutcomeAddsUp
    <3>2. QED
      BY <1>7, <3>1, AddsUpSame
  <2>2. stored' = stored
    BY <1>2
  <2>3. ASSUME NEW i \in EventId, Closed(i) PROVE AddsUp(stored, i, events[i])'
    BY <2>1, <2>2, <2>3 DEF AddsUp, LastSeen
  <2>4. QED
    BY <1>8, <1>9, <2>3 DEF OutcomeAddsUp
<1>17. QED
  BY <1>3, <1>4, <1>10, <1>11, <1>12, <1>14, <1>15, <1>16 DEF LogInv

\* Without failing commits, what is written of events adds up after every step.
LEMMA LogNext ==
    ASSUME ~CommitMayFail
    PROVE  LogInv /\ [Next]_vars => LogInv'
<1> SUFFICES ASSUME LogInv, [Next]_vars PROVE LogInv'
  OBVIOUS
<1>0. TypeOK /\ OnceInv /\ OnceInv'
  BY OnceNext DEF LogInv, OnceInv, ForgottenInv
<1>1. ASSUME UNCHANGED <<events, stored, frames, history>>,
             pc' = "objects" => pc = "objects" /\ UNCHANGED <<camera, todo>>,
             Ending => Ending' /\ unsaved' \subseteq unsaved,
             Hearing'
      PROVE  LogInv'
  <2>1. \A t \in Track : history'[t].lost <= history[t].lost
    BY <1>0, <1>1 DEF TypeOK, Entry
  <2>2. QED
    BY <1>0, <1>1, <2>1, LogFrame
<1>2. ASSUME UNCHANGED <<announced, stored, events, lpr>> PROVE Hearing'
  BY <1>2 DEF LogInv, Hearing, Closed
<1>3. CASE LoopCheck
  BY <1>1, <1>2, <1>3 DEF LoopCheck, Ending, databaseVars, recognizerVars
<1>4. ASSUME NEW c \in Cameras, NEW objects \in Contents, TakeFrame(c, objects) PROVE LogInv'
  BY <1>0, <1>4, LogTake
<1>5. CASE PersistEvent
  BY <1>0, <1>5, LogPersist
<1>6. CASE PersistCommitFails
  BY <1>6 DEF PersistCommitFails
<1>7. CASE UpdateEvent
  BY <1>0, <1>7, LogUpdate
<1>8. CASE ObjectFails
  <2>1. Track1 \in Track
    BY <1>0, <1>8, InHand DEF ObjectFails
  <2>2. ASSUME NEW t \in Track
        PROVE  /\ history'[t].persisted = history[t].persisted
               /\ history'[t].id = history[t].id
               /\ history'[t].ended = history[t].ended
               /\ history'[t].top = history[t].top
               /\ history'[t].sightings = history[t].sightings
               /\ history'[t].lost <= history[t].lost
    <3>1. history[t] \in Entry /\ history[t].lost \in Nat
      BY <1>0 DEF TypeOK, Entry
    <3>2. history'[t] = history[t] \/ history'[t] = [history[t] EXCEPT !.known = TRUE, !.lost = 0]
      BY <1>0, <1>8, <2>1 DEF ObjectFails, TypeOK
    <3>3. /\ history'[t].persisted = history[t].persisted
          /\ history'[t].id = history[t].id
          /\ history'[t].ended = history[t].ended
          /\ history'[t].top = history[t].top
          /\ history'[t].sightings = history[t].sightings
          /\ history'[t].lost \in {0, history[t].lost}
      BY <3>1, <3>2 DEF Entry
    <3>4. QED
      BY <3>1, <3>3
  <2>3. UNCHANGED <<events, stored, frames, announced, lpr>> /\ pc' = "cleanup" /\ pc = "objects"
    BY <1>8 DEF ObjectFails, AbandonFrame, databaseVars, recognizerVars
  <2>4. QED
    BY <1>0, <1>2, <2>2, <2>3, LogFrame DEF Ending
<1>9. CASE ObjectsDone
  BY <1>1, <1>2, <1>9 DEF ObjectsDone, Ending, databaseVars, recognizerVars
<1>10. ASSUME NEW t \in Track, CompleteEvent(t) PROVE LogInv'
  BY <1>0, <1>10, LogComplete
<1>11. ASSUME NEW t \in Track, CompleteFails(t) PROVE LogInv'
  BY <1>1, <1>2, <1>11 DEF CompleteFails, Ending, databaseVars, recognizerVars
<1>12. CASE CleanupDone
  BY <1>1, <1>2, <1>12 DEF CleanupDone, Ending, databaseVars, recognizerVars
<1>13. ASSUME NEW t \in Track, FinalizeEvent(t) PROVE LogInv'
  BY <1>0, <1>13, LogFinalize
<1>14. ASSUME NEW t \in Track, FinalizeFails(t) PROVE LogInv'
  BY <1>1, <1>2, <1>14 DEF FinalizeFails, Ending, databaseVars, recognizerVars
<1>15. CASE FinalizeDone
  BY <1>1, <1>2, <1>15 DEF FinalizeDone, Ending, databaseVars, recognizerVars
<1>16. CASE LprLoad
  <2>1. heard + 1 \in 1 .. Len(announced)
    BY <1>0, <1>16, LenProperties DEF LprLoad, TypeOK
  <2>2. ASSUME NEW id, id = announced[heard + 1] PROVE Closed(id)'
    BY <1>16, <2>1, <2>2 DEF LprLoad, LogInv, Hearing, Closed, databaseVars
  <2>3. /\ lpr'.id = announced[heard + 1] /\ lpr'.row = events[announced[heard + 1]]
        /\ UNCHANGED <<announced, stored, events>>
    BY <1>16 DEF LprLoad, databaseVars
  <2>4. Hearing'
    BY <2>2, <2>3 DEF LogInv, Hearing, Closed
  <2>5. QED
    BY <1>1, <1>16, <2>4 DEF LprLoad, Ending, processorVars, databaseVars
<1>17. CASE LprGiveUp
  <2>1. Hearing'
    BY <1>17 DEF LprGiveUp, IdleRecognizer, LogInv, Hearing, Closed, databaseVars
  <2>2. QED
    BY <1>1, <1>17, <2>1 DEF LprGiveUp, Ending, processorVars, databaseVars
<1>18. CASE LprUpdate
  BY <1>0, <1>18, LogAnnotate
<1>19. CASE InterruptProcessor
  BY <1>1, <1>2, <1>19 DEF InterruptProcessor, Ending, processorVars, databaseVars, recognizerVars
<1>20. CASE AbortQueue
  BY <1>1, <1>2, <1>20 DEF AbortQueue, Ending, databaseVars, recognizerVars
<1>21. CASE UNCHANGED vars
  BY <1>1, <1>2, <1>21 DEF vars, Ending, processorVars, databaseVars, recognizerVars
<1>22. QED
  BY <1>3, <1>4, <1>5, <1>6, <1>7, <1>8, <1>9, <1>10, <1>11, <1>12, <1>13, <1>14, <1>15,
     <1>16, <1>17, <1>18, <1>19, <1>20, <1>21 DEF Next, Stopped

LEMMA LogInit == Init => LogInv
<1> SUFFICES ASSUME Init PROVE LogInv
  OBVIOUS
<1>1. OnceInv
  <2>1. ForgottenInv
    BY ForgottenInit
  <2>2. \A t \in Track : ~history[t].persisted /\ history[t].id = 0
    BY DEF Init, NoEntry
  <2>3. Len(announced) = 0
    BY DEF Init
  <2>4. QED
    BY <2>1, <2>2, <2>3 DEF OnceInv, OwnRows, CompletedOnce
<1>2. /\ \A t \in Track : ~history[t].persisted /\ history[t].ended = 0
                          /\ history[t].sightings = <<>>
      /\ EventId = {} /\ Len(stored) = 0 /\ Len(announced) = 0
      /\ pc = "loop" /\ lpr.id = 0
  BY DEF Init, NoEntry, EventId, IdleRecognizer
<1>3. \A t \in Track : EntryAddsUp(t)
  BY <1>2 DEF EntryAddsUp
<1>4. InFrame /\ OpenOnes /\ Gap /\ Hearing /\ OutcomeAddsUp
  BY <1>2 DEF InFrame, OpenOnes, Gap, Hearing, OutcomeAddsUp
<1>5. QED
  BY <1>1, <1>3, <1>4 DEF LogInv

(***************************************************************************)
(* While no COMMIT of a new event fails, every event that is written down  *)
(* agrees with its predictions in track, start, end and top score, in the  *)
(* order of its frames, whatever else fails and is tried again.            *)
(***************************************************************************)
THEOREM OutcomesAddUp ==
    ASSUME ~CommitMayFail
    PROVE  Spec => []OutcomeAddsUp
<1>1. LogInv => OutcomeAddsUp
  BY DEF LogInv
<1>2. LogInv /\ [Next]_vars => LogInv'
  BY LogNext
<1>3. QED
  BY <1>1, <1>2, LogInit, PTL DEF Spec
------------------------------------------------------------------------------
(* The Event table is the log EventLog promises.                           *)

LogOf == [i \in EventId |-> LogRow(i)]

\* The log seen as a sequence of rows.
LEMMA LogShape ==
    ASSUME TypeOK
    PROVE  /\ Len(LogOf) = Len(events) /\ LogOf \in Seq({ LogRow(i) : i \in EventId })
           /\ \A i \in EventId : LogOf[i] = LogRow(i)
           /\ Len(events) \in Nat /\ EventId = 1 .. Len(LogOf)
<1>1. Len(events) \in Nat
  BY LenProperties DEF TypeOK
<1>2. LogOf \in [1 .. Len(events) -> { LogRow(i) : i \in EventId }]
  BY DEF LogOf, EventId
<1>3. LogOf \in Seq({ LogRow(i) : i \in EventId }) /\ Len(LogOf) = Len(events)
  BY <1>1, <1>2, IsASeq, LenProperties
<1>4. QED
  BY <1>1, <1>3 DEF LogOf, EventId

\* The log does not move when no row and no prediction is written.
LEMMA LogStays == UNCHANGED <<events, stored>> => LogOf' = LogOf
  BY DEF LogOf, LogRow, EventId, Closed

\* A row inserted is a row opened: the track has no open one, and was missing for
\* more than MaxLost frames if it had one before.
LEMMA OpensRow ==
    ASSUME LogInv, OnceInv', PersistEvent
    PROVE  Log!Open(Track1, frames[camera], Object1.score) /\ Log!Next
<1> DEFINE n == frames[camera]
           row == [track |-> Track1, start |-> n, ended |-> 0,
                   top |-> Object1.score, plates |-> FALSE]
           new == [track |-> Track1, start |-> n, ended |-> 0,
                   top |-> Object1.score, plates |-> FALSE, closed |-> FALSE]
<1>1. TypeOK /\ TypeOK'
  BY DEF LogInv, OnceInv, ForgottenInv
<1>2. /\ pc = "objects" /\ todo # <<>> /\ ~history[Track1].persisted
      /\ events' = Append(events, row) /\ stored' = stored
  BY DEF PersistEvent
<1>3. /\ Track1 \in Track /\ Object1.score \in Scores /\ Object1.score \in Nat
      /\ n \in 1 .. MaxFrames /\ Track1.camera = camera
  <2>1. n \in 0 .. MaxFrames /\ n >= 1
    BY <1>1, <1>2 DEF TypeOK, LogInv, InFrame
  <2>2. QED
    BY <1>1, <1>2, <2>1, InHand DEF Track1, Object
<1>4. ASSUME NEW i \in EventId, events[i].track = Track1
      PROVE  Closed(i) /\ n > LastSeen(events[i]) + MaxLost + 1
  <2>1. Closed(i)
    BY <1>2, <1>4 DEF LogInv, OnceInv, ForgottenInv, NoEventForgotten
  <2>2. LastSeen(events[i]) + MaxLost + 2 <= n
    BY <1>2, <1>3, <1>4, <2>1 DEF LogInv, Gap, Ending
  <2>3. LastSeen(events[i]) \in Nat
    BY <1>1, RowParts
  <2>4. QED
    BY <1>3, <2>1, <2>2, <2>3
<1>5. /\ Len(events) \in Nat /\ Len(LogOf) = Len(events)
      /\ \A i \in EventId : LogOf[i] = LogRow(i)
      /\ LogOf \in Seq({ LogRow(i) : i \in EventId }) /\ EventId = 1 .. Len(LogOf)
  BY <1>1, LogShape
<1>6. /\ Len(events') = Len(events) + 1 /\ events'[Len(events) + 1] = row
      /\ \A i \in EventId : events'[i] = events[i]
  <2>1. row \in Row
    BY <1>3 DEF Row
  <2>2. QED
    BY <1>1, <1>2, <2>1, AppendProperties DEF TypeOK, EventId
<1>7. \A i \in EventId : LogRow(i)' = LogRow(i)
  BY <1>2, <1>6 DEF LogRow, Closed
<1>8. ASSUME NEW j, j = Len(events) + 1 PROVE LogRow(j)' = new
  <2>1. Closed(j)' = FALSE
    BY <1>2, <1>5, <1>8 DEF LogInv, OpenOnes, Closed, EventId
  <2>2. events'[j] = row
    BY <1>6, <1>8
  <2>3. /\ events'[j].track = Track1 /\ events'[j].start = n /\ events'[j].ended = 0
        /\ events'[j].top = Object1.score /\ events'[j].plates = FALSE
    BY <2>2
  <2>4. LogRow(j)' = [track |-> events'[j].track, start |-> events'[j].start,
                      ended |-> events'[j].ended, top |-> events'[j].top,
                      plates |-> events'[j].plates, closed |-> Closed(j)']
    BY DEF LogRow
  <2>5. QED
    BY <2>1, <2>3, <2>4
<1>9. LogOf' = Append(LogOf, new)
  <2> DEFINE S == { LogRow(i) : i \in EventId } \cup {new}
             add == Append(LogOf, new)
  <2>1. /\ add \in Seq(S) /\ Len(add) = Len(events) + 1
        /\ \A i \in EventId : add[i] = LogRow(i)
        /\ add[Len(events) + 1] = new
    <3>1. LogOf \in Seq(S)
      <4>1. LogOf \in [1 .. Len(events) -> S]
        BY DEF LogOf, EventId
      <4>2. QED
        BY <1>5, <4>1
    <3>2. QED
      BY <1>5, <3>1, AppendProperties
  <2>2. /\ LogOf' \in Seq(S) /\ Len(LogOf') = Len(events) + 1
        /\ \A i \in EventId : LogOf'[i] = LogRow(i)
        /\ LogOf'[Len(events) + 1] = new
    <3>1. EventId' = 1 .. Len(events) + 1
      BY <1>6 DEF EventId
    <3>2. \A j \in EventId' : LogOf'[j] = LogRow(j)'
      BY DEF LogOf
    <3>3. \A j \in EventId' : j \in EventId \/ j = Len(events) + 1
      BY <1>5, <3>1 DEF EventId
    <3>4. EventId \subseteq EventId' /\ Len(events) + 1 \in EventId'
      BY <1>5, <3>1 DEF EventId
    <3>5. DOMAIN LogOf' = EventId'
      BY DEF LogOf
    <3>6. \A j \in EventId' : LogOf'[j] \in S
      BY <1>7, <1>8, <3>2, <3>3
    <3>7. LogOf' = [j \in EventId' |-> LogOf'[j]]
      BY <3>5 DEF LogOf
    <3>8. LogOf' \in [1 .. Len(events) + 1 -> S]
      BY <3>1, <3>6, <3>7
    <3>9. LogOf' \in Seq(S) /\ Len(LogOf') = Len(events) + 1
      <4>1. Len(events) + 1 \in Nat
        BY <1>5
      <4>2. QED
        BY <3>8, <4>1, LenProperties
    <3>10. QED
      BY <1>7, <1>8, <3>2, <3>4, <3>9
  <2> HIDE DEF add, S, new
  <2>3. \A i \in 1 .. Len(add) : i \in EventId \/ i = Len(events) + 1
    BY <1>5, <2>1 DEF EventId
  <2>4. \A i \in 1 .. Len(add) : LogOf'[i] = add[i]
    BY <2>1, <2>2, <2>3
  <2>5. LogOf' = add
    BY <2>1, <2>2, <2>4, SeqEqual
  <2>6. QED
    BY <2>5 DEF add
<1>10. ASSUME NEW i \in 1 .. Len(LogOf), LogOf[i].track = Track1
       PROVE  LogOf[i].closed /\ n > Log!LastSeen(LogOf[i]) + MaxLost + 1
  <2>1. i \in EventId /\ LogOf[i] = LogRow(i)
    BY <1>5
  <2>2. events[i].track = Track1
    BY <1>10, <2>1 DEF LogRow
  <2>3. Log!LastSeen(LogOf[i]) = LastSeen(events[i]) /\ (LogOf[i].closed <=> Closed(i))
    BY <2>1 DEF LogRow, Log!LastSeen, LastSeen
  <2>4. QED
    BY <1>4, <2>1, <2>2, <2>3
<1>11. Log!Open(Track1, n, Object1.score)
  BY <1>9, <1>10 DEF Log!Open, LogOf
<1>12. QED
  BY <1>3, <1>11 DEF Log!Next

\* A change of one row changes that row of the log and no other.
LEMMA LogOfOne ==
    ASSUME NEW id \in EventId, NEW new, Len(events') = Len(events),
           \A i \in EventId : i # id => LogRow(i)' = LogRow(i),
           \A i \in EventId : i = id => LogRow(i)' = new
    PROVE  LogOf' = [LogOf EXCEPT ![id] = new]
<1>1. EventId' = EventId
  BY DEF EventId
<1>2. LogOf' = [i \in EventId |-> LogRow(i)']
  BY <1>1 DEF LogOf
<1>3. [LogOf EXCEPT ![id] = new] = [i \in EventId |-> IF i = id THEN new ELSE LogRow(i)]
  BY DEF LogOf
<1>4. QED
  BY <1>2, <1>3

\* Writing an outcome closes an open row with an end and a top score of its event.
LEMMA ClosesRow ==
    ASSUME LogInv, NEW t \in Track, WriteOutcome(t), ~Closed(history[t].id)
    PROVE  Log!Next
<1> DEFINE id == history[t].id
           n == history[t].ended
           s == history[t].top
           new == [LogRow(id) EXCEPT !.ended = n, !.top = s, !.closed = TRUE]
<1>1. TypeOK /\ OnceInv
  BY DEF LogInv, OnceInv, ForgottenInv
<1>2. /\ history[t].persisted /\ id \in EventId
      /\ events'[id].track = t /\ events'[id].start = events[id].start
      /\ events'[id].ended = n /\ events'[id].top = s /\ ~events'[id].plates
      /\ Len(events') = Len(events)
      /\ \A i \in EventId : i # id => events'[i] = events[i]
      /\ \A i \in Nat : Closed(i)' <=> Closed(i) \/ i = id
  BY OutcomeWritten
<1>3. /\ Len(events) \in Nat /\ Len(LogOf) = Len(events)
      /\ \A i \in EventId : LogOf[i] = LogRow(i)
      /\ EventId = 1 .. Len(LogOf) /\ EventId \subseteq Nat
  BY <1>1, LogShape DEF EventId
<1>4. /\ events[id] \in Row /\ history[t] \in Entry /\ events[id].track = t
      /\ LastSeen(Outcome(t)) \in Nat
  BY <1>1, <1>2, OwnRow
<1>5. /\ n \in Nat /\ s \in Scores /\ s \in Nat /\ history[t].lost \in Nat
      /\ events[id].top \in Nat /\ events[id].top <= s
      /\ LastSeen(Outcome(t)) + history[t].lost <= frames[t.camera]
      /\ n = 0 \/ n > events[id].start
  BY <1>2, <1>4 DEF LogInv, EntryAddsUp, AddsUp, Outcome, Entry, Row
<1>6. frames[t.camera] \in 0 .. MaxFrames
  BY <1>1 DEF TypeOK, Track
<1>7. n = 0 \/ n = LastSeen(Outcome(t))
  BY DEF LastSeen, Outcome
<1>8. n \in 0 .. MaxFrames
  BY <1>4, <1>5, <1>6, <1>7
<1>9. LogRow(id) = [track |-> t, start |-> events[id].start, ended |-> events[id].ended,
                    top |-> events[id].top, plates |-> events[id].plates, closed |-> Closed(id)]
  BY <1>4 DEF LogRow
<1>10. events[id].plates = FALSE
  <2>1. ~events[id].plates
    BY <1>2 DEF LogInv, OpenOnes
  <2>2. events[id].plates \in BOOLEAN
    BY <1>4 DEF Row
  <2>3. QED
    BY <2>1, <2>2
<1>11. events'[id].plates = FALSE
  <2>1. events' = [events EXCEPT ![id] = [events[id] EXCEPT !.ended = n, !.top = s]]
    BY DEF WriteOutcome
  <2>2. events'[id] = [events[id] EXCEPT !.ended = n, !.top = s]
    BY <1>1, <1>2, <2>1, LenProperties DEF TypeOK, EventId
  <2>3. QED
    BY <1>4, <1>10, <2>2 DEF Row
<1>12. ASSUME NEW i, i = id PROVE LogRow(i)' = new
  <2>1. Closed(i)' = TRUE
    BY <1>2, <1>3, <1>12
  <2>2. LogRow(i)' = [track |-> events'[i].track, start |-> events'[i].start,
                      ended |-> events'[i].ended, top |-> events'[i].top,
                      plates |-> events'[i].plates, closed |-> Closed(i)']
    BY DEF LogRow
  <2>3. LogRow(i)' = [track |-> t, start |-> events[id].start, ended |-> n, top |-> s,
                      plates |-> FALSE, closed |-> TRUE]
    BY <1>2, <1>11, <1>12, <2>1, <2>2
  <2>4. new = [track |-> t, start |-> events[id].start, ended |-> n, top |-> s,
               plates |-> FALSE, closed |-> TRUE]
    <3>1. LogRow(id) \in [track : {t}, start : {events[id].start}, ended : {events[id].ended},
                          top : {events[id].top}, plates : {FALSE}, closed : {Closed(id)}]
      <4>1. events[id].track = t
        BY <1>4
      <4>2. QED
        BY <1>10, <4>1 DEF LogRow
    <3>2. new \in [track : {t}, start : {events[id].start}, ended : {n}, top : {s},
                   plates : {FALSE}, closed : {TRUE}]
      BY <3>1
    <3> HIDE DEF new, n, s
    <3>3. QED
      BY <3>2
  <2>5. QED
    BY <2>3, <2>4
<1>13. \A i \in EventId : i # id => LogRow(i)' = LogRow(i)
  <2>1. ASSUME NEW i \in EventId, i # id PROVE LogRow(i)' = LogRow(i)
    <3>1. events'[i] = events[i]
      BY <1>2, <2>1
    <3>2. Closed(i)' = Closed(i)
      BY <1>2, <1>3, <2>1 DEF Closed
    <3>3. LogRow(i)' = [track |-> events'[i].track, start |-> events'[i].start,
                        ended |-> events'[i].ended, top |-> events'[i].top,
                        plates |-> events'[i].plates, closed |-> Closed(i)']
      BY DEF LogRow
    <3>4. QED
      BY <3>1, <3>2, <3>3 DEF LogRow
  <2>2. QED
    BY <2>1
<1> HIDE DEF id, n, s, new
<1>14. LogOf' = [LogOf EXCEPT ![id] = new]
  BY <1>2, <1>12, <1>13, LogOfOne
<1>15. LogOf[id] = LogRow(id)
  BY <1>2, <1>3
<1>16. Log!Close(id, n, s)
  <2>1. id \in 1 .. Len(LogOf)
    BY <1>2, <1>3
  <2>2. ~LogOf[id].closed
    BY <1>9, <1>15 DEF id
  <2>3. (n = 0 \/ n > LogOf[id].start) /\ s >= LogOf[id].top
    BY <1>5, <1>9, <1>15
  <2>4. LogOf' = [LogOf EXCEPT ![id] = [LogOf[id] EXCEPT !.ended = n, !.top = s, !.closed = TRUE]]
    BY <1>14, <1>15 DEF new
  <2>5. QED
    BY <2>1, <2>2, <2>3, <2>4 DEF Log!Close, LogOf
<1>17. QED
  <2>1. id \in 1 .. Len(LogOf)
    BY <1>2, <1>3
  <2>2. QED
    BY <1>5, <1>8, <1>16, <2>1 DEF Log!Next, LogOf

\* The recognizer annotates a closed row.
LEMMA AnnotatesRow ==
    ASSUME LogInv, OnceInv', LprUpdate
    PROVE  Log!Next
<1> DEFINE id == lpr.id
           new == [LogRow(id) EXCEPT !.plates = TRUE]
<1>1. TypeOK /\ TypeOK'
  BY DEF LogInv, OnceInv, ForgottenInv
<1>2. /\ id \in EventId /\ Closed(id)
      /\ events' = [events EXCEPT ![id] = [events[id] EXCEPT !.plates = TRUE]]
  BY LogAnnotate
<1>3. stored' = stored
  BY DEF LprUpdate
<1>4. /\ Len(LogOf) = Len(events) /\ EventId = 1 .. Len(LogOf)
      /\ LogOf[id] = LogRow(id)
  BY <1>1, <1>2, LogShape
<1>5. events[id] \in Row
  BY <1>1, <1>2, RowParts
<1>6. DOMAIN events = EventId
  BY <1>1, LenProperties DEF TypeOK, EventId
<1>7. /\ events'[id] = [events[id] EXCEPT !.plates = TRUE]
      /\ \A i \in EventId : i # id => events'[i] = events[i]
      /\ Len(events') = Len(events)
  <2>1. [events[id] EXCEPT !.plates = TRUE] \in Row
    BY <1>5 DEF Row
  <2>2. Len(events') = Len(events)
    BY <1>1, <1>2, <2>1, ExceptSeq DEF TypeOK, EventId
  <2>3. QED
    BY <1>2, <1>6, <2>2
<1>8. ASSUME NEW i, i = id PROVE LogRow(i)' = new
  <2>1. LogRow(i)' = [track |-> events'[i].track, start |-> events'[i].start,
                      ended |-> events'[i].ended, top |-> events'[i].top,
                      plates |-> events'[i].plates, closed |-> Closed(i)']
    BY DEF LogRow
  <2>2. Closed(i)' = TRUE
    BY <1>2, <1>3, <1>8 DEF Closed
  <2>3. /\ events'[i].track = events[id].track /\ events'[i].start = events[id].start
        /\ events'[i].ended = events[id].ended /\ events'[i].top = events[id].top
        /\ events'[i].plates = TRUE
    BY <1>5, <1>7, <1>8 DEF Row
  <2>4. LogRow(id) \in [track : {events[id].track}, start : {events[id].start},
                        ended : {events[id].ended}, top : {events[id].top},
                        plates : {events[id].plates}, closed : {TRUE}]
    <3>1. Closed(id) = TRUE
      BY <1>2
    <3>2. QED
      BY <3>1 DEF LogRow
  <2>5. new = [track |-> events[id].track, start |-> events[id].start,
               ended |-> events[id].ended, top |-> events[id].top,
               plates |-> TRUE, closed |-> TRUE]
    <3>1. new \in [track : {events[id].track}, start : {events[id].start},
                   ended : {events[id].ended}, top : {events[id].top},
                   plates : {TRUE}, closed : {TRUE}]
      BY <2>4
    <3> HIDE DEF new
    <3>2. QED
      BY <3>1
  <2>6. QED
    BY <2>1, <2>2, <2>3, <2>5
<1>9. \A i \in EventId : i # id => LogRow(i)' = LogRow(i)
  BY <1>3, <1>7 DEF LogRow, Closed
<1> HIDE DEF id, new
<1>10. LogOf' = [LogOf EXCEPT ![id] = new]
  BY <1>2, <1>7, <1>8, <1>9, LogOfOne
<1>11. LogOf[id].closed
  BY <1>2, <1>4 DEF LogRow
<1>12. Log!Annotate(id)
  BY <1>2, <1>4, <1>10, <1>11 DEF Log!Annotate, LogOf, new
<1>13. QED
  BY <1>2, <1>4, <1>12 DEF Log!Next, LogOf

\* Every step is one of the log's, or leaves the log alone.
LEMMA LogSteps ==
    ASSUME ~CommitMayFail, LogInv, [Next]_vars
    PROVE  Log!Next \/ LogOf' = LogOf
<1>1. OnceInv'
  BY OnceNext DEF LogInv
<1>2. CASE UNCHANGED <<events, stored>>
  BY <1>2, LogStays
<1>3. CASE PersistEvent
  BY <1>1, <1>3, OpensRow
<1>4. ASSUME NEW t \in Track, CompleteEvent(t) PROVE Log!Next
  BY <1>1, <1>4, LogComplete, ClosesRow DEF CompleteEvent
<1>5. ASSUME NEW t \in Track, FinalizeEvent(t) PROVE Log!Next
  BY <1>1, <1>5, LogFinalize, ClosesRow DEF FinalizeEvent
<1>6. CASE LprUpdate
  BY <1>1, <1>6, AnnotatesRow
<1>7. \/ UNCHANGED <<events, stored>> \/ PersistEvent \/ LprUpdate
      \/ \E t \in Track : CompleteEvent(t) \/ FinalizeEvent(t)
  BY DEF Next, Stopped, vars, processorVars, databaseVars, LoopCheck, TakeFrame,
         PersistCommitFails, UpdateEvent, ObjectFails, ObjectsDone, CompleteFails, CleanupDone,
         FinalizeFails, FinalizeDone, LprLoad, LprGiveUp, InterruptProcessor, AbortQueue
<1>8. QED
  BY <1>2, <1>3, <1>4, <1>5, <1>6, <1>7

(***************************************************************************)
(* While no COMMIT of a new event fails, the Event table is the log that   *)
(* EventLog promises: rows are opened, closed and annotated, in that order *)
(* and each once a track has been missing long enough, and nothing else    *)
(* ever happens to a row.                                                  *)
(***************************************************************************)
THEOREM TableIsEventLog ==
    ASSUME ~CommitMayFail
    PROVE  Spec => KeepsLog
<1>1. Init => Log!Init
  BY DEF Init, Log!Init, EventId
<1>2. LogInv /\ [Next]_vars => [Log!Next]_LogOf
  BY LogSteps
<1>3. LogInv /\ [Next]_vars => LogInv'
  BY LogNext
<1>4. QED
  BY <1>1, <1>2, <1>3, LogInit, PTL DEF Spec, KeepsLog, Log!Spec, LogOf
------------------------------------------------------------------------------
(* Evidence.                                                               *)

USE EvidenceAssumption DEF EvidenceAssumption

\* Every step is one of the processor's, the recognizer's or stop()'s.
LEMMA PictureSteps == [EvidenceNext]_allVars => [Next]_vars
<1> SUFFICES ASSUME [EvidenceNext]_allVars PROVE Next \/ UNCHANGED vars
  OBVIOUS
<1>1. CASE SeePersist \/ SeeObject \/ SeeNothing
  BY <1>1 DEF SeePersist, SeeObject, SeeNothing, Next
<1>2. ASSUME NEW t \in Track, Forget(t) PROVE Next
  BY <1>2 DEF Forget, Next
<1>3. CASE ReadPlate
  BY <1>3 DEF ReadPlate
<1>4. CASE RecognizePlate \/ LeaveUnread
  BY <1>4 DEF RecognizePlate, LeaveUnread, Next
<1>5. CASE OtherSteps
  BY <1>5 DEF OtherSteps, Next
<1>6. CASE UNCHANGED allVars
  BY <1>6 DEF allVars
<1>7. QED
  BY <1>1, <1>2, <1>3, <1>4, <1>5, <1>6 DEF EvidenceNext

(***************************************************************************)
(* The pictures are added to the event side of the engine and take nothing *)
(* from it: what is proved of TrackedEvents holds here.                    *)
(***************************************************************************)
THEOREM PicturesAreExtra == EvidenceSpec => Spec
  BY PictureSteps, PTL DEF EvidenceSpec, Spec, EvidenceInit
------------------------------------------------------------------------------
(* Pictures in memory and on the disk.                                     *)

Pictures == [born : Nat, count : Nat, smart : BOOLEAN, plate : BOOLEAN]

PictureTypes ==
    /\ best \in [Track -> Pictures]
    /\ thumbFile \in [Track -> Nat]
    /\ plateFile \in [Track -> Nat]
    /\ shown \in SUBSET (Track \X Nat)

\* What is kept of a track, when it was born, is on the disk; a track with a row
\* has a picture.
Kept ==
    \A t \in Track :
        /\ best[t].born <= Appearance(frames[t.camera])
        /\ best[t].born = 0 => best[t].count = 0 /\ ~best[t].plate
        /\ best[t].count > 0 => thumbFile[t] = best[t].born
        /\ best[t].plate => plateFile[t] = best[t].born
        /\ history[t].persisted => best[t].count > 0

\* No appearance that showed a plate is later than the file, or than the one the
\* track is in.
Shown ==
    \A t \in Track, b \in Nat : <<t, b>> \in shown =>
        /\ b <= plateFile[t]
        /\ b <= Appearance(frames[t.camera])
        /\ best[t].born # 0 => b <= best[t].born

PictureInv == TypeOK /\ PictureTypes /\ Kept /\ Shown

LEMMA PictureInit == EvidenceInit => PictureInv
<1> SUFFICES ASSUME EvidenceInit PROVE PictureInv
  OBVIOUS
<1>1. TypeOK
  BY TypeInit DEF EvidenceInit
<1>2. PictureTypes
  BY DEF EvidenceInit, PictureTypes, Pictures, NoBest, NoFile, EarlierRun
<1>3. \A t \in Track : ~history[t].persisted /\ frames[t.camera] = 0
  BY DEF EvidenceInit, Init, NoEntry, Track
<1>4. Kept /\ Shown
  BY <1>3 DEF EvidenceInit, Kept, Shown, NoBest, Appearance
<1>5. QED
  BY <1>1, <1>2, <1>4 DEF PictureInv

\* What a look at an object makes of the pictures of its track u: entry e, of the
\* appearance u is in, with files as new as e.
LEMMA Seen ==
    ASSUME PictureInv, NEW u \in Track, NEW e \in Pictures,
           e.born > 0, e.born <= Appearance(frames[u.camera]),
           \A b \in Nat : <<u, b>> \in shown => b <= e.born,
           frames' = frames, best' = [best EXCEPT ![u] = e],
           thumbFile' = thumbFile \/ thumbFile' = [thumbFile EXCEPT ![u] = e.born],
           e.count > 0 => thumbFile'[u] = e.born,
           \/ plateFile' = plateFile /\ shown' = shown
           \/ plateFile' = [plateFile EXCEPT ![u] = e.born] /\ shown' = shown \cup {<<u, e.born>>},
           e.plate => plateFile'[u] = e.born,
           history'[u].persisted => e.count > 0,
           \A t \in Track : t # u => history'[t].persisted = history[t].persisted
    PROVE  PictureTypes' /\ Kept' /\ Shown'
<1>1. PictureTypes /\ Kept /\ Shown /\ TypeOK
  BY DEF PictureInv
<1>2. e.born \in Nat
  BY DEF Pictures
<1>3. /\ \A t \in Track : best'[t] = IF t = u THEN e ELSE best[t]
      /\ \A t \in Track : t # u => thumbFile'[t] = thumbFile[t] /\ plateFile'[t] = plateFile[t]
      /\ plateFile'[u] \in {plateFile[u], e.born}
  BY <1>1 DEF PictureTypes
<1>4. PictureTypes'
  BY <1>1, <1>2 DEF PictureTypes
<1>5. Kept'
  <2>1. ASSUME NEW t \in Track
        PROVE  /\ best'[t].born <= Appearance(frames'[t.camera])
               /\ best'[t].born = 0 => best'[t].count = 0 /\ ~best'[t].plate
               /\ best'[t].count > 0 => thumbFile'[t] = best'[t].born
               /\ best'[t].plate => plateFile'[t] = best'[t].born
               /\ history'[t].persisted => best'[t].count > 0
    <3>1. CASE t = u
      BY <1>2, <1>3, <3>1
    <3>2. CASE t # u
      BY <1>1, <1>3, <3>2 DEF Kept
    <3>3. QED
      BY <3>1, <3>2
  <2>2. QED
    BY <2>1 DEF Kept, Appearance
<1>6. Shown'
  <2>1. ASSUME NEW t \in Track, NEW b \in Nat, <<t, b>> \in shown'
        PROVE  /\ b <= plateFile'[t]
               /\ b <= Appearance(frames'[t.camera])
               /\ best'[t].born # 0 => b <= best'[t].born
    <3>1. CASE t = u
      <4>1. b <= e.born
        BY <1>2, <2>1, <3>1
      <4>2. b <= plateFile'[u]
        <5>1. CASE <<u, b>> \in shown
          BY <1>1, <1>3, <4>1, <5>1 DEF Shown
        <5>2. CASE <<u, b>> \notin shown
          <6>1. plateFile' = [plateFile EXCEPT ![u] = e.born]
            BY <2>1, <3>1, <5>2
          <6>2. plateFile'[u] = e.born
            BY <1>1, <6>1 DEF PictureTypes
          <6>3. QED
            BY <4>1, <6>2
        <5>3. QED
          BY <5>1, <5>2
      <4>3. Appearance(frames[u.camera]) \in Nat
        <5>1. u.camera \in Cameras
          BY DEF Track
        <5>2. frames[u.camera] \in Nat
          BY <1>1, <5>1 DEF TypeOK
        <5>3. QED
          BY <5>2 DEF Appearance
      <4>4. b <= Appearance(frames[u.camera])
        BY <1>2, <4>1, <4>3
      <4>5. QED
        BY <1>3, <3>1, <4>1, <4>2, <4>4
    <3>2. CASE t # u
      <4>1. <<t, b>> \in shown
        BY <2>1, <3>2
      <4>2. QED
        BY <1>1, <1>3, <3>2, <4>1 DEF Shown
    <3>3. QED
      BY <3>1, <3>2
  <2>2. QED
    BY <2>1 DEF Shown, Appearance
<1>7. QED
  BY <1>4, <1>5, <1>6

\* The entry a look starts from is of the appearance its track is in.
LEMMA MineIsCurrent ==
    ASSUME PictureInv, Track1 \in Track
    PROVE  /\ Mine \in Pictures /\ Mine.born \in Nat /\ Mine.count \in Nat
           /\ Mine.born > 0 /\ Mine.born <= Appearance(frames[Track1.camera])
           /\ \A b \in Nat : <<Track1, b>> \in shown => b <= Mine.born
           /\ Mine.count > 0 => thumbFile[Track1] = Mine.born
           /\ Mine.plate => plateFile[Track1] = Mine.born
           /\ history[Track1].persisted => Mine.count > 0
<1>1. PictureTypes /\ Kept /\ Shown /\ TypeOK
  BY DEF PictureInv
<1>2. best[Track1] \in Pictures /\ best[Track1].born \in Nat /\ best[Track1].count \in Nat
  BY <1>1 DEF PictureTypes, Pictures
<1>3. Track1.camera = camera /\ frames[camera] \in Nat
  BY <1>1 DEF Track1, TypeOK
<1>4. CASE best[Track1].born # 0
  BY <1>1, <1>2, <1>4 DEF Mine, Kept, Shown
<1>5. CASE best[Track1].born = 0
  <2> DEFINE new == [NoBest EXCEPT !.born = Appearance(frames[camera])]
  <2>1. Mine = new
    BY <1>5 DEF Mine
  <2>2. /\ new \in Pictures /\ new.born = frames[camera] + 1 /\ new.count = 0 /\ ~new.plate
    <3>1. NoBest \in Pictures /\ NoBest.count = 0 /\ ~NoBest.plate
      BY DEF NoBest, Pictures
    <3>2. Appearance(frames[camera]) \in Nat /\ Appearance(frames[camera]) = frames[camera] + 1
      BY <1>3 DEF Appearance
    <3>3. QED
      BY <3>1, <3>2 DEF Pictures
  <2>3. ~history[Track1].persisted
    BY <1>1, <1>5 DEF Kept
  <2> HIDE DEF new
  <2>4. QED
    BY <1>1, <1>3, <2>1, <2>2, <2>3 DEF Shown, Appearance
<1>6. QED
  BY <1>4, <1>5

\* After updateThumbnails there is a picture, and it is on the disk.
LEMMA Thumbnail ==
    ASSUME ~ImagesMayFail, PictureTypes, Track1 \in Track, NEW m \in Pictures,
           m.count > 0 => thumbFile[Track1] = m.born,
           NEW smart \in BOOLEAN, NEW larger, UpdateThumbnails(m, smart, larger)
    PROVE  \E e \in Pictures :
               /\ best' = [best EXCEPT ![Track1] = e]
               /\ e.born = m.born /\ (e.plate <=> m.plate) /\ e.count > 0
               /\ thumbFile' = thumbFile \/ thumbFile' = [thumbFile EXCEPT ![Track1] = e.born]
               /\ thumbFile'[Track1] = e.born
<1>1. CASE BetterShot(m, smart, larger)
  <2> DEFINE e == [m EXCEPT !.count = @ + 1, !.smart = smart]
  <2>1. best' = [best EXCEPT ![Track1] = e] /\ thumbFile' = [thumbFile EXCEPT ![Track1] = m.born]
    BY <1>1 DEF UpdateThumbnails, Written
  <2>2. m.count \in Nat
    BY DEF Pictures
  <2>3. e \in Pictures /\ e.born = m.born /\ (e.plate <=> m.plate) /\ e.count = m.count + 1
    <3>1. m.count + 1 \in Nat
      BY <2>2
    <3>2. QED
      BY <3>1 DEF Pictures
  <2>4. thumbFile'[Track1] = m.born
    BY <2>1 DEF PictureTypes
  <2> HIDE DEF e
  <2>5. e.count > 0
    BY <2>2, <2>3
  <2>6. QED
    BY <2>1, <2>3, <2>4, <2>5
<1>2. CASE ~BetterShot(m, smart, larger)
  <2>1. best' = [best EXCEPT ![Track1] = m] /\ thumbFile' = thumbFile
    BY <1>2 DEF UpdateThumbnails
  <2>2. m.count \in Nat /\ m.count # 0
    BY <1>2 DEF BetterShot, Pictures
  <2>3. m.count > 0
    BY <2>2
  <2>4. QED
    BY <2>1, <2>3
<1>3. QED
  BY <1>1, <1>2

\* updateThumbnails and processLicensePlates at work on the object in hand.
LEMMA LookSees ==
    ASSUME ~ImagesMayFail, PictureInv, Track1 \in Track, Look, frames' = frames,
           \A t \in Track : t # Track1 => history'[t].persisted = history[t].persisted
    PROVE  PictureTypes' /\ Kept' /\ Shown'
<1>1. PICK smart \in BOOLEAN, larger \in BOOLEAN, plate \in BOOLEAN :
        ProcessPlates(Mine, smart, larger, plate)
  BY DEF Look
<1> DEFINE m == [Mine EXCEPT !.plate = @ \/ plate]
<1>2. UpdateThumbnails(m, smart, larger)
  BY <1>1 DEF ProcessPlates
<1>3. /\ Mine \in Pictures /\ Mine.born \in Nat
      /\ Mine.born > 0 /\ Mine.born <= Appearance(frames[Track1.camera])
      /\ \A b \in Nat : <<Track1, b>> \in shown => b <= Mine.born
      /\ Mine.count > 0 => thumbFile[Track1] = Mine.born
      /\ Mine.plate => plateFile[Track1] = Mine.born
  BY MineIsCurrent
<1>4. /\ m \in Pictures /\ m.born = Mine.born /\ m.count = Mine.count
      /\ m.plate <=> Mine.plate \/ plate
  BY <1>3 DEF Pictures
<1>5. PictureTypes
  BY DEF PictureInv
<1> HIDE DEF m
<1>6. PICK e \in Pictures :
        /\ best' = [best EXCEPT ![Track1] = e]
        /\ e.born = m.born /\ (e.plate <=> m.plate) /\ e.count > 0
        /\ thumbFile' = thumbFile \/ thumbFile' = [thumbFile EXCEPT ![Track1] = e.born]
        /\ thumbFile'[Track1] = e.born
  BY <1>2, <1>3, <1>4, <1>5, Thumbnail
<1>7. /\ \/ plateFile' = plateFile /\ shown' = shown
         \/ plateFile' = [plateFile EXCEPT ![Track1] = e.born]
            /\ shown' = shown \cup {<<Track1, e.born>>}
      /\ e.plate => plateFile'[Track1] = e.born
  <2>1. CASE plate
    <3>1. /\ plateFile' = [plateFile EXCEPT ![Track1] = Mine.born]
          /\ shown' = shown \cup {<<Track1, Mine.born>>}
      BY <1>1, <2>1 DEF ProcessPlates, Written
    <3>2. plateFile'[Track1] = Mine.born
      BY <1>5, <3>1 DEF PictureTypes
    <3>3. QED
      BY <1>4, <1>6, <3>1, <3>2
  <2>2. CASE ~plate
    <3>1. plateFile' = plateFile /\ shown' = shown
      BY <1>1, <2>2 DEF ProcessPlates
    <3>2. QED
      BY <1>3, <1>4, <1>6, <2>2, <3>1
  <2>3. QED
    BY <2>1, <2>2
<1>8. \A t \in Track : t # Track1 => history'[t].persisted = history[t].persisted
  OBVIOUS
<1>9. e.born = Mine.born /\ e.count > 0
  BY <1>4, <1>6
<1>10. /\ e.born > 0 /\ e.born <= Appearance(frames[Track1.camera])
       /\ \A b \in Nat : <<Track1, b>> \in shown => b <= e.born
  BY <1>3, <1>9
<1>11. QED
  BY <1>6, <1>7, <1>8, <1>9, <1>10, Seen

\* The same, cut short by an exception.
LEMMA FailedLookSees ==
    ASSUME ~ImagesMayFail, PictureInv, Track1 \in Track, LookFails, frames' = frames,
           \A t \in Track : history'[t].persisted = history[t].persisted
    PROVE  PictureTypes' /\ Kept' /\ Shown'
<1>1. /\ Mine \in Pictures /\ Mine.born \in Nat
      /\ Mine.born > 0 /\ Mine.born <= Appearance(frames[Track1.camera])
      /\ \A b \in Nat : <<Track1, b>> \in shown => b <= Mine.born
      /\ Mine.count > 0 => thumbFile[Track1] = Mine.born
      /\ Mine.plate => plateFile[Track1] = Mine.born
      /\ history[Track1].persisted => Mine.count > 0
  BY MineIsCurrent
<1>2. PictureTypes
  BY DEF PictureInv
<1>3. CASE best' = [best EXCEPT ![Track1] = Mine] /\ UNCHANGED <<thumbFile, plateFile, shown>>
  BY <1>1, <1>3, Seen
<1>4. ASSUME NEW smart \in BOOLEAN, NEW larger \in BOOLEAN,
             UpdateThumbnails(Mine, smart, larger), UNCHANGED <<plateFile, shown>>
      PROVE  PictureTypes' /\ Kept' /\ Shown'
  <2>1. PICK e \in Pictures :
          /\ best' = [best EXCEPT ![Track1] = e]
          /\ e.born = Mine.born /\ (e.plate <=> Mine.plate) /\ e.count > 0
          /\ thumbFile' = thumbFile \/ thumbFile' = [thumbFile EXCEPT ![Track1] = e.born]
          /\ thumbFile'[Track1] = e.born
    BY <1>1, <1>2, <1>4, Thumbnail
  <2>2. QED
    BY <1>1, <1>4, <2>1, Seen
<1>5. CASE Look
  BY <1>5, LookSees
<1>6. QED
  BY <1>3, <1>4, <1>5 DEF LookFails

\* A step that leaves the pictures alone, and opens no row.
LEMMA PictureFrame ==
    ASSUME PictureInv, TypeOK', UNCHANGED <<best, thumbFile, plateFile, shown>>,
           \A c \in Cameras : frames[c] <= frames'[c],
           \A t \in Track : history'[t].persisted = history[t].persisted
    PROVE  PictureTypes' /\ Kept' /\ Shown'
<1>1. PictureTypes /\ Kept /\ Shown /\ TypeOK
  BY DEF PictureInv
<1>2. ASSUME NEW t \in Track
      PROVE  /\ frames[t.camera] \in Nat /\ frames'[t.camera] \in Nat
             /\ frames[t.camera] <= frames'[t.camera] /\ best[t].born \in Nat
  <2>1. t.camera \in Cameras
    BY DEF Track
  <2>2. frames[t.camera] \in Nat /\ frames'[t.camera] \in Nat
    BY <1>1, <2>1 DEF TypeOK
  <2>3. best[t].born \in Nat
    BY <1>1 DEF PictureTypes, Pictures
  <2>4. QED
    BY <2>1, <2>2, <2>3
<1>3. PictureTypes'
  BY <1>1 DEF PictureTypes
<1>4. ASSUME NEW t \in Track PROVE best[t].born <= Appearance(frames'[t.camera])
  BY <1>1, <1>2 DEF Kept, Appearance
<1>5. Kept'
  BY <1>1, <1>4 DEF Kept, Appearance
<1>6. ASSUME NEW t \in Track, NEW b \in Nat, <<t, b>> \in shown
      PROVE  b <= Appearance(frames'[t.camera])
  BY <1>1, <1>2, <1>6 DEF Shown, Appearance
<1>7. Shown'
  BY <1>1, <1>6 DEF Shown, Appearance
<1>8. QED
  BY <1>3, <1>5, <1>7

\* Nothing that the pictures depend on changes.
LEMMA PictureStays ==
    ASSUME PictureInv, TypeOK', UNCHANGED <<history, frames, best, thumbFile, plateFile, shown>>
    PROVE  PictureTypes' /\ Kept' /\ Shown'
<1>1. frames \in [Cameras -> 0 .. MaxFrames]
  BY DEF PictureInv, TypeOK
<1>2. \A c \in Cameras : frames[c] <= frames'[c]
  BY <1>1
<1>3. \A t \in Track : history'[t].persisted = history[t].persisted
  OBVIOUS
<1>4. QED
  BY <1>2, <1>3, PictureFrame

LEMMA PictureNext ==
    ASSUME ~ImagesMayFail
    PROVE  PictureInv /\ [EvidenceNext]_allVars => PictureInv'
<1> SUFFICES ASSUME PictureInv, [EvidenceNext]_allVars PROVE PictureInv'
  OBVIOUS
<1>0. TypeOK /\ TypeOK'
  BY PictureSteps, TypeNext DEF PictureInv
<1> DEFINE Sides == PictureTypes' /\ Kept' /\ Shown'
<1>1. ASSUME PersistEvent \/ PersistCommitFails \/ UpdateEvent \/ ObjectFails
      PROVE  /\ Track1 \in Track /\ frames' = frames
             /\ \A t \in Track : t # Track1 => history'[t].persisted = history[t].persisted
  <2>1. Track1 \in Track /\ frames' = frames
    BY <1>0, <1>1, InHand DEF PersistEvent, PersistCommitFails, UpdateEvent, ObjectFails
  <2>2. \A t \in Track : t # Track1 => history'[t] = history[t]
    BY <1>0, <1>1, <2>1 DEF TypeOK, PersistEvent, PersistCommitFails, UpdateEvent, ObjectFails
  <2>3. QED
    BY <2>1, <2>2
<1>2. CASE SeePersist \/ SeeObject
  BY <1>1, <1>2, LookSees, <1>0 DEF SeePersist, SeeObject, PictureInv
<1>3. CASE SeeNothing
  <2>1. \A t \in Track : history'[t].persisted = history[t].persisted
    <3>1. ASSUME NEW t \in Track PROVE history'[t].persisted = history[t].persisted
      <4>1. history[t] \in Entry
        BY <1>0 DEF TypeOK
      <4>2. history'[t] = history[t] \/ history'[t] = [history[t] EXCEPT !.known = TRUE, !.lost = 0]
        BY <1>0, <1>1, <1>3 DEF SeeNothing, ObjectFails, TypeOK
      <4>3. QED
        BY <4>1, <4>2 DEF Entry
    <3>2. QED
      BY <3>1
  <2>2. QED
    BY <1>0, <1>1, <1>3, <2>1, FailedLookSees DEF SeeNothing, PictureInv
<1>4. ASSUME NEW t \in Track, Forget(t) PROVE PictureInv'
  <2>1. /\ frames' = frames /\ history' = [history EXCEPT ![t] = NoEntry]
        /\ best' = [best EXCEPT ![t] = NoBest] /\ UNCHANGED <<thumbFile, plateFile, shown>>
    BY <1>4 DEF Forget, CompleteEvent
  <2>2. /\ NoBest \in Pictures /\ NoBest.born = 0 /\ NoBest.count = 0 /\ ~NoBest.plate
        /\ ~NoEntry.persisted
    BY DEF NoBest, NoEntry, Pictures
  <2>3. PictureTypes /\ Kept /\ Shown
    BY DEF PictureInv
  <2>4. /\ \A u \in Track : best'[u] = IF u = t THEN NoBest ELSE best[u]
        /\ \A u \in Track : history'[u] = IF u = t THEN NoEntry ELSE history[u]
    BY <1>0, <2>1, <2>3 DEF TypeOK, PictureTypes
  <2>5. PictureTypes'
    BY <2>1, <2>2, <2>3 DEF PictureTypes
  <2>6. \A u \in Track : 0 <= Appearance(frames[u.camera])
    <3>1. \A u \in Track : u.camera \in Cameras
      BY DEF Track
    <3>2. frames \in [Cameras -> 0 .. MaxFrames]
      BY <1>0 DEF TypeOK
    <3>3. QED
      BY <3>1, <3>2 DEF Appearance
  <2>7. Kept'
    BY <2>1, <2>2, <2>3, <2>4, <2>6 DEF Kept, Appearance
  <2>8. Shown'
    BY <2>1, <2>2, <2>3, <2>4 DEF Shown, Appearance
  <2>9. QED
    BY <1>0, <2>5, <2>7, <2>8 DEF PictureInv
<1>5. CASE ReadPlate \/ RecognizePlate \/ LeaveUnread
  <2>1. UNCHANGED <<history, frames, best, thumbFile, plateFile, shown>>
    BY <1>5 DEF ReadPlate, RecognizePlate, LeaveUnread, LprUpdate, LprGiveUp, vars, processorVars
  <2>2. QED
    BY <1>0, <2>1, PictureStays DEF PictureInv
<1>6. CASE OtherSteps
  <2>1. UNCHANGED <<best, thumbFile, plateFile, shown>>
    BY <1>6 DEF OtherSteps, pictureVars
  <2>2. ASSUME NEW c \in Cameras, NEW objects \in Contents, TakeFrame(c, objects)
        PROVE  /\ \A d \in Cameras : frames[d] <= frames'[d]
               /\ \A t \in Track : history'[t].persisted = history[t].persisted
    <3>1. \A d \in Cameras : frames[d] <= frames'[d]
      <4>1. frames \in [Cameras -> 0 .. MaxFrames]
        BY <1>0 DEF TypeOK
      <4>2. frames' = [frames EXCEPT ![c] = @ + 1]
        BY <2>2 DEF TakeFrame
      <4>3. QED
        BY <4>1, <4>2
    <3>2. ASSUME NEW t \in Track PROVE history'[t].persisted = history[t].persisted
      <4>1. history[t] \in Entry
        BY <1>0 DEF TypeOK
      <4>2. history'[t] = history[t] \/ history'[t] = [history[t] EXCEPT !.lost = @ + 1]
        BY <2>2 DEF TakeFrame
      <4>3. QED
        BY <4>1, <4>2 DEF Entry
    <3>3. QED
      BY <3>1, <3>2
  <2>3. CASE UNCHANGED <<frames, history>>
    BY <1>0, <2>1, <2>3, PictureStays DEF PictureInv
  <2>4. UNCHANGED <<frames, history>> \/ \E c \in Cameras, objects \in Contents : TakeFrame(c, objects)
    BY <1>6 DEF OtherSteps, LoopCheck, ObjectsDone, CompleteFails, CleanupDone, FinalizeEvent,
                FinalizeFails, FinalizeDone, LprLoad, InterruptProcessor, AbortQueue, Stopped,
                vars, processorVars
  <2>5. QED
    BY <1>0, <2>1, <2>2, <2>3, <2>4, PictureFrame DEF PictureInv
<1>7. CASE UNCHANGED allVars
  <2>1. UNCHANGED <<history, frames, best, thumbFile, plateFile, shown>>
    BY <1>7 DEF allVars, vars, processorVars, pictureVars
  <2>2. QED
    BY <1>0, <2>1, PictureStays DEF PictureInv
<1>8. QED
  BY <1>2, <1>3, <1>4, <1>5, <1>6, <1>7 DEF EvidenceNext

(***************************************************************************)
(* As long as imwrite does what it is asked to, an event in the table that *)
(* is still followed has its own picture on the disk, and its own plate if *)
(* it showed one, whatever COMMIT, crop or look has failed on the way.     *)
(***************************************************************************)
THEOREM FollowedEventsShowThemselves ==
    ASSUME ~ImagesMayFail
    PROVE  EvidenceSpec => []OpenEventShowsItself
<1>1. PictureInv => OpenEventShowsItself
  BY DEF PictureInv, Kept, OpenEventShowsItself
<1>2. PictureInv /\ [EvidenceNext]_allVars => PictureInv'
  BY PictureNext
<1>3. QED
  BY <1>1, <1>2, PictureInit, PTL DEF EvidenceSpec

(***************************************************************************)
(* And the recognizer, however late, reads for an event that showed a      *)
(* plate no plate that is older than the event.                            *)
(***************************************************************************)
THEOREM PlatesAreNotOlder ==
    ASSUME ~ImagesMayFail
    PROVE  EvidenceSpec => PlateIsNotOlder
<1> DEFINE NotOlder == reading = NoFile /\ reading' # NoFile
                         /\ <<lpr.row.track, taken[lpr.id]>> \in shown
                         => reading' >= taken[lpr.id]
<1>1. PictureInv /\ [EvidenceNext]_allVars => [NotOlder]_allVars
  <2> SUFFICES ASSUME PictureInv, EvidenceNext, reading = NoFile, reading' # NoFile,
                      <<lpr.row.track, taken[lpr.id]>> \in shown
               PROVE  reading' >= taken[lpr.id]
    OBVIOUS
  <2>1. ReadPlate
    BY DEF EvidenceNext, SeePersist, SeeObject, SeeNothing, Forget, RecognizePlate, LeaveUnread,
           OtherSteps, pictureVars
  <2>2. reading' = plateFile[lpr.row.track]
    BY <2>1 DEF ReadPlate
  <2>3. lpr.row.track \in Track /\ taken[lpr.id] \in Nat
    BY DEF PictureInv, PictureTypes
  <2>4. taken[lpr.id] <= plateFile[lpr.row.track] /\ plateFile[lpr.row.track] \in Nat
    BY <2>3 DEF PictureInv, PictureTypes, Shown
  <2>5. QED
    BY <2>2, <2>3, <2>4
<1>2. PictureInv /\ [EvidenceNext]_allVars => PictureInv'
  BY PictureNext
<1>3. QED
  BY <1>1, <1>2, PictureInit, PTL DEF EvidenceSpec, PlateIsNotOlder
===============================================================================
