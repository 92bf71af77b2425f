# APSS in TLA+

APSS watches video cameras. Each camera's frames are decoded, searched for
objects, tracked, searched for license plates, and turned into rows of an event
database. This directory holds TLA+ specifications of the parts of that program
in which threads, queues, timeouts and transactions meet, the TLC
configurations that model-check them, and proofs checked by TLAPS.

Paths below are relative to `src/App/` unless they begin with `src/`.

## 1. The system

### 1.1 Components

| component | code | state it keeps | operations |
|---|---|---|---|
| Camera capture, one thread per camera | `camera/cameracapture.*` | FFmpeg objects, `send_result`, `start_pts`, `frame_index` | open, read, decode, pace by timestamp, put the frame in the camera's `frameQueue` (push: blocking; pull: dropped when full), loop a file, stop, free |
| Camera processor, one thread per camera | `camera/cameraprocessor.*` | tracker, `objectsHistory` of areas, `is_pull_based` and time-outs as function-local statics | pop a frame; `predict()` on the detector pool; filter, track, `estimateChangesInArea`; `predict()` on the plate pool; hand the frame on |
| Object detector pool | `detectors/objectdetectorsession.*` | a batch of frames | pop and fill a batch, skip expired frames, infer, answer each frame |
| License plate detector pool | `detectors/lpdetectorsession.*` | a copy of one frame's predictions | pop, detect plates of vehicles with `hasDeltas`, write the copy back, answer |
| Frame | `utils/frame.*`, `utils/prediction.h` | image, predictions, flags `hasBeenProcessed` and `hasExpired`, each behind a lock of its own | getters, setters, `addPredictions` |
| Tracker | `track/tracker.*` | ByteTrack (external) | assigns tracker ids |
| Tracked object processor, one thread | `output/trackedobjectprocessor.*` | `cameras_history`: per camera and tracker id a `TrackedEvent` with its best pictures; image files | open an event, update it, keep and write the best thumbnail and plate, complete lost ones, finalize the rest |
| License plate recognizer | `detectors/lprsession.*` | OCR sessions | on `eventCompleted`: read the row, find the plate image, recognize, write the row back |
| Event database | `db/*.h` | tables Event, Prediction, Camera (SQLite through ODB) | transactions: persist, load, update |
| ODB generated persistence code | `db/*-odb.*`, `db/*-schema.cxx` | per connection and class an image of a row and three arrays of bindings with versions | persist, update, erase, find, reload, query; create and migrate the schema |
| Engine | `engine/apssengine.*`, `main.cpp` | all queues, wait conditions, threads | set the database up, start, stop |
| Camera metrics | `camera/camerametrics.*`, `utils/eventspersecond.h` | atomics, the frame queue | counters and rates |
| Inference and image utilities | `detectors/predictor.*`, `objectdetector.*`, `poseestimator.*`, `onnxinference.*`, `image.*` | ONNX session | letter box, batch, post-process (NMS, scaling) |
| Packet ring buffer | `output/packetringbuffer.*` | packets of the last seconds and their total duration | push, extract all |
| Recordings manager, remuxers | `output/recordingsmanager.*`, `perobjectremuxer.*` | pool of remuxers | assign a remuxer to an event; write packets. Its thread is never started (`apssengine.cpp:310`) |
| Frame manager | `utils/framemanager.*` | slots per camera | write, get, retire by index modulo the number of slots; the engine only sizes it |
| UI models | `models/*` | a view of the Event table | select it anew for each new event |
| Message bus | `events/*` | ZMQ sockets | proxy, publish, subscribe; created, never started |
| Configuration, user interface, scripts, tests | `config/`, `src/APSS/`, `src/scripts/`, `src/test/` | - | - |

### 1.2 How they interact

    capture -> frameQueue(camera) -> processor -> detector queue -> object detectors
                                       |  ^ flag + notify_all(camera) ----'
                                       |------> plate queue -> plate detectors
                                       |  ^ flag + notify_all(camera) ----'
                                       '------> tracked queue -> tracked object processor
                                                                   |  transactions
                                        main thread: recognizer <--+--> ODB statements --> SQLite
                                                          ^--- picture files <--'

* All queues are `tbb::concurrent_bounded_queue`. In *pull* mode a full queue
  refuses the frame; in *push* mode the producer blocks.
* A pool answers through shared memory: it writes the frame's predictions,
  raises `hasBeenProcessed`, and notifies the condition of the frame's camera.
  The processor tests the flag, then takes a mutex nobody else who matters
  takes, and waits once, with a timeout.
* The recognizer object is never moved to the thread that is made for it
  (its slot therefore runs in the main event loop, between other slots, and
  never during `APSSEngine::stop`, which runs there as well).
* The processor and the recognizer share picture files named by camera and
  tracker id, which later events and earlier runs of the program use as well.
* Every thread has a database connection of its own, with statements and images
  of its own; they meet in the rows.
* `APSSEngine::stop` visits the threads in the order of the data flow:
  interruption, abort of the pool's queue, `wait` with a timeout, `terminate`.

### 1.3 What is hard here, and what makes each part correct

* *Pipeline.* Wake-ups that come too early or too late, timeouts that race
  answers, two detectors competing for a batch, frames given up while being
  written. Correct: per camera nothing is reordered, duplicated or (while a
  worker is left) stuck; a frame that was given up stays out; a frame that was
  answered in time is complete.
* *Events.* Every step may throw, transactions roll back while memory does not,
  one failure cuts a loop short, a second writer updates rows it read before.
  Correct: one row per appearance, opened and closed once; the outcome agrees
  with the predictions stored for it; nothing is forgotten.
* *Evidence.* What is in memory and what is in a file of the same name are of
  different events, when a track is forgotten and comes back or a step between
  the two throws. Correct: an open event shows itself, and a plate that was seen is
  not read from an older picture.
* *Storage.* Bindings point into buffers that move; values reach columns by
  position; set-up may stop between any two statements. Correct: what is found is
  what was written last; the file has the tables of the version it states, and
  keeps its rows.
* *Capture.* A decoder that delays pictures and refuses packets, a file that starts
  again, a camera that falls silent while the engine stops. Correct: pictures in
  order, each once, with the clock of their own pass; stopping is heeded wherever
  the thread does not wait for somebody else; whatever was opened is freed.
* *Shared statistics.* Several threads in one setter. Correct: as if
  each call were atomic, with one signal per change.
* *Shutdown.* A thread that has tested for interruption but not yet blocked
  misses the abort; an abort throws into whoever blocks on that queue. Correct:
  a stage ends before the next is dealt with, and no queue is aborted while
  somebody who has no handler blocks on it.
* *Area estimator.* Thresholds, a cache with wall-clock times that wrap.
  Correct: an approach is never missed, and a detection triggered again has a reason.

The full list with lines is under `hazards` in `PROJECT.json`.

## 2. The modules

| module | what it is |
|---|---|
| `FrameFlow` | abstract: per camera a lossy FIFO (arrive, skip, drop, deliver) |
| `FramePipeline` | capture, processors, both pools and the four queues; implements `FrameFlow` |
| `FrameFlowProofs`, `FramePipelineProofs` | theorems about these two |
| `EventLog` | abstract: rows opened, closed once as a whole, annotated |
| `TrackedEvents` | tracked object processor, recognizer, database, the part of `stop` that ends them; implements `EventLog` |
| `Evidence` | `TrackedEvents` with the pictures: what the processor keeps and writes, what the recognizer reads; implements `TrackedEvents` |
| `EventsProofs` | theorems about these two |
| `ObjectStore` | abstract: a table of objects under ids that are never given twice |
| `ObjectStatements` | the generated persistence code of both classes; implements `ObjectStore` |
| `SchemaVersions` | `initDatabase` and the generated schema functions, cut short anywhere |
| `StorageProofs` | theorems about these two |
| `CameraCapture` | `CameraCapture::run` as its camera and decoder see it |
| `PacketRingBuffer` | the packets kept for the start of a recording |
| `AtomicRegister` | abstract: a register that tells of its changes |
| `AtomicSetter` | the compare-and-exchange setters; implements `AtomicRegister` |
| `EventRate` | `EventsPerSecond` |
| `AreaEstimator` | `estimateChangesInArea` |
| `CameraProofs` | theorems about these five |
| `EngineShutdown`, `EngineShutdownProofs` | `APSSEngine::stop` against all threads, queues as counters; theorems |
| `Detections` | operators: letter box and back, suppression of overlapping boxes, post-processing |
| `PlateDetection` | one frame: objects found, vehicles marked, batched, searched for plates; uses `Detections` |
| `PlateDetectionProofs` | theorems about it, and lemmas about the operators of `Detections` |
| `Loops` | induction over numbers, and functions defined by recursion, for the proofs |
| `MC*` | values of constants for TLC; `MCThreads` and `MCDetectionStorage` also put modules that share nothing side by side, each explored alone (`part` says which) |

Definitions whose comment begins with *Slip* are wrong variants of the action
that follows them. No specification uses them; they are there to show that each
property notices a plausible bug.

### 2.1 FramePipeline

Variables and what they stand for: `frameQueue`, `inQueue`, `trackedQueue` are the
queues; `predictMode` is the static of `predict()` (`cameraprocessor.cpp:89`), set
by whoever calls it first; `processed` and `expired` are the flags of the frames,
`predictions` what their lists carry (raw detections, tracked objects, plates);
`processor[c]`, `detector[d]`, `lpDetector[l]` are the threads: a program
counter, the frame or batch in hand, and the copy of predictions taken earlier.
`delivered` and `overtaken` are history.

An action is one access to shared state. The processor's cycle is
`PopFrame, SubmitFrame | RefuseFrame, CheckProcessed, BeginWait, (NotifyAll by a
worker | WaitTimesOut), ResetProcessed, TrackFrame`, the same again for the
plate stage, and `EmitFrame`. A detector's is `DetectorPop, DetectorMore ...
DetectorInfer | DetectorFail`, then per result `DetectorCheckExpired,
DetectorAdd, DetectorFlag, DetectorNotify`. The mutex is not modelled: it guards
no data, and a worker does not take it.

Five actions join accesses that are steps of their own in the code:

* `BeginWait`: locking the mutex and entering the wait. Holding it only delays
  other processors that come to wait.
* `ResetProcessed`: lowering the flag, and after the object stage the copy of the
  predictions. A worker that still writes does so before it raises the flag.
* `DetectorPop` and `LPPop`: taking a frame from the queue and testing whether it
  has expired; `LPPop` also the copy of its predictions. What others do to the frame
  in between is either that it expires or, in push mode, that a late object detector
  adds to it. An expiry behind the test is found by the next one
  (`DetectorCheckExpired`, `LPDetect`), and anything else may as well have come
  before the frame was taken, since it does not touch the queue.
* `LPDetect`: inference, the second test for expiry and the write-back of the copy. What a
  late detector adds in between is overwritten as if it had come before; a
  frame that expires there gets plates nobody reads, as it does when it
  expires behind the write.

Time is abstract: a wait may end by its timeout at any moment. Images and the
content of predictions are abstract.

### 2.2 TrackedEvents

`history` is `cameras_history`, `events` and `stored` are the tables, `announced`
and `heard` the queued signal `eventCompleted`, `lpr` the slot in progress,
`stopping` how far `stop` is. Row ids are positions in `events`: SQLite assigns
them in ascending order, and a rolled-back insert rolls its counter back
as well, which leaves the id free for the next. Two constants switch failures on:
`StepsMayFail` (an exception before the insert, or of a transaction that updates)
and `CommitMayFail` (the COMMIT of a new event). Any track may appear in any
frame, since ByteTrack keeps ids longer than the event processor does.

### 2.3 Evidence

EXTENDS `TrackedEvents`, whose actions it takes over and couples with the pictures:
`best` is `bestThumbnail` and `bestPlate` of the entries, `thumbFile` and
`plateFile` are the files, each known by the event it shows. `BetterShot` is the
condition of `updateThumbnails`; whether a crop is of the wanted shape or notably
larger is an input. Any step of it may throw (`LookFails`), and `imwrite` may fail
unnoticed if `ImagesMayFail`. Files of an earlier run may be there at first.

### 2.4 ObjectStatements, ObjectStore and SchemaVersions

A connection's `stmts` hold one image (`val`, and the capacity `cap` of each text
buffer, which moves exactly when that changes), its `version`, and what each array
of bindings was `made` for. `Sent` and `Received` are what SQLite reads and writes
through an array; an array made for another capacity points to freed memory.
The orders of columns are those of `bind()` and of the five statements'
texts, from the generated code. Operations are steps, since each is a transaction
of its own thread. `ObjectStore` forgets statements, images and columns.

`SchemaVersions` has the committed `file`, the `copy` the open transaction sees, and
the `script` of calls the catalog has still to make: pass by pass, each through both
tables. Any statement may fail, and the program may end, between all of them.

### 2.5 CameraCapture, PacketRingBuffer, AtomicSetter, EventRate

`stage` is the place in `run()`; `held` the FFmpeg objects, freed at one label;
`place`, `decoder`, `shown` know a picture by its pass through the file
and its number. The decoder is external: it keeps `Delay` pictures back, and may
refuse a packet only while one can be received. `queued` is the length of the frame
queue; `FramePipeline` has the frames. `ReadError` ends the program (`qCFatal`).

Opening is a step per object. `Connecting` is the wait in `avformat_open_input`;
`Probing` is the wait in `avformat_find_stream_info`, with the input open.
The interrupt callback is set between the two (`cameracapture.cpp:98`), when the
layer that reads has been given a copy of the callback by value, and there was none. So
`Open` while probing, `ReadPacket` and `ReadInterrupted` are answers of the camera:
they may come, after a request or without one, or never.

`PacketRingBuffer` has the durations in the buffer and the account; `AtomicSetter` a
load, a weak exchange that may fail without reason, and the signal; `EventRate` the
list of times, which is cut and aged at different moments.

### 2.6 EngineShutdown

Each thread is a place in its loop; the queues are lengths. `Modes` is the set of
values `is_pull_based` may have in the first state, `Order` the sequence in which
`stop` visits threads.

### 2.7 AreaEstimator

`cache` is `objectsHistory`; `sightings` is the history of what was observed and
whether it triggered. Areas are integers and the factors 1.1 and 0.8 are exact
(`* 10 >= * 11`); the code multiplies an int by a float, so that an area exactly on
a threshold may fall on the other side there. The properties use the same exact
factors.

### 2.8 Detections and PlateDetection

`Detections` has no state: `ScaleCoords`, `LetterBox`, `NMSBoxes` and
`PostProcess` are the functions of `image.cpp` and of the two `postprocess` members,
on integers and exact fractions, with the code's rounding and truncation.
`SortedIndices` is a set, since `std::sort` may leave equal scores in any order;
suppression and the filter of plates are recursive functions along a sequence. `PlateDetection` takes one
frame through both models; `stage` says what comes next, `p` and `batch` are
the loop variable and `vehicle_indxs` of `LPDetectorSession::run`. Reports of the
models are inputs. `hasDeltas` is an arbitrary choice among boxes that are
large enough, as `estimateChangesInArea` may make (`AreaEstimator` has its rules).
Key points are left out: they are moved as boxes are. Two histories serve the
properties: `searched` is the order in which vehicles were given to the model,
`answers` what it reported of each.

## 3. What TLC checks

Liveness is asked of `pipeline_decided` and `threads`, the runs with fair
specifications. `threads` and `detection_storage` explore several small
modules in one run: `part`, chosen in the first state, says which one moves, and
the others stay in one of their initial states. Nothing is shared by them, so that
the run is as many runs as it has parts.

| run | instance | shows |
|---|---|---|
| `pipeline_pool` | 1 pull camera, 3 frames, 2 detectors with batches of 2, 1 plate detector | types and capacities; no frame is in two places of the detection stage; capture order; expired frames are never delivered; the pipeline implements `FrameFlow` |
| `pipeline_decided` | a pull and a push camera, 1 frame each, workers that may die | every captured frame is decided; a camera for which nobody was late hands on complete frames |
| `events` | 1 camera with 2 tracks, up to 4 frames of up to 2 objects; or 2 cameras with the same tracker id, 2 scores, 3 frames each; failures, the first failing commit included | one completion per event; a written outcome agrees with its predictions; cameras do not disturb each other; the table kept as `EventLog` says |
| `evidence` | 1 camera, 2 tracks, up to 4 frames of one object, files of an earlier run, failures of every step, commits included | no open row is forgotten; an open event shows itself; a plate that was seen is not replaced by an older one |
| `threads` | *shutdown*: 1 camera, 2 detectors, 1 plate detector, both modes. *capture*: a stream of 3 packets of up to 2 pictures read twice, a decoder that keeps one back, a camera that may fall silent. *buffer*: 4 packets. *setters*: 2 threads. *rate*: 6 events in a list of 2 to 3. *estimator*: 1 vehicle, 4 areas at the thresholds, 4 sightings, a midnight | aborts never hit a processor, and earlier stages have ended; pictures in order with their own clock, stop is heeded or the thread waits for others for ever, resources freed; the buffer holds the latest packets; setters are atomic; rates count the latest events; no approach is missed, and a second trigger has a reason |
| `detection_storage` | *detection*: 3 frame shapes, 3 boxes of 3 classes, batches of 2 or a static batch. *statements*: 2 connections, 1 row at a time, 2 ids, short and long texts, both classes and versions. *schema*: a database of any version, set up again and again | suppression keeps and drops what it should; boxes come back where they were seen and can be cropped; plates are filed under the vehicle they were reported of, and none is left out where batches are of one; bindings point to where buffers are; objects come back whole; version, tables and rows agree |

Six runs exhibit a disagreement between a comment and the code (`findings`
in `PROJECT.json` has the quotations):

| run | shows |
|---|---|
| `lost_wakeup` | a worker that flags and notifies between the processor's test and its wait leaves it waiting for an answer it has; in pull mode the frame then expires |
| `stale_wakeup` | the condition belongs to the camera, not to the frame: the late answer for an expired frame ends the wait for the next, which is tracked without detections |
| `events_shutdown` | `stop` aborts the queue the processor blocks on, and the exception leaves `run()` past `finalizeAllEvents` |
| `last_batch` | the comment at `lpdetectorsession.cpp:90` has the end of the predictions complete the batch, but line 91 is only reached at a vehicle: with a dynamic model and batches of more than one, vehicles in front of a last prediction that is none are dropped with the batch. The engine sets batches of one |
| `new_maximum` | `cameraprocessor.cpp:174-177` has a new maximum area trigger "even if stationary", but line 156 raises the maximum before line 178 compares the area with it: this reason never holds |
| `shutdown_lpdetectors` | `if (det->wait(500))` is inverted: a late plate detector outlives `stop()` |

### 3.1 Why these bounds

* One camera with three frames has a frame being written by late workers, one
  in the processor's hands and one in the queue: all that one camera's
  processor can confuse. Two detectors are needed to compete for a batch of two.
  Cameras share only the pools, `predictMode` and the tracked queue; the run with
  two cameras covers that. Queues hold one frame, so that
  full and empty both occur all the time.
* `MaxLost = 1`: a track must be missing for two frames to be completed. With two
  tracks four frames suffice for: seen, lost, completed, seen again, with failures
  in between. Three frames of each of two cameras suffice for a track to be lost
  by frames of the other one, if they counted. The constraint
  `TwoTracksOrTwoCameras` keeps these two families of behaviours and leaves out
  their product. Cameras and trackers are symmetric: they are only compared. In
  `events` a commit may fail, and the state it leaves is checked but, by
  `CommitsSucceed`, not followed further: `OutcomeAddsUp` and `CompletedOnce` are
  about the behaviours in which commits succeed. What follows a failed commit is
  the business of `evidence`.
* Pictures: one object per frame is enough, as tracks share no file; two tracks let
  the clean-up of one fail for the other.
* Statements: a buffer that has grown does so for all of its users, so that one
  growth, on either connection, before or after each kind of array was filled, is
  what can go wrong; two ids in one row tell an id that is given twice. One row at
  a time means that no run has a buffer grow between two rows of one query; the
  theorem `StatementsKeepObjects` covers that for any number of rows. Every step of the
  schema's set-up is there; only the number of restarts is unbounded anyway.
* Capture: two packets can be refused after each other in three, each holding up to
  two pictures against the one the decoder keeps back; two passes have one border.
  Four packets, one of them longer than the limit, are enough to fill, overflow
  and empty the ring buffer. Two setters race; a third would
  only repeat what one of them does. The list of times overflows at four events
  in a window of two seconds.
* Three boxes in a row, each overlapping the next only, are the least with which
  a suppressed box can wrongly suppress another; a fourth reaches beyond the
  picture. The shapes shrink, grow and are padded on either side, with paddings
  that letter box and way back round differently. Batches of two and three
  vehicles leave a full, a partial and an empty batch at the end.
* Shutdown has one thread of each kind and two detectors, since only a pool
  has peers that an abort wakes together.
* The areas are one too small to be judged (4) and those on the thresholds of each
  other (8 = 0.8 * 10, 11 = 1.1 * 10, both 10 and 11 approaches from 8); the day
  has three seconds. `new_maximum` has areas that differ by less than a tenth.

### 3.2 Fairness

`FairSpec` of `FramePipeline` gives weak fairness to each thread's steps: the
operating system schedules runnable threads, and every wait of a
processor has a timeout, so that `WaitTimesOut` is a step of the processor like
any other. No fairness is given to captures (a camera may go silent) or to
failures. The run sets `CHECK_DEADLOCK FALSE`: a push engine whose pool has
died really stops, with its processor blocked in `emplace`. `EveryFrameDecided`
says so: decided, or else the engine is in push mode and a pool has no worker
left.

`CaptureFairness` is weak fairness of the capture thread's own steps. What the
camera or the processor has to do is not fair: either may never come. The
interrupt callback does not change that. It is set at
`cameracapture.cpp:98`, after `avformat_open_input` (92), which hands the layer
that reads a copy of the callback by value: a read blocked in that layer never
asks whether to stop. An interrupted read is therefore possible
(`ReadInterrupted`) and never certain. `StopIsHeeded` names the four places where
`run()` may wait for ever after a request: opening the input
(`Connecting`), its stream info (`Probing`), reading a packet, and `emplace` into a
full queue in push mode. From everywhere else it reaches its end, and
so it does from these when it is answered. That is why the engine's `terminate()` after
`wait()` matters for captures.

Deadlock is checked in `threads`: the parts other than the shutdown stop at their bounds, and
say so by a step that changes nothing, which no fairness condition counts; the
engine's `stop` may not get stuck.

## 4. What is proved

All theorems hold for every value of the constants that satisfies the module's
`ASSUME` (capacities and the batch size are positive; no assumption on the
number of cameras, workers, trackers or frames, or on finiteness). Four
groups of them assume more:

* `CompletionIsAnnouncedOnce`, `OutcomesAddUp` and `TableIsEventLog` assume
  `~CommitMayFail`, and need it (see section 5).
* `FollowedEventsShowThemselves` and `PlatesAreNotOlder` assume `~ImagesMayFail`: if
  `imwrite` may fail unnoticed, the file of an earlier event of the same
  name stays where it is. Every other step may fail, commits included.
* `SuppressionKeepsTheBest` assumes that no frame is both wider and higher than
  `ClassOffset` (7880): the code keeps classes apart by shifting the boxes of
  class k by k times that, in both coordinates.
* The bounds `MaxPasses`, `MaxTime` and `QueueCap` are numbers.

| theorem | states |
|---|---|
| `FramePipelineProofs!TypeCorrect` | `Spec => []TypeOK` |
| `FramePipelineProofs!PipelineIsLossyFifo` | `Spec => FrameFlow!Spec` under the mapping `Waiting` |
| `FrameFlowProofs!FlowOrder` | the lossy FIFO keeps capture order |
| `FramePipelineProofs!FramesReachTrackerInOrder` | the same of the pipeline |
| `FramePipelineProofs!ExpiredFramesStayOut` | `Spec => []ExpiredNeverDelivered` |
| `FramePipelineProofs!NoFrameDetectedTwice` | `Spec => []DetectedOnce` |
| `FramePipelineProofs!PromptAnswersAreComplete` | `Spec => []OnTimeIsComplete` |
| `EventsProofs!TypeCorrect` | `Spec => []TypeOK` |
| `EventsProofs!OpenEventsAreRemembered` | `Spec => []NoEventForgotten` |
| `EventsProofs!CompletionIsAnnouncedOnce` | `~CommitMayFail` implies `Spec => []CompletedOnce` |
| `EventsProofs!OutcomesAddUp` | `~CommitMayFail` implies `Spec => []OutcomeAddsUp` |
| `EventsProofs!TableIsEventLog` | `~CommitMayFail` implies `Spec => EventLog!Spec` |
| `EventsProofs!PicturesAreExtra` | `EvidenceSpec => Spec`: what holds of `TrackedEvents` holds of `Evidence` |
| `EventsProofs!FollowedEventsShowThemselves` | `~ImagesMayFail` implies `EvidenceSpec => []OpenEventShowsItself` |
| `EventsProofs!PlatesAreNotOlder` | `~ImagesMayFail` implies `EvidenceSpec => PlateIsNotOlder` |
| `StorageProofs!BindingsStayLive` | `StatementsSpec => []BindingsAreLive` |
| `StorageProofs!StatementsKeepObjects` | `StatementsSpec => ObjectStore!StoreSpec` |
| `StorageProofs!VersionsMatch` | `SchemaSpec => []VersionMatchesTables` |
| `StorageProofs!RowsStay` | `SchemaSpec => RowsKept` |
| `CameraProofs!SettersAreAtomic` | `SetterSpec => AtomicRegister!RegisterSpec` |
| `CameraProofs!WhatIsOpenedIsFreed` | `CaptureSpec => []CaptureTypeOK` |
| `CameraProofs!ClockNeverMixed` | `CaptureSpec => []ClockOfItsPass` |
| `CameraProofs!PicturesStayInOrder` | `CaptureSpec => PicturesInOrder` |
| `CameraProofs!BufferHoldsTheLatest` | `RingSpec => []HoldsLongestSuffix` |
| `CameraProofs!RatesCountTheLatest` | `RateSpec => []CountsTheLatest` |
| `CameraProofs!AreaTypesHold` | `AreaSpec => []AreaTypeOK` |
| `CameraProofs!ApproachesTrigger` | `AreaSpec => []ApproachTriggers` |
| `CameraProofs!TriggersHaveReasons` | `AreaSpec => []TriggeredForAReason` |
| `EngineShutdownProofs!ShutdownTypes` | `Spec => []TypeOK` |
| `EngineShutdownProofs!StagesEndInOrder` | `Spec => []EarlierStagesEnded` |
| `EngineShutdownProofs!NoAbortEscapes` | `Spec => []AbortsAreCaught` |
| `PlateDetectionProofs!TypeCorrect` | `Spec => []TypeOK` |
| `PlateDetectionProofs!CropsStayInside` | `Spec => []CropsAreSafe` |
| `PlateDetectionProofs!PlatesReachTheirVehicle` | `Spec => []PlatesOfTheirVehicle` |
| `PlateDetectionProofs!SuppressionKeepsTheBest` | small frames imply `Spec => []SuppressionIsExact` |
| `PlateDetectionProofs!PredictionsAreInPlace` | `Spec => []BackInPlace` |

*Pipeline.* `TypeOK` is inductive because it also says which positions of a thread
have a frame in hand, of its own camera. The refinement maps a camera's undecided
frames to the one in the processor's hands followed by its queue; every step of
the pipeline is an `Arrive`, `Skip`, `Drop` or `Deliver` of one camera, or a
stutter. Order is proved of the abstract specification alone: `InOrder` is
not inductive, since nothing in it bounds waiting frames by the next index, so
`FlowInv` adds that; the pipeline inherits it. Expiry needs `ExpiryInv`: a
frame that expired is neither waiting nor delivered. With the order invariant
this is preserved, because the frame leaves the processor's hands when it
expires and smaller indices never come back.

`DetectedOnce` needs to know that what the pool holds cannot be submitted again. `SubmittedInv`
says of each such frame that it was captured, is no longer in its camera's
queue and is not what its processor is about to submit; with the order
invariant its index never comes up again, whatever timed out in between.

`OnTimeIsComplete` is the handshake itself, and `PromptInv` follows one frame of a
camera that was never overtaken through it. A pool holds the frame only while its
processor awaits an answer of that stage, at one place only (here
`DetectedOnce` is used again), and the place says how far the results are: asked
in a queue or batch, written before the flag is set, raised before the
notification. The processor's own position then says what the frame carries when it
goes on to the tracker. That the next stage starts with the flag down is
what the reset between the stages is for.

*Events.* `TypeOK` bounds the ids the recognizer is given by the table, which only
grows. `NoEventForgotten` is not inductive for two reasons. Completing an event
closes its row only if the entry has a record under the row's id, and the
recognizer overwrites a row with a copy it read earlier, whose track could
differ. `Remembered` excludes both: each persisted entry has a record under its
own id, and the copy is about the track of the row it came from. It survives
failing commits, since an entry they give an id is not persisted.
`CompletedOnce` rests on `OwnRows`: an entry without a row has id 0, and one with a row has
a row of its own track that has not been announced. Completing it
announces that row and erases the entry, so that no entry is left that owns
it. A failing commit leaves an id in an entry without a row, which is where
`OwnRows`, and with it the theorem, needs the assumption.

`OutcomesAddUp` needs to know what memory knows of the rows still open. `LogInv` says
that an entry agrees with the sightings stored for its row: the first
one is its start, the last one its end, the best score is the highest, and the frames
since the last one are counted in full (`EntryAddsUp`). While a frame is in
hand this holds of the objects already handled and, one frame behind, of the
others (`InFrame`). A closed row then has its sightings from the entry that
closed it, which had been missing for more than `MaxLost` frames unless the
program was ending (`Gap`). The recognizer writes a row only when it is closed, and
between its reading and writing nobody else does (`Hearing`), so that the copy it
writes back is the row as it was closed. With that, every step opens a row, closes
one as a whole, annotates one, or is a stutter of `EventLog`.

*Evidence.* `Kept`: what memory holds of a track is of the appearance its entry began
with, and so are the files, once a picture has been taken. `Shown`: an
appearance that showed a plate is one whose plate file is its own or of a later
appearance, by the order of the frames they began in. Both survive what fails
between crop, file and row, because memory is only changed together with the
file; that is what the assumption on `imwrite` is for.

*Storage.* An array of bindings is sound if it is current only when it was made for
the present capacities; what makes this inductive is that versions in arrays
never exceed the image's, so that growing makes all of them out of date at
once.

`StatementsKeepObjects` compares the hand-kept orders of the generated code: for each
class and version, the columns a statement's text names are those of the binding
array, place by place, also when those the file does not have are left out. So a
statement whose array is current sends an object whole and loads it whole. A text that
did not fit has made its buffer grow when the row is looked at, and is fetched again
into the new one. `ObjectsInv` adds that the rows of the table, and those an open
query still has to give, are objects of the class, and that the query's ids are those
of the table in ascending order. Each call is then the abstract one of `ObjectStore`, or fails
as a stutter. What the theorem is about is the columns as this version of the code lists them;
the check is that no list was changed alone.

The schema's invariant says what the open transaction sees when n
calls are still to be made: nearly all of these states break
`VersionMatchesTables`, and only the last is committed. It also has the version read
before the transaction still be the file's when the calls are made, which is true
because one program uses the file. Rows survive because tables are dropped only in a
file whose version is 0, and such a file has no tables to hold rows.

*Shutdown.* A thread that has ended stays ended, which makes `EarlierStagesEnded`
inductive once `stop` moves on only past a thread that has: that it visits
threads in the order of `Rank` is an assumption on the constant `Order`,
and the order is the code's. `EarlierStagesEnded` leaves out the kinds of threads
whose `wait()` is tested the wrong way round (`Inverted`; `apssengine.cpp:136`,
148, 157, 170): of them `shutdown_lpdetectors` shows that it is false. A queue is aborted only while `stop` deals with a
thread that pops it, and whoever could block on it without a handler is of an
earlier stage.

*Setters.* A call takes effect with its successful exchange, or with the load that
finds the value there. An exchange is only tried when the value last
loaded differs from the new one, so that success always is a change.

*Capture.* In `PicturesInOrder` the interesting case is a refused packet: as long as no
picture fails to decode, the inner loop is left only when nothing can be
received, so that the next packet is never refused. The invariant says so, and
that the decoder's pictures are an ascending run behind the one shown, of the
pass of the clock if that is set.

What is held is a beginning of the list of `Resources`, whose length
is what `Open` goes by; so the loop is entered with everything opened, and from
any failure `Free` is reached with a beginning to free.

*Ring buffer.* The sums of the beginnings of a sequence are a function defined by recursion;
three facts about it, by induction, do the accounting: it grows by the
element appended, what is dropped is a beginning, and what stays is worth
the difference. The account is never less than the buffer is worth, and equal to
it while all packets have durations. One packet fewer dropped would then have
been over the limit.

*Rates.* The list is always the updates but for the first m, and these are left
out because they are old, or because `MaxEvents` later ones are there. Times
ascend, so that everything before an old one is old.

*Area estimator.* The cache has forgotten most sightings. The invariant relates it to all
of them: after the last trigger, the entry either remembers its area, or
remembers none, and then there has been a reason to trigger again. `TriggeredForAReason`
counts a new maximum among the reasons, as the comment does, although the code as it
is never triggers for it: the theorem stays true if line 156 is moved. That an
entry that was removed means a long absence needs that times of day are no
further apart than times are (`ClockRunsSlower`), whatever midnights pass between.

*Plate detection.* `SearchInv` follows the loop of `LPDetectorSession::run`: every vehicle
behind `p` was given to the model or waits in the batch, in order, and the
predictions stored are `Safe`: boxes inside the picture, plates on their vehicle, marked
boxes large enough to be cropped. That boxes come out of post-processing like that is
a chain of lemmas along the code's: rounding, clamping, letter box and back.
`Filed` adds where plates come from: what is filed under a vehicle are
candidates, sure enough and brought back into place, of an answer to that very
vehicle's crop (`PlatesFiled`). It relates position k of a batch, of its crops and of its
results, and with `SearchInv` it gives `PlatesOfTheirVehicle`. That no vehicle is left out
is part of it where batches are of one; elsewhere it is false (`last_batch`).
`SuppressionIsExact` is proved along the order of scores: after n boxes those kept do not
overlap each other, and each one dropped overlaps one kept before it
(`Suppressed`). The shift between classes must not change overlaps within a class,
nor create one between classes (`ShiftedBoxes`).
`BackInPlace` holds of what `scaleCoords` returns (`Placed`: every prediction is what it made of
the candidate it names); the bound is counted out in integers, with four
roundings each known by what it is off by: the corner of the letter box and the padding
differ by one pixel at most (`PaddingNear`), the size of the letter box and the
coordinate are off by a half each, and a coordinate that had to be clamped was
within that distance of the edge (`CoordinateBack`).

*Loops.* A theorem of the library whose parameter is a predicate cannot be
applied with the provers used, and induction is one. `Loops` states it with a set
instead, from the fact that a set of numbers has a least element, and proves that
the function a loop computes exists. The recursive functions of `Detections`,
`ObjectStatements` and `PacketRingBuffer`, and the two loops that stop at the first number
with a property (`Excess`, `Old`), are reasoned about with these.

Only model-checked: liveness (`EveryFrameDecided`, `StopIsHeeded`), which is beyond the
prover. Every invariant and every action or refinement property of the passing runs has a
theorem. The six runs that exhibit a disagreement stay what they are: behaviours TLC
finds.

## 5. Observations without a run

* `QTime::secsTo` is negative past midnight (`cameraprocessor.cpp:137`): an object
  lost before midnight stays in the cache, and loses the fresh start that
  `cameraprocessor.h:30` describes. `ApproachTriggers` allows for it; `TriggeredForAReason`
  is not affected, as it only loses a reason.
* The result of `wait()` is also inverted at `apssengine.cpp:148`, `157` and `170`.
* `scaleCoords` moves a negative corner to 0 without shortening the box
  (`image.cpp:99`): it then reaches further than what the model saw, though
  never beyond the image.
* When the COMMIT of a new event fails, its id stays in memory and SQLite gives it
  to another event: two tracks may then write one row. `CompletedOnce`,
  `OutcomeAddsUp` and `KeepsLog` do not hold with `CommitMayFail`.
* An event that showed no plate is given the text of whatever plate file has its name:
  of an earlier event of the track id, or of an earlier run
  (`lprsession.cpp:129`). `PlateIsNotOlder` is about events that showed one.
* `getSmartCropRect` returns whether the crop had to be clamped; its caller
  names it `is_smart_croppable` (`trackedobjectprocessor.cpp:201`) and so prefers
  pictures that were cut at the frame's border.
* After a refused packet the inner loop sends it again whenever no picture is
  ready, since it goes on testing the result of the first call
  (`cameracapture.cpp:229`). It never is refused unless decoding fails
  (`PicturesInOrder`).
* Pictures the decoder holds back at the end of a file are flushed with it: the
  last of each pass are never shown. A read error is reported with `qCFatal`, which
  aborts the program. Neither opening an input nor a read blocked
  in the network layer is sure to be interrupted (section 3.2).
* `PacketRingBuffer` never credits packets without a duration, so that a stream of
  such packets ends with a buffer that is always empty.
* `initDatabase` reads the schema's version before it begins the transaction, and only
  logs a failure; the engine then runs without tables until the next start.
* Rates count the whole second at either end of the window, and are too high, or
  negative, for a while after the wall clock was set back.
* `RecordingsManager::init` fills its pool with copies of one remuxer and one thread
  (`recordingsmanager.cpp:34`); `FrameManager` clears a newer frame when an
  older one of the same slot is retired (`framemanager.cpp:78`); `EventsModel` passes a
  row id where Qt expects a row number (`eventsmodel.cpp:161`). None of these is
  reached today.
* With a static batch, `predictor.cpp:90` loops to the model's batch size, whatever the
  number of images; the shipped models are taken to have a batch of one.

## 6. Not modelled

* *Recordings manager and remuxers*: unfinished code whose thread is never started;
  no signal reaches it, and it has no behaviour to be faithful to. The ring
  buffer it was to use is modelled.
* *Frame manager, message bus*: created or sized at the start, used by nothing.
* *UI models and QML*: presentation; the events model selects the whole table anew.
* *ByteTrack, OCR, ONNX, FFmpeg, ODB's library, SQLite*: external; modelled by how the
  code uses them. Pixel work (cropping, drawing, resizing) is data.
* *Configuration*: plain values read once; those that matter are CONSTANTs.
* *Scripts, tests, build files.*

`PROJECT.json` gives the reason component by component.
