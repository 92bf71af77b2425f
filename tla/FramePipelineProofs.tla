------------------------- MODULE FramePipelineProofs -------------------------
(***************************************************************************)
(* Theorems about FramePipeline, for any number of cameras, frames,        *)
(* workers and any capacities.                                             *)
(***************************************************************************)
EXTENDS FramePipeline, TLAPS

LEMMA FrameFacts ==
    /\ \A f \in Frame : f.camera \in Cameras /\ f.index \in Nat
    /\ \A c \in Cameras, n \in Nat : n < MaxFrames[c]
            => [camera |-> c, index |-> n] \in Frame
  BY PipelineAssumption DEF Frame

\* Appending a frame to a queue.
LEMMA AppendFacts ==
    ASSUME NEW s \in Seq(Frame), NEW f \in Frame
    PROVE  /\ Len(s) \in Nat
           /\ \A i \in 1 .. Len(s) : s[i] \in Frame
           /\ Append(s, f) \in Seq(Frame)
           /\ Len(Append(s, f)) = Len(s) + 1
           /\ Append(s, f) # <<>>
           /\ \A i \in 1 .. Len(s) + 1 : Append(s, f)[i] = IF i = Len(s) + 1 THEN f ELSE s[i]
  OBVIOUS

\* Taking the head off a queue.
LEMMA TailFacts ==
    ASSUME NEW s \in Seq(Frame), s # <<>>
    PROVE  /\ Len(s) \in Nat \ {0}
           /\ Head(s) \in Frame
           /\ Head(s) = s[1]
           /\ Tail(s) \in Seq(Frame)
           /\ Len(Tail(s)) = Len(s) - 1
           /\ \A i \in 1 .. Len(s) - 1 : Tail(s)[i] = s[i + 1]
           /\ Len(s) # 1 => Tail(s) # <<>>
  <1>1. Len(s) \in Nat \ {0}
    OBVIOUS
  <1>2. Head(s) = s[1] /\ s[1] \in Frame
    BY <1>1
  <1>3. Tail(s) \in Seq(Frame) /\ Len(Tail(s)) = Len(s) - 1
    BY <1>1
  <1>4. \A i \in 1 .. Len(s) - 1 : Tail(s)[i] = s[i + 1]
    BY <1>1
  <1>5. Len(s) # 1 => Tail(s) # <<>>
    BY <1>1, <1>3
  <1>. QED BY <1>1, <1>2, <1>3, <1>4, <1>5

LEMMA StageFacts ==
    /\ "object" \in Stage /\ "lp" \in Stage
    /\ \A s \in Stage : StageCap[s] \in Nat \ {0}
  BY PipelineAssumption DEF Stage, StageCap

LEMMA InitTypeOK == Init => TypeOK
  <1>. SUFFICES ASSUME Init PROVE TypeOK
    OBVIOUS
  <1>. USE PipelineAssumption DEF Init
  <1>1. QueuesOK
    BY StageFacts DEF QueuesOK
  <1>2. FramesOK
    BY DEF FramesOK
  <1>3. ProcessorsOK
    BY DEF ProcessorsOK, IdleProcessor, ProcessorPc, Stage, At
  <1>4. DetectorsOK
    BY DEF DetectorsOK, IdleDetector, DetectorPc
  <1>5. LPDetectorsOK
    BY DEF LPDetectorsOK, IdleLPDetector, LPDetectorPc
  <1>. QED BY <1>1, <1>2, <1>3, <1>4, <1>5 DEF TypeOK

\* A processor step that names a new position for camera c.
LEMMA GotoOK ==
    ASSUME TypeOK, NEW c \in Cameras, NEW pc \in ProcessorPc, ~At(c, "pop"), Goto(c, pc)
    PROVE  ProcessorsOK'
  BY DEF TypeOK, ProcessorsOK, Goto, At

\* A processor step that keeps its frame.
LEMMA StepOK ==
    ASSUME TypeOK, NEW c \in Cameras, NEW r,
           processor' = [processor EXCEPT ![c] = r],
           r \in [pc : ProcessorPc, stage : Stage,
                  frame : Frame \cup {NoFrame}, seen : SUBSET Mark],
           r.pc # "pop" => r.frame \in Frame /\ r.frame.camera = c
    PROVE  ProcessorsOK'
  BY DEF TypeOK, ProcessorsOK, At

LEMMA NotifyOK ==
    ASSUME TypeOK, NEW c \in Cameras, NotifyAll(c)
    PROVE  ProcessorsOK'
  <1>1. CASE At(c, "waiting")
    <2>1. ~At(c, "pop")
      BY <1>1 DEF At
    <2>. QED BY <1>1, <2>1, GotoOK DEF NotifyAll, ProcessorPc
  <1>2. CASE ~At(c, "waiting")
    BY <1>2 DEF NotifyAll, TypeOK, ProcessorsOK, At
  <1>. QED BY <1>1, <1>2

LEMMA NextResultOK ==
    ASSUME TypeOK, NEW d \in Detectors, detector[d].batch # <<>>, NextResult(d)
    PROVE  DetectorsOK'
  <1>. DEFINE b == detector[d].batch
  <1>1. b \in Seq(Frame) /\ b # <<>> /\ Len(b) <= MaxBatch
    BY DEF TypeOK, DetectorsOK
  <1>2. /\ Tail(b) \in Seq(Frame)
        /\ Len(Tail(b)) < MaxBatch
        /\ Len(Tail(b)) <= MaxBatch
        /\ Len(b) # 1 => Tail(b) # <<>>
    <2>. HIDE DEF b
    <2>. QED BY <1>1, TailFacts, PipelineAssumption
  <1>3. detector' = [detector EXCEPT ![d] =
            [pc |-> IF Len(detector[d].batch) = 1 THEN "pop" ELSE "answer",
             batch |-> Tail(detector[d].batch)]]
    BY DEF NextResult, TypeOK, DetectorsOK
  <1>. QED BY <1>1, <1>2, <1>3 DEF TypeOK, DetectorsOK, DetectorPc

LEMMA ProcessorTypeOK ==
    ASSUME TypeOK, NEW c \in Cameras, CaptureNext(c) \/ ProcessorNext(c)
    PROVE  TypeOK'
  <1>. USE DEF queueVars, frameVars, threadVars, historyVars
  <1>u. /\ UNCHANGED <<detector, lpDetector>> => DetectorsOK' /\ LPDetectorsOK'
        /\ UNCHANGED processor => ProcessorsOK'
        /\ UNCHANGED queueVars => QueuesOK'
        /\ UNCHANGED <<predictMode, frameVars, historyVars>> => FramesOK'
    BY DEF TypeOK, DetectorsOK, LPDetectorsOK, ProcessorsOK, QueuesOK, FramesOK, At
  <1>1. CASE CaptureFrame(c)
    <2>. DEFINE f == [camera |-> c, index |-> captured[c]]
    <2>1. captured[c] \in Nat /\ frameQueue[c] \in Seq(Frame) /\ f \in Frame
      BY <1>1, FrameFacts DEF CaptureFrame, TypeOK, QueuesOK
    <2>2. /\ Append(frameQueue[c], f) \in Seq(Frame)
          /\ Len(Append(frameQueue[c], f)) <= FrameQueueCap
          /\ \A i \in 1 .. Len(Append(frameQueue[c], f)) : Append(frameQueue[c], f)[i].camera = c
      <3>1. Len(frameQueue[c]) < FrameQueueCap
            /\ \A i \in 1 .. Len(frameQueue[c]) : frameQueue[c][i].camera = c
        BY <1>1 DEF CaptureFrame, TypeOK, QueuesOK
      <3>. HIDE DEF f
      <3>2. f.camera = c
        BY DEF f
      <3>3. Append(frameQueue[c], f) \in Seq(Frame)
            /\ Len(Append(frameQueue[c], f)) = Len(frameQueue[c]) + 1
        BY <2>1, AppendFacts
      <3>4. \A i \in 1 .. Len(frameQueue[c]) + 1 : Append(frameQueue[c], f)[i].camera = c
        <4>. SUFFICES ASSUME NEW i \in 1 .. Len(frameQueue[c]) + 1
                      PROVE  Append(frameQueue[c], f)[i].camera = c
          OBVIOUS
        <4>1. Append(frameQueue[c], f)[i]
                = IF i = Len(frameQueue[c]) + 1 THEN f ELSE frameQueue[c][i]
          BY <2>1, AppendFacts
        <4>2. Len(frameQueue[c]) \in Nat
          BY <2>1
        <4>3. i # Len(frameQueue[c]) + 1 => i \in 1 .. Len(frameQueue[c])
          BY <4>2
        <4>. QED BY <3>1, <3>2, <4>1, <4>3
      <3>5. Len(frameQueue[c]) + 1 <= FrameQueueCap
        BY <2>1, <3>1, PipelineAssumption
      <3>. QED BY <3>3, <3>4, <3>5
    <2>3. captured[c] + 1 <= MaxFrames[c] /\ captured[c] + 1 \in Nat
      BY <1>1, <2>1, PipelineAssumption DEF CaptureFrame
    <2>4. QueuesOK'
      BY <1>1, <2>2, <2>3 DEF CaptureFrame, TypeOK, QueuesOK
    <2>. QED BY <1>1, <1>u, <2>4 DEF CaptureFrame, TypeOK
  <1>2. CASE SkipFrame(c)
    <2>1. captured[c] \in Nat /\ captured[c] + 1 <= MaxFrames[c] /\ captured[c] + 1 \in Nat
      <3>1. captured[c] \in Nat /\ captured[c] < MaxFrames[c]
        BY <1>2 DEF SkipFrame, TypeOK, QueuesOK
      <3>. QED BY <3>1, PipelineAssumption
    <2>2. /\ captured' \in [Cameras -> Nat]
          /\ \A e \in Cameras : captured'[e] <= MaxFrames[e]
      BY <1>2, <2>1 DEF SkipFrame, TypeOK, QueuesOK
    <2>3. QueuesOK'
      BY <1>2, <2>2 DEF SkipFrame, TypeOK, QueuesOK
    <2>. QED BY <1>2, <1>u, <2>3 DEF SkipFrame, TypeOK
  <1>3. CASE PopFrame(c)
    <2>1. frameQueue[c] \in Seq(Frame) /\ frameQueue[c] # <<>>
          /\ \A i \in 1 .. Len(frameQueue[c]) : frameQueue[c][i].camera = c
      BY <1>3 DEF PopFrame, TypeOK, QueuesOK
    <2>2. /\ Head(frameQueue[c]) \in Frame /\ Head(frameQueue[c]).camera = c
          /\ Tail(frameQueue[c]) \in Seq(Frame)
          /\ Len(Tail(frameQueue[c])) <= FrameQueueCap
          /\ \A i \in 1 .. Len(Tail(frameQueue[c])) : Tail(frameQueue[c])[i].camera = c
      BY <2>1, TailFacts, PipelineAssumption DEF TypeOK, QueuesOK
    <2>3. QueuesOK'
      BY <1>3, <2>2 DEF PopFrame, TypeOK, QueuesOK
    <2>4. FramesOK'
      BY <1>3, PipelineAssumption DEF PopFrame, TypeOK, FramesOK
    <2>5. ProcessorsOK'
      BY <1>3, <2>2 DEF PopFrame, TypeOK, ProcessorsOK, IdleProcessor, ProcessorPc, Stage, At
    <2>. QED BY <1>3, <1>u, <2>3, <2>4, <2>5 DEF PopFrame, TypeOK
  <1>4. CASE SubmitFrame(c)
    <2>. DEFINE s == processor[c].stage  f == processor[c].frame
    <2>1. s \in Stage /\ f \in Frame /\ ~At(c, "pop")
      BY <1>4 DEF SubmitFrame, TypeOK, ProcessorsOK, At
    <2>2. inQueue[s] \in Seq(Frame) /\ Len(inQueue[s]) < StageCap[s]
      BY <1>4, <2>1 DEF SubmitFrame, TypeOK, QueuesOK
    <2>3. Append(inQueue[s], f) \in Seq(Frame) /\ Len(Append(inQueue[s], f)) <= StageCap[s]
      BY <2>1, <2>2, AppendFacts, StageFacts
    <2>4. QueuesOK'
      BY <1>4, <2>1, <2>3 DEF SubmitFrame, TypeOK, QueuesOK
    <2>5. ProcessorsOK'
      BY <1>4, <2>1, GotoOK DEF SubmitFrame, ProcessorPc
    <2>. QED BY <1>4, <1>u, <2>4, <2>5 DEF SubmitFrame, TypeOK
  <1>5. CASE RefuseFrame(c)
    <2>1. ProcessorsOK'
      BY <1>5 DEF RefuseFrame, TypeOK, ProcessorsOK, IdleProcessor, ProcessorPc, Stage, At
    <2>. QED BY <1>5, <1>u, <2>1 DEF RefuseFrame, TypeOK
  <1>6. CASE CheckProcessed(c)
    <2>1. ~At(c, "pop")
      BY <1>6 DEF CheckProcessed, At
    <2>2. ProcessorsOK'
      BY <1>6, <2>1, GotoOK DEF CheckProcessed, ProcessorPc
    <2>3. FramesOK'
      BY <1>6 DEF CheckProcessed, TypeOK, FramesOK
    <2>. QED BY <1>6, <1>u, <2>2, <2>3 DEF CheckProcessed, TypeOK
  <1>7. CASE BeginWait(c)
    <2>1. ~At(c, "pop")
      BY <1>7 DEF BeginWait, At
    <2>2. ProcessorsOK'
      BY <1>7, <2>1, GotoOK DEF BeginWait, ProcessorPc
    <2>. QED BY <1>7, <1>u, <2>2 DEF BeginWait, TypeOK
  <1>8. CASE WaitTimesOut(c)
    <2>1. ~At(c, "pop") /\ processor[c].frame \in Frame
      BY <1>8 DEF WaitTimesOut, TypeOK, ProcessorsOK, At
    <2>2. FramesOK'
      BY <1>8, <2>1 DEF WaitTimesOut, TypeOK, FramesOK
    <2>3. ProcessorsOK'
      <3>1. CASE predictMode = "pull"
        BY <1>8, <3>1 DEF WaitTimesOut, TypeOK, ProcessorsOK, IdleProcessor,
                          ProcessorPc, Stage, At
      <3>2. CASE predictMode # "pull"
        BY <1>8, <2>1, <3>2, GotoOK DEF WaitTimesOut, ProcessorPc
      <3>. QED BY <3>1, <3>2
    <2>. QED BY <1>8, <1>u, <2>2, <2>3 DEF WaitTimesOut, TypeOK
  <1>9. CASE ResetProcessed(c)
    <2>1. processor[c].frame \in Frame /\ processor[c].frame.camera = c
      BY <1>9 DEF ResetProcessed, TypeOK, ProcessorsOK, At
    <2>2. predictions[processor[c].frame] \in SUBSET Mark
      BY <2>1 DEF TypeOK, FramesOK
    <2>3. ProcessorsOK'
      <3>. DEFINE object == processor[c].stage = "object"
                  r == [processor[c] EXCEPT
                          !.pc = IF object THEN "track" ELSE "emit",
                          !.seen = IF object THEN predictions[processor[c].frame] ELSE {}]
      <3>1. processor[c] \in [pc : ProcessorPc, stage : Stage,
                              frame : Frame \cup {NoFrame}, seen : SUBSET Mark]
        BY DEF TypeOK, ProcessorsOK
      <3>2. /\ r \in [pc : ProcessorPc, stage : Stage,
                      frame : Frame \cup {NoFrame}, seen : SUBSET Mark]
            /\ r.frame = processor[c].frame
        BY <2>1, <2>2, <3>1 DEF ProcessorPc
      <3>3. processor' = [processor EXCEPT ![c] = r]
        BY <1>9, <3>1 DEF ResetProcessed, TypeOK, ProcessorsOK
      <3>. HIDE DEF r
      <3>. QED BY <2>1, <3>2, <3>3, StepOK
    <2>4. FramesOK'
      BY <1>9 DEF ResetProcessed, TypeOK, FramesOK
    <2>. QED BY <1>9, <1>u, <2>3, <2>4 DEF ResetProcessed, TypeOK
  <1>10. CASE TrackFrame(c)
    <2>1. processor[c].frame \in Frame /\ processor[c].frame.camera = c
      BY <1>10 DEF TrackFrame, TypeOK, ProcessorsOK, At
    <2>2. FramesOK'
      BY <1>10, <2>1 DEF TrackFrame, TypeOK, FramesOK, Mark
    <2>3. ProcessorsOK'
      <3>. DEFINE r == [processor[c] EXCEPT !.pc = "push", !.stage = "lp", !.seen = {}]
      <3>1. processor[c] \in [pc : ProcessorPc, stage : Stage,
                              frame : Frame \cup {NoFrame}, seen : SUBSET Mark]
        BY DEF TypeOK, ProcessorsOK
      <3>2. /\ r \in [pc : ProcessorPc, stage : Stage,
                      frame : Frame \cup {NoFrame}, seen : SUBSET Mark]
            /\ r.frame = processor[c].frame
        BY <2>1, <3>1 DEF ProcessorPc, Stage
      <3>3. processor' = [processor EXCEPT ![c] = r]
        BY <1>10, <3>1 DEF TrackFrame, TypeOK, ProcessorsOK
      <3>. HIDE DEF r
      <3>. QED BY <2>1, <3>2, <3>3, StepOK
    <2>. QED BY <1>10, <1>u, <2>2, <2>3 DEF TrackFrame, TypeOK
  <1>11. CASE EmitFrame(c)
    <2>. DEFINE f == processor[c].frame
    <2>1. f \in Frame /\ trackedQueue \in Seq(Frame) /\ delivered[c] \in Seq(Frame)
      BY <1>11 DEF EmitFrame, TypeOK, ProcessorsOK, QueuesOK, FramesOK, At
    <2>2. /\ Append(trackedQueue, f) \in Seq(Frame) /\ Append(delivered[c], f) \in Seq(Frame)
          /\ Len(trackedQueue) < TrackedQueueCap => Len(Append(trackedQueue, f)) <= TrackedQueueCap
      BY <2>1, AppendFacts, PipelineAssumption
    <2>3. QueuesOK'
      BY <1>11, <2>2 DEF EmitFrame, TypeOK, QueuesOK
    <2>4. FramesOK'
      BY <1>11, <2>2 DEF EmitFrame, TypeOK, FramesOK
    <2>5. ProcessorsOK'
      BY <1>11 DEF EmitFrame, TypeOK, ProcessorsOK, IdleProcessor, ProcessorPc, Stage, At
    <2>. QED BY <1>11, <1>u, <2>3, <2>4, <2>5 DEF EmitFrame, TypeOK
  <1>. QED BY <1>1, <1>2, <1>3, <1>4, <1>5, <1>6, <1>7, <1>8, <1>9, <1>10, <1>11
           DEF CaptureNext, ProcessorNext

LEMMA DetectorTypeOK ==
    ASSUME TypeOK, NEW d \in Detectors, DetectorNext(d) \/ DetectorFail(d)
    PROVE  TypeOK'
  <1>. USE DEF queueVars, frameVars, threadVars, historyVars
  <1>. DEFINE b == detector[d].batch
  <1>u. /\ UNCHANGED lpDetector => LPDetectorsOK'
        /\ UNCHANGED processor => ProcessorsOK'
        /\ UNCHANGED queueVars => QueuesOK'
        /\ UNCHANGED <<predictMode, frameVars, historyVars>> => FramesOK'
    BY DEF TypeOK, LPDetectorsOK, ProcessorsOK, QueuesOK, FramesOK, At
  <1>b. /\ detector[d] \in [pc : DetectorPc, batch : Seq(Frame)]
        /\ b \in Seq(Frame) /\ Len(b) <= MaxBatch
        /\ detector[d].pc \in {"answer", "add", "flag", "notify"} =>
                b # <<>> /\ Head(b) \in Frame /\ Head(b).camera \in Cameras
    <2>1. detector[d] \in [pc : DetectorPc, batch : Seq(Frame)] /\ Len(b) <= MaxBatch
          /\ (detector[d].pc \in {"answer", "add", "flag", "notify"} => b # <<>>)
      BY DEF TypeOK, DetectorsOK
    <2>. HIDE DEF b
    <2>2. b \in Seq(Frame)
      BY <2>1 DEF b
    <2>. QED BY <2>1, <2>2, TailFacts, FrameFacts
  <1>1. CASE DetectorPop(d)
    <2>. DEFINE q == inQueue["object"]
    <2>1. q \in Seq(Frame) /\ q # <<>> /\ Len(q) <= StageCap["object"] /\ Len(b) < MaxBatch
      BY <1>1, StageFacts DEF DetectorPop, TypeOK, QueuesOK, DetectorsOK
    <2>2. Head(q) \in Frame /\ Tail(q) \in Seq(Frame) /\ Len(Tail(q)) <= StageCap["object"]
      <3>. HIDE DEF q
      <3>. QED BY <2>1, TailFacts, StageFacts
    <2>3. Append(b, Head(q)) \in Seq(Frame) /\ Len(Append(b, Head(q))) <= MaxBatch
      <3>. HIDE DEF q, b
      <3>. QED BY <1>b, <2>1, <2>2, AppendFacts, PipelineAssumption
    <2>4. QueuesOK'
      BY <1>1, <2>2, StageFacts DEF DetectorPop, TypeOK, QueuesOK
    <2>5. DetectorsOK'
      <3>. DEFINE t == IF Head(q) \in expired THEN b ELSE Append(b, Head(q))
      <3>1. detector' = [detector EXCEPT ![d] = [pc |-> "more", batch |-> t]]
        BY <1>1, <1>b DEF DetectorPop, TypeOK, DetectorsOK
      <3>2. t \in Seq(Frame) /\ Len(t) <= MaxBatch
        BY <1>b, <2>3
      <3>. HIDE DEF t
      <3>. QED BY <3>1, <3>2 DEF TypeOK, DetectorsOK, DetectorPc
    <2>. QED BY <1>1, <1>u, <2>4, <2>5 DEF DetectorPop, TypeOK
  <1>2. CASE DetectorMore(d)
    <2>1. Len(b) < MaxBatch
      <3>1. b = <<>> \/ Len(b) < MaxBatch
        BY <1>2 DEF DetectorMore
      <3>. QED BY <3>1, PipelineAssumption
    <2>2. DetectorsOK'
      BY <1>2, <1>b, <2>1 DEF DetectorMore, TypeOK, DetectorsOK, DetectorPc
    <2>. QED BY <1>2, <1>u, <2>2 DEF DetectorMore, TypeOK
  <1>3. CASE DetectorInfer(d)
    <2>1. DetectorsOK'
      BY <1>3, <1>b DEF DetectorInfer, BatchComplete, TypeOK, DetectorsOK, DetectorPc
    <2>. QED BY <1>3, <1>u, <2>1 DEF DetectorInfer, TypeOK
  <1>4. CASE DetectorFail(d)
    <2>1. DetectorsOK'
      BY <1>4, PipelineAssumption DEF DetectorFail, TypeOK, DetectorsOK, DetectorPc
    <2>. QED BY <1>4, <1>u, <2>1 DEF DetectorFail, TypeOK
  <1>5. CASE DetectorCheckExpired(d)
    <2>1. CASE Head(b) \in expired
      BY <1>5, <1>b, <1>u, <2>1, NextResultOK DEF DetectorCheckExpired, TypeOK
    <2>2. CASE Head(b) \notin expired
      <3>0. detector' = [detector EXCEPT ![d] = [pc |-> "add", batch |-> b]] /\ b # <<>>
        BY <1>5, <1>b, <2>2 DEF DetectorCheckExpired, TypeOK, DetectorsOK
      <3>1. DetectorsOK'
        BY <1>b, <3>0 DEF TypeOK, DetectorsOK, DetectorPc
      <3>. QED BY <1>5, <1>u, <3>1 DEF DetectorCheckExpired, TypeOK
    <2>. QED BY <2>1, <2>2
  <1>6. CASE DetectorAdd(d)
    <2>1. FramesOK'
      BY <1>6, <1>b DEF DetectorAdd, TypeOK, FramesOK, Mark
    <2>2. DetectorsOK'
      BY <1>6, <1>b DEF DetectorAdd, TypeOK, DetectorsOK, DetectorPc
    <2>. QED BY <1>6, <1>u, <2>1, <2>2 DEF DetectorAdd, TypeOK
  <1>7. CASE DetectorFlag(d)
    <2>1. FramesOK'
      BY <1>7, <1>b DEF DetectorFlag, TypeOK, FramesOK
    <2>2. DetectorsOK'
      BY <1>7, <1>b DEF DetectorFlag, TypeOK, DetectorsOK, DetectorPc
    <2>. QED BY <1>7, <1>u, <2>1, <2>2 DEF DetectorFlag, TypeOK
  <1>8. CASE DetectorNotify(d)
    <2>1. ProcessorsOK' /\ DetectorsOK'
      BY <1>8, <1>b, NotifyOK, NextResultOK DEF DetectorNotify
    <2>. QED BY <1>8, <1>u, <2>1 DEF DetectorNotify, TypeOK
  <1>. QED BY <1>1, <1>2, <1>3, <1>4, <1>5, <1>6, <1>7, <1>8 DEF DetectorNext

LEMMA LPTypeOK ==
    ASSUME TypeOK, NEW l \in LPDetectors, LPNext(l) \/ LPFail(l)
    PROVE  TypeOK'
  <1>. USE DEF queueVars, frameVars, threadVars, historyVars
  <1>. DEFINE f == lpDetector[l].frame
  <1>u. /\ UNCHANGED detector => DetectorsOK'
        /\ UNCHANGED processor => ProcessorsOK'
        /\ UNCHANGED queueVars => QueuesOK'
        /\ UNCHANGED <<predictMode, frameVars, historyVars>> => FramesOK'
    BY DEF TypeOK, DetectorsOK, ProcessorsOK, QueuesOK, FramesOK, At
  <1>f. lpDetector[l].pc \in {"infer", "flag", "notify"} =>
            f \in Frame /\ f.camera \in Cameras
    BY FrameFacts DEF TypeOK, LPDetectorsOK
  <1>1. CASE LPPop(l)
    <2>. DEFINE q == inQueue["lp"]
    <2>1. q \in Seq(Frame) /\ q # <<>> /\ Len(q) <= StageCap["lp"]
      BY <1>1, StageFacts DEF LPPop, TypeOK, QueuesOK
    <2>2. Head(q) \in Frame /\ Tail(q) \in Seq(Frame) /\ Len(Tail(q)) <= StageCap["lp"]
      <3>. HIDE DEF q
      <3>. QED BY <2>1, TailFacts, StageFacts
    <2>3. predictions[Head(q)] \in SUBSET Mark
      BY <2>2 DEF TypeOK, FramesOK
    <2>4. QueuesOK'
      BY <1>1, <2>2, StageFacts DEF LPPop, TypeOK, QueuesOK
    <2>5. LPDetectorsOK'
      <3>1. CASE Head(q) \in expired
        BY <1>1, <3>1 DEF LPPop, TypeOK, LPDetectorsOK
      <3>2. CASE Head(q) \notin expired
        BY <1>1, <2>2, <2>3, <3>2 DEF LPPop, TypeOK, LPDetectorsOK, LPDetectorPc
      <3>. QED BY <3>1, <3>2
    <2>. QED BY <1>1, <1>u, <2>4, <2>5 DEF LPPop, TypeOK
  <1>2. CASE LPDetect(l)
    <2>1. FramesOK'
      <3>1. lpDetector[l].seen \cup {"plates"} \in SUBSET Mark
        BY DEF TypeOK, LPDetectorsOK, Mark
      <3>. QED BY <1>2, <1>f, <3>1 DEF LPDetect, TypeOK, FramesOK
    <2>2. LPDetectorsOK'
      <3>1. CASE f \in expired
        BY <1>2, <3>1 DEF LPDetect, TypeOK, LPDetectorsOK, LPDetectorPc, IdleLPDetector
      <3>2. CASE f \notin expired
        BY <1>2, <1>f, <3>2 DEF LPDetect, TypeOK, LPDetectorsOK, LPDetectorPc
      <3>. QED BY <3>1, <3>2
    <2>. QED BY <1>2, <1>u, <2>1, <2>2 DEF LPDetect, TypeOK
  <1>3. CASE LPFail(l)
    <2>1. LPDetectorsOK'
      BY <1>3 DEF LPFail, TypeOK, LPDetectorsOK, LPDetectorPc, IdleLPDetector
    <2>. QED BY <1>3, <1>u, <2>1 DEF LPFail, TypeOK
  <1>4. CASE LPFlag(l)
    <2>1. FramesOK'
      BY <1>4, <1>f DEF LPFlag, TypeOK, FramesOK
    <2>2. LPDetectorsOK'
      BY <1>4, <1>f DEF LPFlag, TypeOK, LPDetectorsOK, LPDetectorPc
    <2>. QED BY <1>4, <1>u, <2>1, <2>2 DEF LPFlag, TypeOK
  <1>5. CASE LPNotify(l)
    <2>1. ProcessorsOK'
      BY <1>5, <1>f, NotifyOK DEF LPNotify
    <2>2. LPDetectorsOK'
      BY <1>5 DEF LPNotify, TypeOK, LPDetectorsOK, LPDetectorPc, IdleLPDetector
    <2>. QED BY <1>5, <1>u, <2>1, <2>2 DEF LPNotify, TypeOK
  <1>. QED BY <1>1, <1>2, <1>3, <1>4, <1>5 DEF LPNext

LEMMA NextTypeOK == TypeOK /\ [Next]_vars => TypeOK'
  <1>. SUFFICES ASSUME TypeOK, [Next]_vars PROVE TypeOK'
    OBVIOUS
  <1>1. ASSUME NEW c \in Cameras, CaptureNext(c) \/ ProcessorNext(c) PROVE TypeOK'
    BY <1>1, ProcessorTypeOK
  <1>2. ASSUME NEW d \in Detectors, DetectorNext(d) \/ DetectorFail(d) PROVE TypeOK'
    BY <1>2, DetectorTypeOK
  <1>3. ASSUME NEW l \in LPDetectors, LPNext(l) \/ LPFail(l) PROVE TypeOK'
    BY <1>3, LPTypeOK
  <1>4. CASE ConsumeTracked
    <2>1. Tail(trackedQueue) \in Seq(Frame) /\ Len(Tail(trackedQueue)) <= TrackedQueueCap
      BY <1>4, TailFacts, PipelineAssumption DEF ConsumeTracked, TypeOK, QueuesOK
    <2>2. QueuesOK'
      BY <1>4, <2>1 DEF ConsumeTracked, TypeOK, QueuesOK
    <2>. QED BY <1>4, <2>2 DEF ConsumeTracked, TypeOK, FramesOK, ProcessorsOK, DetectorsOK,
                LPDetectorsOK, At, frameVars, threadVars, historyVars
  <1>5. CASE UNCHANGED vars
    BY <1>5 DEF TypeOK, QueuesOK, FramesOK, ProcessorsOK, DetectorsOK, LPDetectorsOK, At,
                vars, queueVars, frameVars, threadVars, historyVars
  <1>. QED BY <1>1, <1>2, <1>3, <1>4, <1>5 DEF Next, Rest

(***************************************************************************)
(* The pipeline's state keeps its shape: queues within their capacities,   *)
(* flags of real frames, every busy thread holding a frame.                *)
(***************************************************************************)
THEOREM TypeCorrect == Spec => []TypeOK
  BY InitTypeOK, NextTypeOK, PTL DEF Spec
-----------------------------------------------------------------------------
(* The pipeline implements the lossy FIFO.                                 *)

\* A frame in the processor's hands is the head of what waits.
LEMMA WaitingFacts ==
    ASSUME NEW p \in Frame, NEW q \in Seq(Frame)
    PROVE  /\ <<p>> \o q \in Seq(Frame)
           /\ <<p>> \o q # <<>>
           /\ Head(<<p>> \o q) = p
           /\ Tail(<<p>> \o q) = q
           /\ \A f \in Frame : <<p>> \o Append(q, f) = Append(<<p>> \o q, f)
           /\ q # <<>> => <<Head(q)>> \o Tail(q) = q
  <1>1. <<p>> \o q \in Seq(Frame) /\ Len(<<p>> \o q) = Len(q) + 1 /\ Len(q) \in Nat
    OBVIOUS
  <1>2. <<p>> \o q # <<>>
    BY <1>1
  <1>3. (<<p>> \o q)[1] = p /\ \A i \in 1 .. Len(q) : (<<p>> \o q)[i + 1] = q[i]
    OBVIOUS
  <1>4. Head(<<p>> \o q) = p
    BY <1>1, <1>2, <1>3
  <1>5. Tail(<<p>> \o q) = q
    <2>1. Tail(<<p>> \o q) \in Seq(Frame) /\ Len(Tail(<<p>> \o q)) = Len(q)
      BY <1>1, <1>2
    <2>2. \A i \in 1 .. Len(q) : Tail(<<p>> \o q)[i] = q[i]
      BY <1>1, <1>2, <1>3
    <2>. QED BY <2>1, <2>2
  <1>6. \A f \in Frame : <<p>> \o Append(q, f) = Append(<<p>> \o q, f)
    OBVIOUS
  <1>7. q # <<>> => <<Head(q)>> \o Tail(q) = q
    OBVIOUS
  <1>. QED BY <1>1, <1>2, <1>4, <1>5, <1>6, <1>7

WaitingMap == [c \in Cameras |-> Waiting(c)]

\* A step that moves no frame in or out of what waits is a stutter.
LEMMA SameWaiting ==
    ASSUME frameQueue' = frameQueue, captured' = captured, delivered' = delivered,
           \A c \in Cameras : /\ At(c, "pop")' <=> At(c, "pop")
                              /\ ~At(c, "pop") => processor'[c].frame = processor[c].frame
    PROVE  UNCHANGED Flow!flowVars
  <1>1. ASSUME NEW c \in Cameras PROVE Waiting(c)' = Waiting(c)
    <2>1. CASE At(c, "pop")
      BY <2>1 DEF Waiting
    <2>2. CASE ~At(c, "pop")
      BY <2>2 DEF Waiting
    <2>. QED BY <2>1, <2>2
  <1>2. WaitingMap' = WaitingMap
    BY <1>1 DEF WaitingMap
  <1>. QED BY <1>2 DEF WaitingMap, Flow!flowVars

\* A processor that comes back to "pop" lets the head of its frames go.
LEMMA LeaveWaiting ==
    ASSUME TypeOK, NEW c \in Cameras, ~At(c, "pop"),
           processor' = [processor EXCEPT ![c] = IdleProcessor], frameQueue' = frameQueue
    PROVE  /\ WaitingMap[c] # <<>>
           /\ Head(WaitingMap[c]) = processor[c].frame
           /\ WaitingMap' = [WaitingMap EXCEPT ![c] = Tail(@)]
  <1>1. processor[c].frame \in Frame /\ frameQueue[c] \in Seq(Frame)
    BY DEF TypeOK, ProcessorsOK, QueuesOK
  <1>2. WaitingMap[c] = <<processor[c].frame>> \o frameQueue[c]
    BY DEF WaitingMap, Waiting
  <1>3. WaitingMap[c] # <<>> /\ Head(WaitingMap[c]) = processor[c].frame
        /\ Tail(WaitingMap[c]) = frameQueue[c]
    BY <1>1, <1>2, WaitingFacts
  <1>4. Waiting(c)' = frameQueue[c]
    BY DEF TypeOK, ProcessorsOK, Waiting, At, IdleProcessor
  <1>5. \A e \in Cameras \ {c} : Waiting(e)' = Waiting(e)
    BY DEF TypeOK, ProcessorsOK, Waiting, At
  <1>6. WaitingMap' = [WaitingMap EXCEPT ![c] = frameQueue[c]]
    BY <1>4, <1>5 DEF WaitingMap
  <1>. QED BY <1>3, <1>6

LEMMA FlowInit == Init => Flow!Init
  BY DEF Init, Flow!Init, Waiting, At, IdleProcessor

LEMMA FlowCapture ==
    ASSUME TypeOK, NEW c \in Cameras, CaptureFrame(c)
    PROVE  Flow!Arrive(c)
  <1>. DEFINE f == [camera |-> c, index |-> captured[c]]
  <1>1. f \in Frame /\ frameQueue[c] \in Seq(Frame)
    BY FrameFacts DEF CaptureFrame, TypeOK, QueuesOK
  <1>2. Waiting(c)' = Append(Waiting(c), f)
    <2>1. frameQueue'[c] = Append(frameQueue[c], f) /\ processor' = processor
      BY DEF CaptureFrame, TypeOK, QueuesOK, threadVars
    <2>2. CASE At(c, "pop")
      BY <2>1, <2>2 DEF Waiting, At
    <2>3. CASE ~At(c, "pop")
      <3>1. processor[c].frame \in Frame
        BY <2>3 DEF TypeOK, ProcessorsOK
      <3>2. Waiting(c)' = <<processor[c].frame>> \o Append(frameQueue[c], f)
        BY <2>1, <2>3 DEF Waiting, At
      <3>3. Waiting(c) = <<processor[c].frame>> \o frameQueue[c]
        BY <2>3 DEF Waiting
      <3>. HIDE DEF f
      <3>. QED BY <1>1, <3>1, <3>2, <3>3, WaitingFacts
    <2>. QED BY <2>2, <2>3
  <1>3. \A e \in Cameras \ {c} : Waiting(e)' = Waiting(e)
    BY DEF CaptureFrame, TypeOK, QueuesOK, threadVars, Waiting, At
  <1>4. WaitingMap' = [WaitingMap EXCEPT ![c] = Append(@, f)]
    BY <1>2, <1>3 DEF WaitingMap
  <1>. QED BY <1>4 DEF WaitingMap, Flow!Arrive, Flow!FrameOf, CaptureFrame, historyVars

LEMMA FlowPop ==
    ASSUME TypeOK, NEW c \in Cameras, PopFrame(c)
    PROVE  UNCHANGED Flow!flowVars
  <1>1. frameQueue[c] \in Seq(Frame) /\ frameQueue[c] # <<>> /\ At(c, "pop")
    BY DEF PopFrame, TypeOK, QueuesOK
  <1>2. Waiting(c)' = <<Head(frameQueue[c])>> \o Tail(frameQueue[c])
    BY <1>1 DEF PopFrame, TypeOK, ProcessorsOK, QueuesOK, Waiting, At, IdleProcessor
  <1>3. Waiting(c)' = Waiting(c)
    <2>1. <<Head(frameQueue[c])>> \o Tail(frameQueue[c]) = frameQueue[c]
      BY <1>1, TailFacts, WaitingFacts
    <2>. QED BY <1>1, <1>2, <2>1 DEF Waiting
  <1>4. \A e \in Cameras \ {c} : Waiting(e)' = Waiting(e)
    BY DEF PopFrame, TypeOK, ProcessorsOK, QueuesOK, Waiting, At
  <1>5. WaitingMap' = WaitingMap
    BY <1>3, <1>4 DEF WaitingMap
  <1>. QED BY <1>5 DEF WaitingMap, Flow!flowVars, PopFrame, historyVars

\* Steps of camera c's processor between pop and the end of its loop.
LEMMA FlowGoto ==
    ASSUME TypeOK, NEW c \in Cameras, NEW pc, pc # "pop", ~At(c, "pop"), Goto(c, pc),
           frameQueue' = frameQueue, captured' = captured, delivered' = delivered
    PROVE  UNCHANGED Flow!flowVars
  <1>1. \A e \in Cameras : /\ At(e, "pop")' <=> At(e, "pop")
                           /\ ~At(e, "pop") => processor'[e].frame = processor[e].frame
    BY DEF Goto, At, TypeOK, ProcessorsOK
  <1>. QED BY <1>1, SameWaiting

LEMMA FlowNotify ==
    ASSUME TypeOK, NEW c \in Cameras, NotifyAll(c),
           frameQueue' = frameQueue, captured' = captured, delivered' = delivered
    PROVE  UNCHANGED Flow!flowVars
  <1>1. CASE At(c, "waiting")
    <2>1. ~At(c, "pop")
      BY <1>1 DEF At
    <2>. QED BY <1>1, <2>1, FlowGoto DEF NotifyAll
  <1>2. CASE ~At(c, "waiting")
    BY <1>2, SameWaiting DEF NotifyAll, At
  <1>. QED BY <1>1, <1>2

LEMMA FlowProcessor ==
    ASSUME TypeOK, NEW c \in Cameras, ProcessorNext(c)
    PROVE  Flow!Drop(c) \/ Flow!Deliver(c) \/ UNCHANGED Flow!flowVars
  <1>. USE DEF queueVars, frameVars, historyVars
  <1>1. CASE PopFrame(c)
    BY <1>1, FlowPop
  <1>2. CASE SubmitFrame(c)
    BY <1>2, FlowGoto DEF SubmitFrame, At
  <1>3. CASE RefuseFrame(c)
    <2>1. ~At(c, "pop")
      BY <1>3 DEF RefuseFrame, At
    <2>. QED BY <1>3, <2>1, LeaveWaiting DEF RefuseFrame, WaitingMap, Flow!Drop
  <1>4. CASE CheckProcessed(c)
    BY <1>4, FlowGoto DEF CheckProcessed, At
  <1>5. CASE BeginWait(c)
    BY <1>5, FlowGoto DEF BeginWait, At
  <1>6. CASE WaitTimesOut(c)
    <2>1. ~At(c, "pop")
      BY <1>6 DEF WaitTimesOut, At
    <2>2. CASE predictMode = "pull"
      BY <1>6, <2>1, <2>2, LeaveWaiting DEF WaitTimesOut, WaitingMap, Flow!Drop
    <2>3. CASE predictMode # "pull"
      BY <1>6, <2>1, <2>3, FlowGoto DEF WaitTimesOut
    <2>. QED BY <2>2, <2>3
  <1>7. CASE ResetProcessed(c)
    <2>1. \A e \in Cameras : /\ At(e, "pop")' <=> At(e, "pop")
                             /\ ~At(e, "pop") => processor'[e].frame = processor[e].frame
      BY <1>7 DEF ResetProcessed, At, TypeOK, ProcessorsOK
    <2>. QED BY <1>7, <2>1, SameWaiting DEF ResetProcessed
  <1>8. CASE TrackFrame(c)
    <2>1. \A e \in Cameras : /\ At(e, "pop")' <=> At(e, "pop")
                             /\ ~At(e, "pop") => processor'[e].frame = processor[e].frame
      BY <1>8 DEF TrackFrame, At, TypeOK, ProcessorsOK
    <2>. QED BY <1>8, <2>1, SameWaiting DEF TrackFrame
  <1>9. CASE EmitFrame(c)
    <2>1. ~At(c, "pop")
      BY <1>9 DEF EmitFrame, At
    <2>2. CASE Len(trackedQueue) < TrackedQueueCap
      BY <1>9, <2>1, <2>2, LeaveWaiting DEF EmitFrame, WaitingMap, Flow!Deliver
    <2>3. CASE ~(Len(trackedQueue) < TrackedQueueCap)
      BY <1>9, <2>1, <2>3, LeaveWaiting DEF EmitFrame, WaitingMap, Flow!Drop
    <2>. QED BY <2>2, <2>3
  <1>. QED BY <1>1, <1>2, <1>3, <1>4, <1>5, <1>6, <1>7, <1>8, <1>9 DEF ProcessorNext

LEMMA FlowWorkers ==
    ASSUME TypeOK,
           \/ \E d \in Detectors : DetectorNext(d) \/ DetectorFail(d)
           \/ \E l \in LPDetectors : LPNext(l) \/ LPFail(l)
    PROVE  UNCHANGED Flow!flowVars
  <1>. USE DEF queueVars, historyVars
  <1>1. ASSUME NEW d \in Detectors, DetectorNotify(d) PROVE UNCHANGED Flow!flowVars
    <2>. DEFINE b == detector[d].batch
    <2>1. b \in Seq(Frame) /\ b # <<>>
      BY <1>1 DEF DetectorNotify, TypeOK, DetectorsOK
    <2>2. Head(b).camera \in Cameras
      <3>. HIDE DEF b
      <3>. QED BY <2>1, TailFacts, FrameFacts
    <2>. QED BY <1>1, <2>2, FlowNotify DEF DetectorNotify
  <1>2. ASSUME NEW l \in LPDetectors, LPNotify(l) PROVE UNCHANGED Flow!flowVars
    <2>1. lpDetector[l].frame.camera \in Cameras
      BY <1>2, FrameFacts DEF LPNotify, TypeOK, LPDetectorsOK
    <2>. QED BY <1>2, <2>1, FlowNotify DEF LPNotify
  <1>3. ASSUME UNCHANGED <<captured, frameQueue, processor, delivered>>
        PROVE  UNCHANGED Flow!flowVars
    BY <1>3, SameWaiting DEF At
  <1>4. ASSUME NEW d \in Detectors, DetectorNext(d) \/ DetectorFail(d), ~DetectorNotify(d)
        PROVE  UNCHANGED <<captured, frameQueue, processor, delivered>>
    BY <1>4 DEF DetectorNext, DetectorPop, DetectorMore, DetectorInfer, DetectorCheckExpired,
                DetectorAdd, DetectorFlag, DetectorFail
  <1>5. ASSUME NEW l \in LPDetectors, LPNext(l) \/ LPFail(l), ~LPNotify(l)
        PROVE  UNCHANGED <<captured, frameQueue, processor, delivered>>
    BY <1>5 DEF LPNext, LPPop, LPDetect, LPFlag, LPFail
  <1>. QED BY <1>1, <1>2, <1>3, <1>4, <1>5

LEMMA FlowStep == TypeOK /\ [Next]_vars => [Flow!Next]_Flow!flowVars
  <1>. SUFFICES ASSUME TypeOK, [Next]_vars PROVE [Flow!Next]_Flow!flowVars
    OBVIOUS
  <1>1. ASSUME NEW c \in Cameras, CaptureFrame(c) PROVE Flow!Next
    BY <1>1, FlowCapture DEF Flow!Next
  <1>2. ASSUME NEW c \in Cameras, SkipFrame(c) PROVE Flow!Next
    <2>1. WaitingMap' = WaitingMap
      BY <1>2 DEF SkipFrame, WaitingMap, Waiting, At, threadVars
    <2>2. Flow!Skip(c)
      BY <1>2, <2>1 DEF SkipFrame, WaitingMap, historyVars, Flow!Skip
    <2>. QED BY <2>2 DEF Flow!Next
  <1>3. ASSUME NEW c \in Cameras, ProcessorNext(c) PROVE [Flow!Next]_Flow!flowVars
    BY <1>3, FlowProcessor DEF Flow!Next
  <1>4. CASE \/ \E d \in Detectors : DetectorNext(d) \/ DetectorFail(d)
             \/ \E l \in LPDetectors : LPNext(l) \/ LPFail(l)
    BY <1>4, FlowWorkers
  <1>5. CASE ConsumeTracked
    BY <1>5, SameWaiting DEF ConsumeTracked, At, threadVars, historyVars
  <1>6. CASE UNCHANGED vars
    BY <1>6, SameWaiting DEF vars, queueVars, threadVars, historyVars, At
  <1>. QED BY <1>1, <1>2, <1>3, <1>4, <1>5, <1>6 DEF Next, CaptureNext, Rest

(***************************************************************************)
(* Whatever the detector pools do, the pipeline is a lossy FIFO of every   *)
(* camera's frames.                                                        *)
(***************************************************************************)
THEOREM PipelineIsLossyFifo == Spec => LossyFifo
  <1>1. Spec => []TypeOK
    BY TypeCorrect
  <1>. QED BY <1>1, FlowInit, FlowStep, PTL DEF Spec, LossyFifo, Flow!Spec

FlowProofs == INSTANCE FrameFlowProofs WITH waiting <- [c \in Cameras |-> Waiting(c)]

LEMMA FlowInvStep ==
    FlowProofs!FlowInv /\ [Flow!Next]_Flow!flowVars => FlowProofs!FlowInv'
  <1>1. [Flow!Next]_Flow!flowVars => [FlowProofs!Next]_FlowProofs!flowVars
    BY DEF Flow!Next, Flow!Arrive, Flow!Skip, Flow!Drop, Flow!Deliver, Flow!FrameOf,
           Flow!flowVars, FlowProofs!Next, FlowProofs!Arrive, FlowProofs!Skip,
           FlowProofs!Drop, FlowProofs!Deliver, FlowProofs!FrameOf, FlowProofs!flowVars
  <1>. QED BY <1>1, FlowProofs!FlowNextInv

(***************************************************************************)
(* Frames of a camera reach the tracker and the event processor in capture *)
(* order and at most once: FrameFlow's theorem, carried over.              *)
(***************************************************************************)
THEOREM FramesReachTrackerInOrder == Spec => []FramesInOrder
  <1>1. Flow!Init => FlowProofs!FlowInv
    BY FlowProofs!FlowInitInv DEF Flow!Init, FlowProofs!Init
  <1>2. FlowProofs!FlowInv /\ [Flow!Next]_Flow!flowVars => FlowProofs!FlowInv'
    BY FlowInvStep
  <1>3. FlowProofs!FlowInv => FramesInOrder
    BY DEF FramesInOrder, FlowProofs!FlowInv, FlowProofs!InOrder, FlowProofs!Ascending,
           FlowProofs!Precedes, Flow!InOrder, Flow!Ascending, Flow!Precedes
  <1>. QED BY <1>1, <1>2, <1>3, PipelineIsLossyFifo, PTL DEF LossyFifo, Flow!Spec
-----------------------------------------------------------------------------
(* Expired frames.  A frame expires only at the head of what waits, and     *)
(* the order of frames then keeps it from ever coming back.                 *)

Gone(f) ==
    /\ f.index < captured[f.camera]
    /\ \A i \in 1 .. Len(WaitingMap[f.camera]) : WaitingMap[f.camera][i] # f
    /\ \A i \in 1 .. Len(delivered[f.camera]) : delivered[f.camera][i] # f

ExpiryInv == \A f \in expired : Gone(f)

\* The abstract invariant, read in terms of the pipeline.
LEMMA OrderFacts ==
    ASSUME FlowProofs!FlowInv, NEW c \in Cameras
    PROVE  /\ captured[c] \in Nat
           /\ WaitingMap[c] \in Seq([camera : Cameras, index : Nat])
           /\ delivered[c] \in Seq([camera : Cameras, index : Nat])
           /\ \A i \in 1 .. Len(WaitingMap[c]) : WaitingMap[c][i].index < captured[c]
           /\ \A i, j \in 1 .. Len(WaitingMap[c]) :
                    i < j => WaitingMap[c][i].index < WaitingMap[c][j].index
           /\ \A i \in 1 .. Len(delivered[c]), j \in 1 .. Len(WaitingMap[c]) :
                    delivered[c][i].index < WaitingMap[c][j].index
  BY DEF WaitingMap, FlowProofs!FlowInv, FlowProofs!FlowTypeOK, FlowProofs!Numbered,
         FlowProofs!InOrder, FlowProofs!Below, FlowProofs!Ascending, FlowProofs!Precedes

LEMMA TailElements ==
    ASSUME NEW S, NEW s \in Seq(S), s # <<>>
    PROVE  /\ Head(s) = s[1] /\ 1 \in 1 .. Len(s) /\ Head(s) \in S
           /\ \A i \in 1 .. Len(Tail(s)) : /\ Tail(s)[i] = s[i + 1]
                                           /\ i + 1 \in 1 .. Len(s)
                                           /\ 1 < i + 1
  <1>1. Len(s) \in Nat \ {0}
    OBVIOUS
  <1>2. Len(Tail(s)) = Len(s) - 1 /\ \A i \in 1 .. Len(s) - 1 : Tail(s)[i] = s[i + 1]
    BY <1>1
  <1>3. Head(s) = s[1] /\ s[1] \in S
    BY <1>1
  <1>. QED BY <1>1, <1>2, <1>3

LEMMA AppendOther ==
    ASSUME NEW S, NEW s \in Seq(S), NEW h \in S, NEW f, h # f,
           \A i \in 1 .. Len(s) : s[i] # f
    PROVE  \A i \in 1 .. Len(Append(s, h)) : Append(s, h)[i] # f
  OBVIOUS

\* A frame that is gone stays gone, whatever step the FIFO takes.
LEMMA GoneStays ==
    ASSUME FlowProofs!FlowInv, [Flow!Next]_Flow!flowVars, NEW f \in Frame, Gone(f)
    PROVE  Gone(f)'
  <1>. DEFINE c == f.camera
  <1>1. c \in Cameras /\ f.index \in Nat
    BY FrameFacts
  <1>2. /\ captured[c] \in Nat /\ f.index < captured[c]
        /\ WaitingMap[c] \in Seq([camera : Cameras, index : Nat])
        /\ delivered[c] \in Seq([camera : Cameras, index : Nat])
        /\ \A i \in 1 .. Len(WaitingMap[c]) : WaitingMap[c][i] # f
        /\ \A i \in 1 .. Len(delivered[c]) : delivered[c][i] # f
    BY <1>1, OrderFacts DEF Gone
  <1>3. captured \in [Cameras -> Nat] /\ delivered \in [Cameras -> Seq([camera : Cameras, index : Nat])]
    BY DEF FlowProofs!FlowInv, FlowProofs!FlowTypeOK, FlowProofs!Numbered
  <1>4. ASSUME NEW e \in Cameras, Flow!Arrive(e) PROVE Gone(f)'
    <2>1. /\ captured' = [captured EXCEPT ![e] = @ + 1]
          /\ WaitingMap' = [WaitingMap EXCEPT ![e] = Append(@, [camera |-> e, index |-> captured[e]])]
          /\ delivered' = delivered
      BY <1>4 DEF Flow!Arrive, Flow!FrameOf, WaitingMap
    <2>2. CASE e = c
      <3>1. [camera |-> c, index |-> captured[c]] # f
        BY <1>2
      <3>2. /\ captured'[c] = captured[c] + 1
            /\ WaitingMap'[c] = Append(WaitingMap[c], [camera |-> c, index |-> captured[c]])
        BY <1>1, <1>3, <2>1, <2>2 DEF WaitingMap
      <3>. DEFINE g == [camera |-> c, index |-> captured[c]]
      <3>3. g \in [camera : Cameras, index : Nat]
        BY <1>1, <1>2
      <3>4. \A i \in 1 .. Len(WaitingMap'[c]) : WaitingMap'[c][i] # f
        <4>. HIDE DEF g, c
        <4>. QED BY <1>2, <3>1, <3>2, <3>3 DEF g
      <3>. QED BY <1>1, <1>2, <2>1, <3>2, <3>4 DEF Gone
    <2>3. CASE e # c
      <3>1. captured'[c] = captured[c] /\ WaitingMap'[c] = WaitingMap[c]
        BY <1>1, <1>3, <2>1, <2>3 DEF WaitingMap
      <3>. QED BY <1>2, <2>1, <3>1 DEF Gone
    <2>. QED BY <2>2, <2>3
  <1>5. ASSUME NEW e \in Cameras, Flow!Skip(e) PROVE Gone(f)'
    <2>1. captured'[c] \in {captured[c], captured[c] + 1}
          /\ WaitingMap' = WaitingMap /\ delivered' = delivered
      BY <1>1, <1>3, <1>5 DEF Flow!Skip, WaitingMap
    <2>. QED BY <1>1, <1>2, <2>1 DEF Gone
  <1>6. ASSUME NEW e \in Cameras, Flow!Drop(e) \/ Flow!Deliver(e) PROVE Gone(f)'
    <2>1. /\ captured' = captured
          /\ WaitingMap[e] # <<>>
          /\ WaitingMap' = [WaitingMap EXCEPT ![e] = Tail(@)]
          /\ \/ delivered' = delivered
             \/ delivered' = [delivered EXCEPT ![e] = Append(@, Head(WaitingMap[e]))]
      BY <1>6 DEF Flow!Drop, Flow!Deliver, WaitingMap
    <2>2. CASE e = c
      <3>. DEFINE w == WaitingMap[c]  d == delivered[c]
      <3>1. /\ w # <<>> /\ WaitingMap'[c] = Tail(w)
            /\ delivered'[c] = d \/ delivered'[c] = Append(d, Head(w))
        BY <1>1, <1>3, <2>1, <2>2 DEF WaitingMap
      <3>2. /\ w \in Seq([camera : Cameras, index : Nat])
            /\ d \in Seq([camera : Cameras, index : Nat])
            /\ \A i \in 1 .. Len(w) : w[i] # f
            /\ \A i \in 1 .. Len(d) : d[i] # f
        BY <1>2
      <3>. HIDE DEF w, d, c
      <3>3. /\ Head(w) = w[1] /\ 1 \in 1 .. Len(w)
            /\ Head(w) \in [camera : Cameras, index : Nat]
            /\ \A i \in 1 .. Len(Tail(w)) : Tail(w)[i] = w[i + 1] /\ i + 1 \in 1 .. Len(w)
        BY <3>1, <3>2, TailElements
      <3>4. \A i \in 1 .. Len(Tail(w)) : Tail(w)[i] # f
        BY <3>2, <3>3
      <3>5. \A i \in 1 .. Len(Append(d, Head(w))) : Append(d, Head(w))[i] # f
        <4>1. Head(w) # f
          BY <3>2, <3>3
        <4>. QED BY <3>2, <3>3, <4>1, AppendOther
      <3>. QED BY <1>2, <2>1, <3>1, <3>2, <3>4, <3>5 DEF Gone, c
    <2>3. CASE e # c
      <3>1. delivered'[c] = delivered[c] /\ WaitingMap'[c] = WaitingMap[c]
        BY <1>1, <1>3, <2>1, <2>3 DEF WaitingMap
      <3>. QED BY <1>2, <2>1, <3>1 DEF Gone
    <2>. QED BY <2>2, <2>3
  <1>7. CASE UNCHANGED Flow!flowVars
    BY <1>7 DEF Flow!flowVars, WaitingMap, Gone
  <1>. QED BY <1>4, <1>5, <1>6, <1>7 DEF Flow!Next

\* The frame a pull processor gives up on is gone.
LEMMA TimeoutGone ==
    ASSUME TypeOK, FlowProofs!FlowInv, NEW c \in Cameras, WaitTimesOut(c), predictMode = "pull",
           NEW p, p = processor[c].frame
    PROVE  Gone(p)'
  <1>. DEFINE w == WaitingMap[c]
  <1>1. ~At(c, "pop") /\ p \in Frame /\ p.camera = c
    BY DEF WaitTimesOut, At, TypeOK, ProcessorsOK
  <1>2. /\ processor' = [processor EXCEPT ![c] = IdleProcessor]
        /\ captured' = captured /\ frameQueue' = frameQueue /\ delivered' = delivered
    BY DEF WaitTimesOut, queueVars
  <1>3. w # <<>> /\ Head(w) = p /\ WaitingMap' = [WaitingMap EXCEPT ![c] = Tail(@)]
    BY <1>1, <1>2, LeaveWaiting
  <1>4. WaitingMap'[c] = Tail(w)
    BY <1>3 DEF WaitingMap
  <1>5. /\ captured[c] \in Nat
        /\ w \in Seq([camera : Cameras, index : Nat])
        /\ \A i \in 1 .. Len(w) : w[i].index < captured[c]
        /\ \A i, j \in 1 .. Len(w) : i < j => w[i].index < w[j].index
        /\ \A i \in 1 .. Len(delivered[c]), j \in 1 .. Len(w) : delivered[c][i].index < w[j].index
    BY OrderFacts
  <1>6. p.index \in Nat
    BY <1>1, FrameFacts
  <1>. HIDE DEF w
  <1>7. 1 \in 1 .. Len(w) /\ w[1] = p
        /\ \A i \in 1 .. Len(Tail(w)) : Tail(w)[i] = w[i + 1] /\ i + 1 \in 1 .. Len(w) /\ 1 < i + 1
    BY <1>3, <1>5
  <1>8. \A i \in 1 .. Len(Tail(w)) : Tail(w)[i] # p
    BY <1>5, <1>6, <1>7
  <1>9. \A i \in 1 .. Len(delivered[c]) : delivered[c][i] # p
    BY <1>5, <1>6, <1>7
  <1>10. p.index < captured[c]
    BY <1>5, <1>7
  <1>. QED BY <1>1, <1>2, <1>4, <1>8, <1>9, <1>10 DEF Gone

LEMMA ExpiryStep ==
    TypeOK /\ FlowProofs!FlowInv /\ ExpiryInv /\ [Next]_vars => ExpiryInv'
  <1>. SUFFICES ASSUME TypeOK, FlowProofs!FlowInv, ExpiryInv, [Next]_vars,
                       NEW f \in expired'
                PROVE  Gone(f)'
    BY DEF ExpiryInv
  <1>1. [Flow!Next]_Flow!flowVars
    BY FlowStep
  <1>2. CASE f \in expired
    <2>1. f \in Frame /\ Gone(f)
      BY <1>2 DEF TypeOK, FramesOK, ExpiryInv
    <2>. QED BY <1>1, <2>1, GoneStays
  <1>3. CASE f \notin expired
    <2>1. expired' # expired
      BY <1>3
    <2>2. PICK c \in Cameras : WaitTimesOut(c)
      <3>1. ASSUME NEW c \in Cameras, ProcessorNext(c), ~WaitTimesOut(c) PROVE expired' = expired
        BY <3>1 DEF ProcessorNext, PopFrame, SubmitFrame, RefuseFrame, CheckProcessed, BeginWait,
                    ResetProcessed, TrackFrame, EmitFrame, frameVars
      <3>2. ASSUME NEW c \in Cameras, CaptureNext(c) PROVE expired' = expired
        BY <3>2 DEF CaptureNext, CaptureFrame, SkipFrame, frameVars
      <3>3. ASSUME NEW d \in Detectors, DetectorNext(d) \/ DetectorFail(d)
            PROVE expired' = expired
        BY <3>3 DEF DetectorNext, DetectorPop, DetectorMore, DetectorInfer, DetectorFail,
                    DetectorCheckExpired, DetectorAdd, DetectorFlag, DetectorNotify, frameVars
      <3>4. ASSUME NEW l \in LPDetectors, LPNext(l) \/ LPFail(l) PROVE expired' = expired
        BY <3>4 DEF LPNext, LPPop, LPDetect, LPFlag, LPNotify, LPFail, frameVars
      <3>5. CASE ConsumeTracked \/ UNCHANGED vars
        BY <3>5, <2>1 DEF ConsumeTracked, vars, frameVars
      <3>. QED BY <2>1, <3>1, <3>2, <3>3, <3>4, <3>5 DEF Next, Rest
    <2>3. predictMode = "pull" /\ f = processor[c].frame
      BY <1>3, <2>2 DEF WaitTimesOut
    <2>. QED BY <2>2, <2>3, TimeoutGone
  <1>. QED BY <1>2, <1>3

(***************************************************************************)
(* A frame that expired in predict() never reaches the event processor,    *)
(* whatever its late workers still do.                                     *)
(***************************************************************************)
THEOREM ExpiredFramesStayOut == Spec => []ExpiredNeverDelivered
  <1>1. Init => ExpiryInv
    BY DEF Init, ExpiryInv
  <1>2. Init => FlowProofs!FlowInv
    BY FlowInit, FlowProofs!FlowInitInv DEF Flow!Init, FlowProofs!Init
  <1>3. TypeOK /\ FlowProofs!FlowInv /\ [Next]_vars => FlowProofs!FlowInv'
    BY FlowStep, FlowInvStep
  <1>4. ExpiryInv => ExpiredNeverDelivered
    BY DEF ExpiryInv, Gone, ExpiredNeverDelivered, PlaceOf
  <1>. QED BY <1>1, <1>2, <1>3, <1>4, TypeCorrect, ExpiryStep, PTL DEF Spec
-----------------------------------------------------------------------------
(* The object stage.  A frame is submitted once: from then on it has been  *)
(* captured, is not in its camera's queue, and is not the frame that its   *)
(* camera's processor is about to submit.                                  *)

Submitted(f) ==
    /\ f.index < captured[f.camera]
    /\ \A i \in 1 .. Len(frameQueue[f.camera]) : frameQueue[f.camera][i] # f
    /\ At(f.camera, "push") /\ processor[f.camera].stage = "object"
            => processor[f.camera].frame # f

SubmittedInv ==
    /\ \A i \in 1 .. Len(inQueue["object"]) : Submitted(inQueue["object"][i])
    /\ \A d \in Detectors : \A i \in 1 .. Len(Batches[d]) : Submitted(Batches[d][i])

\* What the steps of the workers and most steps of a processor have in common.
LEMMA SubmittedKept ==
    ASSUME TypeOK, NEW f \in Frame, Submitted(f),
           captured' = captured, frameQueue' = frameQueue,
           processor'[f.camera].pc = "push" /\ processor'[f.camera].stage = "object"
                => /\ processor[f.camera].pc = "push"
                   /\ processor[f.camera].stage = "object"
                   /\ processor'[f.camera].frame = processor[f.camera].frame
    PROVE  Submitted(f)'
  BY DEF Submitted, At

LEMMA SubmittedNotify ==
    ASSUME TypeOK, NEW f \in Frame, Submitted(f), NEW c \in Cameras, NotifyAll(c),
           captured' = captured, frameQueue' = frameQueue
    PROVE  Submitted(f)'
  <1>1. f.camera \in Cameras
    BY FrameFacts
  <1>. QED BY <1>1, SubmittedKept DEF NotifyAll, Goto, At, TypeOK, ProcessorsOK

LEMMA SubmittedCapture ==
    ASSUME TypeOK, NEW f \in Frame, Submitted(f), NEW c \in Cameras, CaptureNext(c)
    PROVE  Submitted(f)'
  <1>1. f.camera \in Cameras /\ f.index \in Nat /\ processor' = processor
    BY FrameFacts DEF CaptureNext, CaptureFrame, SkipFrame, threadVars
  <1>2. captured \in [Cameras -> Nat] /\ frameQueue \in [Cameras -> Seq(Frame)]
    BY DEF TypeOK, QueuesOK
  <1>3. CASE SkipFrame(c) \/ c # f.camera
    <2>1. captured'[f.camera] \in {captured[f.camera], captured[f.camera] + 1}
          /\ frameQueue'[f.camera] = frameQueue[f.camera]
      BY <1>1, <1>2, <1>3 DEF CaptureNext, CaptureFrame, SkipFrame
    <2>. QED BY <1>1, <1>2, <2>1 DEF Submitted, At
  <1>4. CASE CaptureFrame(c) /\ c = f.camera
    <2>. DEFINE q == frameQueue[c]  g == [camera |-> c, index |-> captured[c]]
    <2>1. captured'[c] = captured[c] + 1 /\ frameQueue'[c] = Append(q, g)
      BY <1>2, <1>4 DEF CaptureFrame
    <2>2. g # f /\ captured[c] \in Nat /\ f.index < captured[c]
      BY <1>1, <1>2, <1>4 DEF Submitted
    <2>3. q \in Seq(Frame) /\ g \in Frame /\ \A i \in 1 .. Len(q) : q[i] # f
      BY <1>2, <1>4, FrameFacts DEF Submitted, CaptureFrame
    <2>4. \A i \in 1 .. Len(Append(q, g)) : Append(q, g)[i] # f
      <3>. HIDE DEF q, g
      <3>. QED BY <2>2, <2>3, AppendOther
    <2>5. f.index < captured'[c]
      BY <1>1, <2>1, <2>2
    <2>6. \A i \in 1 .. Len(frameQueue'[c]) : frameQueue'[c][i] # f
      BY <2>1, <2>4
    <2>. QED BY <1>1, <1>4, <2>5, <2>6 DEF Submitted, At
  <1>. QED BY <1>3, <1>4 DEF CaptureNext

LEMMA SubmittedProcessor ==
    ASSUME TypeOK, NEW f \in Frame, Submitted(f), NEW c \in Cameras, ProcessorNext(c)
    PROVE  Submitted(f)'
  <1>. USE DEF queueVars, threadVars
  <1>1. f.camera \in Cameras
    BY FrameFacts
  <1>2. processor \in [Cameras -> [pc : ProcessorPc, stage : Stage,
                                   frame : Frame \cup {NoFrame}, seen : SUBSET Mark]]
    BY DEF TypeOK, ProcessorsOK
  <1>3. CASE PopFrame(c)
    <2>. DEFINE q == frameQueue[c]
    <2>1. q \in Seq(Frame) /\ q # <<>> /\ captured' = captured
      BY <1>3 DEF PopFrame, TypeOK, QueuesOK
    <2>2. CASE c = f.camera
      <3>1. frameQueue'[c] = Tail(q) /\ processor'[c].frame = Head(q)
        BY <1>2, <1>3 DEF PopFrame, TypeOK, QueuesOK, IdleProcessor
      <3>2. \A i \in 1 .. Len(q) : q[i] # f
        BY <2>2 DEF Submitted
      <3>3. Head(q) # f /\ \A i \in 1 .. Len(Tail(q)) : Tail(q)[i] # f
        <4>. HIDE DEF q
        <4>. QED BY <2>1, <3>2, TailElements
      <3>. QED BY <2>1, <2>2, <3>1, <3>3 DEF Submitted
    <2>3. CASE c # f.camera
      <3>1. frameQueue'[f.camera] = frameQueue[f.camera]
            /\ processor'[f.camera] = processor[f.camera]
        BY <1>1, <1>2, <1>3, <2>3 DEF PopFrame, TypeOK, QueuesOK
      <3>. QED BY <2>1, <3>1 DEF Submitted, At
    <2>. QED BY <2>2, <2>3
  <1>4. CASE SubmitFrame(c) \/ CheckProcessed(c) \/ BeginWait(c)
    BY <1>1, <1>2, <1>4, SubmittedKept DEF SubmitFrame, CheckProcessed, BeginWait, Goto
  <1>5. CASE RefuseFrame(c) \/ EmitFrame(c)
    BY <1>1, <1>2, <1>5, SubmittedKept DEF RefuseFrame, EmitFrame, IdleProcessor
  <1>6. CASE WaitTimesOut(c)
    BY <1>1, <1>2, <1>6, SubmittedKept DEF WaitTimesOut, Goto, IdleProcessor
  <1>7. CASE ResetProcessed(c)
    BY <1>1, <1>2, <1>7, SubmittedKept DEF ResetProcessed
  <1>8. CASE TrackFrame(c)
    BY <1>1, <1>2, <1>8, SubmittedKept DEF TrackFrame
  <1>. QED BY <1>3, <1>4, <1>5, <1>6, <1>7, <1>8 DEF ProcessorNext

\* A frame once submitted is never submitted again.
LEMMA SubmittedStays ==
    ASSUME TypeOK, [Next]_vars, NEW f \in Frame, Submitted(f)
    PROVE  Submitted(f)'
  <1>. USE DEF queueVars, threadVars
  <1>1. ASSUME NEW c \in Cameras, CaptureNext(c) \/ ProcessorNext(c) PROVE Submitted(f)'
    BY <1>1, SubmittedCapture, SubmittedProcessor
  <1>2. ASSUME NEW d \in Detectors, DetectorNext(d) \/ DetectorFail(d) PROVE Submitted(f)'
    <2>1. CASE DetectorNotify(d)
      <3>1. Head(detector[d].batch).camera \in Cameras
        <4>1. detector[d].batch \in Seq(Frame) /\ detector[d].batch # <<>>
          BY <2>1 DEF DetectorNotify, TypeOK, DetectorsOK
        <4>. QED BY <4>1, TailFacts, FrameFacts
      <3>. QED BY <2>1, <3>1, SubmittedNotify DEF DetectorNotify
    <2>2. CASE ~DetectorNotify(d)
      BY <1>2, <2>2, SubmittedKept DEF DetectorNext, DetectorPop, DetectorMore, DetectorInfer,
         DetectorFail, DetectorCheckExpired, DetectorAdd, DetectorFlag
    <2>. QED BY <2>1, <2>2
  <1>3. ASSUME NEW l \in LPDetectors, LPNext(l) \/ LPFail(l) PROVE Submitted(f)'
    <2>1. CASE LPNotify(l)
      <3>1. lpDetector[l].frame.camera \in Cameras
        BY <2>1, FrameFacts DEF LPNotify, TypeOK, LPDetectorsOK
      <3>. QED BY <2>1, <3>1, SubmittedNotify DEF LPNotify
    <2>2. CASE ~LPNotify(l)
      BY <1>3, <2>2, SubmittedKept DEF LPNext, LPPop, LPDetect, LPFlag, LPFail
    <2>. QED BY <2>1, <2>2
  <1>4. CASE ConsumeTracked \/ UNCHANGED vars
    BY <1>4, SubmittedKept DEF ConsumeTracked, vars
  <1>. QED BY <1>1, <1>2, <1>3, <1>4 DEF Next, Rest

\* The frame a processor submits has not been submitted before.
LEMMA SubmitFrameFacts ==
    ASSUME TypeOK, FlowProofs!FlowInv, NEW c \in Cameras, SubmitFrame(c),
           processor[c].stage = "object", NEW p, p = processor[c].frame
    PROVE  p \in Frame /\ ~Submitted(p) /\ Submitted(p)'
  <1>. DEFINE w == WaitingMap[c]  q == frameQueue[c]
  <1>1. At(c, "push") /\ ~At(c, "pop") /\ p \in Frame /\ p.camera = c
    BY DEF SubmitFrame, At, TypeOK, ProcessorsOK
  <1>2. ~Submitted(p)
    BY <1>1 DEF Submitted
  <1>3. captured' = captured /\ frameQueue' = frameQueue /\ ~At(c, "push")'
    BY DEF SubmitFrame, Goto, At, TypeOK, ProcessorsOK
  <1>4. /\ captured[c] \in Nat
        /\ \A i \in 1 .. Len(w) : w[i].index < captured[c]
        /\ \A i, j \in 1 .. Len(w) : i < j => w[i].index < w[j].index
    BY OrderFacts
  <1>5. p.index \in Nat /\ q \in Seq(Frame)
    BY <1>1, FrameFacts DEF TypeOK, QueuesOK
  <1>6. w = <<p>> \o q
    BY <1>1 DEF WaitingMap, Waiting
  <1>. HIDE DEF w, q
  <1>7. /\ 1 \in 1 .. Len(w) /\ w[1] = p
        /\ \A i \in 1 .. Len(q) : w[i + 1] = q[i] /\ i + 1 \in 1 .. Len(w) /\ 1 < i + 1
    BY <1>1, <1>5, <1>6
  <1>8. p.index < captured[c] /\ \A i \in 1 .. Len(q) : q[i] # p
    BY <1>4, <1>5, <1>7
  <1>. QED BY <1>1, <1>2, <1>3, <1>8 DEF Submitted, At, q

\* The pool's queue and batches hold a frame once, whichever way frames go on.
LEMMA SubmitOnce ==
    ASSUME NEW q \in Seq(Frame), NEW b \in [Detectors -> Seq(Frame)], NEW f \in Frame,
           NoFrameTwice(q, b),
           \A i \in 1 .. Len(q) : q[i] # f,
           \A d \in Detectors : \A i \in 1 .. Len(b[d]) : b[d][i] # f
    PROVE  NoFrameTwice(Append(q, f), b)
  <1>1. /\ Len(q) \in Nat /\ Len(Append(q, f)) = Len(q) + 1
        /\ \A i \in 1 .. Len(q) + 1 : Append(q, f)[i] = IF i = Len(q) + 1 THEN f ELSE q[i]
    BY AppendFacts
  <1>2. \A i \in 1 .. Len(q) + 1 : i # Len(q) + 1 => i \in 1 .. Len(q)
    BY <1>1
  <1>. DEFINE r == Append(q, f)
  <1>. HIDE DEF r
  <1>3. \A i, j \in 1 .. Len(q) + 1 : r[i] = r[j] => i = j
    BY <1>1, <1>2 DEF NoFrameTwice, r
  <1>4. \A d \in Detectors : \A i \in 1 .. Len(q) + 1, j \in 1 .. Len(b[d]) : r[i] # b[d][j]
    BY <1>1, <1>2 DEF NoFrameTwice, r
  <1>. QED BY <1>1, <1>3, <1>4 DEF NoFrameTwice, r

LEMMA TakeOnce ==
    ASSUME NEW q \in Seq(Frame), q # <<>>, NEW b \in [Detectors -> Seq(Frame)],
           NoFrameTwice(q, b), NEW d \in Detectors
    PROVE  /\ NoFrameTwice(Tail(q), b)
           /\ NoFrameTwice(Tail(q), [b EXCEPT ![d] = Append(b[d], Head(q))])
  <1>. DEFINE t == Tail(q)  a == Append(b[d], Head(q))  b2 == [b EXCEPT ![d] = a]  n == Len(b[d])
  <1>1. /\ Len(q) \in Nat \ {0} /\ Head(q) \in Frame /\ Head(q) = q[1]
        /\ Len(t) = Len(q) - 1 /\ \A i \in 1 .. Len(q) - 1 : t[i] = q[i + 1]
    BY TailFacts
  <1>2. /\ n \in Nat /\ Len(a) = n + 1
        /\ \A i \in 1 .. n + 1 : a[i] = IF i = n + 1 THEN q[1] ELSE b[d][i]
    <2>1. b[d] \in Seq(Frame)
      OBVIOUS
    <2>. QED BY <1>1, <2>1, AppendFacts
  <1>3. b2[d] = a /\ \A e \in Detectors : e # d => b2[e] = b[e]
    OBVIOUS
  <1>. HIDE DEF t, a, b2, n
  <1>4. \A i \in 1 .. Len(t) : t[i] = q[i + 1] /\ i + 1 \in 1 .. Len(q) /\ 1 \in 1 .. Len(q) /\ i + 1 # 1
    BY <1>1
  <1>5. \A i, j \in 1 .. Len(t) : t[i] = t[j] => i = j
    BY <1>4 DEF NoFrameTwice
  <1>6. \A e \in Detectors : \A i \in 1 .. Len(t), j \in 1 .. Len(b[e]) : t[i] # b[e][j]
    BY <1>4 DEF NoFrameTwice
  <1>7. NoFrameTwice(t, b)
    BY <1>5, <1>6 DEF NoFrameTwice
  \* What a place of the longer batches holds: the old frame, or the head of q.
  <1>8. ASSUME NEW e \in Detectors, NEW i \in 1 .. Len(b2[e])
        PROVE  \/ e = d /\ i = n + 1 /\ b2[e][i] = q[1]
               \/ i \in 1 .. Len(b[e]) /\ b2[e][i] = b[e][i]
    <2>1. CASE e = d
      BY <1>2, <1>3, <2>1 DEF n
    <2>2. CASE e # d
      BY <1>3, <1>8, <2>2
    <2>. QED BY <2>1, <2>2
  <1>9. 1 \in 1 .. Len(q)
    BY <1>1
  <1>10. ASSUME NEW e1 \in Detectors, NEW e2 \in Detectors,
                NEW i \in 1 .. Len(b2[e1]), NEW j \in 1 .. Len(b2[e2]), b2[e1][i] = b2[e2][j]
         PROVE  e1 = e2 /\ i = j
    BY <1>8, <1>9, <1>10 DEF NoFrameTwice
  <1>11. ASSUME NEW e \in Detectors, NEW i \in 1 .. Len(t), NEW j \in 1 .. Len(b2[e])
         PROVE  t[i] # b2[e][j]
    BY <1>4, <1>8, <1>11 DEF NoFrameTwice
  <1>12. NoFrameTwice(t, b2)
    BY <1>5, <1>10, <1>11 DEF NoFrameTwice
  <1>. QED BY <1>7, <1>12 DEF t, b2, a

LEMMA AnswerOnce ==
    ASSUME NEW q, NEW b \in [Detectors -> Seq(Frame)], NoFrameTwice(q, b),
           NEW d \in Detectors, NEW s,
           \/ s = <<>>
           \/ b[d] # <<>> /\ s = Tail(b[d])
    PROVE  NoFrameTwice(q, [b EXCEPT ![d] = s])
  <1>. DEFINE b2 == [b EXCEPT ![d] = s]  k == IF s = <<>> THEN 0 ELSE 1
  <1>1. b2[d] = s /\ \A e \in Detectors : e # d => b2[e] = b[e]
    OBVIOUS
  <1>2. \A i \in 1 .. Len(s) : s[i] = b[d][i + k] /\ i + k \in 1 .. Len(b[d])
    <2>1. CASE s = <<>>
      BY <2>1
    <2>2. CASE s # <<>>
      <3>1. b[d] \in Seq(Frame) /\ b[d] # <<>> /\ s = Tail(b[d]) /\ k = 1
        BY <2>2
      <3>. HIDE DEF k
      <3>. QED BY <3>1, TailElements
    <2>. QED BY <2>1, <2>2
  <1>3. k \in Nat
    OBVIOUS
  <1>. HIDE DEF b2, k
  <1>4. ASSUME NEW e \in Detectors, NEW i \in 1 .. Len(b2[e])
        PROVE  LET m == IF e = d THEN i + k ELSE i
               IN  m \in 1 .. Len(b[e]) /\ b2[e][i] = b[e][m]
    BY <1>1, <1>2, <1>4
  <1>5. ASSUME NEW e1 \in Detectors, NEW e2 \in Detectors,
               NEW i \in 1 .. Len(b2[e1]), NEW j \in 1 .. Len(b2[e2]), b2[e1][i] = b2[e2][j]
        PROVE  e1 = e2 /\ i = j
    <2>. DEFINE m1 == IF e1 = d THEN i + k ELSE i  m2 == IF e2 = d THEN j + k ELSE j
    <2>1. m1 \in 1 .. Len(b[e1]) /\ m2 \in 1 .. Len(b[e2]) /\ b[e1][m1] = b[e2][m2]
      BY <1>4, <1>5
    <2>2. e1 = e2 /\ m1 = m2
      BY <2>1 DEF NoFrameTwice
    <2>3. i = j
      <3>1. i \in Nat /\ j \in Nat
        OBVIOUS
      <3>. QED BY <1>3, <2>2, <3>1
    <2>. QED BY <2>2, <2>3
  <1>6. ASSUME NEW e \in Detectors, NEW i \in 1 .. Len(q), NEW j \in 1 .. Len(b2[e])
        PROVE  q[i] # b2[e][j]
    <2>1. PICK m \in 1 .. Len(b[e]) : b2[e][j] = b[e][m]
      BY <1>4
    <2>. QED BY <2>1 DEF NoFrameTwice
  <1>7. NoFrameTwice(q, b2)
    BY <1>5, <1>6 DEF NoFrameTwice
  <1>. QED BY <1>7 DEF b2

OnceInv == DetectedOnce /\ SubmittedInv

\* A step that leaves the object stage as it is.
LEMMA SameStage ==
    ASSUME TypeOK, SubmittedInv, [Next]_vars, DetectedOnce,
           inQueue'["object"] = inQueue["object"], Batches' = Batches
    PROVE  OnceInv'
  <1>. DEFINE q == inQueue["object"]
  <1>1. /\ \A i \in 1 .. Len(q) : q[i] \in Frame
        /\ \A d \in Detectors : \A i \in 1 .. Len(Batches[d]) : Batches[d][i] \in Frame
    BY StageFacts DEF TypeOK, QueuesOK, DetectorsOK, Batches
  <1>2. SubmittedInv'
    BY <1>1, SubmittedStays DEF SubmittedInv
  <1>. QED BY <1>2 DEF OnceInv, DetectedOnce, NoFrameTwice

\* A detector goes on to another batch.
LEMMA BatchChange ==
    ASSUME TypeOK, NEW d \in Detectors, NEW s, NEW pc,
           detector' = [detector EXCEPT ![d] = [pc |-> pc, batch |-> s]]
    PROVE  Batches' = [Batches EXCEPT ![d] = s]
  BY DEF Batches, TypeOK, DetectorsOK

\* A detector loses frames of its batch, to an answer or to an exception.
LEMMA BatchShrinks ==
    ASSUME TypeOK, OnceInv, [Next]_vars, NEW d \in Detectors,
           inQueue'["object"] = inQueue["object"], NEW s,
           \/ s = <<>>
           \/ Batches[d] # <<>> /\ s = Tail(Batches[d]),
           Batches' = [Batches EXCEPT ![d] = s]
    PROVE  OnceInv'
  <1>. DEFINE q == inQueue["object"]
  <1>1. Batches \in [Detectors -> Seq(Frame)] /\ q \in Seq(Frame)
    BY StageFacts DEF TypeOK, QueuesOK, DetectorsOK, Batches
  <1>2. DetectedOnce'
    BY <1>1, AnswerOnce DEF OnceInv, DetectedOnce
  <1>3. ASSUME NEW e \in Detectors, NEW i \in 1 .. Len(Batches'[e])
        PROVE  \E j \in 1 .. Len(Batches[e]) : Batches'[e][i] = Batches[e][j]
    <2>1. CASE e # d
      BY <1>1, <1>3, <2>1
    <2>2. CASE e = d
      <3>1. Batches'[d] = s /\ Batches[d] \in Seq(Frame)
        BY <1>1
      <3>2. s # <<>>
        BY <1>3, <2>2, <3>1
      <3>. QED BY <1>3, <2>2, <3>1, <3>2, TailElements
    <2>. QED BY <2>1, <2>2
  <1>4. \A f \in Frame : Submitted(f) => Submitted(f)'
    BY SubmittedStays
  <1>5. SubmittedInv'
    <2>1. \A i \in 1 .. Len(q) : q[i] \in Frame /\ Submitted(q[i])
      BY <1>1 DEF OnceInv, SubmittedInv
    <2>2. \A e \in Detectors : \A j \in 1 .. Len(Batches[e]) :
                Batches[e][j] \in Frame /\ Submitted(Batches[e][j])
      BY <1>1 DEF OnceInv, SubmittedInv
    <2>. QED BY <1>3, <1>4, <2>1, <2>2 DEF SubmittedInv
  <1>. QED BY <1>2, <1>5 DEF OnceInv

LEMMA OnceSubmit ==
    ASSUME TypeOK, FlowProofs!FlowInv, OnceInv, [Next]_vars, NEW c \in Cameras, SubmitFrame(c)
    PROVE  OnceInv'
  <1>. DEFINE q == inQueue["object"]  p == processor[c].frame
  <1>1. Batches' = Batches
    BY DEF SubmitFrame, Batches
  <1>2. CASE processor[c].stage # "object"
    <2>1. inQueue'["object"] = q
      BY <1>2 DEF SubmitFrame, TypeOK, QueuesOK, Stage
    <2>. QED BY <1>1, <2>1, SameStage DEF OnceInv
  <1>3. CASE processor[c].stage = "object"
    <2>1. p \in Frame /\ ~Submitted(p) /\ \A f : f = p => Submitted(f)'
      BY <1>3, SubmitFrameFacts
    <2>2. Batches \in [Detectors -> Seq(Frame)] /\ q \in Seq(Frame) /\ inQueue'["object"] = Append(q, p)
      BY <1>3, StageFacts DEF SubmitFrame, TypeOK, QueuesOK, DetectorsOK, Batches
    <2>3. /\ \A i \in 1 .. Len(q) : q[i] \in Frame /\ Submitted(q[i])
          /\ \A e \in Detectors : \A j \in 1 .. Len(Batches[e]) :
                Batches[e][j] \in Frame /\ Submitted(Batches[e][j])
      BY <2>2 DEF OnceInv, SubmittedInv
    <2>4. DetectedOnce'
      <3>1. /\ \A i \in 1 .. Len(q) : q[i] # p
            /\ \A d \in Detectors : \A i \in 1 .. Len(Batches[d]) : Batches[d][i] # p
        BY <2>1, <2>3
      <3>2. NoFrameTwice(q, Batches)
        BY DEF OnceInv, DetectedOnce
      <3>3. NoFrameTwice(Append(q, p), Batches)
        <4>. HIDE DEF q, p
        <4>. QED BY <2>1, <2>2, <3>1, <3>2, SubmitOnce
      <3>. QED BY <1>1, <2>2, <3>3 DEF DetectedOnce
    <2>5. SubmittedInv'
      <3>1. \A f \in Frame : Submitted(f) => Submitted(f)'
        BY SubmittedStays
      <3>2. \A i \in 1 .. Len(inQueue'["object"]) :
                inQueue'["object"][i] = p \/ \E j \in 1 .. Len(q) : inQueue'["object"][i] = q[j]
        <4>. HIDE DEF q, p
        <4>. QED BY <2>1, <2>2, AppendFacts
      <3>. QED BY <1>1, <2>1, <2>3, <3>1, <3>2 DEF SubmittedInv
    <2>. QED BY <2>4, <2>5 DEF OnceInv
  <1>. QED BY <1>2, <1>3

LEMMA OnceTake ==
    ASSUME TypeOK, OnceInv, [Next]_vars, NEW d \in Detectors, DetectorPop(d)
    PROVE  OnceInv'
  <1>. DEFINE q == inQueue["object"]  b == Batches[d]  q2 == inQueue'["object"]
              t == IF Head(q) \in expired THEN b ELSE Append(b, Head(q))
  <1>1. Batches \in [Detectors -> Seq(Frame)] /\ q \in Seq(Frame) /\ q # <<>> /\ q2 = Tail(q)
    BY StageFacts DEF DetectorPop, TypeOK, QueuesOK, DetectorsOK, Batches
  <1>2. Batches' = [Batches EXCEPT ![d] = t]
    <2>1. detector' = [detector EXCEPT ![d] = [pc |-> "more", batch |-> t]]
      BY DEF DetectorPop, Batches, TypeOK, DetectorsOK
    <2>. HIDE DEF t
    <2>. QED BY <2>1, BatchChange
  <1>3. DetectedOnce'
    <2>1. NoFrameTwice(q, Batches)
      BY DEF OnceInv, DetectedOnce
    <2>2. NoFrameTwice(Tail(q), Batches)
          /\ NoFrameTwice(Tail(q), [Batches EXCEPT ![d] = Append(b, Head(q))])
      <3>. HIDE DEF q
      <3>. QED BY <1>1, <2>1, TakeOnce
    <2>3. Batches' = Batches \/ Batches' = [Batches EXCEPT ![d] = Append(b, Head(q))]
      BY <1>1, <1>2
    <2>. QED BY <1>1, <2>2, <2>3 DEF DetectedOnce
  <1>4. /\ \A i \in 1 .. Len(q) : q[i] \in Frame /\ Submitted(q[i])
        /\ \A e \in Detectors : \A j \in 1 .. Len(Batches[e]) :
                Batches[e][j] \in Frame /\ Submitted(Batches[e][j])
    BY <1>1 DEF OnceInv, SubmittedInv
  <1>5. \A f \in Frame : Submitted(f) => Submitted(f)'
    BY SubmittedStays
  <1>6. Head(q) \in Frame /\ Submitted(Head(q))
        /\ \A i \in 1 .. Len(q2) : q2[i] \in Frame /\ Submitted(q2[i])
    <2>. HIDE DEF q, q2
    <2>. QED BY <1>1, <1>4, TailElements
  <1>7. ASSUME NEW e \in Detectors, NEW j \in 1 .. Len(Batches'[e])
        PROVE  Batches'[e][j] \in Frame /\ Submitted(Batches'[e][j])
    <2>1. CASE e # d \/ t = b
      BY <1>1, <1>2, <1>4, <1>7, <2>1
    <2>2. CASE e = d /\ t = Append(b, Head(q))
      <3>1. Batches'[e] = Append(b, Head(q)) /\ b \in Seq(Frame)
            /\ \A i \in 1 .. Len(b) : b[i] \in Frame /\ Submitted(b[i])
        BY <1>1, <1>2, <1>4, <2>2
      <3>. HIDE DEF b, q
      <3>2. Batches'[e][j] = Head(q) \/ \E i \in 1 .. Len(b) : Batches'[e][j] = b[i]
        BY <1>6, <1>7, <3>1, AppendFacts
      <3>. QED BY <1>6, <3>1, <3>2
    <2>. QED BY <2>1, <2>2
  <1>8. SubmittedInv'
    BY <1>5, <1>6, <1>7 DEF SubmittedInv
  <1>. QED BY <1>3, <1>8 DEF OnceInv

LEMMA OnceAnswer ==
    ASSUME TypeOK, OnceInv, [Next]_vars, NEW d \in Detectors, NextResult(d),
           detector[d].batch # <<>>, inQueue' = inQueue
    PROVE  OnceInv'
  <1>. DEFINE s == Tail(detector[d].batch)
              pc == IF Len(detector[d].batch) = 1 THEN "pop" ELSE "answer"
  <1>1. detector' = [detector EXCEPT ![d] = [pc |-> pc, batch |-> s]]
    BY DEF NextResult, TypeOK, DetectorsOK
  <1>2. Batches[d] # <<>> /\ s = Tail(Batches[d])
    BY DEF Batches
  <1>. HIDE DEF s, pc
  <1>3. Batches' = [Batches EXCEPT ![d] = s]
    BY <1>1, BatchChange
  <1>. QED BY <1>2, <1>3, BatchShrinks

LEMMA OnceDetector ==
    ASSUME TypeOK, OnceInv, [Next]_vars, NEW d \in Detectors, DetectorNext(d) \/ DetectorFail(d)
    PROVE  OnceInv'
  <1>. USE DEF queueVars
  <1>s. ASSUME NEW pc, detector' = [detector EXCEPT ![d].pc = pc], inQueue' = inQueue
        PROVE  OnceInv'
    <2>1. Batches' = Batches
      BY <1>s DEF Batches, TypeOK, DetectorsOK
    <2>. QED BY <1>s, <2>1, SameStage DEF OnceInv
  <1>1. CASE DetectorPop(d)
    BY <1>1, OnceTake
  <1>2. CASE DetectorMore(d) \/ DetectorInfer(d) \/ DetectorAdd(d) \/ DetectorFlag(d)
    BY <1>2, <1>s DEF DetectorMore, DetectorInfer, DetectorAdd, DetectorFlag
  <1>3. CASE DetectorCheckExpired(d)
    <2>1. detector[d].batch # <<>> /\ inQueue' = inQueue
      BY <1>3 DEF DetectorCheckExpired, TypeOK, DetectorsOK
    <2>. QED BY <1>3, <1>s, <2>1, OnceAnswer DEF DetectorCheckExpired
  <1>4. CASE DetectorNotify(d)
    <2>1. detector[d].batch # <<>> /\ inQueue' = inQueue /\ NextResult(d)
      BY <1>4 DEF DetectorNotify, TypeOK, DetectorsOK
    <2>. QED BY <2>1, OnceAnswer
  <1>5. CASE DetectorFail(d)
    <2>1. detector' = [detector EXCEPT ![d] = [pc |-> "dead", batch |-> <<>>]] /\ inQueue' = inQueue
      BY <1>5 DEF DetectorFail
    <2>2. Batches' = [Batches EXCEPT ![d] = <<>>]
      BY <2>1, BatchChange
    <2>. QED BY <2>1, <2>2, BatchShrinks
  <1>. QED BY <1>1, <1>2, <1>3, <1>4, <1>5 DEF DetectorNext

LEMMA OnceStep ==
    TypeOK /\ FlowProofs!FlowInv /\ OnceInv /\ [Next]_vars => OnceInv'
  <1>. SUFFICES ASSUME TypeOK, FlowProofs!FlowInv, OnceInv, [Next]_vars PROVE OnceInv'
    OBVIOUS
  <1>. USE DEF queueVars, threadVars
  <1>s. ASSUME inQueue'["object"] = inQueue["object"], detector' = detector PROVE OnceInv'
    <2>1. Batches' = Batches
      BY <1>s DEF Batches
    <2>. QED BY <1>s, <2>1, SameStage DEF OnceInv
  <1>1. ASSUME NEW c \in Cameras, CaptureNext(c) PROVE OnceInv'
    BY <1>1, <1>s DEF CaptureNext, CaptureFrame, SkipFrame
  <1>2. ASSUME NEW c \in Cameras, ProcessorNext(c) PROVE OnceInv'
    <2>1. CASE SubmitFrame(c)
      BY <2>1, OnceSubmit
    <2>2. CASE ~SubmitFrame(c)
      BY <1>2, <1>s, <2>2 DEF ProcessorNext, PopFrame, RefuseFrame, CheckProcessed, BeginWait,
         WaitTimesOut, ResetProcessed, TrackFrame, EmitFrame
    <2>. QED BY <2>1, <2>2
  <1>3. ASSUME NEW d \in Detectors, DetectorNext(d) \/ DetectorFail(d) PROVE OnceInv'
    BY <1>3, OnceDetector
  <1>4. ASSUME NEW l \in LPDetectors, LPNext(l) \/ LPFail(l) PROVE OnceInv'
    <2>1. CASE LPPop(l)
      BY <1>s, <2>1 DEF LPPop, TypeOK, QueuesOK, Stage
    <2>2. CASE ~LPPop(l)
      BY <1>4, <1>s, <2>2 DEF LPNext, LPDetect, LPFlag, LPNotify, LPFail
    <2>. QED BY <2>1, <2>2
  <1>5. CASE ConsumeTracked \/ UNCHANGED vars
    BY <1>5, <1>s DEF ConsumeTracked, vars
  <1>. QED BY <1>1, <1>2, <1>3, <1>4, <1>5 DEF Next, Rest

(***************************************************************************)
(* No frame is ever in two places of the object stage, and so none is      *)
(* detected twice, whatever timeouts, late workers and failures there are. *)
(***************************************************************************)
THEOREM NoFrameDetectedTwice == Spec => []DetectedOnce
  <1>1. Init => OnceInv
    <2>. SUFFICES ASSUME Init PROVE OnceInv
      OBVIOUS
    <2>1. inQueue["object"] = <<>> /\ \A d \in Detectors : Batches[d] = <<>>
      BY StageFacts DEF Init, IdleDetector, Batches
    <2>. QED BY <2>1 DEF OnceInv, DetectedOnce, NoFrameTwice, SubmittedInv
  <1>2. Init => FlowProofs!FlowInv
    BY FlowInit, FlowProofs!FlowInitInv DEF Flow!Init, FlowProofs!Init
  <1>3. TypeOK /\ FlowProofs!FlowInv /\ [Next]_vars => FlowProofs!FlowInv'
    BY FlowStep, FlowInvStep
  <1>4. OnceInv => DetectedOnce
    BY DEF OnceInv
  <1>. QED BY <1>1, <1>2, <1>3, <1>4, TypeCorrect, OnceStep, PTL DEF Spec
-----------------------------------------------------------------------------
(* The handshake.  What the holders of a frame may say of it as long as    *)
(* its camera's processor never left predict() ahead of its answer.        *)

Before(s) == IF s = "object" THEN {} ELSE {"tracked"}
Result(s) == IF s = "object" THEN {"detected"} ELSE {"tracked", "plates"}

\* The processor of f's camera is in predict() for f, after submitting it.
Awaits(f, s) ==
    /\ processor[f.camera].frame = f
    /\ processor[f.camera].stage = s
    /\ processor[f.camera].pc \in {"check", "lock", "waiting"}

Asked(f, s) == Awaits(f, s) /\ f \notin processed /\ predictions[f] = Before(s)
Written(f, s) == Awaits(f, s) /\ f \notin processed /\ predictions[f] = Result(s)
Raised(f, s) == Awaits(f, s) /\ f \in processed /\ predictions[f] = Result(s)

InQueues(f) ==
    \A s \in Stage : \A i \in 1 .. Len(inQueue[s]) : inQueue[s][i] = f => Asked(f, s)

InBatches(f) ==
    \A d \in Detectors : \A i \in 1 .. Len(detector[d].batch) : detector[d].batch[i] = f =>
        \/ i = 1 /\ detector[d].pc = "flag" /\ Written(f, "object")
        \/ i = 1 /\ detector[d].pc = "notify" /\ Raised(f, "object")
        \/ (i = 1 => detector[d].pc \notin {"flag", "notify"}) /\ Asked(f, "object")

HeldBy(l, f) == lpDetector[l].pc \in {"infer", "flag", "notify"} /\ lpDetector[l].frame = f

InLPDetectors(f) ==
    \A l \in LPDetectors : HeldBy(l, f) =>
        \/ lpDetector[l].pc = "infer" /\ Asked(f, "lp") /\ lpDetector[l].seen = {"tracked"}
        \/ lpDetector[l].pc = "flag" /\ Written(f, "lp")
        \/ lpDetector[l].pc = "notify" /\ Raised(f, "lp")

HeldOnce(f) ==
    LET q == inQueue["lp"] IN
    /\ \A i, j \in 1 .. Len(q) : q[i] = f /\ q[j] = f => i = j
    /\ \A l, m \in LPDetectors : HeldBy(l, f) /\ HeldBy(m, f) => l = m
    /\ \A i \in 1 .. Len(q), l \in LPDetectors : q[i] = f => ~HeldBy(l, f)

InHand(f) ==
    LET p == processor[f.camera] IN
    p.frame = f =>
        /\ p.pc = "push" => f \notin processed /\ predictions[f] = Before(p.stage)
        /\ p.pc \in {"check", "lock", "waiting"} /\ f \in processed
                => predictions[f] = Result(p.stage)
        /\ p.pc = "reset" => f \in processed /\ predictions[f] = Result(p.stage)
        /\ p.pc = "track" => f \notin processed /\ p.stage = "object" /\ p.seen = {"detected"}
        /\ p.pc = "emit" => f \notin processed /\ predictions[f] = Result("lp")

\* Still to be captured, or in the frame queue of its camera.
Ahead(f) ==
    \/ captured[f.camera] <= f.index
    \/ \E i \in 1 .. Len(frameQueue[f.camera]) : frameQueue[f.camera][i] = f

Fresh(f) == Ahead(f) => f \notin processed /\ predictions[f] = {}

Tracked(f) == \E i \in 1 .. Len(trackedQueue) : trackedQueue[i] = f

Complete(f) == Tracked(f) => predictions[f] = Result("lp")

Holders(f) == InQueues(f) /\ InBatches(f) /\ InLPDetectors(f) /\ HeldOnce(f)

Prompt(f) == Holders(f) /\ InHand(f) /\ Fresh(f) /\ Complete(f)

\* Frames on the tracked queue were delivered.
TrackedDelivered ==
    \A f \in Frame : Tracked(f) =>
        \E j \in 1 .. Len(delivered[f.camera]) : delivered[f.camera][j] = f

PromptInv ==
    /\ \A f \in Frame : f.camera \notin overtaken => Prompt(f)
    /\ TrackedDelivered

LEMMA OwnFrame ==
    ASSUME TypeOK, FlowProofs!FlowInv, PromptInv, NEW f \in Frame,
           ~At(f.camera, "pop"), processor[f.camera].frame = f
    PROVE  ~Ahead(f) /\ ~Tracked(f)
  <1>. DEFINE c == f.camera  w == WaitingMap[c]  q == frameQueue[c]  d == delivered[c]
  <1>1. c \in Cameras /\ f.index \in Nat /\ q \in Seq(Frame)
    BY FrameFacts DEF TypeOK, QueuesOK
  <1>2. /\ captured[c] \in Nat
        /\ \A i \in 1 .. Len(w) : w[i].index < captured[c]
        /\ \A i, j \in 1 .. Len(w) : i < j => w[i].index < w[j].index
        /\ d \in Seq([camera : Cameras, index : Nat])
        /\ \A i \in 1 .. Len(d), j \in 1 .. Len(w) : d[i].index < w[j].index
    BY <1>1, OrderFacts
  <1>3. w = <<f>> \o q
    BY <1>1 DEF WaitingMap, Waiting
  <1>4. Tracked(f) => \E j \in 1 .. Len(d) : d[j] = f
    BY DEF PromptInv, TrackedDelivered
  <1>. HIDE DEF w, q, d, c
  <1>5. /\ 1 \in 1 .. Len(w) /\ w[1] = f
        /\ \A i \in 1 .. Len(q) : w[i + 1] = q[i] /\ i + 1 \in 1 .. Len(w) /\ 1 < i + 1
    BY <1>1, <1>3
  <1>6. f.index < captured[c]
    BY <1>2, <1>5
  <1>7. ASSUME NEW i \in 1 .. Len(q) PROVE q[i] # f
    <2>1. w[1].index < w[i + 1].index
      BY <1>2, <1>5
    <2>. QED BY <1>1, <1>5, <2>1
  <1>8. ASSUME NEW j \in 1 .. Len(d) PROVE d[j] # f
    <2>1. d[j].index < w[1].index
      BY <1>2, <1>5
    <2>. QED BY <1>1, <1>5, <2>1
  <1>9. ~(captured[c] <= f.index)
    BY <1>1, <1>2, <1>6
  <1>10. ~Ahead(f)
    BY <1>7, <1>9 DEF Ahead, q, c
  <1>. QED BY <1>4, <1>8, <1>10

NotHeld(f) ==
    /\ \A s \in Stage : \A i \in 1 .. Len(inQueue[s]) : inQueue[s][i] # f
    /\ \A d \in Detectors : \A i \in 1 .. Len(detector[d].batch) : detector[d].batch[i] # f
    /\ \A l \in LPDetectors : ~HeldBy(l, f)

\* Only a frame its processor awaits is in the hands of the pools.
LEMMA OnlyAwaitedHeld ==
    ASSUME NEW f \in Frame, Holders(f),
           processor[f.camera].frame # f
              \/ processor[f.camera].pc \notin {"check", "lock", "waiting"}
    PROVE  NotHeld(f)
  BY DEF Holders, InQueues, InBatches, InLPDetectors, NotHeld, Asked, Written, Raised, Awaits

LEMMA NotHeldIsSound ==
    ASSUME NEW f \in Frame, NotHeld(f)'
    PROVE  Holders(f)'
  BY StageFacts DEF Holders, InQueues, InBatches, InLPDetectors, HeldOnce, NotHeld

\* A step of others: neither f nor the processor of its camera is touched.
Same(f) ==
    /\ processor'[f.camera] = processor[f.camera]
    /\ f \in processed' <=> f \in processed
    /\ predictions'[f] = predictions[f]

LEMMA SameStatus ==
    ASSUME NEW f \in Frame, Same(f)
    PROVE  /\ \A s : Asked(f, s) => Asked(f, s)'
           /\ \A s : Written(f, s) => Written(f, s)'
           /\ \A s : Raised(f, s) => Raised(f, s)'
           /\ InHand(f) => InHand(f)'
  BY DEF Same, Asked, Written, Raised, Awaits, InHand

LEMMA SameHolders ==
    ASSUME NEW f \in Frame, Same(f), Holders(f),
           inQueue' = inQueue, detector' = detector, lpDetector' = lpDetector
    PROVE  Holders(f)'
  BY SameStatus DEF Holders, InQueues, InBatches, InLPDetectors, HeldOnce, HeldBy

LEMMA SameRest ==
    ASSUME NEW f \in Frame, Same(f), Prompt(f),
           Ahead(f)' => Ahead(f), Tracked(f)' => Tracked(f)
    PROVE  InHand(f)' /\ Fresh(f)' /\ Complete(f)'
  BY SameStatus DEF Same, Prompt, Fresh, Complete

LEMMA PromptCapture ==
    ASSUME TypeOK, NEW f \in Frame, Prompt(f), NEW c \in Cameras, CaptureNext(c)
    PROVE  Prompt(f)'
  <1>1. f.camera \in Cameras /\ f.index \in Nat
    BY FrameFacts
  <1>2. /\ Same(f) /\ trackedQueue' = trackedQueue
        /\ inQueue' = inQueue /\ detector' = detector /\ lpDetector' = lpDetector
    BY DEF CaptureNext, CaptureFrame, SkipFrame, Same, frameVars, threadVars
  <1>3. captured \in [Cameras -> Nat] /\ frameQueue \in [Cameras -> Seq(Frame)]
    BY DEF TypeOK, QueuesOK
  <1>4. ~Ahead(f) => ~Ahead(f)'
    <2>. SUFFICES ASSUME ~Ahead(f) PROVE ~Ahead(f)'
      OBVIOUS
    <2>1. f.index < captured[f.camera]
          /\ \A i \in 1 .. Len(frameQueue[f.camera]) : frameQueue[f.camera][i] # f
      BY <1>1, <1>3 DEF Ahead
    <2>2. CASE SkipFrame(c) \/ c # f.camera
      <3>1. captured'[f.camera] \in {captured[f.camera], captured[f.camera] + 1}
            /\ frameQueue'[f.camera] = frameQueue[f.camera]
        BY <1>1, <1>3, <2>2 DEF CaptureNext, CaptureFrame, SkipFrame
      <3>. QED BY <1>1, <1>3, <2>1, <3>1 DEF Ahead
    <2>3. CASE CaptureFrame(c) /\ c = f.camera
      <3>. DEFINE q == frameQueue[c]  g == [camera |-> c, index |-> captured[c]]
      <3>1. captured'[c] = captured[c] + 1 /\ frameQueue'[c] = Append(q, g)
        BY <1>3, <2>3 DEF CaptureFrame
      <3>2. g # f /\ q \in Seq(Frame) /\ g \in Frame /\ \A i \in 1 .. Len(q) : q[i] # f
        BY <1>1, <1>3, <2>1, <2>3, FrameFacts DEF CaptureFrame
      <3>3. \A i \in 1 .. Len(Append(q, g)) : Append(q, g)[i] # f
        <4>. HIDE DEF q, g
        <4>. QED BY <3>2, AppendOther
      <3>4. f.index < captured'[c] /\ \A i \in 1 .. Len(frameQueue'[c]) : frameQueue'[c][i] # f
        BY <1>1, <1>3, <2>1, <2>3, <3>1, <3>3
      <3>5. captured'[c] \in Nat
        BY <1>3, <3>1
      <3>. QED BY <1>1, <2>3, <3>4, <3>5 DEF Ahead
    <2>. QED BY <2>2, <2>3 DEF CaptureNext
  <1>5. Holders(f)'
    BY <1>2, SameHolders DEF Prompt
  <1>6. InHand(f)' /\ Fresh(f)' /\ Complete(f)'
    <2>1. Tracked(f)' => Tracked(f)
      BY <1>2 DEF Tracked
    <2>. QED BY <1>2, <1>4, <2>1, SameRest
  <1>. QED BY <1>5, <1>6 DEF Prompt

\* A frame joins a queue of a stage: no other frame is held for it.
LEMMA SubmitHolders ==
    ASSUME TypeOK, NEW f \in Frame, NEW c \in Cameras, SubmitFrame(c), processor[c].frame # f,
           Same(f), Holders(f)
    PROVE  Holders(f)'
  <1>. DEFINE s == processor[c].stage  q == inQueue[s]  p == processor[c].frame  r == Append(q, p)
  <1>1. s \in Stage /\ p \in Frame /\ q \in Seq(Frame)
    BY DEF SubmitFrame, TypeOK, ProcessorsOK, QueuesOK, At
  <1>2. /\ inQueue' = [inQueue EXCEPT ![s] = r]
        /\ inQueue'[s] = r /\ \A t \in Stage : t # s => inQueue'[t] = inQueue[t]
        /\ detector' = detector /\ lpDetector' = lpDetector
    BY <1>1 DEF SubmitFrame, TypeOK, QueuesOK
  <1>3. \A i \in 1 .. Len(r) : r[i] = f => i \in 1 .. Len(q) /\ q[i] = f
    <2>. HIDE DEF q, p
    <2>. QED BY <1>1, AppendFacts DEF p
  <1>. HIDE DEF s, q, p, r
  <1>4. \A t \in Stage : \A i \in 1 .. Len(inQueue'[t]) :
            inQueue'[t][i] = f => i \in 1 .. Len(inQueue[t]) /\ inQueue[t][i] = f
    BY <1>1, <1>2, <1>3 DEF q
  <1>5. InQueues(f)'
    BY <1>4, SameStatus DEF Holders, InQueues
  <1>6. HeldOnce(f)'
    BY <1>2, <1>4, StageFacts DEF Holders, HeldOnce, HeldBy
  <1>7. InBatches(f)' /\ InLPDetectors(f)'
    BY <1>2, SameStatus DEF Holders, InBatches, InLPDetectors, HeldBy
  <1>. QED BY <1>5, <1>6, <1>7 DEF Holders

LEMMA PromptOther ==
    ASSUME TypeOK, NEW f \in Frame, Prompt(f), NEW c \in Cameras, c # f.camera, ProcessorNext(c)
    PROVE  Prompt(f)'
  <1>. USE DEF queueVars, frameVars
  <1>1. f.camera \in Cameras
    BY FrameFacts
  <1>2. ~At(c, "pop") => processor[c].frame \in Frame /\ processor[c].frame # f
    BY DEF TypeOK, ProcessorsOK
  <1>3. Same(f)
    <2>1. processor'[f.camera] = processor[f.camera]
      BY <1>1 DEF ProcessorNext, PopFrame, SubmitFrame, RefuseFrame, CheckProcessed, BeginWait,
         WaitTimesOut, ResetProcessed, TrackFrame, EmitFrame, Goto, TypeOK, ProcessorsOK
    <2>2. (f \in processed' <=> f \in processed) /\ predictions'[f] = predictions[f]
      <3>1. CASE ResetProcessed(c)
        BY <1>2, <3>1 DEF ResetProcessed, At
      <3>2. CASE TrackFrame(c)
        BY <1>2, <3>2 DEF TrackFrame, At, TypeOK, FramesOK
      <3>3. CASE ~ResetProcessed(c) /\ ~TrackFrame(c)
        BY <3>3 DEF ProcessorNext, PopFrame, SubmitFrame, RefuseFrame, CheckProcessed, BeginWait,
           WaitTimesOut, EmitFrame
      <3>. QED BY <3>1, <3>2, <3>3
    <2>. QED BY <2>1, <2>2 DEF Same
  <1>4. Ahead(f)' => Ahead(f)
    <2>1. captured' = captured /\ frameQueue'[f.camera] = frameQueue[f.camera]
      BY <1>1 DEF ProcessorNext, PopFrame, SubmitFrame, RefuseFrame, CheckProcessed, BeginWait,
         WaitTimesOut, ResetProcessed, TrackFrame, EmitFrame, TypeOK, QueuesOK
    <2>. QED BY <2>1 DEF Ahead
  <1>5. Tracked(f)' => Tracked(f)
    <2>1. CASE EmitFrame(c)
      <3>. DEFINE p == processor[c].frame
      <3>1. p \in Frame /\ p # f /\ trackedQueue \in Seq(Frame)
        BY <1>2, <2>1 DEF EmitFrame, At, TypeOK, QueuesOK
      <3>2. trackedQueue' = trackedQueue \/ trackedQueue' = Append(trackedQueue, p)
        BY <2>1 DEF EmitFrame
      <3>. HIDE DEF p
      <3>3. ~Tracked(f) => \A i \in 1 .. Len(Append(trackedQueue, p)) : Append(trackedQueue, p)[i] # f
        BY <3>1, AppendOther DEF Tracked
      <3>. QED BY <3>2, <3>3 DEF Tracked
    <2>2. CASE ~EmitFrame(c)
      BY <2>2 DEF ProcessorNext, PopFrame, SubmitFrame, RefuseFrame, CheckProcessed, BeginWait,
         WaitTimesOut, ResetProcessed, TrackFrame, Tracked
    <2>. QED BY <2>1, <2>2
  <1>6. Holders(f)'
    <2>1. CASE SubmitFrame(c)
      <3>1. processor[c].frame # f
        BY <1>2, <2>1 DEF SubmitFrame, At
      <3>. QED BY <1>3, <2>1, <3>1, SubmitHolders DEF Prompt
    <2>2. CASE ~SubmitFrame(c)
      <3>1. inQueue' = inQueue /\ detector' = detector /\ lpDetector' = lpDetector
        BY <2>2 DEF ProcessorNext, PopFrame, RefuseFrame, CheckProcessed, BeginWait,
           WaitTimesOut, ResetProcessed, TrackFrame, EmitFrame
      <3>. QED BY <1>3, <3>1, SameHolders DEF Prompt
    <2>. QED BY <2>1, <2>2
  <1>. QED BY <1>3, <1>4, <1>5, <1>6, SameRest DEF Prompt

\* The processor steps while the pools do not hold f.
LEMMA QuietHolders ==
    ASSUME NEW f \in Frame, Holders(f),
           processor[f.camera].frame # f
              \/ processor[f.camera].pc \notin {"check", "lock", "waiting"},
           inQueue' = inQueue, detector' = detector, lpDetector' = lpDetector
    PROVE  Holders(f)'
  <1>1. NotHeld(f)
    BY OnlyAwaitedHeld
  <1>2. NotHeld(f)'
    BY <1>1 DEF NotHeld, HeldBy
  <1>. QED BY <1>2, NotHeldIsSound

\* f's processor goes on waiting for it.
LEMMA WaitingHolders ==
    ASSUME TypeOK, NEW f \in Frame, Holders(f), NEW pc \in {"check", "lock", "waiting"},
           f.camera \in Cameras, processor[f.camera].pc \in {"check", "lock", "waiting"},
           Goto(f.camera, pc), processed' = processed, predictions' = predictions,
           inQueue' = inQueue, detector' = detector, lpDetector' = lpDetector
    PROVE  Holders(f)'
  <1>1. /\ \A s : Asked(f, s) => Asked(f, s)'
        /\ \A s : Written(f, s) => Written(f, s)'
        /\ \A s : Raised(f, s) => Raised(f, s)'
    BY DEF Asked, Written, Raised, Awaits, Goto, TypeOK, ProcessorsOK
  <1>. QED BY <1>1 DEF Holders, InQueues, InBatches, InLPDetectors, HeldOnce, HeldBy

LEMMA SubmitOwn ==
    ASSUME TypeOK, NEW f \in Frame, Prompt(f), SubmitFrame(f.camera)
    PROVE  Prompt(f)'
  <1>. USE DEF queueVars, frameVars
  <1>. DEFINE c == f.camera  s == processor[c].stage  q == inQueue[s]
              p == processor[c].frame  r == Append(q, p)
  <1>1. c \in Cameras /\ At(c, "push")
    BY FrameFacts DEF SubmitFrame
  <1>2. s \in Stage /\ p \in Frame /\ q \in Seq(Frame)
    BY <1>1 DEF SubmitFrame, TypeOK, ProcessorsOK, QueuesOK, At
  <1>3. /\ inQueue'[s] = r /\ \A t \in Stage : t # s => inQueue'[t] = inQueue[t]
        /\ detector' = detector /\ lpDetector' = lpDetector
        /\ processed' = processed /\ predictions' = predictions
        /\ captured' = captured /\ frameQueue' = frameQueue /\ trackedQueue' = trackedQueue
    BY <1>2 DEF SubmitFrame, TypeOK, QueuesOK
  <1>4. /\ processor'[c].pc = "check" /\ processor'[c].frame = p
        /\ processor'[c].stage = s /\ processor'[c].seen = processor[c].seen
    BY <1>1 DEF SubmitFrame, Goto, TypeOK, ProcessorsOK
  <1>5. NotHeld(f)
    BY <1>1, OnlyAwaitedHeld DEF Prompt, At
  <1>6. p = f => f \notin processed /\ predictions[f] = Before(s)
    BY <1>1 DEF Prompt, InHand, At
  <1>7. \A i \in 1 .. Len(r) : r[i] = f => i = Len(r) /\ p = f
    <2>1. \A i \in 1 .. Len(q) : q[i] # f
      BY <1>2, <1>5 DEF NotHeld
    <2>. HIDE DEF q, p
    <2>. QED BY <1>2, <2>1, AppendFacts
  <1>8. \A t \in Stage : t = s /\ p = f => Asked(f, t)'
    BY <1>3, <1>4, <1>6 DEF Asked, Awaits
  <1>. HIDE DEF s, q, p, r
  <1>9. InQueues(f)'
    BY <1>2, <1>3, <1>5, <1>7, <1>8 DEF InQueues, NotHeld
  <1>10. InBatches(f)' /\ InLPDetectors(f)'
    BY <1>3, <1>5 DEF InBatches, InLPDetectors, NotHeld, HeldBy
  <1>11. HeldOnce(f)'
    BY <1>2, <1>3, <1>5, <1>7, StageFacts DEF HeldOnce, NotHeld, HeldBy
  <1>12. InHand(f)'
    BY <1>3, <1>4, <1>6 DEF InHand, c
  <1>13. Fresh(f)' /\ Complete(f)'
    BY <1>3 DEF Prompt, Fresh, Ahead, Complete, Tracked
  <1>. QED BY <1>9, <1>10, <1>11, <1>12, <1>13 DEF Prompt, Holders

\* The frame leaves predict() on time: nobody holds it any more.
LEMMA CheckOwn ==
    ASSUME TypeOK, NEW f \in Frame, Prompt(f), f.camera \notin overtaken', CheckProcessed(f.camera)
    PROVE  Prompt(f)'
  <1>. USE DEF queueVars, frameVars
  <1>. DEFINE c == f.camera  p == processor[c].frame
  <1>1. c \in Cameras /\ At(c, "check")
    BY FrameFacts DEF CheckProcessed
  <1>2. /\ processed' = processed /\ predictions' = predictions
        /\ inQueue' = inQueue /\ detector' = detector /\ lpDetector' = lpDetector
        /\ captured' = captured /\ frameQueue' = frameQueue /\ trackedQueue' = trackedQueue
    BY DEF CheckProcessed
  <1>3. Fresh(f)' /\ Complete(f)'
    BY <1>2 DEF Prompt, Fresh, Ahead, Complete, Tracked
  <1>4. /\ processor'[c].frame = p /\ processor'[c].stage = processor[c].stage
        /\ processor'[c].pc = IF p \in processed THEN "reset" ELSE "lock"
    BY <1>1 DEF CheckProcessed, Goto, TypeOK, ProcessorsOK
  <1>5. InHand(f)'
    BY <1>1, <1>2, <1>4 DEF Prompt, InHand, At
  <1>6. Holders(f)'
    <2>1. CASE p # f
      BY <1>2, <2>1, QuietHolders DEF Prompt
    <2>2. CASE p = f /\ f \notin processed
      BY <1>1, <1>2, <2>2, WaitingHolders DEF CheckProcessed, Prompt, At
    <2>3. CASE p = f /\ f \in processed
      <3>1. ~NotifyPending(f)
        BY <2>3 DEF CheckProcessed
      <3>2. \A d \in Detectors : \A i \in 1 .. Len(detector[d].batch) : detector[d].batch[i] # f
        <4>. SUFFICES ASSUME NEW d \in Detectors, NEW i \in 1 .. Len(detector[d].batch),
                             detector[d].batch[i] = f
                      PROVE  FALSE
          OBVIOUS
        <4>1. i = 1 /\ detector[d].pc = "notify"
          BY <2>3 DEF Prompt, Holders, InBatches, Asked, Written
        <4>2. Head(detector[d].batch) = f
          BY <4>1, TailElements DEF TypeOK, DetectorsOK
        <4>. QED BY <3>1, <4>1, <4>2 DEF NotifyPending
      <3>3. NotHeld(f)
        BY <2>3, <3>1, <3>2 DEF Prompt, Holders, InQueues, InLPDetectors, Asked, Written,
                               NotHeld, NotifyPending, HeldBy
      <3>4. NotHeld(f)'
        BY <1>2, <3>3 DEF NotHeld, HeldBy
      <3>. QED BY <3>4, NotHeldIsSound
    <2>. QED BY <2>1, <2>2, <2>3
  <1>. QED BY <1>3, <1>5, <1>6 DEF Prompt

LEMMA PopOwn ==
    ASSUME TypeOK, NEW f \in Frame, Prompt(f), PopFrame(f.camera)
    PROVE  Prompt(f)'
  <1>. USE DEF queueVars, frameVars
  <1>. DEFINE c == f.camera  q == frameQueue[c]
  <1>1. c \in Cameras /\ At(c, "pop") /\ q \in Seq(Frame) /\ q # <<>>
    BY FrameFacts DEF PopFrame, TypeOK, QueuesOK
  <1>2. /\ processed' = processed /\ predictions' = predictions
        /\ inQueue' = inQueue /\ detector' = detector /\ lpDetector' = lpDetector
        /\ captured' = captured /\ frameQueue'[c] = Tail(q) /\ trackedQueue' = trackedQueue
    BY <1>1 DEF PopFrame, TypeOK, QueuesOK
  <1>3. processor'[c].frame = Head(q) /\ processor'[c].pc = "push" /\ processor'[c].stage = "object"
    BY <1>1 DEF PopFrame, TypeOK, ProcessorsOK, IdleProcessor
  <1>4. Holders(f)'
    BY <1>1, <1>2, QuietHolders DEF Prompt, At
  <1>5. /\ Head(q) = f => Ahead(f)
        /\ Ahead(f)' => Ahead(f)
    <2>1. /\ Head(q) = q[1] /\ 1 \in 1 .. Len(q)
          /\ \A i \in 1 .. Len(Tail(q)) : Tail(q)[i] = q[i + 1] /\ i + 1 \in 1 .. Len(q)
      <3>. HIDE DEF q
      <3>. QED BY <1>1, TailElements
    <2>. QED BY <1>2, <2>1 DEF Ahead
  <1>6. InHand(f)'
    BY <1>2, <1>3, <1>5 DEF Prompt, Fresh, InHand, Before
  <1>7. Fresh(f)' /\ Complete(f)'
    BY <1>2, <1>5 DEF Prompt, Fresh, Complete, Tracked
  <1>. QED BY <1>4, <1>6, <1>7 DEF Prompt

LEMMA ResetOwn ==
    ASSUME TypeOK, NEW f \in Frame, Prompt(f), ResetProcessed(f.camera)
    PROVE  Prompt(f)'
  <1>. USE DEF queueVars, frameVars
  <1>. DEFINE c == f.camera  p == processor[c]
  <1>1. c \in Cameras /\ p.pc = "reset" /\ p.stage \in Stage
    BY FrameFacts DEF ResetProcessed, At, TypeOK, ProcessorsOK
  <1>2. /\ predictions' = predictions /\ processed' = processed \ {p.frame}
        /\ inQueue' = inQueue /\ detector' = detector /\ lpDetector' = lpDetector
        /\ captured' = captured /\ frameQueue' = frameQueue /\ trackedQueue' = trackedQueue
    BY DEF ResetProcessed
  <1>3. /\ processor'[c].frame = p.frame /\ processor'[c].stage = p.stage
        /\ processor'[c].pc = IF p.stage = "object" THEN "track" ELSE "emit"
        /\ p.stage = "object" => processor'[c].seen = predictions[p.frame]
    BY <1>1 DEF ResetProcessed, TypeOK, ProcessorsOK
  <1>4. Holders(f)'
    BY <1>1, <1>2, QuietHolders DEF Prompt
  <1>5. p.frame = f => predictions[f] = Result(p.stage)
    BY <1>1 DEF Prompt, InHand
  <1>6. InHand(f)'
    <2>1. CASE p.stage = "object"
      BY <1>2, <1>3, <1>5, <2>1 DEF InHand, Result
    <2>2. CASE p.stage = "lp"
      BY <1>2, <1>3, <1>5, <2>2 DEF InHand
    <2>. QED BY <1>1, <2>1, <2>2 DEF Stage
  <1>7. Fresh(f)' /\ Complete(f)'
    BY <1>2 DEF Prompt, Fresh, Ahead, Complete, Tracked
  <1>. QED BY <1>4, <1>6, <1>7 DEF Prompt

LEMMA TrackOwn ==
    ASSUME TypeOK, FlowProofs!FlowInv, PromptInv,
           NEW f \in Frame, Prompt(f), TrackFrame(f.camera)
    PROVE  Prompt(f)'
  <1>. USE DEF queueVars, frameVars
  <1>. DEFINE c == f.camera  p == processor[c]
  <1>1. c \in Cameras /\ p.pc = "track" /\ p.frame \in Frame /\ ~At(c, "pop")
    BY FrameFacts DEF TrackFrame, At, TypeOK, ProcessorsOK
  <1>2. /\ processed' = processed
        /\ inQueue' = inQueue /\ detector' = detector /\ lpDetector' = lpDetector
        /\ captured' = captured /\ frameQueue' = frameQueue /\ trackedQueue' = trackedQueue
    BY DEF TrackFrame
  <1>3. processor'[c].frame = p.frame /\ processor'[c].stage = "lp" /\ processor'[c].pc = "push"
    BY <1>1 DEF TrackFrame, TypeOK, ProcessorsOK
  <1>4. predictions'[f] = IF p.frame = f
                          THEN IF "detected" \in p.seen THEN {"tracked"} ELSE {}
                          ELSE predictions[f]
    BY <1>1 DEF TrackFrame, TypeOK, FramesOK
  <1>5. p.frame = f => f \notin processed /\ p.seen = {"detected"}
    BY <1>1 DEF Prompt, InHand
  <1>6. p.frame = f => ~Ahead(f) /\ ~Tracked(f)
    BY <1>1, OwnFrame
  <1>7. Holders(f)'
    BY <1>1, <1>2, QuietHolders DEF Prompt
  <1>8. InHand(f)'
    BY <1>2, <1>3, <1>4, <1>5 DEF InHand, Before
  <1>9. Fresh(f)' /\ Complete(f)'
    BY <1>2, <1>4, <1>6 DEF Prompt, Fresh, Ahead, Complete, Tracked
  <1>. QED BY <1>7, <1>8, <1>9 DEF Prompt

LEMMA LeaveOwn ==
    ASSUME TypeOK, NEW f \in Frame, Prompt(f), RefuseFrame(f.camera) \/ EmitFrame(f.camera)
    PROVE  Prompt(f)'
  <1>. USE DEF queueVars, frameVars
  <1>. DEFINE c == f.camera  p == processor[c].frame
  <1>1. c \in Cameras /\ processor[c].pc \in {"push", "emit"} /\ p \in Frame
    BY FrameFacts DEF RefuseFrame, EmitFrame, At, TypeOK, ProcessorsOK
  <1>2. /\ processed' = processed /\ predictions' = predictions
        /\ inQueue' = inQueue /\ detector' = detector /\ lpDetector' = lpDetector
        /\ captured' = captured /\ frameQueue' = frameQueue
    BY DEF RefuseFrame, EmitFrame
  <1>3. processor'[c].frame = NoFrame
    BY <1>1 DEF RefuseFrame, EmitFrame, TypeOK, ProcessorsOK, IdleProcessor
  <1>4. Holders(f)'
    BY <1>1, <1>2, QuietHolders DEF Prompt
  <1>5. InHand(f)' /\ Fresh(f)'
    BY <1>2, <1>3, PipelineAssumption DEF Prompt, InHand, Fresh, Ahead
  <1>6. Complete(f)'
    <2>1. CASE trackedQueue' = trackedQueue
      BY <1>2, <2>1 DEF Prompt, Complete, Tracked
    <2>2. CASE EmitFrame(c) /\ trackedQueue' = Append(trackedQueue, p)
      <3>1. p = f => predictions[f] = Result("lp")
        BY <2>2 DEF EmitFrame, At, Prompt, InHand
      <3>2. trackedQueue \in Seq(Frame)
        BY DEF TypeOK, QueuesOK
      <3>. HIDE DEF p
      <3>3. p # f /\ ~Tracked(f) => ~Tracked(f)'
        BY <1>1, <2>2, <3>2, AppendOther DEF Tracked
      <3>. QED BY <1>2, <3>1, <3>3 DEF Prompt, Complete
    <2>. QED BY <2>1, <2>2 DEF RefuseFrame, EmitFrame
  <1>. QED BY <1>4, <1>5, <1>6 DEF Prompt

LEMMA PromptOwn ==
    ASSUME TypeOK, FlowProofs!FlowInv, PromptInv, NEW f \in Frame, Prompt(f),
           f.camera \notin overtaken', ProcessorNext(f.camera)
    PROVE  Prompt(f)'
  <1>1. CASE BeginWait(f.camera)
    <2>1. f.camera \in Cameras /\ processor[f.camera].pc = "lock"
      BY <1>1, FrameFacts DEF BeginWait, At
    <2>2. /\ processed' = processed /\ predictions' = predictions
          /\ inQueue' = inQueue /\ detector' = detector /\ lpDetector' = lpDetector
          /\ captured' = captured /\ frameQueue' = frameQueue /\ trackedQueue' = trackedQueue
      BY <1>1 DEF BeginWait, queueVars, frameVars
    <2>3. Holders(f)'
      BY <1>1, <2>1, <2>2, WaitingHolders DEF BeginWait, Prompt
    <2>4. InHand(f)' /\ Fresh(f)' /\ Complete(f)'
      BY <1>1, <2>1, <2>2 DEF BeginWait, Goto, TypeOK, ProcessorsOK,
                              Prompt, InHand, Fresh, Ahead, Complete, Tracked
    <2>. QED BY <2>3, <2>4 DEF Prompt
  <1>2. CASE WaitTimesOut(f.camera)
    BY <1>2 DEF WaitTimesOut
  <1>. QED BY <1>1, <1>2, PopOwn, SubmitOwn, CheckOwn, ResetOwn, TrackOwn, LeaveOwn DEF ProcessorNext

\* A detector's new state, written as a record.
LEMMA DetectorRecord ==
    ASSUME TypeOK, NEW d \in Detectors
    PROVE  /\ \A pc : [detector EXCEPT ![d].pc = pc]
                        = [detector EXCEPT ![d] = [pc |-> pc, batch |-> detector[d].batch]]
           /\ NextResult(d) => detector' = [detector EXCEPT ![d] =
                    [pc |-> IF Len(detector[d].batch) = 1 THEN "pop" ELSE "answer",
                     batch |-> Tail(detector[d].batch)]]
  <1>1. detector[d] \in [pc : DetectorPc, batch : Seq(Frame)]
    BY DEF TypeOK, DetectorsOK
  <1>2. \A pc : [detector[d] EXCEPT !.pc = pc] = [pc |-> pc, batch |-> detector[d].batch]
    BY <1>1
  <1>3. NextResult(d) => detector' = [detector EXCEPT ![d] =
                    [pc |-> IF Len(detector[d].batch) = 1 THEN "pop" ELSE "answer",
                     batch |-> Tail(detector[d].batch)]]
    BY <1>1 DEF NextResult
  <1>. QED BY <1>2, <1>3

\* A detector goes on, and f is not the frame whose answer it is writing.
LEMMA BatchHolders ==
    ASSUME TypeOK, NEW f \in Frame, InBatches(f), NEW d \in Detectors, NEW pc, NEW b,
           detector' = [detector EXCEPT ![d] = [pc |-> pc, batch |-> b]],
           Asked(f, "object") => Asked(f, "object")',
           Written(f, "object") => Written(f, "object")',
           Raised(f, "object") => Raised(f, "object")',
           \A i \in 1 .. Len(b) : b[i] = f =>
                Asked(f, "object") /\ (i = 1 => pc \notin {"flag", "notify"})
    PROVE  InBatches(f)'
  <1>1. detector'[d] = [pc |-> pc, batch |-> b]
        /\ \A e \in Detectors : e # d => detector'[e] = detector[e]
    BY DEF TypeOK, DetectorsOK
  <1>. QED BY <1>1 DEF InBatches

\* The one place of a frame that a detector is about to answer.
LEMMA SoleDetector ==
    ASSUME TypeOK, DetectedOnce, NEW f \in Frame, Prompt(f), NEW d \in Detectors,
           detector[d].batch # <<>>, Head(detector[d].batch) = f
    PROVE  /\ Awaits(f, "object")
           /\ \A s \in Stage : \A i \in 1 .. Len(inQueue[s]) : inQueue[s][i] # f
           /\ \A e \in Detectors : \A i \in 1 .. Len(detector[e].batch) :
                    detector[e].batch[i] = f => e = d /\ i = 1
           /\ \A l \in LPDetectors : ~HeldBy(l, f)
  <1>1. 1 \in 1 .. Len(detector[d].batch) /\ detector[d].batch[1] = f
    BY TailElements DEF TypeOK, DetectorsOK
  <1>2. Awaits(f, "object")
    BY <1>1 DEF Prompt, Holders, InBatches, Asked, Written, Raised
  <1>3. \A e \in Detectors : \A i \in 1 .. Len(detector[e].batch) :
                    detector[e].batch[i] = f => e = d /\ i = 1
    BY <1>1 DEF DetectedOnce, NoFrameTwice, Batches
  <1>4. \A i \in 1 .. Len(inQueue["object"]) : inQueue["object"][i] # f
    BY <1>1 DEF DetectedOnce, NoFrameTwice, Batches
  <1>5. \A i \in 1 .. Len(inQueue["lp"]) : inQueue["lp"][i] # f
    BY <1>2, StageFacts DEF Prompt, Holders, InQueues, Asked, Awaits
  <1>6. \A l \in LPDetectors : ~HeldBy(l, f)
    BY <1>2 DEF Prompt, Holders, InLPDetectors, Asked, Written, Raised, Awaits
  <1>. QED BY <1>2, <1>3, <1>4, <1>5, <1>6 DEF Stage

\* What a detector's own steps leave alone.
DetectorQuiet ==
    /\ captured' = captured /\ frameQueue' = frameQueue /\ trackedQueue' = trackedQueue
    /\ lpDetector' = lpDetector

LEMMA QuietRest ==
    ASSUME NEW f \in Frame, Prompt(f), Same(f), DetectorQuiet
    PROVE  InHand(f)' /\ Fresh(f)' /\ Complete(f)'
  BY SameRest DEF DetectorQuiet, Ahead, Tracked

LEMMA QuietPool ==
    ASSUME NEW f \in Frame, Prompt(f), Same(f), DetectorQuiet, inQueue' = inQueue
    PROVE  InQueues(f)' /\ InLPDetectors(f)' /\ HeldOnce(f)'
  BY SameStatus DEF Prompt, Holders, DetectorQuiet, InQueues, InLPDetectors, HeldOnce, HeldBy

LEMMA PromptDetectorPop ==
    ASSUME TypeOK, NEW f \in Frame, Prompt(f), NEW d \in Detectors, DetectorPop(d)
    PROVE  Prompt(f)'
  <1>. DEFINE q == inQueue["object"]  g == Head(q)  b == detector[d].batch
              b2 == IF g \in expired THEN b ELSE Append(b, g)
  <1>1. /\ q \in Seq(Frame) /\ q # <<>> /\ b \in Seq(Frame) /\ detector[d].pc = "pop"
        /\ inQueue'["object"] = Tail(q) /\ inQueue'["lp"] = inQueue["lp"]
        /\ detector' = [detector EXCEPT ![d] = [pc |-> "more", batch |-> b2]]
    BY StageFacts DEF DetectorPop, TypeOK, QueuesOK, DetectorsOK
  <1>2. Same(f) /\ DetectorQuiet
    BY DEF DetectorPop, Same, DetectorQuiet, frameVars
  <1>3. /\ g = q[1] /\ 1 \in 1 .. Len(q) /\ g \in Frame
        /\ \A i \in 1 .. Len(Tail(q)) : Tail(q)[i] = q[i + 1] /\ i + 1 \in 1 .. Len(q)
    <2>. HIDE DEF q
    <2>. QED BY <1>1, TailElements DEF g
  <1>4. \A i \in 1 .. Len(q) : q[i] = f => Asked(f, "object")
    BY StageFacts DEF Prompt, Holders, InQueues
  <1>5. InQueues(f)'
    <2>1. \A i \in 1 .. Len(inQueue'["object"]) : inQueue'["object"][i] = f => Asked(f, "object")'
      BY <1>1, <1>2, <1>3, <1>4, SameStatus
    <2>2. \A i \in 1 .. Len(inQueue'["lp"]) : inQueue'["lp"][i] = f => Asked(f, "lp")'
      BY <1>1, <1>2, SameStatus, StageFacts DEF Prompt, Holders, InQueues
    <2>. QED BY <2>1, <2>2 DEF InQueues, Stage
  <1>6. InBatches(f)'
    <2>1. \A i \in 1 .. Len(b) : b[i] = f => Asked(f, "object")
      BY <1>1 DEF Prompt, Holders, InBatches
    <2>2. \A i \in 1 .. Len(b2) : b2[i] = f => Asked(f, "object")
      <3>. HIDE DEF b, g
      <3>. QED BY <1>1, <1>3, <1>4, <2>1, AppendFacts
    <2>3. detector' = [detector EXCEPT ![d] = [pc |-> "more", batch |-> b2]]
      BY <1>1
    <2>4. InBatches(f)
      BY DEF Prompt, Holders
    <2>. HIDE DEF b2
    <2>5. \A i \in 1 .. Len(b2) : b2[i] = f =>
                Asked(f, "object") /\ (i = 1 => "more" \notin {"flag", "notify"})
      BY <2>2
    <2>6. /\ Asked(f, "object") => Asked(f, "object")'
          /\ Written(f, "object") => Written(f, "object")'
          /\ Raised(f, "object") => Raised(f, "object")'
      BY <1>2, SameStatus
    <2>. QED BY <2>3, <2>4, <2>5, <2>6, BatchHolders
  <1>7. InLPDetectors(f)' /\ HeldOnce(f)'
    BY <1>1, <1>2, SameStatus DEF Prompt, Holders, DetectorQuiet, InLPDetectors, HeldOnce, HeldBy
  <1>. QED BY <1>2, <1>5, <1>6, <1>7, QuietRest DEF Prompt, Holders

\* A detector goes on to other work: what is left of its batch still waits.
LEMMA PromptBatch ==
    ASSUME TypeOK, NEW f \in Frame, Prompt(f), NEW d \in Detectors, NEW pc, NEW b,
           detector' = [detector EXCEPT ![d] = [pc |-> pc, batch |-> b]],
           inQueue' = inQueue, DetectorQuiet, Same(f),
           pc \notin {"flag", "notify"},
           \/ b = <<>>
           \/ b = detector[d].batch /\ detector[d].pc \notin {"flag", "notify"}
           \/ detector[d].batch # <<>> /\ b = Tail(detector[d].batch)
    PROVE  Prompt(f)'
  <1>1. \A i \in 1 .. Len(b) : b[i] = f => Asked(f, "object")
    <2>1. CASE b = <<>>
      BY <2>1
    <2>2. CASE b = detector[d].batch /\ detector[d].pc \notin {"flag", "notify"}
      BY <2>2 DEF Prompt, Holders, InBatches
    <2>3. CASE detector[d].batch # <<>> /\ b = Tail(detector[d].batch)
      <3>1. \A i \in 1 .. Len(b) : /\ b[i] = detector[d].batch[i + 1]
                                   /\ i + 1 \in 1 .. Len(detector[d].batch)
                                   /\ i + 1 # 1
        BY <2>3, TailElements DEF TypeOK, DetectorsOK
      <3>. QED BY <3>1 DEF Prompt, Holders, InBatches
    <2>. QED BY <2>1, <2>2, <2>3
  <1>2. InBatches(f)'
    BY <1>1, SameStatus, BatchHolders DEF Prompt, Holders
  <1>. QED BY <1>2, QuietRest, QuietPool DEF Prompt, Holders

\* A detector writes the answer to f and raises its flag.
LEMMA PromptAnswer ==
    ASSUME TypeOK, FlowProofs!FlowInv, PromptInv, DetectedOnce, NEW f \in Frame, Prompt(f),
           NEW d \in Detectors, DetectorAdd(d) \/ DetectorFlag(d)
    PROVE  Prompt(f)'
  <1>. USE DEF queueVars
  <1>. DEFINE b == detector[d].batch  pc2 == IF DetectorAdd(d) THEN "flag" ELSE "notify"
  <1>1. /\ b # <<>> /\ b \in Seq(Frame) /\ detector[d].pc = IF DetectorAdd(d) THEN "add" ELSE "flag"
        /\ detector' = [detector EXCEPT ![d].pc = pc2]
        /\ inQueue' = inQueue /\ DetectorQuiet /\ processor' = processor
    BY DEF DetectorAdd, DetectorFlag, DetectorQuiet, TypeOK, DetectorsOK
  <1>2. detector'[d].pc = pc2 /\ detector'[d].batch = b
        /\ \A e \in Detectors : e # d => detector'[e] = detector[e]
    BY <1>1 DEF TypeOK, DetectorsOK
  <1>3. 1 \in 1 .. Len(b) /\ b[1] = Head(b) /\ Head(b) \in Frame
    <2>. HIDE DEF b
    <2>. QED BY <1>1, TailElements
  <1>4. CASE Head(b) # f
    <2>1. Same(f)
      BY <1>1, <1>3, <1>4 DEF DetectorAdd, DetectorFlag, Same, TypeOK, FramesOK
    <2>2. InBatches(f)'
      BY <1>2, <1>3, <1>4, <2>1, SameStatus DEF Prompt, Holders, InBatches
    <2>. QED BY <1>1, <2>1, <2>2, QuietRest, QuietPool DEF Prompt, Holders
  <1>5. CASE Head(b) = f
    <2>1. /\ Awaits(f, "object")
          /\ \A s \in Stage : \A i \in 1 .. Len(inQueue[s]) : inQueue[s][i] # f
          /\ \A e \in Detectors : \A i \in 1 .. Len(detector[e].batch) :
                    detector[e].batch[i] = f => e = d /\ i = 1
          /\ \A l \in LPDetectors : ~HeldBy(l, f)
      BY <1>1, <1>5, SoleDetector
    <2>2. Awaits(f, "object")'
      BY <1>1, <2>1 DEF Awaits
    <2>3. (pc2 = "flag" /\ Written(f, "object")') \/ (pc2 = "notify" /\ Raised(f, "object")')
      <3>1. CASE DetectorAdd(d)
        <4>1. Asked(f, "object")
          BY <1>1, <1>3, <1>5, <3>1 DEF Prompt, Holders, InBatches
        <4>2. predictions'[f] = {"detected"} /\ processed' = processed
          BY <1>5, <3>1, <4>1 DEF DetectorAdd, Asked, Before, TypeOK, FramesOK
        <4>. QED BY <2>2, <3>1, <4>1, <4>2 DEF Asked, Written, Result
      <3>2. CASE ~DetectorAdd(d)
        <4>1. Written(f, "object")
          BY <1>1, <1>3, <1>5, <3>2 DEF Prompt, Holders, InBatches
        <4>2. predictions'[f] = predictions[f] /\ f \in processed'
          BY <1>5, <3>2 DEF DetectorFlag
        <4>. QED BY <2>2, <3>2, <4>1, <4>2 DEF Written, Raised
      <3>. QED BY <3>1, <3>2
    <2>4. Holders(f)'
      <3>1. InBatches(f)'
        BY <1>2, <2>1, <2>3 DEF InBatches
      <3>2. InQueues(f)' /\ InLPDetectors(f)' /\ HeldOnce(f)'
        BY <1>1, <2>1, StageFacts DEF DetectorQuiet, InQueues, InLPDetectors, HeldOnce, HeldBy
      <3>. QED BY <3>1, <3>2 DEF Holders
    <2>5. InHand(f)'
      BY <2>2, <2>3 DEF InHand, Awaits, Written, Raised
    <2>6. ~Ahead(f)' /\ ~Tracked(f)'
      <3>1. ~At(f.camera, "pop") /\ processor[f.camera].frame = f
        BY <2>1 DEF Awaits, At
      <3>2. ~Ahead(f) /\ ~Tracked(f)
        BY <3>1, OwnFrame
      <3>. QED BY <1>1, <3>2 DEF DetectorQuiet, Ahead, Tracked
    <2>. QED BY <2>4, <2>5, <2>6 DEF Prompt, Fresh, Complete
  <1>. QED BY <1>4, <1>5

\* notify_all on the condition of frame g's camera wakes nobody but g's processor.
LEMMA NotifyRest ==
    ASSUME TypeOK, NEW f \in Frame, Prompt(f), NEW g \in Frame, NotifyAll(g.camera),
           g.camera = f.camera => Prompt(g) /\ \E s \in Stage : Raised(g, s),
           processed' = processed, predictions' = predictions,
           captured' = captured, frameQueue' = frameQueue, trackedQueue' = trackedQueue
    PROVE  /\ InHand(f)' /\ Fresh(f)' /\ Complete(f)'
           /\ Same(f) \/ (NotHeld(f) \/ f = g)
  <1>1. f.camera \in Cameras /\ g.camera \in Cameras
    BY FrameFacts
  <1>2. Fresh(f)' /\ Complete(f)'
    BY DEF Prompt, Fresh, Complete, Ahead, Tracked
  <1>3. CASE g.camera # f.camera \/ ~At(g.camera, "waiting")
    <2>1. Same(f)
      BY <1>1, <1>3 DEF NotifyAll, Goto, Same, TypeOK, ProcessorsOK
    <2>. QED BY <1>2, <2>1, SameStatus DEF Prompt
  <1>4. CASE g.camera = f.camera /\ At(g.camera, "waiting")
    <2>1. PICK s \in Stage : Raised(g, s)
      BY <1>4
    <2>2. processor[f.camera].frame = g
      BY <1>4, <2>1 DEF Raised, Awaits
    <2>3. /\ processor'[f.camera].pc = "reset" /\ processor'[f.camera].frame = g
          /\ processor'[f.camera].stage = s
      BY <1>1, <1>4, <2>1, <2>2 DEF NotifyAll, Goto, TypeOK, ProcessorsOK, Raised, Awaits
    <2>4. InHand(f)'
      BY <2>1, <2>3 DEF InHand, Raised
    <2>5. f # g => NotHeld(f)
      BY <2>2, OnlyAwaitedHeld DEF Prompt
    <2>. QED BY <1>2, <2>4, <2>5
  <1>. QED BY <1>3, <1>4

LEMMA PromptDetectorNotify ==
    ASSUME TypeOK, PromptInv, DetectedOnce, NEW f \in Frame, Prompt(f), f.camera \notin overtaken,
           NEW d \in Detectors, DetectorNotify(d)
    PROVE  Prompt(f)'
  <1>. USE DEF queueVars, frameVars
  <1>. DEFINE b == detector[d].batch  g == Head(b)
              pc2 == IF Len(b) = 1 THEN "pop" ELSE "answer"
  <1>1. /\ b # <<>> /\ b \in Seq(Frame) /\ detector[d].pc = "notify"
        /\ detector' = [detector EXCEPT ![d] = [pc |-> pc2, batch |-> Tail(b)]]
        /\ inQueue' = inQueue /\ DetectorQuiet
        /\ processed' = processed /\ predictions' = predictions
    BY DEF DetectorNotify, NextResult, DetectorQuiet, TypeOK, DetectorsOK
  <1>2. /\ 1 \in 1 .. Len(b) /\ b[1] = g /\ g \in Frame
        /\ \A i \in 1 .. Len(Tail(b)) : /\ Tail(b)[i] = b[i + 1]
                                        /\ i + 1 \in 1 .. Len(b) /\ i + 1 # 1
    <2>. HIDE DEF b
    <2>. QED BY <1>1, TailElements
  <1>3. g.camera = f.camera => Prompt(g) /\ Raised(g, "object")
    <2>. SUFFICES ASSUME g.camera = f.camera PROVE Prompt(g) /\ Raised(g, "object")
      OBVIOUS
    <2>1. Prompt(g)
      BY <1>2 DEF PromptInv
    <2>2. InBatches(g)
      BY <2>1 DEF Prompt, Holders
    <2>. HIDE DEF g
    <2>3. Raised(g, "object")
      BY <1>1, <1>2, <2>2 DEF InBatches
    <2>. QED BY <2>1, <2>3
  <1>4. NotifyAll(g.camera)
    BY DEF DetectorNotify
  <1>5. /\ InHand(f)' /\ Fresh(f)' /\ Complete(f)'
        /\ Same(f) \/ NotHeld(f) \/ f = g
    <2>. HIDE DEF g
    <2>. QED BY <1>1, <1>2, <1>3, <1>4, NotifyRest, StageFacts DEF DetectorQuiet
  <1>6. /\ detector'[d].batch = Tail(b)
        /\ \A e \in Detectors : e # d => detector'[e] = detector[e]
    BY <1>1 DEF TypeOK, DetectorsOK
  <1>7. CASE Same(f)
    <2>1. pc2 \notin {"flag", "notify"}
      OBVIOUS
    <2>. HIDE DEF pc2
    <2>. QED BY <1>1, <1>7, <2>1, PromptBatch
  <1>8. CASE NotHeld(f) \/ f = g
    <2>1. NotHeld(f)'
      <3>1. /\ \A s \in Stage : \A i \in 1 .. Len(inQueue[s]) : inQueue[s][i] # f
            /\ \A l \in LPDetectors : ~HeldBy(l, f)
        BY <1>1, <1>8, SoleDetector DEF NotHeld
      <3>2. \A e \in Detectors : \A i \in 1 .. Len(detector[e].batch) :
                detector[e].batch[i] = f => e = d /\ i = 1
        BY <1>1, <1>8, SoleDetector DEF NotHeld
      <3>3. ASSUME NEW e \in Detectors, NEW i \in 1 .. Len(detector'[e].batch)
            PROVE  detector'[e].batch[i] # f
        <4>1. CASE e = d
          <5>. HIDE DEF b
          <5>1. detector'[e].batch = Tail(b)
            BY <1>6, <4>1
          <5>2. detector'[e].batch[i] = b[i + 1] /\ i + 1 \in 1 .. Len(b) /\ i + 1 # 1
            BY <1>2, <3>3, <5>1
          <5>. QED BY <3>2, <5>2 DEF b
        <4>2. CASE e # d
          BY <1>6, <3>2, <3>3, <4>2
        <4>. QED BY <4>1, <4>2
      <3>4. inQueue' = inQueue /\ lpDetector' = lpDetector
        BY <1>1 DEF DetectorQuiet
      <3>5. \A s \in Stage : \A i \in 1 .. Len(inQueue'[s]) : inQueue'[s][i] # f
        BY <3>1, <3>4
      <3>6. \A l \in LPDetectors : ~HeldBy(l, f)'
        BY <3>1, <3>4 DEF HeldBy
      <3>. QED BY <3>3, <3>5, <3>6 DEF NotHeld
    <2>. QED BY <1>5, <2>1, NotHeldIsSound DEF Prompt
  <1>. QED BY <1>5, <1>7, <1>8

LEMMA PromptDetector ==
    ASSUME TypeOK, FlowProofs!FlowInv, PromptInv, DetectedOnce,
           NEW f \in Frame, Prompt(f), f.camera \notin overtaken,
           NEW d \in Detectors, DetectorNext(d) \/ DetectorFail(d)
    PROVE  Prompt(f)'
  <1>. USE DEF queueVars, frameVars
  <1>. DEFINE b == detector[d].batch
  <1>q. ASSUME inQueue' = inQueue, captured' = captured, frameQueue' = frameQueue,
               trackedQueue' = trackedQueue, lpDetector' = lpDetector,
               processor' = processor, processed' = processed, predictions' = predictions
        PROVE  Same(f) /\ DetectorQuiet
    BY <1>q DEF Same, DetectorQuiet
  <1>g. ASSUME NEW pc, pc \notin {"flag", "notify"}, detector' = [detector EXCEPT ![d].pc = pc],
               detector[d].pc \notin {"flag", "notify"},
               inQueue' = inQueue, DetectorQuiet, Same(f)
        PROVE  Prompt(f)'
    <2>1. detector' = [detector EXCEPT ![d] = [pc |-> pc, batch |-> b]]
      BY <1>g, DetectorRecord
    <2>. QED BY <1>g, <2>1, PromptBatch
  <1>1. CASE DetectorMore(d) \/ DetectorInfer(d)
    <2>. DEFINE pc == IF DetectorMore(d) THEN "pop" ELSE "answer"
    <2>1. detector' = [detector EXCEPT ![d].pc = pc] /\ pc \notin {"flag", "notify"}
      BY <1>1 DEF DetectorMore, DetectorInfer
    <2>2. Same(f) /\ DetectorQuiet /\ inQueue' = inQueue /\ detector[d].pc \notin {"flag", "notify"}
      BY <1>1, <1>q DEF DetectorMore, DetectorInfer, BatchComplete
    <2>. HIDE DEF pc
    <2>. QED BY <1>g, <2>1, <2>2
  <1>2. CASE DetectorFail(d)
    <2>. DEFINE pc == "dead"  none == <<>>
    <2>1. detector' = [detector EXCEPT ![d] = [pc |-> pc, batch |-> none]]
          /\ pc \notin {"flag", "notify"} /\ none = <<>>
      BY <1>2 DEF DetectorFail
    <2>2. Same(f) /\ DetectorQuiet /\ inQueue' = inQueue
      BY <1>2, <1>q DEF DetectorFail
    <2>. HIDE DEF pc, none
    <2>. QED BY <2>1, <2>2, PromptBatch
  <1>3. CASE DetectorCheckExpired(d)
    <2>1. Same(f) /\ DetectorQuiet /\ inQueue' = inQueue
          /\ detector[d].pc \notin {"flag", "notify"} /\ b # <<>>
      BY <1>3, <1>q DEF DetectorCheckExpired, TypeOK, DetectorsOK
    <2>2. CASE NextResult(d)
      <3>. DEFINE pc == IF Len(b) = 1 THEN "pop" ELSE "answer"
      <3>1. detector' = [detector EXCEPT ![d] = [pc |-> pc, batch |-> Tail(b)]]
        BY <2>2, DetectorRecord
      <3>2. pc \notin {"flag", "notify"}
        OBVIOUS
      <3>. HIDE DEF pc
      <3>. QED BY <2>1, <3>1, <3>2, PromptBatch
    <2>3. CASE detector' = [detector EXCEPT ![d].pc = "add"]
      <3>. DEFINE pc == "add"
      <3>1. detector' = [detector EXCEPT ![d].pc = pc] /\ pc \notin {"flag", "notify"}
        BY <2>3
      <3>. HIDE DEF pc
      <3>. QED BY <1>g, <2>1, <3>1
    <2>. QED BY <1>3, <2>2, <2>3 DEF DetectorCheckExpired
  <1>. QED BY <1>1, <1>2, <1>3, PromptDetectorPop, PromptAnswer, PromptDetectorNotify
           DEF DetectorNext

\* What a license plate detector's own steps leave alone.
LPQuiet ==
    /\ captured' = captured /\ frameQueue' = frameQueue /\ trackedQueue' = trackedQueue
    /\ detector' = detector

\* A license plate detector that does not hold f afterwards.
LEMMA PromptLPOther ==
    ASSUME TypeOK, NEW f \in Frame, Prompt(f), Same(f), NEW l \in LPDetectors,
           inQueue' = inQueue, LPQuiet,
           \A m \in LPDetectors : m # l => lpDetector'[m] = lpDetector[m],
           ~HeldBy(l, f)'
    PROVE  Prompt(f)'
  <1>1. \A m \in LPDetectors : HeldBy(m, f)' => m # l /\ HeldBy(m, f)
    BY DEF HeldBy
  <1>2. InLPDetectors(f)'
    BY <1>1, SameStatus DEF Prompt, Holders, InLPDetectors
  <1>3. HeldOnce(f)'
    BY <1>1 DEF Prompt, Holders, HeldOnce
  <1>4. InQueues(f)' /\ InBatches(f)'
    BY SameStatus DEF LPQuiet, Prompt, Holders, InQueues, InBatches
  <1>5. InHand(f)' /\ Fresh(f)' /\ Complete(f)'
    BY SameRest DEF LPQuiet, Ahead, Tracked
  <1>. QED BY <1>2, <1>3, <1>4, <1>5 DEF Prompt, Holders

\* The one place of a frame in the hands of a license plate detector.
LEMMA SoleLP ==
    ASSUME NEW f \in Frame, Prompt(f), NEW l \in LPDetectors, HeldBy(l, f)
    PROVE  /\ Awaits(f, "lp")
           /\ \A s \in Stage : \A i \in 1 .. Len(inQueue[s]) : inQueue[s][i] # f
           /\ \A e \in Detectors : \A i \in 1 .. Len(detector[e].batch) : detector[e].batch[i] # f
           /\ \A m \in LPDetectors : HeldBy(m, f) => m = l
  <1>1. Awaits(f, "lp")
    BY DEF Prompt, Holders, InLPDetectors, Asked, Written, Raised
  <1>2. \A i \in 1 .. Len(inQueue["object"]) : inQueue["object"][i] # f
    BY <1>1, StageFacts DEF Prompt, Holders, InQueues, Asked, Awaits
  <1>3. \A i \in 1 .. Len(inQueue["lp"]) : inQueue["lp"][i] # f
    BY DEF Prompt, Holders, HeldOnce
  <1>4. \A e \in Detectors : \A i \in 1 .. Len(detector[e].batch) : detector[e].batch[i] # f
    BY <1>1 DEF Prompt, Holders, InBatches, Asked, Written, Raised, Awaits
  <1>5. \A m \in LPDetectors : HeldBy(m, f) => m = l
    BY DEF Prompt, Holders, HeldOnce
  <1>. QED BY <1>1, <1>2, <1>3, <1>4, <1>5 DEF Stage

LEMMA PromptLPPop ==
    ASSUME TypeOK, NEW f \in Frame, Prompt(f), NEW l \in LPDetectors, LPPop(l)
    PROVE  Prompt(f)'
  <1>. DEFINE q == inQueue["lp"]  g == Head(q)
  <1>1. /\ q \in Seq(Frame) /\ q # <<>> /\ lpDetector[l].pc = "pop"
        /\ inQueue'["lp"] = Tail(q) /\ inQueue'["object"] = inQueue["object"]
        /\ \A m \in LPDetectors : m # l => lpDetector'[m] = lpDetector[m]
        /\ lpDetector'[l] = IF g \in expired THEN lpDetector[l]
                            ELSE [pc |-> "infer", frame |-> g, seen |-> predictions[g]]
    BY StageFacts DEF LPPop, TypeOK, QueuesOK, LPDetectorsOK
  <1>2. Same(f) /\ LPQuiet
    BY DEF LPPop, Same, LPQuiet, frameVars
  <1>3. /\ g = q[1] /\ 1 \in 1 .. Len(q)
        /\ \A i \in 1 .. Len(Tail(q)) : /\ Tail(q)[i] = q[i + 1]
                                        /\ i + 1 \in 1 .. Len(q) /\ i + 1 # 1 /\ i \in Nat
    <2>. HIDE DEF q
    <2>. QED BY <1>1, TailElements DEF g
  <1>4. \A i \in 1 .. Len(q) : q[i] = f => Asked(f, "lp")
    BY StageFacts DEF Prompt, Holders, InQueues
  <1>5. \A i, j \in 1 .. Len(q) : q[i] = f /\ q[j] = f => i = j
    BY DEF Prompt, Holders, HeldOnce
  <1>6. \A m \in LPDetectors : \A i \in 1 .. Len(q) : q[i] = f => ~HeldBy(m, f)
    BY DEF Prompt, Holders, HeldOnce
  <1>7. \A m \in LPDetectors : HeldBy(m, f)' =>
            \/ m # l /\ HeldBy(m, f) /\ lpDetector'[m] = lpDetector[m]
            \/ m = l /\ g = f /\ lpDetector'[l] = [pc |-> "infer", frame |-> g, seen |-> predictions[g]]
    BY <1>1 DEF HeldBy
  <1>8. InQueues(f)'
    <2>1. \A i \in 1 .. Len(inQueue'["lp"]) : inQueue'["lp"][i] = f => Asked(f, "lp")'
      BY <1>1, <1>2, <1>3, <1>4, SameStatus
    <2>2. \A i \in 1 .. Len(inQueue'["object"]) : inQueue'["object"][i] = f => Asked(f, "object")'
      BY <1>1, <1>2, SameStatus, StageFacts DEF Prompt, Holders, InQueues
    <2>. QED BY <2>1, <2>2 DEF InQueues, Stage
  <1>9. InLPDetectors(f)'
    <2>. SUFFICES ASSUME NEW m \in LPDetectors, HeldBy(m, f)'
                  PROVE  \/ lpDetector'[m].pc = "infer" /\ Asked(f, "lp")' /\ lpDetector'[m].seen = {"tracked"}
                         \/ lpDetector'[m].pc = "flag" /\ Written(f, "lp")'
                         \/ lpDetector'[m].pc = "notify" /\ Raised(f, "lp")'
      BY DEF InLPDetectors
    <2>1. CASE m # l
      BY <1>2, <1>7, <2>1, SameStatus DEF Prompt, Holders, InLPDetectors
    <2>2. CASE m = l
      <3>1. g = f /\ lpDetector'[m] = [pc |-> "infer", frame |-> g, seen |-> predictions[g]]
        BY <1>7, <2>2
      <3>2. Asked(f, "lp")
        BY <1>3, <1>4, <3>1
      <3>3. predictions[g] = {"tracked"}
        BY <3>1, <3>2 DEF Asked, Before
      <3>4. Asked(f, "lp")'
        BY <1>2, <3>2, SameStatus
      <3>. QED BY <3>1, <3>3, <3>4
    <2>. QED BY <2>1, <2>2
  <1>10. HeldOnce(f)'
    <2>1. \A i, j \in 1 .. Len(Tail(q)) : Tail(q)[i] = f /\ Tail(q)[j] = f => i = j
      BY <1>3, <1>5
    <2>2. \A m, n \in LPDetectors : HeldBy(m, f)' /\ HeldBy(n, f)' => m = n
      <3>1. \A m, n \in LPDetectors : HeldBy(m, f) /\ HeldBy(n, f) => m = n
        BY DEF Prompt, Holders, HeldOnce
      <3>2. g = f => \A m \in LPDetectors : ~HeldBy(m, f)
        BY <1>3, <1>6
      <3>. QED BY <1>7, <3>1, <3>2
    <2>3. \A i \in 1 .. Len(Tail(q)), m \in LPDetectors : Tail(q)[i] = f => ~HeldBy(m, f)'
      <3>1. \A i \in 1 .. Len(Tail(q)) : Tail(q)[i] = f => g # f
        BY <1>3, <1>5
      <3>2. \A i \in 1 .. Len(Tail(q)) : Tail(q)[i] = f => \A m \in LPDetectors : ~HeldBy(m, f)
        BY <1>3, <1>6
      <3>. QED BY <1>7, <3>1, <3>2
    <2>. QED BY <1>1, <2>1, <2>2, <2>3 DEF HeldOnce
  <1>11. InBatches(f)'
    BY <1>2, SameStatus DEF LPQuiet, Prompt, Holders, InBatches
  <1>12. InHand(f)' /\ Fresh(f)' /\ Complete(f)'
    BY <1>2, SameRest DEF LPQuiet, Ahead, Tracked
  <1>. QED BY <1>8, <1>9, <1>10, <1>11, <1>12 DEF Prompt, Holders

\* It writes the plates of f and raises its flag.
LEMMA PromptLPAnswer ==
    ASSUME TypeOK, FlowProofs!FlowInv, PromptInv, NEW f \in Frame, Prompt(f), NEW l \in LPDetectors,
           HeldBy(l, f), LPFlag(l) \/ (LPDetect(l) /\ f \notin expired)
    PROVE  Prompt(f)'
  <1>. USE DEF queueVars
  <1>. DEFINE pc2 == IF LPDetect(l) THEN "flag" ELSE "notify"
  <1>1. /\ lpDetector[l].pc = IF LPDetect(l) THEN "infer" ELSE "flag"
        /\ lpDetector[l].frame = f
        /\ lpDetector'[l].pc = pc2 /\ lpDetector'[l].frame = f
        /\ \A m \in LPDetectors : m # l => lpDetector'[m] = lpDetector[m]
        /\ inQueue' = inQueue /\ LPQuiet /\ processor' = processor
    BY DEF LPDetect, LPFlag, LPQuiet, HeldBy, TypeOK, LPDetectorsOK
  <1>2. /\ Awaits(f, "lp")
        /\ \A s \in Stage : \A i \in 1 .. Len(inQueue[s]) : inQueue[s][i] # f
        /\ \A e \in Detectors : \A i \in 1 .. Len(detector[e].batch) : detector[e].batch[i] # f
        /\ \A m \in LPDetectors : HeldBy(m, f) => m = l
    BY SoleLP
  <1>3. Awaits(f, "lp")'
    BY <1>1, <1>2 DEF Awaits
  <1>4. (pc2 = "flag" /\ Written(f, "lp")') \/ (pc2 = "notify" /\ Raised(f, "lp")')
    <2>1. CASE LPDetect(l)
      <3>1. Asked(f, "lp") /\ lpDetector[l].seen = {"tracked"}
        BY <1>1, <2>1 DEF Prompt, Holders, InLPDetectors, HeldBy
      <3>2. f \notin expired
        BY <2>1 DEF LPFlag, LPDetect
      <3>3. predictions'[f] = {"tracked", "plates"} /\ processed' = processed
        BY <1>1, <2>1, <3>1, <3>2 DEF LPDetect, TypeOK, FramesOK
      <3>. QED BY <1>3, <2>1, <3>1, <3>3 DEF Asked, Written, Result
    <2>2. CASE ~LPDetect(l)
      <3>1. Written(f, "lp")
        BY <1>1, <2>2 DEF Prompt, Holders, InLPDetectors, HeldBy
      <3>2. predictions'[f] = predictions[f] /\ f \in processed'
        BY <1>1, <2>2 DEF LPFlag
      <3>. QED BY <1>3, <2>2, <3>1, <3>2 DEF Written, Raised
    <2>. QED BY <2>1, <2>2
  <1>5. \A m \in LPDetectors : HeldBy(m, f)' => m = l
    BY <1>1, <1>2 DEF HeldBy
  <1>6. InLPDetectors(f)'
    BY <1>1, <1>4, <1>5 DEF InLPDetectors
  <1>7. InQueues(f)' /\ InBatches(f)' /\ HeldOnce(f)'
    BY <1>1, <1>2, <1>5, StageFacts DEF LPQuiet, InQueues, InBatches, HeldOnce
  <1>8. InHand(f)'
    BY <1>3, <1>4 DEF InHand, Awaits, Written, Raised
  <1>9. ~Ahead(f)' /\ ~Tracked(f)'
    <2>1. ~At(f.camera, "pop") /\ processor[f.camera].frame = f
      BY <1>2 DEF Awaits, At
    <2>2. ~Ahead(f) /\ ~Tracked(f)
      BY <2>1, OwnFrame
    <2>. QED BY <1>1, <2>2 DEF LPQuiet, Ahead, Tracked
  <1>. QED BY <1>6, <1>7, <1>8, <1>9 DEF Prompt, Holders, Fresh, Complete

LEMMA PromptLPNotify ==
    ASSUME TypeOK, PromptInv, NEW f \in Frame, Prompt(f), f.camera \notin overtaken,
           NEW l \in LPDetectors, LPNotify(l)
    PROVE  Prompt(f)'
  <1>. USE DEF queueVars, frameVars
  <1>. DEFINE g == lpDetector[l].frame
  <1>1. /\ lpDetector[l].pc = "notify" /\ g \in Frame
        /\ lpDetector'[l].frame = NoFrame
        /\ \A m \in LPDetectors : m # l => lpDetector'[m] = lpDetector[m]
        /\ inQueue' = inQueue /\ LPQuiet
        /\ processed' = processed /\ predictions' = predictions
        /\ NotifyAll(g.camera)
    BY DEF LPNotify, LPQuiet, TypeOK, LPDetectorsOK, IdleLPDetector
  <1>2. ~HeldBy(l, f)'
    BY <1>1, PipelineAssumption DEF HeldBy
  <1>3. g.camera = f.camera => Prompt(g) /\ Raised(g, "lp")
    <2>. SUFFICES ASSUME g.camera = f.camera PROVE Prompt(g) /\ Raised(g, "lp")
      OBVIOUS
    <2>1. Prompt(g)
      BY <1>1 DEF PromptInv
    <2>2. Raised(g, "lp")
      BY <1>1, <2>1 DEF Prompt, Holders, InLPDetectors, HeldBy
    <2>. QED BY <2>1, <2>2
  <1>4. /\ InHand(f)' /\ Fresh(f)' /\ Complete(f)'
        /\ Same(f) \/ NotHeld(f) \/ f = g
    <2>. HIDE DEF g
    <2>. QED BY <1>1, <1>3, NotifyRest, StageFacts DEF LPQuiet
  <1>5. CASE Same(f)
    BY <1>1, <1>2, <1>5, PromptLPOther
  <1>6. CASE NotHeld(f) \/ f = g
    <2>1. /\ \A s \in Stage : \A i \in 1 .. Len(inQueue[s]) : inQueue[s][i] # f
          /\ \A e \in Detectors : \A i \in 1 .. Len(detector[e].batch) : detector[e].batch[i] # f
          /\ \A m \in LPDetectors : HeldBy(m, f) => m = l
      <3>1. CASE NotHeld(f)
        BY <3>1 DEF NotHeld
      <3>2. CASE f = g
        <4>1. HeldBy(l, f)
          BY <1>1, <3>2 DEF HeldBy
        <4>. QED BY <4>1, SoleLP
      <3>. QED BY <1>6, <3>1, <3>2
    <2>2. \A m \in LPDetectors : ~HeldBy(m, f)'
      BY <1>1, <1>2, <2>1 DEF HeldBy
    <2>3. NotHeld(f)'
      BY <1>1, <2>1, <2>2 DEF NotHeld, LPQuiet
    <2>. QED BY <1>4, <2>3, NotHeldIsSound DEF Prompt
  <1>. QED BY <1>4, <1>5, <1>6

LEMMA PromptLP ==
    ASSUME TypeOK, FlowProofs!FlowInv, PromptInv,
           NEW f \in Frame, Prompt(f), f.camera \notin overtaken,
           NEW l \in LPDetectors, LPNext(l) \/ LPFail(l)
    PROVE  Prompt(f)'
  <1>. USE DEF queueVars, frameVars
  <1>1. CASE LPFail(l) \/ (LPDetect(l) /\ lpDetector[l].frame \in expired)
    <2>1. /\ Same(f) /\ inQueue' = inQueue /\ LPQuiet
          /\ \A m \in LPDetectors : m # l => lpDetector'[m] = lpDetector[m]
      BY <1>1 DEF LPFail, LPDetect, Same, LPQuiet, TypeOK, LPDetectorsOK
    <2>2. lpDetector'[l].frame = NoFrame
      BY <1>1 DEF LPFail, LPDetect, TypeOK, LPDetectorsOK, IdleLPDetector
    <2>3. ~HeldBy(l, f)'
      BY <2>2, PipelineAssumption DEF HeldBy
    <2>. QED BY <2>1, <2>3, PromptLPOther
  <1>2. CASE LPFlag(l) \/ (LPDetect(l) /\ lpDetector[l].frame \notin expired)
    <2>. DEFINE g == lpDetector[l].frame
    <2>1. /\ lpDetector[l].pc \in {"infer", "flag"} /\ g \in Frame
          /\ inQueue' = inQueue /\ LPQuiet
          /\ \A m \in LPDetectors : m # l => lpDetector'[m] = lpDetector[m]
          /\ lpDetector'[l].frame = g
      BY <1>2 DEF LPFlag, LPDetect, LPQuiet, TypeOK, LPDetectorsOK
    <2>2. CASE g # f
      <3>1. Same(f)
        BY <1>2, <2>1, <2>2 DEF LPFlag, LPDetect, Same, TypeOK, FramesOK
      <3>2. ~HeldBy(l, f)'
        BY <2>1, <2>2 DEF HeldBy
      <3>. QED BY <2>1, <3>1, <3>2, PromptLPOther
    <2>3. CASE g = f
      <3>1. HeldBy(l, f)
        BY <2>1, <2>3 DEF HeldBy
      <3>. QED BY <1>2, <2>3, <3>1, PromptLPAnswer
    <2>. QED BY <2>2, <2>3
  <1>. QED BY <1>1, <1>2, PromptLPPop, PromptLPNotify DEF LPNext

LEMMA PromptStep ==
    ASSUME TypeOK, FlowProofs!FlowInv, DetectedOnce, PromptInv, [Next]_vars,
           NEW f \in Frame, f.camera \notin overtaken'
    PROVE  Prompt(f)'
  <1>. USE DEF queueVars, frameVars, threadVars, historyVars
  <1>1. f.camera \notin overtaken
    <2>1. overtaken \subseteq overtaken'
      <3>1. ASSUME NEW c \in Cameras, CaptureNext(c) \/ ProcessorNext(c)
            PROVE  overtaken \subseteq overtaken'
        BY <3>1 DEF CaptureNext, CaptureFrame, SkipFrame, ProcessorNext, PopFrame, SubmitFrame,
           RefuseFrame, CheckProcessed, BeginWait, WaitTimesOut, ResetProcessed, TrackFrame, EmitFrame
      <3>2. ASSUME NEW d \in Detectors, DetectorNext(d) \/ DetectorFail(d)
            PROVE  overtaken \subseteq overtaken'
        BY <3>2 DEF DetectorNext, DetectorPop, DetectorMore, DetectorInfer, DetectorFail,
           DetectorCheckExpired, DetectorAdd, DetectorFlag, DetectorNotify
      <3>3. ASSUME NEW l \in LPDetectors, LPNext(l) \/ LPFail(l)
            PROVE  overtaken \subseteq overtaken'
        BY <3>3 DEF LPNext, LPPop, LPDetect, LPFlag, LPNotify, LPFail
      <3>4. CASE ConsumeTracked \/ UNCHANGED vars
        BY <3>4 DEF ConsumeTracked, vars
      <3>. QED BY <3>1, <3>2, <3>3, <3>4 DEF Next, Rest
    <2>. QED BY <2>1
  <1>2. Prompt(f)
    BY <1>1 DEF PromptInv
  <1>3. ASSUME NEW c \in Cameras, CaptureNext(c) PROVE Prompt(f)'
    BY <1>2, <1>3, PromptCapture
  <1>4. ASSUME NEW c \in Cameras, ProcessorNext(c) PROVE Prompt(f)'
    <2>1. CASE c = f.camera
      BY <1>2, <1>4, <2>1, PromptOwn
    <2>2. CASE c # f.camera
      BY <1>2, <1>4, <2>2, PromptOther
    <2>. QED BY <2>1, <2>2
  <1>5. ASSUME NEW d \in Detectors, DetectorNext(d) \/ DetectorFail(d) PROVE Prompt(f)'
    BY <1>1, <1>2, <1>5, PromptDetector
  <1>6. ASSUME NEW l \in LPDetectors, LPNext(l) \/ LPFail(l) PROVE Prompt(f)'
    BY <1>1, <1>2, <1>6, PromptLP
  <1>7. CASE ConsumeTracked \/ UNCHANGED vars
    <2>1. /\ Same(f) /\ inQueue' = inQueue /\ detector' = detector /\ lpDetector' = lpDetector
          /\ captured' = captured /\ frameQueue' = frameQueue
          /\ \/ trackedQueue' = trackedQueue
             \/ trackedQueue # <<>> /\ trackedQueue' = Tail(trackedQueue)
      BY <1>7 DEF ConsumeTracked, vars, Same
    <2>2. Tracked(f)' => Tracked(f)
      <3>1. trackedQueue \in Seq(Frame)
        BY <1>1 DEF TypeOK, QueuesOK
      <3>2. CASE trackedQueue' = trackedQueue
        BY <3>2 DEF Tracked
      <3>3. CASE trackedQueue # <<>> /\ trackedQueue' = Tail(trackedQueue)
        <4>1. \A i \in 1 .. Len(Tail(trackedQueue)) :
                 Tail(trackedQueue)[i] = trackedQueue[i + 1] /\ i + 1 \in 1 .. Len(trackedQueue)
          BY <3>1, <3>3, TailElements
        <4>. QED BY <3>3, <4>1 DEF Tracked
      <3>. QED BY <2>1, <3>2, <3>3
    <2>3. Ahead(f)' => Ahead(f)
      BY <2>1 DEF Ahead
    <2>. QED BY <1>2, <2>1, <2>2, <2>3, SameHolders, SameRest DEF Prompt
  <1>. QED BY <1>3, <1>4, <1>5, <1>6, <1>7 DEF Next, Rest

LEMMA DeliveredStep ==
    ASSUME TypeOK, [Next]_vars, TrackedDelivered
    PROVE  TrackedDelivered'
  <1>. USE DEF queueVars, threadVars, historyVars
  <1>. SUFFICES ASSUME NEW f \in Frame, Tracked(f)'
                PROVE  \E j \in 1 .. Len(delivered'[f.camera]) : delivered'[f.camera][j] = f
    BY DEF TrackedDelivered
  <1>. DEFINE d == delivered[f.camera]
  <1>1. f.camera \in Cameras /\ d \in Seq(Frame) /\ trackedQueue \in Seq(Frame)
    BY FrameFacts DEF TypeOK, FramesOK, QueuesOK
  <1>2. ASSUME Tracked(f), delivered'[f.camera] = d
        PROVE  \E j \in 1 .. Len(delivered'[f.camera]) : delivered'[f.camera][j] = f
    BY <1>2 DEF TrackedDelivered
  <1>3. ASSUME NEW c \in Cameras, EmitFrame(c)
        PROVE  \E j \in 1 .. Len(delivered'[f.camera]) : delivered'[f.camera][j] = f
    <2>. DEFINE p == processor[c].frame
    <2>1. p \in Frame /\ p.camera = c
      BY <1>3 DEF EmitFrame, At, TypeOK, ProcessorsOK
    <2>2. CASE trackedQueue' = trackedQueue /\ delivered' = delivered
      BY <1>2, <2>2 DEF Tracked
    <2>3. CASE /\ trackedQueue' = Append(trackedQueue, p)
               /\ delivered' = [delivered EXCEPT ![c] = Append(@, p)]
      <3>1. Tracked(f) \/ p = f
        <4>. HIDE DEF p
        <4>. QED BY <1>1, <2>1, <2>3, AppendOther DEF Tracked
      <3>2. c # f.camera => delivered'[f.camera] = d /\ p # f
        BY <1>1, <2>1, <2>3 DEF TypeOK, FramesOK
      <3>3. c = f.camera => delivered'[f.camera] = Append(d, p)
        BY <1>1, <2>3 DEF TypeOK, FramesOK
      <3>4. Tracked(f) => \E j \in 1 .. Len(d) : d[j] = f
        BY DEF TrackedDelivered
      <3>5. CASE c # f.camera
        BY <1>2, <3>1, <3>2, <3>5
      <3>6. CASE c = f.camera
        <4>. HIDE DEF d, p
        <4>1. /\ Len(d) \in Nat /\ Len(Append(d, p)) = Len(d) + 1
              /\ \A i \in 1 .. Len(d) + 1 : Append(d, p)[i] = IF i = Len(d) + 1 THEN p ELSE d[i]
          BY <1>1, <2>1, AppendFacts
        <4>2. CASE p = f
          BY <3>3, <3>6, <4>1, <4>2
        <4>3. CASE p # f
          <5>1. PICK j \in 1 .. Len(d) : d[j] = f
            BY <3>1, <3>4, <4>3
          <5>2. j \in 1 .. Len(d) + 1 /\ j # Len(d) + 1
            BY <4>1
          <5>. QED BY <3>3, <3>6, <4>1, <5>1, <5>2
        <4>. QED BY <4>2, <4>3
      <3>. QED BY <3>5, <3>6
    <2>. QED BY <1>3, <2>2, <2>3 DEF EmitFrame
  <1>4. CASE trackedQueue' = trackedQueue /\ delivered' = delivered
    BY <1>2, <1>4 DEF Tracked
  <1>5. CASE ConsumeTracked
    <2>1. Tracked(f)
      BY <1>1, <1>5, TailElements DEF ConsumeTracked, Tracked
    <2>. QED BY <1>2, <1>5, <2>1 DEF ConsumeTracked
  <1>6. ASSUME NEW c \in Cameras, CaptureNext(c) \/ ProcessorNext(c), ~EmitFrame(c)
        PROVE  trackedQueue' = trackedQueue /\ delivered' = delivered
    BY <1>6 DEF CaptureNext, CaptureFrame, SkipFrame, ProcessorNext, PopFrame, SubmitFrame,
       RefuseFrame, CheckProcessed, BeginWait, WaitTimesOut, ResetProcessed, TrackFrame
  <1>7. ASSUME NEW e \in Detectors, DetectorNext(e) \/ DetectorFail(e)
        PROVE  trackedQueue' = trackedQueue /\ delivered' = delivered
    BY <1>7 DEF DetectorNext, DetectorPop, DetectorMore, DetectorInfer, DetectorFail,
       DetectorCheckExpired, DetectorAdd, DetectorFlag, DetectorNotify
  <1>8. ASSUME NEW l \in LPDetectors, LPNext(l) \/ LPFail(l)
        PROVE  trackedQueue' = trackedQueue /\ delivered' = delivered
    BY <1>8 DEF LPNext, LPPop, LPDetect, LPFlag, LPNotify, LPFail
  <1>9. CASE UNCHANGED vars
    BY <1>4, <1>9 DEF vars
  <1>. QED BY <1>3, <1>4, <1>5, <1>6, <1>7, <1>8, <1>9 DEF Next, Rest

(***************************************************************************)
(* The handshake is sound while nobody is late: what a camera's processor  *)
(* hands on has its detections and its plate results, until it first       *)
(* leaves predict() ahead of its answer.                                   *)
(***************************************************************************)
THEOREM PromptAnswersAreComplete == Spec => []OnTimeIsComplete
  <1>1. Init => PromptInv
    <2>. SUFFICES ASSUME Init PROVE PromptInv
      OBVIOUS
    <2>1. /\ \A s \in Stage : inQueue[s] = <<>>
          /\ \A d \in Detectors : detector[d].batch = <<>>
          /\ \A l \in LPDetectors : lpDetector[l].pc = "pop"
          /\ \A c \in Cameras : processor[c].pc = "pop"
          /\ trackedQueue = <<>> /\ processed = {} /\ \A f \in Frame : predictions[f] = {}
      BY DEF Init, IdleDetector, IdleLPDetector, IdleProcessor
    <2>2. ASSUME NEW f \in Frame PROVE Prompt(f)
      BY <2>1, FrameFacts, StageFacts DEF Prompt, Holders, InQueues, InBatches, InLPDetectors,
         HeldOnce, HeldBy, InHand, Fresh, Complete, Tracked
    <2>. QED BY <2>1, <2>2 DEF PromptInv, TrackedDelivered, Tracked
  <1>2. Init => FlowProofs!FlowInv
    BY FlowInit, FlowProofs!FlowInitInv DEF Flow!Init, FlowProofs!Init
  <1>3. TypeOK /\ FlowProofs!FlowInv /\ [Next]_vars => FlowProofs!FlowInv'
    BY FlowStep, FlowInvStep
  <1>4. TypeOK /\ FlowProofs!FlowInv /\ DetectedOnce /\ PromptInv /\ [Next]_vars => PromptInv'
    BY PromptStep, DeliveredStep DEF PromptInv
  <1>5. TypeOK /\ PromptInv => OnTimeIsComplete
    <2>. SUFFICES ASSUME TypeOK, PromptInv, NEW c \in Cameras \ overtaken,
                         NEW i \in 1 .. Len(trackedQueue), trackedQueue[i].camera = c
                  PROVE  predictions[trackedQueue[i]] = {"tracked", "plates"}
      BY DEF OnTimeIsComplete
    <2>1. trackedQueue[i] \in Frame
      BY DEF TypeOK, QueuesOK
    <2>2. Prompt(trackedQueue[i])
      BY <2>1 DEF PromptInv
    <2>. QED BY <2>2 DEF Prompt, Complete, Tracked, Result
  <1>. QED BY <1>1, <1>2, <1>3, <1>4, <1>5, TypeCorrect, NoFrameDetectedTwice, PTL DEF Spec
=============================================================================
