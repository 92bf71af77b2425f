----------------------------- MODULE PlateDetection ----------------------------
(***************************************************************************)
(* One frame on its way through the models: the object detector's report   *)
(* becomes predictions, the camera processor marks those worth a search,   *)
(* and LPDetectorSession crops the marked vehicles, gives them to the      *)
(* plate model in batches, and files what it finds under each vehicle.     *)
(* Who runs when is the subject of FramePipeline; here one frame is looked *)
(* at, by one thread at a time.                                            *)
(***************************************************************************)
EXTENDS Detections

CONSTANTS
    Frames,         \* sizes a frame may have
    Canvas,         \* size of both models' inputs
    ObjectReports,  \* what the object detector may report: candidates
    PlateReports,   \* what the plate detector may report of one vehicle
    Vehicles,       \* voi: the classes searched for plates
    MinArea,        \* TRACK_MIN_AREA
    BatchSize,      \* max_batch_size
    PlateThreshold  \* detection_threshold, in percent

ASSUME PlateDetectionAssumption ==
    /\ Frames \subseteq Extent
    /\ Canvas \in Extent
    /\ ObjectReports \subseteq Report
    /\ PlateReports \subseteq Report
    /\ MinArea \in Nat \ {0}
    /\ BatchSize \in Nat \ {0}
    /\ PlateThreshold \in 0 .. 100

VARIABLES
    stage,          \* what happens to the frame next
    frame,          \* its size
    report,         \* the object detector's candidates
    predictions,    \* what becomes of them
    dynamic,        \* does the plate model take any number of images at once?
    p,              \* the prediction the loop of LPDetectorSession is at
    batch,          \* vehicle_indxs: predictions whose crops wait in the batch
    searched,       \* history: predictions given to the plate model, in order
    answers         \* history: what the plate model reported of which prediction

vars == <<stage, frame, report, predictions, dynamic, p, batch, searched, answers>>

Init ==
    /\ stage = "detect"
    /\ frame \in Frames
    /\ report = <<>>
    /\ predictions = <<>>
    /\ dynamic \in BOOLEAN
    /\ p = 1
    /\ batch = <<>>
    /\ searched = <<>>
    /\ answers = {}

\* Object detection: a prediction has no plates and is not marked yet.
DetectObjects(candidates) ==
    /\ stage = "detect"
    /\ report' = candidates
    /\ \E order \in SortedIndices(candidates) :
         LET found == PostProcess(candidates, order, Canvas, frame)
         IN  predictions' = [i \in DOMAIN found |->
                [object |-> found[i], hasDeltas |-> FALSE, plates |-> <<>>]]
    /\ stage' = "mark"
    /\ UNCHANGED <<frame, dynamic, p, batch, searched, answers>>

Area(box) == box.width * box.height

\* estimateChangesInArea may mark any tracked object that is large enough; a
\* tracked object is of any class the configuration names.  (See AreaEstimator.)
MarkDeltas(marked) ==
    /\ stage = "mark"
    /\ \A i \in marked : Area(predictions[i].object.box) >= MinArea
    /\ predictions' = [i \in DOMAIN predictions |->
                         [predictions[i] EXCEPT !.hasDeltas = i \in marked]]
    /\ stage' = "search"
    /\ UNCHANGED <<frame, report, dynamic, p, batch, searched, answers>>

IsCandidate(i) ==
    predictions[i].hasDeltas /\ predictions[i].object.class \in Vehicles

NotAVehicle ==
    /\ stage = "search"
    /\ p <= Len(predictions)
    /\ ~IsCandidate(p)
    /\ p' = p + 1
    /\ UNCHANGED <<stage, frame, report, predictions, dynamic, batch, searched, answers>>

\* Slip: the batch is flushed one vehicle too late.
FlushesLate ==
    ~dynamic \/ Len(batch) >= BatchSize \/ p >= Len(predictions)

\* Tested with the vehicle at hand in the batch; not tested for other objects.
Flushes ==
    ~dynamic \/ Len(batch) + 1 >= BatchSize \/ p >= Len(predictions)

AddToBatch ==
    /\ stage = "search"
    /\ p <= Len(predictions)
    /\ IsCandidate(p)
    /\ ~Flushes
    /\ batch' = Append(batch, p)
    /\ p' = p + 1
    /\ UNCHANGED <<stage, frame, report, predictions, dynamic, searched, answers>>

\* From the crop of a vehicle to the frame.
Displace(plate, vehicle) ==
    LET box == plate.box
    IN  [plate EXCEPT !.box = [x |-> box.x + vehicle.x, y |-> box.y + vehicle.y,
                               width |-> box.width, height |-> box.height]]

Crops(images) == [b \in DOMAIN images |-> predictions[images[b]].object.box]

\* What the plate model finds in a batch of crops, each as large as its box.
\* PoseEstimator's postprocess is the object detector's, with key points.
Predict(crops, reports, orders) ==
    [b \in DOMAIN crops |-> PostProcess(reports[b], orders[b], Canvas, crops[b])]

FilterLicensePlates(found) ==
    LET kept[n \in 0 .. Len(found)] ==
            IF n = 0 THEN <<>>
            ELSE IF found[n].conf >= PlateThreshold THEN Append(kept[n - 1], found[n])
            ELSE kept[n - 1]
    IN  kept[Len(found)]

\* Slip: the results of the last crop are filed under every vehicle of the batch.
PlatesOfLast(i, images, results) ==
    IF \E b \in DOMAIN images : images[b] = i
    THEN LET found == results[Len(images)]
         IN  FilterLicensePlates([k \in DOMAIN found |->
                Displace(found[k], predictions[i].object.box)])
    ELSE predictions[i].plates

\* Plates are filed under their vehicles, in the frame's coordinates.
PlatesOf(i, images, results) ==
    IF \E b \in DOMAIN images : images[b] = i
    THEN LET found == results[CHOOSE b \in DOMAIN images : images[b] = i]
         IN  FilterLicensePlates([k \in DOMAIN found |->
                Displace(found[k], predictions[i].object.box)])
    ELSE predictions[i].plates

\* The crops in hand, the last being prediction p's, go to the model.
SearchPlates(images, reports) ==
    LET Orders == UNION { SortedIndices(reports[b]) : b \in DOMAIN reports }
    IN
    /\ stage = "search"
    /\ p <= Len(predictions)
    /\ IsCandidate(p)
    /\ Flushes
    /\ DOMAIN reports = DOMAIN images
    /\ \E orders \in [DOMAIN images -> Orders] :
         /\ \A b \in DOMAIN images : orders[b] \in SortedIndices(reports[b])
         /\ LET results == Predict(Crops(images), reports, orders)
            IN  predictions' = [i \in DOMAIN predictions |->
                    [predictions[i] EXCEPT !.plates = PlatesOf(i, images, results)]]
    /\ searched' = searched \o images
    /\ answers' = answers \cup { <<images[b], reports[b]>> : b \in DOMAIN images }
    /\ p' = p + 1
    /\ UNCHANGED <<stage, frame, report, dynamic>>

\* Slip: the batch is not cleared.
DetectPlatesKeepsBatch(reports) ==
    SearchPlates(Append(batch, p), reports) /\ UNCHANGED batch

\* A model with a static batch is given one image at a time.
DetectPlates(reports) ==
    SearchPlates(Append(batch, p), reports) /\ batch' = <<>>

\* setPredictions; the batch is gone with the frame.
WriteBack ==
    /\ stage = "search"
    /\ p > Len(predictions)
    /\ stage' = "done"
    /\ UNCHANGED <<frame, report, predictions, dynamic, p, batch, searched, answers>>

NextFrame ==
    /\ stage = "done"
    /\ stage' = "detect"
    /\ frame' \in Frames
    /\ report' = <<>>
    /\ predictions' = <<>>
    /\ p' = 1
    /\ batch' = <<>>
    /\ searched' = <<>>
    /\ answers' = {}
    /\ UNCHANGED dynamic

Next ==
    \/ \E candidates \in ObjectReports : DetectObjects(candidates)
    \/ \E marked \in SUBSET DOMAIN predictions : MarkDeltas(marked)
    \/ NotAVehicle
    \/ AddToBatch
    \/ \E n \in 1 .. BatchSize : \E reports \in [1 .. n -> PlateReports] : DetectPlates(reports)
    \/ WriteBack
    \/ NextFrame

Spec == Init /\ [][Next]_vars
------------------------------------------------------------------------------
(* Properties.                                                             *)

Found == [box : Box, conf : ConfThreshold .. 100, class : Nat, index : Nat]

(***************************************************************************)
(* Type correctness, with the room of the batch: it never holds more than  *)
(* BatchSize - 1 vehicles from one prediction to the next, and never any   *)
(* if the model's batch is static.                                         *)
(***************************************************************************)
TypeOK ==
    /\ stage \in {"detect", "mark", "search", "done"}
    /\ frame \in Frames
    /\ report \in ObjectReports \cup {<<>>}
    /\ predictions \in Seq([object : Found, hasDeltas : BOOLEAN, plates : Seq(Found)])
    /\ dynamic \in BOOLEAN
    /\ p \in 1 .. Len(predictions) + 1
    /\ batch \in Seq(1 .. p - 1)
    /\ Len(batch) < BatchSize
    /\ ~dynamic => batch = <<>>
    /\ searched \in Seq(1 .. p - 1)
    /\ answers \in SUBSET ((1 .. p - 1) \X PlateReports)

Inside(box, size) ==
    /\ box.x >= 0 /\ box.y >= 0
    /\ box.x + box.width <= size.width
    /\ box.y + box.height <= size.height

\* From the frame to the crop of a vehicle.
Relative(box, vehicle) == [box EXCEPT !.x = @ - vehicle.x, !.y = @ - vehicle.y]

(***************************************************************************)
(* Every box stays where an image is cropped from: objects and plates in   *)
(* the frame, plates on their vehicle, and no vehicle without any extent   *)
(* is cropped.  Utils::crop and resize throw otherwise, which ends the     *)
(* detector's thread.                                                      *)
(***************************************************************************)
CropsAreSafe ==
    \A i \in DOMAIN predictions :
        LET box == predictions[i].object.box
        IN  /\ Inside(box, frame)
            /\ IsCandidate(i) => box.width > 0 /\ box.height > 0
            /\ \A k \in DOMAIN predictions[i].plates :
                 Inside(Relative(predictions[i].plates[k].box, box), box)

(***************************************************************************)
(* NMSBoxes does what non-maximum suppression is for, class by class: two  *)
(* predictions of one class overlap no more than the threshold allows, and *)
(* a strong candidate is dropped only for one kept of its own class that   *)
(* overlaps it and has no lower score.                                     *)
(***************************************************************************)
SuppressionIsExact ==
    stage # "detect" =>
        LET box(i) == ScaleCoords(Canvas, Corners(report[i]), frame)
            kept == { predictions[k].object.index : k \in DOMAIN predictions }
            strong == { i \in DOMAIN report : Score(report[i]) >= ConfThreshold }
            Alike(i, j) == ClassOf(report[i]) = ClassOf(report[j]) /\ Overlap(box(i), box(j))
        IN  /\ kept \subseteq strong
            /\ \A i, j \in kept : i # j => ~Alike(i, j)
            /\ \A i \in strong \ kept :
                 \E j \in kept : Alike(i, j) /\ Score(report[j]) >= Score(report[i])

(***************************************************************************)
(* scaleCoords undoes the letter box: put into the letter box again, the   *)
(* corner of a prediction is where the model saw it, but for one and a     *)
(* half pixels of the canvas and half a pixel of the frame (the paddings   *)
(* are rounded differently).  Only for boxes of some extent, or none, that *)
(* lie within the picture: others are clipped.                             *)
(***************************************************************************)
BackInPlace ==
    \A k \in DOMAIN predictions :
        LET seen == Corners(report[predictions[k].object.index])
            box == predictions[k].object.box
            gain == Gain(Canvas, frame)
            lb == LetterBox(Canvas, frame)
            Near(error, extent) == \* |error / extent| <= 3 / 2 + gain / 2
                /\ 2 * gain.den * error <= extent * (3 * gain.den + gain.num)
                /\ -2 * gain.den * error <= extent * (3 * gain.den + gain.num)
        IN  /\ seen.width >= 0 /\ seen.height >= 0
            /\ Inside([seen EXCEPT !.x = @ - lb.x, !.y = @ - lb.y], lb)
            => /\ Near((lb.x - seen.x) * frame.width + box.x * lb.width, frame.width)
               /\ Near((lb.y - seen.y) * frame.height + box.y * lb.height, frame.height)

\* What may be filed under a vehicle of which the model reported these candidates.
PlatesFrom(vehicle, candidates) ==
    { plate \in Found :
        /\ plate.index \in DOMAIN candidates
        /\ plate.conf = Score(candidates[plate.index])
        /\ plate.conf >= PlateThreshold
        /\ Relative(plate.box, vehicle) =
             ScaleCoords(Canvas, Corners(candidates[plate.index]), vehicle) }

(***************************************************************************)
(* Plates reach the vehicle they were found on, although results come by   *)
(* position in a batch: a vehicle is given to the model once, and each     *)
(* plate filed under it is a candidate of the report on its own crop, sure *)
(* enough, with its score, and at its place on the vehicle.  With a static *)
(* batch, or batches of one, no marked vehicle is left out.                *)
(***************************************************************************)
PlatesOfTheirVehicle ==
    /\ \A s, t \in DOMAIN searched : s < t => searched[s] < searched[t]
    /\ \A i \in DOMAIN predictions : predictions[i].plates # <<>> =>
         \E answer \in answers :
           /\ answer[1] = i
           /\ \A k \in DOMAIN predictions[i].plates :
                predictions[i].plates[k] \in PlatesFrom(predictions[i].object.box, answer[2])
    /\ stage = "done" /\ (~dynamic \/ BatchSize = 1) =>
         \A i \in DOMAIN predictions : IsCandidate(i) =>
           \E s \in DOMAIN searched : searched[s] = i

(***************************************************************************)
(* Comment at lpdetectorsession.cpp:90, "No more predictions to complete   *)
(* the batch": when the frame is done no marked vehicle still waits for    *)
(* its batch to be completed.                                              *)
(***************************************************************************)
EveryVehicleSearched ==
    stage = "done" =>
        \A i \in DOMAIN predictions : IsCandidate(i) =>
            \E s \in DOMAIN searched : searched[s] = i
===============================================================================
