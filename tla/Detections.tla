------------------------------ MODULE Detections -------------------------------
(***************************************************************************)
(* How a model's raw report becomes predictions, as operators: the letter  *)
(* box the image is put into, the way back to image coordinates, and the   *)
(* suppression of overlapping boxes.  Object detector and license plate    *)
(* detector share all of it; key points go the way of the boxes and are    *)
(* left out.  Scores are percentages.  Ratios of lengths, floats in the    *)
(* code, are exact fractions; what the code rounds or truncates is rounded *)
(* or truncated here.                                                      *)
(***************************************************************************)
EXTENDS Integers, Sequences

\* Sizes are [width, height], boxes [x, y, width, height].
Extent == [width : Nat \ {0}, height : Nat \ {0}]
Box == [x : Int, y : Int, width : Nat, height : Nat]

Least(a, b) == IF a < b THEN a ELSE b
Greatest(a, b) == IF a > b THEN a ELSE b

\* std::round(a / b) for b > 0: halves away from zero.
Round(a, b) ==
    IF a >= 0 THEN (2 * a + b) \div (2 * b) ELSE -((b - 2 * a) \div (2 * b))

\* A float converted to int: a / b towards zero.
Truncate(a, b) == IF a >= 0 THEN a \div b ELSE -((-a) \div b)

Clamp(value, low, high) ==
    LET bottom == Least(low, high)
        top == Greatest(low, high)
    IN  Greatest(bottom, Least(value, top))
------------------------------------------------------------------------------
(* Letter box and back.                                                    *)

\* The factor by which an image shrinks or grows to fit a canvas: num / den.
Gain(canvas, image) ==
    IF canvas.height * image.width < canvas.width * image.height
    THEN [num |-> canvas.height, den |-> image.height]
    ELSE [num |-> canvas.width, den |-> image.width]

\* The part of the canvas the image covers.
LetterBox(canvas, image) ==
    LET gain == Gain(canvas, image)
        width == Round(image.width * gain.num, gain.den)
        height == Round(image.height * gain.num, gain.den)
    IN  [x |-> (canvas.width - width) \div 2, y |-> (canvas.height - height) \div 2,
         width |-> width, height |-> height]

\* Slip: all of the padding instead of one half.
PaddingBothSides(canvas, image) ==
    LET gain == Gain(canvas, image)
    IN  [x |-> Round(canvas.width * gain.den - image.width * gain.num, gain.den),
         y |-> Round(canvas.height * gain.den - image.height * gain.num, gain.den)]

\* Padding as scaleCoords computes it: rounded, where the letter box floors.
Padding(canvas, image) ==
    LET gain == Gain(canvas, image)
    IN  [x |-> Round(canvas.width * gain.den - image.width * gain.num, 2 * gain.den),
         y |-> Round(canvas.height * gain.den - image.height * gain.num, 2 * gain.den)]

\* Slip: only the corner is clamped.
ClipCorner(box, image) ==
    [box EXCEPT !.x = Clamp(@, 0, image.width), !.y = Clamp(@, 0, image.height)]

\* A corner moved into the image does not shorten the box.
Clip(box, image) ==
    LET x == Clamp(box.x, 0, image.width)
        y == Clamp(box.y, 0, image.height)
    IN  [x |-> x, y |-> y,
         width |-> Clamp(box.width, 0, image.width - x),
         height |-> Clamp(box.height, 0, image.height - y)]

ScaleCoords(canvas, box, image) ==
    LET gain == Gain(canvas, image)
        pad == Padding(canvas, image)
        Back(n) == Round(n * gain.den, gain.num)
    IN  Clip([x |-> Back(box.x - pad.x), y |-> Back(box.y - pad.y),
              width |-> Back(box.width), height |-> Back(box.height)], image)
------------------------------------------------------------------------------
(* From candidates to predictions.  A candidate is what the model says of  *)
(* one anchor: the centre and size of a box and a score for every class.   *)

Report == Seq([cx : Int, cy : Int, width : Int, height : Int,
               scores : Seq(0 .. 100) \ {<<>>}])

CONSTANTS
    ConfThreshold,  \* confThreshold, in percent
    IouThreshold,   \* iouThreshold, in percent
    ClassOffset     \* 7880, which keeps boxes of different classes apart

ASSUME DetectionsAssumption ==
    /\ ConfThreshold \in 1 .. 100
    /\ IouThreshold \in 0 .. 100
    /\ ClassOffset \in Nat

\* The first class with the highest score.
ClassOf(candidate) ==
    CHOOSE c \in DOMAIN candidate.scores :
        \A d \in DOMAIN candidate.scores :
            \/ candidate.scores[c] > candidate.scores[d]
            \/ candidate.scores[c] = candidate.scores[d] /\ c <= d

Score(candidate) == candidate.scores[ClassOf(candidate)]

\* cv::Rect(cx - w / 2, cy - h / 2, w, h), in canvas coordinates.
Corners(candidate) ==
    [x |-> Truncate(2 * candidate.cx - candidate.width, 2),
     y |-> Truncate(2 * candidate.cy - candidate.height, 2),
     width |-> candidate.width, height |-> candidate.height]

Intersection(a, b) ==
    LET across == Least(a.x + a.width, b.x + b.width) - Greatest(a.x, b.x)
        down == Least(a.y + a.height, b.y + b.height) - Greatest(a.y, b.y)
    IN  IF across <= 0 \/ down <= 0 THEN 0 ELSE across * down

\* Intersection over union above the threshold.
Overlap(a, b) ==
    LET common == Intersection(a, b)
        union == a.width * a.height + b.width * b.height - common
    IN  common > 0 /\ 100 * common > IouThreshold * union

\* std::sort is not stable: equal scores may come in any order.
SortedIndices(candidates) ==
    LET strong == { i \in DOMAIN candidates : Score(candidates[i]) >= ConfThreshold }
    IN  { order \in UNION { [1 .. n -> strong] : n \in 0 .. Len(candidates) } :
            /\ \A i \in strong : \E k \in DOMAIN order : order[k] = i
            /\ \A k, l \in DOMAIN order : k < l =>
                 /\ order[k] # order[l]
                 /\ Score(candidates[order[k]]) >= Score(candidates[order[l]]) }

\* Slip: a suppressed box still suppresses others.
NMSBoxesUnmasked(boxes, order) ==
    SelectSeq(order, LAMBDA i :
        \E k \in DOMAIN order : order[k] = i /\
            \A l \in 1 .. k - 1 : ~Overlap(boxes[order[l]], boxes[i]))

\* Along the order, a box is kept unless one kept before it overlaps it.
NMSBoxes(boxes, order) ==
    LET kept[n \in 0 .. Len(order)] ==
            IF n = 0 THEN <<>>
            ELSE LET before == kept[n - 1]
                 IN  IF \E k \in DOMAIN before : Overlap(boxes[before[k]], boxes[order[n]])
                     THEN before ELSE Append(before, order[n])
    IN  kept[Len(order)]

NmsBox(box, class) ==
    [box EXCEPT !.x = @ + class * ClassOffset, !.y = @ + class * ClassOffset]

\* The predictions for one image of a batch.  (index is where it came from.)
PostProcess(candidates, order, canvas, image) ==
    LET boxes == [i \in DOMAIN candidates |->
                    ScaleCoords(canvas, Corners(candidates[i]), image)]
        indices == NMSBoxes([i \in DOMAIN candidates |->
                                NmsBox(boxes[i], ClassOf(candidates[i]))], order)
    IN  [k \in DOMAIN indices |->
            [box |-> boxes[indices[k]], conf |-> Score(candidates[indices[k]]),
             class |-> ClassOf(candidates[indices[k]]), index |-> indices[k]]]
===============================================================================
