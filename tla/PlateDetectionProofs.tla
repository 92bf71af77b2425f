-------------------------- MODULE PlateDetectionProofs -------------------------
(***************************************************************************)
(* Theorems about PlateDetection and the operators of Detections it uses,  *)
(* for any frames, reports of the models, orders among equal scores and    *)
(* batch sizes.                                                            *)
(***************************************************************************)
EXTENDS PlateDetection, Loops, TLAPS
------------------------------------------------------------------------------
(* Suppression and the filter of plates.                                   *)

Survivors(boxes, before, i) ==
    IF \E k \in DOMAIN before : Overlap(boxes[before[k]], boxes[i])
    THEN before ELSE Append(before, i)

LEMMA SuppressionSteps ==
    ASSUME NEW I, NEW boxes, NEW order \in Seq(I)
    PROVE  \E kept \in [0 .. Len(order) -> Seq(I)] :
               /\ NMSBoxes(boxes, order) = kept[Len(order)]
               /\ kept[0] = <<>>
               /\ \A n \in 1 .. Len(order) :
                    kept[n] = Survivors(boxes, kept[n - 1], order[n])
<1> DEFINE L == Len(order)
           g == [turn \in (1 .. L) \X Seq(I) |-> Survivors(boxes, turn[2], order[turn[1]])]
           Body(f) == [n \in 0 .. L |->
               IF n = 0 THEN <<>>
               ELSE LET before == f[n - 1]
                    IN  IF \E k \in DOMAIN before : Overlap(boxes[before[k]], boxes[order[n]])
                        THEN before ELSE Append(before, order[n])]
           kept == CHOOSE f : f = Body(f)
<1>1. ASSUME NEW n \in 1 .. L, NEW s \in Seq(I)
      PROVE  g[<<n, s>>] = Survivors(boxes, s, order[n]) /\ g[<<n, s>>] \in Seq(I)
  <2>1. order[n] \in I
    OBVIOUS
  <2>2. Append(s, order[n]) \in Seq(I)
    BY <2>1
  <2> QED BY <2>2 DEF Survivors
<1>2. g \in [(1 .. L) \X Seq(I) -> Seq(I)]
  <2> SUFFICES ASSUME NEW turn \in (1 .. L) \X Seq(I) PROVE g[turn] \in Seq(I)
    OBVIOUS
  <2>1. turn = <<turn[1], turn[2]>> /\ turn[1] \in 1 .. L /\ turn[2] \in Seq(I)
    OBVIOUS
  <2> HIDE DEF g
  <2> QED BY <1>1, <2>1
<1>3. PICK f \in [0 .. L -> Seq(I)] :
          \A n \in 0 .. L : f[n] = IF n = 0 THEN <<>> ELSE g[<<n, f[n - 1]>>]
  <2>1. <<>> \in Seq(I) /\ L \in Nat
    OBVIOUS
  <2>2. Turns(Seq(I), <<>>, L, g) # {}
    <3> HIDE DEF g, L
    <3> QED BY <1>2, <2>1, Loop
  <2> HIDE DEF g, L
  <2> QED BY <2>2 DEF Turns
<1>4. \A n \in 1 .. L : f[n] = Survivors(boxes, f[n - 1], order[n])
  <2> SUFFICES ASSUME NEW n \in 1 .. L
               PROVE  f[n] = Survivors(boxes, f[n - 1], order[n])
    OBVIOUS
  <2>1. n \in 0 .. L /\ n # 0 /\ n - 1 \in 0 .. L /\ f[n - 1] \in Seq(I)
    <3>1. \A l \in Nat : \A k \in 1 .. l : k \in 0 .. l /\ k # 0 /\ k - 1 \in 0 .. l
      OBVIOUS
    <3>2. L \in Nat
      OBVIOUS
    <3> HIDE DEF L, g
    <3> QED BY <3>1, <3>2
  <2> HIDE DEF g
  <2> QED BY <1>1, <1>3, <2>1
<1>5. f = Body(f)
  <2>1. f[0] = <<>>
    <3>1. \A l \in Nat : 0 \in 0 .. l
      OBVIOUS
    <3>2. L \in Nat
      OBVIOUS
    <3> HIDE DEF L, g
    <3> QED BY <1>3, <3>1, <3>2
  <2>2. ASSUME NEW n \in 0 .. L PROVE f[n] = Body(f)[n]
    <3>1. CASE n = 0
      BY <2>1, <3>1
    <3>2. CASE n # 0
      <4>1. n \in 1 .. L
        BY <3>2
      <4>2. Body(f)[n] = Survivors(boxes, f[n - 1], order[n])
        BY <3>2 DEF Survivors
      <4> QED BY <1>4, <4>1, <4>2
    <3> QED BY <3>1, <3>2
  <2> QED BY <2>2
<1>6. kept = Body(kept)
  <2> HIDE DEF Body
  <2> QED BY <1>5
<1>7. NMSBoxes(boxes, order) = kept[L]
  BY DEF NMSBoxes
<1> HIDE DEF kept, g
<1>8. kept[0] = <<>> /\ \A n \in 1 .. L : kept[n] = Survivors(boxes, kept[n - 1], order[n])
  <2>1. DOMAIN kept = 0 .. L /\ \A n \in 0 .. L : kept[n] = Body(kept)[n]
    BY <1>6
  <2>2. kept[0] = <<>>
    BY <2>1
  <2>3. ASSUME NEW n \in 1 .. L
        PROVE  kept[n] = Survivors(boxes, kept[n - 1], order[n])
    <3>1. n \in 0 .. L /\ n # 0
      OBVIOUS
    <3> QED BY <2>1, <3>1 DEF Survivors
  <2> QED BY <2>2, <2>3
<1>9. kept \in [0 .. L -> Seq(I)]
  <2> DEFINE T == { n \in Nat : n <= L => kept[n] \in Seq(I) }
  <2>1. 0 \in T
    <3>1. <<>> \in Seq(I)
      OBVIOUS
    <3> QED BY <1>8, <3>1
  <2>2. \A n \in Nat : n \in T => n + 1 \in T
    <3> SUFFICES ASSUME NEW n \in Nat, n + 1 <= L, kept[n] \in Seq(I)
                 PROVE  kept[n + 1] \in Seq(I)
      OBVIOUS
    <3>1. n + 1 \in 1 .. L /\ (n + 1) - 1 = n /\ order[n + 1] \in I
      OBVIOUS
    <3>2. kept[n + 1] = Survivors(boxes, kept[n], order[n + 1])
      BY <1>8, <3>1
    <3>3. Append(kept[n], order[n + 1]) \in Seq(I)
      BY <3>1
    <3> QED BY <3>2, <3>3 DEF Survivors
  <2>3. Nat \subseteq T
    <3> HIDE DEF T
    <3> QED BY <2>1, <2>2, Induction
  <2>4. \A n \in 0 .. L : kept[n] \in Seq(I)
    BY <2>3
  <2>5. kept = [n \in 0 .. L |-> kept[n]]
    BY <1>6
  <2> QED BY <2>4, <2>5
<1> QED BY <1>7, <1>8, <1>9

\* After the first n boxes: of the kept ones no two overlap, and each box is kept
\* or overlaps one kept before it.
Suppressed(boxes, order, kept, n) ==
    /\ \A k \in DOMAIN kept : \E i \in 1 .. n : kept[k] = order[i]
    /\ \A k, l \in DOMAIN kept : k < l => ~Overlap(boxes[kept[k]], boxes[kept[l]])
    /\ \A j \in 1 .. n : \E k \in DOMAIN kept, i \in 1 .. j :
         /\ kept[k] = order[i]
         /\ i = j \/ Overlap(boxes[kept[k]], boxes[order[j]])

LEMMA SuppressedNext ==
    ASSUME NEW I, NEW boxes, NEW order \in Seq(I), NEW before \in Seq(I), NEW n \in Nat,
           n + 1 \in 1 .. Len(order), Suppressed(boxes, order, before, n)
    PROVE  Suppressed(boxes, order, Survivors(boxes, before, order[n + 1]), n + 1)
<1> DEFINE next == order[n + 1]
           after == Append(before, next)
<1>1. next \in I /\ n + 1 \in 1 .. n + 1 /\ \A i \in 1 .. n : i \in 1 .. n + 1
  OBVIOUS
<1>2. CASE \E k \in DOMAIN before : Overlap(boxes[before[k]], boxes[next])
  <2>1. Survivors(boxes, before, next) = before
    BY <1>2 DEF Survivors
  <2>2. PICK k \in DOMAIN before : Overlap(boxes[before[k]], boxes[next])
    BY <1>2
  <2>3. PICK i \in 1 .. n : before[k] = order[i]
    BY DEF Suppressed
  <2>4. ASSUME NEW j \in 1 .. n + 1
        PROVE  \E l \in DOMAIN before, h \in 1 .. j :
                 before[l] = order[h] /\ (h = j \/ Overlap(boxes[before[l]], boxes[order[j]]))
    <3>1. CASE j = n + 1
      BY <2>2, <2>3, <3>1
    <3>2. CASE j # n + 1
      <4>1. j \in 1 .. n
        BY <3>2
      <4> QED BY <4>1 DEF Suppressed
    <3> QED BY <3>1, <3>2
  <2>5. ASSUME NEW l \in DOMAIN before PROVE \E h \in 1 .. n + 1 : before[l] = order[h]
    <3>1. PICK h \in 1 .. n : before[l] = order[h]
      BY DEF Suppressed
    <3> QED BY <1>1, <3>1
  <2>6. \A l, h \in DOMAIN before : l < h => ~Overlap(boxes[before[l]], boxes[before[h]])
    BY DEF Suppressed
  <2>7. Suppressed(boxes, order, before, n + 1)
    BY <2>4, <2>5, <2>6 DEF Suppressed
  <2> QED BY <2>1, <2>7
<1>3. CASE ~ \E k \in DOMAIN before : Overlap(boxes[before[k]], boxes[next])
  <2>1. Survivors(boxes, before, next) = after
    BY <1>3 DEF Survivors
  <2>2. /\ Len(after) = Len(before) + 1 /\ DOMAIN after = 1 .. Len(before) + 1
        /\ DOMAIN before = 1 .. Len(before) /\ Len(before) \in Nat
        /\ \A k \in DOMAIN before : after[k] = before[k] /\ k \in DOMAIN after
        /\ after[Len(before) + 1] = next
    BY <1>1
  <2> HIDE DEF after, next
  <2>3. ASSUME NEW k \in DOMAIN after PROVE \E i \in 1 .. n + 1 : after[k] = order[i]
    <3>1. CASE k \in DOMAIN before
      <4>1. PICK i \in 1 .. n : before[k] = order[i]
        BY <3>1 DEF Suppressed
      <4> QED BY <1>1, <2>2, <3>1, <4>1
    <3>2. CASE k \notin DOMAIN before
      <4>1. k = Len(before) + 1
        BY <2>2, <3>2
      <4> QED BY <1>1, <2>2, <4>1 DEF next
    <3> QED BY <3>1, <3>2
  <2>4. ASSUME NEW k \in DOMAIN after, NEW l \in DOMAIN after, k < l
        PROVE  ~Overlap(boxes[after[k]], boxes[after[l]])
    <3>1. k \in DOMAIN before
      BY <2>2, <2>4
    <3>2. CASE l \in DOMAIN before
      BY <2>2, <2>4, <3>1, <3>2 DEF Suppressed
    <3>3. CASE l \notin DOMAIN before
      <4>1. l = Len(before) + 1
        BY <2>2, <3>3
      <4> QED BY <1>3, <2>2, <3>1, <4>1
    <3> QED BY <3>2, <3>3
  <2>5. ASSUME NEW j \in 1 .. n + 1
        PROVE  \E l \in DOMAIN after, h \in 1 .. j :
                 after[l] = order[h] /\ (h = j \/ Overlap(boxes[after[l]], boxes[order[j]]))
    <3>1. CASE j = n + 1
      <4>1. Len(before) + 1 \in DOMAIN after
        BY <2>2
      <4> QED BY <2>2, <3>1, <4>1 DEF next
    <3>2. CASE j # n + 1
      <4>1. j \in 1 .. n
        BY <3>2
      <4>2. PICK l \in DOMAIN before, h \in 1 .. j :
              before[l] = order[h] /\ (h = j \/ Overlap(boxes[before[l]], boxes[order[j]]))
        BY <4>1 DEF Suppressed
      <4> QED BY <2>2, <4>2
    <3> QED BY <3>1, <3>2
  <2>6. Suppressed(boxes, order, after, n + 1)
    BY <2>3, <2>4, <2>5 DEF Suppressed
  <2>7. Survivors(boxes, before, order[n + 1]) = after
    BY <2>1 DEF next
  <2> QED BY <2>6, <2>7
<1> QED BY <1>2, <1>3

LEMMA NMSBoxesKept ==
    ASSUME NEW I, NEW boxes, NEW order \in Seq(I)
    PROVE  /\ NMSBoxes(boxes, order) \in Seq(I)
           /\ Suppressed(boxes, order, NMSBoxes(boxes, order), Len(order))
<1>1. PICK kept \in [0 .. Len(order) -> Seq(I)] :
          /\ NMSBoxes(boxes, order) = kept[Len(order)]
          /\ kept[0] = <<>>
          /\ \A n \in 1 .. Len(order) : kept[n] = Survivors(boxes, kept[n - 1], order[n])
  BY SuppressionSteps
<1> DEFINE T == { n \in Nat : n <= Len(order) => Suppressed(boxes, order, kept[n], n) }
<1>2. 0 \in T
  BY <1>1 DEF Suppressed
<1>3. \A n \in Nat : n \in T => n + 1 \in T
  <2> SUFFICES ASSUME NEW n \in Nat, n + 1 <= Len(order),
                      Suppressed(boxes, order, kept[n], n)
               PROVE  Suppressed(boxes, order, kept[n + 1], n + 1)
    OBVIOUS
  <2>1. n + 1 \in 1 .. Len(order) /\ (n + 1) - 1 = n /\ kept[n] \in Seq(I)
    BY <1>1
  <2>2. kept[n + 1] = Survivors(boxes, kept[n], order[n + 1])
    BY <1>1, <2>1
  <2> QED BY <2>1, <2>2, SuppressedNext
<1>4. Nat \subseteq T
  <2> HIDE DEF T
  <2> QED BY <1>2, <1>3, Induction
<1>5. Len(order) \in Nat /\ Len(order) \in 0 .. Len(order)
  OBVIOUS
<1>6. Suppressed(boxes, order, kept[Len(order)], Len(order))
  BY <1>4, <1>5
<1> QED BY <1>1, <1>5, <1>6

\* Those left are sure enough, and whatever holds of all plates holds of them.
Sure(S) == { plate \in S : plate.conf >= PlateThreshold }

LEMMA FilteredPlates ==
    ASSUME NEW S, NEW found \in Seq(S)
    PROVE  FilterLicensePlates(found) \in Seq(Sure(S))
<1> DEFINE L == Len(found)
           R == Sure(S)
           Tested(n, before) == IF found[n].conf >= PlateThreshold
                                THEN Append(before, found[n]) ELSE before
           g == [turn \in (1 .. L) \X Seq(R) |-> Tested(turn[1], turn[2])]
           Body(f) == [n \in 0 .. L |->
               IF n = 0 THEN <<>>
               ELSE IF found[n].conf >= PlateThreshold THEN Append(f[n - 1], found[n])
               ELSE f[n - 1]]
           kept == CHOOSE f : f = Body(f)
<1>1. ASSUME NEW n \in 1 .. L, NEW s \in Seq(R)
      PROVE  g[<<n, s>>] = Tested(n, s) /\ g[<<n, s>>] \in Seq(R) /\ Tested(n, s) \in Seq(R)
  <2>1. found[n] \in S
    OBVIOUS
  <2>2. found[n].conf >= PlateThreshold => found[n] \in R
    BY <2>1 DEF Sure
  <2> HIDE DEF R
  <2>3. found[n].conf >= PlateThreshold => Append(s, found[n]) \in Seq(R)
    BY <2>2
  <2> QED BY <2>3
<1>2. g \in [(1 .. L) \X Seq(R) -> Seq(R)]
  <2> SUFFICES ASSUME NEW turn \in (1 .. L) \X Seq(R) PROVE g[turn] \in Seq(R)
    OBVIOUS
  <2>1. turn = <<turn[1], turn[2]>> /\ turn[1] \in 1 .. L /\ turn[2] \in Seq(R)
    OBVIOUS
  <2> HIDE DEF g
  <2> QED BY <1>1, <2>1
<1>3. PICK f \in [0 .. L -> Seq(R)] :
          \A n \in 0 .. L : f[n] = IF n = 0 THEN <<>> ELSE g[<<n, f[n - 1]>>]
  <2>1. <<>> \in Seq(R) /\ L \in Nat
    OBVIOUS
  <2>2. Turns(Seq(R), <<>>, L, g) # {}
    <3> HIDE DEF g, L
    <3> QED BY <1>2, <2>1, Loop
  <2> HIDE DEF g, L
  <2> QED BY <2>2 DEF Turns
<1>4. f = Body(f)
  <2>1. ASSUME NEW n \in 0 .. L PROVE f[n] = Body(f)[n]
    <3>1. CASE n = 0
      <4>1. f[n] = <<>>
        BY <1>3, <3>1
      <4> QED BY <3>1, <4>1
    <3>2. CASE n # 0
      <4>1. n \in 1 .. L /\ f[n - 1] \in Seq(R)
        BY <3>2
      <4>2. f[n] = Tested(n, f[n - 1])
        <5> HIDE DEF g
        <5> QED BY <1>1, <1>3, <3>2, <4>1
      <4> QED BY <3>2, <4>2
    <3> QED BY <3>1, <3>2
  <2> QED BY <2>1
<1>5. kept = Body(kept)
  <2> HIDE DEF Body
  <2> QED BY <1>4
<1>6. FilterLicensePlates(found) = kept[L]
  BY DEF FilterLicensePlates
<1> HIDE DEF kept, g
<1> DEFINE T == { n \in Nat : n <= L => kept[n] \in Seq(R) }
<1>7. 0 \in T
  <2>1. kept[0] = <<>>
    BY <1>5
  <2>2. <<>> \in Seq(R)
    OBVIOUS
  <2> QED BY <2>1, <2>2
<1>8. \A n \in Nat : n \in T => n + 1 \in T
  <2> SUFFICES ASSUME NEW n \in Nat, n + 1 <= L, kept[n] \in Seq(R)
               PROVE  kept[n + 1] \in Seq(R)
    OBVIOUS
  <2>1. n + 1 \in 1 .. L /\ n + 1 \in 0 .. L /\ (n + 1) - 1 = n /\ n + 1 # 0
    OBVIOUS
  <2>2. kept[n + 1] = Tested(n + 1, kept[n])
    BY <1>5, <2>1
  <2> HIDE DEF Tested
  <2> QED BY <1>1, <2>1, <2>2
<1>9. Nat \subseteq T
  <2> HIDE DEF T
  <2> QED BY <1>7, <1>8, Induction
<1> QED BY <1>6, <1>9
------------------------------------------------------------------------------
(* Boxes.                                                                  *)

LEMMA Rounded ==
    ASSUME NEW a \in Int, NEW b \in Nat \ {0}
    PROVE  Round(a, b) \in Int
<1>1. 2 * b \in Nat \ {0} /\ 2 * a + b \in Int /\ b - 2 * a \in Int
  OBVIOUS
<1>2. (2 * a + b) \div (2 * b) \in Int /\ (b - 2 * a) \div (2 * b) \in Int
  BY <1>1
<1> QED BY <1>2 DEF Round

LEMMA Clamped ==
    ASSUME NEW value \in Int, NEW high \in Nat
    PROVE  Clamp(value, 0, high) \in 0 .. high
BY DEF Clamp, Least, Greatest

\* An image to search: a frame, or the crop a box stands for.
Sized(image) == image.width \in Nat \ {0} /\ image.height \in Nat \ {0}

LEMMA ClippedInside ==
    ASSUME NEW image, Sized(image),
           NEW box \in [x : Int, y : Int, width : Int, height : Int]
    PROVE  Clip(box, image) \in Box /\ Inside(Clip(box, image), image)
<1>1. image.width \in Nat /\ image.height \in Nat
  BY DEF Extent, Sized
<1> DEFINE x == Clamp(box.x, 0, image.width)
           y == Clamp(box.y, 0, image.height)
<1>2. x \in 0 .. image.width /\ y \in 0 .. image.height
  BY <1>1, Clamped
<1>3. image.width - x \in Nat /\ image.height - y \in Nat
  BY <1>1, <1>2
<1>4. /\ Clamp(box.width, 0, image.width - x) \in 0 .. image.width - x
      /\ Clamp(box.height, 0, image.height - y) \in 0 .. image.height - y
  BY <1>3, Clamped
<1> HIDE DEF x, y
<1>5. Clip(box, image) =
        [x |-> x, y |-> y, width |-> Clamp(box.width, 0, image.width - x),
         height |-> Clamp(box.height, 0, image.height - y)]
  BY DEF Clip, x, y
<1> QED BY <1>1, <1>2, <1>4, <1>5 DEF Box, Inside

LEMMA GainIsPositive ==
    ASSUME NEW canvas \in Extent, NEW image, Sized(image)
    PROVE  Gain(canvas, image).num \in Nat \ {0} /\ Gain(canvas, image).den \in Nat \ {0}
BY DEF Gain, Extent, Sized

LEMMA ScaledInside ==
    ASSUME NEW canvas \in Extent, NEW image, Sized(image),
           NEW box \in [x : Int, y : Int, width : Int, height : Int]
    PROVE  /\ ScaleCoords(canvas, box, image) \in Box
           /\ Inside(ScaleCoords(canvas, box, image), image)
<1> DEFINE gain == Gain(canvas, image)
           pad == Padding(canvas, image)
           Back(n) == Round(n * gain.den, gain.num)
<1>1. gain.num \in Nat \ {0} /\ gain.den \in Nat \ {0}
  BY GainIsPositive
<1>2. pad.x \in Int /\ pad.y \in Int
  <2> HIDE DEF gain
  <2>1. /\ canvas.width * gain.den - image.width * gain.num \in Int
        /\ canvas.height * gain.den - image.height * gain.num \in Int
        /\ 2 * gain.den \in Nat \ {0}
    BY <1>1 DEF Extent, Sized
  <2>2. /\ Round(canvas.width * gain.den - image.width * gain.num, 2 * gain.den) \in Int
        /\ Round(canvas.height * gain.den - image.height * gain.num, 2 * gain.den) \in Int
    BY <2>1, Rounded
  <2> QED BY <2>2 DEF Padding, gain
<1>3. ASSUME NEW n \in Int PROVE Back(n) \in Int
  <2> HIDE DEF gain
  <2>1. n * gain.den \in Int
    BY <1>1
  <2> QED BY <1>1, <2>1, Rounded
<1> HIDE DEF gain, pad, Back
<1> DEFINE scaled == [x |-> Back(box.x - pad.x), y |-> Back(box.y - pad.y),
                      width |-> Back(box.width), height |-> Back(box.height)]
<1>4. scaled \in [x : Int, y : Int, width : Int, height : Int]
  <2>1. box.x - pad.x \in Int /\ box.y - pad.y \in Int /\ box.width \in Int /\ box.height \in Int
    BY <1>2
  <2> QED BY <1>3, <2>1
<1>5. ScaleCoords(canvas, box, image) = Clip(scaled, image)
  BY DEF ScaleCoords, gain, pad, Back
<1> HIDE DEF scaled
<1> QED BY <1>4, <1>5, ClippedInside
------------------------------------------------------------------------------
(* Post-processing.                                                        *)

LEMMA CandidateTypes ==
    ASSUME NEW candidates \in Report, NEW i \in DOMAIN candidates
    PROVE  /\ i \in Nat
           /\ candidates[i].cx \in Int /\ candidates[i].cy \in Int
           /\ candidates[i].width \in Int /\ candidates[i].height \in Int
           /\ candidates[i].scores \in Seq(0 .. 100)
           /\ candidates[i].scores # <<>>
<1> DEFINE Anchor == [cx : Int, cy : Int, width : Int, height : Int,
                      scores : Seq(0 .. 100) \ {<<>>}]
<1>1. candidates \in Seq(Anchor)
  BY DEF Report
<1>2. candidates[i] \in Anchor /\ i \in Nat
  <2> HIDE DEF Anchor
  <2> QED BY <1>1
<1> QED BY <1>2

LEMMA BestClass ==
    ASSUME NEW candidates \in Report, NEW i \in DOMAIN candidates
    PROVE  ClassOf(candidates[i]) \in Nat /\ Score(candidates[i]) \in 0 .. 100
<1> DEFINE scores == candidates[i].scores
<1>1. scores \in Seq(0 .. 100) /\ scores # <<>>
  BY CandidateTypes
<1> HIDE DEF scores
<1>2. /\ \A d \in DOMAIN scores : d \in Nat /\ scores[d] \in 0 .. 100
      /\ 1 \in DOMAIN scores
  BY <1>1
<1> DEFINE Best(c) == \A d \in DOMAIN scores :
                         \/ scores[c] > scores[d]
                         \/ scores[c] = scores[d] /\ c <= d
<1>3. \E c \in DOMAIN scores : Best(c)
  <2> DEFINE lost == { 100 - scores[d] : d \in DOMAIN scores }
  <2>1. lost \subseteq Nat /\ lost # {}
    BY <1>2
  <2>2. PICK least \in lost : \A other \in lost : least <= other
    <3> HIDE DEF lost
    <3> QED BY <2>1, LeastNumber
  <2>3. PICK top \in DOMAIN scores : least = 100 - scores[top]
    OBVIOUS
  <2>4. \A d \in DOMAIN scores : scores[top] >= scores[d]
    <3> SUFFICES ASSUME NEW d \in DOMAIN scores PROVE scores[top] >= scores[d]
      OBVIOUS
    <3>1. 100 - scores[d] \in lost
      OBVIOUS
    <3>2. 100 - scores[top] <= 100 - scores[d]
      BY <2>2, <2>3, <3>1
    <3>3. scores[d] \in Nat /\ scores[top] \in Nat
      BY <1>2
    <3> HIDE DEF lost
    <3> QED BY <3>2, <3>3
  <2> DEFINE firsts == { d \in DOMAIN scores : scores[d] = scores[top] }
  <2>5. firsts \subseteq Nat /\ firsts # {}
    BY <1>2
  <2>6. PICK c \in firsts : \A d \in firsts : c <= d
    <3> HIDE DEF firsts
    <3> QED BY <2>5, LeastNumber
  <2>7. ASSUME NEW d \in DOMAIN scores
        PROVE  scores[c] > scores[d] \/ (scores[c] = scores[d] /\ c <= d)
    <3>1. scores[c] = scores[top] /\ scores[top] >= scores[d]
      BY <2>4
    <3>2. scores[top] \in Nat /\ scores[d] \in Nat
      BY <1>2
    <3>3. scores[d] = scores[top] => c <= d
      BY <2>6
    <3> QED BY <3>1, <3>2, <3>3
  <2> QED BY <2>7
<1>4. ClassOf(candidates[i]) = CHOOSE c \in DOMAIN scores : Best(c)
  BY DEF ClassOf, scores
<1>5. ClassOf(candidates[i]) \in DOMAIN scores
  <2> HIDE DEF Best
  <2> QED BY <1>3, <1>4
<1>6. Score(candidates[i]) = scores[ClassOf(candidates[i])]
  BY DEF Score, scores
<1> QED BY <1>2, <1>5, <1>6

Strong(candidates) == { i \in DOMAIN candidates : Score(candidates[i]) >= ConfThreshold }

LEMMA SortedOrder ==
    ASSUME NEW candidates \in Report, NEW order \in SortedIndices(candidates)
    PROVE  /\ order \in Seq(Strong(candidates))
           /\ \A i \in Strong(candidates) : \E k \in 1 .. Len(order) : order[k] = i
           /\ \A k, l \in 1 .. Len(order) : k < l =>
                Score(candidates[order[k]]) >= Score(candidates[order[l]])
<1>1. PICK n \in 0 .. Len(candidates) : order \in [1 .. n -> Strong(candidates)]
  BY DEF SortedIndices, Strong
<1>2. Len(candidates) \in Nat
  BY DEF Report
<1>3. order \in Seq(Strong(candidates)) /\ DOMAIN order = 1 .. Len(order)
  BY <1>1, <1>2
<1> QED BY <1>3 DEF SortedIndices, Strong

LEMMA CornersTypes ==
    ASSUME NEW candidates \in Report, NEW i \in DOMAIN candidates
    PROVE  Corners(candidates[i]) \in [x : Int, y : Int, width : Int, height : Int]
<1>1. /\ candidates[i].cx \in Int /\ candidates[i].cy \in Int
      /\ candidates[i].width \in Int /\ candidates[i].height \in Int
  BY CandidateTypes
<1>2. ASSUME NEW a \in Int PROVE Truncate(a, 2) \in Int
  BY DEF Truncate
<1>3. /\ Truncate(2 * candidates[i].cx - candidates[i].width, 2) \in Int
      /\ Truncate(2 * candidates[i].cy - candidates[i].height, 2) \in Int
  BY <1>1, <1>2
<1> QED BY <1>1, <1>3 DEF Corners

LEMMA CandidateBox ==
    ASSUME NEW candidates \in Report, NEW i \in DOMAIN candidates,
           NEW canvas \in Extent, NEW image, Sized(image)
    PROVE  /\ ScaleCoords(canvas, Corners(candidates[i]), image) \in Box
           /\ Inside(ScaleCoords(canvas, Corners(candidates[i]), image), image)
BY CornersTypes, ScaledInside

\* A prediction made from one image.
Seen(image) == { found \in Found : Inside(found.box, image) }

LEMMA PostProcessed ==
    ASSUME NEW candidates \in Report, NEW order \in SortedIndices(candidates),
           NEW canvas \in Extent, NEW image, Sized(image)
    PROVE  PostProcess(candidates, order, canvas, image) \in Seq(Seen(image))
<1> DEFINE boxes == [i \in DOMAIN candidates |->
                       ScaleCoords(canvas, Corners(candidates[i]), image)]
           shifted == [i \in DOMAIN candidates |->
                         NmsBox(boxes[i], ClassOf(candidates[i]))]
           indices == NMSBoxes(shifted, order)
           Prediction(i) == [box |-> boxes[i], conf |-> Score(candidates[i]),
                             class |-> ClassOf(candidates[i]), index |-> i]
<1>1. indices \in Seq(Strong(candidates))
  <2> HIDE DEF shifted
  <2> QED BY SortedOrder, NMSBoxesKept
<1>2. ASSUME NEW i \in Strong(candidates) PROVE Prediction(i) \in Seen(image)
  <2>1. i \in DOMAIN candidates /\ i \in Nat /\ Score(candidates[i]) >= ConfThreshold
    BY CandidateTypes DEF Strong
  <2>2. ClassOf(candidates[i]) \in Nat /\ Score(candidates[i]) \in 0 .. 100
    BY <2>1, BestClass
  <2>3. Score(candidates[i]) \in ConfThreshold .. 100
    BY <2>1, <2>2, DetectionsAssumption
  <2>4. boxes[i] \in Box /\ Inside(boxes[i], image)
    BY <2>1, CandidateBox
  <2> HIDE DEF boxes
  <2> QED BY <2>1, <2>2, <2>3, <2>4 DEF Seen, Found
<1>3. PostProcess(candidates, order, canvas, image) =
        [k \in DOMAIN indices |-> Prediction(indices[k])]
  BY DEF PostProcess
<1> HIDE DEF indices, Prediction, boxes, shifted
<1>4. \A k \in DOMAIN indices : Prediction(indices[k]) \in Seen(image)
  BY <1>1, <1>2
<1>5. DOMAIN indices = 1 .. Len(indices) /\ Len(indices) \in Nat
  BY <1>1
<1> QED BY <1>3, <1>4, <1>5

\* Each prediction has the score of the candidate it came from, and is what
\* scaleCoords made of it.
PlacedBy(objects, candidates, image) ==
    \A k \in DOMAIN objects :
        LET i == objects[k].index
        IN  /\ i \in DOMAIN candidates
            /\ objects[k].conf = Score(candidates[i])
            /\ objects[k].box = ScaleCoords(Canvas, Corners(candidates[i]), image)

LEMMA PlacesFound ==
    ASSUME NEW candidates \in Report, NEW order \in SortedIndices(candidates), NEW image
    PROVE  PlacedBy(PostProcess(candidates, order, Canvas, image), candidates, image)
<1> DEFINE boxes == [i \in DOMAIN candidates |->
                       ScaleCoords(Canvas, Corners(candidates[i]), image)]
           shifted == [i \in DOMAIN candidates |->
                         NmsBox(boxes[i], ClassOf(candidates[i]))]
           indices == NMSBoxes(shifted, order)
           found == PostProcess(candidates, order, Canvas, image)
<1>1. indices \in Seq(Strong(candidates))
  <2>1. order \in Seq(Strong(candidates))
    BY SortedOrder
  <2> HIDE DEF shifted
  <2> QED BY <2>1, NMSBoxesKept
<1>2. found = [k \in DOMAIN indices |->
                 [box |-> boxes[indices[k]], conf |-> Score(candidates[indices[k]]),
                  class |-> ClassOf(candidates[indices[k]]), index |-> indices[k]]]
  BY DEF PostProcess
<1> HIDE DEF indices, found
<1>3. ASSUME NEW k \in DOMAIN found
      PROVE  /\ found[k].index \in DOMAIN candidates
             /\ found[k].conf = Score(candidates[found[k].index])
             /\ found[k].box = ScaleCoords(Canvas, Corners(candidates[found[k].index]), image)
  <2>1. indices[k] \in DOMAIN candidates
    BY <1>1, <1>2 DEF Strong
  <2>2. /\ found[k].index = indices[k] /\ found[k].box = boxes[indices[k]]
        /\ found[k].conf = Score(candidates[indices[k]])
    BY <1>2
  <2> QED BY <2>1, <2>2
<1> QED BY <1>3 DEF PlacedBy, found

\* What Displace makes of a plate found in the crop of a vehicle.
OnVehicle(box) ==
    { found \in Found : Inside(Relative(found.box, box), box) }

LEMMA Displaced ==
    ASSUME NEW vehicle \in Box, NEW plate \in Seen(vehicle)
    PROVE  /\ Displace(plate, vehicle) \in OnVehicle(vehicle)
           /\ Relative(Displace(plate, vehicle).box, vehicle) = plate.box
           /\ Displace(plate, vehicle).conf = plate.conf
           /\ Displace(plate, vehicle).index = plate.index
<1>1. plate \in Found /\ Inside(plate.box, vehicle)
  BY DEF Seen
<1>2. /\ plate.box \in Box /\ plate.conf \in ConfThreshold .. 100
      /\ plate.class \in Nat /\ plate.index \in Nat
  BY <1>1 DEF Found
<1> DEFINE there == [x |-> plate.box.x + vehicle.x, y |-> plate.box.y + vehicle.y,
                     width |-> plate.box.width, height |-> plate.box.height]
           back == Relative(there, vehicle)
<1>3. /\ there \in Box
      /\ there.x = plate.box.x + vehicle.x /\ there.y = plate.box.y + vehicle.y
      /\ there.width = plate.box.width /\ there.height = plate.box.height
  BY <1>2 DEF Box
<1>4. Displace(plate, vehicle) = [plate EXCEPT !.box = there]
  BY DEF Displace
<1> HIDE DEF there
<1>5. /\ back.x = plate.box.x /\ back.y = plate.box.y
      /\ back.width = plate.box.width /\ back.height = plate.box.height
  BY <1>2, <1>3 DEF Box, Relative
<1>6. Inside(back, vehicle)
  <2> HIDE DEF back
  <2> QED BY <1>1, <1>5 DEF Inside
<1>7. /\ Displace(plate, vehicle) \in Found /\ Displace(plate, vehicle).box = there
      /\ Displace(plate, vehicle).conf = plate.conf
      /\ Displace(plate, vehicle).index = plate.index
  BY <1>1, <1>3, <1>4 DEF Found
<1>8. back = plate.box
  BY <1>2, <1>3, <1>5 DEF Box, Relative
<1> QED BY <1>6, <1>7, <1>8 DEF OnVehicle
------------------------------------------------------------------------------
(* The search of one frame.                                                *)

\* A prediction that is stored: its boxes are inside, and marked ones are large.
Safe(size) ==
    { q \in [object : Seen(size), hasDeltas : BOOLEAN, plates : Seq(Found)] :
        /\ q.plates \in Seq(OnVehicle(q.object.box))
        /\ q.hasDeltas => Area(q.object.box) >= MinArea }

Given == { searched[s] : s \in DOMAIN searched }
Pending == { batch[b] : b \in DOMAIN batch }

\* Nothing has been searched before the search, nor is left to do after it.
InStages ==
    /\ stage = "detect" => predictions = <<>>
    /\ stage \in {"detect", "mark"} =>
         /\ p = 1 /\ batch = <<>> /\ searched = <<>> /\ answers = {}
         /\ \A i \in DOMAIN predictions : predictions[i].plates = <<>>
    /\ stage = "done" => p = Len(predictions) + 1

\* Every vehicle behind p was given or waits in the batch, in order.
InTurn ==
    /\ \A s, t \in DOMAIN searched : s < t => searched[s] < searched[t]
    /\ \A b, c \in DOMAIN batch : b < c => batch[b] < batch[c]
    /\ \A i \in Given, j \in Pending : i < j
    /\ \A j \in Pending : IsCandidate(j)
    /\ \A i \in 1 .. p - 1 : IsCandidate(i) => i \in Given \cup Pending

SearchInv ==
    /\ TypeOK
    /\ predictions \in Seq(Safe(frame))
    /\ InStages
    /\ InTurn

LEMMA SafePrediction ==
    ASSUME NEW size, NEW q \in Safe(size)
    PROVE  /\ q.object \in Found /\ q.object.box \in Box /\ Inside(q.object.box, size)
           /\ q.hasDeltas \in BOOLEAN
           /\ q.plates \in Seq(Found) /\ q.plates \in Seq(OnVehicle(q.object.box))
           /\ q.hasDeltas => Sized(q.object.box)
<1>1. /\ q.object \in Found /\ Inside(q.object.box, size)
      /\ q.hasDeltas \in BOOLEAN
      /\ q.plates \in Seq(Found) /\ q.plates \in Seq(OnVehicle(q.object.box))
      /\ q.hasDeltas => Area(q.object.box) >= MinArea
  BY DEF Safe, Seen
<1>2. q.object.box \in Box
  BY <1>1 DEF Found
<1>3. q.object.box.width \in Nat /\ q.object.box.height \in Nat
  BY <1>2 DEF Box
<1>4. ASSUME NEW width \in Nat, NEW height \in Nat, width * height >= MinArea
      PROVE  width # 0 /\ height # 0
  <2>1. width = 0 \/ height = 0 => width * height = 0
    BY <1>4
  <2>2. MinArea \in Nat \ {0}
    BY PlateDetectionAssumption
  <2> QED BY <1>4, <2>1, <2>2
<1>5. q.hasDeltas => q.object.box.width # 0 /\ q.object.box.height # 0
  BY <1>1, <1>3, <1>4 DEF Area
<1> QED BY <1>1, <1>2, <1>3, <1>5 DEF Sized

\* What the candidates of a report are on the vehicle, sure enough or not.
From(vehicle, candidates) ==
    { plate \in Found :
        /\ plate.index \in DOMAIN candidates
        /\ plate.conf = Score(candidates[plate.index])
        /\ Relative(plate.box, vehicle) =
             ScaleCoords(Canvas, Corners(candidates[plate.index]), vehicle) }

\* What is filed under a vehicle of the batch are plates found on it.
LEMMA PlatesFiled ==
    ASSUME SearchInv, NEW n \in 1 .. BatchSize, NEW reports \in [1 .. n -> PlateReports],
           SearchPlates(Append(batch, p), reports)
    PROVE  \E found \in [DOMAIN predictions -> Seq(Found)] :
               /\ predictions' = [i \in DOMAIN predictions |->
                                    [predictions[i] EXCEPT !.plates = found[i]]]
               /\ \A i \in DOMAIN predictions :
                    /\ found[i] \in Seq(OnVehicle(predictions[i].object.box))
                    /\ i \notin Pending \cup {p} => found[i] = predictions[i].plates
                    /\ \/ found[i] = predictions[i].plates
                       \/ \E b \in DOMAIN Append(batch, p) :
                            /\ Append(batch, p)[b] = i
                            /\ found[i] \in Seq(PlatesFrom(predictions[i].object.box, reports[b]))
<1> DEFINE images == Append(batch, p)
           Results(orders) == Predict(Crops(images), reports, orders)
           Filed(orders, i) == PlatesOf(i, images, Results(orders))
<1>1. PICK orders : /\ \A b \in DOMAIN images : orders[b] \in SortedIndices(reports[b])
                    /\ predictions' = [i \in DOMAIN predictions |->
                          [predictions[i] EXCEPT !.plates = Filed(orders, i)]]
  BY DEF SearchPlates
<1> HIDE DEF Filed
<1>2. /\ batch \in Seq(1 .. p - 1) /\ p \in 1 .. Len(predictions)
      /\ predictions \in Seq(Safe(frame)) /\ Len(predictions) \in Nat
      /\ DOMAIN reports = DOMAIN images /\ IsCandidate(p)
      /\ DOMAIN predictions = 1 .. Len(predictions)
  BY DEF SearchInv, TypeOK, SearchPlates
<1>3. /\ DOMAIN images = 1 .. Len(batch) + 1 /\ DOMAIN batch = 1 .. Len(batch)
      /\ images[Len(batch) + 1] = p
      /\ \A b \in DOMAIN batch : images[b] = batch[b]
  BY <1>2
<1>4. ASSUME NEW b \in DOMAIN images
      PROVE  /\ images[b] \in DOMAIN predictions /\ images[b] \in Pending \cup {p}
             /\ predictions[images[b]] \in Safe(frame)
             /\ predictions[images[b]].hasDeltas
  <2>1. CASE b = Len(batch) + 1
    BY <1>2, <1>3, <2>1 DEF IsCandidate
  <2>2. CASE b # Len(batch) + 1
    <3>1. b \in DOMAIN batch /\ images[b] = batch[b] /\ batch[b] \in 1 .. p - 1
      BY <1>2, <1>3, <2>2
    <3>2. images[b] \in Pending /\ IsCandidate(images[b])
      BY <3>1 DEF Pending, SearchInv, InTurn
    <3> QED BY <1>2, <3>1, <3>2 DEF IsCandidate
  <2> QED BY <2>1, <2>2
<1> HIDE DEF images
<1>5. ASSUME NEW i \in DOMAIN predictions
      PROVE  /\ Filed(orders, i) \in Seq(OnVehicle(predictions[i].object.box))
             /\ i \notin Pending \cup {p} => Filed(orders, i) = predictions[i].plates
             /\ \/ Filed(orders, i) = predictions[i].plates
                \/ \E b \in DOMAIN images :
                     /\ images[b] = i
                     /\ Filed(orders, i) \in Seq(PlatesFrom(predictions[i].object.box, reports[b]))
  <2>1. CASE \E b \in DOMAIN images : images[b] = i
    <3> DEFINE b == CHOOSE b \in DOMAIN images : images[b] = i
               vehicle == predictions[i].object.box
               result == Results(orders)[b]
               displaced == [k \in DOMAIN result |-> Displace(result[k], vehicle)]
    <3>1. b \in DOMAIN images /\ images[b] = i
      BY <2>1
    <3>2. Filed(orders, i) = FilterLicensePlates(displaced)
      BY <2>1 DEF Filed, PlatesOf
    <3> HIDE DEF b
    <3>3. vehicle \in Box /\ Sized(vehicle)
      BY <1>4, <3>1, SafePrediction
    <3>4. result = PostProcess(reports[b], orders[b], Canvas, vehicle)
      BY <3>1 DEF Predict, Crops
    <3>5. reports[b] \in Report
      BY <1>2, <3>1, PlateDetectionAssumption
    <3> HIDE DEF vehicle, result
    <3>6. result \in Seq(Seen(vehicle))
      <4>1. Sized(Canvas)
        BY PlateDetectionAssumption DEF Sized, Extent
      <4> QED BY <1>1, <3>1, <3>3, <3>4, <3>5, <4>1, PostProcessed, PlateDetectionAssumption
    <3>7. PlacedBy(result, reports[b], vehicle)
      BY <1>1, <3>1, <3>4, <3>5, PlacesFound
    <3> DEFINE there == OnVehicle(vehicle) \cap From(vehicle, reports[b])
    <3>8. ASSUME NEW k \in DOMAIN result
          PROVE  Displace(result[k], vehicle) \in there
      <4>1. result[k] \in Seen(vehicle)
        BY <3>6
      <4>2. /\ Displace(result[k], vehicle) \in OnVehicle(vehicle)
            /\ Relative(Displace(result[k], vehicle).box, vehicle) = result[k].box
            /\ Displace(result[k], vehicle).conf = result[k].conf
            /\ Displace(result[k], vehicle).index = result[k].index
        BY <3>3, <4>1, Displaced
      <4> QED BY <3>7, <4>2 DEF PlacedBy, From, OnVehicle
    <3>9. displaced \in Seq(there)
      <4>1. DOMAIN result = 1 .. Len(result) /\ Len(result) \in Nat
        BY <3>6
      <4> HIDE DEF there
      <4> QED BY <3>8, <4>1
    <3> HIDE DEF displaced
    <3>10. Filed(orders, i) \in Seq(Sure(there))
      <4> HIDE DEF there
      <4> QED BY <3>2, <3>9, FilteredPlates
    <3>11. /\ Sure(there) \subseteq OnVehicle(vehicle)
           /\ Sure(there) \subseteq PlatesFrom(vehicle, reports[b])
      BY DEF Sure, From, PlatesFrom
    <3>12. ASSUME NEW S, NEW T, S \subseteq T, NEW q \in Seq(S) PROVE q \in Seq(T)
      BY <3>12
    <3> HIDE DEF there
    <3>13. /\ Filed(orders, i) \in Seq(OnVehicle(vehicle))
           /\ Filed(orders, i) \in Seq(PlatesFrom(vehicle, reports[b]))
      BY <3>10, <3>11, <3>12
    <3> QED BY <1>4, <3>1, <3>13 DEF vehicle
  <2>2. CASE ~ \E b \in DOMAIN images : images[b] = i
    <3>1. Filed(orders, i) = predictions[i].plates
      BY <2>2 DEF Filed, PlatesOf
    <3>2. predictions[i] \in Safe(frame)
      BY <1>2
    <3> QED BY <3>1, <3>2, SafePrediction
  <2> QED BY <2>1, <2>2
<1> DEFINE found == [i \in DOMAIN predictions |-> Filed(orders, i)]
<1>6. ASSUME NEW i \in DOMAIN predictions PROVE found[i] \in Seq(Found)
  <2> DEFINE there == OnVehicle(predictions[i].object.box)
  <2>1. there \subseteq Found
    BY DEF OnVehicle
  <2>2. ASSUME NEW S, NEW s \in Seq(S), S \subseteq Found PROVE s \in Seq(Found)
    BY <2>2
  <2>3. found[i] \in Seq(there)
    BY <1>5
  <2> HIDE DEF there, found
  <2> QED BY <2>1, <2>2, <2>3
<1>7. \A i \in DOMAIN predictions : found[i] = Filed(orders, i)
  OBVIOUS
<1>8. found \in [DOMAIN predictions -> Seq(Found)]
  BY <1>6
<1> HIDE DEF found
<1>9. predictions' = [i \in DOMAIN predictions |->
                        [predictions[i] EXCEPT !.plates = found[i]]]
  BY <1>1, <1>7
<1> QED BY <1>5, <1>7, <1>8, <1>9 DEF images

LEMMA StoredPredictions ==
    ASSUME NEW size, NEW stored \in Seq(Safe(size))
    PROVE  stored \in Seq([object : Found, hasDeltas : BOOLEAN, plates : Seq(Found)])
<1>1. Safe(size) \subseteq [object : Found, hasDeltas : BOOLEAN, plates : Seq(Found)]
  BY DEF Safe, Seen
<1>2. ASSUME NEW S, NEW T, S \subseteq T, NEW s \in Seq(S) PROVE s \in Seq(T)
  BY <1>2
<1> HIDE DEF Safe
<1> QED BY <1>1, <1>2

LEMMA SearchStarts == Init => SearchInv
<1> SUFFICES ASSUME Init PROVE SearchInv
  OBVIOUS
<1> USE DEF Init
<1>1. predictions \in Seq(Safe(frame))
  OBVIOUS
<1>2. TypeOK
  BY <1>1, StoredPredictions, PlateDetectionAssumption DEF TypeOK
<1>3. InStages /\ InTurn
  BY DEF InStages, InTurn, Given, Pending
<1> QED BY <1>1, <1>2, <1>3 DEF SearchInv

LEMMA DetectedObjects ==
    ASSUME SearchInv, NEW candidates \in ObjectReports, DetectObjects(candidates)
    PROVE  SearchInv'
<1> DEFINE Fresh(found) == [i \in DOMAIN found |->
                [object |-> found[i], hasDeltas |-> FALSE, plates |-> <<>>]]
<1>1. PICK order \in SortedIndices(candidates) :
          predictions' = Fresh(PostProcess(candidates, order, Canvas, frame))
  BY DEF DetectObjects
<1>2. /\ stage = "detect" /\ stage' = "mark" /\ report' = candidates
      /\ p' = p /\ batch' = batch /\ searched' = searched /\ answers' = answers
      /\ frame' = frame /\ dynamic' = dynamic
      /\ p = 1 /\ batch = <<>> /\ searched = <<>> /\ answers = {}
      /\ frame \in Frames /\ dynamic \in BOOLEAN
  BY DEF DetectObjects, SearchInv, InStages, TypeOK
<1> DEFINE found == PostProcess(candidates, order, Canvas, frame)
<1>3. found \in Seq(Seen(frame))
  <2>1. Sized(Canvas) /\ Sized(frame) /\ Canvas \in Extent /\ candidates \in Report
    BY <1>2, PlateDetectionAssumption DEF Sized, Extent
  <2> QED BY <2>1, PostProcessed
<1> HIDE DEF found
<1>4. predictions' = Fresh(found)
  BY <1>1 DEF found
<1>5. ASSUME NEW i \in DOMAIN found PROVE Fresh(found)[i] \in Safe(frame)
  <2>1. found[i] \in Seen(frame)
    BY <1>3
  <2>2. <<>> \in Seq(Found) /\ <<>> \in Seq(OnVehicle(found[i].box))
    OBVIOUS
  <2> QED BY <2>1, <2>2 DEF Safe
<1>6. predictions' \in Seq(Safe(frame)) /\ DOMAIN predictions' = DOMAIN found
  <2>1. DOMAIN found = 1 .. Len(found) /\ Len(found) \in Nat
    BY <1>3
  <2> QED BY <1>4, <1>5, <2>1
<1>7. TypeOK'
  <2>1. Len(predictions') \in Nat
    BY <1>6
  <2>2. predictions' \in Seq([object : Found, hasDeltas : BOOLEAN, plates : Seq(Found)])
    BY <1>6, StoredPredictions
  <2> QED BY <1>2, <2>1, <2>2, PlateDetectionAssumption DEF TypeOK
<1>8. InStages'
  <2>1. \A i \in DOMAIN predictions' : predictions'[i].plates = <<>>
    BY <1>4, <1>6
  <2> QED BY <1>2, <2>1 DEF InStages
<1>9. InTurn'
  <2>1. \A i \in DOMAIN predictions' : predictions'[i].plates = <<>>
    BY <1>4, <1>6
  <2> QED BY <1>2, <2>1 DEF InTurn, Given, Pending
<1> QED BY <1>2, <1>6, <1>7, <1>8, <1>9 DEF SearchInv

LEMMA MarkedDeltas ==
    ASSUME SearchInv, NEW marked \in SUBSET DOMAIN predictions, MarkDeltas(marked)
    PROVE  SearchInv'
<1>1. /\ stage = "mark" /\ stage' = "search"
      /\ report' = report /\ p' = p /\ batch' = batch /\ searched' = searched /\ answers' = answers
      /\ frame' = frame /\ dynamic' = dynamic
      /\ p = 1 /\ batch = <<>> /\ searched = <<>> /\ answers = {}
      /\ \A i \in DOMAIN predictions : predictions[i].plates = <<>>
      /\ predictions \in Seq(Safe(frame))
      /\ \A i \in marked : Area(predictions[i].object.box) >= MinArea
      /\ predictions' = [i \in DOMAIN predictions |->
                           [predictions[i] EXCEPT !.hasDeltas = i \in marked]]
  BY DEF MarkDeltas, SearchInv, InStages
<1>2. DOMAIN predictions = 1 .. Len(predictions) /\ Len(predictions) \in Nat
  BY <1>1
<1>3. ASSUME NEW i \in DOMAIN predictions
      PROVE  predictions'[i] \in Safe(frame) /\ predictions'[i].plates = <<>>
  <2> DEFINE q == predictions[i]
             mark == i \in marked
  <2>1. q \in Safe(frame)
    BY <1>1
  <2>2. predictions'[i] = [q EXCEPT !.hasDeltas = mark]
    BY <1>1
  <2>3. mark \in BOOLEAN /\ (mark => Area(q.object.box) >= MinArea)
    BY <1>1
  <2>4. q.plates = <<>>
    BY <1>1
  <2> HIDE DEF q, mark
  <2> QED BY <2>1, <2>2, <2>3, <2>4 DEF Safe
<1>4. predictions' \in Seq(Safe(frame)) /\ DOMAIN predictions' = DOMAIN predictions
  BY <1>1, <1>2, <1>3
<1>5. Len(predictions') = Len(predictions)
  BY <1>2, <1>4
<1>6. TypeOK'
  <2>1. predictions' \in Seq([object : Found, hasDeltas : BOOLEAN, plates : Seq(Found)])
    BY <1>4, StoredPredictions
  <2> QED BY <1>1, <1>2, <1>5, <2>1 DEF TypeOK, SearchInv
<1>7. InStages'
  BY <1>1 DEF InStages
<1>8. InTurn'
  BY <1>1, <1>3, <1>4 DEF InTurn, Given, Pending
<1> QED BY <1>1, <1>4, <1>6, <1>7, <1>8 DEF SearchInv

\* What the loop's position says while predictions stay as they are.
LEMMA SearchTypes ==
    ASSUME SearchInv
    PROVE  /\ predictions \in Seq(Safe(frame)) /\ Len(predictions) \in Nat
           /\ DOMAIN predictions = 1 .. Len(predictions)
           /\ p \in 1 .. Len(predictions) + 1
           /\ batch \in Seq(1 .. p - 1) /\ searched \in Seq(1 .. p - 1)
           /\ \A j \in Given \cup Pending : j \in Nat /\ j < p
           /\ \A S : batch = <<>> => batch \in Seq(S)
<1>1. /\ batch \in Seq(1 .. p - 1) /\ searched \in Seq(1 .. p - 1)
      /\ p \in 1 .. Len(predictions) + 1 /\ predictions \in Seq(Safe(frame))
  BY DEF SearchInv, TypeOK
<1>2. \A j \in Given : j \in 1 .. p - 1
  BY <1>1 DEF Given
<1>3. \A j \in Pending : j \in 1 .. p - 1
  BY <1>1 DEF Pending
<1> QED BY <1>1, <1>2, <1>3

LEMMA WiderSequence ==
    ASSUME NEW n \in Nat, NEW s \in Seq(1 .. n - 1)
    PROVE  s \in Seq(1 .. (n + 1) - 1)
<1>1. 1 .. n - 1 \subseteq 1 .. (n + 1) - 1
  OBVIOUS
<1>2. ASSUME NEW S, NEW T, S \subseteq T, NEW q \in Seq(S) PROVE q \in Seq(T)
  BY <1>2
<1> QED BY <1>1, <1>2

LEMMA MoreAnswers ==
    ASSUME NEW n \in Nat, NEW given \in SUBSET ((1 .. n - 1) \X PlateReports)
    PROVE  given \in SUBSET ((1 .. (n + 1) - 1) \X PlateReports)
<1>1. 1 .. n - 1 \subseteq 1 .. (n + 1) - 1
  OBVIOUS
<1> QED BY <1>1

LEMMA SkippedObject ==
    ASSUME SearchInv, NotAVehicle
    PROVE  SearchInv'
<1>1. /\ stage = "search" /\ p <= Len(predictions) /\ ~IsCandidate(p) /\ p' = p + 1
      /\ stage' = stage /\ frame' = frame /\ report' = report
      /\ predictions' = predictions /\ dynamic' = dynamic /\ batch' = batch
      /\ searched' = searched /\ answers' = answers
  BY DEF NotAVehicle
<1>2. /\ Len(predictions) \in Nat /\ p \in 1 .. Len(predictions) + 1
      /\ batch \in Seq(1 .. p - 1) /\ searched \in Seq(1 .. p - 1)
      /\ DOMAIN predictions = 1 .. Len(predictions)
  BY SearchTypes
<1>3. TypeOK'
  <2>1. batch \in Seq(1 .. p' - 1) /\ searched \in Seq(1 .. p' - 1)
    BY <1>1, <1>2, WiderSequence
  <2>2. p' \in 1 .. Len(predictions) + 1
    BY <1>1, <1>2
  <2>3. answers' \in SUBSET ((1 .. p' - 1) \X PlateReports)
    BY <1>1, <1>2, MoreAnswers DEF SearchInv, TypeOK
  <2> QED BY <1>1, <2>1, <2>2, <2>3 DEF TypeOK, SearchInv
<1>4. \A i : IsCandidate(i)' = IsCandidate(i)
  BY <1>1 DEF IsCandidate
<1>5. Given' = Given /\ Pending' = Pending
  BY <1>1 DEF Given, Pending
<1>6. ASSUME NEW i \in 1 .. p' - 1, IsCandidate(i) PROVE i \in Given \cup Pending
  <2>1. i # p
    BY <1>1, <1>6
  <2>2. i \in 1 .. p - 1
    BY <1>1, <1>2, <2>1
  <2> QED BY <1>6, <2>2 DEF SearchInv, InTurn
<1>8. InTurn'
  BY <1>1, <1>4, <1>5, <1>6 DEF InTurn, SearchInv
<1>9. InStages'
  BY <1>1 DEF InStages
<1> QED BY <1>1, <1>3, <1>8, <1>9 DEF SearchInv

LEMMA BatchedVehicle ==
    ASSUME SearchInv, AddToBatch
    PROVE  SearchInv'
<1>1. /\ stage = "search" /\ p <= Len(predictions) /\ IsCandidate(p) /\ ~Flushes
      /\ p' = p + 1 /\ batch' = Append(batch, p)
      /\ stage' = stage /\ frame' = frame /\ report' = report
      /\ predictions' = predictions /\ dynamic' = dynamic
      /\ searched' = searched /\ answers' = answers
  BY DEF AddToBatch
<1>2. /\ Len(predictions) \in Nat /\ p \in 1 .. Len(predictions) + 1
      /\ batch \in Seq(1 .. p - 1) /\ searched \in Seq(1 .. p - 1)
      /\ DOMAIN predictions = 1 .. Len(predictions)
      /\ \A j \in Given \cup Pending : j \in Nat /\ j < p
  BY SearchTypes
<1>3. /\ Len(batch') = Len(batch) + 1 /\ Len(batch) \in Nat
      /\ DOMAIN batch' = 1 .. Len(batch) + 1 /\ DOMAIN batch = 1 .. Len(batch)
      /\ \A b \in DOMAIN batch : batch'[b] = batch[b]
      /\ batch'[Len(batch) + 1] = p
  <2>1. ASSUME NEW S, NEW s \in Seq(S), NEW e
        PROVE  /\ Len(Append(s, e)) = Len(s) + 1 /\ Len(s) \in Nat
               /\ DOMAIN Append(s, e) = 1 .. Len(s) + 1 /\ DOMAIN s = 1 .. Len(s)
               /\ \A b \in DOMAIN s : Append(s, e)[b] = s[b]
               /\ Append(s, e)[Len(s) + 1] = e
    OBVIOUS
  <2> QED BY <1>1, <1>2, <2>1
<1>4. p < Len(predictions) /\ Len(batch) + 1 < BatchSize /\ dynamic
  <2>1. BatchSize \in Nat /\ p \in Nat
    BY <1>2, PlateDetectionAssumption
  <2> QED BY <1>1, <1>2, <1>3, <2>1 DEF Flushes
<1>5. TypeOK'
  <2>1. batch \in Seq(1 .. p' - 1) /\ searched \in Seq(1 .. p' - 1)
    BY <1>1, <1>2, WiderSequence
  <2>2. p \in 1 .. p' - 1
    BY <1>1, <1>2
  <2>3. batch' \in Seq(1 .. p' - 1)
    BY <1>1, <2>1, <2>2
  <2>4. p' \in 1 .. Len(predictions) + 1
    BY <1>1, <1>2
  <2>5. answers' \in SUBSET ((1 .. p' - 1) \X PlateReports)
    BY <1>1, <1>2, MoreAnswers DEF SearchInv, TypeOK
  <2> QED BY <1>1, <1>3, <1>4, <2>1, <2>3, <2>4, <2>5 DEF TypeOK, SearchInv
<1>6. \A i : IsCandidate(i)' = IsCandidate(i)
  BY <1>1 DEF IsCandidate
<1>7. Given' = Given /\ Pending' = Pending \cup {p}
  <2>1. ASSUME NEW b \in DOMAIN batch' PROVE batch'[b] \in Pending \cup {p}
    BY <1>3 DEF Pending
  <2>2. ASSUME NEW j \in Pending PROVE j \in Pending'
    BY <1>3 DEF Pending
  <2>3. p \in Pending'
    BY <1>3 DEF Pending
  <2> QED BY <1>1, <2>1, <2>2, <2>3 DEF Given, Pending
<1>8. ASSUME NEW i \in 1 .. p' - 1, IsCandidate(i) PROVE i \in Given \cup Pending \cup {p}
  <2>1. i # p => i \in 1 .. p - 1
    BY <1>1, <1>2
  <2> QED BY <1>8, <2>1 DEF SearchInv, InTurn
<1>9. ASSUME NEW b \in DOMAIN batch', NEW c \in DOMAIN batch', b < c
      PROVE  batch'[b] < batch'[c]
  <2>1. b \in DOMAIN batch /\ batch[b] \in Pending
    BY <1>3, <1>9 DEF Pending
  <2>2. CASE c \in DOMAIN batch
    BY <1>3, <1>9, <2>1, <2>2 DEF SearchInv, InTurn
  <2>3. CASE c = Len(batch) + 1
    BY <1>2, <1>3, <2>1, <2>3
  <2> QED BY <1>3, <2>2, <2>3
<1>10. \A i \in Given, j \in Pending \cup {p} : i < j
  BY <1>2 DEF SearchInv, InTurn
<1>13. InTurn'
  BY <1>1, <1>6, <1>7, <1>8, <1>9, <1>10 DEF InTurn, SearchInv
<1>14. InStages'
  BY <1>1 DEF InStages
<1> QED BY <1>1, <1>5, <1>13, <1>14 DEF SearchInv

LEMMA DetectedPlates ==
    ASSUME SearchInv, NEW n \in 1 .. BatchSize, NEW reports \in [1 .. n -> PlateReports],
           DetectPlates(reports)
    PROVE  SearchInv'
<1> DEFINE images == Append(batch, p)
<1>1. /\ SearchPlates(images, reports)
      /\ stage = "search" /\ p <= Len(predictions) /\ IsCandidate(p)
      /\ p' = p + 1 /\ searched' = searched \o images /\ batch' = <<>>
      /\ answers' = answers \cup { <<images[b], reports[b]>> : b \in DOMAIN images }
      /\ DOMAIN reports = DOMAIN images
      /\ stage' = stage /\ frame' = frame /\ report' = report /\ dynamic' = dynamic
  BY DEF DetectPlates, SearchPlates
<1>2. PICK found \in [DOMAIN predictions -> Seq(Found)] :
          /\ predictions' = [i \in DOMAIN predictions |->
                               [predictions[i] EXCEPT !.plates = found[i]]]
          /\ \A i \in DOMAIN predictions :
               /\ found[i] \in Seq(OnVehicle(predictions[i].object.box))
               /\ i \notin Pending \cup {p} => found[i] = predictions[i].plates
  BY <1>1, PlatesFiled
<1>3. /\ predictions \in Seq(Safe(frame)) /\ Len(predictions) \in Nat
      /\ DOMAIN predictions = 1 .. Len(predictions)
      /\ p \in 1 .. Len(predictions) + 1
      /\ batch \in Seq(1 .. p - 1) /\ searched \in Seq(1 .. p - 1)
      /\ \A j \in Given \cup Pending : j \in Nat /\ j < p
  BY SearchTypes
<1>4. ASSUME NEW i \in DOMAIN predictions
      PROVE  /\ predictions'[i] \in Safe(frame)
             /\ predictions'[i].object = predictions[i].object
             /\ predictions'[i].hasDeltas = predictions[i].hasDeltas
             /\ predictions'[i].plates = found[i]
  <2> DEFINE q == predictions[i]
             new == found[i]
  <2>1. q \in Safe(frame) /\ new \in Seq(Found) /\ new \in Seq(OnVehicle(q.object.box))
    BY <1>2, <1>3
  <2>2. predictions'[i] = [q EXCEPT !.plates = new]
    BY <1>2
  <2> HIDE DEF q, new
  <2>3. [q EXCEPT !.plates = new] \in Safe(frame)
    BY <2>1 DEF Safe
  <2>4. /\ predictions'[i].object = q.object /\ predictions'[i].hasDeltas = q.hasDeltas
        /\ predictions'[i].plates = new
    BY <2>1, <2>2 DEF Safe
  <2> QED BY <2>2, <2>3, <2>4 DEF q, new
<1>5. /\ predictions' \in Seq(Safe(frame)) /\ DOMAIN predictions' = DOMAIN predictions
      /\ Len(predictions') = Len(predictions)
  <2>1. DOMAIN predictions' = DOMAIN predictions
    BY <1>2
  <2>2. predictions' = [i \in 1 .. Len(predictions) |-> predictions'[i]]
    BY <1>2, <1>3
  <2>3. \A i \in 1 .. Len(predictions) : predictions'[i] \in Safe(frame)
    BY <1>3, <1>4
  <2>4. predictions' \in Seq(Safe(frame))
    <3>1. predictions' \in [1 .. Len(predictions) -> Safe(frame)]
      BY <2>2, <2>3
    <3>2. ASSUME NEW S, NEW L \in Nat, NEW f \in [1 .. L -> S] PROVE f \in Seq(S)
      OBVIOUS
    <3> QED BY <1>3, <3>1, <3>2
  <2> QED BY <1>3, <2>1, <2>4
<1>6. ASSUME NEW i \in DOMAIN predictions PROVE IsCandidate(i)' <=> IsCandidate(i)
  BY <1>4 DEF IsCandidate
<1>7. /\ searched' \in Seq(1 .. p) /\ images \in Seq(1 .. p)
      /\ Len(images) = Len(batch) + 1 /\ Len(batch) \in Nat /\ Len(searched) \in Nat
      /\ Len(searched') = Len(searched) + Len(images)
      /\ DOMAIN searched' = 1 .. Len(searched) + Len(images)
      /\ DOMAIN searched = 1 .. Len(searched) /\ DOMAIN images = 1 .. Len(images)
      /\ DOMAIN batch = 1 .. Len(batch)
      /\ \A b \in DOMAIN batch : images[b] = batch[b]
      /\ images[Len(batch) + 1] = p
      /\ \A s \in DOMAIN searched : searched'[s] = searched[s]
      /\ \A b \in DOMAIN images : searched'[Len(searched) + b] = images[b]
  <2>1. ASSUME NEW s \in Seq(1 .. p - 1), NEW e \in Seq(1 .. p - 1)
        PROVE  /\ s \o Append(e, p) \in Seq(1 .. p) /\ Append(e, p) \in Seq(1 .. p)
               /\ Len(Append(e, p)) = Len(e) + 1 /\ Len(e) \in Nat /\ Len(s) \in Nat
               /\ Len(s \o Append(e, p)) = Len(s) + Len(Append(e, p))
    <3>1. 1 .. p - 1 \subseteq 1 .. p /\ p \in 1 .. p
      BY <1>3
    <3>2. s \in Seq(1 .. p) /\ e \in Seq(1 .. p)
      <4>1. ASSUME NEW S, NEW T, S \subseteq T, NEW q \in Seq(S) PROVE q \in Seq(T)
        BY <4>1
      <4> QED BY <3>1, <4>1
    <3>3. Append(e, p) \in Seq(1 .. p)
      BY <3>1, <3>2
    <3> QED BY <3>2, <3>3
  <2>2. ASSUME NEW S, NEW s \in Seq(S), NEW t \in Seq(S)
        PROVE  /\ DOMAIN s = 1 .. Len(s)
               /\ \A k \in DOMAIN s : (s \o t)[k] = s[k]
               /\ \A k \in DOMAIN t : (s \o t)[Len(s) + k] = t[k]
    OBVIOUS
  <2>3. ASSUME NEW S, NEW s \in Seq(S), NEW e
        PROVE  /\ \A k \in DOMAIN s : Append(s, e)[k] = s[k]
               /\ Append(s, e)[Len(s) + 1] = e
    OBVIOUS
  <2>4. searched \in Seq(1 .. p)
    <3>1. ASSUME NEW S, NEW T, S \subseteq T, NEW q \in Seq(S) PROVE q \in Seq(T)
      BY <3>1
    <3>2. 1 .. p - 1 \subseteq 1 .. p
      BY <1>3
    <3> QED BY <1>3, <3>1, <3>2
  <2>5. /\ searched \o images \in Seq(1 .. p) /\ images \in Seq(1 .. p)
        /\ Len(images) = Len(batch) + 1 /\ Len(batch) \in Nat /\ Len(searched) \in Nat
        /\ Len(searched \o images) = Len(searched) + Len(images)
    BY <1>3, <2>1
  <2>6. /\ \A b \in DOMAIN batch : images[b] = batch[b]
        /\ images[Len(batch) + 1] = p
    BY <1>3, <2>3
  <2> HIDE DEF images
  <2>7. /\ \A s \in DOMAIN searched : (searched \o images)[s] = searched[s]
        /\ \A b \in DOMAIN images : (searched \o images)[Len(searched) + b] = images[b]
        /\ DOMAIN searched = 1 .. Len(searched) /\ DOMAIN images = 1 .. Len(images)
        /\ DOMAIN (searched \o images) = 1 .. Len(searched \o images)
    BY <2>2, <2>4, <2>5
  <2>8. DOMAIN batch = 1 .. Len(batch)
    BY <1>3
  <2> QED BY <1>1, <2>5, <2>6, <2>7, <2>8
<1> HIDE DEF images
<1>8. ASSUME NEW b \in DOMAIN images
      PROVE  images[b] \in Pending \cup {p} /\ (b \in DOMAIN batch \/ b = Len(batch) + 1)
  <2>1. b \in DOMAIN batch \/ b = Len(batch) + 1
    BY <1>7
  <2> QED BY <1>7, <2>1 DEF Pending
<1>9. Given' = Given \cup Pending \cup {p}
  <2>1. ASSUME NEW s \in DOMAIN searched' PROVE searched'[s] \in Given \cup Pending \cup {p}
    <3>1. CASE s \in DOMAIN searched
      BY <1>7, <3>1 DEF Given
    <3>2. CASE s \notin DOMAIN searched
      <4>1. s - Len(searched) \in DOMAIN images /\ s = Len(searched) + (s - Len(searched))
        BY <1>7, <3>2
      <4> QED BY <1>7, <1>8, <4>1
    <3> QED BY <3>1, <3>2
  <2>2. ASSUME NEW j \in Given PROVE j \in Given'
    <3>1. PICK s \in DOMAIN searched : searched[s] = j
      BY DEF Given
    <3>2. s \in DOMAIN searched'
      BY <1>7
    <3> QED BY <1>7, <3>1, <3>2 DEF Given
  <2>3. ASSUME NEW b \in DOMAIN images PROVE images[b] \in Given'
    <3>1. Len(searched) + b \in DOMAIN searched'
      BY <1>7
    <3> QED BY <1>7, <3>1 DEF Given
  <2>4. Pending \subseteq Given'
    <3>1. ASSUME NEW b \in DOMAIN batch PROVE batch[b] \in Given'
      BY <1>7, <2>3
    <3> QED BY <3>1 DEF Pending
  <2>5. p \in Given'
    <3>1. Len(batch) + 1 \in DOMAIN images /\ images[Len(batch) + 1] = p
      BY <1>7
    <3> QED BY <2>3, <3>1
  <2>6. Given' \subseteq Given \cup Pending \cup {p}
    BY <2>1 DEF Given
  <2> QED BY <2>2, <2>4, <2>5, <2>6
<1>10. Pending' = {}
  BY <1>1 DEF Pending
<1>11. TypeOK'
  <2>1. predictions' \in Seq([object : Found, hasDeltas : BOOLEAN, plates : Seq(Found)])
    BY <1>5, StoredPredictions
  <2>2. p' \in 1 .. Len(predictions') + 1 /\ p' - 1 = p
    <3>1. p' = p + 1 /\ p <= Len(predictions)
      BY <1>1
    <3>2. p \in 1 .. Len(predictions) + 1 /\ Len(predictions) \in Nat
      BY <1>3
    <3>3. Len(predictions') = Len(predictions)
      BY <1>5
    <3> QED BY <3>1, <3>2, <3>3
  <2>3. batch' \in Seq(1 .. p' - 1) /\ Len(batch') < BatchSize
    BY <1>1, PlateDetectionAssumption
  <2>4. searched' \in Seq(1 .. p' - 1)
    BY <1>7, <2>2
  <2>5. answers' \in SUBSET ((1 .. p' - 1) \X PlateReports)
    <3>1. answers \in SUBSET ((1 .. (p + 1) - 1) \X PlateReports)
      BY <1>3, MoreAnswers DEF SearchInv, TypeOK
    <3>2. ASSUME NEW b \in DOMAIN images
          PROVE  <<images[b], reports[b]>> \in (1 .. p) \X PlateReports
      <4>1. images[b] \in 1 .. p
        <5>1. ASSUME NEW S, NEW q \in Seq(S), NEW k \in DOMAIN q PROVE q[k] \in S
          OBVIOUS
        <5>2. images \in Seq(1 .. p)
          BY <1>7
        <5> QED BY <5>1, <5>2
      <4>2. DOMAIN reports = DOMAIN images /\ DOMAIN reports = 1 .. n
        BY <1>1
      <4>3. reports[b] \in PlateReports
        <5>1. b \in 1 .. n
          BY <4>2
        <5> QED BY <5>1
      <4> QED BY <4>1, <4>3
    <3>3. (p + 1) - 1 = p
      BY <1>3
    <3>4. answers' = answers \cup { <<images[b], reports[b]>> : b \in DOMAIN images }
      BY <1>1
    <3> QED BY <2>2, <3>1, <3>2, <3>3, <3>4
  <2> QED BY <1>1, <2>1, <2>2, <2>3, <2>4, <2>5 DEF TypeOK, SearchInv
<1>12. ASSUME NEW s \in DOMAIN searched', NEW t \in DOMAIN searched', s < t
       PROVE  searched'[s] < searched'[t]
  <2>1. \A b, c \in DOMAIN images : b < c => images[b] < images[c]
    <3> SUFFICES ASSUME NEW b \in DOMAIN images, NEW c \in DOMAIN images, b < c
                 PROVE  images[b] < images[c]
      OBVIOUS
    <3>1. b \in DOMAIN batch /\ batch[b] \in Pending
      BY <1>7, <1>8 DEF Pending
    <3>2. CASE c \in DOMAIN batch
      BY <1>7, <3>1, <3>2 DEF SearchInv, InTurn
    <3>3. CASE c = Len(batch) + 1
      BY <1>3, <1>7, <3>1, <3>3
    <3> QED BY <1>8, <3>2, <3>3
  <2>2. CASE t \in DOMAIN searched
    <3>1. s \in DOMAIN searched
      BY <1>7, <1>12, <2>2
    <3> QED BY <1>7, <1>12, <2>2, <3>1 DEF SearchInv, InTurn
  <2>3. CASE t \notin DOMAIN searched
    <3>1. t - Len(searched) \in DOMAIN images /\ t = Len(searched) + (t - Len(searched))
      BY <1>7, <2>3
    <3>2. searched'[t] = images[t - Len(searched)]
      BY <1>7, <3>1
    <3>3. CASE s \in DOMAIN searched
      <4>1. searched'[s] \in Given
        BY <1>7, <3>3 DEF Given
      <4>2. searched'[t] \in Pending \cup {p}
        BY <1>8, <3>1, <3>2
      <4> QED BY <1>3, <4>1, <4>2 DEF SearchInv, InTurn
    <3>4. CASE s \notin DOMAIN searched
      <4>1. s - Len(searched) \in DOMAIN images /\ s = Len(searched) + (s - Len(searched))
        BY <1>7, <3>4
      <4>2. s - Len(searched) < t - Len(searched)
        BY <1>7, <1>12
      <4> QED BY <1>7, <2>1, <3>1, <3>2, <4>1, <4>2
    <3> QED BY <3>3, <3>4
  <2> QED BY <2>2, <2>3
<1>13. ASSUME NEW i \in 1 .. p' - 1, IsCandidate(i)' PROVE i \in Given'
  <2>1. i \in DOMAIN predictions /\ (i = p \/ i \in 1 .. p - 1)
    BY <1>1, <1>3
  <2>2. IsCandidate(i)
    BY <1>6, <1>13, <2>1
  <2> QED BY <1>9, <2>1, <2>2 DEF SearchInv, InTurn
<1>14. DOMAIN batch' = {}
  <2>1. batch' = <<>>
    BY <1>1
  <2> QED BY <2>1
<1>15. InTurn'
  BY <1>10, <1>12, <1>13, <1>14 DEF InTurn
<1>16. InStages'
  BY <1>1 DEF InStages
<1> QED BY <1>1, <1>5, <1>11, <1>15, <1>16 DEF SearchInv

LEMMA SearchEnds ==
    ASSUME SearchInv, WriteBack \/ NextFrame
    PROVE  SearchInv'
<1>1. CASE WriteBack
  <2>1. /\ stage = "search" /\ stage' = "done" /\ p > Len(predictions)
        /\ frame' = frame /\ report' = report /\ predictions' = predictions
        /\ dynamic' = dynamic /\ p' = p /\ batch' = batch /\ searched' = searched /\ answers' = answers
    BY <1>1 DEF WriteBack
  <2>2. p \in 1 .. Len(predictions) + 1 /\ Len(predictions) \in Nat
    BY SearchTypes
  <2>3. p = Len(predictions) + 1
    BY <2>1, <2>2
  <2>4. TypeOK'
    BY <2>1 DEF TypeOK, SearchInv
  <2>5. InStages'
    BY <2>1, <2>3 DEF InStages
  <2>6. InTurn'
    BY <2>1 DEF InTurn, SearchInv, IsCandidate, Given, Pending
  <2> QED BY <2>1, <2>4, <2>5, <2>6 DEF SearchInv
<1>2. CASE NextFrame
  <2>1. /\ stage' = "detect" /\ frame' \in Frames /\ report' = <<>> /\ predictions' = <<>>
        /\ dynamic' = dynamic /\ dynamic \in BOOLEAN
        /\ p' = 1 /\ batch' = <<>> /\ searched' = <<>> /\ answers' = {}
    BY <1>2 DEF NextFrame, SearchInv, TypeOK
  <2>2. predictions' \in Seq(Safe(frame'))
    BY <2>1
  <2>3. TypeOK'
    BY <2>1, PlateDetectionAssumption DEF TypeOK
  <2>4. InStages' /\ InTurn'
    BY <2>1 DEF InStages, InTurn, Given, Pending
  <2> QED BY <2>2, <2>3, <2>4 DEF SearchInv
<1> QED BY <1>1, <1>2

LEMMA SearchHolds == Spec => []SearchInv
<1>1. Init => SearchInv
  BY SearchStarts
<1>2. SearchInv /\ [Next]_vars => SearchInv'
  <2> SUFFICES ASSUME SearchInv, [Next]_vars PROVE SearchInv'
    OBVIOUS
  <2>1. CASE \E candidates \in ObjectReports : DetectObjects(candidates)
    BY <2>1, DetectedObjects
  <2>2. CASE \E marked \in SUBSET DOMAIN predictions : MarkDeltas(marked)
    BY <2>2, MarkedDeltas
  <2>3. CASE NotAVehicle
    BY <2>3, SkippedObject
  <2>4. CASE AddToBatch
    BY <2>4, BatchedVehicle
  <2>5. CASE \E n \in 1 .. BatchSize :
               \E reports \in [1 .. n -> PlateReports] : DetectPlates(reports)
    BY <2>5, DetectedPlates
  <2>6. CASE WriteBack \/ NextFrame
    BY <2>6, SearchEnds
  <2>7. CASE UNCHANGED vars
    BY <2>7 DEF vars, SearchInv, TypeOK, InStages, InTurn, IsCandidate, Given, Pending
  <2> QED BY <2>1, <2>2, <2>3, <2>4, <2>5, <2>6, <2>7 DEF Next
<1> QED BY <1>1, <1>2, PTL DEF Spec

(***************************************************************************)
(* Types, and the room of the batch: between two predictions fewer         *)
(* vehicles wait than fit, and none for a model with a static batch, for   *)
(* any reports and batch sizes.                                            *)
(***************************************************************************)
THEOREM TypeCorrect == Spec => []TypeOK
  BY SearchHolds, PTL DEF SearchInv

(***************************************************************************)
(* Whatever the models report, no box reaches beyond the picture or the    *)
(* vehicle it was found on, and no empty crop is taken.                    *)
(***************************************************************************)
THEOREM CropsStayInside == Spec => []CropsAreSafe
<1>1. SearchInv => CropsAreSafe
  <2> SUFFICES ASSUME SearchInv, NEW i \in DOMAIN predictions
               PROVE  LET box == predictions[i].object.box
                      IN  /\ Inside(box, frame)
                          /\ IsCandidate(i) => box.width > 0 /\ box.height > 0
                          /\ \A k \in DOMAIN predictions[i].plates :
                               Inside(Relative(predictions[i].plates[k].box, box), box)
    BY DEF CropsAreSafe
  <2> DEFINE q == predictions[i]
  <2>1. q \in Safe(frame)
    BY SearchTypes
  <2>2. /\ Inside(q.object.box, frame)
        /\ q.plates \in Seq(OnVehicle(q.object.box))
        /\ q.hasDeltas => Sized(q.object.box)
    <3> HIDE DEF q
    <3> QED BY <2>1, SafePrediction
  <2>3. IsCandidate(i) => q.object.box.width > 0 /\ q.object.box.height > 0
    BY <2>2 DEF IsCandidate, Sized
  <2>4. \A k \in DOMAIN q.plates : q.plates[k] \in OnVehicle(q.object.box)
    <3> HIDE DEF q
    <3> QED BY <2>2
  <2>5. \A k \in DOMAIN q.plates :
          Inside(Relative(q.plates[k].box, q.object.box), q.object.box)
    BY <2>4 DEF OnVehicle
  <2> QED BY <2>2, <2>3, <2>5
<1> QED BY <1>1, SearchHolds, PTL

\* Plates are candidates of a report on the vehicle they are filed under.
Filed ==
    \A i \in DOMAIN predictions : predictions[i].plates # <<>> =>
        \E answer \in answers :
            /\ answer[1] = i
            /\ \A k \in DOMAIN predictions[i].plates :
                 predictions[i].plates[k] \in PlatesFrom(predictions[i].object.box, answer[2])

LEMMA FiledHolds == SearchInv /\ Filed /\ [Next]_vars => Filed'
<1> SUFFICES ASSUME SearchInv, Filed, [Next]_vars PROVE Filed'
  OBVIOUS
<1>1. ASSUME NEW candidates \in ObjectReports, DetectObjects(candidates) PROVE Filed'
  BY <1>1 DEF DetectObjects, Filed
<1>2. ASSUME NEW marked \in SUBSET DOMAIN predictions, MarkDeltas(marked) PROVE Filed'
  <2>1. /\ answers' = answers
        /\ predictions' = [i \in DOMAIN predictions |->
                             [predictions[i] EXCEPT !.hasDeltas = i \in marked]]
    BY <1>2 DEF MarkDeltas
  <2>2. ASSUME NEW i \in DOMAIN predictions
        PROVE  /\ predictions'[i].object = predictions[i].object
               /\ predictions'[i].plates = predictions[i].plates
    <3>1. predictions[i] \in Safe(frame)
      BY SearchTypes
    <3> QED BY <2>1, <3>1 DEF Safe
  <2> QED BY <2>1, <2>2 DEF Filed
<1>3. ASSUME NEW n \in 1 .. BatchSize, NEW reports \in [1 .. n -> PlateReports],
             DetectPlates(reports)
      PROVE  Filed'
  <2> DEFINE images == Append(batch, p)
  <2>1. /\ SearchPlates(images, reports)
        /\ answers' = answers \cup { <<images[b], reports[b]>> : b \in DOMAIN images }
    BY <1>3 DEF DetectPlates, SearchPlates
  <2>2. PICK found \in [DOMAIN predictions -> Seq(Found)] :
          /\ predictions' = [i \in DOMAIN predictions |->
                               [predictions[i] EXCEPT !.plates = found[i]]]
          /\ \A i \in DOMAIN predictions :
               /\ found[i] \in Seq(OnVehicle(predictions[i].object.box))
               /\ i \notin Pending \cup {p} => found[i] = predictions[i].plates
               /\ \/ found[i] = predictions[i].plates
                  \/ \E b \in DOMAIN images :
                       /\ images[b] = i
                       /\ found[i] \in Seq(PlatesFrom(predictions[i].object.box, reports[b]))
    <3>1. SearchPlates(Append(batch, p), reports)
      BY <2>1
    <3> HIDE <2>1
    <3> QED BY <3>1, PlatesFiled
  <2> HIDE DEF images
  <2>3. ASSUME NEW i \in DOMAIN predictions
        PROVE  /\ predictions'[i].object = predictions[i].object
               /\ predictions'[i].plates = found[i]
    <3> DEFINE q == predictions[i]
    <3>1. q \in Safe(frame)
      BY SearchTypes
    <3>2. predictions'[i] = [q EXCEPT !.plates = found[i]]
      BY <2>2
    <3> HIDE DEF q
    <3>3. /\ predictions'[i].object = q.object
          /\ predictions'[i].plates = found[i]
      BY <3>1, <3>2 DEF Safe
    <3> QED BY <3>3 DEF q
  <2>4. ASSUME NEW i \in DOMAIN predictions, found[i] # <<>>
        PROVE  \E answer \in answers' :
                   /\ answer[1] = i
                   /\ \A k \in DOMAIN found[i] :
                        found[i][k] \in PlatesFrom(predictions[i].object.box, answer[2])
    <3>1. CASE found[i] = predictions[i].plates
      BY <2>1, <2>4, <3>1 DEF Filed
    <3>2. CASE \E b \in DOMAIN images :
                 /\ images[b] = i
                 /\ found[i] \in Seq(PlatesFrom(predictions[i].object.box, reports[b]))
      <4>1. PICK b \in DOMAIN images :
                 /\ images[b] = i
                 /\ found[i] \in Seq(PlatesFrom(predictions[i].object.box, reports[b]))
        BY <3>2
      <4>2. <<i, reports[b]>> \in answers'
        BY <2>1, <4>1
      <4>3. ASSUME NEW S, NEW s \in Seq(S) PROVE \A k \in DOMAIN s : s[k] \in S
        OBVIOUS
      <4>4. \A k \in DOMAIN found[i] :
              found[i][k] \in PlatesFrom(predictions[i].object.box, reports[b])
        BY <4>1, <4>3
      <4> QED BY <4>2, <4>4
    <3> QED BY <2>2, <3>1, <3>2
  <2>5. DOMAIN predictions' = DOMAIN predictions
    BY <2>2
  <2> QED BY <2>3, <2>4, <2>5 DEF Filed
<1>4. CASE NotAVehicle \/ AddToBatch \/ WriteBack \/ UNCHANGED vars
  BY <1>4 DEF NotAVehicle, AddToBatch, WriteBack, vars, Filed
<1>5. CASE NextFrame
  BY <1>5 DEF NextFrame, Filed
<1> QED BY <1>1, <1>2, <1>3, <1>4, <1>5 DEF Next

(***************************************************************************)
(* For any frames, reports and batch sizes: what is filed under a vehicle  *)
(* was reported of its own crop, surely enough, and at that place; no      *)
(* vehicle is given to the model twice; and batches of one, or a model     *)
(* with a static batch, leave none out.                                    *)
(***************************************************************************)
THEOREM PlatesReachTheirVehicle == Spec => []PlatesOfTheirVehicle
<1>1. Init => Filed
  BY DEF Init, Filed
<1>2. SearchInv /\ Filed => PlatesOfTheirVehicle
  <2> SUFFICES ASSUME SearchInv, Filed PROVE PlatesOfTheirVehicle
    OBVIOUS
  <2>1. \A s, t \in DOMAIN searched : s < t => searched[s] < searched[t]
    BY DEF SearchInv, InTurn
  <2>2. ASSUME stage = "done", ~dynamic \/ BatchSize = 1,
               NEW i \in DOMAIN predictions, IsCandidate(i)
        PROVE  \E s \in DOMAIN searched : searched[s] = i
    <3>1. /\ p = Len(predictions) + 1 /\ Len(predictions) \in Nat
          /\ DOMAIN predictions = 1 .. Len(predictions)
          /\ batch \in Seq(1 .. p - 1) /\ Len(batch) < BatchSize
      BY <2>2, SearchTypes DEF SearchInv, InStages, TypeOK
    <3>2. batch = <<>>
      <4>1. CASE ~dynamic
        BY <4>1 DEF SearchInv, TypeOK
      <4>2. CASE BatchSize = 1
        BY <3>1, <4>2
      <4> QED BY <2>2, <4>1, <4>2
    <3>3. Pending = {}
      BY <3>2 DEF Pending
    <3>4. i \in 1 .. p - 1
      BY <3>1
    <3> QED BY <2>2, <3>3, <3>4 DEF SearchInv, InTurn, Given
  <2> QED BY <2>1, <2>2 DEF PlatesOfTheirVehicle, Filed
<1> QED BY <1>1, <1>2, FiledHolds, SearchHolds, PTL DEF Spec
------------------------------------------------------------------------------
(* What suppression leaves.                                                *)

LEMMA IntersectionOfBoxes ==
    ASSUME NEW a \in Box, NEW b \in Box
    PROVE  /\ Intersection(a, b) = Intersection(b, a)
           /\ a.width * a.height \in Int /\ b.width * b.height \in Int
           /\ Intersection(a, b) \in Int
<1>1. /\ a.x \in Int /\ a.y \in Int /\ a.width \in Nat /\ a.height \in Nat
      /\ b.x \in Int /\ b.y \in Int /\ b.width \in Nat /\ b.height \in Nat
  BY DEF Box
<1> DEFINE across(c, d) == Least(c.x + c.width, d.x + d.width) - Greatest(c.x, d.x)
           down(c, d) == Least(c.y + c.height, d.y + d.height) - Greatest(c.y, d.y)
<1>2. across(a, b) = across(b, a) /\ down(a, b) = down(b, a)
  BY <1>1 DEF Least, Greatest
<1>3. across(a, b) \in Int /\ down(a, b) \in Int
  BY <1>1 DEF Least, Greatest
<1>4. \A c, d : Intersection(c, d) =
        IF across(c, d) <= 0 \/ down(c, d) <= 0 THEN 0 ELSE across(c, d) * down(c, d)
  BY DEF Intersection
<1> HIDE DEF across, down
<1>5. Intersection(a, b) = Intersection(b, a)
  BY <1>2, <1>4
<1>6. across(a, b) * down(a, b) \in Int
  BY <1>3
<1>7. Intersection(a, b) \in Int
  BY <1>4, <1>6
<1>8. a.width * a.height \in Int /\ b.width * b.height \in Int
  BY <1>1
<1> QED BY <1>5, <1>7, <1>8

LEMMA OverlapIsMutual ==
    ASSUME NEW a \in Box, NEW b \in Box
    PROVE  Overlap(a, b) <=> Overlap(b, a)
<1>1. /\ Intersection(a, b) = Intersection(b, a) /\ Intersection(a, b) \in Int
      /\ a.width * a.height \in Int /\ b.width * b.height \in Int
  BY IntersectionOfBoxes
<1> DEFINE union(c, d) == c.width * c.height + d.width * d.height - Intersection(c, d)
<1>2. union(a, b) = union(b, a)
  BY <1>1
<1>3. \A c, d : Overlap(c, d) <=>
        Intersection(c, d) > 0 /\ 100 * Intersection(c, d) > IouThreshold * union(c, d)
  BY DEF Overlap
<1> HIDE DEF union
<1> QED BY <1>1, <1>2, <1>3

LEMMA ShiftedBoxes ==
    ASSUME NEW image, Sized(image),
           image.width <= ClassOffset \/ image.height <= ClassOffset,
           NEW a \in Box, Inside(a, image), NEW b \in Box, Inside(b, image),
           NEW c \in Nat, NEW d \in Nat
    PROVE  Overlap(NmsBox(a, c), NmsBox(b, d)) <=> c = d /\ Overlap(a, b)
<1> DEFINE m == c * ClassOffset
           n == d * ClassOffset
           A == NmsBox(a, c)
           B == NmsBox(b, d)
<1>1. /\ a.x \in Int /\ a.y \in Int /\ a.width \in Nat /\ a.height \in Nat
      /\ b.x \in Int /\ b.y \in Int /\ b.width \in Nat /\ b.height \in Nat
  BY DEF Box
<1>2. ClassOffset \in Nat /\ m \in Nat /\ n \in Nat
  BY DetectionsAssumption
<1>3. /\ A.x = a.x + m /\ A.y = a.y + m /\ A.width = a.width /\ A.height = a.height
      /\ B.x = b.x + n /\ B.y = b.y + n /\ B.width = b.width /\ B.height = b.height
  BY DEF NmsBox, Box
<1> DEFINE across(e, f) == Least(e.x + e.width, f.x + f.width) - Greatest(e.x, f.x)
           down(e, f) == Least(e.y + e.height, f.y + f.height) - Greatest(e.y, f.y)
           union(e, f) == e.width * e.height + f.width * f.height - Intersection(e, f)
<1>4. \A e, f : Intersection(e, f) =
        IF across(e, f) <= 0 \/ down(e, f) <= 0 THEN 0 ELSE across(e, f) * down(e, f)
  BY DEF Intersection
<1>5. \A e, f : Overlap(e, f) <=>
        Intersection(e, f) > 0 /\ 100 * Intersection(e, f) > IouThreshold * union(e, f)
  BY DEF Overlap
<1>6. CASE c = d
  <2>1. m = n
    BY <1>6
  <2> HIDE DEF A, B, m, n
  <2>2. across(A, B) = across(a, b) /\ down(A, B) = down(a, b)
    BY <1>1, <1>2, <1>3, <2>1 DEF Least, Greatest
  <2> HIDE DEF across, down
  <2>3. Intersection(A, B) = Intersection(a, b)
    BY <1>4, <2>2
  <2>4. union(A, B) = union(a, b)
    BY <1>3, <2>3
  <2> HIDE DEF union
  <2>5. Overlap(A, B) <=> Overlap(a, b)
    BY <1>5, <2>3, <2>4
  <2> QED BY <1>6, <2>5 DEF A, B
<1>7. CASE c # d
  <2>1. m + ClassOffset <= n \/ n + ClassOffset <= m
    <3>1. ASSUME NEW e \in Nat, NEW f \in Nat, e < f
          PROVE  e * ClassOffset + ClassOffset <= f * ClassOffset
      <4>1. f - e - 1 \in Nat /\ f = e + 1 + (f - e - 1)
        BY <3>1
      <4>2. f * ClassOffset = e * ClassOffset + ClassOffset + (f - e - 1) * ClassOffset
        BY <1>2, <4>1
      <4>3. (f - e - 1) * ClassOffset \in Nat /\ e * ClassOffset \in Nat
        BY <1>2, <4>1
      <4> QED BY <1>2, <4>2, <4>3
    <3>2. c < d \/ d < c
      BY <1>7
    <3> QED BY <3>1, <3>2
  <2>2. /\ 0 <= a.x /\ a.x + a.width <= image.width
        /\ 0 <= a.y /\ a.y + a.height <= image.height
        /\ 0 <= b.x /\ b.x + b.width <= image.width
        /\ 0 <= b.y /\ b.y + b.height <= image.height
        /\ image.width \in Nat /\ image.height \in Nat
    BY <1>1 DEF Inside, Sized
  <2> HIDE DEF A, B, m, n
  <2>3. across(A, B) <= 0 \/ down(A, B) <= 0
    <3>1. CASE image.width <= ClassOffset
      BY <1>1, <1>2, <1>3, <2>1, <2>2, <3>1 DEF Least, Greatest
    <3>2. CASE image.height <= ClassOffset
      BY <1>1, <1>2, <1>3, <2>1, <2>2, <3>2 DEF Least, Greatest
    <3> QED BY <3>1, <3>2
  <2> HIDE DEF across, down
  <2>4. Intersection(A, B) = 0
    BY <1>4, <2>3
  <2> HIDE DEF union
  <2>5. ~Overlap(A, B)
    BY <1>5, <2>4
  <2> QED BY <1>7, <2>5 DEF A, B
<1> QED BY <1>6, <1>7

\* SuppressionIsExact of what was kept of a report.
Exact(candidates, kept, image) ==
    LET box(i) == ScaleCoords(Canvas, Corners(candidates[i]), image)
        Alike(i, j) == /\ ClassOf(candidates[i]) = ClassOf(candidates[j])
                       /\ Overlap(box(i), box(j))
    IN  /\ kept \subseteq Strong(candidates)
        /\ \A i, j \in kept : i # j => ~Alike(i, j)
        /\ \A i \in Strong(candidates) \ kept :
             \E j \in kept : /\ Alike(i, j)
                             /\ Score(candidates[j]) >= Score(candidates[i])

IndicesOf(found) == { found[k].index : k \in DOMAIN found }

LEMMA SuppressionWorks ==
    ASSUME NEW candidates \in Report, NEW order \in SortedIndices(candidates),
           NEW image, Sized(image),
           image.width <= ClassOffset \/ image.height <= ClassOffset
    PROVE  Exact(candidates, IndicesOf(PostProcess(candidates, order, Canvas, image)), image)
<1> DEFINE box(i) == ScaleCoords(Canvas, Corners(candidates[i]), image)
           class(i) == ClassOf(candidates[i])
           boxes == [i \in DOMAIN candidates |-> box(i)]
           shifted == [i \in DOMAIN candidates |-> NmsBox(boxes[i], class(i))]
           indices == NMSBoxes(shifted, order)
           found == PostProcess(candidates, order, Canvas, image)
           kept == IndicesOf(found)
           Alike(i, j) == class(i) = class(j) /\ Overlap(box(i), box(j))
<1>1. /\ order \in Seq(Strong(candidates))
      /\ \A i \in Strong(candidates) : \E k \in 1 .. Len(order) : order[k] = i
      /\ \A k, l \in 1 .. Len(order) : k < l =>
           Score(candidates[order[k]]) >= Score(candidates[order[l]])
  BY SortedOrder
<1>2. /\ indices \in Seq(Strong(candidates))
      /\ Suppressed(shifted, order, indices, Len(order))
  <2> HIDE DEF shifted
  <2> QED BY <1>1, NMSBoxesKept
<1>3. found = [k \in DOMAIN indices |->
                 [box |-> boxes[indices[k]], conf |-> Score(candidates[indices[k]]),
                  class |-> class(indices[k]), index |-> indices[k]]]
  BY DEF PostProcess
<1>4. ASSUME NEW i \in DOMAIN candidates, NEW j \in DOMAIN candidates
      PROVE  /\ Overlap(shifted[i], shifted[j]) <=> Alike(i, j)
             /\ Alike(i, j) <=> Alike(j, i)
  <2>1. /\ box(i) \in Box /\ Inside(box(i), image)
        /\ box(j) \in Box /\ Inside(box(j), image)
    BY CandidateBox, PlateDetectionAssumption
  <2>2. class(i) \in Nat /\ class(j) \in Nat
    BY BestClass
  <2>3. shifted[i] = NmsBox(box(i), class(i)) /\ shifted[j] = NmsBox(box(j), class(j))
    OBVIOUS
  <2> HIDE DEF shifted, box, class
  <2> QED BY <2>1, <2>2, <2>3, ShiftedBoxes, OverlapIsMutual
<1> HIDE DEF indices, found, shifted, Alike
<1>5. kept = { indices[k] : k \in DOMAIN indices }
  BY <1>3 DEF IndicesOf
<1>6. /\ \A k \in DOMAIN indices : indices[k] \in Strong(candidates) /\ k \in Nat
      /\ Strong(candidates) \subseteq DOMAIN candidates
  BY <1>2 DEF Strong
<1>7. ASSUME NEW i \in kept, NEW j \in kept, i # j PROVE ~Alike(i, j)
  <2>1. PICK k \in DOMAIN indices, l \in DOMAIN indices : i = indices[k] /\ j = indices[l]
    BY <1>5
  <2>2. k < l \/ l < k
    BY <1>6, <1>7, <2>1
  <2>3. i \in DOMAIN candidates /\ j \in DOMAIN candidates
    BY <1>6, <2>1
  <2>4. ~Overlap(shifted[i], shifted[j]) \/ ~Overlap(shifted[j], shifted[i])
    BY <1>2, <2>1, <2>2 DEF Suppressed
  <2> QED BY <1>4, <2>3, <2>4
<1>8. ASSUME NEW i \in Strong(candidates) \ kept
      PROVE  \E j \in kept : Alike(i, j) /\ Score(candidates[j]) >= Score(candidates[i])
  <2>1. PICK n \in 1 .. Len(order) : order[n] = i
    BY <1>1
  <2>2. PICK k \in DOMAIN indices, h \in 1 .. n :
          /\ indices[k] = order[h]
          /\ h = n \/ Overlap(shifted[indices[k]], shifted[order[n]])
    BY <1>2 DEF Suppressed
  <2>3. indices[k] \in kept
    BY <1>5
  <2>4. h # n /\ h \in Nat /\ n \in Nat
    BY <1>1, <2>1, <2>2, <2>3
  <2>5. h < n /\ h \in 1 .. Len(order)
    <3>1. Len(order) \in Nat
      BY <1>1
    <3> QED BY <2>4, <3>1
  <2>6. Score(candidates[indices[k]]) >= Score(candidates[i])
    BY <1>1, <2>1, <2>2, <2>5
  <2>7. Overlap(shifted[indices[k]], shifted[i])
    BY <2>1, <2>2, <2>4
  <2>8. Alike(i, indices[k])
    BY <1>4, <1>6, <2>7
  <2> QED BY <2>3, <2>6, <2>8
<1>9. kept \subseteq Strong(candidates)
  BY <1>5, <1>6
<1> QED BY <1>7, <1>8, <1>9 DEF Alike, found, Exact

KeptIndices == { predictions[k].object.index : k \in DOMAIN predictions }

LEMMA ExactIndices ==
    SuppressionIsExact <=> (stage # "detect" => Exact(report, KeptIndices, frame))
  BY DEF SuppressionIsExact, Exact, Strong, KeptIndices

LEMMA ExactIndicesNext ==
    SuppressionIsExact' <=> (stage' # "detect" => Exact(report', KeptIndices', frame'))
<1>1. (SuppressionIsExact <=> (stage # "detect" => Exact(report, KeptIndices, frame)))'
  BY ExactIndices, PTL
<1> QED BY <1>1

LEMMA SuppressionStays ==
    ASSUME SuppressionIsExact, stage # "detect", report' = report, frame' = frame,
           DOMAIN predictions' = DOMAIN predictions,
           \A i \in DOMAIN predictions : predictions'[i].object = predictions[i].object
    PROVE  SuppressionIsExact'
<1>1. KeptIndices' = KeptIndices
  BY DEF KeptIndices
<1>2. Exact(report, KeptIndices, frame)
  BY ExactIndices
<1> QED BY <1>1, <1>2, ExactIndicesNext

(***************************************************************************)
(* Suppression keeps one of each group of overlapping boxes of a class and *)
(* drops nothing else, for any report, order of equal scores and frame, if *)
(* no frame is both wider and higher than the offset between classes.      *)
(***************************************************************************)
THEOREM SuppressionKeepsTheBest ==
    ASSUME \A size \in Frames : size.width <= ClassOffset \/ size.height <= ClassOffset
    PROVE  Spec => []SuppressionIsExact
<1>1. Init => SuppressionIsExact
  BY DEF Init, SuppressionIsExact
<1>2. SearchInv /\ SuppressionIsExact /\ [Next]_vars => SuppressionIsExact'
  <2> SUFFICES ASSUME SearchInv, SuppressionIsExact, [Next]_vars
               PROVE  SuppressionIsExact'
    OBVIOUS
  <2>1. ASSUME NEW candidates \in ObjectReports, DetectObjects(candidates)
        PROVE  SuppressionIsExact'
    <3>1. PICK order \in SortedIndices(candidates) :
            predictions' = [i \in DOMAIN PostProcess(candidates, order, Canvas, frame) |->
                [object |-> PostProcess(candidates, order, Canvas, frame)[i],
                 hasDeltas |-> FALSE, plates |-> <<>>]]
      BY <2>1 DEF DetectObjects
    <3>2. report' = candidates /\ frame' = frame /\ frame \in Frames
      BY <2>1 DEF DetectObjects, SearchInv, TypeOK
    <3>3. /\ candidates \in Report /\ Sized(frame)
          /\ frame.width <= ClassOffset \/ frame.height <= ClassOffset
      BY <3>2, PlateDetectionAssumption DEF Sized, Extent
    <3> DEFINE found == PostProcess(candidates, order, Canvas, frame)
    <3>4. Exact(candidates, IndicesOf(found), frame)
      BY <3>3, SuppressionWorks
    <3> HIDE DEF found
    <3>5. KeptIndices' = IndicesOf(found)
      BY <3>1 DEF found, IndicesOf, KeptIndices
    <3> QED BY <3>2, <3>4, <3>5, ExactIndicesNext
  <2>2. ASSUME NEW marked \in SUBSET DOMAIN predictions, MarkDeltas(marked)
        PROVE  SuppressionIsExact'
    <3>1. /\ stage # "detect" /\ report' = report /\ frame' = frame
          /\ predictions' = [i \in DOMAIN predictions |->
                               [predictions[i] EXCEPT !.hasDeltas = i \in marked]]
      BY <2>2 DEF MarkDeltas
    <3>2. ASSUME NEW i \in DOMAIN predictions
          PROVE  predictions'[i].object = predictions[i].object
      <4>1. predictions[i] \in Safe(frame)
        BY SearchTypes
      <4> QED BY <3>1, <4>1 DEF Safe
    <3> QED BY <3>1, <3>2, SuppressionStays
  <2>3. ASSUME NEW n \in 1 .. BatchSize, NEW reports \in [1 .. n -> PlateReports],
               DetectPlates(reports)
        PROVE  SuppressionIsExact'
    <3>1. PICK found \in [DOMAIN predictions -> Seq(Found)] :
            predictions' = [i \in DOMAIN predictions |->
                              [predictions[i] EXCEPT !.plates = found[i]]]
      BY <2>3, PlatesFiled DEF DetectPlates
    <3>2. stage # "detect" /\ report' = report /\ frame' = frame
      BY <2>3 DEF DetectPlates, SearchPlates
    <3>3. ASSUME NEW i \in DOMAIN predictions
          PROVE  predictions'[i].object = predictions[i].object
      <4>1. predictions[i] \in Safe(frame)
        BY SearchTypes
      <4> QED BY <3>1, <4>1 DEF Safe
    <3> QED BY <3>1, <3>2, <3>3, SuppressionStays
  <2>4. CASE NotAVehicle \/ AddToBatch \/ WriteBack
    BY <2>4, SuppressionStays DEF NotAVehicle, AddToBatch, WriteBack
  <2>5. CASE NextFrame
    BY <2>5 DEF NextFrame, SuppressionIsExact
  <2>6. CASE UNCHANGED vars
    <3>1. stage' = stage /\ report' = report /\ frame' = frame /\ predictions' = predictions
      BY <2>6 DEF vars
    <3>2. CASE stage = "detect"
      BY <3>1, <3>2 DEF SuppressionIsExact
    <3>3. CASE stage # "detect"
      BY <3>1, <3>3, SuppressionStays
    <3> QED BY <3>2, <3>3
  <2> QED BY <2>1, <2>2, <2>3, <2>4, <2>5, <2>6 DEF Next
<1> QED BY <1>1, <1>2, SearchHolds, PTL DEF Spec
------------------------------------------------------------------------------
(* The way back from the letter box.                                       *)

\* A quotient, whose product with the divisor is known to the provers only by this.
LEMMA Divided ==
    ASSUME NEW a \in Int, NEW b \in Nat \ {0}
    PROVE  a \div b \in Int /\ b * (a \div b) <= a /\ a < b * (a \div b) + b
OBVIOUS

LEMMA Multiplied ==
    ASSUME NEW a \in Int, NEW b \in Int, NEW c \in Nat, a <= b
    PROVE  c * a <= c * b
OBVIOUS

\* Rounding is off by one half.
LEMMA RoundNear ==
    ASSUME NEW a \in Int, NEW b \in Nat \ {0}
    PROVE  /\ Round(a, b) \in Int
           /\ 2 * a - b <= 2 * (b * Round(a, b)) /\ 2 * (b * Round(a, b)) <= 2 * a + b
<1>1. CASE a >= 0
  <2> DEFINE q == (2 * a + b) \div (2 * b)
  <2>1. q \in Int /\ (2 * b) * q <= 2 * a + b /\ 2 * a + b < (2 * b) * q + 2 * b
    <3>1. 2 * a + b \in Int /\ 2 * b \in Nat \ {0}
      OBVIOUS
    <3> QED BY <3>1, Divided
  <2>2. Round(a, b) = q
    BY <1>1 DEF Round
  <2> HIDE DEF q
  <2>3. (2 * b) * q = 2 * (b * q) /\ b * q \in Int
    BY <2>1
  <2> QED BY <2>1, <2>2, <2>3
<1>2. CASE a < 0
  <2> DEFINE q == (b - 2 * a) \div (2 * b)
  <2>1. q \in Int /\ (2 * b) * q <= b - 2 * a /\ b - 2 * a < (2 * b) * q + 2 * b
    <3>1. b - 2 * a \in Int /\ 2 * b \in Nat \ {0}
      OBVIOUS
    <3> QED BY <3>1, Divided
  <2>2. Round(a, b) = -q
    BY <1>2 DEF Round
  <2> HIDE DEF q
  <2>3. (2 * b) * q = 2 * (b * q) /\ b * q \in Int /\ b * (-q) = -(b * q)
    BY <2>1
  <2> QED BY <2>1, <2>2, <2>3
<1> QED BY <1>1, <1>2

LEMMA Products ==
    ASSUME NEW a \in Int, NEW b \in Int, NEW c \in Int
    PROVE  /\ a * b \in Int /\ a * b = b * a /\ a * (b - c) = a * b - a * c
           /\ a * (b - c - 1) = a * b - a * c - a
           /\ a * (2 * b) = 2 * (a * b) /\ (2 * a) * b = 2 * (a * b)
OBVIOUS

LEMMA WithinOne ==
    ASSUME NEW d \in Nat \ {0}, NEW k \in Int, 4 * (d * k) <= 3 * d, 4 * (d * k) >= -5 * d
    PROVE  k \in {-1, 0}
<1>1. k <= 0
  OBVIOUS
<1>2. k >= -1
  OBVIOUS
<1> QED BY <1>1, <1>2

\* The letter box is placed as scaleCoords expects it, or one pixel before.
LEMMA PaddingNear ==
    ASSUME NEW n \in Nat \ {0}, NEW d \in Nat \ {0}, NEW canvas \in Nat, NEW image \in Nat,
           NEW covered, covered = Round(image * n, d)
    PROVE  LET corner == (canvas - covered) \div 2
               pad == Round(canvas * d - image * n, 2 * d)
           IN  /\ corner \in Int /\ pad \in Int /\ covered \in Int
               /\ 2 * (image * n) - d <= 2 * (d * covered)
               /\ 2 * (d * covered) <= 2 * (image * n) + d
               /\ corner - pad \in {-1, 0}
<1> DEFINE corner == (canvas - covered) \div 2
           pad == Round(canvas * d - image * n, 2 * d)
<1>1. image * n \in Int /\ canvas * d \in Int /\ canvas * d - image * n \in Int /\ 2 * d \in Nat \ {0}
  OBVIOUS
<1>2. /\ covered \in Int
      /\ 2 * (image * n) - d <= 2 * (d * covered) /\ 2 * (d * covered) <= 2 * (image * n) + d
  BY <1>1, RoundNear
<1>3. /\ pad \in Int
      /\ 2 * (canvas * d - image * n) - 2 * d <= 2 * ((2 * d) * pad)
      /\ 2 * ((2 * d) * pad) <= 2 * (canvas * d - image * n) + 2 * d
  BY <1>1, RoundNear
<1>4. corner \in Int /\ 2 * corner <= canvas - covered /\ canvas - covered - 1 <= 2 * corner
  <2>1. canvas - covered \in Int
    BY <1>2
  <2>2. \A k \in Int : k \div 2 \in Int /\ 2 * (k \div 2) <= k /\ k - 1 <= 2 * (k \div 2)
    OBVIOUS
  <2> QED BY <2>1, <2>2
<1> HIDE DEF corner, pad
<1>5. d * (2 * corner) <= d * (canvas - covered) /\ d * (canvas - covered - 1) <= d * (2 * corner)
  <2>1. /\ 2 * corner \in Int /\ canvas - covered \in Int /\ canvas - covered - 1 \in Int
        /\ 2 * corner <= canvas - covered /\ canvas - covered - 1 <= 2 * corner /\ d \in Nat
    BY <1>2, <1>4
  <2> QED BY <2>1, Multiplied
<1>6. /\ d * (2 * corner) = 2 * (d * corner) /\ d * corner \in Int
      /\ d * (canvas - covered) = canvas * d - d * covered /\ d * covered \in Int
      /\ d * (canvas - covered - 1) = canvas * d - d * covered - d
      /\ (2 * d) * pad = 2 * (d * pad) /\ d * pad \in Int
      /\ d * (corner - pad) = d * corner - d * pad
  <2>1. d \in Int /\ corner \in Int /\ canvas \in Int /\ covered \in Int /\ pad \in Int
    BY <1>2, <1>3, <1>4
  <2>2. d * (2 * corner) = 2 * (d * corner) /\ d * corner \in Int /\ d * (corner - pad) = d * corner - d * pad
    BY <2>1, Products
  <2>3. /\ d * (canvas - covered) = canvas * d - d * covered /\ d * covered \in Int
        /\ d * (canvas - covered - 1) = canvas * d - d * covered - d
    BY <2>1, Products
  <2>4. (2 * d) * pad = 2 * (d * pad) /\ d * pad \in Int
    BY <2>1, Products
  <2> QED BY <2>2, <2>3, <2>4
<1>7. 4 * (d * (corner - pad)) <= 3 * d /\ 4 * (d * (corner - pad)) >= -5 * d
  BY <1>1, <1>2, <1>3, <1>5, <1>6
<1>8. corner - pad \in Int
  BY <1>3, <1>4
<1>9. corner - pad \in {-1, 0}
  <2> HIDE DEF Round
  <2> QED BY <1>7, <1>8, WithinOne
<1> QED BY <1>2, <1>3, <1>4, <1>9 DEF corner, pad

\* In what CoordinateBack multiplies, u, v are places on the canvas, r on the image.
LEMMA WithinImage ==
    ASSUME NEW N \in Nat \ {0}, NEW D \in Nat \ {0}, NEW W \in Nat, NEW covered \in Int,
           NEW u \in Int, NEW r \in 0 .. W,
           2 * (W * N) - D <= 2 * (D * covered), 2 * (D * covered) <= 2 * (W * N) + D,
           2 * (u * D) - N <= 2 * (N * r), 2 * (N * r) <= 2 * (u * D) + N
    PROVE  /\ 2 * (D * (r * covered)) <= W * (2 * (u * D) + N + D)
           /\ W * (2 * (u * D) - N - D) <= 2 * (D * (r * covered))
<1>1. /\ r \in Nat /\ r <= W /\ W * N \in Int /\ D * covered \in Int /\ u * D \in Int
      /\ N * r \in Int /\ D \in Nat /\ N \in Nat /\ r * covered \in Int
  OBVIOUS
<1>2. /\ r * (2 * (D * covered)) <= r * (2 * (W * N) + D)
      /\ r * (2 * (W * N) - D) <= r * (2 * (D * covered))
  <2>1. 2 * (W * N) - D \in Int /\ 2 * (D * covered) \in Int /\ 2 * (W * N) + D \in Int
    BY <1>1
  <2> QED BY <1>1, <2>1, Multiplied
<1>3. /\ W * (2 * (N * r)) <= W * (2 * (u * D) + N)
      /\ W * (2 * (u * D) - N) <= W * (2 * (N * r))
  <2>1. 2 * (u * D) - N \in Int /\ 2 * (N * r) \in Int /\ 2 * (u * D) + N \in Int
    BY <1>1
  <2> QED BY <2>1, Multiplied
<1>4. D * r <= D * W
  BY <1>1, Multiplied
<1>5. /\ r * (2 * (D * covered)) = 2 * (D * (r * covered))
      /\ r * (2 * (W * N) + D) = W * (2 * (N * r)) + D * r
      /\ r * (2 * (W * N) - D) = W * (2 * (N * r)) - D * r
      /\ W * (2 * (u * D) + N + D) = W * (2 * (u * D) + N) + D * W
      /\ W * (2 * (u * D) - N - D) = W * (2 * (u * D) - N) - D * W
  <2>1. \A a, b, c, d, e \in Int :
          /\ a * (2 * (b * c)) = 2 * (b * (a * c))
          /\ a * (2 * (b * c) + d) = b * (2 * (c * a)) + d * a
          /\ a * (2 * (b * c) - d) = b * (2 * (c * a)) - d * a
    OBVIOUS
  <2>2. \A a, b, c, d \in Int :
          /\ a * (2 * b + c + d) = a * (2 * b + c) + d * a
          /\ a * (2 * b - c - d) = a * (2 * b - c) - d * a
    OBVIOUS
  <2>3. W \in Int /\ N \in Int /\ D \in Int /\ r \in Int
    BY <1>1
  <2> QED BY <1>1, <2>1, <2>2, <2>3
<1>6. /\ D * r \in Int /\ D * W \in Int /\ W * (2 * (N * r)) \in Int /\ D * (r * covered) \in Int
      /\ W * (2 * (u * D) + N) \in Int /\ W * (2 * (u * D) - N) \in Int
  <2>1. \A a, b \in Int : a * b \in Int
    OBVIOUS
  <2>2. 2 * (u * D) - N \in Int /\ 2 * (N * r) \in Int /\ 2 * (u * D) + N \in Int
    BY <1>1
  <2> QED BY <1>1, <2>1, <2>2
<1> QED BY <1>2, <1>3, <1>4, <1>5, <1>6

LEMMA TwiceDifference ==
    ASSUME NEW a \in Int, NEW c \in Int, NEW d \in Int, NEW e \in Int, NEW f \in Int
    PROVE  2 * (a * (c * d - e * f)) = 2 * (a * (c * d)) - f * (2 * (e * a))
OBVIOUS

\* A coordinate v pixels into the letter box, taken to an image and clamped there.
LEMMA CoordinateBack ==
    ASSUME NEW N \in Nat \ {0}, NEW D \in Nat \ {0}, NEW W \in Nat, NEW covered \in Int,
           NEW v \in Nat, v <= covered, NEW k \in {-1, 0},
           2 * (W * N) - D <= 2 * (D * covered), 2 * (D * covered) <= 2 * (W * N) + D,
           NEW b, b = Clamp(Round((v + k) * D, N), 0, W)
    PROVE  LET error == b * covered - v * W
           IN  /\ 2 * (D * error) <= W * (3 * D + N)
               /\ -(2 * (D * error)) <= W * (3 * D + N)
<1> DEFINE u == v + k
           r == Round(u * D, N)
           error == b * covered - v * W
<1>1. /\ u \in Int /\ u * D \in Int /\ D \in Nat /\ N \in Nat
      /\ r \in Int /\ 2 * (u * D) - N <= 2 * (N * r) /\ 2 * (N * r) <= 2 * (u * D) + N
  <2>1. u \in Int /\ u * D \in Int
    OBVIOUS
  <2> HIDE DEF u
  <2> QED BY <2>1, RoundNear
<1>2. W * (3 * D + N) >= 0 /\ W * (3 * D + N) \in Int
  <2>1. \A a, c \in Nat : a * c \in Int /\ a * c >= 0
    OBVIOUS
  <2>2. 3 * D + N \in Nat
    OBVIOUS
  <2> QED BY <2>1, <2>2
<1>3. u * D = v * D + k * D /\ v * D \in Int /\ k * D \in {-D, 0}
  OBVIOUS
<1>4. CASE r < 0
  <2>1. b = 0
    BY <1>1, <1>4 DEF Clamp, Least, Greatest
  <2>2. N * r <= N * (-1)
    BY <1>1, <1>4, Multiplied
  <2>3. N * (-1) = -N /\ N * r \in Int
    BY <1>1
  <2>4. u * D < 0
    <3> HIDE DEF r, u
    <3> QED BY <1>1, <2>2, <2>3
  <2>5. u < 0
    <3>1. \A a \in Int, c \in Nat : a >= 0 => a * c >= 0
      OBVIOUS
    <3> HIDE DEF r, u
    <3> QED BY <1>1, <2>4, <3>1
  <2>6. v = 0
    BY <2>5
  <2>7. error = 0
    BY <2>1, <2>6
  <2>8. D * error = 0
    BY <2>7
  <2> HIDE DEF error
  <2> QED BY <1>2, <2>8 DEF error
<1>5. CASE r > W
  <2>1. b = W
    BY <1>1, <1>5 DEF Clamp, Least, Greatest
  <2>2. N * (W + 1) <= N * r /\ N * (W + 1) = W * N + N /\ N * r \in Int /\ W * N \in Int
    BY <1>1, <1>5, Multiplied
  <2>3. D * (covered - v) = D * covered - v * D /\ D * covered \in Int /\ D * (covered - v) >= 0
    OBVIOUS
  <2>4. 2 * (D * (covered - v)) <= D
    <3> HIDE DEF r, u
    <3> QED BY <1>1, <1>3, <2>2, <2>3
  <2>5. error = W * (covered - v) /\ error \in Int
    BY <2>1
  <2>6. D * error = W * (D * (covered - v)) /\ D * (covered - v) \in Nat
    <3>1. \A a, c, d \in Int : a * (c * d) = c * (a * d)
      OBVIOUS
    <3>2. D \in Int /\ W \in Int /\ covered - v \in Int
      OBVIOUS
    <3>3. D * (covered - v) \in Nat
      BY <2>3
    <3> HIDE DEF error
    <3> QED BY <2>5, <3>1, <3>2, <3>3
  <2> DEFINE over == D * (covered - v)
  <2>7. W * (2 * over) <= W * (3 * D + N) /\ W * (2 * over) = 2 * (W * over) /\ W * over >= 0 /\ W * over \in Int
    <3>1. over \in Nat /\ 2 * over <= D
      BY <2>4, <2>6
    <3> HIDE DEF over
    <3>2. 2 * over \in Int /\ 3 * D + N \in Int /\ 2 * over <= 3 * D + N
      BY <3>1
    <3>3. W * (2 * over) <= W * (3 * D + N)
      BY <3>2, Multiplied
    <3> QED BY <3>1, <3>3
  <2> HIDE DEF over, error
  <2> QED BY <1>2, <2>6, <2>7 DEF error, over
<1>6. CASE r \in 0 .. W
  <2>1. b = r
    BY <1>1, <1>6 DEF Clamp, Least, Greatest
  <2>2. /\ 2 * (D * (r * covered)) <= W * (2 * (u * D) + N + D)
        /\ W * (2 * (u * D) - N - D) <= 2 * (D * (r * covered))
    <3> HIDE DEF r, u
    <3> QED BY <1>1, <1>6, WithinImage
  <2>3. 2 * (D * error) = 2 * (D * (r * covered)) - W * (2 * (v * D)) /\ D * (r * covered) \in Int
    <3>2. D \in Int /\ r \in Int /\ covered \in Int /\ v \in Int /\ W \in Int /\ r * covered \in Int
      BY <1>1
    <3>3. D * (r * covered) \in Int
      BY <3>2
    <3>4. error = r * covered - v * W
      BY <2>1
    <3> HIDE DEF r, u, error
    <3>5. 2 * (D * (r * covered - v * W)) = 2 * (D * (r * covered)) - W * (2 * (v * D))
      BY <3>2, TwiceDifference
    <3> QED BY <3>3, <3>4, <3>5
  <2>4. /\ 2 * (u * D) + N + D <= 2 * (v * D) + (3 * D + N)
        /\ 2 * (v * D) - (3 * D + N) <= 2 * (u * D) - N - D
        /\ 2 * (v * D) + (3 * D + N) \in Int /\ 2 * (v * D) - (3 * D + N) \in Int
        /\ 2 * (u * D) - N - D \in Int /\ 2 * (u * D) + N + D \in Int
    <3> HIDE DEF r, u
    <3> QED BY <1>1, <1>3
  <2>5. /\ W * (2 * (u * D) + N + D) <= W * (2 * (v * D) + (3 * D + N))
        /\ W * (2 * (v * D) - (3 * D + N)) <= W * (2 * (u * D) - N - D)
    <3> HIDE DEF r, u
    <3> QED BY <2>4, Multiplied
  <2>6. /\ W * (2 * (v * D) + (3 * D + N)) = W * (2 * (v * D)) + W * (3 * D + N)
        /\ W * (2 * (v * D) - (3 * D + N)) = W * (2 * (v * D)) - W * (3 * D + N)
        /\ W * (2 * (v * D)) \in Int
    <3>1. \A a, c, d \in Int : a * (c + d) = a * c + a * d /\ a * (c - d) = a * c - a * d /\ a * c \in Int
      OBVIOUS
    <3>2. W \in Int /\ 2 * (v * D) \in Int /\ 3 * D + N \in Int
      BY <1>3
    <3> QED BY <3>1, <3>2
  <2>7. W * (2 * (u * D) + N + D) \in Int /\ W * (2 * (u * D) - N - D) \in Int
    <3>1. \A a, c \in Int : a * c \in Int
      OBVIOUS
    <3> HIDE DEF r, u
    <3> QED BY <2>4, <3>1
  <2> HIDE DEF error, r, u
  <2> QED BY <1>2, <2>2, <2>3, <2>5, <2>6, <2>7 DEF error
<1> QED BY <1>1, <1>4, <1>5, <1>6

NearBy(error, extent, gain) ==
    /\ 2 * gain.den * error <= extent * (3 * gain.den + gain.num)
    /\ -2 * gain.den * error <= extent * (3 * gain.den + gain.num)

\* One coordinate of a box, with what the letter box and scaleCoords make of it.
LEMMA BackAlongOneSide ==
    ASSUME NEW n \in Nat \ {0}, NEW d \in Nat \ {0}, NEW canvas \in Nat, NEW image \in Nat,
           NEW covered, covered = Round(image * n, d),
           NEW corner, corner = (canvas - covered) \div 2,
           NEW pad, pad = Round(canvas * d - image * n, 2 * d),
           NEW at \in Int, NEW extent \in Nat, at - corner >= 0, at - corner + extent <= covered,
           NEW b, b = Clamp(Round((at - pad) * d, n), 0, image)
    PROVE  NearBy((corner - at) * image + b * covered, image, [num |-> n, den |-> d])
<1>1. /\ corner \in Int /\ pad \in Int /\ covered \in Int
      /\ 2 * (image * n) - d <= 2 * (d * covered) /\ 2 * (d * covered) <= 2 * (image * n) + d
      /\ corner - pad \in {-1, 0}
  BY PaddingNear
<1> DEFINE v == at - corner
           k == corner - pad
<1>2. v \in Nat /\ v <= covered /\ k \in {-1, 0} /\ at - pad = v + k
  BY <1>1
<1>3. b = Clamp(Round((v + k) * d, n), 0, image)
  BY <1>2
<1> HIDE DEF v, k
<1>4. /\ 2 * (d * (b * covered - v * image)) <= image * (3 * d + n)
      /\ -(2 * (d * (b * covered - v * image))) <= image * (3 * d + n)
  BY <1>1, <1>2, <1>3, CoordinateBack
<1>5. b \in Int
  <2>1. (v + k) * d \in Int
    BY <1>2
  <2>2. Round((v + k) * d, n) \in Int
    BY <2>1, Rounded
  <2>3. b \in 0 .. image
    BY <1>3, <2>2, Clamped
  <2> QED BY <2>3
<1>6. (corner - at) * image + b * covered = b * covered - v * image
  <2>1. \A a, c, e \in Int : (a - c) * e = -((c - a) * e) /\ (c - a) * e \in Int
    OBVIOUS
  <2>2. (corner - at) * image = -((at - corner) * image) /\ (at - corner) * image \in Int
    BY <1>1, <2>1
  <2>3. b * covered \in Int
    BY <1>1, <1>5
  <2> QED BY <2>2, <2>3 DEF v
<1>7. b * covered - v * image \in Int
  BY <1>1, <1>2, <1>5
<1>8. ASSUME NEW e \in Int
      PROVE  2 * d * e = 2 * (d * e) /\ -2 * d * e = -(2 * (d * e))
  OBVIOUS
<1> DEFINE error == b * covered - v * image
<1>9. error \in Int /\ (corner - at) * image + b * covered = error
  BY <1>6, <1>7
<1>10. /\ 2 * (d * error) <= image * (3 * d + n)
       /\ -(2 * (d * error)) <= image * (3 * d + n)
  BY <1>4
<1> HIDE DEF error
<1>11. /\ 2 * d * error <= image * (3 * d + n)
       /\ -2 * d * error <= image * (3 * d + n)
  BY <1>8, <1>9, <1>10
<1> QED BY <1>9, <1>11 DEF NearBy

\* BackInPlace of one box.
IsBack(seen, box, canvas, image) ==
    LET lb == LetterBox(canvas, image)
    IN  /\ seen.width >= 0 /\ seen.height >= 0
        /\ Inside([seen EXCEPT !.x = @ - lb.x, !.y = @ - lb.y], lb)
        => /\ NearBy((lb.x - seen.x) * image.width + box.x * lb.width,
                     image.width, Gain(canvas, image))
           /\ NearBy((lb.y - seen.y) * image.height + box.y * lb.height,
                     image.height, Gain(canvas, image))

LEMMA BackOnImage ==
    ASSUME NEW canvas \in Extent, NEW image, Sized(image),
           NEW seen \in [x : Int, y : Int, width : Int, height : Int]
    PROVE  IsBack(seen, ScaleCoords(canvas, seen, image), canvas, image)
<1> DEFINE lb == LetterBox(canvas, image)
           box == ScaleCoords(canvas, seen, image)
<1> SUFFICES ASSUME seen.width >= 0, seen.height >= 0,
                    Inside([seen EXCEPT !.x = @ - lb.x, !.y = @ - lb.y], lb)
             PROVE  /\ NearBy((lb.x - seen.x) * image.width + box.x * lb.width,
                              image.width, Gain(canvas, image))
                    /\ NearBy((lb.y - seen.y) * image.height + box.y * lb.height,
                              image.height, Gain(canvas, image))
  BY DEF IsBack
<1> DEFINE gain == Gain(canvas, image)
           n == gain.num
           d == gain.den
           padX == Round(canvas.width * d - image.width * n, 2 * d)
           padY == Round(canvas.height * d - image.height * n, 2 * d)
<1>1. /\ n \in Nat \ {0} /\ d \in Nat \ {0}
      /\ canvas.width \in Nat /\ canvas.height \in Nat
      /\ image.width \in Nat /\ image.height \in Nat
  BY GainIsPositive DEF Sized, Extent
<1>2. gain = [num |-> n, den |-> d]
  BY DEF Gain
<1>3. /\ lb.width = Round(image.width * n, d) /\ lb.height = Round(image.height * n, d)
      /\ lb.x = (canvas.width - lb.width) \div 2 /\ lb.y = (canvas.height - lb.height) \div 2
  <2> HIDE DEF gain
  <2> QED BY DEF LetterBox, gain
<1>4. /\ box.x = Clamp(Round((seen.x - padX) * d, n), 0, image.width)
      /\ box.y = Clamp(Round((seen.y - padY) * d, n), 0, image.height)
  <2> HIDE DEF gain
  <2> QED BY DEF ScaleCoords, Clip, Padding, gain
<1>5. /\ seen.x \in Int /\ seen.y \in Int /\ seen.width \in Nat /\ seen.height \in Nat
      /\ seen.x - lb.x >= 0 /\ seen.x - lb.x + seen.width <= lb.width
      /\ seen.y - lb.y >= 0 /\ seen.y - lb.y + seen.height <= lb.height
  BY DEF Inside
<1> HIDE DEF n, d, lb, box
<1>6. NearBy((lb.x - seen.x) * image.width + box.x * lb.width, image.width, [num |-> n, den |-> d])
  BY <1>1, <1>3, <1>4, <1>5, BackAlongOneSide
<1>7. NearBy((lb.y - seen.y) * image.height + box.y * lb.height, image.height, [num |-> n, den |-> d])
  BY <1>1, <1>3, <1>4, <1>5, BackAlongOneSide
<1> QED BY <1>2, <1>6, <1>7

Objects == [k \in DOMAIN predictions |-> predictions[k].object]
Placed == PlacedBy(Objects, report, frame)

LEMMA PlacesStay ==
    ASSUME Placed, report' = report, frame' = frame,
           DOMAIN predictions' = DOMAIN predictions,
           \A i \in DOMAIN predictions : predictions'[i].object = predictions[i].object
    PROVE  Placed'
<1>1. Objects' = Objects
  BY DEF Objects
<1> QED BY <1>1 DEF Placed, PlacedBy

LEMMA PlacesHold == SearchInv /\ Placed /\ [Next]_vars => Placed'
<1> SUFFICES ASSUME SearchInv, Placed, [Next]_vars PROVE Placed'
  OBVIOUS
<1>1. ASSUME NEW candidates \in ObjectReports, DetectObjects(candidates) PROVE Placed'
  <2>1. PICK order \in SortedIndices(candidates) :
          predictions' = [i \in DOMAIN PostProcess(candidates, order, Canvas, frame) |->
              [object |-> PostProcess(candidates, order, Canvas, frame)[i],
               hasDeltas |-> FALSE, plates |-> <<>>]]
    BY <1>1 DEF DetectObjects
  <2>2. report' = candidates /\ frame' = frame /\ candidates \in Report
    BY <1>1, PlateDetectionAssumption DEF DetectObjects
  <2> DEFINE found == PostProcess(candidates, order, Canvas, frame)
  <2>3. PlacedBy(found, candidates, frame)
    BY <2>2, PlacesFound
  <2> HIDE DEF found
  <2>4. Objects' = [k \in DOMAIN found |-> found[k]]
    BY <2>1 DEF Objects, found
  <2> QED BY <2>2, <2>3, <2>4 DEF Placed, PlacedBy
<1>2. ASSUME NEW marked \in SUBSET DOMAIN predictions, MarkDeltas(marked) PROVE Placed'
  <2>1. /\ report' = report /\ frame' = frame
        /\ predictions' = [i \in DOMAIN predictions |->
                             [predictions[i] EXCEPT !.hasDeltas = i \in marked]]
    BY <1>2 DEF MarkDeltas
  <2>2. ASSUME NEW i \in DOMAIN predictions
        PROVE  predictions'[i].object = predictions[i].object
    <3>1. predictions[i] \in Safe(frame)
      BY SearchTypes
    <3> QED BY <2>1, <3>1 DEF Safe
  <2> QED BY <2>1, <2>2, PlacesStay
<1>3. ASSUME NEW n \in 1 .. BatchSize, NEW reports \in [1 .. n -> PlateReports],
             DetectPlates(reports)
      PROVE  Placed'
  <2>1. PICK found \in [DOMAIN predictions -> Seq(Found)] :
          predictions' = [i \in DOMAIN predictions |->
                            [predictions[i] EXCEPT !.plates = found[i]]]
    BY <1>3, PlatesFiled DEF DetectPlates
  <2>2. report' = report /\ frame' = frame
    BY <1>3 DEF DetectPlates, SearchPlates
  <2>3. ASSUME NEW i \in DOMAIN predictions
        PROVE  predictions'[i].object = predictions[i].object
    <3>1. predictions[i] \in Safe(frame)
      BY SearchTypes
    <3> QED BY <2>1, <3>1 DEF Safe
  <2> QED BY <2>1, <2>2, <2>3, PlacesStay
<1>4. CASE NotAVehicle \/ AddToBatch \/ WriteBack \/ UNCHANGED vars
  BY <1>4, PlacesStay DEF NotAVehicle, AddToBatch, WriteBack, vars
<1>5. CASE NextFrame
  BY <1>5 DEF NextFrame, Placed, PlacedBy, Objects
<1> QED BY <1>1, <1>2, <1>3, <1>4, <1>5 DEF Next

LEMMA PlacedIsBack == SearchInv /\ Placed => BackInPlace
<1> SUFFICES ASSUME SearchInv, Placed PROVE BackInPlace
  OBVIOUS
<1>1. report \in Report /\ Sized(frame) /\ Canvas \in Extent
  <2>1. <<>> \in Report
    BY DEF Report
  <2> QED BY <2>1, PlateDetectionAssumption DEF SearchInv, TypeOK, Sized, Extent
<1>2. ASSUME NEW k \in DOMAIN predictions
      PROVE  IsBack(Corners(report[predictions[k].object.index]), predictions[k].object.box,
                    Canvas, frame)
  <2> DEFINE i == predictions[k].object.index
  <2>1. i \in DOMAIN report /\ predictions[k].object.box = ScaleCoords(Canvas, Corners(report[i]), frame)
    BY DEF Placed, PlacedBy, Objects
  <2> HIDE DEF i
  <2>2. Corners(report[i]) \in [x : Int, y : Int, width : Int, height : Int]
    BY <1>1, <2>1, CornersTypes
  <2>3. IsBack(Corners(report[i]), ScaleCoords(Canvas, Corners(report[i]), frame), Canvas, frame)
    BY <1>1, <2>2, BackOnImage
  <2> QED BY <2>1, <2>3 DEF i
<1> QED BY <1>2, Zenon DEF BackInPlace, IsBack, NearBy

(***************************************************************************)
(* What scaleCoords gives back is where the model saw it, but for a pixel  *)
(* and a half of the canvas and half a pixel of the frame: for any frame,  *)
(* canvas and report, shrunk or enlarged.                                  *)
(***************************************************************************)
THEOREM PredictionsAreInPlace == Spec => []BackInPlace
<1>1. Init => Placed
  BY DEF Init, Placed, PlacedBy, Objects
<1> QED BY <1>1, PlacesHold, PlacedIsBack, SearchHolds, PTL DEF Spec
===============================================================================
