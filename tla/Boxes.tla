-------------------------------- MODULE Boxes --------------------------------
(***************************************************************************)
(* pkg/common/yolo.go: from an image to its boxes.  Letterbox scales the   *)
(* image into the input plane of the model and centres it,                 *)
(* processYoloOutput maps the predictions back and nms removes doubles;    *)
(* postprocess of analysis_py/server.py is the other way back.             *)
(*                                                                         *)
(* Coordinates on the image are kept as numerators: with the scale sn/sd   *)
(* (input pixels per image pixel) the number x stands for x/sn image       *)
(* pixels, which is exact for every coordinate of the input plane.         *)
(***************************************************************************)
EXTENDS Integers, Sequences, FiniteSets, SequencesExt

CONSTANTS
  InputW, InputH,  \* the input plane of the model
  Sizes,           \* widths and heights of images
  Answers(_, _),   \* what the model may answer for an image of some size: sequences of
                   \* predictions [class, score, cx, cy, w, h]
  Confidence,      \* Onnx.Confidence
  NmsNum, NmsDen   \* Onnx.NmsThreshold = NmsNum / NmsDen

\* The class is that of the highest score, of those in OutputShape.
Prediction ==
  [class : Nat \ {0}, score : Int, cx : Int, cy : Int, w : Nat, h : Nat]

\* Assumed where the module is instantiated.
BoxesAssumption ==
  /\ {InputW, InputH, NmsDen} \union Sizes \subseteq Nat \ {0}
  /\ NmsNum \in Nat /\ NmsNum <= NmsDen
  /\ \A a, b \in Sizes : Answers(a, b) \subseteq Seq(Prediction)

\* The labels the program knows, for class 1, 2, ...
yoloClasses == <<"person", "car">>

VARIABLES
  w, h,      \* the image
  slip,      \* width and height lost to float64 rounding (see NewSize)
  pc,        \* "image", "filled", "run", "done" or "panic"
  placed,    \* where Letterbox put the image: [x, y, w, h]
  output,    \* the predictions
  boxes      \* the result

vars == <<w, h, slip, pc, placed, output, boxes>>

-----------------------------------------------------------------------------
(* Letterbox.                                                               *)

\* math.Min(InputW / w, InputH / h), as a fraction.
Scale == IF InputW * h <= InputH * w THEN <<InputW, w>> ELSE <<InputH, h>>

\* int(float64(size) * scale).  Where the product is a whole number, the float64 may
\* be just below it and the truncation loses one: slip says whether it does.
NewSize(size, lost) == (size * Scale[1]) \div Scale[2] - lost

MayLose(size) == IF (size * Scale[1]) % Scale[2] = 0 THEN {0, 1} ELSE {0}

PadX == (InputW - NewSize(w, slip[1])) \div 2
PadY == (InputH - NewSize(h, slip[2])) \div 2

Letterbox == [x |-> PadX, y |-> PadY, w |-> NewSize(w, slip[1]), h |-> NewSize(h, slip[2])]

-----------------------------------------------------------------------------
(* processYoloOutput.                                                       *)

Least(a, b) == IF a < b THEN a ELSE b
Most(a, b) == IF a > b THEN a ELSE b

\* (x - pad) / scale, for the padding of an image of this size.
Unpad(x, pad, size, total) == (x - pad) * Scale[2]

\* Mutation: the box is not clipped to the image.
ToBoxUnclipped(p) ==
  [class |-> p.class, score |-> p.score,
   x1 |-> Unpad(p.cx - p.w \div 2, PadX, w, InputW),
   y1 |-> Unpad(p.cy - p.h \div 2, PadY, h, InputH),
   x2 |-> Unpad(p.cx + p.w \div 2, PadX, w, InputW),
   y2 |-> Unpad(p.cy + p.h \div 2, PadY, h, InputH)]

\* Half widths are whole numbers here.
ToBox(p) ==
  [class |-> p.class, score |-> p.score,
   x1 |-> Most(0, Unpad(p.cx - p.w \div 2, PadX, w, InputW)),
   y1 |-> Most(0, Unpad(p.cy - p.h \div 2, PadY, h, InputH)),
   x2 |-> Least(w * Scale[1], Unpad(p.cx + p.w \div 2, PadX, w, InputW)),
   y2 |-> Least(h * Scale[1], Unpad(p.cy + p.h \div 2, PadY, h, InputH))]

\* BoundingBox.Rect: whole image pixels (int truncates towards zero), in order.
Trunc(x) == IF x >= 0 THEN x \div Scale[1] ELSE -((-x) \div Scale[1])
Rect(b) ==
  [x1 |-> Least(Trunc(b.x1), Trunc(b.x2)), y1 |-> Least(Trunc(b.y1), Trunc(b.y2)),
   x2 |-> Most(Trunc(b.x1), Trunc(b.x2)), y2 |-> Most(Trunc(b.y1), Trunc(b.y2))]

Area(r) == IF r.x1 < r.x2 /\ r.y1 < r.y2 THEN (r.x2 - r.x1) * (r.y2 - r.y1) ELSE 0
Intersect(r, s) ==
  [x1 |-> Most(r.x1, s.x1), y1 |-> Most(r.y1, s.y1),
   x2 |-> Least(r.x2, s.x2), y2 |-> Least(r.y2, s.y2)]

\* iou(a, b) > threshold; an empty intersection counts as zero.
Overlap(a, b) ==
  LET inter == Area(Intersect(Rect(a), Rect(b)))
      union == Area(Rect(a)) + Area(Rect(b)) - inter
  IN  inter > 0 /\ inter * NmsDen > NmsNum * union

\* Mutation: a box is compared with the box kept last only.
nmsLast(sorted) ==
  LET kept[n \in 0 .. Len(sorted)] ==
        IF n = 0 THEN << >>
        ELSE LET former == kept[n - 1]
             IN  IF former # << >> /\ Overlap(sorted[n], Last(former))
                 THEN former ELSE Append(former, sorted[n])
  IN  kept[Len(sorted)]

\* From the most confident box on, a box is kept unless it overlaps a kept one.
nms(sorted) ==
  LET kept[n \in 0 .. Len(sorted)] ==
        IF n = 0 THEN << >>
        ELSE LET former == kept[n - 1]
             IN  IF \E i \in DOMAIN former : Overlap(sorted[n], former[i])
                 THEN former ELSE Append(former, sorted[n])
  IN  kept[Len(sorted)]

Candidates == {i \in DOMAIN output : output[i].score >= Confidence}

\* sort.Slice leaves equal scores in any order.
Sorted ==
  {f \in Bijection(1 .. Cardinality(Candidates), Candidates) :
     \A m, n \in DOMAIN f : m < n => output[f[m]].score >= output[f[n]].score}

-----------------------------------------------------------------------------
(* DetectImageWithYoloFromImage with the ONNX engine.                       *)

TypeOK ==
  /\ {w, h} \subseteq Sizes /\ slip \in {0, 1} \X {0, 1}
  /\ pc \in {"image", "filled", "run", "done", "panic"}
  /\ output \in Seq(Prediction)
  /\ pc = "done" => \A i \in DOMAIN boxes : boxes[i].class \in DOMAIN yoloClasses

Init ==
  /\ w \in Sizes /\ h \in Sizes
  /\ slip \in MayLose(w) \X MayLose(h)
  /\ pc = "image" /\ placed = [x |-> 0, y |-> 0, w |-> 0, h |-> 0]
  /\ output = << >> /\ boxes = << >>

fillTensorFromImage ==
  /\ pc = "image" /\ pc' = "filled" /\ placed' = Letterbox
  /\ UNCHANGED <<w, h, slip, output, boxes>>

Run ==
  /\ pc = "filled" /\ pc' = "run"
  /\ output' \in Answers(w, h)
  /\ UNCHANGED <<w, h, slip, placed, boxes>>

\* yoloClasses is indexed with the class of every confident prediction.
processYoloOutput ==
  /\ pc = "run"
  /\ IF \A i \in Candidates : output[i].class \in DOMAIN yoloClasses
     THEN /\ pc' = "done"
          /\ \E f \in Sorted : boxes' = nms([n \in DOMAIN f |-> ToBox(output[f[n]])])
     ELSE pc' = "panic" /\ UNCHANGED boxes
  /\ UNCHANGED <<w, h, slip, placed, output>>

Next == fillTensorFromImage \/ Run \/ processYoloOutput

Spec == Init /\ [][Next]_vars

-----------------------------------------------------------------------------
(* postprocess of server.py: the image is placed at dw // 2, the way back   *)
(* subtracts dw / 2.0.  Doubled, to stay with whole numbers.                *)

PyLeft == (InputW - NewSize(w, slip[1])) \div 2
PyUnpadTwice(x) == (2 * x - (InputW - NewSize(w, slip[1]))) * Scale[2]

-----------------------------------------------------------------------------
(* Properties.                                                              *)

\* The two computations of the padding, in Letterbox and in processYoloOutput, agree:
\* a box around the whole placed image maps to the image, exactly on the left and at
\* the top, and less than one input pixel (and the float64 slip) short of its end.  The
\* Python service is at most half an input pixel off.
PictureMapsBack ==
  pc # "image" =>
    /\ Unpad(placed.x, PadX, w, InputW) = 0 /\ Unpad(placed.y, PadY, h, InputH) = 0
    /\ LET right == w * Scale[1] - Unpad(placed.x + placed.w, PadX, w, InputW)
           bottom == h * Scale[1] - Unpad(placed.y + placed.h, PadY, h, InputH)
       IN  /\ 0 <= right /\ right < Scale[2] * (1 + slip[1])
           /\ 0 <= bottom /\ bottom < Scale[2] * (1 + slip[2])
    /\ placed.x >= 0 /\ placed.x + placed.w <= InputW
    /\ placed.y >= 0 /\ placed.y + placed.h <= InputH
    /\ -Scale[2] <= PyUnpadTwice(PyLeft) /\ PyUnpadTwice(PyLeft) <= 0

\* No box reaches over an edge of the image at its far side, or begins before it.
BoxesInImage ==
  \A i \in DOMAIN boxes :
    /\ boxes[i].x1 >= 0 /\ boxes[i].x2 <= w * Scale[1]
    /\ boxes[i].y1 >= 0 /\ boxes[i].y2 <= h * Scale[1]

\* What a non-maximum suppression must do, said without an order: no two of the boxes
\* returned overlap, and a confident candidate that is missing overlaps one that is at
\* least as confident.
SuppressionSound ==
  pc = "done" =>
    /\ \A i, j \in DOMAIN boxes : i # j => ~Overlap(boxes[i], boxes[j])
    /\ \A c \in Candidates : \E i \in DOMAIN boxes :
         \/ boxes[i] = ToBox(output[c])
         \/ boxes[i].score >= output[c].score /\ Overlap(ToBox(output[c]), boxes[i])
=============================================================================
