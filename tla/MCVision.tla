------------------------------ MODULE MCVision ------------------------------
(***************************************************************************)
(* One instance for the way from an image to its boxes (Boxes) and from    *)
(* the boxes of a frame to its signals (Regions).  A behaviour is one      *)
(* image or one frame, which is chosen in the initial state.               *)
(***************************************************************************)
EXTENDS Integers, Sequences

CONSTANTS
  InputW, InputH, Sizes, Answers(_, _), NmsNum, NmsDen,  \* Boxes
  Unit, W, H, RegionLists, Scenes(_), CONF_THRESH,       \* Regions
  Confidence                                             \* both

VARIABLES part,
  w, h, slip, step, placed, output, found,                          \* Boxes
  rois, objects, mode, engine, failed, boxes, valid, signals, pc    \* Regions

image == <<w, h, slip, step, placed, output, found>>
frame == <<rois, objects, mode, engine, failed, boxes, valid, signals, pc>>
allVars == <<part, image, frame>>

Image == INSTANCE Boxes WITH pc <- step, boxes <- found
Frame == INSTANCE Regions

ASSUME VisionAssumption == Image!BoxesAssumption /\ Frame!RegionsAssumption

Blank == [x |-> 0, y |-> 0, w |-> 0, h |-> 0]
NoImage ==
  /\ w = 1 /\ h = 1 /\ slip = <<0, 0>> /\ step = "image" /\ placed = Blank
  /\ output = << >> /\ found = << >>
NoFrame ==
  /\ rois = << >> /\ objects = {} /\ mode = "filter" /\ engine = "onnx" /\ failed = {}
  /\ boxes = {} /\ valid = {} /\ signals = {} /\ pc = "infer"

VisionInit ==
  \/ part = "image" /\ Image!Init /\ NoFrame
  \/ part = "frame" /\ Frame!Init /\ NoImage

In(p) == part = p /\ UNCHANGED part

VisionNext ==
  \/ In("image") /\ Image!Next /\ UNCHANGED frame
  \/ In("frame") /\ Frame!Next /\ UNCHANGED image

VisionSpec == VisionInit /\ [][VisionNext]_allVars

-----------------------------------------------------------------------------
(* The values of the constants.                                             *)

Predicted(class, score, cx, cy, width, height) ==
  [class |-> class, score |-> score, cx |-> cx, cy |-> cy, w |-> width, h |-> height]

\* Boxes at the edges of the plane.
Edge == {Predicted(1, 2, x, 3, 4, 2) : x \in {0, 2, 6}}

\* Predictions that overlap, of three scores; and a model with a class more than the
\* program has labels.
Overlapping ==
  {Predicted(1, s, x, 3, a, 4) : s \in 1 .. 3, x \in {1, 3, 4}, a \in {2, 4}}
Classed == {Predicted(c, s, 3, 3, 2, 2) : c \in 1 .. 3, s \in {1, 2}}

\* Up to n of the predictions; the program sorts them, so one order stands for all.
Some(predictions, n) ==
  UNION {{s \in [1 .. k -> predictions] : \A i \in 1 .. k - 1 : s[i].score >= s[i + 1].score} :
           k \in 0 .. n}

\* At most one prediction on every image of up to 21 pixels a side, several on some.
TestSizes == 1 .. 21
One == Some(Edge, 1)
Several == Some(Overlapping, 3) \union Some(Classed, 2)
TestAnswers(width, height) == IF {width, height} \subseteq {6, 9} THEN Several ELSE One

Region(points, labels, sigs) == [points |-> points, labels |-> labels, signals |-> sigs]

\* Points between the pixels and outside of the image included.
P == {<<-1, 0>>, <<0, 0>>, <<1, 5>>, <<2, 2>>, <<3, 1>>, <<4, 4>>, <<6, 2>>, <<5, 7>>, <<0, 6>>}

\* Every triangle and quadrilateral over P, crossed and degenerate ones too.
Shapes ==
  {<<Region(t, {}, {})>> : t \in {<<a, b, c>> : a, b, c \in P}}
  \union {<<Region(q, {}, {})>> : q \in {<<a, b, c, d>> : a, b, c, d \in P}}

\* Overlapping regions.
Zones ==
  {<< <<0, 0>>, <<8, 0>>, <<8, 8>>, <<0, 8>> >>, << <<2, 2>>, <<7, 2>>, <<7, 7>>, <<2, 7>> >>,
   << <<4, 0>>, <<9, 0>>, <<9, 8>> >>}
Lists ==
  {<< >>}
  \union {<<Region(z, l, {"forward_stop"})>> : z \in Zones, l \in {{"person"}, {"car"}}}
  \union {<<Region(z, {"person"}, {"forward_slow"}), Region(y, l, {"forward_stop"})>> :
            z, y \in Zones, l \in {{"person"}, {"person", "car"}}}
\* Wholly in the two upper rectangles, across the edge of the triangle's, across that of
\* the second, and wholly in the triangle's.
Places == {<<2, 3, 4, 6>>, <<3, 3, 5, 6>>, <<5, 2, 7, 5>>, <<6, 1, 8, 4>>}
Seen ==
  {[label |-> l, score |-> s, x1 |-> p[1], y1 |-> p[2], x2 |-> p[3], y2 |-> p[4]] :
     l \in {"person", "car"}, s \in {1, 2}, p \in Places}

\* Shapes are looked at without anything on the frame, the other regions with up to two
\* objects; CONF_THRESH is below Confidence, so that TensorRT reports weak boxes.
TestLists == Shapes \union Lists
UpToTwo == {{a, b} : a, b \in Seen} \union {{}}
TestScenes(list) == IF list \in Lists THEN UpToTwo ELSE {{}}

-----------------------------------------------------------------------------
\* See Boxes: the two computations of the padding agree and no box leaves its image.
PictureMapsBack == part = "image" => Image!PictureMapsBack /\ Image!BoxesInImage

\* See Boxes: the suppression keeps the best box of every cluster and nothing else,
\* and every box that is kept has a label.
SuppressionSound == part = "image" => Image!TypeOK /\ Image!SuppressionSound

\* See Regions: the reference for triangles, two neighbours that share a diagonal, and
\* the rectangle around a polygon.  The regions stay as they are in the initial state.
PolygonsRight ==
  part = "frame" /\ pc = "infer" =>
    Frame!TrianglesRight /\ Frame!NeighboursShareNothing /\ Frame!RectEncloses

\* See Regions: both detection modes find the same objects and send the same signals,
\* but for regions whose crop cuts through an object, and with ONNX every signal comes
\* from a region with a confident object.
ModesAgree ==
  part = "frame" => Frame!TypeOK /\ Frame!ModesAgree /\ Frame!SignalsFromConfident
=============================================================================
