------------------------------- MODULE Regions -------------------------------
(***************************************************************************)
(* cmd/logic/utils/screenshot.go and the part of DetectionWSHandler that   *)
(* decides on a frame: which boxes lie in which region, in both modes      *)
(* (infer and filter, or crop and infer), and which signals are sent.      *)
(*                                                                         *)
(* Coordinates are whole numbers of subpixels, Unit of them to a pixel:    *)
(* points[i] * w of the code.  Of the detector only the network is         *)
(* external: which objects it sees on an image that shows a part of them.  *)
(* The objects are those the suppression of Boxes tells apart.             *)
(***************************************************************************)
EXTENDS Integers, Sequences, FiniteSets, SequencesExt

CONSTANTS
  Unit,        \* subpixels of a pixel
  W, H,        \* the image, in pixels
  RegionLists, \* regions a viewer may have: sequences of [points, labels, signals]
  Scenes(_),   \* what a viewer with some regions may see: sets of objects
  Confidence,  \* Onnx.Confidence
  CONF_THRESH  \* that of the TensorRT service, which does not read the request's

\* A part of the frame, not empty.
Object ==
  {o \in [label : STRING, score : Int, x1 : Nat, y1 : Nat, x2 : Nat, y2 : Nat] :
     o.x1 < o.x2 /\ o.x2 <= W * Unit /\ o.y1 < o.y2 /\ o.y2 <= H * Unit}

\* Assumed where the module is instantiated.
RegionsAssumption ==
  /\ {Unit, W, H} \subseteq Nat \ {0} /\ {CONF_THRESH, Confidence} \subseteq Int
  /\ \A list \in RegionLists :
       /\ list \in Seq(ToSet(list))
       /\ \A i \in DOMAIN list : list[i].points \in Seq(Int \X Int)
       /\ \A scene \in Scenes(list) : scene \subseteq Object

VARIABLES
  rois,       \* the regions of the viewer
  objects,    \* what is on the frame
  mode,       \* Onnx.ROIDetectMode as it was read
  engine,     \* Onnx.InferEngine
  failed,     \* the regions whose inference failed
  boxes,      \* what the inference, or the inferences, brought
  valid,      \* validBox
  signals,    \* the signals sent to the PLC
  pc          \* "infer", "filter" or "done"

vars == <<rois, objects, mode, engine, failed, boxes, valid, signals, pc>>

\* A box in boxes: the object it was found for, the index of the region whose crop it was
\* found in (0: the whole frame), and where it lies.  boxes may hold an object twice.
Entry(o, i, box) == [of |-> o, in |-> i, box |-> box]

-----------------------------------------------------------------------------
(* Points and polygons.                                                     *)

Least(S) == CHOOSE x \in S : \A y \in S : x <= y
Most(S) == CHOOSE x \in S : \A y \in S : x >= y

\* Mutation: the edge from the last point to the first is forgotten.
EdgesOpen(poly) == [i \in 2 .. Len(poly) |-> <<poly[i], poly[i - 1]>>]

\* The edge that ends in each point, a function of the index as the loop runs over
\* them: an edge that is passed twice counts twice.
Edges(poly) == [i \in DOMAIN poly |-> <<poly[i], poly[IF i = 1 THEN Len(poly) ELSE i - 1]>>]

\* A ray from (x, y) to the right crosses the edge from p to q:
\* x < (xj - xi) * (y - yi) / (yj - yi) + xi, without the division.
Crosses(x, y, p, q) ==
  /\ (p[2] > y) # (q[2] > y)
  /\ IF q[2] > p[2] THEN (x - p[1]) * (q[2] - p[2]) < (q[1] - p[1]) * (y - p[2])
                    ELSE (x - p[1]) * (q[2] - p[2]) > (q[1] - p[1]) * (y - p[2])

pointInPolygon(x, y, poly) ==
  LET edge == Edges(poly)
  IN  Cardinality({i \in DOMAIN edge : Crosses(x, y, edge[i][1], edge[i][2])}) % 2 = 1

\* The centre of the box; doubled, as half of x1 + x2 need not be whole.
IsBoxInROI(box, points) ==
  pointInPolygon(box.x1 + box.x2, box.y1 + box.y2,
                 [i \in DOMAIN points |-> <<2 * points[i][1], 2 * points[i][2]>>])

\* int() of a coordinate: whole pixels, towards zero.
Pixel(x) == IF x >= 0 THEN x \div Unit ELSE -((-x) \div Unit)

\* Too few points: the whole image.  x2 and y2 are not part of the rectangle.
PolygonToMinRect(points) ==
  IF Len(points) < 2 THEN [x1 |-> 0, y1 |-> 0, x2 |-> W, y2 |-> H]
  ELSE LET X == {points[i][1] : i \in DOMAIN points}
           Y == {points[i][2] : i \in DOMAIN points}
       IN  [x1 |-> Most({0, Pixel(Least(X \union {W * Unit}))}),
            y1 |-> Most({0, Pixel(Least(Y \union {H * Unit}))}),
            x2 |-> Least({W, Pixel(Most(X \union {0}))}),
            y2 |-> Least({H, Pixel(Most(Y \union {0}))})]

\* CropImage: nothing when the rectangle is empty.
Cropped(r) == r.x1 < r.x2 /\ r.y1 < r.y2

Move(box, dx, dy) ==
  [label |-> box.label, score |-> box.score,
   x1 |-> box.x1 + dx, y1 |-> box.y1 + dy, x2 |-> box.x2 + dx, y2 |-> box.y2 + dy]

MapBoxToOriginal(box, r) == Move(box, r.x1 * Unit, r.y1 * Unit)

ContainsLabel(box, labels) == box.label \in labels

-----------------------------------------------------------------------------
(* DetectImageWithYoloFromImage, on the part of the frame in a rectangle.   *)

Whole == [x1 |-> 0, y1 |-> 0, x2 |-> W, y2 |-> H]

Overlaps(o, r) ==
  /\ o.x1 < r.x2 * Unit /\ r.x1 * Unit < o.x2
  /\ o.y1 < r.y2 * Unit /\ r.y1 * Unit < o.y2
Within(o, r) ==
  /\ r.x1 * Unit <= o.x1 /\ o.x2 <= r.x2 * Unit
  /\ r.y1 * Unit <= o.y1 /\ o.y2 <= r.y2 * Unit

\* The edge of the rectangle goes through the object.
Straddles(o, r) == Overlaps(o, r) /\ ~Within(o, r)

Threshold(e) == IF e = "onnx" THEN Confidence ELSE CONF_THRESH
Visible(e) == {o \in objects : o.score >= Threshold(e)}

\* The network finds what it is shown.  Where the edge of the image goes through an
\* object it may miss that one, or take it and suppress others it overlaps.
Sights(r, e) ==
  LET shown == {o \in Visible(e) : Overlaps(o, r)}
  IN  IF \E o \in shown : Straddles(o, r) THEN SUBSET shown ELSE {shown}

\* processYoloOutput clips a box to the image it was found on; the service does not.
Clip(box, width, height) ==
  [box EXCEPT !.x1 = Most({0, box.x1}), !.x2 = Least({width * Unit, box.x2}),
              !.y1 = Most({0, box.y1}), !.y2 = Least({height * Unit, box.y2})]

\* The box of an object, in the coordinates of the part.
Detected(o, r, e) ==
  LET box == Move(o, -r.x1 * Unit, -r.y1 * Unit)
  IN  IF e = "onnx" THEN Clip(box, r.x2 - r.x1, r.y2 - r.y1) ELSE box

-----------------------------------------------------------------------------
(* A frame.  Onnx.ROIDetectMode, read for each frame, chooses InferCrops or  *)
(* the two others.                                                          *)

TypeOK ==
  /\ rois \in RegionLists /\ objects \in Scenes(rois)
  /\ mode \in {"filter", "crop"} /\ engine \in {"onnx", "tensorrt"}
  /\ failed \subseteq DOMAIN rois /\ valid \subseteq boxes
  /\ \A e \in boxes : e.of \in objects /\ e.in \in DOMAIN rois \union {0}
  /\ signals \subseteq UNION {rois[i].signals : i \in DOMAIN rois}
  /\ pc \in {"infer", "filter", "done"}

Init ==
  /\ rois \in RegionLists /\ objects \in Scenes(rois) /\ mode = "filter" /\ engine = "onnx"
  /\ failed = {} /\ boxes = {} /\ valid = {} /\ signals = {} /\ pc = "infer"

Of(box, roi) == ContainsLabel(box, roi.labels) /\ IsBoxInROI(box, roi.points)
Crop(i) == PolygonToMinRect(rois[i].points)

\* What the inference of a region appends: the boxes of the objects it sees, moved to
\* where they are on the frame, so far as they are in the region.
CropBoxes(i, sight, e) ==
  IF ~Cropped(Crop(i)) THEN {}
  ELSE {b \in {Entry(o, i, MapBoxToOriginal(Detected(o, Crop(i), e), Crop(i))) : o \in sight} :
          Of(b.box, rois[i])}

\* Mutation: the first failed region ends the loop over the regions.
InferCropsGivesUp ==
  /\ pc = "infer" /\ rois # << >>
  /\ pc' = "filter" /\ mode' = "crop" /\ engine' \in {"onnx", "tensorrt"}
  /\ failed' \in SUBSET DOMAIN rois
  /\ \E sight \in [DOMAIN rois -> SUBSET objects] :
       /\ \A i \in DOMAIN rois : sight[i] \in Sights(Crop(i), engine')
       /\ boxes' = UNION {CropBoxes(i, sight[i], engine') :
                            i \in {i \in DOMAIN rois : \A j \in 1 .. i : j \notin failed'}}
  /\ UNCHANGED <<rois, objects, valid, signals>>

\* One inference for each region, and an object in two of them is appended twice.  A
\* failed inference costs the objects of its region and nothing else.
InferCrops ==
  /\ pc = "infer" /\ rois # << >>
  /\ pc' = "filter" /\ mode' = "crop" /\ engine' \in {"onnx", "tensorrt"}
  /\ failed' \in SUBSET DOMAIN rois
  /\ \E sight \in [DOMAIN rois -> SUBSET objects] :
       /\ \A i \in DOMAIN rois : sight[i] \in Sights(Crop(i), engine')
       /\ boxes' = UNION {CropBoxes(i, sight[i], engine') : i \in DOMAIN rois \ failed'}
  /\ UNCHANGED <<rois, objects, valid, signals>>

InferFrame ==
  /\ pc = "infer"
  /\ pc' = "filter" /\ mode' = "filter" /\ engine' \in {"onnx", "tensorrt"}
  /\ \E sight \in Sights(Whole, engine') :
       boxes' = {Entry(o, 0, Detected(o, Whole, engine')) : o \in sight}
  /\ UNCHANGED <<rois, objects, failed, valid, signals>>

\* The inference of the frame failed: the frame ends here.
InferFails ==
  /\ pc = "infer"
  /\ pc' = "done" /\ mode' = "filter" /\ engine' \in {"onnx", "tensorrt"}
  /\ failed' = DOMAIN rois
  /\ UNCHANGED <<rois, objects, boxes, valid, signals>>

\* The first region in the list that takes the box; 0 if there is none.
HitROI(box) == SelectInSeq(rois, LAMBDA roi : Of(box, roi))

\* Without regions every person counts, and sends nothing.
Filtered ==
  IF rois = << >> THEN {b \in boxes : ContainsLabel(b.box, {"person"})}
  ELSE {b \in boxes : HitROI(b.box) # 0}

\* The signals are those of every region that was hit, confident box or not, but
\* without a confident box the frame ends here.
Filter ==
  /\ pc = "filter" /\ pc' = "done"
  /\ valid' = {b \in Filtered : b.box.score >= Confidence}
  /\ signals' = IF valid' = {} \/ rois = << >> THEN {}
                ELSE UNION {rois[HitROI(b.box)].signals : b \in Filtered}
  /\ UNCHANGED <<rois, objects, mode, engine, failed, boxes>>

Next == InferCrops \/ InferFrame \/ InferFails \/ Filter

Spec == Init /\ [][Next]_vars

-----------------------------------------------------------------------------
(* Properties.                                                              *)

Side(p, q, x, y) == (q[1] - p[1]) * (y - p[2]) - (q[2] - p[2]) * (x - p[1])
Grid == {<<x, y>> : x \in -1 .. W * Unit + 1, y \in -1 .. H * Unit + 1}

\* Reference for a triangle: strictly on the same side of all three edges is inside,
\* strictly on different sides is outside (an edge itself may be either).
TrianglesRight ==
  \A i \in DOMAIN rois : LET t == rois[i].points IN
    Len(t) = 3 => \A g \in Grid :
      LET s == {Side(t[1], t[2], g[1], g[2]), Side(t[2], t[3], g[1], g[2]),
                Side(t[3], t[1], g[1], g[2])}
          flat == Side(t[1], t[2], t[3][1], t[3][2]) = 0
      IN  /\ ~flat /\ ((\A d \in s : d > 0) \/ \A d \in s : d < 0) => pointInPolygon(g[1], g[2], t)
          /\ ~flat /\ (\E d \in s : d > 0) /\ (\E d \in s : d < 0) => ~pointInPolygon(g[1], g[2], t)

\* Two regions that share an edge, cut out of any quadrilateral along a diagonal, also
\* a concave or crossed one: every point of it is in exactly one of them, so that
\* nobody is counted twice or missed on the line between them.
NeighboursShareNothing ==
  \A i \in DOMAIN rois : LET q == rois[i].points IN
    Len(q) = 4 => \A g \in Grid :
      pointInPolygon(g[1], g[2], q) =
        (pointInPolygon(g[1], g[2], <<q[1], q[2], q[3]>>)
           # pointInPolygon(g[1], g[2], <<q[1], q[3], q[4]>>))

\* int() cut the object's centre off the crop of a region it lies in.
CutOff(o, i) ==
  /\ IsBoxInROI(o, rois[i].points)
  /\ o.x1 + o.x2 >= 2 * Crop(i).x2 * Unit \/ o.y1 + o.y2 >= 2 * Crop(i).y2 * Unit

\* The crop of the region shows every object whole or not at all.
Clean(i) == \A o \in Visible(engine) : ~Straddles(o, Crop(i)) /\ ~CutOff(o, i)

Inferred == DOMAIN rois \ failed

\* The objects on the frame that belong to a region of S, the entries of those of the
\* configured confidence, and the signals of all.
Due(S) == {o \in Visible(engine) : \E i \in S : Of(o, rois[i])}
Expected(i, S) == {Entry(o, i, o) : o \in {o \in Due(S) : o.score >= Confidence}}
ExpectedSignals ==
  IF valid = {} THEN {} ELSE UNION {rois[HitROI(o)].signals : o \in Due(Inferred)}

Counted(i) == {b \in valid : b.in = i}

\* The two modes find the same objects and send the same signals: those in a region
\* whose inference succeeded.  The infer-and-filter mode counts each of them once, the
\* other one once for every such region; a region that failed costs no other one's.
\* The exceptions are regions whose rectangle has its edge in an object: there the
\* object may be missed, suppress others or, clipped to the crop, have its centre
\* elsewhere; and objects centred in the last, partly covered column or row of pixels.
ModesAgree ==
  pc = "done" /\ rois # << >> =>
    /\ mode = "filter" => valid = Expected(0, Inferred)
    /\ mode = "crop" =>
         \A i \in DOMAIN rois :
           /\ i \in failed => Counted(i) = {}
           /\ i \in Inferred /\ Clean(i) => Counted(i) = Expected(i, {i})
    /\ mode = "filter" \/ (\A i \in Inferred : Clean(i)) => signals = ExpectedSignals

\* With an engine that reports only boxes of the configured confidence (ONNX), a
\* signal always comes from a region in which such an object was seen.
SignalsFromConfident ==
  Threshold(engine) >= Confidence =>
    \A s \in signals : \E b \in valid, i \in DOMAIN rois :
      s \in rois[i].signals /\ Of(b.box, rois[i])

\* The enclosing rectangle loses points of a polygon only in the last, partly covered
\* column and row of pixels, which int() cuts off.
RectEncloses ==
  \A i \in DOMAIN rois : LET r == PolygonToMinRect(rois[i].points) IN
    \A x \in 0 .. W * Unit - 1, y \in 0 .. H * Unit - 1 :
      pointInPolygon(x, y, rois[i].points)
        => /\ r.x1 * Unit <= x /\ x < (r.x2 + 1) * Unit
           /\ r.y1 * Unit <= y /\ y < (r.y2 + 1) * Unit
=============================================================================
