---------------------------- MODULE VisionProofs ----------------------------
(***************************************************************************)
(* Proofs about Regions and Boxes, through the instance MCVision: for      *)
(* every list of regions and every frame, every image, answer of the       *)
(* model and order of equal scores.                                        *)
(*                                                                         *)
(* A point is in a polygon if the number of edges its ray crosses is odd;  *)
(* all geometry is an argument about that parity (AroundIsEven, Weights).  *)
(* Where the code computes with lists of any length, the proofs are by     *)
(* NatSetInduction over the length.                                        *)
(***************************************************************************)
EXTENDS MCVision, FiniteSets, FiniteSetTheorems, WellFoundedInduction, TLAPS

-----------------------------------------------------------------------------
(* Arithmetic and parity.                                                   *)

\* The remainder of a division by a positive number lies below it.
LEMMA DivBounds ==
  ASSUME NEW a \in Int, NEW b \in Nat \ {0}
  PROVE  a \div b \in Int /\ b * (a \div b) <= a /\ a < b * (a \div b) + b
BY SMT

\* For three vectors around a point: the heights, weighted with the areas across from
\* them, cancel.
LEMMA Turn ==
  ASSUME NEW xa \in Int, NEW ya \in Int, NEW xb \in Int, NEW yb \in Int,
         NEW xc \in Int, NEW yc \in Int
  PROVE  yc * (xa * yb - xb * ya) + ya * (xb * yc - xc * yb) + yb * (xc * ya - xa * yc) = 0
BY SMT

\* A ray crosses an edge that goes up if the point is on its left, one that goes down if
\* it is on its right.
LEMMA CrossForm ==
  ASSUME NEW x \in Int, NEW y \in Int, NEW p \in Int \X Int, NEW q \in Int \X Int
  PROVE  Frame!Crosses(x, y, p, q) <=>
           \/ p[2] <= y /\ y < q[2] /\ Frame!Side(p, q, x, y) > 0
           \/ q[2] <= y /\ y < p[2] /\ Frame!Side(p, q, x, y) < 0
<1> DEFINE a == p[1] b == p[2] c == q[1] d == q[2]
<1>1. a \in Int /\ b \in Int /\ c \in Int /\ d \in Int
  OBVIOUS
<1>2. (x - a) * (d - b) < (c - a) * (y - b) <=> (c - a) * (y - b) - (d - b) * (x - a) > 0
  BY <1>1, SMT
<1>3. (x - a) * (d - b) > (c - a) * (y - b) <=> (c - a) * (y - b) - (d - b) * (x - a) < 0
  BY <1>1, SMT
<1> QED
  BY <1>1, <1>2, <1>3 DEF Frame!Crosses, Frame!Side

\* Induction, for a set of numbers.
LEMMA NatSetInduction ==
  ASSUME NEW T \in SUBSET Nat, 0 \in T, \A n \in T : n + 1 \in T
  PROVE  T = Nat
<1> SUFFICES ASSUME NEW n \in Nat, n \notin T
             PROVE  FALSE
  OBVIOUS
<1> DEFINE F == {1 .. m : m \in Nat \ T}
<1>1. F \subseteq FiniteSubsetsOf(Nat) /\ F # {}
  <2>1. ASSUME NEW m \in Nat
        PROVE  1 .. m \in FiniteSubsetsOf(Nat)
    BY FS_Interval DEF FiniteSubsetsOf
  <2> QED
    BY <2>1
<1>2. PICK X \in F : \A Y \in F : ~(<<Y, X>> \in StrictSubsetOrdering(Nat))
  <2> HIDE DEF F
  <2> QED
    BY <1>1, FS_StrictSubsetOrderingWellFounded, WFMin
<1>3. PICK m \in Nat \ T : X = 1 .. m
  OBVIOUS
<1>4. m # 0 /\ m - 1 \in Nat \ T
  <2>1. m - 1 \in T => (m - 1) + 1 \in T
    OBVIOUS
  <2> QED
    BY <2>1
<1>5. 1 .. m - 1 \in F
  BY <1>4
<1>6. <<1 .. m - 1, 1 .. m>> \in StrictSubsetOrdering(Nat)
  BY <1>4 DEF StrictSubsetOrdering
<1> QED
  BY <1>2, <1>3, <1>5, <1>6

\* A set of an odd number of elements.
Odd(S) == Cardinality(S) % 2 = 1

\* Nothing is an even number of things.
LEMMA EmptyIsEven == ~Odd({})
BY FS_EmptySet DEF Odd

\* The parity of a set of indices up to n + 1.
LEMMA ParityStep ==
  ASSUME NEW S, NEW n \in Nat
  PROVE  Odd(S \cap (1 .. n + 1)) <=> (Odd(S \cap (1 .. n)) <=> n + 1 \notin S)
<1> DEFINE U == S \cap (1 .. n)
<1>1. IsFiniteSet(U) /\ Cardinality(U) \in Nat
  <2>1. IsFiniteSet(1 .. n)
    BY FS_Interval
  <2>2. IsFiniteSet(U)
    BY <2>1, FS_Subset, U \subseteq 1 .. n
  <2> QED
    BY <2>2, FS_CardinalityType
<1>2. CASE n + 1 \in S
  <2>1. S \cap (1 .. n + 1) = U \union {n + 1} /\ n + 1 \notin U
    BY <1>2
  <2>2. Cardinality(U \union {n + 1}) = Cardinality(U) + 1
    <3> HIDE DEF U
    <3> QED
      BY <1>1, <2>1, FS_AddElement
  <2>3. \A c \in Nat : (c + 1) % 2 = 1 <=> ~(c % 2 = 1)
    OBVIOUS
  <2>4. Odd(S \cap (1 .. n + 1)) <=> ~Odd(U)
    <3> HIDE DEF U
    <3> QED
      BY <1>1, <2>1, <2>2, <2>3 DEF Odd
  <2> QED
    BY <1>2, <2>4
<1>3. CASE n + 1 \notin S
  <2>1. S \cap (1 .. n + 1) = U
    BY <1>3
  <2> QED
    BY <1>3, <2>1
<1> QED
  BY <1>2, <1>3

\* Around a circle one enters a set as often as one leaves it.
LEMMA AroundIsEven ==
  ASSUME NEW n \in Nat, NEW A,
         NEW D \in SUBSET (1 .. n),
         \A i \in 1 .. n : i \in D <=> ~(i \in A <=> (IF i = 1 THEN n ELSE i - 1) \in A)
  PROVE  ~Odd(D)
<1>1. CASE n = 0
  BY <1>1, EmptyIsEven, D = {}
<1>2. CASE n # 0
  <2> DEFINE T == {k \in Nat : k + 1 <= n =>
                      (Odd(D \cap (1 .. k + 1)) <=> ~(k + 1 \in A <=> n \in A))}
  <2>1. 0 \in T
    <3>1. D \cap (1 .. 0) = {}
      OBVIOUS
    <3>2. Odd(D \cap (1 .. 0 + 1)) <=> (Odd(D \cap (1 .. 0)) <=> 0 + 1 \notin D)
      BY ParityStep, 0 \in Nat
    <3>3. 1 \in D <=> ~(1 \in A <=> n \in A)
      BY <1>2
    <3>4. 0 + 1 = 1
      OBVIOUS
    <3> QED
      BY <3>1, <3>2, <3>3, <3>4, EmptyIsEven
  <2>2. ASSUME NEW k \in T
        PROVE  k + 1 \in T
    <3> SUFFICES ASSUME (k + 1) + 1 <= n
                 PROVE  Odd(D \cap (1 .. (k + 1) + 1)) <=> ~((k + 1) + 1 \in A <=> n \in A)
      OBVIOUS
    <3>1. Odd(D \cap (1 .. k + 1)) <=> ~(k + 1 \in A <=> n \in A)
      OBVIOUS
    <3>2. (k + 1) + 1 \in D <=> ~((k + 1) + 1 \in A <=> k + 1 \in A)
      <4>1. (k + 1) + 1 \in 1 .. n /\ (k + 1) + 1 # 1 /\ ((k + 1) + 1) - 1 = k + 1
        OBVIOUS
      <4> QED
        BY <4>1
    <3>3. Odd(D \cap (1 .. (k + 1) + 1))
            <=> (Odd(D \cap (1 .. k + 1)) <=> (k + 1) + 1 \notin D)
      BY ParityStep, k + 1 \in Nat
    <3> QED
      BY <3>1, <3>2, <3>3
  <2>3. T = Nat
    <3> HIDE DEF T
    <3>1. T \in SUBSET Nat
      BY DEF T
    <3> QED
      BY <2>1, <2>2, <3>1, NatSetInduction
  <2>4. n - 1 \in Nat /\ (n - 1) + 1 = n
    BY <1>2
  <2>5. n - 1 \in T
    <3> HIDE DEF T
    <3> QED
      BY <2>3, <2>4
  <2>6. D \cap (1 .. n) = D
    OBVIOUS
  <2> QED
    BY <1>2, <2>4, <2>5, <2>6
<1> QED
  BY <1>1, <1>2

-----------------------------------------------------------------------------
(* Points and edges.                                                        *)

\* The side of an edge a point is on, from the corners as the point sees them.
LEMMA SideForm ==
  ASSUME NEW x \in Int, NEW y \in Int, NEW p \in Int \X Int, NEW q \in Int \X Int
  PROVE  Frame!Side(p, q, x, y) =
           (p[1] - x) * (q[2] - y) - (q[1] - x) * (p[2] - y)
<1> DEFINE a == p[1] b == p[2] c == q[1] d == q[2]
<1>1. a \in Int /\ b \in Int /\ c \in Int /\ d \in Int
  OBVIOUS
<1>2. (c - a) * (y - b) - (d - b) * (x - a) = (a - x) * (d - y) - (c - x) * (b - y)
  BY <1>1, SMT
<1> QED
  BY <1>2 DEF Frame!Side

\* The corner before corner i of n.
Previous(i, n) == IF i = 1 THEN n ELSE i - 1

\* The edges the ray from (x, y) crosses, by the corner they end in.
Cut(x, y, poly) ==
  {i \in 1 .. Len(poly) : Frame!Crosses(x, y, poly[i], poly[Previous(i, Len(poly))])}

\* Any list of points.
Polygon == Seq(Int \X Int)

\* The corners of a polygon.
LEMMA PolygonTyped ==
  ASSUME NEW poly \in Polygon
  PROVE  /\ Len(poly) \in Nat /\ DOMAIN poly = 1 .. Len(poly)
         /\ \A i \in 1 .. Len(poly) :
              /\ Previous(i, Len(poly)) \in 1 .. Len(poly)
              /\ poly[i] \in Int \X Int /\ poly[i][1] \in Int /\ poly[i][2] \in Int
BY DEF Polygon, Previous

\* Two names of one operator.
LEMMA SameCardinality ==
  ASSUME NEW S
  PROVE  Frame!Cardinality(S) = Cardinality(S)
BY DEF Frame!Cardinality, Cardinality

\* pointInPolygon counts the edges that are cut.
LEMMA InsideIsOdd ==
  ASSUME NEW x, NEW y, NEW poly \in Polygon
  PROVE  Frame!pointInPolygon(x, y, poly) <=> Odd(Cut(x, y, poly))
<1>1. \A i \in 1 .. Len(poly) :
        Frame!Edges(poly)[i] = <<poly[i], poly[Previous(i, Len(poly))]>>
  BY PolygonTyped DEF Frame!Edges, Previous
<1>2. DOMAIN Frame!Edges(poly) = 1 .. Len(poly)
  BY PolygonTyped DEF Frame!Edges
<1>3. {i \in DOMAIN Frame!Edges(poly) :
         Frame!Crosses(x, y, Frame!Edges(poly)[i][1], Frame!Edges(poly)[i][2])} = Cut(x, y, poly)
  BY <1>1, <1>2 DEF Cut
<1> QED
  BY <1>3, SameCardinality DEF Frame!pointInPolygon, Odd

\* The sign of a cross product, where both vectors point to one half plane.
LEMMA Turning ==
  ASSUME NEW a \in Int, NEW b \in Int, NEW c \in Int, NEW d \in Int
  PROVE  /\ a > 0 /\ c > 0 /\ b <= 0 /\ d > 0 => a * d - c * b > 0
         /\ a > 0 /\ c > 0 /\ b > 0 /\ d <= 0 => a * d - c * b < 0
         /\ a <= 0 /\ c <= 0 /\ b <= 0 /\ d > 0 => a * d - c * b <= 0
         /\ a <= 0 /\ c <= 0 /\ b > 0 /\ d <= 0 => a * d - c * b >= 0
BY SMT

\* An edge right of the point is cut if it passes the height of the point; an edge left
\* of it is not, nor one that does not pass its height.
LEMMA EdgeCases ==
  ASSUME NEW x \in Int, NEW y \in Int, NEW p \in Int \X Int, NEW q \in Int \X Int
  PROVE  /\ p[1] > x /\ q[1] > x =>
              (Frame!Crosses(x, y, p, q) <=> ~(p[2] > y <=> q[2] > y))
         /\ p[1] <= x /\ q[1] <= x => ~Frame!Crosses(x, y, p, q)
         /\ (p[2] > y <=> q[2] > y) => ~Frame!Crosses(x, y, p, q)
<1> DEFINE a == p[1] - x  b == p[2] - y  c == q[1] - x  d == q[2] - y
<1>1. /\ a \in Int /\ b \in Int /\ c \in Int /\ d \in Int
      /\ p[1] \in Int /\ p[2] \in Int /\ q[1] \in Int /\ q[2] \in Int
  OBVIOUS
<1>2. Frame!Side(p, q, x, y) = a * d - c * b
  BY SideForm
<1>3. Frame!Crosses(x, y, p, q) <=>
        \/ b <= 0 /\ d > 0 /\ a * d - c * b > 0
        \/ d <= 0 /\ b > 0 /\ a * d - c * b < 0
  <2>1. (p[2] <= y <=> b <= 0) /\ (q[2] <= y <=> d <= 0) /\ (y < q[2] <=> d > 0)
        /\ (y < p[2] <=> b > 0)
    BY <1>1
  <2> QED
    BY <1>2, <2>1, CrossForm
<1>4. /\ (p[1] > x <=> a > 0) /\ (q[1] > x <=> c > 0)
      /\ (p[1] <= x <=> a <= 0) /\ (q[1] <= x <=> c <= 0)
      /\ (p[2] > y <=> b > 0) /\ (q[2] > y <=> d > 0)
  BY <1>1
<1>5. /\ a > 0 /\ c > 0 /\ b <= 0 /\ d > 0 => a * d - c * b > 0
      /\ a > 0 /\ c > 0 /\ b > 0 /\ d <= 0 => a * d - c * b < 0
      /\ a <= 0 /\ c <= 0 /\ b <= 0 /\ d > 0 => a * d - c * b <= 0
      /\ a <= 0 /\ c <= 0 /\ b > 0 /\ d <= 0 => a * d - c * b >= 0
  <2> HIDE DEF a, b, c, d
  <2> QED
    BY <1>1, Turning
<1>6. a * d - c * b \in Int
  <2> HIDE DEF a, b, c, d
  <2> QED
    BY <1>1
<1> DEFINE s == a * d - c * b
<1>7. s \in Int
  BY <1>6
<1> HIDE DEF a, b, c, d
<1> HIDE DEF s
<1>8. /\ a > 0 /\ c > 0 /\ b <= 0 /\ d > 0 => s > 0
      /\ a > 0 /\ c > 0 /\ b > 0 /\ d <= 0 => s < 0
      /\ a <= 0 /\ c <= 0 /\ b <= 0 /\ d > 0 => s <= 0
      /\ a <= 0 /\ c <= 0 /\ b > 0 /\ d <= 0 => s >= 0
  BY <1>5 DEF s
<1>9. Frame!Crosses(x, y, p, q) <=>
        (b <= 0 /\ d > 0 /\ s > 0) \/ (d <= 0 /\ b > 0 /\ s < 0)
  BY <1>3 DEF s
<1> QED
  BY <1>1, <1>4, <1>7, <1>8, <1>9

\* A point left of all corners is outside: the edges pass its height up as often as down.
LEMMA OutsideLeft ==
  ASSUME NEW x \in Int, NEW y \in Int, NEW poly \in Polygon,
         \A i \in 1 .. Len(poly) : x < poly[i][1]
  PROVE  ~Frame!pointInPolygon(x, y, poly)
<1> DEFINE n == Len(poly)
           A == {i \in 1 .. n : poly[i][2] > y}
<1>1. ASSUME NEW i \in 1 .. n
      PROVE  i \in Cut(x, y, poly) <=> ~(i \in A <=> Previous(i, n) \in A)
  <2>1. /\ poly[i] \in Int \X Int /\ poly[i][1] > x /\ Previous(i, n) \in 1 .. n
        /\ poly[Previous(i, n)] \in Int \X Int /\ poly[Previous(i, n)][1] > x
    BY PolygonTyped
  <2>2. Frame!Crosses(x, y, poly[i], poly[Previous(i, n)])
          <=> ~(poly[i][2] > y <=> poly[Previous(i, n)][2] > y)
    BY <2>1, EdgeCases
  <2> QED
    BY <2>1, <2>2 DEF Cut
<1>2. Cut(x, y, poly) \in SUBSET (1 .. n)
  BY DEF Cut
<1>3. n \in Nat
  BY PolygonTyped
<1>4. ~Odd(Cut(x, y, poly))
  <2> HIDE DEF n, A
  <2> QED
    BY <1>1, <1>2, <1>3, AroundIsEven DEF Previous
<1> QED
  BY <1>4, InsideIsOdd

\* A point right of, above or below all corners is outside: its ray cuts nothing.
LEMMA NothingCut ==
  ASSUME NEW x \in Int, NEW y \in Int, NEW poly \in Polygon,
         \/ \A i \in 1 .. Len(poly) : poly[i][1] <= x
         \/ \A i \in 1 .. Len(poly) : poly[i][2] <= y
         \/ \A i \in 1 .. Len(poly) : poly[i][2] > y
  PROVE  ~Frame!pointInPolygon(x, y, poly)
<1> DEFINE n == Len(poly)
<1>1. ASSUME NEW i \in 1 .. n
      PROVE  ~Frame!Crosses(x, y, poly[i], poly[Previous(i, n)])
  <2> DEFINE p == poly[i] q == poly[Previous(i, n)]
  <2>1. /\ p \in Int \X Int /\ p[1] \in Int /\ p[2] \in Int
        /\ q \in Int \X Int /\ q[1] \in Int /\ q[2] \in Int
    BY PolygonTyped
  <2>2. \/ p[1] <= x /\ q[1] <= x
        \/ p[2] <= y /\ q[2] <= y
        \/ p[2] > y /\ q[2] > y
    BY PolygonTyped
  <2>3. (p[1] <= x /\ q[1] <= x) \/ (p[2] > y <=> q[2] > y)
    <3> HIDE DEF p, q
    <3> QED
      BY <2>1, <2>2
  <2>4. ~Frame!Crosses(x, y, p, q)
    <3> HIDE DEF p, q
    <3> QED
      BY <2>1, <2>3, EdgeCases
  <2> QED
    BY <2>4
<1>2. Cut(x, y, poly) = {}
  BY <1>1 DEF Cut
<1> QED
  BY <1>2, InsideIsOdd, EmptyIsEven

\* A point in a polygon has a corner of it on each of its four sides.
LEMMA Enclosed ==
  ASSUME NEW x \in Int, NEW y \in Int, NEW poly \in Polygon,
         Frame!pointInPolygon(x, y, poly)
  PROVE  /\ \E i \in 1 .. Len(poly) : poly[i][1] <= x
         /\ \E i \in 1 .. Len(poly) : poly[i][1] > x
         /\ \E i \in 1 .. Len(poly) : poly[i][2] <= y
         /\ \E i \in 1 .. Len(poly) : poly[i][2] > y
<1>1. ASSUME NEW i \in 1 .. Len(poly)
      PROVE  /\ ~(poly[i][1] <= x) => x < poly[i][1]
             /\ ~(poly[i][1] > x) => poly[i][1] <= x
             /\ ~(poly[i][2] <= y) => poly[i][2] > y
             /\ ~(poly[i][2] > y) => poly[i][2] <= y
  <2>1. poly[i][1] \in Int /\ poly[i][2] \in Int
    BY PolygonTyped
  <2> QED
    BY <2>1
<1>2. \E i \in 1 .. Len(poly) : poly[i][1] <= x
  BY <1>1, OutsideLeft
<1>3. \E i \in 1 .. Len(poly) : poly[i][1] > x
  BY <1>1, NothingCut
<1>4. \E i \in 1 .. Len(poly) : poly[i][2] <= y
  BY <1>1, NothingCut
<1>5. \E i \in 1 .. Len(poly) : poly[i][2] > y
  BY <1>1, NothingCut
<1> QED
  BY <1>2, <1>3, <1>4, <1>5

-----------------------------------------------------------------------------
(* The rectangle around a polygon.                                          *)

\* The least of a number and some others is one of them and bounds them.
LEMMA LeastOf ==
  ASSUME NEW n \in Nat, NEW f, \A i \in 1 .. n : f[i] \in Int, NEW a \in Int,
         NEW R, a \in R, \A i \in 1 .. n : f[i] \in R,
         \A z \in R : z = a \/ \E i \in 1 .. n : z = f[i]
  PROVE  Frame!Least(R) \in R /\ \A z \in R : Frame!Least(R) <= z
<1> DEFINE S(m) == {f[i] : i \in 1 .. m} \union {a}
           T == {m \in Nat : m <= n => \E x \in S(m) : \A z \in S(m) : x <= z}
<1>1. 0 \in T
  <2>1. S(0) = {a}
    OBVIOUS
  <2> QED
    BY <2>1
<1>2. ASSUME NEW m \in T
      PROVE  m + 1 \in T
  <2> SUFFICES ASSUME m + 1 <= n
               PROVE  \E x \in S(m + 1) : \A z \in S(m + 1) : x <= z
    OBVIOUS
  <2>1. S(m + 1) = S(m) \union {f[m + 1]}
    <3>1. 1 .. m + 1 = (1 .. m) \union {m + 1}
      OBVIOUS
    <3> QED
      BY <3>1
  <2>2. f[m + 1] \in Int /\ S(m) \subseteq Int
    OBVIOUS
  <2>3. PICK x \in S(m) : \A z \in S(m) : x <= z
    OBVIOUS
  <2> HIDE DEF S
  <2>4. CASE x <= f[m + 1]
    BY <2>1, <2>2, <2>3, <2>4
  <2>5. CASE ~(x <= f[m + 1])
    <3>1. \A z \in S(m + 1) : f[m + 1] <= z
      BY <2>1, <2>2, <2>3, <2>5
    <3> QED
      BY <2>1, <3>1
  <2> QED
    BY <2>4, <2>5
<1>3. n \in T
  <2> HIDE DEF T
  <2>1. T \in SUBSET Nat
    BY DEF T
  <2> QED
    BY <1>1, <1>2, <2>1, NatSetInduction
<1>4. \E x \in S(n) : \A z \in S(n) : x <= z
  BY <1>3
<1>5. R = S(n)
  OBVIOUS
<1>6. \E x \in R : \A z \in R : x <= z
  <2> HIDE DEF S
  <2> QED
    BY <1>4, <1>5
<1> QED
  BY <1>6 DEF Frame!Least

\* The greatest of a number and some others is one of them and bounds them.
LEMMA MostOf ==
  ASSUME NEW n \in Nat, NEW f, \A i \in 1 .. n : f[i] \in Int, NEW a \in Int,
         NEW R, a \in R, \A i \in 1 .. n : f[i] \in R,
         \A z \in R : z = a \/ \E i \in 1 .. n : z = f[i]
  PROVE  Frame!Most(R) \in R /\ \A z \in R : Frame!Most(R) >= z
<1> DEFINE S(m) == {f[i] : i \in 1 .. m} \union {a}
           T == {m \in Nat : m <= n => \E x \in S(m) : \A z \in S(m) : x >= z}
<1>1. 0 \in T
  <2>1. S(0) = {a}
    OBVIOUS
  <2> QED
    BY <2>1
<1>2. ASSUME NEW m \in T
      PROVE  m + 1 \in T
  <2> SUFFICES ASSUME m + 1 <= n
               PROVE  \E x \in S(m + 1) : \A z \in S(m + 1) : x >= z
    OBVIOUS
  <2>1. S(m + 1) = S(m) \union {f[m + 1]}
    <3>1. 1 .. m + 1 = (1 .. m) \union {m + 1}
      OBVIOUS
    <3> QED
      BY <3>1
  <2>2. f[m + 1] \in Int /\ S(m) \subseteq Int
    OBVIOUS
  <2>3. PICK x \in S(m) : \A z \in S(m) : x >= z
    OBVIOUS
  <2> HIDE DEF S
  <2>4. CASE x >= f[m + 1]
    BY <2>1, <2>2, <2>3, <2>4
  <2>5. CASE ~(x >= f[m + 1])
    <3>1. \A z \in S(m + 1) : f[m + 1] >= z
      BY <2>1, <2>2, <2>3, <2>5
    <3> QED
      BY <2>1, <3>1
  <2> QED
    BY <2>4, <2>5
<1>3. n \in T
  <2> HIDE DEF T
  <2>1. T \in SUBSET Nat
    BY DEF T
  <2> QED
    BY <1>1, <1>2, <2>1, NatSetInduction
<1>4. \E x \in S(n) : \A z \in S(n) : x >= z
  <2>1. n <= n
    OBVIOUS
  <2> HIDE DEF S
  <2> QED
    BY <1>3, <2>1
<1>5. R = S(n)
  OBVIOUS
<1>6. \E x \in R : \A z \in R : x >= z
  <2> HIDE DEF S
  <2> QED
    BY <1>4, <1>5
<1> QED
  BY <1>6 DEF Frame!Most

\* Least and Most of two numbers.
LEMMA Pairs ==
  ASSUME NEW a \in Int, NEW b \in Int
  PROVE  /\ Frame!Most({a, b}) \in {a, b} /\ Frame!Most({a, b}) >= a /\ Frame!Most({a, b}) >= b
         /\ Frame!Least({a, b}) \in {a, b} /\ Frame!Least({a, b}) <= a
         /\ Frame!Least({a, b}) <= b
<1>1. \E x \in {a, b} : \A z \in {a, b} : x >= z
  OBVIOUS
<1>2. \E x \in {a, b} : \A z \in {a, b} : x <= z
  OBVIOUS
<1>3. Frame!Most({a, b}) \in {a, b} /\ \A z \in {a, b} : Frame!Most({a, b}) >= z
  BY <1>1 DEF Frame!Most
<1>4. Frame!Least({a, b}) \in {a, b} /\ \A z \in {a, b} : Frame!Least({a, b}) <= z
  BY <1>2 DEF Frame!Least
<1> QED
  BY <1>3, <1>4

\* What is assumed of the constants of a frame.
LEMMA FrameConstants ==
  /\ Unit \in Nat \ {0} /\ W \in Nat \ {0} /\ H \in Nat \ {0} /\ Confidence \in Int
  /\ CONF_THRESH \in Int
BY VisionAssumption DEF Frame!RegionsAssumption

\* The quotient of natural numbers is one.
LEMMA Quotient ==
  ASSUME NEW a \in Nat, NEW b \in Nat \ {0}
  PROVE  a \div b \in Nat
<1>1. a \div b \in Int /\ a < b * (a \div b) + b
  BY DivBounds
<1>2. ASSUME NEW q \in Int, q < 0
      PROVE  b * q + b <= 0
  <2>1. b * (q + 1) <= 0
    BY <1>2, SMT
  <2> QED
    BY <2>1, SMT
<1> QED
  BY <1>1, <1>2

\* int() of a coordinate.
LEMMA PixelBounds ==
  ASSUME NEW x \in Int
  PROVE  /\ Frame!Pixel(x) \in Int
         /\ x < 0 => Frame!Pixel(x) <= 0
         /\ x >= 0 => /\ Frame!Pixel(x) >= 0 /\ Frame!Pixel(x) * Unit <= x
                      /\ x < (Frame!Pixel(x) + 1) * Unit
<1>1. CASE x >= 0
  <2>1. Frame!Pixel(x) = x \div Unit
    BY <1>1 DEF Frame!Pixel
  <2>2. x \div Unit \in Nat /\ Unit * (x \div Unit) <= x /\ x < Unit * (x \div Unit) + Unit
    BY <1>1, FrameConstants, Quotient, DivBounds
  <2>3. \A q \in Nat : q * Unit = Unit * q /\ (q + 1) * Unit = Unit * q + Unit
    BY FrameConstants, SMT
  <2> QED
    BY <1>1, <2>1, <2>2, <2>3
<1>2. CASE x < 0
  <2>1. Frame!Pixel(x) = -((-x) \div Unit)
    BY <1>2 DEF Frame!Pixel
  <2>2. (-x) \div Unit \in Nat
    BY <1>2, FrameConstants, Quotient
  <2> QED
    BY <1>2, <2>1, <2>2
<1> QED
  BY <1>1, <1>2

\* One axis of PolygonToMinRect: the corners lie in it, but for those outside of the image
\* and in the last column of pixels.
LEMMA AxisBounds ==
  ASSUME NEW limit \in Nat, NEW least \in Int, NEW most \in Nat
  PROVE  LET lo == Frame!Most({0, Frame!Pixel(least)})
             hi == Frame!Least({limit, Frame!Pixel(most)})
         IN  /\ lo \in Nat /\ hi \in Int /\ hi <= limit
             /\ \A x \in Int : least <= x => lo = 0 \/ lo * Unit <= x
             /\ \A x \in Int : x <= most => hi = limit \/ x < (hi + 1) * Unit
<1> DEFINE lo == Frame!Most({0, Frame!Pixel(least)})
           hi == Frame!Least({limit, Frame!Pixel(most)})
<1>1. /\ Frame!Pixel(least) \in Int
      /\ least < 0 => Frame!Pixel(least) <= 0
      /\ least >= 0 => Frame!Pixel(least) * Unit <= least
  BY PixelBounds
<1>2. Frame!Pixel(most) \in Int /\ most < (Frame!Pixel(most) + 1) * Unit
  BY PixelBounds
<1>3. lo \in {0, Frame!Pixel(least)} /\ lo >= 0 /\ lo >= Frame!Pixel(least)
  BY 0 \in Int, <1>1, Pairs, Zenon
<1>4. hi \in {limit, Frame!Pixel(most)} /\ hi <= limit
  BY limit \in Int, <1>2, Pairs, Zenon
<1> HIDE DEF lo, hi
<1>5. lo \in Nat /\ hi \in Int
  BY <1>1, <1>2, <1>3, <1>4
<1>6. lo * Unit \in Int /\ (hi + 1) * Unit \in Int
  BY <1>5, FrameConstants
<1>7. ASSUME NEW x \in Int, least <= x
      PROVE  lo = 0 \/ lo * Unit <= x
  <2>1. CASE least < 0
    BY <1>1, <1>3, <2>1
  <2>2. CASE least >= 0 /\ lo # 0
    <3>1. lo = Frame!Pixel(least)
      BY <1>3, <2>2
    <3>2. lo * Unit <= least
      BY <1>1, <2>2, <3>1
    <3> QED
      BY <1>6, <1>7, <3>2
  <2> QED
    BY <2>1, <2>2
<1>8. ASSUME NEW x \in Int, x <= most
      PROVE  hi = limit \/ x < (hi + 1) * Unit
  <2>1. CASE hi = Frame!Pixel(most)
    <3>1. most < (hi + 1) * Unit
      BY <1>2, <2>1
    <3> QED
      BY <1>6, <1>8, <3>1
  <2> QED
    BY <1>4, <2>1
<1> QED
  BY <1>4, <1>5, <1>7, <1>8 DEF lo, hi

\* The coordinates of the corners in one direction.
Coordinates(points, k) == {points[i][k] : i \in DOMAIN points}

\* Least and greatest coordinate of a polygon.
LEMMA Extremes ==
  ASSUME NEW points \in Polygon, NEW k \in {1, 2}, NEW a \in Int,
         NEW S, S = Coordinates(points, k) \union {a}
  PROVE  /\ Frame!Least(S) \in S /\ \A z \in S : Frame!Least(S) <= z
         /\ Frame!Most(S) \in S /\ \A z \in S : Frame!Most(S) >= z
<1> DEFINE n == Len(points)
           f == [i \in 1 .. n |-> points[i][k]]
<1>1. n \in Nat /\ DOMAIN points = 1 .. n
  BY PolygonTyped
<1>2. \A i \in 1 .. n : f[i] \in Int
  BY PolygonTyped
<1>3. a \in S /\ (\A i \in 1 .. n : f[i] \in S)
  BY <1>1 DEF Coordinates
<1>4. \A z \in S : z = a \/ \E i \in 1 .. n : z = f[i]
  BY <1>1 DEF Coordinates
<1> HIDE DEF f, n
<1> QED
  BY <1>1, <1>2, <1>3, <1>4, LeastOf, MostOf

\* PolygonToMinRect: the rectangle is in the image and the corners lie in it, but for
\* those outside of the image and in its last column or row.
LEMMA RectBounds ==
  ASSUME NEW points \in Polygon, Len(points) >= 2,
         NEW r, r = Frame!PolygonToMinRect(points)
  PROVE  /\ r.x1 \in Nat /\ r.y1 \in Nat /\ r.x2 \in Int /\ r.y2 \in Int
         /\ r.x2 <= W /\ r.y2 <= H
         /\ \A i \in 1 .. Len(points) :
              /\ r.x1 = 0 \/ r.x1 * Unit <= points[i][1]
              /\ r.y1 = 0 \/ r.y1 * Unit <= points[i][2]
              /\ r.x2 = W \/ points[i][1] < (r.x2 + 1) * Unit
              /\ r.y2 = H \/ points[i][2] < (r.y2 + 1) * Unit
<1> DEFINE n == Len(points)
           SX == Coordinates(points, 1)
           SY == Coordinates(points, 2)
           left == Frame!Least(SX \union {W * Unit})
           top == Frame!Least(SY \union {H * Unit})
           right == Frame!Most(SX \union {0})
           bottom == Frame!Most(SY \union {0})
<1>1. n \in Nat /\ DOMAIN points = 1 .. n
  BY PolygonTyped
<1>2. W \in Nat /\ H \in Nat /\ W * Unit \in Int /\ H * Unit \in Int
  BY FrameConstants
<1>3. ASSUME NEW a \in Int, NEW k \in {1, 2}
      PROVE  LET S == Coordinates(points, k) \union {a}
             IN  /\ Frame!Least(S) \in S /\ \A z \in S : Frame!Least(S) <= z
                 /\ Frame!Most(S) \in S /\ \A z \in S : Frame!Most(S) >= z
  BY Extremes
<1>4. /\ left \in SX \union {W * Unit} /\ \A z \in SX \union {W * Unit} : left <= z
      /\ right \in SX \union {0} /\ \A z \in SX \union {0} : right >= z
  BY <1>2, <1>3, 1 \in {1, 2}, 0 \in Int
<1>5. /\ top \in SY \union {H * Unit} /\ \A z \in SY \union {H * Unit} : top <= z
      /\ bottom \in SY \union {0} /\ \A z \in SY \union {0} : bottom >= z
  BY <1>2, <1>3, 2 \in {1, 2}, 0 \in Int
<1>6. r = [x1 |-> Frame!Most({0, Frame!Pixel(left)}), y1 |-> Frame!Most({0, Frame!Pixel(top)}),
           x2 |-> Frame!Least({W, Frame!Pixel(right)}),
           y2 |-> Frame!Least({H, Frame!Pixel(bottom)})]
  <2>1. ~(Len(points) < 2)
    BY <1>1
  <2> QED
    BY <2>1, Zenon DEF Frame!PolygonToMinRect, Coordinates
<1>7. SX \subseteq Int /\ SY \subseteq Int
  BY <1>1, PolygonTyped DEF Coordinates
<1>8. \A i \in 1 .. n : points[i][1] \in SX /\ points[i][2] \in SY
  BY <1>1 DEF Coordinates
<1> HIDE DEF SX, SY, left, top, right, bottom
<1>9. left \in Int /\ top \in Int /\ right \in Nat /\ bottom \in Nat
  <2>1. right \in Int /\ bottom \in Int /\ right >= 0 /\ bottom >= 0
    BY <1>4, <1>5, <1>7
  <2> QED
    BY <1>2, <1>4, <1>5, <1>7, <2>1
<1>10. ASSUME NEW i \in 1 .. n
       PROVE  /\ points[i][1] \in Int /\ left <= points[i][1] /\ points[i][1] <= right
              /\ points[i][2] \in Int /\ top <= points[i][2] /\ points[i][2] <= bottom
  <2>1. right >= points[i][1] /\ bottom >= points[i][2]
    BY <1>4, <1>5, <1>8
  <2> QED
    BY <1>4, <1>5, <1>7, <1>8, <1>9, <2>1
<1>11. /\ r.x1 \in Nat /\ r.x2 \in Int /\ r.x2 <= W
       /\ \A x \in Int : left <= x => r.x1 = 0 \/ r.x1 * Unit <= x
       /\ \A x \in Int : x <= right => r.x2 = W \/ x < (r.x2 + 1) * Unit
  <2>1. r.x1 = Frame!Most({0, Frame!Pixel(left)}) /\ r.x2 = Frame!Least({W, Frame!Pixel(right)})
    BY <1>6
  <2> QED
    BY <1>2, <1>9, <2>1, AxisBounds
<1>12. /\ r.y1 \in Nat /\ r.y2 \in Int /\ r.y2 <= H
       /\ \A y \in Int : top <= y => r.y1 = 0 \/ r.y1 * Unit <= y
       /\ \A y \in Int : y <= bottom => r.y2 = H \/ y < (r.y2 + 1) * Unit
  <2>1. r.y1 = Frame!Most({0, Frame!Pixel(top)}) /\ r.y2 = Frame!Least({H, Frame!Pixel(bottom)})
    BY <1>6
  <2> QED
    BY <1>2, <1>9, <2>1, AxisBounds
<1> QED
  BY <1>10, <1>11, <1>12

\* There is no point in a polygon with fewer than two corners.
LEMMA InsideHasCorners ==
  ASSUME NEW x \in Int, NEW y \in Int, NEW points \in Polygon,
         Frame!pointInPolygon(x, y, points)
  PROVE  Len(points) >= 2
<1>1. PICK i \in 1 .. Len(points) : points[i][1] <= x
  BY Enclosed
<1>2. PICK j \in 1 .. Len(points) : points[j][1] > x
  BY Enclosed
<1>3. points[i][1] \in Int /\ points[j][1] \in Int /\ Len(points) \in Nat
  BY PolygonTyped
<1>4. i # j
  BY <1>1, <1>2, <1>3
<1> QED
  BY <1>3, <1>4

\* RectEncloses, for one polygon.
LEMMA RectEnclosesOne ==
  ASSUME NEW points \in Polygon, NEW x \in 0 .. W * Unit - 1, NEW y \in 0 .. H * Unit - 1,
         Frame!pointInPolygon(x, y, points)
  PROVE  LET r == Frame!PolygonToMinRect(points)
         IN  /\ r.x1 * Unit <= x /\ x < (r.x2 + 1) * Unit
             /\ r.y1 * Unit <= y /\ y < (r.y2 + 1) * Unit
<1> DEFINE r == Frame!PolygonToMinRect(points)
<1>1. x \in Int /\ y \in Int /\ x >= 0 /\ y >= 0 /\ x < W * Unit /\ y < H * Unit
  BY FrameConstants
<1>2. Len(points) >= 2
  BY <1>1, InsideHasCorners
<1>3. /\ r.x1 \in Nat /\ r.y1 \in Nat /\ r.x2 \in Int /\ r.y2 \in Int
      /\ r.x2 <= W /\ r.y2 <= H
      /\ \A i \in 1 .. Len(points) :
           /\ r.x1 = 0 \/ r.x1 * Unit <= points[i][1]
           /\ r.y1 = 0 \/ r.y1 * Unit <= points[i][2]
           /\ r.x2 = W \/ points[i][1] < (r.x2 + 1) * Unit
           /\ r.y2 = H \/ points[i][2] < (r.y2 + 1) * Unit
  <2> HIDE DEF r
  <2> QED
    BY <1>2, RectBounds DEF r
<1> HIDE DEF r
<1>4. /\ r.x1 * Unit \in Int /\ r.y1 * Unit \in Int
      /\ (r.x2 + 1) * Unit \in Int /\ (r.y2 + 1) * Unit \in Int
  <2>1. r.x1 \in Int /\ r.y1 \in Int /\ r.x2 + 1 \in Int /\ r.y2 + 1 \in Int
    BY <1>3
  <2> QED
    BY <2>1, FrameConstants
<1>5. (r.x1 = 0 => r.x1 * Unit = 0) /\ (r.y1 = 0 => r.y1 * Unit = 0)
  BY FrameConstants
<1>6. /\ r.x2 = W => (r.x2 + 1) * Unit >= W * Unit
      /\ r.y2 = H => (r.y2 + 1) * Unit >= H * Unit
  BY FrameConstants, SMT
<1>7. W * Unit \in Int /\ H * Unit \in Int
  BY FrameConstants
<1>8. \A i \in 1 .. Len(points) : points[i][1] \in Int /\ points[i][2] \in Int
  BY PolygonTyped
<1>9. r.x1 * Unit <= x
  <2>1. PICK i \in 1 .. Len(points) : points[i][1] <= x
    BY <1>1, Enclosed
  <2>2. r.x1 = 0 \/ r.x1 * Unit <= points[i][1]
    BY <1>3
  <2> QED
    BY <1>1, <1>4, <1>5, <1>8, <2>1, <2>2
<1>10. x < (r.x2 + 1) * Unit
  <2> DEFINE next == (r.x2 + 1) * Unit
             all == W * Unit
  <2>1. PICK i \in 1 .. Len(points) : points[i][1] > x
    BY <1>1, Enclosed
  <2>2. points[i][1] \in Int /\ (r.x2 = W \/ points[i][1] < next)
    BY <1>3, <1>8
  <2>3. next \in Int /\ all \in Int /\ x \in Int /\ x < all /\ (r.x2 = W => next >= all)
    BY <1>1, <1>4, <1>6, <1>7
  <2> HIDE DEF next, all
  <2>4. x < next
    BY <2>1, <2>2, <2>3
  <2> QED
    BY <2>4 DEF next
<1>11. r.y1 * Unit <= y
  <2>1. PICK i \in 1 .. Len(points) : points[i][2] <= y
    BY <1>1, Enclosed
  <2>2. r.y1 = 0 \/ r.y1 * Unit <= points[i][2]
    BY <1>3
  <2> QED
    BY <1>1, <1>4, <1>5, <1>8, <2>1, <2>2
<1>12. y < (r.y2 + 1) * Unit
  <2> DEFINE next == (r.y2 + 1) * Unit
             all == H * Unit
  <2>1. PICK i \in 1 .. Len(points) : points[i][2] > y
    BY <1>1, Enclosed
  <2>2. points[i][2] \in Int /\ (r.y2 = H \/ points[i][2] < next)
    BY <1>3, <1>8
  <2>3. next \in Int /\ all \in Int /\ y \in Int /\ y < all /\ (r.y2 = H => next >= all)
    BY <1>1, <1>4, <1>6, <1>7
  <2> HIDE DEF next, all
  <2>4. y < next
    BY <2>1, <2>2, <2>3
  <2> QED
    BY <2>4 DEF next
<1> QED
  BY <1>9, <1>10, <1>11, <1>12 DEF r

-----------------------------------------------------------------------------
(* Triangles and quadrilaterals.                                            *)

\* The direction of an edge does not matter for the ray.
LEMMA SwapEdge ==
  ASSUME NEW x \in Int, NEW y \in Int, NEW p \in Int \X Int, NEW q \in Int \X Int
  PROVE  /\ Frame!Side(p, q, x, y) \in Int
         /\ Frame!Side(q, p, x, y) = -Frame!Side(p, q, x, y)
         /\ Frame!Crosses(x, y, q, p) <=> Frame!Crosses(x, y, p, q)
<1> DEFINE a == p[1] - x  b == p[2] - y  c == q[1] - x  d == q[2] - y
<1>1. /\ a \in Int /\ b \in Int /\ c \in Int /\ d \in Int
      /\ p[2] \in Int /\ q[2] \in Int
  OBVIOUS
<1>2. /\ Frame!Side(p, q, x, y) = a * d - c * b
      /\ Frame!Side(q, p, x, y) = c * b - a * d
  BY SideForm
<1> HIDE DEF a, b, c, d
<1>3. /\ Frame!Side(p, q, x, y) \in Int
      /\ Frame!Side(q, p, x, y) = -Frame!Side(p, q, x, y)
  BY <1>1, <1>2
<1>4. Frame!Side(p, q, x, y) > 0 <=> Frame!Side(q, p, x, y) < 0
  BY <1>3
<1>5. Frame!Side(p, q, x, y) < 0 <=> Frame!Side(q, p, x, y) > 0
  BY <1>3
<1> QED
  BY <1>3, <1>4, <1>5, CrossForm

\* The parity of a set of up to three, or four.
LEMMA OddOfFew ==
  ASSUME NEW S
  PROVE  /\ Odd(S \cap (1 .. 3)) <=> ((1 \in S <=> 2 \notin S) <=> 3 \notin S)
         /\ Odd(S \cap (1 .. 4)) <=> (((1 \in S <=> 2 \notin S) <=> 3 \notin S) <=> 4 \notin S)
<1>1. ~Odd(S \cap (1 .. 0))
  BY EmptyIsEven, S \cap (1 .. 0) = {}
<1>2. Odd(S \cap (1 .. 1)) <=> 1 \in S
  BY <1>1, ParityStep, 0 \in Nat, 0 + 1 = 1
<1>3. Odd(S \cap (1 .. 2)) <=> (1 \in S <=> 2 \notin S)
  BY <1>2, ParityStep, 1 \in Nat, 1 + 1 = 2
<1>4. Odd(S \cap (1 .. 3)) <=> ((1 \in S <=> 2 \notin S) <=> 3 \notin S)
  BY <1>3, ParityStep, 2 \in Nat, 2 + 1 = 3
<1>5. Odd(S \cap (1 .. 4)) <=> (((1 \in S <=> 2 \notin S) <=> 3 \notin S) <=> 4 \notin S)
  <2>1. Odd(S \cap (1 .. 3 + 1)) <=> (Odd(S \cap (1 .. 3)) <=> 3 + 1 \notin S)
    BY ParityStep, 3 \in Nat, Zenon
  <2>2. 3 + 1 = 4
    OBVIOUS
  <2> QED
    BY <1>4, <2>1, <2>2, Zenon
<1> QED
  BY <1>4, <1>5

\* pointInPolygon of a triangle, edge by edge.
LEMMA InsideTriangle ==
  ASSUME NEW x \in Int, NEW y \in Int,
         NEW a \in Int \X Int, NEW b \in Int \X Int, NEW c \in Int \X Int
  PROVE  Frame!pointInPolygon(x, y, <<a, b, c>>) <=>
           ((Frame!Crosses(x, y, c, a) <=> ~Frame!Crosses(x, y, a, b))
              <=> ~Frame!Crosses(x, y, b, c))
<1> DEFINE t == <<a, b, c>>
           C == Cut(x, y, t)
<1>1. t \in Polygon /\ Len(t) = 3 /\ t[1] = a /\ t[2] = b /\ t[3] = c
  BY DEF Polygon
<1>2. Previous(1, 3) = 3 /\ Previous(2, 3) = 1 /\ Previous(3, 3) = 2
  BY DEF Previous
<1>3. /\ 1 \in C <=> Frame!Crosses(x, y, a, c)
      /\ 2 \in C <=> Frame!Crosses(x, y, b, a)
      /\ 3 \in C <=> Frame!Crosses(x, y, c, b)
      /\ C \cap (1 .. 3) = C
  <2> HIDE DEF t
  <2> QED
    BY <1>1, <1>2 DEF Cut
<1>4. Odd(C) <=> ((1 \in C <=> 2 \notin C) <=> 3 \notin C)
  <2> HIDE DEF C
  <2> QED
    BY <1>3, OddOfFew
<1>5. Frame!pointInPolygon(x, y, t) <=> Odd(C)
  BY <1>1, InsideIsOdd
<1>6. /\ Frame!Crosses(x, y, a, c) <=> Frame!Crosses(x, y, c, a)
      /\ Frame!Crosses(x, y, b, a) <=> Frame!Crosses(x, y, a, b)
      /\ Frame!Crosses(x, y, c, b) <=> Frame!Crosses(x, y, b, c)
  BY SwapEdge
<1> QED
  BY <1>3, <1>4, <1>5, <1>6

\* pointInPolygon of a quadrilateral, edge by edge.
LEMMA InsideQuadrilateral ==
  ASSUME NEW x \in Int, NEW y \in Int, NEW a \in Int \X Int, NEW b \in Int \X Int,
         NEW c \in Int \X Int, NEW d \in Int \X Int
  PROVE  Frame!pointInPolygon(x, y, <<a, b, c, d>>) <=>
           (((Frame!Crosses(x, y, d, a) <=> ~Frame!Crosses(x, y, a, b))
               <=> ~Frame!Crosses(x, y, b, c)) <=> ~Frame!Crosses(x, y, c, d))
<1> DEFINE t == <<a, b, c, d>>
           C == Cut(x, y, t)
<1>1. t \in Polygon /\ Len(t) = 4 /\ t[1] = a /\ t[2] = b /\ t[3] = c /\ t[4] = d
  BY DEF Polygon
<1>2. Previous(1, 4) = 4 /\ Previous(2, 4) = 1 /\ Previous(3, 4) = 2 /\ Previous(4, 4) = 3
  BY DEF Previous
<1>3. /\ 1 \in C <=> Frame!Crosses(x, y, a, d)
      /\ 2 \in C <=> Frame!Crosses(x, y, b, a)
      /\ 3 \in C <=> Frame!Crosses(x, y, c, b)
      /\ 4 \in C <=> Frame!Crosses(x, y, d, c)
      /\ C \cap (1 .. 4) = C
  <2> HIDE DEF t
  <2> QED
    BY <1>1, <1>2 DEF Cut
<1>4. Odd(C) <=> (((1 \in C <=> 2 \notin C) <=> 3 \notin C) <=> 4 \notin C)
  <2> HIDE DEF C
  <2> QED
    BY <1>3, OddOfFew
<1>5. Frame!pointInPolygon(x, y, t) <=> Odd(C)
  BY <1>1, InsideIsOdd
<1>6. /\ Frame!Crosses(x, y, a, d) <=> Frame!Crosses(x, y, d, a)
      /\ Frame!Crosses(x, y, b, a) <=> Frame!Crosses(x, y, a, b)
      /\ Frame!Crosses(x, y, c, b) <=> Frame!Crosses(x, y, b, c)
      /\ Frame!Crosses(x, y, d, c) <=> Frame!Crosses(x, y, c, d)
  BY SwapEdge
<1> QED
  BY <1>3, <1>4, <1>5, <1>6

\* Cut along a diagonal, a quadrilateral is its two triangles without what they share.
LEMMA Diagonal ==
  ASSUME NEW x \in Int, NEW y \in Int, NEW a \in Int \X Int, NEW b \in Int \X Int,
         NEW c \in Int \X Int, NEW d \in Int \X Int
  PROVE  Frame!pointInPolygon(x, y, <<a, b, c, d>>)
           <=> (Frame!pointInPolygon(x, y, <<a, b, c>>)
                  <=> ~Frame!pointInPolygon(x, y, <<a, c, d>>))
<1>1. Frame!Crosses(x, y, c, a) <=> Frame!Crosses(x, y, a, c)
  BY SwapEdge
<1>2. Frame!pointInPolygon(x, y, <<a, b, c, d>>) <=>
        (((Frame!Crosses(x, y, d, a) <=> ~Frame!Crosses(x, y, a, b))
            <=> ~Frame!Crosses(x, y, b, c)) <=> ~Frame!Crosses(x, y, c, d))
  BY InsideQuadrilateral
<1>3. Frame!pointInPolygon(x, y, <<a, b, c>>) <=>
        ((Frame!Crosses(x, y, c, a) <=> ~Frame!Crosses(x, y, a, b))
           <=> ~Frame!Crosses(x, y, b, c))
  BY InsideTriangle
<1>4. Frame!pointInPolygon(x, y, <<a, c, d>>) <=>
        ((Frame!Crosses(x, y, d, a) <=> ~Frame!Crosses(x, y, a, c))
           <=> ~Frame!Crosses(x, y, c, d))
  BY InsideTriangle
<1> QED
  BY <1>1, <1>2, <1>3, <1>4

\* An edge from height u to height v crosses the ray if it lies on the right side of it.
Crossing(u, v, side) == (u <= 0 /\ v > 0 /\ side > 0) \/ (v <= 0 /\ u > 0 /\ side < 0)

\* The point lies strictly on one side of all three edges, or strictly on different sides
\* of two of them.
OneSide(r, s, t) == (r > 0 /\ s > 0 /\ t > 0) \/ (r < 0 /\ s < 0 /\ t < 0)
BothSides(r, s, t) == (r > 0 \/ s > 0 \/ t > 0) /\ (r < 0 \/ s < 0 \/ t < 0)

\* How often the ray crosses a triangle with corners at heights u, v, z and the point on
\* sides r, s and t of its edges.
CrossedOdd(u, v, z, r, s, t) ==
  (Crossing(z, u, t) <=> ~Crossing(u, v, r)) <=> ~Crossing(v, z, s)

\* If heights weighted with sides cancel, the ray of a point on one side of all edges
\* crosses an odd number of them, that of a point on both sides an even number.
LEMMA Weights ==
  ASSUME NEW u \in Int, NEW v \in Int, NEW z \in Int,
         NEW r \in Int, NEW s \in Int, NEW t \in Int,
         z * r + u * s + v * t = 0,
         u = 0 /\ v = 0 => r = 0
  PROVE  /\ OneSide(r, s, t) => CrossedOdd(u, v, z, r, s, t)
         /\ BothSides(r, s, t) => ~CrossedOdd(u, v, z, r, s, t)
<1> DEFINE i == z * r  j == u * s  k == v * t
<1>1. i \in Int /\ j \in Int /\ k \in Int /\ i + j + k = 0
  OBVIOUS
<1>2. ASSUME NEW a \in Int, NEW b \in Int
      PROVE  /\ a > 0 /\ b > 0 => a * b > 0
             /\ a > 0 /\ b < 0 => a * b < 0
             /\ a < 0 /\ b > 0 => a * b < 0
             /\ a < 0 /\ b < 0 => a * b > 0
             /\ a = 0 \/ b = 0 => a * b = 0
  BY SMT
<1>3. /\ z > 0 /\ r > 0 => i > 0
      /\ z > 0 /\ r < 0 => i < 0
      /\ z < 0 /\ r > 0 => i < 0
      /\ z < 0 /\ r < 0 => i > 0
      /\ z = 0 \/ r = 0 => i = 0
  BY <1>2
<1>4. /\ u > 0 /\ s > 0 => j > 0
      /\ u > 0 /\ s < 0 => j < 0
      /\ u < 0 /\ s > 0 => j < 0
      /\ u < 0 /\ s < 0 => j > 0
      /\ u = 0 \/ s = 0 => j = 0
  BY <1>2
<1>5. /\ v > 0 /\ t > 0 => k > 0
      /\ v > 0 /\ t < 0 => k < 0
      /\ v < 0 /\ t > 0 => k < 0
      /\ v < 0 /\ t < 0 => k > 0
      /\ v = 0 \/ t = 0 => k = 0
  BY <1>2
<1> HIDE DEF i, j, k
<1>6. CASE u <= 0 /\ v <= 0 /\ z <= 0
  BY <1>1, <1>3, <1>4, <1>5, <1>6 DEF Crossing, CrossedOdd, OneSide, BothSides
<1>7. CASE u > 0 /\ v > 0 /\ z > 0
  BY <1>1, <1>3, <1>4, <1>5, <1>7 DEF Crossing, CrossedOdd, OneSide, BothSides
<1>8. CASE u > 0 /\ v <= 0 /\ z <= 0
  BY <1>1, <1>3, <1>4, <1>5, <1>8 DEF Crossing, CrossedOdd, OneSide, BothSides
<1>9. CASE u <= 0 /\ v > 0 /\ z <= 0
  BY <1>1, <1>3, <1>4, <1>5, <1>9 DEF Crossing, CrossedOdd, OneSide, BothSides
<1>10. CASE u <= 0 /\ v <= 0 /\ z > 0
  BY <1>1, <1>3, <1>4, <1>5, <1>10 DEF Crossing, CrossedOdd, OneSide, BothSides
<1>11. CASE u <= 0 /\ v > 0 /\ z > 0
  BY <1>1, <1>3, <1>4, <1>5, <1>11 DEF Crossing, CrossedOdd, OneSide, BothSides
<1>12. CASE u > 0 /\ v <= 0 /\ z > 0
  BY <1>1, <1>3, <1>4, <1>5, <1>12 DEF Crossing, CrossedOdd, OneSide, BothSides
<1>13. CASE u > 0 /\ v > 0 /\ z <= 0
  BY <1>1, <1>3, <1>4, <1>5, <1>13 DEF Crossing, CrossedOdd, OneSide, BothSides
<1> QED
  BY <1>6, <1>7, <1>8, <1>9, <1>10, <1>11, <1>12, <1>13

\* A point strictly on one side of all edges of a triangle is in it, a point strictly on
\* different sides of two of them is not.
LEMMA TriangleRight ==
  ASSUME NEW x \in Int, NEW y \in Int,
         NEW a \in Int \X Int, NEW b \in Int \X Int, NEW c \in Int \X Int
  PROVE  /\ OneSide(Frame!Side(a, b, x, y), Frame!Side(b, c, x, y), Frame!Side(c, a, x, y))
              => Frame!pointInPolygon(x, y, <<a, b, c>>)
         /\ BothSides(Frame!Side(a, b, x, y), Frame!Side(b, c, x, y), Frame!Side(c, a, x, y))
              => ~Frame!pointInPolygon(x, y, <<a, b, c>>)
<1> DEFINE d == a[1] - x  u == a[2] - y  e == b[1] - x  v == b[2] - y
           f == c[1] - x  z == c[2] - y
           r == Frame!Side(a, b, x, y)  s == Frame!Side(b, c, x, y)
           t == Frame!Side(c, a, x, y)
<1>1. /\ d \in Int /\ e \in Int /\ f \in Int /\ u \in Int /\ v \in Int /\ z \in Int
      /\ a[2] \in Int /\ b[2] \in Int /\ c[2] \in Int
  OBVIOUS
<1>2. r = d * v - e * u /\ s = e * z - f * v /\ t = f * u - d * z
  BY SideForm
<1>3. /\ a[2] <= y <=> u <= 0
      /\ b[2] <= y <=> v <= 0
      /\ c[2] <= y <=> z <= 0
      /\ y < a[2] <=> u > 0
      /\ y < b[2] <=> v > 0
      /\ y < c[2] <=> z > 0
  BY <1>1
<1>4. /\ Frame!Crosses(x, y, a, b) <=> Crossing(u, v, r)
      /\ Frame!Crosses(x, y, b, c) <=> Crossing(v, z, s)
      /\ Frame!Crosses(x, y, c, a) <=> Crossing(z, u, t)
  <2> HIDE DEF d, e, f, u, v, z
  <2> QED
    BY <1>3, CrossForm DEF Crossing
<1> HIDE DEF d, e, f, u, v, z, r, s, t
<1>5. r \in Int /\ s \in Int /\ t \in Int
  BY <1>1, <1>2
<1>6. z * r + u * s + v * t = 0
  BY <1>1, <1>2, Turn
<1>7. u = 0 /\ v = 0 => r = 0
  BY <1>1, <1>2
<1>8. Frame!pointInPolygon(x, y, <<a, b, c>>) <=> CrossedOdd(u, v, z, r, s, t)
  BY <1>4, InsideTriangle DEF CrossedOdd
<1>9. /\ OneSide(r, s, t) => CrossedOdd(u, v, z, r, s, t)
      /\ BothSides(r, s, t) => ~CrossedOdd(u, v, z, r, s, t)
  BY <1>1, <1>5, <1>6, <1>7, Weights
<1> QED
  BY <1>8, <1>9 DEF r, s, t

-----------------------------------------------------------------------------
(* The polygons of every frame are right.                                   *)

\* What PolygonsRight needs of a state.
FrameRois == part = "frame" => rois \in RegionLists

\* The regions of a viewer are polygons, the points they are asked about are points.
LEMMA RoisTyped ==
  ASSUME rois \in RegionLists
  PROVE  /\ \A i \in DOMAIN rois : rois[i].points \in Polygon
         /\ Frame!Grid \subseteq Int \X Int
<1>1. Frame!RegionsAssumption
  BY VisionAssumption
<1>2. \A i \in DOMAIN rois : rois[i].points \in Polygon
  BY <1>1 DEF Frame!RegionsAssumption, Polygon
<1>3. Frame!Grid \subseteq Int \X Int
  BY FrameConstants DEF Frame!Grid
<1> QED
  BY <1>2, <1>3

\* A polygon is the list of its corners.
LEMMA Corners ==
  ASSUME NEW poly \in Polygon
  PROVE  /\ Len(poly) = 3 => /\ poly = <<poly[1], poly[2], poly[3]>>
                             /\ {poly[1], poly[2], poly[3]} \subseteq Int \X Int
         /\ Len(poly) = 4 => /\ poly = <<poly[1], poly[2], poly[3], poly[4]>>
                             /\ {poly[1], poly[2], poly[3], poly[4]} \subseteq Int \X Int
BY DEF Polygon

\* TrianglesRight, whatever the regions.
LEMMA TrianglesAreRight == rois \in RegionLists => Frame!TrianglesRight
<1> SUFFICES ASSUME rois \in RegionLists,
                    NEW i \in DOMAIN rois, Len(rois[i].points) = 3,
                    NEW g \in Frame!Grid
             PROVE  LET p == rois[i].points
                        S == {Frame!Side(p[1], p[2], g[1], g[2]),
                              Frame!Side(p[2], p[3], g[1], g[2]),
                              Frame!Side(p[3], p[1], g[1], g[2])}
                    IN  /\ (\A d \in S : d > 0) \/ (\A d \in S : d < 0)
                             => Frame!pointInPolygon(g[1], g[2], p)
                        /\ (\E d \in S : d > 0) /\ (\E d \in S : d < 0)
                             => ~Frame!pointInPolygon(g[1], g[2], p)
  BY Zenon DEF Frame!TrianglesRight
<1> DEFINE p == rois[i].points
           r == Frame!Side(p[1], p[2], g[1], g[2])
           s == Frame!Side(p[2], p[3], g[1], g[2])
           t == Frame!Side(p[3], p[1], g[1], g[2])
<1>1. p \in Polygon /\ Len(p) = 3 /\ g[1] \in Int /\ g[2] \in Int
  BY RoisTyped
<1> HIDE DEF p
<1>2. /\ p = <<p[1], p[2], p[3]>>
      /\ p[1] \in Int \X Int /\ p[2] \in Int \X Int /\ p[3] \in Int \X Int
  BY <1>1, Corners
<1>3. /\ OneSide(r, s, t) => Frame!pointInPolygon(g[1], g[2], <<p[1], p[2], p[3]>>)
      /\ BothSides(r, s, t) => ~Frame!pointInPolygon(g[1], g[2], <<p[1], p[2], p[3]>>)
  <2>1. p[1] \in Int \X Int /\ p[2] \in Int \X Int /\ p[3] \in Int \X Int
    BY <1>2
  <2> QED
    BY <1>1, <2>1, TriangleRight
<1>4. /\ OneSide(r, s, t) => Frame!pointInPolygon(g[1], g[2], p)
      /\ BothSides(r, s, t) => ~Frame!pointInPolygon(g[1], g[2], p)
  BY <1>2, <1>3
<1> HIDE DEF r, s, t
<1>5. /\ (\A d \in {r, s, t} : d > 0) \/ (\A d \in {r, s, t} : d < 0) => OneSide(r, s, t)
      /\ (\E d \in {r, s, t} : d > 0) /\ (\E d \in {r, s, t} : d < 0) => BothSides(r, s, t)
  BY DEF OneSide, BothSides
<1> QED
  BY <1>4, <1>5, Zenon DEF p, r, s, t

\* NeighboursShareNothing, whatever the regions.
LEMMA NeighboursAreRight == rois \in RegionLists => Frame!NeighboursShareNothing
<1> SUFFICES ASSUME rois \in RegionLists,
                    NEW i \in DOMAIN rois, Len(rois[i].points) = 4,
                    NEW g \in Frame!Grid
             PROVE  LET q == rois[i].points
                    IN  Frame!pointInPolygon(g[1], g[2], q) =
                          (Frame!pointInPolygon(g[1], g[2], <<q[1], q[2], q[3]>>)
                             # Frame!pointInPolygon(g[1], g[2], <<q[1], q[3], q[4]>>))
  BY Zenon DEF Frame!NeighboursShareNothing
<1> DEFINE q == rois[i].points
<1>1. q \in Polygon /\ Len(q) = 4 /\ g[1] \in Int /\ g[2] \in Int
  BY RoisTyped
<1> HIDE DEF q
<1>2. q = <<q[1], q[2], q[3], q[4]>>
  BY <1>1, Corners
<1>3. /\ q[1] \in Int \X Int /\ q[2] \in Int \X Int
      /\ q[3] \in Int \X Int /\ q[4] \in Int \X Int
  BY <1>1, Corners
<1>4. Frame!pointInPolygon(g[1], g[2], <<q[1], q[2], q[3], q[4]>>)
        <=> (Frame!pointInPolygon(g[1], g[2], <<q[1], q[2], q[3]>>)
               <=> ~Frame!pointInPolygon(g[1], g[2], <<q[1], q[3], q[4]>>))
  BY <1>1, <1>3, Diagonal
<1>5. \A poly : Frame!pointInPolygon(g[1], g[2], poly) \in BOOLEAN
  BY DEF Frame!pointInPolygon
<1>6. Frame!pointInPolygon(g[1], g[2], q) =
        (Frame!pointInPolygon(g[1], g[2], <<q[1], q[2], q[3]>>)
           # Frame!pointInPolygon(g[1], g[2], <<q[1], q[3], q[4]>>))
  BY <1>2, <1>4, <1>5
<1> QED
  BY <1>6 DEF q

\* RectEncloses, whatever the regions.
LEMMA RectsEnclose == rois \in RegionLists => Frame!RectEncloses
<1> SUFFICES ASSUME rois \in RegionLists,
                    NEW i \in DOMAIN rois,
                    NEW x \in 0 .. W * Unit - 1, NEW y \in 0 .. H * Unit - 1,
                    Frame!pointInPolygon(x, y, rois[i].points)
             PROVE  LET r == Frame!PolygonToMinRect(rois[i].points)
                    IN  /\ r.x1 * Unit <= x /\ x < (r.x2 + 1) * Unit
                        /\ r.y1 * Unit <= y /\ y < (r.y2 + 1) * Unit
  BY Zenon DEF Frame!RectEncloses
<1>1. rois[i].points \in Polygon
  BY RoisTyped
<1> QED
  BY <1>1, RectEnclosesOne

\* The regions stay.
LEMMA FrameRoisInductive ==
  /\ VisionInit => FrameRois
  /\ FrameRois /\ [VisionNext]_allVars => FrameRois'
<1>1. VisionInit => FrameRois
  BY DEF VisionInit, FrameRois, Frame!Init
<1>2. ASSUME FrameRois, [VisionNext]_allVars
      PROVE  FrameRois'
  BY <1>2 DEF FrameRois, VisionNext, In, allVars, frame, Frame!Next, Frame!InferCrops,
    Frame!InferFrame, Frame!InferFails, Frame!Filter
<1> QED
  BY <1>1, <1>2

\* The geometry of every region of every viewer is right: pointInPolygon agrees with the
\* reference for triangles, two regions that share a diagonal share no point and leave
\* none out, and PolygonToMinRect encloses what pointInPolygon calls inside.
THEOREM PolygonsAlwaysRight == VisionSpec => []PolygonsRight
<1>1. FrameRois => PolygonsRight
  BY TrianglesAreRight, NeighboursAreRight, RectsEnclose DEF FrameRois, PolygonsRight
<1> QED
  BY <1>1, FrameRoisInductive, PTL DEF VisionSpec

-----------------------------------------------------------------------------
(* The regions of a box.                                                    *)

\* Every set of natural numbers that is not empty has a least one.
LEMMA LeastNatural ==
  ASSUME NEW S \in SUBSET Nat, S # {}
  PROVE  \E a \in S : \A b \in S : a <= b
<1> SUFFICES ASSUME \A a \in S : \E b \in S : b < a
             PROVE  FALSE
  OBVIOUS
<1> DEFINE T == {n \in Nat : \A m \in 0 .. n : m \notin S}
<1>1. 0 \in T
  OBVIOUS
<1>2. \A n \in T : n + 1 \in T
  OBVIOUS
<1>3. T = Nat
  <2> HIDE DEF T
  <2>1. T \in SUBSET Nat
    BY DEF T
  <2> QED
    BY <1>1, <1>2, <2>1, NatSetInduction
<1>4. PICK a \in S : TRUE
  OBVIOUS
<1>5. a \in T
  BY <1>3
<1> QED
  BY <1>5

\* HitROI is the first region of the box, if there is one.
LEMMA FirstRegion ==
  ASSUME rois \in RegionLists, NEW b
  PROVE  /\ Frame!HitROI(b) # 0 <=> \E i \in DOMAIN rois : Frame!Of(b, rois[i])
         /\ Frame!HitROI(b) # 0 => /\ Frame!HitROI(b) \in DOMAIN rois
                                   /\ Frame!Of(b, rois[Frame!HitROI(b)])
<1> DEFINE I == {i \in 1 .. Len(rois) : Frame!Of(b, rois[i])}
<1>1. DOMAIN rois = 1 .. Len(rois) /\ Len(rois) \in Nat
  BY VisionAssumption DEF Frame!RegionsAssumption
<1>2. Frame!HitROI(b) = IF I # {} THEN Frame!Min(I) ELSE 0
  BY DEF Frame!HitROI, Frame!SelectInSeq
<1>3. I # {} => Frame!Min(I) \in I
  <2>1. I \in SUBSET Nat
    OBVIOUS
  <2> HIDE DEF I
  <2>2. I # {} => \E a \in I : \A c \in I : a <= c
    BY <2>1, LeastNatural
  <2> QED
    BY <2>2 DEF Frame!Min
<1>4. 0 \notin I
  OBVIOUS
<1> QED
  BY <1>1, <1>2, <1>3, <1>4

-----------------------------------------------------------------------------
(* Which objects an inference finds.                                        *)

\* From a part of the image and back is nowhere.
LEMMA MovedBack ==
  ASSUME NEW o \in Frame!Object, NEW dx \in Int, NEW dy \in Int
  PROVE  Frame!Move(Frame!Move(o, -dx, -dy), dx, dy) = o
BY DEF Frame!Move, Frame!Object

\* The centre of the object lies in the rectangle.
Centred(o, r) ==
  /\ 2 * r.x1 * Unit <= o.x1 + o.x2 /\ o.x1 + o.x2 < 2 * r.x2 * Unit
  /\ 2 * r.y1 * Unit <= o.y1 + o.y2 /\ o.y1 + o.y2 < 2 * r.y2 * Unit

\* The centre of the object lies past the last whole column or row of pixels.
PastRect(o, r) ==
  o.x1 + o.x2 >= 2 * r.x2 * Unit \/ o.y1 + o.y2 >= 2 * r.y2 * Unit

\* IsBoxInROI doubles the corners.
Doubled(points) == [i \in DOMAIN points |-> <<2 * points[i][1], 2 * points[i][2]>>]

\* One axis of an object in a region: its centre lies in the rectangle.
LEMMA OneAxis ==
  ASSUME NEW lo \in Nat, NEW hi \in Int, NEW c \in Nat, c < 2 * hi * Unit,
         NEW corner \in Int, 2 * corner <= c, lo = 0 \/ lo * Unit <= corner
  PROVE  2 * lo * Unit <= c /\ lo < hi
<1>1. Unit \in Nat \ {0}
  BY FrameConstants
<1>2. /\ 2 * lo * Unit = 2 * (lo * Unit) /\ 2 * hi * Unit = 2 * (hi * Unit)
      /\ lo * Unit \in Int /\ hi * Unit \in Int
  BY <1>1, SMT
<1>3. lo = 0 => lo * Unit = 0
  BY <1>1
<1>4. lo * Unit < hi * Unit
  BY <1>2, <1>3
<1>5. lo < hi
  BY <1>1, <1>4, SMT
<1> QED
  BY <1>2, <1>3, <1>5

\* The parts of an object.
LEMMA ObjectTyped ==
  ASSUME NEW o \in Frame!Object
  PROVE  /\ o.score \in Int /\ o.x1 \in Nat /\ o.x2 \in Nat /\ o.y1 \in Nat /\ o.y2 \in Nat
         /\ o.x1 < o.x2 /\ o.x2 <= W * Unit /\ o.y1 < o.y2 /\ o.y2 <= H * Unit
         /\ o.x1 + o.x2 \in Nat /\ o.y1 + o.y2 \in Nat
BY DEF Frame!Object

\* A polygon in twice the scale.
LEMMA DoubledPolygon ==
  ASSUME NEW points \in Polygon
  PROVE  /\ Doubled(points) \in Polygon /\ Len(Doubled(points)) = Len(points)
         /\ \A i \in 1 .. Len(points) : /\ Doubled(points)[i][1] = 2 * points[i][1]
                                        /\ Doubled(points)[i][2] = 2 * points[i][2]
<1> DEFINE n == Len(points)
<1>1. n \in Nat /\ DOMAIN points = 1 .. n
  BY PolygonTyped
<1>2. \A i \in 1 .. n : points[i][1] \in Int /\ points[i][2] \in Int
  BY PolygonTyped
<1>3. DOMAIN Doubled(points) = 1 .. n
  BY <1>1 DEF Doubled
<1>4. \A i \in 1 .. n : /\ Doubled(points)[i] = <<2 * points[i][1], 2 * points[i][2]>>
                         /\ Doubled(points)[i] \in Int \X Int
  BY <1>1, <1>2 DEF Doubled
<1>5. Doubled(points) \in [1 .. n -> Int \X Int]
  <2>1. Doubled(points) = [i \in 1 .. n |-> Doubled(points)[i]]
    BY <1>1 DEF Doubled
  <2> QED
    BY <1>4, <2>1
<1> HIDE DEF n
<1>6. Doubled(points) \in Polygon /\ Len(Doubled(points)) = n
  BY <1>1, <1>3, <1>5 DEF Polygon
<1> QED
  BY <1>4, <1>6 DEF n

\* An object in a region is centred in the rectangle around the region, so far as int()
\* does not cut it off.
LEMMA CentredInRect ==
  ASSUME NEW points \in Polygon, NEW o \in Frame!Object,
         Frame!IsBoxInROI(o, points),
         ~PastRect(o, Frame!PolygonToMinRect(points))
  PROVE  /\ Centred(o, Frame!PolygonToMinRect(points))
         /\ Frame!Cropped(Frame!PolygonToMinRect(points))
<1> DEFINE r == Frame!PolygonToMinRect(points)
           x == o.x1 + o.x2
           y == o.y1 + o.y2
           n == Len(points)
<1>1. x \in Nat /\ y \in Nat /\ n \in Nat
  BY ObjectTyped, PolygonTyped
<1>2. Frame!pointInPolygon(x, y, Doubled(points))
  BY DEF Frame!IsBoxInROI, Doubled
<1>3. Doubled(points) \in Polygon /\ Len(Doubled(points)) = n
  BY DoubledPolygon
<1>4. n >= 2
  <2> HIDE DEF x, y
  <2> QED
    BY <1>1, <1>2, <1>3, InsideHasCorners
<1>5. /\ r.x1 \in Nat /\ r.y1 \in Nat /\ r.x2 \in Int /\ r.y2 \in Int
      /\ r.x2 <= W /\ r.y2 <= H
      /\ \A i \in 1 .. n : /\ r.x1 = 0 \/ r.x1 * Unit <= points[i][1]
                           /\ r.y1 = 0 \/ r.y1 * Unit <= points[i][2]
  <2> HIDE DEF r
  <2> QED
    BY <1>4, RectBounds DEF r
<1>6. PICK i \in 1 .. n : 2 * points[i][1] <= x
  <2>1. \E i \in 1 .. Len(Doubled(points)) : Doubled(points)[i][1] <= x
    <3> HIDE DEF x, y
    <3> QED
      BY <1>1, <1>2, <1>3, Enclosed
  <2> HIDE DEF x, y
  <2> QED
    BY <2>1, DoubledPolygon
<1>7. PICK j \in 1 .. n : 2 * points[j][2] <= y
  <2>1. \E k \in 1 .. Len(Doubled(points)) : Doubled(points)[k][2] <= y
    <3> HIDE DEF x, y
    <3> QED
      BY <1>1, <1>2, <1>3, Enclosed
  <2> HIDE DEF x, y
  <2> QED
    BY <2>1, DoubledPolygon
<1>8. points[i][1] \in Int /\ points[j][2] \in Int
  BY PolygonTyped
<1>9. x < 2 * r.x2 * Unit /\ y < 2 * r.y2 * Unit
  <2>1. ~(x >= 2 * r.x2 * Unit) /\ ~(y >= 2 * r.y2 * Unit)
    BY DEF PastRect
  <2>2. 2 * r.x2 * Unit \in Int /\ 2 * r.y2 * Unit \in Int
    <3> HIDE DEF r
    <3> QED
      BY <1>5, FrameConstants
  <2> HIDE DEF r, x, y
  <2> QED
    BY <1>1, <2>1, <2>2
<1> HIDE DEF r, x, y, n
<1>10. 2 * r.x1 * Unit <= x /\ r.x1 < r.x2
  BY <1>1, <1>5, <1>6, <1>8, <1>9, OneAxis
<1>11. 2 * r.y1 * Unit <= y /\ r.y1 < r.y2
  BY <1>1, <1>5, <1>7, <1>8, <1>9, OneAxis
<1> QED
  BY <1>9, <1>10, <1>11 DEF Centred, Frame!Cropped, r, x, y

-----------------------------------------------------------------------------
(* The boxes of one inference.                                              *)

\* A rectangle of whole pixels.
Rectangle(r) == r.x1 \in Int /\ r.y1 \in Int /\ r.x2 \in Int /\ r.y2 \in Int

\* Whole pixels in subpixels.
LEMMA InSubpixels ==
  ASSUME NEW a \in Int
  PROVE  a * Unit \in Int /\ 2 * a * Unit = 2 * (a * Unit) /\ -a * Unit = -(a * Unit)
BY FrameConstants, SMT

\* What is centred in a rectangle overlaps it.
LEMMA CentredOverlaps ==
  ASSUME NEW o \in Frame!Object, NEW r, Rectangle(r), Centred(o, r)
  PROVE  Frame!Overlaps(o, r)
<1>1. /\ o.x1 \in Int /\ o.x2 \in Int /\ o.y1 \in Int /\ o.y2 \in Int
      /\ o.x1 < o.x2 /\ o.y1 < o.y2
  BY ObjectTyped
<1>2. \A a \in {r.x1, r.y1, r.x2, r.y2} : a * Unit \in Int /\ 2 * a * Unit = 2 * (a * Unit)
  BY InSubpixels DEF Rectangle
<1>3. o.x1 < r.x2 * Unit /\ r.x1 * Unit < o.x2
  BY <1>1, <1>2 DEF Centred
<1>4. o.y1 < r.y2 * Unit /\ r.y1 * Unit < o.y2
  BY <1>1, <1>2 DEF Centred
<1> QED
  BY <1>3, <1>4 DEF Frame!Overlaps

\* Nothing is clipped of a box that is wholly on the image.
LEMMA ClipAxis ==
  /\ \A u \in Int : u >= 0 => Frame!Most({0, u}) = u
  /\ \A v, size \in Int : v <= size => Frame!Least({size, v}) = v
<1>1. ASSUME NEW u \in Int, u >= 0
      PROVE  Frame!Most({0, u}) = u
  <2>1. Frame!Most({0, u}) \in {0, u} /\ Frame!Most({0, u}) >= u
    BY <1>1, Pairs
  <2> QED
    BY <1>1, <2>1
<1>2. ASSUME NEW v \in Int, NEW size \in Int, v <= size
      PROVE  Frame!Least({size, v}) = v
  <2>1. Frame!Least({size, v}) \in {size, v} /\ Frame!Least({size, v}) <= v
    BY Pairs
  <2> QED
    BY <1>2, <2>1
<1> QED
  BY <1>1, <1>2

\* The box of an object wholly on the part it is found on is the same, clipped or not.
LEMMA Unclipped ==
  ASSUME NEW o \in Frame!Object, NEW r, Rectangle(r), Frame!Within(o, r), NEW e
  PROVE  Frame!Detected(o, r, e) = Frame!Move(o, -r.x1 * Unit, -r.y1 * Unit)
<1> DEFINE dx == r.x1 * Unit
           dy == r.y1 * Unit
           width == (r.x2 - r.x1) * Unit
           height == (r.y2 - r.y1) * Unit
           moved == Frame!Move(o, -dx, -dy)
<1>1. /\ dx \in Int /\ dy \in Int
      /\ -r.x1 * Unit = -dx /\ -r.y1 * Unit = -dy
  BY InSubpixels DEF Rectangle
<1>2. o.x1 \in Int /\ o.x2 \in Int /\ o.y1 \in Int /\ o.y2 \in Int
  BY ObjectTyped
<1>3. moved = [label |-> o.label, score |-> o.score,
               x1 |-> o.x1 - dx, y1 |-> o.y1 - dy, x2 |-> o.x2 - dx, y2 |-> o.y2 - dy]
  BY <1>1, <1>2 DEF Frame!Move
<1>4. /\ width \in Int /\ width = r.x2 * Unit - dx /\ r.x2 * Unit \in Int
      /\ height \in Int /\ height = r.y2 * Unit - dy /\ r.y2 * Unit \in Int
  BY FrameConstants DEF Rectangle
<1>5. dx <= o.x1 /\ o.x2 <= r.x2 * Unit /\ dy <= o.y1 /\ o.y2 <= r.y2 * Unit
  BY DEF Frame!Within
<1>6. Frame!Clip(moved, r.x2 - r.x1, r.y2 - r.y1) = moved
  <2>1. Frame!Clip(moved, r.x2 - r.x1, r.y2 - r.y1)
          = [moved EXCEPT !.x1 = Frame!Most({0, moved.x1}), !.x2 = Frame!Least({width, moved.x2}),
                          !.y1 = Frame!Most({0, moved.y1}), !.y2 = Frame!Least({height, moved.y2})]
    BY DEF Frame!Clip
  <2> HIDE DEF moved, dx, dy, width, height
  <2>2. /\ o.x1 - dx \in Int /\ o.x1 - dx >= 0 /\ o.y1 - dy \in Int /\ o.y1 - dy >= 0
        /\ o.x2 - dx \in Int /\ width \in Int /\ o.x2 - dx <= width
        /\ o.y2 - dy \in Int /\ height \in Int /\ o.y2 - dy <= height
    BY <1>1, <1>2, <1>4, <1>5
  <2>3. Frame!Most({0, o.x1 - dx}) = o.x1 - dx /\ Frame!Least({width, o.x2 - dx}) = o.x2 - dx
    BY <2>2, ClipAxis
  <2>4. Frame!Most({0, o.y1 - dy}) = o.y1 - dy /\ Frame!Least({height, o.y2 - dy}) = o.y2 - dy
    BY <2>2, ClipAxis
  <2>5. /\ moved.x1 = o.x1 - dx /\ moved.x2 = o.x2 - dx
        /\ moved.y1 = o.y1 - dy /\ moved.y2 = o.y2 - dy
    BY <1>3
  <2>6. Frame!Clip(moved, r.x2 - r.x1, r.y2 - r.y1)
          = [moved EXCEPT !.x1 = moved.x1, !.x2 = moved.x2, !.y1 = moved.y1, !.y2 = moved.y2]
    BY <2>1, <2>3, <2>4, <2>5
  <2> QED
    BY <1>3, <2>6
<1> HIDE DEF dx, dy
<1> QED
  BY <1>1, <1>6 DEF Frame!Detected

\* An object wholly on the part it was found on comes back as it is.
LEMMA BackAgain ==
  ASSUME NEW o \in Frame!Object, NEW r, Rectangle(r), Frame!Within(o, r), NEW e
  PROVE  Frame!MapBoxToOriginal(Frame!Detected(o, r, e), r) = o
<1> DEFINE dx == r.x1 * Unit
           dy == r.y1 * Unit
<1>1. /\ dx \in Int /\ dy \in Int
      /\ -r.x1 * Unit = -dx /\ -r.y1 * Unit = -dy
  BY InSubpixels DEF Rectangle
<1>2. Frame!Detected(o, r, e) = Frame!Move(o, -r.x1 * Unit, -r.y1 * Unit)
  BY Unclipped
<1>3. Frame!Move(Frame!Move(o, -dx, -dy), dx, dy) = o
  <2> HIDE DEF dx, dy
  <2> QED
    BY <1>1, MovedBack
<1>4. Frame!MapBoxToOriginal(Frame!Detected(o, r, e), r)
        = Frame!Move(Frame!Detected(o, r, e), dx, dy)
  BY DEF Frame!MapBoxToOriginal
<1> HIDE DEF dx, dy
<1> QED
  BY <1>1, <1>2, <1>3, <1>4

\* A box keeps the score of its object.
LEMMA ScoreKept ==
  ASSUME NEW o, NEW r, NEW e
  PROVE  /\ Frame!Detected(o, r, e).score = o.score
         /\ Frame!MapBoxToOriginal(Frame!Detected(o, r, e), r).score = o.score
BY DEF Frame!Detected, Frame!MapBoxToOriginal, Frame!Move, Frame!Clip

\* What an inference sees is visible, and all that is shown if nothing is cut through.
LEMMA Seeing ==
  ASSUME NEW r, NEW e, NEW sight \in Frame!Sights(r, e)
  PROVE  /\ \A o \in sight : o \in Frame!Visible(e)
         /\ (\A o \in Frame!Visible(e) : ~Frame!Straddles(o, r))
              => sight = {o \in Frame!Visible(e) : Frame!Overlaps(o, r)}
BY DEF Frame!Sights

\* The sides of a rectangle are whole pixels.
LEMMA RectTyped ==
  ASSUME NEW points \in Polygon
  PROVE  Rectangle(Frame!PolygonToMinRect(points))
<1>1. CASE Len(points) < 2
  BY <1>1, FrameConstants DEF Frame!PolygonToMinRect, Rectangle
<1>2. CASE ~(Len(points) < 2)
  <2>1. Len(points) >= 2
    BY <1>2, PolygonTyped
  <2> DEFINE r == Frame!PolygonToMinRect(points)
  <2>2. r.x1 \in Nat /\ r.y1 \in Nat /\ r.x2 \in Int /\ r.y2 \in Int
    BY <2>1, RectBounds
  <2> QED
    BY <2>2 DEF Rectangle
<1> QED
  BY <1>1, <1>2

-----------------------------------------------------------------------------
(* Both detection modes.                                                    *)

\* The crop of the region shows what engine e reports whole or not at all.
CleanFor(i, e) ==
  \A o \in Frame!Visible(e) : ~Frame!Straddles(o, Frame!Crop(i)) /\ ~Frame!CutOff(o, i)

\* The objects engine e reports in region i.
DueFor(i, e) == {o \in Frame!Visible(e) : Frame!Of(o, rois[i])}

\* Before the inference there is nothing.
NothingYet == pc = "infer" => boxes = {} /\ valid = {} /\ signals = {} /\ failed = {}

\* What the inferences brought: in infer-and-filter mode what is visible, otherwise for
\* every region that did not fail, and that cuts through nothing, what is visible in it.
BoxesRight ==
  pc = "filter" =>
    /\ valid = {} /\ signals = {}
    /\ \A b \in boxes : b.box.score \in Int /\ b.box.score >= Frame!Threshold(engine)
    /\ mode = "filter" =>
         failed = {} /\ boxes = {Frame!Entry(o, 0, o) : o \in Frame!Visible(engine)}
    /\ mode = "crop" =>
         /\ \A b \in boxes : b.in \in DOMAIN rois \ failed
         /\ \A i \in DOMAIN rois \ failed : CleanFor(i, engine) =>
              {b \in boxes : b.in = i} = {Frame!Entry(o, i, o) : o \in DueFor(i, engine)}

FrameInv ==
  part = "frame" =>
    /\ Frame!TypeOK /\ NothingYet /\ BoxesRight
    /\ Frame!ModesAgree /\ Frame!SignalsFromConfident

\* What the type invariant says of regions and objects.
LEMMA FrameTyped ==
  ASSUME Frame!TypeOK
  PROVE  /\ rois \in RegionLists
         /\ \A o \in objects : o \in Frame!Object
         /\ \A i \in DOMAIN rois : rois[i].points \in Polygon
         /\ DOMAIN rois = 1 .. Len(rois) /\ Len(rois) \in Nat
<1>1. Frame!RegionsAssumption
  BY VisionAssumption
<1> QED
  BY <1>1, RoisTyped DEF Frame!RegionsAssumption, Frame!TypeOK

\* The threshold of an engine and what it lets pass.
LEMMA EngineTyped ==
  ASSUME Frame!TypeOK, NEW e
  PROVE  /\ Frame!Threshold(e) \in Int
         /\ \A o \in Frame!Visible(e) : /\ o \in objects /\ o \in Frame!Object
                                        /\ o.score \in Int /\ o.score >= Frame!Threshold(e)
BY FrameTyped, ObjectTyped, FrameConstants DEF Frame!Threshold, Frame!Visible

\* An object in a region that cuts through nothing is shown whole by its crop.
LEMMA ShownWhole ==
  ASSUME Frame!TypeOK, NEW e, NEW i \in DOMAIN rois, CleanFor(i, e), NEW o \in DueFor(i, e)
  PROVE  /\ Frame!Cropped(Frame!Crop(i))
         /\ Frame!Overlaps(o, Frame!Crop(i)) /\ Frame!Within(o, Frame!Crop(i))
<1>1. o \in Frame!Visible(e) /\ o \in Frame!Object /\ rois[i].points \in Polygon
  BY EngineTyped, FrameTyped DEF DueFor
<1>2. Frame!IsBoxInROI(o, rois[i].points)
  BY DEF DueFor, Frame!Of
<1>3. ~PastRect(o, Frame!PolygonToMinRect(rois[i].points))
  BY <1>1, <1>2 DEF CleanFor, Frame!CutOff, Frame!Crop, PastRect
<1>4. Frame!Cropped(Frame!Crop(i)) /\ Centred(o, Frame!Crop(i))
  BY <1>1, <1>2, <1>3, CentredInRect DEF Frame!Crop
<1>5. Frame!Overlaps(o, Frame!Crop(i))
  BY <1>1, <1>4, CentredOverlaps, RectTyped DEF Frame!Crop
<1> QED
  BY <1>1, <1>4, <1>5 DEF CleanFor, Frame!Straddles

\* CropBoxes: confident boxes of the region, and exactly the objects in it if its crop
\* cuts through nothing.
LEMMA CropRight ==
  ASSUME Frame!TypeOK, NEW e, NEW i \in DOMAIN rois,
         NEW sight \in Frame!Sights(Frame!Crop(i), e)
  PROVE  /\ \A b \in Frame!CropBoxes(i, sight, e) :
              /\ b.of \in objects /\ b.in = i
              /\ b.box.score \in Int /\ b.box.score >= Frame!Threshold(e)
         /\ CleanFor(i, e) =>
              Frame!CropBoxes(i, sight, e) = {Frame!Entry(o, i, o) : o \in DueFor(i, e)}
<1> DEFINE r == Frame!Crop(i)
           back(o) == Frame!MapBoxToOriginal(Frame!Detected(o, r, e), r)
<1>1. \A o \in sight : o \in Frame!Visible(e)
  BY Seeing
<1>2. Rectangle(r)
  BY FrameTyped, RectTyped DEF Frame!Crop
<1>3. \A o : back(o).score = o.score
  BY ScoreKept
<1> HIDE DEF r
<1>4. \A b : b \in Frame!CropBoxes(i, sight, e) <=>
               /\ Frame!Cropped(r)
               /\ \E o \in sight : b = Frame!Entry(o, i, back(o)) /\ Frame!Of(back(o), rois[i])
  BY DEF Frame!CropBoxes, Frame!Entry, r
<1> HIDE DEF back
<1>5. ASSUME NEW b \in Frame!CropBoxes(i, sight, e)
      PROVE  /\ b.of \in objects /\ b.in = i
             /\ b.box.score \in Int /\ b.box.score >= Frame!Threshold(e)
  BY <1>1, <1>3, <1>4, EngineTyped DEF Frame!Entry
<1>6. ASSUME CleanFor(i, e)
      PROVE  Frame!CropBoxes(i, sight, e) = {Frame!Entry(o, i, o) : o \in DueFor(i, e)}
  <2>1. sight = {o \in Frame!Visible(e) : Frame!Overlaps(o, r)}
    BY <1>6, Seeing DEF CleanFor, r
  <2>2. \A o \in sight : Frame!Within(o, r) /\ o \in Frame!Object
    BY <1>6, <2>1, EngineTyped DEF CleanFor, Frame!Straddles, r
  <2>3. \A o \in sight : back(o) = o
    BY <1>2, <2>2, BackAgain DEF back
  <2>4. \A o \in DueFor(i, e) : o \in sight /\ Frame!Cropped(r)
    BY <1>6, <2>1, ShownWhole DEF r, DueFor
  <2>5. \A o \in sight : Frame!Of(o, rois[i]) => o \in DueFor(i, e)
    BY <1>1 DEF DueFor
  <2>6. \A o \in DueFor(i, e) : Frame!Of(o, rois[i])
    BY DEF DueFor
  <2> QED
    BY <1>4, <2>3, <2>4, <2>5, <2>6
<1> QED
  BY <1>5, <1>6

\* The boxes after the inferences of the regions.
LEMMA CropsRight ==
  ASSUME Frame!TypeOK, NothingYet, Frame!InferCrops
  PROVE  Frame!TypeOK' /\ BoxesRight'
<1> DEFINE good == DOMAIN rois \ failed'
<1>1. /\ pc = "infer" /\ pc' = "filter" /\ mode' = "crop" /\ engine' \in {"onnx", "tensorrt"}
      /\ failed' \in SUBSET DOMAIN rois
      /\ rois' = rois /\ objects' = objects /\ valid' = {} /\ signals' = {}
  BY DEF Frame!InferCrops, NothingYet
<1>2. PICK sight :
        /\ \A i \in DOMAIN rois : sight[i] \in Frame!Sights(Frame!Crop(i), engine')
        /\ boxes' = UNION {Frame!CropBoxes(i, sight[i], engine') : i \in good}
  BY DEF Frame!InferCrops
<1> DEFINE B(i) == Frame!CropBoxes(i, sight[i], engine')
<1>3. ASSUME NEW i \in good
      PROVE  /\ \A b \in B(i) :
                  /\ b.of \in objects /\ b.in = i
                  /\ b.box.score \in Int /\ b.box.score >= Frame!Threshold(engine')
             /\ CleanFor(i, engine') =>
                  B(i) = {Frame!Entry(o, i, o) : o \in DueFor(i, engine')}
  BY <1>2, CropRight
<1>4. \A b : b \in boxes' <=> \E i \in good : b \in B(i)
  BY <1>2
<1> HIDE DEF B
<1>5. \A b \in boxes' : /\ b.of \in objects /\ b.in \in good /\ b.box.score \in Int
                        /\ b.box.score >= Frame!Threshold(engine')
  BY <1>3, <1>4
<1>6. \A i \in good : {b \in boxes' : b.in = i} = B(i)
  BY <1>3, <1>4
<1>7. Frame!TypeOK'
  BY <1>1, <1>5 DEF Frame!TypeOK
<1>8. \A i \in good : /\ CleanFor(i, engine)' <=> CleanFor(i, engine')
                      /\ DueFor(i, engine)' = DueFor(i, engine')
  BY <1>1 DEF CleanFor, DueFor, Frame!Visible, Frame!CutOff, Frame!Crop, Frame!Of
<1>9. BoxesRight'
  <2>1. \A b \in boxes' : b.box.score \in Int /\ b.box.score >= Frame!Threshold(engine)'
    BY <1>5 DEF Frame!Threshold
  <2>2. \A i \in good : CleanFor(i, engine)' =>
          {b \in boxes' : b.in = i} = {Frame!Entry(o, i, o) : o \in DueFor(i, engine)'}
    BY <1>3, <1>6, <1>8
  <2>3. \A b \in boxes' : b.in \in good
    BY <1>5
  <2> QED
    BY <1>1, <2>1, <2>2, <2>3 DEF BoxesRight, Frame!Entry
<1> QED
  BY <1>7, <1>9

\* The whole frame shows every object whole.
LEMMA WholeShows ==
  ASSUME NEW o \in Frame!Object
  PROVE  Frame!Overlaps(o, Frame!Whole) /\ Frame!Within(o, Frame!Whole)
<1>1. 0 * Unit = 0 /\ W * Unit \in Int /\ H * Unit \in Int
  BY FrameConstants
<1> QED
  BY <1>1, ObjectTyped DEF Frame!Overlaps, Frame!Within, Frame!Whole

\* The boxes after the inference of the image.
LEMMA FrameRight ==
  ASSUME Frame!TypeOK, NothingYet, Frame!InferFrame
  PROVE  Frame!TypeOK' /\ BoxesRight'
<1>1. /\ pc = "infer" /\ pc' = "filter" /\ mode' = "filter"
      /\ engine' \in {"onnx", "tensorrt"} /\ failed' = {}
      /\ rois' = rois /\ objects' = objects /\ valid' = {} /\ signals' = {}
  BY DEF Frame!InferFrame, NothingYet
<1>2. PICK sight \in Frame!Sights(Frame!Whole, engine') :
        boxes' = {Frame!Entry(o, 0, Frame!Detected(o, Frame!Whole, engine')) : o \in sight}
  BY DEF Frame!InferFrame
<1>3. \A o \in Frame!Visible(engine') :
        /\ o \in objects /\ o \in Frame!Object
        /\ o.score \in Int /\ o.score >= Frame!Threshold(engine')
  BY EngineTyped
<1>4. sight = Frame!Visible(engine')
  BY <1>3, Seeing, WholeShows DEF Frame!Straddles
<1>5. Rectangle(Frame!Whole)
  BY FrameConstants DEF Rectangle, Frame!Whole
<1>6. ASSUME NEW o \in Frame!Object
      PROVE  Frame!Detected(o, Frame!Whole, engine') = o
  <2>1. Frame!Detected(o, Frame!Whole, engine')
          = Frame!Move(o, -Frame!Whole.x1 * Unit, -Frame!Whole.y1 * Unit)
    BY <1>5, <1>6, Unclipped, WholeShows
  <2>2. -Frame!Whole.x1 * Unit = 0 /\ -Frame!Whole.y1 * Unit = 0
    BY FrameConstants DEF Frame!Whole
  <2>3. Frame!Move(o, 0, 0) = o
    BY <1>6 DEF Frame!Object, Frame!Move
  <2> QED
    BY <2>1, <2>2, <2>3
<1>7. boxes' = {Frame!Entry(o, 0, o) : o \in Frame!Visible(engine')}
  BY <1>2, <1>3, <1>4, <1>6
<1>8. \A b \in boxes' : /\ b.of \in objects /\ b.in = 0 /\ b.box.score \in Int
                        /\ b.box.score >= Frame!Threshold(engine')
  BY <1>3, <1>7 DEF Frame!Entry
<1>9. Frame!TypeOK'
  BY <1>1, <1>8 DEF Frame!TypeOK
<1>10. Frame!Visible(engine)' = Frame!Visible(engine')
  BY <1>1 DEF Frame!Visible, Frame!Threshold
<1>11. BoxesRight'
  BY <1>1, <1>7, <1>8, <1>10 DEF BoxesRight, Frame!Threshold, Frame!Entry
<1> QED
  BY <1>9, <1>11

\* What the frame sends.
LEMMA FilterRight ==
  ASSUME Frame!TypeOK, BoxesRight, Frame!Filter
  PROVE  Frame!TypeOK' /\ Frame!ModesAgree' /\ Frame!SignalsFromConfident'
<1>1. /\ pc = "filter" /\ pc' = "done"
      /\ valid' = {b \in Frame!Filtered : b.box.score >= Confidence}
      /\ signals' = IF valid' = {} \/ rois = << >> THEN {}
                    ELSE UNION {rois[Frame!HitROI(b.box)].signals : b \in Frame!Filtered}
      /\ rois' = rois /\ objects' = objects /\ mode' = mode /\ engine' = engine
      /\ failed' = failed /\ boxes' = boxes
  BY DEF Frame!Filter
<1>2. rois \in RegionLists /\ Confidence \in Int /\ Frame!Threshold(engine) \in Int
  BY FrameTyped, EngineTyped, FrameConstants
<1>3. Frame!Filtered \subseteq boxes
  BY DEF Frame!Filtered
<1>4. ASSUME rois # << >>, NEW b
      PROVE  b \in Frame!Filtered <=> b \in boxes /\ Frame!HitROI(b.box) # 0
  BY <1>4 DEF Frame!Filtered
<1>5. ASSUME rois # << >>, NEW b \in Frame!Filtered
      PROVE  /\ Frame!HitROI(b.box) \in DOMAIN rois
             /\ Frame!Of(b.box, rois[Frame!HitROI(b.box)])
  BY <1>2, <1>4, <1>5, FirstRegion
<1>6. Frame!TypeOK'
  <2>1. signals' \subseteq UNION {rois[i].signals : i \in DOMAIN rois}
    BY <1>1, <1>5
  <2> QED
    BY <1>1, <1>3, <2>1 DEF Frame!TypeOK
<1>7. ASSUME rois # << >>, mode = "filter"
      PROVE  Frame!Filtered = {Frame!Entry(o, 0, o) : o \in Frame!Due(Frame!Inferred)}
  <2>1. failed = {} /\ boxes = {Frame!Entry(o, 0, o) : o \in Frame!Visible(engine)}
    BY <1>1, <1>7 DEF BoxesRight
  <2>2. \A o : Frame!HitROI(o) # 0 <=> \E i \in Frame!Inferred : Frame!Of(o, rois[i])
    BY <1>2, <2>1, FirstRegion DEF Frame!Inferred
  <2>3. \A o : Frame!Entry(o, 0, o).box = o
    BY DEF Frame!Entry
  <2> QED
    BY <1>4, <1>7, <2>1, <2>2, <2>3 DEF Frame!Due
<1>8. ASSUME rois # << >>, mode = "crop", NEW i \in Frame!Inferred, CleanFor(i, engine)
      PROVE  {b \in Frame!Filtered : b.in = i} = {Frame!Entry(o, i, o) : o \in Frame!Due({i})}
  <2>1. {b \in boxes : b.in = i} = {Frame!Entry(o, i, o) : o \in DueFor(i, engine)}
    BY <1>1, <1>8 DEF BoxesRight, Frame!Inferred
  <2>2. DueFor(i, engine) = Frame!Due({i})
    BY DEF DueFor, Frame!Due
  <2>3. \A o \in Frame!Due({i}) : Frame!HitROI(o) # 0
    BY <1>2, <1>8, FirstRegion DEF Frame!Due, Frame!Inferred
  <2>4. \A o : Frame!Entry(o, i, o).box = o
    BY DEF Frame!Entry
  <2> QED
    BY <1>3, <1>4, <1>8, <2>1, <2>2, <2>3, <2>4
<1>9. ASSUME rois # << >>, mode = "filter"
      PROVE  valid' = Frame!Expected(0, Frame!Inferred)
  <2>1. \A o : Frame!Entry(o, 0, o).box = o
    BY DEF Frame!Entry
  <2> QED
    BY <1>1, <1>7, <1>9, <2>1 DEF Frame!Expected
<1>10. ASSUME rois # << >>, mode = "crop", NEW i \in DOMAIN rois
       PROVE  /\ i \in failed => Frame!Counted(i)' = {}
              /\ i \in Frame!Inferred /\ CleanFor(i, engine) =>
                   Frame!Counted(i)' = Frame!Expected(i, {i})
  <2>1. Frame!Counted(i)' = {b \in valid' : b.in = i}
    BY DEF Frame!Counted
  <2>2. i \in failed => {b \in valid' : b.in = i} = {}
    BY <1>1, <1>3, <1>10 DEF BoxesRight
  <2>3. ASSUME i \in Frame!Inferred, CleanFor(i, engine)
        PROVE  Frame!Counted(i)' = Frame!Expected(i, {i})
    <3>1. {b \in Frame!Filtered : b.in = i} = {Frame!Entry(o, i, o) : o \in Frame!Due({i})}
      BY <1>8, <1>10, <2>3
    <3>2. \A b : b \in Frame!Counted(i)' <=>
                   /\ b \in {c \in Frame!Filtered : c.in = i}
                   /\ b.box.score >= Confidence
      BY <1>1, <2>1
    <3>3. \A o : Frame!Entry(o, i, o).box = o
      BY DEF Frame!Entry
    <3>4. \A b : b \in Frame!Counted(i)' <=>
                   /\ b \in {Frame!Entry(o, i, o) : o \in Frame!Due({i})}
                   /\ b.box.score >= Confidence
      BY <3>1, <3>2
    <3>5. \A b : b \in Frame!Counted(i)' <=> b \in Frame!Expected(i, {i})
      BY <3>3, <3>4 DEF Frame!Expected
    <3> QED
      BY <2>1, <3>5 DEF Frame!Expected
  <2> QED
    BY <2>1, <2>2, <2>3
<1> DEFINE all == Frame!Due(Frame!Inferred)
<1>11. ASSUME rois # << >>, mode = "filter" \/ \A i \in Frame!Inferred : CleanFor(i, engine)
       PROVE  signals' = Frame!ExpectedSignals'
  <2> HIDE DEF all
  <2>1. \A o, i : Frame!Entry(o, i, o).box = o
    BY DEF Frame!Entry
  <2>2. /\ \A b \in Frame!Filtered : b.box \in all
        /\ \A o \in all : \E b \in Frame!Filtered : b.box = o
    <3>1. CASE mode = "filter"
      <4>1. Frame!Filtered = {Frame!Entry(o, 0, o) : o \in all}
        BY <1>7, <1>11, <3>1 DEF all
      <4> QED
        BY <2>1, <4>1
    <3>2. CASE mode = "crop" /\ \A i \in Frame!Inferred : CleanFor(i, engine)
      <4>1. \A i \in Frame!Inferred :
              {b \in Frame!Filtered : b.in = i} = {Frame!Entry(o, i, o) : o \in Frame!Due({i})}
        BY <1>8, <1>11, <3>2
      <4>2. \A b \in Frame!Filtered : b.in \in Frame!Inferred
        BY <1>1, <1>3, <3>2 DEF BoxesRight, Frame!Inferred
      <4>3. \A o : o \in all <=> \E i \in Frame!Inferred : o \in Frame!Due({i})
        BY DEF Frame!Due, all
      <4>4. ASSUME NEW b \in Frame!Filtered
            PROVE  b.box \in all
        <5>1. b \in {Frame!Entry(o, b.in, o) : o \in Frame!Due({b.in})}
          BY <4>1, <4>2
        <5> QED
          BY <2>1, <4>2, <4>3, <5>1
      <4>5. ASSUME NEW o \in all
            PROVE  \E b \in Frame!Filtered : b.box = o
        <5>1. PICK i \in Frame!Inferred : o \in Frame!Due({i})
          BY <4>3
        <5>2. Frame!Entry(o, i, o) \in Frame!Filtered
          BY <4>1, <5>1
        <5> QED
          BY <2>1, <5>2
      <4> QED
        BY <4>4, <4>5
    <3> QED
      BY <1>11, <3>1, <3>2 DEF Frame!TypeOK
  <2>3. {rois[Frame!HitROI(b.box)].signals : b \in Frame!Filtered}
          = {rois[Frame!HitROI(o)].signals : o \in all}
    BY <2>2
  <2>4. signals' = IF valid' = {} THEN {}
                   ELSE UNION {rois[Frame!HitROI(o)].signals : o \in all}
    BY <1>1, <1>11, <2>3
  <2>5. all' = all
    BY <1>1 DEF all, Frame!Due, Frame!Inferred, Frame!Of, Frame!Visible, Frame!Threshold
  <2>6. \A o : Frame!HitROI(o)' = Frame!HitROI(o)
    BY <1>1 DEF Frame!HitROI, Frame!SelectInSeq, Frame!Of
  <2>7. Frame!ExpectedSignals' = IF valid' = {} THEN {}
                                 ELSE UNION {rois[Frame!HitROI(o)].signals : o \in all}
    BY <1>1, <2>5, <2>6 DEF Frame!ExpectedSignals, all
  <2> QED
    BY <2>4, <2>7
<1>12. /\ \A i : Frame!Clean(i)' <=> CleanFor(i, engine)
       /\ \A i, S : Frame!Expected(i, S)' = Frame!Expected(i, S)
       /\ Frame!Inferred' = Frame!Inferred
  BY <1>1 DEF Frame!Clean, CleanFor, Frame!Visible, Frame!Threshold, Frame!CutOff, Frame!Crop,
     Frame!Expected, Frame!Due, Frame!Of, Frame!Inferred
<1>13. Frame!ModesAgree'
  BY <1>1, <1>9, <1>10, <1>11, <1>12 DEF Frame!ModesAgree
<1>14. Frame!SignalsFromConfident'
  <2> SUFFICES ASSUME Frame!Threshold(engine) >= Confidence, NEW s \in signals'
               PROVE  \E b \in valid', i \in DOMAIN rois :
                        s \in rois[i].signals /\ Frame!Of(b.box, rois[i])
    BY <1>1 DEF Frame!SignalsFromConfident, Frame!Of, Frame!Threshold
  <2>1. rois # << >>
    BY <1>1
  <2>2. PICK b \in Frame!Filtered : s \in rois[Frame!HitROI(b.box)].signals
    BY <1>1, <2>1
  <2>3. b \in valid'
    <3>1. valid' # {}
      BY <1>1
    <3>2. PICK c \in valid' : c.box.score >= Confidence
      BY <1>1, <3>1
    <3>3. b.box.score \in Int /\ b.box.score >= Frame!Threshold(engine)
      BY <1>1, <1>3 DEF BoxesRight
    <3> QED
      BY <1>1, <1>2, <3>3
  <2> QED
    BY <1>5, <2>1, <2>2, <2>3
<1> QED
  BY <1>6, <1>13, <1>14

\* A frame whose inference failed sends nothing.
LEMMA FailureRight ==
  ASSUME Frame!TypeOK, NothingYet, Frame!InferFails
  PROVE  Frame!TypeOK' /\ Frame!ModesAgree' /\ Frame!SignalsFromConfident'
<1>1. /\ pc' = "done" /\ mode' = "filter" /\ engine' \in {"onnx", "tensorrt"}
      /\ failed' = DOMAIN rois /\ rois' = rois /\ objects' = objects
      /\ boxes' = {} /\ valid' = {} /\ signals' = {}
  BY DEF Frame!InferFails, NothingYet
<1>2. Frame!TypeOK'
  BY <1>1 DEF Frame!TypeOK
<1>3. Frame!ModesAgree'
  <2>1. Frame!Expected(0, Frame!Inferred)' = {} /\ Frame!ExpectedSignals' = {}
    BY <1>1 DEF Frame!Expected, Frame!Due, Frame!Inferred, Frame!ExpectedSignals
  <2> QED
    BY <1>1, <2>1 DEF Frame!ModesAgree
<1>4. Frame!SignalsFromConfident'
  BY <1>1 DEF Frame!SignalsFromConfident
<1> QED
  BY <1>2, <1>3, <1>4

\* The invariant of a frame is inductive.
LEMMA FrameInductive ==
  /\ VisionInit => FrameInv
  /\ FrameInv /\ [VisionNext]_allVars => FrameInv'
<1>1. VisionInit => FrameInv
  BY DEF VisionInit, FrameInv, Frame!Init, Frame!TypeOK, NothingYet, BoxesRight, Frame!ModesAgree,
    Frame!SignalsFromConfident
<1>2. ASSUME FrameInv, [VisionNext]_allVars
      PROVE  FrameInv'
  <2>1. CASE In("frame") /\ Frame!Next /\ UNCHANGED image
    <3>1. part = "frame" /\ part' = "frame"
      BY <2>1 DEF In
    <3>2. Frame!TypeOK /\ NothingYet /\ BoxesRight
      BY <1>2, <3>1 DEF FrameInv
    <3>3. CASE Frame!InferCrops
      <4>1. Frame!TypeOK' /\ BoxesRight' /\ pc' = "filter" /\ signals' = {}
        BY <3>2, <3>3, CropsRight DEF Frame!InferCrops, NothingYet
      <4> QED
        BY <4>1 DEF FrameInv, NothingYet, Frame!ModesAgree, Frame!SignalsFromConfident
    <3>4. CASE Frame!InferFrame
      <4>1. Frame!TypeOK' /\ BoxesRight' /\ pc' = "filter" /\ signals' = {}
        BY <3>2, <3>4, FrameRight DEF Frame!InferFrame, NothingYet
      <4> QED
        BY <4>1 DEF FrameInv, NothingYet, Frame!ModesAgree, Frame!SignalsFromConfident
    <3>5. CASE Frame!InferFails
      <4>1. pc' = "done"
        BY <3>5 DEF Frame!InferFails
      <4> QED
        BY <3>2, <3>5, <4>1, FailureRight DEF FrameInv, NothingYet, BoxesRight
    <3>6. CASE Frame!Filter
      <4>1. pc' = "done"
        BY <3>6 DEF Frame!Filter
      <4> QED
        BY <3>2, <3>6, <4>1, FilterRight DEF FrameInv, NothingYet, BoxesRight
    <3> QED
      BY <2>1, <3>3, <3>4, <3>5, <3>6 DEF Frame!Next
  <2>2. CASE In("image")
    BY <2>2 DEF In, FrameInv
  <2>3. CASE UNCHANGED allVars
    <3>1. /\ part' = part /\ rois' = rois /\ objects' = objects /\ mode' = mode
          /\ engine' = engine
          /\ failed' = failed /\ boxes' = boxes /\ valid' = valid /\ signals' = signals
          /\ pc' = pc
      BY <2>3 DEF allVars, frame
    <3>2. Frame!TypeOK => Frame!TypeOK'
      BY <3>1 DEF Frame!TypeOK
    <3>3. NothingYet => NothingYet'
      BY <3>1 DEF NothingYet
    <3>4. BoxesRight => BoxesRight'
      BY <3>1 DEF BoxesRight, CleanFor, DueFor, Frame!Visible, Frame!Threshold, Frame!CutOff,
         Frame!Crop, Frame!Of, Frame!Entry
    <3>5. \A o : Frame!HitROI(o)' = Frame!HitROI(o)
      BY <3>1 DEF Frame!HitROI, Frame!SelectInSeq, Frame!Of
    <3>6. Frame!ModesAgree => Frame!ModesAgree'
      <4>1. /\ \A i, S : Frame!Expected(i, S)' = Frame!Expected(i, S)
            /\ \A i : Frame!Counted(i)' = Frame!Counted(i)
        BY <3>1 DEF Frame!Expected, Frame!Counted, Frame!Due, Frame!Of, Frame!Visible,
           Frame!Threshold
      <4>2. \A i : Frame!Clean(i)' <=> Frame!Clean(i)
        BY <3>1 DEF Frame!Clean, Frame!CutOff, Frame!Crop, Frame!Visible, Frame!Threshold
      <4>3. Frame!Inferred' = Frame!Inferred
        BY <3>1 DEF Frame!Inferred
      <4>4. Frame!ExpectedSignals' = Frame!ExpectedSignals
        BY <3>1, <3>5 DEF Frame!ExpectedSignals, Frame!Due, Frame!Inferred, Frame!Of,
           Frame!Visible, Frame!Threshold
      <4> QED
        BY <3>1, <4>1, <4>2, <4>3, <4>4 DEF Frame!ModesAgree
    <3>7. Frame!SignalsFromConfident => Frame!SignalsFromConfident'
      BY <3>1 DEF Frame!SignalsFromConfident, Frame!Of, Frame!Threshold
    <3> QED
      BY <1>2, <3>1, <3>2, <3>3, <3>4, <3>6, <3>7 DEF FrameInv
  <2> QED
    BY <1>2, <2>1, <2>2, <2>3 DEF VisionNext
<1> QED
  BY <1>1, <1>2

\* Whatever the regions and the objects, however often an inference fails and whatever it
\* makes of an object its crop cuts through: the two detection modes find the same objects
\* and send the same signals, the one once, the other once for each region, but for the
\* regions with an object on the edge of their rectangle; and an engine that reports
\* confident boxes only sends no signal without one.
THEOREM ModesAlwaysAgree == VisionSpec => []ModesAgree
<1>1. FrameInv => ModesAgree
  BY DEF FrameInv, ModesAgree
<1> QED
  BY <1>1, FrameInductive, PTL DEF VisionSpec

-----------------------------------------------------------------------------
(* The image in the input plane.                                            *)

\* The image and its rounding.
PictureTyped == {w, h} \subseteq Sizes /\ slip \in {0, 1} \X {0, 1}

\* What is assumed of the constants of an image.
LEMMA PictureConstants ==
  ASSUME PictureTyped
  PROVE  /\ w \in Nat \ {0} /\ h \in Nat \ {0}
         /\ InputW \in Nat \ {0} /\ InputH \in Nat \ {0}
         /\ NmsDen \in Nat \ {0} /\ NmsNum \in Nat /\ Confidence \in Int
         /\ slip[1] \in {0, 1} /\ slip[2] \in {0, 1}
BY VisionAssumption DEF PictureTyped, Image!BoxesAssumption, Frame!RegionsAssumption

\* The image scaled fits into the input plane.
LEMMA Fits ==
  ASSUME PictureTyped
  PROVE  /\ Image!Scale[1] \in Nat \ {0} /\ Image!Scale[2] \in Nat \ {0}
         /\ w * Image!Scale[1] <= InputW * Image!Scale[2]
         /\ h * Image!Scale[1] <= InputH * Image!Scale[2]
<1>1. CASE InputW * h <= InputH * w
  <2>1. Image!Scale = <<InputW, w>>
    BY <1>1 DEF Image!Scale
  <2>2. w * InputW <= InputW * w /\ h * InputW <= InputH * w
    BY <1>1, PictureConstants, SMT
  <2> QED
    BY <2>1, <2>2, PictureConstants
<1>2. CASE ~(InputW * h <= InputH * w)
  <2>1. Image!Scale = <<InputH, h>>
    BY <1>2 DEF Image!Scale
  <2>2. w * InputH <= InputW * h /\ h * InputH <= InputH * h
    BY <1>2, PictureConstants, SMT
  <2> QED
    BY <2>1, <2>2, PictureConstants
<1> QED
  BY <1>1, <1>2

\* One axis: the scaled size is at most the plane and less than one input pixel, and the
\* one that rounding may cost, short of the exact size.
LEMMA Scaled ==
  ASSUME NEW size \in Nat \ {0}, NEW n \in Nat \ {0}, NEW d \in Nat \ {0},
         NEW plane \in Nat \ {0}, size * n <= plane * d, NEW lost \in {0, 1}
  PROVE  LET q == (size * n) \div d - lost
             pad == (plane - q) \div 2
         IN  /\ q \in Int /\ q <= plane /\ pad \in Nat /\ pad + q <= plane
             /\ 2 * pad - (plane - q) \in {-1, 0}
             /\ 0 <= size * n - q * d /\ size * n - q * d < d * (1 + lost)
<1> DEFINE a == size * n
           q0 == a \div d
           q == q0 - lost
           pad == (plane - q) \div 2
<1>1. a \in Nat
  BY SMT
<1>2. a <= plane * d
  OBVIOUS
<1> HIDE DEF a
<1>3. q0 \in Nat /\ d * q0 <= a /\ a < d * q0 + d
  BY <1>1, Quotient, DivBounds
<1> HIDE DEF q0
<1>4. q0 <= plane
  <2> SUFFICES ASSUME q0 >= plane + 1
               PROVE  FALSE
    BY <1>3
  <2>1. d * q0 >= d * (plane + 1)
    BY <1>3, SMT
  <2>2. d * (plane + 1) = plane * d + d
    BY SMT
  <2>3. d * q0 \in Int /\ d * (plane + 1) \in Int /\ plane * d \in Int
    BY <1>3
  <2> QED
    BY <1>1, <1>2, <1>3, <2>1, <2>2, <2>3
<1>5. q \in Int /\ q <= plane /\ plane - q \in Nat
  BY <1>3, <1>4
<1>6. a - q * d = a - d * q0 + d * lost
  BY <1>1, <1>3, SMT
<1>7. 0 <= a - q * d /\ a - q * d < d * (1 + lost)
  <2>1. CASE lost = 0
    BY <1>1, <1>3, <1>6, <2>1
  <2>2. CASE lost = 1
    BY <1>1, <1>3, <1>6, <2>2
  <2> QED
    BY <2>1, <2>2
<1> HIDE DEF q
<1>8. pad \in Nat /\ 2 * pad <= plane - q /\ plane - q < 2 * pad + 2
  BY <1>5, Quotient, DivBounds
<1> HIDE DEF pad
<1>9. pad + q <= plane /\ 2 * pad - (plane - q) \in {-1, 0}
  BY <1>5, <1>8
<1> QED
  BY <1>5, <1>7, <1>8, <1>9 DEF a, q, q0, pad

\* What Letterbox and the way back compute, for the width and for the height.
LEMMA Padding ==
  ASSUME PictureTyped
  PROVE  /\ Image!NewSize(w, slip[1]) \in Int /\ Image!NewSize(h, slip[2]) \in Int
         /\ Image!PadX \in Nat /\ Image!PadX + Image!NewSize(w, slip[1]) <= InputW
         /\ Image!PadY \in Nat /\ Image!PadY + Image!NewSize(h, slip[2]) <= InputH
         /\ 2 * Image!PadX - (InputW - Image!NewSize(w, slip[1])) \in {-1, 0}
         /\ 0 <= w * Image!Scale[1] - Image!NewSize(w, slip[1]) * Image!Scale[2]
         /\ w * Image!Scale[1] - Image!NewSize(w, slip[1]) * Image!Scale[2]
              < Image!Scale[2] * (1 + slip[1])
         /\ 0 <= h * Image!Scale[1] - Image!NewSize(h, slip[2]) * Image!Scale[2]
         /\ h * Image!Scale[1] - Image!NewSize(h, slip[2]) * Image!Scale[2]
              < Image!Scale[2] * (1 + slip[2])
<1> DEFINE n == Image!Scale[1]
           d == Image!Scale[2]
<1>1. /\ n \in Nat \ {0} /\ d \in Nat \ {0}
      /\ w * n <= InputW * d /\ h * n <= InputH * d
  BY Fits
<1>2. /\ Image!NewSize(w, slip[1]) = (w * n) \div d - slip[1]
      /\ Image!NewSize(h, slip[2]) = (h * n) \div d - slip[2]
  BY DEF Image!NewSize
<1>3. /\ Image!PadX = (InputW - Image!NewSize(w, slip[1])) \div 2
      /\ Image!PadY = (InputH - Image!NewSize(h, slip[2])) \div 2
  BY DEF Image!PadX, Image!PadY
<1> HIDE DEF n, d
<1>4. LET q == (w * n) \div d - slip[1]
          pad == (InputW - q) \div 2
      IN  /\ q \in Int /\ q <= InputW /\ pad \in Nat /\ pad + q <= InputW
          /\ 2 * pad - (InputW - q) \in {-1, 0}
          /\ 0 <= w * n - q * d /\ w * n - q * d < d * (1 + slip[1])
  BY <1>1, PictureConstants, Scaled
<1>5. LET q == (h * n) \div d - slip[2]
          pad == (InputH - q) \div 2
      IN  /\ q \in Int /\ q <= InputH /\ pad \in Nat /\ pad + q <= InputH
          /\ 2 * pad - (InputH - q) \in {-1, 0}
          /\ 0 <= h * n - q * d /\ h * n - q * d < d * (1 + slip[2])
  BY <1>1, PictureConstants, Scaled
<1> QED
  BY <1>2, <1>3, <1>4, <1>5, Zenon DEF n, d

\* PictureMapsBack, once the picture is placed.
LEMMA MapsBack ==
  ASSUME PictureTyped, step # "image" => placed = Image!Letterbox
  PROVE  Image!PictureMapsBack
<1> SUFFICES ASSUME step # "image"
             PROVE  Image!PictureMapsBack
  BY DEF Image!PictureMapsBack
<1> DEFINE n == Image!Scale[1]
           d == Image!Scale[2]
           qw == Image!NewSize(w, slip[1])
           qh == Image!NewSize(h, slip[2])
           px == Image!PadX
           py == Image!PadY
<1>1. placed.x = px /\ placed.y = py /\ placed.w = qw /\ placed.h = qh
  BY DEF Image!Letterbox
<1>2. /\ n \in Nat \ {0} /\ d \in Nat \ {0} /\ w \in Nat /\ h \in Nat
      /\ InputW \in Nat /\ InputH \in Nat /\ slip[1] \in {0, 1} /\ slip[2] \in {0, 1}
  BY Fits, PictureConstants
<1>3. /\ qw \in Int /\ qh \in Int
      /\ px \in Nat /\ px + qw <= InputW /\ py \in Nat /\ py + qh <= InputH
      /\ 2 * px - (InputW - qw) \in {-1, 0}
      /\ 0 <= w * n - qw * d /\ w * n - qw * d < d * (1 + slip[1])
      /\ 0 <= h * n - qh * d /\ h * n - qh * d < d * (1 + slip[2])
  BY Padding
<1>4. /\ Image!Unpad(placed.x, Image!PadX, w, InputW) = (placed.x - px) * d
      /\ Image!Unpad(placed.y, Image!PadY, h, InputH) = (placed.y - py) * d
      /\ Image!Unpad(placed.x + placed.w, Image!PadX, w, InputW) = ((placed.x + placed.w) - px) * d
      /\ Image!Unpad(placed.y + placed.h, Image!PadY, h, InputH) = ((placed.y + placed.h) - py) * d
  BY Zenon DEF Image!Unpad
<1>5. Image!PyUnpadTwice(Image!PyLeft) = (2 * px - (InputW - qw)) * d
  BY DEF Image!PyUnpadTwice, Image!PyLeft, Image!PadX
<1> HIDE DEF n, d, qw, qh, px, py
<1>6. /\ (placed.x - px) * d = 0 /\ (placed.y - py) * d = 0
      /\ ((placed.x + placed.w) - px) * d = qw * d
      /\ ((placed.y + placed.h) - py) * d = qh * d
  <2>1. px - px = 0 /\ py - py = 0 /\ (px + qw) - px = qw /\ (py + qh) - py = qh
    BY <1>3
  <2>2. \A x : x = 0 => x * d = 0
    BY <1>2
  <2>3. /\ placed.x - px = 0 /\ placed.y - py = 0
        /\ (placed.x + placed.w) - px = qw /\ (placed.y + placed.h) - py = qh
    BY <1>1, <2>1
  <2> QED
    BY <2>2, <2>3, Zenon
<1>7. /\ -d <= (2 * px - (InputW - qw)) * d /\ (2 * px - (InputW - qw)) * d <= 0
  <2>1. -1 * d = -d /\ 0 * d = 0
    BY <1>2
  <2> QED
    BY <1>2, <1>3, <2>1
<1>8. /\ placed.x >= 0 /\ placed.x + placed.w <= InputW
      /\ placed.y >= 0 /\ placed.y + placed.h <= InputH
  BY <1>1, <1>3
<1> QED
  BY <1>3, <1>4, <1>5, <1>6, <1>7, <1>8 DEF Image!PictureMapsBack, n, d

-----------------------------------------------------------------------------
(* Boxes and their overlap.                                                 *)

\* A candidate box.
Box == [class : Nat \ {0}, score : Int, x1 : Int, y1 : Int, x2 : Int, y2 : Int]

\* BoxesInImage, for one box.
InPicture(b) ==
  /\ b.x1 >= 0 /\ b.x2 <= w * Image!Scale[1]
  /\ b.y1 >= 0 /\ b.y2 <= h * Image!Scale[1]

\* ToBox brings a box of the image, with the class and score of the prediction.
LEMMA OnPlane ==
  ASSUME PictureTyped, NEW p \in Image!Prediction
  PROVE  /\ Image!ToBox(p) \in Box /\ InPicture(Image!ToBox(p))
         /\ Image!ToBox(p).score = p.score /\ Image!ToBox(p).class = p.class
<1> DEFINE m == w * Image!Scale[1]
           k == h * Image!Scale[1]
           a == Image!Unpad(p.cx - p.w \div 2, Image!PadX, w, InputW)
           b == Image!Unpad(p.cy - p.h \div 2, Image!PadY, h, InputH)
           c == Image!Unpad(p.cx + p.w \div 2, Image!PadX, w, InputW)
           e == Image!Unpad(p.cy + p.h \div 2, Image!PadY, h, InputH)
<1>1. /\ p.class \in Nat \ {0} /\ p.score \in Int /\ p.cx \in Int /\ p.cy \in Int
      /\ p.w \div 2 \in Int /\ p.h \div 2 \in Int
  BY DEF Image!Prediction
<1>2. m \in Int /\ k \in Int
  BY Fits, PictureConstants
<1>3. a \in Int /\ b \in Int /\ c \in Int /\ e \in Int
  BY <1>1, Fits, Padding DEF Image!Unpad
<1> HIDE DEF a, b, c, e, m, k
<1>4. Image!ToBox(p) =
        [class |-> p.class, score |-> p.score, x1 |-> Image!Most(0, a), y1 |-> Image!Most(0, b),
         x2 |-> Image!Least(m, c), y2 |-> Image!Least(k, e)]
  BY DEF Image!ToBox, a, b, c, e, m, k
<1>5. /\ Image!Most(0, a) \in Int /\ Image!Most(0, a) >= 0
      /\ Image!Most(0, b) \in Int /\ Image!Most(0, b) >= 0
      /\ Image!Least(m, c) \in Int /\ Image!Least(m, c) <= m
      /\ Image!Least(k, e) \in Int /\ Image!Least(k, e) <= k
  BY <1>2, <1>3 DEF Image!Most, Image!Least
<1> QED
  BY <1>1, <1>4, <1>5 DEF Box, InPicture, m, k

\* Rect has whole pixels.
LEMMA RectWhole ==
  ASSUME PictureTyped, NEW b \in Box
  PROVE  Image!Rect(b) \in [x1 : Int, y1 : Int, x2 : Int, y2 : Int]
<1>1. ASSUME NEW x \in Int
      PROVE  Image!Trunc(x) \in Int
  BY Fits, DivBounds DEF Image!Trunc
<1>2. ASSUME NEW x \in Int, NEW y \in Int
      PROVE  Image!Least(x, y) \in Int /\ Image!Most(x, y) \in Int
  BY DEF Image!Least, Image!Most
<1>3. b.x1 \in Int /\ b.y1 \in Int /\ b.x2 \in Int /\ b.y2 \in Int
  BY DEF Box
<1>4. /\ Image!Trunc(b.x1) \in Int /\ Image!Trunc(b.y1) \in Int
      /\ Image!Trunc(b.x2) \in Int /\ Image!Trunc(b.y2) \in Int
  BY <1>1, <1>3
<1>5. /\ Image!Least(Image!Trunc(b.x1), Image!Trunc(b.x2)) \in Int
      /\ Image!Least(Image!Trunc(b.y1), Image!Trunc(b.y2)) \in Int
      /\ Image!Most(Image!Trunc(b.x1), Image!Trunc(b.x2)) \in Int
      /\ Image!Most(Image!Trunc(b.y1), Image!Trunc(b.y2)) \in Int
  BY <1>2, <1>4
<1> QED
  BY <1>5 DEF Image!Rect

\* Overlapping is mutual.
LEMMA OverlapSymmetric ==
  ASSUME PictureTyped, NEW b \in Box, NEW c \in Box
  PROVE  Image!Overlap(b, c) <=> Image!Overlap(c, b)
<1> DEFINE r == Image!Rect(b)
           s == Image!Rect(c)
<1>1. {r, s} \subseteq [x1 : Int, y1 : Int, x2 : Int, y2 : Int]
  BY RectWhole
<1> HIDE DEF r, s
<1>2. Image!Intersect(r, s) = Image!Intersect(s, r)
  BY <1>1 DEF Image!Intersect, Image!Least, Image!Most
<1>3. \A q \in [x1 : Int, y1 : Int, x2 : Int, y2 : Int] : Image!Area(q) \in Int
  BY DEF Image!Area
<1>4. LET i == Image!Area(Image!Intersect(r, s))
          j == Image!Area(Image!Intersect(s, r))
      IN  Image!Area(r) + Image!Area(s) - i = Image!Area(s) + Image!Area(r) - j
  <2> DEFINE i == Image!Area(Image!Intersect(r, s))
  <2>1. Image!Intersect(r, s) \in [x1 : Int, y1 : Int, x2 : Int, y2 : Int]
    BY <1>1 DEF Image!Intersect, Image!Least, Image!Most
  <2>2. Image!Area(r) \in Int /\ Image!Area(s) \in Int /\ i \in Int
    BY <1>1, <1>3, <2>1
  <2>3. Image!Area(r) + Image!Area(s) - i = Image!Area(s) + Image!Area(r) - i
    <3> HIDE DEF i
    <3> QED
      BY <2>2
  <2> QED
    BY <1>2, <2>3
<1>5. \A x, y : Image!Overlap(x, y) <=>
        LET inter == Image!Area(Image!Intersect(Image!Rect(x), Image!Rect(y)))
            union == Image!Area(Image!Rect(x)) + Image!Area(Image!Rect(y)) - inter
        IN  inter > 0 /\ inter * NmsDen > NmsNum * union
  BY Zenon DEF Image!Overlap
<1> QED
  BY <1>2, <1>4, <1>5, Zenon DEF r, s

-----------------------------------------------------------------------------
(* The suppression.                                                         *)

\* One step of nms: the box is kept or not.
Keep(former, b) ==
  IF \E i \in DOMAIN former : Image!Overlap(b, former[i]) THEN former ELSE Append(former, b)

\* k is the recursive function of nms, for n candidates.
Kept(sorted, n, k) ==
  k = [i \in 0 .. n |-> IF i = 0 THEN << >> ELSE Keep(k[i - 1], sorted[i])]

\* nms returns the last value of its recursive function.
LEMMA Unfolded ==
  ASSUME NEW sorted, NEW n \in Nat, Len(sorted) = n
  PROVE  Image!nms(sorted) = (CHOOSE k : Kept(sorted, n, k))[n]
BY Zenon DEF Image!nms, Kept, Keep

\* The recursive function exists.
LEMMA KeptExists ==
  ASSUME NEW sorted, NEW n \in Nat
  PROVE  \E k : Kept(sorted, n, k)
<1> DEFINE T == {m \in Nat : \E k : Kept(sorted, m, k)}
<1>1. 0 \in T
  <2> DEFINE k == [i \in 0 .. 0 |-> << >>]
  <2>1. Kept(sorted, 0, k)
    BY DEF Kept
  <2> QED
    BY <2>1
<1>2. ASSUME NEW m \in T
      PROVE  m + 1 \in T
  <2>1. PICK k : Kept(sorted, m, k)
    OBVIOUS
  <2> DEFINE g == [i \in 0 .. m + 1 |-> IF i = m + 1 THEN Keep(k[m], sorted[m + 1]) ELSE k[i]]
  <2>2. \A i \in 0 .. m : k[i] = IF i = 0 THEN << >> ELSE Keep(k[i - 1], sorted[i])
    BY <2>1 DEF Kept
  <2>3. \A i \in 0 .. m + 1 : g[i] = IF i = 0 THEN << >> ELSE Keep(g[i - 1], sorted[i])
    <3>1. g[m + 1] = Keep(g[m], sorted[m + 1]) /\ (m + 1) - 1 = m /\ m + 1 # 0
      OBVIOUS
    <3>2. ASSUME NEW i \in 0 .. m, i # 0
          PROVE  g[i] = Keep(g[i - 1], sorted[i])
      BY <2>2, <3>2
    <3>3. g[0] = << >>
      BY <2>2
    <3>4. \A i \in 0 .. m + 1 : i = 0 \/ (i # 0 /\ i \in 0 .. m) \/ i = m + 1
      OBVIOUS
    <3> HIDE DEF g
    <3> QED
      BY <3>1, <3>2, <3>3, <3>4
  <2>4. g = [i \in 0 .. m + 1 |-> g[i]]
    OBVIOUS
  <2>5. Kept(sorted, m + 1, g)
    <3> DEFINE e == [i \in 0 .. m + 1 |-> IF i = 0 THEN << >> ELSE Keep(g[i - 1], sorted[i])]
    <3>1. \A i \in 0 .. m + 1 : e[i] = g[i]
      BY <2>3, Zenon
    <3>2. e = [i \in 0 .. m + 1 |-> e[i]]
      OBVIOUS
    <3> HIDE DEF e, g
    <3>3. g = e
      BY <2>4, <3>1, <3>2
    <3> QED
      BY <3>3 DEF e, Kept
  <2> QED
    BY <2>5
<1>3. T = Nat
  <2> HIDE DEF T
  <2>1. T \in SUBSET Nat
    BY DEF T
  <2> QED
    BY <1>1, <1>2, <2>1, NatSetInduction
<1> QED
  BY <1>3

\* What holds of the boxes K kept of the first m.
Sound(sorted, m, K) ==
  /\ K \in Seq(Box)
  /\ \A i \in 1 .. Len(K) : \E l \in 1 .. m : K[i] = sorted[l]
  /\ \A i, j \in 1 .. Len(K) : i # j => ~Image!Overlap(K[i], K[j])
  /\ \A l \in 1 .. m : \E i \in 1 .. Len(K) :
       \/ K[i] = sorted[l]
       \/ K[i].score >= sorted[l].score /\ Image!Overlap(sorted[l], K[i])

\* One candidate more.
LEMMA KeepSound ==
  ASSUME PictureTyped, NEW n \in Nat, NEW sorted, NEW m \in Nat, m + 1 <= n,
         \A l \in 1 .. n : sorted[l] \in Box,
         \A l, o \in 1 .. n : l < o => sorted[l].score >= sorted[o].score,
         NEW K, Sound(sorted, m, K)
  PROVE  Sound(sorted, m + 1, Keep(K, sorted[m + 1]))
<1> DEFINE b == sorted[m + 1]
<1>1. /\ K \in Seq(Box) /\ Len(K) \in Nat /\ DOMAIN K = 1 .. Len(K)
      /\ \A i \in 1 .. Len(K) : K[i] \in Box
      /\ \A i \in 1 .. Len(K) : \E l \in 1 .. m : K[i] = sorted[l]
      /\ \A i, j \in 1 .. Len(K) : i # j => ~Image!Overlap(K[i], K[j])
      /\ \A l \in 1 .. m : \E i \in 1 .. Len(K) :
           \/ K[i] = sorted[l]
           \/ K[i].score >= sorted[l].score /\ Image!Overlap(sorted[l], K[i])
  BY DEF Sound
<1>2. b \in Box /\ m + 1 \in 1 .. n /\ \A l \in 1 .. m + 1 : l \in 1 .. m \/ l = m + 1
  OBVIOUS
<1>3. CASE \E i \in DOMAIN K : Image!Overlap(b, K[i])
  <2>1. Keep(K, b) = K
    BY <1>3 DEF Keep
  <2>2. PICK i \in 1 .. Len(K) : Image!Overlap(b, K[i])
    BY <1>1, <1>3
  <2>3. PICK l \in 1 .. m : K[i] = sorted[l]
    BY <1>1
  <2>4. l \in 1 .. n /\ l < m + 1
    OBVIOUS
  <2>5. K[i].score >= b.score
    BY <1>2, <2>3, <2>4
  <2>6. \A a \in 1 .. m : a \in 1 .. m + 1
    OBVIOUS
  <2> HIDE DEF b
  <2>7. \A a \in 1 .. m + 1 : \E c \in 1 .. Len(K) :
          \/ K[c] = sorted[a]
          \/ K[c].score >= sorted[a].score /\ Image!Overlap(sorted[a], K[c])
    BY <1>1, <1>2, <2>2, <2>5 DEF b
  <2>8. \A a \in 1 .. Len(K) : \E c \in 1 .. m + 1 : K[a] = sorted[c]
    BY <1>1, <2>6
  <2>9. Sound(sorted, m + 1, K)
    BY <1>1, <2>7, <2>8 DEF Sound
  <2> QED
    BY <2>1, <2>9 DEF b
<1>4. CASE ~(\E i \in DOMAIN K : Image!Overlap(b, K[i]))
  <2> DEFINE L == Append(K, b)
  <2>1. Keep(K, b) = L
    BY <1>4 DEF Keep
  <2>2. /\ L \in Seq(Box) /\ Len(L) = Len(K) + 1 /\ L[Len(K) + 1] = b
        /\ \A i \in 1 .. Len(K) : L[i] = K[i]
    BY <1>1, <1>2
  <2>3. \A i \in 1 .. Len(L) : i \in 1 .. Len(K) \/ i = Len(K) + 1
    BY <1>1, <2>2
  <2>4. \A i \in 1 .. Len(K) : i \in 1 .. Len(L)
    <3> HIDE DEF L
    <3> QED
      BY <1>1, <2>2
  <2>5. Len(K) + 1 \in 1 .. Len(L) /\ m + 1 \in 1 .. m + 1 /\ \A a \in 1 .. m : a \in 1 .. m + 1
    BY <1>1, <2>2
  <2>6. \A i \in 1 .. Len(K) : ~Image!Overlap(b, K[i]) /\ ~Image!Overlap(K[i], b)
    <3> HIDE DEF b
    <3> QED
      BY <1>1, <1>2, <1>4, OverlapSymmetric
  <2> HIDE DEF L, b
  <2>7. \A i \in 1 .. Len(L) : \E l \in 1 .. m + 1 : L[i] = sorted[l]
    <3>1. b = sorted[m + 1]
      BY DEF b
    <3>2. ASSUME NEW i \in 1 .. Len(K)
          PROVE  \E l \in 1 .. m + 1 : L[i] = sorted[l]
      <4>1. PICK l \in 1 .. m : K[i] = sorted[l]
        BY <1>1
      <4> QED
        BY <2>2, <2>5, <4>1
    <3> QED
      BY <2>2, <2>3, <2>5, <3>1, <3>2
  <2>8. \A i, j \in 1 .. Len(L) : i # j => ~Image!Overlap(L[i], L[j])
    BY <1>1, <2>2, <2>3, <2>6
  <2>9. \A l \in 1 .. m + 1 : \E i \in 1 .. Len(L) :
          \/ L[i] = sorted[l]
          \/ L[i].score >= sorted[l].score /\ Image!Overlap(sorted[l], L[i])
    <3>1. b = sorted[m + 1]
      BY DEF b
    <3>2. ASSUME NEW l \in 1 .. m
          PROVE  \E i \in 1 .. Len(L) :
                   \/ L[i] = sorted[l]
                   \/ L[i].score >= sorted[l].score /\ Image!Overlap(sorted[l], L[i])
      <4>1. PICK i \in 1 .. Len(K) :
              \/ K[i] = sorted[l]
              \/ K[i].score >= sorted[l].score /\ Image!Overlap(sorted[l], K[i])
        BY <1>1
      <4> QED
        BY <2>2, <2>4, <4>1
    <3> QED
      BY <1>2, <2>2, <2>5, <3>1, <3>2
  <2>10. Sound(sorted, m + 1, L)
    BY <2>2, <2>7, <2>8, <2>9 DEF Sound
  <2> QED
    BY <2>1, <2>10 DEF b
<1> QED
  BY <1>3, <1>4

\* What nms returns, whatever the candidates, as long as they come in order.
LEMMA SuppressionRight ==
  ASSUME PictureTyped, NEW n \in Nat, NEW sorted, Len(sorted) = n,
         \A l \in 1 .. n : sorted[l] \in Box,
         \A l, o \in 1 .. n : l < o => sorted[l].score >= sorted[o].score
  PROVE  Sound(sorted, n, Image!nms(sorted))
<1>1. PICK k : Kept(sorted, n, k) /\ Image!nms(sorted) = k[n]
  <2>1. Kept(sorted, n, CHOOSE k : Kept(sorted, n, k))
    BY KeptExists
  <2> QED
    BY <2>1, Unfolded
<1> DEFINE T == {m \in Nat : m <= n => Sound(sorted, m, k[m])}
<1>2. \A i \in 0 .. n : k[i] = IF i = 0 THEN << >> ELSE Keep(k[i - 1], sorted[i])
  BY <1>1 DEF Kept
<1>3. 0 \in T
  <2>1. k[0] = << >>
    BY <1>2
  <2>2. Sound(sorted, 0, << >>)
    BY DEF Sound
  <2> QED
    BY <2>1, <2>2
<1>4. ASSUME NEW m \in T
      PROVE  m + 1 \in T
  <2> SUFFICES ASSUME m + 1 <= n
               PROVE  Sound(sorted, m + 1, k[m + 1])
    OBVIOUS
  <2>1. m \in Nat /\ Sound(sorted, m, k[m])
    OBVIOUS
  <2>2. m + 1 \in 0 .. n /\ m + 1 # 0 /\ (m + 1) - 1 = m
    BY <2>1
  <2>3. k[m + 1] = Keep(k[m], sorted[m + 1])
    BY <1>2, <2>2
  <2>4. Sound(sorted, m + 1, Keep(k[m], sorted[m + 1]))
    BY <2>1, KeepSound
  <2> QED
    BY <2>3, <2>4
<1>5. T = Nat
  <2> HIDE DEF T
  <2>1. T \in SUBSET Nat
    BY DEF T
  <2> QED
    BY <1>3, <1>4, <2>1, NatSetInduction
<1>6. Sound(sorted, n, k[n])
  BY <1>5
<1> QED
  BY <1>1, <1>6

\* Two names of one operator.
LEMMA SameCount ==
  ASSUME NEW S
  PROVE  Image!Cardinality(S) = Cardinality(S)
BY DEF Image!Cardinality, Cardinality

\* The candidates are finitely many predictions.
LEMMA CandidateTyped ==
  ASSUME output \in Seq(Image!Prediction)
  PROVE  /\ Image!Cardinality(Image!Candidates) \in Nat
         /\ \A c \in Image!Candidates : output[c] \in Image!Prediction
<1>1. Image!Candidates \subseteq 1 .. Len(output) /\ Len(output) \in Nat
  BY DEF Image!Candidates
<1>2. IsFiniteSet(1 .. Len(output))
  BY <1>1, FS_Interval
<1>3. Cardinality(Image!Candidates) \in Nat
  BY <1>1, <1>2, FS_Subset, FS_CardinalityType
<1> QED
  BY <1>1, <1>3, SameCount

\* The boxes of an image, in the terms of the properties.
LEMMA ProcessRight ==
  ASSUME PictureTyped, output \in Seq(Image!Prediction), NEW f \in Image!Sorted,
         NEW K, K = Image!nms([n \in DOMAIN f |-> Image!ToBox(output[f[n]])])
  PROVE  /\ \A i \in DOMAIN K :
              InPicture(K[i]) /\ \E c \in Image!Candidates : K[i].class = output[c].class
         /\ \A i, j \in DOMAIN K : i # j => ~Image!Overlap(K[i], K[j])
         /\ \A c \in Image!Candidates : \E i \in DOMAIN K :
              \/ K[i] = Image!ToBox(output[c])
              \/ K[i].score >= output[c].score /\ Image!Overlap(Image!ToBox(output[c]), K[i])
<1> DEFINE N == Image!Cardinality(Image!Candidates)
           sorted == [n \in DOMAIN f |-> Image!ToBox(output[f[n]])]
<1>1. N \in Nat /\ \A c \in Image!Candidates : output[c] \in Image!Prediction
  BY CandidateTyped
<1>2. /\ f \in [1 .. N -> Image!Candidates]
      /\ \A c \in Image!Candidates : \E n \in 1 .. N : f[n] = c
      /\ \A m, n \in 1 .. N : m < n => output[f[m]].score >= output[f[n]].score
  BY DEF Image!Sorted, Image!Bijection, Image!Injection, Image!Surjection
<1> HIDE DEF N
<1>3. \A n \in 1 .. N : /\ f[n] \in Image!Candidates /\ output[f[n]] \in Image!Prediction
                        /\ sorted[n] = Image!ToBox(output[f[n]])
  BY <1>1, <1>2
<1>4. \A n \in 1 .. N : /\ sorted[n] \in Box /\ InPicture(sorted[n])
                        /\ sorted[n].score = output[f[n]].score
                        /\ sorted[n].class = output[f[n]].class
  BY <1>3, OnPlane
<1>5. Len(sorted) = N
  <2>1. DOMAIN sorted = 1 .. N
    BY <1>2
  <2>2. sorted \in [1 .. N -> Box]
    <3>1. sorted = [n \in 1 .. N |-> sorted[n]]
      BY <2>1
    <3> HIDE DEF sorted
    <3> QED
      BY <1>4, <3>1
  <2> HIDE DEF sorted
  <2> QED
    BY <1>1, <2>1, <2>2
<1>6. \A m, n \in 1 .. N : m < n => sorted[m].score >= sorted[n].score
  BY <1>2, <1>4
<1> HIDE DEF sorted
<1>7. Sound(sorted, N, Image!nms(sorted))
  BY <1>1, <1>4, <1>5, <1>6, SuppressionRight
<1>8. Image!nms(sorted) = K
  BY DEF sorted
<1>9. /\ K \in Seq(Box) /\ DOMAIN K = 1 .. Len(K)
      /\ \A i \in 1 .. Len(K) : \E l \in 1 .. N : K[i] = sorted[l]
      /\ \A i, j \in 1 .. Len(K) : i # j => ~Image!Overlap(K[i], K[j])
      /\ \A l \in 1 .. N : \E i \in 1 .. Len(K) :
           \/ K[i] = sorted[l]
           \/ K[i].score >= sorted[l].score /\ Image!Overlap(sorted[l], K[i])
  <2>1. Sound(sorted, N, K)
    BY <1>7, <1>8
  <2>2. \A k \in Seq(Box) : DOMAIN k = 1 .. Len(k)
    OBVIOUS
  <2> QED
    BY <2>1, <2>2, Zenon DEF Sound
<1>10. ASSUME NEW i \in DOMAIN K
       PROVE  InPicture(K[i]) /\ \E c \in Image!Candidates : K[i].class = output[c].class
  <2>1. PICK l \in 1 .. N : K[i] = sorted[l]
    BY <1>9
  <2> QED
    BY <1>3, <1>4, <2>1
<1>11. ASSUME NEW c \in Image!Candidates
       PROVE  \E i \in DOMAIN K :
                \/ K[i] = Image!ToBox(output[c])
                \/ K[i].score >= output[c].score /\ Image!Overlap(Image!ToBox(output[c]), K[i])
  <2>1. PICK l \in 1 .. N : f[l] = c
    BY <1>2
  <2>2. PICK i \in 1 .. Len(K) :
          \/ K[i] = sorted[l]
          \/ K[i].score >= sorted[l].score /\ Image!Overlap(sorted[l], K[i])
    BY <1>9
  <2> QED
    BY <1>3, <1>4, <1>9, <2>1, <2>2
<1> QED
  BY <1>9, <1>10, <1>11

-----------------------------------------------------------------------------
(* The way of an image.                                                     *)

\* The values of step.
Steps == {"image", "filled", "run", "done", "panic"}

\* The picture stays as it was placed; the boxes come with the last step and are right.
ImageInv ==
  part = "image" =>
    /\ PictureTyped /\ step \in Steps /\ output \in Seq(Image!Prediction)
    /\ step # "image" => placed = Image!Letterbox
    /\ step # "done" => found = << >>
    /\ step = "done" => /\ Image!TypeOK /\ Image!BoxesInImage /\ Image!SuppressionSound

\* The float64 slip is at most one.
LEMMA SlipTyped == \A size : Image!MayLose(size) \subseteq {0, 1}
BY DEF Image!MayLose

\* The invariant of an image is inductive.
LEMMA ImageInductive ==
  /\ VisionInit => ImageInv
  /\ ImageInv /\ [VisionNext]_allVars => ImageInv'
<1>1. VisionInit => ImageInv
  <2> SUFFICES ASSUME VisionInit, part = "image"
               PROVE  /\ PictureTyped /\ step \in Steps /\ output \in Seq(Image!Prediction)
                      /\ step = "image" /\ found = << >>
    BY DEF ImageInv
  <2>1. Image!Init
    BY DEF VisionInit
  <2> QED
    BY <2>1, SlipTyped DEF Image!Init, PictureTyped, Steps
<1>2. ASSUME ImageInv, [VisionNext]_allVars
      PROVE  ImageInv'
  <2>1. CASE In("image") /\ Image!Next /\ UNCHANGED frame
    <3>1. part = "image" /\ part' = "image"
      BY <2>1 DEF In
    <3>2. /\ PictureTyped /\ output \in Seq(Image!Prediction)
          /\ step # "image" => placed = Image!Letterbox
          /\ step # "done" => found = << >>
      BY <1>2, <3>1 DEF ImageInv
    <3>3. CASE Image!fillTensorFromImage
      <4>1. /\ step' = "filled" /\ placed' = Image!Letterbox /\ found' = << >>
            /\ w' = w /\ h' = h /\ slip' = slip /\ output' = output
        BY <3>2, <3>3 DEF Image!fillTensorFromImage
      <4>2. Image!Letterbox' = Image!Letterbox
        BY <4>1 DEF Image!Letterbox, Image!PadX, Image!PadY, Image!NewSize, Image!Scale
      <4> QED
        BY <3>2, <4>1, <4>2 DEF ImageInv, PictureTyped, Steps
    <3>4. CASE Image!Run
      <4>1. /\ step' = "run" /\ step = "filled" /\ placed' = placed /\ found' = << >>
            /\ w' = w /\ h' = h /\ slip' = slip /\ output' \in Answers(w, h)
        BY <3>2, <3>4 DEF Image!Run
      <4>2. output' \in Seq(Image!Prediction)
        BY <3>2, <4>1, VisionAssumption DEF Image!BoxesAssumption, PictureTyped
      <4>3. Image!Letterbox' = Image!Letterbox
        BY <4>1 DEF Image!Letterbox, Image!PadX, Image!PadY, Image!NewSize, Image!Scale
      <4> QED
        BY <3>2, <4>1, <4>2, <4>3 DEF ImageInv, PictureTyped, Steps
    <3>5. CASE Image!processYoloOutput
      <4>1. /\ step = "run" /\ w' = w /\ h' = h /\ slip' = slip /\ placed' = placed
            /\ output' = output
        BY <3>5 DEF Image!processYoloOutput
      <4>2. Image!Letterbox' = Image!Letterbox
        BY <4>1 DEF Image!Letterbox, Image!PadX, Image!PadY, Image!NewSize, Image!Scale
      <4>3. CASE step' = "panic" /\ found' = found
        BY <3>2, <4>1, <4>2, <4>3 DEF ImageInv, PictureTyped, Steps
      <4>4. CASE /\ \A i \in Image!Candidates : output[i].class \in DOMAIN Image!yoloClasses
                 /\ step' = "done"
                 /\ \E f \in Image!Sorted :
                      found' = Image!nms([n \in DOMAIN f |-> Image!ToBox(output[f[n]])])
        <5>1. /\ \A i \in DOMAIN found' :
                   /\ InPicture(found'[i])
                   /\ \E c \in Image!Candidates : found'[i].class = output[c].class
              /\ \A i, j \in DOMAIN found' : i # j => ~Image!Overlap(found'[i], found'[j])
              /\ \A c \in Image!Candidates : \E i \in DOMAIN found' :
                   \/ found'[i] = Image!ToBox(output[c])
                   \/ /\ found'[i].score >= output[c].score
                      /\ Image!Overlap(Image!ToBox(output[c]), found'[i])
          BY <3>2, <4>4, ProcessRight
        <5>2. Image!Scale' = Image!Scale /\ Image!Candidates' = Image!Candidates
          BY <4>1 DEF Image!Scale, Image!Candidates
        <5>3. \A p : Image!ToBox(p)' = Image!ToBox(p)
          BY <4>1, <5>2 DEF Image!ToBox, Image!Unpad, Image!PadX, Image!PadY, Image!NewSize
        <5>4. \A b, c : Image!Overlap(b, c)' <=> Image!Overlap(b, c)
          BY <5>2 DEF Image!Overlap, Image!Rect, Image!Trunc
        <5>5. Image!TypeOK'
          BY <3>2, <4>1, <4>4, <5>1 DEF Image!TypeOK, PictureTyped
        <5>6. Image!BoxesInImage'
          BY <4>1, <5>1, <5>2 DEF Image!BoxesInImage, InPicture
        <5>7. Image!SuppressionSound'
          BY <4>1, <5>1, <5>2, <5>3, <5>4 DEF Image!SuppressionSound
        <5> QED
          BY <3>2, <4>1, <4>2, <4>4, <5>5, <5>6, <5>7 DEF ImageInv, PictureTyped, Steps
      <4> QED
        BY <3>5, <4>3, <4>4 DEF Image!processYoloOutput
    <3> QED
      BY <2>1, <3>3, <3>4, <3>5 DEF Image!Next
  <2>2. CASE In("frame")
    BY <2>2 DEF In, ImageInv
  <2>3. CASE UNCHANGED allVars
    <3>1. /\ part' = part /\ w' = w /\ h' = h /\ slip' = slip /\ step' = step
          /\ placed' = placed /\ output' = output /\ found' = found
      BY <2>3 DEF allVars, image
    <3>2. Image!Scale' = Image!Scale /\ Image!Candidates' = Image!Candidates
      BY <3>1 DEF Image!Scale, Image!Candidates
    <3>3. Image!Letterbox' = Image!Letterbox
      BY <3>1 DEF Image!Letterbox, Image!PadX, Image!PadY, Image!NewSize, Image!Scale
    <3>4. \A p : Image!ToBox(p)' = Image!ToBox(p)
      BY <3>1, <3>2 DEF Image!ToBox, Image!Unpad, Image!PadX, Image!PadY, Image!NewSize
    <3>5. \A b, c : Image!Overlap(b, c)' <=> Image!Overlap(b, c)
      BY <3>2 DEF Image!Overlap, Image!Rect, Image!Trunc
    <3>6. Image!TypeOK => Image!TypeOK'
      BY <3>1 DEF Image!TypeOK
    <3>7. Image!BoxesInImage => Image!BoxesInImage'
      BY <3>1, <3>2 DEF Image!BoxesInImage
    <3>8. Image!SuppressionSound => Image!SuppressionSound'
      BY <3>1, <3>2, <3>4, <3>5 DEF Image!SuppressionSound
    <3> QED
      BY <1>2, <3>1, <3>3, <3>6, <3>7, <3>8 DEF ImageInv, PictureTyped, Steps
  <2> QED
    BY <1>2, <2>1, <2>2, <2>3 DEF VisionNext
<1> QED
  BY <1>1, <1>2

\* For every image, input plane and prediction: the padding of Letterbox and the one
\* processYoloOutput computes again agree, and no box leaves its image.
THEOREM PictureAlwaysMapsBack == VisionSpec => []PictureMapsBack
<1>1. ImageInv => PictureMapsBack
  <2> SUFFICES ASSUME ImageInv, part = "image"
               PROVE  Image!PictureMapsBack /\ Image!BoxesInImage
    BY DEF PictureMapsBack
  <2>1. Image!PictureMapsBack
    BY MapsBack DEF ImageInv
  <2>2. Image!BoxesInImage
    BY DEF ImageInv, Image!BoxesInImage
  <2> QED
    BY <2>1, <2>2
<1> QED
  BY <1>1, ImageInductive, PTL DEF VisionSpec

\* For every answer of the model and every order sort.Slice may leave equal scores in: of
\* the boxes returned no two overlap, a confident candidate that is missing overlaps one
\* that is at least as confident, and every box has a label of yoloClasses.
THEOREM SuppressionAlwaysSound == VisionSpec => []SuppressionSound
<1>1. ImageInv => SuppressionSound
  <2> SUFFICES ASSUME ImageInv, part = "image"
               PROVE  Image!TypeOK /\ Image!SuppressionSound
    BY DEF SuppressionSound
  <2>1. Image!TypeOK
    BY DEF ImageInv, Image!TypeOK, PictureTyped, Steps
  <2>2. Image!SuppressionSound
    BY DEF ImageInv, Image!SuppressionSound
  <2> QED
    BY <2>1, <2>2
<1> QED
  BY <1>1, ImageInductive, PTL DEF VisionSpec
=============================================================================
