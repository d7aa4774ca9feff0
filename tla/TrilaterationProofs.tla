------------------------ MODULE TrilaterationProofs -------------------------
(***************************************************************************)
(* Theorems about Trilateration for all distances, tags and places.        *)
(***************************************************************************)
EXTENDS Trilateration, WellFoundedInduction, TLAPS

Abs(n) == IF n >= 0 THEN n ELSE -n

LEMMA Division == ASSUME NEW k \in Nat \ {0}, NEW x \in Int PROVE (k * x) \div k = x
  OBVIOUS

LEMMA Squares ==
  ASSUME NEW m \in Nat, NEW n \in Nat, Square(m) = Square(n)
  PROVE  m = n
  BY DEF Square

\* The radical axis goes through the tag.
LEMMA Foot ==
  ASSUME NEW x \in Int, NEW y \in Int
  PROVE  Distance(<<x, y>>, AnchorA) - Distance(<<x, y>>, AnchorB) + Square(AnchorDist)
           = (2 * AnchorDist) * x
  BY TrilaterationAssumption DEF Distance, Square, AnchorA, AnchorB

\* The candidates of a tag: itself and its reflection, the upper one first.
LEMMA CandidatesOf ==
  ASSUME NEW tag \in Point
  PROVE  Candidates(tag) = <<<<tag[1], Abs(tag[2])>>, <<tag[1], -Abs(tag[2])>>>>
<1> DEFINE x == tag[1]
           y == tag[2]
           r1 == Distance(tag, AnchorA)
           r2 == Distance(tag, AnchorB)
           a == (r1 - r2 + Square(AnchorDist)) \div (2 * AnchorDist)
<1>1. x \in Int /\ y \in Int /\ tag = <<x, y>>
  BY DEF Point
<1>2. a = x
  <2>1. r1 - r2 + Square(AnchorDist) = (2 * AnchorDist) * x
    BY <1>1, Foot
  <2>2. 2 * AnchorDist \in Nat \ {0}
    BY TrilaterationAssumption
  <2> QED
    BY <1>1, <2>1, <2>2, Division
<1>3. r1 = Square(x) + Square(y) /\ r1 \in Nat
  BY <1>1 DEF Distance, Square, AnchorA
<1>4. (CHOOSE n \in 0 .. r1 : Square(n) = r1 - Square(a)) = Abs(y)
  <2>1. Abs(y) \in 0 .. r1 /\ Square(Abs(y)) = r1 - Square(a)
    BY <1>1, <1>2, <1>3 DEF Abs, Square
  <2>2. ASSUME NEW n \in 0 .. r1, Square(n) = r1 - Square(a)
        PROVE  n = Abs(y)
    <3>1. n \in Nat /\ Abs(y) \in Nat
      BY <1>1, <1>3 DEF Abs
    <3> QED
      BY <2>1, <2>2, <3>1, Squares
  <2> HIDE DEF a, r1
  <2> QED
    BY <2>1, <2>2
<1>5. Candidates(tag) = <<<<a, CHOOSE n \in 0 .. r1 : Square(n) = r1 - Square(a)>>,
                          <<a, -(CHOOSE n \in 0 .. r1 : Square(n) = r1 - Square(a))>>>>
  BY DEF Candidates, Trilaterate
<1> HIDE DEF a, r1
<1> QED
  BY <1>2, <1>4, <1>5

\* A reflected pair is as far apart as the pair.
LEMMA Reflected ==
  ASSUME NEW p \in Point, NEW q \in Point
  PROVE  /\ Mirror(p) \in Point
         /\ Mirror(Mirror(p)) = p
         /\ Distance(Mirror(p), Mirror(q)) = Distance(p, q)
         /\ Distance(Mirror(p), q) = Distance(p, Mirror(q))
  BY DEF Point, Mirror, Distance, Square

\* The two sides of a robot that is clear of the line: the first pair is the
\* upper, the fourth the lower, and no tag fits a reflection of the other.
LEMMA ClearPairs ==
  ASSUME NEW t \in Places, Clear(t)
  PROVE  /\ Pairs(t)[1] = Upper(t) /\ Pairs(t)[4] = Lower(t)
         /\ ~SeparationFits(Pairs(t)[2][1], Pairs(t)[2][2])
         /\ ~SeparationFits(Pairs(t)[3][1], Pairs(t)[3][2])
<1> DEFINE l == t.left
           r == t.right
           up(p) == <<p[1], Abs(p[2])>>
           down(p) == <<p[1], -Abs(p[2])>>
<1>1. l \in Point /\ r \in Point
  BY TrilaterationAssumption
<1>2. /\ Pairs(t)[1] = <<up(l), up(r)>> /\ Pairs(t)[2] = <<up(l), down(r)>>
      /\ Pairs(t)[3] = <<down(l), up(r)>> /\ Pairs(t)[4] = <<down(l), down(r)>>
  BY <1>1, CandidatesOf DEF Pairs
<1>3. Upper(t) = <<up(l), up(r)>> /\ Lower(t) = <<down(l), down(r)>>
  <2>1. CASE Above(t)
    BY <1>1, <2>1 DEF Above, Upper, Lower, Mirror, Abs, Point
  <2>2. CASE Below(t)
    BY <1>1, <2>2 DEF Above, Below, Upper, Lower, Mirror, Abs, Point
  <2> QED
    BY <2>1, <2>2 DEF Clear
<1>4. Square(Abs(l[2]) + Abs(r[2])) = Square(l[2] + r[2])
  <2>1. CASE Above(t)
    BY <1>1, <2>1 DEF Above, Abs, Point
  <2>2. CASE Below(t)
    <3>1. Abs(l[2]) + Abs(r[2]) = -(l[2] + r[2])
      BY <1>1, <2>2 DEF Below, Abs, Point
    <3> QED
      BY <1>1, <3>1 DEF Square, Point
  <2> QED
    BY <2>1, <2>2 DEF Clear
<1>5. /\ Distance(up(l), down(r)) >= Square(Abs(l[2]) + Abs(r[2]))
      /\ Distance(down(l), up(r)) >= Square(Abs(l[2]) + Abs(r[2]))
  <2>1. /\ l[1] \in Int /\ r[1] \in Int
        /\ Abs(l[2]) \in Int /\ Abs(r[2]) \in Int
    BY <1>1 DEF Abs, Point
  <2>2. \A a, b, c, d \in Int :
          /\ Square(a - b) + Square(c - (-d)) >= Square(c + d)
          /\ Square(a - b) + Square((-c) - d) >= Square(c + d)
    BY DEF Square
  <2> QED
    BY <2>1, <2>2 DEF Distance
<1>6. Square(l[2] + r[2]) >= Square(TagSep + Tolerance)
  BY DEF Clear
<1>7. /\ Square(TagSep + Tolerance) \in Int /\ Square(l[2] + r[2]) \in Int
      /\ Distance(up(l), down(r)) \in Int /\ Distance(down(l), up(r)) \in Int
  BY <1>1, TrilaterationAssumption DEF Square, Point, Distance, Abs
<1>8. ~SeparationFits(up(l), down(r)) /\ ~SeparationFits(down(l), up(r))
  <2> HIDE DEF up, down
  <2> QED
    BY <1>4, <1>5, <1>6, <1>7 DEF SeparationFits
<1> QED
  BY <1>2, <1>3, <1>8

\* What that leaves of the four pairs: none, or exactly the two.
LEMMA ClearValid ==
  ASSUME NEW t \in Places, Clear(t), SeparationFits(t.left, t.right)
  PROVE  Valid(Pairs(t)) = {1, 4}
<1>1. t.left \in Point /\ t.right \in Point
  BY TrilaterationAssumption
<1>2. SeparationFits(Upper(t)[1], Upper(t)[2]) /\ SeparationFits(Lower(t)[1], Lower(t)[2])
  <2>1. SeparationFits(Mirror(t.left), Mirror(t.right))
    BY <1>1, Reflected DEF SeparationFits
  <2>2. CASE Above(t)
    BY <2>1, <2>2 DEF Upper, Lower
  <2>3. CASE ~Above(t)
    BY <1>1, <2>1, <2>3, Reflected DEF Upper, Lower
  <2> QED
    BY <2>2, <2>3
<1> QED
  BY <1>2, ClearPairs DEF Valid

LEMMA Signs ==
  ASSUME NEW m \in Int, m > 0, NEW n \in Int
  PROVE  m * n \in Int /\ (n < 0 => m * n < 0) /\ (n >= 0 => m * n >= 0)
  OBVIOUS

\* Of a centre above the line and its reflection, the nearer to c is the one
\* on c's side.
LEMMA Nearer ==
  ASSUME NEW x \in Int, NEW y \in Int, y > 0, NEW c \in Point
  PROVE  /\ c[2] < 0 => Distance(<<x, -y>>, c) < Distance(<<x, y>>, c)
         /\ c[2] >= 0 => Distance(<<x, y>>, c) <= Distance(<<x, -y>>, c)
<1>1. c[1] \in Int /\ c[2] \in Int
  BY DEF Point
<1>2. Distance(<<x, y>>, c) - Distance(<<x, -y>>, c) = -(4 * (y * c[2]))
  <2>1. \A k, m, n \in Int :
          (k + (m - n) * (m - n)) - (k + ((-m) - n) * ((-m) - n)) = -(4 * (m * n))
    OBVIOUS
  <2>2. (x - c[1]) * (x - c[1]) \in Int
    BY <1>1
  <2> QED
    BY <1>1, <2>1, <2>2 DEF Distance, Square
<1>3. /\ y * c[2] \in Int
      /\ c[2] < 0 => y * c[2] < 0
      /\ c[2] >= 0 => y * c[2] >= 0
  BY <1>1, Signs
<1>4. Distance(<<x, y>>, c) \in Int /\ Distance(<<x, -y>>, c) \in Int
  BY <1>1 DEF Distance, Square
<1> QED
  BY <1>2, <1>3, <1>4

LEMMA Firsts == First({1}) = 1 /\ First({4}) = 4 /\ First({1, 4}) = 1
  BY DEF First

\* What a fix is computed from stays a pair of points.
IInv == tags \in Places /\ position.centre \in Point

LEMMA CentresAre ==
  ASSUME NEW t \in Places, Clear(t)
  PROVE  \E x, y \in Int : /\ y > 0
                           /\ Centre(Upper(t)) = <<x, y>>
                           /\ Centre(Lower(t)) = <<x, -y>>
<1>1. t.left \in Point /\ t.right \in Point
  BY TrilaterationAssumption
<1>2. CASE Above(t)
  <2>1. t.left[1] + t.right[1] \in Int /\ t.left[2] + t.right[2] \in Int
    BY <1>1 DEF Point
  <2>2. t.left[2] + t.right[2] > 0
    BY <1>1, <1>2 DEF Above, Point
  <2>3. /\ Centre(Upper(t)) = <<t.left[1] + t.right[1], t.left[2] + t.right[2]>>
        /\ Centre(Lower(t)) = <<t.left[1] + t.right[1], -(t.left[2] + t.right[2])>>
    BY <1>1, <1>2 DEF Upper, Lower, Centre, Mirror, Point
  <2> QED
    BY <2>1, <2>2, <2>3
<1>3. CASE Below(t)
  <2>1. /\ t.left[1] + t.right[1] \in Int
        /\ -(t.left[2] + t.right[2]) \in Int /\ -(t.left[2] + t.right[2]) > 0
    BY <1>1, <1>3 DEF Below, Point
  <2>2. ~Above(t)
    BY <1>1, <1>3 DEF Above, Below, Point
  <2>3. /\ Centre(Upper(t)) = <<t.left[1] + t.right[1], -(t.left[2] + t.right[2])>>
        /\ Centre(Lower(t)) = <<t.left[1] + t.right[1], -(-(t.left[2] + t.right[2]))>>
    BY <1>1, <2>2 DEF Upper, Lower, Centre, Mirror, Point
  <2> QED
    BY <2>1, <2>3
<1> QED
  BY <1>2, <1>3 DEF Clear

LEMMA Selected ==
  ASSUME NEW t \in Places, Clear(t), SeparationFits(t.left, t.right), IInv
  PROVE  Pairs(t)[SelectValidPair(Pairs(t), position)]
           = IF position.centre[2] < 0 THEN Lower(t) ELSE Upper(t)
<1>1. Valid(Pairs(t)) = {1, 4} /\ Pairs(t)[1] = Upper(t) /\ Pairs(t)[4] = Lower(t)
  BY ClearPairs, ClearValid
<1>2. CASE position = NoPosition
  BY <1>1, <1>2, Firsts DEF SelectValidPair, NoPosition
<1>3. CASE position # NoPosition
  <2> DEFINE c == position.centre
             to(i) == Distance(Centre(Pairs(t)[i]), c)
             nearest == {i \in {1, 4} : \A j \in {1, 4} : to(i) <= to(j)}
  <2>1. SelectValidPair(Pairs(t), position) = First(nearest)
    BY <1>1, <1>3 DEF SelectValidPair
  <2>2. c \in Point /\ c[2] \in Int
    BY DEF IInv, Point
  <2>3. PICK x, y \in Int : y > 0 /\ Centre(Upper(t)) = <<x, y>> /\ Centre(Lower(t)) = <<x, -y>>
    BY CentresAre
  <2>4. /\ c[2] < 0 => to(4) < to(1)
        /\ c[2] >= 0 => to(1) <= to(4)
    BY <1>1, <2>2, <2>3, Nearer
  <2>5. to(1) \in Int /\ to(4) \in Int
    BY <1>1, <2>2, <2>3 DEF Distance, Square, Point
  <2> HIDE DEF c, to
  <2>6. CASE c[2] < 0
    <3>1. nearest = {4}
      BY <2>4, <2>5, <2>6
    <3> QED
      BY <1>1, <2>1, <2>6, <3>1, Firsts DEF c
  <2>7. CASE c[2] >= 0
    <3>1. nearest = {1} \/ nearest = {1, 4}
      BY <2>4, <2>5, <2>7
    <3> QED
      BY <1>1, <2>1, <2>2, <2>7, <3>1, Firsts DEF c
  <2> QED
    BY <2>2, <2>6, <2>7
<1> QED
  BY <1>2, <1>3

LEMMA Least ==
  ASSUME NEW S \in SUBSET Nat, S # {}
  PROVE  \E m \in S : \A n \in S : m <= n
<1>1. \E m \in S : \A n \in S : ~(<<n, m>> \in OpToRel(<, Nat))
  BY WFMin, NatLessThanWellFounded
<1>2. \A m, n \in Nat : ~(<<n, m>> \in OpToRel(<, Nat)) => m <= n
  BY DEF OpToRel
<1> QED
  BY <1>1, <1>2

LEMMA PointFacts ==
  ASSUME NEW p \in Point, NEW q \in Point
  PROVE  /\ p = <<p[1], p[2]>>
         /\ Distance(p, q) \in Nat
         /\ Centre(<<p, q>>) \in Point
<1>1. p[1] \in Int /\ p[2] \in Int /\ q[1] \in Int /\ q[2] \in Int
  BY DEF Point
<1>2. \A n \in Int : Square(n) \in Nat
  BY DEF Square
<1>3. Distance(p, q) \in Nat
  BY <1>1, <1>2 DEF Distance
<1> QED
  BY <1>1, <1>3 DEF Centre, Point

\* Every pose is one of two points.
LEMMA PosesAreOfPoints ==
  ASSUME NEW t \in Places, Valid(Pairs(t)) # {}, IInv
  PROVE  PoseOf(Pairs(t)[SelectValidPair(Pairs(t), position)]).centre \in Point
<1> DEFINE i == SelectValidPair(Pairs(t), position)
<1>1. \A n \in 1 .. 4 : Centre(Pairs(t)[n]) \in Point
  <2>1. /\ Candidates(t.left)[1] \in Point /\ Candidates(t.left)[2] \in Point
        /\ Candidates(t.right)[1] \in Point /\ Candidates(t.right)[2] \in Point
    <3>1. \A p \in Point : <<p[1], Abs(p[2])>> \in Point /\ <<p[1], -Abs(p[2])>> \in Point
      BY DEF Abs, Point
    <3>2. t.left \in Point /\ t.right \in Point
      BY TrilaterationAssumption
    <3>3. \A p \in Point : /\ Candidates(p)[1] = <<p[1], Abs(p[2])>>
                           /\ Candidates(p)[2] = <<p[1], -Abs(p[2])>>
      BY CandidatesOf
    <3> QED
      BY <3>1, <3>2, <3>3
  <2> QED
    BY <2>1, PointFacts DEF Pairs
<1>2. i \in 1 .. 4
  <2> DEFINE V == Valid(Pairs(t))
             to(n) == Distance(Centre(Pairs(t)[n]), position.centre)
             N == {n \in V : \A m \in V : to(n) <= to(m)}
  <2>1. V \in SUBSET (1 .. 4) /\ V # {}
    BY DEF Valid
  <2>2. \A S \in SUBSET (1 .. 4) : S # {} => First(S) \in 1 .. 4
    <3>1. \A S \in SUBSET (1 .. 4) : S # {} => \E n \in S : \A m \in S : n <= m
      BY Least
    <3> QED
      BY <3>1 DEF First
  <2>3. \A n \in 1 .. 4 : to(n) \in Nat
    BY <1>1, PointFacts DEF IInv
  <2>4. N # {}
    <3>1. {to(n) : n \in V} \in SUBSET Nat /\ {to(n) : n \in V} # {}
      BY <2>1, <2>3
    <3>2. PICK x \in {to(n) : n \in V} : \A y \in {to(n) : n \in V} : x <= y
      BY <3>1, Least
    <3> QED
      BY <3>2
  <2>5. N \in SUBSET (1 .. 4)
    BY <2>1
  <2>6. i = First(V) \/ i = First(N)
    BY DEF SelectValidPair
  <2> QED
    BY <2>1, <2>2, <2>4, <2>5, <2>6
<1> HIDE DEF i
<1>3. PoseOf(Pairs(t)[i]).centre = Centre(Pairs(t)[i])
  BY DEF PoseOf
<1> QED
  BY <1>1, <1>2, <1>3 DEF i

THEOREM Inductive == Spec => []IInv
<1>1. Init => IInv
  BY DEF Init, IInv, NoPosition, Point
<1>2. IInv /\ [Next]_vars => IInv'
  <2> SUFFICES ASSUME IInv, [Next]_vars PROVE IInv'
    OBVIOUS
  <2>1. ASSUME NEW t \in Places, Update(t) PROVE IInv'
    BY <2>1, PosesAreOfPoints DEF Update, IInv
  <2>2. CASE UNCHANGED vars
    BY <2>2 DEF vars, IInv
  <2> QED
    BY <2>1, <2>2 DEF Next
<1> QED
  BY <1>1, <1>2, PTL DEF Spec

\* The candidates of a tag are itself and its reflection in the anchors' line:
\* update can never tell one side from the other by the distances
\* (uwb_localizer.py:130-173).
THEOREM CandidatesInvariance == Spec => []CandidatesMatch
<1>1. IInv => CandidatesMatch
  <2> SUFFICES ASSUME IInv, NEW tag \in {tags.left, tags.right}
               PROVE  LET c == Candidates(tag)
                      IN /\ tag \in {c[1], c[2]} /\ c[2] = Mirror(c[1])
                         /\ \A i \in 1 .. 2 : /\ Distance(c[i], AnchorA) = Distance(tag, AnchorA)
                                              /\ Distance(c[i], AnchorB) = Distance(tag, AnchorB)
    BY DEF CandidatesMatch
  <2>1. tag \in Point
    BY TrilaterationAssumption DEF IInv
  <2>2. \/ Candidates(tag) = <<tag, Mirror(tag)>>
        \/ Candidates(tag) = <<Mirror(tag), tag>>
    <3>1. tag = <<tag[1], tag[2]>> /\ tag[2] \in Int
      BY <2>1, PointFacts DEF Point
    <3>2. CASE tag[2] >= 0
      BY <2>1, <3>1, <3>2, CandidatesOf DEF Mirror, Abs
    <3>3. CASE tag[2] < 0
      <4>1. Abs(tag[2]) = -tag[2] /\ -Abs(tag[2]) = tag[2]
        BY <3>1, <3>3 DEF Abs
      <4> QED
        BY <2>1, <3>1, <4>1, CandidatesOf DEF Mirror
    <3> QED
      BY <3>1, <3>2, <3>3
  <2>3. Mirror(Mirror(tag)) = tag
    BY <2>1, Reflected
  <2>4. /\ Distance(Mirror(tag), AnchorA) = Distance(tag, AnchorA)
        /\ Distance(Mirror(tag), AnchorB) = Distance(tag, AnchorB)
    <3>1. \A y \in Int : Square((-y) - 0) = Square(y - 0)
      BY DEF Square
    <3> QED
      BY <2>1, <3>1 DEF Distance, Mirror, AnchorA, AnchorB, Point
  <2> QED
    BY <2>2, <2>3, <2>4
<1> QED
  BY <1>1, Inductive, PTL

\* Whatever the anchors' distance, the tags' separation and the places: a fix
\* of a robot clear of the anchors' line, after one on the robot's side, is the
\* robot itself (uwb_localizer.py:175-212).
THEOREM SideIsKept == Spec => FixStaysTrue
<1> DEFINE Kept == Clear(tags') /\ SeparationFits(tags'.left, tags'.right) /\ OnTheSideOf(tags')
                     => position' = PoseOf(<<tags'.left, tags'.right>>)
<1>1. ASSUME IInv, NEW t \in Places, Update(t), Clear(t),
             SeparationFits(t.left, t.right), OnTheSideOf(t)
      PROVE  position' = PoseOf(<<t.left, t.right>>)
  <2>1. position' = PoseOf(Pairs(t)[SelectValidPair(Pairs(t), position)])
    <3>1. Valid(Pairs(t)) # {}
      BY <1>1, ClearValid
    <3> QED
      BY <1>1, <3>1 DEF Update
  <2>2. position' = PoseOf(IF position.centre[2] < 0 THEN Lower(t) ELSE Upper(t))
    BY <1>1, <2>1, Selected
  <2>3. t.left \in Point /\ t.right \in Point /\ position.centre[2] \in Int
    BY <1>1, TrilaterationAssumption DEF IInv, Point
  <2>4. CASE Above(t)
    <3>1. ~(position.centre[2] < 0) /\ Upper(t) = <<t.left, t.right>>
      BY <1>1, <2>3, <2>4 DEF OnTheSideOf, Upper
    <3> QED
      BY <2>2, <3>1
  <2>5. CASE ~Above(t)
    <3>1. position.centre[2] < 0
      BY <1>1, <2>3, <2>5 DEF OnTheSideOf
    <3>2. Lower(t) = <<t.left, t.right>>
      BY <2>3, <2>5, Reflected DEF Lower, Upper
    <3> QED
      BY <2>2, <3>1, <3>2
  <2> QED
    BY <2>4, <2>5
<1>2. IInv /\ [Next]_vars => [Kept]_vars
  <2>1. ASSUME NEW t \in Places, Update(t) PROVE tags' = t
    BY <2>1 DEF Update
  <2> QED
    BY <1>1, <2>1 DEF Next, OnTheSideOf
<1> QED
  BY <1>2, Inductive, PTL DEF Spec, FixStaysTrue
=============================================================================
