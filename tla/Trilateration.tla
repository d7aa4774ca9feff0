--------------------------- MODULE Trilateration ----------------------------
(***************************************************************************)
(* The geometry of UWBLocalizer.update: from the distances of two tags to  *)
(* two anchors to a position, one cycle after the other, the robot being   *)
(* anywhere in between.                                                    *)
(*                                                                         *)
(* Coordinates are integers, along and across the line from anchor A to    *)
(* anchor B; distances are their squares, which are exact.  A range error  *)
(* is a tag that seems to be where it is not, so the circles always meet;  *)
(* a heading is the vector it is computed from.  forward_offset is 0.      *)
(***************************************************************************)
EXTENDS Integers, FiniteSets

CONSTANTS AnchorDist,   \* _anchor_dist
          TagSep,       \* tag_sep
          Tolerance,    \* SEP_TOLERANCE
          Places        \* where the two tags seem to be: [left, right]

Point == Int \X Int
ASSUME TrilaterationAssumption ==
  /\ AnchorDist \in Nat \ {0}
  /\ Tolerance \in Nat /\ TagSep \in Nat /\ TagSep > Tolerance
  /\ Places \subseteq [left : Point, right : Point]

VARIABLES tags,       \* the place of the last cycle
          position    \* _position, its centre doubled, or NoPosition
vars == <<tags, position>>

NoPosition == [centre |-> <<0, 0>>, lateral |-> <<0, 0>>]

Square(n) == n * n
Distance(p, q) == Square(p[1] - q[1]) + Square(p[2] - q[2])
AnchorA == <<0, 0>>
AnchorB == <<AnchorDist, 0>>

----------------------------------------------------------------------------

\* _trilaterate: P1 is to the left of the way from A to B.
Trilaterate(r1, r2) ==
  LET a == (r1 - r2 + Square(AnchorDist)) \div (2 * AnchorDist)
      h == CHOOSE n \in 0 .. r1 : Square(n) = r1 - Square(a)
  IN <<<<a, h>>, <<a, -h>>>>

Candidates(tag) == Trilaterate(Distance(tag, AnchorA), Distance(tag, AnchorB))

\* |separation - tag_sep| < SEP_TOLERANCE
SeparationFits(lp, rp) ==
  /\ Square(TagSep - Tolerance) < Distance(lp, rp)
  /\ Distance(lp, rp) < Square(TagSep + Tolerance)

\* The four pairs of candidates, in the order of the two loops.
Pairs(t) ==
  LET left == Candidates(t.left)
      right == Candidates(t.right)
  IN <<<<left[1], right[1]>>, <<left[1], right[2]>>,
       <<left[2], right[1]>>, <<left[2], right[2]>>>>

\* valid, as indexes of pairs.
Valid(pairs) == {i \in 1 .. 4 : SeparationFits(pairs[i][1], pairs[i][2])}

Centre(pair) == <<pair[1][1] + pair[2][1], pair[1][2] + pair[2][2]>>
PoseOf(pair) == [centre |-> Centre(pair),
                 lateral |-> <<pair[2][1] - pair[1][1], pair[2][2] - pair[1][2]>>]

First(S) == CHOOSE i \in S : \A j \in S : i <= j

\* Faulty variant: no tiebreak.
SelectFirst(pairs, previous) == First(Valid(pairs))

\* The valid pair nearest to the last position; Python's min returns the
\* first of equals.
SelectValidPair(pairs, previous) ==
  LET ToPrevious(i) == Distance(Centre(pairs[i]), previous.centre)
  IN IF previous = NoPosition
       THEN First(Valid(pairs))
       ELSE First({i \in Valid(pairs) :
                     \A j \in Valid(pairs) : ToPrevious(i) <= ToPrevious(j)})

\* update, with the tags seemingly at t.
Update(t) ==
  /\ tags' = t
  /\ position' = IF Valid(Pairs(t)) = {}
                   THEN position
                   ELSE PoseOf(Pairs(t)[SelectValidPair(Pairs(t), position)])

Init == tags \in Places /\ position = NoPosition
Next == \E t \in Places : Update(t)
Spec == Init /\ [][Next]_vars

----------------------------------------------------------------------------
(* Properties                                                              *)

Mirror(p) == <<p[1], -p[2]>>
Above(t) == t.left[2] > 0 /\ t.right[2] > 0
Below(t) == t.left[2] < 0 /\ t.right[2] < 0
\* Both tags are on one side, so far from the line that the tag on one side
\* and the other's reflection are farther apart than the tags may be.
Clear(t) == /\ Above(t) \/ Below(t)
            /\ Square(t.left[2] + t.right[2]) >= Square(TagSep + Tolerance)

\* The tags and their reflection, the pair above the line and that below.
Upper(t) == IF Above(t) THEN <<t.left, t.right>> ELSE <<Mirror(t.left), Mirror(t.right)>>
Lower(t) == <<Mirror(Upper(t)[1]), Mirror(Upper(t)[2])>>

\* The candidates of a tag are the two points with the distances measured,
\* and the tag is one of them.
CandidatesMatch ==
  \A tag \in {tags.left, tags.right} :
    LET c == Candidates(tag)
    IN /\ tag \in {c[1], c[2]} /\ c[2] = Mirror(c[1])
       /\ \A i \in 1 .. 2 : /\ Distance(c[i], AnchorA) = Distance(tag, AnchorA)
                            /\ Distance(c[i], AnchorB) = Distance(tag, AnchorB)

\* The last fix was on the side the tags are on now; a robot without one
\* counts as above.
OnTheSideOf(t) == Above(t) <=> position.centre[2] >= 0

\* While the robot is clear of the anchors' line a fix on its side of the line
\* is followed by fixes that are the robot itself, however old the first is and
\* whatever was rejected in between: the reflection, which always passes as
\* well, is never taken instead (uwb_localizer.py:175-212).
FixStaysTrue ==
  [][Clear(tags') /\ SeparationFits(tags'.left, tags'.right) /\ OnTheSideOf(tags')
       => position' = PoseOf(<<tags'.left, tags'.right>>)]_vars

----------------------------------------------------------------------------
(* What the documentation says and the code does not do                    *)

\* _select_valid_pair: "If two pairs pass (rare -- occurs near the anchor
\* diagonal)"; UWB.md: "The valid pair is the one where the separation equals
\* W."  Clear of the anchors' line there would be one pair, the robot's.
FixIsTheRobot ==
  [][Clear(tags') /\ SeparationFits(tags'.left, tags'.right)
       => position' = PoseOf(<<tags'.left, tags'.right>>)]_vars
=============================================================================
