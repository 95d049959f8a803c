------------------------------ MODULE Corners ------------------------------
(***************************************************************************)
(* The search for corners in the two borders: get_corners                  *)
(* (gl_get_corners.cpp) and the second half of cross_farline               *)
(* (gl_cross.cpp).  Of the angles at a point, conf, only the class that    *)
(* the thresholds make is kept; a point that the maxima leave at 0 is      *)
(* "none".  The points of one border are indexed from 0.                   *)
(* A definition X_Y is a wrong form of X, used to show that a property     *)
(* depends on X.                                                           *)
(***************************************************************************)
EXTENDS RoadSides, Sequences

CONSTANTS
  CornerEnd,     \* 0.5 / RESAMPLEDIST in float: the points 0 .. 25
  StraightEnd,   \* 0.8 / RESAMPLEDIST in float: the points 0 .. 40
  Borders,       \* sequences of classes: none, flat, bend, corner or sharp
  FarBorders,    \* the same for far lines
  BarrierLines,  \* sequences of [class, x], for the small angles
  Headings,      \* angles of the piece behind a corner, in whole degrees
  Rows, MaxRows, \* rows of far corners; 20
  Width          \* of the image: the mirror image of x is Width - x

(* The classes: up to 6 degrees, 66 (far lines: 40), 140, and more; of the *)
(* small angles, "corner" is 40 to 160 degrees.                            *)
Classes == {"none", "flat", "bend", "corner", "sharp"}
Bent == {"bend", "corner", "sharp"}

ASSUME CornersAssumption ==
  /\ CornerEnd \in Nat /\ StraightEnd \in Nat /\ CornerEnd <= StraightEnd
  /\ Borders \subseteq Seq(Classes) /\ FarBorders \subseteq Seq(Classes)
  /\ BarrierLines \subseteq Seq([class : Classes, x : Int])
  /\ Headings \subseteq Int
  /\ Rows \subseteq Int /\ MaxRows \in Nat /\ Width \in Int

VARIABLES
  call,                \* none, corners, barrier or far: the loops that run
  kinds,               \* the classes of the points of each border
  xs,                  \* for barrier: their columns
  heading,             \* for barrier: angle1 and angle2, of the piece behind the corner
  loop_side, loop_i,
  lpt_found, lpt_id,   \* Lpt0 and Lpt1; far_Lpt0 and far_Lpt1
  is_straight,
  found_in,            \* Lpt0_found_barrier_in, Lpt1_...
  row,                 \* for far: the rows of the corners
  far_len              \* for far: pts_far_resample_left_count, ...right_count

given == <<kinds, xs, heading>>
cornerVars == <<call, given, loop_side, loop_i, lpt_found, lpt_id, is_straight, found_in,
                row, far_len>>

Count(s) == Len(kinds[s])
Kind == kinds[loop_side][loop_i + 1]

-----------------------------------------------------------------------------
(* A call; of a frame with the same picture on both sides, or with one     *)
(* border only.  The angles of the pieces behind the corners are chosen    *)
(* apart: the point five on that they reach to may be one past the border, *)
(* left over from an earlier frame.                                        *)
Given(op, l, r) ==
  /\ call' = op
  /\ kinds' = [left |-> l, right |-> r]
  /\ loop_side' = "left" /\ loop_i' = 0
  /\ lpt_found' = Both(FALSE) /\ lpt_id' = Both(0) /\ found_in' = Both(FALSE)
  /\ is_straight' = [s \in Sides |-> Len(kinds'[s]) >= StraightEnd]
  /\ far_len' = [s \in Sides |-> Len(kinds'[s])]

GetCorners ==
  /\ call = "none"
  /\ \E l \in Borders : \E r \in {l, <<>>} : Given("corners", l, r)
  /\ UNCHANGED <<xs, heading, row>>

GetCornersBarrier ==
  /\ call = "none"
  /\ \E line \in BarrierLines :
       LET k == [n \in DOMAIN line |-> line[n].class]
       IN  /\ Given("barrier", k, k)
           /\ xs' = [left  |-> [n \in DOMAIN line |-> line[n].x],
                     right |-> [n \in DOMAIN line |-> Width - line[n].x]]
  /\ heading' \in [Sides -> Headings]
  /\ UNCHANGED row

FarCorners ==
  /\ call = "none"
  /\ \E l, r \in FarBorders : Given("far", l, r)
  /\ row' \in [Sides -> Rows]
  /\ UNCHANGED <<xs, heading>>

(* The next point, or the other border.                                    *)
Ended(c) ==
  CASE c = "corners" -> "corners end" [] c = "barrier" -> "barrier end" [] c = "far" -> "far end"
Done(s) ==
  IF s = "left" THEN loop_side' = "right" /\ loop_i' = 0 /\ UNCHANGED call
                ELSE call' = Ended(call) /\ UNCHANGED <<loop_side, loop_i>>
GoOn == UNCHANGED <<call, loop_side>> /\ loop_i' = loop_i + 1

(* The loops over angle_new_left and angle_new_right: the search is over   *)
(* when a corner is found and the border is known not to be straight.      *)
CornerHere == ~lpt_found[loop_side] /\ Kind = "corner" /\ loop_i < CornerEnd
Over == lpt_found'[loop_side] /\ ~is_straight'[loop_side]

CornersPoint ==
  /\ call = "corners"
  /\ loop_i < Count(loop_side)
  /\ Kind # "none"
  /\ lpt_found' = [lpt_found EXCEPT ![loop_side] = @ \/ CornerHere]
  /\ lpt_id' = [lpt_id EXCEPT ![loop_side] = IF CornerHere THEN loop_i ELSE @]
  /\ is_straight' = [is_straight EXCEPT ![loop_side] = @ /\ ~(Kind \in Bent /\ loop_i < StraightEnd)]
  /\ IF Over THEN Done(loop_side) ELSE GoOn
  /\ UNCHANGED <<given, found_in, row, far_len>>

SkipPoint ==
  /\ call \in {"corners", "barrier", "far"}
  /\ loop_i < Count(loop_side)
  /\ Kind = "none"
  /\ GoOn
  /\ UNCHANGED <<given, lpt_found, lpt_id, is_straight, found_in, row, far_len>>

(* The loops over the small angles have no break.  The column two points   *)
(* on is looked up, on both sides, with the length of the left border.     *)
TwoOn(s) == xs[s][clip(loop_i + 2, 0, Count("left") - 1) + 1]
LeansIn(s) == IF s = "left" THEN xs[s][loop_i + 1] <= TwoOn(s) ELSE xs[s][loop_i + 1] >= TwoOn(s)

BarrierPoint ==
  /\ call = "barrier"
  /\ loop_i < Count(loop_side)
  /\ Kind # "none"
  /\ LET candidate == ~lpt_found[loop_side] /\ Kind = "corner" /\ loop_i < StraightEnd
     IN /\ lpt_id' = [lpt_id EXCEPT ![loop_side] = IF candidate THEN loop_i ELSE @]
        /\ lpt_found' = [lpt_found EXCEPT ![loop_side] = IF candidate THEN LeansIn(loop_side) ELSE @]
  /\ GoOn
  /\ UNCHANGED <<given, is_straight, found_in, row, far_len>>

FarPoint ==
  /\ call = "far"
  /\ loop_i < Count(loop_side)
  /\ Kind # "none"
  /\ lpt_found' = [lpt_found EXCEPT ![loop_side] = @ \/ CornerHere]
  /\ lpt_id' = [lpt_id EXCEPT ![loop_side] = IF CornerHere THEN loop_i ELSE @]
  /\ GoOn
  /\ UNCHANGED <<given, is_straight, found_in, row, far_len>>

BorderDone ==
  /\ call \in {"corners", "far"}
  /\ loop_i = Count(loop_side)
  /\ Done(loop_side)
  /\ UNCHANGED <<given, lpt_found, lpt_id, is_straight, found_in, row, far_len>>

(* calculate_vector_angle measures from the rightward direction, so that   *)
(* the mirror image of an angle a is 180 - a.  (A piece of no length has   *)
(* no angle, which compares like 90.)  A corner with a piece behind it     *)
(* that leads inwards is one into the barrier.                             *)
LeadsIn_SameTest(s) == heading[s] < 85
LeadsIn(s) == IF s = "left" THEN heading[s] < 85 ELSE heading[s] > 100

BarrierDone ==
  /\ call = "barrier"
  /\ loop_i = Count(loop_side)
  /\ found_in' = [found_in EXCEPT ![loop_side] = lpt_found[loop_side] /\ LeadsIn(loop_side)]
  /\ lpt_found' = [lpt_found EXCEPT ![loop_side] = @ /\ ~LeadsIn(loop_side)]
  /\ Done(loop_side)
  /\ UNCHANGED <<given, lpt_id, is_straight, row, far_len>>

(* Of two far corners in rows too different, the line with the higher one  *)
(* is given up.  The loops behind look for a further corner only where no  *)
(* far one was found, with the same test, and find none.                   *)
HigherSide == IF row["left"] < row["right"] THEN "left" ELSE "right"
Apart == row["left"] - row["right"] \notin -MaxRows .. MaxRows

FarDone ==
  /\ call = "far end"
  /\ call' = "far judged"
  /\ far_len' =
       IF lpt_found["left"] /\ lpt_found["right"] /\ Apart
         THEN [far_len EXCEPT ![HigherSide] = 0] ELSE far_len
  /\ UNCHANGED <<given, loop_side, loop_i, lpt_found, lpt_id, is_straight, found_in, row>>

Return ==
  /\ call \in {"corners end", "barrier end", "far judged"}
  /\ call' = "none"
  /\ kinds' = Both(<<>>) /\ xs' = Both(<<>>)
  /\ heading' = Both(90)
  /\ loop_side' = "left" /\ loop_i' = 0
  /\ lpt_found' = Both(FALSE) /\ lpt_id' = Both(0) /\ is_straight' = Both(FALSE)
  /\ found_in' = Both(FALSE)
  /\ row' = Both(0) /\ far_len' = Both(0)

CornersInit ==
  /\ call = "none"
  /\ kinds = Both(<<>>) /\ xs = Both(<<>>)
  /\ heading = Both(90)
  /\ loop_side = "left" /\ loop_i = 0
  /\ lpt_found = Both(FALSE) /\ lpt_id = Both(0) /\ is_straight = Both(FALSE)
  /\ found_in = Both(FALSE)
  /\ row = Both(0) /\ far_len = Both(0)

CornersNext ==
  \/ GetCorners \/ GetCornersBarrier \/ FarCorners
  \/ CornersPoint \/ SkipPoint \/ BarrierPoint \/ FarPoint
  \/ BorderDone \/ BarrierDone \/ FarDone \/ Return

CornersSpec == CornersInit /\ [][CornersNext]_cornerVars

-----------------------------------------------------------------------------
(* The indices of the corners that a loop without break, without found and *)
(* without count would list.                                               *)
CornersOf(s, end) == {n \in 0 .. Count(s) - 1 : n < end /\ kinds[s][n + 1] = "corner"}

(* The break of the loop misses nothing: the corner found is the first one *)
(* near enough, and a border is straight if it has enough points and none  *)
(* of the near ones bends.  So a border with a corner is never straight.   *)
CornersComplete ==
  (call = "corners end" \/ (call = "corners" /\ loop_side = "right")) =>
    LET l == CornersOf("left", CornerEnd)
    IN  /\ lpt_found["left"] <=> l # {}
        /\ l # {} => /\ lpt_id["left"] \in l /\ \A n \in l : lpt_id["left"] <= n
                     /\ ~is_straight["left"]
        /\ is_straight["left"] <=>
             /\ Count("left") >= StraightEnd
             /\ \A n \in 1 .. StraightEnd : kinds["left"][n] \notin Bent

(* A road that looks the same on both sides has the same corners on both:  *)
(* the code is written twice, with the columns compared the other way      *)
(* round on the right.  Whether a corner leads into the barrier is judged  *)
(* alike too, except between the thresholds, which are not mirror images   *)
(* of each other (100 degrees on the right are 80 on the left): there a    *)
(* corner never leads out on the left, nor in on the right.                *)
BetweenThresholds(a) == 80 <= a /\ a < 85

CornersMirror ==
  (call \in {"corners end", "barrier end"} /\ Count("left") = Count("right")) =>
    /\ \A s \in Sides : ~(lpt_found[s] /\ found_in[s])
    /\ (lpt_found["left"] \/ found_in["left"]) = (lpt_found["right"] \/ found_in["right"])
    /\ lpt_id["left"] = lpt_id["right"]
    /\ is_straight["left"] = is_straight["right"]
    /\ (call = "barrier end" /\ heading["right"] = 180 - heading["left"]) =>
         IF BetweenThresholds(heading["left"])
           THEN ~lpt_found["left"] /\ ~found_in["right"]
           ELSE found_in["left"] = found_in["right"]

(* When the far corners do not fit together one far line is left, that of  *)
(* the corner nearer to the robot.                                         *)
NearFarLineStays ==
  (call = "far judged" /\ lpt_found["left"] /\ lpt_found["right"]) =>
    \A s \in Sides : far_len[s] = 0 => row[s] < row[Other(s)] /\ far_len[Other(s)] > 0

(* The corners that are found are the ones there are.                      *)
CornersFound == CornersComplete /\ CornersMirror /\ NearFarLineStays
=============================================================================
