------------------------------ MODULE Tracking ------------------------------
(***************************************************************************)
(* Which line is followed, and to which point of it: RunCross              *)
(* (gl_cross.cpp), tracking and MidLineTrack (gl_tracking.cpp).  No caller *)
(* of the three exists in the repository yet; a frame is taken to call     *)
(* them in the order of their data.  The numbers of points are kept, the   *)
(* places of the points are not.                                           *)
(* A definition X_Y is a wrong form of X, used to show that a property     *)
(* depends on X.                                                           *)
(***************************************************************************)
EXTENDS RoadSides

CONSTANTS
  PtMaxLen,                \* PT_MAXLEN: 150
  NearCorner,            \* 0.05 / RESAMPLEDIST: the points 0 .. 2
  ShortLine, LongLine,   \* 10 and 100 points, for entering and leaving a crossing
  LeftShort, RightShort, \* 50 and 58 points
  FewPoints,             \* 20
  AimJudge,              \* aim_judge_far / RESAMPLEDIST: 15
  Counts, FarCounts      \* numbers of points of a border and of a far line

ASSUME TrackAssumption ==
  /\ PtMaxLen \in Nat /\ AimJudge \in Nat
  /\ FewPoints \in Nat \ {0}
  /\ {NearCorner, ShortLine, LongLine, LeftShort, RightShort} \subseteq Int
  /\ Counts \subseteq Nat /\ FarCounts \subseteq Nat

VARIABLES
  stage,            \* idle, judged, run, tracked
  cross_type,       \* NONE, BEGIN or IN
  count,            \* pts_resample_left_count, pts_resample_right_count
  mid_count,        \* mid_left_count, mid_right_count
  found, id,        \* the near corners
  far_count, far_found, far_id,
  track_type,
  state_type, aim_distance,
  mid_track_count,
  fresh,            \* points of this frame in the array mid_track
  followed,         \* were there three points or more to follow?
  curved,           \* points given to calculate_curvature, 0 if it was not called
  pure_angle        \* defined, or undefined: 0 / 0

lines == <<count, mid_count, found, id>>
far == <<far_count, far_found, far_id>>
aim == <<state_type, aim_distance, mid_track_count, fresh, followed, curved, pure_angle>>
trackVars == <<stage, cross_type, lines, far, track_type, aim>>

-----------------------------------------------------------------------------
(* img_processing, get_corners and ElementJudge: lines of any length, the  *)
(* corners on them, and perhaps the beginning of a crossing.               *)
Frame ==
  /\ stage = "idle"
  /\ stage' = "judged"
  /\ count' \in [Sides -> Counts]
  /\ mid_count' = count'
  /\ \E l \in -1 .. count'["left"] - 1, r \in -1 .. count'["right"] - 1 :
       LET at == [left |-> l, right |-> r]
       IN  /\ found' = [s \in Sides |-> at[s] >= 0]
           /\ id' = [s \in Sides |-> IF at[s] >= 0 THEN at[s] ELSE 0]
  /\ cross_type' \in IF cross_type = "NONE" /\ (found'["left"] \/ found'["right"])
                       THEN {"NONE", "BEGIN"} ELSE {cross_type}
  /\ mid_track_count' = 0 /\ fresh' = 0 /\ followed' = FALSE /\ curved' = 0
  /\ UNCHANGED <<far, track_type, state_type, aim_distance, pure_angle>>

(* RunCross, in a crossing that begins: the line ends at its corner.       *)
Cut(n, side) == [n EXCEPT ![side] = id[side]]
CornerSide == IF found["left"] THEN "left" ELSE "right"

CrossBegin ==
  /\ stage = "judged"
  /\ cross_type = "BEGIN"
  /\ IF found["left"] \/ found["right"]
       THEN /\ count' = Cut(count, CornerSide)
            /\ mid_count' = Cut(mid_count, CornerSide)
            /\ track_type' = CornerSide
       ELSE UNCHANGED <<count, mid_count, track_type>>
  /\ IF \/ \A s \in Sides : found[s] /\ id[s] < NearCorner
        \/ \A s \in Sides : count'[s] < ShortLine
       THEN cross_type' = "IN" /\ stage' = "judged"
       ELSE UNCHANGED cross_type /\ stage' = "run"
  /\ UNCHANGED <<found, id, far, aim>>

(* cross_farline: the far lines and their corners; of two that do not fit  *)
(* together one line is given up.                                          *)
FarLines ==
  \E n \in [Sides -> FarCounts], at \in [Sides -> FarCounts \cup {-1}] :
    /\ \A s \in Sides : at[s] < n[s]
    /\ far_found' = [s \in Sides |-> at[s] >= 0]
    /\ far_id' = [s \in Sides |-> IF at[s] >= 0 THEN at[s] ELSE 0]
    /\ \/ far_count' = n
       \/ /\ \A s \in Sides : far_found'[s]
          /\ \E s \in Sides : far_count' = [n EXCEPT ![s] = 0]

(* RunCross, inside: late is the end of the hold time.                     *)
CrossIn ==
  /\ stage = "judged"
  /\ cross_type = "IN"
  /\ FarLines
  /\ \E late \in BOOLEAN :
       cross_type' = IF late \/ \E s \in Sides : count[s] > LongLine THEN "NONE" ELSE "IN"
  /\ track_type' = IF far_found'["right"] THEN "right"
                   ELSE IF far_found'["left"] THEN "left" ELSE track_type
  /\ stage' = "run"
  /\ UNCHANGED <<lines, aim>>

NoCross ==
  /\ stage = "judged"
  /\ cross_type = "NONE"
  /\ stage' = "run"
  /\ UNCHANGED <<cross_type, lines, far, track_type, aim>>

(* tracking (is_far_straight0 and is_far_straight1 are never set).         *)
Tracked_LongerOnly(l, r) ==
  IF l < r \div 2 THEN "right" ELSE IF r < l \div 2 THEN "left" ELSE track_type

Tracked(l, r) ==
  IF l < r \div 2 /\ l < LeftShort THEN "right"
  ELSE IF r < l \div 2 /\ r < RightShort THEN "left"
  ELSE IF l < FewPoints /\ r > l THEN "right"
  ELSE IF r < FewPoints /\ l > r THEN "left"
  ELSE track_type

Track ==
  /\ stage = "run"
  /\ stage' = "tracked"
  /\ track_type' = Tracked(count["left"], count["right"])
  /\ found' = Both(FALSE) /\ id' = Both(0) /\ far_found' = Both(FALSE)
  /\ UNCHANGED <<cross_type, count, mid_count, far_count, far_id, aim>>

-----------------------------------------------------------------------------
(* MidLineTrack.                                                           *)
(* The line: in a crossing the far one behind its corner, computed anew.   *)
FollowedCount ==
  IF cross_type = "IN" THEN far_count[track_type] - far_id[track_type] ELSE mid_count[track_type]

FreshCount ==
  IF cross_type # "IN" THEN count[track_type]
  ELSE IF far_count[track_type] > far_id[track_type]
    THEN far_count[track_type] - far_id[track_type] ELSE 0

(* calculate_curvature is called for more than 5 points, uses 0.8 of them, *)
(* and divides by that number less 2.                                      *)
Curved(n) == IF n > 5 THEN n ELSE 0
Used(n) == (4 * n) \div 5

(* state_type, from the angle of the line, and in a crossing.              *)
CrossIsStraight == cross_type \in {"BEGIN", "IN"}

StateType(turn) ==
  IF CrossIsStraight THEN "STRAIGHT"
  ELSE IF ~followed' THEN state_type
  ELSE IF turn THEN "TURN" ELSE "STRAIGHT"

Aim(sharp) ==
  CASE cross_type = "IN" -> "cross_aim"
    [] cross_type # "IN" /\ state_type' = "STRAIGHT" -> "straight_aim"
    [] cross_type # "IN" /\ state_type' = "TURN" -> IF sharp THEN "turn_aim" ELSE "mid_aim"
    [] OTHER -> aim_distance

(* The angle, atanf(dx / dy), to the aim; with one sample the aim is where *)
(* the line starts, and dx = dy = 0.  Outside of a crossing an aim that is *)
(* not ahead (dy > 0) leaves the angle to the last one that was.           *)
NewAngle(one) == IF one THEN "undefined" ELSE "defined"

IsAhead_OrHere(one, ahead) == one \/ ahead
IsAhead(one, ahead) == ~one /\ ahead

Angle(one, ahead) ==
  IF ~followed' THEN pure_angle
  ELSE IF cross_type = "IN" \/ IsAhead(one, ahead) THEN NewAngle(one)
  ELSE "defined"

MidLineTrack ==
  /\ stage = "tracked"
  /\ stage' = "idle"
  /\ mid_track_count' = FollowedCount
  /\ fresh' = FreshCount
  /\ \E begin_id \in 0 .. PtMaxLen, rptsn_num \in {1, PtMaxLen}, ahead, turn, sharp \in BOOLEAN :
       LET n == FollowedCount
       IN  /\ begin_id < n \/ begin_id = 0
           /\ followed' = (n - begin_id >= 3)
           /\ curved' = IF cross_type # "IN" THEN Curved(n)
                        ELSE IF followed' THEN Curved(rptsn_num) ELSE 0
           /\ state_type' = StateType(turn)
           /\ aim_distance' = Aim(sharp)
           /\ pure_angle' = Angle(rptsn_num = 1, ahead)
  /\ count' = Both(0) /\ mid_count' = Both(0)
  /\ far_count' = Both(0) /\ far_id' = Both(0)
  /\ UNCHANGED <<cross_type, track_type, found, id, far_found>>

TrackInit ==
  /\ stage = "idle"
  /\ cross_type = "NONE"
  /\ count = Both(0) /\ mid_count = Both(0) /\ found = Both(FALSE) /\ id = Both(0)
  /\ far_count = Both(0) /\ far_found = Both(FALSE) /\ far_id = Both(0)
  /\ track_type = "right"
  /\ state_type = "COMMON" /\ aim_distance = "none"
  /\ mid_track_count = 0 /\ fresh = 0
  /\ followed = FALSE /\ curved = 0
  /\ pure_angle = "defined"

TrackNext == Frame \/ CrossBegin \/ CrossIn \/ NoCross \/ Track \/ MidLineTrack

TrackSpec == TrackInit /\ [][TrackNext]_trackVars

-----------------------------------------------------------------------------
(* Only points of this frame are followed: not those that an earlier frame *)
(* left in mid_left or mid_right, nor those behind the corner that a line  *)
(* was cut at; and the points that angles are taken from are among them.   *)
FollowsFreshPoints ==
  followed =>
    /\ mid_track_count <= fresh
    /\ 3 * (mid_track_count \div 4) < mid_track_count
    /\ clip(AimJudge, 0, mid_track_count - 1) \in 0 .. mid_track_count - 1

(* The curvature is never divided by zero or by a negative number.         *)
CurvatureDefined == curved > 0 => Used(curved) - 2 > 0

(* Outside of a crossing the robot does not follow a border that it has    *)
(* lost while the other one is seen, however a crossing has cut them.      *)
FollowsWhatIsSeen ==
  (stage = "tracked" /\ cross_type # "IN" /\ \E s \in Sides : count[s] > 0)
    => count[track_type] > 0

(* The robot is steered by what this frame shows.                          *)
SteersByThisFrame == FollowsFreshPoints /\ CurvatureDefined /\ FollowsWhatIsSeen

(* The aim of a crossing is given up with the first frame behind it, even  *)
(* if that frame shows no line: state_type is never left undecided by it.  *)
AimRestored == stage = "idle" /\ cross_type # "IN" => aim_distance # "cross_aim"

(* In a crossing the angle to the only sample is 0 / 0; the first frame    *)
(* behind it with a line to follow makes it a number again.                *)
AngleRecovers ==
  stage = "idle" /\ cross_type # "IN" /\ followed => pure_angle = "defined"

(* A crossing that is over steers no more.                                 *)
CrossingForgotten == AimRestored /\ AngleRecovers
=============================================================================
