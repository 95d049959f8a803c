----------------------------- MODULE BorderLine -----------------------------
(***************************************************************************)
(* What img_processing (gl_img_process.cpp) does to the points of a        *)
(* border, frame after frame, with the functions of gl_handle_img.cpp:     *)
(* perspective, filter, samples at equal distances, points off the image   *)
(* dropped, angles and their local maxima, middle of the road.             *)
(*                                                                         *)
(* The lines of the frames run up and down one column, so that a point is  *)
(* its row, in 1/12 pixel.  Angles, maxima and middle lines are computed   *)
(* for lines in the plane, one call at a time.  The arrays keep from one   *)
(* frame to the next what is not overwritten.                              *)
(* A definition X_Y is a wrong form of X, used to show that a property     *)
(* depends on X.                                                           *)
(***************************************************************************)
EXTENDS RoadSides, Sequences

CONSTANTS
  LineLen,    \* PT_MAXLEN: 150
  Dist,       \* RESAMPLEDIST * PIXPERMETER: 2 pixels
  Low, High,  \* the rows of a valid point, 3 and IMAGE_H - 3
  RawBorders, \* what the follower may find, after the perspective tables
  Lines,      \* lines in the plane, as sequences of <<row, column>>
  AngleRows,  \* the angles that are filtered for their maxima
  Approx,     \* ANGLEDIST / RESAMPLEDIST: 10 points
  HalfRoad    \* PIXPERMETER_ACROSS * ROADWIDTH / 2

ASSUME LineAssumption ==
  /\ LineLen \in Nat \ {0} /\ Dist \in Nat \ {0}
  /\ Low \in Int /\ High \in Int
  /\ RawBorders \subseteq Seq(Int) /\ \A b \in RawBorders : Len(b) <= LineLen
  /\ Lines \subseteq Seq(Int \X Int) /\ AngleRows \subseteq Seq(Int)
  /\ Approx \in Nat /\ HalfRoad \in Nat

VARIABLES
  line_stage, \* idle, filter, begin, resample, sampled, processed; or angles, maxima, mid
  pts_inv,    \* the points of the border
  pts_filter, pts_resample, resample_count,
  line_i, x0, \* of the loops over the points
  kept,       \* valid_points_count
  line, angle, mid_left, mid_right,
  angle_in, angle_new   \* of nms_angle: the angles as signed sizes

arrays == <<pts_inv, pts_filter, pts_resample, resample_count, line_i, x0, kept>>
plane == <<line, angle, mid_left, mid_right, angle_in, angle_new>>
lineVars == <<line_stage, arrays, plane>>

Abs(n) == IF n < 0 THEN -n ELSE n

(* An array of LineLen elements, the first of which are overwritten.       *)
Overwritten(array, s) ==
  [k \in 1 .. LineLen |-> IF k <= Len(s) THEN s[k] ELSE array[k]]

-----------------------------------------------------------------------------
(* The points that the follower has found, through InverseMapH and         *)
(* InverseMapW (the tables keep what they map to inside the image).        *)
LineFrame ==
  /\ line_stage = "idle"
  /\ pts_inv' \in RawBorders
  /\ line_stage' = "filter"
  /\ UNCHANGED <<pts_filter, pts_resample, resample_count, line_i, x0, kept, plane>>

(* GetLinesFilter, with the kernel of three that FILTER_KERNELSIZE says.   *)
Neighbour(s, k) == s[clip(k, 1, Len(s))]
Filtered(s, k) == (Neighbour(s, k - 1) + 2 * Neighbour(s, k) + Neighbour(s, k + 1)) \div 4

GetLinesFilter ==
  /\ line_stage = "filter"
  /\ pts_filter' = Overwritten(pts_filter, [k \in DOMAIN pts_inv |-> Filtered(pts_inv, k)])
  /\ line_stage' = "begin"
  /\ UNCHANGED <<pts_inv, pts_resample, resample_count, line_i, x0, kept, plane>>

(* GetLinesResample: the first point is taken over, also of a line that    *)
(* has none (num1 < 0 is what the code tests).                             *)
num1 == Len(pts_inv)

ResampleBegin ==
  /\ line_stage = "begin"
  /\ pts_resample' = [pts_resample EXCEPT ![1] = pts_filter[1]]
  /\ resample_count' = 1
  /\ line_i' = 1
  /\ x0' = pts_filter[1]
  /\ line_stage' = "resample"
  /\ UNCHANGED <<pts_inv, pts_filter, kept, plane>>

(* One pass of the inner loop.  The new point divides the piece from x0 to *)
(* x1 by the distances from the last sample; r0 or r1 is negative when the *)
(* sample does not lie on the piece.                                       *)
x1 == pts_filter[line_i + 1]
dist0 == Abs(x0 - pts_resample[resample_count])
dist1 == Abs(x1 - pts_resample[resample_count])

OnPiece ==
  /\ dist0 # dist1
  /\ \/ dist0 <= Dist /\ Dist <= dist1
     \/ dist1 <= Dist /\ Dist <= dist0
NewPoint_Whole == x0 + (IF x1 > x0 THEN Dist ELSE -Dist)
NewPoint == (x0 * (dist1 - Dist) + x1 * (Dist - dist0)) \div (dist1 - dist0)

Looping == line_stage = "resample" /\ line_i < num1 /\ resample_count < LineLen

ResamplePoint ==
  /\ Looping
  /\ OnPiece
  /\ pts_resample' = [pts_resample EXCEPT ![resample_count + 1] = NewPoint]
  /\ resample_count' = resample_count + 1
  /\ x0' = NewPoint
  /\ UNCHANGED <<line_stage, pts_inv, pts_filter, line_i, kept, plane>>

ResamplePiece ==
  /\ Looping
  /\ ~OnPiece
  /\ line_i' = line_i + 1
  /\ x0' = x1
  /\ UNCHANGED <<line_stage, pts_inv, pts_filter, pts_resample, resample_count, kept, plane>>

ResampleEnd ==
  /\ line_stage = "resample"
  /\ ~Looping
  /\ line_stage' = "sampled"
  /\ line_i' = 1 /\ kept' = 0
  /\ UNCHANGED <<pts_inv, pts_filter, pts_resample, resample_count, x0, plane>>

(* Points near the edge of the image are dropped, the others move up (of   *)
(* the left border; the right one may have points in row High as well).    *)
Valid(y) == Low <= y /\ y < High

KeepPoint ==
  /\ line_stage = "sampled"
  /\ line_i <= resample_count
  /\ line_i' = line_i + 1
  /\ IF Valid(pts_resample[line_i])
       THEN /\ pts_resample' = [pts_resample EXCEPT ![kept + 1] = pts_resample[line_i]]
            /\ kept' = kept + 1
       ELSE UNCHANGED <<pts_resample, kept>>
  /\ UNCHANGED <<line_stage, pts_inv, pts_filter, resample_count, x0, plane>>

KeepEnd ==
  /\ line_stage = "sampled"
  /\ line_i > resample_count
  /\ resample_count' = kept
  /\ line_stage' = "processed"
  /\ UNCHANGED <<pts_inv, pts_filter, pts_resample, line_i, x0, kept, plane>>

(* Of what the arrays keep, only the first filtered point is read again.   *)
Processed ==
  /\ line_stage = "processed"
  /\ pts_filter' = [k \in 1 .. LineLen |-> IF k = 1 THEN pts_filter[1] ELSE 0]
  /\ line_stage' = "idle"
  /\ pts_inv' = <<>> /\ line_i' = 1 /\ x0' = 0 /\ kept' = 0
  /\ pts_resample' = [k \in 1 .. LineLen |-> 0] /\ resample_count' = 0
  /\ UNCHANGED plane

-----------------------------------------------------------------------------
(* local_angle_points: the angle between the chords to the points dist     *)
(* before and behind, as the pair of arguments that atan2f is called with. *)
Chord(s, a, b) ==
  LET p == s[clip(a, 1, Len(s))]  q == s[clip(b, 1, Len(s))]
  IN  <<q[1] - p[1], q[2] - p[2]>>

Between(u, v) == <<u[1] * v[2] - v[1] * u[2], u[1] * v[1] + u[2] * v[2]>>

local_angle_points(s, dist) ==
  [k \in DOMAIN s |-> IF k = 1 \/ k = Len(s) THEN <<0, 0>>
                      ELSE Between(Chord(s, k - dist, k), Chord(s, k, k + dist))]

(* nms_angle: an angle with a larger one in its window becomes 0.          *)
Larger_Signed(a, b) == a > b
Larger(a, b) == Abs(a) > Abs(b)
nms_angle(a, kernel) ==
  LET half == kernel \div 2
  IN  [k \in DOMAIN a |->
         IF \E j \in -half .. half : Larger(a[clip(k + j, 1, Len(a))], a[k]) THEN 0 ELSE a[k]]

(* GetMidLine_Left and _Right, along the normal of the chord around the    *)
(* point.  The lines considered are those whose chords have whole lengths, *)
(* and normals of HalfRoad whole parts.                                    *)
IsLength(c, n) == n > 0 /\ n * n = c[1] * c[1] + c[2] * c[2]
Length(c) == CHOOSE n \in 1 .. Abs(c[1]) + Abs(c[2]) : IsLength(c, n)

Around(s, k) == Chord(s, k - Approx, k + Approx)

ASSUME WholeAssumption ==
  \A s \in Lines : \A k \in DOMAIN s :
    \E n \in 1 .. Abs(Around(s, k)[1]) + Abs(Around(s, k)[2]) :
      /\ IsLength(Around(s, k), n)
      /\ \A a \in {1, 2} : (Around(s, k)[a] * HalfRoad) % n = 0

MidPoint(p, c, sign) ==
  <<p[1] + sign * ((c[2] * HalfRoad) \div Length(c)), p[2] - sign * ((c[1] * HalfRoad) \div Length(c))>>

GetMidLine_Left(s) == [k \in DOMAIN s |-> MidPoint(s[k], Around(s, k), 1)]
GetMidLine_Right(s) == [k \in DOMAIN s |-> MidPoint(s[k], Around(s, k), -1)]

LocalAngles ==
  /\ line_stage = "idle"
  /\ line' \in Lines
  /\ angle' = local_angle_points(line', Approx)
  /\ line_stage' = "angles"
  /\ UNCHANGED <<arrays, mid_left, mid_right, angle_in, angle_new>>

(* The right border of a road as wide as assumed lies beside the left one; *)
(* that of a bent road is taken to be any line.                            *)
StraightLine == \A k \in 2 .. Len(line) - 1 : Chord(line, k - 1, k) = Chord(line, k, k + 1)
RightBorder ==
  IF StraightLine THEN GetMidLine_Left(GetMidLine_Left(line)) ELSE line

MidLines ==
  /\ line_stage = "angles"
  /\ mid_left' = GetMidLine_Left(line)
  /\ mid_right' = GetMidLine_Right(RightBorder)
  /\ line_stage' = "mid"
  /\ UNCHANGED <<arrays, line, angle, angle_in, angle_new>>

Maxima ==
  /\ line_stage = "idle"
  /\ angle_in' \in AngleRows
  /\ angle_new' = nms_angle(angle_in', 2 * Approx + 1)
  /\ line_stage' = "maxima"
  /\ UNCHANGED <<arrays, line, angle, mid_left, mid_right>>

Returned ==
  /\ line_stage \in {"mid", "maxima"}
  /\ line_stage' = "idle"
  /\ line' = <<>> /\ angle' = <<>> /\ mid_left' = <<>> /\ mid_right' = <<>>
  /\ angle_in' = <<>> /\ angle_new' = <<>>
  /\ UNCHANGED arrays

LineInit ==
  /\ line_stage = "idle"
  /\ pts_inv = <<>>
  /\ pts_filter = [k \in 1 .. LineLen |-> 0]
  /\ pts_resample = [k \in 1 .. LineLen |-> 0]
  /\ resample_count = 0
  /\ line_i = 1 /\ x0 = 0 /\ kept = 0
  /\ line = <<>> /\ angle = <<>> /\ mid_left = <<>> /\ mid_right = <<>>
  /\ angle_in = <<>> /\ angle_new = <<>>

Resample == ResamplePoint \/ ResamplePiece \/ ResampleEnd
LineNext ==
  \/ LineFrame \/ GetLinesFilter \/ ResampleBegin \/ Resample \/ KeepPoint \/ KeepEnd \/ Processed
  \/ LocalAngles \/ MidLines \/ Maxima \/ Returned

LineSpec == LineInit /\ [][LineNext]_lineVars

-----------------------------------------------------------------------------
(* The filter pulls no point out of the line: each filtered point lies     *)
(* between the extremes of its neighbourhood, and the points of an evenly  *)
(* spaced piece do not move.                                               *)
FilterSmooths ==
  line_stage = "begin" =>
    \A k \in 2 .. num1 - 1 :
      LET a == pts_inv[k - 1]  b == pts_inv[k]  c == pts_inv[k + 1]
      IN  /\ pts_filter[k] \in {a, b, c} \/ \E u, v \in {a, b, c} : u < pts_filter[k] /\ pts_filter[k] < v
          /\ b - a = c - b => pts_filter[k] = b

(* The samples are never further apart than Dist, wherever the line turns, *)
(* and on a line that does not turn they are exactly Dist apart; they go   *)
(* on as far as there is room in the line and in the array.  No step of    *)
(* the loop divides zero by zero (which would fill the array with NaN).    *)
Straight ==
  \/ \A k \in 1 .. num1 - 1 : pts_filter[k] <= pts_filter[k + 1]
  \/ \A k \in 1 .. num1 - 1 : pts_filter[k] >= pts_filter[k + 1]

Sampling == line_stage = "resample" \/ (line_stage = "sampled" /\ line_i = 1)

SamplesEquidistant ==
  /\ Sampling =>
       \A k \in 1 .. resample_count - 1 :
         LET d == Abs(pts_resample[k + 1] - pts_resample[k])
         IN  d <= Dist /\ (Straight => d = Dist)
  /\ Sampling /\ line_stage = "sampled" /\ num1 > 0 /\ resample_count < LineLen =>
       Abs(pts_filter[num1] - pts_resample[resample_count]) < Dist
  /\ Looping => ~(dist0 = Dist /\ dist1 = Dist)

(* A border that was not found leaves at most one point, an old one: too   *)
(* few for MidLineTrack, which follows three or more.  None of the points  *)
(* that are left lies off the image.                                       *)
LostLineNotTracked ==
  line_stage = "processed" /\ num1 = 0 => resample_count < 3

OnImage ==
  line_stage = "processed" => \A k \in 1 .. resample_count : Valid(pts_resample[k])

(* What img_processing makes of a border found, and of one not found.      *)
LineResampled == FilterSmooths /\ SamplesEquidistant /\ LostLineNotTracked /\ OnImage

(* The angles of a line and of its mirror image differ only in sign, so    *)
(* that one set of thresholds does for both borders; a line without a bend *)
(* has none.                                                               *)
Mirrored(s) == [k \in DOMAIN s |-> <<s[k][1], -s[k][2]>>]

AnglesMirror ==
  line_stage = "angles" =>
    /\ local_angle_points(Mirrored(line), Approx)
         = [k \in DOMAIN line |-> <<-angle[k][1], angle[k][2]>>]
    /\ StraightLine => \A k \in DOMAIN line : angle[k][1] = 0 /\ angle[k][2] >= 0

(* The largest angle of the line survives the suppression, whatever its    *)
(* sign, and of two survivors within one window neither is larger.         *)
MaximaSurvive ==
  line_stage = "maxima" =>
    /\ \A k \in DOMAIN angle_in :
         (\A n \in DOMAIN angle_in : Abs(angle_in[n]) <= Abs(angle_in[k])) => angle_new[k] = angle_in[k]
    /\ \A k, n \in DOMAIN angle_in :
         k - n \in -Approx .. Approx /\ angle_new[k] # 0 /\ angle_new[n] # 0
           => Abs(angle_new[k]) = Abs(angle_new[n])

(* Every point of a middle line lies half the road's width from its point  *)
(* of the border, and both borders of a straight road give the same line.  *)
MidLinesMeet ==
  line_stage = "mid" =>
    /\ \A k \in DOMAIN line :
         LET c == <<mid_left[k][1] - line[k][1], mid_left[k][2] - line[k][2]>>
         IN  c[1] * c[1] + c[2] * c[2] = HalfRoad * HalfRoad
    /\ StraightLine => mid_left = mid_right

(* Left and right borders are treated alike.                               *)
BordersAlike == AnglesMirror /\ MaximaSurvive /\ MidLinesMeet
=============================================================================
