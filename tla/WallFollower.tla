---------------------------- MODULE WallFollower ----------------------------
(***************************************************************************)
(* How a border of the road is followed through the gray image             *)
(* (SearchLineAdaptive_Left and _Right of gl_handle_img.cpp), from the     *)
(* point that img_processing (gl_img_process.cpp) and cross_farline        *)
(* (gl_cross.cpp) search in a row.  The window is 3 x 3, as                *)
(* SELFADAPT_KERNELSIZE says.                                              *)
(* A definition X_Y is a wrong form of X, used to show that a property     *)
(* depends on X.                                                           *)
(***************************************************************************)
EXTENDS Integers, Sequences

CONSTANTS
  ImageH, ImageW,    \* 240 and 320
  BeginW,            \* 20: the rows are searched from this far behind the middle
  BeginRows,         \* 140, 230 and 100
  Threshold,         \* FIX_BINTHRESHOLD: 140
  Offset,            \* SELFADAPT_OFFSET: 4
  MaxLen,            \* PT_MAXLEN: 150, the length of the arrays
  Dark, Bright,      \* gray values beside and on a clear road
  Images             \* what the camera may show

ASSUME WallAssumption ==
  /\ ImageH \in Nat \ {0} /\ ImageW \in Nat \ {0}
  /\ BeginW \in Nat
  /\ ImageW \div 2 - BeginW >= 0 /\ ImageW \div 2 + BeginW < ImageW
  /\ BeginRows \subseteq 0 .. ImageH - 1
  /\ Threshold \in Nat /\ Offset \in Nat /\ MaxLen \in Nat
  /\ Dark \in Nat /\ Bright \in Nat
  /\ Images \subseteq [0 .. ImageH - 1 -> [0 .. ImageW - 1 -> Nat]]

(* What makes an image clear: the window of a bright pixel tells a dark    *)
(* neighbour from a bright one, and so does the search in the row.         *)
Clear ==
  /\ Dark + 9 * (Offset + 1) <= Bright
  /\ Dark < Threshold /\ Threshold <= Bright

VARIABLES
  img,
  side,       \* "left": SearchLineAdaptive_Left runs, or it will
  at,         \* h and w
  dir, turn,
  pts,        \* the points found so far; step is their number
  phase       \* idle, scan, follow or done

wallVars == <<img, side, at, dir, turn, pts, phase>>

-----------------------------------------------------------------------------
(* The tables of the directions, as <<dw, dh>>, for dir = 0 .. 3.          *)
direction_front      == <<<<0, -1>>, <<1, 0>>, <<0, 1>>, <<-1, 0>>>>
direction_frontleft  == <<<<-1, -1>>, <<1, -1>>, <<1, 1>>, <<-1, 1>>>>
direction_frontright == <<<<1, -1>>, <<1, 1>>, <<-1, 1>>, <<-1, -1>>>>

Plus(p, d) == [h |-> p.h + d[2], w |-> p.w + d[1]]
Pixel(p) == img[p.h][p.w]

Front == Plus(at, direction_front[dir + 1])
FrontSide ==
  Plus(at, IF side = "left" THEN direction_frontleft[dir + 1]
                            ELSE direction_frontright[dir + 1])

(* A turn towards the border that is followed, and one away from it.       *)
Towards == IF side = "left" THEN (dir + 3) % 4 ELSE (dir + 1) % 4
Away == IF side = "left" THEN (dir + 1) % 4 ELSE (dir + 3) % 4

(* local_thres: the mean of the window, less Offset.                       *)
Row(h, w) == img[h][w - 1] + img[h][w] + img[h][w + 1]
LocalThres ==
  (Row(at.h - 1, at.w) + Row(at.h, at.w) + Row(at.h + 1, at.w)) \div 9 - Offset

IsWall(p) == Pixel(p) < LocalThres

(* The two functions do not stop equally far from the edge of the image.   *)
Margin == IF side = "left" THEN 1 ELSE 0
Inside(p) ==
  /\ Margin < p.w /\ p.w < ImageW - Margin - 1
  /\ Margin < p.h /\ p.h < ImageH - Margin - 1

GoesOn == phase = "follow" /\ Len(pts) < MaxLen /\ Inside(at) /\ turn < 4

-----------------------------------------------------------------------------
(* The search in a row, one pixel at a time.                               *)
Start ==
  /\ phase = "idle"
  /\ img' \in Images
  /\ side' \in {"left", "right"}
  /\ \E h \in BeginRows :
       at' = [h |-> h, w |-> ImageW \div 2 + (IF side' = "left" THEN BeginW ELSE -BeginW)]
  /\ phase' = "scan"
  /\ UNCHANGED <<dir, turn, pts>>

Beside == [at EXCEPT !.w = IF side = "left" THEN at.w - 1 ELSE at.w + 1]
AtEdge == at.w = (IF side = "left" THEN 0 ELSE ImageW - 1)
RoadBeside == IF AtEdge THEN FALSE ELSE Pixel(Beside) >= Threshold

Scan ==
  /\ phase = "scan"
  /\ RoadBeside
  /\ at' = Beside
  /\ UNCHANGED <<img, side, dir, turn, pts, phase>>

Found ==
  /\ phase = "scan"
  /\ ~RoadBeside
  /\ phase' = IF Pixel(at) >= Threshold THEN "follow" ELSE "done"
  /\ UNCHANGED <<img, side, at, dir, turn, pts>>

(* One pass of the loop: a wall ahead is turned away from; along a wall    *)
(* the way is straight on; round its end it is diagonal.                   *)
TurnAway_NotCounted ==
  /\ GoesOn
  /\ IsWall(Front)
  /\ dir' = Away
  /\ UNCHANGED <<img, side, at, turn, pts, phase>>

TurnAway ==
  /\ GoesOn
  /\ IsWall(Front)
  /\ dir' = Away
  /\ turn' = turn + 1
  /\ UNCHANGED <<img, side, at, pts, phase>>

Recorded(p) == at' = p /\ pts' = Append(pts, p) /\ turn' = 0

StepAlong ==
  /\ GoesOn
  /\ ~IsWall(Front)
  /\ IsWall(FrontSide)
  /\ Recorded(Front)
  /\ UNCHANGED <<img, side, dir, phase>>

StepRound_KeepsDir ==
  /\ GoesOn
  /\ ~IsWall(Front)
  /\ ~IsWall(FrontSide)
  /\ Recorded(FrontSide)
  /\ UNCHANGED <<img, side, dir, phase>>

StepRound ==
  /\ GoesOn
  /\ ~IsWall(Front)
  /\ ~IsWall(FrontSide)
  /\ Recorded(FrontSide)
  /\ dir' = Towards
  /\ UNCHANGED <<img, side, phase>>

Stop ==
  /\ phase = "follow"
  /\ ~GoesOn
  /\ phase' = "done"
  /\ UNCHANGED <<img, side, at, dir, turn, pts>>

(* The points are taken; the next image comes.                             *)
Blank == [h \in 0 .. ImageH - 1 |-> [w \in 0 .. ImageW - 1 |-> Dark]]
NextImage ==
  /\ img' = Blank
  /\ side' = "left"
  /\ at' = [h |-> 0, w |-> 0]
  /\ dir' = 0 /\ turn' = 0
  /\ pts' = <<>>
  /\ phase' = "idle"

Taken == phase = "done" /\ NextImage

WallInit ==
  /\ img = Blank
  /\ side = "left"
  /\ at = [h |-> 0, w |-> 0]
  /\ dir = 0 /\ turn = 0
  /\ pts = <<>>
  /\ phase = "idle"

Run == Scan \/ Found \/ TurnAway \/ StepAlong \/ StepRound \/ Stop
WallNext == Start \/ Run \/ Taken

WallSpec == WallInit /\ [][WallNext]_wallVars

(* A search that has begun runs on.                                        *)
FairWallSpec == WallSpec /\ WF_wallVars(Run)

-----------------------------------------------------------------------------
(* Type invariant: the follower never leaves the image.                    *)
Point == [h : 0 .. ImageH - 1, w : 0 .. ImageW - 1]
WallTypeOK ==
  /\ img \in [0 .. ImageH - 1 -> [0 .. ImageW - 1 -> Nat]]
  /\ side \in {"left", "right"}
  /\ at \in Point
  /\ dir \in 0 .. 3 /\ turn \in 0 .. 4
  /\ pts \in Seq(Point)
  /\ phase \in {"idle", "scan", "follow", "done"}

(* In a clear image the followed border is always at hand: beside the      *)
(* point that the follower has reached, on the side of the border, the     *)
(* pixel is dark, and the point itself is bright.                          *)
InClearImage == \A h \in DOMAIN img : \A w \in DOMAIN img[h] : img[h][w] \in {Dark, Bright}

Hand ==
  Plus(at, direction_front[(IF side = "left" THEN (dir + 3) % 4 ELSE (dir + 1) % 4) + 1])

HandOnWall ==
  (Clear /\ InClearImage /\ phase = "follow" /\ Inside(at)) =>
    Pixel(at) = Bright /\ Pixel(Hand) = Dark

(* Every point of the line is a bright pixel of the clear image, and the   *)
(* follower goes from each to a neighbour of it.                           *)
Neighbours(p, q) == p # q /\ p.h - q.h \in -1 .. 1 /\ p.w - q.w \in -1 .. 1

PointsOnRoad ==
  /\ (Clear /\ InClearImage) => \A i \in DOMAIN pts : Pixel(pts[i]) = Bright
  /\ \A i \in DOMAIN pts : i > 1 => Neighbours(pts[i - 1], pts[i])

(* Whatever the image shows: the window lies in the image whenever the     *)
(* loop is entered, and no more points are stored than the arrays hold.    *)
ReadsInside ==
  /\ GoesOn => at.h - 1 >= 0 /\ at.h + 1 < ImageH /\ at.w - 1 >= 0 /\ at.w + 1 < ImageW
  /\ Len(pts) <= MaxLen

(* So the border is followed and nothing but the border.                   *)
WallFollowed == WallTypeOK /\ PointsOnRoad /\ HandOnWall /\ ReadsInside

(* The follower comes to an end, also in an image without contrast and     *)
(* round a closed border.                                                  *)
FollowEnds == phase \in {"scan", "follow"} ~> phase = "done"
=============================================================================
