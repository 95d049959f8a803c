----------------------------- MODULE MCControl -----------------------------
(***************************************************************************)
(* The chain from a camera frame to the wheels: border followers, border   *)
(* lines, corners, the tracked line, the servo, and the loop of the speed  *)
(* controller.  The links share no state but what one hands to the next,   *)
(* which each module takes as an input; a behaviour is one of `part`, and  *)
(* the other parts stay as they begin.                                     *)
(***************************************************************************)
EXTENDS MCSpeedLoop, WallFollower, BorderLine, Corners, Tracking, Steering

VARIABLE part

-----------------------------------------------------------------------------
(* WallFollower: 6 rows of 7 pixels.  Clear images: every set of bright    *)
(* pixels in the middle, of those that hold the begin.  Dim images: gray   *)
(* values around the two thresholds, and an image that is white all over.  *)
Pictures(bright(_), beside(_, _), sets) ==
  {[h \in 0 .. 5 |-> [w \in 0 .. 6 |-> IF <<h, w>> \in S THEN bright(<<h, w>>) ELSE beside(h, w)]]
     : S \in sets}
ClearImages ==
  Pictures(LAMBDA p : 200, LAMBDA h, w : 100,
           {T \cup {<<3, 3>>} :
              T \in SUBSET {<<2, 2>>, <<2, 3>>, <<3, 2>>, <<3, 4>>, <<4, 2>>, <<4, 3>>, <<4, 4>>,
                            <<1, 3>>, <<3, 5>>}})
DimImages ==
  Pictures(LAMBDA p : 150, LAMBDA h, w : IF (h + w) % 3 = 0 THEN 130 ELSE 138,
           SUBSET {<<3, 4>>, <<3, 3>>, <<2, 3>>, <<3, 2>>, <<4, 3>>, <<2, 2>>})
WhiteImage == Pictures(LAMBDA p : 255, LAMBDA h, w : 255, {{}})
SomeImages == ClearImages \cup DimImages \cup WhiteImage

(* BorderLine: borders of up to five points, that turn, jump, stand still, *)
(* leave the image, or are longer than the arrays; lines in the plane with *)
(* whole distances from point to point.                                    *)
SomeBorders ==
  {<<>>} \cup UNION {[1 .. n -> {24, 60, 72, 84, 120}] : n \in 1 .. 2}
    \cup {<<24, 48, 72, 96, 120>>, <<120, 108, 96, 84, 72>>, <<0, 60, 120, 180, 240>>,
          <<24, 60, 60, 60>>, <<24, 72, 48, 96>>, <<60, 24, 120, 36>>, <<12, 24, 36, 48>>,
          <<96, 48, 48, 0>>}
Even(s, n) == [k \in 1 .. n |-> <<s[1] * k, s[2] * k>>]
SomeLines ==
  {Even(s, n) : s \in {<<-5, 0>>, <<-4, 3>>, <<-4, -3>>, <<-3, 4>>, <<0, 5>>, <<0, -5>>},
                n \in 2 .. 4}
    \cup {<<<<0, 0>>, <<-6, 0>>, <<-6, t>>, <<-6, 2 * t>>>> : t \in {-8, 8}}
SomeAngles == UNION {[1 .. n -> -2 .. 2] : n \in 0 .. 4}

(* Corners: up to four points, corners within two, straight with three.    *)
CornerBorders ==
  UNION {[1 .. n -> Classes] : n \in 0 .. 3} \cup [1 .. 4 -> {"none", "corner", "bend"}]
FarKinds == UNION {[1 .. n -> {"none", "corner"}] : n \in 0 .. 3}
BarrierBorders == UNION {[1 .. n -> [class : {"flat", "corner"}, x : 0 .. 2]] : n \in 0 .. 3}

(* Steering: diffs either side of the limits.                              *)
SomeDiffs  == {-100, -40, -5, 0, 5, 40, 100}
PureAngles == {-10, 0, 1, 15}

-----------------------------------------------------------------------------
Parts == {"loop", "wall", "line", "corner", "track", "servo"}

all == <<part, vars, wallVars, lineVars, cornerVars, trackVars, steeringVars>>

ChainInit ==
  /\ part \in Parts
  /\ Init /\ WallInit /\ LineInit /\ CornersInit /\ TrackInit /\ SteeringInit

(* The other parts stay as they are.                                       *)
Still(p, q, v) == IF p = q THEN TRUE ELSE UNCHANGED v
AllBut(p) ==
  /\ part = p
  /\ UNCHANGED part
  /\ Still(p, "loop", vars)
  /\ Still(p, "wall", wallVars)
  /\ Still(p, "line", lineVars)
  /\ Still(p, "corner", cornerVars)
  /\ Still(p, "track", trackVars)
  /\ Still(p, "servo", steeringVars)

ChainNext ==
  \/ AllBut("loop") /\ Next
  \/ AllBut("wall") /\ WallNext
  \/ AllBut("line") /\ LineNext
  \/ AllBut("corner") /\ CornersNext
  \/ AllBut("track") /\ TrackNext
  \/ AllBut("servo") /\ SteeringNext

ChainSpec ==
  /\ ChainInit /\ [][ChainNext]_all
  /\ WF_vars(AllBut("loop") /\ ConfigLoad)
  /\ SF_vars(AllBut("loop") /\ Measure)
  /\ WF_vars(AllBut("loop") /\ Coast)
  /\ WF_wallVars(AllBut("wall") /\ Run)

-----------------------------------------------------------------------------
(* The properties of the parts, under the names they have there; that of   *)
(* SpeedLoop is about its part only.                                       *)

(* No reading and no windup leaves a wheel without power for ever.         *)
LoopNoDeadWheel == part = "loop" => NoDeadWheel
=============================================================================
