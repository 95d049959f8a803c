--------------------------- MODULE Control_proofs ---------------------------
(***************************************************************************)
(* Five links of the chain from the camera to the servo.  Steering: the    *)
(* servo follows what it was set to, for every middle and every offset     *)
(* whose pulse fits into the period, whatever runs came before.  Tracking: *)
(* the robot is steered by what the frame shows, and a crossing behind it  *)
(* is forgotten, for lines of any length.  Corners: the loops find the     *)
(* corners that there are, for borders of any length.  Border lines: the   *)
(* samples of every border are at equal distances, and both borders of a   *)
(* road are treated alike.  The follower of a border keeps it at hand in a *)
(* clear image of any size, and stays inside any image.                    *)
(***************************************************************************)
EXTENDS Steering, Tracking, Corners, BorderLine, WallFollower,
        SequenceTheorems, WellFoundedInduction, TLAPS

-----------------------------------------------------------------------------
(* Steering.                                                               *)
Names == {"duty", "period", "enable"}
Files == [exported : BOOLEAN, period : {0, Period}, duty : 0 .. Period, enable : {0, 1}]

TypeOK ==
  /\ servo_set_mid \in Mids \cup {90}
  /\ files \in Files
  /\ period \in {0, Period}
  /\ last_set \in Diffs \cup {0}
  /\ ready \in BOOLEAN

(* What earlier runs have left lets the set-up through, and what the       *)
(* object believes of the period is what the kernel holds.                 *)
FilesAgree ==
  /\ files.duty <= files.period
  /\ ready => /\ files.exported /\ files.enable = 1
              /\ files.period = Period /\ period = Period
              /\ files.period - files.duty = HighTime(last_set)

IInv == TypeOK /\ FilesAgree /\ last_angle = seen[2]

(* A pulse is at most 16 steps from the middle and fits into the period.   *)
LEMMA PulseFits ==
  ASSUME NEW diff \in Diffs \cup {0}, servo_set_mid \in Mids \cup {90}
  PROVE  /\ HighTime(diff) - 45 - servo_set_mid \in -16 .. 16
         /\ HighTime(diff) \in 0 .. Period
         /\ (Period - HighTime(diff)) % WordMod = Period - HighTime(diff)
<1>1. diff \in Int /\ Limited(diff) \in -40 .. 40
  BY SteeringAssumption DEF Limited
<1>2. (Limited(diff) * 2) \div 5 \in -16 .. 16
  BY <1>1
<1>3. servo_set_mid \in Nat /\ 45 + 16 + servo_set_mid <= Period /\ Period \in Nat
  BY SteeringAssumption
<1>4. /\ HighTime(diff) - 45 - servo_set_mid \in -16 .. 16
      /\ HighTime(diff) \in 0 .. Period
  BY <1>2, <1>3 DEF HighTime
<1>5. \A x \in 0 .. Period : x % WordMod = x
  BY SteeringAssumption
<1>6. Period - HighTime(diff) \in 0 .. Period
  BY <1>3, <1>4
<1> QED
  BY <1>4, <1>5, <1>6

(* A pulse of the middle already needs a period.                           *)
LEMMA PeriodPositive == Period \in Nat \ {0}
<1>1. 45 + 16 + 90 <= Period /\ Period \in Nat
  BY SteeringAssumption
<1> QED
  BY <1>1

(* The kernel takes a duty within the period it holds,                     *)
LEMMA DutyStored ==
  ASSUME NEW f \in Files, f.exported, f.period = Period, NEW d \in 0 .. Period
  PROVE  Stored(f, "duty", d) = [f EXCEPT !.duty = d] /\ [f EXCEPT !.duty = d] \in Files
<1>1. Period \in Nat /\ d <= Period
  BY PeriodPositive
<1>2. [f EXCEPT !.duty = d] \in Files
  BY DEF Files
<1> QED
  BY <1>1, <1>2 DEF Stored

(* the period behind any duty that an earlier run left,                    *)
LEMMA PeriodStored ==
  ASSUME NEW f \in Files, f.exported
  PROVE  /\ Stored(f, "period", Period) = [f EXCEPT !.period = Period]
         /\ [f EXCEPT !.period = Period] \in Files
<1>1. Period \in Nat /\ Period # 0 /\ f.duty \in 0 .. Period
  BY PeriodPositive DEF Files
<1>2. [f EXCEPT !.period = Period] \in Files
  BY DEF Files
<1> QED
  BY <1>1, <1>2 DEF Stored

(* and to enable once there is a period.                                   *)
LEMMA EnableStored ==
  ASSUME NEW f \in Files, f.exported, f.period = Period
  PROVE  Stored(f, "enable", 1) = [f EXCEPT !.enable = 1]
  BY PeriodPositive DEF Stored

(* The set-up gets through, whatever the files hold from earlier runs.     *)
LEMMA SetUp ==
  ASSUME IInv
  PROVE  /\ Prepared.files \in Files
         /\ Prepared.files.exported /\ Prepared.files.enable = 1
         /\ Prepared.files.period = Period
         /\ Prepared.files.duty = Period - HighTime(0)
         /\ Prepared.period = Period
<1> DEFINE low == Period - HighTime(0)
<1> DEFINE f1 == [files EXCEPT !.exported = TRUE]
<1> DEFINE f2 == [f1 EXCEPT !.period = Period]
<1> DEFINE f3 == [f2 EXCEPT !.duty = low]
<1> DEFINE f4 == [f3 EXCEPT !.enable = 1]
<1>1. files \in Files /\ servo_set_mid \in Mids \cup {90}
  BY DEF IInv, TypeOK
<1>2. low \in 0 .. Period /\ (Period - HighTime(0)) % WordMod = low
  BY <1>1, PulseFits, PeriodPositive
<1>3. f1 \in Files /\ f1.exported
  BY <1>1 DEF Files
<1> HIDE DEF low
<1>4. /\ Stored(f1, "period", Period) = f2
      /\ f2 \in Files /\ f2.exported /\ f2.period = Period
  <2> HIDE DEF f1
  <2>1. Stored(f1, "period", Period) = f2 /\ f2 \in Files
    BY <1>3, PeriodStored
  <2> QED
    BY <1>3, <2>1 DEF Files
<1>5. /\ Stored(f2, "duty", low) = f3
      /\ f3 \in Files /\ f3.exported /\ f3.period = Period /\ f3.duty = low
  <2> HIDE DEF f2
  <2>1. Stored(f2, "duty", low) = f3 /\ f3 \in Files
    BY <1>2, <1>4, DutyStored
  <2> QED
    BY <1>4, <2>1 DEF Files
<1>6. /\ Stored(f3, "enable", 1) = f4
      /\ f4 \in Files /\ f4.exported /\ f4.period = Period /\ f4.duty = low /\ f4.enable = 1
  <2> HIDE DEF f3
  <2>1. Stored(f3, "enable", 1) = f4
    BY <1>5, EnableStored
  <2> QED
    BY <1>5, <2>1 DEF Files
<1>7. Initialized(ServoObject) = [period |-> period, duty |-> duty_cycle, files |-> f1]
  BY DEF Initialized, ServoObject
<1> HIDE DEF f1
<1>8. PeriodSet(Initialized(ServoObject), Period) =
        [period |-> Period, duty |-> duty_cycle, files |-> f2]
  <2> HIDE DEF f2
  <2> QED
    BY <1>4, <1>7 DEF PeriodSet
<1> HIDE DEF f2
<1>9. DutySet(PeriodSet(Initialized(ServoObject), Period), HighTime(0)) =
        [period |-> Period, duty |-> low, files |-> f3]
  <2> HIDE DEF f3
  <2> QED
    BY <1>2, <1>5, <1>8 DEF DutySet
<1> HIDE DEF f3
<1>10. Prepared = [period |-> Period, duty |-> low, files |-> f4]
  <2> HIDE DEF f4
  <2> QED
    BY <1>6, <1>9 DEF Prepared, EnableSet
<1> HIDE DEF f4
<1>11. low = Period - HighTime(0)
  BY DEF low
<1> QED
  BY <1>6, <1>10, <1>11

(* The zeroed statics and files of the first run.                          *)
LEMMA Initially == SteeringInit => IInv
<1> SUFFICES ASSUME SteeringInit PROVE IInv
  OBVIOUS
<1>1. files \in Files
  BY PeriodPositive DEF SteeringInit, Files
<1>2. TypeOK
  BY <1>1 DEF SteeringInit, TypeOK
<1>3. FilesAgree
  BY DEF SteeringInit, FilesAgree
<1> QED
  BY <1>2, <1>3 DEF SteeringInit, IInv

(* servo_init.                                                             *)
LEMMA ServoInitKeeps == IInv /\ ServoInit => IInv'
<1> SUFFICES ASSUME IInv, ServoInit PROVE IInv'
  OBVIOUS
<1>1. /\ files' \in Files /\ files'.exported /\ files'.enable = 1
      /\ files'.period = Period /\ files'.duty = Period - HighTime(0)
      /\ period' = Period /\ last_set' = 0 /\ ready' = TRUE
      /\ UNCHANGED <<servo_set_mid, control>>
  BY SetUp DEF ServoInit, Becomes
<1>2. HighTime(0) \in 0 .. Period /\ HighTime(last_set)' = HighTime(0) /\ Period \in Nat
  BY <1>1, PulseFits, SteeringAssumption DEF IInv, TypeOK, HighTime
<1>3. TypeOK'
  BY <1>1, <1>2 DEF IInv, TypeOK, Files
<1>4. FilesAgree'
  BY <1>1, <1>2 DEF FilesAgree
<1> QED
  BY <1>1, <1>3, <1>4 DEF IInv, control

(* servo_set.                                                              *)
LEMMA ServoSetKeeps == IInv /\ ServoSet => IInv'
<1> SUFFICES ASSUME IInv, ServoSet PROVE IInv'
  OBVIOUS
<1>1. PICK diff \in Diffs : Becomes(DutySet(ServoObject, HighTime(diff))) /\ last_set' = diff
  BY DEF ServoSet
<1>2. /\ ready /\ files \in Files /\ files.exported /\ files.period = Period /\ period = Period
      /\ files.enable = 1
      /\ servo_set_mid \in Mids \cup {90}
      /\ UNCHANGED <<servo_set_mid, ready, control>>
  BY DEF ServoSet, IInv, TypeOK, FilesAgree
<1>3. HighTime(diff) \in 0 .. Period /\ (Period - HighTime(diff)) % WordMod = Period - HighTime(diff)
  BY <1>2, PulseFits
<1>4. Period - HighTime(diff) \in 0 .. Period /\ Period \in Nat
  BY <1>3, SteeringAssumption
<1>5. /\ files' = [files EXCEPT !.duty = Period - HighTime(diff)]
      /\ period' = Period
  BY <1>1, <1>2, <1>3, <1>4, DutyStored DEF Becomes, DutySet, ServoObject
<1>6. TypeOK'
  BY <1>1, <1>2, <1>4, <1>5 DEF IInv, TypeOK, Files
<1>7. HighTime(last_set)' = HighTime(diff)
  BY <1>1, <1>2 DEF HighTime
<1>8. /\ files'.duty = Period - HighTime(diff) /\ files'.period = Period /\ files'.enable = 1
      /\ files'.exported
  BY <1>2, <1>5 DEF Files
<1>9. FilesAgree'
  BY <1>3, <1>4, <1>5, <1>7, <1>8 DEF FilesAgree
<1> QED
  BY <1>2, <1>6, <1>9 DEF IInv, control

(* The end of a run, orderly or not, leaves files the next can set up.     *)
LEMMA ExitKeeps == IInv /\ (ServoExit \/ ServoKilled) => IInv'
<1> SUFFICES ASSUME IInv, ServoExit \/ ServoKilled PROVE IInv'
  OBVIOUS
<1>1. files \in Files /\ files.duty <= files.period
  BY DEF IInv, TypeOK, FilesAgree
<1>2. Stored(files, "enable", 0) \in {files, [files EXCEPT !.enable = 0]}
  BY DEF Stored
<1>3. files' \in Files /\ files'.duty <= files'.period
  <2>1. ObjectEnds.files = Stored(files, "enable", 0)
    BY DEF ObjectEnds, EnableSet, ServoObject
  <2>2. files' \in {files, [files EXCEPT !.enable = 0]}
    BY <1>2, <2>1 DEF ServoExit, ServoKilled, NewRun
  <2> QED
    BY <1>1, <2>2 DEF Files
<1>4. /\ period' = 0 /\ servo_set_mid' = 90 /\ last_set' = 0 /\ ready' = FALSE
      /\ last_angle' = 0 /\ seen' = <<0, 0>>
  BY DEF ServoExit, ServoKilled, NewRun
<1>5. TypeOK' /\ FilesAgree'
  BY <1>3, <1>4 DEF TypeOK, FilesAgree
<1> QED
  BY <1>4, <1>5 DEF IInv

(* Every step.                                                             *)
LEMMA NextKeeps == IInv /\ [SteeringNext]_steeringVars => IInv'
<1> SUFFICES ASSUME IInv, [SteeringNext]_steeringVars PROVE IInv'
  OBVIOUS
<1>1. CASE MidLoaded
  BY <1>1 DEF MidLoaded, pwm, control, IInv, TypeOK, FilesAgree
<1>2. CASE AngPD
  <2>1. UNCHANGED <<servo_set_mid, period, files, last_set, ready>> /\ last_angle' = seen'[2]
    BY <1>2 DEF AngPD, Remembered, pwm
  <2> QED
    BY <2>1 DEF IInv, TypeOK, FilesAgree, HighTime
<1>3. CASE Element
  BY <1>3 DEF Element, pwm, IInv, TypeOK, FilesAgree, HighTime
<1>4. CASE UNCHANGED steeringVars
  BY <1>4 DEF steeringVars, pwm, control, IInv, TypeOK, FilesAgree, HighTime
<1> QED
  BY <1>1, <1>2, <1>3, <1>4, ServoInitKeeps, ServoSetKeeps, ExitKeeps DEF SteeringNext

(* For every middle whose pulses fit and every offset: the kernel's files  *)
(* hold the pulse that was asked for.                                      *)
THEOREM PulseAsSet == SteeringSpec => []ServoFollows
<1>1. IInv => ServoFollows
  <2> SUFFICES ASSUME IInv, ready
               PROVE  /\ files.enable = 1
                      /\ files.period - files.duty = HighTime(last_set)
                      /\ files.period - files.duty - 45 - servo_set_mid \in -16 .. 16
    BY DEF ServoFollows
  <2>1. files.enable = 1 /\ files.period - files.duty = HighTime(last_set)
    BY DEF IInv, FilesAgree
  <2>2. HighTime(last_set) - 45 - servo_set_mid \in -16 .. 16
    BY PulseFits DEF IInv, TypeOK
  <2> QED
    BY <2>1, <2>2
<1> QED
  BY <1>1, Initially, NextKeeps, PTL DEF SteeringSpec

(* For all angles and gains: a course element that ends is no kick.        *)
THEOREM AngleWithoutKick == SteeringSpec => NoKick
<1>1. IInv /\ [SteeringNext]_steeringVars =>
        [AngPD /\ mode = "none" => angle_out' = Kp * seen'[2] + Kd * (seen'[2] - seen[2])]_steeringVars
  <2> SUFFICES ASSUME IInv, AngPD, mode = "none"
               PROVE  angle_out' = Kp * seen'[2] + Kd * (seen'[2] - seen[2])
    OBVIOUS
  <2>1. PICK a \in Angles : angle_out' = AngleOut(a, a - last_angle) /\ seen' = <<seen[2], a>>
    BY DEF AngPD
  <2>2. last_angle = seen[2] /\ seen'[2] = a
    BY <2>1 DEF IInv
  <2>3. AngleOut(a, a - last_angle) = Kp * a + Kd * (a - last_angle)
    BY DEF AngleOut
  <2> QED
    BY <2>1, <2>2, <2>3
<1> QED
  BY <1>1, Initially, NextKeeps, PTL DEF SteeringSpec, NoKick

-----------------------------------------------------------------------------
(* Tracking.                                                               *)
TrackTypeOK ==
  /\ stage \in {"idle", "judged", "run", "tracked"}
  /\ cross_type \in {"NONE", "BEGIN", "IN"}
  /\ count \in [Sides -> Nat] /\ id \in [Sides -> Nat]
  /\ far_count \in [Sides -> Nat] /\ far_id \in [Sides -> Nat]
  /\ track_type \in Sides
  /\ state_type \in {"COMMON", "STRAIGHT", "TURN"}
  /\ followed \in BOOLEAN

(* The middle line is as long as the line it is the middle of, and a state *)
(* that no frame has decided has no aim either.                            *)
TrackIInv ==
  /\ TrackTypeOK
  /\ mid_count = count
  /\ state_type = "COMMON" => aim_distance = "none"
  /\ FollowsFreshPoints
  /\ CurvatureDefined
  /\ FollowsWhatIsSeen
  /\ AimRestored
  /\ AngleRecovers

(* What the invariant says of the frame before holds on while nothing of   *)
(* it is touched.                                                          *)
LEMMA OldFrame ==
  ASSUME TrackIInv, UNCHANGED aim, stage # "idle", stage' # "tracked", stage' # "idle"
  PROVE  /\ state_type' \in {"COMMON", "STRAIGHT", "TURN"} /\ followed' \in BOOLEAN
         /\ (state_type = "COMMON" => aim_distance = "none")'
         /\ FollowsFreshPoints' /\ CurvatureDefined'
         /\ FollowsWhatIsSeen' /\ AimRestored' /\ AngleRecovers'
<1>1. state_type' \in {"COMMON", "STRAIGHT", "TURN"} /\ followed' \in BOOLEAN
  BY DEF TrackIInv, TrackTypeOK, aim
<1>2. (state_type = "COMMON" => aim_distance = "none")'
  BY DEF TrackIInv, aim
<1>3. FollowsFreshPoints' /\ CurvatureDefined'
  BY DEF TrackIInv, aim, FollowsFreshPoints, CurvatureDefined, Used, clip
<1>4. FollowsWhatIsSeen' /\ AimRestored' /\ AngleRecovers'
  BY DEF FollowsWhatIsSeen, AimRestored, AngleRecovers
<1> QED
  BY <1>1, <1>2, <1>3, <1>4

(* A cut line is a line.                                                   *)
LEMMA CutIsLine ==
  ASSUME NEW n \in [Sides -> Nat], NEW s \in Sides, id \in [Sides -> Nat]
  PROVE  Cut(n, s) \in [Sides -> Nat]
  BY DEF Cut, Sides

(* The corners' side is a side.                                            *)
LEMMA CornerSideIsSide == CornerSide \in Sides
  BY DEF CornerSide, Sides

(* img_processing and the corners.                                         *)
LEMMA FrameKeeps == TrackIInv /\ Frame => TrackIInv'
<1> SUFFICES ASSUME TrackIInv, Frame PROVE TrackIInv'
  OBVIOUS
<1>1. count' \in [Sides -> Nat] /\ mid_count' = count'
  BY TrackAssumption DEF Frame
<1>2. id' \in [Sides -> Nat]
  <2>1. PICK l \in -1 .. count'["left"] - 1, r \in -1 .. count'["right"] - 1 :
          id' = [s \in Sides |-> IF [left |-> l, right |-> r][s] >= 0
                                   THEN [left |-> l, right |-> r][s] ELSE 0]
    BY DEF Frame
  <2>2. l \in Int /\ r \in Int
    BY <1>1 DEF Sides
  <2> QED
    BY <2>1, <2>2 DEF Sides
<1>3. cross_type' \in {"NONE", "BEGIN", "IN"}
  BY DEF Frame, TrackIInv, TrackTypeOK
<1>4. TrackTypeOK'
  BY <1>1, <1>2, <1>3 DEF Frame, far, TrackIInv, TrackTypeOK
<1>5. FollowsFreshPoints' /\ CurvatureDefined'
  BY DEF Frame, FollowsFreshPoints, CurvatureDefined
<1>6. FollowsWhatIsSeen' /\ AimRestored' /\ AngleRecovers'
  BY DEF Frame, FollowsWhatIsSeen, AimRestored, AngleRecovers
<1> QED
  BY <1>1, <1>4, <1>5, <1>6 DEF Frame, TrackIInv

(* RunCross, where a crossing begins.                                      *)
LEMMA CrossBeginKeeps == TrackIInv /\ CrossBegin => TrackIInv'
<1> SUFFICES ASSUME TrackIInv, CrossBegin PROVE TrackIInv'
  OBVIOUS
<1>1. /\ stage = "judged" /\ stage' \in {"judged", "run"}
      /\ cross_type' \in {"NONE", "BEGIN", "IN"}
      /\ UNCHANGED <<found, id, far, aim>>
  BY DEF CrossBegin
<1>2. count' \in [Sides -> Nat] /\ mid_count' = count' /\ track_type' \in Sides
  <2>1. count \in [Sides -> Nat] /\ mid_count = count /\ track_type \in Sides
        /\ id \in [Sides -> Nat]
    BY DEF TrackIInv, TrackTypeOK
  <2>2. CASE found["left"] \/ found["right"]
    BY <2>1, <2>2, CutIsLine, CornerSideIsSide DEF CrossBegin
  <2>3. CASE ~(found["left"] \/ found["right"])
    BY <2>1, <2>3 DEF CrossBegin
  <2> QED
    BY <2>2, <2>3
<1>3. TrackTypeOK'
  BY <1>1, <1>2 DEF far, aim, TrackIInv, TrackTypeOK
<1> QED
  BY <1>1, <1>2, <1>3, OldFrame DEF TrackIInv

(* RunCross, inside.                                                       *)
LEMMA CrossInKeeps == TrackIInv /\ CrossIn => TrackIInv'
<1> SUFFICES ASSUME TrackIInv, CrossIn PROVE TrackIInv'
  OBVIOUS
<1>1. /\ stage = "judged" /\ stage' = "run"
      /\ cross_type' \in {"NONE", "IN"}
      /\ UNCHANGED <<lines, aim>>
  BY DEF CrossIn
<1>2. track_type' \in Sides
  BY DEF CrossIn, TrackIInv, TrackTypeOK, Sides
<1>3. PICK n \in [Sides -> FarCounts], places \in [Sides -> FarCounts \cup {-1}] :
        /\ far_id' = [s \in Sides |-> IF places[s] >= 0 THEN places[s] ELSE 0]
        /\ far_count' = n \/ \E s \in Sides : far_count' = [n EXCEPT ![s] = 0]
  BY DEF CrossIn, FarLines
<1>4. /\ FarCounts \subseteq Nat /\ \A s \in Sides : places[s] \in FarCounts \cup {-1}
      /\ n \in [Sides -> Nat]
  BY TrackAssumption
<1>5. far_id' \in [Sides -> Nat]
  <2>1. ASSUME NEW s \in Sides, places[s] >= 0 PROVE places[s] \in Nat
    <3>1. places[s] # -1
      BY <2>1
    <3> QED
      BY <1>4, <3>1
  <2> QED
    BY <1>3, <2>1
<1>6. far_count' \in [Sides -> Nat]
  BY <1>3, <1>4
<1>7. TrackTypeOK' /\ (mid_count = count)'
  BY <1>1, <1>2, <1>5, <1>6 DEF lines, aim, TrackIInv, TrackTypeOK
<1> QED
  BY <1>1, <1>7, OldFrame DEF TrackIInv

(* No crossing.                                                            *)
LEMMA NoCrossKeeps == TrackIInv /\ NoCross => TrackIInv'
<1> SUFFICES ASSUME TrackIInv, NoCross PROVE TrackIInv'
  OBVIOUS
<1>1. TrackTypeOK' /\ (mid_count = count)'
  BY DEF NoCross, lines, far, aim, TrackIInv, TrackTypeOK
<1> QED
  BY <1>1, OldFrame DEF NoCross, TrackIInv

(* A line that has been seen is preferred to one that has not.             *)
LEMMA TrackedIsSeen ==
  ASSUME NEW l \in Nat, NEW r \in Nat, track_type \in Sides
  PROVE  /\ Tracked(l, r) \in Sides
         /\ l > 0 \/ r > 0 => IF Tracked(l, r) = "left" THEN l > 0 ELSE r > 0
<1>1. Tracked(l, r) \in Sides
  BY DEF Tracked, Sides
<1>2. /\ l < r \div 2 => r > 0
      /\ r < l \div 2 => l > 0
  OBVIOUS
<1>3. FewPoints \in Nat /\ FewPoints > 0 /\ LeftShort \in Int /\ RightShort \in Int
  BY TrackAssumption
<1>4. ASSUME l > 0 \/ r > 0 PROVE IF Tracked(l, r) = "left" THEN l > 0 ELSE r > 0
  <2>1. CASE l < r \div 2 /\ l < LeftShort
    BY <1>2, <2>1 DEF Tracked
  <2>2. CASE ~(l < r \div 2 /\ l < LeftShort) /\ (r < l \div 2 /\ r < RightShort)
    BY <1>2, <2>2 DEF Tracked
  <2>3. CASE ~(l < r \div 2 /\ l < LeftShort) /\ ~(r < l \div 2 /\ r < RightShort)
    BY <1>3, <1>4, <2>3 DEF Tracked, Sides
  <2> QED
    BY <2>1, <2>2, <2>3
<1> QED
  BY <1>1, <1>4

(* tracking.                                                               *)
LEMMA TrackKeeps == TrackIInv /\ Track => TrackIInv'
<1> SUFFICES ASSUME TrackIInv, Track PROVE TrackIInv'
  OBVIOUS
<1>1. /\ stage' = "tracked"
      /\ track_type' = Tracked(count["left"], count["right"])
      /\ id' = Both(0)
      /\ UNCHANGED <<cross_type, count, mid_count, far_count, far_id, aim>>
  BY DEF Track
<1>2. count \in [Sides -> Nat] /\ count["left"] \in Nat /\ count["right"] \in Nat
  BY DEF TrackIInv, TrackTypeOK, Sides
<1>3. track_type \in Sides
  BY DEF TrackIInv, TrackTypeOK
<1>4. /\ track_type' \in Sides
      /\ (\E s \in Sides : count[s] > 0) => count[track_type'] > 0
  BY <1>1, <1>2, <1>3, TrackedIsSeen DEF Sides
<1>5. TrackTypeOK' /\ (mid_count = count)'
  BY <1>1, <1>4 DEF aim, TrackIInv, TrackTypeOK, Both
<1>6. (state_type = "COMMON" => aim_distance = "none")'
  BY <1>1 DEF TrackIInv, aim
<1>7. FollowsFreshPoints' /\ CurvatureDefined'
  BY <1>1 DEF TrackIInv, aim, FollowsFreshPoints, CurvatureDefined, Used, clip
<1>8. FollowsWhatIsSeen' /\ AimRestored' /\ AngleRecovers'
  BY <1>1, <1>4 DEF FollowsWhatIsSeen, AimRestored, AngleRecovers
<1> QED
  BY <1>5, <1>6, <1>7, <1>8 DEF TrackIInv

(* The points that angles are taken from are points of the line,           *)
LEMMA PointsOfLine ==
  ASSUME NEW n \in Int, n >= 3
  PROVE  /\ 3 * (n \div 4) < n
         /\ clip(AimJudge, 0, n - 1) \in 0 .. n - 1
<1>1. AimJudge \in Nat
  BY TrackAssumption
<1> QED
  BY <1>1 DEF clip

(* and a curvature is taken from 6 points or more.                         *)
LEMMA CurvedEnough ==
  ASSUME NEW n \in Int
  PROVE  Curved(n) > 0 => Used(Curved(n)) - 2 > 0
  BY DEF Curved, Used

(* MidLineTrack.                                                           *)
LEMMA MidLineTrackKeeps == TrackIInv /\ MidLineTrack => TrackIInv'
<1> SUFFICES ASSUME TrackIInv, MidLineTrack PROVE TrackIInv'
  OBVIOUS
<1>1. /\ stage' = "idle" /\ mid_track_count' = FollowedCount /\ fresh' = FreshCount
      /\ count' = Both(0) /\ mid_count' = Both(0)
      /\ far_count' = Both(0) /\ far_id' = Both(0)
      /\ UNCHANGED <<cross_type, track_type, found, id, far_found>>
  BY DEF MidLineTrack
<1>2. PICK begin_id \in 0 .. PtMaxLen, rptsn_num \in {1, PtMaxLen}, ahead \in BOOLEAN,
           turns \in BOOLEAN, sharp \in BOOLEAN :
        /\ followed' = (FollowedCount - begin_id >= 3)
        /\ curved' = IF cross_type # "IN" THEN Curved(FollowedCount)
                     ELSE IF followed' THEN Curved(rptsn_num) ELSE 0
        /\ state_type' = StateType(turns)
        /\ aim_distance' = Aim(sharp)
        /\ pure_angle' = Angle(rptsn_num = 1, ahead)
  BY DEF MidLineTrack
<1>3. FollowedCount \in Int /\ begin_id \in Nat /\ rptsn_num \in Int
  BY TrackAssumption DEF TrackIInv, TrackTypeOK, FollowedCount
<1>4. state_type' \in {"COMMON", "STRAIGHT", "TURN"} /\ followed' \in BOOLEAN
  BY <1>2 DEF TrackIInv, TrackTypeOK, StateType
<1>5. TrackTypeOK' /\ (mid_count = count)'
  <2>1. Both(0) \in [Sides -> Nat]
    BY DEF Both
  <2> QED
    BY <1>1, <1>4, <2>1 DEF TrackIInv, TrackTypeOK
<1>6. FollowsFreshPoints'
  <2> SUFFICES ASSUME followed' PROVE FollowedCount >= 3 /\ FollowedCount <= FreshCount
    BY <1>1, <1>3, PointsOfLine DEF FollowsFreshPoints, clip
  <2>1. FollowedCount >= 3
    <3>1. FollowedCount - begin_id >= 3
      BY <1>2, Zenon
    <3> QED
      BY <1>3, <3>1
  <2>2. FollowedCount = FreshCount
    <3>1. CASE cross_type = "IN"
      <4>1. far_count[track_type] \in Int /\ far_id[track_type] \in Int
        BY DEF TrackIInv, TrackTypeOK
      <4> QED
        BY <2>1, <3>1, <4>1 DEF FollowedCount, FreshCount
    <3>2. CASE cross_type # "IN"
      BY <3>2 DEF TrackIInv, FollowedCount, FreshCount
    <3> QED
      BY <3>1, <3>2
  <2> QED
    BY <1>3, <2>1, <2>2
<1>7. CurvatureDefined'
  <2>1. curved' \in {Curved(FollowedCount), Curved(rptsn_num), 0}
    BY <1>2
  <2>2. curved' > 0 => Used(curved') - 2 > 0
    BY <1>3, <2>1, CurvedEnough
  <2> QED
    BY <2>2 DEF CurvatureDefined, Used
<1>8. FollowsWhatIsSeen'
  BY <1>1 DEF FollowsWhatIsSeen
<1>9. (state_type = "COMMON" => aim_distance = "none")' /\ AimRestored'
  BY <1>1, <1>2 DEF TrackIInv, TrackTypeOK, AimRestored, Aim, StateType, CrossIsStraight
<1>10. AngleRecovers'
  BY <1>1, <1>2 DEF AngleRecovers, Angle, IsAhead, NewAngle
<1> QED
  BY <1>5, <1>6, <1>7, <1>8, <1>9, <1>10 DEF TrackIInv

(* Before the first frame there is no line to follow.                      *)
LEMMA TrackInitially == TrackInit => TrackIInv
<1> SUFFICES ASSUME TrackInit PROVE TrackIInv
  OBVIOUS
<1>1. TrackTypeOK
  BY DEF TrackInit, TrackTypeOK, Both, Sides
<1> QED
  BY <1>1 DEF TrackInit, TrackIInv, FollowsFreshPoints, CurvatureDefined, FollowsWhatIsSeen,
              AimRestored, AngleRecovers

(* Every step.                                                             *)
LEMMA TrackNextKeeps == TrackIInv /\ [TrackNext]_trackVars => TrackIInv'
<1>1. TrackIInv /\ UNCHANGED trackVars => TrackIInv'
  BY DEF trackVars, lines, far, aim, TrackIInv, TrackTypeOK, FollowsFreshPoints,
         CurvatureDefined, Used, clip, FollowsWhatIsSeen, AimRestored, AngleRecovers
<1> QED
  BY <1>1, FrameKeeps, CrossBeginKeeps, CrossInKeeps, NoCrossKeeps, TrackKeeps,
     MidLineTrackKeeps DEF TrackNext

(* For lines of any length and any thresholds: only points of this frame   *)
(* steer the robot, no curvature is divided by zero, and a border that is  *)
(* seen is preferred to a lost one.                                        *)
THEOREM ThisFrameSteers == TrackSpec => []SteersByThisFrame
<1>1. TrackIInv => SteersByThisFrame
  BY DEF TrackIInv, SteersByThisFrame
<1> QED
  BY <1>1, TrackInitially, TrackNextKeeps, PTL DEF TrackSpec

(* For the same: neither the aim nor the undefined angle of a crossing     *)
(* outlives it by a frame with a line to follow.                           *)
THEOREM CrossingLeavesNothing == TrackSpec => []CrossingForgotten
<1>1. TrackIInv => CrossingForgotten
  BY DEF TrackIInv, CrossingForgotten
<1> QED
  BY <1>1, TrackInitially, TrackNextKeeps, PTL DEF TrackSpec

-----------------------------------------------------------------------------
(* Corners.                                                                *)
(* What the search of get_corners knows of a border k behind m points: the *)
(* first corner near enough, and whether a near point bends.               *)
FirstCorner(k, m, f, n, straight) ==
  /\ f <=> \E p \in 0 .. m - 1 : p < CornerEnd /\ k[p + 1] = "corner"
  /\ f => /\ n \in 0 .. m - 1 /\ n < CornerEnd /\ k[n + 1] = "corner"
          /\ \A p \in 0 .. n - 1 : k[p + 1] # "corner"
  /\ ~f => n = 0
  /\ straight <=> /\ Len(k) >= StraightEnd
                  /\ \A p \in 1 .. StraightEnd : p <= m => k[p] \notin Bent

(* What the search of the barrier's corners knows behind m points, leaning *)
(* being the points where the border leans in: the first candidate that    *)
(* leans, or the last candidate.                                           *)
Candidate(k, p) == p < StraightEnd /\ k[p + 1] = "corner"
LastCandidate(k, leaning, m, f, n) ==
  /\ f => /\ n \in 0 .. m - 1 /\ Candidate(k, n) /\ n \in leaning
          /\ \A p \in 0 .. n - 1 : ~(Candidate(k, p) /\ p \in leaning)
  /\ ~f => /\ \A p \in 0 .. m - 1 : ~(Candidate(k, p) /\ p \in leaning)
           /\ \/ n = 0 /\ \A p \in 0 .. m - 1 : ~Candidate(k, p)
              \/ /\ n \in 0 .. m - 1 /\ Candidate(k, n)
                 /\ \A p \in 0 .. m - 1 : p > n => ~Candidate(k, p)

Leaning(s) ==
  {p \in 0 .. Count(s) - 1 :
     LET two_on == xs[s][clip(p + 2, 0, Count("left") - 1) + 1]
     IN  IF s = "left" THEN xs[s][p + 1] <= two_on ELSE xs[s][p + 1] >= two_on}

(* The points of a border that the loops have passed.                      *)
Loops == {"corners", "barrier", "far"}
Passed(s) == call \notin Loops \/ (s = "left" /\ loop_side = "right")
Scanned(s) == IF Passed(s) THEN Count(s) ELSE IF s = loop_side THEN loop_i ELSE 0

CornersTypeOK ==
  /\ call \in Loops \cup {"none", "corners end", "barrier end", "far end", "far judged"}
  /\ kinds \in [Sides -> Seq(Classes)] /\ heading \in [Sides -> Int]
  /\ loop_side \in Sides /\ loop_i \in Nat
  /\ lpt_found \in [Sides -> BOOLEAN] /\ lpt_id \in [Sides -> Nat]
  /\ is_straight \in [Sides -> BOOLEAN] /\ found_in \in [Sides -> BOOLEAN]
  /\ row \in [Sides -> Int] /\ far_len \in [Sides -> Nat]
  /\ call \in Loops => loop_i <= Count(loop_side)

CornersSeen ==
  call \in {"corners", "corners end"} =>
    /\ kinds["right"] \in {kinds["left"], <<>>}
    /\ \A s \in Sides :
         /\ FirstCorner(kinds[s], Scanned(s), lpt_found[s], lpt_id[s], is_straight[s])
         /\ found_in[s] = FALSE

(* The columns of the one border are the mirror image of the other's.      *)
MirrorOfLeft ==
  /\ kinds["right"] = kinds["left"]
  /\ \A s \in Sides : \A n \in 1 .. Count("left") : xs[s][n] \in Int
  /\ \A n \in 1 .. Count("left") : xs["right"][n] = Width - xs["left"][n]

BarrierSeen ==
  call \in {"barrier", "barrier end"} =>
    /\ MirrorOfLeft
    /\ is_straight["left"] = is_straight["right"]
    /\ \A s \in Sides :
         IF Passed(s)
           THEN \E f \in BOOLEAN :
                  /\ LastCandidate(kinds[s], Leaning(s), Count(s), f, lpt_id[s])
                  /\ lpt_found[s] = (f /\ ~LeadsIn(s)) /\ found_in[s] = (f /\ LeadsIn(s))
           ELSE /\ LastCandidate(kinds[s], Leaning(s), Scanned(s), lpt_found[s], lpt_id[s])
                /\ found_in[s] = FALSE

FarSeen ==
  call \in {"far", "far end"} =>
    \A s \in Sides : far_len[s] = Count(s) /\ (lpt_found[s] => Count(s) > 0)

CornersIInv == CornersTypeOK /\ CornersSeen /\ BarrierSeen /\ FarSeen /\ NearFarLineStays

(* Before the first point nothing is found.                                *)
LEMMA SearchBegins ==
  ASSUME NEW k \in Seq(Classes), NEW straight \in BOOLEAN, straight <=> Len(k) >= StraightEnd
  PROVE  FirstCorner(k, 0, FALSE, 0, straight)
<1>1. StraightEnd \in Nat /\ Len(k) \in Nat
  BY CornersAssumption
<1> QED
  BY <1>1 DEF FirstCorner

(* One more point of the search of get_corners,                            *)
LEMMA FirstCornerGoesOn ==
  ASSUME NEW k \in Seq(Classes), NEW m \in Nat, m < Len(k),
         NEW f \in BOOLEAN, NEW n \in Nat, NEW straight \in BOOLEAN,
         NEW here \in BOOLEAN, here <=> (~f /\ k[m + 1] = "corner" /\ m < CornerEnd),
         NEW bends \in BOOLEAN, bends <=> (k[m + 1] \in Bent /\ m < StraightEnd),
         FirstCorner(k, m, f, n, straight)
  PROVE  FirstCorner(k, m + 1, f \/ here, IF here THEN m ELSE n, straight /\ ~bends)
<1>1. CornerEnd \in Nat /\ StraightEnd \in Nat /\ Len(k) \in Nat
  BY CornersAssumption
<1>2. (f \/ here) <=> \E p \in 0 .. (m + 1) - 1 : p < CornerEnd /\ k[p + 1] = "corner"
  BY <1>1 DEF FirstCorner
<1>3. ASSUME f PROVE /\ n \in 0 .. (m + 1) - 1 /\ n < CornerEnd /\ k[n + 1] = "corner"
                     /\ \A p \in 0 .. n - 1 : k[p + 1] # "corner"
  BY <1>1, <1>3 DEF FirstCorner
<1>4. ASSUME here PROVE /\ m \in 0 .. (m + 1) - 1 /\ m < CornerEnd /\ k[m + 1] = "corner"
                        /\ \A p \in 0 .. m - 1 : k[p + 1] # "corner"
  BY <1>1, <1>4 DEF FirstCorner
<1>5. ASSUME ~(f \/ here) PROVE n = 0
  BY <1>5 DEF FirstCorner
<1>6. (straight /\ ~bends) <=> /\ Len(k) >= StraightEnd
                               /\ \A p \in 1 .. StraightEnd : p <= m + 1 => k[p] \notin Bent
  BY <1>1 DEF FirstCorner
<1>7. here => ~f
  OBVIOUS
<1>8. CASE here
  BY <1>2, <1>4, <1>6, <1>8 DEF FirstCorner
<1>9. CASE ~here
  BY <1>2, <1>3, <1>5, <1>6, <1>9 DEF FirstCorner
<1> QED
  BY <1>8, <1>9

(* which passes over a point that the maxima left at 0, and                *)
LEMMA FirstCornerSkips ==
  ASSUME NEW k \in Seq(Classes), NEW m \in Nat, m < Len(k), k[m + 1] = "none",
         NEW f \in BOOLEAN, NEW n \in Nat, NEW straight \in BOOLEAN,
         FirstCorner(k, m, f, n, straight)
  PROVE  FirstCorner(k, m + 1, f, n, straight)
<1>1. CornerEnd \in Nat /\ StraightEnd \in Nat /\ Len(k) \in Nat /\ "none" \notin Bent
  BY CornersAssumption DEF Bent
<1>2. f <=> \E p \in 0 .. (m + 1) - 1 : p < CornerEnd /\ k[p + 1] = "corner"
  BY <1>1 DEF FirstCorner
<1>3. straight <=> /\ Len(k) >= StraightEnd
                   /\ \A p \in 1 .. StraightEnd : p <= m + 1 => k[p] \notin Bent
  BY <1>1 DEF FirstCorner
<1>4. f => n \in 0 .. (m + 1) - 1
  BY DEF FirstCorner
<1> QED
  BY <1>2, <1>3, <1>4 DEF FirstCorner

(* which may break off when a corner is found and the border bends.        *)
LEMMA FirstCornerBreaks ==
  ASSUME NEW k \in Seq(Classes), NEW m \in Nat, m <= Len(k), NEW n \in Nat,
         FirstCorner(k, m, TRUE, n, FALSE)
  PROVE  FirstCorner(k, Len(k), TRUE, n, FALSE)
<1>1. CornerEnd \in Nat /\ StraightEnd \in Nat /\ Len(k) \in Nat
  BY CornersAssumption
<1> QED
  BY <1>1 DEF FirstCorner

(* Two searches of the same border find the same.                          *)
LEMMA OneFirstCorner ==
  ASSUME NEW k \in Seq(Classes), NEW m \in Nat,
         NEW f \in BOOLEAN, NEW n \in Nat, NEW s \in BOOLEAN, FirstCorner(k, m, f, n, s),
         NEW g \in BOOLEAN, NEW o \in Nat, NEW t \in BOOLEAN, FirstCorner(k, m, g, o, t)
  PROVE  f = g /\ n = o /\ s = t
<1>1. f = g /\ s = t
  BY Zenon DEF FirstCorner
<1>2. n = o
  <2>1. CASE f
    <3>1. /\ n \in 0 .. m - 1 /\ k[n + 1] = "corner" /\ \A p \in 0 .. n - 1 : k[p + 1] # "corner"
          /\ o \in 0 .. m - 1 /\ k[o + 1] = "corner" /\ \A p \in 0 .. o - 1 : k[p + 1] # "corner"
      BY <1>1, <2>1 DEF FirstCorner
    <3>2. ~(n < o) /\ ~(o < n)
      BY <3>1
    <3> QED
      BY <3>2
  <2>2. CASE ~f
    BY <1>1, <2>2 DEF FirstCorner
  <2> QED
    BY <2>1, <2>2
<1> QED
  BY <1>1, <1>2

(* One more point of the search of the barrier's corners.                  *)
LEMMA LastCandidateGoesOn ==
  ASSUME NEW k \in Seq(Classes), NEW leaning, NEW m \in Nat,
         NEW f \in BOOLEAN, NEW n \in Nat, LastCandidate(k, leaning, m, f, n),
         NEW here \in BOOLEAN, here <=> (~f /\ Candidate(k, m))
  PROVE  LastCandidate(k, leaning, m + 1, IF here THEN m \in leaning ELSE f,
                       IF here THEN m ELSE n)
<1>1. \A p \in 0 .. (m + 1) - 1 : p = m \/ p \in 0 .. m - 1
  OBVIOUS
<1>2. m \in 0 .. (m + 1) - 1 /\ \A p \in 0 .. m - 1 : p \in 0 .. (m + 1) - 1
  OBVIOUS
<1>3. CASE f
  BY <1>2, <1>3 DEF LastCandidate
<1>4. CASE ~f /\ ~here
  <2>1. \A p \in 0 .. (m + 1) - 1 : ~(Candidate(k, p) /\ p \in leaning)
    BY <1>1, <1>4 DEF LastCandidate
  <2>2. CASE n = 0 /\ \A p \in 0 .. m - 1 : ~Candidate(k, p)
    BY <1>1, <1>4, <2>1, <2>2 DEF LastCandidate
  <2>3. CASE n \in 0 .. m - 1 /\ Candidate(k, n) /\ \A p \in 0 .. m - 1 : p > n => ~Candidate(k, p)
    BY <1>1, <1>2, <1>4, <2>1, <2>3 DEF LastCandidate
  <2> QED
    BY <1>4, <2>2, <2>3 DEF LastCandidate
<1>5. CASE here
  <2>1. ~f /\ Candidate(k, m)
    BY <1>5
  <2>2. \A p \in 0 .. m - 1 : ~(Candidate(k, p) /\ p \in leaning)
    BY <2>1 DEF LastCandidate
  <2>3. CASE m \in leaning
    BY <1>2, <1>5, <2>1, <2>2, <2>3 DEF LastCandidate
  <2>4. CASE m \notin leaning
    <3>1. \A p \in 0 .. (m + 1) - 1 : ~(Candidate(k, p) /\ p \in leaning)
      BY <1>1, <2>2, <2>4
    <3>2. \A p \in 0 .. (m + 1) - 1 : p > m => ~Candidate(k, p)
      OBVIOUS
    <3> QED
      BY <1>2, <1>5, <2>1, <2>4, <3>1, <3>2 DEF LastCandidate
  <2> QED
    BY <2>3, <2>4
<1> QED
  BY <1>3, <1>4, <1>5

(* Two searches of the same border find the same candidate.                *)
LEMMA OneLastCandidate ==
  ASSUME NEW k \in Seq(Classes), NEW leaning, NEW m \in Nat,
         NEW f \in BOOLEAN, NEW n \in Nat, LastCandidate(k, leaning, m, f, n),
         NEW g \in BOOLEAN, NEW o \in Nat, LastCandidate(k, leaning, m, g, o)
  PROVE  f = g /\ n = o
<1>1. f <=> g
  BY DEF LastCandidate
<1>2. CASE f
  <2>1. /\ n \in 0 .. m - 1 /\ Candidate(k, n) /\ n \in leaning
        /\ \A p \in 0 .. n - 1 : ~(Candidate(k, p) /\ p \in leaning)
        /\ o \in 0 .. m - 1 /\ Candidate(k, o) /\ o \in leaning
        /\ \A p \in 0 .. o - 1 : ~(Candidate(k, p) /\ p \in leaning)
    BY <1>1, <1>2 DEF LastCandidate
  <2>2. ~(n < o) /\ ~(o < n)
    BY <2>1
  <2>3. n = o
    BY <2>1, <2>2
  <2> QED
    BY <1>1, <2>3, Zenon
<1>3. CASE ~f
  <2>1. /\ \/ n = 0 /\ \A p \in 0 .. m - 1 : ~Candidate(k, p)
           \/ n \in 0 .. m - 1 /\ Candidate(k, n) /\ \A p \in 0 .. m - 1 : p > n => ~Candidate(k, p)
        /\ \/ o = 0 /\ \A p \in 0 .. m - 1 : ~Candidate(k, p)
           \/ o \in 0 .. m - 1 /\ Candidate(k, o) /\ \A p \in 0 .. m - 1 : p > o => ~Candidate(k, p)
    BY <1>1, <1>3 DEF LastCandidate
  <2>2. ~(n < o) /\ ~(o < n)
    BY <2>1
  <2>3. n = o
    BY <2>2
  <2> QED
    BY <1>1, <2>3, Zenon
<1> QED
  BY <1>2, <1>3

(* A call begins with a search that has passed no point.                   *)
LEMMA GivenBegins ==
  ASSUME NEW op \in Loops, NEW l \in Seq(Classes), NEW r \in Seq(Classes), Given(op, l, r)
  PROVE  /\ call' = op /\ kinds'["left"] = l /\ kinds'["right"] = r
         /\ kinds' \in [Sides -> Seq(Classes)]
         /\ loop_side' \in Sides /\ loop_i' \in Nat /\ loop_i' <= Count(loop_side)'
         /\ lpt_found' \in [Sides -> BOOLEAN] /\ lpt_id' \in [Sides -> Nat]
         /\ is_straight' \in [Sides -> BOOLEAN] /\ found_in' \in [Sides -> BOOLEAN]
         /\ far_len' \in [Sides -> Nat]
         /\ \A s \in Sides :
              /\ ~Passed(s)' /\ Scanned(s)' = 0
              /\ kinds'[s] \in Seq(Classes) /\ far_len'[s] = Count(s)'
              /\ lpt_found'[s] = FALSE /\ lpt_id'[s] = 0 /\ found_in'[s] = FALSE
              /\ is_straight'[s] \in BOOLEAN
              /\ is_straight'[s] <=> Len(kinds'[s]) >= StraightEnd
<1>1. /\ call' = op /\ kinds' = [left |-> l, right |-> r]
      /\ loop_side' = "left" /\ loop_i' = 0
      /\ lpt_found' = Both(FALSE) /\ lpt_id' = Both(0) /\ found_in' = Both(FALSE)
      /\ is_straight' = [s \in Sides |-> Len(kinds'[s]) >= StraightEnd]
      /\ far_len' = [s \in Sides |-> Len(kinds'[s])]
  BY DEF Given
<1>2. /\ kinds' \in [Sides -> Seq(Classes)] /\ kinds'["left"] = l /\ kinds'["right"] = r
      /\ \A s \in Sides : kinds'[s] \in Seq(Classes) /\ Len(kinds'[s]) \in Nat
  <2>1. kinds' \in [Sides -> Seq(Classes)] /\ kinds'["left"] = l /\ kinds'["right"] = r
    BY <1>1 DEF Sides
  <2> QED
    BY <2>1
<1>3. \A s \in Sides : ~Passed(s)' /\ Scanned(s)' = 0
  BY <1>1 DEF Passed, Scanned, Loops
<1>4. loop_side' \in Sides /\ loop_i' \in Nat /\ loop_i' <= Count(loop_side)'
  BY <1>1, <1>2 DEF Sides, Count
<1>5. /\ lpt_found' \in [Sides -> BOOLEAN] /\ lpt_id' \in [Sides -> Nat]
      /\ found_in' \in [Sides -> BOOLEAN]
      /\ \A s \in Sides : lpt_found'[s] = FALSE /\ lpt_id'[s] = 0 /\ found_in'[s] = FALSE
  BY <1>1 DEF Both
<1>6. /\ is_straight' \in [Sides -> BOOLEAN]
      /\ \A s \in Sides : /\ is_straight'[s] \in BOOLEAN
                          /\ is_straight'[s] <=> Len(kinds'[s]) >= StraightEnd
  <2>1. ASSUME NEW s \in Sides
        PROVE  /\ is_straight'[s] \in BOOLEAN
               /\ is_straight'[s] <=> Len(kinds'[s]) >= StraightEnd
    <3>1. is_straight'[s] = (Len(kinds'[s]) >= StraightEnd)
      BY <1>1, Zenon
    <3>2. (Len(kinds'[s]) >= StraightEnd) \in BOOLEAN
      OBVIOUS
    <3> QED
      BY <3>1, <3>2, Zenon
  <2>2. is_straight' = [s \in Sides |-> is_straight'[s]]
    BY <1>1
  <2> QED
    BY <2>1, <2>2
<1>7. far_len' \in [Sides -> Nat] /\ \A s \in Sides : far_len'[s] = Count(s)'
  BY <1>1, <1>2 DEF Count
<1> QED
  BY <1>1, <1>2, <1>3, <1>4, <1>5, <1>6, <1>7

(* No border, a border without points.                                     *)
LEMMA EmptyIsBorder == <<>> \in Seq(Classes) /\ Len(<<>>) = 0
  OBVIOUS

(* get_corners is called.                                                  *)
LEMMA GetCornersKeeps == CornersIInv /\ GetCorners => CornersIInv'
<1> SUFFICES ASSUME CornersIInv, GetCorners PROVE CornersIInv'
  OBVIOUS
<1>1. PICK l \in Borders : \E r \in {l, <<>>} : Given("corners", l, r)
  BY DEF GetCorners
<1>2. PICK r \in {l, <<>>} : Given("corners", l, r)
  BY <1>1
<1>3. l \in Seq(Classes) /\ r \in Seq(Classes)
  BY CornersAssumption, EmptyIsBorder
<1>4. "corners" \in Loops /\ UNCHANGED <<xs, heading, row>>
  BY DEF Loops, GetCorners
<1>5. CornersTypeOK'
  BY <1>2, <1>3, <1>4, GivenBegins DEF CornersIInv, CornersTypeOK
<1>6. CornersSeen'
  <2>1. kinds'["right"] \in {kinds'["left"], <<>>}
    BY <1>2, <1>3, <1>4, GivenBegins
  <2>2. ASSUME NEW s \in Sides
        PROVE  FirstCorner(kinds'[s], Scanned(s)', lpt_found'[s], lpt_id'[s], is_straight'[s])
    BY <1>2, <1>3, <1>4, GivenBegins, SearchBegins
  <2>3. \A s \in Sides : found_in'[s] = FALSE
    BY <1>2, <1>3, <1>4, GivenBegins
  <2> QED
    BY <2>1, <2>2, <2>3 DEF CornersSeen, FirstCorner
<1>7. call' = "corners"
  BY <1>2 DEF Given
<1> QED
  BY <1>5, <1>6, <1>7 DEF CornersIInv, BarrierSeen, FarSeen, NearFarLineStays

(* get_corners_barrier: its corner of a mirror image.                      *)
LEMMA GetCornersBarrierKeeps == CornersIInv /\ GetCornersBarrier => CornersIInv'
<1> SUFFICES ASSUME CornersIInv, GetCornersBarrier PROVE CornersIInv'
  OBVIOUS
<1>1. PICK border \in BarrierLines :
        LET k == [n \in DOMAIN border |-> border[n].class]
        IN  /\ Given("barrier", k, k)
            /\ xs' = [left  |-> [n \in DOMAIN border |-> border[n].x],
                      right |-> [n \in DOMAIN border |-> Width - border[n].x]]
  BY DEF GetCornersBarrier
<1> DEFINE k == [n \in DOMAIN border |-> border[n].class]
<1>2. border \in Seq([class : Classes, x : Int]) /\ Width \in Int
  BY CornersAssumption
<1>3. /\ k \in Seq(Classes) /\ Len(k) = Len(border) /\ DOMAIN border = 1 .. Len(border)
      /\ \A n \in DOMAIN border : border[n].x \in Int
  <2>1. DOMAIN border = 1 .. Len(border) /\ Len(border) \in Nat
    BY <1>2
  <2>2. \A n \in DOMAIN border : border[n] \in [class : Classes, x : Int]
    BY <1>2, <2>1, ElementOfSeq
  <2>3. k \in [1 .. Len(border) -> Classes]
    BY <2>1, <2>2
  <2> HIDE DEF k
  <2>4. k \in Seq(Classes) /\ Len(k) = Len(border)
    BY <2>1, <2>3
  <2> QED
    BY <2>1, <2>2, <2>4
<1>4. /\ Given("barrier", k, k)
      /\ xs' = [left  |-> [n \in DOMAIN border |-> border[n].x],
                right |-> [n \in DOMAIN border |-> Width - border[n].x]]
  BY <1>1
<1> HIDE DEF k
<1>5. "barrier" \in Loops /\ heading' \in [Sides -> Int] /\ UNCHANGED row
  BY CornersAssumption DEF Loops, GetCornersBarrier
<1>6. CornersTypeOK'
  BY <1>3, <1>4, <1>5, GivenBegins DEF CornersIInv, CornersTypeOK
<1>7. call' = "barrier"
  BY <1>4 DEF Given
<1>8. BarrierSeen'
  <2>1. kinds'["left"] = k /\ kinds'["right"] = k /\ Count("left")' = Len(border)
    <3>1. kinds'["left"] = k /\ kinds'["right"] = k
      BY <1>3, <1>4, <1>5, GivenBegins
    <3> QED
      BY <1>3, <3>1 DEF Count
  <2>2. MirrorOfLeft'
    <3>1. /\ DOMAIN border = 1 .. Len(border)
          /\ xs'["left"] = [n \in DOMAIN border |-> border[n].x]
          /\ xs'["right"] = [n \in DOMAIN border |-> Width - border[n].x]
      BY <1>3, <1>4
    <3>2. \A n \in 1 .. Len(border) :
            /\ xs'["left"][n] = border[n].x /\ xs'["right"][n] = Width - border[n].x
            /\ border[n].x \in Int
      BY <1>3, <3>1
    <3>3. \A s \in Sides : \A n \in 1 .. Count("left")' : xs'[s][n] \in Int
      BY <1>2, <2>1, <3>2 DEF Sides
    <3> QED
      BY <2>1, <3>2, <3>3 DEF MirrorOfLeft
  <2>3. is_straight'["left"] = is_straight'["right"]
    BY <1>4, <2>1 DEF Given, Sides
  <2>4. ASSUME NEW s \in Sides
        PROVE  /\ LastCandidate(kinds'[s], Leaning(s)', Scanned(s)', lpt_found'[s], lpt_id'[s])
               /\ ~Passed(s)' /\ found_in'[s] = FALSE
    <3>1. /\ lpt_found'[s] = FALSE /\ lpt_id'[s] = 0 /\ Scanned(s)' = 0
          /\ ~Passed(s)' /\ found_in'[s] = FALSE
          /\ kinds'[s] \in Seq(Classes)
      BY <1>3, <1>4, <1>5, GivenBegins
    <3>2. LastCandidate(kinds'[s], Leaning(s)', 0, FALSE, 0)
      BY DEF LastCandidate
    <3> QED
      BY <3>1, <3>2
  <2> QED
    BY <2>2, <2>3, <2>4 DEF BarrierSeen
<1> QED
  BY <1>6, <1>7, <1>8 DEF CornersIInv, CornersSeen, FarSeen, NearFarLineStays

(* cross_farline begins with the corners of the far lines.                 *)
LEMMA FarCornersKeeps == CornersIInv /\ FarCorners => CornersIInv'
<1> SUFFICES ASSUME CornersIInv, FarCorners PROVE CornersIInv'
  OBVIOUS
<1>1. PICK l \in FarBorders, r \in FarBorders : Given("far", l, r)
  BY DEF FarCorners
<1>2. l \in Seq(Classes) /\ r \in Seq(Classes)
  BY CornersAssumption
<1>3. "far" \in Loops /\ row' \in [Sides -> Int] /\ UNCHANGED <<xs, heading>>
  BY CornersAssumption DEF Loops, FarCorners
<1>4. CornersTypeOK'
  BY <1>1, <1>2, <1>3, GivenBegins DEF CornersIInv, CornersTypeOK
<1>5. call' = "far"
  BY <1>1 DEF Given
<1>6. FarSeen'
  BY <1>1, <1>2, <1>3, GivenBegins DEF FarSeen
<1> QED
  BY <1>4, <1>5, <1>6 DEF CornersIInv, CornersSeen, BarrierSeen, NearFarLineStays

(* Borders have a number of points.                                        *)
LEMMA CountIsNat ==
  ASSUME CornersTypeOK, NEW s \in Sides
  PROVE  kinds[s] \in Seq(Classes) /\ Count(s) \in Nat /\ Count(s) = Len(kinds[s])
<1>1. kinds[s] \in Seq(Classes)
  BY DEF CornersTypeOK
<1> QED
  BY <1>1 DEF Count

(* The next point is one more of this border,                              *)
LEMMA GoOnScans ==
  ASSUME CornersTypeOK, call \in Loops, NEW here \in Sides, here = loop_side,
         loop_i < Count(here), GoOn, UNCHANGED given
  PROVE  /\ loop_side' \in Sides /\ loop_i' \in Nat /\ loop_i' <= Count(loop_side)'
         /\ ~Passed(here) /\ Scanned(here) = loop_i /\ Scanned(here)' = loop_i + 1
         /\ \A s \in Sides :
              /\ Passed(s)' <=> Passed(s)
              /\ s # here => Scanned(s)' = Scanned(s)
              /\ Leaning(s)' = Leaning(s)
<1>1. /\ loop_i \in Nat /\ Count(here) \in Nat
      /\ call' = call /\ loop_side' = loop_side /\ loop_i' = loop_i + 1
      /\ kinds' = kinds /\ xs' = xs
  BY CountIsNat DEF CornersTypeOK, GoOn, given
<1>2. /\ loop_i' <= Count(loop_side)' /\ loop_i' \in Nat
  BY <1>1 DEF Count
<1>3. ~Passed(here) /\ Scanned(here) = loop_i /\ Scanned(here)' = loop_i + 1
  BY <1>1 DEF Passed, Scanned
<1>4. \A s \in Sides : /\ Passed(s)' <=> Passed(s)
                       /\ s # here => Scanned(s)' = Scanned(s)
  BY <1>1 DEF Passed, Scanned, Count
<1>5. \A s \in Sides : Leaning(s)' = Leaning(s)
  BY <1>1 DEF Leaning, Count, clip
<1> QED
  BY <1>1, <1>2, <1>3, <1>4, <1>5

(* and the end of this border passes it, and begins the other or ends.     *)
LEMMA DoneScans ==
  ASSUME CornersTypeOK, call \in Loops, NEW here \in Sides, here = loop_side,
         Done(loop_side), UNCHANGED given
  PROVE  /\ call' \in {call, Ended(call)}
         /\ loop_side' \in Sides /\ loop_i' \in Nat
         /\ call' \in Loops => loop_i' <= Count(loop_side)'
         /\ ~Passed(here) /\ Scanned(here) = loop_i
         /\ Passed(here)' /\ Scanned(here)' = Count(here)
         /\ \A s \in Sides :
              /\ s # here => (Passed(s)' <=> Passed(s)) /\ Scanned(s)' = Scanned(s)
              /\ Leaning(s)' = Leaning(s)
<1>1. /\ loop_i \in Nat /\ call \in Loops
      /\ \A s \in Sides : Count(s) \in Nat
      /\ kinds' = kinds /\ xs' = xs
  BY CountIsNat DEF CornersTypeOK, given
<1>2. Ended(call) \notin Loops
  BY DEF Ended, Loops
<1>3. ~Passed(here) /\ Scanned(here) = loop_i
  BY <1>1 DEF Passed, Scanned
<1>4. \A s \in Sides : Leaning(s)' = Leaning(s)
  BY <1>1 DEF Leaning, Count, clip
<1>5. CASE loop_side = "left"
  <2>1. loop_side' = "right" /\ loop_i' = 0 /\ call' = call
    BY <1>5 DEF Done
  <2> QED
    BY <1>1, <1>3, <1>4, <1>5, <2>1 DEF Passed, Scanned, Count, Sides
<1>6. CASE loop_side = "right"
  <2>1. call' = Ended(call) /\ UNCHANGED <<loop_side, loop_i>>
    BY <1>6 DEF Done
  <2> QED
    BY <1>1, <1>2, <1>3, <1>4, <1>6, <2>1 DEF Passed, Scanned, Count, Sides
<1> QED
  BY <1>1, <1>5, <1>6 DEF Sides

(* A point of get_corners' loop.                                           *)
LEMMA CornersPointKeeps == CornersIInv /\ CornersPoint => CornersIInv'
<1> SUFFICES ASSUME CornersIInv, CornersPoint PROVE CornersIInv'
  OBVIOUS
<1>0. PICK here \in Sides : here = loop_side
  BY DEF CornersIInv, CornersTypeOK
<1> DEFINE bends == Kind \in Bent /\ loop_i < StraightEnd
<1>1. /\ call = "corners" /\ call \in Loops /\ loop_i < Count(here)
      /\ lpt_found' = [lpt_found EXCEPT ![here] = @ \/ CornerHere]
      /\ lpt_id' = [lpt_id EXCEPT ![here] = IF CornerHere THEN loop_i ELSE @]
      /\ is_straight' = [is_straight EXCEPT ![here] = @ /\ ~bends]
      /\ UNCHANGED <<given, found_in, row, far_len>>
  BY <1>0 DEF CornersPoint, Loops
<1>2. CornersTypeOK /\ CornersSeen
  BY DEF CornersIInv
<1>3. /\ loop_i \in Nat /\ kinds[here] \in Seq(Classes)
      /\ lpt_found[here] \in BOOLEAN /\ lpt_id[here] \in Nat /\ is_straight[here] \in BOOLEAN
      /\ CornerHere \in BOOLEAN /\ bends \in BOOLEAN
      /\ loop_i < Len(kinds[here])
  BY <1>1, <1>2, CountIsNat DEF CornersTypeOK, CornerHere
<1>4. /\ lpt_found' \in [Sides -> BOOLEAN] /\ lpt_id' \in [Sides -> Nat]
      /\ is_straight' \in [Sides -> BOOLEAN]
  <2>1. lpt_found' \in [Sides -> BOOLEAN] /\ is_straight' \in [Sides -> BOOLEAN]
    BY <1>1, <1>2 DEF CornersTypeOK
  <2>2. lpt_id' \in [Sides -> Nat]
    BY <1>1, <1>2, <1>3 DEF CornersTypeOK
  <2> QED
    BY <2>1, <2>2
<1>5. /\ lpt_found'[here] = (lpt_found[here] \/ CornerHere)
      /\ lpt_id'[here] = IF CornerHere THEN loop_i ELSE lpt_id[here]
      /\ is_straight'[here] = (is_straight[here] /\ ~bends)
      /\ \A s \in Sides : s # here => /\ lpt_found'[s] = lpt_found[s] /\ lpt_id'[s] = lpt_id[s]
                                      /\ is_straight'[s] = is_straight[s]
  BY <1>1, <1>2 DEF CornersTypeOK
<1>6. CornerHere <=> ~lpt_found[here] /\ kinds[here][loop_i + 1] = "corner" /\ loop_i < CornerEnd
  BY <1>0 DEF CornerHere, Kind
<1>7. bends <=> kinds[here][loop_i + 1] \in Bent /\ loop_i < StraightEnd
  BY <1>0 DEF Kind
<1> HIDE DEF bends
<1>8. Scanned(here) = loop_i
  BY <1>0, <1>1 DEF Scanned, Passed
<1>9. FirstCorner(kinds[here], loop_i, lpt_found[here], lpt_id[here], is_straight[here])
  BY <1>1, <1>2, <1>3, <1>8 DEF CornersSeen
<1>10. FirstCorner(kinds[here], loop_i + 1, lpt_found'[here], lpt_id'[here], is_straight'[here])
  BY <1>3, <1>5, <1>6, <1>7, <1>9, FirstCornerGoesOn
<1>11. CASE Over
  <2>1. Done(loop_side)
    BY <1>11 DEF CornersPoint
  <2>2. call' \in {"corners", "corners end"}
    BY <1>0, <1>1, <1>2, <2>1, DoneScans DEF Ended
  <2>3. CornersTypeOK'
    BY <1>0, <1>1, <1>2, <1>4, <2>1, <2>2, DoneScans DEF CornersTypeOK, given
  <2>4. FirstCorner(kinds[here], Len(kinds[here]), lpt_found'[here], lpt_id'[here], is_straight'[here])
    <3>1. lpt_found'[here] = TRUE /\ is_straight'[here] = FALSE
      BY <1>0, <1>3, <1>4, <1>11 DEF Over
    <3>2. loop_i + 1 \in Nat /\ loop_i + 1 <= Len(kinds[here]) /\ lpt_id'[here] \in Nat
      BY <1>3, <1>4
    <3>3. FirstCorner(kinds[here], loop_i + 1, TRUE, lpt_id'[here], FALSE)
      BY <1>10, <3>1
    <3> QED
      BY <1>3, <3>1, <3>2, <3>3, FirstCornerBreaks
  <2>5. ASSUME NEW s \in Sides
        PROVE  FirstCorner(kinds'[s], Scanned(s)', lpt_found'[s], lpt_id'[s], is_straight'[s])
    <3>1. kinds' = kinds
      BY <1>1 DEF given
    <3>2. CASE s = here
      <4>1. Scanned(s)' = Len(kinds[here])
        BY <1>0, <1>1, <1>2, <2>1, <3>2, DoneScans DEF Count
      <4> QED
        BY <2>4, <3>1, <3>2, <4>1
    <3>3. CASE s # here
      <4>1. Scanned(s)' = Scanned(s)
        BY <1>0, <1>1, <1>2, <2>1, <3>3, DoneScans
      <4>2. FirstCorner(kinds[s], Scanned(s), lpt_found[s], lpt_id[s], is_straight[s])
        BY <1>1, <1>2 DEF CornersSeen
      <4>3. lpt_found'[s] = lpt_found[s] /\ lpt_id'[s] = lpt_id[s] /\ is_straight'[s] = is_straight[s]
        BY <1>5, <3>3
      <4> QED
        BY <3>1, <4>1, <4>2, <4>3
    <3> QED
      BY <3>2, <3>3
  <2>6. CornersSeen'
    BY <1>1, <1>2, <2>5 DEF CornersSeen, given, FirstCorner
  <2> QED
    BY <2>2, <2>3, <2>6 DEF CornersIInv, BarrierSeen, FarSeen, NearFarLineStays
<1>12. CASE ~Over
  <2>1. GoOn
    BY <1>12 DEF CornersPoint
  <2>2. call' = "corners"
    BY <1>1, <2>1 DEF GoOn
  <2>3. CornersTypeOK'
    BY <1>0, <1>1, <1>2, <1>4, <2>1, <2>2, GoOnScans DEF CornersTypeOK, given
  <2>4. ASSUME NEW s \in Sides
        PROVE  FirstCorner(kinds'[s], Scanned(s)', lpt_found'[s], lpt_id'[s], is_straight'[s])
    <3>1. kinds' = kinds
      BY <1>1 DEF given
    <3>2. CASE s = here
      <4>1. Scanned(s)' = loop_i + 1
        BY <1>0, <1>1, <1>2, <2>1, <3>2, GoOnScans
      <4> QED
        BY <1>10, <3>1, <3>2, <4>1
    <3>3. CASE s # here
      <4>1. Scanned(s)' = Scanned(s)
        BY <1>0, <1>1, <1>2, <2>1, <3>3, GoOnScans
      <4>2. FirstCorner(kinds[s], Scanned(s), lpt_found[s], lpt_id[s], is_straight[s])
        BY <1>1, <1>2 DEF CornersSeen
      <4>3. lpt_found'[s] = lpt_found[s] /\ lpt_id'[s] = lpt_id[s] /\ is_straight'[s] = is_straight[s]
        BY <1>5, <3>3
      <4> QED
        BY <3>1, <4>1, <4>2, <4>3
    <3> QED
      BY <3>2, <3>3
  <2>5. CornersSeen'
    BY <1>1, <1>2, <2>4 DEF CornersSeen, given, FirstCorner
  <2> QED
    BY <2>2, <2>3, <2>5 DEF CornersIInv, BarrierSeen, FarSeen, NearFarLineStays
<1> QED
  BY <1>11, <1>12

(* A point that the maxima left at 0 is passed over by each of the loops.  *)
LEMMA SkipPointKeeps == CornersIInv /\ SkipPoint => CornersIInv'
<1> SUFFICES ASSUME CornersIInv, SkipPoint PROVE CornersIInv'
  OBVIOUS
<1>1. PICK here \in Sides : here = loop_side
  BY DEF CornersIInv, CornersTypeOK
<1>2. /\ CornersTypeOK /\ call \in Loops /\ loop_i < Count(here) /\ GoOn /\ UNCHANGED given
      /\ kinds[here][loop_i + 1] = "none"
      /\ UNCHANGED <<lpt_found, lpt_id, is_straight, found_in, row, far_len>>
  BY <1>1 DEF CornersIInv, SkipPoint, Loops, Kind
<1>3. /\ call' = call /\ kinds' = kinds /\ xs' = xs /\ heading' = heading
      /\ \A s \in Sides : LeadsIn(s)' = LeadsIn(s)
      /\ loop_i \in Nat /\ loop_i < Len(kinds[here]) /\ kinds[here] \in Seq(Classes)
      /\ lpt_id[here] \in Nat /\ lpt_found[here] \in BOOLEAN /\ is_straight[here] \in BOOLEAN
  BY <1>2, CountIsNat DEF GoOn, given, CornersTypeOK, LeadsIn
<1>4. /\ loop_side' \in Sides /\ loop_i' \in Nat /\ loop_i' <= Count(loop_side)'
      /\ ~Passed(here) /\ Scanned(here) = loop_i /\ Scanned(here)' = loop_i + 1
      /\ \A s \in Sides : /\ Passed(s)' <=> Passed(s)
                          /\ s # here => Scanned(s)' = Scanned(s)
                          /\ Leaning(s)' = Leaning(s)
  BY <1>1, <1>2, GoOnScans
<1>5. CornersTypeOK'
  BY <1>2, <1>3, <1>4 DEF CornersTypeOK
<1>6. CornersSeen'
  <2> SUFFICES ASSUME call \in {"corners", "corners end"} PROVE CornersSeen'
    BY <1>3 DEF CornersSeen
  <2>4. ASSUME NEW s \in Sides
        PROVE  FirstCorner(kinds'[s], Scanned(s)', lpt_found'[s], lpt_id'[s], is_straight'[s])
    <3>1. FirstCorner(kinds[s], Scanned(s), lpt_found[s], lpt_id[s], is_straight[s])
      BY DEF CornersIInv, CornersSeen
    <3>2. CASE s = here
      <4>1. FirstCorner(kinds[here], loop_i, lpt_found[here], lpt_id[here], is_straight[here])
        BY <1>4, <3>1, <3>2
      <4>2. FirstCorner(kinds[here], loop_i + 1, lpt_found[here], lpt_id[here], is_straight[here])
        BY <1>2, <1>3, <4>1, FirstCornerSkips
      <4> QED
        BY <1>2, <1>3, <1>4, <3>2, <4>2
    <3>3. CASE s # here
      BY <1>2, <1>3, <1>4, <3>1, <3>3
    <3> QED
      BY <3>2, <3>3
  <2> QED
    BY <1>2, <1>3, <2>4 DEF CornersIInv, CornersSeen, FirstCorner
<1>7. BarrierSeen'
  <2> SUFFICES ASSUME call \in {"barrier", "barrier end"} PROVE BarrierSeen'
    BY <1>3 DEF BarrierSeen
  <2>1. MirrorOfLeft' /\ is_straight'["left"] = is_straight'["right"]
    BY <1>2, <1>3 DEF CornersIInv, BarrierSeen, MirrorOfLeft, Count
  <2>2. ASSUME NEW s \in Sides, Passed(s)'
        PROVE  \E f \in BOOLEAN :
                 /\ LastCandidate(kinds'[s], Leaning(s)', Count(s)', f, lpt_id'[s])
                 /\ lpt_found'[s] = (f /\ ~LeadsIn(s)') /\ found_in'[s] = (f /\ LeadsIn(s)')
    <3>1. Passed(s) /\ Leaning(s)' = Leaning(s) /\ Count(s)' = Count(s)
      BY <1>3, <1>4, <2>2 DEF Count
    <3>2. PICK f \in BOOLEAN :
            /\ LastCandidate(kinds[s], Leaning(s), Count(s), f, lpt_id[s])
            /\ lpt_found[s] = (f /\ ~LeadsIn(s)) /\ found_in[s] = (f /\ LeadsIn(s))
      BY <3>1 DEF CornersIInv, BarrierSeen
    <3> QED
      BY <1>2, <1>3, <3>1, <3>2
  <2>3. ASSUME NEW s \in Sides, ~Passed(s)'
        PROVE  /\ LastCandidate(kinds'[s], Leaning(s)', Scanned(s)', lpt_found'[s], lpt_id'[s])
               /\ found_in'[s] = FALSE
    <3>1. ~Passed(s) /\ Leaning(s)' = Leaning(s)
      BY <1>4, <2>3
    <3>2. /\ LastCandidate(kinds[s], Leaning(s), Scanned(s), lpt_found[s], lpt_id[s])
          /\ found_in[s] = FALSE
      BY <3>1 DEF CornersIInv, BarrierSeen
    <3>3. LastCandidate(kinds[s], Leaning(s), Scanned(s)', lpt_found[s], lpt_id[s])
      <4>1. CASE s = here
        <5>1. LastCandidate(kinds[here], Leaning(here), loop_i, lpt_found[here], lpt_id[here])
          BY <1>4, <3>2, <4>1
        <5>2. FALSE <=> (~lpt_found[here] /\ Candidate(kinds[here], loop_i))
          BY <1>2 DEF Candidate
        <5>3. LastCandidate(kinds[here], Leaning(here), loop_i + 1,
                            IF FALSE THEN loop_i \in Leaning(here) ELSE lpt_found[here],
                            IF FALSE THEN loop_i ELSE lpt_id[here])
          BY <1>3, <5>1, <5>2, LastCandidateGoesOn
        <5>4. /\ (IF FALSE THEN loop_i \in Leaning(here) ELSE lpt_found[here]) = lpt_found[here]
              /\ (IF FALSE THEN loop_i ELSE lpt_id[here]) = lpt_id[here]
          BY Zenon
        <5> QED
          BY <1>4, <4>1, <5>3, <5>4
      <4>2. CASE s # here
        BY <1>4, <3>2, <4>2
      <4> QED
        BY <4>1, <4>2
    <3> QED
      BY <1>2, <1>3, <3>1, <3>2, <3>3
  <2> QED
    BY <2>1, <2>2, <2>3 DEF BarrierSeen
<1>8. FarSeen'
  BY <1>2, <1>3 DEF CornersIInv, FarSeen, Count
<1>9. NearFarLineStays'
  BY <1>2, <1>3 DEF Loops, NearFarLineStays
<1> QED
  BY <1>5, <1>6, <1>7, <1>8, <1>9 DEF CornersIInv

(* The column looked up two points on decides for the point it is at.      *)
LEMMA LeansIsLeaning ==
  ASSUME CornersTypeOK, NEW here \in Sides, here = loop_side, loop_i < Count(here)
  PROVE  LeansIn(here) <=> loop_i \in Leaning(here)
<1>1. loop_i \in Nat /\ Count(here) \in Nat
  BY CountIsNat DEF CornersTypeOK
<1>2. loop_i \in 0 .. Count(here) - 1
  BY <1>1
<1> QED
  BY <1>2 DEF LeansIn, TwoOn, Leaning

(* A point of the loops over the small angles.                             *)
LEMMA BarrierPointKeeps == CornersIInv /\ BarrierPoint => CornersIInv'
<1> SUFFICES ASSUME CornersIInv, BarrierPoint PROVE CornersIInv'
  OBVIOUS
<1>1. PICK here \in Sides : here = loop_side
  BY DEF CornersIInv, CornersTypeOK
<1> DEFINE candidate == ~lpt_found[here] /\ Candidate(kinds[here], loop_i)
<1>2. /\ call = "barrier" /\ loop_i < Count(here) /\ GoOn
      /\ UNCHANGED <<given, is_straight, found_in, row, far_len>>
      /\ CornersTypeOK /\ BarrierSeen /\ call \in Loops
  BY <1>1 DEF CornersIInv, BarrierPoint, Loops
<1>3. /\ lpt_id' = [lpt_id EXCEPT ![here] = IF candidate THEN loop_i ELSE @]
      /\ lpt_found' = [lpt_found EXCEPT ![here] = IF candidate THEN LeansIn(here) ELSE @]
  <2>1. (~lpt_found[here] /\ Kind = "corner" /\ loop_i < StraightEnd) <=> candidate
    BY <1>1 DEF Kind, Candidate
  <2> HIDE DEF candidate
  <2> QED
    BY <1>1, <2>1 DEF BarrierPoint
<1>4. /\ call' = call /\ kinds' = kinds /\ xs' = xs /\ heading' = heading
      /\ \A s \in Sides : LeadsIn(s)' = LeadsIn(s)
      /\ loop_i \in Nat /\ kinds[here] \in Seq(Classes)
      /\ lpt_id[here] \in Nat /\ lpt_found[here] \in BOOLEAN
      /\ candidate \in BOOLEAN /\ LeansIn(here) \in BOOLEAN
  <2>1. LeansIn(here) \in BOOLEAN
    <3>1. CASE here = "left"
      BY <3>1 DEF LeansIn
    <3>2. CASE here # "left"
      BY <3>2 DEF LeansIn
    <3> QED
      BY <3>1, <3>2
  <2> QED
    BY <1>2, <2>1, CountIsNat DEF GoOn, given, CornersTypeOK, LeadsIn
<1> HIDE DEF candidate
<1>5. /\ lpt_found' \in [Sides -> BOOLEAN] /\ lpt_id' \in [Sides -> Nat]
      /\ lpt_found'[here] = IF candidate THEN LeansIn(here) ELSE lpt_found[here]
      /\ lpt_id'[here] = IF candidate THEN loop_i ELSE lpt_id[here]
      /\ \A s \in Sides : s # here => lpt_found'[s] = lpt_found[s] /\ lpt_id'[s] = lpt_id[s]
  <2>1. lpt_found \in [Sides -> BOOLEAN] /\ lpt_id \in [Sides -> Nat]
    BY <1>2 DEF CornersTypeOK
  <2>2. /\ lpt_found'[here] = IF candidate THEN LeansIn(here) ELSE lpt_found[here]
        /\ lpt_id'[here] = IF candidate THEN loop_i ELSE lpt_id[here]
        /\ \A s \in Sides : s # here => lpt_found'[s] = lpt_found[s] /\ lpt_id'[s] = lpt_id[s]
    BY <1>3, <2>1, Zenon
  <2>3. /\ (IF candidate THEN LeansIn(here) ELSE lpt_found[here]) \in BOOLEAN
        /\ (IF candidate THEN loop_i ELSE lpt_id[here]) \in Nat
    BY <1>4
  <2>4. lpt_found' \in [Sides -> BOOLEAN] /\ lpt_id' \in [Sides -> Nat]
    BY <1>3, <2>1, <2>3
  <2> QED
    BY <2>2, <2>4
<1>6. /\ loop_side' \in Sides /\ loop_i' \in Nat /\ loop_i' <= Count(loop_side)'
      /\ ~Passed(here) /\ Scanned(here) = loop_i /\ Scanned(here)' = loop_i + 1
      /\ \A s \in Sides : /\ Passed(s)' <=> Passed(s)
                          /\ s # here => Scanned(s)' = Scanned(s)
                          /\ Leaning(s)' = Leaning(s)
  BY <1>1, <1>2, GoOnScans
<1>7. CornersTypeOK'
  BY <1>2, <1>4, <1>5, <1>6 DEF CornersTypeOK
<1>8. MirrorOfLeft' /\ is_straight'["left"] = is_straight'["right"]
  BY <1>2, <1>4 DEF BarrierSeen, MirrorOfLeft, Count
<1>9. ASSUME NEW s \in Sides, Passed(s)'
      PROVE  \E f \in BOOLEAN :
               /\ LastCandidate(kinds'[s], Leaning(s)', Count(s)', f, lpt_id'[s])
               /\ lpt_found'[s] = (f /\ ~LeadsIn(s)') /\ found_in'[s] = (f /\ LeadsIn(s)')
  <2>1. Passed(s) /\ s # here /\ Leaning(s)' = Leaning(s) /\ Count(s)' = Count(s)
    BY <1>4, <1>6, <1>9 DEF Count
  <2>2. PICK f \in BOOLEAN :
          /\ LastCandidate(kinds[s], Leaning(s), Count(s), f, lpt_id[s])
          /\ lpt_found[s] = (f /\ ~LeadsIn(s)) /\ found_in[s] = (f /\ LeadsIn(s))
    BY <1>2, <2>1 DEF BarrierSeen
  <2> QED
    BY <1>2, <1>4, <1>5, <2>1, <2>2
<1>10. ASSUME NEW s \in Sides, ~Passed(s)'
       PROVE  /\ LastCandidate(kinds'[s], Leaning(s)', Scanned(s)', lpt_found'[s], lpt_id'[s])
              /\ found_in'[s] = FALSE
  <2>1. ~Passed(s) /\ Leaning(s)' = Leaning(s)
    BY <1>6, <1>10
  <2>2. /\ LastCandidate(kinds[s], Leaning(s), Scanned(s), lpt_found[s], lpt_id[s])
        /\ found_in[s] = FALSE
    BY <1>2, <2>1 DEF BarrierSeen
  <2>3. LastCandidate(kinds[s], Leaning(s), Scanned(s)', lpt_found'[s], lpt_id'[s])
    <3>1. CASE s = here
      <4>1. LastCandidate(kinds[here], Leaning(here), loop_i, lpt_found[here], lpt_id[here])
        BY <1>6, <2>2, <3>1
      <4>2. candidate <=> (~lpt_found[here] /\ Candidate(kinds[here], loop_i))
        BY DEF candidate
      <4>3. LastCandidate(kinds[here], Leaning(here), loop_i + 1,
                          IF candidate THEN loop_i \in Leaning(here) ELSE lpt_found[here],
                          IF candidate THEN loop_i ELSE lpt_id[here])
        BY <1>4, <4>1, <4>2, LastCandidateGoesOn
      <4>4. LeansIn(here) = (loop_i \in Leaning(here))
        BY <1>1, <1>2, <1>4, LeansIsLeaning
      <4>5. /\ lpt_found'[here] = IF candidate THEN loop_i \in Leaning(here) ELSE lpt_found[here]
            /\ lpt_id'[here] = IF candidate THEN loop_i ELSE lpt_id[here]
        BY <1>5, <4>4, Zenon
      <4> QED
        BY <1>6, <3>1, <4>3, <4>5
    <3>2. CASE s # here
      BY <1>5, <1>6, <2>2, <3>2
    <3> QED
      BY <3>1, <3>2
  <2> QED
    BY <1>2, <1>4, <2>1, <2>2, <2>3
<1>11. BarrierSeen'
  BY <1>8, <1>9, <1>10 DEF BarrierSeen
<1> QED
  BY <1>2, <1>4, <1>7, <1>11 DEF CornersIInv, CornersSeen, FarSeen, NearFarLineStays

(* A point of a far line.                                                  *)
LEMMA FarPointKeeps == CornersIInv /\ FarPoint => CornersIInv'
<1> SUFFICES ASSUME CornersIInv, FarPoint PROVE CornersIInv'
  OBVIOUS
<1>1. PICK here \in Sides : here = loop_side
  BY DEF CornersIInv, CornersTypeOK
<1>2. /\ CornersTypeOK /\ FarSeen /\ call = "far" /\ call \in Loops
      /\ loop_i < Count(here) /\ GoOn /\ UNCHANGED given
      /\ lpt_found' = [lpt_found EXCEPT ![here] = @ \/ CornerHere]
      /\ lpt_id' = [lpt_id EXCEPT ![here] = IF CornerHere THEN loop_i ELSE @]
      /\ UNCHANGED <<is_straight, found_in, row, far_len>>
  BY <1>1 DEF CornersIInv, FarPoint, Loops
<1>3. /\ call' = "far" /\ kinds' = kinds /\ xs' = xs /\ heading' = heading
      /\ loop_i \in Nat /\ Count(here) \in Nat
  BY <1>2, CountIsNat DEF GoOn, given, CornersTypeOK
<1>4. loop_side' \in Sides /\ loop_i' \in Nat /\ loop_i' <= Count(loop_side)'
  BY <1>1, <1>2, GoOnScans
<1>5. lpt_found' \in [Sides -> BOOLEAN] /\ lpt_id' \in [Sides -> Nat]
  <2>1. lpt_found' \in [Sides -> BOOLEAN]
    BY <1>2 DEF CornersTypeOK
  <2>2. lpt_id' \in [Sides -> Nat]
    BY <1>2, <1>3 DEF CornersTypeOK
  <2> QED
    BY <2>1, <2>2
<1>6. CornersTypeOK'
  BY <1>2, <1>3, <1>4, <1>5 DEF CornersTypeOK
<1>7. \A s \in Sides : s # here => lpt_found'[s] = lpt_found[s]
  BY <1>2 DEF CornersTypeOK
<1>8. Count(here) > 0
  BY <1>2, <1>3
<1>9. FarSeen'
  BY <1>2, <1>3, <1>7, <1>8 DEF FarSeen, Count
<1> QED
  BY <1>3, <1>6, <1>9 DEF CornersIInv, CornersSeen, BarrierSeen, NearFarLineStays

(* The end of a border, all points of which have been passed.              *)
LEMMA BorderDoneKeeps == CornersIInv /\ BorderDone => CornersIInv'
<1> SUFFICES ASSUME CornersIInv, BorderDone PROVE CornersIInv'
  OBVIOUS
<1>1. PICK here \in Sides : here = loop_side
  BY DEF CornersIInv, CornersTypeOK
<1>2. /\ CornersTypeOK /\ CornersSeen /\ FarSeen
      /\ call \in {"corners", "far"} /\ call \in Loops
      /\ loop_i = Count(here) /\ Done(loop_side) /\ UNCHANGED given
      /\ UNCHANGED <<lpt_found, lpt_id, is_straight, found_in, row, far_len>>
  BY <1>1 DEF CornersIInv, BorderDone, Loops
<1>3. /\ call' \in {call, Ended(call)}
      /\ loop_side' \in Sides /\ loop_i' \in Nat
      /\ call' \in Loops => loop_i' <= Count(loop_side)'
      /\ Scanned(here) = loop_i /\ Scanned(here)' = Count(here)
      /\ \A s \in Sides : s # here => Scanned(s)' = Scanned(s)
  BY <1>1, <1>2, DoneScans
<1>4. /\ kinds' = kinds /\ xs' = xs /\ heading' = heading
      /\ call = "corners" => call' \in {"corners", "corners end"}
      /\ call = "far" => call' \in {"far", "far end"}
  BY <1>2, <1>3 DEF given, Ended
<1>5. CornersTypeOK'
  BY <1>2, <1>3, <1>4 DEF CornersTypeOK
<1>6. \A s \in Sides : Scanned(s)' = Scanned(s)
  BY <1>2, <1>3
<1>7. CornersSeen'
  <2>1. ASSUME call = "corners", NEW s \in Sides
        PROVE  FirstCorner(kinds'[s], Scanned(s)', lpt_found'[s], lpt_id'[s], is_straight'[s])
    <3>1. FirstCorner(kinds[s], Scanned(s), lpt_found[s], lpt_id[s], is_straight[s])
      BY <1>2, <2>1 DEF CornersSeen
    <3> QED
      BY <1>2, <1>4, <1>6, <3>1
  <2> QED
    BY <1>2, <1>4, <2>1 DEF CornersSeen, FirstCorner
<1>8. FarSeen'
  BY <1>2, <1>4 DEF FarSeen, Count
<1> QED
  BY <1>2, <1>4, <1>5, <1>7, <1>8 DEF CornersIInv, BarrierSeen, NearFarLineStays

(* The end of a border of the barrier: a corner with a steep piece behind  *)
(* it is one into the barrier, any other is one out of it.                 *)
LEMMA BarrierDoneKeeps == CornersIInv /\ BarrierDone => CornersIInv'
<1> SUFFICES ASSUME CornersIInv, BarrierDone PROVE CornersIInv'
  OBVIOUS
<1>1. PICK here \in Sides : here = loop_side
  BY DEF CornersIInv, CornersTypeOK
<1>2. /\ CornersTypeOK /\ BarrierSeen /\ call = "barrier" /\ call \in Loops
      /\ loop_i = Count(here) /\ Done(loop_side) /\ UNCHANGED given
      /\ found_in' = [found_in EXCEPT ![here] = lpt_found[here] /\ LeadsIn(here)]
      /\ lpt_found' = [lpt_found EXCEPT ![here] = @ /\ ~LeadsIn(here)]
      /\ UNCHANGED <<lpt_id, is_straight, row, far_len>>
  BY <1>1 DEF CornersIInv, BarrierDone, Loops
<1>3. /\ call' \in {call, Ended(call)}
      /\ loop_side' \in Sides /\ loop_i' \in Nat
      /\ call' \in Loops => loop_i' <= Count(loop_side)'
      /\ ~Passed(here) /\ Scanned(here) = loop_i /\ Passed(here)'
      /\ \A s \in Sides :
           /\ s # here => (Passed(s)' <=> Passed(s)) /\ Scanned(s)' = Scanned(s)
           /\ Leaning(s)' = Leaning(s)
  BY <1>1, <1>2, DoneScans
<1>4. /\ kinds' = kinds /\ xs' = xs /\ heading' = heading
      /\ \A s \in Sides : LeadsIn(s)' = LeadsIn(s)
      /\ call' \in {"barrier", "barrier end"}
  BY <1>2, <1>3 DEF given, Ended, LeadsIn
<1>5. /\ lpt_found' \in [Sides -> BOOLEAN] /\ found_in' \in [Sides -> BOOLEAN]
      /\ lpt_found'[here] = (lpt_found[here] /\ ~LeadsIn(here))
      /\ found_in'[here] = (lpt_found[here] /\ LeadsIn(here))
      /\ \A s \in Sides : s # here => lpt_found'[s] = lpt_found[s] /\ found_in'[s] = found_in[s]
  BY <1>2 DEF CornersTypeOK
<1>6. CornersTypeOK'
  BY <1>2, <1>3, <1>4, <1>5 DEF CornersTypeOK
<1>7. MirrorOfLeft' /\ is_straight'["left"] = is_straight'["right"]
  BY <1>2, <1>4 DEF BarrierSeen, MirrorOfLeft, Count
<1>8. ASSUME NEW s \in Sides, Passed(s)'
      PROVE  \E f \in BOOLEAN :
               /\ LastCandidate(kinds'[s], Leaning(s)', Count(s)', f, lpt_id'[s])
               /\ lpt_found'[s] = (f /\ ~LeadsIn(s)') /\ found_in'[s] = (f /\ LeadsIn(s)')
  <2>1. Leaning(s)' = Leaning(s) /\ Count(s)' = Count(s)
    BY <1>3, <1>4 DEF Count
  <2>2. CASE s = here
    <3>1. lpt_found[here] \in BOOLEAN
      BY <1>2 DEF CornersTypeOK
    <3>2. LastCandidate(kinds[here], Leaning(here), Count(here), lpt_found[here], lpt_id[here])
      BY <1>2, <1>3 DEF BarrierSeen
    <3> QED
      BY <1>2, <1>4, <1>5, <2>1, <2>2, <3>1, <3>2
  <2>3. CASE s # here
    <3>1. PICK f \in BOOLEAN :
            /\ LastCandidate(kinds[s], Leaning(s), Count(s), f, lpt_id[s])
            /\ lpt_found[s] = (f /\ ~LeadsIn(s)) /\ found_in[s] = (f /\ LeadsIn(s))
      BY <1>2, <1>3, <1>8, <2>3 DEF BarrierSeen
    <3> QED
      BY <1>2, <1>4, <1>5, <2>1, <2>3, <3>1
  <2> QED
    BY <2>2, <2>3
<1>9. ASSUME NEW s \in Sides, ~Passed(s)'
      PROVE  /\ LastCandidate(kinds'[s], Leaning(s)', Scanned(s)', lpt_found'[s], lpt_id'[s])
             /\ found_in'[s] = FALSE
  <2>1. s # here /\ ~Passed(s) /\ Leaning(s)' = Leaning(s) /\ Scanned(s)' = Scanned(s)
    BY <1>3, <1>9
  <2>2. /\ LastCandidate(kinds[s], Leaning(s), Scanned(s), lpt_found[s], lpt_id[s])
        /\ found_in[s] = FALSE
    BY <1>2, <2>1 DEF BarrierSeen
  <2> QED
    BY <1>2, <1>4, <1>5, <2>1, <2>2
<1>10. BarrierSeen'
  BY <1>7, <1>8, <1>9 DEF BarrierSeen
<1> QED
  BY <1>4, <1>6, <1>10 DEF CornersIInv, CornersSeen, FarSeen, NearFarLineStays

(* Of two far lines that do not fit together the nearer one stays.         *)
LEMMA FarDoneKeeps == CornersIInv /\ FarDone => CornersIInv'
<1> SUFFICES ASSUME CornersIInv, FarDone PROVE CornersIInv'
  OBVIOUS
<1>1. /\ CornersTypeOK /\ FarSeen /\ call = "far end" /\ call' = "far judged"
      /\ UNCHANGED <<given, loop_side, loop_i, lpt_found, lpt_id, is_straight, found_in, row>>
      /\ far_len' =
           IF lpt_found["left"] /\ lpt_found["right"] /\ Apart
             THEN [far_len EXCEPT ![HigherSide] = 0] ELSE far_len
  BY DEF CornersIInv, FarDone
<1>2. /\ far_len \in [Sides -> Nat] /\ row["left"] \in Int /\ row["right"] \in Int
      /\ \A s \in Sides : far_len[s] = Count(s) /\ (lpt_found[s] => far_len[s] > 0)
      /\ MaxRows \in Nat
  BY <1>1, CornersAssumption DEF CornersTypeOK, FarSeen, Sides
<1>3. CornersTypeOK'
  <2>1. far_len' \in [Sides -> Nat]
    BY <1>1, <1>2
  <2> QED
    BY <1>1, <2>1 DEF CornersTypeOK, given, Loops
<1>4. NearFarLineStays'
  <2> SUFFICES ASSUME lpt_found["left"], lpt_found["right"], NEW s \in Sides, far_len'[s] = 0
               PROVE  row[s] < row[Other(s)] /\ far_len'[Other(s)] > 0
    BY <1>1 DEF NearFarLineStays
  <2>1. far_len["left"] > 0 /\ far_len["right"] > 0
    BY <1>2 DEF Sides
  <2>2. Apart /\ far_len' = [far_len EXCEPT ![HigherSide] = 0]
    <3>1. ASSUME ~Apart PROVE FALSE
      <4>1. far_len' = far_len
        BY <1>1, <3>1
      <4> QED
        BY <2>1, <4>1 DEF Sides
    <3> QED
      BY <1>1, <3>1
  <2>3. row["left"] # row["right"]
    BY <1>2, <2>2 DEF Apart
  <2>4. CASE row["left"] < row["right"]
    BY <1>2, <2>1, <2>2, <2>4 DEF HigherSide, Other, Sides
  <2>5. CASE row["right"] < row["left"]
    BY <1>2, <2>1, <2>2, <2>5 DEF HigherSide, Other, Sides
  <2> QED
    BY <1>2, <2>3, <2>4, <2>5
<1> QED
  BY <1>1, <1>3, <1>4 DEF CornersIInv, CornersSeen, BarrierSeen, FarSeen

(* The same for both sides.                                                *)
LEMMA BothIn == \A S, v : v \in S => Both(v) \in [Sides -> S]
  BY DEF Both

(* Without a call there is nothing found yet.                              *)
LEMMA NothingFoundYet ==
  ASSUME call = "none", kinds = Both(<<>>), heading = Both(90), loop_side = "left", loop_i = 0,
         lpt_found = Both(FALSE), lpt_id = Both(0), is_straight = Both(FALSE),
         found_in = Both(FALSE), row = Both(0), far_len = Both(0)
  PROVE  CornersIInv
<1>1. kinds \in [Sides -> Seq(Classes)] /\ heading \in [Sides -> Int]
  <2>1. kinds \in [Sides -> Seq(Classes)]
    BY EmptyIsBorder, BothIn
  <2>2. heading \in [Sides -> Int]
    BY DEF Both
  <2> QED
    BY <2>1, <2>2
<1>2. /\ lpt_found \in [Sides -> BOOLEAN] /\ lpt_id \in [Sides -> Nat]
      /\ is_straight \in [Sides -> BOOLEAN] /\ found_in \in [Sides -> BOOLEAN]
      /\ row \in [Sides -> Int] /\ far_len \in [Sides -> Nat]
  <2>1. /\ lpt_found \in [Sides -> BOOLEAN] /\ is_straight \in [Sides -> BOOLEAN]
        /\ found_in \in [Sides -> BOOLEAN]
    BY DEF Both
  <2>2. lpt_id \in [Sides -> Nat] /\ row \in [Sides -> Int] /\ far_len \in [Sides -> Nat]
    BY DEF Both
  <2> QED
    BY <2>1, <2>2
<1>3. CornersTypeOK
  BY <1>1, <1>2 DEF CornersTypeOK, Loops, Sides
<1> QED
  BY <1>3 DEF CornersIInv, CornersSeen, BarrierSeen, FarSeen, NearFarLineStays

(* So it is at the beginning.                                              *)
LEMMA CornersInitially == CornersInit => CornersIInv
  BY NothingFoundYet DEF CornersInit

(* Every step.                                                             *)
LEMMA CornersNextKeeps == CornersIInv /\ [CornersNext]_cornerVars => CornersIInv'
<1>1. CornersIInv /\ Return => CornersIInv'
  <2> SUFFICES ASSUME Return PROVE CornersIInv'
    OBVIOUS
  <2>1. /\ call' = "none" /\ kinds' = Both(<<>>) /\ heading' = Both(90)
        /\ loop_side' = "left" /\ loop_i' = 0
        /\ lpt_found' = Both(FALSE) /\ lpt_id' = Both(0) /\ is_straight' = Both(FALSE)
        /\ found_in' = Both(FALSE) /\ row' = Both(0) /\ far_len' = Both(0)
    BY DEF Return
  <2>2. kinds' \in [Sides -> Seq(Classes)] /\ heading' \in [Sides -> Int]
    <3>1. kinds' \in [Sides -> Seq(Classes)]
      BY <2>1, EmptyIsBorder, BothIn
    <3>2. heading' \in [Sides -> Int]
      BY <2>1 DEF Both
    <3> QED
      BY <3>1, <3>2
  <2>3. /\ lpt_found' \in [Sides -> BOOLEAN] /\ lpt_id' \in [Sides -> Nat]
        /\ is_straight' \in [Sides -> BOOLEAN] /\ found_in' \in [Sides -> BOOLEAN]
        /\ row' \in [Sides -> Int] /\ far_len' \in [Sides -> Nat]
    <3>1. /\ lpt_found' \in [Sides -> BOOLEAN] /\ is_straight' \in [Sides -> BOOLEAN]
          /\ found_in' \in [Sides -> BOOLEAN]
      BY <2>1 DEF Both
    <3>2. lpt_id' \in [Sides -> Nat] /\ row' \in [Sides -> Int] /\ far_len' \in [Sides -> Nat]
      BY <2>1 DEF Both
    <3> QED
      BY <3>1, <3>2
  <2>4. CornersTypeOK'
    BY <2>1, <2>2, <2>3 DEF CornersTypeOK, Loops, Sides
  <2> QED
    BY <2>1, <2>4 DEF CornersIInv, CornersSeen, BarrierSeen, FarSeen, NearFarLineStays
<1>2. CornersIInv /\ UNCHANGED cornerVars => CornersIInv'
  <2> SUFFICES ASSUME CornersIInv, UNCHANGED cornerVars PROVE CornersIInv'
    OBVIOUS
  <2>1. /\ call' = call /\ kinds' = kinds /\ xs' = xs /\ heading' = heading
        /\ \A s \in Sides : LeadsIn(s)' = LeadsIn(s)
        /\ UNCHANGED <<loop_side, loop_i, lpt_found, lpt_id, is_straight, found_in, row, far_len>>
    BY DEF cornerVars, given, LeadsIn
  <2>2. \A s \in Sides : /\ Passed(s)' <=> Passed(s)
                         /\ Scanned(s)' = Scanned(s) /\ Leaning(s)' = Leaning(s)
                         /\ Count(s)' = Count(s)
    BY <2>1 DEF Passed, Scanned, Leaning, Count, clip
  <2>3. CornersTypeOK'
    BY <2>1 DEF CornersIInv, CornersTypeOK, Count
  <2>4. CornersSeen'
    BY <2>1 DEF CornersIInv, CornersSeen, FirstCorner, Scanned, Passed, Count
  <2>5. BarrierSeen'
    <3> SUFFICES ASSUME call \in {"barrier", "barrier end"} PROVE BarrierSeen'
      BY <2>1 DEF BarrierSeen
    <3>1. MirrorOfLeft' /\ is_straight'["left"] = is_straight'["right"]
      BY <2>1 DEF CornersIInv, BarrierSeen, MirrorOfLeft, Count
    <3>2. ASSUME NEW s \in Sides, Passed(s)'
          PROVE  \E f \in BOOLEAN :
                   /\ LastCandidate(kinds'[s], Leaning(s)', Count(s)', f, lpt_id'[s])
                   /\ lpt_found'[s] = (f /\ ~LeadsIn(s)') /\ found_in'[s] = (f /\ LeadsIn(s)')
      <4>1. PICK f \in BOOLEAN :
              /\ LastCandidate(kinds[s], Leaning(s), Count(s), f, lpt_id[s])
              /\ lpt_found[s] = (f /\ ~LeadsIn(s)) /\ found_in[s] = (f /\ LeadsIn(s))
        BY <2>2, <3>2 DEF CornersIInv, BarrierSeen
      <4> QED
        BY <2>1, <2>2, <4>1
    <3>3. ASSUME NEW s \in Sides, ~Passed(s)'
          PROVE  /\ LastCandidate(kinds'[s], Leaning(s)', Scanned(s)', lpt_found'[s], lpt_id'[s])
                 /\ found_in'[s] = FALSE
      <4>1. /\ LastCandidate(kinds[s], Leaning(s), Scanned(s), lpt_found[s], lpt_id[s])
            /\ found_in[s] = FALSE
        BY <2>2, <3>3 DEF CornersIInv, BarrierSeen
      <4> QED
        BY <2>1, <2>2, <4>1
    <3> QED
      BY <3>1, <3>2, <3>3 DEF BarrierSeen
  <2>6. FarSeen' /\ NearFarLineStays'
    BY <2>1, <2>2 DEF CornersIInv, FarSeen, NearFarLineStays
  <2> QED
    BY <2>3, <2>4, <2>5, <2>6 DEF CornersIInv
<1> QED
  BY <1>1, <1>2, GetCornersKeeps, GetCornersBarrierKeeps, FarCornersKeeps, CornersPointKeeps,
     SkipPointKeeps, BarrierPointKeeps, FarPointKeeps, BorderDoneKeeps, BarrierDoneKeeps,
     FarDoneKeeps DEF CornersNext

(* A search that has passed the left border knows its corners.             *)
LEMMA LeftComplete == CornersIInv => CornersComplete
<1> DEFINE passed == call = "corners end" \/ (call = "corners" /\ loop_side = "right")
<1> SUFFICES ASSUME CornersIInv, passed
             PROVE  LET l == CornersOf("left", CornerEnd)
                    IN  /\ lpt_found["left"] <=> l # {}
                        /\ l # {} => /\ lpt_id["left"] \in l
                                     /\ \A n \in l : lpt_id["left"] <= n
                                     /\ ~is_straight["left"]
                        /\ is_straight["left"] <=>
                             /\ Count("left") >= StraightEnd
                             /\ \A n \in 1 .. StraightEnd : kinds["left"][n] \notin Bent
  BY DEF CornersComplete
<1> HIDE DEF passed
<1>1. /\ kinds["left"] \in Seq(Classes) /\ Count("left") = Len(kinds["left"])
      /\ lpt_found["left"] \in BOOLEAN /\ lpt_id["left"] \in Nat
      /\ is_straight["left"] \in BOOLEAN
  BY CountIsNat DEF CornersIInv, CornersTypeOK, Sides
<1>2. FirstCorner(kinds["left"], Len(kinds["left"]), lpt_found["left"], lpt_id["left"],
                  is_straight["left"])
  <2>1. Scanned("left") = Len(kinds["left"])
    BY <1>1 DEF Scanned, Passed, Loops, passed
  <2> QED
    BY <2>1 DEF CornersIInv, CornersSeen, Sides, passed
<1>3. CornersOf("left", CornerEnd) =
        {p \in 0 .. Len(kinds["left"]) - 1 : p < CornerEnd /\ kinds["left"][p + 1] = "corner"}
  BY <1>1 DEF CornersOf
<1> DEFINE l == CornersOf("left", CornerEnd)
<1> HIDE DEF l
<1>4. l = {p \in 0 .. Len(kinds["left"]) - 1 : p < CornerEnd /\ kinds["left"][p + 1] = "corner"}
  BY <1>3 DEF l
<1>5. /\ CornerEnd \in Nat /\ StraightEnd \in Nat /\ CornerEnd <= StraightEnd
      /\ Len(kinds["left"]) \in Nat
  BY <1>1, CornersAssumption
<1>6. lpt_found["left"] <=> l # {}
  BY <1>2, <1>4 DEF FirstCorner
<1>7. is_straight["left"] <=>
        Len(kinds["left"]) >= StraightEnd /\ \A n \in 1 .. StraightEnd : kinds["left"][n] \notin Bent
  BY <1>2, <1>5 DEF FirstCorner
<1>8. ASSUME l # {} PROVE /\ lpt_id["left"] \in l /\ (\A n \in l : lpt_id["left"] <= n)
                          /\ ~is_straight["left"]
  <2>1. /\ lpt_id["left"] \in 0 .. Len(kinds["left"]) - 1 /\ lpt_id["left"] < CornerEnd
        /\ kinds["left"][lpt_id["left"] + 1] = "corner"
        /\ \A p \in 0 .. lpt_id["left"] - 1 : kinds["left"][p + 1] # "corner"
    BY <1>2, <1>6, <1>8 DEF FirstCorner
  <2>2. lpt_id["left"] \in l
    BY <1>4, <2>1
  <2>3. ASSUME NEW n \in l PROVE lpt_id["left"] <= n
    <3>1. n \in 0 .. Len(kinds["left"]) - 1 /\ kinds["left"][n + 1] = "corner"
      BY <1>4
    <3> QED
      BY <1>1, <1>5, <2>1, <3>1
  <2>4. lpt_id["left"] + 1 \in 1 .. StraightEnd /\ kinds["left"][lpt_id["left"] + 1] \in Bent
    BY <1>5, <2>1 DEF Bent
  <2> QED
    BY <1>7, <2>2, <2>3, <2>4
<1> QED
  BY <1>1, <1>6, <1>7, <1>8, Zenon DEF l

(* A mirror image leans in where the border does.                          *)
LEMMA LeaningAlike ==
  ASSUME CornersTypeOK, MirrorOfLeft
  PROVE  Leaning("left") = Leaning("right")
<1>1. Count("left") \in Nat /\ Count("right") = Count("left")
  BY CountIsNat DEF MirrorOfLeft, Count, Sides
<1>2. ASSUME NEW p \in 0 .. Count("left") - 1
      PROVE  /\ p + 1 \in 1 .. Count("left")
             /\ clip(p + 2, 0, Count("left") - 1) + 1 \in 1 .. Count("left")
  BY <1>1 DEF clip
<1>3. ASSUME NEW a \in 1 .. Count("left"), NEW b \in 1 .. Count("left")
      PROVE  xs["left"][a] <= xs["left"][b] <=> xs["right"][a] >= xs["right"][b]
  <2>1. /\ xs["left"][a] \in Int /\ xs["left"][b] \in Int /\ Width \in Int
        /\ xs["right"][a] = Width - xs["left"][a] /\ xs["right"][b] = Width - xs["left"][b]
    BY CornersAssumption DEF MirrorOfLeft, Sides
  <2> QED
    BY <2>1
<1> QED
  BY <1>1, <1>2, <1>3 DEF Leaning

(* Two equal roadsides give equal corners.                                 *)
LEMMA SidesAlike == CornersIInv => CornersMirror
<1> DEFINE over == call \in {"corners end", "barrier end"}
<1> SUFFICES ASSUME CornersIInv, over, Count("left") = Count("right")
             PROVE  /\ \A s \in Sides : ~(lpt_found[s] /\ found_in[s])
                    /\ (lpt_found["left"] \/ found_in["left"])
                         = (lpt_found["right"] \/ found_in["right"])
                    /\ lpt_id["left"] = lpt_id["right"]
                    /\ is_straight["left"] = is_straight["right"]
                    /\ (call = "barrier end" /\ heading["right"] = 180 - heading["left"]) =>
                         IF BetweenThresholds(heading["left"])
                           THEN ~lpt_found["left"] /\ ~found_in["right"]
                           ELSE found_in["left"] = found_in["right"]
  BY DEF CornersMirror
<1> HIDE DEF over
<1>1. CornersTypeOK /\ CornersSeen /\ BarrierSeen
  BY DEF CornersIInv
<1>2. ASSUME NEW s \in Sides
      PROVE  /\ kinds[s] \in Seq(Classes) /\ Count(s) \in Nat
             /\ lpt_found[s] \in BOOLEAN /\ lpt_id[s] \in Nat /\ is_straight[s] \in BOOLEAN
             /\ Passed(s) /\ Scanned(s) = Count(s)
  BY <1>1, CountIsNat DEF CornersTypeOK, Passed, Scanned, Loops, over
<1>3. "left" \in Sides /\ "right" \in Sides
  BY DEF Sides
<1>4. CASE call = "corners end"
  <2>1. kinds["right"] = kinds["left"]
    <3>1. kinds["right"] \in {kinds["left"], <<>>}
      BY <1>1, <1>4 DEF CornersSeen
    <3>2. CASE kinds["right"] = <<>>
      <4>1. Len(kinds["left"]) = 0
        BY <3>2, EmptyIsBorder DEF Count
      <4>2. kinds["left"] \in Seq(Classes)
        BY <1>2, <1>3
      <4> QED
        BY <3>2, <4>1, <4>2, EmptySeq
    <3> QED
      BY <3>1, <3>2
  <2>2. ASSUME NEW s \in Sides
        PROVE  /\ FirstCorner(kinds["left"], Count("left"), lpt_found[s], lpt_id[s], is_straight[s])
               /\ found_in[s] = FALSE
    <3>1. /\ FirstCorner(kinds[s], Count(s), lpt_found[s], lpt_id[s], is_straight[s])
          /\ found_in[s] = FALSE
      BY <1>1, <1>2, <1>4 DEF CornersSeen
    <3>2. kinds[s] = kinds["left"] /\ Count(s) = Count("left")
      BY <2>1 DEF Sides
    <3> QED
      BY <3>1, <3>2
  <2>3. /\ kinds["left"] \in Seq(Classes) /\ Count("left") \in Nat
        /\ lpt_found["left"] \in BOOLEAN /\ lpt_found["right"] \in BOOLEAN
        /\ lpt_id["left"] \in Nat /\ lpt_id["right"] \in Nat
        /\ is_straight["left"] \in BOOLEAN /\ is_straight["right"] \in BOOLEAN
    BY <1>2, <1>3
  <2>4. /\ FirstCorner(kinds["left"], Count("left"), lpt_found["left"], lpt_id["left"],
                       is_straight["left"])
        /\ FirstCorner(kinds["left"], Count("left"), lpt_found["right"], lpt_id["right"],
                       is_straight["right"])
    BY <1>3, <2>2
  <2>5. \A s \in Sides : found_in[s] = FALSE
    BY <2>2
  <2>6. /\ lpt_found["left"] = lpt_found["right"] /\ lpt_id["left"] = lpt_id["right"]
        /\ is_straight["left"] = is_straight["right"]
    BY <2>3, <2>4, OneFirstCorner
  <2> QED
    BY <1>3, <1>4, <2>5, <2>6
<1>5. CASE call = "barrier end"
  <2>1. MirrorOfLeft /\ is_straight["left"] = is_straight["right"]
    BY <1>1, <1>5 DEF BarrierSeen
  <2>2. kinds["right"] = kinds["left"] /\ Leaning("left") = Leaning("right")
    BY <1>1, <2>1, LeaningAlike DEF MirrorOfLeft
  <2>3. PICK f \in BOOLEAN :
          /\ LastCandidate(kinds["left"], Leaning("left"), Count("left"), f, lpt_id["left"])
          /\ lpt_found["left"] = (f /\ ~LeadsIn("left")) /\ found_in["left"] = (f /\ LeadsIn("left"))
    BY <1>1, <1>2, <1>3, <1>5 DEF BarrierSeen
  <2>4. PICK g \in BOOLEAN :
          /\ LastCandidate(kinds["right"], Leaning("right"), Count("right"), g, lpt_id["right"])
          /\ lpt_found["right"] = (g /\ ~LeadsIn("right")) /\ found_in["right"] = (g /\ LeadsIn("right"))
    BY <1>1, <1>2, <1>3, <1>5 DEF BarrierSeen
  <2>5. LastCandidate(kinds["left"], Leaning("left"), Count("left"), g, lpt_id["right"])
    BY <2>2, <2>4
  <2>6. f = g /\ lpt_id["left"] = lpt_id["right"]
    <3>1. /\ kinds["left"] \in Seq(Classes) /\ Count("left") \in Nat
          /\ lpt_id["left"] \in Nat /\ lpt_id["right"] \in Nat
      BY <1>2, <1>3
    <3>2. LastCandidate(kinds["left"], Leaning("left"), Count("left"), f, lpt_id["left"])
      BY <2>3
    <3> QED
      BY <2>5, <3>1, <3>2, OneLastCandidate
  <2>7. \A s \in Sides : LeadsIn(s) \in BOOLEAN
    <3>1. ASSUME NEW s \in Sides PROVE LeadsIn(s) \in BOOLEAN
      <4>1. CASE s = "left"
        BY <4>1 DEF LeadsIn
      <4>2. CASE s # "left"
        BY <4>2 DEF LeadsIn
      <4> QED
        BY <4>1, <4>2
    <3> QED
      BY <3>1
  <2>8. \A s \in Sides : ~(lpt_found[s] /\ found_in[s])
    <3>1. ~(lpt_found["left"] /\ found_in["left"])
      BY <2>3, Zenon
    <3>2. ~(lpt_found["right"] /\ found_in["right"])
      BY <2>4, Zenon
    <3> QED
      BY <3>1, <3>2 DEF Sides
  <2>9. (lpt_found["left"] \/ found_in["left"]) = (lpt_found["right"] \/ found_in["right"])
    <3>1. /\ LeadsIn("left") \in BOOLEAN /\ LeadsIn("right") \in BOOLEAN
          /\ f \in BOOLEAN /\ g \in BOOLEAN /\ f = g
      BY <1>3, <2>6, <2>7
    <3>2. ASSUME NEW into \in BOOLEAN, NEW there \in BOOLEAN
          PROVE  ((there /\ ~into) \/ (there /\ into)) = there
      OBVIOUS
    <3>3. (lpt_found["left"] \/ found_in["left"]) = f
      BY <2>3, <3>1, <3>2, Zenon
    <3>4. (lpt_found["right"] \/ found_in["right"]) = g
      BY <2>4, <3>1, <3>2, Zenon
    <3> QED
      BY <3>1, <3>3, <3>4, Zenon
  <2>10. ASSUME heading["right"] = 180 - heading["left"]
         PROVE  IF BetweenThresholds(heading["left"])
                  THEN ~lpt_found["left"] /\ ~found_in["right"]
                  ELSE found_in["left"] = found_in["right"]
    <3>1. heading["left"] \in Int
      BY <1>1, <1>3 DEF CornersTypeOK
    <3>2. CASE BetweenThresholds(heading["left"])
      <4>1. LeadsIn("left") /\ ~LeadsIn("right")
        BY <2>10, <3>1, <3>2 DEF LeadsIn, BetweenThresholds
      <4> QED
        BY <2>3, <2>4, <3>2, <4>1
    <3>3. CASE ~BetweenThresholds(heading["left"])
      <4>1. LeadsIn("left") <=> LeadsIn("right")
        BY <2>10, <3>1, <3>3 DEF LeadsIn, BetweenThresholds
      <4>2. LeadsIn("left") = LeadsIn("right")
        BY <1>3, <2>7, <4>1
      <4> QED
        BY <2>3, <2>4, <2>6, <3>3, <4>2
    <3> QED
      BY <3>2, <3>3
  <2> QED
    BY <2>1, <2>6, <2>8, <2>9, <2>10
<1> QED
  BY <1>4, <1>5 DEF over

(* For borders of any length and any near ends: the corners found are the  *)
(* ones there are, the same on both sides of a road that looks the same on *)
(* both, leading into the barrier on both or none but for the angles that  *)
(* lie between the two sides' thresholds, and of two far lines that do not *)
(* fit together the nearer stays.                                          *)
THEOREM CornersAsThereAre == CornersSpec => []CornersFound
<1>1. CornersIInv => CornersFound
  BY LeftComplete, SidesAlike DEF CornersIInv, CornersFound
<1> QED
  BY <1>1, CornersInitially, CornersNextKeeps, PTL DEF CornersSpec
-----------------------------------------------------------------------------
(* Border lines: the samples.                                              *)

(* A quotient lies between whole numbers that the dividend lies between.   *)
LEMMA ProductsInOrder ==
  ASSUME NEW a \in Int, NEW b \in Int, NEW n \in Nat, a <= b
  PROVE  a * n <= b * n
<1>1. (b - a) \in Nat
  OBVIOUS
<1>2. \A m \in Nat : m * n >= 0
  OBVIOUS
<1>3. (b - a) * n >= 0
  BY <1>1, <1>2
<1>4. (b - a) * n = b * n - a * n
  OBVIOUS
<1>5. a * n \in Int /\ b * n \in Int
  OBVIOUS
<1> QED
  BY <1>3, <1>4, <1>5

(* ... and so does the quotient.                                           *)
LEMMA QuotientBetween ==
  ASSUME NEW n \in Int, NEW d \in Nat \ {0}, NEW low \in Int, NEW up \in Int,
         low * d <= n, n <= up * d
  PROVE  n \div d \in Int /\ low <= n \div d /\ n \div d <= up
<1> DEFINE q == n \div d
<1>1. q \in Int /\ q * d <= n /\ n < (q + 1) * d
  <2>1. q \in Int /\ n % d \in 0 .. d - 1 /\ n = d * q + (n % d)
    OBVIOUS
  <2>2. (q + 1) * d = d * q + d /\ q * d = d * q
    BY <2>1
  <2>3. d * q \in Int
    BY <2>1
  <2> QED
    BY <2>1, <2>2, <2>3
<1> HIDE DEF q
<1>2. low * d \in Int /\ up * d \in Int /\ q * d \in Int /\ (q + 1) * d \in Int
  BY <1>1
<1>3. low <= q
  <2> SUFFICES ASSUME q + 1 <= low
               PROVE  FALSE
    BY <1>1
  <2>1. (q + 1) * d <= low * d
    BY <1>1, ProductsInOrder
  <2> QED
    BY <2>1, <1>1, <1>2
<1>4. q <= up
  <2> SUFFICES ASSUME up + 1 <= q
               PROVE  FALSE
    BY <1>1
  <2>1. (up + 1) * d <= q * d
    BY <1>1, ProductsInOrder
  <2>2. (up + 1) * d = up * d + d
    OBVIOUS
  <2> QED
    BY <2>1, <2>2, <1>1, <1>2
<1> QED
  BY <1>1, <1>3, <1>4 DEF q

(* The point that divides the piece from a to b as the code divides it is  *)
(* no further than Dist from the last sample r, and exactly Dist when the  *)
(* piece leads straight away from r.                                       *)
Divided(a, b, r) ==
  (a * (Abs(b - r) - Dist) + b * (Dist - Abs(a - r))) \div (Abs(b - r) - Abs(a - r))

(* The new point is never further than Dist from the last sample, and exactly *)
(* that far where the line runs straight on.                               *)
LEMMA NewSample ==
  ASSUME NEW a \in Int, NEW b \in Int, NEW r \in Int, Abs(a - r) < Dist, Dist <= Abs(b - r)
  PROVE  /\ Divided(a, b, r) \in Int
         /\ Abs(Divided(a, b, r) - r) <= Dist
         /\ r <= a /\ a <= b => Divided(a, b, r) = r + Dist
         /\ b <= a /\ a <= r => Divided(a, b, r) = r - Dist
<1> DEFINE d0 == Abs(a - r)
           d1 == Abs(b - r)
           p == d1 - Dist
           q == Dist - d0
           u == a - r
           v == b - r
           d == d1 - d0
           n == a * p + b * q
<1>1. /\ Dist \in Nat \ {0} /\ d0 \in Nat /\ d1 \in Nat /\ p \in Nat /\ q \in Nat
      /\ u \in Int /\ v \in Int /\ d \in Nat \ {0} /\ d = p + q
      /\ -d0 <= u /\ u <= d0 /\ -d1 <= v /\ v <= d1
      /\ r <= a /\ a <= b => u = d0 /\ v = d1
      /\ b <= a /\ a <= r => u = -d0 /\ v = -d1
      /\ a = r + u /\ b = r + v /\ p = d1 - Dist /\ q = Dist - d0
  BY LineAssumption DEF Abs
<1>2. Divided(a, b, r) = n \div d
  BY DEF Divided
<1> HIDE DEF d0, d1, p, q, u, v, d
<1>3. n = r * d + u * p + v * q
  <2>1. (r + u) * p = r * p + u * p /\ (r + v) * q = r * q + v * q /\ r * (p + q) = r * p + r * q
    BY <1>1
  <2>2. /\ r * p \in Int /\ u * p \in Int /\ r * q \in Int /\ v * q \in Int
        /\ n = (r + u) * p + (r + v) * q /\ r * d = r * (p + q)
    BY <1>1
  <2> HIDE DEF n
  <2> QED
    BY <2>1, <2>2
<1>4. d0 * p + d1 * q = Dist * d
  <2>1. d0 * (d1 - Dist) = d0 * d1 - d0 * Dist /\ d1 * (Dist - d0) = d1 * Dist - d1 * d0
        /\ Dist * ((d1 - Dist) + (Dist - d0)) = Dist * d1 - Dist * d0
    BY <1>1
  <2>2. d0 * d1 \in Int /\ d0 * Dist \in Int /\ d1 * Dist \in Int
        /\ d0 * d1 = d1 * d0 /\ d0 * Dist = Dist * d0 /\ d1 * Dist = Dist * d1
    BY <1>1
  <2>3. d0 * p = d0 * (d1 - Dist) /\ d1 * q = d1 * (Dist - d0) /\ Dist * d = Dist * ((d1 - Dist) + (Dist - d0))
    BY <1>1
  <2> QED
    BY <2>1, <2>2, <2>3
<1>5. /\ u * p <= d0 * p /\ v * q <= d1 * q
      /\ (-d0) * p <= u * p /\ (-d1) * q <= v * q
  BY <1>1, ProductsInOrder
<1>6. (-d0) * p = -(d0 * p) /\ (-d1) * q = -(d1 * q)
  BY <1>1
<1>7. /\ (r - Dist) * d = r * d - Dist * d /\ (r + Dist) * d = r * d + Dist * d
      /\ r * d \in Int /\ Dist * d \in Int /\ d0 * p \in Int /\ d1 * q \in Int
      /\ u * p \in Int /\ v * q \in Int /\ r - Dist \in Int /\ r + Dist \in Int
  BY <1>1
<1> HIDE DEF n
<1>8. n \in Int /\ (r - Dist) * d <= n /\ n <= (r + Dist) * d
  BY <1>3, <1>4, <1>5, <1>6, <1>7
<1>9. n \div d \in Int /\ r - Dist <= n \div d /\ n \div d <= r + Dist
  BY <1>1, <1>7, <1>8, QuotientBetween
<1>10. ASSUME r <= a, a <= b
       PROVE  n \div d = r + Dist
  <2>1. n = (r + Dist) * d
    BY <1>10, <1>1, <1>3, <1>4, <1>7
  <2> QED
    BY <2>1, <1>1, <1>7, <1>8, <1>9, QuotientBetween
<1>11. ASSUME b <= a, a <= r
       PROVE  n \div d = r - Dist
  <2>1. n = (r - Dist) * d
    BY <1>11, <1>1, <1>3, <1>4, <1>6, <1>7
  <2>2. n \div d <= r - Dist
    BY <2>1, <1>1, <1>7, <1>8, QuotientBetween
  <2> QED
    BY <2>2, <1>1, <1>9
<1> QED
  BY <1>1, <1>2, <1>9, <1>10, <1>11 DEF Abs

LineStages == {"idle", "filter", "begin", "resample", "sampled", "processed", "angles", "maxima", "mid"}
LineRow == [1 .. LineLen -> Int]

LineTypes ==
  /\ line_stage \in LineStages
  /\ pts_inv \in Seq(Int) /\ num1 <= LineLen
  /\ pts_filter \in LineRow /\ pts_resample \in LineRow
  /\ resample_count \in 0 .. LineLen
  /\ line_i \in Nat /\ kept \in Nat /\ x0 \in Int

Filtering == \A k \in 1 .. num1 : pts_filter[k] = Filtered(pts_inv, k)

(* A line that does not turn runs one way: up or down the rows.            *)
Ways == {"up", "down"}
Before(way, a, b) == IF way = "up" THEN a <= b ELSE b <= a
Runs(way) == \A k \in 1 .. num1 - 1 : Before(way, pts_filter[k], pts_filter[k + 1])

Spaced == \A k \in 1 .. resample_count - 1 : Abs(pts_resample[k + 1] - pts_resample[k]) <= Dist
AlongWay(way) ==
  \A k \in 1 .. resample_count - 1 :
    pts_resample[k + 1] - pts_resample[k] = IF way = "up" THEN Dist ELSE -Dist

(* The loop never has a sample's distance of the line behind it; on a line *)
(* that does not turn, the last sample, x0 and x1 lie in this order.       *)
Resampling ==
  /\ resample_count >= 1
  /\ line_i >= 1 /\ (line_i <= num1 \/ line_i = 1)
  /\ dist0 < Dist
  /\ num1 > 0 /\ line_i = num1 => x0 = pts_filter[num1]
  /\ num1 = 0 => resample_count = 1
  /\ Spaced
  /\ \A way \in Ways : Runs(way) =>
       /\ AlongWay(way)
       /\ Before(way, pts_resample[resample_count], x0)
       /\ line_i < num1 => Before(way, x0, x1)

Sampled ==
  /\ line_i \in 1 .. resample_count + 1 /\ kept < line_i
  /\ \A k \in 1 .. kept : Valid(pts_resample[k])
  /\ num1 = 0 => resample_count <= 1
  /\ line_i = 1 =>
       /\ Spaced /\ \A way \in Ways : Runs(way) => AlongWay(way)
       /\ num1 > 0 /\ resample_count < LineLen =>
            Abs(pts_filter[num1] - pts_resample[resample_count]) < Dist

AllValid ==
  /\ num1 = 0 => resample_count <= 1
  /\ \A k \in 1 .. resample_count : Valid(pts_resample[k])

BorderIInv ==
  /\ LineTypes
  /\ line_stage = "begin" => Filtering
  /\ line_stage = "resample" => Resampling
  /\ line_stage = "sampled" => Sampled
  /\ line_stage = "processed" => AllValid

(* The filter stays within the array.                                      *)
LEMMA FilterKeeps == BorderIInv /\ GetLinesFilter => BorderIInv'
<1> SUFFICES ASSUME BorderIInv, GetLinesFilter
             PROVE  BorderIInv'
  OBVIOUS
<1> DEFINE f == [k \in DOMAIN pts_inv |-> Filtered(pts_inv, k)]
<1>1. /\ pts_inv \in Seq(Int) /\ Len(pts_inv) <= LineLen /\ Len(pts_inv) \in Nat
      /\ DOMAIN pts_inv = 1 .. Len(pts_inv) /\ LineLen \in Nat /\ pts_filter \in LineRow
  BY LineAssumption DEF BorderIInv, LineTypes, num1
<1>2. /\ line_stage' = "begin" /\ pts_filter' = Overwritten(pts_filter, f)
      /\ UNCHANGED <<pts_inv, pts_resample, resample_count, line_i, x0, kept, plane>>
  BY DEF GetLinesFilter
<1>3. \A k \in 1 .. Len(pts_inv) : Filtered(pts_inv, k) \in Int
  <2> SUFFICES ASSUME NEW k \in 1 .. Len(pts_inv)
               PROVE  Filtered(pts_inv, k) \in Int
    OBVIOUS
  <2>1. \A j \in Int : Neighbour(pts_inv, j) \in Int
    BY <1>1, ElementOfSeq DEF Neighbour, clip
  <2>2. Neighbour(pts_inv, k - 1) \in Int /\ Neighbour(pts_inv, k) \in Int /\ Neighbour(pts_inv, k + 1) \in Int
    BY <2>1
  <2> QED
    BY <2>2 DEF Filtered
<1>4. Len(f) = Len(pts_inv)
  BY <1>1
<1>5. \A k \in 1 .. Len(pts_inv) : f[k] = Filtered(pts_inv, k)
  BY <1>1
<1> HIDE DEF f
<1>6. pts_filter' = [k \in 1 .. LineLen |-> IF k <= Len(pts_inv) THEN f[k] ELSE pts_filter[k]]
  BY <1>2, <1>4 DEF Overwritten
<1>7. \A k \in 1 .. LineLen : (IF k <= Len(pts_inv) THEN f[k] ELSE pts_filter[k]) \in Int
  BY <1>1, <1>3, <1>5 DEF LineRow
<1>8. pts_filter' \in LineRow
  BY <1>6, <1>7 DEF LineRow
<1>9. Filtering'
  BY <1>1, <1>2, <1>5, <1>6 DEF Filtering, num1
<1> QED
  BY <1>2, <1>8, <1>9 DEF BorderIInv, LineTypes, LineStages, num1

(* The first sample is the first point, and so is x0.                      *)
LEMMA BeginKeeps == BorderIInv /\ ResampleBegin => BorderIInv'
<1> SUFFICES ASSUME BorderIInv, ResampleBegin
             PROVE  BorderIInv'
  OBVIOUS
<1>1. /\ LineTypes /\ LineLen \in Nat \ {0} /\ Dist \in Nat \ {0} /\ num1 \in Nat
      /\ pts_filter \in [1 .. LineLen -> Int] /\ pts_resample \in [1 .. LineLen -> Int]
  BY LineAssumption DEF BorderIInv, LineTypes, num1, LineRow
<1>2. /\ pts_resample' = [pts_resample EXCEPT ![1] = pts_filter[1]]
      /\ resample_count' = 1 /\ line_i' = 1 /\ x0' = pts_filter[1]
      /\ line_stage' = "resample" /\ UNCHANGED <<pts_inv, pts_filter, kept, plane>>
  BY DEF ResampleBegin
<1>3. pts_filter[1] \in Int /\ pts_resample' \in [1 .. LineLen -> Int] /\ pts_resample'[1] = pts_filter[1]
  BY <1>1, <1>2
<1>4. num1' = num1 /\ \A way : Runs(way)' = Runs(way)
  BY <1>2 DEF num1, Runs
<1>5. LineTypes'
  BY <1>1, <1>2, <1>3 DEF LineTypes, LineStages, num1, LineRow
<1>6. dist0' = 0
  BY <1>2, <1>3 DEF dist0, Abs
<1>7. ASSUME NEW way \in Ways, Runs(way)
      PROVE  /\ AlongWay(way)'
             /\ Before(way, pts_resample'[resample_count'], x0')
             /\ line_i' < num1' => Before(way, x0', x1')
  <2>1. AlongWay(way)'
    BY <1>2 DEF AlongWay
  <2>2. Before(way, pts_resample'[resample_count'], x0')
    BY <1>2, <1>3 DEF Before
  <2>3. ASSUME 1 < num1
        PROVE  Before(way, x0', x1')
    <3>1. 1 \in 1 .. num1 - 1
      BY <1>1, <2>3
    <3>2. Before(way, pts_filter[1], pts_filter[1 + 1])
      BY <1>7, <3>1 DEF Runs
    <3> QED
      BY <3>2, <1>2 DEF x1
  <2> QED
    BY <2>1, <2>2, <2>3, <1>2, <1>4
<1>8. Resampling'
  BY <1>1, <1>2, <1>3, <1>4, <1>6, <1>7 DEF Resampling, Spaced
<1> QED
  BY <1>2, <1>5, <1>8 DEF BorderIInv

(* A new sample: NewSample says how far it lies from the last one.         *)
LEMMA PointKeeps == BorderIInv /\ ResamplePoint => BorderIInv'
<1> SUFFICES ASSUME BorderIInv, ResamplePoint
             PROVE  BorderIInv'
  OBVIOUS
<1> DEFINE r == pts_resample[resample_count]
           c == resample_count
<1>1. /\ LineLen \in Nat \ {0} /\ Dist \in Nat \ {0} /\ num1 \in Nat /\ num1 <= LineLen
      /\ pts_filter \in [1 .. LineLen -> Int] /\ pts_resample \in [1 .. LineLen -> Int]
      /\ c \in 0 .. LineLen /\ line_i \in Nat /\ x0 \in Int
      /\ LineTypes
  BY LineAssumption DEF BorderIInv, LineTypes, num1, LineRow
<1>2. line_stage = "resample" /\ line_i < num1 /\ c < LineLen /\ OnPiece /\ Resampling
  BY DEF ResamplePoint, Looping, BorderIInv
<1>3. /\ pts_resample' = [pts_resample EXCEPT ![c + 1] = NewPoint]
      /\ resample_count' = c + 1 /\ x0' = NewPoint
      /\ UNCHANGED <<line_stage, pts_inv, pts_filter, line_i, kept, plane>>
  BY DEF ResamplePoint
<1>4. c \in 1 .. LineLen /\ r \in Int /\ x1 \in Int /\ line_i >= 1
  BY <1>1, <1>2 DEF Resampling, x1
<1>5. dist0 = Abs(x0 - r) /\ dist1 = Abs(x1 - r) /\ dist0 < Dist /\ NewPoint = Divided(x0, x1, r)
  BY <1>2 DEF dist0, dist1, Resampling, NewPoint, Divided
<1>6. Dist <= dist1
  <2>1. dist0 \in Int
    BY <1>1, <1>4, <1>5 DEF Abs
  <2> QED
    BY <1>1, <1>2, <1>5, <2>1 DEF OnPiece
<1>7. /\ NewPoint \in Int
      /\ Abs(NewPoint - r) <= Dist
      /\ r <= x0 /\ x0 <= x1 => NewPoint = r + Dist
      /\ x1 <= x0 /\ x0 <= r => NewPoint = r - Dist
  BY <1>1, <1>4, <1>5, <1>6, NewSample
<1> HIDE DEF r
<1>8. /\ pts_resample' \in [1 .. LineLen -> Int]
      /\ pts_resample'[c + 1] = NewPoint
      /\ \A k \in 1 .. c : pts_resample'[k] = pts_resample[k]
  BY <1>1, <1>2, <1>3, <1>4, <1>7
<1>9. num1' = num1 /\ x1' = x1 /\ \A way : Runs(way)' = Runs(way)
  BY <1>3 DEF num1, x1, Runs
<1>10. LineTypes'
  BY <1>1, <1>2, <1>3, <1>4, <1>7, <1>8 DEF LineTypes, num1, LineRow
<1>11. dist0' = 0
  BY <1>3, <1>7, <1>8 DEF dist0, Abs
<1>12. Spaced'
  <2> SUFFICES ASSUME NEW k \in 1 .. c
               PROVE  Abs(pts_resample'[k + 1] - pts_resample'[k]) <= Dist
    BY <1>1, <1>3 DEF Spaced
  <2>1. CASE k = c
    BY <2>1, <1>4, <1>7, <1>8 DEF r
  <2>2. CASE k # c
    <3>1. k \in 1 .. c - 1 /\ k + 1 \in 1 .. c
      BY <2>2, <1>1
    <3>2. Abs(pts_resample[k + 1] - pts_resample[k]) <= Dist
      BY <3>1, <1>2 DEF Resampling, Spaced
    <3> QED
      BY <3>1, <3>2, <1>8
  <2> QED
    BY <2>1, <2>2
<1>13. ASSUME NEW way \in Ways, Runs(way)
       PROVE  /\ AlongWay(way)'
              /\ Before(way, pts_resample'[resample_count'], x0')
              /\ line_i' < num1' => Before(way, x0', x1')
  <2>1. AlongWay(way) /\ Before(way, r, x0) /\ Before(way, x0, x1)
    BY <1>2, <1>13 DEF Resampling, r
  <2>2. /\ way = "up" => NewPoint = r + Dist
        /\ way = "down" => NewPoint = r - Dist
    BY <2>1, <1>7 DEF Before
  <2>3. AlongWay(way)'
    <3> SUFFICES ASSUME NEW k \in 1 .. c
                 PROVE  pts_resample'[k + 1] - pts_resample'[k] = IF way = "up" THEN Dist ELSE -Dist
      BY <1>1, <1>3 DEF AlongWay
    <3>1. CASE k = c
      BY <3>1, <2>2, <1>1, <1>4, <1>8 DEF r, Ways
    <3>2. CASE k # c
      <4>1. k \in 1 .. c - 1 /\ k + 1 \in 1 .. c
        BY <3>2, <1>1
      <4>2. pts_resample[k + 1] - pts_resample[k] = IF way = "up" THEN Dist ELSE -Dist
        BY <4>1, <2>1 DEF AlongWay
      <4> QED
        BY <4>1, <4>2, <1>8
    <3> QED
      BY <3>1, <3>2
  <2>4. Before(way, pts_resample'[resample_count'], x0')
    BY <1>3, <1>7, <1>8 DEF Before
  <2>5. Before(way, x0', x1')
    <3>1. CASE way = "up"
      <4>1. x1 - r >= Dist
        BY <3>1, <2>1, <1>1, <1>4, <1>5, <1>6 DEF Before, Abs, r
      <4> QED
        BY <4>1, <3>1, <2>2, <1>3, <1>9, <1>1, <1>4 DEF Before
    <3>2. CASE way = "down"
      <4>1. r - x1 >= Dist
        BY <3>2, <2>1, <1>1, <1>4, <1>5, <1>6 DEF Before, Abs, r
      <4> QED
        BY <4>1, <3>2, <2>2, <1>3, <1>9, <1>1, <1>4 DEF Before
    <3> QED
      BY <3>1, <3>2 DEF Ways
  <2> QED
    BY <2>3, <2>4, <2>5
<1>14. Resampling'
  BY <1>1, <1>2, <1>3, <1>4, <1>9, <1>11, <1>12, <1>13 DEF Resampling
<1> QED
  BY <1>2, <1>3, <1>10, <1>14 DEF BorderIInv

(* The next piece: x1 becomes x0, and is nearer than Dist, or far and the  *)
(* line would have been divided.                                           *)
LEMMA PieceKeeps == BorderIInv /\ ResamplePiece => BorderIInv'
<1> SUFFICES ASSUME BorderIInv, ResamplePiece
             PROVE  BorderIInv'
  OBVIOUS
<1>1. /\ LineLen \in Nat \ {0} /\ Dist \in Nat \ {0} /\ num1 \in Nat /\ num1 <= LineLen
      /\ pts_filter \in [1 .. LineLen -> Int] /\ pts_resample \in [1 .. LineLen -> Int]
      /\ resample_count \in 0 .. LineLen /\ line_i \in Nat /\ x0 \in Int
      /\ LineTypes
  BY LineAssumption DEF BorderIInv, LineTypes, num1, LineRow
<1>2. line_stage = "resample" /\ line_i < num1 /\ ~OnPiece /\ Resampling
  BY DEF ResamplePiece, Looping, BorderIInv
<1>3. /\ line_i' = line_i + 1 /\ x0' = x1
      /\ UNCHANGED <<line_stage, pts_inv, pts_filter, pts_resample, resample_count, kept, plane>>
  BY DEF ResamplePiece
<1>4. /\ resample_count \in 1 .. LineLen /\ line_i >= 1 /\ x1 = pts_filter[line_i + 1]
      /\ x1 \in Int /\ pts_resample[resample_count] \in Int
  BY <1>1, <1>2 DEF Resampling, x1
<1>5. dist0 \in Int /\ dist1 \in Int /\ dist0 < Dist
  <2>1. \A n \in Int : Abs(n) \in Int
    BY DEF Abs
  <2>2. x0 - pts_resample[resample_count] \in Int /\ x1 - pts_resample[resample_count] \in Int
    BY <1>1, <1>4
  <2>3. dist0 < Dist
    BY <1>2 DEF Resampling
  <2> QED
    BY <2>1, <2>2, <2>3 DEF dist0, dist1
<1>6. dist1 < Dist
  BY <1>1, <1>2, <1>5 DEF OnPiece
<1>7. dist0' = dist1
  BY <1>3 DEF dist0, dist1
<1>8. num1' = num1 /\ (\A way : Runs(way)' = Runs(way) /\ AlongWay(way)' = AlongWay(way)) /\ Spaced' = Spaced
  BY <1>3 DEF num1, Runs, AlongWay, Spaced
<1>9. LineTypes'
  BY <1>1, <1>3, <1>4 DEF LineTypes, num1
<1>10. ASSUME NEW way \in Ways, Runs(way)
       PROVE  /\ AlongWay(way)'
              /\ Before(way, pts_resample'[resample_count'], x0')
              /\ line_i' < num1' => Before(way, x0', x1')
  <2>1. AlongWay(way) /\ Before(way, pts_resample[resample_count], x0) /\ Before(way, x0, x1)
    BY <1>2, <1>10 DEF Resampling
  <2>2. Before(way, pts_resample[resample_count], x1)
    BY <2>1, <1>1, <1>4 DEF Before
  <2>3. ASSUME line_i + 1 < num1
        PROVE  Before(way, x1, x1')
    <3>1. line_i + 1 \in 1 .. num1 - 1
      BY <1>1, <2>3
    <3>2. Before(way, pts_filter[line_i + 1], pts_filter[(line_i + 1) + 1])
      BY <1>10, <3>1 DEF Runs
    <3>3. x1' = pts_filter[(line_i + 1) + 1]
      BY <1>3 DEF x1
    <3> QED
      BY <3>2, <3>3, <1>4
  <2> QED
    BY <2>1, <2>2, <2>3, <1>3, <1>8
<1>11. num1' > 0 /\ line_i' = num1' => x0' = pts_filter'[num1']
  BY <1>3, <1>4, <1>8
<1>12. line_i' >= 1 /\ line_i' <= num1'
  BY <1>1, <1>2, <1>3, <1>8
<1>13. Resampling'
  BY <1>2, <1>3, <1>6, <1>7, <1>8, <1>10, <1>11, <1>12 DEF Resampling
<1> QED
  BY <1>2, <1>3, <1>9, <1>13 DEF BorderIInv

(* Where the loop ends, x0 is the end of the line, or the array is full.   *)
LEMMA EndKeeps == BorderIInv /\ ResampleEnd => BorderIInv'
<1> SUFFICES ASSUME BorderIInv, ResampleEnd
             PROVE  BorderIInv'
  OBVIOUS
<1>1. /\ num1 \in Nat /\ num1 <= LineLen /\ LineLen \in Nat
      /\ resample_count \in 0 .. LineLen /\ line_i \in Nat /\ LineTypes
  BY LineAssumption DEF BorderIInv, LineTypes, num1
<1>2. line_stage = "resample" /\ ~Looping /\ Resampling
  BY DEF ResampleEnd, BorderIInv
<1>3. /\ line_stage' = "sampled" /\ line_i' = 1 /\ kept' = 0
      /\ UNCHANGED <<pts_inv, pts_filter, pts_resample, resample_count, x0, plane>>
  BY DEF ResampleEnd
<1>4. num1' = num1 /\ (\A way : Runs(way)' = Runs(way) /\ AlongWay(way)' = AlongWay(way)) /\ Spaced' = Spaced
  BY <1>3 DEF num1, Runs, AlongWay, Spaced
<1>5. num1 > 0 /\ resample_count < LineLen =>
        Abs(pts_filter[num1] - pts_resample[resample_count]) < Dist
  <2> SUFFICES ASSUME num1 > 0, resample_count < LineLen
               PROVE  Abs(pts_filter[num1] - pts_resample[resample_count]) < Dist
    OBVIOUS
  <2>1. line_i = num1
    BY <1>1, <1>2 DEF Looping, Resampling
  <2> QED
    BY <2>1, <1>2 DEF Resampling, dist0
<1>6. LineTypes'
  BY <1>1, <1>3 DEF LineTypes, LineStages, num1
<1>7. Sampled'
  <2>1. line_i' \in 1 .. resample_count' + 1 /\ kept' < line_i' /\ 1 .. kept' = {}
    BY <1>1, <1>3
  <2>2. num1' = 0 => resample_count' <= 1
    BY <1>2, <1>3, <1>4 DEF Resampling
  <2>3. Spaced' /\ \A way \in Ways : Runs(way)' => AlongWay(way)'
    BY <1>2, <1>4 DEF Resampling
  <2> QED
    BY <2>1, <2>2, <2>3, <1>3, <1>4, <1>5 DEF Sampled
<1> QED
  BY <1>3, <1>6, <1>7 DEF BorderIInv

(* The points kept so far are on the image, and there are no more of them  *)
(* than points that have been looked at.                                   *)
LEMMA KeepPointKeeps == BorderIInv /\ KeepPoint => BorderIInv'
<1> SUFFICES ASSUME BorderIInv, KeepPoint
             PROVE  BorderIInv'
  OBVIOUS
<1>1. /\ LineLen \in Nat \ {0} /\ resample_count \in 0 .. LineLen /\ line_i \in Nat /\ kept \in Nat
      /\ pts_resample \in [1 .. LineLen -> Int] /\ LineTypes
  BY LineAssumption DEF BorderIInv, LineTypes, LineRow
<1>2. line_stage = "sampled" /\ line_i <= resample_count /\ Sampled
  BY DEF KeepPoint, BorderIInv
<1>3. /\ line_i' = line_i + 1
      /\ UNCHANGED <<line_stage, pts_inv, pts_filter, resample_count, x0, plane>>
  BY DEF KeepPoint
<1>4. line_i \in 1 .. LineLen /\ kept + 1 \in 1 .. LineLen /\ kept < line_i /\ pts_resample[line_i] \in Int
  BY <1>1, <1>2 DEF Sampled
<1>5. CASE Valid(pts_resample[line_i])
  <2>1. pts_resample' = [pts_resample EXCEPT ![kept + 1] = pts_resample[line_i]] /\ kept' = kept + 1
    BY <1>5 DEF KeepPoint
  <2>2. /\ pts_resample' \in [1 .. LineLen -> Int]
        /\ pts_resample'[kept + 1] = pts_resample[line_i]
        /\ \A k \in 1 .. kept : pts_resample'[k] = pts_resample[k]
    BY <2>1, <1>1, <1>4
  <2>3. LineTypes'
    BY <2>1, <2>2, <1>1, <1>3 DEF LineTypes, num1, LineRow
  <2>4. \A k \in 1 .. kept + 1 : Valid(pts_resample'[k])
    <3> SUFFICES ASSUME NEW k \in 1 .. kept + 1
                 PROVE  Valid(pts_resample'[k])
      OBVIOUS
    <3>1. CASE k = kept + 1
      BY <3>1, <2>2, <1>5
    <3>2. CASE k # kept + 1
      <4>1. k \in 1 .. kept
        BY <3>2, <1>1
      <4> QED
        BY <4>1, <2>2, <1>2 DEF Sampled
    <3> QED
      BY <3>1, <3>2
  <2>5. line_i' \in 1 .. resample_count' + 1 /\ kept' < line_i' /\ line_i' # 1
    BY <2>1, <1>1, <1>2, <1>3, <1>4
  <2>6. num1' = 0 => resample_count' <= 1
    BY <1>2, <1>3 DEF Sampled, num1
  <2>7. Sampled'
    BY <2>1, <2>4, <2>5, <2>6 DEF Sampled
  <2> QED
    BY <2>3, <2>7, <1>2, <1>3 DEF BorderIInv
<1>6. CASE ~Valid(pts_resample[line_i])
  <2>1. UNCHANGED <<pts_resample, kept>>
    BY <1>6 DEF KeepPoint
  <2>2. line_i' \in 1 .. resample_count' + 1 /\ kept' < line_i' /\ line_i' # 1
    BY <2>1, <1>1, <1>2, <1>3, <1>4
  <2>3. Sampled'
    BY <2>1, <2>2, <1>2, <1>3 DEF Sampled, num1
  <2>4. LineTypes'
    BY <2>1, <1>1, <1>3 DEF LineTypes, num1
  <2> QED
    BY <2>3, <2>4, <1>2, <1>3 DEF BorderIInv
<1> QED
  BY <1>5, <1>6

(* The points that were kept are all that there are.                       *)
LEMMA KeepEndKeeps == BorderIInv /\ KeepEnd => BorderIInv'
<1> SUFFICES ASSUME BorderIInv, KeepEnd
             PROVE  BorderIInv'
  OBVIOUS
<1>1. /\ LineLen \in Nat /\ resample_count \in 0 .. LineLen /\ line_i \in Nat /\ kept \in Nat
      /\ LineTypes /\ Sampled
  BY LineAssumption DEF KeepEnd, BorderIInv, LineTypes
<1>2. /\ resample_count' = kept /\ line_stage' = "processed"
      /\ UNCHANGED <<pts_inv, pts_filter, pts_resample, line_i, x0, kept, plane>>
  BY DEF KeepEnd
<1>3. kept <= resample_count
  BY <1>1 DEF Sampled
<1>4. LineTypes'
  BY <1>1, <1>2, <1>3 DEF LineTypes, LineStages, num1
<1>5. AllValid'
  BY <1>1, <1>2, <1>3 DEF AllValid, Sampled, num1
<1> QED
  BY <1>2, <1>4, <1>5 DEF BorderIInv

(* The other steps begin or end a frame, or leave its arrays alone.        *)
LEMMA FrameEndsKeep == BorderIInv /\ (LineFrame \/ Processed) => BorderIInv'
<1>1. ASSUME BorderIInv, LineFrame
      PROVE  BorderIInv'
  <2>1. pts_inv' \in Seq(Int) /\ Len(pts_inv') <= LineLen
    BY <1>1, LineAssumption DEF LineFrame
  <2> QED
    BY <1>1, <2>1 DEF LineFrame, BorderIInv, LineTypes, LineStages, num1
<1>2. ASSUME BorderIInv, Processed
      PROVE  BorderIInv'
  <2>1. /\ LineLen \in Nat \ {0} /\ pts_filter \in [1 .. LineLen -> Int]
        /\ pts_filter' = [k \in 1 .. LineLen |-> IF k = 1 THEN pts_filter[1] ELSE 0]
        /\ pts_resample' = [k \in 1 .. LineLen |-> 0]
    BY <1>2, LineAssumption DEF Processed, BorderIInv, LineTypes, LineRow
  <2>2. pts_filter' \in LineRow /\ pts_resample' \in LineRow
    BY <2>1 DEF LineRow
  <2>3. << >> \in Seq(Int) /\ Len(<< >>) = 0
    OBVIOUS
  <2>4. /\ line_stage' = "idle" /\ pts_inv' = << >> /\ line_i' = 1 /\ x0' = 0 /\ kept' = 0
        /\ resample_count' = 0
    BY <1>2 DEF Processed
  <2> QED
    BY <2>1, <2>2, <2>3, <2>4 DEF BorderIInv, LineTypes, LineStages, num1
<1> QED
  BY <1>1, <1>2

(* The calls for lines in the plane leave the arrays alone.                *)
LEMMA OtherCallsKeep ==
  BorderIInv /\ (LocalAngles \/ MidLines \/ Maxima \/ Returned \/ UNCHANGED lineVars) => BorderIInv'
<1> SUFFICES ASSUME BorderIInv, LocalAngles \/ MidLines \/ Maxima \/ Returned \/ UNCHANGED lineVars
             PROVE  BorderIInv'
  OBVIOUS
<1>1. UNCHANGED arrays
  BY DEF LocalAngles, MidLines, Maxima, Returned, lineVars
<1>2. line_stage' \in {"angles", "mid", "maxima", "idle"} \/ UNCHANGED line_stage
  BY DEF LocalAngles, MidLines, Maxima, Returned, lineVars
<1>3. LineTypes'
  BY <1>1, <1>2 DEF arrays, BorderIInv, LineTypes, LineStages, num1
<1>4. UNCHANGED line_stage =>
        (Filtering' = Filtering /\ Resampling' = Resampling /\ Sampled' = Sampled /\ AllValid' = AllValid)
  BY <1>1 DEF arrays, Filtering, Resampling, Sampled, AllValid, num1, Spaced, AlongWay, Runs, dist0, x1
<1> QED
  BY <1>2, <1>3, <1>4 DEF BorderIInv

(* The invariant holds to begin with, and every step keeps it.             *)
LEMMA BorderBegins == LineInit => BorderIInv
<1> SUFFICES ASSUME LineInit
             PROVE  BorderIInv
  OBVIOUS
<1>1. LineLen \in Nat \ {0}
  BY LineAssumption
<1>2. pts_filter \in LineRow /\ pts_resample \in LineRow
  BY <1>1 DEF LineInit, LineRow
<1>3. << >> \in Seq(Int) /\ Len(<< >>) = 0
  OBVIOUS
<1> QED
  BY <1>1, <1>2, <1>3 DEF LineInit, BorderIInv, LineTypes, LineStages, num1

(* ...                                                                     *)
LEMMA BorderStep == BorderIInv /\ [LineNext]_lineVars => BorderIInv'
BY FilterKeeps, BeginKeeps, PointKeeps, PieceKeeps, EndKeeps, KeepPointKeeps, KeepEndKeeps,
   FrameEndsKeep, OtherCallsKeep DEF LineNext, Resample

(* The weighted mean of three lies between them.                           *)
LEMMA Smoothed == BorderIInv => FilterSmooths
<1> SUFFICES ASSUME BorderIInv, line_stage = "begin", NEW k \in 2 .. num1 - 1
             PROVE  LET a == pts_inv[k - 1]  b == pts_inv[k]  c == pts_inv[k + 1]
                    IN  /\ pts_filter[k] \in {a, b, c}
                             \/ \E u, v \in {a, b, c} : u < pts_filter[k] /\ pts_filter[k] < v
                        /\ b - a = c - b => pts_filter[k] = b
  BY DEF FilterSmooths
<1> DEFINE a == pts_inv[k - 1]
           b == pts_inv[k]
           c == pts_inv[k + 1]
<1>1. pts_inv \in Seq(Int) /\ num1 = Len(pts_inv) /\ num1 \in Nat
  BY DEF BorderIInv, LineTypes, num1
<1>2. k - 1 \in 1 .. num1 /\ k \in 1 .. num1 /\ k + 1 \in 1 .. num1
  BY <1>1
<1>3. a \in Int /\ b \in Int /\ c \in Int
  BY <1>1, <1>2, ElementOfSeq
<1>4. Neighbour(pts_inv, k - 1) = a /\ Neighbour(pts_inv, k) = b /\ Neighbour(pts_inv, k + 1) = c
  BY <1>1, <1>2 DEF Neighbour, clip
<1>5. pts_filter[k] = (a + 2 * b + c) \div 4
  BY <1>2, <1>4 DEF BorderIInv, Filtering, Filtered
<1> HIDE DEF a, b, c
<1>6. b - a = c - b => pts_filter[k] = b
  BY <1>3, <1>5
<1>7. pts_filter[k] \in {a, b, c} \/ \E u, v \in {a, b, c} : u < pts_filter[k] /\ pts_filter[k] < v
  <2> DEFINE m == (a + 2 * b + c) \div 4
  <2>1. m \in Int /\ (a <= m \/ b <= m \/ c <= m) /\ (m <= a \/ m <= b \/ m <= c)
    BY <1>3
  <2> HIDE DEF m
  <2>2. m \in {a, b, c} \/ \E u, v \in {a, b, c} : u < m /\ m < v
    BY <2>1, <1>3
  <2> QED
    BY <2>2, <1>5 DEF m
<1> QED
  BY <1>6, <1>7 DEF a, b, c

(* A line that does not turn is one that runs one way.                     *)
LEMMA StraightRuns == Straight <=> Runs("up") \/ Runs("down")
BY DEF Straight, Runs, Before

(* What the invariant says of the samples.                                 *)
LEMMA EvenlySampled == BorderIInv => SamplesEquidistant
<1> SUFFICES ASSUME BorderIInv
             PROVE  SamplesEquidistant
  OBVIOUS
<1>1. /\ LineLen \in Nat \ {0} /\ Dist \in Nat \ {0} /\ resample_count \in 0 .. LineLen
      /\ pts_resample \in [1 .. LineLen -> Int]
  BY LineAssumption DEF BorderIInv, LineTypes, LineRow
<1>2. Sampling => Spaced /\ \A way \in Ways : Runs(way) => AlongWay(way)
  BY DEF BorderIInv, Sampling, Resampling, Sampled
<1>3. ASSUME Sampling, NEW k \in 1 .. resample_count - 1
      PROVE  LET d == Abs(pts_resample[k + 1] - pts_resample[k])
             IN  d <= Dist /\ (Straight => d = Dist)
  <2>1. Abs(pts_resample[k + 1] - pts_resample[k]) <= Dist
    BY <1>2, <1>3 DEF Spaced
  <2>2. ASSUME Straight
        PROVE  Abs(pts_resample[k + 1] - pts_resample[k]) = Dist
    <3>1. PICK way \in Ways : AlongWay(way)
      BY <1>2, <1>3, <2>2, StraightRuns DEF Ways
    <3>2. pts_resample[k + 1] - pts_resample[k] = IF way = "up" THEN Dist ELSE -Dist
      BY <3>1 DEF AlongWay
    <3> QED
      BY <3>2, <1>1 DEF Abs
  <2> QED
    BY <2>1, <2>2
<1>4. Sampling /\ line_stage = "sampled" /\ num1 > 0 /\ resample_count < LineLen =>
        Abs(pts_filter[num1] - pts_resample[resample_count]) < Dist
  BY DEF BorderIInv, Sampling, Sampled
<1>5. Looping => ~(dist0 = Dist /\ dist1 = Dist)
  BY <1>1 DEF Looping, BorderIInv, Resampling
<1> QED
  BY <1>3, <1>4, <1>5 DEF SamplesEquidistant

(* For borders of any length and any distance of the samples: the filter   *)
(* keeps within the line, the samples are never further apart than asked,  *)
(* and exactly that far on a line that does not turn, none lies off the    *)
(* image, and a border that was not found leaves too few to be followed.   *)
THEOREM BorderResampled == LineSpec => []LineResampled
<1>1. BorderIInv => LineResampled
  <2>1. BorderIInv => LostLineNotTracked /\ OnImage
    BY DEF BorderIInv, AllValid, LostLineNotTracked, OnImage, LineTypes
  <2> QED
    BY <2>1, Smoothed, EvenlySampled DEF LineResampled
<1> QED
  BY <1>1, BorderBegins, BorderStep, PTL DEF LineSpec

-----------------------------------------------------------------------------
(* Border lines: both borders alike.                                       *)

PlaneIInv ==
  /\ line_stage = "angles" => line \in Lines /\ angle = local_angle_points(line, Approx)
  /\ line_stage = "mid" => /\ line \in Lines
                           /\ mid_left = GetMidLine_Left(line)
                           /\ mid_right = GetMidLine_Right(RightBorder)
  /\ line_stage = "maxima" => /\ angle_in \in AngleRows
                              /\ angle_new = nms_angle(angle_in, 2 * Approx + 1)

PlanePoints == Seq(Int \X Int)

(* Each call leaves what its function computes from its argument.          *)
LEMMA PlaneStep == PlaneIInv /\ [LineNext]_lineVars => PlaneIInv'
<1> SUFFICES ASSUME PlaneIInv, [LineNext]_lineVars
             PROVE  PlaneIInv'
  OBVIOUS
<1>1. CASE LineFrame \/ GetLinesFilter \/ ResampleBegin \/ Resample \/ KeepPoint \/ KeepEnd \/ Processed
  <2>1. line_stage' \notin {"angles", "mid", "maxima"}
    BY <1>1 DEF LineFrame, GetLinesFilter, ResampleBegin, Resample, ResamplePoint, ResamplePiece,
                ResampleEnd, KeepPoint, KeepEnd, Processed, Looping
  <2> QED
    BY <2>1 DEF PlaneIInv
<1>2. CASE LocalAngles
  BY <1>2 DEF LocalAngles, PlaneIInv
<1>3. CASE MidLines
  <2>1. line \in Lines /\ UNCHANGED line /\ line_stage' = "mid"
        /\ mid_left' = GetMidLine_Left(line) /\ mid_right' = GetMidLine_Right(RightBorder)
    BY <1>3 DEF MidLines, PlaneIInv
  <2>2. RightBorder' = RightBorder
    BY <2>1 DEF RightBorder, StraightLine
  <2> QED
    BY <2>1, <2>2 DEF PlaneIInv
<1>4. CASE Maxima
  BY <1>4 DEF Maxima, PlaneIInv
<1>5. CASE Returned
  BY <1>5 DEF Returned, PlaneIInv
<1>6. CASE UNCHANGED lineVars
  <2>1. UNCHANGED <<line_stage, plane>>
    BY <1>6 DEF lineVars
  <2>2. RightBorder' = RightBorder
    BY <2>1 DEF plane, RightBorder, StraightLine
  <2> QED
    BY <2>1, <2>2 DEF plane, PlaneIInv
<1> QED
  BY <1>1, <1>2, <1>3, <1>4, <1>5, <1>6 DEF LineNext

(* A chord in whole numbers, between points that there are.                *)
LEMMA ChordOf ==
  ASSUME NEW s \in PlanePoints, Len(s) >= 1, NEW a \in Int, NEW b \in Int
  PROVE  /\ clip(a, 1, Len(s)) \in 1 .. Len(s) /\ clip(b, 1, Len(s)) \in 1 .. Len(s)
         /\ s[clip(a, 1, Len(s))] \in Int \X Int /\ s[clip(b, 1, Len(s))] \in Int \X Int
         /\ Chord(s, a, b) \in Int \X Int
         /\ \A n \in {1, 2} : Chord(s, a, b)[n] = s[clip(b, 1, Len(s))][n] - s[clip(a, 1, Len(s))][n]
<1>1. clip(a, 1, Len(s)) \in 1 .. Len(s) /\ clip(b, 1, Len(s)) \in 1 .. Len(s)
  BY DEF clip, PlanePoints
<1>2. s[clip(a, 1, Len(s))] \in Int \X Int /\ s[clip(b, 1, Len(s))] \in Int \X Int
  BY <1>1, ElementOfSeq DEF PlanePoints
<1> QED
  BY <1>1, <1>2 DEF Chord

(* A chord of the mirror image is the mirror image of the chord.           *)
LEMMA MirroredPoints ==
  ASSUME NEW s \in PlanePoints
  PROVE  /\ Mirrored(s) \in PlanePoints /\ Len(Mirrored(s)) = Len(s)
         /\ DOMAIN Mirrored(s) = DOMAIN s /\ DOMAIN s = 1 .. Len(s) /\ Len(s) \in Nat
         /\ \A k \in 1 .. Len(s) : /\ s[k] \in Int \X Int
                                   /\ Mirrored(s)[k][1] = s[k][1] /\ Mirrored(s)[k][2] = -s[k][2]
<1>1. Len(s) \in Nat /\ DOMAIN s = 1 .. Len(s)
  BY DEF PlanePoints
<1>2. \A k \in 1 .. Len(s) : s[k] \in Int \X Int
  BY <1>1, ElementOfSeq DEF PlanePoints
<1>3. \A k \in 1 .. Len(s) : <<s[k][1], -s[k][2]>> \in Int \X Int
  BY <1>2
<1> QED
  BY <1>1, <1>2, <1>3 DEF Mirrored, PlanePoints

(* The angle between mirrored chords has the other sign.                   *)
LEMMA MirroredBetween ==
  ASSUME NEW u \in Int \X Int, NEW v \in Int \X Int, NEW p \in Int \X Int, NEW q \in Int \X Int,
         p[1] = u[1], p[2] = -u[2], q[1] = v[1], q[2] = -v[2]
  PROVE  /\ Between(u, v) \in Int \X Int
         /\ Between(p, q) = <<-Between(u, v)[1], Between(u, v)[2]>>
<1>1. \A a, b \in Int : a * b \in Int /\ a * (-b) = -(a * b) /\ (-a) * (-b) = a * b
  OBVIOUS
<1>2. u[1] \in Int /\ u[2] \in Int /\ v[1] \in Int /\ v[2] \in Int
  OBVIOUS
<1>3. /\ u[1] * v[2] \in Int /\ v[1] * u[2] \in Int /\ u[1] * v[1] \in Int /\ u[2] * v[2] \in Int
      /\ p[1] * q[2] = -(u[1] * v[2]) /\ q[1] * p[2] = -(v[1] * u[2])
      /\ p[1] * q[1] = u[1] * v[1] /\ p[2] * q[2] = u[2] * v[2]
  BY <1>1, <1>2
<1>4. -(u[1] * v[2]) - (-(v[1] * u[2])) = -(u[1] * v[2] - v[1] * u[2])
  BY <1>3
<1> QED
  BY <1>3, <1>4 DEF Between

(* ... and so has each angle of the mirrored line.                         *)
LEMMA MirroredAngles ==
  ASSUME NEW s \in PlanePoints
  PROVE  local_angle_points(Mirrored(s), Approx)
           = [k \in DOMAIN s |-> <<-local_angle_points(s, Approx)[k][1], local_angle_points(s, Approx)[k][2]>>]
<1> DEFINE m == Mirrored(s)
           A(t, k) == IF k = 1 \/ k = Len(t) THEN <<0, 0>>
                      ELSE Between(Chord(t, k - Approx, k), Chord(t, k, k + Approx))
<1>1. /\ m \in PlanePoints /\ Len(m) = Len(s) /\ DOMAIN m = DOMAIN s /\ DOMAIN s = 1 .. Len(s) /\ Len(s) \in Nat
      /\ \A k \in 1 .. Len(s) : s[k] \in Int \X Int /\ m[k][1] = s[k][1] /\ m[k][2] = -s[k][2]
  BY MirroredPoints
<1> HIDE DEF m
<1>2. ASSUME NEW k \in DOMAIN s
      PROVE  A(m, k) = <<-A(s, k)[1], A(s, k)[2]>>
  <2>1. CASE k = 1 \/ k = Len(s)
    BY <2>1, <1>1
  <2>2. CASE ~(k = 1 \/ k = Len(s))
    <3>1. Approx \in Nat /\ k \in Int /\ Len(s) >= 1 /\ k - Approx \in Int /\ k + Approx \in Int
      BY <1>1, LineAssumption
    <3>2. ASSUME NEW a \in Int, NEW b \in Int
          PROVE  /\ Chord(s, a, b) \in Int \X Int /\ Chord(m, a, b) \in Int \X Int
                 /\ Chord(m, a, b)[1] = Chord(s, a, b)[1] /\ Chord(m, a, b)[2] = -Chord(s, a, b)[2]
      <4> DEFINE i == clip(a, 1, Len(s))
                 j == clip(b, 1, Len(s))
      <4>1. /\ i \in 1 .. Len(s) /\ j \in 1 .. Len(s) /\ Chord(s, a, b) \in Int \X Int
            /\ \A n \in {1, 2} : Chord(s, a, b)[n] = s[j][n] - s[i][n]
        BY <1>1, <3>1, ChordOf
      <4>2. /\ Chord(m, a, b) \in Int \X Int
            /\ \A n \in {1, 2} :
                 Chord(m, a, b)[n] = m[clip(b, 1, Len(m))][n] - m[clip(a, 1, Len(m))][n]
        <5>1. Len(m) >= 1 /\ m \in PlanePoints
          BY <1>1, <3>1
        <5> QED
          BY <5>1, ChordOf
      <4>3. \A n \in {1, 2} : Chord(m, a, b)[n] = m[j][n] - m[i][n]
        BY <4>2, <1>1
      <4> HIDE DEF i, j
      <4>4. /\ Chord(s, a, b)[1] = s[j][1] - s[i][1] /\ Chord(s, a, b)[2] = s[j][2] - s[i][2]
            /\ Chord(m, a, b)[1] = m[j][1] - m[i][1] /\ Chord(m, a, b)[2] = m[j][2] - m[i][2]
        BY <4>1, <4>3
      <4>5. /\ s[i] \in Int \X Int /\ s[j] \in Int \X Int
            /\ m[i][1] = s[i][1] /\ m[i][2] = -s[i][2]
            /\ m[j][1] = s[j][1] /\ m[j][2] = -s[j][2]
        BY <4>1, <1>1
      <4>6. s[i][2] \in Int /\ s[j][2] \in Int
        BY <4>5
      <4>7. \A p, q \in Int : -q - (-p) = -(q - p)
        OBVIOUS
      <4>8. m[j][2] - m[i][2] = -(s[j][2] - s[i][2])
        BY <4>5, <4>6, <4>7
      <4> QED
        BY <4>1, <4>2, <4>4, <4>5, <4>8
    <3> HIDE DEF A
    <3>3. Between(Chord(m, k - Approx, k), Chord(m, k, k + Approx))
            = <<-Between(Chord(s, k - Approx, k), Chord(s, k, k + Approx))[1],
                Between(Chord(s, k - Approx, k), Chord(s, k, k + Approx))[2]>>
      <4> DEFINE u == Chord(s, k - Approx, k)
                 v == Chord(s, k, k + Approx)
                 p == Chord(m, k - Approx, k)
                 q == Chord(m, k, k + Approx)
      <4>1. u \in Int \X Int /\ p \in Int \X Int /\ p[1] = u[1] /\ p[2] = -u[2]
        BY <3>1, <3>2
      <4>2. v \in Int \X Int /\ q \in Int \X Int /\ q[1] = v[1] /\ q[2] = -v[2]
        BY <3>1, <3>2
      <4> HIDE DEF u, v, p, q
      <4>3. Between(p, q) = <<-Between(u, v)[1], Between(u, v)[2]>>
        BY <4>1, <4>2, MirroredBetween
      <4> QED
        BY <4>3 DEF u, v, p, q
    <3>4. /\ A(m, k) = Between(Chord(m, k - Approx, k), Chord(m, k, k + Approx))
          /\ A(s, k) = Between(Chord(s, k - Approx, k), Chord(s, k, k + Approx))
      BY <2>2, <1>1 DEF A
    <3> QED
      BY <3>3, <3>4
  <2> QED
    BY <2>1, <2>2
<1>3. /\ local_angle_points(s, Approx) = [k \in DOMAIN s |-> A(s, k)]
      /\ local_angle_points(m, Approx) = [k \in DOMAIN s |-> A(m, k)]
  BY <1>1 DEF local_angle_points
<1> HIDE DEF A
<1>4. local_angle_points(m, Approx) = [k \in DOMAIN s |-> <<-A(s, k)[1], A(s, k)[2]>>]
  BY <1>2, <1>3
<1>5. \A k \in DOMAIN s : local_angle_points(s, Approx)[k] = A(s, k)
  BY <1>3
<1>6. local_angle_points(m, Approx)
        = [k \in DOMAIN s |-> <<-local_angle_points(s, Approx)[k][1], local_angle_points(s, Approx)[k][2]>>]
  BY <1>4, <1>5
<1> QED
  BY <1>6 DEF m

(* The maxima.                                                             *)
LEMMA MaximaAre ==
  ASSUME NEW a \in Seq(Int)
  PROVE  LET b == nms_angle(a, 2 * Approx + 1)
         IN  /\ \A k \in DOMAIN a :
                  (\A n \in DOMAIN a : Abs(a[n]) <= Abs(a[k])) => b[k] = a[k]
             /\ \A k, n \in DOMAIN a :
                  k - n \in -Approx .. Approx /\ b[k] # 0 /\ b[n] # 0 => Abs(b[k]) = Abs(b[n])
<1> DEFINE b == nms_angle(a, 2 * Approx + 1)
           hidden(k) == \E j \in -Approx .. Approx : Larger(a[clip(k + j, 1, Len(a))], a[k])
<1>1. Approx \in Nat /\ Len(a) \in Nat /\ DOMAIN a = 1 .. Len(a) /\ \A k \in 1 .. Len(a) : a[k] \in Int
  BY LineAssumption, ElementOfSeq
<1>2. (2 * Approx + 1) \div 2 = Approx
  BY <1>1
<1>3. \A k \in DOMAIN a : b[k] = IF hidden(k) THEN 0 ELSE a[k]
  BY <1>2 DEF nms_angle
<1> HIDE DEF b
<1>4. ASSUME NEW k \in DOMAIN a, \A n \in DOMAIN a : Abs(a[n]) <= Abs(a[k])
      PROVE  b[k] = a[k]
  <2>1. ASSUME NEW j \in -Approx .. Approx
        PROVE  ~Larger(a[clip(k + j, 1, Len(a))], a[k])
    <3>1. clip(k + j, 1, Len(a)) \in 1 .. Len(a)
      BY <1>1 DEF clip
    <3>2. Abs(a[clip(k + j, 1, Len(a))]) <= Abs(a[k])
      BY <3>1, <1>1, <1>4
    <3>3. \A x, y \in Int : Abs(x) <= Abs(y) => ~Larger(x, y)
      BY DEF Larger, Abs
    <3>4. a[clip(k + j, 1, Len(a))] \in Int /\ a[k] \in Int
      BY <3>1, <1>1
    <3> QED
      BY <3>2, <3>3, <3>4
  <2> QED
    BY <2>1, <1>3
<1>5. ASSUME NEW k \in DOMAIN a, NEW n \in DOMAIN a, k - n \in -Approx .. Approx, b[k] # 0, b[n] # 0
      PROVE  Abs(b[k]) = Abs(b[n])
  <2>1. b[k] = a[k] /\ b[n] = a[n] /\ ~hidden(k) /\ ~hidden(n)
    BY <1>3, <1>5
  <2>2. ~Larger(a[n], a[k])
    <3>1. n - k \in -Approx .. Approx /\ clip(k + (n - k), 1, Len(a)) = n
      BY <1>1, <1>5 DEF clip
    <3> QED
      BY <3>1, <2>1
  <2>3. ~Larger(a[k], a[n])
    <3>1. k - n \in -Approx .. Approx /\ clip(n + (k - n), 1, Len(a)) = k
      BY <1>1, <1>5 DEF clip
    <3> QED
      BY <3>1, <2>1
  <2>4. a[k] \in Int /\ a[n] \in Int
    BY <1>1
  <2>5. \A x, y \in Int : ~Larger(x, y) /\ ~Larger(y, x) => Abs(x) = Abs(y)
    BY DEF Larger, Abs
  <2> QED
    BY <2>1, <2>2, <2>3, <2>4, <2>5
<1> QED
  BY <1>4, <1>5 DEF b

(* The points of a line without a bend lie one chord apart.                *)
Unbent(s) == \A k \in 2 .. Len(s) - 1 : Chord(s, k - 1, k) = Chord(s, k, k + 1)
OnLine(s, c) == \A k \in 1 .. Len(s), a \in {1, 2} : s[k][a] = s[1][a] + (k - 1) * c[a]

(* ... that is, one step further each.                                     *)
LEMMA UnbentIsEven ==
  ASSUME NEW s \in PlanePoints, Len(s) >= 2, Unbent(s)
  PROVE  \E c \in Int \X Int : OnLine(s, c)
<1> DEFINE c == <<s[2][1] - s[1][1], s[2][2] - s[1][2]>>
           off == {k \in 1 .. Len(s) : \E a \in {1, 2} : s[k][a] # s[1][a] + (k - 1) * c[a]}
<1>1. /\ Len(s) \in Nat
      /\ \A k \in 1 .. Len(s) : s[k] \in Int \X Int
  BY MirroredPoints
<1>2. c \in Int \X Int /\ \A a \in {1, 2} : c[a] = s[2][a] - s[1][a]
  BY <1>1
<1>3. ASSUME off # {}
      PROVE  FALSE
  <2>1. off \subseteq Nat
    BY <1>1
  <2> HIDE DEF off, c
  <2>2. PICK k \in off : \A j \in off : ~(<<j, k>> \in OpToRel(<, Nat))
    BY <2>1, <1>3, WFMin, NatLessThanWellFounded, Zenon
  <2>3. \A j \in off : ~(j < k)
    BY <2>1, <2>2 DEF OpToRel
  <2>4. k \in 1 .. Len(s) /\ \A j \in 1 .. k - 1 : \A a \in {1, 2} : s[j][a] = s[1][a] + (j - 1) * c[a]
    <3>1. k \in 1 .. Len(s)
      BY <2>2 DEF off
    <3>2. \A j \in 1 .. k - 1 : j \in 1 .. Len(s) /\ j \notin off
      BY <3>1, <2>3, <1>1
    <3> QED
      BY <3>1, <3>2 DEF off
  <2>5. \A x \in Int : (1 - 1) * x = 0 /\ (2 - 1) * x = x
    OBVIOUS
  <2>6. k >= 3
    <3>1. \A a \in {1, 2} : s[1][a] \in Int /\ s[2][a] \in Int /\ c[a] \in Int
      BY <1>1, <1>2
    <3>2. \A a \in {1, 2} : s[1][a] = s[1][a] + (1 - 1) * c[a] /\ s[2][a] = s[1][a] + (2 - 1) * c[a]
      BY <3>1, <2>5, <1>2
    <3>3. k # 1 /\ k # 2
      BY <3>2, <2>2 DEF off
    <3> QED
      BY <3>3, <2>4, <1>1
  <2>7. Chord(s, k - 2, k - 1) = Chord(s, k - 1, k)
    <3>1. k - 1 \in 2 .. Len(s) - 1 /\ (k - 1) - 1 = k - 2 /\ (k - 1) + 1 = k
      BY <2>4, <2>6, <1>1
    <3> QED
      BY <3>1 DEF Unbent
  <2>8. ASSUME NEW a \in {1, 2}
        PROVE  s[k][a] = s[1][a] + (k - 1) * c[a]
    <3>1. /\ clip(k, 1, Len(s)) = k /\ clip(k - 1, 1, Len(s)) = k - 1 /\ clip(k - 2, 1, Len(s)) = k - 2
          /\ k \in Int /\ k - 1 \in Int /\ k - 2 \in Int /\ Len(s) >= 1
      BY <2>4, <2>6, <1>1 DEF clip
    <3>2. Chord(s, k - 2, k - 1)[a] = s[k - 1][a] - s[k - 2][a] /\ Chord(s, k - 1, k)[a] = s[k][a] - s[k - 1][a]
      <4>1. /\ Chord(s, k - 2, k - 1)[a] = s[clip(k - 1, 1, Len(s))][a] - s[clip(k - 2, 1, Len(s))][a]
            /\ Chord(s, k - 1, k)[a] = s[clip(k, 1, Len(s))][a] - s[clip(k - 1, 1, Len(s))][a]
        <5>1. ASSUME NEW i \in Int, NEW j \in Int
              PROVE  \A n \in {1, 2} : Chord(s, i, j)[n] = s[clip(j, 1, Len(s))][n] - s[clip(i, 1, Len(s))][n]
          BY <3>1, ChordOf
        <5> QED
          BY <3>1, <5>1, Zenon
      <4> QED
        BY <4>1, <3>1
    <3>3. s[k - 1][a] = s[1][a] + (k - 2) * c[a] /\ s[k - 2][a] = s[1][a] + (k - 3) * c[a]
      <4>1. k - 1 \in 1 .. k - 1 /\ k - 2 \in 1 .. k - 1 /\ (k - 1) - 1 = k - 2 /\ (k - 2) - 1 = k - 3
        BY <2>4, <2>6
      <4>2. /\ s[k - 1][a] = s[1][a] + ((k - 1) - 1) * c[a]
            /\ s[k - 2][a] = s[1][a] + ((k - 2) - 1) * c[a]
        BY <4>1, <2>4, Zenon
      <4> QED
        BY <4>1, <4>2, Zenon
    <3>4. s[k][a] \in Int /\ s[k - 1][a] \in Int /\ s[k - 2][a] \in Int /\ s[1][a] \in Int /\ c[a] \in Int
      <4>1. \A p \in Int \X Int : p[a] \in Int
        OBVIOUS
      <4>2. k - 1 \in 1 .. Len(s) /\ k - 2 \in 1 .. Len(s) /\ 1 \in 1 .. Len(s)
        BY <1>1, <2>4, <2>6
      <4>3. s[k] \in Int \X Int /\ s[k - 1] \in Int \X Int /\ s[k - 2] \in Int \X Int /\ s[1] \in Int \X Int
        BY <4>2, <2>4, <1>1
      <4> QED
        BY <4>1, <4>3, <1>2
    <3>5. \A x \in Int : /\ (k - 2) * x \in Int /\ (k - 3) * x \in Int /\ (k - 1) * x \in Int
                         /\ (k - 3) * x = (k - 2) * x - x /\ (k - 1) * x = (k - 2) * x + x
      BY <2>4
    <3> DEFINE x == s[k - 2][a]
               y == s[k - 1][a]
               z == s[k][a]
               m == (k - 2) * c[a]
               n == (k - 3) * c[a]
               o == (k - 1) * c[a]
               first == s[1][a]
               d == c[a]
    <3>6. m \in Int /\ n \in Int /\ o \in Int /\ n = m - d /\ o = m + d
      BY <3>4, <3>5
    <3>7. y - x = z - y /\ y = first + m /\ x = first + n
      BY <2>7, <3>2, <3>3
    <3>8. x \in Int /\ y \in Int /\ z \in Int /\ first \in Int /\ d \in Int
      BY <3>4
    <3> HIDE DEF x, y, z, m, n, o, first, d
    <3>9. z = first + o
      BY <3>6, <3>7, <3>8
    <3> QED
      BY <3>9 DEF z, first, o
  <2> QED
    BY <2>2, <2>8 DEF off
<1> QED
  BY <1>2, <1>3 DEF OnLine

(* ... and its chords run along one another, never back.                   *)
LEMMA ChordOnLine ==
  ASSUME NEW s \in PlanePoints, Len(s) >= 1, NEW c \in Int \X Int, OnLine(s, c),
         NEW a \in Int, NEW b \in Int, a <= b
  PROVE  \E n \in Nat : Chord(s, a, b)[1] = n * c[1] /\ Chord(s, a, b)[2] = n * c[2]
<1> DEFINE i == clip(a, 1, Len(s))
           j == clip(b, 1, Len(s))
<1>1. /\ i \in 1 .. Len(s) /\ j \in 1 .. Len(s)
      /\ Chord(s, a, b)[1] = s[j][1] - s[i][1] /\ Chord(s, a, b)[2] = s[j][2] - s[i][2]
  BY ChordOf
<1>2. i <= j
  BY DEF clip, PlanePoints
<1>3. Len(s) \in Nat /\ s[1] \in Int \X Int
  BY MirroredPoints
<1> HIDE DEF i, j
<1>4. i \in Nat /\ j \in Nat /\ j - i \in Nat
  BY <1>1, <1>2, <1>3
<1>5. ASSUME NEW n \in {1, 2}
      PROVE  s[j][n] - s[i][n] = (j - i) * c[n]
  <2>1. s[j][n] = s[1][n] + (j - 1) * c[n] /\ s[i][n] = s[1][n] + (i - 1) * c[n]
    BY <1>1 DEF OnLine
  <2>2. \A x \in Int : (j - 1) * x \in Int /\ (i - 1) * x \in Int /\ (j - 1) * x - (i - 1) * x = (j - i) * x
    BY <1>4
  <2>3. c[n] \in Int /\ s[1][n] \in Int
    BY <1>3
  <2>4. (j - 1) * c[n] \in Int /\ (i - 1) * c[n] \in Int /\ (j - 1) * c[n] - (i - 1) * c[n] = (j - i) * c[n]
    BY <2>2, <2>3
  <2> QED
    BY <2>1, <2>3, <2>4
<1> QED
  BY <1>1, <1>4, <1>5

(* Such chords turn by nothing.                                            *)
LEMMA AlongNoAngle ==
  ASSUME NEW u \in Int \X Int, NEW v \in Int \X Int, NEW c \in Int \X Int, NEW n \in Nat, NEW m \in Nat,
         u[1] = n * c[1], u[2] = n * c[2], v[1] = m * c[1], v[2] = m * c[2]
  PROVE  Between(u, v)[1] = 0 /\ Between(u, v)[2] >= 0
<1>1. \A x, y \in Int : (n * x) * (m * y) = (m * x) * (n * y)
  OBVIOUS
<1>2. \A x \in Int : x * x >= 0 /\ x * x \in Int
  OBVIOUS
<1>3. \A x \in Int : (n * x) * (m * x) = (n * m) * (x * x)
  OBVIOUS
<1>4. n * m \in Nat
  OBVIOUS
<1>5. \A x, y \in Nat : x * y \in Nat
  OBVIOUS
<1>6. c[1] \in Int /\ c[2] \in Int
  OBVIOUS
<1>7. \A x \in Int : (n * x) * (m * x) \in Nat
  <2> TAKE x \in Int
  <2>1. x * x \in Nat
    BY <1>2
  <2>2. (n * m) * (x * x) \in Nat
    BY <2>1, <1>4, <1>5
  <2> QED
    BY <2>2, <1>3
<1>8. u[1] * v[1] \in Nat /\ u[2] * v[2] \in Nat
  BY <1>6, <1>7
<1>9. u[1] * v[2] = v[1] * u[2] /\ u[1] * v[2] \in Int
  <2>1. (n * c[1]) * (m * c[2]) = (m * c[1]) * (n * c[2])
    BY <1>1, <1>6
  <2> QED
    BY <2>1
<1> QED
  BY <1>8, <1>9 DEF Between

(* A line without a bend has no angle anywhere.                            *)
LEMMA UnbentNoAngle ==
  ASSUME NEW s \in PlanePoints, Unbent(s), NEW k \in DOMAIN s
  PROVE  local_angle_points(s, Approx)[k][1] = 0 /\ local_angle_points(s, Approx)[k][2] >= 0
<1>1. Len(s) \in Nat /\ DOMAIN s = 1 .. Len(s) /\ Approx \in Nat /\ k \in Int
  BY MirroredPoints, LineAssumption
<1>2. CASE k = 1 \/ k = Len(s)
  BY <1>2 DEF local_angle_points
<1>3. CASE ~(k = 1 \/ k = Len(s))
  <2>1. Len(s) >= 2
    BY <1>1, <1>3
  <2>2. PICK c \in Int \X Int : OnLine(s, c)
    BY <2>1, UnbentIsEven
  <2> DEFINE u == Chord(s, k - Approx, k)
             v == Chord(s, k, k + Approx)
  <2>3. Len(s) >= 1 /\ k - Approx \in Int /\ k + Approx \in Int /\ k - Approx <= k /\ k <= k + Approx
    BY <2>1, <1>1
  <2>4. u \in Int \X Int /\ \E n \in Nat : u[1] = n * c[1] /\ u[2] = n * c[2]
    <3>1. u \in Int \X Int
      BY <2>3, <1>1, ChordOf
    <3>2. \E n \in Nat : u[1] = n * c[1] /\ u[2] = n * c[2]
      BY <2>2, <2>3, <1>1, ChordOnLine, Zenon
    <3> QED
      BY <3>1, <3>2
  <2>5. v \in Int \X Int /\ \E n \in Nat : v[1] = n * c[1] /\ v[2] = n * c[2]
    <3>1. v \in Int \X Int
      BY <2>3, <1>1, ChordOf
    <3>2. \E n \in Nat : v[1] = n * c[1] /\ v[2] = n * c[2]
      BY <2>2, <2>3, <1>1, ChordOnLine, Zenon
    <3> QED
      BY <3>1, <3>2
  <2> HIDE DEF u, v
  <2>6. Between(u, v)[1] = 0 /\ Between(u, v)[2] >= 0
    BY <2>4, <2>5, AlongNoAngle
  <2>7. local_angle_points(s, Approx)[k] = Between(u, v)
    BY <1>3 DEF local_angle_points, u, v
  <2> QED
    BY <2>6, <2>7
<1> QED
  BY <1>2, <1>3

(* Squares and factors that cancel.                                        *)
LEMMA FactorCancels ==
  ASSUME NEW x \in Int, NEW y \in Int, NEW n \in Nat \ {0}, x * n = y * n
  PROVE  x = y
<1>1. ASSUME NEW a \in Int, NEW b \in Int, a < b
      PROVE  a * n < b * n
  <2>1. (a + 1) * n <= b * n
    BY <1>1, ProductsInOrder
  <2>2. (a + 1) * n = a * n + n /\ a * n \in Int /\ b * n \in Int
    OBVIOUS
  <2> QED
    BY <2>1, <2>2
<1>2. x * n \in Int /\ y * n \in Int
  OBVIOUS
<1>3. ~(x < y) /\ ~(y < x)
  BY <1>1, <1>2
<1> QED
  BY <1>3

(* Squares have one root that is not negative.                             *)
LEMMA RootsAlike ==
  ASSUME NEW x \in Nat, NEW y \in Nat, x * x = y * y
  PROVE  x = y
<1>1. ASSUME NEW a \in Nat, NEW b \in Nat, a < b
      PROVE  a * a < b * b
  <2>1. a * a <= b * a /\ (a + 1) * b <= b * b
    BY <1>1, ProductsInOrder
  <2>2. (a + 1) * b = b * a + b /\ b * a \in Int /\ a * a \in Int /\ b * b \in Int
    OBVIOUS
  <2> QED
    BY <2>1, <2>2, <1>1
<1>2. x * x \in Int /\ y * y \in Int
  OBVIOUS
<1>3. ~(x < y) /\ ~(y < x)
  BY <1>1, <1>2
<1> QED
  BY <1>3

(* A division without a remainder.                                         *)
LEMMA ExactQuotient ==
  ASSUME NEW x \in Int, NEW n \in Nat \ {0}, x % n = 0
  PROVE  x \div n \in Int /\ (x \div n) * n = x
<1>1. x \div n \in Int /\ x = n * (x \div n) + (x % n)
  OBVIOUS
<1> QED
  BY <1>1

(* The whole length of a chord, and that its normal divides evenly.        *)
Exact(c, n) == IsLength(c, n) /\ \A a \in {1, 2} : (c[a] * HalfRoad) % n = 0

(* There is but one such length.                                           *)
LEMMA LengthIs ==
  ASSUME NEW c \in Int \X Int, NEW n \in 1 .. Abs(c[1]) + Abs(c[2]), Exact(c, n)
  PROVE  Length(c) \in Nat \ {0} /\ Exact(c, Length(c))
<1>1. Abs(c[1]) \in Nat /\ Abs(c[2]) \in Nat
  BY DEF Abs
<1>2. Length(c) \in 1 .. Abs(c[1]) + Abs(c[2]) /\ IsLength(c, Length(c))
  BY DEF Length, Exact
<1>3. Length(c) \in Nat /\ n \in Nat
  BY <1>1, <1>2
<1>4. Length(c) = n
  BY <1>2, <1>3, RootsAlike DEF IsLength, Exact
<1> QED
  BY <1>3, <1>4, <1>2 DEF Exact, IsLength

(* The normal of such a chord: HalfRoad long.                              *)
Normal(c) == <<(c[2] * HalfRoad) \div Length(c), -((c[1] * HalfRoad) \div Length(c))>>

(* Its square is a whole one.                                              *)
LEMMA NormalIs ==
  ASSUME NEW c \in Int \X Int, Length(c) \in Nat \ {0}, Exact(c, Length(c))
  PROVE  /\ Normal(c) \in Int \X Int
         /\ Normal(c)[1] * Length(c) = c[2] * HalfRoad
         /\ Normal(c)[2] * Length(c) = -(c[1] * HalfRoad)
         /\ Normal(c)[1] * Normal(c)[1] + Normal(c)[2] * Normal(c)[2] = HalfRoad * HalfRoad
<1> DEFINE n == Length(c)
           p == (c[2] * HalfRoad) \div n
           q == (c[1] * HalfRoad) \div n
<1>1. HalfRoad \in Nat /\ c[1] \in Int /\ c[2] \in Int
  BY LineAssumption
<1>2. c[1] * HalfRoad \in Int /\ c[2] * HalfRoad \in Int
  BY <1>1
<1>3. n \in Nat \ {0} /\ n * n = c[1] * c[1] + c[2] * c[2]
      /\ (c[1] * HalfRoad) % n = 0 /\ (c[2] * HalfRoad) % n = 0
  BY DEF Exact, IsLength
<1> HIDE DEF n
<1>4. p \in Int /\ q \in Int /\ p * n = c[2] * HalfRoad /\ q * n = c[1] * HalfRoad
  BY <1>2, <1>3, ExactQuotient
<1>5. Normal(c) = <<p, -q>>
  BY DEF Normal, n
<1> HIDE DEF p, q
<1>6. p * p + q * q = HalfRoad * HalfRoad
  <2>1. (p * p + q * q) * (n * n) = (p * n) * (p * n) + (q * n) * (q * n)
    BY <1>3, <1>4
  <2>2. \A x, y, h \in Int : (y * h) * (y * h) + (x * h) * (x * h) = (h * h) * (x * x + y * y)
    OBVIOUS
  <2>3. (c[2] * HalfRoad) * (c[2] * HalfRoad) + (c[1] * HalfRoad) * (c[1] * HalfRoad)
          = (HalfRoad * HalfRoad) * (c[1] * c[1] + c[2] * c[2])
    BY <2>2, <1>1
  <2>4. (p * p + q * q) * (n * n) = (HalfRoad * HalfRoad) * (n * n)
    BY <2>1, <2>3, <1>3, <1>4
  <2>5. p * p + q * q \in Int /\ HalfRoad * HalfRoad \in Int
    BY <1>1, <1>4
  <2>6. n * n \in Nat \ {0}
    <3>1. \A x \in Nat \ {0} : x * x \in Nat \ {0}
      OBVIOUS
    <3> QED
      BY <3>1, <1>3
  <2> QED
    BY <2>4, <2>5, <2>6, FactorCancels
<1>7. /\ <<p, -q>>[1] = p /\ <<p, -q>>[2] = -q /\ (-q) * (-q) = q * q
      /\ (-q) * n = -(q * n) /\ -q \in Int
  BY <1>3, <1>4
<1> QED
  BY <1>4, <1>5, <1>6, <1>7 DEF n

(* Chords of one direction have one normal.                                *)
LEMMA NormalsAlike ==
  ASSUME NEW u \in Int \X Int, NEW v \in Int \X Int, NEW c \in Int \X Int, NEW i \in Nat, NEW j \in Nat,
         u[1] = i * c[1], u[2] = i * c[2], v[1] = j * c[1], v[2] = j * c[2],
         Length(u) \in Nat \ {0}, Exact(u, Length(u)), Length(v) \in Nat \ {0}, Exact(v, Length(v))
  PROVE  Normal(u) = Normal(v)
<1> DEFINE m == Length(u)
           n == Length(v)
<1>1. HalfRoad \in Int /\ c[1] \in Int /\ c[2] \in Int
  BY LineAssumption
<1>2. /\ m \in Nat \ {0} /\ m * m = (i * c[1]) * (i * c[1]) + (i * c[2]) * (i * c[2])
      /\ n \in Nat \ {0} /\ n * n = (j * c[1]) * (j * c[1]) + (j * c[2]) * (j * c[2])
  BY DEF Exact, IsLength
<1>3. /\ Normal(u) \in Int \X Int /\ Normal(v) \in Int \X Int
      /\ Normal(u)[1] * m = (i * c[2]) * HalfRoad /\ Normal(u)[2] * m = -((i * c[1]) * HalfRoad)
      /\ Normal(v)[1] * n = (j * c[2]) * HalfRoad /\ Normal(v)[2] * n = -((j * c[1]) * HalfRoad)
  BY NormalIs
<1> HIDE DEF m, n
<1>4. m * j = n * i
  <2>1. \A x, y \in Int : (j * j) * ((i * x) * (i * x) + (i * y) * (i * y))
                            = (i * i) * ((j * x) * (j * x) + (j * y) * (j * y))
    OBVIOUS
  <2>2. (j * j) * (m * m) = (i * i) * (n * n)
    BY <2>1, <1>1, <1>2
  <2>3. (m * j) * (m * j) = (j * j) * (m * m) /\ (n * i) * (n * i) = (i * i) * (n * n)
    BY <1>2
  <2>4. m * j \in Nat /\ n * i \in Nat
    BY <1>2
  <2> QED
    BY <2>2, <2>3, <2>4, RootsAlike
<1>5. m * j \in Nat \ {0}
  <2>1. j # 0
    <3> SUFFICES ASSUME j = 0
                 PROVE  FALSE
      OBVIOUS
    <3>1. \A x \in Int : 0 * x = 0
      OBVIOUS
    <3>2. n * n = 0 * 0 + 0 * 0
      BY <1>1, <1>2, <3>1
    <3>3. \A x \in Nat \ {0} : x * x # 0
      OBVIOUS
    <3> QED
      BY <3>2, <3>3, <1>2
  <2>2. \A x, y \in Nat \ {0} : x * y \in Nat \ {0}
    OBVIOUS
  <2> QED
    BY <2>1, <2>2, <1>2
<1>6. ASSUME NEW x \in Int, NEW p \in Int, NEW q \in Int,
             p * m = (i * x) * HalfRoad, q * n = (j * x) * HalfRoad
      PROVE  p = q
  <2>1. p * (m * j) = (p * m) * j /\ q * (n * i) = (q * n) * i
    BY <1>2
  <2>2. ((i * x) * HalfRoad) * j = ((j * x) * HalfRoad) * i
    BY <1>1
  <2>3. p * (m * j) = q * (m * j)
    BY <2>1, <2>2, <1>4, <1>6
  <2> QED
    BY <2>3, <1>5, FactorCancels
<1>7. Normal(u)[1] \in Int /\ Normal(v)[1] \in Int /\ Normal(u)[2] \in Int /\ Normal(v)[2] \in Int
  BY <1>3
<1>8. Normal(u)[1] = Normal(v)[1]
  BY <1>1, <1>3, <1>6, <1>7
<1>9. Normal(u)[2] = Normal(v)[2]
  <2>1. \A x \in Int : (i * (-x)) * HalfRoad = -((i * x) * HalfRoad) /\ (j * (-x)) * HalfRoad = -((j * x) * HalfRoad)
    BY <1>1
  <2>2. -c[1] \in Int
    BY <1>1
  <2>3. Normal(u)[2] * m = (i * (-c[1])) * HalfRoad /\ Normal(v)[2] * n = (j * (-c[1])) * HalfRoad
    BY <2>1, <1>1, <1>3
  <2> QED
    BY <2>2, <2>3, <1>6, <1>7
<1> QED
  BY <1>3, <1>8, <1>9

(* The middle lines.                                                       *)
Whole(c) == c \in Int \X Int /\ Length(c) \in Nat \ {0} /\ Exact(c, Length(c))

(* GetMidLine_Left goes along the normal, GetMidLine_Right against it.     *)
LEMMA MidPointIs ==
  ASSUME NEW p \in Int \X Int, NEW c, Whole(c)
  PROVE  /\ Normal(c) \in Int \X Int
         /\ MidPoint(p, c, 1) = <<p[1] + Normal(c)[1], p[2] + Normal(c)[2]>>
         /\ MidPoint(p, c, -1) = <<p[1] - Normal(c)[1], p[2] - Normal(c)[2]>>
<1> DEFINE x == (c[2] * HalfRoad) \div Length(c)
           y == (c[1] * HalfRoad) \div Length(c)
<1>1. x \in Int /\ y \in Int
  <2>1. c[1] \in Int /\ c[2] \in Int /\ HalfRoad \in Int /\ Length(c) \in Nat \ {0}
    BY LineAssumption DEF Whole
  <2> QED
    BY <2>1
<1>2. /\ MidPoint(p, c, 1) = <<p[1] + 1 * x, p[2] - 1 * y>>
      /\ MidPoint(p, c, -1) = <<p[1] + (-1) * x, p[2] - (-1) * y>>
  BY DEF MidPoint
<1>3. Normal(c) = <<x, -y>>
  BY DEF Normal
<1> HIDE DEF x, y
<1>4. Normal(c) \in Int \X Int /\ Normal(c)[1] = x /\ Normal(c)[2] = -y
  BY <1>1, <1>3
<1>5. p[1] \in Int /\ p[2] \in Int
  OBVIOUS
<1>6. /\ p[1] + 1 * x = p[1] + x /\ p[2] - 1 * y = p[2] + (-y)
      /\ p[1] + (-1) * x = p[1] - x /\ p[2] - (-1) * y = p[2] - (-y)
  BY <1>1, <1>5
<1> QED
  BY <1>2, <1>4, <1>6

(* The lines considered have whole chords.                                 *)
LEMMA ChordsWhole ==
  ASSUME NEW s \in Lines, NEW k \in DOMAIN s
  PROVE  Whole(Around(s, k))
<1>1. s \in PlanePoints
  BY LineAssumption DEF PlanePoints
<1>2. k \in 1 .. Len(s) /\ Len(s) \in Nat
  BY <1>1, MirroredPoints
<1>3. Around(s, k) \in Int \X Int
  <2>1. Len(s) >= 1 /\ k - Approx \in Int /\ k + Approx \in Int
    BY <1>2, LineAssumption
  <2> QED
    BY <1>1, <2>1, ChordOf DEF Around
<1>4. \E n \in 1 .. Abs(Around(s, k)[1]) + Abs(Around(s, k)[2]) : Exact(Around(s, k), n)
  BY WholeAssumption DEF Exact
<1> QED
  BY <1>3, <1>4, LengthIs DEF Whole

(* A line that all the chords' normals are v of, and the line beside it.   *)
NormalTo(s, v) == \A k \in DOMAIN s : Whole(Around(s, k)) /\ Normal(Around(s, k)) = v
Displaced(s, v) == [k \in DOMAIN s |-> <<s[k][1] + v[1], s[k][2] + v[2]>>]

(* The middle line is the line beside, and has the same normals.           *)
LEMMA BesideAlike ==
  ASSUME NEW s \in PlanePoints, NEW v \in Int \X Int, NormalTo(s, v)
  PROVE  /\ GetMidLine_Left(s) = Displaced(s, v)
         /\ GetMidLine_Right(s) = Displaced(s, <<-v[1], -v[2]>>)
         /\ Displaced(s, v) \in PlanePoints /\ DOMAIN Displaced(s, v) = DOMAIN s
         /\ NormalTo(Displaced(s, v), v)
<1> DEFINE t == Displaced(s, v)
<1>1. /\ Len(s) \in Nat /\ DOMAIN s = 1 .. Len(s)
      /\ \A k \in 1 .. Len(s) : s[k] \in Int \X Int
  BY MirroredPoints
<1>2. v[1] \in Int /\ v[2] \in Int
  OBVIOUS
<1>3. \A k \in DOMAIN s : <<s[k][1] + v[1], s[k][2] + v[2]>> \in Int \X Int
  BY <1>1, <1>2
<1>4. t \in PlanePoints /\ DOMAIN t = DOMAIN s /\ Len(t) = Len(s)
  BY <1>1, <1>3 DEF Displaced, PlanePoints
<1>5. \A k \in DOMAIN s : t[k][1] = s[k][1] + v[1] /\ t[k][2] = s[k][2] + v[2]
  BY <1>3 DEF Displaced
<1> HIDE DEF t
<1>6. \A k \in DOMAIN s : Around(t, k) = Around(s, k)
  <2> SUFFICES ASSUME NEW k \in DOMAIN s
               PROVE  Around(t, k) = Around(s, k)
    OBVIOUS
  <2> DEFINE i == clip(k - Approx, 1, Len(s))
             j == clip(k + Approx, 1, Len(s))
  <2>1. Len(s) >= 1 /\ k - Approx \in Int /\ k + Approx \in Int /\ Len(t) >= 1
    BY <1>1, <1>4, LineAssumption
  <2>2. /\ i \in 1 .. Len(s) /\ j \in 1 .. Len(s)
        /\ Chord(s, k - Approx, k + Approx) \in Int \X Int
        /\ Chord(s, k - Approx, k + Approx)[1] = s[j][1] - s[i][1]
        /\ Chord(s, k - Approx, k + Approx)[2] = s[j][2] - s[i][2]
    BY <2>1, ChordOf
  <2>3. /\ Chord(t, k - Approx, k + Approx) \in Int \X Int
        /\ Chord(t, k - Approx, k + Approx)[1] = t[clip(k + Approx, 1, Len(t))][1] - t[clip(k - Approx, 1, Len(t))][1]
        /\ Chord(t, k - Approx, k + Approx)[2] = t[clip(k + Approx, 1, Len(t))][2] - t[clip(k - Approx, 1, Len(t))][2]
    BY <2>1, <1>4, ChordOf
  <2>4. /\ Chord(t, k - Approx, k + Approx)[1] = t[j][1] - t[i][1]
        /\ Chord(t, k - Approx, k + Approx)[2] = t[j][2] - t[i][2]
    BY <2>3, <1>4
  <2> HIDE DEF i, j
  <2>5. /\ t[i][1] = s[i][1] + v[1] /\ t[i][2] = s[i][2] + v[2]
        /\ t[j][1] = s[j][1] + v[1] /\ t[j][2] = s[j][2] + v[2]
    BY <2>2, <1>1, <1>5
  <2>6. s[i] \in Int \X Int /\ s[j] \in Int \X Int
    BY <2>2, <1>1
  <2>7. s[i][1] \in Int /\ s[i][2] \in Int /\ s[j][1] \in Int /\ s[j][2] \in Int
    BY <2>6
  <2>8. t[j][1] - t[i][1] = s[j][1] - s[i][1] /\ t[j][2] - t[i][2] = s[j][2] - s[i][2]
    BY <2>5, <2>7, <1>2
  <2>9. \A p, q \in Int \X Int : p[1] = q[1] /\ p[2] = q[2] => p = q
    OBVIOUS
  <2>10. Chord(t, k - Approx, k + Approx)[1] = Chord(s, k - Approx, k + Approx)[1]
         /\ Chord(t, k - Approx, k + Approx)[2] = Chord(s, k - Approx, k + Approx)[2]
    BY <2>2, <2>4, <2>8
  <2> QED
    BY <2>2, <2>3, <2>9, <2>10 DEF Around
<1>7. NormalTo(t, v)
  BY <1>4, <1>6 DEF NormalTo
<1>8. \A k \in DOMAIN s : /\ MidPoint(s[k], Around(s, k), 1) = <<s[k][1] + v[1], s[k][2] + v[2]>>
                          /\ MidPoint(s[k], Around(s, k), -1) = <<s[k][1] - v[1], s[k][2] - v[2]>>
  BY <1>1, MidPointIs DEF NormalTo
<1>9. GetMidLine_Left(s) = Displaced(s, v)
  BY <1>8 DEF GetMidLine_Left, Displaced
<1>10. GetMidLine_Right(s) = Displaced(s, <<-v[1], -v[2]>>)
  <2>1. \A k \in DOMAIN s : /\ s[k][1] - v[1] = s[k][1] + (-v[1])
                            /\ s[k][2] - v[2] = s[k][2] + (-v[2])
    <3> TAKE k \in DOMAIN s
    <3>1. s[k] \in Int \X Int
      BY <1>1
    <3>2. s[k][1] \in Int /\ s[k][2] \in Int
      BY <3>1
    <3> QED
      BY <3>2, <1>2
  <2>2. <<-v[1], -v[2]>>[1] = -v[1] /\ <<-v[1], -v[2]>>[2] = -v[2]
    OBVIOUS
  <2>3. GetMidLine_Right(s) = [k \in DOMAIN s |-> <<s[k][1] - v[1], s[k][2] - v[2]>>]
    BY <1>8 DEF GetMidLine_Right
  <2>4. Displaced(s, <<-v[1], -v[2]>>) = [k \in DOMAIN s |-> <<s[k][1] + (-v[1]), s[k][2] + (-v[2])>>]
    BY <2>2 DEF Displaced
  <2> QED
    BY <2>1, <2>3, <2>4
<1> QED
  BY <1>4, <1>7, <1>9, <1>10 DEF t

(* A line without a bend has one normal.                                   *)
LEMMA UnbentHasNormal ==
  ASSUME NEW s \in Lines, Unbent(s)
  PROVE  \E v \in Int \X Int : NormalTo(s, v)
<1>1. s \in PlanePoints
  BY LineAssumption DEF PlanePoints
<1>2. Len(s) \in Nat /\ DOMAIN s = 1 .. Len(s)
  BY <1>1, MirroredPoints
<1>3. CASE Len(s) = 0
  <2>1. <<0, 0>> \in Int \X Int /\ DOMAIN s = {}
    BY <1>2, <1>3
  <2> QED
    BY <2>1 DEF NormalTo
<1>4. CASE Len(s) # 0
  <2> DEFINE v == Normal(Around(s, 1))
  <2>1. 1 \in DOMAIN s
    BY <1>2, <1>4
  <2>2. Whole(Around(s, 1))
    BY <2>1, ChordsWhole
  <2>3. v \in Int \X Int
    BY <2>2, NormalIs DEF Whole
  <2>4. ASSUME NEW k \in DOMAIN s
        PROVE  Whole(Around(s, k)) /\ Normal(Around(s, k)) = v
    <3>1. Whole(Around(s, k))
      BY ChordsWhole
    <3>2. CASE k = 1
      BY <3>1, <3>2
    <3>3. CASE k # 1
      <4>1. Len(s) >= 2 /\ Len(s) >= 1
        BY <3>3, <1>2
      <4>2. PICK c \in Int \X Int : OnLine(s, c)
        BY <4>1, <1>1, UnbentIsEven
      <4>3. \A m \in DOMAIN s : m - Approx \in Int /\ m + Approx \in Int /\ m - Approx <= m + Approx
        BY <1>2, LineAssumption
      <4>4. \A m \in DOMAIN s : \E n \in Nat : Around(s, m)[1] = n * c[1] /\ Around(s, m)[2] = n * c[2]
        <5> TAKE m \in DOMAIN s
        <5>1. m - Approx \in Int /\ m + Approx \in Int /\ m - Approx <= m + Approx
          BY <4>3
        <5>2. \E n \in Nat : Chord(s, m - Approx, m + Approx)[1] = n * c[1]
                             /\ Chord(s, m - Approx, m + Approx)[2] = n * c[2]
          BY <4>1, <4>2, <5>1, <1>1, ChordOnLine, Zenon
        <5> QED
          BY <5>2 DEF Around
      <4>5. PICK i \in Nat : Around(s, 1)[1] = i * c[1] /\ Around(s, 1)[2] = i * c[2]
        BY <4>4, <2>1
      <4>6. PICK j \in Nat : Around(s, k)[1] = j * c[1] /\ Around(s, k)[2] = j * c[2]
        BY <4>4
      <4> QED
        BY <4>2, <4>5, <4>6, <2>2, <3>1, NormalsAlike DEF Whole
    <3> QED
      BY <3>2, <3>3
  <2> QED
    BY <2>3, <2>4 DEF NormalTo
<1> QED
  BY <1>3, <1>4

(* The middle of a straight road is the same from both of its sides.       *)
LEMMA MiddleOfStraight ==
  ASSUME NEW s \in Lines, Unbent(s)
  PROVE  GetMidLine_Left(s) = GetMidLine_Right(GetMidLine_Left(GetMidLine_Left(s)))
<1>1. s \in PlanePoints
  BY LineAssumption DEF PlanePoints
<1>2. PICK v \in Int \X Int : NormalTo(s, v)
  BY UnbentHasNormal
<1> DEFINE t == Displaced(s, v)
           u == Displaced(t, v)
<1>3. GetMidLine_Left(s) = t /\ t \in PlanePoints /\ DOMAIN t = DOMAIN s /\ NormalTo(t, v)
  BY <1>1, <1>2, BesideAlike
<1> HIDE DEF t
<1>4. GetMidLine_Left(t) = u /\ u \in PlanePoints /\ DOMAIN u = DOMAIN t /\ NormalTo(u, v)
  BY <1>3, BesideAlike
<1> HIDE DEF u
<1>5. GetMidLine_Right(u) = Displaced(u, <<-v[1], -v[2]>>)
  BY <1>4, BesideAlike
<1>6. /\ Len(t) \in Nat /\ DOMAIN t = 1 .. Len(t)
      /\ \A k \in 1 .. Len(t) : t[k] \in Int \X Int
  BY <1>3, MirroredPoints
<1>7. \A k \in DOMAIN t : <<u[k][1] + (-v[1]), u[k][2] + (-v[2])>> = t[k]
  <2> TAKE k \in DOMAIN t
  <2>1. t[k] \in Int \X Int
    BY <1>6
  <2>2. t[k][1] \in Int /\ t[k][2] \in Int /\ v[1] \in Int /\ v[2] \in Int /\ t[k] = <<t[k][1], t[k][2]>>
    BY <2>1
  <2>3. u[k] = <<t[k][1] + v[1], t[k][2] + v[2]>>
    BY DEF u, Displaced
  <2>4. u[k][1] + (-v[1]) = t[k][1] /\ u[k][2] + (-v[2]) = t[k][2]
    BY <2>2, <2>3
  <2> QED
    BY <2>2, <2>4
<1>8. Displaced(u, <<-v[1], -v[2]>>) = [k \in DOMAIN t |-> t[k]]
  <2>1. <<-v[1], -v[2]>>[1] = -v[1] /\ <<-v[1], -v[2]>>[2] = -v[2]
    OBVIOUS
  <2>2. Displaced(u, <<-v[1], -v[2]>>) = [k \in DOMAIN t |-> <<u[k][1] + (-v[1]), u[k][2] + (-v[2])>>]
    BY <1>4, <2>1 DEF Displaced
  <2> QED
    BY <2>2, <1>7
<1>9. t = [k \in DOMAIN t |-> t[k]]
  BY <1>3 DEF PlanePoints
<1> QED
  BY <1>3, <1>4, <1>5, <1>8, <1>9

(* Left and right borders are treated alike.                               *)
LEMMA PlaneAlike == PlaneIInv => BordersAlike
<1> SUFFICES ASSUME PlaneIInv
             PROVE  BordersAlike
  OBVIOUS
<1>1. AnglesMirror
  <2> SUFFICES ASSUME line_stage = "angles"
               PROVE  /\ local_angle_points(Mirrored(line), Approx)
                           = [k \in DOMAIN line |-> <<-angle[k][1], angle[k][2]>>]
                      /\ StraightLine => \A k \in DOMAIN line : angle[k][1] = 0 /\ angle[k][2] >= 0
    BY DEF AnglesMirror
  <2>1. line \in PlanePoints /\ angle = local_angle_points(line, Approx)
    BY LineAssumption DEF PlaneIInv, PlanePoints
  <2>2. StraightLine => Unbent(line)
    BY DEF StraightLine, Unbent
  <2>3. local_angle_points(Mirrored(line), Approx)
          = [k \in DOMAIN line |-> <<-local_angle_points(line, Approx)[k][1], local_angle_points(line, Approx)[k][2]>>]
    BY <2>1, MirroredAngles
  <2>4. StraightLine => \A k \in DOMAIN line : /\ local_angle_points(line, Approx)[k][1] = 0
                                               /\ local_angle_points(line, Approx)[k][2] >= 0
    BY <2>1, <2>2, UnbentNoAngle
  <2> QED
    BY <2>1, <2>3, <2>4
<1>2. MaximaSurvive
  <2> SUFFICES ASSUME line_stage = "maxima"
               PROVE  /\ \A k \in DOMAIN angle_in :
                           (\A n \in DOMAIN angle_in : Abs(angle_in[n]) <= Abs(angle_in[k])) => angle_new[k] = angle_in[k]
                      /\ \A k, n \in DOMAIN angle_in :
                           k - n \in -Approx .. Approx /\ angle_new[k] # 0 /\ angle_new[n] # 0
                             => Abs(angle_new[k]) = Abs(angle_new[n])
    BY DEF MaximaSurvive
  <2>1. angle_in \in Seq(Int) /\ angle_new = nms_angle(angle_in, 2 * Approx + 1)
    BY LineAssumption DEF PlaneIInv
  <2> QED
    BY <2>1, MaximaAre
<1>3. MidLinesMeet
  <2> SUFFICES ASSUME line_stage = "mid"
               PROVE  /\ \A k \in DOMAIN line :
                           LET c == <<mid_left[k][1] - line[k][1], mid_left[k][2] - line[k][2]>>
                           IN  c[1] * c[1] + c[2] * c[2] = HalfRoad * HalfRoad
                      /\ StraightLine => mid_left = mid_right
    BY DEF MidLinesMeet
  <2>1. line \in Lines /\ mid_left = GetMidLine_Left(line) /\ mid_right = GetMidLine_Right(RightBorder)
    BY DEF PlaneIInv
  <2>2. line \in PlanePoints
    BY <2>1, LineAssumption DEF PlanePoints
  <2>3. ASSUME NEW k \in DOMAIN line
        PROVE  LET c == <<mid_left[k][1] - line[k][1], mid_left[k][2] - line[k][2]>>
               IN  c[1] * c[1] + c[2] * c[2] = HalfRoad * HalfRoad
    <3> DEFINE v == Normal(Around(line, k))
               p == line[k]
    <3>1. Whole(Around(line, k))
      BY <2>1, ChordsWhole
    <3>2. p \in Int \X Int
      BY <2>2, MirroredPoints
    <3>3. v \in Int \X Int /\ v[1] * v[1] + v[2] * v[2] = HalfRoad * HalfRoad
      BY <3>1, NormalIs DEF Whole
    <3>4. mid_left[k] = <<p[1] + v[1], p[2] + v[2]>>
      <4>1. MidPoint(p, Around(line, k), 1) = <<p[1] + v[1], p[2] + v[2]>>
        BY <3>1, <3>2, MidPointIs
      <4> QED
        BY <4>1, <2>1 DEF GetMidLine_Left
    <3> HIDE DEF v
    <3>5. p[1] \in Int /\ p[2] \in Int /\ v[1] \in Int /\ v[2] \in Int
      BY <3>2, <3>3
    <3>6. mid_left[k][1] - p[1] = v[1] /\ mid_left[k][2] - p[2] = v[2]
      BY <3>4, <3>5
    <3> QED
      BY <3>3, <3>6
  <2>4. ASSUME StraightLine
        PROVE  mid_left = mid_right
    <3>1. Unbent(line)
      BY <2>4 DEF StraightLine, Unbent
    <3>2. RightBorder = GetMidLine_Left(GetMidLine_Left(line))
      BY <2>4 DEF RightBorder
    <3>3. GetMidLine_Left(line) = GetMidLine_Right(GetMidLine_Left(GetMidLine_Left(line)))
      BY <3>1, <2>1, MiddleOfStraight
    <3> QED
      BY <2>1, <3>2, <3>3
  <2> QED
    BY <2>3, <2>4
<1> QED
  BY <1>1, <1>2, <1>3 DEF BordersAlike

(* What the code computes from a border it computes from the mirror image  *)
(* of it as well: the angles differ in sign only and a straight line has   *)
(* none, the largest of them survive nms_angle whatever their sign, and    *)
(* GetMidLine_Left and _Right find the same middle of a straight road,     *)
(* half its width from the border.                                         *)
THEOREM BordersTreatedAlike == LineSpec => []BordersAlike
<1>1. LineInit => PlaneIInv
  BY DEF LineInit, PlaneIInv
<1>2. PlaneIInv /\ [LineNext]_lineVars => PlaneIInv'
  BY PlaneStep
<1>3. PlaneIInv => BordersAlike
  BY PlaneAlike
<1> QED
  BY <1>1, <1>2, <1>3, PTL DEF LineSpec

-----------------------------------------------------------------------------
(* The follower of a border.                                               *)
(* What makes WallFollowed inductive: a search begins with nothing of the  *)
(* last one, and the last point of a line is where the follower is.        *)
BeginsFresh == phase \in {"idle", "scan"} => pts = << >> /\ dir = 0 /\ turn = 0
LastIsHere == pts # << >> => pts[Len(pts)] = at
WallIInv == WallTypeOK /\ WallFollowed /\ BeginsFresh /\ LastIsHere

(* What the state functions are for a place, a side and a direction.       *)
AwayOf(s, d)    == IF s = "left" THEN (d + 1) % 4 ELSE (d + 3) % 4
TowardsOf(s, d) == IF s = "left" THEN (d + 3) % 4 ELSE (d + 1) % 4
FrontOf(p, d)   == Plus(p, direction_front[d + 1])
SideOf(p, s, d) ==
  Plus(p, IF s = "left" THEN direction_frontleft[d + 1] ELSE direction_frontright[d + 1])
HandOf(p, s, d) == Plus(p, direction_front[TowardsOf(s, d) + 1])

(* The state functions of the module are those of this one.                *)
LEMMA Renamed ==
  /\ Front = FrontOf(at, dir) /\ FrontSide = SideOf(at, side, dir)
  /\ Hand = HandOf(at, side, dir)
  /\ Away = AwayOf(side, dir) /\ Towards = TowardsOf(side, dir)
  BY DEF Front, FrontOf, FrontSide, SideOf, Hand, HandOf, Away, AwayOf, Towards, TowardsOf

(* A place, from its coordinates.                                          *)
P(h, w) == [h |-> h, w |-> w]

(* The tables, spelled out.                                                *)
LEMMA Tables ==
  ASSUME NEW h \in Int, NEW w \in Int
  PROVE  /\ FrontOf(P(h, w), 0) = P(h - 1, w) /\ FrontOf(P(h, w), 1) = P(h, w + 1)
         /\ FrontOf(P(h, w), 2) = P(h + 1, w) /\ FrontOf(P(h, w), 3) = P(h, w - 1)
         /\ SideOf(P(h, w), "left", 0) = P(h - 1, w - 1)
         /\ SideOf(P(h, w), "left", 1) = P(h - 1, w + 1)
         /\ SideOf(P(h, w), "left", 2) = P(h + 1, w + 1)
         /\ SideOf(P(h, w), "left", 3) = P(h + 1, w - 1)
         /\ SideOf(P(h, w), "right", 0) = P(h - 1, w + 1)
         /\ SideOf(P(h, w), "right", 1) = P(h + 1, w + 1)
         /\ SideOf(P(h, w), "right", 2) = P(h + 1, w - 1)
         /\ SideOf(P(h, w), "right", 3) = P(h - 1, w - 1)
<1>1. /\ FrontOf(P(h, w), 0) = P(h - 1, w) /\ FrontOf(P(h, w), 1) = P(h, w + 1)
      /\ FrontOf(P(h, w), 2) = P(h + 1, w) /\ FrontOf(P(h, w), 3) = P(h, w - 1)
  BY DEF FrontOf, Plus, P, direction_front
<1>2. /\ SideOf(P(h, w), "left", 0) = P(h - 1, w - 1)
      /\ SideOf(P(h, w), "left", 1) = P(h - 1, w + 1)
      /\ SideOf(P(h, w), "left", 2) = P(h + 1, w + 1)
      /\ SideOf(P(h, w), "left", 3) = P(h + 1, w - 1)
  BY DEF SideOf, Plus, P, direction_frontleft
<1>3. /\ SideOf(P(h, w), "right", 0) = P(h - 1, w + 1)
      /\ SideOf(P(h, w), "right", 1) = P(h + 1, w + 1)
      /\ SideOf(P(h, w), "right", 2) = P(h + 1, w - 1)
      /\ SideOf(P(h, w), "right", 3) = P(h - 1, w - 1)
  BY DEF SideOf, Plus, P, direction_frontright
<1> QED
  BY <1>1, <1>2, <1>3

(* The turns, spelled out.                                                 *)
LEMMA Turns ==
  /\ TowardsOf("left", 0) = 3 /\ TowardsOf("left", 1) = 0
  /\ TowardsOf("left", 2) = 1 /\ TowardsOf("left", 3) = 2
  /\ TowardsOf("right", 0) = 1 /\ TowardsOf("right", 1) = 2
  /\ TowardsOf("right", 2) = 3 /\ TowardsOf("right", 3) = 0
  /\ AwayOf("left", 0) = 1 /\ AwayOf("left", 1) = 2
  /\ AwayOf("left", 2) = 3 /\ AwayOf("left", 3) = 0
  /\ AwayOf("right", 0) = 3 /\ AwayOf("right", 1) = 0
  /\ AwayOf("right", 2) = 1 /\ AwayOf("right", 3) = 2
  BY DEF TowardsOf, AwayOf

(* The hand is what would be ahead after a turn towards the border.        *)
LEMMA Hands == \A p, s, d : HandOf(p, s, d) = FrontOf(p, TowardsOf(s, d))
  BY DEF HandOf, FrontOf

(* The geometry of the three moves: turned away, the hand is on what was   *)
(* ahead; gone straight on, on what was ahead of the hand; gone round, on  *)
(* what it was on.                                                         *)
LEMMA Geometry ==
  ASSUME NEW h \in Int, NEW w \in Int, NEW s \in {"left", "right"}, NEW d \in 0 .. 3
  PROVE  /\ AwayOf(s, d) \in 0 .. 3 /\ TowardsOf(s, d) \in 0 .. 3
         /\ HandOf(P(h, w), s, AwayOf(s, d)) = FrontOf(P(h, w), d)
         /\ HandOf(FrontOf(P(h, w), d), s, d) = SideOf(P(h, w), s, d)
         /\ HandOf(SideOf(P(h, w), s, d), s, TowardsOf(s, d)) = HandOf(P(h, w), s, d)
<1>1. d = 0 \/ d = 1 \/ d = 2 \/ d = 3
  OBVIOUS
<1>2. /\ AwayOf(s, d) \in 0 .. 3 /\ TowardsOf(s, d) \in 0 .. 3
  BY <1>1, Turns
<1>3. HandOf(P(h, w), s, AwayOf(s, d)) = FrontOf(P(h, w), d)
  BY <1>1, Turns, Hands
<1>4. HandOf(FrontOf(P(h, w), d), s, d) = SideOf(P(h, w), s, d)
  BY <1>1, Turns, Hands, Tables
<1>5. HandOf(SideOf(P(h, w), s, d), s, TowardsOf(s, d)) = HandOf(P(h, w), s, d)
  BY <1>1, Turns, Hands, Tables
<1> QED
  BY <1>2, <1>3, <1>4, <1>5

(* Each of the places is one of the eight around the point.                *)
Beside8(q, h, w) == \E i, j \in -1 .. 1 : q = P(h + i, w + j) /\ (i # 0 \/ j # 0)

(* So the follower looks at its neighbours only.                           *)
LEMMA AllAround ==
  ASSUME NEW h \in Int, NEW w \in Int, NEW s \in {"left", "right"}, NEW d \in 0 .. 3
  PROVE  /\ Beside8(FrontOf(P(h, w), d), h, w)
         /\ Beside8(SideOf(P(h, w), s, d), h, w)
         /\ Beside8(HandOf(P(h, w), s, d), h, w)
<1>1. ASSUME NEW e \in 0 .. 3
      PROVE  Beside8(FrontOf(P(h, w), e), h, w)
  <2>1. e = 0 \/ e = 1 \/ e = 2 \/ e = 3
    OBVIOUS
  <2>2. \E i, j \in -1 .. 1 : FrontOf(P(h, w), e) = P(h + i, w + j) /\ (i # 0 \/ j # 0)
    <3>1. \/ FrontOf(P(h, w), e) = P(h + (-1), w + 0)
          \/ FrontOf(P(h, w), e) = P(h + 0, w + 1)
          \/ FrontOf(P(h, w), e) = P(h + 1, w + 0)
          \/ FrontOf(P(h, w), e) = P(h + 0, w + (-1))
      BY <2>1, Tables
    <3> QED
      BY <3>1
  <2> QED
    BY <2>2 DEF Beside8
<1>2. Beside8(SideOf(P(h, w), s, d), h, w)
  <2>1. \E i, j \in {-1, 1} : SideOf(P(h, w), s, d) = P(h + i, w + j)
    <3>1. \/ SideOf(P(h, w), s, d) = P(h + (-1), w + (-1))
          \/ SideOf(P(h, w), s, d) = P(h + (-1), w + 1)
          \/ SideOf(P(h, w), s, d) = P(h + 1, w + 1)
          \/ SideOf(P(h, w), s, d) = P(h + 1, w + (-1))
      BY Tables
    <3> QED
      BY <3>1
  <2> QED
    BY <2>1 DEF Beside8
<1> QED
  BY <1>1, <1>2, Hands, Geometry

(* The constants that the arithmetic needs.                                *)
LEMMA Sizes == /\ ImageH \in Int /\ ImageW \in Int /\ MaxLen \in Nat
               /\ Offset \in Nat /\ Dark \in Nat /\ Bright \in Nat /\ Threshold \in Nat
  BY WallAssumption

(* The place as a record of two coordinates.                               *)
LEMMA AtIsPoint ==
  ASSUME WallTypeOK
  PROVE  /\ at = P(at.h, at.w) /\ at.h \in 0 .. ImageH - 1 /\ at.w \in 0 .. ImageW - 1
  BY DEF WallTypeOK, Point, P

(* From inside the margin no move leaves the image, and each goes to a     *)
(* neighbour.                                                              *)
LEMMA Reach ==
  ASSUME WallTypeOK, Inside(at)
  PROVE  /\ at.h - 1 >= 0 /\ at.h + 1 < ImageH /\ at.w - 1 >= 0 /\ at.w + 1 < ImageW
         /\ Front \in Point /\ FrontSide \in Point /\ Hand \in Point
         /\ Neighbours(at, Front) /\ Neighbours(at, FrontSide)
<1>1. /\ at.h - 1 >= 0 /\ at.h + 1 < ImageH /\ at.w - 1 >= 0 /\ at.w + 1 < ImageW
  BY Sizes, AtIsPoint DEF Inside, Margin
<1>2. ASSUME NEW q, Beside8(q, at.h, at.w)
      PROVE  q \in Point /\ Neighbours(at, q)
  <2>1. PICK i \in -1 .. 1, j \in -1 .. 1 :
          q = P(at.h + i, at.w + j) /\ (i # 0 \/ j # 0)
    BY <1>2 DEF Beside8
  <2>2. at.h \in Int /\ at.w \in Int
    BY AtIsPoint
  <2>3. q.h = at.h + i /\ q.w = at.w + j /\ q = [h |-> at.h + i, w |-> at.w + j]
    BY <2>1 DEF P
  <2>4. at.h + i \in 0 .. ImageH - 1 /\ at.w + j \in 0 .. ImageW - 1
    BY <1>1, <2>2, Sizes
  <2>5. q \in Point
    BY <2>3, <2>4 DEF Point
  <2>6. at # q
    BY <2>1, <2>2, <2>3
  <2>7. at.h - q.h \in -1 .. 1 /\ at.w - q.w \in -1 .. 1
    BY <2>2, <2>3
  <2> QED
    BY <2>5, <2>6, <2>7 DEF Neighbours
<1>3. side \in {"left", "right"} /\ dir \in 0 .. 3
  BY DEF WallTypeOK
<1> QED
  BY <1>1, <1>2, <1>3, AllAround, Renamed, AtIsPoint

(* The threshold of a window of dark and bright pixels with a bright one   *)
(* in its middle lies between the two.                                     *)
LEMMA Quotient ==
  ASSUME NEW s \in Nat, NEW b \in Nat, NEW d \in Nat, NEW o \in Nat, d + 9 * (o + 1) <= b,
         8 * d + b <= s, s <= 9 * b
  PROVE  d < s \div 9 - o /\ s \div 9 - o <= b
  OBVIOUS

(* The threshold of the code does.                                         *)
LEMMA Mean ==
  ASSUME WallTypeOK, Clear, InClearImage, Inside(at), Pixel(at) = Bright
  PROVE  Dark < LocalThres /\ LocalThres <= Bright /\ LocalThres \in Int
<1> DEFINE a(i, j) == img[at.h + i][at.w + j]
<1>1. at.h \in Int /\ at.w \in Int
  BY AtIsPoint
<1>2. \A i, j \in -1 .. 1 : a(i, j) \in {Dark, Bright}
  <2> TAKE i \in -1 .. 1, j \in -1 .. 1
  <2>1. at.h + i \in 0 .. ImageH - 1 /\ at.w + j \in 0 .. ImageW - 1
    BY Reach, <1>1, Sizes
  <2>2. DOMAIN img = 0 .. ImageH - 1 /\ DOMAIN img[at.h + i] = 0 .. ImageW - 1
    BY <2>1 DEF WallTypeOK
  <2> QED
    BY <2>1, <2>2 DEF InClearImage
<1>3. Dark + 9 * (Offset + 1) <= Bright /\ Dark <= Bright
  BY Sizes DEF Clear
<1>4. \A i, j \in -1 .. 1 : a(i, j) \in Nat /\ Dark <= a(i, j) /\ a(i, j) <= Bright
  BY <1>2, <1>3, Sizes
<1>5. a(0, 0) = Bright
  BY <1>1 DEF Pixel
<1> DEFINE s == a(-1, -1) + a(-1, 0) + a(-1, 1) + (a(0, -1) + a(0, 0) + a(0, 1))
                  + (a(1, -1) + a(1, 0) + a(1, 1))
<1>6. LocalThres = s \div 9 - Offset
  BY <1>1 DEF LocalThres, Row
<1>7. s \in Nat /\ 8 * Dark + Bright <= s /\ s <= 9 * Bright
  <2> HIDE DEF a
  <2> QED
    BY <1>4, <1>5, Sizes
<1> HIDE DEF s
<1> QED
  BY <1>3, <1>6, <1>7, Quotient, Sizes

(* So at a bright place of a clear image a wall is a dark pixel.           *)
LEMMA WallIsDark ==
  ASSUME WallTypeOK, Clear, InClearImage, Inside(at), Pixel(at) = Bright, NEW q \in Point
  PROVE  Pixel(q) \in {Dark, Bright} /\ (IsWall(q) <=> Pixel(q) = Dark) /\ Dark # Bright
<1>1. Pixel(q) \in {Dark, Bright}
  BY DEF InClearImage, WallTypeOK, Point, Pixel
<1> QED
  BY <1>1, Mean, Sizes DEF IsWall, Clear

-----------------------------------------------------------------------------
(* The invariant holds before the first frame.                             *)
LEMMA WallInitially == WallInit => WallIInv
<1> SUFFICES ASSUME WallInit PROVE WallIInv
  OBVIOUS
<1>1. WallTypeOK
  <2>1. Blank \in [0 .. ImageH - 1 -> [0 .. ImageW - 1 -> Nat]]
    BY Sizes DEF Blank
  <2>2. [h |-> 0, w |-> 0] \in Point
    BY WallAssumption DEF Point
  <2> QED
    BY <2>1, <2>2 DEF WallInit, WallTypeOK
<1>2. WallFollowed
  BY <1>1, Sizes DEF WallInit, WallFollowed, PointsOnRoad, HandOnWall, ReadsInside, GoesOn
<1>3. BeginsFresh /\ LastIsHere
  BY DEF WallInit, BeginsFresh, LastIsHere
<1> QED
  BY <1>1, <1>2, <1>3 DEF WallIInv

(* A recorded point: a neighbour of the last, bright, with room for it.    *)
LEMMA RecordedKeeps ==
  ASSUME WallIInv, GoesOn, UNCHANGED <<img, side, phase>>, NEW p \in Point, Recorded(p),
         Neighbours(at, p), (Clear /\ InClearImage) => Pixel(p) = Bright, dir' \in 0 .. 3
  PROVE  WallTypeOK' /\ PointsOnRoad' /\ Len(pts') <= MaxLen /\ BeginsFresh' /\ LastIsHere'
<1>1. pts' = Append(pts, p) /\ at' = p /\ turn' = 0 /\ pts \in Seq(Point)
  BY DEF Recorded, WallIInv, WallTypeOK
<1>2. /\ DOMAIN pts' = 1 .. Len(pts) + 1 /\ Len(pts') = Len(pts) + 1
      /\ \A i \in 1 .. Len(pts) : pts'[i] = pts[i]
      /\ pts'[Len(pts) + 1] = p /\ Len(pts) \in Nat /\ DOMAIN pts = 1 .. Len(pts)
      /\ pts' \in Seq(Point)
  BY <1>1
<1>3. WallTypeOK'
  BY <1>1, <1>2 DEF WallIInv, WallTypeOK
<1>4. LastIsHere' /\ BeginsFresh'
  BY <1>1, <1>2 DEF LastIsHere, BeginsFresh, GoesOn
<1>5. Len(pts') <= MaxLen
  BY <1>2, Sizes DEF GoesOn
<1>6. (Clear /\ InClearImage) => \A i \in DOMAIN pts' : img[pts'[i].h][pts'[i].w] = Bright
  <2> SUFFICES ASSUME Clear, InClearImage, NEW i \in DOMAIN pts'
               PROVE  img[pts'[i].h][pts'[i].w] = Bright
    OBVIOUS
  <2>1. CASE i \in 1 .. Len(pts)
    BY <1>2, <2>1 DEF WallIInv, WallFollowed, PointsOnRoad, Pixel
  <2>2. CASE i = Len(pts) + 1
    BY <1>2, <2>2 DEF Pixel
  <2> QED
    BY <1>2, <2>1, <2>2
<1>7. \A i \in DOMAIN pts' : i > 1 => Neighbours(pts'[i - 1], pts'[i])
  <2> SUFFICES ASSUME NEW i \in DOMAIN pts', i > 1
               PROVE  Neighbours(pts'[i - 1], pts'[i])
    OBVIOUS
  <2>1. CASE i \in 1 .. Len(pts)
    BY <1>2, <2>1 DEF WallIInv, WallFollowed, PointsOnRoad
  <2>2. CASE i = Len(pts) + 1
    <3>1. pts # << >> /\ i - 1 = Len(pts) /\ i - 1 \in 1 .. Len(pts)
      BY <1>2, <2>2
    <3>2. pts'[i - 1] = at /\ pts'[i] = p
      BY <1>2, <2>2, <3>1 DEF WallIInv, LastIsHere
    <3> QED
      BY <3>2
  <2> QED
    BY <1>2, <2>1, <2>2
<1>8. PointsOnRoad'
  <2>1. img' = img
    OBVIOUS
  <2>2. (Clear /\ InClearImage)' => \A i \in DOMAIN pts' : Pixel(pts[i])' = Bright
    BY <1>6, <2>1 DEF Clear, InClearImage, Pixel
  <2> QED
    BY <1>7, <2>2 DEF PointsOnRoad, Neighbours
<1> QED
  BY <1>3, <1>4, <1>5, <1>8

(* The margin keeps a window of 3 x 3 inside, also where it is 0.          *)
LEMMA Farther ==
  ASSUME NEW m \in Int, NEW h \in Int, NEW w \in Int, NEW hh \in Int, NEW ww \in Int,
         0 <= m, m < w, w < ww - m - 1, m < h, h < hh - m - 1
  PROVE  h - 1 >= 0 /\ h + 1 < hh /\ w - 1 >= 0 /\ w + 1 < ww
  OBVIOUS

(* Why the reads stay inside: the loop tests the place before it reads.    *)
LEMMA ReadsFollow ==
  ASSUME WallTypeOK', Len(pts') <= MaxLen
  PROVE  ReadsInside'
<1>1. at'.h \in 0 .. ImageH - 1 /\ at'.w \in 0 .. ImageW - 1 /\ side' \in {"left", "right"}
  BY DEF WallTypeOK, Point
<1>2. ASSUME Inside(at)'
      PROVE  /\ at'.h - 1 >= 0 /\ at'.h + 1 < ImageH
             /\ at'.w - 1 >= 0 /\ at'.w + 1 < ImageW
  <2>1. /\ 0 <= Margin' /\ Margin' < at'.w /\ at'.w < ImageW - Margin' - 1
        /\ Margin' < at'.h /\ at'.h < ImageH - Margin' - 1 /\ Margin' \in 0 .. 1
    BY <1>2 DEF Inside, Margin
  <2>2. Margin' \in Int /\ at'.h \in Int /\ at'.w \in Int /\ ImageH \in Int /\ ImageW \in Int
    BY <1>1, <2>1, Sizes
  <2> QED
    BY <2>1, <2>2, Farther
<1> QED
  BY <1>2 DEF ReadsInside, GoesOn

(* A step that stores nothing and moves nothing, but perhaps turns.        *)
LEMMA NothingStored ==
  ASSUME WallIInv, UNCHANGED <<img, side, at, pts>>
  PROVE  PointsOnRoad' /\ LastIsHere' /\ Len(pts') <= MaxLen
<1>1. PointsOnRoad /\ LastIsHere /\ Len(pts) <= MaxLen
  BY DEF WallIInv, WallFollowed, ReadsInside
<1> QED
  BY <1>1 DEF PointsOnRoad, LastIsHere, InClearImage, Pixel

(* The hand is on the wall again after each of the three moves.            *)
LEMMA HandKept ==
  ASSUME WallIInv, GoesOn, UNCHANGED <<img, side>>, Clear, InClearImage, Inside(at),
         \/ IsWall(Front) /\ at' = at /\ dir' = Away
         \/ ~IsWall(Front) /\ IsWall(FrontSide) /\ at' = Front /\ dir' = dir
         \/ ~IsWall(Front) /\ ~IsWall(FrontSide) /\ at' = FrontSide /\ dir' = Towards
  PROVE  /\ Pixel(at)' = Bright /\ Pixel(Hand)' = Dark
<1>1. WallTypeOK /\ Pixel(at) = Bright /\ Pixel(Hand) = Dark
  BY DEF WallIInv, WallFollowed, HandOnWall, GoesOn
<1>2. at = P(at.h, at.w) /\ at.h \in Int /\ at.w \in Int
  BY <1>1, AtIsPoint
<1>3. side \in {"left", "right"} /\ dir \in 0 .. 3
  BY <1>1 DEF WallTypeOK
<1>4. Front \in Point /\ FrontSide \in Point /\ Hand \in Point
  BY <1>1, Reach
<1>5. Hand' = HandOf(at', side, dir')
  BY DEF Hand, HandOf, TowardsOf
<1>6. /\ HandOf(at, side, Away) = Front
      /\ HandOf(Front, side, dir) = FrontSide
      /\ HandOf(FrontSide, side, Towards) = Hand
  BY <1>2, <1>3, Geometry, Renamed
<1>7. Pixel(at)' = Pixel(at') /\ Pixel(Hand)' = Pixel(Hand')
  BY DEF Pixel
<1>8. CASE IsWall(Front) /\ at' = at /\ dir' = Away
  BY <1>1, <1>4, <1>5, <1>6, <1>7, <1>8, WallIsDark
<1>9. CASE ~IsWall(Front) /\ IsWall(FrontSide) /\ at' = Front /\ dir' = dir
  BY <1>1, <1>4, <1>5, <1>6, <1>7, <1>9, WallIsDark
<1>10. CASE ~IsWall(Front) /\ ~IsWall(FrontSide) /\ at' = FrontSide /\ dir' = Towards
  BY <1>1, <1>4, <1>5, <1>6, <1>7, <1>10, WallIsDark
<1> QED
  BY <1>8, <1>9, <1>10

(* A road pixel in a clear image is bright, and no other is.               *)
LEMMA RoadIsBright ==
  ASSUME WallTypeOK, Clear, InClearImage, NEW q \in Point
  PROVE  Pixel(q) = IF Pixel(q) >= Threshold THEN Bright ELSE Dark
<1>1. Pixel(q) \in {Dark, Bright}
  BY DEF InClearImage, WallTypeOK, Point, Pixel
<1> QED
  BY <1>1, Sizes DEF Clear

(* Short of the edge the pixel beside is one, and the hand at direction 0. *)
LEMMA BesideIsPoint ==
  ASSUME WallTypeOK, ~AtEdge
  PROVE  Beside \in Point /\ Beside = HandOf(at, side, 0)
<1>1. at = P(at.h, at.w) /\ at.h \in 0 .. ImageH - 1 /\ at.w \in 0 .. ImageW - 1
  BY AtIsPoint
<1>2. CASE side = "left"
  <2>1. Beside = P(at.h, at.w - 1)
    BY <1>1, <1>2 DEF Beside, P
  <2>2. at.w - 1 \in 0 .. ImageW - 1
    BY <1>1, <1>2, Sizes DEF AtEdge
  <2>3. HandOf(at, side, 0) = P(at.h, at.w - 1)
    BY <1>1, <1>2, Hands, Turns, Tables
  <2> QED
    BY <1>1, <2>1, <2>2, <2>3 DEF Point, P
<1>3. CASE side = "right"
  <2>1. Beside = P(at.h, at.w + 1)
    BY <1>1, <1>3 DEF Beside, P
  <2>2. at.w + 1 \in 0 .. ImageW - 1
    BY <1>1, <1>3, Sizes DEF AtEdge
  <2>3. HandOf(at, side, 0) = P(at.h, at.w + 1)
    BY <1>1, <1>3, Hands, Turns, Tables
  <2> QED
    BY <1>1, <2>1, <2>2, <2>3 DEF Point, P
<1> QED
  BY <1>2, <1>3 DEF WallTypeOK

-----------------------------------------------------------------------------
(* A search begins with nothing of the last one.                           *)
LEMMA StartKeeps == WallIInv /\ Start => WallIInv'
<1> SUFFICES ASSUME WallIInv, Start PROVE WallIInv'
  OBVIOUS
<1>1. WallTypeOK /\ pts = << >> /\ dir = 0 /\ turn = 0 /\ UNCHANGED <<dir, turn, pts>>
  BY DEF WallIInv, BeginsFresh, Start
<1>2. img' \in [0 .. ImageH - 1 -> [0 .. ImageW - 1 -> Nat]]
  BY WallAssumption DEF Start
<1>3. at' \in Point
  <2>1. PICK h \in BeginRows :
          at' = [h |-> h, w |-> ImageW \div 2 + (IF side' = "left" THEN BeginW ELSE -BeginW)]
    BY DEF Start
  <2>2. h \in 0 .. ImageH - 1
    BY WallAssumption
  <2>3. ImageW \div 2 + (IF side' = "left" THEN BeginW ELSE -BeginW) \in 0 .. ImageW - 1
    BY WallAssumption
  <2> QED
    BY <2>1, <2>2, <2>3 DEF Point
<1>4. WallTypeOK'
  BY <1>1, <1>2, <1>3 DEF WallTypeOK, Start
<1>5. PointsOnRoad' /\ Len(pts') <= MaxLen /\ LastIsHere'
  BY <1>1, Sizes DEF PointsOnRoad, LastIsHere
<1>6. HandOnWall' /\ BeginsFresh'
  BY <1>1 DEF HandOnWall, BeginsFresh, Start
<1> QED
  BY <1>4, <1>5, <1>6, ReadsFollow DEF WallIInv, WallFollowed

(* The search in the row stops at the edge.                                *)
LEMMA ScanKeeps == WallIInv /\ Scan => WallIInv'
<1> SUFFICES ASSUME WallIInv, Scan PROVE WallIInv'
  OBVIOUS
<1>1. WallTypeOK /\ pts = << >> /\ dir = 0 /\ turn = 0
      /\ UNCHANGED <<img, side, dir, turn, pts, phase>> /\ phase = "scan"
  BY DEF WallIInv, BeginsFresh, Scan
<1>2. ~AtEdge
  BY DEF Scan, RoadBeside
<1>3. at' \in Point
  BY <1>1, <1>2, BesideIsPoint DEF Scan
<1>4. WallTypeOK'
  BY <1>1, <1>3 DEF WallTypeOK
<1>5. PointsOnRoad' /\ Len(pts') <= MaxLen /\ LastIsHere' /\ HandOnWall' /\ BeginsFresh'
  BY <1>1, Sizes DEF PointsOnRoad, LastIsHere, HandOnWall, BeginsFresh
<1> QED
  BY <1>4, <1>5, ReadsFollow DEF WallIInv, WallFollowed

(* The search ends with the hand on the border.                            *)
LEMMA FoundKeeps == WallIInv /\ Found => WallIInv'
<1> SUFFICES ASSUME WallIInv, Found PROVE WallIInv'
  OBVIOUS
<1>1. WallTypeOK /\ pts = << >> /\ dir = 0 /\ turn = 0
      /\ UNCHANGED <<img, side, at, dir, turn, pts>> /\ ~RoadBeside
  BY DEF WallIInv, BeginsFresh, Found
<1>2. WallTypeOK' /\ BeginsFresh'
  BY <1>1 DEF WallTypeOK, BeginsFresh, Found
<1>3. HandOnWall'
  <2> SUFFICES ASSUME Clear, InClearImage', phase' = "follow", Inside(at)'
               PROVE  Pixel(at)' = Bright /\ Pixel(Hand)' = Dark
    BY DEF HandOnWall, Clear
  <2>1. InClearImage /\ Inside(at)
    BY <1>1 DEF InClearImage, Inside, Margin
  <2>2. at \in Point /\ Pixel(at) >= Threshold
    BY <1>1 DEF WallTypeOK, Found
  <2>3. ~AtEdge
    BY <1>1, <2>1, Sizes, AtIsPoint DEF AtEdge, Inside, Margin
  <2>4. Beside \in Point /\ Beside = HandOf(at, side, 0) /\ ~(Pixel(Beside) >= Threshold)
    BY <1>1, <2>3, BesideIsPoint DEF RoadBeside
  <2>5. Hand' = Beside
    BY <1>1, <2>4 DEF Hand, HandOf, TowardsOf
  <2>6. Pixel(at) = Bright /\ Pixel(Beside) = Dark
    BY <1>1, <2>1, <2>2, <2>4, RoadIsBright
  <2> QED
    BY <1>1, <2>5, <2>6 DEF Pixel
<1> QED
  BY <1>1, <1>2, <1>3, NothingStored, ReadsFollow DEF WallIInv, WallFollowed

(* A bright neighbour is where a move goes.                                *)
LEMMA StepsToBright ==
  ASSUME WallIInv, GoesOn, Clear, InClearImage
  PROVE  /\ ~IsWall(Front) => Pixel(Front) = Bright
         /\ ~IsWall(FrontSide) => Pixel(FrontSide) = Bright
<1>1. WallTypeOK /\ Inside(at) /\ Pixel(at) = Bright
  BY DEF WallIInv, WallFollowed, HandOnWall, GoesOn
<1> QED
  BY <1>1, Reach, WallIsDark

(* Turned away, the hand is on what was ahead.                             *)
LEMMA TurnAwayKeeps == WallIInv /\ TurnAway => WallIInv'
<1> SUFFICES ASSUME WallIInv, TurnAway PROVE WallIInv'
  OBVIOUS
<1>1. WallTypeOK /\ UNCHANGED <<img, side, at, pts, phase>> /\ phase = "follow"
      /\ turn' = turn + 1 /\ turn < 4 /\ dir' = Away
  BY DEF WallIInv, TurnAway, GoesOn
<1>2. dir' \in 0 .. 3
  BY <1>1, Renamed, AtIsPoint, Geometry DEF WallTypeOK
<1>3. WallTypeOK' /\ BeginsFresh'
  BY <1>1, <1>2 DEF WallTypeOK, BeginsFresh
<1>4. HandOnWall'
  <2> SUFFICES ASSUME Clear, InClearImage'
               PROVE  Pixel(at)' = Bright /\ Pixel(Hand)' = Dark
    BY DEF HandOnWall, Clear
  <2>1. InClearImage /\ Inside(at)
    BY <1>1 DEF InClearImage, GoesOn, TurnAway
  <2> QED
    BY <1>1, <2>1, HandKept DEF TurnAway
<1> QED
  BY <1>1, <1>3, <1>4, NothingStored, ReadsFollow DEF WallIInv, WallFollowed

(* Gone on, the hand is on what was ahead of it.                           *)
LEMMA StepAlongKeeps == WallIInv /\ StepAlong => WallIInv'
<1> SUFFICES ASSUME WallIInv, StepAlong PROVE WallIInv'
  OBVIOUS
<1>1. WallTypeOK /\ UNCHANGED <<img, side, dir, phase>> /\ GoesOn /\ Recorded(Front)
      /\ at' = Front /\ Inside(at) /\ ~IsWall(Front) /\ IsWall(FrontSide)
  BY DEF WallIInv, StepAlong, GoesOn, Recorded
<1>2. Front \in Point /\ Neighbours(at, Front) /\ dir' \in 0 .. 3
  BY <1>1, Reach DEF WallTypeOK
<1>3. (Clear /\ InClearImage) => Pixel(Front) = Bright
  BY <1>1, StepsToBright
<1>4. WallTypeOK' /\ PointsOnRoad' /\ Len(pts') <= MaxLen /\ BeginsFresh' /\ LastIsHere'
  BY <1>1, <1>2, <1>3, RecordedKeeps
<1>5. HandOnWall'
  <2> SUFFICES ASSUME Clear, InClearImage'
               PROVE  Pixel(at)' = Bright /\ Pixel(Hand)' = Dark
    BY DEF HandOnWall, Clear
  <2>1. InClearImage
    BY <1>1 DEF InClearImage
  <2> QED
    BY <1>1, <2>1, HandKept
<1> QED
  BY <1>4, <1>5, ReadsFollow DEF WallIInv, WallFollowed

(* Gone round, the hand is where it was.                                   *)
LEMMA StepRoundKeeps == WallIInv /\ StepRound => WallIInv'
<1> SUFFICES ASSUME WallIInv, StepRound PROVE WallIInv'
  OBVIOUS
<1>1. WallTypeOK /\ UNCHANGED <<img, side, phase>> /\ GoesOn /\ Recorded(FrontSide)
      /\ at' = FrontSide /\ Inside(at) /\ ~IsWall(Front) /\ ~IsWall(FrontSide)
      /\ dir' = Towards
  BY DEF WallIInv, StepRound, GoesOn, Recorded
<1>2. FrontSide \in Point /\ Neighbours(at, FrontSide)
  BY <1>1, Reach
<1>3. dir' \in 0 .. 3
  BY <1>1, Renamed, AtIsPoint, Geometry DEF WallTypeOK
<1>4. (Clear /\ InClearImage) => Pixel(FrontSide) = Bright
  BY <1>1, StepsToBright
<1>5. WallTypeOK' /\ PointsOnRoad' /\ Len(pts') <= MaxLen /\ BeginsFresh' /\ LastIsHere'
  BY <1>1, <1>2, <1>3, <1>4, RecordedKeeps
<1>6. HandOnWall'
  <2> SUFFICES ASSUME Clear, InClearImage'
               PROVE  Pixel(at)' = Bright /\ Pixel(Hand)' = Dark
    BY DEF HandOnWall, Clear
  <2>1. InClearImage
    BY <1>1 DEF InClearImage
  <2> QED
    BY <1>1, <2>1, HandKept
<1> QED
  BY <1>5, <1>6, ReadsFollow DEF WallIInv, WallFollowed

(* Nothing is claimed of the hand once the loop is left.                   *)
LEMMA StopKeeps == WallIInv /\ Stop => WallIInv'
<1> SUFFICES ASSUME WallIInv, Stop PROVE WallIInv'
  OBVIOUS
<1>1. WallTypeOK /\ UNCHANGED <<img, side, at, dir, turn, pts>> /\ phase' = "done"
  BY DEF WallIInv, Stop
<1>2. WallTypeOK' /\ BeginsFresh' /\ HandOnWall'
  BY <1>1 DEF WallTypeOK, BeginsFresh, HandOnWall
<1> QED
  BY <1>1, <1>2, NothingStored, ReadsFollow DEF WallIInv, WallFollowed

(* The next image begins as the first.                                     *)
LEMMA TakenKeeps == WallIInv /\ Taken => WallIInv'
<1> SUFFICES ASSUME WallIInv, Taken PROVE WallIInv'
  OBVIOUS
<1>1. Blank \in [0 .. ImageH - 1 -> [0 .. ImageW - 1 -> Nat]]
  BY Sizes DEF Blank
<1>2. [h |-> 0, w |-> 0] \in Point
  BY WallAssumption DEF Point
<1>3. WallTypeOK'
  BY <1>1, <1>2 DEF Taken, NextImage, WallTypeOK
<1>4. PointsOnRoad' /\ HandOnWall' /\ Len(pts') <= MaxLen /\ BeginsFresh' /\ LastIsHere'
  BY Sizes DEF Taken, NextImage, PointsOnRoad, HandOnWall, BeginsFresh, LastIsHere
<1> QED
  BY <1>3, <1>4, ReadsFollow DEF WallIInv, WallFollowed

(* A step that changes nothing keeps everything.                           *)
LEMMA StutterKeeps == WallIInv /\ UNCHANGED wallVars => WallIInv'
  BY DEF WallIInv, wallVars, WallTypeOK, WallFollowed, PointsOnRoad, HandOnWall, ReadsInside,
     GoesOn, Inside, Margin, InClearImage, Pixel, Hand, BeginsFresh, LastIsHere

(* The invariant is kept by every step, for an image of any size, any      *)
(* thresholds and any picture.                                             *)
THEOREM Inductive == WallSpec => []WallIInv
<1>1. WallIInv /\ [WallNext]_wallVars => WallIInv'
  BY StartKeeps, ScanKeeps, FoundKeeps, TurnAwayKeeps, StepAlongKeeps, StepRoundKeeps,
     StopKeeps, TakenKeeps, StutterKeeps DEF WallNext, Run
<1> QED
  BY WallInitially, <1>1, PTL DEF WallSpec

(* The border is followed and nothing but the border, and the image is     *)
(* never left.                                                             *)
THEOREM BorderFollowed == WallSpec => []WallFollowed
<1>1. WallIInv => WallFollowed
  BY DEF WallIInv
<1> QED
  BY Inductive, <1>1, PTL
=============================================================================
