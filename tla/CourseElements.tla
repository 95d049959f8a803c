--------------------------- MODULE CourseElements ---------------------------
(***************************************************************************)
(* The course elements of Robot/image: crossing (gl_cross.cpp), zebra stop *)
(* (gl_zebra.cpp) and barrier (gl_barrier.cpp), judged and run once per    *)
(* camera frame (gl_tracking.cpp) against timeStamp, which the timer       *)
(* thread counts up modulo TimeMod (timer.cpp).  What a frame shows is an  *)
(* input.  Which border is followed, the steering angle, the voice         *)
(* messages and the motor calls of a zebra stop are left out.              *)
(* A definition X_Y is a wrong form of X, used to show that a property     *)
(* depends on X.                                                           *)
(***************************************************************************)
EXTENDS Integers

CONSTANTS
  TimeMod,     \* 1000000 in the code, and below 100, 40, 200, 300 and 500
  CrossDead,   \* from entering one crossing to judging the next
  CrossHold,   \* longest time in a crossing
  BarrierHold, \* longest time at a barrier
  ZebraHold,   \* how long a zebra stop lasts
  BeginReset,  \* when the start of a zebra stop is forgotten
  FrameTicks   \* most ticks in one frame (bound, from the camera's rate)

ASSUME CourseAssumption ==
  /\ {TimeMod, CrossDead, CrossHold, BarrierHold, ZebraHold, BeginReset, FrameTicks} \subseteq Nat
  /\ 1 < TimeMod /\ CrossDead <= TimeMod

VARIABLES
  timeStamp,
  cross_type, cross_easy, time_cross,
  zebra_type, zbr_flag, time_begin,
  barrier_type, time_barrier, beef,
  phase,      \* is ElementJudge or ElementRun next?
  frameAge,   \* ticks in this frame
  crossAge,   \* ticks since a crossing was entered, up to CrossDead
  stopAge     \* ticks since machine_zebra_stop was called, up to ZebraHold

cross   == <<cross_type, cross_easy, time_cross>>
zebra   == <<zebra_type, zbr_flag, time_begin>>
barrier == <<barrier_type, time_barrier, beef>>
ages    == <<frameAge, crossAge, stopAge>>
vars    == <<timeStamp, cross, zebra, barrier, phase, ages>>

None    == "NONE"
Running == "RUNNING"

-----------------------------------------------------------------------------
(* pit1_callback.                                                          *)
Older(age, cap) == IF age < cap THEN age + 1 ELSE cap

NextStamp == (timeStamp + 1) % TimeMod

Tick ==
  /\ frameAge < FrameTicks
  /\ timeStamp' = NextStamp
  /\ frameAge' = frameAge + 1
  /\ crossAge' = Older(crossAge, CrossDead)
  /\ stopAge' = Older(stopAge, ZebraHold)
  /\ UNCHANGED <<cross, zebra, barrier, phase>>

-----------------------------------------------------------------------------
(* CheckCross.  l and r: a corner was found on that side; short: a border  *)
(* has at most three points.  cross_open is 1 and never assigned.          *)
DeadTimeOver_None == TRUE
DeadTimeOver == (timeStamp - time_cross + TimeMod) % TimeMod >= CrossDead

CrossSeen(l, r, short) ==
  /\ DeadTimeOver
  /\ (l /\ r) \/ (cross_easy = 1 /\ (l \/ r) /\ short)

CheckedCross(l, r, short) ==
  IF cross_type = None /\ CrossSeen(l, r, short) THEN "BEGIN" ELSE cross_type

(* CheckZebra.                                                             *)
ZebraWanted_Again == TRUE
ZebraWanted == zbr_flag = 0
CheckedZebra(pattern) ==
  IF zebra_type = None /\ pattern /\ ZebraWanted THEN Running ELSE zebra_type

(* CheckBarrier forgets an old zebra stop first.                           *)
Forget == timeStamp - time_begin >= BeginReset

BarrierSeen ==
  /\ barrier_type' = Running
  /\ cross_type' = None
  /\ zebra_type' = None
  /\ time_barrier' = timeStamp
  /\ zbr_flag' = 0

(* The end of ElementJudge: a crossing ends a zebra stop.                  *)
CrossWins_Not(c, z) == z
CrossWins(c, z) == IF c # None THEN None ELSE z

(* ElementJudge (shield_type is never assigned).                           *)
ElementJudge(l, r, short, pattern, white) ==
  /\ phase = "judge"
  /\ phase' = "run"
  /\ IF barrier_type = None
       THEN /\ time_begin' = IF Forget THEN 0 ELSE time_begin
            /\ IF white
                 THEN BarrierSeen
                 ELSE /\ cross_type' = CheckedCross(l, r, short)
                      /\ zebra_type' = CrossWins(cross_type',
                           IF cross_type' = None THEN CheckedZebra(pattern) ELSE zebra_type)
                      /\ UNCHANGED <<barrier_type, time_barrier, zbr_flag>>
       ELSE /\ zebra_type' = CrossWins(cross_type, zebra_type)
            /\ UNCHANGED <<cross_type, zbr_flag, time_begin, barrier_type, time_barrier>>
  /\ UNCHANGED <<timeStamp, cross_easy, time_cross, beef, ages>>

-----------------------------------------------------------------------------
(* RunBarrier.  far: the range finder sees nothing near.                   *)
BarrierDone_KeepsType == beef' = 0 /\ UNCHANGED barrier_type
BarrierDone == barrier_type' = None /\ beef' = 0

RunBarrier(far) ==
  /\ barrier_type # None
  /\ IF timeStamp - time_barrier <= BarrierHold
       THEN beef' = (IF far THEN 1 ELSE beef) /\ UNCHANGED barrier_type
       ELSE BarrierDone
  /\ UNCHANGED <<cross, zebra, time_barrier, crossAge, stopAge>>

(* RunCross.  near: the corners are near or both borders are short; long:  *)
(* a border is long again.  A crossing entered in this frame is run too.   *)
CrossOver(entered) == timeStamp - entered >= CrossHold

EnteredAt_NoStamp(enters) == time_cross
EnteredAt(enters) == IF enters THEN timeStamp ELSE time_cross

RunCross(near, long) ==
  /\ barrier_type = None
  /\ cross_type # None
  /\ LET enters == cross_type = "BEGIN" /\ near
         inside == enters \/ cross_type = "IN"
         entered == EnteredAt(enters)
         leaves == inside /\ (CrossOver(entered) \/ long)
     IN /\ time_cross' = entered
        /\ crossAge' = IF enters THEN 0 ELSE crossAge
        /\ cross_type' = IF leaves THEN None ELSE IF inside THEN "IN" ELSE cross_type
        /\ cross_easy' = IF leaves THEN 1 - cross_easy ELSE cross_easy
  /\ UNCHANGED <<zebra, barrier, stopAge>>

(* RunZebra: stop, and go on when the time is over.  A stop at timeStamp 0 *)
(* is not remembered.                                                      *)
StopOver_TooSoon(begun) == begun # 0 /\ timeStamp - begun >= ZebraHold - 1
StopOver(begun) == begun # 0 /\ timeStamp - begun >= ZebraHold

RunZebra ==
  /\ barrier_type = None
  /\ cross_type = None
  /\ zebra_type # None
  /\ LET stops == time_begin = 0
         begun == IF stops THEN timeStamp ELSE time_begin
         over  == StopOver(begun)
     IN /\ stopAge' = IF stops THEN 0 ELSE stopAge
        /\ time_begin' = IF over THEN 0 ELSE begun
        /\ zbr_flag' = IF over THEN 1 ELSE zbr_flag
        /\ zebra_type' = IF over THEN None ELSE zebra_type
  /\ UNCHANGED <<cross, barrier, crossAge>>

Idle ==
  /\ barrier_type = None /\ cross_type = None /\ zebra_type = None
  /\ UNCHANGED <<cross, zebra, barrier, crossAge, stopAge>>

(* ElementRun.                                                             *)
ElementRun ==
  /\ phase = "run"
  /\ phase' = "judge"
  /\ frameAge' = 0
  /\ \/ \E far \in BOOLEAN : RunBarrier(far)
     \/ \E near, long \in BOOLEAN : RunCross(near, long)
     \/ RunZebra
     \/ Idle
  /\ UNCHANGED timeStamp

Judge ==
  \E l, r, short, pattern, white \in BOOLEAN :
    ElementJudge(l, r, short, pattern, white)

Init ==
  /\ timeStamp = 0
  /\ cross_type = None /\ cross_easy = 0 /\ time_cross = 0
  /\ zebra_type = None /\ zbr_flag = 0 /\ time_begin = 0
  /\ barrier_type = None /\ time_barrier = 0 /\ beef = 0
  /\ phase = "judge"
  /\ frameAge = 0 /\ crossAge = CrossDead /\ stopAge = ZebraHold

Next == Tick \/ Judge \/ ElementRun

Spec == Init /\ [][Next]_vars

(* The timer thread and the frames both go on.                             *)
FairSpec == Spec /\ WF_vars(Tick) /\ WF_vars(Judge) /\ WF_vars(ElementRun)

-----------------------------------------------------------------------------
(* Type invariant.                                                         *)
TypeOK ==
  /\ {timeStamp, time_cross, time_begin, time_barrier} \subseteq 0 .. TimeMod - 1
  /\ cross_type \in {None, "BEGIN", "IN"}
  /\ zebra_type \in {None, Running}
  /\ barrier_type \in {None, Running}
  /\ {cross_easy, zbr_flag, beef} \subseteq 0 .. 1
  /\ phase \in {"judge", "run"}
  /\ frameAge \in 0 .. FrameTicks
  /\ crossAge \in 0 .. CrossDead
  /\ stopAge \in 0 .. ZebraHold

(* Whatever the frames show, at most one element is under way.             *)
OneElement ==
  /\ barrier_type # None => cross_type = None /\ zebra_type = None
  /\ cross_type # None => zebra_type = None

(* beef switches the steering gain to leaving a barrier (machine.cpp:70):  *)
(* it is never left set behind when the barrier is over.                   *)
BeefOnlyAtBarrier == beef = 1 => barrier_type = Running

(* Only a barrier arms the zebra stop again: behind a completed stop the   *)
(* same zebra crossing does not stop the robot a second time.              *)
ZebraOnce == zbr_flag = 1 => zebra_type = None

(* The flags that one element leaves to the others follow them.            *)
FlagsFollow == BeefOnlyAtBarrier /\ ZebraOnce

(* The stamps of the code against the time that has really passed, modulo  *)
(* the wrap of timeStamp: what CrossDeadTime and StopLasts rest on.        *)
StampsAgree ==
  /\ crossAge < CrossDead => (timeStamp - time_cross + TimeMod) % TimeMod = crossAge
  /\ time_begin # 0 /\ stopAge < ZebraHold => timeStamp - time_begin <= stopAge

IInv == TypeOK /\ OneElement /\ BeefOnlyAtBarrier /\ ZebraOnce /\ StampsAgree

(* Across every wrap of timeStamp, no crossing is judged within the dead   *)
(* time of the one entered before.                                         *)
CrossDeadTime ==
  [][cross_type = None /\ cross_type' = "BEGIN" => crossAge = CrossDead]_vars

(* The robot drives on from a zebra crossing only when the time of a stop  *)
(* has passed since the wheels were last stopped there.                    *)
StopLasts == [][zbr_flag = 0 /\ zbr_flag' = 1 => stopAge = ZebraHold]_vars

(* A barrier, the inside of a crossing and a zebra stop end, if the hold   *)
(* time and one frame fit in before timeStamp wraps.  A stop is held from   *)
(* the frame after it was judged, or from the time_begin an earlier stop    *)
(* has left.                                                               *)
Fits(begun, hold) == begun + hold + FrameTicks < TimeMod

BarrierEnds ==
  barrier_type = Running /\ Fits(time_barrier, BarrierHold) ~> barrier_type = None
CrossingEnds ==
  cross_type = "IN" /\ Fits(time_cross, CrossHold) ~> cross_type # "IN"
ZebraEnds ==
  (/\ zebra_type = Running
   /\ Fits(timeStamp + FrameTicks, ZebraHold)
   /\ Fits(time_begin, ZebraHold)) ~> zebra_type = None

(* Every element that fits in before the wrap ends.                        *)
ElementsEnd == BarrierEnds /\ CrossingEnds /\ ZebraEnds
=============================================================================
