------------------------------ MODULE Steering ------------------------------
(***************************************************************************)
(* The servo (servo.cpp) behind the kernel's PWM files (PWMController.cpp), *)
(* and the angle controller of machine.cpp.                                *)
(*                                                                         *)
(* Times are counted in 1/90 ms, so that an angle x takes 45 + x of them;  *)
(* offsets from the middle are multiples of 5, of which 0.4 is a number of *)
(* degrees.  A definition X_Y is a wrong form of X, used to show that a    *)
(* property depends on X.                                                  *)
(***************************************************************************)
EXTENDS Integers

CONSTANTS
  Period,      \* SERVO_MOTOR_PERIOD: 1800
  Mids,        \* servo_set_mid: 90, or what config.txt says
  Diffs,       \* arguments of servo_set
  Angles,      \* pure_angle
  Kp, Kd, CrossBeginKp, CrossKp, BarrierKp, BarrierOutKp,
               \* gains: 0 in the code until the hardware is known
  WordMod      \* 2^32, the range of an unsigned int

(* Whatever config.txt says of the middle, the pulses fit into a period,   *)
(* which a word holds.                                                     *)
ASSUME SteeringAssumption ==
  /\ Period \in Nat /\ WordMod \in Nat /\ Period < WordMod
  /\ Mids \subseteq Nat /\ \A mid \in Mids \cup {90} : 45 + 16 + mid <= Period
  /\ Diffs \subseteq Int

VARIABLES
  servo_set_mid,
  period, duty_cycle,    \* of the controller object
  files,                 \* the kernel's: exported, period, duty_cycle, enable
  last_set,              \* the diff the servo was last set to
  ready,                 \* has servo_init returned in this run?
  mode,                  \* none, begin, in, barrier, or out of a barrier
  last_angle, angle_out, \* of machine_angPD
  seen                   \* the angles of the last two calls

pwm == <<period, duty_cycle, files>>
control == <<mode, last_angle, angle_out, seen>>
steeringVars == <<servo_set_mid, pwm, last_set, ready, control>>

-----------------------------------------------------------------------------
(* The kernel (external) refuses a duty longer than the period, a period   *)
(* shorter than the duty, and to enable without a period; writeToFile does *)
(* not notice.                                                             *)
Stored(f, name, v) ==
  IF \/ ~f.exported
     \/ name = "duty" /\ v > f.period
     \/ name = "period" /\ (v < f.duty \/ v = 0)
     \/ name = "enable" /\ v = 1 /\ f.period = 0
    THEN f
  ELSE CASE name = "duty" -> [f EXCEPT !.duty = v]
         [] name = "period" -> [f EXCEPT !.period = v]
         [] name = "enable" -> [f EXCEPT !.enable = v]

(* PwmController: the object with its files.  setDutyCycle is given the    *)
(* high time and writes the low one.                                       *)
ServoObject == [period |-> period, duty |-> duty_cycle, files |-> files]

Initialized(c)  ==
  [period |-> c.period, duty |-> c.duty, files |-> [c.files EXCEPT !.exported = TRUE]]
PeriodSet(c, p) == [period |-> p, duty |-> c.duty, files |-> Stored(c.files, "period", p)]
DutySet(c, d) ==
  LET low == (c.period - d) % WordMod
  IN  [period |-> c.period, duty |-> low, files |-> Stored(c.files, "duty", low)]
EnableSet(c, v) ==
  [period |-> c.period, duty |-> c.duty, files |-> Stored(c.files, "enable", v)]

Becomes(c) == period' = c.period /\ duty_cycle' = c.duty /\ files' = c.files

(* servo_set.                                                              *)
Limited(diff) == IF diff > 40 THEN 40 ELSE IF diff < -40 THEN -40 ELSE diff
HighTime(diff) == 45 + (Limited(diff) * 2) \div 5 + servo_set_mid

ServoSet ==
  /\ ready
  /\ \E diff \in Diffs :
       /\ Becomes(DutySet(ServoObject, HighTime(diff)))
       /\ last_set' = diff
  /\ UNCHANGED <<servo_set_mid, ready, control>>

Prepared_DutyFirst == EnableSet(PeriodSet(DutySet(Initialized(ServoObject), HighTime(0)), Period), 1)
Prepared == EnableSet(DutySet(PeriodSet(Initialized(ServoObject), Period), HighTime(0)), 1)

ServoInit ==
  /\ Becomes(Prepared)
  /\ last_set' = 0
  /\ ready' = TRUE
  /\ UNCHANGED <<servo_set_mid, control>>

(* config_load sets the middle, before the servo is initialised.           *)
MidLoaded ==
  /\ ~ready
  /\ servo_set_mid' \in Mids
  /\ UNCHANGED <<pwm, last_set, ready, control>>

(* The object is destroyed at the program's end, unless it is killed; a    *)
(* new run begins with zeroed statics and the files as they are.           *)
ObjectEnds == EnableSet(ServoObject, 0)

NewRun(f) ==
  /\ files' = f
  /\ period' = 0 /\ duty_cycle' = 0
  /\ servo_set_mid' = 90
  /\ last_set' = 0
  /\ last_angle' = 0 /\ angle_out' = 0 /\ mode' = "none"
  /\ seen' = <<0, 0>>

ServoExit == NewRun(ObjectEnds.files) /\ ready' = FALSE
ServoKilled == ready /\ NewRun(files) /\ ready' = FALSE

-----------------------------------------------------------------------------
(* machine_angPD.                                                          *)
AngleOut(a, diff) ==
  CASE mode = "barrier" -> BarrierKp * a
    [] mode = "out" -> BarrierOutKp * a
    [] mode = "begin" -> CrossBeginKp * a + Kd * diff
    [] mode = "in" -> CrossKp * a + Kd * diff
    [] OTHER -> Kp * a + Kd * diff

Remembered_NotAtBarrier(a) == IF mode \in {"barrier", "out"} THEN last_angle ELSE a
Remembered(a) == a

AngPD ==
  /\ \E a \in Angles :
       /\ angle_out' = AngleOut(a, a - last_angle)
       /\ last_angle' = Remembered(a)
       /\ seen' = <<seen[2], a>>
  /\ UNCHANGED <<servo_set_mid, pwm, last_set, ready, mode>>

(* The course elements change the mode between the frames.                 *)
Element ==
  /\ mode' \in {"none", "begin", "in", "barrier", "out"}
  /\ angle_out' = 0
  /\ UNCHANGED <<servo_set_mid, pwm, last_set, ready, last_angle, seen>>

SteeringInit ==
  /\ servo_set_mid = 90
  /\ period = 0 /\ duty_cycle = 0
  /\ files = [exported |-> FALSE, period |-> 0, duty |-> 0, enable |-> 0]
  /\ last_set = 0
  /\ ready = FALSE
  /\ mode = "none"
  /\ last_angle = 0 /\ angle_out = 0
  /\ seen = <<0, 0>>

SteeringNext ==
  ServoInit \/ ServoSet \/ MidLoaded \/ ServoExit \/ ServoKilled \/ AngPD \/ Element

SteeringSpec == SteeringInit /\ [][SteeringNext]_steeringVars

-----------------------------------------------------------------------------
(* Once the servo is initialised, the kernel has taken every duty it was   *)
(* set to, none was refused unnoticed, also after a run that was killed:   *)
(* the pulse is that of the last angle, never beyond 40 * 0.4 degrees from *)
(* the middle, and it is on.                                               *)
ServoFollows ==
  ready =>
    /\ files.enable = 1
    /\ files.period - files.duty = HighTime(last_set)
    /\ files.period - files.duty - 45 - servo_set_mid \in -16 .. 16

(* The derivative part of the angle is the change since the last frame,    *)
(* whatever elements lay between: a barrier or a crossing that ends does   *)
(* not kick the steering with an angle from before it.                     *)
NoKick ==
  [][AngPD /\ mode = "none" => angle_out' = Kp * seen'[2] + Kd * (seen'[2] - seen[2])]_steeringVars
=============================================================================
