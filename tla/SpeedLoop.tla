------------------------------ MODULE SpeedLoop ------------------------------
(***************************************************************************)
(* The closed loop of one wheel: config_load, then every control pass of   *)
(* motion_control_task reads the encoder, calls calculate with setpoint 25 *)
(* and sets the duty.  The wheel is external: driven it turns at any       *)
(* speed, not driven it may only slow down.  The other wheel has its own   *)
(* controller and encoder and shares nothing with this one.                *)
(***************************************************************************)
EXTENDS IncrementalPID

CONSTANTS
  Files,      \* what config.txt may hold: its gains and its MAX_MOTOR_DUTY
  NoFile,     \* config.txt cannot be opened
  LostDuties  \* the duty set for an output that is not finite (0, or anything)

ASSUME SpeedAssumption ==
  /\ Files \subseteq [gain : Gains, maxDuty : Nat]
  /\ NoFile \notin Files
  /\ 0 \in LostDuties /\ LostDuties \subseteq Nat
  /\ Setpoints = {25}
  /\ 0 \in Readings

VARIABLES
  maxDuty,  \* g_config.max_motor_duty
  loaded,   \* has main loaded the configuration?
  speed,    \* the wheel's speed
  duty      \* the duty it is driven with, in 1/Unit percent

vars == <<pid, maxDuty, loaded, speed, duty>>

MaxMotorDuty == 40 * Unit
InitialDuty  == 15 * Unit

Clamped(d) == IF d > MaxMotorDuty THEN MaxMotorDuty ELSE IF d < 0 THEN 0 ELSE d

(* config_load, before the threads start; motor_init drives the wheel.     *)
ConfigLoad ==
  /\ ~loaded
  /\ loaded' = TRUE
  /\ duty' = InitialDuty
  /\ \E f \in Files \cup {NoFile} :
       IF f = NoFile
         THEN SetPID(DefaultGain) /\ maxDuty' = 40
         ELSE SetPID(f.gain) /\ maxDuty' = f.maxDuty
  /\ UNCHANGED speed

(* sensor_encoder_get and Lspeed_close_loop(25): one control pass.         *)
ControlPass(m) ==
  /\ loaded
  /\ \E s \in Setpoints : Calculate(s, m)
  /\ IF lost' THEN duty' \in LostDuties ELSE duty' = Clamped(output')
  /\ UNCHANGED <<maxDuty, loaded, speed>>

Measure == ControlPass(speed)
ZeroRegister == ControlPass(Infinite)

(* The wheel (external).                                                   *)
Turns ==
  /\ duty > 0
  /\ speed' \in Readings
  /\ UNCHANGED <<pid, maxDuty, loaded, duty>>

Coast ==
  /\ duty = 0
  /\ speed' \in {v \in Readings : v < speed}
  /\ UNCHANGED <<pid, maxDuty, loaded, duty>>

Init ==
  /\ PIDInit
  /\ maxDuty = 0
  /\ loaded = FALSE
  /\ speed = 0
  /\ duty = 0

Next == ConfigLoad \/ Measure \/ ZeroRegister \/ Turns \/ Coast

(* main loads the configuration; the motion thread goes on making passes,  *)
(* which read a register that is not 0 again and again; a wheel that is    *)
(* not driven slows down.                                                  *)
FairSpec ==
  /\ Init /\ [][Next]_vars
  /\ WF_vars(ConfigLoad)
  /\ SF_vars(Measure)
  /\ WF_vars(Coast)

Spec == Init /\ [][Next]_vars

-----------------------------------------------------------------------------
(* Type invariant of the loop.                                             *)
TypeOK ==
  /\ PIDTypeOK
  /\ maxDuty \in Nat
  /\ loaded \in BOOLEAN
  /\ speed \in Readings
  /\ duty \in Nat

(* While the output is finite, the wheel is driven with no more than       *)
(* MaxMotorDuty, with just the output if that is above zero, so that the   *)
(* limit of motor.cpp:23 takes nothing off it, and not at all if it is     *)
(* below.  Of an output that is not finite nothing is said: it passes both *)
(* limits, and its conversion to uint32 (motor.cpp:27) may give anything.  *)
DutyFollowsOutput ==
  ~lost => /\ duty <= MaxMotorDuty
           /\ output > 0 => duty = output
           /\ output < 0 => duty = 0

(* Neither windup below zero nor an output that is no number leaves a      *)
(* wheel without power for ever: the kick at low speed brings it back.     *)
NoDeadWheel == []<>(duty > 0)

(* config.txt:3 says to change the values there without compiling, and :17 *)
(* is MAX_MOTOR_DUTY: the wheel is driven with no more than it says.       *)
DutyWithinConfig == loaded /\ output > 0 => duty <= maxDuty * Unit
=============================================================================
