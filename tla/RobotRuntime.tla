---------------------------- MODULE RobotRuntime ----------------------------
(***************************************************************************)
(* The process of Robot/user/main.cpp: the main thread, the motion thread  *)
(* (CPU 1, SCHED_FIFO), the vision thread, the keyboard thread that        *)
(* main.cpp:179 has commented out, the SIGINT handler, and what exit()     *)
(* runs: the atexit function cleanup and the destructors of the two        *)
(* PWM_GTIM objects, which touch no register: their munmap calls get the   *)
(* address of a register, which is not that of a page, and fail.           *)
(*                                                                         *)
(* A step is one access to shared state: an atomic flag, or the duty       *)
(* register of one wheel.  The hardware keeps the last duty it was given,  *)
(* also after the process has ended.                                       *)
(*                                                                         *)
(* A definition X_Y is a deliberately wrong form of X: put in its place it *)
(* must break a property, which shows that the property depends on X.      *)
(***************************************************************************)
EXTENDS Integers

CONSTANTS
  KeyboardEnabled,  \* is keyboard_th started (main.cpp:179)?
  SigintEnabled,    \* may the process receive SIGINT?
  ControlTicks,     \* the timer ticks between two control passes: 5 in the code
  Pwm               \* the values the two speed controllers may return

ASSUME RuntimeAssumption ==
  /\ KeyboardEnabled \in BOOLEAN
  /\ SigintEnabled \in BOOLEAN
  /\ ControlTicks \in Nat \ {0}
  /\ Pwm \subseteq Int
  /\ Pwm # {}

VARIABLES
  system_running, stop_flag, emergency_stop,   \* std::atomic<bool>, config.cpp
  last_stop,   \* local of keyboard_task
  tick,        \* the tick counter of motion_control_task, modulo ControlTicks
  pc,          \* where each thread is
  duty,        \* the duty register of each wheel, in percent
  signalled,   \* SIGINT was delivered
  late         \* closed-loop writes per wheel since stop_flag was set

flags == <<system_running, stop_flag, emergency_stop>>
hardware == <<duty, late>>
vars == <<flags, last_stop, tick, pc, hardware, signalled>>

Wheel  == {"L", "R"}
Thread == {"main", "motion", "vision", "keyboard"}

InitialDuty == 15
StopDuty == 1         \* motor_stop sets 1, never 0
MaxMotorDuty == 40
LateCap == 2          \* bound of the counter late

Clamped_NoLowerLimit(d) == IF d > MaxMotorDuty THEN MaxMotorDuty ELSE d

Clamped(d) == IF d > MaxMotorDuty THEN MaxMotorDuty ELSE IF d < 0 THEN 0 ELSE d

MainPc ==
  {"init_L", "init_R", "camera", "spawn_vision", "spawn_motion", "spawn_keyboard",
   "test_run", "test_stop", "sleep", "join_vision", "join_motion", "join_keyboard",
   "sig_run", "sig_flag", "sig_L", "sig_R",
   "exit_L", "exit_R", "destroy", "gone"}
MotionPc ==
  {"absent", "test_run", "test_stop", "wait", "loop_L", "loop_R", "sleep",
   "stop_L", "stop_R", "done"}
VisionPc == {"absent", "test_run", "test_stop", "grab", "sleep", "done"}
KeyboardPc ==
  {"absent", "test_run", "test_stop", "key", "estop_L", "estop_R", "quit_L",
   "quit_R", "quit_run", "quit_flag", "sleep", "done"}
Pc == MainPc \cup MotionPc \cup VisionPc \cup KeyboardPc

Alive == pc["main"] # "gone"

At(t, l) == Alive /\ pc[t] = l
Goto(t, l) == pc' = [pc EXCEPT ![t] = l]
Move(t, from, to) == At(t, from) /\ Goto(t, to)

-----------------------------------------------------------------------------
(* motor_set_duty: one register write.                                     *)
SetDuty(t, w, d, next) ==
  /\ duty' = [duty EXCEPT ![w] = Clamped(d)]
  /\ Goto(t, next)

(* A step of thread t that writes the duty of wheel w and nothing else.    *)
WriteStep(t, from, w, d, next) ==
  /\ At(t, from)
  /\ SetDuty(t, w, d, next)
  /\ UNCHANGED <<flags, last_stop, tick, signalled, late>>

(* The two writes of motor_stop.                                           *)
StopLeft(t, from, next)  == WriteStep(t, from, "L", StopDuty, next)
StopRight(t, from, next) == WriteStep(t, from, "R", StopDuty, next)

-----------------------------------------------------------------------------
(* while (system_running && !stop_flag): the condition of the loops of all *)
(* four threads, two atomic loads.                                         *)
LoopBody == [main |-> "sleep", motion |-> "wait", vision |-> "grab", keyboard |-> "key"]
LoopExit_NoMotorStop ==
  [main |-> "join_vision", motion |-> "done", vision |-> "done", keyboard |-> "done"]

LoopExit == [main |-> "join_vision", motion |-> "stop_L", vision |-> "done",
             keyboard |-> "done"]

TestRunning(t) ==
  /\ At(t, "test_run")
  /\ Goto(t, IF system_running THEN "test_stop" ELSE LoopExit[t])
  /\ UNCHANGED <<flags, last_stop, tick, hardware, signalled>>

TestStop(t) ==
  /\ At(t, "test_stop")
  /\ Goto(t, IF stop_flag THEN LoopExit[t] ELSE LoopBody[t])
  /\ UNCHANGED <<flags, last_stop, tick, hardware, signalled>>

Sleep_NoRetest(t) ==
  /\ Move(t, "sleep", LoopBody[t])
  /\ UNCHANGED <<flags, last_stop, tick, hardware, signalled>>

Sleep(t) ==
  /\ Move(t, "sleep", "test_run")
  /\ UNCHANGED <<flags, last_stop, tick, hardware, signalled>>

Loop(t) == TestRunning(t) \/ TestStop(t) \/ Sleep(t)

-----------------------------------------------------------------------------
(* main                                                                    *)
MotorInitLeft  == WriteStep("main", "init_L", "L", InitialDuty, "init_R")
MotorInitRight == WriteStep("main", "init_R", "R", InitialDuty, "camera")

(* cap.isOpened(): without a camera main returns -1, and so exits.         *)
OpenCamera ==
  /\ At("main", "camera")
  /\ \E opened \in BOOLEAN : Goto("main", IF opened THEN "spawn_vision" ELSE "exit_L")
  /\ UNCHANGED <<flags, last_stop, tick, hardware, signalled>>

Spawn(t, from, next) ==
  /\ At("main", from)
  /\ pc' = [pc EXCEPT !["main"] = next, ![t] = "test_run"]
  /\ UNCHANGED <<flags, last_stop, tick, hardware, signalled>>

SpawnThreads ==
  \/ Spawn("vision", "spawn_vision", "spawn_motion")
  \/ Spawn("motion", "spawn_motion",
           IF KeyboardEnabled THEN "spawn_keyboard" ELSE "test_run")
  \/ Spawn("keyboard", "spawn_keyboard", "test_run")

Join_NoWait(t, from, next) ==
  /\ Move("main", from, next)
  /\ UNCHANGED <<flags, last_stop, tick, hardware, signalled>>

Join(t, from, next) ==
  /\ pc[t] = "done"
  /\ Move("main", from, next)
  /\ UNCHANGED <<flags, last_stop, tick, hardware, signalled>>

JoinThreads ==
  \/ Join("vision", "join_vision", "join_motion")
  \/ Join("motion", "join_motion", IF KeyboardEnabled THEN "join_keyboard" ELSE "exit_L")
  \/ Join("keyboard", "join_keyboard", "exit_L")

(* cleanup, the function main registers with atexit.                       *)
CleanupLeft  == StopLeft("main", "exit_L", "exit_R")
CleanupRight == StopRight("main", "exit_R", "destroy")

(* ~PWM_GTIM of the global Motor_R_speed, then of Motor_L_speed: the       *)
(* registers keep their values and stay mapped.                            *)
DestroyMotors ==
  /\ Move("main", "destroy", "gone")
  /\ UNCHANGED <<flags, last_stop, tick, hardware, signalled>>

-----------------------------------------------------------------------------
(* SIGINT.  The kernel delivers a signal sent to the process to the main   *)
(* thread, which never blocks it; sigint_handler does not return.  It      *)
(* arrives at most once, and before main has called exit itself.           *)
ExitPc == {"exit_L", "exit_R", "destroy", "gone"}

Sigint ==
  /\ SigintEnabled
  /\ ~signalled
  /\ pc["main"] \notin ExitPc
  /\ signalled' = TRUE
  /\ Goto("main", "sig_run")
  /\ UNCHANGED <<flags, last_stop, tick, hardware>>

HandlerStopsRunning ==
  /\ Move("main", "sig_run", "sig_flag")
  /\ system_running' = FALSE
  /\ UNCHANGED <<stop_flag, emergency_stop, last_stop, tick, hardware, signalled>>

HandlerSetsFlag ==
  /\ Move("main", "sig_flag", "sig_L")
  /\ stop_flag' = TRUE
  /\ UNCHANGED <<system_running, emergency_stop, last_stop, tick, hardware, signalled>>

HandlerStopsLeft  == StopLeft("main", "sig_L", "sig_R")
HandlerStopsRight == StopRight("main", "sig_R", "exit_L")

Main ==
  \/ MotorInitLeft \/ MotorInitRight \/ OpenCamera \/ SpawnThreads \/ Loop("main")
  \/ JoinThreads \/ CleanupLeft \/ CleanupRight \/ DestroyMotors
  \/ HandlerStopsRunning \/ HandlerSetsFlag \/ HandlerStopsLeft \/ HandlerStopsRight

-----------------------------------------------------------------------------
(* motion_control_task                                                     *)

(* read(tfd) returns once the 1 ms timer has fired.                        *)
TimerTick ==
  /\ At("motion", "wait")
  /\ tick' = (tick + 1) % ControlTicks
  /\ Goto("motion", IF tick' = 0 THEN "loop_L" ELSE "sleep")
  /\ UNCHANGED <<flags, last_stop, hardware, signalled>>

(* Lspeed_close_loop and Rspeed_close_loop: the controller's result goes   *)
(* to motor_set_duty.                                                      *)
SpeedLoop(w, from, next) ==
  /\ At("motion", from)
  /\ \E p \in Pwm : SetDuty("motion", w, p, next)
  /\ late' = IF stop_flag /\ late[w] < LateCap
               THEN [late EXCEPT ![w] = @ + 1] ELSE late
  /\ UNCHANGED <<flags, last_stop, tick, signalled>>

LspeedCloseLoop == SpeedLoop("L", "loop_L", "loop_R")
RspeedCloseLoop == SpeedLoop("R", "loop_R", "sleep")

MotionStopsLeft  == StopLeft("motion", "stop_L", "stop_R")
MotionStopsRight == StopRight("motion", "stop_R", "done")

Motion ==
  \/ Loop("motion") \/ TimerTick \/ LspeedCloseLoop \/ RspeedCloseLoop
  \/ MotionStopsLeft \/ MotionStopsRight

-----------------------------------------------------------------------------
(* vision_task: an empty frame ends the thread and sets no flag.           *)
GrabFrame ==
  /\ At("vision", "grab")
  /\ \E empty \in BOOLEAN : Goto("vision", IF empty THEN "done" ELSE "sleep")
  /\ UNCHANGED <<flags, last_stop, tick, hardware, signalled>>

Vision == Loop("vision") \/ GrabFrame

-----------------------------------------------------------------------------
(* keyboard_task: a non-blocking read of one key.                          *)
NoKey ==
  /\ Move("keyboard", "key", "sleep")
  /\ UNCHANGED <<flags, last_stop, tick, hardware, signalled>>

KeyStop ==
  /\ Move("keyboard", "key", IF last_stop THEN "sleep" ELSE "estop_L")
  /\ emergency_stop' = (emergency_stop \/ ~last_stop)
  /\ UNCHANGED <<system_running, stop_flag, last_stop, tick, hardware, signalled>>

EmergencyStopsLeft == StopLeft("keyboard", "estop_L", "estop_R")

EmergencyStopsRight ==
  /\ At("keyboard", "estop_R")
  /\ SetDuty("keyboard", "R", StopDuty, "sleep")
  /\ last_stop' = TRUE
  /\ UNCHANGED <<flags, tick, signalled, late>>

KeyResume ==
  /\ Move("keyboard", "key", "sleep")
  /\ emergency_stop' = FALSE
  /\ last_stop' = FALSE
  /\ UNCHANGED <<system_running, stop_flag, tick, hardware, signalled>>

KeyQuit ==
  /\ Move("keyboard", "key", "quit_L")
  /\ emergency_stop' = TRUE
  /\ UNCHANGED <<system_running, stop_flag, last_stop, tick, hardware, signalled>>

QuitStopsLeft  == StopLeft("keyboard", "quit_L", "quit_R")
QuitStopsRight == StopRight("keyboard", "quit_R", "quit_run")

QuitStopsRunning ==
  /\ Move("keyboard", "quit_run", "quit_flag")
  /\ system_running' = FALSE
  /\ UNCHANGED <<stop_flag, emergency_stop, last_stop, tick, hardware, signalled>>

QuitSetsFlag ==
  /\ Move("keyboard", "quit_flag", "done")
  /\ stop_flag' = TRUE
  /\ UNCHANGED <<system_running, emergency_stop, last_stop, tick, hardware, signalled>>

Keyboard ==
  \/ Loop("keyboard") \/ NoKey \/ KeyStop \/ EmergencyStopsLeft \/ EmergencyStopsRight
  \/ KeyResume \/ KeyQuit \/ QuitStopsLeft \/ QuitStopsRight
  \/ QuitStopsRunning \/ QuitSetsFlag

-----------------------------------------------------------------------------
Init ==
  /\ system_running = TRUE
  /\ stop_flag = FALSE
  /\ emergency_stop = FALSE
  /\ last_stop = FALSE
  /\ tick = 0
  /\ pc = [t \in Thread |-> IF t = "main" THEN "init_L" ELSE "absent"]
  /\ duty = [w \in Wheel |-> 0]
  /\ signalled = FALSE
  /\ late = [w \in Wheel |-> 0]

(* The process has ended.                                                  *)
Ended == ~Alive /\ UNCHANGED vars

Next == Main \/ Sigint \/ Motion \/ Vision \/ Keyboard \/ Ended

Spec == Init /\ [][Next]_vars

(* Every started thread keeps running: the threads sleep or block in each  *)
(* iteration, the timer fires, the camera answers, read(stdin) does not    *)
(* block.  Nobody has to press a key or send SIGINT.                       *)
FairSpec ==
  /\ Spec
  /\ WF_vars(Main) /\ WF_vars(Motion) /\ WF_vars(Vision) /\ WF_vars(Keyboard)

-----------------------------------------------------------------------------
FlagsOK ==
  /\ system_running \in BOOLEAN
  /\ stop_flag \in BOOLEAN
  /\ emergency_stop \in BOOLEAN
  /\ last_stop \in BOOLEAN
  /\ signalled \in BOOLEAN

PlacesOK ==
  /\ pc \in [Thread -> Pc]
  /\ pc["main"] \in MainPc
  /\ pc["motion"] \in MotionPc
  /\ pc["vision"] \in VisionPc
  /\ pc["keyboard"] \in KeyboardPc

HardwareOK ==
  /\ duty \in [Wheel -> 0 .. MaxMotorDuty]
  /\ late \in [Wheel -> 0 .. LateCap]
  /\ tick \in 0 .. ControlTicks - 1

(* Type invariant of the flags, program counters and registers.            *)
TypeOK == FlagsOK /\ PlacesOK /\ HardwareOK

Stopped == \A w \in Wheel : duty[w] = StopDuty

(* Once motion_control_task has returned, both wheels are at the stop duty *)
(* and stay there: whatever the other threads still write (the handler's,  *)
(* the keyboard's and cleanup's motor_stop), none of them drives a wheel.  *)
MotionDoneMeansStopped == pc["motion"] = "done" => Stopped

(* A process that ends without SIGINT (no camera, or 'q' and the joins)    *)
(* leaves both wheels at the stop duty.                                    *)
OrderlyExitStops == (~Alive /\ ~signalled) => Stopped

(* After stop_flag is set the motion thread finishes at most the control   *)
(* pass it is in: it drives each wheel at most once more.                  *)
LateDriveBounded == \A w \in Wheel : late[w] <= 1

(* The message of sigint_handler (main.cpp:28) says the program exits      *)
(* safely: when the process is gone the wheels are stopped.                *)
SafeExit == ~Alive => Stopped

(* The message of keyboard_control.cpp:61 says the speed is 0 after the    *)
(* emergency stop: from the end of the handling of the key until 'r' the   *)
(* wheels are at the stop duty.                                            *)
EmergencyStopHolds == last_stop => Stopped

(* A request to stop ends the process, whoever made it: the joins of main  *)
(* cannot wait forever for a thread that no longer looks at the flags.     *)
StopEndsProcess == (stop_flag \/ signalled) ~> ~Alive

-----------------------------------------------------------------------------
(* The strengthening of the three invariants that every step preserves.    *)

(* Who may still be running when main is at each of its places.            *)
ThreadsFollowMain ==
  /\ pc["main"] \in {"init_L", "init_R", "camera", "spawn_vision", "spawn_motion"}
       => pc["motion"] = "absent"
  /\ pc["main"] \in {"init_L", "init_R", "camera", "spawn_vision", "spawn_motion",
                     "spawn_keyboard"} => pc["keyboard"] = "absent"
  /\ pc["main"] \in {"spawn_keyboard", "join_keyboard"} => KeyboardEnabled
  /\ ~KeyboardEnabled => pc["keyboard"] = "absent"
  /\ (~signalled /\ pc["main"] \in ExitPc \cup {"join_keyboard"})
       => pc["motion"] \in {"absent", "done"}
  /\ (~signalled /\ pc["main"] \in ExitPc) => pc["keyboard"] \in {"absent", "done"}
  /\ pc["main"] \in {"sig_run", "sig_flag", "sig_L", "sig_R"} => signalled

(* What the registers hold when a thread is about to stop or has stopped.  *)
RegistersFollowThreads ==
  /\ pc["motion"] = "stop_R" => duty["L"] = StopDuty
  /\ pc["motion"] = "done" => Stopped
  /\ (~signalled /\ pc["main"] = "exit_R") => duty["L"] = StopDuty
  /\ (~signalled /\ pc["main"] \in {"destroy", "gone"}) => Stopped

(* The motion thread is in at most one control pass after stop_flag.       *)
LatePassFollowsFlag ==
  /\ ~stop_flag => \A w \in Wheel : late[w] = 0
  /\ pc["motion"] \in {"wait", "loop_L"} => \A w \in Wheel : late[w] = 0
  /\ pc["motion"] = "loop_R" => late["R"] = 0
  /\ LateDriveBounded

IInv == TypeOK /\ ThreadsFollowMain /\ RegistersFollowThreads /\ LatePassFollowsFlag
=============================================================================
