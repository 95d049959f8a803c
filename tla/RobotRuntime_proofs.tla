------------------------ MODULE RobotRuntime_proofs ------------------------
(***************************************************************************)
(* Proofs about RobotRuntime for every set of controller results, with and *)
(* without the keyboard thread and SIGINT.                                 *)
(***************************************************************************)
EXTENDS RobotRuntime, TLAPS

(* What a register write leaves well typed.                                *)
LEMMA ClampedRange == \A d \in Int : Clamped(d) \in 0 .. MaxMotorDuty
  BY DEF Clamped, MaxMotorDuty

(* The atomic flags and the history flags stay Boolean.                    *)
LEMMA FlagsTyped == FlagsOK /\ [Next]_vars => FlagsOK'
  <1> SUFFICES ASSUME FlagsOK, [Next]_vars PROVE FlagsOK'
    OBVIOUS
  <1> USE DEF FlagsOK, flags, hardware
  <1>1. ASSUME NEW t, NEW w, NEW d, NEW f, NEW g, WriteStep(t, f, w, d, g)
        PROVE  FlagsOK'
    BY <1>1, Zenon DEF WriteStep, SetDuty
  <1>2. ASSUME NEW t, Loop(t) PROVE FlagsOK'
    BY <1>2, Zenon DEF Loop, TestRunning, TestStop, Sleep
  <1>3. CASE Main
    BY <1>3, <1>1, <1>2, Zenon DEF Main, MotorInitLeft, MotorInitRight, OpenCamera,
       SpawnThreads, Spawn, JoinThreads, Join, CleanupLeft, CleanupRight, DestroyMotors,
       HandlerStopsRunning, HandlerSetsFlag, HandlerStopsLeft,
       HandlerStopsRight, StopLeft, StopRight
  <1>4. CASE Sigint
    BY <1>4, Zenon DEF Sigint
  <1>5. CASE Motion
    BY <1>5, <1>1, <1>2, Zenon DEF Motion, TimerTick, LspeedCloseLoop, RspeedCloseLoop,
       SpeedLoop, SetDuty, MotionStopsLeft, MotionStopsRight, StopLeft, StopRight
  <1>6. CASE Vision
    BY <1>6, <1>2, Zenon DEF Vision, GrabFrame
  <1>7. CASE Keyboard
    BY <1>7, <1>1, <1>2, Zenon DEF Keyboard, NoKey, KeyStop, EmergencyStopsLeft,
       EmergencyStopsRight, SetDuty, KeyResume, KeyQuit, QuitStopsLeft, QuitStopsRight,
       QuitStopsRunning, QuitSetsFlag, StopLeft, StopRight
  <1>8. CASE UNCHANGED vars
    BY <1>8, Zenon DEF vars
  <1>9. QED
    BY <1>3, <1>4, <1>5, <1>6, <1>7, <1>8, Zenon DEF Next, Ended

(* Every thread stays at one of its own places.                            *)
LEMMA PlacesTyped == PlacesOK /\ [Next]_vars => PlacesOK'
  <1> SUFFICES ASSUME PlacesOK, [Next]_vars PROVE PlacesOK'
    OBVIOUS
  <1> USE DEF PlacesOK, Thread, Pc, MainPc, MotionPc, VisionPc, KeyboardPc,
              At, Goto, Move, Alive
  <1>1. ASSUME NEW t \in Thread, Loop(t) PROVE PlacesOK'
    BY <1>1 DEF Loop, TestRunning, TestStop, Sleep, LoopBody, LoopExit
  <1>2. CASE Main
    <2>1. CASE MotorInitLeft \/ MotorInitRight
      BY <2>1 DEF MotorInitLeft, MotorInitRight, WriteStep, SetDuty
    <2>2. CASE OpenCamera
      BY <2>2 DEF OpenCamera
    <2>3. CASE SpawnThreads
      BY <2>3 DEF SpawnThreads, Spawn
    <2>4. CASE JoinThreads
      BY <2>4 DEF JoinThreads, Join
    <2>5. CASE CleanupLeft \/ CleanupRight \/ HandlerStopsLeft \/ HandlerStopsRight
      BY <2>5 DEF CleanupLeft, CleanupRight, HandlerStopsLeft, HandlerStopsRight,
         StopLeft, StopRight, WriteStep, SetDuty
    <2>6. CASE DestroyMotors
      BY <2>6 DEF DestroyMotors
    <2>7. CASE HandlerStopsRunning \/ HandlerSetsFlag
      BY <2>7 DEF HandlerStopsRunning, HandlerSetsFlag
    <2>8. QED
      BY <1>2, <1>1, <2>1, <2>2, <2>3, <2>4, <2>5, <2>6, <2>7 DEF Main
  <1>3. CASE Sigint
    BY <1>3 DEF Sigint
  <1>4. CASE Motion
    <2>1. CASE TimerTick
      BY <2>1 DEF TimerTick
    <2>2. CASE LspeedCloseLoop \/ RspeedCloseLoop
      BY <2>2 DEF LspeedCloseLoop, RspeedCloseLoop, SpeedLoop, SetDuty
    <2>3. CASE MotionStopsLeft \/ MotionStopsRight
      BY <2>3 DEF MotionStopsLeft, MotionStopsRight, StopLeft, StopRight,
         WriteStep, SetDuty
    <2>4. QED
      BY <1>4, <1>1, <2>1, <2>2, <2>3 DEF Motion
  <1>5. CASE Vision
    BY <1>5, <1>1 DEF Vision, GrabFrame
  <1>6. CASE Keyboard
    <2>1. CASE NoKey \/ KeyResume \/ KeyQuit \/ QuitStopsRunning \/ QuitSetsFlag
      BY <2>1 DEF NoKey, KeyResume, KeyQuit, QuitStopsRunning, QuitSetsFlag
    <2>2. CASE KeyStop
      BY <2>2 DEF KeyStop
    <2>3. CASE EmergencyStopsLeft \/ EmergencyStopsRight
      BY <2>3 DEF EmergencyStopsLeft, EmergencyStopsRight, StopLeft, WriteStep, SetDuty
    <2>4. CASE QuitStopsLeft \/ QuitStopsRight
      BY <2>4 DEF QuitStopsLeft, QuitStopsRight, StopLeft, StopRight, WriteStep, SetDuty
    <2>5. QED
      BY <1>6, <1>1, <2>1, <2>2, <2>3, <2>4 DEF Keyboard
  <1>7. CASE UNCHANGED vars
    BY <1>7 DEF vars
  <1>8. QED
    BY <1>2, <1>3, <1>4, <1>5, <1>6, <1>7 DEF Next, Ended

(* The duty registers, the tick counter and the history counter stay in    *)
(* range: motor_set_duty clamps whatever the controllers return.           *)
LEMMA HardwareTyped == HardwareOK /\ [Next]_vars => HardwareOK'
  <1> SUFFICES ASSUME HardwareOK, [Next]_vars PROVE HardwareOK'
    OBVIOUS
  <1> USE RuntimeAssumption DEF HardwareOK, flags, hardware, Wheel, LateCap
  <1>1. ASSUME NEW t, NEW w \in Wheel, NEW d \in Int, NEW l, SetDuty(t, w, d, l)
        PROVE  duty' \in [Wheel -> 0 .. MaxMotorDuty]
    BY <1>1, ClampedRange DEF SetDuty
  <1>2. ASSUME NEW t, NEW w \in Wheel, NEW d \in Int, NEW f, NEW l,
               WriteStep(t, f, w, d, l)
        PROVE  HardwareOK'
    BY <1>2, <1>1 DEF WriteStep
  <1>3. ASSUME NEW t, Loop(t) PROVE HardwareOK'
    BY <1>3 DEF Loop, TestRunning, TestStop, Sleep
  <1>4. CASE Main
    <2>1. CASE MotorInitLeft \/ MotorInitRight \/ CleanupLeft \/ CleanupRight
               \/ HandlerStopsLeft \/ HandlerStopsRight
      BY <2>1, <1>2 DEF MotorInitLeft, MotorInitRight, CleanupLeft, CleanupRight,
         HandlerStopsLeft, HandlerStopsRight, StopLeft, StopRight, InitialDuty, StopDuty
    <2>2. CASE OpenCamera \/ SpawnThreads \/ JoinThreads
      BY <2>2 DEF OpenCamera, SpawnThreads, Spawn, JoinThreads, Join
    <2>3. CASE DestroyMotors
      BY <2>3 DEF DestroyMotors
    <2>4. CASE HandlerStopsRunning \/ HandlerSetsFlag
      BY <2>4 DEF HandlerStopsRunning, HandlerSetsFlag
    <2>5. QED
      BY <1>4, <1>3, <2>1, <2>2, <2>3, <2>4 DEF Main
  <1>5. CASE Sigint
    BY <1>5 DEF Sigint
  <1>6. CASE Motion
    <2>1. CASE TimerTick
      BY <2>1 DEF TimerTick
    <2>2. ASSUME NEW w \in Wheel, NEW f, NEW l, SpeedLoop(w, f, l) PROVE HardwareOK'
      <3>1. PICK p \in Pwm : SetDuty("motion", w, p, l)
        BY <2>2 DEF SpeedLoop
      <3>2. duty' \in [Wheel -> 0 .. MaxMotorDuty]
        BY <3>1, <1>1
      <3>3. late' \in [Wheel -> 0 .. LateCap]
        BY <2>2 DEF SpeedLoop
      <3>4. QED
        BY <2>2, <3>2, <3>3 DEF SpeedLoop
    <2>3. CASE MotionStopsLeft \/ MotionStopsRight
      BY <2>3, <1>2 DEF MotionStopsLeft, MotionStopsRight, StopLeft, StopRight, StopDuty
    <2>4. QED
      BY <1>6, <1>3, <2>1, <2>2, <2>3 DEF Motion, LspeedCloseLoop, RspeedCloseLoop
  <1>7. CASE Vision
    BY <1>7, <1>3 DEF Vision, GrabFrame
  <1>8. CASE Keyboard
    <2>1. CASE NoKey \/ KeyStop \/ KeyResume \/ KeyQuit \/ QuitStopsRunning
               \/ QuitSetsFlag
      BY <2>1 DEF NoKey, KeyStop, KeyResume, KeyQuit, QuitStopsRunning, QuitSetsFlag
    <2>2. CASE EmergencyStopsLeft \/ QuitStopsLeft \/ QuitStopsRight
      BY <2>2, <1>2 DEF EmergencyStopsLeft, QuitStopsLeft, QuitStopsRight, StopLeft,
         StopRight, StopDuty
    <2>3. CASE EmergencyStopsRight
      BY <2>3, <1>1 DEF EmergencyStopsRight, StopDuty
    <2>4. QED
      BY <1>8, <1>3, <2>1, <2>2, <2>3 DEF Keyboard
  <1>9. CASE UNCHANGED vars
    BY <1>9 DEF vars
  <1>10. QED
    BY <1>4, <1>5, <1>6, <1>7, <1>8, <1>9 DEF Next, Ended

(* Every variable keeps its type.                                          *)
THEOREM TypeCorrect == Spec => []TypeOK
  <1>1. Init => TypeOK
    <2>1. Init => FlagsOK
      BY Zenon DEF Init, FlagsOK
    <2>2. Init => PlacesOK
      BY DEF Init, PlacesOK, Thread, Pc, MainPc, MotionPc, VisionPc, KeyboardPc
    <2>3. Init => HardwareOK
      BY RuntimeAssumption DEF Init, HardwareOK, Wheel, MaxMotorDuty, LateCap
    <2>4. QED
      BY <2>1, <2>2, <2>3 DEF TypeOK
  <1>2. TypeOK /\ [Next]_vars => TypeOK'
    BY FlagsTyped, PlacesTyped, HardwareTyped DEF TypeOK
  <1>3. QED
    BY <1>1, <1>2, PTL DEF Spec

-----------------------------------------------------------------------------
(* The threads that may run at each place of main.                         *)
LEMMA ThreadsStep ==
  PlacesOK /\ ThreadsFollowMain /\ RegistersFollowThreads /\ [Next]_vars
    => ThreadsFollowMain'
  <1> SUFFICES ASSUME PlacesOK, ThreadsFollowMain, RegistersFollowThreads, [Next]_vars
               PROVE  ThreadsFollowMain'
    OBVIOUS
  <1> USE DEF PlacesOK, ThreadsFollowMain, Thread, ExitPc, At, Goto, Move, Alive
  <1>1. ASSUME NEW t \in Thread, Loop(t) PROVE ThreadsFollowMain'
    BY <1>1 DEF Loop, TestRunning, TestStop, Sleep, LoopBody, LoopExit
  <1>2. CASE Main
    <2>1. CASE MotorInitLeft \/ MotorInitRight
      BY <2>1 DEF MotorInitLeft, MotorInitRight, WriteStep, SetDuty,
         Pc, MainPc, Wheel
    <2>2. CASE OpenCamera
      BY <2>2 DEF OpenCamera
    <2>3. CASE SpawnThreads
      BY <2>3 DEF SpawnThreads, Spawn
    <2>4. CASE JoinThreads
      BY <2>4 DEF JoinThreads, Join
    <2>5. CASE CleanupLeft \/ CleanupRight \/ HandlerStopsLeft \/ HandlerStopsRight
      BY <2>5 DEF CleanupLeft, CleanupRight, HandlerStopsLeft,
         HandlerStopsRight, StopLeft, StopRight, WriteStep, SetDuty, Pc, MainPc, Wheel
    <2>6. CASE DestroyMotors
      BY <2>6 DEF DestroyMotors
    <2>7. CASE HandlerStopsRunning \/ HandlerSetsFlag
      BY <2>7 DEF HandlerStopsRunning, HandlerSetsFlag
    <2>8. QED
      BY <1>2, <1>1, <2>1, <2>2, <2>3, <2>4, <2>5, <2>6, <2>7 DEF Main
  <1>3. CASE Sigint
    BY <1>3 DEF Sigint
  <1>4. CASE Motion
    <2>1. CASE TimerTick
      BY <2>1 DEF TimerTick
    <2>2. CASE LspeedCloseLoop \/ RspeedCloseLoop
      BY <2>2 DEF LspeedCloseLoop, RspeedCloseLoop, SpeedLoop, SetDuty,
         Pc, MotionPc, Wheel
    <2>3. CASE MotionStopsLeft \/ MotionStopsRight
      BY <2>3 DEF MotionStopsLeft, MotionStopsRight, StopLeft,
         StopRight, WriteStep, SetDuty, Pc, MotionPc, Wheel
    <2>4. QED
      BY <1>4, <1>1, <2>1, <2>2, <2>3 DEF Motion
  <1>5. CASE Vision
    BY <1>5, <1>1 DEF Vision, GrabFrame
  <1>6. CASE Keyboard
    <2>1. CASE NoKey \/ KeyResume \/ KeyQuit \/ QuitStopsRunning \/ QuitSetsFlag
      BY <2>1 DEF NoKey, KeyResume, KeyQuit, QuitStopsRunning, QuitSetsFlag
    <2>2. CASE KeyStop
      BY <2>2 DEF KeyStop
    <2>3. CASE EmergencyStopsLeft \/ EmergencyStopsRight
      BY <2>3 DEF EmergencyStopsLeft, EmergencyStopsRight, StopLeft,
         WriteStep, SetDuty, Pc, KeyboardPc, Wheel
    <2>4. CASE QuitStopsLeft \/ QuitStopsRight
      BY <2>4 DEF QuitStopsLeft, QuitStopsRight, StopLeft, StopRight,
         WriteStep, SetDuty, Pc, KeyboardPc, Wheel
    <2>5. QED
      BY <1>6, <1>1, <2>1, <2>2, <2>3, <2>4 DEF Keyboard
  <1>7. CASE UNCHANGED vars
    BY <1>7 DEF vars
  <1>8. QED
    BY <1>2, <1>3, <1>4, <1>5, <1>6, <1>7 DEF Next, Ended

(* What the registers hold at the places where a thread has stopped.       *)
LEMMA RegistersStep ==
  TypeOK /\ ThreadsFollowMain /\ RegistersFollowThreads /\ [Next]_vars
    => RegistersFollowThreads'
  <1> SUFFICES ASSUME TypeOK, ThreadsFollowMain, RegistersFollowThreads, [Next]_vars
               PROVE  RegistersFollowThreads'
    OBVIOUS
  <1> PlacesOK /\ HardwareOK
    BY DEF TypeOK
  <1> USE DEF PlacesOK, HardwareOK, ThreadsFollowMain, RegistersFollowThreads, Thread,
              Wheel, Stopped, ExitPc, At, Goto, Move, Alive, flags, hardware
  <1>1. ASSUME NEW t \in Thread, Loop(t) PROVE RegistersFollowThreads'
    BY <1>1 DEF Loop, TestRunning, TestStop, Sleep, LoopBody, LoopExit
  (* motor_stop writes the duty every invariant asks for.                  *)
  <1>2. ASSUME NEW t \in Thread, NEW w \in Wheel, NEW l \in Pc, NEW k \in Pc,
               WriteStep(t, l, w, StopDuty, k),
               \/ t = "main" /\ l \notin ExitPc
               \/ t = "main" /\ l = "exit_L" /\ w = "L" /\ k = "exit_R"
               \/ t = "main" /\ l = "exit_R" /\ w = "R" /\ k = "destroy"
               \/ t = "motion" /\ l = "stop_L" /\ w = "L" /\ k = "stop_R"
               \/ t = "motion" /\ l = "stop_R" /\ w = "R" /\ k = "done"
               \/ t = "keyboard" /\ l \notin {"absent", "done"},
               t = "main" => k \in {"sig_R", "exit_L", "exit_R", "destroy"},
               (t = "main" /\ k = "exit_R") => l = "exit_L",
               (t = "main" /\ k = "destroy") => l = "exit_R"
        PROVE  RegistersFollowThreads'
    BY <1>2 DEF WriteStep, SetDuty, Clamped, StopDuty, MaxMotorDuty
  <1>3. CASE Main
    <2>1. CASE MotorInitLeft \/ MotorInitRight
      BY <2>1 DEF MotorInitLeft, MotorInitRight, WriteStep, SetDuty
    <2>2. CASE OpenCamera
      BY <2>2 DEF OpenCamera
    <2>3. CASE SpawnThreads
      BY <2>3 DEF SpawnThreads, Spawn
    <2>4. CASE JoinThreads
      BY <2>4 DEF JoinThreads, Join
    <2>5. CASE CleanupLeft \/ CleanupRight \/ HandlerStopsLeft \/ HandlerStopsRight
      BY <2>5, <1>2 DEF CleanupLeft, CleanupRight, HandlerStopsLeft,
         HandlerStopsRight, StopLeft, StopRight, Pc, MainPc
    <2>6. CASE DestroyMotors
      BY <2>6 DEF DestroyMotors
    <2>7. CASE HandlerStopsRunning \/ HandlerSetsFlag
      BY <2>7 DEF HandlerStopsRunning, HandlerSetsFlag
    <2>8. QED
      BY <1>3, <1>1, <2>1, <2>2, <2>3, <2>4, <2>5, <2>6, <2>7 DEF Main
  <1>4. CASE Sigint
    BY <1>4 DEF Sigint
  <1>5. CASE Motion
    <2>1. CASE TimerTick
      BY <2>1 DEF TimerTick
    <2>2. CASE LspeedCloseLoop \/ RspeedCloseLoop
      BY <2>2 DEF LspeedCloseLoop, RspeedCloseLoop, SpeedLoop, SetDuty
    <2>3. CASE MotionStopsLeft \/ MotionStopsRight
      BY <2>3, <1>2 DEF MotionStopsLeft, MotionStopsRight, StopLeft, StopRight,
         Pc, MotionPc
    <2>4. QED
      BY <1>5, <1>1, <2>1, <2>2, <2>3 DEF Motion
  <1>6. CASE Vision
    BY <1>6, <1>1 DEF Vision, GrabFrame
  <1>7. CASE Keyboard
    <2>1. CASE NoKey \/ KeyResume \/ KeyQuit \/ QuitStopsRunning \/ QuitSetsFlag
      BY <2>1 DEF NoKey, KeyResume, KeyQuit, QuitStopsRunning, QuitSetsFlag
    <2>2. CASE KeyStop
      BY <2>2 DEF KeyStop
    <2>3. CASE EmergencyStopsLeft \/ QuitStopsLeft \/ QuitStopsRight
      BY <2>3, <1>2 DEF EmergencyStopsLeft, QuitStopsLeft, QuitStopsRight, StopLeft,
         StopRight, Pc, KeyboardPc
    <2>4. CASE EmergencyStopsRight
      BY <2>4 DEF EmergencyStopsRight, SetDuty, Clamped, StopDuty, MaxMotorDuty
    <2>5. QED
      BY <1>7, <1>1, <2>1, <2>2, <2>3, <2>4 DEF Keyboard
  <1>8. CASE UNCHANGED vars
    BY <1>8 DEF vars
  <1>9. QED
    BY <1>3, <1>4, <1>5, <1>6, <1>7, <1>8 DEF Next, Ended

(* The motion thread enters no control pass after stop_flag.               *)
LEMMA LateStep ==
  TypeOK /\ LatePassFollowsFlag /\ [Next]_vars => LatePassFollowsFlag'
  <1> SUFFICES ASSUME TypeOK, LatePassFollowsFlag, [Next]_vars
               PROVE  LatePassFollowsFlag'
    OBVIOUS
  <1> PlacesOK /\ HardwareOK
    BY DEF TypeOK
  <1> USE DEF PlacesOK, HardwareOK, LatePassFollowsFlag, LateDriveBounded, Thread, Wheel,
              LateCap, At, Goto, Move, Alive, flags, hardware
  <1>1. ASSUME NEW t \in Thread, Loop(t) PROVE LatePassFollowsFlag'
    BY <1>1 DEF Loop, TestRunning, TestStop, Sleep, LoopBody, LoopExit
  <1>2. ASSUME NEW t \in Thread, NEW w, NEW d, NEW l, NEW k, WriteStep(t, l, w, d, k),
               t = "motion" => k \in {"stop_R", "done"}
        PROVE  LatePassFollowsFlag'
    BY <1>2 DEF WriteStep, SetDuty
  <1>3. CASE Main
    <2>1. CASE MotorInitLeft \/ MotorInitRight \/ CleanupLeft \/ CleanupRight
               \/ HandlerStopsLeft \/ HandlerStopsRight
      BY <2>1, <1>2 DEF MotorInitLeft, MotorInitRight, CleanupLeft, CleanupRight,
         HandlerStopsLeft, HandlerStopsRight, StopLeft, StopRight
    <2>2. CASE OpenCamera \/ SpawnThreads \/ JoinThreads
      BY <2>2 DEF OpenCamera, SpawnThreads, Spawn, JoinThreads, Join
    <2>3. CASE DestroyMotors
      BY <2>3 DEF DestroyMotors
    <2>4. CASE HandlerStopsRunning \/ HandlerSetsFlag
      BY <2>4 DEF HandlerStopsRunning, HandlerSetsFlag
    <2>5. QED
      BY <1>3, <1>1, <2>1, <2>2, <2>3, <2>4 DEF Main
  <1>4. CASE Sigint
    BY <1>4 DEF Sigint
  <1>5. CASE Motion
    <2>1. CASE TimerTick
      BY <2>1 DEF TimerTick
    <2>2. CASE LspeedCloseLoop \/ RspeedCloseLoop
      BY <2>2 DEF LspeedCloseLoop, RspeedCloseLoop, SpeedLoop, SetDuty
    <2>3. CASE MotionStopsLeft \/ MotionStopsRight
      BY <2>3, <1>2 DEF MotionStopsLeft, MotionStopsRight, StopLeft, StopRight
    <2>4. QED
      BY <1>5, <1>1, <2>1, <2>2, <2>3 DEF Motion
  <1>6. CASE Vision
    BY <1>6, <1>1 DEF Vision, GrabFrame
  <1>7. CASE Keyboard
    <2>1. CASE NoKey \/ KeyResume \/ KeyQuit \/ QuitStopsRunning \/ QuitSetsFlag
      BY <2>1 DEF NoKey, KeyResume, KeyQuit, QuitStopsRunning, QuitSetsFlag
    <2>2. CASE KeyStop
      BY <2>2 DEF KeyStop
    <2>3. CASE EmergencyStopsLeft \/ QuitStopsLeft \/ QuitStopsRight
      BY <2>3, <1>2 DEF EmergencyStopsLeft, QuitStopsLeft, QuitStopsRight, StopLeft,
         StopRight
    <2>4. CASE EmergencyStopsRight
      BY <2>4 DEF EmergencyStopsRight, SetDuty
    <2>5. QED
      BY <1>7, <1>1, <2>1, <2>2, <2>3, <2>4 DEF Keyboard
  <1>8. CASE UNCHANGED vars
    BY <1>8 DEF vars
  <1>9. QED
    BY <1>3, <1>4, <1>5, <1>6, <1>7, <1>8 DEF Next, Ended

(* The inductive invariant holds in every reachable state.                 *)
THEOREM Inductive == Spec => []IInv
  <1>1. Init => ThreadsFollowMain /\ RegistersFollowThreads /\ LatePassFollowsFlag
    BY DEF Init, ThreadsFollowMain, RegistersFollowThreads, LatePassFollowsFlag,
       LateDriveBounded, ExitPc, Thread, Wheel
  <1>2. TypeOK /\ TypeOK' /\ IInv /\ [Next]_vars => IInv'
    BY ThreadsStep, RegistersStep, LateStep DEF IInv, TypeOK
  <1>3. Init /\ TypeOK => IInv
    BY <1>1 DEF IInv
  <1>4. QED
    BY <1>2, <1>3, TypeCorrect, PTL DEF Spec

(* Once motion_control_task has returned, no thread drives a wheel again.  *)
THEOREM MotionDoneStopsWheels == Spec => []MotionDoneMeansStopped
  <1>1. IInv => MotionDoneMeansStopped
    BY DEF IInv, RegistersFollowThreads, MotionDoneMeansStopped
  <1>2. QED
    BY <1>1, Inductive, PTL

(* A process that ends without SIGINT ends with its wheels stopped.        *)
THEOREM OrderlyExit == Spec => []OrderlyExitStops
  <1>1. IInv => OrderlyExitStops
    BY DEF IInv, RegistersFollowThreads, OrderlyExitStops, Alive
  <1>2. QED
    BY <1>1, Inductive, PTL

(* After stop_flag each wheel is driven at most once more.                 *)
THEOREM LateDrive == Spec => []LateDriveBounded
  <1>1. IInv => LateDriveBounded
    BY DEF IInv, LatePassFollowsFlag
  <1>2. QED
    BY <1>1, Inductive, PTL
=============================================================================
