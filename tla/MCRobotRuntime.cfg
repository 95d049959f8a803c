SPECIFICATION FairSpec
CONSTANTS
  KeyboardEnabled = TRUE
  SigintEnabled = TRUE
  ControlTicks = 2
  Pwm <- MCPwm
INVARIANTS TypeOK MotionDoneMeansStopped OrderlyExitStops LateDriveBounded
PROPERTY StopEndsProcess
