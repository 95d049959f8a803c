SPECIFICATION Spec
CONSTANTS
  KeyboardEnabled = TRUE
  SigintEnabled = FALSE
  ControlTicks = 2
  Pwm <- MCPwm
INVARIANT EmergencyStopHolds
