SPECIFICATION Spec
CONSTANTS
  KeyboardEnabled = FALSE
  SigintEnabled = TRUE
  ControlTicks = 2
  Pwm <- MCPwm
INVARIANT SafeExit
