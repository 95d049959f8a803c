--------------------------- MODULE MCRobotRuntime ---------------------------
(* Finite instance of RobotRuntime: controller results below, inside and   *)
(* above the range motor_set_duty clamps to.                               *)
EXTENDS RobotRuntime

MCPwm == {-3, 20, 47}
=============================================================================
