---------------------------- MODULE MCSpeedLoop ----------------------------
(* Small instance of SpeedLoop: the gains of config.txt, and a file in     *)
(* which the keys of the gains are missing.                                *)
EXTENDS SpeedLoop
NoGain   == [kp |-> 0, ki |-> 0, kd |-> 0]
MCGains  == {DefaultGain, NoGain}
MCFiles  == {[gain |-> g, maxDuty |-> 40] : g \in MCGains}
LowFiles == {[gain |-> DefaultGain, maxDuty |-> 30]}
MCFloor  == -4000
=============================================================================
