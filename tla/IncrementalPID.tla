--------------------------- MODULE IncrementalPID ---------------------------
(***************************************************************************)
(* The controller of one wheel, class IncrementalPID of                    *)
(* Robot/control/PID.cpp.  A real value is an integer count of 1/Unit, and *)
(* rounding is left out.  What is not left out is the infinite: an encoder *)
(* register of 0 makes the reading infinite, its error is kept for two     *)
(* calls, and a gain of 0 times an infinite difference is not a number.    *)
(* A definition X_Y is a wrong form of X, used to show that a property     *)
(* depends on X.                                                           *)
(***************************************************************************)
EXTENDS Integers

CONSTANTS
  Unit,       \* 1/Unit is the resolution of the gains and the output
  Gains,      \* the gains a caller sets
  Setpoints,  \* the setpoints a caller passes
  Readings,   \* the finite readings
  Infinite,   \* the reading of an encoder register of 0
  Floor       \* a call that takes the output below is not followed (bound)

ASSUME PIDAssumption ==
  /\ Unit \in Nat \ {0}
  /\ Gains \subseteq [kp : Nat, ki : Nat, kd : Nat]
  /\ Setpoints \subseteq Int
  /\ Readings \subseteq Nat
  /\ Infinite \notin Int
  /\ Floor \in Int

VARIABLES
  gain,                \* Kp, Ki, Kd
  prev, prev2,         \* prev_error and prev2_error; Infinite stands for -inf
  output,
  lost                 \* the output is -inf or not a number (output is then 0)

pid == <<gain, prev, prev2, output, lost>>

DefaultGain == [kp |-> 2, ki |-> 50, kd |-> 0]   \* config.cpp, Unit = 1000
DeltaCap    == 7 * Unit
OutputCap   == 40 * Unit
KickSpeed   == 10
Kick        == 20 * Unit

-----------------------------------------------------------------------------
(* The increment, limited upwards only.                                    *)
Delta(e) == gain.kp * (e - prev) + gain.ki * e + gain.kd * (e - 2 * prev + prev2)
LimitedDelta(e) == IF Delta(e) > DeltaCap THEN DeltaCap ELSE Delta(e)
LimitedOutput(o) == IF o >= OutputCap THEN OutputCap ELSE o

(* A wheel that hardly turns gets a fixed output, whatever the history.    *)
Kicks_None(m) == FALSE
Kicks(m) == m # Infinite /\ m <= KickSpeed

Remember_Swapped(e) == prev' = e /\ prev2' = e
Remember(e) == prev2' = prev /\ prev' = e

(* The increment of a finite error is finite; the one just after an        *)
(* infinite error is +inf, which the limit makes finite, when no gain      *)
(* that multiplies it is 0; any other is -inf or not a number.             *)
FinitePast == prev # Infinite /\ prev2 # Infinite
CaughtByLimit == prev = Infinite /\ prev2 # Infinite /\ gain.kp > 0 /\ gain.kd > 0
FiniteDelta(e) == e # Infinite /\ (FinitePast \/ CaughtByLimit)
Increment(e) == IF FinitePast THEN LimitedDelta(e) ELSE DeltaCap

(* calculate.                                                              *)
Calculate(setpoint, m) ==
  LET e == IF m = Infinite THEN Infinite ELSE setpoint - m
  IN /\ lost' = (~Kicks(m) /\ (lost \/ ~FiniteDelta(e)))
     /\ output' = IF Kicks(m) THEN LimitedOutput(Kick)
                  ELSE IF lost' THEN 0
                  ELSE LimitedOutput(output + Increment(e))
     /\ output' >= Floor
     /\ Remember(e)
     /\ UNCHANGED gain

(* reset; it makes the past finite again.                                  *)
Reset ==
  /\ prev' = 0
  /\ prev2' = 0
  /\ output' = 0
  /\ lost' = FALSE
  /\ UNCHANGED gain

SetPID(g) ==
  /\ gain' = g
  /\ UNCHANGED <<prev, prev2, output, lost>>

PIDInit ==
  /\ gain = DefaultGain
  /\ prev = 0
  /\ prev2 = 0
  /\ output = 0
  /\ lost = FALSE

PIDNext ==
  \/ \E s \in Setpoints, m \in Readings \cup {Infinite} : Calculate(s, m)
  \/ Reset
  \/ \E g \in Gains : SetPID(g)

PIDTypeOK ==
  /\ gain \in [kp : Nat, ki : Nat, kd : Nat]
  /\ prev \in Int \cup {Infinite}
  /\ prev2 \in Int \cup {Infinite}
  /\ output \in Int
  /\ output <= OutputCap
  /\ lost \in BOOLEAN
=============================================================================
