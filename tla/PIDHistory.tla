----------------------------- MODULE PIDHistory -----------------------------
(***************************************************************************)
(* IncrementalPID with a record of its calls, to state what the increments *)
(* add up to.  base and sum start anew at every call that left the linear  *)
(* form: one that was limited, kicked or broken, a reset, new gains.       *)
(***************************************************************************)
EXTENDS IncrementalPID

VARIABLES
  base,  \* the constant of the linear form
  sum    \* the sum of the errors since

historyVars == <<pid, base, sum>>

(* The proportional and differential part of the positional form.          *)
Memoryless(g, e, e1) == g.kp * e + g.kd * (e - e1)

Linear(s, m) ==
  /\ m # Infinite
  /\ FinitePast
  /\ ~lost
  /\ ~Kicks(m)
  /\ Delta(s - m) <= DeltaCap
  /\ output + Delta(s - m) <= OutputCap

Restart ==
  /\ base' = IF FinitePast' THEN output' - Memoryless(gain', prev', prev2') ELSE 0
  /\ sum' = 0

HistoryInit == PIDInit /\ base = 0 /\ sum = 0

Calls(s, m) ==
  /\ Calculate(s, m)
  /\ IF Linear(s, m) THEN sum' = sum + (s - m) /\ UNCHANGED base ELSE Restart

HistoryNext ==
  \/ \E s \in Setpoints, m \in Readings \cup {Infinite} : Calls(s, m)
  \/ Reset /\ Restart
  \/ \E g \in Gains : SetPID(g) /\ Restart

HistorySpec == HistoryInit /\ [][HistoryNext]_historyVars

-----------------------------------------------------------------------------
(* Type invariant of the controller and its record.                        *)
HistoryTypeOK == PIDTypeOK /\ base \in Int /\ sum \in Int

(* Between two limits, the increments of calculate add up to a positional  *)
(* controller with the same gains: what it outputs depends on the last two *)
(* errors and the sum of all of them, not on their order.                  *)
PositionalForm ==
  ~lost /\ FinitePast
    => output = base + gain.ki * sum + Memoryless(gain, prev, prev2)
=============================================================================
