--------------------------- MODULE PeriodicTimer ---------------------------
(***************************************************************************)
(* zf_driver_pit.cpp: timers made by pit_ms_init or as objects, each with  *)
(* a thread that sleeps, tests `running` and calls the callback.  The      *)
(* pointer g_pit_timer is overwritten by the next pit_ms_init.             *)
(* A definition X_Y is a wrong form of X, used to show that a property     *)
(* depends on X.                                                           *)
(***************************************************************************)
EXTENDS Integers

CONSTANTS Timers, NoTimer

VARIABLES
  thread,      \* where each timer's thread is: "none" before and after it runs
  running,     \* the timer's flag
  object,      \* the timer's object: "none", "alive", "stopping" in its destructor, "gone"
  g_pit_timer,
  lost         \* timers nobody has a pointer to any more

vars == <<thread, running, object, g_pit_timer, lost>>

(* The constructor: the flag is set before the thread begins.              *)
Construct_FlagLater(t) ==
  /\ object[t] = "none"
  /\ object' = [object EXCEPT ![t] = "alive"]
  /\ thread' = [thread EXCEPT ![t] = "test"]
  /\ UNCHANGED running

Construct(t) ==
  /\ object[t] = "none"
  /\ object' = [object EXCEPT ![t] = "alive"]
  /\ running' = [running EXCEPT ![t] = TRUE]
  /\ thread' = [thread EXCEPT ![t] = "test"]

New == \E t \in Timers : Construct(t) /\ UNCHANGED <<g_pit_timer, lost>>
PitMsInit ==
  \E t \in Timers :
    /\ Construct(t)
    /\ g_pit_timer' = t
    /\ lost' = lost \cup {u \in Timers : u = g_pit_timer /\ object[u] = "alive"}

(* timerLoop.                                                              *)
LoopTest(t) ==
  /\ thread[t] = "test"
  /\ thread' = [thread EXCEPT ![t] = IF running[t] THEN "sleep" ELSE "none"]
  /\ UNCHANGED <<running, object, g_pit_timer, lost>>

Wake(t) ==
  /\ thread[t] = "sleep"
  /\ thread' = [thread EXCEPT ![t] = "woken"]
  /\ UNCHANGED <<running, object, g_pit_timer, lost>>

SecondTest(t) ==
  /\ thread[t] = "woken"
  /\ thread' = [thread EXCEPT ![t] = IF running[t] THEN "callback" ELSE "test"]
  /\ UNCHANGED <<running, object, g_pit_timer, lost>>

CallbackReturns(t) ==
  /\ thread[t] = "callback"
  /\ thread' = [thread EXCEPT ![t] = "test"]
  /\ UNCHANGED <<running, object, g_pit_timer, lost>>

Loop(t) == LoopTest(t) \/ Wake(t) \/ SecondTest(t) \/ CallbackReturns(t)

(* The destructor clears the flag, then waits for the thread.              *)
Stop_FlagKept(t) ==
  /\ object[t] = "alive"
  /\ t \notin lost
  /\ object' = [object EXCEPT ![t] = "stopping"]
  /\ UNCHANGED <<thread, running, g_pit_timer, lost>>

Stop(t) ==
  /\ object[t] = "alive"
  /\ t \notin lost
  /\ object' = [object EXCEPT ![t] = "stopping"]
  /\ running' = [running EXCEPT ![t] = FALSE]
  /\ UNCHANGED <<thread, g_pit_timer, lost>>

Joined_AtOnce(t) ==
  /\ object[t] = "stopping"
  /\ object' = [object EXCEPT ![t] = "gone"]
  /\ UNCHANGED <<thread, running, g_pit_timer, lost>>

Joined(t) ==
  /\ object[t] = "stopping"
  /\ thread[t] = "none"
  /\ object' = [object EXCEPT ![t] = "gone"]
  /\ UNCHANGED <<thread, running, g_pit_timer, lost>>

Init ==
  /\ thread = [t \in Timers |-> "none"]
  /\ running = [t \in Timers |-> FALSE]
  /\ object = [t \in Timers |-> "none"]
  /\ g_pit_timer = NoTimer
  /\ lost = {}

Next == New \/ PitMsInit \/ \E t \in Timers : Loop(t) \/ Stop(t) \/ Joined(t)

(* The threads run on and callbacks return; the destructor goes on when    *)
(* the thread it waits for has ended.                                      *)
Fairness == \A t \in Timers : WF_vars(Loop(t) \/ Joined(t))

Spec == Init /\ [][Next]_vars /\ Fairness

-----------------------------------------------------------------------------
(* Once a timer's destructor has returned, its thread has ended: it runs   *)
(* no callback and touches the freed object no more.                       *)
NoCallAfterEnd == \A t \in Timers : object[t] = "gone" => thread[t] = "none"

(* Destructors return, wherever the threads were when they began.          *)
DestructorReturns == (\E t \in Timers : object[t] = "stopping") ~> (\A t \in Timers : object[t] # "stopping")

(* A timer keeps calling until it is stopped: one that a later pit_ms_init *)
(* has replaced can be stopped by nobody, and calls for ever.              *)
KeepsCalling ==
  \A t \in Timers : object[t] = "alive" ~> (thread[t] = "callback" \/ object[t] # "alive")
=============================================================================
