------------------------ MODULE CourseElements_proofs ------------------------
(***************************************************************************)
(* Proofs about CourseElements for any period of timeStamp and any times.  *)
(***************************************************************************)
EXTENDS CourseElements, TLAPS

Numbers ==
  /\ TimeMod \in Nat /\ 1 < TimeMod
  /\ CrossDead \in Nat /\ CrossDead <= TimeMod
  /\ ZebraHold \in Nat /\ FrameTicks \in Nat
  /\ CrossHold \in Nat /\ BarrierHold \in Nat /\ BeginReset \in Nat

(* The assumption, as numbers.                                             *)
LEMMA Constants == Numbers
  BY CourseAssumption DEF Numbers

(* One tick of the clock, which wraps, against one tick of an age.         *)
LEMMA TickWraps ==
  ASSUME NEW t \in 0 .. TimeMod - 1, NEW c \in 0 .. TimeMod - 1, NEW age \in Nat,
         age + 1 < TimeMod, (t - c + TimeMod) % TimeMod = age
  PROVE  (((t + 1) % TimeMod) - c + TimeMod) % TimeMod = age + 1
  <1> USE Constants DEF Numbers
  <1>1. CASE t >= c
    <2>1. age = t - c
      BY <1>1
    <2>2. CASE t + 1 < TimeMod
      <3>1. (t + 1) % TimeMod = t + 1
        BY <2>2
      <3>2. (t + 1 - c + TimeMod) % TimeMod = t + 1 - c
        BY <1>1, <2>1
      <3>3. QED
        BY <2>1, <3>1, <3>2
    <2>3. CASE t + 1 = TimeMod
      <3>1. (t + 1) % TimeMod = 0
        BY <2>3
      <3>2. (0 - c + TimeMod) % TimeMod = TimeMod - c
        BY <2>1, <2>3
      <3>3. QED
        BY <2>1, <2>3, <3>1, <3>2
    <2>4. QED
      BY <2>2, <2>3
  <1>2. CASE t < c
    <2>1. age = t - c + TimeMod
      BY <1>2
    <2>2. (t + 1) % TimeMod = t + 1
      BY <1>2
    <2>3. (t + 1 - c + TimeMod) % TimeMod = t + 1 - c + TimeMod
      BY <2>1
    <2>4. QED
      BY <2>1, <2>2, <2>3
  <1>3. QED
    BY <1>1, <1>2

(* The next stamp is one, and no later than one tick on.                   *)
LEMMA NextStampRange ==
  ASSUME NEW t \in 0 .. TimeMod - 1
  PROVE  (t + 1) % TimeMod \in 0 .. TimeMod - 1 /\ (t + 1) % TimeMod <= t + 1
  BY Constants DEF Numbers

(* A tick makes the stamps and the ages older alike.                       *)
LEMMA TickStep ==
  ASSUME IInv, Tick
  PROVE  IInv'
  <1> USE DEF IInv
  <1>1. /\ timeStamp \in 0 .. TimeMod - 1 /\ time_cross \in 0 .. TimeMod - 1
        /\ time_begin \in 0 .. TimeMod - 1 /\ time_barrier \in 0 .. TimeMod - 1
        /\ crossAge \in 0 .. CrossDead /\ stopAge \in 0 .. ZebraHold
        /\ frameAge \in 0 .. FrameTicks
    BY DEF TypeOK
  <1>2. /\ UNCHANGED <<time_cross, time_begin, time_barrier, cross_type, cross_easy, zebra_type,
                       zbr_flag, barrier_type, beef, phase>>
        /\ timeStamp' = (timeStamp + 1) % TimeMod
        /\ frameAge' = frameAge + 1 /\ frameAge < FrameTicks
        /\ crossAge' = (IF crossAge < CrossDead THEN crossAge + 1 ELSE CrossDead)
        /\ stopAge' = (IF stopAge < ZebraHold THEN stopAge + 1 ELSE ZebraHold)
    BY DEF Tick, NextStamp, Older, cross, zebra, barrier
  <1>3. timeStamp' \in 0 .. TimeMod - 1 /\ timeStamp' <= timeStamp + 1
    BY <1>1, <1>2, NextStampRange
  <1>4. crossAge' \in 0 .. CrossDead /\ stopAge' \in 0 .. ZebraHold /\ frameAge' \in 0 .. FrameTicks
    BY <1>1, <1>2, Constants DEF Numbers
  <1>5. TypeOK'
    BY <1>1, <1>2, <1>3, <1>4 DEF TypeOK
  <1>6. OneElement' /\ BeefOnlyAtBarrier' /\ ZebraOnce'
    BY <1>2 DEF OneElement, BeefOnlyAtBarrier, ZebraOnce
  <1>7. ASSUME crossAge' < CrossDead
        PROVE  (timeStamp' - time_cross' + TimeMod) % TimeMod = crossAge'
    <2>1. crossAge < CrossDead /\ crossAge' = crossAge + 1 /\ crossAge + 1 < TimeMod
      BY <1>1, <1>2, <1>7, Constants DEF Numbers
    <2>2. (timeStamp - time_cross + TimeMod) % TimeMod = crossAge
      BY <2>1 DEF StampsAgree
    <2>3. crossAge \in Nat
      BY <1>1, Constants DEF Numbers
    <2>4. (((timeStamp + 1) % TimeMod) - time_cross + TimeMod) % TimeMod = crossAge + 1
      BY <1>1, <2>1, <2>2, <2>3, TickWraps
    <2>5. QED
      BY <1>2, <2>1, <2>4
  <1>8. ASSUME time_begin' # 0, stopAge' < ZebraHold
        PROVE  timeStamp' - time_begin' <= stopAge'
    <2>1. stopAge < ZebraHold /\ stopAge' = stopAge + 1
      BY <1>1, <1>2, <1>8, Constants DEF Numbers
    <2>2. timeStamp - time_begin <= stopAge
      BY <1>2, <1>8, <2>1 DEF StampsAgree
    <2>3. QED
      BY <1>1, <1>2, <1>3, <2>1, <2>2
  <1>9. QED
    BY <1>5, <1>6, <1>7, <1>8 DEF StampsAgree

(* A judgement begins one element at most.                                 *)
LEMMA JudgeStep ==
  ASSUME IInv, NEW l \in BOOLEAN, NEW r \in BOOLEAN, NEW short \in BOOLEAN,
         NEW pattern \in BOOLEAN, NEW white \in BOOLEAN,
         ElementJudge(l, r, short, pattern, white)
  PROVE  IInv'
  <1> USE DEF IInv
  <1>1. /\ UNCHANGED <<timeStamp, cross_easy, time_cross, beef, frameAge, crossAge, stopAge>>
        /\ phase' = "run"
    BY DEF ElementJudge, ages
  <1>2. /\ time_begin' \in {0, time_begin}
        /\ time_barrier' \in {timeStamp, time_barrier}
        /\ zbr_flag' \in {0, zbr_flag}
    BY DEF ElementJudge, BarrierSeen
  <1>3. StampsAgree'
    BY <1>1, <1>2 DEF StampsAgree
  <1>4. CASE barrier_type = None /\ white
    <2>1. barrier_type' = Running /\ cross_type' = None /\ zebra_type' = None
      BY <1>4 DEF ElementJudge, BarrierSeen
    <2>2. TypeOK'
      BY <1>1, <1>2, <2>1, Constants DEF TypeOK, Numbers
    <2>3. QED
      BY <1>3, <2>1, <2>2 DEF OneElement, BeefOnlyAtBarrier, ZebraOnce
  <1>5. CASE barrier_type = None /\ ~white
    <2>1. /\ cross_type' = CheckedCross(l, r, short)
          /\ zebra_type' = CrossWins(cross_type',
               IF cross_type' = None THEN CheckedZebra(pattern) ELSE zebra_type)
          /\ UNCHANGED <<barrier_type, time_barrier, zbr_flag>>
      BY <1>5 DEF ElementJudge
    <2>2. cross_type' \in {"BEGIN", cross_type}
      BY <2>1 DEF CheckedCross
    <2>3. /\ zebra_type' \in {None, Running}
          /\ cross_type' # None => zebra_type' = None
          /\ zbr_flag' = 1 => zebra_type' = None
      BY <2>1 DEF CrossWins, CheckedZebra, ZebraWanted, TypeOK, ZebraOnce
    <2>4. TypeOK'
      BY <1>1, <1>2, <2>1, <2>2, <2>3, Constants DEF TypeOK, Numbers
    <2>5. QED
      BY <1>1, <1>3, <1>5, <2>1, <2>3, <2>4
      DEF OneElement, BeefOnlyAtBarrier, ZebraOnce, None, Running
  <1>6. CASE barrier_type # None
    <2>1. /\ UNCHANGED <<cross_type, zbr_flag, time_begin, barrier_type, time_barrier>>
          /\ zebra_type' \in {None, zebra_type}
      BY <1>6 DEF ElementJudge, CrossWins
    <2>2. TypeOK'
      BY <1>1, <2>1 DEF TypeOK
    <2>3. QED
      BY <1>1, <1>3, <2>1, <2>2 DEF OneElement, BeefOnlyAtBarrier, ZebraOnce
  <1>7. QED
    BY <1>4, <1>5, <1>6

(* A run moves the one element that is under way.                          *)
LEMMA RunStep ==
  ASSUME IInv, ElementRun
  PROVE  IInv'
  <1> USE DEF IInv
  <1>1. UNCHANGED timeStamp /\ phase' = "judge" /\ frameAge' = 0
    BY DEF ElementRun
  <1>2. ASSUME NEW far \in BOOLEAN, RunBarrier(far) PROVE IInv'
    <2>1. /\ UNCHANGED <<cross_type, cross_easy, time_cross, zebra_type, zbr_flag, time_begin,
                         time_barrier, crossAge, stopAge>>
          /\ barrier_type # None
          /\ \/ beef' \in {1, beef} /\ barrier_type' = barrier_type
             \/ barrier_type' = None /\ beef' = 0
      BY <1>2 DEF RunBarrier, BarrierDone, cross, zebra
    <2>2. TypeOK'
      BY <1>1, <2>1, Constants DEF TypeOK, Numbers
    <2>3. StampsAgree'
      BY <1>1, <2>1 DEF StampsAgree
    <2>4. OneElement' /\ BeefOnlyAtBarrier' /\ ZebraOnce'
      BY <2>1 DEF OneElement, BeefOnlyAtBarrier, ZebraOnce, TypeOK
    <2>5. QED
      BY <2>2, <2>3, <2>4
  <1>3. ASSUME NEW near \in BOOLEAN, NEW long \in BOOLEAN, RunCross(near, long) PROVE IInv'
    <2>1. /\ UNCHANGED <<zebra_type, zbr_flag, time_begin, barrier_type, time_barrier, beef, stopAge>>
          /\ barrier_type = None /\ cross_type # None
          /\ cross_type' \in {None, "IN", cross_type}
          /\ cross_easy' \in {cross_easy, 1 - cross_easy}
          /\ \/ time_cross' = timeStamp /\ crossAge' = 0
             \/ UNCHANGED <<time_cross, crossAge>>
      BY <1>3 DEF RunCross, EnteredAt, zebra, barrier
    <2>2. TypeOK'
      <3>1. cross_easy' \in 0 .. 1
        BY <2>1 DEF TypeOK
      <3>2. {timeStamp', time_cross', time_begin', time_barrier'} \subseteq 0 .. TimeMod - 1
        BY <1>1, <2>1 DEF TypeOK
      <3>3. crossAge' \in 0 .. CrossDead /\ frameAge' \in 0 .. FrameTicks
        BY <1>1, <2>1, Constants DEF TypeOK, Numbers
      <3>4. QED
        BY <1>1, <2>1, <3>1, <3>2, <3>3 DEF TypeOK
    <2>3. OneElement' /\ BeefOnlyAtBarrier' /\ ZebraOnce'
      BY <2>1 DEF OneElement, BeefOnlyAtBarrier, ZebraOnce
    <2>4. StampsAgree'
      <3>1. (timeStamp - timeStamp + TimeMod) % TimeMod = 0
        BY Constants DEF TypeOK, Numbers
      <3>2. QED
        BY <1>1, <2>1, <3>1 DEF StampsAgree
    <2>5. QED
      BY <2>2, <2>3, <2>4
  <1>4. ASSUME RunZebra PROVE IInv'
    <2>1. /\ UNCHANGED <<cross_type, cross_easy, time_cross, barrier_type, time_barrier, beef, crossAge>>
          /\ barrier_type = None /\ cross_type = None
          /\ \/ UNCHANGED <<zbr_flag, zebra_type>>
             \/ zbr_flag' = 1 /\ zebra_type' = None
          /\ \/ stopAge' = 0 /\ time_begin' \in {0, timeStamp}
             \/ stopAge' = stopAge /\ time_begin' \in {0, time_begin}
      BY <1>4 DEF RunZebra, cross, barrier
    <2>2. TypeOK'
      BY <1>1, <2>1, Constants DEF TypeOK, Numbers
    <2>3. OneElement' /\ BeefOnlyAtBarrier' /\ ZebraOnce'
      BY <2>1 DEF OneElement, BeefOnlyAtBarrier, ZebraOnce
    <2>4. StampsAgree'
      BY <1>1, <2>1 DEF StampsAgree, TypeOK
    <2>5. QED
      BY <2>2, <2>3, <2>4
  <1>5. ASSUME Idle PROVE IInv'
    <2>1. UNCHANGED <<cross_type, cross_easy, time_cross, zebra_type, zbr_flag, time_begin,
                      barrier_type, time_barrier, beef, crossAge, stopAge>>
      BY <1>5 DEF Idle, cross, zebra, barrier
    <2>2. TypeOK'
      BY <1>1, <2>1, Constants DEF TypeOK, Numbers
    <2>3. QED
      BY <1>1, <2>1, <2>2 DEF OneElement, BeefOnlyAtBarrier, ZebraOnce, StampsAgree
  <1>6. QED
    BY <1>2, <1>3, <1>4, <1>5 DEF ElementRun

(* The inductive invariant, for any period of timeStamp and any times.     *)
THEOREM Inductive == Spec => []IInv
  <1>1. Init => IInv
    BY Constants DEF Init, Numbers, IInv, TypeOK, OneElement, BeefOnlyAtBarrier, ZebraOnce,
                     StampsAgree, None, Running
  <1>2. IInv /\ [Next]_vars => IInv'
    <2> SUFFICES ASSUME IInv, [Next]_vars PROVE IInv'
      OBVIOUS
    <2>1. CASE Tick
      BY <2>1, TickStep
    <2>2. CASE Judge
      BY <2>2, JudgeStep DEF Judge
    <2>3. CASE ElementRun
      BY <2>3, RunStep
    <2>4. CASE UNCHANGED vars
      BY <2>4 DEF vars, cross, zebra, barrier, ages, IInv, TypeOK, OneElement,
                  BeefOnlyAtBarrier, ZebraOnce, StampsAgree
    <2>5. QED
      BY <2>1, <2>2, <2>3, <2>4 DEF Next
  <1>3. QED
    BY <1>1, <1>2, PTL DEF Spec

(* At most one course element is under way.                                *)
THEOREM ElementsExclude == Spec => []OneElement
  <1>1. IInv => OneElement
    BY DEF IInv
  <1>2. QED
    BY <1>1, Inductive, PTL

(* Full braking follows a barrier and a completed stop no zebra crossing.  *)
THEOREM FlagsTheorem == Spec => []FlagsFollow
  <1>1. IInv => FlagsFollow
    BY DEF IInv, FlagsFollow
  <1>2. QED
    BY <1>1, Inductive, PTL

(* The stamps tell the time that has passed, across every wrap.            *)
THEOREM StampsTheorem == Spec => []StampsAgree
  <1>1. IInv => StampsAgree
    BY DEF IInv
  <1>2. QED
    BY <1>1, Inductive, PTL

(* Across every wrap of timeStamp no crossing is judged in the dead time.  *)
THEOREM DeadTime == Spec => CrossDeadTime
  <1>1. IInv /\ [Next]_vars => [cross_type = None /\ cross_type' = "BEGIN" => crossAge = CrossDead]_vars
    <2> SUFFICES ASSUME IInv, Next, cross_type = None, cross_type' = "BEGIN"
                 PROVE  crossAge = CrossDead
      OBVIOUS
    <2>1. ~Tick
      BY DEF Tick, cross, None
    <2>2. ~ElementRun
      <3>1. ~ \E far \in BOOLEAN : RunBarrier(far)
        BY DEF RunBarrier, cross, None
      <3>2. ~ \E near \in BOOLEAN, long \in BOOLEAN : RunCross(near, long)
        BY DEF RunCross
      <3>3. ~RunZebra /\ ~Idle
        BY DEF RunZebra, Idle, cross, None
      <3>4. QED
        BY <3>1, <3>2, <3>3 DEF ElementRun
    <2>3. PICK l \in BOOLEAN, r \in BOOLEAN, short \in BOOLEAN, pattern \in BOOLEAN, white \in BOOLEAN :
            ElementJudge(l, r, short, pattern, white)
      BY <2>1, <2>2 DEF Next, Judge
    <2>4. CrossSeen(l, r, short)
      BY <2>3 DEF ElementJudge, BarrierSeen, CheckedCross, None
    <2>5. (timeStamp - time_cross + TimeMod) % TimeMod >= CrossDead
      BY <2>4 DEF CrossSeen, DeadTimeOver
    <2>6. crossAge \in 0 .. CrossDead
      BY DEF IInv, TypeOK
    <2>7. QED
      BY <2>5, <2>6, Constants DEF IInv, StampsAgree, Numbers
  <1>2. QED
    BY <1>1, Inductive, PTL DEF Spec, CrossDeadTime

(* A zebra stop is over no earlier than its time after the wheels stopped. *)
THEOREM StopTime == Spec => StopLasts
  <1>1. IInv /\ [Next]_vars => [zbr_flag = 0 /\ zbr_flag' = 1 => stopAge = ZebraHold]_vars
    <2> SUFFICES ASSUME IInv, Next, zbr_flag = 0, zbr_flag' = 1
                 PROVE  stopAge = ZebraHold
      OBVIOUS
    <2>1. ~Tick
      BY DEF Tick, zebra
    <2>2. ~Judge
      BY DEF Judge, ElementJudge, BarrierSeen
    <2>3. RunZebra
      <3>1. ~ \E far \in BOOLEAN : RunBarrier(far)
        BY DEF RunBarrier, zebra
      <3>2. ~ \E near \in BOOLEAN, long \in BOOLEAN : RunCross(near, long)
        BY DEF RunCross, zebra
      <3>3. ~Idle
        BY DEF Idle, zebra
      <3>4. QED
        BY <2>1, <2>2, <3>1, <3>2, <3>3 DEF Next, ElementRun
    <2>4. StopOver(IF time_begin = 0 THEN timeStamp ELSE time_begin)
      BY <2>3 DEF RunZebra
    <2>5. timeStamp \in Int /\ time_begin \in Int /\ stopAge \in 0 .. ZebraHold
      BY DEF IInv, TypeOK
    <2>6. CASE ZebraHold = 0
      BY <2>5, <2>6
    <2>7. CASE ZebraHold # 0
      <3>1. time_begin # 0 /\ timeStamp - time_begin >= ZebraHold
        BY <2>4, <2>5, <2>7, Constants DEF StopOver, Numbers
      <3>2. QED
        BY <2>5, <3>1, Constants DEF IInv, StampsAgree, Numbers
    <2>8. QED
      BY <2>6, <2>7
  <1>2. QED
    BY <1>1, Inductive, PTL DEF Spec, StopLasts
=============================================================================
