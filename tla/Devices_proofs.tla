--------------------------- MODULE Devices_proofs ---------------------------
(***************************************************************************)
(* Proofs about the controller of a wheel and its loop, for any gains,     *)
(* setpoints, files and readings; and about the registers, for any         *)
(* channels, motors, encoders and programs.                                *)
(***************************************************************************)
EXTENDS PIDHistory, SpeedLoop, Registers, SequenceTheorems, TLAPS

GainRecord == [kp : Nat, ki : Nat, kd : Nat]

(* The algebra of the positional form: an increment is the difference of   *)
(* two positions.                                                          *)
LEMMA Telescope ==
  ASSUME NEW kp \in Int, NEW ki \in Int, NEW kd \in Int,
         NEW b \in Int, NEW s \in Int, NEW e \in Int, NEW e1 \in Int, NEW e2 \in Int
  PROVE  b + ki * s + (kp * e1 + kd * (e1 - e2))
           + (kp * (e - e1) + ki * e + kd * (e - 2 * e1 + e2))
         = b + ki * (s + e) + (kp * e + kd * (e - e1))
  <1>1. kp * e1 + kp * (e - e1) = kp * e
    OBVIOUS
  <1>2. ki * s + ki * e = ki * (s + e)
    OBVIOUS
  <1>3. kd * (e1 - e2) + kd * (e - 2 * e1 + e2) = kd * (e - e1)
    OBVIOUS
  <1>4. QED
    BY <1>1, <1>2, <1>3

(* An increment is a whole number of units.                                *)
LEMMA DeltaInt ==
  ASSUME PIDTypeOK, FinitePast, NEW e \in Int
  PROVE  Delta(e) \in Int
  BY DEF PIDTypeOK, FinitePast, Delta

(* And so is the part of it that comes from one reading.                   *)
LEMMA MemorylessInt ==
  ASSUME NEW g \in GainRecord, NEW e \in Int, NEW e1 \in Int
  PROVE  Memoryless(g, e, e1) \in Int
  BY DEF GainRecord, Memoryless

(* The constants of a call.                                                *)
LEMMA Caps == DeltaCap \in Int /\ OutputCap \in Int /\ Kick \in Int /\ Kick <= OutputCap /\ 0 <= OutputCap
  BY PIDAssumption DEF DeltaCap, OutputCap, Kick

(* The fields before the first call.                                       *)
LEMMA PIDBegins == PIDInit => PIDTypeOK
  <1> SUFFICES ASSUME PIDInit PROVE PIDTypeOK
    OBVIOUS
  <1>1. lost \in BOOLEAN
    BY Zenon DEF PIDInit
  <1>2. gain \in [kp : Nat, ki : Nat, kd : Nat] /\ prev \in Int /\ prev2 \in Int /\ output \in Int
    BY DEF PIDInit, DefaultGain
  <1>3. output <= OutputCap
    BY Caps DEF PIDInit
  <1>4. QED
    BY <1>1, <1>2, <1>3 DEF PIDTypeOK

(* What a call does to the fields.                                         *)
LEMMA CalculateTyped ==
  ASSUME PIDTypeOK, NEW s \in Setpoints, NEW m \in Readings \cup {Infinite}, Calculate(s, m)
  PROVE  PIDTypeOK'
  <1> DEFINE e == IF m = Infinite THEN Infinite ELSE s - m
  <1>1. e \in Int \cup {Infinite} /\ (e # Infinite => e \in Int)
    BY PIDAssumption
  <1>2. gain' = gain /\ prev2' = prev /\ prev' = e
    BY DEF Calculate, Remember
  <1>3. output' \in Int /\ output' <= OutputCap
    <2>1. \A x \in Int : LimitedOutput(x) \in Int /\ LimitedOutput(x) <= OutputCap
      BY Caps DEF LimitedOutput
    <2>2. e # Infinite => output + Increment(e) \in Int
      <3>1. ASSUME e # Infinite, FinitePast PROVE Delta(e) \in Int
        BY <1>1, <3>1, DeltaInt
      <3>2. QED
        BY <3>1, Caps DEF Increment, LimitedDelta, PIDTypeOK
    <2>3. \/ output' = LimitedOutput(Kick)
          \/ output' = 0
          \/ e # Infinite /\ output' = LimitedOutput(output + Increment(e))
      BY DEF Calculate, FiniteDelta
    <2>4. QED
      BY <2>1, <2>2, <2>3, Caps
  <1>4. lost' \in BOOLEAN
    BY Zenon DEF Calculate
  <1>5. QED
    BY <1>1, <1>2, <1>3, <1>4 DEF PIDTypeOK

(* A sum that starts again is typed.                                       *)
LEMMA RestartTyped ==
  ASSUME PIDTypeOK', Restart
  PROVE  HistoryTypeOK' /\ PositionalForm'
  <1>1. gain' \in GainRecord /\ output' \in Int
    BY DEF PIDTypeOK, GainRecord
  <1>2. CASE ~FinitePast'
    BY <1>2 DEF Restart, HistoryTypeOK, PositionalForm
  <1>3. CASE FinitePast'
    <2>1. prev' \in Int /\ prev2' \in Int
      BY <1>3 DEF PIDTypeOK, FinitePast
    <2>2. Memoryless(gain', prev', prev2') \in Int
      BY <1>1, <2>1, MemorylessInt, Zenon
    <2>3. \A x \in Int, y \in Int, k \in Int : x - y \in Int /\ x = x - y + k * 0 + y
      OBVIOUS
    <2>4. base' = output' - Memoryless(gain', prev', prev2') /\ sum' = 0
      BY <1>3 DEF Restart
    <2>5. base' \in Int /\ sum' \in Int
      BY <1>1, <2>2, <2>3, <2>4
    <2>6. output' = base' + gain'.ki * sum' + Memoryless(gain', prev', prev2')
      <3>1. gain'.ki \in Int
        BY <1>1 DEF GainRecord
      <3>2. QED
        BY <1>1, <2>2, <2>3, <2>4, <3>1
    <2>7. QED
      BY <2>5, <2>6 DEF HistoryTypeOK, PositionalForm
  <1>4. QED
    BY <1>2, <1>3

(* A call in the linear form moves the output to the next position.        *)
LEMMA LinearStep ==
  ASSUME HistoryTypeOK, PositionalForm, NEW s \in Setpoints, NEW m \in Readings \cup {Infinite},
         Calculate(s, m), Linear(s, m), sum' = sum + (s - m), base' = base
  PROVE  sum' \in Int /\ PositionalForm'
  <1> DEFINE e == s - m
  <1>1. m \in Readings /\ m # Infinite /\ e \in Int /\ e # Infinite
    BY PIDAssumption DEF Linear
  <1>2. /\ gain \in GainRecord /\ prev \in Int /\ prev2 \in Int /\ output \in Int
        /\ base \in Int /\ sum \in Int
    BY DEF HistoryTypeOK, PIDTypeOK, GainRecord, Linear, FinitePast
  <1>3. gain.kp \in Int /\ gain.ki \in Int /\ gain.kd \in Int
    BY <1>2 DEF GainRecord
  <1>4. gain' = gain /\ prev2' = prev /\ prev' = e
    BY <1>1 DEF Calculate, Remember
  <1>5. Delta(e) \in Int
    BY <1>1, DeltaInt DEF HistoryTypeOK, Linear
  <1>6. output' = LimitedOutput(output + LimitedDelta(e))
    BY <1>1 DEF Calculate, Linear, FiniteDelta, Increment
  <1>7. LimitedDelta(e) = Delta(e)
    BY <1>5, Caps DEF Linear, LimitedDelta
  <1>8. output' = output + Delta(e)
    BY <1>2, <1>5, <1>6, <1>7, Caps DEF Linear, LimitedOutput
  <1>9. output = base + gain.ki * sum + (gain.kp * prev + gain.kd * (prev - prev2))
    BY DEF PositionalForm, Linear, Memoryless
  <1>10. output' = base + gain.ki * (sum + e) + (gain.kp * e + gain.kd * (e - prev))
    BY <1>1, <1>2, <1>3, <1>8, <1>9, Telescope DEF Delta
  <1>11. output' = base' + gain'.ki * sum' + Memoryless(gain', prev', prev2')
    BY <1>4, <1>10 DEF Memoryless
  <1>12. QED
    BY <1>1, <1>2, <1>11 DEF PositionalForm

(* For any gains, resolution, setpoints and readings: the controller stays *)
(* typed and below its limit, and between two limits its increments add up *)
(* to the positional form.                                                 *)
THEOREM Positional == HistorySpec => [](HistoryTypeOK /\ PositionalForm)
  <1> DEFINE Inv == HistoryTypeOK /\ PositionalForm
  <1>1. HistoryInit => Inv
    <2> SUFFICES ASSUME HistoryInit PROVE Inv
      OBVIOUS
    <2>1. HistoryTypeOK
      BY PIDBegins DEF HistoryInit, HistoryTypeOK
    <2>2. PositionalForm
      <3>1. /\ output = 0 /\ base = 0 /\ sum = 0 /\ prev = 0 /\ prev2 = 0
            /\ gain.kp = 2 /\ gain.ki = 50 /\ gain.kd = 0
        BY DEF HistoryInit, PIDInit, DefaultGain
      <3>2. QED
        BY <3>1 DEF PositionalForm, Memoryless
    <2>3. QED
      BY <2>1, <2>2
  <1>2. Inv /\ [HistoryNext]_historyVars => Inv'
    <2> SUFFICES ASSUME HistoryTypeOK, PositionalForm, [HistoryNext]_historyVars PROVE Inv'
      OBVIOUS
    <2>1. ASSUME NEW s \in Setpoints, NEW m \in Readings \cup {Infinite}, Calls(s, m)
          PROVE  Inv'
      <3>1. Calculate(s, m) /\ PIDTypeOK'
        BY <2>1, CalculateTyped DEF Calls, HistoryTypeOK
      <3>2. CASE Linear(s, m)
        <4>1. sum' = sum + (s - m) /\ base' = base
          BY <2>1, <3>2 DEF Calls
        <4>2. sum' \in Int /\ PositionalForm'
          BY <3>1, <3>2, <4>1, LinearStep
        <4>3. QED
          BY <3>1, <4>1, <4>2 DEF HistoryTypeOK
      <3>3. CASE ~Linear(s, m)
        BY <2>1, <3>1, <3>3, RestartTyped DEF Calls
      <3>4. QED
        BY <3>2, <3>3
    <2>2. CASE Reset /\ Restart
      <3>1. PIDTypeOK'
        <4>1. lost' \in BOOLEAN
          BY <2>2, Zenon DEF Reset
        <4>2. /\ gain' \in [kp : Nat, ki : Nat, kd : Nat] /\ prev' \in Int /\ prev2' \in Int
              /\ output' \in Int
          BY <2>2 DEF Reset, HistoryTypeOK, PIDTypeOK
        <4>3. output' <= OutputCap
          BY <2>2, Caps DEF Reset
        <4>4. QED
          BY <4>1, <4>2, <4>3 DEF PIDTypeOK
      <3>2. QED
        BY <2>2, <3>1, RestartTyped
    <2>3. ASSUME NEW g \in Gains, SetPID(g), Restart PROVE Inv'
      <3>1. PIDTypeOK'
        BY <2>3, PIDAssumption DEF SetPID, HistoryTypeOK, PIDTypeOK
      <3>2. QED
        BY <2>3, <3>1, RestartTyped
    <2>4. CASE UNCHANGED historyVars
      <3>1. UNCHANGED <<gain, prev, prev2, output, lost, base, sum>>
        BY <2>4 DEF historyVars, pid
      <3>2. HistoryTypeOK'
        BY <3>1 DEF HistoryTypeOK, PIDTypeOK
      <3>3. PositionalForm'
        BY <3>1, Zenon DEF PositionalForm, Memoryless, FinitePast
      <3>4. QED
        BY <3>2, <3>3
    <2>5. QED
      BY <2>1, <2>2, <2>3, <2>4 DEF HistoryNext
  <1>3. QED
    BY <1>1, <1>2, PTL DEF HistorySpec
-----------------------------------------------------------------------------
(* The writes there are.                                                   *)
Writes ==
  [to : {"change"}, reg : BitRegs, clear : SUBSET Bits, set : SUBSET Bits]
    \cup [to : {"put"}, reg : BitRegs, set : SUBSET Bits]
    \cup [to : {"count"}, reg : CountRegs, n : Nat]
    \cup [to : {"pin"}, pin : PinFiles, v : {"in", "out"} \cup {0, 1}]
Callers == Channels \cup Encoders \cup {Motor, Nobody}
Askable == Channels \cup Encoders \cup {Motor}
Asked == [on : {"as it was", "yes", "no", "reset", "ahead", "back"}, duty : Nat]

RegsTypeOK ==
  /\ program \in Programs
  /\ bits \in [BitRegs -> SUBSET Bits]
  /\ count \in [CountRegs -> Nat]
  /\ pins = [p \in PinFiles |-> pins[p]]
  /\ made \subseteq program \cap (Channels \cup Encoders)
  /\ pending \in Seq(Writes)
  /\ caller \in Callers
  /\ asked \in [Askable -> Asked]

(* A write of a call stays within what the call may touch: its own bits,   *)
(* its own duty or what a whole timer has, the pins only for the motors.   *)
EncoderBits == {0, 5, 7, 8}
Mine(o, r) ==
  IF o \in Encoders THEN IF r = Control(o) THEN EncoderBits ELSE {}
  ELSE IF o \in Channels THEN ChannelBits(o, r)
  ELSE MotorBits(r)
Confined(w, o) ==
  /\ w.to = "change" => w.clear \cup w.set \subseteq Mine(o, w.reg)
  /\ w.to = "put" => \/ o \in Channels /\ w.reg \in WholeRegs(o)
                     \/ o \in Encoders /\ w.reg = Control(o) /\ w.set \subseteq EncoderBits
  /\ w.to = "count" =>
       \/ o \in Channels /\ w.reg \in {DutyReg(o), Reg(o, "arr", 0), Reg(o, "cnt", 0)}
       \/ o = Motor /\ w.reg \in {DutyReg(Left), DutyReg(Right)}
  /\ w.to = "pin" => o = Motor
AllConfined(s, o) == \A i \in 1 .. Len(s) : Confined(s[i], o)

(* Objects of different kinds are different objects.                       *)
LEMMA Kinds ==
  /\ \A o \in Channels : o \notin Encoders /\ o # Motor /\ o # Nobody
  /\ \A n \in Encoders : n # Motor /\ n # Nobody
  /\ Motor # Nobody
  BY RegistersAssumption DEF Motor, Nobody

(* Registers of different names are different registers.                   *)
LEMMA Names ==
  ASSUME NEW o \in Channels, NEW p \in Channels
  PROVE  /\ Mux(o) # ModeReg(p) /\ Mux(o) # Reg(p, "ccer", 0)
         /\ ModeReg(o) # Reg(p, "ccer", 0)
         /\ \A name \in {"egr", "cr1", "bdtr"} :
              /\ Mux(o) # Reg(p, name, 0) /\ ModeReg(o) # Reg(p, name, 0)
              /\ Reg(o, "ccer", 0) # Reg(p, name, 0)
         /\ \A name \in {"arr", "cnt"} : DutyReg(o) # Reg(p, name, 0)
  BY RegistersAssumption DEF Mux, ModeReg, Reg, DutyReg

(* The registers of an object are among the registers.                     *)
LEMMA Places ==
  ASSUME NEW o \in Channels
  PROVE  /\ {Mux(o), ModeReg(o), Reg(o, "ccer", 0)} \cup WholeRegs(o) \subseteq BitRegs
         /\ {DutyReg(o), Reg(o, "arr", 0), Reg(o, "cnt", 0)} \subseteq CountRegs
<1>1. o.ch \div 2 \in 0 .. 1 /\ o.ch \in 0 .. 3 /\ o.timer \in Timers
  BY RegistersAssumption DEF Timers
<1>2. Mux(o) \in BitRegs
  BY DEF BitRegs
<1>3. ModeReg(o) \in BitRegs
  BY <1>1 DEF BitRegs, ModeReg, Reg
<1>4. Reg(o, "ccer", 0) \in BitRegs /\ WholeRegs(o) \subseteq BitRegs
  BY <1>1 DEF BitRegs, WholeRegs, Reg
<1>5. {DutyReg(o), Reg(o, "arr", 0), Reg(o, "cnt", 0)} \subseteq CountRegs
  BY <1>1 DEF CountRegs, DutyReg, Reg
<1> QED
  BY <1>2, <1>3, <1>4, <1>5

(* Where the bits of a channel are.                                        *)
LEMMA Fields ==
  ASSUME NEW o \in Channels
  PROVE  /\ PinField(o) \subseteq Bits /\ PinFunction(o) \subseteq PinField(o)
         /\ ModeField(o) \subseteq Bits
         /\ PolarityBit(o) \in Bits /\ EnableBit(o) \in Bits
         /\ EnableBit(o) = o.ch * 4 + o.neg * 2
         /\ PolarityBit(o) = o.ch * 4 + 1 + o.neg * 2
<1>1. o.pin \in Nat /\ o.mux \subseteq {0, 1} /\ o.ch \in 0 .. 3 /\ o.neg \in {0, 1}
  BY RegistersAssumption
<1>2. PinField(o) \subseteq Bits /\ PinFunction(o) \subseteq PinField(o)
  <2>1. o.pin % 16 \in 0 .. 15
    BY <1>1
  <2> QED
    BY <1>1, <2>1 DEF PinField, PinFunction, Bits
<1>3. ModeField(o) \subseteq Bits
  <2>1. o.ch % 2 \in {0, 1}
    BY <1>1
  <2> QED
    BY <2>1 DEF ModeField, Bits
<1> QED
  BY <1>1, <1>2, <1>3 DEF PolarityBit, EnableBit, Bits

(* A constructor's writes, one after the other.                            *)
FirstWrites(o) ==
  <<MuxWrite(o), Put(Reg(o, "egr", 0), {0}), Put(Reg(o, "cr1", 0), {0}),
    Change(ModeReg(o), ModeField(o), {}), Change(ModeReg(o), {}, ModeField(o)),
    Change(Reg(o, "ccer", 0), {PolarityBit(o)}, {}),
    Change(Reg(o, "ccer", 0), {}, {PolarityBit(o)}),
    Count(Reg(o, "arr", 0), o.period), Count(DutyReg(o), o.duty)>>
LastWrites(o) ==
  IF o.timer = "atim" THEN <<Put(Reg(o, "bdtr", 0), {15}), Count(Reg(o, "cnt", 0), 0)>>
  ELSE <<Count(Reg(o, "cnt", 0), 0)>>

(* Each single write is one of Writes and stays within its channel.        *)
LEMMA SetUpParts ==
  ASSUME NEW o \in Channels
  PROVE  /\ FirstWrites(o) \in Seq(Writes) /\ Len(FirstWrites(o)) = 9
         /\ LastWrites(o) \in Seq(Writes) /\ Len(LastWrites(o)) \in {1, 2}
         /\ AllConfined(FirstWrites(o), o) /\ AllConfined(LastWrites(o), o)
<1>1. /\ o \notin Encoders /\ o.period \in Nat /\ o.duty \in Nat
  BY Kinds, RegistersAssumption
<1>2. /\ MuxWrite(o) \in Writes /\ Confined(MuxWrite(o), o)
  <2>1. Mux(o) \in BitRegs /\ PinField(o) \subseteq Bits /\ PinFunction(o) \subseteq PinField(o)
    BY Places, Fields
  <2>2. PinField(o) \subseteq ChannelBits(o, Mux(o))
    BY <2>1 DEF ChannelBits
  <2> QED
    BY <1>1, <2>1, <2>2 DEF MuxWrite, Change, Writes, Confined, Mine
<1>3. \A name \in {"egr", "cr1", "bdtr"}, b \in {0, 15} :
        Put(Reg(o, name, 0), {b}) \in Writes /\ Confined(Put(Reg(o, name, 0), {b}), o)
  <2> SUFFICES ASSUME NEW name \in {"egr", "cr1", "bdtr"}, NEW b \in {0, 15}
               PROVE  /\ Put(Reg(o, name, 0), {b}) \in Writes
                      /\ Confined(Put(Reg(o, name, 0), {b}), o)
    OBVIOUS
  <2>1. Reg(o, name, 0) \in WholeRegs(o) /\ Reg(o, name, 0) \in BitRegs /\ {b} \subseteq Bits
    BY Places DEF WholeRegs, Bits
  <2> QED
    BY <1>1, <2>1 DEF Put, Writes, Confined
<1>4. /\ Change(ModeReg(o), ModeField(o), {}) \in Writes
      /\ Confined(Change(ModeReg(o), ModeField(o), {}), o)
      /\ Change(ModeReg(o), {}, ModeField(o)) \in Writes
      /\ Confined(Change(ModeReg(o), {}, ModeField(o)), o)
  <2>1. ModeReg(o) \in BitRegs /\ ModeField(o) \subseteq Bits
    BY Places, Fields
  <2>2. ModeField(o) \subseteq ChannelBits(o, ModeReg(o))
    BY <2>1 DEF ChannelBits
  <2> QED
    BY <1>1, <2>1, <2>2 DEF Change, Writes, Confined, Mine
<1>5. /\ Change(Reg(o, "ccer", 0), {PolarityBit(o)}, {}) \in Writes
      /\ Confined(Change(Reg(o, "ccer", 0), {PolarityBit(o)}, {}), o)
      /\ Change(Reg(o, "ccer", 0), {}, {PolarityBit(o)}) \in Writes
      /\ Confined(Change(Reg(o, "ccer", 0), {}, {PolarityBit(o)}), o)
  <2>1. Reg(o, "ccer", 0) \in BitRegs /\ PolarityBit(o) \in Bits
    BY Places, Fields
  <2>2. PolarityBit(o) \in ChannelBits(o, Reg(o, "ccer", 0))
    BY <2>1, Fields DEF ChannelBits
  <2> QED
    BY <1>1, <2>1, <2>2 DEF Change, Writes, Confined, Mine
<1>6. \A r \in {DutyReg(o), Reg(o, "arr", 0), Reg(o, "cnt", 0)}, n \in Nat :
        Count(r, n) \in Writes /\ Confined(Count(r, n), o)
  BY <1>1, Places DEF Count, Writes, Confined
<1>7. FirstWrites(o) \in Seq(Writes) /\ Len(FirstWrites(o)) = 9
  BY <1>1, <1>2, <1>3, <1>4, <1>5, <1>6 DEF FirstWrites
<1>8. LastWrites(o) \in Seq(Writes) /\ Len(LastWrites(o)) \in {1, 2}
  BY <1>3, <1>6 DEF LastWrites
<1>9. AllConfined(FirstWrites(o), o)
  <2> SUFFICES ASSUME NEW i \in 1 .. 9
               PROVE  Confined(FirstWrites(o)[i], o)
    BY <1>7 DEF AllConfined
  <2>1. i \in {1, 2, 3, 4, 5, 6, 7, 8, 9}
    OBVIOUS
  <2>2. i = 1 => FirstWrites(o)[i] = MuxWrite(o)
    BY DEF FirstWrites
  <2>3. i \in {2, 3} => FirstWrites(o)[i] \in {Put(Reg(o, name, 0), {0}) : name \in {"egr", "cr1"}}
    BY DEF FirstWrites
  <2>4. i \in {4, 5} => FirstWrites(o)[i] \in {Change(ModeReg(o), ModeField(o), {}),
                                              Change(ModeReg(o), {}, ModeField(o))}
    BY DEF FirstWrites
  <2>5. i \in {6, 7} => FirstWrites(o)[i] \in {Change(Reg(o, "ccer", 0), {PolarityBit(o)}, {}),
                                              Change(Reg(o, "ccer", 0), {}, {PolarityBit(o)})}
    BY DEF FirstWrites
  <2>6. i \in {8, 9} => FirstWrites(o)[i] \in {Count(Reg(o, "arr", 0), o.period),
                                              Count(DutyReg(o), o.duty)}
    BY DEF FirstWrites
  <2> QED
    BY <1>1, <1>2, <1>3, <1>4, <1>5, <1>6, <2>1, <2>2, <2>3, <2>4, <2>5, <2>6
<1>10. AllConfined(LastWrites(o), o)
  <2> SUFFICES ASSUME NEW i \in 1 .. Len(LastWrites(o))
               PROVE  Confined(LastWrites(o)[i], o)
    BY DEF AllConfined
  <2>1. LastWrites(o)[i] \in {Put(Reg(o, "bdtr", 0), {15}), Count(Reg(o, "cnt", 0), 0)}
    BY DEF LastWrites
  <2> QED
    BY <1>3, <1>6, <2>1
<1> QED
  BY <1>7, <1>8, <1>9, <1>10


(* So does the constructor as a whole.                                     *)
LEMMA SetUpConfined ==
  ASSUME NEW o \in Channels
  PROVE  SetUp(o) \in Seq(Writes) /\ AllConfined(SetUp(o), o)
<1> DEFINE f == FirstWrites(o)
           l == LastWrites(o)
<1>1. SetUp(o) = f \o l
  BY DEF SetUp, FirstWrites, LastWrites
<1>2. /\ f \in Seq(Writes) /\ l \in Seq(Writes)
      /\ AllConfined(f, o) /\ AllConfined(l, o)
  BY SetUpParts
<1> HIDE DEF f, l
<1>3. /\ f \o l \in Seq(Writes) /\ Len(f) \in Nat /\ Len(l) \in Nat
      /\ Len(f \o l) = Len(f) + Len(l)
      /\ \A i \in 1 .. Len(f) + Len(l) :
           (f \o l)[i] = IF i <= Len(f) THEN f[i] ELSE l[i - Len(f)]
  BY <1>2, ConcatProperties, LenProperties
<1>4. AllConfined(f \o l, o)
  BY <1>2, <1>3 DEF AllConfined
<1> QED
  BY <1>1, <1>3, <1>4

(* The other calls of a channel and of an encoder.                         *)
LEMMA UseConfined ==
  ASSUME NEW o \in Channels
  PROVE  /\ <<EnableWrite(o)>> \in Seq(Writes) /\ AllConfined(<<EnableWrite(o)>>, o)
         /\ <<DisableWrite(o)>> \in Seq(Writes) /\ AllConfined(<<DisableWrite(o)>>, o)
         /\ \A p \in Periods : /\ PeriodWrites(o, p) \in Seq(Writes)
                               /\ AllConfined(PeriodWrites(o, p), o)
         /\ \A d \in Nat : /\ <<DutyWrite(o, d)>> \in Seq(Writes)
                           /\ AllConfined(<<DutyWrite(o, d)>>, o)
<1>1. o \notin Encoders /\ Periods \subseteq Nat
  BY Kinds, RegistersAssumption
<1>2. Reg(o, "ccer", 0) \in BitRegs /\ EnableBit(o) \in ChannelBits(o, Reg(o, "ccer", 0))
  BY Places, Fields DEF ChannelBits
<1>3. {EnableBit(o)} \subseteq Bits
  BY Fields
<1>4. /\ EnableWrite(o) \in Writes /\ Confined(EnableWrite(o), o)
      /\ DisableWrite(o) \in Writes /\ Confined(DisableWrite(o), o)
  BY <1>1, <1>2, <1>3 DEF EnableWrite, DisableWrite, Change, Writes, Confined, Mine
<1>5. \A r \in {DutyReg(o), Reg(o, "arr", 0), Reg(o, "cnt", 0)}, n \in Nat :
        Count(r, n) \in Writes /\ Confined(Count(r, n), o)
  BY <1>1, Places DEF Count, Writes, Confined
<1>6. \A w \in Writes : Confined(w, o) => <<w>> \in Seq(Writes) /\ AllConfined(<<w>>, o)
  BY DEF AllConfined
<1>7. \A w, x \in Writes : Confined(w, o) /\ Confined(x, o)
                             => <<w, x>> \in Seq(Writes) /\ AllConfined(<<w, x>>, o)
  BY DEF AllConfined
<1> QED
  BY <1>1, <1>4, <1>5, <1>6, <1>7 DEF PeriodWrites, DutyWrite

(* See UseConfined.                                                        *)
LEMMA EncoderConfined ==
  ASSUME NEW n \in Encoders
  PROVE  /\ <<Put(Control(n), Measuring)>> \in Seq(Writes)
         /\ AllConfined(<<Put(Control(n), Measuring)>>, n)
         /\ <<CounterReset(n)>> \in Seq(Writes) /\ AllConfined(<<CounterReset(n)>>, n)
<1>1. Control(n) \in BitRegs /\ EncoderBits \subseteq Bits
  BY DEF BitRegs, EncoderBits, Bits
<1>2. n \notin Channels
  BY Kinds
<1>3. Put(Control(n), Measuring) \in Writes /\ Confined(Put(Control(n), Measuring), n)
  BY <1>1, <1>2 DEF Put, Writes, Confined, Measuring, EncoderBits
<1>4. CounterReset(n) \in Writes /\ Confined(CounterReset(n), n)
  BY <1>1, <1>2 DEF CounterReset, Change, Writes, Confined, Mine, EncoderBits, ResetBit
<1> QED
  BY <1>3, <1>4 DEF AllConfined

(* The motor functions write the pins, and of the channels no more than    *)
(* the enable bits and the duties.                                         *)
LEMMA MotorConfined ==
  \A s \in {MotorInitWrites, Turn(1), Turn(0), Both(StopDuty), ZebraStopWrites} :
    s \in Seq(Writes) /\ AllConfined(s, Motor)
<1>1. /\ Motor \notin Encoders /\ Motor \notin Channels
      /\ {Left, Right} \subseteq Channels /\ Left.neg = 0 /\ Right.neg = 0
  BY Kinds, RegistersAssumption
<1>2. \A o \in {Left, Right} : EnableWrite(o) \in Writes /\ Confined(EnableWrite(o), Motor)
  <2> SUFFICES ASSUME NEW o \in {Left, Right}
               PROVE  EnableWrite(o) \in Writes /\ Confined(EnableWrite(o), Motor)
    OBVIOUS
  <2>1. o \in Channels /\ o.neg = 0 /\ o.ch \in 0 .. 3
    BY <1>1, RegistersAssumption
  <2>2. Reg(o, "ccer", 0) \in BitRegs /\ EnableBit(o) \in Bits /\ EnableBit(o) = o.ch * 4
    BY <2>1, Places, Fields
  <2>3. EnableBit(o) \in MotorBits(Reg(o, "ccer", 0))
    BY <2>2 DEF MotorBits
  <2> QED
    BY <1>1, <2>2, <2>3 DEF EnableWrite, Change, Writes, Confined, Mine
<1>3. \A o \in {Left, Right}, d \in Nat : /\ DutyWrite(o, d) \in Writes
                                          /\ Confined(DutyWrite(o, d), Motor)
  BY <1>1, Places DEF DutyWrite, Count, Writes, Confined
<1>4. \A x \in {"L", "R"} :
        /\ \A v \in {0, 1} : Pin(x, "value", v) \in Writes /\ Confined(Pin(x, "value", v), Motor)
        /\ Pin(x, "direction", "out") \in Writes /\ Confined(Pin(x, "direction", "out"), Motor)
  BY DEF Pin, PinFiles, Wheels, Writes, Confined
<1>5. Turn(0) \in Seq(Writes) /\ AllConfined(Turn(0), Motor)
  BY <1>4 DEF Turn, AllConfined
<1>6. Turn(1) \in Seq(Writes) /\ AllConfined(Turn(1), Motor)
  BY <1>4 DEF Turn, AllConfined
<1>7. Both(StopDuty) \in Seq(Writes) /\ AllConfined(Both(StopDuty), Motor)
  BY <1>3 DEF Both, StopDuty, AllConfined
<1>8. MotorInitWrites \in Seq(Writes) /\ AllConfined(MotorInitWrites, Motor)
  <2>1. MotorInitWrites \in Seq(Writes) /\ Len(MotorInitWrites) = 8
    BY <1>2, <1>3, <1>4 DEF MotorInitWrites, InitDuty
  <2>2. ASSUME NEW i \in 1 .. 8
        PROVE  Confined(MotorInitWrites[i], Motor)
    <3>1. i \in {1, 2, 3, 4, 5, 6, 7, 8}
      OBVIOUS
    <3> QED
      BY <1>2, <1>3, <1>4, <3>1 DEF MotorInitWrites, InitDuty
  <2> QED
    BY <2>1, <2>2 DEF AllConfined
<1>9. ZebraStopWrites \in Seq(Writes) /\ AllConfined(ZebraStopWrites, Motor)
  <2>1. ZebraStopWrites \in Seq(Writes) /\ Len(ZebraStopWrites) = 8
    BY <1>3, <1>4 DEF ZebraStopWrites, StopDuty, ZebraDuty
  <2>2. ASSUME NEW i \in 1 .. 8
        PROVE  Confined(ZebraStopWrites[i], Motor)
    <3>1. i \in {1, 2, 3, 4, 5, 6, 7, 8}
      OBVIOUS
    <3> QED
      BY <1>3, <1>4, <3>1 DEF ZebraStopWrites, StopDuty, ZebraDuty
  <2> QED
    BY <2>1, <2>2 DEF AllConfined
<1> QED
  BY <1>5, <1>6, <1>7, <1>8, <1>9

-----------------------------------------------------------------------------
(* A changed wish is one that can be asked.                                *)
LEMMA WishTyped ==
  ASSUME asked \in [Askable -> Asked], NEW o \in Askable,
         NEW v \in {"as it was", "yes", "no", "reset", "ahead", "back"}, NEW d \in Nat
  PROVE  Wish(o, v) \in [Askable -> Asked] /\ [asked EXCEPT ![o].duty = d] \in [Askable -> Asked]
<1>1. asked[o] \in Asked
  OBVIOUS
<1>2. [asked[o] EXCEPT !.on = v] \in Asked /\ [asked[o] EXCEPT !.duty = d] \in Asked
  BY <1>1 DEF Asked
<1> QED
  BY <1>2 DEF Wish

(* A wish for one object changes its wish, and nothing else.               *)
LEMMA WishOn ==
  ASSUME asked \in [Askable -> Asked]
  PROVE  \A o \in Askable, v \in {"as it was", "yes", "no", "reset", "ahead", "back"} :
           /\ Wish(o, v)[o].on = v /\ Wish(o, v)[o].duty = asked[o].duty
           /\ \A p \in Askable \ {o} : Wish(o, v)[p] = asked[p]
<1> SUFFICES ASSUME NEW o \in Askable,
                    NEW v \in {"as it was", "yes", "no", "reset", "ahead", "back"}
             PROVE  /\ Wish(o, v)[o].on = v /\ Wish(o, v)[o].duty = asked[o].duty
                    /\ \A p \in Askable \ {o} : Wish(o, v)[p] = asked[p]
  OBVIOUS
<1> DEFINE on == [asked[o] EXCEPT !.on = v]
<1>1. asked[o] \in Asked
  OBVIOUS
<1>2. on.on = v /\ on.duty = asked[o].duty
  BY <1>1 DEF Asked
<1>3. Wish(o, v) = [p \in Askable |-> IF p = o THEN on ELSE asked[p]]
  BY DEF Wish
<1> HIDE DEF on
<1> QED
  BY <1>2, <1>3

(* So does a wish for another duty.                                        *)
LEMMA DutyOn ==
  ASSUME asked \in [Askable -> Asked]
  PROVE  \A o \in Askable, d \in Nat :
           /\ [asked EXCEPT ![o].duty = d][o].on = asked[o].on
           /\ [asked EXCEPT ![o].duty = d][o].duty = d
           /\ \A p \in Askable \ {o} : [asked EXCEPT ![o].duty = d][p] = asked[p]
<1> SUFFICES ASSUME NEW o \in Askable, NEW d \in Nat
             PROVE  /\ [asked EXCEPT ![o].duty = d][o].on = asked[o].on
                    /\ [asked EXCEPT ![o].duty = d][o].duty = d
                    /\ \A p \in Askable \ {o} : [asked EXCEPT ![o].duty = d][p] = asked[p]
  OBVIOUS
<1> DEFINE wish == [asked[o] EXCEPT !.duty = d]
<1>1. asked[o] \in Asked
  OBVIOUS
<1>2. wish.on = asked[o].on /\ wish.duty = d
  BY <1>1 DEF Asked
<1>3. [asked EXCEPT ![o].duty = d] = [p \in Askable |-> IF p = o THEN wish ELSE asked[p]]
  OBVIOUS
<1> HIDE DEF wish
<1> QED
  BY <1>2, <1>3

(* The motor functions ask the same of both wheels, and of nobody else.    *)
MotorWish(a, on, d) ==
  /\ a \in [Askable -> Asked]
  /\ a[Motor].on = on
  /\ \A o \in {Left, Right} : a[o].on \in {asked[o].on, "yes"}
  /\ \A o \in {Left, Right} : a[o].duty = d
  /\ \A p \in Askable \ {Motor, Left, Right} : a[p] = asked[p]
InitWish == [asked EXCEPT ![Left] = [on |-> "yes", duty |-> InitDuty],
                          ![Right] = [on |-> "yes", duty |-> InitDuty], ![Motor].on = "ahead"]
ZebraWish == [Wishes(StopDuty) EXCEPT ![Motor].on = "ahead"]

(* See MotorWish.                                                          *)
LEMMA MotorWishes ==
  ASSUME asked \in [Askable -> Asked]
  PROVE  /\ MotorWish(InitWish, "ahead", InitDuty)
         /\ MotorWish(ZebraWish, "ahead", StopDuty)
         /\ MotorWish(Wishes(StopDuty), asked[Motor].on, StopDuty)
         /\ \A o \in {Left, Right} : /\ InitWish[o].on = "yes"
                                     /\ ZebraWish[o].on = asked[o].on
                                     /\ Wishes(StopDuty)[o].on = asked[o].on
<1>1. /\ {Left, Right} \subseteq Askable /\ Motor \in Askable /\ Motor \notin {Left, Right}
      /\ InitDuty \in Nat /\ StopDuty \in Nat
  BY RegistersAssumption, Kinds DEF Askable, InitDuty, StopDuty
<1>2. \A p \in Askable : asked[p] \in Asked
  OBVIOUS
<1> DEFINE both == [on |-> "yes", duty |-> InitDuty]
           ahead == [asked[Motor] EXCEPT !.on = "ahead"]
           left == [asked[Left] EXCEPT !.duty = StopDuty]
           right == [asked[Right] EXCEPT !.duty = StopDuty]
<1>3. both \in Asked /\ both.on = "yes" /\ both.duty = InitDuty
  BY <1>1 DEF Asked
<1>4. ahead \in Asked /\ ahead.on = "ahead"
  BY <1>1, <1>2 DEF Asked
<1>5. left \in Asked /\ left.on = asked[Left].on /\ left.duty = StopDuty
  BY <1>1, <1>2 DEF Asked
<1>6. right \in Asked /\ right.on = asked[Right].on /\ right.duty = StopDuty
  BY <1>1, <1>2 DEF Asked
<1>7. InitWish = [p \in Askable |-> IF p = Motor THEN ahead ELSE
                                   IF p \in {Left, Right} THEN both ELSE asked[p]]
  BY <1>1 DEF InitWish
<1>8. Left = Right => left = right
  OBVIOUS
<1>9. Wishes(StopDuty) = [p \in Askable |-> IF p = Right THEN right ELSE
                                           IF p = Left THEN left ELSE asked[p]]
  <2>1. CASE Left = Right
    <3>1. [left EXCEPT !.duty = StopDuty] = left
      BY <1>5 DEF Asked
    <3>2. Wishes(StopDuty) = [p \in Askable |-> IF p = Left THEN [left EXCEPT !.duty = StopDuty]
                                               ELSE asked[p]]
      BY <1>1, <2>1 DEF Wishes
    <3> QED
      BY <1>8, <2>1, <3>1, <3>2
  <2>2. CASE Left # Right
    BY <1>1, <2>2 DEF Wishes
  <2> QED
    BY <2>1, <2>2
<1> HIDE DEF both, ahead, left, right
<1>10. /\ Wishes(StopDuty) \in [Askable -> Asked] /\ Wishes(StopDuty)[Motor] = asked[Motor]
       /\ \A p \in Askable \ {Left, Right} : Wishes(StopDuty)[p] = asked[p]
       /\ \A o \in {Left, Right} : /\ Wishes(StopDuty)[o].on = asked[o].on
                                   /\ Wishes(StopDuty)[o].duty = StopDuty
  BY <1>1, <1>2, <1>5, <1>6, <1>8, <1>9
<1>11. ZebraWish = [p \in Askable |-> IF p = Motor THEN ahead ELSE Wishes(StopDuty)[p]]
  BY <1>1, <1>10 DEF ZebraWish, ahead
<1>12. MotorWish(InitWish, "ahead", InitDuty) /\ \A o \in {Left, Right} : InitWish[o].on = "yes"
  BY <1>1, <1>2, <1>3, <1>4, <1>7 DEF MotorWish
<1>13. MotorWish(Wishes(StopDuty), asked[Motor].on, StopDuty)
  BY <1>1, <1>10 DEF MotorWish
<1>14. /\ MotorWish(ZebraWish, "ahead", StopDuty)
       /\ \A o \in {Left, Right} : ZebraWish[o].on = asked[o].on
  BY <1>1, <1>4, <1>10, <1>11 DEF MotorWish
<1> QED
  BY <1>10, <1>12, <1>13, <1>14

-----------------------------------------------------------------------------
(* The first invariant: types, and that every call is confined.            *)
CallsConfined == RegsTypeOK /\ AllConfined(pending, caller)

(* A call begins with writes that are its own.                             *)
LEMMA BeginConfined ==
  ASSUME RegsTypeOK, NEW o \in Callers, NEW s \in Seq(Writes), AllConfined(s, o),
         NEW a \in [Askable -> Asked], Begin(o, s, a),
         made' \subseteq program \cap (Channels \cup Encoders), UNCHANGED program
  PROVE  CallsConfined'
<1>1. /\ pending' = s /\ caller' = o /\ asked' = a /\ UNCHANGED <<bits, count, pins>>
  BY DEF Begin
<1>2. RegsTypeOK'
  BY <1>1 DEF RegsTypeOK
<1>3. AllConfined(pending, caller)'
  BY <1>1 DEF AllConfined
<1> QED
  BY <1>2, <1>3 DEF CallsConfined

(* One write: its effect on the registers.                                 *)
LEMMA WriteEffect ==
  ASSUME CallsConfined, Write, NEW w, w = Head(pending)
  PROVE  /\ pending # <<>> /\ w \in Writes /\ Confined(w, caller)
         /\ w.to = "change" => bits' = [bits EXCEPT ![w.reg] = (bits[w.reg] \ w.clear) \cup w.set]
         /\ w.to = "put" => bits' = [bits EXCEPT ![w.reg] = w.set]
         /\ w.to \notin {"change", "put"} => bits' = bits
         /\ count' = IF w.to = "count" THEN [count EXCEPT ![w.reg] = w.n] ELSE count
         /\ pins' = IF w.to = "pin" THEN [pins EXCEPT ![w.pin] = w.v] ELSE pins
         /\ pending' = Tail(pending) /\ UNCHANGED <<made, caller, asked>>
<1>1. pending \in Seq(Writes) /\ pending # <<>>
  BY DEF CallsConfined, RegsTypeOK, Write, Idle
<1>2. w \in Writes /\ w = pending[1] /\ 1 \in 1 .. Len(pending)
  BY <1>1
<1>3. Confined(w, caller)
  BY <1>2 DEF CallsConfined, AllConfined
<1> QED
  BY <1>1, <1>2, <1>3 DEF Write

(* A write leaves a call that is confined.                                 *)
LEMMA WriteConfined ==
  ASSUME CallsConfined, Write, UNCHANGED program
  PROVE  CallsConfined'
<1> DEFINE w == Head(pending)
<1>1. /\ pending # <<>> /\ w \in Writes
      /\ w.to = "change" => bits' = [bits EXCEPT ![w.reg] = (bits[w.reg] \ w.clear) \cup w.set]
      /\ w.to = "put" => bits' = [bits EXCEPT ![w.reg] = w.set]
      /\ w.to \notin {"change", "put"} => bits' = bits
      /\ count' = IF w.to = "count" THEN [count EXCEPT ![w.reg] = w.n] ELSE count
      /\ pins' = IF w.to = "pin" THEN [pins EXCEPT ![w.pin] = w.v] ELSE pins
      /\ pending' = Tail(pending) /\ UNCHANGED <<made, caller, asked>>
  BY WriteEffect
<1> HIDE DEF w
<1>2. RegsTypeOK
  BY DEF CallsConfined
<1>3. bits' \in [BitRegs -> SUBSET Bits]
  <2>1. CASE w.to = "change"
    <3>1. w.set \subseteq Bits
      BY <1>1, <2>1 DEF Writes
    <3>2. bits[w.reg] \subseteq Bits \/ w.reg \notin BitRegs
      BY <1>2 DEF RegsTypeOK
    <3> QED
      BY <1>1, <1>2, <2>1, <3>1, <3>2 DEF RegsTypeOK
  <2>2. CASE w.to = "put"
    <3>1. w.set \subseteq Bits
      BY <1>1, <2>2 DEF Writes
    <3> QED
      BY <1>1, <1>2, <2>2, <3>1 DEF RegsTypeOK
  <2>3. CASE w.to \notin {"change", "put"}
    BY <1>1, <1>2, <2>3 DEF RegsTypeOK
  <2> QED
    BY <2>1, <2>2, <2>3
<1>4. count' \in [CountRegs -> Nat]
  <2>1. w.to = "count" => w.n \in Nat
    BY <1>1 DEF Writes
  <2> QED
    BY <1>1, <1>2, <2>1 DEF RegsTypeOK
<1>5. pins' = [p \in PinFiles |-> pins'[p]]
  BY <1>1, <1>2 DEF RegsTypeOK
<1>6. /\ pending' \in Seq(Writes) /\ Len(pending') = Len(pending) - 1
      /\ \A i \in 1 .. Len(pending') : pending'[i] = pending[i + 1]
  BY <1>1, <1>2, HeadTailProperties DEF RegsTypeOK
<1>7. AllConfined(pending, caller)'
  <2>1. Len(pending) \in Nat
    BY <1>2, LenProperties DEF RegsTypeOK
  <2> QED
    BY <1>1, <1>6, <2>1 DEF CallsConfined, AllConfined
<1>8. RegsTypeOK'
  BY <1>1, <1>2, <1>3, <1>4, <1>5, <1>6 DEF RegsTypeOK
<1> QED
  BY <1>7, <1>8 DEF CallsConfined

(* The empty call, and nobody's.                                           *)
LEMMA NoWrites == <<>> \in Seq(Writes) /\ \A o : AllConfined(<<>>, o)
  BY DEF AllConfined

(* Every step keeps the first invariant.                                   *)
LEMMA ConfinedStep == CallsConfined /\ [RegsNext]_regsVars => CallsConfined'
<1> SUFFICES ASSUME CallsConfined, [RegsNext]_regsVars
             PROVE  CallsConfined'
  OBVIOUS
<1>1. /\ RegsTypeOK /\ made \subseteq program \cap (Channels \cup Encoders)
      /\ asked \in [Askable -> Asked]
  BY DEF CallsConfined, RegsTypeOK
<1>2. Channels \cup Encoders \cup {Motor} \subseteq Callers \cap Askable
  BY DEF Callers, Askable
<1>3. CASE UNCHANGED regsVars
  BY <1>3 DEF regsVars, CallsConfined, RegsTypeOK, AllConfined
<1>4. CASE MakeChannel /\ UNCHANGED program
  <2>1. PICK o \in (Channels \cap program) \ made :
          /\ Begin(o, SetUp(o), [asked EXCEPT ![o] = [on |-> "as it was", duty |-> o.duty]])
          /\ made' = made \cup {o}
    BY <1>4 DEF MakeChannel
  <2>2. [on |-> "as it was", duty |-> o.duty] \in Asked
    BY RegistersAssumption DEF Asked
  <2>3. [asked EXCEPT ![o] = [on |-> "as it was", duty |-> o.duty]] \in [Askable -> Asked]
    BY <1>1, <2>2
  <2> QED
    BY <1>1, <1>2, <1>4, <2>1, <2>3, SetUpConfined, BeginConfined
<1>5. CASE UseChannel /\ UNCHANGED program
  <2>1. PICK o \in Channels \cap made :
          \/ Begin(o, <<EnableWrite(o)>>, Wish(o, "yes"))
          \/ Begin(o, <<DisableWrite(o)>>, Wish(o, "no"))
          \/ \E p \in Periods : Begin(o, PeriodWrites(o, p), asked)
          \/ \E d \in Duties : Begin(o, <<DutyWrite(o, d)>>, [asked EXCEPT ![o].duty = d])
    BY <1>5 DEF UseChannel
  <2>2. made' = made /\ UNCHANGED program /\ o \in Channels /\ o \in Askable /\ o \in Callers
    BY <1>2, <1>5 DEF UseChannel
  <2>3. Duties \subseteq Nat
    BY RegistersAssumption
  <2>4. CASE Begin(o, <<EnableWrite(o)>>, Wish(o, "yes"))
    BY <1>1, <2>2, <2>4, UseConfined, WishTyped, BeginConfined
  <2>5. CASE Begin(o, <<DisableWrite(o)>>, Wish(o, "no"))
    BY <1>1, <2>2, <2>5, UseConfined, WishTyped, BeginConfined
  <2>6. CASE \E p \in Periods : Begin(o, PeriodWrites(o, p), asked)
    BY <1>1, <2>2, <2>6, UseConfined, BeginConfined
  <2>7. CASE \E d \in Duties : Begin(o, <<DutyWrite(o, d)>>, [asked EXCEPT ![o].duty = d])
    <3>1. PICK d \in Duties : Begin(o, <<DutyWrite(o, d)>>, [asked EXCEPT ![o].duty = d])
      BY <2>7
    <3>2. [asked EXCEPT ![o].duty = d] \in [Askable -> Asked]
      BY <1>1, <2>2, <2>3, WishTyped
    <3> QED
      BY <1>1, <2>2, <2>3, <3>1, <3>2, UseConfined, BeginConfined
  <2> QED
    BY <2>1, <2>4, <2>5, <2>6, <2>7
<1>6. CASE DestroyChannel /\ UNCHANGED program
  BY <1>1, <1>2, <1>6, NoWrites, BeginConfined DEF DestroyChannel
<1>7. CASE MakeEncoder /\ UNCHANGED program
  <2>1. PICK n \in (Encoders \cap program) \ made :
          /\ Begin(n, <<Put(Control(n), Measuring)>>, Wish(n, "yes"))
          /\ made' = made \cup {n}
    BY <1>7 DEF MakeEncoder
  <2>2. Wish(n, "yes") \in [Askable -> Asked]
    BY <1>1, <1>2, WishTyped
  <2> QED
    BY <1>1, <1>2, <1>7, <2>1, <2>2, EncoderConfined, BeginConfined
<1>8. CASE ResetEncoder /\ UNCHANGED program
  <2>1. PICK n \in Encoders \cap made : Begin(n, <<CounterReset(n)>>, Wish(n, "reset"))
    BY <1>8 DEF ResetEncoder
  <2>2. Wish(n, "reset") \in [Askable -> Asked]
    BY <1>1, <1>2, WishTyped
  <2>3. made' = made
    BY <1>8 DEF ResetEncoder
  <2> QED
    BY <1>1, <1>2, <1>8, <2>1, <2>2, <2>3, EncoderConfined, BeginConfined
<1>9. CASE MotorCall /\ UNCHANGED program
  <2>1. \E s \in {MotorInitWrites, Turn(1), Turn(0), Both(StopDuty), ZebraStopWrites},
           a \in [Askable -> Asked] : Begin(Motor, s, a)
    <3>1. /\ Wish(Motor, "ahead") \in [Askable -> Asked] /\ Wish(Motor, "back") \in [Askable -> Asked]
          /\ InitWish \in [Askable -> Asked] /\ ZebraWish \in [Askable -> Asked]
          /\ Wishes(StopDuty) \in [Askable -> Asked]
      BY <1>1, <1>2, WishTyped, MotorWishes DEF MotorWish
    <3> QED
      BY <1>9, <3>1 DEF MotorCall, InitWish, ZebraWish
  <2>2. made' = made
    BY <1>9 DEF MotorCall
  <2> QED
    BY <1>1, <1>2, <1>9, <2>1, <2>2, MotorConfined, BeginConfined
<1>10. CASE Write /\ UNCHANGED program
  BY <1>10, WriteConfined
<1>11. CASE Rerun /\ UNCHANGED program
  <2>1. /\ made' = {} /\ pending' = <<>> /\ caller' = Nobody
        /\ asked' = [o \in DOMAIN asked |-> Nothing] /\ UNCHANGED <<bits, count, pins>>
    BY <1>11 DEF Rerun
  <2>2. asked' \in [Askable -> Asked]
    BY <1>1, <2>1 DEF Nothing, Asked
  <2>3. RegsTypeOK'
    BY <1>1, <1>11, <2>1, <2>2, NoWrites DEF RegsTypeOK, Callers
  <2>4. AllConfined(pending, caller)'
    BY <2>1 DEF AllConfined
  <2> QED
    BY <2>3, <2>4 DEF CallsConfined
<1> QED
  BY <1>3, <1>4, <1>5, <1>6, <1>7, <1>8, <1>9, <1>10, <1>11 DEF RegsNext

(* It holds at the start.                                                  *)
LEMMA ConfinedFirst == RegsInit => CallsConfined
<1> SUFFICES ASSUME RegsInit PROVE CallsConfined
  OBVIOUS
<1>1. PICK g \in Garbage : bits = [r \in BitRegs |-> g]
  BY DEF RegsInit
<1>2. bits \in [BitRegs -> SUBSET Bits]
  BY <1>1, RegistersAssumption
<1>3. asked \in [Askable -> Asked]
  BY DEF RegsInit, Askable, Asked, Nothing
<1>4. RegsTypeOK
  BY <1>2, <1>3, NoWrites DEF RegsInit, RegsTypeOK, Callers
<1> QED
  BY <1>4 DEF RegsInit, CallsConfined, AllConfined

(* The bits that a write can change are its caller's.                      *)
LEMMA WriteWithin ==
  ASSUME CallsConfined, Write, NEW r \in BitRegs
  PROVE  (bits[r] \ bits'[r]) \cup (bits'[r] \ bits[r]) \subseteq OwnBits(caller, r)
<1> DEFINE w == Head(pending)
<1>1. /\ w \in Writes /\ Confined(w, caller)
      /\ w.to = "change" => bits' = [bits EXCEPT ![w.reg] = (bits[w.reg] \ w.clear) \cup w.set]
      /\ w.to = "put" => bits' = [bits EXCEPT ![w.reg] = w.set]
      /\ w.to \notin {"change", "put"} => bits' = bits
  BY WriteEffect
<1> HIDE DEF w
<1>2. bits \in [BitRegs -> SUBSET Bits] /\ caller \in Callers
  BY DEF CallsConfined, RegsTypeOK
<1>3. CASE w.to = "change" /\ w.reg = r
  <2>1. (bits[r] \ bits'[r]) \cup (bits'[r] \ bits[r]) \subseteq w.clear \cup w.set
    BY <1>1, <1>2, <1>3
  <2>2. w.clear \cup w.set \subseteq Mine(caller, r)
    BY <1>1, <1>3 DEF Confined
  <2>3. Mine(caller, r) \subseteq OwnBits(caller, r)
    BY DEF Mine, OwnBits, EncoderBits
  <2> QED
    BY <2>1, <2>2, <2>3
<1>4. CASE w.to = "put" /\ w.reg = r
  <2>1. bits'[r] = w.set /\ w.set \subseteq Bits /\ bits[r] \subseteq Bits
    BY <1>1, <1>2, <1>4 DEF Writes
  <2>2. CASE caller \in Channels /\ r \in WholeRegs(caller)
    <3>1. caller \notin Encoders
      BY <2>2, Kinds
    <3> QED
      BY <2>1, <2>2, <3>1 DEF OwnBits, ChannelBits
  <2>3. CASE caller \in Encoders /\ r = Control(caller) /\ w.set \subseteq EncoderBits
    BY <2>1, <2>3 DEF OwnBits, EncoderBits
  <2> QED
    BY <1>1, <1>4, <2>2, <2>3 DEF Confined
<1>5. CASE w.to \notin {"change", "put"} \/ w.reg # r
  BY <1>1, <1>2, <1>5
<1> QED
  BY <1>3, <1>4, <1>5

(* Whatever channels, motors and encoders a program has, whatever the      *)
(* registers hold and wherever earlier runs ended, a call changes its own  *)
(* bits only.                                                              *)
THEOREM NobodyElsesBits == RegsSpec => OthersKeepTheirBits
<1> DEFINE Within == \A r \in DOMAIN bits :
                       bits'[r] # bits[r] =>
                         (bits[r] \ bits'[r]) \cup (bits'[r] \ bits[r]) \subseteq OwnBits(caller, r)
<1>1. CallsConfined /\ [RegsNext]_regsVars => [Within]_regsVars
  <2> SUFFICES ASSUME CallsConfined, RegsNext, NEW r \in DOMAIN bits, bits'[r] # bits[r]
               PROVE  (bits[r] \ bits'[r]) \cup (bits'[r] \ bits[r]) \subseteq OwnBits(caller, r)
    OBVIOUS
  <2>1. r \in BitRegs
    BY DEF CallsConfined, RegsTypeOK
  <2>2. CASE Write
    BY <2>1, <2>2, WriteWithin
  <2>3. CASE ~Write
    BY <2>3 DEF RegsNext, MakeChannel, UseChannel, DestroyChannel, MakeEncoder, ResetEncoder,
      MotorCall, Begin, Rerun
  <2> QED
    BY <2>2, <2>3
<1>2. RegsInit => CallsConfined
  BY ConfinedFirst
<1>3. CallsConfined /\ [RegsNext]_regsVars => CallsConfined'
  BY ConfinedStep
<1> QED
  BY <1>1, <1>2, <1>3, PTL DEF RegsSpec, OthersKeepTheirBits

-----------------------------------------------------------------------------
(* What a cell, a bit or a number, will hold when the writes s are done:   *)
(* it is as wanted now (x is in X) and no write is a bad one, or a good    *)
(* write is still to come and no bad one after it.                         *)
Ends(s, x, X, good, bad) ==
  \/ x \in X /\ \A i \in 1 .. Len(s) : s[i] \notin bad
  \/ \E i \in 1 .. Len(s) : s[i] \in good /\ \A j \in i + 1 .. Len(s) : s[j] \notin bad

Setting(r, b)  == {w \in Writes : w.to \in {"change", "put"} /\ w.reg = r /\ b \in w.set}
Clearing(r, b) == {w \in Writes : /\ w.to \in {"change", "put"} /\ w.reg = r /\ b \notin w.set
                                  /\ w.to = "change" => b \in w.clear}
Storing(r, n)  == {w \in Writes : w.to = "count" /\ w.reg = r /\ w.n = n}
StoringElse(r, n) == {w \in Writes : w.to = "count" /\ w.reg = r /\ w.n # n}
Driving(p, v)  == {w \in Writes : w.to = "pin" /\ w.pin = p /\ w.v = v}
DrivingElse(p, v) == {w \in Writes : w.to = "pin" /\ w.pin = p /\ w.v # v}

BitWill(r, b)   == Ends(pending, b, bits[r], Setting(r, b), Clearing(r, b))
BitWont(r, b)   == Ends(pending, b, Bits \ bits[r], Clearing(r, b), Setting(r, b))
CountWill(r, n) == Ends(pending, count[r], {n}, Storing(r, n), StoringElse(r, n))
PinWill(p, v)   == Ends(pending, pins[p], {v}, Driving(p, v), DrivingElse(p, v))

(* When nothing is left to write the cell is as wanted.                    *)
LEMMA EndsEmpty ==
  \A x, X, good, bad : Ends(<<>>, x, X, good, bad) <=> x \in X
  BY DEF Ends

(* Writing the first of the writes keeps what the rest promises.           *)
LEMMA EndsTail ==
  ASSUME NEW s \in Seq(Writes), s # <<>>, NEW x, NEW X, NEW y, NEW Y, NEW good, NEW bad,
         Ends(s, x, X, good, bad),
         Head(s) \in good => y \in Y,
         x \in X /\ Head(s) \notin bad => y \in Y
  PROVE  Ends(Tail(s), y, Y, good, bad)
<1>1. /\ Len(s) \in Nat /\ Len(s) >= 1 /\ Head(s) = s[1] /\ Len(Tail(s)) = Len(s) - 1
      /\ \A i \in 1 .. Len(Tail(s)) : Tail(s)[i] = s[i + 1]
  BY HeadTailProperties, LenProperties, EmptySeq
<1>2. CASE x \in X /\ \A i \in 1 .. Len(s) : s[i] \notin bad
  BY <1>1, <1>2 DEF Ends
<1>3. ASSUME NEW i \in 1 .. Len(s), s[i] \in good, \A j \in i + 1 .. Len(s) : s[j] \notin bad
      PROVE  Ends(Tail(s), y, Y, good, bad)
  <2>1. CASE i = 1
    <3>1. y \in Y
      BY <1>1, <1>3, <2>1
    <3>2. \A j \in 1 .. Len(Tail(s)) : Tail(s)[j] \notin bad
      BY <1>1, <1>3, <2>1
    <3> QED
      BY <3>1, <3>2 DEF Ends
  <2>2. CASE i # 1
    <3>1. i - 1 \in 1 .. Len(Tail(s)) /\ Tail(s)[i - 1] \in good
      BY <1>1, <1>3, <2>2
    <3>2. \A j \in (i - 1) + 1 .. Len(Tail(s)) : Tail(s)[j] \notin bad
      BY <1>1, <1>3, <2>2
    <3> QED
      BY <3>1, <3>2 DEF Ends
  <2> QED
    BY <2>1, <2>2
<1> QED
  BY <1>2, <1>3 DEF Ends

(* A good write in the first of two runs of writes, with no bad one after. *)
LEMMA EndsConcat ==
  ASSUME NEW f \in Seq(Writes), NEW l \in Seq(Writes), NEW x, NEW X, NEW good, NEW bad,
         NEW i \in 1 .. Len(f), f[i] \in good,
         \A j \in i + 1 .. Len(f) : f[j] \notin bad,
         \A j \in 1 .. Len(l) : l[j] \notin bad
  PROVE  Ends(f \o l, x, X, good, bad)
<1>1. /\ Len(f) \in Nat /\ Len(l) \in Nat
      /\ Len(f \o l) = Len(f) + Len(l)
      /\ \A j \in 1 .. Len(f) + Len(l) :
           (f \o l)[j] = IF j <= Len(f) THEN f[j] ELSE l[j - Len(f)]
  BY ConcatProperties, LenProperties
<1>2. i \in 1 .. Len(f \o l) /\ (f \o l)[i] \in good
  BY <1>1
<1>3. ASSUME NEW j \in i + 1 .. Len(f \o l)
      PROVE  (f \o l)[j] \notin bad
  <2>1. CASE j <= Len(f)
    BY <1>1, <2>1
  <2>2. CASE ~(j <= Len(f))
    <3>1. j - Len(f) \in 1 .. Len(l) /\ (f \o l)[j] = l[j - Len(f)]
      BY <1>1, <2>2
    <3> QED
      BY <3>1
  <2> QED
    BY <2>1, <2>2
<1> QED
  BY <1>2, <1>3 DEF Ends

(* A write keeps what the pending writes promise of every cell.            *)
LEMMA WriteKeepsPromises ==
  ASSUME CallsConfined, Write
  PROVE  /\ \A r \in BitRegs, b \in Bits : /\ BitWill(r, b) => BitWill(r, b)'
                                           /\ BitWont(r, b) => BitWont(r, b)'
         /\ \A r \in CountRegs, n \in Nat : CountWill(r, n) => CountWill(r, n)'
         /\ \A p \in PinFiles, v \in {0, 1} : PinWill(p, v) => PinWill(p, v)'
<1> DEFINE w == Head(pending)
<1>1. /\ pending # <<>> /\ w \in Writes
      /\ w.to = "change" => bits' = [bits EXCEPT ![w.reg] = (bits[w.reg] \ w.clear) \cup w.set]
      /\ w.to = "put" => bits' = [bits EXCEPT ![w.reg] = w.set]
      /\ w.to \notin {"change", "put"} => bits' = bits
      /\ count' = IF w.to = "count" THEN [count EXCEPT ![w.reg] = w.n] ELSE count
      /\ pins' = IF w.to = "pin" THEN [pins EXCEPT ![w.pin] = w.v] ELSE pins
      /\ pending' = Tail(pending)
  BY WriteEffect
<1> HIDE DEF w
<1>2. /\ bits \in [BitRegs -> SUBSET Bits] /\ count \in [CountRegs -> Nat]
      /\ pins = [p \in PinFiles |-> pins[p]] /\ pending \in Seq(Writes)
  BY DEF CallsConfined, RegsTypeOK
<1>3. ASSUME NEW r \in BitRegs, NEW b \in Bits
      PROVE  /\ BitWill(r, b) => BitWill(r, b)'
             /\ BitWont(r, b) => BitWont(r, b)'
  <2>1. /\ w \in Setting(r, b) => b \in bits'[r]
        /\ w \in Clearing(r, b) => b \notin bits'[r]
        /\ w \notin Setting(r, b) \cup Clearing(r, b) => (b \in bits'[r] <=> b \in bits[r])
    <3>1. CASE w.to = "change" /\ w.reg = r
      <4>1. bits'[r] = (bits[r] \ w.clear) \cup w.set
        BY <1>1, <1>2, <3>1
      <4> QED
        BY <1>1, <3>1, <4>1 DEF Setting, Clearing
    <3>2. CASE w.to = "put" /\ w.reg = r
      <4>1. bits'[r] = w.set
        BY <1>1, <1>2, <3>2
      <4> QED
        BY <1>1, <3>2, <4>1 DEF Setting, Clearing
    <3>3. CASE w.to \notin {"change", "put"} \/ w.reg # r
      <4>1. bits'[r] = bits[r]
        BY <1>1, <1>2, <3>3
      <4> QED
        BY <3>3, <4>1 DEF Setting, Clearing
    <3> QED
      BY <3>1, <3>2, <3>3
  <2>2. BitWill(r, b) => BitWill(r, b)'
    <3>1. w \in Setting(r, b) => b \in bits'[r]
      BY <2>1
    <3>2. b \in bits[r] /\ w \notin Clearing(r, b) => b \in bits'[r]
      BY <2>1
    <3> QED
      BY <1>1, <1>2, <3>1, <3>2, EndsTail DEF BitWill, w
  <2>3. BitWont(r, b) => BitWont(r, b)'
    <3>1. w \in Clearing(r, b) => b \in Bits \ bits'[r]
      BY <2>1
    <3>2. b \in Bits \ bits[r] /\ w \notin Setting(r, b) => b \in Bits \ bits'[r]
      BY <2>1
    <3> QED
      BY <1>1, <1>2, <3>1, <3>2, EndsTail DEF BitWont, w
  <2> QED
    BY <2>2, <2>3
<1>4. ASSUME NEW r \in CountRegs, NEW n \in Nat
      PROVE  CountWill(r, n) => CountWill(r, n)'
  <2>1. w \in Storing(r, n) => count'[r] \in {n}
    BY <1>1, <1>2 DEF Storing
  <2>2. count[r] \in {n} /\ w \notin StoringElse(r, n) => count'[r] \in {n}
    BY <1>1, <1>2 DEF StoringElse
  <2> QED
    BY <1>1, <1>2, <2>1, <2>2, EndsTail DEF CountWill, w
<1>5. ASSUME NEW p \in PinFiles, NEW v \in {0, 1}
      PROVE  PinWill(p, v) => PinWill(p, v)'
  <2>1. w \in Driving(p, v) => pins'[p] \in {v}
    BY <1>1, <1>2 DEF Driving
  <2>2. pins[p] \in {v} /\ w \notin DrivingElse(p, v) => pins'[p] \in {v}
    BY <1>1, <1>2 DEF DrivingElse
  <2> QED
    BY <1>1, <1>2, <2>1, <2>2, EndsTail DEF PinWill, w
<1> QED
  BY <1>3, <1>4, <1>5

-----------------------------------------------------------------------------
(* Writes that leave a cell alone.                                         *)
Spares(s, r, b)   == \A i \in 1 .. Len(s) : s[i] \notin Setting(r, b) \cup Clearing(r, b)
SparesCount(s, r) == \A i \in 1 .. Len(s) : ~(s[i].to = "count" /\ s[i].reg = r)
SparesPins(s)     == \A i \in 1 .. Len(s) : s[i].to # "pin"

(* A confined call leaves alone what is not its own.                       *)
LEMMA ConfinedSpares ==
  ASSUME NEW s \in Seq(Writes), NEW o \in Callers, AllConfined(s, o)
  PROVE  /\ \A r, b : /\ b \notin Mine(o, r)
                      /\ o \in Channels => r \notin WholeRegs(o)
                      /\ o \in Encoders => r # Control(o)
                      => Spares(s, r, b)
         /\ \A r : /\ o \in Channels => r \notin {DutyReg(o), Reg(o, "arr", 0), Reg(o, "cnt", 0)}
                   /\ o = Motor => r \notin {DutyReg(Left), DutyReg(Right)}
                   => SparesCount(s, r)
         /\ o # Motor => SparesPins(s)
<1>1. \A i \in 1 .. Len(s) : s[i] \in Writes /\ Confined(s[i], o)
  BY DEF AllConfined
<1>2. ASSUME NEW r, NEW b, b \notin Mine(o, r),
             o \in Channels => r \notin WholeRegs(o), o \in Encoders => r # Control(o)
      PROVE  Spares(s, r, b)
  <2> SUFFICES ASSUME NEW i \in 1 .. Len(s)
               PROVE  s[i] \notin Setting(r, b) \cup Clearing(r, b)
    BY DEF Spares
  <2>1. Confined(s[i], o)
    BY <1>1
  <2> QED
    BY <1>2, <2>1 DEF Confined, Setting, Clearing
<1>3. ASSUME NEW r,
             o \in Channels => r \notin {DutyReg(o), Reg(o, "arr", 0), Reg(o, "cnt", 0)},
             o = Motor => r \notin {DutyReg(Left), DutyReg(Right)}
      PROVE  SparesCount(s, r)
  <2> SUFFICES ASSUME NEW i \in 1 .. Len(s)
               PROVE  ~(s[i].to = "count" /\ s[i].reg = r)
    BY DEF SparesCount
  <2>1. Confined(s[i], o)
    BY <1>1
  <2> QED
    BY <1>3, <2>1 DEF Confined
<1>4. o # Motor => SparesPins(s)
  BY <1>1 DEF Confined, SparesPins
<1> QED
  BY <1>2, <1>3, <1>4

(* When a call begins, what was true between the calls is promised on for  *)
(* every cell it leaves alone.                                             *)
LEMMA PromisesSpared ==
  ASSUME Idle, UNCHANGED <<bits, count, pins>>, pending' \in Seq(Writes)
  PROVE  /\ \A r, b : Spares(pending', r, b) => /\ BitWill(r, b) => BitWill(r, b)'
                                                /\ BitWont(r, b) => BitWont(r, b)'
         /\ \A r, n : SparesCount(pending', r) => (CountWill(r, n) => CountWill(r, n)')
         /\ \A p, v : SparesPins(pending') => (PinWill(p, v) => PinWill(p, v)')
<1>1. pending = <<>>
  BY DEF Idle
<1>2. ASSUME NEW r, NEW b, Spares(pending', r, b)
      PROVE  /\ BitWill(r, b) => BitWill(r, b)'
             /\ BitWont(r, b) => BitWont(r, b)'
  <2>1. BitWill(r, b) => b \in bits[r]
    BY <1>1, EndsEmpty DEF BitWill
  <2>2. BitWont(r, b) => b \in Bits \ bits[r]
    BY <1>1, EndsEmpty DEF BitWont
  <2> QED
    BY <1>2, <2>1, <2>2 DEF BitWill, BitWont, Ends, Spares
<1>3. ASSUME NEW r, NEW n, SparesCount(pending', r)
      PROVE  CountWill(r, n) => CountWill(r, n)'
  <2>1. CountWill(r, n) => count[r] \in {n}
    BY <1>1, EndsEmpty DEF CountWill
  <2>2. \A i \in 1 .. Len(pending') : pending'[i] \notin StoringElse(r, n)
    BY <1>3 DEF SparesCount, StoringElse
  <2> QED
    BY <2>1, <2>2 DEF CountWill, Ends
<1>4. ASSUME NEW p, NEW v, SparesPins(pending')
      PROVE  PinWill(p, v) => PinWill(p, v)'
  <2>1. PinWill(p, v) => pins[p] \in {v}
    BY <1>1, EndsEmpty DEF PinWill
  <2>2. \A i \in 1 .. Len(pending') : pending'[i] \notin DrivingElse(p, v)
    BY <1>4 DEF SparesPins, DrivingElse
  <2> QED
    BY <2>1, <2>2 DEF PinWill, Ends
<1> QED
  BY <1>2, <1>3, <1>4

(* Two channels of a program have no bit and no number in common.          *)
LEMMA Apart ==
  ASSUME NEW P \in Programs, NEW o \in Channels \cap P, NEW p \in Channels \cap P, o # p
  PROVE  /\ \A b \in PinField(p) : b \notin ChannelBits(o, Mux(p))
         /\ \A b \in ModeField(p) : b \notin ChannelBits(o, ModeReg(p))
         /\ {PolarityBit(p), EnableBit(p)} \cap ChannelBits(o, Reg(p, "ccer", 0)) = {}
         /\ DutyReg(p) \notin {DutyReg(o), Reg(o, "arr", 0), Reg(o, "cnt", 0)}
         /\ {Mux(p), ModeReg(p), Reg(p, "ccer", 0)} \cap WholeRegs(o) = {}
         /\ Reg(p, "ccer", 0) = Reg(o, "ccer", 0) => p.ch # o.ch
<1>1. /\ o \in Channels /\ p \in Channels /\ o.pin # p.pin
      /\ o.timer = p.timer => o.ch # p.ch
      /\ o.pin \in Nat /\ p.pin \in Nat /\ o.ch \in 0 .. 3 /\ p.ch \in 0 .. 3
      /\ o.neg \in {0, 1} /\ p.neg \in {0, 1}
  BY RegistersAssumption
<1>2. {Mux(p), ModeReg(p), Reg(p, "ccer", 0)} \cap WholeRegs(o) = {}
  BY <1>1, Names DEF WholeRegs
<1>3. ASSUME NEW b \in PinField(p)
      PROVE  b \notin ChannelBits(o, Mux(p))
  <2>1. Mux(p) # ModeReg(o) /\ Mux(p) # Reg(o, "ccer", 0) /\ Mux(p) \notin WholeRegs(o)
    BY <1>1, <1>2, Names
  <2>2. Mux(p) = Mux(o) => b \notin PinField(o)
    <3>1. Mux(p) = Mux(o) => p.pin \div 16 = o.pin \div 16
      BY DEF Mux
    <3>2. p.pin \div 16 = o.pin \div 16 => p.pin % 16 # o.pin % 16
      BY <1>1
    <3>3. p.pin % 16 \in Nat /\ o.pin % 16 \in Nat
      BY <1>1
    <3> QED
      BY <3>1, <3>2, <3>3 DEF PinField
  <2> QED
    BY <2>1, <2>2 DEF ChannelBits
<1>4. ASSUME NEW b \in ModeField(p)
      PROVE  b \notin ChannelBits(o, ModeReg(p))
  <2>1. ModeReg(p) # Mux(o) /\ ModeReg(p) # Reg(o, "ccer", 0) /\ ModeReg(p) \notin WholeRegs(o)
    BY <1>1, <1>2, Names
  <2>2. ModeReg(p) = ModeReg(o) => b \notin ModeField(o)
    <3>1. ModeReg(p) = ModeReg(o) => p.timer = o.timer /\ p.ch \div 2 = o.ch \div 2
      BY DEF ModeReg, Reg
    <3>2. p.ch # o.ch /\ p.ch \div 2 = o.ch \div 2 => p.ch % 2 # o.ch % 2
      BY <1>1
    <3>3. p.ch % 2 \in {0, 1} /\ o.ch % 2 \in {0, 1}
      BY <1>1
    <3> QED
      BY <1>1, <3>1, <3>2, <3>3 DEF ModeField
  <2> QED
    BY <2>1, <2>2 DEF ChannelBits
<1>5. Reg(p, "ccer", 0) = Reg(o, "ccer", 0) => p.ch # o.ch
  BY <1>1 DEF Reg
<1>6. {PolarityBit(p), EnableBit(p)} \cap ChannelBits(o, Reg(p, "ccer", 0)) = {}
  <2>1. /\ Reg(p, "ccer", 0) # Mux(o) /\ Reg(p, "ccer", 0) # ModeReg(o)
        /\ Reg(p, "ccer", 0) \notin WholeRegs(o)
    BY <1>1, <1>2, Names
  <2>2. p.ch # o.ch => {PolarityBit(p), EnableBit(p)}
                         \cap {o.ch * 4 + o.neg * 2, o.ch * 4 + 1 + o.neg * 2} = {}
    BY <1>1, Fields
  <2> QED
    BY <1>5, <2>1, <2>2 DEF ChannelBits
<1>7. DutyReg(p) \notin {DutyReg(o), Reg(o, "arr", 0), Reg(o, "cnt", 0)}
  BY <1>1 DEF DutyReg, Reg
<1> QED
  BY <1>2, <1>3, <1>4, <1>5, <1>6, <1>7

-----------------------------------------------------------------------------
(* What is promised of each object: the cells it works with will hold what *)
(* it was asked for.                                                       *)
ShapeWill(p) ==
  /\ \A b \in ModeField(p) : BitWill(ModeReg(p), b)
  /\ BitWill(Reg(p, "ccer", 0), PolarityBit(p))
  /\ \A b \in PinFunction(p) : BitWill(Mux(p), b)
  /\ p.timer = "gtim" => \A b \in PinField(p) \ PinFunction(p) : BitWont(Mux(p), b)
EnableWill(p) ==
  /\ asked[p].on = "yes" => BitWill(Reg(p, "ccer", 0), EnableBit(p))
  /\ asked[p].on = "no" => BitWont(Reg(p, "ccer", 0), EnableBit(p))
DutyWill(p) == CountWill(DutyReg(p), asked[p].duty)
ChannelWill(p) == ShapeWill(p) /\ EnableWill(p) /\ DutyWill(p)
EncoderWill(n) ==
  /\ \A b \in Measuring : BitWill(Control(n), b)
  /\ asked[n].on = "reset" => BitWill(Control(n), ResetBit)
  /\ asked[n].on # "reset" => BitWont(Control(n), ResetBit)
  /\ \A b \in Bits \ EncoderBits : BitWont(Control(n), b)
WheelsWill ==
  /\ asked[Motor].on = "ahead" => \A w \in Wheels : PinWill(<<w, "value">>, 1)
  /\ asked[Motor].on = "back" => \A w \in Wheels : PinWill(<<w, "value">>, 0)

(* The second invariant: every promise is kept.                            *)
PromisesKept ==
  /\ CallsConfined
  /\ \A p \in made \cap Channels : ChannelWill(p)
  /\ \A n \in made \cap Encoders : EncoderWill(n)
  /\ WheelsWill

(* Between the calls the promises are what the property asks for.          *)
LEMMA PromisesSuffice == PromisesKept => ObjectsWorkAsAsked
<1> SUFFICES ASSUME PromisesKept, Idle PROVE ObjectsWorkAsAsked
  BY DEF ObjectsWorkAsAsked, ChannelsWorkAsAsked, WheelsAgree
<1>1. /\ \A r, b : BitWill(r, b) => b \in bits[r]
      /\ \A r, b : BitWont(r, b) => b \in Bits \ bits[r]
      /\ \A r, n : CountWill(r, n) => count[r] = n
      /\ \A p, v : PinWill(p, v) => pins[p] = v
  BY EndsEmpty DEF Idle, BitWill, BitWont, CountWill, PinWill
<1>2. ASSUME NEW o \in made \cap Channels
      PROVE  WorksAsAsked(o)
  <2>1. ShapeWill(o) /\ EnableWill(o) /\ DutyWill(o)
    BY <1>2 DEF PromisesKept, ChannelWill
  <2>2. /\ ModeField(o) \subseteq bits[ModeReg(o)] /\ PolarityBit(o) \in bits[Reg(o, "ccer", 0)]
        /\ PinFunction(o) \subseteq bits[Mux(o)]
    BY <1>1, <2>1 DEF ShapeWill
  <2>3. o.timer = "gtim" => bits[Mux(o)] \cap PinField(o) = PinFunction(o)
    BY <1>1, <2>1, <2>2, Fields DEF ShapeWill
  <2>4. /\ asked[o].on = "yes" => EnableBit(o) \in bits[Reg(o, "ccer", 0)]
        /\ asked[o].on = "no" => EnableBit(o) \notin bits[Reg(o, "ccer", 0)]
    BY <1>1, <2>1 DEF EnableWill
  <2>5. count[DutyReg(o)] = asked[o].duty
    BY <1>1, <2>1 DEF DutyWill
  <2> QED
    BY <2>2, <2>3, <2>4, <2>5 DEF WorksAsAsked
<1>3. ASSUME NEW n \in made \cap Encoders
      PROVE  EncoderMeasures(n)
  <2>1. EncoderWill(n) /\ Control(n) \in BitRegs
    BY <1>3 DEF PromisesKept, BitRegs
  <2>2. bits[Control(n)] \subseteq Bits
    BY <2>1 DEF PromisesKept, CallsConfined, RegsTypeOK
  <2>3. /\ Measuring \subseteq bits[Control(n)]
        /\ bits[Control(n)] \subseteq EncoderBits
        /\ asked[n].on = "reset" <=> ResetBit \in bits[Control(n)]
    BY <1>1, <2>1, <2>2 DEF EncoderWill
  <2> QED
    BY <2>3 DEF EncoderMeasures, EncoderBits, Measuring, ResetBit
<1>4. WheelsAgree
  BY <1>1 DEF PromisesKept, WheelsWill, WheelsAgree
<1> QED
  BY <1>2, <1>3, <1>4 DEF ObjectsWorkAsAsked, ChannelsWorkAsAsked

-----------------------------------------------------------------------------
(* What a call keeps: the promises of the cells its writes leave alone.    *)
SparesShape(s, p) ==
  /\ \A b \in ModeField(p) : Spares(s, ModeReg(p), b)
  /\ Spares(s, Reg(p, "ccer", 0), PolarityBit(p))
  /\ \A b \in PinField(p) : Spares(s, Mux(p), b)

(* The same promises, when a call begins that spares their cells.          *)
LEMMA PromisesStay ==
  ASSUME Idle, UNCHANGED <<bits, count, pins>>, pending' \in Seq(Writes)
  PROVE  /\ \A p \in Channels : ShapeWill(p) /\ SparesShape(pending', p) => ShapeWill(p)'
         /\ \A p \in Channels : EnableWill(p) /\ Spares(pending', Reg(p, "ccer", 0), EnableBit(p))
                                  /\ asked'[p].on = asked[p].on => EnableWill(p)'
         /\ \A p \in Channels : DutyWill(p) /\ SparesCount(pending', DutyReg(p))
                                  /\ asked'[p].duty = asked[p].duty => DutyWill(p)'
         /\ \A n \in Encoders : EncoderWill(n) /\ (\A b \in Bits : Spares(pending', Control(n), b))
                                  /\ asked'[n].on = asked[n].on => EncoderWill(n)'
         /\ WheelsWill /\ SparesPins(pending') /\ asked'[Motor] = asked[Motor] => WheelsWill'
<1>1. /\ \A r, b : Spares(pending', r, b) => /\ BitWill(r, b) => BitWill(r, b)'
                                             /\ BitWont(r, b) => BitWont(r, b)'
      /\ \A r, n : SparesCount(pending', r) => (CountWill(r, n) => CountWill(r, n)')
      /\ \A p, v : SparesPins(pending') => (PinWill(p, v) => PinWill(p, v)')
  BY PromisesSpared
<1>2. ASSUME NEW p \in Channels, ShapeWill(p), SparesShape(pending', p)
      PROVE  ShapeWill(p)'
  BY <1>1, <1>2, Fields DEF ShapeWill, SparesShape
<1>3. ASSUME NEW p \in Channels, EnableWill(p),
             Spares(pending', Reg(p, "ccer", 0), EnableBit(p)), asked'[p].on = asked[p].on
      PROVE  EnableWill(p)'
  BY <1>1, <1>3 DEF EnableWill
<1>4. ASSUME NEW p \in Channels, DutyWill(p), SparesCount(pending', DutyReg(p)),
             asked'[p].duty = asked[p].duty
      PROVE  DutyWill(p)'
  BY <1>1, <1>4 DEF DutyWill
<1>5. ASSUME NEW n \in Encoders, EncoderWill(n), \A b \in Bits : Spares(pending', Control(n), b),
             asked'[n].on = asked[n].on
      PROVE  EncoderWill(n)'
  <2>1. Measuring \subseteq Bits /\ ResetBit \in Bits
    BY DEF Measuring, ResetBit, Bits
  <2> QED
    BY <1>1, <1>5, <2>1 DEF EncoderWill
<1>6. ASSUME WheelsWill, SparesPins(pending'), asked'[Motor] = asked[Motor]
      PROVE  WheelsWill'
  BY <1>1, <1>6 DEF WheelsWill
<1> QED
  BY <1>2, <1>3, <1>4, <1>5, <1>6

(* What the writes of a call of o leave alone of the others of a program.  *)
LEMMA OthersSpared ==
  ASSUME NEW P \in Programs, NEW o \in Askable, NEW s \in Seq(Writes), AllConfined(s, o),
         o \in Channels => o \in P, o = Motor => {Left, Right} \subseteq P
  PROVE  /\ \A p \in (Channels \cap P) \ {o} :
              /\ SparesShape(s, p)
              /\ p \notin {Left, Right} \/ o # Motor =>
                   Spares(s, Reg(p, "ccer", 0), EnableBit(p)) /\ SparesCount(s, DutyReg(p))
         /\ \A n \in Encoders \ {o} : \A b \in Bits : Spares(s, Control(n), b)
         /\ o # Motor => SparesPins(s)
<1>1. /\ o \in Callers
      /\ \A r, b : /\ b \notin Mine(o, r)
                   /\ o \in Channels => r \notin WholeRegs(o)
                   /\ o \in Encoders => r # Control(o)
                   => Spares(s, r, b)
      /\ \A r : /\ o \in Channels => r \notin {DutyReg(o), Reg(o, "arr", 0), Reg(o, "cnt", 0)}
                /\ o = Motor => r \notin {DutyReg(Left), DutyReg(Right)}
                => SparesCount(s, r)
      /\ o # Motor => SparesPins(s)
  BY ConfinedSpares DEF Callers, Askable
<1>2. {Left, Right} \subseteq Channels
  BY RegistersAssumption
<1>3. ASSUME NEW p \in (Channels \cap P) \ {o}
      PROVE  /\ SparesShape(s, p)
             /\ p \notin {Left, Right} \/ o # Motor =>
                  Spares(s, Reg(p, "ccer", 0), EnableBit(p)) /\ SparesCount(s, DutyReg(p))
  <2>1. CASE o \in Channels
    <3>1. o \in Channels \cap P /\ o \notin Encoders /\ o # Motor
      BY <2>1, Kinds
    <3>2. \A r : Mine(o, r) = ChannelBits(o, r)
      BY <3>1 DEF Mine
    <3>3. /\ \A b \in PinField(p) : b \notin ChannelBits(o, Mux(p))
          /\ \A b \in ModeField(p) : b \notin ChannelBits(o, ModeReg(p))
          /\ {PolarityBit(p), EnableBit(p)} \cap ChannelBits(o, Reg(p, "ccer", 0)) = {}
          /\ DutyReg(p) \notin {DutyReg(o), Reg(o, "arr", 0), Reg(o, "cnt", 0)}
          /\ {Mux(p), ModeReg(p), Reg(p, "ccer", 0)} \cap WholeRegs(o) = {}
      BY <1>3, <3>1, Apart
    <3> QED
      BY <1>1, <3>1, <3>2, <3>3 DEF SparesShape
  <2>2. CASE o \in Encoders
    <3>1. o \notin Channels /\ o # Motor
      BY <2>2, Kinds
    <3>2. Control(o) \notin {Mux(p), ModeReg(p), Reg(p, "ccer", 0)}
      BY RegistersAssumption DEF Control, Mux, ModeReg, Reg
    <3>3. \A r : r # Control(o) => Mine(o, r) = {}
      BY <2>2 DEF Mine
    <3> QED
      BY <1>1, <3>1, <3>2, <3>3 DEF SparesShape
  <2>3. CASE o = Motor
    <3>1. o \notin Channels /\ o \notin Encoders
      BY <2>3, Kinds
    <3>2. \A r : Mine(o, r) = MotorBits(r)
      BY <3>1 DEF Mine
    <3>3. /\ \A q \in Channels : Mux(p) # Reg(q, "ccer", 0) /\ ModeReg(p) # Reg(q, "ccer", 0)
      BY Names
    <3>4. MotorBits(Mux(p)) = {} /\ MotorBits(ModeReg(p)) = {}
      BY <1>2, <3>3 DEF MotorBits
    <3>5. ASSUME NEW q \in {Left, Right}
          PROVE  /\ PolarityBit(p) # q.ch * 4
                 /\ p # q => /\ Reg(p, "ccer", 0) = Reg(q, "ccer", 0) => EnableBit(p) # q.ch * 4
                             /\ DutyReg(p) # DutyReg(q)
      <4>1. /\ q \in Channels \cap P /\ p.ch \in 0 .. 3 /\ q.ch \in 0 .. 3 /\ p.neg \in {0, 1}
        BY <1>2, <2>3, RegistersAssumption
      <4>2. PolarityBit(p) # q.ch * 4
        BY <4>1, Fields
      <4>3. p # q => DutyReg(p) # DutyReg(q)
                     /\ (Reg(p, "ccer", 0) = Reg(q, "ccer", 0) => p.ch # q.ch)
        BY <4>1, Apart
      <4>4. p.ch # q.ch => EnableBit(p) # q.ch * 4
        BY <4>1, Fields
      <4> QED
        BY <4>2, <4>3, <4>4
    <3>6. PolarityBit(p) \notin MotorBits(Reg(p, "ccer", 0))
      BY <3>5 DEF MotorBits
    <3>7. p \notin {Left, Right} => /\ EnableBit(p) \notin MotorBits(Reg(p, "ccer", 0))
                                    /\ DutyReg(p) \notin {DutyReg(Left), DutyReg(Right)}
      BY <3>5 DEF MotorBits
    <3> QED
      BY <1>1, <2>3, <3>1, <3>2, <3>4, <3>6, <3>7 DEF SparesShape
  <2> QED
    BY <2>1, <2>2, <2>3 DEF Askable
<1>4. ASSUME NEW n \in Encoders \ {o}, NEW b \in Bits
      PROVE  Spares(s, Control(n), b)
  <2>1. CASE o \in Channels
    <3>1. o \notin Encoders /\ Mine(o, Control(n)) = ChannelBits(o, Control(n))
      BY <2>1, Kinds DEF Mine
    <3>2. Control(n) \notin {Mux(o), ModeReg(o), Reg(o, "ccer", 0)} \cup WholeRegs(o)
      BY <2>1, RegistersAssumption DEF Control, Mux, ModeReg, Reg, WholeRegs
    <3>3. ChannelBits(o, Control(n)) = {}
      BY <3>2 DEF ChannelBits
    <3> QED
      BY <1>1, <3>1, <3>2, <3>3
  <2>2. CASE o \in Encoders
    <3>1. o \notin Channels /\ o.encoder # n.encoder
      BY <2>2, <1>4, RegistersAssumption, Kinds
    <3>2. Control(n) # Control(o)
      BY <3>1 DEF Control
    <3>3. Mine(o, Control(n)) = {}
      BY <2>2, <3>2 DEF Mine
    <3> QED
      BY <1>1, <3>1, <3>2, <3>3
  <2>3. CASE o = Motor
    <3>1. o \notin Channels /\ o \notin Encoders /\ Mine(o, Control(n)) = MotorBits(Control(n))
      BY <2>3, Kinds DEF Mine
    <3>2. \A q \in Channels : Control(n) # Reg(q, "ccer", 0)
      BY RegistersAssumption DEF Control, Reg
    <3>3. MotorBits(Control(n)) = {}
      BY <1>2, <3>2 DEF MotorBits
    <3> QED
      BY <1>1, <3>1, <3>3
  <2> QED
    BY <2>1, <2>2, <2>3 DEF Askable
<1> QED
  BY <1>1, <1>3, <1>4

-----------------------------------------------------------------------------
(* A constructor promises mode, polarity, function and duty of its channel *)
(* whatever the registers hold; the enable bit it leaves as it was.        *)
LEMMA SetUpPromises ==
  ASSUME NEW o \in Channels, pending' = SetUp(o)
  PROVE  ShapeWill(o)' /\ CountWill(DutyReg(o), o.duty)'
<1> DEFINE f == FirstWrites(o)
           l == LastWrites(o)
<1>1. f \in Seq(Writes) /\ Len(f) = 9 /\ l \in Seq(Writes) /\ SetUp(o) = f \o l
  BY SetUpParts DEF SetUp, FirstWrites, LastWrites
<1>2. /\ f[1] = MuxWrite(o) /\ f[2] = Put(Reg(o, "egr", 0), {0}) /\ f[3] = Put(Reg(o, "cr1", 0), {0})
      /\ f[4] = Change(ModeReg(o), ModeField(o), {}) /\ f[5] = Change(ModeReg(o), {}, ModeField(o))
      /\ f[6] = Change(Reg(o, "ccer", 0), {PolarityBit(o)}, {})
      /\ f[7] = Change(Reg(o, "ccer", 0), {}, {PolarityBit(o)})
      /\ f[8] = Count(Reg(o, "arr", 0), o.period) /\ f[9] = Count(DutyReg(o), o.duty)
  BY DEF FirstWrites
<1>3. \A j \in 1 .. Len(l) : \/ l[j] = Put(Reg(o, "bdtr", 0), {15})
                             \/ l[j] = Count(Reg(o, "cnt", 0), 0)
  <2>1. CASE o.timer = "atim"
    <3>1. l = <<Put(Reg(o, "bdtr", 0), {15}), Count(Reg(o, "cnt", 0), 0)>>
      BY <2>1 DEF LastWrites
    <3> QED
      BY <3>1
  <2>2. CASE o.timer # "atim"
    <3>1. l = <<Count(Reg(o, "cnt", 0), 0)>>
      BY <2>2 DEF LastWrites
    <3> QED
      BY <3>1
  <2> QED
    BY <2>1, <2>2
<1>4. /\ Mux(o) # ModeReg(o) /\ Mux(o) # Reg(o, "ccer", 0) /\ ModeReg(o) # Reg(o, "ccer", 0)
      /\ \A name \in {"egr", "cr1", "bdtr"} :
           /\ Mux(o) # Reg(o, name, 0) /\ ModeReg(o) # Reg(o, name, 0)
           /\ Reg(o, "ccer", 0) # Reg(o, name, 0)
      /\ DutyReg(o) # Reg(o, "cnt", 0)
  BY Names
<1> HIDE DEF f, l
<1>5. \A i \in 1 .. Len(f) : f[i] \in Writes
  BY <1>1, ElementOfSeq
<1>6. \A i \in 1 .. 9 : f[i] \in Writes
  BY <1>1, <1>5
<1>7. ASSUME NEW i \in 1 .. 9, NEW x, NEW X, NEW good, NEW bad, f[i] \in good,
              \A j \in 1 .. 9 : j > i => f[j] \notin bad,
              \A j \in 1 .. Len(l) : l[j] \notin bad
       PROVE  Ends(f \o l, x, X, good, bad)
  <2>1. \A j \in i + 1 .. Len(f) : f[j] \notin bad
    BY <1>1, <1>7
  <2>2. i \in 1 .. Len(f)
    BY <1>1
  <2> QED
    BY <1>1, <1>7, <2>1, <2>2, EndsConcat
<1>8. ASSUME NEW x, NEW X, NEW b \in ModeField(o)
      PROVE  Ends(f \o l, x, X, Setting(ModeReg(o), b), Clearing(ModeReg(o), b))
  <2>1. f[5] \in Setting(ModeReg(o), b)
    BY <1>2, <1>6 DEF Change, Setting
  <2>2. \A j \in 1 .. 9 : j > 5 => f[j] \notin Clearing(ModeReg(o), b)
    BY <1>2, <1>4 DEF Change, Count, Clearing
  <2>3. \A j \in 1 .. Len(l) : l[j] \notin Clearing(ModeReg(o), b)
    BY <1>3, <1>4 DEF Put, Count, Clearing
  <2> QED
    BY <1>7, <2>1, <2>2, <2>3
<1>9. ASSUME NEW x, NEW X
      PROVE  Ends(f \o l, x, X, Setting(Reg(o, "ccer", 0), PolarityBit(o)),
                  Clearing(Reg(o, "ccer", 0), PolarityBit(o)))
  <2>1. f[7] \in Setting(Reg(o, "ccer", 0), PolarityBit(o))
    BY <1>2, <1>6 DEF Change, Setting
  <2>2. \A j \in 1 .. 9 : j > 7 => f[j] \notin Clearing(Reg(o, "ccer", 0), PolarityBit(o))
    BY <1>2 DEF Count, Clearing
  <2>3. \A j \in 1 .. Len(l) : l[j] \notin Clearing(Reg(o, "ccer", 0), PolarityBit(o))
    BY <1>3, <1>4 DEF Put, Count, Clearing
  <2> QED
    BY <1>7, <2>1, <2>2, <2>3
<1>10. ASSUME NEW b
      PROVE  /\ \A j \in 1 .. 9 : j > 1 => f[j] \notin Setting(Mux(o), b) \cup Clearing(Mux(o), b)
             /\ \A j \in 1 .. Len(l) : l[j] \notin Setting(Mux(o), b) \cup Clearing(Mux(o), b)
  <2>1. \A j \in 1 .. 9 : j > 1 => f[j] \notin Setting(Mux(o), b) \cup Clearing(Mux(o), b)
    BY <1>2, <1>4 DEF Change, Put, Count, Setting, Clearing
  <2>2. \A j \in 1 .. Len(l) : l[j] \notin Setting(Mux(o), b) \cup Clearing(Mux(o), b)
    BY <1>3, <1>4 DEF Put, Count, Setting, Clearing
  <2> QED
    BY <2>1, <2>2
<1>11. ASSUME NEW x, NEW X, NEW b \in PinFunction(o)
      PROVE  Ends(f \o l, x, X, Setting(Mux(o), b), Clearing(Mux(o), b))
  <2>1. f[1] \in Setting(Mux(o), b)
    BY <1>2, <1>6 DEF MuxWrite, Change, Setting
  <2> QED
    BY <1>10, <1>7, <2>1
<1>12. ASSUME o.timer = "gtim", NEW x, NEW X, NEW b \in PinField(o) \ PinFunction(o)
       PROVE  Ends(f \o l, x, X, Clearing(Mux(o), b), Setting(Mux(o), b))
  <2>1. f[1] \in Clearing(Mux(o), b)
    BY <1>2, <1>6, <1>12 DEF MuxWrite, Change, Clearing
  <2> QED
    BY <1>10, <1>7, <2>1
<1>13. ASSUME NEW x, NEW X
       PROVE  Ends(f \o l, x, X, Storing(DutyReg(o), o.duty), StoringElse(DutyReg(o), o.duty))
  <2>1. f[9] \in Storing(DutyReg(o), o.duty)
    BY <1>2, <1>6 DEF Count, Storing
  <2>2. \A j \in 1 .. Len(l) : l[j] \notin StoringElse(DutyReg(o), o.duty)
    BY <1>3, <1>4 DEF Put, Count, StoringElse
  <2>3. \A j \in 1 .. 9 : j > 9 => f[j] \notin StoringElse(DutyReg(o), o.duty)
    OBVIOUS
  <2> QED
    BY <1>7, <2>1, <2>2, <2>3
<1>14. ShapeWill(o)'
  <2>1. pending' = f \o l
    BY <1>1
  <2> QED
    BY <1>8, <1>9, <1>11, <1>12, <2>1 DEF ShapeWill, BitWill, BitWont
<1>15. CountWill(DutyReg(o), o.duty)'
  <2>1. pending' = f \o l
    BY <1>1
  <2> QED
    BY <1>13, <2>1 DEF CountWill
<1> QED
  BY <1>14, <1>15

(* One write, and then none.                                               *)
LEMMA EndsOne ==
  \A w, x, X, good, bad : w \in good => Ends(<<w>>, x, X, good, bad)
<1> SUFFICES ASSUME NEW w, NEW x, NEW X, NEW good, NEW bad, w \in good
             PROVE  Ends(<<w>>, x, X, good, bad)
  OBVIOUS
<1>1. Len(<<w>>) = 1 /\ <<w>>[1] \in good
  OBVIOUS
<1> QED
  BY <1>1 DEF Ends

(* What the other calls of a channel promise of its own cells, and spare.  *)
LEMMA UsePromises ==
  ASSUME NEW o \in Channels
  PROVE  /\ pending' = <<EnableWrite(o)>> =>
              /\ BitWill(Reg(o, "ccer", 0), EnableBit(o))'
              /\ SparesShape(pending', o) /\ SparesCount(pending', DutyReg(o))
         /\ pending' = <<DisableWrite(o)>> =>
              /\ BitWont(Reg(o, "ccer", 0), EnableBit(o))'
              /\ SparesShape(pending', o) /\ SparesCount(pending', DutyReg(o))
         /\ \A p \in Periods : pending' = PeriodWrites(o, p) =>
              /\ SparesShape(pending', o) /\ SparesCount(pending', DutyReg(o))
              /\ Spares(pending', Reg(o, "ccer", 0), EnableBit(o))
         /\ \A d \in Nat : pending' = <<DutyWrite(o, d)>> =>
              /\ CountWill(DutyReg(o), d)'
              /\ SparesShape(pending', o) /\ Spares(pending', Reg(o, "ccer", 0), EnableBit(o))
<1>1. /\ Mux(o) # ModeReg(o) /\ Mux(o) # Reg(o, "ccer", 0) /\ ModeReg(o) # Reg(o, "ccer", 0)
      /\ DutyReg(o) # Reg(o, "arr", 0) /\ DutyReg(o) # Reg(o, "cnt", 0)
  BY Names
<1>2. EnableBit(o) # PolarityBit(o) /\ EnableBit(o) \in Bits
  <2>1. o.ch \in 0 .. 3 /\ o.neg \in {0, 1}
    BY RegistersAssumption
  <2> QED
    BY <2>1, Fields
<1>3. /\ <<EnableWrite(o)>> \in Seq(Writes) /\ <<DisableWrite(o)>> \in Seq(Writes)
      /\ \A d \in Nat : <<DutyWrite(o, d)>> \in Seq(Writes)
  BY UseConfined
<1>4. EnableWrite(o) \in Writes /\ DisableWrite(o) \in Writes
  BY <1>3
<1>5. \A d \in Nat : DutyWrite(o, d) \in Writes
  BY <1>3
<1>6. ASSUME pending' = <<EnableWrite(o)>>
      PROVE  /\ BitWill(Reg(o, "ccer", 0), EnableBit(o))'
             /\ SparesShape(pending', o) /\ SparesCount(pending', DutyReg(o))
  <2>1. EnableWrite(o) \in Setting(Reg(o, "ccer", 0), EnableBit(o))
    BY <1>4 DEF EnableWrite, Change, Setting
  <2>2. BitWill(Reg(o, "ccer", 0), EnableBit(o))'
    BY <1>6, <2>1, EndsOne DEF BitWill
  <2>3. SparesShape(pending', o)
    BY <1>1, <1>2, <1>6 DEF SparesShape, Spares, EnableWrite, Change, Setting, Clearing
  <2>4. SparesCount(pending', DutyReg(o))
    BY <1>6 DEF SparesCount, EnableWrite, Change
  <2> QED
    BY <2>2, <2>3, <2>4
<1>7. ASSUME pending' = <<DisableWrite(o)>>
      PROVE  /\ BitWont(Reg(o, "ccer", 0), EnableBit(o))'
             /\ SparesShape(pending', o) /\ SparesCount(pending', DutyReg(o))
  <2>1. DisableWrite(o) \in Clearing(Reg(o, "ccer", 0), EnableBit(o))
    BY <1>4 DEF DisableWrite, Change, Clearing
  <2>2. BitWont(Reg(o, "ccer", 0), EnableBit(o))'
    BY <1>7, <2>1, EndsOne DEF BitWont
  <2>3. SparesShape(pending', o)
    BY <1>1, <1>2, <1>7 DEF SparesShape, Spares, DisableWrite, Change, Setting, Clearing
  <2>4. SparesCount(pending', DutyReg(o))
    BY <1>7 DEF SparesCount, DisableWrite, Change
  <2> QED
    BY <2>2, <2>3, <2>4
<1>8. ASSUME NEW p \in Periods, pending' = PeriodWrites(o, p)
      PROVE  /\ SparesShape(pending', o) /\ SparesCount(pending', DutyReg(o))
             /\ Spares(pending', Reg(o, "ccer", 0), EnableBit(o))
  <2>1. \A i \in 1 .. Len(pending') : /\ pending'[i].to = "count"
                                      /\ pending'[i].reg # DutyReg(o)
    BY <1>1, <1>8 DEF PeriodWrites, Count
  <2> QED
    BY <2>1 DEF SparesShape, Spares, SparesCount, Setting, Clearing
<1>9. ASSUME NEW d \in Nat, pending' = <<DutyWrite(o, d)>>
      PROVE  /\ CountWill(DutyReg(o), d)'
             /\ SparesShape(pending', o) /\ Spares(pending', Reg(o, "ccer", 0), EnableBit(o))
  <2>1. DutyWrite(o, d) \in Storing(DutyReg(o), d)
    BY <1>5 DEF DutyWrite, Count, Storing
  <2>2. CountWill(DutyReg(o), d)'
    BY <1>9, <2>1, EndsOne DEF CountWill
  <2>3. \A i \in 1 .. Len(pending') : pending'[i].to = "count"
    BY <1>9 DEF DutyWrite, Count
  <2> QED
    BY <2>2, <2>3 DEF SparesShape, Spares, Setting, Clearing
<1> QED
  BY <1>6, <1>7, <1>8, <1>9

(* A good write with no bad one after it.                                  *)
LEMMA EndsHere ==
  \A s, x, X, good, bad, i :
    /\ Len(s) \in Nat /\ i \in 1 .. Len(s) /\ s[i] \in good
    /\ \A j \in 1 .. Len(s) : j > i => s[j] \notin bad
    => Ends(s, x, X, good, bad)
<1> SUFFICES ASSUME NEW s, NEW x, NEW X, NEW good, NEW bad, NEW i \in 1 .. Len(s),
                    s[i] \in good, Len(s) \in Nat,
                    \A j \in 1 .. Len(s) : j > i => s[j] \notin bad
             PROVE  Ends(s, x, X, good, bad)
  OBVIOUS
<1>1. \A j \in i + 1 .. Len(s) : s[j] \notin bad
  OBVIOUS
<1> QED
  BY <1>1 DEF Ends

(* What the calls of an encoder promise of its register, and spare.        *)
LEMMA EncoderPromises ==
  ASSUME NEW n \in Encoders
  PROVE  /\ pending' = <<Put(Control(n), Measuring)>> =>
              /\ \A b \in Measuring : BitWill(Control(n), b)'
              /\ \A b \in Bits \ Measuring : BitWont(Control(n), b)'
         /\ pending' = <<CounterReset(n)>> =>
              /\ BitWill(Control(n), ResetBit)'
              /\ \A b \in Bits \ {ResetBit} : Spares(pending', Control(n), b)
<1>1. <<Put(Control(n), Measuring)>> \in Seq(Writes) /\ <<CounterReset(n)>> \in Seq(Writes)
  BY EncoderConfined
<1>2. Put(Control(n), Measuring) \in Writes /\ CounterReset(n) \in Writes
  BY <1>1
<1>3. ASSUME pending' = <<Put(Control(n), Measuring)>>
      PROVE  /\ \A b \in Measuring : BitWill(Control(n), b)'
             /\ \A b \in Bits \ Measuring : BitWont(Control(n), b)'
  <2>1. /\ \A b \in Measuring : Put(Control(n), Measuring) \in Setting(Control(n), b)
        /\ \A b \in Bits \ Measuring : Put(Control(n), Measuring) \in Clearing(Control(n), b)
    BY <1>2 DEF Put, Setting, Clearing
  <2> QED
    BY <1>3, <2>1, EndsOne DEF BitWill, BitWont
<1>4. ASSUME pending' = <<CounterReset(n)>>
      PROVE  /\ BitWill(Control(n), ResetBit)'
             /\ \A b \in Bits \ {ResetBit} : Spares(pending', Control(n), b)
  <2>1. CounterReset(n) \in Setting(Control(n), ResetBit)
    BY <1>2 DEF CounterReset, Change, Setting
  <2>2. \A b \in Bits \ {ResetBit} :
          CounterReset(n) \notin Setting(Control(n), b) \cup Clearing(Control(n), b)
    BY DEF CounterReset, Change, Setting, Clearing
  <2>3. BitWill(Control(n), ResetBit)'
    BY <1>4, <2>1, EndsOne DEF BitWill
  <2> QED
    BY <1>4, <2>2, <2>3 DEF Spares
<1> QED
  BY <1>3, <1>4

(* What the motor functions promise: how the wheels turn, that both duties *)
(* end alike, and that only motor_init touches the enable bits.            *)
TurnWill(v) == \A w \in Wheels : PinWill(<<w, "value">>, v)
DutiesWill(d) == \A o \in {Left, Right} : CountWill(DutyReg(o), d)
EnablesWill == \A o \in {Left, Right} : BitWill(Reg(o, "ccer", 0), EnableBit(o))
SparesEnables(s) == \A o \in {Left, Right} : Spares(s, Reg(o, "ccer", 0), EnableBit(o))
SparesDuties(s) == \A o \in {Left, Right} : SparesCount(s, DutyReg(o))

(* See TurnWill.                                                           *)
LEMMA MotorPromises ==
  /\ pending' = MotorInitWrites => TurnWill(1)' /\ DutiesWill(InitDuty)' /\ EnablesWill'
  /\ \A v \in {0, 1} : pending' = Turn(v) =>
       TurnWill(v)' /\ SparesEnables(pending') /\ SparesDuties(pending')
  /\ pending' = Both(StopDuty) =>
       DutiesWill(StopDuty)' /\ SparesEnables(pending') /\ SparesPins(pending')
  /\ pending' = ZebraStopWrites =>
       TurnWill(1)' /\ DutiesWill(StopDuty)' /\ SparesEnables(pending')
<1>1. /\ \A s \in {MotorInitWrites, Turn(1), Turn(0), Both(StopDuty), ZebraStopWrites} :
           s \in Seq(Writes)
  BY MotorConfined
<1>2. \A s \in {MotorInitWrites, Turn(1), Turn(0), Both(StopDuty), ZebraStopWrites} :
        \A i \in 1 .. Len(s) : s[i] \in Writes
  BY <1>1, ElementOfSeq
<1>3. ASSUME pending' = MotorInitWrites
      PROVE  TurnWill(1)' /\ DutiesWill(InitDuty)' /\ EnablesWill'
  <2> DEFINE s == MotorInitWrites
  <2>1. /\ Len(s) = 8
        /\ s[3] = Pin("L", "value", 1) /\ s[4] = Pin("R", "value", 1)
        /\ s[5] = EnableWrite(Left) /\ s[6] = EnableWrite(Right)
        /\ s[7] = DutyWrite(Left, InitDuty) /\ s[8] = DutyWrite(Right, InitDuty)
    BY DEF MotorInitWrites
  <2>2. \A i \in 1 .. 8 : s[i] \in Writes
    BY <1>2, <2>1
  <2> HIDE DEF s
  <2>3. ASSUME NEW i \in 1 .. 8, NEW x, NEW X, NEW good, NEW bad, s[i] \in good,
               \A j \in 1 .. 8 : j > i => s[j] \notin bad
        PROVE  Ends(s, x, X, good, bad)
    BY <2>1, <2>3, EndsHere
  <2>4. ASSUME NEW w \in Wheels
        PROVE  PinWill(<<w, "value">>, 1)'
    <3>1. \A j \in 1 .. 8 : j > 4 => s[j].to # "pin"
      BY <2>1 DEF EnableWrite, DutyWrite, Change, Count
    <3>2. \A j \in 1 .. 8 : j > 3 => s[j] \notin DrivingElse(<<"L", "value">>, 1)
      BY <2>1, <3>1 DEF Pin, DrivingElse
    <3>3. \A j \in 1 .. 8 : j > 4 => s[j] \notin DrivingElse(<<"R", "value">>, 1)
      BY <3>1 DEF DrivingElse
    <3>4. s[3] \in Driving(<<"L", "value">>, 1) /\ s[4] \in Driving(<<"R", "value">>, 1)
      BY <2>1, <2>2 DEF Pin, Driving
    <3>5. pending' = s
      BY <1>3 DEF s
    <3> QED
      BY <2>3, <3>2, <3>3, <3>4, <3>5 DEF PinWill, Wheels
  <2>5. ASSUME NEW o \in {Left, Right}
        PROVE  CountWill(DutyReg(o), InitDuty)'
    <3>1. \A j \in 1 .. 8 : j > 6 => s[j] \notin StoringElse(DutyReg(o), InitDuty)
      BY <2>1 DEF DutyWrite, Count, StoringElse
    <3>2. s[7] \in Storing(DutyReg(Left), InitDuty) /\ s[8] \in Storing(DutyReg(Right), InitDuty)
      BY <2>1, <2>2 DEF DutyWrite, Count, Storing
    <3>3. pending' = s
      BY <1>3 DEF s
    <3> QED
      BY <2>3, <3>1, <3>2, <3>3 DEF CountWill
  <2>6. ASSUME NEW o \in {Left, Right}
        PROVE  BitWill(Reg(o, "ccer", 0), EnableBit(o))'
    <3>1. \A j \in 1 .. 8 : j > 4 => s[j] \notin Clearing(Reg(o, "ccer", 0), EnableBit(o))
      BY <2>1 DEF EnableWrite, DutyWrite, Change, Count, Clearing
    <3>2. \/ s[5] \in Setting(Reg(o, "ccer", 0), EnableBit(o))
          \/ s[6] \in Setting(Reg(o, "ccer", 0), EnableBit(o))
      BY <2>1, <2>2 DEF EnableWrite, Change, Setting
    <3>3. pending' = s
      BY <1>3 DEF s
    <3> QED
      BY <2>3, <3>1, <3>2, <3>3 DEF BitWill
  <2> QED
    BY <2>4, <2>5, <2>6 DEF TurnWill, DutiesWill, EnablesWill
<1>4. ASSUME NEW v \in {0, 1}, pending' = Turn(v)
      PROVE  TurnWill(v)' /\ SparesEnables(pending') /\ SparesDuties(pending')
  <2>1. Len(Turn(v)) = 2 /\ Turn(v)[1] = Pin("L", "value", v) /\ Turn(v)[2] = Pin("R", "value", v)
    BY DEF Turn
  <2>2. Turn(v) \in Seq(Writes)
    BY <1>1
  <2>3. Pin("L", "value", v) \in Writes /\ Pin("R", "value", v) \in Writes
    BY <2>1, <2>2, ElementOfSeq
  <2>4. /\ Turn(v)[1] \in Driving(<<"L", "value">>, v) /\ Turn(v)[2] \in Driving(<<"R", "value">>, v)
        /\ Turn(v)[2] \notin DrivingElse(<<"L", "value">>, v)
    BY <2>1, <2>3 DEF Pin, Driving, DrivingElse
  <2>5. TurnWill(v)'
    BY <1>4, <2>1, <2>4, EndsHere DEF TurnWill, PinWill, Wheels
  <2>6. \A i \in 1 .. Len(pending') : pending'[i].to = "pin"
    BY <1>4, <2>1 DEF Pin
  <2> QED
    BY <2>5, <2>6 DEF SparesEnables, SparesDuties, Spares, SparesCount, Setting, Clearing
<1>5. ASSUME pending' = Both(StopDuty)
      PROVE  DutiesWill(StopDuty)' /\ SparesEnables(pending') /\ SparesPins(pending')
  <2> DEFINE s == Both(StopDuty)
  <2>1. Len(s) = 2 /\ s[1] = DutyWrite(Left, StopDuty) /\ s[2] = DutyWrite(Right, StopDuty)
    BY DEF Both
  <2>2. s[1] \in Writes /\ s[2] \in Writes
    BY <1>2, <2>1
  <2>3. /\ s[1] \in Storing(DutyReg(Left), StopDuty) /\ s[2] \in Storing(DutyReg(Right), StopDuty)
        /\ \A o \in {Left, Right} : s[2] \notin StoringElse(DutyReg(o), StopDuty)
    BY <2>1, <2>2 DEF DutyWrite, Count, Storing, StoringElse
  <2>4. DutiesWill(StopDuty)'
    BY <1>5, <2>1, <2>3, EndsHere DEF DutiesWill, CountWill
  <2>5. \A i \in 1 .. Len(pending') : pending'[i].to = "count"
    BY <1>5, <2>1 DEF DutyWrite, Count
  <2> QED
    BY <2>4, <2>5 DEF SparesEnables, SparesPins, Spares, Setting, Clearing
<1>6. ASSUME pending' = ZebraStopWrites
      PROVE  TurnWill(1)' /\ DutiesWill(StopDuty)' /\ SparesEnables(pending')
  <2> DEFINE s == ZebraStopWrites
  <2>1. /\ Len(s) = 8
        /\ s[1] = Pin("L", "value", 0) /\ s[2] = Pin("R", "value", 0)
        /\ s[3] = DutyWrite(Left, ZebraDuty) /\ s[4] = DutyWrite(Right, ZebraDuty)
        /\ s[5] = Pin("L", "value", 1) /\ s[6] = Pin("R", "value", 1)
        /\ s[7] = DutyWrite(Left, StopDuty) /\ s[8] = DutyWrite(Right, StopDuty)
    BY DEF ZebraStopWrites
  <2>2. \A i \in 1 .. 8 : s[i] \in Writes
    BY <1>2, <2>1
  <2> HIDE DEF s
  <2>3. ASSUME NEW i \in 1 .. 8, NEW x, NEW X, NEW good, NEW bad, s[i] \in good,
               \A j \in 1 .. 8 : j > i => s[j] \notin bad
        PROVE  Ends(s, x, X, good, bad)
    BY <2>1, <2>3, EndsHere
  <2>4. ASSUME NEW w \in Wheels
        PROVE  PinWill(<<w, "value">>, 1)'
    <3>1. \A j \in 1 .. 8 : j > 6 => s[j].to # "pin"
      BY <2>1 DEF DutyWrite, Count
    <3>2. \A j \in 1 .. 8 : j > 5 => s[j] \notin DrivingElse(<<"L", "value">>, 1)
      BY <2>1, <3>1 DEF Pin, DrivingElse
    <3>3. \A j \in 1 .. 8 : j > 6 => s[j] \notin DrivingElse(<<"R", "value">>, 1)
      BY <3>1 DEF DrivingElse
    <3>4. s[5] \in Driving(<<"L", "value">>, 1) /\ s[6] \in Driving(<<"R", "value">>, 1)
      BY <2>1, <2>2 DEF Pin, Driving
    <3>5. pending' = s
      BY <1>6 DEF s
    <3> QED
      BY <2>3, <3>2, <3>3, <3>4, <3>5 DEF PinWill, Wheels
  <2>5. ASSUME NEW o \in {Left, Right}
        PROVE  CountWill(DutyReg(o), StopDuty)'
    <3>1. \A j \in 1 .. 8 : j > 6 => s[j] \notin StoringElse(DutyReg(o), StopDuty)
      BY <2>1 DEF DutyWrite, Count, StoringElse
    <3>2. s[7] \in Storing(DutyReg(Left), StopDuty) /\ s[8] \in Storing(DutyReg(Right), StopDuty)
      BY <2>1, <2>2 DEF DutyWrite, Count, Storing
    <3>3. pending' = s
      BY <1>6 DEF s
    <3> QED
      BY <2>3, <3>1, <3>2, <3>3 DEF CountWill
  <2>6. \A i \in 1 .. 8 : s[i].to \in {"pin", "count"}
    BY <2>1 DEF Pin, DutyWrite, Count
  <2>7. SparesEnables(pending')
    <3>1. pending' = s
      BY <1>6 DEF s
    <3> QED
      BY <2>1, <2>6, <3>1 DEF SparesEnables, Spares, Setting, Clearing
  <2> QED
    BY <2>4, <2>5, <2>7 DEF TurnWill, DutiesWill
<1> QED
  BY <1>3, <1>4, <1>5, <1>6

-----------------------------------------------------------------------------
(* A call keeps the promises made to the others.                           *)
LEMMA OthersKept ==
  ASSUME PromisesKept, NEW o \in Askable, NEW s \in Seq(Writes), AllConfined(s, o),
         NEW a, Begin(o, s, a), o \in Channels => o \in program,
         o = Motor => {Left, Right} \subseteq program,
         \A p \in Askable \ {o} : p \notin {Left, Right} \/ o # Motor => a[p] = asked[p]
  PROVE  /\ \A p \in (made \cap Channels) \ {o} :
              /\ ShapeWill(p)'
              /\ p \notin {Left, Right} \/ o # Motor => EnableWill(p)' /\ DutyWill(p)'
         /\ \A n \in (made \cap Encoders) \ {o} : EncoderWill(n)'
         /\ o # Motor => WheelsWill'
<1>1. /\ Idle /\ pending' = s /\ asked' = a /\ UNCHANGED <<bits, count, pins>>
  BY DEF Begin
<1>2. program \in Programs /\ made \subseteq program
  BY DEF PromisesKept, CallsConfined, RegsTypeOK
<1>3. PICK P \in Programs : P = program
  BY <1>2
<1>4. /\ \A p \in (Channels \cap P) \ {o} :
           /\ SparesShape(s, p)
           /\ p \notin {Left, Right} \/ o # Motor =>
                Spares(s, Reg(p, "ccer", 0), EnableBit(p)) /\ SparesCount(s, DutyReg(p))
      /\ \A n \in Encoders \ {o} : \A b \in Bits : Spares(s, Control(n), b)
      /\ o # Motor => SparesPins(s)
  BY <1>3, OthersSpared
<1>5. /\ \A p \in Channels : ShapeWill(p) /\ SparesShape(pending', p) => ShapeWill(p)'
      /\ \A p \in Channels : EnableWill(p) /\ Spares(pending', Reg(p, "ccer", 0), EnableBit(p))
                               /\ asked'[p].on = asked[p].on => EnableWill(p)'
      /\ \A p \in Channels : DutyWill(p) /\ SparesCount(pending', DutyReg(p))
                               /\ asked'[p].duty = asked[p].duty => DutyWill(p)'
      /\ \A n \in Encoders : EncoderWill(n) /\ (\A b \in Bits : Spares(pending', Control(n), b))
                               /\ asked'[n].on = asked[n].on => EncoderWill(n)'
      /\ WheelsWill /\ SparesPins(pending') /\ asked'[Motor] = asked[Motor] => WheelsWill'
  BY <1>1, PromisesStay
<1>6. ASSUME NEW p \in (made \cap Channels) \ {o}
      PROVE  /\ ShapeWill(p)'
             /\ p \notin {Left, Right} \/ o # Motor => EnableWill(p)' /\ DutyWill(p)'
  <2>1. p \in Channels \cap P /\ p \in Askable /\ ShapeWill(p) /\ EnableWill(p) /\ DutyWill(p)
    BY <1>2, <1>3, <1>6 DEF PromisesKept, ChannelWill, Askable
  <2>2. ShapeWill(p)'
    BY <1>1, <1>4, <1>5, <1>6, <2>1
  <2>3. ASSUME p \notin {Left, Right} \/ o # Motor
        PROVE  EnableWill(p)' /\ DutyWill(p)'
    <3>1. a[p] = asked[p]
      BY <1>6, <2>1, <2>3
    <3>2. EnableWill(p)'
      BY <1>1, <1>4, <1>5, <1>6, <2>1, <2>3, <3>1
    <3>3. DutyWill(p)'
      BY <1>1, <1>4, <1>5, <1>6, <2>1, <2>3, <3>1
    <3> QED
      BY <3>2, <3>3
  <2> QED
    BY <2>2, <2>3
<1>7. ASSUME NEW n \in (made \cap Encoders) \ {o}
      PROVE  EncoderWill(n)'
  <2>1. n \in Encoders /\ n \in Askable /\ n \notin {Left, Right} /\ EncoderWill(n)
    BY <1>7, Kinds, RegistersAssumption DEF PromisesKept, Askable
  <2>2. a[n] = asked[n]
    BY <1>7, <2>1
  <2> QED
    BY <1>1, <1>4, <1>5, <1>7, <2>1, <2>2
<1>8. ASSUME o # Motor
      PROVE  WheelsWill'
  <2>1. Motor \in Askable /\ WheelsWill
    BY DEF PromisesKept, Askable
  <2>2. a[Motor] = asked[Motor]
    BY <1>8, <2>1
  <2> QED
    BY <1>1, <1>4, <1>5, <1>8, <2>1, <2>2
<1> QED
  BY <1>6, <1>7, <1>8

(* The same for a call of a channel: what is left is its own channel.      *)
LEMMA ChannelCall ==
  ASSUME PromisesKept, CallsConfined', NEW o \in Channels \cap program, NEW s \in Seq(Writes),
         AllConfined(s, o), NEW a, Begin(o, s, a), \A p \in Askable \ {o} : a[p] = asked[p],
         made' \subseteq made \cup {o}, o \in made' => ChannelWill(o)'
  PROVE  PromisesKept'
<1>1. o \in Askable /\ o # Motor /\ o \notin Encoders
  BY Kinds DEF Askable
<1>2. /\ \A p \in (made \cap Channels) \ {o} : ShapeWill(p)' /\ EnableWill(p)' /\ DutyWill(p)'
      /\ \A n \in (made \cap Encoders) \ {o} : EncoderWill(n)'
      /\ WheelsWill'
  BY <1>1, OthersKept
<1>3. \A p \in made' \cap Channels : ChannelWill(p)'
  BY <1>2 DEF ChannelWill
<1>4. \A n \in made' \cap Encoders : EncoderWill(n)'
  BY <1>1, <1>2
<1> QED
  BY <1>2, <1>3, <1>4 DEF PromisesKept

(* The same for a call of an encoder.                                      *)
LEMMA EncoderCall ==
  ASSUME PromisesKept, CallsConfined', NEW o \in Encoders, NEW s \in Seq(Writes),
         AllConfined(s, o), NEW a, Begin(o, s, a), \A p \in Askable \ {o} : a[p] = asked[p],
         made' \subseteq made \cup {o}, EncoderWill(o)'
  PROVE  PromisesKept'
<1>1. o \in Askable /\ o # Motor /\ o \notin Channels
  BY Kinds DEF Askable
<1>2. /\ \A p \in (made \cap Channels) \ {o} : ShapeWill(p)' /\ EnableWill(p)' /\ DutyWill(p)'
      /\ \A n \in (made \cap Encoders) \ {o} : EncoderWill(n)'
      /\ WheelsWill'
  BY <1>1, OthersKept
<1>3. \A p \in made' \cap Channels : ChannelWill(p)'
  BY <1>1, <1>2 DEF ChannelWill
<1>4. \A n \in made' \cap Encoders : EncoderWill(n)'
  BY <1>2
<1> QED
  BY <1>2, <1>3, <1>4 DEF PromisesKept

(* The motor functions keep the shape of their channels, and promise the   *)
(* rest.                                                                   *)
LEMMA MotorCallKeeps ==
  ASSUME PromisesKept, CallsConfined', MotorCall
  PROVE  PromisesKept'
<1>1. /\ {Left, Right} \subseteq made /\ {Left, Right} \subseteq Channels /\ {Left, Right} \subseteq program
      /\ Motor \in Askable /\ Motor \notin Channels /\ Motor \notin Encoders
      /\ made' = made /\ asked \in [Askable -> Asked]
  BY Kinds, RegistersAssumption DEF MotorCall, Motors, PromisesKept, CallsConfined, RegsTypeOK, Askable
<1>2. ASSUME NEW s \in {MotorInitWrites, Turn(1), Turn(0), Both(StopDuty), ZebraStopWrites},
             NEW a, Begin(Motor, s, a), \A p \in Askable \ {Motor, Left, Right} : a[p] = asked[p],
             \A p \in {Left, Right} : EnableWill(p)' /\ DutyWill(p)', WheelsWill'
      PROVE  PromisesKept'
  <2>1. s \in Seq(Writes) /\ AllConfined(s, Motor)
    BY MotorConfined
  <2>2. \A p \in Askable \ {Motor} : p \notin {Left, Right} \/ Motor # Motor => a[p] = asked[p]
    BY <1>2
  <2>3. /\ \A p \in (made \cap Channels) \ {Motor} :
             ShapeWill(p)' /\ (p \notin {Left, Right} => EnableWill(p)' /\ DutyWill(p)')
        /\ \A n \in (made \cap Encoders) \ {Motor} : EncoderWill(n)'
    BY <1>1, <1>2, <2>1, <2>2, OthersKept
  <2>4. \A p \in made' \cap Channels : ChannelWill(p)'
    BY <1>1, <1>2, <2>3 DEF ChannelWill
  <2>5. \A n \in made' \cap Encoders : EncoderWill(n)'
    BY <1>1, <2>3
  <2> QED
    BY <1>2, <2>4, <2>5 DEF PromisesKept
<1>3. \A s \in {MotorInitWrites, Turn(1), Turn(0), Both(StopDuty), ZebraStopWrites} :
        s \in Seq(Writes)
  BY MotorConfined
<1>4. /\ Idle /\ UNCHANGED <<bits, count, pins>>
      /\ pending' \in {MotorInitWrites, Turn(1), Turn(0), Both(StopDuty), ZebraStopWrites}
  BY DEF MotorCall, Begin
<1>5. /\ \A p \in Channels : EnableWill(p) /\ Spares(pending', Reg(p, "ccer", 0), EnableBit(p))
                               /\ asked'[p].on = asked[p].on => EnableWill(p)'
      /\ \A p \in Channels : DutyWill(p) /\ SparesCount(pending', DutyReg(p))
                               /\ asked'[p].duty = asked[p].duty => DutyWill(p)'
      /\ WheelsWill /\ SparesPins(pending') /\ asked'[Motor] = asked[Motor] => WheelsWill'
  BY <1>3, <1>4, PromisesStay
<1>6. /\ WheelsWill /\ \A p \in {Left, Right} : EnableWill(p) /\ DutyWill(p)
  BY <1>1 DEF PromisesKept, ChannelWill
<1>7. /\ MotorWish(InitWish, "ahead", InitDuty)
      /\ MotorWish(ZebraWish, "ahead", StopDuty)
      /\ MotorWish(Wishes(StopDuty), asked[Motor].on, StopDuty)
      /\ \A o \in {Left, Right} : /\ InitWish[o].on = "yes"
                                  /\ ZebraWish[o].on = asked[o].on
                                  /\ Wishes(StopDuty)[o].on = asked[o].on
  BY <1>1, MotorWishes
<1>8. CASE Begin(Motor, MotorInitWrites, InitWish)
  <2>1. pending' = MotorInitWrites /\ asked' = InitWish
    BY <1>8 DEF Begin
  <2>2. TurnWill(1)' /\ DutiesWill(InitDuty)' /\ EnablesWill'
    BY <2>1, MotorPromises
  <2>3. \A p \in {Left, Right} : EnableWill(p)' /\ DutyWill(p)'
    BY <1>7, <2>1, <2>2 DEF EnableWill, DutyWill, DutiesWill, EnablesWill, MotorWish
  <2>4. WheelsWill'
    BY <1>7, <2>1, <2>2 DEF WheelsWill, TurnWill, MotorWish
  <2> QED
    BY <1>2, <1>7, <1>8, <2>3, <2>4 DEF MotorWish
<1>9. ASSUME NEW v \in {0, 1}, Begin(Motor, Turn(v), Wish(Motor, IF v = 1 THEN "ahead" ELSE "back"))
      PROVE  PromisesKept'
  <2> DEFINE on == IF v = 1 THEN "ahead" ELSE "back"
  <2>1. pending' = Turn(v) /\ asked' = Wish(Motor, on)
    BY <1>9 DEF Begin
  <2>2. on \in {"as it was", "yes", "no", "reset", "ahead", "back"}
    OBVIOUS
  <2>3. /\ Wish(Motor, on)[Motor].on = on
        /\ \A p \in Askable \ {Motor} : Wish(Motor, on)[p] = asked[p]
    <3> HIDE DEF on
    <3> QED
      BY <1>1, <2>2, WishOn
  <2>4. TurnWill(v)' /\ SparesEnables(pending') /\ SparesDuties(pending')
    BY <2>1, MotorPromises
  <2>5. \A p \in {Left, Right} : EnableWill(p)' /\ DutyWill(p)'
    <3>1. \A p \in {Left, Right} : p \in Channels /\ asked'[p] = asked[p]
      BY <1>1, <2>1, <2>3 DEF Askable
    <3> QED
      BY <1>5, <1>6, <2>4, <3>1 DEF SparesEnables, SparesDuties
  <2>6. WheelsWill'
    BY <2>1, <2>3, <2>4 DEF WheelsWill, TurnWill
  <2>7. Turn(v) \in {MotorInitWrites, Turn(1), Turn(0), Both(StopDuty), ZebraStopWrites}
    OBVIOUS
  <2> QED
    BY <1>2, <1>9, <2>3, <2>5, <2>6, <2>7
<1>10. CASE Begin(Motor, Both(StopDuty), Wishes(StopDuty))
  <2>1. pending' = Both(StopDuty) /\ asked' = Wishes(StopDuty)
    BY <1>10 DEF Begin
  <2>2. DutiesWill(StopDuty)' /\ SparesEnables(pending') /\ SparesPins(pending')
    BY <2>1, MotorPromises
  <2>3. \A p \in {Left, Right} : EnableWill(p)'
    BY <1>1, <1>5, <1>6, <1>7, <2>1, <2>2 DEF SparesEnables
  <2>4. \A p \in {Left, Right} : DutyWill(p)'
    BY <1>7, <2>1, <2>2 DEF DutyWill, DutiesWill, MotorWish
  <2>5. WheelsWill'
    <3>1. asked'[Motor].on = asked[Motor].on
      BY <1>7, <2>1 DEF MotorWish
    <3>2. \A p, v : PinWill(p, v) => PinWill(p, v)'
      BY <1>3, <1>4, <2>2, PromisesSpared
    <3> QED
      BY <1>6, <3>1, <3>2 DEF WheelsWill
  <2> QED
    BY <1>2, <1>7, <1>10, <2>3, <2>4, <2>5 DEF MotorWish
<1>11. CASE Begin(Motor, ZebraStopWrites, ZebraWish)
  <2>1. pending' = ZebraStopWrites /\ asked' = ZebraWish
    BY <1>11 DEF Begin
  <2>2. TurnWill(1)' /\ DutiesWill(StopDuty)' /\ SparesEnables(pending')
    BY <2>1, MotorPromises
  <2>3. \A p \in {Left, Right} : EnableWill(p)'
    BY <1>1, <1>5, <1>6, <1>7, <2>1, <2>2 DEF SparesEnables
  <2>4. \A p \in {Left, Right} : DutyWill(p)'
    BY <1>7, <2>1, <2>2 DEF DutyWill, DutiesWill, MotorWish
  <2>5. WheelsWill'
    BY <1>7, <2>1, <2>2 DEF WheelsWill, TurnWill, MotorWish
  <2> QED
    BY <1>2, <1>7, <1>11, <2>3, <2>4, <2>5 DEF MotorWish
<1> QED
  BY <1>8, <1>9, <1>10, <1>11 DEF MotorCall, InitWish, ZebraWish

(* Making a channel, using it and destroying it keep every promise.        *)
LEMMA ChannelCallsKeep ==
  ASSUME PromisesKept, CallsConfined', MakeChannel \/ UseChannel \/ DestroyChannel
  PROVE  PromisesKept'
<1>1. asked \in [Askable -> Asked] /\ made \subseteq program
  BY DEF PromisesKept, CallsConfined, RegsTypeOK
<1>2. CASE MakeChannel
  <2>1. PICK o \in (Channels \cap program) \ made :
          /\ Begin(o, SetUp(o), [asked EXCEPT ![o] = [on |-> "as it was", duty |-> o.duty]])
          /\ made' = made \cup {o}
    BY <1>2 DEF MakeChannel
  <2> DEFINE a == [asked EXCEPT ![o] = [on |-> "as it was", duty |-> o.duty]]
  <2>2. o \in Askable
    BY DEF Askable
  <2>3. /\ a[o].on = "as it was" /\ a[o].duty = o.duty
        /\ \A p \in Askable \ {o} : a[p] = asked[p]
    BY <1>1, <2>2
  <2> HIDE DEF a
  <2>4. Begin(o, SetUp(o), a) /\ pending' = SetUp(o) /\ asked' = a
    BY <2>1 DEF Begin, a
  <2>5. ShapeWill(o)' /\ CountWill(DutyReg(o), o.duty)'
    BY <2>4, SetUpPromises
  <2>6. ChannelWill(o)'
    BY <2>3, <2>4, <2>5 DEF ChannelWill, EnableWill, DutyWill
  <2> QED
    BY <2>1, <2>3, <2>4, <2>6, SetUpConfined, ChannelCall
<1>3. CASE UseChannel
  <2>1. PICK o \in Channels \cap made :
          \/ Begin(o, <<EnableWrite(o)>>, Wish(o, "yes"))
          \/ Begin(o, <<DisableWrite(o)>>, Wish(o, "no"))
          \/ \E p \in Periods : Begin(o, PeriodWrites(o, p), asked)
          \/ \E d \in Duties : Begin(o, <<DutyWrite(o, d)>>, [asked EXCEPT ![o].duty = d])
    BY <1>3 DEF UseChannel
  <2>2. /\ made' = made /\ o \in Channels /\ o \in Channels \cap program /\ o \in Askable
        /\ Duties \subseteq Nat
    BY <1>1, <1>3, RegistersAssumption DEF UseChannel, Askable
  <2>3. Idle /\ UNCHANGED <<bits, count, pins>>
    BY <2>1 DEF Begin
  <2>4. ShapeWill(o) /\ EnableWill(o) /\ DutyWill(o)
    BY <2>2 DEF PromisesKept, ChannelWill
  <2>5. ASSUME pending' \in Seq(Writes)
        PROVE  /\ SparesShape(pending', o) => ShapeWill(o)'
               /\ Spares(pending', Reg(o, "ccer", 0), EnableBit(o))
                    /\ asked'[o].on = asked[o].on => EnableWill(o)'
               /\ SparesCount(pending', DutyReg(o))
                    /\ asked'[o].duty = asked[o].duty => DutyWill(o)'
    BY <2>2, <2>3, <2>4, <2>5, PromisesStay
  <2>6. CASE Begin(o, <<EnableWrite(o)>>, Wish(o, "yes"))
    <3>1. pending' = <<EnableWrite(o)>> /\ asked' = Wish(o, "yes")
      BY <2>6 DEF Begin
    <3>2. <<EnableWrite(o)>> \in Seq(Writes) /\ AllConfined(<<EnableWrite(o)>>, o)
      BY <2>2, UseConfined
    <3>3. /\ BitWill(Reg(o, "ccer", 0), EnableBit(o))'
          /\ SparesShape(pending', o) /\ SparesCount(pending', DutyReg(o))
      BY <2>2, <3>1, UsePromises
    <3>4. /\ Wish(o, "yes")[o].on = "yes" /\ Wish(o, "yes")[o].duty = asked[o].duty
          /\ \A p \in Askable \ {o} : Wish(o, "yes")[p] = asked[p]
      BY <1>1, <2>2, WishOn
    <3>5. ChannelWill(o)'
      BY <2>5, <3>1, <3>2, <3>3, <3>4 DEF ChannelWill, EnableWill
    <3> QED
      BY <2>2, <2>6, <3>2, <3>4, <3>5, ChannelCall
  <2>7. CASE Begin(o, <<DisableWrite(o)>>, Wish(o, "no"))
    <3>1. pending' = <<DisableWrite(o)>> /\ asked' = Wish(o, "no")
      BY <2>7 DEF Begin
    <3>2. <<DisableWrite(o)>> \in Seq(Writes) /\ AllConfined(<<DisableWrite(o)>>, o)
      BY <2>2, UseConfined
    <3>3. /\ BitWont(Reg(o, "ccer", 0), EnableBit(o))'
          /\ SparesShape(pending', o) /\ SparesCount(pending', DutyReg(o))
      BY <2>2, <3>1, UsePromises
    <3>4. /\ Wish(o, "no")[o].on = "no" /\ Wish(o, "no")[o].duty = asked[o].duty
          /\ \A p \in Askable \ {o} : Wish(o, "no")[p] = asked[p]
      BY <1>1, <2>2, WishOn
    <3>5. ChannelWill(o)'
      BY <2>5, <3>1, <3>2, <3>3, <3>4 DEF ChannelWill, EnableWill
    <3> QED
      BY <2>2, <2>7, <3>2, <3>4, <3>5, ChannelCall
  <2>8. ASSUME NEW q \in Periods, Begin(o, PeriodWrites(o, q), asked)
        PROVE  PromisesKept'
    <3>1. pending' = PeriodWrites(o, q) /\ asked' = asked
      BY <2>8 DEF Begin
    <3>2. PeriodWrites(o, q) \in Seq(Writes) /\ AllConfined(PeriodWrites(o, q), o)
      BY <2>2, UseConfined
    <3>3. /\ SparesShape(pending', o) /\ SparesCount(pending', DutyReg(o))
          /\ Spares(pending', Reg(o, "ccer", 0), EnableBit(o))
      BY <2>2, <3>1, UsePromises
    <3>4. ChannelWill(o)'
      BY <2>5, <3>1, <3>2, <3>3 DEF ChannelWill
    <3> QED
      BY <2>2, <2>8, <3>2, <3>4, ChannelCall
  <2>9. ASSUME NEW d \in Duties, Begin(o, <<DutyWrite(o, d)>>, [asked EXCEPT ![o].duty = d])
        PROVE  PromisesKept'
    <3> DEFINE a == [asked EXCEPT ![o].duty = d]
    <3>1. pending' = <<DutyWrite(o, d)>> /\ asked' = a
      BY <2>9 DEF Begin
    <3>2. <<DutyWrite(o, d)>> \in Seq(Writes) /\ AllConfined(<<DutyWrite(o, d)>>, o) /\ d \in Nat
      BY <2>2, UseConfined
    <3>3. /\ CountWill(DutyReg(o), d)'
          /\ SparesShape(pending', o) /\ Spares(pending', Reg(o, "ccer", 0), EnableBit(o))
      BY <2>2, <3>1, <3>2, UsePromises
    <3>4. a[o].on = asked[o].on /\ a[o].duty = d /\ \A p \in Askable \ {o} : a[p] = asked[p]
      BY <1>1, <2>2, <3>2, DutyOn
    <3> HIDE DEF a
    <3>5. ChannelWill(o)'
      BY <2>5, <3>1, <3>2, <3>3, <3>4 DEF ChannelWill, DutyWill
    <3>6. Begin(o, <<DutyWrite(o, d)>>, a)
      BY <2>9 DEF a
    <3> QED
      BY <2>2, <3>2, <3>4, <3>5, <3>6, ChannelCall
  <2> QED
    BY <2>1, <2>6, <2>7, <2>8, <2>9
<1>4. CASE DestroyChannel
  <2>1. PICK o \in (Channels \cap made) \ {Left, Right} :
          Begin(o, <<>>, asked) /\ made' = made \ {o}
    BY <1>4 DEF DestroyChannel
  <2>2. o \in Channels \cap program /\ o \notin made'
    BY <1>1, <2>1
  <2> QED
    BY <2>1, <2>2, NoWrites, ChannelCall
<1> QED
  BY <1>2, <1>3, <1>4

(* So do making an encoder and resetting its counter.                      *)
LEMMA EncoderCallsKeep ==
  ASSUME PromisesKept, CallsConfined', MakeEncoder \/ ResetEncoder
  PROVE  PromisesKept'
<1>1. asked \in [Askable -> Asked]
  BY DEF PromisesKept, CallsConfined, RegsTypeOK
<1>2. CASE MakeEncoder
  <2>1. PICK n \in (Encoders \cap program) \ made :
          /\ Begin(n, <<Put(Control(n), Measuring)>>, Wish(n, "yes"))
          /\ made' = made \cup {n}
    BY <1>2 DEF MakeEncoder
  <2>2. pending' = <<Put(Control(n), Measuring)>> /\ asked' = Wish(n, "yes")
    BY <2>1 DEF Begin
  <2>3. /\ Wish(n, "yes")[n].on = "yes"
        /\ \A p \in Askable \ {n} : Wish(n, "yes")[p] = asked[p]
    <3>1. n \in Askable
      BY DEF Askable
    <3> QED
      BY <1>1, <3>1, WishOn
  <2>4. /\ \A b \in Measuring : BitWill(Control(n), b)'
        /\ \A b \in Bits \ Measuring : BitWont(Control(n), b)'
    BY <2>2, EncoderPromises
  <2>5. ResetBit \in Bits \ Measuring /\ Bits \ EncoderBits \subseteq Bits \ Measuring
    BY DEF ResetBit, Bits, Measuring, EncoderBits
  <2>6. EncoderWill(n)'
    BY <2>2, <2>3, <2>4, <2>5 DEF EncoderWill
  <2> QED
    BY <2>1, <2>3, <2>6, EncoderConfined, EncoderCall
<1>3. CASE ResetEncoder
  <2>1. PICK n \in Encoders \cap made : Begin(n, <<CounterReset(n)>>, Wish(n, "reset"))
    BY <1>3 DEF ResetEncoder
  <2>2. /\ Idle /\ pending' = <<CounterReset(n)>> /\ asked' = Wish(n, "reset")
        /\ UNCHANGED <<bits, count, pins>> /\ made' = made
    BY <1>3, <2>1 DEF Begin, ResetEncoder
  <2>3. /\ Wish(n, "reset")[n].on = "reset"
        /\ \A p \in Askable \ {n} : Wish(n, "reset")[p] = asked[p]
    <3>1. n \in Askable
      BY DEF Askable
    <3> QED
      BY <1>1, <3>1, WishOn
  <2>4. <<CounterReset(n)>> \in Seq(Writes) /\ AllConfined(<<CounterReset(n)>>, n)
    BY EncoderConfined
  <2>5. /\ BitWill(Control(n), ResetBit)'
        /\ \A b \in Bits \ {ResetBit} : Spares(pending', Control(n), b)
    BY <2>2, EncoderPromises
  <2>6. \A b \in Bits \ {ResetBit} : /\ BitWill(Control(n), b) => BitWill(Control(n), b)'
                                     /\ BitWont(Control(n), b) => BitWont(Control(n), b)'
    BY <2>2, <2>4, <2>5, PromisesSpared
  <2>7. Measuring \subseteq Bits \ {ResetBit} /\ ResetBit \in EncoderBits
    BY DEF ResetBit, Bits, Measuring, EncoderBits
  <2>8. EncoderWill(n)
    BY DEF PromisesKept
  <2>9. EncoderWill(n)'
    BY <2>2, <2>3, <2>5, <2>6, <2>7, <2>8 DEF EncoderWill
  <2> QED
    BY <2>1, <2>2, <2>3, <2>4, <2>9, EncoderCall
<1> QED
  BY <1>2, <1>3

(* Every step keeps every promise.                                         *)
LEMMA PromisesStep == PromisesKept /\ [RegsNext]_regsVars => PromisesKept'
<1> SUFFICES ASSUME PromisesKept, [RegsNext]_regsVars PROVE PromisesKept'
  OBVIOUS
<1>1. CallsConfined'
  BY ConfinedStep DEF PromisesKept
<1>2. CASE MakeChannel \/ UseChannel \/ DestroyChannel
  BY <1>1, <1>2, ChannelCallsKeep
<1>3. CASE MakeEncoder \/ ResetEncoder
  BY <1>1, <1>3, EncoderCallsKeep
<1>4. CASE MotorCall
  BY <1>1, <1>4, MotorCallKeeps
<1>5. CASE Write
  <2>1. /\ \A r \in BitRegs, b \in Bits : /\ BitWill(r, b) => BitWill(r, b)'
                                          /\ BitWont(r, b) => BitWont(r, b)'
        /\ \A r \in CountRegs, n \in Nat : CountWill(r, n) => CountWill(r, n)'
        /\ \A p \in PinFiles, v \in {0, 1} : PinWill(p, v) => PinWill(p, v)'
    BY <1>5, WriteKeepsPromises DEF PromisesKept
  <2>2. made' = made /\ asked' = asked /\ asked \in [Askable -> Asked]
    BY <1>5 DEF Write, PromisesKept, CallsConfined, RegsTypeOK
  <2>3. ASSUME NEW p \in made \cap Channels
        PROVE  ChannelWill(p)'
    <3>1. /\ Mux(p) \in BitRegs /\ ModeReg(p) \in BitRegs /\ Reg(p, "ccer", 0) \in BitRegs
          /\ DutyReg(p) \in CountRegs
      BY Places
    <3>2. /\ PinField(p) \subseteq Bits /\ PinFunction(p) \subseteq PinField(p)
          /\ ModeField(p) \subseteq Bits /\ PolarityBit(p) \in Bits /\ EnableBit(p) \in Bits
      BY Fields
    <3>3. ShapeWill(p) /\ EnableWill(p) /\ DutyWill(p)
      BY <2>3 DEF PromisesKept, ChannelWill
    <3>4. ShapeWill(p)'
      BY <2>1, <3>1, <3>2, <3>3 DEF ShapeWill
    <3>5. EnableWill(p)'
      BY <2>1, <2>2, <3>1, <3>2, <3>3 DEF EnableWill
    <3>6. DutyWill(p)'
      <4>1. asked[p].duty \in Nat
        BY <2>2, <2>3 DEF Askable, Asked
      <4> QED
        BY <2>1, <2>2, <3>1, <3>3, <4>1 DEF DutyWill
    <3> QED
      BY <3>4, <3>5, <3>6 DEF ChannelWill
  <2>4. ASSUME NEW n \in made \cap Encoders
        PROVE  EncoderWill(n)'
    <3>1. Control(n) \in BitRegs /\ EncoderWill(n)
      BY <2>4 DEF BitRegs, PromisesKept
    <3>2. Measuring \subseteq Bits /\ ResetBit \in Bits
      BY DEF Measuring, ResetBit, Bits
    <3> QED
      BY <2>1, <2>2, <3>1, <3>2 DEF EncoderWill
  <2>5. WheelsWill'
    <3>1. \A w \in Wheels : <<w, "value">> \in PinFiles
      BY DEF PinFiles
    <3> QED
      BY <2>1, <2>2, <3>1 DEF WheelsWill, PromisesKept
  <2> QED
    BY <1>1, <2>2, <2>3, <2>4, <2>5 DEF PromisesKept
<1>6. CASE Rerun
  <2>1. made' = {} /\ asked' = [o \in DOMAIN asked |-> Nothing]
    BY <1>6 DEF Rerun
  <2>2. DOMAIN asked = Askable /\ Motor \in Askable
    BY DEF PromisesKept, CallsConfined, RegsTypeOK, Askable
  <2>3. asked'[Motor].on = "as it was"
    BY <2>1, <2>2 DEF Nothing
  <2> QED
    BY <1>1, <2>1, <2>3 DEF PromisesKept, WheelsWill
<1>7. CASE UNCHANGED regsVars
  <2>1. UNCHANGED <<bits, count, pins, made, pending, asked>>
    BY <1>7 DEF regsVars
  <2>2. /\ \A p : ShapeWill(p)' <=> ShapeWill(p)
        /\ \A p : EnableWill(p)' <=> EnableWill(p)
        /\ \A p : DutyWill(p)' <=> DutyWill(p)
        /\ \A n : EncoderWill(n)' <=> EncoderWill(n)
        /\ WheelsWill' <=> WheelsWill
    BY <2>1 DEF ShapeWill, EnableWill, DutyWill, EncoderWill, WheelsWill,
      BitWill, BitWont, CountWill, PinWill
  <2> QED
    BY <1>1, <2>1, <2>2 DEF PromisesKept, ChannelWill
<1> QED
  BY <1>2, <1>3, <1>4, <1>5, <1>6, <1>7 DEF RegsNext

(* For any channels, motors and encoders, whatever earlier runs left in    *)
(* the registers: between the calls every object works as it was last      *)
(* asked, and both wheels turn the same way.                               *)
THEOREM ObjectsDoAsAsked == RegsSpec => []ObjectsWorkAsAsked
<1>1. RegsInit => PromisesKept
  <2> SUFFICES ASSUME RegsInit PROVE PromisesKept
    OBVIOUS
  <2>1. CallsConfined
    BY ConfinedFirst
  <2>2. made = {} /\ asked[Motor].on = "as it was"
    BY DEF RegsInit, Nothing
  <2> QED
    BY <2>1, <2>2 DEF PromisesKept, WheelsWill
<1>2. PromisesKept /\ [RegsNext]_regsVars => PromisesKept'
  BY PromisesStep
<1>3. PromisesKept => ObjectsWorkAsAsked
  BY PromisesSuffice
<1> QED
  BY <1>1, <1>2, <1>3, PTL DEF RegsSpec

-----------------------------------------------------------------------------
(* The loop of one wheel.                                                  *)

(* What is set for a finite output within its cap.                         *)
LEMMA ClampedOutput ==
  /\ \A d \in Int : d <= OutputCap => /\ Clamped(d) \in 0 .. MaxMotorDuty
                                      /\ d > 0 => Clamped(d) = d
                                      /\ d < 0 => Clamped(d) = 0
  /\ InitialDuty \in 0 .. MaxMotorDuty
<1>1. Unit \in Nat
  BY PIDAssumption
<1>2. MaxMotorDuty \in Nat /\ InitialDuty \in Nat /\ InitialDuty <= MaxMotorDuty /\ OutputCap = MaxMotorDuty
  BY <1>1 DEF MaxMotorDuty, InitialDuty, OutputCap
<1> QED
  BY <1>2 DEF Clamped

(* Before the configuration is loaded no pass has been made.               *)
LoopKeeps ==
  /\ TypeOK
  /\ DutyFollowsOutput
  /\ ~loaded => output = 0

(* One pass, whatever the encoder has read and the controller summed up.   *)
LEMMA PassKeeps ==
  ASSUME LoopKeeps, NEW m \in Readings \cup {Infinite}, ControlPass(m)
  PROVE  LoopKeeps'
<1>1. PICK s \in Setpoints : Calculate(s, m)
  BY DEF ControlPass
<1>2. PIDTypeOK'
  BY <1>1, CalculateTyped DEF LoopKeeps, TypeOK
<1>3. output' \in Int /\ output' <= OutputCap
  BY <1>2 DEF PIDTypeOK
<1>4. CASE lost'
  <2>1. duty' \in Nat
    BY <1>4, SpeedAssumption DEF ControlPass
  <2> QED
    BY <1>2, <1>4, <2>1 DEF ControlPass, LoopKeeps, TypeOK, DutyFollowsOutput
<1>5. CASE ~lost'
  <2>1. duty' = Clamped(output')
    BY <1>5 DEF ControlPass
  <2>2. /\ duty' \in 0 .. MaxMotorDuty
        /\ output' > 0 => duty' = output'
        /\ output' < 0 => duty' = 0
    BY <1>3, <2>1, ClampedOutput
  <2>3. MaxMotorDuty \in Nat
    BY PIDAssumption DEF MaxMotorDuty
  <2>4. duty' \in Nat /\ duty' <= MaxMotorDuty
    BY <2>2, <2>3
  <2> QED
    BY <1>2, <2>2, <2>4 DEF ControlPass, LoopKeeps, TypeOK, DutyFollowsOutput, MaxMotorDuty
<1> QED
  BY <1>4, <1>5

(* While the output is finite, the duty is the output or none, and within  *)
(* MaxMotorDuty, for any gains, files and readings: the limit of           *)
(* motor.cpp:23 takes nothing off what the controller lets through.        *)
THEOREM FiniteDuty == Spec => []DutyFollowsOutput
<1>1. Init => LoopKeeps
  <2> SUFFICES ASSUME Init
               PROVE  LoopKeeps
    OBVIOUS
  <2>1. PIDTypeOK /\ output = 0
    BY PIDBegins DEF Init, PIDInit
  <2>2. 0 \in Readings
    BY SpeedAssumption
  <2>3. MaxMotorDuty \in Nat
    BY PIDAssumption DEF MaxMotorDuty
  <2>4. maxDuty = 0 /\ loaded = FALSE /\ speed = 0 /\ duty = 0
    BY Zenon DEF Init
  <2>5. TypeOK
    BY <2>1, <2>2, <2>4 DEF TypeOK
  <2>6. DutyFollowsOutput
    BY <2>1, <2>3, <2>4 DEF DutyFollowsOutput
  <2> QED
    BY <2>1, <2>5, <2>6 DEF LoopKeeps
<1>2. LoopKeeps /\ [Next]_vars => LoopKeeps'
  <2> SUFFICES ASSUME LoopKeeps, [Next]_vars
               PROVE  LoopKeeps'
    OBVIOUS
  <2>1. CASE ConfigLoad
    <3>1. PICK f \in Files \cup {NoFile} :
            IF f = NoFile THEN SetPID(DefaultGain) /\ maxDuty' = 40
                          ELSE SetPID(f.gain) /\ maxDuty' = f.maxDuty
      BY <2>1 DEF ConfigLoad
    <3>2. f # NoFile => f.gain \in [kp : Nat, ki : Nat, kd : Nat] /\ f.maxDuty \in Nat
      BY PIDAssumption, SpeedAssumption
    <3>3. DefaultGain \in [kp : Nat, ki : Nat, kd : Nat]
      BY DEF DefaultGain
    <3>4. PIDTypeOK' /\ maxDuty' \in Nat /\ output' = output
      BY <3>1, <3>2, <3>3 DEF SetPID, PIDTypeOK, LoopKeeps, TypeOK
    <3>5. duty' \in Nat /\ duty' <= MaxMotorDuty
      <4>1. MaxMotorDuty \in Nat
        BY PIDAssumption DEF MaxMotorDuty
      <4> QED
        BY <2>1, <4>1, ClampedOutput DEF ConfigLoad
    <3>6. output' = 0
      BY <2>1, <3>4 DEF ConfigLoad, LoopKeeps
    <3> QED
      BY <2>1, <3>4, <3>5, <3>6 DEF ConfigLoad, LoopKeeps, TypeOK, DutyFollowsOutput, MaxMotorDuty
  <2>2. CASE Measure
    BY <2>2, PassKeeps DEF Measure, LoopKeeps, TypeOK
  <2>3. CASE ZeroRegister
    BY <2>3, PassKeeps DEF ZeroRegister
  <2>4. CASE Turns \/ Coast
    BY <2>4 DEF Turns, Coast, LoopKeeps, TypeOK, PIDTypeOK, pid, DutyFollowsOutput, MaxMotorDuty
  <2>5. CASE UNCHANGED vars
    BY <2>5 DEF vars, pid, LoopKeeps, TypeOK, PIDTypeOK, DutyFollowsOutput, MaxMotorDuty
  <2> QED
    BY <2>1, <2>2, <2>3, <2>4, <2>5 DEF Next
<1>3. LoopKeeps => DutyFollowsOutput
  BY DEF LoopKeeps
<1> QED
  BY <1>1, <1>2, <1>3, PTL DEF Spec

=============================================================================
