----------------------------- MODULE Registers -----------------------------
(***************************************************************************)
(* The registers of the timers, the pin functions and the encoders, and    *)
(* the objects that write them: PWM_GTIM, PWM_ATIM, ENCODER, the direction *)
(* pins and the functions of motor.cpp.  Two channels of a timer share its *)
(* mode and enable registers, eight pins share a function register, and    *)
(* all keep their contents when the program ends.                          *)
(*                                                                         *)
(* A call is the sequence of its register writes; `pending` is what the    *)
(* running call still has to write.  A bit register is the set of its bits *)
(* that are 1.  A definition X_Y is a wrong form of X, used to show that a *)
(* property depends on X.                                                  *)
(***************************************************************************)
EXTENDS Integers, Sequences

CONSTANTS
  Channels,   \* PWM objects: [timer, pin, mux, ch, neg, period, duty]
  Left, Right,\* the channels of the motors
  Encoders,   \* ENCODER objects: [encoder], the number of the PWM channel
  Periods, Duties,   \* that are set later
  MaxRuns,    \* bound on how often the program is started
  Programs,   \* the sets of objects that are used together (bound)
  Garbage     \* what bit registers may hold when the program starts

Bits == 0 .. 31

(* No two channels of a program share a pin or a channel of a timer; the   *)
(* motors have plain channels, as motor.cpp makes them.                    *)
ASSUME RegistersAssumption ==
  /\ Channels \subseteq [timer : {"gtim", "atim"}, pin : Nat, mux : SUBSET {0, 1}, ch : 0 .. 3,
                         neg : {0, 1}, period : Nat, duty : Nat]
  /\ Encoders \subseteq [encoder : Nat]
  /\ {Left, Right} \subseteq {o \in Channels : o.neg = 0}
  /\ Periods \subseteq Nat /\ Duties \subseteq Nat
  /\ \A P \in Programs : \A o1, o2 \in Channels \cap P :
       o1 # o2 => o1.pin # o2.pin /\ <<o1.timer, o1.ch>> # <<o2.timer, o2.ch>>
  /\ Garbage \subseteq SUBSET Bits

VARIABLES
  program,    \* the objects this program has
  bits,       \* the bit registers
  count,      \* the number registers: ARR, CCR1 to CCR4, CNT
  pins,       \* direction and value of the motors' direction pins
  made,       \* the objects there are
  pending,
  caller,     \* whose call it is
  asked,      \* per object, what the last calls asked of it
  runs        \* how often the program was started

regsVars == <<program, bits, count, pins, made, pending, caller, asked, runs>>

Timers == {o.timer : o \in Channels}
Mux(o) == <<"gpio", "mux", o.pin \div 16>>
Reg(o, name, i) == <<o.timer, name, i>>
Control(n) == <<"pwm", "control", n.encoder>>

BitRegs ==
  {Mux(o) : o \in Channels}
    \cup {<<t, "ccmr", i>> : t \in Timers, i \in 0 .. 1}
    \cup {<<t, name, 0>> : t \in Timers, name \in {"ccer", "egr", "cr1", "bdtr"}}
    \cup {Control(n) : n \in Encoders}
CountRegs ==
  {<<t, "ccr", i>> : t \in Timers, i \in 0 .. 3}
    \cup {<<t, name, 0>> : t \in Timers, name \in {"arr", "cnt"}}
Wheels == {"L", "R"}
PinFiles == Wheels \X {"direction", "value"}
Motor == [motor |-> 0]
Nobody == [nobody |-> 0]

-----------------------------------------------------------------------------
(* The bits of a channel.                                                  *)
PinField(o) == {(o.pin % 16) * 2, (o.pin % 16) * 2 + 1}
PinFunction(o) == {(o.pin % 16) * 2 + b : b \in o.mux}
ModeReg(o) == Reg(o, "ccmr", o.ch \div 2)
ModeField(o) == {(o.ch % 2) * 8 + b : b \in 4 .. 6}
PolarityBit(o) == o.ch * 4 + 1 + o.neg * 2

EnableBit_NegByOne(o) == o.ch * 4 + o.neg
EnableBit(o) == o.ch * 4 + o.neg * 2

DutyReg(o) == Reg(o, "ccr", o.ch)

(* One write: read, clear and set bits; store bits; store a number; write  *)
(* a direction or value file of a pin.                                     *)
Change(r, clear, set) == [to |-> "change", reg |-> r, clear |-> clear, set |-> set]
Put(r, set) == [to |-> "put", reg |-> r, set |-> set]
Count(r, n) == [to |-> "count", reg |-> r, n |-> n]
Pin(wheel, file, v) == [to |-> "pin", pin |-> <<wheel, file>>, v |-> v]

(* The constructors.  PWM_ATIM only adds to the function of its pin.       *)
MuxWrite(o) ==
  IF o.timer = "gtim" THEN Change(Mux(o), PinField(o), PinFunction(o))
  ELSE Change(Mux(o), {}, PinFunction(o))

SetUp(o) ==
  <<MuxWrite(o), Put(Reg(o, "egr", 0), {0}), Put(Reg(o, "cr1", 0), {0}),
    Change(ModeReg(o), ModeField(o), {}), Change(ModeReg(o), {}, ModeField(o)),
    Change(Reg(o, "ccer", 0), {PolarityBit(o)}, {}), Change(Reg(o, "ccer", 0), {}, {PolarityBit(o)}),
    Count(Reg(o, "arr", 0), o.period), Count(DutyReg(o), o.duty)>>
  \o (IF o.timer = "atim" THEN <<Put(Reg(o, "bdtr", 0), {15}), Count(Reg(o, "cnt", 0), 0)>>
      ELSE <<Count(Reg(o, "cnt", 0), 0)>>)

EnableWrite(o)  == Change(Reg(o, "ccer", 0), {}, {EnableBit(o)})
DisableWrite(o) == Change(Reg(o, "ccer", 0), {EnableBit(o)}, {})
PeriodWrites(o, p) == <<Count(Reg(o, "arr", 0), p), Count(Reg(o, "cnt", 0), 0)>>
DutyWrite(o, d) == Count(DutyReg(o), d)

(* ENCODER: PWM_Init and reset_counter.                                    *)
Measuring == {0, 5, 8}
ResetBit == 7
CounterReset(n) == Change(Control(n), {}, {ResetBit})

(* motor.cpp, machine_zebra_stop.                                          *)
Turn(v) == <<Pin("L", "value", v), Pin("R", "value", v)>>
Both(d) == <<DutyWrite(Left, d), DutyWrite(Right, d)>>
InitDuty == 15
StopDuty == 1
ZebraDuty == 40

MotorInitWrites ==
  <<Pin("L", "direction", "out"), Pin("R", "direction", "out"),
    Pin("L", "value", 1), Pin("R", "value", 1), EnableWrite(Left), EnableWrite(Right),
    DutyWrite(Left, InitDuty), DutyWrite(Right, InitDuty)>>

ZebraStopWrites_StaysBack ==
  <<Pin("L", "value", 0), Pin("R", "value", 0),
    DutyWrite(Left, ZebraDuty), DutyWrite(Right, ZebraDuty),
    DutyWrite(Left, StopDuty), DutyWrite(Right, StopDuty)>>
ZebraStopWrites ==
  <<Pin("L", "value", 0), Pin("R", "value", 0),
    DutyWrite(Left, ZebraDuty), DutyWrite(Right, ZebraDuty),
    Pin("L", "value", 1), Pin("R", "value", 1),
    DutyWrite(Left, StopDuty), DutyWrite(Right, StopDuty)>>

-----------------------------------------------------------------------------
Nothing == [on |-> "as it was", duty |-> 0]
Idle == pending = <<>>

Begin(o, writes, wish) ==
  /\ Idle
  /\ pending' = writes
  /\ caller' = o
  /\ asked' = wish
  /\ UNCHANGED <<bits, count, pins>>

Wish(o, v) == [asked EXCEPT ![o].on = v]
Wishes(d) == [asked EXCEPT ![Left].duty = d, ![Right].duty = d]
Motors == {Left, Right} \subseteq made

MakeChannel ==
  \E o \in (Channels \cap program) \ made :
    /\ Begin(o, SetUp(o), [asked EXCEPT ![o] = [on |-> "as it was", duty |-> o.duty]])
    /\ made' = made \cup {o}

UseChannel ==
  /\ \E o \in Channels \cap made :
       \/ Begin(o, <<EnableWrite(o)>>, Wish(o, "yes"))
       \/ Begin(o, <<DisableWrite(o)>>, Wish(o, "no"))
       \/ \E p \in Periods : Begin(o, PeriodWrites(o, p), asked)
       \/ \E d \in Duties : Begin(o, <<DutyWrite(o, d)>>, [asked EXCEPT ![o].duty = d])
  /\ UNCHANGED made

(* ~PWM_GTIM and ~PWM_ATIM unmap, and leave the registers as they are.     *)
DestroyChannel ==
  \E o \in (Channels \cap made) \ {Left, Right} :
    /\ Begin(o, <<>>, asked)
    /\ made' = made \ {o}

MakeEncoder ==
  \E n \in (Encoders \cap program) \ made :
    /\ Begin(n, <<Put(Control(n), Measuring)>>, Wish(n, "yes"))
    /\ made' = made \cup {n}

ResetEncoder ==
  /\ \E n \in Encoders \cap made : Begin(n, <<CounterReset(n)>>, Wish(n, "reset"))
  /\ UNCHANGED made

(* The motor functions; both channels are asked for the same.              *)
MotorCall ==
  /\ Motors
  /\ \/ Begin(Motor, MotorInitWrites,
             [asked EXCEPT ![Left] = [on |-> "yes", duty |-> InitDuty],
                           ![Right] = [on |-> "yes", duty |-> InitDuty], ![Motor].on = "ahead"])
     \/ Begin(Motor, Turn(1), Wish(Motor, "ahead"))
     \/ Begin(Motor, Turn(0), Wish(Motor, "back"))
     \/ Begin(Motor, Both(StopDuty), Wishes(StopDuty))
     \/ Begin(Motor, ZebraStopWrites, [Wishes(StopDuty) EXCEPT ![Motor].on = "ahead"])
  /\ UNCHANGED made

Write ==
  /\ ~Idle
  /\ LET w == Head(pending)
     IN  /\ bits' = CASE w.to = "change" -> [bits EXCEPT ![w.reg] = (@ \ w.clear) \cup w.set]
                      [] w.to = "put" -> [bits EXCEPT ![w.reg] = w.set]
                      [] OTHER -> bits
         /\ count' = IF w.to = "count" THEN [count EXCEPT ![w.reg] = w.n] ELSE count
         /\ pins' = IF w.to = "pin" THEN [pins EXCEPT ![w.pin] = w.v] ELSE pins
  /\ pending' = Tail(pending)
  /\ UNCHANGED <<made, caller, asked>>

(* The program ends, maybe within a call, and starts again.                *)
Rerun ==
  /\ runs < MaxRuns
  /\ runs' = runs + 1
  /\ made' = {}
  /\ pending' = <<>>
  /\ caller' = Nobody
  /\ asked' = [o \in DOMAIN asked |-> Nothing]
  /\ UNCHANGED <<bits, count, pins>>

RegsInit ==
  /\ program \in Programs
  /\ \E g \in Garbage : bits = [r \in BitRegs |-> g]
  /\ count = [r \in CountRegs |-> 0]
  /\ pins = [p \in PinFiles |-> IF p[2] = "direction" THEN "in" ELSE 0]
  /\ made = {}
  /\ runs = 1
  /\ pending = <<>>
  /\ caller = Nobody
  /\ asked = [o \in Channels \cup Encoders \cup {Motor} |-> Nothing]

RegsNext ==
  /\ \/ /\ \/ MakeChannel \/ UseChannel \/ DestroyChannel \/ MakeEncoder \/ ResetEncoder
           \/ MotorCall \/ Write
        /\ UNCHANGED runs
     \/ Rerun
  /\ UNCHANGED program

RegsSpec == RegsInit /\ [][RegsNext]_regsVars

-----------------------------------------------------------------------------
(* Which bits of a register a call may change: those of its channel, with  *)
(* the registers a whole timer has, and the motors' enable bits.           *)
WholeRegs(o) == {Reg(o, name, 0) : name \in {"egr", "cr1", "bdtr"}}
ChannelBits(o, r) ==
  {b \in Bits : \/ r = Mux(o) /\ b \in PinField(o)
                \/ r = ModeReg(o) /\ b \in ModeField(o)
                \/ r = Reg(o, "ccer", 0) /\ b \in {o.ch * 4 + o.neg * 2, o.ch * 4 + 1 + o.neg * 2}
                \/ r \in WholeRegs(o)}
MotorBits(r) == {o.ch * 4 : o \in {p \in {Left, Right} : r = Reg(p, "ccer", 0)}}

OwnBits(o, r) ==
  IF o \in Encoders THEN IF r = Control(o) THEN {0, 5, 7, 8} \cup bits[r] ELSE {}
  ELSE IF o \in Channels THEN ChannelBits(o, r)
  ELSE MotorBits(r)

(* No write of a call disturbs a bit of another channel or another pin,    *)
(* whatever the shared registers hold and wherever the calls before ended. *)
OthersKeepTheirBits ==
  [][\A r \in DOMAIN bits :
       bits'[r] # bits[r] =>
         (bits[r] \ bits'[r]) \cup (bits'[r] \ bits[r]) \subseteq OwnBits(caller, r)]_regsVars

(* Between the calls every object that was set up in this run works as it  *)
(* was last asked, whatever an earlier run left in the registers and       *)
(* whatever the calls of others did since: mode, polarity, pin function,   *)
(* enabled or not, duty.  (PWM_ATIM does not clear the function of its     *)
(* pin: it can only be relied on to be contained.)                         *)
WorksAsAsked(o) ==
  /\ ModeField(o) \subseteq bits[ModeReg(o)]
  /\ PolarityBit(o) \in bits[Reg(o, "ccer", 0)]
  /\ PinFunction(o) \subseteq bits[Mux(o)]
  /\ o.timer = "gtim" => bits[Mux(o)] \cap PinField(o) = PinFunction(o)
  /\ asked[o].on = "yes" => EnableBit(o) \in bits[Reg(o, "ccer", 0)]
  /\ asked[o].on = "no" => EnableBit(o) \notin bits[Reg(o, "ccer", 0)]
  /\ count[DutyReg(o)] = asked[o].duty

EncoderMeasures(n) ==
  bits[Control(n)] = Measuring \cup (IF asked[n].on = "reset" THEN {ResetBit} ELSE {})

ChannelsWorkAsAsked ==
  Idle => /\ \A o \in made \cap Channels : WorksAsAsked(o)
          /\ \A n \in made \cap Encoders : EncoderMeasures(n)

(* Between the motor calls both wheels turn the same way, the one that was *)
(* asked for last; a zebra stop, which brakes backward, ends forward.      *)
WheelsAgree ==
  Idle /\ caller # Nobody /\ asked[Motor].on \in {"ahead", "back"} /\ Motors =>
    \A w \in Wheels : pins[<<w, "value">>] = IF asked[Motor].on = "ahead" THEN 1 ELSE 0

(* Each object does what it was asked for, alone and together.             *)
ObjectsWorkAsAsked == ChannelsWorkAsAsked /\ WheelsAgree
=============================================================================
