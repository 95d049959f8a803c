----------------------------- MODULE MCDevices -----------------------------
(***************************************************************************)
(* What the program reaches its devices with: the FIFO, the controller of  *)
(* a wheel, the registers of motors and encoders, and the screen.  They    *)
(* share no state; a behaviour is one of `part`, and the other parts stay  *)
(* as they begin.                                                          *)
(***************************************************************************)
EXTENDS MCFifo, PIDHistory, Registers, Display

VARIABLE part

-----------------------------------------------------------------------------
(* Registers: the two motors, which share a timer and a pin register; two  *)
(* channels of the other timer, of which one is complementary; an encoder. *)
Channel(timer, pin, mux, ch, neg) ==
  [timer |-> timer, pin |-> pin, mux |-> mux, ch |-> ch, neg |-> neg, period |-> 10000, duty |-> 0]
LeftMotor == Channel("gtim", 88, {0, 1}, 2, 0)
RightMotor == Channel("gtim", 89, {0, 1}, 1, 0)
Complement == Channel("atim", 83, {0}, 2, 1)
Neighbour == Channel("atim", 84, {0}, 1, 0)
Encoder == [encoder |-> 0]
AllEncoders == {Encoder}
AllChannels == {LeftMotor, RightMotor, Complement, Neighbour}
Objects == {{LeftMotor, RightMotor}, {Complement, Neighbour}, {Encoder}}
SomeGarbage == {{}, Bits}

(* Display: 14 by 6 points, characters of 2 by 2.                          *)
SomeStrings ==
  {<<65, 66, 65>>, <<200, 203, 65>>, <<65, 200, 201, 66, 67, 68, 69>>, <<65, 200>>,
   <<66, 66, 200, 203, 200, 203, 200, 203, 65>>}
SomeUints == {0, 7, 105, 4095}
SomeInts == {-7, 105, MinInt}
SomeFloats == {-5, 123}
Corner(i, j) == [x |-> i, y |-> j]
SomeOrigins == {Corner(0, 0), Corner(2, 4), Corner(8, 2)}

(* Some set of points for each character, none for a space.                *)
Font(frame, w, n) == {p \in frame : (n \div 2^(p.x + w * p.y)) % 2 = 1}
SomeAscii == [c \in 32 .. 126 |-> Font(CharCell, CellW, c - Space)]
SomeChinese == [c \in {<<200, 203>>} |-> Font(WideCell, CellW, c[1] + c[2])]

Grey(w, h) == [p \in Frame(w, h) |-> 251 + (IF h = 1 THEN 3 ELSE p.x * p.y)]
SomeImages == {[width |-> s[1], height |-> s[2], grey |-> Grey(s[1], s[2])] : s \in {<<2, 2>>, <<3, 1>>}}

(* PIDHistory: whole units, with and without kp and kd.                    *)
SomeGains == {[kp |-> 1, ki |-> 1, kd |-> 0], [kp |-> 2, ki |-> 1, kd |-> 1], [kp |-> 0, ki |-> 1, kd |-> 0]}
LowestOutput == -10

-----------------------------------------------------------------------------
Parts == {"fifo", "pid", "regs", "screen"}

all == <<part, vars, regsVars, screenVars, historyVars>>

DevicesInit ==
  /\ part \in Parts
  /\ Init
  /\ RegsInit /\ (part # "regs" => program = {Encoder} /\ \A r \in DOMAIN bits : bits[r] = {})
  /\ ScreenInit
  /\ HistoryInit

(* The other parts stay as they are.                                       *)
Still(p, q, v) == IF p = q THEN TRUE ELSE UNCHANGED v
AllBut(p) ==
  /\ part = p
  /\ UNCHANGED part
  /\ Still(p, "fifo", vars)
  /\ Still(p, "regs", regsVars)
  /\ Still(p, "screen", screenVars)
  /\ Still(p, "pid", historyVars)

DevicesNext ==
  \/ AllBut("fifo") /\ Next
  \/ AllBut("regs") /\ RegsNext
  \/ AllBut("screen") /\ ScreenNext
  \/ AllBut("pid") /\ HistoryNext

DevicesSpec == DevicesInit /\ [][DevicesNext]_all

-----------------------------------------------------------------------------
(* The properties of the parts, under the names they have there:           *)
(* IndicesAgree and ImplementsQueue are those of Fifo, PositionalForm that *)
(* of PIDHistory, ObjectsWorkAsAsked and OthersKeepTheirBits those of      *)
(* Registers, FieldsReplaced and DrawnInPlace those of Display.            *)
=============================================================================
