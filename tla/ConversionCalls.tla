-------------------------- MODULE ConversionCalls --------------------------
(***************************************************************************)
(* Calls of the functions of zf_common_function.cpp, one at a time: a      *)
(* number is written, the text is read back; zf_sprintf works through its  *)
(* format; func_get_greatest_common_divisor and func_soft_delay run their  *)
(* loops.                                                                  *)
(***************************************************************************)
EXTENDS Conversions

CONSTANTS
  WholeNumbers, \* the integers that are written
  Reals,     \* the reals that are written, in 1/Scale
  PlacesAsked, \* the numbers of decimals asked for
  Texts,     \* other texts that are read
  Formats,   \* the formats of zf_sprintf, as sequences of items
  Dividends, \* the arguments of func_get_greatest_common_divisor
  PrintPlaces, PointerPlaces,  \* decimals of %f and func_str_to_float, characters of %p: 6 and 8
  DoublePlaces,                \* decimals of func_str_to_double: 9
  FloatRoom,                   \* digits of an integer part in func_float_to_str: data_temp[8]
  FloatParts, DoubleParts      \* 2^23 and 2^52: so many parts they tell apart after rounding

(* What fits the types of the code: int and uint32, a real whose integer   *)
(* part is an int, and as many decimals as the readers take.  A float and  *)
(* a double are rounded when they are stored and at each multiplication by *)
(* 10: they must tell the last decimals apart.                             *)
Resolved(x, places, parts) == FuncAbs(x) + places * Scale < parts
FitsReal(x) == x \in Int /\ FuncAbs(x) < Half * Scale /\ Resolved(x, PrintPlaces, DoubleParts)

(* What func_float_to_str has room for.                                    *)
FitsFloat(x, places) ==
  FuncAbs(x) \div Scale < Tens[FloatRoom] /\ Resolved(x, places, FloatParts)

FitsItem(item) ==
  CASE item.as = "d" -> item.arg \in MinInt .. MaxInt
    [] item.as \in {"u", "o", "x", "p"} -> item.arg \in 0 .. MaxUint
    [] item.as = "f" -> FitsReal(item.arg)
    [] item.as = "s" -> item.arg \in Seq(Int)
    [] item.as \in {"c", "literal"} -> item.arg \in Int
    [] OTHER -> TRUE

ASSUME CallsAssumption ==
  /\ Scale = Tens[PrintPlaces] /\ Scale <= Half
  /\ PrintPlaces \in Nat \ {0} /\ PointerPlaces \in Nat
  /\ DoublePlaces \in Nat /\ DoublePlaces >= PrintPlaces
  /\ FloatRoom \in Nat /\ FloatParts \in Nat /\ DoubleParts \in Nat
  /\ WholeNumbers \subseteq MinInt .. MaxUint
  /\ \A x \in Reals : FitsReal(x)
  /\ PlacesAsked \subseteq 0 .. PrintPlaces
  /\ \A s \in Texts :
       s \in Seq(Int) /\ Accumulated(s, NumberAt(s), DigitsFrom(s, NumberAt(s)), 10) <= MaxInt
  /\ \A format \in Formats :
       /\ format = [i \in 1 .. Len(format) |-> format[i]] /\ Len(format) \in Nat
       /\ \A i \in 1 .. Len(format) : FitsItem(format[i])
  /\ Dividends \subseteq Nat

VARIABLES
  call,      \* the function that runs, and its arguments; "none" when none does
  text,      \* what was written; for zf_sprintf, buff[0 .. buff_len - 1]
  value,     \* what was read back
  num1, num2 \* of the loops

convertVars == <<call, text, value, num1, num2>>

None == [op |-> "none"]
Idle == call = None

Junk == 1   \* a character nobody wrote

-----------------------------------------------------------------------------
Write(op, n, places, written) ==
  /\ Idle
  /\ call' = [op |-> op, n |-> n, places |-> places, step |-> "written"]
  /\ text' = written
  /\ UNCHANGED <<value, num1, num2>>

WriteNumber ==
  \/ \E n \in WholeNumbers : n <= MaxInt /\ Write("int", n, 0, FuncIntToStr(n))
  \/ \E n \in WholeNumbers : n >= 0 /\ Write("uint", n, 0, FuncUintToStr(n))
  \/ \E n \in WholeNumbers : n >= 0 /\ Write("hex", n, 0, FuncHexToStr(n))
  \/ \E x \in Reals, p \in PlacesAsked, under \in BOOLEAN :
       \/ FitsFloat(x, p) /\ Write("float", x, p, FuncRealToStr(x, p, under))
       \/ Write("double", x, p, FuncRealToStr(x, p, under))

Readers == {"int", "uint", "hex", "float", "double"}

ReadAs(op, s) ==
  CASE op = "int" -> FuncStrToInt(s)
    [] op = "uint" -> FuncStrToUint(s)
    [] op = "hex" -> FuncStrToHex(s)
    [] op = "float" -> FuncStrToReal(s, PrintPlaces)
    [] op = "double" -> FuncStrToReal(s, DoublePlaces)

ReadBack ==
  /\ ~Idle
  /\ call.op \in Readers
  /\ call.step = "written"
  /\ value' = ReadAs(call.op, text)
  /\ call' = [call EXCEPT !.step = "read"]
  /\ UNCHANGED <<text, num1, num2>>

(* A text that no function of this file has written, with no more digits   *)
(* than the variable tells apart.                                          *)
FewDigits(s, most, parts) ==
  (Accumulated(s, NumberAt(s), DigitsFrom(s, NumberAt(s)), 10) + 1) * Tens[most] <= parts

ReadOther ==
  /\ Idle
  /\ \E op \in Readers, s \in Texts :
       /\ op = "float" => FewDigits(s, PrintPlaces, FloatParts)
       /\ op = "double" => FewDigits(s, DoublePlaces, DoubleParts)
       /\ call' = [op |-> op, n |-> 0, places |-> 0, step |-> "other"]
       /\ text' = s
       /\ value' = ReadAs(op, s)
  /\ UNCHANGED <<num1, num2>>

-----------------------------------------------------------------------------
(* zf_sprintf: num1 counts the items of the format that are done.          *)
Printed(item, under) ==
  CASE item.as = "c" -> <<item.arg>>
    [] item.as = "d" -> PrintSigned(item.arg)
    [] item.as = "f" -> PrintReal(item.arg, PrintPlaces, under)
    [] item.as = "u" -> PrintUnsigned(item.arg, 10)
    [] item.as = "o" -> PrintUnsigned(item.arg, 8)
    [] item.as = "x" -> PrintUnsigned(item.arg, 16)
    [] item.as = "s" -> item.arg
    [] item.as = "p" -> PrintPointer(item.arg, PointerPlaces, Junk)
    [] item.as = "%" -> <<37>>
    [] item.as = "literal" -> <<item.arg>>
    [] OTHER -> <<>>     \* %a and unknown letters take no argument

SprintfStart ==
  /\ Idle
  /\ \E format \in Formats : call' = [op |-> "sprintf", format |-> format, step |-> "loop"]
  /\ text' = <<>>
  /\ num1' = 0
  /\ UNCHANGED <<value, num2>>

SprintfItem ==
  /\ ~Idle
  /\ call.op = "sprintf"
  /\ num1 < Len(call.format)
  /\ \E under \in BOOLEAN : text' = text \o Printed(call.format[num1 + 1], under)
  /\ num1' = num1 + 1
  /\ UNCHANGED <<call, value, num2>>

-----------------------------------------------------------------------------
(* func_get_greatest_common_divisor: one pass of while(num1 != num2).      *)
GcdStart ==
  /\ Idle
  /\ \E a, b \in Dividends :
       /\ call' = [op |-> "gcd", a |-> a, b |-> b, step |-> "loop"]
       /\ num1' = a
       /\ num2' = b
  /\ UNCHANGED <<text, value>>

GcdPass ==
  /\ ~Idle
  /\ call.op = "gcd"
  /\ num1 # num2
  /\ num1' = IF num1 > num2 THEN num1 - num2 ELSE num1
  /\ num2' = IF num1' < num2 THEN num2 - num1' ELSE num2
  /\ UNCHANGED <<call, text, value>>

(* func_soft_delay: while(t --).                                           *)
DelayStart ==
  /\ Idle
  /\ \E t \in Dividends :
       /\ call' = [op |-> "delay", step |-> "loop"]
       /\ num1' = t
  /\ UNCHANGED <<text, value, num2>>

DelayPass ==
  /\ ~Idle
  /\ call.op = "delay"
  /\ num1 > 0
  /\ num1' = num1 - 1
  /\ UNCHANGED <<call, text, value, num2>>

-----------------------------------------------------------------------------
LoopDone ==
  CASE call.op = "sprintf" -> num1 = Len(call.format)
    [] call.op = "gcd" -> num1 = num2
    [] call.op = "delay" -> num1 = 0
    [] OTHER -> call.step # "written"

CallReturn ==
  /\ ~Idle
  /\ LoopDone
  /\ call' = None
  /\ text' = <<>>
  /\ value' = 0
  /\ num1' = 0
  /\ num2' = 0

ConvertInit ==
  /\ call = None
  /\ text = <<>>
  /\ value = 0
  /\ num1 = 0
  /\ num2 = 0

Run == ReadBack \/ SprintfItem \/ GcdPass \/ DelayPass \/ CallReturn

ConvertNext ==
  \/ WriteNumber \/ ReadOther \/ SprintfStart \/ GcdStart \/ DelayStart
  \/ Run

(* A function that was called runs on.                                     *)
ConvertFairness == WF_convertVars(Run)
ConvertSpec == ConvertInit /\ [][ConvertNext]_convertVars /\ ConvertFairness

-----------------------------------------------------------------------------
Back == ~Idle /\ call.step = "read"

(* What the integer functions write, they read back as the number that was *)
(* written (negative ones included; the least integer has no negation).    *)
IntegersReadBack ==
  (Back /\ call.op \in {"int", "uint", "hex"} /\ call.n # MinInt) => value = call.n

(* A real that is written with some decimals and read back has lost no     *)
(* more than one unit of the last of them, less than one if the variable   *)
(* holds it exactly, is not further from zero, and has not changed its     *)
(* sign, whatever zeros the decimals start with.                           *)
RealsReadBack ==
  (Back /\ call.op \in {"float", "double"}) =>
    LET loss == FuncAbs(call.n - value) * Tens[call.places]
    IN  /\ loss <= Scale /\ (HeldExactly(call.n, Scale) => loss < Scale)
        /\ FuncAbs(value) <= FuncAbs(call.n)
        /\ value * call.n >= 0

(* A text that is read by two functions gives the same number where both   *)
(* understand it: a real cut to its integer part is the integer.           *)
ReadersAgree ==
  (~Idle /\ call.step = "other" /\ call.op \in {"float", "double"})
    => Quot(value, Scale) = FuncStrToInt(text)

(* zf_sprintf, which builds each number backwards, writes the same         *)
(* characters as the other functions do: %d as func_int_to_str, %u as      *)
(* func_uint_to_str, %x as func_hex_to_str after its 0x; a %f reads back   *)
(* as the real, or as the next nearer to zero where the double is beside   *)
(* it.  A %p is the same as %x, for a number that has all the digits of    *)
(* a pointer; nothing is claimed of one that has fewer, in front of which  *)
(* characters are copied that nobody wrote (zf_common_function.cpp:875).   *)
Agrees(item, s) ==
  CASE item.as = "d" /\ item.arg # MinInt -> s = FuncIntToStr(item.arg)
    [] item.as = "u" -> s = FuncUintToStr(item.arg)
    [] item.as = "x" -> <<LetterZero, LetterX>> \o s = FuncHexToStr(item.arg)
    [] item.as = "p" /\ Len(FuncHexToStr(item.arg)) = 2 + PointerPlaces
         -> <<LetterZero, LetterX>> \o s = FuncHexToStr(item.arg)
    [] item.as = "f" ->
         LET back == FuncStrToReal(s, PrintPlaces)
             less == FuncAbs(item.arg) - FuncAbs(back)
         IN  back * item.arg >= 0 /\ less \in {0, 1} /\ (HeldExactly(item.arg, Scale) => less = 0)
    [] OTHER -> TRUE

LastItem == call.format[num1']

SprintfAgrees ==
  [][SprintfItem => /\ SubSeq(text', 1, Len(text)) = text
                    /\ Agrees(LastItem, SubSeq(text', Len(text) + 1, Len(text')))]_convertVars

(* The common divisors of num1 and num2 are at every pass those of the     *)
(* arguments.                                                              *)
Divisors(n) == {d \in 1 .. n : n % d = 0}

CommonDivisors ==
  (~Idle /\ call.op = "gcd" /\ call.a > 0 /\ call.b > 0)
    => Divisors(num1) \cap Divisors(num2) = Divisors(call.a) \cap Divisors(call.b)

(* What the functions return is what the number, the text or the pair of   *)
(* numbers they were given says, and zf_sprintf writes what they write.    *)
ReadRight    == IntegersReadBack /\ RealsReadBack /\ ReadersAgree /\ CommonDivisors
ResultsRight == []ReadRight /\ SprintfAgrees

(* Every call returns, except that of the common divisor of zero and a     *)
(* number that is not: the subtraction of zero never ends.                 *)
OneIsZero == ~Idle /\ call.op = "gcd" /\ call.a # call.b /\ (call.a = 0 \/ call.b = 0)
CallsReturn == (~Idle /\ ~OneIsZero) ~> Idle
=============================================================================
