---------------------------- MODULE Conversions ----------------------------
(***************************************************************************)
(* The number and text conversions of zf_common_function.cpp as operators. *)
(*                                                                         *)
(* A text is the sequence of the character codes a function writes: none   *)
(* of them writes a terminator, the caller clears its buffer before.  A    *)
(* real is an integer number of 1/Scale.  Integers have a width; minus     *)
(* the least of them is what the processor makes of it, itself.            *)
(*                                                                         *)
(* The real is what a float or double stands for: where binary has no such *)
(* fraction, the variable holds the nearest there is, a hair beside it.    *)
(* This shows only where it is a hair nearer to zero and a whole number is *)
(* cut from it: 1.15 is printed 1.149999.  `under` says so.                *)
(* A definition X_Y is a wrong form of X, used to show that a property     *)
(* depends on X.                                                           *)
(***************************************************************************)
EXTENDS Integers, Sequences

CONSTANTS
  Half,      \* half the number of integers: 2^31 in the code
  Scale      \* parts of a unit a real is counted in

ASSUME ConversionsAssumption == Half \in Nat \ {0} /\ Scale \in Nat \ {0}

MinInt  == -Half
MaxInt  == Half - 1
MaxUint == 2 * Half - 1

(* The integer of the same width with the low bits of n.                   *)
Wrapped(n) == ((n + Half) % (2 * Half)) - Half

(* The powers of ten, as for(; 0 < num; num --) offset *= 10 makes them.   *)
Tens[k \in Nat] == IF k = 0 THEN 1 ELSE 10 * Tens[k - 1]

(* / and % of C: the quotient is cut towards zero.                         *)
FuncAbs(x) == IF x >= 0 THEN x ELSE -x
Quot(a, b) ==
  LET q == FuncAbs(a) \div FuncAbs(b)
  IN  IF (a >= 0) = (b > 0) THEN q ELSE -q
Rem(a, b)  == a - b * Quot(a, b)

(* Does a float hold a / b?  Powers of two up to 2^9 are enough for the    *)
(* slopes of the screen's lines and for nine decimals.                     *)
PowersOfTwo == {1, 2, 4, 8, 16, 32, 64, 128, 256, 512}
HeldExactly(a, b) == \E k \in PowersOfTwo : Rem(a * k, b) = 0

LetterZero == 48   \* '0'
Plus == 43
Minus == 45
Point == 46
LetterX == 120

(* What is left of n after each pass of while(0 != number) number /= r.    *)
Remaining(n, r) ==
  LET rest[k \in Nat] == IF k = 0 THEN n ELSE Quot(rest[k - 1], r)
  IN  rest

(* The digits of n in base r, the last one first.                          *)
DigitsOf(n, r) ==
  LET rest == Remaining(n, r)
      bit  == CHOOSE k \in 0 .. FuncAbs(n) : rest[k] = 0 /\ \A j \in 0 .. k - 1 : rest[j] # 0
  IN  [k \in 1 .. bit |-> Rem(rest[k - 1], r)]

(* The same for do ... while(0 != data): zero has one digit.               *)
DigitsOfAny(n, r) == IF n = 0 THEN <<0>> ELSE DigitsOf(n, r)

(* A text from its last character to its first.                            *)
Turned(text) == [i \in 1 .. Len(text) |-> text[Len(text) + 1 - i]]

Characters(digits) == [i \in DOMAIN digits |-> LetterZero + digits[i]]
Positive(digits)   == [i \in DOMAIN digits |-> FuncAbs(digits[i])]

-----------------------------------------------------------------------------
(* Numbers to texts.                                                       *)
Written(digits) == [i \in 1 .. Len(digits) |-> LetterZero + digits[Len(digits) + 1 - i]]

FuncIntToStr(n) ==
  IF n = 0 THEN <<LetterZero>>
  ELSE (IF n < 0 THEN <<Minus>> ELSE <<>>) \o Written(Positive(DigitsOf(Wrapped(FuncAbs(n)), 10)))

FuncUintToStr(n) == IF n = 0 THEN <<LetterZero>> ELSE Written(DigitsOf(n, 10))

(* hex_index.                                                              *)
HexCharacter(d) == IF d < 10 THEN LetterZero + d ELSE 55 + d

FuncHexToStr(n) ==
  <<LetterZero, LetterX>>
    \o (IF n = 0 THEN <<LetterZero>>
        ELSE Turned([i \in DOMAIN DigitsOf(n, 16) |-> HexCharacter(DigitsOf(n, 16)[i])]))

(* The decimals that (int) leaves of the rest, multiplied by 10^places.    *)
CutDecimals(x, places, under) ==
  LET rest == (x - Quot(x, Scale) * Scale) * Tens[places]
      frac == Quot(rest, Scale)
  IN  IF under /\ Rem(rest, Scale) = 0 /\ ~HeldExactly(x, Scale)
        THEN (IF x > 0 THEN frac - 1 ELSE frac + 1)
        ELSE frac

(* func_float_to_str and func_double_to_str, which differ in the numbers   *)
(* they have room for: the integer part, and the first `places` decimals   *)
(* of the rest, both cut towards zero.                                     *)
FuncRealToStr_NoPadding(x, places, under) ==
  LET int  == Quot(x, Scale)
      frac == CutDecimals(x, places, under)
  IN  IF x = 0 THEN <<LetterZero, Point, LetterZero>>
      ELSE (IF x < 0 THEN <<Minus>> ELSE <<>>)
             \o Written(Positive(DigitsOfAny(int, 10)))
             \o (IF places = 0 THEN <<>>
                 ELSE <<Point>> \o Written(Positive(DigitsOfAny(frac, 10))))

(* int(frac / 10^i) mod 10: the digits of frac, as many as places.         *)
Decimals(frac, places) == [i \in 1 .. places |-> Rem(Quot(frac, Tens[i - 1]), 10)]

FuncRealToStr(x, places, under) ==
  LET int  == Quot(x, Scale)
      frac == CutDecimals(x, places, under)
  IN  IF x = 0 THEN <<LetterZero, Point, LetterZero>>
      ELSE (IF x < 0 THEN <<Minus>> ELSE <<>>)
             \o Written(Positive(DigitsOfAny(int, 10)))
             \o (IF places = 0 THEN <<>>
                 ELSE <<Point>> \o (IF frac = 0 THEN <<LetterZero>>
                                    ELSE Written(Positive(Decimals(frac, places)))))

-----------------------------------------------------------------------------
(* Texts to numbers.  A call without a text, NULL, is the empty text: both *)
(* give 0.                                                                 *)
IsDigit(c) == c \in LetterZero .. LetterZero + 9

(* How many characters of s from position i on are digits.                 *)
DigitsFrom(s, i) ==
  CHOOSE k \in 0 .. Len(s) + 1 - i :
    /\ \A j \in i .. i + k - 1 : IsDigit(s[j])
    /\ i + k <= Len(s) => ~IsDigit(s[i + k])

HasSign(s)  == s # <<>> /\ s[1] \in {Minus, Plus}
Negative(s) == s # <<>> /\ s[1] = Minus
NumberAt(s) == IF HasSign(s) THEN 2 ELSE 1

(* The value of a hexadecimal digit, -1 for another character.             *)
HexValue(c) ==
  IF c \in 97 .. 102 THEN c - 87 ELSE IF c \in 65 .. 70 THEN c - 55
  ELSE IF IsDigit(c) THEN c - LetterZero ELSE -1

(* temp = temp * base + digit, over the k characters of s from i on.       *)
Accumulated(s, i, k, base) ==
  LET temp[j \in Nat] == IF j = 0 THEN 0 ELSE temp[j - 1] * base + HexValue(s[i + j - 1])
  IN  temp[k]

FuncStrToInt(s) ==
  LET temp == Accumulated(s, NumberAt(s), DigitsFrom(s, NumberAt(s)), 10)
  IN  Wrapped(IF Negative(s) THEN -temp ELSE temp)

FuncStrToUint(s) == Accumulated(s, 1, DigitsFrom(s, 1), 10) % (2 * Half)

(* func_str_to_float reads up to six decimals, func_str_to_double nine.    *)
FuncStrToReal(s, most) ==
  LET first == NumberAt(s)
      whole == DigitsFrom(s, first)
      dot   == first + whole
      k     == IF dot > Len(s) \/ s[dot] # Point THEN 0
               ELSE LET d == DigitsFrom(s, dot + 1) IN IF d < most THEN d ELSE most
      temp  == Accumulated(s, first, whole, 10) * Scale
                 + (Accumulated(s, dot + 1, k, 10) * Scale) \div Tens[k]
  IN  IF Negative(s) THEN -temp ELSE temp

(* The first "0x", then digits up to a character that is none.             *)
FuncStrToHex(s) ==
  LET Prefix(i) == i < Len(s) /\ s[i] = LetterZero /\ s[i + 1] = LetterX
      starts == {i \in DOMAIN s : Prefix(i)}
      start  == CHOOSE i \in starts : \A j \in starts : i <= j
      taken  == CHOOSE k \in 0 .. Len(s) - start - 1 :
                  /\ \A j \in 1 .. k : HexValue(s[start + 1 + j]) >= 0
                  /\ start + 2 + k <= Len(s) => HexValue(s[start + 2 + k]) < 0
  IN  IF starts = {} THEN 0 ELSE Accumulated(s, start + 2, taken, 16) % (2 * Half)

-----------------------------------------------------------------------------
(* number_conversion_ascii: the characters of a number, the last first.    *)
(* The remainders of the least integer are negative.                       *)
NumberConversionAscii(n, signed, radix) ==
  IF signed
    THEN Characters(DigitsOfAny(Wrapped(FuncAbs(n)), radix))
    ELSE LET digits == DigitsOfAny(n, radix)
         IN  [i \in DOMAIN digits |-> HexCharacter(digits[i])]

(* A %d: the sign is put at the end, then the order is reversed.           *)
PrintSigned(n) ==
  Turned(NumberConversionAscii(n, TRUE, 10) \o (IF n < 0 THEN <<Minus>> ELSE <<>>))

PrintUnsigned(n, radix) == Turned(NumberConversionAscii(n, FALSE, radix))

(* A %f with six decimals (places): the zeros and the point follow the     *)
(* digits, then the order is reversed.                                     *)
PrintReal_ZerosFirst(x, places, under) ==
  LET int  == Quot(x, Scale)
      frac == CutDecimals(x, places, under)
      low  == NumberConversionAscii(frac, TRUE, 10)
  IN  Turned(NumberConversionAscii(int, TRUE, 10) \o (IF x < 0 THEN <<Minus>> ELSE <<>>))
        \o <<Point>> \o Turned(low) \o [i \in 1 .. places - Len(low) |-> LetterZero]

PrintReal(x, places, under) ==
  LET int  == Quot(x, Scale)
      frac == CutDecimals(x, places, under)
      low  == NumberConversionAscii(frac, TRUE, 10)
  IN  Turned(NumberConversionAscii(int, TRUE, 10) \o (IF x < 0 THEN <<Minus>> ELSE <<>>))
        \o Turned(low \o [i \in 1 .. places - Len(low) |-> LetterZero] \o <<Point>>)

(* A %p: eight characters, of which the number fills the last; the others  *)
(* are what the stack held (junk).                                         *)
PrintPointer(n, places, junk) ==
  LET digits == PrintUnsigned(n, 16)
  IN  [i \in 1 .. places - Len(digits) |-> junk] \o digits
=============================================================================
