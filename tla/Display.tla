------------------------------ MODULE Display ------------------------------
(***************************************************************************)
(* The screen driver zf_device_ips200_fb.cpp: points in the frame buffer,  *)
(* lines, characters and strings in two sizes, number fields, images.      *)
(*                                                                         *)
(* The frame buffer is the set `lit` of the indices that are not of the    *)
(* background colour; an index is y * width + x, as in the code, so that a *)
(* point beyond the right edge lands in the next row.  A character cell is *)
(* CellW by CellH points (8 by 16) and a font is the set of lit points of  *)
(* each character.  A call draws stamps, one over the other: a character,  *)
(* a point of a line or an image, with the points that get the colour of   *)
(* the pen and those that get the background's.                            *)
(***************************************************************************)
EXTENDS Conversions

CONSTANTS
  ScreenW, ScreenH,   \* 240 by 320, which ips200_full and ips200_init assume
  CellW, CellH,
  MaxDigits,          \* digits of the widest integer: 10
  FloatDigits, FloatPoints,   \* most digits of a real before and behind its point: 8 and 6
  AsciiFont,          \* the lit points of each character
  ChineseFont,        \* those of the two-byte characters the fonts have
  Ints, Uints, Floats,   \* numbers shown, Floats in 1/Scale
  Strings,            \* strings shown; a code above 160 begins a two-byte character
  Scales,             \* sizes of the scaled strings
  Origins,            \* where calls place their output
  Images,             \* grey images: width, height and the grey of each point
  MaxCalls            \* bound on the calls between two clears

VARIABLES lit, drawn, last_call, screen_calls
screenVars == <<lit, drawn, last_call, screen_calls>>

Space == 32
Question == 63
Frame(w, h) == [x : 0 .. w - 1, y : 0 .. h - 1]
CharCell == Frame(CellW, CellH)
WideCell == Frame(2 * CellW, CellH)

ASSUME ScreenAssumption ==
  /\ ScreenW \in Nat /\ ScreenH \in Nat
  /\ CellW \in Nat \ {0} /\ CellH \in Nat \ {0} /\ 2 * CellW <= ScreenW
  /\ MaxDigits \in Nat /\ FloatDigits \in Nat /\ FloatPoints \in Nat
  /\ 2 * Half <= Tens[MaxDigits]
  /\ AsciiFont[Space] = {}
  /\ \A n \in Ints : n \in MinInt .. MaxInt
  /\ \A n \in Uints : n \in 0 .. MaxUint
  /\ \A v \in Floats : v \in Int
  /\ \A s \in Strings : s \in Seq(Nat)
  /\ \A scale \in Scales : scale \in Nat \ {0}
  /\ \A o \in Origins : o \in [x : Nat, y : Nat]

Index(p) == p.y * ScreenW + p.x
Indices(points) == {Index(p) : p \in points}
At(x, y, p) == [x |-> x + p.x, y |-> y + p.y]

-----------------------------------------------------------------------------
(* What a call draws.  ips200_show_char draws every point of the cell.     *)
Stamp(x, y, frame, font) ==
  [pen   |-> {At(x, y, p) : p \in {q \in frame : q \in font}},
   paper |-> {At(x, y, p) : p \in {q \in frame : q \notin font}}]

(* ips200_show_char_scaled draws the lit points only, each scale by scale. *)
Enlarged(x, y, frame, font, scale) ==
  [pen   |-> {At(x, y, p) : p \in {q \in frame : [x |-> q.x \div scale, y |-> q.y \div scale] \in font}},
   paper |-> {}]

ShowChar(x, y, c) == Stamp(x, y, CharCell, AsciiFont[c])
ShowCharScaled(x, y, c, scale) ==
  Enlarged(x, y, Frame(CellW * scale, CellH * scale), AsciiFont[c], scale)

(* A character the font lacks is shown as two question marks.              *)
Glyph(hi, lo) ==
  IF <<hi, lo>> \in DOMAIN ChineseFont THEN ChineseFont[<<hi, lo>>]
  ELSE AsciiFont[Question] \cup {At(CellW, 0, p) : p \in AsciiFont[Question]}

ShowChineseChar(x, y, hi, lo) == Stamp(x, y, WideCell, Glyph(hi, lo))

(* The background of the scaled character is 0xFFFF, which is transparent. *)
ShowChineseCharScaled(x, y, hi, lo, scale) ==
  Enlarged(x, y, Frame(2 * CellW * scale, CellH * scale), Glyph(hi, lo), scale)

ShowString(x, y, s) == [i \in 1 .. Len(s) |-> ShowChar(x + CellW * (i - 1), y, s[i])]

ShowStringScaled(x, y, s, scale) ==
  [i \in 1 .. Len(s) |-> ShowCharScaled(x + CellW * scale * (i - 1), y, s[i], scale)]

-----------------------------------------------------------------------------
(* Mixed strings: where ips200_show_chinese_string and its scaled form put *)
(* the characters.  A row is left when a wide character would not fit      *)
(* behind what is there; the string ends at a lone first byte, the scaled  *)
(* one (bounded) also at the bottom of the screen.                         *)
IsWide(c) == c \in 161 .. 254
Advance(c, scale) == (IF IsWide(c) THEN 2 * CellW ELSE CellW) * scale

BottomReached_NextRow(y, y_offset, scale) == y + y_offset > ScreenH
BottomReached(y, y_offset, scale) == y + y_offset + CellH * scale > ScreenH

Exhausted(s, i) == i > Len(s) \/ (IsWide(s[i]) /\ i = Len(s))

(* One pass of the loop; `places` is what was placed so far.               *)
Pass(now, x, y, s, scale, bounded) ==
  LET moved == now.x_offset + Advance(s[now.i], scale)
      over  == moved + 2 * CellW * scale > ScreenW
      below == now.y_offset + CellH * scale
  IN  [i |-> IF over /\ bounded /\ BottomReached(y, below, scale) THEN Len(s) + 1
             ELSE IF IsWide(s[now.i]) THEN now.i + 2 ELSE now.i + 1,
       x_offset |-> IF over THEN 0 ELSE moved,
       y_offset |-> IF over THEN below ELSE now.y_offset,
       places |-> Append(now.places,
                         [i |-> now.i, x |-> x + now.x_offset, y |-> y + now.y_offset])]

Places(x, y, s, scale, bounded) ==
  LET pass[k \in Nat] ==
        IF k = 0 THEN [i |-> 1, x_offset |-> 0, y_offset |-> 0, places |-> <<>>]
        ELSE IF Exhausted(s, pass[k - 1].i) THEN pass[k - 1]
        ELSE Pass(pass[k - 1], x, y, s, scale, bounded)
  IN  pass[Len(s)].places

ShowChineseString(x, y, s) ==
  LET places == Places(x, y, s, 1, FALSE)
  IN  [k \in 1 .. Len(places) |->
         LET p == places[k]
         IN  IF IsWide(s[p.i]) THEN ShowChineseChar(p.x, p.y, s[p.i], s[p.i + 1])
             ELSE ShowChar(p.x, p.y, s[p.i])]

ShowChineseStringScaled(x, y, s, scale) ==
  LET places == Places(x, y, s, scale, TRUE)
  IN  [k \in 1 .. Len(places) |->
         LET p == places[k]
         IN  IF IsWide(s[p.i]) THEN ShowChineseCharScaled(p.x, p.y, s[p.i], s[p.i + 1], scale)
             ELSE ShowCharScaled(p.x, p.y, s[p.i], scale)]

-----------------------------------------------------------------------------
(* Number fields: the buffer is filled with blanks before the number is    *)
(* written, and holds its terminator behind them.                          *)
Filled_NoBlanks(places, s) == s
Filled(places, s) == s \o [i \in 1 .. places - Len(s) |-> Space]

LowDigits(n, num) == IF num < MaxDigits THEN Rem(n, Tens[num]) ELSE n

IntField(n, num)  == Filled(num + 1, FuncIntToStr(LowDigits(n, num)))
UintField(n, num) == Filled(num, FuncUintToStr(LowDigits(n, num)))

(* What func_double_to_str is given: the low digits and the decimals.      *)
LowPart(v, num) == v - Quot(Quot(v, Scale), Tens[num]) * Tens[num] * Scale
FloatField(v, num, pointnum, under) ==
  Filled(num + pointnum + 2, FuncRealToStr(LowPart(v, num), pointnum, under))

-----------------------------------------------------------------------------
(* ips200_draw_line: the points one step apart in the direction in which   *)
(* the two ends are farther apart.  The other coordinate is a quotient in  *)
(* float, cut to an int16; `short` says which points lose 1 by it.         *)
Direction(a, b) == IF a < b THEN 1 ELSE -1

(* Where a line that begins at a is after t of the d steps to a + e.       *)
Follow(a, e, t, d, falls_short) ==
  LET q == Quot(a * d + t * e, d)
  IN  IF falls_short /\ q > 0 THEN q - 1 ELSE q

(* A quotient that is not whole is at least 1/319 from a whole number, and *)
(* the error is far smaller.  A whole one may come out just below, unless  *)
(* the slope, temp_rate, is exact.                                         *)
MayFallShort(from, to) ==
  LET dx == to.x - from.x
      dy == to.y - from.y
      longer  == IF FuncAbs(dy) > FuncAbs(dx) THEN dy ELSE dx
      shorter == IF FuncAbs(dy) > FuncAbs(dx) THEN dx ELSE dy
  IN  IF dx = 0 \/ HeldExactly(dy, dx) THEN {}
      ELSE {i \in 2 .. FuncAbs(longer) + 1 : Rem((i - 1) * shorter, longer) = 0}

LinePoints(from, to, short) ==
  LET dx == to.x - from.x
      dy == to.y - from.y
      X(i) == Direction(from.x, to.x) * (i - 1)
      Y(i) == Direction(from.y, to.y) * (i - 1)
  IN  IF dx = 0
        THEN [i \in 1 .. FuncAbs(dy) + 1 |-> [x |-> from.x, y |-> from.y + Y(i)]]
      ELSE IF FuncAbs(dy) > FuncAbs(dx)
        THEN [i \in 1 .. FuncAbs(dy) + 1 |->
                [x |-> Follow(from.x, dx, Y(i), dy, i \in short), y |-> from.y + Y(i)]]
        ELSE [i \in 1 .. FuncAbs(dx) + 1 |->
                [x |-> from.x + X(i), y |-> Follow(from.y, dy, X(i), dx, i \in short)]]

(* ips200_show_gray_image: 8 bits of grey in 5, 6 and 5 bits of colour.    *)
White == 65535
Colour565(g) == (g \div 8) * 2048 + (g \div 4) * 32 + g \div 8

ImageStamp(x, y, image) ==
  Stamp(x, y, Frame(image.width, image.height),
        {p \in DOMAIN image.grey : Colour565(image.grey[p]) # White})

-----------------------------------------------------------------------------
(* A call draws its points one after the other; the last colour stays.     *)
(* What is written behind the frame buffer is not kept.                    *)
Memory == 0 .. ScreenW * ScreenH - 1

Stamped(before, stamps) ==
  LET Over(k) == UNION {Indices(stamps[j].paper) : j \in k .. Len(stamps)}
  IN  (before \ Over(1)) \cup UNION {Indices(stamps[k].pen) \ Over(k + 1) : k \in 1 .. Len(stamps)}

Draw(call, stamps, count) ==
  /\ screen_calls + count <= MaxCalls
  /\ screen_calls' = screen_calls + count
  /\ last_call' = call
  /\ drawn' = stamps
  /\ lit' = Memory \cap Stamped(lit, stamps)

ShowNumber ==
  \E o \in Origins, num \in 1 .. MaxDigits :
    \/ \E n \in Ints :
         Draw([op |-> "int", x |-> o.x, y |-> o.y, n |-> n, size |-> num + 1],
              ShowString(o.x, o.y, IntField(n, num)), 1)
    \/ \E n \in Uints :
         Draw([op |-> "uint", x |-> o.x, y |-> o.y, n |-> n, size |-> num],
              ShowString(o.x, o.y, UintField(n, num)), 1)

ShowFloat ==
  \E o \in Origins, num \in 1 .. FloatDigits, pointnum \in 0 .. FloatPoints, v \in Floats,
     under \in BOOLEAN :
    Draw([op |-> "float", x |-> o.x, y |-> o.y, n |-> v, size |-> num + pointnum + 2],
         ShowString(o.x, o.y, FloatField(v, num, pointnum, under)), 1)

ShowText ==
  \E o \in Origins, s \in Strings :
    \/ /\ \A i \in 1 .. Len(s) : ~IsWide(s[i])
       /\ \/ Draw([op |-> "string"], ShowString(o.x, o.y, s), 1)
          \/ \E k \in Scales : Draw([op |-> "scaled"], ShowStringScaled(o.x, o.y, s, k), 1)
    \/ Draw([op |-> "chinese", x |-> o.x], ShowChineseString(o.x, o.y, s), 1)
    \/ \E k \in Scales : Draw([op |-> "chinese_scaled", x |-> o.x, y |-> o.y, scale |-> k],
                              ShowChineseStringScaled(o.x, o.y, s, k), 1)

(* Bound: the first call on a clear screen.                                *)
DrawLine ==
  /\ screen_calls = 0
  /\ \E from, to \in Frame(ScreenW, ScreenH) : \E short \in SUBSET MayFallShort(from, to) :
       LET points == LinePoints(from, to, short)
       IN  Draw([op |-> "line", from |-> from, to |-> to],
                [i \in 1 .. Len(points) |-> [pen |-> {points[i]}, paper |-> {}]], MaxCalls)

ShowGrayImage ==
  \E o \in Origins, image \in Images :
    Draw([op |-> "image"], <<ImageStamp(o.x, o.y, image)>>, 1)

(* ips200_full with the background colour, ips200_clear: the loops run     *)
(* over 240 columns and 320 rows.                                          *)
Clear ==
  /\ lit' = lit \ Indices(Frame(ScreenW, ScreenH))
  /\ drawn' = <<>>
  /\ last_call' = [op |-> "clear"]
  /\ screen_calls' = 0

ScreenInit ==
  /\ lit = {}
  /\ drawn = <<>>
  /\ last_call = [op |-> "clear"]
  /\ screen_calls = 0

ScreenNext == ShowNumber \/ ShowFloat \/ ShowText \/ DrawLine \/ ShowGrayImage \/ Clear

ScreenSpec == ScreenInit /\ [][ScreenNext]_screenVars

-----------------------------------------------------------------------------
OnScreen(p) == p.x \in 0 .. ScreenW - 1 /\ p.y \in 0 .. ScreenH - 1
Touched == UNION {drawn[i].pen \cup drawn[i].paper : i \in 1 .. Len(drawn)}

(* A number shown in a field replaces whatever was there: what is lit in   *)
(* the cells of the field is the number, left-justified, whichever number, *)
(* longer or shorter, or text was there before.  (Of a field that lies on  *)
(* the screen.)                                                            *)
Numeral(call) ==
  IF call.op = "int" THEN FuncIntToStr(LowDigits(call.n, call.size - 1))
  ELSE FuncUintToStr(LowDigits(call.n, call.size))

FieldArea(call) == {At(call.x, call.y, p) : p \in Frame(CellW * call.size, CellH)}

NumeralPoints(call) ==
  UNION {{At(call.x + CellW * (i - 1), call.y, p) : p \in {q \in CharCell : q \in AsciiFont[Numeral(call)[i]]}} :
           i \in 1 .. Len(Numeral(call))}

FieldReplacesContent ==
  (last_call.op \in {"int", "uint"} /\ \A p \in FieldArea(last_call) : OnScreen(p))
    => lit \cap Indices(FieldArea(last_call)) = Indices(NumeralPoints(last_call))

(* A field has the same size for every number it shows: no call draws      *)
(* beyond it, so that fields side by side do not disturb each other.       *)
FieldStaysInside ==
  last_call.op \in {"int", "uint", "float"} => Touched = FieldArea(last_call)

(* A number field is replaced as a whole, and nothing else is.             *)
FieldsReplaced == FieldReplacesContent /\ FieldStaysInside

(* A mixed string that starts at the left edge never draws beyond the      *)
(* right edge, where its points would land in the next row; the scaled one *)
(* that starts with room for a line never leaves the screen at all.        *)
StringsWrapInTime ==
  /\ (last_call.op = "chinese" /\ last_call.x = 0) => \A p \in Touched : p.x < ScreenW
  /\ (last_call.op = "chinese_scaled" /\ last_call.x = 0
        /\ 2 * CellW * last_call.scale <= ScreenW /\ last_call.y + CellH * last_call.scale <= ScreenH)
       => \A p \in Touched : OnScreen(p)

(* A line is drawn from its start to its end without a gap, inside the box *)
(* the two span, whichever of them is left or above.  Of a line that is    *)
(* neither straight nor diagonal a point, the last one too, may lie one    *)
(* beside its place: to the left of it in a steep line, above it in a flat *)
(* one, but never off the screen.                                          *)
Near(p, q) == FuncAbs(p.x - q.x) <= 1 /\ FuncAbs(p.y - q.y) <= 1
Within(v, a, b) == (a <= v /\ v <= b) \/ (b <= v /\ v <= a)
InBox(v, a, b) == Within(v, a, b) \/ (v >= 0 /\ Within(v + 1, a, b))

Ends(from, to) ==
  LET w == FuncAbs(to.x - from.x)
      h == FuncAbs(to.y - from.y)
  IN  IF w = 0 \/ h = 0 \/ w = h THEN {to}
      ELSE IF h > w THEN {to, [to EXCEPT !.x = @ - 1]}
      ELSE {to, [to EXCEPT !.y = @ - 1]}

LineJoinsEnds ==
  last_call.op = "line" =>
    /\ drawn[1].pen = {last_call.from}
    /\ \E end \in Ends(last_call.from, last_call.to) : drawn[Len(drawn)].pen = {end}
    /\ \A i \in 1 .. Len(drawn) - 1 :
         \A p \in drawn[i].pen, q \in drawn[i + 1].pen : Near(p, q)
    /\ \A p \in Touched : /\ InBox(p.x, last_call.from.x, last_call.to.x)
                            /\ InBox(p.y, last_call.from.y, last_call.to.y)

(* Strings and lines stay where they were asked for.                       *)
DrawnInPlace == StringsWrapInTime /\ LineJoinsEnds
=============================================================================
