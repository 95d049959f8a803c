------------------------- MODULE Conversions_proofs -------------------------
(***************************************************************************)
(* Proofs about the conversions, about their calls, and about the screen,  *)
(* which shows what they write: for integers of any width, and for a       *)
(* screen, fonts, strings, formats and numbers of any size.                *)
(***************************************************************************)
EXTENDS Display, ConversionCalls, WellFoundedInduction, SequenceTheorems, TLAPS

-----------------------------------------------------------------------------
(* Loops that are written as recursive functions.                          *)

(* Numbers that are some have a least one.                                 *)
LEMMA LeastOne ==
  ASSUME NEW T, T \subseteq Nat, T # {}
  PROVE  \E m \in T : \A k \in T : m <= k
<1>1. PICK m \in T : \A k \in T : ~(<<k, m>> \in OpToRel(<, Nat))
  BY WFMin, NatLessThanWellFounded, Zenon
<1>2. \A k \in T : ~(k < m)
  BY <1>1 DEF OpToRel
<1>3. ASSUME NEW k \in T
      PROVE  m <= k
  BY <1>2, <1>3
<1> QED
  BY <1>1, <1>3

(* A set of numbers that holds 0 and with a number the next one holds all. *)
LEMMA AllNumbers ==
  ASSUME NEW P, 0 \in P, \A n \in Nat : n \in P => n + 1 \in P
  PROVE  \A n \in Nat : n \in P
<1> DEFINE T == Nat \ P
<1>1. ASSUME T # {}
      PROVE  FALSE
  <2>1. T \subseteq Nat
    OBVIOUS
  <2> HIDE DEF T
  <2>2. PICK m \in T : \A k \in T : m <= k
    BY <2>1, <1>1, LeastOne
  <2>3. m \in Nat /\ m \notin P
    BY <2>2 DEF T
  <2>4. m - 1 \in Nat /\ m - 1 + 1 = m
    BY <2>3
  <2>5. m - 1 \notin T
    BY <2>2, <2>4
  <2>6. m - 1 \in P
    BY <2>4, <2>5 DEF T
  <2> QED
    BY <2>3, <2>4, <2>6
<1> QED
  BY <1>1

(* The first passes of a loop: f[k] is the state after k of them.          *)
Begun(f, n, b, step) ==
  f[0] = b /\ \A k \in Nat : k < n => f[k + 1] = step[f[k]]

(* They are given by where the loop begins.                                *)
LEMMA BegunAlike ==
  ASSUME NEW b, NEW step, NEW n \in Nat, NEW f, NEW g, Begun(f, n, b, step), Begun(g, n, b, step)
  PROVE  \A k \in Nat : k <= n => f[k] = g[k]
<1> DEFINE P == {k \in Nat : k <= n => f[k] = g[k]}
<1>1. 0 \in P
  BY DEF Begun
<1>2. ASSUME NEW k \in Nat, k \in P
      PROVE  k + 1 \in P
  <2>1. CASE k + 1 <= n
    BY <2>1, <1>2 DEF Begun
  <2>2. CASE ~(k + 1 <= n)
    BY <2>2
  <2> QED
    BY <2>1, <2>2
<1> HIDE DEF P
<1>3. \A k \in Nat : k \in P
  BY <1>1, <1>2, AllNumbers
<1> QED
  BY <1>3 DEF P

Loops(f, S, b, step) ==
  f \in [Nat -> S] /\ f[0] = b /\ \A k \in Nat : f[k + 1] = step[f[k]]

(* A loop has a state after every number of passes: the recursive function *)
(* that describes it exists.                                               *)
LEMMA IterationExists ==
  ASSUME NEW S, NEW b \in S, NEW step \in [S -> S]
  PROVE  \E f : Loops(f, S, b, step)
<1> DEFINE P == {n \in Nat : \E f \in [Nat -> S] : Begun(f, n, b, step)}
<1>1. 0 \in P
  <2>1. [k \in Nat |-> b] \in [Nat -> S] /\ Begun([k \in Nat |-> b], 0, b, step)
    BY DEF Begun
  <2> QED
    BY <2>1
<1>2. ASSUME NEW n \in Nat, n \in P
      PROVE  n + 1 \in P
  <2>1. PICK f \in [Nat -> S] : Begun(f, n, b, step)
    BY <1>2
  <2> DEFINE g == [f EXCEPT ![n + 1] = step[f[n]]]
  <2>2. step[f[n]] \in S
    OBVIOUS
  <2>3. g \in [Nat -> S]
    BY <2>2
  <2>4. g[0] = b
    BY <2>1 DEF Begun
  <2>5. ASSUME NEW k \in Nat, k < n + 1
        PROVE  g[k + 1] = step[g[k]]
    <3>1. g[k] = f[k]
      BY <2>5
    <3>2. CASE k = n
      BY <3>1, <3>2
    <3>3. CASE k # n
      <4>1. k < n /\ k + 1 # n + 1
        BY <2>5, <3>3
      <4>2. f[k + 1] = step[f[k]]
        BY <4>1, <2>1 DEF Begun
      <4>3. g[k + 1] = f[k + 1]
        BY <4>1
      <4> QED
        BY <4>2, <4>3, <3>1
    <3> QED
      BY <3>2, <3>3
  <2>6. Begun(g, n + 1, b, step)
    BY <2>4, <2>5 DEF Begun
  <2> HIDE DEF g
  <2> QED
    BY <2>3, <2>6
<1> HIDE DEF P
<1>3. \A n \in Nat : n \in P
  BY <1>1, <1>2, AllNumbers
<1> DEFINE First(n) == CHOOSE f \in [Nat -> S] : Begun(f, n, b, step)
           F == [n \in Nat |-> First(n)[n]]
<1>4. \A n \in Nat : First(n) \in [Nat -> S] /\ Begun(First(n), n, b, step)
  BY <1>3 DEF P
<1> HIDE DEF First
<1>5. F \in [Nat -> S]
  BY <1>4
<1>6. F[0] = b
  BY <1>4 DEF Begun
<1>7. ASSUME NEW k \in Nat
      PROVE  F[k + 1] = step[F[k]]
  <2>1. Begun(First(k), k, b, step) /\ Begun(First(k + 1), k + 1, b, step)
    BY <1>4
  <2>2. Begun(First(k + 1), k, b, step)
    BY <2>1 DEF Begun
  <2>3. First(k + 1)[k] = First(k)[k]
    BY <2>1, <2>2, BegunAlike
  <2>4. First(k + 1)[k + 1] = step[First(k + 1)[k]]
    BY <2>1 DEF Begun
  <2> QED
    BY <2>3, <2>4
<1> HIDE DEF F
<1> QED
  BY <1>5, <1>6, <1>7 DEF Loops

(* The powers of ten.                                                      *)
LEMMA TensFacts ==
  /\ Tens[0] = 1
  /\ \A k \in Nat : Tens[k] \in Nat \ {0} /\ Tens[k + 1] = 10 * Tens[k]
<1> DEFINE S == Nat \ {0}
           step == [t \in S |-> 10 * t]
           Rule(g) == g = [k \in Nat |-> IF k = 0 THEN 1 ELSE 10 * g[k - 1]]
<1>1. step \in [S -> S] /\ 1 \in S
  OBVIOUS
<1>2. PICK f : Loops(f, S, 1, step)
  <2> HIDE DEF S, step
  <2> QED
    BY <1>1, IterationExists
<1>3. f \in [Nat -> S] /\ f[0] = 1 /\ \A k \in Nat : f[k] \in S /\ f[k + 1] = 10 * f[k]
  BY <1>2 DEF Loops
<1>4. Rule(f)
  <2>1. ASSUME NEW k \in Nat, k # 0
        PROVE  f[k] = 10 * f[k - 1]
    <3>1. k - 1 \in Nat /\ k - 1 + 1 = k
      BY <2>1
    <3> QED
      BY <3>1, <1>3
  <2>2. f = [k \in Nat |-> f[k]]
    BY <1>3
  <2> QED
    BY <2>1, <2>2, <1>3
<1>5. Rule(Tens)
  <2>1. Tens = CHOOSE g : Rule(g)
    BY DEF Tens
  <2> HIDE DEF Rule
  <2> QED
    BY <1>4, <2>1
<1> HIDE DEF S
<1>6. Tens = f
  <2>1. \A k \in Nat : Tens[k] = IF k = 0 THEN 1 ELSE 10 * Tens[k - 1]
    BY <1>5
  <2> DEFINE P == {k \in Nat : Tens[k] = f[k]}
  <2>2. 0 \in P
    BY <2>1, <1>3
  <2>3. ASSUME NEW k \in Nat, k \in P
        PROVE  k + 1 \in P
    <3>1. k + 1 \in Nat /\ k + 1 # 0 /\ k + 1 - 1 = k
      OBVIOUS
    <3>2. Tens[k + 1] = 10 * Tens[k]
      BY <3>1, <2>1
    <3> QED
      BY <3>2, <2>3, <1>3
  <2> HIDE DEF P
  <2>4. \A k \in Nat : k \in P
    BY <2>2, <2>3, AllNumbers
  <2>5. \A k \in Nat : Tens[k] = f[k]
    BY <2>4 DEF P
  <2>6. Tens = [k \in Nat |-> Tens[k]] /\ f = [k \in Nat |-> f[k]]
    BY <1>5, <1>3
  <2> QED
    BY <2>5, <2>6
<1> QED
  BY <1>6, <1>3 DEF S

(* The quotient of natural numbers.                                        *)
LEMMA NaturalQuotient ==
  ASSUME NEW a \in Nat, NEW b \in Nat \ {0}
  PROVE  /\ a \div b \in Nat
         /\ b * (a \div b) <= a /\ a < b * (a \div b) + b
         /\ \A q \in Nat : (b * q <= a /\ a < b * q + b) => a \div b = q
<1>1. a \div b \in Nat /\ a % b \in 0 .. b - 1 /\ a = b * (a \div b) + (a % b)
  OBVIOUS
<1>2. b * (a \div b) \in Int
  BY <1>1
<1>3. ASSUME NEW q \in Nat, b * q <= a, a < b * q + b
      PROVE  a \div b = q
  <2> DEFINE d == a \div b
  <2>1. d \in Nat /\ b * d <= a /\ a < b * d + b
    BY <1>1, <1>2
  <2> HIDE DEF d
  <2>2. \A i, j \in Nat : i + 1 <= j => b * i + b <= b * j
    <3> TAKE i, j \in Nat
    <3> HAVE i + 1 <= j
    <3>1. b * j = b * i + b * (j - i)
      OBVIOUS
    <3>2. b * (j - i) >= b
      OBVIOUS
    <3>3. b * i \in Int /\ b * (j - i) \in Int
      OBVIOUS
    <3> QED
      BY <3>1, <3>2, <3>3
  <2>3. b * d \in Int /\ b * q \in Int
    BY <2>1
  <2>4. ~(d + 1 <= q) /\ ~(q + 1 <= d)
    BY <2>1, <2>2, <2>3, <1>3
  <2> QED
    BY <2>1, <2>4 DEF d
<1> QED
  BY <1>1, <1>2, <1>3

(* / and % of C, with a divisor above zero.                                *)
LEMMA QuotFacts ==
  ASSUME NEW a \in Int, NEW b \in Nat \ {0}
  PROVE  /\ Quot(a, b) \in Int /\ Rem(a, b) \in Int
         /\ FuncAbs(Quot(a, b)) = FuncAbs(a) \div b
         /\ a = b * Quot(a, b) + Rem(a, b)
         /\ a >= 0 => Quot(a, b) >= 0 /\ 0 <= Rem(a, b) /\ Rem(a, b) < b /\ Rem(a, b) <= a
         /\ a <= 0 => Quot(a, b) <= 0 /\ Rem(a, b) <= 0 /\ -b < Rem(a, b) /\ a <= Rem(a, b)
<1> DEFINE q == FuncAbs(a) \div FuncAbs(b)
<1>1. FuncAbs(a) \in Nat /\ FuncAbs(b) = b /\ (a >= 0 => FuncAbs(a) = a) /\ (a < 0 => FuncAbs(a) = -a)
  BY DEF FuncAbs
<1>2. q \in Nat /\ b * q <= FuncAbs(a) /\ FuncAbs(a) < b * q + b
  BY <1>1, NaturalQuotient
<1>3. b * q \in Nat /\ b * (-q) = -(b * q)
  <2>1. \A i, j \in Nat : i * j \in Nat /\ i * (-j) = -(i * j)
    OBVIOUS
  <2> QED
    BY <2>1, <1>2
<1>4. q = FuncAbs(a) \div b
  BY <1>1
<1>5. Quot(a, b) = IF a >= 0 THEN q ELSE -q
  BY DEF Quot
<1> HIDE DEF q
<1>6. Rem(a, b) = IF a >= 0 THEN a - b * q ELSE a + b * q
  BY <1>5, <1>3, <1>2 DEF Rem
<1>7. b * Quot(a, b) = IF a >= 0 THEN b * q ELSE -(b * q)
  BY <1>5, <1>3, <1>2
<1>8. FuncAbs(Quot(a, b)) = FuncAbs(a) \div b
  BY <1>4, <1>5, <1>2 DEF FuncAbs
<1>9. CASE a > 0
  BY <1>9, <1>1, <1>2, <1>3, <1>5, <1>6, <1>7, <1>8
<1>10. CASE a < 0
  BY <1>10, <1>1, <1>2, <1>3, <1>5, <1>6, <1>7, <1>8
<1>11. CASE a = 0
  BY <1>11, <1>1, <1>2, <1>3, <1>5, <1>6, <1>7, <1>8
<1> QED
  BY <1>9, <1>10, <1>11

(* A quotient by ten is nearer to zero.                                    *)
LEMMA TenthFacts ==
  ASSUME NEW n \in Int
  PROVE  /\ Quot(n, 10) \in Int /\ Rem(n, 10) \in Int
         /\ n # 0 => FuncAbs(Quot(n, 10)) < FuncAbs(n)
         /\ \A t \in Nat : FuncAbs(n) < 10 * t => FuncAbs(Quot(n, 10)) < t
  BY DEF Quot, Rem, FuncAbs

(* A quotient by a base is nearer to zero, and keeps the sign.             *)
LEMMA ShareFacts ==
  ASSUME NEW n \in Int, NEW r \in Nat, r >= 2
  PROVE  /\ Quot(n, r) \in Int /\ Rem(n, r) \in Int
         /\ n # 0 => FuncAbs(Quot(n, r)) < FuncAbs(n)
         /\ n = 0 => Quot(n, r) = 0
         /\ n \in Nat => /\ Quot(n, r) \in Nat /\ Rem(n, r) \in 0 .. r - 1
                         /\ n = r * Quot(n, r) + Rem(n, r)
         /\ Quot(-n, r) = -Quot(n, r) /\ Rem(-n, r) = -Rem(n, r)
<1> DEFINE q == Quot(n, r)
<1>1. q \in Int /\ Rem(n, r) \in Int /\ n = r * q + Rem(n, r) /\ FuncAbs(q) = FuncAbs(n) \div r
  BY QuotFacts
<1>2. n >= 0 => q >= 0 /\ 0 <= Rem(n, r) /\ Rem(n, r) < r /\ Rem(n, r) <= n
  BY QuotFacts
<1>3. n <= 0 => q <= 0 /\ Rem(n, r) <= 0 /\ -r < Rem(n, r) /\ n <= Rem(n, r)
  BY QuotFacts
<1>4. Quot(-n, r) = -q
  <2>1. FuncAbs(-n) = FuncAbs(n)
    BY DEF FuncAbs
  <2>2. n = 0 => FuncAbs(n) \div r = 0
    BY DEF FuncAbs
  <2>3. FuncAbs(r) = r
    BY DEF FuncAbs
  <2>4. FuncAbs(n) \div r \in Int
    BY DEF FuncAbs
  <2> QED
    BY <2>1, <2>2, <2>3, <2>4 DEF Quot
<1>5. Rem(-n, r) = -Rem(n, r)
  <2>1. Rem(-n, r) = -n - r * (-q) /\ Rem(n, r) = n - r * q
    BY <1>4 DEF Rem
  <2>2. \A i, j \in Int : i * j \in Int /\ i * (-j) = -(i * j)
    OBVIOUS
  <2>3. r * q \in Int /\ r * (-q) = -(r * q)
    BY <2>2, <1>1
  <2> HIDE DEF q
  <2> QED
    BY <2>1, <2>3
<1>6. n = 0 => q = 0
  BY <1>2, <1>3, <1>1
<1>7. ASSUME n # 0
      PROVE  FuncAbs(q) < FuncAbs(n)
  <2> DEFINE a == FuncAbs(n)
  <2>1. a \in Nat /\ a > 0
    BY <1>7 DEF FuncAbs
  <2> HIDE DEF a
  <2>2. a \div r \in Nat /\ r * (a \div r) <= a
    BY <2>1, NaturalQuotient
  <2>3. \A i, j \in Nat : i >= 2 => i * j \in Int /\ i * j >= 2 * j
    <3> TAKE i, j \in Nat
    <3> HAVE i >= 2
    <3>1. i * j = 2 * j + (i - 2) * j
      OBVIOUS
    <3>2. i - 2 \in Nat
      OBVIOUS
    <3>3. (i - 2) * j \in Nat
      BY <3>2
    <3> QED
      BY <3>1, <3>3
  <2>4. r * (a \div r) >= 2 * (a \div r) /\ r * (a \div r) \in Int
    BY <2>2, <2>3
  <2>5. a \div r < a
    BY <2>1, <2>2, <2>4
  <2> QED
    BY <2>5, <1>1 DEF a
<1> HIDE DEF q
<1>8. ASSUME n \in Nat
      PROVE  q \in Nat /\ Rem(n, r) \in 0 .. r - 1
  BY <1>8, <1>1, <1>2
<1> QED
  BY <1>1, <1>4, <1>5, <1>6, <1>7, <1>8 DEF q

(* The numbers that are left, down to zero, which the passes reach.        *)
LEMMA RemainingFacts ==
  ASSUME NEW n \in Int, NEW r \in Nat, r >= 2
  PROVE  /\ Remaining(n, r)[0] = n
         /\ \A k \in Nat : /\ Remaining(n, r)[k] \in Int
                           /\ Remaining(n, r)[k + 1] = Quot(Remaining(n, r)[k], r)
         /\ Remaining(n, r)[FuncAbs(n)] = 0
<1> DEFINE step == [m \in Int |-> Quot(m, r)]
           Rule(g) == g = [k \in Nat |-> IF k = 0 THEN n ELSE Quot(g[k - 1], r)]
           rest == CHOOSE g : Rule(g)
<1>1. Remaining(n, r) = rest
  BY DEF Remaining
<1>2. step \in [Int -> Int]
  BY ShareFacts
<1>3. PICK f : Loops(f, Int, n, step)
  <2> HIDE DEF step
  <2> QED
    BY <1>2, IterationExists
<1>4. f \in [Nat -> Int] /\ f[0] = n /\ \A k \in Nat : f[k] \in Int /\ f[k + 1] = Quot(f[k], r)
  BY <1>3 DEF Loops
<1>5. Rule(f)
  <2>1. ASSUME NEW k \in Nat, k # 0
        PROVE  f[k] = Quot(f[k - 1], r)
    <3>1. k - 1 \in Nat /\ k - 1 + 1 = k
      BY <2>1
    <3> QED
      BY <3>1, <1>4
  <2>2. f = [k \in Nat |-> f[k]]
    BY <1>4
  <2> QED
    BY <2>1, <2>2, <1>4
<1>6. Rule(rest)
  <2> HIDE DEF Rule
  <2> QED
    BY <1>5
<1> HIDE DEF rest, step
<1>7. rest[0] = n /\ \A k \in Nat : rest[k + 1] = Quot(rest[k], r)
  <2>1. \A k \in Nat : rest[k] = IF k = 0 THEN n ELSE Quot(rest[k - 1], r)
    BY <1>6
  <2>2. ASSUME NEW k \in Nat
        PROVE  rest[k + 1] = Quot(rest[k], r)
    <3>1. k + 1 \in Nat /\ k + 1 # 0 /\ k + 1 - 1 = k
      OBVIOUS
    <3> QED
      BY <3>1, <2>1
  <2> QED
    BY <2>1, <2>2
<1> HIDE DEF Rule
<1>8. \A k \in Nat : rest[k] \in Int
  <2> DEFINE P == {k \in Nat : rest[k] \in Int}
  <2>1. 0 \in P
    BY <1>7
  <2>2. ASSUME NEW k \in Nat, k \in P
        PROVE  k + 1 \in P
    <3>1. rest[k] \in Int
      BY <2>2
    <3>2. Quot(rest[k], r) \in Int
      BY <3>1, ShareFacts
    <3> QED
      BY <3>2, <1>7
  <2> HIDE DEF P
  <2>3. \A k \in Nat : k \in P
    BY <2>1, <2>2, AllNumbers
  <2> QED
    BY <2>3 DEF P
<1>9. \A k \in Nat : rest[k] = 0 \/ FuncAbs(rest[k]) + k <= FuncAbs(n)
  <2> DEFINE P == {k \in Nat : rest[k] = 0 \/ FuncAbs(rest[k]) + k <= FuncAbs(n)}
  <2>1. 0 \in P
    BY <1>7 DEF FuncAbs
  <2>2. ASSUME NEW k \in Nat, k \in P
        PROVE  k + 1 \in P
    <3>1. CASE rest[k] = 0
      <4>1. Quot(rest[k], r) = 0
        BY <3>1, ShareFacts
      <4> QED
        BY <4>1, <1>7
    <3>2. CASE rest[k] # 0
      <4>1. FuncAbs(rest[k]) + k <= FuncAbs(n)
        BY <2>2, <3>2
      <4>2. FuncAbs(rest[k + 1]) < FuncAbs(rest[k]) /\ rest[k + 1] \in Int /\ rest[k] \in Int
        BY <3>2, <1>7, <1>8, ShareFacts
      <4> QED
        BY <4>1, <4>2 DEF FuncAbs
    <3> QED
      BY <3>1, <3>2
  <2> HIDE DEF P
  <2>3. \A k \in Nat : k \in P
    BY <2>1, <2>2, AllNumbers
  <2> QED
    BY <2>3 DEF P
<1>10. FuncAbs(n) \in Nat /\ rest[FuncAbs(n)] = 0
  <2>1. FuncAbs(n) \in Nat
    BY DEF FuncAbs
  <2>2. rest[FuncAbs(n)] \in Int
    BY <2>1, <1>8
  <2>3. rest[FuncAbs(n)] = 0 \/ FuncAbs(rest[FuncAbs(n)]) + FuncAbs(n) <= FuncAbs(n)
    BY <2>1, <1>9
  <2> QED
    BY <2>1, <2>2, <2>3 DEF FuncAbs
<1> QED
  BY <1>1, <1>7, <1>8, <1>10

(* The digits of a number end with its first pass that leaves nothing.     *)
RunsOut(n, r, k) ==
  /\ k \in 0 .. FuncAbs(n)
  /\ Remaining(n, r)[k] = 0 /\ \A j \in 0 .. k - 1 : Remaining(n, r)[j] # 0

LEMMA DigitsAre ==
  ASSUME NEW n \in Int, NEW r \in Nat, r >= 2
  PROVE  \E bit \in Nat : /\ RunsOut(n, r, bit)
                          /\ DigitsOf(n, r) = [k \in 1 .. bit |-> Rem(Remaining(n, r)[k - 1], r)]
<1> DEFINE rest == Remaining(n, r)
           Last(k) == rest[k] = 0 /\ \A j \in 0 .. k - 1 : rest[j] # 0
           bit == CHOOSE k \in 0 .. FuncAbs(n) : Last(k)
<1>1. DigitsOf(n, r) = [k \in 1 .. bit |-> Rem(rest[k - 1], r)]
  BY DEF DigitsOf
<1>2. FuncAbs(n) \in Nat /\ rest[FuncAbs(n)] = 0
  BY RemainingFacts DEF FuncAbs
<1> HIDE DEF rest
<1>3. PICK m \in Nat : rest[m] = 0 /\ \A j \in Nat : rest[j] = 0 => m <= j
  <2> DEFINE T == {k \in Nat : rest[k] = 0}
  <2>1. T \subseteq Nat /\ T # {}
    BY <1>2
  <2> HIDE DEF T
  <2>2. PICK m \in T : \A k \in T : m <= k
    BY <2>1, LeastOne
  <2> QED
    BY <2>2 DEF T
<1>4. m \in 0 .. FuncAbs(n) /\ Last(m)
  <2>1. m <= FuncAbs(n)
    BY <1>2, <1>3
  <2> QED
    BY <2>1, <1>2, <1>3
<1>5. bit \in 0 .. FuncAbs(n) /\ Last(bit)
  <2> HIDE DEF Last
  <2> QED
    BY <1>4
<1> HIDE DEF bit
<1> QED
  BY <1>1, <1>5, <1>2 DEF RunsOut, rest

(* A number below a power of ten has no more digits than the power tells.  *)
LEMMA PassesFew ==
  ASSUME NEW n \in Int, NEW num \in Nat, FuncAbs(n) < Tens[num]
  PROVE  Remaining(n, 10)[num] = 0
<1> DEFINE rest == Remaining(n, 10)
<1>1. rest[0] = n /\ \A k \in Nat : rest[k] \in Int /\ rest[k + 1] = Quot(rest[k], 10)
  BY RemainingFacts
<1> HIDE DEF rest
<1>2. \A k \in Nat : k <= num => FuncAbs(rest[k]) < Tens[num - k]
  <2> DEFINE P == {k \in Nat : k <= num => FuncAbs(rest[k]) < Tens[num - k]}
  <2>1. 0 \in P
    BY <1>1
  <2>2. ASSUME NEW k \in Nat, k \in P
        PROVE  k + 1 \in P
    <3>1. CASE k + 1 <= num
      <4>1. num - (k + 1) \in Nat /\ num - (k + 1) + 1 = num - k
        BY <3>1
      <4>2. Tens[num - k] = 10 * Tens[num - (k + 1)] /\ Tens[num - (k + 1)] \in Nat
        BY <4>1, TensFacts
      <4>3. FuncAbs(rest[k]) < Tens[num - k]
        BY <2>2, <3>1
      <4>4. FuncAbs(rest[k + 1]) < Tens[num - (k + 1)]
        BY <4>2, <4>3, <1>1, TenthFacts
      <4> QED
        BY <4>4
    <3>2. CASE ~(k + 1 <= num)
      BY <3>2
    <3> QED
      BY <3>1, <3>2
  <2> HIDE DEF P
  <2>3. \A k \in Nat : k \in P
    BY <2>1, <2>2, AllNumbers
  <2> QED
    BY <2>3 DEF P
<1>3. rest[num] = 0
  <2>1. FuncAbs(rest[num]) < Tens[num - num] /\ num - num = 0
    BY <1>2
  <2> QED
    BY <2>1, <1>1, TensFacts DEF FuncAbs
<1> QED
  BY <1>3 DEF rest

LEMMA DigitsFew ==
  ASSUME NEW n \in Int, NEW num \in Nat, FuncAbs(n) < Tens[num]
  PROVE  \E bit \in 0 .. num : DigitsOf(n, 10) \in [1 .. bit -> Int]
<1>1. PICK bit \in Nat : /\ RunsOut(n, 10, bit)
                         /\ DigitsOf(n, 10) = [k \in 1 .. bit |-> Rem(Remaining(n, 10)[k - 1], 10)]
  BY DigitsAre
<1>2. Remaining(n, 10)[num] = 0
  BY PassesFew
<1>3. bit \in 0 .. num
  <2>1. ~(num \in 0 .. bit - 1)
    BY <1>1, <1>2 DEF RunsOut
  <2> QED
    BY <2>1
<1>4. \A k \in 1 .. bit : Rem(Remaining(n, 10)[k - 1], 10) \in Int
  <2>1. ASSUME NEW k \in 1 .. bit
        PROVE  Rem(Remaining(n, 10)[k - 1], 10) \in Int
    <3>1. k - 1 \in Nat
      BY <1>1
    <3>2. Remaining(n, 10)[k - 1] \in Int
      BY <3>1, RemainingFacts
    <3> QED
      BY <3>2, TenthFacts
  <2> QED
    BY <2>1
<1> QED
  BY <1>1, <1>3, <1>4

(* Texts of at most n characters.                                          *)
Short(n) == {s \in Seq(Int) : Len(s) <= n}

(* A function on 1 .. n is a sequence of that length.                      *)
LEMMA Sequence ==
  ASSUME NEW n \in Nat, NEW S, NEW s \in [1 .. n -> S]
  PROVE  s \in Seq(S) /\ Len(s) = n /\ DOMAIN s = 1 .. n
  OBVIOUS

LEMMA Joined ==
  ASSUME NEW m \in Nat, NEW n \in Nat, NEW s \in Short(m), NEW t \in Short(n)
  PROVE  s \o t \in Short(m + n)
<1>1. s \in Seq(Int) /\ t \in Seq(Int) /\ Len(s) \in Nat /\ Len(t) \in Nat
  BY DEF Short
<1>2. s \o t \in Seq(Int) /\ Len(s \o t) = Len(s) + Len(t)
  BY <1>1, ConcatProperties
<1> QED
  BY <1>1, <1>2 DEF Short

LEMMA OneCharacter == \A c \in Int : <<c>> \in Short(1)
  BY DEF Short

(* What is written of few digits is short.                                 *)
LEMMA WrittenFew ==
  ASSUME NEW n \in Nat, NEW digits \in [1 .. n -> Int]
  PROVE  /\ Written(digits) \in Short(n) /\ Written(Positive(digits)) \in Short(n)
<1>1. \A d \in [1 .. n -> Int] : Written(d) \in Short(n)
  <2> TAKE d \in [1 .. n -> Int]
  <2>1. Len(d) = n
    BY Sequence
  <2>2. Written(d) \in [1 .. n -> Int]
    <3>1. \A i \in 1 .. n : n + 1 - i \in 1 .. n
      OBVIOUS
    <3> QED
      BY <3>1, <2>1 DEF Written, LetterZero
  <2>3. Written(d) \in Seq(Int) /\ Len(Written(d)) = n
    BY <2>2, Sequence
  <2> QED
    BY <2>3 DEF Short
<1>2. Positive(digits) \in [1 .. n -> Int]
  BY DEF Positive, FuncAbs
<1> QED
  BY <1>1, <1>2

LEMMA Longer ==
  ASSUME NEW m \in Nat, NEW n \in Nat, m <= n
  PROVE  Short(m) \subseteq Short(n)
  BY DEF Short

(* The text of a number below a power of ten.                              *)
LEMMA UintShort ==
  ASSUME NEW num \in Nat \ {0}, NEW n \in Nat, n < Tens[num]
  PROVE  FuncUintToStr(n) \in Short(num)
<1>1. CASE n = 0
  <2>1. <<LetterZero>> \in Short(1)
    BY OneCharacter DEF LetterZero
  <2> QED
    BY <2>1, <1>1, Longer DEF FuncUintToStr
<1>2. CASE n # 0
  <2>1. FuncAbs(n) < Tens[num] /\ n \in Int
    BY DEF FuncAbs
  <2>2. PICK bit \in 0 .. num : DigitsOf(n, 10) \in [1 .. bit -> Int]
    BY <2>1, DigitsFew
  <2>3. Written(DigitsOf(n, 10)) \in Short(bit)
    BY <2>2, WrittenFew
  <2>4. Short(bit) \subseteq Short(num)
    BY <2>2, Longer
  <2> QED
    BY <2>3, <2>4, <1>2 DEF FuncUintToStr
<1> QED
  BY <1>1, <1>2

LEMMA IntShort ==
  ASSUME NEW num \in Nat \ {0}, NEW n \in MinInt .. MaxInt, FuncAbs(n) < Tens[num]
  PROVE  FuncIntToStr(n) \in Short(num + 1)
<1>1. n \in Int /\ Half \in Nat \ {0}
  BY ConversionsAssumption DEF MinInt, MaxInt
<1>2. CASE n = 0
  <2>1. <<LetterZero>> \in Short(1)
    BY OneCharacter DEF LetterZero
  <2> QED
    BY <2>1, <1>2, Longer DEF FuncIntToStr
<1>3. CASE n # 0
  <2> DEFINE w == Wrapped(FuncAbs(n))
  <2>1. w \in Int /\ FuncAbs(w) = FuncAbs(n)
    <3>1. CASE n = -Half
      <4>1. FuncAbs(n) + Half = 2 * Half
        BY <3>1, <1>1 DEF FuncAbs
      <4>2. (2 * Half) % (2 * Half) = 0
        BY <1>1
      <4>3. w = 0 - Half
        BY <4>1, <4>2 DEF Wrapped
      <4> QED
        BY <4>3, <3>1, <1>1 DEF FuncAbs
    <3>2. CASE n # -Half
      <4>1. FuncAbs(n) + Half \in 0 .. 2 * Half - 1 /\ FuncAbs(n) \in Nat
        BY <3>2, <1>1 DEF FuncAbs, MinInt, MaxInt
      <4>2. \A a \in Nat, m \in Nat : a < m => a % m = a
        OBVIOUS
      <4>3. (FuncAbs(n) + Half) % (2 * Half) = FuncAbs(n) + Half
        BY <4>1, <4>2, <1>1
      <4>4. w = FuncAbs(n)
        BY <4>3, <4>1, <1>1 DEF Wrapped
      <4> QED
        BY <4>4, <4>1 DEF FuncAbs
    <3> QED
      BY <3>1, <3>2
  <2> HIDE DEF w
  <2>2. PICK bit \in 0 .. num : DigitsOf(w, 10) \in [1 .. bit -> Int]
    BY <2>1, DigitsFew
  <2>3. Written(Positive(DigitsOf(w, 10))) \in Short(bit)
    BY <2>2, WrittenFew
  <2>4. Written(Positive(DigitsOf(w, 10))) \in Short(num)
    BY <2>2, <2>3, Longer
  <2>5. (IF n < 0 THEN <<Minus>> ELSE <<>>) \in Short(1)
    BY DEF Short, Minus
  <2>6. (IF n < 0 THEN <<Minus>> ELSE <<>>) \o Written(Positive(DigitsOf(w, 10))) \in Short(1 + num)
    BY <2>4, <2>5, Joined
  <2>7. FuncIntToStr(n) = (IF n < 0 THEN <<Minus>> ELSE <<>>) \o Written(Positive(DigitsOf(w, 10)))
    BY <1>3 DEF FuncIntToStr, w
  <2> QED
    BY <2>6, <2>7
<1> QED
  BY <1>2, <1>3

(* The low digits of an integer fit in a field.                            *)
LEMMA LowDigitsFew ==
  ASSUME NEW num \in 1 .. MaxDigits
  PROVE  /\ \A n \in Ints : LowDigits(n, num) \in MinInt .. MaxInt /\ FuncAbs(LowDigits(n, num)) < Tens[num]
         /\ \A n \in Uints : LowDigits(n, num) \in Nat /\ LowDigits(n, num) < Tens[num]
<1>1. MaxDigits \in Nat /\ 2 * Half <= Tens[MaxDigits] /\ Half \in Nat \ {0}
  BY ScreenAssumption, ConversionsAssumption
<1>2. num \in Nat /\ Tens[num] \in Nat \ {0}
  BY <1>1, TensFacts
<1>3. ASSUME NEW n \in Ints
      PROVE  LowDigits(n, num) \in MinInt .. MaxInt /\ FuncAbs(LowDigits(n, num)) < Tens[num]
  <2>1. n \in Int /\ -Half <= n /\ n <= Half - 1
    BY <1>1, ScreenAssumption DEF MinInt, MaxInt
  <2>2. CASE num < MaxDigits
    <3> DEFINE r == Rem(n, Tens[num])
    <3>1. LowDigits(n, num) = r
      BY <2>2 DEF LowDigits
    <3>2. /\ r \in Int
          /\ n >= 0 => 0 <= r /\ r < Tens[num] /\ r <= n
          /\ n <= 0 => r <= 0 /\ -Tens[num] < r /\ n <= r
      BY <2>1, <1>2, QuotFacts
    <3> HIDE DEF r
    <3> QED
      BY <3>1, <3>2, <2>1, <1>1, <1>2 DEF FuncAbs, MinInt, MaxInt
  <2>3. CASE num = MaxDigits
    <3>1. LowDigits(n, num) = n
      BY <2>3, <1>1 DEF LowDigits
    <3> QED
      BY <3>1, <2>1, <2>3, <1>1, <1>2 DEF FuncAbs, MinInt, MaxInt
  <2> QED
    BY <2>2, <2>3, <1>1
<1>4. ASSUME NEW n \in Uints
      PROVE  LowDigits(n, num) \in Nat /\ LowDigits(n, num) < Tens[num]
  <2>1. n \in Nat /\ n \in Int /\ n <= 2 * Half - 1
    BY <1>1, ScreenAssumption DEF MaxUint
  <2>2. CASE num < MaxDigits
    <3> DEFINE r == Rem(n, Tens[num])
    <3>1. LowDigits(n, num) = r
      BY <2>2 DEF LowDigits
    <3>2. r \in Int /\ (n >= 0 => 0 <= r /\ r < Tens[num])
      BY <2>1, <1>2, QuotFacts
    <3> HIDE DEF r
    <3> QED
      BY <3>1, <3>2, <2>1
  <2>3. CASE num = MaxDigits
    <3>1. LowDigits(n, num) = n
      BY <2>3, <1>1 DEF LowDigits
    <3> QED
      BY <3>1, <2>1, <2>3, <1>1, <1>2
  <2> QED
    BY <2>2, <2>3, <1>1
<1> QED
  BY <1>3, <1>4

(* The integer part of what is left of a real has as few digits.           *)
LEMMA LowPartFew ==
  ASSUME NEW v \in Int, NEW num \in Nat
  PROVE  LowPart(v, num) \in Int /\ FuncAbs(Quot(LowPart(v, num), Scale)) < Tens[num]
<1> DEFINE t == Tens[num]
           q == Quot(v, Scale)
           f == Rem(v, Scale)
           r == Rem(q, t)
           x == LowPart(v, num)
<1>1. t \in Nat \ {0} /\ Scale \in Nat \ {0}
  BY TensFacts, ConversionsAssumption
<1>2. /\ q \in Int /\ f \in Int /\ v = Scale * q + f
      /\ v >= 0 => q >= 0 /\ 0 <= f /\ f < Scale
      /\ v <= 0 => q <= 0 /\ f <= 0 /\ -Scale < f
  BY <1>1, QuotFacts
<1>3. /\ Quot(q, t) \in Int /\ r \in Int /\ q = t * Quot(q, t) + r
      /\ q >= 0 => 0 <= r /\ r < t
      /\ q <= 0 => r <= 0 /\ -t < r
  BY <1>1, <1>2, QuotFacts
<1>4. x = v - Quot(q, t) * t * Scale
  BY DEF LowPart
<1> DEFINE p == Quot(q, t)
<1> HIDE DEF t, q, f, r, x, p
<1>5. x = Scale * r + f /\ x \in Int /\ Scale * r \in Int
  <2>1. \A a, b, c, d, e \in Int : (c * (b * a + d) + e) - a * b * c = c * d + e
    OBVIOUS
  <2>2. p \in Int /\ q = t * p + r /\ x = v - p * t * Scale
    BY <1>3, <1>4 DEF p
  <2>3. x = (Scale * (t * p + r) + f) - p * t * Scale
    BY <2>2, <1>2
  <2>4. x = Scale * r + f
    BY <2>1, <2>2, <2>3, <1>1, <1>2, <1>3
  <2>5. Scale * r \in Int
    BY <1>1, <1>3
  <2> QED
    BY <2>4, <2>5, <1>2
<1>6. \A a, b \in Int : a * (-b) = -(a * b)
  OBVIOUS
<1>7. \A a, b \in Nat : a * b \in Nat
  OBVIOUS
<1>8. \E u \in Nat : u < t /\ Scale * u <= FuncAbs(x) /\ FuncAbs(x) < Scale * u + Scale
  <2>1. CASE v >= 0
    <3>1. r \in Nat /\ r < t /\ 0 <= f /\ f < Scale
      BY <2>1, <1>2, <1>3
    <3>2. Scale * r \in Nat
      BY <3>1, <1>1, <1>7
    <3>3. Scale * r <= FuncAbs(x) /\ FuncAbs(x) < Scale * r + Scale
      BY <3>1, <3>2, <1>1, <1>2, <1>5 DEF FuncAbs
    <3> QED
      BY <3>1, <3>3
  <2>2. CASE v <= 0
    <3>1. r <= 0 /\ -t < r /\ f <= 0 /\ -Scale < f
      BY <2>2, <1>2, <1>3
    <3>2. -r \in Nat /\ -r < t
      BY <3>1, <1>1, <1>3
    <3>3. Scale * (-r) \in Nat /\ Scale * (-r) = -(Scale * r)
      BY <3>2, <1>1, <1>3, <1>6, <1>7
    <3>4. Scale * (-r) <= FuncAbs(x) /\ FuncAbs(x) < Scale * (-r) + Scale
      BY <3>1, <3>3, <1>1, <1>2, <1>5 DEF FuncAbs
    <3> QED
      BY <3>2, <3>4
  <2> QED
    BY <2>1, <2>2
<1>9. PICK u \in Nat : u < t /\ Scale * u <= FuncAbs(x) /\ FuncAbs(x) < Scale * u + Scale
  BY <1>8
<1>10. FuncAbs(x) \in Nat
  BY <1>5 DEF FuncAbs
<1>11. FuncAbs(x) \div Scale = u
  BY <1>9, <1>10, <1>1, NaturalQuotient
<1>12. FuncAbs(Quot(x, Scale)) = u
  BY <1>11, <1>5, <1>1, QuotFacts
<1> QED
  BY <1>12, <1>9, <1>5 DEF t, x

(* What is cut from the rest of a real is a whole number.                  *)
LEMMA CutWhole ==
  ASSUME NEW x \in Int, NEW places \in Nat, NEW under \in BOOLEAN
  PROVE  CutDecimals(x, places, under) \in Int
<1> DEFINE int == Quot(x, Scale)
           rest == (x - int * Scale) * Tens[places]
           frac == Quot(rest, Scale)
<1>1. Scale \in Nat \ {0} /\ Tens[places] \in Nat \ {0}
  BY TensFacts, ConversionsAssumption
<1>2. int \in Int
  BY <1>1, QuotFacts
<1>3. rest \in Int
  <2> HIDE DEF int
  <2>1. \A a, b, c, d \in Int : (a - b * c) * d \in Int
    OBVIOUS
  <2> QED
    BY <2>1, <1>1, <1>2
<1>4. frac \in Int
  <2> HIDE DEF rest
  <2> QED
    BY <1>1, <1>3, QuotFacts
<1> DEFINE short == under /\ Rem(rest, Scale) = 0 /\ ~HeldExactly(x, Scale)
<1>5. CutDecimals(x, places, under) =
        IF short THEN (IF x > 0 THEN frac - 1 ELSE frac + 1) ELSE frac
  BY DEF CutDecimals
<1> HIDE DEF frac, short
<1> QED
  BY <1>4, <1>5

(* The text of a real.                                                     *)
LEMMA RealShort ==
  ASSUME NEW num \in Nat \ {0}, NEW places \in Nat, NEW x \in Int, NEW under \in BOOLEAN,
         FuncAbs(Quot(x, Scale)) < Tens[num]
  PROVE  FuncRealToStr(x, places, under) \in Short(num + places + 2)
<1> DEFINE int == Quot(x, Scale)
           frac == CutDecimals(x, places, under)
           sign == IF x < 0 THEN <<Minus>> ELSE <<>>
           whole == Written(Positive(DigitsOfAny(int, 10)))
           low == Written(Positive(Decimals(frac, places)))
           part == IF places = 0 THEN <<>> ELSE <<Point>> \o (IF frac = 0 THEN <<LetterZero>> ELSE low)
<1>1. FuncRealToStr(x, places, under) = IF x = 0 THEN <<LetterZero, Point, LetterZero>> ELSE sign \o whole \o part
  BY DEF FuncRealToStr
<1>2. Scale \in Nat \ {0} /\ Tens[places] \in Nat \ {0}
  BY TensFacts, ConversionsAssumption
<1>3. int \in Int
  BY <1>2, QuotFacts
<1>4. frac \in Int
  BY CutWhole
<1>5. whole \in Short(num)
  <2>1. CASE int = 0
    <3>1. DigitsOfAny(int, 10) \in [1 .. 1 -> Int]
      BY <2>1 DEF DigitsOfAny
    <3>2. whole \in Short(1)
      BY <3>1, WrittenFew
    <3> QED
      BY <3>2, Longer
  <2>2. CASE int # 0
    <3>1. PICK bit \in 0 .. num : DigitsOf(int, 10) \in [1 .. bit -> Int]
      BY <1>3, DigitsFew
    <3>2. DigitsOfAny(int, 10) \in [1 .. bit -> Int]
      BY <3>1, <2>2 DEF DigitsOfAny
    <3>3. whole \in Short(bit)
      BY <3>2, WrittenFew
    <3> QED
      BY <3>3, <3>1, Longer
  <2> QED
    BY <2>1, <2>2
<1>6. low \in Short(places)
  <2>1. \A i \in 1 .. places : Rem(Quot(frac, Tens[i - 1]), 10) \in Int
    <3> TAKE i \in 1 .. places
    <3>1. i - 1 \in Nat
      OBVIOUS
    <3>2. Tens[i - 1] \in Nat \ {0}
      BY <3>1, TensFacts
    <3>3. Quot(frac, Tens[i - 1]) \in Int
      BY <3>2, <1>4, QuotFacts
    <3> QED
      BY <3>3, TenthFacts
  <2> HIDE DEF frac
  <2>2. Decimals(frac, places) \in [1 .. places -> Int]
    BY <2>1 DEF Decimals
  <2> QED
    BY <2>2, WrittenFew
<1>7. sign \in Short(1)
  BY DEF Short, Minus
<1> HIDE DEF int, frac, whole, low, sign
<1>8. part \in Short(1 + places)
  <2>1. CASE places = 0
    BY <2>1 DEF Short
  <2>2. CASE places # 0
    <3>1. <<Point>> \in Short(1) /\ <<LetterZero>> \in Short(1)
      BY OneCharacter DEF Point, LetterZero
    <3>2. (IF frac = 0 THEN <<LetterZero>> ELSE low) \in Short(places)
      BY <3>1, <2>2, <1>6, Longer
    <3>3. <<Point>> \o (IF frac = 0 THEN <<LetterZero>> ELSE low) \in Short(1 + places)
      BY <3>1, <3>2, Joined
    <3> QED
      BY <3>3, <2>2
  <2> QED
    BY <2>1, <2>2
<1> HIDE DEF part
<1>9. sign \o whole \o part \in Short((1 + num) + (1 + places))
  <2>1. sign \o whole \in Short(1 + num)
    BY <1>5, <1>7, Joined
  <2> QED
    BY <2>1, <1>8, Joined
<1>10. <<LetterZero, Point, LetterZero>> \in Short(3)
  BY DEF Short, LetterZero, Point
<1>11. Short(3) \subseteq Short(num + places + 2) /\ (1 + num) + (1 + places) = num + places + 2
  BY Longer
<1> QED
  BY <1>1, <1>9, <1>10, <1>11

(* A field holds what was written, and blanks behind it.                   *)
LEMMA FilledFacts ==
  ASSUME NEW places \in Nat, NEW s \in Short(places)
  PROVE  /\ Filled(places, s) \in Seq(Int) /\ Len(Filled(places, s)) = places
         /\ Len(s) \in 0 .. places
         /\ \A i \in 1 .. places : Filled(places, s)[i] = IF i <= Len(s) THEN s[i] ELSE Space
<1> DEFINE t == [i \in 1 .. places - Len(s) |-> Space]
<1>1. s \in Seq(Int) /\ Len(s) \in 0 .. places
  BY DEF Short
<1>2. t \in [1 .. places - Len(s) -> Int] /\ places - Len(s) \in Nat
  BY <1>1 DEF Space
<1>3. t \in Seq(Int) /\ Len(t) = places - Len(s) /\ \A i \in 1 .. places - Len(s) : t[i] = Space
  BY <1>2, Sequence
<1> HIDE DEF t
<1>4. /\ s \o t \in Seq(Int) /\ Len(s \o t) = Len(s) + Len(t)
      /\ \A i \in 1 .. Len(s) + Len(t) : (s \o t)[i] = IF i <= Len(s) THEN s[i] ELSE t[i - Len(s)]
  BY <1>1, <1>3, ConcatProperties, Zenon
<1>5. Filled(places, s) = s \o t
  BY DEF Filled, t
<1>6. Len(s) + Len(t) = places
  BY <1>1, <1>3
<1>7. ASSUME NEW i \in 1 .. places, ~(i <= Len(s))
      PROVE  t[i - Len(s)] = Space
  <2>1. i - Len(s) \in 1 .. places - Len(s)
    BY <1>1, <1>7
  <2> QED
    BY <2>1, <1>3
<1> QED
  BY <1>1, <1>4, <1>5, <1>6, <1>7

-----------------------------------------------------------------------------
(* The points of a rectangle.                                              *)
Box(x, y, w, h) ==
  {q \in [x : Int, y : Int] : x <= q.x /\ q.x < x + w /\ y <= q.y /\ q.y < y + h}

LEMMA Rectangle ==
  ASSUME NEW x \in Int, NEW y \in Int, NEW w \in Int, NEW h \in Int
  PROVE  {At(x, y, p) : p \in Frame(w, h)} = Box(x, y, w, h)
<1>1. ASSUME NEW p \in Frame(w, h)
      PROVE  At(x, y, p) \in Box(x, y, w, h)
  BY DEF At, Frame, Box
<1>2. ASSUME NEW q \in Box(x, y, w, h)
      PROVE  \E p \in Frame(w, h) : q = At(x, y, p)
  <2> DEFINE p == [x |-> q.x - x, y |-> q.y - y]
  <2>1. q \in [x : Int, y : Int] /\ x <= q.x /\ q.x < x + w /\ y <= q.y /\ q.y < y + h
    BY DEF Box
  <2>2. q.x - x \in 0 .. w - 1 /\ q.y - y \in 0 .. h - 1
    BY <2>1
  <2>3. p \in Frame(w, h)
    BY <2>2 DEF Frame
  <2>4. x + (q.x - x) = q.x /\ y + (q.y - y) = q.y
    BY <2>1
  <2>5. q = At(x, y, p)
    BY <2>1, <2>4 DEF At
  <2> QED
    BY <2>3, <2>5
<1> QED
  BY <1>1, <1>2

(* What a stamp touches lies in its frame, all of it when it has paper.    *)
LEMMA StampTouches ==
  ASSUME NEW x, NEW y, NEW frame, NEW font
  PROVE  /\ Stamp(x, y, frame, font).pen \cup Stamp(x, y, frame, font).paper = {At(x, y, p) : p \in frame}
  BY DEF Stamp

(* The cells of a field, side by side.                                     *)
LEMMA Columns ==
  ASSUME NEW x \in Nat, NEW y \in Nat, NEW size \in Nat
  PROVE  /\ \A i \in 1 .. size : Box(x + CellW * (i - 1), y, CellW, CellH) \subseteq Box(x, y, CellW * size, CellH)
         /\ \A q \in Box(x, y, CellW * size, CellH) :
              \E i \in 1 .. size : q \in Box(x + CellW * (i - 1), y, CellW, CellH)
         /\ \A i, j \in 1 .. size : \A q :
              (q \in Box(x + CellW * (i - 1), y, CellW, CellH) /\ q \in Box(x + CellW * (j - 1), y, CellW, CellH))
                => i = j
<1>1. CellW \in Nat \ {0} /\ CellH \in Nat \ {0}
  BY ScreenAssumption
<1>2. ASSUME NEW i \in 1 .. size
      PROVE  /\ CellW * (i - 1) \in Nat /\ CellW * size \in Nat
             /\ CellW * (i - 1) + CellW <= CellW * size
  <2>1. \A w, k \in Nat : w * k \in Nat
    OBVIOUS
  <2>2. \A w, k, n \in Int : w * n = (w * (k - 1) + w) + w * (n - k)
    OBVIOUS
  <2>3. CellW * size = (CellW * (i - 1) + CellW) + CellW * (size - i)
    BY <1>1, <2>2
  <2>4. CellW * (i - 1) \in Nat /\ CellW * size \in Nat /\ CellW * (size - i) \in Nat
    BY <1>1, <2>1
  <2> QED
    BY <2>3, <2>4, <1>1
<1>3. ASSUME NEW i \in 1 .. size
      PROVE  Box(x + CellW * (i - 1), y, CellW, CellH) \subseteq Box(x, y, CellW * size, CellH)
  <2> DEFINE c == CellW * (i - 1)
             w == CellW * size
  <2>1. c \in Nat /\ w \in Nat /\ c + CellW <= w
    BY <1>2
  <2> HIDE DEF c, w
  <2>2. Box(x + c, y, CellW, CellH) \subseteq Box(x, y, w, CellH)
    BY <2>1, <1>1 DEF Box
  <2> QED
    BY <2>2 DEF c, w
<1>4. ASSUME NEW q \in Box(x, y, CellW * size, CellH)
      PROVE  \E i \in 1 .. size : q \in Box(x + CellW * (i - 1), y, CellW, CellH)
  <2> DEFINE k == (q.x - x) \div CellW
  <2>1. q \in [x : Int, y : Int] /\ x <= q.x /\ q.x < x + CellW * size /\ y <= q.y /\ q.y < y + CellH
    BY DEF Box
  <2>2. q.x - x \in Nat
    BY <2>1
  <2>3. k \in Nat /\ CellW * k <= q.x - x /\ q.x - x < CellW * k + CellW
    BY <2>2, <1>1, NaturalQuotient
  <2> HIDE DEF k
  <2>4. k + 1 \in 1 .. size
    <3>1. CASE size <= k
      <4>1. CellW * k = CellW * size + CellW * (k - size)
        BY <1>1, <2>3
      <4>2. CellW * (k - size) \in Nat /\ CellW * size \in Int /\ CellW * k \in Int
        BY <1>1, <2>3, <3>1
      <4>3. q.x \in Int
        BY <2>1
      <4> QED
        BY <4>1, <4>2, <4>3, <2>1, <2>3
    <3>2. CASE ~(size <= k)
      BY <3>2, <2>3
    <3> QED
      BY <3>1, <3>2
  <2>5. CellW * k \in Int
    BY <1>1, <2>3
  <2> DEFINE c == CellW * k
  <2>6. c \in Int /\ c <= q.x - x /\ q.x - x < c + CellW
    BY <2>3, <2>5
  <2> HIDE DEF c
  <2>7. q \in Box(x + c, y, CellW, CellH)
    BY <2>1, <2>6, <1>1 DEF Box
  <2>8. PICK i \in 1 .. size : i - 1 = k
    BY <2>4, <2>3
  <2>9. CellW * (i - 1) = c
    BY <2>8 DEF c
  <2>10. q \in Box(x + CellW * (i - 1), y, CellW, CellH)
    BY <2>7, <2>9
  <2> QED
    BY <2>10
<1>5. ASSUME NEW i \in 1 .. size, NEW j \in 1 .. size, NEW q,
             q \in Box(x + CellW * (i - 1), y, CellW, CellH), q \in Box(x + CellW * (j - 1), y, CellW, CellH)
      PROVE  i = j
  <2> DEFINE c == CellW * (i - 1)
             d == CellW * (j - 1)
  <2>1. c \in Nat /\ d \in Nat
    BY <1>2
  <2>2. q.x \in Int /\ x + c <= q.x /\ q.x < x + c + CellW /\ x + d <= q.x /\ q.x < x + d + CellW
    BY <1>5 DEF Box
  <2>3. q.x - x \in Nat /\ c <= q.x - x /\ q.x - x < c + CellW /\ d <= q.x - x /\ q.x - x < d + CellW
    BY <2>1, <2>2, <1>1
  <2>4. i - 1 \in Nat /\ j - 1 \in Nat
    OBVIOUS
  <2>5. (q.x - x) \div CellW = i - 1 /\ (q.x - x) \div CellW = j - 1
    BY <2>3, <2>4, <1>1, NaturalQuotient
  <2> QED
    BY <2>5
<1> QED
  BY <1>3, <1>4, <1>5

(* Points of the screen have indices of their own, in the frame buffer.    *)
LEMMA OwnIndices ==
  ASSUME NEW p \in [x : Int, y : Int], OnScreen(p)
  PROVE  /\ Index(p) \in Memory
         /\ \A q \in [x : Int, y : Int] : OnScreen(q) /\ Index(q) = Index(p) => q = p
<1>1. ScreenW \in Nat /\ ScreenH \in Nat
  BY ScreenAssumption
<1>2. \A q \in [x : Int, y : Int] :
        OnScreen(q) => /\ q.x \in Nat /\ q.y \in Nat /\ q.x < ScreenW /\ q.y + 1 <= ScreenH
                       /\ Index(q) \in Nat /\ Index(q) \div ScreenW = q.y
                       /\ Index(q) = ScreenW * q.y + q.x
  <2> TAKE q \in [x : Int, y : Int]
  <2> HAVE OnScreen(q)
  <2>1. q.x \in Nat /\ q.y \in Nat /\ q.x < ScreenW /\ q.y + 1 <= ScreenH
    BY <1>1 DEF OnScreen
  <2>2. Index(q) = ScreenW * q.y + q.x
    BY <2>1, <1>1 DEF Index
  <2>3. ScreenW * q.y \in Nat
    BY <2>1, <1>1
  <2>4. Index(q) \in Nat /\ ScreenW * q.y <= Index(q) /\ Index(q) < ScreenW * q.y + ScreenW
    <3> DEFINE c == ScreenW * q.y
    <3>1. c \in Nat /\ Index(q) = c + q.x
      BY <2>2, <2>3
    <3> HIDE DEF c
    <3>2. Index(q) \in Nat /\ c <= Index(q) /\ Index(q) < c + ScreenW
      BY <3>1, <2>1, <1>1
    <3> QED
      BY <3>2 DEF c
  <2>5. ScreenW \in Nat \ {0}
    BY <2>1, <1>1
  <2>6. Index(q) \div ScreenW = q.y
    BY <2>1, <2>4, <2>5, NaturalQuotient
  <2> QED
    BY <2>1, <2>2, <2>4, <2>6
<1>3. Index(p) \in Memory
  <2>1. p.x \in Nat /\ p.y \in Nat /\ p.x < ScreenW /\ p.y + 1 <= ScreenH /\ Index(p) \in Nat
        /\ Index(p) = ScreenW * p.y + p.x
    BY <1>2
  <2>2. \A a, b \in Nat, h \in Nat : b + 1 <= h => a * b + a <= a * h
    <3> TAKE a \in Nat, b \in Nat, h \in Nat
    <3> HAVE b + 1 <= h
    <3>1. a * h = (a * b + a) + a * (h - (b + 1))
      OBVIOUS
    <3>2. a * (h - (b + 1)) \in Nat /\ a * b \in Nat /\ a * h \in Nat
      OBVIOUS
    <3> QED
      BY <3>1, <3>2
  <2>3. ScreenW * p.y + ScreenW <= ScreenW * ScreenH
    BY <2>1, <2>2, <1>1
  <2>4. ScreenW * p.y \in Nat /\ ScreenW * ScreenH \in Nat
    BY <2>1, <1>1
  <2> QED
    BY <2>1, <2>3, <2>4, <1>1 DEF Memory
<1>4. ASSUME NEW q \in [x : Int, y : Int], OnScreen(q), Index(q) = Index(p)
      PROVE  q = p
  <2>1. q.y = p.y
    BY <1>2, <1>4
  <2>2. ScreenW * q.y \in Int /\ p.x \in Int /\ q.x \in Int
    BY <1>1
  <2>3. q.x = p.x
    BY <1>2, <1>4, <2>1, <2>2
  <2> QED
    BY <2>1, <2>3
<1> QED
  BY <1>3, <1>4

-----------------------------------------------------------------------------
(* The points stamps reach, and those of a string's characters.            *)
Reached(stamps) == UNION {stamps[i].pen \cup stamps[i].paper : i \in 1 .. Len(stamps)}
Area(x, y, size) == {At(x, y, p) : p \in Frame(CellW * size, CellH)}
CellBox(x, y, i) == Box(x + CellW * (i - 1), y, CellW, CellH)
Drawn(x, y, i, c) == {At(x + CellW * (i - 1), y, p) : p \in {q \in CharCell : q \in AsciiFont[c]}}

Pens(x, y, s) == UNION {Drawn(x, y, i, s[i]) : i \in 1 .. Len(s)}

(* The stamps of a string fill their cells.                                *)
LEMMA StringStamps ==
  ASSUME NEW x \in Nat, NEW y \in Nat, NEW s \in Seq(Int)
  PROVE  /\ Len(s) \in Nat /\ Len(ShowString(x, y, s)) = Len(s)
         /\ \A i \in 1 .. Len(s) :
              /\ ShowString(x, y, s)[i].pen = Drawn(x, y, i, s[i])
              /\ ShowString(x, y, s)[i].pen \cup ShowString(x, y, s)[i].paper = CellBox(x, y, i)
         /\ Reached(ShowString(x, y, s)) = Area(x, y, Len(s))
         /\ Area(x, y, Len(s)) = Box(x, y, CellW * Len(s), CellH)
<1> DEFINE t == ShowString(x, y, s)
           n == Len(s)
<1>1. CellW \in Nat \ {0} /\ CellH \in Nat \ {0} /\ n \in Nat
  BY ScreenAssumption, LenProperties
<1>2. t = [i \in 1 .. n |-> ShowChar(x + CellW * (i - 1), y, s[i])]
  BY DEF ShowString
<1> HIDE DEF t, n
<1>3. Len(t) = n /\ \A i \in 1 .. n : t[i] = ShowChar(x + CellW * (i - 1), y, s[i])
  BY <1>1, <1>2
<1>4. ASSUME NEW i \in 1 .. n
      PROVE  t[i].pen = Drawn(x, y, i, s[i]) /\ t[i].pen \cup t[i].paper = CellBox(x, y, i)
  <2>1. t[i] = Stamp(x + CellW * (i - 1), y, CharCell, AsciiFont[s[i]])
    BY <1>3 DEF ShowChar
  <2>2. t[i].pen = Drawn(x, y, i, s[i])
    BY <2>1 DEF Stamp, Drawn
  <2>3. t[i].pen \cup t[i].paper = {At(x + CellW * (i - 1), y, p) : p \in CharCell}
    BY <2>1, StampTouches
  <2>4. x + CellW * (i - 1) \in Int
    BY <1>1
  <2>5. {At(x + CellW * (i - 1), y, p) : p \in CharCell} = CellBox(x, y, i)
    BY <2>4, <1>1, Rectangle DEF CharCell, CellBox
  <2> QED
    BY <2>2, <2>3, <2>5
<1>5. Area(x, y, n) = Box(x, y, CellW * n, CellH)
  <2>1. CellW * n \in Int
    BY <1>1
  <2> QED
    BY <2>1, <1>1, Rectangle DEF Area
<1>6. Reached(t) = Area(x, y, n)
  <2>1. \A q : q \in Reached(t) <=> \E i \in 1 .. n : q \in CellBox(x, y, i)
    BY <1>3, <1>4 DEF Reached
  <2>2. \A i \in 1 .. n : CellBox(x, y, i) \subseteq Box(x, y, CellW * n, CellH)
    BY <1>1, Columns DEF CellBox
  <2>3. \A q \in Box(x, y, CellW * n, CellH) : \E i \in 1 .. n : q \in CellBox(x, y, i)
    BY <1>1, Columns DEF CellBox
  <2> QED
    BY <2>1, <2>2, <2>3, <1>5
<1> QED
  BY <1>1, <1>3, <1>4, <1>5, <1>6 DEF t, n

(* What is lit where a string was shown on the screen are its characters.  *)
LEMMA StringLit ==
  ASSUME NEW x \in Nat, NEW y \in Nat, NEW s \in Seq(Int), NEW before,
         \A p \in Area(x, y, Len(s)) : OnScreen(p)
  PROVE  (Memory \cap Stamped(before, ShowString(x, y, s))) \cap Indices(Area(x, y, Len(s)))
           = Indices(Pens(x, y, s))
<1> DEFINE t == ShowString(x, y, s)
           n == Len(s)
           A == Area(x, y, n)
           L == UNION {Drawn(x, y, i, s[i]) : i \in 1 .. n}
           Over(k) == UNION {Indices(t[j].paper) : j \in k .. Len(t)}
<1>1. /\ n \in Nat /\ Len(t) = n
      /\ \A i \in 1 .. n : t[i].pen = Drawn(x, y, i, s[i]) /\ t[i].pen \cup t[i].paper = CellBox(x, y, i)
      /\ A = Box(x, y, CellW * n, CellH)
  BY StringStamps
<1>2. Stamped(before, t)
        = (before \ Over(1)) \cup UNION {Indices(t[k].pen) \ Over(k + 1) : k \in 1 .. Len(t)}
  BY DEF Stamped
<1>3. \A p \in A : p \in [x : Int, y : Int] /\ OnScreen(p)
  BY <1>1 DEF Box
<1>4. \A p \in A : Index(p) \in Memory /\ \A q \in A : Index(q) = Index(p) => q = p
  BY <1>3, OwnIndices
<1>5. /\ \A i \in 1 .. n : CellBox(x, y, i) \subseteq A
      /\ \A q \in A : \E i \in 1 .. n : q \in CellBox(x, y, i)
      /\ \A i, j \in 1 .. n : \A q : q \in CellBox(x, y, i) /\ q \in CellBox(x, y, j) => i = j
  <2>1. n \in Nat /\ A = Box(x, y, CellW * n, CellH)
    BY <1>1
  <2> HIDE DEF n, A
  <2>2. \A i \in 1 .. n : CellBox(x, y, i) \subseteq A
    BY <2>1, Columns DEF CellBox
  <2>3. \A q \in A : \E i \in 1 .. n : q \in CellBox(x, y, i)
    BY <2>1, Columns DEF CellBox
  <2>4. \A i, j \in 1 .. n : \A q : q \in CellBox(x, y, i) /\ q \in CellBox(x, y, j) => i = j
    BY <2>1, Columns DEF CellBox
  <2> QED
    BY <2>2, <2>3, <2>4
<1> HIDE DEF t, n, A
<1>6. \A k : \A m : m \in Over(k) <=> \E j \in k .. n : \E p \in t[j].paper : m = Index(p)
  BY <1>1 DEF Indices
<1> HIDE DEF Over
<1>7. \A m : m \in Indices(A) <=> \E p \in A : m = Index(p)
  BY DEF Indices
(* A point of the string's pen is lit: no later cell covers it.            *)
<1>8. ASSUME NEW i \in 1 .. n, NEW p \in Drawn(x, y, i, s[i])
      PROVE  Index(p) \in Memory /\ Index(p) \in Stamped(before, t) /\ p \in A
  <2>1. p \in t[i].pen /\ p \in CellBox(x, y, i)
    BY <1>1, <1>8
  <2>2. p \in A
    BY <2>1, <1>5
  <2>3. ASSUME Index(p) \in Over(i + 1)
        PROVE  FALSE
    <3>1. PICK j \in i + 1 .. n : \E q \in t[j].paper : Index(p) = Index(q)
      BY <2>3, <1>6
    <3>2. PICK q \in t[j].paper : Index(p) = Index(q)
      BY <3>1
    <3>3. j \in 1 .. n /\ j # i
      BY <1>1
    <3>4. q \in CellBox(x, y, j)
      BY <3>2, <3>3, <1>1
    <3>5. q \in A
      BY <3>3, <3>4, <1>5
    <3>6. q = p
      BY <3>2, <3>5, <2>2, <1>4
    <3> QED
      BY <3>3, <3>4, <3>6, <2>1, <1>5
  <2>4. Index(p) \in Indices(t[i].pen)
    BY <2>1 DEF Indices
  <2>5. Index(p) \in Stamped(before, t)
    BY <2>3, <2>4, <1>1, <1>2
  <2> QED
    BY <2>2, <2>5, <1>4
(* A point of a cell that is lit is one of a pen.                          *)
<1>9. ASSUME NEW p \in A, Index(p) \in Stamped(before, t)
      PROVE  p \in L
  <2>1. PICK i \in 1 .. n : p \in CellBox(x, y, i)
    BY <1>5
  <2>2. CASE p \in t[i].pen
    BY <2>2, <1>1
  <2>3. CASE p \notin t[i].pen
    <3>1. p \in t[i].paper
      BY <2>1, <2>3, <1>1
    <3>2. i \in 1 .. n /\ \E j \in 1 .. n : \E q \in t[j].paper : Index(p) = Index(q)
      BY <3>1
    <3>3. Index(p) \in Over(1)
      BY <3>2, <1>6
    <3>4. PICK k \in 1 .. n : Index(p) \in Indices(t[k].pen)
      BY <3>3, <1>9, <1>1, <1>2
    <3>5. PICK q \in t[k].pen : Index(p) = Index(q)
      BY <3>4 DEF Indices
    <3>6. q \in CellBox(x, y, k) /\ q \in Drawn(x, y, k, s[k])
      BY <3>5, <1>1
    <3>7. q = p
      BY <3>5, <3>6, <1>5, <1>4
    <3> QED
      BY <3>6, <3>7
  <2> QED
    BY <2>2, <2>3
<1>10. \A m : m \in Indices(L) <=> \E p \in L : m = Index(p)
  BY DEF Indices
<1>11. ASSUME NEW m, m \in Indices(L)
       PROVE  m \in Memory /\ m \in Stamped(before, t) /\ m \in Indices(A)
  <2>1. PICK p \in L : m = Index(p)
    BY <1>10, <1>11
  <2>2. PICK i \in 1 .. n : p \in Drawn(x, y, i, s[i])
    OBVIOUS
  <2> QED
    BY <2>1, <2>2, <1>7, <1>8
<1>12. ASSUME NEW m, m \in Stamped(before, t), m \in Indices(A)
       PROVE  m \in Indices(L)
  BY <1>12, <1>7, <1>9, <1>10
<1>13. (Memory \cap Stamped(before, t)) \cap Indices(A) = Indices(L)
  <2> HIDE DEF L
  <2> QED
    BY <1>11, <1>12
<1>14. Pens(x, y, s) = L
  BY DEF Pens, n
<1> QED
  BY <1>13, <1>14 DEF t, n, A

(* What a field shows.                                                     *)
LEMMA FieldSound ==
  ASSUME NEW x \in Nat, NEW y \in Nat, NEW size \in Nat, NEW shown \in Short(size), NEW before
  PROVE  /\ Reached(ShowString(x, y, Filled(size, shown))) = Area(x, y, size)
         /\ (\A p \in Area(x, y, size) : OnScreen(p)) =>
              (Memory \cap Stamped(before, ShowString(x, y, Filled(size, shown)))) \cap Indices(Area(x, y, size))
                = Indices(Pens(x, y, shown))
<1> DEFINE s == Filled(size, shown)
<1>1. /\ s \in Seq(Int) /\ Len(s) = size /\ Len(shown) \in 0 .. size
      /\ \A i \in 1 .. size : s[i] = IF i <= Len(shown) THEN shown[i] ELSE Space
  BY FilledFacts
<1> HIDE DEF s
<1>2. Reached(ShowString(x, y, s)) = Area(x, y, size)
  BY <1>1, StringStamps
<1>3. Pens(x, y, s) = Pens(x, y, shown)
  <2>1. \A i : Drawn(x, y, i, Space) = {}
    BY ScreenAssumption DEF Drawn
  <2>2. \A i \in 1 .. Len(shown) : i \in 1 .. Len(s) /\ s[i] = shown[i]
    BY <1>1
  <2>3. \A i \in 1 .. Len(s) : i \in 1 .. Len(shown) \/ s[i] = Space
    BY <1>1
  <2> QED
    BY <2>1, <2>2, <2>3 DEF Pens
<1>4. ASSUME \A p \in Area(x, y, size) : OnScreen(p)
      PROVE  (Memory \cap Stamped(before, ShowString(x, y, s))) \cap Indices(Area(x, y, size))
               = Indices(Pens(x, y, shown))
  <2>1. \A p \in Area(x, y, Len(s)) : OnScreen(p)
    BY <1>1, <1>4
  <2>2. (Memory \cap Stamped(before, ShowString(x, y, s))) \cap Indices(Area(x, y, Len(s)))
          = Indices(Pens(x, y, s))
    BY <1>1, <2>1, StringLit
  <2> QED
    BY <2>2, <1>1, <1>3
<1> QED
  BY <1>2, <1>4 DEF s

(* What a call for a field leaves behind.                                  *)
LEMMA FieldCall ==
  ASSUME NEW x \in Nat, NEW y \in Nat, NEW size \in Nat, NEW shown \in Short(size), NEW op, NEW n,
         op \in {"int", "uint"} =>
           shown = IF op = "int" THEN FuncIntToStr(LowDigits(n, size - 1)) ELSE FuncUintToStr(LowDigits(n, size)),
         Draw([op |-> op, x |-> x, y |-> y, n |-> n, size |-> size], ShowString(x, y, Filled(size, shown)), 1)
  PROVE  FieldsReplaced'
<1> DEFINE made == [op |-> op, x |-> x, y |-> y, n |-> n, size |-> size]
           stamps == ShowString(x, y, Filled(size, shown))
<1>1. last_call' = made /\ drawn' = stamps /\ lit' = Memory \cap Stamped(lit, stamps)
  BY DEF Draw
<1>2. made.op = op /\ made.x = x /\ made.y = y /\ made.n = n /\ made.size = size
  OBVIOUS
<1>3. FieldArea(made) = Area(x, y, size)
  BY <1>2 DEF FieldArea, Area
<1>4. Reached(stamps) = Area(x, y, size)
  BY FieldSound
<1>5. (\A p \in Area(x, y, size) : OnScreen(p)) =>
        (Memory \cap Stamped(lit, stamps)) \cap Indices(Area(x, y, size))
          = Indices(Pens(x, y, shown))
  BY FieldSound
<1>6. op \in {"int", "uint"} =>
        NumeralPoints(made) = Pens(x, y, shown)
  <2>1. op \in {"int", "uint"} => Numeral(made) = shown
    BY <1>2 DEF Numeral
  <2> HIDE DEF made
  <2> QED
    BY <2>1, <1>2 DEF NumeralPoints, Pens, Drawn
<1> HIDE DEF made, stamps
<1>7. Touched' = Reached(drawn')
  BY DEF Touched, Reached
<1>8. FieldStaysInside'
  BY <1>1, <1>3, <1>4, <1>7 DEF FieldStaysInside
<1>9. FieldReplacesContent'
  BY <1>1, <1>2, <1>3, <1>5, <1>6 DEF FieldReplacesContent
<1> QED
  BY <1>8, <1>9 DEF FieldsReplaced

LEMMA FieldsStep == FieldsReplaced /\ [ScreenNext]_screenVars => FieldsReplaced'
<1> SUFFICES ASSUME FieldsReplaced, [ScreenNext]_screenVars
             PROVE  FieldsReplaced'
  OBVIOUS
<1>1. \A o \in Origins : o.x \in Nat /\ o.y \in Nat
  BY ScreenAssumption
<1>2. MaxDigits \in Nat /\ FloatDigits \in Nat /\ FloatPoints \in Nat
  BY ScreenAssumption
(* Calls that show no field.                                               *)
<1>3. ASSUME last_call'.op \notin {"int", "uint", "float"}
      PROVE  FieldsReplaced'
  BY <1>3 DEF FieldsReplaced, FieldReplacesContent, FieldStaysInside
<1>4. CASE ShowNumber
  <2>1. PICK o \in Origins, num \in 1 .. MaxDigits :
          \/ \E n \in Ints :
               Draw([op |-> "int", x |-> o.x, y |-> o.y, n |-> n, size |-> num + 1],
                    ShowString(o.x, o.y, IntField(n, num)), 1)
          \/ \E n \in Uints :
               Draw([op |-> "uint", x |-> o.x, y |-> o.y, n |-> n, size |-> num],
                    ShowString(o.x, o.y, UintField(n, num)), 1)
    BY <1>4 DEF ShowNumber
  <2>2. num \in Nat \ {0} /\ num + 1 \in Nat /\ num + 1 - 1 = num /\ o.x \in Nat /\ o.y \in Nat
    BY <1>1, <1>2
  <2>3. ASSUME NEW n \in Ints,
               Draw([op |-> "int", x |-> o.x, y |-> o.y, n |-> n, size |-> num + 1],
                    ShowString(o.x, o.y, IntField(n, num)), 1)
        PROVE  FieldsReplaced'
    <3> DEFINE shown == FuncIntToStr(LowDigits(n, num))
               size == num + 1
    <3>1. shown \in Short(size)
      BY <2>2, LowDigitsFew, IntShort
    <3>2. IntField(n, num) = Filled(size, shown)
      BY DEF IntField
    <3>3. size \in Nat /\ size - 1 = num
      BY <2>2
    <3>4. Draw([op |-> "int", x |-> o.x, y |-> o.y, n |-> n, size |-> size],
               ShowString(o.x, o.y, Filled(size, shown)), 1)
      BY <2>3, <3>2
    <3>5. shown = FuncIntToStr(LowDigits(n, size - 1))
      BY <3>3
    <3> HIDE DEF shown, size
    <3> QED
      BY <2>2, <3>1, <3>3, <3>4, <3>5, FieldCall
  <2>4. ASSUME NEW n \in Uints,
               Draw([op |-> "uint", x |-> o.x, y |-> o.y, n |-> n, size |-> num],
                    ShowString(o.x, o.y, UintField(n, num)), 1)
        PROVE  FieldsReplaced'
    <3> DEFINE shown == FuncUintToStr(LowDigits(n, num))
    <3>1. shown \in Short(num)
      BY <2>2, LowDigitsFew, UintShort
    <3>2. UintField(n, num) = Filled(num, shown)
      BY DEF UintField
    <3>3. Draw([op |-> "uint", x |-> o.x, y |-> o.y, n |-> n, size |-> num],
               ShowString(o.x, o.y, Filled(num, shown)), 1)
      BY <2>4, <3>2
    <3>4. shown = FuncUintToStr(LowDigits(n, num))
      OBVIOUS
    <3> HIDE DEF shown
    <3> QED
      BY <2>2, <3>1, <3>3, <3>4, FieldCall
  <2> QED
    BY <2>1, <2>3, <2>4
<1>5. CASE ShowFloat
  <2>1. PICK o \in Origins, num \in 1 .. FloatDigits, pointnum \in 0 .. FloatPoints, v \in Floats,
             under \in BOOLEAN :
          Draw([op |-> "float", x |-> o.x, y |-> o.y, n |-> v, size |-> num + pointnum + 2],
               ShowString(o.x, o.y, FloatField(v, num, pointnum, under)), 1)
    BY <1>5 DEF ShowFloat
  <2> DEFINE shown == FuncRealToStr(LowPart(v, num), pointnum, under)
             size == num + pointnum + 2
  <2>2. num \in Nat \ {0} /\ pointnum \in Nat /\ v \in Int /\ o.x \in Nat /\ o.y \in Nat /\ size \in Nat
    BY <1>1, <1>2, ScreenAssumption
  <2>3. shown \in Short(size)
    BY <2>2, LowPartFew, RealShort
  <2>4. FloatField(v, num, pointnum, under) = Filled(size, shown)
    BY DEF FloatField
  <2>5. Draw([op |-> "float", x |-> o.x, y |-> o.y, n |-> v, size |-> size],
             ShowString(o.x, o.y, Filled(size, shown)), 1)
    BY <2>1, <2>4
  <2> HIDE DEF shown, size
  <2> QED
    BY <2>2, <2>3, <2>5, FieldCall
<1>6. CASE ShowText
  <2>1. last_call'.op \in {"string", "scaled", "chinese", "chinese_scaled"}
    BY <1>6 DEF ShowText, Draw
  <2> QED
    BY <2>1, <1>3
<1>7. CASE DrawLine
  <2>1. last_call'.op = "line"
    BY <1>7 DEF DrawLine, Draw
  <2> QED
    BY <2>1, <1>3
<1>8. CASE ShowGrayImage
  <2>1. last_call'.op = "image"
    BY <1>8 DEF ShowGrayImage, Draw
  <2> QED
    BY <2>1, <1>3
<1>9. CASE Clear
  <2>1. last_call'.op = "clear"
    BY <1>9 DEF Clear
  <2> QED
    BY <2>1, <1>3
<1>10. CASE UNCHANGED screenVars
  <2>1. lit' = lit /\ drawn' = drawn /\ last_call' = last_call
    BY <1>10 DEF screenVars
  <2> QED
    BY <2>1 DEF FieldsReplaced, FieldReplacesContent, FieldStaysInside, Touched
<1> QED
  BY <1>4, <1>5, <1>6, <1>7, <1>8, <1>9, <1>10 DEF ScreenNext

(* A number shown in a field replaces whatever was there, and a field has  *)
(* the same size for every number it shows: for every screen, font, number *)
(* and place (ips200_show_int, ips200_show_uint, ips200_show_float).       *)
THEOREM FieldsShown == ScreenSpec => []FieldsReplaced
<1>1. ScreenInit => FieldsReplaced
  BY DEF ScreenInit, FieldsReplaced, FieldReplacesContent, FieldStaysInside
<1>2. FieldsReplaced /\ [ScreenNext]_screenVars => FieldsReplaced'
  BY FieldsStep
<1> QED
  BY <1>1, <1>2, PTL DEF ScreenSpec

-----------------------------------------------------------------------------
(* Lines.                                                                  *)

(* Products and order.                                                     *)
LEMMA ProductOrder ==
  ASSUME NEW n \in Nat, NEW i \in Int, NEW j \in Int
  PROVE  n * i \in Int /\ (i <= j => n * i <= n * j) /\ (i + 1 <= j => n * i + n <= n * j)
<1>1. n * j = n * i + n * (j - i) /\ n * i \in Int /\ n * j \in Int
  OBVIOUS
<1>2. i <= j => n * (j - i) >= 0
  OBVIOUS
<1>3. n * (j - i) = n * (j - (i + 1)) + n
  OBVIOUS
<1>4. i + 1 <= j => n * (j - (i + 1)) >= 0
  OBVIOUS
<1>5. n * (j - i) \in Int /\ n * (j - (i + 1)) \in Int
  OBVIOUS
<1> QED
  BY <1>1, <1>2, <1>3, <1>4, <1>5

(* Where a line is after t of its n steps, whatever their direction, and   *)
(* n times that.                                                           *)
Along(a, b, n, d, t) == Follow(a, b - a, d * t, d * n, FALSE)
Middle(a, b, n, t) == a * n + t * (b - a)

LEMMA FollowIs ==
  ASSUME NEW a \in Nat, NEW b \in Nat, NEW n \in Nat \ {0}, NEW d \in {1, -1}, NEW t \in 0 .. n
  PROVE  Middle(a, b, n, t) \in Nat /\ Along(a, b, n, d, t) = Middle(a, b, n, t) \div n
<1> DEFINE M == a * n + t * (b - a)
<1>1. M = a * (n - t) + t * b
  OBVIOUS
<1>2. a * (n - t) \in Nat /\ t * b \in Nat
  <2>1. \A i, j \in Nat : i * j \in Nat
    OBVIOUS
  <2>2. n - t \in Nat /\ t \in Nat
    OBVIOUS
  <2> QED
    BY <2>1, <2>2
<1>3. M \in Nat
  BY <1>1, <1>2
<1>4. ASSUME d = 1
      PROVE  Follow(a, b - a, d * t, d * n, FALSE) = M \div n
  <2>1. a * (d * n) + (d * t) * (b - a) = M /\ d * n = n
    BY <1>4
  <2>2. Follow(a, b - a, d * t, d * n, FALSE) = Quot(M, n)
    BY <2>1 DEF Follow
  <2> HIDE DEF M
  <2>3. Quot(M, n) = M \div n
    BY <1>3 DEF Quot, FuncAbs
  <2> QED
    BY <2>2, <2>3
<1>5. ASSUME d = -1
      PROVE  Follow(a, b - a, d * t, d * n, FALSE) = M \div n
  <2>1. a * (d * n) + (d * t) * (b - a) = -M /\ d * n = -n
    BY <1>5
  <2>2. Follow(a, b - a, d * t, d * n, FALSE) = Quot(-M, -n)
    BY <2>1 DEF Follow
  <2> HIDE DEF M
  <2>3. FuncAbs(-M) = M /\ FuncAbs(-n) = n /\ ~(-n > 0) /\ (-M >= 0 => M = 0)
    BY <1>3 DEF FuncAbs
  <2>4. M \div n \in Nat /\ (M = 0 => M \div n = 0)
    <3>1. M = 0 => n * 0 <= M /\ M < n * 0 + n
      BY <1>3
    <3> QED
      BY <3>1, <1>3, NaturalQuotient
  <2>5. Quot(-M, -n) = IF (-M >= 0) = (-n > 0) THEN M \div n ELSE -(M \div n)
    BY <2>3 DEF Quot
  <2>6. CASE M = 0
    <3>1. M \div n = 0 /\ -(M \div n) = 0
      BY <2>4, <2>6
    <3> DEFINE q == M \div n
    <3>2. q = 0 /\ -q = 0 /\ Quot(-M, -n) = IF (-M >= 0) = (-n > 0) THEN q ELSE -q
      BY <3>1, <2>5
    <3> HIDE DEF q
    <3>3. Quot(-M, -n) = 0
      BY <3>2
    <3> QED
      BY <3>1, <3>3, <2>2
  <2>7. CASE M # 0
    <3>1. ~(-M >= 0) /\ ~(-n > 0)
      BY <2>3, <2>7
    <3>2. (-M >= 0) = (-n > 0)
      BY <3>1
    <3>3. Quot(-M, -n) = M \div n
      BY <3>2, <2>5
    <3> QED
      BY <3>3, <2>2
  <2> QED
    BY <2>6, <2>7
<1>6. Follow(a, b - a, d * t, d * n, FALSE) = M \div n
  BY <1>4, <1>5
<1> QED
  BY <1>3, <1>6, Zenon DEF Middle, Along

(* It begins and ends where it should, stays between, and moves by at most *)
(* one where the other direction is the longer one.                        *)
LEMMA FollowFacts ==
  ASSUME NEW a \in Nat, NEW b \in Nat, NEW n \in Nat \ {0}, NEW d \in {1, -1}, b - a <= n, a - b <= n
  PROVE  /\ \A t \in 0 .. n : /\ Along(a, b, n, d, t) \in Nat
                              /\ Within(Along(a, b, n, d, t), a, b)
         /\ Along(a, b, n, d, 0) = a
         /\ Along(a, b, n, d, n) = b
         /\ \A t \in 0 .. n - 1 :
              FuncAbs(Along(a, b, n, d, t) - Along(a, b, n, d, t + 1)) <= 1
         /\ (b - a < n /\ a - b < n) =>
              \A t \in 0 .. n - 1 :
                /\ Middle(a, b, n, t) = n * Along(a, b, n, d, t)
                     => Along(a, b, n, d, t + 1) <= Along(a, b, n, d, t)
                /\ Middle(a, b, n, t + 1) = n * Along(a, b, n, d, t + 1)
                     => Along(a, b, n, d, t) <= Along(a, b, n, d, t + 1)
<1> DEFINE M(t) == Middle(a, b, n, t)
           F(t) == Along(a, b, n, d, t)
<1>1. \A t \in 0 .. n : M(t) \in Nat /\ F(t) = M(t) \div n
  BY FollowIs
<1>2. \A t \in 0 .. n : F(t) \in Nat /\ n * F(t) <= M(t) /\ M(t) < n * F(t) + n
                        /\ n * F(t) \in Int
  <2> TAKE t \in 0 .. n
  <2>1. M(t) \in Nat /\ F(t) = M(t) \div n
    BY <1>1
  <2> HIDE DEF M, F
  <2>2. F(t) \in Nat /\ n * F(t) <= M(t) /\ M(t) < n * F(t) + n
    BY <2>1, NaturalQuotient
  <2>3. n * F(t) \in Int
    BY <2>2
  <2> QED
    BY <2>2, <2>3
<1>3. M(0) = n * a /\ M(n) = n * b
  BY DEF Middle
<1>4. \A t \in 0 .. n - 1 : M(t + 1) = M(t) + (b - a)
  BY DEF Middle
<1>5. \A t \in 0 .. n : /\ a <= b => n * a <= M(t) /\ M(t) <= n * b
                        /\ b <= a => n * b <= M(t) /\ M(t) <= n * a
  <2> TAKE t \in 0 .. n
  <2>1. M(t) = n * a + t * (b - a) /\ M(t) = n * b + (n - t) * (a - b)
    BY DEF Middle
  <2>2. t \in Nat /\ n - t \in Nat
    OBVIOUS
  <2>3. \A i, j \in Nat : i * j \in Nat
    OBVIOUS
  <2>4. \A i, j \in Int : i * (-j) = -(i * j)
    OBVIOUS
  <2>5. t * (a - b) = -(t * (b - a)) /\ (n - t) * (b - a) = -((n - t) * (a - b))
    BY <2>2
  <2>6. a <= b => t * (b - a) \in Nat /\ (n - t) * (b - a) \in Nat
    BY <2>2, <2>3
  <2>7. b <= a => t * (a - b) \in Nat /\ (n - t) * (a - b) \in Nat
    BY <2>2, <2>3
  <2>8. t * (b - a) \in Int /\ (n - t) * (a - b) \in Int /\ n * a \in Int /\ n * b \in Int
    OBVIOUS
  <2> HIDE DEF M
  <2> QED
    BY <2>1, <2>5, <2>6, <2>7, <2>8
<1>6. \A t \in 0 .. n - 1 : t \in 0 .. n /\ t + 1 \in 0 .. n
  OBVIOUS
<1> HIDE DEF M, F
<1>7. ASSUME NEW t \in 0 .. n
      PROVE  Within(F(t), a, b)
  <2>1. CASE a <= b
    <3>1. ~(F(t) + 1 <= a) /\ ~(b + 1 <= F(t))
      <4>1. F(t) \in Int /\ a \in Int /\ b \in Int /\ n \in Nat
        BY <1>2
      <4>2. F(t) + 1 <= a => n * F(t) + n <= n * a
        BY <4>1, ProductOrder
      <4>3. b + 1 <= F(t) => n * b + n <= n * F(t)
        BY <4>1, ProductOrder
      <4>4. n * a \in Int /\ n * b \in Int /\ M(t) \in Int
        BY <1>1
      <4> QED
        BY <4>2, <4>3, <4>4, <1>2, <1>5, <2>1
    <3> QED
      BY <3>1, <1>2, <2>1 DEF Within
  <2>2. CASE b <= a
    <3>1. ~(F(t) + 1 <= b) /\ ~(a + 1 <= F(t))
      <4>1. F(t) \in Int /\ a \in Int /\ b \in Int /\ n \in Nat
        BY <1>2
      <4>2. F(t) + 1 <= b => n * F(t) + n <= n * b
        BY <4>1, ProductOrder
      <4>3. a + 1 <= F(t) => n * a + n <= n * F(t)
        BY <4>1, ProductOrder
      <4>4. n * a \in Int /\ n * b \in Int /\ M(t) \in Int
        BY <1>1
      <4> QED
        BY <4>2, <4>3, <4>4, <1>2, <1>5, <2>2
    <3> QED
      BY <3>1, <1>2, <2>2 DEF Within
  <2> QED
    BY <2>1, <2>2
<1>8. F(0) = a /\ F(n) = b
  <2>1. 0 \in 0 .. n /\ n \in 0 .. n /\ n * a \in Nat /\ n * b \in Nat
    OBVIOUS
  <2>2. F(0) = (n * a) \div n /\ F(n) = (n * b) \div n
    BY <2>1, <1>1, <1>3
  <2>3. n * a < n * a + n /\ n * b < n * b + n
    BY <2>1
  <2> QED
    BY <2>1, <2>2, <2>3, NaturalQuotient
<1>9. ASSUME NEW t \in 0 .. n - 1
      PROVE  FuncAbs(F(t) - F(t + 1)) <= 1
  <2> DEFINE f == F(t)
             g == F(t + 1)
             m == M(t)
             l == M(t + 1)
  <2>1. f \in Nat /\ g \in Nat /\ n * f <= m /\ m < n * f + n /\ n * g <= l /\ l < n * g + n
        /\ n * f \in Int /\ n * g \in Int
    BY <1>2, <1>6
  <2>2. l = m + (b - a) /\ m \in Int
    BY <1>4, <1>1, <1>6
  <2> HIDE DEF f, g, m, l
  <2>3. f + 2 <= g => n * f + n + n <= n * g
    <3>1. f + 1 \in Int /\ (f + 1) + 1 = f + 2
      BY <2>1
    <3>2. (f + 1) + 1 <= g => n * (f + 1) + n <= n * g
      BY <2>1, <3>1, ProductOrder
    <3>3. n * (f + 1) = n * f + n
      BY <2>1
    <3> QED
      BY <3>1, <3>2, <3>3
  <2>4. g + 2 <= f => n * g + n + n <= n * f
    <3>1. g + 1 \in Int /\ (g + 1) + 1 = g + 2
      BY <2>1
    <3>2. (g + 1) + 1 <= f => n * (g + 1) + n <= n * f
      BY <2>1, <3>1, ProductOrder
    <3>3. n * (g + 1) = n * g + n
      BY <2>1
    <3> QED
      BY <3>1, <3>2, <3>3
  <2>5. ~(f + 2 <= g) /\ ~(g + 2 <= f)
    BY <2>1, <2>2, <2>3, <2>4
  <2>6. FuncAbs(f - g) <= 1
    BY <2>1, <2>5 DEF FuncAbs
  <2> QED
    BY <2>6 DEF f, g
<1>10. ASSUME b - a < n, a - b < n, NEW t \in 0 .. n - 1
       PROVE  /\ M(t) = n * F(t) => F(t + 1) <= F(t)
              /\ M(t + 1) = n * F(t + 1) => F(t) <= F(t + 1)
  <2> DEFINE f == F(t)
             g == F(t + 1)
             m == M(t)
             l == M(t + 1)
  <2>1. f \in Nat /\ g \in Nat /\ n * f <= m /\ m < n * f + n /\ n * g <= l /\ l < n * g + n
        /\ n * f \in Int /\ n * g \in Int
    BY <1>2, <1>6
  <2>2. l = m + (b - a) /\ m \in Int
    BY <1>4, <1>1, <1>6
  <2> HIDE DEF f, g, m, l
  <2>3. f + 1 <= g => n * f + n <= n * g
    BY <2>1, ProductOrder
  <2>4. g + 1 <= f => n * g + n <= n * f
    BY <2>1, ProductOrder
  <2>5. m = n * f => g <= f
    BY <2>1, <2>2, <2>3, <1>10
  <2>6. l = n * g => f <= g
    BY <2>1, <2>2, <2>4, <1>10
  <2> QED
    BY <2>5, <2>6 DEF f, g, m, l
<1> QED
  BY <1>2, <1>7, <1>8, <1>9, <1>10 DEF F, M

(* A coordinate that goes from a to b in n steps, staying between them and *)
(* moving by at most one.                                                  *)
Joins(c, n, a, b) ==
  /\ c \in [0 .. n -> Int] /\ c[0] = a /\ c[n] = b
  /\ \A t \in 0 .. n : Within(c[t], a, b)
  /\ \A t \in 0 .. n - 1 : FuncAbs(c[t] - c[t + 1]) <= 1

LEMMA JoinsAlong ==
  ASSUME NEW a \in Nat, NEW b \in Nat, NEW n \in Nat \ {0}, NEW d \in {1, -1}, b - a <= n, a - b <= n
  PROVE  Joins([t \in 0 .. n |-> Along(a, b, n, d, t)], n, a, b)
<1> DEFINE c == [t \in 0 .. n |-> Along(a, b, n, d, t)]
<1>1. \A t \in 0 .. n : c[t] = Along(a, b, n, d, t) /\ c[t] \in Nat /\ Within(c[t], a, b)
  BY FollowFacts
<1>2. c[0] = a /\ c[n] = b
  <2>1. 0 \in 0 .. n /\ n \in 0 .. n
    OBVIOUS
  <2> QED
    BY <2>1, <1>1, FollowFacts
<1>3. \A t \in 0 .. n - 1 : FuncAbs(c[t] - c[t + 1]) <= 1
  <2>1. \A t \in 0 .. n - 1 : t \in 0 .. n /\ t + 1 \in 0 .. n
    OBVIOUS
  <2> QED
    BY <2>1, <1>1, FollowFacts
<1>4. c \in [0 .. n -> Int]
  <2>1. \A t \in 0 .. n : c[t] \in Int
    BY <1>1
  <2>2. c = [t \in 0 .. n |-> c[t]]
    OBVIOUS
  <2> HIDE DEF c
  <2> QED
    BY <2>1, <2>2
<1> HIDE DEF c
<1>5. Joins(c, n, a, b)
  BY <1>1, <1>2, <1>3, <1>4 DEF Joins
<1> QED
  BY <1>5 DEF c

LEMMA JoinsStraight ==
  ASSUME NEW a \in Nat, NEW b \in Nat
  PROVE  LET n == FuncAbs(b - a)
             d == Direction(a, b)
         IN  /\ n \in Nat /\ d \in {1, -1} /\ b - a = d * n
             /\ Joins([t \in 0 .. n |-> a + d * t], n, a, b)
<1> DEFINE n == FuncAbs(b - a)
           d == Direction(a, b)
           c == [t \in 0 .. n |-> a + d * t]
<1>1. n \in Nat /\ d \in {1, -1} /\ b - a = d * n /\ (d = 1 <=> a < b)
  BY DEF FuncAbs, Direction
<1> HIDE DEF n, d
<1>2. \A t \in 0 .. n : d * t \in Int /\ (d = 1 => d * t = t) /\ (d = -1 => d * t = -t)
  BY <1>1
<1>3. c \in [0 .. n -> Int] /\ \A t \in 0 .. n : c[t] = a + d * t
  BY <1>2
<1> HIDE DEF c
<1>4. 0 \in 0 .. n /\ n \in 0 .. n /\ d * 0 = 0
  BY <1>1
<1>5. c[0] = a /\ c[n] = b
  BY <1>1, <1>3, <1>4
<1>6. \A t \in 0 .. n : Within(c[t], a, b)
  BY <1>1, <1>2, <1>3 DEF Within
<1>7. \A t \in 0 .. n - 1 : FuncAbs(c[t] - c[t + 1]) <= 1
  <2> TAKE t \in 0 .. n - 1
  <2>1. t \in 0 .. n /\ t + 1 \in 0 .. n
    BY <1>1
  <2>2. c[t] = a + d * t /\ c[t + 1] = a + d * (t + 1)
    BY <2>1, <1>3
  <2>3. CASE d = 1
    BY <2>1, <2>2, <2>3 DEF FuncAbs
  <2>4. CASE d = -1
    BY <2>1, <2>2, <2>4 DEF FuncAbs
  <2> QED
    BY <2>3, <2>4, <1>1
<1>8. Joins(c, n, a, b)
  BY <1>3, <1>5, <1>6, <1>7 DEF Joins
<1> QED
  BY <1>1, <1>8 DEF n, d, c

LEMMA JoinsStill == \A n \in Nat, a \in Nat : Joins([t \in 0 .. n |-> a], n, a, a)
  BY DEF Joins, Within, FuncAbs

(* The same for one that may lie one short of its place, and whose end is  *)
(* one of some.                                                            *)
Leads(c, n, a, b, ends) ==
  /\ c \in [0 .. n -> Int] /\ c[0] = a /\ c[n] \in ends
  /\ \A t \in 0 .. n : InBox(c[t], a, b)
  /\ \A t \in 0 .. n - 1 : FuncAbs(c[t] - c[t + 1]) <= 1

LEMMA JoinsLeads ==
  \A c, n, a, b : Joins(c, n, a, b) => Leads(c, n, a, b, {b})
  BY DEF Joins, Leads, InBox

(* A step whose place is whole is reached exactly.                         *)
LEMMA WholePlace ==
  ASSUME NEW a \in Nat, NEW b \in Nat, NEW n \in Nat \ {0}, NEW d \in {1, -1}, NEW t \in 0 .. n,
         \E q \in Int : t * (b - a) = n * q
  PROVE  Middle(a, b, n, t) = n * Along(a, b, n, d, t)
<1>0. PICK q \in Int : t * (b - a) = n * q
  OBVIOUS
<1> DEFINE M == Middle(a, b, n, t)
           f == M \div n
<1>1. M \in Nat /\ Along(a, b, n, d, t) = f
  BY FollowIs
<1>2. M = n * (a + q) /\ a + q \in Int
  <2>1. M = a * n + n * q
    BY <1>0 DEF Middle
  <2> HIDE DEF M
  <2> QED
    BY <2>1
<1> HIDE DEF M
<1>3. f \in Nat /\ n * f <= M /\ M < n * f + n
  BY <1>1, NaturalQuotient
<1> HIDE DEF f
<1> DEFINE g == a + q
<1>4. g \in Int /\ M = n * g /\ n * f \in Int /\ n * g \in Int
  BY <1>2, <1>3
<1> HIDE DEF g
<1>5. f + 1 <= g => n * f + n <= n * g
  BY <1>3, <1>4, ProductOrder
<1>6. g + 1 <= f => n * g + n <= n * f
  BY <1>3, <1>4, ProductOrder
<1>7. f = g
  BY <1>3, <1>4, <1>5, <1>6
<1>8. M = n * Along(a, b, n, d, t)
  BY <1>1, <1>4, <1>7
<1> QED
  BY <1>8 DEF M

(* Where a line is after each of its steps when some of them fall short.   *)
Shortened(a, b, n, d, short) ==
  [t \in 0 .. n |-> Follow(a, b - a, d * t, d * n, t + 1 \in short)]

(* Steps that fall short where their place is whole leave no gap: the      *)
(* places beside it are not beyond it.                                     *)
LEMMA LeadsAlong ==
  ASSUME NEW a \in Nat, NEW b \in Nat, NEW n \in Nat \ {0}, NEW d \in {1, -1}, b - a < n, a - b < n,
         NEW short, \A t \in 0 .. n : t + 1 \in short =>
                      t # 0 /\ Middle(a, b, n, t) = n * Along(a, b, n, d, t)
  PROVE  Leads(Shortened(a, b, n, d, short), n, a, b, {b, b - 1})
<1> DEFINE F(t) == Along(a, b, n, d, t)
           c == [t \in 0 .. n |-> Follow(a, b - a, d * t, d * n, t + 1 \in short)]
<1>1. \A t \in 0 .. n : F(t) \in Nat /\ Within(F(t), a, b)
  BY FollowFacts
<1>2. F(0) = a /\ F(n) = b
  BY FollowFacts
<1>3. \A t \in 0 .. n - 1 : FuncAbs(F(t) - F(t + 1)) <= 1
  <2>1. b - a <= n /\ a - b <= n
    OBVIOUS
  <2> QED
    BY <2>1, FollowFacts, Zenon
<1>4. \A t \in 0 .. n - 1 : /\ Middle(a, b, n, t) = n * F(t) => F(t + 1) <= F(t)
                            /\ Middle(a, b, n, t + 1) = n * F(t + 1) => F(t) <= F(t + 1)
  BY FollowFacts
<1>5. \A t \in 0 .. n : c[t] = IF t + 1 \in short /\ F(t) > 0 THEN F(t) - 1 ELSE F(t)
  BY DEF Follow, Along
<1>6. \A t \in 0 .. n - 1 : t \in 0 .. n /\ t + 1 \in 0 .. n
  OBVIOUS
<1>7. 0 \in 0 .. n /\ n \in 0 .. n
  OBVIOUS
<1>8. c = [t \in 0 .. n |-> c[t]]
  OBVIOUS
<1> HIDE DEF c, F
<1>9. \A t \in 0 .. n : c[t] \in Int /\ InBox(c[t], a, b)
  <2> TAKE t \in 0 .. n
  <2>1. CASE t + 1 \in short /\ F(t) > 0
    <3>1. c[t] = F(t) - 1 /\ F(t) \in Nat /\ Within(F(t), a, b)
      BY <2>1, <1>1, <1>5
    <3>2. c[t] \in Int /\ c[t] >= 0 /\ c[t] + 1 = F(t)
      BY <3>1, <2>1
    <3> QED
      BY <3>1, <3>2 DEF InBox
  <2>2. CASE ~(t + 1 \in short /\ F(t) > 0)
    <3>1. c[t] = F(t) /\ F(t) \in Nat /\ Within(F(t), a, b)
      BY <2>2, <1>1, <1>5
    <3> QED
      BY <3>1 DEF InBox
  <2> QED
    BY <2>1, <2>2
<1>10. ASSUME NEW t \in 0 .. n - 1
       PROVE  FuncAbs(c[t] - c[t + 1]) <= 1
  <2> DEFINE f == F(t)
             g == F(t + 1)
  <2>1. f \in Nat /\ g \in Nat /\ FuncAbs(f - g) <= 1
    BY <1>1, <1>3, <1>6
  <2>2. c[t] = (IF t + 1 \in short /\ f > 0 THEN f - 1 ELSE f)
        /\ c[t + 1] = (IF (t + 1) + 1 \in short /\ g > 0 THEN g - 1 ELSE g)
    BY <1>5, <1>6
  <2>3. (t + 1 \in short => g <= f) /\ ((t + 1) + 1 \in short => f <= g)
    BY <1>4, <1>6 DEF F
  <2> HIDE DEF f, g
  <2>4. f - g <= 1 /\ g - f <= 1
    BY <2>1 DEF FuncAbs
  <2>5. c[t] - c[t + 1] \in Int /\ c[t] - c[t + 1] <= 1 /\ c[t + 1] - c[t] <= 1
    BY <2>1, <2>2, <2>3, <2>4
  <2> QED
    BY <2>5, <1>6, <1>9 DEF FuncAbs
<1>11. c[0] = a
  BY <1>2, <1>5, <1>7 DEF F
<1>12. c[n] \in {b, b - 1}
  BY <1>2, <1>5, <1>7
<1>13. c \in [0 .. n -> Int]
  BY <1>8, <1>9
<1>14. Leads(c, n, a, b, {b, b - 1})
  BY <1>9, <1>10, <1>11, <1>12, <1>13 DEF Leads
<1> QED
  BY <1>14 DEF c, Shortened

(* When none falls short, it is the exact line.                            *)
LEMMA LeadsExact ==
  ASSUME NEW a \in Nat, NEW b \in Nat, NEW n \in Nat \ {0}, NEW d \in {1, -1}, b - a <= n, a - b <= n
  PROVE  Leads(Shortened(a, b, n, d, {}), n, a, b, {b})
<1>1. Joins([t \in 0 .. n |-> Along(a, b, n, d, t)], n, a, b)
  BY JoinsAlong
<1>2. \A t \in 0 .. n : Follow(a, b - a, d * t, d * n, t + 1 \in {}) = Along(a, b, n, d, t)
  BY DEF Along, Follow
<1>3. Shortened(a, b, n, d, {}) = [t \in 0 .. n |-> Along(a, b, n, d, t)]
  BY <1>2 DEF Shortened
<1> QED
  BY <1>1, <1>3, JoinsLeads

(* What LineJoinsEnds says of a line with these points.                    *)
Connects(points, from, to, ends) ==
  /\ Len(points) \in Nat \ {0} /\ points \in Seq([x : Int, y : Int])
  /\ points[1] = from /\ points[Len(points)] \in ends
  /\ \A i \in 1 .. Len(points) - 1 : Near(points[i], points[i + 1])
  /\ \A i \in 1 .. Len(points) : InBox(points[i].x, from.x, to.x) /\ InBox(points[i].y, from.y, to.y)

(* The points where the coordinates c and e go.                            *)
Polygon(n, c, e) == [i \in 1 .. n + 1 |-> [x |-> c[i - 1], y |-> e[i - 1]]]

LEMMA BothJoin ==
  ASSUME NEW from \in [x : Nat, y : Nat], NEW to \in [x : Nat, y : Nat], NEW n \in Nat, NEW c, NEW e,
         NEW C, NEW E, Leads(c, n, from.x, to.x, C), Leads(e, n, from.y, to.y, E)
  PROVE  Connects(Polygon(n, c, e), from, to, [x : C, y : E])
<1> DEFINE points == [i \in 1 .. n + 1 |-> [x |-> c[i - 1], y |-> e[i - 1]]]
<1>1. \A i \in 1 .. n + 1 : i - 1 \in 0 .. n
  OBVIOUS
<1>2. c \in [0 .. n -> Int] /\ e \in [0 .. n -> Int]
  BY DEF Leads
<1>3. points \in [1 .. n + 1 -> [x : Int, y : Int]]
  BY <1>1, <1>2
<1>4. \A i \in 1 .. n + 1 : points[i].x = c[i - 1] /\ points[i].y = e[i - 1]
                            /\ points[i] = [x |-> c[i - 1], y |-> e[i - 1]]
  OBVIOUS
<1> HIDE DEF points
<1>5. points \in Seq([x : Int, y : Int]) /\ Len(points) = n + 1
  <2>1. n + 1 \in Nat
    OBVIOUS
  <2> QED
    BY <2>1, <1>3, Sequence
<1>6. points[1] = from /\ points[n + 1] \in [x : C, y : E]
  <2>1. 1 \in 1 .. n + 1 /\ n + 1 \in 1 .. n + 1 /\ 1 - 1 = 0 /\ (n + 1) - 1 = n
    OBVIOUS
  <2>2. points[1] = [x |-> c[0], y |-> e[0]] /\ points[n + 1] = [x |-> c[n], y |-> e[n]]
    BY <2>1, <1>4
  <2>3. points[1] = [x |-> from.x, y |-> from.y] /\ c[n] \in C /\ e[n] \in E
    BY <2>2 DEF Leads
  <2> QED
    BY <2>2, <2>3
<1>7. \A i \in 1 .. n : Near(points[i], points[i + 1])
  <2> TAKE i \in 1 .. n
  <2>1. PICK t \in 0 .. n - 1 : i = t + 1
    <3>1. i - 1 \in 0 .. n - 1 /\ i = (i - 1) + 1
      OBVIOUS
    <3> QED
      BY <3>1
  <2>2. i \in 1 .. n + 1 /\ i + 1 \in 1 .. n + 1 /\ i - 1 = t /\ (i + 1) - 1 = t + 1
    BY <2>1
  <2>3. points[i].x = c[t] /\ points[i].y = e[t] /\ points[i + 1].x = c[t + 1] /\ points[i + 1].y = e[t + 1]
    BY <2>2, <1>4
  <2> QED
    BY <2>3 DEF Leads, Near
<1>8. \A i \in 1 .. n + 1 : InBox(points[i].x, from.x, to.x) /\ InBox(points[i].y, from.y, to.y)
  BY <1>1, <1>4 DEF Leads
<1>9. n + 1 \in Nat \ {0} /\ (n + 1) - 1 = n
  OBVIOUS
<1>10. Connects(points, from, to, [x : C, y : E])
  BY <1>5, <1>6, <1>7, <1>8, <1>9 DEF Connects
<1> QED
  BY <1>10 DEF points, Polygon

LEMMA ConnectsTo ==
  \A points, from, to, E, F :
    Connects(points, from, to, E) /\ E \subseteq F => Connects(points, from, to, F)
  BY DEF Connects

(* A slope that is not held exactly is that of no straight and no diagonal *)
(* line.                                                                   *)
LEMMA NeitherStraightNorDiagonal ==
  ASSUME NEW h \in Int, NEW w \in Int \ {0}, ~HeldExactly(h, w)
  PROVE  h # 0 /\ FuncAbs(h) # FuncAbs(w)
<1>1. Rem(h * 1, w) # 0
  BY DEF HeldExactly, PowersOfTwo
<1>2. h * 1 = h
  OBVIOUS
<1>3. Rem(h, w) # 0
  BY <1>1, <1>2
<1> DEFINE m == FuncAbs(h)
           n == FuncAbs(w)
           q == m \div n
<1>4. m \in Nat /\ n \in Nat \ {0}
  BY DEF FuncAbs
<1>5. Quot(h, w) = IF (h >= 0) = (w > 0) THEN q ELSE -q
  BY DEF Quot
<1>6. q \in Nat /\ (m = 0 => q = 0) /\ (m = n => q = 1)
  <2> HIDE DEF m, n
  <2>1. q \in Nat /\ n * q <= m /\ m < n * q + n
    BY <1>4, NaturalQuotient
  <2> HIDE DEF q
  <2>2. n * q \in Int /\ (1 <= q => n * 1 <= n * q) /\ (1 + 1 <= q => n * 1 + n <= n * q)
    BY <2>1, <1>4, ProductOrder
  <2>3. q = 0 => n * q = 0
    BY <1>4
  <2>4. n * 1 = n
    BY <1>4
  <2> QED
    BY <2>1, <2>2, <2>3, <2>4, <1>4
<1>7. Rem(h, w) = h - w * Quot(h, w)
  BY DEF Rem
<1> HIDE DEF q
<1>8. ASSUME h = 0
      PROVE  FALSE
  <2>1. m = 0
    BY <1>8 DEF FuncAbs
  <2>2. q = 0
    BY <1>6, <2>1
  <2>3. Quot(h, w) = 0
    <3> DEFINE p == -q
    <3>1. p + q = 0 /\ p \in Int
      BY <1>6
    <3>2. Quot(h, w) = IF (h >= 0) = (w > 0) THEN q ELSE p
      BY <1>5
    <3> HIDE DEF p
    <3> QED
      BY <2>2, <3>1, <3>2
  <2> QED
    BY <2>3, <1>3, <1>7, <1>8
<1>9. ASSUME m = n, h # 0
      PROVE  FALSE
  <2>1. q = 1
    BY <1>6, <1>9
  <2>2. CASE (h >= 0) = (w > 0)
    <3>1. Quot(h, w) = 1
      BY <1>5, <2>1, <2>2
    <3>2. h >= 0 <=> w > 0
      BY <2>2
    <3>3. h = w
      BY <3>2, <1>9 DEF FuncAbs
    <3> QED
      BY <3>1, <3>3, <1>3, <1>7
  <2>3. CASE (h >= 0) # (w > 0)
    <3>1. Quot(h, w) = -1
      BY <1>5, <2>1, <2>3
    <3>2. h >= 0 <=> ~(w > 0)
      BY <2>3
    <3>3. h = -w
      BY <3>2, <1>9 DEF FuncAbs
    <3>4. w * (-1) = -w
      OBVIOUS
    <3> QED
      BY <3>1, <3>3, <3>4, <1>3, <1>7
  <2> QED
    BY <2>2, <2>3
<1> QED
  BY <1>8, <1>9

(* Where a line may fall short, the place is whole.                        *)
LEMMA ShortWhole ==
  ASSUME NEW from \in [x : Nat, y : Nat], NEW to \in [x : Nat, y : Nat],
         NEW i \in MayFallShort(from, to)
  PROVE  LET dx == to.x - from.x
             dy == to.y - from.y
             longer  == IF FuncAbs(dy) > FuncAbs(dx) THEN dy ELSE dx
             shorter == IF FuncAbs(dy) > FuncAbs(dx) THEN dx ELSE dy
         IN  /\ dx # 0 /\ dy # 0 /\ FuncAbs(dy) # FuncAbs(dx)
             /\ i \in 2 .. FuncAbs(longer) + 1
             /\ \E q \in Int : (i - 1) * shorter = longer * q
<1> DEFINE dx == to.x - from.x
           dy == to.y - from.y
           longer  == IF FuncAbs(dy) > FuncAbs(dx) THEN dy ELSE dx
           shorter == IF FuncAbs(dy) > FuncAbs(dx) THEN dx ELSE dy
<1>1. dx # 0 /\ ~HeldExactly(dy, dx) /\ i \in 2 .. FuncAbs(longer) + 1
      /\ Rem((i - 1) * shorter, longer) = 0
  BY DEF MayFallShort
<1>2. dx \in Int /\ dy \in Int
  OBVIOUS
<1> HIDE DEF dx, dy
<1>3. dx \in Int \ {0}
  BY <1>1, <1>2
<1>4. dy # 0 /\ FuncAbs(dy) # FuncAbs(dx)
  BY <1>1, <1>2, <1>3, NeitherStraightNorDiagonal
<1>5. longer \in Int \ {0} /\ shorter \in Int
  BY <1>1, <1>2, <1>4
<1> HIDE DEF longer, shorter
<1>6. i - 1 \in Int
  BY <1>1
<1> DEFINE p == (i - 1) * shorter
           q == Quot(p, longer)
<1>7. p \in Int
  BY <1>5, <1>6
<1> HIDE DEF p
<1>8. q \in Int
  <2>1. FuncAbs(p) \in Nat /\ FuncAbs(longer) \in Nat \ {0}
    BY <1>5, <1>7 DEF FuncAbs
  <2>2. FuncAbs(p) \div FuncAbs(longer) \in Nat
    BY <2>1, NaturalQuotient
  <2> QED
    BY <2>2 DEF Quot
<1>9. Rem(p, longer) = p - longer * q
  BY DEF Rem
<1>10. p - longer * q = 0
  BY <1>1, <1>9 DEF p
<1> HIDE DEF q
<1>11. p = longer * q
  BY <1>5, <1>7, <1>8, <1>10
<1> QED
  BY <1>1, <1>4, <1>8, <1>11, Zenon DEF dx, dy, longer, shorter, p

LEMMA LineConnects ==
  ASSUME NEW from \in [x : Nat, y : Nat], NEW to \in [x : Nat, y : Nat],
         NEW short \in SUBSET MayFallShort(from, to)
  PROVE  Connects(LinePoints(from, to, short), from, to, Ends(from, to))
<1> DEFINE dx == to.x - from.x
           dy == to.y - from.y
           nx == FuncAbs(dx)
           ny == FuncAbs(dy)
           sx == Direction(from.x, to.x)
           sy == Direction(from.y, to.y)
<1>1. /\ nx \in Nat /\ sx \in {1, -1} /\ dx = sx * nx
      /\ Joins([t \in 0 .. nx |-> from.x + sx * t], nx, from.x, to.x)
  BY JoinsStraight
<1>2. /\ ny \in Nat /\ sy \in {1, -1} /\ dy = sy * ny
      /\ Joins([t \in 0 .. ny |-> from.y + sy * t], ny, from.y, to.y)
  BY JoinsStraight
<1>3. from.x \in Nat /\ to.x \in Nat /\ from.y \in Nat /\ to.y \in Nat
  OBVIOUS
(* The points, by the direction they follow.                               *)
<1>4. LinePoints(from, to, short) =
        IF dx = 0 THEN [i \in 1 .. ny + 1 |-> [x |-> from.x, y |-> from.y + sy * (i - 1)]]
        ELSE IF ny > nx
        THEN [i \in 1 .. ny + 1 |->
                [x |-> Follow(from.x, dx, sy * (i - 1), dy, i \in short), y |-> from.y + sy * (i - 1)]]
        ELSE [i \in 1 .. nx + 1 |->
                [x |-> from.x + sx * (i - 1), y |-> Follow(from.y, dy, sx * (i - 1), dx, i \in short)]]
  BY DEF LinePoints
<1>5. (dx <= nx /\ -dx <= nx) /\ (dy <= ny /\ -dy <= ny) /\ (dx # 0 => nx # 0)
      /\ (dx = 0 => to.x = from.x)
  BY <1>3 DEF FuncAbs
<1>6. -dx = from.x - to.x /\ -dy = from.y - to.y
  BY <1>3
(* Those that may fall short.                                              *)
<1>7. \A i \in short :
        /\ dx # 0 /\ dy # 0 /\ ny # nx
        /\ i \in 2 .. (IF ny > nx THEN ny ELSE nx) + 1
        /\ \E q \in Int : (i - 1) * (IF ny > nx THEN dx ELSE dy) = (IF ny > nx THEN dy ELSE dx) * q
  <2> TAKE i \in short
  <2>1. i \in MayFallShort(from, to)
    OBVIOUS
  <2>2. FuncAbs(IF ny > nx THEN dy ELSE dx) = IF ny > nx THEN ny ELSE nx
    OBVIOUS
  <2> QED
    BY <2>1, <2>2, ShortWhole
(* The ends.                                                               *)
<1>8. /\ [x : {to.x}, y : {to.y}] \subseteq Ends(from, to)
      /\ (nx # 0 /\ ny > nx) => [x : {to.x, to.x - 1}, y : {to.y}] \subseteq Ends(from, to)
      /\ (nx > ny /\ ny # 0) => [x : {to.x}, y : {to.y, to.y - 1}] \subseteq Ends(from, to)
  <2>1. to = [x |-> to.x, y |-> to.y] /\ [to EXCEPT !.x = @ - 1] = [x |-> to.x - 1, y |-> to.y]
        /\ [to EXCEPT !.y = @ - 1] = [x |-> to.x, y |-> to.y - 1]
    OBVIOUS
  <2>2. [x : {to.x}, y : {to.y}] \subseteq {to}
    BY <2>1
  <2>3. [x : {to.x, to.x - 1}, y : {to.y}] \subseteq {to, [to EXCEPT !.x = @ - 1]}
    BY <2>1
  <2>4. [x : {to.x}, y : {to.y, to.y - 1}] \subseteq {to, [to EXCEPT !.y = @ - 1]}
    BY <2>1
  <2>5. Ends(from, to) = IF nx = 0 \/ ny = 0 \/ nx = ny THEN {to}
                         ELSE IF ny > nx THEN {to, [to EXCEPT !.x = @ - 1]}
                         ELSE {to, [to EXCEPT !.y = @ - 1]}
    BY DEF Ends
  <2>6. nx \in Nat /\ ny \in Nat
    BY <1>1, <1>2
  <2> HIDE DEF nx, ny
  <2>7. [x : {to.x}, y : {to.y}] \subseteq Ends(from, to)
    BY <2>2, <2>5
  <2>8. (nx # 0 /\ ny > nx) => Ends(from, to) = {to, [to EXCEPT !.x = @ - 1]}
    BY <2>5, <2>6
  <2>9. (nx > ny /\ ny # 0) => Ends(from, to) = {to, [to EXCEPT !.y = @ - 1]}
    BY <2>5, <2>6
  <2> QED
    BY <2>3, <2>4, <2>7, <2>8, <2>9
<1>9. CASE dx = 0
  <2> DEFINE c == [t \in 0 .. ny |-> from.x]
             e == [t \in 0 .. ny |-> from.y + sy * t]
  <2>1. Leads(c, ny, from.x, to.x, {to.x}) /\ Leads(e, ny, from.y, to.y, {to.y})
    BY <1>2, <1>3, <1>5, <1>9, JoinsStill, JoinsLeads
  <2>2. \A i \in 1 .. ny + 1 : c[i - 1] = from.x /\ e[i - 1] = from.y + sy * (i - 1)
    BY <1>2
  <2>3. LinePoints(from, to, short) = Polygon(ny, c, e)
    BY <1>4, <1>9, <2>2 DEF Polygon
  <2>4. ny \in Nat
    BY <1>2
  <2> HIDE DEF c, e, dx, dy, nx, ny, sx, sy
  <2>5. Connects(Polygon(ny, c, e), from, to, [x : {to.x}, y : {to.y}])
    BY <2>1, <2>4, BothJoin
  <2> QED
    BY <2>3, <2>5, <1>8, ConnectsTo
<1>10. CASE dx # 0 /\ ny > nx
  <2> DEFINE c == Shortened(from.x, to.x, ny, sy, short)
             e == [t \in 0 .. ny |-> from.y + sy * t]
  <2>1. Leads(e, ny, from.y, to.y, {to.y})
    BY <1>2, JoinsLeads
  <2>2. ny \in Nat \ {0} /\ to.x - from.x < ny /\ from.x - to.x < ny /\ nx # 0
    BY <1>1, <1>2, <1>3, <1>5, <1>6, <1>10
  <2>3. \A t \in 0 .. ny : t + 1 \in short =>
          t # 0 /\ Middle(from.x, to.x, ny, t) = ny * Along(from.x, to.x, ny, sy, t)
    <3> TAKE t \in 0 .. ny
    <3> HAVE t + 1 \in short
    <3>1. t + 1 \in 2 .. ny + 1 /\ \E q \in Int : ((t + 1) - 1) * dx = dy * q
      BY <1>7, <1>10
    <3>2. PICK q \in Int : ((t + 1) - 1) * dx = dy * q
      BY <3>1
    <3>3. t # 0 /\ (t + 1) - 1 = t
      BY <3>1, <2>2
    <3>4. dy * q = ny * (sy * q) /\ sy * q \in Int
      <4>1. dy = sy * ny /\ sy \in {1, -1} /\ ny \in Nat
        BY <1>2
      <4> HIDE DEF dy, sy, ny
      <4> QED
        BY <4>1
    <3>5. t * (to.x - from.x) = ny * (sy * q)
      BY <3>2, <3>3, <3>4
    <3> DEFINE r == sy * q
    <3>6. r \in Int /\ t * (to.x - from.x) = ny * r
      BY <3>4, <3>5
    <3>7. sy \in {1, -1} /\ t \in 0 .. ny
      BY <1>2
    <3> HIDE DEF r, ny, sy, dx, dy, nx, sx
    <3>8. \E p \in Int : t * (to.x - from.x) = ny * p
      BY <3>6
    <3>9. \A a \in Nat, b \in Nat, n \in Nat \ {0}, s \in {1, -1} : \A m \in 0 .. n :
            (\E p \in Int : m * (b - a) = n * p) => Middle(a, b, n, m) = n * Along(a, b, n, s, m)
      BY WholePlace
    <3>10. \A n \in Nat \ {0}, s \in {1, -1} : \A m \in 0 .. n :
             (\E p \in Int : m * (to.x - from.x) = n * p)
               => Middle(from.x, to.x, n, m) = n * Along(from.x, to.x, n, s, m)
      <4>1. from.x \in Nat /\ to.x \in Nat
        BY <1>3
      <4> QED
        BY <4>1, <3>9, Zenon
    <3>11. ny \in Nat \ {0} /\ sy \in {1, -1}
      BY <2>2, <3>7
    <3>12. \A m \in 0 .. ny :
             (\E p \in Int : m * (to.x - from.x) = ny * p)
               => Middle(from.x, to.x, ny, m) = ny * Along(from.x, to.x, ny, sy, m)
      BY <3>10, <3>11, Zenon
    <3>13. Middle(from.x, to.x, ny, t) = ny * Along(from.x, to.x, ny, sy, t)
      BY <3>7, <3>8, <3>12, Zenon
    <3> QED
      BY <3>3, <3>13
  <2>4. Leads(c, ny, from.x, to.x, {to.x, to.x - 1})
    <3>1. sy \in {1, -1}
      BY <1>2
    <3> HIDE DEF ny, sy, dx, dy, nx, sx
    <3> QED
      BY <2>2, <2>3, <3>1, <1>3, LeadsAlong
  <2>5. \A i \in 1 .. ny + 1 : /\ c[i - 1] = Follow(from.x, dx, sy * (i - 1), dy, i \in short)
                               /\ e[i - 1] = from.y + sy * (i - 1)
    <3>1. \A i \in 1 .. ny + 1 : i - 1 \in 0 .. ny /\ (i - 1) + 1 = i
      BY <1>2
    <3>2. \A t \in 0 .. ny : c[t] = Follow(from.x, dx, sy * t, dy, t + 1 \in short) /\ e[t] = from.y + sy * t
      BY <1>2 DEF Shortened
    <3> HIDE DEF dx, dy, nx, ny, sx, sy, c, e
    <3> QED
      BY <3>1, <3>2
  <2>6. LinePoints(from, to, short) = Polygon(ny, c, e)
    BY <1>4, <1>10, <2>5 DEF Polygon
  <2>7. [x : {to.x, to.x - 1}, y : {to.y}] \subseteq Ends(from, to)
    BY <1>8, <1>10, <2>2
  <2> HIDE DEF c, e, dx, dy, nx, ny, sx, sy
  <2>8. Connects(Polygon(ny, c, e), from, to, [x : {to.x, to.x - 1}, y : {to.y}])
    BY <2>1, <2>2, <2>4, BothJoin
  <2> QED
    BY <2>6, <2>7, <2>8, ConnectsTo
<1>11. CASE dx # 0 /\ ~(ny > nx)
  <2> DEFINE c == [t \in 0 .. nx |-> from.x + sx * t]
             e == Shortened(from.y, to.y, nx, sx, short)
  <2>1. Leads(c, nx, from.x, to.x, {to.x})
    BY <1>1, JoinsLeads
  <2>2. nx \in Nat \ {0} /\ to.y - from.y <= nx /\ from.y - to.y <= nx
    BY <1>1, <1>2, <1>3, <1>5, <1>6, <1>11
  <2>3. \A i \in 1 .. nx + 1 : /\ c[i - 1] = from.x + sx * (i - 1)
                               /\ e[i - 1] = Follow(from.y, dy, sx * (i - 1), dx, i \in short)
    <3>1. \A i \in 1 .. nx + 1 : i - 1 \in 0 .. nx /\ (i - 1) + 1 = i
      BY <1>1
    <3>2. \A t \in 0 .. nx : e[t] = Follow(from.y, dy, sx * t, dx, t + 1 \in short) /\ c[t] = from.x + sx * t
      BY <1>1 DEF Shortened
    <3> HIDE DEF dx, dy, nx, ny, sx, sy, c, e
    <3> QED
      BY <3>1, <3>2
  <2>4. LinePoints(from, to, short) = Polygon(nx, c, e)
    BY <1>4, <1>11, <2>3 DEF Polygon
  <2>5. CASE short = {}
    <3>1. Leads(e, nx, from.y, to.y, {to.y})
      <4>1. sx \in {1, -1}
        BY <1>1
      <4>2. e = Shortened(from.y, to.y, nx, sx, {})
        BY <2>5
      <4> HIDE DEF nx, sx, dx, dy, ny, sy, e
      <4> QED
        BY <2>2, <4>1, <4>2, <1>3, LeadsExact
    <3> HIDE DEF c, e, dx, dy, nx, ny, sx, sy
    <3>2. Connects(Polygon(nx, c, e), from, to, [x : {to.x}, y : {to.y}])
      BY <2>1, <2>2, <3>1, BothJoin
    <3> QED
      BY <2>4, <1>8, <3>2, ConnectsTo
  <2>6. CASE short # {}
    <3>1. dy # 0 /\ ny # nx /\ ny # 0
      <4>1. dy # 0 /\ ny # nx
        BY <1>7, <2>6
      <4> QED
        BY <4>1, <1>3 DEF FuncAbs
    <3>2. to.y - from.y < nx /\ from.y - to.y < nx /\ nx > ny
      BY <3>1, <1>1, <1>2, <1>3, <1>5, <1>6, <1>11
    <3>3. \A t \in 0 .. nx : t + 1 \in short =>
            t # 0 /\ Middle(from.y, to.y, nx, t) = nx * Along(from.y, to.y, nx, sx, t)
      <4> TAKE t \in 0 .. nx
      <4> HAVE t + 1 \in short
      <4>1. t + 1 \in 2 .. nx + 1 /\ \E q \in Int : ((t + 1) - 1) * dy = dx * q
        BY <1>7, <1>11
      <4>2. PICK q \in Int : ((t + 1) - 1) * dy = dx * q
        BY <4>1
      <4>3. t # 0 /\ (t + 1) - 1 = t
        BY <4>1, <2>2
      <4>4. dx * q = nx * (sx * q) /\ sx * q \in Int
        <5>1. dx = sx * nx /\ sx \in {1, -1} /\ nx \in Nat
          BY <1>1
        <5> HIDE DEF dx, sx, nx
        <5> QED
          BY <5>1
      <4>5. t * (to.y - from.y) = nx * (sx * q)
        BY <4>2, <4>3, <4>4
      <4> DEFINE r == sx * q
      <4>6. r \in Int /\ t * (to.y - from.y) = nx * r
        BY <4>4, <4>5
      <4>7. sx \in {1, -1} /\ t \in 0 .. nx
        BY <1>1
      <4> HIDE DEF r, ny, sy, dx, dy, nx, sx
      <4>8. \E p \in Int : t * (to.y - from.y) = nx * p
        BY <4>6
      <4>9. \A a \in Nat, b \in Nat, n \in Nat \ {0}, s \in {1, -1} : \A m \in 0 .. n :
              (\E p \in Int : m * (b - a) = n * p) => Middle(a, b, n, m) = n * Along(a, b, n, s, m)
        BY WholePlace
      <4>10. \A n \in Nat \ {0}, s \in {1, -1} : \A m \in 0 .. n :
               (\E p \in Int : m * (to.y - from.y) = n * p)
                 => Middle(from.y, to.y, n, m) = n * Along(from.y, to.y, n, s, m)
        <5>1. from.y \in Nat /\ to.y \in Nat
          BY <1>3
        <5> QED
          BY <5>1, <4>9, Zenon
      <4>11. nx \in Nat \ {0} /\ sx \in {1, -1}
        BY <2>2, <4>7
      <4>12. \A m \in 0 .. nx :
               (\E p \in Int : m * (to.y - from.y) = nx * p)
                 => Middle(from.y, to.y, nx, m) = nx * Along(from.y, to.y, nx, sx, m)
        BY <4>10, <4>11, Zenon
      <4>13. Middle(from.y, to.y, nx, t) = nx * Along(from.y, to.y, nx, sx, t)
        BY <4>7, <4>8, <4>12, Zenon
      <4> QED
        BY <4>3, <4>13
    <3>4. Leads(e, nx, from.y, to.y, {to.y, to.y - 1})
      <4>1. sx \in {1, -1}
        BY <1>1
      <4> HIDE DEF ny, sy, dx, dy, nx, sx
      <4> QED
        BY <2>2, <3>2, <3>3, <4>1, <1>3, LeadsAlong
    <3>5. [x : {to.x}, y : {to.y, to.y - 1}] \subseteq Ends(from, to)
      BY <1>8, <3>1, <3>2
    <3> HIDE DEF c, e, dx, dy, nx, ny, sx, sy
    <3>6. Connects(Polygon(nx, c, e), from, to, [x : {to.x}, y : {to.y, to.y - 1}])
      BY <2>1, <2>2, <3>4, BothJoin
    <3> QED
      BY <2>4, <3>5, <3>6, ConnectsTo
  <2> QED
    BY <2>5, <2>6
<1> QED
  BY <1>9, <1>10, <1>11

(* The drawing of a line.                                                  *)
LEMMA LineCall ==
  ASSUME NEW from \in [x : Nat, y : Nat], NEW to \in [x : Nat, y : Nat], NEW count,
         NEW short \in SUBSET MayFallShort(from, to),
         LET points == LinePoints(from, to, short)
         IN  Draw([op |-> "line", from |-> from, to |-> to],
                  [i \in 1 .. Len(points) |-> [pen |-> {points[i]}, paper |-> {}]], count)
  PROVE  LineJoinsEnds'
<1> DEFINE points == LinePoints(from, to, short)
           stamps == [i \in 1 .. Len(points) |-> [pen |-> {points[i]}, paper |-> {}]]
<1>1. Connects(points, from, to, Ends(from, to))
  BY LineConnects
<1>2. drawn' = stamps /\ last_call' = [op |-> "line", from |-> from, to |-> to]
  BY DEF Draw
<1> HIDE DEF points
<1>3. Len(stamps) = Len(points) /\ \A i \in 1 .. Len(points) : stamps[i].pen = {points[i]} /\ stamps[i].paper = {}
  <2>1. Len(points) \in Nat /\ DOMAIN stamps = 1 .. Len(points)
    BY <1>1 DEF Connects
  <2> QED
    BY <2>1
<1>4. last_call'.from = from /\ last_call'.to = to
  BY <1>2
<1> HIDE DEF stamps
<1>5. stamps[1].pen = {from} /\ \E end \in Ends(from, to) : stamps[Len(stamps)].pen = {end}
  <2>1. Len(points) \in Nat \ {0} /\ points[1] = from /\ points[Len(points)] \in Ends(from, to)
    BY <1>1 DEF Connects
  <2> QED
    BY <2>1, <1>3
<1>6. \A i \in 1 .. Len(stamps) - 1 :
        \A p \in stamps[i].pen, q \in stamps[i + 1].pen : Near(p, q)
  <2>1. Len(points) \in Nat /\ \A i \in 1 .. Len(points) - 1 : Near(points[i], points[i + 1])
    BY <1>1 DEF Connects
  <2>2. \A i \in 1 .. Len(points) - 1 : i \in 1 .. Len(points) /\ i + 1 \in 1 .. Len(points)
    BY <2>1
  <2>3. Len(stamps) = Len(points)
    BY <1>3
  <2> SUFFICES ASSUME NEW i \in 1 .. Len(points) - 1
               PROVE  \A p \in stamps[i].pen, q \in stamps[i + 1].pen : Near(p, q)
    BY <2>3
  <2>4. stamps[i].pen = {points[i]} /\ stamps[i + 1].pen = {points[i + 1]}
    BY <2>2, <1>3
  <2> QED
    BY <2>1, <2>4
<1>7. \A p \in Reached(stamps) : InBox(p.x, from.x, to.x) /\ InBox(p.y, from.y, to.y)
  <2> TAKE p \in Reached(stamps)
  <2>1. PICK i \in 1 .. Len(stamps) : p \in stamps[i].pen \cup stamps[i].paper
    BY DEF Reached
  <2>2. i \in 1 .. Len(points) /\ p = points[i]
    BY <2>1, <1>3
  <2> QED
    BY <2>2, <1>1 DEF Connects
<1>8. Touched' = Reached(stamps)
  BY <1>2 DEF Touched, Reached
<1> QED
  BY <1>2, <1>4, <1>5, <1>6, <1>7, <1>8 DEF LineJoinsEnds

-----------------------------------------------------------------------------
(* Mixed strings that begin at the left edge: where a character may be     *)
(* placed, and the states their loop goes through.                         *)
Spots(s, scale, bounded) ==
  {p \in [i : 1 .. Len(s), x : Nat, y : Nat] :
     p.x + 2 * CellW * scale <= ScreenW /\ (bounded => p.y + CellH * scale <= ScreenH)}

Passing(y, s, scale, bounded) ==
  {now \in [i : Nat \ {0}, x_offset : Nat, y_offset : Nat, places : Seq(Spots(s, scale, bounded))] :
     /\ now.x_offset + 2 * CellW * scale <= ScreenW
     /\ (bounded /\ now.i <= Len(s)) => y + now.y_offset + CellH * scale <= ScreenH}

(* A string of the application, and the room its first row needs.          *)
Roomy(y, s, scale, bounded) ==
  /\ y \in Nat /\ s \in Seq(Nat) /\ scale \in Nat \ {0} /\ bounded \in BOOLEAN
  /\ 2 * CellW * scale <= ScreenW
  /\ bounded => y + CellH * scale <= ScreenH

LEMMA CellSizes ==
  ASSUME NEW scale \in Nat \ {0}
  PROVE  /\ CellW * scale \in Nat /\ CellH * scale \in Nat /\ 2 * CellW * scale \in Nat
         /\ CellW * scale <= 2 * CellW * scale
         /\ \A c : Advance(c, scale) \in Nat
<1>1. CellW \in Nat /\ CellH \in Nat /\ 2 * CellW \in Nat /\ scale \in Nat
  BY ScreenAssumption
<1>2. \A i, j \in Nat : i * j \in Nat
  OBVIOUS
<1>3. 2 * CellW * scale = CellW * scale + CellW * scale
  BY <1>1
<1>4. CellW * scale \in Nat /\ CellH * scale \in Nat /\ 2 * CellW * scale \in Nat
  BY <1>1, <1>2
<1>5. \A c : Advance(c, scale) = CellW * scale \/ Advance(c, scale) = 2 * CellW * scale
  BY DEF Advance
<1> QED
  BY <1>3, <1>4, <1>5

(* A pass leaves the loop in such a state.                                 *)
LEMMA PassFits ==
  ASSUME NEW y, NEW s, NEW scale, NEW bounded, Roomy(y, s, scale, bounded),
         NEW now \in Passing(y, s, scale, bounded), ~Exhausted(s, now.i)
  PROVE  Pass(now, 0, y, s, scale, bounded) \in Passing(y, s, scale, bounded)
<1> DEFINE w == 2 * CellW * scale
           h == CellH * scale
           a == Advance(s[now.i], scale)
           moved == now.x_offset + a
           over == moved + w > ScreenW
           below == now.y_offset + h
           place == [i |-> now.i, x |-> 0 + now.x_offset, y |-> y + now.y_offset]
           next == Pass(now, 0, y, s, scale, bounded)
           spots == Spots(s, scale, bounded)
<1>1. y \in Nat /\ bounded \in BOOLEAN /\ w <= ScreenW /\ (bounded => y + h <= ScreenH)
      /\ Len(s) \in Nat /\ scale \in Nat \ {0} /\ ScreenW \in Nat /\ ScreenH \in Nat
  BY ScreenAssumption, LenProperties DEF Roomy
<1>2. w \in Nat /\ h \in Nat /\ a \in Nat
  BY <1>1, CellSizes
<1>3. now.i \in 1 .. Len(s)
  BY <1>1 DEF Exhausted, Passing
<1>4. now.x_offset \in Nat /\ now.y_offset \in Nat /\ now.places \in Seq(spots)
      /\ now.x_offset + w <= ScreenW /\ (bounded => y + now.y_offset + h <= ScreenH)
  BY <1>1, <1>3 DEF Passing
<1>5. place \in spots
  <2>1. \A p \in [i : 1 .. Len(s), x : Nat, y : Nat] :
          (p.x + w <= ScreenW /\ (bounded => p.y + h <= ScreenH)) => p \in spots
    BY DEF Spots
  <2>2. 0 + now.x_offset = now.x_offset /\ y + now.y_offset \in Nat
    BY <1>1, <1>4
  <2>3. place \in [i : 1 .. Len(s), x : Nat, y : Nat]
    BY <2>2, <1>3, <1>4
  <2>4. place.x = now.x_offset /\ place.y = y + now.y_offset
    BY <2>2
  <2> HIDE DEF place, w, h, spots
  <2>5. place.x + w <= ScreenW /\ (bounded => place.y + h <= ScreenH)
    BY <2>4, <1>4
  <2> QED
    BY <2>1, <2>3, <2>5
<1>6. Append(now.places, place) \in Seq(spots)
  BY <1>4, <1>5
<1>7. next = [i |-> IF over /\ bounded /\ BottomReached(y, below, scale) THEN Len(s) + 1
                    ELSE IF IsWide(s[now.i]) THEN now.i + 2 ELSE now.i + 1,
              x_offset |-> IF over THEN 0 ELSE moved,
              y_offset |-> IF over THEN below ELSE now.y_offset,
              places |-> Append(now.places, place)]
  BY DEF Pass
<1>8. BottomReached(y, below, scale) <=> y + below + h > ScreenH
  BY DEF BottomReached
<1>9. /\ next.i = IF over /\ bounded /\ BottomReached(y, below, scale) THEN Len(s) + 1
                  ELSE IF IsWide(s[now.i]) THEN now.i + 2 ELSE now.i + 1
      /\ next.x_offset = IF over THEN 0 ELSE moved
      /\ next.y_offset = IF over THEN below ELSE now.y_offset
      /\ next.places = Append(now.places, place)
      /\ next = [i |-> next.i, x_offset |-> next.x_offset, y_offset |-> next.y_offset, places |-> next.places]
  BY <1>7
<1> HIDE DEF next, place, w, h, a, spots
<1>10. next.x_offset \in Nat /\ next.y_offset \in Nat /\ next.x_offset + w <= ScreenW
  <2>1. over => next.x_offset = 0 /\ next.y_offset = below
    BY <1>9
  <2>2. ~over => next.x_offset = moved /\ next.y_offset = now.y_offset
    BY <1>9
  <2>3. below \in Nat /\ moved \in Nat /\ (~over => moved + w <= ScreenW)
    <3>1. now.x_offset \in Nat /\ now.y_offset \in Nat /\ ScreenW \in Nat
      BY <1>1, <1>4
    <3>2. below \in Nat /\ moved \in Nat
      BY <3>1, <1>2
    <3> HIDE DEF moved, below
    <3>3. ~(moved + w > ScreenW) => moved + w <= ScreenW
      BY <3>1, <3>2, <1>2
    <3> QED
      BY <3>2, <3>3
  <2> HIDE DEF over, moved, below
  <2> QED
    BY <1>1, <1>2, <1>4, <2>1, <2>2, <2>3
<1>11. next.i \in Nat \ {0}
  <2>1. next.i \in {Len(s) + 1, now.i + 2, now.i + 1}
    BY <1>9
  <2> QED
    BY <1>1, <1>3, <2>1
<1>12. (bounded /\ next.i <= Len(s)) => y + next.y_offset + h <= ScreenH
  <2> SUFFICES ASSUME bounded, next.i <= Len(s)
               PROVE  y + next.y_offset + h <= ScreenH
    OBVIOUS
  <2>1. CASE over /\ BottomReached(y, below, scale)
    <3>1. next.i = Len(s) + 1
      BY <1>9, <2>1
    <3> QED
      BY <3>1, <1>1
  <2>2. CASE over /\ ~BottomReached(y, below, scale)
    <3>1. next.y_offset = below /\ ~(y + below + h > ScreenH)
      BY <1>8, <1>9, <2>2
    <3> QED
      BY <3>1, <1>1, <1>2, <1>4
  <2>3. CASE ~over
    <3>1. next.y_offset = now.y_offset
      BY <1>9, <2>3
    <3> QED
      BY <3>1, <1>4
  <2> QED
    BY <2>1, <2>2, <2>3
<1>13. next \in [i : Nat \ {0}, x_offset : Nat, y_offset : Nat, places : Seq(spots)]
  BY <1>6, <1>9, <1>10, <1>11
<1>14. next \in Passing(y, s, scale, bounded)
  BY <1>10, <1>12, <1>13 DEF Passing, spots, w, h
<1> QED
  BY <1>14 DEF next

(* So every character is placed where there is room for a wide one.        *)
LEMMA PlacesFit ==
  ASSUME NEW y, NEW s, NEW scale, NEW bounded, Roomy(y, s, scale, bounded)
  PROVE  Places(0, y, s, scale, bounded) \in Seq(Spots(s, scale, bounded))
<1> DEFINE S == Passing(y, s, scale, bounded)
           b == [i |-> 1, x_offset |-> 0, y_offset |-> 0, places |-> <<>>]
           Next(now) == IF Exhausted(s, now.i) THEN now ELSE Pass(now, 0, y, s, scale, bounded)
           step == [now \in S |-> Next(now)]
           Rule(g) == g = [k \in Nat |-> IF k = 0 THEN b ELSE Next(g[k - 1])]
           pass == CHOOSE g : Rule(g)
<1>1. Places(0, y, s, scale, bounded) = pass[Len(s)].places
  BY DEF Places
<1>2. Len(s) \in Nat
  BY LenProperties DEF Roomy
<1>3. b \in S
  <2>1. <<>> \in Seq(Spots(s, scale, bounded))
    OBVIOUS
  <2>2. scale \in Nat \ {0} /\ y \in Nat
    BY DEF Roomy
  <2>3. 2 * CellW * scale \in Nat /\ CellH * scale \in Nat
    BY <2>2, CellSizes
  <2> QED
    BY <2>1, <2>2, <2>3, <1>2 DEF Roomy, Passing
<1>4. \A now \in S : Next(now) \in S
  BY PassFits
<1> HIDE DEF S, b, Next
<1>5. step \in [S -> S]
  BY <1>4
<1>6. PICK f : Loops(f, S, b, step)
  <2> HIDE DEF step
  <2> QED
    BY <1>3, <1>5, IterationExists
<1>7. f \in [Nat -> S] /\ f[0] = b /\ \A k \in Nat : f[k] \in S /\ f[k + 1] = Next(f[k])
  BY <1>6 DEF Loops
<1>8. Rule(f)
  <2>1. ASSUME NEW k \in Nat, k # 0
        PROVE  f[k] = Next(f[k - 1])
    <3>1. k - 1 \in Nat /\ k - 1 + 1 = k
      BY <2>1
    <3> QED
      BY <3>1, <1>7
  <2>2. f = [k \in Nat |-> f[k]]
    BY <1>7
  <2> QED
    BY <2>1, <2>2, <1>7
<1>9. Rule(pass)
  <2> HIDE DEF Rule
  <2> QED
    BY <1>8
<1> HIDE DEF pass, step
<1>10. pass[0] = b /\ \A k \in Nat : pass[k + 1] = Next(pass[k])
  <2>1. \A k \in Nat : pass[k] = IF k = 0 THEN b ELSE Next(pass[k - 1])
    BY <1>9
  <2>2. ASSUME NEW k \in Nat
        PROVE  pass[k + 1] = Next(pass[k])
    <3>1. k + 1 \in Nat /\ k + 1 # 0 /\ k + 1 - 1 = k
      OBVIOUS
    <3> QED
      BY <3>1, <2>1
  <2> QED
    BY <2>1, <2>2
<1> HIDE DEF Rule
<1>11. \A k \in Nat : pass[k] \in S
  <2> DEFINE P == {k \in Nat : pass[k] \in S}
  <2>1. 0 \in P
    BY <1>3, <1>10
  <2>2. \A k \in Nat : k \in P => k + 1 \in P
    BY <1>4, <1>10
  <2> HIDE DEF P
  <2>3. \A k \in Nat : k \in P
    BY <2>1, <2>2, AllNumbers
  <2> QED
    BY <2>3 DEF P
<1>12. pass[Len(s)] \in S
  BY <1>2, <1>11
<1> QED
  BY <1>1, <1>12 DEF S, Passing

(* A point of a frame that is put somewhere.                               *)
LEMMA Placed ==
  ASSUME NEW x \in Nat, NEW y \in Nat, NEW w \in Nat, NEW h \in Nat, NEW p \in Frame(w, h)
  PROVE  /\ At(x, y, p).x \in Nat /\ At(x, y, p).x < x + w
         /\ At(x, y, p).y \in Nat /\ At(x, y, p).y < y + h
<1>1. p.x \in Nat /\ p.y \in Nat /\ p.x < w /\ p.y < h
  BY DEF Frame
<1>2. At(x, y, p).x = x + p.x /\ At(x, y, p).y = y + p.y
  BY DEF At
<1> QED
  BY <1>1, <1>2

(* The mixed string of ips200_show_chinese_string.                         *)
LEMMA MixedInside ==
  ASSUME NEW y, NEW s, Roomy(y, s, 1, FALSE)
  PROVE  \A q \in Reached(ShowChineseString(0, y, s)) : q.x < ScreenW
<1> DEFINE places == Places(0, y, s, 1, FALSE)
           Spot(k) == IF IsWide(s[places[k].i])
                        THEN ShowChineseChar(places[k].x, places[k].y, s[places[k].i], s[places[k].i + 1])
                        ELSE ShowChar(places[k].x, places[k].y, s[places[k].i])
           t == ShowChineseString(0, y, s)
<1>1. places \in Seq(Spots(s, 1, FALSE))
  BY PlacesFit
<1>2. t = [k \in 1 .. Len(places) |-> Spot(k)]
  BY DEF ShowChineseString
<1>3. Len(t) = Len(places) /\ \A k \in 1 .. Len(places) : t[k] = Spot(k)
  <2> HIDE DEF places, t
  <2>1. Len(places) \in Nat
    BY <1>1
  <2> HIDE DEF Spot
  <2> QED
    BY <1>2, <2>1
<1> HIDE DEF places, t
<1> SUFFICES ASSUME NEW q \in Reached(t)
             PROVE  q.x < ScreenW
  BY DEF t
<1>4. PICK k \in 1 .. Len(places) : q \in Spot(k).pen \cup Spot(k).paper
  <2> HIDE DEF Spot
  <2> QED
    BY <1>3 DEF Reached
<1>5. places[k] \in Spots(s, 1, FALSE)
  <2> DEFINE spots == Spots(s, 1, FALSE)
  <2>1. places \in Seq(spots)
    BY <1>1
  <2> HIDE DEF Spot, spots
  <2>2. places[k] \in spots
    BY <2>1
  <2> QED
    BY <2>2 DEF spots
<1>6. CellW \in Nat /\ CellH \in Nat /\ 2 * CellW \in Nat /\ ScreenW \in Nat
  BY ScreenAssumption
<1>7. places[k].x \in Nat /\ places[k].y \in Nat /\ places[k].x + 2 * CellW <= ScreenW
  <2>1. 2 * CellW * 1 = 2 * CellW
    BY <1>6
  <2> QED
    BY <1>5, <2>1 DEF Spots
<1>8. CASE IsWide(s[places[k].i])
  <2>1. Spot(k) = Stamp(places[k].x, places[k].y, WideCell, Glyph(s[places[k].i], s[places[k].i + 1]))
    BY <1>8 DEF ShowChineseChar
  <2> HIDE DEF Spot
  <2>2. q \in {At(places[k].x, places[k].y, p) : p \in WideCell}
    BY <1>4, <2>1, StampTouches
  <2>3. PICK p \in Frame(2 * CellW, CellH) : q = At(places[k].x, places[k].y, p)
    BY <2>2 DEF WideCell
  <2>4. q.x \in Nat /\ q.x < places[k].x + 2 * CellW
    BY <1>6, <1>7, <2>3, Placed
  <2> QED
    BY <1>6, <1>7, <2>4
<1>9. CASE ~IsWide(s[places[k].i])
  <2>1. Spot(k) = Stamp(places[k].x, places[k].y, CharCell, AsciiFont[s[places[k].i]])
    BY <1>9 DEF ShowChar
  <2> HIDE DEF Spot
  <2>2. q \in {At(places[k].x, places[k].y, p) : p \in CharCell}
    BY <1>4, <2>1, StampTouches
  <2>3. PICK p \in Frame(CellW, CellH) : q = At(places[k].x, places[k].y, p)
    BY <2>2 DEF CharCell
  <2>4. q.x \in Nat /\ q.x < places[k].x + CellW
    BY <1>6, <1>7, <2>3, Placed
  <2> QED
    BY <1>6, <1>7, <2>4
<1> QED
  BY <1>8, <1>9

(* The mixed string of ips200_show_chinese_string_scaled.                  *)
LEMMA ScaledInside ==
  ASSUME NEW y, NEW s, NEW scale, Roomy(y, s, scale, TRUE)
  PROVE  \A q \in Reached(ShowChineseStringScaled(0, y, s, scale)) : OnScreen(q)
<1> DEFINE places == Places(0, y, s, scale, TRUE)
           Spot(k) == IF IsWide(s[places[k].i])
                        THEN ShowChineseCharScaled(places[k].x, places[k].y,
                                                   s[places[k].i], s[places[k].i + 1], scale)
                        ELSE ShowCharScaled(places[k].x, places[k].y, s[places[k].i], scale)
           t == ShowChineseStringScaled(0, y, s, scale)
<1>1. places \in Seq(Spots(s, scale, TRUE))
  BY PlacesFit
<1>2. t = [k \in 1 .. Len(places) |-> Spot(k)]
  BY DEF ShowChineseStringScaled
<1>3. Len(t) = Len(places) /\ \A k \in 1 .. Len(places) : t[k] = Spot(k)
  <2> HIDE DEF places, t
  <2>1. Len(places) \in Nat
    BY <1>1
  <2> HIDE DEF Spot
  <2> QED
    BY <1>2, <2>1
<1> HIDE DEF places, t
<1> SUFFICES ASSUME NEW q \in Reached(t)
             PROVE  OnScreen(q)
  BY DEF t
<1>4. PICK k \in 1 .. Len(places) : q \in Spot(k).pen \cup Spot(k).paper
  <2> HIDE DEF Spot
  <2> QED
    BY <1>3 DEF Reached
<1>5. places[k] \in Spots(s, scale, TRUE)
  <2> DEFINE spots == Spots(s, scale, TRUE)
  <2>1. places \in Seq(spots)
    BY <1>1
  <2> HIDE DEF Spot, spots
  <2>2. places[k] \in spots
    BY <2>1
  <2> QED
    BY <2>2 DEF spots
<1>6. /\ ScreenW \in Nat /\ ScreenH \in Nat
      /\ CellW * scale \in Nat /\ CellH * scale \in Nat /\ 2 * CellW * scale \in Nat
      /\ CellW * scale <= 2 * CellW * scale
  BY ScreenAssumption, CellSizes DEF Roomy
<1>7. /\ places[k].x \in Nat /\ places[k].y \in Nat
      /\ places[k].x + 2 * CellW * scale <= ScreenW /\ places[k].y + CellH * scale <= ScreenH
  BY <1>5 DEF Spots
(* Only the points of the enlarged frame are drawn.                        *)
<1>8. \A x, z, frame, font : /\ Enlarged(x, z, frame, font, scale).pen \subseteq {At(x, z, p) : p \in frame}
                             /\ Enlarged(x, z, frame, font, scale).paper = {}
  BY DEF Enlarged
<1>9. \E w \in {CellW * scale, 2 * CellW * scale} :
        q \in {At(places[k].x, places[k].y, p) : p \in Frame(w, CellH * scale)}
  <2>1. CASE IsWide(s[places[k].i])
    <3>1. Spot(k) = Enlarged(places[k].x, places[k].y, Frame(2 * CellW * scale, CellH * scale),
                             Glyph(s[places[k].i], s[places[k].i + 1]), scale)
      BY <2>1 DEF ShowChineseCharScaled
    <3> HIDE DEF Spot
    <3>2. q \in {At(places[k].x, places[k].y, p) : p \in Frame(2 * CellW * scale, CellH * scale)}
      BY <1>4, <1>8, <3>1
    <3> QED
      BY <3>2
  <2>2. CASE ~IsWide(s[places[k].i])
    <3>1. Spot(k) = Enlarged(places[k].x, places[k].y, Frame(CellW * scale, CellH * scale),
                             AsciiFont[s[places[k].i]], scale)
      BY <2>2 DEF ShowCharScaled
    <3> HIDE DEF Spot
    <3>2. q \in {At(places[k].x, places[k].y, p) : p \in Frame(CellW * scale, CellH * scale)}
      BY <1>4, <1>8, <3>1
    <3> QED
      BY <3>2
  <2> QED
    BY <2>1, <2>2
<1>10. PICK w \in {CellW * scale, 2 * CellW * scale} :
         q \in {At(places[k].x, places[k].y, p) : p \in Frame(w, CellH * scale)}
  BY <1>9
<1>11. w \in Nat /\ w <= 2 * CellW * scale
  BY <1>6, <1>10
<1>12. PICK p \in Frame(w, CellH * scale) : q = At(places[k].x, places[k].y, p)
  BY <1>10
<1>13. q.x \in Nat /\ q.x < places[k].x + w /\ q.y \in Nat /\ q.y < places[k].y + CellH * scale
  BY <1>6, <1>7, <1>12, <1>11, Placed
<1> HIDE DEF Spot
<1>14. q.x < ScreenW /\ q.y < ScreenH
  <2> DEFINE u == 2 * CellW * scale
             v == CellH * scale
  <2>1. u \in Nat /\ v \in Nat /\ w <= u /\ places[k].x + u <= ScreenW /\ places[k].y + v <= ScreenH
        /\ q.y < places[k].y + v
    BY <1>6, <1>7, <1>11, <1>13
  <2>2. /\ ScreenW \in Nat /\ ScreenH \in Nat /\ places[k].x \in Nat /\ places[k].y \in Nat
        /\ q.x \in Nat /\ q.x < places[k].x + w /\ q.y \in Nat /\ w \in Nat
    BY <1>6, <1>7, <1>11, <1>13
  <2> HIDE DEF u, v
  <2> DEFINE px == places[k].x
             py == places[k].y
             qx == q.x
             qy == q.y
  <2>3. /\ u \in Nat /\ v \in Nat /\ w <= u /\ px + u <= ScreenW /\ py + v <= ScreenH /\ qy < py + v
        /\ ScreenW \in Nat /\ ScreenH \in Nat /\ px \in Nat /\ py \in Nat
        /\ qx \in Nat /\ qx < px + w /\ qy \in Nat /\ w \in Nat
    BY <2>1, <2>2
  <2> HIDE DEF px, py, qx, qy
  <2>4. qx < ScreenW /\ qy < ScreenH
    BY <2>3
  <2> QED
    BY <2>4 DEF qx, qy
<1> QED
  BY <1>6, <1>13, <1>14 DEF OnScreen

(* The two mixed strings, by the call that shows them.                     *)
LEMMA MixedCall ==
  ASSUME NEW o \in Origins, NEW s \in Strings,
         Draw([op |-> "chinese", x |-> o.x], ShowChineseString(o.x, o.y, s), 1)
  PROVE  StringsWrapInTime'
<1>1. last_call' = [op |-> "chinese", x |-> o.x] /\ drawn' = ShowChineseString(o.x, o.y, s)
  BY DEF Draw
<1>2. o.x = 0 => Roomy(o.y, s, 1, FALSE)
  <2>1. o.y \in Nat /\ s \in Seq(Nat) /\ 1 \in Nat \ {0}
    BY ScreenAssumption
  <2>2. 2 * CellW * 1 <= ScreenW
    BY ScreenAssumption
  <2> QED
    BY <2>1, <2>2 DEF Roomy
<1>3. Touched' = Reached(ShowChineseString(o.x, o.y, s))
  BY <1>1 DEF Touched, Reached
<1>4. o.x = 0 => \A q \in Reached(ShowChineseString(o.x, o.y, s)) : q.x < ScreenW
  <2> SUFFICES ASSUME o.x = 0
               PROVE  \A q \in Reached(ShowChineseString(0, o.y, s)) : q.x < ScreenW
    BY Zenon
  <2> QED
    BY <1>2, MixedInside
<1>5. last_call'.op = "chinese" /\ last_call'.x = o.x
  BY <1>1
<1> QED
  BY <1>3, <1>4, <1>5 DEF StringsWrapInTime

LEMMA ScaledCall ==
  ASSUME NEW o \in Origins, NEW s \in Strings, NEW k \in Scales,
         Draw([op |-> "chinese_scaled", x |-> o.x, y |-> o.y, scale |-> k],
              ShowChineseStringScaled(o.x, o.y, s, k), 1)
  PROVE  StringsWrapInTime'
<1>1. /\ last_call' = [op |-> "chinese_scaled", x |-> o.x, y |-> o.y, scale |-> k]
      /\ drawn' = ShowChineseStringScaled(o.x, o.y, s, k)
  BY DEF Draw
<1>2. (o.x = 0 /\ 2 * CellW * k <= ScreenW /\ o.y + CellH * k <= ScreenH) => Roomy(o.y, s, k, TRUE)
  <2>1. o.y \in Nat /\ s \in Seq(Nat) /\ k \in Nat \ {0}
    BY ScreenAssumption
  <2> QED
    BY <2>1 DEF Roomy
<1>3. Touched' = Reached(ShowChineseStringScaled(o.x, o.y, s, k))
  BY <1>1 DEF Touched, Reached
<1>4. (o.x = 0 /\ 2 * CellW * k <= ScreenW /\ o.y + CellH * k <= ScreenH)
        => \A q \in Reached(ShowChineseStringScaled(o.x, o.y, s, k)) : OnScreen(q)
  <2> SUFFICES ASSUME o.x = 0, 2 * CellW * k <= ScreenW, o.y + CellH * k <= ScreenH
               PROVE  \A q \in Reached(ShowChineseStringScaled(0, o.y, s, k)) : OnScreen(q)
    BY Zenon
  <2> QED
    BY <1>2, ScaledInside
<1>5. last_call'.op = "chinese_scaled" /\ last_call'.x = o.x /\ last_call'.y = o.y /\ last_call'.scale = k
  BY <1>1
<1> QED
  BY <1>3, <1>4, <1>5 DEF StringsWrapInTime

LEMMA InPlaceStep == DrawnInPlace /\ [ScreenNext]_screenVars => DrawnInPlace'
<1> SUFFICES ASSUME DrawnInPlace, [ScreenNext]_screenVars
             PROVE  DrawnInPlace'
  OBVIOUS
(* Each part speaks of one kind of call.                                   *)
<1>1. ASSUME last_call'.op \notin {"chinese", "chinese_scaled"}
      PROVE  StringsWrapInTime'
  BY <1>1 DEF StringsWrapInTime
<1>2. ASSUME last_call'.op # "line"
      PROVE  LineJoinsEnds'
  BY <1>2 DEF LineJoinsEnds
<1>3. CASE ShowNumber \/ ShowFloat \/ ShowGrayImage \/ Clear
  <2>1. last_call'.op \in {"int", "uint", "float", "image", "clear"}
    <3>1. CASE ShowNumber
      BY <3>1 DEF ShowNumber, Draw
    <3>2. CASE ShowFloat
      BY <3>2 DEF ShowFloat, Draw
    <3>3. CASE ShowGrayImage
      BY <3>3 DEF ShowGrayImage, Draw
    <3>4. CASE Clear
      BY <3>4 DEF Clear
    <3> QED
      BY <1>3, <3>1, <3>2, <3>3, <3>4
  <2> QED
    BY <2>1, <1>1, <1>2 DEF DrawnInPlace
<1>4. CASE ShowText
  <2>1. last_call'.op # "line"
    BY <1>4 DEF ShowText, Draw
  <2>2. PICK o \in Origins, s \in Strings :
          \/ last_call'.op \in {"string", "scaled"}
          \/ Draw([op |-> "chinese", x |-> o.x], ShowChineseString(o.x, o.y, s), 1)
          \/ \E k \in Scales : Draw([op |-> "chinese_scaled", x |-> o.x, y |-> o.y, scale |-> k],
                                    ShowChineseStringScaled(o.x, o.y, s, k), 1)
    BY <1>4 DEF ShowText, Draw
  <2>3. StringsWrapInTime'
    BY <2>2, <1>1, MixedCall, ScaledCall
  <2> QED
    BY <2>1, <2>3, <1>2 DEF DrawnInPlace
<1>5. CASE DrawLine
  <2>1. last_call'.op = "line"
    BY <1>5 DEF DrawLine, Draw
  <2>2. \A p \in Frame(ScreenW, ScreenH) : p \in [x : Nat, y : Nat]
    BY ScreenAssumption DEF Frame
  <2>3. PICK from \in Frame(ScreenW, ScreenH), to \in Frame(ScreenW, ScreenH) :
          \E short \in SUBSET MayFallShort(from, to) :
            LET points == LinePoints(from, to, short)
            IN  Draw([op |-> "line", from |-> from, to |-> to],
                     [i \in 1 .. Len(points) |-> [pen |-> {points[i]}, paper |-> {}]], MaxCalls)
    BY <1>5 DEF DrawLine
  <2>4. LineJoinsEnds'
    BY <2>2, <2>3, LineCall
  <2> QED
    BY <2>1, <2>4, <1>1 DEF DrawnInPlace
<1>6. CASE UNCHANGED screenVars
  <2>1. drawn' = drawn /\ last_call' = last_call
    BY <1>6 DEF screenVars
  <2>2. StringsWrapInTime => StringsWrapInTime'
    BY <2>1 DEF StringsWrapInTime, Touched
  <2>3. LineJoinsEnds => LineJoinsEnds'
    BY <2>1 DEF LineJoinsEnds, Touched
  <2> QED
    BY <2>2, <2>3 DEF DrawnInPlace
<1> QED
  BY <1>3, <1>4, <1>5, <1>6 DEF ScreenNext

(* A mixed string that starts at the left edge stays on its rows, whatever *)
(* its characters, and the scaled one on the screen; a line joins its ends *)
(* without a gap (ips200_show_chinese_string, its scaled form and          *)
(* ips200_draw_line), for every screen and every string.                   *)
THEOREM DrawnWhereAsked == ScreenSpec => []DrawnInPlace
<1>1. ScreenInit => DrawnInPlace
  BY DEF ScreenInit, DrawnInPlace, StringsWrapInTime, LineJoinsEnds
<1>2. DrawnInPlace /\ [ScreenNext]_screenVars => DrawnInPlace'
  BY InPlaceStep
<1> QED
  BY <1>1, <1>2, PTL DEF ScreenSpec

-----------------------------------------------------------------------------
(* Characters, and the numbers they spell.                                 *)

(* The value of a character is a number, and is that of the digit which    *)
(* was written.                                                            *)
LEMMA CharacterFacts ==
  /\ \A c : HexValue(c) \in Int
  /\ \A d \in 0 .. 15 : HexValue(HexCharacter(d)) = d /\ HexCharacter(d) \in Int
                        /\ HexCharacter(d) # Junk /\ HexCharacter(d) \notin {Minus, Plus, Point, LetterX}
  /\ \A d \in 0 .. 9 : HexCharacter(d) = LetterZero + d /\ IsDigit(HexCharacter(d))
  /\ \A c \in Int : IsDigit(c) => HexValue(c) \in 0 .. 9
<1>1. \A c : HexValue(c) \in Int
  <2> TAKE c
  <2>1. CASE c \in 97 .. 102
    BY <2>1 DEF HexValue
  <2>2. CASE c \notin 97 .. 102 /\ c \in 65 .. 70
    BY <2>2 DEF HexValue
  <2>3. CASE c \notin 97 .. 102 /\ c \notin 65 .. 70
    BY <2>3 DEF HexValue, IsDigit, LetterZero
  <2> QED
    BY <2>1, <2>2, <2>3
<1>2. \A d \in 0 .. 15 : HexValue(HexCharacter(d)) = d /\ HexCharacter(d) \in Int
                        /\ HexCharacter(d) # Junk /\ HexCharacter(d) \notin {Minus, Plus, Point, LetterX}
  BY DEF HexValue, HexCharacter, IsDigit, LetterZero, Junk, Minus, Plus, Point, LetterX
<1>3. \A d \in 0 .. 9 : HexCharacter(d) = LetterZero + d /\ IsDigit(HexCharacter(d))
  BY DEF HexCharacter, IsDigit, LetterZero
<1>4. \A c \in Int : IsDigit(c) => HexValue(c) \in 0 .. 9
  BY DEF HexValue, IsDigit, LetterZero
<1> QED
  BY <1>1, <1>2, <1>3, <1>4

(* The number that is read, character by character.                        *)
Reading(temp, s, i, base) ==
  /\ temp \in [Nat -> Int] /\ temp[0] = 0
  /\ \A j \in Nat : temp[j + 1] = temp[j] * base + HexValue(s[i + j])

LEMMA AccumulatedRuns ==
  ASSUME NEW s, NEW i \in Int, NEW base \in Int
  PROVE  \E temp : Reading(temp, s, i, base) /\ \A k \in Nat : Accumulated(s, i, k, base) = temp[k]
<1> DEFINE S == [at : Nat, temp : Int]
           step == [p \in S |-> [at |-> p.at + 1, temp |-> p.temp * base + HexValue(s[i + p.at])]]
           begin == [at |-> 0, temp |-> 0]
           Rule(g) == g = [j \in Nat |-> IF j = 0 THEN 0 ELSE g[j - 1] * base + HexValue(s[i + j - 1])]
<1>1. begin \in S /\ step \in [S -> S]
  <2>1. \A x \in Int : x * base \in Int
    OBVIOUS
  <2>2. ASSUME NEW p \in S
        PROVE  [at |-> p.at + 1, temp |-> p.temp * base + HexValue(s[i + p.at])] \in S
    BY <2>1, CharacterFacts
  <2> QED
    BY <2>2
<1>2. PICK f : Loops(f, S, begin, step)
  <2> HIDE DEF S, begin, step
  <2> QED
    BY <1>1, IterationExists
<1>3. f[0].at = 0 /\ f[0].temp = 0 /\ \A k \in Nat : f[k].at \in Nat /\ f[k].temp \in Int
  BY <1>2 DEF Loops
<1>13. ASSUME NEW k \in Nat
       PROVE  /\ f[k + 1].at = f[k].at + 1
              /\ f[k + 1].temp = f[k].temp * base + HexValue(s[i + f[k].at])
  <2>1. f[k] \in S /\ f[k + 1] = step[f[k]]
    BY <1>2 DEF Loops
  <2>2. step[f[k]] = [at |-> f[k].at + 1, temp |-> f[k].temp * base + HexValue(s[i + f[k].at])]
    BY <2>1
  <2> QED
    BY <2>1, <2>2
<1> HIDE DEF S, begin, step
<1>4. \A k \in Nat : f[k].at = k
  <2> DEFINE P == {k \in Nat : f[k].at = k}
  <2>1. 0 \in P
    BY <1>3
  <2>2. ASSUME NEW k \in Nat, k \in P
        PROVE  k + 1 \in P
    BY <2>2, <1>3, <1>13
  <2> HIDE DEF P
  <2>3. \A k \in Nat : k \in P
    BY <2>1, <2>2, AllNumbers
  <2> QED
    BY <2>3 DEF P
<1> DEFINE h == [k \in Nat |-> f[k].temp]
<1>5. h \in [Nat -> Int] /\ h[0] = 0
  BY <1>3
<1>6. \A k \in Nat : h[k + 1] = h[k] * base + HexValue(s[i + k])
  <2> TAKE k \in Nat
  <2>1. h[k + 1] = f[k + 1].temp /\ h[k] = f[k].temp /\ f[k].at = k
    BY <1>4
  <2> HIDE DEF h
  <2> QED
    BY <2>1, <1>13
<1> HIDE DEF h
<1>7. Rule(h)
  <2>1. ASSUME NEW k \in Nat, k # 0
        PROVE  h[k] = h[k - 1] * base + HexValue(s[i + k - 1])
    <3>1. k - 1 \in Nat /\ k - 1 + 1 = k /\ i + (k - 1) = i + k - 1
      BY <2>1
    <3>2. h[k - 1 + 1] = h[k - 1] * base + HexValue(s[i + (k - 1)])
      BY <3>1, <1>6
    <3> QED
      BY <3>1, <3>2
  <2>2. h = [k \in Nat |-> h[k]]
    BY <1>5
  <2> QED
    BY <2>1, <2>2, <1>5
<1> DEFINE temp == CHOOSE g : Rule(g)
<1>8. Rule(temp)
  <2> HIDE DEF Rule
  <2> QED
    BY <1>7
<1>9. \A k \in Nat : Accumulated(s, i, k, base) = temp[k]
  BY DEF Accumulated
<1> HIDE DEF temp
<1>10. temp[0] = 0 /\ \A j \in Nat : temp[j + 1] = temp[j] * base + HexValue(s[i + j])
  <2>1. \A j \in Nat : temp[j] = IF j = 0 THEN 0 ELSE temp[j - 1] * base + HexValue(s[i + j - 1])
    BY <1>8
  <2>2. ASSUME NEW j \in Nat
        PROVE  temp[j + 1] = temp[j] * base + HexValue(s[i + j])
    <3>1. j + 1 \in Nat /\ j + 1 # 0 /\ j + 1 - 1 = j /\ i + (j + 1) - 1 = i + j
      OBVIOUS
    <3>2. temp[j + 1] = temp[j + 1 - 1] * base + HexValue(s[i + (j + 1) - 1])
      BY <3>1, <2>1
    <3> QED
      BY <3>1, <3>2
  <2> QED
    BY <2>1, <2>2
<1>11. \A j \in Nat : temp[j] \in Int
  <2> DEFINE P == {j \in Nat : temp[j] \in Int}
  <2>1. 0 \in P
    BY <1>10
  <2>2. ASSUME NEW j \in Nat, j \in P
        PROVE  j + 1 \in P
    <3>1. \A x \in Int, y \in Int : x * base + y \in Int
      OBVIOUS
    <3>2. temp[j] \in Int /\ HexValue(s[i + j]) \in Int
      BY <2>2, CharacterFacts
    <3> QED
      BY <3>1, <3>2, <1>10
  <2> HIDE DEF P
  <2>3. \A j \in Nat : j \in P
    BY <2>1, <2>2, AllNumbers
  <2> QED
    BY <2>3 DEF P
<1>12. temp = [j \in Nat |-> temp[j]]
  BY <1>8
<1> HIDE DEF Rule
<1> QED
  BY <1>9, <1>10, <1>11, <1>12 DEF Reading

(* k characters from i on spell the numbers c: each is the digit that      *)
(* makes one number of the one before, and the last number is c[0].        *)
Spells(s, i, k, base, c) ==
  /\ k \in Nat /\ c[k] = 0
  /\ \A j \in 0 .. k : c[j] \in Nat
  /\ \A j \in 0 .. k - 1 : \E d \in 0 .. base - 1 : c[j] = base * c[j + 1] + d /\ s[i + k - 1 - j] = HexCharacter(d)

LEMMA SpelledRead ==
  ASSUME NEW s, NEW i \in Int, NEW k, NEW base \in 2 .. 16, NEW c, Spells(s, i, k, base, c)
  PROVE  Accumulated(s, i, k, base) = c[0]
<1>1. PICK temp : Reading(temp, s, i, base) /\ \A m \in Nat : Accumulated(s, i, m, base) = temp[m]
  BY AccumulatedRuns
<1>2. k \in Nat
  BY DEF Spells
<1> DEFINE P == {m \in Nat : m <= k => temp[m] = c[k - m]}
<1>3. 0 \in P
  BY <1>1, <1>2 DEF Spells, Reading
<1>4. ASSUME NEW m \in Nat, m \in P
      PROVE  m + 1 \in P
  <2>1. CASE m + 1 <= k
    <3> DEFINE j == k - (m + 1)
    <3>1. j \in 0 .. k - 1 /\ j + 1 = k - m /\ i + k - 1 - j = i + m /\ j + 1 \in 0 .. k
      BY <2>1, <1>2
    <3> HIDE DEF j
    <3>2. PICK d \in 0 .. base - 1 : c[j] = base * c[j + 1] + d /\ s[i + k - 1 - j] = HexCharacter(d)
      BY <3>1 DEF Spells
    <3>3. HexValue(s[i + m]) = d
      BY <3>1, <3>2, CharacterFacts
    <3>4. temp[m] = c[j + 1] /\ c[j + 1] \in Nat
      BY <1>4, <2>1, <3>1 DEF Spells
    <3>5. temp[m + 1] = c[j + 1] * base + d
      BY <3>3, <3>4, <1>1 DEF Reading
    <3>6. \A x \in Nat : x * base = base * x
      OBVIOUS
    <3>7. temp[m + 1] = c[j]
      BY <3>2, <3>4, <3>5, <3>6
    <3> QED
      BY <3>7 DEF j
  <2>2. CASE ~(m + 1 <= k)
    BY <2>2
  <2> QED
    BY <2>1, <2>2
<1> HIDE DEF P
<1>5. \A m \in Nat : m \in P
  BY <1>3, <1>4, AllNumbers
<1>6. temp[k] = c[k - k] /\ k - k = 0
  BY <1>5, <1>2 DEF P
<1> QED
  BY <1>1, <1>2, <1>6

LEMMA SpelledCharacters ==
  ASSUME NEW s, NEW i \in Int, NEW k, NEW base \in 2 .. 16, NEW c, Spells(s, i, k, base, c)
  PROVE  \A j \in i .. i + k - 1 : \E d \in 0 .. base - 1 : s[j] = HexCharacter(d)
<1>1. k \in Nat
  BY DEF Spells
<1> TAKE j \in i .. i + k - 1
<1>2. i + k - 1 - j \in 0 .. k - 1 /\ i + k - 1 - (i + k - 1 - j) = j
  BY <1>1
<1>3. PICK d \in 0 .. base - 1 : s[i + k - 1 - (i + k - 1 - j)] = HexCharacter(d)
  BY <1>2 DEF Spells
<1> QED
  BY <1>2, <1>3

(* The length of a run of digits.                                          *)
LEMMA DigitsFromIs ==
  ASSUME NEW s, Len(s) \in Nat, NEW i \in Int, NEW k \in Nat, i + k <= Len(s) + 1,
         \A j \in i .. i + k - 1 : IsDigit(s[j]),
         i + k <= Len(s) => ~IsDigit(s[i + k])
  PROVE  DigitsFrom(s, i) = k
<1> DEFINE IsRun(m) == /\ \A j \in i .. i + m - 1 : IsDigit(s[j])
                       /\ i + m <= Len(s) => ~IsDigit(s[i + m])
<1>1. DigitsFrom(s, i) = CHOOSE m \in 0 .. Len(s) + 1 - i : IsRun(m)
  BY DEF DigitsFrom
<1>2. k \in 0 .. Len(s) + 1 - i /\ IsRun(k)
  OBVIOUS
<1>3. ASSUME NEW m \in 0 .. Len(s) + 1 - i, IsRun(m)
      PROVE  m = k
  <2>1. CASE m < k
    <3>1. i + m <= Len(s) /\ i + m \in i .. i + k - 1
      BY <2>1
    <3> QED
      BY <3>1, <1>3
  <2>2. CASE k < m
    <3>1. i + k <= Len(s) /\ i + k \in i .. i + m - 1
      BY <2>2
    <3> QED
      BY <3>1, <1>3
  <2> QED
    BY <2>1, <2>2
<1> HIDE DEF IsRun
<1> QED
  BY <1>1, <1>2, <1>3

LEMMA DigitsFromFacts ==
  ASSUME NEW s \in Seq(Int), NEW i \in 1 .. Len(s) + 1
  PROVE  /\ DigitsFrom(s, i) \in 0 .. Len(s) + 1 - i
         /\ \A j \in i .. i + DigitsFrom(s, i) - 1 : IsDigit(s[j])
<1> DEFINE T == {k \in Nat : i + k <= Len(s) => ~IsDigit(s[i + k])}
<1>1. Len(s) \in Nat
  OBVIOUS
<1>2. Len(s) + 1 - i \in T
  BY <1>1
<1>3. T \subseteq Nat /\ T # {}
  BY <1>2
<1>4. PICK k \in T : \A m \in T : k <= m
  <2> HIDE DEF T
  <2> QED
    BY <1>3, LeastOne
<1>5. k \in Nat /\ k <= Len(s) + 1 - i
  BY <1>2, <1>4
<1>6. ASSUME NEW j \in i .. i + k - 1
      PROVE  IsDigit(s[j])
  <2>1. j - i \in Nat /\ j - i < k /\ i + (j - i) = j
    BY <1>5
  <2>2. j - i \notin T
    <3> HIDE DEF T
    <3>1. \A m \in T : m \in Nat => ~(m < k)
      BY <1>4, <1>5
    <3> QED
      BY <3>1, <2>1
  <2> QED
    BY <2>1, <2>2
<1>7. DigitsFrom(s, i) = k
  BY <1>1, <1>4, <1>5, <1>6, DigitsFromIs
<1> QED
  BY <1>5, <1>6, <1>7

(* The numeral of n in a base, the text all of the functions write.        *)
NumeralOf(n, base) ==
  LET digits == DigitsOfAny(n, base)
  IN  [i \in 1 .. Len(digits) |-> HexCharacter(digits[Len(digits) + 1 - i])]

LEMMA RemainingNatural ==
  ASSUME NEW n \in Nat, NEW r \in Nat, r >= 2
  PROVE  /\ \A k \in Nat : Remaining(n, r)[k] \in Nat
         /\ \A k, m \in Nat : (k <= m /\ Remaining(n, r)[k] = 0) => Remaining(n, r)[m] = 0
<1> DEFINE rest == Remaining(n, r)
           P == {k \in Nat : rest[k] \in Nat}
<1>1. rest[0] = n /\ \A k \in Nat : rest[k + 1] = Quot(rest[k], r)
  BY RemainingFacts
<1> HIDE DEF rest
<1>2. 0 \in P
  BY <1>1
<1>3. ASSUME NEW k \in Nat, k \in P
      PROVE  k + 1 \in P
  <2>1. rest[k] \in Nat
    BY <1>3
  <2>2. Quot(rest[k], r) \in Nat
    BY <2>1, ShareFacts
  <2> QED
    BY <2>2, <1>1
<1> HIDE DEF P
<1>4. \A k \in Nat : k \in P
  BY <1>2, <1>3, AllNumbers
<1>5. ASSUME NEW k \in Nat, rest[k] = 0
      PROVE  \A m \in Nat : k <= m => rest[m] = 0
  <2> DEFINE Z == {d \in Nat : rest[k + d] = 0}
  <2>1. 0 \in Z
    BY <1>5
  <2>2. ASSUME NEW d \in Nat, d \in Z
        PROVE  d + 1 \in Z
    <3>1. k + d \in Nat /\ k + (d + 1) = k + d + 1 /\ rest[k + d] = 0
      BY <2>2
    <3>2. Quot(0, r) = 0
      BY ShareFacts
    <3> QED
      BY <3>1, <3>2, <1>1
  <2> HIDE DEF Z
  <2>3. \A d \in Nat : d \in Z
    BY <2>1, <2>2, AllNumbers
  <2>4. ASSUME NEW m \in Nat, k <= m
        PROVE  rest[m] = 0
    <3>1. m - k \in Z /\ k + (m - k) = m
      BY <2>3, <2>4
    <3> QED
      BY <3>1 DEF Z
  <2> QED
    BY <2>4
<1>6. \A k \in Nat : rest[k] \in Nat
  BY <1>4 DEF P
<1> QED
  BY <1>5, <1>6 DEF rest

(* The digits of a natural number, the last one first.                     *)
DigitFacts(n, base, k) ==
  /\ k \in Nat \ {0}
  /\ DigitsOfAny(n, base) \in [1 .. k -> 0 .. base - 1]
  /\ Remaining(n, base)[k] = 0
  /\ \A j \in 0 .. k - 1 :
       Remaining(n, base)[j] = base * Remaining(n, base)[j + 1] + DigitsOfAny(n, base)[j + 1]
  /\ \A m \in Nat \ {0} : Remaining(n, base)[m] = 0 => k <= m

LEMMA DigitsOfNatural ==
  ASSUME NEW n \in Nat, NEW base \in Nat, base >= 2
  PROVE  \E k : DigitFacts(n, base, k)
<1> DEFINE rest == Remaining(n, base)
           digits == DigitsOfAny(n, base)
<1>1. rest[0] = n /\ \A k \in Nat : rest[k] \in Nat /\ rest[k + 1] = Quot(rest[k], base)
  BY RemainingFacts, RemainingNatural
<1>2. PICK k \in Nat : /\ RunsOut(n, base, k)
                       /\ DigitsOf(n, base) = [j \in 1 .. k |-> Rem(rest[j - 1], base)]
  <2>1. n \in Int
    OBVIOUS
  <2> QED
    BY <2>1, DigitsAre
<1>3. CASE n = 0
  <2>1. digits = <<0>>
    BY <1>3 DEF DigitsOfAny
  <2>2. rest[1] = Quot(rest[0], base) /\ Quot(0, base) = 0
    <3>1. rest[0 + 1] = Quot(rest[0], base)
      BY <1>1
    <3> HIDE DEF rest
    <3> QED
      BY <3>1, ShareFacts
  <2> HIDE DEF digits, rest
  <2>3. digits \in [1 .. 1 -> 0 .. base - 1]
    BY <2>1
  <2>4. \A j \in 0 .. 1 - 1 : rest[j] = base * rest[j + 1] + digits[j + 1]
    BY <2>1, <2>2, <1>1, <1>3
  <2>5. DigitFacts(n, base, 1)
    BY <2>2, <2>3, <2>4, <1>1, <1>3 DEF DigitFacts, rest, digits
  <2> QED
    BY <2>5
<1>4. CASE n # 0
  <2>1. digits = [j \in 1 .. k |-> Rem(rest[j - 1], base)]
    BY <1>2, <1>4 DEF DigitsOfAny
  <2>2. rest[k] = 0 /\ \A j \in 0 .. k - 1 : rest[j] # 0
    BY <1>2 DEF RunsOut
  <2> HIDE DEF digits, rest
  <2>3. k # 0
    BY <2>2, <1>1, <1>4
  <2>4. ASSUME NEW j \in 0 .. k - 1
        PROVE  digits[j + 1] \in 0 .. base - 1 /\ rest[j] = base * rest[j + 1] + digits[j + 1]
    <3>1. j \in Nat /\ j + 1 \in 1 .. k /\ j + 1 - 1 = j
      OBVIOUS
    <3>2. digits[j + 1] = Rem(rest[j], base)
      BY <2>1, <3>1
    <3>3. rest[j] \in Nat /\ rest[j + 1] = Quot(rest[j], base)
      BY <3>1, <1>1
    <3>4. /\ Rem(rest[j], base) \in 0 .. base - 1
          /\ rest[j] = base * Quot(rest[j], base) + Rem(rest[j], base)
      <4>1. \A m \in Nat : Rem(m, base) \in 0 .. base - 1 /\ m = base * Quot(m, base) + Rem(m, base)
        BY ShareFacts
      <4> QED
        BY <3>3, <4>1
    <3> QED
      BY <3>2, <3>3, <3>4
  <2>5. digits \in [1 .. k -> 0 .. base - 1]
    <3>1. ASSUME NEW j \in 1 .. k
          PROVE  digits[j] \in 0 .. base - 1
      <4>1. j - 1 \in 0 .. k - 1 /\ j - 1 + 1 = j
        OBVIOUS
      <4> QED
        BY <4>1, <2>4
    <3>2. digits = [j \in 1 .. k |-> digits[j]]
      BY <2>1
    <3> QED
      BY <3>1, <3>2
  <2>6. ASSUME NEW m \in Nat \ {0}, rest[m] = 0
        PROVE  k <= m
    <3>1. ~(m \in 0 .. k - 1)
      BY <2>2, <2>6
    <3> QED
      BY <3>1
  <2>7. DigitFacts(n, base, k)
    BY <2>2, <2>3, <2>4, <2>5, <2>6 DEF DigitFacts, rest, digits
  <2> QED
    BY <2>7
<1> QED
  BY <1>3, <1>4

(* A numeral spells its number.                                            *)
LEMMA NumeralFacts ==
  ASSUME NEW n \in Nat, NEW base \in 2 .. 16
  PROVE  LET k == Len(NumeralOf(n, base))
         IN  /\ k \in Nat \ {0}
             /\ NumeralOf(n, base) \in Seq(Int)
             /\ Spells(NumeralOf(n, base), 1, k, base, Remaining(n, base))
             /\ \A m \in Nat \ {0} : Remaining(n, base)[m] = 0 => k <= m
<1> DEFINE rest == Remaining(n, base)
           digits == DigitsOfAny(n, base)
           num == NumeralOf(n, base)
<1>1. PICK k : DigitFacts(n, base, k)
  BY DigitsOfNatural
<1>2. k \in Nat \ {0} /\ digits \in [1 .. k -> 0 .. base - 1] /\ rest[k] = 0
  BY <1>1 DEF DigitFacts
<1>3. Len(digits) = k
  <2> HIDE DEF digits
  <2> QED
    BY <1>2, Sequence
<1>4. num = [i \in 1 .. k |-> HexCharacter(digits[k + 1 - i])]
  BY <1>3 DEF NumeralOf
<1>5. \A j \in 0 .. k : rest[j] \in Nat
  BY <1>2, RemainingNatural
<1>6. \A j \in 0 .. k - 1 : rest[j] = base * rest[j + 1] + digits[j + 1]
  BY <1>1 DEF DigitFacts
<1>7. \A m \in Nat \ {0} : rest[m] = 0 => k <= m
  BY <1>1 DEF DigitFacts
<1> HIDE DEF digits, rest, num
<1>8. num \in [1 .. k -> Int]
  <2>1. ASSUME NEW i \in 1 .. k
        PROVE  HexCharacter(digits[k + 1 - i]) \in Int
    <3>1. k + 1 - i \in 1 .. k
      BY <1>2
    <3>2. digits[k + 1 - i] \in 0 .. base - 1
      BY <3>1, <1>2
    <3>4. digits[k + 1 - i] \in 0 .. 15
      BY <3>2
    <3> QED
      BY <3>4, CharacterFacts
  <2> QED
    BY <2>1, <1>4
<1>9. num \in Seq(Int) /\ Len(num) = k
  BY <1>2, <1>8, Sequence
<1>10. ASSUME NEW j \in 0 .. k - 1
       PROVE  \E d \in 0 .. base - 1 : rest[j] = base * rest[j + 1] + d /\ num[1 + k - 1 - j] = HexCharacter(d)
  <2>1. j + 1 \in 1 .. k /\ 1 + k - 1 - j \in 1 .. k /\ k + 1 - (1 + k - 1 - j) = j + 1
    BY <1>2
  <2>2. digits[j + 1] \in 0 .. base - 1
    BY <2>1, <1>2
  <2>3. num[1 + k - 1 - j] = HexCharacter(digits[j + 1])
    BY <2>1, <1>4
  <2> QED
    BY <2>2, <2>3, <1>6
<1>11. Spells(num, 1, k, base, rest)
  BY <1>2, <1>5, <1>10 DEF Spells
<1> QED
  BY <1>2, <1>7, <1>9, <1>11 DEF num, rest

(* The digits of a negative number are those of its amount, below zero.    *)
LEMMA RemainingNegative ==
  ASSUME NEW n \in Int, NEW r \in Nat, r >= 2
  PROVE  \A k \in Nat : Remaining(-n, r)[k] = -Remaining(n, r)[k]
<1> DEFINE rest == Remaining(n, r)
           other == Remaining(-n, r)
           P == {k \in Nat : other[k] = -rest[k]}
<1>1. rest[0] = n /\ \A k \in Nat : rest[k] \in Int /\ rest[k + 1] = Quot(rest[k], r)
  BY RemainingFacts
<1>2. other[0] = -n /\ \A k \in Nat : other[k + 1] = Quot(other[k], r)
  <2>1. -n \in Int
    OBVIOUS
  <2> QED
    BY <2>1, RemainingFacts
<1> HIDE DEF rest, other
<1>3. 0 \in P
  BY <1>1, <1>2
<1>4. ASSUME NEW k \in Nat, k \in P
      PROVE  k + 1 \in P
  <2>1. \A m \in Int : Quot(-m, r) = -Quot(m, r)
    BY ShareFacts
  <2>2. Quot(-rest[k], r) = -Quot(rest[k], r)
    BY <2>1, <1>1
  <2> QED
    BY <2>2, <1>4, <1>1, <1>2
<1> HIDE DEF P
<1>5. \A k \in Nat : k \in P
  BY <1>3, <1>4, AllNumbers
<1> QED
  BY <1>5 DEF P, rest, other

LEMMA PositiveDigits ==
  ASSUME NEW n \in Int, NEW base \in Nat, base >= 2
  PROVE  Positive(DigitsOfAny(n, base)) = DigitsOfAny(FuncAbs(n), base)
<1>1. CASE n >= 0
  <2>1. n \in Nat /\ FuncAbs(n) = n
    BY <1>1 DEF FuncAbs
  <2>2. PICK k : DigitFacts(n, base, k)
    BY <2>1, DigitsOfNatural
  <2> DEFINE digits == DigitsOfAny(n, base)
  <2>3. k \in Nat /\ digits \in [1 .. k -> 0 .. base - 1]
    BY <2>2 DEF DigitFacts
  <2> HIDE DEF digits
  <2>4. \A i \in 1 .. k : FuncAbs(digits[i]) = digits[i]
    BY <2>3 DEF FuncAbs
  <2>5. Positive(digits) = digits
    BY <2>3, <2>4 DEF Positive
  <2> QED
    BY <2>1, <2>5 DEF digits
<1>2. CASE n < 0
  <2> DEFINE a == -n
  <2>1. a \in Nat /\ FuncAbs(n) = a /\ n = -a /\ a # 0 /\ n # 0 /\ a \in Int /\ FuncAbs(a) = a
    BY <1>2 DEF FuncAbs
  <2> HIDE DEF a
  <2>2. PICK k \in Nat : /\ RunsOut(a, base, k)
                         /\ DigitsOf(a, base) = [j \in 1 .. k |-> Rem(Remaining(a, base)[j - 1], base)]
    BY <2>1, DigitsAre
  <2>3. PICK m \in Nat : /\ RunsOut(n, base, m)
                         /\ DigitsOf(n, base) = [j \in 1 .. m |-> Rem(Remaining(n, base)[j - 1], base)]
    BY DigitsAre
  <2>4. \A j \in Nat : Remaining(n, base)[j] = -Remaining(a, base)[j] /\ Remaining(a, base)[j] \in Int
    BY <2>1, RemainingNegative, RemainingFacts
  <2>5. m = k
    <3>1. ~(m \in 0 .. k - 1)
      BY <2>2, <2>3, <2>4 DEF RunsOut
    <3>2. ~(k \in 0 .. m - 1)
      BY <2>2, <2>3, <2>4 DEF RunsOut
    <3> QED
      BY <3>1, <3>2
  <2>6. ASSUME NEW j \in 1 .. k
        PROVE  FuncAbs(DigitsOf(n, base)[j]) = DigitsOf(a, base)[j]
    <3> DEFINE left == Remaining(a, base)[j - 1]
    <3>1. j - 1 \in Nat
      OBVIOUS
    <3>2. left \in Nat /\ Remaining(n, base)[j - 1] = -left
      BY <3>1, <2>1, <2>4, RemainingNatural
    <3>3. DigitsOf(n, base)[j] = Rem(-left, base) /\ DigitsOf(a, base)[j] = Rem(left, base)
      BY <2>2, <2>3, <2>5, <3>2
    <3> HIDE DEF left
    <3>4. Rem(-left, base) = -Rem(left, base) /\ Rem(left, base) \in 0 .. base - 1
      BY <3>2, ShareFacts
    <3> QED
      BY <3>3, <3>4 DEF FuncAbs
  <2>7. DOMAIN DigitsOf(n, base) = 1 .. k /\ DigitsOf(a, base) = [j \in 1 .. k |-> DigitsOf(a, base)[j]]
    BY <2>2, <2>3, <2>5
  <2>8. Positive(DigitsOf(n, base)) = DigitsOf(a, base)
    BY <2>6, <2>7 DEF Positive
  <2> QED
    BY <2>1, <2>8 DEF DigitsOfAny
<1> QED
  BY <1>1, <1>2

SignOf(n) == IF n < 0 THEN <<Minus>> ELSE <<>>

(* What is written of the digits, with 0 to 9, is the numeral.             *)
LEMMA WrittenNumeral ==
  ASSUME NEW n \in Nat
  PROVE  Written(DigitsOfAny(n, 10)) = NumeralOf(n, 10)
<1> DEFINE digits == DigitsOfAny(n, 10)
<1>1. PICK k : DigitFacts(n, 10, k)
  BY DigitsOfNatural
<1>2. k \in Nat /\ digits \in [1 .. k -> 0 .. 9]
  BY <1>1 DEF DigitFacts
<1>3. NumeralOf(n, 10) = [i \in 1 .. Len(digits) |-> HexCharacter(digits[Len(digits) + 1 - i])]
  BY DEF NumeralOf
<1> HIDE DEF digits
<1>4. Len(digits) = k
  BY <1>2, Sequence
<1>5. ASSUME NEW i \in 1 .. k
      PROVE  HexCharacter(digits[k + 1 - i]) = LetterZero + digits[k + 1 - i]
  <2>1. k + 1 - i \in 1 .. k
    BY <1>2
  <2>2. digits[k + 1 - i] \in 0 .. 9
    BY <2>1, <1>2
  <2> QED
    BY <2>2, CharacterFacts
<1>6. Written(digits) = NumeralOf(n, 10)
  BY <1>3, <1>4, <1>5 DEF Written
<1> QED
  BY <1>6 DEF digits

LEMMA ZeroNumeral == \A base \in 2 .. 16 : NumeralOf(0, base) = <<LetterZero>>
<1> TAKE base \in 2 .. 16
<1>1. DigitsOfAny(0, base) = <<0>>
  BY DEF DigitsOfAny
<1>2. NumeralOf(0, base) = [i \in 1 .. 1 |-> HexCharacter(<<0>>[1 + 1 - i])]
  BY <1>1 DEF NumeralOf
<1>3. \A i \in 1 .. 1 : HexCharacter(<<0>>[1 + 1 - i]) = LetterZero
  <2>1. HexCharacter(0) = LetterZero
    BY DEF HexCharacter, LetterZero
  <2>2. \A i \in 1 .. 1 : <<0>>[1 + 1 - i] = 0
    <3>1. \A i \in 1 .. 1 : 1 + 1 - i = 1
      OBVIOUS
    <3> QED
      BY <3>1
  <2> QED
    BY <2>1, <2>2
<1>4. NumeralOf(0, base) = [i \in 1 .. 1 |-> LetterZero]
  BY <1>2, <1>3
<1> QED
  BY <1>4

(* A number that fits keeps its low bits.                                  *)
LEMMA WrappedFits ==
  ASSUME NEW n \in MinInt .. MaxInt
  PROVE  Wrapped(n) = n
<1>1. Half \in Nat \ {0}
  BY ConversionsAssumption
<1>2. n + Half \in 0 .. 2 * Half - 1 /\ 2 * Half \in Nat /\ n \in Int
  BY <1>1 DEF MinInt, MaxInt
<1>3. \A x \in Nat, m \in Nat : x < m => x % m = x
  OBVIOUS
<1>4. (n + Half) % (2 * Half) = n + Half
  BY <1>2, <1>3
<1> QED
  BY <1>1, <1>2, <1>4 DEF Wrapped

LEMMA UnsignedFits ==
  ASSUME NEW n \in 0 .. MaxUint
  PROVE  n % (2 * Half) = n
<1>1. Half \in Nat \ {0}
  BY ConversionsAssumption
<1>2. n \in Nat /\ 2 * Half \in Nat /\ n < 2 * Half
  BY <1>1 DEF MaxUint
<1>3. \A x \in Nat, m \in Nat : x < m => x % m = x
  OBVIOUS
<1> QED
  BY <1>2, <1>3

LEMMA AmountFits ==
  ASSUME NEW n \in MinInt .. MaxInt, n # MinInt
  PROVE  FuncAbs(n) \in Nat /\ FuncAbs(n) <= MaxInt /\ Wrapped(FuncAbs(n)) = FuncAbs(n)
<1>1. Half \in Nat \ {0}
  BY ConversionsAssumption
<1>2. FuncAbs(n) \in Nat /\ FuncAbs(n) <= MaxInt
  BY <1>1 DEF FuncAbs, MinInt, MaxInt
<1>3. FuncAbs(n) \in MinInt .. MaxInt
  BY <1>1, <1>2 DEF MinInt, MaxInt
<1> QED
  BY <1>2, <1>3, WrappedFits

(* func_int_to_str, func_uint_to_str and func_hex_to_str.                  *)
LEMMA UintText ==
  ASSUME NEW n \in Nat
  PROVE  FuncUintToStr(n) = NumeralOf(n, 10)
<1>1. CASE n = 0
  BY <1>1, ZeroNumeral DEF FuncUintToStr
<1>2. CASE n # 0
  <2>1. DigitsOfAny(n, 10) = DigitsOf(n, 10)
    BY <1>2 DEF DigitsOfAny
  <2> QED
    BY <2>1, <1>2, WrittenNumeral DEF FuncUintToStr
<1> QED
  BY <1>1, <1>2

LEMMA IntText ==
  ASSUME NEW n \in MinInt .. MaxInt, n # MinInt
  PROVE  FuncIntToStr(n) = SignOf(n) \o NumeralOf(FuncAbs(n), 10)
<1>1. FuncAbs(n) \in Nat /\ Wrapped(FuncAbs(n)) = FuncAbs(n) /\ n \in Int
  BY AmountFits, ConversionsAssumption DEF MinInt, MaxInt
<1>2. CASE n = 0
  <2>1. FuncIntToStr(n) = <<LetterZero>> /\ SignOf(n) = <<>> /\ FuncAbs(n) = 0
    BY <1>2 DEF FuncIntToStr, SignOf, FuncAbs
  <2>2. NumeralOf(0, 10) = <<LetterZero>>
    BY ZeroNumeral
  <2>3. <<LetterZero>> \in Seq(Int)
    BY DEF LetterZero
  <2>4. <<>> \o <<LetterZero>> = <<LetterZero>>
    BY <2>3
  <2> QED
    BY <2>1, <2>2, <2>4
<1>3. CASE n # 0
  <2>1. FuncAbs(n) # 0
    BY <1>3 DEF FuncAbs
  <2>2. DigitsOfAny(FuncAbs(n), 10) = DigitsOf(FuncAbs(n), 10)
    BY <2>1 DEF DigitsOfAny
  <2>3. Positive(DigitsOfAny(FuncAbs(n), 10)) = DigitsOfAny(FuncAbs(n), 10)
    <3>1. FuncAbs(n) \in Int /\ FuncAbs(FuncAbs(n)) = FuncAbs(n)
      BY <1>1 DEF FuncAbs
    <3> QED
      BY <3>1, PositiveDigits
  <2>4. Written(DigitsOfAny(FuncAbs(n), 10)) = NumeralOf(FuncAbs(n), 10)
    BY <1>1, WrittenNumeral
  <2> QED
    BY <1>1, <1>3, <2>2, <2>3, <2>4 DEF FuncIntToStr, SignOf
<1> QED
  BY <1>2, <1>3

LEMMA TurnedHex ==
  ASSUME NEW n \in Nat, NEW base \in 2 .. 16
  PROVE  Turned([i \in DOMAIN DigitsOfAny(n, base) |-> HexCharacter(DigitsOfAny(n, base)[i])])
           = NumeralOf(n, base)
<1> DEFINE digits == DigitsOfAny(n, base)
           letters == [i \in DOMAIN digits |-> HexCharacter(digits[i])]
<1>1. PICK k : DigitFacts(n, base, k)
  BY DigitsOfNatural
<1>2. k \in Nat /\ digits \in [1 .. k -> 0 .. base - 1]
  BY <1>1 DEF DigitFacts
<1>3. NumeralOf(n, base) = [i \in 1 .. Len(digits) |-> HexCharacter(digits[Len(digits) + 1 - i])]
  BY DEF NumeralOf
<1> HIDE DEF digits
<1>4. Len(digits) = k /\ DOMAIN digits = 1 .. k
  BY <1>2, Sequence
<1>5. letters \in [1 .. k -> Int]
  <2>1. ASSUME NEW i \in 1 .. k
        PROVE  HexCharacter(digits[i]) \in Int
    <3>1. digits[i] \in 0 .. base - 1
      BY <1>2
    <3>2. digits[i] \in 0 .. 15
      BY <3>1
    <3> QED
      BY <3>2, CharacterFacts
  <2> QED
    BY <2>1, <1>4
<1>6. Len(letters) = k
  <2> HIDE DEF letters
  <2> QED
    BY <1>2, <1>5, Sequence
<1>7. ASSUME NEW i \in 1 .. k
      PROVE  letters[k + 1 - i] = HexCharacter(digits[k + 1 - i])
  <2>1. k + 1 - i \in 1 .. k
    BY <1>2
  <2> QED
    BY <2>1, <1>4
<1> HIDE DEF letters
<1>8. Turned(letters) = NumeralOf(n, base)
  BY <1>3, <1>4, <1>6, <1>7 DEF Turned
<1> QED
  BY <1>8 DEF letters, digits

LEMMA HexText ==
  ASSUME NEW n \in Nat
  PROVE  FuncHexToStr(n) = <<LetterZero, LetterX>> \o NumeralOf(n, 16)
<1>3. 16 \in 2 .. 16
  OBVIOUS
<1>1. CASE n = 0
  <2>1. NumeralOf(0, 16) = <<LetterZero>>
    BY <1>3, ZeroNumeral
  <2> QED
    BY <1>1, <2>1 DEF FuncHexToStr
<1>2. CASE n # 0
  <2>1. DigitsOfAny(n, 16) = DigitsOf(n, 16)
    BY <1>2 DEF DigitsOfAny
  <2>2. Turned([i \in DOMAIN DigitsOfAny(n, 16) |-> HexCharacter(DigitsOfAny(n, 16)[i])]) = NumeralOf(n, 16)
    BY <1>3, TurnedHex
  <2> QED
    BY <2>1, <2>2, <1>2 DEF FuncHexToStr
<1> QED
  BY <1>1, <1>2

(* number_conversion_ascii.                                                *)
LEMMA AsciiText ==
  /\ \A n \in Nat, base \in 2 .. 16 : Turned(NumberConversionAscii(n, FALSE, base)) = NumeralOf(n, base)
  /\ \A n \in MinInt .. MaxInt : n # MinInt =>
       /\ Turned(NumberConversionAscii(n, TRUE, 10)) = NumeralOf(FuncAbs(n), 10)
       /\ NumberConversionAscii(n, TRUE, 10) \in Seq(Int)
       /\ Len(NumberConversionAscii(n, TRUE, 10)) = Len(NumeralOf(FuncAbs(n), 10))
<1>1. ASSUME NEW n \in Nat, NEW base \in 2 .. 16
      PROVE  Turned(NumberConversionAscii(n, FALSE, base)) = NumeralOf(n, base)
  BY TurnedHex DEF NumberConversionAscii
<1>2. ASSUME NEW n \in MinInt .. MaxInt, n # MinInt
      PROVE  /\ Turned(NumberConversionAscii(n, TRUE, 10)) = NumeralOf(FuncAbs(n), 10)
             /\ NumberConversionAscii(n, TRUE, 10) \in Seq(Int)
             /\ Len(NumberConversionAscii(n, TRUE, 10)) = Len(NumeralOf(FuncAbs(n), 10))
  <2> DEFINE a == FuncAbs(n)
             digits == DigitsOfAny(a, 10)
  <2>1. a \in Nat /\ Wrapped(a) = a
    BY <1>2, AmountFits
  <2>2. NumberConversionAscii(n, TRUE, 10) = Characters(digits)
    BY <2>1 DEF NumberConversionAscii
  <2> HIDE DEF a
  <2>3. PICK k : DigitFacts(a, 10, k)
    BY <2>1, DigitsOfNatural
  <2>4. k \in Nat /\ digits \in [1 .. k -> 0 .. 9]
    BY <2>3 DEF DigitFacts
  <2>5. Turned([i \in DOMAIN digits |-> HexCharacter(digits[i])]) = NumeralOf(a, 10)
    <3>1. 10 \in 2 .. 16
      OBVIOUS
    <3> QED
      BY <2>1, <3>1, TurnedHex
  <2>6. NumeralOf(a, 10) = [i \in 1 .. Len(digits) |-> HexCharacter(digits[Len(digits) + 1 - i])]
    BY DEF NumeralOf
  <2> HIDE DEF digits
  <2>7. Len(digits) = k /\ DOMAIN digits = 1 .. k
    BY <2>4, Sequence
  <2>8. \A i \in 1 .. k : LetterZero + digits[i] = HexCharacter(digits[i])
    BY <2>4, CharacterFacts
  <2>9. Characters(digits) = [i \in DOMAIN digits |-> HexCharacter(digits[i])]
    BY <2>7, <2>8 DEF Characters
  <2>10. Characters(digits) \in [1 .. k -> Int]
    BY <2>4, <2>7 DEF Characters, LetterZero
  <2>11. Characters(digits) \in Seq(Int) /\ Len(Characters(digits)) = k
    BY <2>4, <2>10, Sequence
  <2>12. Len(NumeralOf(a, 10)) = k
    <3>1. NumeralOf(a, 10) = [i \in 1 .. k |-> HexCharacter(digits[k + 1 - i])]
      BY <2>6, <2>7
    <3> QED
      BY <3>1, <2>4
  <2> QED
    BY <2>2, <2>5, <2>9, <2>11, <2>12 DEF a
<1> QED
  BY <1>1, <1>2

(* Two texts in one.                                                       *)
LEMMA Joining ==
  ASSUME NEW s \in Seq(Int), NEW t \in Seq(Int)
  PROVE  /\ s \o t \in Seq(Int) /\ Len(s \o t) = Len(s) + Len(t)
         /\ DOMAIN (s \o t) = 1 .. Len(s) + Len(t)
         /\ s \o t = [i \in 1 .. Len(s) + Len(t) |-> (s \o t)[i]]
         /\ \A i \in 1 .. Len(s) : (s \o t)[i] = s[i]
         /\ \A i \in 1 .. Len(t) : (s \o t)[Len(s) + i] = t[i]
<1> DEFINE u == s \o t
<1>1. u \in Seq(Int) /\ Len(u) = Len(s) + Len(t) /\ Len(s) \in Nat /\ Len(t) \in Nat
  BY ConcatProperties
<1>2. \A i \in 1 .. Len(s) + Len(t) : u[i] = IF i <= Len(s) THEN s[i] ELSE t[i - Len(s)]
  BY ConcatProperties
<1> HIDE DEF u
<1>3. DOMAIN u = 1 .. Len(s) + Len(t) /\ u = [i \in 1 .. Len(s) + Len(t) |-> u[i]]
  BY <1>1
<1>4. \A i \in 1 .. Len(s) : u[i] = s[i]
  BY <1>1, <1>2
<1>5. ASSUME NEW i \in 1 .. Len(t)
      PROVE  u[Len(s) + i] = t[i]
  <2>1. Len(s) + i \in 1 .. Len(s) + Len(t) /\ ~(Len(s) + i <= Len(s)) /\ Len(s) + i - Len(s) = i
    BY <1>1
  <2> QED
    BY <2>1, <1>2
<1> QED
  BY <1>1, <1>3, <1>4, <1>5 DEF u

LEMMA TurnedFacts ==
  ASSUME NEW s \in Seq(Int)
  PROVE  /\ Turned(s) \in Seq(Int) /\ Len(Turned(s)) = Len(s)
         /\ \A i \in 1 .. Len(s) : Turned(s)[i] = s[Len(s) + 1 - i]
<1>1. ASSUME NEW i \in 1 .. Len(s)
      PROVE  s[Len(s) + 1 - i] \in Int
  <2>1. Len(s) + 1 - i \in 1 .. Len(s)
    OBVIOUS
  <2> QED
    BY <2>1
<1>2. Turned(s) \in [1 .. Len(s) -> Int] /\ Len(s) \in Nat
  BY <1>1 DEF Turned
<1>3. \A i \in 1 .. Len(s) : Turned(s)[i] = s[Len(s) + 1 - i]
  BY DEF Turned
<1> QED
  BY <1>2, <1>3, Sequence

(* What is appended comes first when the order is reversed.                *)
LEMMA TurnedJoin ==
  ASSUME NEW s \in Seq(Int), NEW t \in Seq(Int)
  PROVE  Turned(s \o t) = Turned(t) \o Turned(s)
<1> DEFINE m == Len(s)
           n == Len(t)
           st == s \o t
           ts == Turned(t) \o Turned(s)
<1>1. /\ m \in Nat /\ n \in Nat /\ st \in Seq(Int) /\ Len(st) = m + n
      /\ \A i \in 1 .. m : st[i] = s[i]
      /\ \A i \in 1 .. n : st[m + i] = t[i]
  BY Joining
<1>2. /\ Turned(t) \in Seq(Int) /\ Turned(s) \in Seq(Int) /\ Len(Turned(t)) = n /\ Len(Turned(s)) = m
      /\ \A i \in 1 .. n : Turned(t)[i] = t[n + 1 - i]
      /\ \A i \in 1 .. m : Turned(s)[i] = s[m + 1 - i]
  BY TurnedFacts
<1>3. /\ ts = [i \in 1 .. n + m |-> ts[i]]
      /\ \A i \in 1 .. n : ts[i] = Turned(t)[i]
      /\ \A i \in 1 .. m : ts[n + i] = Turned(s)[i]
  <2> DEFINE a == Turned(t)
             b == Turned(s)
  <2>1. a \in Seq(Int) /\ b \in Seq(Int) /\ Len(a) = n /\ Len(b) = m
    BY <1>2
  <2> HIDE DEF a, b
  <2>2. /\ a \o b = [i \in 1 .. Len(a) + Len(b) |-> (a \o b)[i]]
        /\ \A i \in 1 .. Len(a) : (a \o b)[i] = a[i]
        /\ \A i \in 1 .. Len(b) : (a \o b)[Len(a) + i] = b[i]
    BY <2>1, Joining
  <2> QED
    BY <2>1, <2>2 DEF a, b
<1>4. Turned(st) = [i \in 1 .. m + n |-> st[m + n + 1 - i]]
  BY <1>1 DEF Turned
<1> HIDE DEF st, ts, m, n
<1>5. ASSUME NEW i \in 1 .. n + m
      PROVE  st[m + n + 1 - i] = ts[i]
  <2>1. CASE i <= n
    <3>1. i \in 1 .. n /\ n + 1 - i \in 1 .. n /\ m + n + 1 - i = m + (n + 1 - i)
      BY <2>1, <1>1
    <3>2. ts[i] = Turned(t)[i] /\ Turned(t)[i] = t[n + 1 - i]
      BY <3>1, <1>2, <1>3
    <3>3. st[m + (n + 1 - i)] = t[n + 1 - i]
      BY <3>1, <1>1
    <3> QED
      BY <3>1, <3>2, <3>3
  <2>2. CASE i > n
    <3>1. i - n \in 1 .. m /\ m + 1 - (i - n) \in 1 .. m /\ m + 1 - (i - n) = m + n + 1 - i /\ n + (i - n) = i
      BY <2>2, <1>1
    <3>2. ts[n + (i - n)] = Turned(s)[i - n] /\ Turned(s)[i - n] = s[m + 1 - (i - n)]
      BY <3>1, <1>2, <1>3
    <3>3. st[m + 1 - (i - n)] = s[m + 1 - (i - n)]
      BY <3>1, <1>1
    <3> QED
      BY <3>1, <3>2, <3>3
  <2> QED
    BY <2>1, <2>2, <1>1
<1>6. 1 .. m + n = 1 .. n + m
  BY <1>1
<1>7. Turned(st) = ts
  BY <1>3, <1>4, <1>5, <1>6
<1> QED
  BY <1>7 DEF st, ts

(* The two parts of a real.                                                *)
WholePart(x) == Quot(x, Scale)
LowDecimals(x, places) == Quot((x - WholePart(x) * Scale) * Tens[places], Scale)
Below(x) == FuncAbs(x) - Scale * FuncAbs(WholePart(x))

LEMMA RealParts ==
  ASSUME NEW x \in Int, NEW places \in Nat
  PROVE  /\ WholePart(x) \in Int /\ LowDecimals(x, places) \in Int
         /\ Below(x) \in 0 .. Scale - 1 /\ FuncAbs(x) = Scale * FuncAbs(WholePart(x)) + Below(x)
         /\ FuncAbs(WholePart(x)) = FuncAbs(x) \div Scale
         /\ FuncAbs(LowDecimals(x, places)) = (Below(x) * Tens[places]) \div Scale
         /\ FuncAbs(LowDecimals(x, places)) < Tens[places]
         /\ x = 0 => WholePart(x) = 0 /\ Below(x) = 0
         /\ FuncAbs((x - WholePart(x) * Scale) * Tens[places]) = Below(x) * Tens[places]
         /\ (x - WholePart(x) * Scale) * Tens[places] \in Int
         /\ Below(x) = FuncAbs(Rem(x, Scale)) /\ Rem(x, Scale) \in Int
         /\ (x >= 0 => LowDecimals(x, places) >= 0) /\ (x <= 0 => LowDecimals(x, places) <= 0)
<1> DEFINE int == WholePart(x)
           f == Rem(x, Scale)
           t == Tens[places]
           below == Below(x)
           low == LowDecimals(x, places)
<1>1. Scale \in Nat \ {0} /\ t \in Nat \ {0}
  BY ConversionsAssumption, TensFacts
<1>2. /\ int \in Int /\ f \in Int /\ x = Scale * int + f
      /\ FuncAbs(int) = FuncAbs(x) \div Scale
      /\ x >= 0 => int >= 0 /\ 0 <= f /\ f < Scale
      /\ x <= 0 => int <= 0 /\ f <= 0 /\ -Scale < f
  BY <1>1, QuotFacts DEF WholePart
<1>3. f = x - Scale * int /\ low = Quot((x - int * Scale) * t, Scale) /\ below = FuncAbs(x) - Scale * FuncAbs(int)
  BY DEF Rem, WholePart, LowDecimals, Below
<1> HIDE DEF int, f, t, below, low
<1>4. \A a, b \in Int : a * b \in Int /\ a * b = b * a /\ a * (-b) = -(a * b)
  OBVIOUS
<1>5. Scale * int \in Int /\ int * Scale = Scale * int /\ Scale * (-int) = -(Scale * int)
  BY <1>1, <1>2, <1>4
<1>6. low = Quot(f * t, Scale)
  BY <1>3, <1>5
<1>7. below = FuncAbs(f) /\ below \in 0 .. Scale - 1 /\ FuncAbs(x) = Scale * FuncAbs(int) + below
  <2>1. CASE x >= 0
    <3>1. FuncAbs(x) = x /\ FuncAbs(int) = int /\ FuncAbs(f) = f
      BY <2>1, <1>2 DEF FuncAbs
    <3> DEFINE product == Scale * int
    <3>2. /\ product \in Int /\ Scale * FuncAbs(int) = product /\ below = FuncAbs(x) - product
          /\ x = product + f
      BY <3>1, <1>2, <1>3, <1>5
    <3> HIDE DEF product
    <3>3. below = f /\ f \in 0 .. Scale - 1 /\ FuncAbs(x) = product + below
      BY <3>1, <3>2, <2>1, <1>1, <1>2
    <3> QED
      BY <3>1, <3>2, <3>3
  <2>2. CASE x < 0
    <3>1. FuncAbs(x) = -x /\ FuncAbs(int) = -int /\ FuncAbs(f) = -f
      BY <2>2, <1>2 DEF FuncAbs
    <3> DEFINE product == Scale * int
    <3>2. /\ product \in Int /\ Scale * FuncAbs(int) = -product /\ below = FuncAbs(x) - (-product)
          /\ x = product + f
      BY <3>1, <1>2, <1>3, <1>5
    <3> HIDE DEF product
    <3>3. below = -f /\ -f \in 0 .. Scale - 1 /\ FuncAbs(x) = -product + below
      BY <3>1, <3>2, <2>2, <1>1, <1>2
    <3> QED
      BY <3>1, <3>2, <3>3
  <2> QED
    BY <2>1, <2>2
<1>8. f * t \in Int /\ FuncAbs(f * t) = below * t
  <2>1. f * t \in Int /\ (-f) * t = -(f * t)
    <3>1. \A a, b \in Int : (-a) * b = -(a * b)
      OBVIOUS
    <3> QED
      BY <3>1, <1>1, <1>2, <1>4
  <2>2. \A a, b \in Nat : a * b \in Nat
    OBVIOUS
  <2>3. CASE f >= 0
    <3>1. below = f /\ f \in Nat
      BY <2>3, <1>2, <1>7 DEF FuncAbs
    <3> QED
      BY <3>1, <2>2, <1>1 DEF FuncAbs
  <2>4. CASE f < 0
    <3>1. below = -f /\ -f \in Nat
      BY <2>4, <1>2, <1>7 DEF FuncAbs
    <3>2. (-f) * t \in Nat /\ (-f) * t = -(f * t)
      BY <3>1, <2>1, <2>2, <1>1
    <3>3. FuncAbs(f * t) = -(f * t)
      <4> DEFINE ft == f * t
      <4>1. ft \in Int /\ -ft \in Nat
        BY <2>1, <3>2
      <4> HIDE DEF ft
      <4>2. FuncAbs(ft) = -ft
        BY <4>1 DEF FuncAbs
      <4> QED
        BY <4>2 DEF ft
    <3>4. FuncAbs(f * t) = below * t
      BY <3>1, <3>2, <3>3
    <3> QED
      BY <3>4, <2>1
  <2> QED
    BY <2>3, <2>4, <1>2
<1>9. low \in Int /\ FuncAbs(low) = (below * t) \div Scale
  BY <1>1, <1>6, <1>8, QuotFacts
<1>10. below * t \in Nat /\ below * t < Scale * t /\ Scale * t \in Nat
  <2>1. \A a, b, c \in Nat : a < b /\ c > 0 => a * c \in Nat /\ b * c \in Nat /\ a * c < b * c
    <3> TAKE a, b, c \in Nat
    <3> HAVE a < b /\ c > 0
    <3>1. b * c = a * c + (b - a) * c
      OBVIOUS
    <3>2. (b - a) * c = c + (b - a - 1) * c
      OBVIOUS
    <3>3. b - a - 1 \in Nat
      OBVIOUS
    <3>4. (b - a - 1) * c \in Nat /\ a * c \in Nat
      BY <3>3
    <3> QED
      BY <3>1, <3>2, <3>4
  <2> QED
    BY <2>1, <1>1, <1>7
<1>11. FuncAbs(low) < t
  <2> DEFINE u == (below * t) \div Scale
  <2>1. u \in Nat /\ Scale * u <= below * t
    BY <1>1, <1>10, NaturalQuotient
  <2> HIDE DEF u
  <2>2. \A a, b, c \in Nat : a <= b => c * a \in Nat /\ c * b \in Nat /\ c * a <= c * b
    <3> TAKE a, b, c \in Nat
    <3> HAVE a <= b
    <3>1. c * b = c * a + c * (b - a)
      OBVIOUS
    <3>2. b - a \in Nat
      OBVIOUS
    <3>3. c * (b - a) \in Nat /\ c * a \in Nat
      BY <3>2
    <3> QED
      BY <3>1, <3>3
  <2>3. ~(t <= u)
    <3>1. ASSUME t <= u
          PROVE  Scale * t <= Scale * u /\ Scale * u \in Nat
      BY <3>1, <2>1, <2>2, <1>1
    <3> QED
      BY <3>1, <2>1, <1>10
  <2> QED
    BY <2>1, <2>3, <1>1, <1>9 DEF u
<1>12. x = 0 => int = 0 /\ below = 0
  <2>1. ASSUME x = 0
        PROVE  int = 0 /\ below = 0
    <3>1. int = 0 /\ f = 0
      BY <2>1, <1>2
    <3> QED
      BY <3>1, <1>7 DEF FuncAbs
  <2> QED
    BY <2>1
<1>13. (x >= 0 => low >= 0) /\ (x <= 0 => low <= 0)
  <2>1. (f >= 0 => f * t >= 0) /\ (f <= 0 => f * t <= 0)
    <3>1. \A a, b \in Int : b >= 0 => (a >= 0 => a * b >= 0) /\ (a <= 0 => a * b <= 0)
      OBVIOUS
    <3> QED
      BY <3>1, <1>1, <1>2
  <2> DEFINE ft == f * t
  <2>2. ft \in Int /\ low = Quot(ft, Scale) /\ (f >= 0 => ft >= 0) /\ (f <= 0 => ft <= 0)
    BY <2>1, <1>6, <1>8
  <2> HIDE DEF ft
  <2>3. (ft >= 0 => low >= 0) /\ (ft <= 0 => low <= 0)
    BY <2>2, <1>1, QuotFacts
  <2> QED
    BY <2>2, <2>3, <1>2
<1>14. (x - int * Scale) * t \in Int /\ FuncAbs((x - int * Scale) * t) = below * t
  <2>1. x - int * Scale = f
    BY <1>3, <1>5
  <2> QED
    BY <2>1, <1>8
<1> QED
  BY <1>2, <1>7, <1>9, <1>11, <1>12, <1>13, <1>14 DEF int, t, below, low, f

LEMMA PositiveProduct == \A i, j \in Nat : i * j \in Nat /\ (i # 0 /\ j # 0 => i * j \in Nat \ {0})
<1> TAKE i, j \in Nat
<1>1. i * j \in Nat
  OBVIOUS
<1>2. ASSUME i # 0, j # 0
      PROVE  i * j # 0
  <2>1. i - 1 \in Nat /\ (i - 1) * j \in Nat
    BY <1>2
  <2>2. i * j = (i - 1) * j + j
    OBVIOUS
  <2> QED
    BY <2>1, <2>2, <1>2
<1> QED
  BY <1>1, <1>2

LEMMA Amounts == \A i \in Int : FuncAbs(i) \in Nat
  BY DEF FuncAbs

(* What is cut is that, or one nearer to zero where it is all of the rest  *)
(* and the variable does not hold the real exactly.                        *)
LEMMA CutFacts ==
  ASSUME NEW x \in Int, NEW places \in Nat, NEW under \in BOOLEAN
  PROVE  LET f == CutDecimals(x, places, under)
             a == FuncAbs(LowDecimals(x, places))
         IN  /\ f \in Int /\ FuncAbs(f) \in Nat /\ FuncAbs(f) < Tens[places]
             /\ x = 0 => f = 0
             /\ \/ f = LowDecimals(x, places)
                \/ /\ a >= 1 /\ FuncAbs(f) = a - 1 /\ Below(x) * Tens[places] = a * Scale
                   /\ ~HeldExactly(x, Scale)
<1> DEFINE f == CutDecimals(x, places, under)
           low == LowDecimals(x, places)
           a == FuncAbs(low)
           t == Tens[places]
           rest == (x - WholePart(x) * Scale) * t
           gt == Below(x) * t
           short == under /\ Rem(rest, Scale) = 0 /\ ~HeldExactly(x, Scale)
<1>1. Scale \in Nat \ {0} /\ t \in Nat \ {0}
  BY ConversionsAssumption, TensFacts
<1>2. /\ low \in Int /\ rest \in Int /\ FuncAbs(rest) = gt /\ a < t
      /\ Below(x) \in Nat /\ Below(x) = FuncAbs(Rem(x, Scale)) /\ Rem(x, Scale) \in Int
      /\ (x >= 0 => low >= 0) /\ (x <= 0 => low <= 0)
  <2>1. /\ low \in Int /\ rest \in Int /\ FuncAbs(rest) = gt /\ a < t
        /\ Below(x) \in 0 .. Scale - 1 /\ Below(x) = FuncAbs(Rem(x, Scale)) /\ Rem(x, Scale) \in Int
        /\ (x >= 0 => low >= 0) /\ (x <= 0 => low <= 0)
    BY RealParts, Zenon
  <2>2. Below(x) \in Nat
    BY <2>1, <1>1
  <2> QED
    BY <2>1, <2>2, Zenon
<1>3. f = IF short THEN (IF x > 0 THEN low - 1 ELSE low + 1) ELSE low
  BY DEF CutDecimals, LowDecimals, WholePart
<1>4. low = Quot(rest, Scale)
  BY DEF LowDecimals
<1>5. gt \in Nat /\ (gt = 0 => Below(x) = 0)
  <2>1. \A i, j \in Nat : i * j \in Nat /\ (i # 0 /\ j # 0 => i * j \in Nat \ {0})
    BY PositiveProduct
  <2> DEFINE g == Below(x)
  <2>2. g \in Nat
    BY <1>2
  <2> HIDE DEF g, t
  <2>3. g * t \in Nat /\ (g # 0 => g * t # 0)
    BY <2>1, <2>2, <1>1
  <2> QED
    BY <2>3 DEF g
<1>6. ASSUME short
      PROVE  /\ a >= 1 /\ gt = a * Scale /\ ~HeldExactly(x, Scale)
             /\ (x > 0 => low >= 1) /\ (x <= 0 => low <= -1)
  <2>1. Rem(rest, Scale) = rest - Scale * low
    BY <1>4 DEF Rem
  <2>2. rest - Scale * low = 0 /\ ~HeldExactly(x, Scale)
    BY <2>1, <1>6
  <2>3. rest = Scale * low
    <3> HIDE DEF rest, low
    <3> QED
      BY <2>2, <1>1, <1>2
  <2>4. FuncAbs(Scale * low) = a * Scale
    <3>1. \A i \in Int, n \in Nat : FuncAbs(n * i) = FuncAbs(i) * n
      <4> TAKE i \in Int, n \in Nat
      <4>1. CASE i >= 0
        <5>1. n * i \in Nat /\ n * i = i * n
          BY <4>1
        <5> QED
          BY <5>1, <4>1 DEF FuncAbs
      <4>2. CASE i < 0
        <5>1. n * i = -((-i) * n) /\ -i \in Nat
          BY <4>2
        <5>2. (-i) * n \in Nat
          BY <5>1
        <5> DEFINE p == (-i) * n
        <5>3. p \in Nat /\ n * i = -p
          BY <5>1, <5>2
        <5>4. FuncAbs(i) = -i
          BY <4>2 DEF FuncAbs
        <5> HIDE DEF p
        <5>5. FuncAbs(n * i) = p
          BY <5>3 DEF FuncAbs
        <5> QED
          BY <5>4, <5>5 DEF p
      <4> QED
        BY <4>1, <4>2
    <3> HIDE DEF low
    <3> QED
      BY <3>1, <1>1, <1>2
  <2>5. gt = a * Scale
    BY <2>3, <2>4, <1>2
  <2>6. low # 0
    <3>1. ASSUME low = 0
          PROVE  FALSE
      <4>1. a = 0
        BY <3>1 DEF FuncAbs
      <4>2. gt = 0
        <5>1. 0 * Scale = 0
          BY <1>1
        <5> QED
          BY <5>1, <4>1, <2>5
      <4>3. Below(x) = 0
        BY <4>2, <1>5
      <4>4. Rem(x, Scale) = 0
        BY <4>3, <1>2 DEF FuncAbs
      <4>5. x * 1 = x /\ 1 \in PowersOfTwo
        BY DEF PowersOfTwo
      <4>6. HeldExactly(x, Scale)
        BY <4>4, <4>5 DEF HeldExactly
      <4> QED
        BY <4>6, <2>2
    <3> QED
      BY <3>1
  <2> HIDE DEF low, gt
  <2>7. a >= 1 /\ (x > 0 => low >= 1) /\ (x <= 0 => low <= -1)
    BY <2>6, <1>2 DEF FuncAbs
  <2> QED
    BY <2>2, <2>5, <2>7
<1> HIDE DEF low, short, rest, gt, t, f
<1>7. CASE short
  <2>1. f = IF x > 0 THEN low - 1 ELSE low + 1
    BY <1>3, <1>7
  <2>2. a >= 1 /\ gt = a * Scale /\ ~HeldExactly(x, Scale) /\ (x > 0 => low >= 1) /\ (x <= 0 => low <= -1)
    BY <1>6, <1>7
  <2>3. f \in Int /\ FuncAbs(f) = a - 1 /\ x # 0
    BY <2>1, <2>2, <1>2 DEF FuncAbs
  <2>4. FuncAbs(f) \in Nat /\ FuncAbs(f) < t
    <3>1. a \in Nat
      BY <1>2, Amounts
    <3> HIDE DEF a
    <3> QED
      BY <2>2, <2>3, <3>1, <1>1, <1>2
  <2> QED
    BY <2>2, <2>3, <2>4 DEF f, gt, low, t
<1>8. CASE ~short
  <2>1. f = low
    BY <1>3, <1>8
  <2>2. FuncAbs(f) \in Nat
    BY <2>1, <1>2, Amounts
  <2>3. x = 0 => f = 0
    BY <2>1, <1>2
  <2> QED
    BY <2>1, <2>2, <2>3, <1>2 DEF f, low, t
<1> QED
  BY <1>7, <1>8

(* What follows the numeral of the integer part: nothing, or the point and *)
(* a text that spells c.                                                   *)
Fraction(tail, most, k, c) ==
  \/ k = 0 /\ tail = <<>> /\ c[0] = 0
  \/ \E d \in Seq(Int) : tail = <<Point>> \o d /\ k = Len(d) /\ k \in 1 .. most /\ Spells(d, 1, k, 10, c)

-----------------------------------------------------------------------------
(* What is written is read back.                                           *)

LEMMA SpellsShift ==
  ASSUME NEW s, NEW t, NEW off \in Nat, NEW k, NEW base \in 2 .. 16, NEW c, Spells(t, 1, k, base, c),
         \A m \in 1 .. k : s[off + m] = t[m]
  PROVE  Spells(s, off + 1, k, base, c)
<1>1. k \in Nat
  BY DEF Spells
<1>2. ASSUME NEW j \in 0 .. k - 1
      PROVE  \E d \in 0 .. base - 1 : c[j] = base * c[j + 1] + d /\ s[(off + 1) + k - 1 - j] = HexCharacter(d)
  <2>1. k - j \in 1 .. k /\ (off + 1) + k - 1 - j = off + (k - j) /\ 1 + k - 1 - j = k - j
    BY <1>1
  <2>2. s[(off + 1) + k - 1 - j] = t[1 + k - 1 - j]
    BY <2>1
  <2>3. PICK d \in 0 .. base - 1 : c[j] = base * c[j + 1] + d /\ t[1 + k - 1 - j] = HexCharacter(d)
    BY DEF Spells
  <2> QED
    BY <2>2, <2>3
<1>3. c[k] = 0 /\ \A j \in 0 .. k : c[j] \in Nat
  BY DEF Spells
<1> QED
  BY <1>1, <1>2, <1>3 DEF Spells

(* The characters of a decimal numeral are digits.                         *)
LEMMA SpelledDigits ==
  ASSUME NEW s, NEW i \in Int, NEW k, NEW c, Spells(s, i, k, 10, c)
  PROVE  \A j \in i .. i + k - 1 : IsDigit(s[j])
<1> TAKE j \in i .. i + k - 1
<1>1. 10 \in 2 .. 16
  OBVIOUS
<1>2. PICK d \in 0 .. 10 - 1 : s[j] = HexCharacter(d)
  BY <1>1, SpelledCharacters
<1>3. d \in 0 .. 9
  OBVIOUS
<1> QED
  BY <1>2, <1>3, CharacterFacts

(* A signed number, and what follows it.                                   *)
Signed(x, w, tail) == (SignOf(x) \o NumeralOf(w, 10)) \o tail

LEMMA SignedRead ==
  ASSUME NEW x \in Int, NEW w \in Nat, NEW tail \in Seq(Int), tail # <<>> => ~IsDigit(tail[1])
  PROVE  LET s == Signed(x, w, tail)
             at == NumberAt(s)
             whole == DigitsFrom(s, at)
         IN  /\ s \in Seq(Int) /\ (Negative(s) <=> x < 0)
             /\ at \in Nat \ {0} /\ whole \in Nat /\ Accumulated(s, at, whole, 10) = w
             /\ Len(s) = at + whole - 1 + Len(tail)
             /\ \A m \in 1 .. Len(tail) : s[at + whole - 1 + m] = tail[m]
<1> DEFINE sign == SignOf(x)
           num == NumeralOf(w, 10)
           pre == sign \o num
           s == pre \o tail
           k == Len(num)
           e == Len(sign)
           at == e + 1
<1>1. 10 \in 2 .. 16
  OBVIOUS
<1>2. k \in Nat \ {0} /\ num \in Seq(Int) /\ Spells(num, 1, k, 10, Remaining(w, 10))
  BY <1>1, NumeralFacts
<1>3. sign \in Seq(Int) /\ e \in {0, 1} /\ (e = 1 <=> x < 0) /\ (e = 1 => sign[1] = Minus) /\ (e = 0 => sign = <<>>)
  <2>1. CASE x < 0
    <3>1. sign = <<Minus>>
      BY <2>1 DEF SignOf
    <3> HIDE DEF sign
    <3> QED
      BY <2>1, <3>1 DEF Minus
  <2>2. CASE ~(x < 0)
    <3>1. sign = <<>>
      BY <2>2 DEF SignOf
    <3> HIDE DEF sign
    <3> QED
      BY <2>2, <3>1
  <2> QED
    BY <2>1, <2>2
<1>4. s = Signed(x, w, tail)
  BY DEF Signed
<1>5. Remaining(w, 10)[0] = w
  BY RemainingFacts
<1> HIDE DEF sign, num
<1>6. /\ pre \in Seq(Int) /\ Len(pre) = e + k
      /\ \A i \in 1 .. e : pre[i] = sign[i]
      /\ \A i \in 1 .. k : pre[e + i] = num[i]
  BY <1>2, <1>3, Joining
<1> HIDE DEF pre
<1>7. /\ s \in Seq(Int) /\ Len(s) = e + k + Len(tail)
      /\ \A i \in 1 .. e + k : s[i] = pre[i]
      /\ \A i \in 1 .. Len(tail) : s[e + k + i] = tail[i]
  <2>1. pre \in Seq(Int)
    BY <1>6
  <2>2. /\ pre \o tail \in Seq(Int) /\ Len(pre \o tail) = Len(pre) + Len(tail)
        /\ \A i \in 1 .. Len(pre) : (pre \o tail)[i] = pre[i]
        /\ \A i \in 1 .. Len(tail) : (pre \o tail)[Len(pre) + i] = tail[i]
    BY <2>1, Joining
  <2> HIDE DEF e, k
  <2> QED
    BY <1>6, <2>2
<1> HIDE DEF s, k, e
<1>8. \A m \in 1 .. k : s[e + m] = num[m]
  <2> TAKE m \in 1 .. k
  <2>1. e + m \in 1 .. e + k
    BY <1>2, <1>3
  <2> QED
    BY <2>1, <1>6, <1>7
<1>9. Spells(s, at, k, 10, Remaining(w, 10))
  <2>1. e \in Nat
    BY <1>3
  <2> QED
    BY <2>1, <1>1, <1>2, <1>8, SpellsShift
<1>10. at \in Int
  BY <1>3
<1>11. \A j \in at .. at + k - 1 : IsDigit(s[j])
  BY <1>9, <1>10, SpelledDigits
<1>12. Len(s) \in Nat /\ Len(tail) \in Nat /\ s # <<>>
  <2>1. Len(s) \in Nat /\ Len(tail) \in Nat
    BY <1>7
  <2>2. Len(s) # 0
    BY <2>1, <1>2, <1>3, <1>7
  <2> QED
    BY <2>1, <2>2
<1>13. (s[1] = Minus <=> x < 0) /\ s[1] # Plus
  <2>1. CASE e = 1
    <3>1. s[1] = sign[1]
      <4>1. 1 \in 1 .. e /\ 1 \in 1 .. e + k
        BY <2>1, <1>2
      <4> QED
        BY <4>1, <1>6, <1>7
    <3> QED
      BY <2>1, <3>1, <1>3 DEF Minus, Plus
  <2>2. CASE e = 0
    <3>1. 1 \in at .. at + k - 1
      BY <2>2, <1>2
    <3>2. IsDigit(s[1])
      BY <3>1, <1>11
    <3> QED
      BY <2>2, <3>2, <1>3 DEF IsDigit, Minus, Plus, LetterZero
  <2> QED
    BY <2>1, <2>2, <1>3
<1>14. (Negative(s) <=> x < 0) /\ NumberAt(s) = at
  <2>1. (Negative(s) <=> x < 0) /\ (HasSign(s) <=> x < 0)
    BY <1>12, <1>13 DEF Negative, HasSign
  <2> QED
    BY <2>1, <1>3 DEF NumberAt
<1>15. DigitsFrom(s, at) = k
  <2>1. at + k <= Len(s) + 1
    BY <1>2, <1>3, <1>7, <1>12
  <2>2. ASSUME at + k <= Len(s)
        PROVE  ~IsDigit(s[at + k])
    <3>1. Len(tail) # 0
      BY <2>2, <1>2, <1>3, <1>7, <1>12
    <3>2. tail # <<>> /\ 1 \in 1 .. Len(tail)
      BY <3>1, <1>12
    <3>3. s[e + k + 1] = tail[1]
      BY <3>2, <1>7
    <3>4. e + k + 1 = at + k
      BY <1>2, <1>3
    <3> QED
      BY <3>2, <3>3, <3>4
  <2>3. k \in Nat
    BY <1>2
  <2> HIDE DEF at
  <2> QED
    BY <2>1, <2>2, <2>3, <1>10, <1>11, <1>12, DigitsFromIs
<1>16. Accumulated(s, at, k, 10) = w
  BY <1>1, <1>5, <1>9, <1>10, SpelledRead
<1>17. Len(s) = at + k - 1 + Len(tail) /\ \A m \in 1 .. Len(tail) : s[at + k - 1 + m] = tail[m]
  <2>1. at + k - 1 = e + k
    BY <1>2, <1>3
  <2> QED
    BY <2>1, <1>7
<1>18. at \in Nat \ {0} /\ k \in Nat
  BY <1>2, <1>3
<1> HIDE DEF at
<1> QED
  BY <1>4, <1>7, <1>14, <1>15, <1>16, <1>17, <1>18

(* func_str_to_int gives back what is written.                             *)
LEMMA IntRead ==
  ASSUME NEW n \in MinInt .. MaxInt, n # MinInt
  PROVE  FuncStrToInt(FuncIntToStr(n)) = n
<1> DEFINE a == FuncAbs(n)
           s == FuncIntToStr(n)
<1>1. a \in Nat /\ n \in Int
  BY AmountFits, ConversionsAssumption DEF MinInt, MaxInt
<1>2. Half \in Nat \ {0}
  BY ConversionsAssumption
<1>3. 10 \in 2 .. 16
  OBVIOUS
<1>4. s = Signed(n, a, <<>>)
  <2>1. s = SignOf(n) \o NumeralOf(a, 10)
    BY IntText
  <2>2. NumeralOf(a, 10) \in Seq(Int)
    BY <1>1, <1>3, NumeralFacts
  <2>3. SignOf(n) \in Seq(Int)
    BY DEF SignOf, Minus
  <2> DEFINE u == SignOf(n)
             v == NumeralOf(a, 10)
  <2>4. Signed(n, a, <<>>) = (u \o v) \o <<>>
    BY DEF Signed
  <2> HIDE DEF u, v
  <2>5. u \in Seq(Int) /\ v \in Seq(Int)
    BY <2>2, <2>3 DEF u, v
  <2>6. u \o v \in Seq(Int)
    BY <2>5, ConcatProperties
  <2>7. (u \o v) \o <<>> = u \o v
    BY <2>6, ConcatEmptySeq
  <2> QED
    BY <2>1, <2>4, <2>7 DEF u, v
<1>5. <<>> \in Seq(Int)
  OBVIOUS
<1> HIDE DEF s
<1>6. (Negative(s) <=> n < 0) /\ Accumulated(s, NumberAt(s), DigitsFrom(s, NumberAt(s)), 10) = a
  <2> HIDE DEF a
  <2> QED
    BY <1>1, <1>4, <1>5, SignedRead
<1>7. FuncStrToInt(s) = Wrapped(IF n < 0 THEN -a ELSE a)
  <2> HIDE DEF a
  <2>1. CASE n < 0
    BY <2>1, <1>6 DEF FuncStrToInt
  <2>2. CASE ~(n < 0)
    BY <2>2, <1>6 DEF FuncStrToInt
  <2> QED
    BY <2>1, <2>2
<1>8. (IF n < 0 THEN -a ELSE a) = n
  BY <1>1 DEF FuncAbs
<1> QED
  BY <1>7, <1>8, WrappedFits DEF s

(* func_str_to_uint does, up to the widest.                                *)
LEMMA UintRead ==
  ASSUME NEW n \in 0 .. MaxUint
  PROVE  FuncStrToUint(FuncUintToStr(n)) = n
<1> DEFINE s == NumeralOf(n, 10)
           k == Len(s)
<1>1. n \in Nat /\ 10 \in 2 .. 16 /\ 1 \in Int
  BY ConversionsAssumption DEF MaxUint
<1>2. k \in Nat \ {0} /\ s \in Seq(Int) /\ Spells(s, 1, k, 10, Remaining(n, 10))
  BY <1>1, NumeralFacts
<1>3. Remaining(n, 10)[0] = n
  BY <1>1, RemainingFacts
<1> HIDE DEF s
<1>4. \A j \in 1 .. 1 + k - 1 : IsDigit(s[j])
  BY <1>1, <1>2, SpelledDigits
<1>5. DigitsFrom(s, 1) = k
  <2>1. Len(s) \in Nat /\ k \in Nat /\ 1 + k <= Len(s) + 1 /\ ~(1 + k <= Len(s))
    BY <1>2
  <2> QED
    BY <2>1, <1>1, <1>4, DigitsFromIs
<1>6. Accumulated(s, 1, k, 10) = n
  BY <1>1, <1>2, <1>3, SpelledRead
<1>7. FuncStrToUint(s) = n
  BY <1>5, <1>6, UnsignedFits DEF FuncStrToUint
<1> QED
  BY <1>1, <1>7, UintText DEF s

(* func_str_to_hex finds the number behind 0x.                             *)
LEMMA HexRead ==
  ASSUME NEW n \in 0 .. MaxUint
  PROVE  FuncStrToHex(<<LetterZero, LetterX>> \o NumeralOf(n, 16)) = n
<1> DEFINE num == NumeralOf(n, 16)
           k == Len(num)
           head == <<LetterZero, LetterX>>
           s == head \o num
           Prefix(i) == i < Len(s) /\ s[i] = LetterZero /\ s[i + 1] = LetterX
           starts == {i \in DOMAIN s : Prefix(i)}
           start == CHOOSE i \in starts : \A j \in starts : i <= j
           Takes(m) == /\ \A j \in 1 .. m : HexValue(s[start + 1 + j]) >= 0
                       /\ start + 2 + m <= Len(s) => HexValue(s[start + 2 + m]) < 0
           taken == CHOOSE m \in 0 .. Len(s) - start - 1 : Takes(m)
<1>1. n \in Nat /\ 16 \in 2 .. 16
  BY ConversionsAssumption DEF MaxUint
<1>2. k \in Nat \ {0} /\ num \in Seq(Int) /\ Spells(num, 1, k, 16, Remaining(n, 16))
  BY <1>1, NumeralFacts
<1>3. Remaining(n, 16)[0] = n
  BY <1>1, RemainingFacts
<1>4. head \in Seq(Int) /\ Len(head) = 2 /\ head[1] = LetterZero /\ head[2] = LetterX
  BY DEF LetterZero, LetterX
<1>5. FuncStrToHex(s) = IF starts = {} THEN 0 ELSE Accumulated(s, start + 2, taken, 16) % (2 * Half)
  BY DEF FuncStrToHex
<1> HIDE DEF num, head
<1>6. /\ s \in Seq(Int) /\ Len(s) = 2 + k /\ DOMAIN s = 1 .. 2 + k
      /\ \A i \in 1 .. 2 : s[i] = head[i]
      /\ \A i \in 1 .. k : s[2 + i] = num[i]
  <2>1. /\ head \o num \in Seq(Int) /\ Len(head \o num) = Len(head) + Len(num)
        /\ DOMAIN (head \o num) = 1 .. Len(head) + Len(num)
        /\ \A i \in 1 .. Len(head) : (head \o num)[i] = head[i]
        /\ \A i \in 1 .. Len(num) : (head \o num)[Len(head) + i] = num[i]
    BY <1>2, <1>4, Joining
  <2> QED
    BY <1>4, <2>1
<1> HIDE DEF s, k
<1>7. s[1] = LetterZero /\ s[2] = LetterX
  BY <1>4, <1>6
<1>8. 1 \in starts /\ starts \subseteq 1 .. 2 + k
  BY <1>2, <1>6, <1>7
<1>9. start = 1
  <2> HIDE DEF starts
  <2>1. \A j \in starts : 1 <= j
    BY <1>8, <1>2
  <2>2. start \in starts /\ \A j \in starts : start <= j
    BY <2>1, <1>8
  <2>3. start \in Int
    <3> HIDE DEF start
    <3>1. start \in 1 .. 2 + k
      BY <2>2, <1>8
    <3> QED
      BY <3>1
  <2> QED
    BY <2>1, <2>2, <2>3, <1>8
<1> HIDE DEF starts, start
<1>10. Spells(s, 3, k, 16, Remaining(n, 16))
  <2>1. 2 \in Nat /\ 2 + 1 = 3
    OBVIOUS
  <2> DEFINE c == Remaining(n, 16)
  <2>2. Spells(num, 1, k, 16, c)
    BY <1>2
  <2> HIDE DEF c
  <2>4. \A m \in 1 .. k : s[2 + m] = num[m]
    BY <1>6
  <2> DEFINE base == 16
             two == 2
  <2>5. base \in 2 .. 16 /\ two \in Nat /\ Spells(num, 1, k, base, c) /\ \A m \in 1 .. k : s[two + m] = num[m]
    BY <2>2, <2>4
  <2> HIDE DEF base, two, Takes, Prefix, taken
  <2>6. Spells(s, two + 1, k, base, c)
    BY <2>5, SpellsShift
  <2>3. Spells(s, 2 + 1, k, 16, c)
    BY <2>6 DEF two, base
  <2> QED
    BY <2>1, <2>3 DEF c
<1>11. ASSUME NEW j \in 1 .. k
       PROVE  HexValue(s[2 + j]) >= 0
  <2>1. 3 \in Int /\ 2 + j \in 3 .. 3 + k - 1
    BY <1>2
  <2>2. \A i \in 3 .. 3 + k - 1 : \E d \in 0 .. 16 - 1 : s[i] = HexCharacter(d)
    BY <2>1, <1>1, <1>10, SpelledCharacters
  <2>3. PICK d \in 0 .. 16 - 1 : s[2 + j] = HexCharacter(d)
    BY <2>1, <2>2
  <2>4. d \in 0 .. 15
    OBVIOUS
  <2> QED
    BY <2>3, <2>4, CharacterFacts
<1>12. k \in 0 .. Len(s) - start - 1 /\ Takes(k)
  <2>1. Len(s) - start - 1 = k /\ ~(start + 2 + k <= Len(s))
    BY <1>2, <1>6, <1>9
  <2>2. \A j \in 1 .. k : HexValue(s[start + 1 + j]) >= 0
    <3> TAKE j \in 1 .. k
    <3>1. start + 1 + j = 2 + j
      BY <1>9
    <3> QED
      BY <3>1, <1>11
  <2> QED
    BY <2>1, <2>2, <1>2
<1>13. ASSUME NEW m \in 0 .. Len(s) - start - 1, Takes(m)
       PROVE  m = k
  <2>1. Len(s) - start - 1 = k /\ m \in Nat /\ m <= k
    BY <1>2, <1>6, <1>9
  <2>2. CASE m < k
    <3>1. start + 2 + m <= Len(s) /\ start + 2 + m = 2 + (m + 1) /\ m + 1 \in 1 .. k
      BY <2>1, <2>2, <1>2, <1>6, <1>9
    <3>2. HexValue(s[start + 2 + m]) < 0
      BY <3>1, <1>13
    <3>3. HexValue(s[2 + (m + 1)]) >= 0 /\ HexValue(s[2 + (m + 1)]) \in Int
      BY <3>1, <1>11, CharacterFacts
    <3> QED
      BY <3>1, <3>2, <3>3
  <2> QED
    BY <2>1, <2>2, <1>2
<1> HIDE DEF Takes
<1>14. taken = k
  BY <1>12, <1>13
<1>15. Accumulated(s, 3, k, 16) = n
  <2>1. 3 \in Int
    OBVIOUS
  <2> QED
    BY <2>1, <1>1, <1>3, <1>10, SpelledRead
<1>16. FuncStrToHex(s) = n
  <2>1. starts # {} /\ start + 2 = 3
    BY <1>8, <1>9
  <2>2. FuncStrToHex(s) = Accumulated(s, 3, k, 16) % (2 * Half)
    BY <1>5, <1>14, <2>1
  <2> QED
    BY <2>2, <1>15, UnsignedFits
<1> QED
  BY <1>16 DEF s, head, num

(* What the readers of reals make of such a text.                          *)
LEMMA RealRead ==
  ASSUME NEW x \in Int, NEW w \in Nat, NEW tail, NEW most \in Nat, NEW k, NEW c, Fraction(tail, most, k, c)
  PROVE  FuncStrToReal(Signed(x, w, tail), most)
           = IF x < 0 THEN -(w * Scale + (c[0] * Scale) \div Tens[k]) ELSE w * Scale + (c[0] * Scale) \div Tens[k]
<1> DEFINE s == Signed(x, w, tail)
           first == NumberAt(s)
           whole == DigitsFrom(s, first)
           dot == first + whole
           n == IF dot > Len(s) \/ s[dot] # Point THEN 0
                ELSE LET d == DigitsFrom(s, dot + 1) IN IF d < most THEN d ELSE most
           temp == Accumulated(s, first, whole, 10) * Scale + (Accumulated(s, dot + 1, n, 10) * Scale) \div Tens[n]
<1>1. FuncStrToReal(s, most) = IF Negative(s) THEN -temp ELSE temp
  BY DEF FuncStrToReal
<1>2. tail \in Seq(Int) /\ (tail # <<>> => tail[1] = Point)
  <2>1. CASE tail = <<>>
    BY <2>1
  <2>2. CASE tail # <<>>
    <3>1. PICK d \in Seq(Int) : tail = <<Point>> \o d
      BY <2>2 DEF Fraction
    <3>2. <<Point>> \in Seq(Int) /\ Len(<<Point>>) = 1 /\ <<Point>>[1] = Point
      BY DEF Point
    <3> DEFINE p == <<Point>>
    <3>3. p \in Seq(Int) /\ Len(p) = 1 /\ p[1] = Point
      BY <3>2
    <3> HIDE DEF p
    <3>4. p \o d \in Seq(Int) /\ (p \o d)[1] = Point
      BY <3>3, Joining
    <3> QED
      BY <3>1, <3>4 DEF p
  <2> QED
    BY <2>1, <2>2
<1>3. tail # <<>> => ~IsDigit(tail[1])
  BY <1>2 DEF IsDigit, Point, LetterZero
<1>4. /\ s \in Seq(Int) /\ (Negative(s) <=> x < 0)
      /\ first \in Nat \ {0} /\ whole \in Nat /\ Accumulated(s, first, whole, 10) = w
      /\ Len(s) = first + whole - 1 + Len(tail)
      /\ \A m \in 1 .. Len(tail) : s[first + whole - 1 + m] = tail[m]
  BY <1>2, <1>3, SignedRead
<1> HIDE DEF s, first, whole
<1>5. dot \in Int /\ dot \in Nat \ {0} /\ Len(s) = dot - 1 + Len(tail) /\ Len(tail) \in Nat /\ dot + 1 \in Int
  BY <1>2, <1>4
<1>6. \A m \in 1 .. Len(tail) : s[dot - 1 + m] = tail[m]
  <2> TAKE m \in 1 .. Len(tail)
  <2>1. s[first + whole - 1 + m] = tail[m]
    BY <1>4
  <2>2. first \in Int /\ whole \in Int /\ m \in Int
    BY <1>4
  <2>3. dot - 1 + m = first + whole - 1 + m
    BY <2>2
  <2> HIDE DEF dot
  <2> QED
    BY <2>1, <2>3
<1> HIDE DEF dot
<1>7. n = k /\ Accumulated(s, dot + 1, k, 10) = c[0]
  <2>1. CASE tail = <<>>
    <3>1. Len(tail) = 0 /\ dot > Len(s)
      BY <2>1, <1>5
    <3>2. n = 0
      BY <3>1
    <3>3. k = 0 /\ c[0] = 0
      <4>1. ASSUME NEW d \in Seq(Int)
            PROVE  <<Point>> \o d # <<>>
        <5>1. <<Point>> \in Seq(Int) /\ Len(<<Point>>) = 1
          BY DEF Point
        <5>2. Len(<<Point>> \o d) = 1 + Len(d) /\ Len(d) \in Nat
          BY <5>1, ConcatProperties
        <5>3. Len(<<>>) = 0 /\ 1 + Len(d) # 0
          BY <5>2
        <5> QED
          BY <5>2, <5>3
      <4> QED
        BY <2>1, <4>1 DEF Fraction
    <3>4. Accumulated(s, dot + 1, 0, 10) = 0
      <4>1. 10 \in Int /\ 0 \in Nat
        OBVIOUS
      <4>2. PICK t : Reading(t, s, dot + 1, 10) /\ \A m \in Nat : Accumulated(s, dot + 1, m, 10) = t[m]
        BY <4>1, <1>5, AccumulatedRuns
      <4> QED
        BY <4>1, <4>2 DEF Reading
    <3> QED
      BY <3>2, <3>3, <3>4
  <2>2. CASE tail # <<>>
    <3>1. PICK d \in Seq(Int) : tail = <<Point>> \o d /\ k = Len(d) /\ k \in 1 .. most /\ Spells(d, 1, k, 10, c)
      BY <2>2 DEF Fraction
    <3> DEFINE p == <<Point>>
    <3>2. p \in Seq(Int) /\ Len(p) = 1 /\ p[1] = Point
      BY DEF Point
    <3>3. tail = p \o d
      BY <3>1
    <3> HIDE DEF p
    <3>4. /\ Len(tail) = 1 + k
          /\ \A i \in 1 .. 1 : tail[i] = p[i]
          /\ \A i \in 1 .. k : tail[1 + i] = d[i]
      BY <3>1, <3>2, <3>3, Joining
    <3>5. tail[1] = Point
      BY <3>2, <3>4
    <3>6. k \in Nat \ {0} /\ k <= most
      BY <3>1
    <3>7. s[dot] = Point /\ ~(dot > Len(s)) /\ Len(s) = dot + k
      <4>1. 1 \in 1 .. Len(tail) /\ dot - 1 + 1 = dot
        BY <3>4, <3>6, <1>5
      <4>2. s[dot - 1 + 1] = tail[1]
        BY <4>1, <1>6
      <4> QED
        BY <4>1, <4>2, <3>4, <3>5, <3>6, <1>5
    <3>8. \A m \in 1 .. k : s[dot + m] = d[m]
      <4> TAKE m \in 1 .. k
      <4>1. 1 + m \in 1 .. Len(tail) /\ dot - 1 + (1 + m) = dot + m
        BY <3>4, <3>6, <1>5
      <4>2. s[dot - 1 + (1 + m)] = tail[1 + m]
        BY <4>1, <1>6
      <4> QED
        BY <4>1, <4>2, <3>4
    <3>9. Spells(s, dot + 1, k, 10, c)
      <4> DEFINE base == 10
      <4>1. base \in 2 .. 16 /\ Spells(d, 1, k, base, c) /\ dot \in Nat
        BY <3>1, <1>5
      <4> HIDE DEF base
      <4>2. Spells(s, dot + 1, k, base, c)
        BY <4>1, <3>8, SpellsShift
      <4> QED
        BY <4>2 DEF base
    <3>10. \A j \in dot + 1 .. dot + 1 + k - 1 : IsDigit(s[j])
      BY <3>9, <1>5, SpelledDigits
    <3>11. DigitsFrom(s, dot + 1) = k
      <4> DEFINE from == dot + 1
      <4>1. /\ Len(s) \in Nat /\ from \in Int /\ k \in Nat /\ from + k <= Len(s) + 1
            /\ ~(from + k <= Len(s)) /\ \A j \in from .. from + k - 1 : IsDigit(s[j])
        BY <3>6, <3>7, <3>10, <1>4, <1>5
      <4> HIDE DEF from
      <4>2. DigitsFrom(s, from) = k
        BY <4>1, DigitsFromIs
      <4> QED
        BY <4>2 DEF from
    <3>12. n = k
      BY <3>6, <3>7, <3>11
    <3>13. Accumulated(s, dot + 1, k, 10) = c[0]
      <4>1. 10 \in 2 .. 16
        OBVIOUS
      <4> QED
        BY <4>1, <3>9, <1>5, SpelledRead
    <3> QED
      BY <3>12, <3>13
  <2> QED
    BY <2>1, <2>2
<1> HIDE DEF n
<1>8. temp = w * Scale + (c[0] * Scale) \div Tens[k]
  BY <1>4, <1>7
<1> HIDE DEF temp
<1>9. CASE x < 0
  BY <1>1, <1>4, <1>8, <1>9 DEF s
<1>10. CASE ~(x < 0)
  BY <1>1, <1>4, <1>8, <1>10 DEF s
<1> QED
  BY <1>9, <1>10

LEMMA TensProduct ==
  ASSUME NEW m \in Nat
  PROVE  \A k \in Nat : k <= m => Tens[m] = Tens[k] * Tens[m - k]
<1> DEFINE P == {k \in Nat : k <= m => Tens[m] = Tens[k] * Tens[m - k]}
<1>1. 0 \in P
  BY TensFacts
<1>2. ASSUME NEW k \in Nat, k \in P
      PROVE  k + 1 \in P
  <2>1. CASE k + 1 <= m
    <3>1. m - (k + 1) \in Nat /\ m - (k + 1) + 1 = m - k /\ k <= m
      BY <2>1
    <3>2. Tens[m - k] = 10 * Tens[m - (k + 1)] /\ Tens[k + 1] = 10 * Tens[k]
      BY <3>1, TensFacts
    <3>3. Tens[m - (k + 1)] \in Int /\ Tens[k] \in Int
      BY <3>1, TensFacts
    <3>4. \A a, b \in Int : a * (10 * b) = (10 * a) * b
      OBVIOUS
    <3>5. Tens[m] = Tens[k + 1] * Tens[m - (k + 1)]
      BY <3>1, <3>2, <3>3, <3>4, <1>2
    <3> QED
      BY <3>5
  <2>2. CASE ~(k + 1 <= m)
    BY <2>2
  <2> QED
    BY <2>1, <2>2
<1> HIDE DEF P
<1>3. \A k \in Nat : k \in P
  BY <1>1, <1>2, AllNumbers
<1> QED
  BY <1>3 DEF P

(* A quotient by a power of ten, digit by digit.                           *)
LEMMA QuotientTens ==
  ASSUME NEW g \in Nat, NEW j \in Nat
  PROVE  /\ g \div Tens[j] \in Nat /\ g \div Tens[j + 1] \in Nat
         /\ \E d \in 0 .. 9 : g \div Tens[j] = 10 * (g \div Tens[j + 1]) + d
<1> DEFINE t == Tens[j]
           q == g \div t
           h == g \div Tens[j + 1]
           e == q \div 10
<1>1. t \in Nat \ {0} /\ Tens[j + 1] = 10 * t /\ Tens[j + 1] \in Nat \ {0}
  BY TensFacts
<1>2. q \in Nat /\ t * q <= g /\ g < t * q + t
  BY <1>1, NaturalQuotient
<1> HIDE DEF q
<1>3. e \in Nat /\ \E d \in 0 .. 9 : q = 10 * e + d
  BY <1>2
<1> HIDE DEF e
<1>4. PICK d \in 0 .. 9 : q = 10 * e + d
  BY <1>3
<1>5. h = e
  <2> DEFINE b == 10 * t
             te == t * e
             td == t * d
  <2>1. b \in Nat \ {0} /\ h = g \div b
    BY <1>1
  <2>2. \A x, y, z \in Int : x * (10 * y + z) = 10 * (x * y) + x * z /\ (10 * x) * y = 10 * (x * y)
    OBVIOUS
  <2>3. t * q = 10 * te + td /\ b * e = 10 * te
    <3> HIDE DEF t
    <3>1. t \in Int /\ e \in Int /\ d \in Int
      BY <1>1, <1>3
    <3>2. t * (10 * e + d) = 10 * (t * e) + t * d /\ (10 * t) * e = 10 * (t * e)
      BY <2>2, <3>1
    <3> QED
      BY <3>2, <1>4
  <2>4. te \in Int /\ td \in Int /\ 0 <= td /\ td <= 9 * t
    <3>1. \A x \in Nat, y \in 0 .. 9 : x * y \in Int /\ 0 <= x * y /\ x * y <= 9 * x
      <4> TAKE x \in Nat, y \in 0 .. 9
      <4>1. y = 0 \/ y = 1 \/ y = 2 \/ y = 3 \/ y = 4 \/ y = 5 \/ y = 6 \/ y = 7 \/ y = 8 \/ y = 9
        OBVIOUS
      <4> QED
        BY <4>1
    <3>2. \A x, y \in Int : x * y \in Int
      OBVIOUS
    <3> QED
      BY <3>1, <3>2, <1>1, <1>3
  <2> HIDE DEF te, td, h
  <2>5. b * e <= g /\ g < b * e + b
    <3>1. b = 10 * t
      OBVIOUS
    <3> DEFINE tq == t * q
               be == b * e
    <3>2. tq = 10 * te + td /\ be = 10 * te /\ tq <= g /\ g < tq + t
      BY <2>3, <1>2
    <3> HIDE DEF tq, be, b
    <3>3. be <= g /\ g < be + b
      BY <3>1, <3>2, <2>4, <1>1
    <3> QED
      BY <3>3 DEF be
  <2> HIDE DEF b
  <2> QED
    BY <2>1, <2>5, <1>3, NaturalQuotient
<1>6. h \in Nat
  BY <1>3, <1>5
<1> QED
  BY <1>2, <1>4, <1>5, <1>6 DEF q

(* The decimals of func_float_to_str, as many as places, spell them.       *)
LEMMA DecimalsSpelled ==
  ASSUME NEW frac \in Int, NEW places \in Nat \ {0}, FuncAbs(frac) < Tens[places]
  PROVE  /\ Written(Positive(Decimals(frac, places))) \in Seq(Int)
         /\ Len(Written(Positive(Decimals(frac, places)))) = places
         /\ Spells(Written(Positive(Decimals(frac, places))), 1, places, 10,
                   [j \in Nat |-> FuncAbs(frac) \div Tens[j]])
<1> DEFINE g == FuncAbs(frac)
           dec == Decimals(frac, places)
           pos == Positive(dec)
           d == Written(pos)
           c == [j \in Nat |-> g \div Tens[j]]
<1>1. g \in Nat /\ (frac >= 0 => g = frac) /\ (frac < 0 => g = -frac)
  BY DEF FuncAbs
<1>2. dec = [i \in 1 .. places |-> Rem(Quot(frac, Tens[i - 1]), 10)]
  BY DEF Decimals
<1>3. pos = [i \in 1 .. places |-> FuncAbs(dec[i])]
  BY <1>2 DEF Positive
<1>4. ASSUME NEW j \in 0 .. places - 1
      PROVE  pos[j + 1] \in 0 .. 9 /\ g \div Tens[j] = 10 * (g \div Tens[j + 1]) + pos[j + 1]
  <2> DEFINE t == Tens[j]
             q == Quot(frac, t)
             r == Rem(q, 10)
  <2>1. j \in Nat /\ j + 1 \in 1 .. places /\ j + 1 - 1 = j /\ t \in Nat \ {0}
    BY TensFacts
  <2>2. pos[j + 1] = FuncAbs(r)
    BY <1>2, <1>3, <2>1
  <2>3. q \in Int /\ FuncAbs(q) = g \div t
    BY <2>1, QuotFacts
  <2>4. PICK e \in 0 .. 9 : g \div t = 10 * (g \div Tens[j + 1]) + e
    BY <2>1, <1>1, QuotientTens
  <2>5. g \div Tens[j + 1] \in Nat
    BY <2>1, <1>1, QuotientTens
  <2> HIDE DEF q, g, t
  <2>6. FuncAbs(q) = 10 * (g \div Tens[j + 1]) + e
    BY <2>3, <2>4
  <2> DEFINE h == g \div Tens[j + 1]
  <2>7. FuncAbs(r) = e
    <3>1. h \in Nat /\ FuncAbs(q) = 10 * h + e
      BY <2>5, <2>6
    <3> HIDE DEF h
    <3>2. FuncAbs(10) = 10
      BY DEF FuncAbs
    <3>3. FuncAbs(q) \div 10 = h
      BY <3>1
    <3>4. CASE q >= 0
      <4>1. Quot(q, 10) = h /\ q = 10 * h + e
        BY <3>1, <3>2, <3>3, <3>4 DEF Quot, FuncAbs
      <4>2. r = e
        BY <4>1, <3>1 DEF Rem
      <4> QED
        BY <4>2 DEF FuncAbs
    <3>5. CASE q < 0
      <4>1. Quot(q, 10) = -h /\ q = -(10 * h + e)
        BY <2>3, <3>1, <3>2, <3>3, <3>5 DEF Quot, FuncAbs
      <4>2. r = -e
        BY <4>1, <3>1 DEF Rem
      <4> QED
        BY <4>2 DEF FuncAbs
    <3> QED
      BY <3>4, <3>5, <2>3
  <2> QED
    BY <2>2, <2>4, <2>7 DEF t
<1>5. pos \in [1 .. places -> 0 .. 9]
  <2>1. ASSUME NEW i \in 1 .. places
        PROVE  pos[i] \in 0 .. 9
    <3>1. i - 1 \in 0 .. places - 1 /\ i - 1 + 1 = i
      OBVIOUS
    <3> QED
      BY <3>1, <1>4
  <2>2. pos = [i \in 1 .. places |-> pos[i]]
    BY <1>3
  <2> HIDE DEF pos
  <2> QED
    BY <2>1, <2>2
<1> HIDE DEF g, dec, pos
<1>6. Len(pos) = places
  BY <1>5, Sequence
<1>7. d = [i \in 1 .. places |-> LetterZero + pos[places + 1 - i]]
  BY <1>6 DEF Written
<1> HIDE DEF d
<1>8. d \in [1 .. places -> Int]
  <2>1. ASSUME NEW i \in 1 .. places
        PROVE  LetterZero + pos[places + 1 - i] \in Int
    <3>1. places + 1 - i \in 1 .. places
      OBVIOUS
    <3>2. pos[places + 1 - i] \in 0 .. 9
      BY <3>1, <1>5
    <3> QED
      BY <3>2 DEF LetterZero
  <2> QED
    BY <2>1, <1>7
<1>9. d \in Seq(Int) /\ Len(d) = places
  BY <1>8, Sequence
<1>10. ASSUME NEW j \in 0 .. places - 1
       PROVE  \E e \in 0 .. 10 - 1 : c[j] = 10 * c[j + 1] + e /\ d[1 + places - 1 - j] = HexCharacter(e)
  <2>1. j \in Nat /\ j + 1 \in Nat /\ 1 + places - 1 - j \in 1 .. places /\ places + 1 - (1 + places - 1 - j) = j + 1
    OBVIOUS
  <2>2. d[1 + places - 1 - j] = LetterZero + pos[j + 1]
    BY <2>1, <1>7
  <2>3. pos[j + 1] \in 0 .. 9 /\ pos[j + 1] \in 0 .. 10 - 1
    BY <1>4
  <2>4. HexCharacter(pos[j + 1]) = LetterZero + pos[j + 1]
    BY <2>3, CharacterFacts
  <2>5. c[j] = 10 * c[j + 1] + pos[j + 1]
    BY <2>1, <1>4
  <2> QED
    BY <2>2, <2>3, <2>4, <2>5
<1>11. c[places] = 0
  <2>1. g < Tens[places] /\ Tens[places] \in Nat \ {0}
    BY TensFacts DEF g
  <2> DEFINE t == Tens[places]
  <2>2. t \in Nat \ {0} /\ g < t
    BY <2>1
  <2> HIDE DEF t
  <2>3. t * 0 <= g /\ g < t * 0 + t
    BY <2>2, <1>1
  <2>4. g \div t = 0
    BY <2>2, <2>3, <1>1, NaturalQuotient
  <2> QED
    BY <2>4 DEF t
<1>12. \A j \in 0 .. places : c[j] \in Nat
  <2> TAKE j \in 0 .. places
  <2>1. j \in Nat
    OBVIOUS
  <2>2. g \div Tens[j] \in Nat
    BY <2>1, <1>1, QuotientTens
  <2> QED
    BY <2>1, <2>2
<1> HIDE DEF c
<1>13. Spells(d, 1, places, 10, c)
  BY <1>10, <1>11, <1>12 DEF Spells
<1> QED
  BY <1>9, <1>13 DEF c, d, pos, dec, g

LEMMA TwoCharacters ==
  ASSUME NEW a \in Int, NEW b \in Int, NEW e \in Int
  PROVE  <<a>> \o <<b>> = <<a, b>> /\ <<a>> \o <<b, e>> = <<a, b, e>>
<1> DEFINE u == <<a>>
           v == <<b>>
           w == <<b, e>>
           two == <<a, b>>
           three == <<a, b, e>>
<1>1. u \in Seq(Int) /\ Len(u) = 1 /\ u[1] = a
  OBVIOUS
<1>2. v \in Seq(Int) /\ Len(v) = 1 /\ v[1] = b /\ two \in Seq(Int) /\ Len(two) = 2 /\ two[1] = a /\ two[2] = b
  OBVIOUS
<1>3. /\ w \in Seq(Int) /\ Len(w) = 2 /\ w[1] = b /\ w[2] = e
      /\ three \in Seq(Int) /\ Len(three) = 3 /\ three[1] = a /\ three[2] = b /\ three[3] = e
  OBVIOUS
<1> HIDE DEF u, v, w, two, three
<1>4. u \o v = two
  <2>1. u \o v \in Seq(Int) /\ Len(u \o v) = 2 /\ (u \o v)[1] = a /\ (u \o v)[1 + 1] = b
    <3>1. /\ u \o v \in Seq(Int) /\ Len(u \o v) = Len(u) + Len(v)
          /\ \A i \in 1 .. Len(u) : (u \o v)[i] = u[i]
          /\ \A i \in 1 .. Len(v) : (u \o v)[Len(u) + i] = v[i]
      BY <1>1, <1>2, Joining
    <3>2. 1 \in 1 .. Len(u) /\ 1 \in 1 .. Len(v)
      BY <1>1, <1>2
    <3>3. (u \o v)[1] = u[1] /\ (u \o v)[Len(u) + 1] = v[1]
      BY <3>1, <3>2
    <3> QED
      BY <3>1, <3>3, <1>1, <1>2
  <2>2. \A i \in 1 .. 2 : (u \o v)[i] = two[i]
    <3> TAKE i \in 1 .. 2
    <3>1. i = 1 \/ i = 1 + 1
      OBVIOUS
    <3> QED
      BY <3>1, <2>1, <1>2
  <2> QED
    BY <2>1, <2>2, <1>2, SeqEqual
<1>5. u \o w = three
  <2>1. /\ u \o w \in Seq(Int) /\ Len(u \o w) = 3
        /\ (u \o w)[1] = a /\ (u \o w)[1 + 1] = b /\ (u \o w)[1 + 2] = e
    <3>1. /\ u \o w \in Seq(Int) /\ Len(u \o w) = Len(u) + Len(w)
          /\ \A i \in 1 .. Len(u) : (u \o w)[i] = u[i]
          /\ \A i \in 1 .. Len(w) : (u \o w)[Len(u) + i] = w[i]
      BY <1>1, <1>3, Joining
    <3>2. 1 \in 1 .. Len(u) /\ 1 \in 1 .. Len(w) /\ 2 \in 1 .. Len(w)
      BY <1>1, <1>3
    <3>3. (u \o w)[1] = u[1] /\ (u \o w)[Len(u) + 1] = w[1] /\ (u \o w)[Len(u) + 2] = w[2]
      BY <3>1, <3>2
    <3> QED
      BY <3>1, <3>3, <1>1, <1>3
  <2>2. \A i \in 1 .. 3 : (u \o w)[i] = three[i]
    <3> TAKE i \in 1 .. 3
    <3>1. CASE i = 1
      BY <3>1, <2>1, <1>3
    <3>2. CASE i = 2
      <4>1. i = 1 + 1
        BY <3>2
      <4> QED
        BY <3>2, <4>1, <2>1, <1>3
    <3>3. CASE i = 3
      <4>1. i = 1 + 2
        BY <3>3
      <4> QED
        BY <3>3, <4>1, <2>1, <1>3
    <3>4. i = 1 \/ i = 2 \/ i = 3
      OBVIOUS
    <3> QED
      BY <3>1, <3>2, <3>3, <3>4, Zenon
  <2> QED
    BY <2>1, <2>2, <1>3, SeqEqual
<1> QED
  BY <1>4, <1>5 DEF u, v, w, two, three

(* func_float_to_str writes the sign, the integer part and the decimals.   *)
LEMMA RealText ==
  ASSUME NEW x \in Int, NEW most \in Nat \ {0}, NEW places \in 0 .. most, NEW under \in BOOLEAN
  PROVE  \E tail, k, c : /\ FuncRealToStr(x, places, under) = Signed(x, FuncAbs(WholePart(x)), tail)
                         /\ Fraction(tail, most, k, c) /\ k \in Nat
                         /\ c[0] = FuncAbs(CutDecimals(x, places, under))
                         /\ k = places \/ c[0] = 0
<1> DEFINE int == WholePart(x)
           frac == CutDecimals(x, places, under)
           g == FuncAbs(frac)
           zero == <<LetterZero>>
           sign == IF x < 0 THEN <<Minus>> ELSE <<>>
           whole == Written(Positive(DigitsOfAny(int, 10)))
           low == Written(Positive(Decimals(frac, places)))
           part == IF places = 0 THEN <<>> ELSE <<Point>> \o (IF frac = 0 THEN zero ELSE low)
           none == [j \in Nat |-> 0]
<1>1. FuncRealToStr(x, places, under) = IF x = 0 THEN <<LetterZero, Point, LetterZero>> ELSE sign \o whole \o part
  BY DEF FuncRealToStr, WholePart
<1>2. /\ int \in Int /\ frac \in Int /\ FuncAbs(int) \in Nat /\ g \in Nat /\ g < Tens[places]
      /\ x = 0 => int = 0 /\ frac = 0
  <2>1. places \in Nat
    OBVIOUS
  <2>2. int \in Int /\ (x = 0 => int = 0)
    BY <2>1, RealParts
  <2>3. frac \in Int /\ g \in Nat /\ g < Tens[places] /\ (x = 0 => frac = 0)
    BY <2>1, CutFacts
  <2>4. FuncAbs(int) \in Nat
    BY <2>2, Amounts
  <2> QED
    BY <2>2, <2>3, <2>4
<1>3. whole = NumeralOf(FuncAbs(int), 10)
  <2>1. Positive(DigitsOfAny(int, 10)) = DigitsOfAny(FuncAbs(int), 10)
    BY <1>2, PositiveDigits
  <2> HIDE DEF int
  <2> QED
    BY <2>1, <1>2, WrittenNumeral
<1>4. zero \in Seq(Int) /\ Len(zero) = 1 /\ Spells(zero, 1, 1, 10, none)
  <2>1. HexCharacter(0) = LetterZero /\ zero[1] = LetterZero
    BY DEF HexCharacter, LetterZero
  <2>2. \A j \in 0 .. 1 - 1 : none[j] = 10 * none[j + 1] + 0 /\ zero[1 + 1 - 1 - j] = HexCharacter(0)
    <3> TAKE j \in 0 .. 1 - 1
    <3>1. j = 0
      OBVIOUS
    <3> QED
      BY <2>1, <3>1
  <2>3. 0 \in 0 .. 10 - 1 /\ none[1] = 0 /\ \A j \in 0 .. 1 : none[j] \in Nat
    OBVIOUS
  <2>4. zero \in Seq(Int) /\ Len(zero) = 1
    BY DEF LetterZero
  <2> HIDE DEF zero, none
  <2>5. \A j \in 0 .. 1 - 1 : \E d \in 0 .. 10 - 1 : none[j] = 10 * none[j + 1] + d /\ zero[1 + 1 - 1 - j] = HexCharacter(d)
    BY <2>2, <2>3
  <2> QED
    BY <2>3, <2>4, <2>5 DEF Spells
<1>5. CASE x = 0
  <2> DEFINE tail == <<Point>> \o zero
  <2>1. FuncRealToStr(x, places, under) = <<LetterZero, Point, LetterZero>>
    BY <1>1, <1>5
  <2>2. Signed(x, FuncAbs(int), tail) = (<<>> \o zero) \o tail
    <3>1. SignOf(x) = <<>> /\ FuncAbs(int) = 0
      BY <1>2, <1>5 DEF SignOf, FuncAbs
    <3>2. NumeralOf(0, 10) = zero
      <4>1. 10 \in 2 .. 16
        OBVIOUS
      <4> QED
        BY <4>1, ZeroNumeral
    <3> HIDE DEF int
    <3> QED
      BY <3>1, <3>2 DEF Signed
  <2>3. (<<>> \o zero) \o tail = <<LetterZero, Point, LetterZero>>
    <3>1. \A a, b \in Int : <<a>> \o <<b>> = <<a, b>>
      BY TwoCharacters
    <3>2. \A a, b, d \in Int : <<a>> \o <<b, d>> = <<a, b, d>>
      BY TwoCharacters
    <3>3. <<>> \o zero = zero
      BY <1>4, ConcatEmptySeq
    <3>4. LetterZero \in Int /\ Point \in Int
      BY DEF LetterZero, Point
    <3> QED
      BY <3>1, <3>2, <3>3, <3>4
  <2>4. Fraction(tail, most, 1, none)
    <3>1. 1 \in 1 .. most
      OBVIOUS
    <3> HIDE DEF zero, none
    <3> QED
      BY <1>4, <3>1 DEF Fraction
  <2>5. none[0] = g
    BY <1>2, <1>5 DEF FuncAbs
  <2>6. 1 \in Nat /\ none[0] = 0
    OBVIOUS
  <2> HIDE DEF tail, none
  <2> QED
    BY <2>1, <2>2, <2>3, <2>4, <2>5, <2>6
<1>6. CASE x # 0
  <2>1. FuncRealToStr(x, places, under) = Signed(x, FuncAbs(int), part)
    <3>1. sign = SignOf(x)
      BY DEF SignOf
    <3> HIDE DEF sign, whole, part, int
    <3> QED
      BY <3>1, <1>1, <1>3, <1>6 DEF Signed
  <2>2. CASE places = 0
    <3>1. part = <<>>
      BY <2>2
    <3>2. g = 0 /\ none[0] = g
      BY <1>2, <2>2, TensFacts
    <3>3. Fraction(part, most, 0, none)
      BY <3>1 DEF Fraction
    <3>4. 0 \in Nat /\ 0 = places
      BY <2>2
    <3> HIDE DEF part, none
    <3> QED
      BY <2>1, <3>2, <3>3, <3>4
  <2>3. CASE places # 0 /\ frac = 0
    <3>1. part = <<Point>> \o zero
      BY <2>3
    <3>2. Fraction(part, most, 1, none)
      <4>1. 1 \in 1 .. most
        OBVIOUS
      <4> HIDE DEF zero, none, part
      <4> QED
        BY <1>4, <3>1, <4>1 DEF Fraction
    <3>3. none[0] = g /\ none[0] = 0 /\ 1 \in Nat
      BY <2>3 DEF FuncAbs
    <3> HIDE DEF part, none
    <3> QED
      BY <2>1, <3>2, <3>3
  <2>4. CASE places # 0 /\ frac # 0
    <3> DEFINE c == [j \in Nat |-> g \div Tens[j]]
    <3>1. part = <<Point>> \o low
      BY <2>4
    <3>2. places \in Nat \ {0}
      BY <2>4
    <3>3. low \in Seq(Int) /\ Len(low) = places /\ Spells(low, 1, places, 10, c)
      <4> HIDE DEF frac
      <4> QED
        BY <3>2, <1>2, DecimalsSpelled
    <3>4. Fraction(part, most, places, c)
      <4>1. places \in 1 .. most
        BY <3>2
      <4> HIDE DEF low, c, part
      <4> QED
        BY <3>1, <3>3, <4>1 DEF Fraction
    <3>5. c[0] = g
      <4>1. c[0] = g \div 1
        BY TensFacts
      <4> HIDE DEF g
      <4> QED
        BY <4>1, <1>2
    <3>6. places \in Nat
      OBVIOUS
    <3> HIDE DEF c, part
    <3> QED
      BY <2>1, <3>4, <3>5, <3>6
  <2> QED
    BY <2>2, <2>3, <2>4
<1> QED
  BY <1>5, <1>6

LEMMA TurnedSign ==
  /\ \A c \in Int : Turned(<<c>>) = <<c>>
  /\ \A x : SignOf(x) \in Seq(Int) /\ Turned(SignOf(x)) = SignOf(x)
<1>1. ASSUME NEW c \in Int
      PROVE  Turned(<<c>>) = <<c>>
  <2> DEFINE u == <<c>>
  <2>1. u \in Seq(Int) /\ Len(u) = 1
    OBVIOUS
  <2> HIDE DEF u
  <2>2. Turned(u) \in Seq(Int) /\ Len(Turned(u)) = 1 /\ \A i \in 1 .. Len(u) : Turned(u)[i] = u[Len(u) + 1 - i]
    BY <2>1, TurnedFacts
  <2>3. \A i \in 1 .. Len(Turned(u)) : Turned(u)[i] = u[i]
    <3> TAKE i \in 1 .. Len(Turned(u))
    <3>1. i \in 1 .. Len(u) /\ Len(u) + 1 - i = i
      BY <2>1, <2>2
    <3> QED
      BY <3>1, <2>2
  <2> QED
    BY <2>1, <2>2, <2>3, SeqEqual DEF u
<1>2. Turned(<<>>) = <<>>
  BY DEF Turned
<1>3. ASSUME NEW x
      PROVE  SignOf(x) \in Seq(Int) /\ Turned(SignOf(x)) = SignOf(x)
  <2>1. CASE x < 0
    <3>1. SignOf(x) = <<Minus>> /\ Minus \in Int
      BY <2>1 DEF SignOf, Minus
    <3> QED
      BY <3>1, <1>1
  <2>2. CASE ~(x < 0)
    <3>1. SignOf(x) = <<>>
      BY <2>2 DEF SignOf
    <3> QED
      BY <3>1, <1>2
  <2> QED
    BY <2>1, <2>2
<1> QED
  BY <1>1, <1>3

(* Digits that were gathered backwards, with a sign behind them.           *)
LEMMA AsciiTurned ==
  ASSUME NEW n \in MinInt .. MaxInt, n # MinInt, NEW x
  PROVE  Turned(NumberConversionAscii(n, TRUE, 10) \o SignOf(x)) = SignOf(x) \o NumeralOf(FuncAbs(n), 10)
<1> DEFINE a == NumberConversionAscii(n, TRUE, 10)
           u == SignOf(x)
<1>1. a \in Seq(Int) /\ Turned(a) = NumeralOf(FuncAbs(n), 10)
  BY AsciiText
<1>2. u \in Seq(Int) /\ Turned(u) = u
  BY TurnedSign
<1> HIDE DEF a, u
<1>3. Turned(a \o u) = Turned(u) \o Turned(a)
  BY <1>1, <1>2, TurnedJoin
<1>4. Turned(a \o u) = u \o NumeralOf(FuncAbs(n), 10)
  BY <1>1, <1>2, <1>3
<1> QED
  BY <1>4 DEF a, u

(* %d writes what func_int_to_str does, %u and %x what the others do.      *)
LEMMA PrintSignedText ==
  ASSUME NEW n \in MinInt .. MaxInt, n # MinInt
  PROVE  PrintSigned(n) = FuncIntToStr(n)
<1>1. PrintSigned(n) = Turned(NumberConversionAscii(n, TRUE, 10) \o SignOf(n))
  BY DEF PrintSigned, SignOf
<1>2. Turned(NumberConversionAscii(n, TRUE, 10) \o SignOf(n)) = SignOf(n) \o NumeralOf(FuncAbs(n), 10)
  BY AsciiTurned
<1> QED
  BY <1>1, <1>2, IntText

LEMMA PrintUnsignedText ==
  ASSUME NEW n \in Nat, NEW base \in 2 .. 16
  PROVE  PrintUnsigned(n, base) = NumeralOf(n, base)
  BY AsciiText DEF PrintUnsigned

(* The parts of a real of the code are ints.                               *)
LEMMA RealFits ==
  ASSUME NEW x \in Int, FuncAbs(x) < Half * Scale
  PROVE  WholePart(x) \in MinInt .. MaxInt /\ WholePart(x) # MinInt
<1> DEFINE w == WholePart(x)
           a == FuncAbs(x)
           q == FuncAbs(w)
<1>1. Half \in Nat \ {0} /\ Scale \in Nat \ {0} /\ 0 \in Nat
  BY ConversionsAssumption
<1>2. w \in Int /\ q = a \div Scale
  BY <1>1, RealParts
<1>3. a \in Nat /\ q \in Nat
  BY <1>2 DEF FuncAbs
<1> HIDE DEF a, q
<1>4. Scale * q <= a
  BY <1>1, <1>2, <1>3, NaturalQuotient
<1>5. ~(Half <= q)
  <2>1. ASSUME Half <= q
        PROVE  FALSE
    <3>1. Scale * Half <= Scale * q /\ Scale * q \in Int /\ Scale * Half \in Int
      BY <2>1, <1>1, <1>3, ProductOrder
    <3>2. Scale * Half = Half * Scale
      BY <1>1
    <3> QED
      BY <3>1, <3>2, <1>3, <1>4 DEF a
  <2> QED
    BY <2>1
<1>6. q = FuncAbs(w)
  BY DEF q
<1> HIDE DEF w
<1>7. -Half < w /\ w < Half
  BY <1>1, <1>2, <1>3, <1>5, <1>6 DEF FuncAbs
<1> QED
  BY <1>1, <1>2, <1>7 DEF MinInt, MaxInt, w

(* Zeros before a numeral leave its number.                                *)
LEMMA PaddedSpelled ==
  ASSUME NEW g \in Nat, NEW places \in Nat \ {0}, g < Tens[places]
  PROVE  LET q == Len(NumeralOf(g, 10))
             d == [i \in 1 .. places - q |-> LetterZero] \o NumeralOf(g, 10)
         IN  /\ q \in Nat /\ q <= places
             /\ d \in Seq(Int) /\ Len(d) = places /\ Spells(d, 1, places, 10, Remaining(g, 10))
<1> DEFINE num == NumeralOf(g, 10)
           q == Len(num)
           zeros == [i \in 1 .. places - q |-> LetterZero]
           d == zeros \o num
           c == Remaining(g, 10)
<1>1. 10 \in 2 .. 16 /\ 10 \in Nat /\ 10 >= 2 /\ g \in Int /\ FuncAbs(g) = g
  BY DEF FuncAbs
<1>2. /\ q \in Nat \ {0} /\ num \in Seq(Int) /\ Spells(num, 1, q, 10, c)
      /\ \A m \in Nat \ {0} : c[m] = 0 => q <= m
  BY <1>1, NumeralFacts
<1>3. c[places] = 0
  BY <1>1, PassesFew
<1>4. q <= places
  BY <1>2, <1>3
<1>5. /\ \A j \in Nat : c[j] \in Nat
      /\ \A i, m \in Nat : (i <= m /\ c[i] = 0) => c[m] = 0
  BY <1>1, RemainingNatural
<1> HIDE DEF num, q, c
<1>6. zeros \in Seq(Int) /\ Len(zeros) = places - q /\ \A i \in 1 .. places - q : zeros[i] = LetterZero
  <2>1. zeros \in [1 .. places - q -> Int] /\ places - q \in Nat
    BY <1>2, <1>4 DEF LetterZero
  <2>2. zeros \in Seq(Int) /\ Len(zeros) = places - q
    BY <2>1, Sequence
  <2> QED
    BY <2>2
<1> HIDE DEF zeros
<1>7. /\ d \in Seq(Int) /\ Len(d) = places
      /\ \A i \in 1 .. places - q : d[i] = LetterZero
      /\ \A i \in 1 .. q : d[places - q + i] = num[i]
  <2>1. /\ zeros \o num \in Seq(Int) /\ Len(zeros \o num) = Len(zeros) + Len(num)
        /\ \A i \in 1 .. Len(zeros) : (zeros \o num)[i] = zeros[i]
        /\ \A i \in 1 .. Len(num) : (zeros \o num)[Len(zeros) + i] = num[i]
    BY <1>2, <1>6, Joining
  <2>2. Len(num) = q
    BY DEF q
  <2> QED
    BY <2>1, <2>2, <1>2, <1>4, <1>6
<1> HIDE DEF d
<1>8. c[q] = 0
  BY <1>2 DEF Spells
<1>9. ASSUME NEW j \in 0 .. places - 1
      PROVE  \E e \in 0 .. 10 - 1 : c[j] = 10 * c[j + 1] + e /\ d[1 + places - 1 - j] = HexCharacter(e)
  <2>1. CASE j < q
    <3>1. j \in 0 .. q - 1 /\ q - j \in 1 .. q /\ 1 + places - 1 - j = places - q + (q - j) /\ 1 + q - 1 - j = q - j
      BY <2>1, <1>2, <1>4
    <3>2. PICK e \in 0 .. 10 - 1 : c[j] = 10 * c[j + 1] + e /\ num[1 + q - 1 - j] = HexCharacter(e)
      BY <3>1, <1>2 DEF Spells
    <3>3. d[1 + places - 1 - j] = num[1 + q - 1 - j]
      BY <3>1, <1>7
    <3> QED
      BY <3>2, <3>3
  <2>2. CASE ~(j < q)
    <3>1. j \in Nat /\ j + 1 \in Nat /\ q <= j /\ q <= j + 1 /\ q \in Nat /\ 1 + places - 1 - j \in 1 .. places - q
      BY <2>2, <1>2, <1>4
    <3>2. c[j] = 0 /\ c[j + 1] = 0
      BY <3>1, <1>5, <1>8
    <3>3. d[1 + places - 1 - j] = HexCharacter(0)
      BY <3>1, <1>7 DEF HexCharacter, LetterZero
    <3>4. 0 \in 0 .. 10 - 1 /\ c[j] = 10 * c[j + 1] + 0
      BY <3>2
    <3> QED
      BY <3>3, <3>4
  <2> QED
    BY <2>1, <2>2
<1>10. \A j \in 0 .. places : c[j] \in Nat
  BY <1>5
<1>11. Spells(d, 1, places, 10, c)
  BY <1>3, <1>9, <1>10 DEF Spells
<1> QED
  BY <1>2, <1>4, <1>7, <1>11 DEF d, zeros, q, num, c

(* %f writes the sign, the integer part and all of the decimals.           *)
LEMMA PrintRealText ==
  ASSUME NEW x \in Int, FuncAbs(x) < Half * Scale, NEW places \in Nat \ {0}, Tens[places] = Scale, Scale <= Half,
         NEW under \in BOOLEAN
  PROVE  \E tail, c : /\ PrintReal(x, places, under) = Signed(x, FuncAbs(WholePart(x)), tail)
                      /\ Fraction(tail, places, places, c) /\ c[0] = FuncAbs(CutDecimals(x, places, under))
<1> DEFINE int == WholePart(x)
           frac == CutDecimals(x, places, under)
           g == FuncAbs(frac)
           sign == SignOf(x)
           high == NumberConversionAscii(int, TRUE, 10)
           low == NumberConversionAscii(frac, TRUE, 10)
           num == NumeralOf(g, 10)
           zeros == [i \in 1 .. places - Len(low) |-> LetterZero]
           point == <<Point>>
           d == zeros \o num
           tail == point \o d
           c == Remaining(g, 10)
<1>1. Half \in Nat \ {0} /\ Scale \in Nat \ {0}
  BY ConversionsAssumption
<1>2. int \in MinInt .. MaxInt /\ int # MinInt
  BY RealFits
<1>3. frac \in Int /\ g < Tens[places] /\ g \in Nat
  BY CutFacts
<1>4. frac \in MinInt .. MaxInt /\ frac # MinInt
  <2>1. g < Half
    BY <1>1, <1>3
  <2> HIDE DEF frac
  <2> QED
    BY <2>1, <1>1, <1>3 DEF FuncAbs, MinInt, MaxInt
<1>5. PrintReal(x, places, under) = Turned(high \o sign) \o Turned(low \o zeros \o point)
  BY DEF PrintReal, WholePart, SignOf
<1>6. Turned(high \o sign) = sign \o NumeralOf(FuncAbs(int), 10)
  BY <1>2, AsciiTurned
<1>7. low \in Seq(Int) /\ Turned(low) = num /\ Len(low) = Len(num)
  BY <1>4, AsciiText
<1>8. /\ Len(num) \in Nat /\ Len(num) <= places
      /\ [i \in 1 .. places - Len(num) |-> LetterZero] \o num \in Seq(Int)
      /\ Len([i \in 1 .. places - Len(num) |-> LetterZero] \o num) = places
      /\ Spells([i \in 1 .. places - Len(num) |-> LetterZero] \o num, 1, places, 10, c)
  BY <1>3, PaddedSpelled
<1> HIDE DEF int, frac, g, sign, high, low, num, c
<1>9. d \in Seq(Int) /\ Len(d) = places /\ Spells(d, 1, places, 10, c)
  BY <1>7, <1>8
<1>10. zeros \in Seq(Int) /\ Turned(zeros) = zeros
  <2> DEFINE n == places - Len(low)
  <2>1. n \in Nat
    BY <1>7, <1>8
  <2>2. zeros \in [1 .. n -> Int] /\ \A i \in 1 .. n : zeros[i] = LetterZero
    BY DEF LetterZero
  <2> HIDE DEF n, zeros
  <2>3. zeros \in Seq(Int) /\ Len(zeros) = n
    BY <2>1, <2>2, Sequence
  <2>4. /\ Turned(zeros) \in Seq(Int) /\ Len(Turned(zeros)) = n
        /\ \A i \in 1 .. n : Turned(zeros)[i] = zeros[n + 1 - i]
    BY <2>3, TurnedFacts
  <2>5. \A i \in 1 .. Len(Turned(zeros)) : Turned(zeros)[i] = zeros[i]
    <3> TAKE i \in 1 .. Len(Turned(zeros))
    <3>1. i \in 1 .. n /\ n + 1 - i \in 1 .. n
      BY <2>1, <2>4
    <3> QED
      BY <3>1, <2>2, <2>4
  <2> QED
    BY <2>3, <2>4, <2>5, SeqEqual
<1>11. point \in Seq(Int) /\ Turned(point) = point
  <2>1. Point \in Int
    BY DEF Point
  <2> QED
    BY <2>1, TurnedSign
<1> HIDE DEF d, zeros, point
<1>12. Turned(low \o zeros \o point) = tail
  <2>1. low \o zeros \in Seq(Int) /\ Turned(low \o zeros) = Turned(zeros) \o Turned(low)
    BY <1>7, <1>10, Joining, TurnedJoin
  <2> DEFINE lz == low \o zeros
  <2>2. lz \in Seq(Int) /\ Turned(lz) = d
    BY <2>1, <1>7, <1>10 DEF d
  <2> HIDE DEF lz
  <2>3. Turned(lz \o point) = Turned(point) \o Turned(lz)
    BY <2>2, <1>11, TurnedJoin
  <2> QED
    BY <2>2, <2>3, <1>11 DEF lz
<1>13. tail = <<Point>> \o d
  BY DEF point
<1> HIDE DEF tail
<1>14. PrintReal(x, places, under) = Signed(x, FuncAbs(int), tail)
  BY <1>5, <1>6, <1>12 DEF Signed, sign
<1>15. Fraction(tail, places, places, c)
  <2>1. places \in 1 .. places
    OBVIOUS
  <2> QED
    BY <2>1, <1>9, <1>13 DEF Fraction
<1>16. c[0] = g
  <2>1. g \in Int
    BY <1>3
  <2> QED
    BY <2>1, RemainingFacts DEF c
<1> QED
  BY <1>14, <1>15, <1>16 DEF int, frac, g

LEMMA Shares ==
  ASSUME NEW T \in Nat \ {0}, NEW U \in Nat \ {0}, NEW g \in Nat, NEW c \in Nat, c = (g * T) \div (T * U)
  PROVE  c * U <= g /\ g < c * U + U /\ (c * (T * U)) \div T = c * U
<1> DEFINE cu == c * U
           b == T * U
           gt == g * T
<1>1. b \in Nat \ {0} /\ gt \in Nat /\ cu \in Nat
  BY PositiveProduct
<1>2. b * c <= gt /\ gt < b * c + b
  <2>1. c = gt \div b
    OBVIOUS
  <2> HIDE DEF b, gt
  <2> QED
    BY <2>1, <1>1, NaturalQuotient
<1>3. b * c = cu * T /\ c * b = cu * T /\ b = U * T
  <2>1. \A i, j, k \in Int : (i * j) * k = (k * j) * i /\ k * (i * j) = (k * j) * i /\ i * j = j * i
    OBVIOUS
  <2> QED
    BY <2>1
<1>4. b * c + b = (cu + U) * T
  <2>1. \A i, j, k \in Int : i * k + j * k = (i + j) * k
    OBVIOUS
  <2> HIDE DEF cu, b
  <2> QED
    BY <2>1, <1>1, <1>3
<1>5. \A i, j \in Int : (i * T <= j * T => i <= j) /\ (i * T < j * T => i < j)
  <2>1. ASSUME NEW i \in Int, NEW j \in Int, i > j
        PROVE  i * T > j * T
    <3>1. i - j \in Nat \ {0}
      BY <2>1
    <3>2. (i - j) * T \in Nat \ {0}
      BY <3>1, PositiveProduct
    <3>3. (i - j) * T = i * T - j * T
      OBVIOUS
    <3>4. i * T \in Int /\ j * T \in Int
      OBVIOUS
    <3> DEFINE it == i * T
               jt == j * T
               d == (i - j) * T
    <3>5. it \in Int /\ jt \in Int /\ d = it - jt /\ d \in Nat \ {0}
      BY <3>2, <3>3, <3>4
    <3> HIDE DEF it, jt, d
    <3>6. it > jt
      BY <3>5
    <3> QED
      BY <3>6 DEF it, jt
  <2>2. ASSUME NEW i \in Int, NEW j \in Int
        PROVE  (i * T <= j * T => i <= j) /\ (i * T < j * T => i < j)
    <3> DEFINE it == i * T
               jt == j * T
    <3>1. it \in Int /\ jt \in Int /\ (i > j => it > jt) /\ (i = j => it = jt)
      BY <2>1
    <3> HIDE DEF it, jt
    <3>2. (it <= jt => i <= j) /\ (it < jt => i < j)
      BY <3>1
    <3> QED
      BY <3>2 DEF it, jt
  <2> QED
    BY <2>2
<1>6. cu <= g /\ g < cu + U
  <2>1. cu * T <= g * T /\ g * T < (cu + U) * T
    BY <1>2, <1>3, <1>4
  <2>2. cu \in Int /\ g \in Int /\ cu + U \in Int
    BY <1>1
  <2> HIDE DEF cu
  <2> QED
    BY <2>1, <2>2, <1>5
<1>7. (c * b) \div T = cu
  <2>1. (cu * T) \div T = cu
    <3> HIDE DEF cu
    <3> DEFINE a == cu * T
               q == a \div T
               tq == T * q
    <3>1. a \in Nat
      BY <1>1
    <3>2. q \in Nat /\ tq <= a /\ a < tq + T
      <4> HIDE DEF a
      <4> QED
        BY <3>1, NaturalQuotient
    <3>3. tq = q * T /\ tq \in Int /\ tq + T = (q + 1) * T
      <4> HIDE DEF q
      <4> QED
        BY <3>2
    <3> HIDE DEF q, tq
    <3>4. q * T <= cu * T /\ cu * T < (q + 1) * T
      BY <3>2, <3>3
    <3>5. q <= cu /\ cu < q + 1
      BY <3>2, <3>4, <1>1, <1>5
    <3>6. q = cu
      BY <3>2, <3>5, <1>1
    <3> QED
      BY <3>6 DEF q
  <2> QED
    BY <2>1, <1>3
<1> QED
  BY <1>6, <1>7

(* What is read of the parts of a real.                                    *)
ReadParts(x, w, a, k) ==
  IF x < 0 THEN -(w * Scale + (a * Scale) \div Tens[k]) ELSE w * Scale + (a * Scale) \div Tens[k]

LEMMA PartsBack ==
  ASSUME NEW x \in Int, NEW most \in Nat, NEW places \in 0 .. most, Scale = Tens[most], NEW k \in Nat,
         NEW b \in Nat, b * Tens[most - places] <= Below(x), k = places \/ b = 0
  PROVE  LET V == ReadParts(x, FuncAbs(WholePart(x)), b, k)
             loss == Below(x) - b * Tens[most - places]
         IN  /\ V \in Int /\ FuncAbs(x - V) = loss /\ FuncAbs(V) = FuncAbs(x) - loss /\ loss \in Nat
             /\ FuncAbs(V) <= FuncAbs(x)
             /\ V * x >= 0
<1> DEFINE w == FuncAbs(WholePart(x))
           g == Below(x)
           T == Tens[places]
           U == Tens[most - places]
           ws == w * Scale
           rest == (b * Scale) \div Tens[k]
           V == ReadParts(x, w, b, k)
<1>1. places \in Nat /\ most - places \in Nat /\ T \in Nat \ {0} /\ U \in Nat \ {0} /\ Tens[k] \in Nat \ {0}
  BY TensFacts
<1>2. Scale = T * U
  <2>1. places <= most
    OBVIOUS
  <2> QED
    BY <2>1, <1>1, TensProduct
<1>3. /\ g \in 0 .. Scale - 1 /\ FuncAbs(x) = Scale * w + g
      /\ w \in Nat /\ Scale \in Nat \ {0}
  <2>1. /\ WholePart(x) \in Int
        /\ Below(x) \in 0 .. Scale - 1 /\ FuncAbs(x) = Scale * FuncAbs(WholePart(x)) + Below(x)
    BY <1>1, RealParts
  <2>2. w \in Nat
    BY <2>1, Amounts
  <2> QED
    BY <2>1, <2>2, ConversionsAssumption
<1>4. V = IF x < 0 THEN -(ws + rest) ELSE ws + rest
  BY DEF ReadParts
<1>5. (k = places \/ b = 0) /\ b * U <= g
  OBVIOUS
<1> HIDE DEF V, w, g, T, U
<1>6. (b * (T * U)) \div T = b * U
  <2> DEFINE h == b * U
  <2>1. h \in Nat
    BY <1>1, PositiveProduct
  <2>2. b * (T * U) = h * T
    <3>1. \A i, j, l \in Int : i * (j * l) = (i * l) * j
      OBVIOUS
    <3> QED
      BY <3>1, <1>1
  <2> HIDE DEF h
  <2>3. (h * T) \div (T * 1) = h
    <3> DEFINE c == (h * T) \div (T * 1)
    <3>1. T * 1 = T
      BY <1>1
    <3>2. T * 1 \in Nat \ {0} /\ h * T \in Nat
      BY <3>1, <2>1, <1>1, PositiveProduct
    <3>3. c \in Nat
      <4> DEFINE m == h * T
                 n == T * 1
      <4>1. m \in Nat /\ n \in Nat \ {0} /\ c = m \div n
        BY <3>2
      <4> HIDE DEF m, n, c
      <4> QED
        BY <4>1, NaturalQuotient
    <3>4. c * 1 <= h /\ h < c * 1 + 1
      <4>1. \A t, u \in Nat \ {0}, i, j \in Nat :
              j = (i * t) \div (t * u) => j * u <= i /\ i < j * u + u
        BY Shares, Zenon
      <4>2. 1 \in Nat \ {0}
        OBVIOUS
      <4>3. c = (h * T) \div (T * 1)
        OBVIOUS
      <4> HIDE DEF c
      <4> QED
        BY <4>1, <4>2, <4>3, <3>3, <2>1, <1>1, Zenon
    <3> HIDE DEF c
    <3>5. c = h
      BY <3>3, <3>4, <2>1
    <3> QED
      BY <3>5 DEF c
  <2>4. T * 1 = T
    BY <1>1
  <2> QED
    BY <2>2, <2>3, <2>4 DEF h
<1>7. rest = b * U
  <2>1. CASE k = places
    BY <2>1, <1>6, <1>2 DEF T
  <2>2. CASE b = 0
    <3>1. b * Scale = 0 /\ b * U = 0
      BY <2>2, <1>1, <1>3
    <3>2. \A t \in Nat \ {0} : 0 \div t = 0
      OBVIOUS
    <3> QED
      BY <3>1, <3>2, <1>1
  <2> QED
    BY <2>1, <2>2, <1>5
<1>8. rest \in Nat /\ ws \in Nat /\ FuncAbs(x) = ws + g /\ g \in Nat
  <2>1. \A i, j \in Nat : i * j \in Nat /\ i * j = j * i
    OBVIOUS
  <2> QED
    BY <2>1, <1>7, <1>1, <1>3
<1>9. rest <= g
  BY <1>5, <1>7
<1> HIDE DEF rest, ws
<1>10. /\ V \in Int /\ FuncAbs(x - V) = g - rest /\ FuncAbs(V) = FuncAbs(x) - (g - rest) /\ g - rest \in Nat
       /\ FuncAbs(V) <= FuncAbs(x) /\ (x < 0 => V <= 0) /\ (x >= 0 => V >= 0)
  <2>1. CASE x < 0
    BY <2>1, <1>4, <1>8, <1>9 DEF FuncAbs
  <2>2. CASE ~(x < 0)
    BY <2>2, <1>4, <1>8, <1>9 DEF FuncAbs
  <2> QED
    BY <2>1, <2>2
<1>11. V * x >= 0
  <2>1. \A i, j \in Int : (i >= 0 /\ j >= 0) \/ (i <= 0 /\ j <= 0) => i * j >= 0
    OBVIOUS
  <2> QED
    BY <2>1, <1>10
<1> QED
  BY <1>7, <1>10, <1>11 DEF U, V, w, g

(* What is cut off is no more than a unit of the last decimal, and less of *)
(* a real that the variable holds exactly.                                 *)
LEMMA CutLoss ==
  ASSUME NEW x \in Int, NEW most \in Nat, NEW places \in 0 .. most, Scale = Tens[most], NEW under \in BOOLEAN
  PROVE  LET b == FuncAbs(CutDecimals(x, places, under))
             loss == Below(x) - b * Tens[most - places]
         IN  /\ b \in Nat /\ b * Tens[most - places] <= Below(x)
             /\ loss \in 0 .. Tens[most - places] /\ loss * Tens[places] <= Scale
             /\ HeldExactly(x, Scale) =>
                  loss < Tens[most - places] /\ loss * Tens[places] < Scale
<1> DEFINE f == CutDecimals(x, places, under)
           b == FuncAbs(f)
           a == FuncAbs(LowDecimals(x, places))
           g == Below(x)
           T == Tens[places]
           U == Tens[most - places]
           aU == a * U
           bU == b * U
           loss == g - bU
<1>1. places \in Nat /\ most - places \in Nat /\ T \in Nat \ {0} /\ U \in Nat \ {0}
  BY TensFacts
<1>2. Scale = T * U
  <2>1. places <= most
    OBVIOUS
  <2> QED
    BY <2>1, <1>1, TensProduct
<1>3. g \in Nat /\ a = (g * T) \div Scale /\ a \in Nat
  <2>1. /\ LowDecimals(x, places) \in Int /\ Below(x) \in 0 .. Scale - 1
        /\ FuncAbs(LowDecimals(x, places)) = (Below(x) * Tens[places]) \div Scale
    BY <1>1, RealParts
  <2>2. a \in Nat
    BY <2>1, Amounts
  <2> QED
    BY <2>1, <2>2, ConversionsAssumption
<1>4. /\ b \in Nat
      /\ \/ b = a
         \/ a >= 1 /\ b = a - 1 /\ g * T = a * Scale /\ ~HeldExactly(x, Scale)
  <2>1. /\ f \in Int /\ b \in Nat
        /\ \/ f = LowDecimals(x, places)
           \/ a >= 1 /\ b = a - 1 /\ g * T = a * Scale /\ ~HeldExactly(x, Scale)
    BY <1>1, CutFacts
  <2> QED
    BY <2>1
<1> HIDE DEF f, a, b, g, T, U
<1>5. aU <= g /\ g < aU + U
  <2>1. a = (g * T) \div (T * U)
    BY <1>2, <1>3
  <2>2. \A t, u \in Nat \ {0}, h, c \in Nat : c = (h * t) \div (t * u) => c * u <= h /\ h < c * u + u
    BY Shares, Zenon
  <2> QED
    BY <2>1, <2>2, <1>1, <1>3, Zenon
<1>6. aU \in Nat /\ bU \in Nat /\ T * U \in Nat
  BY <1>1, <1>3, <1>4, PositiveProduct
(* A loss of so much.                                                      *)
<1>7. \A i \in Nat : (i <= U => i * T <= Scale) /\ (i < U => i * T < Scale)
  <2> TAKE i \in Nat
  <2> DEFINE iT == i * T
             sT == T * U
             rT == (U - i) * T
  <2>1. iT \in Nat /\ sT \in Nat /\ rT = sT - iT
    <3>1. \A j, k, l \in Int : (j - k) * l = l * j - k * l
      OBVIOUS
    <3> QED
      BY <3>1, <1>1, <1>6, PositiveProduct
  <2>2. (i <= U => rT \in Nat) /\ (i < U => rT \in Nat \ {0})
    <3>1. ASSUME i <= U
          PROVE  rT \in Nat
      <4>1. U - i \in Nat
        BY <3>1, <1>1
      <4> QED
        BY <4>1, <1>1, PositiveProduct
    <3>2. ASSUME i < U
          PROVE  rT \in Nat \ {0}
      <4>1. U - i \in Nat /\ U - i # 0 /\ T # 0
        BY <3>2, <1>1
      <4> QED
        BY <4>1, <1>1, PositiveProduct
    <3> QED
      BY <3>1, <3>2
  <2>3. sT = Scale
    BY <1>2
  <2> HIDE DEF iT, sT, rT
  <2>4. (i <= U => iT <= Scale) /\ (i < U => iT < Scale)
    BY <2>1, <2>2, <2>3
  <2> QED
    BY <2>4 DEF iT
<1>8. CASE b = a
  <2>1. bU = aU
    BY <1>8
  <2> HIDE DEF aU, bU
  <2>2. bU <= g /\ loss \in Nat /\ loss < U
    <3>1. bU <= g /\ g < bU + U /\ g \in Nat /\ bU \in Nat /\ U \in Nat
      BY <2>1, <1>1, <1>3, <1>5, <1>6
    <3> QED
      BY <3>1
  <2> HIDE DEF loss
  <2>3. loss * T < Scale /\ loss \in 0 .. U
    <3>1. loss * T < Scale
      BY <2>2, <1>7, Zenon
    <3> QED
      BY <3>1, <2>2, <1>1
  <2>4. loss * T \in Nat /\ Scale \in Nat
    BY <2>2, <1>1, <1>2, <1>6, PositiveProduct
  <2> DEFINE lT == loss * T
  <2>5. lT < Scale /\ lT \in Nat /\ Scale \in Nat
    BY <2>3, <2>4
  <2> HIDE DEF lT
  <2>6. lT <= Scale
    BY <2>5
  <2> QED
    BY <1>4, <2>2, <2>3, <2>6 DEF lT, loss, bU, b, f, g, T, U
<1>9. CASE a >= 1 /\ b = a - 1 /\ g * T = a * Scale /\ ~HeldExactly(x, Scale)
  <2>1. bU = aU - U
    <3>1. \A i, j \in Int : (i - 1) * j = i * j - j
      OBVIOUS
    <3> QED
      BY <3>1, <1>1, <1>3, <1>9
  <2>2. aU * T = g * T
    <3>1. \A i, j, k \in Int : (i * j) * k = i * (k * j)
      OBVIOUS
    <3>2. aU * T = a * Scale
      BY <3>1, <1>1, <1>2, <1>3
    <3> QED
      BY <3>2, <1>9
  <2> HIDE DEF aU, bU
  <2>3. g = aU
    <3>1. ASSUME g # aU
          PROVE  FALSE
      <4> DEFINE d == g - aU
      <4>1. d \in Nat /\ d # 0 /\ T # 0 /\ T \in Nat
        BY <3>1, <1>1, <1>3, <1>5, <1>6
      <4>2. d * T = g * T - aU * T /\ g * T \in Int
        <5>1. \A i, j, k \in Int : (i - j) * k = i * k - j * k /\ i * k \in Int
          OBVIOUS
        <5> QED
          BY <5>1, <1>1, <1>3, <1>6
      <4>3. d * T \in Nat \ {0}
        <5> HIDE DEF d
        <5> QED
          BY <4>1, PositiveProduct
      <4> DEFINE gT == g * T
                 dT == d * T
      <4>4. gT \in Int /\ dT = gT - gT /\ dT \in Nat \ {0}
        BY <4>2, <4>3, <2>2
      <4> HIDE DEF gT, dT
      <4> QED
        BY <4>4
    <3> QED
      BY <3>1
  <2>4. loss = U /\ bU <= g
    BY <2>1, <2>3, <1>1, <1>6
  <2>5. loss * T <= Scale /\ loss \in 0 .. U
    BY <2>4, <1>1, <1>7
  <2> QED
    BY <1>4, <1>9, <2>4, <2>5 DEF bU, b, f, g, T, U
<1> QED
  BY <1>4, <1>8, <1>9

(* What is written of a real and read back lost no more than a unit of its *)
(* last decimal.                                                           *)
LEMMA RealBack ==
  ASSUME NEW x \in Int, NEW most \in Nat \ {0}, NEW places \in 0 .. most, Scale = Tens[most],
         NEW read \in Nat, read >= most, NEW under \in BOOLEAN
  PROVE  LET V == FuncStrToReal(FuncRealToStr(x, places, under), read)
         IN  /\ FuncAbs(x - V) * Tens[places] <= Scale
             /\ HeldExactly(x, Scale) => FuncAbs(x - V) * Tens[places] < Scale
             /\ FuncAbs(V) <= FuncAbs(x)
             /\ V * x >= 0
<1> DEFINE w == FuncAbs(WholePart(x))
           b == FuncAbs(CutDecimals(x, places, under))
<1>1. PICK tail, k, c : /\ FuncRealToStr(x, places, under) = Signed(x, w, tail)
                        /\ Fraction(tail, read, k, c) /\ k \in Nat /\ c[0] = b
                        /\ k = places \/ c[0] = 0
  <2>1. read \in Nat \ {0} /\ places \in 0 .. read
    OBVIOUS
  <2>3. x \in Int
    OBVIOUS
  <2>4. under \in BOOLEAN
    OBVIOUS
  <2>2. \E tail, k, c : /\ FuncRealToStr(x, places, under) = Signed(x, FuncAbs(WholePart(x)), tail)
                        /\ Fraction(tail, read, k, c) /\ k \in Nat
                        /\ c[0] = FuncAbs(CutDecimals(x, places, under))
                        /\ k = places \/ c[0] = 0
    <3> DEFINE Spelled(y, m, p, u) == \E tail, k, c :
                                     /\ FuncRealToStr(y, p, u) = Signed(y, FuncAbs(WholePart(y)), tail)
                                     /\ Fraction(tail, m, k, c) /\ k \in Nat
                                     /\ c[0] = FuncAbs(CutDecimals(y, p, u))
                                     /\ k = p \/ c[0] = 0
    <3>1. \A y \in Int : \A m \in Nat \ {0} : \A p \in 0 .. m : \A u \in BOOLEAN : Spelled(y, m, p, u)
      BY RealText
    <3> HIDE DEF Spelled
    <3>3. Spelled(x, read, places, under)
      BY <2>1, <2>3, <2>4, <3>1, Zenon
    <3> QED
      BY <3>3 DEF Spelled
  <2> QED
    BY <2>2
<1>2. w \in Nat
  <2>1. 0 \in Nat /\ WholePart(x) \in Int
    BY RealParts
  <2> QED
    BY <2>1, Amounts
<1>3. FuncStrToReal(Signed(x, w, tail), read) = ReadParts(x, w, b, k)
  <2> HIDE DEF w
  <2>1. FuncStrToReal(Signed(x, w, tail), read)
          = IF x < 0 THEN -(w * Scale + (c[0] * Scale) \div Tens[k]) ELSE w * Scale + (c[0] * Scale) \div Tens[k]
    BY <1>1, <1>2, RealRead
  <2> HIDE DEF b
  <2> QED
    BY <2>1, <1>1 DEF ReadParts
<1>4. k = places \/ b = 0
  BY <1>1
<1> DEFINE V == ReadParts(x, w, b, k)
           loss == Below(x) - b * Tens[most - places]
<1>5. /\ b \in Nat /\ b * Tens[most - places] <= Below(x) /\ loss * Tens[places] <= Scale
      /\ HeldExactly(x, Scale) => loss * Tens[places] < Scale
  <2>1. most \in Nat
    OBVIOUS
  <2> QED
    BY <2>1, CutLoss
<1>6. FuncAbs(x - V) = loss /\ FuncAbs(V) <= FuncAbs(x) /\ V * x >= 0
  <2>1. most \in Nat /\ k \in Nat /\ b \in Nat /\ b * Tens[most - places] <= Below(x) /\ (k = places \/ b = 0)
    BY <1>1, <1>4, <1>5
  <2> HIDE DEF b
  <2>3. x \in Int /\ Scale = Tens[most]
    OBVIOUS
  <2>4. places \in 0 .. most
    OBVIOUS
  <2>2. /\ FuncAbs(x - ReadParts(x, FuncAbs(WholePart(x)), b, k)) = Below(x) - b * Tens[most - places]
        /\ FuncAbs(ReadParts(x, FuncAbs(WholePart(x)), b, k)) <= FuncAbs(x)
        /\ ReadParts(x, FuncAbs(WholePart(x)), b, k) * x >= 0
    <3> DEFINE PutTogether(y, m, p, j, d) ==
                 LET v == ReadParts(y, FuncAbs(WholePart(y)), d, j)
                     l == Below(y) - d * Tens[m - p]
                 IN  /\ v \in Int /\ FuncAbs(y - v) = l /\ FuncAbs(v) = FuncAbs(y) - l /\ l \in Nat
                     /\ FuncAbs(v) <= FuncAbs(y)
                     /\ v * y >= 0
    <3>1. \A y \in Int : \A m \in Nat : \A p \in 0 .. m : Scale = Tens[m] =>
             \A j \in Nat : \A d \in Nat : d * Tens[m - p] <= Below(y) => (j = p \/ d = 0 => PutTogether(y, m, p, j, d))
      BY PartsBack
    <3> HIDE DEF PutTogether
    <3>3. PutTogether(x, most, places, k, b)
      BY <2>1, <2>3, <2>4, <3>1, Zenon
    <3> QED
      BY <3>3 DEF PutTogether
  <2> QED
    BY <2>2 DEF w
<1>7. FuncStrToReal(FuncRealToStr(x, places, under), read) = V
  BY <1>1, <1>3
<1> HIDE DEF V, loss
<1> QED
  BY <1>5, <1>6, <1>7

(* A %f with all of the decimals reads back as the real, or as the next    *)
(* nearer to zero.                                                         *)
LEMMA PrintRealBack ==
  ASSUME NEW x \in Int, FuncAbs(x) < Half * Scale, NEW places \in Nat \ {0}, Tens[places] = Scale, Scale <= Half,
         NEW under \in BOOLEAN
  PROVE  LET V == FuncStrToReal(PrintReal(x, places, under), places)
             less == FuncAbs(x) - FuncAbs(V)
         IN  /\ PrintReal(x, places, under) \in Seq(Int)
             /\ V * x >= 0 /\ less \in {0, 1} /\ (HeldExactly(x, Scale) => less = 0)
<1> DEFINE w == FuncAbs(WholePart(x))
           b == FuncAbs(CutDecimals(x, places, under))
           V == ReadParts(x, w, b, places)
           loss == Below(x) - b * Tens[places - places]
<1>1. PICK tail, c : /\ PrintReal(x, places, under) = Signed(x, w, tail)
                     /\ Fraction(tail, places, places, c) /\ c[0] = b
  BY PrintRealText
<1>2. w \in Nat
  <2>1. 0 \in Nat /\ WholePart(x) \in Int
    BY RealParts
  <2> QED
    BY <2>1, Amounts
<1>3. FuncStrToReal(Signed(x, w, tail), places) = V
  <2>1. places \in Nat
    OBVIOUS
  <2> HIDE DEF w
  <2>2. FuncStrToReal(Signed(x, w, tail), places)
          = IF x < 0 THEN -(w * Scale + (c[0] * Scale) \div Tens[places])
            ELSE w * Scale + (c[0] * Scale) \div Tens[places]
    BY <2>1, <1>1, <1>2, RealRead
  <2> HIDE DEF b
  <2> QED
    BY <2>2, <1>1 DEF ReadParts
<1>4. places \in Nat /\ places \in 0 .. places
  OBVIOUS
<1>5. /\ b \in Nat /\ b * Tens[places - places] <= Below(x) /\ loss \in 0 .. Tens[places - places]
      /\ HeldExactly(x, Scale) => loss < Tens[places - places]
  BY <1>4, CutLoss
<1>6. V \in Int /\ FuncAbs(V) = FuncAbs(x) - loss /\ V * x >= 0
  <2>1. b \in Nat /\ b * Tens[places - places] <= Below(x)
    BY <1>5
  <2> HIDE DEF b
  <2> QED
    BY <2>1, <1>4, PartsBack DEF w
<1>7. FuncAbs(x) - FuncAbs(V) \in {0, 1} /\ (HeldExactly(x, Scale) => FuncAbs(x) - FuncAbs(V) = 0)
  <2>1. Tens[places - places] = 1
    BY TensFacts
  <2>2. FuncAbs(x) \in Nat
    BY Amounts
  <2>3. loss \in 0 .. 1 /\ (HeldExactly(x, Scale) => loss < 1)
    BY <1>5, <2>1
  <2> HIDE DEF loss, V
  <2> QED
    BY <2>2, <2>3, <1>6
<1>8. tail \in Seq(Int) /\ (tail # <<>> => ~IsDigit(tail[1]))
  <2>1. CASE tail = <<>>
    BY <2>1
  <2>2. CASE tail # <<>>
    <3>1. PICK d \in Seq(Int) : tail = <<Point>> \o d
      BY <2>2, <1>1 DEF Fraction
    <3> DEFINE p == <<Point>>
    <3>2. p \in Seq(Int) /\ Len(p) = 1 /\ p[1] = Point
      BY DEF Point
    <3> HIDE DEF p
    <3>3. p \o d \in Seq(Int) /\ (p \o d)[1] = Point
      BY <3>2, Joining
    <3>4. tail \in Seq(Int) /\ tail[1] = Point
      BY <3>1, <3>3 DEF p
    <3> QED
      BY <3>4 DEF IsDigit, Point, LetterZero
  <2> QED
    BY <2>1, <2>2
<1>9. Signed(x, w, tail) \in Seq(Int)
  <2> HIDE DEF w
  <2> QED
    BY <1>2, <1>8, SignedRead
<1>10. FuncStrToReal(PrintReal(x, places, under), places) = V
  BY <1>1, <1>3
<1> HIDE DEF V
<1> QED
  BY <1>1, <1>6, <1>7, <1>9, <1>10

(* The number that k digits spell has no more than k digits.               *)
LEMMA AccumulatedBound ==
  ASSUME NEW s, NEW i \in Int, NEW k \in Nat, \A j \in i .. i + k - 1 : IsDigit(s[j])
  PROVE  Accumulated(s, i, k, 10) \in Nat /\ Accumulated(s, i, k, 10) < Tens[k]
<1>1. PICK temp : Reading(temp, s, i, 10) /\ \A m \in Nat : Accumulated(s, i, m, 10) = temp[m]
  <2>1. 10 \in Int
    OBVIOUS
  <2> QED
    BY <2>1, AccumulatedRuns
<1> DEFINE P == {m \in Nat : m <= k => temp[m] \in Nat /\ temp[m] < Tens[m]}
<1>2. 0 \in P
  BY <1>1, TensFacts DEF Reading
<1>3. ASSUME NEW m \in Nat, m \in P
      PROVE  m + 1 \in P
  <2>1. CASE m + 1 <= k
    <3>1. temp[m] \in Nat /\ temp[m] < Tens[m] /\ i + m \in i .. i + k - 1
      BY <1>3, <2>1
    <3>2. HexValue(s[i + m]) \in 0 .. 9
      <4>1. IsDigit(s[i + m])
        BY <3>1
      <4>2. s[i + m] \in Int
        BY <4>1 DEF IsDigit, LetterZero
      <4> QED
        BY <4>1, <4>2, CharacterFacts
    <3>3. temp[m + 1] = temp[m] * 10 + HexValue(s[i + m])
      BY <1>1 DEF Reading
    <3>4. Tens[m + 1] = 10 * Tens[m] /\ Tens[m] \in Nat
      BY TensFacts
    <3>5. temp[m + 1] \in Nat /\ temp[m + 1] < Tens[m + 1]
      BY <3>1, <3>2, <3>3, <3>4
    <3> QED
      BY <3>5
  <2>2. CASE ~(m + 1 <= k)
    BY <2>2
  <2> QED
    BY <2>1, <2>2
<1> HIDE DEF P
<1>4. \A m \in Nat : m \in P
  BY <1>2, <1>3, AllNumbers
<1> QED
  BY <1>1, <1>4 DEF P

(* Where a text has its number.                                            *)
LEMMA NumberPlace ==
  ASSUME NEW s \in Seq(Int)
  PROVE  NumberAt(s) \in 1 .. Len(s) + 1
<1>1. CASE HasSign(s)
  BY <1>1 DEF NumberAt, HasSign
<1>2. CASE ~HasSign(s)
  BY <1>2 DEF NumberAt
<1> QED
  BY <1>1, <1>2

(* A part below the whole does not change the quotient.                    *)
LEMMA WholeOf ==
  ASSUME NEW w \in Nat, NEW r \in Nat, r < Scale, Scale >= 2
  PROVE  Quot(w * Scale + r, Scale) = w /\ Quot(-(w * Scale + r), Scale) = -w
<1> DEFINE a == w * Scale + r
           q == Quot(a, Scale)
<1>1. Scale \in Nat \ {0} /\ w * Scale \in Nat /\ a \in Nat
  BY ConversionsAssumption, PositiveProduct
<1>2. q \in Nat /\ Rem(a, Scale) \in 0 .. Scale - 1 /\ a = Scale * q + Rem(a, Scale) /\ Quot(-a, Scale) = -q
  <2> HIDE DEF a
  <2> QED
    BY <1>1, ShareFacts
<1>3. q = w
  <2> DEFINE m == Rem(a, Scale)
  <2>1. m \in 0 .. Scale - 1 /\ w * Scale + r = Scale * q + m /\ q \in Nat
    BY <1>2
  <2> HIDE DEF q, m
  <2>2. w * Scale = Scale * w
    BY <1>1
  <2>3. ASSUME NEW i \in Nat, NEW j \in Nat, i < j
        PROVE  Scale * i + Scale <= Scale * j
    <3>1. j - i - 1 \in Nat
      BY <2>3
    <3>2. Scale * (j - i - 1) \in Nat
      BY <3>1, <1>1, PositiveProduct
    <3>3. \A x, y, z \in Int : x * (z - y - 1) = x * z - x * y - x
      OBVIOUS
    <3>4. Scale * (j - i - 1) = Scale * j - Scale * i - Scale
      BY <3>3, <1>1
    <3>5. Scale * i \in Nat /\ Scale * j \in Nat
      BY <1>1, PositiveProduct
    <3> DEFINE si == Scale * i
               sj == Scale * j
    <3>6. sj - si - Scale \in Nat /\ si \in Nat /\ sj \in Nat
      BY <3>2, <3>4, <3>5
    <3> HIDE DEF si, sj
    <3>7. si + Scale <= sj
      BY <3>6, <1>1
    <3> QED
      BY <3>7 DEF si, sj
  <2> DEFINE sw == Scale * w
             sq == Scale * q
  <2>4. sw + r = sq + m /\ sw \in Nat /\ sq \in Nat
    BY <2>1, <2>2, <1>1, PositiveProduct
  <2>5. (w < q => sw + Scale <= sq) /\ (q < w => sq + Scale <= sw)
    BY <2>1, <2>3
  <2> HIDE DEF sw, sq
  <2>6. ~(w < q) /\ ~(q < w)
    BY <2>1, <2>4, <2>5, <1>1
  <2> QED
    BY <2>1, <2>6
<1> QED
  BY <1>2, <1>3

(* Where the integer fits, the two readers agree on it.                    *)
LEMMA ReadersSame ==
  ASSUME NEW s \in Seq(Int), NEW most \in Nat, Scale >= 2,
         Accumulated(s, NumberAt(s), DigitsFrom(s, NumberAt(s)), 10) <= MaxInt
  PROVE  Quot(FuncStrToReal(s, most), Scale) = FuncStrToInt(s)
<1> DEFINE first == NumberAt(s)
           whole == DigitsFrom(s, first)
           dot == first + whole
           k == IF dot > Len(s) \/ s[dot] # Point THEN 0
                ELSE LET d == DigitsFrom(s, dot + 1) IN IF d < most THEN d ELSE most
           w == Accumulated(s, first, whole, 10)
           f == Accumulated(s, dot + 1, k, 10)
           part == (f * Scale) \div Tens[k]
           temp == w * Scale + part
<1>1. FuncStrToReal(s, most) = IF Negative(s) THEN -temp ELSE temp
  BY DEF FuncStrToReal
<1>2. FuncStrToInt(s) = Wrapped(IF Negative(s) THEN -w ELSE w)
  BY DEF FuncStrToInt
<1>3. first \in 1 .. Len(s) + 1 /\ Len(s) \in Nat
  BY NumberPlace
<1>4. whole \in 0 .. Len(s) + 1 - first /\ \A j \in first .. first + whole - 1 : IsDigit(s[j])
  <2> HIDE DEF first
  <2> QED
    BY <1>3, DigitsFromFacts
<1>5. w <= MaxInt
  OBVIOUS
<1> HIDE DEF first, whole
<1>6. w \in Nat
  <2>1. first \in Int /\ whole \in Nat
    BY <1>3, <1>4
  <2> QED
    BY <2>1, <1>4, AccumulatedBound
<1>7. dot \in 1 .. Len(s) + 1
  BY <1>3, <1>4
<1> HIDE DEF dot, w
<1>8. k \in Nat /\ \A j \in dot + 1 .. dot + 1 + k - 1 : IsDigit(s[j])
  <2>1. CASE dot > Len(s) \/ s[dot] # Point
    <3>1. k = 0
      BY <2>1
    <3> HIDE DEF k
    <3> QED
      BY <3>1, <1>7
  <2>2. CASE ~(dot > Len(s) \/ s[dot] # Point)
    <3> DEFINE d == DigitsFrom(s, dot + 1)
               from == dot + 1
    <3>1. from \in 1 .. Len(s) + 1
      BY <2>2, <1>3, <1>7
    <3>2. d \in 0 .. Len(s) + 1 - from /\ \A j \in from .. from + d - 1 : IsDigit(s[j])
      <4> HIDE DEF from
      <4>1. DigitsFrom(s, from) \in 0 .. Len(s) + 1 - from
            /\ \A j \in from .. from + DigitsFrom(s, from) - 1 : IsDigit(s[j])
        BY <3>1, DigitsFromFacts
      <4> QED
        BY <4>1 DEF from
    <3>3. k = IF d < most THEN d ELSE most
      BY <2>2
    <3> HIDE DEF k, d
    <3>4. k \in Nat /\ k <= d
      BY <3>1, <3>2, <3>3, <1>3
    <3>5. \A j \in from .. from + k - 1 : j \in from .. from + d - 1
      BY <3>1, <3>2, <3>4, <1>3
    <3> QED
      BY <3>2, <3>4, <3>5
  <2> QED
    BY <2>1, <2>2
<1> HIDE DEF k
<1>9. f \in Nat /\ f < Tens[k] /\ Tens[k] \in Nat \ {0}
  <2> DEFINE from == dot + 1
  <2>1. from \in Int /\ k \in Nat /\ \A j \in from .. from + k - 1 : IsDigit(s[j])
    BY <1>3, <1>7, <1>8
  <2> HIDE DEF from
  <2>2. Accumulated(s, from, k, 10) \in Nat /\ Accumulated(s, from, k, 10) < Tens[k]
    BY <2>1, AccumulatedBound
  <2> QED
    BY <2>1, <2>2, TensFacts DEF from
<1> HIDE DEF f
<1>10. part \in Nat /\ part < Scale
  <2> DEFINE t == Tens[k]
             a == f * Scale
             m == t - f
  <2>1. t \in Nat \ {0} /\ a \in Nat /\ m \in Nat \ {0} /\ Scale \in Nat \ {0}
    BY <1>9, ConversionsAssumption, PositiveProduct
  <2>2. m * Scale \in Nat \ {0} /\ m * Scale = t * Scale - f * Scale
    <3>1. t \in Int /\ f \in Int /\ Scale \in Int
      BY <2>1, <1>9
    <3>2. \A i, j, n \in Int : (i - j) * n = i * n - j * n
      OBVIOUS
    <3>3. (t - f) * Scale = t * Scale - f * Scale
      <4> HIDE DEF t
      <4> QED
        BY <3>1, <3>2
    <3>4. m * Scale \in Nat \ {0}
      <4> HIDE DEF m
      <4> QED
        BY <2>1, PositiveProduct
    <3> QED
      BY <3>3, <3>4
  <2> HIDE DEF t, a
  <2>3. part = a \div t
    BY DEF a, t
  <2>4. part \in Nat /\ t * part <= a
    BY <2>1, <2>3, NaturalQuotient
  <2>5. a < t * Scale
    <3> DEFINE ts == t * Scale
               ms == m * Scale
    <3>1. ms \in Nat \ {0} /\ ms = ts - a /\ ts \in Int
      BY <2>1, <2>2 DEF a
    <3> HIDE DEF ts, ms
    <3>2. a < ts
      BY <3>1, <2>1
    <3> QED
      BY <3>2 DEF ts
  <2> HIDE DEF part, m
  <2>6. \A j \in Nat : j >= Scale => t * j >= t * Scale
    <3> TAKE j \in Nat
    <3> HAVE j >= Scale
    <3>1. j - Scale \in Nat
      BY <2>1
    <3>2. t * (j - Scale) \in Nat /\ t * (j - Scale) = t * j - t * Scale
      BY <3>1, <2>1, PositiveProduct
    <3>3. t * j \in Int /\ t * Scale \in Int
      BY <2>1
    <3> DEFINE tj == t * j
               ts == t * Scale
    <3>4. tj - ts \in Nat /\ tj \in Int /\ ts \in Int
      BY <3>2, <3>3
    <3> HIDE DEF tj, ts
    <3>5. tj >= ts
      BY <3>4
    <3> QED
      BY <3>5 DEF tj, ts
  <2>7. ~(part >= Scale)
    <3> DEFINE tp == t * part
               ts == t * Scale
    <3>1. tp <= a /\ a < ts /\ (part >= Scale => tp >= ts) /\ tp \in Int /\ ts \in Int
      BY <2>1, <2>4, <2>5, <2>6
    <3> HIDE DEF tp, ts
    <3> QED
      BY <3>1, <2>1
  <2> QED
    BY <2>1, <2>4, <2>7
<1> HIDE DEF part
<1>11. Quot(temp, Scale) = w /\ Quot(-temp, Scale) = -w
  BY <1>6, <1>10, WholeOf
<1> HIDE DEF temp
<1>12. Wrapped(w) = w /\ Wrapped(-w) = -w
  <2>1. w \in MinInt .. MaxInt /\ -w \in MinInt .. MaxInt
    BY <1>5, <1>6, ConversionsAssumption DEF MinInt, MaxInt
  <2> QED
    BY <2>1, WrappedFits
<1>13. CASE Negative(s)
  BY <1>1, <1>2, <1>11, <1>12, <1>13
<1>14. CASE ~Negative(s)
  BY <1>1, <1>2, <1>11, <1>12, <1>14
<1> QED
  BY <1>13, <1>14

-----------------------------------------------------------------------------
(* Numbers that divide both.                                               *)

(* A divisor measures its number.                                          *)
LEMMA Measures ==
  ASSUME NEW n \in Nat, NEW d \in Nat \ {0}
  PROVE  (n % d = 0) <=> \E q \in Nat : n = d * q
<1>1. ASSUME n % d = 0
      PROVE  \E q \in Nat : n = d * q
  <2> DEFINE q == n \div d
  <2>1. q \in Nat /\ n = d * q + (n % d)
    OBVIOUS
  <2> HIDE DEF q
  <2>2. d * q \in Nat
    BY <2>1
  <2> QED
    BY <1>1, <2>1, <2>2
<1>2. ASSUME NEW q \in Nat, n = d * q
      PROVE  n % d = 0
  <2> DEFINE h == n \div d
             m == n % d
  <2>1. h \in Nat /\ m \in 0 .. d - 1 /\ n = d * h + m
    OBVIOUS
  <2> HIDE DEF h, m
  <2>2. d * (q - h) = m
    <3>1. d * (q - h) = d * q - d * h
      BY <2>1
    <3>2. d * q \in Int /\ d * h \in Int
      BY <2>1
    <3> QED
      BY <3>1, <3>2, <2>1, <1>2
  <2>3. \A j \in Int : d * j \in 0 .. d - 1 => d * j = 0
    <3> TAKE j \in Int
    <3>1. CASE j >= 1
      <4>1. d * (j - 1) \in Nat
        BY <3>1, PositiveProduct
      <4>2. d * (j - 1) = d * j - d /\ d * j \in Int
        OBVIOUS
      <4> DEFINE dj == d * j
      <4>3. dj - d \in Nat /\ dj \in Int
        BY <4>1, <4>2
      <4> HIDE DEF dj
      <4>4. ~(dj \in 0 .. d - 1)
        BY <4>3
      <4> QED
        BY <4>4 DEF dj
    <3>2. CASE j = 0
      BY <3>2
    <3>3. CASE j <= -1
      <4>1. d * (-1 - j) \in Nat
        BY <3>3, PositiveProduct
      <4>2. d * (-1 - j) = -d - d * j /\ d * j \in Int
        OBVIOUS
      <4> DEFINE dj == d * j
      <4>3. -d - dj \in Nat /\ dj \in Int
        BY <4>1, <4>2
      <4> HIDE DEF dj
      <4>4. ~(dj \in 0 .. d - 1)
        BY <4>3
      <4> QED
        BY <4>4 DEF dj
    <3> QED
      BY <3>1, <3>2, <3>3
  <2>4. q - h \in Int
    BY <2>1
  <2>5. m = 0
    BY <2>1, <2>2, <2>3, <2>4
  <2> QED
    BY <2>5 DEF m
<1> QED
  BY <1>1, <1>2

(* Subtracting the smaller from the greater keeps the common divisors.     *)
LEMMA Subtracted ==
  ASSUME NEW x \in Nat, NEW y \in Nat, 0 < y, y < x
  PROVE  Divisors(x - y) \cap Divisors(y) = Divisors(x) \cap Divisors(y)
<1>1. x - y \in Nat /\ x - y > 0
  OBVIOUS
<1>2. ASSUME NEW d \in Nat \ {0}
      PROVE  (d \in Divisors(x - y) /\ d \in Divisors(y)) <=> (d \in Divisors(x) /\ d \in Divisors(y))
  <2>1. \A n \in Nat : n > 0 => (d \in Divisors(n) <=> \E q \in Nat : n = d * q)
    <3> TAKE n \in Nat
    <3> HAVE n > 0
    <3>1. (n % d = 0) <=> \E q \in Nat : n = d * q
      BY Measures
    <3>2. ASSUME NEW q \in Nat, n = d * q
          PROVE  d <= n
      <4>1. q # 0
        BY <3>2
      <4>2. d * (q - 1) \in Nat
        <5>1. q - 1 \in Nat
          BY <4>1
        <5> QED
          BY <5>1, PositiveProduct
      <4>3. d * (q - 1) = d * q - d
        OBVIOUS
      <4> QED
        BY <4>2, <4>3, <3>2
    <3>3. (d \in Divisors(n)) <=> (d <= n /\ n % d = 0)
      BY DEF Divisors
    <3> DEFINE Multiple == \E q \in Nat : n = d * q
    <3>4. (n % d = 0) <=> Multiple
      BY <3>1
    <3>5. Multiple => d <= n
      BY <3>2
    <3> HIDE DEF Multiple
    <3>6. (d \in Divisors(n)) <=> Multiple
      BY <3>3, <3>4, <3>5
    <3> QED
      BY <3>6 DEF Multiple
  <2>2. \A i, j \in Int : d * (i - j) = d * i - d * j /\ d * (i + j) = d * i + d * j
    OBVIOUS
  <2>3. ASSUME NEW p \in Nat, x - y = d * p, NEW q \in Nat, y = d * q
        PROVE  \E r \in Nat : x = d * r
    <3>1. d * (p + q) = d * p + d * q
      BY <2>2
    <3>2. p + q \in Nat /\ x = d * (p + q)
      BY <3>1, <2>3
    <3> QED
      BY <3>2
  <2>4. ASSUME NEW p \in Nat, x = d * p, NEW q \in Nat, y = d * q
        PROVE  \E r \in Nat : x - y = d * r
    <3>1. d * (p - q) = x - y
      <4>1. d * (p - q) = d * p - d * q
        BY <2>2
      <4> QED
        BY <4>1, <2>4
    <3>2. p - q \in Nat
      <4>1. CASE p < q
        <5>1. q - p \in Nat
          BY <4>1
        <5>2. d * (q - p) \in Nat /\ d * (q - p) = d * q - d * p
          BY <5>1, PositiveProduct
        <5>3. y - x \in Nat
          BY <5>2, <2>4
        <5> QED
          BY <5>3
      <4>2. CASE ~(p < q)
        BY <4>2
      <4> QED
        BY <4>1, <4>2
    <3> QED
      BY <3>1, <3>2
  <2>5. (d \in Divisors(x) <=> \E q \in Nat : x = d * q) /\ (d \in Divisors(y) <=> \E q \in Nat : y = d * q)
        /\ (d \in Divisors(x - y) <=> \E q \in Nat : x - y = d * q)
    <3>1. x > 0
      OBVIOUS
    <3> QED
      BY <3>1, <1>1, <2>1
  <2>6. ASSUME d \in Divisors(x - y), d \in Divisors(y)
        PROVE  d \in Divisors(x)
    BY <2>3, <2>5, <2>6
  <2>7. ASSUME d \in Divisors(x), d \in Divisors(y)
        PROVE  d \in Divisors(x - y)
    BY <2>4, <2>5, <2>7
  <2> QED
    BY <2>6, <2>7
<1>3. \A n \in Nat : Divisors(n) \subseteq Nat \ {0}
  BY DEF Divisors
<1>4. Divisors(x - y) \subseteq Nat \ {0} /\ Divisors(x) \subseteq Nat \ {0}
  BY <1>1, <1>3
<1> QED
  BY <1>2, <1>4

-----------------------------------------------------------------------------
(* zf_sprintf prints what the other functions write.                       *)

(* The two parts of a text that was joined.                                *)
LEMMA JoinedParts ==
  ASSUME NEW s \in Seq(Int), NEW t \in Seq(Int)
  PROVE  /\ SubSeq(s \o t, 1, Len(s)) = s
         /\ SubSeq(s \o t, Len(s) + 1, Len(s \o t)) = t
<1> DEFINE u == s \o t
           m == Len(s)
           n == Len(t)
<1>1. /\ u \in Seq(Int) /\ Len(u) = m + n /\ m \in Nat /\ n \in Nat
      /\ \A i \in 1 .. m : u[i] = s[i]
      /\ \A i \in 1 .. n : u[m + i] = t[i]
  BY Joining
<1>2. s = [i \in 1 .. m |-> s[i]] /\ t = [i \in 1 .. n |-> t[i]]
  OBVIOUS
<1>3. \A i \in 1 .. m + n : u[i] \in Int
  <2> HIDE DEF u, m, n
  <2> QED
    BY <1>1
<1> HIDE DEF u, m, n
<1>4. \A a, b \in Int :
        (1 <= a /\ b <= m + n) => /\ SubSeq(u, a, b) \in Seq(Int)
                                 /\ Len(SubSeq(u, a, b)) = (IF a <= b THEN b - a + 1 ELSE 0)
                                 /\ \A i \in 1 .. b - a + 1 : SubSeq(u, a, b)[i] = u[a + i - 1]
  <2> TAKE a, b \in Int
  <2> HAVE 1 <= a /\ b <= m + n
  <2>1. \A i \in a .. b : u[i] \in Int
    BY <1>1, <1>3
  <2> QED
    BY <2>1, SubSeqProperties
<1>5. SubSeq(u, 1, m) = s
  <2> DEFINE p == SubSeq(u, 1, m)
  <2>1. p \in Seq(Int) /\ Len(p) = (IF 1 <= m THEN m - 1 + 1 ELSE 0)
        /\ \A i \in 1 .. m - 1 + 1 : p[i] = u[1 + i - 1]
    BY <1>1, <1>4
  <2> HIDE DEF p
  <2>2. Len(p) = m /\ \A i \in 1 .. m : p[i] = u[i]
    BY <2>1, <1>1
  <2>3. p = [i \in 1 .. m |-> p[i]]
    BY <2>1, <2>2
  <2>4. p = s
    BY <2>2, <2>3, <1>1, <1>2
  <2> QED
    BY <2>4 DEF p
<1>6. SubSeq(u, m + 1, Len(u)) = t
  <2> DEFINE p == SubSeq(u, m + 1, m + n)
  <2>1. p \in Seq(Int) /\ Len(p) = (IF m + 1 <= m + n THEN m + n - (m + 1) + 1 ELSE 0)
        /\ \A i \in 1 .. m + n - (m + 1) + 1 : p[i] = u[m + 1 + i - 1]
    BY <1>1, <1>4
  <2> HIDE DEF p
  <2>2. Len(p) = n /\ \A i \in 1 .. n : p[i] = u[m + i]
    BY <2>1, <1>1
  <2>3. p = [i \in 1 .. n |-> p[i]]
    BY <2>1, <2>2
  <2>4. p = t
    BY <2>2, <2>3, <1>1, <1>2
  <2> QED
    BY <2>4, <1>1 DEF p
<1> QED
  BY <1>5, <1>6 DEF u, m

(* %d of any int writes characters.                                        *)
LEMMA PrintSignedCharacters ==
  ASSUME NEW n \in MinInt .. MaxInt
  PROVE  PrintSigned(n) \in Seq(Int)
<1> DEFINE w == Wrapped(FuncAbs(n))
           digits == DigitsOfAny(w, 10)
<1>1. w \in Int
  <2>1. FuncAbs(n) + Half \in Nat /\ 2 * Half \in Nat \ {0}
    BY ConversionsAssumption DEF FuncAbs, MinInt, MaxInt
  <2>2. (FuncAbs(n) + Half) % (2 * Half) \in Int
    BY <2>1
  <2> QED
    BY <2>2, ConversionsAssumption DEF Wrapped
<1> HIDE DEF w
<1>2. digits \in Seq(Int)
  <2>1. CASE w = 0
    <3>1. digits = <<0>>
      BY <2>1 DEF DigitsOfAny
    <3>2. <<0>> \in Seq(Int)
      OBVIOUS
    <3> QED
      BY <3>1, <3>2, Zenon
  <2>2. CASE w # 0
    <3>1. digits = DigitsOf(w, 10)
      BY <2>2 DEF DigitsOfAny
    <3>2. PICK bit \in Nat : DigitsOf(w, 10) = [k \in 1 .. bit |-> Rem(Remaining(w, 10)[k - 1], 10)]
      <4>1. 10 \in Nat /\ 10 >= 2
        OBVIOUS
      <4>2. PICK bit \in Nat : /\ RunsOut(w, 10, bit)
                               /\ DigitsOf(w, 10) = [k \in 1 .. bit |-> Rem(Remaining(w, 10)[k - 1], 10)]
        BY <4>1, <1>1, DigitsAre
      <4> QED
        BY <4>2, Zenon
    <3>3. \A k \in 1 .. bit : Rem(Remaining(w, 10)[k - 1], 10) \in Int
      <4> TAKE k \in 1 .. bit
      <4>1. k - 1 \in Nat
        OBVIOUS
      <4>2. Remaining(w, 10)[k - 1] \in Int
        BY <4>1, <1>1, RemainingFacts
      <4> QED
        BY <4>2, TenthFacts
    <3>4. DigitsOf(w, 10) \in [1 .. bit -> Int]
      BY <3>2, <3>3
    <3> QED
      BY <3>1, <3>4, Sequence
  <2> QED
    BY <2>1, <2>2
<1> HIDE DEF digits
<1>3. NumberConversionAscii(n, TRUE, 10) = Characters(digits)
  BY DEF NumberConversionAscii, digits, w
<1>4. Characters(digits) \in Seq(Int)
  <2>1. Characters(digits) \in [1 .. Len(digits) -> Int] /\ Len(digits) \in Nat
    BY <1>2 DEF Characters, LetterZero
  <2> QED
    BY <2>1, Sequence
<1>5. PrintSigned(n) = Turned(Characters(digits) \o SignOf(n))
  BY <1>3 DEF PrintSigned, SignOf
<1>6. SignOf(n) \in Seq(Int)
  BY TurnedSign
<1>7. Characters(digits) \o SignOf(n) \in Seq(Int)
  BY <1>4, <1>6, Joining
<1> QED
  BY <1>5, <1>7, TurnedFacts

(* A %p of a number with all the digits of a pointer is that numeral.      *)
LEMMA PointerText ==
  ASSUME NEW n \in 0 .. MaxUint, NEW places \in Nat
  PROVE  LET s == PrintPointer(n, places, Junk)
         IN  /\ s \in Seq(Int)
             /\ Len(FuncHexToStr(n)) = 2 + places => <<LetterZero, LetterX>> \o s = FuncHexToStr(n)
<1> DEFINE digits == NumeralOf(n, 16)
           q == Len(digits)
           pre == [i \in 1 .. places - q |-> Junk]
           ox == <<LetterZero, LetterX>>
           s == PrintPointer(n, places, Junk)
<1>1. n \in Nat /\ 16 \in 2 .. 16
  BY ConversionsAssumption DEF MaxUint
<1>2. PrintUnsigned(n, 16) = digits
  BY <1>1, PrintUnsignedText
<1>3. q \in Nat \ {0} /\ digits \in Seq(Int)
  BY <1>1, NumeralFacts
<1>4. s = pre \o digits
  BY <1>2 DEF PrintPointer
<1>5. FuncHexToStr(n) = ox \o digits
  BY <1>1, HexText
<1>6. ox \in Seq(Int) /\ Len(ox) = 2
  BY DEF LetterZero, LetterX
<1> HIDE DEF digits, s, ox
<1>7. Len(FuncHexToStr(n)) = 2 + q
  <2>1. \A t, u \in Seq(Int) : Len(t \o u) = Len(t) + Len(u)
    OBVIOUS
  <2>2. Len(ox \o digits) = Len(ox) + Len(digits)
    BY <2>1, <1>3, <1>6
  <2> QED
    BY <2>2, <1>5, <1>6
<1> HIDE DEF q
<1>8. pre \in Seq(Int)
  <2>1. CASE q < places
    <3> DEFINE k == places - q
    <3>1. k \in Nat
      BY <2>1, <1>3
    <3> HIDE DEF k
    <3>2. [i \in 1 .. k |-> Junk] \in [1 .. k -> Int]
      BY DEF Junk
    <3>3. [i \in 1 .. k |-> Junk] \in Seq(Int)
      BY <3>1, <3>2, Sequence
    <3> QED
      BY <3>3 DEF k
  <2>2. CASE ~(q < places)
    <3>1. 1 .. places - q = 1 .. 0
      BY <2>2, <1>3
    <3>2. [i \in 1 .. 0 |-> Junk] = <<>> /\ <<>> \in Seq(Int)
      OBVIOUS
    <3> QED
      BY <3>1, <3>2
  <2> QED
    BY <2>1, <2>2
<1>9. q = places => pre = <<>>
  <2>1. q = places => 1 .. places - q = 1 .. 0
    BY <1>3
  <2>2. [i \in 1 .. 0 |-> Junk] = <<>>
    OBVIOUS
  <2> QED
    BY <2>1, <2>2
<1> HIDE DEF pre
<1>10. s \in Seq(Int)
  BY <1>3, <1>4, <1>8, Joining
<1>11. \A t \in Seq(Int) : <<>> \o t = t
  OBVIOUS
<1>12. Len(FuncHexToStr(n)) = 2 + places => ox \o s = FuncHexToStr(n)
  <2>1. ASSUME Len(FuncHexToStr(n)) = 2 + places
        PROVE  s = digits
    <3>1. q = places
      BY <2>1, <1>3, <1>7 DEF q
    <3> QED
      BY <3>1, <1>3, <1>4, <1>9, <1>11
  <2> QED
    BY <2>1, <1>5
<1> QED
  BY <1>10, <1>12 DEF s, ox

(* Each item of a format is printed as the other functions write it.       *)
LEMMA ItemPrinted ==
  ASSUME NEW item, FitsItem(item), NEW under \in BOOLEAN
  PROVE  Printed(item, under) \in Seq(Int) /\ Agrees(item, Printed(item, under))
<1> DEFINE n == item.arg
<1>1. CASE item.as = "d"
  <2>1. n \in MinInt .. MaxInt /\ Printed(item, under) = PrintSigned(n)
    BY <1>1 DEF FitsItem, Printed
  <2>2. Printed(item, under) \in Seq(Int)
    BY <2>1, PrintSignedCharacters
  <2>3. n # MinInt => PrintSigned(n) = FuncIntToStr(n)
    BY <2>1, PrintSignedText
  <2>4. Agrees(item, Printed(item, under))
    BY <1>1, <2>1, <2>3 DEF Agrees
  <2> QED
    BY <2>2, <2>4
<1>2. CASE item.as \in {"u", "o", "x", "p"}
  <2>1. n \in 0 .. MaxUint
    BY <1>2 DEF FitsItem
  <2>2. n \in Nat
    BY <2>1, ConversionsAssumption DEF MaxUint
  <2>3. \A base \in 2 .. 16 : PrintUnsigned(n, base) = NumeralOf(n, base) /\ NumeralOf(n, base) \in Seq(Int)
    BY <2>2, PrintUnsignedText, NumeralFacts
  <2>4. CASE item.as = "u"
    <3>1. Printed(item, under) = PrintUnsigned(n, 10) /\ 10 \in 2 .. 16
      BY <2>4 DEF Printed
    <3>2. PrintUnsigned(n, 10) = FuncUintToStr(n) /\ PrintUnsigned(n, 10) \in Seq(Int)
      BY <3>1, <2>2, <2>3, UintText
    <3>3. Agrees(item, Printed(item, under))
      BY <2>4, <3>1, <3>2 DEF Agrees
    <3> QED
      BY <3>1, <3>2, <3>3
  <2>5. CASE item.as = "o"
    <3>1. Printed(item, under) = PrintUnsigned(n, 8) /\ 8 \in 2 .. 16
      BY <2>5 DEF Printed
    <3>2. PrintUnsigned(n, 8) \in Seq(Int)
      BY <3>1, <2>3
    <3>3. Agrees(item, Printed(item, under))
      BY <2>5 DEF Agrees
    <3> QED
      BY <3>1, <3>2, <3>3
  <2>6. CASE item.as = "x"
    <3>1. Printed(item, under) = PrintUnsigned(n, 16) /\ 16 \in 2 .. 16
      BY <2>6 DEF Printed
    <3>2. <<LetterZero, LetterX>> \o PrintUnsigned(n, 16) = FuncHexToStr(n) /\ PrintUnsigned(n, 16) \in Seq(Int)
      BY <3>1, <2>2, <2>3, HexText
    <3>3. Agrees(item, Printed(item, under))
      BY <2>6, <3>1, <3>2 DEF Agrees
    <3> QED
      BY <3>1, <3>2, <3>3
  <2>7. CASE item.as = "p"
    <3> DEFINE s == PrintPointer(n, PointerPlaces, Junk)
    <3>1. Printed(item, under) = s
      BY <2>7 DEF Printed
    <3>2. /\ s \in Seq(Int)
          /\ Len(FuncHexToStr(n)) = 2 + PointerPlaces => <<LetterZero, LetterX>> \o s = FuncHexToStr(n)
      <4>1. PointerPlaces \in Nat
        BY CallsAssumption
      <4> QED
        BY <4>1, <2>1, PointerText
    <3> HIDE DEF s
    <3>3. Agrees(item, s)
      BY <2>7, <3>2 DEF Agrees
    <3> QED
      BY <3>1, <3>2, <3>3
  <2> QED
    BY <1>2, <2>4, <2>5, <2>6, <2>7
<1>3. CASE item.as = "f"
  <2> DEFINE s == PrintReal(n, PrintPlaces, under)
             back == FuncStrToReal(s, PrintPlaces)
             less == FuncAbs(n) - FuncAbs(back)
  <2>1. FitsReal(n) /\ Printed(item, under) = s
    BY <1>3 DEF FitsItem, Printed
  <2>2. /\ s \in Seq(Int)
        /\ back * n >= 0 /\ less \in {0, 1} /\ (HeldExactly(n, Scale) => less = 0)
    <3>1. n \in Int /\ FuncAbs(n) < Half * Scale
      BY <2>1 DEF FitsReal
    <3>2. PrintPlaces \in Nat \ {0} /\ Tens[PrintPlaces] = Scale /\ Scale <= Half
      BY CallsAssumption
    <3> QED
      BY <3>1, <3>2, PrintRealBack
  <2> HIDE DEF s
  <2>3. Agrees(item, s)
    BY <1>3, <2>2 DEF Agrees
  <2> QED
    BY <2>1, <2>2, <2>3
<1>4. CASE item.as = "s"
  <2>1. Printed(item, under) = n /\ n \in Seq(Int)
    BY <1>4 DEF FitsItem, Printed
  <2>2. Agrees(item, Printed(item, under))
    BY <1>4 DEF Agrees
  <2> QED
    BY <2>1, <2>2
<1>5. CASE item.as \in {"c", "literal"}
  <2>1. Printed(item, under) = <<n>> /\ n \in Int
    BY <1>5 DEF FitsItem, Printed
  <2>2. Agrees(item, Printed(item, under))
    BY <1>5 DEF Agrees
  <2> QED
    BY <2>1, <2>2
<1>6. CASE item.as \notin {"c", "d", "f", "u", "o", "x", "s", "p", "literal"}
  <2>1. Printed(item, under) = <<37>> \/ Printed(item, under) = <<>>
    BY <1>6 DEF Printed
  <2>2. Printed(item, under) \in Seq(Int)
    <3>1. CASE Printed(item, under) = <<37>>
      <4>1. <<37>> \in Seq(Int)
        OBVIOUS
      <4> QED
        BY <3>1, <4>1, Zenon
    <3>2. CASE Printed(item, under) = <<>>
      <4>1. <<>> \in Seq(Int)
        OBVIOUS
      <4> QED
        BY <3>2, <4>1, Zenon
    <3> QED
      BY <2>1, <3>1, <3>2
  <2>3. Agrees(item, Printed(item, under))
    BY <1>6 DEF Agrees
  <2> QED
    BY <2>2, <2>3
<1> QED
  BY <1>1, <1>2, <1>3, <1>4, <1>5, <1>6

-----------------------------------------------------------------------------
(* The calls.                                                              *)

(* What is known of a call while it runs: which text was written and what  *)
(* was read of it; of a format, how much is done; of two numbers, which    *)
(* divisors they share.                                                    *)
Record(op, n, places, step) == [op |-> op, n |-> n, places |-> places, step |-> step]

NumberCall(step) ==
  \/ \E n \in WholeNumbers : n <= MaxInt /\ call = Record("int", n, 0, step) /\ text = FuncIntToStr(n)
  \/ \E n \in WholeNumbers : n >= 0 /\ call = Record("uint", n, 0, step) /\ text = FuncUintToStr(n)
  \/ \E n \in WholeNumbers : n >= 0 /\ call = Record("hex", n, 0, step) /\ text = FuncHexToStr(n)
  \/ \E x \in Reals, p \in PlacesAsked, under \in BOOLEAN :
       /\ \/ call = Record("float", x, p, step)
          \/ call = Record("double", x, p, step)
       /\ text = FuncRealToStr(x, p, under)

WrittenCall == NumberCall("written")
ReadCall    == NumberCall("read") /\ value = ReadAs(call.op, text)
OtherCall   == \E op \in Readers, s \in Texts :
                 call = Record(op, 0, 0, "other") /\ text = s /\ value = ReadAs(op, s)

SprintfCall ==
  \E format \in Formats : /\ call = [op |-> "sprintf", format |-> format, step |-> "loop"]
                          /\ num1 \in 0 .. Len(format)
                          /\ text \in Seq(Int)

SameDivisors(a, b) == num1 > 0 /\ num2 > 0 /\ Divisors(num1) \cap Divisors(num2) = Divisors(a) \cap Divisors(b)

GcdCall ==
  \E a, b \in Dividends : /\ call = [op |-> "gcd", a |-> a, b |-> b, step |-> "loop"]
                          /\ num1 \in Nat /\ num2 \in Nat
                          /\ (a > 0 /\ b > 0) => SameDivisors(a, b)

DelayCall == call = [op |-> "delay", step |-> "loop"] /\ num1 \in Nat

ConvertIInv ==
  Idle \/ WrittenCall \/ ReadCall \/ OtherCall \/ SprintfCall \/ GcdCall \/ DelayCall

USE DEF Record, Idle, None

LEMMA WrittenStep ==
  ASSUME WriteNumber
  PROVE  WrittenCall'
<1>1. CASE \E n \in WholeNumbers : n <= MaxInt /\ Write("int", n, 0, FuncIntToStr(n))
  <2>1. \E n \in WholeNumbers : n <= MaxInt /\ call' = Record("int", n, 0, "written") /\ text' = FuncIntToStr(n)
    BY <1>1 DEF Write
  <2> QED
    BY <2>1 DEF WrittenCall, NumberCall
<1>2. CASE \E n \in WholeNumbers : n >= 0 /\ Write("uint", n, 0, FuncUintToStr(n))
  <2>1. \E n \in WholeNumbers : n >= 0 /\ call' = Record("uint", n, 0, "written") /\ text' = FuncUintToStr(n)
    BY <1>2 DEF Write
  <2> QED
    BY <2>1 DEF WrittenCall, NumberCall
<1>3. CASE \E n \in WholeNumbers : n >= 0 /\ Write("hex", n, 0, FuncHexToStr(n))
  <2>1. \E n \in WholeNumbers : n >= 0 /\ call' = Record("hex", n, 0, "written") /\ text' = FuncHexToStr(n)
    BY <1>3 DEF Write
  <2> QED
    BY <2>1 DEF WrittenCall, NumberCall
<1>4. CASE \E x \in Reals, p \in PlacesAsked, under \in BOOLEAN :
             \/ FitsFloat(x, p) /\ Write("float", x, p, FuncRealToStr(x, p, under))
             \/ Write("double", x, p, FuncRealToStr(x, p, under))
  <2>1. \E x \in Reals, p \in PlacesAsked, under \in BOOLEAN :
          /\ \/ call' = Record("float", x, p, "written")
             \/ call' = Record("double", x, p, "written")
          /\ text' = FuncRealToStr(x, p, under)
    BY <1>4 DEF Write
  <2> QED
    BY <2>1 DEF WrittenCall, NumberCall
<1> QED
  BY <1>1, <1>2, <1>3, <1>4 DEF WriteNumber

(* What runs is told by its record.                                        *)
LEMMA CallKinds ==
  /\ \A step : NumberCall(step) => call.op \in Readers /\ call.step = step /\ ~Idle
  /\ OtherCall => call.op \in Readers /\ call.step = "other" /\ ~Idle
  /\ SprintfCall => call.op = "sprintf" /\ call.step = "loop" /\ ~Idle
  /\ GcdCall => call.op = "gcd" /\ call.step = "loop" /\ ~Idle
  /\ DelayCall => call.op = "delay" /\ call.step = "loop" /\ ~Idle
<1>1. ASSUME NEW op, NEW n, NEW places, NEW step, call = Record(op, n, places, step), op # "none"
      PROVE  call.op = op /\ call.step = step /\ ~Idle
  BY <1>1
<1>2. ASSUME NEW step, NumberCall(step)
      PROVE  call.op \in Readers /\ call.step = step /\ ~Idle
  <2>1. \E op \in Readers : \E n, places : call = Record(op, n, places, step)
    BY <1>2 DEF NumberCall, Readers
  <2> QED
    BY <2>1, <1>1 DEF Readers
<1>3. ASSUME OtherCall
      PROVE  call.op \in Readers /\ call.step = "other" /\ ~Idle
  <2>1. \E op \in Readers : call = Record(op, 0, 0, "other")
    BY <1>3 DEF OtherCall
  <2> QED
    BY <2>1, <1>1 DEF Readers
<1>4. SprintfCall => call.op = "sprintf" /\ call.step = "loop" /\ ~Idle
  BY DEF SprintfCall
<1>5. GcdCall => call.op = "gcd" /\ call.step = "loop" /\ ~Idle
  BY DEF GcdCall
<1>6. DelayCall => call.op = "delay" /\ call.step = "loop" /\ ~Idle
  BY DEF DelayCall
<1> QED
  BY <1>2, <1>3, <1>4, <1>5, <1>6

LEMMA ReadStep ==
  ASSUME ConvertIInv, ReadBack
  PROVE  ReadCall'
<1>1. WrittenCall
  BY CallKinds DEF ConvertIInv, ReadBack, WrittenCall, ReadCall, Readers
<1>2. call' = [call EXCEPT !.step = "read"] /\ text' = text /\ value' = ReadAs(call.op, text)
  BY DEF ReadBack
<1>3. \A op, n, places : call = Record(op, n, places, "written") => call' = Record(op, n, places, "read")
  BY <1>2
<1>4. NumberCall("read")'
  <2>1. CASE \E n \in WholeNumbers : n <= MaxInt /\ call = Record("int", n, 0, "written") /\ text = FuncIntToStr(n)
    <3>1. \E n \in WholeNumbers : n <= MaxInt /\ call' = Record("int", n, 0, "read") /\ text' = FuncIntToStr(n)
      BY <2>1, <1>2, <1>3
    <3> QED
      BY <3>1 DEF NumberCall
  <2>2. CASE \E n \in WholeNumbers : n >= 0 /\ call = Record("uint", n, 0, "written") /\ text = FuncUintToStr(n)
    <3>1. \E n \in WholeNumbers : n >= 0 /\ call' = Record("uint", n, 0, "read") /\ text' = FuncUintToStr(n)
      BY <2>2, <1>2, <1>3
    <3> QED
      BY <3>1 DEF NumberCall
  <2>3. CASE \E n \in WholeNumbers : n >= 0 /\ call = Record("hex", n, 0, "written") /\ text = FuncHexToStr(n)
    <3>1. \E n \in WholeNumbers : n >= 0 /\ call' = Record("hex", n, 0, "read") /\ text' = FuncHexToStr(n)
      BY <2>3, <1>2, <1>3
    <3> QED
      BY <3>1 DEF NumberCall
  <2>4. CASE \E x \in Reals, p \in PlacesAsked, under \in BOOLEAN :
               /\ \/ call = Record("float", x, p, "written")
                  \/ call = Record("double", x, p, "written")
               /\ text = FuncRealToStr(x, p, under)
    <3>1. \E x \in Reals, p \in PlacesAsked, under \in BOOLEAN :
            /\ \/ call' = Record("float", x, p, "read")
               \/ call' = Record("double", x, p, "read")
            /\ text' = FuncRealToStr(x, p, under)
      BY <2>4, <1>2, <1>3
    <3> QED
      BY <3>1 DEF NumberCall
  <2> QED
    BY <1>1, <2>1, <2>2, <2>3, <2>4 DEF WrittenCall, NumberCall
<1>5. call'.op = call.op
  <2>1. \E op, n, places : call = Record(op, n, places, "written")
    BY <1>1 DEF WrittenCall, NumberCall
  <2> QED
    BY <2>1, <1>2
<1>6. value' = ReadAs(call'.op, text')
  BY <1>2, <1>5
<1> QED
  BY <1>4, <1>6 DEF ReadCall

(* An item is printed behind what was printed before it.                   *)
LEMMA SprintfItemStep ==
  ASSUME ConvertIInv, SprintfItem
  PROVE  /\ SprintfCall'
         /\ SubSeq(text', 1, Len(text)) = text
         /\ Agrees(LastItem, SubSeq(text', Len(text) + 1, Len(text')))
<1>1. SprintfCall
  BY CallKinds DEF ConvertIInv, SprintfItem, WrittenCall, ReadCall, Readers
<1>2. PICK format \in Formats : /\ call = [op |-> "sprintf", format |-> format, step |-> "loop"]
                                /\ num1 \in 0 .. Len(format) /\ text \in Seq(Int)
  BY <1>1 DEF SprintfCall
<1> DEFINE item == format[num1 + 1]
<1>3. /\ num1 < Len(format) /\ num1' = num1 + 1 /\ call' = call
      /\ \E under \in BOOLEAN : text' = text \o Printed(item, under)
  BY <1>2 DEF SprintfItem
<1>12. PICK under \in BOOLEAN : text' = text \o Printed(item, under)
  BY <1>3
<1>4. Len(format) \in Nat /\ \A i \in 1 .. Len(format) : FitsItem(format[i])
  BY CallsAssumption
<1>5. num1 + 1 \in 1 .. Len(format) /\ num1 + 1 \in 0 .. Len(format)
  BY <1>2, <1>3, <1>4
<1>6. FitsItem(item)
  BY <1>4, <1>5
<1>7. LastItem = item
  BY <1>2, <1>3 DEF LastItem
<1> HIDE DEF item
<1>8. Printed(item, under) \in Seq(Int) /\ Agrees(item, Printed(item, under))
  BY <1>6, ItemPrinted
<1> DEFINE p == Printed(item, under)
<1> HIDE DEF p
<1>9. p \in Seq(Int) /\ Agrees(item, p) /\ text' = text \o p
  BY <1>8, <1>12 DEF p
<1>10. text' \in Seq(Int) /\ SubSeq(text', 1, Len(text)) = text /\ SubSeq(text', Len(text) + 1, Len(text')) = p
  <2>1. \A s, t \in Seq(Int) : /\ s \o t \in Seq(Int) /\ SubSeq(s \o t, 1, Len(s)) = s
                              /\ SubSeq(s \o t, Len(s) + 1, Len(s \o t)) = t
    BY Joining, JoinedParts
  <2> QED
    BY <2>1, <1>2, <1>9
<1>11. SprintfCall'
  <2>1. call' = [op |-> "sprintf", format |-> format, step |-> "loop"] /\ num1' \in 0 .. Len(format)
    BY <1>2, <1>3, <1>5
  <2> QED
    BY <2>1, <1>10 DEF SprintfCall
<1> QED
  BY <1>7, <1>9, <1>10, <1>11

LEMMA GcdStep ==
  ASSUME ConvertIInv, GcdPass
  PROVE  GcdCall'
<1>1. GcdCall
  BY CallKinds DEF ConvertIInv, GcdPass, WrittenCall, ReadCall, Readers
<1>2. PICK a \in Dividends, b \in Dividends :
        /\ call = [op |-> "gcd", a |-> a, b |-> b, step |-> "loop"]
        /\ num1 \in Nat /\ num2 \in Nat
        /\ (a > 0 /\ b > 0) => SameDivisors(a, b)
  BY <1>1 DEF GcdCall
<1> DEFINE m == IF num1 > num2 THEN num1 - num2 ELSE num1
           n == IF m < num2 THEN num2 - m ELSE num2
<1>3. num1' = m /\ num2' = n /\ call' = call /\ num1 # num2
  BY DEF GcdPass
<1>4. m \in Nat /\ n \in Nat
  BY <1>2
<1>5. ASSUME num1 > 0, num2 > 0
      PROVE  m > 0 /\ n > 0 /\ Divisors(m) \cap Divisors(n) = Divisors(num1) \cap Divisors(num2)
  <2>1. m > 0 /\ Divisors(m) \cap Divisors(num2) = Divisors(num1) \cap Divisors(num2)
    <3>1. CASE num1 > num2
      <4>1. Divisors(num1 - num2) \cap Divisors(num2) = Divisors(num1) \cap Divisors(num2)
        BY <3>1, <1>2, <1>5, Subtracted
      <4> QED
        BY <4>1, <3>1, <1>2
    <3>2. CASE ~(num1 > num2)
      BY <3>2, <1>2, <1>5
    <3> QED
      BY <3>1, <3>2
  <2> HIDE DEF m
  <2>2. n > 0 /\ Divisors(n) \cap Divisors(m) = Divisors(num2) \cap Divisors(m)
    <3>1. CASE m < num2
      <4>1. Divisors(num2 - m) \cap Divisors(m) = Divisors(num2) \cap Divisors(m)
        BY <3>1, <2>1, <1>2, <1>4, Subtracted
      <4> QED
        BY <4>1, <3>1, <1>2, <1>4
    <3>2. CASE ~(m < num2)
      BY <3>2, <1>2, <1>5
    <3> QED
      BY <3>1, <3>2
  <2> HIDE DEF n
  <2> QED
    BY <2>1, <2>2
<1> HIDE DEF m, n
<1>6. (a > 0 /\ b > 0) => SameDivisors(a, b)'
  BY <1>2, <1>3, <1>5 DEF SameDivisors
<1>7. call' = [op |-> "gcd", a |-> a, b |-> b, step |-> "loop"] /\ num1' \in Nat /\ num2' \in Nat
  BY <1>2, <1>3, <1>4
<1> QED
  BY <1>6, <1>7 DEF GcdCall

(* Every step keeps what is known of the call.                             *)
LEMMA ConvertStep ==
  ASSUME ConvertIInv, [ConvertNext]_convertVars
  PROVE  ConvertIInv'
<1>1. CASE WriteNumber
  BY <1>1, WrittenStep DEF ConvertIInv
<1>2. CASE ReadOther
  <2>1. OtherCall'
    BY <1>2 DEF ReadOther, OtherCall, Readers
  <2> QED
    BY <2>1 DEF ConvertIInv
<1>3. CASE SprintfStart
  <2>1. PICK format \in Formats : call' = [op |-> "sprintf", format |-> format, step |-> "loop"]
    BY <1>3 DEF SprintfStart
  <2>2. num1' \in 0 .. Len(format)
    <3>1. Len(format) \in Nat
      BY CallsAssumption
    <3> QED
      BY <3>1, <1>3 DEF SprintfStart
  <2>3. text' \in Seq(Int)
    BY <1>3 DEF SprintfStart
  <2>4. SprintfCall'
    BY <2>1, <2>2, <2>3 DEF SprintfCall
  <2> QED
    BY <2>4 DEF ConvertIInv
<1>4. CASE GcdStart
  <2>1. PICK a \in Dividends, b \in Dividends :
          call' = [op |-> "gcd", a |-> a, b |-> b, step |-> "loop"] /\ num1' = a /\ num2' = b
    BY <1>4 DEF GcdStart
  <2>2. a \in Nat /\ b \in Nat
    BY CallsAssumption
  <2>3. (a > 0 /\ b > 0) => SameDivisors(a, b)'
    BY <2>1, <2>2 DEF SameDivisors
  <2>4. GcdCall'
    BY <2>1, <2>2, <2>3 DEF GcdCall
  <2> QED
    BY <2>4 DEF ConvertIInv
<1>5. CASE DelayStart
  <2>1. DelayCall'
    BY <1>5, CallsAssumption DEF DelayStart, DelayCall
  <2> QED
    BY <2>1 DEF ConvertIInv
<1>6. CASE ReadBack
  BY <1>6, ReadStep DEF ConvertIInv
<1>7. CASE SprintfItem
  BY <1>7, SprintfItemStep DEF ConvertIInv
<1>8. CASE GcdPass
  BY <1>8, GcdStep DEF ConvertIInv
<1>9. CASE DelayPass
  <2>1. DelayCall
    BY <1>9, CallKinds DEF ConvertIInv, DelayPass, WrittenCall, ReadCall, Readers
  <2>2. DelayCall'
    BY <1>9, <2>1 DEF DelayPass, DelayCall
  <2> QED
    BY <2>2 DEF ConvertIInv
<1>10. CASE CallReturn
  BY <1>10 DEF CallReturn, ConvertIInv
<1>11. CASE UNCHANGED convertVars
  <2>1. call' = call /\ text' = text /\ value' = value /\ num1' = num1 /\ num2' = num2
    BY <1>11 DEF convertVars
  <2>2. /\ Idle => Idle'
        /\ WrittenCall => WrittenCall'
        /\ ReadCall => ReadCall'
        /\ OtherCall => OtherCall'
        /\ SprintfCall => SprintfCall'
        /\ DelayCall => DelayCall'
    BY <2>1 DEF WrittenCall, ReadCall, NumberCall, OtherCall, SprintfCall, DelayCall
  <2>3. GcdCall => GcdCall'
    BY <2>1 DEF GcdCall, SameDivisors
  <2> QED
    BY <2>2, <2>3 DEF ConvertIInv
<1> QED
  BY <1>1, <1>2, <1>3, <1>4, <1>5, <1>6, <1>7, <1>8, <1>9, <1>10, <1>11 DEF ConvertNext, Run

(* The scale is a power of ten that is not the first.                      *)
LEMMA ScaleTens == Scale = Tens[PrintPlaces] /\ PrintPlaces \in Nat \ {0} /\ Scale >= 2
<1>1. Scale = Tens[PrintPlaces] /\ PrintPlaces \in Nat \ {0}
  BY CallsAssumption
<1>2. PrintPlaces - 1 \in Nat /\ PrintPlaces - 1 + 1 = PrintPlaces
  BY <1>1
<1>3. Tens[PrintPlaces] = 10 * Tens[PrintPlaces - 1] /\ Tens[PrintPlaces - 1] \in Nat \ {0}
  BY <1>2, TensFacts
<1> QED
  BY <1>1, <1>3

(* What is known of a call tells that its result is right.                 *)
LEMMA ReadsRight ==
  ASSUME ConvertIInv
  PROVE  ReadRight
<1>1. IntegersReadBack
  <2> SUFFICES ASSUME Back, call.op \in {"int", "uint", "hex"}, call.n # MinInt
               PROVE  value = call.n
    BY DEF IntegersReadBack
  <2>1. ReadCall
    BY CallKinds DEF ConvertIInv, Back, WrittenCall, ReadCall
  <2>2. value = ReadAs(call.op, text) /\ NumberCall("read")
    BY <2>1 DEF ReadCall
  <2>3. WholeNumbers \subseteq MinInt .. MaxUint
    BY CallsAssumption
  <2>4. CASE \E n \in WholeNumbers : n <= MaxInt /\ call = Record("int", n, 0, "read") /\ text = FuncIntToStr(n)
    <3>1. PICK n \in WholeNumbers : n <= MaxInt /\ call = Record("int", n, 0, "read") /\ text = FuncIntToStr(n)
      BY <2>4
    <3>2. call.op = "int" /\ call.n = n
      BY <3>1
    <3>3. n \in MinInt .. MaxInt /\ n # MinInt
      BY <2>3, <3>1, <3>2, ConversionsAssumption DEF MinInt, MaxInt, MaxUint
    <3>4. FuncStrToInt(FuncIntToStr(n)) = n
      BY <3>3, IntRead
    <3> QED
      BY <3>1, <3>2, <3>4, <2>2 DEF ReadAs
  <2>5. CASE \E n \in WholeNumbers : n >= 0 /\ call = Record("uint", n, 0, "read") /\ text = FuncUintToStr(n)
    <3>1. PICK n \in WholeNumbers : n >= 0 /\ call = Record("uint", n, 0, "read") /\ text = FuncUintToStr(n)
      BY <2>5
    <3>2. call.op = "uint" /\ call.n = n
      BY <3>1
    <3>3. n \in 0 .. MaxUint
      BY <2>3, <3>1, ConversionsAssumption DEF MinInt, MaxUint
    <3>4. FuncStrToUint(FuncUintToStr(n)) = n
      BY <3>3, UintRead
    <3> QED
      BY <3>1, <3>2, <3>4, <2>2 DEF ReadAs
  <2>6. CASE \E n \in WholeNumbers : n >= 0 /\ call = Record("hex", n, 0, "read") /\ text = FuncHexToStr(n)
    <3>1. PICK n \in WholeNumbers : n >= 0 /\ call = Record("hex", n, 0, "read") /\ text = FuncHexToStr(n)
      BY <2>6
    <3>2. call.op = "hex" /\ call.n = n
      BY <3>1
    <3>3. n \in 0 .. MaxUint /\ n \in Nat
      BY <2>3, <3>1, ConversionsAssumption DEF MinInt, MaxUint
    <3>4. FuncStrToHex(FuncHexToStr(n)) = n
      BY <3>3, HexText, HexRead
    <3> QED
      BY <3>1, <3>2, <3>4, <2>2 DEF ReadAs
  <2>7. CASE \E x \in Reals, p \in PlacesAsked, under \in BOOLEAN :
               /\ \/ call = Record("float", x, p, "read")
                  \/ call = Record("double", x, p, "read")
               /\ text = FuncRealToStr(x, p, under)
    <3>1. call.op \in {"float", "double"}
      BY <2>7
    <3> QED
      BY <3>1
  <2> QED
    BY <2>2, <2>4, <2>5, <2>6, <2>7 DEF NumberCall
<1>2. RealsReadBack
  <2> SUFFICES ASSUME Back, call.op \in {"float", "double"}
               PROVE  /\ FuncAbs(call.n - value) * Tens[call.places] <= Scale
                      /\ HeldExactly(call.n, Scale) => FuncAbs(call.n - value) * Tens[call.places] < Scale
                      /\ FuncAbs(value) <= FuncAbs(call.n)
                      /\ value * call.n >= 0
    BY DEF RealsReadBack
  <2>1. ReadCall
    BY CallKinds DEF ConvertIInv, Back, WrittenCall, ReadCall, Readers
  <2>2. value = ReadAs(call.op, text) /\ NumberCall("read")
    BY <2>1 DEF ReadCall
  <2>3. PICK x \in Reals, p \in PlacesAsked, under \in BOOLEAN :
          /\ \/ call = Record("float", x, p, "read")
             \/ call = Record("double", x, p, "read")
          /\ text = FuncRealToStr(x, p, under)
    BY <2>2 DEF NumberCall
  <2>4. call.n = x /\ call.places = p
    BY <2>3
  <2>5. x \in Int /\ p \in 0 .. PrintPlaces
    BY CallsAssumption DEF FitsReal
  <2>6. \E read \in {PrintPlaces, DoublePlaces} : value = FuncStrToReal(FuncRealToStr(x, p, under), read)
    BY <2>2, <2>3 DEF ReadAs
  <2>7. PICK read \in {PrintPlaces, DoublePlaces} : value = FuncStrToReal(FuncRealToStr(x, p, under), read)
    BY <2>6
  <2>8. read \in Nat /\ read >= PrintPlaces
    BY CallsAssumption
  <2> DEFINE V == FuncStrToReal(FuncRealToStr(x, p, under), read)
  <2>9. /\ FuncAbs(x - V) * Tens[p] <= Scale
        /\ HeldExactly(x, Scale) => FuncAbs(x - V) * Tens[p] < Scale
        /\ FuncAbs(V) <= FuncAbs(x) /\ V * x >= 0
    BY <2>5, <2>8, ScaleTens, RealBack
  <2> HIDE DEF V
  <2>10. value = V
    BY <2>7 DEF V
  <2> QED
    BY <2>4, <2>9, <2>10
<1>3. ReadersAgree
  <2> SUFFICES ASSUME ~Idle, call.step = "other", call.op \in {"float", "double"}
               PROVE  Quot(value, Scale) = FuncStrToInt(text)
    BY DEF ReadersAgree
  <2>1. OtherCall
    BY CallKinds DEF ConvertIInv, WrittenCall, ReadCall
  <2>2. PICK op \in Readers, s \in Texts :
          call = Record(op, 0, 0, "other") /\ text = s /\ value = ReadAs(op, s)
    BY <2>1 DEF OtherCall
  <2>3. \E most \in {PrintPlaces, DoublePlaces} : value = FuncStrToReal(s, most)
    BY <2>2 DEF ReadAs
  <2>4. PICK most \in {PrintPlaces, DoublePlaces} : value = FuncStrToReal(s, most)
    BY <2>3
  <2>5. s \in Seq(Int) /\ Accumulated(s, NumberAt(s), DigitsFrom(s, NumberAt(s)), 10) <= MaxInt /\ most \in Nat
    BY CallsAssumption
  <2>6. Quot(FuncStrToReal(s, most), Scale) = FuncStrToInt(s)
    BY <2>5, ScaleTens, ReadersSame
  <2> QED
    BY <2>2, <2>4, <2>6
<1>4. CommonDivisors
  <2> SUFFICES ASSUME ~Idle, call.op = "gcd", call.a > 0, call.b > 0
               PROVE  Divisors(num1) \cap Divisors(num2) = Divisors(call.a) \cap Divisors(call.b)
    BY DEF CommonDivisors
  <2>1. GcdCall
    BY CallKinds DEF ConvertIInv, WrittenCall, ReadCall, Readers
  <2> QED
    BY <2>1 DEF GcdCall, SameDivisors
<1> QED
  BY <1>1, <1>2, <1>3, <1>4 DEF ReadRight

(* The functions of zf_common_function.cpp return what they were given:    *)
(* every integer but the least is read back from what was written of it,   *)
(* and a real that the float or double tells apart is read back with no    *)
(* more lost than a unit of its last decimal, and less if the variable     *)
(* holds it exactly; the readers agree on any text; the divisors stay; and *)
(* zf_sprintf prints, behind what was printed before, %d, %u and %x as the *)
(* other functions write them, a %p too if the number has all the digits   *)
(* of a pointer, and a %f that reads back as the real or as the next       *)
(* nearer to zero.                                                         *)
THEOREM ConversionsRight == ConvertSpec => ResultsRight
<1>1. ConvertInit => ConvertIInv
  BY DEF ConvertInit, ConvertIInv
<1>2. ConvertIInv /\ [ConvertNext]_convertVars => ConvertIInv'
  BY ConvertStep
<1>3. ConvertIInv => ReadRight
  BY ReadsRight
<1> DEFINE Printing == SprintfItem => /\ SubSeq(text', 1, Len(text)) = text
                                      /\ Agrees(LastItem, SubSeq(text', Len(text) + 1, Len(text')))
<1>4. ConvertIInv /\ [ConvertNext]_convertVars => [Printing]_convertVars
  BY SprintfItemStep
<1>5. ConvertSpec => [][Printing]_convertVars
  <2> HIDE DEF Printing
  <2> QED
    BY <1>1, <1>2, <1>4, PTL DEF ConvertSpec
<1>6. SprintfAgrees <=> [][Printing]_convertVars
  BY PTL DEF SprintfAgrees
<1> HIDE DEF Printing
<1>7. ConvertSpec => []ReadRight
  BY <1>1, <1>2, <1>3, PTL DEF ConvertSpec
<1> QED
  BY <1>5, <1>6, <1>7, PTL DEF ResultsRight
=============================================================================
