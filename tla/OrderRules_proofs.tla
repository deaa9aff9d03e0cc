-------------------------- MODULE OrderRules_proofs --------------------------
(***************************************************************************)
(* What the rounding of prices does, for every decimal and every market:   *)
(* AggressiveTradable, AggressiveCrosses and AggressiveLimited.            *)
(*                                                                         *)
(* Ten and NumDigits are recursive functions: that they obey their         *)
(* equations is Recursion of NumberFacts, what they compute follows by the *)
(* smallest counterexample (TenSum, Digits).                               *)
(*                                                                         *)
(* The argument: rounding to a multiple of a unit passes no multiple of it *)
(* (NearestAbove, NearestBelow) and keeps the order (NearestMonotone).     *)
(* Rounding to five digits changes its unit with the number of digits, yet *)
(* passes no number of five digits, because a number with a smaller unit   *)
(* lies below a power of ten that is itself such a multiple                *)
(* (FiveDigitsPass).  A price the exchange trades at is such a number, and *)
(* lies on the grid of the second rounding (RoundedPass), so neither       *)
(* rounding takes the price across it.  Trimming zeros leaves the value.   *)
(***************************************************************************)
EXTENDS OrderRules, NumberFacts, TLAPS

LEMMA TenRecursion ==
  Ten = [n \in Nat |-> IF n = 0 THEN 1 ELSE 10 * Ten[n - 1]]
  <1> DEFINE Rec(f) == [n \in Nat |-> IF n = 0 THEN 1 ELSE 10 * f[n - 1]]
             prev == [n \in Nat |-> IF n = 0 THEN 0 ELSE n - 1]
             step == [x \in Nat |-> 10 * x]
  <1>1. Falls(prev) /\ step \in [Nat -> Nat]
    BY DEF Falls
  <1> HIDE DEF prev, step
  <1>2. PICK f : Recurs(f, 1, prev, step)
    BY <1>1, Recursion
  <1>3. \A n \in Nat \ {0} : f[n] = 10 * f[n - 1]
    <2> SUFFICES ASSUME NEW n \in Nat \ {0} PROVE f[n] = 10 * f[n - 1]
      OBVIOUS
    <2>1. prev[n] = n - 1 /\ n - 1 \in Nat
      BY DEF prev
    <2>2. f[n - 1] \in Nat
      BY <1>2, <2>1 DEF Recurs
    <2>3. step[f[n - 1]] = 10 * f[n - 1]
      BY <2>2 DEF step
    <2> QED
      BY <1>2, <2>1, <2>3 DEF Recurs
  <1>4. f = Rec(f)
    BY <1>2, <1>3 DEF Recurs
  <1>5. Ten = CHOOSE g : g = Rec(g)
    BY DEF Ten
  <1> HIDE DEF Rec
  <1>6. Ten = Rec(Ten)
    BY <1>4, <1>5, Zenon
  <1> QED
    BY <1>6 DEF Rec

LEMMA TenType == \A n \in Nat : Ten[n] \in Nat \ {0}
  <1> DEFINE T == {n \in Nat : Ten[n] \notin Nat \ {0}}
  <1> SUFFICES ASSUME T # {} PROVE FALSE
    OBVIOUS
  <1>1. PICK n \in T : \A m \in T : n <= m
    BY Smallest
  <1>2. n # 0
    BY <1>1, TenRecursion
  <1>3. n - 1 \in Nat /\ Ten[n - 1] \in Nat \ {0}
    <2>1. n \in Nat /\ n - 1 \in Nat /\ ~(n <= n - 1)
      BY <1>1, <1>2
    <2> QED
      BY <1>1, <2>1
  <1>4. Ten[n] = 10 * Ten[n - 1]
    BY <1>1, <1>2, TenRecursion
  <1> QED
    BY <1>1, <1>3, <1>4

LEMMA TenZero == Ten[0] = 1
  BY TenRecursion

LEMMA TenNext == \A n \in Nat : Ten[n + 1] = 10 * Ten[n]
  <1> SUFFICES ASSUME NEW n \in Nat PROVE Ten[n + 1] = 10 * Ten[n]
    OBVIOUS
  <1>1. n + 1 \in Nat /\ n + 1 # 0 /\ (n + 1) - 1 = n
    OBVIOUS
  <1> QED
    BY <1>1, TenRecursion

LEMMA TenSum == \A a, b \in Nat : Ten[a + b] = Ten[a] * Ten[b]
  <1> SUFFICES ASSUME NEW a \in Nat
               PROVE  \A b \in Nat : Ten[a + b] = Ten[a] * Ten[b]
    OBVIOUS
  <1> DEFINE T == {b \in Nat : Ten[a + b] # Ten[a] * Ten[b]}
  <1> SUFFICES ASSUME T # {} PROVE FALSE
    OBVIOUS
  <1>1. PICK b \in T : \A m \in T : b <= m
    BY Smallest
  <1>2. b # 0
    <2>1. a + 0 = a /\ Ten[a] * 1 = Ten[a]
      BY TenType
    <2> QED
      BY <1>1, <2>1, TenZero
  <1> DEFINE p == b - 1
  <1>3. p \in Nat /\ b = p + 1 /\ a + b = (a + p) + 1 /\ a + p \in Nat
    BY <1>1, <1>2
  <1>4. Ten[a + p] = Ten[a] * Ten[p]
    <2>1. p \in Nat /\ ~(b <= p)
      BY <1>1, <1>2
    <2> HIDE DEF p
    <2> QED
      BY <1>1, <2>1
  <1> HIDE DEF p
  <1>5. Ten[b] = 10 * Ten[p] /\ Ten[a + b] = 10 * Ten[a + p]
    BY <1>3, TenNext
  <1>6. 10 * (Ten[a] * Ten[p]) = Ten[a] * (10 * Ten[p])
    <2>1. \A x, y \in Nat : 10 * (x * y) = x * (10 * y)
      OBVIOUS
    <2> QED
      BY <1>3, <2>1, TenType
  <1> QED
    BY <1>1, <1>4, <1>5, <1>6

LEMMA TenMonotone == \A a, b \in Nat : a <= b => Ten[a] <= Ten[b]
  <1> SUFFICES ASSUME NEW a \in Nat, NEW b \in Nat, a <= b
               PROVE  Ten[a] <= Ten[b]
    OBVIOUS
  <1>1. b - a \in Nat /\ a + (b - a) = b
    OBVIOUS
  <1>2. Ten[b] = Ten[a] * Ten[b - a]
    BY <1>1, TenSum
  <1>3. \A x, y \in Nat \ {0} : x <= x * y
    OBVIOUS
  <1> QED
    BY <1>1, <1>2, <1>3, TenType

LEMMA TenStrict == \A a, b \in Nat : Ten[a] < Ten[b] => a < b
  <1> SUFFICES ASSUME NEW a \in Nat, NEW b \in Nat, Ten[a] < Ten[b], b <= a
               PROVE  FALSE
    OBVIOUS
  <1>1. Ten[b] <= Ten[a]
    BY TenMonotone
  <1> QED
    BY <1>1, TenType

LEMMA TenFirst ==
  Ten[1] = 10 /\ Ten[2] = 100 /\ Ten[3] = 1000 /\ Ten[4] = 10000
    /\ Ten[5] = 100000
  <1>1. Ten[0 + 1] = 10 /\ Ten[1 + 1] = 10 * Ten[1]
        /\ Ten[2 + 1] = 10 * Ten[2] /\ Ten[3 + 1] = 10 * Ten[3]
        /\ Ten[4 + 1] = 10 * Ten[4]
    BY TenNext, TenZero
  <1>2. 0 + 1 = 1 /\ 1 + 1 = 2 /\ 2 + 1 = 3 /\ 3 + 1 = 4 /\ 4 + 1 = 5
    OBVIOUS
  <1> QED
    BY <1>1, <1>2

LEMMA TenLarge ==
  /\ Ten[4] \in Nat \ {0} /\ Ten[5] \in Nat \ {0}
  /\ 1 < Ten[5] /\ Ten[5] = 10 * Ten[4]
  <1>1. 4 \in Nat /\ 5 \in Nat /\ 4 + 1 = 5
    OBVIOUS
  <1>2. Ten[4] \in Nat \ {0} /\ Ten[5] = 10 * Ten[4]
    BY <1>1, TenType, TenNext
  <1> QED
    BY <1>2
-----------------------------------------------------------------------------
LEMMA DigitsRecursion ==
  NumDigits =
    [n \in Nat |-> IF n = 0 THEN 0 ELSE 1 + NumDigits[n \div 10]]
  <1> DEFINE Rec(f) ==
               [n \in Nat |-> IF n = 0 THEN 0 ELSE 1 + f[n \div 10]]
             prev == [n \in Nat |-> n \div 10]
             step == [x \in Nat |-> 1 + x]
  <1>1. Falls(prev) /\ step \in [Nat -> Nat]
    BY DEF Falls
  <1> HIDE DEF prev, step
  <1>2. PICK f : Recurs(f, 0, prev, step)
    BY <1>1, Recursion
  <1>3. \A n \in Nat \ {0} : f[n] = 1 + f[n \div 10]
    <2> SUFFICES ASSUME NEW n \in Nat \ {0} PROVE f[n] = 1 + f[n \div 10]
      OBVIOUS
    <2>1. prev[n] = n \div 10 /\ n \div 10 \in Nat
      BY DEF prev
    <2>2. f[n \div 10] \in Nat
      BY <1>2, <2>1 DEF Recurs
    <2>3. step[f[n \div 10]] = 1 + f[n \div 10]
      BY <2>2 DEF step
    <2> QED
      BY <1>2, <2>1, <2>3 DEF Recurs
  <1>4. f = Rec(f)
    BY <1>2, <1>3 DEF Recurs
  <1>5. NumDigits = CHOOSE g : g = Rec(g)
    BY DEF NumDigits
  <1> HIDE DEF Rec
  <1>6. NumDigits = Rec(NumDigits)
    BY <1>4, <1>5, Zenon
  <1> QED
    BY <1>6 DEF Rec

(* A number is below the power of ten its digits are counted by, and not   *)
(* below the one before.                                                   *)
LEMMA Digits ==
  ASSUME NEW n \in Nat
  PROVE  /\ NumDigits[n] \in Nat /\ n < Ten[NumDigits[n]]
         /\ n > 0 => /\ NumDigits[n] > 0
                     /\ Ten[NumDigits[n] - 1] <= n
  <1> DEFINE Holds(i) ==
               /\ NumDigits[i] \in Nat /\ i < Ten[NumDigits[i]]
               /\ i > 0 => /\ NumDigits[i] > 0
                           /\ Ten[NumDigits[i] - 1] <= i
             T == {i \in Nat : ~Holds(i)}
  <1> SUFFICES ASSUME T # {} PROVE FALSE
    OBVIOUS
  <1>1. PICK i \in T : \A m \in T : i <= m
    BY Smallest
  <1>2. i # 0
    <2>1. NumDigits[0] = 0
      BY DigitsRecursion
    <2> QED
      BY <1>1, <2>1, TenZero
  <1> DEFINE p == i \div 10
             k == NumDigits[p]
  <1>3. i \in Nat /\ i > 0
    BY <1>1, <1>2
  <1>4. p \in Nat /\ p < i /\ 10 * p <= i /\ i < 10 * p + 10
    BY <1>3
  <1>5. NumDigits[i] = 1 + k
    BY <1>2, <1>3, DigitsRecursion
  <1>6. Holds(p)
    <2> HIDE DEF Holds, p
    <2>1. ~(i <= p)
      BY <1>3, <1>4
    <2> QED
      BY <1>1, <1>4, <2>1
  <1> HIDE DEF p
  <1>7. k \in Nat /\ p < Ten[k] /\ (p > 0 => k > 0 /\ Ten[k - 1] <= p)
    BY <1>6
  <1> HIDE DEF k
  <1>8. Ten[k] \in Nat /\ Ten[k + 1] = 10 * Ten[k] /\ 1 + k = k + 1
    BY <1>7, TenNext, TenType
  <1>9. i < Ten[k + 1]
    BY <1>3, <1>4, <1>7, <1>8
  <1>10. Ten[k] <= i
    <2>1. CASE p = 0
      <3>1. k = 0
        BY <2>1, DigitsRecursion DEF k
      <3> QED
        BY <1>3, <3>1, TenZero
    <2>2. CASE p > 0
      <3>1. k - 1 \in Nat /\ (k - 1) + 1 = k
        BY <1>7, <2>2
      <3>2. Ten[k] = 10 * Ten[k - 1] /\ Ten[k - 1] \in Nat
        BY <3>1, TenNext, TenType
      <3> QED
        BY <1>3, <1>4, <1>7, <2>2, <3>2
    <2> QED
      BY <1>4, <2>1, <2>2
  <1>11. Holds(i)
    <2>1. NumDigits[i] = k + 1 /\ (k + 1) - 1 = k /\ k + 1 \in Nat
          /\ k + 1 > 0
      BY <1>5, <1>7, <1>8
    <2> QED
      BY <1>9, <1>10, <2>1
  <1> HIDE DEF Holds
  <1> QED
    BY <1>1, <1>11
-----------------------------------------------------------------------------
(* Rounding to a multiple of a unit goes no further than half of it.       *)
LEMMA NearestBounds ==
  ASSUME NEW n \in Nat, NEW u \in Nat \ {0}, NEW q \in Nearest(n, u)
  PROVE  /\ q \in Nat /\ q * u \in Nat
         /\ 2 * n <= 2 * (q * u) + u
         /\ 2 * (q * u) <= 2 * n + u
  <1> DEFINE d == n \div u
             r == n % u
  <1>1. d \in Nat /\ r \in Nat /\ r < u /\ n = d * u + r
    <2>1. d \in Nat /\ r \in 0..(u - 1) /\ n = d * u + r
      BY Division
    <2> HIDE DEF d, r
    <2> QED
      BY <2>1
  <1>2. PICK up \in {0, 1} :
          q = d + up /\ IF up = 0 THEN 2 * r <= u ELSE 2 * r >= u
    BY DEF Nearest
  <1> HIDE DEF d, r
  <1>3. d * u \in Nat
    BY <1>1, Product
  <1>4. CASE up = 0
    <2>1. q = d /\ 2 * r <= u
      BY <1>1, <1>2, <1>4
    <2> QED
      BY <1>1, <1>3, <2>1
  <1>5. CASE up = 1
    <2>1. q = d + 1 /\ 2 * r >= u
      BY <1>2, <1>5
    <2>2. (d + 1) * u = d * u + u
      BY <1>1
    <2> QED
      BY <1>1, <1>3, <2>1, <2>2
  <1> QED
    BY <1>2, <1>4, <1>5

LEMMA NearestSome ==
  ASSUME NEW n \in Nat, NEW u \in Nat \ {0}
  PROVE  Nearest(n, u) # {}
  <1> DEFINE r == n % u
             U == {x \in {0, 1} :
                     IF x = 0 THEN 2 * r <= u ELSE 2 * r >= u}
  <1>1. r \in Nat
    BY Division
  <1> HIDE DEF r
  <1>2. 0 \in U \/ 1 \in U
    BY <1>1
  <1>3. Nearest(n, u) = {n \div u + x : x \in U}
    BY DEF Nearest, r
  <1> HIDE DEF U
  <1> QED
    BY <1>2, <1>3

(* It passes no multiple of the unit.                                      *)
LEMMA NearestAbove ==
  ASSUME NEW n \in Nat, NEW u \in Nat \ {0}, NEW q \in Nearest(n, u),
         NEW m \in Nat, m * u <= n
  PROVE  m <= q
  <1> SUFFICES ASSUME q + 1 <= m PROVE FALSE
    BY NearestBounds
  <1>1. q \in Nat /\ q * u \in Nat /\ 2 * n <= 2 * (q * u) + u
    BY NearestBounds
  <1>2. (q + 1) * u <= m * u
    BY <1>1, TimesMore
  <1>3. (q + 1) * u = q * u + u /\ m * u \in Nat
    BY <1>1
  <1> QED
    BY <1>1, <1>2, <1>3

LEMMA NearestBelow ==
  ASSUME NEW n \in Nat, NEW u \in Nat \ {0}, NEW q \in Nearest(n, u),
         NEW m \in Nat, n <= m * u
  PROVE  q <= m
  <1> SUFFICES ASSUME m + 1 <= q PROVE FALSE
    BY NearestBounds
  <1>1. q \in Nat /\ q * u \in Nat /\ 2 * (q * u) <= 2 * n + u
    BY NearestBounds
  <1>2. (m + 1) * u <= q * u
    BY <1>1, TimesMore
  <1>3. (m + 1) * u = m * u + u /\ m * u \in Nat
    BY <1>1
  <1> QED
    BY <1>1, <1>2, <1>3

LEMMA NearestMonotone ==
  ASSUME NEW n \in Nat, NEW u \in Nat \ {0}, NEW q \in Nearest(n, u),
         NEW k \in Nat, NEW p \in Nearest(k, u), n < k
  PROVE  q <= p
  <1> SUFFICES ASSUME p + 1 <= q PROVE FALSE
    BY NearestBounds
  <1>1. q \in Nat /\ q * u \in Nat /\ 2 * (q * u) <= 2 * n + u
    BY NearestBounds
  <1>2. p \in Nat /\ p * u \in Nat /\ 2 * k <= 2 * (p * u) + u
    BY NearestBounds
  <1>3. (p + 1) * u <= q * u
    BY <1>1, <1>2, TimesMore
  <1>4. (p + 1) * u = p * u + u
    BY <1>2
  <1> QED
    BY <1>1, <1>2, <1>3, <1>4

(* More than half of a unit is not rounded to nothing.                     *)
LEMMA NearestPositive ==
  ASSUME NEW n \in Nat, NEW u \in Nat \ {0}, NEW q \in Nearest(n, u),
         u < 2 * n
  PROVE  q > 0
  <1>1. q \in Nat /\ 2 * n <= 2 * (q * u) + u
    BY NearestBounds
  <1>2. q = 0 => q * u = 0
    OBVIOUS
  <1> QED
    BY <1>1, <1>2
-----------------------------------------------------------------------------
(* A number of five digits at most and zeros after them.                   *)
FewDigits(n) == \E m, e \in Nat : m < Ten[5] /\ n = m * Ten[e]

(* The decimal position FiveDigits rounds at.                              *)
Position(n) == IF NumDigits[n] > 5 THEN NumDigits[n] - 5 ELSE 0

LEMMA PositionFacts ==
  ASSUME NEW n \in Nat
  PROVE  /\ Position(n) \in Nat
         /\ n < Ten[Position(n) + 5]
         /\ Position(n) = 0 \/ Ten[Position(n) + 4] <= n
  <1> DEFINE k == NumDigits[n]
  <1>1. k \in Nat /\ n < Ten[k] /\ (n > 0 => k > 0 /\ Ten[k - 1] <= n)
    BY Digits
  <1>2. CASE k > 5
    <2>1. Position(n) = k - 5 /\ (k - 5) + 5 = k /\ (k - 5) + 4 = k - 1
          /\ k - 5 \in Nat
      BY <1>1, <1>2 DEF Position
    <2>2. n > 0
      <3>1. NumDigits[0] = 0
        BY DigitsRecursion
      <3> QED
        BY <1>2, <3>1
    <2> HIDE DEF k
    <2> QED
      BY <1>1, <2>1, <2>2
  <1>3. CASE ~(k > 5)
    <2>1. Position(n) = 0 /\ 0 + 5 = 5 /\ k <= 5
      BY <1>1, <1>3 DEF Position
    <2> HIDE DEF k
    <2>2. Ten[k] <= Ten[5]
      BY <1>1, <2>1, TenMonotone
    <2>3. Ten[k] \in Nat /\ Ten[5] \in Nat
      BY <1>1, TenType
    <2> QED
      BY <1>1, <2>1, <2>2, <2>3
  <1> QED
    BY <1>2, <1>3

LEMMA FiveDigitsOf ==
  ASSUME NEW n \in Nat, NEW x \in FiveDigits(n)
  PROVE  \E q \in Nearest(n, Ten[Position(n)]) :
           /\ q \in Nat /\ q <= Ten[5]
           /\ x = q * Ten[Position(n)] /\ x \in Nat
  <1> DEFINE u == Ten[Position(n)]
  <1>1. u \in Nat \ {0}
    BY PositionFacts, TenType
  <1>2. FiveDigits(n) = {u * p : p \in Nearest(n, u)}
    BY DEF FiveDigits, Position
  <1>3. n <= Ten[5] * u
    <2>1. Ten[Position(n) + 5] = u * Ten[5]
      BY PositionFacts, TenSum
    <2>2. n < Ten[Position(n) + 5]
      BY PositionFacts
    <2> HIDE DEF u
    <2> QED
      BY <1>1, <2>1, <2>2, TenLarge
  <1> HIDE DEF u
  <1>4. PICK q \in Nearest(n, u) : x = u * q
    BY <1>2
  <1>5. q \in Nat /\ q * u \in Nat
    BY <1>1, NearestBounds
  <1>6. q <= Ten[5]
    BY <1>1, <1>3, NearestBelow, TenLarge
  <1>7. x = q * u
    BY <1>1, <1>4, <1>5
  <1> QED
    BY <1>4, <1>5, <1>6, <1>7 DEF u

LEMMA FiveDigitsSome ==
  ASSUME NEW n \in Nat
  PROVE  FiveDigits(n) # {}
  <1> DEFINE u == Ten[Position(n)]
  <1>1. u \in Nat \ {0}
    BY PositionFacts, TenType
  <1>2. FiveDigits(n) = {u * p : p \in Nearest(n, u)}
    BY DEF FiveDigits, Position
  <1> HIDE DEF u
  <1> QED
    BY <1>1, <1>2, NearestSome
-----------------------------------------------------------------------------
(* It passes no number of five digits, wherever its zeros begin.           *)
LEMMA FiveDigitsPass ==
  ASSUME NEW n \in Nat, NEW x \in FiveDigits(n), NEW m \in Nat, FewDigits(m)
  PROVE  (m <= n => m <= x) /\ (n <= m => x <= m)
  <1> DEFINE y == Position(n)
             u == Ten[y]
  <1>1. /\ y \in Nat /\ u \in Nat \ {0}
        /\ y = 0 \/ Ten[y + 4] <= n
    BY PositionFacts, TenType
  <1>2. PICK q \in Nearest(n, u) : q \in Nat /\ x = q * u /\ x \in Nat
    BY FiveDigitsOf
  <1>3. PICK k \in Nat, e \in Nat : k < Ten[5] /\ m = k * Ten[e]
    BY DEF FewDigits
  <1> HIDE DEF y
  <1>4. CASE y <= e
    <2> DEFINE j == k * Ten[e - y]
    <2>1. e - y \in Nat /\ (e - y) + y = e
      BY <1>1, <1>4
    <2>2. Ten[e] = Ten[e - y] * u /\ Ten[e - y] \in Nat
      BY <1>1, <2>1, TenSum, TenType
    <2> HIDE DEF u
    <2>3. j \in Nat /\ m = j * u
      <3>1. \A a, b, c \in Nat : a * (b * c) = (a * b) * c
        OBVIOUS
      <3> QED
        BY <1>1, <1>3, <2>2, <3>1
    <2> HIDE DEF j
    <2>4. m <= n => j <= q
      BY <1>1, <1>2, <2>3, NearestAbove
    <2>5. n <= m => q <= j
      BY <1>1, <1>2, <2>3, NearestBelow
    <2> QED
      BY <1>1, <1>2, <2>3, <2>4, <2>5, TimesMore
  <1>5. CASE e < y
    <2> DEFINE t == Ten[y + 4]
    <2>1. y # 0 /\ e + 5 <= y + 4 /\ e + 5 \in Nat /\ y + 4 \in Nat
      BY <1>1, <1>5
    <2>2. Ten[e + 5] <= t /\ t \in Nat /\ Ten[e + 5] = Ten[e] * Ten[5]
          /\ Ten[e] \in Nat \ {0} /\ t = u * Ten[4]
      BY <1>1, <2>1, TenMonotone, TenSum, TenType, TenLarge
    <2>3. t <= n
      BY <1>1, <2>1
    <2> HIDE DEF t, u
    <2>4. k * Ten[e] < Ten[e] * Ten[5]
      <3>1. \A b \in Nat \ {0}, a \in Nat :
              a < Ten[5] => a * b < b * Ten[5]
        <4>1. \A a, b \in Nat, c \in Nat : b # 0 /\ a < c => a * b < b * c
          OBVIOUS
        <4> QED
          BY <4>1, TenLarge
      <3> QED
        BY <1>3, <2>2, <3>1
    <2>5. m < t
      BY <1>3, <2>2, <2>4, Product, TenLarge
    <2>6. Ten[4] <= q
      <3>1. Ten[4] * u <= n
        BY <1>1, <2>2, <2>3, TenLarge
      <3> QED
        BY <1>1, <1>2, <3>1, NearestAbove, TenLarge
    <2>7. Ten[4] * u <= q * u
      BY <1>1, <1>2, <2>6, TimesMore, TenLarge
    <2> QED
      BY <1>1, <1>2, <2>2, <2>3, <2>5, <2>7, TenLarge
  <1> QED
    BY <1>1, <1>3, <1>4, <1>5

LEMMA FiveDigitsFew ==
  ASSUME NEW n \in Nat, NEW x \in FiveDigits(n)
  PROVE  FewDigits(x)
  <1> DEFINE y == Position(n)
  <1>1. y \in Nat /\ Ten[y] \in Nat
    BY PositionFacts, TenType
  <1>2. PICK q \in Nat : q <= Ten[5] /\ x = q * Ten[y]
    BY FiveDigitsOf
  <1> HIDE DEF y
  <1>3. CASE q = Ten[5]
    <2>1. Ten[y + 5] = Ten[y] * Ten[5] /\ y + 5 \in Nat
      BY <1>1, TenSum, TenLarge
    <2>2. 1 < Ten[5] /\ x = 1 * Ten[y + 5]
      BY <1>1, <1>2, <1>3, <2>1, TenLarge
    <2> QED
      BY <2>1, <2>2 DEF FewDigits
  <1>4. CASE q # Ten[5]
    <2>1. q < Ten[5]
      BY <1>2, <1>4, TenLarge
    <2> QED
      BY <1>1, <1>2, <2>1 DEF FewDigits
  <1> QED
    BY <1>3, <1>4

LEMMA PowerFew == \A e \in Nat : FewDigits(Ten[e])
  <1> SUFFICES ASSUME NEW e \in Nat PROVE FewDigits(Ten[e])
    OBVIOUS
  <1>1. 1 \in Nat /\ 1 < Ten[5] /\ Ten[e] = 1 * Ten[e]
    BY TenType, TenLarge
  <1> QED
    BY <1>1 DEF FewDigits

LEMMA FiveDigitsMonotone ==
  ASSUME NEW n \in Nat, NEW x \in FiveDigits(n),
         NEW k \in Nat, NEW z \in FiveDigits(k), n < k
  PROVE  x <= z
  <1> DEFINE y == Position(n)
             w == Position(k)
  <1>1. PICK q \in Nearest(n, Ten[y]) :
          q \in Nat /\ q <= Ten[5] /\ x = q * Ten[y] /\ x \in Nat
    BY FiveDigitsOf
  <1>2. PICK p \in Nearest(k, Ten[w]) :
          p \in Nat /\ z = p * Ten[w] /\ z \in Nat
    BY FiveDigitsOf
  <1>3. /\ y \in Nat /\ n < Ten[y + 5] /\ (y = 0 \/ Ten[y + 4] <= n)
        /\ w \in Nat /\ k < Ten[w + 5] /\ (w = 0 \/ Ten[w + 4] <= k)
    BY PositionFacts
  <1> HIDE DEF y, w
  <1>4. /\ Ten[y] \in Nat \ {0} /\ Ten[w] \in Nat \ {0}
        /\ Ten[y + 5] \in Nat /\ Ten[w + 5] \in Nat
        /\ Ten[y + 4] \in Nat /\ Ten[w + 4] \in Nat
        /\ Ten[y + 5] = Ten[y] * Ten[5]
    <2>1. y + 5 \in Nat /\ w + 5 \in Nat /\ y + 4 \in Nat /\ w + 4 \in Nat
      BY <1>3
    <2>2. Ten[y + 5] = Ten[y] * Ten[5]
      BY <1>3, TenSum
    <2> QED
      BY <1>3, <2>1, <2>2, TenType
  <1>5. CASE y = w
    <2>1. q <= p
      BY <1>1, <1>2, <1>4, <1>5, NearestMonotone
    <2> QED
      BY <1>1, <1>2, <1>4, <1>5, <2>1, TimesMore
  <1>6. CASE y < w
    <2>1. w # 0 /\ y + 5 <= w + 4 /\ y + 5 \in Nat /\ w + 4 \in Nat
      BY <1>3, <1>6
    <2>2. Ten[y + 5] <= Ten[w + 4]
      BY <2>1, TenMonotone
    <2>3. Ten[w + 4] <= z
      BY <1>3, <1>4, <2>1, FiveDigitsPass, PowerFew
    <2>4. x <= Ten[y + 5]
      <3>1. q * Ten[y] <= Ten[5] * Ten[y]
        BY <1>1, <1>4, TimesMore, TenLarge
      <3> QED
        BY <1>1, <1>4, <3>1, TenLarge
    <2> QED
      BY <1>1, <1>2, <1>4, <2>2, <2>3, <2>4
  <1>7. CASE w < y
    <2>1. y # 0 /\ w + 5 <= y + 4 /\ w + 5 \in Nat /\ y + 4 \in Nat
      BY <1>3, <1>7
    <2>2. Ten[w + 5] <= Ten[y + 4]
      BY <2>1, TenMonotone
    <2> QED
      BY <1>3, <1>4, <2>1, <2>2
  <1> QED
    BY <1>3, <1>5, <1>6, <1>7
-----------------------------------------------------------------------------
LEMMA Zeros ==
  ASSUME NEW n \in Nat, NEW most \in Nat
  PROVE  /\ ZerosAtEnd(n, most) \in 0..most
         /\ n % Ten[ZerosAtEnd(n, most)] = 0
         /\ \A e \in 0..most : n % Ten[e] = 0 => e <= ZerosAtEnd(n, most)
  <1> DEFINE S == {e \in 0..most : n % Ten[e] = 0}
  <1>1. 0 \in S
    <2>1. n % 1 = 0 /\ 0 \in 0..most
      OBVIOUS
    <2> QED
      BY <2>1, TenZero
  <1>2. \E e \in S : \A f \in S : e >= f
    <2>1. S \in SUBSET (0..most) /\ S # {}
      BY <1>1
    <2>2. PICK e \in S : \A f \in S : f <= e
      <3> HIDE DEF S
      <3> QED
        BY <2>1, Largest
    <2>3. \A f \in S : e >= f
      BY <2>2
    <2> QED
      BY <2>3
  <1>3. ZerosAtEnd(n, most) = CHOOSE e \in S : \A f \in S : e >= f
    BY DEF ZerosAtEnd, Max
  <1> DEFINE z == ZerosAtEnd(n, most)
  <1>4. z \in S /\ \A f \in S : z >= f
    <2> HIDE DEF S
    <2> QED
      BY <1>2, <1>3, Zenon
  <1> HIDE DEF z
  <1>5. \A e \in 0..most : n % Ten[e] = 0 => e <= z
    BY <1>4
  <1> QED
    BY <1>4, <1>5 DEF z

LEMMA Multiple ==
  ASSUME NEW n \in Nat, NEW u \in Nat \ {0}, n % u = 0
  PROVE  n \div u \in Nat /\ n = (n \div u) * u
  <1>1. n \div u \in Nat /\ n = (n \div u) * u + (n % u)
    BY Division
  <1>2. (n \div u) * u \in Nat
    BY <1>1, Product
  <1> QED
    BY <1>1, <1>2

LEMMA MultipleOf ==
  ASSUME NEW m \in Nat, NEW u \in Nat \ {0}
  PROVE  (m * u) % u = 0 /\ (m * u) \div u = m
  <1> DEFINE n == m * u
             d == n \div u
             r == n % u
  <1>1. n \in Nat
    BY Product
  <1>2. d \in Nat /\ r \in 0..(u - 1) /\ n = d * u + r
    <2> HIDE DEF n
    <2> QED
      BY <1>1, Division
  <1> HIDE DEF d, r
  <1>3. r \in Nat /\ r < u /\ m * u = d * u + r /\ d * u \in Nat
        /\ m * u \in Nat
    BY <1>2, Product
  <1>4. ~(d + 1 <= m)
    <2>1. (d + 1) * u = d * u + u
      BY <1>2
    <2>2. d + 1 <= m => (d + 1) * u <= m * u
      BY <1>2, TimesMore
    <2> QED
      BY <1>3, <2>1, <2>2
  <1>5. ~(m + 1 <= d)
    <2>1. (m + 1) * u = m * u + u
      OBVIOUS
    <2>2. m + 1 <= d => (m + 1) * u <= d * u
      BY <1>2, TimesMore
    <2> QED
      BY <1>3, <2>1, <2>2
  <1>6. d = m
    BY <1>2, <1>4, <1>5
  <1>7. r = 0
    BY <1>3, <1>6
  <1> QED
    BY <1>6, <1>7 DEF d, r

(* Trim leaves the value as it is.                                         *)
LEMMA TrimFacts ==
  ASSUME NEW d \in Decimals
  PROVE  /\ Trim(d) \in Decimals
         /\ \E z \in 0..d.places :
              /\ Trim(d).places = d.places - z
              /\ d.coef = Trim(d).coef * Ten[z]
              /\ \A e \in 0..d.places : d.coef % Ten[e] = 0 => e <= z
  <1>1. d.coef \in Nat /\ d.places \in Nat
    BY DEF Decimals
  <1> DEFINE z == ZerosAtEnd(d.coef, d.places)
             c == d.coef \div Ten[z]
  <1>2. /\ z \in 0..d.places /\ d.coef % Ten[z] = 0
        /\ \A e \in 0..d.places : d.coef % Ten[e] = 0 => e <= z
    BY <1>1, Zeros
  <1>3. Trim(d) = [coef |-> c, places |-> d.places - z]
    BY DEF Trim
  <1> HIDE DEF z
  <1>4. z \in Nat /\ d.places - z \in Nat
    BY <1>1, <1>2
  <1>5. c \in Nat /\ d.coef = c * Ten[z]
    BY <1>1, <1>2, <1>4, Multiple, TenType
  <1> HIDE DEF c
  <1>6. Trim(d).coef = c /\ Trim(d).places = d.places - z
    BY <1>3
  <1>7. Trim(d) \in Decimals
    BY <1>3, <1>4, <1>5 DEF Decimals
  <1> QED
    BY <1>2, <1>5, <1>6, <1>7
-----------------------------------------------------------------------------
(* a is no more than b, as numbers.                                        *)
Leq(a, b) == a.coef * Ten[b.places] <= b.coef * Ten[a.places]
Dec(coef, places) == [coef |-> coef, places |-> places]

LEMMA DecFacts ==
  ASSUME NEW c \in Nat, NEW p \in Nat
  PROVE  Dec(c, p) \in Decimals /\ Dec(c, p).coef = c /\ Dec(c, p).places = p
  BY DEF Dec, Decimals

LEMMA DecimalFacts ==
  ASSUME NEW d \in Decimals
  PROVE  d.coef \in Nat /\ d.places \in Nat /\ Ten[d.places] \in Nat \ {0}
  BY TenType DEF Decimals

LEMMA CrossTransitive ==
  ASSUME NEW a \in Nat, NEW b \in Nat, NEW c \in Nat,
         NEW u \in Nat \ {0}, NEW v \in Nat \ {0}, NEW w \in Nat \ {0},
         a * v <= b * u, b * w <= c * v
  PROVE  a * w <= c * u
  <1>1. (a * v) * w <= (b * u) * w
    BY TimesMore, Product
  <1>2. (b * w) * u <= (c * v) * u
    BY TimesMore, Product
  <1>3. /\ (a * v) * w = (a * w) * v
        /\ (b * u) * w = (b * w) * u
        /\ (c * v) * u = (c * u) * v
    OBVIOUS
  <1>4. a * w \in Nat /\ c * u \in Nat
    BY Product
  <1>5. (a * w) * v <= (c * u) * v
    <2>1. (a * w) * v \in Nat /\ (c * u) * v \in Nat /\ (b * w) * u \in Nat
      BY Product
    <2> QED
      BY <1>1, <1>2, <1>3, <2>1
  <1> QED
    BY <1>4, <1>5, TimesLess

LEMMA LeqTransitive ==
  ASSUME NEW a \in Decimals, NEW b \in Decimals, NEW c \in Decimals,
         Leq(a, b), Leq(b, c)
  PROVE  Leq(a, c)
  BY CrossTransitive, DecimalFacts DEF Leq

LEMMA TrimLeq ==
  ASSUME NEW d \in Decimals
  PROVE  Leq(d, Trim(d)) /\ Leq(Trim(d), d)
  <1> DEFINE t == Trim(d)
  <1>1. t \in Decimals
    BY TrimFacts
  <1>2. PICK z \in 0..d.places :
          t.places = d.places - z /\ d.coef = t.coef * Ten[z]
    BY TrimFacts
  <1> HIDE DEF t
  <1>3. /\ z \in Nat /\ t.places \in Nat /\ d.places \in Nat
        /\ z + t.places = d.places
    BY <1>1, <1>2, DecimalFacts
  <1>4. Ten[d.places] = Ten[z] * Ten[t.places]
    BY <1>3, TenSum
  <1>5. d.coef * Ten[t.places] = t.coef * Ten[d.places]
    <2>1. \A x, y, w \in Nat : (x * y) * w = x * (y * w)
      OBVIOUS
    <2> QED
      BY <1>1, <1>2, <1>3, <1>4, <2>1, DecimalFacts, TenType
  <1>6. t.coef * Ten[d.places] \in Nat
    BY <1>1, DecimalFacts, Product
  <1>7. Leq(d, t) /\ Leq(t, d)
    BY <1>5, <1>6 DEF Leq
  <1> QED
    BY <1>7 DEF t

LEMMA Cancel ==
  ASSUME NEW a \in Nat, NEW b \in Nat, NEW u \in Nat \ {0},
         NEW v \in Nat
  PROVE  a * v <= b <=> a * (v * u) <= b * u
  <1>1. a * (v * u) = (a * v) * u /\ a * v \in Nat
    OBVIOUS
  <1>2. a * v <= b => (a * v) * u <= b * u
    BY <1>1, TimesMore
  <1>3. (a * v) * u <= b * u => a * v <= b
    BY <1>1, TimesLess
  <1> QED
    BY <1>1, <1>2, <1>3

(* AtMost compares as numbers.                                             *)
LEMMA AtMostLeq ==
  ASSUME NEW a \in Decimals, NEW b \in Decimals
  PROVE  AtMost(a, b) <=> Leq(a, b)
  <1>1. /\ a.coef \in Nat /\ a.places \in Nat /\ Ten[a.places] \in Nat \ {0}
        /\ b.coef \in Nat /\ b.places \in Nat /\ Ten[b.places] \in Nat \ {0}
    BY DecimalFacts
  <1>2. CASE a.places = b.places
    <2>1. AtMost(a, b) <=> a.coef <= b.coef
      BY <1>1, <1>2 DEF AtMost
    <2>2. a.coef * 1 <= b.coef
            <=> a.coef * (1 * Ten[a.places]) <= b.coef * Ten[a.places]
      BY <1>1, Cancel
    <2>3. a.coef * 1 = a.coef /\ 1 * Ten[a.places] = Ten[a.places]
      BY <1>1
    <2> QED
      BY <1>2, <2>1, <2>2, <2>3 DEF Leq
  <1>3. CASE a.places < b.places
    <2> DEFINE x == b.places - a.places
    <2>1. x \in Nat /\ x + a.places = b.places
      BY <1>1, <1>3
    <2>2. Ten[b.places] = Ten[x] * Ten[a.places] /\ Ten[x] \in Nat
      BY <1>1, <2>1, TenSum, TenType
    <2>3. AtMost(a, b) <=> a.coef * Ten[x] <= b.coef
      BY <1>1, <1>3 DEF AtMost
    <2> HIDE DEF x
    <2>4. a.coef * Ten[x] <= b.coef
            <=> a.coef * (Ten[x] * Ten[a.places]) <= b.coef * Ten[a.places]
      BY <1>1, <2>2, Cancel
    <2> QED
      BY <2>2, <2>3, <2>4 DEF Leq
  <1>4. CASE b.places < a.places
    <2> DEFINE x == a.places - b.places
    <2>1. x \in Nat /\ x + b.places = a.places
      BY <1>1, <1>4
    <2>2. Ten[a.places] = Ten[x] * Ten[b.places] /\ Ten[x] \in Nat
      BY <1>1, <2>1, TenSum, TenType
    <2>3. AtMost(a, b) <=> a.coef <= b.coef * Ten[x]
      BY <1>1, <1>4 DEF AtMost
    <2> HIDE DEF x
    <2>4. b.coef * Ten[x] \in Nat
      BY <1>1, <2>2, Product
    <2>5. b.coef * (Ten[x] * Ten[b.places])
            = (b.coef * Ten[x]) * Ten[b.places]
      BY <1>1, <2>2
    <2>6. a.coef <= b.coef * Ten[x]
            => a.coef * Ten[b.places] <= (b.coef * Ten[x]) * Ten[b.places]
      BY <1>1, <2>4, TimesMore
    <2>7. a.coef * Ten[b.places] <= (b.coef * Ten[x]) * Ten[b.places]
            => a.coef <= b.coef * Ten[x]
      BY <1>1, <2>4, TimesLess
    <2> QED
      BY <2>2, <2>3, <2>5, <2>6, <2>7 DEF Leq
  <1> QED
    BY <1>1, <1>2, <1>3, <1>4

(* What lies on the grid is a whole number of its units.                   *)
LEMMA GridUnits ==
  ASSUME NEW r \in Decimals, NEW D \in Nat, OnGrid(r, D)
  PROVE  \E g \in Nat : Leq(r, Dec(g, D)) /\ Leq(Dec(g, D), r)
  <1>1. r.coef \in Nat /\ r.places \in Nat
    BY DecimalFacts
  <1>2. PICK e \in 0..r.places :
          r.coef % Ten[e] = 0 /\ r.places - e <= D
    BY DEF OnGrid
  <1> DEFINE h == r.coef \div Ten[e]
             x == D - (r.places - e)
             g == h * Ten[x]
  <1>3. /\ e \in Nat /\ x \in Nat /\ e + D = x + r.places
        /\ Ten[e] \in Nat \ {0} /\ Ten[x] \in Nat \ {0}
    BY <1>1, <1>2, TenType
  <1>4. h \in Nat /\ r.coef = h * Ten[e]
    BY <1>1, <1>2, <1>3, Multiple
  <1> HIDE DEF h, x
  <1>5. Ten[e] * Ten[D] = Ten[x] * Ten[r.places]
    <2>1. Ten[e + D] = Ten[e] * Ten[D]
          /\ Ten[x + r.places] = Ten[x] * Ten[r.places]
      BY <1>1, <1>3, TenSum
    <2> QED
      BY <1>3, <2>1
  <1>6. g \in Nat
    BY <1>3, <1>4, Product
  <1>7. r.coef * Ten[D] = g * Ten[r.places]
    <2>1. \A a, b, c \in Nat : (a * b) * c = a * (b * c)
      OBVIOUS
    <2>2. r.coef * Ten[D] = h * (Ten[e] * Ten[D])
      BY <1>3, <1>4, <2>1, TenType
    <2>3. g * Ten[r.places] = h * (Ten[x] * Ten[r.places])
      BY <1>1, <1>3, <1>4, <2>1, TenType
    <2> HIDE DEF g
    <2> QED
      BY <1>5, <2>2, <2>3
  <1> HIDE DEF g
  <1>8. r.coef * Ten[D] \in Nat
    BY <1>1, TenType, Product
  <1>9. Leq(r, Dec(g, D)) /\ Leq(Dec(g, D), r)
    BY <1>6, <1>7, <1>8, DecFacts DEF Leq
  <1> QED
    BY <1>6, <1>9
-----------------------------------------------------------------------------
(* ToDecimals before its zeros are trimmed.                                *)
Rounded(n, places, D) ==
  IF places <= D THEN {Dec(n, places)}
  ELSE {Dec(q, D) : q \in Nearest(n, Ten[places - D])}

LEMMA RoundedTrimmed ==
  ASSUME NEW n, NEW places, NEW D
  PROVE  ToDecimals(n, places, D) = {Trim(d) : d \in Rounded(n, places, D)}
  BY DEF ToDecimals, Rounded, Dec

LEMMA RoundedCases ==
  ASSUME NEW n \in Nat, NEW places \in Nat, NEW D \in Nat,
         NEW d \in Rounded(n, places, D)
  PROVE  /\ d \in Decimals /\ d.places <= D
         /\ \/ places <= D /\ d = Dec(n, places)
            \/ /\ ~(places <= D) /\ places - D \in Nat
               /\ Ten[places - D] \in Nat \ {0}
               /\ d.places = D /\ d = Dec(d.coef, D)
               /\ d.coef \in Nearest(n, Ten[places - D])
  <1>1. CASE places <= D
    BY <1>1, DecFacts DEF Rounded
  <1>2. CASE ~(places <= D)
    <2>1. places - D \in Nat /\ Ten[places - D] \in Nat \ {0}
      BY <1>2, TenType
    <2>2. PICK q \in Nearest(n, Ten[places - D]) : d = Dec(q, D)
      BY <1>2 DEF Rounded
    <2>3. q \in Nat
      BY <2>1, NearestBounds
    <2>4. d \in Decimals /\ d.coef = q /\ d.places = D
      BY <2>2, <2>3, DecFacts
    <2> QED
      BY <1>2, <2>1, <2>2, <2>4
  <1> QED
    BY <1>1, <1>2

LEMMA RoundedSome ==
  ASSUME NEW n \in Nat, NEW places \in Nat, NEW D \in Nat
  PROVE  Rounded(n, places, D) # {}
  <1>1. CASE places <= D
    BY <1>1 DEF Rounded
  <1>2. CASE ~(places <= D)
    <2>1. Ten[places - D] \in Nat \ {0}
      BY <1>2, TenType
    <2> QED
      BY <1>2, <2>1, NearestSome DEF Rounded
  <1> QED
    BY <1>1, <1>2

(* Rounding to the decimals of the market passes nothing on its grid.      *)
LEMMA RoundedPass ==
  ASSUME NEW n \in Nat, NEW places \in Nat, NEW D \in Nat,
         NEW d \in Rounded(n, places, D), NEW r \in Decimals, OnGrid(r, D)
  PROVE  /\ Leq(r, Dec(n, places)) => Leq(r, d)
         /\ Leq(Dec(n, places), r) => Leq(d, r)
  <1>1. CASE places <= D
    BY <1>1, RoundedCases
  <1>2. CASE ~(places <= D)
    <2> DEFINE v == Ten[places - D]
               q == d.coef
    <2>1. /\ places - D \in Nat /\ v \in Nat \ {0} /\ d \in Decimals
          /\ q \in Nearest(n, v) /\ d = Dec(q, D)
      BY <1>2, RoundedCases
    <2>2. PICK g \in Nat : Leq(r, Dec(g, D)) /\ Leq(Dec(g, D), r)
      BY GridUnits
    <2>3. Ten[places] = v * Ten[D] /\ Ten[D] \in Nat \ {0}
      <3>1. (places - D) + D = places
        OBVIOUS
      <3> QED
        BY <2>1, <3>1, TenSum, TenType
    <2> HIDE DEF v, q
    <2>4. q \in Nat
      BY <2>1, NearestBounds
    <2>5. Dec(g, D) \in Decimals /\ Dec(n, places) \in Decimals
      BY DecFacts
    <2>6. /\ Leq(Dec(g, D), Dec(n, places)) <=> g * v <= n
          /\ Leq(Dec(n, places), Dec(g, D)) <=> n <= g * v
      <3>1. g * v <= n <=> g * (v * Ten[D]) <= n * Ten[D]
        BY <2>1, <2>3, Cancel
      <3>2. g * v \in Nat /\ g * (v * Ten[D]) = (g * v) * Ten[D]
        BY <2>1, <2>3
      <3>3. n <= g * v <=> n * Ten[D] <= (g * v) * Ten[D]
        BY <2>3, <3>2, TimesMore, TimesLess
      <3> QED
        BY <2>3, <3>1, <3>2, <3>3, DecFacts DEF Leq
    <2>7. /\ g <= q => Leq(Dec(g, D), Dec(q, D))
          /\ q <= g => Leq(Dec(q, D), Dec(g, D))
      BY <2>3, <2>4, TimesMore, DecFacts DEF Leq
    <2>8. ASSUME Leq(r, Dec(n, places)) PROVE Leq(r, d)
      <3>1. g * v <= n
        BY <2>2, <2>5, <2>6, <2>8, LeqTransitive
      <3>2. g <= q
        BY <2>1, <3>1, NearestAbove
      <3> QED
        BY <2>1, <2>2, <2>5, <2>7, <3>2, LeqTransitive
    <2>9. ASSUME Leq(Dec(n, places), r) PROVE Leq(d, r)
      <3>1. n <= g * v
        BY <2>2, <2>5, <2>6, <2>9, LeqTransitive
      <3>2. q <= g
        BY <2>1, <3>1, NearestBelow
      <3> QED
        BY <2>1, <2>2, <2>5, <2>7, <3>2, LeqTransitive
    <2> QED
      BY <2>8, <2>9
  <1> QED
    BY <1>1, <1>2

LEMMA RoundedMonotone ==
  ASSUME NEW n \in Nat, NEW places \in Nat, NEW D \in Nat,
         NEW d \in Rounded(n, places, D),
         NEW k \in Nat, NEW c \in Rounded(k, places, D), n < k
  PROVE  Leq(d, c)
  <1>1. CASE places <= D
    <2>1. d = Dec(n, places) /\ c = Dec(k, places)
      BY <1>1 DEF Rounded
    <2>2. n * Ten[places] <= k * Ten[places]
      BY TenType, TimesMore
    <2> QED
      BY <2>1, <2>2, DecFacts DEF Leq
  <1>2. CASE ~(places <= D)
    <2>1. /\ Ten[places - D] \in Nat \ {0}
          /\ d \in Decimals /\ d.places = D
          /\ d.coef \in Nearest(n, Ten[places - D])
          /\ c \in Decimals /\ c.places = D
          /\ c.coef \in Nearest(k, Ten[places - D])
      BY <1>2, RoundedCases
    <2>2. d.coef <= c.coef
      BY <2>1, NearestMonotone
    <2> QED
      BY <2>1, <2>2, TimesMore, DecimalFacts DEF Leq
  <1> QED
    BY <1>1, <1>2
-----------------------------------------------------------------------------
LEMMA FewDivide ==
  ASSUME NEW t \in Nat \ {0}, NEW z \in Nat, FewDigits(t * Ten[z])
  PROVE  FewDigits(t)
  <1>1. PICK m \in Nat, e \in Nat : m < Ten[5] /\ t * Ten[z] = m * Ten[e]
    BY DEF FewDigits
  <1>2. Ten[z] \in Nat \ {0} /\ Ten[e] \in Nat \ {0}
    BY TenType
  <1>3. CASE z <= e
    <2>1. e - z \in Nat /\ (e - z) + z = e
      BY <1>3
    <2>2. Ten[e] = Ten[e - z] * Ten[z] /\ Ten[e - z] \in Nat
      BY <2>1, TenSum, TenType
    <2>3. t * Ten[z] = (m * Ten[e - z]) * Ten[z] /\ m * Ten[e - z] \in Nat
      <3>1. \A a, b, c \in Nat : a * (b * c) = (a * b) * c
        OBVIOUS
      <3> QED
        BY <1>1, <1>2, <2>2, <3>1, Product
    <2>4. t = m * Ten[e - z]
      <3> DEFINE w == m * Ten[e - z]
      <3>1. w \in Nat /\ t * Ten[z] = w * Ten[z]
        BY <2>3
      <3> HIDE DEF w
      <3>2. t <= w /\ w <= t
        <4>1. t * Ten[z] \in Nat
          BY <1>2, Product
        <4> QED
          BY <1>2, <3>1, <4>1, TimesLess
      <3>3. t = w
        BY <3>1, <3>2
      <3> QED
        BY <3>3 DEF w
    <2> QED
      BY <1>1, <2>1, <2>4 DEF FewDigits
  <1>4. CASE e < z
    <2>1. z - e \in Nat /\ (z - e) + e = z
      BY <1>4
    <2>2. Ten[z] = Ten[z - e] * Ten[e] /\ Ten[z - e] \in Nat \ {0}
      BY <2>1, TenSum, TenType
    <2>3. (t * Ten[z - e]) * Ten[e] = m * Ten[e] /\ t * Ten[z - e] \in Nat
      <3>1. \A a, b, c \in Nat : a * (b * c) = (a * b) * c
        OBVIOUS
      <3> QED
        BY <1>1, <1>2, <2>2, <3>1, Product
    <2>4. t * Ten[z - e] <= m
      <3> DEFINE w == t * Ten[z - e]
      <3>1. w \in Nat /\ w * Ten[e] = m * Ten[e] /\ m * Ten[e] \in Nat
        BY <1>2, <2>3, Product
      <3> HIDE DEF w
      <3>2. w <= m
        BY <1>2, <3>1, TimesLess
      <3> QED
        BY <3>2 DEF w
    <2>5. t <= t * Ten[z - e]
      <3>1. \A a, b \in Nat \ {0} : a <= a * b
        OBVIOUS
      <3> QED
        BY <2>2, <3>1
    <2>6. t < Ten[5]
      BY <1>1, <2>3, <2>4, <2>5, TenLarge
    <2>7. 0 \in Nat /\ t = t * Ten[0]
      BY TenZero
    <2> QED
      BY <2>6, <2>7 DEF FewDigits
  <1> QED
    BY <1>3, <1>4

(* A power of ten that divides a number has fewer zeros than it has        *)
(* digits.                                                                 *)
LEMMA PowerFits ==
  ASSUME NEW n \in Nat \ {0}, NEW m \in Nat, NEW e \in Nat, n = m * Ten[e]
  PROVE  e \in 0..NumDigits[n]
  <1>1. Ten[e] \in Nat \ {0}
    BY TenType
  <1>2. m # 0
    BY <1>1
  <1>3. Ten[e] <= n
    <2>1. \A a, b \in Nat \ {0} : b <= a * b
      OBVIOUS
    <2> QED
      BY <1>1, <1>2, <2>1
  <1>4. NumDigits[n] \in Nat /\ n < Ten[NumDigits[n]]
    BY Digits
  <1>5. Ten[e] < Ten[NumDigits[n]]
    BY <1>1, <1>3, <1>4, TenType
  <1>6. e < NumDigits[n]
    BY <1>4, <1>5, TenStrict
  <1> QED
    BY <1>4, <1>6

LEMMA FewTradable ==
  ASSUME NEW d \in Decimals, d.coef > 0, NEW P \in Nat
  PROVE  TradablePrice(d, P)
           <=> FewDigits(d.coef) /\ OnGrid(d, MaxDecimals(P))
  <1> DEFINE n == d.coef
  <1>1. n \in Nat \ {0} /\ 0..NumDigits[n] \in SUBSET Nat
    BY DecimalFacts, Digits
  <1>2. TradablePrice(d, P)
          <=> /\ OnGrid(d, MaxDecimals(P))
              /\ \E e \in 0..NumDigits[n] :
                   n % Ten[e] = 0 /\ n \div Ten[e] < Ten[5]
    BY TenFirst DEF TradablePrice
  <1> HIDE DEF n
  <1>3. ASSUME FewDigits(n)
        PROVE  \E e \in 0..NumDigits[n] :
                 n % Ten[e] = 0 /\ n \div Ten[e] < Ten[5]
    <2>1. PICK m \in Nat, e \in Nat : m < Ten[5] /\ n = m * Ten[e]
      BY <1>3 DEF FewDigits
    <2>2. n % Ten[e] = 0 /\ n \div Ten[e] = m
      BY <2>1, MultipleOf, TenType
    <2>3. e \in 0..NumDigits[n]
      BY <1>1, <2>1, PowerFits
    <2> QED
      BY <2>1, <2>2, <2>3
  <1>4. ASSUME NEW e \in 0..NumDigits[n],
               n % Ten[e] = 0, n \div Ten[e] < Ten[5]
        PROVE  FewDigits(n)
    <2>1. e \in Nat
      BY <1>1
    <2>2. n \div Ten[e] \in Nat /\ n = (n \div Ten[e]) * Ten[e]
      BY <1>1, <1>4, <2>1, Multiple, TenType
    <2> QED
      BY <1>4, <2>1, <2>2 DEF FewDigits
  <1> QED
    BY <1>2, <1>3, <1>4 DEF n

LEMMA MaxDecimalsType == \A P \in Nat : MaxDecimals(P) \in Nat
  BY DEF MaxDecimals

LEMMA WholeGrid ==
  ASSUME NEW d \in Decimals, NEW D \in Nat, d.places <= D
  PROVE  OnGrid(d, D)
  <1>1. d.coef \in Nat /\ d.places \in Nat
    BY DecimalFacts
  <1>2. 0 \in 0..d.places /\ d.coef % 1 = 0 /\ d.places - 0 <= D
    BY <1>1
  <1> QED
    BY <1>2, TenZero DEF OnGrid

LEMMA TrimTradable ==
  ASSUME NEW d \in Decimals, d.coef > 0, FewDigits(d.coef), NEW P \in Nat,
         Trim(d).places <= MaxDecimals(P)
  PROVE  TradablePrice(Trim(d), P)
  <1> DEFINE t == Trim(d)
  <1>1. t \in Decimals
    BY TrimFacts
  <1>2. PICK z \in 0..d.places : d.coef = t.coef * Ten[z]
    BY TrimFacts
  <1>3. z \in Nat /\ d.coef \in Nat /\ t.coef \in Nat /\ Ten[z] \in Nat
    BY <1>1, <1>2, DecimalFacts, TenType
  <1> HIDE DEF t
  <1>4. t.coef # 0
    BY <1>2, <1>3
  <1>5. FewDigits(t.coef)
    BY <1>2, <1>3, <1>4, FewDivide
  <1>6. OnGrid(t, MaxDecimals(P))
    BY <1>1, WholeGrid, MaxDecimalsType DEF t
  <1>7. TradablePrice(t, P)
    BY <1>1, <1>3, <1>4, <1>5, <1>6, FewTradable
  <1> QED
    BY <1>7 DEF t

(* What validateHyperliquidPrice lets pass.                                *)
LEMMA FitsTradable ==
  ASSUME NEW d \in Decimals, d.coef > 0, NEW P \in Nat, PriceFits(d, P)
  PROVE  /\ FewDigits(d.coef) /\ Trim(d).places <= MaxDecimals(P)
         /\ TradablePrice(d, P) /\ AtLeastATick(d, P)
  <1> DEFINE n == d.coef
             k == NumDigits[n]
             z == ZerosAtEnd(n, k)
             D == MaxDecimals(P)
  <1>1. n \in Nat \ {0} /\ d.places \in Nat /\ D \in Nat
    BY DecimalFacts, MaxDecimalsType
  <1>2. Trim(d).places <= D /\ k - z <= 5
    BY DEF PriceFits
  <1>3. k \in Nat /\ n < Ten[k]
    BY <1>1, Digits
  <1>4. z \in 0..k /\ n % Ten[z] = 0
    BY <1>1, <1>3, Zeros
  <1>5. FewDigits(n)
    <2> HIDE DEF n, k, z
    <2>1. z \in Nat /\ z + 5 \in Nat /\ k <= z + 5 /\ 5 \in Nat
      BY <1>2, <1>3, <1>4
    <2>2. Ten[k] <= Ten[z + 5] /\ Ten[z + 5] = Ten[z] * Ten[5]
          /\ Ten[z] \in Nat \ {0} /\ Ten[k] \in Nat /\ Ten[z + 5] \in Nat
      BY <1>3, <2>1, TenMonotone, TenSum, TenType
    <2>3. PICK m \in Nat : n = m * Ten[z]
      <3> DEFINE u == Ten[z]
      <3>1. u \in Nat \ {0} /\ n % u = 0 /\ n \in Nat
        BY <1>1, <1>4, <2>2
      <3> HIDE DEF u
      <3>2. n \div u \in Nat /\ n = (n \div u) * u
        BY <3>1, Multiple
      <3> QED
        BY <3>2 DEF u
    <2>4. m < Ten[5]
      <3>1. m * Ten[z] < Ten[5] * Ten[z]
        BY <1>1, <1>3, <2>2, <2>3, TenLarge
      <3>2. Ten[5] * Ten[z] <= m * Ten[z] \/ m < Ten[5]
        BY <2>2, TimesMore, TenLarge
      <3>3. m * Ten[z] \in Nat /\ Ten[5] * Ten[z] \in Nat
        BY <2>2, Product, TenLarge
      <3> QED
        BY <3>1, <3>2, <3>3
    <2> QED
      BY <2>1, <2>3, <2>4 DEF FewDigits
  <1>6. PICK x \in 0..d.places :
          Trim(d).places = d.places - x /\ n = Trim(d).coef * Ten[x]
    BY TrimFacts
  <1>7. Trim(d).coef \in Nat /\ x \in Nat /\ Ten[x] \in Nat \ {0}
    BY <1>1, <1>6, TrimFacts, DecimalFacts, TenType
  <1> HIDE DEF n, k, z, D
  <1>8. OnGrid(d, D)
    <2>1. d.coef % Ten[x] = 0 /\ d.places - x <= D
      BY <1>2, <1>6, <1>7, MultipleOf DEF n
    <2> QED
      BY <2>1 DEF OnGrid
  <1>9. AtLeastATick(d, P)
    <2> SUFFICES ASSUME d.places > D PROVE Ten[d.places - D] <= n
      BY DEF AtLeastATick, n, D
    <2>1. d.places - D \in Nat /\ d.places - D <= x
      BY <1>1, <1>2, <1>6, <1>7
    <2>2. Ten[d.places - D] <= Ten[x] /\ Ten[d.places - D] \in Nat
      BY <1>7, <2>1, TenMonotone, TenType
    <2>3. Trim(d).coef # 0
      BY <1>1, <1>6, <1>7
    <2>4. Ten[x] <= n
      <3>1. \A a, b \in Nat \ {0} : b <= a * b
        OBVIOUS
      <3> QED
        BY <1>6, <1>7, <2>3, <3>1
    <2> QED
      BY <1>1, <1>7, <2>2, <2>4
  <1>10. TradablePrice(d, P)
    BY <1>5, <1>8, FewTradable DEF n, D
  <1> QED
    BY <1>2, <1>5, <1>9, <1>10 DEF n, D

LEMMA RoundedFew ==
  ASSUME NEW n \in Nat, FewDigits(n), NEW places \in Nat, NEW D \in Nat,
         NEW d \in Rounded(n, places, D)
  PROVE  FewDigits(d.coef)
  <1>1. CASE places <= D
    BY <1>1, RoundedCases, DecFacts
  <1>2. CASE ~(places <= D)
    <2> DEFINE x == places - D
               q == d.coef
    <2>1. x \in Nat /\ Ten[x] \in Nat \ {0} /\ q \in Nearest(n, Ten[x])
      BY <1>2, RoundedCases
    <2>2. PICK m \in Nat, e \in Nat : m < Ten[5] /\ n = m * Ten[e]
      BY DEF FewDigits
    <2> HIDE DEF x, q
    <2>3. q \in Nat
      BY <2>1, NearestBounds
    <2>4. CASE x <= e
      <3> DEFINE j == m * Ten[e - x]
      <3>1. e - x \in Nat /\ (e - x) + x = e
        BY <2>1, <2>4
      <3>2. Ten[e] = Ten[e - x] * Ten[x] /\ Ten[e - x] \in Nat
        BY <2>1, <3>1, TenSum, TenType
      <3>3. n = j * Ten[x] /\ j \in Nat
        <4>1. \A a, b, c \in Nat : a * (b * c) = (a * b) * c
          OBVIOUS
        <4> QED
          BY <2>1, <2>2, <3>2, <4>1, Product
      <3> HIDE DEF j
      <3>4. j <= q /\ q <= j
        BY <2>1, <3>3, NearestAbove, NearestBelow
      <3>5. q = m * Ten[e - x]
        BY <2>3, <3>3, <3>4 DEF j
      <3> QED
        BY <2>2, <3>1, <3>5 DEF FewDigits, q
    <2>5. CASE e < x
      <3>1. e + 1 <= x /\ e + 1 \in Nat
        BY <2>1, <2>5
      <3>2. /\ Ten[e + 1] <= Ten[x] /\ Ten[e + 1] = 10 * Ten[e]
            /\ Ten[e] \in Nat \ {0} /\ Ten[e + 1] \in Nat
        BY <2>1, <3>1, TenMonotone, TenNext, TenType
      <3>3. m * Ten[e] <= Ten[5] * Ten[e]
        BY <2>2, <3>2, TimesMore, TenLarge
      <3>4. Ten[5] * Ten[e] = Ten[4] * Ten[e + 1]
        BY <3>2, TenLarge
      <3>5. Ten[4] * Ten[e + 1] <= Ten[4] * Ten[x]
        <4>1. Ten[e + 1] * Ten[4] <= Ten[x] * Ten[4]
          BY <2>1, <3>2, TimesMore, TenLarge
        <4> QED
          BY <2>1, <3>2, <4>1, TenLarge
      <3>6. n <= Ten[4] * Ten[x]
        <4>1. n \in Nat /\ m * Ten[e] \in Nat /\ Ten[5] * Ten[e] \in Nat
              /\ Ten[4] * Ten[x] \in Nat
          BY <2>1, <3>2, Product, TenLarge
        <4> QED
          BY <2>2, <3>3, <3>4, <3>5, <4>1
      <3>7. q <= Ten[4]
        BY <2>1, <3>6, NearestBelow, TenLarge
      <3>8. q < Ten[5] /\ 0 \in Nat /\ q = q * Ten[0]
        BY <2>3, <3>7, TenLarge, TenZero
      <3> QED
        BY <2>3, <3>8 DEF FewDigits, q
    <2> QED
      BY <2>1, <2>4, <2>5
  <1> QED
    BY <1>1, <1>2
-----------------------------------------------------------------------------
(* Both roundings keep the order: what is rounded to something greater has *)
(* a greater result, if a tie is broken the same way.                      *)
LEMMA LeqReflexive ==
  ASSUME NEW d \in Decimals
  PROVE  Leq(d, d)
  <1>1. d.coef * Ten[d.places] \in Nat
    BY DecimalFacts, Product
  <1> QED
    BY <1>1 DEF Leq

LEMMA RoundingsAbove ==
  ASSUME NEW N \in Nat, NEW K \in Nat, N <= K,
         NEW places \in Nat, NEW D \in Nat,
         NEW n \in FiveDigits(N), NEW d \in Rounded(n, places, D)
  PROVE  \E k \in FiveDigits(K) : \E c \in Rounded(k, places, D) : Leq(d, c)
  <1>1. n \in Nat
    BY FiveDigitsOf
  <1>2. d \in Decimals /\ Leq(d, d)
    BY <1>1, RoundedCases, LeqReflexive
  <1>3. CASE N = K
    BY <1>2, <1>3
  <1>4. CASE N < K
    <2>1. PICK k \in FiveDigits(K) : TRUE
      BY FiveDigitsSome
    <2>2. k \in Nat /\ n <= k
      BY <1>4, <2>1, FiveDigitsOf, FiveDigitsMonotone
    <2>3. CASE n = k
      BY <1>2, <2>1, <2>3
    <2>4. CASE n < k
      <3>1. PICK c \in Rounded(k, places, D) : TRUE
        BY <2>2, RoundedSome
      <3>2. Leq(d, c)
        BY <1>1, <2>2, <2>4, <3>1, RoundedMonotone
      <3> QED
        BY <2>1, <3>1, <3>2
    <2> QED
      BY <1>1, <2>2, <2>3, <2>4
  <1> QED
    BY <1>3, <1>4

LEMMA RoundingsBelow ==
  ASSUME NEW N \in Nat, NEW K \in Nat, N <= K,
         NEW places \in Nat, NEW D \in Nat,
         NEW k \in FiveDigits(K), NEW c \in Rounded(k, places, D)
  PROVE  \E n \in FiveDigits(N) : \E d \in Rounded(n, places, D) : Leq(d, c)
  <1>1. k \in Nat
    BY FiveDigitsOf
  <1>2. c \in Decimals /\ Leq(c, c)
    BY <1>1, RoundedCases, LeqReflexive
  <1>3. CASE N = K
    BY <1>2, <1>3
  <1>4. CASE N < K
    <2>1. PICK n \in FiveDigits(N) : TRUE
      BY FiveDigitsSome
    <2>2. n \in Nat /\ n <= k
      BY <1>4, <2>1, FiveDigitsOf, FiveDigitsMonotone
    <2>3. CASE n = k
      BY <1>2, <2>1, <2>3
    <2>4. CASE n < k
      <3>1. PICK d \in Rounded(n, places, D) : TRUE
        BY <2>2, RoundedSome
      <3>2. Leq(d, c)
        BY <1>1, <2>2, <2>4, <3>1, RoundedMonotone
      <3> QED
        BY <2>1, <3>1, <3>2
    <2> QED
      BY <1>1, <2>2, <2>3, <2>4
  <1> QED
    BY <1>3, <1>4
-----------------------------------------------------------------------------
SlippageFits(s) == s \in Int /\ 0 < s /\ s <= MaxSlippage

LEMMA FactorFacts ==
  ASSUME NEW b \in BOOLEAN, NEW s, SlippageFits(s)
  PROVE  /\ Factor(b, s) \in Nat /\ Factor(b, MaxSlippage) \in Nat
         /\ 9 * Ten[3] <= Factor(b, s)
         /\ b => /\ Ten[4] <= Factor(b, s)
                 /\ Factor(b, s) <= Factor(b, MaxSlippage)
         /\ ~b => /\ Factor(b, s) <= Ten[4]
                  /\ Factor(b, MaxSlippage) <= Factor(b, s)
  <1> USE TenFirst DEF SlippageFits, MaxSlippage, Factor
  <1>1. CASE b
    BY <1>1, SMT
  <1>2. CASE ~b
    BY <1>2, SMT
  <1> QED
    BY <1>1, <1>2, SMT

LEMMA AggressiveIs ==
  ASSUME NEW r, r.coef # 0, NEW b, NEW s, NEW P
  PROVE  AggressivePrices(r, b, s, P) =
           {Trim(d) : d \in
              UNION {Rounded(n, r.places + 4, MaxDecimals(P)) :
                       n \in FiveDigits(r.coef * Factor(b, s))}}
  <1> DEFINE A == FiveDigits(r.coef * Factor(b, s))
             T(n) == ToDecimals(n, r.places + 4, MaxDecimals(P))
             R(n) == Rounded(n, r.places + 4, MaxDecimals(P))
  <1>1. AggressivePrices(r, b, s, P) = UNION {T(n) : n \in A}
    BY DEF AggressivePrices
  <1>2. \A n : T(n) = {Trim(d) : d \in R(n)}
    BY RoundedTrimmed
  <1> HIDE DEF A, T, R
  <1>3. UNION {T(n) : n \in A} = {Trim(d) : d \in UNION {R(n) : n \in A}}
    BY <1>2
  <1> QED
    BY <1>1, <1>3 DEF A, T, R

LEMMA AggressiveHas ==
  ASSUME NEW r, r.coef # 0, NEW b, NEW s, NEW P,
         NEW n \in FiveDigits(r.coef * Factor(b, s)),
         NEW d \in Rounded(n, r.places + 4, MaxDecimals(P))
  PROVE  Trim(d) \in AggressivePrices(r, b, s, P)
  <1> DEFINE A == FiveDigits(r.coef * Factor(b, s))
             R(m) == Rounded(m, r.places + 4, MaxDecimals(P))
  <1>1. AggressivePrices(r, b, s, P) =
          {Trim(e) : e \in UNION {R(m) : m \in A}}
    BY AggressiveIs, ZenonT(60)
  <1>2. n \in A /\ d \in R(n)
    OBVIOUS
  <1> HIDE DEF A, R
  <1>3. d \in UNION {R(m) : m \in A}
    BY <1>2
  <1> QED
    BY <1>1, <1>3

(* An aggressive price is a rounding of a multiple of the reference.       *)
LEMMA AggressiveFrom ==
  ASSUME NEW r \in Decimals, NEW b \in BOOLEAN, NEW s, SlippageFits(s),
         NEW P \in Nat, NEW p \in AggressivePrices(r, b, s, P)
  PROVE  /\ r.coef \in Nat \ {0} /\ r.places \in Nat /\ r.places + 4 \in Nat
         /\ MaxDecimals(P) \in Nat
         /\ r.coef * Factor(b, s) \in Nat
         /\ \E n \in FiveDigits(r.coef * Factor(b, s)) :
              /\ n \in Nat /\ FewDigits(n)
              /\ \E d \in Rounded(n, r.places + 4, MaxDecimals(P)) :
                   d \in Decimals /\ p = Trim(d)
  <1>1. r.coef \in Nat /\ r.places \in Nat /\ r.places + 4 \in Nat
        /\ MaxDecimals(P) \in Nat
    BY DecimalFacts, MaxDecimalsType
  <1>2. r.coef # 0
    BY DEF AggressivePrices
  <1>3. r.coef * Factor(b, s) \in Nat
    BY <1>1, FactorFacts, Product
  <1>4. PICK n \in FiveDigits(r.coef * Factor(b, s)) :
          \E d \in Rounded(n, r.places + 4, MaxDecimals(P)) : p = Trim(d)
    BY <1>2, AggressiveIs
  <1>5. n \in Nat /\ FewDigits(n)
    BY <1>3, FiveDigitsOf, FiveDigitsFew
  <1>6. \A d \in Rounded(n, r.places + 4, MaxDecimals(P)) : d \in Decimals
    BY <1>1, <1>5, RoundedCases
  <1> QED
    BY <1>1, <1>2, <1>3, <1>4, <1>5, <1>6

(* The reference with four more decimals.                                  *)
LEMMA ReferenceScaled ==
  ASSUME NEW r \in Decimals, NEW n \in Nat
  PROVE  /\ r.coef * Ten[4] <= n <=> Leq(r, Dec(n, r.places + 4))
         /\ n <= r.coef * Ten[4] <=> Leq(Dec(n, r.places + 4), r)
  <1>1. r.coef \in Nat /\ r.places \in Nat /\ Ten[r.places] \in Nat \ {0}
        /\ Ten[4] \in Nat /\ r.places + 4 \in Nat
    BY DecimalFacts, TenLarge
  <1>2. Ten[r.places + 4] = Ten[4] * Ten[r.places]
    <2>1. 4 + r.places = r.places + 4
      BY <1>1
    <2> QED
      BY <1>1, <2>1, TenSum
  <1>3. /\ Leq(r, Dec(n, r.places + 4))
             <=> r.coef * (Ten[4] * Ten[r.places]) <= n * Ten[r.places]
        /\ Leq(Dec(n, r.places + 4), r)
             <=> n * Ten[r.places] <= r.coef * (Ten[4] * Ten[r.places])
    BY <1>1, <1>2, DecFacts DEF Leq
  <1>4. r.coef * (Ten[4] * Ten[r.places]) = (r.coef * Ten[4]) * Ten[r.places]
        /\ r.coef * Ten[4] \in Nat
    BY <1>1
  <1>5. r.coef * Ten[4] <= n
          <=> r.coef * (Ten[4] * Ten[r.places]) <= n * Ten[r.places]
    BY <1>1, Cancel
  <1>6. n <= r.coef * Ten[4]
          <=> n * Ten[r.places] <= (r.coef * Ten[4]) * Ten[r.places]
    BY <1>1, <1>4, TimesMore, TimesLess
  <1> QED
    BY <1>3, <1>4, <1>5, <1>6

(* A reference the exchange trades at has few digits with four more too.   *)
LEMMA ReferenceFew ==
  ASSUME NEW c \in Nat, FewDigits(c)
  PROVE  FewDigits(c * Ten[4])
  <1>1. PICK m \in Nat, e \in Nat : m < Ten[5] /\ c = m * Ten[e]
    BY DEF FewDigits
  <1>2. e + 4 \in Nat /\ Ten[e + 4] = Ten[e] * Ten[4] /\ Ten[e] \in Nat
    BY TenSum, TenType
  <1>3. c * Ten[4] = m * Ten[e + 4]
    <2>1. \A a, b, x \in Nat : (a * b) * x = a * (b * x)
      OBVIOUS
    <2> QED
      BY <1>1, <1>2, <2>1, TenLarge
  <1> QED
    BY <1>1, <1>2, <1>3 DEF FewDigits
-----------------------------------------------------------------------------
(* A price that is computed from a reference no smaller than the smallest  *)
(* price is not rounded to nothing.                                        *)
LEMMA RoundedPositive ==
  ASSUME NEW r \in Decimals, r.coef > 0, NEW f \in Nat, 9 * Ten[3] <= f,
         NEW D \in Nat,
         r.places > D => Ten[r.places - D] <= r.coef,
         NEW n \in FiveDigits(r.coef * f),
         NEW d \in Rounded(n, r.places + 4, D)
  PROVE  d.coef > 0
  <1> DEFINE a == IF r.places > D THEN r.places - D ELSE 0
             N == r.coef * f
             L == 9 * Ten[a + 3]
  <1>1. r.coef \in Nat \ {0} /\ r.places \in Nat /\ r.places + 4 \in Nat
    BY DecimalFacts
  <1>2. a \in Nat /\ r.places + 4 - D <= a + 4
    BY <1>1
  <1>3. N \in Nat
    BY <1>1, Product
  <1>4. Ten[a] \in Nat \ {0} /\ Ten[a] <= r.coef
    <2>1. Ten[a] \in Nat \ {0}
      BY <1>2, TenType
    <2>2. CASE r.places > D
      BY <2>1, <2>2
    <2>3. CASE ~(r.places > D)
      BY <1>1, <2>3, TenZero
    <2> QED
      BY <2>1, <2>2, <2>3
  <1> HIDE DEF a, N
  <1>5. Ten[a + 3] = Ten[a] * Ten[3] /\ Ten[3] \in Nat \ {0}
        /\ a + 3 \in Nat /\ Ten[a + 3] \in Nat \ {0}
    <2>1. 3 \in Nat /\ a + 3 \in Nat
      BY <1>2
    <2> QED
      BY <1>2, <2>1, TenSum, TenType
  <1>6. L <= N
    <2>1. 9 * (Ten[a] * Ten[3]) = Ten[a] * (9 * Ten[3])
      BY <1>4, <1>5
    <2>2. Ten[a] * (9 * Ten[3]) <= r.coef * (9 * Ten[3])
      BY <1>1, <1>4, <1>5, TimesMore
    <2>3. (9 * Ten[3]) * r.coef <= f * r.coef
      BY <1>1, <1>5, TimesMore
    <2>4. /\ (9 * Ten[3]) * r.coef = r.coef * (9 * Ten[3])
          /\ f * r.coef = r.coef * f
      BY <1>1, <1>5
    <2>5. Ten[a] * (9 * Ten[3]) \in Nat /\ r.coef * (9 * Ten[3]) \in Nat
      BY <1>1, <1>4, <1>5
    <2> QED
      BY <1>3, <1>5, <2>1, <2>2, <2>3, <2>4, <2>5 DEF N
  <1>7. L \in Nat /\ FewDigits(L)
    <2>1. 9 < Ten[5] /\ 9 \in Nat
      BY TenFirst, SMT
    <2> QED
      BY <1>5, <2>1 DEF FewDigits
  <1> HIDE DEF L
  <1>8. n \in Nat /\ L <= n
    BY <1>3, <1>6, <1>7, FiveDigitsOf, FiveDigitsPass DEF N
  <1>9. CASE r.places + 4 <= D
    <2>1. d = Dec(n, r.places + 4)
      BY <1>1, <1>8, <1>9, RoundedCases
    <2>2. d.coef = n
      BY <1>1, <1>8, <2>1, DecFacts
    <2>3. L > 0
      BY <1>5 DEF L
    <2> QED
      BY <1>7, <1>8, <2>2, <2>3
  <1>10. CASE ~(r.places + 4 <= D)
    <2> DEFINE x == r.places + 4 - D
    <2>1. x \in Nat /\ Ten[x] \in Nat \ {0} /\ d.coef \in Nearest(n, Ten[x])
      <3> DEFINE places == r.places + 4
      <3>1. places \in Nat /\ n \in Nat /\ ~(places <= D)
            /\ d \in Rounded(n, places, D) /\ x = places - D
        BY <1>1, <1>8, <1>10
      <3> HIDE DEF places, x
      <3> QED
        BY <3>1, RoundedCases
    <2>2. Ten[x] <= Ten[a + 4] /\ Ten[a + 4] = 10 * Ten[a + 3]
      <3>1. a + 4 \in Nat /\ (a + 3) + 1 = a + 4
        BY <1>2
      <3> HIDE DEF x
      <3>2. x <= a + 4
        BY <1>2 DEF x
      <3> QED
        BY <1>5, <2>1, <3>1, <3>2, TenMonotone, TenNext
    <2> HIDE DEF x
    <2>3. Ten[x] < 2 * n
      BY <1>5, <1>8, <2>1, <2>2 DEF L
    <2> QED
      BY <1>8, <2>1, <2>3, NearestPositive
  <1> QED
    BY <1>9, <1>10

(* The price of aggressivePrice has five significant digits and the        *)
(* decimals of the market, and is not zero, though both roundings may      *)
(* change the number of its digits (client_trading.go:440-473).            *)
THEOREM AggressiveTradable ==
  ASSUME NEW r \in Decimals, NEW b \in BOOLEAN, NEW s, SlippageFits(s),
         NEW P \in Nat, AtLeastATick(r, P),
         NEW p \in AggressivePrices(r, b, s, P)
  PROVE  p \in Decimals /\ TradablePrice(p, P)
  <1> DEFINE D == MaxDecimals(P)
             N == r.coef * Factor(b, s)
  <1>1. /\ r.coef \in Nat \ {0} /\ r.places \in Nat /\ r.places + 4 \in Nat
        /\ D \in Nat /\ N \in Nat
    BY AggressiveFrom
  <1>2. PICK n \in FiveDigits(N) :
          /\ n \in Nat /\ FewDigits(n)
          /\ \E d \in Rounded(n, r.places + 4, D) :
               d \in Decimals /\ p = Trim(d)
    BY AggressiveFrom
  <1>3. PICK d \in Rounded(n, r.places + 4, D) : d \in Decimals /\ p = Trim(d)
    BY <1>2
  <1>4. r.places > D => Ten[r.places - D] <= r.coef
    BY DEF AtLeastATick
  <1>5. d.coef > 0
    <2>1. Factor(b, s) \in Nat /\ 9 * Ten[3] <= Factor(b, s)
      BY FactorFacts
    <2>2. r.coef > 0
      BY <1>1
    <2> HIDE DEF D
    <2> QED
      BY <1>1, <1>3, <1>4, <2>1, <2>2, RoundedPositive
  <1> HIDE DEF D, N
  <1>6. FewDigits(d.coef) /\ d.places <= D
    BY <1>1, <1>2, RoundedFew, RoundedCases
  <1>7. Trim(d) \in Decimals /\ Trim(d).places <= D
    <2>1. Trim(d) \in Decimals
      BY <1>3, TrimFacts
    <2>2. PICK z \in 0..d.places : Trim(d).places = d.places - z
      BY <1>3, TrimFacts
    <2> QED
      BY <1>1, <1>3, <1>6, <2>1, <2>2, DecimalFacts
  <1> QED
    BY <1>3, <1>5, <1>6, <1>7, TrimTradable DEF D

(* From a price the exchange trades at, the price to buy at is that price  *)
(* or above, the price to sell at that price or below                      *)
(* (client_trading.go:450-473).                                            *)
THEOREM AggressiveCrosses ==
  ASSUME NEW r \in Decimals, NEW b \in BOOLEAN, NEW s, SlippageFits(s),
         NEW P \in Nat, TradablePrice(r, P),
         NEW p \in AggressivePrices(r, b, s, P)
  PROVE  IF b THEN Leq(r, p) ELSE Leq(p, r)
  <1> DEFINE D == MaxDecimals(P)
             f == Factor(b, s)
             N == r.coef * f
             M == r.coef * Ten[4]
  <1>1. /\ r.coef \in Nat \ {0} /\ r.places \in Nat /\ r.places + 4 \in Nat
        /\ D \in Nat /\ N \in Nat
    BY AggressiveFrom
  <1>2. PICK n \in FiveDigits(N) :
          /\ n \in Nat
          /\ \E d \in Rounded(n, r.places + 4, D) :
               d \in Decimals /\ p = Trim(d)
    BY AggressiveFrom
  <1>3. PICK d \in Rounded(n, r.places + 4, D) : d \in Decimals /\ p = Trim(d)
    BY <1>2
  <1>4. /\ f \in Nat
        /\ b => Ten[4] <= f
        /\ ~b => f <= Ten[4]
    BY FactorFacts
  <1>5. FewDigits(r.coef) /\ OnGrid(r, D)
    <2>1. r.coef > 0
      BY <1>1
    <2> QED
      BY <2>1, FewTradable
  <1>6. M \in Nat /\ FewDigits(M)
    BY <1>1, <1>5, ReferenceFew, TenLarge, Product
  <1>7. Leq(d, p) /\ Leq(p, d) /\ p \in Decimals
    BY <1>3, TrimLeq, TrimFacts
  <1> HIDE DEF D, f
  <1>8. CASE b
    <2>1. Ten[4] * r.coef <= f * r.coef
      BY <1>1, <1>4, <1>8, TimesMore, TenLarge
    <2>2. M <= N
      BY <1>1, <1>4, <2>1, TenLarge
    <2> HIDE DEF M, N
    <2>3. M <= n
      BY <1>1, <1>2, <1>6, <2>2, FiveDigitsPass
    <2>4. Leq(r, Dec(n, r.places + 4))
      BY <1>2, <2>3, ReferenceScaled DEF M
    <2>5. Leq(r, d)
      BY <1>1, <1>2, <1>5, <2>4, RoundedPass
    <2>6. Leq(r, p)
      BY <1>3, <1>7, <2>5, LeqTransitive
    <2> QED
      BY <1>8, <2>6
  <1>9. CASE ~b
    <2>1. f * r.coef <= Ten[4] * r.coef
      BY <1>1, <1>4, <1>9, TimesMore, TenLarge
    <2>2. N <= M
      BY <1>1, <1>4, <2>1, TenLarge
    <2> HIDE DEF M, N
    <2>3. n <= M
      BY <1>1, <1>2, <1>6, <2>2, FiveDigitsPass
    <2>4. Leq(Dec(n, r.places + 4), r)
      BY <1>2, <2>3, ReferenceScaled DEF M
    <2>5. Leq(d, r)
      BY <1>1, <1>2, <1>5, <2>4, RoundedPass
    <2>6. Leq(p, r)
      BY <1>3, <1>7, <2>5, LeqTransitive
    <2> QED
      BY <1>9, <2>6
  <1> QED
    BY <1>8, <1>9

(* No slippage gives away more than the largest one does                   *)
(* (client_trading.go:444-473).                                            *)
THEOREM AggressiveLimited ==
  ASSUME NEW r \in Decimals, NEW b \in BOOLEAN, NEW s, SlippageFits(s),
         NEW P \in Nat, NEW p \in AggressivePrices(r, b, s, P)
  PROVE  \E w \in AggressivePrices(r, b, MaxSlippage, P) :
           w \in Decimals /\ IF b THEN Leq(p, w) ELSE Leq(w, p)
  <1> DEFINE D == MaxDecimals(P)
             f == Factor(b, s)
             g == Factor(b, MaxSlippage)
             N == r.coef * f
             K == r.coef * g
             places == r.places + 4
  <1>1. /\ r.coef \in Nat \ {0} /\ places \in Nat
        /\ D \in Nat /\ N \in Nat
    BY AggressiveFrom
  <1>2. PICK n \in FiveDigits(N) :
          /\ n \in Nat
          /\ \E d \in Rounded(n, places, D) : d \in Decimals /\ p = Trim(d)
    BY AggressiveFrom
  <1>3. PICK d \in Rounded(n, places, D) : d \in Decimals /\ p = Trim(d)
    BY <1>2
  <1>4. f \in Nat /\ g \in Nat /\ (b => f <= g) /\ (~b => g <= f)
    BY FactorFacts
  <1>5. K \in Nat
    BY <1>1, <1>4, Product
  <1>6. Leq(d, p) /\ Leq(p, d) /\ p \in Decimals
    BY <1>3, TrimLeq, TrimFacts
  <1>7. ASSUME NEW k \in FiveDigits(K), NEW c \in Rounded(k, places, D)
        PROVE  /\ Trim(c) \in AggressivePrices(r, b, MaxSlippage, P)
               /\ c \in Decimals /\ Trim(c) \in Decimals
               /\ Leq(c, Trim(c)) /\ Leq(Trim(c), c)
    <2>1. k \in Nat
      BY <1>5, FiveDigitsOf
    <2>2. c \in Decimals
      BY <1>1, <2>1, RoundedCases
    <2>3. Trim(c) \in AggressivePrices(r, b, MaxSlippage, P)
      <3>1. r.coef # 0
        BY <1>1
      <3> QED
        BY <3>1, AggressiveHas
    <2> QED
      BY <2>2, <2>3, TrimLeq, TrimFacts
  <1> HIDE DEF D, f, g, places
  <1>8. CASE b
    <2>1. f * r.coef <= g * r.coef
      BY <1>1, <1>4, <1>8, TimesMore
    <2>2. N <= K
      BY <1>1, <1>4, <2>1
    <2> HIDE DEF N, K
    <2>3. PICK k \in FiveDigits(K) :
            \E c \in Rounded(k, places, D) : Leq(d, c)
      BY <1>1, <1>5, <2>2, RoundingsAbove
    <2>4. PICK c \in Rounded(k, places, D) : Leq(d, c)
      BY <2>3
    <2>5. Leq(p, Trim(c))
      BY <1>3, <1>6, <1>7, <2>4, LeqTransitive
    <2> QED
      BY <1>7, <1>8, <2>5
  <1>9. CASE ~b
    <2>1. g * r.coef <= f * r.coef
      BY <1>1, <1>4, <1>9, TimesMore
    <2>2. K <= N
      BY <1>1, <1>4, <2>1
    <2> HIDE DEF N, K
    <2>3. PICK k \in FiveDigits(K) :
            \E c \in Rounded(k, places, D) : Leq(c, d)
      BY <1>1, <1>5, <2>2, RoundingsBelow
    <2>4. PICK c \in Rounded(k, places, D) : Leq(c, d)
      BY <2>3
    <2>5. Leq(Trim(c), p)
      BY <1>3, <1>6, <1>7, <2>4, LeqTransitive
    <2> QED
      BY <1>7, <1>9, <2>5
  <1> QED
    BY <1>8, <1>9
=============================================================================
