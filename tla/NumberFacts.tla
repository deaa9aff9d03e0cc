----------------------------- MODULE NumberFacts -----------------------------
(***************************************************************************)
(* Facts about numbers that the proofs of several modules use: the         *)
(* smallest and the largest number of a set (the smallest counterexample   *)
(* takes the place of an induction), and division.                         *)
(***************************************************************************)
EXTENDS Integers, WellFoundedInduction, TLAPS

LEMMA Smallest ==
  ASSUME NEW T \in SUBSET Nat, T # {}
  PROVE  \E x \in T : \A y \in T : x <= y
  <1> DEFINE R == OpToRel(<, Nat)
  <1>1. PICK x \in T : \A y \in T : ~(<<y, x>> \in R)
    BY NatLessThanWellFounded, WFMin
  <1>2. \A y \in Nat : y < x => <<y, x>> \in R
    BY DEF OpToRel
  <1>3. \A y \in T : ~(y < x)
    BY ONLY <1>1, <1>2, T \in SUBSET Nat, Zenon
  <1> HIDE DEF R
  <1> QED
    BY <1>3

LEMMA Largest ==
  ASSUME NEW n \in Nat, NEW S \in SUBSET (0..n), S # {}
  PROVE  \E i \in S : \A j \in S : j <= i
  <1> DEFINE T == {n - i : i \in S}
  <1>1. T \in SUBSET Nat
    <2>1. \A i \in S : n - i \in Nat
      OBVIOUS
    <2> QED
      BY <2>1
  <1>2. T # {}
    OBVIOUS
  <1> HIDE DEF T
  <1>3. PICK x \in T : \A y \in T : x <= y
    BY <1>1, <1>2, Smallest
  <1>4. PICK i \in S : x = n - i
    BY <1>3 DEF T
  <1>5. \A j \in S : n - i <= n - j
    BY <1>3, <1>4 DEF T
  <1> QED
    BY <1>4, <1>5
-----------------------------------------------------------------------------
LEMMA Product == \A a, b \in Nat : a * b \in Nat
  OBVIOUS

LEMMA TimesMore ==
  ASSUME NEW a \in Int, NEW b \in Int, NEW c \in Nat, a <= b
  PROVE  a * c <= b * c
  OBVIOUS

LEMMA TimesLess ==
  ASSUME NEW a \in Int, NEW b \in Int, NEW c \in Nat, c > 0, a * c <= b * c
  PROVE  a <= b
  <1> SUFFICES ASSUME b + 1 <= a PROVE FALSE
    OBVIOUS
  <1>1. (b + 1) * c <= a * c
    BY TimesMore
  <1>2. (b + 1) * c = b * c + c
    OBVIOUS
  <1>3. a * c \in Int /\ b * c \in Int
    OBVIOUS
  <1> HIDE DEF TimesMore
  <1> QED
    BY <1>1, <1>2, <1>3

LEMMA Division ==
  ASSUME NEW n \in Nat, NEW u \in Nat \ {0}
  PROVE  /\ n \div u \in Nat /\ n % u \in 0..(u - 1)
         /\ n = (n \div u) * u + (n % u)
  OBVIOUS
-----------------------------------------------------------------------------
(* There is a function on the numbers that is defined by recursion.        *)
Falls(prev) == prev \in [Nat -> Nat] /\ \A n \in Nat \ {0} : prev[n] < n
Recurs(f, base, prev, step) ==
  /\ f \in [Nat -> Nat] /\ f[0] = base
  /\ \A n \in Nat \ {0} : f[n] = step[f[prev[n]]]

LEMMA Recursion ==
  ASSUME NEW prev, Falls(prev), NEW step \in [Nat -> Nat], NEW base \in Nat
  PROVE  \E f : Recurs(f, base, prev, step)
  <1> USE DEF Falls
  <1> DEFINE Upto(g, m) == /\ g \in [0..m -> Nat] /\ g[0] = base
                           /\ \A i \in 1..m : g[i] = step[g[prev[i]]]
  <1>1. ASSUME NEW m \in Nat, NEW g, Upto(g, m), NEW k \in Nat, NEW h,
               Upto(h, k), NEW n \in Nat, n <= m, n <= k
        PROVE  g[n] = h[n]
    <2> DEFINE T == {i \in Nat : i <= m /\ i <= k /\ g[i] # h[i]}
    <2> SUFFICES ASSUME g[n] # h[n] PROVE FALSE
      OBVIOUS
    <2>0. T \in SUBSET Nat /\ T # {}
      BY <1>1
    <2>1. PICK i \in T : \A j \in T : i <= j
      BY <2>0, Smallest
    <2>2. i # 0
      BY <1>1, <2>1
    <2>3. prev[i] \in Nat /\ prev[i] < i
      BY <2>1, <2>2
    <2>4. g[prev[i]] = h[prev[i]]
      BY <2>1, <2>3
    <2>5. g[i] = step[g[prev[i]]] /\ h[i] = step[h[prev[i]]]
      <3>1. i \in 1..m /\ i \in 1..k
        BY <1>1, <2>1, <2>2
      <3> QED
        BY <1>1, <3>1
    <2> QED
      BY <2>1, <2>4, <2>5
  <1>2. \A m \in Nat : \E g : Upto(g, m)
    <2> DEFINE T == {m \in Nat : ~\E g : Upto(g, m)}
    <2> SUFFICES ASSUME T # {} PROVE FALSE
      OBVIOUS
    <2>1. PICK m \in T : \A j \in T : m <= j
      BY Smallest
    <2>2. m # 0
      <3>1. Upto([i \in 0..0 |-> base], 0)
        OBVIOUS
      <3> HIDE DEF Upto
      <3> QED
        BY <2>1, <3>1
    <2>3. PICK g : Upto(g, m - 1)
      <3> HIDE DEF Upto
      <3>0. m \in Nat /\ m - 1 \in Nat /\ ~(m <= m - 1)
        BY <2>1, <2>2
      <3>1. m - 1 \in Nat /\ m - 1 \notin T
        <4> HIDE DEF T
        <4> QED
          BY <2>1, <3>0
      <3> QED
        BY <3>1
    <2> DEFINE h == [i \in 0..m |-> IF i = m THEN step[g[prev[m]]] ELSE g[i]]
    <2>4. prev[m] \in 0..(m - 1)
      <3>1. m \in Nat \ {0}
        BY <2>1, <2>2
      <3>2. prev[m] \in Nat /\ prev[m] < m
        BY <3>1
      <3> QED
        BY <3>1, <3>2
    <2>5. h \in [0..m -> Nat]
      <3>1. step[g[prev[m]]] \in Nat
        BY <2>3, <2>4
      <3>2. \A i \in 0..m : i # m => i \in 0..(m - 1)
        BY <2>1
      <3> QED
        BY <2>3, <3>1, <3>2
    <2>6. h[0] = base
      BY <2>1, <2>2, <2>3
    <2>7. ASSUME NEW i \in 1..m PROVE h[i] = step[h[prev[i]]]
      <3>0. m \in Nat /\ i \in Nat \ {0} /\ i <= m
        BY <2>1
      <3>1. i \in Nat \ {0} /\ prev[i] \in 0..m /\ prev[i] # m
        <4> HIDE DEF T, h, Upto
        <4>1. prev[i] \in Nat /\ prev[i] < i
          BY <3>0
        <4> DEFINE p == prev[i]
        <4>2. p \in Nat /\ p < i
          BY <4>1
        <4> HIDE DEF p
        <4>3. p \in 0..m /\ p # m
          BY <3>0, <4>2
        <4> QED
          BY <3>0, <4>3 DEF p
      <3>2. h[prev[i]] = g[prev[i]]
        BY <3>1
      <3> HIDE DEF T
      <3>3. CASE i = m
        <4>1. i \in 0..m
          BY <3>0
        <4>2. h[i] = step[g[prev[i]]]
          BY <3>3, <4>1
        <4> QED
          BY <3>2, <4>2
      <3>4. CASE i # m
        <4>1. i \in 1..(m - 1) /\ i \in 0..m
          BY <3>0, <3>4
        <4>2. h[i] = g[i]
          BY <4>1, <3>4
        <4> QED
          BY <2>3, <3>2, <4>1, <4>2
      <3> QED
        BY <3>3, <3>4
    <2>8. Upto(h, m)
      BY <2>5, <2>6, <2>7
    <2> QED
      BY <2>1, <2>8
  <1> DEFINE G(m) == CHOOSE g : Upto(g, m)
             f == [n \in Nat |-> G(n)[n]]
  <1>3. \A m \in Nat : Upto(G(m), m)
    BY <1>2
  <1> HIDE DEF G
  <1>4. f \in [Nat -> Nat]
    <2>1. \A m \in Nat : G(m)[m] \in Nat
      BY <1>3
    <2> QED
      BY <2>1
  <1>5. f[0] = base
    BY <1>3
  <1>6. ASSUME NEW n \in Nat \ {0} PROVE f[n] = step[f[prev[n]]]
    <2>1. prev[n] \in Nat /\ prev[n] < n
      OBVIOUS
    <2>2. G(n)[n] = step[G(n)[prev[n]]]
      <3>1. n \in Nat /\ n \in 1..n
        OBVIOUS
      <3>2. Upto(G(n), n)
        BY <1>3, <3>1
      <3> QED
        BY <3>1, <3>2
    <2>3. G(n)[prev[n]] = G(prev[n])[prev[n]]
      <3>1. Upto(G(n), n) /\ Upto(G(prev[n]), prev[n])
        BY <1>3, <2>1
      <3>2. prev[n] <= n /\ prev[n] <= prev[n]
        BY <2>1
      <3> HIDE DEF Upto
      <3> QED
        BY <1>1, <2>1, <3>1, <3>2
    <2> QED
      BY <2>1, <2>2, <2>3
  <1> QED
    BY <1>4, <1>5, <1>6 DEF Recurs
=============================================================================
