------------------------------ MODULE Arithmetic ------------------------------
(***************************************************************************)
(* Facts about natural numbers the proofs share: integer division as the   *)
(* directories and the pages use it (a range is cut into equal parts), and *)
(* induction.                                                              *)
(***************************************************************************)
EXTENDS Integers, WellFoundedInduction, TLAPS

(* A multiple divided by its factor. *)
LEMMA DivOfMultiple ==
  ASSUME NEW a \in Nat, NEW b \in Nat \ {0}
  PROVE  (a * b) \div b = a
  BY SMTT(30)

(* Quotients bound what they divide. *)
LEMMA DivBounds ==
  ASSUME NEW a \in Nat, NEW b \in Nat \ {0}
  PROVE  a \div b \in Nat /\ b * (a \div b) <= a /\ a < b * ((a \div b) + 1)
  BY SMTT(30)

(* A product of naturals is monotonic in each factor. *)
LEMMA TimesMonotonic ==
  ASSUME NEW a \in Nat, NEW b \in Nat, NEW c \in Nat, a <= b
  PROVE  a * c <= b * c
  BY SMTT(30)

(* Dividing by a product is dividing twice, seen from the bounds. *)
LEMMA DivWithin ==
  ASSUME NEW h \in Nat, NEW l \in Nat \ {0}, NEW s \in Nat \ {0}, NEW p \in Nat,
         h \div (l * s) = p
  PROVE  p * s <= h \div l /\ h \div l < (p + 1) * s
<1> DEFINE q == h \div l
<1>1. l * s \in Nat \ {0}
  BY SMTT(30)
<1>2. l * s * p <= h /\ h < l * s * (p + 1)
  BY <1>1, DivBounds
<1>3. q \in Nat /\ l * q <= h /\ h < l * (q + 1)
  BY DivBounds
<1>4. l * (p * s) < l * (q + 1) /\ l * q < l * ((p + 1) * s)
  BY <1>2, <1>3, SMTT(30)
<1>5. ASSUME NEW x \in Nat, NEW y \in Nat, l * x < l * y
      PROVE  x < y
  BY <1>5, SMTT(30)
<1>6. p * s \in Nat /\ (p + 1) * s \in Nat
  BY SMTT(30)
<1>7. p * s < q + 1 /\ q < (p + 1) * s
  BY <1>3, <1>4, <1>5, <1>6
<1> QED
  BY <1>3, <1>6, <1>7

(* A number below c ranges of l falls into one of the c. *)
LEMMA DivInRange ==
  ASSUME NEW h \in Nat, NEW l \in Nat \ {0}, NEW c \in Nat, h < l * c
  PROVE  h \div l \in 0 .. c - 1
<1>1. h \div l \in Nat /\ l * (h \div l) <= h
  BY DivBounds
<1>2. ASSUME c <= h \div l PROVE FALSE
  <2>1. c * l <= (h \div l) * l
    BY <1>1, <1>2, TimesMonotonic
  <2> QED BY <2>1, <1>1, SMTT(30)
<1> QED BY <1>1, <1>2

(* Quotient and remainder. *)
LEMMA DivMod ==
  ASSUME NEW n \in Nat, NEW c \in Nat \ {0}
  PROVE  /\ n \div c \in Nat /\ n % c \in 0 .. c - 1
         /\ n = c * (n \div c) + (n % c)
  BY SMTT(30)

(* The least number of groups of c that hold n things. *)
LEMMA CeilBounds ==
  ASSUME NEW n \in Nat, NEW c \in Nat \ {0}
  PROVE  LET q == (n + c - 1) \div c
         IN  q \in Nat /\ q * c \in Nat /\ n <= q * c /\ q * c < n + c
<1> DEFINE x == n + c - 1
<1>1. x \in Nat /\ x = n + c - 1
  OBVIOUS
<1> HIDE DEF x
<1> DEFINE q == x \div c
<1>2. q \in Nat /\ c * q <= x /\ x < c * (q + 1)
  BY <1>1, DivBounds
<1>3. (n + c - 1) \div c = q
  BY DEF x
<1> HIDE DEF q
<1>4. c * (q + 1) = q * c + c /\ c * q = q * c
  BY <1>2, SMTT(30)
<1>5. q * c \in Nat
  BY <1>2, SMTT(30)
<1> QED
  BY <1>1, <1>2, <1>3, <1>4, <1>5

LEMMA CeilUnique ==
  ASSUME NEW n \in Nat, NEW m \in Nat, NEW c \in Nat \ {0}, n <= m * c, m * c < n + c
  PROVE  (n + c - 1) \div c = m
<1> DEFINE q == (n + c - 1) \div c
<1>1. q \in Nat /\ q * c \in Nat /\ n <= q * c /\ q * c < n + c
  BY CeilBounds
<1> HIDE DEF q
<1>2. ASSUME NEW a \in Nat, NEW b \in Nat, a < b
      PROVE  a * c + c <= b * c
  <2>1. (a + 1) * c <= b * c
    BY <1>2, TimesMonotonic
  <2>2. (a + 1) * c = a * c + c
    BY SMTT(30)
  <2> QED
    BY <2>1, <2>2
<1>3. m * c \in Nat
  BY SMTT(30)
<1>4. ~(q < m)
  <2> SUFFICES ASSUME q < m PROVE FALSE
    OBVIOUS
  <2>1. q * c + c <= m * c
    BY <1>1, <1>2
  <2> QED
    BY <1>1, <1>3, <2>1
<1>5. ~(m < q)
  <2> SUFFICES ASSUME m < q PROVE FALSE
    OBVIOUS
  <2>1. m * c + c <= q * c
    BY <1>1, <1>2
  <2> QED
    BY <1>1, <1>3, <2>1
<1> QED
  BY <1>1, <1>4, <1>5 DEF q

(* Induction, stated of sets: a set that holds 0 and, with any natural      *)
(* number, the next one, holds them all.                                    *)
LEMMA NatSetInduction ==
  ASSUME NEW S, 0 \in S, \A n \in Nat : n \in S => n + 1 \in S
  PROVE  Nat \subseteq S
<1> DEFINE T == Nat \ S
           R == OpToRel(<, Nat)
<1> SUFFICES ASSUME T # {} PROVE FALSE
  OBVIOUS
<1>1. PICK x \in T : \A y \in T : ~(<<y, x>> \in R)
  <2>1. IsWellFoundedOn(R, Nat)
    BY NatLessThanWellFounded
  <2>2. T \subseteq Nat
    OBVIOUS
  <2> HIDE DEF T, R
  <2> QED BY <2>1, <2>2, WFMin
<1>2. x \in Nat /\ x # 0 /\ x \notin S
  OBVIOUS
<1>3. x - 1 \in Nat /\ x - 1 < x /\ x - 1 \notin S
  BY <1>2
<1>4. <<x - 1, x>> \in R
  BY <1>2, <1>3 DEF OpToRel
<1> QED
  BY <1>1, <1>3, <1>4

(* A recursive function over an interval exists: G makes its n-th value     *)
(* from n and the value before it.                                         *)
StepsOf(N, D) == [(1 .. N) \X D -> D]
Iterates(f, N, D, base, G) ==
  f \in [0 .. N -> D] /\ f[0] = base /\ \A n \in 1 .. N : f[n] = G[<<n, f[n - 1]>>]

LEMMA RecursionExists ==
  ASSUME NEW N \in Nat, NEW D, NEW base \in D, NEW G \in StepsOf(N, D)
  PROVE  \E f : Iterates(f, N, D, base, G)
<1> DEFINE R(m, f) == f[0] = base /\ \A n \in 1 .. m : f[n] = G[<<n, f[n - 1]>>]
           S == {m \in Nat : m <= N => \E f \in [0 .. m -> D] : R(m, f)}
<1>1. 0 \in S
  <2> DEFINE f == [n \in 0 .. 0 |-> base]
  <2>1. f \in [0 .. 0 -> D] /\ R(0, f)  OBVIOUS
  <2> QED BY <2>1
<1>2. ASSUME NEW m \in Nat, m \in S PROVE m + 1 \in S
  <2> SUFFICES ASSUME m + 1 <= N PROVE \E f \in [0 .. m + 1 -> D] : R(m + 1, f)
    OBVIOUS
  <2>1. PICK f \in [0 .. m -> D] : R(m, f)  BY <1>2
  <2> DEFINE x == G[<<m + 1, f[m]>>]
             g == [n \in 0 .. m + 1 |-> IF n = m + 1 THEN x ELSE f[n]]
  <2>2. x \in D
    <3>1. <<m + 1, f[m]>> \in (1 .. N) \X D  OBVIOUS
    <3> QED BY <3>1 DEF StepsOf
  <2> HIDE DEF x
  <2>3. g \in [0 .. m + 1 -> D]  BY <2>2
  <2>4. \A n \in 0 .. m : g[n] = f[n]  OBVIOUS
  <2>5. g[m + 1] = x  OBVIOUS
  <2> HIDE DEF g
  <2>6. g[0] = base  BY <2>1, <2>4
  <2>7. ASSUME NEW n \in 1 .. m + 1 PROVE g[n] = G[<<n, g[n - 1]>>]
    <3>1. CASE n = m + 1
      <4>1. n - 1 = m /\ m \in 0 .. m  BY <3>1
      <4> QED BY <2>4, <2>5, <3>1, <4>1 DEF x
    <3>2. CASE n # m + 1
      <4>1. n - 1 \in 0 .. m /\ n \in 0 .. m /\ n \in 1 .. m  BY <3>2
      <4> QED BY <2>1, <2>4, <4>1
    <3> QED BY <3>1, <3>2
  <2>8. R(m + 1, g)  BY <2>6, <2>7
  <2> HIDE DEF R
  <2> QED BY <2>3, <2>8
<1> HIDE DEF S
<1>3. N \in S  BY <1>1, <1>2, NatSetInduction
<1> QED BY <1>3 DEF S, Iterates

(* The powers of two grow.                                                 *)
LEMMA DoublingGrows ==
  ASSUME NEW n \in Nat
  PROVE  LET doubled[k \in 0 .. n] == IF k = 0 THEN 1 ELSE 2 * doubled[k - 1]
         IN  /\ doubled[0] = 1
             /\ \A k \in 0 .. n : doubled[k] \in Nat \ {0} /\ doubled[k] > k
<1> DEFINE R(d) == d = [k \in 0 .. n |-> IF k = 0 THEN 1 ELSE 2 * d[k - 1]]
           doubled == CHOOSE d : R(d)
<1>1. SUFFICES doubled[0] = 1 /\ \A k \in 0 .. n : doubled[k] \in Nat \ {0} /\ doubled[k] > k
  OBVIOUS
<1>2. \E d : R(d)
  <2> DEFINE G == [x \in (1 .. n) \X Nat |-> 2 * x[2]]
  <2>1. G \in StepsOf(n, Nat)  BY DEF StepsOf
  <2>2. PICK d : Iterates(d, n, Nat, 1, G)
    <3> HIDE DEF G
    <3>1. 1 \in Nat /\ n \in Nat  OBVIOUS
    <3> QED BY <2>1, <3>1, RecursionExists
  <2>3. ASSUME NEW k \in 1 .. n PROVE d[k] = 2 * d[k - 1]
    <3>1. k - 1 \in 0 .. n  OBVIOUS
    <3>2. <<k, d[k - 1]>> \in (1 .. n) \X Nat /\ d[k] = G[<<k, d[k - 1]>>]
      BY <2>2, <3>1 DEF Iterates
    <3> QED BY <3>2
  <2>4. R(d)
    <3>1. \A k \in 0 .. n : d[k] = IF k = 0 THEN 1 ELSE 2 * d[k - 1]  BY <2>2, <2>3 DEF Iterates
    <3> QED BY <2>2, <3>1 DEF Iterates
  <2> QED BY <2>4
<1> HIDE DEF R
<1>3. R(doubled)  BY <1>2, Zenon
<1> HIDE DEF doubled
<1>4. doubled[0] = 1 /\ \A k \in 0 .. n - 1 : doubled[k + 1] = 2 * doubled[k]
  <2>1. \A k \in 0 .. n : doubled[k] = IF k = 0 THEN 1 ELSE 2 * doubled[k - 1]
    BY <1>3 DEF R
  <2>2. ASSUME NEW k \in 0 .. n - 1 PROVE doubled[k + 1] = 2 * doubled[k]
    <3>1. k + 1 \in 0 .. n /\ k + 1 # 0 /\ (k + 1) - 1 = k  OBVIOUS
    <3> QED BY <2>1, <3>1
  <2>3. 0 \in 0 .. n  OBVIOUS
  <2> QED BY <2>1, <2>2, <2>3
<1> DEFINE S == {k \in Nat : k <= n => doubled[k] \in Nat /\ doubled[k] > k}
<1>5. Nat \subseteq S
  <2>1. 0 \in S  BY <1>4
  <2>2. ASSUME NEW k \in Nat, k \in S PROVE k + 1 \in S
    <3> SUFFICES ASSUME k + 1 <= n PROVE doubled[k + 1] \in Nat /\ doubled[k + 1] > k + 1
      OBVIOUS
    <3> QED BY <1>4, <2>2
  <2> HIDE DEF S
  <2> QED BY <2>1, <2>2, NatSetInduction
<1>6. \A k \in 0 .. n : doubled[k] \in Nat \ {0} /\ doubled[k] > k  BY <1>5
<1> QED BY <1>4, <1>6

(* Doubling from 1 on reaches every number.                                *)
LEMMA DoublingEnds ==
  ASSUME NEW n \in Nat
  PROVE  LET doubled[k \in 0 .. n] == IF k = 0 THEN 1 ELSE 2 * doubled[k - 1]
         IN  doubled[CHOOSE k \in 0 .. n : doubled[k] >= n /\ (k = 0 \/ doubled[k - 1] < n)] \in Nat \ {0}
<1> DEFINE doubled[k \in 0 .. n] == IF k = 0 THEN 1 ELSE 2 * doubled[k - 1]
           Enough(k) == doubled[k] >= n /\ (k = 0 \/ doubled[k - 1] < n)
<1>1. SUFFICES doubled[CHOOSE k \in 0 .. n : Enough(k)] \in Nat \ {0}
  OBVIOUS
<1>2. /\ doubled[0] = 1
      /\ \A k \in 0 .. n : doubled[k] \in Nat \ {0} /\ doubled[k] > k
  BY DoublingGrows
<1> HIDE DEF doubled
<1>3. \E k \in 0 .. n : Enough(k)
  <2> DEFINE T == {k \in Nat : k <= n => (\E l \in 0 .. k : Enough(l)) \/ doubled[k] < n}
  <2>1. 0 \in T
    BY <1>2
  <2>2. ASSUME NEW k \in Nat, k \in T PROVE k + 1 \in T
    <3> SUFFICES ASSUME k + 1 <= n PROVE (\E l \in 0 .. k + 1 : Enough(l)) \/ doubled[k + 1] < n
      OBVIOUS
    <3>1. CASE \E l \in 0 .. k : Enough(l)  BY <3>1
    <3>2. CASE doubled[k] < n
      <4>1. (k + 1) - 1 = k /\ k + 1 \in 0 .. n /\ k + 1 \in 0 .. k + 1  OBVIOUS
      <4>2. doubled[k + 1] \in Nat /\ doubled[(k + 1) - 1] < n  BY <1>2, <3>2, <4>1
      <4> QED BY <4>1, <4>2
    <3> QED BY <2>2, <3>1, <3>2
  <2>3. n \in T
    <3> HIDE DEF T
    <3> QED BY <2>1, <2>2, NatSetInduction
  <2>4. doubled[n] > n /\ doubled[n] \in Nat  BY <1>2
  <2> QED BY <2>3, <2>4
<1> HIDE DEF Enough
<1>4. (CHOOSE k \in 0 .. n : Enough(k)) \in 0 .. n  BY <1>3
<1> QED BY <1>2, <1>4
=============================================================================
