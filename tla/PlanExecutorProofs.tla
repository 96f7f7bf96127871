---- MODULE PlanExecutorProofs ----
(***************************************************************************)
(* Theorems about the module PlanExecutor: for every plan, every table of  *)
(* rows and all hash functions, the hash tables of the archived executors  *)
(* keep every row of the build side, once and where a lookup finds it, in  *)
(* the middle of displacements, evictions, moves and rehashes too.         *)
(*                                                                         *)
(* A table is described by the keys of the rows it has been handed: its    *)
(* entries, wherever they are, have the keys of the rows, one each, with   *)
(* the numbers of the rows in order (Content).  To this each table adds    *)
(* where its entries are: RHInv, CKInv and HSInv.  The sections prove what *)
(* a step of a table does to its invariant as a statement about arrays,    *)
(* then about the actions of the table's module, then about the executor.  *)
(***************************************************************************)
EXTENDS PlanExecutor, Arithmetic, FiniteSetTheorems, SequenceTheorems, TLAPS

-----------------------------------------------------------------------------
(* Sizes and sequences.                                                     *)

(* A set of numbers that is not empty has a least one.                     *)
LEMMA MinIsLeast ==
  ASSUME NEW S \in SUBSET Nat, S # {}
  PROVE  Min(S) \in S /\ \A y \in S : Min(S) <= y
<1> DEFINE R == OpToRel(<, Nat)
<1>1. PICK x \in S : \A y \in S : ~(<<y, x>> \in R)
  <2>1. IsWellFoundedOn(R, Nat)
    BY NatLessThanWellFounded
  <2> HIDE DEF R
  <2> QED BY <2>1, WFMin
<1>2. \A y \in S : x <= y
  <2> TAKE y \in S
  <2>1. y \in Nat /\ x \in Nat
    OBVIOUS
  <2>2. y < x => <<y, x>> \in R
    BY <2>1 DEF OpToRel
  <2>3. ~(y < x)
    BY <1>1, <2>2
  <2> QED BY <2>1, <2>3
<1>3. \E z \in S : \A y \in S : z <= y
  BY <1>2
<1> QED
  BY <1>3 DEF Min

(* A bounded set of numbers that is not empty has a greatest one.          *)
LEMMA MaxIsGreatest ==
  ASSUME NEW n \in Nat, NEW S \in SUBSET (0 .. n), S # {}
  PROVE  Max(S) \in S /\ \A y \in S : Max(S) >= y
<1> DEFINE T == {n - x : x \in S}
<1>1. T \in SUBSET Nat /\ T # {}
  <2>1. PICK x \in S : TRUE
    OBVIOUS
  <2>2. n - x \in T
    BY <2>1
  <2>3. \A y \in S : y \in Int /\ y <= n
    OBVIOUS
  <2>4. \A y \in S : n - y \in Nat
    BY <2>3
  <2> QED BY <2>2, <2>4
<1>2. Min(T) \in T /\ \A y \in T : Min(T) <= y
  <2> HIDE DEF T
  <2> QED BY <1>1, MinIsLeast
<1>3. PICK x \in S : Min(T) = n - x
  BY <1>2
<1>4. \A y \in S : x >= y
  <2> TAKE y \in S
  <2>1. n - y \in T
    OBVIOUS
  <2>2. n - x <= n - y
    BY <1>2, <1>3, <2>1
  <2> QED BY <2>2
<1>5. \E z \in S : \A y \in S : z >= y
  BY <1>4
<1> QED
  BY <1>5 DEF Max

(* The sizes of tables.                                                    *)
LEMMA NextPow2Bounds ==
  ASSUME NEW n \in Nat
  PROVE  NextPow2(n) \in Nat \ {0} /\ NextPow2(n) >= n
<1> DEFINE doubled[i \in 0 .. n] == IF i = 0 THEN 1 ELSE 2 * doubled[i - 1]
           S == {p \in {doubled[i] : i \in 0 .. n} : p >= n}
<1>1. \A k \in 0 .. n : doubled[k] \in Nat \ {0} /\ doubled[k] > k
  BY DoublingGrows
<1>2. NextPow2(n) = Min(S)
  BY DEF NextPow2
<1> HIDE DEF doubled
<1>3. S \in SUBSET (Nat \ {0}) /\ \A p \in S : p >= n
  BY <1>1
<1>4. doubled[n] \in S
  BY <1>1
<1> HIDE DEF S
<1>5. Min(S) \in S
  BY <1>3, <1>4, MinIsLeast
<1> QED
  BY <1>2, <1>3, <1>5

-----------------------------------------------------------------------------
(* Positions.                                                              *)
Walk(f, n, S) ==
  /\ f \in [0 .. n -> Seq(Nat)] /\ f[0] = <<>>
  /\ \A i \in 1 .. n : f[i] = IF i \in S THEN Append(f[i - 1], i) ELSE f[i - 1]

(* Positions is the last value of a walk over 1 .. n. *)
LEMMA WalkExists ==
  ASSUME NEW n \in Nat, NEW S
  PROVE  \E f : Walk(f, n, S) /\ Positions(n, S) = f[n]
<1> DEFINE D == Seq(Nat)
           R(f) == f = [i \in 0 .. n |-> IF i = 0 THEN <<>>
                                         ELSE IF i \in S THEN Append(f[i - 1], i) ELSE f[i - 1]]
           upTo == CHOOSE f : R(f)
           G == [x \in (1 .. n) \X D |-> IF x[1] \in S THEN Append(x[2], x[1]) ELSE x[2]]
<1>1. <<>> \in D
  OBVIOUS
<1>2. G \in StepsOf(n, D)
  BY DEF StepsOf
<1>3. PICK f : Iterates(f, n, D, <<>>, G)
  <2> HIDE DEF G, D
  <2> QED BY <1>1, <1>2, RecursionExists
<1>4. Walk(f, n, S)
  <2>1. ASSUME NEW i \in 1 .. n PROVE f[i] = IF i \in S THEN Append(f[i - 1], i) ELSE f[i - 1]
    <3>1. i - 1 \in 0 .. n
      OBVIOUS
    <3>2. <<i, f[i - 1]>> \in (1 .. n) \X D /\ f[i] = G[<<i, f[i - 1]>>]
      BY <1>3, <3>1 DEF Iterates
    <3> QED BY <3>2
  <2> QED BY <1>3, <2>1 DEF Walk, Iterates
<1>5. R(f)
  <2>1. \A i \in 0 .. n : f[i] = IF i = 0 THEN <<>> ELSE IF i \in S THEN Append(f[i - 1], i) ELSE f[i - 1]
    <3> TAKE i \in 0 .. n
    <3>1. i = 0 \/ i \in 1 .. n
      OBVIOUS
    <3> QED BY <1>4, <3>1 DEF Walk
  <2> QED BY <1>4, <2>1 DEF Walk
<1>6. R(upTo)
  BY <1>5, Zenon
<1>7. Positions(n, S) = upTo[n]
  BY DEF Positions
<1> HIDE DEF upTo
<1>8. Walk(upTo, n, S)
  <2>1. \A i \in 0 .. n : upTo[i] = IF i = 0 THEN <<>> ELSE IF i \in S THEN Append(upTo[i - 1], i) ELSE upTo[i - 1]
    BY <1>6
  <2>2. 0 \in 0 .. n /\ 1 .. n \subseteq 0 .. n
    OBVIOUS
  <2>3. upTo[0] = <<>> /\ \A i \in 1 .. n : upTo[i] = IF i \in S THEN Append(upTo[i - 1], i) ELSE upTo[i - 1]
    BY <2>1, <2>2
  <2> DEFINE T == {i \in Nat : i <= n => upTo[i] \in D}
  <2>4. 0 \in T
    BY <1>1, <2>3
  <2>5. ASSUME NEW i \in Nat, i \in T PROVE i + 1 \in T
    <3> SUFFICES ASSUME i + 1 <= n PROVE upTo[i + 1] \in D
      OBVIOUS
    <3>1. i + 1 \in 1 .. n /\ (i + 1) - 1 = i /\ upTo[i] \in D
      BY <2>5
    <3>2. Append(upTo[i], i + 1) \in D
      BY <3>1
    <3> QED BY <2>3, <3>1, <3>2
  <2> HIDE DEF T
  <2>6. Nat \subseteq T
    BY <2>4, <2>5, NatSetInduction
  <2>7. \A i \in 0 .. n : upTo[i] \in D
    BY <2>6 DEF T
  <2>8. upTo \in [0 .. n -> D]
    BY <1>6, <2>7
  <2> QED BY <2>3, <2>8 DEF Walk
<1> QED
  BY <1>7, <1>8

(* Two walks agree as far as their sets do. *)
LEMMA WalkUnique ==
  ASSUME NEW n \in Nat, NEW m \in Nat, NEW S, NEW T, NEW f, NEW g, Walk(f, n, S), Walk(g, m, T),
         NEW k \in Nat, k <= n, k <= m, \A i \in 1 .. k : i \in S <=> i \in T
  PROVE  f[k] = g[k]
<1> DEFINE P == {i \in Nat : i <= k => f[i] = g[i]}
<1>1. 0 \in P
  BY DEF Walk
<1>2. ASSUME NEW i \in Nat, i \in P PROVE i + 1 \in P
  <2> SUFFICES ASSUME i + 1 <= k PROVE f[i + 1] = g[i + 1]
    OBVIOUS
  <2>1. f[i] = g[i] /\ i + 1 \in 1 .. n /\ i + 1 \in 1 .. m /\ i + 1 \in 1 .. k /\ (i + 1) - 1 = i
    BY <1>2
  <2> QED BY <2>1 DEF Walk
<1> HIDE DEF P
<1>3. k \in P
  BY <1>1, <1>2, NatSetInduction
<1> QED
  BY <1>3 DEF P

(* There is no position among no numbers. *)
LEMMA PositionsNone == ASSUME NEW S PROVE Positions(0, S) = <<>>
<1>1. PICK f : Walk(f, 0, S) /\ Positions(0, S) = f[0]
  BY WalkExists
<1> QED
  BY <1>1 DEF Walk

(* The positions up to the next number. *)
LEMMA PositionsNext ==
  ASSUME NEW n \in Nat, NEW S
  PROVE  Positions(n + 1, S) = IF n + 1 \in S THEN Append(Positions(n, S), n + 1) ELSE Positions(n, S)
<1>1. PICK f : Walk(f, n, S) /\ Positions(n, S) = f[n]
  BY WalkExists
<1>2. PICK g : Walk(g, n + 1, S) /\ Positions(n + 1, S) = g[n + 1]
  BY WalkExists
<1>3. f[n] = g[n]
  BY <1>1, <1>2, WalkUnique
<1>4. n + 1 \in 1 .. n + 1 /\ (n + 1) - 1 = n
  OBVIOUS
<1> QED
  BY <1>1, <1>2, <1>3, <1>4 DEF Walk

(* Positions depend on the numbers that are in the set only. *)
LEMMA PositionsSame ==
  ASSUME NEW n \in Nat, NEW S, NEW T, \A i \in 1 .. n : i \in S <=> i \in T
  PROVE  Positions(n, S) = Positions(n, T)
<1>1. PICK f : Walk(f, n, S) /\ Positions(n, S) = f[n]
  BY WalkExists
<1>2. PICK g : Walk(g, n, T) /\ Positions(n, T) = g[n]
  BY WalkExists
<1> QED
  BY <1>1, <1>2, WalkUnique

(* The numbers of 1 .. n in S, each once, in their order.                  *)
InOrder(s, n, S) ==
  /\ s \in Seq(Nat)
  /\ \A p \in 1 .. Len(s) : s[p] \in 1 .. n /\ s[p] \in S
  /\ \A i \in 1 .. n : i \in S => \E p \in 1 .. Len(s) : s[p] = i
  /\ \A p, q \in 1 .. Len(s) : p < q => s[p] < s[q]

(* Positions lists the numbers of 1 .. n that are in S. *)
LEMMA PositionsInOrder ==
  ASSUME NEW n \in Nat, NEW S
  PROVE  InOrder(Positions(n, S), n, S)
<1> DEFINE P == {k \in Nat : InOrder(Positions(k, S), k, S)}
<1>1. 0 \in P
  <2>1. InOrder(<<>>, 0, S)
    BY DEF InOrder
  <2> QED BY <2>1, PositionsNone
<1>2. ASSUME NEW k \in Nat, k \in P PROVE k + 1 \in P
  <2> DEFINE s == Positions(k, S)
             t == Positions(k + 1, S)
  <2>1. InOrder(s, k, S)
    BY <1>2
  <2>2. t = IF k + 1 \in S THEN Append(s, k + 1) ELSE s
    BY PositionsNext
  <2> HIDE DEF s, t
  <2>3. InOrder(t, k + 1, S)
    <3>1. CASE k + 1 \notin S
      <4>1. t = s
        BY <2>2, <3>1
      <4>2. \A i \in 1 .. k + 1 : i \in S => i \in 1 .. k
        BY <3>1
      <4> QED BY <2>1, <4>1, <4>2 DEF InOrder
    <3>2. CASE k + 1 \in S
      <4>1. s \in Seq(Nat) /\ t = Append(s, k + 1)
        BY <2>1, <2>2, <3>2 DEF InOrder
      <4>2. Len(s) \in Nat /\ Len(t) = Len(s) + 1 /\ t[Len(s) + 1] = k + 1 /\ t \in Seq(Nat)
            /\ \A p \in 1 .. Len(s) : t[p] = s[p]
        BY <4>1
      <4> HIDE DEF InOrder
      <4>3. /\ \A p \in 1 .. Len(s) : s[p] \in 1 .. k /\ s[p] \in S
            /\ \A i \in 1 .. k : i \in S => \E p \in 1 .. Len(s) : s[p] = i
            /\ \A p, q \in 1 .. Len(s) : p < q => s[p] < s[q]
        BY <2>1 DEF InOrder
      <4>4. \A p \in 1 .. Len(t) : p \in 1 .. Len(s) \/ p = Len(s) + 1
        BY <4>2
      <4>5. \A p \in 1 .. Len(t) : t[p] \in 1 .. k + 1 /\ t[p] \in S
        BY <3>2, <4>2, <4>3, <4>4
      <4>6. ASSUME NEW i \in 1 .. k + 1, i \in S PROVE \E p \in 1 .. Len(t) : t[p] = i
        <5>1. CASE i = k + 1
          BY <4>2, <5>1
        <5>2. CASE i # k + 1
          <6>1. PICK p \in 1 .. Len(s) : s[p] = i
            BY <4>3, <4>6, <5>2
          <6>2. p \in 1 .. Len(t)
            BY <4>2
          <6> QED BY <4>2, <6>1, <6>2
        <5> QED BY <5>1, <5>2
      <4>7. ASSUME NEW p \in 1 .. Len(t), NEW q \in 1 .. Len(t), p < q PROVE t[p] < t[q]
        <5>1. p \in 1 .. Len(s) /\ s[p] < k + 1
          BY <4>2, <4>3, <4>7
        <5> QED BY <4>2, <4>3, <4>4, <4>7, <5>1
      <4> QED BY <4>2, <4>5, <4>6, <4>7 DEF InOrder
    <3> QED BY <3>1, <3>2
  <2> QED BY <2>3 DEF t
<1> HIDE DEF P
<1>3. n \in P
  BY <1>1, <1>2, NatSetInduction
<1> QED
  BY <1>3 DEF P

(* A list of what f has at the places in D, each place once.               *)
Enumerates(o, places, f, D) ==
  /\ Len(o) = Len(places)
  /\ \A i \in 1 .. Len(places) : places[i] \in D /\ o[i] = f[places[i]]
  /\ \A d \in D : \E i \in 1 .. Len(places) : places[i] = d
  /\ \A i, j \in 1 .. Len(places) : places[i] = places[j] => i = j

(* Picked lists the elements at the places in S, each once. *)
LEMMA PickedIs ==
  ASSUME NEW V, NEW s \in Seq(V), NEW S \in SUBSET DOMAIN s
  PROVE  /\ Picked(s, S) \in Seq(V)
         /\ \E places \in Seq(DOMAIN s) : Enumerates(Picked(s, S), places, s, S)
<1> DEFINE p == Positions(Len(s), S)
<1>1. Len(s) \in Nat /\ DOMAIN s = 1 .. Len(s) /\ \A d \in DOMAIN s : s[d] \in V
  OBVIOUS
<1>2. InOrder(p, Len(s), S)
  BY <1>1, PositionsInOrder
<1>3. Picked(s, S) = [i \in DOMAIN p |-> s[p[i]]]
  BY DEF Picked
<1> HIDE DEF p
<1>4. p \in Seq(DOMAIN s)
  <2>1. p \in Seq(Nat) /\ \A i \in 1 .. Len(p) : p[i] \in DOMAIN s
    BY <1>1, <1>2 DEF InOrder
  <2> QED BY <2>1, <1>1
<1>5. DOMAIN p = 1 .. Len(p) /\ Len(p) \in Nat /\ \A i \in 1 .. Len(p) : p[i] \in Nat
  BY <1>2 DEF InOrder
<1>6. Picked(s, S) \in Seq(V) /\ Len(Picked(s, S)) = Len(p)
  <2>1. \A i \in 1 .. Len(p) : s[p[i]] \in V
    BY <1>1, <1>2 DEF InOrder
  <2> QED BY <1>3, <1>5, <2>1
<1>7. \A i \in 1 .. Len(p) : p[i] \in S /\ Picked(s, S)[i] = s[p[i]]
  BY <1>2, <1>3, <1>5 DEF InOrder
<1>8. \A d \in S : \E i \in 1 .. Len(p) : p[i] = d
  BY <1>1, <1>2 DEF InOrder
<1>9. ASSUME NEW i \in 1 .. Len(p), NEW j \in 1 .. Len(p), p[i] = p[j] PROVE i = j
  <2>1. ~(i < j) /\ ~(j < i)
    BY <1>2, <1>5, <1>9 DEF InOrder
  <2> QED BY <2>1
<1>10. Enumerates(Picked(s, S), p, s, S)
  BY <1>6, <1>7, <1>8, <1>9 DEF Enumerates
<1> QED
  BY <1>4, <1>6, <1>10

(* The slots that have an entry.                                           *)
TakenOf(slots, n, none) == {d \in 0 .. n - 1 : slots[d] # none}

(* The entries of some slots, each once.                                   *)
LEMMA OccupiedIs ==
  ASSUME NEW V, NEW none, NEW n \in Nat, NEW slots \in [0 .. n - 1 -> V \cup {none}], none \notin V
  PROVE  /\ Occupied(slots, n, none) \in Seq(V)
         /\ \E places \in Seq(0 .. n - 1) :
              Enumerates(Occupied(slots, n, none), places, slots, TakenOf(slots, n, none))
<1> DEFINE s == [i \in 1 .. n |-> slots[i - 1]]
           S == {i \in 1 .. n : slots[i - 1] # none}
           o == Occupied(slots, n, none)
           D == {d \in 0 .. n - 1 : slots[d] # none}
<1>1. s \in Seq(V \cup {none}) /\ Len(s) = n /\ DOMAIN s = 1 .. n /\ \A i \in 1 .. n : s[i] = slots[i - 1]
  <2>1. \A i \in 1 .. n : slots[i - 1] \in V \cup {none}
    OBVIOUS
  <2> QED BY <2>1
<1>2. S \in SUBSET DOMAIN s /\ o = Picked(s, S)
  BY <1>1 DEF Occupied
<1>3. \A i \in 1 .. n : i \in S <=> slots[i - 1] # none
  OBVIOUS
<1> HIDE DEF s, S, o
<1>4. o \in Seq(V \cup {none}) /\ \E p \in Seq(DOMAIN s) : Enumerates(o, p, s, S)
  BY <1>1, <1>2, PickedIs
<1>5. PICK p \in Seq(DOMAIN s) : Enumerates(o, p, s, S)
  BY <1>4
<1> DEFINE places == [i \in 1 .. Len(p) |-> p[i] - 1]
<1>6. Len(p) \in Nat /\ \A i \in 1 .. Len(p) : p[i] \in 1 .. n /\ p[i] \in S
  BY <1>1, <1>5 DEF Enumerates
<1>7. places \in Seq(0 .. n - 1) /\ Len(places) = Len(p) /\ \A i \in 1 .. Len(p) : places[i] = p[i] - 1
  BY <1>6
<1> HIDE DEF places
<1>8. ASSUME NEW i \in 1 .. Len(p) PROVE places[i] \in D /\ o[i] = slots[places[i]]
  <2>1. p[i] \in 1 .. n /\ slots[p[i] - 1] # none /\ places[i] = p[i] - 1
    BY <1>3, <1>6, <1>7
  <2>2. o[i] = s[p[i]]
    BY <1>5 DEF Enumerates
  <2>3. s[p[i]] = slots[p[i] - 1] /\ p[i] - 1 \in 0 .. n - 1
    BY <1>1, <2>1
  <2> QED BY <2>1, <2>2, <2>3
<1>9. o \in Seq(V)
  <2>1. Len(o) = Len(p)
    BY <1>5 DEF Enumerates
  <2>2. \A i \in 1 .. Len(o) : o[i] \in V
    BY <1>8, <2>1
  <2> QED BY <1>4, <2>2
<1>10. ASSUME NEW d \in D PROVE \E i \in 1 .. Len(p) : places[i] = d
  <2>1. d + 1 \in 1 .. n /\ (d + 1) - 1 = d
    OBVIOUS
  <2>2. d + 1 \in S
    BY <1>3, <2>1
  <2>3. PICK i \in 1 .. Len(p) : p[i] = d + 1
    BY <1>5, <2>2 DEF Enumerates
  <2>4. places[i] = p[i] - 1
    BY <1>7
  <2>5. (d + 1) - 1 = d
    OBVIOUS
  <2>6. places[i] = d
    BY <2>3, <2>4, <2>5
  <2> QED BY <2>6
<1>11. \A i, j \in 1 .. Len(p) : places[i] = places[j] => i = j
  BY <1>5, <1>6, <1>7 DEF Enumerates
<1>12. Enumerates(o, places, slots, TakenOf(slots, n, none))
  BY <1>5, <1>7, <1>8, <1>10, <1>11 DEF Enumerates, TakenOf
<1> QED
  BY <1>7, <1>9, <1>12 DEF o

-----------------------------------------------------------------------------
(* The rows of a key.                                                      *)

(* The rows of a build side, given by their keys, that have key k.         *)
RowList(rk, k) == Positions(Len(rk), {i \in 1 .. Len(rk) : rk[i] = k})

(* The rows of a key are the numbers of the rows that have it. *)
LEMMA RowListIs ==
  ASSUME NEW rk \in Seq(Values), NEW k
  PROVE  /\ RowList(rk, k) \in Seq(1 .. Len(rk))
         /\ \A p \in 1 .. Len(RowList(rk, k)) : rk[RowList(rk, k)[p]] = k
         /\ \A i \in 1 .. Len(rk) : rk[i] = k => \E p \in 1 .. Len(RowList(rk, k)) : RowList(rk, k)[p] = i
         /\ \A p, q \in 1 .. Len(RowList(rk, k)) : RowList(rk, k)[p] = RowList(rk, k)[q] => p = q
<1> DEFINE n == Len(rk)
           S == {i \in 1 .. n : rk[i] = k}
           s == RowList(rk, k)
<1>1. n \in Nat
  OBVIOUS
<1>2. \A i \in 1 .. n : i \in S <=> rk[i] = k
  OBVIOUS
<1>3. InOrder(s, n, S)
  BY <1>1, PositionsInOrder DEF RowList
<1> HIDE DEF s, S, n
<1>4. s \in Seq(1 .. n)
  <2>1. s \in Seq(Nat) /\ \A p \in 1 .. Len(s) : s[p] \in 1 .. n
    BY <1>3 DEF InOrder
  <2>2. Len(s) \in Nat /\ DOMAIN s = 1 .. Len(s) /\ s = [p \in 1 .. Len(s) |-> s[p]]
    BY <2>1
  <2>3. s \in [1 .. Len(s) -> 1 .. n]
    BY <2>1, <2>2, Zenon
  <2>4. ASSUME NEW m \in Nat, NEW f \in [1 .. m -> 1 .. n] PROVE f \in Seq(1 .. n)
    <3>1. f \in UNION {[1 .. i -> 1 .. n] : i \in Nat}
      BY Zenon
    <3>2. Seq(1 .. n) = UNION {[1 .. i -> 1 .. n] : i \in Nat}
      BY SeqDef
    <3> QED BY <3>1, <3>2
  <2> QED BY <2>2, <2>3, <2>4
<1>5. Len(s) \in Nat /\ \A p \in 1 .. Len(s) : s[p] \in 1 .. n
  <2>1. s \in Seq(Nat) /\ \A p \in 1 .. Len(s) : s[p] \in 1 .. n
    BY <1>3 DEF InOrder
  <2> QED BY <2>1
<1>6. \A p \in 1 .. Len(s) : rk[s[p]] = k
  BY <1>2, <1>3 DEF InOrder
<1>7. \A i \in 1 .. n : rk[i] = k => \E p \in 1 .. Len(s) : s[p] = i
  BY <1>2, <1>3 DEF InOrder
<1>8. ASSUME NEW p \in 1 .. Len(s), NEW q \in 1 .. Len(s), s[p] = s[q] PROVE p = q
  <2>1. ~(p < q) /\ ~(q < p)
    BY <1>1, <1>3, <1>5, <1>8 DEF InOrder
  <2> QED BY <2>1
<1> QED
  BY <1>4, <1>6, <1>7, <1>8 DEF s, n

(* One more row adds its number to the rows of its key. *)
LEMMA RowListAppend ==
  ASSUME NEW rk \in Seq(Values), NEW x \in Values, NEW k
  PROVE  RowList(Append(rk, x), k) =
           IF x = k THEN Append(RowList(rk, k), Len(rk) + 1) ELSE RowList(rk, k)
<1> DEFINE n == Len(rk)
           S == {i \in 1 .. n : rk[i] = k}
           r == Append(rk, x)
           T == {i \in 1 .. n + 1 : r[i] = k}
<1>1. n \in Nat /\ Len(r) = n + 1 /\ r[n + 1] = x /\ \A i \in 1 .. n : r[i] = rk[i]
  OBVIOUS
<1> HIDE DEF r
<1>2. \A i \in 1 .. n : i \in S <=> i \in T
  BY <1>1
<1>3. n + 1 \in T <=> x = k
  BY <1>1
<1> HIDE DEF S, T, n
<1>4. Positions(n, S) = Positions(n, T)
  BY <1>1, <1>2, PositionsSame
<1>5. Positions(n + 1, T) = IF n + 1 \in T THEN Append(Positions(n, T), n + 1) ELSE Positions(n, T)
  BY <1>1, PositionsNext
<1>6. RowList(rk, k) = Positions(n, S)
  BY DEF RowList, n, S
<1>7. RowList(r, k) = Positions(n + 1, T)
  BY <1>1 DEF RowList, T
<1> QED
  BY <1>3, <1>4, <1>5, <1>6, <1>7 DEF r, n

(* A key that no row has has no rows. *)
LEMMA RowListNone ==
  ASSUME NEW rk \in Seq(Values), NEW k, \A i \in 1 .. Len(rk) : rk[i] # k
  PROVE  RowList(rk, k) = <<>>
<1>1. RowList(rk, k) \in Seq(1 .. Len(rk))
      /\ \A p \in 1 .. Len(RowList(rk, k)) : rk[RowList(rk, k)[p]] = k
  BY RowListIs
<1> DEFINE s == RowList(rk, k)
<1> HIDE DEF s
<1>2. s \in Seq(1 .. Len(rk)) /\ \A p \in 1 .. Len(s) : rk[s[p]] = k
  BY <1>1 DEF s
<1>3. Len(s) = 0
  <2> SUFFICES ASSUME Len(s) # 0 PROVE FALSE
    OBVIOUS
  <2>1. 1 \in 1 .. Len(s) /\ s[1] \in 1 .. Len(rk)
    BY <1>2
  <2> QED BY <1>2, <2>1
<1> QED
  BY <1>2, <1>3 DEF s

-----------------------------------------------------------------------------
(* Some entries, as triples of a kind of place, a number and the entry,    *)
(* hold the rows rk: an entry per key, with the key's rows in their order. *)
Content(E, rk) ==
  /\ \A x \in E : /\ x[3].key \in Keys /\ x[3].values = RowList(rk, x[3].key)
                  /\ \E i \in 1 .. Len(rk) : rk[i] = x[3].key
  /\ \A x, y \in E : x[3].key = y[3].key => x = y
  /\ \A i \in 1 .. Len(rk) : rk[i] # Null => \E x \in E : x[3].key = rk[i]

(* Every row in exactly one entry, of its key. *)
RowsOnce(E, rk) ==
  /\ \A e \in E : \A p \in DOMAIN e[3].values :
       e[3].values[p] \in 1 .. Len(rk) /\ rk[e[3].values[p]] = e[3].key
  /\ \A i \in 1 .. Len(rk) : rk[i] # Null =>
       \E e \in E : \E p \in DOMAIN e[3].values :
         /\ e[3].values[p] = i
         /\ \A f \in E : \A q \in DOMAIN f[3].values : f[3].values[q] = i => f = e /\ q = p

(* Entries with the rows of their keys hold every row exactly once. *)
LEMMA ContentRows ==
  ASSUME NEW rk \in Seq(Values), NEW E, Content(E, rk)
  PROVE  RowsOnce(E, rk)
<1>1. ASSUME NEW e \in E
      PROVE  /\ e[3].values = RowList(rk, e[3].key) /\ DOMAIN e[3].values = 1 .. Len(RowList(rk, e[3].key))
             /\ \A p \in DOMAIN e[3].values :
                  e[3].values[p] \in 1 .. Len(rk) /\ rk[e[3].values[p]] = e[3].key
  <2> DEFINE s == RowList(rk, e[3].key)
  <2>1. s \in Seq(1 .. Len(rk)) /\ \A p \in 1 .. Len(s) : rk[s[p]] = e[3].key
    BY RowListIs
  <2>2. e[3].values = s
    BY DEF Content
  <2> HIDE DEF s
  <2> QED BY <2>1, <2>2 DEF s
<1>2. ASSUME NEW i \in 1 .. Len(rk), rk[i] # Null
      PROVE  \E e \in E : \E p \in DOMAIN e[3].values :
               /\ e[3].values[p] = i
               /\ \A f \in E : \A q \in DOMAIN f[3].values : f[3].values[q] = i => f = e /\ q = p
  <2>1. PICK e \in E : e[3].key = rk[i]
    BY <1>2 DEF Content
  <2>2. PICK p \in DOMAIN e[3].values : e[3].values[p] = i
    BY <1>1, <2>1, RowListIs
  <2>3. ASSUME NEW f \in E, NEW q \in DOMAIN f[3].values, f[3].values[q] = i PROVE f = e /\ q = p
    <3>1. f[3].key = e[3].key
      BY <1>1, <2>1, <2>3
    <3>2. f = e
      BY <3>1 DEF Content
    <3>3. p \in 1 .. Len(RowList(rk, e[3].key)) /\ q \in 1 .. Len(RowList(rk, e[3].key))
      BY <1>1, <3>2
    <3>4. RowList(rk, e[3].key)[p] = RowList(rk, e[3].key)[q]
      BY <1>1, <2>2, <2>3, <3>2
    <3>5. p = q
      BY <3>3, <3>4, RowListIs
    <3> QED BY <3>2, <3>5
  <2> QED BY <2>2, <2>3
<1> QED
  BY <1>1, <1>2 DEF RowsOnce

(* The same entries at other places. *)
LEMMA ContentMoved ==
  ASSUME NEW rk, NEW E, NEW F, Content(E, rk),
         \A y \in F : \E x \in E : x[3].key = y[3].key /\ x[3].values = y[3].values,
         \A x \in E : \E y \in F : x[3].key = y[3].key,
         \A y, z \in F : y[3].key = z[3].key => y = z
  PROVE  Content(F, rk)
<1>1. ASSUME NEW y \in F
      PROVE  /\ y[3].key \in Keys /\ y[3].values = RowList(rk, y[3].key)
             /\ \E i \in 1 .. Len(rk) : rk[i] = y[3].key
  <2>1. PICK x \in E : x[3].key = y[3].key /\ x[3].values = y[3].values
    OBVIOUS
  <2> QED BY <2>1 DEF Content
<1>2. ASSUME NEW i \in 1 .. Len(rk), rk[i] # Null PROVE \E y \in F : y[3].key = rk[i]
  <2>1. PICK x \in E : x[3].key = rk[i]
    BY <1>2 DEF Content
  <2> QED BY <2>1
<1> QED
  BY <1>1, <1>2 DEF Content

(* A NULL is not inserted. *)
LEMMA ContentNull ==
  ASSUME NEW rk \in Seq(Values), NEW E, Content(E, rk), Null \notin Keys
  PROVE  Content(E, Append(rk, Null))
<1> DEFINE r == Append(rk, Null)
<1>1. Null \in Values
  BY DEF Values
<1>2. Len(r) = Len(rk) + 1 /\ r[Len(rk) + 1] = Null /\ Len(rk) \in Nat /\ \A i \in 1 .. Len(rk) : r[i] = rk[i]
  BY <1>1
<1>3. \A k \in Keys : RowList(r, k) = RowList(rk, k)
  <2> TAKE k \in Keys
  <2>1. Null # k
    OBVIOUS
  <2> QED BY <1>1, <2>1, RowListAppend
<1> HIDE DEF r
<1>4. \A i \in 1 .. Len(r) : i \in 1 .. Len(rk) \/ i = Len(rk) + 1
  BY <1>2
<1>5. \A i \in 1 .. Len(rk) : i \in 1 .. Len(r)
  BY <1>2
<1>6. ASSUME NEW x \in E
      PROVE  /\ x[3].key \in Keys /\ x[3].values = RowList(r, x[3].key)
             /\ \E i \in 1 .. Len(r) : r[i] = x[3].key
  <2>1. PICK i \in 1 .. Len(rk) : rk[i] = x[3].key
    BY DEF Content
  <2>2. r[i] = x[3].key /\ i \in 1 .. Len(r)
    BY <1>2, <1>5, <2>1
  <2>3. x[3].key \in Keys /\ x[3].values = RowList(rk, x[3].key)
    BY DEF Content
  <2> QED BY <1>3, <2>2, <2>3
<1>7. \A x, y \in E : x[3].key = y[3].key => x = y
  BY DEF Content
<1>8. \A i \in 1 .. Len(r) : r[i] # Null => \E x \in E : x[3].key = r[i]
  BY <1>2, <1>4 DEF Content
<1> QED
  BY <1>6, <1>7, <1>8 DEF Content, r

(* A row of a key that has no entry yet. *)
LEMMA ContentNew ==
  ASSUME NEW rk \in Seq(Values), NEW E, Content(E, rk), NEW k \in Keys,
         \A x \in E : x[3].key # k,
         NEW new, new[3].key = k, new[3].values = <<Len(rk) + 1>>, Null \notin Keys
  PROVE  Content(E \cup {new}, Append(rk, k))
<1> DEFINE r == Append(rk, k)
<1>1. k \in Values
  BY DEF Values
<1>2. Len(r) = Len(rk) + 1 /\ r[Len(rk) + 1] = k /\ Len(rk) \in Nat /\ \A i \in 1 .. Len(rk) : r[i] = rk[i]
  BY <1>1
<1>3. \A l : RowList(r, l) = IF k = l THEN Append(RowList(rk, l), Len(rk) + 1) ELSE RowList(rk, l)
  BY <1>1, RowListAppend
<1>4. RowList(rk, k) = <<>>
  <2>1. ASSUME NEW i \in 1 .. Len(rk), rk[i] = k PROVE FALSE
    <3>1. rk[i] # Null
      BY <2>1
    <3> QED BY <2>1, <3>1 DEF Content
  <2> QED BY <2>1, RowListNone
<1>5. RowList(r, k) = <<Len(rk) + 1>>
  <2>1. RowList(r, k) = Append(<<>>, Len(rk) + 1)
    BY <1>3, <1>4
  <2> HIDE DEF r
  <2> QED BY <2>1
<1> HIDE DEF r
<1>6. \A i \in 1 .. Len(r) : i \in 1 .. Len(rk) \/ i = Len(rk) + 1
  BY <1>2
<1>7. (\A i \in 1 .. Len(rk) : i \in 1 .. Len(r)) /\ Len(rk) + 1 \in 1 .. Len(r)
  BY <1>2
<1>8. ASSUME NEW x \in E \cup {new}
      PROVE  /\ x[3].key \in Keys /\ x[3].values = RowList(r, x[3].key)
             /\ \E i \in 1 .. Len(r) : r[i] = x[3].key
  <2>1. CASE x = new
    BY <1>2, <1>5, <1>7, <2>1
  <2>2. CASE x \in E
    <3>1. x[3].key \in Keys /\ x[3].values = RowList(rk, x[3].key) /\ x[3].key # k
      BY <2>2 DEF Content
    <3>2. PICK i \in 1 .. Len(rk) : rk[i] = x[3].key
      BY <2>2 DEF Content
    <3>3. r[i] = x[3].key /\ i \in 1 .. Len(r)
      BY <1>2, <1>7, <3>2
    <3> QED BY <1>3, <3>1, <3>3
  <2> QED BY <2>1, <2>2
<1>9. \A x, y \in E \cup {new} : x[3].key = y[3].key => x = y
  BY DEF Content
<1>10. \A i \in 1 .. Len(r) : r[i] # Null => \E x \in E \cup {new} : x[3].key = r[i]
  BY <1>2, <1>6 DEF Content
<1> QED
  BY <1>8, <1>9, <1>10 DEF Content, r

(* A row of a key that has an entry: it is appended to the entry's rows.   *)
LEMMA ContentMore ==
  ASSUME NEW rk \in Seq(Values), NEW E, Content(E, rk), NEW x \in E, NEW y,
         y[3].key = x[3].key, y[3].values = x[3].values \o <<Len(rk) + 1>>
  PROVE  Content((E \ {x}) \cup {y}, Append(rk, x[3].key))
<1> DEFINE k == x[3].key
           r == Append(rk, k)
           F == (E \ {x}) \cup {y}
<1>1. k \in Values /\ k \in Keys
  BY DEF Values, Content
<1>2. Len(r) = Len(rk) + 1 /\ r[Len(rk) + 1] = k /\ Len(rk) \in Nat /\ \A i \in 1 .. Len(rk) : r[i] = rk[i]
  BY <1>1
<1>3. \A l : RowList(r, l) = IF k = l THEN Append(RowList(rk, l), Len(rk) + 1) ELSE RowList(rk, l)
  BY <1>1, RowListAppend
<1>4. y[3].values = RowList(r, k)
  <2>1. RowList(rk, k) \in Seq(1 .. Len(rk))
    BY RowListIs
  <2>2. x[3].values = RowList(rk, k)
    BY DEF Content
  <2>3. RowList(rk, k) \o <<Len(rk) + 1>> = Append(RowList(rk, k), Len(rk) + 1)
    BY <2>1
  <2> QED BY <1>3, <2>2, <2>3
<1>5. \A z \in E : z # x => z[3].key # k
  BY DEF Content
<1> HIDE DEF r
<1>6. \A i \in 1 .. Len(r) : i \in 1 .. Len(rk) \/ i = Len(rk) + 1
  BY <1>2
<1>7. (\A i \in 1 .. Len(rk) : i \in 1 .. Len(r)) /\ Len(rk) + 1 \in 1 .. Len(r)
  BY <1>2
<1>8. ASSUME NEW z \in F
      PROVE  /\ z[3].key \in Keys /\ z[3].values = RowList(r, z[3].key)
             /\ \E i \in 1 .. Len(r) : r[i] = z[3].key
  <2>1. CASE z = y
    BY <1>1, <1>2, <1>4, <1>7, <2>1
  <2>2. CASE z \in E /\ z # x
    <3>1. z[3].key \in Keys /\ z[3].values = RowList(rk, z[3].key) /\ z[3].key # k
      BY <1>5, <2>2 DEF Content
    <3>2. PICK i \in 1 .. Len(rk) : rk[i] = z[3].key
      BY <2>2 DEF Content
    <3>3. r[i] = z[3].key /\ i \in 1 .. Len(r)
      BY <1>2, <1>7, <3>2
    <3> QED BY <1>3, <3>1, <3>3
  <2> QED BY <2>1, <2>2
<1>9. \A z, w \in F : z[3].key = w[3].key => z = w
  BY <1>5 DEF Content
<1>10. ASSUME NEW i \in 1 .. Len(r), r[i] # Null PROVE \E z \in F : z[3].key = r[i]
  <2>1. CASE r[i] = k
    BY <2>1
  <2>2. CASE r[i] # k
    <3>1. i \in 1 .. Len(rk) /\ r[i] = rk[i]
      BY <1>2, <1>6, <2>2
    <3>2. PICK z \in E : z[3].key = rk[i]
      BY <1>10, <3>1 DEF Content
    <3> QED BY <2>2, <3>1, <3>2
  <2> QED BY <2>1, <2>2
<1> QED
  BY <1>8, <1>9, <1>10 DEF Content, r

(* Entries are no more than rows. *)
LEMMA ContentCount ==
  ASSUME NEW rk \in Seq(Values), NEW E, Content(E, rk),
         NEW S, NEW tag, NEW slots, \A i \in S : <<tag, i, slots[i]>> \in E
  PROVE  IsFiniteSet(S) /\ Cardinality(S) \in Nat /\ Cardinality(S) <= Len(rk)
<1> DEFINE f == [i \in S |-> CHOOSE r \in 1 .. Len(rk) : rk[r] = slots[i].key]
<1>1. ASSUME NEW i \in S PROVE f[i] \in 1 .. Len(rk) /\ rk[f[i]] = slots[i].key
  <2>1. <<tag, i, slots[i]>>[3] = slots[i]
    OBVIOUS
  <2>2. \E r \in 1 .. Len(rk) : rk[r] = slots[i].key
    BY <2>1 DEF Content
  <2> QED BY <2>2
<1>2. ASSUME NEW i \in S, NEW j \in S, f[i] = f[j] PROVE i = j
  <2>1. slots[i].key = slots[j].key
    BY <1>1, <1>2
  <2>2. <<tag, i, slots[i]>> = <<tag, j, slots[j]>>
    BY <2>1 DEF Content
  <2> QED BY <2>2
<1>3. f \in [S -> 1 .. Len(rk)]
  BY <1>1
<1> HIDE DEF f
<1>4. f \in Injection(S, 1 .. Len(rk))
  BY <1>2, <1>3 DEF Injection, IsInjective
<1>5. IsFiniteSet(1 .. Len(rk)) /\ Cardinality(1 .. Len(rk)) = Len(rk) /\ Len(rk) \in Nat
  <2>1. \A n \in Nat : IsFiniteSet(1 .. n) /\ Cardinality(1 .. n) = n
    BY FS_Interval
  <2>2. Len(rk) \in Nat
    OBVIOUS
  <2> QED BY <2>1, <2>2
<1> QED
  BY <1>4, <1>5, FS_Injection, FS_CardinalityType

-----------------------------------------------------------------------------
(* Walks around a table of N slots.                                        *)
LEMMA Wraps ==
  ASSUME NEW N \in Nat \ {0}, NEW x \in 0 .. 2 * N - 1
  PROVE  x % N = (IF x < N THEN x ELSE x - N) /\ x % N \in 0 .. N - 1
<1> x \in Nat /\ x < 2 * N
  OBVIOUS
<1>1. CASE x < N
  <2>1. x \div N \in Nat /\ x % N \in 0 .. N - 1 /\ x = N * (x \div N) + (x % N)
    BY DivMod
  <2>2. x \div N = 0
    <3> SUFFICES ASSUME x \div N >= 1 PROVE FALSE
      BY <2>1
    <3>1. 1 * N <= (x \div N) * N
      BY <2>1, TimesMonotonic
    <3>2. N * (x \div N) = (x \div N) * N
      BY <2>1
    <3> QED BY <1>1, <2>1, <3>1, <3>2
  <2> QED BY <1>1, <2>1, <2>2
<1>2. CASE x >= N
  <2>1. x \div N \in Nat /\ x % N \in 0 .. N - 1 /\ x = N * (x \div N) + (x % N)
    BY DivMod
  <2>2. x \div N # 0
    BY <1>2, <2>1
  <2>3. ~(x \div N >= 2)
    <3> SUFFICES ASSUME x \div N >= 2 PROVE FALSE
      OBVIOUS
    <3>1. 2 * N <= (x \div N) * N
      BY <2>1, TimesMonotonic
    <3>2. N * (x \div N) = (x \div N) * N
      BY <2>1
    <3> QED BY <2>1, <3>1, <3>2
  <2>4. x \div N = 1
    BY <2>1, <2>2, <2>3
  <2> QED BY <1>2, <2>1, <2>4
<1> QED
  BY <1>1, <1>2

(* A home is a slot of the table. *)
LEMMA HomeInTable ==
  ASSUME NEW N \in Nat \ {0}, NEW f \in [Keys -> Nat], NEW k \in Keys
  PROVE  f[k] % N \in 0 .. N - 1
<1>1. f[k] \in Nat
  OBVIOUS
<1> QED
  BY <1>1, DivMod

(* The slot d after h. *)
Place(N, h, d) == (h + d) % N

(* A walk wraps around once and meets every slot exactly once. *)
LEMMA PlaceIs ==
  ASSUME NEW N \in Nat \ {0}, NEW h \in 0 .. N - 1
  PROVE  /\ \A d \in 0 .. N - 1 : Place(N, h, d) = (IF h + d < N THEN h + d ELSE h + d - N)
         /\ \A d \in 0 .. N - 1 : Place(N, h, d) \in 0 .. N - 1
         /\ Place(N, h, 0) = h
         /\ \A d, e \in 0 .. N - 1 : Place(N, h, d) = Place(N, h, e) => d = e
         /\ \A i \in 0 .. N - 1 : \E d \in 0 .. N - 1 : Place(N, h, d) = i
         /\ \A d \in 0 .. N - 2 : Place(N, h, d + 1) = (Place(N, h, d) + 1) % N
<1>1. ASSUME NEW d \in 0 .. N - 1
      PROVE  Place(N, h, d) = (IF h + d < N THEN h + d ELSE h + d - N) /\ Place(N, h, d) \in 0 .. N - 1
  <2> DEFINE x == h + d
  <2>1. x \in 0 .. 2 * N - 1 /\ Place(N, h, d) = x % N
    BY DEF Place
  <2> HIDE DEF x
  <2>2. x % N = (IF x < N THEN x ELSE x - N) /\ x % N \in 0 .. N - 1
    BY <2>1, Wraps
  <2> QED BY <2>1, <2>2 DEF x
<1>2. Place(N, h, 0) = h
  BY <1>1
<1>3. \A d, e \in 0 .. N - 1 : Place(N, h, d) = Place(N, h, e) => d = e
  BY <1>1
<1>4. ASSUME NEW i \in 0 .. N - 1 PROVE \E d \in 0 .. N - 1 : Place(N, h, d) = i
  <2>1. CASE i >= h
    <3>1. i - h \in 0 .. N - 1 /\ Place(N, h, i - h) = i
      BY <1>1, <2>1
    <3> QED BY <3>1
  <2>2. CASE i < h
    <3>1. i + N - h \in 0 .. N - 1 /\ Place(N, h, i + N - h) = i
      BY <1>1, <2>2
    <3> QED BY <3>1
  <2> QED BY <2>1, <2>2
<1>5. ASSUME NEW d \in 0 .. N - 2 PROVE Place(N, h, d + 1) = (Place(N, h, d) + 1) % N
  <2>1. d \in 0 .. N - 1 /\ d + 1 \in 0 .. N - 1
    OBVIOUS
  <2>2. Place(N, h, d) + 1 \in 0 .. 2 * N - 1
    BY <1>1, <2>1
  <2> DEFINE x == Place(N, h, d) + 1
  <2> HIDE DEF x
  <2>3. x % N = IF x < N THEN x ELSE x - N
    BY <2>2, Wraps DEF x
  <2> QED BY <1>1, <2>1, <2>3 DEF x
<1> QED
  BY <1>1, <1>2, <1>3, <1>4, <1>5

-----------------------------------------------------------------------------
(* Robin-hood tables.                                                      *)
HomeOf(N, k) == Hash1[k] % N
(* The slot at distance d from the home of k. *)
PlaceOf(N, k, d) == Place(N, HomeOf(N, k), d)

(* The slots a walk from the home of k passes before distance p. *)
Passed(N, s, k, p) ==
  \A d \in 0 .. p - 1 : s[PlaceOf(N, k, d)] # None /\ s[PlaceOf(N, k, d)].psl >= d

(* Where an entry is, or insert with the entry in its hand. *)
Reached(N, s, e, i) ==
  /\ e \in RH!EntrySet /\ e.psl \in 0 .. N - 1
  /\ i = PlaceOf(N, e.key, e.psl) /\ Passed(N, s, e.key, e.psl)

(* Every entry is where a walk from its home reaches it. *)
RHSlots(N, s) ==
  /\ N \in Nat \ {0} /\ s \in [0 .. N - 1 -> RH!EntrySet \cup {None}]
  /\ \A i \in 0 .. N - 1 : s[i] # None => Reached(N, s, s[i], i)

(* The slots that hold an entry. *)
Filled(N, s) == {i \in 0 .. N - 1 : s[i] # None}

(* The entries of an array of slots, with their places. *)
InSlots(tag, N, s) == {<<tag, i, s[i]>> : i \in {j \in 0 .. N - 1 : s[j] # None}}

(* The walk from the home of a key. *)
LEMMA RHPlaces ==
  ASSUME NEW N \in Nat \ {0}, NEW k \in Keys
  PROVE  /\ HomeOf(N, k) \in 0 .. N - 1
         /\ \A d \in 0 .. N - 1 : PlaceOf(N, k, d) \in 0 .. N - 1
         /\ PlaceOf(N, k, 0) = HomeOf(N, k)
         /\ \A d, e \in 0 .. N - 1 : PlaceOf(N, k, d) = PlaceOf(N, k, e) => d = e
         /\ \A i \in 0 .. N - 1 : \E d \in 0 .. N - 1 : PlaceOf(N, k, d) = i
         /\ \A d \in 0 .. N - 2 : PlaceOf(N, k, d + 1) = (PlaceOf(N, k, d) + 1) % N
<1>1. HomeOf(N, k) \in 0 .. N - 1
  BY HashAssumption, HomeInTable DEF HomeOf
<1> QED
  <2> DEFINE h == HomeOf(N, k)
  <2>1. \A d : PlaceOf(N, k, d) = Place(N, h, d)
    BY DEF PlaceOf
  <2>2. h \in 0 .. N - 1
    BY <1>1
  <2> HIDE DEF h
  <2>3. /\ \A d \in 0 .. N - 1 : Place(N, h, d) = (IF h + d < N THEN h + d ELSE h + d - N)
        /\ \A d \in 0 .. N - 1 : Place(N, h, d) \in 0 .. N - 1
        /\ Place(N, h, 0) = h
        /\ \A d, e \in 0 .. N - 1 : Place(N, h, d) = Place(N, h, e) => d = e
        /\ \A i \in 0 .. N - 1 : \E d \in 0 .. N - 1 : Place(N, h, d) = i
        /\ \A d \in 0 .. N - 2 : Place(N, h, d + 1) = (Place(N, h, d) + 1) % N
    BY <2>2, PlaceIs, Zenon
  <2> QED BY <2>1, <2>2, <2>3 DEF h

(* The walk meets slots only, and each of them once. *)
LEMMA PlacesApart ==
  ASSUME NEW N \in Nat \ {0}, NEW k \in Keys
  PROVE  /\ \A d \in 0 .. N - 1 : PlaceOf(N, k, d) \in 0 .. N - 1
         /\ \A d, d2 \in 0 .. N - 1 : PlaceOf(N, k, d) = PlaceOf(N, k, d2) => d = d2
<1>1. \A d \in 0 .. N - 1 : PlaceOf(N, k, d) \in 0 .. N - 1
  BY RHPlaces, Zenon
<1>2. \A d, d2 \in 0 .. N - 1 : PlaceOf(N, k, d) = PlaceOf(N, k, d2) => d = d2
  BY RHPlaces, Zenon
<1> QED
  BY <1>1, <1>2

(* A walk over occupied slots ends before it comes round. *)
LEMMA WalksEnd ==
  ASSUME NEW N \in Nat \ {0}, NEW s, NEW k \in Keys, NEW v \in 0 .. N - 1, s[v] = None,
         NEW p \in 0 .. N - 1, \A d \in 0 .. p : s[PlaceOf(N, k, d)] # None
  PROVE  p + 1 \in 0 .. N - 1
<1>1. PICK d \in 0 .. N - 1 : PlaceOf(N, k, d) = v
  BY RHPlaces
<1>2. ~(d \in 0 .. p)
  BY <1>1
<1> QED
  BY <1>2

(* A table that is at most half full has a vacant slot. *)
LEMMA HalfHasVacancy ==
  ASSUME NEW N \in Nat \ {0}, NEW s, IsFiniteSet(Filled(N, s)), 2 * Cardinality(Filled(N, s)) <= N
  PROVE  \E v \in 0 .. N - 1 : s[v] = None
<1> SUFFICES ASSUME \A v \in 0 .. N - 1 : s[v] # None PROVE FALSE
  OBVIOUS
<1>1. Filled(N, s) = 0 .. N - 1
  BY DEF Filled
<1>2. Cardinality(0 .. N - 1) = N
  BY FS_Interval
<1> QED
  BY <1>1, <1>2

(* Slots that only get fuller: walks over them stay walks. *)
Fuller(N, s, t) ==
  \A i \in 0 .. N - 1 : s[i] # None => t[i] # None /\ t[i].psl >= s[i].psl

(* What a walk has passed it still passes when slots get fuller. *)
LEMMA PassedFuller ==
  ASSUME NEW N \in Nat \ {0}, NEW s, NEW t, Fuller(N, s, t), NEW k \in Keys, NEW p \in 0 .. N,
         Passed(N, s, k, p), \A i \in 0 .. N - 1 : s[i] # None => s[i].psl \in Nat,
         \A i \in 0 .. N - 1 : t[i] # None => t[i].psl \in Nat
  PROVE  Passed(N, t, k, p)
<1> SUFFICES ASSUME NEW d \in 0 .. p - 1
             PROVE  t[PlaceOf(N, k, d)] # None /\ t[PlaceOf(N, k, d)].psl >= d
  BY DEF Passed
<1> DEFINE i == PlaceOf(N, k, d)
<1>1. i \in 0 .. N - 1
  BY RHPlaces
<1>2. s[i] # None /\ s[i].psl >= d
  BY DEF Passed
<1> HIDE DEF i
<1>3. t[i] # None /\ t[i].psl >= s[i].psl /\ s[i].psl \in Nat /\ t[i].psl \in Nat
  BY <1>1, <1>2 DEF Fuller
<1> QED
  BY <1>2, <1>3 DEF i

(* An entry that has reached a slot and is put there. *)
LEMMA RHPut ==
  ASSUME NEW N, NEW s, RHSlots(N, s), NEW e, NEW i \in 0 .. N - 1, Reached(N, s, e, i),
         s[i] # None => e.psl > s[i].psl
  PROVE  LET t == [s EXCEPT ![i] = e]
         IN  /\ RHSlots(N, t) /\ Fuller(N, s, t) /\ t[i] = e
             /\ \A j \in 0 .. N - 1 : j # i => t[j] = s[j]
             /\ \A j \in 0 .. N - 1 : \A x : Reached(N, s, x, j) => Reached(N, t, x, j)
<1> DEFINE t == [s EXCEPT ![i] = e]
<1>1. N \in Nat \ {0} /\ s \in [0 .. N - 1 -> RH!EntrySet \cup {None}] /\ e \in RH!EntrySet
  BY DEF RHSlots, Reached
<1>2. e # None /\ e.psl \in Nat /\ \A x \in RH!EntrySet : x.psl \in Nat /\ x.key \in Keys
  BY <1>1, NoneAssumption DEF RH!EntrySet
<1>3. t \in [0 .. N - 1 -> RH!EntrySet \cup {None}] /\ t[i] = e /\ \A j \in 0 .. N - 1 : j # i => t[j] = s[j]
  BY <1>1
<1> HIDE DEF t
<1>4. Fuller(N, s, t)
  BY <1>1, <1>2, <1>3 DEF Fuller
<1>5. \A j \in 0 .. N - 1 : (s[j] # None => s[j].psl \in Nat) /\ (t[j] # None => t[j].psl \in Nat)
  BY <1>1, <1>2, <1>3
<1>6. ASSUME NEW j \in 0 .. N - 1, NEW x, Reached(N, s, x, j) PROVE Reached(N, t, x, j)
  <2>1. x \in RH!EntrySet /\ x.psl \in 0 .. N - 1 /\ x.key \in Keys /\ Passed(N, s, x.key, x.psl) /\ j = PlaceOf(N, x.key, x.psl)
    BY <1>2, <1>6 DEF Reached
  <2>2. x.psl \in 0 .. N
    BY <1>1, <2>1
  <2>3. Passed(N, t, x.key, x.psl)
    BY <1>1, <1>4, <1>5, <2>1, <2>2, PassedFuller
  <2> QED BY <2>1, <2>3 DEF Reached
<1>7. ASSUME NEW j \in 0 .. N - 1, t[j] # None PROVE Reached(N, t, t[j], j)
  <2>1. CASE j = i
    BY <1>3, <1>6, <2>1
  <2>2. CASE j # i
    <3>1. t[j] = s[j] /\ s[j] # None
      BY <1>3, <1>7, <2>2
    <3>2. Reached(N, s, s[j], j)
      BY <3>1 DEF RHSlots
    <3> QED BY <1>6, <3>1, <3>2
  <2> QED BY <2>1, <2>2
<1>8. RHSlots(N, t)
  BY <1>1, <1>3, <1>7 DEF RHSlots
<1> QED
  BY <1>3, <1>4, <1>6, <1>8 DEF t

(* An entry in a slot, or passing a slot that is no closer to its home,    *)
(* goes on to the next slot.                                               *)
LEMMA RHGoOn ==
  ASSUME NEW N, NEW s, RHSlots(N, s), NEW e, NEW i \in 0 .. N - 1, Reached(N, s, e, i),
         s[i] # None, s[i].psl >= e.psl, NEW v \in 0 .. N - 1, s[v] = None
  PROVE  Reached(N, s, [e EXCEPT !.psl = @ + 1], (i + 1) % N)
<1> DEFINE f == [e EXCEPT !.psl = @ + 1]
<1>1. N \in Nat \ {0} /\ e \in RH!EntrySet /\ e.psl \in 0 .. N - 1 /\ i = PlaceOf(N, e.key, e.psl)
      /\ Passed(N, s, e.key, e.psl)
  BY DEF RHSlots, Reached
<1>2. e.key \in Keys /\ e.psl \in Nat /\ f \in RH!EntrySet /\ f.key = e.key /\ f.psl = e.psl + 1
  BY <1>1 DEF RH!EntrySet
<1> HIDE DEF f
<1>3. ASSUME NEW d \in 0 .. e.psl
      PROVE  s[PlaceOf(N, e.key, d)] # None /\ s[PlaceOf(N, e.key, d)].psl >= d
  <2>1. CASE d = e.psl
    BY <1>1, <2>1
  <2>2. CASE d # e.psl
    <3>1. d \in 0 .. e.psl - 1
      BY <1>2, <2>2
    <3> QED BY <1>1, <3>1 DEF Passed
  <2> QED BY <2>1, <2>2
<1>4. e.psl + 1 \in 0 .. N - 1
  BY <1>1, <1>2, <1>3, WalksEnd
<1>5. Passed(N, s, e.key, e.psl + 1)
  <2>1. 0 .. (e.psl + 1) - 1 = 0 .. e.psl
    BY <1>2
  <2> QED BY <1>3, <2>1 DEF Passed
<1>6. PlaceOf(N, e.key, e.psl + 1) = (i + 1) % N
  <2>1. e.psl \in 0 .. N - 2
    BY <1>1, <1>4
  <2> QED BY <1>1, <1>2, <2>1, RHPlaces
<1> QED
  BY <1>2, <1>4, <1>5, <1>6 DEF Reached, f

(* A walk for k that has met neither k nor, now, a slot it has to go on    *)
(* from: k has no entry.                                                   *)
LEMMA RHAbsent ==
  ASSUME NEW N, NEW s, RHSlots(N, s), NEW k \in Keys, NEW p \in 0 .. N - 1,
         \A d \in 0 .. p - 1 : s[PlaceOf(N, k, d)].key # k,
         \/ s[PlaceOf(N, k, p)] = None
         \/ s[PlaceOf(N, k, p)] # None /\ s[PlaceOf(N, k, p)].key # k /\ s[PlaceOf(N, k, p)].psl < p
  PROVE  \A i \in 0 .. N - 1 : s[i] # None => s[i].key # k
<1> SUFFICES ASSUME NEW i \in 0 .. N - 1, s[i] # None, s[i].key = k PROVE FALSE
  OBVIOUS
<1>1. Reached(N, s, s[i], i)
  BY DEF RHSlots
<1>2. s[i].psl \in 0 .. N - 1 /\ i = PlaceOf(N, k, s[i].psl) /\ Passed(N, s, k, s[i].psl) /\ N \in Nat \ {0}
  BY <1>1 DEF Reached, RHSlots
<1>3. ~(s[i].psl \in 0 .. p - 1)
  BY <1>2
<1>4. s[i].psl # p
  <2> SUFFICES ASSUME s[i].psl = p PROVE FALSE
    OBVIOUS
  <2> QED BY <1>2
<1>5. p \in 0 .. s[i].psl - 1
  BY <1>2, <1>3, <1>4
<1>6. s[PlaceOf(N, k, p)] # None /\ s[PlaceOf(N, k, p)].psl >= p
  BY <1>2, <1>5 DEF Passed
<1>7. PlaceOf(N, k, p) \in 0 .. N - 1
  BY <1>2, RHPlaces
<1>8. s[PlaceOf(N, k, p)].psl \in 0 .. N - 1
  BY <1>6, <1>7 DEF RHSlots, Reached
<1> QED
  BY <1>6, <1>8

(* The key is behind a slot that its walk has reached. *)
Behind(N, s, k, i) ==
  \E T \in 0 .. N - 1 :
    /\ i = PlaceOf(N, k, T) /\ \A d \in 0 .. T - 1 : s[PlaceOf(N, k, d)] # None
    /\ \E D \in 0 .. T - 1 : s[PlaceOf(N, k, D)].key = k

(* A key stays behind the slot that a walk goes on to. *)
LEMMA BehindNext ==
  ASSUME NEW N \in Nat \ {0}, NEW k \in Keys, NEW t, NEW v \in 0 .. N - 1, t[v] = None,
         NEW T \in 0 .. N - 1, \A d \in 0 .. T : t[PlaceOf(N, k, d)] # None,
         NEW D \in 0 .. T, t[PlaceOf(N, k, D)].key = k
  PROVE  Behind(N, t, k, (PlaceOf(N, k, T) + 1) % N)
<1>1. T + 1 \in 0 .. N - 1
  BY WalksEnd
<1>2. T \in 0 .. N - 2
  BY <1>1
<1>3. PlaceOf(N, k, T + 1) = (PlaceOf(N, k, T) + 1) % N
  BY <1>2, RHPlaces
<1>4. 0 .. (T + 1) - 1 = 0 .. T
  OBVIOUS
<1> QED
  BY <1>1, <1>3, <1>4 DEF Behind

(* The entries of an array of slots, and the one in the hand of insert.    *)
At(tag, i, e) == <<tag, i, e>>

(* The entry that insert carries. *)
InHand(e) == <<"call", 0, e>>

(* The parts of an entry with its place. *)
LEMMA AtIs ==
  ASSUME NEW tag, NEW i, NEW e
  PROVE  /\ At(tag, i, e)[1] = tag /\ At(tag, i, e)[2] = i /\ At(tag, i, e)[3] = e
         /\ InHand(e)[1] = "call" /\ InHand(e)[3] = e
  BY DEF At, InHand

(* What is in the set of the entries of an array. *)
LEMMA InSlotsIs ==
  ASSUME NEW tag, NEW N, NEW s
  PROVE  /\ \A i \in 0 .. N - 1 : s[i] # None => At(tag, i, s[i]) \in InSlots(tag, N, s)
         /\ \A x \in InSlots(tag, N, s) : \E i \in 0 .. N - 1 : x = At(tag, i, s[i]) /\ s[i] # None
         /\ \A x \in InSlots(tag, N, s) : x[1] = tag /\ x[2] \in 0 .. N - 1 /\ x[3] # None /\ x[3] = s[x[2]] /\ x = At(tag, x[2], x[3])
         /\ \A i, e : At(tag, i, e)[1] = tag /\ At(tag, i, e)[2] = i /\ At(tag, i, e)[3] = e
  BY DEF InSlots, At

(* The set E with y in place of x. *)
Replaced(E, x, y) == (E \ {x}) \cup {y}

(* Writing a slot replaces its entry. *)
LEMMA InSlotsPut ==
  ASSUME NEW tag, NEW N \in Nat, NEW s, NEW i \in 0 .. N - 1, NEW e, e # None,
         NEW t, t[i] = e, \A j \in 0 .. N - 1 : j # i => t[j] = s[j]
  PROVE  InSlots(tag, N, t) = Replaced(InSlots(tag, N, s), At(tag, i, s[i]), At(tag, i, e))
<1>1. t[i] = e /\ \A j \in 0 .. N - 1 : j # i => t[j] = s[j]
  OBVIOUS
<1>2. ASSUME NEW x \in InSlots(tag, N, t) PROVE x \in (InSlots(tag, N, s) \ {At(tag, i, s[i])}) \cup {At(tag, i, e)}
  <2>1. PICK j \in 0 .. N - 1 : x = At(tag, j, t[j]) /\ t[j] # None
    BY <1>2, InSlotsIs
  <2>2. CASE j = i
    BY <1>1, <2>1, <2>2
  <2>3. CASE j # i
    <3>1. x = At(tag, j, s[j]) /\ s[j] # None
      BY <1>1, <2>1, <2>3
    <3>2. x \in InSlots(tag, N, s)
      BY <3>1, InSlotsIs
    <3>3. x # At(tag, i, s[i])
      BY <2>3, <3>1, InSlotsIs
    <3> QED BY <3>2, <3>3
  <2> QED BY <2>2, <2>3
<1>3. At(tag, i, e) \in InSlots(tag, N, t)
  BY <1>1, InSlotsIs
<1>4. ASSUME NEW x \in InSlots(tag, N, s), x # At(tag, i, s[i]) PROVE x \in InSlots(tag, N, t)
  <2>1. PICK j \in 0 .. N - 1 : x = At(tag, j, s[j]) /\ s[j] # None
    BY <1>4, InSlotsIs
  <2>2. j # i
    BY <1>4, <2>1
  <2>3. x = At(tag, j, t[j]) /\ t[j] # None
    BY <1>1, <2>1, <2>2
  <2> QED BY <2>3, InSlotsIs
<1> QED
  BY <1>2, <1>3, <1>4 DEF Replaced

-----------------------------------------------------------------------------
(* The robin-hood table, between two inserts, while the entry of the new   *)
(* row is carried, and while an entry it has displaced is.                 *)
Carries(N, s, c, rk) ==
  /\ c.current.key = c.key /\ c.current.values = c.values /\ c.values = <<Len(rk)>>
  /\ \E r0 \in Seq(Values) : rk = Append(r0, c.key) /\ Content(InSlots("slot", N, s), r0)
  /\ \A d \in 0 .. c.current.psl - 1 : s[PlaceOf(N, c.key, d)].key # c.key

(* An entry of another key is carried; the call's key is behind. *)
Displaced(N, s, c, rk) ==
  /\ c.current.key # c.key
  /\ Content(InSlots("slot", N, s) \cup {InHand(c.current)}, rk)
  /\ Behind(N, s, c.key, c.pos)

(* The invariant of a robin-hood table that holds the rows rk. *)
RHInv(N, s, c, rk) ==
  /\ RHSlots(N, s)
  /\ c = None => Content(InSlots("slot", N, s), rk)
  /\ c # None => /\ c \in RH!CallSet /\ c.pos \in 0 .. N - 1 /\ Reached(N, s, c.current, c.pos)
                 /\ Carries(N, s, c, rk) \/ Displaced(N, s, c, rk)

(* With a slot for every second row at most, there is a vacant slot. *)
LEMMA RHHalfEmpty ==
  ASSUME NEW N, NEW s, NEW c, NEW rk \in Seq(Values), RHInv(N, s, c, rk), 2 * Len(rk) <= N
  PROVE  /\ IsFiniteSet(Filled(N, s)) /\ 2 * Cardinality(Filled(N, s)) <= N
         /\ \E v \in 0 .. N - 1 : s[v] = None
<1> DEFINE S == Filled(N, s)
<1>1. N \in Nat \ {0} /\ \A i \in S : <<"slot", i, s[i]>> \in InSlots("slot", N, s)
  BY DEF RHInv, RHSlots, Filled, InSlots
<1> HIDE DEF S
<1>2. IsFiniteSet(S) /\ Cardinality(S) \in Nat /\ Cardinality(S) <= Len(rk)
  <2>1. CASE c = None
    <3>1. Content(InSlots("slot", N, s), rk)
      BY <2>1 DEF RHInv
    <3> QED BY <1>1, <3>1, ContentCount
  <2>2. CASE c # None /\ Carries(N, s, c, rk)
    <3>1. PICK r0 \in Seq(Values) : rk = Append(r0, c.key) /\ Content(InSlots("slot", N, s), r0)
      BY <2>2 DEF Carries
    <3>2. IsFiniteSet(S) /\ Cardinality(S) \in Nat /\ Cardinality(S) <= Len(r0)
      BY <1>1, <3>1, ContentCount
    <3>3. Len(rk) = Len(r0) + 1 /\ Len(r0) \in Nat
      BY <3>1
    <3> QED BY <3>2, <3>3
  <2>3. CASE c # None /\ Displaced(N, s, c, rk)
    <3> DEFINE E == InSlots("slot", N, s) \cup {InHand(c.current)}
    <3>1. Content(E, rk) /\ \A i \in S : <<"slot", i, s[i]>> \in E
      BY <1>1, <2>3 DEF Displaced
    <3> HIDE DEF E
    <3> QED BY <3>1, ContentCount
  <2> QED BY <2>1, <2>2, <2>3 DEF RHInv
<1>3. 2 * Cardinality(S) <= N
  <2>1. Len(rk) \in Nat
    OBVIOUS
  <2> QED BY <1>1, <1>2, <2>1
<1> QED
  BY <1>1, <1>2, <1>3, HalfHasVacancy DEF S

(* A row whose key is NULL changes nothing. *)
LEMMA RHNull ==
  ASSUME NEW N, NEW s, NEW rk \in Seq(Values), RHInv(N, s, None, rk)
  PROVE  RHInv(N, s, None, Append(rk, Null))
  BY ContentNull, NullAssumption DEF RHInv

(* An insert begins to carry its row. *)
LEMMA RHInsert ==
  ASSUME NEW N, NEW s, NEW r0 \in Seq(Values), RHInv(N, s, None, r0), NEW k \in Keys
  PROVE  RHInv(N, s, [key |-> k, values |-> <<Len(r0) + 1>>, pos |-> HomeOf(N, k),
                      current |-> [key |-> k, values |-> <<Len(r0) + 1>>, psl |-> 0]], Append(r0, k))
<1> DEFINE vs == <<Len(r0) + 1>>
           e == [key |-> k, values |-> vs, psl |-> 0]
           c == [key |-> k, values |-> vs, pos |-> HomeOf(N, k), current |-> e]
           rk == Append(r0, k)
<1>1. RHSlots(N, s) /\ N \in Nat \ {0} /\ Content(InSlots("slot", N, s), r0)
  BY DEF RHInv, RHSlots
<1>2. vs \in Seq(Nat) /\ Len(rk) = Len(r0) + 1 /\ rk = Append(r0, k)
  BY DEF Values
<1>3. HomeOf(N, k) \in 0 .. N - 1 /\ PlaceOf(N, k, 0) = HomeOf(N, k)
  BY <1>1, RHPlaces
<1>4. e \in RH!EntrySet /\ e.key = k /\ e.values = vs /\ e.psl = 0
  BY <1>2 DEF RH!EntrySet
<1> HIDE DEF e, vs, rk
<1>5. c \in RH!CallSet /\ c.key = k /\ c.values = vs /\ c.pos = HomeOf(N, k) /\ c.current = e
  BY <1>2, <1>3, <1>4 DEF RH!CallSet
<1> HIDE DEF c
<1>6. Reached(N, s, c.current, c.pos)
  BY <1>1, <1>3, <1>4, <1>5 DEF Reached, Passed
<1>7. Carries(N, s, c, rk)
  BY <1>1, <1>2, <1>4, <1>5 DEF Carries, vs
<1>8. c # None
  BY <1>5, NoneAssumption
<1>9. RHInv(N, s, c, rk)
  BY <1>1, <1>3, <1>5, <1>6, <1>7, <1>8 DEF RHInv
<1> QED
  BY <1>9 DEF c, e, vs, rk

(* The entry in hand takes a vacant slot. *)
LEMMA RHSettle ==
  ASSUME NEW N, NEW s, NEW c, NEW rk \in Seq(Values), RHInv(N, s, c, rk), c # None, s[c.pos] = None
  PROVE  RHInv(N, [s EXCEPT ![c.pos] = c.current], None, rk)
<1> DEFINE i == c.pos
           e == c.current
           t == [s EXCEPT ![i] = e]
           new == At("slot", i, e)
<1>1. /\ RHSlots(N, s) /\ i \in 0 .. N - 1 /\ Reached(N, s, e, i) /\ c.key \in Keys
      /\ s \in [0 .. N - 1 -> RH!EntrySet \cup {None}] /\ N \in Nat \ {0} /\ e \in RH!EntrySet /\ e # None
  BY NoneAssumption DEF RHInv, RHSlots, RH!CallSet
<1>2. RHSlots(N, t)
  BY <1>1, RHPut
<1>3. InSlots("slot", N, t) = (InSlots("slot", N, s) \ {At("slot", i, s[i])}) \cup {new}
  <2>1. t[i] = e /\ \A j \in 0 .. N - 1 : j # i => t[j] = s[j]
    BY <1>1
  <2>2. i \in 0 .. N - 1 /\ e # None /\ N \in Nat
    BY <1>1
  <2> HIDE DEF t, i, e
  <2>3. InSlots("slot", N, t) = Replaced(InSlots("slot", N, s), At("slot", i, s[i]), At("slot", i, e))
    BY <2>1, <2>2, InSlotsPut
  <2> QED BY <2>3 DEF Replaced
<1>4. InSlots("slot", N, t) = InSlots("slot", N, s) \cup {new}
  <2>1. At("slot", i, s[i]) \notin InSlots("slot", N, s)
    BY InSlotsIs
  <2> QED BY <1>3, <2>1
<1>5. Content(InSlots("slot", N, t), rk)
  <2>1. CASE Carries(N, s, c, rk)
    <3>1. PICK r0 \in Seq(Values) : rk = Append(r0, c.key) /\ Content(InSlots("slot", N, s), r0)
      BY <2>1 DEF Carries
    <3>2. e.key = c.key /\ e.values = <<Len(r0) + 1>> /\ i = PlaceOf(N, c.key, e.psl) /\ e.psl \in 0 .. N - 1
      BY <1>1, <2>1, <3>1 DEF Carries, Reached
    <3>3. \A j \in 0 .. N - 1 : s[j] # None => s[j].key # c.key
      <4>1. \A d \in 0 .. e.psl - 1 : s[PlaceOf(N, c.key, d)].key # c.key
        BY <2>1 DEF Carries
      <4>2. s[PlaceOf(N, c.key, e.psl)] = None
        BY <3>2
      <4> DEFINE p == e.psl
                 k == c.key
      <4>3. /\ RHSlots(N, s) /\ p \in 0 .. N - 1 /\ k \in Keys /\ s[PlaceOf(N, k, p)] = None
            /\ \A d \in 0 .. p - 1 : s[PlaceOf(N, k, d)].key # k
        BY <1>1, <3>2, <4>1, <4>2
      <4> HIDE DEF p, k
      <4>4. \A j \in 0 .. N - 1 : s[j] # None => s[j].key # k
        BY <4>3, RHAbsent
      <4> QED BY <4>4 DEF k
    <3>4. \A x \in InSlots("slot", N, s) : x[3].key # c.key
      BY <3>3, InSlotsIs
    <3>5. new[3].key = c.key /\ new[3].values = <<Len(r0) + 1>>
      <4> HIDE DEF e, i
      <4> QED BY <3>2, AtIs
    <3> HIDE DEF new, e, i
    <3>6. Content(InSlots("slot", N, s) \cup {new}, Append(r0, c.key))
      BY <1>1, <3>1, <3>4, <3>5, ContentNew, NullAssumption
    <3> QED BY <1>4, <3>1, <3>6
  <2>2. CASE Displaced(N, s, c, rk)
    <3> DEFINE old == InHand(e)
               E == InSlots("slot", N, s) \cup {old}
               F == InSlots("slot", N, s) \cup {new}
    <3>1. Content(E, rk)
      BY <2>2 DEF Displaced
    <3>2. old[1] = "call" /\ old[3] = e /\ new[3] = e
      <4> HIDE DEF e, i
      <4> QED BY AtIs
    <3>3. \A x \in InSlots("slot", N, s) : x[1] = "slot"
      BY InSlotsIs
    <3>4. old \notin InSlots("slot", N, s)
      BY <3>2, <3>3
    <3> HIDE DEF old, new
    <3>5. \A x \in InSlots("slot", N, s) : x[3].key # e.key
      BY <3>1, <3>2, <3>4 DEF Content
    <3>6. \A y \in F : \E x \in E : x[3].key = y[3].key /\ x[3].values = y[3].values
      BY <3>2
    <3>7. \A x \in E : \E y \in F : x[3].key = y[3].key
      BY <3>2
    <3>8. \A y, z \in F : y[3].key = z[3].key => y = z
      BY <3>1, <3>2, <3>5 DEF Content
    <3> HIDE DEF E, F
    <3>9. Content(F, rk)
      BY <3>1, <3>6, <3>7, <3>8, ContentMoved
    <3> QED BY <1>4, <3>9 DEF F
  <2> QED BY <2>1, <2>2 DEF RHInv
<1> QED
  BY <1>2, <1>5 DEF RHInv

(* Some entries, one of which has moved: an entry at x is at y now. *)
LEMMA ContentMove ==
  ASSUME NEW rk, NEW E, Content(E, rk), NEW x \in E, NEW y, x[3].key = y[3].key, x[3].values = y[3].values
  PROVE  Content((E \ {x}) \cup {y}, rk)
<1> DEFINE F == (E \ {x}) \cup {y}
<1>1. \A z \in E : z # x => z[3].key # y[3].key
  BY DEF Content
<1>2. \A z \in F : \E w \in E : w[3].key = z[3].key /\ w[3].values = z[3].values
  OBVIOUS
<1>3. \A w \in E : \E z \in F : w[3].key = z[3].key
  OBVIOUS
<1>4. \A z, w \in F : z[3].key = w[3].key => z = w
  BY <1>1 DEF Content
<1> HIDE DEF F
<1>5. Content(F, rk)
  BY <1>2, <1>3, <1>4, ContentMoved
<1> QED
  BY <1>5 DEF F

(* The key of the call is found: it has a new row. *)
LEMMA RHAppend ==
  ASSUME NEW N, NEW s, NEW c, NEW rk \in Seq(Values), RHInv(N, s, c, rk), 2 * Len(rk) <= N,
         c # None, s[c.pos] # None, s[c.pos].key = c.key
  PROVE  RHInv(N, [s EXCEPT ![c.pos].values = @ \o c.values], None, rk)
<1> DEFINE i == c.pos
           e == s[i]
           f == [e EXCEPT !.values = @ \o c.values]
           t == [s EXCEPT ![i] = f]
<1>1. /\ RHSlots(N, s) /\ i \in 0 .. N - 1 /\ c.key \in Keys /\ c.values \in Seq(Nat)
      /\ s \in [0 .. N - 1 -> RH!EntrySet \cup {None}] /\ N \in Nat \ {0} /\ e # None /\ e.key = c.key
      /\ Reached(N, s, e, i) /\ e \in RH!EntrySet
  BY DEF RHInv, RHSlots, RH!CallSet
<1>2. t = [s EXCEPT ![c.pos].values = @ \o c.values]
  BY <1>1
<1>3. f \in RH!EntrySet /\ f.key = e.key /\ f.psl = e.psl /\ f.values = e.values \o c.values /\ f # None
  <2>1. e.values \in Seq(Nat) /\ e.values \o c.values \in Seq(Nat)
    BY <1>1 DEF RH!EntrySet
  <2>2. f \in RH!EntrySet /\ f.key = e.key /\ f.psl = e.psl /\ f.values = e.values \o c.values
    BY <1>1, <2>1 DEF RH!EntrySet
  <2> QED BY <2>2, NoneAssumption
<1>4. Carries(N, s, c, rk)
  <2> SUFFICES ASSUME Displaced(N, s, c, rk) PROVE FALSE
    BY DEF RHInv
  <2>1. PICK T \in 0 .. N - 1 : i = PlaceOf(N, c.key, T) /\ \E D \in 0 .. T - 1 : s[PlaceOf(N, c.key, D)].key = c.key
                                /\ \A d \in 0 .. T - 1 : s[PlaceOf(N, c.key, d)] # None
    BY DEF Displaced, Behind
  <2>2. PICK D \in 0 .. T - 1 : s[PlaceOf(N, c.key, D)].key = c.key /\ s[PlaceOf(N, c.key, D)] # None
    BY <2>1
  <2> DEFINE j == PlaceOf(N, c.key, D)
  <2>3. j \in 0 .. N - 1 /\ j # i
    <3>1. N \in Nat \ {0} /\ c.key \in Keys
      BY <1>1
    <3> DEFINE k == c.key
    <3>5. k \in Keys
      BY <3>1
    <3> HIDE DEF k
    <3>6. N \in Nat \ {0}
      BY <3>1
    <3>2. /\ \A d \in 0 .. N - 1 : PlaceOf(N, k, d) \in 0 .. N - 1
          /\ \A d, d2 \in 0 .. N - 1 : PlaceOf(N, k, d) = PlaceOf(N, k, d2) => d = d2
      BY <3>5, <3>6, PlacesApart
    <3>3. D \in 0 .. N - 1 /\ D # T
      BY <3>1
    <3> HIDE DEF i
    <3> QED BY <2>1, <3>2, <3>3 DEF k
  <2>4. j # i
    BY <2>3
  <2>5. At("slot", i, s[i]) \in InSlots("slot", N, s) /\ At("slot", j, s[j]) \in InSlots("slot", N, s)
    BY <1>1, <2>2, <2>3, InSlotsIs
  <2>6. At("slot", i, s[i])[3].key = c.key /\ At("slot", j, s[j])[3].key = c.key /\ At("slot", i, s[i])[2] = i /\ At("slot", j, s[j])[2] = j
    <3>1. \A l : At("slot", l, s[l])[2] = l /\ At("slot", l, s[l])[3] = s[l]
      BY InSlotsIs
    <3>2. s[i].key = c.key /\ s[j].key = c.key
      BY <2>2
    <3> HIDE DEF i, j
    <3> QED BY <3>1, <3>2
  <2>7. At("slot", i, s[i]) = At("slot", j, s[j])
    BY <2>5, <2>6 DEF Displaced, Content
  <2> QED BY <2>4, <2>6, <2>7
<1>5. PICK r0 \in Seq(Values) : rk = Append(r0, c.key) /\ Content(InSlots("slot", N, s), r0)
  BY <1>4 DEF Carries
<1>6. c.values = <<Len(r0) + 1>>
  <2>1. Len(rk) = Len(r0) + 1
    BY <1>5
  <2> QED BY <1>4, <2>1 DEF Carries
<1> DEFINE x == At("slot", i, e)
           y == At("slot", i, f)
<1>7. x \in InSlots("slot", N, s) /\ x[3] = e /\ y[3] = f
  <2>1. i \in 0 .. N - 1 /\ s[i] # None
    BY <1>1
  <2> HIDE DEF f, i
  <2>2. x \in InSlots("slot", N, s)
    BY <2>1, InSlotsIs
  <2> QED BY <2>2, AtIs
<1>8. Content((InSlots("slot", N, s) \ {x}) \cup {y}, Append(r0, x[3].key))
  <2>1. y[3].key = x[3].key /\ y[3].values = x[3].values \o <<Len(r0) + 1>>
    BY <1>3, <1>6, <1>7
  <2> HIDE DEF x, y
  <2> QED BY <1>5, <1>7, <2>1, ContentMore
<1>9. t[i] = f /\ (\A j \in 0 .. N - 1 : j # i => t[j] = s[j]) /\ t \in [0 .. N - 1 -> RH!EntrySet \cup {None}]
  BY <1>1, <1>3
<1>10. InSlots("slot", N, t) = (InSlots("slot", N, s) \ {x}) \cup {y}
  <2>1. N \in Nat /\ i \in 0 .. N - 1 /\ f # None /\ t[i] = f /\ \A j \in 0 .. N - 1 : j # i => t[j] = s[j]
    BY <1>1, <1>3, <1>9
  <2> HIDE DEF t, f, i
  <2>2. InSlots("slot", N, t) = Replaced(InSlots("slot", N, s), At("slot", i, s[i]), At("slot", i, f))
    BY <2>1, InSlotsPut
  <2> QED BY <2>2 DEF Replaced
<1>11. Content(InSlots("slot", N, t), rk)
  BY <1>1, <1>5, <1>7, <1>8, <1>10
<1>12. Fuller(N, s, t)
  <2>1. \A j \in 0 .. N - 1 : s[j] # None => s[j].psl \in Nat
    BY <1>1 DEF RH!EntrySet
  <2> HIDE DEF t, f, e, i
  <2> QED BY <1>1, <1>3, <1>9, <2>1 DEF Fuller, e
<1>13. RHSlots(N, t)
  <2>1. ASSUME NEW j \in 0 .. N - 1, t[j] # None PROVE Reached(N, t, t[j], j)
    <3>1. s[j] # None /\ t[j].key = s[j].key /\ t[j].psl = s[j].psl
      <4> HIDE DEF t, f
      <4> QED BY <1>1, <1>3, <1>9, <2>1
    <3>2. Reached(N, s, s[j], j)
      BY <1>1, <3>1 DEF RHSlots
    <3>3. t[j] \in RH!EntrySet
      BY <1>9, <2>1
    <3>4. \A l \in 0 .. N - 1 : (s[l] # None => s[l].psl \in Nat) /\ (t[l] # None => t[l].psl \in Nat)
      BY <1>1, <1>9 DEF RH!EntrySet
    <3> DEFINE k == s[j].key
               p == s[j].psl
    <3>5. k \in Keys /\ p \in 0 .. N /\ Passed(N, s, k, p)
      BY <3>1, <3>2, <1>1 DEF Reached, RH!EntrySet
    <3> HIDE DEF t, k, p
    <3>6. Passed(N, t, k, p)
      BY <1>1, <1>12, <3>4, <3>5, PassedFuller
    <3> QED BY <3>1, <3>2, <3>3, <3>6 DEF Reached, k, p
  <2> QED BY <1>1, <1>9, <2>1 DEF RHSlots
<1>14. RHInv(N, t, None, rk)
  BY <1>11, <1>13 DEF RHInv
<1> QED
  BY <1>2, <1>14

(* An entry one slot farther from its home. *)
LEMMA EntryFarther ==
  ASSUME NEW e \in RH!EntrySet
  PROVE  LET f == [e EXCEPT !.psl = @ + 1]
         IN  f \in RH!EntrySet /\ f.key = e.key /\ f.values = e.values /\ f.psl = e.psl + 1
  BY DEF RH!EntrySet

(* The next slot, with the entry in hand or the one it displaces. *)
LEMMA RHCarryOn ==
  ASSUME NEW N, NEW s, NEW c, NEW rk \in Seq(Values), RHInv(N, s, c, rk), 2 * Len(rk) <= N,
         c # None, s[c.pos] # None, s[c.pos].key # c.key, ~(c.current.psl > s[c.pos].psl)
  PROVE  RHInv(N, s, [c EXCEPT !.current = [c.current EXCEPT !.psl = @ + 1], !.pos = (c.pos + 1) % N], rk)
<1> DEFINE i == c.pos
           e == c.current
           f == [e EXCEPT !.psl = @ + 1]
           k == c.key
           c2 == [c EXCEPT !.current = f, !.pos = (i + 1) % N]
<1>1. /\ RHSlots(N, s) /\ i \in 0 .. N - 1 /\ k \in Keys /\ N \in Nat \ {0} /\ s[i] # None /\ s[i].key # k
      /\ Reached(N, s, e, i) /\ c \in RH!CallSet /\ s \in [0 .. N - 1 -> RH!EntrySet \cup {None}]
  BY DEF RHInv, RHSlots, RH!CallSet
<1>2. PICK v \in 0 .. N - 1 : s[v] = None
  BY RHHalfEmpty
<1>3. e \in RH!EntrySet /\ e.psl \in 0 .. N - 1 /\ i = PlaceOf(N, e.key, e.psl) /\ e.key \in Keys
      /\ f \in RH!EntrySet /\ f.key = e.key /\ f.values = e.values /\ f.psl = e.psl + 1
  <2>1. e \in RH!EntrySet /\ e.psl \in 0 .. N - 1 /\ i = PlaceOf(N, e.key, e.psl)
    BY <1>1 DEF Reached
  <2> HIDE DEF e, i
  <2>2. e.key \in Keys /\ e.psl \in Nat
    BY <2>1 DEF RH!EntrySet
  <2>3. f \in RH!EntrySet /\ f.key = e.key /\ f.values = e.values /\ f.psl = e.psl + 1
    BY <2>1, EntryFarther
  <2> QED BY <2>1, <2>2, <2>3
<1>4. s[i].psl >= e.psl
  <2>1. s[i].psl \in Nat
    BY <1>1 DEF RH!EntrySet
  <2> QED BY <1>3, <2>1
<1> HIDE DEF f
<1>5. Reached(N, s, f, (i + 1) % N)
  BY <1>1, <1>2, <1>4, RHGoOn DEF f
<1>6. c2 \in RH!CallSet /\ c2.key = k /\ c2.values = c.values /\ c2.current = f /\ c2.pos = (i + 1) % N /\ (i + 1) % N \in 0 .. N - 1
  <2>1. (i + 1) % N \in 0 .. N - 1
    <3>1. f.psl \in 0 .. N - 1 /\ (i + 1) % N = PlaceOf(N, f.key, f.psl) /\ f.key \in Keys
      BY <1>3, <1>5 DEF Reached
    <3>2. N \in Nat \ {0}
      BY <1>1
    <3> HIDE DEF i, e
    <3>3. \A d \in 0 .. N - 1 : PlaceOf(N, f.key, d) \in 0 .. N - 1
      BY <3>1, <3>2, RHPlaces
    <3> QED BY <3>1, <3>3
  <2>2. c \in RH!CallSet /\ f \in RH!EntrySet /\ (i + 1) % N \in Nat
    BY <1>1, <1>3, <2>1
  <2> DEFINE m == (i + 1) % N
  <2>3. c2 = [c EXCEPT !.current = f, !.pos = m]
    OBVIOUS
  <2> HIDE DEF c2, m
  <2>4. c2 \in RH!CallSet /\ c2.key = c.key /\ c2.values = c.values /\ c2.current = f /\ c2.pos = m
    BY <2>2, <2>3 DEF RH!CallSet, m
  <2> QED BY <2>1, <2>4 DEF m
<1>7. c2 # None
  BY <1>6, NoneAssumption
<1> HIDE DEF c2
<1>8. Carries(N, s, c2, rk) \/ Displaced(N, s, c2, rk)
  <2>1. CASE Carries(N, s, c, rk)
    <3>1. e.key = k /\ f.key = k
      BY <1>3, <2>1 DEF Carries
    <3>2. ASSUME NEW d \in 0 .. f.psl - 1 PROVE s[PlaceOf(N, k, d)].key # k
      <4>1. CASE d = e.psl
        BY <1>1, <1>3, <3>1, <4>1
      <4>2. CASE d # e.psl
        <5>1. d \in 0 .. e.psl - 1
          BY <1>3, <4>2
        <5> QED BY <2>1, <5>1 DEF Carries
      <4> QED BY <4>1, <4>2
    <3> QED BY <1>3, <1>6, <2>1, <3>1, <3>2 DEF Carries
  <2>2. CASE Displaced(N, s, c, rk)
    <3>1. Content(InSlots("slot", N, s) \cup {InHand(f)}, rk)
      <4> DEFINE x == InHand(e)
                 y == InHand(f)
                 E == InSlots("slot", N, s) \cup {x}
      <4>1. x \in E /\ x[3] = e /\ y[3] = f /\ x[1] = "call" /\ Content(E, rk)
        BY <2>2 DEF InHand, Displaced
      <4>2. E \ {x} = InSlots("slot", N, s)
        <5>1. x \notin InSlots("slot", N, s)
          BY <4>1, InSlotsIs
        <5> QED BY <5>1
      <4> HIDE DEF x, y, E
      <4>3. x[3].key = y[3].key /\ x[3].values = y[3].values
        BY <1>3, <4>1
      <4>4. Content((E \ {x}) \cup {y}, rk)
        BY <4>1, <4>3, ContentMove
      <4> QED BY <4>2, <4>4 DEF y
    <3>2. Behind(N, s, k, (i + 1) % N)
      <4>1. PICK T \in 0 .. N - 1 : i = PlaceOf(N, k, T) /\ (\A d \in 0 .. T - 1 : s[PlaceOf(N, k, d)] # None)
                                    /\ \E D \in 0 .. T - 1 : s[PlaceOf(N, k, D)].key = k
        BY <2>2 DEF Displaced, Behind
      <4>2. PICK D \in 0 .. T - 1 : s[PlaceOf(N, k, D)].key = k
        BY <4>1
      <4>3. \A d \in 0 .. T : s[PlaceOf(N, k, d)] # None
        <5> TAKE d \in 0 .. T
        <5>1. d = T \/ d \in 0 .. T - 1
          OBVIOUS
        <5> QED BY <1>1, <4>1, <5>1
      <4>4. D \in 0 .. T
        OBVIOUS
      <4> HIDE DEF i
      <4> QED BY <1>1, <1>2, <4>1, <4>2, <4>3, <4>4, BehindNext
    <3>3. f.key # k
      BY <1>3, <2>2 DEF Displaced
    <3> QED BY <1>6, <3>1, <3>2, <3>3 DEF Displaced
  <2> QED BY <2>1, <2>2 DEF RHInv
<1>9. RHInv(N, s, c2, rk)
  BY <1>1, <1>5, <1>6, <1>7, <1>8 DEF RHInv
<1> QED
  BY <1>9 DEF c2, f

(* The entry in hand takes the slot of one that is closer to its home. *)
LEMMA RHTake ==
  ASSUME NEW N, NEW s, NEW c, NEW rk \in Seq(Values), RHInv(N, s, c, rk), 2 * Len(rk) <= N,
         c # None, s[c.pos] # None, s[c.pos].key # c.key, c.current.psl > s[c.pos].psl
  PROVE  RHInv(N, [s EXCEPT ![c.pos] = c.current],
               [c EXCEPT !.current = [s[c.pos] EXCEPT !.psl = @ + 1], !.pos = (c.pos + 1) % N], rk)
<1> DEFINE i == c.pos
           e == c.current
           x == s[i]
           f == [x EXCEPT !.psl = @ + 1]
           k == c.key
           t == [s EXCEPT ![i] = e]
           next == (i + 1) % N
           c2 == [c EXCEPT !.current = f, !.pos = next]
<1>1. /\ RHSlots(N, s) /\ i \in 0 .. N - 1 /\ k \in Keys /\ N \in Nat \ {0} /\ x # None /\ x.key # k
      /\ Reached(N, s, e, i) /\ c \in RH!CallSet /\ s \in [0 .. N - 1 -> RH!EntrySet \cup {None}]
      /\ e.psl > x.psl
  BY DEF RHInv, RHSlots, RH!CallSet
<1>2. PICK v \in 0 .. N - 1 : s[v] = None
  BY RHHalfEmpty
<1>3. e \in RH!EntrySet /\ e.psl \in 0 .. N - 1 /\ i = PlaceOf(N, e.key, e.psl) /\ e # None /\ x \in RH!EntrySet
  BY <1>1, NoneAssumption DEF Reached
<1>4. x.key \in Keys /\ x.psl \in Nat /\ e.key \in Keys /\ e.psl \in Nat
  BY <1>3 DEF RH!EntrySet
<1>5. f \in RH!EntrySet /\ f.key = x.key /\ f.values = x.values /\ f.psl = x.psl + 1
  BY <1>3, EntryFarther
<1>6. /\ RHSlots(N, t) /\ t[i] = e /\ \A j \in 0 .. N - 1 : j # i => t[j] = s[j]
      /\ \A j \in 0 .. N - 1 : \A y : Reached(N, s, y, j) => Reached(N, t, y, j)
  <2> HIDE DEF e, i
  <2>1. s[i] # None => e.psl > s[i].psl
    BY <1>1
  <2> QED BY <1>1, <2>1, RHPut
<1>7. \A j \in 0 .. N - 1 : s[j] # None => t[j] # None
  BY <1>3, <1>6
<1>8. t[v] = None
  BY <1>1, <1>2, <1>6
<1>9. InSlots("slot", N, t) = (InSlots("slot", N, s) \ {At("slot", i, x)}) \cup {At("slot", i, e)}
  <2>1. N \in Nat /\ i \in 0 .. N - 1 /\ e # None /\ t[i] = e /\ x = s[i]
    BY <1>1, <1>3, <1>6
  <2>2. \A j \in 0 .. N - 1 : j # i => t[j] = s[j]
    BY <1>6
  <2> HIDE DEF t, e, i, x
  <2>3. InSlots("slot", N, t) = Replaced(InSlots("slot", N, s), At("slot", i, s[i]), At("slot", i, e))
    BY <2>1, <2>2, InSlotsPut
  <2> QED BY <2>1, <2>3 DEF Replaced
<1>10. Reached(N, t, f, next)
  <2>1. Reached(N, t, x, i)
    BY <1>1, <1>6 DEF RHSlots
  <2>2. t[i] # None /\ t[i].psl >= x.psl
    BY <1>1, <1>3, <1>4, <1>6
  <2> HIDE DEF t, x, i
  <2>3. Reached(N, t, [x EXCEPT !.psl = @ + 1], (i + 1) % N)
    BY <1>1, <1>2, <1>6, <1>8, <2>1, <2>2, RHGoOn
  <2> QED BY <2>3
<1> HIDE DEF f
<1>11. next \in 0 .. N - 1
  <2>1. f.psl \in 0 .. N - 1 /\ next = PlaceOf(N, f.key, f.psl) /\ f.key \in Keys /\ N \in Nat \ {0}
    BY <1>1, <1>4, <1>5, <1>10 DEF Reached
  <2> HIDE DEF next
  <2>2. \A d \in 0 .. N - 1 : PlaceOf(N, f.key, d) \in 0 .. N - 1
    BY <2>1, RHPlaces
  <2> QED BY <2>1, <2>2
<1>12. c2 \in RH!CallSet /\ c2.key = k /\ c2.values = c.values /\ c2.current = f /\ c2.pos = next /\ c2 # None
  <2>1. c \in RH!CallSet /\ f \in RH!EntrySet /\ next \in Nat /\ c2 = [c EXCEPT !.current = f, !.pos = next]
    BY <1>1, <1>5, <1>11
  <2> HIDE DEF c2, next
  <2>2. c2 \in RH!CallSet /\ c2.key = c.key /\ c2.values = c.values /\ c2.current = f /\ c2.pos = next
    BY <2>1 DEF RH!CallSet
  <2> QED BY <2>2, NoneAssumption
<1> HIDE DEF c2, t
<1>13. At("slot", i, x) \in InSlots("slot", N, s) /\ At("slot", i, x)[3] = x /\ At("slot", i, e)[3] = e /\ InHand(f)[3] = f /\ InHand(e)[3] = e
       /\ InHand(e)[1] = "call"
  <2>1. i \in 0 .. N - 1 /\ s[i] # None
    BY <1>1
  <2> HIDE DEF i, e
  <2>2. At("slot", i, x) \in InSlots("slot", N, s)
    BY <2>1, InSlotsIs
  <2>3. \A tag, j, y : At(tag, j, y)[3] = y /\ InHand(y)[3] = y /\ InHand(y)[1] = "call"
    BY AtIs
  <2> QED BY <2>2, <2>3
<1>14. Content(InSlots("slot", N, t) \cup {InHand(f)}, rk) /\ Behind(N, t, k, next)
  <2>1. CASE Carries(N, s, c, rk)
    <3>1. PICK r0 \in Seq(Values) : rk = Append(r0, k) /\ Content(InSlots("slot", N, s), r0)
      BY <2>1 DEF Carries
    <3>2. e.key = k /\ e.values = <<Len(r0) + 1>>
      <4>1. Len(rk) = Len(r0) + 1
        BY <3>1
      <4> QED BY <2>1, <4>1 DEF Carries
    <3>3. \A j \in 0 .. N - 1 : s[j] # None => s[j].key # k
      <4> DEFINE p == e.psl
      <4>1. /\ RHSlots(N, s) /\ p \in 0 .. N - 1 /\ k \in Keys /\ s[PlaceOf(N, k, p)] # None
            /\ s[PlaceOf(N, k, p)].key # k /\ s[PlaceOf(N, k, p)].psl < p
            /\ \A d \in 0 .. p - 1 : s[PlaceOf(N, k, d)].key # k
        <5>1. \A d \in 0 .. p - 1 : s[PlaceOf(N, k, d)].key # k
          BY <2>1 DEF Carries
        <5>2. s[PlaceOf(N, k, p)] = x
          BY <1>3, <3>2
        <5> QED BY <1>1, <1>3, <1>4, <5>1, <5>2
      <4> HIDE DEF p, k
      <4> QED BY <4>1, RHAbsent
    <3> DEFINE new == At("slot", i, e)
               E == InSlots("slot", N, s) \cup {new}
               old == At("slot", i, x)
               hand == InHand(f)
    <3>4. \A y \in InSlots("slot", N, s) : y[3].key # k
      BY <3>3, InSlotsIs
    <3>5. new[3].key = k /\ new[3].values = <<Len(r0) + 1>> /\ old[3] = x /\ hand[3] = f /\ old \in InSlots("slot", N, s)
      BY <1>13, <3>2
    <3>6. InSlots("slot", N, t) = (InSlots("slot", N, s) \ {old}) \cup {new}
      BY <1>9
    <3> HIDE DEF new, old, hand, k
    <3>7. Content(E, rk)
      BY <1>1, <3>1, <3>4, <3>5, ContentNew, NullAssumption
    <3>8. new # old
      BY <3>4, <3>5
    <3>9. (E \ {old}) \cup {hand} = InSlots("slot", N, t) \cup {hand}
      BY <3>6, <3>8
    <3>10. Content((E \ {old}) \cup {hand}, rk)
      <4>1. old \in E /\ old[3].key = hand[3].key /\ old[3].values = hand[3].values
        BY <1>5, <3>5
      <4> HIDE DEF E
      <4> QED BY <3>7, <4>1, ContentMove
    <3>11. Behind(N, t, k, next)
      <4> DEFINE T == e.psl
      <4>1. T \in 0 .. N - 1 /\ i = PlaceOf(N, k, T) /\ t[i] = e /\ e # None
        BY <1>3, <1>6, <3>2
      <4>2. ASSUME NEW d \in 0 .. T PROVE t[PlaceOf(N, k, d)] # None
        <5>1. CASE d = T
          BY <4>1, <5>1
        <5>2. CASE d # T
          <6>1. d \in 0 .. e.psl - 1 /\ d \in 0 .. N - 1
            BY <1>1, <1>3, <5>2
          <6>2. s[PlaceOf(N, e.key, d)] # None
            BY <1>1, <6>1 DEF Reached, Passed
          <6>3. PlaceOf(N, e.key, d) \in 0 .. N - 1
            <7>1. \A dd \in 0 .. N - 1 : PlaceOf(N, e.key, dd) \in 0 .. N - 1
              <8>1. N \in Nat \ {0} /\ e.key \in Keys
                BY <1>1, <1>4
              <8> HIDE DEF e
              <8> QED BY <8>1, RHPlaces
            <7> QED BY <6>1, <7>1
          <6> QED BY <1>7, <3>2, <6>2, <6>3
        <5> QED BY <5>1, <5>2
      <4>3. T \in 0 .. T /\ t[PlaceOf(N, k, T)].key = k
        BY <1>4, <3>2, <4>1
      <4>4. N \in Nat \ {0} /\ k \in Keys
        BY <1>1
      <4> HIDE DEF T, e, i
      <4>5. Behind(N, t, k, (PlaceOf(N, k, T) + 1) % N)
        BY <1>2, <1>8, <4>1, <4>2, <4>3, <4>4, BehindNext
      <4> QED BY <4>1, <4>5
    <3> QED BY <3>9, <3>10, <3>11 DEF hand
  <2>2. CASE Displaced(N, s, c, rk)
    <3> DEFINE new == At("slot", i, e)
               old == At("slot", i, x)
               was == InHand(e)
               hand == InHand(f)
               E == InSlots("slot", N, s) \cup {was}
    <3>1. Content(E, rk)
      BY <2>2 DEF Displaced
    <3>2. was \notin InSlots("slot", N, s)
      BY <1>13, InSlotsIs
    <3>3. new[3] = e /\ old[3] = x /\ hand[3] = f /\ was[3] = e /\ old \in InSlots("slot", N, s)
      BY <1>13
    <3>4. InSlots("slot", N, t) = (InSlots("slot", N, s) \ {old}) \cup {new}
      BY <1>9
    <3> HIDE DEF new, old, was, hand
    <3>5. was # old
      BY <3>2, <3>3
    <3>6. e.key # x.key
      BY <3>1, <3>3, <3>5 DEF Content
    <3> DEFINE E2 == (E \ {was}) \cup {new}
    <3>7. Content(E2, rk)
      <4>1. was \in E /\ was[3].key = new[3].key /\ was[3].values = new[3].values
        BY <3>3
      <4> HIDE DEF E
      <4> QED BY <3>1, <4>1, ContentMove
    <3>8. new # old
      BY <3>3, <3>6
    <3>9. E2 = InSlots("slot", N, s) \cup {new}
      BY <3>2
    <3>10. Content((E2 \ {old}) \cup {hand}, rk)
      <4>1. old \in E2 /\ old[3].key = hand[3].key /\ old[3].values = hand[3].values
        BY <1>5, <3>3, <3>9
      <4> HIDE DEF E2
      <4> QED BY <3>7, <4>1, ContentMove
    <3>11. (E2 \ {old}) \cup {hand} = InSlots("slot", N, t) \cup {hand}
      BY <3>4, <3>8, <3>9
    <3>12. Behind(N, t, k, next)
      <4>1. PICK T \in 0 .. N - 1 : i = PlaceOf(N, k, T) /\ (\A d \in 0 .. T - 1 : s[PlaceOf(N, k, d)] # None)
                                    /\ \E D \in 0 .. T - 1 : s[PlaceOf(N, k, D)].key = k
        BY <2>2 DEF Displaced, Behind
      <4>2. PICK D \in 0 .. T - 1 : s[PlaceOf(N, k, D)].key = k
        BY <4>1
      <4>3. N \in Nat \ {0} /\ k \in Keys /\ t[i] # None /\ T \in Nat /\ T < N
        BY <1>1, <1>3, <1>6
      <4>8. N \in Nat \ {0} /\ k \in Keys
        BY <4>3
      <4> HIDE DEF k
      <4>4. /\ \A d \in 0 .. N - 1 : PlaceOf(N, k, d) \in 0 .. N - 1
            /\ \A d, d2 \in 0 .. N - 1 : PlaceOf(N, k, d) = PlaceOf(N, k, d2) => d = d2
        BY <4>8, PlacesApart
      <4> HIDE DEF i
      <4>5. ASSUME NEW d \in 0 .. T PROVE t[PlaceOf(N, k, d)] # None
        <5>1. d \in 0 .. N - 1 /\ PlaceOf(N, k, d) \in 0 .. N - 1
          BY <4>3, <4>4
        <5>2. d = T \/ d \in 0 .. T - 1
          BY <4>3
        <5> QED BY <1>7, <4>1, <4>3, <5>1, <5>2
      <4>6. D \in 0 .. T /\ t[PlaceOf(N, k, D)].key = k
        <5>1. D \in 0 .. N - 1 /\ D # T /\ D \in 0 .. T
          BY <4>3
        <5>2. PlaceOf(N, k, D) # i /\ PlaceOf(N, k, D) \in 0 .. N - 1
          BY <4>1, <4>4, <5>1
        <5> QED BY <1>6, <4>2, <5>1, <5>2
      <4>7. Behind(N, t, k, (PlaceOf(N, k, T) + 1) % N)
        BY <1>2, <1>8, <4>3, <4>5, <4>6, BehindNext
      <4> QED BY <4>1, <4>7
    <3> QED BY <3>10, <3>11, <3>12 DEF hand
  <2> QED BY <2>1, <2>2 DEF RHInv
<1>15. Displaced(N, t, c2, rk)
  BY <1>1, <1>5, <1>12, <1>14 DEF Displaced
<1>16. RHInv(N, t, c2, rk)
  BY <1>6, <1>10, <1>11, <1>12, <1>15 DEF RHInv
<1> QED
  BY <1>16 DEF c2, t, f

(* What find_values returns. *)
RHLookup(N, s, k) ==
  LET stops == {d \in 0 .. N - 1 : s[PlaceOf(N, k, d)] # None =>
                                     s[PlaceOf(N, k, d)].key = k \/ d > s[PlaceOf(N, k, d)].psl}
      d == Min(stops)
  IN IF s[PlaceOf(N, k, d)] # None /\ s[PlaceOf(N, k, d)].key = k THEN s[PlaceOf(N, k, d)].values ELSE <<>>

(* A lookup finds the rows of its key, and nothing for other keys. *)
LEMMA RHFinds ==
  ASSUME NEW N, NEW s, NEW rk \in Seq(Values), RHInv(N, s, None, rk), 2 * Len(rk) <= N, NEW k \in Keys
  PROVE  RHLookup(N, s, k) = RowList(rk, k)
<1> DEFINE stops == {d \in 0 .. N - 1 : s[PlaceOf(N, k, d)] # None =>
                                          s[PlaceOf(N, k, d)].key = k \/ d > s[PlaceOf(N, k, d)].psl}
           m == Min(stops)
           i == PlaceOf(N, k, m)
<1>1. RHSlots(N, s) /\ N \in Nat \ {0} /\ Content(InSlots("slot", N, s), rk) /\ s \in [0 .. N - 1 -> RH!EntrySet \cup {None}]
  BY DEF RHInv, RHSlots
<1>2. /\ \A d \in 0 .. N - 1 : PlaceOf(N, k, d) \in 0 .. N - 1
      /\ \A d, d2 \in 0 .. N - 1 : PlaceOf(N, k, d) = PlaceOf(N, k, d2) => d = d2
      /\ \A j \in 0 .. N - 1 : \E d \in 0 .. N - 1 : PlaceOf(N, k, d) = j
  <2>1. N \in Nat \ {0}
    BY <1>1
  <2> QED BY <2>1, RHPlaces
<1>3. RHLookup(N, s, k) = IF s[i] # None /\ s[i].key = k THEN s[i].values ELSE <<>>
  BY DEF RHLookup
<1>4. PICK v \in 0 .. N - 1 : s[v] = None
  BY RHHalfEmpty
<1>5. stops \in SUBSET Nat /\ stops # {} /\ stops \subseteq 0 .. N - 1
  <2>1. PICK d \in 0 .. N - 1 : PlaceOf(N, k, d) = v
    BY <1>2
  <2>2. d \in stops
    BY <1>4, <2>1
  <2> QED BY <2>2
<1>6. \A d \in 0 .. N - 1 : d \in stops <=>
        (s[PlaceOf(N, k, d)] # None => s[PlaceOf(N, k, d)].key = k \/ d > s[PlaceOf(N, k, d)].psl)
  OBVIOUS
<1> HIDE DEF stops
<1>7. m \in stops /\ \A d \in stops : m <= d
  BY <1>5, MinIsLeast
<1> HIDE DEF m
<1>8. m \in 0 .. N - 1 /\ i \in 0 .. N - 1
  BY <1>2, <1>5, <1>7
<1>9. CASE s[i] # None /\ s[i].key = k
  <2>1. At("slot", i, s[i]) \in InSlots("slot", N, s) /\ At("slot", i, s[i])[3] = s[i]
    <3> HIDE DEF i
    <3> QED BY <1>8, <1>9, InSlotsIs
  <2>2. s[i].values = RowList(rk, k)
    BY <1>1, <1>9, <2>1 DEF Content
  <2> QED BY <1>3, <1>9, <2>2
<1>10. CASE ~(s[i] # None /\ s[i].key = k)
  <2>1. ASSUME NEW j \in 0 .. N - 1, s[j] # None, s[j].key = k PROVE FALSE
    <3>1. s[j].psl \in 0 .. N - 1 /\ j = PlaceOf(N, k, s[j].psl) /\ Passed(N, s, k, s[j].psl)
      BY <1>1, <2>1 DEF RHSlots, Reached
    <3> DEFINE D == s[j].psl
    <3>2. D \in stops
      BY <1>6, <2>1, <3>1
    <3>3. m <= D /\ m # D
      BY <1>7, <1>10, <2>1, <3>1, <3>2
    <3>4. m \in 0 .. D - 1
      BY <1>8, <3>1, <3>3
    <3>5. s[i] # None /\ s[i].psl >= m
      BY <3>1, <3>4 DEF Passed
    <3>6. s[i].psl \in Nat /\ m > s[i].psl
      <4>1. s[i] \in RH!EntrySet
        BY <1>1, <1>8, <3>5
      <4> QED BY <1>6, <1>7, <1>8, <1>10, <3>5, <4>1 DEF RH!EntrySet
    <3> QED BY <1>8, <3>5, <3>6
  <2>2. \A x \in InSlots("slot", N, s) : x[3].key # k
    BY <2>1, InSlotsIs
  <2>3. ASSUME NEW r \in 1 .. Len(rk), rk[r] = k PROVE FALSE
    <3>1. rk[r] # Null
      BY <2>3, NullAssumption
    <3> QED BY <1>1, <2>2, <2>3, <3>1 DEF Content
  <2>4. RowList(rk, k) = <<>>
    BY <2>3, RowListNone
  <2> QED BY <1>3, <1>10, <2>4
<1> QED
  BY <1>9, <1>10

-----------------------------------------------------------------------------
(* What nested calls have still to insert.                                 *)
Waiting(i, e) == <<"pending", i, e>>
(* The entries that wait, with their places. *)
Queue(p) == {<<"pending", i, p[i]>> : i \in DOMAIN p}

(* What is in the set of the entries that wait. *)
LEMMA QueueIs ==
  ASSUME NEW V, NEW p \in Seq(V)
  PROVE  /\ \A i \in 1 .. Len(p) : Waiting(i, p[i]) \in Queue(p)
         /\ \A x \in Queue(p) : x[1] = "pending" /\ \E i \in 1 .. Len(p) : x = Waiting(i, p[i])
         /\ \A i, e : Waiting(i, e)[1] = "pending" /\ Waiting(i, e)[2] = i /\ Waiting(i, e)[3] = e
<1>1. DOMAIN p = 1 .. Len(p)
  OBVIOUS
<1> QED
  BY <1>1 DEF Queue, Waiting

(* Some of the entries are replaced by others with the same keys and values. *)
LEMMA ContentSwap ==
  ASSUME NEW rk, NEW A, NEW B, NEW C, Content(A \cup B, rk), \A x \in A : x \notin B,
         \A y \in C : \E x \in B : x[3].key = y[3].key /\ x[3].values = y[3].values,
         \A x \in B : \E y \in C : x[3].key = y[3].key,
         \A y, z \in C : y[3].key = z[3].key => y = z
  PROVE  Content(A \cup C, rk)
<1> DEFINE E == A \cup B
           F == A \cup C
<1>1. \A y \in F : \E x \in E : x[3].key = y[3].key /\ x[3].values = y[3].values
  OBVIOUS
<1>2. \A x \in E : \E y \in F : x[3].key = y[3].key
  OBVIOUS
<1>3. ASSUME NEW y \in A, NEW z \in C PROVE y[3].key # z[3].key
  <2>1. PICK x \in B : x[3].key = z[3].key
    OBVIOUS
  <2> QED BY <2>1 DEF Content
<1>4. \A y, z \in A : y[3].key = z[3].key => y = z
  BY DEF Content
<1>5. \A y, z \in F : y[3].key = z[3].key => y = z
  BY <1>3, <1>4
<1>6. Content(E, rk)
  OBVIOUS
<1> HIDE DEF E, F
<1>7. Content(F, rk)
  BY <1>1, <1>2, <1>5, <1>6, ContentMoved
<1> QED
  BY <1>7 DEF F

(* A list of some entries, each once. *)
Lists(q, E) ==
  /\ \A i \in 1 .. Len(q) : \E x \in E : x[3] = q[i]
  /\ \A x \in E : \E i \in 1 .. Len(q) : q[i] = x[3]
  /\ \A i, j \in 1 .. Len(q) : q[i].key = q[j].key => i = j

(* Listed entries that wait instead of their places hold the same rows. *)
LEMMA ListsContent ==
  ASSUME NEW rk, NEW E, Content(E, rk), NEW V, NEW q \in Seq(V), Lists(q, E)
  PROVE  Content(Queue(q), rk)
<1> DEFINE F == Queue(q)
<1>1. /\ \A i \in 1 .. Len(q) : Waiting(i, q[i]) \in F
      /\ \A x \in F : x[1] = "pending" /\ \E i \in 1 .. Len(q) : x = Waiting(i, q[i])
      /\ \A i, e : Waiting(i, e)[3] = e
  BY QueueIs
<1> HIDE DEF F
<1>2. ASSUME NEW y \in F PROVE \E x \in E : x[3].key = y[3].key /\ x[3].values = y[3].values
  <2>1. PICK i \in 1 .. Len(q) : y = Waiting(i, q[i])
    BY <1>1
  <2>2. PICK x \in E : x[3] = q[i]
    BY DEF Lists
  <2> QED BY <1>1, <2>1, <2>2
<1>3. ASSUME NEW x \in E PROVE \E y \in F : x[3].key = y[3].key
  <2>1. PICK i \in 1 .. Len(q) : q[i] = x[3]
    BY DEF Lists
  <2> QED BY <1>1, <2>1
<1>4. ASSUME NEW y \in F, NEW z \in F, y[3].key = z[3].key PROVE y = z
  <2>1. PICK i \in 1 .. Len(q) : y = Waiting(i, q[i])
    BY <1>1
  <2>2. PICK j \in 1 .. Len(q) : z = Waiting(j, q[j])
    BY <1>1
  <2>3. q[i].key = q[j].key
    BY <1>1, <1>4, <2>1, <2>2
  <2>4. i = j
    BY <2>3 DEF Lists
  <2> QED BY <2>1, <2>2, <2>4
<1> QED
  BY <1>2, <1>3, <1>4, ContentMoved DEF F

(* One list after another lists the entries of both. *)
LEMMA ListsJoined ==
  ASSUME NEW rk, NEW V, NEW q \in Seq(V), NEW r \in Seq(V), NEW E, NEW F, Lists(q, E), Lists(r, F),
         NEW G, Content(G, rk), E \subseteq G, F \subseteq G, \A x \in E : x \notin F
  PROVE  Lists(q \o r, E \cup F) /\ q \o r \in Seq(V)
<1> DEFINE s == q \o r
           m == Len(q)
<1>1. s \in Seq(V) /\ m \in Nat /\ Len(r) \in Nat /\ Len(s) = m + Len(r)
  OBVIOUS
<1>2. \A i \in 1 .. m : s[i] = q[i]
  OBVIOUS
<1>3. \A i \in 1 .. Len(r) : s[m + i] = r[i]
  OBVIOUS
<1> HIDE DEF s, m
<1>4. \A i \in 1 .. Len(s) : i \in 1 .. m \/ (i - m \in 1 .. Len(r) /\ m + (i - m) = i)
  BY <1>1
<1>5. (\A i \in 1 .. m : i \in 1 .. Len(s)) /\ \A i \in 1 .. Len(r) : m + i \in 1 .. Len(s)
  BY <1>1
<1>6. \A i \in 1 .. m : \E x \in E : x[3] = s[i]
  BY <1>2 DEF Lists, m
<1>7. \A i \in 1 .. Len(r) : \E x \in F : x[3] = s[m + i]
  BY <1>3 DEF Lists
<1>8. ASSUME NEW i \in 1 .. Len(s) PROVE \E x \in E \cup F : x[3] = s[i]
  BY <1>4, <1>6, <1>7
<1>9. ASSUME NEW x \in E \cup F PROVE \E i \in 1 .. Len(s) : s[i] = x[3]
  <2>1. CASE x \in E
    <3>1. PICK i \in 1 .. m : q[i] = x[3]
      BY <2>1 DEF Lists, m
    <3> QED BY <1>2, <1>5, <3>1
  <2>2. CASE x \in F
    <3>1. PICK i \in 1 .. Len(r) : r[i] = x[3]
      BY <2>2 DEF Lists
    <3> QED BY <1>3, <1>5, <3>1
  <2> QED BY <2>1, <2>2
<1>10. ASSUME NEW i \in 1 .. m, NEW j \in 1 .. Len(r) PROVE s[i].key # s[m + j].key
  <2>1. PICK x \in E : x[3] = s[i]
    BY <1>6
  <2>2. PICK y \in F : y[3] = s[m + j]
    BY <1>7
  <2>3. x # y
    OBVIOUS
  <2> QED BY <2>1, <2>2, <2>3 DEF Content
<1>11. ASSUME NEW i \in 1 .. Len(s), NEW j \in 1 .. Len(s), s[i].key = s[j].key PROVE i = j
  <2>1. CASE i \in 1 .. m /\ j \in 1 .. m
    BY <1>2, <1>11, <2>1 DEF Lists, m
  <2>2. CASE i \in 1 .. m /\ j \notin 1 .. m
    BY <1>4, <1>10, <1>11, <2>2
  <2>3. CASE i \notin 1 .. m /\ j \in 1 .. m
    BY <1>4, <1>10, <1>11, <2>3
  <2>4. CASE i \notin 1 .. m /\ j \notin 1 .. m
    <3>1. i - m \in 1 .. Len(r) /\ j - m \in 1 .. Len(r) /\ s[i] = r[i - m] /\ s[j] = r[j - m]
      BY <1>3, <1>4, <2>4
    <3>2. i - m = j - m
      BY <1>11, <3>1 DEF Lists
    <3> QED BY <1>1, <3>2
  <2> QED BY <2>1, <2>2, <2>3, <2>4
<1>12. Lists(s, E \cup F)
  BY <1>8, <1>9, <1>11 DEF Lists
<1> QED
  BY <1>1, <1>12 DEF s

(* A list of the entry in hand. *)
LEMMA ListsOne ==
  ASSUME NEW e
  PROVE  Lists(<<e>>, {InHand(e)})
<1>1. InHand(e)[3] = e
  BY AtIs
<1>2. Len(<<e>>) = 1 /\ <<e>>[1] = e
  OBVIOUS
<1>3. \A i \in 1 .. 1 : i = 1
  OBVIOUS
<1> QED
  BY <1>1, <1>2, <1>3 DEF Lists

(* What waits lists itself. *)
LEMMA ListsQueue ==
  ASSUME NEW rk, NEW V, NEW p \in Seq(V), NEW E, Content(E, rk), Queue(p) \subseteq E
  PROVE  Lists(p, Queue(p))
<1>1. /\ \A i \in 1 .. Len(p) : Waiting(i, p[i]) \in Queue(p)
      /\ \A x \in Queue(p) : x[1] = "pending" /\ \E i \in 1 .. Len(p) : x = Waiting(i, p[i])
      /\ \A i, e : Waiting(i, e)[1] = "pending" /\ Waiting(i, e)[2] = i /\ Waiting(i, e)[3] = e
  BY QueueIs
<1>2. \A i \in 1 .. Len(p) : \E x \in Queue(p) : x[3] = p[i]
  BY <1>1
<1>3. \A x \in Queue(p) : \E i \in 1 .. Len(p) : p[i] = x[3]
  BY <1>1
<1>4. ASSUME NEW i \in 1 .. Len(p), NEW j \in 1 .. Len(p), p[i].key = p[j].key PROVE i = j
  <2>1. Waiting(i, p[i]) \in E /\ Waiting(j, p[j]) \in E
    BY <1>1
  <2>2. Waiting(i, p[i])[3].key = Waiting(j, p[j])[3].key
    BY <1>1, <1>4
  <2>3. Waiting(i, p[i]) = Waiting(j, p[j])
    BY <2>1, <2>2 DEF Content
  <2> QED BY <1>1, <2>3
<1> QED
  BY <1>2, <1>3, <1>4 DEF Lists

(* The entries of an array of slots, in a list. *)
LEMMA ListsOccupied ==
  ASSUME NEW rk, NEW V, None \notin V, NEW N \in Nat, NEW s \in [0 .. N - 1 -> V \cup {None}], NEW tag,
         NEW E, Content(E, rk), InSlots(tag, N, s) \subseteq E
  PROVE  Occupied(s, N, None) \in Seq(V) /\ Lists(Occupied(s, N, None), InSlots(tag, N, s))
<1>a. /\ Occupied(s, N, None) \in Seq(V)
      /\ \E places \in Seq(0 .. N - 1) :
           Enumerates(Occupied(s, N, None), places, s, TakenOf(s, N, None))
  BY OccupiedIs
<1> DEFINE o == Occupied(s, N, None)
           D == TakenOf(s, N, None)
           F == InSlots(tag, N, s)
<1>1. o \in Seq(V) /\ \E places \in Seq(0 .. N - 1) : Enumerates(o, places, s, D)
  BY <1>a
<1> HIDE DEF o
<1>b. \A d : d \in D <=> d \in 0 .. N - 1 /\ s[d] # None
  BY DEF TakenOf
<1>2. PICK places \in Seq(0 .. N - 1) : Enumerates(o, places, s, D)
  BY <1>1
<1>3. /\ Len(o) = Len(places)
      /\ \A i \in 1 .. Len(places) : places[i] \in D /\ o[i] = s[places[i]]
      /\ \A d \in D : \E i \in 1 .. Len(places) : places[i] = d
      /\ \A i, j \in 1 .. Len(places) : places[i] = places[j] => i = j
  BY <1>2 DEF Enumerates
<1>4. \A d \in D : At(tag, d, s[d]) \in F
  <2>1. \A d \in D : d \in 0 .. N - 1 /\ s[d] # None
    BY <1>b
  <2> HIDE DEF D
  <2> QED BY <2>1, InSlotsIs
<1>5. \A x \in F : x[2] \in D /\ x[3] = s[x[2]]
  <2>1. \A x \in F : x[2] \in 0 .. N - 1 /\ x[3] # None /\ x[3] = s[x[2]]
    BY InSlotsIs
  <2> QED BY <1>b, <2>1
<1> HIDE DEF D, F
<1>6. \A i \in 1 .. Len(o) : \E x \in F : x[3] = o[i]
  <2> TAKE i \in 1 .. Len(o)
  <2> DEFINE d == places[i]
  <2>1. d \in D /\ o[i] = s[d]
    BY <1>3
  <2> HIDE DEF d
  <2>2. At(tag, d, s[d]) \in F /\ At(tag, d, s[d])[3] = s[d]
    BY <1>4, <2>1, AtIs
  <2> QED BY <2>1, <2>2
<1>7. \A x \in F : \E i \in 1 .. Len(o) : o[i] = x[3]
  <2> TAKE x \in F
  <2> DEFINE d == x[2]
  <2>1. d \in D /\ x[3] = s[d]
    BY <1>5
  <2> HIDE DEF d
  <2>2. PICK i \in 1 .. Len(places) : places[i] = d
    BY <1>3, <2>1
  <2> QED BY <1>3, <2>1, <2>2
<1>8. ASSUME NEW i \in 1 .. Len(o), NEW j \in 1 .. Len(o), o[i].key = o[j].key PROVE i = j
  <2> DEFINE d == places[i]
             e == places[j]
  <2>1. d \in D /\ e \in D /\ s[d].key = s[e].key
    BY <1>3, <1>8
  <2> HIDE DEF d, e
  <2>2. At(tag, d, s[d]) \in E /\ At(tag, e, s[e]) \in E
    BY <1>4, <2>1 DEF F
  <2>3. At(tag, d, s[d])[3] = s[d] /\ At(tag, e, s[e])[3] = s[e] /\ At(tag, d, s[d])[2] = d /\ At(tag, e, s[e])[2] = e
    BY AtIs
  <2>4. At(tag, d, s[d]) = At(tag, e, s[e])
    BY <2>1, <2>2, <2>3 DEF Content
  <2>5. d = e
    BY <2>3, <2>4
  <2> QED BY <1>3, <2>5 DEF d, e
<1>9. Lists(o, F)
  BY <1>6, <1>7, <1>8 DEF Lists
<1> QED
  BY <1>1, <1>9 DEF o, F

(* The next of those still to be inserted is taken in hand. *)
LEMMA QueueTail ==
  ASSUME NEW rk, NEW A, NEW V, NEW p \in Seq(V), p # <<>>, Content(A \cup Queue(p), rk),
         \A x \in A : x[1] # "pending"
  PROVE  /\ Content(A \cup (Queue(Tail(p)) \cup {InHand(Head(p))}), rk)
         /\ Tail(p) \in Seq(V) /\ Head(p) \in V
         /\ \A x \in A : x[3].key # Head(p).key
<1> DEFINE r == Tail(p)
           h == Head(p)
           B == Queue(p)
           C == Queue(r) \cup {InHand(h)}
<1>1. /\ r \in Seq(V) /\ h \in V /\ h = p[1] /\ Len(p) \in Nat /\ Len(p) >= 1 /\ Len(r) = Len(p) - 1
      /\ \A i \in 1 .. Len(p) - 1 : r[i] = p[i + 1]
  OBVIOUS
<1> HIDE DEF r, h
<1>2. /\ \A i \in 1 .. Len(p) : Waiting(i, p[i]) \in B
      /\ \A x \in B : x[1] = "pending" /\ \E i \in 1 .. Len(p) : x = Waiting(i, p[i])
      /\ \A i, e : Waiting(i, e)[1] = "pending" /\ Waiting(i, e)[2] = i /\ Waiting(i, e)[3] = e
  BY QueueIs
<1>3. /\ \A i \in 1 .. Len(r) : Waiting(i, r[i]) \in Queue(r)
      /\ \A x \in Queue(r) : x[1] = "pending" /\ \E i \in 1 .. Len(r) : x = Waiting(i, r[i])
  BY <1>1, QueueIs
<1>4. InHand(h)[3] = h
  BY AtIs
<1> HIDE DEF B
<1>5. Lists(p, B)
  <2>1. B \subseteq A \cup B
    OBVIOUS
  <2> QED BY <2>1, ListsQueue DEF B
<1>6. \A i, j \in 1 .. Len(p) : p[i].key = p[j].key => i = j
  BY <1>5 DEF Lists
<1>7. \A y \in Queue(r) : \E i \in 1 .. Len(p) : i > 1 /\ y = Waiting(i - 1, p[i]) /\ y[3] = p[i] /\ Waiting(i, p[i]) \in B
  <2> TAKE y \in Queue(r)
  <2>1. PICK i \in 1 .. Len(r) : y = Waiting(i, r[i])
    BY <1>3
  <2>2. i + 1 \in 1 .. Len(p) /\ r[i] = p[i + 1] /\ i + 1 > 1 /\ (i + 1) - 1 = i
    BY <1>1
  <2> QED BY <1>2, <2>1, <2>2
<1>8. 1 \in 1 .. Len(p)
  BY <1>1
<1>9. \A y \in C : \E x \in B : x[3].key = y[3].key /\ x[3].values = y[3].values
  <2> TAKE y \in C
  <2>1. CASE y = InHand(h)
    BY <1>1, <1>2, <1>4, <1>8, <2>1
  <2>2. CASE y \in Queue(r)
    BY <1>2, <1>7, <2>2
  <2> QED BY <2>1, <2>2
<1>10. \A x \in B : \E y \in C : x[3].key = y[3].key
  <2> TAKE x \in B
  <2>1. PICK i \in 1 .. Len(p) : x = Waiting(i, p[i])
    BY <1>2
  <2>2. CASE i = 1
    BY <1>1, <1>2, <1>4, <2>1, <2>2
  <2>3. CASE i # 1
    <3>1. i - 1 \in 1 .. Len(r) /\ i - 1 \in 1 .. Len(p) - 1 /\ (i - 1) + 1 = i
      BY <1>1, <2>3
    <3>2. r[i - 1] = p[i] /\ Waiting(i - 1, r[i - 1]) \in C
      BY <1>1, <1>3, <3>1
    <3> QED BY <1>2, <2>1, <3>2
  <2> QED BY <2>2, <2>3
<1>11. ASSUME NEW y \in C, NEW z \in C, y[3].key = z[3].key PROVE y = z
  <2>1. ASSUME NEW w \in Queue(r) PROVE w[3].key # h.key
    BY <1>1, <1>6, <1>7, <1>8
  <2>2. ASSUME y \in Queue(r), z \in Queue(r) PROVE y = z
    BY <1>6, <1>7, <1>11, <2>2
  <2> QED BY <1>4, <1>11, <2>1, <2>2
<1>12. \A x \in A : x \notin B
  BY <1>2
<1> HIDE DEF C
<1>13. Content(A \cup C, rk)
  BY <1>9, <1>10, <1>11, <1>12, ContentSwap DEF B
<1>14. \A x \in A : x[3].key # h.key
  <2>1. Waiting(1, p[1]) \in B /\ Waiting(1, p[1])[3] = h
    BY <1>1, <1>2, <1>8
  <2> QED BY <1>12, <2>1 DEF Content, B
<1> QED
  BY <1>1, <1>13, <1>14 DEF C, r, h

-----------------------------------------------------------------------------
(* One of the two cuckoo tables.                                           *)
Homed(N, f, A) ==
  /\ A \in [0 .. N - 1 -> CK!EntrySet \cup {None}]
  /\ \A i \in 0 .. N - 1 : A[i] # None => i = f[A[i].key] % N

(* The slots of an array are finitely many. *)
LEMMA InSlotsFinite ==
  ASSUME NEW tag, NEW N \in Nat, NEW s
  PROVE  /\ IsFiniteSet(InSlots(tag, N, s)) /\ Cardinality(InSlots(tag, N, s)) \in Nat
         /\ Cardinality(InSlots(tag, N, s)) <= N
<1> DEFINE T == InSlots(tag, N, s)
           f == [x \in T |-> x[2]]
<1>1. f \in [T -> 0 .. N - 1]
  <2>1. \A x \in T : x[2] \in 0 .. N - 1
    BY InSlotsIs
  <2> HIDE DEF T
  <2> QED BY <2>1
<1>2. ASSUME NEW x \in T, NEW y \in T, f[x] = f[y] PROVE x = y
  <2>1. x[2] = y[2]
    BY <1>2
  <2>2. x = At(tag, x[2], s[x[2]]) /\ y = At(tag, y[2], s[y[2]])
    BY InSlotsIs
  <2> QED BY <2>1, <2>2
<1> HIDE DEF f, T
<1>3. f \in Injection(T, 0 .. N - 1)
  BY <1>1, <1>2 DEF Injection, IsInjective
<1>4. IsFiniteSet(0 .. N - 1) /\ Cardinality(0 .. N - 1) = N
  <2>1. IsFiniteSet(0 .. N - 1) /\ Cardinality(0 .. N - 1) = IF 0 > N - 1 THEN 0 ELSE (N - 1) - 0 + 1
    BY FS_Interval
  <2> QED BY <2>1
<1> QED
  BY <1>3, <1>4, FS_Injection, FS_CardinalityType DEF T

(* A new entry in an array, in the place of old, or where nothing was. *)
LEMMA HomeSlot ==
  ASSUME NEW N \in Nat \ {0}, NEW f \in [Keys -> Nat], NEW e \in CK!EntrySet
  PROVE  f[e.key] % N \in 0 .. N - 1 /\ e.key \in Keys /\ e # None
<1>1. e.key \in Keys
  BY DEF CK!EntrySet
<1>2. f[e.key] % N \in 0 .. N - 1
  BY <1>1, HomeInTable
<1> QED
  BY <1>1, <1>2, NoneAssumption

(* Writing an entry into its home slot. *)
LEMMA HomedPut ==
  ASSUME NEW N \in Nat \ {0}, NEW f, NEW A, Homed(N, f, A),
         NEW e \in CK!EntrySet, NEW i \in 0 .. N - 1, i = f[e.key] % N,
         NEW t \in [0 .. N - 1 -> CK!EntrySet \cup {None}], t[i] = e,
         \A j \in 0 .. N - 1 : j # i => t[j] = A[j]
  PROVE  Homed(N, f, t)
  BY DEF Homed

(* One element more. *)
LEMMA CardinalityPlus ==
  ASSUME NEW T, IsFiniteSet(T), NEW x, x \notin T
  PROVE  IsFiniteSet(T \cup {x}) /\ Cardinality(T \cup {x}) = Cardinality(T) + 1
  BY FS_AddElement

(* One element for another. *)
LEMMA CardinalityReplaced ==
  ASSUME NEW T, IsFiniteSet(T), NEW x \in T, NEW y, y \notin T \ {x}
  PROVE  IsFiniteSet(Replaced(T, x, y)) /\ Cardinality(Replaced(T, x, y)) = Cardinality(T)
<1> DEFINE R == T \ {x}
<1>1. IsFiniteSet(R) /\ Cardinality(R) = Cardinality(T) - 1
  BY FS_RemoveElement
<1>2. Cardinality(T) \in Nat
  BY FS_CardinalityType
<1> HIDE DEF R
<1>3. y \notin R => IsFiniteSet(R \cup {y}) /\ Cardinality(R \cup {y}) = Cardinality(R) + 1
  BY <1>1, FS_AddElement
<1> QED
  BY <1>1, <1>2, <1>3 DEF Replaced, R

(* t is A with e in slot i. *)
PutAt(N, A, i, e, t) == i \in 0 .. N - 1 /\ t[i] = e /\ \A j \in 0 .. N - 1 : j # i => t[j] = A[j]

(* Entries at other places than the slots tag and the hand of insert. *)
Apart(S, tag) == \A x \in S : x[1] # tag /\ x[1] # "call"

(* The entry in hand gets a vacant slot. *)
LEMMA PutVacant ==
  ASSUME NEW N \in Nat \ {0}, NEW tag, tag # "call", NEW A, NEW t, NEW i, NEW e, e # None,
         PutAt(N, A, i, e, t), A[i] = None, NEW S, Apart(S, tag), NEW Q, Apart(Q, tag),
         IsFiniteSet(InSlots(tag, N, A) \cup S), NEW rk,
         Content((InSlots(tag, N, A) \cup S) \cup (Q \cup {InHand(e)}), rk)
  PROVE  /\ IsFiniteSet(InSlots(tag, N, t) \cup S)
         /\ Cardinality(InSlots(tag, N, t) \cup S) = Cardinality(InSlots(tag, N, A) \cup S) + 1
         /\ Content((InSlots(tag, N, t) \cup S) \cup Q, rk)
<1>0. /\ i \in 0 .. N - 1 /\ \A x \in S : x[1] # tag /\ x[1] # "call"
      /\ \A x \in Q : x[1] # tag /\ x[1] # "call"
  BY DEF PutAt, Apart
<1> DEFINE I == InSlots(tag, N, A)
           J == InSlots(tag, N, t)
           old == At(tag, i, A[i])
           new == At(tag, i, e)
           hand == InHand(e)
<1>1. J = Replaced(I, old, new)
  <2>1. t[i] = e /\ \A j \in 0 .. N - 1 : j # i => t[j] = A[j]
    BY DEF PutAt
  <2>2. N \in Nat /\ i \in 0 .. N - 1
    BY DEF PutAt
  <2> QED BY <2>1, <2>2, InSlotsPut
<1>2. /\ \A x \in I : x[1] = tag /\ x # old /\ x # new
      /\ new[1] = tag /\ new[3] = e /\ hand[1] = "call" /\ hand[3] = e
  <2>1. /\ \A x \in I : x[1] = tag /\ A[x[2]] # None
        /\ \A j, y : At(tag, j, y)[1] = tag /\ At(tag, j, y)[2] = j /\ At(tag, j, y)[3] = y
    BY InSlotsIs
  <2>2. InHand(e)[1] = "call" /\ InHand(e)[3] = e
    BY AtIs
  <2> HIDE DEF I
  <2> QED BY <2>1, <2>2
<1> HIDE DEF I, J, old, new, hand
<1>3. J = I \cup {new} /\ new \notin I \cup S
  BY <1>0, <1>1, <1>2 DEF Replaced
<1> DEFINE E == (I \cup S) \cup (Q \cup {hand})
<1>4. Content(E, rk) /\ hand \in E
  BY DEF I, hand
<1>5. (E \ {hand}) \cup {new} = (J \cup S) \cup Q
  BY <1>0, <1>2, <1>3
<1>6. hand[3].key = new[3].key /\ hand[3].values = new[3].values
  BY <1>2
<1> HIDE DEF E
<1>7. Content((E \ {hand}) \cup {new}, rk)
  BY <1>4, <1>6, ContentMove
<1>8. J \cup S = (I \cup S) \cup {new}
  BY <1>3
<1> DEFINE T == I \cup S
<1>9. IsFiniteSet(T)
  BY DEF I
<1>10. IsFiniteSet(T \cup {new}) /\ Cardinality(T \cup {new}) = Cardinality(T) + 1
  <2>1. new \notin T
    BY <1>3
  <2> HIDE DEF T
  <2> QED BY <1>9, <2>1, CardinalityPlus
<1> QED
  BY <1>5, <1>7, <1>8, <1>10 DEF I, J

(* The entry in hand takes the place of another, which is in hand now. *)
LEMMA PutTaken ==
  ASSUME NEW N \in Nat \ {0}, NEW tag, tag # "call", NEW A, NEW t, NEW i, NEW e, e # None,
         PutAt(N, A, i, e, t), A[i] # None, NEW S, Apart(S, tag), NEW Q, Apart(Q, tag),
         IsFiniteSet(InSlots(tag, N, A) \cup S), NEW rk,
         Content((InSlots(tag, N, A) \cup S) \cup (Q \cup {InHand(e)}), rk)
  PROVE  /\ IsFiniteSet(InSlots(tag, N, t) \cup S)
         /\ Cardinality(InSlots(tag, N, t) \cup S) = Cardinality(InSlots(tag, N, A) \cup S)
         /\ Content((InSlots(tag, N, t) \cup S) \cup (Q \cup {InHand(A[i])}), rk)
<1>0. /\ i \in 0 .. N - 1 /\ \A x \in S : x[1] # tag /\ x[1] # "call"
      /\ \A x \in Q : x[1] # tag /\ x[1] # "call"
  BY DEF PutAt, Apart
<1> DEFINE I == InSlots(tag, N, A)
           J == InSlots(tag, N, t)
           old == At(tag, i, A[i])
           new == At(tag, i, e)
           was == InHand(e)
           hand == InHand(A[i])
<1>1. J = Replaced(I, old, new)
  <2>1. t[i] = e /\ \A j \in 0 .. N - 1 : j # i => t[j] = A[j]
    BY DEF PutAt
  <2>2. N \in Nat /\ i \in 0 .. N - 1
    BY DEF PutAt
  <2> QED BY <2>1, <2>2, InSlotsPut
<1>2. /\ \A x \in I : x[1] = tag
      /\ old \in I /\ old[1] = tag /\ old[3] = A[i]
      /\ \A x \in I : x[2] = i => x = old
      /\ new[1] = tag /\ new[2] = i /\ new[3] = e
  <2>1. /\ \A x \in I : x[1] = tag /\ x = At(tag, x[2], x[3]) /\ x[3] = A[x[2]]
        /\ \A j, y : At(tag, j, y)[1] = tag /\ At(tag, j, y)[2] = j /\ At(tag, j, y)[3] = y
        /\ \A j \in 0 .. N - 1 : A[j] # None => At(tag, j, A[j]) \in I
    BY <1>0, InSlotsIs
  <2> HIDE DEF I
  <2> QED BY <1>0, <2>1
<1>3. was[1] = "call" /\ was[3] = e /\ hand[1] = "call" /\ hand[3] = A[i]
  BY AtIs
<1> HIDE DEF I, J, old, new, hand, was
<1> DEFINE E == (I \cup S) \cup (Q \cup {was})
           E2 == (E \ {was}) \cup {new}
<1>4. Content(E, rk) /\ was \in E
  BY DEF I, was
<1>5. was # old /\ was \notin I \cup S \cup Q
  BY <1>0, <1>2, <1>3
<1>6. e.key # A[i].key
  <2>1. was \in E /\ old \in E
    BY <1>2
  <2> HIDE DEF E
  <2> QED BY <1>2, <1>3, <1>4, <1>5, <2>1 DEF Content
<1>7. new # old
  BY <1>2, <1>6
<1>8. new \notin I \cup S
  <2>1. new \notin I
    BY <1>2, <1>7
  <2> QED BY <1>0, <1>2, <2>1
<1>9. Content(E2, rk)
  <2>1. was[3].key = new[3].key /\ was[3].values = new[3].values
    BY <1>2, <1>3
  <2> HIDE DEF E
  <2> QED BY <1>4, <2>1, ContentMove
<1>10. old \in E2 /\ old[3].key = hand[3].key /\ old[3].values = hand[3].values
  BY <1>2, <1>3, <1>5
<1>11. (E2 \ {old}) \cup {hand} = (J \cup S) \cup (Q \cup {hand})
  <2>1. E2 = ((I \cup S) \cup Q) \cup {new}
    BY <1>5
  <2>2. J = (I \ {old}) \cup {new}
    BY <1>1 DEF Replaced
  <2>3. old \notin S \cup Q
    BY <1>0, <1>2
  <2> QED BY <1>7, <2>1, <2>2, <2>3
<1> HIDE DEF E2
<1>12. Content((E2 \ {old}) \cup {hand}, rk)
  BY <1>9, <1>10, ContentMove
<1> DEFINE T == I \cup S
<1>13. J \cup S = Replaced(T, old, new)
  <2>1. old \notin S
    BY <1>0, <1>2
  <2> QED BY <1>1, <2>1 DEF Replaced
<1>14. IsFiniteSet(T) /\ old \in T /\ new \notin T \ {old}
  BY <1>2, <1>8 DEF I
<1>15. IsFiniteSet(Replaced(T, old, new)) /\ Cardinality(Replaced(T, old, new)) = Cardinality(T)
  <2> HIDE DEF T
  <2> QED BY <1>14, CardinalityReplaced
<1> QED
  BY <1>11, <1>12, <1>13, <1>15 DEF I, J, hand

(* An entry gets one more row. *)
LEMMA PutMore ==
  ASSUME NEW N \in Nat \ {0}, NEW tag, NEW A, NEW t, NEW i, NEW e, e # None,
         PutAt(N, A, i, e, t), A[i] # None, NEW S, Apart(S, tag), NEW Q, Apart(Q, tag),
         IsFiniteSet(InSlots(tag, N, A) \cup S), NEW rk \in Seq(Values),
         Content((InSlots(tag, N, A) \cup S) \cup Q, rk),
         e.key = A[i].key, e.values = A[i].values \o <<Len(rk) + 1>>
  PROVE  /\ IsFiniteSet(InSlots(tag, N, t) \cup S)
         /\ Cardinality(InSlots(tag, N, t) \cup S) = Cardinality(InSlots(tag, N, A) \cup S)
         /\ Content((InSlots(tag, N, t) \cup S) \cup Q, Append(rk, e.key))
<1>0. /\ i \in 0 .. N - 1 /\ \A x \in S : x[1] # tag /\ x[1] # "call"
      /\ \A x \in Q : x[1] # tag /\ x[1] # "call"
  BY DEF PutAt, Apart
<1> DEFINE I == InSlots(tag, N, A)
           J == InSlots(tag, N, t)
           old == At(tag, i, A[i])
           new == At(tag, i, e)
           E == (I \cup S) \cup Q
<1>1. J = Replaced(I, old, new)
  <2>1. t[i] = e /\ \A j \in 0 .. N - 1 : j # i => t[j] = A[j]
    BY DEF PutAt
  <2>2. N \in Nat /\ i \in 0 .. N - 1
    BY DEF PutAt
  <2> QED BY <2>1, <2>2, InSlotsPut
<1>2. /\ old \in I /\ old[1] = tag /\ old[3] = A[i]
      /\ \A x \in I : x[2] = i => x = old
      /\ new[1] = tag /\ new[2] = i /\ new[3] = e
  <2>1. /\ \A x \in I : x[1] = tag /\ x = At(tag, x[2], x[3]) /\ x[3] = A[x[2]]
        /\ \A j, y : At(tag, j, y)[1] = tag /\ At(tag, j, y)[2] = j /\ At(tag, j, y)[3] = y
        /\ \A j \in 0 .. N - 1 : A[j] # None => At(tag, j, A[j]) \in I
    BY InSlotsIs
  <2> HIDE DEF I
  <2> QED BY <1>0, <2>1
<1>3. Content(E, rk)
  OBVIOUS
<1> HIDE DEF I, J, old, new
<1>4. old \notin S /\ old \notin Q /\ new \notin S /\ old \in E
  BY <1>0, <1>2
<1>5. (E \ {old}) \cup {new} = (J \cup S) \cup Q
  BY <1>1, <1>4 DEF Replaced
<1> HIDE DEF E
<1>6. Content((E \ {old}) \cup {new}, Append(rk, e.key))
  <2>1. new[3].key = old[3].key /\ new[3].values = old[3].values \o <<Len(rk) + 1>> /\ old[3].key = e.key
    BY <1>2
  <2> QED BY <1>3, <1>4, <2>1, ContentMore
<1> DEFINE T == I \cup S
<1>7. J \cup S = Replaced(T, old, new)
  BY <1>1, <1>4 DEF Replaced
<1>8. IsFiniteSet(T) /\ old \in T /\ new \notin T \ {old}
  BY <1>2, <1>4 DEF I
<1>9. IsFiniteSet(Replaced(T, old, new)) /\ Cardinality(Replaced(T, old, new)) = Cardinality(T)
  <2> HIDE DEF T
  <2> QED BY <1>8, CardinalityReplaced
<1> QED
  BY <1>5, <1>6, <1>7, <1>9 DEF I, J

-----------------------------------------------------------------------------
(* The two cuckoo tables: every entry in its home slot of one of them, in  *)
(* hand or waiting, one entry per key.                                     *)
CKStored(N, one, two) == InSlots("one", N, one) \cup InSlots("two", N, two)

(* The entry in the hand of insert, if it runs. *)
CKHeld(c) == IF c = None THEN {} ELSE {InHand(c.current)}

(* The invariant of a cuckoo table that holds the rows rk. *)
CKInv(N, n, one, two, c, p, rk) ==
  /\ N \in Nat \ {0} /\ N >= MinSlots
  /\ Homed(N, Hash1, one) /\ Homed(N, Hash2, two)
  /\ p \in Seq(CK!EntrySet)
  /\ IsFiniteSet(CKStored(N, one, two)) /\ n = Cardinality(CKStored(N, one, two))
  /\ c # None => c \in CK!CallSet /\ (c.kicks = 0 \/ c.kicks < n)
  /\ Content(CKStored(N, one, two) \cup (Queue(p) \cup CKHeld(c)), rk)

(* What is where. *)
LEMMA CKParts ==
  ASSUME NEW N, NEW n, NEW one, NEW two, NEW c, NEW p, NEW rk, CKInv(N, n, one, two, c, p, rk)
  PROVE  /\ \A x \in InSlots("one", N, one) : x[1] = "one"
         /\ \A x \in InSlots("two", N, two) : x[1] = "two"
         /\ \A x \in Queue(p) : x[1] = "pending"
         /\ \A x \in CKHeld(c) : x[1] = "call"
         /\ N \in Nat \ {0} /\ p \in Seq(CK!EntrySet)
<1>1. p \in Seq(CK!EntrySet) /\ N \in Nat \ {0}
  BY DEF CKInv
<1>2. \A x \in Queue(p) : x[1] = "pending"
  BY <1>1, QueueIs
<1>3. \A x \in CKHeld(c) : x[1] = "call"
  BY AtIs DEF CKHeld
<1>4. \A tag, s : \A x \in InSlots(tag, N, s) : x[1] = tag
  BY InSlotsIs
<1> QED
  BY <1>1, <1>2, <1>3, <1>4

(* The counters stay within the two tables. *)
LEMMA CKCount ==
  ASSUME NEW N, NEW n, NEW one, NEW two, NEW c, NEW p, NEW rk, CKInv(N, n, one, two, c, p, rk)
  PROVE  n \in 0 .. 2 * N /\ (c # None => c.kicks \in 0 .. 2 * N)
<1> DEFINE S == InSlots("one", N, one)
           T == InSlots("two", N, two)
<1>1. N \in Nat
  BY DEF CKInv
<1>2. /\ IsFiniteSet(S) /\ Cardinality(S) \in Nat /\ Cardinality(S) <= N
      /\ IsFiniteSet(T) /\ Cardinality(T) \in Nat /\ Cardinality(T) <= N
  BY <1>1, InSlotsFinite
<1> HIDE DEF S, T
<1>3. Cardinality(S \cup T) = Cardinality(S) + Cardinality(T) - Cardinality(S \cap T)
      /\ IsFiniteSet(S \cup T)
  BY <1>2, FS_Union
<1>4. IsFiniteSet(S \cap T)
  BY <1>2, FS_Intersection
<1>5. Cardinality(S \cap T) \in Nat /\ Cardinality(S \cup T) \in Nat
  BY <1>3, <1>4, FS_CardinalityType
<1>6. n = Cardinality(S \cup T)
  BY DEF CKInv, CKStored, S, T
<1>7. n \in 0 .. 2 * N
  BY <1>1, <1>2, <1>3, <1>5, <1>6
<1>8. c # None => c.kicks \in Nat /\ (c.kicks = 0 \/ c.kicks < n)
  BY DEF CKInv, CK!CallSet
<1> QED
  BY <1>1, <1>7, <1>8

(* A row whose key is NULL changes nothing. *)
LEMMA CKNull ==
  ASSUME NEW N, NEW n, NEW one, NEW two, NEW p, NEW rk \in Seq(Values), CKInv(N, n, one, two, None, p, rk)
  PROVE  CKInv(N, n, one, two, None, p, Append(rk, Null))
  BY ContentNull, NullAssumption DEF CKInv

(* Nothing is in a table that has just been made. *)
LEMMA CKVacated ==
  ASSUME NEW N \in Nat \ {0}, N >= MinSlots, NEW none, none = [i \in 0 .. N - 1 |-> None],
         NEW q \in Seq(CK!EntrySet), NEW rk, Content(Queue(q), rk)
  PROVE  CKInv(N, 0, none, none, None, q, rk)
<1>1. \A i \in 0 .. N - 1 : none[i] = None
  OBVIOUS
<1>2. none \in [0 .. N - 1 -> CK!EntrySet \cup {None}]
  OBVIOUS
<1>3. Homed(N, Hash1, none) /\ Homed(N, Hash2, none)
  BY <1>1, <1>2 DEF Homed
<1>4. \A tag : InSlots(tag, N, none) = {}
  <2> TAKE tag
  <2>1. \A x \in InSlots(tag, N, none) : \E i \in 0 .. N - 1 : none[i] # None
    BY InSlotsIs
  <2> QED BY <1>1, <2>1
<1>5. CKStored(N, none, none) = {}
  BY <1>4 DEF CKStored
<1>6. IsFiniteSet({}) /\ Cardinality({}) = 0
  BY FS_EmptySet
<1>7. CKStored(N, none, none) \cup (Queue(q) \cup CKHeld(None)) = Queue(q)
  BY <1>5 DEF CKHeld
<1> QED
  BY <1>3, <1>5, <1>6, <1>7 DEF CKInv

(* The entry in hand finds a vacant slot. *)
LEMMA CKSettle ==
  ASSUME NEW N, NEW n, NEW one, NEW two, NEW c, NEW p, NEW rk, CKInv(N, n, one, two, c, p, rk), c # None
  PROVE  /\ one[Hash1[c.current.key] % N] = None =>
              CKInv(N, n + 1, [one EXCEPT ![Hash1[c.current.key] % N] = c.current], two, None, p, rk)
         /\ two[Hash2[c.current.key] % N] = None =>
              CKInv(N, n + 1, one, [two EXCEPT ![Hash2[c.current.key] % N] = c.current], None, p, rk)
<1> DEFINE e == c.current
           Q == Queue(p)
           I == InSlots("one", N, one)
           J == InSlots("two", N, two)
<1>1. /\ \A x \in I : x[1] = "one"
      /\ \A x \in J : x[1] = "two"
      /\ \A x \in Q : x[1] = "pending"
      /\ N \in Nat \ {0} /\ p \in Seq(CK!EntrySet)
  BY CKParts
<1>2. /\ e \in CK!EntrySet /\ e # None
      /\ Hash1 \in [Keys -> Nat] /\ Hash2 \in [Keys -> Nat]
      /\ IsFiniteSet(I \cup J) /\ n = Cardinality(I \cup J)
      /\ Homed(N, Hash1, one) /\ Homed(N, Hash2, two)
      /\ Content((I \cup J) \cup (Q \cup {InHand(e)}), rk)
  BY NoneAssumption, HashAssumption DEF CKInv, CK!CallSet, CKStored, CKHeld
<1>3. I \cup J = J \cup I
  OBVIOUS
<1>4. N >= MinSlots
  BY DEF CKInv
<1> HIDE DEF e, Q
<1>5. ASSUME one[Hash1[e.key] % N] = None
      PROVE  CKInv(N, n + 1, [one EXCEPT ![Hash1[e.key] % N] = e], two, None, p, rk)
  <2> DEFINE i == Hash1[e.key] % N
             t == [one EXCEPT ![i] = e]
  <2>1. /\ Homed(N, Hash1, t) /\ i \in 0 .. N - 1
        /\ t[i] = e /\ \A j \in 0 .. N - 1 : j # i => t[j] = one[j]
    <3>1. i \in 0 .. N - 1
      BY <1>1, <1>2, HomeSlot
    <3>2. one \in [0 .. N - 1 -> CK!EntrySet \cup {None}] /\ Homed(N, Hash1, one)
      BY <1>2 DEF Homed
    <3>3. i = Hash1[e.key] % N
      OBVIOUS
    <3> HIDE DEF I, J, i
    <3>4. /\ t \in [0 .. N - 1 -> CK!EntrySet \cup {None}]
          /\ t[i] = e /\ \A j \in 0 .. N - 1 : j # i => t[j] = one[j]
      BY <1>2, <3>1, <3>2
    <3> HIDE DEF t
    <3>5. Homed(N, Hash1, t)
      BY <3>2, <3>3, <3>4 DEF Homed
    <3> QED BY <3>1, <3>4, <3>5
  <2>2. one[i] = None
    BY <1>5
  <2> HIDE DEF i, t, J, Q
  <2>3. /\ IsFiniteSet(InSlots("one", N, t) \cup J)
        /\ Cardinality(InSlots("one", N, t) \cup J) = Cardinality(InSlots("one", N, one) \cup J) + 1
        /\ Content((InSlots("one", N, t) \cup J) \cup Q, rk)
    <3>1. /\ "one" # "call" /\ N \in Nat \ {0} /\ e # None
          /\ Apart(J, "one") /\ Apart(Q, "one") /\ PutAt(N, one, i, e, t)
      BY <1>1, <1>2, <2>1 DEF Apart, PutAt
    <3>2. /\ IsFiniteSet(InSlots("one", N, one) \cup J) /\ n = Cardinality(InSlots("one", N, one) \cup J)
          /\ Content((InSlots("one", N, one) \cup J) \cup (Q \cup {InHand(e)}), rk)
      BY <1>2, <1>3
    <3> QED BY <2>2, <3>1, <3>2, PutVacant
  <2>4. CKStored(N, t, two) = InSlots("one", N, t) \cup J /\ Q \cup CKHeld(None) = Q
    BY DEF CKStored, J, CKHeld
  <2>5. CKInv(N, n + 1, t, two, None, p, rk)
    BY <1>1, <1>2, <1>4, <2>1, <2>3, <2>4 DEF CKInv, Q
  <2> QED BY <2>5 DEF i, t
<1>6. ASSUME two[Hash2[e.key] % N] = None
      PROVE  CKInv(N, n + 1, one, [two EXCEPT ![Hash2[e.key] % N] = e], None, p, rk)
  <2> DEFINE i == Hash2[e.key] % N
             t == [two EXCEPT ![i] = e]
  <2>1. /\ Homed(N, Hash2, t) /\ i \in 0 .. N - 1
        /\ t[i] = e /\ \A j \in 0 .. N - 1 : j # i => t[j] = two[j]
    <3>1. i \in 0 .. N - 1
      BY <1>1, <1>2, HomeSlot
    <3>2. two \in [0 .. N - 1 -> CK!EntrySet \cup {None}] /\ Homed(N, Hash2, two)
      BY <1>2 DEF Homed
    <3>3. i = Hash2[e.key] % N
      OBVIOUS
    <3> HIDE DEF I, J, i
    <3>4. /\ t \in [0 .. N - 1 -> CK!EntrySet \cup {None}]
          /\ t[i] = e /\ \A j \in 0 .. N - 1 : j # i => t[j] = two[j]
      BY <1>2, <3>1, <3>2
    <3> HIDE DEF t
    <3>5. Homed(N, Hash2, t)
      BY <3>2, <3>3, <3>4 DEF Homed
    <3> QED BY <3>1, <3>4, <3>5
  <2>2. two[i] = None
    BY <1>6
  <2> HIDE DEF i, t, I, Q
  <2>3. /\ IsFiniteSet(InSlots("two", N, t) \cup I)
        /\ Cardinality(InSlots("two", N, t) \cup I) = Cardinality(InSlots("two", N, two) \cup I) + 1
        /\ Content((InSlots("two", N, t) \cup I) \cup Q, rk)
    <3>1. /\ "two" # "call" /\ N \in Nat \ {0} /\ e # None
          /\ Apart(I, "two") /\ Apart(Q, "two") /\ PutAt(N, two, i, e, t)
      BY <1>1, <1>2, <2>1 DEF Apart, PutAt
    <3>2. /\ IsFiniteSet(InSlots("two", N, two) \cup I) /\ n = Cardinality(InSlots("two", N, two) \cup I)
          /\ Content((InSlots("two", N, two) \cup I) \cup (Q \cup {InHand(e)}), rk)
      BY <1>2, <1>3
    <3> QED BY <2>2, <3>1, <3>2, PutVacant
  <2>4. CKStored(N, one, t) = InSlots("two", N, t) \cup I /\ Q \cup CKHeld(None) = Q
    BY DEF CKStored, I, CKHeld
  <2>5. CKInv(N, n + 1, one, t, None, p, rk)
    BY <1>1, <1>2, <1>4, <2>1, <2>3, <2>4 DEF CKInv, Q
  <2> QED BY <2>5 DEF i, t
<1> QED
  BY <1>5, <1>6 DEF e

(* It takes the slot of another entry, which is put in hand. *)
CKCarried(N, n, one, two, p, e, rk) ==
  /\ N \in Nat \ {0} /\ N >= MinSlots
  /\ Homed(N, Hash1, one) /\ Homed(N, Hash2, two)
  /\ p \in Seq(CK!EntrySet) /\ e \in CK!EntrySet
  /\ IsFiniteSet(CKStored(N, one, two)) /\ n = Cardinality(CKStored(N, one, two))
  /\ Content(CKStored(N, one, two) \cup (Queue(p) \cup {InHand(e)}), rk)

(* The entry in hand takes its home slot and its occupant leaves. *)
LEMMA CKEvict ==
  ASSUME NEW N, NEW n, NEW one, NEW two, NEW c, NEW p, NEW rk, CKInv(N, n, one, two, c, p, rk), c # None
  PROVE  /\ one[Hash1[c.current.key] % N] # None =>
              CKCarried(N, n, [one EXCEPT ![Hash1[c.current.key] % N] = c.current], two, p,
                        one[Hash1[c.current.key] % N], rk)
         /\ two[Hash2[c.current.key] % N] # None =>
              CKCarried(N, n, one, [two EXCEPT ![Hash2[c.current.key] % N] = c.current], p,
                        two[Hash2[c.current.key] % N], rk)
<1> DEFINE e == c.current
           Q == Queue(p)
           I == InSlots("one", N, one)
           J == InSlots("two", N, two)
<1>1. /\ \A x \in I : x[1] = "one"
      /\ \A x \in J : x[1] = "two"
      /\ \A x \in Q : x[1] = "pending"
      /\ N \in Nat \ {0} /\ p \in Seq(CK!EntrySet)
  BY CKParts
<1>2. /\ e \in CK!EntrySet /\ e # None
      /\ Hash1 \in [Keys -> Nat] /\ Hash2 \in [Keys -> Nat]
      /\ IsFiniteSet(I \cup J) /\ n = Cardinality(I \cup J)
      /\ Homed(N, Hash1, one) /\ Homed(N, Hash2, two)
      /\ Content((I \cup J) \cup (Q \cup {InHand(e)}), rk)
  BY NoneAssumption, HashAssumption DEF CKInv, CK!CallSet, CKStored, CKHeld
<1>3. I \cup J = J \cup I
  OBVIOUS
<1>4. N >= MinSlots
  BY DEF CKInv
<1> HIDE DEF e, Q
<1>5. ASSUME one[Hash1[e.key] % N] # None
      PROVE  CKCarried(N, n, [one EXCEPT ![Hash1[e.key] % N] = e], two, p, one[Hash1[e.key] % N], rk)
  <2> DEFINE i == Hash1[e.key] % N
             t == [one EXCEPT ![i] = e]
  <2>1. /\ Homed(N, Hash1, t) /\ i \in 0 .. N - 1
        /\ t[i] = e /\ \A j \in 0 .. N - 1 : j # i => t[j] = one[j]
    <3>1. i \in 0 .. N - 1
      BY <1>1, <1>2, HomeSlot
    <3>2. one \in [0 .. N - 1 -> CK!EntrySet \cup {None}] /\ Homed(N, Hash1, one)
      BY <1>2 DEF Homed
    <3>3. i = Hash1[e.key] % N
      OBVIOUS
    <3> HIDE DEF I, J, i
    <3>4. /\ t \in [0 .. N - 1 -> CK!EntrySet \cup {None}]
          /\ t[i] = e /\ \A j \in 0 .. N - 1 : j # i => t[j] = one[j]
      BY <1>2, <3>1, <3>2
    <3> HIDE DEF t
    <3>5. Homed(N, Hash1, t)
      BY <3>2, <3>3, <3>4 DEF Homed
    <3> QED BY <3>1, <3>4, <3>5
  <2>2. one[i] # None /\ one[i] \in CK!EntrySet
    BY <1>2, <1>5, <2>1 DEF Homed
  <2> HIDE DEF i, t, J, Q
  <2>3. /\ IsFiniteSet(InSlots("one", N, t) \cup J)
        /\ Cardinality(InSlots("one", N, t) \cup J) = n
        /\ Content((InSlots("one", N, t) \cup J) \cup (Q \cup {InHand(one[i])}), rk)
    <3>1. /\ "one" # "call" /\ N \in Nat \ {0} /\ e # None
          /\ Apart(J, "one") /\ Apart(Q, "one") /\ PutAt(N, one, i, e, t)
      BY <1>1, <1>2, <2>1 DEF Apart, PutAt
    <3>2. /\ IsFiniteSet(InSlots("one", N, one) \cup J) /\ n = Cardinality(InSlots("one", N, one) \cup J)
          /\ Content((InSlots("one", N, one) \cup J) \cup (Q \cup {InHand(e)}), rk)
      BY <1>2, <1>3
    <3> QED BY <2>2, <3>1, <3>2, PutTaken
  <2>4. CKStored(N, t, two) = InSlots("one", N, t) \cup J
    BY DEF CKStored, J
  <2>5. CKCarried(N, n, t, two, p, one[i], rk)
    BY <1>1, <1>2, <1>4, <2>1, <2>2, <2>3, <2>4 DEF CKCarried, Q
  <2> QED BY <2>5 DEF i, t
<1>6. ASSUME two[Hash2[e.key] % N] # None
      PROVE  CKCarried(N, n, one, [two EXCEPT ![Hash2[e.key] % N] = e], p, two[Hash2[e.key] % N], rk)
  <2> DEFINE i == Hash2[e.key] % N
             t == [two EXCEPT ![i] = e]
  <2>1. /\ Homed(N, Hash2, t) /\ i \in 0 .. N - 1
        /\ t[i] = e /\ \A j \in 0 .. N - 1 : j # i => t[j] = two[j]
    <3>1. i \in 0 .. N - 1
      BY <1>1, <1>2, HomeSlot
    <3>2. two \in [0 .. N - 1 -> CK!EntrySet \cup {None}] /\ Homed(N, Hash2, two)
      BY <1>2 DEF Homed
    <3>3. i = Hash2[e.key] % N
      OBVIOUS
    <3> HIDE DEF I, J, i
    <3>4. /\ t \in [0 .. N - 1 -> CK!EntrySet \cup {None}]
          /\ t[i] = e /\ \A j \in 0 .. N - 1 : j # i => t[j] = two[j]
      BY <1>2, <3>1, <3>2
    <3> HIDE DEF t
    <3>5. Homed(N, Hash2, t)
      BY <3>2, <3>3, <3>4 DEF Homed
    <3> QED BY <3>1, <3>4, <3>5
  <2>2. two[i] # None /\ two[i] \in CK!EntrySet
    BY <1>2, <1>6, <2>1 DEF Homed
  <2> HIDE DEF i, t, I, Q
  <2>3. /\ IsFiniteSet(InSlots("two", N, t) \cup I)
        /\ Cardinality(InSlots("two", N, t) \cup I) = n
        /\ Content((InSlots("two", N, t) \cup I) \cup (Q \cup {InHand(two[i])}), rk)
    <3>1. /\ "two" # "call" /\ N \in Nat \ {0} /\ e # None
          /\ Apart(I, "two") /\ Apart(Q, "two") /\ PutAt(N, two, i, e, t)
      BY <1>1, <1>2, <2>1 DEF Apart, PutAt
    <3>2. /\ IsFiniteSet(InSlots("two", N, two) \cup I) /\ n = Cardinality(InSlots("two", N, two) \cup I)
          /\ Content((InSlots("two", N, two) \cup I) \cup (Q \cup {InHand(e)}), rk)
      BY <1>2, <1>3
    <3> QED BY <2>2, <3>1, <3>2, PutTaken
  <2>4. CKStored(N, one, t) = InSlots("two", N, t) \cup I
    BY DEF CKStored, I
  <2>5. CKCarried(N, n, one, t, p, two[i], rk)
    BY <1>1, <1>2, <1>4, <2>1, <2>2, <2>3, <2>4 DEF CKCarried, Q
  <2> QED BY <2>5 DEF i, t
<1> QED
  BY <1>5, <1>6 DEF e

(* Another kick. *)
LEMMA CKKick ==
  ASSUME NEW N, NEW n, NEW one, NEW two, NEW p, NEW e, NEW rk, CKCarried(N, n, one, two, p, e, rk),
         NEW side \in {1, 2}, NEW kicks \in Nat, kicks < n
  PROVE  CKInv(N, n, one, two, [current |-> e, side |-> side, kicks |-> kicks], p, rk)
<1> DEFINE c == [current |-> e, side |-> side, kicks |-> kicks]
<1>1. c \in CK!CallSet /\ c.current = e /\ c.kicks = kicks
  BY DEF CKCarried, CK!CallSet
<1>2. c # None
  BY <1>1, NoneAssumption
<1> HIDE DEF c
<1>3. CKHeld(c) = {InHand(e)}
  BY <1>1, <1>2 DEF CKHeld
<1>4. CKInv(N, n, one, two, c, p, rk)
  BY <1>1, <1>2, <1>3 DEF CKCarried, CKInv
<1> QED
  BY <1>4 DEF c

(* The tables are doubled, and all entries are to be inserted again. *)
LEMMA CKRehash ==
  ASSUME NEW N, NEW n, NEW one, NEW two, NEW p, NEW e, NEW rk, CKCarried(N, n, one, two, p, e, rk)
  PROVE  CKInv(2 * N, 0, [i \in 0 .. 2 * N - 1 |-> None], [i \in 0 .. 2 * N - 1 |-> None], None,
               Occupied(one, N, None) \o Occupied(two, N, None) \o <<e>> \o p, rk)
<1> DEFINE V == CK!EntrySet
           I == InSlots("one", N, one)
           J == InSlots("two", N, two)
           Q == Queue(p)
           h == InHand(e)
           E == (I \cup J) \cup (Q \cup {h})
           a == Occupied(one, N, None)
           b == Occupied(two, N, None)
           o == <<e>>
           q == a \o b \o o \o p
<1>1. /\ N \in Nat \ {0} /\ N >= MinSlots /\ p \in Seq(V) /\ e \in V /\ Content(E, rk)
      /\ one \in [0 .. N - 1 -> V \cup {None}] /\ two \in [0 .. N - 1 -> V \cup {None}]
  BY DEF CKCarried, CKStored, Homed
<1>2. /\ \A x \in I : x[1] = "one"
      /\ \A x \in J : x[1] = "two"
      /\ \A x \in Q : x[1] = "pending"
      /\ h[1] = "call"
  <2>1. \A tag, s : \A x \in InSlots(tag, N, s) : x[1] = tag
    BY InSlotsIs
  <2>2. \A x \in Q : x[1] = "pending"
    BY <1>1, QueueIs
  <2>3. h[1] = "call"
    BY AtIs
  <2> QED BY <2>1, <2>2, <2>3
<1>3. None \notin V
  BY NoneAssumption
<1>4. I \subseteq E /\ J \subseteq E /\ Q \subseteq E
  OBVIOUS
<1>6. a \in Seq(V) /\ Lists(a, I)
  <2> HIDE DEF E, V
  <2> QED BY <1>1, <1>3, <1>4, ListsOccupied
<1>7. b \in Seq(V) /\ Lists(b, J)
  <2> HIDE DEF E, V
  <2> QED BY <1>1, <1>3, <1>4, ListsOccupied
<1>8. Lists(p, Q)
  <2> HIDE DEF E, V
  <2> QED BY <1>1, <1>4, ListsQueue
<1>9. Lists(o, {h}) /\ o \in Seq(V)
  BY <1>1, ListsOne
<1> HIDE DEF V, I, J, Q, h, E, a, b, o
<1>10. Lists(a \o b, I \cup J) /\ a \o b \in Seq(V)
  <2>1. \A x \in I : x \notin J
    BY <1>2
  <2> QED BY <1>1, <1>4, <1>6, <1>7, <2>1, ListsJoined
<1>11. Lists((a \o b) \o o, (I \cup J) \cup {h}) /\ (a \o b) \o o \in Seq(V)
  <2>1. (\A x \in I \cup J : x \notin {h}) /\ I \cup J \subseteq E /\ {h} \subseteq E
    BY <1>2, <1>4 DEF E
  <2> QED BY <1>1, <1>9, <1>10, <2>1, ListsJoined
<1>12. Lists(((a \o b) \o o) \o p, ((I \cup J) \cup {h}) \cup Q) /\ ((a \o b) \o o) \o p \in Seq(V)
  <2>1. (\A x \in (I \cup J) \cup {h} : x \notin Q) /\ (I \cup J) \cup {h} \subseteq E
    BY <1>2, <1>4 DEF E
  <2> QED BY <1>1, <1>4, <1>8, <1>11, <2>1, ListsJoined
<1>13. ((I \cup J) \cup {h}) \cup Q = E
  BY DEF E
<1>14. q \in Seq(V) /\ Lists(q, E)
  BY <1>12, <1>13
<1> HIDE DEF q
<1>15. Content(Queue(q), rk)
  BY <1>1, <1>14, ListsContent
<1> DEFINE M == 2 * N
           none == [i \in 0 .. M - 1 |-> None]
<1>16. M \in Nat \ {0} /\ M >= MinSlots
  BY <1>1, SizesAssumption
<1> HIDE DEF M
<1>17. CKInv(M, 0, none, none, None, q, rk)
  <2> DEFINE z == none
  <2>1. z = [i \in 0 .. M - 1 |-> None]
    OBVIOUS
  <2> HIDE DEF z
  <2>2. CKInv(M, 0, z, z, None, q, rk)
    BY <1>14, <1>15, <1>16, <2>1, CKVacated DEF V
  <2> QED BY <2>2 DEF z
<1> QED
  BY <1>17 DEF M, q, a, b, o

(* Nothing waits in an empty list. *)
LEMMA QueueEmpty == Queue(<<>>) = {}
  BY DEF Queue

(* A slot that has the key. *)
CKHas(A, i, k) == A[i] # None /\ A[i].key = k

(* An entry of the key is in one of the key's two slots. *)
LEMMA CKWhere ==
  ASSUME NEW N, NEW n, NEW one, NEW two, NEW c, NEW p, NEW rk, CKInv(N, n, one, two, c, p, rk), NEW k \in Keys
  PROVE  /\ Hash1[k] % N \in 0 .. N - 1 /\ Hash2[k] % N \in 0 .. N - 1
         /\ CKHas(one, Hash1[k] % N, k) =>
              /\ At("one", Hash1[k] % N, one[Hash1[k] % N]) \in CKStored(N, one, two)
              /\ one[Hash1[k] % N] \in CK!EntrySet
         /\ CKHas(two, Hash2[k] % N, k) =>
              /\ At("two", Hash2[k] % N, two[Hash2[k] % N]) \in CKStored(N, one, two)
              /\ two[Hash2[k] % N] \in CK!EntrySet
         /\ ~CKHas(one, Hash1[k] % N, k) /\ ~CKHas(two, Hash2[k] % N, k) =>
              \A x \in CKStored(N, one, two) : x[3].key # k
<1> DEFINE i == Hash1[k] % N
           j == Hash2[k] % N
           I == InSlots("one", N, one)
           J == InSlots("two", N, two)
<1>1. /\ N \in Nat \ {0} /\ Homed(N, Hash1, one) /\ Homed(N, Hash2, two)
      /\ Hash1 \in [Keys -> Nat] /\ Hash2 \in [Keys -> Nat]
  BY HashAssumption DEF CKInv
<1>2. i \in 0 .. N - 1 /\ j \in 0 .. N - 1
  BY <1>1, HomeInTable
<1>3. /\ \A l \in 0 .. N - 1 : one[l] # None => At("one", l, one[l]) \in I
      /\ \A l \in 0 .. N - 1 : two[l] # None => At("two", l, two[l]) \in J
      /\ \A x \in I : \E l \in 0 .. N - 1 : one[l] # None /\ x[3] = one[l]
      /\ \A x \in J : \E l \in 0 .. N - 1 : two[l] # None /\ x[3] = two[l]
  <2>1. \A tag, s : \A l \in 0 .. N - 1 : s[l] # None => At(tag, l, s[l]) \in InSlots(tag, N, s)
    BY InSlotsIs
  <2>2. \A tag, s : \A x \in InSlots(tag, N, s) : \E l \in 0 .. N - 1 : x = At(tag, l, s[l]) /\ s[l] # None
    BY InSlotsIs
  <2>3. \A tag, l, e : At(tag, l, e)[3] = e
    BY AtIs
  <2> QED BY <2>1, <2>2, <2>3
<1> HIDE DEF I, J
<1>4. CKStored(N, one, two) = I \cup J
  BY DEF CKStored, I, J
<1>5. CKHas(one, i, k) => At("one", i, one[i]) \in CKStored(N, one, two) /\ one[i] \in CK!EntrySet
  <2> HIDE DEF i
  <2> QED BY <1>1, <1>2, <1>3, <1>4 DEF CKHas, Homed
<1>6. CKHas(two, j, k) => At("two", j, two[j]) \in CKStored(N, one, two) /\ two[j] \in CK!EntrySet
  <2> HIDE DEF j
  <2> QED BY <1>1, <1>2, <1>3, <1>4 DEF CKHas, Homed
<1>7. ASSUME ~CKHas(one, i, k), ~CKHas(two, j, k), NEW x \in I \cup J PROVE x[3].key # k
  <2>1. CASE x \in I
    <3>1. PICK l \in 0 .. N - 1 : one[l] # None /\ x[3] = one[l]
      BY <1>3, <2>1
    <3>2. l = Hash1[one[l].key] % N
      BY <1>1, <3>1 DEF Homed
    <3> QED BY <1>7, <3>1, <3>2 DEF CKHas
  <2>2. CASE x \in J
    <3>1. PICK l \in 0 .. N - 1 : two[l] # None /\ x[3] = two[l]
      BY <1>3, <2>2
    <3>2. l = Hash2[two[l].key] % N
      BY <1>1, <3>1 DEF Homed
    <3> QED BY <1>7, <3>1, <3>2 DEF CKHas
  <2> QED BY <2>1, <2>2
<1> QED
  BY <1>2, <1>4, <1>5, <1>6, <1>7

(* What find_values returns. *)
CKLookup(N, one, two, k) ==
  IF CKHas(one, Hash1[k] % N, k) THEN one[Hash1[k] % N].values
  ELSE IF CKHas(two, Hash2[k] % N, k) THEN two[Hash2[k] % N].values
  ELSE <<>>

(* A lookup finds the rows of its key, and nothing for other keys. *)
LEMMA CKFinds ==
  ASSUME NEW N, NEW n, NEW one, NEW two, NEW rk \in Seq(Values), CKInv(N, n, one, two, None, <<>>, rk), NEW k \in Keys
  PROVE  CKLookup(N, one, two, k) = RowList(rk, k)
<1> DEFINE E == CKStored(N, one, two)
           i == Hash1[k] % N
           j == Hash2[k] % N
<1>1. Content(E, rk)
  <2>1. E \cup (Queue(<<>>) \cup CKHeld(None)) = E
    BY QueueEmpty DEF CKHeld
  <2>2. Content(E \cup (Queue(<<>>) \cup CKHeld(None)), rk)
    BY DEF CKInv
  <2> HIDE DEF E
  <2> QED BY <2>1, <2>2
<1>2. /\ CKHas(one, i, k) => At("one", i, one[i]) \in E
      /\ CKHas(two, j, k) => At("two", j, two[j]) \in E
      /\ ~CKHas(one, i, k) /\ ~CKHas(two, j, k) => \A x \in E : x[3].key # k
  BY CKWhere
<1> HIDE DEF E
<1>3. \A x \in E : x[3].key = k => x[3].values = RowList(rk, k)
  BY <1>1 DEF Content
<1>4. At("one", i, one[i])[3] = one[i] /\ At("two", j, two[j])[3] = two[j]
  BY AtIs
<1>5. ASSUME \A x \in E : x[3].key # k PROVE RowList(rk, k) = <<>>
  <2>1. ASSUME NEW r \in 1 .. Len(rk), rk[r] = k PROVE FALSE
    <3>1. rk[r] # Null
      BY <2>1, NullAssumption
    <3> QED BY <1>1, <1>5, <2>1, <3>1 DEF Content
  <2> QED BY <2>1, RowListNone
<1>6. CASE CKHas(one, i, k)
  <2>1. one[i].values = RowList(rk, k)
    BY <1>2, <1>3, <1>4, <1>6 DEF CKHas
  <2> QED BY <1>6, <2>1 DEF CKLookup
<1>7. CASE ~CKHas(one, i, k) /\ CKHas(two, j, k)
  <2>1. two[j].values = RowList(rk, k)
    BY <1>2, <1>3, <1>4, <1>7 DEF CKHas
  <2> QED BY <1>7, <2>1 DEF CKLookup
<1>8. CASE ~CKHas(one, i, k) /\ ~CKHas(two, j, k)
  BY <1>2, <1>5, <1>8 DEF CKLookup
<1> QED
  BY <1>6, <1>7, <1>8

(* The next entry that is to be inserted again is in no slot. *)
LEMMA CKReinsert ==
  ASSUME NEW N, NEW n, NEW one, NEW two, NEW p, NEW rk, CKInv(N, n, one, two, None, p, rk), p # <<>>
  PROVE  /\ CKInv(N, n, one, two, [current |-> Head(p), side |-> 1, kicks |-> 0], Tail(p), rk)
         /\ ~CKHas(one, Hash1[Head(p).key] % N, Head(p).key)
         /\ ~CKHas(two, Hash2[Head(p).key] % N, Head(p).key)
<1> DEFINE E == CKStored(N, one, two)
           h == Head(p)
           q == Tail(p)
           V == CK!EntrySet
           c == [current |-> h, side |-> 1, kicks |-> 0]
<1>1. p \in Seq(V) /\ Content(E \cup Queue(p), rk)
  <2>1. Queue(p) \cup CKHeld(None) = Queue(p)
    BY DEF CKHeld
  <2> QED BY <2>1 DEF CKInv
<1>2. \A x \in E : x[1] # "pending"
  BY CKParts DEF CKStored
<1> HIDE DEF E, V
<1>3. /\ Content(E \cup (Queue(q) \cup {InHand(h)}), rk)
      /\ q \in Seq(V) /\ h \in V /\ \A x \in E : x[3].key # h.key
  BY <1>1, <1>2, QueueTail
<1>4. h.key \in Keys
  BY <1>3 DEF V, CK!EntrySet
<1> HIDE DEF h, q
<1>5. c \in CK!CallSet /\ c.current = h /\ c.kicks = 0 /\ c # None
  <2>1. c \in CK!CallSet /\ c.current = h /\ c.kicks = 0
    BY <1>3 DEF CK!CallSet, V
  <2> QED BY <2>1, NoneAssumption
<1> HIDE DEF c
<1>6. CKHeld(c) = {InHand(h)}
  BY <1>5 DEF CKHeld
<1>7. CKInv(N, n, one, two, c, q, rk)
  BY <1>3, <1>5, <1>6 DEF CKInv, E, V
<1>8. /\ CKHas(one, Hash1[h.key] % N, h.key) => At("one", Hash1[h.key] % N, one[Hash1[h.key] % N]) \in E
      /\ CKHas(two, Hash2[h.key] % N, h.key) => At("two", Hash2[h.key] % N, two[Hash2[h.key] % N]) \in E
  BY <1>4, CKWhere DEF E
<1>9. \A tag, i, e : At(tag, i, e)[3] = e
  BY AtIs
<1>10. ~CKHas(one, Hash1[h.key] % N, h.key) /\ ~CKHas(two, Hash2[h.key] % N, h.key)
  BY <1>3, <1>8, <1>9 DEF CKHas
<1> QED
  BY <1>7, <1>10 DEF c, h, q

(* The key of a new row is in no slot. *)
LEMMA CKInsertNew ==
  ASSUME NEW N, NEW n, NEW one, NEW two, NEW r0 \in Seq(Values), CKInv(N, n, one, two, None, <<>>, r0),
         NEW k \in Keys, ~CKHas(one, Hash1[k] % N, k), ~CKHas(two, Hash2[k] % N, k)
  PROVE  CKInv(N, n, one, two, [current |-> [key |-> k, values |-> <<Len(r0) + 1>>], side |-> 1, kicks |-> 0],
               <<>>, Append(r0, k))
<1> DEFINE E == CKStored(N, one, two)
           e == [key |-> k, values |-> <<Len(r0) + 1>>]
           c == [current |-> e, side |-> 1, kicks |-> 0]
<1>1. Content(E, r0)
  <2>1. E \cup (Queue(<<>>) \cup CKHeld(None)) = E
    BY QueueEmpty DEF CKHeld
  <2>2. Content(E \cup (Queue(<<>>) \cup CKHeld(None)), r0)
    BY DEF CKInv
  <2> HIDE DEF E
  <2> QED BY <2>1, <2>2
<1>2. \A x \in E : x[3].key # k
  BY CKWhere
<1> HIDE DEF E
<1>3. e \in CK!EntrySet /\ e.key = k /\ e.values = <<Len(r0) + 1>>
  <2>1. <<Len(r0) + 1>> \in Seq(Nat)
    OBVIOUS
  <2> QED BY <2>1 DEF CK!EntrySet
<1> HIDE DEF e
<1>4. c \in CK!CallSet /\ c.current = e /\ c.kicks = 0 /\ c # None
  <2>1. c \in CK!CallSet /\ c.current = e /\ c.kicks = 0
    BY <1>3 DEF CK!CallSet
  <2> QED BY <2>1, NoneAssumption
<1> HIDE DEF c
<1>5. InHand(e)[3].key = k /\ InHand(e)[3].values = <<Len(r0) + 1>>
  BY <1>3, AtIs
<1> DEFINE new == InHand(e)
<1> HIDE DEF new
<1>6. Content(E \cup {new}, Append(r0, k))
  <2>1. new[3].key = k /\ new[3].values = <<Len(r0) + 1>>
    BY <1>5 DEF new
  <2> QED BY <1>1, <1>2, <2>1, ContentNew, NullAssumption
<1>7. E \cup {new} = E \cup (Queue(<<>>) \cup CKHeld(c))
  BY <1>4, QueueEmpty DEF CKHeld, new
<1>8. Content(CKStored(N, one, two) \cup (Queue(<<>>) \cup CKHeld(c)), Append(r0, k))
  BY <1>6, <1>7 DEF E
<1>9. CKInv(N, n, one, two, c, <<>>, Append(r0, k))
  BY <1>4, <1>8 DEF CKInv
<1> QED
  BY <1>9 DEF c, e

(* An entry with one more row. *)
LEMMA EntryMore ==
  ASSUME NEW e \in CK!EntrySet, NEW vs \in Seq(Nat)
  PROVE  LET f == [e EXCEPT !.values = @ \o vs]
         IN  f \in CK!EntrySet /\ f.key = e.key /\ f.values = e.values \o vs
<1>1. e.values \in Seq(Nat) /\ e.values \o vs \in Seq(Nat)
  BY DEF CK!EntrySet
<1> QED
  BY <1>1 DEF CK!EntrySet

(* The key of a new row has an entry in one of its two slots. *)
LEMMA CKInsertMore ==
  ASSUME NEW N, NEW n, NEW one, NEW two, NEW r0 \in Seq(Values), CKInv(N, n, one, two, None, <<>>, r0),
         NEW k \in Keys
  PROVE  /\ CKHas(one, Hash1[k] % N, k) =>
              CKInv(N, n, [one EXCEPT ![Hash1[k] % N].values = @ \o <<Len(r0) + 1>>], two, None,
                    <<>>, Append(r0, k))
         /\ CKHas(two, Hash2[k] % N, k) =>
              CKInv(N, n, one, [two EXCEPT ![Hash2[k] % N].values = @ \o <<Len(r0) + 1>>], None,
                    <<>>, Append(r0, k))
<1> DEFINE I == InSlots("one", N, one)
           J == InSlots("two", N, two)
           m == Len(r0) + 1
           rk == Append(r0, k)
<1>1. /\ \A x \in I : x[1] = "one"
      /\ \A x \in J : x[1] = "two"
      /\ N \in Nat \ {0} /\ N >= MinSlots /\ <<>> \in Seq(CK!EntrySet)
  BY CKParts DEF CKInv
<1>2. /\ IsFiniteSet(I \cup J) /\ n = Cardinality(I \cup J)
      /\ Homed(N, Hash1, one) /\ Homed(N, Hash2, two)
      /\ Content((I \cup J) \cup {}, r0)
  <2>1. Queue(<<>>) \cup CKHeld(None) = {}
    BY QueueEmpty DEF CKHeld
  <2> QED BY <2>1 DEF CKInv, CKStored
<1>3. I \cup J = J \cup I /\ m \in Nat /\ <<m>> \in Seq(Nat)
  OBVIOUS
<1>4. Hash1[k] % N \in 0 .. N - 1 /\ Hash2[k] % N \in 0 .. N - 1
  BY CKWhere
<1>5. Queue(<<>>) \cup CKHeld(None) = {}
  BY QueueEmpty DEF CKHeld
<1>6. ASSUME CKHas(one, Hash1[k] % N, k)
      PROVE  CKInv(N, n, [one EXCEPT ![Hash1[k] % N].values = @ \o <<m>>], two, None, <<>>, rk)
  <2> DEFINE i == Hash1[k] % N
             e == one[i]
             f == [e EXCEPT !.values = @ \o <<m>>]
             t == [one EXCEPT ![i] = f]
  <2>1. i \in 0 .. N - 1 /\ e # None /\ e.key = k /\ e \in CK!EntrySet
    BY <1>4, <1>6, CKWhere DEF CKHas
  <2>2. f \in CK!EntrySet /\ f.key = k /\ f.values = e.values \o <<m>>
    <3> HIDE DEF e, m
    <3> QED BY <1>3, <2>1, EntryMore
  <2>3. f # None
    BY <2>2, NoneAssumption
  <2>4. t = [one EXCEPT ![Hash1[k] % N].values = @ \o <<m>>]
    OBVIOUS
  <2>5. i = Hash1[f.key] % N
    BY <2>2
  <2> HIDE DEF f, i, I, J
  <2>6. t \in [0 .. N - 1 -> CK!EntrySet \cup {None}] /\ PutAt(N, one, i, f, t)
    BY <1>2, <2>1, <2>2 DEF Homed, PutAt
  <2> HIDE DEF t
  <2>7. Homed(N, Hash1, t)
    BY <1>2, <2>5, <2>6 DEF Homed, PutAt
  <2>8. Apart(J, "one") /\ Apart({}, "one") /\ one[i] # None
    BY <1>1, <2>1 DEF Apart
  <2>9. f.key = one[i].key /\ f.values = one[i].values \o <<Len(r0) + 1>>
    BY <2>1, <2>2
  <2>10. IsFiniteSet(InSlots("one", N, one) \cup J) /\ Content((InSlots("one", N, one) \cup J) \cup {}, r0)
    BY <1>2 DEF I
  <2>11. /\ IsFiniteSet(InSlots("one", N, t) \cup J)
         /\ Cardinality(InSlots("one", N, t) \cup J) = Cardinality(InSlots("one", N, one) \cup J)
         /\ Content((InSlots("one", N, t) \cup J) \cup {}, Append(r0, f.key))
    BY <1>1, <2>3, <2>6, <2>8, <2>9, <2>10, PutMore
  <2>12. CKStored(N, t, two) = InSlots("one", N, t) \cup J
    BY DEF CKStored, J
  <2>13. CKInv(N, n, t, two, None, <<>>, rk)
    BY <1>1, <1>2, <1>5, <2>2, <2>7, <2>11, <2>12 DEF CKInv, I
  <2> QED BY <2>4, <2>13
<1>7. ASSUME CKHas(two, Hash2[k] % N, k)
      PROVE  CKInv(N, n, one, [two EXCEPT ![Hash2[k] % N].values = @ \o <<m>>], None, <<>>, rk)
  <2> DEFINE i == Hash2[k] % N
             e == two[i]
             f == [e EXCEPT !.values = @ \o <<m>>]
             t == [two EXCEPT ![i] = f]
  <2>1. i \in 0 .. N - 1 /\ e # None /\ e.key = k /\ e \in CK!EntrySet
    BY <1>4, <1>7, CKWhere DEF CKHas
  <2>2. f \in CK!EntrySet /\ f.key = k /\ f.values = e.values \o <<m>>
    <3> HIDE DEF e, m
    <3> QED BY <1>3, <2>1, EntryMore
  <2>3. f # None
    BY <2>2, NoneAssumption
  <2>4. t = [two EXCEPT ![Hash2[k] % N].values = @ \o <<m>>]
    OBVIOUS
  <2>5. i = Hash2[f.key] % N
    BY <2>2
  <2> HIDE DEF f, i, I, J
  <2>6. t \in [0 .. N - 1 -> CK!EntrySet \cup {None}] /\ PutAt(N, two, i, f, t)
    BY <1>2, <2>1, <2>2 DEF Homed, PutAt
  <2> HIDE DEF t
  <2>7. Homed(N, Hash2, t)
    BY <1>2, <2>5, <2>6 DEF Homed, PutAt
  <2>8. Apart(I, "two") /\ Apart({}, "two") /\ two[i] # None
    BY <1>1, <2>1 DEF Apart
  <2>9. f.key = two[i].key /\ f.values = two[i].values \o <<Len(r0) + 1>>
    BY <2>1, <2>2
  <2>10. IsFiniteSet(InSlots("two", N, two) \cup I) /\ Content((InSlots("two", N, two) \cup I) \cup {}, r0)
    BY <1>2, <1>3 DEF J
  <2>11. /\ IsFiniteSet(InSlots("two", N, t) \cup I)
         /\ Cardinality(InSlots("two", N, t) \cup I) = Cardinality(InSlots("two", N, two) \cup I)
         /\ Content((InSlots("two", N, t) \cup I) \cup {}, Append(r0, f.key))
    BY <1>1, <2>3, <2>6, <2>8, <2>9, <2>10, PutMore
  <2>12. CKStored(N, one, t) = InSlots("two", N, t) \cup I
    BY DEF CKStored, I
  <2>13. CKInv(N, n, one, t, None, <<>>, rk)
    BY <1>1, <1>2, <1>3, <1>5, <2>2, <2>7, <2>11, <2>12 DEF CKInv, J
  <2> QED BY <2>4, <2>13
<1> QED
  BY <1>6, <1>7

-----------------------------------------------------------------------------
(* The hopscotch table: the bitmaps say where the entries are.             *)
Dist(N, from, to) == (to - from + N) % N

(* Distances and places are each other's inverse. *)
LEMMA DistIs ==
  ASSUME NEW N \in Nat \ {0}, NEW h \in 0 .. N - 1
  PROVE  /\ \A i \in 0 .. N - 1 : Dist(N, h, i) \in 0 .. N - 1 /\ Place(N, h, Dist(N, h, i)) = i
         /\ \A d \in 0 .. N - 1 : Dist(N, h, Place(N, h, d)) = d
<1>1. ASSUME NEW i \in 0 .. N - 1
      PROVE  Dist(N, h, i) = (IF i < h THEN i - h + N ELSE i - h) /\ Dist(N, h, i) \in 0 .. N - 1
  <2> DEFINE x == i - h + N
  <2>1. x \in 0 .. 2 * N - 1 /\ (x < N <=> i < h) /\ x - N = i - h
    OBVIOUS
  <2> HIDE DEF x
  <2>2. x % N = (IF x < N THEN x ELSE x - N) /\ x % N \in 0 .. N - 1
    BY <2>1, Wraps
  <2> QED BY <2>1, <2>2 DEF Dist, x
<1>2. /\ \A d \in 0 .. N - 1 : Place(N, h, d) = (IF h + d < N THEN h + d ELSE h + d - N)
      /\ \A d \in 0 .. N - 1 : Place(N, h, d) \in 0 .. N - 1
  BY PlaceIs
<1>3. ASSUME NEW i \in 0 .. N - 1 PROVE Place(N, h, Dist(N, h, i)) = i
  BY <1>1, <1>2
<1>4. ASSUME NEW d \in 0 .. N - 1 PROVE Dist(N, h, Place(N, h, d)) = d
  <2> DEFINE i == Place(N, h, d)
  <2>1. i \in 0 .. N - 1 /\ i = (IF h + d < N THEN h + d ELSE h + d - N)
    BY <1>2
  <2> HIDE DEF i
  <2> QED BY <1>1, <2>1 DEF i
<1> QED
  BY <1>1, <1>3, <1>4

(* An entry in slot i has its offset in the bitmap of its home; an offset  *)
(* of a bitmap leads to an entry of that home.                             *)
Mapped(N, s, bm) ==
  /\ N \in Nat \ {0} /\ s \in [0 .. N - 1 -> HS!EntrySet \cup {None}]
  /\ bm \in [0 .. N - 1 -> SUBSET (0 .. H - 1)]
  /\ \A h \in 0 .. N - 1 : \A d \in bm[h] : d \in 0 .. N - 1
  /\ \A i \in 0 .. N - 1 : s[i] # None => Dist(N, HomeOf(N, s[i].key), i) \in bm[HomeOf(N, s[i].key)]
  /\ \A h \in 0 .. N - 1 : \A d \in bm[h] :
       s[Place(N, h, d)] # None /\ HomeOf(N, s[Place(N, h, d)].key) = h

(* The entry in the hand of insert, if it runs. *)
HSHeld(c) == IF c = None THEN {} ELSE {InHand(c.entry)}

(* The invariant of a hopscotch table that holds the rows rk. *)
HSInv(N, s, bm, c, p, rk) ==
  /\ Mapped(N, s, bm)
  /\ p \in Seq(HS!EntrySet)
  /\ c # None => c \in HS!CallSet /\ c.j \in 0 .. N - 1
  /\ Content(InSlots("slot", N, s) \cup (Queue(p) \cup HSHeld(c)), rk)

(* With an entry that is in no slot, but has no place yet. *)
HSCarried(N, s, bm, p, e, rk) ==
  /\ Mapped(N, s, bm)
  /\ p \in Seq(HS!EntrySet) /\ e \in HS!EntrySet
  /\ Content(InSlots("slot", N, s) \cup (Queue(p) \cup {InHand(e)}), rk)

(* The home of an entry is a slot. *)
LEMMA HSHome ==
  ASSUME NEW N \in Nat \ {0}, NEW e \in HS!EntrySet
  PROVE  HomeOf(N, e.key) \in 0 .. N - 1 /\ e.key \in Keys /\ e # None
<1>1. e.key \in Keys
  BY DEF HS!EntrySet
<1>2. HomeOf(N, e.key) \in 0 .. N - 1
  BY <1>1, RHPlaces
<1> QED
  BY <1>1, <1>2, NoneAssumption

(* The tags of the entries. *)
LEMMA HSParts ==
  ASSUME NEW N, NEW s, NEW bm, NEW c, NEW p, NEW rk, HSInv(N, s, bm, c, p, rk)
  PROVE  /\ \A x \in InSlots("slot", N, s) : x[1] = "slot"
         /\ \A x \in Queue(p) : x[1] = "pending"
         /\ \A x \in HSHeld(c) : x[1] = "call"
         /\ p \in Seq(HS!EntrySet)
<1>1. p \in Seq(HS!EntrySet)
  BY DEF HSInv
<1>2. \A x \in Queue(p) : x[1] = "pending"
  BY <1>1, QueueIs
<1>3. \A x \in HSHeld(c) : x[1] = "call"
  BY AtIs DEF HSHeld
<1>4. \A tag : \A x \in InSlots(tag, N, s) : x[1] = tag
  BY InSlotsIs
<1> QED
  BY <1>1, <1>2, <1>3, <1>4

(* There are no more filled slots than rows. *)
LEMMA HSHalfEmpty ==
  ASSUME NEW N, NEW s, NEW bm, NEW c, NEW p, NEW rk \in Seq(Values), HSInv(N, s, bm, c, p, rk)
  PROVE  IsFiniteSet(Filled(N, s)) /\ Cardinality(Filled(N, s)) \in Nat /\ Cardinality(Filled(N, s)) <= Len(rk)
<1> DEFINE S == Filled(N, s)
           E == InSlots("slot", N, s) \cup (Queue(p) \cup HSHeld(c))
<1>1. \A i \in S : <<"slot", i, s[i]>> \in E
  BY DEF Filled, InSlots
<1>2. Content(E, rk)
  BY DEF HSInv
<1> HIDE DEF S, E
<1> QED
  BY <1>1, <1>2, ContentCount DEF S

(* A row whose key is NULL changes nothing. *)
LEMMA HSNull ==
  ASSUME NEW N, NEW s, NEW bm, NEW p, NEW rk \in Seq(Values), HSInv(N, s, bm, None, p, rk)
  PROVE  HSInv(N, s, bm, None, p, Append(rk, Null))
  BY ContentNull, NullAssumption DEF HSInv

(* An empty table, with everything still to be inserted. *)
LEMMA HSVacated ==
  ASSUME NEW N \in Nat \ {0}, NEW none, none = [i \in 0 .. N - 1 |-> None],
         NEW bm, bm = [i \in 0 .. N - 1 |-> {}],
         NEW q \in Seq(HS!EntrySet), NEW rk, Content(Queue(q), rk)
  PROVE  HSInv(N, none, bm, None, q, rk)
<1>1. \A i \in 0 .. N - 1 : none[i] = None /\ bm[i] = {}
  OBVIOUS
<1>2. none \in [0 .. N - 1 -> HS!EntrySet \cup {None}] /\ bm \in [0 .. N - 1 -> SUBSET (0 .. H - 1)]
  OBVIOUS
<1>3. Mapped(N, none, bm)
  BY <1>1, <1>2 DEF Mapped
<1>4. InSlots("slot", N, none) = {}
  <2>1. \A x \in InSlots("slot", N, none) : \E i \in 0 .. N - 1 : none[i] # None
    BY InSlotsIs
  <2> QED BY <1>1, <2>1
<1>5. InSlots("slot", N, none) \cup (Queue(q) \cup HSHeld(None)) = Queue(q)
  BY <1>4 DEF HSHeld
<1> QED
  BY <1>3, <1>5 DEF HSInv

(* The table is doubled, and all entries are to be inserted again. *)
LEMMA HSRehash ==
  ASSUME NEW N, NEW s, NEW bm, NEW p, NEW e, NEW rk, HSCarried(N, s, bm, p, e, rk)
  PROVE  HSInv(2 * N, [i \in 0 .. 2 * N - 1 |-> None], [i \in 0 .. 2 * N - 1 |-> {}], None,
               Occupied(s, N, None) \o <<e>> \o p, rk)
<1> DEFINE V == HS!EntrySet
           I == InSlots("slot", N, s)
           Q == Queue(p)
           h == InHand(e)
           E == I \cup (Q \cup {h})
           a == Occupied(s, N, None)
           o == <<e>>
           q == a \o o \o p
<1>1. /\ N \in Nat \ {0} /\ p \in Seq(V) /\ e \in V /\ Content(E, rk)
      /\ s \in [0 .. N - 1 -> V \cup {None}]
  BY DEF HSCarried, Mapped
<1>2. /\ \A x \in I : x[1] = "slot"
      /\ \A x \in Q : x[1] = "pending"
      /\ h[1] = "call"
  <2>1. \A tag : \A x \in InSlots(tag, N, s) : x[1] = tag
    BY InSlotsIs
  <2>2. \A x \in Q : x[1] = "pending"
    BY <1>1, QueueIs
  <2>3. h[1] = "call"
    BY AtIs
  <2> QED BY <2>1, <2>2, <2>3
<1>3. None \notin V
  BY NoneAssumption
<1>4. I \subseteq E /\ Q \subseteq E
  OBVIOUS
<1>5. a \in Seq(V) /\ Lists(a, I)
  <2> HIDE DEF E, V
  <2> QED BY <1>1, <1>3, <1>4, ListsOccupied
<1>6. Lists(p, Q)
  <2> HIDE DEF E, V
  <2> QED BY <1>1, <1>4, ListsQueue
<1>7. Lists(o, {h}) /\ o \in Seq(V)
  BY <1>1, ListsOne
<1> HIDE DEF V, I, Q, h, E, a, o
<1>8. Lists(a \o o, I \cup {h}) /\ a \o o \in Seq(V)
  <2>1. (\A x \in I : x \notin {h}) /\ {h} \subseteq E
    BY <1>2 DEF E
  <2> QED BY <1>1, <1>4, <1>5, <1>7, <2>1, ListsJoined
<1>9. Lists((a \o o) \o p, (I \cup {h}) \cup Q) /\ (a \o o) \o p \in Seq(V)
  <2>1. (\A x \in I \cup {h} : x \notin Q) /\ I \cup {h} \subseteq E
    BY <1>2, <1>4 DEF E
  <2> QED BY <1>1, <1>4, <1>6, <1>8, <2>1, ListsJoined
<1>10. (I \cup {h}) \cup Q = E
  BY DEF E
<1>11. q \in Seq(V) /\ Lists(q, E)
  BY <1>9, <1>10
<1> HIDE DEF q
<1>12. Content(Queue(q), rk)
  BY <1>1, <1>11, ListsContent
<1> DEFINE M == 2 * N
           y == [i \in 0 .. M - 1 |-> None]
           z == [i \in 0 .. M - 1 |-> {}]
<1>13. M \in Nat \ {0}
  BY <1>1
<1> HIDE DEF M
<1>14. y = [i \in 0 .. M - 1 |-> None] /\ z = [i \in 0 .. M - 1 |-> {}]
  OBVIOUS
<1> HIDE DEF y, z
<1>15. HSInv(M, y, z, None, q, rk)
  BY <1>11, <1>12, <1>13, <1>14, HSVacated DEF V
<1> QED
  BY <1>15 DEF M, q, a, o, y, z

(* insert searches from the home of its entry. *)
LEMMA HSSearch ==
  ASSUME NEW N, NEW s, NEW bm, NEW p, NEW e, NEW rk, HSCarried(N, s, bm, p, e, rk), NEW j \in 0 .. N - 1
  PROVE  HSInv(N, s, bm, [entry |-> e, j |-> j], p, rk)
<1> DEFINE c == [entry |-> e, j |-> j]
<1>1. N \in Nat /\ e \in HS!EntrySet
  BY DEF HSCarried, Mapped
<1>2. c \in HS!CallSet /\ c.entry = e /\ c.j = j
  BY <1>1 DEF HS!CallSet
<1>3. c # None
  BY <1>2, NoneAssumption
<1> HIDE DEF c
<1>4. HSHeld(c) = {InHand(e)}
  BY <1>2, <1>3 DEF HSHeld
<1>5. HSInv(N, s, bm, c, p, rk)
  BY <1>2, <1>3, <1>4 DEF HSCarried, HSInv
<1> QED
  BY <1>5 DEF c

(* A call that goes on with its entry at another slot. *)
LEMMA HSCarries ==
  ASSUME NEW N, NEW s, NEW bm, NEW c, NEW p, NEW rk, HSInv(N, s, bm, c, p, rk), c # None
  PROVE  HSCarried(N, s, bm, p, c.entry, rk) /\ c = [entry |-> c.entry, j |-> c.j] /\ c.j \in 0 .. N - 1
<1>1. c \in HS!CallSet /\ HSHeld(c) = {InHand(c.entry)} /\ c.j \in 0 .. N - 1
  BY DEF HSInv, HSHeld
<1> QED
  BY <1>1 DEF HSCarried, HSInv, HS!CallSet

(* The entry in hand gets the slot j, and its home the offset. *)
LEMMA MappedSettle ==
  ASSUME NEW N, NEW s, NEW bm, Mapped(N, s, bm), NEW e \in HS!EntrySet, NEW j \in 0 .. N - 1, s[j] = None,
         Dist(N, HomeOf(N, e.key), j) < H
  PROVE  Mapped(N, [s EXCEPT ![j] = e],
                [bm EXCEPT ![HomeOf(N, e.key)] = @ \cup {Dist(N, HomeOf(N, e.key), j)}])
<1> DEFINE h == HomeOf(N, e.key)
           d == Dist(N, h, j)
           t == [s EXCEPT ![j] = e]
           b == [bm EXCEPT ![h] = @ \cup {d}]
<1>1. /\ N \in Nat \ {0} /\ s \in [0 .. N - 1 -> HS!EntrySet \cup {None}]
      /\ bm \in [0 .. N - 1 -> SUBSET (0 .. H - 1)] /\ H \in Nat
  BY SizesAssumption DEF Mapped
<1>2. h \in 0 .. N - 1 /\ e # None
  BY <1>1, HSHome
<1>3. /\ \A g \in 0 .. N - 1 : \A i \in 0 .. N - 1 : Dist(N, g, i) \in 0 .. N - 1 /\ Place(N, g, Dist(N, g, i)) = i
  BY <1>1, DistIs
<1>4. d \in 0 .. N - 1 /\ d \in 0 .. H - 1 /\ Place(N, h, d) = j
  <2>1. d \in 0 .. N - 1 /\ d < H /\ Place(N, h, d) = j
    BY <1>2, <1>3
  <2> HIDE DEF d
  <2> QED BY <1>1, <2>1
<1> HIDE DEF h, d
<1>5. /\ t \in [0 .. N - 1 -> HS!EntrySet \cup {None}] /\ t[j] = e
      /\ \A i \in 0 .. N - 1 : i # j => t[i] = s[i]
  BY <1>1
<1>6. /\ b \in [0 .. N - 1 -> SUBSET (0 .. H - 1)] /\ b[h] = bm[h] \cup {d}
      /\ \A g \in 0 .. N - 1 : g # h => b[g] = bm[g]
  BY <1>1, <1>2, <1>4
<1> HIDE DEF t, b
<1>7. ASSUME NEW g \in 0 .. N - 1, NEW o \in b[g] PROVE o \in bm[g] \/ (g = h /\ o = d)
  BY <1>6
<1>8. ASSUME NEW g \in 0 .. N - 1, NEW o \in b[g] PROVE o \in 0 .. N - 1
  BY <1>4, <1>7 DEF Mapped
<1>9. ASSUME NEW i \in 0 .. N - 1, t[i] # None
      PROVE  Dist(N, HomeOf(N, t[i].key), i) \in b[HomeOf(N, t[i].key)]
  <2>1. CASE i = j
    BY <1>5, <1>6, <2>1 DEF h, d
  <2>2. CASE i # j
    <3>1. t[i] = s[i] /\ s[i] # None /\ s[i] \in HS!EntrySet
      BY <1>1, <1>5, <1>9, <2>2
    <3>2. Dist(N, HomeOf(N, s[i].key), i) \in bm[HomeOf(N, s[i].key)]
      BY <3>1 DEF Mapped
    <3>3. HomeOf(N, s[i].key) \in 0 .. N - 1
      BY <1>1, <3>1, HSHome
    <3> QED BY <1>6, <3>1, <3>2, <3>3
  <2> QED BY <2>1, <2>2
<1>10. ASSUME NEW g \in 0 .. N - 1, NEW o \in b[g]
       PROVE  t[Place(N, g, o)] # None /\ HomeOf(N, t[Place(N, g, o)].key) = g
  <2>1. CASE g = h /\ o = d
    BY <1>2, <1>4, <1>5, <2>1 DEF h
  <2>2. CASE o \in bm[g]
    <3> DEFINE i == Place(N, g, o)
    <3>1. s[i] # None /\ HomeOf(N, s[i].key) = g /\ o \in 0 .. N - 1
      BY <2>2 DEF Mapped
    <3>2. i \in 0 .. N - 1
      BY <1>1, <3>1, PlaceIs
    <3>3. i # j
      BY <3>1
    <3> HIDE DEF i
    <3>4. t[i] = s[i]
      BY <1>5, <3>2, <3>3
    <3> QED BY <3>1, <3>4 DEF i
  <2> QED BY <1>7, <2>1, <2>2
<1>11. Mapped(N, t, b)
  BY <1>1, <1>5, <1>6, <1>8, <1>9, <1>10 DEF Mapped
<1> QED
  BY <1>11 DEF t, b, h, d

(* The insert ends: its entry takes the free slot. *)
LEMMA HSSettle ==
  ASSUME NEW N, NEW s, NEW bm, NEW c, NEW p, NEW rk, HSInv(N, s, bm, c, p, rk), c # None, s[c.j] = None,
         Dist(N, HomeOf(N, c.entry.key), c.j) < H
  PROVE  HSInv(N, [s EXCEPT ![c.j] = c.entry],
               [bm EXCEPT ![HomeOf(N, c.entry.key)] = @ \cup {Dist(N, HomeOf(N, c.entry.key), c.j)}], None, p, rk)
<1>0. HSCarried(N, s, bm, p, c.entry, rk) /\ c.j \in 0 .. N - 1
  BY HSCarries
<1> DEFINE e == c.entry
           j == c.j
           t == [s EXCEPT ![j] = e]
           b == [bm EXCEPT ![HomeOf(N, e.key)] = @ \cup {Dist(N, HomeOf(N, e.key), j)}]
           Q == Queue(p)
<1>1. /\ Mapped(N, s, bm) /\ e \in HS!EntrySet /\ p \in Seq(HS!EntrySet) /\ j \in 0 .. N - 1
      /\ Content(InSlots("slot", N, s) \cup (Q \cup {InHand(e)}), rk)
      /\ N \in Nat \ {0} /\ s \in [0 .. N - 1 -> HS!EntrySet \cup {None}]
  BY <1>0 DEF HSCarried, Mapped
<1>2. e # None
  BY <1>1, NoneAssumption
<1>3. Mapped(N, t, b)
  <2>1. s[j] = None /\ Dist(N, HomeOf(N, e.key), j) < H
    OBVIOUS
  <2> HIDE DEF e, j
  <2> QED BY <1>1, <2>1, MappedSettle
<1>4. s[j] = None
  OBVIOUS
<1> HIDE DEF e, j
<1>5. PutAt(N, s, j, e, t)
  BY <1>1 DEF PutAt
<1>6. Apart(Q, "slot") /\ Apart({}, "slot") /\ "slot" # "call"
  BY <1>1, QueueIs DEF Apart
<1> HIDE DEF t, b, Q
<1>7. IsFiniteSet(InSlots("slot", N, s) \cup {})
  <2>1. N \in Nat
    BY <1>1
  <2>2. IsFiniteSet(InSlots("slot", N, s))
    BY <2>1, InSlotsFinite
  <2>3. InSlots("slot", N, s) \cup {} = InSlots("slot", N, s)
    OBVIOUS
  <2> QED BY <2>2, <2>3
<1>8. Content((InSlots("slot", N, s) \cup {}) \cup (Q \cup {InHand(e)}), rk)
  <2>1. (InSlots("slot", N, s) \cup {}) \cup (Q \cup {InHand(e)}) = InSlots("slot", N, s) \cup (Q \cup {InHand(e)})
    OBVIOUS
  <2> QED BY <1>1, <2>1
<1>9. Content((InSlots("slot", N, t) \cup {}) \cup Q, rk)
  BY <1>1, <1>2, <1>4, <1>5, <1>6, <1>7, <1>8, PutVacant
<1>10. (InSlots("slot", N, t) \cup {}) \cup Q = InSlots("slot", N, t) \cup (Q \cup HSHeld(None))
  BY DEF HSHeld
<1>11. HSInv(N, t, b, None, p, rk)
  BY <1>1, <1>3, <1>9, <1>10 DEF HSInv, Q
<1> QED
  BY <1>11 DEF t, b, e, j

(* An entry moves from slot y to the free slot j. *)
LEMMA MappedMove ==
  ASSUME NEW N, NEW s, NEW bm, Mapped(N, s, bm), NEW j \in 0 .. N - 1, s[j] = None,
         NEW y \in 0 .. N - 1, s[y] # None, Dist(N, HomeOf(N, s[y].key), j) < H
  PROVE  Mapped(N, [s EXCEPT ![j] = s[y], ![y] = None],
                [bm EXCEPT ![HomeOf(N, s[y].key)] =
                   (@ \ {Dist(N, HomeOf(N, s[y].key), y)}) \cup {Dist(N, HomeOf(N, s[y].key), j)}])
<1> DEFINE e == s[y]
           h == HomeOf(N, e.key)
           d == Dist(N, h, j)
           w == Dist(N, h, y)
           t == [s EXCEPT ![j] = e, ![y] = None]
           b == [bm EXCEPT ![h] = (@ \ {w}) \cup {d}]
<1>1. /\ N \in Nat \ {0} /\ s \in [0 .. N - 1 -> HS!EntrySet \cup {None}]
      /\ bm \in [0 .. N - 1 -> SUBSET (0 .. H - 1)] /\ H \in Nat /\ j # y
  BY SizesAssumption DEF Mapped
<1>2. h \in 0 .. N - 1 /\ e # None /\ e \in HS!EntrySet
  <2>1. e \in HS!EntrySet
    BY <1>1
  <2> HIDE DEF e
  <2> QED BY <1>1, <2>1, HSHome
<1>3. /\ \A g \in 0 .. N - 1 : \A i \in 0 .. N - 1 : Dist(N, g, i) \in 0 .. N - 1 /\ Place(N, g, Dist(N, g, i)) = i
      /\ \A g \in 0 .. N - 1 : \A o \in 0 .. N - 1 : Dist(N, g, Place(N, g, o)) = o /\ Place(N, g, o) \in 0 .. N - 1
  <2>1. N \in Nat \ {0}
    BY <1>1
  <2>2. ASSUME NEW g \in 0 .. N - 1
        PROVE  /\ \A i \in 0 .. N - 1 : Dist(N, g, i) \in 0 .. N - 1 /\ Place(N, g, Dist(N, g, i)) = i
               /\ \A o \in 0 .. N - 1 : Dist(N, g, Place(N, g, o)) = o /\ Place(N, g, o) \in 0 .. N - 1
    BY <2>1, DistIs, PlaceIs, Zenon
  <2> QED BY <2>2, Zenon
<1>4. d \in 0 .. N - 1 /\ d \in 0 .. H - 1 /\ Place(N, h, d) = j
  <2>1. d \in 0 .. N - 1 /\ d < H /\ Place(N, h, d) = j
    BY <1>2, <1>3
  <2> HIDE DEF d
  <2> QED BY <1>1, <2>1
<1>5. w \in 0 .. N - 1 /\ Place(N, h, w) = y
  BY <1>2, <1>3
<1>6. e = s[y] /\ s[j] = None
  OBVIOUS
<1> HIDE DEF e
<1>7. h = HomeOf(N, e.key)
  OBVIOUS
<1> HIDE DEF h
<1>8. d = Dist(N, h, j) /\ w = Dist(N, h, y)
  OBVIOUS
<1> HIDE DEF d, w
<1>9. /\ t \in [0 .. N - 1 -> HS!EntrySet \cup {None}] /\ t[j] = e /\ t[y] = None
      /\ \A i \in 0 .. N - 1 : i # j /\ i # y => t[i] = s[i]
  BY <1>1, <1>2
<1>10. /\ b \in [0 .. N - 1 -> SUBSET (0 .. H - 1)] /\ b[h] = (bm[h] \ {w}) \cup {d}
       /\ \A g \in 0 .. N - 1 : g # h => b[g] = bm[g]
  BY <1>1, <1>2, <1>4
<1> HIDE DEF t, b
<1>11. ASSUME NEW g \in 0 .. N - 1, NEW o \in b[g] PROVE (o \in bm[g] /\ ~(g = h /\ o = w)) \/ (g = h /\ o = d)
  BY <1>10
<1>12. ASSUME NEW g \in 0 .. N - 1, NEW o \in b[g] PROVE o \in 0 .. N - 1
  BY <1>4, <1>11 DEF Mapped
<1>13. ASSUME NEW i \in 0 .. N - 1, t[i] # None
       PROVE  Dist(N, HomeOf(N, t[i].key), i) \in b[HomeOf(N, t[i].key)]
  <2>1. CASE i = j
    BY <1>7, <1>8, <1>9, <1>10, <2>1
  <2>2. CASE i # j
    <3>1. i # y /\ t[i] = s[i] /\ s[i] # None /\ s[i] \in HS!EntrySet
      BY <1>1, <1>9, <1>13, <2>2
    <3> DEFINE g == HomeOf(N, s[i].key)
               o == Dist(N, g, i)
    <3>2. o \in bm[g]
      BY <3>1 DEF Mapped
    <3>3. g \in 0 .. N - 1
      BY <1>1, <3>1, HSHome
    <3>4. Place(N, g, o) = i
      BY <1>3, <3>3
    <3>5. o = Dist(N, HomeOf(N, t[i].key), i) /\ g = HomeOf(N, t[i].key)
      BY <3>1
    <3> HIDE DEF g, o
    <3>6. ~(g = h /\ o = w)
      BY <1>5, <3>1, <3>4
    <3>7. o \in b[g]
      BY <1>10, <3>2, <3>3, <3>6
    <3> QED BY <3>5, <3>7
  <2> QED BY <2>1, <2>2
<1>14. ASSUME NEW g \in 0 .. N - 1, NEW o \in b[g]
       PROVE  t[Place(N, g, o)] # None /\ HomeOf(N, t[Place(N, g, o)].key) = g
  <2>1. CASE g = h /\ o = d
    BY <1>2, <1>4, <1>7, <1>9, <2>1
  <2>2. CASE o \in bm[g] /\ ~(g = h /\ o = w)
    <3> DEFINE i == Place(N, g, o)
    <3>1. s[i] # None /\ HomeOf(N, s[i].key) = g /\ o \in 0 .. N - 1
      BY <2>2 DEF Mapped
    <3>2. i \in 0 .. N - 1 /\ Dist(N, g, i) = o
      BY <1>3, <3>1
    <3> HIDE DEF i
    <3>3. i # j
      BY <1>6, <3>1
    <3>4. i # y
      BY <1>6, <1>7, <1>8, <2>2, <3>1, <3>2
    <3>5. t[i] = s[i]
      BY <1>9, <3>2, <3>3, <3>4
    <3> QED BY <3>1, <3>5 DEF i
  <2> QED BY <1>11, <2>1, <2>2
<1>15. Mapped(N, t, b)
  BY <1>1, <1>9, <1>10, <1>12, <1>13, <1>14 DEF Mapped
<1> QED
  BY <1>15 DEF t, b, h, d, w, e

(* An entry moves to the free slot and leaves its own free. *)
LEMMA HSMove ==
  ASSUME NEW N, NEW s, NEW bm, NEW c, NEW p, NEW rk, HSInv(N, s, bm, c, p, rk), c # None, s[c.j] = None,
         NEW y \in 0 .. N - 1, s[y] # None, Dist(N, HomeOf(N, s[y].key), c.j) < H
  PROVE  HSInv(N, [s EXCEPT ![c.j] = s[y], ![y] = None],
               [bm EXCEPT ![HomeOf(N, s[y].key)] =
                   (@ \ {Dist(N, HomeOf(N, s[y].key), y)}) \cup {Dist(N, HomeOf(N, s[y].key), c.j)}],
               [c EXCEPT !.j = y], p, rk)
<1>0. HSCarried(N, s, bm, p, c.entry, rk) /\ c.j \in 0 .. N - 1
  BY HSCarries
<1> DEFINE e == s[y]
           j == c.j
           t == [s EXCEPT ![j] = e, ![y] = None]
           b == [bm EXCEPT ![HomeOf(N, e.key)] =
                   (@ \ {Dist(N, HomeOf(N, e.key), y)}) \cup {Dist(N, HomeOf(N, e.key), j)}]
           R == Queue(p) \cup {InHand(c.entry)}
           I == InSlots("slot", N, s)
           J == InSlots("slot", N, t)
           old == At("slot", y, e)
           new == At("slot", j, e)
<1>1. /\ Mapped(N, s, bm) /\ c.entry \in HS!EntrySet /\ p \in Seq(HS!EntrySet) /\ j \in 0 .. N - 1
      /\ Content(I \cup R, rk)
      /\ N \in Nat \ {0} /\ s \in [0 .. N - 1 -> HS!EntrySet \cup {None}]
  BY <1>0 DEF HSCarried, Mapped
<1>2. s[j] = None /\ e = s[y] /\ e # None /\ j # y
  OBVIOUS
<1>3. Mapped(N, t, b)
  <2>1. Dist(N, HomeOf(N, s[y].key), j) < H
    OBVIOUS
  <2> HIDE DEF j
  <2> QED BY <1>1, <1>2, <2>1, MappedMove
<1>4. c = [entry |-> c.entry, j |-> c.j]
  BY HSCarries
<1> HIDE DEF j
<1>5. [c EXCEPT !.j = y] = [entry |-> c.entry, j |-> y]
  BY <1>4
<1> HIDE DEF e, R
<1>6. t[j] = e /\ t[y] = None /\ \A i \in 0 .. N - 1 : i # j /\ i # y => t[i] = s[i]
  BY <1>1, <1>2
<1> HIDE DEF t, b
<1>7. /\ \A i \in 0 .. N - 1 : s[i] # None => At("slot", i, s[i]) \in I
      /\ \A x \in I : x[1] = "slot" /\ \E i \in 0 .. N - 1 : x = At("slot", i, s[i]) /\ s[i] # None
      /\ \A i \in 0 .. N - 1 : t[i] # None => At("slot", i, t[i]) \in J
      /\ \A x \in J : \E i \in 0 .. N - 1 : x = At("slot", i, t[i]) /\ t[i] # None
  BY InSlotsIs
<1>8. \A i, x : At("slot", i, x)[1] = "slot" /\ At("slot", i, x)[2] = i /\ At("slot", i, x)[3] = x
  BY AtIs
<1>9. \A x \in R : x[1] # "slot"
  <2>1. \A x \in Queue(p) : x[1] = "pending"
    BY <1>1, QueueIs
  <2>2. InHand(c.entry)[1] = "call"
    BY AtIs
  <2> QED BY <2>1, <2>2 DEF R
<1> HIDE DEF I, J
<1>10. old \in I /\ new \notin I /\ old[3] = e /\ new[3] = e /\ new \in J /\ old[1] = "slot"
  BY <1>1, <1>2, <1>6, <1>7, <1>8
<1>11. ASSUME NEW x \in J PROVE x = new \/ (x \in I /\ x # old)
  <2>1. PICK i \in 0 .. N - 1 : x = At("slot", i, t[i]) /\ t[i] # None
    BY <1>7
  <2>2. CASE i = j
    BY <1>6, <2>1, <2>2
  <2>3. CASE i # j
    <3>1. i # y /\ t[i] = s[i]
      BY <1>6, <2>1, <2>3
    <3>2. x \in I /\ x # old
      BY <1>7, <1>8, <2>1, <3>1
    <3> QED BY <3>2
  <2> QED BY <2>2, <2>3
<1>12. ASSUME NEW x \in I, x # old PROVE x \in J
  <2>1. PICK i \in 0 .. N - 1 : x = At("slot", i, s[i]) /\ s[i] # None
    BY <1>7
  <2>2. i # y /\ i # j
    BY <1>2, <1>12, <2>1
  <2> QED BY <1>6, <1>7, <2>1, <2>2
<1> HIDE DEF old, new
<1>13. old \notin R
  BY <1>9, <1>10
<1> DEFINE E == I \cup R
<1>14. (E \ {old}) \cup {new} = J \cup R
  BY <1>10, <1>11, <1>12, <1>13
<1>15. Content((E \ {old}) \cup {new}, rk)
  <2>1. Content(E, rk) /\ old \in E /\ old[3].key = new[3].key /\ old[3].values = new[3].values
    BY <1>1, <1>10
  <2> HIDE DEF E
  <2> QED BY <2>1, ContentMove
<1>16. HSCarried(N, t, b, p, c.entry, rk)
  BY <1>1, <1>3, <1>14, <1>15 DEF HSCarried, J, R
<1>17. HSInv(N, t, b, [entry |-> c.entry, j |-> y], p, rk)
  BY <1>16, HSSearch
<1> QED
  BY <1>5, <1>17 DEF t, b, e, j

-----------------------------------------------------------------------------
(* The slots that have an entry of the key. *)
HSMatching(N, s, bm, k) ==
  {i \in {Place(N, HomeOf(N, k), d) : d \in bm[HomeOf(N, k)]} : s[i] # None /\ s[i].key = k}

(* The bitmap of its home leads to every entry of a key. *)
LEMMA HSMatchingIs ==
  ASSUME NEW N, NEW s, NEW bm, Mapped(N, s, bm), NEW k \in Keys
  PROVE  \A i : i \in HSMatching(N, s, bm, k) <=> i \in 0 .. N - 1 /\ s[i] # None /\ s[i].key = k
<1> DEFINE h == HomeOf(N, k)
<1>1. N \in Nat \ {0} /\ h \in 0 .. N - 1
  <2>1. N \in Nat \ {0}
    BY DEF Mapped
  <2> QED BY <2>1, RHPlaces
<1>2. /\ \A d \in 0 .. N - 1 : Place(N, h, d) \in 0 .. N - 1
      /\ \A i \in 0 .. N - 1 : Place(N, h, Dist(N, h, i)) = i
  <2> HIDE DEF h
  <2>1. \A d \in 0 .. N - 1 : Place(N, h, d) \in 0 .. N - 1
    BY <1>1, PlaceIs
  <2>2. \A i \in 0 .. N - 1 : Place(N, h, Dist(N, h, i)) = i
    BY <1>1, DistIs
  <2> QED BY <2>1, <2>2
<1>3. \A d \in bm[h] : d \in 0 .. N - 1
  BY <1>1 DEF Mapped
<1>4. ASSUME NEW i \in 0 .. N - 1, s[i] # None, s[i].key = k PROVE \E d \in bm[h] : Place(N, h, d) = i
  <2>1. Dist(N, h, i) \in bm[h]
    BY <1>4 DEF Mapped
  <2> QED BY <1>2, <2>1
<1>5. HSMatching(N, s, bm, k) = {i \in {Place(N, h, d) : d \in bm[h]} : s[i] # None /\ s[i].key = k}
  BY DEF HSMatching
<1> HIDE DEF h
<1> QED
  BY <1>2, <1>3, <1>4, <1>5

(* What find_values returns. *)
HSLookup(N, s, bm, k) ==
  IF HSMatching(N, s, bm, k) = {} THEN <<>> ELSE s[CHOOSE i \in HSMatching(N, s, bm, k) : TRUE].values

(* A lookup finds the rows of its key, and nothing for other keys. *)
LEMMA HSFinds ==
  ASSUME NEW N, NEW s, NEW bm, NEW rk \in Seq(Values), HSInv(N, s, bm, None, <<>>, rk), NEW k \in Keys
  PROVE  HSLookup(N, s, bm, k) = RowList(rk, k)
<1> DEFINE E == InSlots("slot", N, s)
           M == HSMatching(N, s, bm, k)
<1>1. Content(E, rk) /\ Mapped(N, s, bm)
  <2>1. E \cup (Queue(<<>>) \cup HSHeld(None)) = E
    BY QueueEmpty DEF HSHeld
  <2>2. Content(E \cup (Queue(<<>>) \cup HSHeld(None)), rk) /\ Mapped(N, s, bm)
    BY DEF HSInv
  <2> HIDE DEF E
  <2> QED BY <2>1, <2>2
<1>2. \A i : i \in M <=> i \in 0 .. N - 1 /\ s[i] # None /\ s[i].key = k
  BY <1>1, HSMatchingIs
<1> HIDE DEF M
<1>3. CASE M # {}
  <2> DEFINE i == CHOOSE l \in M : TRUE
  <2>1. i \in M
    BY <1>3
  <2>2. HSLookup(N, s, bm, k) = s[i].values
    BY <1>3 DEF HSLookup, M
  <2> HIDE DEF i
  <2>3. At("slot", i, s[i]) \in E /\ At("slot", i, s[i])[3] = s[i] /\ s[i].key = k
    BY <1>2, <2>1, InSlotsIs
  <2>4. s[i].values = RowList(rk, k)
    BY <1>1, <2>3 DEF Content
  <2> QED BY <2>2, <2>4
<1>4. CASE M = {}
  <2>1. \A x \in E : x[3].key # k
    <3>1. \A x \in E : \E i \in 0 .. N - 1 : x = At("slot", i, s[i]) /\ s[i] # None
      BY InSlotsIs
    <3>2. \A i : At("slot", i, s[i])[3] = s[i]
      BY AtIs
    <3> QED BY <1>2, <1>4, <3>1, <3>2
  <2>2. ASSUME NEW r \in 1 .. Len(rk), rk[r] = k PROVE FALSE
    <3>1. rk[r] # Null
      BY <2>2, NullAssumption
    <3> QED BY <1>1, <2>1, <2>2, <3>1 DEF Content
  <2>3. RowList(rk, k) = <<>>
    BY <2>2, RowListNone
  <2> QED BY <1>4, <2>3 DEF HSLookup, M
<1> QED
  BY <1>3, <1>4

(* The next entry that is to be inserted again is in no slot. *)
LEMMA HSReinsert ==
  ASSUME NEW N, NEW s, NEW bm, NEW p, NEW rk, HSInv(N, s, bm, None, p, rk), p # <<>>
  PROVE  HSCarried(N, s, bm, Tail(p), Head(p), rk) /\ HSMatching(N, s, bm, Head(p).key) = {}
<1> DEFINE E == InSlots("slot", N, s)
           h == Head(p)
           q == Tail(p)
           V == HS!EntrySet
<1>1. p \in Seq(V) /\ Content(E \cup Queue(p), rk) /\ Mapped(N, s, bm)
  <2>1. Queue(p) \cup HSHeld(None) = Queue(p)
    BY DEF HSHeld
  <2> QED BY <2>1 DEF HSInv
<1>2. \A x \in E : x[1] # "pending"
  BY InSlotsIs
<1> HIDE DEF E, V
<1>3. /\ Content(E \cup (Queue(q) \cup {InHand(h)}), rk)
      /\ q \in Seq(V) /\ h \in V /\ \A x \in E : x[3].key # h.key
  BY <1>1, <1>2, QueueTail
<1>4. h.key \in Keys
  BY <1>3 DEF V, HS!EntrySet
<1> HIDE DEF h, q
<1>5. HSCarried(N, s, bm, q, h, rk)
  BY <1>1, <1>3 DEF HSCarried, E, V
<1>6. \A i : i \in HSMatching(N, s, bm, h.key) <=> i \in 0 .. N - 1 /\ s[i] # None /\ s[i].key = h.key
  BY <1>1, <1>4, HSMatchingIs
<1>7. \A i \in 0 .. N - 1 : s[i] # None => s[i].key # h.key
  <2>1. \A i \in 0 .. N - 1 : s[i] # None => At("slot", i, s[i]) \in E
    BY InSlotsIs DEF E
  <2>2. \A i : At("slot", i, s[i])[3] = s[i]
    BY AtIs
  <2> QED BY <1>3, <2>1, <2>2
<1>8. HSMatching(N, s, bm, h.key) = {}
  BY <1>6, <1>7
<1> QED
  BY <1>5, <1>8 DEF h, q

(* The key of a new row is in no slot. *)
LEMMA HSInsertNew ==
  ASSUME NEW N, NEW s, NEW bm, NEW r0 \in Seq(Values), HSInv(N, s, bm, None, <<>>, r0),
         NEW k \in Keys, HSMatching(N, s, bm, k) = {}
  PROVE  HSCarried(N, s, bm, <<>>, [key |-> k, values |-> <<Len(r0) + 1>>], Append(r0, k))
<1> DEFINE E == InSlots("slot", N, s)
           e == [key |-> k, values |-> <<Len(r0) + 1>>]
<1>1. Content(E, r0) /\ Mapped(N, s, bm)
  <2>1. E \cup (Queue(<<>>) \cup HSHeld(None)) = E
    BY QueueEmpty DEF HSHeld
  <2>2. Content(E \cup (Queue(<<>>) \cup HSHeld(None)), r0) /\ Mapped(N, s, bm)
    BY DEF HSInv
  <2> HIDE DEF E
  <2> QED BY <2>1, <2>2
<1>2. \A x \in E : x[3].key # k
  <2>1. \A x \in E : \E i \in 0 .. N - 1 : x = At("slot", i, s[i]) /\ s[i] # None
    BY InSlotsIs
  <2>2. \A i : At("slot", i, s[i])[3] = s[i]
    BY AtIs
  <2>3. \A i : i \in HSMatching(N, s, bm, k) <=> i \in 0 .. N - 1 /\ s[i] # None /\ s[i].key = k
    BY <1>1, HSMatchingIs
  <2> QED BY <2>1, <2>2, <2>3
<1> HIDE DEF E
<1>3. e \in HS!EntrySet /\ e.key = k /\ e.values = <<Len(r0) + 1>>
  <2>1. <<Len(r0) + 1>> \in Seq(Nat)
    OBVIOUS
  <2> QED BY <2>1 DEF HS!EntrySet
<1> HIDE DEF e
<1> DEFINE new == InHand(e)
<1>4. new[3].key = k /\ new[3].values = <<Len(r0) + 1>>
  BY <1>3, AtIs
<1> HIDE DEF new
<1>5. Content(E \cup {new}, Append(r0, k))
  BY <1>1, <1>2, <1>4, ContentNew, NullAssumption
<1>6. E \cup {new} = E \cup (Queue(<<>>) \cup {InHand(e)})
  BY QueueEmpty DEF new
<1>7. HSCarried(N, s, bm, <<>>, e, Append(r0, k))
  <2>1. <<>> \in Seq(HS!EntrySet)
    OBVIOUS
  <2>2. Content(InSlots("slot", N, s) \cup (Queue(<<>>) \cup {InHand(e)}), Append(r0, k))
    BY <1>5, <1>6 DEF E
  <2> QED BY <1>1, <1>3, <2>1, <2>2 DEF HSCarried
<1> QED
  BY <1>7 DEF e

(* The key of a new row has an entry. *)
LEMMA HSInsertMore ==
  ASSUME NEW N, NEW s, NEW bm, NEW r0 \in Seq(Values), HSInv(N, s, bm, None, <<>>, r0),
         NEW k \in Keys, NEW i \in HSMatching(N, s, bm, k)
  PROVE  HSInv(N, [s EXCEPT ![i].values = @ \o <<Len(r0) + 1>>], bm, None, <<>>, Append(r0, k))
<1> DEFINE I == InSlots("slot", N, s)
           m == Len(r0) + 1
           e == s[i]
           f == [e EXCEPT !.values = @ \o <<m>>]
           t == [s EXCEPT ![i] = f]
<1>1. /\ Mapped(N, s, bm) /\ N \in Nat \ {0} /\ s \in [0 .. N - 1 -> HS!EntrySet \cup {None}]
      /\ <<>> \in Seq(HS!EntrySet) /\ m \in Nat /\ <<m>> \in Seq(Nat)
  BY DEF HSInv, Mapped
<1>2. Queue(<<>>) \cup HSHeld(None) = {}
  BY QueueEmpty DEF HSHeld
<1>3. Content((I \cup {}) \cup {}, r0)
  <2>1. (I \cup {}) \cup {} = I \cup (Queue(<<>>) \cup HSHeld(None))
    BY <1>2
  <2> QED BY <2>1 DEF HSInv
<1>4. i \in 0 .. N - 1 /\ e # None /\ e.key = k /\ e \in HS!EntrySet
  BY <1>1, HSMatchingIs
<1>5. f \in HS!EntrySet /\ f.key = k /\ f.values = e.values \o <<m>> /\ f # None
  <2>1. e \in CK!EntrySet /\ HS!EntrySet = CK!EntrySet
    BY <1>4 DEF HS!EntrySet, CK!EntrySet
  <2> HIDE DEF e, m
  <2>2. f \in CK!EntrySet /\ f.key = e.key /\ f.values = e.values \o <<m>>
    BY <1>1, <2>1, EntryMore
  <2> QED BY <1>4, <2>1, <2>2, NoneAssumption
<1>6. t = [s EXCEPT ![i].values = @ \o <<m>>]
  OBVIOUS
<1> HIDE DEF f, I
<1>7. t \in [0 .. N - 1 -> HS!EntrySet \cup {None}] /\ PutAt(N, s, i, f, t)
  BY <1>1, <1>4, <1>5 DEF PutAt
<1> HIDE DEF t
<1>8. /\ t[i] # None /\ t[i].key = s[i].key /\ s[i] # None /\ \A l \in 0 .. N - 1 : l # i => t[l] = s[l]
  BY <1>4, <1>5, <1>7 DEF PutAt
<1> HIDE DEF e
<1>9. \A l \in 0 .. N - 1 : (t[l] # None <=> s[l] # None) /\ t[l].key = s[l].key
  BY <1>8
<1>10. Mapped(N, t, bm)
  <2>1. ASSUME NEW l \in 0 .. N - 1, t[l] # None
        PROVE  Dist(N, HomeOf(N, t[l].key), l) \in bm[HomeOf(N, t[l].key)]
    BY <1>1, <1>9, <2>1 DEF Mapped
  <2>2. ASSUME NEW g \in 0 .. N - 1, NEW o \in bm[g]
        PROVE  t[Place(N, g, o)] # None /\ HomeOf(N, t[Place(N, g, o)].key) = g
    <3> DEFINE l == Place(N, g, o)
    <3>1. s[l] # None /\ HomeOf(N, s[l].key) = g /\ o \in 0 .. N - 1
      BY <1>1 DEF Mapped
    <3>2. l \in 0 .. N - 1
      BY <1>1, <3>1, PlaceIs
    <3> HIDE DEF l
    <3>3. t[l] # None /\ HomeOf(N, t[l].key) = g
      BY <1>9, <3>1, <3>2
    <3> QED BY <3>3 DEF l
  <2> QED BY <1>1, <1>7, <2>1, <2>2 DEF Mapped
<1>11. Apart({}, "slot") /\ s[i] # None /\ f # None /\ f.key = s[i].key /\ f.values = s[i].values \o <<Len(r0) + 1>>
  BY <1>4, <1>5 DEF Apart, e
<1>12. IsFiniteSet(InSlots("slot", N, s) \cup {})
  <2>1. N \in Nat
    BY <1>1
  <2>2. IsFiniteSet(InSlots("slot", N, s))
    BY <2>1, InSlotsFinite
  <2>3. InSlots("slot", N, s) \cup {} = InSlots("slot", N, s)
    OBVIOUS
  <2> QED BY <2>2, <2>3
<1>13. Content((InSlots("slot", N, s) \cup {}) \cup {}, r0)
  BY <1>3 DEF I
<1>14. Content((InSlots("slot", N, t) \cup {}) \cup {}, Append(r0, f.key))
  BY <1>1, <1>7, <1>11, <1>12, <1>13, PutMore
<1>15. (InSlots("slot", N, t) \cup {}) \cup {} = InSlots("slot", N, t) \cup (Queue(<<>>) \cup HSHeld(None))
  BY <1>2
<1>16. HSInv(N, t, bm, None, <<>>, Append(r0, k))
  BY <1>1, <1>5, <1>10, <1>14, <1>15 DEF HSInv
<1> QED
  BY <1>6, <1>16

-----------------------------------------------------------------------------
(* The steps of the modules RobinHood, Cuckoo and Hopscotch.               *)
RHTable(t, c, p, rk) ==
  DOMAIN t = {"N", "slots"} /\ p = <<>> /\ RHInv(t.N, t.slots, c, rk)

(* What the three modules take from SlotArrays is what this one takes.     *)
LEMMA SameOperators ==
  /\ \A S : RH!Min(S) = Min(S) /\ CK!Max(S) = Max(S) /\ HS!Max(S) = Max(S)
  /\ \A n : RH!NextPow2(n) = NextPow2(n) /\ CK!NextPow2(n) = NextPow2(n) /\ HS!NextPow2(n) = NextPow2(n)
  /\ \A s, n, none : CK!Occupied(s, n, none) = Occupied(s, n, none) /\ HS!Occupied(s, n, none) = Occupied(s, n, none)
<1>1. \A S : RH!Min(S) = Min(S) /\ CK!Max(S) = Max(S) /\ HS!Max(S) = Max(S)
  BY Zenon DEF RH!Min, Min, CK!Max, HS!Max, Max
<1>2. \A n : RH!NextPow2(n) = NextPow2(n) /\ CK!NextPow2(n) = NextPow2(n) /\ HS!NextPow2(n) = NextPow2(n)
  BY Zenon DEF RH!Min, CK!Min, HS!Min, Min, RH!NextPow2, CK!NextPow2, HS!NextPow2, NextPow2
<1>3. \A s, n, none : CK!Occupied(s, n, none) = Occupied(s, n, none) /\ HS!Occupied(s, n, none) = Occupied(s, n, none)
  <2>1. \A n, S : CK!Positions(n, S) = Positions(n, S) /\ HS!Positions(n, S) = Positions(n, S)
    BY Zenon DEF CK!Positions, HS!Positions, Positions
  <2>2. \A s, S : CK!Picked(s, S) = Picked(s, S) /\ HS!Picked(s, S) = Picked(s, S)
    BY <2>1, Zenon DEF CK!Picked, HS!Picked, Picked
  <2> QED BY <2>2, Zenon DEF CK!Occupied, HS!Occupied, Occupied
<1> QED
  BY <1>1, <1>2, <1>3

(* One row more, in an entry of its own. *)
LEMMA RowsOnceMore ==
  ASSUME NEW r0 \in Seq(Values), NEW E, RowsOnce(E, r0), NEW k \in Values, NEW new,
         new[3].key = k, new[3].values = <<Len(r0) + 1>>
  PROVE  RowsOnce(E \cup {new}, Append(r0, k))
<1> DEFINE r == Append(r0, k)
           n == Len(r0)
           F == E \cup {new}
<1>1. n \in Nat /\ Len(r) = n + 1 /\ r[n + 1] = k /\ \A i \in 1 .. n : r[i] = r0[i]
  OBVIOUS
<1>2. DOMAIN <<n + 1>> = {1} /\ <<n + 1>>[1] = n + 1
  OBVIOUS
<1>3. DOMAIN new[3].values = {1} /\ new[3].values[1] = n + 1
  BY <1>2
<1> HIDE DEF r
<1>4. \A i \in 1 .. n + 1 : i \in 1 .. n \/ i = n + 1
  BY <1>1
<1>5. (\A i \in 1 .. n : i \in 1 .. n + 1 /\ i # n + 1) /\ n + 1 \in 1 .. n + 1
  BY <1>1
<1>6. \A e \in E : \A p \in DOMAIN e[3].values : e[3].values[p] \in 1 .. n /\ r0[e[3].values[p]] = e[3].key
  BY DEF RowsOnce
<1> HIDE DEF n
<1>7. ASSUME NEW e \in F, NEW p \in DOMAIN e[3].values
      PROVE  e[3].values[p] \in 1 .. n + 1 /\ r[e[3].values[p]] = e[3].key
  <2>1. CASE e = new
    <3>1. new[3].values[p] = n + 1
      BY <1>3, <2>1
    <3> QED BY <1>1, <1>5, <2>1, <3>1
  <2>2. CASE e \in E
    BY <1>1, <1>5, <1>6, <2>2
  <2> QED BY <2>1, <2>2
<1>8. ASSUME NEW i \in 1 .. n + 1, r[i] # Null
      PROVE  \E e \in F : \E p \in DOMAIN e[3].values :
               /\ e[3].values[p] = i
               /\ \A f \in F : \A q \in DOMAIN f[3].values : f[3].values[q] = i => f = e /\ q = p
  <2>1. CASE i = n + 1
    <3>1. ASSUME NEW f \in F, NEW q \in DOMAIN f[3].values, f[3].values[q] = i PROVE f = new /\ q = 1
      <4>1. f \notin E
        BY <1>5, <1>6, <2>1, <3>1
      <4> QED BY <1>3, <4>1
    <3>2. 1 \in DOMAIN new[3].values /\ new[3].values[1] = i /\ new \in F
      BY <1>3, <2>1
    <3> QED BY <3>1, <3>2
  <2>2. CASE i \in 1 .. n
    <3>1. r0[i] # Null
      BY <1>1, <1>8, <2>2
    <3>2. PICK e \in E : \E p \in DOMAIN e[3].values :
            /\ e[3].values[p] = i
            /\ \A f \in E : \A q \in DOMAIN f[3].values : f[3].values[q] = i => f = e /\ q = p
      BY <2>2, <3>1 DEF RowsOnce, n
    <3>3. PICK p \in DOMAIN e[3].values :
            /\ e[3].values[p] = i
            /\ \A f \in E : \A q \in DOMAIN f[3].values : f[3].values[q] = i => f = e /\ q = p
      BY <3>2
    <3>4. ASSUME NEW f \in F, NEW q \in DOMAIN f[3].values, f[3].values[q] = i PROVE f = e /\ q = p
      <4>1. f # new
        <5>1. SUFFICES ASSUME f = new PROVE FALSE
          OBVIOUS
        <5>2. new[3].values[q] = n + 1
          BY <1>3, <5>1
        <5> QED BY <1>5, <2>2, <3>4, <5>1, <5>2
      <4> QED BY <3>3, <3>4, <4>1
    <3> QED BY <3>3, <3>4
  <2> QED BY <1>4, <2>1, <2>2
<1>9. RowsOnce(F, r)
  BY <1>1, <1>7, <1>8 DEF RowsOnce
<1> QED
  BY <1>9 DEF F, r

(* An empty robin-hood table holds no rows, and has twice the slots. *)
LEMMA RHNewIs ==
  ASSUME NEW size \in Nat
  PROVE  RHTable(RH!New(size), None, <<>>, <<>>) /\ 2 * size <= RH!New(size).N
<1> DEFINE n == 2 * NextPow2(size)
           s == [i \in 0 .. n - 1 |-> None]
<1>1. NextPow2(size) \in Nat \ {0} /\ NextPow2(size) >= size
  BY NextPow2Bounds
<1>2. n \in Nat \ {0} /\ 2 * size <= n
  BY <1>1
<1>3. RH!New(size) = [N |-> n, slots |-> s]
  <2>1. RH!NextPow2(size) = NextPow2(size)
    BY SameOperators
  <2> QED BY <2>1, Zenon DEF RH!New
<1> HIDE DEF n
<1>4. s \in [0 .. n - 1 -> RH!EntrySet \cup {None}] /\ \A i \in 0 .. n - 1 : s[i] = None
  OBVIOUS
<1> HIDE DEF s
<1>5. RHSlots(n, s)
  BY <1>2, <1>4 DEF RHSlots
<1>6. InSlots("slot", n, s) = {}
  <2>1. \A x \in InSlots("slot", n, s) : \E i \in 0 .. n - 1 : s[i] # None
    BY InSlotsIs
  <2> QED BY <1>4, <2>1
<1>7. Content({}, <<>>)
  BY DEF Content
<1>8. RHInv(n, s, None, <<>>)
  BY <1>5, <1>6, <1>7 DEF RHInv
<1> DEFINE t == [N |-> n, slots |-> s]
<1>9. DOMAIN t = {"N", "slots"} /\ t.N = n /\ t.slots = s
  OBVIOUS
<1> HIDE DEF t
<1>10. RHTable(t, None, <<>>, <<>>) /\ 2 * size <= t.N
  BY <1>2, <1>8, <1>9 DEF RHTable
<1> QED
  BY <1>3, <1>10 DEF t

(* The next row is inserted: it is carried from its home. *)
LEMMA RHInserts ==
  ASSUME NEW r0 \in Seq(Values), RHTable(table, call, pending, r0), NEW k \in Keys,
         RH!Insert(k, <<Len(r0) + 1>>)
  PROVE  RHTable(table', call', pending', Append(r0, k)) /\ table'.N = table.N
<1>1. /\ call = None /\ table' = table /\ pending' = pending
      /\ call' = [key |-> k, values |-> <<Len(r0) + 1>>, pos |-> HomeOf(table.N, k),
                  current |-> [key |-> k, values |-> <<Len(r0) + 1>>, psl |-> 0]]
  BY DEF RH!Insert, RH!Home, HomeOf
<1>2. RHInv(table.N, table.slots, None, r0)
  BY <1>1 DEF RHTable
<1>3. RHInv(table.N, table.slots, call', Append(r0, k))
  BY <1>1, <1>2, RHInsert
<1> QED
  BY <1>1, <1>3 DEF RHTable

(* Every step of a robin-hood insert keeps the rows of the table. *)
LEMMA RHSteps ==
  ASSUME NEW rk \in Seq(Values), RHTable(table, call, pending, rk), 2 * Len(rk) <= table.N, RH!Step
  PROVE  RHTable(table', call', pending', rk) /\ table'.N = table.N
<1> DEFINE N == table.N
           s == table.slots
           i == call.pos
           e == call.current
<1>1. /\ DOMAIN table = {"N", "slots"} /\ pending = <<>> /\ RHInv(N, s, call, rk)
  BY DEF RHTable
<1>2. CASE RH!Settle
  <2> DEFINE t == [s EXCEPT ![i] = e]
  <2>1. /\ call # None /\ s[i] = None /\ call' = None /\ pending' = pending
        /\ table' = [table EXCEPT !.slots = t]
    BY <1>2 DEF RH!Settle, RH!Here
  <2>2. RHInv(N, t, None, rk)
    <3>1. call # None /\ s[call.pos] = None
      BY <2>1
    <3> HIDE DEF N, s
    <3> QED BY <1>1, <3>1, RHSettle
  <2> HIDE DEF t
  <2>3. DOMAIN table' = {"N", "slots"} /\ table'.N = N /\ table'.slots = t
    BY <1>1, <2>1
  <2> QED BY <1>1, <2>1, <2>2, <2>3 DEF RHTable
<1>3. CASE RH!AppendValues
  <2> DEFINE t == [s EXCEPT ![i].values = @ \o call.values]
  <2>1. /\ call # None /\ s[i] # None /\ s[i].key = call.key /\ call' = None /\ pending' = pending
        /\ table' = [table EXCEPT !.slots = t]
    BY <1>3 DEF RH!AppendValues, RH!Here
  <2>2. RHInv(N, t, None, rk)
    <3>1. call # None /\ s[call.pos] # None /\ s[call.pos].key = call.key /\ 2 * Len(rk) <= N
      BY <2>1
    <3> HIDE DEF N, s
    <3> QED BY <1>1, <3>1, RHAppend
  <2> HIDE DEF t
  <2>3. DOMAIN table' = {"N", "slots"} /\ table'.N = N /\ table'.slots = t
    BY <1>1, <2>1
  <2> QED BY <1>1, <2>1, <2>2, <2>3 DEF RHTable
<1>4. CASE RH!CarryOn /\ e.psl > s[i].psl
  <2> DEFINE t == [s EXCEPT ![i] = e]
  <2>1. /\ call # None /\ s[i] # None /\ s[i].key # call.key /\ pending' = pending
        /\ table' = [table EXCEPT !.slots = t]
        /\ call' = [call EXCEPT !.current = [s[i] EXCEPT !.psl = @ + 1], !.pos = (i + 1) % N]
    BY <1>4 DEF RH!CarryOn, RH!Here
  <2>2. RHInv(N, t, call', rk)
    <3>1. call # None /\ s[call.pos] # None /\ s[call.pos].key # call.key /\ 2 * Len(rk) <= N
          /\ call.current.psl > s[call.pos].psl
      BY <1>4, <2>1
    <3> HIDE DEF N, s
    <3> QED BY <1>1, <2>1, <3>1, RHTake
  <2> HIDE DEF t
  <2>3. DOMAIN table' = {"N", "slots"} /\ table'.N = N /\ table'.slots = t
    BY <1>1, <2>1
  <2> QED BY <1>1, <2>1, <2>2, <2>3 DEF RHTable
<1>5. CASE RH!CarryOn /\ ~(e.psl > s[i].psl)
  <2>1. /\ call # None /\ s[i] # None /\ s[i].key # call.key /\ pending' = pending
        /\ table' = table
        /\ call' = [call EXCEPT !.current = [e EXCEPT !.psl = @ + 1], !.pos = (i + 1) % N]
    BY <1>5 DEF RH!CarryOn, RH!Here
  <2>2. RHInv(N, s, call', rk)
    <3>1. call # None /\ s[call.pos] # None /\ s[call.pos].key # call.key /\ 2 * Len(rk) <= N
          /\ ~(call.current.psl > s[call.pos].psl)
      BY <1>5, <2>1
    <3> HIDE DEF N, s
    <3> QED BY <1>1, <2>1, <3>1, RHCarryOn
  <2> QED BY <1>1, <2>1, <2>2 DEF RHTable
<1> QED
  BY <1>2, <1>3, <1>4, <1>5 DEF RH!Step

(* What a robin-hood table shows to lookups and to the properties. *)
LEMMA RHShows ==
  ASSUME NEW rk \in Seq(Values), RHTable(table, call, pending, rk), 2 * Len(rk) <= table.N
  PROVE  /\ RH!TableType /\ RH!CallType /\ RH!Placed /\ RowsOnce(RH!Entries, rk)
         /\ 2 * Cardinality(RH!Stored) <= table.N
         /\ call = None => \A k \in Keys : RH!Find(k) = RowList(rk, k)
<1> DEFINE N == table.N
           s == table.slots
<1>1. RHInv(N, s, call, rk) /\ RHSlots(N, s) /\ N \in Nat \ {0}
      /\ s \in [0 .. N - 1 -> RH!EntrySet \cup {None}]
      /\ \A i \in 0 .. N - 1 : s[i] # None => Reached(N, s, s[i], i)
  BY DEF RHTable, RHInv, RHSlots
<1>2. \A i : i \in RH!Stored <=> i \in 0 .. N - 1 /\ s[i] # None
  BY DEF RH!Stored
<1>3. RH!TableType
  BY <1>1, <1>2 DEF RH!TableType, Reached
<1>4. RH!CallType
  BY <1>1 DEF RH!CallType, RHInv, Reached
<1>5. RH!Placed
  <2>1. ASSUME NEW i \in RH!Stored
        PROVE  /\ i = (RH!Home(s[i].key) + s[i].psl) % N
               /\ \A d \in 0 .. s[i].psl : RH!At(s[i].key, d) # None /\ RH!At(s[i].key, d).psl >= d
    <3>1. /\ s[i] # None /\ i \in 0 .. N - 1 /\ s[i].psl \in 0 .. N - 1
          /\ i = PlaceOf(N, s[i].key, s[i].psl) /\ Passed(N, s, s[i].key, s[i].psl)
      BY <1>1, <1>2, <2>1 DEF Reached
    <3> DEFINE k == s[i].key
               p == s[i].psl
    <3>2. \A d : RH!At(k, d) = s[PlaceOf(N, k, d)]
      BY DEF RH!At, RH!Home, PlaceOf, Place, HomeOf
    <3>3. ASSUME NEW d \in 0 .. p PROVE s[PlaceOf(N, k, d)] # None /\ s[PlaceOf(N, k, d)].psl >= d
      <4>1. CASE d = p
        BY <3>1, <4>1
      <4>2. CASE d # p
        <5>1. d \in 0 .. p - 1
          BY <3>1, <4>2
        <5> QED BY <3>1, <5>1 DEF Passed
      <4> QED BY <4>1, <4>2
    <3>4. i = (RH!Home(k) + p) % N
      BY <3>1 DEF RH!Home, PlaceOf, Place, HomeOf
    <3> QED BY <3>2, <3>3, <3>4
  <2> QED BY <2>1 DEF RH!Placed
<1>6. RH!Entries = InSlots("slot", N, s) \cup (IF call = None THEN {} ELSE {InHand(call.current)})
  BY DEF RH!Entries, RH!Stored, InSlots, InHand
<1>7. RowsOnce(RH!Entries, rk)
  <2>1. CASE call = None
    <3>1. Content(InSlots("slot", N, s), rk) /\ RH!Entries = InSlots("slot", N, s)
      BY <1>1, <1>6, <2>1 DEF RHInv
    <3> QED BY <3>1, ContentRows
  <2>2. CASE call # None /\ Carries(N, s, call, rk)
    <3>1. PICK r0 \in Seq(Values) : rk = Append(r0, call.key) /\ Content(InSlots("slot", N, s), r0)
      BY <2>2 DEF Carries
    <3>2. RowsOnce(InSlots("slot", N, s), r0)
      BY <3>1, ContentRows
    <3> DEFINE new == InHand(call.current)
    <3>3. new[3].key = call.key /\ new[3].values = <<Len(r0) + 1>> /\ call.key \in Values
      <4>1. new[3] = call.current
        BY AtIs
      <4>2. Len(rk) = Len(r0) + 1
        BY <3>1
      <4>3. call.key \in Values
        BY <1>1, <2>2 DEF RHInv, RH!CallSet, Values
      <4> HIDE DEF new
      <4> QED BY <2>2, <4>1, <4>2, <4>3 DEF Carries
    <3> HIDE DEF new
    <3>4. RowsOnce(InSlots("slot", N, s) \cup {new}, Append(r0, call.key))
      <4> DEFINE I == InSlots("slot", N, s)
                 k == call.key
      <4>1. RowsOnce(I, r0) /\ k \in Values /\ new[3].key = k /\ new[3].values = <<Len(r0) + 1>>
        BY <3>2, <3>3
      <4> HIDE DEF I, k
      <4>2. RowsOnce(I \cup {new}, Append(r0, k))
        BY <3>1, <4>1, RowsOnceMore
      <4> QED BY <4>2 DEF I, k
    <3> QED BY <1>6, <2>2, <3>1, <3>4 DEF new
  <2>3. CASE call # None /\ Displaced(N, s, call, rk)
    <3>1. Content(InSlots("slot", N, s) \cup {InHand(call.current)}, rk)
      BY <2>3 DEF Displaced
    <3> QED BY <1>6, <2>3, <3>1, ContentRows
  <2> QED BY <1>1, <2>1, <2>2, <2>3 DEF RHInv
<1>8. 2 * Cardinality(RH!Stored) <= N
  <2>1. RH!Stored = Filled(N, s)
    BY DEF RH!Stored, Filled
  <2>2. 2 * Len(rk) <= N
    OBVIOUS
  <2> HIDE DEF N, s
  <2> QED BY <1>1, <2>1, <2>2, RHHalfEmpty
<1>9. ASSUME call = None, NEW k \in Keys PROVE RH!Find(k) = RowList(rk, k)
  <2>1. RH!Find(k) = RHLookup(N, s, k)
    <3>1. \A S : RH!Min(S) = Min(S)
      BY SameOperators
    <3> QED BY <3>1, Zenon DEF RH!Find, RHLookup, RH!At, RH!Home, PlaceOf, Place, HomeOf
  <2>2. RHInv(N, s, None, rk) /\ 2 * Len(rk) <= N
    BY <1>1, <1>9
  <2> HIDE DEF N, s
  <2> QED BY <2>1, <2>2, RHFinds
<1> QED
  BY <1>3, <1>4, <1>5, <1>7, <1>8, <1>9

(* A cuckoo table, the insert that runs in it and those to follow it hold  *)
(* the rows with keys rk.                                                  *)
CKTable(t, c, p, rk) ==
  DOMAIN t = {"N", "inserted", "one", "two"} /\ CKInv(t.N, t.inserted, t.one, t.two, c, p, rk)

(* An empty cuckoo table holds no rows. *)
LEMMA CKNewIs ==
  ASSUME NEW size \in Nat
  PROVE  CKTable(CK!New(size), None, <<>>, <<>>)
<1> DEFINE q == 2 * NextPow2(size)
           N == Max({MinSlots, q})
           none == [i \in 0 .. N - 1 |-> None]
<1>1. q \in Nat \ {0} /\ MinSlots \in Nat \ {0}
  BY NextPow2Bounds, SizesAssumption
<1>2. CK!New(size) = [N |-> N, inserted |-> 0, one |-> none, two |-> none]
  <2>1. CK!NextPow2(size) = NextPow2(size) /\ \A S : CK!Max(S) = Max(S)
    BY SameOperators
  <2> QED BY <2>1, Zenon DEF CK!New, CK!Vacated
<1> HIDE DEF q
<1>3. N \in Nat \ {0} /\ N >= MinSlots
  <2> DEFINE S == {MinSlots, q}
             m == MinSlots + q
  <2>1. m \in Nat /\ S \in SUBSET (0 .. m) /\ S # {} /\ MinSlots \in S /\ \A x \in S : x \in Nat \ {0}
    BY <1>1
  <2> HIDE DEF S, m
  <2>2. Max(S) \in S /\ \A y \in S : Max(S) >= y
    BY <2>1, MaxIsGreatest
  <2>3. Max(S) \in Nat \ {0} /\ Max(S) >= MinSlots
    BY <2>1, <2>2
  <2> QED BY <2>3 DEF S
<1> HIDE DEF N
<1>4. Content(Queue(<<>>), <<>>)
  BY QueueEmpty DEF Content
<1>5. <<>> \in Seq(CK!EntrySet)
  OBVIOUS
<1>6. none = [i \in 0 .. N - 1 |-> None]
  OBVIOUS
<1> HIDE DEF none
<1>7. CKInv(N, 0, none, none, None, <<>>, <<>>)
  BY <1>3, <1>4, <1>5, <1>6, CKVacated
<1> DEFINE t == [N |-> N, inserted |-> 0, one |-> none, two |-> none]
<1>8. DOMAIN t = {"N", "inserted", "one", "two"} /\ t.N = N /\ t.inserted = 0 /\ t.one = none /\ t.two = none
  OBVIOUS
<1> HIDE DEF t
<1>9. CKTable(t, None, <<>>, <<>>)
  BY <1>7, <1>8 DEF CKTable
<1> QED
  BY <1>2, <1>9 DEF t

(* The next row is inserted: into the entry of its key or to be carried. *)
LEMMA CKInserts ==
  ASSUME NEW r0 \in Seq(Values), CKTable(table, call, pending, r0), NEW k \in Keys,
         CK!Insert(k, <<Len(r0) + 1>>)
  PROVE  CKTable(table', call', pending', Append(r0, k))
<1> DEFINE N == table.N
           n == table.inserted
           one == table.one
           two == table.two
           h1 == Hash1[k] % N
           h2 == Hash2[k] % N
           e == [key |-> k, values |-> <<Len(r0) + 1>>]
<1>1. /\ DOMAIN table = {"N", "inserted", "one", "two"} /\ pending = <<>> /\ call = None /\ pending' = <<>>
      /\ CKInv(N, n, one, two, None, <<>>, r0)
  BY DEF CKTable, CK!Insert, CK!Begin
<1>2. e.key = k /\ e.values = <<Len(r0) + 1>>
  OBVIOUS
<1>3. \/ /\ CKHas(one, h1, k) /\ call' = None
         /\ table' = [table EXCEPT !.one[h1].values = @ \o <<Len(r0) + 1>>]
      \/ /\ CKHas(two, h2, k) /\ call' = None
         /\ table' = [table EXCEPT !.two[h2].values = @ \o <<Len(r0) + 1>>]
      \/ /\ ~CKHas(one, h1, k) /\ ~CKHas(two, h2, k) /\ table' = table
         /\ call' = [current |-> e, side |-> 1, kicks |-> 0]
  BY <1>1, <1>2 DEF CK!Insert, CK!Begin, CK!Holds, CK!Home1, CK!Home2, CKHas
<1>4. CASE CKHas(one, h1, k) /\ call' = None
           /\ table' = [table EXCEPT !.one[h1].values = @ \o <<Len(r0) + 1>>]
  <2> DEFINE t == [one EXCEPT ![h1].values = @ \o <<Len(r0) + 1>>]
  <2>1. table' = [table EXCEPT !.one = t]
    BY <1>4
  <2>2. CKInv(N, n, t, two, None, <<>>, Append(r0, k))
    <3> HIDE DEF N, n, one, two
    <3> QED BY <1>1, <1>4, CKInsertMore
  <2> HIDE DEF t
  <2>3. DOMAIN table' = {"N", "inserted", "one", "two"}
        /\ table'.N = N /\ table'.inserted = n /\ table'.one = t /\ table'.two = two
    BY <1>1, <2>1
  <2> QED BY <1>1, <1>4, <2>2, <2>3 DEF CKTable
<1>5. CASE CKHas(two, h2, k) /\ call' = None
           /\ table' = [table EXCEPT !.two[h2].values = @ \o <<Len(r0) + 1>>]
  <2> DEFINE t == [two EXCEPT ![h2].values = @ \o <<Len(r0) + 1>>]
  <2>1. table' = [table EXCEPT !.two = t]
    BY <1>5
  <2>2. CKInv(N, n, one, t, None, <<>>, Append(r0, k))
    <3> HIDE DEF N, n, one, two
    <3> QED BY <1>1, <1>5, CKInsertMore
  <2> HIDE DEF t
  <2>3. DOMAIN table' = {"N", "inserted", "one", "two"}
        /\ table'.N = N /\ table'.inserted = n /\ table'.one = one /\ table'.two = t
    BY <1>1, <2>1
  <2> QED BY <1>1, <1>5, <2>2, <2>3 DEF CKTable
<1>6. CASE ~CKHas(one, h1, k) /\ ~CKHas(two, h2, k) /\ table' = table
           /\ call' = [current |-> e, side |-> 1, kicks |-> 0]
  <2>1. CKInv(N, n, one, two, call', <<>>, Append(r0, k))
    <3> HIDE DEF N, n, one, two
    <3> QED BY <1>1, <1>6, CKInsertNew
  <2> QED BY <1>1, <1>6, <2>1 DEF CKTable
<1> QED
  BY <1>3, <1>4, <1>5, <1>6

(* Every step of a cuckoo insert keeps the rows of the table. *)
LEMMA CKSteps ==
  ASSUME NEW rk \in Seq(Values), CKTable(table, call, pending, rk), CK!Step
  PROVE  CKTable(table', call', pending', rk)
<1> DEFINE N == table.N
           n == table.inserted
           one == table.one
           two == table.two
           i1 == Hash1[call.current.key] % N
           i2 == Hash2[call.current.key] % N
           e == call.current
           fields == {"N", "inserted", "one", "two"}
<1>1. DOMAIN table = fields /\ CKInv(N, n, one, two, call, pending, rk)
  BY DEF CKTable
<1>2. CASE CK!Reinsert
  <2> DEFINE p == pending
             h == Head(p)
  <2>1. p # <<>> /\ call = None
    BY <1>2 DEF CK!Reinsert, CK!Begin
  <2>2. /\ CKInv(N, n, one, two, [current |-> h, side |-> 1, kicks |-> 0], Tail(p), rk)
        /\ ~CKHas(one, Hash1[h.key] % N, h.key) /\ ~CKHas(two, Hash2[h.key] % N, h.key)
    <3> HIDE DEF N, n, one, two
    <3> QED BY <1>1, <2>1, CKReinsert
  <2>3. ~CK!Holds(table.one[CK!Home1(h.key)], h.key) /\ ~CK!Holds(table.two[CK!Home2(h.key)], h.key)
    BY <2>2 DEF CKHas, CK!Holds, CK!Home1, CK!Home2
  <2>4. /\ call' = [current |-> h, side |-> 1, kicks |-> 0] /\ table' = table /\ pending' = Tail(p)
    BY <1>2, <2>3 DEF CK!Reinsert, CK!Begin
  <2> QED BY <1>1, <2>2, <2>4 DEF CKTable
<1>3. CASE ~CK!Reinsert
  <2>1. call # None /\ CK!Step
    BY <1>3 DEF CK!Step, CK!Settle, CK!Kick, CK!Rehash
  <2>2. call.side \in {1, 2} /\ call.kicks \in Nat /\ call.current \in CK!EntrySet /\ n \in Nat /\ N \in Nat \ {0}
    <3>1. call \in CK!CallSet /\ n \in Nat /\ N \in Nat \ {0}
      <4> HIDE DEF N, n, one, two
      <4>1. call \in CK!CallSet /\ N \in Nat \ {0}
        BY <1>1, <2>1 DEF CKInv
      <4>2. n \in 0 .. 2 * N
        BY <1>1, CKCount
      <4> QED BY <4>1, <4>2
    <3> QED BY <3>1 DEF CK!CallSet
  <2>3. CASE call.side = 1
    <3> DEFINE t == [one EXCEPT ![i1] = e]
    <3>1. CK!Slot = one[i1] /\ CK!WithCurrent = [table EXCEPT !.one = t]
      BY <2>3 DEF CK!Slot, CK!WithCurrent, CK!Home1
    <3>2. one[i1] = None => CKInv(N, n + 1, t, two, None, pending, rk)
      <4> HIDE DEF N, n, one, two
      <4> QED BY <1>1, <2>1, CKSettle
    <3>3. one[i1] # None => CKCarried(N, n, t, two, pending, one[i1], rk)
      <4> HIDE DEF N, n, one, two
      <4> QED BY <1>1, <2>1, CKEvict
    <3> HIDE DEF t
    <3> DEFINE w == CK!WithCurrent
    <3>4. DOMAIN w = fields /\ w.N = N /\ w.inserted = n /\ w.one = t /\ w.two = two
      BY <1>1, <3>1
    <3> HIDE DEF w
    <3>5. CASE CK!Settle
      <4>1. one[i1] = None /\ call' = None /\ pending' = pending /\ table' = [w EXCEPT !.inserted = n + 1]
        BY <1>3, <3>1, <3>4, <3>5 DEF CK!Settle, w
      <4>2. DOMAIN table' = fields /\ table'.N = N /\ table'.inserted = n + 1 /\ table'.one = t /\ table'.two = two
        BY <3>4, <4>1
      <4> QED BY <3>2, <4>1, <4>2 DEF CKTable
    <3>6. CASE CK!Kick
      <4> DEFINE c == [current |-> one[i1], side |-> 3 - call.side, kicks |-> call.kicks + 1]
      <4>1. one[i1] # None /\ call.kicks + 1 < n /\ table' = w /\ call' = c /\ pending' = pending
        BY <3>1, <3>6 DEF CK!Kick, w
      <4>2. 3 - call.side \in {1, 2} /\ call.kicks + 1 \in Nat
        BY <2>2
      <4>3. CKInv(N, n, t, two, c, pending, rk)
        <5> HIDE DEF N, n, one, two, i1
        <5> QED BY <3>3, <4>1, <4>2, CKKick
      <4> QED BY <3>4, <4>1, <4>3 DEF CKTable
    <3>7. CASE CK!Rehash
      <4> DEFINE q == Occupied(t, N, None) \o Occupied(two, N, None) \o <<one[i1]>> \o pending
                 none == [i \in 0 .. 2 * N - 1 |-> None]
      <4>1. one[i1] # None /\ table' = CK!Vacated(2 * N) /\ call' = None
            /\ pending' = CK!Occupied(w.one, N, None) \o CK!Occupied(w.two, N, None) \o <<one[i1]>> \o pending
        BY <3>1, <3>7 DEF CK!Rehash, w
      <4>2. pending' = q
        <5>1. CK!Occupied(t, N, None) = Occupied(t, N, None) /\ CK!Occupied(two, N, None) = Occupied(two, N, None)
          BY SameOperators
        <5> QED BY <3>4, <4>1, <5>1
      <4>3. CKInv(2 * N, 0, none, none, None, q, rk)
        <5> HIDE DEF N, n, one, two, i1
        <5> QED BY <3>3, <4>1, CKRehash
      <4>4. DOMAIN table' = fields /\ table'.N = 2 * N /\ table'.inserted = 0 /\ table'.one = none /\ table'.two = none
        BY <4>1 DEF CK!Vacated
      <4> QED BY <4>1, <4>2, <4>3, <4>4 DEF CKTable
    <3> QED BY <1>3, <2>1, <3>5, <3>6, <3>7 DEF CK!Step
  <2>4. CASE call.side # 1
    <3> DEFINE t == [two EXCEPT ![i2] = e]
    <3>1. CK!Slot = two[i2] /\ CK!WithCurrent = [table EXCEPT !.two = t]
      BY <2>4 DEF CK!Slot, CK!WithCurrent, CK!Home2
    <3>2. two[i2] = None => CKInv(N, n + 1, one, t, None, pending, rk)
      <4> HIDE DEF N, n, one, two
      <4> QED BY <1>1, <2>1, CKSettle
    <3>3. two[i2] # None => CKCarried(N, n, one, t, pending, two[i2], rk)
      <4> HIDE DEF N, n, one, two
      <4> QED BY <1>1, <2>1, CKEvict
    <3> HIDE DEF t
    <3> DEFINE w == CK!WithCurrent
    <3>4. DOMAIN w = fields /\ w.N = N /\ w.inserted = n /\ w.one = one /\ w.two = t
      BY <1>1, <3>1
    <3> HIDE DEF w
    <3>5. CASE CK!Settle
      <4>1. two[i2] = None /\ call' = None /\ pending' = pending /\ table' = [w EXCEPT !.inserted = n + 1]
        BY <1>3, <3>1, <3>4, <3>5 DEF CK!Settle, w
      <4>2. DOMAIN table' = fields /\ table'.N = N /\ table'.inserted = n + 1 /\ table'.one = one /\ table'.two = t
        BY <3>4, <4>1
      <4> QED BY <3>2, <4>1, <4>2 DEF CKTable
    <3>6. CASE CK!Kick
      <4> DEFINE c == [current |-> two[i2], side |-> 3 - call.side, kicks |-> call.kicks + 1]
      <4>1. two[i2] # None /\ call.kicks + 1 < n /\ table' = w /\ call' = c /\ pending' = pending
        BY <3>1, <3>6 DEF CK!Kick, w
      <4>2. 3 - call.side \in {1, 2} /\ call.kicks + 1 \in Nat
        BY <2>2
      <4>3. CKInv(N, n, one, t, c, pending, rk)
        <5> HIDE DEF N, n, one, two, i2
        <5> QED BY <3>3, <4>1, <4>2, CKKick
      <4> QED BY <3>4, <4>1, <4>3 DEF CKTable
    <3>7. CASE CK!Rehash
      <4> DEFINE q == Occupied(one, N, None) \o Occupied(t, N, None) \o <<two[i2]>> \o pending
                 none == [i \in 0 .. 2 * N - 1 |-> None]
      <4>1. two[i2] # None /\ table' = CK!Vacated(2 * N) /\ call' = None
            /\ pending' = CK!Occupied(w.one, N, None) \o CK!Occupied(w.two, N, None) \o <<two[i2]>> \o pending
        BY <3>1, <3>7 DEF CK!Rehash, w
      <4>2. pending' = q
        <5>1. CK!Occupied(one, N, None) = Occupied(one, N, None) /\ CK!Occupied(t, N, None) = Occupied(t, N, None)
          BY SameOperators
        <5> QED BY <3>4, <4>1, <5>1
      <4>3. CKInv(2 * N, 0, none, none, None, q, rk)
        <5> HIDE DEF N, n, one, two, i2
        <5> QED BY <3>3, <4>1, CKRehash
      <4>4. DOMAIN table' = fields /\ table'.N = 2 * N /\ table'.inserted = 0 /\ table'.one = none /\ table'.two = none
        BY <4>1 DEF CK!Vacated
      <4> QED BY <4>1, <4>2, <4>3, <4>4 DEF CKTable
    <3> QED BY <1>3, <2>1, <3>5, <3>6, <3>7 DEF CK!Step
  <2> QED BY <2>3, <2>4
<1> QED
  BY <1>2, <1>3

(* What a cuckoo table shows to lookups and to the properties. *)
LEMMA CKShows ==
  ASSUME NEW rk \in Seq(Values), CKTable(table, call, pending, rk)
  PROVE  /\ CK!TableType /\ CK!CallType /\ CK!Placed /\ RowsOnce(CK!Entries, rk)
         /\ call = None /\ pending = <<>> => \A k \in Keys : CK!Find(k) = RowList(rk, k)
<1> DEFINE N == table.N
           n == table.inserted
           one == table.one
           two == table.two
           E == CKStored(N, one, two)
<1>1. CKInv(N, n, one, two, call, pending, rk)
  BY DEF CKTable
<1>2. n \in 0 .. 2 * N /\ (call # None => call.kicks \in 0 .. 2 * N)
  BY <1>1, CKCount
<1>3. /\ N \in Nat \ {0} /\ N >= MinSlots /\ Homed(N, Hash1, one) /\ Homed(N, Hash2, two)
      /\ n = Cardinality(E) /\ (call # None => call \in CK!CallSet)
      /\ Content(E \cup (Queue(pending) \cup CKHeld(call)), rk)
  BY <1>1 DEF CKInv
<1>4. CK!TableType /\ CK!CallType
  BY <1>2, <1>3 DEF CK!TableType, CK!CallType, Homed
<1>5. CK!Stored = E
  BY DEF CK!Stored, CKStored, InSlots
<1>6. CK!Placed
  <2>1. ASSUME NEW x \in E
        PROVE  x[2] = IF x[1] = "one" THEN CK!Home1(x[3].key) ELSE CK!Home2(x[3].key)
    <3>1. CASE x \in InSlots("one", N, one)
      <4>1. x[1] = "one" /\ x[2] \in 0 .. N - 1 /\ x[3] # None /\ x[3] = one[x[2]]
        BY <3>1, InSlotsIs
      <4> QED BY <1>3, <4>1 DEF Homed, CK!Home1
    <3>2. CASE x \in InSlots("two", N, two)
      <4>1. x[1] = "two" /\ x[2] \in 0 .. N - 1 /\ x[3] # None /\ x[3] = two[x[2]]
        BY <3>2, InSlotsIs
      <4> QED BY <1>3, <4>1 DEF Homed, CK!Home2
    <3> QED BY <3>1, <3>2 DEF CKStored
  <2>2. \A x, y \in E : x[3].key = y[3].key => x = y
    BY <1>3 DEF Content
  <2>3. \A x \in E : x[2] = IF x[1] = "one" THEN CK!Home1(x[3].key) ELSE CK!Home2(x[3].key)
    BY <2>1
  <2>4. table.inserted = Cardinality(E)
    BY <1>3
  <2>5. CK!Cardinality(E) = Cardinality(E)
    BY Zenon DEF CK!Cardinality, Cardinality
  <2> HIDE DEF E
  <2> QED BY <1>5, <2>2, <2>3, <2>4, <2>5, Zenon DEF CK!Placed
<1>7. RowsOnce(CK!Entries, rk)
  <2>1. CK!Entries = E \cup (Queue(pending) \cup CKHeld(call))
    <3>1. CK!Entries = (E \cup Queue(pending)) \cup CKHeld(call)
      BY <1>5 DEF CK!Entries, Queue, CKHeld, InHand
    <3> QED BY <3>1
  <2> QED BY <1>3, <2>1, ContentRows
<1>8. ASSUME call = None, pending = <<>>, NEW k \in Keys PROVE CK!Find(k) = RowList(rk, k)
  <2>1. CK!Find(k) = CKLookup(N, one, two, k)
    BY DEF CK!Find, CKLookup, CK!Holds, CKHas, CK!Home1, CK!Home2
  <2>2. CKInv(N, n, one, two, None, <<>>, rk)
    BY <1>1, <1>8
  <2> HIDE DEF N, n, one, two
  <2> QED BY <2>1, <2>2, CKFinds
<1> QED
  BY <1>4, <1>6, <1>7, <1>8

(* A hopscotch table, the insert that runs in it and those to follow it    *)
(* hold the rows with keys rk.                                             *)
HSTable(t, c, p, rk) ==
  DOMAIN t = {"N", "slots", "bitmap"} /\ HSInv(t.N, t.slots, t.bitmap, c, p, rk)

(* An empty hopscotch table holds no rows, and has twice the slots. *)
LEMMA HSNewIs ==
  ASSUME NEW size \in Nat
  PROVE  HSTable(HS!New(size), None, <<>>, <<>>) /\ 2 * size <= HS!New(size).N
<1> DEFINE N == 2 * NextPow2(size)
           s == [i \in 0 .. N - 1 |-> None]
           bm == [i \in 0 .. N - 1 |-> {}]
<1>1. N \in Nat \ {0} /\ 2 * size <= N
  BY NextPow2Bounds
<1>2. HS!New(size) = [N |-> N, slots |-> s, bitmap |-> bm]
  <2>1. HS!NextPow2(size) = NextPow2(size)
    BY SameOperators
  <2> QED BY <2>1, Zenon DEF HS!New, HS!Vacated
<1> HIDE DEF N
<1>3. Content(Queue(<<>>), <<>>)
  BY QueueEmpty DEF Content
<1>4. <<>> \in Seq(HS!EntrySet)
  OBVIOUS
<1>5. s = [i \in 0 .. N - 1 |-> None] /\ bm = [i \in 0 .. N - 1 |-> {}]
  OBVIOUS
<1> HIDE DEF s, bm
<1>6. HSInv(N, s, bm, None, <<>>, <<>>)
  BY <1>1, <1>3, <1>4, <1>5, HSVacated
<1> DEFINE t == [N |-> N, slots |-> s, bitmap |-> bm]
<1>7. DOMAIN t = {"N", "slots", "bitmap"} /\ t.N = N /\ t.slots = s /\ t.bitmap = bm
  OBVIOUS
<1> HIDE DEF t
<1>8. HSTable(t, None, <<>>, <<>>) /\ 2 * size <= t.N
  BY <1>1, <1>6, <1>7 DEF HSTable
<1> QED
  BY <1>2, <1>8 DEF t

(* The operators of the table, by the numbers they depend on. *)
LEMMA HSOperators ==
  /\ \A k : HS!Home(k) = HomeOf(table.N, k)
  /\ \A i, d : HS!Ahead(i, d) = Place(table.N, i, d)
  /\ \A i, j : HS!Distance(i, j) = Dist(table.N, i, j)
  /\ \A k : HS!Matching(k) = HSMatching(table.N, table.slots, table.bitmap, k)
<1>1. /\ \A k : HS!Home(k) = HomeOf(table.N, k)
      /\ \A i, d : HS!Ahead(i, d) = Place(table.N, i, d)
      /\ \A i, j : HS!Distance(i, j) = Dist(table.N, i, j)
  BY DEF HS!Home, HS!Ahead, HS!Distance, HomeOf, Place, Dist
<1>2. \A k : HS!Matching(k) = HSMatching(table.N, table.slots, table.bitmap, k)
  BY Zenon DEF HS!Matching, HSMatching, HS!Home, HS!Ahead, HomeOf, Place
<1> QED
  BY <1>1, <1>2

(* A rehash keeps the rows: all entries wait to be inserted again. *)
LEMMA HSRehashes ==
  ASSUME NEW rk, NEW e, NEW p, HSCarried(table.N, table.slots, table.bitmap, p, e, rk),
         HS!Rehash(e, p)
  PROVE  HSTable(table', call', pending', rk) /\ table'.N = 2 * table.N
<1> DEFINE N == table.N
           s == table.slots
           none == [i \in 0 .. 2 * N - 1 |-> None]
           bm == [i \in 0 .. 2 * N - 1 |-> {}]
           q == Occupied(s, N, None) \o <<e>> \o p
<1>1. call' = None /\ pending' = q /\ table' = [N |-> 2 * N, slots |-> none, bitmap |-> bm]
  BY SameOperators DEF HS!Rehash, HS!Vacated
<1>2. HSInv(2 * N, none, bm, None, q, rk)
  BY HSRehash
<1> HIDE DEF none, bm, q
<1>3. DOMAIN table' = {"N", "slots", "bitmap"} /\ table'.N = 2 * N /\ table'.slots = none /\ table'.bitmap = bm
  BY <1>1
<1> QED
  BY <1>1, <1>2, <1>3 DEF HSTable

(* The next row is inserted: into the entry of its key, to be carried, or  *)
(* after a rehash.                                                         *)
LEMMA HSInserts ==
  ASSUME NEW r0 \in Seq(Values), HSTable(table, call, pending, r0), NEW k \in Keys,
         HS!Insert(k, <<Len(r0) + 1>>)
  PROVE  HSTable(table', call', pending', Append(r0, k)) /\ table'.N >= table.N
<1> DEFINE N == table.N
           s == table.slots
           bm == table.bitmap
           e == [key |-> k, values |-> <<Len(r0) + 1>>]
           M == HSMatching(N, s, bm, k)
<1>1. /\ DOMAIN table = {"N", "slots", "bitmap"} /\ pending = <<>> /\ call = None
      /\ HSInv(N, s, bm, None, <<>>, r0) /\ N \in Nat \ {0}
  BY DEF HSTable, HS!Insert, HS!Begin, HSInv, Mapped
<1>2. e.key = k /\ e.values = <<Len(r0) + 1>> /\ HS!Matching(k) = M /\ HS!Home(k) = HomeOf(N, k)
  BY HSOperators
<1> HIDE DEF M
<1>3. \/ \E i \in M : /\ table' = [table EXCEPT !.slots[i].values = @ \o <<Len(r0) + 1>>]
                      /\ call' = None /\ pending' = <<>>
      \/ M = {} /\ HS!Rehash(e, <<>>)
      \/ M = {} /\ table' = table /\ call' = [entry |-> e, j |-> HomeOf(N, k)] /\ pending' = <<>>
  BY <1>1, <1>2 DEF HS!Insert, HS!Begin
<1>4. CASE \E i \in M : /\ table' = [table EXCEPT !.slots[i].values = @ \o <<Len(r0) + 1>>]
                        /\ call' = None /\ pending' = <<>>
  <2>1. PICK i \in M : /\ table' = [table EXCEPT !.slots[i].values = @ \o <<Len(r0) + 1>>]
                       /\ call' = None /\ pending' = <<>>
    BY <1>4
  <2> DEFINE t == [s EXCEPT ![i].values = @ \o <<Len(r0) + 1>>]
  <2>2. table' = [table EXCEPT !.slots = t]
    BY <2>1
  <2>3. HSInv(N, t, bm, None, <<>>, Append(r0, k))
    <3> HIDE DEF N, s, bm
    <3> QED BY <1>1, HSInsertMore DEF M
  <2> HIDE DEF t
  <2>4. DOMAIN table' = {"N", "slots", "bitmap"} /\ table'.N = N /\ table'.slots = t /\ table'.bitmap = bm
    BY <1>1, <2>2
  <2>5. HSTable(table', call', pending', Append(r0, k))
    BY <2>1, <2>3, <2>4 DEF HSTable
  <2>6. table'.N >= table.N
    BY <1>1, <2>4
  <2> QED BY <2>5, <2>6
<1>5. M = {} => HSCarried(N, s, bm, <<>>, e, Append(r0, k))
  <2> HIDE DEF N, s, bm
  <2> QED BY <1>1, HSInsertNew DEF M
<1>6. CASE M = {} /\ HS!Rehash(e, <<>>)
  <2> HIDE DEF e
  <2>1. HSTable(table', call', pending', Append(r0, k)) /\ table'.N = 2 * N
    BY <1>5, <1>6, HSRehashes
  <2> QED BY <1>1, <2>1
<1>7. CASE M = {} /\ table' = table /\ call' = [entry |-> e, j |-> HomeOf(N, k)] /\ pending' = <<>>
  <2>1. HomeOf(N, k) \in 0 .. N - 1
    <3> HIDE DEF N, e
    <3> QED BY <1>1, <1>2, <1>5, <1>7, HSHome DEF HSCarried
  <2>2. HSInv(N, s, bm, call', <<>>, Append(r0, k))
    <3> HIDE DEF N, s, bm, e
    <3> QED BY <1>5, <1>7, <2>1, HSSearch
  <2> QED BY <1>1, <1>7, <2>2 DEF HSTable
<1> QED
  BY <1>3, <1>4, <1>6, <1>7

(* Every step of a hopscotch insert keeps the rows of the table. *)
LEMMA HSSteps ==
  ASSUME NEW rk \in Seq(Values), HSTable(table, call, pending, rk), HS!Step
  PROVE  HSTable(table', call', pending', rk) /\ table'.N >= table.N
<1> DEFINE N == table.N
           s == table.slots
           bm == table.bitmap
           j == call.j
           e == call.entry
           h == HomeOf(N, e.key)
           fields == {"N", "slots", "bitmap"}
<1>1. DOMAIN table = fields /\ HSInv(N, s, bm, call, pending, rk) /\ N \in Nat \ {0} /\ Mapped(N, s, bm)
  BY DEF HSTable, HSInv, Mapped
<1>2. /\ \A k : HS!Home(k) = HomeOf(N, k)
      /\ \A i, d : HS!Ahead(i, d) = Place(N, i, d)
      /\ \A i, d : HS!Distance(i, d) = Dist(N, i, d)
      /\ \A k : HS!Matching(k) = HSMatching(N, s, bm, k)
  BY HSOperators
<1>3. CASE HS!Reinsert
  <2> DEFINE p == pending
             hd == Head(p)
  <2>1. p # <<>> /\ call = None
    BY <1>3 DEF HS!Reinsert, HS!Begin
  <2>2. HSCarried(N, s, bm, Tail(p), hd, rk) /\ HSMatching(N, s, bm, hd.key) = {}
    <3> HIDE DEF N, s, bm
    <3> QED BY <1>1, <2>1, HSReinsert
  <2>3. \/ HS!Rehash(hd, Tail(p))
        \/ call' = [entry |-> hd, j |-> HomeOf(N, hd.key)] /\ pending' = Tail(p) /\ table' = table
    BY <1>2, <1>3, <2>2 DEF HS!Reinsert, HS!Begin
  <2>4. CASE HS!Rehash(hd, Tail(p))
    <3>1. HSTable(table', call', pending', rk) /\ table'.N = 2 * N
      <4> HIDE DEF hd
      <4> QED BY <2>2, <2>4, HSRehashes
    <3> QED BY <1>1, <3>1
  <2>5. CASE call' = [entry |-> hd, j |-> HomeOf(N, hd.key)] /\ pending' = Tail(p) /\ table' = table
    <3>1. HomeOf(N, hd.key) \in 0 .. N - 1
      <4> HIDE DEF N, hd
      <4> QED BY <1>1, <2>2, HSHome DEF HSCarried
    <3>2. HSInv(N, s, bm, call', Tail(p), rk)
      <4> HIDE DEF N, s, bm, hd
      <4> QED BY <2>2, <2>5, <3>1, HSSearch
    <3> QED BY <1>1, <2>5, <3>2 DEF HSTable
  <2> QED BY <2>3, <2>4, <2>5
<1>4. CASE ~HS!Reinsert
  <2>1. call # None /\ HS!Step
    BY <1>4 DEF HS!Step, HS!SearchOn, HS!Move, HS!NothingMoves, HS!Settle
  <2>2. HSCarried(N, s, bm, pending, e, rk) /\ call = [entry |-> e, j |-> j] /\ j \in 0 .. N - 1
    <3> HIDE DEF N, s, bm
    <3> QED BY <1>1, <2>1, HSCarries
  <2>3. CASE HS!SearchOn
    <3> DEFINE i == Place(N, j, 1)
    <3>1. i \in 0 .. N - 1
      <4>1. Place(N, j, 1) = (j + 1) % N /\ j + 1 \in Nat
        BY <2>2 DEF Place
      <4> HIDE DEF N, j
      <4> QED BY <1>1, <4>1
    <3>2. call' = [entry |-> e, j |-> i] /\ table' = table /\ pending' = pending
      BY <1>2, <2>2, <2>3 DEF HS!SearchOn
    <3>3. HSInv(N, s, bm, call', pending, rk)
      <4> HIDE DEF N, s, bm, e, i
      <4> QED BY <2>2, <3>1, <3>2, HSSearch
    <3> QED BY <1>1, <3>2, <3>3 DEF HSTable
  <2>4. CASE HS!NothingMoves
    <3>1. HS!Rehash(e, pending)
      BY <2>4 DEF HS!NothingMoves
    <3>2. HSTable(table', call', pending', rk) /\ table'.N = 2 * N
      <4> HIDE DEF e
      <4> QED BY <2>2, <3>1, HSRehashes
    <3> QED BY <1>1, <3>2
  <2>5. CASE HS!Settle
    <3> DEFINE d == Dist(N, h, j)
               t == [s EXCEPT ![j] = e]
               b == [bm EXCEPT ![h] = @ \cup {d}]
    <3>1. s[j] = None /\ ~(d >= H) /\ call' = None /\ pending' = pending
          /\ table' = [table EXCEPT !.slots[j] = e, !.bitmap[h] = @ \cup {d}]
      BY <1>2, <2>5 DEF HS!Settle, HS!TooFar
    <3>2. d < H
      <4>1. d \in Nat
        <5>1. h \in 0 .. N - 1
          <6> HIDE DEF N, e
          <6> QED BY <1>1, <2>2, HSHome DEF HSCarried
        <5> HIDE DEF N, h, j
        <5>2. d \in 0 .. N - 1
          BY <1>1, <2>2, <5>1, DistIs
        <5> QED BY <1>1, <5>2
      <4> HIDE DEF d
      <4> QED BY <3>1, <4>1, SizesAssumption
    <3>3. HSInv(N, t, b, None, pending, rk)
      <4> HIDE DEF N, s, bm
      <4> QED BY <1>1, <2>1, <3>1, <3>2, HSSettle
    <3>4. table' = [table EXCEPT !.slots = t, !.bitmap = b]
      BY <3>1
    <3> HIDE DEF t, b
    <3>5. DOMAIN table' = fields /\ table'.N = N /\ table'.slots = t /\ table'.bitmap = b
      BY <1>1, <3>4
    <3>6. HSTable(table', call', pending', rk)
      BY <3>1, <3>3, <3>5 DEF HSTable
    <3>7. table'.N >= table.N
      BY <1>1, <3>5
    <3> QED BY <3>6, <3>7
  <2>6. CASE HS!Move
    <3> DEFINE o == Max(HS!Movable)
               y == Place(N, j, N - o)
               g == HomeOf(N, s[y].key)
               t == [s EXCEPT ![j] = s[y], ![y] = None]
               b == [bm EXCEPT ![g] = (@ \ {Dist(N, g, y)}) \cup {Dist(N, g, j)}]
               c == [call EXCEPT !.j = y]
    <3>1. s[j] = None /\ Dist(N, h, j) >= H /\ HS!Movable # {}
      BY <1>2, <2>6 DEF HS!Move, HS!TooFar
    <3>2. table' = [table EXCEPT !.slots[j] = s[y], !.slots[y] = None,
                                 !.bitmap[g] = (@ \ {Dist(N, g, y)}) \cup {Dist(N, g, j)}]
          /\ call' = c /\ pending' = pending
      BY <1>2, <2>6, SameOperators DEF HS!Move
    <3>3. Dist(N, h, j) \in 0 .. N - 1
      <4>1. h \in 0 .. N - 1
        <5> HIDE DEF N, e
        <5> QED BY <1>1, <2>2, HSHome DEF HSCarried
      <4> HIDE DEF N, h, j
      <4> QED BY <1>1, <2>2, <4>1, DistIs
    <3>4. o \in HS!Movable /\ o \in 1 .. H - 1
      <4> DEFINE S == HS!Movable
      <4>1. S \in SUBSET (1 .. H - 1)
        BY DEF HS!Movable
      <4>2. S \in SUBSET (0 .. H)
        BY <4>1, SizesAssumption
      <4> HIDE DEF S
      <4>3. Max(S) \in S
        BY <3>1, <4>2, MaxIsGreatest, SizesAssumption DEF S
      <4> QED BY <4>1, <4>3 DEF S
    <3> HIDE DEF o
    <3>5. o \in 1 .. N - 1 /\ o % N = o
      <4>1. o \in Nat /\ o >= 1 /\ o < H /\ H \in Nat /\ N \in Nat
        BY <1>1, <3>4, SizesAssumption
      <4> DEFINE d == Dist(N, h, j)
      <4>2. d \in 0 .. N - 1 /\ d >= H
        BY <3>1, <3>3
      <4> HIDE DEF d, N
      <4> QED BY <4>1, <4>2
    <3>6. y \in 0 .. N - 1
      <4>1. y = (j + (N - o)) % N /\ j + (N - o) \in Nat
        BY <1>1, <2>2, <3>5 DEF Place
      <4> HIDE DEF N, j, y
      <4> QED BY <1>1, <4>1
    <3>7. s[y] # None /\ Dist(N, g, j) < H
      BY <1>2, <3>4, <3>5 DEF HS!Movable
    <3> HIDE DEF y
    <3>8. HSInv(N, t, b, c, pending, rk)
      <4> HIDE DEF N, s, bm
      <4> QED BY <1>1, <2>1, <3>1, <3>6, <3>7, HSMove
    <3>9. table' = [table EXCEPT !.slots = t, !.bitmap = b]
      BY <3>2
    <3> HIDE DEF t, b
    <3>10. DOMAIN table' = fields /\ table'.N = N /\ table'.slots = t /\ table'.bitmap = b
      BY <1>1, <3>9
    <3>11. HSTable(table', call', pending', rk)
      BY <3>2, <3>8, <3>10 DEF HSTable
    <3>12. table'.N >= table.N
      BY <1>1, <3>10
    <3> QED BY <3>11, <3>12
  <2> QED BY <1>4, <2>1, <2>3, <2>4, <2>5, <2>6 DEF HS!Step
<1> QED
  BY <1>3, <1>4

(* What a hopscotch table shows to lookups and to the properties. *)
LEMMA HSShows ==
  ASSUME NEW rk \in Seq(Values), HSTable(table, call, pending, rk), 2 * Len(rk) <= table.N
  PROVE  /\ HS!TableType /\ HS!CallType /\ HS!Placed /\ RowsOnce(HS!Entries, rk)
         /\ 2 * Cardinality(HS!Stored) <= table.N
         /\ call = None /\ pending = <<>> => \A k \in Keys : HS!Find(k) = RowList(rk, k)
<1> DEFINE N == table.N
           s == table.slots
           bm == table.bitmap
<1>1. /\ HSInv(N, s, bm, call, pending, rk) /\ Mapped(N, s, bm) /\ N \in Nat \ {0}
      /\ (call # None => call \in HS!CallSet /\ call.j \in 0 .. N - 1)
      /\ Content(InSlots("slot", N, s) \cup (Queue(pending) \cup HSHeld(call)), rk)
  BY DEF HSTable, HSInv, Mapped
<1>2. /\ \A k : HS!Home(k) = HomeOf(N, k)
      /\ \A i, d : HS!Ahead(i, d) = Place(N, i, d)
      /\ \A i, d : HS!Distance(i, d) = Dist(N, i, d)
      /\ \A k : HS!Matching(k) = HSMatching(N, s, bm, k)
  BY HSOperators
<1>3. HS!TableType /\ HS!CallType
  BY <1>1 DEF HS!TableType, HS!CallType, Mapped
<1>4. \A i : i \in HS!Stored <=> i \in 0 .. N - 1 /\ s[i] # None
  BY DEF HS!Stored
<1>5. HS!Placed
  BY <1>1, <1>2, <1>4 DEF HS!Placed, Mapped
<1>6. RowsOnce(HS!Entries, rk)
  <2>1. HS!Entries = InSlots("slot", N, s) \cup (Queue(pending) \cup HSHeld(call))
    <3>1. HS!Entries = (InSlots("slot", N, s) \cup Queue(pending)) \cup HSHeld(call)
      BY DEF HS!Entries, HS!Stored, InSlots, Queue, HSHeld, InHand
    <3> QED BY <3>1
  <2> QED BY <1>1, <2>1, ContentRows
<1>7. 2 * Cardinality(HS!Stored) <= N
  <2>1. HS!Stored = Filled(N, s)
    BY DEF HS!Stored, Filled
  <2>2. 2 * Len(rk) <= N
    OBVIOUS
  <2> HIDE DEF N, s, bm
  <2>3. Cardinality(Filled(N, s)) \in Nat /\ Cardinality(Filled(N, s)) <= Len(rk)
    BY <1>1, HSHalfEmpty
  <2> QED BY <1>1, <2>1, <2>2, <2>3
<1>8. ASSUME call = None, pending = <<>>, NEW k \in Keys PROVE HS!Find(k) = RowList(rk, k)
  <2>1. HS!Find(k) = HSLookup(N, s, bm, k)
    <3>1. HS!Matching(k) = HSMatching(N, s, bm, k)
      BY <1>2
    <3> DEFINE Chosen(S) == CHOOSE i \in S : TRUE
               Read(S) == IF S = {} THEN <<>> ELSE s[Chosen(S)].values
    <3>2. HS!Find(k) = Read(HS!Matching(k))
      BY Zenon DEF HS!Find
    <3>3. HSLookup(N, s, bm, k) = Read(HSMatching(N, s, bm, k))
      BY Zenon DEF HSLookup
    <3> HIDE DEF Read
    <3> QED BY <3>1, <3>2, <3>3
  <2>2. HSInv(N, s, bm, None, <<>>, rk)
    BY <1>1, <1>8
  <2> HIDE DEF N, s, bm
  <2> QED BY <2>1, <2>2, HSFinds
<1> QED
  BY <1>3, <1>5, <1>6, <1>7, <1>8

-----------------------------------------------------------------------------
(* The index of a join, of each executor.                                  *)

(* A function from the keys to their rows holds the rows with keys rk. *)
MapTable(t, c, p, rk) ==
  /\ c = None /\ p = <<>>
  /\ DOMAIN t = Keys /\ \A k \in Keys : t[k] = RowList(rk, k)

(* The next row is inserted, or skipped because its key is NULL. *)
LEMMA MapInserts ==
  ASSUME NEW rk \in Seq(Values), NEW t, MapTable(t, None, <<>>, rk)
  PROVE  /\ \A k \in Keys : MapTable([t EXCEPT ![k] = Append(@, Len(rk) + 1)], None, <<>>, Append(rk, k))
         /\ MapTable(t, None, <<>>, Append(rk, Null))
<1>1. DOMAIN t = Keys /\ \A k \in Keys : t[k] = RowList(rk, k)
  BY DEF MapTable
<1>2. ASSUME NEW k \in Keys
      PROVE  MapTable([t EXCEPT ![k] = Append(@, Len(rk) + 1)], None, <<>>, Append(rk, k))
  <2> DEFINE u == [t EXCEPT ![k] = Append(@, Len(rk) + 1)]
  <2>1. DOMAIN u = Keys /\ \A x \in Keys : u[x] = IF x = k THEN Append(t[k], Len(rk) + 1) ELSE t[x]
    BY <1>1
  <2>2. \A x : RowList(Append(rk, k), x) = IF k = x THEN Append(RowList(rk, x), Len(rk) + 1) ELSE RowList(rk, x)
    BY RowListAppend DEF Values
  <2> HIDE DEF u
  <2>3. MapTable(u, None, <<>>, Append(rk, k))
    BY <1>1, <2>1, <2>2 DEF MapTable
  <2> QED BY <2>3 DEF u
<1>3. MapTable(t, None, <<>>, Append(rk, Null))
  <2>1. \A x : RowList(Append(rk, Null), x) = IF Null = x THEN Append(RowList(rk, x), Len(rk) + 1) ELSE RowList(rk, x)
    BY RowListAppend DEF Values
  <2> QED BY <1>1, <2>1, NullAssumption DEF MapTable
<1> QED
  BY <1>2, <1>3

(* The entries of the function, one of each key. *)
MapEntries(t) == {<<"map", k, [key |-> k, values |-> t[k]]>> : k \in Keys}

(* They hold each row once. *)
LEMMA MapRowsOnce ==
  ASSUME NEW rk \in Seq(Values), NEW t, NEW c, NEW p, MapTable(t, c, p, rk)
  PROVE  RowsOnce(MapEntries(t), rk)
<1> DEFINE E == MapEntries(t)
           Entry(k) == <<"map", k, [key |-> k, values |-> t[k]]>>
           n == Len(rk)
<1>1. \A k \in Keys : Entry(k) \in E
  BY DEF MapEntries
<1>2. \A k : Entry(k)[3].key = k /\ Entry(k)[3].values = t[k]
  OBVIOUS
<1>3. \A e \in E : \E k \in Keys : e = Entry(k)
  BY DEF MapEntries
<1> HIDE DEF Entry, E
<1>4. ASSUME NEW k \in Keys
      PROVE  /\ DOMAIN t[k] = 1 .. Len(RowList(rk, k)) /\ t[k] = RowList(rk, k)
             /\ \A q \in DOMAIN t[k] : t[k][q] \in 1 .. n /\ rk[t[k][q]] = k
             /\ \A i \in 1 .. n : rk[i] = k => \E q \in DOMAIN t[k] : t[k][q] = i
             /\ \A q, r \in DOMAIN t[k] : t[k][q] = t[k][r] => q = r
  <2> DEFINE L == RowList(rk, k)
  <2>1. /\ L \in Seq(1 .. n)
        /\ \A q \in 1 .. Len(L) : rk[L[q]] = k
        /\ \A i \in 1 .. n : rk[i] = k => \E q \in 1 .. Len(L) : L[q] = i
        /\ \A q, r \in 1 .. Len(L) : L[q] = L[r] => q = r
    BY RowListIs
  <2>2. t[k] = L
    BY DEF MapTable
  <2> HIDE DEF L
  <2>3. DOMAIN L = 1 .. Len(L) /\ \A q \in 1 .. Len(L) : L[q] \in 1 .. n
    BY <2>1
  <2>4. \A q \in DOMAIN t[k] : t[k][q] \in 1 .. n /\ rk[t[k][q]] = k
    BY <2>1, <2>2, <2>3
  <2>5. \A i \in 1 .. n : rk[i] = k => \E q \in DOMAIN t[k] : t[k][q] = i
    BY <2>1, <2>2, <2>3
  <2>6. \A q, r \in DOMAIN t[k] : t[k][q] = t[k][r] => q = r
    BY <2>1, <2>2, <2>3
  <2> QED BY <2>2, <2>3, <2>4, <2>5, <2>6 DEF L
<1>5. \A e \in E : \A q \in DOMAIN e[3].values : e[3].values[q] \in 1 .. n /\ rk[e[3].values[q]] = e[3].key
  BY <1>2, <1>3, <1>4
<1>6. ASSUME NEW i \in 1 .. n, rk[i] # Null
      PROVE  \E e \in E : \E q \in DOMAIN e[3].values :
               /\ e[3].values[q] = i
               /\ \A f \in E : \A r \in DOMAIN f[3].values : f[3].values[r] = i => f = e /\ r = q
  <2> DEFINE k == rk[i]
             e == Entry(k)
  <2>1. k \in Keys
    BY <1>6 DEF Values
  <2>2. PICK q \in DOMAIN t[k] : t[k][q] = i
    BY <1>4, <2>1
  <2>3. e \in E /\ e[3].values = t[k]
    BY <1>1, <1>2, <2>1
  <2>4. ASSUME NEW f \in E, NEW r \in DOMAIN f[3].values, f[3].values[r] = i PROVE f = e /\ r = q
    <3>1. PICK x \in Keys : f = Entry(x)
      BY <1>3
    <3>2. f[3].values = t[x] /\ r \in DOMAIN t[x] /\ t[x][r] = i
      BY <1>2, <2>4, <3>1
    <3>3. x = k
      BY <1>4, <3>2
    <3> QED BY <1>4, <2>1, <2>2, <3>1, <3>2, <3>3
  <2> QED BY <2>2, <2>3, <2>4
<1> QED
  BY <1>5, <1>6 DEF RowsOnce, E

(* The index of an executor, with the rows with keys rk of `size' rows. *)
Index(v, t, c, p, rk, size) ==
  /\ v = "robinhood" => RHTable(t, c, p, rk) /\ 2 * size <= t.N /\ t.N \in Nat
  /\ v = "cuckoo" => CKTable(t, c, p, rk)
  /\ v = "hopscotch" => HSTable(t, c, p, rk) /\ 2 * size <= t.N /\ t.N \in Nat
  /\ v \notin {"robinhood", "cuckoo", "hopscotch"} => MapTable(t, c, p, rk)

(* A new index holds no rows. *)
LEMMA IndexNew ==
  ASSUME NEW size \in Nat
  PROVE  Index(variant, NewIndex(size), None, <<>>, <<>>, size)
<1>1. CASE variant = "robinhood"
  <2>1. NewIndex(size) = RH!New(size)
    BY <1>1 DEF NewIndex
  <2>2. RHTable(RH!New(size), None, <<>>, <<>>) /\ 2 * size <= RH!New(size).N
    BY RHNewIs
  <2>3. RH!New(size).N \in Nat
    BY <2>2 DEF RHTable, RHInv, RHSlots
  <2> QED BY <1>1, <2>1, <2>2, <2>3 DEF Index
<1>2. CASE variant = "cuckoo"
  <2>1. NewIndex(size) = CK!New(size)
    BY <1>2 DEF NewIndex
  <2>2. CKTable(CK!New(size), None, <<>>, <<>>)
    BY CKNewIs
  <2> QED BY <1>2, <2>1, <2>2 DEF Index
<1>3. CASE variant = "hopscotch"
  <2>1. NewIndex(size) = HS!New(size)
    BY <1>3 DEF NewIndex
  <2>2. HSTable(HS!New(size), None, <<>>, <<>>) /\ 2 * size <= HS!New(size).N
    BY HSNewIs
  <2>3. HS!New(size).N \in Nat
    BY <2>2 DEF HSTable, HSInv, Mapped
  <2> QED BY <1>3, <2>1, <2>2, <2>3 DEF Index
<1>4. CASE variant \notin {"robinhood", "cuckoo", "hopscotch"}
  <2>1. NewIndex(size) = [k \in Keys |-> <<>>]
    BY <1>4 DEF NewIndex
  <2>2. \A k \in Keys : RowList(<<>>, k) = <<>>
    <3>1. <<>> \in Seq(Values) /\ Len(<<>>) = 0
      OBVIOUS
    <3>2. \A i \in 1 .. Len(<<>>) : FALSE
      BY <3>1
    <3> DEFINE none == <<>>
    <3> HIDE DEF none
    <3>3. none \in Seq(Values) /\ \A i \in 1 .. Len(none) : FALSE
      BY <3>1, <3>2 DEF none
    <3>4. \A k \in Keys : RowList(none, k) = <<>>
      BY <3>3, RowListNone
    <3> QED BY <3>4 DEF none
  <2>3. MapTable([k \in Keys |-> <<>>], None, <<>>, <<>>)
    BY <2>2 DEF MapTable
  <2> QED BY <1>4, <2>1, <2>3 DEF Index
<1> QED
  BY <1>1, <1>2, <1>3, <1>4

(* A row whose key is NULL leaves the index as it is. *)
LEMMA IndexNull ==
  ASSUME NEW v, NEW t, NEW rk \in Seq(Values), NEW size, Index(v, t, None, <<>>, rk, size)
  PROVE  Index(v, t, None, <<>>, Append(rk, Null), size)
<1>1. RHTable(t, None, <<>>, rk) => RHTable(t, None, <<>>, Append(rk, Null))
  BY RHNull DEF RHTable
<1>2. CKTable(t, None, <<>>, rk) => CKTable(t, None, <<>>, Append(rk, Null))
  BY CKNull DEF CKTable
<1>3. HSTable(t, None, <<>>, rk) => HSTable(t, None, <<>>, Append(rk, Null))
  BY HSNull DEF HSTable
<1>4. MapTable(t, None, <<>>, rk) => MapTable(t, None, <<>>, Append(rk, Null))
  BY MapInserts
<1> QED
  BY <1>1, <1>2, <1>3, <1>4 DEF Index

(* A key is inserted by the executor of the plan. *)
LEMMA IndexInsert ==
  ASSUME NEW rk \in Seq(Values), NEW size \in Nat, Index(variant, table, call, pending, rk, size), NEW k \in Keys,
         \/ variant = "robinhood" /\ RH!Insert(k, <<Len(rk) + 1>>)
         \/ variant = "cuckoo" /\ CK!Insert(k, <<Len(rk) + 1>>)
         \/ variant = "hopscotch" /\ HS!Insert(k, <<Len(rk) + 1>>)
         \/ /\ variant \notin {"robinhood", "cuckoo", "hopscotch"}
            /\ table' = [table EXCEPT ![k] = Append(@, Len(rk) + 1)]
            /\ UNCHANGED <<call, pending>>
  PROVE  Index(variant, table', call', pending', Append(rk, k), size)
<1>1. CASE variant = "robinhood" /\ RH!Insert(k, <<Len(rk) + 1>>)
  <2>1. RHTable(table, call, pending, rk) /\ 2 * size <= table.N /\ table.N \in Nat
    BY <1>1 DEF Index
  <2>2. RHTable(table', call', pending', Append(rk, k)) /\ table'.N = table.N
    BY <1>1, <2>1, RHInserts
  <2> QED BY <1>1, <2>1, <2>2 DEF Index
<1>2. CASE variant = "cuckoo" /\ CK!Insert(k, <<Len(rk) + 1>>)
  <2>1. CKTable(table, call, pending, rk)
    BY <1>2 DEF Index
  <2>2. CKTable(table', call', pending', Append(rk, k))
    BY <1>2, <2>1, CKInserts
  <2> QED BY <1>2, <2>2 DEF Index
<1>3. CASE variant = "hopscotch" /\ HS!Insert(k, <<Len(rk) + 1>>)
  <2>1. HSTable(table, call, pending, rk) /\ 2 * size <= table.N /\ table.N \in Nat
    BY <1>3 DEF Index
  <2>2. HSTable(table', call', pending', Append(rk, k)) /\ table'.N >= table.N
    BY <1>3, <2>1, HSInserts
  <2>3. table'.N \in Nat
    BY <2>2 DEF HSTable, HSInv, Mapped
  <2>4. 2 * size <= table'.N
    BY <2>1, <2>2, <2>3
  <2> QED BY <1>3, <2>2, <2>3, <2>4 DEF Index
<1>4. CASE /\ variant \notin {"robinhood", "cuckoo", "hopscotch"}
           /\ table' = [table EXCEPT ![k] = Append(@, Len(rk) + 1)]
           /\ UNCHANGED <<call, pending>>
  <2>1. MapTable(table, None, <<>>, rk) /\ call' = None /\ pending' = <<>>
    BY <1>4 DEF Index, MapTable
  <2>2. MapTable([table EXCEPT ![k] = Append(@, Len(rk) + 1)], None, <<>>, Append(rk, k))
    BY <2>1, MapInserts
  <2> QED BY <1>4, <2>1, <2>2 DEF Index
<1> QED
  BY <1>1, <1>2, <1>3, <1>4

(* The insert that runs takes a step. *)
LEMMA IndexStep ==
  ASSUME NEW rk \in Seq(Values), NEW size \in Nat, Len(rk) <= size, Index(variant, table, call, pending, rk, size),
         \/ variant = "robinhood" /\ RH!Step
         \/ variant = "cuckoo" /\ CK!Step
         \/ variant = "hopscotch" /\ HS!Step
  PROVE  Index(variant, table', call', pending', rk, size)
<1>1. CASE variant = "robinhood" /\ RH!Step
  <2>1. RHTable(table, call, pending, rk) /\ 2 * size <= table.N /\ table.N \in Nat
    BY <1>1 DEF Index
  <2>2. 2 * Len(rk) <= table.N
    BY <2>1
  <2>3. RHTable(table', call', pending', rk) /\ table'.N = table.N
    BY <1>1, <2>1, <2>2, RHSteps
  <2> QED BY <1>1, <2>1, <2>3 DEF Index
<1>2. CASE variant = "cuckoo" /\ CK!Step
  <2>1. CKTable(table, call, pending, rk)
    BY <1>2 DEF Index
  <2>2. CKTable(table', call', pending', rk)
    BY <1>2, <2>1, CKSteps
  <2> QED BY <1>2, <2>2 DEF Index
<1>3. CASE variant = "hopscotch" /\ HS!Step
  <2>1. HSTable(table, call, pending, rk) /\ 2 * size <= table.N /\ table.N \in Nat
    BY <1>3 DEF Index
  <2>2. HSTable(table', call', pending', rk) /\ table'.N >= table.N
    BY <1>3, <2>1, HSSteps
  <2>3. table'.N \in Nat
    BY <2>2 DEF HSTable, HSInv, Mapped
  <2>4. 2 * size <= table'.N
    BY <2>1, <2>2, <2>3
  <2> QED BY <1>3, <2>2, <2>3, <2>4 DEF Index
<1> QED
  BY <1>1, <1>2, <1>3

(* What the index shows to lookups and to the properties. *)
LEMMA IndexShows ==
  ASSUME NEW rk \in Seq(Values), NEW size \in Nat, Len(rk) <= size, Index(variant, table, call, pending, rk, size)
  PROVE  /\ CASE variant = "robinhood" -> RH!TableType /\ RH!CallType
              [] variant = "cuckoo"    -> CK!TableType /\ CK!CallType
              [] variant = "hopscotch" -> HS!TableType /\ HS!CallType
              [] OTHER                 -> call = None
         /\ CASE variant = "robinhood" -> RH!Placed
              [] variant = "cuckoo"    -> CK!Placed
              [] variant = "hopscotch" -> HS!Placed
              [] OTHER                 -> TRUE
         /\ RowsOnce(Entries, rk)
         /\ variant = "robinhood" => 2 * Cardinality(RH!Stored) <= table.N
         /\ variant = "hopscotch" => 2 * Cardinality(HS!Stored) <= table.N
         /\ call = None /\ pending = <<>> => \A k \in Keys : Lookup(k) = RowList(rk, k)
<1>1. CASE variant = "robinhood"
  <2>1. RHTable(table, call, pending, rk) /\ 2 * Len(rk) <= table.N
    BY <1>1 DEF Index
  <2>2. /\ RH!TableType /\ RH!CallType /\ RH!Placed /\ RowsOnce(RH!Entries, rk)
        /\ 2 * Cardinality(RH!Stored) <= table.N
        /\ call = None => \A k \in Keys : RH!Find(k) = RowList(rk, k)
    BY <2>1, RHShows
  <2>3. Entries = RH!Entries /\ \A k : Lookup(k) = RH!Find(k)
    BY <1>1 DEF Entries, Lookup
  <2> QED BY <1>1, <2>2, <2>3
<1>2. CASE variant = "cuckoo"
  <2>1. CKTable(table, call, pending, rk)
    BY <1>2 DEF Index
  <2>2. /\ CK!TableType /\ CK!CallType /\ CK!Placed /\ RowsOnce(CK!Entries, rk)
        /\ call = None /\ pending = <<>> => \A k \in Keys : CK!Find(k) = RowList(rk, k)
    BY <2>1, CKShows
  <2>3. Entries = CK!Entries /\ \A k : Lookup(k) = CK!Find(k)
    BY <1>2 DEF Entries, Lookup
  <2> QED BY <1>2, <2>2, <2>3
<1>3. CASE variant = "hopscotch"
  <2>1. HSTable(table, call, pending, rk) /\ 2 * Len(rk) <= table.N
    BY <1>3 DEF Index
  <2>2. /\ HS!TableType /\ HS!CallType /\ HS!Placed /\ RowsOnce(HS!Entries, rk)
        /\ 2 * Cardinality(HS!Stored) <= table.N
        /\ call = None /\ pending = <<>> => \A k \in Keys : HS!Find(k) = RowList(rk, k)
    BY <2>1, HSShows
  <2>3. Entries = HS!Entries /\ \A k : Lookup(k) = HS!Find(k)
    BY <1>3 DEF Entries, Lookup
  <2> QED BY <1>3, <2>2, <2>3
<1>4. CASE variant \notin {"robinhood", "cuckoo", "hopscotch"}
  <2>1. MapTable(table, call, pending, rk)
    BY <1>4 DEF Index
  <2>2. RowsOnce(MapEntries(table), rk)
    BY <2>1, MapRowsOnce
  <2>3. Entries = MapEntries(table) /\ \A k : Lookup(k) = table[k]
    BY <1>4 DEF Entries, Lookup, MapEntries
  <2> QED BY <1>4, <2>1, <2>2, <2>3 DEF MapTable
<1> QED
  BY <1>1, <1>2, <1>3, <1>4

-----------------------------------------------------------------------------
(* The calls of execute_impl.                                              *)

(* The records a node's call may return. *)
Rows(n) == Seq([DOMAIN plan[n].attrs -> Values])

(* The plan is one that may have been loaded, the calls are of its nodes,  *)
(* and those that have returned left records of their nodes' columns.      *)
Calls ==
  /\ variant \in Variants /\ request \in Requests /\ plan \in PlansFor(request.query, request.tree)
  /\ frames \in Seq(DOMAIN plan)
  /\ DOMAIN done = DOMAIN plan
  /\ \A n \in DOMAIN plan : done[n] # None => done[n] \in Rows(n)

(* The keys of the build rows that have been inserted or skipped. *)
Handed == [i \in 1 .. join.built |-> BuildRows[i][BuildAttr]]

(* The join that runs is the one of the innermost call; its children have  *)
(* returned, and its index holds the build rows it has been handed.        *)
Joining ==
  /\ frames # <<>> /\ Node.op = "join" /\ done[Node.left] # None /\ done[Node.right] # None
  /\ join \in Joins /\ join.out \in Rows(Top)
  /\ join.built <= Len(BuildRows) /\ join.probed <= Len(ProbeRows)
  /\ Index(variant, table, call, pending, Handed, Len(BuildRows))

(* The inductive invariant. *)
IInv ==
  /\ Calls
  /\ join # None => Joining
  /\ join = None => table = None /\ call = None /\ pending = <<>>

(* The node of the innermost call, and what remains when it returns. *)
LEMMA TopIs ==
  ASSUME Calls, frames # <<>>
  PROVE  /\ Len(plan) \in Nat /\ DOMAIN plan = 1 .. Len(plan)
         /\ Top \in DOMAIN plan /\ IsNode(plan, Top, request.tables)
         /\ Front(frames) \in Seq(DOMAIN plan)
<1>1. /\ Len(plan) \in Nat \ {0} /\ DOMAIN plan = 1 .. Len(plan)
      /\ \A n \in DOMAIN plan : IsNode(plan, n, request.tables)
  BY RequestsAssumption DEF Calls
<1>2. frames \in Seq(DOMAIN plan) /\ Len(frames) \in Nat /\ Len(frames) # 0
  BY DEF Calls
<1>3. Top \in DOMAIN plan
  BY <1>2 DEF Top
<1>4. Front(frames) \in Seq(DOMAIN plan)
  <2>1. 1 \in 1 .. Len(frames) + 1 /\ Len(frames) - 1 \in 0 .. Len(frames)
    BY <1>2
  <2> QED BY <1>2, <2>1 DEF Front
<1> QED
  BY <1>1, <1>3, <1>4

(* The children of a join, and the columns it joins on. *)
LEMMA ChildrenAre ==
  ASSUME Calls, frames # <<>>, Node.op = "join"
  PROVE  /\ Node.left \in DOMAIN plan /\ Node.right \in DOMAIN plan /\ Node.buildLeft \in BOOLEAN
         /\ Node.leftAttr \in DOMAIN plan[Node.left].attrs
         /\ Node.rightAttr \in DOMAIN plan[Node.right].attrs
         /\ DOMAIN Node.attrs = 1 .. Len(Node.attrs) /\ Len(Node.attrs) \in Nat
         /\ \A c \in DOMAIN Node.attrs :
              Node.attrs[c] \in 1 .. Len(plan[Node.left].attrs) + Len(plan[Node.right].attrs)
<1>1. Len(plan) \in Nat /\ DOMAIN plan = 1 .. Len(plan) /\ Top \in DOMAIN plan /\ IsNode(plan, Top, request.tables)
  BY TopIs
<1>2. /\ Node.buildLeft \in BOOLEAN
      /\ Node.left \in 1 .. Top - 1 /\ Node.leftAttr \in DOMAIN plan[Node.left].attrs
      /\ Node.right \in 1 .. Top - 1 /\ Node.rightAttr \in DOMAIN plan[Node.right].attrs
      /\ Node.attrs \in Seq(1 .. Len(plan[Node.left].attrs) + Len(plan[Node.right].attrs))
  BY <1>1 DEF IsNode, Node
<1>3. Node.left \in DOMAIN plan /\ Node.right \in DOMAIN plan
  BY <1>1, <1>2
<1>4. /\ DOMAIN Node.attrs = 1 .. Len(Node.attrs) /\ Len(Node.attrs) \in Nat
      /\ \A c \in DOMAIN Node.attrs :
           Node.attrs[c] \in 1 .. Len(plan[Node.left].attrs) + Len(plan[Node.right].attrs)
  <2> DEFINE a == Node.attrs
             w == Len(plan[Node.left].attrs) + Len(plan[Node.right].attrs)
             V == 1 .. w
  <2>1. a \in Seq(V)
    BY <1>2
  <2> HIDE DEF a, V
  <2>2. DOMAIN a = 1 .. Len(a) /\ Len(a) \in Nat /\ \A c \in DOMAIN a : a[c] \in V
    BY <2>1
  <2> QED BY <2>2 DEF a, V
<1> QED
  BY <1>2, <1>3, <1>4

(* A plan's attributes are a sequence, so its rows are records. *)
LEMMA AttrsAre ==
  ASSUME Calls, NEW n \in DOMAIN plan
  PROVE  DOMAIN plan[n].attrs = 1 .. Len(plan[n].attrs) /\ Len(plan[n].attrs) \in Nat
<1>1. IsNode(plan, n, request.tables)
  BY RequestsAssumption DEF Calls
<1> QED
  BY <1>1 DEF IsNode

(* The two sides of the join that runs. *)
LEMMA SidesAre ==
  ASSUME Calls, Joining
  PROVE  /\ Len(BuildRows) \in Nat /\ Len(ProbeRows) \in Nat
         /\ \A i \in 1 .. Len(BuildRows) : BuildRows[i][BuildAttr] \in Values
         /\ \A i \in 1 .. Len(ProbeRows) : ProbeRows[i][ProbeAttr] \in Values
         /\ join.buildLeft \in BOOLEAN /\ join.built \in 0 .. Len(BuildRows) /\ join.probed \in 0 .. Len(ProbeRows)
         /\ Handed \in Seq(Values) /\ Len(Handed) = join.built
         /\ \A i \in 1 .. join.built : Handed[i] = BuildRows[i][BuildAttr]
<1> DEFINE l == Node.left
           r == Node.right
<1>1. /\ l \in DOMAIN plan /\ r \in DOMAIN plan
      /\ Node.leftAttr \in DOMAIN plan[l].attrs /\ Node.rightAttr \in DOMAIN plan[r].attrs
  BY ChildrenAre DEF Joining
<1>2. done[l] \in Seq([DOMAIN plan[l].attrs -> Values]) /\ done[r] \in Seq([DOMAIN plan[r].attrs -> Values])
  BY <1>1 DEF Joining, Calls, Rows
<1>3. /\ Len(done[l]) \in Nat /\ \A i \in 1 .. Len(done[l]) : done[l][i][Node.leftAttr] \in Values
      /\ Len(done[r]) \in Nat /\ \A i \in 1 .. Len(done[r]) : done[r][i][Node.rightAttr] \in Values
  BY <1>1, <1>2
<1>4. /\ Len(BuildRows) \in Nat /\ Len(ProbeRows) \in Nat
      /\ \A i \in 1 .. Len(BuildRows) : BuildRows[i][BuildAttr] \in Values
      /\ \A i \in 1 .. Len(ProbeRows) : ProbeRows[i][ProbeAttr] \in Values
  BY <1>3 DEF BuildRows, ProbeRows, BuildAttr, ProbeAttr
<1>5. /\ join.buildLeft \in BOOLEAN /\ join.built \in Nat /\ join.probed \in Nat
      /\ join.built <= Len(BuildRows) /\ join.probed <= Len(ProbeRows)
  BY DEF Joining, Joins
<1>6. Handed \in Seq(Values) /\ Len(Handed) = join.built /\ \A i \in 1 .. join.built : Handed[i] = BuildRows[i][BuildAttr]
  <2> DEFINE f(i) == BuildRows[i][BuildAttr]
  <2>1. \A i \in 1 .. join.built : f(i) \in Values
    BY <1>4, <1>5
  <2>2. Handed = [i \in 1 .. join.built |-> f(i)]
    BY DEF Handed
  <2> HIDE DEF f
  <2>3. Handed \in Seq(Values) /\ Len(Handed) = join.built /\ \A i \in 1 .. join.built : Handed[i] = f(i)
    BY <1>5, <2>1, <2>2
  <2> QED BY <2>3 DEF f
<1> QED
  BY <1>4, <1>5, <1>6

(* The next row's key is handed to the index. *)
LEMMA HandedMore ==
  ASSUME Calls, Joining, BuildRow
  PROVE  /\ join' = [join EXCEPT !.built = @ + 1]
         /\ BuildKey \in Values /\ Handed' = Append(Handed, BuildKey) /\ join.built + 1 = Len(Handed) + 1
         /\ BuildRows' = BuildRows /\ join'.built <= Len(BuildRows)
<1>1. /\ Len(BuildRows) \in Nat /\ join.built \in 0 .. Len(BuildRows)
      /\ \A i \in 1 .. Len(BuildRows) : BuildRows[i][BuildAttr] \in Values
      /\ Handed \in Seq(Values) /\ Len(Handed) = join.built
      /\ \A i \in 1 .. join.built : Handed[i] = BuildRows[i][BuildAttr]
  BY SidesAre
<1>2. /\ join' = [join EXCEPT !.built = @ + 1] /\ join.built < Len(BuildRows)
      /\ plan' = plan /\ frames' = frames /\ done' = done
  BY DEF BuildRow, given
<1>3. join'.built = join.built + 1 /\ join'.buildLeft = join.buildLeft
  BY <1>2 DEF Joining, Joins
<1>4. BuildRows' = BuildRows /\ BuildAttr' = BuildAttr
  BY <1>2, <1>3 DEF BuildRows, BuildAttr, Node, Top
<1>5. BuildKey \in Values /\ BuildKey = BuildRows[join.built + 1][BuildAttr]
  BY <1>1, <1>2 DEF BuildKey
<1>6. Handed' = Append(Handed, BuildKey)
  <2> DEFINE f(i) == BuildRows[i][BuildAttr]
             n == join.built
             h == Handed
  <2>1. Handed' = [i \in 1 .. n + 1 |-> f(i)]
    BY <1>3, <1>4 DEF Handed
  <2>2. \A i \in 1 .. n : h[i] = f(i)
    BY <1>1
  <2>3. BuildKey = f(n + 1) /\ n \in Nat /\ h \in Seq(Values) /\ Len(h) = n
    BY <1>1, <1>5
  <2> HIDE DEF f, n, h
  <2>4. Append(h, BuildKey) = [i \in 1 .. n + 1 |-> f(i)]
    BY <2>2, <2>3
  <2> QED BY <2>1, <2>4 DEF h
<1> QED
  BY <1>1, <1>2, <1>3, <1>4, <1>5, <1>6

(* The plan's executor begins with the root. *)
LEMMA Begins == Init => IInv
<1> SUFFICES ASSUME Init PROVE IInv
  OBVIOUS
<1>1. Len(plan) \in Nat \ {0} /\ DOMAIN plan = 1 .. Len(plan)
  BY RequestsAssumption DEF Init
<1>2. Len(plan) \in DOMAIN plan
  BY <1>1
<1>3. frames \in Seq(DOMAIN plan)
  BY <1>2 DEF Init
<1>4. Calls
  BY <1>3 DEF Init, Calls
<1> QED
  BY <1>4 DEF Init, IInv

(* A call of a child begins. *)
LEMMA CallChildKeeps ==
  ASSUME IInv, CallChild
  PROVE  IInv'
<1>1. Calls /\ frames # <<>> /\ Node.op = "join" /\ join = None /\ frames \in Seq(DOMAIN plan)
  BY DEF IInv, CallChild, Calls
<1>2. Node.left \in DOMAIN plan /\ Node.right \in DOMAIN plan
  BY <1>1, ChildrenAre
<1>3. /\ frames' = Append(frames, Node.left) \/ frames' = Append(frames, Node.right)
      /\ variant' = variant /\ request' = request /\ plan' = plan /\ done' = done
      /\ join' = join /\ table' = table /\ call' = call /\ pending' = pending
  BY DEF CallChild, given, index
<1>4. frames' \in Seq(DOMAIN plan)
  BY <1>1, <1>2, <1>3
<1>5. Calls'
  BY <1>1, <1>3, <1>4 DEF Calls, Rows
<1> QED
  BY <1>1, <1>3, <1>5 DEF IInv

(* A call leaves the records of its node and returns. *)
LEMMA ReturnKeeps ==
  ASSUME Calls, frames # <<>>, NEW recs \in Rows(Top),
         done' = [done EXCEPT ![Top] = recs], frames' = Front(frames), given' = given
  PROVE  Calls'
<1>1. Top \in DOMAIN plan /\ Front(frames) \in Seq(DOMAIN plan)
  BY TopIs
<1>2. variant' = variant /\ request' = request /\ plan' = plan
  BY DEF given
<1>3. DOMAIN done' = DOMAIN plan /\ \A n \in DOMAIN plan : done'[n] = IF n = Top THEN recs ELSE done[n]
  BY <1>1 DEF Calls
<1>4. \A n \in DOMAIN plan : done'[n] # None => done'[n] \in Rows(n)
  BY <1>3 DEF Calls
<1>5. \A n : Rows(n)' = Rows(n)
  BY <1>2 DEF Rows
<1> QED
  BY <1>1, <1>2, <1>3, <1>4, <1>5 DEF Calls

(* A scan reads the required columns of the rows its filter accepts. *)
LEMMA ScanKeeps ==
  ASSUME IInv, Scan
  PROVE  IInv'
<1> DEFINE rows == request.tables[Node.entity]
           S == {i \in DOMAIN rows : \A f \in Node.filter : Passes(f, Node.entity, rows[i])}
           input == Picked(rows, S)
           attrs == Node.attrs
           recs == [i \in DOMAIN input |-> [c \in DOMAIN attrs |-> input[i][attrs[c]]]]
           W == Width[Node.entity]
<1>1. /\ Calls /\ frames # <<>> /\ Node.op = "scan"
      /\ done' = [done EXCEPT ![Top] = recs] /\ frames' = Front(frames)
      /\ given' = given /\ join' = join /\ index' = index
  BY DEF IInv, Scan
<1>2. Top \in DOMAIN plan /\ IsNode(plan, Top, request.tables)
  BY <1>1, TopIs
<1>3. /\ Node.entity \in DOMAIN request.tables /\ attrs \in Seq(1 .. W)
      /\ rows \in Seq([1 .. W -> Values]) /\ W \in Nat
  BY <1>1, <1>2, RequestsAssumption DEF IsNode, Node, Calls
<1>4. input \in Seq([1 .. W -> Values])
  <2>1. S \in SUBSET DOMAIN rows
    OBVIOUS
  <2> HIDE DEF S, rows, W
  <2> QED BY <1>3, <2>1, PickedIs
<1>5. recs \in Rows(Top)
  <2> HIDE DEF rows, S, input, attrs, W
  <2>1. \A i \in DOMAIN input : input[i] \in [1 .. W -> Values]
    BY <1>4
  <2>2. \A c \in DOMAIN attrs : attrs[c] \in 1 .. W
    BY <1>3
  <2>3. \A i \in DOMAIN input : [c \in DOMAIN attrs |-> input[i][attrs[c]]] \in [DOMAIN attrs -> Values]
    BY <2>1, <2>2
  <2>4. DOMAIN input = 1 .. Len(input) /\ Len(input) \in Nat
    BY <1>4
  <2>5. recs \in Seq([DOMAIN attrs -> Values])
    BY <2>3, <2>4
  <2> QED BY <2>5 DEF Rows, Node, attrs
<1> HIDE DEF recs
<1>6. Calls'
  BY <1>1, <1>5, ReturnKeeps
<1>7. join = None
  BY <1>1 DEF IInv, Joining
<1> QED
  BY <1>1, <1>6, <1>7 DEF IInv, index

(* A join begins, with an empty index for the rows of its build side. *)
LEMMA StartKeeps ==
  ASSUME IInv, StartJoin
  PROVE  IInv'
<1> DEFINE l == Node.left
           r == Node.right
           side == IF BuildLeft THEN l ELSE r
<1>1. /\ Calls /\ frames # <<>> /\ Node.op = "join" /\ join = None /\ done[l] # None /\ done[r] # None
      /\ join' = [buildLeft |-> BuildLeft, built |-> 0, probed |-> 0, out |-> <<>>]
      /\ table' = NewIndex(Len(done[side]))
      /\ variant' = variant /\ request' = request /\ plan' = plan /\ frames' = frames /\ done' = done
      /\ call' = None /\ pending' = <<>>
  BY DEF IInv, StartJoin, given
<1>2. l \in DOMAIN plan /\ r \in DOMAIN plan /\ Node.buildLeft \in BOOLEAN
  BY <1>1, ChildrenAre
<1>3. Len(done[l]) \in Nat /\ Len(done[r]) \in Nat
  BY <1>1, <1>2 DEF Calls, Rows
<1>4. BuildLeft \in BOOLEAN
  <2> DEFINE x == Len(done[l])
             y == Len(done[r])
  <2>1. (x <= y) \in BOOLEAN
    <3> HIDE DEF x, y
    <3> QED OBVIOUS
  <2>2. BuildLeft = IF variant = "columnar" THEN x <= y ELSE Node.buildLeft
    BY DEF BuildLeft
  <2> HIDE DEF x, y
  <2> QED BY <1>2, <2>1, <2>2, Zenon
<1>5. /\ join'.buildLeft = BuildLeft /\ join'.built = 0 /\ join'.probed = 0 /\ join'.out = <<>>
      /\ join' \in Joins
  BY <1>1, <1>4 DEF Joins
<1>6. Top' = Top /\ Node' = Node
  BY <1>1 DEF Top, Node
<1>7. BuildRows' = done[side] /\ ProbeRows' = done[IF BuildLeft THEN r ELSE l]
  BY <1>1, <1>5, <1>6 DEF BuildRows, ProbeRows
<1>8. Handed' = <<>>
  BY <1>5 DEF Handed
<1>9. Index(variant, table', call', pending', Handed', Len(BuildRows'))
  <2>1. Len(done[side]) \in Nat
    BY <1>3
  <2> DEFINE size == Len(done[side])
  <2> HIDE DEF size, side
  <2>2. Index(variant, NewIndex(size), None, <<>>, <<>>, size)
    BY <2>1, IndexNew DEF size
  <2> QED BY <1>1, <1>7, <1>8, <2>2 DEF size
<1>10. Calls'
  BY <1>1 DEF Calls, Rows
<1>11. join'.out \in Rows(Top)'
  BY <1>5 DEF Rows
<1>12. join'.built <= Len(BuildRows') /\ join'.probed <= Len(ProbeRows')
  BY <1>3, <1>5, <1>7
<1>13. Joining'
  BY <1>1, <1>5, <1>6, <1>9, <1>11, <1>12 DEF Joining
<1>14. join' # None
  BY <1>5, NoneAssumption
<1> QED
  BY <1>10, <1>13, <1>14 DEF IInv

(* run returns the records it has emitted. *)
LEMMA JoinReturns ==
  ASSUME IInv, Return
  PROVE  IInv'
<1>1. /\ join # None /\ call = None /\ pending = <<>> /\ Calls /\ Joining
      /\ done' = [done EXCEPT ![Top] = join.out] /\ frames' = Front(frames) /\ given' = given
      /\ join' = None /\ table' = None /\ call' = None /\ pending' = <<>>
  BY DEF IInv, Return, Idle
<1>2. join.out \in Rows(Top) /\ frames # <<>>
  BY <1>1 DEF Joining
<1>3. Calls'
  BY <1>1, <1>2, ReturnKeeps
<1> QED
  BY <1>1, <1>3 DEF IInv

(* The next row of the build side leaves the join and its index in order. *)
LEMMA BuildKeeps ==
  ASSUME Calls, Joining, BuildRow,
         Index(variant, table', call', pending', Append(Handed, BuildKey), Len(BuildRows))
  PROVE  IInv'
<1>1. /\ variant' = variant /\ request' = request /\ plan' = plan /\ frames' = frames /\ done' = done
      /\ join # None
  BY DEF BuildRow, given, Idle
<1>2. /\ join' = [join EXCEPT !.built = @ + 1]
      /\ Handed' = Append(Handed, BuildKey) /\ BuildRows' = BuildRows /\ join'.built <= Len(BuildRows)
  BY HandedMore
<1>3. /\ join' \in Joins /\ join'.out = join.out /\ join'.probed = join.probed /\ join'.buildLeft = join.buildLeft
  BY <1>2 DEF Joining, Joins
<1>4. Top' = Top /\ Node' = Node
  BY <1>1 DEF Top, Node
<1>5. ProbeRows' = ProbeRows
  BY <1>1, <1>3, <1>4 DEF ProbeRows
<1>6. Calls'
  BY <1>1 DEF Calls, Rows
<1>7. join'.out \in Rows(Top)'
  BY <1>1, <1>3, <1>4 DEF Joining, Rows
<1>8. Index(variant, table, call, pending, Handed, Len(BuildRows))'
  BY <1>1, <1>2
<1>9. join'.built <= Len(BuildRows') /\ join'.probed <= Len(ProbeRows')
  BY <1>2, <1>3, <1>5 DEF Joining
<1>10. Joining'
  BY <1>1, <1>3, <1>4, <1>7, <1>8, <1>9 DEF Joining
<1>11. join' # None
  BY <1>3, NoneAssumption
<1> QED
  BY <1>6, <1>10, <1>11 DEF IInv

(* So does a step of the insert that runs. *)
LEMMA InsertKeeps ==
  ASSUME Calls, Joining, join # None, UNCHANGED <<given, frames, done, join>>,
         Index(variant, table', call', pending', Handed, Len(BuildRows))
  PROVE  IInv'
<1>1. /\ variant' = variant /\ request' = request /\ plan' = plan /\ frames' = frames /\ done' = done
      /\ join' = join
  BY DEF given
<1>2. Calls'
  BY <1>1 DEF Calls, Rows
<1>3. Handed' = Handed /\ BuildRows' = BuildRows /\ ProbeRows' = ProbeRows /\ Top' = Top /\ Node' = Node
  BY <1>1 DEF Handed, BuildRows, BuildAttr, ProbeRows, Node, Top
<1>4. Index(variant, table, call, pending, Handed, Len(BuildRows))'
  BY <1>1, <1>3
<1>5. join'.out \in Rows(Top)'
  BY <1>1, <1>3 DEF Joining, Rows
<1>6. Joining'
  BY <1>1, <1>3, <1>4, <1>5 DEF Joining
<1> QED
  BY <1>1, <1>2, <1>6 DEF IInv

(* The record of a left and a right record has the join's columns. *)
LEMMA EmitIs ==
  ASSUME Calls, frames # <<>>, Node.op = "join",
         NEW l \in [DOMAIN plan[Node.left].attrs -> Values], NEW r \in [DOMAIN plan[Node.right].attrs -> Values]
  PROVE  Emit(l, r, Len(plan[Node.left].attrs)) \in [DOMAIN Node.attrs -> Values]
<1> DEFINE A == Len(plan[Node.left].attrs)
           B == Len(plan[Node.right].attrs)
           attrs == Node.attrs
<1>1. Node.left \in DOMAIN plan /\ Node.right \in DOMAIN plan /\ \A c \in DOMAIN attrs : attrs[c] \in 1 .. A + B
  BY ChildrenAre
<1>2. /\ DOMAIN plan[Node.left].attrs = 1 .. A /\ A \in Nat
      /\ DOMAIN plan[Node.right].attrs = 1 .. B /\ B \in Nat
  BY <1>1, AttrsAre
<1>3. l \in [1 .. A -> Values] /\ r \in [1 .. B -> Values]
  BY <1>2
<1>4. Emit(l, r, A) = [c \in DOMAIN attrs |-> IF attrs[c] <= A THEN l[attrs[c]] ELSE r[attrs[c] - A]]
  BY DEF Emit
<1> HIDE DEF A, B, attrs
<1>5. ASSUME NEW c \in DOMAIN attrs
      PROVE  (IF attrs[c] <= A THEN l[attrs[c]] ELSE r[attrs[c] - A]) \in Values
  <2>1. attrs[c] \in 1 .. A + B
    BY <1>1
  <2>2. CASE attrs[c] <= A
    <3>1. attrs[c] \in 1 .. A
      BY <1>2, <2>1, <2>2
    <3> QED BY <1>3, <2>2, <3>1
  <2>3. CASE ~(attrs[c] <= A)
    <3>1. attrs[c] - A \in 1 .. B
      BY <1>2, <2>1, <2>3
    <3> QED BY <1>3, <2>3, <3>1
  <2> QED BY <2>2, <2>3
<1>6. Emit(l, r, A) \in [DOMAIN attrs -> Values]
  BY <1>4, <1>5
<1> QED
  BY <1>6 DEF A, attrs

(* A row of the probe side emits records of the join's columns. *)
LEMMA ProbeKeeps ==
  ASSUME Calls, Joining, NEW found, ProbeRow(found), ProbeKey # Null => found = RowList(Handed, ProbeKey)
  PROVE  IInv'
<1> DEFINE rows == IF ProbeKey = Null THEN <<>> ELSE found
           p == ProbeRows[join.probed + 1]
           width == Len(plan[Node.left].attrs)
           emitted == [i \in DOMAIN rows |->
                         IF join.buildLeft THEN Emit(BuildRows[rows[i]], p, width)
                                           ELSE Emit(p, BuildRows[rows[i]], width)]
           l == Node.left
           r == Node.right
           Built == [DOMAIN plan[IF join.buildLeft THEN l ELSE r].attrs -> Values]
           Probed == [DOMAIN plan[IF join.buildLeft THEN r ELSE l].attrs -> Values]
           Emitted == [DOMAIN Node.attrs -> Values]
<1>1. /\ variant' = variant /\ request' = request /\ plan' = plan /\ frames' = frames /\ done' = done
      /\ table' = table /\ call' = call /\ pending' = pending /\ join # None
      /\ join' = [join EXCEPT !.probed = @ + 1, !.out = @ \o emitted]
      /\ join.probed < Len(ProbeRows)
  BY DEF ProbeRow, given, index, Idle
<1>2. /\ Len(BuildRows) \in Nat /\ Len(ProbeRows) \in Nat
      /\ join.buildLeft \in BOOLEAN /\ join.built \in 0 .. Len(BuildRows) /\ join.probed \in 0 .. Len(ProbeRows)
      /\ Handed \in Seq(Values) /\ Len(Handed) = join.built
  BY SidesAre
<1>3. frames # <<>> /\ Node.op = "join" /\ l \in DOMAIN plan /\ r \in DOMAIN plan
  BY ChildrenAre DEF Joining
<1>4. BuildRows \in Seq(Built) /\ ProbeRows \in Seq(Probed)
  BY <1>3 DEF Joining, Calls, Rows, BuildRows, ProbeRows
<1>5. rows \in Seq(1 .. Len(BuildRows))
  <2>1. CASE ProbeKey = Null
    BY <2>1
  <2>2. CASE ProbeKey # Null
    <3>1. RowList(Handed, ProbeKey) \in Seq(1 .. join.built)
      BY <1>2, RowListIs
    <3> DEFINE L == RowList(Handed, ProbeKey)
               V == 1 .. join.built
    <3>2. rows = L /\ L \in Seq(V)
      BY <2>2, <3>1
    <3>3. \A i \in V : i \in 1 .. Len(BuildRows)
      BY <1>2
    <3> HIDE DEF L, V, rows
    <3>4. Len(L) \in Nat /\ \A i \in 1 .. Len(L) : L[i] \in V
      BY <3>2
    <3>5. L \in Seq(1 .. Len(BuildRows))
      BY <3>2, <3>3, <3>4
    <3> QED BY <3>2, <3>5
  <2> QED BY <2>1, <2>2
<1>6. p \in Probed
  <2>1. join.probed + 1 \in 1 .. Len(ProbeRows)
    BY <1>1, <1>2
  <2> QED BY <1>4, <2>1
<1>7. emitted \in Seq(Emitted)
  <2> HIDE DEF rows, p
  <2>1. DOMAIN rows = 1 .. Len(rows) /\ Len(rows) \in Nat /\ \A i \in DOMAIN rows : rows[i] \in 1 .. Len(BuildRows)
    BY <1>5
  <2>2. \A i \in DOMAIN rows : BuildRows[rows[i]] \in Built
    BY <1>4, <2>1
  <2>3. ASSUME NEW i \in DOMAIN rows
        PROVE  (IF join.buildLeft THEN Emit(BuildRows[rows[i]], p, width)
                                  ELSE Emit(p, BuildRows[rows[i]], width)) \in Emitted
    <3>1. BuildRows[rows[i]] \in Built
      BY <2>2
    <3>2. CASE join.buildLeft
      <4>1. BuildRows[rows[i]] \in [DOMAIN plan[l].attrs -> Values] /\ p \in [DOMAIN plan[r].attrs -> Values]
        BY <1>6, <3>1, <3>2
      <4>2. Emit(BuildRows[rows[i]], p, width) \in Emitted
        BY <1>3, <4>1, EmitIs
      <4> QED BY <3>2, <4>2
    <3>3. CASE ~join.buildLeft
      <4>1. BuildRows[rows[i]] \in [DOMAIN plan[r].attrs -> Values] /\ p \in [DOMAIN plan[l].attrs -> Values]
        BY <1>6, <3>1, <3>3
      <4>2. Emit(p, BuildRows[rows[i]], width) \in Emitted
        BY <1>3, <4>1, EmitIs
      <4> QED BY <3>3, <4>2
    <3> QED BY <1>2, <3>2, <3>3
  <2> HIDE DEF width, Emitted
  <2> QED BY <2>1, <2>3
<1> HIDE DEF emitted, Built, Probed, p, rows, width
<1>8. join.out \in Seq(Emitted) /\ join \in Joins
  BY DEF Joining, Rows, Node
<1>9. join.out \o emitted \in Seq(Emitted)
  <2> HIDE DEF Emitted
  <2> QED BY <1>7, <1>8
<1>10. join.out \o emitted \in Seq(Records)
  <2>1. DOMAIN Node.attrs = 1 .. Len(Node.attrs) /\ Len(Node.attrs) \in Nat
    BY <1>3, ChildrenAre
  <2>2. Emitted \subseteq Records
    <3> SUFFICES ASSUME NEW x \in Emitted PROVE x \in Records
      OBVIOUS
    <3>1. x \in [1 .. Len(Node.attrs) -> Values]
      BY <2>1
    <3> QED BY <2>1, <3>1 DEF Records
  <2> HIDE DEF Emitted
  <2> QED BY <1>9, <2>2
<1>11. /\ join' \in Joins /\ join'.out = join.out \o emitted /\ join'.probed = join.probed + 1
       /\ join'.buildLeft = join.buildLeft /\ join'.built = join.built
  <2> DEFINE o == join.out \o emitted
  <2>1. join' = [join EXCEPT !.probed = @ + 1, !.out = o] /\ o \in Seq(Records)
    BY <1>1, <1>10
  <2> HIDE DEF o
  <2>2. /\ join = [buildLeft |-> join.buildLeft, built |-> join.built, probed |-> join.probed, out |-> join.out]
        /\ join.buildLeft \in BOOLEAN /\ join.built \in Nat /\ join.probed + 1 \in Nat
    BY <1>8 DEF Joins
  <2>3. join' = [buildLeft |-> join.buildLeft, built |-> join.built, probed |-> join.probed + 1, out |-> o]
    BY <2>1, <2>2
  <2>4. /\ join' \in Joins /\ join'.out = o /\ join'.probed = join.probed + 1
        /\ join'.buildLeft = join.buildLeft /\ join'.built = join.built
    BY <2>1, <2>2, <2>3 DEF Joins
  <2> QED BY <2>4 DEF o
<1>12. Top' = Top /\ Node' = Node
  BY <1>1 DEF Top, Node
<1>13. Handed' = Handed /\ BuildRows' = BuildRows /\ ProbeRows' = ProbeRows
  BY <1>1, <1>11, <1>12 DEF Handed, BuildRows, BuildAttr, ProbeRows
<1>14. Calls'
  BY <1>1 DEF Calls, Rows
<1>15. join'.out \in Rows(Top)'
  BY <1>1, <1>9, <1>11, <1>12 DEF Rows, Node
<1>16. Index(variant, table, call, pending, Handed, Len(BuildRows))'
  BY <1>1, <1>13 DEF Joining
<1>17. join'.built <= Len(BuildRows') /\ join'.probed <= Len(ProbeRows')
  BY <1>1, <1>2, <1>11, <1>13
<1>18. Joining'
  BY <1>1, <1>11, <1>12, <1>15, <1>16, <1>17 DEF Joining
<1>19. join' # None
  BY <1>11, NoneAssumption
<1> QED
  BY <1>14, <1>18, <1>19 DEF IInv

(* A step of run, of each executor. *)
LEMMA RunKeeps ==
  ASSUME IInv, Run
  PROVE  IInv'
<1> DEFINE n == Len(BuildRows)
           m == Len(Handed)
<1>1. join # None /\ Calls /\ Joining
  <2>1. join # None
    BY DEF Run, RunInitial, RunColumnar, RunMap, RunRobinHood, RunCuckoo, RunHopscotch, BuildNull, BuildRow,
           ProbeRow, Idle, IInv, RH!Step, RH!Settle, RH!AppendValues, RH!CarryOn, CK!Step, CK!Reinsert,
           CK!Settle, CK!Kick, CK!Rehash, HS!Step, HS!Reinsert, HS!SearchOn, HS!Move, HS!NothingMoves, HS!Settle
  <2> QED BY <2>1 DEF IInv
<1>2. /\ n \in Nat /\ join.built \in 0 .. n /\ Handed \in Seq(Values) /\ m = join.built
      /\ \A i \in 1 .. Len(ProbeRows) : ProbeRows[i][ProbeAttr] \in Values
      /\ Len(ProbeRows) \in Nat /\ join.probed \in 0 .. Len(ProbeRows)
  BY <1>1, SidesAre
<1>3. Index(variant, table, call, pending, Handed, n)
  BY <1>1 DEF Joining
<1> HIDE DEF n
<1>4. CASE BuildNull
  <2>1. BuildRow /\ BuildKey = Null /\ call = None /\ pending = <<>>
        /\ table' = table /\ call' = call /\ pending' = pending
    BY <1>4 DEF BuildNull, BuildRow, Idle, index
  <2>2. Index(variant, table, None, <<>>, Append(Handed, Null), n)
    BY <1>2, <1>3, <2>1, IndexNull
  <2>3. Index(variant, table', call', pending', Append(Handed, BuildKey), n)
    BY <2>1, <2>2
  <2> QED BY <1>1, <2>1, <2>3, BuildKeeps DEF n
<1>5. ASSUME BuildRow, BuildKey # Null,
             \/ variant = "robinhood" /\ RH!Insert(BuildKey, <<join.built + 1>>)
             \/ variant = "cuckoo" /\ CK!Insert(BuildKey, <<join.built + 1>>)
             \/ variant = "hopscotch" /\ HS!Insert(BuildKey, <<join.built + 1>>)
             \/ /\ variant \notin {"robinhood", "cuckoo", "hopscotch"}
                /\ table' = [table EXCEPT ![BuildKey] = Append(@, join.built + 1)]
                /\ UNCHANGED <<call, pending>>
      PROVE  IInv'
  <2>1. BuildKey \in Keys
    BY <1>1, <1>5, HandedMore DEF Values
  <2>2. \/ variant = "robinhood" /\ RH!Insert(BuildKey, <<m + 1>>)
        \/ variant = "cuckoo" /\ CK!Insert(BuildKey, <<m + 1>>)
        \/ variant = "hopscotch" /\ HS!Insert(BuildKey, <<m + 1>>)
        \/ /\ variant \notin {"robinhood", "cuckoo", "hopscotch"}
           /\ table' = [table EXCEPT ![BuildKey] = Append(@, m + 1)]
           /\ UNCHANGED <<call, pending>>
    BY <1>2, <1>5
  <2>3. Index(variant, table', call', pending', Append(Handed, BuildKey), n)
    BY <1>2, <1>3, <2>1, <2>2, IndexInsert
  <2> QED BY <1>1, <1>5, <2>3, BuildKeeps DEF n
<1>6. ASSUME UNCHANGED <<given, frames, done, join>>,
             \/ variant = "robinhood" /\ RH!Step
             \/ variant = "cuckoo" /\ CK!Step
             \/ variant = "hopscotch" /\ HS!Step
      PROVE  IInv'
  <2>1. Len(Handed) <= n
    BY <1>2
  <2>2. Index(variant, table', call', pending', Handed, n)
    BY <1>2, <1>3, <1>6, <2>1, IndexStep
  <2> QED BY <1>1, <1>6, <2>2, InsertKeeps DEF n
<1>7. ASSUME ProbeRow(Lookup(ProbeKey)) PROVE IInv'
  <2>1. call = None /\ pending = <<>> /\ join.probed < Len(ProbeRows)
    BY <1>7 DEF ProbeRow, Idle
  <2>2. Len(Handed) <= n
    BY <1>2
  <2>3. \A k \in Keys : Lookup(k) = RowList(Handed, k)
    BY <1>2, <1>3, <2>1, <2>2, IndexShows
  <2>4. ProbeKey \in Values
    <3>1. join.probed + 1 \in 1 .. Len(ProbeRows)
      BY <1>2, <2>1
    <3> QED BY <1>2, <3>1 DEF ProbeKey
  <2>5. ProbeKey # Null => Lookup(ProbeKey) = RowList(Handed, ProbeKey)
    BY <2>3, <2>4 DEF Values
  <2> QED BY <1>1, <1>7, <2>5, ProbeKeeps
<1>8. CASE RunInitial \/ RunColumnar
  <2>1. variant \notin {"robinhood", "cuckoo", "hopscotch"} /\ RunMap
    BY <1>8 DEF RunInitial, RunColumnar
  <2>2. Lookup(ProbeKey) = table[ProbeKey]
    BY <2>1 DEF Lookup
  <2> QED BY <1>4, <1>5, <1>7, <2>1, <2>2 DEF RunMap
<1>9. CASE RunRobinHood
  <2>1. variant = "robinhood" /\ Lookup(ProbeKey) = RH!Find(ProbeKey)
    BY <1>9 DEF RunRobinHood, Lookup
  <2> QED BY <1>4, <1>5, <1>6, <1>7, <1>9, <2>1 DEF RunRobinHood
<1>10. CASE RunCuckoo
  <2>1. variant = "cuckoo" /\ Lookup(ProbeKey) = CK!Find(ProbeKey)
    BY <1>10 DEF RunCuckoo, Lookup
  <2> QED BY <1>4, <1>5, <1>6, <1>7, <1>10, <2>1 DEF RunCuckoo
<1>11. CASE RunHopscotch
  <2>1. variant = "hopscotch" /\ Lookup(ProbeKey) = HS!Find(ProbeKey)
    BY <1>11 DEF RunHopscotch, Lookup
  <2> QED BY <1>4, <1>5, <1>6, <1>7, <1>11, <2>1 DEF RunHopscotch
<1> QED
  BY <1>8, <1>9, <1>10, <1>11 DEF Run

(* The invariant is inductive. *)
LEMMA Invariant == Spec => []IInv
<1>1. IInv /\ [Next]_vars => IInv'
  <2> SUFFICES ASSUME IInv, [Next]_vars PROVE IInv'
    OBVIOUS
  <2>1. CASE CallChild
    BY <2>1, CallChildKeeps
  <2>2. CASE Scan
    BY <2>2, ScanKeeps
  <2>3. CASE StartJoin
    BY <2>3, StartKeeps
  <2>4. CASE Run
    BY <2>4, RunKeeps
  <2>5. CASE Return
    BY <2>5, JoinReturns
  <2>6. CASE Finished \/ UNCHANGED vars
    <3>1. /\ variant' = variant /\ request' = request /\ plan' = plan /\ frames' = frames /\ done' = done
          /\ join' = join /\ table' = table /\ call' = call /\ pending' = pending
      BY <2>6 DEF Finished, vars
    <3> QED BY <3>1 DEF IInv, Calls, Rows, Joining, Handed, BuildRows, BuildAttr, ProbeRows, Node, Top
  <2> QED BY <2>1, <2>2, <2>3, <2>4, <2>5, <2>6 DEF Next
<1> QED
  BY <1>1, Begins, PTL DEF Spec

(* What the index of the join that runs shows, in the words of the model. *)
LEMMA JoinShows ==
  ASSUME IInv, join # None
  PROVE  /\ Joining /\ Handed \in Seq(Values) /\ Len(Handed) = join.built /\ join.built \in Nat
         /\ \A i \in 1 .. join.built : Handed[i] = BuildRows[i][BuildAttr]
         /\ join.built \in 0 .. Len(BuildRows) /\ join.probed \in 0 .. Len(ProbeRows)
         /\ CASE variant = "robinhood" -> RH!TableType /\ RH!CallType
              [] variant = "cuckoo"    -> CK!TableType /\ CK!CallType
              [] variant = "hopscotch" -> HS!TableType /\ HS!CallType
              [] OTHER                 -> call = None
         /\ CASE variant = "robinhood" -> RH!Placed
              [] variant = "cuckoo"    -> CK!Placed
              [] variant = "hopscotch" -> HS!Placed
              [] OTHER                 -> TRUE
         /\ RowsOnce(Entries, Handed)
         /\ variant = "robinhood" => 2 * Cardinality(RH!Stored) <= table.N
         /\ variant = "hopscotch" => 2 * Cardinality(HS!Stored) <= table.N
         /\ call = None /\ pending = <<>> => \A k \in Keys : Lookup(k) = RowList(Handed, k)
<1>1. Joining /\ Calls
  BY DEF IInv
<1>2. /\ Handed \in Seq(Values) /\ Len(Handed) = join.built /\ Len(BuildRows) \in Nat
      /\ \A i \in 1 .. join.built : Handed[i] = BuildRows[i][BuildAttr]
      /\ join.built \in 0 .. Len(BuildRows) /\ join.probed \in 0 .. Len(ProbeRows)
  BY <1>1, SidesAre
<1>3. Index(variant, table, call, pending, Handed, Len(BuildRows)) /\ Len(Handed) <= Len(BuildRows)
  BY <1>1, <1>2 DEF Joining
<1> DEFINE n == Len(BuildRows)
<1> HIDE DEF n
<1>4. n \in Nat /\ Len(Handed) <= n /\ Index(variant, table, call, pending, Handed, n)
  BY <1>2, <1>3 DEF n
<1> QED
  BY <1>1, <1>2, <1>4, IndexShows

(* The calls, the records they leave and the join that runs are of their   *)
(* types; so are the entries, positions, distances and kicks of the index. *)
THEOREM Types == Spec => []TypeOK
<1>1. IInv => TypeOK
  <2> SUFFICES ASSUME IInv PROVE TypeOK
    OBVIOUS
  <2>1. Calls
    BY DEF IInv
  <2>2. ASSUME NEW n \in DOMAIN done, done[n] # None, NEW i \in DOMAIN done[n]
        PROVE  DOMAIN done[n][i] = DOMAIN plan[n].attrs
    <3>1. done[n] \in Seq([DOMAIN plan[n].attrs -> Values])
      BY <2>1, <2>2 DEF Calls, Rows
    <3> QED BY <2>2, <3>1
  <2>3. \A i \in DOMAIN frames : frames[i] \in DOMAIN plan
    BY <2>1 DEF Calls
  <2>4. join # None =>
          /\ join.built \in 0 .. Len(BuildRows) /\ join.probed \in 0 .. Len(ProbeRows)
          /\ CASE variant = "robinhood" -> RH!TableType /\ RH!CallType
               [] variant = "cuckoo"    -> CK!TableType /\ CK!CallType
               [] variant = "hopscotch" -> HS!TableType /\ HS!CallType
               [] OTHER                 -> call = None
    BY JoinShows
  <2>5. variant \in Variants /\ (join = None => table = None /\ call = None /\ pending = <<>>)
    BY <2>1 DEF IInv, Calls
  <2> QED BY <2>2, <2>3, <2>4, <2>5 DEF TypeOK
<1> QED
  BY <1>1, Invariant, PTL

(* Every entry is where a lookup will look for it, in the middle of        *)
(* displacements, evictions, moves and rehashes too.                       *)
THEOREM Placing == Spec => []EntriesPlaced
<1>1. IInv => EntriesPlaced
  BY JoinShows DEF EntriesPlaced
<1> QED
  BY <1>1, Invariant, PTL

(* At every step each build row handed to insert is in exactly one entry,  *)
(* of its key: in the table, in the hand of insert or among those a rehash *)
(* has yet to reinsert.                                                    *)
THEOREM NoRowLostOrDoubled == Spec => []EveryRowOnce
<1>1. IInv => EveryRowOnce
  <2> SUFFICES ASSUME IInv, join # None PROVE EveryRowOnce
    BY DEF EveryRowOnce
  <2>1. /\ RowsOnce(Entries, Handed) /\ Len(Handed) = join.built
        /\ \A i \in 1 .. join.built : Handed[i] = BuildRows[i][BuildAttr]
    BY JoinShows
  <2>2. \A e \in Entries : \A p \in DOMAIN e[3].values :
          /\ e[3].values[p] \in 1 .. join.built
          /\ BuildRows[e[3].values[p]][BuildAttr] = e[3].key
    BY <2>1 DEF RowsOnce
  <2>3. \A i \in 1 .. join.built : BuildRows[i][BuildAttr] # Null =>
          \E e \in Entries : \E p \in DOMAIN e[3].values :
            /\ e[3].values[p] = i
            /\ \A f \in Entries : \A q \in DOMAIN f[3].values :
                 f[3].values[q] = i => f = e /\ q = p
    BY <2>1 DEF RowsOnce
  <2> QED BY <2>2, <2>3 DEF EveryRowOnce
<1> QED
  BY <1>1, Invariant, PTL

(* Between two inserts a lookup of any key returns exactly the rows        *)
(* inserted with it, in the order of their insertion.                      *)
THEOREM ExactLookups == Spec => []LookupsExact
<1>1. IInv => LookupsExact
  <2> SUFFICES ASSUME IInv, Idle, NEW k \in Keys PROVE Lookup(k) = RowsOf(k)
    BY DEF LookupsExact
  <2>1. /\ Len(Handed) = join.built /\ join.built \in Nat
        /\ \A i \in 1 .. join.built : Handed[i] = BuildRows[i][BuildAttr]
        /\ call = None /\ pending = <<>> => \A x \in Keys : Lookup(x) = RowList(Handed, x)
    BY JoinShows DEF Idle
  <2>2. Lookup(k) = RowList(Handed, k)
    BY <2>1 DEF Idle
  <2> DEFINE n == join.built
             S == {i \in 1 .. n : Handed[i] = k}
             T == {i \in 1 .. n : BuildRows[i][BuildAttr] = k}
  <2>3. RowList(Handed, k) = Positions(n, S) /\ RowsOf(k) = Positions(n, T)
    BY <2>1 DEF RowList, RowsOf
  <2>4. \A i \in 1 .. n : i \in S <=> i \in T
    BY <2>1
  <2> HIDE DEF S, T
  <2>5. Positions(n, S) = Positions(n, T)
    BY <2>1, <2>4, PositionsSame
  <2> QED BY <2>2, <2>3, <2>5
<1> QED
  BY <1>1, Invariant, PTL

(* The tables that never grow, or look for a free slot without a bound,    *)
(* are at most half full: there always is a free slot.                     *)
THEOREM FreeSlots == Spec => []HalfEmpty
<1>1. IInv => HalfEmpty
  BY JoinShows DEF HalfEmpty
<1> QED
  BY <1>1, Invariant, PTL
=============================================================================
