------------------------------ MODULE Counting ------------------------------
(***************************************************************************)
(* Induction over a number, as a proof about the set of numbers that have  *)
(* the property: that a set of numbers has a least one, that every number  *)
(* has a property, and that a function defined by its value before exists, *)
(* as the sum of the bits of a cell does.                                  *)
(***************************************************************************)
EXTENDS Cells, WellFoundedInduction, TLAPS

LEMMA LeastCount ==
  ASSUME NEW T \in SUBSET Nat, T # {}
  PROVE  \E low \in T : \A j \in T : low <= j
  <1> DEFINE Less == OpToRel(<, Nat)
  <1>1. \E low \in T : \A j \in T : ~(<<j, low>> \in Less)
    <2>1. IsWellFoundedOn(Less, Nat)
      BY NatLessThanWellFounded
    <2> HIDE DEF Less
    <2> QED
      BY <2>1, WFMin
  <1>2. PICK low \in T : \A j \in T : ~(<<j, low>> \in Less)
    BY <1>1
  <1>3. \A j \in T : ~(j < low)
    BY <1>2 DEF OpToRel
  <1> QED
    BY <1>3

LEMMA EveryCount ==
  ASSUME NEW T \in SUBSET Nat, 0 \in T, \A n \in Nat : n \in T => n + 1 \in T
  PROVE  T = Nat
  <1> SUFFICES ASSUME Nat \ T # {} PROVE FALSE
    OBVIOUS
  <1>1. PICK low \in Nat \ T : \A j \in Nat \ T : low <= j
    BY LeastCount
  <1>2. low - 1 \in Nat /\ ~(low <= low - 1) /\ (low - 1) + 1 = low
    BY <1>1
  <1>3. low - 1 \in T
    BY <1>1, <1>2
  <1> QED
    BY <1>1, <1>2, <1>3

\* A function defined by its value before.
Iterated(f, D, n, base, step) ==
  /\ f \in [0 .. n -> D]
  /\ f[0] = base
  /\ \A k \in 1 .. n : f[k] = step[k][f[k - 1]]

LEMMA Iterates ==
  ASSUME NEW D, NEW n \in Nat, NEW base \in D, NEW step \in [1 .. n -> [D -> D]]
  PROVE  \E f : Iterated(f, D, n, base, step)
  <1> DEFINE T == {m \in Nat : m <= n => \E f : Iterated(f, D, m, base, step)}
  <1>1. 0 \in T
    <2> DEFINE g == [k \in 0 .. 0 |-> base]
    <2>1. g \in [0 .. 0 -> D] /\ g[0] = base
      OBVIOUS
    <2> HIDE DEF g
    <2>2. Iterated(g, D, 0, base, step)
      BY <2>1 DEF Iterated
    <2> QED
      BY <2>2
  <1>2. ASSUME NEW m \in Nat, m \in T
        PROVE  m + 1 \in T
    <2> SUFFICES ASSUME m + 1 <= n PROVE \E f : Iterated(f, D, m + 1, base, step)
      OBVIOUS
    <2>1. PICK f : Iterated(f, D, m, base, step)
      BY <1>2
    <2> DEFINE g == [k \in 0 .. m + 1 |-> IF k = m + 1 THEN step[m + 1][f[m]] ELSE f[k]]
    <2>2. m \in 0 .. m /\ m + 1 \in 1 .. n /\ \A k \in 0 .. m : f[k] \in D
      <3>1. m \in 0 .. m /\ m + 1 \in 1 .. n
        OBVIOUS
      <3>2. f \in [0 .. m -> D]
        BY <2>1 DEF Iterated
      <3> QED
        BY <3>1, <3>2
    <2>3. step[m + 1][f[m]] \in D
      BY <2>2
    <2>4. g \in [0 .. m + 1 -> D]
      <3> SUFFICES ASSUME NEW k \in 0 .. m + 1 PROVE g[k] \in D
        OBVIOUS
      <3>1. k # m + 1 => k \in 0 .. m
        OBVIOUS
      <3> QED
        BY <2>2, <2>3, <3>1
    <2>5. g[0] = base
      <3>1. 0 \in 0 .. m + 1 /\ 0 # m + 1
        OBVIOUS
      <3> QED
        BY <2>1, <3>1 DEF Iterated
    <2>6. ASSUME NEW k \in 1 .. m + 1
          PROVE  g[k] = step[k][g[k - 1]]
      <3>1. k - 1 \in 0 .. m + 1 /\ k - 1 # m + 1 /\ k \in 0 .. m + 1
        OBVIOUS
      <3>2. g[k - 1] = f[k - 1]
        BY <3>1
      <3>3. CASE k = m + 1
        <4>1. k - 1 = m
          BY <3>3
        <4> QED
          BY <3>1, <3>2, <3>3, <4>1
      <3>4. CASE k # m + 1
        <4>1. k \in 1 .. m
          BY <3>4
        <4>2. f[k] = step[k][f[k - 1]]
          BY <2>1, <4>1 DEF Iterated
        <4> QED
          BY <3>1, <3>2, <3>4, <4>2
      <3> QED
        BY <3>3, <3>4
    <2> HIDE DEF g
    <2>7. Iterated(g, D, m + 1, base, step)
      BY <2>4, <2>5, <2>6 DEF Iterated
    <2> QED
      BY <2>7
  <1>3. T = Nat
    <2>1. T \in SUBSET Nat
      OBVIOUS
    <2> HIDE DEF T
    <2> QED
      BY <1>1, <1>2, <2>1, EveryCount
  <1>4. n \in T
    BY <1>3
  <1> QED
    BY <1>4

LEMMA Greatest ==
  ASSUME NEW n \in Nat, NEW S \in SUBSET (0 .. n), S # {}
  PROVE  Max(S) \in S /\ \A x \in S : x <= Max(S)
  <1> DEFINE U == {u \in Nat : \A x \in S : x <= u}
  <1>1. PICK low \in U : \A u \in U : low <= u
    <2>1. n \in U /\ U \in SUBSET Nat
      OBVIOUS
    <2> HIDE DEF U
    <2> QED
      BY <2>1, LeastCount
  <1>2. low \in S
    <2> SUFFICES ASSUME low \notin S PROVE FALSE
      OBVIOUS
    <2>1. low \in Nat /\ \A x \in S : x \in Nat /\ x <= low /\ x # low
      BY <1>1
    <2>2. low # 0
      <3>1. PICK x : x \in S
        OBVIOUS
      <3> QED
        BY <2>1, <3>1
    <2>3. low - 1 \in U
      BY <2>1, <2>2
    <2> QED
      BY <1>1, <2>1, <2>3
  <1>3. \A x \in S : low >= x
    BY <1>1
  <1> QED
    BY <1>2, <1>3 DEF Max

\* The bits of a cell are added up field by field.
AddedUp(u, data) ==
  u[0] = 0 /\ \A i \in 1 .. Len(data) : u[i] = u[i - 1] + data[i].w

LEMMA BitsAddUp ==
  ASSUME NEW data, Len(data) \in Nat, \A i \in 1 .. Len(data) : data[i].w \in Nat
  PROVE  \E u : AddedUp(u, data) /\ BitsOf(data) = u[Len(data)]
  <1> DEFINE n == Len(data)
             IsSum(f) == f = [i \in 0 .. n |-> IF i = 0 THEN 0 ELSE f[i - 1] + data[i].w]
  <1>1. BitsOf(data) = (CHOOSE f : IsSum(f))[n]
    BY DEF BitsOf
  <1>2. \E f : IsSum(f)
    <2> DEFINE step == [c \in 1 .. n |-> [v \in Nat |-> v + data[c].w]]
    <2>1. step \in [1 .. n -> [Nat -> Nat]]
      OBVIOUS
    <2>2. \A v \in Nat, c \in 1 .. n : step[c][v] = v + data[c].w
      OBVIOUS
    <2> HIDE DEF step, n
    <2>3. PICK f : Iterated(f, Nat, n, 0, step)
      <3>1. 0 \in Nat /\ n \in Nat
        BY DEF n
      <3> QED
        BY <2>1, <3>1, Iterates, Zenon
    <2>4. ASSUME NEW c \in 0 .. n, c # 0
          PROVE  f[c] = f[c - 1] + data[c].w
      <3>1. c \in 1 .. n /\ c - 1 \in 0 .. n
        BY <2>4 DEF n
      <3>2. f[c - 1] \in Nat /\ f[c] = step[c][f[c - 1]]
        BY <2>3, <3>1 DEF Iterated
      <3> QED
        BY <2>2, <3>1, <3>2
    <2>5. f \in [0 .. n -> Nat] /\ f[0] = 0
      BY <2>3 DEF Iterated
    <2>6. IsSum(f)
      BY <2>4, <2>5
    <2> QED
      BY <2>6
  <1>3. PICK u : IsSum(u) /\ u = CHOOSE f : IsSum(f)
    <2> HIDE DEF IsSum
    <2> QED
      BY <1>2
  <1>4. AddedUp(u, data)
    <2>1. u = [i \in 0 .. n |-> IF i = 0 THEN 0 ELSE u[i - 1] + data[i].w]
      BY <1>3
    <2>2. ASSUME NEW i \in 1 .. n
          PROVE  u[i] = u[i - 1] + data[i].w
      <3>1. i \in 0 .. n /\ i # 0
        OBVIOUS
      <3> QED
        BY <2>1, <3>1
    <2>3. 0 \in 0 .. n
      OBVIOUS
    <2> QED
      BY <2>1, <2>2, <2>3 DEF AddedUp
  <1> HIDE DEF IsSum
  <1> QED
    BY <1>1, <1>3, <1>4
=============================================================================
