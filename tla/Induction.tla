----------------------------- MODULE Induction -----------------------------
(***************************************************************************)
(* Induction over the natural numbers as facts about sets, from the least  *)
(* element that the well-founded order < gives every set of them.          *)
(***************************************************************************)
EXTENDS WellFoundedInduction, TLAPS

LEMMA Below ==
    \E R : IsWellFoundedOn(R, Nat) /\ \A m, n \in Nat : m < n => <<m, n>> \in R
  <1>1. IsWellFoundedOn(OpToRel(<, Nat), Nat)
    BY NatLessThanWellFounded
  <1>2. ASSUME NEW m \in Nat, NEW n \in Nat, m < n PROVE <<m, n>> \in OpToRel(<, Nat)
    BY <1>2 DEF OpToRel
  <1> QED
    BY <1>1, <1>2

\* Every set of natural numbers has a least one.
LEMMA SmallestNat ==
    ASSUME NEW B, B # {}, B \subseteq Nat
    PROVE  \E i \in B : \A j \in B : i <= j
  <1>1. PICK R : IsWellFoundedOn(R, Nat) /\ \A m, n \in Nat : m < n => <<m, n>> \in R
    BY Below
  <1>2. PICK x \in B : \A y \in B : <<y, x>> \notin R
    <2>1. IsWellFoundedOn(R, Nat) /\ B \subseteq Nat /\ B # {}
      BY <1>1
    <2> QED
      BY <2>1, WFMin, Zenon
  <1>3. ASSUME NEW y \in B PROVE x <= y
    <2>1. x \in Nat /\ y \in Nat
      OBVIOUS
    <2>2. ~(y < x)
      BY <1>1, <1>2, <2>1
    <2> QED
      BY <2>1, <2>2
  <1> QED
    BY <1>3

\* Induction, for a set.
LEMMA SetInduction ==
    ASSUME NEW T, 0 \in T, \A n \in Nat : n \in T => n + 1 \in T
    PROVE  Nat \subseteq T
  <1>1. PICK B : B = Nat \ T
    OBVIOUS
  <1>2. SUFFICES ASSUME B # {} PROVE FALSE
    BY <1>1
  <1>3. PICK i \in B : \A j \in B : i <= j
    BY <1>1, <1>2, SmallestNat
  <1>4. i \in Nat /\ i \notin T /\ i # 0
    BY <1>1
  <1>5. i - 1 \in Nat /\ (i - 1) + 1 = i /\ ~(i <= i - 1)
    BY <1>4
  <1>6. i - 1 \in T
    BY <1>1, <1>3, <1>5
  <1> QED
    BY <1>4, <1>5, <1>6

\* A function that is defined by recursion exists.
LEMMA Recursion ==
    ASSUME NEW X, NEW x \in X, NEW N \in Nat, NEW F \in [1 .. N -> [X -> X]]
    PROVE  \E f \in [0 .. N -> X] : f[0] = x /\ \A k \in 1 .. N : f[k] = F[k][f[k - 1]]
  <1>1. PICK T : T = {n \in Nat : n <= N =>
                        \E f \in [0 .. n -> X] :
                           f = [k \in 0 .. n |-> IF k = 0 THEN x ELSE F[k][f[k - 1]]]}
    OBVIOUS
  <1>2. 0 \in T
    <2>1. PICK f : f = [k \in 0 .. 0 |-> x]
      OBVIOUS
    <2>2. f \in [0 .. 0 -> X] /\ f = [k \in 0 .. 0 |-> IF k = 0 THEN x ELSE F[k][f[k - 1]]]
      BY <2>1
    <2> QED
      BY <1>1, <2>2
  <1>3. ASSUME NEW n \in Nat, n \in T PROVE n + 1 \in T
    <2>1. SUFFICES ASSUME n + 1 <= N
                   PROVE  \E f \in [0 .. n + 1 -> X] :
                             f = [k \in 0 .. n + 1 |-> IF k = 0 THEN x ELSE F[k][f[k - 1]]]
      BY <1>1
    <2>2. n <= N /\ n + 1 \in 1 .. N /\ n \in 0 .. n /\ n + 1 \in 0 .. n + 1 /\ (n + 1) - 1 = n /\ n + 1 # 0
      BY <2>1
    <2>3. PICK f \in [0 .. n -> X] : f = [k \in 0 .. n |-> IF k = 0 THEN x ELSE F[k][f[k - 1]]]
      BY <1>1, <1>3, <2>2
    <2>4. PICK y : y = F[n + 1][f[n]] /\ y \in X
      BY <2>2
    <2>5. PICK g : g = [k \in 0 .. n + 1 |-> IF k = n + 1 THEN y ELSE f[k]]
      OBVIOUS
    <2>6. \A k \in 0 .. n : g[k] = f[k] /\ k \in 0 .. n + 1 /\ k # n + 1
      BY <2>5
    <2>7. g[n + 1] = F[n + 1][g[n]]
      BY <2>2, <2>4, <2>5, <2>6
    <2>8. ASSUME NEW k \in 0 .. n + 1
          PROVE  g[k] \in X /\ g[k] = IF k = 0 THEN x ELSE F[k][g[k - 1]]
      <3>1. CASE k = n + 1
        BY <2>2, <2>4, <2>5, <2>7, <3>1
      <3>2. CASE k # n + 1
        <4>1. k \in 0 .. n /\ (k # 0 => k - 1 \in 0 .. n)
          BY <3>2
        <4>2. g[k] = f[k] /\ (k # 0 => g[k - 1] = f[k - 1])
          BY <2>6, <4>1
        <4>3. f[k] \in X /\ f[k] = IF k = 0 THEN x ELSE F[k][f[k - 1]]
          BY <2>3, <4>1
        <4> QED
          BY <4>2, <4>3
      <3> QED
        BY <3>1, <3>2
    <2>9. /\ g \in [0 .. n + 1 -> X]
          /\ g = [k \in 0 .. n + 1 |-> IF k = 0 THEN x ELSE F[k][g[k - 1]]]
      BY <2>5, <2>8
    <2> QED
      BY <2>9
  <1>4. N \in T
    BY <1>2, <1>3, SetInduction
  <1>5. PICK f \in [0 .. N -> X] : f = [k \in 0 .. N |-> IF k = 0 THEN x ELSE F[k][f[k - 1]]]
    BY <1>1, <1>4
  <1>6. f[0] = x /\ \A k \in 1 .. N : f[k] = F[k][f[k - 1]]
    BY <1>5
  <1> QED
    BY <1>6
=============================================================================
