----------------------------- MODULE SumProofs -----------------------------
(***************************************************************************)
(* What the proofs need of numbers and of sums.  The induction theorems of *)
(* the library take a predicate; here the numbers that satisfy it are a    *)
(* set, and induction follows from the library's least elements.           *)
(***************************************************************************)
EXTENDS Sums, WellFoundedInduction, TLAPS

(* A set of natural numbers that is not empty has a least element. *)
LEMMA LeastNatural ==
    ASSUME NEW T \in SUBSET Nat, T # {}
    PROVE  \E x \in T : \A y \in T : x <= y
<1>1. PICK x \in T : \A y \in T : ~(<<y, x>> \in OpToRel(<, Nat))
  BY NatLessThanWellFounded, WFMin
<1>2. \A y \in T : ~(y < x)
  BY <1>1 DEF OpToRel
<1> QED
  BY <1>2

(* Induction: a set that has 0 and with every number the next one. *)
LEMMA Induction ==
    ASSUME NEW n \in Nat, NEW S, 0 \in S,
           \A m \in 1..n : m - 1 \in S => m \in S
    PROVE  \A m \in 0..n : m \in S
<1> SUFFICES ASSUME (0..n) \ S # {} PROVE FALSE
  OBVIOUS
<1>1. (0..n) \ S \in SUBSET Nat
  OBVIOUS
<1>2. PICK m \in (0..n) \ S : \A y \in (0..n) \ S : m <= y
  BY <1>1, LeastNatural
<1>3. m \in 1..n /\ m - 1 \in 0..n
  BY <1>2
<1>4. m - 1 \in S
  BY <1>2, <1>3
<1> QED
  BY <1>2, <1>3, <1>4

IsRunning(f, s, n) ==
    /\ f[0] = 0
    /\ \A i \in 1..n : f[i] = f[i - 1] + s[i]

(* The running totals exist, as far as one likes. *)
LEMMA RunningTotalsExist ==
    ASSUME NEW s \in Seq(Int)
    PROVE  \E f \in [0..Len(s) -> Int] : IsRunning(f, s, Len(s))
<1> DEFINE S == {m \in 0..Len(s) : \E f \in [0..m -> Int] : IsRunning(f, s, m)}
<1>1. Len(s) \in Nat
  OBVIOUS
<1>2. 0 \in S
  <2>1. [i \in 0..0 |-> 0] \in [0..0 -> Int] /\ IsRunning([i \in 0..0 |-> 0], s, 0)
    BY DEF IsRunning
  <2> QED
    BY <1>1, <2>1
<1>3. ASSUME NEW m \in 1..Len(s), m - 1 \in S PROVE m \in S
  <2>1. PICK f \in [0..(m - 1) -> Int] : IsRunning(f, s, m - 1)
    BY <1>3
  <2> DEFINE g == [i \in 0..m |-> IF i = m THEN f[m - 1] + s[m] ELSE f[i]]
  <2>2. s[m] \in Int /\ m - 1 \in 0..(m - 1) /\ m \in 0..Len(s) /\ m # 0
    BY <1>1
  <2>3. f[m - 1] \in Int
    BY <2>1, <2>2
  <2>4. g \in [0..m -> Int]
    BY <2>1, <2>2, <2>3
  <2>5. g[0] = 0
    BY <2>1, <2>2 DEF IsRunning
  <2>6. ASSUME NEW i \in 1..m PROVE g[i] = g[i - 1] + s[i]
    <3>1. i \in 0..m /\ i - 1 \in 0..m /\ i - 1 # m /\ (i # m => i \in 1..(m - 1))
      BY <1>1
    <3>2. g[i - 1] = f[i - 1] /\ g[i] = IF i = m THEN f[m - 1] + s[m] ELSE f[i]
      BY <3>1
    <3> QED
      BY <2>1, <3>1, <3>2 DEF IsRunning
  <2>7. IsRunning(g, s, m)
    BY <2>5, <2>6 DEF IsRunning
  <2> QED
    BY <2>2, <2>4, <2>7
<1> HIDE DEF S
<1>4. \A m \in 0..Len(s) : m \in S
  BY <1>1, <1>2, <1>3, Induction
<1>5. Len(s) \in S
  BY <1>1, <1>4
<1> QED
  BY <1>5 DEF S

(* What the recursive function is. *)
LEMMA RunningTotalsAre ==
    ASSUME NEW s \in Seq(Int)
    PROVE  RunningTotals(s) \in [0..Len(s) -> Int] /\ IsRunning(RunningTotals(s), s, Len(s))
<1> DEFINE R(f) == f = [i \in 0..Len(s) |-> IF i = 0 THEN 0 ELSE f[i - 1] + s[i]]
<1>1. Len(s) \in Nat
  OBVIOUS
<1>2. PICK f \in [0..Len(s) -> Int] : IsRunning(f, s, Len(s))
  BY <1>1, RunningTotalsExist
<1>3. R(f)
  BY <1>1, <1>2 DEF IsRunning
<1>4. RunningTotals(s) = CHOOSE g : R(g)
  BY DEF RunningTotals
<1>5. R(RunningTotals(s))
  BY <1>3, <1>4
<1>6. PICK r : r = RunningTotals(s)
  OBVIOUS
<1>7. r = [i \in 0..Len(s) |-> IF i = 0 THEN 0 ELSE r[i - 1] + s[i]]
  BY <1>5, <1>6
<1>8. IsRunning(r, s, Len(s))
  <2>1. \A i \in 0..Len(s) : r[i] = IF i = 0 THEN 0 ELSE r[i - 1] + s[i]
    BY <1>7
  <2>2. 0 \in 0..Len(s) /\ \A i \in 1..Len(s) : i \in 0..Len(s) /\ i # 0
    BY <1>1
  <2> QED
    BY <2>1, <2>2 DEF IsRunning
<1> DEFINE S == {m \in 0..Len(s) : r[m] \in Int}
<1>9. 0 \in S
  BY <1>1, <1>8 DEF IsRunning
<1>10. ASSUME NEW m \in 1..Len(s), m - 1 \in S PROVE m \in S
  <2>1. r[m] = r[m - 1] + s[m] /\ s[m] \in Int /\ m \in 0..Len(s)
    BY <1>1, <1>8 DEF IsRunning
  <2> QED
    BY <1>10, <2>1
<1> HIDE DEF S
<1>11. \A m \in 0..Len(s) : m \in S
  BY <1>1, <1>9, <1>10, Induction
<1>12. \A m \in 0..Len(s) : r[m] \in Int
  BY <1>11 DEF S
<1>13. r \in [0..Len(s) -> Int]
  BY <1>7, <1>12
<1> QED
  BY <1>6, <1>8, <1>13

(* A sum of integers is an integer. *)
LEMMA TotalIsInt == ASSUME NEW s \in Seq(Int) PROVE Total(s) \in Int
<1>1. Len(s) \in Nat /\ Len(s) \in 0..Len(s)
  OBVIOUS
<1> QED
  BY <1>1, RunningTotalsAre DEF Total

(* Two sequences that differ in one place differ in their sums as there. *)
LEMMA TotalOfChanged ==
    ASSUME NEW s \in Seq(Int), NEW t \in Seq(Int), Len(t) = Len(s), NEW k \in 1..Len(s),
           \A i \in 1..Len(s) : i # k => t[i] = s[i]
    PROVE  Total(t) = Total(s) + (t[k] - s[k])
<1>1. Len(s) \in Nat /\ s[k] \in Int /\ t[k] \in Int
  OBVIOUS
<1>2. PICK r \in [0..Len(s) -> Int] : r = RunningTotals(s) /\ IsRunning(r, s, Len(s))
  BY RunningTotalsAre
<1>3. PICK q \in [0..Len(s) -> Int] : q = RunningTotals(t) /\ IsRunning(q, t, Len(s))
  BY RunningTotalsAre
<1>4. PICK d \in Int : d = t[k] - s[k]
  BY <1>1
<1> DEFINE S == {m \in 0..Len(s) : q[m] = IF m < k THEN r[m] ELSE r[m] + d}
<1>5. 0 \in S
  BY <1>1, <1>2, <1>3 DEF IsRunning
<1>6. ASSUME NEW m \in 1..Len(s), m - 1 \in S PROVE m \in S
  <2>1. q[m] = q[m - 1] + t[m] /\ r[m] = r[m - 1] + s[m]
    BY <1>2, <1>3 DEF IsRunning
  <2>2. m - 1 \in 0..Len(s) /\ m \in 0..Len(s) /\ m \in Int /\ k \in Int
    BY <1>1
  <2>3. r[m - 1] \in Int /\ s[m] \in Int /\ t[m] \in Int
    <3>1. r[m - 1] \in Int
      BY <2>2
    <3>2. s[m] \in Int
      OBVIOUS
    <3>3. m \in 1..Len(t)
      OBVIOUS
    <3>4. t[m] \in Int
      BY <3>3
    <3> QED
      BY <3>1, <3>2, <3>4
  <2>4. q[m - 1] = IF m - 1 < k THEN r[m - 1] ELSE r[m - 1] + d
    BY <1>6
  <2>5. t[m] = IF m = k THEN s[m] + d ELSE s[m]
    BY <1>1, <1>4
  <2>6. q[m] = IF m < k THEN r[m] ELSE r[m] + d
    BY <1>4, <2>1, <2>2, <2>3, <2>4, <2>5
  <2> QED
    BY <2>2, <2>6
<1> HIDE DEF S
<1>7. \A m \in 0..Len(s) : m \in S
  BY <1>1, <1>5, <1>6, Induction
<1>8. q[Len(s)] = r[Len(s)] + d
  BY <1>1, <1>7 DEF S
<1> QED
  BY <1>2, <1>3, <1>4, <1>8 DEF Total
=============================================================================
