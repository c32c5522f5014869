----------------------------- MODULE Induction ------------------------------
(***************************************************************************)
(* Induction and recursion over the naturals, as facts about sets and      *)
(* functions: what the proofs about sorting, merging and searching loops   *)
(* rest on.  All of it comes from the well-foundedness of < on Nat.        *)
(***************************************************************************)
EXTENDS Integers, FiniteSets, Sequences, WellFoundedInduction, FiniteSetTheorems, TLAPS

(* A set of naturals that is not empty has a least element. *)
LEMMA LeastElement ==
  ASSUME NEW T, T \subseteq Nat, T # {}
  PROVE  \E x \in T : \A y \in T : x <= y
<1> DEFINE R == OpToRel(<, Nat)
<1>1. IsWellFoundedOn(R, Nat)
  BY NatLessThanWellFounded
<1>2. \E x \in T : \A y \in T : ~(<<y, x>> \in R)
  <2> HIDE DEF R
  <2> QED BY <1>1, WFMin
<1>3. ASSUME NEW x \in T, NEW y \in T, ~(<<y, x>> \in R)
      PROVE  x <= y
  BY <1>3 DEF OpToRel
<1> QED
  BY <1>2, <1>3

(* What holds of 0, and of n + 1 if it holds of n, holds up to any bound. *)
LEMMA UpTo ==
  ASSUME NEW n \in Nat, NEW S, 0 \in S, \A k \in 0..(n - 1) : k \in S => k + 1 \in S
  PROVE  0..n \subseteq S
<1> DEFINE T == (0..n) \ S
<1> SUFFICES ASSUME T # {} PROVE FALSE
  OBVIOUS
<1>1. PICK x \in T : \A y \in T : x <= y
  <2>1. T \subseteq Nat
    OBVIOUS
  <2> HIDE DEF T
  <2> QED BY <2>1, LeastElement
<1>2. x # 0 /\ x - 1 \in 0..(n - 1)
  BY <1>1
<1>3. x - 1 \in S
  BY <1>1, <1>2
<1> QED
  BY <1>1, <1>2, <1>3

(* The same for all naturals. *)
LEMMA ForAllNat ==
  ASSUME NEW S, 0 \in S, \A k \in Nat : k \in S => k + 1 \in S
  PROVE  Nat \subseteq S
<1> SUFFICES ASSUME NEW n \in Nat PROVE n \in S
  OBVIOUS
<1>1. 0..n \subseteq S
  BY UpTo
<1> QED
  BY <1>1

(* A set of integers that is not empty and has a bound has a greatest element. *)
LEMMA GreatestElement ==
  ASSUME NEW T, T \subseteq Int, T # {}, NEW b \in Int, \A x \in T : x <= b
  PROVE  \E x \in T : \A y \in T : y <= x
<1> DEFINE D == {b - x : x \in T}
<1>1. D \subseteq Nat /\ D # {}
  <2>1. PICK x \in T : TRUE
    OBVIOUS
  <2>2. b - x \in D
    BY <2>1
  <2>3. ASSUME NEW y \in T PROVE b - y \in Nat
    <3>1. y \in Int /\ y <= b
      OBVIOUS
    <3> QED BY <3>1
  <2> QED
    BY <2>2, <2>3
<1>2. PICK d \in D : \A e \in D : d <= e
  BY <1>1, LeastElement
<1>3. PICK x \in T : d = b - x
  BY <1>2
<1>4. ASSUME NEW y \in T PROVE y <= x
  <2>1. b - y \in D
    OBVIOUS
  <2>2. b - x <= b - y
    BY <2>1, <1>2, <1>3
  <2>3. x \in Int /\ y \in Int
    OBVIOUS
  <2> QED
    BY <2>2, <2>3
<1> QED
  BY <1>3, <1>4

(* A loop that carries a value of X through n steps: g[k] is its value     *)
(* after k of them.                                                        *)
IsLoop(g, n, X, c, d) ==
  /\ g \in [0..n -> X]
  /\ g = [k \in 0..n |-> IF k = 0 THEN c ELSE d[<<g[k - 1], k>>]]

(* There is such a g, so that the function a recursive definition chooses  *)
(* is one that satisfies it.                                               *)
LEMMA LoopExists ==
  ASSUME NEW n \in Nat, NEW X, NEW c \in X, NEW d, d \in [X \X (1..n) -> X]
  PROVE  \E g : IsLoop(g, n, X, c, d)
<1> DEFINE Runs(m) == {g \in [0..m -> X] : g[0] = c /\ \A k \in 1..m : g[k] = d[<<g[k - 1], k>>]}
           S == {m \in 0..n : Runs(m) # {}}
<1>1. 0 \in S
  <2>1. [k \in 0..0 |-> c] \in Runs(0)
    OBVIOUS
  <2> QED
    BY <2>1
<1>2. ASSUME NEW m \in 0..(n - 1), m \in S
      PROVE  m + 1 \in S
  <2>1. PICK g \in [0..m -> X] : g[0] = c /\ \A k \in 1..m : g[k] = d[<<g[k - 1], k>>]
    BY <1>2
  <2> DEFINE h == [k \in 0..(m + 1) |-> IF k = m + 1 THEN d[<<g[m], m + 1>>] ELSE g[k]]
  <2>2. <<g[m], m + 1>> \in X \X (1..n)
    BY <1>2, <2>1
  <2>3. d[<<g[m], m + 1>>] \in X
    BY <2>2
  <2>4. h \in [0..(m + 1) -> X]
    BY <2>1, <2>3
  <2>5. h[0] = c
    BY <2>1, <1>2
  <2>6. ASSUME NEW k \in 1..(m + 1) PROVE h[k] = d[<<h[k - 1], k>>]
    <3>1. k - 1 \in 0..m /\ k - 1 \in 0..(m + 1) /\ k \in 0..(m + 1) /\ k - 1 # m + 1
      BY <1>2
    <3>2. h[k - 1] = g[k - 1]
      BY <3>1
    <3>3. CASE k = m + 1
      BY <3>1, <3>2, <3>3
    <3>4. CASE k # m + 1
      <4>1. k \in 1..m /\ h[k] = g[k]
        BY <3>1, <3>4, <1>2
      <4> QED BY <4>1, <3>2, <2>1
    <3> QED BY <3>3, <3>4
  <2>7. h \in Runs(m + 1)
    <3> HIDE DEF h
    <3> QED BY <2>4, <2>5, <2>6
  <2>8. m + 1 \in 0..n
    BY <1>2
  <2> HIDE DEF Runs, h
  <2> QED
    BY <2>7, <2>8
<1>3. 0..n \subseteq S
  <2> HIDE DEF S
  <2> QED BY <1>1, <1>2, UpTo
<1>4. Runs(n) # {}
  BY <1>3
<1>5. PICK g \in [0..n -> X] : g[0] = c /\ \A k \in 1..n : g[k] = d[<<g[k - 1], k>>]
  BY <1>4
<1> DEFINE h == [k \in 0..n |-> IF k = 0 THEN c ELSE d[<<g[k - 1], k>>]]
<1>6. ASSUME NEW k \in 0..n PROVE g[k] = h[k]
  BY <1>5
<1>7. g = h
  BY <1>6
<1> QED
  BY <1>7 DEF IsLoop
=============================================================================
