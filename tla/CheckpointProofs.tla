-------------------------- MODULE CheckpointProofs --------------------------
(***************************************************************************)
(* Proofs about Checkpoint: what merging and planning compute, and what    *)
(* follows for a scan that is stopped and resumed, for every image size,   *)
(* chunk, number of jobs, number of attempts and place a write is cut at.  *)
(***************************************************************************)
EXTENDS Checkpoint, Induction

Pair == Nat \X Nat

In(x, r)     == r[1] <= x /\ x < r[2]
InSome(x, s) == \E k \in DOMAIN s : In(x, s[k])

(* In order of their starts; apart; none ending before it starts. *)
Ordered(s) == \A j, k \in DOMAIN s : j <= k => s[j][1] <= s[k][1]
Gapped(s)  == \A k \in 1..(Len(s) - 1) : s[k][2] < s[k + 1][1]
Upright(s) == \A k \in DOMAIN s : s[k][1] <= s[k][2]

-----------------------------------------------------------------------------
(* Sorting. *)

(* Range j of a list comes no later than range i. *)
NoLater(s, j, i) == Before(s[j], s[i]) \/ (s[j] = s[i] /\ j <= i)

Below(s, i) == {j \in DOMAIN s : NoLater(s, j, i)}

LEMMA NoLaterIsAnOrder ==
  ASSUME NEW s \in Seq(Pair), NEW i \in DOMAIN s, NEW j \in DOMAIN s
  PROVE  /\ NoLater(s, i, i)
         /\ NoLater(s, i, j) \/ NoLater(s, j, i)
         /\ NoLater(s, i, j) /\ NoLater(s, j, i) => i = j
         /\ NoLater(s, j, i) => s[j][1] <= s[i][1]
         /\ \A k \in DOMAIN s : NoLater(s, i, j) /\ NoLater(s, j, k) => NoLater(s, i, k)
<1>1. /\ i \in Nat /\ j \in Nat /\ \A k \in DOMAIN s : k \in Nat
  OBVIOUS
<1>2. /\ s[i] \in Pair /\ s[j] \in Pair /\ \A k \in DOMAIN s : s[k] \in Pair
  OBVIOUS
<1>3. \A k \in DOMAIN s : s[k][1] \in Nat /\ s[k][2] \in Nat
  BY <1>2 DEF Pair
<1>4. \A k, l \in DOMAIN s : s[k][1] = s[l][1] /\ s[k][2] = s[l][2] => s[k] = s[l]
  <2> SUFFICES ASSUME NEW k \in DOMAIN s, NEW l \in DOMAIN s,
                      s[k][1] = s[l][1], s[k][2] = s[l][2]
               PROVE  s[k] = s[l]
    OBVIOUS
  <2>1. /\ s[k] = <<s[k][1], s[k][2]>> /\ s[l] = <<s[l][1], s[l][2]>>
    BY <1>2 DEF Pair
  <2> QED BY <2>1
<1>5. NoLater(s, i, i)
  BY <1>1 DEF NoLater
<1>6. NoLater(s, i, j) \/ NoLater(s, j, i)
  BY <1>1, <1>3, <1>4 DEF NoLater, Before
<1>7. NoLater(s, i, j) /\ NoLater(s, j, i) => i = j
  BY <1>1, <1>3 DEF NoLater, Before
<1>8. NoLater(s, j, i) => s[j][1] <= s[i][1]
  BY <1>1, <1>3 DEF NoLater, Before
<1>9. ASSUME NEW k \in DOMAIN s, NoLater(s, i, j), NoLater(s, j, k) PROVE NoLater(s, i, k)
  BY SMTT(30), <1>1, <1>3, <1>9 DEF NoLater, Before
<1> QED
  BY <1>5, <1>6, <1>7, <1>8, <1>9

(* The places of two ranges are in their order, and within the list. *)
LEMMA PlaceOrders ==
  ASSUME NEW s \in Seq(Pair), NEW i \in DOMAIN s, NEW j \in DOMAIN s
  PROVE  /\ Place(s, i) \in 1..Len(s)
         /\ NoLater(s, j, i) /\ i # j => Place(s, j) < Place(s, i)
<1>1. /\ IsFiniteSet(DOMAIN s) /\ Cardinality(DOMAIN s) = Len(s)
  <2>1. DOMAIN s = 1..Len(s) /\ Len(s) \in Int /\ 1 \in Int /\ ~(1 > Len(s) + 1)
    OBVIOUS
  <2>2. IsFiniteSet(1..Len(s)) /\ Cardinality(1..Len(s)) = IF 1 > Len(s) THEN 0 ELSE Len(s) - 1 + 1
    BY <2>1, FS_Interval
  <2> QED BY <2>1, <2>2
<1>2. \A k \in DOMAIN s : /\ Place(s, k) = Cardinality(Below(s, k))
                           /\ Below(s, k) \subseteq DOMAIN s
                           /\ IsFiniteSet(Below(s, k))
                           /\ Cardinality(Below(s, k)) \in Nat
                           /\ Cardinality(Below(s, k)) <= Len(s)
  <2> SUFFICES ASSUME NEW k \in DOMAIN s
               PROVE  /\ Place(s, k) = Cardinality(Below(s, k))
                      /\ Below(s, k) \subseteq DOMAIN s
                      /\ IsFiniteSet(Below(s, k))
                      /\ Cardinality(Below(s, k)) \in Nat
                      /\ Cardinality(Below(s, k)) <= Len(s)
    OBVIOUS
  <2>1. Place(s, k) = Cardinality(Below(s, k))
    BY DEF Place, Below, NoLater
  <2>2. Below(s, k) \in SUBSET (DOMAIN s)
    BY DEF Below
  <2>3. IsFiniteSet(Below(s, k)) /\ Cardinality(Below(s, k)) <= Len(s)
    BY <1>1, <2>2, FS_Subset
  <2>4. Cardinality(Below(s, k)) \in Nat
    BY <2>3, FS_CardinalityType
  <2> QED BY <2>1, <2>2, <2>3, <2>4
<1>3. Place(s, i) \in 1..Len(s)
  <2>1. i \in Below(s, i)
    BY NoLaterIsAnOrder DEF Below
  <2>2. Cardinality(Below(s, i)) # 0
    BY <1>2, <2>1, FS_EmptySet
  <2> QED BY <1>2, <2>2
<1>4. ASSUME NoLater(s, j, i), i # j PROVE Place(s, j) < Place(s, i)
  <2>1. Below(s, j) \subseteq Below(s, i)
    BY <1>4, NoLaterIsAnOrder DEF Below
  <2>2. i \in Below(s, i) /\ i \notin Below(s, j)
    BY <1>4, NoLaterIsAnOrder DEF Below
  <2>3. Below(s, j) \in SUBSET Below(s, i) /\ Below(s, j) # Below(s, i)
    BY <2>1, <2>2
  <2>4. /\ Cardinality(Below(s, j)) <= Cardinality(Below(s, i))
        /\ Cardinality(Below(s, j)) # Cardinality(Below(s, i))
    BY <1>2, <2>3, FS_Subset
  <2> QED BY <2>4, <1>2
<1> QED BY <1>3, <1>4

(* Every place is taken by one range. *)
LEMMA PlaceIsTaken ==
  ASSUME NEW s \in Seq(Pair), NEW k \in 1..Len(s)
  PROVE  \E i \in DOMAIN s : Place(s, i) = k
<1> DEFINE f == [i \in 1..Len(s) |-> Place(s, i)]
<1>1. DOMAIN s = 1..Len(s) /\ Len(s) \in Nat
  OBVIOUS
<1>2. f \in [1..Len(s) -> 1..Len(s)]
  BY <1>1, PlaceOrders
<1>3. \A i, j \in 1..Len(s) : f[i] = f[j] => i = j
  <2> SUFFICES ASSUME NEW i \in 1..Len(s), NEW j \in 1..Len(s), f[i] = f[j], i # j PROVE FALSE
    OBVIOUS
  <2>1. NoLater(s, i, j) \/ NoLater(s, j, i)
    BY <1>1, NoLaterIsAnOrder
  <2>2. Place(s, i) < Place(s, j) \/ Place(s, j) < Place(s, i)
    BY <2>1, <1>1, PlaceOrders
  <2>3. Place(s, i) \in 1..Len(s) /\ Place(s, j) \in 1..Len(s) /\ Place(s, i) = Place(s, j)
    BY <1>1, PlaceOrders
  <2> QED BY <2>2, <2>3
<1>4. f \in Injection(1..Len(s), 1..Len(s))
  BY <1>2, <1>3 DEF Injection, IsInjective
<1>5. IsFiniteSet(1..Len(s))
  BY <1>1, FS_Interval
<1>6. f \in Surjection(1..Len(s), 1..Len(s))
  BY <1>4, <1>5, FS_Injection
<1>7. \E i \in 1..Len(s) : f[i] = k
  BY <1>6 DEF Surjection
<1> QED BY <1>7, <1>1

(* Sorting reorders the ranges by their starts. *)
LEMMA SortedIsInOrder ==
  ASSUME NEW s \in Seq(Pair)
  PROVE  /\ Sorted(s) \in Seq(Pair) /\ Len(Sorted(s)) = Len(s)
         /\ Ordered(Sorted(s))
         /\ \A k \in DOMAIN s : \E i \in DOMAIN s : Sorted(s)[k] = s[i]
         /\ \A i \in DOMAIN s : \E k \in DOMAIN s : Sorted(s)[k] = s[i]
<1> DEFINE at(k) == CHOOSE i \in DOMAIN s : Place(s, i) = k
<1>1. DOMAIN s = 1..Len(s) /\ Len(s) \in Nat
  OBVIOUS
<1>2. ASSUME NEW k \in 1..Len(s)
      PROVE  at(k) \in DOMAIN s /\ Place(s, at(k)) = k
  BY PlaceIsTaken
<1>3. ASSUME NEW k \in 1..Len(s)
      PROVE  Sorted(s)[k] = s[at(k)]
  BY <1>1 DEF Sorted
<1>4. Sorted(s) = [k \in 1..Len(s) |-> s[at(k)]]
  BY <1>1 DEF Sorted
<1> HIDE DEF at
<1>5. \A k \in 1..Len(s) : s[at(k)] \in Pair
  BY <1>2
<1>6. Sorted(s) \in Seq(Pair) /\ Len(Sorted(s)) = Len(s) /\ DOMAIN Sorted(s) = 1..Len(s)
  BY <1>1, <1>4, <1>5
<1>7. Ordered(Sorted(s))
  <2> SUFFICES ASSUME NEW j \in 1..Len(s), NEW k \in 1..Len(s), j <= k
               PROVE  Sorted(s)[j][1] <= Sorted(s)[k][1]
    BY <1>6 DEF Ordered
  <2>1. NoLater(s, at(j), at(k))
    <3>1. CASE at(j) = at(k)
      BY <3>1, <1>2, NoLaterIsAnOrder
    <3>2. CASE at(j) # at(k) /\ NoLater(s, at(k), at(j))
      <4>1. Place(s, at(k)) < Place(s, at(j))
        BY <3>2, <1>2, PlaceOrders
      <4> QED BY <4>1, <1>2
    <3> QED BY <3>1, <3>2, <1>2, NoLaterIsAnOrder
  <2>2. s[at(j)][1] <= s[at(k)][1]
    BY <2>1, <1>2, NoLaterIsAnOrder
  <2> QED BY <2>2, <1>3
<1>8. \A k \in DOMAIN s : \E i \in DOMAIN s : Sorted(s)[k] = s[i]
  BY <1>1, <1>2, <1>3
<1>9. ASSUME NEW i \in DOMAIN s PROVE \E k \in DOMAIN s : Sorted(s)[k] = s[i]
  <2> DEFINE k == Place(s, i)
  <2>1. k \in 1..Len(s)
    BY PlaceOrders
  <2>2. at(k) = i
    <3> SUFFICES ASSUME at(k) # i PROVE FALSE
      OBVIOUS
    <3>1. at(k) \in DOMAIN s /\ Place(s, at(k)) = k
      BY <2>1, <1>2
    <3>2. NoLater(s, at(k), i) \/ NoLater(s, i, at(k))
      BY <3>1, NoLaterIsAnOrder
    <3>3. Place(s, at(k)) < Place(s, i) \/ Place(s, i) < Place(s, at(k))
      BY <3>1, <3>2, PlaceOrders
    <3> QED BY <3>1, <3>3, <2>1
  <2>3. Sorted(s)[k] = s[i]
    BY <2>1, <2>2, <1>3
  <2> QED BY <2>1, <2>3, <1>1
<1> QED BY <1>6, <1>7, <1>8, <1>9

-----------------------------------------------------------------------------
(* Merging. *)

(* Every range of s starts no later than r. *)
StartsBy(s, r) == \A k \in DOMAIN s : s[k][1] <= r[1]

(* One turn of the loop: a range that starts no earlier than those merged  *)
(* so far.                                                                 *)
LEMMA CoalesceKeeps ==
  ASSUME NEW s \in Seq(Pair), NEW r \in Pair, Ordered(s), Gapped(s), StartsBy(s, r)
  PROVE  LET t == Coalesce(s, r)
         IN  /\ t \in Seq(Pair) /\ t # <<>>
             /\ Ordered(t) /\ Gapped(t)
             /\ \A q \in Pair : r[1] <= q[1] => StartsBy(t, q)
             /\ \A x \in Nat : InSome(x, t) <=> InSome(x, s) \/ In(x, r)
             /\ Upright(s) /\ r[1] <= r[2] => Upright(t)
<1> DEFINE t == Coalesce(s, r)
           n == Len(s)
<1>1. /\ n \in Nat /\ DOMAIN s = 1..n /\ n = Len(s)
      /\ \A k \in 1..n : s[k] \in Pair /\ s[k][1] \in Nat /\ s[k][2] \in Nat
      /\ r[1] \in Nat /\ r[2] \in Nat
  BY DEF Pair
<1>0. n \in Nat
  BY <1>1
<1> HIDE DEF n
<1>2. CASE Apart(s, r)
  <2>1. t = Append(s, r)
    BY <1>2 DEF Coalesce
  <2>2. /\ t \in Seq(Pair) /\ t # <<>> /\ Len(t) = n + 1 /\ DOMAIN t = 1..(n + 1)
        /\ t[n + 1] = r /\ \A k \in 1..n : t[k] = s[k]
    BY <2>1, <1>1
  <2>3. n > 0 => s[n][2] < r[1]
    BY <1>1, <1>2 DEF Apart, Last
  <2> HIDE DEF t
  <2>4. Ordered(t)
    BY SMTT(30), <2>2, <1>1 DEF Ordered, StartsBy
  <2>5. Gapped(t)
    <3>0. Len(t) - 1 = n
      BY <2>2, <1>0
    <3> SUFFICES ASSUME NEW k \in 1..n PROVE t[k][2] < t[k + 1][1]
      BY <3>0 DEF Gapped
    <3>1. CASE k = n
      BY <3>1, <2>2, <2>3
    <3>2. CASE k # n
      <4>1. k \in 1..(n - 1) /\ k + 1 \in 1..n
        BY <3>2, <1>0
      <4> QED BY <4>1, <2>2, <1>1 DEF Gapped
    <3> QED BY <3>1, <3>2
  <2>6. ASSUME NEW q \in Pair, r[1] <= q[1] PROVE StartsBy(t, q)
    <3>1. q[1] \in Nat
      BY DEF Pair
    <3> QED BY <2>2, <2>6, <1>1, <3>1 DEF StartsBy
  <2>7. ASSUME NEW x \in Nat PROVE InSome(x, t) <=> InSome(x, s) \/ In(x, r)
    <3>1. n + 1 \in DOMAIN t /\ \A k \in DOMAIN s : k \in DOMAIN t /\ t[k] = s[k]
      BY <2>2, <1>1
    <3>2. \A k \in DOMAIN t : k = n + 1 \/ k \in DOMAIN s
      BY <2>2, <1>1
    <3> QED BY <3>1, <3>2, <2>2 DEF InSome
  <2>8. Upright(s) /\ r[1] <= r[2] => Upright(t)
    BY <2>2, <1>1 DEF Upright
  <2> QED BY <2>2, <2>4, <2>5, <2>6, <2>7, <2>8 DEF t
<1>3. CASE ~Apart(s, r)
  <2>1. n \in 1..n /\ r[1] <= s[n][2] /\ s[n][1] <= r[1] /\ s # <<>>
    BY <1>1, <1>3 DEF Apart, Last, StartsBy
  <2> DEFINE e == IF r[2] > s[n][2] THEN r[2] ELSE s[n][2]
  <2>2. t = [s EXCEPT ![n][2] = e]
    BY <1>3 DEF Coalesce, Extend, n
  <2>3. e \in Nat /\ s[n][2] <= e /\ r[2] <= e /\ (e = r[2] \/ e = s[n][2])
    BY <1>1, <2>1
  <2>4. t[n] = [s[n] EXCEPT ![2] = e]
    BY <2>1, <2>2, <1>1
  <2>5. t[n] = <<s[n][1], e>>
    BY SMTT(30), <2>1, <2>4, <1>1 DEF Pair
  <2>6. DOMAIN t = 1..n /\ \A k \in 1..n : k # n => t[k] = s[k]
    BY <2>2, <1>1
  <2> HIDE DEF e
  <2>7. \A k \in 1..n : t[k] \in Pair /\ t[k][1] = s[k][1]
    <3>1. t[n] \in Pair /\ t[n][1] = s[n][1]
      BY <2>5, <2>3, <2>1, <1>1 DEF Pair
    <3> QED BY Zenon, <3>1, <2>6, <1>1
  <2>8. t \in Seq(Pair) /\ Len(t) = n
    <3>1. t = [k \in 1..n |-> t[k]]
      BY <2>2, <2>6
    <3> HIDE DEF t
    <3> QED BY <3>1, <2>7, <1>1
  <2>9. t[n][2] = e
    BY <2>5
  <2> HIDE DEF t
  <2>10. Ordered(t)
    BY ZenonT(40), <2>6, <2>7, <1>1 DEF Ordered
  <2>11. Gapped(t)
    <3> SUFFICES ASSUME NEW k \in 1..(n - 1) PROVE t[k][2] < t[k + 1][1]
      BY <2>8 DEF Gapped
    <3>1. k \in 1..n /\ k # n /\ k + 1 \in 1..n
      BY <1>0
    <3> QED BY Zenon, <3>1, <2>6, <2>7, <1>1 DEF Gapped
  <2>12. ASSUME NEW q \in Pair, r[1] <= q[1] PROVE StartsBy(t, q)
    <3>1. q[1] \in Nat
      BY DEF Pair
    <3>2. \A k \in 1..n : s[k][1] <= r[1]
      BY <1>1 DEF StartsBy
    <3>3. \A k \in 1..n : s[k][1] <= q[1]
      BY <3>1, <3>2, <2>12, <1>1
    <3> QED BY <2>6, <2>7, <3>3 DEF StartsBy
  <2>13. ASSUME NEW x \in Nat PROVE InSome(x, t) <=> InSome(x, s) \/ In(x, r)
    <3>1. In(x, t[n]) <=> In(x, s[n]) \/ In(x, r)
      BY SMTT(30), <2>1, <2>3, <2>7, <2>9, <1>1 DEF In
    <3>2. \A k \in 1..n : k # n => t[k] = s[k]
      BY <2>6
    <3>3. DOMAIN s = 1..n /\ DOMAIN t = 1..n /\ n \in 1..n
      BY Zenon, <2>6, <2>1, <1>1
    <3> QED BY <3>1, <3>2, <3>3 DEF InSome
  <2>14. Upright(s) /\ r[1] <= r[2] => Upright(t)
    <3> SUFFICES ASSUME Upright(s), NEW k \in 1..n PROVE t[k][1] <= t[k][2]
      BY <2>6 DEF Upright
    <3>1. s[k][1] <= s[k][2] /\ t[k][1] = s[k][1]
      BY <1>1, <2>7 DEF Upright
    <3>2. CASE k = n
      BY <3>1, <3>2, <2>3, <2>9, <1>1
    <3>3. CASE k # n
      BY <3>1, <3>3, <2>6
    <3> QED BY <3>2, <3>3
  <2>15. t # <<>>
    BY <2>8, <2>1
  <2> QED BY <2>8, <2>10, <2>11, <2>12, <2>13, <2>14, <2>15 DEF t
<1> QED BY <1>2, <1>3

(* The loop of merge, turn by turn. *)
MergeTurns(g, s) ==
  /\ g \in [0..Len(s) -> Seq(Pair)]
  /\ g[0] = <<>>
  /\ \A k \in 1..Len(s) : g[k] = Coalesce(g[k - 1], Sorted(s)[k])

LEMMA CoalesceType ==
  ASSUME NEW s \in Seq(Pair), NEW r \in Pair
  PROVE  Coalesce(s, r) \in Seq(Pair)
<1>1. CASE Apart(s, r)
  BY <1>1 DEF Coalesce
<1>2. CASE ~Apart(s, r)
  <2> DEFINE n == Len(s)
             e == IF r[2] > s[n][2] THEN r[2] ELSE s[n][2]
             t == Extend(s, r)
  <2>1. s # <<>> /\ n \in Nat /\ n \in 1..n /\ DOMAIN s = 1..n /\ \A k \in 1..n : s[k] \in Pair
    BY <1>2 DEF Apart
  <2>2. s[n] \in Nat \X Nat /\ r[2] \in Nat
    BY <2>1 DEF Pair
  <2>3. e \in Nat
    BY <2>2
  <2>4. t = [s EXCEPT ![n][2] = e]
    BY DEF Extend
  <2> HIDE DEF e, n
  <2>5. [s[n] EXCEPT ![2] = e] \in Pair
    <3>1. PICK a \in Nat, b \in Nat : s[n] = <<a, b>>
      BY <2>2
    <3>2. [s[n] EXCEPT ![2] = e] = <<a, e>>
      BY <3>1
    <3> QED BY <3>2, <2>3 DEF Pair
  <2>6. DOMAIN t = 1..n /\ \A k \in 1..n : t[k] \in Pair
    BY <2>1, <2>4, <2>5
  <2>7. t = [k \in 1..n |-> t[k]]
    BY <2>4, <2>6
  <2>8. Coalesce(s, r) = t
    BY <1>2 DEF Coalesce
  <2> HIDE DEF t
  <2> QED BY <2>1, <2>6, <2>7, <2>8
<1> QED BY <1>1, <1>2

LEMMA MergeRuns ==
  ASSUME NEW s \in Seq(Pair)
  PROVE  \E g : MergeTurns(g, s) /\ Merge(s) = g[Len(s)]
<1> DEFINE n == Len(s)
           X == Seq(Pair)
           d == [y \in X \X (1..n) |-> Coalesce(y[1], Sorted(s)[y[2]])]
           Follows(u) == u = [k \in 0..n |-> IF k = 0 THEN <<>> ELSE Coalesce(u[k - 1], Sorted(s)[k])]
           g == CHOOSE u : Follows(u)
<1>1. n \in Nat /\ <<>> \in X
  OBVIOUS
<1>2. \A k \in 1..n : Sorted(s)[k] \in Pair
  BY SortedIsInOrder
<1>3. d \in [X \X (1..n) -> X]
  <2> SUFFICES ASSUME NEW y \in X \X (1..n) PROVE Coalesce(y[1], Sorted(s)[y[2]]) \in X
    OBVIOUS
  <2>1. y[1] \in X /\ y[2] \in 1..n
    OBVIOUS
  <2> QED BY <2>1, <1>2, CoalesceType
<1>4. PICK u : IsLoop(u, n, X, <<>>, d)
  <2> HIDE DEF d, X, n
  <2> QED BY <1>1, <1>3, LoopExists
<1>5. u \in [0..n -> X] /\ u = [k \in 0..n |-> IF k = 0 THEN <<>> ELSE d[<<u[k - 1], k>>]]
  BY <1>4 DEF IsLoop
<1>6. Follows(u)
  <2>1. ASSUME NEW k \in 0..n, k # 0
        PROVE  d[<<u[k - 1], k>>] = Coalesce(u[k - 1], Sorted(s)[k])
    <3>1. k - 1 \in 0..n /\ k \in 1..n
      BY <2>1, <1>1
    <3>2. <<u[k - 1], k>> \in X \X (1..n)
      BY <3>1, <1>5
    <3> QED BY <3>2
  <2> HIDE DEF d
  <2> QED BY <1>5, <2>1
<1>7. Follows(g)
  <2> HIDE DEF Follows
  <2> QED BY <1>6
<1>8. Merge(s) = g[n]
  BY DEF Merge
<1> HIDE DEF g
<1>9. g[0] = <<>> /\ DOMAIN g = 0..n
  BY <1>7, <1>1
<1>10. \A k \in 1..n : g[k] = Coalesce(g[k - 1], Sorted(s)[k])
  BY <1>7, <1>1
<1>11. \A k \in 0..n : g[k] \in X
  <2> DEFINE S == {k \in 0..n : g[k] \in X}
  <2>1. 0 \in S
    BY <1>1, <1>9
  <2>2. ASSUME NEW k \in 0..(n - 1), k \in S PROVE k + 1 \in S
    <3>1. k + 1 \in 1..n /\ (k + 1) - 1 = k /\ g[k] \in X
      BY <2>2, <1>1
    <3>2. g[k + 1] = Coalesce(g[k], Sorted(s)[k + 1])
      BY <3>1, <1>10
    <3>3. g[k + 1] \in X
      BY <3>1, <3>2, <1>2, CoalesceType
    <3> QED BY <3>1, <3>3
  <2>3. 0..n \subseteq S
    <3> HIDE DEF S, n
    <3> QED BY <1>1, <2>1, <2>2, UpTo
  <2> QED BY <2>3
<1>12. MergeTurns(g, s)
  <2>1. g = [k \in 0..n |-> g[k]]
    BY <1>7
  <2>2. g \in [0..n -> X]
    BY <2>1, <1>11
  <2> QED BY <2>2, <1>9, <1>10 DEF MergeTurns
<1> QED BY <1>8, <1>12

(* What merge makes of a list of ranges covers the same bytes, in order    *)
(* and apart.                                                              *)
LEMMA MergeKeeps ==
  ASSUME NEW s \in Seq(Pair)
  PROVE  /\ Merge(s) \in Seq(Pair)
         /\ Ordered(Merge(s)) /\ Gapped(Merge(s))
         /\ \A x \in Nat : InSome(x, Merge(s)) <=> InSome(x, s)
         /\ Upright(s) => Upright(Merge(s))
<1>1. PICK g : MergeTurns(g, s) /\ Merge(s) = g[Len(s)]
  BY MergeRuns
<1> DEFINE n == Len(s)
           o == Sorted(s)
           First(x, k) == \E i \in 1..k : In(x, o[i])
           Good(k) == /\ Ordered(g[k]) /\ Gapped(g[k])
                      /\ \A i \in (k + 1)..n : StartsBy(g[k], o[i])
                      /\ \A x \in Nat : InSome(x, g[k]) <=> First(x, k)
                      /\ Upright(s) => Upright(g[k])
           S == {k \in 0..n : Good(k)}
<1>2. /\ n \in Nat /\ DOMAIN s = 1..n
      /\ o \in Seq(Pair) /\ Len(o) = n /\ DOMAIN o = 1..n
      /\ Ordered(o) /\ \A k \in 1..n : o[k] \in Pair
  BY SortedIsInOrder
<1>3. 0 \in S
  <2>1. g[0] = <<>> /\ DOMAIN g[0] = {} /\ Len(g[0]) = 0
    BY <1>1 DEF MergeTurns
  <2>2. Ordered(g[0]) /\ Gapped(g[0]) /\ Upright(g[0]) /\ \A i \in 1..n : StartsBy(g[0], o[i])
    BY <2>1 DEF Ordered, Gapped, Upright, StartsBy
  <2>3. \A x \in Nat : ~InSome(x, g[0]) /\ ~First(x, 0)
    BY <2>1 DEF InSome
  <2> QED BY <1>2, <2>2, <2>3
<1>4. ASSUME NEW k \in 0..(n - 1), k \in S PROVE k + 1 \in S
  <2>1. k \in 0..n /\ k \in Nat /\ k + 1 \in 1..n /\ (k + 1) - 1 = k /\ k + 1 \in 0..n /\ Good(k)
    BY <1>2, <1>4
  <2>2. g[k] \in Seq(Pair) /\ g[k + 1] = Coalesce(g[k], o[k + 1])
    BY <1>1, <2>1 DEF MergeTurns
  <2>3. o[k + 1] \in Pair /\ StartsBy(g[k], o[k + 1])
    BY <1>2, <2>1
  <2> DEFINE t == g[k + 1]
  <2>4. /\ Ordered(t) /\ Gapped(t)
        /\ \A q \in Pair : o[k + 1][1] <= q[1] => StartsBy(t, q)
        /\ \A x \in Nat : InSome(x, t) <=> InSome(x, g[k]) \/ In(x, o[k + 1])
        /\ Upright(g[k]) /\ o[k + 1][1] <= o[k + 1][2] => Upright(t)
    <3> HIDE DEF o
    <3> QED BY <2>1, <2>2, <2>3, CoalesceKeeps
  <2>5. \A i \in (k + 2)..n : StartsBy(t, o[i])
    <3> SUFFICES ASSUME NEW i \in (k + 2)..n PROVE StartsBy(t, o[i])
      OBVIOUS
    <3>1. i \in 1..n /\ k + 1 <= i /\ o[i] \in Pair
      BY <1>2, <2>1
    <3>2. o[k + 1][1] <= o[i][1]
      BY <1>2, <2>1, <3>1 DEF Ordered
    <3> HIDE DEF o, t
    <3> QED BY <2>4, <3>1, <3>2
  <2>6. \A x \in Nat : First(x, k + 1) <=> First(x, k) \/ In(x, o[k + 1])
    <3> HIDE DEF o
    <3>1. \A i \in 1..(k + 1) : i = k + 1 \/ i \in 1..k
      BY <2>1
    <3>2. k + 1 \in 1..(k + 1) /\ \A i \in 1..k : i \in 1..(k + 1)
      BY <2>1
    <3> QED BY <3>1, <3>2
  <2>7. \A x \in Nat : InSome(x, t) <=> First(x, k + 1)
    <3> HIDE DEF First, o, t
    <3> QED BY <2>1, <2>4, <2>6
  <2>8. Upright(s) => Upright(t)
    <3> SUFFICES ASSUME Upright(s) PROVE Upright(t)
      OBVIOUS
    <3>0. k + 1 \in DOMAIN s
      BY <1>2, <2>1
    <3>1. \E i \in DOMAIN s : o[k + 1] = s[i]
      BY <3>0, SortedIsInOrder
    <3> PICK i \in DOMAIN s : o[k + 1] = s[i]
      BY <3>1
    <3>2. o[k + 1][1] <= o[k + 1][2]
      BY DEF Upright
    <3> HIDE DEF o, t
    <3> QED BY <3>2, <2>1, <2>4
  <2>9. (k + 1) + 1 = k + 2
    BY <2>1
  <2>10. Good(k + 1)
    <3> HIDE DEF First, o
    <3> QED BY <2>4, <2>5, <2>7, <2>8, <2>9
  <2> HIDE DEF Good
  <2> QED BY <2>1, <2>10
<1>5. 0..n \subseteq S
  <2> HIDE DEF S, n
  <2> QED BY <1>2, <1>3, <1>4, UpTo
<1>6. n \in S
  BY <1>2, <1>5
<1>7. Good(n)
  BY <1>6
<1>8. \A x \in Nat : First(x, n) <=> InSome(x, s)
  <2> SUFFICES ASSUME NEW x \in Nat PROVE First(x, n) <=> InSome(x, s)
    OBVIOUS
  <2>0. /\ \A k \in DOMAIN s : \E i \in DOMAIN s : o[k] = s[i]
        /\ \A i \in DOMAIN s : \E k \in DOMAIN s : o[k] = s[i]
    BY SortedIsInOrder, Zenon
  <2>3. DOMAIN s = 1..n
    BY <1>2
  <2> HIDE DEF o, n
  <2>1. \A k \in 1..n : \E i \in DOMAIN s : o[k] = s[i]
    BY <2>0, <2>3
  <2>2. \A i \in DOMAIN s : \E k \in 1..n : o[k] = s[i]
    BY <2>0, <2>3
  <2> QED BY <2>1, <2>2 DEF InSome
<1>9. Merge(s) \in Seq(Pair)
  BY <1>1, <1>2 DEF MergeTurns
<1> HIDE DEF First
<1> QED BY <1>1, <1>7, <1>8, <1>9

-----------------------------------------------------------------------------
(* What is left. *)

Gaps == [out : Seq(Pair), pos : Nat]

(* Gaps between start and end, one after the other, none of them empty. *)
GapsWithin(out, start, end) ==
  /\ \A j \in DOMAIN out : start <= out[j][1] /\ out[j][1] < out[j][2] /\ out[j][2] <= end
  /\ \A j, k \in DOMAIN out : j < k => out[j][2] <= out[k][1]

(* One turn of the loop: what is before its position is either done or in  *)
(* a gap, what is not is neither.                                          *)
LEMMA SkipKeeps ==
  ASSUME NEW g \in Gaps, NEW r \in Pair, NEW start \in Nat, NEW end \in Nat,
         r[1] <= r[2], start <= g.pos,
         GapsWithin(g.out, start, end),
         \A j \in DOMAIN g.out : g.out[j][2] <= g.pos /\ g.out[j][2] <= r[1]
  PROVE  LET h == Skip(g, r, end)
         IN  /\ h \in Gaps /\ start <= h.pos
             /\ GapsWithin(h.out, start, end)
             /\ \A j \in DOMAIN h.out : h.out[j][2] <= h.pos /\ h.out[j][2] <= r[1]
             /\ g.pos <= h.pos
             /\ \A x \in Nat : InSome(x, g.out) => InSome(x, h.out)
             /\ \A x \in Nat : x < end /\ In(x, r) => x < h.pos /\ (InSome(x, h.out) => InSome(x, g.out))
             /\ \A x \in Nat : x < end /\ g.pos <= x /\ x < h.pos /\ ~In(x, r) => InSome(x, h.out)
             /\ \A x \in Nat : InSome(x, h.out) => InSome(x, g.out) \/ (g.pos <= x /\ x < h.pos /\ ~In(x, r))
<1> DEFINE h == Skip(g, r, end)
           n == Len(g.out)
<1>1. /\ g.out \in Seq(Pair) /\ g.pos \in Nat /\ r[1] \in Nat /\ r[2] \in Nat
      /\ g = [out |-> g.out, pos |-> g.pos]
  BY DEF Gaps, Pair
<1>2. n \in Nat /\ DOMAIN g.out = 1..n /\ \A j \in 1..n : g.out[j][1] \in Nat /\ g.out[j][2] \in Nat
  BY SMTT(30), <1>1 DEF Pair
<1>3. CASE r[2] <= g.pos \/ r[1] >= end
  <2>1. h = g
    BY <1>3 DEF Skip
  <2>2. \A x \in Nat : x < end /\ In(x, r) => x < g.pos
    BY <1>1, <1>3 DEF In
  <2> QED BY <2>1, <2>2, <1>1
<1>4. CASE ~(r[2] <= g.pos \/ r[1] >= end) /\ r[1] > g.pos
  <2> DEFINE gap == <<g.pos, r[1]>>
  <2>1. h = [out |-> Append(g.out, gap), pos |-> r[2]]
    <3>1. /\ ~(r[2] <= g.pos \/ r[1] >= end) /\ r[1] > g.pos
          /\ (IF r[2] > g.pos THEN r[2] ELSE g.pos) = r[2]
          /\ (IF r[1] < end THEN r[1] ELSE end) = r[1]
      BY <1>1, <1>4
    <3> QED BY <3>1, Zenon DEF Skip
  <2>2. gap \in Pair /\ gap[1] = g.pos /\ gap[2] = r[1]
    BY <1>1 DEF Pair
  <2>3. /\ h.pos = r[2] /\ h.out \in Seq(Pair) /\ DOMAIN h.out = 1..(n + 1)
        /\ h.out[n + 1] = gap /\ \A j \in 1..n : h.out[j] = g.out[j]
        /\ h \in Gaps
    <3> HIDE DEF gap
    <3> QED BY <1>1, <1>2, <2>1, <2>2 DEF Gaps
  <2>4. \A j \in DOMAIN h.out : j = n + 1 \/ j \in DOMAIN g.out
    BY <1>2, <2>3
  <2>5. n + 1 \in DOMAIN h.out /\ \A j \in DOMAIN g.out : j \in DOMAIN h.out /\ h.out[j] = g.out[j]
    BY <1>2, <2>3
  <2> HIDE DEF h, gap, n
  <2>6. GapsWithin(h.out, start, end)
    <3>1. ASSUME NEW j \in DOMAIN h.out
          PROVE  start <= h.out[j][1] /\ h.out[j][1] < h.out[j][2] /\ h.out[j][2] <= end
      <4>1. CASE j = n + 1
        BY <4>1, <1>1, <1>4, <2>2, <2>3
      <4>2. CASE j \in DOMAIN g.out
        BY <4>2, <2>5 DEF GapsWithin
      <4> QED BY <4>1, <4>2, <2>4
    <3>2. ASSUME NEW j \in DOMAIN h.out, NEW k \in DOMAIN h.out, j < k
          PROVE  h.out[j][2] <= h.out[k][1]
      <4>1. j \in DOMAIN g.out
        BY <2>3, <3>2, <1>2
      <4>2. CASE k = n + 1
        BY <4>1, <4>2, <2>2, <2>3, <2>5, <1>1, <1>2
      <4>3. CASE k \in DOMAIN g.out
        BY <4>1, <4>3, <2>5, <3>2 DEF GapsWithin
      <4> QED BY <4>2, <4>3, <2>4
    <3> QED BY <3>1, <3>2 DEF GapsWithin
  <2>7. \A j \in DOMAIN h.out : h.out[j][2] <= h.pos /\ h.out[j][2] <= r[1]
    <3> SUFFICES ASSUME NEW j \in DOMAIN h.out PROVE h.out[j][2] <= h.pos /\ h.out[j][2] <= r[1]
      OBVIOUS
    <3>1. CASE j = n + 1
      BY <3>1, <1>1, <2>2, <2>3
    <3>2. CASE j \in DOMAIN g.out
      BY <3>2, <2>3, <2>5, <1>1, <1>2, <1>4, SMTT(30)
    <3> QED BY <3>1, <3>2, <2>4
  <2>8. \A x \in Nat : InSome(x, h.out) <=> InSome(x, g.out) \/ (g.pos <= x /\ x < r[1])
    <3>1. \A x \in Nat : In(x, h.out[n + 1]) <=> (g.pos <= x /\ x < r[1])
      BY <2>2, <2>3 DEF In
    <3> QED BY <3>1, <2>4, <2>5 DEF InSome
  <2>9. start <= h.pos /\ g.pos <= h.pos
    BY <1>1, <1>4, <2>3
  <2>10. \A x \in Nat : In(x, r) => x < h.pos /\ ~(x < r[1])
    BY <1>1, <2>3 DEF In
  <2>11. \A x \in Nat : x < h.pos /\ ~In(x, r) => x < r[1]
    BY <1>1, <2>3 DEF In
  <2>12. \A x \in Nat : x < r[1] => ~In(x, r) /\ x < h.pos
    BY <1>1, <2>3 DEF In
  <2> QED BY <2>3, <2>6, <2>7, <2>8, <2>9, <2>10, <2>11, <2>12 DEF h
<1>5. CASE ~(r[2] <= g.pos \/ r[1] >= end) /\ ~(r[1] > g.pos)
  <2>1. h = [out |-> g.out, pos |-> r[2]]
    BY <1>1, <1>5 DEF Skip
  <2>2. h \in Gaps /\ h.out = g.out /\ h.pos = r[2] /\ g.pos <= r[2] /\ start <= r[2]
    BY <1>1, <1>5, <2>1 DEF Gaps
  <2>3. \A x \in Nat : In(x, r) => x < r[2]
    BY <1>1 DEF In
  <2>4. \A x \in Nat : g.pos <= x /\ x < r[2] => In(x, r)
    BY <1>1, <1>5 DEF In
  <2>5. \A j \in DOMAIN g.out : g.out[j][2] <= r[2]
    BY <1>1, <1>2, <1>5
  <2> HIDE DEF h
  <2> QED BY <2>2, <2>3, <2>4, <2>5 DEF h
<1> QED BY <1>3, <1>4, <1>5

(* The loop of remaining, turn by turn. *)
GapTurns(g, s, start, end) ==
  /\ g \in [0..Len(s) -> Gaps]
  /\ g[0] = [out |-> <<>>, pos |-> start]
  /\ \A k \in 1..Len(s) : g[k] = Skip(g[k - 1], s[k], end)

LEMMA SkipType ==
  ASSUME NEW g \in Gaps, NEW r \in Pair, NEW end \in Nat
  PROVE  Skip(g, r, end) \in Gaps
<1>1. /\ g.out \in Seq(Pair) /\ g.pos \in Nat /\ r[1] \in Nat /\ r[2] \in Nat
      /\ g = [out |-> g.out, pos |-> g.pos]
  BY DEF Gaps, Pair
<1> DEFINE b == IF r[1] < end THEN r[1] ELSE end
           out == IF r[1] > g.pos THEN Append(g.out, <<g.pos, b>>) ELSE g.out
           pos == IF r[2] > g.pos THEN r[2] ELSE g.pos
<1>2. <<g.pos, b>> \in Pair
  BY <1>1 DEF Pair
<1>3. out \in Seq(Pair) /\ pos \in Nat
  <2> HIDE DEF b
  <2> QED BY <1>1, <1>2
<1>4. Skip(g, r, end) = g \/ Skip(g, r, end) = [out |-> out, pos |-> pos]
  BY DEF Skip
<1> HIDE DEF out, pos
<1> QED BY <1>3, <1>4 DEF Gaps

LEMMA RemainingRuns ==
  ASSUME NEW s \in Seq(Pair), NEW start \in Nat, NEW end \in Nat
  PROVE  \E g : /\ GapTurns(g, s, start, end)
                /\ LET last == g[Len(s)]
                   IN  Remaining(s, start, end) =
                         IF last.pos < end THEN Append(last.out, <<last.pos, end>>) ELSE last.out
<1> DEFINE n == Len(s)
           c == [out |-> <<>>, pos |-> start]
           d == [y \in Gaps \X (1..n) |-> Skip(y[1], s[y[2]], end)]
           Follows(u) == u = [k \in 0..n |-> IF k = 0 THEN [out |-> <<>>, pos |-> start]
                                             ELSE Skip(u[k - 1], s[k], end)]
           g == CHOOSE u : Follows(u)
<1>1. n \in Nat /\ c \in Gaps
  BY DEF Gaps
<1>2. \A k \in 1..n : s[k] \in Pair
  OBVIOUS
<1>3. d \in [Gaps \X (1..n) -> Gaps]
  <2> SUFFICES ASSUME NEW y \in Gaps \X (1..n) PROVE Skip(y[1], s[y[2]], end) \in Gaps
    OBVIOUS
  <2>1. y[1] \in Gaps /\ y[2] \in 1..n
    OBVIOUS
  <2> QED BY <2>1, <1>2, SkipType
<1>4. PICK u : IsLoop(u, n, Gaps, c, d)
  <2> HIDE DEF d, c, n
  <2> QED BY <1>1, <1>3, LoopExists
<1>5. u \in [0..n -> Gaps] /\ u = [k \in 0..n |-> IF k = 0 THEN c ELSE d[<<u[k - 1], k>>]]
  BY <1>4 DEF IsLoop
<1>6. Follows(u)
  <2>1. ASSUME NEW k \in 0..n, k # 0
        PROVE  d[<<u[k - 1], k>>] = Skip(u[k - 1], s[k], end)
    <3>1. k - 1 \in 0..n /\ k \in 1..n
      BY <2>1, <1>1
    <3>2. <<u[k - 1], k>> \in Gaps \X (1..n)
      BY <3>1, <1>5
    <3> QED BY <3>2
  <2> HIDE DEF d
  <2> QED BY <1>5, <2>1
<1>7. Follows(g)
  <2> HIDE DEF Follows
  <2> QED BY <1>6
<1>8. LET last == g[n]
      IN  Remaining(s, start, end) =
            IF last.pos < end THEN Append(last.out, <<last.pos, end>>) ELSE last.out
  BY DEF Remaining
<1> HIDE DEF g
<1>9. g[0] = c /\ DOMAIN g = 0..n
  BY <1>7, <1>1
<1>10. \A k \in 1..n : g[k] = Skip(g[k - 1], s[k], end)
  BY <1>7, <1>1
<1>11. \A k \in 0..n : g[k] \in Gaps
  <2> DEFINE S == {k \in 0..n : g[k] \in Gaps}
  <2>1. 0 \in S
    BY <1>1, <1>9
  <2>2. ASSUME NEW k \in 0..(n - 1), k \in S PROVE k + 1 \in S
    <3>1. k + 1 \in 1..n /\ (k + 1) - 1 = k /\ g[k] \in Gaps
      BY <2>2, <1>1
    <3>2. g[k + 1] = Skip(g[k], s[k + 1], end)
      BY <3>1, <1>10
    <3>3. g[k + 1] \in Gaps
      BY <3>1, <3>2, <1>2, SkipType
    <3> QED BY <3>1, <3>3
  <2>3. 0..n \subseteq S
    <3> HIDE DEF S, n
    <3> QED BY <1>1, <2>1, <2>2, UpTo
  <2> QED BY <2>3
<1>12. GapTurns(g, s, start, end)
  <2>1. g = [k \in 0..n |-> g[k]]
    BY <1>7
  <2>2. g \in [0..n -> Gaps]
    BY <2>1, <1>11
  <2> QED BY <2>2, <1>9, <1>10 DEF GapTurns
<1> QED BY <1>8, <1>12

(* What is left of start to end is what the ranges do not cover of it, in  *)
(* gaps that lie apart.                                                    *)
LEMMA RemainingIsTheRest ==
  ASSUME NEW s \in Seq(Pair), NEW start \in Nat, NEW end \in Nat, start <= end,
         Ordered(s), Upright(s)
  PROVE  LET rest == Remaining(s, start, end)
         IN  /\ rest \in Seq(Pair)
             /\ GapsWithin(rest, start, end)
             /\ \A x \in Nat : start <= x /\ x < end => (InSome(x, rest) <=> ~InSome(x, s))
<1> DEFINE n == Len(s)
<1>1. n \in Nat /\ DOMAIN s = 1..n
      /\ \A k \in 1..n : s[k] \in Pair /\ s[k][1] \in Nat /\ s[k][2] \in Nat /\ s[k][1] <= s[k][2]
  BY DEF Pair, Upright
<1>2. PICK g : /\ GapTurns(g, s, start, end)
               /\ LET last == g[n]
                  IN  Remaining(s, start, end) =
                        IF last.pos < end THEN Append(last.out, <<last.pos, end>>) ELSE last.out
  BY RemainingRuns
<1> DEFINE First(x, k) == \E i \in 1..k : In(x, s[i])
           Good(k) == /\ start <= g[k].pos
                      /\ GapsWithin(g[k].out, start, end)
                      /\ \A j \in DOMAIN g[k].out :
                           /\ g[k].out[j][2] <= g[k].pos
                           /\ \A i \in (k + 1)..n : g[k].out[j][2] <= s[i][1]
                      /\ \A x \in Nat : start <= x /\ x < end =>
                           IF x < g[k].pos THEN InSome(x, g[k].out) <=> ~First(x, k)
                                           ELSE ~InSome(x, g[k].out) /\ ~First(x, k)
           S == {k \in 0..n : Good(k)}
<1>3. /\ \A k \in 0..n : g[k] \in Gaps /\ g[k].out \in Seq(Pair) /\ g[k].pos \in Nat
      /\ g[0] = [out |-> <<>>, pos |-> start]
      /\ \A k \in 1..n : g[k] = Skip(g[k - 1], s[k], end)
  BY <1>2 DEF GapTurns, Gaps
<1>4. 0 \in S
  <2>1. g[0].pos = start /\ g[0].out = <<>> /\ DOMAIN g[0].out = {}
    BY <1>3
  <2>2. \A x \in Nat : ~InSome(x, g[0].out) /\ ~First(x, 0)
    BY <2>1 DEF InSome
  <2>3. GapsWithin(g[0].out, start, end)
    BY <2>1 DEF GapsWithin
  <2>4. \A x \in Nat : start <= x => ~(x < g[0].pos)
    BY <2>1
  <2> HIDE DEF First
  <2>5. Good(0)
    BY <2>1, <2>2, <2>3, <2>4
  <2> QED BY <2>5, <1>1
<1>5. ASSUME NEW k \in 0..(n - 1), k \in S PROVE k + 1 \in S
  <2>1. k \in 0..n /\ k \in Nat /\ k + 1 \in 1..n /\ (k + 1) - 1 = k /\ k + 1 \in 0..n /\ Good(k)
    BY <1>1, <1>5
  <2> DEFINE r == s[k + 1]
             h == g[k + 1]
             o == g[k]
  <2>2. o \in Gaps /\ o.out \in Seq(Pair) /\ o.pos \in Nat /\ h = Skip(o, r, end)
    BY <1>3, <2>1
  <2>3. r \in Pair /\ r[1] \in Nat /\ r[2] \in Nat /\ r[1] <= r[2]
    BY <1>1, <2>1
  <2>4. /\ start <= o.pos /\ GapsWithin(o.out, start, end)
        /\ \A j \in DOMAIN o.out : o.out[j][2] <= o.pos /\ o.out[j][2] <= r[1]
    <3>1. k + 1 \in (k + 1)..n
      BY <2>1
    <3> HIDE DEF First
    <3> QED BY <2>1, <3>1
  <2>5. /\ h \in Gaps /\ start <= h.pos
        /\ GapsWithin(h.out, start, end)
        /\ \A j \in DOMAIN h.out : h.out[j][2] <= h.pos /\ h.out[j][2] <= r[1]
        /\ o.pos <= h.pos
        /\ \A x \in Nat : InSome(x, o.out) => InSome(x, h.out)
        /\ \A x \in Nat : x < end /\ In(x, r) => x < h.pos /\ (InSome(x, h.out) => InSome(x, o.out))
        /\ \A x \in Nat : x < end /\ o.pos <= x /\ x < h.pos /\ ~In(x, r) => InSome(x, h.out)
        /\ \A x \in Nat : InSome(x, h.out) => InSome(x, o.out) \/ (o.pos <= x /\ x < h.pos /\ ~In(x, r))
    <3> HIDE DEF r, o, h
    <3> QED BY <2>2, <2>3, <2>4, SkipKeeps
  <2>6. ASSUME NEW j \in DOMAIN h.out, NEW i \in (k + 2)..n PROVE h.out[j][2] <= s[i][1]
    <3>1. i \in DOMAIN s /\ k + 1 \in DOMAIN s /\ k + 1 <= i
      BY <1>1, <2>1
    <3>2. r[1] <= s[i][1]
      BY <3>1 DEF Ordered
    <3>3. h.out[j] \in Pair
      BY <2>5 DEF Gaps
    <3>4. h.out[j][2] \in Nat /\ s[i][1] \in Nat
      BY <3>3, <3>1, <1>1 DEF Pair
    <3> HIDE DEF r, h
    <3> QED BY SMTT(30), <2>3, <2>5, <3>2, <3>4
  <2>7. \A x \in Nat : First(x, k + 1) <=> First(x, k) \/ In(x, r)
    <3> HIDE DEF r
    <3>1. \A i \in 1..(k + 1) : i = k + 1 \/ i \in 1..k
      BY <2>1
    <3>2. k + 1 \in 1..(k + 1) /\ \A i \in 1..k : i \in 1..(k + 1)
      BY <2>1
    <3> QED BY <3>1, <3>2 DEF r
  <2>8. \A x \in Nat : InSome(x, o.out) => x < r[1]
    <3> SUFFICES ASSUME NEW x \in Nat, NEW j \in DOMAIN o.out, In(x, o.out[j]) PROVE x < r[1]
      BY DEF InSome
    <3>1. o.out[j] \in Pair
      BY <2>2
    <3>2. o.out[j][2] \in Nat
      BY <3>1 DEF Pair
    <3> HIDE DEF o, r
    <3> QED BY <2>3, <2>4, <3>2 DEF In
  <2>9. ASSUME NEW x \in Nat, start <= x, x < end
        PROVE  IF x < h.pos THEN InSome(x, h.out) <=> ~First(x, k + 1)
                            ELSE ~InSome(x, h.out) /\ ~First(x, k + 1)
    <3>1. IF x < o.pos THEN InSome(x, o.out) <=> ~First(x, k) ELSE ~InSome(x, o.out) /\ ~First(x, k)
      <4> HIDE DEF First
      <4> QED BY <2>1, <2>9
    <3>2. InSome(x, o.out) => ~In(x, r)
      BY <2>8, <2>3 DEF In
    <3>3. h.pos \in Nat /\ o.pos \in Nat
      BY <2>2, <2>5 DEF Gaps
    <3> HIDE DEF First, r, o, h
    <3>4. CASE x < o.pos
      <4>1. x < h.pos /\ (InSome(x, h.out) <=> InSome(x, o.out))
        BY <3>4, <3>3, <2>5
      <4> QED BY <3>1, <3>2, <3>4, <4>1, <2>7
    <3>5. CASE ~(x < o.pos) /\ x < h.pos
      <4>1. InSome(x, h.out) <=> ~In(x, r)
        BY <3>1, <3>3, <3>5, <2>5, <2>9
      <4> QED BY <3>1, <3>5, <4>1, <2>7
    <3>6. CASE ~(x < o.pos) /\ ~(x < h.pos)
      <4>1. ~In(x, r) /\ ~InSome(x, h.out)
        BY <3>1, <3>6, <2>5, <2>9
      <4> QED BY <3>1, <3>6, <4>1, <2>7
    <3> QED BY <3>4, <3>5, <3>6
  <2>10. Good(k + 1)
    <3>1. (k + 1) + 1 = k + 2
      BY <2>1
    <3> HIDE DEF First
    <3> QED BY <3>1, <2>5, <2>6, <2>9
  <2> HIDE DEF Good
  <2> QED BY <2>1, <2>10
<1>6. n \in S
  <2>1. 0..n \subseteq S
    <3> HIDE DEF S, n
    <3> QED BY <1>1, <1>4, <1>5, UpTo
  <2> QED BY <1>1, <2>1
<1>7. Good(n)
  BY <1>6
<1>8. \A x \in Nat : First(x, n) <=> InSome(x, s)
  BY <1>1 DEF InSome
<1> DEFINE last == g[n]
           m == Len(last.out)
           rest == Remaining(s, start, end)
<1>9. last \in Gaps /\ last.out \in Seq(Pair) /\ last.pos \in Nat
  BY <1>1, <1>3
<1>10. CASE ~(last.pos < end)
  <2>1. rest = last.out
    BY <1>2, <1>10
  <2>2. \A x \in Nat : x < end => x < last.pos
    BY <1>9, <1>10
  <2>3. \A x \in Nat : start <= x /\ x < end => (InSome(x, last.out) <=> ~InSome(x, s))
    <3> HIDE DEF First
    <3> QED BY <1>7, <1>8, <2>2
  <2> QED BY <1>7, <1>9, <2>1, <2>3
<1>11. CASE last.pos < end
  <2> DEFINE gap == <<last.pos, end>>
  <2>1. rest = Append(last.out, gap)
    BY <1>2, <1>11
  <2>2. gap \in Pair /\ gap[1] = last.pos /\ gap[2] = end
    BY <1>9 DEF Pair
  <2>3. m \in Nat /\ DOMAIN last.out = 1..m /\ \A j \in 1..m : last.out[j] \in Pair
    BY <1>9
  <2>4. /\ rest \in Seq(Pair) /\ DOMAIN rest = 1..(m + 1) /\ rest[m + 1] = gap
        /\ \A j \in 1..m : rest[j] = last.out[j]
    <3> HIDE DEF gap, rest, last
    <3> QED BY <2>1, <2>2, <2>3, <1>9
  <2>5. \A j \in DOMAIN rest : j = m + 1 \/ j \in DOMAIN last.out
    BY <2>3, <2>4
  <2>6. m + 1 \in DOMAIN rest /\ \A j \in DOMAIN last.out : j \in DOMAIN rest /\ rest[j] = last.out[j]
    BY <2>3, <2>4
  <2>7. /\ start <= last.pos /\ GapsWithin(last.out, start, end)
        /\ \A j \in DOMAIN last.out : last.out[j][2] <= last.pos
        /\ \A x \in Nat : start <= x /\ x < end =>
             IF x < last.pos THEN InSome(x, last.out) <=> ~InSome(x, s)
                             ELSE ~InSome(x, last.out) /\ ~InSome(x, s)
    <3> HIDE DEF First
    <3> QED BY <1>7, <1>8
  <2> HIDE DEF gap, rest, last, m
  <2>8. GapsWithin(rest, start, end)
    <3>1. ASSUME NEW j \in DOMAIN rest
          PROVE  start <= rest[j][1] /\ rest[j][1] < rest[j][2] /\ rest[j][2] <= end
      <4>1. CASE j = m + 1
        BY <4>1, <1>9, <1>11, <2>2, <2>4, <2>7
      <4>2. CASE j \in DOMAIN last.out
        BY <4>2, <2>6, <2>7 DEF GapsWithin
      <4> QED BY <4>1, <4>2, <2>5
    <3>2. ASSUME NEW j \in DOMAIN rest, NEW i \in DOMAIN rest, j < i
          PROVE  rest[j][2] <= rest[i][1]
      <4>1. j \in DOMAIN last.out
        BY <2>3, <2>4, <3>2
      <4>2. CASE i = m + 1
        BY <4>1, <4>2, <2>2, <2>4, <2>6, <2>7
      <4>3. CASE i \in DOMAIN last.out
        BY <4>1, <4>3, <2>6, <2>7, <3>2 DEF GapsWithin
      <4> QED BY <4>2, <4>3, <2>5
    <3> QED BY <3>1, <3>2 DEF GapsWithin
  <2>9. \A x \in Nat : InSome(x, rest) <=> InSome(x, last.out) \/ (last.pos <= x /\ x < end)
    <3>1. \A x \in Nat : In(x, rest[m + 1]) <=> last.pos <= x /\ x < end
      BY <2>2, <2>4 DEF In
    <3> QED BY <3>1, <2>5, <2>6 DEF InSome
  <2>10. \A x \in Nat : start <= x /\ x < end => (InSome(x, rest) <=> ~InSome(x, s))
    BY <2>7, <2>9, <1>9
  <2> QED BY <2>4, <2>8, <2>10 DEF rest
<1> QED BY <1>10, <1>11

-----------------------------------------------------------------------------
(* Cutting what is left into pieces. *)

LEMMA TimesIsMonotone ==
  ASSUME NEW i \in Nat, NEW j \in Nat, NEW t \in Nat, i <= j
  PROVE  i * t <= j * t
<1>1. j - i \in Nat /\ (j - i) * t \in Nat
  OBVIOUS
<1>2. j * t = i * t + (j - i) * t
  OBVIOUS
<1>3. i * t \in Nat /\ j * t \in Nat
  OBVIOUS
<1> QED BY <1>1, <1>2, <1>3

(* Every number lies between a multiple of t and the next. *)
LEMMA BetweenMultiples ==
  ASSUME NEW t \in Nat \ {0}, NEW y \in Nat
  PROVE  \E k \in 0..y : k * t <= y /\ y < (k + 1) * t
<1> DEFINE S == {z \in Nat : \E k \in 0..z : k * t <= z /\ z < (k + 1) * t}
<1>1. 0 \in S
  OBVIOUS
<1>2. ASSUME NEW z \in Nat, z \in S PROVE z + 1 \in S
  <2>1. PICK k \in 0..z : k * t <= z /\ z < (k + 1) * t
    BY <1>2
  <2>2. k \in Nat /\ k * t \in Nat /\ (k + 1) * t = k * t + t /\ (k + 2) * t = k * t + t + t
    OBVIOUS
  <2>3. CASE z + 1 < (k + 1) * t
    <3>1. k \in 0..(z + 1) /\ k * t <= z + 1
      BY <2>1, <2>2
    <3> QED BY <3>1, <2>3
  <2>4. CASE ~(z + 1 < (k + 1) * t)
    <3>1. z + 1 = k * t + t
      BY <2>1, <2>2, <2>4
    <3>2. (k + 1) * t <= z + 1 /\ z + 1 < ((k + 1) + 1) * t
      BY <2>2, <3>1
    <3>3. k + 1 \in 0..(z + 1)
      OBVIOUS
    <3> DEFINE j == k + 1
    <3>4. j \in 0..(z + 1) /\ j * t <= z + 1 /\ z + 1 < (j + 1) * t
      BY <3>2, <3>3
    <3> HIDE DEF j
    <3>5. \E i \in 0..(z + 1) : i * t <= z + 1 /\ z + 1 < (i + 1) * t
      BY <3>4
    <3> QED BY <3>5
  <2> QED BY <2>3, <2>4
<1>3. Nat \subseteq S
  <2> HIDE DEF S
  <2> QED BY <1>1, <1>2, ForAllNat
<1> QED BY <1>3

(* Pieces of a range divide its bytes among them. *)
LEMMA PiecesDivide ==
  ASSUME NEW r \in Pair, NEW t \in Nat \ {0}, Size \in Nat, r[1] < r[2], r[2] <= Size
  PROVE  /\ Pieces(r, t) \subseteq Pair
         /\ \A p \in Pieces(r, t) : r[1] <= p[1] /\ p[1] < p[2] /\ p[2] <= r[2]
         /\ \A p, q \in Pieces(r, t) : p # q => p[2] <= q[1] \/ q[2] <= p[1]
         /\ \A x \in Nat : In(x, r) => \E p \in Pieces(r, t) : In(x, p)
<1> DEFINE at(k) == r[1] + k * t
           stop(k) == IF r[1] + (k + 1) * t < r[2] THEN r[1] + (k + 1) * t ELSE r[2]
           Ks == {k \in 0..Size : r[1] + k * t < r[2]}
<1>1. r[1] \in Nat /\ r[2] \in Nat
  BY DEF Pair
<1>2. Pieces(r, t) = {<<at(k), stop(k)>> : k \in Ks}
  BY DEF Pieces
<1>3. ASSUME NEW k \in Ks
      PROVE  /\ k \in Nat /\ at(k) \in Nat /\ stop(k) \in Nat
             /\ r[1] <= at(k) /\ at(k) < stop(k) /\ stop(k) <= r[2]
  <2>1. k \in Nat /\ k * t \in Nat /\ (k + 1) * t = k * t + t /\ r[1] + k * t < r[2]
    OBVIOUS
  <2> QED BY <2>1, <1>1
<1>4. ASSUME NEW j \in Ks, NEW k \in Ks, j < k PROVE stop(j) <= at(k)
  <2>1. j \in Nat /\ k \in Nat /\ j + 1 <= k /\ (j + 1) * t \in Nat /\ k * t \in Nat
    BY <1>4
  <2>2. (j + 1) * t <= k * t
    BY <2>1, TimesIsMonotone
  <2> QED BY <2>1, <2>2, <1>1
<1>5. ASSUME NEW x \in Nat, In(x, r) PROVE \E k \in Ks : at(k) <= x /\ x < stop(k)
  <2>1. x - r[1] \in Nat /\ x < r[2] /\ r[1] <= x
    BY <1>1, <1>5 DEF In
  <2>2. PICK k \in 0..(x - r[1]) : k * t <= x - r[1] /\ x - r[1] < (k + 1) * t
    BY <2>1, BetweenMultiples
  <2>3. k \in Nat /\ k * t \in Nat /\ (k + 1) * t \in Nat
    OBVIOUS
  <2>4. k \in 0..Size
    BY <2>1, <2>2, <1>1
  <2>5. r[1] + k * t <= x /\ x < r[1] + (k + 1) * t
    BY <2>1, <2>2, <2>3, <1>1
  <2>6. k \in Ks
    BY <2>1, <2>3, <2>4, <2>5, <1>1
  <2>7. at(k) <= x /\ x < stop(k)
    BY <2>1, <2>5
  <2> QED BY <2>6, <2>7
<1> HIDE DEF at, stop, Ks
<1>6. Pieces(r, t) \subseteq Pair
  BY <1>2, <1>3 DEF Pair
<1>7. \A p \in Pieces(r, t) : r[1] <= p[1] /\ p[1] < p[2] /\ p[2] <= r[2]
  BY <1>2, <1>3
<1>8. ASSUME NEW p \in Pieces(r, t), NEW q \in Pieces(r, t), p # q
      PROVE  p[2] <= q[1] \/ q[2] <= p[1]
  <2>1. PICK j \in Ks : p = <<at(j), stop(j)>>
    BY <1>2
  <2>2. PICK k \in Ks : q = <<at(k), stop(k)>>
    BY <1>2
  <2>3. j < k \/ k < j
    <3>1. j # k
      BY <2>1, <2>2, <1>8
    <3> QED BY <3>1, <1>3
  <2> QED BY <2>1, <2>2, <2>3, <1>4
<1>9. ASSUME NEW x \in Nat, In(x, r) PROVE \E p \in Pieces(r, t) : In(x, p)
  <2>1. PICK k \in Ks : at(k) <= x /\ x < stop(k)
    BY <1>5, <1>9
  <2>2. <<at(k), stop(k)>> \in Pieces(r, t)
    BY <1>2
  <2> QED BY <2>1, <2>2 DEF In
<1> QED BY <1>6, <1>7, <1>8, <1>9

(* Planned ranges lie apart and are not empty; a byte is in one of them if *)
(* and only if it is not done.                                             *)
Exact(p, s) ==
  /\ p \subseteq Pair
  /\ \A r \in p : r[1] < r[2] /\ r[2] <= Size
  /\ \A q, r \in p : q # r => q[2] <= r[1] \/ r[2] <= q[1]
  /\ \A x \in 0..(Size - 1) : (\E r \in p : In(x, r)) <=> ~InSome(x, s)

LEMMA PlanIsTheRest ==
  ASSUME world \in Worlds, NEW s \in Seq(Pair), Ordered(s), Upright(s)
  PROVE  Exact(PlanRanges(s, 0, Size), s)
<1> DEFINE rest == Remaining(s, 0, Size)
           t == Target(0, Size)
<1>1. Size \in Nat /\ world.chunk \in Nat \ {0} /\ Jobs \in Nat \ {0}
  BY Zenon, WorldsAssumption, RunsAssumption DEF Size
<1>2. t \in Nat \ {0}
  <2>1. Jobs * 4 \in Nat \ {0}
    BY <1>1
  <2>2. (Size - 0) \div (Jobs * 4) \in Int
    BY <1>1, <2>1
  <2> QED BY <1>1, <2>2 DEF Target
<1>3. /\ rest \in Seq(Pair)
      /\ GapsWithin(rest, 0, Size)
      /\ \A x \in Nat : 0 <= x /\ x < Size => (InSome(x, rest) <=> ~InSome(x, s))
  <2>1. 0 \in Nat /\ 0 <= Size
    BY <1>1
  <2> QED BY <1>1, <2>1, RemainingIsTheRest
<1>4. PlanRanges(s, 0, Size) = UNION {Pieces(r, t) : r \in {rest[j] : j \in DOMAIN rest}}
  BY DEF PlanRanges, ToSet
<1> DEFINE P == PlanRanges(s, 0, Size)
<1> HIDE DEF rest, t, P
<1>5. \A p : p \in P <=> \E j \in DOMAIN rest : p \in Pieces(rest[j], t)
  BY <1>4 DEF P
<1>6. ASSUME NEW j \in DOMAIN rest
      PROVE  /\ rest[j] \in Pair /\ rest[j][1] < rest[j][2] /\ rest[j][2] <= Size
             /\ Pieces(rest[j], t) \subseteq Pair
             /\ \A p \in Pieces(rest[j], t) : rest[j][1] <= p[1] /\ p[1] < p[2] /\ p[2] <= rest[j][2]
             /\ \A p, q \in Pieces(rest[j], t) : p # q => p[2] <= q[1] \/ q[2] <= p[1]
             /\ \A x \in Nat : In(x, rest[j]) => \E p \in Pieces(rest[j], t) : In(x, p)
  <2>1. rest[j] \in Pair /\ rest[j][1] < rest[j][2] /\ rest[j][2] <= Size
    BY <1>3 DEF GapsWithin
  <2> QED BY <2>1, <1>1, <1>2, PiecesDivide
<1>7. ASSUME NEW p \in P
      PROVE  \E j \in DOMAIN rest : /\ p \in Pieces(rest[j], t)
                                    /\ rest[j][1] <= p[1] /\ p[1] < p[2] /\ p[2] <= rest[j][2]
                                    /\ p \in Pair /\ rest[j] \in Pair /\ rest[j][2] <= Size
  BY <1>5, <1>6
<1>8. P \subseteq Pair
  BY <1>7
<1>9. ASSUME NEW p \in P PROVE p[1] < p[2] /\ p[2] <= Size
  <2>1. PICK j \in DOMAIN rest : /\ p[1] < p[2] /\ p[2] <= rest[j][2] /\ rest[j][2] <= Size
                                 /\ p \in Pair /\ rest[j] \in Pair
    BY <1>7
  <2>2. p[2] \in Nat /\ rest[j][2] \in Nat
    BY <2>1 DEF Pair
  <2> QED BY <2>1, <2>2, <1>1
<1>10. ASSUME NEW p \in P, NEW q \in P, p # q PROVE p[2] <= q[1] \/ q[2] <= p[1]
  <2>1. PICK j \in DOMAIN rest : /\ p \in Pieces(rest[j], t)
                                 /\ rest[j][1] <= p[1] /\ p[2] <= rest[j][2]
                                 /\ p \in Pair /\ rest[j] \in Pair
    BY <1>7
  <2>2. PICK k \in DOMAIN rest : /\ q \in Pieces(rest[k], t)
                                 /\ rest[k][1] <= q[1] /\ q[2] <= rest[k][2]
                                 /\ q \in Pair /\ rest[k] \in Pair
    BY <1>7
  <2>3. CASE j = k
    BY <2>1, <2>2, <2>3, <1>6, <1>10
  <2>4. CASE j # k
    <3>1. /\ p[1] \in Nat /\ p[2] \in Nat /\ q[1] \in Nat /\ q[2] \in Nat
          /\ rest[j][1] \in Nat /\ rest[j][2] \in Nat /\ rest[k][1] \in Nat /\ rest[k][2] \in Nat
      BY <2>1, <2>2 DEF Pair
    <3>2. j < k \/ k < j
      <4>1. j \in Nat /\ k \in Nat
        BY <1>3
      <4> QED BY <4>1, <2>4
    <3>3. rest[j][2] <= rest[k][1] \/ rest[k][2] <= rest[j][1]
      BY <3>2, <1>3 DEF GapsWithin
    <3> QED BY SMTT(30), <2>1, <2>2, <3>1, <3>3
  <2> QED BY <2>3, <2>4
<1>11. ASSUME NEW x \in 0..(Size - 1) PROVE (\E p \in P : In(x, p)) <=> ~InSome(x, s)
  <2>1. x \in Nat /\ x < Size /\ (InSome(x, rest) <=> ~InSome(x, s))
    BY <1>1, <1>3
  <2>2. ASSUME NEW p \in P, In(x, p) PROVE InSome(x, rest)
    <3>1. PICK j \in DOMAIN rest : /\ rest[j][1] <= p[1] /\ p[2] <= rest[j][2]
                                   /\ p \in Pair /\ rest[j] \in Pair
      BY <1>7
    <3>2. p[1] \in Nat /\ p[2] \in Nat /\ rest[j][1] \in Nat /\ rest[j][2] \in Nat
      BY <3>1 DEF Pair
    <3>3. In(x, rest[j])
      BY <2>1, <2>2, <3>1, <3>2 DEF In
    <3> QED BY <3>3 DEF InSome
  <2>3. ASSUME InSome(x, rest) PROVE \E p \in P : In(x, p)
    <3>1. PICK j \in DOMAIN rest : In(x, rest[j])
      BY <2>3 DEF InSome
    <3>2. PICK p \in Pieces(rest[j], t) : In(x, p)
      BY <2>1, <3>1, <1>6
    <3> QED BY <3>2, <1>5
  <2> QED BY <2>1, <2>2, <2>3
<1>12. Exact(P, s)
  BY <1>8, <1>9, <1>10, <1>11 DEF Exact
<1> QED BY <1>12 DEF P

-----------------------------------------------------------------------------
(* The lines of the file. *)

Values == (UNION {w.sources \cup w.types : w \in Worlds}) \cup Nat \cup Pair \cup {"?", <<>>}

Texts ==
  {l \in [tag : {"source", "size", "types", "done", "other"}, val : Values, eol : BOOLEAN] :
     /\ l.tag = "done" => l.val \in Pair \cup {<<>>}
     /\ l.tag = "size" => l.val \in Nat}

(* A byte that some range line of the file speaks of. *)
InFile(x) == \E k \in DOMAIN lines : IsRange(lines[k]) /\ In(x, lines[k].val)

Step(s, l) == IF IsRange(l) THEN Append(s, l.val) ELSE s

ParseTurns(g) ==
  /\ g \in [0..Len(lines) -> Seq(Pair)]
  /\ g[0] = <<>>
  /\ \A k \in 1..Len(lines) : g[k] = Step(g[k - 1], lines[k])

LEMMA RangesArePairs ==
  ASSUME NEW l \in Texts, IsRange(l)
  PROVE  l.val \in Pair
BY DEF Texts, IsRange

LEMMA ParseRuns ==
  ASSUME lines \in Seq(Texts)
  PROVE  \E g : ParseTurns(g) /\ Parsed = g[Len(lines)]
<1> DEFINE n == Len(lines)
           X == Seq(Pair)
           d == [y \in X \X (1..n) |-> Step(y[1], lines[y[2]])]
           Follows(u) == u = [k \in 0..n |-> IF k = 0 THEN <<>>
                                             ELSE IF IsRange(lines[k]) THEN Append(u[k - 1], lines[k].val) ELSE u[k - 1]]
           g == CHOOSE u : Follows(u)
<1>1. n \in Nat /\ <<>> \in X
  OBVIOUS
<1>2. \A k \in 1..n : lines[k] \in Texts
  OBVIOUS
<1>3. ASSUME NEW s \in X, NEW k \in 1..n PROVE Step(s, lines[k]) \in X
  <2>1. CASE IsRange(lines[k])
    <3>1. lines[k].val \in Pair
      BY <1>2, <2>1, RangesArePairs
    <3> QED BY <2>1, <3>1 DEF Step
  <2>2. CASE ~IsRange(lines[k])
    BY <2>2 DEF Step
  <2> QED BY <2>1, <2>2
<1>4. d \in [X \X (1..n) -> X]
  <2> SUFFICES ASSUME NEW y \in X \X (1..n) PROVE Step(y[1], lines[y[2]]) \in X
    OBVIOUS
  <2>1. y[1] \in X /\ y[2] \in 1..n
    OBVIOUS
  <2> QED BY <2>1, <1>3
<1>5. PICK u : IsLoop(u, n, X, <<>>, d)
  <2> HIDE DEF d, X, n
  <2> QED BY <1>1, <1>4, LoopExists
<1>6. u \in [0..n -> X] /\ u = [k \in 0..n |-> IF k = 0 THEN <<>> ELSE d[<<u[k - 1], k>>]]
  BY <1>5 DEF IsLoop
<1>7. Follows(u)
  <2>1. ASSUME NEW k \in 0..n, k # 0
        PROVE  d[<<u[k - 1], k>>] = IF IsRange(lines[k]) THEN Append(u[k - 1], lines[k].val) ELSE u[k - 1]
    <3>1. k - 1 \in 0..n /\ k \in 1..n
      BY <2>1, <1>1
    <3>2. <<u[k - 1], k>> \in X \X (1..n)
      BY <3>1, <1>6
    <3> QED BY <3>2 DEF Step
  <2> HIDE DEF d
  <2> QED BY <1>6, <2>1
<1>8. Follows(g)
  <2> HIDE DEF Follows
  <2> QED BY <1>7
<1>9. Parsed = g[n]
  BY Zenon DEF Parsed
<1> HIDE DEF g
<1>10. g[0] = <<>> /\ DOMAIN g = 0..n
  BY <1>8, <1>1
<1>11. ASSUME NEW k \in 1..n PROVE g[k] = Step(g[k - 1], lines[k])
  <2>1. k \in 0..n /\ k # 0
    BY <1>1
  <2>2. g[k] = IF k = 0 THEN <<>> ELSE IF IsRange(lines[k]) THEN Append(g[k - 1], lines[k].val) ELSE g[k - 1]
    <3> HIDE DEF n
    <3> QED BY <1>8, <2>1, Zenon
  <2> QED BY <2>1, <2>2, Zenon DEF Step
<1>12. \A k \in 0..n : g[k] \in X
  <2> DEFINE S == {k \in 0..n : g[k] \in X}
  <2>1. 0 \in S
    BY <1>1, <1>10
  <2>2. ASSUME NEW k \in 0..(n - 1), k \in S PROVE k + 1 \in S
    <3>1. k + 1 \in 1..n /\ (k + 1) - 1 = k /\ g[k] \in X
      BY <2>2, <1>1
    <3>2. g[k + 1] = Step(g[k], lines[k + 1])
      BY <3>1, <1>11
    <3>3. g[k + 1] \in X
      BY <3>1, <3>2, <1>3
    <3> QED BY <3>1, <3>3
  <2>3. 0..n \subseteq S
    <3> HIDE DEF S, n
    <3> QED BY <1>1, <2>1, <2>2, UpTo
  <2> QED BY <2>3
<1>13. ParseTurns(g)
  <2>1. g = [k \in 0..n |-> g[k]]
    BY <1>8
  <2>2. g \in [0..n -> X]
    BY <2>1, <1>12
  <2> QED BY <2>2, <1>10, <1>11 DEF ParseTurns
<1> QED BY <1>9, <1>13

(* What is read from the file: its range lines, and nothing else. *)
LEMMA ParsedIsTheRanges ==
  ASSUME lines \in Seq(Texts)
  PROVE  /\ Parsed \in Seq(Pair)
         /\ \A x \in Nat : InSome(x, Parsed) <=> InFile(x)
<1>1. PICK g : ParseTurns(g) /\ Parsed = g[Len(lines)]
  BY ParseRuns
<1> DEFINE n == Len(lines)
<1>2. n \in Nat /\ DOMAIN lines = 1..n /\ \A k \in 1..n : lines[k] \in Texts
  OBVIOUS
<1>3. /\ \A k \in 0..n : g[k] \in Seq(Pair)
      /\ g[0] = <<>>
      /\ \A k \in 1..n : g[k] = Step(g[k - 1], lines[k])
  BY <1>1 DEF ParseTurns
<1> HIDE DEF n
<1> DEFINE Upto(k, x) == \E j \in 1..k : IsRange(lines[j]) /\ In(x, lines[j].val)
           S == {k \in 0..n : \A x \in Nat : InSome(x, g[k]) <=> Upto(k, x)}
<1>4. 0 \in S
  BY <1>2, <1>3 DEF InSome
<1>5. ASSUME NEW k \in 0..(n - 1), k \in S PROVE k + 1 \in S
  <2>1. k + 1 \in 1..n /\ (k + 1) - 1 = k /\ k \in 0..n /\ k \in Nat
    BY <1>2
  <2>2. g[k + 1] = Step(g[k], lines[k + 1]) /\ g[k] \in Seq(Pair) /\ lines[k + 1] \in Texts
    BY <2>1, <1>2, <1>3
  <2>3. \A x \in Nat : InSome(x, g[k]) <=> Upto(k, x)
    BY <1>5
  <2>4. \A j : j \in 1..(k + 1) <=> j \in 1..k \/ j = k + 1
    BY <2>1
  <2>5. CASE IsRange(lines[k + 1])
    <3> DEFINE v == lines[k + 1].val
               m == Len(g[k])
    <3>1. v \in Pair
      BY <2>2, <2>5, RangesArePairs
    <3>2. g[k + 1] = Append(g[k], v)
      BY <2>2, <2>5 DEF Step
    <3> HIDE DEF v
    <3>3. /\ m \in Nat /\ DOMAIN g[k] = 1..m /\ DOMAIN g[k + 1] = 1..(m + 1)
          /\ g[k + 1][m + 1] = v /\ \A j \in 1..m : g[k + 1][j] = g[k][j]
      BY <2>2, <3>1, <3>2
    <3>4. \A j : j \in 1..(m + 1) <=> j \in 1..m \/ j = m + 1
      BY <3>3
    <3> HIDE DEF m
    <3>5. \A x \in Nat : InSome(x, g[k + 1]) <=> InSome(x, g[k]) \/ In(x, v)
      BY <3>3, <3>4 DEF InSome
    <3>6. \A x : Upto(k + 1, x) <=> Upto(k, x) \/ In(x, v)
      BY <2>4, <2>5 DEF v
    <3> QED BY <2>1, <2>3, <3>5, <3>6
  <2>6. CASE ~IsRange(lines[k + 1])
    <3>1. g[k + 1] = g[k]
      BY <2>2, <2>6 DEF Step
    <3>2. \A x : Upto(k + 1, x) <=> Upto(k, x)
      BY <2>4, <2>6
    <3>3. \A x \in Nat : InSome(x, g[k + 1]) <=> Upto(k + 1, x)
      <4> HIDE DEF Upto
      <4> QED BY <2>3, <3>1, <3>2
    <3> QED BY <2>1, <3>3
  <2> QED BY <2>5, <2>6
<1>6. 0..n \subseteq S
  <2> HIDE DEF S
  <2> QED BY <1>2, <1>4, <1>5, UpTo
<1>7. \A x \in Nat : InSome(x, g[n]) <=> Upto(n, x)
  BY <1>6, <1>2
<1>8. \A x \in Nat : InFile(x) <=> Upto(n, x)
  BY <1>2 DEF InFile
<1>9. Parsed = g[n] /\ g[n] \in Seq(Pair)
  BY <1>1, <1>2, <1>3 DEF n
<1> HIDE DEF Upto
<1> QED BY <1>7, <1>8, <1>9

(* What may become of line l: all of it, a part of it, or nothing that is read. *)
Lost(b) == b.tag = "other" \/ b.val = Unparsed(b.tag)

Part(b, l) ==
  \/ Lost(b)
  \/ /\ b.tag = l.tag
     /\ \/ b.val = l.val
        \/ l.tag = "size"
        \/ l.tag = "done" /\ b.val \in Pair /\ b.val[1] = l.val[1] /\ b.val[2] <= l.val[2]

(* A line as the program writes it. *)
Written == {l \in Texts : l.tag = "done" => l.val \in Pair}

LEMMA ValuesHold ==
  Nat \subseteq Values /\ Pair \subseteq Values /\ "?" \in Values /\ <<>> \in Values
<1> DEFINE texts == UNION {w.sources \cup w.types : w \in Worlds}
<1>1. Values = texts \cup Nat \cup Pair \cup {"?", <<>>}
  BY DEF Values
<1> HIDE DEF texts
<1> QED BY <1>1

LEMMA TextOf ==
  ASSUME NEW t \in {"source", "size", "types", "done", "other"}, NEW v \in Values, NEW e \in BOOLEAN,
         t = "done" => v \in Pair \cup {<<>>},
         t = "size" => v \in Nat
  PROVE  [tag |-> t, val |-> v, eol |-> e] \in Texts
BY DEF Texts

LEMMA UnparsedValues ==
  /\ Unparsed("size") = 0
  /\ Unparsed("done") = <<>>
  /\ \A t \in {"source", "types", "other"} : Unparsed(t) = "?"
<1>1. "size" # "done" /\ \A t \in {"source", "types", "other"} : t # "size" /\ t # "done"
  OBVIOUS
<1>2. Unparsed("size") = 0
  BY <1>1 DEF Unparsed
<1>3. Unparsed("done") = <<>>
  BY <1>1 DEF Unparsed
<1>4. ASSUME NEW t \in {"source", "types", "other"} PROVE Unparsed(t) = "?"
  BY <1>1 DEF Unparsed
<1> QED BY <1>2, <1>3, <1>4

LEMMA ConcatIs ==
  ASSUME NEW X, NEW s \in Seq(X), NEW t \in Seq(X)
  PROVE  /\ s \o t \in Seq(X) /\ Len(s \o t) = Len(s) + Len(t)
         /\ \A k \in 1..Len(s) : (s \o t)[k] = s[k]
         /\ \A k \in (Len(s) + 1)..(Len(s) + Len(t)) : (s \o t)[k] = t[k - Len(s)]
OBVIOUS

LEMMA UnparsedIsText ==
  ASSUME NEW l \in Texts, NEW e \in BOOLEAN
  PROVE  /\ [tag |-> l.tag, val |-> Unparsed(l.tag), eol |-> e] \in Texts
         /\ Lost([tag |-> l.tag, val |-> Unparsed(l.tag), eol |-> e])
<1> DEFINE t == l.tag
<1>1. t \in {"source", "size", "types", "done", "other"}
  BY DEF Texts
<1>2. /\ Unparsed(t) \in Values
      /\ t = "done" => Unparsed(t) = <<>>
      /\ t = "size" => Unparsed(t) \in Nat
  <2> HIDE DEF t
  <2>1. CASE t = "size"
    BY <2>1, UnparsedValues, ValuesHold
  <2>2. CASE t = "done"
    BY <2>2, UnparsedValues, ValuesHold
  <2>3. CASE t \in {"source", "types", "other"}
    BY <2>3, UnparsedValues, ValuesHold
  <2> QED BY <1>1, <2>1, <2>2, <2>3
<1>3. [tag |-> t, val |-> Unparsed(t), eol |-> e] \in Texts
  <2> HIDE DEF t
  <2> QED BY <1>1, <1>2, TextOf
<1> QED BY <1>3 DEF Lost

LEMMA BeginningsAreParts ==
  ASSUME NEW l \in Written, NEW b \in Beginnings(l)
  PROVE  b \in Texts /\ Part(b, l)
<1> DEFINE cut(tag, val) == [tag |-> tag, val |-> val, eol |-> FALSE]
<1>1. /\ l \in Texts /\ l.tag \in {"source", "size", "types", "done", "other"} /\ l.val \in Values
      /\ l.tag = "size" => l.val \in Nat
      /\ l.tag = "done" => l.val \in Pair /\ l.val[1] \in Nat /\ l.val[2] \in Nat
  BY DEF Written, Texts, Pair
<1>2. \/ b = cut("other", "?")
      \/ b = cut(l.tag, Unparsed(l.tag))
      \/ b = cut(l.tag, l.val)
      \/ l.tag = "size" /\ \E n \in Truncations(l.val) : b = cut("size", n)
      \/ l.tag = "done" /\ \E n \in Truncations(l.val[2]) : b = cut("done", <<l.val[1], n>>)
  BY DEF Beginnings
<1>3. CASE b = cut("other", "?")
  BY <1>3, ValuesHold, TextOf DEF Part, Lost
<1>4. CASE b = cut(l.tag, Unparsed(l.tag))
  BY <1>1, <1>4, UnparsedIsText DEF Part
<1>5. CASE b = cut(l.tag, l.val)
  BY <1>1, <1>5, TextOf DEF Part
<1>6. CASE l.tag = "size" /\ \E n \in Truncations(l.val) : b = cut("size", n)
  <2>1. PICK n \in Truncations(l.val) : b = cut("size", n)
    BY <1>6
  <2>2. n \in Nat
    BY <1>1, <1>6 DEF Truncations
  <2>3. b \in Texts
    BY <2>1, <2>2, ValuesHold, TextOf
  <2> QED BY <1>6, <2>1, <2>3 DEF Part
<1>7. CASE l.tag = "done" /\ \E n \in Truncations(l.val[2]) : b = cut("done", <<l.val[1], n>>)
  <2>1. PICK n \in Truncations(l.val[2]) : b = cut("done", <<l.val[1], n>>)
    BY <1>7
  <2>2. n \in Nat /\ n <= l.val[2]
    BY <1>1, <1>7 DEF Truncations
  <2>3. <<l.val[1], n>> \in Pair
    BY <1>1, <1>7, <2>2 DEF Pair
  <2>4. b \in Texts
    <3> DEFINE v == <<l.val[1], n>>
    <3>1. v \in Pair /\ v \in Values /\ b = [tag |-> "done", val |-> v, eol |-> FALSE]
      BY <2>1, <2>3, ValuesHold
    <3> HIDE DEF v
    <3> QED BY <3>1, TextOf
  <2> QED BY <1>7, <2>1, <2>2, <2>3, <2>4 DEF Part
<1> QED BY <1>2, <1>3, <1>4, <1>5, <1>6, <1>7

(* A write cut short leaves some of its lines and at most a part of the next. *)
LEMMA CutsAreParts ==
  ASSUME NEW new \in Seq(Written), NEW c \in Cuts(new)
  PROVE  /\ c \in Seq(Texts)
         /\ \A k \in DOMAIN c : \E j \in DOMAIN new : Part(c[k], new[j])
<1> DEFINE m == Len(new)
<1>1. m \in Nat /\ DOMAIN new = 1..m /\ \A j \in 1..m : new[j] \in Written /\ new[j] \in Texts
  BY DEF Written
<1>2. \A j \in 1..m : Part(new[j], new[j])
  BY DEF Part
<1>3. new \in Seq(Texts)
  BY <1>1
<1>4. CASE \E k \in 0..(m - 1) : c = SubSeq(new, 1, k)
  <2>1. PICK k \in 0..(m - 1) : c = SubSeq(new, 1, k)
    BY <1>4
  <2>2. /\ c \in Seq(Texts) /\ DOMAIN c = 1..k
        /\ \A j \in 1..k : c[j] = new[j] /\ j \in 1..m
    BY <2>1, <1>1, <1>3
  <2> QED BY <2>2, <1>1, <1>2
<1>5. CASE \E k \in 1..m : \E b \in Beginnings(new[k]) : c = Append(SubSeq(new, 1, k - 1), b)
  <2>1. PICK k \in 1..m : \E l \in Beginnings(new[k]) : c = Append(SubSeq(new, 1, k - 1), l)
    BY <1>5
  <2>0. PICK b \in Beginnings(new[k]) : c = Append(SubSeq(new, 1, k - 1), b)
    BY <2>1
  <2>2. b \in Texts /\ Part(b, new[k])
    BY <2>1, <1>1, BeginningsAreParts
  <2> DEFINE front == SubSeq(new, 1, k - 1)
  <2>3. /\ front \in Seq(Texts) /\ Len(front) = k - 1
        /\ \A j \in 1..(k - 1) : front[j] = new[j] /\ j \in 1..m
    BY <1>1, <1>3
  <2>4. c = Append(front, b)
    BY <2>0
  <2> HIDE DEF front, m
  <2>5. /\ c \in Seq(Texts) /\ DOMAIN c = 1..k /\ c[k] = b
        /\ \A j \in 1..(k - 1) : c[j] = new[j] /\ j \in 1..m
    BY <2>2, <2>3, <2>4, <1>1
  <2>6. \A j \in 1..k : j = k \/ j \in 1..(k - 1)
    BY <1>1
  <2> QED BY <2>2, <2>5, <2>6, <1>1, <1>2
<1> QED BY <1>4, <1>5 DEF Cuts

(* What is appended to the file leaves it with old lines, new ones and at  *)
(* most one lost; with the old ones and the new ones if the old ones ended. *)
LEMMA AppendToAddsParts ==
  ASSUME NEW old \in Seq(Texts), NEW new \in Seq(Texts)
  PROVE  LET all == AppendTo(old, new)
         IN  /\ all \in Seq(Texts)
             /\ \A k \in DOMAIN all : \/ \E j \in DOMAIN old : all[k] = old[j]
                                      \/ \E j \in DOMAIN new : all[k] = new[j]
                                      \/ Lost(all[k])
             /\ (\A k \in DOMAIN old : old[k].eol) => all = old \o new
<1> DEFINE n == Len(old)
           m == Len(new)
           all == AppendTo(old, new)
<1>1. /\ n \in Nat /\ DOMAIN old = 1..n /\ \A j \in 1..n : old[j] \in Texts
      /\ m \in Nat /\ DOMAIN new = 1..m /\ \A j \in 1..m : new[j] \in Texts
  OBVIOUS
<1>2. CASE old # <<>> /\ new # <<>> /\ ~Last(old).eol
  <2> DEFINE x == Joined(old[n], new[1])
             front == SubSeq(old, 1, n - 1)
             tail == Tail(new)
  <2>1. n \in 1..n /\ 1 \in 1..m /\ old[n] \in Texts /\ new[1].eol \in BOOLEAN
    <3>1. n # 0 /\ m # 0
      BY <1>2
    <3>2. n \in 1..n /\ 1 \in 1..m
      BY <3>1, <1>1
    <3> QED BY <3>2, <1>1 DEF Texts
  <2>2. x \in Texts /\ Lost(x)
    BY <2>1, UnparsedIsText DEF Joined
  <2>4. all = front \o <<x>> \o tail
    <3>1. Last(old) = old[n] /\ Front(old) = front /\ Head(new) = new[1]
      BY <2>1 DEF Last, Front
    <3>2. all = Front(old) \o <<Joined(Last(old), Head(new))>> \o Tail(new)
      BY <1>2, Zenon DEF AppendTo
    <3> HIDE DEF all, front
    <3> QED BY <3>1, <3>2
  <2>5. /\ front \in Seq(Texts) /\ Len(front) = n - 1 /\ \A j \in 1..(n - 1) : front[j] = old[j]
        /\ tail \in Seq(Texts) /\ Len(tail) = m - 1 /\ \A j \in 1..(m - 1) : tail[j] = new[j + 1]
    BY <1>1, <2>1
  <2>6. ~\A k \in DOMAIN old : old[k].eol
    BY <1>1, <1>2, <2>1 DEF Last
  <2> HIDE DEF all, front, tail, x, n, m
  <2>7. /\ all \in Seq(Texts) /\ Len(all) = n + m - 1
        /\ \A k \in 1..(n - 1) : all[k] = old[k]
        /\ all[n] = x
        /\ \A k \in (n + 1)..(n + m - 1) : all[k] = new[(k - n) + 1]
    <3> DEFINE left == front \o <<x>>
    <3>1. /\ left \in Seq(Texts) /\ Len(left) = n /\ left[n] = x
          /\ \A k \in 1..(n - 1) : left[k] = front[k]
      BY <1>1, <2>1, <2>2, <2>5
    <3>2. all = left \o tail
      BY <2>4
    <3> HIDE DEF left
    <3>3. /\ all \in Seq(Texts) /\ Len(all) = n + (m - 1)
          /\ \A k \in 1..n : all[k] = left[k]
          /\ \A k \in (n + 1)..(n + (m - 1)) : all[k] = tail[k - n]
      <4> HIDE DEF all
      <4>1. left \in Seq(Texts) /\ tail \in Seq(Texts)
        BY <2>5, <3>1
      <4>2. /\ left \o tail \in Seq(Texts) /\ Len(left \o tail) = Len(left) + Len(tail)
            /\ \A k \in 1..Len(left) : (left \o tail)[k] = left[k]
            /\ \A k \in (Len(left) + 1)..(Len(left) + Len(tail)) : (left \o tail)[k] = tail[k - Len(left)]
        BY <4>1, ConcatIs
      <4> QED BY <4>2, <2>5, <3>1, <3>2
    <3>4. \A k \in (n + 1)..(n + m - 1) : k - n \in 1..(m - 1)
      BY <1>1
    <3>5. \A k \in (n + 1)..(n + m - 1) : all[k] = new[(k - n) + 1]
      BY <2>5, <3>3, <3>4
    <3>6. n \in 1..n /\ \A k \in 1..(n - 1) : k \in 1..n
      BY <2>1, <1>1
    <3> QED BY <2>5, <3>1, <3>3, <3>5, <3>6, <1>1
  <2>8. ASSUME NEW k \in DOMAIN all
        PROVE  (\E j \in DOMAIN old : all[k] = old[j]) \/ (\E j \in DOMAIN new : all[k] = new[j]) \/ Lost(all[k])
    <3>1. k \in 1..(n - 1) \/ k = n \/ k \in (n + 1)..(n + m - 1)
      BY <1>1, <2>7
    <3>2. CASE k \in 1..(n - 1)
      <4>1. k \in DOMAIN old
        BY <3>2, <1>1
      <4> QED BY <4>1, <3>2, <2>7
    <3>3. CASE k = n
      BY <3>3, <2>2, <2>7
    <3>4. CASE k \in (n + 1)..(n + m - 1)
      <4>1. (k - n) + 1 \in DOMAIN new
        BY <3>4, <1>1
      <4> QED BY <4>1, <3>4, <2>7
    <3> QED BY <3>1, <3>2, <3>3, <3>4
  <2> QED BY <2>6, <2>7, <2>8 DEF all
<1>3. CASE ~(old # <<>> /\ new # <<>> /\ ~Last(old).eol)
  <2>1. all = old \o new
    BY <1>3 DEF AppendTo
  <2>2. /\ all \in Seq(Texts) /\ DOMAIN all = 1..(n + m)
        /\ \A k \in 1..n : all[k] = old[k]
        /\ \A k \in (n + 1)..(n + m) : all[k] = new[k - n]
    <3> HIDE DEF all
    <3> QED BY <1>1, <2>1
  <2>3. ASSUME NEW k \in DOMAIN all
        PROVE  (\E j \in DOMAIN old : all[k] = old[j]) \/ (\E j \in DOMAIN new : all[k] = new[j])
    <3> HIDE DEF all
    <3>1. CASE k \in 1..n
      BY <3>1, <2>2, <1>1
    <3>2. CASE k \in (n + 1)..(n + m)
      <4>1. k - n \in DOMAIN new
        BY <3>2, <1>1
      <4> QED BY <4>1, <3>2, <2>2
    <3> QED BY <3>1, <3>2, <2>2, <1>1
  <2> HIDE DEF all
  <2> QED BY <2>1, <2>2, <2>3 DEF all
<1> QED BY <1>2, <1>3

-----------------------------------------------------------------------------
(* The state: what it is made of, and how the work divides. *)

Typed ==
  /\ world \in Worlds
  /\ exists \in BOOLEAN /\ lines \in Seq(Texts)
  /\ outcome \in {"none", "running", "refused", "aborted", "killed", "finished"}
  /\ fp \in Fingerprints
  /\ done \in Seq(Pair) /\ plan \subseteq Pair
  /\ scanned \in [Fingerprints -> SUBSET (0..(Size - 1))]

(* The ranges done are in order, apart and upright, and what is planned is *)
(* the rest: Canonical and PlanIsExact in a form each step keeps.          *)
PlanInv == Running => Ordered(done) /\ Gapped(done) /\ Upright(done) /\ Exact(plan, done)

LEMMA SizeType ==
  ASSUME world \in Worlds
  PROVE  /\ Size \in Nat
         /\ \A f \in Fingerprints : /\ f = [source |-> f.source, size |-> Size, types |-> f.types]
                                    /\ f.source \in world.sources /\ f.types \in world.types
                                    /\ f.source \notin {"", "?"} /\ f.types \notin {"", "?"}
<1>1. Size \in Nat /\ {"", "?"} \cap (world.sources \cup world.types) = {}
  BY Zenon, WorldsAssumption DEF Size
<1>2. ASSUME NEW f \in Fingerprints
      PROVE  /\ f = [source |-> f.source, size |-> Size, types |-> f.types]
             /\ f.source \in world.sources /\ f.types \in world.types
  BY DEF Fingerprints
<1> QED BY Zenon, <1>1, <1>2

LEMMA EncodeIsWritten ==
  ASSUME world \in Worlds, NEW f \in Fingerprints
  PROVE  /\ Encode(f) \in Seq(Written) /\ Encode(f) \in Seq(Texts)
         /\ DOMAIN Encode(f) = 1..3 /\ Encode(f) # <<>>
         /\ Encode(f)[1] = Line("source", f.source) /\ Encode(f)[2] = Line("size", f.size)
         /\ Encode(f)[3] = Line("types", f.types)
<1>1. f.source \in world.sources /\ f.types \in world.types /\ f.size = Size /\ Size \in Nat
  BY Zenon, SizeType DEF Fingerprints
<1>2. f.source \in Values /\ f.types \in Values /\ f.size \in Values /\ f.size \in Nat
  BY <1>1, ValuesHold DEF Values
<1>3. /\ Line("source", f.source) \in Texts /\ Line("size", f.size) \in Texts /\ Line("types", f.types) \in Texts
  <2>1. "source" # "done" /\ "source" # "size" /\ "size" # "done" /\ "types" # "done" /\ "types" # "size"
    OBVIOUS
  <2> QED BY <1>2, <2>1, TextOf DEF Line
<1>4. /\ Line("source", f.source) \in Written /\ Line("size", f.size) \in Written /\ Line("types", f.types) \in Written
  BY <1>3 DEF Written, Line
<1> HIDE DEF Texts, Written
<1> DEFINE a == Line("source", f.source)
           b == Line("size", f.size)
           c == Line("types", f.types)
<1>5. Encode(f) = <<a, b, c>> /\ a \in Texts /\ b \in Texts /\ c \in Texts /\ a \in Written /\ b \in Written /\ c \in Written
  BY <1>3, <1>4 DEF Encode
<1> HIDE DEF a, b, c
<1> QED BY <1>5 DEF a, b, c

LEMMA RangeIsWritten ==
  ASSUME NEW r \in Pair
  PROVE  /\ <<Line("done", r)>> \in Seq(Written) /\ <<Line("done", r)>> \in Seq(Texts)
         /\ Line("done", r) \in Written /\ Line("done", r) \in Texts
<1>1. r \in Values /\ "done" # "size"
  BY ValuesHold
<1>2. Line("done", r) \in Texts
  BY <1>1, TextOf DEF Line
<1>3. Line("done", r) \in Written
  BY <1>2 DEF Written, Line
<1> DEFINE a == Line("done", r)
<1> HIDE DEF a
<1> QED BY <1>2, <1>3 DEF a

LEMMA OpenWritesText ==
  ASSUME Typed, NEW f \in Fingerprints, NEW res \in BOOLEAN
  PROVE  OpenWrites(f, res) \in Seq(Written) /\ OpenWrites(f, res) \in Seq(Texts)
<1>1. Encode(f) \in Seq(Written) /\ Encode(f) \in Seq(Texts)
  BY EncodeIsWritten DEF Typed
<1>2. OpenWrites(f, res) = Encode(f) \/ OpenWrites(f, res) = <<>>
  BY DEF OpenWrites
<1>3. <<>> \in Seq(Written) /\ <<>> \in Seq(Texts)
  OBVIOUS
<1> HIDE DEF Written, Texts
<1> QED BY <1>1, <1>2, <1>3, Zenon

(* What open makes of what it loads. *)
LEMMA LoadedIsRanges ==
  ASSUME Typed, NEW res \in BOOLEAN
  PROVE  /\ Loaded(res) \in Seq(Pair)
         /\ ~res => Loaded(res) = <<>>
         /\ \A x \in Nat : InSome(x, Loaded(res)) => Loads(res) /\ InFile(x)
<1>1. Parsed \in Seq(Pair) /\ \A x \in Nat : InSome(x, Parsed) <=> InFile(x)
  BY ParsedIsTheRanges DEF Typed
<1>2. \A x : ~InSome(x, <<>>)
  BY DEF InSome
<1>3. CASE Loads(res)
  BY <1>1, <1>3 DEF Loaded, Loads
<1>4. CASE ~Loads(res)
  BY <1>2, <1>4 DEF Loaded
<1> QED BY <1>3, <1>4

LEMMA OpenPlans ==
  ASSUME Typed, NEW f \in Fingerprints, NEW res \in BOOLEAN, Open(f, res)
  PROVE  /\ done' \in Seq(Pair) /\ Ordered(done') /\ Gapped(done')
         /\ \A x \in Nat : InSome(x, done') <=> InSome(x, Loaded(res))
         /\ \/ outcome' = "aborted" /\ plan' = {}
            \/ outcome' = "running" /\ Upright(done') /\ Exact(plan', done')
<1> DEFINE s == Loaded(res)
<1>1. s \in Seq(Pair) /\ (~res => s = <<>>)
  BY LoadedIsRanges
<1>2. done' = Merge(s)
  BY DEF Open
<1>3. \/ outcome' = "aborted" /\ plan' = {}
      \/ /\ ~(res /\ BytesDoneUnderflows(done'))
         /\ outcome' = "running" /\ plan' = PlanRanges(done', 0, Size)
  BY DEF Open
<1> HIDE DEF s
<1>4. /\ done' \in Seq(Pair) /\ Ordered(done') /\ Gapped(done')
      /\ \A x \in Nat : InSome(x, done') <=> InSome(x, s)
      /\ Upright(s) => Upright(done')
  BY <1>1, <1>2, MergeKeeps
<1>5. ASSUME ~(res /\ BytesDoneUnderflows(done')) PROVE Upright(done')
  <2>1. CASE res
    <3>1. \A k \in DOMAIN done' : done'[k] \in Pair /\ ~(done'[k][2] < done'[k][1])
      BY <1>4, <1>5, <2>1 DEF BytesDoneUnderflows
    <3>2. \A k \in DOMAIN done' : done'[k][1] \in Nat /\ done'[k][2] \in Nat /\ ~(done'[k][2] < done'[k][1])
      BY <3>1 DEF Pair
    <3> QED BY <3>2 DEF Upright
  <2>2. CASE ~res
    <3>1. Upright(s)
      BY <1>1, <2>2 DEF Upright
    <3> QED BY <3>1, <1>4
  <2> QED BY <2>1, <2>2
<1>6. ASSUME Upright(done') PROVE Exact(PlanRanges(done', 0, Size), done')
  BY <1>4, <1>6, PlanIsTheRest DEF Typed
<1> QED BY <1>3, <1>4, <1>5, <1>6 DEF s

(* A range completed passes from the plan to what is done. *)
LEMMA InMemoryKeepsPlan ==
  ASSUME Typed, PlanInv, NEW r \in plan, InMemory(r)
  PROVE  /\ done' \in Seq(Pair) /\ Ordered(done') /\ Gapped(done') /\ Upright(done')
         /\ plan' \subseteq Pair /\ Exact(plan', done')
         /\ r \in Pair /\ r[1] < r[2] /\ r[2] <= Size
         /\ \A x \in Nat : InSome(x, done') <=> InSome(x, done) \/ In(x, r)
<1>1. /\ Ordered(done) /\ Gapped(done) /\ Upright(done) /\ Exact(plan, done)
      /\ plan' = plan \ {r} /\ done' = Merge(Append(done, r))
  BY DEF InMemory, PlanInv
<1>2. r \in Pair /\ r[1] < r[2] /\ r[2] <= Size /\ r[1] \in Nat /\ r[2] \in Nat
  BY <1>1 DEF Exact, Pair
<1> DEFINE s == Append(done, r)
           n == Len(done)
<1>3. /\ s \in Seq(Pair) /\ n \in Nat /\ DOMAIN done = 1..n /\ DOMAIN s = 1..(n + 1)
      /\ s[n + 1] = r /\ \A k \in 1..n : s[k] = done[k]
  BY <1>2 DEF Typed
<1>4. \A k : k \in 1..(n + 1) <=> k \in 1..n \/ k = n + 1
  BY <1>3
<1>5. done' = Merge(s)
  BY <1>1
<1> HIDE DEF s, n
<1>6. Upright(s)
  <2> SUFFICES ASSUME NEW k \in 1..(n + 1) PROVE s[k][1] <= s[k][2]
    BY <1>3 DEF Upright
  <2>1. CASE k = n + 1
    BY <2>1, <1>2, <1>3
  <2>2. CASE k \in 1..n
    BY <2>2, <1>1, <1>3 DEF Upright
  <2> QED BY <1>4, <2>1, <2>2
<1>7. \A x : InSome(x, s) <=> InSome(x, done) \/ In(x, r)
  BY <1>3, <1>4 DEF InSome
<1>8. /\ done' \in Seq(Pair) /\ Ordered(done') /\ Gapped(done') /\ Upright(done')
      /\ \A x \in Nat : InSome(x, done') <=> InSome(x, done) \/ In(x, r)
  BY <1>3, <1>5, <1>6, <1>7, MergeKeeps
<1>9. /\ plan' \subseteq Pair
      /\ \A q \in plan' : q \in plan /\ q[1] < q[2] /\ q[2] <= Size
      /\ \A p, q \in plan' : p # q => p[2] <= q[1] \/ q[2] <= p[1]
  BY <1>1 DEF Exact
<1>10. ASSUME NEW x \in 0..(Size - 1)
       PROVE  (\E q \in plan' : In(x, q)) <=> ~InSome(x, done')
  <2>1. x \in Nat
    OBVIOUS
  <2>2. (\E q \in plan : In(x, q)) <=> ~InSome(x, done)
    BY <1>1 DEF Exact
  <2>3. InSome(x, done') <=> InSome(x, done) \/ In(x, r)
    BY <2>1, <1>8
  <2>4. ASSUME NEW q \in plan', In(x, q) PROVE ~In(x, r)
    <3>1. q \in plan /\ q # r /\ q \in Pair
      BY <1>1, <1>9
    <3>2. (q[2] <= r[1] \/ r[2] <= q[1]) /\ q[1] \in Nat /\ q[2] \in Nat
      BY <3>1, <1>1 DEF Exact, Pair
    <3> QED BY <3>2, <2>1, <2>4, <1>2 DEF In
  <2>5. ASSUME NEW q \in plan, In(x, q), ~In(x, r) PROVE q \in plan'
    BY <2>5, <1>1
  <2> QED BY <2>2, <2>3, <2>4, <2>5, <1>9
<1>11. Exact(plan', done')
  BY <1>9, <1>10 DEF Exact
<1> QED BY <1>2, <1>8, <1>9, <1>11

LEMMA TypedInit == Init => Typed /\ PlanInv
<1> SUFFICES ASSUME Init PROVE Typed /\ PlanInv
  OBVIOUS
<1>1. Typed
  <2>1. <<>> \in Seq(Texts) /\ <<>> \in Seq(Pair)
    OBVIOUS
  <2> QED BY <2>1 DEF Init, Typed
<1>2. PlanInv
  BY DEF Init, PlanInv, Running
<1> QED BY <1>1, <1>2

LEMMA TypedStep == Typed /\ PlanInv /\ [Next]_vars => Typed' /\ PlanInv'
<1> SUFFICES ASSUME Typed, PlanInv, [Next]_vars PROVE Typed' /\ PlanInv'
  OBVIOUS
<1> USE DEF Running
<1>1. ASSUME NEW f \in Fingerprints, NEW res \in BOOLEAN, Refuse(f, res)
      PROVE  Typed' /\ PlanInv'
  <2>1. Typed'
    BY <1>1 DEF Typed, Refuse, Attempt, file, Fingerprints, Size
  <2>2. PlanInv'
    BY <1>1 DEF PlanInv, Refuse
  <2> QED BY <2>1, <2>2
<1>2. ASSUME NEW f \in Fingerprints, NEW res \in BOOLEAN, Open(f, res)
      PROVE  Typed' /\ PlanInv'
  <2>1. /\ done' \in Seq(Pair) /\ Ordered(done') /\ Gapped(done')
        /\ \/ outcome' = "aborted" /\ plan' = {}
           \/ outcome' = "running" /\ Upright(done') /\ Exact(plan', done')
    BY <1>2, OpenPlans
  <2>2. /\ world' = world /\ exists' = TRUE /\ fp' = f /\ scanned' = scanned
        /\ lines' = AppendTo(lines, OpenWrites(f, res))
    BY <1>2 DEF Open, Attempt
  <2>3. lines' \in Seq(Texts)
    <3>1. lines \in Seq(Texts) /\ OpenWrites(f, res) \in Seq(Texts)
      BY OpenWritesText DEF Typed
    <3> QED BY <3>1, <2>2, AppendToAddsParts
  <2>4. plan' \subseteq Pair
    BY <2>1 DEF Exact
  <2>5. Typed'
    BY <2>1, <2>2, <2>3, <2>4 DEF Typed, Fingerprints, Size
  <2>6. PlanInv'
    BY <2>1, <2>2 DEF PlanInv, Exact, Size
  <2> QED BY <2>5, <2>6
<1>3. ASSUME NEW f \in Fingerprints, NEW res \in BOOLEAN, TornOpen(f, res)
      PROVE  Typed' /\ PlanInv'
  <2>1. PICK c \in Cuts(OpenWrites(f, res)) : lines' = AppendTo(lines, c)
    BY <1>3 DEF TornOpen
  <2>2. /\ world' = world /\ exists' = TRUE /\ fp' = f /\ scanned' = scanned
        /\ outcome' = "killed" /\ done' = <<>> /\ plan' = {}
    BY <1>3 DEF TornOpen, Attempt
  <2>3. lines' \in Seq(Texts)
    <3>1. lines \in Seq(Texts) /\ OpenWrites(f, res) \in Seq(Written)
      BY OpenWritesText DEF Typed
    <3>2. c \in Seq(Texts)
      BY <3>1, CutsAreParts
    <3> QED BY <3>1, <3>2, <2>1, AppendToAddsParts
  <2>4. Typed'
    BY <2>2, <2>3 DEF Typed, Fingerprints, Size
  <2>5. PlanInv'
    BY <2>2 DEF PlanInv
  <2> QED BY <2>4, <2>5
<1>4. ASSUME NEW r \in plan, Complete(r) \/ ShortComplete(r)
      PROVE  Typed' /\ PlanInv'
  <2>1. InMemory(r) /\ outcome' = outcome /\ r \in Pair
    BY <1>4 DEF Complete, ShortComplete, Typed
  <2>2. /\ done' \in Seq(Pair) /\ Ordered(done') /\ Gapped(done') /\ Upright(done')
        /\ plan' \subseteq Pair /\ Exact(plan', done')
    BY <2>1, InMemoryKeepsPlan
  <2>3. /\ world' = world /\ exists' = exists /\ fp' = fp
        /\ scanned' = [scanned EXCEPT ![fp] = @ \cup Bytes(r)]
    BY <2>1 DEF InMemory
  <2>4. lines' \in Seq(Texts)
    <3>1. lines \in Seq(Texts) /\ <<Line("done", r)>> \in Seq(Written) /\ <<Line("done", r)>> \in Seq(Texts)
      BY <2>1, RangeIsWritten DEF Typed
    <3>2. CASE Complete(r)
      <4>1. lines' = AppendTo(lines, <<Line("done", r)>>)
        BY <3>2 DEF Complete
      <4> QED BY <3>1, <4>1, AppendToAddsParts
    <3>3. CASE ShortComplete(r)
      <4>1. PICK c \in Cuts(<<Line("done", r)>>) : lines' = AppendTo(lines, c)
        BY <3>3 DEF ShortComplete
      <4>2. c \in Seq(Texts)
        BY <3>1, CutsAreParts
      <4> QED BY <3>1, <4>1, <4>2, AppendToAddsParts
    <3> QED BY <1>4, <3>2, <3>3
  <2>5. scanned' \in [Fingerprints -> SUBSET (0..(Size - 1))]
    <3>1. Bytes(r) \subseteq 0..(Size - 1)
      BY DEF Bytes
    <3> QED BY <2>3, <3>1 DEF Typed
  <2>6. Typed'
    BY <2>1, <2>2, <2>3, <2>4, <2>5 DEF Typed, Fingerprints, Size
  <2>7. PlanInv'
    BY <2>2, <2>3 DEF PlanInv, Exact, Size
  <2> QED BY <2>6, <2>7
<1>5. CASE Leave
  <2>1. Typed'
    BY <1>5 DEF Leave, file, Typed, Fingerprints, Size
  <2> QED BY <2>1, <1>5 DEF Leave, PlanInv
<1>6. CASE Finish
  <2>1. Typed'
    <3>1. <<>> \in Seq(Texts)
      OBVIOUS
    <3> QED BY <1>6, <3>1 DEF Finish, Typed, Fingerprints, Size
  <2> QED BY <2>1, <1>6 DEF Finish, PlanInv
<1>7. CASE UNCHANGED vars
  <2>1. Typed'
    BY <1>7 DEF vars, Typed, Fingerprints, Size
  <2> QED BY <2>1, <1>7 DEF vars, PlanInv, Exact, Size
<1> QED BY <1>1, <1>2, <1>3, <1>4, <1>5, <1>6, <1>7 DEF Next

LEMMA TypedHolds == Spec => [](Typed /\ PlanInv)
BY TypedInit, TypedStep, PTL DEF Spec

LEMMA CoveredIs ==
  ASSUME NEW s, NEW x
  PROVE  x \in Covered(s) <=> x \in 0..(Size - 1) /\ InSome(x, s)
BY DEF Covered, Bytes, InSome, In

LEMMA BytesAre ==
  ASSUME NEW r, NEW x
  PROVE  x \in Bytes(r) <=> x \in 0..(Size - 1) /\ In(x, r)
BY DEF Bytes, In

(* The ranges a run has done stay in order and apart, in whatever order    *)
(* the workers complete them and whatever the file it resumed from held.   *)
THEOREM DoneIsCanonical == Spec => []Canonical
<1>1. PlanInv => Canonical
  BY DEF PlanInv, Canonical, Gapped
<1> QED BY <1>1, TypedHolds, PTL

(* What is planned and what is done divide the image, for every list of    *)
(* ranges the file may hold and every size of piece: no byte is left out,  *)
(* and none is scanned twice.                                              *)
THEOREM PlanDivides == Spec => []PlanIsExact
<1>1. Typed /\ PlanInv => PlanIsExact
  <2> SUFFICES ASSUME Typed, Running, Exact(plan, done) PROVE PlanIsExact
    BY DEF PlanInv, PlanIsExact
  <2>1. Size \in Nat
    BY Zenon, SizeType DEF Typed
  <2>2. \A r \in plan : r[1] \in Nat /\ r[2] \in Nat /\ r[1] < r[2] /\ r[2] <= Size
    BY DEF Exact, Pair
  <2>3. ASSUME NEW r \in plan, NEW s \in plan, r # s PROVE Bytes(r) \cap Bytes(s) = {}
    <3>1. r[2] <= s[1] \/ s[2] <= r[1]
      BY <2>3 DEF Exact
    <3> QED BY <2>2, <3>1 DEF Bytes
  <2>4. ASSUME NEW r \in plan PROVE Bytes(r) # {} /\ Bytes(r) \cap Covered(done) = {}
    <3>1. r[1] \in Bytes(r)
      BY <2>1, <2>2 DEF Bytes
    <3>2. ASSUME NEW x \in Bytes(r), x \in Covered(done) PROVE FALSE
      <4>1. x \in 0..(Size - 1) /\ In(x, r) /\ InSome(x, done)
        BY <3>2, BytesAre, CoveredIs
      <4> QED BY <4>1 DEF Exact
    <3> QED BY <3>1, <3>2
  <2>5. ASSUME NEW x \in 0..(Size - 1)
        PROVE  x \in (UNION {Bytes(r) : r \in plan}) \cup Covered(done)
    <3>1. CASE InSome(x, done)
      BY <3>1, CoveredIs
    <3>2. CASE ~InSome(x, done)
      <4>1. PICK r \in plan : In(x, r)
        BY <3>2 DEF Exact
      <4>2. x \in Bytes(r)
        BY <4>1, BytesAre
      <4> QED BY <4>2
    <3> QED BY <3>1, <3>2
  <2>6. \A r : Bytes(r) \subseteq 0..(Size - 1)
    BY DEF Bytes
  <2>7. Covered(done) \subseteq 0..(Size - 1)
    BY CoveredIs
  <2>8. (UNION {Bytes(r) : r \in plan}) \cup Covered(done) = 0..(Size - 1)
    BY <2>5, <2>6, <2>7
  <2> QED BY <2>3, <2>4, <2>8 DEF PlanIsExact
<1> QED BY <1>1, TypedHolds, PTL

-----------------------------------------------------------------------------
(* Whose scan the file is of. *)

(* The last value of a field in a list of lines: Field, of any list. *)
FieldOf(ls, tag, absent) ==
  LET found == {k \in DOMAIN ls : ls[k].tag = tag}
  IN  IF found = {} THEN absent ELSE ls[Max(found)].val

LEMMA GreatestOf ==
  ASSUME NEW ls \in Seq(Texts), NEW T, T \subseteq DOMAIN ls, T # {}
  PROVE  Max(T) \in T /\ \A j \in T : j <= Max(T)
<1>1. DOMAIN ls = 1..Len(ls) /\ Len(ls) \in Int
  OBVIOUS
<1>2. T \subseteq Int /\ \A x \in T : x <= Len(ls)
  BY <1>1
<1>3. \E x \in T : \A y \in T : y <= x
  BY <1>1, <1>2, GreatestElement
<1>4. \E x \in T : \A y \in T : x >= y
  BY <1>2, <1>3
<1>5. Max(T) \in T /\ \A y \in T : Max(T) >= y
  BY <1>4, Zenon DEF Max
<1> QED BY <1>2, <1>5

LEMMA FieldIsLast ==
  ASSUME NEW ls \in Seq(Texts), NEW tag, NEW absent, NEW k \in DOMAIN ls, ls[k].tag = tag,
         \A j \in DOMAIN ls : ls[j].tag = tag => j <= k
  PROVE  FieldOf(ls, tag, absent) = ls[k].val
<1> DEFINE found == {j \in DOMAIN ls : ls[j].tag = tag}
<1>1. k \in found /\ found \subseteq DOMAIN ls /\ found # {} /\ \A j \in found : j <= k /\ j \in Int
  OBVIOUS
<1>2. FieldOf(ls, tag, absent) = ls[Max(found)].val
  BY <1>1 DEF FieldOf
<1> HIDE DEF found
<1>3. Max(found) \in found /\ \A j \in found : j <= Max(found)
  BY <1>1, GreatestOf
<1>4. Max(found) = k
  BY <1>1, <1>3
<1> QED BY <1>2, <1>4

LEMMA FieldIsSome ==
  ASSUME NEW ls \in Seq(Texts), NEW tag, NEW absent
  PROVE  \/ FieldOf(ls, tag, absent) = absent
         \/ \E k \in DOMAIN ls : /\ ls[k].tag = tag /\ FieldOf(ls, tag, absent) = ls[k].val
                                 /\ \A j \in DOMAIN ls : ls[j].tag = tag => j <= k
<1> DEFINE found == {j \in DOMAIN ls : ls[j].tag = tag}
<1>1. CASE found = {}
  BY <1>1 DEF FieldOf
<1>2. CASE found # {}
  <2>1. FieldOf(ls, tag, absent) = ls[Max(found)].val
    BY <1>2 DEF FieldOf
  <2>2. Max(found) \in found /\ \A j \in found : j <= Max(found)
    BY <1>2, GreatestOf
  <2>3. Max(found) \in DOMAIN ls /\ ls[Max(found)].tag = tag /\ \A j \in DOMAIN ls : ls[j].tag = tag => j <= Max(found)
    BY <2>2
  <2> QED BY <2>1, <2>3
<1> QED BY <1>1, <1>2

(* Lines that do not speak of a field leave it. *)
LEMMA FieldIsKept ==
  ASSUME NEW old \in Seq(Texts), NEW new \in Seq(Texts), NEW tag, NEW absent,
         \A k \in DOMAIN new : new[k].tag # tag
  PROVE  FieldOf(old \o new, tag, absent) = FieldOf(old, tag, absent)
<1> DEFINE all == old \o new
           n == Len(old)
           m == Len(new)
<1>1. /\ n \in Nat /\ m \in Nat /\ DOMAIN old = 1..n /\ DOMAIN new = 1..m
      /\ all \in Seq(Texts) /\ DOMAIN all = 1..(n + m)
      /\ \A k \in 1..n : all[k] = old[k]
      /\ \A k \in (n + 1)..(n + m) : all[k] = new[k - n]
  OBVIOUS
<1> HIDE DEF all, n, m
<1>2. \A k \in (n + 1)..(n + m) : k - n \in 1..m
  BY <1>1
<1>3. \A k \in DOMAIN all : all[k].tag = tag <=> k \in DOMAIN old /\ old[k].tag = tag
  <2> SUFFICES ASSUME NEW k \in DOMAIN all PROVE all[k].tag = tag <=> k \in DOMAIN old /\ old[k].tag = tag
    OBVIOUS
  <2>1. CASE k \in 1..n
    BY <2>1, <1>1
  <2>2. CASE k \in (n + 1)..(n + m)
    <3>1. k \notin 1..n
      BY <2>2, <1>1
    <3> QED BY <3>1, <2>2, <1>1, <1>2
  <2>3. k \in 1..n \/ k \in (n + 1)..(n + m)
    BY <1>1
  <2> QED BY <2>1, <2>2, <2>3
<1>4. \A k \in DOMAIN old : k \in DOMAIN all
  BY <1>1
<1>5. {k \in DOMAIN all : all[k].tag = tag} = {k \in DOMAIN old : old[k].tag = tag}
  BY <1>3, <1>4
<1> DEFINE found == {k \in DOMAIN old : old[k].tag = tag}
<1>6. CASE found = {}
  BY <1>5, <1>6 DEF FieldOf, all
<1>7. CASE found # {}
  <2>1. Max(found) \in found
    BY <1>7, GreatestOf
  <2>2. all[Max(found)] = old[Max(found)]
    BY <2>1, <1>1
  <2>3. FieldOf(all, tag, absent) = all[Max(found)].val
    BY <1>5, <1>7 DEF FieldOf
  <2>4. FieldOf(old, tag, absent) = old[Max(found)].val
    BY <1>7 DEF FieldOf
  <2> QED BY <2>2, <2>3, <2>4 DEF all
<1> QED BY <1>6, <1>7

(* Line l may stand in the file of scan o, which has finished the bytes S. *)
Owned(l, o, S) ==
  /\ l.tag = "source" => l.val \in {o.source, "?"}
  /\ l.tag = "types" => l.val \in {o.types, "?"}
  /\ IsRange(l) => \A x \in 0..(Size - 1) : In(x, l.val) => x \in S

Own(o) == \A k \in DOMAIN lines : Owned(lines[k], o, scanned[o])

LEMMA LostIsOwned ==
  ASSUME NEW l \in Texts, Lost(l), NEW o, NEW S
  PROVE  Owned(l, o, S)
<1>1. CASE l.tag = "other"
  BY <1>1 DEF Owned, IsRange
<1>2. CASE l.tag # "other" /\ l.val = Unparsed(l.tag)
  <2>1. l.tag = "done" => l.val = <<>>
    BY <1>2, UnparsedValues
  <2>2. l.tag \in {"source", "types"} => l.val = "?"
    BY <1>2, UnparsedValues
  <2>3. ~IsRange(l)
    BY <2>1 DEF IsRange
  <2> QED BY <2>2, <2>3 DEF Owned
<1> QED BY <1>1, <1>2 DEF Lost

LEMMA PartIsOwned ==
  ASSUME world \in Worlds, NEW l \in Written, NEW b \in Texts, Part(b, l), NEW o, NEW S, Owned(l, o, S)
  PROVE  Owned(b, o, S)
<1>1. CASE Lost(b)
  BY <1>1, LostIsOwned
<1>2. CASE b.tag = l.tag /\ b.val = l.val
  BY <1>2 DEF Owned, IsRange
<1>3. CASE b.tag = l.tag /\ l.tag = "size"
  BY <1>3 DEF Owned, IsRange
<1>4. CASE /\ b.tag = l.tag /\ l.tag = "done"
           /\ b.val \in Pair /\ b.val[1] = l.val[1] /\ b.val[2] <= l.val[2]
  <2>1. l.val \in Pair
    BY <1>4 DEF Written
  <2>2. IsRange(l)
    BY <1>4, <2>1 DEF IsRange, Pair
  <2>3. l.val[1] \in Nat /\ l.val[2] \in Nat /\ b.val[2] \in Nat
    BY <1>4, <2>1 DEF Pair
  <2>4. \A x \in 0..(Size - 1) : In(x, b.val) => In(x, l.val)
    <3>1. \A x \in 0..(Size - 1) : x \in Nat
      <4>1. Size \in Nat
        BY Zenon, SizeType
      <4> QED BY <4>1
    <3>2. b.val[1] = l.val[1] /\ b.val[2] <= l.val[2]
      BY <1>4
    <3> QED BY <3>1, <3>2, <2>3 DEF In
  <2> QED BY <1>4, <2>2, <2>4 DEF Owned
<1> QED BY <1>1, <1>2, <1>3, <1>4 DEF Part

(* Appending lines that scan o may write leaves a file of scan o. *)
LEMMA AppendIsOwned ==
  ASSUME NEW old \in Seq(Texts), NEW new \in Seq(Texts), NEW o, NEW S,
         \A k \in DOMAIN old : Owned(old[k], o, S),
         \A k \in DOMAIN new : Owned(new[k], o, S)
  PROVE  \A k \in DOMAIN AppendTo(old, new) : Owned(AppendTo(old, new)[k], o, S)
<1> DEFINE all == AppendTo(old, new)
<1>1. /\ all \in Seq(Texts)
      /\ \A k \in DOMAIN all : \/ \E j \in DOMAIN old : all[k] = old[j]
                               \/ \E j \in DOMAIN new : all[k] = new[j]
                               \/ Lost(all[k])
  BY AppendToAddsParts
<1> HIDE DEF all
<1>2. ASSUME NEW k \in DOMAIN all PROVE Owned(all[k], o, S)
  <2>1. CASE \E j \in DOMAIN old : all[k] = old[j]
    BY <2>1
  <2>2. CASE \E j \in DOMAIN new : all[k] = new[j]
    BY <2>2
  <2>3. CASE Lost(all[k])
    <3>1. all[k] \in Texts
      BY <1>1
    <3> QED BY <3>1, <2>3, LostIsOwned
  <2> QED BY <1>1, <2>1, <2>2, <2>3
<1> QED BY <1>2 DEF all

LEMMA CutIsOwned ==
  ASSUME world \in Worlds, NEW new \in Seq(Written), NEW c \in Cuts(new), NEW o, NEW S,
         \A k \in DOMAIN new : Owned(new[k], o, S)
  PROVE  c \in Seq(Texts) /\ \A k \in DOMAIN c : Owned(c[k], o, S)
<1>1. c \in Seq(Texts) /\ \A k \in DOMAIN c : \E j \in DOMAIN new : Part(c[k], new[j])
  BY CutsAreParts
<1>2. ASSUME NEW k \in DOMAIN c PROVE Owned(c[k], o, S)
  <2>1. PICK j \in DOMAIN new : Part(c[k], new[j])
    BY <1>1
  <2>2. new[j] \in Written /\ c[k] \in Texts
    BY <1>1
  <2> QED BY <2>1, <2>2, PartIsOwned
<1> QED BY <1>1, <1>2

LEMMA EncodeIsOwned ==
  ASSUME world \in Worlds, NEW f \in Fingerprints, NEW S
  PROVE  \A k \in DOMAIN Encode(f) : Owned(Encode(f)[k], f, S)
<1>1. /\ Owned(Line("source", f.source), f, S) /\ Owned(Line("size", f.size), f, S)
      /\ Owned(Line("types", f.types), f, S)
  BY DEF Owned, Line, IsRange
<1>2. \A k \in 1..3 : k = 1 \/ k = 2 \/ k = 3
  OBVIOUS
<1> QED BY <1>1, <1>2, EncodeIsWritten

LEMMA RangeIsOwned ==
  ASSUME NEW r \in Pair, NEW o, NEW S, Bytes(r) \subseteq S
  PROVE  Owned(Line("done", r), o, S)
BY BytesAre DEF Owned, Line, IsRange

(* A file of scan o that reads as that of scan f is of scan f. *)
LEMMA SeenIsTheOwner ==
  ASSUME Typed, NEW o \in Fingerprints, NEW f \in Fingerprints, Own(o), Seen = f
  PROVE  f = o
<1> DEFINE source == "source"
           types  == "types"
           none   == ""
<1>1. FieldOf(lines, source, none) = f.source /\ FieldOf(lines, types, none) = f.types
  <2>1. f.source = Field(source, none) /\ f.types = Field(types, none)
    BY Zenon DEF Seen
  <2> QED BY Zenon, <2>1 DEF Field, FieldOf
<1>2. f.source \notin {none, "?"} /\ f.types \notin {none, "?"}
  BY Zenon, SizeType DEF Typed
<1>3. lines \in Seq(Texts)
  BY DEF Typed
<1> HIDE DEF source, types, none
<1>4. \A t : FieldOf(lines, t, none) = none
             \/ \E k \in DOMAIN lines : lines[k].tag = t /\ FieldOf(lines, t, none) = lines[k].val
  BY <1>3, FieldIsSome
<1>5. f.source = o.source
  <2>1. PICK k \in DOMAIN lines : lines[k].tag = source /\ f.source = lines[k].val
    BY <1>1, <1>2, <1>4
  <2>2. Owned(lines[k], o, scanned[o])
    BY DEF Own
  <2> QED BY <1>2, <2>1, <2>2 DEF Owned, source
<1>6. f.types = o.types
  <2>1. PICK k \in DOMAIN lines : lines[k].tag = types /\ f.types = lines[k].val
    BY <1>1, <1>2, <1>4
  <2>2. Owned(lines[k], o, scanned[o])
    BY DEF Own
  <2> QED BY <1>2, <2>1, <2>2 DEF Owned, types
<1>7. /\ f = [source |-> f.source, size |-> Size, types |-> f.types]
      /\ o = [source |-> o.source, size |-> Size, types |-> o.types]
  BY Zenon, SizeType DEF Typed
<1> QED BY <1>5, <1>6, <1>7

(* What is read from a file of scan o has been scanned by o. *)
LEMMA InFileWasScanned ==
  ASSUME NEW o, Own(o), NEW x \in 0..(Size - 1), InFile(x)
  PROVE  x \in scanned[o]
BY DEF Own, Owned, InFile

(* Attempts that all resume, or that are all of one scan.  FinishedIsWhole *)
(* and FileTracksMemory are about these: an attempt that starts afresh on  *)
(* the file of another scan puts its fingerprint after that one's ranges.  *)
OneScan == world.freshStarts => \A f, g \in Fingerprints : f = g

(* The file is of one scan, and of the one that is running; that scan has  *)
(* finished what it counts as done.                                        *)
OwnInv ==
  /\ ~exists => lines = <<>>
  /\ Running => exists
  /\ OneScan =>
       /\ \E o \in Fingerprints : Own(o)
       /\ Running => Own(fp) /\ \A x \in 0..(Size - 1) : InSome(x, done) => x \in scanned[fp]
       /\ outcome = "finished" => scanned[fp] = 0..(Size - 1)

LEMMA OwnedGrows ==
  ASSUME NEW l, NEW o, NEW S, NEW T, S \subseteq T, Owned(l, o, S)
  PROVE  Owned(l, o, T)
BY DEF Owned

(* The scan an attempt opens the file for is the one the file is of. *)
LEMMA OpensItsOwn ==
  ASSUME Typed, OwnInv, OneScan, NEW f \in Fingerprints, NEW res \in BOOLEAN,
         Attempt(f, res), ~Refuses(f, res)
  PROVE  Own(f)
<1>1. CASE ~exists
  BY <1>1 DEF OwnInv, Own
<1>2. CASE exists
  <2>1. PICK o \in Fingerprints : Own(o)
    BY DEF OwnInv
  <2>2. CASE res
    <3>1. Seen = f
      BY <1>2, <2>2 DEF Refuses, Loads
    <3> QED BY <2>1, <3>1, SeenIsTheOwner
  <2>3. CASE ~res
    <3>1. world.freshStarts
      BY <1>2, <2>3 DEF Attempt
    <3> QED BY <2>1, <3>1 DEF OneScan
  <2> QED BY <2>2, <2>3
<1> QED BY <1>1, <1>2

LEMMA WorldStays == [Next]_vars => world' = world
BY DEF Next, vars, Refuse, Open, TornOpen, Complete, ShortComplete, InMemory, Leave, Finish

LEMMA ByteType ==
  ASSUME world \in Worlds
  PROVE  /\ 0 \in Nat /\ Size \in Nat /\ 0 <= Size
         /\ \A x \in 0..(Size - 1) : x \in Nat /\ 0 <= x /\ x < Size
<1>1. Size \in Nat
  BY Zenon, SizeType
<1> QED BY <1>1

LEMMA OwnInit == Init => OwnInv
<1> SUFFICES ASSUME Init PROVE OwnInv
  OBVIOUS
<1>1. lines = <<>> /\ fp \in Fingerprints /\ outcome = "none"
  BY DEF Init
<1>2. \A o : Own(o)
  BY <1>1 DEF Own
<1> QED BY <1>1, <1>2 DEF OwnInv, Running

LEMMA OwnStep == Typed /\ PlanInv /\ OwnInv /\ [Next]_vars => OwnInv'
<1> SUFFICES ASSUME Typed, PlanInv, OwnInv, [Next]_vars PROVE OwnInv'
  OBVIOUS
<1> USE DEF Running
<1>0. /\ world' = world /\ Size' = Size /\ Fingerprints' = Fingerprints
      /\ OneScan' <=> OneScan
  <2>1. world' = world
    BY WorldStays
  <2> QED BY <2>1 DEF Size, Fingerprints, OneScan
<1>1. ASSUME NEW o, \A k \in DOMAIN lines' : Owned(lines'[k], o, scanned'[o])
      PROVE  Own(o)'
  BY <1>0, <1>1 DEF Own, Owned
<1>2. ASSUME UNCHANGED <<lines, scanned>>, NEW o, Own(o) PROVE Own(o)'
  <2>1. \A k \in DOMAIN lines' : Owned(lines'[k], o, scanned'[o])
    BY <1>2 DEF Own
  <2> QED BY <2>1, <1>1
<1>3. ASSUME NEW f \in Fingerprints, NEW res \in BOOLEAN, Refuse(f, res)
      PROVE  OwnInv'
  <2>1. UNCHANGED <<lines, scanned, exists>> /\ outcome' = "refused"
    BY <1>3 DEF Refuse, file
  <2> QED BY <2>1, <1>0, <1>2 DEF OwnInv
<1>4. ASSUME NEW f \in Fingerprints, NEW res \in BOOLEAN, Open(f, res)
      PROVE  OwnInv'
  <2>1. /\ exists' = TRUE /\ fp' = f /\ scanned' = scanned
        /\ lines' = AppendTo(lines, OpenWrites(f, res))
        /\ Attempt(f, res) /\ ~Refuses(f, res)
    BY <1>4 DEF Open, Attempt
  <2>2. outcome' # "finished" /\ \A x \in Nat : InSome(x, done') <=> InSome(x, Loaded(res))
    BY <1>4, OpenPlans
  <2>3. ASSUME OneScan
        PROVE  Own(f)' /\ \A x \in 0..(Size - 1) : InSome(x, done') => x \in scanned[f]
    <3>1. Own(f)
      BY <2>1, <2>3, OpensItsOwn
    <3>2. /\ lines \in Seq(Texts) /\ OpenWrites(f, res) \in Seq(Texts)
          /\ \A k \in DOMAIN OpenWrites(f, res) : Owned(OpenWrites(f, res)[k], f, scanned[f])
      BY OpenWritesText, EncodeIsOwned DEF Typed, OpenWrites
    <3>3. \A k \in DOMAIN lines' : Owned(lines'[k], f, scanned[f])
      BY <2>1, <3>1, <3>2, AppendIsOwned DEF Own
    <3>4. Own(f)'
      BY <3>3, <2>1, <1>1
    <3>5. ASSUME NEW x \in 0..(Size - 1), InSome(x, done') PROVE x \in scanned[f]
      <4>1. x \in Nat
        BY ByteType DEF Typed
      <4>2. InFile(x)
        BY <4>1, <3>5, <2>2, LoadedIsRanges
      <4> QED BY <4>2, <3>1, InFileWasScanned
    <3> QED BY <3>4, <3>5
  <2> QED BY <2>1, <2>2, <2>3, <1>0 DEF OwnInv
<1>5. ASSUME NEW f \in Fingerprints, NEW res \in BOOLEAN, TornOpen(f, res)
      PROVE  OwnInv'
  <2>1. /\ exists' = TRUE /\ scanned' = scanned /\ outcome' = "killed"
        /\ Attempt(f, res) /\ ~Refuses(f, res)
    BY <1>5 DEF TornOpen
  <2>2. PICK c \in Cuts(OpenWrites(f, res)) : lines' = AppendTo(lines, c)
    BY <1>5 DEF TornOpen
  <2>3. ASSUME OneScan PROVE Own(f)'
    <3>1. Own(f)
      BY <2>1, <2>3, OpensItsOwn
    <3>2. /\ lines \in Seq(Texts) /\ OpenWrites(f, res) \in Seq(Written)
          /\ \A k \in DOMAIN OpenWrites(f, res) : Owned(OpenWrites(f, res)[k], f, scanned[f])
      BY OpenWritesText, EncodeIsOwned DEF Typed, OpenWrites
    <3>3. c \in Seq(Texts) /\ \A k \in DOMAIN c : Owned(c[k], f, scanned[f])
      BY <3>2, CutIsOwned DEF Typed
    <3>4. \A k \in DOMAIN lines' : Owned(lines'[k], f, scanned[f])
      BY <2>2, <3>1, <3>2, <3>3, AppendIsOwned DEF Own
    <3> QED BY <3>4, <2>1, <1>1
  <2> QED BY <2>1, <2>3, <1>0 DEF OwnInv
<1>6. ASSUME NEW r \in plan, Complete(r) \/ ShortComplete(r)
      PROVE  OwnInv'
  <2>1. InMemory(r) /\ outcome' = outcome /\ Running /\ r \in Pair
    BY <1>6 DEF Complete, ShortComplete, InMemory, Typed
  <2>2. \A x \in Nat : InSome(x, done') <=> InSome(x, done) \/ In(x, r)
    BY <2>1, InMemoryKeepsPlan
  <2> DEFINE S == scanned[fp] \cup Bytes(r)
  <2>3. /\ exists' = exists /\ fp' = fp /\ fp \in Fingerprints
        /\ scanned' = [scanned EXCEPT ![fp] = S]
        /\ scanned'[fp] = S
    BY <2>1 DEF InMemory, Typed
  <2>4. exists
    BY <2>1 DEF OwnInv
  <2>5. ASSUME OneScan
        PROVE  Own(fp)' /\ \A x \in 0..(Size - 1) : InSome(x, done') => x \in S
    <3>1. Own(fp) /\ \A x \in 0..(Size - 1) : InSome(x, done) => x \in scanned[fp]
      BY <2>1, <2>5 DEF OwnInv
    <3>2. \A k \in DOMAIN lines : Owned(lines[k], fp, S)
      BY <3>1, OwnedGrows DEF Own
    <3>3. /\ Owned(Line("done", r), fp, S)
          /\ \A k \in DOMAIN <<Line("done", r)>> : Owned(<<Line("done", r)>>[k], fp, S)
      <4>1. Owned(Line("done", r), fp, S)
        BY <2>1, RangeIsOwned
      <4> QED BY <4>1
    <3>4. lines \in Seq(Texts) /\ <<Line("done", r)>> \in Seq(Written) /\ <<Line("done", r)>> \in Seq(Texts)
      BY <2>1, RangeIsWritten DEF Typed
    <3> HIDE DEF S
    <3>5. \A k \in DOMAIN lines' : Owned(lines'[k], fp, S)
      <4>1. CASE Complete(r)
        <5>1. lines' = AppendTo(lines, <<Line("done", r)>>)
          BY <4>1 DEF Complete
        <5> QED BY <5>1, <3>2, <3>3, <3>4, AppendIsOwned
      <4>2. CASE ShortComplete(r)
        <5>1. PICK c \in Cuts(<<Line("done", r)>>) : lines' = AppendTo(lines, c)
          BY <4>2 DEF ShortComplete
        <5>2. c \in Seq(Texts) /\ \A k \in DOMAIN c : Owned(c[k], fp, S)
          BY <3>3, <3>4, CutIsOwned DEF Typed
        <5> QED BY <5>1, <5>2, <3>2, <3>4, AppendIsOwned
      <4> QED BY <1>6, <4>1, <4>2
    <3>6. Own(fp)'
      <4>1. PICK o \in Fingerprints : o = fp
        BY <2>3
      <4>2. \A k \in DOMAIN lines' : Owned(lines'[k], o, scanned'[o])
        BY <3>5, <2>3, <4>1
      <4>3. Own(o)'
        BY <4>2, <1>1
      <4> QED BY <4>1, <4>3, <2>3
    <3>7. ASSUME NEW x \in 0..(Size - 1), InSome(x, done') PROVE x \in S
      <4>1. x \in Nat
        BY ByteType DEF Typed
      <4>2. InSome(x, done) \/ In(x, r)
        BY <4>1, <3>7, <2>2
      <4> QED BY <4>2, <3>1, BytesAre DEF S
    <3> QED BY <3>6, <3>7
  <2> HIDE DEF S
  <2>6. ASSUME OneScan
        PROVE  /\ \E o \in Fingerprints : Own(o)'
               /\ Own(fp)' /\ \A x \in 0..(Size - 1) : InSome(x, done') => x \in scanned'[fp]
    BY <2>3, <2>5, <2>6
  <2> QED BY <2>1, <2>3, <2>4, <2>6, <1>0 DEF OwnInv
<1>7. CASE Leave
  <2>1. UNCHANGED <<lines, scanned, exists>> /\ outcome' = "killed"
    BY <1>7 DEF Leave, file
  <2> QED BY <2>1, <1>0, <1>2 DEF OwnInv
<1>8. CASE Finish
  <2>1. /\ lines' = <<>> /\ scanned' = scanned /\ fp' = fp /\ outcome' = "finished"
        /\ Running /\ Remaining(done, 0, Size) = <<>> /\ fp \in Fingerprints
    BY <1>8 DEF Finish, Typed
  <2>2. \A o : Own(o)'
    BY <2>1 DEF Own
  <2>3. ASSUME OneScan PROVE scanned[fp] = 0..(Size - 1)
    <3>1. scanned[fp] \subseteq 0..(Size - 1)
      BY DEF Typed
    <3>2. ASSUME NEW x \in 0..(Size - 1) PROVE x \in scanned[fp]
      <4>1. 0 \in Nat /\ Size \in Nat /\ 0 <= Size /\ x \in Nat /\ 0 <= x /\ x < Size
        BY ByteType DEF Typed
      <4>2. Ordered(done) /\ Upright(done) /\ done \in Seq(Pair)
        BY <2>1 DEF PlanInv, Typed
      <4> DEFINE rest == Remaining(done, 0, Size)
      <4>3. \A y \in Nat : 0 <= y /\ y < Size => (InSome(y, rest) <=> ~InSome(y, done))
        BY <4>1, <4>2, RemainingIsTheRest
      <4>4. rest = <<>>
        BY <2>1
      <4> HIDE DEF rest
      <4>5. ~InSome(x, rest)
        BY <4>4 DEF InSome
      <4>6. InSome(x, done)
        BY <4>1, <4>3, <4>5
      <4> QED BY <4>6, <2>1, <2>3 DEF OwnInv
    <3> QED BY <3>1, <3>2
  <2> QED BY <2>1, <2>2, <2>3, <1>0 DEF OwnInv
<1>9. CASE UNCHANGED vars
  <2>1. UNCHANGED <<lines, scanned, exists, outcome, fp, done>>
    BY <1>9 DEF vars
  <2> QED BY <2>1, <1>0, <1>2 DEF OwnInv
<1> QED BY <1>3, <1>4, <1>5, <1>6, <1>7, <1>8, <1>9 DEF Next

LEMMA OwnHolds == Spec => [](Typed /\ PlanInv /\ OwnInv)
<1>1. Init => Typed /\ PlanInv /\ OwnInv
  BY TypedInit, OwnInit
<1>2. Typed /\ PlanInv /\ OwnInv /\ [Next]_vars => (Typed /\ PlanInv /\ OwnInv)'
  BY TypedStep, OwnStep
<1> QED BY <1>1, <1>2, PTL DEF Spec

(* Where every attempt resumes, a run skips only bytes that its own scan   *)
(* has finished, whatever other scans the directory is offered to and      *)
(* wherever the writes of earlier attempts were cut short.                 *)
THEOREM SkipsOnlyItsOwn == Spec => []ResumedSkipsOwn
<1>1. Typed /\ OwnInv => ResumedSkipsOwn
  <2> SUFFICES ASSUME Typed, OwnInv, ~world.freshStarts, Running
               PROVE  Covered(done) \subseteq scanned[fp]
    BY DEF ResumedSkipsOwn, SkippedWasScanned
  <2>1. OneScan
    BY DEF OneScan
  <2>2. \A x \in 0..(Size - 1) : InSome(x, done) => x \in scanned[fp]
    BY <2>1 DEF OwnInv
  <2> QED BY <2>2, CoveredIs
<1> QED BY <1>1, OwnHolds, PTL

(* When a run removes the state file, its scan has been through the image. *)
THEOREM FinishedScanIsWhole == Spec => [](OneScan => FinishedIsWhole)
<1>1. OwnInv => (OneScan => FinishedIsWhole)
  BY DEF OwnInv, FinishedIsWhole
<1> QED BY <1>1, OwnHolds, PTL

-----------------------------------------------------------------------------
(* Where writes are whole, the file keeps up with the run. *)

SeenIn(ls) ==
  [source |-> FieldOf(ls, "source", ""), size |-> FieldOf(ls, "size", 0), types |-> FieldOf(ls, "types", "")]

LEMMA SeenIsSeenIn == Seen = SeenIn(lines)
BY DEF Seen, SeenIn, Field, FieldOf

LEMMA EncodeIsSeen ==
  ASSUME world \in Worlds, NEW f \in Fingerprints, NEW old \in Seq(Texts)
  PROVE  SeenIn(old \o Encode(f)) = f
<1> DEFINE new == Encode(f)
           all == old \o new
           n == Len(old)
           source == "source"
           size == "size"
           types == "types"
<1>1. /\ new \in Seq(Texts) /\ DOMAIN new = 1..3
      /\ new[1].tag = source /\ new[1].val = f.source
      /\ new[2].tag = size /\ new[2].val = f.size
      /\ new[3].tag = types /\ new[3].val = f.types
  <2>1. /\ new \in Seq(Texts) /\ DOMAIN new = 1..3
        /\ new[1] = Line(source, f.source) /\ new[2] = Line(size, f.size) /\ new[3] = Line(types, f.types)
    BY EncodeIsWritten
  <2> HIDE DEF new, source, size, types
  <2> QED BY <2>1 DEF Line
<1>2. source # size /\ source # types /\ size # types
  OBVIOUS
<1> HIDE DEF new
<1>3. Len(new) = 3
  BY <1>1
<1>4. /\ n \in Nat /\ all \in Seq(Texts) /\ DOMAIN all = 1..(n + 3)
      /\ \A k \in (n + 1)..(n + 3) : all[k] = new[k - n]
  <2>1. /\ old \o new \in Seq(Texts) /\ Len(old \o new) = Len(old) + Len(new)
        /\ \A k \in (Len(old) + 1)..(Len(old) + Len(new)) : (old \o new)[k] = new[k - Len(old)]
    BY <1>1, ConcatIs
  <2>2. n \in Nat
    OBVIOUS
  <2> QED BY <2>1, <2>2, <1>3
<1> HIDE DEF all, n, source, size, types
<1>5. all[n + 1] = new[1] /\ all[n + 2] = new[2] /\ all[n + 3] = new[3]
  <2>1. /\ n + 1 \in (n + 1)..(n + 3) /\ n + 2 \in (n + 1)..(n + 3) /\ n + 3 \in (n + 1)..(n + 3)
        /\ (n + 1) - n = 1 /\ (n + 2) - n = 2 /\ (n + 3) - n = 3
    BY <1>4
  <2> QED BY <2>1, <1>4
<1>6. \A k \in DOMAIN all : k \in Nat /\ (k <= n + 1 \/ k = n + 2 \/ k = n + 3)
  BY <1>4
<1>7. n + 1 \in DOMAIN all /\ n + 2 \in DOMAIN all /\ n + 3 \in DOMAIN all
  BY <1>4
<1>8. \A a : FieldOf(all, source, a) = f.source
  <2>1. \A k \in DOMAIN all : all[k].tag = source => k <= n + 1
    BY <1>1, <1>2, <1>5, <1>6
  <2> DEFINE k == n + 1
  <2>2. all \in Seq(Texts) /\ k \in DOMAIN all /\ all[k].tag = source /\ all[k].val = f.source
    BY <1>1, <1>4, <1>5, <1>7
  <2>3. \A j \in DOMAIN all : all[j].tag = source => j <= k
    BY <2>1
  <2> HIDE DEF k
  <2> QED BY ZenonT(40), <2>2, <2>3, FieldIsLast
<1>9. \A a : FieldOf(all, size, a) = f.size
  <2>1. \A k \in DOMAIN all : all[k].tag = size => k <= n + 2
    BY <1>1, <1>2, <1>4, <1>5, <1>6
  <2> DEFINE k == n + 2
  <2>2. all \in Seq(Texts) /\ k \in DOMAIN all /\ all[k].tag = size /\ all[k].val = f.size
    BY <1>1, <1>4, <1>5, <1>7
  <2>3. \A j \in DOMAIN all : all[j].tag = size => j <= k
    BY <2>1
  <2> HIDE DEF k
  <2> QED BY <2>2, <2>3, FieldIsLast
<1>10. \A a : FieldOf(all, types, a) = f.types
  <2>1. \A k \in DOMAIN all : all[k].tag = types => k <= n + 3
    BY <1>4
  <2> DEFINE k == n + 3
  <2>2. all \in Seq(Texts) /\ k \in DOMAIN all /\ all[k].tag = types /\ all[k].val = f.types
    BY <1>1, <1>4, <1>5, <1>7
  <2>3. \A j \in DOMAIN all : all[j].tag = types => j <= k
    BY <2>1
  <2> HIDE DEF k
  <2> QED BY <2>2, <2>3, FieldIsLast
<1>11. f = [source |-> f.source, size |-> f.size, types |-> f.types]
  BY DEF Fingerprints
<1>12. SeenIn(all) = [source |-> f.source, size |-> f.size, types |-> f.types]
  BY Zenon, <1>8, <1>9, <1>10 DEF SeenIn, source, size, types
<1> QED BY <1>11, <1>12 DEF all, new

LEMMA RangeIsNotSeen ==
  ASSUME NEW r \in Pair, NEW old \in Seq(Texts)
  PROVE  SeenIn(old \o <<Line("done", r)>>) = SeenIn(old)
<1> DEFINE new == <<Line("done", r)>>
           source == "source"
           size == "size"
           types == "types"
<1>1. /\ new \in Seq(Texts)
      /\ \A k \in DOMAIN new : new[k].tag # source /\ new[k].tag # size /\ new[k].tag # types
  <2>1. new \in Seq(Texts)
    BY RangeIsWritten
  <2>2. \A k \in DOMAIN new : new[k].tag = "done"
    BY DEF Line
  <2> QED BY <2>1, <2>2
<1> HIDE DEF new, source, size, types
<1>2. \A a : /\ FieldOf(old \o new, source, a) = FieldOf(old, source, a)
             /\ FieldOf(old \o new, size, a) = FieldOf(old, size, a)
             /\ FieldOf(old \o new, types, a) = FieldOf(old, types, a)
  BY <1>1, FieldIsKept
<1> QED BY Zenon, <1>2 DEF SeenIn, source, size, types, new

FileInv ==
  ~world.torn =>
    /\ \A k \in DOMAIN lines : lines[k].eol
    /\ Running => Seen = fp /\ \A x \in 0..(Size - 1) : InSome(x, done) => InFile(x)

(* Whole lines after whole lines. *)
LEMMA WholeLines ==
  ASSUME NEW old \in Seq(Texts), NEW new \in Seq(Texts),
         \A k \in DOMAIN old : old[k].eol, \A k \in DOMAIN new : new[k].eol
  PROVE  /\ AppendTo(old, new) = old \o new
         /\ \A k \in DOMAIN (old \o new) : (old \o new)[k].eol
         /\ \A k \in DOMAIN old : k \in DOMAIN (old \o new) /\ (old \o new)[k] = old[k]
         /\ \A k \in DOMAIN new : Len(old) + k \in DOMAIN (old \o new) /\ (old \o new)[Len(old) + k] = new[k]
<1> DEFINE n == Len(old)
           m == Len(new)
           all == old \o new
<1>1. /\ n \in Nat /\ m \in Nat /\ DOMAIN old = 1..n /\ DOMAIN new = 1..m
      /\ all \in Seq(Texts) /\ DOMAIN all = 1..(n + m)
      /\ \A k \in 1..n : all[k] = old[k]
      /\ \A k \in (n + 1)..(n + m) : all[k] = new[k - n]
  OBVIOUS
<1>2. AppendTo(old, new) = all
  BY AppendToAddsParts
<1> HIDE DEF all, n, m
<1>3. ASSUME NEW k \in DOMAIN all PROVE all[k].eol
  <2>1. CASE k \in 1..n
    BY <2>1, <1>1
  <2>2. CASE k \in (n + 1)..(n + m)
    <3>1. k - n \in 1..m
      BY <2>2, <1>1
    <3> QED BY <3>1, <2>2, <1>1
  <2> QED BY <2>1, <2>2, <1>1
<1>4. \A k \in DOMAIN old : k \in DOMAIN all /\ all[k] = old[k]
  BY <1>1
<1>5. ASSUME NEW k \in DOMAIN new PROVE n + k \in DOMAIN all /\ all[n + k] = new[k]
  <2>1. n + k \in (n + 1)..(n + m) /\ (n + k) - n = k
    BY <1>1
  <2> QED BY <2>1, <1>1
<1> QED BY <1>2, <1>3, <1>4, <1>5 DEF all, n

LEMMA FileInit == Init => FileInv
BY DEF Init, FileInv, Running

LEMMA FileStep == Typed /\ PlanInv /\ OwnInv /\ FileInv /\ [Next]_vars => FileInv'
<1> SUFFICES ASSUME Typed, PlanInv, OwnInv, FileInv, [Next]_vars PROVE FileInv'
  OBVIOUS
<1> USE DEF Running
<1>1. world' = world /\ Size' = Size
  <2>1. world' = world
    BY WorldStays
  <2> QED BY <2>1 DEF Size
<1> SUFFICES ASSUME ~world.torn PROVE FileInv'
  BY <1>1 DEF FileInv
<1>2. /\ lines \in Seq(Texts) /\ world \in Worlds
      /\ \A k \in DOMAIN lines : lines[k].eol
      /\ outcome = "running" => Seen = fp /\ \A x \in 0..(Size - 1) : InSome(x, done) => InFile(x)
  BY DEF FileInv, Typed
<1>3. \A x \in 0..(Size - 1) : x \in Nat
  BY <1>2, ByteType
<1>4. Seen' = SeenIn(lines') /\ Seen = SeenIn(lines)
  BY SeenIsSeenIn DEF Seen, SeenIn, Field, FieldOf
<1>5. \A x : InFile(x)' <=> \E k \in DOMAIN lines' : IsRange(lines'[k]) /\ In(x, lines'[k].val)
  BY DEF InFile
<1>6. ASSUME NEW f \in Fingerprints, NEW res \in BOOLEAN, Refuse(f, res)
      PROVE  FileInv'
  BY <1>2, <1>6 DEF Refuse, file, FileInv
<1>7. ASSUME NEW f \in Fingerprints, NEW res \in BOOLEAN, Open(f, res)
      PROVE  FileInv'
  <2> DEFINE new == OpenWrites(f, res)
  <2>1. lines' = AppendTo(lines, new) /\ fp' = f /\ ~Refuses(f, res)
    BY <1>7 DEF Open, Attempt
  <2>2. \A x \in Nat : InSome(x, done') <=> InSome(x, Loaded(res))
    BY <1>7, OpenPlans
  <2>3. CASE Loaded(res) = <<>>
    <3>1. new = Encode(f)
      BY <2>3 DEF OpenWrites
    <3>2. new \in Seq(Texts) /\ \A k \in DOMAIN new : new[k].eol
      <4>1. \A k \in 1..3 : k = 1 \/ k = 2 \/ k = 3
        OBVIOUS
      <4>2. /\ new \in Seq(Texts) /\ DOMAIN new = 1..3
            /\ new[1] = Line("source", f.source) /\ new[2] = Line("size", f.size) /\ new[3] = Line("types", f.types)
        BY <3>1, <1>2, EncodeIsWritten
      <4>3. \A t, v : Line(t, v).eol
        BY DEF Line
      <4> HIDE DEF new
      <4> QED BY <4>1, <4>2, <4>3
    <3> HIDE DEF new
    <3>3. lines' = lines \o new /\ \A k \in DOMAIN lines' : lines'[k].eol
      BY <2>1, <3>2, <1>2, WholeLines
    <3>4. Seen' = f
      BY <3>1, <3>3, <1>2, <1>4, EncodeIsSeen
    <3>5. \A x \in 0..(Size - 1) : ~InSome(x, done')
      <4>1. \A x : ~InSome(x, <<>>)
        BY DEF InSome
      <4> QED BY <4>1, <2>2, <2>3, <1>3
    <3> QED BY <2>1, <3>3, <3>4, <3>5, <1>1 DEF FileInv
  <2>4. CASE Loaded(res) # <<>>
    <3>1. new = <<>>
      BY <2>4 DEF OpenWrites
    <3>2. new \in Seq(Texts) /\ \A k \in DOMAIN new : new[k].eol
      BY <3>1
    <3>3. AppendTo(lines, new) = lines \o new
      BY <3>2, <1>2, AppendToAddsParts
    <3>4. lines' = lines
      BY <2>1, <3>1, <3>3, <1>2
    <3>5. Seen = f
      BY <2>1, <2>4 DEF Refuses, Loaded
    <3>6. \A x \in 0..(Size - 1) : InSome(x, done') => InFile(x)
      BY <2>2, <1>3, LoadedIsRanges
    <3>7. \A x : InFile(x)' <=> InFile(x)
      BY <3>4, <1>5 DEF InFile
    <3> QED BY <2>1, <3>4, <3>5, <3>6, <3>7, <1>1, <1>2, <1>4 DEF FileInv
  <2> QED BY <2>3, <2>4
<1>8. ASSUME NEW f \in Fingerprints, NEW res \in BOOLEAN, TornOpen(f, res)
      PROVE  FileInv'
  BY <1>8 DEF TornOpen
<1>9. ASSUME NEW r \in plan, Complete(r)
      PROVE  FileInv'
  <2> DEFINE new == <<Line("done", r)>>
  <2>1. /\ InMemory(r) /\ outcome' = outcome /\ Running /\ r \in Pair /\ fp' = fp
        /\ lines' = AppendTo(lines, new)
    BY <1>9 DEF Complete, InMemory, Typed
  <2>2. \A x \in Nat : InSome(x, done') <=> InSome(x, done) \/ In(x, r)
    BY <2>1, InMemoryKeepsPlan
  <2>3. /\ new \in Seq(Texts) /\ \A k \in DOMAIN new : new[k].eol
        /\ 1 \in DOMAIN new /\ new[1].val = r /\ IsRange(new[1])
    <3>1. r # <<>>
      BY <2>1 DEF Pair
    <3>2. Line("done", r).eol /\ Line("done", r).val = r /\ IsRange(Line("done", r))
      BY <3>1 DEF Line, IsRange
    <3> QED BY <2>1, <3>2, RangeIsWritten
  <2>4. Seen' = Seen
    <3>1. lines' = lines \o new
      <4> HIDE DEF new
      <4> QED BY <2>1, <2>3, <1>2, AppendToAddsParts
    <3> QED BY <2>1, <3>1, <1>2, <1>4, RangeIsNotSeen
  <2> HIDE DEF new
  <2>5. /\ \A k \in DOMAIN lines' : lines'[k].eol
        /\ \A k \in DOMAIN lines : k \in DOMAIN lines' /\ lines'[k] = lines[k]
        /\ \E k \in DOMAIN lines' : lines'[k] = new[1]
    <3>1. /\ AppendTo(lines, new) = lines \o new
          /\ \A k \in DOMAIN (lines \o new) : (lines \o new)[k].eol
          /\ \A k \in DOMAIN lines : k \in DOMAIN (lines \o new) /\ (lines \o new)[k] = lines[k]
          /\ \A k \in DOMAIN new : Len(lines) + k \in DOMAIN (lines \o new) /\ (lines \o new)[Len(lines) + k] = new[k]
      BY <2>3, <1>2, WholeLines
    <3>2. lines' = lines \o new
      BY <2>1, <3>1
    <3>3. Len(lines) + 1 \in DOMAIN lines' /\ lines'[Len(lines) + 1] = new[1]
      BY <2>3, <3>1, <3>2
    <3> QED BY <3>1, <3>2, <3>3
  <2>6. ASSUME NEW x \in 0..(Size - 1), InSome(x, done') PROVE InFile(x)'
    <3>1. InSome(x, done) \/ In(x, r)
      BY <2>2, <2>6, <1>3
    <3>2. CASE InSome(x, done)
      <4>1. InFile(x)
        BY <3>2, <2>1, <1>2
      <4>2. PICK k \in DOMAIN lines : IsRange(lines[k]) /\ In(x, lines[k].val)
        BY <4>1 DEF InFile
      <4> QED BY <4>2, <2>5, <1>5
    <3>3. CASE In(x, r)
      BY <3>3, <2>3, <2>5, <1>5
    <3> QED BY <3>1, <3>2, <3>3
  <2>7. Seen' = fp'
    BY <2>1, <2>4, <1>2
  <2> QED BY <2>5, <2>6, <2>7, <1>1 DEF FileInv
<1>10. ASSUME NEW r \in plan, ShortComplete(r)
       PROVE  FileInv'
  BY <1>10 DEF ShortComplete
<1>11. CASE Leave
  BY <1>2, <1>11 DEF Leave, file, FileInv
<1>12. CASE Finish
  BY <1>12 DEF Finish, FileInv
<1>13. CASE UNCHANGED vars
  <2>1. UNCHANGED <<lines, outcome, fp, done>>
    BY <1>13 DEF vars
  <2>2. \A x : InFile(x)' <=> InFile(x)
    BY <2>1, <1>5 DEF InFile
  <2> QED BY <2>1, <2>2, <1>1, <1>2, <1>4 DEF FileInv
<1> QED BY <1>6, <1>7, <1>8, <1>9, <1>10, <1>11, <1>12, <1>13 DEF Next

(* A kill at any moment leaves a file from which the next attempt at the   *)
(* scan resumes where this one was: what memory counts as done, the file   *)
(* does, the file counts nothing the scan has not finished, and it reads   *)
(* as this scan's.                                                         *)
THEOREM FileKeepsUp == Spec => [](OneScan => FileTracksMemory)
<1>1. Typed /\ OwnInv /\ FileInv => (OneScan => FileTracksMemory)
  <2> SUFFICES ASSUME Typed, OwnInv, FileInv, OneScan, Running, ~world.torn
               PROVE  /\ Covered(done) \subseteq Covered(Merge(Parsed))
                      /\ Covered(Merge(Parsed)) \subseteq scanned[fp]
                      /\ Seen = fp
    BY DEF FileTracksMemory
  <2>1. /\ Seen = fp /\ Own(fp)
        /\ \A x \in 0..(Size - 1) : InSome(x, done) => InFile(x)
    BY DEF FileInv, OwnInv
  <2>2. \A x \in 0..(Size - 1) : x \in Nat
    BY ByteType DEF Typed
  <2>3. /\ Parsed \in Seq(Pair)
        /\ \A x \in Nat : InSome(x, Parsed) <=> InFile(x)
    BY ParsedIsTheRanges DEF Typed
  <2>4. \A x \in Nat : InSome(x, Merge(Parsed)) <=> InSome(x, Parsed)
    BY <2>3, MergeKeeps
  <2>5. \A x \in 0..(Size - 1) : x \in Covered(Merge(Parsed)) <=> InFile(x)
    BY <2>2, <2>3, <2>4, CoveredIs
  <2>6. Covered(done) \subseteq Covered(Merge(Parsed))
    BY <2>1, <2>5, CoveredIs
  <2>7. Covered(Merge(Parsed)) \subseteq scanned[fp]
    <3> SUFFICES ASSUME NEW x \in Covered(Merge(Parsed)) PROVE x \in scanned[fp]
      OBVIOUS
    <3>1. x \in 0..(Size - 1) /\ InFile(x)
      BY <2>5, CoveredIs
    <3> QED BY <3>1, <2>1, InFileWasScanned
  <2> QED BY <2>1, <2>6, <2>7
<1>2. Init => Typed /\ PlanInv /\ OwnInv /\ FileInv
  BY TypedInit, OwnInit, FileInit
<1>3. Typed /\ PlanInv /\ OwnInv /\ FileInv /\ [Next]_vars => (Typed /\ PlanInv /\ OwnInv /\ FileInv)'
  BY TypedStep, OwnStep, FileStep
<1> QED BY <1>1, <1>2, <1>3, PTL DEF Spec
=============================================================================
