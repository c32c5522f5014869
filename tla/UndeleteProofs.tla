--------------------------- MODULE UndeleteProofs ---------------------------
(***************************************************************************)
(* Theorems about the undelete modes, for every volume, whatever is wrong  *)
(* with it, about the partition tables that lead to one, and about the     *)
(* clusters of it that are carved as free.                                 *)
(*                                                                         *)
(* Part 1 is about the sequences they are made of.  Part 2 is Kept, which  *)
(* holds between what was reported and what was written after every step   *)
(* of every mode: the path of a file belongs to one key, the record number *)
(* of it or what the mode has instead, and the last file of that key is    *)
(* there.  Part 3 is that build_paths gives every record a path that may   *)
(* be named, and parts 4 to 8 are the modes, each with where its walk is,  *)
(* so that no record is come to twice.                                     *)
(*                                                                         *)
(* Part 9 is about the list of partitions: the spots of the tables that    *)
(* parse has been to (BeenTo) have one entry of the list each (Lists), and *)
(* what the links so far lead to is in every set that is closed under them *)
(* (ChainReached).  Part 10 is about the allocation map: the walk over it  *)
(* leaves the runs behind it in order (RunsInOrder, Behind), a free        *)
(* cluster that it has passed is in a run or in a range (Accounted), and   *)
(* no run, and no range, has a group in it of which there is no bitmap     *)
(* (RunsSpare).                                                            *)
(***************************************************************************)
EXTENDS Partition, FreeSpace, Ntfs, Fat, Ext4, Hfs, Apfs, Induction, TLAPS

-----------------------------------------------------------------------------
(***************************************************************************)
(* Part 1.  Sequences, and the elements that are picked of one.            *)
(***************************************************************************)

(* Max and Min of a set of places are of the set. *)
LEMMA PlacesHaveEnds ==
  ASSUME NEW n \in Nat, NEW ks \in SUBSET (1..n), ks # {}
  PROVE  Max(ks) \in ks /\ Min(ks) \in ks
<1>0. ks \subseteq Int /\ ks \subseteq Nat /\ n \in Int /\ \A x \in ks : x <= n
  OBVIOUS
<1>1. \E x \in ks : \A y \in ks : y <= x
  BY <1>0, GreatestElement
<1>2. \E x \in ks : \A y \in ks : x <= y
  BY <1>0, LeastElement
<1>3. Max(ks) \in ks
  <2>1. \E x \in ks : \A y \in ks : x >= y
    BY <1>1
  <2> QED BY <2>1, Zenon DEF Max
<1>4. Min(ks) \in ks
  BY <1>2, Zenon DEF Min
<1> QED BY <1>3, <1>4

-----------------------------------------------------------------------------
(* What Picked gives: w has the elements of s that keep says so of, of the *)
(* first m, each once and in their order.                                  *)
PicksBy(f, w, s, keep, m) ==
  /\ f \in [1..Len(w) -> 1..m]
  /\ \A i, j \in 1..Len(w) : i < j => f[i] < f[j]
  /\ \A i \in 1..Len(w) : keep[f[i]] /\ w[i] = s[f[i]]
  /\ \A k \in 1..m : keep[k] => \E i \in 1..Len(w) : f[i] = k

Picks(w, s, keep, m) == \E f : PicksBy(f, w, s, keep, m)

LEMMA PickNext ==
  ASSUME NEW S, NEW s \in Seq(S), NEW keep, NEW m \in Nat, m < Len(s), NEW w \in Seq(S), Picks(w, s, keep, m),
         NEW x, x = (IF keep[m + 1] THEN Append(w, s[m + 1]) ELSE w)
  PROVE  x \in Seq(S) /\ Picks(x, s, keep, m + 1)
<1>0. PICK f : PicksBy(f, w, s, keep, m)
  BY DEF Picks
<1>1. /\ f \in [1..Len(w) -> 1..m]
      /\ \A i, j \in 1..Len(w) : i < j => f[i] < f[j]
      /\ \A i \in 1..Len(w) : keep[f[i]] /\ w[i] = s[f[i]]
      /\ \A k \in 1..m : keep[k] => \E i \in 1..Len(w) : f[i] = k
  BY <1>0 DEF PicksBy
<1>2. Len(w) \in Nat /\ m + 1 \in 1..Len(s) /\ Len(s) \in Nat
  OBVIOUS
<1>3. CASE ~keep[m + 1]
  <2>1. x = w /\ f \in [1..Len(w) -> 1..(m + 1)]
    <3>1. \A i \in 1..Len(w) : f[i] \in 1..(m + 1)
      <4>1. \A i \in 1..Len(w) : f[i] \in 1..m
        BY <1>1
      <4> QED BY <4>1
    <3> QED BY <1>1, <1>3, <3>1
  <2>2. \A k \in 1..(m + 1) : keep[k] => \E i \in 1..Len(w) : f[i] = k
    <3> SUFFICES ASSUME NEW k \in 1..(m + 1), keep[k] PROVE \E i \in 1..Len(w) : f[i] = k
      OBVIOUS
    <3>1. k # m + 1
      BY <1>3
    <3>2. k \in 1..m
      BY <3>1
    <3> QED BY <3>2, <1>1
  <2>3. PicksBy(f, x, s, keep, m + 1)
    BY <2>1, <2>2, <1>1 DEF PicksBy
  <2> QED BY <2>1, <2>3 DEF Picks
<1>4. CASE keep[m + 1]
  <2> DEFINE n == Len(w) + 1
             g == [i \in 1..n |-> IF i = n THEN m + 1 ELSE f[i]]
  <2>1. x = Append(w, s[m + 1]) /\ s[m + 1] \in S
    BY <1>4, <1>2
  <2>2. x \in Seq(S) /\ Len(x) = n /\ n \in Nat
    BY <2>1
  <2>3. x[n] = s[m + 1] /\ \A i \in 1..Len(w) : x[i] = w[i]
    BY <2>1
  <2>4. \A i \in 1..n : i = n \/ i \in 1..Len(w)
    BY <1>2
  <2>5. \A i \in 1..Len(w) : f[i] \in 1..m /\ i # n /\ g[i] = f[i]
    BY <1>1, <1>2
  <2>6. g[n] = m + 1
    BY <2>2
  <2>7. g \in [1..n -> 1..(m + 1)]
    <3>1. ASSUME NEW i \in 1..n PROVE g[i] \in 1..(m + 1)
      <4>1. CASE i = n
        BY <4>1, <2>6
      <4>2. CASE i \in 1..Len(w)
        <5>1. f[i] \in 1..m /\ g[i] = f[i]
          BY <4>2, <2>5
        <5> QED BY <5>1
      <4> QED BY <4>1, <4>2, <2>4
    <3> QED BY <3>1
  <2> HIDE DEF g
  <2>8. ASSUME NEW i \in 1..n, NEW j \in 1..n, i < j PROVE g[i] < g[j]
    <3>1. i \in 1..Len(w)
      BY <2>8, <1>2
    <3>2. g[i] = f[i] /\ f[i] \in 1..m
      BY <3>1, <2>5
    <3>3. CASE j = n
      BY <3>2, <3>3, <2>6
    <3>4. CASE j \in 1..Len(w)
      <4>1. g[j] = f[j] /\ f[i] < f[j]
        BY <3>1, <3>4, <2>5, <2>8, <1>1
      <4> QED BY <4>1, <3>2
    <3> QED BY <3>3, <3>4, <2>4
  <2>9. ASSUME NEW i \in 1..n PROVE keep[g[i]] /\ x[i] = s[g[i]]
    <3>1. CASE i = n
      BY <3>1, <2>3, <2>6, <1>4
    <3>2. CASE i \in 1..Len(w)
      BY <3>2, <2>3, <2>5, <1>1
    <3> QED BY <3>1, <3>2, <2>4
  <2>10. ASSUME NEW k \in 1..(m + 1), keep[k] PROVE \E i \in 1..n : g[i] = k
    <3>1. CASE k = m + 1
      BY <3>1, <2>6, <2>2
    <3>2. CASE k \in 1..m
      <4>1. PICK i \in 1..Len(w) : f[i] = k
        BY <3>2, <2>10, <1>1
      <4>2. i \in 1..n /\ g[i] = k
        BY <4>1, <2>5, <1>2
      <4> QED BY <4>2
    <3> QED BY <3>1, <3>2
  <2> HIDE DEF n
  <2>11. PicksBy(g, x, s, keep, m + 1)
    BY <2>2, <2>7, <2>8, <2>9, <2>10 DEF PicksBy
  <2> QED BY <2>2, <2>11 DEF Picks
<1> QED BY <1>3, <1>4

LEMMA PickedIs ==
  ASSUME NEW S, NEW s \in Seq(S), NEW keep
  PROVE  Picked(s, keep) \in Seq(S) /\ Picks(Picked(s, keep), s, keep, Len(s))
<1> DEFINE n == Len(s)
           X == Seq(S)
           Turn(w, k) == IF keep[k] THEN Append(w, s[k]) ELSE w
           d == [y \in X \X (1..n) |-> Turn(y[1], y[2])]
           Follows(u) == u = [k \in 0..n |-> IF k = 0 THEN <<>>
                                             ELSE IF keep[k] THEN Append(u[k - 1], s[k]) ELSE u[k - 1]]
           g == CHOOSE u : Follows(u)
<1>1. n \in Nat /\ <<>> \in X
  OBVIOUS
<1>2. d \in [X \X (1..n) -> X]
  <2> SUFFICES ASSUME NEW y \in X \X (1..n) PROVE Turn(y[1], y[2]) \in X
    OBVIOUS
  <2>1. y[1] \in Seq(S) /\ s[y[2]] \in S
    OBVIOUS
  <2> QED BY <2>1
<1>3. PICK u : IsLoop(u, n, X, <<>>, d)
  <2> HIDE DEF d, n, X
  <2> QED BY <1>1, <1>2, LoopExists
<1>4. u \in [0..n -> X] /\ u = [k \in 0..n |-> IF k = 0 THEN <<>> ELSE d[<<u[k - 1], k>>]]
  BY <1>3 DEF IsLoop
<1>5. Follows(u)
  <2>1. ASSUME NEW k \in 0..n, k # 0
        PROVE  d[<<u[k - 1], k>>] = IF keep[k] THEN Append(u[k - 1], s[k]) ELSE u[k - 1]
    <3>1. k - 1 \in 0..n /\ k \in 1..n
      BY <2>1, <1>1
    <3>2. <<u[k - 1], k>> \in X \X (1..n)
      BY <3>1, <1>4
    <3> QED BY <3>2
  <2> HIDE DEF d
  <2> QED BY <1>4, <2>1
<1>6. Follows(g)
  <2> HIDE DEF Follows
  <2> QED BY <1>5
<1>7. Picked(s, keep) = g[n]
  BY DEF Picked
<1> HIDE DEF g
<1>8. g[0] = <<>> /\ \A k \in 1..n : g[k] = IF keep[k] THEN Append(g[k - 1], s[k]) ELSE g[k - 1]
  <2>1. g[0] = <<>>
    BY <1>6, <1>1
  <2>2. ASSUME NEW k \in 1..n PROVE g[k] = IF keep[k] THEN Append(g[k - 1], s[k]) ELSE g[k - 1]
    <3>1. k \in 0..n /\ k # 0
      BY <1>1
    <3> HIDE DEF n
    <3> QED BY <1>6, <3>1
  <2> QED BY <2>1, <2>2
<1> DEFINE K == {k \in 0..n : g[k] \in Seq(S) /\ Picks(g[k], s, keep, k)}
<1>9. 0 \in K
  <2>1. g[0] = <<>> /\ g[0] \in Seq(S) /\ Len(g[0]) = 0
    BY <1>8
  <2>2. PicksBy([i \in 1..0 |-> 0], g[0], s, keep, 0)
    BY <2>1 DEF PicksBy
  <2>3. Picks(g[0], s, keep, 0)
    BY <2>2, Zenon DEF Picks
  <2>4. 0 \in 0..n
    BY <1>1
  <2> QED BY <2>1, <2>3, <2>4
<1>10. ASSUME NEW k \in 0..(n - 1), k \in K PROVE k + 1 \in K
  <2>1. k + 1 \in 1..n /\ k \in Nat /\ k < Len(s) /\ (k + 1) - 1 = k
    BY <1>1
  <2>2. g[k + 1] = IF keep[k + 1] THEN Append(g[k], s[k + 1]) ELSE g[k]
    BY <1>8, <2>1
  <2>3. g[k] \in Seq(S) /\ Picks(g[k], s, keep, k)
    BY <1>10
  <2>4. g[k + 1] \in Seq(S) /\ Picks(g[k + 1], s, keep, k + 1)
    BY <2>1, <2>2, <2>3, PickNext
  <2> QED BY <2>1, <2>4
<1>11. 0..n \subseteq K
  <2> HIDE DEF K, n
  <2> QED BY <1>1, <1>9, <1>10, UpTo
<1>12. n \in 0..n
  BY <1>1
<1> QED BY <1>7, <1>11, <1>12

(* A sequence, of whatever it has. *)
IsSeq(p) == p \in Seq({p[k] : k \in DOMAIN p})

LEMMA SeqHas ==
  ASSUME NEW p, IsSeq(p)
  PROVE  Len(p) \in Nat /\ DOMAIN p = 1..Len(p) /\ p = [k \in 1..Len(p) |-> p[k]]
BY DEF IsSeq

LEMMA SeqIs ==
  ASSUME NEW n \in Nat, NEW p, DOMAIN p = 1..n, p = [k \in 1..n |-> p[k]]
  PROVE  IsSeq(p) /\ Len(p) = n
<1>1. \A k \in 1..n : p[k] \in {p[j] : j \in DOMAIN p}
  OBVIOUS
<1> DEFINE T == {p[j] : j \in DOMAIN p}
<1> HIDE DEF T
<1>2. p \in Seq(T) /\ Len(p) = n
  BY <1>1 DEF T
<1> QED BY <1>2 DEF IsSeq, T

LEMMA SeqWithin ==
  ASSUME NEW p, IsSeq(p), NEW T, {p[k] : k \in DOMAIN p} \subseteq T
  PROVE  p \in Seq(T)
<1>1. Len(p) \in Nat /\ DOMAIN p = 1..Len(p) /\ p = [k \in 1..Len(p) |-> p[k]]
  BY SeqHas
<1>2. \A k \in 1..Len(p) : p[k] \in T
  BY <1>1
<1> QED BY <1>1, <1>2

LEMMA WithinSeq ==
  ASSUME NEW T, NEW p \in Seq(T)
  PROVE  IsSeq(p)
<1>1. Len(p) \in Nat /\ DOMAIN p = 1..Len(p) /\ p = [k \in 1..Len(p) |-> p[k]]
  OBVIOUS
<1> QED BY <1>1, SeqIs

LEMMA SeqJoined ==
  ASSUME NEW a, NEW b, IsSeq(a), IsSeq(b)
  PROVE  IsSeq(a \o b) /\ Len(a \o b) = Len(a) + Len(b) /\ Len(a) \in Nat /\ Len(b) \in Nat
<1> DEFINE T == {a[k] : k \in DOMAIN a} \cup {b[k] : k \in DOMAIN b}
<1>1. a \in Seq(T) /\ b \in Seq(T)
  <2>1. {a[k] : k \in DOMAIN a} \subseteq T /\ {b[k] : k \in DOMAIN b} \subseteq T
    OBVIOUS
  <2> HIDE DEF T
  <2> QED BY <2>1, SeqWithin
<1> HIDE DEF T
<1>2. a \o b \in Seq(T) /\ Len(a \o b) = Len(a) + Len(b) /\ Len(a) \in Nat /\ Len(b) \in Nat
  BY <1>1
<1> QED BY <1>2, WithinSeq

LEMMA SeqGrown ==
  ASSUME NEW a, IsSeq(a), NEW x
  PROVE  /\ IsSeq(Append(a, x)) /\ Len(Append(a, x)) = Len(a) + 1 /\ Len(a) \in Nat
         /\ DOMAIN Append(a, x) = 1..(Len(a) + 1) /\ DOMAIN a = 1..Len(a)
         /\ Append(a, x)[Len(a) + 1] = x /\ \A k \in 1..Len(a) : Append(a, x)[k] = a[k]
<1> DEFINE T == {a[k] : k \in DOMAIN a} \cup {x}
<1>1. a \in Seq(T) /\ x \in T
  <2>1. {a[k] : k \in DOMAIN a} \subseteq T /\ x \in T
    OBVIOUS
  <2> HIDE DEF T
  <2> QED BY <2>1, SeqWithin
<1> HIDE DEF T
<1>2. /\ Append(a, x) \in Seq(T) /\ Len(Append(a, x)) = Len(a) + 1 /\ Len(a) \in Nat /\ DOMAIN a = 1..Len(a)
      /\ DOMAIN Append(a, x) = 1..(Len(a) + 1)
      /\ Append(a, x)[Len(a) + 1] = x /\ \A k \in 1..Len(a) : Append(a, x)[k] = a[k]
  BY <1>1
<1> QED BY <1>2, WithinSeq

-----------------------------------------------------------------------------
(***************************************************************************)
(* Part 2.  What is reported and what is written.                          *)
(***************************************************************************)

(* A path a file may have: its last component has the stream and no number. *)
IsPath(p, stream) ==
  /\ IsSeq(p) /\ Len(p) # 0
  /\ \E name : p[Len(p)] = [name |-> name, stream |-> stream, num |-> <<>>]

LEMMA DirectoryIs ==
  ASSUME NEW ns, IsSeq(ns), Len(ns) # 0
  PROVE  IsPath(Directory(ns), "") /\ Len(Directory(ns)) = Len(ns) /\ Len(ns) \in Nat
<1>1. Len(ns) \in Nat /\ DOMAIN ns = 1..Len(ns)
  BY SeqHas
<1>2. Directory(ns) = [k \in 1..Len(ns) |-> Component(ns[k])]
  BY <1>1 DEF Directory
<1>3. DOMAIN Directory(ns) = 1..Len(ns) /\ \A k \in 1..Len(ns) : Directory(ns)[k] = Component(ns[k])
  BY <1>2
<1>4. Directory(ns) = [k \in 1..Len(ns) |-> Directory(ns)[k]]
  BY <1>2, <1>3
<1>5. IsSeq(Directory(ns)) /\ Len(Directory(ns)) = Len(ns)
  BY <1>1, <1>3, <1>4, SeqIs
<1>6. Directory(ns)[Len(ns)] = [name |-> ns[Len(ns)], stream |-> "", num |-> <<>>]
  <2>1. Len(ns) \in 1..Len(ns)
    BY <1>1
  <2>2. Directory(ns)[Len(ns)] = Component(ns[Len(ns)])
    BY <1>3, <2>1
  <2> QED BY <2>2 DEF Component
<1> QED BY <1>1, <1>5, <1>6 DEF IsPath

LEMMA NumberedIs ==
  ASSUME NEW p, NEW stream, IsPath(p, stream), NEW num
  PROVE  /\ IsSeq(Numbered(p, num)) /\ Len(Numbered(p, num)) = Len(p) /\ Len(p) \in Nat \ {0}
         /\ Numbered(p, num)[Len(p)].num = <<num>> /\ Numbered(p, num)[Len(p)].stream = stream
<1> DEFINE q == Numbered(p, num)
           n == Len(p)
<1>1. n \in Nat /\ n # 0 /\ DOMAIN p = 1..n
  BY SeqHas DEF IsPath
<1>2. PICK name : p[n] = [name |-> name, stream |-> stream, num |-> <<>>]
  BY DEF IsPath
<1>3. q = [p EXCEPT ![n] = [p[n] EXCEPT !.num = <<num>>]]
  BY DEF Numbered
<1>4. [p[n] EXCEPT !.num = <<num>>] = [name |-> name, stream |-> stream, num |-> <<num>>]
  BY <1>2
<1>5. DOMAIN q = 1..n /\ q[n] = [name |-> name, stream |-> stream, num |-> <<num>>]
  BY <1>1, <1>3, <1>4
<1>6. q = [k \in 1..n |-> q[k]]
  <2>1. q = [k \in 1..n |-> IF k = n THEN [p[n] EXCEPT !.num = <<num>>] ELSE p[k]]
    BY <1>1, <1>3
  <2> HIDE DEF q
  <2> QED BY <2>1
<1> HIDE DEF q
<1>7. IsSeq(q) /\ Len(q) = n
  BY <1>1, <1>5, <1>6, SeqIs
<1> QED BY <1>1, <1>5, <1>7 DEF q

-----------------------------------------------------------------------------
(* What holds between the records r and the files f after every step: a    *)
(* path has the files of one key, the last of which is there.              *)
Marked(rec) ==
  /\ IsSeq(rec.out) /\ Len(rec.out) # 0
  /\ rec.out[Len(rec.out)].num \in {<<>>, <<KeyOf(rec.id)[1]>>}
  /\ rec.out[Len(rec.out)].stream = KeyOf(rec.id)[2]
  /\ \E a, b : KeyOf(rec.id) = <<a, b>>

Follows(r, f) ==
  /\ DOMAIN f = {r[k].out : k \in DOMAIN r}
  /\ \A k \in DOMAIN r : Marked(r[k])
  /\ \A j, k \in DOMAIN r : r[j].out = r[k].out => KeyOf(r[j].id) = KeyOf(r[k].id)
  /\ \A k \in DOMAIN r : \E j \in DOMAIN r :
       j >= k /\ KeyOf(r[j].id) = KeyOf(r[k].id) /\ r[j].out = r[k].out /\ f[r[k].out] = r[j].data

KeptBy(r, f) ==
  /\ IsSeq(r)
  /\ IF opts.dry THEN f = <<>> /\ \A k \in DOMAIN r : r[k].out = <<>>
     ELSE Follows(r, f)

Kept ==
  /\ KeptBy(report, files)
  /\ "manifest" \in lists => ~opts.dry

(* The path that is given to a file is one that no file has, or one of a   *)
(* file with the same key.                                                 *)
LEMMA NameIsFree ==
  ASSUME NEW p, NEW stream, IsPath(p, stream), NEW num,
         \A q \in DOMAIN files : IsSeq(q) /\ Len(q) # 0
  PROVE  /\ IsSeq(FreeName(p, num)) /\ Len(FreeName(p, num)) # 0
         /\ FreeName(p, num)[Len(FreeName(p, num))].num \in {<<>>, <<num>>}
         /\ FreeName(p, num)[Len(FreeName(p, num))].stream = stream
         /\ FreeName(p, num) \in DOMAIN files =>
              FreeName(p, num)[Len(FreeName(p, num))].num = <<num>>
<1>1. CASE Exists(p)
  <2>1. FreeName(p, num) = Numbered(p, num)
    BY <1>1 DEF FreeName
  <2>2. /\ IsSeq(Numbered(p, num)) /\ Len(Numbered(p, num)) = Len(p) /\ Len(p) # 0
        /\ Numbered(p, num)[Len(p)].num = <<num>> /\ Numbered(p, num)[Len(p)].stream = stream
    BY NumberedIs
  <2> QED BY <2>1, <2>2
<1>2. CASE ~Exists(p)
  <2>1. FreeName(p, num) = p /\ IsSeq(p) /\ Len(p) # 0
    BY <1>2 DEF FreeName, IsPath
  <2>2. p[Len(p)].num = <<>> /\ p[Len(p)].stream = stream
    BY DEF IsPath
  <2>3. p \notin DOMAIN files
    <3>1. Len(p) \in Nat
      BY <2>1, SeqHas
    <3>2. IsPrefix(p, p)
      BY <3>1 DEF IsPrefix
    <3> QED BY <1>2, <3>2 DEF Exists
  <2> QED BY <2>1, <2>2, <2>3
<1> QED BY <1>1, <1>2

LEMMA KeptWith ==
  ASSUME NEW r, NEW f, IsSeq(r), Follows(r, f), NEW rec, Marked(rec), NEW g,
         g = [p \in DOMAIN f \cup {rec.out} |-> IF p = rec.out THEN rec.data ELSE f[p]],
         rec.out \in DOMAIN f => rec.out[Len(rec.out)].num = <<KeyOf(rec.id)[1]>>
  PROVE  Follows(Append(r, rec), g)
<1> DEFINE n == Len(r) + 1
           s == Append(r, rec)
<1>1. /\ Len(r) \in Nat /\ DOMAIN s = 1..n /\ DOMAIN r = 1..Len(r)
      /\ s[n] = rec /\ \A k \in 1..Len(r) : s[k] = r[k]
  BY SeqGrown
<1>2. DOMAIN s = DOMAIN r \cup {n} /\ n \notin DOMAIN r /\ n \in Nat /\ \A k \in DOMAIN r : k \in Nat /\ n >= k
  BY <1>1
<1>3. \A k \in DOMAIN r : s[k] = r[k]
  BY <1>1
<1> HIDE DEF s, n
<1>4. DOMAIN g = {s[k].out : k \in DOMAIN s}
  <2>1. DOMAIN g = {r[k].out : k \in DOMAIN r} \cup {rec.out}
    BY DEF Follows
  <2>2. {s[k].out : k \in DOMAIN s} = {s[k].out : k \in DOMAIN r} \cup {s[n].out}
    BY <1>2
  <2>3. {s[k].out : k \in DOMAIN r} = {r[k].out : k \in DOMAIN r}
    BY <1>3
  <2> QED BY <1>1, <2>1, <2>2, <2>3
<1>5. \A k \in DOMAIN s : Marked(s[k])
  BY <1>1, <1>2, <1>3 DEF Follows
<1>6. ASSUME NEW j \in DOMAIN r, r[j].out = rec.out PROVE KeyOf(r[j].id) = KeyOf(rec.id)
  <2>1. rec.out \in DOMAIN f
    BY <1>6 DEF Follows
  <2>2. rec.out[Len(rec.out)].num = <<KeyOf(rec.id)[1]>> /\ rec.out[Len(rec.out)].stream = KeyOf(rec.id)[2]
    BY <2>1 DEF Marked
  <2>3. /\ rec.out[Len(rec.out)].num \in {<<>>, <<KeyOf(r[j].id)[1]>>}
        /\ rec.out[Len(rec.out)].stream = KeyOf(r[j].id)[2]
        /\ \E a, b : KeyOf(r[j].id) = <<a, b>>
    BY <1>6 DEF Follows, Marked
  <2>4. <<KeyOf(rec.id)[1]>> = <<KeyOf(r[j].id)[1]>>
    BY <2>2, <2>3
  <2>5. KeyOf(rec.id)[1] = KeyOf(r[j].id)[1]
    BY <2>4
  <2>6. PICK a, b : KeyOf(rec.id) = <<a, b>>
    BY DEF Marked
  <2>7. PICK c, d : KeyOf(r[j].id) = <<c, d>>
    BY <2>3
  <2>8. a = c /\ b = d
    <3>1. KeyOf(rec.id)[1] = a /\ KeyOf(rec.id)[2] = b
      BY <2>6
    <3>2. KeyOf(r[j].id)[1] = c /\ KeyOf(r[j].id)[2] = d
      BY <2>7
    <3> QED BY <2>2, <2>3, <2>5, <3>1, <3>2
  <2> QED BY <2>6, <2>7, <2>8
<1>7. ASSUME NEW j \in DOMAIN s, NEW k \in DOMAIN s, s[j].out = s[k].out
      PROVE  KeyOf(s[j].id) = KeyOf(s[k].id)
  <2>1. CASE j \in DOMAIN r /\ k \in DOMAIN r
    BY <2>1, <1>3, <1>7 DEF Follows
  <2>2. CASE j = n /\ k = n
    BY <2>2
  <2>3. CASE j \in DOMAIN r /\ k = n
    BY <2>3, <1>1, <1>3, <1>6, <1>7
  <2>4. CASE j = n /\ k \in DOMAIN r
    BY <2>4, <1>1, <1>3, <1>6, <1>7
  <2> QED BY <1>2, <2>1, <2>2, <2>3, <2>4
<1> DEFINE Last1(j, k) ==
             j >= k /\ KeyOf(s[j].id) = KeyOf(s[k].id) /\ s[j].out = s[k].out /\ g[s[k].out] = s[j].data
<1>8. ASSUME NEW k \in DOMAIN s PROVE \E j \in DOMAIN s : Last1(j, k)
  <2>1. CASE s[k].out = rec.out
    <3>1. n \in DOMAIN s /\ n >= k /\ s[n].out = rec.out /\ s[n].data = rec.data
      BY <1>1, <1>2
    <3>2. KeyOf(s[n].id) = KeyOf(s[k].id)
      BY <2>1, <3>1, <1>7
    <3>3. g[rec.out] = rec.data
      OBVIOUS
    <3>4. Last1(n, k)
      BY <2>1, <3>1, <3>2, <3>3
    <3> QED BY <3>1, <3>4
  <2>2. CASE s[k].out # rec.out
    <3>1. k \in DOMAIN r /\ s[k] = r[k] /\ r[k].out # rec.out
      BY <2>2, <1>1, <1>2, <1>3
    <3>2. PICK j \in DOMAIN r :
             j >= k /\ KeyOf(r[j].id) = KeyOf(r[k].id) /\ r[j].out = r[k].out /\ f[r[k].out] = r[j].data
      BY <3>1 DEF Follows
    <3>3. g[r[k].out] = f[r[k].out]
      BY <3>1 DEF Follows
    <3>4. j \in DOMAIN s /\ s[j] = r[j]
      BY <1>2, <1>3
    <3>5. Last1(j, k)
      BY <3>1, <3>2, <3>3, <3>4
    <3> QED BY <3>4, <3>5
  <2> QED BY <2>1, <2>2
<1>9. Follows(s, g)
  BY <1>4, <1>5, <1>7, <1>8 DEF Follows
<1> QED BY <1>9 DEF s

LEMMA KeptNow ==
  ASSUME volume' = volume, opts' = opts, NEW r, NEW f, KeptBy(r, f), report' = r, files' = f
  PROVE  KeptBy(report, files)'
<1>1. \A x : KeyOf(x)' = KeyOf(x)
  BY DEF KeyOf
<1>2. \A x : Marked(x)' <=> Marked(x)
  BY <1>1 DEF Marked
<1>3. ASSUME Follows(r, f) PROVE Follows(report, files)'
  BY <1>1, <1>2, <1>3 DEF Follows
<1> QED BY <1>3 DEF KeptBy

(* What an Emit of a record does. *)
Reports(i) == \E rec : rec.id = i /\ report' = Append(report, rec)

LEMMA EmitKeeps ==
  ASSUME Kept, volume' = volume, opts' = opts, lists' = lists,
         NEW p, NEW stream, IsPath(p, stream), NEW num, NEW id, KeyOf(id) = <<num, stream>>,
         NEW way, NEW size, NEW data, NEW validated, NEW deleted,
         Emit([id |-> id, path |-> way, out |-> FreeName(p, num), size |-> size, data |-> data,
               validated |-> validated, deleted |-> deleted])
  PROVE  Kept' /\ (report' = report \/ Reports(id))
<1> DEFINE o == FreeName(p, num)
           rec == [id |-> id, path |-> way, out |-> o, size |-> size, data |-> data,
                   validated |-> validated, deleted |-> deleted]
           none == [rec EXCEPT !.out = <<>>]
<1>1. IsSeq(report) /\ KeptBy(report, files) /\ ("manifest" \in lists => ~opts.dry)
  BY DEF Kept, KeptBy
<1>2. SUFFICES KeptBy(report, files)' /\ (report' = report \/ Reports(id))
  BY <1>1 DEF Kept
<1>3. CASE opts.dry
  <2>1. report' = Append(report, none) /\ files' = files
    BY <1>3 DEF Emit
  <2>2. none.out = <<>> /\ none.id = id
    OBVIOUS
  <2> HIDE DEF none
  <2>3. KeptBy(Append(report, none), files)
    BY <1>1, <1>3, <2>2, SeqGrown DEF KeptBy
  <2> QED BY <2>1, <2>2, <2>3, KeptNow DEF Reports
<1>4. CASE ~opts.dry /\ Blocked(o)
  <2>1. report' = report /\ files' = files
    BY <1>4 DEF Emit, outVars
  <2> QED BY <1>1, <2>1, KeptNow
<1>5. CASE ~opts.dry /\ ~Blocked(o)
  <2>1. report' = Append(report, rec) /\ Written(o, data)
    BY <1>5 DEF Emit
  <2>2. Follows(report, files)
    BY <1>1, <1>5 DEF KeptBy
  <2>3. \A q \in DOMAIN files : IsSeq(q) /\ Len(q) # 0
    BY <2>2 DEF Follows, Marked
  <2> DEFINE Good(f) ==
        /\ IsSeq(f) /\ Len(f) # 0
        /\ f[Len(f)].num \in {<<>>, <<num>>} /\ f[Len(f)].stream = stream
        /\ f \in DOMAIN files => f[Len(f)].num = <<num>>
  <2>4. Good(o)
    BY <2>3, NameIsFree
  <2>5. rec.out = o /\ rec.id = id /\ rec.data = data
    OBVIOUS
  <2> HIDE DEF rec, o
  <2>6. KeyOf(rec.id)[1] = num /\ KeyOf(rec.id)[2] = stream
    BY <2>5
  <2>7. Marked(rec)
    BY <2>4, <2>5, <2>6 DEF Marked
  <2>8. files' = [q \in DOMAIN files \cup {rec.out} |-> IF q = rec.out THEN rec.data ELSE files[q]]
    BY <2>1, <2>5 DEF Written
  <2>9. rec.out \in DOMAIN files => rec.out[Len(rec.out)].num = <<KeyOf(rec.id)[1]>>
    BY <2>4, <2>5, <2>6
  <2>10. Follows(Append(report, rec), files')
    BY <1>1, <2>2, <2>7, <2>8, <2>9, KeptWith
  <2>11. KeptBy(Append(report, rec), files')
    BY <1>1, <1>5, <2>10, SeqGrown DEF KeptBy
  <2>12. KeptBy(report, files)'
    BY <2>1, <2>11, KeptNow
  <2> QED BY <2>1, <2>5, <2>12 DEF Reports
<1> QED BY <1>3, <1>4, <1>5

(* A step that reports nothing, and the one that lists what was reported. *)
LEMMA QuietKeeps ==
  ASSUME Kept, volume' = volume, opts' = opts, lists' = lists, report' = report, files' = files
  PROVE  Kept'
BY KeptNow DEF Kept

LEMMA ListKeeps ==
  ASSUME Kept, List
  PROVE  Kept' /\ report' = report
<1>1. volume' = volume /\ opts' = opts /\ report' = report /\ files' = files
  BY DEF List, outVars
<1>2. "manifest" \in lists' => ~opts.dry
  <2> SUFFICES ASSUME opts.dry PROVE "manifest" \notin lists'
    OBVIOUS
  <2>1. \E n \in 0..Len(<<"csv">>) : lists' = ToSet(SubSeq(<<"csv">>, 1, n))
    BY DEF List
  <2>2. ASSUME NEW n \in 0..1 PROVE "manifest" \notin ToSet(SubSeq(<<"csv">>, 1, n))
    BY DEF ToSet
  <2>3. Len(<<"csv">>) = 1
    OBVIOUS
  <2> QED BY <2>1, <2>2, <2>3
<1>3. KeptBy(report, files)'
  BY <1>1, KeptNow DEF Kept
<1> QED BY <1>1, <1>2, <1>3 DEF Kept

(* As many files as records, where no two records have one key. *)
LEMMA KeptIsRight == Kept => NothingOverwritten
<1> SUFFICES ASSUME Kept PROVE NothingOverwritten
  OBVIOUS
<1>1. Len(report) \in Nat /\ DOMAIN report = 1..Len(report)
  BY SeqHas DEF Kept, KeptBy
<1>2. ASSUME NEW k \in DOMAIN report, report[k].out # <<>>
      PROVE  /\ report[k].out \in DOMAIN files
             /\ \E j \in k..Len(report) :
                  /\ KeyOf(report[j].id) = KeyOf(report[k].id) /\ report[j].out = report[k].out
                  /\ files[report[k].out] = report[j].data
  <2>1. Follows(report, files)
    BY <1>2 DEF Kept, KeptBy
  <2>2. PICK j \in DOMAIN report :
           /\ j >= k /\ KeyOf(report[j].id) = KeyOf(report[k].id) /\ report[j].out = report[k].out
           /\ files[report[k].out] = report[j].data
    BY <1>2, <2>1 DEF Follows
  <2>3. j \in k..Len(report)
    BY <1>1, <1>2, <2>2
  <2>4. report[k].out \in DOMAIN files
    BY <1>2, <2>1 DEF Follows
  <2> QED BY <2>2, <2>3, <2>4
<1>3. ASSUME "manifest" \in lists
      PROVE  /\ DOMAIN files = {report[k].out : k \in DOMAIN report}
             /\ KeysApart => Cardinality(DOMAIN files) = Len(report)
  <2>1. Follows(report, files)
    BY <1>3 DEF Kept, KeptBy
  <2>2. DOMAIN files = {report[k].out : k \in DOMAIN report}
    BY <2>1 DEF Follows
  <2> DEFINE f == [k \in 1..Len(report) |-> report[k].out]
  <2>3. ASSUME KeysApart PROVE Cardinality(DOMAIN files) = Len(report)
    <3>1. f \in Bijection(1..Len(report), DOMAIN files)
      <4>1. \A j, k \in 1..Len(report) : report[j].out = report[k].out => j = k
        BY <1>1, <2>1, <2>3 DEF Follows, KeysApart
      <4> QED BY <1>1, <2>2, <4>1 DEF Bijection, Injection, Surjection, IsInjective
    <3>2. ExistsBijection(1..Len(report), DOMAIN files)
      BY <3>1 DEF ExistsBijection
    <3>3. Cardinality(DOMAIN files) = Len(report)
      BY <1>1, <3>2, FS_CountingElements
    <3> QED BY <3>3
  <2> QED BY <2>2, <2>3
<1> QED BY <1>2, <1>3 DEF NothingOverwritten

-----------------------------------------------------------------------------
(***************************************************************************)
(* Part 3.  The paths, and what every walk keeps.                          *)
(***************************************************************************)

(* The paths that are known are sequences of names. *)
PathsAre == \A n \in DOMAIN paths : IsSeq(paths[n])

LEMMA EmptyIs == IsSeq(<<>>) /\ Len(<<>>) = 0
<1>1. <<>> \in Seq({})
  OBVIOUS
<1> QED BY <1>1, WithinSeq

LEMMA ReverseIs ==
  ASSUME NEW p, IsSeq(p)
  PROVE  IsSeq(Reverse(p))
<1>1. Len(p) \in Nat
  BY SeqHas
<1>2. DOMAIN Reverse(p) = 1..Len(p) /\ Reverse(p) = [k \in 1..Len(p) |-> Reverse(p)[k]]
  BY DEF Reverse
<1> QED BY <1>1, <1>2, SeqIs

LEMMA UpTheWay ==
  ASSUME PathsAre, NEW n, NEW w, IsSeq(w.deep), IsSeq(w.orphan)
  PROVE  /\ IsSeq(Climb(n, w).way) /\ Len(Climb(n, w).way) # 0 /\ IsSeq(Climb(n, w).start)
         /\ \A m \in DOMAIN Climb(n, w).cached : IsSeq(Climb(n, w).cached[m])
<1> DEFINE cached == [m \in DOMAIN paths \cup {w.root} |-> IF m \in DOMAIN paths THEN paths[m] ELSE <<>>]
           goes   == DOMAIN names \ (DOMAIN cached \cup w.cut)
           up     == [m \in {n, Nothing} \cup {names[r].parent : r \in DOMAIN names} |->
                        IF m \in goes THEN names[m].parent ELSE Nothing]
           Is(u)  == u = [k \in 0..(MaxDepth + 1) |-> IF k = 0 THEN n ELSE up[u[k - 1]]]
           climb  == CHOOSE u : Is(u)
           tops   == {k \in 1..(MaxDepth + 1) : climb[k] = Nothing} \cup {MaxDepth + 2}
           tall   == Min(tops)
           way    == [k \in 1..tall |-> climb[k - 1]]
           top    == Last(way)
           deep   == top \notin DOMAIN cached /\ Len(way) > MaxDepth + 1
           start  == IF top \in DOMAIN cached THEN cached[top]
                     ELSE IF deep THEN w.deep
                     ELSE IF top \notin DOMAIN names THEN w.orphan
                     ELSE <<"_parent_reused_", names[top].name>>
<1>1. Climb(n, w) = [way |-> way, cached |-> cached, deep |-> deep, start |-> start]
  BY DEF Climb
<1>2. \A m \in DOMAIN cached : IsSeq(cached[m])
  BY EmptyIs DEF PathsAre
<1>3. tall \in Nat \ {0}
  <2>1. MaxDepth + 2 \in Nat /\ tops \in SUBSET (1..(MaxDepth + 2)) /\ tops # {}
    BY UndeleteAssumption
  <2> HIDE DEF tops
  <2>2. tall \in tops
    BY <2>1, PlacesHaveEnds
  <2> HIDE DEF tall
  <2>3. tall \in 1..(MaxDepth + 2)
    BY <2>1, <2>2
  <2> QED BY <2>1, <2>3
<1> HIDE DEF tall, climb
<1>4. IsSeq(way) /\ Len(way) # 0
  <2>1. DOMAIN way = 1..tall /\ way = [k \in 1..tall |-> way[k]]
    OBVIOUS
  <2> HIDE DEF way
  <2> QED BY <1>3, <2>1, SeqIs
<1> HIDE DEF way, cached
<1>5. IsSeq(start)
  <2>1. IsSeq(<<"_parent_reused_", names[top].name>>)
    <3>1. \A a, b : <<a, b>> \in Seq({a, b})
      OBVIOUS
    <3> QED BY <3>1, WithinSeq
  <2> QED BY <1>2, <2>1
<1> HIDE DEF start, deep
<1>6. /\ Climb(n, w).way = way /\ Climb(n, w).start = start /\ Climb(n, w).cached = cached
  BY <1>1
<1> QED BY <1>2, <1>4, <1>5, <1>6

LEMMA ClimbedAre ==
  ASSUME PathsAre, NEW n, NEW w, IsSeq(w.deep), IsSeq(w.orphan), NEW m \in DOMAIN Climbed(n, w)
  PROVE  IsSeq(Climbed(n, w)[m])
<1> DEFINE c        == Climb(n, w)
           up(k)    == [j \in 1..(Len(c.way) - k) |-> names[c.way[k + j - 1]].name]
           path(k)  == c.start \o Reverse(up(k))
           first(l) == Min({k \in DOMAIN c.way : c.way[k] = l})
           new      == ToSet(IF c.deep THEN Front(c.way) ELSE c.way) \ DOMAIN c.cached
<1>1. Climbed(n, w) = [l \in DOMAIN c.cached \cup new |-> IF l \in new THEN path(first(l)) ELSE c.cached[l]]
  BY DEF Climbed
<1>2. /\ IsSeq(c.way) /\ Len(c.way) \in Nat /\ DOMAIN c.way = 1..Len(c.way) /\ Len(c.way) # 0 /\ IsSeq(c.start)
      /\ \A l \in DOMAIN c.cached : IsSeq(c.cached[l])
  BY UpTheWay, SeqHas
<1> HIDE DEF c
<1>3. ASSUME NEW k \in DOMAIN c.way PROVE IsSeq(path(k))
  <2>1. Len(c.way) - k \in Nat
    BY <1>2
  <2>2. IsSeq(up(k))
    <3>1. DOMAIN up(k) = 1..(Len(c.way) - k) /\ up(k) = [j \in 1..(Len(c.way) - k) |-> up(k)[j]]
      OBVIOUS
    <3> HIDE DEF up
    <3> QED BY <2>1, <3>1, SeqIs
  <2> HIDE DEF up
  <2> QED BY <1>2, <2>2, ReverseIs, SeqJoined
<1>4. ASSUME NEW l \in new PROVE first(l) \in DOMAIN c.way
  <2> DEFINE ks == {k \in DOMAIN c.way : c.way[k] = l}
  <2>1. l \in ToSet(c.way)
    <3>1. CASE ~c.deep
      BY <3>1, <1>4
    <3>2. CASE c.deep
      <4>1. Front(c.way) = SubSeq(c.way, 1, Len(c.way) - 1)
        BY DEF Front
      <4>2. c.way \in Seq({c.way[k] : k \in DOMAIN c.way})
        BY <1>2 DEF IsSeq
      <4>3. \A k \in DOMAIN Front(c.way) : k \in DOMAIN c.way /\ Front(c.way)[k] = c.way[k]
        BY <1>2, <4>1, <4>2
      <4> QED BY <3>2, <1>4, <4>3 DEF ToSet
    <3> QED BY <3>1, <3>2
  <2>2. ks \in SUBSET (1..Len(c.way)) /\ ks # {}
    BY <1>2, <2>1 DEF ToSet
  <2> HIDE DEF ks
  <2>3. Min(ks) \in ks
    BY <1>2, <2>2, PlacesHaveEnds
  <2> QED BY <2>3 DEF ks
<1> HIDE DEF path, first, new
<1> QED BY <1>1, <1>2, <1>3, <1>4

(* The ids that were reported, of which there is one more. *)
ReportedIds == {report[k].id : k \in DOMAIN report}

LEMMA OnceMore ==
  ASSUME IsSeq(report), NEW id, Reports(id)
  PROVE  ReportedIds' = ReportedIds \cup {id} /\ (ReportedOnce /\ id \notin ReportedIds => ReportedOnce')
<1>1. PICK rec : rec.id = id /\ report' = Append(report, rec)
  BY DEF Reports
<1> DEFINE n == Len(report) + 1
<1>2. /\ Len(report) \in Nat /\ DOMAIN report' = 1..n /\ DOMAIN report = 1..Len(report)
      /\ report'[n] = rec /\ \A k \in 1..Len(report) : report'[k] = report[k]
  BY <1>1, SeqGrown
<1>3. DOMAIN report' = DOMAIN report \cup {n} /\ n \notin DOMAIN report
  BY <1>2
<1> HIDE DEF n
<1>4. ReportedIds' = ReportedIds \cup {id}
  <2>1. {report'[k].id : k \in DOMAIN report'} = {report'[k].id : k \in DOMAIN report} \cup {report'[n].id}
    BY <1>3
  <2>2. {report'[k].id : k \in DOMAIN report} = {report[k].id : k \in DOMAIN report}
    BY <1>2
  <2> QED BY <1>1, <1>2, <2>1, <2>2 DEF ReportedIds
<1>5. ASSUME ReportedOnce, id \notin ReportedIds,
             NEW j \in DOMAIN report', NEW k \in DOMAIN report', report'[j].id = report'[k].id
      PROVE  j = k
  <2>1. \A i \in DOMAIN report : report'[i].id = report[i].id /\ report[i].id # id
    BY <1>2, <1>5 DEF ReportedIds
  <2>2. report'[n].id = id
    BY <1>1, <1>2
  <2> QED BY <1>3, <1>5, <2>1, <2>2 DEF ReportedOnce
<1> QED BY <1>4, <1>5 DEF ReportedOnce

(* Where a file goes that has the path p in the volume. *)
LEMMA OutIs ==
  ASSUME NEW fs, NEW p, IsSeq(p)
  PROVE  IsPath(Directory(<<fs>> \o p), "") /\ Len(Directory(<<fs>> \o p)) = Len(p) + 1 /\ Len(p) \in Nat
<1>1. <<fs>> \in Seq({fs}) /\ Len(<<fs>>) = 1
  OBVIOUS
<1>2. IsSeq(<<fs>>)
  BY <1>1, WithinSeq
<1>3. IsSeq(<<fs>> \o p) /\ Len(<<fs>> \o p) = 1 + Len(p) /\ Len(p) \in Nat
  BY <1>1, <1>2, SeqJoined
<1> DEFINE q == <<fs>> \o p
<1>4. IsSeq(q) /\ Len(q) # 0 /\ Len(q) = Len(p) + 1 /\ Len(p) \in Nat
  BY <1>3
<1> HIDE DEF q
<1>5. IsPath(Directory(q), "") /\ Len(Directory(q)) = Len(q)
  BY <1>4, DirectoryIs
<1> QED BY <1>4, <1>5 DEF q

LEMMA PairIs == ASSUME NEW a, NEW b PROVE IsSeq(<<a, b>>)
<1>1. <<a, b>> \in Seq({a, b})
  OBVIOUS
<1> QED BY <1>1, WithinSeq

LEMMA OneIs == ASSUME NEW a PROVE IsSeq(<<a>>)
<1>1. <<a>> \in Seq({a})
  OBVIOUS
<1> QED BY <1>1, WithinSeq

(* What all the walks keep: the paths of every record are known when its   *)
(* files are taken up.                                                     *)
WalkInv ==
  /\ Kept /\ PathsAre
  /\ stage \in {"files", "done"} => DOMAIN names \subseteq DOMAIN paths

LEMMA WalksOn ==
  ASSUME WalkInv, NEW fs, NEW w, WalkPath(fs, w), IsSeq(w.deep), IsSeq(w.orphan)
  PROVE  /\ WalkInv' /\ report' = report /\ at' = at
         /\ stage' = "paths" /\ stage = "paths" /\ volume' = volume /\ names' = names
<1>1. /\ stage = "paths" /\ stage' = stage /\ names' = names /\ at' = at
      /\ volume' = volume /\ opts' = opts /\ lists' = lists /\ report' = report /\ files' = files
  BY DEF WalkPath, fixed, outVars
<1>2. PICK n \in DOMAIN names \ DOMAIN paths : paths' = Climbed(n, w)
  BY DEF WalkPath
<1>3. \A m \in DOMAIN paths' : IsSeq(paths'[m])
  BY <1>2, ClimbedAre DEF WalkInv
<1>4. Kept'
  BY <1>1, QuietKeeps DEF WalkInv
<1> QED BY <1>1, <1>3, <1>4 DEF WalkInv, PathsAre

LEMMA PathsNowKnown ==
  ASSUME WalkInv, NEW fs, PathsKnown(fs)
  PROVE  /\ WalkInv' /\ report' = report /\ at' = 0
         /\ stage' = "files" /\ stage = "paths" /\ volume' = volume /\ names' = names
<1>1. /\ stage = "paths" /\ stage' = "files" /\ names' = names /\ paths' = paths /\ at' = 0
      /\ DOMAIN names \subseteq DOMAIN paths
      /\ volume' = volume /\ opts' = opts /\ lists' = lists /\ report' = report /\ files' = files
  BY DEF PathsKnown, fixed, outVars
<1>2. Kept'
  BY <1>1, QuietKeeps DEF WalkInv
<1> QED BY <1>1, <1>2 DEF WalkInv, PathsAre

(* A step of a walk that reports nothing and leaves the paths.             *)
Quiet == volume' = volume /\ opts' = opts /\ lists' = lists /\ report' = report /\ files' = files /\ paths' = paths

LEMMA WalksQuietly ==
  ASSUME WalkInv, Quiet,
         stage' \in {"files", "done"} => stage \in {"files", "done"} /\ names' = names
  PROVE  WalkInv'
<1>1. Kept'
  BY QuietKeeps DEF WalkInv, Quiet
<1> QED BY <1>1 DEF WalkInv, PathsAre, Quiet

LEMMA WalkLists ==
  ASSUME WalkInv, List
  PROVE  WalkInv' /\ report' = report /\ stage = "done" /\ stage' = "listed" /\ volume' = volume
<1>1. Kept' /\ report' = report
  BY ListKeeps DEF WalkInv
<1>2. stage = "done" /\ stage' = "listed" /\ volume' = volume /\ paths' = paths
  BY DEF List, known
<1> QED BY <1>1, <1>2 DEF WalkInv, PathsAre

LEMMA PathOfIs ==
  ASSUME WalkInv, stage = "files", NEW n
  PROVE  IsSeq(PathOf(n))
BY EmptyIs DEF WalkInv, PathsAre, PathOf

(* A file is reported. *)
LEMMA WalkEmits ==
  ASSUME WalkInv, stage = "files", stage' = "files",
         volume' = volume, opts' = opts, lists' = lists, names' = names, paths' = paths,
         NEW p, NEW stream, IsPath(p, stream), NEW num, NEW id, KeyOf(id) = <<num, stream>>,
         NEW way, NEW size, NEW data, NEW validated, NEW deleted,
         Emit([id |-> id, path |-> way, out |-> FreeName(p, num), size |-> size, data |-> data,
               validated |-> validated, deleted |-> deleted])
  PROVE  WalkInv' /\ (report' = report \/ Reports(id))
<1>1. Kept' /\ (report' = report \/ Reports(id))
  BY EmitKeeps DEF WalkInv
<1> QED BY <1>1 DEF WalkInv, PathsAre

LEMMA WalkStarts == UndeleteInit => WalkInv /\ ReportedOnce /\ report = <<>> /\ ReportedIds = {}
<1> SUFFICES ASSUME UndeleteInit PROVE WalkInv /\ ReportedOnce /\ report = <<>> /\ ReportedIds = {}
  OBVIOUS
<1>1. IsSeq(report) /\ report = <<>> /\ files = <<>> /\ lists = {} /\ paths = <<>> /\ stage = "open"
  BY EmptyIs DEF UndeleteInit
<1>2. Follows(report, files)
  BY <1>1 DEF Follows
<1>3. Kept
  BY <1>1, <1>2 DEF Kept, KeptBy
<1> QED BY <1>1, <1>3 DEF WalkInv, PathsAre, ReportedOnce, ReportedIds

LEMMA SameReport ==
  ASSUME report' = report
  PROVE  ReportedIds' = ReportedIds /\ (ReportedOnce => ReportedOnce')
BY DEF ReportedIds, ReportedOnce

-----------------------------------------------------------------------------
(***************************************************************************)
(* Part 4.  ext2/3/4.                                                      *)
(***************************************************************************)

(* ext: the inodes that were reported are behind the one that is next.     *)
ExtInv ==
  /\ WalkInv /\ ReportedOnce /\ at \in Nat
  /\ stage \notin {"files", "done", "listed"} => report = <<>>
  /\ stage = "files" => ReportedIds \subseteq 1..at

LEMMA ExtFileKeeps ==
  ASSUME ExtInv, ExtFile
  PROVE  ExtInv'
<1> DEFINE ino  == at + 1
           path == PathOf(ino)
           got  == ReadInode(ino)
           rel  == IF Unplaced(path) THEN <<"_orphans", ToString(ino)>> ELSE path
           out  == Directory(<<"ext4">> \o rel)
           way  == Directory(<<"ext4">> \o path)
           ok   == got.ok /\ ~Unplaced(path)
           rec  == [id |-> ino, path |-> way, out |-> FreeName(out, ino), size |-> Inode(ino).size,
                    data |-> got.data, validated |-> ok, deleted |-> Inode(ino).deleted]
<1>1. /\ stage = "files" /\ stage' = "files" /\ volume.fs = "ext4" /\ at' = at + 1
      /\ volume' = volume /\ opts' = opts /\ lists' = lists /\ names' = names /\ paths' = paths
  BY DEF ExtFile, fixed
<1>2. at \in Nat /\ ReportedIds \subseteq 1..at /\ ReportedOnce /\ WalkInv /\ IsSeq(report)
  BY <1>1 DEF ExtInv, WalkInv, Kept, KeptBy
<1>3. UNCHANGED outVars \/ Emit(rec)
  BY DEF ExtFile
<1>4. IsPath(out, "")
  <2>1. IsSeq(rel)
    BY <1>1, <1>2, PathOfIs, PairIs
  <2> HIDE DEF rel
  <2> QED BY <2>1, OutIs
<1>5. KeyOf(ino) = <<ino, "">>
  BY <1>1 DEF KeyOf
<1> HIDE DEF path, got, out, way, ok
<1>6. WalkInv' /\ (report' = report \/ Reports(ino))
  <2>1. CASE UNCHANGED outVars
    BY <1>1, <1>2, <2>1, WalksQuietly DEF outVars, Quiet
  <2>2. CASE Emit(rec)
    BY <1>1, <1>2, <1>4, <1>5, <2>2, WalkEmits
  <2> QED BY <1>3, <2>1, <2>2
<1>7. CASE report' = report
  <2>1. ReportedIds' = ReportedIds /\ (ReportedOnce' <=> ReportedOnce)
    BY <1>7 DEF ReportedIds, ReportedOnce
  <2> QED BY <1>1, <1>2, <1>6, <2>1 DEF ExtInv
<1>8. CASE Reports(ino)
  <2>1. ino \notin ReportedIds
    BY <1>2
  <2>2. ReportedIds' = ReportedIds \cup {ino} /\ ReportedOnce'
    BY <1>2, <1>8, <2>1, OnceMore
  <2>3. ReportedIds' \subseteq 1..at'
    BY <1>1, <1>2, <2>2
  <2> QED BY <1>1, <1>2, <1>6, <2>2, <2>3 DEF ExtInv
<1> QED BY <1>6, <1>7, <1>8

LEMMA ExtKeeps ==
  ASSUME ExtInv, [ExtStep]_undeleteVars
  PROVE  ExtInv'
<1> USE DEF ExtInv
<1>0. report' = report => (ReportedOnce => ReportedOnce') /\ ReportedIds' = ReportedIds
  BY DEF ReportedOnce, ReportedIds
<1>1. CASE ExtOpen \/ ExtNames \/ ExtNamed \/ ExtDone \/ UNCHANGED undeleteVars
  <2>1. Quiet
    BY <1>1 DEF ExtOpen, ExtNames, ExtNamed, ExtDone, undeleteVars, fixed, known, outVars, Quiet
  <2>2. \/ stage \in {"open", "names"} /\ stage' \in {"names", "paths"}
        \/ stage = "files" /\ stage' = "done" /\ names' = names
        \/ stage' = stage /\ names' = names /\ at' = at
    BY <1>1 DEF ExtOpen, ExtNames, ExtNamed, ExtDone, undeleteVars, fixed, known, outVars
  <2>3. at' \in Nat
    <3>1. CASE ExtOpen
      BY <3>1 DEF ExtOpen
    <3>2. CASE ExtNames
      <4>1. at' = at + 1
        BY <3>2, Zenon DEF ExtNames
      <4> QED BY <4>1
    <3>3. CASE ExtNamed \/ ExtDone \/ UNCHANGED undeleteVars
      BY <3>3 DEF ExtNamed, ExtDone, undeleteVars, known
    <3> QED BY <1>1, <3>1, <3>2, <3>3
  <2>4. WalkInv'
    BY <2>1, <2>2, WalksQuietly
  <2> QED BY <1>0, <2>1, <2>2, <2>3, <2>4 DEF Quiet
<1>2. CASE ExtPath
  <2>1. WalkInv' /\ report' = report /\ at' = at /\ stage' = "paths" /\ stage = "paths"
    <3>1. IsSeq(<<"_deep_">>) /\ IsSeq(<<"_orphan_">>)
      BY OneIs
    <3> DEFINE w == [root |-> 2, deep |-> <<"_deep_">>, orphan |-> <<"_orphan_">>, cut |-> {}]
    <3>2. WalkPath("ext4", w) /\ IsSeq(w.deep) /\ IsSeq(w.orphan)
      BY <1>2, <3>1 DEF ExtPath
    <3> HIDE DEF w
    <3> QED BY <3>2, WalksOn
  <2> QED BY <1>0, <2>1
<1>3. CASE ExtPathsKnown
  <2>1. WalkInv' /\ report' = report /\ at' = 0 /\ stage' = "files" /\ stage = "paths"
    BY <1>3, PathsNowKnown DEF ExtPathsKnown
  <2>2. ReportedIds' = {}
    BY <2>1 DEF ReportedIds
  <2> QED BY <1>0, <2>1, <2>2
<1>4. CASE ExtFile
  BY <1>4, ExtFileKeeps
<1>5. CASE ExtList
  <2>1. WalkInv' /\ report' = report /\ stage = "done" /\ stage' = "listed" /\ at' = at
    BY <1>5, WalkLists DEF ExtList, List, known
  <2> QED BY <1>0, <2>1
<1> QED BY <1>1, <1>2, <1>3, <1>4, <1>5 DEF ExtStep

(* ext2/3/4: whatever the inode table, the directories and the block maps  *)
(* have in them, recover gives no two deleted files one path in the output *)
(* directory, writes what it says it wrote, and reports no inode twice;    *)
(* where the manifest was written, it lists all the files and no other.    *)
THEOREM ExtIsKept == ExtSpec => [](NothingOverwritten /\ ReportedOnce)
<1>1. UndeleteInit => ExtInv
  BY WalkStarts DEF ExtInv, UndeleteInit
<1>2. ExtInv => NothingOverwritten /\ ReportedOnce
  BY KeptIsRight DEF ExtInv, WalkInv
<1> QED BY <1>1, <1>2, ExtKeeps, PTL DEF ExtSpec

-----------------------------------------------------------------------------
(***************************************************************************)
(* Part 5.  APFS.                                                          *)
(***************************************************************************)

(* APFS: no file that was reported is among the ones that are left.        *)
ApfsInv ==
  /\ WalkInv /\ ReportedOnce
  /\ stage \notin {"files", "done", "listed"} => report = <<>>
  /\ stage = "files" => ReportedIds \cap ids = {}

LEMMA ApfsFileKeeps ==
  ASSUME ApfsInv, ApfsFile
  PROVE  ApfsInv'
<1>1. /\ stage = "files" /\ stage' = "files" /\ volume.fs = "apfs"
      /\ volume' = volume /\ opts' = opts /\ lists' = lists /\ names' = names /\ paths' = paths
  BY DEF ApfsFile, fixed, known
<1> DEFINE rel(id) == IF BestPath(id) = <<>> THEN <<"_unnamed", ToString(id)>> ELSE BestPath(id)
           out(id) == Directory(<<"apfs">> \o rel(id))
           way(id) == Directory(<<"apfs">> \o BestPath(id))
           got(id) == Gather(InOrder(extents[id]), SizeOf(id), Cells)
           ok(id)  == got(id).ok /\ BestPath(id) # <<>>
           rec(id) == [id |-> id, path |-> way(id), out |-> FreeName(out(id), id), size |-> SizeOf(id),
                       data |-> got(id).data, validated |-> ok(id), deleted |-> TRUE]
<1>2. PICK id \in ids : (UNCHANGED outVars \/ Emit(rec(id))) /\ ids' = ids \ {id}
  BY DEF ApfsFile
<1>3. ReportedIds \cap ids = {} /\ ReportedOnce /\ WalkInv /\ IsSeq(report)
  BY <1>1 DEF ApfsInv, WalkInv, Kept, KeptBy
<1>4. IsPath(out(id), "")
  <2>1. IsSeq(BestPath(id))
    BY <1>1, <1>3, PathOfIs, OneIs DEF BestPath
  <2>2. IsSeq(rel(id))
    BY <2>1, PairIs
  <2> HIDE DEF rel
  <2> QED BY <2>2, OutIs
<1>5. KeyOf(id) = <<id, "">>
  BY <1>1 DEF KeyOf
<1> HIDE DEF rel, out, way, got, ok
<1>6. WalkInv' /\ (report' = report \/ Reports(id))
  <2>1. CASE UNCHANGED outVars
    BY <1>1, <1>3, <2>1, WalksQuietly DEF outVars, Quiet
  <2>2. CASE Emit(rec(id))
    BY <1>1, <1>3, <1>4, <1>5, <2>2, WalkEmits
  <2> QED BY <1>2, <2>1, <2>2
<1>7. CASE report' = report
  BY <1>1, <1>2, <1>3, <1>6, <1>7, SameReport DEF ApfsInv
<1>8. CASE Reports(id)
  <2>1. id \notin ReportedIds
    BY <1>2, <1>3
  <2>2. ReportedIds' = ReportedIds \cup {id} /\ ReportedOnce'
    BY <1>3, <1>8, <2>1, OnceMore
  <2> QED BY <1>1, <1>2, <1>3, <1>6, <2>2 DEF ApfsInv
<1> QED BY <1>6, <1>7, <1>8

LEMMA ApfsKeeps ==
  ASSUME ApfsInv, [ApfsStep]_<<undeleteVars, apfsVars>>
  PROVE  ApfsInv'
<1> USE DEF ApfsInv
<1> DEFINE Still == UNCHANGED <<undeleteVars, apfsVars>>
<1>1. CASE ApfsOpen \/ ApfsBlock \/ ApfsScanned \/ ApfsDone \/ Still
  <2>1. Quiet
    BY <1>1 DEF ApfsOpen, ApfsBlock, ApfsScanned, ApfsDone, undeleteVars, fixed, known, outVars, Quiet
  <2>2. \/ stage \in {"open", "blocks"} /\ stage' \in {"blocks", "paths"}
        \/ stage = "files" /\ stage' = "done" /\ names' = names
        \/ stage' = stage /\ names' = names /\ ids' = ids
    BY <1>1 DEF ApfsOpen, ApfsBlock, ApfsScanned, ApfsDone, undeleteVars, fixed, known, outVars, apfsVars
  <2>3. WalkInv'
    BY <2>1, <2>2, WalksQuietly
  <2> QED BY <2>1, <2>2, <2>3, SameReport DEF Quiet
<1>2. CASE ApfsPath
  <2>1. WalkInv' /\ report' = report /\ stage' = "paths" /\ stage = "paths"
    <3> DEFINE w == [root |-> 2, deep |-> <<>>, orphan |-> <<>>, cut |-> {}]
    <3>1. WalkPath("apfs", w) /\ IsSeq(w.deep) /\ IsSeq(w.orphan)
      BY <1>2, EmptyIs DEF ApfsPath
    <3> HIDE DEF w
    <3> QED BY <3>1, WalksOn
  <2> QED BY <2>1, SameReport
<1>3. CASE ApfsPathsKnown
  <2>1. WalkInv' /\ report' = report /\ stage' = "files" /\ stage = "paths"
    BY <1>3, PathsNowKnown DEF ApfsPathsKnown
  <2>2. ReportedIds' = {}
    BY <2>1 DEF ReportedIds
  <2> QED BY <2>1, <2>2, SameReport
<1>4. CASE ApfsFile
  BY <1>4, ApfsFileKeeps
<1>5. CASE ApfsList
  <2>1. WalkInv' /\ report' = report /\ stage = "done" /\ stage' = "listed"
    BY <1>5, WalkLists DEF ApfsList
  <2> QED BY <2>1, SameReport
<1> QED BY <1>1, <1>2, <1>3, <1>4, <1>5 DEF ApfsStep

(* APFS: the same of its records, which are found all over the volume in   *)
(* any number of versions of which one is taken.                           *)
THEOREM ApfsIsKept == ApfsSpec => [](NothingOverwritten /\ ReportedOnce)
<1>1. UndeleteInit => ApfsInv
  BY WalkStarts DEF ApfsInv, UndeleteInit
<1>2. ApfsInv => NothingOverwritten /\ ReportedOnce
  BY KeptIsRight DEF ApfsInv, WalkInv
<1> QED BY <1>1, <1>2, ApfsKeeps, PTL DEF ApfsSpec

-----------------------------------------------------------------------------
(***************************************************************************)
(* Part 6.  HFS+.                                                          *)
(***************************************************************************)

(* HFS+: what was reported was taken up.                                   *)
HfsInv ==
  /\ WalkInv /\ ReportedOnce
  /\ stage \notin {"files", "done", "listed"} => report = <<>>
  /\ ReportedIds \subseteq taken

LEMMA HfsFileKeeps ==
  ASSUME HfsInv, HfsFile
  PROVE  HfsInv'
<1> DEFINE e    == Head(todo)
           got  == Fork(e.extents, e.size)
           path == PathOf(e.cnid)
           rel  == IF path = <<>> THEN <<"_orphans", ToString(e.cnid)>> ELSE path
           out  == Directory(<<"hfs">> \o rel)
           way  == Directory(<<"hfs">> \o (IF path = <<>> THEN <<e.name>> ELSE path))
           id   == <<e.cnid, e.size>>
           gone == Unlinked(e)
           rec  == [id |-> id, path |-> way, out |-> FreeName(out, e.cnid), size |-> e.size,
                    data |-> got.data, validated |-> got.ok, deleted |-> gone]
<1>1. /\ stage = "files" /\ stage' = "files" /\ volume.fs = "hfs"
      /\ volume' = volume /\ opts' = opts /\ lists' = lists /\ names' = names /\ paths' = paths
  BY DEF HfsFile, fixed, known
<1>2. \/ Emit(rec) /\ id \notin taken /\ taken' = taken \cup {id}
      \/ UNCHANGED outVars /\ taken' = taken
  BY DEF HfsFile
<1>3. ReportedIds \subseteq taken /\ ReportedOnce /\ WalkInv /\ IsSeq(report)
  BY <1>1 DEF HfsInv, WalkInv, Kept, KeptBy
<1>4. IsPath(out, "")
  <2>1. IsSeq(rel)
    BY <1>1, <1>3, PathOfIs, PairIs
  <2> HIDE DEF rel
  <2> QED BY <2>1, OutIs
<1>5. KeyOf(id) = <<e.cnid, "">>
  BY <1>1 DEF KeyOf
<1> HIDE DEF e, path, got, out, way, gone, id
<1>6. CASE UNCHANGED outVars /\ taken' = taken
  <2>1. report' = report /\ WalkInv'
    BY <1>1, <1>3, <1>6, WalksQuietly DEF outVars, Quiet
  <2> QED BY <1>1, <1>3, <1>6, <2>1, SameReport DEF HfsInv
<1>7. CASE Emit(rec) /\ id \notin taken /\ taken' = taken \cup {id}
  <2>1. WalkInv' /\ (report' = report \/ Reports(id))
    BY <1>1, <1>3, <1>4, <1>5, <1>7, WalkEmits
  <2>2. CASE report' = report
    BY <1>1, <1>3, <1>7, <2>1, <2>2, SameReport DEF HfsInv
  <2>3. CASE Reports(id)
    <3>1. id \notin ReportedIds
      BY <1>3, <1>7
    <3>2. ReportedIds' = ReportedIds \cup {id} /\ ReportedOnce'
      BY <1>3, <2>3, <3>1, OnceMore
    <3> QED BY <1>1, <1>3, <1>7, <2>1, <3>2 DEF HfsInv
  <2> QED BY <2>1, <2>2, <2>3
<1> QED BY <1>2, <1>6, <1>7

LEMMA HfsKeeps ==
  ASSUME HfsInv, [HfsStep]_<<undeleteVars, hfsVars>>
  PROVE  HfsInv'
<1> USE DEF HfsInv
<1> DEFINE Still == UNCHANGED <<undeleteVars, hfsVars>>
<1>1. CASE HfsOpen \/ HfsCatalog \/ HfsCatalogRead \/ HfsSweep \/ HfsSwept \/ HfsDone \/ Still
  <2>1. Quiet /\ taken' = taken
    BY <1>1 DEF HfsOpen, HfsCatalog, HfsCatalogRead, HfsSweep, HfsSwept, HfsDone, undeleteVars, fixed, known,
                outVars, hfsVars, Quiet
  <2>2. \/ stage \in {"open", "catalog", "sweep"} /\ stage' \in {"failed", "catalog", "sweep", "paths"}
        \/ stage = "files" /\ stage' = "done" /\ names' = names
        \/ stage' = stage /\ names' = names
    BY <1>1 DEF HfsOpen, HfsCatalog, HfsCatalogRead, HfsSweep, HfsSwept, HfsDone, undeleteVars, fixed, known, outVars
  <2>3. WalkInv'
    BY <2>1, <2>2, WalksQuietly
  <2> QED BY <2>1, <2>2, <2>3, SameReport DEF Quiet
<1>2. CASE HfsPath
  <2>1. WalkInv' /\ report' = report /\ stage' = "paths" /\ stage = "paths" /\ taken' = taken
    <3> DEFINE w == [root |-> 2, deep |-> <<>>, orphan |-> <<>>, cut |-> {}]
    <3>1. WalkPath("hfs", w) /\ IsSeq(w.deep) /\ IsSeq(w.orphan) /\ taken' = taken
      BY <1>2, EmptyIs DEF HfsPath, hfsVars
    <3> HIDE DEF w
    <3> QED BY <3>1, WalksOn
  <2> QED BY <2>1, SameReport
<1>3. CASE HfsPathsKnown
  <2>1. WalkInv' /\ report' = report /\ stage' = "files" /\ stage = "paths" /\ taken' = taken
    BY <1>3, PathsNowKnown DEF HfsPathsKnown, hfsVars
  <2> QED BY <2>1, SameReport
<1>4. CASE HfsFile
  BY <1>4, HfsFileKeeps
<1>5. CASE HfsList
  <2>1. WalkInv' /\ report' = report /\ stage = "done" /\ stage' = "listed" /\ taken' = taken
    BY <1>5, WalkLists DEF HfsList, hfsVars
  <2> QED BY <2>1, SameReport
<1> QED BY <1>1, <1>2, <1>3, <1>4, <1>5 DEF HfsStep

(* HFS+: the same of its catalog and of the nodes of it that were dropped. *)
(* A record may have versions of different sizes there, each of which is   *)
(* reported once; what may be overwritten by one is the file of another    *)
(* version of the same record, and no other file.                          *)
THEOREM HfsIsKept == HfsSpec => [](NothingOverwritten /\ ReportedOnce)
<1>1. UndeleteInit => HfsInv
  BY WalkStarts DEF HfsInv, UndeleteInit
<1>2. HfsInv => NothingOverwritten /\ ReportedOnce
  BY KeptIsRight DEF HfsInv, WalkInv
<1> QED BY <1>1, <1>2, HfsKeeps, PTL DEF HfsSpec

-----------------------------------------------------------------------------
(***************************************************************************)
(* Part 7.  FAT and exFAT.                                                 *)
(***************************************************************************)

LEMMA FatRecoverKeeps ==
  ASSUME Kept, FatRecover
  PROVE  Kept'
<1> DEFINE e    == Head(entries)
           data == ReadContiguous(e.start, e.size)
           name == IF e.name = <<>> THEN <<"file", ToString(e.start)>> ELSE e.name
           path == <<Component(volume.fs), Component(name)>>
           ok   == Complete(data, e.size)
           rec  == [id |-> e.offset, path |-> path, out |-> FreeName(path, e.offset),
                    size |-> Len(data), data |-> data, validated |-> ok, deleted |-> e.deleted]
<1>1. volume' = volume /\ opts' = opts /\ lists' = lists /\ volume.fs \in {"fat", "exfat"}
  BY DEF FatRecover, fixed
<1>2. UNCHANGED outVars \/ Emit(rec)
  BY DEF FatRecover
<1>3. IsPath(path, "")
  <2> HIDE DEF name
  <2>1. IsSeq(path) /\ Len(path) = 2 /\ path[2] = Component(name)
    BY PairIs
  <2>2. path[Len(path)] = [name |-> name, stream |-> "", num |-> <<>>]
    BY <2>1 DEF Component
  <2>3. Len(path) # 0
    BY <2>1
  <2> QED BY <2>1, <2>2, <2>3 DEF IsPath
<1>4. KeyOf(e.offset) = <<e.offset, "">>
  BY <1>1 DEF KeyOf
<1> HIDE DEF e, data, path, ok
<1>5. CASE UNCHANGED outVars
  BY <1>1, <1>5, QuietKeeps DEF outVars
<1>6. CASE Emit(rec)
  <2> DEFINE size == Len(data)
  <2> HIDE DEF size
  <2>1. Emit([id |-> e.offset, path |-> path, out |-> FreeName(path, e.offset), size |-> size,
              data |-> data, validated |-> ok, deleted |-> e.deleted])
    BY <1>6 DEF size
  <2> QED BY <1>1, <1>3, <1>4, <2>1, EmitKeeps
<1> QED BY <1>2, <1>5, <1>6

(* FAT and exFAT: no file that was recovered is overwritten by another one *)
(* that was deleted from another slot, in whatever directory.  A slot that *)
(* two directories share is reported by each of them, as the same file.    *)
THEOREM FatIsKept == FatSpec => []NothingOverwritten
<1>1. UndeleteInit => Kept
  BY WalkStarts DEF WalkInv
<1>2. ASSUME Kept, [FatStep]_<<undeleteVars, fatVars>> PROVE Kept'
  <2> DEFINE Still == UNCHANGED <<undeleteVars, fatVars>>
  <2>1. CASE FatRecover
    BY <1>2, <2>1, FatRecoverKeeps
  <2>2. CASE FatList
    BY <1>2, <2>2, ListKeeps DEF FatList
  <2>3. CASE \/ FatOpen \/ FatPiece \/ FatPass \/ FatFile \/ FatDir \/ FatDirEnd \/ ExfatDir \/ FatWalked
             \/ FatDone \/ Still
    <3>1. volume' = volume /\ opts' = opts /\ lists' = lists /\ report' = report /\ files' = files
      BY <2>3, ZenonT(40) DEF FatOpen, FatPiece, FatPass, FatFile, Found, FatDir, FatDirEnd, ExfatDir, FatWalked, FatDone,
                  undeleteVars, fixed, outVars
    <3>2. Kept
      BY <1>2
    <3> QED BY <3>1, <3>2, QuietKeeps, ZenonT(40)
  <2> QED BY <1>2, <2>1, <2>2, <2>3 DEF FatStep
<1>3. Kept => NothingOverwritten
  BY KeptIsRight
<1> QED BY <1>1, <1>2, <1>3, PTL DEF FatSpec

-----------------------------------------------------------------------------
(***************************************************************************)
(* Part 8.  NTFS.                                                          *)
(***************************************************************************)

LEMMA StreamPut ==
  ASSUME NEW name, NEW u, NEW st, NEW v, NEW x, x = [name |-> name, stream |-> u, num |-> v]
  PROVE [x EXCEPT !.stream = st] = [name |-> name, stream |-> st, num |-> v]
<1> DEFINE y == [name |-> name, stream |-> st, num |-> v]
<1>1. DOMAIN x = {"name", "stream", "num"} /\ x.name = name /\ x.num = v
  OBVIOUS
<1>2. [x EXCEPT !.stream = st] = [f \in DOMAIN x |-> IF f = "stream" THEN st ELSE x[f]]
  OBVIOUS
<1>3. y = [f \in {"name", "stream", "num"} |-> y[f]] /\ y.name = name /\ y.num = v /\ y.stream = st
  OBVIOUS
<1>4. \A f \in {"name", "stream", "num"} : y[f] = IF f = "stream" THEN st ELSE x[f]
  BY <1>1, <1>3
<1> QED BY <1>1, <1>2, <1>3, <1>4

(* Where a stream goes: a path whose last component has its name. *)
LEMMA LabelIs ==
  ASSUME NEW p, IsSeq(p), NEW stream
  PROVE  IsPath(Label(p, stream), stream)
<1> DEFINE q == IF p = <<>> /\ stream # "" THEN <<"">> ELSE p
           d == Directory(<<"ntfs">> \o q)
           n == Len(d)
           l == Label(p, stream)
<1>1. IsSeq(q)
  BY OneIs
<1>2. IsPath(d, "") /\ l = [d EXCEPT ![n].stream = stream]
  <2>1. l = [d EXCEPT ![n].stream = stream]
    BY DEF Label
  <2> HIDE DEF q
  <2> QED BY <1>1, <2>1, OutIs
<1> HIDE DEF q, d
<1>3. n \in Nat /\ n # 0 /\ DOMAIN d = 1..n
  BY <1>2, SeqHas DEF IsPath
<1>4. PICK name : d[n] = [name |-> name, stream |-> "", num |-> <<>>]
  BY <1>2 DEF IsPath
<1>5. [d[n] EXCEPT !.stream = stream] = [name |-> name, stream |-> stream, num |-> <<>>]
  <2>1. PICK x, none, u : x = d[n] /\ none = <<>> /\ u = ""
    OBVIOUS
  <2>2. x = [name |-> name, stream |-> u, num |-> none]
    BY <1>4, <2>1
  <2>3. [x EXCEPT !.stream = stream] = [name |-> name, stream |-> stream, num |-> none]
    BY <2>2, StreamPut
  <2> QED BY <2>1, <2>3
<1>6. l = [d EXCEPT ![n] = [d[n] EXCEPT !.stream = stream]]
  BY <1>2
<1>7. DOMAIN l = 1..n /\ l[n] = [name |-> name, stream |-> stream, num |-> <<>>]
  BY <1>3, <1>5, <1>6
<1>8. l = [k \in 1..n |-> l[k]]
  <2>1. l = [k \in 1..n |-> IF k = n THEN [d[n] EXCEPT !.stream = stream] ELSE d[k]]
    BY <1>3, <1>6
  <2> HIDE DEF l
  <2> QED BY <2>1
<1> HIDE DEF l
<1>9. IsSeq(l) /\ Len(l) = n
  BY <1>3, <1>7, <1>8, SeqIs
<1> QED BY <1>3, <1>7, <1>9 DEF IsPath, l

LEMMA StreamEmits ==
  ASSUME WalkInv, RecoverStream
  PROVE  WalkInv' /\ (report' = report \/ Reports(<<cursor.num, Head(streams).name>>))
<1> DEFINE s     == Head(streams)
           live  == Content(Here).used
           label == Label(PathOf(cursor.num), s.name)
           got   == IF opts.dry THEN [data |-> <<>>, whole |-> TRUE] ELSE ReadStream(s)
           id    == <<cursor.num, s.name>>
           size  == StreamSize(s)
           ok    == got.whole /\ ~live
           gone  == ~live
           rec   == [id |-> id, path |-> label,
                     out |-> FreeName(label, cursor.num), size |-> size,
                     data |-> got.data, validated |-> ok, deleted |-> gone]
<1>1. /\ stage = "files" /\ stage' = "files" /\ volume.fs = "ntfs"
      /\ volume' = volume /\ opts' = opts /\ lists' = lists /\ names' = names /\ paths' = paths
  BY DEF RecoverStream, fixed, known
<1>2. UNCHANGED outVars \/ Emit(rec)
  BY DEF RecoverStream
<1>3. IsPath(label, s.name)
  BY <1>1, PathOfIs, LabelIs
<1>4. KeyOf(id) = <<cursor.num, s.name>>
  BY <1>1 DEF KeyOf
<1>5. id = <<cursor.num, Head(streams).name>>
  OBVIOUS
<1> HIDE DEF s, live, label, got, id, size, ok, gone
<1>6. CASE UNCHANGED outVars
  BY <1>1, <1>6, WalksQuietly DEF outVars, Quiet
<1>7. CASE Emit(rec)
  BY <1>1, <1>3, <1>4, <1>5, <1>7, WalkEmits
<1> QED BY <1>2, <1>6, <1>7

NtfsQuiet ==
  \/ NtfsOpen \/ SkipHole \/ LastRun \/ ReadBlock \/ PastTable \/ NameRecord \/ FileRecord
  \/ UNCHANGED <<undeleteVars, ntfsVars>>

LEMMA NtfsIsQuiet ==
  ASSUME NtfsQuiet
  PROVE  Quiet /\ (stage' \in {"files", "done"} => stage \in {"files", "done"} /\ names' = names)
<1>1. CASE NtfsOpen
  BY <1>1, ZenonT(40) DEF NtfsOpen, fixed, known, outVars, Quiet
<1>2. CASE SkipHole \/ PastTable \/ FileRecord \/ UNCHANGED <<undeleteVars, ntfsVars>>
  BY <1>2 DEF SkipHole, PastTable, FileRecord, undeleteVars, fixed, known, outVars, Quiet
<1>3. CASE LastRun \/ ReadBlock
  <2>1. stage \in {"names", "files"}
    BY <1>3 DEF LastRun, ReadBlock, InPass
  <2>2. \/ UNCHANGED <<fixed, known, outVars>> /\ stage' = stage
        \/ EndPass
    BY <1>3 DEF LastRun, ReadBlock
  <2> QED BY <2>1, <2>2 DEF EndPass, fixed, known, outVars, Quiet
<1>4. CASE NameRecord
  <2>1. stage = "names" /\ UNCHANGED <<fixed, at, paths, stage, outVars, mft, streams>>
    BY <1>4, Zenon DEF NameRecord
  <2> QED BY <2>1 DEF fixed, outVars, Quiet
<1> QED BY <1>1, <1>2, <1>3, <1>4 DEF NtfsQuiet

LEMMA NtfsKeeps ==
  ASSUME WalkInv, [NtfsStep]_<<undeleteVars, ntfsVars>>
  PROVE  WalkInv'
<1>1. CASE NtfsQuiet
  BY <1>1, NtfsIsQuiet, WalksQuietly
<1>2. CASE NtfsPath
  <2>1. IsSeq(<<"_deep_">>) /\ IsSeq(<<"_orphan_">>)
    BY OneIs
  <2> DEFINE w == [root |-> 5, deep |-> <<"_deep_">>, orphan |-> <<"_orphan_">>, cut |-> Reused]
  <2>2. WalkPath("ntfs", w) /\ IsSeq(w.deep) /\ IsSeq(w.orphan)
    BY <1>2, <2>1 DEF NtfsPath
  <2> HIDE DEF w
  <2> QED BY <2>2, WalksOn
<1>3. CASE NtfsPathsKnown
  BY <1>3, PathsNowKnown DEF NtfsPathsKnown
<1>4. CASE RecoverStream
  BY <1>4, StreamEmits
<1>5. CASE NtfsList
  BY <1>5, WalkLists DEF NtfsList
<1> QED BY <1>1, <1>2, <1>3, <1>4, <1>5 DEF NtfsStep, NtfsQuiet

(* The records of the table. *)
MftRecords == DOMAIN volume.records

LEMMA RecordAtIs ==
  ASSUME IsNtfs(volume), NEW a
  PROVE  RecordAt(a) \in MftRecords \cup {Nothing}
<1> DEFINE cells == a..(a + RecordSize - 1)
           whole == {n \in DOMAIN volume.records :
                       \A c \in cells : c \in DOMAIN volume.table /\ volume.table[c] = <<n, c - a>>}
<1>1. RecordAt(a) = IF a + RecordSize > Len(volume.cells) \/ whole = {} THEN Nothing ELSE Min(whole)
  BY DEF RecordAt
<1>2. whole \subseteq MftRecords /\ MftRecords \subseteq Nat
  BY DEF IsNtfs, MftRecords
<1> HIDE DEF whole
<1>3. ASSUME whole # {} PROVE Min(whole) \in whole
  <2>1. \E x \in whole : \A y \in whole : x <= y
    BY <1>2, <1>3, LeastElement
  <2> QED BY <2>1, Zenon DEF Min
<1> QED BY <1>1, <1>2, <1>3

LEMMA RecordIs ==
  ASSUME IsNtfs(volume), NEW num
  PROVE  Record(num) \in MftRecords \cup {Nothing}
BY RecordAtIs DEF Record

LEMMA LeastIs ==
  ASSUME NEW a \in Nat, NEW b \in Nat
  PROVE  Least(a, b) \in Nat /\ Least(a, b) <= a
BY DEF Least

LEMMA JoinIs ==
  ASSUME NEW S, NEW a \in Seq(S), NEW b \in Seq(S)
  PROVE  a \o b \in Seq(S) /\ Len(a \o b) = Len(a) + Len(b) /\ Len(a) \in Nat /\ Len(b) \in Nat
OBVIOUS

LEMMA ExtendedIs ==
  ASSUME IsNtfs(volume), NEW r \in MftRecords, NEW num
  PROVE  Extended(r, num) \in Seq(MftRecords) /\ Len(Extended(r, num)) # 0
<1> DEFINE list  == Content(r).list
           new   == [k \in DOMAIN list |-> list[k] # num /\ \A j \in 1..(k - 1) : list[j] # list[k]]
           refs  == Picked(list, new)
           count == Least(Len(refs), ListCap)
           part(k) == Record(refs[k])
           seen == [k \in 1..count |-> part(k)]
           there == [k \in DOMAIN seen |-> seen[k] # Nothing]
           rest  == Picked(seen, there)
           Some  == MftRecords \cup {Nothing}
<1>1. Extended(r, num) = <<r>> \o rest
  BY DEF Extended
<1>2. list \in Seq(Nat)
  BY DEF IsNtfs, MftRecords, Content
<1> HIDE DEF list, new
<1>3. refs \in Seq(Nat)
  BY <1>2, PickedIs
<1> HIDE DEF refs
<1>4. count \in Nat
  <2>1. Len(refs) \in Nat /\ ListCap \in Nat
    BY <1>3, NtfsAssumption
  <2> QED BY <2>1, LeastIs
<1>5. \A k \in 1..count : part(k) \in Some
  BY RecordIs
<1> HIDE DEF count, part, Some
<1>6. seen \in Seq(Some) /\ Len(seen) = count /\ DOMAIN seen = 1..count
  BY <1>4, <1>5
<1> HIDE DEF seen
<1>7. rest \in Seq(Some) /\ Picks(rest, seen, there, Len(seen))
  BY <1>6, PickedIs
<1> HIDE DEF rest
<1>8. rest \in Seq(MftRecords)
  <2>1. PICK f : PicksBy(f, rest, seen, there, Len(seen))
    BY <1>7 DEF Picks
  <2>2. ASSUME NEW i \in 1..Len(rest) PROVE rest[i] \in MftRecords
    <3>1. f[i] \in DOMAIN seen /\ there[f[i]] /\ rest[i] = seen[f[i]]
      BY <1>6, <2>1 DEF PicksBy
    <3>2. seen[f[i]] # Nothing
      BY <3>1
    <3>3. rest[i] \in Some
      BY <1>7
    <3> QED BY <3>1, <3>2, <3>3 DEF Some
  <2> QED BY <1>7, <2>2
<1>9. <<r>> \in Seq(MftRecords) /\ Len(<<r>>) = 1
  OBVIOUS
<1>10. <<r>> \o rest \in Seq(MftRecords) /\ Len(<<r>> \o rest) = 1 + Len(rest) /\ Len(rest) \in Nat
  <2> DEFINE one == <<r>>
  <2> HIDE DEF one
  <2>1. one \in Seq(MftRecords) /\ Len(one) = 1
    BY <1>9 DEF one
  <2>2. one \o rest \in Seq(MftRecords) /\ Len(one \o rest) = Len(one) + Len(rest) /\ Len(rest) \in Nat
    BY <1>8, <2>1, JoinIs
  <2> QED BY <2>1, <2>2 DEF one
<1> QED BY <1>1, <1>10

(* Sequences, one after the other. *)
LEMMA FlatIs ==
  ASSUME NEW S, NEW ss \in Seq(Seq(S))
  PROVE  FlattenSeq(ss) \in Seq(S)
<1> DEFINE n == Len(ss)
           X == Seq(S)
           Flat(u) == u = [i \in 1..n |-> IF i = 1 THEN ss[i] ELSE u[i - 1] \o ss[i]]
           d == [y \in X \X (1..n) |-> IF y[2] = 1 THEN ss[1] ELSE y[1] \o ss[y[2]]]
           g == CHOOSE u : Flat(u)
<1>1. n \in Nat /\ <<>> \in X
  OBVIOUS
<1>2. CASE n = 0
  <2>1. FlattenSeq(ss) = ss /\ ss = <<>>
    BY <1>2 DEF FlattenSeq
  <2> QED BY <2>1, <1>1
<1>3. CASE n # 0
  <2>1. FlattenSeq(ss) = g[n]
    BY <1>3 DEF FlattenSeq
  <2>2. \A i \in 1..n : ss[i] \in X
    OBVIOUS
  <2>3. d \in [X \X (1..n) -> X]
    <3> SUFFICES ASSUME NEW a \in X, NEW k \in 1..n PROVE (IF k = 1 THEN ss[1] ELSE a \o ss[k]) \in X
      OBVIOUS
    <3>1. ss[k] \in Seq(S) /\ a \in Seq(S)
      BY <2>2
    <3>2. a \o ss[k] \in Seq(S)
      BY <3>1
    <3> QED BY <3>1, <3>2
  <2>4. PICK h : IsLoop(h, n, X, <<>>, d)
    <3> HIDE DEF d, n, X
    <3> QED BY <1>1, <2>3, LoopExists
  <2>5. h \in [0..n -> X] /\ h = [k \in 0..n |-> IF k = 0 THEN <<>> ELSE d[<<h[k - 1], k>>]]
    BY <2>4 DEF IsLoop
  <2>6. \A k \in 1..n : h[k] = IF k = 1 THEN ss[k] ELSE h[k - 1] \o ss[k]
    <3> SUFFICES ASSUME NEW k \in 1..n PROVE h[k] = IF k = 1 THEN ss[k] ELSE h[k - 1] \o ss[k]
      OBVIOUS
    <3>1. k \in 0..n /\ k # 0 /\ k - 1 \in 0..n
      BY <1>1
    <3>2. <<h[k - 1], k>> \in X \X (1..n)
      BY <2>5, <3>1
    <3>3. h[k] = d[<<h[k - 1], k>>]
      <4> HIDE DEF d, n, X
      <4> QED BY <2>5, <3>1
    <3> QED BY <3>2, <3>3
  <2>7. Flat([k \in 1..n |-> h[k]])
    <3>1. ASSUME NEW k \in 1..n, k # 1 PROVE k - 1 \in 1..n
      BY <1>1, <3>1
    <3> QED BY <2>6, <3>1
  <2>8. Flat(g)
    <3> HIDE DEF Flat
    <3> QED BY <2>7
  <2> HIDE DEF g, d
  <2> DEFINE K == {k \in 0..n : k # 0 => g[k] \in X}
  <2>9. 0 \in K
    BY <1>1
  <2>10. ASSUME NEW k \in 0..(n - 1), k \in K PROVE k + 1 \in K
    <3>1. k + 1 \in 1..n /\ k + 1 # 0 /\ k + 1 \in 0..n /\ (k + 1) - 1 = k
      BY <1>1
    <3>2. g[k + 1] = IF k + 1 = 1 THEN ss[k + 1] ELSE g[k] \o ss[k + 1]
      BY <2>8, <3>1
    <3>3. ss[k + 1] \in Seq(S)
      BY <2>2, <3>1
    <3>4. CASE k = 0
      BY <3>1, <3>2, <3>3, <3>4
    <3>5. CASE k # 0
      <4>1. g[k] \in Seq(S) /\ k + 1 # 1
        BY <2>10, <3>5
      <4>2. g[k] \o ss[k + 1] \in Seq(S)
        BY <3>3, <4>1
      <4> QED BY <3>1, <3>2, <4>1, <4>2
    <3> QED BY <3>4, <3>5
  <2>11. 0..n \subseteq K
    <3> HIDE DEF K, n
    <3> QED BY <1>1, <2>9, <2>10, UpTo
  <2> QED BY <1>1, <1>3, <2>1, <2>11
<1> QED BY <1>2, <1>3

(* The names of the streams are apart. *)
NamesApart(ss) == IsSeq(ss) /\ \A j, k \in DOMAIN ss : ss[j].name = ss[k].name => j = k

LEMMA JoinedName ==
  ASSUME NEW slices \in Seq(NtfsStreams), Len(slices) # 0
  PROVE  Joined(slices).name = slices[1].name
<1>1. slices[1] \in NtfsStreams /\ Head(slices) = slices[1]
  OBVIOUS
<1>2. "name" \in DOMAIN slices[1]
  BY <1>1 DEF NtfsStreams
<1> DEFINE h == slices[1]
<1>3. \E a, b, c, d : Joined(slices) = [h EXCEPT !.runs = a, !.mapped = b, !.resident = c, !.size = d]
  BY <1>1, Zenon DEF Joined
<1>4. PICK a, b, c, d : Joined(slices) = [h EXCEPT !.runs = a, !.mapped = b, !.resident = c, !.size = d]
  BY <1>3
<1> HIDE DEF h
<1> QED BY <1>2, <1>4 DEF h

LEMMA StreamsAre ==
  ASSUME IsNtfs(volume), NEW r \in MftRecords, NEW num
  PROVE  NamesApart(Streams(Extended(r, num)))
<1> DEFINE whole  == Extended(r, num)
           each   == [k \in DOMAIN whole |-> Content(whole[k]).streams]
           slices == FlattenSeq(each)
           first  == [k \in DOMAIN slices |-> \A j \in 1..(k - 1) : slices[j].name # slices[k].name]
           firsts == Picked(slices, first)
           same(s) == [k \in DOMAIN slices |-> slices[k].name = s.name]
           of(s)  == Picked(slices, same(s))
           ss     == Streams(Extended(r, num))
<1>1. ss = [k \in DOMAIN firsts |-> Joined(of(firsts[k]))]
  BY DEF Streams
<1>2. slices \in Seq(NtfsStreams)
  <2>1. whole \in Seq(MftRecords) /\ DOMAIN whole = 1..Len(whole) /\ Len(whole) \in Nat
    BY ExtendedIs
  <2>2. \A k \in 1..Len(whole) : Content(whole[k]).streams \in Seq(NtfsStreams)
    BY <2>1 DEF IsNtfs, MftRecords, Content
  <2>3. each \in Seq(Seq(NtfsStreams))
    <3> HIDE DEF whole
    <3> QED BY <2>1, <2>2
  <2> HIDE DEF each
  <2> QED BY <2>3, FlatIs
<1> HIDE DEF slices, ss
<1>3. firsts \in Seq(NtfsStreams) /\ Picks(firsts, slices, first, Len(slices))
  BY <1>2, PickedIs
<1> HIDE DEF firsts
<1>4. PICK f : PicksBy(f, firsts, slices, first, Len(slices))
  BY <1>3 DEF Picks
<1>5. Len(firsts) \in Nat /\ DOMAIN firsts = 1..Len(firsts) /\ Len(slices) \in Nat /\ DOMAIN slices = 1..Len(slices)
  BY <1>2, <1>3
<1>6. ASSUME NEW k \in 1..Len(firsts)
      PROVE  f[k] \in 1..Len(slices) /\ first[f[k]] /\ firsts[k] = slices[f[k]]
  BY <1>4 DEF PicksBy
<1>7. ASSUME NEW j \in 1..Len(firsts), NEW k \in 1..Len(firsts), j < k
      PROVE  firsts[j].name # firsts[k].name
  <2>1. f[j] < f[k]
    BY <1>4, <1>7 DEF PicksBy
  <2>2. f[j] \in 1..(f[k] - 1)
    <3>1. f[j] \in 1..Len(slices) /\ f[k] \in 1..Len(slices) /\ Len(slices) \in Nat
      BY <1>5, <1>6
    <3> HIDE DEF first
    <3> QED BY <2>1, <3>1
  <2>3. \A i \in 1..(f[k] - 1) : slices[i].name # slices[f[k]].name
    BY <1>5, <1>6
  <2> QED BY <1>6, <2>2, <2>3
<1>8. ASSUME NEW k \in 1..Len(firsts)
      PROVE  Joined(of(firsts[k])).name = firsts[k].name
  <2> DEFINE s == firsts[k]
             keep == same(s)
             w == Picked(slices, keep)
  <2>1. keep[f[k]] /\ f[k] \in 1..Len(slices)
    BY <1>5, <1>6
  <2>2. \A i \in 1..Len(slices) : keep[i] => slices[i].name = s.name
    BY <1>5
  <2> HIDE DEF keep
  <2>3. w \in Seq(NtfsStreams) /\ Picks(w, slices, keep, Len(slices))
    BY <1>2, PickedIs
  <2> HIDE DEF w
  <2>4. PICK g : PicksBy(g, w, slices, keep, Len(slices))
    BY <2>3 DEF Picks
  <2>5. \E i \in 1..Len(w) : g[i] = f[k]
    BY <2>1, <2>4 DEF PicksBy
  <2>6. Len(w) # 0 /\ 1 \in 1..Len(w)
    BY <2>3, <2>5
  <2>7. g[1] \in 1..Len(slices) /\ keep[g[1]] /\ w[1] = slices[g[1]]
    BY <2>4, <2>6 DEF PicksBy
  <2>8. w[1].name = s.name
    BY <2>2, <2>7
  <2>9. Joined(w).name = w[1].name
    BY <2>3, <2>6, JoinedName
  <2> QED BY <2>8, <2>9 DEF w, keep
<1> HIDE DEF of
<1>9. ss = [k \in 1..Len(firsts) |-> ss[k]] /\ DOMAIN ss = 1..Len(firsts)
  BY <1>1, <1>5
<1>10. \A k \in 1..Len(firsts) : ss[k].name = firsts[k].name
  BY <1>1, <1>5, <1>8
<1>11. ASSUME NEW j \in DOMAIN ss, NEW k \in DOMAIN ss, ss[j].name = ss[k].name PROVE j = k
  BY <1>5, <1>7, <1>9, <1>10, <1>11
<1>12. IsSeq(ss)
  BY <1>5, <1>9, SeqIs
<1> QED BY <1>11, <1>12 DEF NamesApart, ss

-----------------------------------------------------------------------------
(* Where the second pass is: what was reported is of records behind this   *)
(* one, or of this one and not among its streams that are still to come.   *)
Passed(n, name) ==
  \/ n < cursor.num
  \/ n = cursor.num /\ streams # <<>> /\ \A k \in DOMAIN streams : streams[k].name # name

IsBehind(id) == \E n, name : n \in Nat /\ id = <<n, name>> /\ Passed(n, name)

NtfsType ==
  /\ IsNtfs(volume) /\ mft \in Seq(NtfsRuns)
  /\ "run" \in DOMAIN cursor /\ "num" \in DOMAIN cursor /\ cursor.run \in Nat \ {0} /\ cursor.num \in Nat

NtfsInv ==
  /\ WalkInv /\ ReportedOnce /\ NtfsType
  /\ stage \notin {"files", "done", "listed"} => report = <<>>
  /\ stage = "files" => NamesApart(streams) /\ \A id \in ReportedIds : IsBehind(id)
  /\ stage # "files" => streams = <<>>

LEMMA RunIs ==
  ASSUME NtfsType, cursor.run <= Len(mft)
  PROVE  Run \in NtfsRuns /\ RunCells(Run) \in Nat /\ RunCells(Run) \div RecordSize \in Nat
<1>1. cursor.run \in 1..Len(mft) /\ mft \in Seq(NtfsRuns)
  BY DEF NtfsType
<1>2. Run \in NtfsRuns
  BY <1>1 DEF Run
<1>3. Run.count \in Nat /\ volume.cluster \in Nat
  BY <1>2 DEF NtfsRuns, NtfsType, IsNtfs
<1>4. RunCells(Run) \in Nat
  BY <1>3 DEF RunCells
<1>5. \A a \in Nat : a \div RecordSize \in Nat
  BY NtfsAssumption
<1> QED BY <1>2, <1>4, <1>5

(* The cursor goes on: the number of the record never goes back.           *)
CursorOn ==
  /\ "run" \in DOMAIN cursor' /\ "num" \in DOMAIN cursor' /\ cursor'.run \in Nat \ {0} /\ cursor'.num \in Nat
  /\ cursor.num <= cursor'.num

LEMMA CursorMoves ==
  ASSUME NtfsType, DOMAIN cursor' = DOMAIN cursor, NEW a \in Nat, NEW b \in Nat,
         cursor'.run = cursor.run + a, cursor'.num = cursor.num + b
  PROVE  CursorOn
<1>1. "run" \in DOMAIN cursor' /\ "num" \in DOMAIN cursor'
  BY DEF NtfsType
<1>2. cursor.run \in Nat \ {0} /\ cursor.num \in Nat
  BY DEF NtfsType
<1>3. \A n \in Nat, m \in Nat : n + m \in Nat /\ n <= n + m /\ (n # 0 => n + m # 0)
  OBVIOUS
<1>4. cursor'.run \in Nat \ {0}
  BY <1>2, <1>3
<1>5. cursor'.num \in Nat /\ cursor.num <= cursor'.num
  BY <1>2, <1>3
<1> QED BY <1>1, <1>4, <1>5 DEF CursorOn

CursorFills == \E a, b : cursor' = [cursor EXCEPT !.done = a, !.at = 0, !.got = b]

LEMMA CursorGoesOn ==
  ASSUME NtfsType, SkipHole \/ NextRun \/ NextRecord \/ cursor' = cursor \/ CursorFills
  PROVE  CursorOn
<1>0. "run" \in DOMAIN cursor /\ "num" \in DOMAIN cursor /\ cursor.run \in Nat \ {0} /\ cursor.num \in Nat
  BY DEF NtfsType
<1>1. CASE SkipHole
  <2> DEFINE more == RunCells(Run) \div RecordSize
  <2>1. cursor' = [cursor EXCEPT !.run = @ + 1, !.num = @ + more]
    BY <1>1 DEF SkipHole
  <2>2. more \in Nat
    BY <1>1, RunIs DEF SkipHole
  <2> HIDE DEF more
  <2>3. DOMAIN cursor' = DOMAIN cursor /\ cursor'.run = cursor.run + 1 /\ cursor'.num = cursor.num + more
    BY <1>0, <2>1
  <2> QED BY <2>2, <2>3, CursorMoves
<1>2. CASE NextRun
  BY <1>0, <1>2 DEF NextRun, CursorOn
<1>3. CASE NextRecord
  <2>1. DOMAIN cursor' = DOMAIN cursor /\ cursor'.run = cursor.run + 0 /\ cursor'.num = cursor.num + 1
    BY <1>0, <1>3 DEF NextRecord
  <2> QED BY <2>1, CursorMoves
<1>4. CASE cursor' = cursor
  BY <1>0, <1>4 DEF CursorOn
<1>5. CASE CursorFills
  <2>1. PICK a, b : cursor' = [cursor EXCEPT !.done = a, !.at = 0, !.got = b]
    BY <1>5 DEF CursorFills
  <2>2. DOMAIN cursor' = DOMAIN cursor /\ cursor'.run = cursor.run /\ cursor'.num = cursor.num
    BY <1>0, <2>1
  <2> QED BY <1>0, <2>2 DEF CursorOn
<1> QED BY <1>1, <1>2, <1>3, <1>4, <1>5

LEMMA StaysBehind ==
  ASSUME NtfsType, NEW id, IsBehind(id), streams = <<>>, CursorOn
  PROVE  IsBehind(id)'
<1>1. PICK n, name : n \in Nat /\ id = <<n, name>> /\ Passed(n, name)
  BY Zenon DEF IsBehind
<1>2. cursor.num \in Nat /\ cursor'.num \in Nat /\ cursor.num <= cursor'.num
  BY DEF NtfsType, CursorOn
<1>3. Passed(n, name)'
  BY <1>1, <1>2 DEF Passed
<1> QED BY <1>1, <1>3, Zenon DEF IsBehind

(* A step of a pass that finds nothing. *)
LEMMA PassGoesOn ==
  ASSUME NtfsInv, Quiet, mft' = mft, streams' = streams, streams = <<>>, stage' = stage, CursorOn,
         stage \in {"names", "files"}, stage = "files" => names' = names
  PROVE  NtfsInv'
<1>1. WalkInv'
  BY WalksQuietly DEF NtfsInv
<1>2. ReportedIds' = ReportedIds /\ ReportedOnce'
  BY SameReport DEF NtfsInv, Quiet
<1>3. NtfsType'
  BY DEF NtfsInv, NtfsType, Quiet, CursorOn
<1>4. stage = "files" => NamesApart(streams)' /\ \A id \in ReportedIds' : IsBehind(id)'
  <2>1. stage = "files" => NamesApart(streams)'
    BY DEF NtfsInv, NamesApart
  <2>2. ASSUME stage = "files", NEW id \in ReportedIds PROVE IsBehind(id)'
    BY <2>2, StaysBehind DEF NtfsInv
  <2> QED BY <1>2, <2>1, <2>2
<1> QED BY <1>1, <1>2, <1>3, <1>4 DEF NtfsInv, Quiet

LEMMA PassEnds ==
  ASSUME NtfsInv, EndPass, streams = <<>>, stage \in {"names", "files"}
  PROVE  NtfsInv'
<1>1. Quiet /\ stage' \in {"paths", "done"} /\ (stage' = "done" => stage = "files") /\ names' = names
  BY DEF EndPass, fixed, known, outVars, Quiet
<1>2. WalkInv'
  BY <1>1, WalksQuietly DEF NtfsInv
<1>3. ReportedIds' = ReportedIds /\ ReportedOnce'
  BY <1>1, SameReport DEF NtfsInv, Quiet
<1>4. NtfsType'
  BY <1>1 DEF EndPass, NoCursor, NtfsInv, NtfsType, Quiet
<1>5. stage' = "paths" => stage = "names"
  BY DEF EndPass
<1>6. streams' = <<>> /\ report' = report
  BY <1>1 DEF EndPass, Quiet
<1> QED BY <1>1, <1>2, <1>3, <1>4, <1>5, <1>6 DEF NtfsInv

LEMMA NtfsOpens ==
  ASSUME NtfsInv, NtfsOpen
  PROVE  NtfsInv'
<1> DEFINE zero == RecordAt(volume.mftLcn * volume.cluster)
           all  == IF zero = Nothing THEN <<>> ELSE Content(zero).streams
           data == {k \in DOMAIN all : all[k].name = "" /\ all[k].mapped}
<1>1. stage = "open" /\ stage' \in {"names", "failed"}
      /\ (mft' = mft \/ (data # {} /\ mft' = all[Max(data)].runs))
  BY ZenonT(60) DEF NtfsOpen
<1>2. Quiet /\ names' = names /\ cursor' = cursor /\ streams' = streams
  BY ZenonT(40) DEF NtfsOpen, fixed, known, outVars, Quiet
<1>3. all \in Seq(NtfsStreams)
  <2>1. zero \in MftRecords \cup {Nothing}
    BY RecordAtIs DEF NtfsInv, NtfsType
  <2> QED BY <2>1 DEF NtfsInv, NtfsType, IsNtfs, MftRecords, Content
<1> HIDE DEF all
<1>4. ASSUME data # {} PROVE all[Max(data)].runs \in Seq(NtfsRuns)
  <2>0. data \subseteq DOMAIN all
    BY Zenon
  <2>1. Len(all) \in Nat /\ DOMAIN all = 1..Len(all)
    BY <1>3
  <2> HIDE DEF data
  <2>2. Max(data) \in 1..Len(all)
    BY <1>4, <2>0, <2>1, PlacesHaveEnds
  <2>3. all[Max(data)] \in NtfsStreams
    BY <1>3, <2>1, <2>2
  <2> QED BY <2>3 DEF NtfsStreams
<1>5. NtfsType'
  <2>1. mft' \in Seq(NtfsRuns)
    BY <1>1, <1>4 DEF NtfsInv, NtfsType
  <2> QED BY <1>2, <2>1 DEF NtfsInv, NtfsType, Quiet
<1>6. WalkInv'
  BY <1>1, <1>2, WalksQuietly DEF NtfsInv
<1>7. ReportedIds' = ReportedIds /\ ReportedOnce' /\ report' = report
  BY <1>2, SameReport DEF NtfsInv, Quiet
<1>8. stage' # "files" /\ streams' = <<>> /\ report' = <<>>
  BY <1>1, <1>2, <1>7 DEF NtfsInv
<1> QED BY <1>5, <1>6, <1>7, <1>8, Zenon DEF NtfsInv

LEMMA FileRecordKeeps ==
  ASSUME NtfsInv, FileRecord
  PROVE  NtfsInv'
<1>1. stage = "files" /\ stage' = stage /\ streams = <<>> /\ Quiet /\ mft' = mft /\ names' = names
  BY DEF FileRecord, TakeRecord, InPass, fixed, known, outVars, Quiet
<1>2. CASE NextRecord /\ streams' = streams
  <2>1. CursorOn
    BY <1>2, CursorGoesOn DEF NtfsInv
  <2> QED BY <1>1, <1>2, <2>1, PassGoesOn
<1>3. CASE Here # Nothing /\ streams' = Streams(Extended(Here, cursor.num)) /\ cursor' = cursor
  <2>1. Here \in MftRecords
    <3>1. Here \in MftRecords \cup {Nothing}
      BY RecordAtIs DEF NtfsInv, NtfsType, Here
    <3> QED BY <1>3, <3>1
  <2>2. NamesApart(streams')
    BY <1>3, <2>1, StreamsAre DEF NtfsInv, NtfsType
  <2>3. WalkInv'
    BY <1>1, WalksQuietly DEF NtfsInv
  <2>4. ReportedIds' = ReportedIds /\ ReportedOnce'
    BY <1>1, SameReport DEF NtfsInv, Quiet
  <2>5. ASSUME NEW id \in ReportedIds PROVE IsBehind(id)'
    <3>1. CursorOn
      BY <1>3, CursorGoesOn DEF NtfsInv
    <3> QED BY <1>1, <2>5, <3>1, StaysBehind DEF NtfsInv
  <2>6. NtfsType'
    BY <1>1, <1>3 DEF NtfsInv, NtfsType, Quiet
  <2>7. NamesApart(streams)'
    BY <2>2 DEF NamesApart
  <2> QED BY <1>1, <2>3, <2>4, <2>5, <2>6, <2>7 DEF NtfsInv, Quiet
<1>4. \/ NextRecord /\ streams' = streams
      \/ Here # Nothing /\ streams' = Streams(Extended(Here, cursor.num)) /\ cursor' = cursor
  BY DEF FileRecord
<1> QED BY <1>2, <1>3, <1>4

(* One more stream of the record. *)
LEMMA TailIs ==
  ASSUME NEW ss, IsSeq(ss), ss # <<>>, NamesApart(ss)
  PROVE  /\ NamesApart(Tail(ss)) /\ \A k \in DOMAIN Tail(ss) : Tail(ss)[k].name # Head(ss).name
         /\ \A k \in DOMAIN Tail(ss) : \E j \in DOMAIN ss : Tail(ss)[k] = ss[j]
         /\ Head(ss) = ss[1] /\ 1 \in DOMAIN ss /\ (Tail(ss) = <<>> <=> Len(ss) = 1)
<1> DEFINE T == {ss[k] : k \in DOMAIN ss}
           t == Tail(ss)
<1>1. ss \in Seq(T)
  BY DEF IsSeq
<1>2. \A k \in DOMAIN ss : ss[k] \in T
  OBVIOUS
<1> HIDE DEF T
<1>3. /\ t \in Seq(T) /\ Len(t) = Len(ss) - 1 /\ Len(ss) \in Nat \ {0} /\ DOMAIN ss = 1..Len(ss)
      /\ DOMAIN t = 1..Len(t) /\ Head(ss) = ss[1] /\ Len(t) \in Nat
  BY <1>1
<1>4. \A k \in 1..Len(t) : t[k] = ss[k + 1]
  BY <1>1
<1> HIDE DEF t
<1>5. \A k \in 1..Len(t) : k + 1 \in DOMAIN ss /\ k + 1 # 1 /\ k \in Nat
  BY <1>3
<1>6. 1 \in DOMAIN ss
  BY <1>3
<1>7. IsSeq(t)
  BY <1>3, WithinSeq
<1>8. ASSUME NEW j \in DOMAIN t, NEW k \in DOMAIN t, t[j].name = t[k].name PROVE j = k
  <2>1. t[j] = ss[j + 1] /\ t[k] = ss[k + 1] /\ j + 1 \in DOMAIN ss /\ k + 1 \in DOMAIN ss /\ j \in Nat /\ k \in Nat
    BY <1>3, <1>4, <1>5
  <2>2. j + 1 = k + 1
    BY <1>8, <2>1 DEF NamesApart
  <2> QED BY <2>1, <2>2
<1>9. ASSUME NEW k \in DOMAIN t PROVE t[k].name # Head(ss).name /\ \E j \in DOMAIN ss : t[k] = ss[j]
  BY <1>3, <1>4, <1>5, <1>6 DEF NamesApart
<1>10. t = <<>> <=> Len(ss) = 1
  BY <1>3
<1> QED BY <1>3, <1>6, <1>7, <1>8, <1>9, <1>10 DEF NamesApart, t

LEMMA RecoverKeeps ==
  ASSUME NtfsInv, RecoverStream
  PROVE  NtfsInv'
<1>0. PICK c, name : c = cursor.num /\ name = Head(streams).name
  OBVIOUS
<1> DEFINE id == <<c, name>>
<1>1. /\ stage = "files" /\ stage' = "files" /\ streams # <<>> /\ StreamDone
      /\ volume' = volume /\ mft' = mft /\ names' = names
  BY DEF RecoverStream, fixed, known
<1>2. WalkInv' /\ (report' = report \/ Reports(id))
  BY <1>0, StreamEmits DEF NtfsInv
<1>3. NamesApart(streams) /\ IsSeq(streams) /\ \A i \in ReportedIds : IsBehind(i)
  BY <1>1 DEF NtfsInv, NamesApart
<1>4. /\ NamesApart(Tail(streams)) /\ \A k \in DOMAIN Tail(streams) : Tail(streams)[k].name # Head(streams).name
      /\ \A k \in DOMAIN Tail(streams) : \E j \in DOMAIN streams : Tail(streams)[k] = streams[j]
      /\ Head(streams) = streams[1] /\ 1 \in DOMAIN streams /\ (Tail(streams) = <<>> <=> Len(streams) = 1)
  BY <1>1, <1>3, TailIs
<1>5. streams' = Tail(streams)
  BY <1>1 DEF StreamDone
<1>6. streams' = <<>> => NextRecord
  BY <1>1, <1>4, <1>5 DEF StreamDone
<1>7. streams' # <<>> => cursor' = cursor
  BY <1>1, <1>4, <1>5 DEF StreamDone
<1>8. cursor.num \in Nat /\ c \in Nat /\ CursorOn
  <2>1. NtfsType /\ cursor.num \in Nat
    BY DEF NtfsInv, NtfsType
  <2> QED BY <1>0, <1>6, <1>7, <2>1, CursorGoesOn
<1>9. streams' = <<>> => cursor'.num = cursor.num + 1
  BY <1>6 DEF NextRecord, NtfsInv, NtfsType
<1> DEFINE Over(n, other) ==
             \/ n < cursor.num
             \/ n = cursor.num /\ \A k \in DOMAIN Tail(streams) : Tail(streams)[k].name # other
<1>10. ASSUME NEW n \in Nat, NEW other, Over(n, other) PROVE Passed(n, other)'
  <2>2. CASE streams' = <<>>
    <3>1. n < cursor'.num
      BY <1>8, <1>9, <1>10, <2>2
    <3> QED BY <3>1 DEF Passed
  <2>3. CASE streams' # <<>>
    <3>1. \/ n < cursor'.num
          \/ n = cursor'.num /\ \A k \in DOMAIN streams' : streams'[k].name # other
      BY <1>5, <1>7, <1>10, <2>3
    <3> QED BY <2>3, <3>1 DEF Passed
  <2> QED BY <2>2, <2>3
<1>16. Over(c, name)
  BY <1>0, <1>4
<1>17. ASSUME NEW n \in Nat, NEW other, Passed(n, other)
       PROVE  Over(n, other) /\ ~(n = c /\ other = name)
  <2>1. CASE n < cursor.num
    <3>1. n # c
      <4> HIDE DEF Over
      <4> QED BY <1>0, <1>8, <2>1
    <3>2. Over(n, other)
      BY <2>1
    <3> HIDE DEF Over
    <3> QED BY <3>1, <3>2
  <2>2. CASE n = cursor.num /\ \A k \in DOMAIN streams : streams[k].name # other
    <3>1. \A k \in DOMAIN Tail(streams) : Tail(streams)[k].name # other
      BY <1>4, <2>2
    <3>2. streams[1].name # other /\ name = streams[1].name
      BY <1>0, <1>4, <2>2
    <3> QED BY <2>2, <3>1, <3>2
  <2> QED BY <1>17, <2>1, <2>2 DEF Passed
<1> HIDE DEF Over
<1>18. ASSUME NEW n \in Nat, NEW other, Passed(n, other)' PROVE IsBehind(<<n, other>>)'
  BY <1>18, Zenon DEF IsBehind
<1>19. ASSUME NEW i, IsBehind(i) PROVE IsBehind(i)'
  BY <1>10, <1>17, <1>19, Zenon DEF IsBehind
<1>11. id \notin ReportedIds
  <2> SUFFICES ASSUME IsBehind(id) PROVE FALSE
    BY <1>3
  <2>1. PICK n, other : n \in Nat /\ id = <<n, other>> /\ Passed(n, other)
    BY Zenon DEF IsBehind
  <2>2. n = c /\ other = name
    BY <2>1
  <2> QED BY <1>17, <2>1, <2>2
<1>12. NtfsType'
  BY <1>1, <1>8 DEF NtfsInv, NtfsType, CursorOn
<1>13. NamesApart(streams)'
  BY <1>4, <1>5 DEF NamesApart
<1> HIDE DEF id
<1>14. ReportedOnce' /\ \A i \in ReportedIds' : i = id \/ i \in ReportedIds
  <2>1. CASE report' = report
    BY <2>1, SameReport DEF NtfsInv
  <2>2. CASE Reports(id)
    <3>1. IsSeq(report)
      BY DEF NtfsInv, WalkInv, Kept, KeptBy
    <3> QED BY <1>11, <2>2, <3>1, OnceMore DEF NtfsInv
  <2> QED BY <1>2, <2>1, <2>2
<1>15. \A i \in ReportedIds' : IsBehind(i)'
  <2>1. Passed(c, name)'
    BY <1>8, <1>10, <1>16
  <2>2. IsBehind(id)'
    BY <1>8, <1>18, <2>1 DEF id
  <2> QED BY <1>3, <1>14, <1>19, <2>2
<1> QED BY <1>1, <1>2, <1>12, <1>13, <1>14, <1>15 DEF NtfsInv

LEMMA NtfsInvKept ==
  ASSUME NtfsInv, [NtfsStep]_<<undeleteVars, ntfsVars>>
  PROVE  NtfsInv'
<1>1. CASE NtfsOpen
  BY <1>1, NtfsOpens
<1>2. CASE SkipHole \/ PastTable \/ NameRecord
  <2>1. Quiet /\ mft' = mft /\ streams' = streams /\ streams = <<>> /\ stage' = stage /\ stage \in {"names", "files"}
    BY <1>2 DEF SkipHole, PastTable, NameRecord, TakeRecord, InPass, fixed, known, outVars, Quiet
  <2>2. stage = "files" => names' = names
    BY <1>2 DEF SkipHole, PastTable, NameRecord, known
  <2>3. SkipHole \/ NextRun \/ NextRecord
    BY <1>2 DEF PastTable, NameRecord
  <2>4. CursorOn
    BY <2>3, CursorGoesOn DEF NtfsInv
  <2> QED BY <2>1, <2>2, <2>4, PassGoesOn
<1>3. CASE LastRun
  BY <1>3, PassEnds DEF LastRun, InPass
<1>4. CASE ReadBlock
  <2>1. stage \in {"names", "files"} /\ streams = <<>>
    BY <1>4 DEF ReadBlock, InPass
  <2>2. \/ EndPass
        \/ (NextRun \/ CursorFills) /\ UNCHANGED <<fixed, known, stage, outVars, mft, streams>>
    BY <1>4, Zenon DEF ReadBlock, CursorFills
  <2>3. CASE EndPass
    BY <2>1, <2>3, PassEnds
  <2>4. CASE (NextRun \/ CursorFills) /\ UNCHANGED <<fixed, known, stage, outVars, mft, streams>>
    <3>1. Quiet /\ mft' = mft /\ streams' = streams /\ stage' = stage /\ names' = names
      BY <2>4 DEF fixed, known, outVars, Quiet
    <3>2. CursorOn
      BY <2>4, CursorGoesOn DEF NtfsInv
    <3> QED BY <2>1, <3>1, <3>2, PassGoesOn
  <2> QED BY <2>2, <2>3, <2>4
<1>5. CASE NtfsPath \/ NtfsPathsKnown \/ NtfsList
  <2>1. WalkInv'
    BY <1>5, NtfsKeeps DEF NtfsInv, NtfsStep
  <2>2. mft' = mft /\ cursor' = cursor /\ streams' = streams
    BY <1>5 DEF NtfsPath, NtfsPathsKnown, NtfsList, ntfsVars
  <2>3. volume' = volume /\ report' = report
    BY <1>5 DEF NtfsPath, NtfsPathsKnown, NtfsList, WalkPath, PathsKnown, List, fixed, outVars
  <2>4. \/ stage = "paths" /\ stage' \in {"paths", "files"}
        \/ stage = "done" /\ stage' = "listed"
    BY <1>5 DEF NtfsPath, NtfsPathsKnown, NtfsList, WalkPath, PathsKnown, List
  <2>5. ReportedIds' = ReportedIds /\ ReportedOnce'
    BY <2>3, SameReport DEF NtfsInv
  <2>6. NtfsType'
    BY <2>2, <2>3 DEF NtfsInv, NtfsType
  <2>7. streams' = <<>> /\ NamesApart(streams)'
    <3>1. streams' = <<>>
      BY <2>2, <2>4 DEF NtfsInv
    <3> QED BY <3>1, EmptyIs DEF NamesApart
  <2>8. stage' = "files" => ReportedIds' = {}
    <3> SUFFICES ASSUME stage' = "files" PROVE ReportedIds = {}
      BY <2>5
    <3>1. report = <<>>
      BY <2>4 DEF NtfsInv
    <3>2. DOMAIN report = {}
      BY <3>1
    <3> QED BY <3>2 DEF ReportedIds
  <2> QED BY <2>1, <2>3, <2>4, <2>5, <2>6, <2>7, <2>8 DEF NtfsInv
<1>6. CASE FileRecord
  BY <1>6, FileRecordKeeps
<1>7. CASE RecoverStream
  BY <1>7, RecoverKeeps
<1>8. CASE UNCHANGED <<undeleteVars, ntfsVars>>
  <2>1. WalkInv'
    BY <1>8, NtfsKeeps DEF NtfsInv
  <2>2. mft' = mft /\ cursor' = cursor /\ streams' = streams /\ volume' = volume /\ report' = report /\ stage' = stage
    BY <1>8 DEF undeleteVars, ntfsVars, fixed, outVars
  <2>3. ReportedIds' = ReportedIds /\ ReportedOnce'
    BY <2>2, SameReport DEF NtfsInv
  <2>4. \A i : IsBehind(i)' <=> IsBehind(i)
    BY <2>2 DEF IsBehind, Passed
  <2>5. NtfsType' /\ (NamesApart(streams)' <=> NamesApart(streams))
    BY <2>2 DEF NtfsInv, NtfsType, NamesApart
  <2> QED BY <2>1, <2>2, <2>3, <2>4, <2>5 DEF NtfsInv
<1> QED BY <1>1, <1>2, <1>3, <1>4, <1>5, <1>6, <1>7, <1>8 DEF NtfsStep

(* NTFS: no stream of a deleted file is written over another one or        *)
(* reported twice, wherever the runs of the table lead, whatever extension *)
(* records an attribute list names and however many records claim a path.  *)
THEOREM NtfsIsKept == NtfsSpec => [](NothingOverwritten /\ ReportedOnce)
<1>1. IsNtfs(volume) /\ UndeleteInit /\ NtfsInit => NtfsInv
  <2> SUFFICES ASSUME IsNtfs(volume), UndeleteInit, NtfsInit PROVE NtfsInv
    OBVIOUS
  <2>1. WalkInv /\ ReportedOnce /\ report = <<>>
    BY WalkStarts
  <2>2. NtfsType /\ streams = <<>> /\ stage = "open"
    BY DEF NtfsType, NtfsInit, NoCursor, UndeleteInit
  <2> QED BY <2>1, <2>2 DEF NtfsInv
<1>2. NtfsInv => NothingOverwritten /\ ReportedOnce
  BY KeptIsRight DEF NtfsInv, WalkInv
<1> QED BY <1>1, <1>2, NtfsInvKept, PTL DEF NtfsSpec

-----------------------------------------------------------------------------
(***************************************************************************)
(* Part 9.  Partition tables.                                              *)
(***************************************************************************)

Partitions == [start : Nat, size : Nat, type : STRING]

Links == [ext : Nat, cur : Nat, seen : SUBSET Nat, found : Nat]

Stages == {"open", "mbr", "pick", "volumes", "done", "listed", "failed"}

DiskType ==
  /\ IsDisk(volume) /\ stage \in Stages /\ at \in Nat
  /\ parts \in Seq(Partitions) /\ link \in Links
  /\ stage # "mbr" => link = NoLink
  /\ stage = "mbr" => at \in 1..5

(* Some index of a set of them has the largest size. *)
LEMMA LargestIs ==
  ASSUME NEW p \in Seq(Partitions), NEW ks \in SUBSET DOMAIN p, ks # {}
  PROVE  \E k \in ks : \A j \in ks : p[j].size <= p[k].size
<1> DEFINE Bounded(n) == n <= Len(p) => \E b \in Nat : \A k \in 1..n : p[k].size <= b
           S == {n \in Nat : Bounded(n)}
<1>1. Len(p) \in Nat /\ DOMAIN p = 1..Len(p) /\ \A k \in DOMAIN p : p[k].size \in Nat
  <2>1. Len(p) \in Nat /\ DOMAIN p = 1..Len(p)
    OBVIOUS
  <2>2. ASSUME NEW k \in DOMAIN p PROVE p[k].size \in Nat
    <3>1. p[k] \in Partitions
      OBVIOUS
    <3> QED BY <3>1 DEF Partitions
  <2> QED BY <2>1, <2>2
<1>2. 0 \in S
  OBVIOUS
<1>3. ASSUME NEW n \in Nat, n \in S PROVE n + 1 \in S
  <2> SUFFICES ASSUME n + 1 <= Len(p) PROVE \E b \in Nat : \A k \in 1..(n + 1) : p[k].size <= b
    OBVIOUS
  <2>1. PICK b \in Nat : \A k \in 1..n : p[k].size <= b
    BY <1>3
  <2>2. n + 1 \in DOMAIN p /\ p[n + 1].size \in Nat
    BY <1>1
  <2>3. PICK c \in Nat : b <= c /\ p[n + 1].size <= c
    BY <2>2
  <2>4. ASSUME NEW k \in 1..(n + 1) PROVE p[k].size <= c
    <3>1. CASE k = n + 1
      BY <3>1, <2>3
    <3>2. CASE k \in 1..n
      <4>1. p[k].size <= b /\ p[k].size \in Nat
        BY <3>2, <2>1, <1>1
      <4> QED BY <4>1, <2>3
    <3> QED BY <3>1, <3>2
  <2> QED BY <2>4
<1>4. Len(p) \in S
  <2> HIDE DEF S
  <2> QED BY <1>1, <1>2, <1>3, ForAllNat
<1>5. PICK b \in Nat : \A k \in 1..Len(p) : p[k].size <= b
  BY <1>4, <1>1
<1> DEFINE T == {p[k].size : k \in ks}
<1>6. T \subseteq Int /\ T # {} /\ b \in Int /\ \A x \in T : x <= b
  BY <1>1, <1>5
<1>7. \E x \in T : \A y \in T : y <= x
  <2> HIDE DEF T
  <2> QED BY <1>6, GreatestElement
<1> QED BY <1>7

LEMMA UsedAreEntries == ASSUME IsDisk(volume) PROVE UsedEntries \in Seq(TableEntries)
<1>1. volume.gpt \in Seq(TableEntries)
  BY DEF IsDisk
<1> QED BY <1>1, PickedIs DEF UsedEntries

LEMMA EntryIs ==
  ASSUME NEW e \in TableEntries, NEW base \in Nat
  PROVE  Entry(e, base) \in Partitions /\ Entry(e, base).start = base + e.lba
<1>1. e.lba \in Nat /\ e.count \in Nat /\ e.type \in STRING
  BY DEF TableEntries
<1> QED BY <1>1 DEF Entry, Partitions

LEMMA EbrIs ==
  ASSUME IsDisk(volume), NEW s \in DOMAIN volume.ebrs
  PROVE  s \in Nat \ {0} /\ volume.ebrs[s].entry \in TableEntries /\ volume.ebrs[s].next \in Nat
BY DEF IsDisk

diskVars == <<undeleteVars, partitionVars>>

(* A step reads the disk and does not change it. *)
LEMMA DiskStays == ASSUME [PartitionStep]_diskVars PROVE volume' = volume
BY DEF PartitionStep, diskVars, undeleteVars, fixed, TableOpen, MbrEntry, EbrRecord, MbrDone, PickNtfs,
       PickLocated, PickUnallocated, PickAuto, Choose, RecoverOne, AutoDone, AutoList, List

Picking == PickNtfs \/ PickLocated \/ PickUnallocated \/ PickAuto

LEMMA PickingIs ==
  ASSUME Picking
  PROVE  /\ stage = "pick" /\ stage' \in {"failed", "done", "volumes"}
         /\ parts' = parts /\ link' = link /\ tried' = tried /\ volume' = volume /\ at' = 0
<1>1. \A volumes, then : Choose(volumes, then) => 
        /\ stage' \in {"failed", then}
        /\ parts' = parts /\ link' = link /\ tried' = tried /\ volume' = volume /\ at' = 0
  BY DEF Choose, fixed
<1>2. stage = "pick" /\ \E volumes, then : Choose(volumes, then) /\ then \in {"done", "volumes"}
  <2>1. CASE PickNtfs
    BY <2>1, Zenon DEF PickNtfs
  <2>2. CASE PickLocated
    BY <2>2, Zenon DEF PickLocated
  <2>3. CASE PickUnallocated
    BY <2>3, Zenon DEF PickUnallocated
  <2>4. CASE PickAuto
    BY <2>4, Zenon DEF PickAuto
  <2> QED BY <2>1, <2>2, <2>3, <2>4 DEF Picking
<1>3. PICK volumes, then : Choose(volumes, then) /\ then \in {"done", "volumes"}
  BY <1>2
<1> HIDE DEF Choose
<1>4. /\ stage' \in {"failed", then}
      /\ parts' = parts /\ link' = link /\ tried' = tried /\ volume' = volume /\ at' = 0
  BY <1>1, <1>3
<1> QED BY <1>2, <1>3, <1>4

LEMMA DiskTypeStep ==
  ASSUME DiskType, [PartitionStep]_diskVars
  PROVE  DiskType'
<1> USE DEF DiskType
<1>0. volume' = volume /\ IsDisk(volume) /\ IsDisk(volume')
  BY DiskStays
<1>1. CASE TableOpen
  <2> DEFINE table == IF volume.signed THEN UsedEntries ELSE volume.apm
  <2>1. table \in Seq(TableEntries)
    BY <1>0, UsedAreEntries DEF IsDisk
  <2> HIDE DEF table
  <2>2. \A k \in DOMAIN table : Entry(table[k], 0) \in Partitions
    BY <2>1, EntryIs
  <2>3. [k \in DOMAIN table |-> Entry(table[k], 0)] \in Seq(Partitions)
    BY <2>1, <2>2
  <2>4. parts' \in Seq(Partitions) /\ stage' \in {"mbr", "pick"} /\ at' = 1 /\ link' = link /\ stage = "open"
    BY <1>1, <2>3 DEF TableOpen, table
  <2>5. at' \in Nat /\ stage' \in Stages
    BY <2>4 DEF Stages
  <2>6. link' \in Links /\ link' = NoLink /\ at' \in 1..5
    BY <2>4, <1>0
  <2> QED BY <2>4, <2>5, <2>6, <1>0
<1>2. CASE MbrEntry
  <2> DEFINE e == volume.mbr[at]
  <2>1. stage = "mbr" /\ stage' = "mbr" /\ at <= 4 /\ at' = at + 1
    BY <1>2 DEF MbrEntry, fixed
  <2>2. at \in 1..4
    BY <2>1
  <2>3. e \in TableEntries
    BY <2>2, <1>0 DEF IsDisk
  <2>4. e.lba \in Nat /\ Entry(e, 0) \in Partitions
    BY <2>3, EntryIs DEF TableEntries
  <2>5. \/ parts' = parts /\ link' = link
        \/ parts' = parts /\ link' = [NoLink EXCEPT !.ext = e.lba, !.cur = e.lba]
        \/ parts' = Append(parts, Entry(e, 0)) /\ link' = link
    BY <1>2 DEF MbrEntry
  <2> HIDE DEF e
  <2>6. parts' \in Seq(Partitions)
    BY <2>4, <2>5
  <2>7. link' \in Links
    <3>1. link' = link \/ link' = [ext |-> e.lba, cur |-> e.lba, seen |-> {}, found |-> 0]
      BY <2>5 DEF NoLink
    <3>2. link \in Links
      OBVIOUS
    <3>3. [ext |-> e.lba, cur |-> e.lba, seen |-> {}, found |-> 0] \in Links
      BY <2>4 DEF Links
    <3> QED BY <3>1, <3>2, <3>3
  <2>8. at' \in 1..5
    BY <2>1, <2>2
  <2> QED BY <2>1, <2>6, <2>7, <2>8, <1>0 DEF Stages
<1>3. CASE EbrRecord
  <2> DEFINE ebr == volume.ebrs[link.cur]
  <2>1. stage = "mbr" /\ stage' = "mbr" /\ at' = at
    BY <1>3 DEF EbrRecord, known
  <2>2. CASE ChainEnds
    BY <1>0, <1>3, <2>1, <2>2 DEF EbrRecord, NoLink, Links
  <2>3. CASE ~ChainEnds
    <3>1. link.cur \in DOMAIN volume.ebrs
      BY <2>3 DEF ChainEnds
    <3>2. link.cur \in Nat /\ ebr.entry \in TableEntries /\ ebr.next \in Nat
      BY <3>1, <1>0, EbrIs
    <3>3. parts' = (IF Used(ebr.entry) THEN Append(parts, Entry(ebr.entry, link.cur)) ELSE parts)
      BY <1>3, <2>3 DEF EbrRecord
    <3>4. link' = [link EXCEPT !.cur = NextLink(ebr), !.seen = @ \cup {link.cur},
                               !.found = IF Used(ebr.entry) THEN @ + 1 ELSE @]
      BY <1>3, <2>3 DEF EbrRecord
    <3> HIDE DEF ebr
    <3>5. parts' \in Seq(Partitions)
      <4>1. Entry(ebr.entry, link.cur) \in Partitions
        BY <3>2, EntryIs
      <4> QED BY <4>1, <3>3
    <3>6. NextLink(ebr) \in Nat
      BY <3>2 DEF NextLink, Links
    <3>7. link' \in Links
      <4>1. link.ext \in Nat /\ link.seen \in SUBSET Nat /\ link.found \in Nat
        BY DEF Links
      <4>2. link' = [ext |-> link.ext, cur |-> NextLink(ebr), seen |-> link.seen \cup {link.cur},
                     found |-> IF Used(ebr.entry) THEN link.found + 1 ELSE link.found]
        BY <3>4 DEF Links
      <4>3. link.seen \cup {link.cur} \in SUBSET Nat
        BY <4>1, <3>2
      <4> HIDE DEF DiskType
      <4> QED BY <3>6, <4>1, <4>2, <4>3 DEF Links
    <3> QED BY <2>1, <3>5, <3>7, <1>0
  <2> QED BY <2>2, <2>3
<1>4. CASE MbrDone
  BY <1>0, <1>4 DEF MbrDone, Stages, known, partitionVars
<1>5. CASE Picking
  BY <1>0, <1>5, PickingIs DEF Stages
<1>6. CASE RecoverOne
  BY <1>0, <1>6 DEF RecoverOne
<1>7. CASE AutoDone
  BY <1>0, <1>7 DEF AutoDone, Stages, known, partitionVars
<1>8. CASE AutoList
  BY <1>0, <1>8 DEF AutoList, List, Stages, known, partitionVars
<1>9. CASE UNCHANGED diskVars
  BY <1>0, <1>9 DEF diskVars, undeleteVars, known, partitionVars
<1> QED BY <1>1, <1>2, <1>3, <1>4, <1>5, <1>6, <1>7, <1>8, <1>9 DEF PartitionStep, Picking

-----------------------------------------------------------------------------
LEMMA MatchingIs ==
  ASSUME DiskType, NEW fss, NEW ks, ks \in SUBSET Matching(fss), ks # {}
  PROVE  /\ ks \subseteq DOMAIN parts
         /\ \A j \in {Max(LargestOf(ks)), Min(LargestOf(ks))} : j \in ks /\ \A k \in ks : parts[k].size <= parts[j].size
<1>1. parts \in Seq(Partitions) /\ ks \in SUBSET DOMAIN parts /\ DOMAIN parts = 1..Len(parts) /\ Len(parts) \in Nat
  BY DEF Matching, DiskType
<1>2. \E k \in ks : \A j \in ks : parts[j].size <= parts[k].size
  BY <1>1, LargestIs
<1>3. LargestOf(ks) # {} /\ LargestOf(ks) \in SUBSET (1..Len(parts))
  BY <1>1, <1>2 DEF LargestOf
<1>4. Max(LargestOf(ks)) \in LargestOf(ks) /\ Min(LargestOf(ks)) \in LargestOf(ks)
  BY <1>1, <1>3, PlacesHaveEnds
<1> QED BY <1>1, <1>4 DEF LargestOf

LEMMA NtfsTaken == ASSUME DiskType, PickNtfs PROVE TakesLargest' /\ volume.mode = "ntfs"
<1>1. volume' = volume /\ parts' = parts
  BY PickingIs DEF Picking
<1>2. /\ volume.mode = "ntfs" /\ volume.mode \notin DOMAIN ModeFs /\ Wants = {"ntfs"}
      /\ (WholeImage <=> DetectFs(0) = "ntfs")
  BY DEF PickNtfs, ModeFs, Wants, WholeImage
<1>3. chosen' = IF DetectFs(0) = "ntfs" THEN One(0)
                ELSE IF Matching({"ntfs"}) = {} THEN <<>>
                ELSE One(parts[Largest({"ntfs"})].start)
  BY DEF PickNtfs, Choose
<1>4. ASSUME ~WholeImage, chosen' # <<>>
      PROVE  IsLargest(chosen'[1].start, Matching({"ntfs"}))
  <2>1. Matching({"ntfs"}) # {} /\ chosen' = One(parts[Largest({"ntfs"})].start)
    BY <1>2, <1>3, <1>4
  <2>2. chosen'[1].start = parts[Largest({"ntfs"})].start
    BY <2>1, <1>4 DEF One, Volume
  <2> QED BY <2>1, <2>2, MatchingIs DEF IsLargest, Largest
<1>5. ASSUME WholeImage, chosen' # <<>>
      PROVE  chosen'[1].start = 0
  <2>1. chosen' = One(0)
    BY <1>2, <1>3, <1>5
  <2> QED BY <2>1, <1>5 DEF One, Volume
<1>6. (WholeImage <=> WholeImage') /\ Matching({"ntfs"})' = Matching({"ntfs"}) /\ Wants' = Wants
  BY <1>1 DEF DetectFs, Opens, Matching, Wants, WholeImage, HasMap, ModeFs
<1>7. chosen' # <<>> => IF WholeImage' THEN chosen'[1].start = 0 ELSE IsLargest(chosen[1].start, Matching({"ntfs"}))'
  BY <1>1, <1>4, <1>5, <1>6 DEF IsLargest
<1> QED BY <1>1, <1>2, <1>6, <1>7 DEF TakesLargest

LEMMA UnallocatedTaken == ASSUME DiskType, PickUnallocated PROVE TakesLargest' /\ volume.mode = "unallocated"
<1>1. volume' = volume /\ parts' = parts
  BY PickingIs DEF Picking
<1>2. /\ volume.mode = "unallocated" /\ volume.mode \notin DOMAIN ModeFs /\ Wants = HasMap
      /\ (WholeImage <=> DetectFs(0) # "")
  BY DEF PickUnallocated, ModeFs, Wants, WholeImage
<1>3. chosen' = IF DetectFs(0) # "" THEN (IF DetectFs(0) \in HasMap THEN One(0) ELSE <<>>)
                ELSE IF Matching(HasMap) = {} THEN <<>>
                ELSE One(parts[Largest(HasMap)].start)
  BY DEF PickUnallocated, Choose
<1>4. ASSUME ~WholeImage, chosen' # <<>>
      PROVE  IsLargest(chosen'[1].start, Matching(HasMap))
  <2>1. Matching(HasMap) # {} /\ chosen' = One(parts[Largest(HasMap)].start)
    BY <1>2, <1>3, <1>4
  <2>2. chosen'[1].start = parts[Largest(HasMap)].start
    BY <2>1, <1>4 DEF One, Volume
  <2> QED BY <2>1, <2>2, MatchingIs DEF IsLargest, Largest
<1>5. ASSUME WholeImage, chosen' # <<>>
      PROVE  chosen'[1].start = 0
  <2>1. chosen' = One(0)
    BY <1>2, <1>3, <1>5
  <2> QED BY <2>1, <1>5 DEF One, Volume
<1>6. (WholeImage <=> WholeImage') /\ Matching(HasMap)' = Matching(HasMap) /\ Wants' = Wants
  BY <1>1 DEF DetectFs, Opens, Matching, Wants, WholeImage, HasMap, ModeFs
<1>7. chosen' # <<>> => IF WholeImage' THEN chosen'[1].start = 0 ELSE IsLargest(chosen[1].start, Matching(HasMap))'
  BY <1>1, <1>4, <1>5, <1>6 DEF IsLargest
<1> QED BY <1>1, <1>2, <1>6, <1>7 DEF TakesLargest

LEMMA LocatedTaken == ASSUME DiskType, PickLocated PROVE TakesLargest' /\ volume.mode \in DOMAIN ModeFs
<1> DEFINE fss == ModeFs[volume.mode]
<1>1. volume' = volume /\ parts' = parts
  BY PickingIs DEF Picking
<1>2. /\ volume.mode \in DOMAIN ModeFs /\ Wants = fss
      /\ (WholeImage <=> DetectFs(0) \in fss /\ Opens(0))
  BY DEF PickLocated, ModeFs, Wants, WholeImage
<1>3. chosen' = IF DetectFs(0) \in fss /\ Opens(0) THEN <<Volume(0)>>
                ELSE IF Openable(fss) = {} THEN <<>>
                ELSE <<Volume(parts[Located(fss)].start)>>
  BY DEF PickLocated, Choose
<1>4. \A v : <<v>> # <<>> /\ <<v>>[1] = v
  OBVIOUS
<1> HIDE DEF fss
<1>5. ASSUME ~WholeImage, chosen' # <<>>
      PROVE  IsLargest(chosen'[1].start, Openable(fss))
  <2>1. Openable(fss) # {} /\ chosen' = <<Volume(parts[Located(fss)].start)>>
    BY <1>2, <1>3, <1>5
  <2>2. chosen'[1].start = parts[Located(fss)].start
    BY <2>1 DEF Volume
  <2>3. Openable(fss) \in SUBSET Matching(fss)
    BY DEF Openable
  <2> QED BY <2>1, <2>2, <2>3, MatchingIs DEF IsLargest, Located
<1>6. chosen' = <<>> => Openable(fss) = {}
  BY <1>3, <1>4
<1>7. WholeImage => chosen'[1].start = 0
  BY <1>2, <1>3, <1>4 DEF Volume
<1>8. (WholeImage <=> WholeImage') /\ Openable(fss)' = Openable(fss) /\ Wants' = Wants /\ fss' = fss
  BY <1>1 DEF DetectFs, Matching, Openable, Opens, Wants, WholeImage, HasMap, fss, ModeFs
<1>9. chosen' # <<>> => IF WholeImage' THEN chosen'[1].start = 0 ELSE IsLargest(chosen[1].start, Openable(fss))'
  BY <1>1, <1>5, <1>7, <1>8 DEF IsLargest
<1> QED BY <1>1, <1>2, <1>6, <1>8, <1>9 DEF TakesLargest

(* The targets of the sweep: one for every partition that can be           *)
(* recovered, and more.                                                    *)
HasTargets(c) ==
  /\ Len(c) \in Nat
  /\ \A k \in Openable(Supported) :
       \E i \in 1..Len(c) : c[i].start = parts[k].start /\ Recoverable(c[i])

LEMMA ConcatIs ==
  ASSUME NEW S, NEW a \in Seq(S), NEW b \in Seq(S)
  PROVE  /\ Len(a \o b) = Len(a) + Len(b) /\ Len(a) \in Nat /\ Len(b) \in Nat
         /\ \A i \in 1..Len(b) : (a \o b)[i + Len(a)] = b[i]
OBVIOUS

LEMMA TargetsAreAll == ASSUME DiskType PROVE HasTargets(Targets)
<1> DEFINE meant == [k \in DOMAIN parts |-> Meant(parts[k])]
           keep == [k \in DOMAIN parts |-> meant[k].fs # ""]
           M == {Meant(parts[k]) : k \in DOMAIN parts} \cup {Volume(0)}
           head == IF DetectFs(0) # "" THEN <<Volume(0)>> ELSE <<>>
           w == Picked(meant, keep)
<1>1. parts \in Seq(Partitions) /\ Len(parts) \in Nat /\ DOMAIN parts = 1..Len(parts)
  BY DEF DiskType
<1>2. meant \in Seq(M) /\ Len(meant) = Len(parts)
  BY <1>1
<1>3. head \in Seq(M)
  <2>1. Volume(0) \in M
    OBVIOUS
  <2> HIDE DEF M
  <2>2. <<Volume(0)>> \in Seq(M) /\ <<>> \in Seq(M)
    BY <2>1
  <2> QED BY <2>2
<1>4. w \in Seq(M) /\ Picks(w, meant, keep, Len(parts))
  <2> HIDE DEF meant, keep, M
  <2> QED BY <1>2, PickedIs
<1>5. Targets = head \o w
  BY DEF Targets
<1>6. PICK f : PicksBy(f, w, meant, keep, Len(parts))
  BY <1>4 DEF Picks
<1>7. ASSUME NEW k \in Openable(Supported)
      PROVE  \E i \in 1..Len(w) : w[i].start = parts[k].start /\ Recoverable(w[i])
  <2>1. k \in DOMAIN parts /\ DetectFs(parts[k].start) \in Supported /\ Opens(parts[k].start)
    BY DEF Openable, Matching
  <2>2. DetectFs(parts[k].start) # ""
    BY <2>1 DEF Opens
  <2>3. meant[k] = [start |-> parts[k].start, fs |-> DetectFs(parts[k].start)]
    BY <2>1, <2>2 DEF Meant
  <2>4. keep[k] /\ k \in 1..Len(parts)
    <3>1. meant[k].fs # ""
      <4>1. meant[k].fs = DetectFs(parts[k].start)
        <5> HIDE DEF meant
        <5> QED BY <2>3
      <4> HIDE DEF meant
      <4> QED BY <2>2, <4>1
    <3>2. keep[k] = (meant[k].fs # "")
      BY <2>1
    <3> QED BY <3>1, <3>2, <1>1, <2>1
  <2> HIDE DEF keep, meant, w
  <2>5. PICK i \in 1..Len(w) : f[i] = k
    BY <1>6, <2>4 DEF PicksBy
  <2>6. w[i] = meant[k]
    BY <1>6, <2>5 DEF PicksBy
  <2> QED BY <2>1, <2>3, <2>5, <2>6 DEF Recoverable
<1> HIDE DEF w, head, M
<1>8. Len(head \o w) = Len(head) + Len(w) /\ Len(head) \in Nat /\ Len(w) \in Nat
  BY <1>3, <1>4, ConcatIs
<1>9. ASSUME NEW i \in 1..Len(w) PROVE i + Len(head) \in 1..Len(head \o w) /\ (head \o w)[i + Len(head)] = w[i]
  <2>1. (head \o w)[i + Len(head)] = w[i]
    BY <1>3, <1>4, ConcatIs
  <2> QED BY <1>8, <2>1
<1>10. ASSUME NEW k \in Openable(Supported)
       PROVE  \E i \in 1..Len(Targets) : Targets[i].start = parts[k].start /\ Recoverable(Targets[i])
  <2>1. PICK i \in 1..Len(w) : w[i].start = parts[k].start /\ Recoverable(w[i])
    BY <1>7
  <2>2. i + Len(head) \in 1..Len(Targets) /\ Targets[i + Len(head)] = w[i]
    BY <1>5, <1>9
  <2>3. \E j \in 1..Len(Targets) : Targets[j] = w[i]
    BY <2>2
  <2> QED BY <2>1, <2>3
<1>11. Len(Targets) \in Nat
  BY <1>5, <1>8
<1> QED BY <1>10, <1>11 DEF HasTargets

(* On the way there: the sweep has recovered those of the targets it has   *)
(* passed that can be; the other modes have taken their volume when they   *)
(* are through.                                                            *)
SweepInv ==
  /\ stage \in {"open", "mbr", "pick"} => tried = [recovered |-> {}, skipped |-> {}]
  /\ stage \in {"volumes", "done", "failed"} => HasTargets(chosen)
  /\ stage = "volumes" => at <= Len(chosen)
  /\ stage \in {"volumes", "done"} =>
       DOMAIN tried = {"recovered", "skipped"} /\ tried.recovered = {i \in 0..(at - 1) : Recoverable(chosen[i + 1])}
  /\ stage = "done" => at = Len(chosen)
  /\ stage = "failed" => chosen = <<>>

TakenInv ==
  /\ volume.mode = "auto" => SweepInv
  /\ volume.mode # "auto" => stage # "volumes" /\ (stage \in {"done", "failed"} => TakesLargest)

LEMMA TargetsStay ==
  ASSUME volume' = volume, parts' = parts, chosen' = chosen
  PROVE  /\ HasTargets(chosen)' <=> HasTargets(chosen)
         /\ TakesLargest' <=> TakesLargest
         /\ \A i \in Nat : Recoverable(chosen[i + 1])' <=> Recoverable(chosen[i + 1])
<1>1. /\ \A x : DetectFs(x)' = DetectFs(x) /\ (Opens(x)' <=> Opens(x))
      /\ Openable(Supported)' = Openable(Supported)
  BY DEF Openable, Matching, DetectFs, Opens, Supported, ModeFs
<1>2. \A i \in Nat : Recoverable(chosen[i + 1])' <=> Recoverable(chosen[i + 1])
  BY DEF Recoverable, Opens, DetectFs, Supported, ModeFs
<1>3. HasTargets(chosen)' <=> HasTargets(chosen)
  <2>1. \A i : chosen'[i] = chosen[i]
    OBVIOUS
  <2>2. \A i : Recoverable(chosen[i])' <=> Recoverable(chosen[i])
    BY DEF Recoverable, Opens, DetectFs, Supported, ModeFs
  <2>3. \A k : parts[k]' = parts[k]
    OBVIOUS
  <2> QED BY <1>1, <2>1, <2>2, <2>3 DEF HasTargets
<1>4. TakesLargest' <=> TakesLargest
  <2>1. (WholeImage' <=> WholeImage) /\ Wants' = Wants
    BY DEF WholeImage, Wants, DetectFs, Opens, ModeFs, HasMap
  <2>2. Openable(Wants)' = Openable(Wants) /\ Matching(Wants)' = Matching(Wants)
    BY <2>1 DEF Openable, Matching, DetectFs, Opens
  <2> QED BY <2>1, <2>2 DEF TakesLargest, IsLargest, ModeFs
<1> QED BY <1>2, <1>3, <1>4

LEMMA TakenStep ==
  ASSUME DiskType, DiskType', TakenInv, [PartitionStep]_diskVars
  PROVE  TakenInv'
<1>0. volume' = volume
  BY DiskStays
<1> DEFINE ReadsTable == <<volume, parts, chosen, tried>>
<1>1. CASE TableOpen \/ MbrEntry \/ EbrRecord \/ MbrDone
  <2>1. stage \in {"open", "mbr"} /\ stage' \in {"mbr", "pick"} /\ tried' = tried
    BY <1>1 DEF TableOpen, MbrEntry, EbrRecord, MbrDone, fixed, partitionVars
  <2> QED BY <1>0, <2>1 DEF TakenInv, SweepInv
<1>2. CASE PickNtfs
  <2>1. volume.mode # "auto" /\ TakesLargest' /\ stage' # "volumes"
    BY <1>2, NtfsTaken DEF PickNtfs, Choose
  <2> QED BY <1>0, <2>1 DEF TakenInv
<1>3. CASE PickUnallocated
  <2>1. volume.mode # "auto" /\ TakesLargest' /\ stage' # "volumes"
    BY <1>3, UnallocatedTaken DEF PickUnallocated, Choose
  <2> QED BY <1>0, <2>1 DEF TakenInv
<1>4. CASE PickLocated
  <2>1. volume.mode # "auto" /\ TakesLargest' /\ stage' # "volumes"
    BY <1>4, LocatedTaken DEF PickLocated, Choose, ModeFs
  <2> QED BY <1>0, <2>1 DEF TakenInv
<1>5. CASE PickAuto
  <2>1. /\ volume.mode = "auto" /\ chosen' = Targets /\ tried' = tried /\ at' = 0 /\ parts' = parts
        /\ stage = "pick" /\ stage' = IF Targets = <<>> THEN "failed" ELSE "volumes"
    BY <1>5 DEF PickAuto, Choose
  <2>2. HasTargets(chosen)'
    BY <1>0, <2>1, TargetsAreAll DEF HasTargets, Openable, Matching, DetectFs, Opens, Recoverable, Supported, ModeFs
  <2>3. tried = [recovered |-> {}, skipped |-> {}]
    BY <2>1 DEF TakenInv, SweepInv
  <2>4. DOMAIN tried' = {"recovered", "skipped"} /\ tried'.recovered = {} /\ 0..(0 - 1) = {}
    BY <2>1, <2>3
  <2>5. 0 <= Len(chosen')
    BY <2>2 DEF HasTargets
  <2>6. SweepInv'
    BY <2>1, <2>2, <2>4, <2>5 DEF SweepInv
  <2> QED BY <1>0, <2>1, <2>6 DEF TakenInv
<1>6. CASE RecoverOne
  <2> DEFINE yes == Recoverable(chosen[at + 1])
  <2>1. /\ stage = "volumes" /\ stage' = "volumes" /\ at < Len(chosen) /\ at' = at + 1 /\ chosen' = chosen /\ parts' = parts
        /\ tried' = IF yes THEN [tried EXCEPT !.recovered = @ \cup {at}] ELSE [tried EXCEPT !.skipped = @ \cup {at}]
    BY <1>6 DEF RecoverOne, fixed
  <2>2. CASE volume.mode = "auto"
    <3>1. /\ HasTargets(chosen) /\ Len(chosen) \in Nat /\ at \in Nat
          /\ DOMAIN tried = {"recovered", "skipped"} /\ tried.recovered = {i \in 0..(at - 1) : Recoverable(chosen[i + 1])}
      BY <2>1, <2>2 DEF TakenInv, SweepInv, HasTargets, DiskType
    <3>2. HasTargets(chosen)' /\ \A i \in Nat : Recoverable(chosen[i + 1])' <=> Recoverable(chosen[i + 1])
      BY <1>0, <2>1, <3>1, TargetsStay
    <3> HIDE DEF yes
    <3>3. /\ DOMAIN tried' = {"recovered", "skipped"}
          /\ tried'.recovered = IF yes THEN tried.recovered \cup {at} ELSE tried.recovered
      BY <2>1, <3>1
    <3>4. tried'.recovered = {i \in 0..at : Recoverable(chosen[i + 1])}
      <4>1. ASSUME NEW i PROVE i \in tried'.recovered <=> i \in 0..at /\ Recoverable(chosen[i + 1])
        <5>1. i \in 0..at <=> i \in 0..(at - 1) \/ i = at
          BY <3>1
        <5> QED BY <3>1, <3>3, <5>1 DEF yes
      <4> QED BY <4>1
    <3>5. tried'.recovered = {i \in 0..at : Recoverable(chosen[i + 1])'}
      <4>1. \A i \in 0..at : i \in Nat
        BY <3>1
      <4> QED BY <3>2, <3>4, <4>1
    <3>6. at' - 1 = at
      BY <2>1, <3>1
    <3>7. at' <= Len(chosen')
      BY <2>1, <3>1
    <3>8. SweepInv'
      BY <2>1, <3>2, <3>3, <3>5, <3>6, <3>7 DEF SweepInv
    <3> QED BY <1>0, <2>2, <3>8 DEF TakenInv
  <2>3. CASE volume.mode # "auto"
    BY <2>1, <2>3 DEF TakenInv
  <2> QED BY <2>2, <2>3
<1>7. CASE AutoDone
  <2>1. /\ stage = "volumes" /\ stage' = "done" /\ at' = at /\ at = Len(chosen)
        /\ chosen' = chosen /\ tried' = tried /\ parts' = parts
    BY <1>7 DEF AutoDone, known, partitionVars
  <2>2. volume.mode = "auto" /\ SweepInv
    BY <2>1 DEF TakenInv
  <2>3. HasTargets(chosen)' /\ \A i \in Nat : Recoverable(chosen[i + 1])' <=> Recoverable(chosen[i + 1])
    BY <1>0, <2>1, <2>2, TargetsStay DEF SweepInv
  <2>4. at \in Nat
    BY DEF DiskType
  <2>5. tried'.recovered = {i \in 0..(at - 1) : Recoverable(chosen[i + 1])'}
    <3>1. \A i \in 0..(at - 1) : i \in Nat
      BY <2>4
    <3> QED BY <2>1, <2>2, <2>3, <3>1 DEF SweepInv
  <2>6. SweepInv'
    BY <2>1, <2>2, <2>3, <2>5 DEF SweepInv
  <2> QED BY <1>0, <2>2, <2>6 DEF TakenInv
<1>8. CASE AutoList
  <2>1. volume.mode = "auto" /\ stage' = "listed"
    BY <1>8 DEF AutoList, List
  <2> QED BY <1>0, <2>1 DEF TakenInv, SweepInv
<1>9. CASE UNCHANGED diskVars
  <2>1. stage' = stage /\ at' = at /\ chosen' = chosen /\ tried' = tried /\ parts' = parts
    BY <1>9 DEF diskVars, undeleteVars, known, partitionVars
  <2>2. /\ HasTargets(chosen)' <=> HasTargets(chosen)
        /\ TakesLargest' <=> TakesLargest
        /\ \A i \in Nat : Recoverable(chosen[i + 1])' <=> Recoverable(chosen[i + 1])
    BY <1>0, <2>1, TargetsStay
  <2>3. CASE volume.mode = "auto"
    <3>1. SweepInv /\ at \in Nat
      BY <2>3 DEF TakenInv, DiskType
    <3>2. {i \in 0..(at - 1) : Recoverable(chosen[i + 1])'} = {i \in 0..(at - 1) : Recoverable(chosen[i + 1])}
      <4>1. \A i \in 0..(at - 1) : i \in Nat
        BY <3>1
      <4> QED BY <2>2, <4>1
    <3>3. SweepInv'
      BY <2>1, <2>2, <3>1, <3>2 DEF SweepInv
    <3> QED BY <1>0, <2>3, <3>3 DEF TakenInv
  <2>4. CASE volume.mode # "auto"
    BY <1>0, <2>1, <2>2, <2>4 DEF TakenInv
  <2> QED BY <2>3, <2>4
<1> QED BY <1>1, <1>2, <1>3, <1>4, <1>5, <1>6, <1>7, <1>8, <1>9 DEF PartitionStep

(* The volume a mode takes is the whole image or a largest partition of    *)
(* those it can read, and the sweep of the whole disk recovers every one   *)
(* that is supported and opens, whatever the tables of the disk have in    *)
(* them and whatever failed before it.                                     *)
THEOREM VolumeIsRight == PartitionSpec => []VolumeTaken
<1>1. IsDisk(volume) /\ UndeleteInit /\ PartitionInit => DiskType /\ TakenInv
  BY DEF UndeleteInit, PartitionInit, DiskType, TakenInv, SweepInv, Stages, NoLink, Links
<1>2. DiskType /\ TakenInv /\ [PartitionStep]_diskVars => DiskType' /\ TakenInv'
  BY DiskTypeStep, TakenStep
<1>3. DiskType /\ TakenInv => VolumeTaken
  <2> SUFFICES ASSUME DiskType, TakenInv, stage \in {"done", "failed"}
               PROVE  IF volume.mode = "auto" THEN RecoversAll ELSE TakesLargest
    BY DEF VolumeTaken
  <2>1. CASE volume.mode # "auto"
    BY <2>1 DEF TakenInv
  <2>2. CASE volume.mode = "auto"
    <3>1. SweepInv /\ HasTargets(chosen) /\ at \in Nat /\ Len(chosen) \in Nat
      BY <2>2 DEF TakenInv, SweepInv, DiskType, HasTargets
    <3>2. ASSUME NEW k \in Openable(Supported) PROVE \E i \in tried.recovered : chosen[i + 1].start = parts[k].start
      <4>1. PICK i \in 1..Len(chosen) : chosen[i].start = parts[k].start /\ Recoverable(chosen[i])
        BY <3>1 DEF HasTargets
      <4>2. chosen # <<>> /\ stage = "done" /\ at = Len(chosen)
        BY <3>1, <4>1 DEF SweepInv
      <4>3. i - 1 \in 0..(at - 1) /\ (i - 1) + 1 = i
        BY <4>1, <4>2, <3>1
      <4>4. i - 1 \in tried.recovered
        BY <3>1, <4>1, <4>2, <4>3 DEF SweepInv
      <4> QED BY <4>1, <4>3, <4>4
    <3> QED BY <2>2, <3>2 DEF RecoversAll
  <2> QED BY <2>1, <2>2
<1> QED BY <1>1, <1>2, <1>3, PTL DEF PartitionSpec, diskVars

(* A list tells of a set of spots: it has their partitions, one for each.  *)
Lists(ps, D) ==
  /\ IsFiniteSet(D) /\ Len(ps) = Cardinality(D)
  /\ {ps[k] : k \in DOMAIN ps} = {PartAt(spot) : spot \in D}

LEMMA ListsMore ==
  ASSUME NEW ps \in Seq(Partitions), NEW D, Lists(ps, D), NEW spot, spot \notin D, PartAt(spot) \in Partitions
  PROVE  Lists(Append(ps, PartAt(spot)), D \cup {spot})
<1> DEFINE p == PartAt(spot)
           qs == Append(ps, p)
<1>1. IsFiniteSet(D \cup {spot}) /\ Cardinality(D \cup {spot}) = Cardinality(D) + 1
  BY FS_AddElement DEF Lists
<1>2. qs \in Seq(Partitions) /\ Len(qs) = Len(ps) + 1 /\ Len(ps) \in Nat
  OBVIOUS
<1>3. DOMAIN qs = DOMAIN ps \cup {Len(ps) + 1} /\ qs[Len(ps) + 1] = p /\ \A k \in DOMAIN ps : qs[k] = ps[k]
  OBVIOUS
<1>4. {qs[k] : k \in DOMAIN qs} = {ps[k] : k \in DOMAIN ps} \cup {p}
  <2> HIDE DEF qs, p
  <2> QED BY <1>3
<1>5. {PartAt(s) : s \in D \cup {spot}} = {PartAt(s) : s \in D} \cup {p}
  OBVIOUS
<1> HIDE DEF qs, p
<1>6. Lists(qs, D \cup {spot})
  BY <1>1, <1>2, <1>4, <1>5 DEF Lists
<1> QED BY <1>6 DEF qs, p

(* The records of the chain so far: each of them is on it, and what the    *)
(* first and each of them lead to is one of them or the next.              *)
UsedIn(S) == {s \in S : Used(volume.ebrs[s].entry)}

ChainReached(ext) ==
  /\ link.seen \in SUBSET DOMAIN volume.ebrs
  /\ \A S \in SUBSET DOMAIN volume.ebrs : Holds(S, ext) =>
       link.seen \subseteq S /\ (link.cur \in DOMAIN volume.ebrs => link.cur \in S)
  /\ ext \in DOMAIN volume.ebrs => ext \in link.seen \/ link.cur = ext
  /\ \A s \in link.seen : volume.ebrs[s].next # 0 /\ ext + volume.ebrs[s].next \in DOMAIN volume.ebrs
       => ext + volume.ebrs[s].next \in link.seen \/ link.cur = ext + volume.ebrs[s].next
  /\ link.found = Cardinality(UsedIn(link.seen))

ChainInv ==
  /\ at - 1 \in Leads
  /\ link.ext = volume.mbr[at - 1].lba
  /\ ChainReached(link.ext)

(* The spots that parse has been to. *)
OnChain == link # NoLink

WentBy == {spot \in Spots : spot[1] < at /\ (OnChain => spot[1] # at - 1)}

BeenTo == WentBy \cup (IF OnChain THEN {at - 1} \X UsedIn(link.seen) ELSE {})

Plain ==
  /\ volume.signed /\ UsedEntries = <<>>
  /\ \A k \in Leads : Cardinality(UsedOn(volume.mbr[k].lba)) <= MaxLogical

FoundInv ==
  Plain =>
    /\ stage = "mbr" => Lists(parts, BeenTo) /\ (OnChain => ChainInv)
    /\ stage \notin {"open", "mbr"} => Lists(parts, Spots)

(* At the end of a chain, what was used on it is what it leads to. *)
LEMMA ChainIsAll ==
  ASSUME IsDisk(volume), link \in Links, ChainInv, ChainEnds, Cardinality(UsedOn(link.ext)) <= MaxLogical
  PROVE  UsedIn(link.seen) = UsedOn(link.ext)
<1> DEFINE ext == link.ext
<1>1. UsedIn(link.seen) \subseteq UsedOn(ext)
  BY DEF ChainInv, ChainReached, UsedIn, UsedOn
<1>2. CASE ~(link.found >= MaxLogical)
  <2>1. link.cur = 0 \/ link.cur \in link.seen \/ link.cur \notin DOMAIN volume.ebrs
    BY <1>2 DEF ChainEnds
  <2>2. 0 \notin DOMAIN volume.ebrs
    BY EbrIs
  <2>3. Holds(link.seen, ext)
    BY <2>1, <2>2 DEF ChainInv, ChainReached, Holds
  <2>4. link.seen \in SUBSET DOMAIN volume.ebrs
    BY DEF ChainInv, ChainReached
  <2> QED BY <1>1, <2>3, <2>4 DEF UsedIn, UsedOn
<1>3. CASE link.found >= MaxLogical
  <2>1. IsFiniteSet(DOMAIN volume.ebrs)
    BY DEF IsDisk
  <2>2. IsFiniteSet(UsedOn(ext))
    BY <2>1, FS_Subset DEF UsedOn
  <2>3. Cardinality(UsedIn(link.seen)) >= MaxLogical
    BY <1>3 DEF ChainInv, ChainReached
  <2>4. /\ Cardinality(UsedIn(link.seen)) <= Cardinality(UsedOn(ext))
        /\ Cardinality(UsedIn(link.seen)) = Cardinality(UsedOn(ext)) => UsedIn(link.seen) = UsedOn(ext)
        /\ IsFiniteSet(UsedIn(link.seen))
    BY <1>1, <2>2, FS_Subset
  <2>5. Cardinality(UsedIn(link.seen)) \in Nat /\ Cardinality(UsedOn(ext)) \in Nat
    BY <2>2, <2>4, FS_CardinalityType
  <2> HIDE DEF ext
  <2>6. Cardinality(UsedOn(ext)) <= MaxLogical
    BY DEF ext
  <2>7. Cardinality(UsedIn(link.seen)) = Cardinality(UsedOn(ext))
    BY <2>3, <2>4, <2>5, <2>6, PartitionAssumption
  <2> QED BY <2>4, <2>7 DEF ext
<1> QED BY <1>2, <1>3

LEMMA ChainStep ==
  ASSUME DiskType, stage = "mbr", OnChain, ChainInv, ~ChainEnds, EbrRecord
  PROVE  /\ ChainInv' /\ OnChain'
         /\ link'.seen = link.seen \cup {link.cur} /\ link.cur \in DOMAIN volume.ebrs /\ link.cur \notin link.seen
         /\ at' = at /\ volume' = volume
         /\ parts' = IF Used(volume.ebrs[link.cur].entry)
                     THEN Append(parts, PartAt(<<at - 1, link.cur>>)) ELSE parts
<1> DEFINE c == link.cur
           ebr == volume.ebrs[c]
           ext == link.ext
<1>1. c # 0 /\ c \notin link.seen /\ c \in DOMAIN volume.ebrs
  BY DEF ChainEnds
<1>2. IsDisk(volume) /\ volume' = volume /\ at' = at /\ at \in Nat
  BY DEF DiskType, EbrRecord, fixed, known
<1>3. c \in Nat /\ ebr.entry \in TableEntries /\ ebr.next \in Nat
  BY <1>1, <1>2, EbrIs
<1>4. link \in Links
  BY DEF DiskType
<1>5. /\ parts' = (IF Used(ebr.entry) THEN Append(parts, Entry(ebr.entry, c)) ELSE parts)
      /\ link' = [link EXCEPT !.cur = NextLink(ebr), !.seen = @ \cup {link.cur},
                              !.found = IF Used(ebr.entry) THEN @ + 1 ELSE @]
  BY DEF EbrRecord
<1>6. PartAt(<<at - 1, c>>) = Entry(ebr.entry, c)
  BY <1>1 DEF PartAt
<1> HIDE DEF ebr, c
<1>7. /\ link'.seen = link.seen \cup {c} /\ link'.ext = ext /\ link'.cur = NextLink(ebr)
      /\ link'.found = IF Used(ebr.entry) THEN link.found + 1 ELSE link.found
  BY <1>4, <1>5 DEF Links, c
<1>8. ext = volume.mbr[at - 1].lba /\ at - 1 \in Leads /\ ChainReached(ext)
  BY DEF ChainInv
<1>9. at - 1 \in 1..4 /\ volume.mbr[at - 1] \in TableEntries /\ ext # 0 /\ ext \in Nat
  <2>1. at - 1 \in 1..4 /\ Used(volume.mbr[at - 1])
    BY <1>8 DEF Leads
  <2> QED BY <2>1, <1>2, <1>8 DEF IsDisk, Used, TableEntries
<1>10. OnChain'
  BY <1>7, <1>9 DEF OnChain, NoLink
<1> DEFINE E == DOMAIN volume.ebrs
           n == NextLink(ebr)
<1>11. n = IF ebr.next = 0 THEN 0 ELSE ext + ebr.next
  BY DEF NextLink
<1>12. link.seen \cup {c} \in SUBSET E
  BY <1>1, <1>8 DEF ChainReached, c
<1>13. ASSUME NEW S \in SUBSET E, Holds(S, ext)
       PROVE  link.seen \cup {c} \subseteq S /\ (n \in E => n \in S)
  <2>1. link.seen \subseteq S /\ c \in S
    BY <1>1, <1>8, <1>13 DEF ChainReached, c
  <2>2. 0 \notin E
    BY <1>2, EbrIs
  <2>3. ebr.next # 0 /\ ext + ebr.next \in E => ext + ebr.next \in S
    BY <2>1, <1>13 DEF Holds, ebr
  <2> HIDE DEF n, E
  <2> QED BY <2>1, <2>2, <2>3, <1>11 DEF E
<1>14. ext \in E => ext \in link.seen \cup {c}
  BY <1>8 DEF ChainReached, c
<1>15. ASSUME NEW s \in link.seen \cup {c}, volume.ebrs[s].next # 0, ext + volume.ebrs[s].next \in E
       PROVE  ext + volume.ebrs[s].next \in link.seen \cup {c} \/ n = ext + volume.ebrs[s].next
  <2>1. CASE s = c
    BY <2>1, <1>11, <1>15 DEF ebr
  <2>2. CASE s \in link.seen
    BY <2>2, <1>8, <1>15 DEF ChainReached, c
  <2> QED BY <2>1, <2>2
<1>16. link'.found = Cardinality(UsedIn(link.seen \cup {c}))
  <2>1. link.found = Cardinality(UsedIn(link.seen)) /\ link.seen \in SUBSET E
    BY <1>8 DEF ChainReached
  <2>2. IsFiniteSet(UsedIn(link.seen))
    <3>1. IsFiniteSet(E) /\ UsedIn(link.seen) \subseteq E
      BY <1>2, <2>1 DEF IsDisk, UsedIn
    <3> QED BY <3>1, FS_Subset
  <2>3. CASE Used(ebr.entry)
    <3>1. UsedIn(link.seen \cup {c}) = UsedIn(link.seen) \cup {c} /\ c \notin UsedIn(link.seen)
      BY <1>1, <2>3 DEF UsedIn, ebr
    <3>2. Cardinality(UsedIn(link.seen) \cup {c}) = Cardinality(UsedIn(link.seen)) + 1
      BY <2>2, <3>1, FS_AddElement
    <3> QED BY <1>7, <2>1, <2>3, <3>1, <3>2
  <2>4. CASE ~Used(ebr.entry)
    <3>1. UsedIn(link.seen \cup {c}) = UsedIn(link.seen)
      BY <2>4 DEF UsedIn, ebr
    <3> QED BY <1>7, <2>1, <2>4, <3>1
  <2> QED BY <2>3, <2>4
<1>17. ChainReached(ext)'
  <2>1. ext' = ext /\ DOMAIN volume'.ebrs = E /\ UsedIn(link.seen)' = UsedIn(link.seen \cup {c})
    BY <1>2, <1>7 DEF UsedIn
  <2>2. \A S : Holds(S, ext)' <=> Holds(S, ext)
    BY <1>2, <2>1 DEF Holds
  <2> HIDE DEF ext, n
  <2>3. link'.cur = n /\ link'.seen = link.seen \cup {c} /\ link'.found = Cardinality(UsedIn(link.seen \cup {c}))
    BY <1>7, <1>16 DEF n
  <2> QED BY <1>2, <1>12, <1>13, <1>14, <1>15, <2>1, <2>2, <2>3 DEF ChainReached
<1>18. ChainInv'
  <2>1. Leads' = Leads
    BY <1>2 DEF Leads
  <2>2. link'.ext = volume'.mbr[at' - 1].lba
    BY <1>2, <1>7, <1>8
  <2> QED BY <1>2, <1>7, <1>8, <1>17, <2>1, <2>2 DEF ChainInv
<1> QED BY <1>1, <1>2, <1>5, <1>6, <1>7, <1>10, <1>18 DEF c, ebr

(* What a spot is does not change with what is found. *)
LEMMA SpotsStay ==
  ASSUME volume' = volume
  PROVE  /\ Leads' = Leads /\ Spots' = Spots /\ (Plain' <=> Plain)
         /\ \A ext : UsedOn(ext)' = UsedOn(ext)
<1>2. Leads' = Leads
  BY DEF Leads
<1>3. \A ext : UsedOn(ext)' = UsedOn(ext)
  BY DEF UsedOn, Holds
<1>4. Spots' = Spots
  BY <1>2, <1>3 DEF Spots
<1>5. UsedEntries' = UsedEntries
  BY DEF UsedEntries
<1>6. Plain' <=> Plain
  BY <1>2, <1>3, <1>5 DEF Plain
<1> QED BY <1>2, <1>3, <1>4, <1>6

LEMMA ListsStill ==
  ASSUME volume' = volume, NEW ps, NEW D, Lists(ps, D), parts' = ps
  PROVE  (BeenTo' = D => Lists(parts, BeenTo)') /\ (Spots' = D => Lists(parts, Spots)')
<1>1. {parts'[k] : k \in DOMAIN parts'} = {PartAt(spot) : spot \in D}
  BY DEF Lists
<1>2. \A spot : PartAt(spot)' = PartAt(spot)
  BY DEF PartAt
<1>3. {parts'[k] : k \in DOMAIN parts'} = {PartAt(spot)' : spot \in D}
  BY <1>1, <1>2
<1> QED BY <1>3 DEF Lists

(* The spots of one entry of sector 0. *)
LEMMA SpotsOf ==
  ASSUME NEW k \in 1..4
  PROVE  {spot \in Spots : spot[1] = k} =
           IF k \in Leads THEN {k} \X UsedOn(volume.mbr[k].lba)
           ELSE IF Used(volume.mbr[k]) THEN {<<k, 0>>} ELSE {}
<1>1. ASSUME NEW spot PROVE spot \in Spots /\ spot[1] = k <=>
        \/ k \in Leads /\ spot \in {k} \X UsedOn(volume.mbr[k].lba)
        \/ k \notin Leads /\ Used(volume.mbr[k]) /\ spot = <<k, 0>>
  <2>1. UsedOn(volume.mbr[k].lba) \subseteq DOMAIN volume.ebrs /\ (k \in Leads => Used(volume.mbr[k]))
    BY DEF UsedOn, Leads
  <2>2. CASE k \in Leads
    BY <2>1, <2>2 DEF Spots
  <2>3. CASE k \notin Leads
    BY <2>1, <2>3 DEF Spots
  <2> QED BY <2>2, <2>3
<1> QED BY <1>1

LEMMA FoundStep ==
  ASSUME DiskType, FoundInv, [PartitionStep]_diskVars
  PROVE  FoundInv'
<1>0. /\ volume' = volume /\ IsDisk(volume) /\ Leads' = Leads /\ Spots' = Spots /\ (Plain' <=> Plain)
      /\ parts \in Seq(Partitions) /\ link \in Links /\ (stage = "mbr" => at \in 1..5) /\ at \in Nat
  BY DiskStays, SpotsStay DEF DiskType
<1> SUFFICES ASSUME Plain
             PROVE  /\ stage' = "mbr" => Lists(parts, BeenTo)' /\ (OnChain' => ChainInv')
                    /\ stage' \notin {"open", "mbr"} => Lists(parts, Spots)'
  BY <1>0 DEF FoundInv
<1>1. CASE TableOpen
  <2>1. stage' = "mbr" /\ at' = 1 /\ link' = link /\ link = NoLink
    BY <1>1 DEF TableOpen, Plain, DiskType
  <2>2. parts' = [k \in DOMAIN UsedEntries |-> Entry(UsedEntries[k], 0)] /\ UsedEntries = <<>>
    BY <1>1 DEF TableOpen, Plain
  <2>3. DOMAIN parts' = {} /\ parts' = <<>>
    BY <2>2
  <2>4. BeenTo' = {}
    <3>1. ~OnChain' /\ \A spot \in Spots : spot[1] \in 1..4
      BY <2>1 DEF OnChain, NoLink, Spots, Leads
    <3> QED BY <1>0, <2>1, <3>1 DEF BeenTo, WentBy
  <2>5. Lists(<<>>, {})
    BY FS_EmptySet DEF Lists
  <2>6. Lists(parts, BeenTo)'
    BY <1>0, <2>3, <2>4, <2>5, ListsStill
  <2> QED BY <2>1, <2>6 DEF OnChain, NoLink
<1>2. CASE MbrEntry
  <2> DEFINE e == volume.mbr[at]
  <2>1. /\ stage = "mbr" /\ stage' = "mbr" /\ at <= 4 /\ at' = at + 1 /\ link = NoLink /\ ~OnChain
        /\ at \in 1..4 /\ Lists(parts, BeenTo)
    BY <1>0, <1>2 DEF MbrEntry, fixed, OnChain, FoundInv
  <2>2. BeenTo = {spot \in Spots : spot[1] < at}
    BY <2>1 DEF BeenTo, WentBy
  <2>3. \A spot \in Spots : spot[1] \in 1..4
    BY DEF Spots, Leads
  <2>4. {spot \in Spots : spot[1] < at + 1} = BeenTo \cup {spot \in Spots : spot[1] = at}
    BY <2>1, <2>2, <2>3
  <2>5. CASE ~Used(e)
    <3>1. parts' = parts /\ link' = link
      BY <1>2, <2>5 DEF MbrEntry
    <3>2. ~OnChain' /\ {spot \in Spots : spot[1] = at} = {}
      BY <2>1, <2>5, <3>1, SpotsOf DEF OnChain, NoLink, Leads
    <3>3. BeenTo' = BeenTo
      BY <1>0, <2>1, <2>4, <3>2 DEF BeenTo, WentBy
    <3> QED BY <1>0, <2>1, <3>1, <3>2, <3>3, ListsStill
  <2>6. CASE Used(e) /\ e.type = "extended"
    <3>1. parts' = parts /\ link' = [NoLink EXCEPT !.ext = e.lba, !.cur = e.lba] /\ e.lba # 0
      BY <1>2, <2>6 DEF MbrEntry, Used
    <3> HIDE DEF e
    <3>2. link' = [ext |-> e.lba, cur |-> e.lba, seen |-> {}, found |-> 0]
      BY <3>1 DEF NoLink
    <3>3. OnChain' /\ link'.ext = e.lba /\ link'.cur = e.lba /\ link'.seen = {} /\ link'.found = 0
      <4>1. link'.ext = e.lba /\ link'.cur = e.lba /\ link'.seen = {} /\ link'.found = 0
        BY <3>2
      <4>2. NoLink'.ext = 0
        BY DEF NoLink
      <4> QED BY <3>1, <4>1, <4>2 DEF OnChain
    <3>4. at' - 1 = at /\ at \in Leads
      BY <2>1, <2>6 DEF Leads, e
    <3>5. BeenTo' = BeenTo
      <4>1. UsedIn(link.seen)' = {}
        BY <3>3 DEF UsedIn
      <4>2. WentBy' = BeenTo
        BY <1>0, <2>1, <2>2, <2>3, <3>3, <3>4 DEF WentBy
      <4> QED BY <4>1, <4>2 DEF BeenTo
    <3>6. ChainInv'
      <4>1. UsedIn(link.seen)' = {} /\ Cardinality({}) = 0
        BY <3>3, FS_EmptySet DEF UsedIn
      <4>2. \A S : Holds(S, link.ext)' => (e.lba \in DOMAIN volume.ebrs => e.lba \in S)
        BY <1>0, <3>3 DEF Holds
      <4>3. ChainReached(link.ext)'
        BY <1>0, <3>3, <4>1, <4>2 DEF ChainReached
      <4> QED BY <1>0, <3>3, <3>4, <4>3 DEF ChainInv, e
    <3> QED BY <1>0, <2>1, <3>1, <3>5, <3>6, ListsStill
  <2>7. CASE Used(e) /\ e.type # "extended"
    <3>1. parts' = Append(parts, Entry(e, 0)) /\ link' = link
      BY <1>2, <2>7 DEF MbrEntry
    <3>2. {spot \in Spots : spot[1] = at} = {<<at, 0>>}
      BY <2>1, <2>7, SpotsOf DEF Leads
    <3>3. PartAt(<<at, 0>>) = Entry(e, 0) /\ Entry(e, 0) \in Partitions
      <4>1. e \in TableEntries
        BY <1>0, <2>1 DEF IsDisk
      <4> QED BY <4>1, EntryIs DEF PartAt
    <3> HIDE DEF e
    <3>4. ~OnChain' /\ BeenTo' = BeenTo \cup {<<at, 0>>}
      <4>1. ~OnChain'
        BY <2>1, <3>1 DEF OnChain, NoLink
      <4>2. WentBy' = {spot \in Spots : spot[1] < at + 1}
        BY <1>0, <2>1, <4>1 DEF WentBy
      <4> QED BY <2>4, <3>2, <4>1, <4>2 DEF BeenTo
    <3>5. <<at, 0>> \notin BeenTo
      BY <2>1, <2>2
    <3>6. Lists(Append(parts, PartAt(<<at, 0>>)), BeenTo \cup {<<at, 0>>})
      BY <1>0, <2>1, <3>3, <3>5, ListsMore
    <3> QED BY <1>0, <2>1, <3>1, <3>3, <3>4, <3>6, ListsStill
  <2> QED BY <2>5, <2>6, <2>7
<1>3. CASE EbrRecord
  <2>1. /\ stage = "mbr" /\ stage' = "mbr" /\ at' = at /\ OnChain /\ Lists(parts, BeenTo) /\ ChainInv
        /\ at - 1 \in 1..4 /\ at - 1 \in Leads
    BY <1>0, <1>3 DEF EbrRecord, known, OnChain, FoundInv, ChainInv, Leads
  <2>2. WentBy = {spot \in Spots : spot[1] < at - 1}
    <3>1. \A spot \in Spots : spot[1] \in 1..4
      BY DEF Spots, Leads
    <3> QED BY <1>0, <2>1, <3>1 DEF WentBy
  <2>3. CASE ChainEnds
    <3>1. link' = NoLink /\ parts' = parts /\ ~OnChain'
      BY <1>3, <2>3 DEF EbrRecord, OnChain, NoLink
    <3>2. UsedIn(link.seen) = UsedOn(volume.mbr[at - 1].lba)
      <4>1. link.ext = volume.mbr[at - 1].lba
        BY <2>1 DEF ChainInv
      <4>2. Cardinality(UsedOn(link.ext)) <= MaxLogical
        BY <2>1, <4>1 DEF Plain
      <4> QED BY <1>0, <2>1, <2>3, <4>1, <4>2, ChainIsAll
    <3>3. BeenTo' = BeenTo
      <4>1. {spot \in Spots : spot[1] = at - 1} = {at - 1} \X UsedIn(link.seen)
        BY <2>1, <3>2, SpotsOf
      <4>2. \A spot \in Spots : spot[1] \in 1..4
        BY DEF Spots, Leads
      <4>3. WentBy' = {spot \in Spots : spot[1] < at}
        BY <1>0, <2>1, <3>1 DEF WentBy
      <4>4. {spot \in Spots : spot[1] < at} = WentBy \cup {spot \in Spots : spot[1] = at - 1}
        BY <1>0, <2>1, <2>2, <4>2
      <4> QED BY <2>1, <3>1, <4>1, <4>3, <4>4 DEF BeenTo
    <3> QED BY <1>0, <2>1, <3>1, <3>3, ListsStill
  <2>4. CASE ~ChainEnds
    <3> DEFINE c == link.cur
               spot == <<at - 1, c>>
    <3>1. /\ ChainInv' /\ OnChain' /\ link'.seen = link.seen \cup {c} /\ c \in DOMAIN volume.ebrs /\ c \notin link.seen
          /\ parts' = IF Used(volume.ebrs[c].entry) THEN Append(parts, PartAt(spot)) ELSE parts
      BY <1>3, <2>1, <2>4, ChainStep
    <3>2. UsedIn(link.seen)' = UsedIn(link.seen) \cup (IF Used(volume.ebrs[c].entry) THEN {c} ELSE {})
      BY <1>0, <3>1 DEF UsedIn
    <3>3. WentBy' = WentBy
      BY <1>0, <2>1, <3>1 DEF WentBy
    <3>4. BeenTo' = BeenTo \cup (IF Used(volume.ebrs[c].entry) THEN {spot} ELSE {})
      <4>1. BeenTo' = WentBy \cup ({at - 1} \X UsedIn(link.seen)')
        BY <2>1, <3>1, <3>3 DEF BeenTo
      <4>2. BeenTo = WentBy \cup ({at - 1} \X UsedIn(link.seen))
        BY <2>1 DEF BeenTo
      <4> QED BY <3>2, <4>1, <4>2
    <3>5. CASE ~Used(volume.ebrs[c].entry)
      BY <1>0, <2>1, <3>1, <3>4, <3>5, ListsStill
    <3>6. CASE Used(volume.ebrs[c].entry)
      <4>1. PartAt(spot) \in Partitions
        <5>1. c \in Nat \ {0} /\ volume.ebrs[c].entry \in TableEntries
          BY <1>0, <3>1, EbrIs
        <5> QED BY <5>1, EntryIs DEF PartAt
      <4>2. spot \notin BeenTo
        <5>1. spot \notin WentBy
          BY <2>2, <1>0
        <5>2. c \notin UsedIn(link.seen)
          BY <3>1 DEF UsedIn
        <5> QED BY <2>1, <5>1, <5>2 DEF BeenTo
      <4> HIDE DEF spot
      <4>3. Lists(Append(parts, PartAt(spot)), BeenTo \cup {spot})
        BY <1>0, <2>1, <4>1, <4>2, ListsMore
      <4> QED BY <1>0, <2>1, <3>1, <3>4, <3>6, <4>3, ListsStill
    <3> QED BY <3>5, <3>6
  <2> QED BY <2>3, <2>4
<1>4. CASE MbrDone
  <2>1. /\ stage = "mbr" /\ stage' = "pick" /\ parts' = parts /\ ~OnChain /\ at > 4 /\ Lists(parts, BeenTo)
    BY <1>4 DEF MbrDone, partitionVars, OnChain, FoundInv
  <2>2. BeenTo = Spots
    <3>1. \A spot \in Spots : spot[1] \in 1..4
      BY DEF Spots, Leads
    <3> QED BY <1>0, <2>1, <3>1 DEF BeenTo, WentBy
  <2> QED BY <1>0, <2>1, <2>2, ListsStill
<1>5. CASE Picking
  <2>1. stage = "pick" /\ stage' \in {"failed", "done", "volumes"} /\ parts' = parts
    BY <1>5, PickingIs
  <2> QED BY <1>0, <2>1, ListsStill DEF FoundInv
<1>6. CASE RecoverOne \/ AutoDone \/ AutoList
  <2>1. stage \in {"volumes", "done"} /\ stage' \in {"volumes", "done", "listed"} /\ parts' = parts
    BY <1>6 DEF RecoverOne, AutoDone, AutoList, List, partitionVars
  <2> QED BY <1>0, <2>1, ListsStill DEF FoundInv
<1>7. CASE UNCHANGED diskVars
  <2>1. stage' = stage /\ at' = at /\ link' = link /\ parts' = parts
    BY <1>7 DEF diskVars, undeleteVars, known, partitionVars
  <2>2. CASE stage = "mbr"
    <3>1. OnChain' <=> OnChain
      BY <2>1 DEF OnChain, NoLink
    <3>2. UsedIn(link.seen)' = UsedIn(link.seen) /\ WentBy' = WentBy
      BY <1>0, <2>1, <3>1 DEF UsedIn, WentBy
    <3>3. BeenTo' = BeenTo
      BY <2>1, <3>1, <3>2 DEF BeenTo
    <3>4. Lists(parts, BeenTo) /\ (OnChain => ChainInv)
      BY <2>2 DEF FoundInv
    <3>5. ChainInv' <=> ChainInv
      BY <1>0, <2>1, <3>2 DEF ChainInv, ChainReached, Holds
    <3> QED BY <1>0, <2>1, <2>2, <3>1, <3>3, <3>4, <3>5, ListsStill
  <2>3. CASE stage # "mbr"
    BY <1>0, <2>1, <2>3, ListsStill DEF FoundInv
  <2> QED BY <2>2, <2>3
<1> QED BY <1>1, <1>2, <1>3, <1>4, <1>5, <1>6, <1>7 DEF PartitionStep, Picking

(* parse finds each partition that the table of sector 0 has, and each one *)
(* that the extended ones lead to, however their links run, also back: all *)
(* of them once, while no chain has more of them than are followed.        *)
THEOREM AllPartitionsFound == PartitionSpec => []PartitionsFound
<1>1. IsDisk(volume) /\ UndeleteInit /\ PartitionInit => DiskType /\ FoundInv
  BY DEF UndeleteInit, PartitionInit, DiskType, FoundInv, Stages, NoLink, Links
<1>2. DiskType /\ FoundInv /\ [PartitionStep]_diskVars => DiskType' /\ FoundInv'
  BY DiskTypeStep, FoundStep
<1>3. DiskType /\ FoundInv => PartitionsFound
  BY DEF FoundInv, Plain, PartitionsFound, Lists
<1> QED BY <1>1, <1>2, <1>3, PTL DEF PartitionSpec, diskVars

-----------------------------------------------------------------------------
(***************************************************************************)
(* Part 10.  Unallocated space.                                            *)
(***************************************************************************)

FreeRuns == [from : Nat, to : Nat]

MapType ==
  /\ IsMap
  /\ group \in Nat \ {0} /\ bit \in Nat /\ run \in Nat \cup {NoRun}
  /\ freeRuns \in Seq(FreeRuns) /\ ranges \in Seq(FreeRuns)

(* The ranges are made when the walk is over. *)
RangesLast == ~Walked \/ run # NoRun => ranges = <<>>

RunsInOrder ==
  /\ \A j, k \in DOMAIN freeRuns : j < k => freeRuns[j].to <= freeRuns[k].from
  /\ \A k \in DOMAIN ranges, j \in DOMAIN freeRuns : ranges[k].to <= freeRuns[j].from

(* Where the walk is: the runs it has closed, and the one it is in, lie    *)
(* behind it.                                                              *)
Behind ==
  /\ run # NoRun => \A k \in DOMAIN freeRuns : freeRuns[k].to <= run
  /\ ~Walked => /\ bit <= Counted(Current)
                /\ run # NoRun => run <= Current.first + bit
                /\ \A k \in DOMAIN freeRuns : freeRuns[k].to <= Current.first + bit

Spared(m) == IsMissing(groups[m]) /\ groups[m].first < clusters

Past(m) == groups[m].first + Size(groups[m])

RunsSpare ==
  \A m \in DOMAIN groups : m < group /\ Spared(m) =>
    /\ run # NoRun => Past(m) <= run
    /\ \A k \in DOMAIN freeRuns : freeRuns[k].to <= groups[m].first \/ Past(m) <= freeRuns[k].from

Free(k, c) == Reads(k) /\ Tells(groups[k], c) /\ ~groups[k].bits[c - groups[k].first + 1]

Ahead(k, c) == k > group \/ (k = group /\ groups[k].first + bit <= c)

In(s, c) == \E j \in DOMAIN s : s[j].from <= c /\ c < s[j].to

Has(k, c) ==
  \/ Ahead(k, c)
  \/ run # NoRun /\ run <= c
  \/ In(freeRuns, c) \/ In(ranges, c)
  \/ volumeEnd <= c

Accounted == \A k \in DOMAIN groups, c \in Nat : Free(k, c) => Has(k, c)

MapInductive ==
  MapType /\ RangesLast /\ RunsInOrder /\ Behind /\ RunsSpare /\ RangesAreApart /\ Accounted

-----------------------------------------------------------------------------
(* Sequences: one more at the end, one less at the front.                  *)
LEMMA Appended ==
  ASSUME NEW S, NEW s \in Seq(S), NEW e \in S
  PROVE  /\ Append(s, e) \in Seq(S)
         /\ DOMAIN s = 1..Len(s) /\ Len(s) \in Nat
         /\ DOMAIN Append(s, e) = 1..(Len(s) + 1)
         /\ \A i \in DOMAIN s : i \in DOMAIN Append(s, e) /\ Append(s, e)[i] = s[i]
         /\ Append(s, e)[Len(s) + 1] = e
         /\ \A i \in DOMAIN Append(s, e) : i \in DOMAIN s \/ i = Len(s) + 1
OBVIOUS

LEMMA Shortened ==
  ASSUME NEW S, NEW s \in Seq(S), s # <<>>
  PROVE  /\ Tail(s) \in Seq(S) /\ Head(s) \in S /\ Head(s) = s[1]
         /\ Len(s) \in Nat /\ 1 \in DOMAIN s /\ DOMAIN s = 1..Len(s)
         /\ DOMAIN Tail(s) = 1..(Len(s) - 1)
         /\ \A i \in DOMAIN Tail(s) : i + 1 \in DOMAIN s /\ Tail(s)[i] = s[i + 1]
         /\ \A i \in DOMAIN s : i = 1 \/ (i - 1 \in DOMAIN Tail(s) /\ Tail(s)[i - 1] = s[i])
OBVIOUS

LEMMA RunFields ==
  ASSUME NEW s \in Seq(FreeRuns), NEW k \in DOMAIN s
  PROVE  s[k].from \in Nat /\ s[k].to \in Nat
<1>1. s[k] \in FreeRuns
  OBVIOUS
<1> QED BY <1>1 DEF FreeRuns

(* The measures of a group. *)
LEMMA GroupFacts ==
  ASSUME IsMap, NEW g \in DOMAIN groups
  PROVE  /\ groups[g] \in Group /\ groups[g].first \in Nat /\ groups[g].bits \in Seq(BOOLEAN)
         /\ g \in Nat \ {0} /\ clusters \in Nat /\ volumeEnd \in Nat /\ groups[g].want \in Nat
         /\ Size(groups[g]) \in Int /\ Counted(groups[g]) \in Int
         /\ Counted(groups[g]) <= Size(groups[g])
         /\ Size(groups[g]) <= groups[g].want
         /\ groups[g].first + Size(groups[g]) <= clusters
         /\ Counted(groups[g]) <= Len(groups[g].bits)
         /\ groups[g].first < clusters => Counted(groups[g]) \in Nat /\ Size(groups[g]) > 0
<1>1. groups[g] \in Group /\ g \in Nat \ {0}
  BY DEF IsMap
<1>2. /\ groups[g].first \in Nat /\ groups[g].want \in Nat \ {0} /\ groups[g].bits \in Seq(BOOLEAN)
      /\ Len(groups[g].bits) \in Nat /\ clusters \in Nat
  BY <1>1 DEF Group, IsMap
<1> QED BY SMTT(30), <1>1, <1>2 DEF Size, Counted, Smaller, IsMap

LEMMA GroupOrder ==
  ASSUME IsMap, NEW j \in DOMAIN groups, NEW k \in DOMAIN groups, j < k
  PROVE  /\ groups[j].first + Size(groups[j]) <= groups[k].first
         /\ groups[j].first + Counted(groups[j]) <= groups[k].first
<1>1. /\ groups[j].first \in Nat /\ groups[j].want \in Nat
      /\ Size(groups[j]) \in Int /\ Counted(groups[j]) \in Int
      /\ Counted(groups[j]) <= Size(groups[j]) /\ Size(groups[j]) <= groups[j].want
  BY GroupFacts
<1>2. groups[k].first \in Nat
  BY GroupFacts
<1>3. groups[j].first + groups[j].want <= groups[k].first
  BY DEF IsMap
<1> QED BY <1>1, <1>2, <1>3

(* The map stays as it is, and so does what is made of it alone. *)
LEMMA MapStays ==
  ASSUME UNCHANGED mapVars
  PROVE  /\ mapOf' = mapOf /\ groups' = groups /\ clusters' = clusters /\ volumeEnd' = volumeEnd
         /\ IsMap' <=> IsMap
         /\ \A g \in DOMAIN groups :
              /\ Size(groups[g])' = Size(groups[g]) /\ Counted(groups[g])' = Counted(groups[g])
              /\ IsMissing(groups[g])' <=> IsMissing(groups[g])
              /\ Spared(g)' <=> Spared(g)
              /\ Past(g)' = Past(g)
         /\ \A k, c : Free(k, c)' <=> Free(k, c)
         /\ group' = group => (Walked' <=> Walked) /\ Current' = Current
BY DEF mapVars, IsMap, Size, Counted, Smaller, IsMissing, Spared, Past, Free, Reads, Read, Tells,
       Walked, Current

LEMMA InitInductive ==
  ASSUME IsMap, FreeInit
  PROVE  MapInductive
<1>1. MapType
  BY DEF FreeInit, MapType
<1>2. /\ freeRuns = <<>> /\ ranges = <<>> /\ run = NoRun /\ group = 1 /\ bit = 0
      /\ DOMAIN freeRuns = {} /\ DOMAIN ranges = {} /\ Len(ranges) = 0
  BY DEF FreeInit
<1>3. RangesLast /\ RunsInOrder /\ RangesAreApart
  BY <1>2 DEF RangesLast, RunsInOrder, RangesAreApart
<1>4. Behind
  <2> SUFFICES ASSUME ~Walked
               PROVE  bit <= Counted(Current)
    BY <1>2 DEF Behind
  <2>1. group \in DOMAIN groups /\ groups[group].first < clusters
    BY DEF Walked, Read
  <2> QED BY <2>1, <1>2, GroupFacts DEF Current
<1>5. RunsSpare
  BY <1>2, GroupFacts DEF RunsSpare
<1>6. Accounted
  <2> SUFFICES ASSUME NEW k \in DOMAIN groups, NEW c \in Nat, Free(k, c)
               PROVE  Ahead(k, c)
    BY DEF Accounted, Has
  <2>1. k \in Nat \ {0} /\ groups[k].first \in Nat
    BY GroupFacts
  <2>2. groups[k].first <= c
    BY DEF Free, Tells
  <2> QED BY <2>1, <2>2, <1>2 DEF Ahead
<1> QED BY <1>1, <1>3, <1>4, <1>5, <1>6 DEF MapInductive

-----------------------------------------------------------------------------
(* The group the walk is in. *)
LEMMA CurrentFacts ==
  ASSUME MapType, ~Walked
  PROVE  /\ group \in DOMAIN groups /\ Current = groups[group] /\ Current.first < clusters
         /\ Current.first \in Nat /\ Current.want \in Nat /\ Current.bits \in Seq(BOOLEAN)
         /\ Counted(Current) \in Nat /\ Counted(Current) <= Len(Current.bits)
         /\ Size(Current) \in Int /\ Counted(Current) <= Size(Current)
<1>1. group \in DOMAIN groups /\ Current = groups[group] /\ Current.first < clusters
  BY DEF Walked, Read, Current
<1> QED BY <1>1, GroupFacts DEF MapType

LEMMA TakeBitTypes ==
  ASSUME MapInductive, TakeBit
  PROVE  MapType'
<1>1. IsMap'
  BY MapStays DEF TakeBit, MapInductive, MapType
<1>2. Current.first + bit \in Nat /\ bit \in Nat /\ bit' \in Nat
  BY SMTT(30), CurrentFacts DEF TakeBit, MapInductive, MapType
<1>3. run' \in Nat \cup {NoRun}
  BY <1>2 DEF TakeBit, MapInductive, MapType
<1>4. freeRuns' \in Seq(FreeRuns)
  <2>1. CASE Current.bits[bit + 1] /\ run # NoRun
    <3>1. FreeRun(run, Current.first + bit) \in FreeRuns
      BY <1>2, <2>1 DEF FreeRun, FreeRuns, MapInductive, MapType
    <3>2. freeRuns' = Append(freeRuns, FreeRun(run, Current.first + bit))
      BY <2>1 DEF TakeBit
    <3> QED BY <3>1, <3>2 DEF MapInductive, MapType
  <2>2. CASE ~(Current.bits[bit + 1] /\ run # NoRun)
    BY <2>2 DEF TakeBit, MapInductive, MapType
  <2> QED BY <2>1, <2>2
<1> QED BY <1>1, <1>2, <1>3, <1>4 DEF TakeBit, MapInductive, MapType

(* A run that is closed comes after the others. *)
LEMMA ClosedInOrder ==
  ASSUME freeRuns \in Seq(FreeRuns), RunsInOrder, ranges = <<>>, NEW r \in FreeRuns,
         \A k \in DOMAIN freeRuns : freeRuns[k].to <= r.from,
         freeRuns' = Append(freeRuns, r), ranges' = ranges
  PROVE  RunsInOrder'
<1>1. /\ DOMAIN freeRuns = 1..Len(freeRuns) /\ Len(freeRuns) \in Nat
      /\ DOMAIN freeRuns' = 1..(Len(freeRuns) + 1)
      /\ \A i \in DOMAIN freeRuns : freeRuns'[i] = freeRuns[i]
      /\ freeRuns'[Len(freeRuns) + 1] = r
  BY Appended
<1>2. \A j, k \in DOMAIN freeRuns' : j < k => freeRuns'[j].to <= freeRuns'[k].from
  BY <1>1 DEF RunsInOrder
<1>3. DOMAIN ranges' = {}
  OBVIOUS
<1> QED BY <1>2, <1>3 DEF RunsInOrder

LEMMA TakeBitInOrder ==
  ASSUME MapInductive, TakeBit
  PROVE  RunsInOrder'
<1>1. ranges = <<>> /\ ranges' = ranges
  BY DEF TakeBit, MapInductive, RangesLast
<1>2. CASE Current.bits[bit + 1] /\ run # NoRun
  <2>1. FreeRun(run, Current.first + bit) \in FreeRuns
    BY SMTT(30), <1>2, CurrentFacts DEF FreeRun, FreeRuns, TakeBit, MapInductive, MapType
  <2>2. freeRuns' = Append(freeRuns, FreeRun(run, Current.first + bit))
    BY <1>2 DEF TakeBit
  <2>3. \A k \in DOMAIN freeRuns : freeRuns[k].to <= FreeRun(run, Current.first + bit).from
    BY <1>2 DEF MapInductive, Behind, FreeRun
  <2> QED BY <1>1, <2>1, <2>2, <2>3, ClosedInOrder DEF MapInductive, MapType
<1>3. CASE ~(Current.bits[bit + 1] /\ run # NoRun)
  BY <1>1, <1>3 DEF TakeBit, MapInductive, RunsInOrder
<1> QED BY <1>2, <1>3

(* What is in freeRuns when the run is closed. *)
LEMMA WhenClosed ==
  ASSUME MapType, NEW to \in Nat, run # NoRun, freeRuns' = Append(freeRuns, FreeRun(run, to))
  PROVE  /\ FreeRun(run, to) \in FreeRuns /\ freeRuns' \in Seq(FreeRuns)
         /\ \A k \in DOMAIN freeRuns' :
               \/ k \in DOMAIN freeRuns /\ freeRuns'[k] = freeRuns[k]
               \/ freeRuns'[k].from = run /\ freeRuns'[k].to = to
         /\ \A c : In(freeRuns, c) => In(freeRuns, c)'
         /\ \A c : run <= c /\ c < to => In(freeRuns, c)'
<1>1. FreeRun(run, to) \in FreeRuns
  BY DEF FreeRun, FreeRuns, MapType
<1>2. freeRuns \in Seq(FreeRuns)
  BY DEF MapType
<1>3. /\ \A i \in DOMAIN freeRuns : i \in DOMAIN freeRuns' /\ freeRuns'[i] = freeRuns[i]
      /\ DOMAIN freeRuns' = 1..(Len(freeRuns) + 1) /\ Len(freeRuns) \in Nat
      /\ freeRuns'[Len(freeRuns) + 1] = FreeRun(run, to)
      /\ \A i \in DOMAIN freeRuns' : i \in DOMAIN freeRuns \/ i = Len(freeRuns) + 1
      /\ freeRuns' \in Seq(FreeRuns)
  BY <1>1, <1>2, Appended
<1>4. Len(freeRuns) + 1 \in DOMAIN freeRuns'
  BY <1>3
<1>5. FreeRun(run, to).from = run /\ FreeRun(run, to).to = to
  BY DEF FreeRun
<1> QED BY <1>1, <1>3, <1>4, <1>5 DEF In

LEMMA TakeBitBehind ==
  ASSUME MapInductive, TakeBit
  PROVE  Behind'
<1>1. /\ Walked' <=> Walked /\ Current' = Current /\ ~Walked
      /\ Counted(Current)' = Counted(Current)
  BY MapStays, CurrentFacts DEF TakeBit, MapInductive
<1>2. /\ bit \in Nat /\ bit' = bit + 1 /\ bit + 1 <= Counted(Current)
      /\ Current.first \in Nat /\ Counted(Current) \in Nat
  BY CurrentFacts DEF TakeBit, MapInductive, MapType
<1>3. \A k \in DOMAIN freeRuns' : freeRuns'[k].to <= Current.first + bit
  <2>1. CASE Current.bits[bit + 1] /\ run # NoRun
    BY <1>1, <1>2, <2>1, WhenClosed DEF TakeBit, MapInductive, Behind, MapType
  <2>2. CASE ~(Current.bits[bit + 1] /\ run # NoRun)
    BY <1>1, <2>2 DEF TakeBit, MapInductive, Behind
  <2> QED BY <2>1, <2>2
<1>4. run' # NoRun => run' <= Current.first + bit
  BY <1>1, <1>2 DEF TakeBit, MapInductive, Behind
<1>5. run' # NoRun => \A k \in DOMAIN freeRuns' : freeRuns'[k].to <= run'
  <2>1. CASE run = NoRun
    BY <1>3, <2>1 DEF TakeBit
  <2>2. CASE run # NoRun
    BY <2>2 DEF TakeBit, MapInductive, Behind
  <2> QED BY <2>1, <2>2
<1>6. \A k \in DOMAIN freeRuns' : freeRuns'[k].to \in Nat
  <2>1. freeRuns' \in Seq(FreeRuns)
    BY TakeBitTypes DEF MapType
  <2> QED BY <2>1, RunFields
<1>7. run' \in Nat \cup {NoRun}
  BY TakeBitTypes DEF MapType
<1>11. /\ Current'.first + bit' = Current.first + bit + 1
       /\ Current.first + bit \in Nat /\ Current.first + bit + 1 \in Nat
  <2>1. groups' = groups /\ group' = group
    BY DEF TakeBit, mapVars
  <2>2. Current'.first = Current.first
    BY <2>1 DEF Current
  <2> QED BY <1>2, <2>2
<1>8. bit' <= Counted(Current)'
  BY <1>1, <1>2
<1>9. run' # NoRun => run' <= Current'.first + bit'
  BY <1>4, <1>7, <1>11
<1>10. \A k \in DOMAIN freeRuns' : freeRuns'[k].to <= Current'.first + bit'
  BY <1>3, <1>6, <1>11
<1> QED BY <1>5, <1>8, <1>9, <1>10 DEF Behind

(* Ranges that stay as they are stay apart. *)
LEMMA ApartStays ==
  ASSUME MapInductive, UNCHANGED mapVars, ranges' = ranges
  PROVE  RangesAreApart'
<1>1. /\ groups' = groups /\ volumeEnd' = volumeEnd
      /\ \A g \in DOMAIN groups :
            /\ Size(groups[g])' = Size(groups[g])
            /\ IsMissing(groups[g])' <=> IsMissing(groups[g])
            /\ Spared(g)' <=> Spared(g)
  BY MapStays
<1> QED BY <1>1, clusters' = clusters DEF MapInductive, RangesAreApart, mapVars

(* The walk is before a free cluster or past it. *)
LEMMA AheadOrPast ==
  ASSUME MapType, ~Walked, NEW k \in DOMAIN groups, NEW c \in Nat, Free(k, c), ~Ahead(k, c)
  PROVE  c < Current.first + bit
<1>1. /\ group \in DOMAIN groups /\ Current = groups[group] /\ Current.first \in Nat
      /\ bit \in Nat /\ group \in Nat
  BY CurrentFacts DEF MapType
<1>2. k \in Nat /\ groups[k].first \in Nat /\ Counted(groups[k]) \in Int
  BY GroupFacts DEF MapType
<1>3. c < groups[k].first + Counted(groups[k])
  BY DEF Free, Tells
<1>4. CASE k = group
  BY <1>1, <1>4 DEF Ahead
<1>5. CASE k < group
  <2>1. groups[k].first + Counted(groups[k]) <= Current.first
    BY <1>1, <1>5, GroupOrder DEF MapType
  <2> QED BY <1>1, <1>2, <1>3, <2>1
<1> QED BY <1>1, <1>2, <1>4, <1>5 DEF Ahead

(* When the walk is over, there is nothing it is before. *)
LEMMA NoneAhead ==
  ASSUME MapType, Walked, NEW k \in DOMAIN groups, NEW c, Free(k, c)
  PROVE  ~Ahead(k, c)
<1>1. SUFFICES ASSUME k >= group
               PROVE  FALSE
  BY GroupFacts DEF Ahead, MapType
<1>2. group \in 1..k /\ group \in DOMAIN groups
  <2>1. groups \in Seq(Group) /\ group \in Nat \ {0}
    BY DEF MapType, IsMap
  <2> QED BY <1>1, <2>1
<1>3. Read(groups[group])
  BY <1>2 DEF Free, Reads
<1> QED BY <1>2, <1>3 DEF Walked

LEMMA TakeBitSpares ==
  ASSUME MapInductive, TakeBit
  PROVE  RunsSpare'
<1>1. /\ group \in DOMAIN groups /\ Current = groups[group] /\ bit \in Nat
      /\ Current.first \in Nat /\ ~Walked
  BY CurrentFacts DEF TakeBit, MapInductive, MapType
<1>2. groups' = groups /\ group' = group /\ UNCHANGED mapVars
  BY DEF TakeBit, mapVars
<1>3. SUFFICES ASSUME NEW m \in DOMAIN groups, m < group, Spared(m)
               PROVE  /\ run' # NoRun => Past(m) <= run'
                      /\ \A k \in DOMAIN freeRuns' :
                            freeRuns'[k].to <= groups[m].first \/ Past(m) <= freeRuns'[k].from
  BY <1>2, MapStays DEF RunsSpare
<1>4. /\ run # NoRun => Past(m) <= run
      /\ \A k \in DOMAIN freeRuns : freeRuns[k].to <= groups[m].first \/ Past(m) <= freeRuns[k].from
  BY <1>3 DEF MapInductive, RunsSpare
<1>5. Past(m) <= Current.first /\ Past(m) \in Int
  BY SMTT(30), <1>1, <1>3, GroupOrder, GroupFacts DEF MapInductive, MapType, Past
<1>6. Past(m) <= Current.first + bit
  BY <1>1, <1>5
<1>7. run' # NoRun => Past(m) <= run'
  BY <1>4, <1>6 DEF TakeBit
<1>8. CASE Current.bits[bit + 1] /\ run # NoRun
  <2>1. \A k \in DOMAIN freeRuns' :
           (k \in DOMAIN freeRuns /\ freeRuns'[k] = freeRuns[k]) \/ freeRuns'[k].from = run
    BY <1>1, <1>8, WhenClosed DEF TakeBit, MapInductive
  <2> QED BY <1>4, <1>7, <1>8, <2>1
<1>9. CASE ~(Current.bits[bit + 1] /\ run # NoRun)
  BY <1>4, <1>7, <1>9 DEF TakeBit
<1> QED BY <1>8, <1>9

LEMMA TakeBitAccounts ==
  ASSUME MapInductive, TakeBit
  PROVE  Accounted'
<1>1. /\ group \in DOMAIN groups /\ Current = groups[group] /\ bit \in Nat
      /\ Current.first \in Nat /\ ~Walked /\ MapType /\ run \in Nat \cup {NoRun}
  BY CurrentFacts DEF TakeBit, MapInductive, MapType
<1>2. /\ groups' = groups /\ group' = group /\ UNCHANGED mapVars /\ ranges' = ranges
      /\ volumeEnd' = volumeEnd /\ bit' = bit + 1
  BY DEF TakeBit, mapVars
<1>3. SUFFICES ASSUME NEW k \in DOMAIN groups, NEW c \in Nat, Free(k, c)
               PROVE  Has(k, c)'
  BY <1>2, MapStays DEF Accounted
<1>4. Has(k, c)
  BY <1>3 DEF MapInductive, Accounted
<1>5. groups[k].first \in Nat /\ k \in Nat
  BY <1>1, GroupFacts DEF MapType
<1>6. CASE Ahead(k, c)
  <2>1. CASE k = group /\ c = Current.first + bit
    <3>1. ~Current.bits[bit + 1]
      <4>1. c - Current.first + 1 = bit + 1
        BY <1>1, <2>1
      <4> QED BY <1>1, <1>3, <2>1, <4>1 DEF Free
    <3>2. run' = IF run = NoRun THEN c ELSE run
      BY <2>1, <3>1 DEF TakeBit
    <3>3. run # NoRun => run <= c
      BY <1>1, <2>1 DEF MapInductive, Behind
    <3>4. run' # NoRun /\ run' <= c
      BY <1>1, <3>2, <3>3 DEF NoRun
    <3> QED BY <3>4 DEF Has
  <2>2. CASE ~(k = group /\ c = Current.first + bit)
    <3>1. Ahead(k, c)'
      BY <1>1, <1>2, <1>5, <1>6, <2>2 DEF Ahead
    <3> QED BY <3>1 DEF Has
  <2> QED BY <2>1, <2>2
<1>7. CASE ~Ahead(k, c) /\ run # NoRun /\ run <= c
  <2>1. CASE Current.bits[bit + 1]
    <3>1. c < Current.first + bit
      BY <1>1, <1>3, <1>7, AheadOrPast
    <3>2. In(freeRuns, c)'
      <4>1. Current.first + bit \in Nat
        BY <1>1
      <4>2. freeRuns' = Append(freeRuns, FreeRun(run, Current.first + bit))
        BY <1>7, <2>1 DEF TakeBit
      <4> QED BY <1>1, <1>7, <3>1, <4>1, <4>2, WhenClosed
    <3> QED BY <3>2 DEF Has
  <2>2. CASE ~Current.bits[bit + 1]
    <3>1. run' = run
      BY <1>7, <2>2 DEF TakeBit
    <3> QED BY <1>7, <3>1 DEF Has
  <2> QED BY <2>1, <2>2
<1>8. CASE In(freeRuns, c)
  <2>1. CASE Current.bits[bit + 1] /\ run # NoRun
    <3>1. Current.first + bit \in Nat
      BY <1>1
    <3>2. In(freeRuns, c)'
      BY <1>1, <1>8, <2>1, <3>1, WhenClosed DEF TakeBit
    <3> QED BY <3>2 DEF Has
  <2>2. CASE ~(Current.bits[bit + 1] /\ run # NoRun)
    <3>1. freeRuns' = freeRuns
      BY <2>2 DEF TakeBit
    <3> QED BY <1>8, <3>1 DEF Has, In
  <2> QED BY <2>1, <2>2
<1>9. CASE In(ranges, c) \/ volumeEnd <= c
  BY <1>2, <1>9 DEF Has, In
<1> QED BY <1>4, <1>6, <1>7, <1>8, <1>9 DEF Has

LEMMA TakeBitInductive ==
  ASSUME MapInductive, TakeBit
  PROVE  MapInductive'
<1>1. RangesLast'
  BY DEF TakeBit, MapInductive, RangesLast
<1>2. RangesAreApart'
  BY ApartStays DEF TakeBit
<1> QED
  BY <1>1, <1>2, TakeBitTypes, TakeBitInOrder, TakeBitBehind, TakeBitSpares, TakeBitAccounts
  DEF MapInductive

-----------------------------------------------------------------------------
(* From a group to the next: what the walk has passed stays behind it.     *)
LEMMA NextBehind ==
  ASSUME MapInductive, ~Walked, UNCHANGED mapVars, group' = group + 1, bit' = 0,
         run' # NoRun => run' <= Past(group),
         run' # NoRun => \A k \in DOMAIN freeRuns' : freeRuns'[k].to <= run',
         \A k \in DOMAIN freeRuns' : freeRuns'[k].to <= Past(group),
         run' \in Nat \cup {NoRun}, freeRuns' \in Seq(FreeRuns)
  PROVE  Behind'
<1>1. group \in DOMAIN groups /\ group \in Nat
  BY CurrentFacts DEF MapInductive, MapType
<1>2. SUFFICES ASSUME ~Walked'
               PROVE  /\ bit' <= Counted(Current)'
                      /\ run' # NoRun => run' <= Current'.first + bit'
                      /\ \A k \in DOMAIN freeRuns' : freeRuns'[k].to <= Current'.first + bit'
  BY DEF Behind
<1>3. /\ group + 1 \in DOMAIN groups /\ groups[group + 1].first < clusters
      /\ Current' = groups[group + 1] /\ Counted(Current)' = Counted(groups[group + 1])
  BY <1>2 DEF Walked, Read, Current, Counted, Size, Smaller, mapVars
<1>4. /\ Counted(groups[group + 1]) \in Nat /\ groups[group + 1].first \in Nat
      /\ Past(group) <= groups[group + 1].first /\ Past(group) \in Int
  <2>1. IsMap /\ group < group + 1
    BY <1>1 DEF MapInductive, MapType
  <2>2. Past(group) <= groups[group + 1].first
    BY <1>1, <1>3, <2>1, GroupOrder DEF Past
  <2>3. groups[group].first \in Nat /\ Size(groups[group]) \in Int
    BY <1>1, <2>1, GroupFacts
  <2>4. Counted(groups[group + 1]) \in Nat /\ groups[group + 1].first \in Nat
    BY <1>3, <2>1, GroupFacts
  <2> QED BY <2>2, <2>3, <2>4 DEF Past
<1>5. Current'.first + bit' = groups[group + 1].first
  BY <1>3, <1>4
<1>6. \A k \in DOMAIN freeRuns' : freeRuns'[k].to \in Nat
  BY RunFields
<1>7. bit' <= Counted(Current)'
  BY <1>3, <1>4
<1>8. run' # NoRun => run' <= Current'.first + bit'
  BY <1>4, <1>5
<1>9. \A k \in DOMAIN freeRuns' : freeRuns'[k].to <= Current'.first + bit'
  BY <1>4, <1>5, <1>6
<1> QED BY <1>7, <1>8, <1>9

(* A free cluster that is ahead in a later group is ahead in the next.     *)
LEMMA NextAhead ==
  ASSUME MapType, UNCHANGED mapVars, group' = group + 1, bit' = 0,
         NEW k \in DOMAIN groups, NEW c \in Nat, Free(k, c), k > group
  PROVE  Ahead(k, c)'
<1>1. k \in Nat /\ group \in Nat /\ groups[k].first \in Nat /\ groups' = groups
  BY GroupFacts DEF MapType, mapVars
<1>2. groups[k].first <= c
  BY DEF Free, Tells
<1> QED BY <1>1, <1>2 DEF Ahead

LEMMA NextGroupInductive ==
  ASSUME MapInductive, NextGroup
  PROVE  MapInductive'
<1>1. /\ ~Walked /\ group \in DOMAIN groups /\ Current = groups[group] /\ group \in Nat
      /\ Current.first \in Nat /\ Counted(Current) \in Nat /\ Size(Current) \in Int
      /\ Counted(Current) <= Size(Current) /\ bit \in Nat /\ bit = Counted(Current)
  <2>1. bit >= Counted(Current) /\ bit <= Counted(Current) /\ ~Walked
    BY DEF NextGroup, MapInductive, Behind
  <2> QED BY <2>1, CurrentFacts DEF MapInductive, MapType
<1>2. /\ UNCHANGED mapVars /\ groups' = groups /\ group' = group + 1 /\ bit' = 0
      /\ run' = run /\ freeRuns' = freeRuns /\ ranges' = ranges /\ volumeEnd' = volumeEnd
  BY DEF NextGroup, mapVars
<1>3. MapType'
  BY <1>2, MapStays DEF MapInductive, MapType
<1>4. RangesLast' /\ RunsInOrder' /\ RangesAreApart'
  BY <1>1, <1>2, ApartStays DEF MapInductive, RangesLast, RunsInOrder
<1>5. Current.first + bit <= Past(group) /\ Past(group) \in Int /\ Current.first + bit \in Nat
  BY <1>1 DEF Past
<1>6. /\ run # NoRun => run <= Current.first + bit
      /\ \A k \in DOMAIN freeRuns : freeRuns[k].to <= Current.first + bit
      /\ run # NoRun => \A k \in DOMAIN freeRuns : freeRuns[k].to <= run
  BY <1>1 DEF MapInductive, Behind
<1>7. \A k \in DOMAIN freeRuns : freeRuns[k].to \in Nat
  BY RunFields DEF MapInductive, MapType
<1>8. run \in Nat \cup {NoRun} /\ freeRuns \in Seq(FreeRuns)
  BY DEF MapInductive, MapType
<1>9. /\ run # NoRun => run <= Past(group)
      /\ \A k \in DOMAIN freeRuns : freeRuns[k].to <= Past(group)
  BY <1>5, <1>6, <1>7, <1>8
<1>10. Behind'
  BY <1>1, <1>2, <1>6, <1>8, <1>9, NextBehind
<1>11. RunsSpare'
  <2>1. \A m \in DOMAIN groups : m < group' /\ Spared(m) => m < group
    <3>1. ~Spared(group)
      BY <1>1 DEF NextGroup, Missing, Spared
    <3>2. \A m \in DOMAIN groups : m \in Nat
      BY GroupFacts DEF MapInductive, MapType
    <3> QED BY <1>1, <1>2, <3>1, <3>2
  <2> QED BY <1>2, <2>1, MapStays DEF MapInductive, RunsSpare
<1>12. Accounted'
  <2>1. SUFFICES ASSUME NEW k \in DOMAIN groups, NEW c \in Nat, Free(k, c)
                 PROVE  Has(k, c)'
    BY <1>2, MapStays DEF Accounted
  <2>2. Has(k, c)
    BY <2>1 DEF MapInductive, Accounted
  <2>3. Ahead(k, c) => k > group
    <3>1. k = group => c < Current.first + bit
      BY <1>1, <2>1 DEF Free, Tells
    <3> QED BY <1>1, <1>5, <3>1 DEF Ahead
  <2>4. Ahead(k, c) => Ahead(k, c)'
    BY <1>2, <2>1, <2>3, NextAhead DEF MapInductive
  <2>5. /\ (run # NoRun /\ run <= c) => (run # NoRun /\ run <= c)'
        /\ In(freeRuns, c) => In(freeRuns, c)'
        /\ In(ranges, c) => In(ranges, c)'
        /\ volumeEnd <= c => (volumeEnd <= c)'
    BY <1>2 DEF In
  <2> QED BY <2>2, <2>4, <2>5 DEF Has
<1> QED BY <1>3, <1>4, <1>10, <1>11, <1>12 DEF MapInductive

LEMMA MissingGroupInductive ==
  ASSUME MapInductive, MissingGroup
  PROVE  MapInductive'
<1>1. /\ ~Walked /\ group \in DOMAIN groups /\ Current = groups[group] /\ group \in Nat
      /\ Current.first \in Nat /\ Size(Current) \in Int /\ Size(Current) > 0
      /\ Counted(Current) = 0 /\ bit = 0 /\ Current.first < clusters
  <2>1. ~Walked /\ IsMissing(Current)
    BY DEF MissingGroup, Missing
  <2>2. /\ group \in DOMAIN groups /\ Current = groups[group] /\ Current.first \in Nat
        /\ Current.first < clusters /\ Counted(Current) <= Len(Current.bits)
        /\ Counted(Current) \in Nat
    BY <2>1, CurrentFacts DEF MapInductive
  <2>3. Counted(Current) = 0
    BY <2>1, <2>2 DEF IsMissing
  <2>4. bit = 0 /\ group \in Nat
    BY <2>1, <2>3 DEF MapInductive, Behind, MapType
  <2>5. Size(Current) \in Int /\ Size(Current) > 0
    BY <2>2, GroupFacts DEF MapInductive, MapType
  <2> QED BY <2>1, <2>2, <2>3, <2>4, <2>5
<1>2. /\ UNCHANGED mapVars /\ groups' = groups /\ group' = group + 1 /\ bit' = 0
      /\ run' = NoRun /\ ranges' = ranges /\ ranges = <<>> /\ volumeEnd' = volumeEnd
      /\ run = NoRun => freeRuns' = freeRuns
      /\ run # NoRun => freeRuns' = Append(freeRuns, FreeRun(run, Current.first))
  BY <1>1 DEF MissingGroup, mapVars, MapInductive, RangesLast
<1>3. /\ run \in Nat \cup {NoRun} /\ freeRuns \in Seq(FreeRuns) /\ MapType
      /\ run # NoRun => \A k \in DOMAIN freeRuns : freeRuns[k].to <= run
      /\ \A k \in DOMAIN freeRuns : freeRuns[k].to <= Current.first
      /\ \A k \in DOMAIN freeRuns : freeRuns[k].to \in Nat
  BY <1>1, RunFields DEF MapInductive, Behind, MapType
<1>4. run # NoRun =>
        /\ FreeRun(run, Current.first) \in FreeRuns /\ freeRuns' \in Seq(FreeRuns)
        /\ \A k \in DOMAIN freeRuns' :
              \/ k \in DOMAIN freeRuns /\ freeRuns'[k] = freeRuns[k]
              \/ freeRuns'[k].from = run /\ freeRuns'[k].to = Current.first
        /\ \A c : In(freeRuns, c) => In(freeRuns, c)'
        /\ \A c : run <= c /\ c < Current.first => In(freeRuns, c)'
  BY <1>1, <1>2, <1>3, WhenClosed
<1>5. freeRuns' \in Seq(FreeRuns) /\ \A k \in DOMAIN freeRuns' : freeRuns'[k].to <= Current.first
  BY <1>1, <1>2, <1>3, <1>4
<1>6. MapType'
  BY <1>1, <1>2, <1>3, <1>5, MapStays DEF MapType
<1>7. RangesLast' /\ RangesAreApart'
  BY <1>2, ApartStays DEF RangesLast
<1>8. RunsInOrder'
  <2>1. CASE run = NoRun
    BY <1>2, <2>1 DEF MapInductive, RunsInOrder
  <2>2. CASE run # NoRun
    <3>1. \A k \in DOMAIN freeRuns : freeRuns[k].to <= FreeRun(run, Current.first).from
      BY <1>3, <2>2 DEF FreeRun
    <3> QED BY <1>2, <1>3, <1>4, <2>2, <3>1, ClosedInOrder DEF MapInductive
  <2> QED BY <2>1, <2>2
<1>9. Behind'
  <2>1. Current.first <= Past(group) /\ Past(group) \in Int
    BY <1>1 DEF Past
  <2>2. \A k \in DOMAIN freeRuns' : freeRuns'[k].to \in Nat
    BY <1>5, RunFields
  <2>3. \A k \in DOMAIN freeRuns' : freeRuns'[k].to <= Past(group)
    BY <1>1, <1>5, <2>1, <2>2
  <2> QED BY <1>1, <1>2, <1>5, <2>3, NextBehind
<1>10. RunsSpare'
  <2>1. SUFFICES ASSUME NEW m \in DOMAIN groups, m < group + 1, Spared(m), NEW k \in DOMAIN freeRuns'
                 PROVE  freeRuns'[k].to <= groups[m].first \/ Past(m) <= freeRuns'[k].from
    BY <1>2, MapStays DEF RunsSpare
  <2>2. CASE m = group
    BY <1>1, <1>5, <2>2
  <2>3. CASE m < group
    <3>1. /\ run # NoRun => Past(m) <= run
          /\ \A j \in DOMAIN freeRuns :
                freeRuns[j].to <= groups[m].first \/ Past(m) <= freeRuns[j].from
      BY <2>1, <2>3 DEF MapInductive, RunsSpare
    <3> QED BY <1>2, <1>4, <3>1
  <2>4. m \in Nat
    BY <1>3, GroupFacts DEF MapType
  <2> QED BY <1>1, <2>1, <2>2, <2>3, <2>4
<1>11. Accounted'
  <2>1. SUFFICES ASSUME NEW k \in DOMAIN groups, NEW c \in Nat, Free(k, c)
                 PROVE  Has(k, c)'
    BY <1>2, MapStays DEF Accounted
  <2>2. Has(k, c)
    BY <2>1 DEF MapInductive, Accounted
  <2>3. CASE Ahead(k, c)
    <3>1. k # group
      BY <1>1, <2>1 DEF Free, Tells
    <3>2. k > group
      BY <2>3, <3>1 DEF Ahead
    <3>3. Ahead(k, c)'
      BY <1>2, <1>3, <2>1, <3>2, NextAhead
    <3> QED BY <3>3 DEF Has
  <2>4. CASE ~Ahead(k, c) /\ run # NoRun /\ run <= c
    <3>1. c < Current.first
      BY <1>1, <1>3, <2>1, <2>4, AheadOrPast
    <3>2. In(freeRuns, c)'
      BY <1>4, <2>4, <3>1
    <3> QED BY <3>2 DEF Has
  <2>5. CASE In(freeRuns, c)
    <3>1. In(freeRuns, c)'
      BY <1>2, <1>4, <2>5 DEF In
    <3> QED BY <3>1 DEF Has
  <2>6. CASE In(ranges, c) \/ volumeEnd <= c
    BY <1>2, <2>6 DEF Has, In
  <2> QED BY <2>2, <2>3, <2>4, <2>5, <2>6 DEF Has
<1> QED BY <1>6, <1>7, <1>8, <1>9, <1>10, <1>11 DEF MapInductive

-----------------------------------------------------------------------------
(* The end of the map.                                                     *)
LEMMA EndIsNat ==
  ASSUME NEW first \in Nat, NEW length \in Nat, NEW want \in Nat, NEW end \in Nat
  PROVE  first + Smaller(length, Smaller(want, end - first)) \in Nat
BY DEF Smaller

LEMMA CloseRunInductive ==
  ASSUME MapInductive, CloseRun
  PROVE  MapInductive'
<1> DEFINE last == IF mapOf = "ntfs" THEN groups[1].first + Counted(groups[1]) ELSE clusters
<1>1. /\ Walked /\ run # NoRun /\ UNCHANGED mapVars /\ groups' = groups /\ group' = group
      /\ bit' = bit /\ run' = NoRun /\ ranges' = ranges /\ ranges = <<>> /\ volumeEnd' = volumeEnd
      /\ freeRuns' = Append(freeRuns, FreeRun(run, last))
  BY DEF CloseRun, mapVars, MapInductive, RangesLast
<1>2. /\ run \in Nat \cup {NoRun} /\ freeRuns \in Seq(FreeRuns) /\ MapType /\ IsMap
      /\ \A k \in DOMAIN freeRuns : freeRuns[k].to <= run
  BY <1>1 DEF MapInductive, Behind, MapType
<1>3. mapOf = "ntfs" => DOMAIN groups = {1}
  BY <1>2 DEF IsMap
<1>4. last \in Nat
  <2>1. CASE mapOf = "ntfs"
    <3>1. /\ groups[1].first \in Nat /\ groups[1].want \in Nat /\ groups[1].bits \in Seq(BOOLEAN)
          /\ clusters \in Nat
      BY <1>2, <1>3, <2>1, GroupFacts
    <3>2. Len(groups[1].bits) \in Nat
      BY <3>1
    <3>3. groups[1].first + Counted(groups[1]) \in Nat
      BY <3>1, <3>2, EndIsNat DEF Counted, Size
    <3> QED BY <2>1, <3>3
  <2>2. CASE mapOf # "ntfs"
    BY <1>2, <2>2 DEF IsMap
  <2> QED BY <2>1, <2>2
<1> HIDE DEF last
<1>5. /\ FreeRun(run, last) \in FreeRuns /\ freeRuns' \in Seq(FreeRuns)
      /\ \A k \in DOMAIN freeRuns' :
            \/ k \in DOMAIN freeRuns /\ freeRuns'[k] = freeRuns[k]
            \/ freeRuns'[k].from = run /\ freeRuns'[k].to = last
      /\ \A c : In(freeRuns, c) => In(freeRuns, c)'
      /\ \A c : run <= c /\ c < last => In(freeRuns, c)'
  BY <1>1, <1>2, <1>4, WhenClosed
<1>6. MapType'
  BY <1>1, <1>2, <1>5, MapStays DEF MapType
<1>7. RangesLast' /\ RangesAreApart'
  BY <1>1, ApartStays DEF RangesLast
<1>8. RunsInOrder'
  <2>1. \A k \in DOMAIN freeRuns : freeRuns[k].to <= FreeRun(run, last).from
    BY <1>2 DEF FreeRun
  <2> QED BY <1>1, <1>2, <1>5, <2>1, ClosedInOrder DEF MapInductive
<1>9. Behind'
  BY <1>1, MapStays DEF Behind
<1>10. RunsSpare'
  <2>1. SUFFICES ASSUME NEW m \in DOMAIN groups, m < group, Spared(m), NEW k \in DOMAIN freeRuns'
                 PROVE  freeRuns'[k].to <= groups[m].first \/ Past(m) <= freeRuns'[k].from
    BY <1>1, MapStays DEF RunsSpare
  <2>2. /\ Past(m) <= run
        /\ \A j \in DOMAIN freeRuns : freeRuns[j].to <= groups[m].first \/ Past(m) <= freeRuns[j].from
    BY <1>1, <2>1 DEF MapInductive, RunsSpare
  <2> QED BY <1>5, <2>2
<1>11. Accounted'
  <2>1. SUFFICES ASSUME NEW k \in DOMAIN groups, NEW c \in Nat, Free(k, c)
                 PROVE  Has(k, c)'
    BY <1>1, MapStays DEF Accounted
  <2>2. Has(k, c) /\ ~Ahead(k, c)
    BY <1>1, <1>2, <2>1, NoneAhead DEF MapInductive, Accounted
  <2>3. CASE run <= c
    <3>1. /\ groups[k].first + Counted(groups[k]) <= clusters
          /\ c < groups[k].first + Counted(groups[k]) /\ clusters \in Nat
          /\ groups[k].first + Counted(groups[k]) \in Int
      BY SMTT(30), <1>2, <2>1, GroupFacts DEF Free, Tells
    <3>2. c < last
      BY <1>3, <3>1, <2>1 DEF last
    <3>3. In(freeRuns, c)'
      BY <1>5, <2>3, <3>2
    <3> QED BY <3>3 DEF Has
  <2>4. CASE In(freeRuns, c)
    BY <1>5, <2>4 DEF Has
  <2>5. CASE In(ranges, c) \/ volumeEnd <= c
    BY <1>1, <2>5 DEF Has, In
  <2> QED BY <2>2, <2>3, <2>4, <2>5 DEF Has
<1> QED BY <1>6, <1>7, <1>8, <1>9, <1>10, <1>11 DEF MapInductive

(* The last range, grown to take in a run. *)
LEMMA Grown ==
  ASSUME NEW s \in Seq(FreeRuns), s # <<>>, NEW to \in Nat
  PROVE  LET t == [s EXCEPT ![Len(s)].to = to]
         IN  /\ t \in Seq(FreeRuns) /\ DOMAIN t = DOMAIN s /\ Len(t) = Len(s)
             /\ \A k \in DOMAIN s : k # Len(s) => t[k] = s[k]
             /\ t[Len(s)].from = s[Len(s)].from /\ t[Len(s)].to = to
             /\ Len(s) \in DOMAIN s /\ Len(s) \in Nat
<1>1. Len(s) \in DOMAIN s /\ Len(s) \in Nat /\ DOMAIN s = 1..Len(s)
  OBVIOUS
<1>2. s[Len(s)] \in FreeRuns
  BY <1>1
<1>3. [s[Len(s)] EXCEPT !.to = to] \in FreeRuns
  BY <1>2 DEF FreeRuns
<1>4. [s EXCEPT ![Len(s)].to = to] = [s EXCEPT ![Len(s)] = [s[Len(s)] EXCEPT !.to = to]]
  BY <1>1
<1>5. [s EXCEPT ![Len(s)] = [s[Len(s)] EXCEPT !.to = to]] \in Seq(FreeRuns)
  BY <1>1, <1>3
<1> QED BY <1>1, <1>2, <1>3, <1>4, <1>5 DEF FreeRuns

(* The run that AddRun takes, as far as the volume has it. *)
Taken == FreeRun(Head(freeRuns).from, Smaller(Head(freeRuns).to, volumeEnd))

LEMMA AddRunFacts ==
  ASSUME MapInductive, AddRun
  PROVE  /\ Walked /\ run = NoRun /\ run' = NoRun /\ UNCHANGED mapVars /\ groups' = groups
         /\ group' = group /\ bit' = bit /\ volumeEnd' = volumeEnd /\ volumeEnd \in Nat
         /\ MapType /\ IsMap /\ freeRuns # <<>> /\ freeRuns' = Tail(freeRuns)
         /\ freeRuns \in Seq(FreeRuns) /\ ranges \in Seq(FreeRuns)
         /\ 1 \in DOMAIN freeRuns /\ Head(freeRuns) = freeRuns[1]
         /\ freeRuns[1].from \in Nat /\ freeRuns[1].to \in Nat
         /\ Taken \in FreeRuns /\ Taken.from = freeRuns[1].from /\ Taken.to \in Nat
         /\ Taken.to <= freeRuns[1].to /\ Taken.to <= volumeEnd
         /\ Taken.to = freeRuns[1].to \/ Taken.to = volumeEnd
         /\ Taken.to <= Taken.from => ranges' = ranges
         /\ Taken.to > Taken.from =>
              ranges' = IF Joins(Taken) THEN [ranges EXCEPT ![Len(ranges)].to = Taken.to]
                                        ELSE Append(ranges, Taken)
<1>1. /\ Walked /\ run = NoRun /\ run' = NoRun /\ UNCHANGED mapVars /\ groups' = groups
      /\ group' = group /\ bit' = bit /\ volumeEnd' = volumeEnd
      /\ freeRuns # <<>> /\ freeRuns' = Tail(freeRuns)
      /\ freeRuns \in Seq(FreeRuns) /\ ranges \in Seq(FreeRuns) /\ MapType /\ IsMap
      /\ volumeEnd \in Nat
  BY DEF AddRun, mapVars, MapInductive, MapType, IsMap
<1>2. 1 \in DOMAIN freeRuns /\ Head(freeRuns) = freeRuns[1]
  BY <1>1, Shortened
<1>3. freeRuns[1].from \in Nat /\ freeRuns[1].to \in Nat
  BY <1>1, <1>2, RunFields
<1>4. /\ Taken \in FreeRuns /\ Taken.from = freeRuns[1].from /\ Taken.to \in Nat
      /\ Taken.to <= freeRuns[1].to /\ Taken.to <= volumeEnd
      /\ Taken.to = freeRuns[1].to \/ Taken.to = volumeEnd
  BY <1>1, <1>2, <1>3 DEF Taken, FreeRun, FreeRuns, Smaller
<1>5. IF Taken.to <= Taken.from THEN UNCHANGED <<ranges, free>>
      ELSE ranges' = IF Joins(Taken) THEN [ranges EXCEPT ![Len(ranges)].to = Taken.to]
                                     ELSE Append(ranges, Taken)
  BY DEF AddRun, Taken
<1>6. Taken.from \in Nat
  BY <1>3, <1>4
<1> QED BY <1>1, <1>2, <1>3, <1>4, <1>5, <1>6

(* What has become of the ranges: each is as it was, or it is the last and *)
(* ends with the run, which it begins with if it does not lengthen one.    *)
LEMMA AddedRange ==
  ASSUME MapInductive, AddRun, Taken.to > Taken.from
  PROVE  /\ ranges' \in Seq(FreeRuns) /\ Len(ranges') \in Nat
         /\ DOMAIN ranges' = 1..Len(ranges') /\ Len(ranges') \in DOMAIN ranges'
         /\ \A k \in 1..(Len(ranges') - 1) : k \in DOMAIN ranges /\ ranges'[k] = ranges[k]
         /\ ranges'[Len(ranges')].to = Taken.to
         /\ \/ /\ Len(ranges') = Len(ranges) + 1
               /\ ranges'[Len(ranges')].from = Taken.from
               /\ ranges # <<>> => ranges[Len(ranges)].to + MergeGap < Taken.from
            \/ /\ Len(ranges') = Len(ranges) /\ Len(ranges) \in DOMAIN ranges
               /\ ranges'[Len(ranges')].from = ranges[Len(ranges)].from
               /\ Taken.from - ranges[Len(ranges)].to <= MergeGap
<1>1. /\ Taken \in FreeRuns /\ ranges \in Seq(FreeRuns) /\ Taken.to \in Nat /\ Taken.from \in Nat
      /\ ranges' = IF Joins(Taken) THEN [ranges EXCEPT ![Len(ranges)].to = Taken.to]
                                   ELSE Append(ranges, Taken)
  BY SMTT(30), AddRunFacts
<1>2. CASE Joins(Taken)
  <2>1. ranges # <<>> /\ Taken.from - ranges[Len(ranges)].to <= MergeGap
    BY <1>2 DEF Joins
  <2>2. /\ ranges' \in Seq(FreeRuns) /\ DOMAIN ranges' = DOMAIN ranges /\ Len(ranges') = Len(ranges)
        /\ \A k \in DOMAIN ranges : k # Len(ranges) => ranges'[k] = ranges[k]
        /\ ranges'[Len(ranges)].from = ranges[Len(ranges)].from
        /\ ranges'[Len(ranges)].to = Taken.to
        /\ Len(ranges) \in DOMAIN ranges /\ Len(ranges) \in Nat
    BY <1>1, <1>2, <2>1, Grown
  <2>3. DOMAIN ranges' = 1..Len(ranges') /\ DOMAIN ranges = 1..Len(ranges)
    BY <1>1, <2>2
  <2>4. \A k \in 1..(Len(ranges') - 1) : k \in DOMAIN ranges /\ ranges'[k] = ranges[k]
    BY <2>2, <2>3
  <2>5. ranges'[Len(ranges')].to = Taken.to /\ ranges'[Len(ranges')].from = ranges[Len(ranges)].from
    BY SMTT(30), <2>2
  <2> QED BY Zenon, <2>1, <2>2, <2>3, <2>4, <2>5
<1>3. CASE ~Joins(Taken)
  <2>1. /\ ranges' \in Seq(FreeRuns) /\ DOMAIN ranges = 1..Len(ranges) /\ Len(ranges) \in Nat
        /\ DOMAIN ranges' = 1..(Len(ranges) + 1)
        /\ \A i \in DOMAIN ranges : i \in DOMAIN ranges' /\ ranges'[i] = ranges[i]
        /\ ranges'[Len(ranges) + 1] = Taken
    BY <1>1, <1>3, Appended
  <2>2. Len(ranges') = Len(ranges) + 1
    BY <1>1, <1>3
  <2>3. ranges # <<>> => ranges[Len(ranges)].to + MergeGap < Taken.from
    <3>1. SUFFICES ASSUME ranges # <<>>
                   PROVE  ranges[Len(ranges)].to + MergeGap < Taken.from
      OBVIOUS
    <3>2. Len(ranges) \in DOMAIN ranges
      BY <1>1, <3>1
    <3>3. ranges[Len(ranges)].to \in Nat
      BY <1>1, <3>2, RunFields
    <3>4. ~(Taken.from - ranges[Len(ranges)].to <= MergeGap)
      BY <1>3, <3>1 DEF Joins
    <3> QED BY <1>1, <3>3, <3>4, FreeAssumption
  <2>4. \A k \in 1..(Len(ranges') - 1) : k \in DOMAIN ranges /\ ranges'[k] = ranges[k]
    BY <2>1, <2>2
  <2>5. ranges'[Len(ranges')].to = Taken.to /\ ranges'[Len(ranges')].from = Taken.from
    BY <2>1, <2>2
  <2>6. Len(ranges') \in Nat /\ DOMAIN ranges' = 1..Len(ranges') /\ Len(ranges') \in DOMAIN ranges'
    BY <2>1, <2>2
  <2> QED BY Zenon, <2>1, <2>2, <2>3, <2>4, <2>5, <2>6
<1> QED BY <1>2, <1>3

(* The runs that are left are the ones after it. *)
LEMMA RunsLeft ==
  ASSUME MapInductive, AddRun
  PROVE  /\ freeRuns' \in Seq(FreeRuns)
         /\ \A i \in DOMAIN freeRuns' :
              i \in Nat /\ i + 1 \in DOMAIN freeRuns /\ freeRuns'[i] = freeRuns[i + 1]
         /\ \A i \in DOMAIN freeRuns' : freeRuns[1].to <= freeRuns'[i].from /\ freeRuns'[i].from \in Nat
         /\ \A c : In(freeRuns, c) => In(freeRuns, c)' \/ (freeRuns[1].from <= c /\ c < freeRuns[1].to)
<1>1. /\ freeRuns \in Seq(FreeRuns) /\ freeRuns # <<>> /\ freeRuns' = Tail(freeRuns)
      /\ 1 \in DOMAIN freeRuns
  BY AddRunFacts
<1>2. /\ freeRuns' \in Seq(FreeRuns)
      /\ DOMAIN freeRuns' = 1..(Len(freeRuns) - 1) /\ Len(freeRuns) \in Nat
      /\ \A i \in DOMAIN freeRuns' : i + 1 \in DOMAIN freeRuns /\ freeRuns'[i] = freeRuns[i + 1]
      /\ \A i \in DOMAIN freeRuns :
           i = 1 \/ (i - 1 \in DOMAIN freeRuns' /\ freeRuns'[i - 1] = freeRuns[i])
  BY <1>1, Shortened
<1>3. ASSUME NEW i \in DOMAIN freeRuns'
      PROVE  freeRuns[1].to <= freeRuns'[i].from /\ freeRuns'[i].from \in Nat
  <2>1. i + 1 \in DOMAIN freeRuns /\ freeRuns'[i] = freeRuns[i + 1] /\ 1 < i + 1
    BY <1>2
  <2>2. freeRuns[1].to <= freeRuns[i + 1].from
    BY <1>1, <2>1 DEF MapInductive, RunsInOrder
  <2> QED BY <1>2, <2>1, <2>2, RunFields
<1>4. ASSUME NEW c, In(freeRuns, c)
      PROVE  In(freeRuns, c)' \/ (freeRuns[1].from <= c /\ c < freeRuns[1].to)
  BY <1>2, <1>4 DEF In
<1> QED BY <1>2, <1>3, <1>4

LEMMA AddRunInOrder ==
  ASSUME MapInductive, AddRun
  PROVE  RunsInOrder'
<1>1. /\ freeRuns \in Seq(FreeRuns) /\ ranges \in Seq(FreeRuns) /\ Taken.to \in Nat
      /\ Taken.from \in Nat /\ Taken.to <= freeRuns[1].to /\ freeRuns[1].to \in Nat
      /\ Taken.to <= Taken.from => ranges' = ranges
  BY AddRunFacts DEF FreeRuns
<1>2. /\ \A i \in DOMAIN freeRuns' :
           i \in Nat /\ i + 1 \in DOMAIN freeRuns /\ freeRuns'[i] = freeRuns[i + 1]
      /\ \A i \in DOMAIN freeRuns' : freeRuns[1].to <= freeRuns'[i].from /\ freeRuns'[i].from \in Nat
  BY RunsLeft
<1>3. \A j, k \in DOMAIN freeRuns' : j < k => freeRuns'[j].to <= freeRuns'[k].from
  <2>1. SUFFICES ASSUME NEW j \in DOMAIN freeRuns', NEW k \in DOMAIN freeRuns', j < k
                 PROVE  freeRuns'[j].to <= freeRuns'[k].from
    OBVIOUS
  <2>2. j + 1 < k + 1 /\ j + 1 \in DOMAIN freeRuns /\ k + 1 \in DOMAIN freeRuns
    BY <1>2, <2>1
  <2>3. freeRuns[j + 1].to <= freeRuns[k + 1].from
    BY <2>2 DEF MapInductive, RunsInOrder
  <2> QED BY <1>2, <2>3
<1>4. ASSUME NEW k \in DOMAIN ranges', NEW j \in DOMAIN freeRuns'
      PROVE  ranges'[k].to <= freeRuns'[j].from
  <2>1. k \in DOMAIN ranges /\ ranges'[k] = ranges[k] => ranges'[k].to <= freeRuns'[j].from
    BY <1>2 DEF MapInductive, RunsInOrder
  <2>2. CASE Taken.to > Taken.from
    <3>1. k \in 1..(Len(ranges') - 1) => k \in DOMAIN ranges /\ ranges'[k] = ranges[k]
      BY Zenon, <2>2, AddedRange
    <3>2. k = Len(ranges') \/ k \in 1..(Len(ranges') - 1)
      <4>1. DOMAIN ranges' = 1..Len(ranges') /\ Len(ranges') \in Nat
        BY ZenonT(40), <2>2, AddedRange
      <4> QED BY SMTT(30), <4>1
    <3>3. ranges'[Len(ranges')].to = Taken.to
      BY Zenon, <2>2, AddedRange
    <3>4. Taken.to <= freeRuns'[j].from
      BY <1>1, <1>2
    <3> QED BY SMTT(30), <2>1, <3>1, <3>2, <3>3, <3>4
  <2>3. CASE Taken.to <= Taken.from
    BY <1>1, <2>1, <2>3
  <2> QED BY <1>1, <2>2, <2>3
<1> QED BY <1>3, <1>4 DEF RunsInOrder

(* When the walk is over, it has been to every group that is to be spared. *)
LEMMA SparedIsBehind ==
  ASSUME MapType, Walked, NEW m \in DOMAIN groups, Spared(m)
  PROVE  m < group
<1>1. group \in Nat \ {0} /\ groups \in Seq(Group) /\ IsMap /\ m \in Nat
  BY GroupFacts DEF MapType, IsMap
<1>2. SUFFICES ASSUME group <= m
               PROVE  FALSE
  BY <1>1
<1>3. group \in DOMAIN groups
  BY <1>1, <1>2
<1>4. groups[group].first <= groups[m].first
  <2>1. CASE group = m
    BY <1>1, <2>1, GroupFacts
  <2>2. CASE group < m
    <3>1. groups[group].first + groups[group].want <= groups[m].first
      BY <1>1, <1>3, <2>2 DEF IsMap
    <3>2. /\ groups[group].first \in Nat /\ groups[group].want \in Nat /\ groups[m].first \in Nat
      BY <1>1, <1>3, GroupFacts
    <3> QED BY <3>1, <3>2
  <2> QED BY <1>1, <1>2, <2>1, <2>2
<1>5. groups[group].first < clusters
  <2>1. groups[group].first \in Nat /\ groups[m].first \in Nat /\ clusters \in Nat
    BY <1>1, <1>3, GroupFacts
  <2> QED BY <1>4, <2>1 DEF Spared
<1>6. mapOf = "ext"
  BY DEF Spared, IsMissing
<1> QED BY <1>3, <1>5, <1>6 DEF Walked, Read

LEMMA AddRunApart ==
  ASSUME MapInductive, AddRun, Taken.to > Taken.from
  PROVE  RangesAreApart'
<1>1. /\ Walked /\ MapType /\ IsMap /\ UNCHANGED mapVars /\ groups' = groups /\ clusters' = clusters
      /\ volumeEnd' = volumeEnd /\ volumeEnd \in Nat /\ ranges \in Seq(FreeRuns)
      /\ Taken.from \in Nat /\ Taken.to \in Nat /\ Taken.to <= volumeEnd
      /\ Taken.from = freeRuns[1].from /\ Taken.to <= freeRuns[1].to /\ freeRuns[1].to \in Nat
      /\ 1 \in DOMAIN freeRuns
  BY SMTT(30), AddRunFacts DEF mapVars
<1>2. /\ \A k \in DOMAIN ranges : ranges[k].from < ranges[k].to /\ ranges[k].to <= volumeEnd
      /\ \A k \in 1..(Len(ranges) - 1) : ranges[k].to + MergeGap < ranges[k + 1].from
      /\ \A k \in DOMAIN ranges : ranges[k].to <= Taken.from
      /\ \A k \in DOMAIN ranges : ranges[k].from \in Nat /\ ranges[k].to \in Nat
      /\ Len(ranges) \in Nat /\ DOMAIN ranges = 1..Len(ranges)
  BY <1>1, RunFields DEF MapInductive, RangesAreApart, RunsInOrder
<1>3. /\ Len(ranges') \in Nat /\ DOMAIN ranges' = 1..Len(ranges') /\ Len(ranges') \in DOMAIN ranges'
      /\ \A k \in 1..(Len(ranges') - 1) : k \in DOMAIN ranges /\ ranges'[k] = ranges[k]
      /\ ranges'[Len(ranges')].to = Taken.to
  BY ZenonT(40), AddedRange
<1>4. \/ /\ Len(ranges') = Len(ranges) + 1
         /\ ranges'[Len(ranges')].from = Taken.from
         /\ ranges # <<>> => ranges[Len(ranges)].to + MergeGap < Taken.from
      \/ /\ Len(ranges') = Len(ranges) /\ Len(ranges) \in DOMAIN ranges
         /\ ranges'[Len(ranges')].from = ranges[Len(ranges)].from
         /\ Taken.from - ranges[Len(ranges)].to <= MergeGap
  BY Zenon, AddedRange
<1>5. \A k \in DOMAIN ranges' : k = Len(ranges') \/ k \in 1..(Len(ranges') - 1)
  BY <1>3
<1>6. ASSUME NEW k \in DOMAIN ranges'
      PROVE  ranges'[k].from < ranges'[k].to /\ ranges'[k].to <= volumeEnd
  <2>1. ranges'[Len(ranges')].from < Taken.to
    <3>1. Len(ranges) \in DOMAIN ranges => ranges[Len(ranges)].from < Taken.to
      BY <1>1, <1>2
    <3> QED BY <1>1, <1>4, <3>1
  <2> QED BY <1>1, <1>2, <1>3, <1>5, <2>1
<1>7. ASSUME NEW k \in 1..(Len(ranges') - 1)
      PROVE  ranges'[k].to + MergeGap < ranges'[k + 1].from
  <2>1. k \in DOMAIN ranges /\ ranges'[k] = ranges[k]
    BY <1>3
  <2>2. CASE k + 1 \in 1..(Len(ranges') - 1)
    <3>1. k + 1 \in DOMAIN ranges /\ ranges'[k + 1] = ranges[k + 1]
      BY <1>3, <2>2
    <3>2. k \in 1..(Len(ranges) - 1)
      BY <1>2, <3>1, <2>1
    <3> QED BY <1>2, <2>1, <3>1, <3>2
  <2>3. CASE k + 1 = Len(ranges')
    <3>1. CASE Len(ranges') = Len(ranges) + 1
      <4>1. k = Len(ranges) /\ ranges # <<>>
        BY <1>2, <2>1, <2>3, <3>1
      <4> QED BY Zenon, <1>2, <1>4, <2>1, <2>3, <3>1, <4>1
    <3>2. CASE Len(ranges') = Len(ranges)
      <4>1. k \in 1..(Len(ranges) - 1)
        BY <1>2, <2>3, <3>2
      <4>2. ranges[k].to + MergeGap < ranges[Len(ranges)].from
        BY <1>2, <2>3, <3>2, <4>1
      <4>3. Len(ranges') # Len(ranges) + 1
        <5>1. Len(ranges) \in Nat
          BY <1>2
        <5> QED BY <3>2, <5>1
      <4>4. ranges'[Len(ranges')].from = ranges[Len(ranges)].from
        BY <1>4, <4>3
      <4> QED BY <2>1, <2>3, <4>2, <4>4
    <3> QED BY SMTT(30), <1>4, <3>1, <3>2
  <2>4. k \in Nat /\ (k + 1 \in 1..(Len(ranges') - 1) \/ k + 1 = Len(ranges'))
    <3>1. Len(ranges') \in Nat
      BY <1>3
    <3> QED BY <3>1
  <2> QED BY <2>2, <2>3, <2>4
<1>8. ASSUME NEW m \in DOMAIN groups, Spared(m), Size(groups[m]) > MergeGap, NEW k \in DOMAIN ranges'
      PROVE  ranges'[k].to <= groups[m].first \/ Past(m) <= ranges'[k].from
  <2>1. \A j \in DOMAIN ranges : ranges[j].to <= groups[m].first \/ Past(m) <= ranges[j].from
    BY <1>8 DEF MapInductive, RangesAreApart, Spared, Past
  <2>2. freeRuns[1].to <= groups[m].first \/ Past(m) <= freeRuns[1].from
    <3>1. m < group
      BY <1>1, <1>8, SparedIsBehind
    <3> QED BY <1>1, <1>8, <3>1 DEF MapInductive, RunsSpare
  <2>3. /\ groups[m].first \in Nat /\ Size(groups[m]) \in Int /\ Past(m) = groups[m].first + Size(groups[m])
    BY <1>1, GroupFacts DEF Past
  <2>4. Taken.to <= groups[m].first \/ Past(m) <= Taken.from
    BY <1>1, <2>2, <2>3
  <2>5. CASE k \in 1..(Len(ranges') - 1)
    BY <1>3, <2>1, <2>5
  <2>6. CASE k = Len(ranges')
    <3>1. CASE ranges'[k].from = Taken.from
      BY <1>3, <2>4, <2>6, <3>1
    <3>2. CASE /\ Len(ranges) \in DOMAIN ranges
               /\ ranges'[k].from = ranges[Len(ranges)].from
               /\ Taken.from - ranges[Len(ranges)].to <= MergeGap
      <4>1. CASE Past(m) <= ranges[Len(ranges)].from
        BY <3>2, <4>1
      <4>2. CASE ranges[Len(ranges)].to <= groups[m].first
        <5>1. ranges[Len(ranges)].to \in Nat /\ MergeGap \in Nat
          BY <1>2, <3>2, FreeAssumption
        <5>2. ~(Past(m) <= Taken.from)
          BY <1>1, <1>8, <2>3, <3>2, <4>2, <5>1
        <5> QED BY <1>3, <2>4, <2>6, <5>2
      <4> QED BY <2>1, <3>2, <4>1, <4>2
    <3> QED BY <1>4, <2>6, <3>1, <3>2
  <2> QED BY <1>5, <2>5, <2>6
<1>9. \A m \in DOMAIN groups :
        /\ Size(groups[m])' = Size(groups[m]) /\ (IsMissing(groups[m])' <=> IsMissing(groups[m]))
  BY <1>1, MapStays
<1>10. \A m \in DOMAIN groups :
        IsMissing(groups[m]) /\ groups[m].first < clusters /\ Size(groups[m]) > MergeGap =>
          \A k \in DOMAIN ranges' :
            ranges'[k].to <= groups[m].first \/ groups[m].first + Size(groups[m]) <= ranges'[k].from
  BY <1>8 DEF Spared, Past
<1> QED BY <1>1, <1>6, <1>7, <1>9, <1>10 DEF RangesAreApart

LEMMA AddRunAccounts ==
  ASSUME MapInductive, AddRun
  PROVE  Accounted'
<1>1. /\ Walked /\ MapType /\ run = NoRun /\ UNCHANGED mapVars /\ groups' = groups
      /\ volumeEnd' = volumeEnd /\ volumeEnd \in Nat /\ ranges \in Seq(FreeRuns)
      /\ Taken.from \in Nat /\ Taken.to \in Nat /\ Taken.from = freeRuns[1].from
      /\ Taken.to = freeRuns[1].to \/ Taken.to = volumeEnd
      /\ Taken.to <= Taken.from => ranges' = ranges
  BY AddRunFacts DEF FreeRuns
<1>2. SUFFICES ASSUME NEW k \in DOMAIN groups, NEW c \in Nat, Free(k, c)
               PROVE  Has(k, c)'
  BY <1>1, MapStays DEF Accounted
<1>3. Has(k, c) /\ ~Ahead(k, c)
  BY <1>1, <1>2, NoneAhead DEF MapInductive, Accounted
<1>4. CASE volumeEnd <= c
  BY <1>1, <1>4 DEF Has
<1>5. CASE In(ranges, c)
  <2>1. PICK j \in DOMAIN ranges : ranges[j].from <= c /\ c < ranges[j].to
    BY <1>5 DEF In
  <2>2. ranges[j].from \in Nat /\ ranges[j].to \in Nat
    BY <1>1, RunFields
  <2>3. CASE Taken.to > Taken.from
    <3>1. /\ Len(ranges') \in Nat /\ DOMAIN ranges' = 1..Len(ranges')
          /\ \A i \in 1..(Len(ranges') - 1) : i \in DOMAIN ranges /\ ranges'[i] = ranges[i]
          /\ ranges'[Len(ranges')].to = Taken.to /\ Len(ranges') \in DOMAIN ranges'
      BY ZenonT(40), <2>3, AddedRange
    <3>2. \/ Len(ranges') = Len(ranges) + 1
          \/ /\ Len(ranges') = Len(ranges)
             /\ ranges'[Len(ranges')].from = ranges[Len(ranges)].from
      BY Zenon, <2>3, AddedRange
    <3>3. Len(ranges) \in Nat /\ DOMAIN ranges = 1..Len(ranges)
      BY <1>1
    <3>4. CASE j \in 1..(Len(ranges') - 1)
      <4>1. j \in DOMAIN ranges' /\ ranges'[j] = ranges[j]
        BY <3>1, <3>4
      <4> QED BY <2>1, <4>1 DEF Has, In
    <3>5. CASE j = Len(ranges') /\ Len(ranges') = Len(ranges)
      <4>1. ranges[j].to <= Taken.from
        <5>1. 1 \in DOMAIN freeRuns
          BY AddRunFacts
        <5> QED BY <1>1, <5>1 DEF MapInductive, RunsInOrder
      <4>2. j \in DOMAIN ranges' /\ ranges'[j].from <= c /\ c < ranges'[j].to
        <5>1. Len(ranges') # Len(ranges) + 1
          <6>1. Len(ranges) \in Nat
            BY <3>3
          <6>2. Len(ranges') = Len(ranges)
            BY <3>5
          <6> QED BY <6>1, <6>2
        <5>2. ranges'[j].from = ranges[j].from /\ ranges'[j].to = Taken.to
          BY <3>1, <3>2, <3>5, <5>1
        <5>3. c < Taken.to
          BY <1>1, <2>1, <2>2, <2>3, <4>1
        <5> QED BY <2>1, <3>1, <3>5, <5>2, <5>3
      <4> QED BY <4>2 DEF Has, In
    <3>6. \/ j \in 1..(Len(ranges') - 1)
          \/ j = Len(ranges') /\ Len(ranges') = Len(ranges)
      <4>1. Len(ranges') = Len(ranges) + 1 \/ Len(ranges') = Len(ranges)
        BY <3>2
      <4>2. j \in 1..Len(ranges) /\ Len(ranges) \in Nat
        BY <3>3
      <4> QED BY <4>1, <4>2
    <3> QED BY SMTT(30), <3>4, <3>5, <3>6
  <2>4. CASE Taken.to <= Taken.from
    BY <1>1, <1>5, <2>4 DEF Has, In
  <2> QED BY <1>1, <2>3, <2>4
<1>6. CASE freeRuns[1].from <= c /\ c < freeRuns[1].to /\ c < volumeEnd
  <2>1. Taken.from <= c /\ c < Taken.to /\ Taken.to > Taken.from
    BY SMTT(30), <1>1, <1>6
  <2>2. /\ Len(ranges') \in DOMAIN ranges' /\ ranges'[Len(ranges')].to = Taken.to
        /\ \/ ranges'[Len(ranges')].from = Taken.from
           \/ /\ Len(ranges) \in DOMAIN ranges
              /\ ranges'[Len(ranges')].from = ranges[Len(ranges)].from
    BY Zenon, <2>1, AddedRange
  <2>3. Len(ranges) \in DOMAIN ranges => ranges[Len(ranges)].from <= Taken.from
    <3>1. SUFFICES ASSUME Len(ranges) \in DOMAIN ranges
                   PROVE  ranges[Len(ranges)].from <= Taken.from
      OBVIOUS
    <3>2. 1 \in DOMAIN freeRuns
      BY AddRunFacts
    <3>3. ranges[Len(ranges)].from < ranges[Len(ranges)].to
      BY <3>1 DEF MapInductive, RangesAreApart
    <3>4. ranges[Len(ranges)].to <= Taken.from
      BY <1>1, <3>1, <3>2 DEF MapInductive, RunsInOrder
    <3>5. ranges[Len(ranges)].from \in Nat /\ ranges[Len(ranges)].to \in Nat
      BY <1>1, <3>1, RunFields
    <3> QED BY <1>1, <3>3, <3>4, <3>5
  <2>4. ranges'[Len(ranges')].from <= c
    <3>1. Len(ranges) \in DOMAIN ranges => ranges[Len(ranges)].from \in Nat
      BY <1>1, RunFields
    <3> QED BY <1>1, <2>1, <2>2, <2>3, <3>1
  <2> QED BY <2>1, <2>2, <2>4 DEF Has, In
<1>7. CASE In(freeRuns, c) /\ ~(volumeEnd <= c)
  <2>1. In(freeRuns, c)' \/ (freeRuns[1].from <= c /\ c < freeRuns[1].to)
    BY <1>7, RunsLeft
  <2>2. c < volumeEnd
    BY <1>1, <1>7
  <2> QED BY <1>6, <2>1, <2>2 DEF Has
<1> QED BY <1>1, <1>3, <1>4, <1>5, <1>7 DEF Has

LEMMA AddRunInductive ==
  ASSUME MapInductive, AddRun
  PROVE  MapInductive'
<1>1. /\ Walked /\ run = NoRun /\ run' = NoRun /\ UNCHANGED mapVars /\ groups' = groups
      /\ group' = group /\ bit' = bit /\ MapType /\ ranges \in Seq(FreeRuns)
      /\ Taken.from \in Nat /\ Taken.to \in Nat
      /\ Taken.to <= Taken.from => ranges' = ranges
  BY AddRunFacts DEF FreeRuns
<1>2. Walked'
  BY <1>1, MapStays
<1>3. freeRuns' \in Seq(FreeRuns)
      /\ \A i \in DOMAIN freeRuns' : i + 1 \in DOMAIN freeRuns /\ freeRuns'[i] = freeRuns[i + 1]
  BY RunsLeft
<1>4. ranges' \in Seq(FreeRuns)
  BY <1>1, AddedRange
<1>5. MapType'
  BY <1>1, <1>3, <1>4, MapStays DEF MapType
<1>6. RangesLast' /\ Behind'
  BY <1>1, <1>2 DEF RangesLast, Behind
<1>7. RunsSpare'
  BY <1>1, <1>3, MapStays DEF MapInductive, RunsSpare
<1>8. RangesAreApart'
  <2>1. CASE Taken.to > Taken.from
    BY <2>1, AddRunApart
  <2>2. CASE Taken.to <= Taken.from
    BY <1>1, <2>2, ApartStays
  <2> QED BY <1>1, <2>1, <2>2
<1> QED BY <1>5, <1>6, <1>7, <1>8, AddRunInOrder, AddRunAccounts DEF MapInductive

-----------------------------------------------------------------------------
LEMMA StepInductive ==
  ASSUME MapInductive, [FreeStep]_freeVars
  PROVE  MapInductive'
<1>1. CASE UNCHANGED freeVars
  <2>1. /\ UNCHANGED mapVars /\ groups' = groups /\ group' = group /\ bit' = bit /\ run' = run
        /\ freeRuns' = freeRuns /\ ranges' = ranges /\ volumeEnd' = volumeEnd
    BY <1>1 DEF freeVars, mapVars, walkVars
  <2>2. MapType'
    BY <2>1, MapStays DEF MapInductive, MapType
  <2>3. (Walked' <=> Walked) /\ Current' = Current
    BY <2>1, MapStays
  <2>4. RangesLast' /\ RunsInOrder'
    BY <2>1, <2>3 DEF MapInductive, RangesLast, RunsInOrder
  <2>5. Behind'
    <3>1. ~Walked => Counted(Current)' = Counted(Current)
      BY <2>1, MapStays, CurrentFacts DEF MapInductive
    <3>2. Current'.first = Current.first
      BY <2>1 DEF Current
    <3> QED BY <2>1, <2>3, <3>1, <3>2 DEF MapInductive, Behind
  <2>6. RunsSpare'
    BY <2>1, MapStays DEF MapInductive, RunsSpare
  <2>7. Accounted'
    <3>1. \A k \in DOMAIN groups, c \in Nat : Has(k, c)' <=> Has(k, c)
      BY <2>1 DEF Has, Ahead, In
    <3> QED BY <2>1, <3>1, MapStays DEF MapInductive, Accounted
  <2> QED BY <2>1, <2>2, <2>4, <2>5, <2>6, <2>7, ApartStays DEF MapInductive
<1> QED
  BY <1>1, TakeBitInductive, NextGroupInductive, MissingGroupInductive, CloseRunInductive,
     AddRunInductive
  DEF FreeStep

LEMMA AlwaysInductive == FreeSpec => []MapInductive
<1>1. IsMap /\ FreeInit => MapInductive
  BY InitInductive
<1>2. MapInductive /\ [FreeStep]_freeVars => MapInductive'
  BY StepInductive
<1> QED BY <1>1, <1>2, PTL DEF FreeSpec

(* Whatever the allocation map, the ranges that free_ranges makes of it    *)
(* are in order on the volume, further apart than what is read along, and  *)
(* clear of every larger group of ext that has no bitmap.                  *)
THEOREM ApartForEveryMap == FreeSpec => []RangesAreApart
<1>1. MapInductive => RangesAreApart
  BY DEF MapInductive
<1> QED BY <1>1, AlwaysInductive, PTL

(* Whatever the allocation map, when free_ranges is done every cluster     *)
(* that the map has as free, in as much of it as could be read, is in one  *)
(* of the ranges: none is lost where a run ends, a group begins or two     *)
(* ranges are joined.                                                      *)
THEOREM CarvedForEveryMap == FreeSpec => []FreeIsCarved
<1>1. ASSUME MapInductive PROVE FreeIsCarved
  <2>1. SUFFICES ASSUME Mapped, NEW c \in 0..(volumeEnd - 1), KnownFree(c)
                 PROVE  In(ranges, c)
    BY DEF FreeIsCarved, In
  <2>2. Walked /\ run = NoRun /\ freeRuns = <<>> /\ MapType /\ volumeEnd \in Nat
    BY <1>1, <2>1 DEF Mapped, MapInductive, MapType, IsMap
  <2>3. c \in Nat /\ ~(volumeEnd <= c)
    BY <2>2
  <2>4. PICK k \in DOMAIN groups : Free(k, c)
    BY <2>1 DEF KnownFree, Free
  <2>5. Has(k, c) /\ ~Ahead(k, c)
    BY <1>1, <2>2, <2>3, <2>4, NoneAhead DEF MapInductive, Accounted
  <2>6. ~In(freeRuns, c)
    BY <2>2 DEF In
  <2> QED BY <2>2, <2>3, <2>5, <2>6 DEF Has
<1> QED BY <1>1, AlwaysInductive, PTL
=============================================================================
