---------------------------- MODULE MediaProofs -----------------------------
(***************************************************************************)
(* Theorems about the readers, for any image that holds its media in one   *)
(* of the formats, of any size, with tables and units of any size,         *)
(* whatever its callers ask for and in whatever order.                     *)
(***************************************************************************)
EXTENDS Window, Grep, ImageFormats, Induction, SequenceTheorems

-----------------------------------------------------------------------------
(***************************************************************************)
(* Part 1.  Bytes and where they are from.                                 *)
(***************************************************************************)

LEMMA LeastIs ==
  ASSUME NEW a \in Int, NEW b \in Int
  PROVE  /\ Least(a, b) \in Int /\ Least(a, b) <= a /\ Least(a, b) <= b
         /\ Least(a, b) = a \/ Least(a, b) = b
BY DEF Least

(* d is what the bytes p have from x on. *)
Part(d, p, x) ==
  /\ d \in Seq(Nat)
  /\ x + Len(d) <= Len(p)
  /\ \A k \in 1..Len(d) : d[k] = p[x + k]

LEMMA PartIsSubSeq ==
  ASSUME NEW p \in Seq(Nat), NEW x \in Nat, NEW d, Part(d, p, x)
  PROVE  d = SubSeq(p, x + 1, x + Len(d))
<1>1. d \in Seq(Nat) /\ x + Len(d) <= Len(p) /\ \A k \in 1..Len(d) : d[k] = p[x + k]
  BY DEF Part
<1> DEFINE n == Len(d)
<1>2. n \in Nat /\ Len(d) = n
  BY <1>1
<1> HIDE DEF n
<1>3. SubSeq(p, x + 1, x + n) = d
  BY SMTT(30), <1>1, <1>2
<1> QED
  BY <1>2, <1>3

LEMMA SubSeqIsPart ==
  ASSUME NEW p \in Seq(Nat), NEW x \in Nat, NEW n \in Nat, x + n <= Len(p)
  PROVE  /\ Part(SubSeq(p, x + 1, x + n), p, x)
         /\ Len(SubSeq(p, x + 1, x + n)) = n
<1> DEFINE d == SubSeq(p, x + 1, x + n)
<1>1. d \in Seq(Nat) /\ Len(d) = n
  OBVIOUS
<1>2. \A k \in 1..n : d[k] = p[x + k]
  BY SMTT(30)
<1> HIDE DEF d
<1>3. Part(d, p, x) /\ Len(d) = n
  BY <1>1, <1>2 DEF Part
<1> QED
  BY <1>3 DEF d

LEMMA PartsJoin ==
  ASSUME NEW p \in Seq(Nat), NEW x \in Nat, NEW d, NEW e, NEW y, y = x + Len(d), Part(d, p, x), Part(e, p, y)
  PROVE  Part(d \o e, p, x) /\ Len(d \o e) = Len(d) + Len(e)
<1>1. d \in Seq(Nat) /\ e \in Seq(Nat) /\ Len(d) \in Nat /\ Len(e) \in Nat
  BY DEF Part
<1>2. d \o e \in Seq(Nat) /\ Len(d \o e) = Len(d) + Len(e)
  BY <1>1
<1>3. ASSUME NEW k \in 1..Len(d \o e) PROVE (d \o e)[k] = p[x + k]
  <2>1. CASE k <= Len(d)
    BY <1>1, <1>2, <2>1 DEF Part
  <2>2. CASE ~(k <= Len(d))
    <3>1. k - Len(d) \in 1..Len(e) /\ (d \o e)[k] = e[k - Len(d)]
      BY <1>1, <1>2, <2>2
    <3>2. e[k - Len(d)] = p[x + Len(d) + (k - Len(d))] /\ x + Len(d) + (k - Len(d)) = x + k
      BY <1>1, <3>1 DEF Part
    <3> QED BY <3>1, <3>2
  <2> QED BY <2>1, <2>2
<1>4. x + (Len(d) + Len(e)) <= Len(p)
  BY <1>1 DEF Part
<1> QED
  BY <1>2, <1>3, <1>4 DEF Part

(* From the middle of a part. *)
LEMMA PartIsCut ==
  ASSUME NEW p \in Seq(Nat), NEW x \in Nat, NEW d, Part(d, p, x),
         NEW from \in Nat, NEW n \in Nat, from + n <= Len(d)
  PROVE  Part(SubSeq(d, from + 1, from + n), p, x + from) /\ Len(SubSeq(d, from + 1, from + n)) = n
<1>1. d \in Seq(Nat) /\ Len(d) \in Nat /\ x + Len(d) <= Len(p)
  BY DEF Part
<1>2. Part(SubSeq(d, from + 1, from + n), d, from) /\ Len(SubSeq(d, from + 1, from + n)) = n
  BY <1>1, SubSeqIsPart
<1> DEFINE e == SubSeq(d, from + 1, from + n)
<1>3. e \in Seq(Nat) /\ Len(e) = n /\ \A k \in 1..n : e[k] = d[from + k]
  BY <1>2 DEF Part
<1> HIDE DEF e
<1> DEFINE y == x + from
<1>4. ASSUME NEW k \in 1..n PROVE e[k] = p[y + k]
  <2>1. from + k \in 1..Len(d) /\ x + (from + k) = y + k
    BY <1>1
  <2> HIDE DEF y
  <2> QED BY <1>3, <2>1 DEF Part
<1>5. Part(e, p, y) /\ Len(e) = n
  <2>1. y + n <= Len(p)
    BY <1>1
  <2> HIDE DEF y
  <2> QED BY <1>3, <1>4, <2>1 DEF Part
<1> QED
  BY <1>5 DEF e

(* A piece c of d, which is the part of p from x on. *)
IsCut(c, p, y, n) == Part(c, p, y) /\ Len(c) = n

LEMMA CutIs ==
  ASSUME NEW p \in Seq(Nat), NEW x \in Nat, NEW d, Part(d, p, x),
         NEW from \in Nat, NEW n \in Nat, from + n <= Len(d),
         NEW u, u = from + 1, NEW w, w = from + n, NEW y, y = x + from
  PROVE  IsCut(SubSeq(d, u, w), p, y, n)
<1>1. Part(SubSeq(d, from + 1, from + n), p, x + from) /\ Len(SubSeq(d, from + 1, from + n)) = n
  BY PartIsCut
<1> QED BY <1>1 DEF IsCut

-----------------------------------------------------------------------------
(* A file is read as far as is asked for, up to its end or what cannot be  *)
(* read; a whole file is read as far as is asked for and there is.         *)
IsRead(d, f, o, n) ==
  /\ d \in Seq(Nat) /\ Len(d) <= n
  /\ \A k \in 1..Len(d) : o + k <= Len(f.bytes) /\ d[k] = f.bytes[o + k]
  /\ f.bad = {} /\ o + n <= Len(f.bytes) => Len(d) = n
  /\ f.bad = {} /\ o <= Len(f.bytes) /\ Len(f.bytes) < o + n => Len(d) = Len(f.bytes) - o

LEMMA ReadAtIs ==
  ASSUME NEW f, IsFile(f), NEW o \in Nat, NEW n \in Nat
  PROVE  IsRead(ReadAt(f, o, n), f, o, n)
<1> DEFINE stops == {x \in f.bad : x >= o} \cup {Len(f.bytes)}
           stop  == CHOOSE x \in stops : \A y \in stops : x <= y
<1>1. f.bytes \in Seq(Nat) /\ f.bad \subseteq Nat /\ Len(f.bytes) \in Nat
  BY DEF IsFile
<1>2. stop \in stops /\ \A y \in stops : stop <= y
  <2>1. stops \subseteq Nat /\ stops # {}
    BY <1>1
  <2>2. \E x \in stops : \A y \in stops : x <= y
    <3> HIDE DEF stops
    <3> QED BY <2>1, LeastElement
  <2> QED BY <2>2
<1>3. stop \in Nat /\ stop <= Len(f.bytes) /\ (f.bad = {} => stop = Len(f.bytes))
      /\ (stop >= o \/ stop = Len(f.bytes))
  BY <1>1, <1>2
<1>4. ReadAt(f, o, n) = SubSeq(f.bytes, o + 1, Least(o + n, stop))
  BY DEF ReadAt
<1> HIDE DEF stop, stops
<1> DEFINE m == Least(o + n, stop) - o
<1>5. Least(o + n, stop) = o + m /\ m \in Int /\ m <= n /\ m <= stop - o /\ (m = n \/ m = stop - o)
  <2>1. o + n \in Int /\ stop \in Int
    BY <1>3
  <2> DEFINE l == Least(o + n, stop)
  <2>2. l \in Int /\ l <= o + n /\ l <= stop /\ (l = o + n \/ l = stop)
    BY <2>1, LeastIs
  <2> HIDE DEF l
  <2>3. l = o + (l - o) /\ l - o \in Int /\ l - o <= n /\ l - o <= stop - o /\ (l - o = n \/ l - o = stop - o)
    BY <2>1, <2>2
  <2> QED BY <2>3 DEF l
<1> HIDE DEF m
<1>6. CASE m > 0
  <2>1. m \in Nat /\ o + m <= Len(f.bytes)
    BY <1>1, <1>3, <1>5, <1>6
  <2>2. Part(ReadAt(f, o, n), f.bytes, o) /\ Len(ReadAt(f, o, n)) = m
    <3>1. ReadAt(f, o, n) = SubSeq(f.bytes, o + 1, o + m)
      BY <1>4, <1>5
    <3>2. Part(SubSeq(f.bytes, o + 1, o + m), f.bytes, o) /\ Len(SubSeq(f.bytes, o + 1, o + m)) = m
      BY <1>1, <2>1, SubSeqIsPart
    <3> QED BY <3>1, <3>2
  <2>3. f.bad = {} => m = n \/ m = Len(f.bytes) - o
    BY <1>3, <1>5
  <2> QED BY SMTT(30), <1>1, <1>5, <2>1, <2>2, <2>3 DEF Part, IsRead
<1>7. CASE ~(m > 0)
  <2>1. ReadAt(f, o, n) = <<>>
    BY <1>4, <1>5, <1>7, SubSeqEmpty
  <2>2. f.bad = {} => m = n \/ m = Len(f.bytes) - o
    BY <1>3, <1>5
  <2> QED BY <1>1, <1>5, <1>7, <2>1, <2>2 DEF IsRead
<1> QED
  BY <1>6, <1>7, <1>5

(* At most n bytes of the media from x on; n of them if all is well. *)
Gives(d, s, x, n, well) ==
  Part(d, s.plain, x) /\ Len(d) <= n /\ (well => Len(d) = n)

(* What is stored in a file is read from it: here, from byte from of it    *)
(* on, which is y in the file and z in the media.                          *)
LEMMA StoredIsRead ==
  ASSUME NEW f, IsFile(f), NEW s, s.plain \in Seq(Nat), NEW x \in Nat, NEW len \in Nat, NEW o,
         Stored(f, o, len, s, x), x + len <= Len(s.plain), NEW from \in Nat, NEW n \in Nat, from + n <= len,
         NEW y, y = o + from, NEW z, z = x + from
  PROVE  Gives(ReadAt(f, y, n), s, z, n, f.bad = {})
<1>0. Len(f.bytes) \in Nat
  BY DEF IsFile
<1>1. o \in Nat /\ o + len <= Len(f.bytes) /\ \A b \in 1..len : f.bytes[o + b] = s.plain[x + b]
  BY DEF Stored
<1>5. y \in Nat /\ z \in Nat /\ y + n <= Len(f.bytes) /\ z + n <= Len(s.plain)
  <2>1. Len(s.plain) \in Nat
    OBVIOUS
  <2> QED BY <1>0, <1>1, <2>1
<1> DEFINE d == ReadAt(f, y, n)
<1>2. /\ d \in Seq(Nat) /\ Len(d) \in Nat /\ Len(d) <= n
      /\ \A k \in 1..Len(d) : d[k] = f.bytes[y + k]
      /\ f.bad = {} => Len(d) = n
  <2>1. IsRead(d, f, y, n)
    BY <1>5, ReadAtIs
  <2> HIDE DEF d
  <2>2. d \in Seq(Nat) /\ Len(d) <= n /\ (f.bad = {} => Len(d) = n)
    BY <1>5, <2>1 DEF IsRead
  <2>3. \A k \in 1..Len(d) : d[k] = f.bytes[y + k]
    BY <2>1 DEF IsRead
  <2> QED BY <2>2, <2>3
<1> HIDE DEF d
<1>3. ASSUME NEW k \in 1..Len(d) PROVE d[k] = s.plain[z + k]
  <2>1. from + k \in 1..len /\ o + (from + k) = y + k /\ x + (from + k) = z + k
    BY <1>0, <1>1, <1>2, <1>5
  <2> QED BY <1>1, <1>2, <2>1
<1>4. Part(d, s.plain, z)
  <2>1. z + Len(d) <= Len(s.plain)
    BY SMTT(30), <1>0, <1>2, <1>5
  <2> QED BY <1>2, <1>3, <2>1 DEF Part
<1> QED
  BY <1>2, <1>4 DEF d, Gives

LEMMA DivMod ==
  ASSUME NEW a \in Nat, NEW d \in Nat \ {0}
  PROVE  a \div d \in Nat /\ a % d \in 0..(d - 1) /\ a = (a \div d) * d + (a % d)
OBVIOUS

LEMMA DivIs ==
  ASSUME NEW q \in Nat, NEW d \in Nat \ {0}, NEW r \in 0..(d - 1)
  PROVE  (q * d + r) \div d = q /\ (q * d + r) % d = r
OBVIOUS

LEMMA Times ==
  ASSUME NEW a \in Nat, NEW b \in Nat, NEW c \in Nat, a <= b
  PROVE  a * c \in Nat /\ a * c <= b * c
OBVIOUS

LEMMA WholeUnits ==
  ASSUME NEW w \in Nat \ {0}, NEW j \in Nat, NEW n \in Nat, n % w = 0, j * w < n
  PROVE  j * w + w <= n
<1> DEFINE q == n \div w
<1>1. q \in Nat /\ n = q * w
  <2>1. q \in Nat /\ n = q * w + (n % w)
    BY DivMod
  <2> HIDE DEF q
  <2>2. q * w \in Nat
    BY <2>1, Times
  <2> QED BY <2>1, <2>2
<1> HIDE DEF q
<1>2. j < q
  <2> SUFFICES ASSUME q <= j PROVE FALSE
    BY <1>1
  <2>1. q * w <= j * w
    BY <1>1, Times
  <2> QED BY <1>1, <2>1
<1>3. (j + 1) * w <= q * w
  <2> DEFINE i == j + 1
  <2>1. i \in Nat /\ i <= q
    BY <1>1, <1>2
  <2> HIDE DEF i
  <2> QED BY <1>1, <2>1, Times DEF i
<1>4. (j + 1) * w = j * w + w
  OBVIOUS
<1> QED
  BY <1>1, <1>3, <1>4

LEMMA SourceFacts ==
  ASSUME NEW s \in Sources
  PROVE  s.kind \in Kinds /\ s.plain \in Seq(Nat) /\ Len(s.plain) = s.size /\ s.size \in Nat \ {0}
BY SourcesAssumption, FormatsAssumption

-----------------------------------------------------------------------------
(***************************************************************************)
(* Part 2.  What each reader gets at a position is what is there.          *)
(***************************************************************************)

LEMMA RawGives ==
  ASSUME NEW s \in Sources, s.kind = "raw", NEW x \in Nat, NEW n \in Nat, x + n <= s.size
  PROVE  Gives(ReadAt(s.file, x, n), s, x, n, s.file.bad = {})
<1>1. IsFile(s.file) /\ s.file.bytes = s.plain /\ s.plain \in Seq(Nat) /\ Len(s.plain) = s.size
  BY SourceFacts, FormatsAssumption DEF HoldsRaw
<1> DEFINE d == ReadAt(s.file, x, n)
<1>2. IsRead(d, s.file, x, n)
  BY <1>1, ReadAtIs
<1> HIDE DEF d
<1>3. d \in Seq(Nat) /\ Len(d) <= n /\ Len(d) \in Nat /\ \A k \in 1..Len(d) : d[k] = s.plain[x + k]
  BY <1>1, <1>2 DEF IsRead
<1>4. s.file.bad = {} => Len(d) = n
  BY <1>1, <1>2 DEF IsRead
<1>5. Part(d, s.plain, x)
  BY <1>1, <1>3 DEF Part
<1> QED
  BY <1>3, <1>4, <1>5 DEF d, Gives

(* Split raw: the segments lie where the sum of the lengths before them    *)
(* says, one after the other.                                              *)
LEMMA BaseIs ==
  ASSUME NEW s, Len(s.segs) \in Nat, \A i \in 1..Len(s.segs) : Len(s.segs[i].bytes) \in Nat
  PROVE  /\ Base(s, 1) = 0
         /\ \A i \in 1..Len(s.segs) : Base(s, i) \in Nat /\ Base(s, i + 1) = Base(s, i) + Len(s.segs[i].bytes)
<1> DEFINE n == Len(s.segs)
           len(k) == Len(s.segs[k].bytes)
           d == [p \in Nat \X (1..n) |-> p[1] + len(p[2])]
           Sums(g) == g = [k \in 0..n |-> IF k = 0 THEN 0 ELSE g[k - 1] + len(k)]
           total == CHOOSE g : Sums(g)
<1>0. n \in Nat /\ \A k \in 1..n : len(k) \in Nat
  OBVIOUS
<1>6. \A i : Base(s, i) = total[i - 1]
  BY DEF Base
<1> HIDE DEF n, len
<1>1. n \in Nat /\ d \in [Nat \X (1..n) -> Nat] /\ 0 \in Nat
  BY <1>0
<1>2. PICK u : IsLoop(u, n, Nat, 0, d)
  <2> HIDE DEF n, d
  <2> QED BY <1>1, LoopExists
<1>3. u \in [0..n -> Nat] /\ u = [k \in 0..n |-> IF k = 0 THEN 0 ELSE d[<<u[k - 1], k>>]]
  BY <1>2 DEF IsLoop
<1>4. Sums(u)
  <2>1. ASSUME NEW k \in 0..n, k # 0 PROVE d[<<u[k - 1], k>>] = u[k - 1] + len(k)
    <3>1. k \in 1..n /\ k - 1 \in 0..n
      BY <1>1, <2>1
    <3>2. u[k - 1] \in Nat
      BY <1>3, <3>1
    <3> QED BY <3>1, <3>2
  <2> HIDE DEF d
  <2> QED BY <1>3, <2>1
<1>5. Sums(total)
  <2> HIDE DEF Sums
  <2> QED BY <1>4
<1> HIDE DEF total, d
<1>7. total[0] = 0 /\ \A k \in 1..n : total[k] = total[k - 1] + len(k)
  <2>1. 0 \in 0..n /\ \A k \in 1..n : k \in 0..n /\ k # 0
    BY <1>1
  <2>2. \A k \in 0..n : total[k] = IF k = 0 THEN 0 ELSE total[k - 1] + len(k)
    <3> DEFINE t == total
    <3> HIDE DEF t
    <3>1. t = [k \in 0..n |-> IF k = 0 THEN 0 ELSE t[k - 1] + len(k)] => \A k \in 0..n : t[k] = IF k = 0 THEN 0 ELSE t[k - 1] + len(k)
      OBVIOUS
    <3> QED BY <1>5, <3>1 DEF t
  <2> QED BY <2>1, <2>2
<1>8. 0..n \subseteq {k \in Int : total[k] \in Nat}
  <2> DEFINE S == {k \in Int : total[k] \in Nat}
  <2>1. 0 \in S
    BY <1>7
  <2>2. \A k \in 0..(n - 1) : k \in S => k + 1 \in S
    <3> SUFFICES ASSUME NEW k \in 0..(n - 1), k \in S PROVE k + 1 \in S
      OBVIOUS
    <3>1. k + 1 \in 1..n /\ (k + 1) - 1 = k
      BY <1>1
    <3>2. total[k + 1] = total[k] + len(k + 1) /\ len(k + 1) \in Nat
      BY <1>0, <1>7, <3>1
    <3> QED BY <3>2
  <2> HIDE DEF S
  <2>3. 0..n \subseteq S
    BY <1>1, <2>1, <2>2, UpTo
  <2> QED BY <2>3 DEF S
<1>9. ASSUME NEW i \in 1..n PROVE Base(s, i) \in Nat /\ Base(s, i + 1) = Base(s, i) + len(i)
  <2>1. Base(s, i) = total[i - 1] /\ Base(s, i + 1) = total[i] /\ i - 1 \in 0..n
    BY <1>1, <1>6
  <2>2. total[i - 1] \in Nat
    BY <1>8, <2>1
  <2> QED BY <1>7, <2>1, <2>2
<1>10. Base(s, 1) = 0
  BY <1>6, <1>7
<1> QED
  BY <1>9, <1>10 DEF n, len

LEMMA SegmentsLie ==
  ASSUME NEW s \in Sources, s.kind = "split"
  PROVE  /\ Len(s.segs) \in Nat /\ DOMAIN s.segs = 1..Len(s.segs)
         /\ Base(s, 1) = 0 /\ Base(s, Len(s.segs) + 1) = s.size
         /\ \A i \in 1..Len(s.segs) :
              /\ IsFile(s.segs[i]) /\ Base(s, i) \in Nat
              /\ Base(s, i + 1) = Base(s, i) + Len(s.segs[i].bytes)
              /\ Base(s, i + 1) <= s.size
              /\ Stored(s.segs[i], 0, Len(s.segs[i].bytes), s, Base(s, i))
<1> DEFINE n == Len(s.segs)
<1>1. HoldsSplit(s)
  BY FormatsAssumption
<1>2. n \in Nat /\ DOMAIN s.segs = 1..n /\ \A i \in 1..n : IsFile(s.segs[i])
  BY <1>1 DEF HoldsSplit
<1>3. \A i \in 1..n : Len(s.segs[i].bytes) \in Nat
  BY <1>2 DEF IsFile
<1>4. PICK start \in [1..(n + 1) -> 0..s.size] :
        /\ start[1] = 0 /\ start[n + 1] = s.size
        /\ \A i \in 1..n : /\ start[i + 1] = start[i] + Len(s.segs[i].bytes)
                           /\ Stored(s.segs[i], 0, Len(s.segs[i].bytes), s, start[i])
  BY <1>1, <1>2 DEF HoldsSplit
<1>5. /\ Base(s, 1) = 0
      /\ \A i \in 1..n : Base(s, i) \in Nat /\ Base(s, i + 1) = Base(s, i) + Len(s.segs[i].bytes)
  BY <1>2, <1>3, BaseIs
<1>6. \A k \in 0..n : Base(s, k + 1) = start[k + 1]
  <2> DEFINE S == {k \in 0..n : Base(s, k + 1) = start[k + 1]}
  <2>1. 0 \in S
    BY <1>2, <1>4, <1>5
  <2>2. ASSUME NEW k \in 0..(n - 1), k \in S PROVE k + 1 \in S
    <3>1. k + 1 \in 1..n /\ k + 1 \in 0..n
      BY <1>2
    <3> QED BY <1>4, <1>5, <2>2, <3>1
  <2> HIDE DEF S
  <2>3. 0..n \subseteq S
    BY <1>2, <2>1, <2>2, UpTo
  <2> QED BY <2>3 DEF S
<1>7. ASSUME NEW i \in 1..(n + 1) PROVE Base(s, i) = start[i]
  <2>1. i - 1 \in 0..n /\ (i - 1) + 1 = i
    BY <1>2
  <2> QED BY <1>6, <2>1
<1>8. Base(s, n + 1) = s.size
  BY <1>2, <1>4, <1>7
<1>9. ASSUME NEW i \in 1..n
      PROVE  Base(s, i + 1) <= s.size /\ Stored(s.segs[i], 0, Len(s.segs[i].bytes), s, Base(s, i))
  <2>1. i \in 1..(n + 1) /\ i + 1 \in 1..(n + 1)
    BY <1>2
  <2>2. Base(s, i) = start[i] /\ Base(s, i + 1) = start[i + 1] /\ start[i + 1] \in 0..s.size
    BY <1>4, <1>7, <2>1
  <2> QED BY <1>4, <2>2, SourceFacts
<1> QED
  BY <1>2, <1>5, <1>8, <1>9

LEMMA SplitGives ==
  ASSUME NEW s \in Sources, s.kind = "split", NEW i \in 1..Len(s.segs),
         NEW x \in Nat, NEW n \in Nat, Base(s, i) <= x, x < Base(s, i) + Len(s.segs[i].bytes)
  PROVE  LET f     == s.segs[i]
             local == x - Base(s, i)
             want  == Least(Len(f.bytes) - local, n)
         IN  /\ Gives(ReadAt(f, local, want), s, x, want, f.bad = {})
             /\ want \in Nat /\ want <= n
             /\ want = n \/ x + want = Base(s, i + 1)
<1> DEFINE f     == s.segs[i]
           b     == Base(s, i)
           len   == Len(f.bytes)
           local == x - b
           want  == Least(len - local, n)
<1>1. /\ IsFile(f) /\ b \in Nat /\ Base(s, i + 1) = b + len /\ b + len <= s.size
      /\ Stored(f, 0, len, s, b)
  BY SegmentsLie
<1>2. s.plain \in Seq(Nat) /\ Len(s.plain) = s.size /\ len \in Nat
  BY <1>1, SourceFacts DEF IsFile
<1>3. b <= x /\ x < b + len
  OBVIOUS
<1> HIDE DEF f, b, len
<1>4. local \in Nat /\ len - local \in Nat /\ b + local = x
  BY <1>1, <1>2, <1>3
<1>5. want \in Nat /\ want <= n /\ local + want <= len /\ (want = n \/ want = len - local)
  <2> DEFINE left == len - local
  <2> HIDE DEF left
  <2>1. left \in Nat /\ left = len - local /\ want = Least(left, n)
    BY <1>4 DEF left
  <2>2. want \in Int /\ want <= left /\ want <= n /\ (want = left \/ want = n)
    <3>1. left \in Int /\ n \in Int
      BY <2>1
    <3> QED BY <2>1, <3>1, LeastIs
  <2> HIDE DEF want, local
  <2> QED BY <2>1, <2>2, <1>2, <1>4
<1> HIDE DEF want, local
<1>6. b + len <= Len(s.plain)
  BY <1>1, <1>2
<1>8. local = 0 + local /\ x = b + local
  BY <1>4
<1>9. want = n \/ x + want = Base(s, i + 1)
  BY SMTT(30), <1>1, <1>2, <1>4, <1>5
<1>10. Gives(ReadAt(f, local, want), s, x, want, f.bad = {})
  <2> DEFINE o == 0
  <2>1. o = 0 /\ local = o + local
    BY <1>8
  <2>2. Stored(f, o, len, s, b)
    BY <1>1
  <2> HIDE DEF o
  <2> QED BY <1>1, <1>2, <1>4, <1>5, <1>6, <1>8, <2>1, <2>2, StoredIsRead
<1> QED
  BY <1>5, <1>9, <1>10 DEF want, local, f, b, len

-----------------------------------------------------------------------------
(* QCOW2 and VMDK: the entry that is found for a cluster describes it. *)
LEMMA EntryDescribes ==
  ASSUME NEW s \in Sources, s.kind \in {"qcow2", "vmdk"}, NEW u \in Nat
  PROVE  /\ Entry(s, u) \in Int /\ Entry(s, u) >= -Len(s.packed) /\ Len(s.packed) \in Nat
         /\ s.kind = "vmdk" => Entry(s, u) >= 0
         /\ \A b \in 1..s.unit : u * s.unit + b <= s.size => s.plain[u * s.unit + b] = UnitByte(s, Entry(s, u), b)
<1> DEFINE t == (u \div s.perTable) + 1
           k == (u % s.perTable) + 1
<1>1. HoldsTables(s) /\ s.size \in Nat
  BY SourceFacts, FormatsAssumption
<1>2. /\ s.unit \in Nat \ {0} /\ s.perTable \in Nat \ {0}
      /\ s.dir \in Seq(0..Len(s.tables)) /\ s.tables \in Seq([1..s.perTable -> Int])
      /\ s.packed \in Seq([1..s.unit -> Nat])
      /\ \A i \in DOMAIN s.tables : \A j \in 1..s.perTable :
           IF s.kind = "vmdk" THEN s.tables[i][j] >= 0 ELSE s.tables[i][j] >= -Len(s.packed)
      /\ \A i \in DOMAIN s.dir : \A j \in 1..s.perTable : \A b \in 1..s.unit :
           ((i - 1) * s.perTable + j - 1) * s.unit + b <= s.size =>
             s.plain[((i - 1) * s.perTable + j - 1) * s.unit + b] =
               IF s.dir[i] = 0 THEN 0 ELSE UnitByte(s, s.tables[s.dir[i]][j], b)
      /\ \A x \in (Len(s.dir) * s.perTable * s.unit + 1)..s.size : s.plain[x] = 0
  BY <1>1 DEF HoldsTables
<1>3. t \in Nat \ {0} /\ k \in 1..s.perTable /\ (t - 1) * s.perTable + k - 1 = u
  <2> DEFINE q == u \div s.perTable
             r == u % s.perTable
             w == s.perTable
  <2>1. w \in Nat \ {0} /\ q \in Nat /\ r \in 0..(w - 1) /\ u = q * w + r
    BY <1>2, DivMod
  <2>2. t = q + 1 /\ k = r + 1
    OBVIOUS
  <2> HIDE DEF q, r, t, k, w
  <2>3. t - 1 = q /\ k - 1 = r /\ q * w \in Nat
    BY <2>1, <2>2
  <2>4. (t - 1) * w + k - 1 = u
    BY <2>1, <2>2, <2>3
  <2> QED BY <2>1, <2>2, <2>4 DEF w
<1>4. Len(s.packed) \in Nat /\ Len(s.dir) \in Nat /\ DOMAIN s.dir = 1..Len(s.dir)
      /\ Len(s.tables) \in Nat /\ DOMAIN s.tables = 1..Len(s.tables)
  BY <1>2
<1>5. Entry(s, u) = IF t \notin DOMAIN s.dir \/ s.dir[t] = 0 THEN 0 ELSE s.tables[s.dir[t]][k]
  BY DEF Entry
<1>6. \A b \in 1..s.unit : UnitByte(s, 0, b) = 0
  BY DEF UnitByte
<1> HIDE DEF t, k
<1>7. CASE t \in DOMAIN s.dir
  <2>1. ASSUME NEW b \in 1..s.unit, u * s.unit + b <= s.size
        PROVE  s.plain[u * s.unit + b] = IF s.dir[t] = 0 THEN 0 ELSE UnitByte(s, s.tables[s.dir[t]][k], b)
    BY <1>2, <1>3, <1>7, <2>1
  <2>2. CASE s.dir[t] = 0
    <3>1. Entry(s, u) = 0
      BY <1>5, <2>2
    <3> QED BY <1>4, <1>6, <2>1, <2>2, <3>1
  <2>3. CASE s.dir[t] # 0
    <3>1. s.dir[t] \in DOMAIN s.tables
      <4>1. s.dir[t] \in 0..Len(s.tables)
        BY <1>2, <1>7
      <4> QED BY <1>4, <2>3, <4>1
    <3>2. Entry(s, u) = s.tables[s.dir[t]][k]
      BY <1>5, <1>7, <2>3
    <3>3. s.tables[s.dir[t]] \in [1..s.perTable -> Int]
      BY SMTT(30), <1>2, <3>1
    <3>4. s.tables[s.dir[t]][k] \in Int
      BY <1>3, <3>3
    <3>5. IF s.kind = "vmdk" THEN s.tables[s.dir[t]][k] >= 0 ELSE s.tables[s.dir[t]][k] >= -Len(s.packed)
      BY <1>2, <1>3, <3>1
    <3>6. Entry(s, u) >= -Len(s.packed) /\ (s.kind = "vmdk" => Entry(s, u) >= 0)
      <4>1. CASE s.kind = "vmdk"
        BY SMTT(30), <1>4, <3>2, <3>4, <3>5, <4>1
      <4>2. CASE s.kind # "vmdk"
        BY <3>2, <3>5, <4>2
      <4> QED BY <4>1, <4>2
    <3> QED BY <1>4, <2>1, <2>3, <3>2, <3>4, <3>6
  <2> QED BY <2>2, <2>3
<1>8. CASE t \notin DOMAIN s.dir
  <2>1. Entry(s, u) = 0
    BY <1>5, <1>8
  <2>2. ASSUME NEW b \in 1..s.unit, u * s.unit + b <= s.size
        PROVE  s.plain[u * s.unit + b] = 0
    <3>1. Len(s.dir) <= t - 1 /\ t - 1 \in Nat
      BY <1>3, <1>4, <1>8
    <3>2. Len(s.dir) * s.perTable <= (t - 1) * s.perTable /\ Len(s.dir) * s.perTable \in Nat
      BY <1>2, <1>4, <3>1, Times
    <3> DEFINE all == Len(s.dir) * s.perTable
               row == (t - 1) * s.perTable
    <3>3. all \in Nat /\ row \in Nat /\ all <= row /\ row + k - 1 = u
      <4>1. row \in Nat
        BY <1>2, <3>1, Times
      <4> QED BY <1>3, <3>2, <4>1
    <3> HIDE DEF all, row
    <3>4. all <= u
      BY <1>3, <3>3
    <3>5. all * s.unit <= u * s.unit /\ all * s.unit \in Nat /\ u * s.unit \in Nat
      BY SMTT(30), <1>2, <3>3, <3>4, Times
    <3>6. u * s.unit + b \in (all * s.unit + 1)..s.size
      BY <1>1, <2>2, <3>5
    <3> QED BY <1>2, <3>6 DEF all
  <2> QED BY <1>4, <1>6, <2>1, <2>2
<1> QED
  BY <1>7, <1>8

LEMMA ZerosAre == \A n \in Nat : Zeros(n) \in Seq(Nat) /\ Len(Zeros(n)) = n /\ \A b \in 1..n : Zeros(n)[b] = 0
BY DEF Zeros

(* A read that is padded has the bytes of the file, and zeros after them. *)
IsPadded(d, f, o, n) ==
  /\ d \in Seq(Nat) /\ Len(d) = n
  /\ \A b \in 1..n : d[b] = IF o + b <= Len(f.bytes) THEN f.bytes[o + b] ELSE 0

LEMMA PaddedIs ==
  ASSUME NEW f, Whole(f), NEW o \in Nat, NEW n \in Nat
  PROVE  IsPadded(PadTo(ReadAt(f, o, n), n), f, o, n)
<1> DEFINE r == ReadAt(f, o, n)
           z == Zeros(n - Len(r))
<1>1. IsFile(f) /\ f.bad = {} /\ Len(f.bytes) \in Nat
  BY DEF Whole, IsFile
<1>9. IsRead(r, f, o, n)
  BY <1>1, ReadAtIs
<1>3. PadTo(r, n) = IF Len(r) < n THEN r \o z ELSE r
  BY DEF PadTo
<1> HIDE DEF r
<1>2. /\ r \in Seq(Nat) /\ Len(r) <= n
      /\ \A k \in 1..Len(r) : o + k <= Len(f.bytes) /\ r[k] = f.bytes[o + k]
      /\ f.bad = {} /\ o + n <= Len(f.bytes) => Len(r) = n
      /\ f.bad = {} /\ o <= Len(f.bytes) /\ Len(f.bytes) < o + n => Len(r) = Len(f.bytes) - o
  BY <1>9 DEF IsRead
<1>4. Len(r) \in Nat /\ n - Len(r) \in Nat
  BY <1>2
<1>5. z \in Seq(Nat) /\ Len(z) = n - Len(r) /\ \A b \in 1..(n - Len(r)) : z[b] = 0
  BY <1>4, ZerosAre
<1> HIDE DEF z
<1>6. \A b \in 1..n : b > Len(r) => ~(o + b <= Len(f.bytes))
  BY <1>1, <1>2, <1>4
<1>7. CASE Len(r) < n
  <2> DEFINE d == r \o z
  <2>1. d \in Seq(Nat) /\ Len(d) = n
    BY <1>2, <1>4, <1>5
  <2>2. ASSUME NEW b \in 1..n PROVE d[b] = IF o + b <= Len(f.bytes) THEN f.bytes[o + b] ELSE 0
    <3>1. CASE b <= Len(r)
      <4>1. b \in 1..Len(r) /\ d[b] = r[b]
        BY <1>2, <1>4, <1>5, <3>1
      <4> QED BY <1>2, <4>1
    <3>2. CASE ~(b <= Len(r))
      <4>1. b - Len(r) \in 1..(n - Len(r)) /\ d[b] = z[b - Len(r)]
        BY <1>2, <1>4, <1>5, <3>2
      <4> QED BY <1>4, <1>5, <1>6, <3>2, <4>1
    <3> QED BY <3>1, <3>2
  <2> QED BY <1>3, <1>7, <2>1, <2>2 DEF r, IsPadded
<1>8. CASE ~(Len(r) < n)
  <2>1. Len(r) = n
    BY <1>2, <1>4, <1>8
  <2>2. \A b \in 1..n : r[b] = IF o + b <= Len(f.bytes) THEN f.bytes[o + b] ELSE 0
    BY <1>2, <2>1
  <2> QED BY <1>2, <1>3, <1>8, <2>1, <2>2 DEF r, IsPadded
<1> QED
  BY <1>7, <1>8

(* Bytes of one cluster or grain, from the one of position x on. *)
UnitOf(s, x) == x \div s.unit

UnitBytes(d, s, u, from) == \A k \in 1..Len(d) : d[k] = UnitByte(s, Entry(s, u), from + k)

LEMMA UnitPart ==
  ASSUME NEW s \in Sources, s.kind \in {"qcow2", "vmdk"}, NEW x \in Nat, NEW from, from = Within(s, x),
         NEW m \in Nat, from + m <= s.unit, x + m <= s.size, NEW d \in Seq(Nat), Len(d) = m,
         UnitBytes(d, s, UnitOf(s, x), from)
  PROVE  Part(d, s.plain, x)
<1> DEFINE u == UnitOf(s, x)
           w == s.unit
<1>1. w \in Nat \ {0}
  BY FormatsAssumption DEF HoldsTables
<1>2. u \in Nat /\ from \in 0..(w - 1) /\ x = u * w + from
  BY <1>1, DivMod DEF Within, UnitOf
<1>3. \A b \in 1..w : u * w + b <= s.size => s.plain[u * w + b] = UnitByte(s, Entry(s, u), b)
  BY <1>2, EntryDescribes
<1>4. \A k \in 1..m : d[k] = UnitByte(s, Entry(s, u), from + k)
  BY DEF UnitBytes
<1>5. from + m <= w
  OBVIOUS
<1> HIDE DEF u, w
<1> DEFINE start == u * w
<1>6. start \in Nat /\ from \in Nat /\ x = start + from
  BY <1>1, <1>2, Times
<1>7. \A b \in 1..w : start + b <= s.size => s.plain[start + b] = UnitByte(s, Entry(s, u), b)
  BY <1>3
<1> HIDE DEF start
<1>8. s.plain \in Seq(Nat) /\ Len(s.plain) = s.size /\ s.size \in Nat
  BY SourceFacts
<1>9. ASSUME NEW k \in 1..m PROVE d[k] = s.plain[x + k]
  <2>0. k \in Nat \ {0} /\ k <= m
    OBVIOUS
  <2>1. from + k \in 1..w
    <3>1. from + k \in Nat /\ from + k >= 1 /\ from + k <= from + m
      BY SMTT(30), <1>6, <2>0
    <3>2. from + k <= w
      BY <1>1, <1>5, <1>6, <3>1
    <3> QED BY <1>1, <3>1, <3>2
  <2>2. start + (from + k) = x + k
    BY <1>6
  <2>3. x + k <= s.size
    <3>1. x + k <= x + m
      BY <2>0
    <3>2. x + m <= s.size
      OBVIOUS
    <3> QED BY <1>8, <3>1, <3>2
  <2> QED BY <1>4, <1>7, <2>1, <2>2, <2>3
<1> QED
  BY <1>8, <1>9 DEF Part

LEMMA WithinIs ==
  ASSUME NEW s \in Sources, s.unit \in Nat \ {0}, NEW x \in Nat, NEW n \in Nat
  PROVE  /\ Within(s, x) \in Nat /\ s.unit - Within(s, x) \in Nat \ {0}
         /\ Least(s.unit - Within(s, x), n) \in Nat
         /\ Within(s, x) + Least(s.unit - Within(s, x), n) <= s.unit
         /\ Least(s.unit - Within(s, x), n) <= n
         /\ n > 0 => Least(s.unit - Within(s, x), n) > 0
<1> DEFINE w    == s.unit
           from == Within(s, x)
           left == w - from
<1>1. w \in Nat \ {0}
  OBVIOUS
<1>2. from \in 0..(w - 1)
  BY DivMod DEF Within
<1> HIDE DEF from, w
<1>3. left \in Nat \ {0} /\ from + left = w /\ from \in Nat
  BY <1>1, <1>2
<1> HIDE DEF left
<1>4. Least(left, n) \in Nat /\ from + Least(left, n) <= w /\ Least(left, n) <= n /\ (n > 0 => Least(left, n) > 0)
  BY <1>1, <1>3 DEF Least
<1> QED
  BY <1>3, <1>4 DEF left, from, w

(* At most n bytes of the media from x on; some, if all is well. *)
GetsOn(d, s, x, n, well) ==
  Part(d, s.plain, x) /\ Len(d) <= n /\ (n > 0 /\ well => d # <<>>)

LEMMA FunctionIsSeq == \A n \in Nat : \A c \in [1..n -> Nat] : c \in Seq(Nat) /\ Len(c) = n
OBVIOUS

LEMMA ClusterIs ==
  ASSUME NEW s \in Sources, s.kind = "qcow2", NEW u \in Nat
  PROVE  /\ Cluster(s, u) \in Seq(Nat) /\ Len(Cluster(s, u)) = s.unit
         /\ \A b \in 1..s.unit : Cluster(s, u)[b] = UnitByte(s, Entry(s, u), b)
<1> DEFINE e == Entry(s, u)
<1>1. s.unit \in Nat \ {0} /\ Whole(s.file) /\ s.packed \in Seq([1..s.unit -> Nat])
  BY FormatsAssumption DEF HoldsTables
<1>2. e \in Int /\ e >= -Len(s.packed) /\ Len(s.packed) \in Nat
  BY EntryDescribes
<1>3. Cluster(s, u) = CASE e = 0 -> Zeros(s.unit)
                        [] e < 0 -> s.packed[-e]
                        [] e > 0 -> PadTo(ReadAt(s.file, e, s.unit), s.unit)
  BY DEF Cluster
<1> HIDE DEF e
<1> DEFINE Right(c) == c \in Seq(Nat) /\ Len(c) = s.unit /\ \A b \in 1..s.unit : c[b] = UnitByte(s, e, b)
<1>4. CASE e = 0
  <2>1. Right(Zeros(s.unit))
    BY <1>1, <1>4, ZerosAre DEF UnitByte
  <2> QED BY <1>3, <1>4, <2>1 DEF e
<1>5. CASE e < 0
  <2>1. -e \in 1..Len(s.packed)
    BY <1>2, <1>5
  <2>2. s.packed[-e] \in [1..s.unit -> Nat]
    BY <1>1, <2>1
  <2> DEFINE c == s.packed[-e]
  <2>3. c \in Seq(Nat) /\ Len(c) = s.unit
    BY <1>1, <2>2, FunctionIsSeq
  <2>4. \A b \in 1..s.unit : c[b] = UnitByte(s, e, b)
    BY <1>2, <1>5 DEF UnitByte
  <2> QED BY <1>2, <1>3, <1>5, <2>3, <2>4 DEF e
<1>6. CASE e > 0
  <2> DEFINE c == PadTo(ReadAt(s.file, e, s.unit), s.unit)
  <2>1. IsPadded(c, s.file, e, s.unit)
    BY <1>1, <1>2, <1>6, PaddedIs
  <2> HIDE DEF c
  <2>2. Right(c)
    BY <1>2, <1>6, <2>1 DEF UnitByte, IsPadded
  <2> QED BY <1>2, <1>3, <1>6, <2>2 DEF e, c
<1> QED
  BY <1>2, <1>4, <1>5, <1>6

LEMMA ClusterGives ==
  ASSUME NEW s \in Sources, s.kind = "qcow2", NEW x \in Nat, NEW n \in Nat, x + n <= s.size
  PROVE  LET from == Within(s, x)
             cl   == Cluster(s, x \div s.unit)
         IN  GetsOn(SubSeq(cl, from + 1, Least(Len(cl), from + n)), s, x, n, TRUE)
<1> DEFINE from == Within(s, x)
           u    == UnitOf(s, x)
           cl   == Cluster(s, u)
           m    == Least(s.unit - from, n)
           d    == SubSeq(cl, from + 1, from + m)
<1>1. s.unit \in Nat \ {0}
  BY FormatsAssumption DEF HoldsTables
<1>2. from \in Nat /\ from + m <= s.unit /\ m \in Nat /\ m <= n /\ (n > 0 => m > 0)
  BY <1>1, WithinIs
<1>3. u \in Nat
  BY <1>1, DivMod DEF UnitOf
<1>4. cl \in Seq(Nat) /\ Len(cl) = s.unit /\ \A b \in 1..s.unit : cl[b] = UnitByte(s, Entry(s, u), b)
  <2> HIDE DEF u
  <2> QED BY <1>3, ClusterIs
<1>5. Least(Len(cl), from + n) = from + m
  BY <1>1, <1>2, <1>4 DEF Least
<1> HIDE DEF cl, m
<1>6. Part(d, cl, from) /\ Len(d) = m
  <2> HIDE DEF from
  <2> QED BY <1>1, <1>2, <1>4, SubSeqIsPart
<1> HIDE DEF d
<1>7. d \in Seq(Nat) /\ \A k \in 1..m : d[k] = cl[from + k]
  BY <1>6 DEF Part
<1>8. \A k \in 1..m : d[k] = UnitByte(s, Entry(s, u), from + k)
  <2> HIDE DEF from, u
  <2> TAKE k \in 1..m
  <2>1. from + k \in 1..s.unit
    BY <1>1, <1>2
  <2> QED BY <1>4, <1>7, <2>1
<1>9. Part(d, s.plain, x)
  <2>1. x + m <= s.size
    BY <1>2, SourceFacts
  <2>2. UnitBytes(d, s, u, from)
    <3> HIDE DEF from, u
    <3> QED BY <1>6, <1>8 DEF UnitBytes
  <2> QED BY <1>2, <1>6, <1>7, <2>1, <2>2, UnitPart
<1>10. GetsOn(d, s, x, n, TRUE)
  <2>1. n > 0 => d # <<>>
    BY <1>2, <1>6
  <2> QED BY <1>2, <1>6, <1>9, <2>1 DEF GetsOn
<1> QED
  BY <1>5, <1>10 DEF d, cl, UnitOf

LEMMA GrainGives ==
  ASSUME NEW s \in Sources, s.kind = "vmdk", NEW x \in Nat, NEW n \in Nat, x + n <= s.size
  PROVE  GetsOn(Grain(s, x, n), s, x, n, TRUE)
<1> DEFINE from == Within(s, x)
           u    == UnitOf(s, x)
           e    == Entry(s, u)
           m    == Least(s.unit - from, n)
           d    == Grain(s, x, n)
<1>1. s.unit \in Nat \ {0} /\ Whole(s.file)
  BY FormatsAssumption DEF HoldsTables
<1>2. from \in Nat /\ from + m <= s.unit /\ m \in Nat /\ m <= n /\ (n > 0 => m > 0)
  BY <1>1, WithinIs
<1>3. u \in Nat
  BY <1>1, DivMod DEF UnitOf
<1>4. e \in Nat
  <2> HIDE DEF u
  <2> QED BY <1>3, EntryDescribes
<1>5. d = IF e = 0 THEN Zeros(m) ELSE PadTo(ReadAt(s.file, e + from, m), m)
  BY DEF Grain, UnitOf
<1> HIDE DEF d, m, e
<1>6. d \in Seq(Nat) /\ Len(d) = m /\ \A k \in 1..m : d[k] = UnitByte(s, e, from + k)
  <2>1. CASE e = 0
    BY SMTT(30), <1>2, <1>5, <2>1, ZerosAre DEF UnitByte
  <2>2. CASE e # 0
    <3> HIDE DEF from
    <3> DEFINE o == e + from
               c == PadTo(ReadAt(s.file, o, m), m)
    <3>1. o \in Nat /\ d = c
      BY <1>2, <1>4, <1>5, <2>2
    <3>2. \A k \in 1..m : o + k = e + (from + k)
      BY <1>2, <1>4
    <3> HIDE DEF o
    <3>3. IsPadded(c, s.file, o, m)
      BY <1>1, <1>2, <3>1, PaddedIs
    <3> HIDE DEF c
    <3>4. \A b : UnitByte(s, e, b) = IF e + b <= Len(s.file.bytes) THEN s.file.bytes[e + b] ELSE 0
      BY <1>4, <2>2 DEF UnitByte
    <3> QED BY <3>1, <3>2, <3>3, <3>4 DEF IsPadded
  <2> QED BY <2>1, <2>2
<1>7. Part(d, s.plain, x)
  <2>1. x + m <= s.size
    BY <1>2, SourceFacts
  <2>2. UnitBytes(d, s, u, from)
    <3> HIDE DEF from, u
    <3> QED BY <1>6 DEF UnitBytes, e
  <2> QED BY <1>2, <1>6, <2>1, <2>2, UnitPart
<1>8. n > 0 => d # <<>>
  BY <1>2, <1>6
<1> QED
  BY <1>2, <1>6, <1>7, <1>8 DEF GetsOn, d

-----------------------------------------------------------------------------
(* E01: what is decoded of a chunk is what it holds.  What is read of the  *)
(* last one may go on beyond the media.                                    *)
IsChunk(c, s, start) ==
  /\ c \in Seq(Nat) /\ Len(c) <= s.unit
  /\ \A k \in 1..Len(c) : start + k <= s.size => c[k] = s.plain[start + k]

LEMMA ChunkIs ==
  ASSUME NEW s \in Sources, s.kind = "ewf", NEW i \in DOMAIN s.chunks, NEW start \in Nat, start = (i - 1) * s.unit
  PROVE  /\ IsChunk(DecodeChunk(s, i), s, start)
         /\ ~Damaged(s) => Len(DecodeChunk(s, i)) >= Least(s.unit, s.size - start)
<1> DEFINE c == s.chunks[i]
           w == s.unit
           size == Least(w, s.size - start)
           d == DecodeChunk(s, i)
<1>1. /\ w \in Nat \ {0} /\ s.plain \in Seq(Nat) /\ Len(s.plain) = s.size /\ s.size \in Nat
      /\ (i - 1) * s.unit = start
  BY SourceFacts, FormatsAssumption DEF HoldsChunks
<1>2. IF c.compressed
        THEN c.plain = SubSeq(s.plain, start + 1, start + size) /\ c.decodes \in 0..size
        ELSE IsFile(s.files[c.segment]) /\ Stored(s.files[c.segment], c.offset, size, s, start)
  <2>1. HoldsChunks(s)
    BY FormatsAssumption
  <2>2. LET x == (i - 1) * s.unit
            z == Least(s.unit, s.size - x)
        IN  IF c.compressed
              THEN c.plain = SubSeq(s.plain, x + 1, x + z) /\ c.decodes \in 0..z
              ELSE IsFile(s.files[c.segment]) /\ Stored(s.files[c.segment], c.offset, z, s, x)
    BY <2>1 DEF HoldsChunks
  <2> QED BY <1>1, <2>2
<1>3. ASSUME ~Damaged(s) PROVE ~(Len(d) < size)
  <2>1. ~(Len(d) < Least(s.unit, s.size - (i - 1) * s.unit))
    BY <1>3 DEF Damaged
  <2> QED BY <1>1, <2>1
<1>4. d = IF c.compressed THEN SubSeq(c.plain, 1, c.decodes) ELSE ReadAt(s.files[c.segment], c.offset, w)
  BY DEF DecodeChunk
<1>5. size \in Int /\ (\A k \in Nat : k <= w /\ start + k <= s.size => k <= size)
      /\ size <= w /\ size <= s.size - start
  BY <1>1 DEF Least
<1> HIDE DEF d, size, w, c
<1>6. CASE c.compressed
  <2>1. size \in Nat /\ start + size <= s.size
    <3>1. c.decodes \in 0..size
      BY <1>2, <1>6
    <3>2. size \in Nat
      BY <1>5, <3>1
    <3> QED BY <1>1, <1>5, <3>2
  <2> DEFINE p == c.plain
             n == c.decodes
  <2>2. Part(p, s.plain, start) /\ Len(p) = size
    <3>1. p = SubSeq(s.plain, start + 1, start + size)
      BY <1>2, <1>6
    <3> HIDE DEF p
    <3>2. /\ Part(SubSeq(s.plain, start + 1, start + size), s.plain, start)
          /\ Len(SubSeq(s.plain, start + 1, start + size)) = size
      BY SMTT(30), <1>1, <2>1, SubSeqIsPart
    <3> QED BY <3>1, <3>2
  <2>3. n \in 0..size /\ d = SubSeq(p, 1, n)
    BY <1>2, <1>4, <1>6
  <2> HIDE DEF p, n
  <2>4. p \in Seq(Nat) /\ \A k \in 1..size : p[k] = s.plain[start + k]
    BY <2>2 DEF Part
  <2>5. d \in Seq(Nat) /\ Len(d) = n /\ \A k \in 1..n : d[k] = p[k]
    BY <2>1, <2>2, <2>3, <2>4
  <2>6. \A k \in 1..n : d[k] = s.plain[start + k]
    BY <2>1, <2>3, <2>4, <2>5
  <2>7. Len(d) <= w
    BY <1>1, <1>5, <2>1, <2>3, <2>5
  <2>8. IsChunk(d, s, start)
    BY <2>5, <2>6, <2>7 DEF IsChunk, w
  <2>9. ~Damaged(s) => Len(d) >= size
    BY <1>3, <1>5, <2>5
  <2> QED BY <2>8, <2>9 DEF size, d, w
<1>7. CASE ~c.compressed
  <2> DEFINE f == s.files[c.segment]
             o == c.offset
  <2>1. IsFile(f) /\ Stored(f, o, size, s, start) /\ d = ReadAt(f, o, w)
    BY <1>2, <1>4, <1>7
  <2> HIDE DEF f, o
  <2>2. o \in Nat /\ \A b \in 1..size : f.bytes[o + b] = s.plain[start + b]
    BY <2>1 DEF Stored
  <2>3. IsRead(d, f, o, w)
    BY <1>1, <2>1, <2>2, ReadAtIs
  <2>4. d \in Seq(Nat) /\ \A k \in 1..Len(d) : d[k] = f.bytes[o + k]
    BY <2>3 DEF IsRead
  <2>5. Len(d) \in Nat /\ Len(d) <= w
    BY <2>3 DEF IsRead
  <2>6. ASSUME NEW k \in 1..Len(d), start + k <= s.size
        PROVE  d[k] = s.plain[start + k]
    <3>1. k \in Nat /\ k >= 1 /\ k <= w
      BY <1>1, <2>5
    <3>2. k \in 1..size
      BY <1>5, <2>6, <3>1
    <3> QED BY <2>2, <2>4, <3>2
  <2>8. IsChunk(d, s, start)
    BY <2>4, <2>5, <2>6 DEF IsChunk, w
  <2>9. ~Damaged(s) => Len(d) >= size
    BY <1>3, <1>5, <2>5
  <2> QED BY <2>8, <2>9 DEF size, d, w
<1> QED
  BY <1>6, <1>7

LEMMA ChunkGives ==
  ASSUME NEW s \in Sources, s.kind = "ewf", NEW x \in Nat, NEW n \in Nat \ {0}, x + n <= s.size
  PROVE  LET i    == (x \div s.unit) + 1
             from == Within(s, x)
             c    == DecodeChunk(s, i)
         IN  /\ i \in DOMAIN s.chunks
             /\ GetsOn(SubSeq(c, from + 1, Least(Len(c), from + n)), s, x, n, ~Damaged(s))
<1> DEFINE u     == UnitOf(s, x)
           i     == u + 1
           w     == s.unit
           from  == Within(s, x)
           c     == DecodeChunk(s, i)
           start == u * w
           count == Len(s.chunks)
<1>1. /\ w \in Nat \ {0} /\ s.plain \in Seq(Nat) /\ Len(s.plain) = s.size /\ s.size \in Nat
      /\ count \in Nat /\ DOMAIN s.chunks = 1..count /\ s.size <= count * w
  <2>1. HoldsChunks(s)
    BY FormatsAssumption
  <2>2. /\ w \in Nat \ {0} /\ count \in Nat /\ DOMAIN s.chunks = 1..count
        /\ s.size <= ((count + 1) - 1) * w
    BY <2>1 DEF HoldsChunks
  <2>3. (count + 1) - 1 = count
    BY <2>2
  <2> QED BY <2>2, <2>3, SourceFacts
<1>2. u \in Nat /\ from \in 0..(w - 1) /\ x = u * w + from
  BY <1>1, DivMod DEF Within, UnitOf
<1>3. x < s.size
  BY <1>1
<1> HIDE DEF from, u, w, count
<1>4. start \in Nat /\ x = start + from /\ from \in Nat /\ from < w
  BY <1>1, <1>2, Times
<1>5. u < count
  <2> SUFFICES ASSUME ~(u < count) PROVE FALSE
    OBVIOUS
  <2>1. count <= u
    BY <1>1, <1>2
  <2>2. count * w <= u * w
    BY <1>1, <1>2, <2>1, Times
  <2> DEFINE all == count * w
  <2>3. s.size <= all /\ all <= start
    BY <1>1, <2>2
  <2>4. all \in Nat
    BY <1>1, Times
  <2> HIDE DEF all, start
  <2> QED BY SMTT(30), <1>1, <1>3, <1>4, <2>3, <2>4
<1>6. i \in DOMAIN s.chunks /\ (i - 1) * w = start
  <2>1. i \in 1..count /\ i - 1 = u
    BY <1>1, <1>2, <1>5
  <2> QED BY <1>1, <2>1
<1> HIDE DEF start, i
<1>7. IsChunk(c, s, start) /\ (~Damaged(s) => Len(c) >= Least(w, s.size - start))
  BY <1>4, <1>6, ChunkIs DEF w
<1> HIDE DEF c
<1>8. c \in Seq(Nat) /\ Len(c) \in Nat /\ \A k \in 1..Len(c) : start + k <= s.size => c[k] = s.plain[start + k]
  BY <1>7 DEF IsChunk
<1>9. ~Damaged(s) => from < Len(c)
  <2>1. from < Least(w, s.size - start)
    BY SMTT(30), <1>1, <1>3, <1>4 DEF Least
  <2>2. Least(w, s.size - start) \in Int
    BY SMTT(30), <1>1, <1>4 DEF Least
  <2> QED BY <1>4, <1>7, <1>8, <2>1, <2>2
<1> DEFINE m == Least(Len(c), from + n) - from
           d == SubSeq(c, from + 1, from + m)
<1>10. Least(Len(c), from + n) = from + m /\ m \in Int /\ m <= n /\ from + m <= Len(c)
       /\ (from < Len(c) => m > 0)
  BY <1>4, <1>8 DEF Least
<1> HIDE DEF m
<1> DEFINE Goal == GetsOn(SubSeq(c, from + 1, Least(Len(c), from + n)), s, x, n, ~Damaged(s))
<1>11. ASSUME m > 0 PROVE Goal
  <2>1. m \in Nat
    BY <1>10, <1>11
  <2>2. Part(d, c, from) /\ Len(d) = m
    BY <1>4, <1>8, <1>10, <2>1, SubSeqIsPart
  <2> HIDE DEF d
  <2>3. d \in Seq(Nat) /\ \A k \in 1..m : d[k] = c[from + k]
    BY <2>2 DEF Part
  <2>4. x + m <= s.size
    <3>1. x + n <= s.size /\ x + m <= x + n
      BY <1>10
    <3> QED BY <1>1, <1>10, <3>1
  <2>5. ASSUME NEW k \in 1..m PROVE d[k] = s.plain[x + k]
    <3>1. from + k \in 1..Len(c)
      BY <1>4, <1>8, <1>10, <2>1
    <3>2. x + k <= x + m /\ start + (from + k) = x + k
      BY <1>4, <2>1
    <3>3. start + (from + k) <= s.size
      BY <1>1, <2>1, <2>4, <3>2
    <3> QED BY <1>8, <2>3, <3>1, <3>2, <3>3
  <2>6. Part(d, s.plain, x)
    BY <1>1, <2>2, <2>3, <2>4, <2>5 DEF Part
  <2>7. GetsOn(d, s, x, n, ~Damaged(s))
    BY <1>10, <1>11, <2>2, <2>6 DEF GetsOn
  <2> QED BY <1>10, <2>7 DEF d
<1>12. ASSUME ~(m > 0) PROVE Goal
  <2>1. d = <<>>
    BY SMTT(30), <1>4, <1>8, <1>10, <1>12, SubSeqEmpty
  <2>2. Damaged(s)
    BY <1>9, <1>10, <1>12
  <2> HIDE DEF d
  <2>3. GetsOn(d, s, x, n, ~Damaged(s))
    BY <1>1, <1>3, <2>1, <2>2 DEF GetsOn, Part
  <2> QED BY <1>10, <2>3 DEF d
<1>13. Goal /\ i \in DOMAIN s.chunks
  BY <1>6, <1>11, <1>12
<1> QED
  BY <1>13 DEF c, i, u, from, UnitOf

-----------------------------------------------------------------------------
(* Pieces that follow one another, each where the one before it ended, are *)
(* joined.                                                                 *)
Pieces(f, n, off, p, x) ==
  \A k \in 1..n : Part(f[k], p, x + off[k - 1]) /\ off[k] = off[k - 1] + Len(f[k])

PiecesMake(f, n, off, p, x) == Part(FlattenSeq(f), p, x) /\ Len(FlattenSeq(f)) = off[n]

LEMMA PiecesJoin ==
  ASSUME NEW p \in Seq(Nat), NEW x \in Nat, NEW n \in Nat \ {0}, NEW f, Len(f) = n,
         NEW off, off \in [0..n -> Nat], off[0] = 0, Pieces(f, n, off, p, x)
  PROVE  PiecesMake(f, n, off, p, x)
<1> DEFINE Joins(g) == g = [i \in 1..n |-> IF i = 1 THEN f[i] ELSE g[i - 1] \o f[i]]
           flat == CHOOSE g : Joins(g)
           F == [i \in 1..n |-> SubSeq(p, x + 1, x + off[i])]
<1>1. FlattenSeq(f) = flat[n]
  BY DEF FlattenSeq
<1>0. \A k \in 1..n : Part(f[k], p, x + off[k - 1]) /\ off[k] = off[k - 1] + Len(f[k])
  BY DEF Pieces
<1>2. ASSUME NEW d, NEW k \in 1..n, Part(d, p, x), Len(d) = off[k - 1]
      PROVE  Part(d \o f[k], p, x) /\ Len(d \o f[k]) = off[k]
  <2> DEFINE e == f[k]
             y == x + off[k - 1]
  <2>1. Part(e, p, y) /\ off[k] = Len(d) + Len(e) /\ y = x + Len(d)
    BY <1>0, <1>2
  <2> HIDE DEF e, y
  <2>2. Part(d \o e, p, x) /\ Len(d \o e) = Len(d) + Len(e)
    <3>1. Part(d, p, x) /\ Part(e, p, y) /\ y = x + Len(d)
      BY <1>2, <2>1
    <3> HIDE DEF F, flat, Joins
    <3> QED BY <3>1, PartsJoin
  <2> QED BY <2>1, <2>2 DEF e
<1>3. ASSUME NEW k \in 1..n PROVE x + off[k] <= Len(p) /\ off[k] \in Nat
  <2>1. k - 1 \in 0..n /\ k \in 0..n
    OBVIOUS
  <2>2. off[k - 1] \in Nat /\ off[k] \in Nat
    BY <2>1
  <2>3. x + off[k - 1] + Len(f[k]) <= Len(p)
    BY <1>0 DEF Part
  <2>4. Len(f[k]) \in Nat
    BY <1>0 DEF Part
  <2>5. off[k] = off[k - 1] + Len(f[k])
    BY <1>0
  <2> QED BY <2>2, <2>3, <2>4, <2>5
<1>4. Part(f[1], p, x) /\ Len(f[1]) = off[1] /\ 1 \in 1..n
  <2>1. 1 \in 1..n /\ 1 - 1 = 0 /\ x + 0 = x
    OBVIOUS
  <2>2. Part(f[1], p, x + off[0]) /\ off[1] = off[0] + Len(f[1])
    BY <1>0, <2>1
  <2>3. Len(f[1]) \in Nat
    BY <2>2 DEF Part
  <2> QED BY <2>1, <2>2, <2>3
<1>5. Joins(F)
  <2> SUFFICES ASSUME NEW i \in 1..n PROVE F[i] = IF i = 1 THEN f[i] ELSE F[i - 1] \o f[i]
    <3> HIDE DEF F
    <3>1. F = [i \in 1..n |-> F[i]]
      BY DEF F
    <3> QED BY <3>1
  <2>1. CASE i = 1
    <3>1. f[1] = SubSeq(p, x + 1, x + off[1])
      BY <1>4, PartIsSubSeq
    <3> QED BY <2>1, <3>1
  <2>2. CASE i # 1
    <3>1. i - 1 \in 1..n /\ i > 1
      BY <2>2
    <3>2. Part(F[i - 1], p, x) /\ Len(F[i - 1]) = off[i - 1]
      BY <1>3, <3>1, SubSeqIsPart
    <3> DEFINE d == F[i - 1]
    <3> HIDE DEF F
    <3>3. Part(d \o f[i], p, x) /\ Len(d \o f[i]) = off[i]
      BY <1>2, <3>1, <3>2
    <3> DEFINE e == d \o f[i]
    <3>4. Part(e, p, x) /\ Len(e) = off[i]
      BY <3>3
    <3> HIDE DEF e, d
    <3>5. e = SubSeq(p, x + 1, x + Len(e))
      BY <3>4, PartIsSubSeq
    <3>6. e = SubSeq(p, x + 1, x + off[i])
      BY <3>4, <3>5
    <3>7. F[i] = e
      BY <3>6 DEF F
    <3> QED BY <2>2, <3>7 DEF e, d
  <2> QED BY <2>1, <2>2
<1> HIDE DEF F
<1>6. Joins(flat)
  <2> HIDE DEF Joins
  <2> QED BY <1>5
<1> HIDE DEF flat
<1>7. \A i \in 1..n : flat[i] = IF i = 1 THEN f[i] ELSE flat[i - 1] \o f[i]
  <2>1. \A g : Joins(g) => \A i \in 1..n : g[i] = IF i = 1 THEN f[i] ELSE g[i - 1] \o f[i]
    OBVIOUS
  <2> HIDE DEF Joins
  <2> QED BY <1>6, <2>1
<1> DEFINE S == {k \in 0..n : k = 0 \/ (Part(flat[k], p, x) /\ Len(flat[k]) = off[k])}
<1>8. 0..n \subseteq S
  <2>1. 0 \in S
    OBVIOUS
  <2>2. ASSUME NEW k \in 0..(n - 1), k \in S PROVE k + 1 \in S
    <3>1. k + 1 \in 1..n /\ (k + 1) - 1 = k /\ k + 1 \in 0..n
      OBVIOUS
    <3>2. CASE k = 0
      BY <1>4, <1>7, <3>1, <3>2
    <3>3. CASE k # 0
      <4>1. flat[k + 1] = flat[k] \o f[k + 1]
        <5> DEFINE m == k + 1
        <5>1. m \in 1..n /\ m - 1 = k /\ m # 1
          BY <3>1, <3>3
        <5> HIDE DEF m
        <5>2. flat[m] = flat[m - 1] \o f[m]
          BY <1>7, <5>1
        <5> QED BY <5>1, <5>2 DEF m
      <4>2. Part(flat[k], p, x) /\ Len(flat[k]) = off[k]
        BY <2>2, <3>3
      <4>3. Part(flat[k] \o f[k + 1], p, x) /\ Len(flat[k] \o f[k + 1]) = off[k + 1]
        BY <1>2, <3>1, <4>1, <4>2
      <4> QED BY <3>1, <4>1, <4>3
    <3> QED BY <3>2, <3>3
  <2> HIDE DEF S
  <2> QED BY <2>1, <2>2, UpTo
<1>9. Part(flat[n], p, x) /\ Len(flat[n]) = off[n]
  BY <1>8
<1> QED
  BY <1>1, <1>9 DEF PiecesMake

-----------------------------------------------------------------------------
(* BitLocker: a sector that is decrypted for the place where it is kept    *)
(* gives the bytes of the media.                                           *)
LEMMA BytesDecrypt ==
  ASSUME NEW m \in Nat, NEW b \in 0..(Key - 1), NEW e, e = b + Key * (m + 1)
  PROVE  e \in Nat /\ e \div Key = m + 1 /\ e % Key = b
<1> DEFINE q == m + 1
<1>1. Key \in Nat \ {0} /\ q \in Nat
  BY CacheAssumption
<1>2. e = q * Key + b
  BY <1>1
<1> HIDE DEF q
<1>3. q * Key \in Nat
  BY <1>1, Times
<1> QED
  BY <1>1, <1>2, <1>3, DivIs DEF q

VolumeOk(s, v) ==
  /\ v.base \in Nat /\ v.headerBytes \in Nat /\ v.headerSrc \in Nat /\ v.sector \in Nat \ {0}
  /\ v.size \in Nat /\ v.size % v.sector = 0 /\ v.base + v.size <= s.size

LEMMA VolumeFacts ==
  ASSUME NEW s \in Sources, s.kind = "bitlocker"
  PROVE  /\ Whole(s.file) /\ IsFile(s.file) /\ s.file.bytes \in Seq(Nat) /\ Len(s.file.bytes) = s.size
         /\ \A v \in s.volumes : VolumeOk(s, v)
BY FormatsAssumption DEF HoldsVolumes, VolumeOk, Whole, IsFile

LEMMA SectorDecrypts ==
  ASSUME NEW s \in Sources, s.kind = "bitlocker", NEW v \in s.volumes, NEW j \in Nat, j * v.sector < v.size,
         NEW ct, Part(ct, s.file.bytes, v.base + Kept(v, j)), Len(ct) = v.sector
  PROVE  /\ Part(Decrypt(Kept(v, j) \div v.sector, ct), s.plain, v.base + j * v.sector)
         /\ Len(Decrypt(Kept(v, j) \div v.sector, ct)) = v.sector
<1> DEFINE w == v.sector
           kept == Kept(v, j)
           m == kept \div w
           first == j * w
           d == Decrypt(m, ct)
<1>1. VolumeOk(s, v)
  BY VolumeFacts
<1>2. w \in Nat \ {0} /\ v.base \in Nat /\ v.headerSrc \in Nat /\ v.size \in Nat /\ v.base + v.size <= s.size /\ v.size % w = 0
  BY <1>1 DEF VolumeOk
<1>3. first \in Nat /\ kept \in Nat
  BY SMTT(30), <1>2, Times DEF Kept
<1>4. s.plain \in Seq(0..(Key - 1)) /\ Len(s.plain) = s.size /\ s.size \in Nat /\ Key \in Nat \ {0}
  BY SourceFacts, FormatsAssumption, CacheAssumption DEF HoldsVolumes
<1>5. \A b \in 1..w : s.file.bytes[v.base + kept + b] = s.plain[v.base + first + b] + Key * (m + 1)
  <2>1. j \in 0..v.size
    <3>1. j * 1 <= j * w
      BY <1>2
    <3> QED BY <1>2, <3>1
  <2>2. HoldsVolumes(s)
    BY FormatsAssumption
  <2> QED BY <2>1, <2>2 DEF HoldsVolumes
<1>6. first + w <= v.size
  <2> DEFINE n == v.size
  <2>1. n \in Nat /\ j * w < n /\ n % w = 0
    BY <1>2
  <2> HIDE DEF n, w
  <2>2. j * w + w <= n
    BY <1>2, <2>1, WholeUnits
  <2> QED BY <2>2 DEF n, w
<1>7. m \in Nat
  BY <1>2, <1>3, DivMod
<1>8. first < v.size
  OBVIOUS
<1> HIDE DEF m, kept, first, w
<1> DEFINE x == v.base + first
<1>16. x \in Nat /\ x + w <= Len(s.plain)
  <2>1. w \in Nat /\ v.base \in Nat /\ v.size \in Nat /\ v.base + v.size <= s.size
    BY <1>2
  <2>2. v.base + (first + w) <= v.base + v.size
    BY <1>3, <1>6, <2>1
  <2>3. v.base + first + w <= s.size
    BY SMTT(30), <1>3, <1>4, <2>1, <2>2
  <2> QED BY SMTT(30), <1>3, <1>4, <2>1, <2>3
<1>17. \A b \in 1..w : s.file.bytes[v.base + kept + b] = s.plain[x + b] + Key * (m + 1)
  BY <1>5
<1> HIDE DEF x
<1>9. ct \in Seq(Nat) /\ Len(ct) = w /\ \A b \in 1..w : ct[b] = s.file.bytes[v.base + kept + b]
  BY DEF Part, kept, w
<1>10. DOMAIN ct = 1..w
  BY <1>2, <1>9
<1>11. ASSUME NEW b \in 1..w
       PROVE  /\ s.plain[x + b] \in 0..(Key - 1)
              /\ (IF ct[b] \div Key = m + 1 THEN ct[b] % Key ELSE Key) = s.plain[x + b]
  <2> DEFINE y == s.plain[x + b]
             e == ct[b]
  <2>1. y \in 0..(Key - 1)
    <3>1. x + b \in 1..Len(s.plain)
      BY <1>2, <1>16
    <3> QED BY SMTT(30), <1>4, <3>1
  <2>2. e = y + Key * (m + 1)
    BY <1>9, <1>17
  <2> HIDE DEF y, e
  <2>3. e \div Key = m + 1 /\ e % Key = y
    BY <1>7, <2>1, <2>2, BytesDecrypt
  <2> QED BY <2>1, <2>3 DEF y, e
<1>12. d = [b \in 1..w |-> s.plain[x + b]]
  BY <1>10, <1>11 DEF Decrypt
<1> HIDE DEF d
<1>13. d \in [1..w -> Nat]
  BY <1>4, <1>11, <1>12
<1>14. d \in Seq(Nat) /\ Len(d) = w
  BY <1>2, <1>13, FunctionIsSeq
<1>15. Part(d, s.plain, x)
  BY <1>12, <1>14, <1>16 DEF Part
<1> QED
  BY <1>14, <1>15 DEF d, m, kept, first, w, x

LEMMA WholeRead ==
  ASSUME NEW f, Whole(f), NEW o \in Nat, NEW n \in Nat, o + n <= Len(f.bytes)
  PROVE  Part(ReadAt(f, o, n), f.bytes, o) /\ Len(ReadAt(f, o, n)) = n
<1> DEFINE d == ReadAt(f, o, n)
<1>1. IsFile(f) /\ f.bad = {} /\ Len(f.bytes) \in Nat
  BY DEF Whole, IsFile
<1>2. IsRead(d, f, o, n)
  BY <1>1, ReadAtIs
<1> HIDE DEF d
<1>3. d \in Seq(Nat) /\ Len(d) = n
  BY <1>1, <1>2 DEF IsRead
<1>4. \A k \in 1..Len(d) : d[k] = f.bytes[o + k]
  BY <1>2 DEF IsRead
<1>5. Part(d, f.bytes, o)
  BY <1>3, <1>4 DEF Part
<1> QED
  BY <1>3, <1>5 DEF d

LEMMA KeptInside ==
  ASSUME NEW s \in Sources, s.kind = "bitlocker", NEW v \in s.volumes, NEW j \in Nat, j * v.sector < v.size
  PROVE  Kept(v, j) \in Nat /\ v.base + Kept(v, j) + v.sector <= s.size
<1>1. VolumeOk(s, v)
  BY VolumeFacts
<1>2. j \in 0..v.size
  <2>1. v.sector \in Nat \ {0} /\ v.size \in Nat
    BY <1>1 DEF VolumeOk
  <2>2. j * 1 <= j * v.sector
    BY <2>1
  <2> QED BY <2>1, <2>2
<1>3. HoldsVolumes(s)
  BY FormatsAssumption
<1>4. v.base + Kept(v, j) + v.sector <= s.size
  BY <1>2, <1>3 DEF HoldsVolumes
<1>5. j * v.sector \in Nat
  BY <1>1, Times DEF VolumeOk
<1>6. Kept(v, j) \in Nat
  BY <1>1, <1>5 DEF Kept, VolumeOk
<1> QED
  BY <1>4, <1>6

(* A sector of a volume is read from its place, or from a span of several  *)
(* that it lies in.                                                        *)
LEMMA SectorIsRead ==
  ASSUME NEW s \in Sources, s.kind = "bitlocker", NEW v \in s.volumes, NEW j \in Nat, j * v.sector < v.size,
         NEW x, x = v.base + Kept(v, j)
  PROVE  /\ Part(Decrypt(Kept(v, j) \div v.sector, ReadAt(s.file, x, v.sector)), s.plain, v.base + j * v.sector)
         /\ Len(Decrypt(Kept(v, j) \div v.sector, ReadAt(s.file, x, v.sector))) = v.sector
<1> DEFINE ct == ReadAt(s.file, x, v.sector)
<1>1. Whole(s.file) /\ Len(s.file.bytes) = s.size /\ v.base \in Nat /\ v.sector \in Nat
  BY VolumeFacts DEF VolumeOk
<1>2. Kept(v, j) \in Nat /\ v.base + Kept(v, j) + v.sector <= s.size
  BY KeptInside
<1>3. x \in Nat /\ x + v.sector <= Len(s.file.bytes)
  BY <1>1, <1>2
<1>4. Part(ct, s.file.bytes, x) /\ Len(ct) = v.sector
  BY <1>1, <1>3, WholeRead
<1> HIDE DEF ct
<1>5. Part(ct, s.file.bytes, v.base + Kept(v, j))
  BY <1>4
<1>6. /\ Part(Decrypt(Kept(v, j) \div v.sector, ct), s.plain, v.base + j * v.sector)
      /\ Len(Decrypt(Kept(v, j) \div v.sector, ct)) = v.sector
  BY <1>4, <1>5, SectorDecrypts
<1> QED
  BY <1>6 DEF ct

LEMMA SectorInSpan ==
  ASSUME NEW s \in Sources, s.kind = "bitlocker", NEW v \in s.volumes, NEW j \in Nat, j * v.sector < v.size,
         NEW y \in Nat, NEW span, Part(span, s.file.bytes, y), NEW skip \in Nat, y + skip = v.base + Kept(v, j),
         skip + v.sector <= Len(span)
  PROVE  LET ct == SubSeq(span, skip + 1, skip + v.sector)
         IN  /\ Part(Decrypt(Kept(v, j) \div v.sector, ct), s.plain, v.base + j * v.sector)
             /\ Len(Decrypt(Kept(v, j) \div v.sector, ct)) = v.sector
<1> DEFINE w == v.sector
           ct == SubSeq(span, skip + 1, skip + w)
<1>1. s.file.bytes \in Seq(Nat) /\ w \in Nat
  BY VolumeFacts DEF VolumeOk
<1>2. skip + w <= Len(span)
  OBVIOUS
<1>3. Part(ct, s.file.bytes, y + skip) /\ Len(ct) = w
  <2> DEFINE p == s.file.bytes
  <2>1. p \in Seq(Nat) /\ Part(span, p, y)
    BY <1>1
  <2> HIDE DEF w, p
  <2>2. Part(ct, p, y + skip)
    BY <1>1, <1>2, <2>1, PartIsCut
  <2>3. Len(ct) = w
    BY <1>1, <1>2, <2>1, PartIsCut
  <2> QED BY <2>2, <2>3 DEF p
<1>4. Part(ct, s.file.bytes, v.base + Kept(v, j))
  BY <1>3
<1> HIDE DEF ct
<1>5. /\ Part(Decrypt(Kept(v, j) \div v.sector, ct), s.plain, v.base + j * v.sector)
      /\ Len(Decrypt(Kept(v, j) \div v.sector, ct)) = v.sector
  BY <1>3, <1>4, SectorDecrypts
<1> QED
  BY <1>5 DEF ct

(* How many whole sectors a read of n bytes at o takes. *)
StartOf(w, o) == o - (o % w)
CountOf(w, o, n) == (o + n - StartOf(w, o) + w - 1) \div w

LEMMA SectorsOf ==
  ASSUME NEW w \in Nat \ {0}, NEW o \in Nat, NEW n \in Nat \ {0}
  PROVE  LET start == StartOf(w, o)
             count == CountOf(w, o, n)
         IN  /\ o \div w \in Nat /\ start = (o \div w) * w /\ start \in Nat /\ start <= o
             /\ count \in Nat \ {0} /\ o + n <= start + count * w /\ start + count * w < o + n + w
<1> DEFINE q == o \div w
           r == o % w
           start == StartOf(w, o)
           count == CountOf(w, o, n)
<1>1. q \in Nat /\ r \in 0..(w - 1) /\ o = q * w + r
  BY DivMod
<1>2. q * w \in Nat
  BY <1>1, Times
<1>3. start = q * w /\ start \in Nat /\ start <= o
  <2> HIDE DEF q
  <2>1. start = o - r
    BY DEF StartOf
  <2> HIDE DEF r
  <2> DEFINE t == q * w
  <2>2. t \in Nat /\ o = t + r
    BY <1>1, <1>2
  <2> HIDE DEF t
  <2>3. start = t /\ start \in Nat /\ start <= o
    BY <1>1, <2>1, <2>2
  <2> QED BY <2>3 DEF t
<1> HIDE DEF q, r, start
<1> DEFINE z == o + n - start + w - 1
           m == z % w
           all == count * w
<1>4. z \in Nat /\ z >= w
  BY <1>3
<1>5. count \in Nat /\ m \in 0..(w - 1) /\ z = all + m
  <2>1. count = z \div w
    BY DEF CountOf, start
  <2> HIDE DEF z
  <2> QED BY <1>4, <2>1, DivMod
<1> HIDE DEF m, count
<1>6. all \in Nat
  BY <1>5, Times
<1>7. count # 0
  <2> SUFFICES ASSUME count = 0 PROVE FALSE
    OBVIOUS
  <2>1. all = 0
    OBVIOUS
  <2> HIDE DEF all, z
  <2> QED BY <1>4, <1>5, <2>1
<1> HIDE DEF all
<1>8. o + n <= start + all /\ start + all < o + n + w
  BY <1>3, <1>5, <1>6
<1> QED
  BY <1>1, <1>3, <1>5, <1>7, <1>8 DEF all, q, start, count

LEMMA VolumeGives ==
  ASSUME NEW s \in Sources, s.kind = "bitlocker", NEW v \in s.volumes, NEW o \in Nat, NEW n \in Nat \ {0},
         o + n <= v.size
  PROVE  Part(VolumeRead(s, v, o, n), s.plain, v.base + o) /\ Len(VolumeRead(s, v, o, n)) = n
<1> DEFINE w         == v.sector
           q         == o \div w
           start     == StartOf(w, o)
           count     == CountOf(w, o, n)
           place(k)  == start + k * w
           reloc     == RelocEnd(v)
           from      == IF start > reloc THEN start ELSE reloc
           y         == v.base + from
           span      == ReadAt(s.file, y, start + count * w - from)
           moved(k)  == Decrypt((v.headerSrc + place(k)) \div w, ReadAt(s.file, v.base + v.headerSrc + place(k), w))
           kept(k)   == Decrypt(place(k) \div w,
                                IF place(k) - from + w <= Len(span)
                                  THEN SubSeq(span, place(k) - from + 1, place(k) - from + w) ELSE Zeros(w))
           sector(k) == IF place(k) < reloc THEN moved(k) ELSE kept(k)
           f         == [k \in 1..count |-> sector(k - 1)]
<1>1. VolumeRead(s, v, o, n) = SubSeq(FlattenSeq(f), o - start + 1, o - start + n)
  BY DEF VolumeRead, StartOf, CountOf
<1>2. /\ w \in Nat \ {0} /\ v.base \in Nat /\ v.headerBytes \in Nat /\ v.headerSrc \in Nat
      /\ v.size \in Nat /\ v.base + v.size <= s.size
  BY VolumeFacts DEF VolumeOk
<1>3. v.size % w = 0
  BY VolumeFacts DEF VolumeOk
<1>4. /\ q \in Nat /\ start = q * w /\ start \in Nat /\ start <= o
      /\ count \in Nat \ {0} /\ o + n <= start + count * w /\ start + count * w < o + n + w
  BY <1>2, SectorsOf
<1>5. reloc = IF v.headerSrc = 0 THEN 0 ELSE v.headerBytes
  BY DEF RelocEnd
<1>6. s.plain \in Seq(Nat) /\ Len(s.plain) = s.size /\ s.size \in Nat
  BY SourceFacts
<1> HIDE DEF q, start, count, reloc
<1> DEFINE all == count * w
<1>7. all \in Nat /\ o + n <= start + all /\ start + all < o + n + w
  <2>1. all \in Nat
    BY <1>2, <1>4, Times
  <2> QED BY <1>4, <2>1
<1> HIDE DEF all
<1>22. q \in Nat /\ start \in Nat /\ start <= o /\ count \in Nat \ {0} /\ w \in Nat
  BY <1>2, <1>4
<1>8. ASSUME NEW k \in 0..(count - 1)
      PROVE  /\ k * w \in Nat /\ q + k \in Nat /\ (q + k) * w = place(k) /\ place(k) \in Nat
             /\ place(k) < v.size /\ place(k) + w <= v.size /\ place(k) + w <= start + all
  <2> DEFINE t == k * w
  <2>1. t \in Nat /\ q + k \in Nat
    BY <1>2, <1>4, Times
  <2>2. (q + k) * w = q * w + k * w
    BY <1>2, <1>4
  <2>3. (q + k) * w = start + t
    BY <1>4, <2>2
  <2>4. t + w <= all
    <3> DEFINE i == k + 1
    <3>1. i \in Nat /\ i <= count
      BY <1>4
    <3>2. i * w = t + w
      <4>1. k \in Nat
        BY <1>22
      <4> HIDE DEF w
      <4> QED BY <1>22, <4>1
    <3> HIDE DEF i, t
    <3>3. i * w <= count * w
      BY <1>2, <1>4, <3>1, Times
    <3> QED BY <3>2, <3>3 DEF all
  <2> HIDE DEF t
  <2>5. start + t \in Nat /\ start + t < v.size /\ start + t + w <= start + all
    <3>1. o + n <= v.size
      OBVIOUS
    <3> QED BY <1>2, <1>4, <1>7, <2>1, <2>4, <3>1
  <2>6. start + t + w <= v.size
    <3> DEFINE j == q + k
    <3>1. j \in Nat /\ j * w = start + t /\ j * w < v.size
      BY <2>1, <2>3, <2>5
    <3>2. j * w + w <= v.size
      <4> DEFINE c == v.size
      <4>1. c \in Nat /\ c % w = 0 /\ j * w < c
        BY <1>2, <1>3, <3>1
      <4> HIDE DEF c, j, w
      <4>2. j * w + w <= c
        BY <1>2, <3>1, <4>1, WholeUnits
      <4> QED BY <4>2 DEF c
    <3> QED BY <3>1, <3>2
  <2> QED BY <2>1, <2>3, <2>5, <2>6 DEF t
<1>9. start + all <= v.size
  <2> DEFINE k == count - 1
  <2>1. k \in 0..(count - 1) /\ k + 1 = count /\ k \in Nat
    BY <1>4
  <2>2. start + k * w + w <= v.size /\ k * w \in Nat
    BY <1>8, <2>1
  <2>3. (k + 1) * w = k * w + w
    BY <1>2, <2>1
  <2> DEFINE t == k * w
  <2>4. all = t + w
    BY <2>1, <2>3 DEF all
  <2>5. start + t + w <= v.size /\ t \in Nat
    BY <2>2
  <2> HIDE DEF t
  <2> QED BY <1>2, <1>4, <2>4, <2>5
<1>10. from \in Nat /\ from >= start /\ from >= reloc /\ (from = start \/ from = reloc)
  BY <1>2, <1>4, <1>5
<1>11. y \in Nat /\ y = v.base + from
  BY <1>2, <1>10
<1>12. span = ReadAt(s.file, y, start + all - from)
  BY DEF all
<1> HIDE DEF from, y, span
<1>13. ASSUME start + all - from >= 0
       PROVE  Part(span, s.file.bytes, y) /\ Len(span) = start + all - from
  <2> DEFINE l == start + all - from
  <2>1. l \in Nat
    BY <1>4, <1>7, <1>10, <1>13
  <2>2. Whole(s.file) /\ Len(s.file.bytes) = s.size
    BY VolumeFacts
  <2>3. y + l <= s.size
    <3>1. y + l = v.base + (start + all)
      BY <1>2, <1>4, <1>7, <1>10, <1>11
    <3>2. v.base + (start + all) <= v.base + v.size
      BY <1>2, <1>4, <1>7, <1>9
    <3>3. v.base \in Nat /\ v.size \in Nat /\ v.base + v.size <= s.size
      BY <1>2
    <3> HIDE DEF l
    <3>4. v.base + (start + all) <= s.size
      BY SMTT(30), <1>6, <1>7, <1>22, <3>2, <3>3
    <3> QED BY <3>1, <3>4
  <2> HIDE DEF l
  <2>4. Part(ReadAt(s.file, y, l), s.file.bytes, y) /\ Len(ReadAt(s.file, y, l)) = l
    BY <1>11, <2>1, <2>2, <2>3, WholeRead
  <2> QED BY <1>12, <2>4 DEF l
<1>14. ASSUME NEW k \in 0..(count - 1)
       PROVE  Part(sector(k), s.plain, v.base + place(k)) /\ Len(sector(k)) = w
  <2> DEFINE j == q + k
             p == place(k)
             Right(d) == Part(d, s.plain, v.base + p) /\ Len(d) = w
  <2>1. j \in Nat /\ j * w = p /\ p \in Nat /\ p < v.size /\ p + w <= start + all /\ p >= start
    BY <1>8, <1>4
  <2>2. Kept(v, j) = IF v.headerSrc # 0 /\ p < v.headerBytes THEN v.headerSrc + p ELSE p
    BY <2>1 DEF Kept
  <2>3. j * v.sector < v.size
    BY <2>1
  <2>4. v.base + j * v.sector = v.base + p
    BY <2>1
  <2> HIDE DEF j, w, p
  <2>5. CASE p < reloc
    <3>1. Kept(v, j) = v.headerSrc + p
      BY <1>2, <1>5, <2>1, <2>2, <2>5
    <3> DEFINE x == v.base + v.headerSrc + p
    <3>2. x = v.base + Kept(v, j)
      BY <1>2, <2>1, <3>1
    <3> HIDE DEF x
    <3> DEFINE d == Decrypt(Kept(v, j) \div v.sector, ReadAt(s.file, x, v.sector))
    <3>3. Part(d, s.plain, v.base + j * v.sector) /\ Len(d) = v.sector
      BY <2>1, <2>3, <3>2, SectorIsRead
    <3>4. d = moved(k)
      BY <3>1 DEF x, p, w
    <3> HIDE DEF d
    <3>5. Right(d)
      BY <2>4, <3>3 DEF w
    <3>6. sector(k) = d
      BY <2>5, <3>4 DEF p
    <3> QED BY <3>5, <3>6 DEF p
  <2>6. CASE ~(p < reloc)
    <3>1. Kept(v, j) = p
      BY <1>2, <1>5, <2>1, <2>2, <2>6
    <3> DEFINE skip == p - from
    <3>2. skip \in Nat /\ y + skip = v.base + Kept(v, j)
      <4>1. from <= p
        BY <1>10, <1>4, <1>2, <1>5, <2>1, <2>6
      <4> QED BY <1>2, <1>10, <1>11, <2>1, <3>1, <4>1
    <3>3. start + all - from >= 0 /\ skip + v.sector <= start + all - from
      <4>1. v.sector \in Nat /\ p + v.sector <= start + all
        BY <1>2, <2>1 DEF w
      <4> QED BY <1>4, <1>7, <1>10, <2>1, <3>2, <4>1
    <3>4. Part(span, s.file.bytes, y) /\ Len(span) = start + all - from
      BY <1>13, <3>3
    <3>5. skip + v.sector <= Len(span)
      BY <3>3, <3>4
    <3>6. kept(k) = Decrypt(Kept(v, j) \div v.sector, SubSeq(span, skip + 1, skip + v.sector))
      BY <3>1, <3>5 DEF p, w
    <3> HIDE DEF skip
    <3> DEFINE d == Decrypt(Kept(v, j) \div v.sector, SubSeq(span, skip + 1, skip + v.sector))
    <3>7. Part(d, s.plain, v.base + j * v.sector) /\ Len(d) = v.sector
      BY SMTT(30), <1>11, <2>1, <2>3, <3>2, <3>4, <3>5, SectorInSpan
    <3> HIDE DEF d
    <3>8. Right(d)
      BY <2>4, <3>7 DEF w
    <3>9. sector(k) = d
      BY <2>6, <3>6 DEF p, d
    <3> QED BY <3>8, <3>9 DEF p
  <2> QED BY <2>5, <2>6
<1> HIDE DEF sector, place
<1> DEFINE off == [k \in 0..count |-> k * w]
           x   == v.base + start
<1>15. x \in Nat /\ Len(f) = count /\ off \in [0..count -> Nat] /\ off[0] = 0 /\ off[count] = all
  <2>1. x \in Nat
    BY <1>2, <1>4
  <2>2. Len(f) = count
    BY <1>4
  <2>3. \A k \in 0..count : k * w \in Nat
    BY <1>2, <1>4, Times
  <2>4. off[0] = 0 /\ off[count] = all
    BY <1>2, <1>4 DEF all
  <2> HIDE DEF f
  <2> QED BY <2>1, <2>2, <2>3, <2>4
<1>16. Pieces(f, count, off, s.plain, x)
  <2> SUFFICES ASSUME NEW k \in 1..count
               PROVE  Part(f[k], s.plain, x + off[k - 1]) /\ off[k] = off[k - 1] + Len(f[k])
    BY DEF Pieces
  <2> DEFINE i == k - 1
  <2>1. i \in 0..(count - 1) /\ i \in 0..count /\ k \in 0..count /\ k = i + 1 /\ i \in Nat
    BY <1>4
  <2>2. f[k] = sector(i) /\ off[i] = i * w /\ off[k] = k * w
    BY <2>1
  <2>3. Part(f[k], s.plain, v.base + place(i)) /\ Len(f[k]) = w
    BY <1>14, <2>1, <2>2
  <2>4. (i + 1) * w = i * w + w /\ i * w \in Nat
    <3>1. i \in Nat /\ w \in Nat
      BY <1>2, <2>1
    <3> HIDE DEF i, w
    <3>2. i * w \in Nat
      BY <3>1, Times
    <3> QED BY <3>1, <3>2
  <2>5. v.base + place(i) = x + off[i]
    <3> DEFINE t == i * w
    <3>1. t \in Nat /\ off[i] = t
      BY <2>2, <2>4
    <3>2. place(i) = start + t
      BY DEF place
    <3> HIDE DEF t, place, off
    <3>3. v.base + (start + t) = v.base + start + t
      BY <1>2, <1>22, <3>1
    <3> QED BY <3>1, <3>2, <3>3
  <2>6. off[k] = off[i] + w
    BY <2>1, <2>2, <2>4
  <2> HIDE DEF f, off, x
  <2> QED BY <2>3, <2>5, <2>6
<1> HIDE DEF f, off, x
<1>17. Part(FlattenSeq(f), s.plain, x) /\ Len(FlattenSeq(f)) = all
  <2> DEFINE p == s.plain
  <2>1. Part(FlattenSeq(f), p, x) /\ Len(FlattenSeq(f)) = off[count]
    <3>1. p \in Seq(Nat) /\ x \in Nat /\ count \in Nat \ {0} /\ Len(f) = count
      BY <1>6, <1>15, <1>22
    <3>2. off \in [0..count -> Nat] /\ off[0] = 0 /\ Pieces(f, count, off, p, x)
      BY <1>15, <1>16
    <3> HIDE DEF p
    <3>3. PiecesMake(f, count, off, p, x)
      BY <3>1, <3>2, PiecesJoin
    <3> QED BY <3>3 DEF PiecesMake
  <2> QED BY <1>15, <2>1
<1> DEFINE flat == FlattenSeq(f)
           skip == o - start
           d    == SubSeq(flat, skip + 1, skip + n)
<1>18. skip \in Nat /\ skip + n <= all /\ x + skip = v.base + o
  BY <1>2, <1>4, <1>7 DEF x
<1>19. VolumeRead(s, v, o, n) = d
  BY <1>1
<1> HIDE DEF flat, skip
<1>20. skip + n <= Len(flat) /\ Part(flat, s.plain, x)
  BY <1>17, <1>18 DEF flat
<1>21. Part(d, s.plain, x + skip) /\ Len(d) = n
  <2> DEFINE p == s.plain
  <2>1. p \in Seq(Nat) /\ x \in Nat /\ skip \in Nat /\ skip + n <= Len(flat) /\ Part(flat, p, x)
    BY <1>6, <1>15, <1>18, <1>20
  <2> HIDE DEF p
  <2>2. IsCut(SubSeq(flat, skip + 1, skip + n), p, x + skip, n)
    <3> DEFINE u == skip + 1
               h == skip + n
               z == x + skip
    <3>1. u = skip + 1 /\ h = skip + n /\ z = x + skip
      OBVIOUS
    <3> HIDE DEF u, h, z
    <3>2. IsCut(SubSeq(flat, u, h), p, z, n)
      BY <2>1, <3>1, CutIs
    <3> QED BY <3>2 DEF u, h, z
  <2> QED BY <2>2 DEF p, IsCut
<1> HIDE DEF d
<1> QED
  BY <1>18, <1>19, <1>21

(* A read that begins in a volume goes no further than its end. *)
LEMMA DecryptGives ==
  ASSUME NEW s \in Sources, s.kind = "bitlocker", NEW x \in Nat, NEW n \in Nat \ {0}, NEW v \in Volumes(s, x)
  PROVE  GetsOn(VolumeRead(s, v, x - v.base, Least(n, v.base + v.size - x)), s, x, n, TRUE)
<1> DEFINE o == x - v.base
           m == Least(n, v.base + v.size - x)
           d == VolumeRead(s, v, o, m)
<1>1. v \in s.volumes /\ v.base <= x /\ x < v.base + v.size
  BY DEF Volumes
<1>2. v.base \in Nat /\ v.size \in Nat
  BY <1>1, VolumeFacts DEF VolumeOk
<1>3. o \in Nat /\ v.base + o = x
  BY <1>1, <1>2
<1>4. m \in Nat \ {0} /\ m <= n /\ o + m <= v.size
  BY <1>1, <1>2 DEF Least
<1> HIDE DEF o, m
<1>5. Part(d, s.plain, v.base + o) /\ Len(d) = m
  BY <1>1, <1>3, <1>4, VolumeGives
<1> HIDE DEF d
<1>6. d # <<>>
  BY <1>4, <1>5
<1>7. GetsOn(d, s, x, n, TRUE)
  BY <1>3, <1>4, <1>5, <1>6 DEF GetsOn
<1> QED
  BY <1>7 DEF d, o, m

(* One that begins outside goes no further than the next volume. *)
LEMMA PlainGives ==
  ASSUME NEW s \in Sources, s.kind = "bitlocker", NEW x \in Nat, NEW n \in Nat \ {0}, x + n <= s.size,
         Volumes(s, x) = {}
  PROVE  LET ahead == {v.base : v \in {w \in s.volumes : w.base > x}}
             next  == IF ahead = {} THEN x + n ELSE CHOOSE b \in ahead : \A c \in ahead : b <= c
         IN  GetsOn(ReadAt(s.file, x, Least(n, next - x)), s, x, n, TRUE)
<1> DEFINE ahead == {v.base : v \in {w \in s.volumes : w.base > x}}
           next  == IF ahead = {} THEN x + n ELSE CHOOSE b \in ahead : \A c \in ahead : b <= c
           m     == Least(n, next - x)
           d     == ReadAt(s.file, x, m)
<1>1. \A v \in s.volumes : v.base \in Nat /\ v.size \in Nat
  BY VolumeFacts DEF VolumeOk
<1>2. ahead \subseteq Nat /\ \A c \in ahead : c > x
  BY <1>1
<1>3. next \in Nat /\ next > x /\ \A c \in ahead : next <= c
  <2>1. CASE ahead = {}
    <3>1. next = x + n
      BY <2>1
    <3> HIDE DEF next, ahead
    <3> QED BY <2>1, <3>1
  <2>2. CASE ahead # {}
    <3>1. \E b \in ahead : \A c \in ahead : b <= c
      <4> HIDE DEF ahead
      <4> QED BY <1>2, <2>2, LeastElement
    <3> HIDE DEF ahead
    <3>2. next \in ahead /\ \A c \in ahead : next <= c
      BY <2>2, <3>1
    <3> QED BY <1>2, <3>2
  <2> QED BY <2>1, <2>2
<1> HIDE DEF next
<1>4. m \in Nat \ {0} /\ m <= n /\ x + m <= next
  BY <1>3 DEF Least
<1> HIDE DEF m
<1>5. ASSUME NEW y \in x..(x + m - 1), NEW v \in s.volumes PROVE ~(v.base <= y /\ y < v.base + v.size)
  <2>1. CASE v.base > x
    <3>1. v.base \in ahead
      BY <2>1
    <3>2. next <= v.base
      BY <1>3, <3>1
    <3> HIDE DEF ahead
    <3> QED BY <1>1, <1>3, <1>4, <3>2
  <2>2. CASE ~(v.base > x)
    <3>1. ~(v.base <= x /\ x < v.base + v.size)
      BY DEF Volumes
    <3> QED BY <1>1, <1>4, <2>2, <3>1
  <2> QED BY <2>1, <2>2
<1>6. Whole(s.file) /\ Len(s.file.bytes) = s.size /\ s.plain \in Seq(Nat) /\ Len(s.plain) = s.size /\ s.size \in Nat
  BY VolumeFacts, SourceFacts
<1> HIDE DEF ahead
<1>7. x + m <= s.size
  <2>1. x + n <= s.size
    OBVIOUS
  <2> QED BY <1>4, <1>6, <2>1
<1>8. Part(d, s.file.bytes, x) /\ Len(d) = m
  <2>1. x + m <= Len(s.file.bytes) /\ m \in Nat
    BY <1>4, <1>6, <1>7
  <2> QED BY <1>6, <2>1, WholeRead
<1> HIDE DEF d
<1>9. d \in Seq(Nat) /\ \A k \in 1..m : d[k] = s.file.bytes[x + k]
  BY <1>8 DEF Part
<1>10. ASSUME NEW k \in 1..m PROVE s.file.bytes[x + k] = s.plain[x + k]
  <2> DEFINE y == x + k - 1
  <2>1. y \in x..(x + m - 1) /\ y \in 0..(s.size - 1) /\ y + 1 = x + k
    BY <1>4, <1>6, <1>7
  <2> HIDE DEF y
  <2>2. \A v \in s.volumes : ~(v.base <= y /\ y < v.base + v.size)
    BY <1>5, <2>1
  <2>3. HoldsVolumes(s)
    BY FormatsAssumption
  <2>4. s.file.bytes[y + 1] = s.plain[y + 1]
    BY <2>1, <2>2, <2>3 DEF HoldsVolumes
  <2> QED BY <2>1, <2>4
<1>11. Part(d, s.plain, x)
  BY <1>6, <1>7, <1>8, <1>9, <1>10 DEF Part
<1>12. d # <<>>
  BY <1>4, <1>8
<1>13. GetsOn(d, s, x, n, TRUE)
  BY <1>4, <1>8, <1>11, <1>12 DEF GetsOn
<1> QED
  BY <1>13 DEF d, m, next, ahead

-----------------------------------------------------------------------------
(***************************************************************************)
(* Part 3.  The readers answer with the media.                             *)
(***************************************************************************)

LEMMA PrefixIs ==
  ASSUME NEW d \in Seq(Nat), NEW e \in Seq(Nat), Len(d) <= Len(e), \A k \in 1..Len(d) : d[k] = e[k]
  PROVE  IsPrefix(d, e)
<1> DEFINE l == Len(d)
           left == SubSeq(d, 1, l)
           right == SubSeq(e, 1, l)
<1>1. l \in Nat /\ l <= Len(e) /\ \A k \in 1..l : d[k] = e[k]
  OBVIOUS
<1> HIDE DEF l
<1>2. left \in Seq(Nat) /\ Len(left) = l /\ \A k \in 1..l : left[k] = d[k]
  BY <1>1 DEF l
<1>3. right \in Seq(Nat) /\ Len(right) = l /\ \A k \in 1..l : right[k] = e[k]
  BY <1>1
<1> HIDE DEF left, right
<1>4. left = right
  <2>1. Len(left) = Len(right)
    BY <1>2, <1>3
  <2>2. \A k \in 1..Len(left) : left[k] = right[k]
    BY <1>1, <1>2, <1>3
  <2> QED BY <1>2, <1>3, <2>1, <2>2, SeqEqual
<1> QED
  BY <1>4 DEF IsPrefix, left, right, l

(* An answer that has the bytes from where it was asked to, no more than   *)
(* were asked for, and fewer only at the end or at damage.                 *)
LEMMA AnswerIsRight ==
  ASSUME NEW s \in Sources, s = source, NEW o \in Nat, NEW n \in Nat, NEW a, a.off = o, a.want = n,
         NEW d, a.data = d, NEW m \in Nat, o + m <= s.size, m = n \/ o + m = s.size, m <= n,
         Part(d, s.plain, o), Len(d) <= m, Len(d) = m \/ Damaged(s)
  PROVE  M!Right(a)
<1> DEFINE p == s.plain
           slice == M!Slice(p, o, n)
           l == Len(d)
<1>1. p \in Seq(Nat) /\ Len(p) = s.size /\ s.size \in Nat /\ p = Contents(source)
  BY SourceFacts DEF Contents
<1>2. d \in Seq(Nat) /\ l \in Nat
  BY DEF Part
<1>3. slice = SubSeq(p, o + 1, o + m)
  <2>1. (IF o + n < Len(p) THEN o + n ELSE Len(p)) = o + m
    BY SMTT(30), <1>1
  <2> QED BY <2>1 DEF M!Slice
<1>4. slice \in Seq(Nat) /\ Len(slice) = m /\ \A k \in 1..m : slice[k] = p[o + k]
  <2>1. o + m <= Len(p)
    BY <1>1
  <2> HIDE DEF p, slice
  <2>2. Part(slice, p, o) /\ Len(slice) = m
    BY ZenonT(40), <1>1, <1>3, <2>1, SubSeqIsPart
  <2>3. slice \in Seq(Nat) /\ \A k \in 1..Len(slice) : slice[k] = p[o + k]
    BY <2>2 DEF Part
  <2> QED BY <2>2, <2>3
<1>5. \A k \in 1..l : d[k] = p[o + k]
  BY DEF Part
<1> HIDE DEF slice, p
<1>6. CASE l = m
  <2>1. d = slice
    <3>1. Len(d) = Len(slice) /\ \A k \in 1..Len(d) : d[k] = slice[k]
      BY <1>4, <1>5, <1>6
    <3> QED BY <1>2, <1>4, <3>1, SeqEqual
  <2> QED BY <1>1, <2>1 DEF M!Right, slice, p
<1>7. CASE l # m
  <2>1. Damaged(source)
    BY <1>7
  <2>2. M!IsPrefix(d, slice)
    <3>1. l <= m /\ l = Len(d)
      OBVIOUS
    <3>2. ASSUME NEW k \in 1..l PROVE d[k] = slice[k]
      <4>1. k \in 1..m
        BY <1>2, <3>1
      <4> QED BY <1>4, <1>5, <4>1
    <3> HIDE DEF l
    <3>3. IsPrefix(d, slice)
      BY <1>2, <1>4, <3>1, <3>2, PrefixIs
    <3> QED BY <3>3 DEF IsPrefix, M!IsPrefix
  <2> QED BY <1>1, <2>1, <2>2 DEF M!Right, slice, p
<1> QED
  BY <1>6, <1>7

(* Where split raw has come to: the segment its loop is at does not begin  *)
(* behind the position.                                                    *)
SegmentInv ==
  /\ seg \in 1..(Len(source.segs) + 1)
  /\ Len(out) < call.len => Base(source, seg) <= pos

(* What a loop has read so far is the media from where it was asked to.    *)
CallInv ==
  /\ call.off \in Nat /\ call.want \in Nat /\ call.len \in Nat
  /\ call.off + call.len <= source.size /\ call.len <= call.want
  /\ call.len = call.want \/ call.off + call.len = source.size
  /\ pos = call.off + Len(out)
  /\ Part(out, source.plain, call.off) /\ Len(out) <= call.len
  /\ source.kind = "raw" => out = <<>>
  /\ source.kind = "split" => SegmentInv

(* A chunk that is kept is what would be decoded again. *)
Decoded(s) == {[key |-> i, bytes |-> DecodeChunk(s, i)] : i \in DOMAIN s.chunks}

CacheInv == source.kind = "ewf" => chunkCache \in Seq(Decoded(source))

ReaderInv ==
  /\ source \in Sources
  /\ CacheInv
  /\ Busy => CallInv
  /\ M!Right(answer) /\ answer.data \in Seq(Nat)

LEMMA NoAnswerIsRight ==
  ASSUME source \in Sources, NEW o \in Nat, NEW n \in Nat, n = 0 \/ o >= source.size, NEW a,
         a = [off |-> o, want |-> n, data |-> <<>>]
  PROVE  M!Right(a)
<1> DEFINE p == Contents(source)
<1>1. p \in Seq(Nat) /\ Len(p) = source.size /\ source.size \in Nat
  BY SourceFacts DEF Contents
<1>2. M!Slice(p, o, n) = SubSeq(p, o + 1, IF o + n < Len(p) THEN o + n ELSE Len(p))
  BY DEF M!Slice
<1>3. (IF o + n < Len(p) THEN o + n ELSE Len(p)) < o + 1
  BY <1>1
<1> HIDE DEF p
<1>4. M!Slice(p, o, n) = <<>>
  <2> DEFINE e == IF o + n < Len(p) THEN o + n ELSE Len(p)
  <2>1. e \in Int /\ e < o + 1 /\ o + 1 \in Int
    BY <1>1, <1>3
  <2> HIDE DEF e
  <2>2. SubSeq(p, o + 1, e) = <<>>
    BY <2>1, SubSeqEmpty
  <2> QED BY <1>2, <2>2 DEF e
<1> QED
  BY <1>4 DEF M!Right, p

LEMMA PreadKeeps ==
  ASSUME ReaderInv, NEW o \in Nat, NEW n \in Nat, Pread(o, n)
  PROVE  ReaderInv' /\ source' = source /\ M!Right(answer')
<1>1. source \in Sources /\ source' = source /\ chunkCache' = chunkCache /\ CacheInv'
  BY DEF ReaderInv, CacheInv, Pread
<1>2. source.size \in Nat \ {0} /\ source.plain \in Seq(Nat) /\ Len(source.plain) = source.size
  BY <1>1, SourceFacts
<1>3. CASE o >= source.size \/ n = 0
  <2>1. answer' = [off |-> o, want |-> n, data |-> <<>>] /\ call' = NoCall
    BY <1>3 DEF Pread, Answers
  <2>2. M!Right(answer')
    BY <1>1, <1>2, <1>3, <2>1, NoAnswerIsRight
  <2>3. M!Right(answer)'
    BY <1>1, <2>2 DEF M!Right, M!Slice
  <2>4. answer'.data \in Seq(Nat)
    BY <2>1
  <2> QED BY <1>1, <2>1, <2>2, <2>3, <2>4 DEF ReaderInv, Busy
<1>4. CASE ~(o >= source.size \/ n = 0)
  <2>1. /\ call' = [off |-> o, want |-> n, len |-> Least(n, source.size - o)]
        /\ pos' = o /\ seg' = 1 /\ out' = <<>> /\ answer' = NoAnswer
    BY <1>4 DEF Pread
  <2>2. M!Right(answer')
    BY <1>1, <1>2, <2>1, NoAnswerIsRight DEF NoAnswer
  <2>3. M!Right(answer)'
    BY <1>1, <2>2 DEF M!Right, M!Slice
  <2> DEFINE l == Least(n, source.size - o)
  <2>4. l \in Nat /\ o + l <= source.size /\ l <= n /\ (l = n \/ o + l = source.size)
    BY SMTT(30), <1>2, <1>4 DEF Least
  <2> HIDE DEF l
  <2>5. call'.off = o /\ call'.want = n /\ call'.len = l
    BY <2>1 DEF l
  <2>6. Part(<<>>, source.plain, o)
    BY <1>2, <1>4 DEF Part
  <2>7. source.kind = "split" => SegmentInv'
    <3> SUFFICES ASSUME source.kind = "split" PROVE SegmentInv'
      OBVIOUS
    <3>1. Base(source, 1) = 0 /\ Len(source.segs) \in Nat
      BY <1>1, SegmentsLie
    <3> QED BY <1>1, <2>1, <3>1 DEF SegmentInv
  <2>8. CallInv'
    BY <1>1, <2>1, <2>4, <2>5, <2>6, <2>7 DEF CallInv
  <2>9. answer'.data \in Seq(Nat)
    BY <2>1 DEF NoAnswer
  <2> QED BY <1>1, <2>2, <2>3, <2>8, <2>9 DEF ReaderInv
<1> QED
  BY <1>3, <1>4

(* A loop goes on with more of the media, ... *)
LEMMA ExtendKeeps ==
  ASSUME ReaderInv, Busy, Len(out) < call.len, source.kind # "raw", source' = source, CacheInv',
         NEW d, Extend(d), Part(d, source.plain, pos), Len(d) <= Need,
         source.kind = "split" => SegmentInv'
  PROVE  ReaderInv' /\ source' = source /\ M!Right(answer')
<1>1. source \in Sources /\ CallInv /\ M!Right(answer) /\ answer.data \in Seq(Nat)
  BY DEF ReaderInv
<1>2. out' = out \o d /\ pos' = pos + Len(d) /\ call' = call /\ answer' = answer
  BY DEF Extend
<1>3. call.off \in Nat /\ call.len \in Nat /\ pos = call.off + Len(out) /\ Part(out, source.plain, call.off)
  BY <1>1 DEF CallInv
<1>4. source.plain \in Seq(Nat)
  BY <1>1, SourceFacts
<1>5. Part(out \o d, source.plain, call.off) /\ Len(out \o d) = Len(out) + Len(d)
  <2> DEFINE p == source.plain
             x == call.off
  <2>1. p \in Seq(Nat) /\ x \in Nat /\ pos = x + Len(out) /\ Part(out, p, x) /\ Part(d, p, pos)
    BY <1>3, <1>4
  <2> HIDE DEF p, x
  <2>2. Part(out \o d, p, x) /\ Len(out \o d) = Len(out) + Len(d)
    BY <2>1, PartsJoin
  <2> QED BY <2>2 DEF p, x
<1>6. Len(out) \in Nat /\ Len(d) \in Nat
  BY <1>3 DEF Part
<1>7. Len(out \o d) <= call.len
  BY <1>3, <1>5, <1>6 DEF Need
<1>8. pos' = call.off + Len(out \o d)
  BY <1>2, <1>3, <1>5, <1>6
<1>9. CallInv'
  BY <1>1, <1>2, <1>5, <1>7, <1>8 DEF CallInv
<1>10. M!Right(answer') /\ M!Right(answer)'
  BY <1>1, <1>2 DEF M!Right, M!Slice
<1>11. answer'.data \in Seq(Nat)
  BY <1>1, <1>2
<1> QED
  BY <1>1, <1>9, <1>10, <1>11 DEF ReaderInv

(* ... or answers with what it has. *)
LEMMA ReturnKeeps ==
  ASSUME ReaderInv, Busy, source' = source, CacheInv', NEW d, Return(d),
         Part(d, source.plain, call.off), Len(d) <= call.len, Len(d) = call.len \/ Damaged(source)
  PROVE  ReaderInv' /\ source' = source /\ M!Right(answer')
<1>1. source \in Sources /\ CallInv
  BY DEF ReaderInv
<1>2. answer' = [off |-> call.off, want |-> call.want, data |-> d] /\ call' = NoCall
  BY DEF Return, Answers
<1>3. M!Right(answer')
  <2> DEFINE o == call.off
             n == call.want
             m == call.len
             a == answer'
             s == source
  <2>1. /\ o \in Nat /\ n \in Nat /\ m \in Nat /\ o + m <= s.size /\ m <= n
        /\ m = n \/ o + m = s.size
    BY <1>1 DEF CallInv
  <2>2. a.off = o /\ a.want = n /\ a.data = d
    BY <1>2
  <2>3. Part(d, s.plain, o) /\ Len(d) <= m /\ (Len(d) = m \/ Damaged(s))
    OBVIOUS
  <2>4. s \in Sources /\ s = source
    BY <1>1
  <2> HIDE DEF o, n, m, a, s
  <2>5. M!Right(a)
    BY <2>1, <2>2, <2>3, <2>4, AnswerIsRight
  <2> QED BY <2>5 DEF a
<1>4. M!Right(answer)'
  BY <1>3 DEF M!Right, M!Slice
<1>5. answer'.data \in Seq(Nat)
  BY <1>2 DEF Part
<1> QED
  BY <1>1, <1>2, <1>3, <1>4, <1>5 DEF ReaderInv, Busy

(* Where a segment of a split image cannot be read, its loop goes on at    *)
(* the next one: what is said of split raw is said of whole segments.      *)
SplitsAreWhole ==
  \A s \in Sources : s.kind = "split" => \A i \in DOMAIN s.segs : s.segs[i].bad = {}

LEMMA BusyFacts ==
  ASSUME ReaderInv, Busy
  PROVE  /\ source \in Sources /\ source.size \in Nat /\ source.plain \in Seq(Nat)
         /\ Len(source.plain) = source.size
         /\ call.off \in Nat /\ call.len \in Nat /\ call.off + call.len <= source.size
         /\ Len(out) \in Nat /\ Len(out) <= call.len /\ pos = call.off + Len(out) /\ pos \in Nat
         /\ Part(out, source.plain, call.off)
         /\ Need \in Nat /\ pos + Need <= source.size
         /\ Len(out) < call.len => Need \in Nat \ {0}
<1>1. source \in Sources /\ CallInv
  BY DEF ReaderInv
<1>2. source.size \in Nat /\ source.plain \in Seq(Nat) /\ Len(source.plain) = source.size
  BY <1>1, SourceFacts
<1>3. /\ call.off \in Nat /\ call.len \in Nat /\ call.off + call.len <= source.size
      /\ pos = call.off + Len(out) /\ Part(out, source.plain, call.off) /\ Len(out) <= call.len
  BY <1>1 DEF CallInv
<1>4. Len(out) \in Nat
  BY <1>3 DEF Part
<1>5. Need \in Nat /\ pos \in Nat /\ pos + Need <= source.size /\ (Len(out) < call.len => Need \in Nat \ {0})
  BY SMTT(30), <1>2, <1>3, <1>4 DEF Need
<1> QED
  BY <1>1, <1>2, <1>3, <1>4, <1>5

LEMMA DoneKeeps ==
  ASSUME ReaderInv, Done
  PROVE  ReaderInv' /\ source' = source /\ M!Right(answer')
<1>1. Busy /\ Return(out) /\ source' = source /\ chunkCache' = chunkCache
  BY DEF Done
<1>2. CacheInv'
  BY <1>1 DEF ReaderInv, CacheInv
<1>3. /\ source \in Sources /\ Part(out, source.plain, call.off)
      /\ Len(out) \in Nat /\ call.len \in Nat /\ Len(out) <= call.len
      /\ pos = call.off + Len(out) /\ call.off \in Nat /\ call.off + call.len <= source.size /\ source.size \in Nat
  BY <1>1, BusyFacts
<1>4. Len(out) = call.len
  <2> SUFFICES ASSUME Len(out) < call.len PROVE FALSE
    BY <1>3
  <2>1. source.kind = "split" /\ seg > Len(source.segs)
    BY <1>3 DEF Done
  <2>2. SegmentInv
    BY <1>1, <2>1 DEF ReaderInv, CallInv
  <2>3. Len(source.segs) \in Nat /\ Base(source, Len(source.segs) + 1) = source.size
    BY <1>3, <2>1, SegmentsLie
  <2>4. seg = Len(source.segs) + 1
    BY <2>1, <2>2, <2>3 DEF SegmentInv
  <2>5. source.size <= pos
    BY <2>2, <2>3, <2>4 DEF SegmentInv
  <2> QED BY <1>3, <2>5
<1> QED
  BY <1>1, <1>2, <1>3, <1>4, ReturnKeeps

LEMMA RawReadKeeps ==
  ASSUME ReaderInv, RawRead
  PROVE  ReaderInv' /\ source' = source /\ M!Right(answer')
<1> DEFINE d == ReadAt(source.file, pos, Need)
<1>1. /\ Busy /\ source.kind = "raw" /\ Return(d) /\ source' = source /\ chunkCache' = chunkCache
      /\ Len(out) < call.len
  BY DEF RawRead, Reading
<1>2. CacheInv'
  BY <1>1 DEF ReaderInv, CacheInv
<1>3. out = <<>>
  BY <1>1 DEF ReaderInv, CallInv
<1>4. source \in Sources /\ pos \in Nat /\ Need \in Nat /\ pos + Need <= source.size
      /\ pos = call.off + Len(out) /\ call.off \in Nat /\ call.len \in Nat
  BY <1>1, BusyFacts
<1>5. Gives(d, source, pos, Need, source.file.bad = {})
  BY <1>1, <1>4, RawGives
<1>6. pos = call.off /\ Need = call.len
  BY <1>3, <1>4 DEF Need
<1> HIDE DEF d
<1>7. Part(d, source.plain, call.off) /\ Len(d) <= call.len /\ (source.file.bad = {} => Len(d) = call.len)
  BY <1>5, <1>6 DEF Gives
<1>8. source.file.bad # {} => Damaged(source)
  BY <1>1 DEF Damaged
<1> QED
  BY <1>1, <1>2, <1>7, <1>8, ReturnKeeps

LEMMA SplitReadKeeps ==
  ASSUME SplitsAreWhole, ReaderInv, SplitRead
  PROVE  ReaderInv' /\ source' = source /\ M!Right(answer')
<1> DEFINE f     == source.segs[seg]
           start == Base(source, seg)
           local == IF pos > start THEN pos - start ELSE 0
           bytes == ReadAt(f, local, Least(Len(f.bytes) - local, Need))
<1>1. /\ Busy /\ source.kind = "split" /\ source' = source /\ chunkCache' = chunkCache
      /\ Len(out) < call.len /\ seg <= Len(source.segs)
  BY DEF SplitRead, Reading
<1>2. CacheInv'
  BY <1>1 DEF ReaderInv, CacheInv
<1>3. IF pos >= start + Len(f.bytes)
        THEN seg' = seg + 1 /\ UNCHANGED <<call, pos, out, answer>>
        ELSE IF bytes = <<>> THEN Return(out) ELSE Extend(bytes) /\ seg' = seg + 1
  BY DEF SplitRead
<1>4. /\ source \in Sources /\ pos \in Nat /\ Need \in Nat \ {0} /\ pos + Need <= source.size
      /\ call.len \in Nat /\ Len(out) \in Nat
  BY <1>1, BusyFacts
<1>5. SegmentInv /\ CallInv
  BY <1>1 DEF ReaderInv, CallInv
<1>6. /\ Len(source.segs) \in Nat /\ seg \in 1..Len(source.segs) /\ start <= pos
      /\ seg + 1 \in 1..(Len(source.segs) + 1)
  <2>1. Len(source.segs) \in Nat
    BY <1>1, <1>4, SegmentsLie
  <2> QED BY <1>1, <1>5, <2>1 DEF SegmentInv
<1>7. /\ start \in Nat /\ Len(f.bytes) \in Nat /\ Base(source, seg + 1) = start + Len(f.bytes)
      /\ f.bad = {} /\ DOMAIN source.segs = 1..Len(source.segs)
  <2>1. /\ DOMAIN source.segs = 1..Len(source.segs) /\ IsFile(f) /\ start \in Nat
        /\ Base(source, seg + 1) = start + Len(f.bytes)
    BY <1>1, <1>4, <1>6, SegmentsLie
  <2>2. f.bad = {}
    BY <1>1, <1>4, <1>6, <2>1 DEF SplitsAreWhole
  <2> QED BY <2>1, <2>2 DEF IsFile
<1>8. local = pos - start
  BY <1>4, <1>6, <1>7
<1>9. CASE pos >= start + Len(f.bytes)
  <2>1. seg' = seg + 1 /\ call' = call /\ pos' = pos /\ out' = out /\ answer' = answer
    BY <1>3, <1>9
  <2>2. SegmentInv'
    BY <1>1, <1>6, <1>7, <1>9, <2>1 DEF SegmentInv
  <2>3. CallInv'
    BY <1>1, <1>5, <2>1, <2>2 DEF CallInv
  <2>4. M!Right(answer') /\ M!Right(answer)'
    BY <1>1, <2>1 DEF ReaderInv, M!Right, M!Slice
  <2>5. answer'.data \in Seq(Nat)
    BY <2>1 DEF ReaderInv
  <2> QED BY <1>1, <1>2, <1>4, <2>3, <2>4, <2>5 DEF ReaderInv
<1>10. CASE ~(pos >= start + Len(f.bytes))
  <2> DEFINE s    == source
             here == pos - start
             want == Least(Len(f.bytes) - here, Need)
             d    == ReadAt(f, here, want)
  <2>1. bytes = d
    BY <1>8
  <2>2. /\ Gives(d, source, pos, want, f.bad = {}) /\ want \in Nat /\ want <= Need
        /\ want = Need \/ pos + want = Base(source, seg + 1)
    <3>1. pos < start + Len(f.bytes) /\ Need \in Nat
      BY SMTT(30), <1>4, <1>7, <1>10
    <3> QED BY ZenonT(40), <1>1, <1>4, <1>6, <3>1, SplitGives
  <2> HIDE DEF d, f
  <2>3. Part(d, source.plain, pos) /\ Len(d) = want
    BY <1>7, <2>2 DEF Gives
  <2>4. want > 0
    BY SMTT(30), <1>4, <1>7, <1>10 DEF Least
  <2> HIDE DEF want
  <2>5. d # <<>>
    BY <2>3, <2>4
  <2>6. Extend(d) /\ seg' = seg + 1
    BY <1>3, <1>10, <2>1, <2>5
  <2>7. SegmentInv'
    <3>1. out' = out \o d /\ pos' = pos + want /\ call' = call
      BY <2>3, <2>6 DEF Extend
    <3>2. Len(out \o d) = Len(out) + want
      <4>1. out \in Seq(Nat) /\ d \in Seq(Nat)
        BY <1>5, <2>3 DEF CallInv, Part
      <4> QED BY SMTT(30), <2>3, <4>1
    <3>3. want = Need => ~(Len(out') < call'.len)
      BY SMTT(30), <1>4, <3>1, <3>2 DEF Need
    <3>4. want # Need => Base(source, seg + 1) <= pos'
      BY <1>4, <2>2, <3>1
    <3> QED BY <1>1, <1>6, <2>6, <3>3, <3>4 DEF SegmentInv
  <2>8. Len(d) <= Need
    BY <2>2, <2>3
  <2> HIDE DEF local, start
  <2> QED BY <1>1, <1>2, <2>3, <2>6, <2>7, <2>8, ExtendKeeps
<1> QED
  BY <1>9, <1>10

LEMMA ExtendOrReturnKeeps ==
  ASSUME ReaderInv, Busy, Len(out) < call.len, source.kind \notin {"raw", "split"}, source' = source, CacheInv',
         NEW d, ExtendOrReturn(d), NEW well, GetsOn(d, source, pos, Need, well), well \/ Damaged(source)
  PROVE  ReaderInv' /\ source' = source /\ M!Right(answer')
<1>1. Part(d, source.plain, pos) /\ Len(d) <= Need /\ (Need > 0 /\ well => d # <<>>)
  BY DEF GetsOn
<1>2. /\ Part(out, source.plain, call.off) /\ Len(out) <= call.len /\ Need \in Nat \ {0}
  BY BusyFacts
<1>3. CASE d = <<>>
  <2>1. Return(out)
    BY <1>3 DEF ExtendOrReturn
  <2>2. Damaged(source)
    BY <1>1, <1>2, <1>3
  <2> QED BY <1>2, <2>1, <2>2, ReturnKeeps
<1>4. CASE d # <<>>
  <2>1. Extend(d)
    BY <1>4 DEF ExtendOrReturn
  <2> QED BY <1>1, <2>1, ExtendKeeps
<1> QED
  BY <1>3, <1>4

LEMMA ClusterReadKeeps ==
  ASSUME ReaderInv, ClusterRead
  PROVE  ReaderInv' /\ source' = source /\ M!Right(answer')
<1> DEFINE from == Within(source, pos)
           cl   == Cluster(source, pos \div source.unit)
           d    == SubSeq(cl, from + 1, Least(Len(cl), from + Need))
<1>1. /\ Busy /\ source.kind = "qcow2" /\ ExtendOrReturn(d) /\ source' = source /\ chunkCache' = chunkCache
      /\ Len(out) < call.len
  BY DEF ClusterRead, Reading
<1>2. CacheInv'
  BY <1>1 DEF ReaderInv, CacheInv
<1>3. source \in Sources /\ pos \in Nat /\ Need \in Nat /\ pos + Need <= source.size
  BY <1>1, BusyFacts
<1>4. GetsOn(d, source, pos, Need, TRUE)
  BY <1>1, <1>3, ClusterGives
<1> HIDE DEF d
<1> QED
  BY <1>1, <1>2, <1>4, ExtendOrReturnKeeps

LEMMA GrainReadKeeps ==
  ASSUME ReaderInv, GrainRead
  PROVE  ReaderInv' /\ source' = source /\ M!Right(answer')
<1> DEFINE d == Grain(source, pos, Need)
<1>1. /\ Busy /\ source.kind = "vmdk" /\ ExtendOrReturn(d) /\ source' = source /\ chunkCache' = chunkCache
      /\ Len(out) < call.len
  BY DEF GrainRead, Reading
<1>2. CacheInv'
  BY <1>1 DEF ReaderInv, CacheInv
<1>3. source \in Sources /\ pos \in Nat /\ Need \in Nat /\ pos + Need <= source.size
  BY <1>1, BusyFacts
<1>4. GetsOn(d, source, pos, Need, TRUE)
  BY <1>1, <1>3, GrainGives
<1> HIDE DEF d
<1> QED
  BY <1>1, <1>2, <1>4, ExtendOrReturnKeeps

(* A kept chunk is the one that was asked for. *)
LEMMA CacheIsRight ==
  ASSUME source \in Sources, source.kind = "ewf", CacheInv, NEW i \in DOMAIN source.chunks
  PROVE  ChunkBytes(i) = DecodeChunk(source, i) /\ (KeepChunk(i) /\ source' = source => CacheInv')
<1>1. chunkCache \in Seq(Decoded(source))
  BY DEF CacheInv
<1>2. ASSUME Cached(i) # {}
      PROVE  chunkCache[CHOOSE k \in Cached(i) : TRUE].bytes = DecodeChunk(source, i)
  <2> DEFINE k == CHOOSE k \in Cached(i) : TRUE
  <2>1. k \in Cached(i)
    BY <1>2
  <2> HIDE DEF k
  <2>2. k \in DOMAIN chunkCache /\ chunkCache[k].key = i
    BY <2>1 DEF Cached, CacheKey
  <2>3. chunkCache[k] \in Decoded(source)
    BY <1>1, <2>2
  <2>4. PICK j \in DOMAIN source.chunks : chunkCache[k] = [key |-> j, bytes |-> DecodeChunk(source, j)]
    BY <2>3 DEF Decoded
  <2>5. chunkCache[k].bytes = DecodeChunk(source, i)
    BY <2>2, <2>4
  <2> QED BY <2>5 DEF k
<1>3. ChunkBytes(i) = DecodeChunk(source, i)
  BY <1>2 DEF ChunkBytes
<1>4. ASSUME KeepChunk(i), source' = source PROVE CacheInv'
  <2> DEFINE e == [key |-> i, bytes |-> DecodeChunk(source, i)]
             D == Decoded(source)
  <2>1. e \in D
    BY DEF Decoded
  <2>2. CASE Cached(i) # {}
    <3>1. chunkCache' = chunkCache
      BY <1>4, <2>2 DEF KeepChunk
    <3> QED BY <1>1, <1>4, <3>1 DEF CacheInv
  <2>3. CASE Cached(i) = {}
    <3> DEFINE c == IF Len(chunkCache) >= CacheSize THEN Tail(chunkCache) ELSE chunkCache
    <3>1. chunkCache' = Append(c, e)
      BY <1>4, <2>3 DEF KeepChunk, CacheKey
    <3>2. Len(chunkCache) >= CacheSize => chunkCache # <<>>
      BY <1>1, CacheAssumption
    <3> HIDE DEF D, e
    <3>3. chunkCache \in Seq(D)
      BY <1>1 DEF D
    <3>4. c \in Seq(D)
      BY <3>2, <3>3
    <3> HIDE DEF c
    <3>5. chunkCache' \in Seq(D)
      BY <2>1, <3>1, <3>4
    <3> QED BY <1>4, <3>5 DEF CacheInv, D
  <2> QED BY <2>2, <2>3
<1> QED
  BY <1>3, <1>4

LEMMA ChunkReadKeeps ==
  ASSUME ReaderInv, ChunkRead
  PROVE  ReaderInv' /\ source' = source /\ M!Right(answer')
<1> DEFINE i    == (pos \div source.unit) + 1
           from == Within(source, pos)
           c    == DecodeChunk(source, i)
           d    == SubSeq(c, from + 1, Least(Len(c), from + Need))
<1>1. /\ Busy /\ source.kind = "ewf" /\ source' = source /\ Len(out) < call.len
      /\ IF i \notin DOMAIN source.chunks
           THEN Return(out) /\ UNCHANGED chunkCache
           ELSE /\ KeepChunk(i)
                /\ ExtendOrReturn(SubSeq(ChunkBytes(i), from + 1, Least(Len(ChunkBytes(i)), from + Need)))
  BY DEF ChunkRead, Reading
<1>2. source \in Sources /\ pos \in Nat /\ Need \in Nat \ {0} /\ pos + Need <= source.size
  BY <1>1, BusyFacts
<1>3. i \in DOMAIN source.chunks /\ GetsOn(d, source, pos, Need, ~Damaged(source))
  BY <1>1, <1>2, ChunkGives
<1> HIDE DEF i
<1>4. CacheInv
  BY DEF ReaderInv
<1>5. ChunkBytes(i) = c /\ CacheInv'
  BY <1>1, <1>2, <1>3, <1>4, CacheIsRight
<1>6. ExtendOrReturn(d)
  BY <1>1, <1>3, <1>5
<1> HIDE DEF d
<1> QED
  BY <1>1, <1>3, <1>5, <1>6, ExtendOrReturnKeeps

LEMMA DecryptReadKeeps ==
  ASSUME ReaderInv, DecryptRead
  PROVE  ReaderInv' /\ source' = source /\ M!Right(answer')
<1>1. /\ Busy /\ source.kind = "bitlocker" /\ source' = source /\ chunkCache' = chunkCache
      /\ Len(out) < call.len
      /\ \E v \in Volumes(source, pos) : Extend(VolumeRead(source, v, pos - v.base, VolumePart(v)))
  BY DEF DecryptRead, Reading
<1>2. CacheInv'
  BY <1>1 DEF ReaderInv, CacheInv
<1>3. source \in Sources /\ pos \in Nat /\ Need \in Nat \ {0} /\ pos + Need <= source.size
  BY <1>1, BusyFacts
<1>4. PICK v \in Volumes(source, pos) : Extend(VolumeRead(source, v, pos - v.base, VolumePart(v)))
  BY <1>1
<1> DEFINE d == VolumeRead(source, v, pos - v.base, VolumePart(v))
<1>5. GetsOn(d, source, pos, Need, TRUE)
  BY <1>1, <1>3, DecryptGives DEF VolumePart
<1>6. Extend(d)
  BY <1>4
<1> HIDE DEF d
<1> QED
  BY <1>1, <1>2, <1>5, <1>6, ExtendKeeps DEF GetsOn

LEMMA PlainReadKeeps ==
  ASSUME ReaderInv, PlainRead
  PROVE  ReaderInv' /\ source' = source /\ M!Right(answer')
<1> DEFINE ahead == {v.base : v \in {w \in source.volumes : w.base > pos}}
           next  == IF ahead = {} THEN pos + Need ELSE CHOOSE b \in ahead : \A c \in ahead : b <= c
           d     == ReadAt(source.file, pos, Least(Need, next - pos))
<1>1. /\ Busy /\ source.kind = "bitlocker" /\ source' = source /\ chunkCache' = chunkCache
      /\ Len(out) < call.len /\ Volumes(source, pos) = {} /\ ExtendOrReturn(d)
  BY DEF PlainRead, Reading
<1>2. CacheInv'
  BY <1>1 DEF ReaderInv, CacheInv
<1>3. source \in Sources /\ pos \in Nat /\ Need \in Nat \ {0} /\ pos + Need <= source.size
  BY <1>1, BusyFacts
<1>4. GetsOn(d, source, pos, Need, TRUE)
  BY <1>1, <1>3, PlainGives
<1> HIDE DEF d
<1> QED
  BY <1>1, <1>2, <1>4, ExtendOrReturnKeeps

LEMMA ReaderStepKeeps ==
  ASSUME SplitsAreWhole, ReaderInv, ReaderStep
  PROVE  ReaderInv' /\ source' = source /\ M!Right(answer')
BY DoneKeeps, RawReadKeeps, SplitReadKeeps, ClusterReadKeeps, GrainReadKeeps, ChunkReadKeeps,
   DecryptReadKeeps, PlainReadKeeps DEF ReaderStep

LEMMA ReaderStutters ==
  ASSUME ReaderInv, UNCHANGED vars
  PROVE  ReaderInv' /\ source' = source /\ M!Right(answer')
<1>1. source' = source /\ chunkCache' = chunkCache /\ call' = call /\ pos' = pos /\ seg' = seg
      /\ out' = out /\ answer' = answer
  BY DEF vars
<1>2. M!Right(answer') /\ M!Right(answer)' /\ answer'.data \in Seq(Nat)
  BY <1>1 DEF ReaderInv, M!Right, M!Slice
<1>3. (Busy => CallInv)'
  BY <1>1 DEF ReaderInv, CallInv, SegmentInv, Busy
<1>4. CacheInv'
  BY <1>1 DEF ReaderInv, CacheInv
<1> QED
  BY <1>1, <1>2, <1>3, <1>4 DEF ReaderInv

LEMMA ReaderInitHolds ==
  ASSUME ReadersInit
  PROVE  ReaderInv /\ M!MediaInit
<1>1. source \in Sources /\ chunkCache = <<>> /\ ~Busy /\ answer = [off |-> 0, want |-> 0, data |-> <<>>]
  BY DEF ReadersInit, Busy, NoAnswer
<1>2. M!Right(answer)
  BY <1>1, NoAnswerIsRight
<1>3. CacheInv
  BY <1>1 DEF CacheInv
<1>4. answer.data \in Seq(Nat)
  BY <1>1
<1> QED
  BY <1>1, <1>2, <1>3, <1>4 DEF ReaderInv, M!MediaInit

(* Whatever container the media is kept in, however it is cut into         *)
(* segments, clusters, grains, chunks and sectors, and whatever was read   *)
(* before: every reader of src/src/reader.rs, images.rs and ewf.rs answers *)
(* a read with the slice of the media that was asked for, and stops early  *)
(* only in an image that is damaged.  A segment of a split image must be   *)
(* whole for this.                                                         *)
THEOREM ReadersReadTheMedia == SplitsAreWhole /\ ReadersSpec => ReadsMedia
<1> SUFFICES ASSUME SplitsAreWhole
             PROVE  ReadersSpec => ReadsMedia
  OBVIOUS
<1>1. ReadersInit => ReaderInv /\ M!MediaInit
  BY ReaderInitHolds
<1>2. ReaderInv /\ [ReadersNext]_vars
        => ReaderInv' /\ [M!Read]_<<Contents(source), Damaged(source), answer>>
  <2> SUFFICES ASSUME ReaderInv, [ReadersNext]_vars
               PROVE  ReaderInv' /\ [M!Read]_<<Contents(source), Damaged(source), answer>>
    OBVIOUS
  <2>1. ASSUME source' = source, M!Right(answer')
        PROVE  [M!Read]_<<Contents(source), Damaged(source), answer>>
    BY <2>1 DEF M!Read
  <2>2. CASE ReaderStep
    BY <2>1, <2>2, ReaderStepKeeps
  <2>3. ASSUME NEW o \in Nat, NEW n \in Nat, Pread(o, n)
        PROVE  ReaderInv' /\ [M!Read]_<<Contents(source), Damaged(source), answer>>
    BY <2>1, <2>3, PreadKeeps
  <2>4. CASE UNCHANGED vars
    BY <2>1, <2>4, ReaderStutters
  <2> QED BY <2>2, <2>3, <2>4 DEF ReadersNext
<1> QED
  BY <1>1, <1>2, PTL DEF ReadersSpec, ReadsMedia, M!MediaSpec

-----------------------------------------------------------------------------
(***************************************************************************)
(* Part 4.  What a view of the window shows and what is found in it.  Its  *)
(* fetches go through a cache of views that other calls replace, and       *)
(* through a reader that gives a block in pieces.                          *)
(***************************************************************************)

(* A view lies inside its source, or shows nothing. *)
Lies(s, b, l) == b \in Nat /\ l \in Nat /\ (l > 0 => b + l <= s.size)

Shown(s, b, l) == M!Slice(Contents(s), b, l)

IsShown(s, b, l, v) ==
  v \in Seq(Nat) /\ Len(v) = l /\ \A k \in 1..l : b + k \in 1..Len(s.plain) /\ v[k] = s.plain[b + k]

LEMMA ShownIs ==
  ASSUME NEW s \in Sources, NEW b, NEW l, Lies(s, b, l)
  PROVE  IsShown(s, b, l, Shown(s, b, l))
<1> DEFINE p == s.plain
<1>1. p \in Seq(Nat) /\ Len(p) = s.size /\ s.size \in Nat /\ Contents(s) = p
  BY SourceFacts DEF Contents
<1>2. b \in Nat /\ l \in Nat /\ (l > 0 => b + l <= s.size)
  BY DEF Lies
<1> HIDE DEF p
<1> DEFINE e == IF b + l < Len(p) THEN b + l ELSE Len(p)
           v == SubSeq(p, b + 1, e)
<1>3. Shown(s, b, l) = v
  BY <1>1 DEF Shown, M!Slice
<1>4. CASE l = 0
  <2>1. e \in Int /\ e < b + 1
    BY <1>1, <1>2, <1>4
  <2> HIDE DEF e
  <2>2. v = <<>>
    BY <1>2, <2>1, SubSeqEmpty
  <2>3. <<>> \in Seq(Nat) /\ Len(<<>>) = 0
    OBVIOUS
  <2>4. \A k \in 1..l : FALSE
    BY <1>4
  <2> HIDE DEF v
  <2>5. IsShown(s, b, l, v)
    BY <1>4, <2>2, <2>3, <2>4 DEF IsShown
  <2> QED BY <1>3, <2>5 DEF v
<1>5. CASE l > 0
  <2>1. e = b + l /\ b + l <= Len(p)
    BY <1>1, <1>2, <1>5
  <2> HIDE DEF e
  <2>2. Part(v, p, b) /\ Len(v) = l
    BY <1>1, <1>2, <2>1, SubSeqIsPart
  <2> HIDE DEF v
  <2>3. v \in Seq(Nat) /\ \A k \in 1..l : v[k] = p[b + k]
    BY <2>2 DEF Part
  <2>4. \A k \in 1..l : b + k \in 1..Len(p)
    BY <1>1, <1>2, <2>1
  <2>5. IsShown(s, b, l, v)
    BY <2>2, <2>3, <2>4 DEF p, IsShown
  <2> QED BY <1>3, <2>5 DEF v
<1> QED
  BY <1>2, <1>4, <1>5

(* What is read of the source inside the view is what the view shows there. *)
LEMMA PartIsShown ==
  ASSUME NEW s \in Sources, NEW b, NEW l, Lies(s, b, l), NEW x \in Nat, NEW y, y = b + x,
         NEW d, Part(d, s.plain, y), x + Len(d) <= l
  PROVE  Part(d, Shown(s, b, l), x)
<1> DEFINE v == Shown(s, b, l)
<1>1. v \in Seq(Nat) /\ Len(v) = l /\ \A k \in 1..l : v[k] = s.plain[b + k]
  BY ShownIs DEF IsShown
<1>2. d \in Seq(Nat) /\ Len(d) \in Nat /\ \A k \in 1..Len(d) : d[k] = s.plain[y + k]
  BY DEF Part
<1>3. b \in Nat /\ l \in Nat
  BY DEF Lies
<1> HIDE DEF v
<1>4. ASSUME NEW k \in 1..Len(d) PROVE d[k] = v[x + k]
  <2>1. x + k \in 1..l /\ b + (x + k) = y + k
    BY <1>2, <1>3
  <2> QED BY <1>1, <1>2, <2>1
<1>5. Part(d, v, x)
  BY <1>1, <1>2, <1>4 DEF Part
<1> QED BY <1>5 DEF v

(* A part of v that has all that was asked for or reaches the end of v is  *)
(* the slice that was asked for; a part is the beginning of one.           *)
LEMMA PartIsSlice ==
  ASSUME NEW v \in Seq(Nat), NEW x \in Nat, NEW n \in Nat, NEW d, d \in Seq(Nat), Len(d) <= n,
         d = <<>> \/ Part(d, v, x)
  PROVE  /\ Len(d) = n \/ x + Len(d) >= Len(v) => d = M!Slice(v, x, n)
         /\ IsPrefix(d, M!Slice(v, x, n))
<1> DEFINE e == IF x + n < Len(v) THEN x + n ELSE Len(v)
           m == e - x
           slice == SubSeq(v, x + 1, e)
<1>1. M!Slice(v, x, n) = slice
  BY DEF M!Slice
<1>2. Len(v) \in Nat /\ e \in Int /\ m \in Int /\ e <= Len(v) /\ m <= n /\ (e = x + n \/ e = Len(v)) /\ e = x + m
  OBVIOUS
<1>3. Len(d) \in Nat
  OBVIOUS
<1> HIDE DEF e, m
<1>4. CASE m <= 0
  <2>1. e < x + 1
    BY <1>2, <1>4
  <2> HIDE DEF slice
  <2>2. slice = <<>>
    BY <1>2, <2>1, SubSeqEmpty DEF slice
  <2>3. d = <<>>
    <3>1. CASE Part(d, v, x)
      <4>1. x + Len(d) <= Len(v)
        BY <3>1 DEF Part
      <4>2. Len(d) = 0
        BY <1>2, <1>3, <1>4, <4>1
      <4> QED BY <4>2
    <3> QED BY <3>1
  <2>4. IsPrefix(d, slice)
    <3>1. <<>> \in Seq(Nat) /\ Len(<<>>) <= Len(<<>>) /\ \A k \in 1..Len(<<>>) : <<>>[k] = <<>>[k]
      OBVIOUS
    <3>2. IsPrefix(<<>>, <<>>)
      BY <3>1, PrefixIs
    <3> QED BY <2>2, <2>3, <3>2
  <2> QED BY <1>1, <2>2, <2>3, <2>4
<1>5. CASE m > 0
  <2>1. m \in Nat /\ x + m <= Len(v)
    BY <1>2, <1>5
  <2>2. Part(slice, v, x) /\ Len(slice) = m
    BY <1>2, <2>1, SubSeqIsPart
  <2> HIDE DEF slice
  <2>3. slice \in Seq(Nat) /\ \A k \in 1..m : slice[k] = v[x + k]
    BY <2>2 DEF Part
  <2>4. Len(d) <= m /\ \A k \in 1..Len(d) : d[k] = slice[k]
    <3>1. CASE d = <<>>
      BY <2>1, <3>1
    <3>2. CASE Part(d, v, x)
      <4>1. x + Len(d) <= Len(v) /\ \A k \in 1..Len(d) : d[k] = v[x + k]
        BY <3>2 DEF Part
      <4>2. Len(d) <= m
        BY <1>2, <1>3, <4>1
      <4> QED BY <1>3, <2>1, <2>3, <4>1, <4>2
    <3> QED BY <3>1, <3>2
  <2>5. IsPrefix(d, slice)
    BY <2>2, <2>3, <2>4, PrefixIs
  <2>6. ASSUME Len(d) = n \/ x + Len(d) >= Len(v) PROVE d = slice
    <3>1. Len(d) = m
      BY <1>2, <1>3, <2>1, <2>4, <2>6
    <3> QED BY <2>2, <2>3, <2>4, <3>1, SeqEqual
  <2> QED BY <1>1, <2>5, <2>6
<1> QED
  BY <1>2, <1>4, <1>5

-----------------------------------------------------------------------------
(* The needle stands at i of v. *)
StandsAt(v, w, i) ==
  i \in Nat /\ i + Len(w) <= Len(v) /\ \A k \in 1..Len(w) : v[i + k] = w[k]

LEMMA FoundIs ==
  ASSUME NEW v \in Seq(Nat), NEW w \in Seq(Nat)
  PROVE  \A i : i \in FindSub(v, w) <=> StandsAt(v, w, i)
<1> SUFFICES ASSUME NEW i PROVE i \in FindSub(v, w) <=> StandsAt(v, w, i)
  OBVIOUS
<1> DEFINE n == Len(w)
<1>1. n \in Nat /\ Len(v) \in Nat
  OBVIOUS
<1> HIDE DEF n
<1>2. i \in FindSub(v, w) <=> i \in 0..(Len(v) - n) /\ SubSeq(v, i + 1, i + n) = w
  BY DEF FindSub, n
<1>3. i \in 0..(Len(v) - n) <=> i \in Nat /\ i + n <= Len(v)
  BY <1>1
<1>4. ASSUME i \in Nat, i + n <= Len(v)
      PROVE  SubSeq(v, i + 1, i + n) = w <=> \A k \in 1..n : v[i + k] = w[k]
  <2> DEFINE d == SubSeq(v, i + 1, i + n)
  <2>1. Part(d, v, i) /\ Len(d) = n
    BY <1>1, <1>4, SubSeqIsPart
  <2> HIDE DEF d
  <2>2. d \in Seq(Nat) /\ \A k \in 1..n : d[k] = v[i + k]
    BY <2>1 DEF Part
  <2>3. ASSUME \A k \in 1..n : v[i + k] = w[k] PROVE d = w
    <3>1. \A k \in 1..Len(d) : d[k] = w[k]
      BY <2>1, <2>2, <2>3
    <3> QED BY <2>1, <2>2, <3>1, SeqEqual DEF n
  <2>4. d = w => \A k \in 1..n : v[i + k] = w[k]
    BY <2>2
  <2> QED BY <2>3, <2>4 DEF d
<1> QED
  BY <1>2, <1>3, <1>4 DEF StandsAt, n

(* What stands in a part stands in the whole, as far on as the part is. *)
LEMMA StandsInPart ==
  ASSUME NEW v \in Seq(Nat), NEW w \in Seq(Nat), NEW x \in Nat, NEW d, Part(d, v, x),
         NEW i \in Nat, NEW y, y = x + i, i + Len(w) <= Len(d)
  PROVE  StandsAt(d, w, i) <=> StandsAt(v, w, y)
<1>1. d \in Seq(Nat) /\ Len(d) \in Nat /\ x + Len(d) <= Len(v) /\ \A k \in 1..Len(d) : d[k] = v[x + k]
  BY DEF Part
<1>2. Len(w) \in Nat /\ Len(v) \in Nat
  OBVIOUS
<1>3. ASSUME NEW k \in 1..Len(w) PROVE d[i + k] = v[y + k]
  <2>1. i + k \in 1..Len(d) /\ x + (i + k) = y + k
    BY <1>1, <1>2
  <2> QED BY <1>1, <2>1
<1>4. y \in Nat /\ y + Len(w) <= Len(v)
  BY <1>1, <1>2
<1> QED
  BY <1>3, <1>4 DEF StandsAt

(* What FindSub and the end say of a search in d, which begins at x. *)
InsideOf(x, d, w, e) == {x + i : i \in {k \in FindSub(d, w) : x + k + Len(w) <= e}}

LEMMA InsideIs ==
  ASSUME NEW v \in Seq(Nat), NEW w \in Seq(Nat), NEW x \in Nat, NEW d, Part(d, v, x), NEW e \in Nat, NEW y
  PROVE  y \in InsideOf(x, d, w, e)
           <=> y \in Int /\ x <= y /\ y + Len(w) <= x + Len(d) /\ y + Len(w) <= e /\ StandsAt(v, w, y)
<1>1. d \in Seq(Nat) /\ Len(d) \in Nat /\ Len(w) \in Nat
  BY DEF Part
<1>2. ASSUME y \in InsideOf(x, d, w, e)
      PROVE  y \in Int /\ x <= y /\ y + Len(w) <= x + Len(d) /\ y + Len(w) <= e /\ StandsAt(v, w, y)
  <2>1. PICK i \in FindSub(d, w) : x + i + Len(w) <= e /\ y = x + i
    BY <1>2 DEF InsideOf
  <2>2. StandsAt(d, w, i)
    BY <1>1, FoundIs
  <2>3. i \in Nat /\ i + Len(w) <= Len(d)
    BY <2>2 DEF StandsAt
  <2>4. StandsAt(v, w, y)
    BY <2>1, <2>2, <2>3, StandsInPart
  <2> QED BY <1>1, <2>1, <2>3, <2>4
<1>3. ASSUME y \in Int, x <= y, y + Len(w) <= x + Len(d), y + Len(w) <= e, StandsAt(v, w, y)
      PROVE  y \in InsideOf(x, d, w, e)
  <2> DEFINE i == y - x
  <2>1. i \in Nat /\ y = x + i /\ i + Len(w) <= Len(d) /\ x + i + Len(w) <= e
    BY <1>1, <1>3
  <2> HIDE DEF i
  <2>2. StandsAt(d, w, i)
    BY <1>3, <2>1, StandsInPart
  <2>3. i \in FindSub(d, w)
    BY <1>1, <2>2, FoundIs
  <2> QED BY <2>1, <2>3 DEF InsideOf
<1> QED
  BY <1>2, <1>3

(* Where a search should find its needle, in a view v and before e. *)
Occ(v, j, e) == {i \in FindSub(v, j.needle) : j.start <= i /\ i + Len(j.needle) <= e}

IsSearch(j) ==
  /\ j.op \in {"find", "find_last"} /\ j.start \in Nat
  /\ j.needle \in Seq(Nat) /\ Len(j.needle) \in Nat \ {0}

(* One turn of a search has read d: all that a turn needs, or up to the    *)
(* end of the view, unless there is damage.                                *)
TurnIsRead(v, j, x, e, d, damage) ==
  /\ x \in Nat /\ j.start <= x /\ x < e /\ e \in Nat /\ e <= Len(v)
  /\ Part(d, v, x) /\ Len(d) <= Least(e - x, Step) + Len(j.needle) - 1
  /\ damage \/ Len(d) = Least(e - x, Step) + Len(j.needle) - 1 \/ x + Len(d) >= Len(v)

LEMMA OccIs ==
  ASSUME NEW v \in Seq(Nat), NEW j, IsSearch(j), NEW e \in Nat, NEW y
  PROVE  y \in Occ(v, j, e)
           <=> y \in Nat /\ j.start <= y /\ y + Len(j.needle) <= e /\ StandsAt(v, j.needle, y)
<1>1. y \in FindSub(v, j.needle) <=> StandsAt(v, j.needle, y)
  BY FoundIs DEF IsSearch
<1>2. StandsAt(v, j.needle, y) => y \in Nat
  BY DEF StandsAt
<1> QED
  BY <1>1, <1>2 DEF Occ

(* A turn finds occurrences of its own step only; with what was read of    *)
(* it, all that are not behind one it finds; and without damage, all.      *)
LEMMA TurnFinds ==
  ASSUME NEW v \in Seq(Nat), NEW j, IsSearch(j), NEW x, NEW e, NEW d, NEW damage,
         TurnIsRead(v, j, x, e, d, damage)
  PROVE  LET inside == InsideOf(x, d, j.needle, e)
         IN  /\ inside \subseteq Nat
             /\ \A y \in inside : y \in Occ(v, j, e) /\ x <= y /\ y < x + Step
             /\ \A y \in Occ(v, j, e), z \in inside : x <= y /\ y < z => y \in inside
             /\ damage \/ \A y \in Occ(v, j, e) : x <= y /\ y < x + Step => y \in inside
<1> DEFINE inside == InsideOf(x, d, j.needle, e)
           n == Len(j.needle)
           w == j.needle
           t == Least(e - x, Step)
<1>1. /\ w \in Seq(Nat) /\ n = Len(w) /\ n \in Nat \ {0} /\ x \in Nat /\ e \in Nat /\ x < e /\ e <= Len(v)
      /\ Part(d, v, x) /\ Len(d) \in Nat /\ Len(v) \in Nat /\ x + Len(d) <= Len(v) /\ j.start \in Nat /\ j.start <= x
      /\ Step \in Nat \ {0}
  <2>1. Len(v) \in Nat /\ Step \in Nat \ {0}
    BY WindowAssumption
  <2>2. w \in Seq(Nat) /\ n = Len(w) /\ n \in Nat \ {0} /\ j.start \in Nat
    BY DEF IsSearch
  <2>3. x \in Nat /\ j.start <= x /\ x < e /\ e \in Nat /\ e <= Len(v) /\ Part(d, v, x)
    BY DEF TurnIsRead
  <2>4. Len(d) \in Nat /\ x + Len(d) <= Len(v)
    BY <2>3 DEF Part
  <2> QED BY <2>1, <2>2, <2>3, <2>4
<1>2. t \in Int /\ t <= e - x /\ t <= Step /\ (t = e - x \/ t = Step)
  BY <1>1 DEF Least
<1>3. Len(d) <= t + n - 1 /\ (damage \/ Len(d) = t + n - 1 \/ x + Len(d) >= Len(v))
  BY DEF TurnIsRead
<1>4. \A y : y \in inside <=> y \in Int /\ x <= y /\ y + n <= x + Len(d) /\ y + n <= e /\ StandsAt(v, w, y)
  BY <1>1, InsideIs
<1>5. \A y : y \in Occ(v, j, e) <=> y \in Nat /\ j.start <= y /\ y + n <= e /\ StandsAt(v, w, y)
  BY <1>1, OccIs
<1> HIDE DEF inside, n, w, t
<1>6. ASSUME NEW y \in inside PROVE y \in Nat /\ y \in Occ(v, j, e) /\ x <= y /\ y < x + Step
  <2>1. y \in Int /\ x <= y /\ y + n <= x + Len(d) /\ y + n <= e /\ StandsAt(v, w, y)
    BY <1>4
  <2>2. y \in Nat /\ j.start <= y
    BY SMTT(30), <1>1, <2>1
  <2>3. y < x + Step
    BY <1>1, <1>2, <1>3, <2>1
  <2> QED BY <1>5, <2>1, <2>2, <2>3
<1>7. ASSUME NEW y \in Occ(v, j, e), NEW z \in inside, x <= y, y < z PROVE y \in inside
  <2>1. y \in Nat /\ y + n <= e /\ StandsAt(v, w, y)
    BY <1>5
  <2>2. z \in Int /\ z + n <= x + Len(d)
    BY <1>4
  <2>3. y + n <= x + Len(d)
    BY <1>1, <1>7, <2>1, <2>2
  <2> QED BY <1>4, <1>7, <2>1, <2>3
<1>8. ASSUME ~damage, NEW y \in Occ(v, j, e), x <= y, y < x + Step PROVE y \in inside
  <2>1. y \in Nat /\ y + n <= e /\ StandsAt(v, w, y)
    BY <1>5
  <2>2. y + n <= x + Len(d)
    <3>1. CASE Len(d) = t + n - 1
      BY SMTT(30), <1>1, <1>2, <1>8, <2>1, <3>1
    <3>2. CASE x + Len(d) >= Len(v)
      BY <1>1, <2>1, <3>2
    <3> QED BY <1>3, <1>8, <3>1, <3>2
  <2> QED BY <1>4, <1>8, <2>1, <2>2
<1>9. /\ inside \subseteq Nat
      /\ \A y \in inside : y \in Occ(v, j, e) /\ x <= y /\ y < x + Step
      /\ \A y \in Occ(v, j, e), z \in inside : x <= y /\ y < z => y \in inside
      /\ damage \/ \A y \in Occ(v, j, e) : x <= y /\ y < x + Step => y \in inside
  BY <1>6, <1>7, <1>8
<1> QED
  BY <1>9 DEF inside, w

LEMMA MinIs ==
  ASSUME NEW S, S \subseteq Nat, S # {}
  PROVE  Min(S) \in S /\ \A y \in S : Min(S) <= y
<1>1. \E x \in S : \A y \in S : x <= y
  BY LeastElement
<1> QED BY <1>1, Zenon DEF Min

LEMMA MaxIs ==
  ASSUME NEW S, S \subseteq Nat, S # {}, NEW b \in Nat, \A y \in S : y <= b
  PROVE  Max(S) \in S /\ \A y \in S : y <= Max(S)
<1>1. S \subseteq Int /\ b \in Int
  OBVIOUS
<1>2. \E x \in S : \A y \in S : y <= x
  BY <1>1, GreatestElement
<1>3. \E x \in S : \A y \in S : x >= y
  BY <1>1, <1>2
<1>4. Max(S) \in S /\ \A y \in S : Max(S) >= y
  BY <1>3, Zenon DEF Max
<1> QED BY <1>1, <1>4

(* What a search knows at x, with l the latest occurrence: nothing was     *)
(* passed over, l is the last of those passed.                             *)
SoFar(v, j, e, x, l, damage) ==
  /\ x \in Nat /\ j.start <= x
  /\ l = None => damage \/ \A y \in Occ(v, j, e) : x <= y
  /\ l # None => l \in Occ(v, j, e) /\ (damage \/ \A y \in Occ(v, j, e) : y < x => y <= l)
  /\ j.op = "find" => l = None

(* FindRight, of any view. *)
EndRight(v, j, e, r, damage) ==
  IF r = None THEN Occ(v, j, e) = {} \/ damage
  ELSE r \in Occ(v, j, e) /\ (r = (IF j.op = "find" THEN Min(Occ(v, j, e)) ELSE Max(Occ(v, j, e))) \/ damage)

LEMMA OccFacts ==
  ASSUME NEW v \in Seq(Nat), NEW j, IsSearch(j), NEW e \in Nat
  PROVE  Occ(v, j, e) \subseteq Nat /\ (\A y \in Occ(v, j, e) : y + Len(j.needle) <= e /\ y < e)
         /\ None \notin Occ(v, j, e)
<1>1. Len(j.needle) \in Nat \ {0}
  BY DEF IsSearch
<1>2. \A y \in Occ(v, j, e) : y \in Nat /\ y + Len(j.needle) <= e
  BY OccIs
<1>3. \A y \in Occ(v, j, e) : y < e
  BY <1>1, <1>2
<1> QED
  BY <1>2, <1>3 DEF None

(* A search that has passed everything answers with the latest. *)
LEMMA SearchEnds ==
  ASSUME NEW v \in Seq(Nat), NEW j, IsSearch(j), NEW e \in Nat, NEW x, NEW l, NEW damage,
         SoFar(v, j, e, x, l, damage), damage \/ \A y \in Occ(v, j, e) : y < x
  PROVE  EndRight(v, j, e, l, damage)
<1> DEFINE S == Occ(v, j, e)
<1>1. S \subseteq Nat /\ (\A y \in S : y <= e) /\ x \in Nat
  BY OccFacts DEF SoFar
<1>2. /\ l = None => damage \/ \A y \in S : x <= y
      /\ l # None => l \in S /\ (damage \/ \A y \in S : y < x => y <= l)
      /\ j.op = "find" => l = None
  BY DEF SoFar
<1>3. damage \/ \A y \in S : y < x
  OBVIOUS
<1> HIDE DEF S
<1>4. ASSUME ~damage, l = None PROVE S = {}
  <2>1. \A y \in S : FALSE
    BY <1>1, <1>2, <1>3, <1>4
  <2> QED BY <2>1
<1>5. ASSUME ~damage, l # None PROVE l = Max(S)
  <2>1. l \in S /\ \A y \in S : y <= l
    BY <1>2, <1>3, <1>5
  <2>2. Max(S) \in S /\ \A y \in S : y <= Max(S)
    BY <1>1, <2>1, MaxIs
  <2>3. l <= Max(S) /\ Max(S) <= l /\ l \in Nat /\ Max(S) \in Nat
    BY <1>1, <2>1, <2>2
  <2> QED BY <2>3
<1>6. IF l = None THEN S = {} \/ damage
      ELSE l \in S /\ (l = (IF j.op = "find" THEN Min(S) ELSE Max(S)) \/ damage)
  BY <1>2, <1>4, <1>5
<1> QED
  BY <1>6 DEF S, EndRight

LEMMA PastTheEnd ==
  ASSUME NEW v \in Seq(Nat), NEW j, IsSearch(j), NEW e \in Nat, NEW x, NEW l, NEW damage,
         SoFar(v, j, e, x, l, damage), e <= x
  PROVE  EndRight(v, j, e, l, damage)
<1>1. \A y \in Occ(v, j, e) : y < x
  <2>1. x \in Nat
    BY DEF SoFar
  <2> QED BY <2>1, OccFacts
<1> QED BY <1>1, SearchEnds

(* A turn shorter than the needle is the last. *)
LEMMA ShortTurn ==
  ASSUME NEW v \in Seq(Nat), NEW j, IsSearch(j), NEW e, NEW x, NEW l, NEW d, NEW damage,
         SoFar(v, j, e, x, l, damage), TurnIsRead(v, j, x, e, d, damage), Len(d) < Len(j.needle)
  PROVE  EndRight(v, j, e, l, damage)
<1> DEFINE n == Len(j.needle)
           t == Least(e - x, Step)
           S == Occ(v, j, e)
<1>1. /\ n \in Nat \ {0} /\ x \in Nat /\ e \in Nat /\ x < e /\ e <= Len(v) /\ Len(v) \in Nat
      /\ Len(d) \in Nat /\ Len(d) < n
      /\ damage \/ Len(d) = t + n - 1 \/ x + Len(d) >= Len(v)
  <2>1. Len(v) \in Nat
    OBVIOUS
  <2> QED BY <2>1 DEF TurnIsRead, IsSearch, Part
<1>2. t \in Int /\ t > 0
  BY <1>1, WindowAssumption DEF Least
<1>3. \A y \in S : y \in Nat /\ y + n <= e
  BY <1>1, OccFacts
<1> HIDE DEF n, t, S
<1>4. ASSUME ~damage, NEW y \in S PROVE y < x
  <2>1. x + Len(d) >= Len(v)
    BY <1>1, <1>2, <1>4
  <2> QED BY <1>1, <1>3, <2>1
<1> QED
  BY <1>1, <1>4, SearchEnds DEF S

(* find: the first in the turn is the first of all. *)
LEMMA FirstIsFound ==
  ASSUME NEW v \in Seq(Nat), NEW j, IsSearch(j), j.op = "find", NEW e, NEW x, NEW l, NEW d, NEW damage,
         SoFar(v, j, e, x, l, damage), TurnIsRead(v, j, x, e, d, damage),
         InsideOf(x, d, j.needle, e) # {}
  PROVE  EndRight(v, j, e, Min(InsideOf(x, d, j.needle, e)), damage)
<1> DEFINE S == Occ(v, j, e)
           inside == InsideOf(x, d, j.needle, e)
           m == Min(inside)
<1>1. x \in Nat /\ e \in Nat
  BY DEF TurnIsRead
<1>2. /\ inside \subseteq Nat
      /\ \A y \in inside : y \in S /\ x <= y
      /\ \A y \in S, z \in inside : x <= y /\ y < z => y \in inside
  BY TurnFinds
<1>3. S \subseteq Nat /\ None \notin S
  BY <1>1, OccFacts
<1>4. damage \/ \A y \in S : x <= y
  BY DEF SoFar
<1>5. m \in inside /\ \A y \in inside : m <= y
  <2> HIDE DEF inside
  <2> QED BY <1>2, MinIs DEF inside
<1> HIDE DEF S, inside, m
<1>6. ASSUME ~damage PROVE m = Min(S)
  <2>1. ASSUME NEW y \in S PROVE m <= y
    <3>1. y \in Nat /\ m \in Nat /\ x <= y
      BY <1>2, <1>3, <1>4, <1>5, <1>6
    <3>2. CASE y < m
      <4>1. y \in inside
        BY <1>2, <1>5, <3>1, <3>2
      <4> QED BY <1>5, <4>1
    <3> QED BY <3>1, <3>2
  <2>2. m \in S
    BY <1>2, <1>5
  <2>3. Min(S) \in S /\ \A y \in S : Min(S) <= y
    BY <1>3, <2>2, MinIs
  <2>4. m <= Min(S) /\ Min(S) <= m /\ m \in Nat /\ Min(S) \in Nat
    BY <1>3, <2>1, <2>2, <2>3
  <2> QED BY <2>4
<1>7. m \in S /\ m # None /\ (m = Min(S) \/ damage)
  BY <1>2, <1>3, <1>5, <1>6
<1> QED
  BY <1>7 DEF EndRight, S, m, inside

(* A turn over: find has found nothing in it, find_last takes the last. *)
LEMMA TurnIsOver ==
  ASSUME NEW v \in Seq(Nat), NEW j, IsSearch(j), NEW e, NEW x, NEW l, NEW d, NEW damage,
         SoFar(v, j, e, x, l, damage), TurnIsRead(v, j, x, e, d, damage),
         j.op = "find" => InsideOf(x, d, j.needle, e) = {},
         NEW z, z = x + Step
  PROVE  SoFar(v, j, e, z, IF InsideOf(x, d, j.needle, e) = {} THEN l ELSE Max(InsideOf(x, d, j.needle, e)), damage)
<1> DEFINE S == Occ(v, j, e)
           inside == InsideOf(x, d, j.needle, e)
           m == Max(inside)
<1>1. x \in Nat /\ e \in Nat /\ j.start <= x /\ j.start \in Nat /\ Step \in Nat
  BY WindowAssumption DEF TurnIsRead, IsSearch
<1>2. /\ inside \subseteq Nat
      /\ \A y \in inside : y \in S /\ x <= y /\ y < x + Step
      /\ damage \/ \A y \in S : x <= y /\ y < x + Step => y \in inside
  BY TurnFinds
<1>3. S \subseteq Nat /\ None \notin S
  BY <1>1, OccFacts
<1>4. /\ l = None => damage \/ \A y \in S : x <= y
      /\ l # None => l \in S /\ (damage \/ \A y \in S : y < x => y <= l)
      /\ j.op = "find" => l = None
  BY DEF SoFar
<1>5. inside # {} => m \in inside /\ \A y \in inside : y <= m
  <2> DEFINE b == x + Step
  <2>1. b \in Nat /\ \A y \in inside : y <= b
    BY <1>1, <1>2
  <2> HIDE DEF inside, b
  <2> QED BY <1>2, <2>1, MaxIs
<1>6. j.op = "find" => inside = {}
  OBVIOUS
<1> HIDE DEF S, inside, m
<1>7. z \in Nat /\ j.start <= z
  BY <1>1
<1>8. CASE inside = {}
  <2>1. damage \/ \A y \in S : x <= y => z <= y
    <3> SUFFICES ASSUME ~damage, NEW y \in S, x <= y PROVE z <= y
      OBVIOUS
    <3>1. ~(x <= y /\ y < x + Step)
      BY <1>2, <1>8
    <3> QED BY <1>1, <1>3, <3>1
  <2>2. l = None => damage \/ \A y \in S : z <= y
    BY <1>4, <2>1
  <2>3. damage \/ \A y \in S : y < z => y < x
    BY <1>1, <1>3, <1>7, <2>1
  <2>4. l # None => l \in S /\ (damage \/ \A y \in S : y < z => y <= l)
    BY <1>4, <2>3
  <2>5. SoFar(v, j, e, z, l, damage)
    BY <1>4, <1>7, <2>2, <2>4 DEF SoFar, S
  <2> QED BY <1>8, <2>5 DEF inside
<1>9. CASE inside # {}
  <2>1. m \in inside /\ m \in S /\ m \in Nat /\ m # None /\ x <= m
    BY <1>2, <1>3, <1>5, <1>9
  <2>2. ASSUME ~damage, NEW y \in S, y < z PROVE y <= m
    <3>1. CASE y < x
      BY <1>1, <1>3, <2>1, <3>1
    <3>2. CASE ~(y < x)
      <4>1. y \in inside
        BY <1>1, <1>2, <1>3, <2>2, <3>2
      <4> QED BY <1>5, <1>9, <4>1
    <3> QED BY <3>1, <3>2
  <2>3. SoFar(v, j, e, z, m, damage)
    BY <1>6, <1>7, <1>9, <2>1, <2>2 DEF SoFar, S
  <2> QED BY <1>9, <2>3 DEF m, inside
<1> QED
  BY <1>8, <1>9

-----------------------------------------------------------------------------
(* What an answer to a read of n bytes has of the media from x on: all of   *)
(* them, or up to the end, unless there is damage.                         *)
AnswersWith(s, x, n, bytes) ==
  /\ Part(bytes, s.plain, x) /\ Len(bytes) <= n
  /\ Damaged(s) \/ Len(bytes) = n \/ x + Len(bytes) = s.size

(* The bytes from x on that a block has: a block of them, or up to the end *)
(* of the source, unless there is damage.                                  *)
IsBlock(s, x, bytes) ==
  /\ Part(bytes, s.plain, x) /\ Len(bytes) <= Block
  /\ Damaged(s) \/ Len(bytes) = Block \/ x + Len(bytes) = s.size

LEMMA AnswerIsPart ==
  ASSUME NEW s \in Sources, s = source, NEW x \in Nat, x <= s.size, NEW n \in Nat, NEW a, a.off = x, a.want = n,
         NEW d \in Seq(Nat), a.data = d, M!Right(a)
  PROVE  AnswersWith(s, x, n, d)
<1> DEFINE p == s.plain
           e == IF x + n < Len(p) THEN x + n ELSE Len(p)
           m == e - x
           slice == SubSeq(p, x + 1, e)
<1>1. p \in Seq(Nat) /\ Len(p) = s.size /\ s.size \in Nat /\ Contents(source) = p
  BY SourceFacts DEF Contents
<1>2. d = slice \/ (Damaged(s) /\ M!IsPrefix(d, slice))
  BY <1>1 DEF M!Right, M!Slice
<1>3. m \in Nat /\ e = x + m /\ x + m <= Len(p) /\ m <= n /\ (m = n \/ x + m = Len(p)) /\ m \in Int
  BY <1>1
<1> HIDE DEF p, e, m
<1>4. Part(slice, p, x) /\ Len(slice) = m
  BY ZenonT(40), <1>1, <1>3, SubSeqIsPart
<1> HIDE DEF slice
<1>5. CASE d = slice
  BY <1>1, <1>3, <1>4, <1>5 DEF AnswersWith, p
<1>6. CASE Damaged(s) /\ M!IsPrefix(d, slice)
  <2> DEFINE k == Len(d)
  <2>1. k \in Nat /\ k <= Len(slice) /\ SubSeq(d, 1, k) = SubSeq(slice, 1, k)
    BY <1>6 DEF M!IsPrefix
  <2>2. SubSeq(d, 1, k) = d
    BY SubSeqFull
  <2> HIDE DEF k
  <2>3. /\ 0 \in Nat /\ 0 + k <= Len(slice) /\ k = 0 + k /\ x = x + 0 /\ 1 = 0 + 1
    BY <2>1
  <2>4. IsCut(SubSeq(slice, 1, k), p, x, k)
    BY <1>1, <1>4, <2>1, <2>3, CutIs
  <2>6. SubSeq(slice, 1, k) = d
    BY <2>1, <2>2
  <2>7. Part(d, p, x)
    BY <2>4, <2>6 DEF IsCut
  <2>8. Len(d) <= n
    BY <1>1, <1>3, <1>4, <2>1 DEF k
  <2>5. Part(d, p, x) /\ Len(d) <= n
    BY <2>7, <2>8
  <2> QED BY <1>6, <2>5 DEF AnswersWith, p
<1> QED
  BY <1>2, <1>5, <1>6

LEMMA AnswerIsBlock ==
  ASSUME NEW s \in Sources, s = source, NEW x \in Nat, x <= s.size, NEW a, a.off = x, a.want = Block,
         NEW d \in Seq(Nat), a.data = d, M!Right(a)
  PROVE  IsBlock(s, x, d)
<1>1. Block \in Nat
  BY WindowAssumption
<1> QED
  BY <1>1, AnswerIsPart DEF AnswersWith, IsBlock

(* One turn of the loop of read: what the block has, from the position on. *)
Has(c, take, n, s, v, y) ==
  /\ take \in Int /\ take <= n
  /\ take <= 0 => Damaged(s)
  /\ take > 0 => Part(c, v, y) /\ Len(c) = take

LEMMA BlockGives ==
  ASSUME NEW s \in Sources, NEW b, NEW l, Lies(s, b, l), NEW y \in Nat, NEW n \in Nat \ {0}, y + n <= l,
         NEW q \in Nat, NEW rel \in Nat, rel < Block, y = q + rel,
         NEW x, x = b + q, NEW d, IsBlock(s, x, d), NEW take, take = Least(n, Len(d) - rel),
         NEW c, c = SubSeq(d, rel + 1, rel + take)
  PROVE  Has(c, take, n, s, Shown(s, b, l), y)
<1>1. Block \in Nat \ {0} /\ b \in Nat /\ l \in Nat /\ b + l <= s.size /\ s.size \in Nat /\ s.plain \in Seq(Nat)
  <2>1. Block \in Nat \ {0} /\ s.size \in Nat /\ s.plain \in Seq(Nat)
    BY SourceFacts, WindowAssumption
  <2> QED BY <2>1 DEF Lies
<1>3. Part(d, s.plain, x) /\ Len(d) \in Nat /\ Len(d) <= Block /\ (Damaged(s) \/ Len(d) = Block \/ x + Len(d) = s.size)
  <2>1. Part(d, s.plain, x) /\ Len(d) <= Block /\ (Damaged(s) \/ Len(d) = Block \/ x + Len(d) = s.size)
    BY DEF IsBlock
  <2>2. Len(d) \in Nat
    BY <2>1 DEF Part
  <2> QED BY <2>1, <2>2
<1>4. take \in Int /\ take <= n /\ take <= Len(d) - rel /\ (take = n \/ take = Len(d) - rel)
  BY <1>3 DEF Least
<1>5. ASSUME take <= 0 PROVE Damaged(s)
  <2> DEFINE z == Len(d)
  <2>1. z \in Nat /\ take = z - rel
    BY <1>3, <1>4, <1>5
  <2>2. Damaged(s) \/ z = Block \/ x + z = s.size
    BY <1>3
  <2> HIDE DEF z
  <2>3. z <= rel
    BY <1>5, <2>1
  <2>4. z # Block
    BY <1>1, <2>1, <2>3
  <2>5. x + z # s.size
    <3>1. x + z <= x + rel /\ x + rel < s.size
      BY SMTT(30), <1>1, <2>1, <2>3
    <3> QED BY <1>1, <2>1, <3>1
  <2> QED BY <2>2, <2>4, <2>5
<1>6. ASSUME take > 0
      PROVE  Part(c, Shown(s, b, l), y) /\ Len(c) = take
  <2>1. take \in Nat /\ rel + take <= Len(d) /\ x \in Nat /\ x + rel = b + y /\ y + take <= l
    <3>0. l \in Int /\ take \in Int /\ take <= n /\ take > 0
      BY <1>1, <1>4, <1>6
    <3>4. take \in Nat
      BY <3>0
    <3>1. take \in Nat /\ y + take <= l
      BY <3>0, <3>4
    <3>2. rel + take <= Len(d)
      BY <1>3, <1>4, <3>1
    <3>3. x \in Nat /\ x + rel = b + y
      BY <1>1
    <3> QED BY <3>1, <3>2, <3>3
  <2>2. Part(c, s.plain, x + rel) /\ Len(c) = take
    <3> DEFINE p == s.plain
               u == rel + 1
               w == rel + take
               z == x + rel
    <3>1. p \in Seq(Nat) /\ Part(d, p, x)
      BY <1>1, <1>3
    <3>2. u = rel + 1 /\ w = rel + take /\ z = x + rel
      OBVIOUS
    <3> HIDE DEF p, u, w, z
    <3>3. IsCut(SubSeq(d, u, w), p, z, take)
      BY <2>1, <3>1, <3>2, CutIs
    <3>4. SubSeq(d, u, w) = c
      BY <3>2
    <3> QED BY <3>2, <3>3, <3>4 DEF IsCut, p
  <2>4. b + y = x + rel /\ y + Len(c) <= l
    BY <2>1, <2>2
  <2>3. Part(c, Shown(s, b, l), y)
    BY <2>2, <2>4, PartIsShown
  <2> QED BY <2>2, <2>3
<1> QED
  BY <1>4, <1>5, <1>6 DEF Has

-----------------------------------------------------------------------------
(* The blocks that are kept are blocks of the source, none of them twice. *)
BlockAt(b, i) == b + i * Block

BlocksOk(s, b, o, bl) ==
  /\ o \in Seq(Nat)
  /\ \A k, m \in 1..Len(o) : o[k] = o[m] => k = m
  /\ \A k \in 1..Len(o) : o[k] \in DOMAIN bl /\ IsBlock(s, BlockAt(b, o[k]), bl[o[k]])

LEMMA NoBlocks ==
  ASSUME NEW s, NEW b, NEW o, o = <<>>, NEW bl
  PROVE  BlocksOk(s, b, o, bl)
<1>1. o \in Seq(Nat) /\ 1..Len(o) = {}
  OBVIOUS
<1> QED
  BY <1>1 DEF BlocksOk

LEMMA KeptIs ==
  ASSUME NEW s, NEW b, NEW o, NEW bl, BlocksOk(s, b, o, bl), NEW i \in ToSet(o)
  PROVE  IsBlock(s, BlockAt(b, i), bl[i])
<1>1. PICK k \in DOMAIN o : i = o[k]
  BY DEF ToSet
<1>2. k \in 1..Len(o)
  BY <1>1 DEF BlocksOk
<1> QED
  BY <1>1, <1>2 DEF BlocksOk

LEMMA TailIs ==
  ASSUME NEW o \in Seq(Nat), o # <<>>
  PROVE  /\ Tail(o) \in Seq(Nat) /\ Head(o) = o[1] /\ 1 \in 1..Len(o)
         /\ \A k \in 1..Len(Tail(o)) : k + 1 \in 1..Len(o) /\ k + 1 # 1 /\ Tail(o)[k] = o[k + 1]
OBVIOUS

Adds(p, r, i) ==
  /\ p \in Seq(Nat)
  /\ \A k \in 1..Len(p) : (k \in 1..Len(r) /\ p[k] = r[k]) \/ (k = Len(p) /\ p[k] = i)

LEMMA AppendIs ==
  ASSUME NEW r \in Seq(Nat), NEW i \in Nat, NEW p, p = Append(r, i)
  PROVE  Adds(p, r, i)
<1>1. p \in Seq(Nat) /\ Len(p) = Len(r) + 1 /\ Len(r) \in Nat
  OBVIOUS
<1>2. \A k \in 1..Len(r) : p[k] = r[k]
  OBVIOUS
<1>3. p[Len(r) + 1] = i
  OBVIOUS
<1>4. \A k \in 1..Len(p) : k \in 1..Len(r) \/ k = Len(p)
  BY <1>1
<1> QED
  BY <1>1, <1>2, <1>3, <1>4 DEF Adds

(* A block takes the place of the oldest, if there are too many. *)
Replaces(o, bl, i, d, full, p, cl) ==
  LET gone == IF full THEN {Head(o)} ELSE {}
  IN  /\ i \in Nat /\ i \notin ToSet(o) /\ full \in BOOLEAN /\ (full => o # <<>>)
      /\ p = Append(IF full THEN Tail(o) ELSE o, i)
      /\ DOMAIN cl = (DOMAIN bl \ gone) \cup {i} /\ cl[i] = d
      /\ \A k \in DOMAIN cl : k # i => cl[k] = bl[k]

LEMMA BlockIsKept ==
  ASSUME NEW s, NEW b, NEW o, NEW bl, BlocksOk(s, b, o, bl),
         NEW i, NEW d, IsBlock(s, BlockAt(b, i), d), NEW full, NEW p, NEW cl, Replaces(o, bl, i, d, full, p, cl)
  PROVE  BlocksOk(s, b, p, cl)
<1> DEFINE gone == IF full THEN {Head(o)} ELSE {}
<1>0. /\ i \in Nat /\ i \notin ToSet(o) /\ full \in BOOLEAN /\ (full => o # <<>>)
      /\ p = Append(IF full THEN Tail(o) ELSE o, i)
      /\ DOMAIN cl = (DOMAIN bl \ gone) \cup {i} /\ cl[i] = d
      /\ \A k \in DOMAIN cl : k # i => cl[k] = bl[k]
  BY DEF Replaces
<1>1. /\ o \in Seq(Nat) /\ Len(o) \in Nat
      /\ \A k, m \in 1..Len(o) : o[k] = o[m] => k = m
      /\ \A k \in 1..Len(o) : o[k] \in DOMAIN bl /\ IsBlock(s, BlockAt(b, o[k]), bl[o[k]])
  BY DEF BlocksOk
<1>2. \A k \in 1..Len(o) : o[k] # i
  BY <1>0, <1>1 DEF ToSet
<1> DEFINE r == IF full THEN Tail(o) ELSE o
<1>3. /\ r \in Seq(Nat) /\ Len(r) \in Nat
      /\ \A k, m \in 1..Len(r) : r[k] = r[m] => k = m
      /\ \A k \in 1..Len(r) : \E m \in 1..Len(o) : r[k] = o[m] /\ o[m] \notin gone
  <2>1. CASE ~full
    BY <1>1, <2>1
  <2>2. CASE full
    <3>0. o # <<>> /\ gone = {Head(o)}
      BY <1>0, <2>2
    <3>1. r = Tail(o) /\ gone = {o[1]}
      BY <1>1, <2>2, <3>0, TailIs
    <3> HIDE DEF r
    <3>2. r \in Seq(Nat) /\ Len(r) \in Nat /\ 1 \in 1..Len(o)
      BY <1>1, <3>0, <3>1, TailIs
    <3>3. \A k \in 1..Len(r) : r[k] = o[k + 1] /\ k + 1 \in 1..Len(o) /\ k + 1 # 1
      BY <1>1, <3>0, <3>1, TailIs
    <3>4. \A k, m \in 1..Len(r) : r[k] = r[m] => k = m
      <4> TAKE k, m \in 1..Len(r)
      <4>1. r[k] = r[m] => k + 1 = m + 1
        BY <1>1, <3>3
      <4> QED BY <4>1
    <3>5. ASSUME NEW k \in 1..Len(r) PROVE \E m \in 1..Len(o) : r[k] = o[m] /\ o[m] \notin gone
      <4>1. o[k + 1] # o[1]
        BY <1>1, <3>2, <3>3
      <4> QED BY <3>1, <3>3, <4>1
    <3> QED BY <3>2, <3>3, <3>4, <3>5
  <2> QED BY <1>0, <2>1, <2>2
<1>4. p = Append(r, i)
  BY <1>0
<1> HIDE DEF r, gone
<1>5. /\ p \in Seq(Nat)
      /\ \A k \in 1..Len(p) : (k \in 1..Len(r) /\ p[k] = r[k]) \/ (k = Len(p) /\ p[k] = i)
  <2>1. Adds(p, r, i)
    BY <1>0, <1>3, <1>4, AppendIs
  <2> QED BY <2>1 DEF Adds
<1>6. \A k \in 1..Len(r) : r[k] # i
  BY <1>2, <1>3
<1>7. \A k, m \in 1..Len(p) : p[k] = p[m] => k = m
  <2> TAKE k, m \in 1..Len(p)
  <2>1. (k \in 1..Len(r) /\ p[k] = r[k]) \/ (k = Len(p) /\ p[k] = i)
    BY <1>5
  <2>2. (m \in 1..Len(r) /\ p[m] = r[m]) \/ (m = Len(p) /\ p[m] = i)
    BY <1>5
  <2> QED BY <1>3, <1>6, <2>1, <2>2
<1>8. ASSUME NEW k \in 1..Len(p) PROVE p[k] \in DOMAIN cl /\ IsBlock(s, BlockAt(b, p[k]), cl[p[k]])
  <2>1. CASE p[k] = i
    <3>1. i \in DOMAIN cl /\ cl[i] = d
      BY <1>0
    <3> QED BY <2>1, <3>1
  <2>2. CASE k \in 1..Len(r) /\ p[k] = r[k]
    <3>1. PICK m \in 1..Len(o) : p[k] = o[m] /\ o[m] \notin gone
      BY <1>3, <2>2
    <3>2. p[k] \in DOMAIN bl \ gone /\ p[k] # i /\ IsBlock(s, BlockAt(b, p[k]), bl[p[k]])
      BY <1>1, <1>2, <3>1
    <3>3. p[k] \in DOMAIN cl /\ cl[p[k]] = bl[p[k]]
      BY <1>0, <3>2
    <3> QED BY <3>2, <3>3
  <2> QED BY <1>5, <2>1, <2>2
<1> QED
  BY <1>5, <1>7, <1>8 DEF BlocksOk

-----------------------------------------------------------------------------
(* A read from x on for up to n bytes that has d, with g still to come. *)
ReadingOk(s, b, l, x, n, g, d) ==
  /\ d \in Seq(Nat) /\ (d = <<>> \/ Part(d, Shown(s, b, l), x))
  /\ g.n \in Nat /\ Len(d) + g.n <= n
  /\ g.n > 0 => g.pos = x + Len(d) /\ g.pos + g.n <= l
  /\ Damaged(s) \/ Len(d) + g.n = n \/ x + Len(d) + g.n >= l

LEMMA ReadBegins ==
  ASSUME NEW s, NEW b, NEW l \in Nat, NEW x \in Nat, NEW n \in Nat, NEW g,
         g = IF x >= l THEN NoGet ELSE [pos |-> x, n |-> Least(n, l - x)]
  PROVE  ReadingOk(s, b, l, x, n, g, <<>>)
<1>1. <<>> \in Seq(Nat) /\ Len(<<>>) = 0
  OBVIOUS
<1>2. CASE x >= l
  <2>1. g.n = 0
    BY <1>2 DEF NoGet
  <2> QED BY <1>1, <1>2, <2>1 DEF ReadingOk
<1>3. CASE ~(x >= l)
  <2> DEFINE m == Least(n, l - x)
  <2>1. m \in Nat /\ m <= n /\ x + m <= l /\ (m = n \/ x + m >= l)
    BY <1>3 DEF Least
  <2> HIDE DEF m
  <2>2. g.n = m /\ g.pos = x
    BY <1>3 DEF m
  <2> QED BY <1>1, <2>1, <2>2 DEF ReadingOk
<1> QED
  BY <1>2, <1>3

(* What is over has what was asked for, up to the end, unless there is damage. *)
LEMMA ReadEnds ==
  ASSUME NEW s \in Sources, NEW b, NEW l, Lies(s, b, l), NEW x \in Nat, NEW n \in Nat, NEW g, NEW d,
         ReadingOk(s, b, l, x, n, g, d), g.n = 0
  PROVE  \/ d = M!Slice(Shown(s, b, l), x, n)
         \/ Damaged(s) /\ IsPrefix(d, M!Slice(Shown(s, b, l), x, n))
<1> DEFINE v == Shown(s, b, l)
<1>1. v \in Seq(Nat) /\ Len(v) = l /\ l \in Nat
  BY ShownIs DEF IsShown, Lies
<1>2. d \in Seq(Nat) /\ Len(d) \in Nat
  BY DEF ReadingOk
<1>3. /\ d = <<>> \/ Part(d, v, x)
      /\ Len(d) + g.n <= n /\ (Damaged(s) \/ Len(d) + g.n = n \/ x + Len(d) + g.n >= l)
  BY DEF ReadingOk
<1> HIDE DEF v
<1>4. Len(d) <= n /\ (Damaged(s) \/ Len(d) = n \/ x + Len(d) >= Len(v))
  BY <1>1, <1>2, <1>3
<1>5. /\ Len(d) = n \/ x + Len(d) >= Len(v) => d = M!Slice(v, x, n)
      /\ IsPrefix(d, M!Slice(v, x, n))
  BY <1>1, <1>2, <1>3, <1>4, PartIsSlice
<1> QED
  BY <1>4, <1>5 DEF v

(* One turn of the loop: what the block has is taken, or it has nothing. *)
Took(s, b, l, x, n, g, d, have, h, e) ==
  LET rel  == g.pos % Block
      take == Least(g.n, Len(have) - rel)
  IN  IF take <= 0 THEN h = [g EXCEPT !.n = 0] /\ e = d
      ELSE /\ e = d \o SubSeq(have, rel + 1, rel + take)
           /\ h = [pos |-> g.pos + take, n |-> g.n - take]

GetOk(g) == g \in [pos : Nat, n : Nat]

LEMMA PosIsInBlock ==
  ASSUME NEW y \in Nat
  PROVE  \E q, rel \in Nat : rel < Block /\ y = q + rel /\ rel = y % Block /\ q = (y \div Block) * Block
<1> DEFINE q == (y \div Block) * Block
           rel == y % Block
<1>1. Block \in Nat \ {0}
  BY WindowAssumption
<1>2. y \div Block \in Nat /\ rel \in Nat /\ rel < Block /\ y = q + rel
  BY <1>1, DivMod
<1>3. q \in Nat
  BY <1>1, <1>2, Times
<1> QED
  BY <1>2, <1>3

LEMMA TakeGoesOn ==
  ASSUME NEW s \in Sources, NEW b, NEW l, Lies(s, b, l), NEW x \in Nat, NEW n \in Nat, NEW g, NEW d,
         ReadingOk(s, b, l, x, n, g, d), GetOk(g), g.n > 0,
         NEW have, IsBlock(s, BlockAt(b, g.pos \div Block), have), NEW h, NEW e,
         Took(s, b, l, x, n, g, d, have, h, e)
  PROVE  ReadingOk(s, b, l, x, n, h, e) /\ GetOk(h)
<1> DEFINE v == Shown(s, b, l)
<1>1. g.pos \in Nat /\ g.n \in Nat \ {0}
  BY DEF GetOk
<1> DEFINE q == (g.pos \div Block) * Block
           rel == g.pos % Block
           y == b + q
           take == Least(g.n, Len(have) - rel)
           c == SubSeq(have, rel + 1, rel + take)
<1>2. q \in Nat /\ rel \in Nat /\ rel < Block /\ g.pos = q + rel
  BY <1>1, PosIsInBlock
<1>4. IsBlock(s, y, have)
  BY DEF BlockAt
<1>5. IF take <= 0 THEN h = [g EXCEPT !.n = 0] /\ e = d
      ELSE e = d \o c /\ h = [pos |-> g.pos + take, n |-> g.n - take]
  BY DEF Took
<1> HIDE DEF q
<1>6. /\ d \in Seq(Nat) /\ (d = <<>> \/ Part(d, v, x))
      /\ Len(d) + g.n <= n
      /\ g.pos = x + Len(d) /\ g.pos + g.n <= l
      /\ Damaged(s) \/ Len(d) + g.n = n \/ x + Len(d) + g.n >= l
  BY <1>1 DEF ReadingOk
<1>7. Len(d) \in Nat /\ l \in Nat /\ v \in Seq(Nat) /\ Len(v) = l
  <2>1. Len(d) \in Nat
    BY <1>6
  <2>2. l \in Nat
    BY DEF Lies
  <2> QED BY <2>1, <2>2, ShownIs DEF IsShown
<1>8. Has(c, take, g.n, s, v, g.pos)
  <2> DEFINE m == g.n
             z == g.pos
  <2>1. z \in Nat /\ m \in Nat \ {0} /\ z + m <= l /\ z = q + rel
    BY <1>1, <1>2, <1>6
  <2>2. /\ y = b + q /\ take = Least(m, Len(have) - rel) /\ rel \in Nat /\ rel < Block
        /\ c = SubSeq(have, rel + 1, rel + take)
    BY <1>2
  <2> HIDE DEF m, z, y, take, c, rel
  <2>3. Has(c, take, m, s, Shown(s, b, l), z)
    BY <1>2, <1>4, <2>1, <2>2, BlockGives
  <2> QED BY <2>3 DEF m, z
<1> HIDE DEF take, c, y, v, rel
<1>11. /\ take \in Int /\ take <= g.n
       /\ take <= 0 => Damaged(s)
       /\ take > 0 => Part(c, v, g.pos) /\ Len(c) = take
  BY <1>8 DEF Has
<1>9. CASE take <= 0
  <2>1. h = [g EXCEPT !.n = 0] /\ e = d /\ Damaged(s)
    BY <1>5, <1>9, <1>11
  <2>2. h.n = 0 /\ h.pos = g.pos /\ GetOk(h)
    BY <2>1 DEF GetOk
  <2>3. Len(d) + 0 <= n
    BY <1>1, <1>6, <1>7
  <2> QED BY <1>6, <2>1, <2>2, <2>3 DEF ReadingOk, v
<1>10. CASE take > 0
  <2>1. e = d \o c /\ h = [pos |-> g.pos + take, n |-> g.n - take] /\ Part(c, v, g.pos) /\ Len(c) = take
    BY <1>5, <1>10, <1>11
  <2>2. take \in Nat /\ g.n - take \in Nat /\ g.pos + take \in Nat
    BY <1>1, <1>10, <1>11
  <2>3. h.n = g.n - take /\ h.pos = g.pos + take /\ GetOk(h)
    BY <2>1, <2>2 DEF GetOk
  <2>4. c \in Seq(Nat)
    BY <2>1 DEF Part
  <2>5. e \in Seq(Nat) /\ Len(e) = Len(d) + take
    <3>1. d \in Seq(Nat) /\ c \in Seq(Nat) /\ e = d \o c
      BY <1>6, <2>1, <2>4
    <3>2. e \in Seq(Nat) /\ Len(e) = Len(d) + Len(c)
      BY <3>1
    <3> QED BY <2>1, <3>2
  <2>6. Part(e, v, x)
    <3>1. CASE d = <<>>
      <4>1. e = c /\ g.pos = x
        BY <1>6, <2>1, <2>4, <3>1
      <4> QED BY <2>1, <4>1
    <3>2. CASE Part(d, v, x)
      <4> DEFINE z == g.pos
      <4>1. z = x + Len(d) /\ Part(c, v, z)
        BY <1>6, <2>1
      <4> HIDE DEF z
      <4>2. Part(d \o c, v, x)
        BY <1>7, <3>2, <4>1, PartsJoin
      <4> QED BY <2>1, <4>2
    <3> QED BY <1>6, <3>1, <3>2
  <2>7. /\ Len(e) + h.n = Len(d) + g.n /\ h.pos = x + Len(e) /\ h.pos + h.n = g.pos + g.n
        /\ x + Len(e) + h.n = x + Len(d) + g.n /\ h.n \in Nat
    <3> DEFINE m == g.n
               z == g.pos
               o == Len(d)
    <3>1. m \in Nat /\ z \in Nat /\ o \in Nat /\ z = x + o /\ m - take \in Nat
      BY <1>1, <1>6, <1>7, <2>2
    <3>2. h.n = m - take /\ h.pos = z + take /\ Len(e) = o + take
      BY <2>3, <2>5
    <3> HIDE DEF m, z, o
    <3>3. /\ Len(e) + h.n = o + m /\ h.pos = x + Len(e) /\ h.pos + h.n = z + m
          /\ x + Len(e) + h.n = x + o + m /\ h.n \in Nat
      BY <1>11, <2>2, <3>1, <3>2
    <3> QED BY <3>3 DEF m, z, o
  <2>8. Len(e) + h.n <= n /\ (h.n > 0 => h.pos = x + Len(e) /\ h.pos + h.n <= l)
    BY <1>6, <2>7
  <2>9. Damaged(s) \/ Len(e) + h.n = n \/ x + Len(e) + h.n >= l
    BY <1>6, <2>7
  <2> QED BY <2>3, <2>5, <2>6, <2>7, <2>8, <2>9 DEF ReadingOk, v
<1> QED
  BY <1>9, <1>10, <1>11

-----------------------------------------------------------------------------
(* The jobs. *)
EndIn(j, l) == IF j.end = NoEnd THEN l ELSE Least(j.end, l)

FromOf(j, x) == IF j.op = "read" THEN j.pos ELSE x

AskedOf(j, x, l) ==
  IF j.op = "read" THEN j.n ELSE Least(EndIn(j, l) - x, Step) + Len(j.needle) - 1

LEMMA JobFacts ==
  ASSUME NEW j \in Jobs
  PROVE  /\ j.op = "read" => j.pos \in Nat /\ j.n \in Nat
         /\ j.op # "read" => IsSearch(j) /\ j.end \in Nat \cup {NoEnd}
         /\ j.op # "none"
<1>1. \/ j.op = "read" /\ j.pos \in Nat /\ j.n \in Nat
      \/ /\ j.op \in {"find", "find_last"}
         /\ j.needle \in Seq(Nat) \ {<<>>} /\ j.start \in Nat /\ j.end \in Nat \cup {NoEnd}
  BY JobsAssumption
<1>2. CASE j.op = "read" /\ j.pos \in Nat /\ j.n \in Nat
  BY <1>2
<1>3. CASE /\ j.op \in {"find", "find_last"}
           /\ j.needle \in Seq(Nat) \ {<<>>} /\ j.start \in Nat /\ j.end \in Nat \cup {NoEnd}
  <2>1. Len(j.needle) \in Nat \ {0}
    BY <1>3
  <2>2. j.op # "read" /\ j.op # "none"
    BY <1>3
  <2> QED BY <1>3, <2>1, <2>2 DEF IsSearch
<1> QED
  BY <1>1, <1>2, <1>3

LEMMA EndFacts ==
  ASSUME NEW j \in Jobs, j.op # "read", NEW l \in Nat
  PROVE  EndIn(j, l) \in Nat /\ EndIn(j, l) <= l
<1>1. j.end \in Nat \/ j.end = NoEnd
  BY JobFacts
<1> QED
  BY <1>1 DEF EndIn, Least

(* A search that is at x. *)
Searching(s, b, l, j, x, la) == SoFar(Shown(s, b, l), j, EndIn(j, l), x, la, Damaged(s))

LEMMA SearchBegins ==
  ASSUME NEW s \in Sources, NEW b, NEW l, Lies(s, b, l), NEW j \in Jobs, j.op # "read",
         NEW x, x = j.start, NEW la, la = None
  PROVE  Searching(s, b, l, j, x, la)
<1> DEFINE v == Shown(s, b, l)
           e == EndIn(j, l)
<1>1. v \in Seq(Nat) /\ e \in Nat /\ IsSearch(j)
  BY ShownIs, EndFacts, JobFacts DEF IsShown, Lies
<1> HIDE DEF v, e
<1>2. \A y \in Occ(v, j, e) : x <= y
  BY <1>1, OccIs
<1>3. SoFar(v, j, e, x, la, Damaged(s))
  BY <1>1, <1>2 DEF SoFar, IsSearch
<1> QED
  BY <1>3 DEF Searching, v, e

LEMMA AskedIs ==
  ASSUME NEW j \in Jobs, NEW l \in Nat, NEW x, j.op # "read" => x \in Nat /\ x < EndIn(j, l)
  PROVE  AskedOf(j, x, l) \in Nat /\ FromOf(j, x) \in Nat
<1>1. CASE j.op = "read"
  BY <1>1, JobFacts DEF AskedOf, FromOf
<1>2. CASE j.op # "read"
  <2> DEFINE e == EndIn(j, l)
             k == Len(j.needle)
             t == Least(e - x, Step)
  <2>1. e \in Nat /\ x \in Nat /\ x < e
    BY <1>2, EndFacts
  <2>2. k \in Nat \ {0}
    BY <1>2, JobFacts DEF IsSearch
  <2>3. t \in Nat
    BY <2>1, WindowAssumption DEF Least
  <2>4. AskedOf(j, x, l) = t + k - 1 /\ FromOf(j, x) = x
    BY <1>2 DEF AskedOf, FromOf
  <2> HIDE DEF e, k, t
  <2> QED BY <2>1, <2>2, <2>3, <2>4
<1> QED
  BY <1>1, <1>2

(* When a turn of a search has been read. *)
LEMMA TurnIsOk ==
  ASSUME NEW s \in Sources, NEW b, NEW l, Lies(s, b, l), NEW j \in Jobs, j.op # "read", NEW x, NEW la,
         Searching(s, b, l, j, x, la), x < EndIn(j, l), NEW g, NEW d,
         ReadingOk(s, b, l, FromOf(j, x), AskedOf(j, x, l), g, d), g.n = 0
  PROVE  TurnIsRead(Shown(s, b, l), j, x, EndIn(j, l), d, Damaged(s))
<1> DEFINE v == Shown(s, b, l)
           e == EndIn(j, l)
           n == Least(e - x, Step) + Len(j.needle) - 1
<1>1. v \in Seq(Nat) /\ Len(v) = l /\ l \in Nat /\ e \in Nat /\ e <= l
  <2>1. v \in Seq(Nat) /\ Len(v) = l
    BY ShownIs DEF IsShown
  <2>2. l \in Nat
    BY DEF Lies
  <2> QED BY <2>1, <2>2, EndFacts
<1>2. x \in Nat /\ j.start <= x /\ x < e
  BY DEF Searching, SoFar
<1>3. FromOf(j, x) = x /\ AskedOf(j, x, l) = n
  BY DEF FromOf, AskedOf
<1>4. /\ d \in Seq(Nat) /\ (d = <<>> \/ Part(d, v, x))
      /\ Len(d) + g.n <= n
      /\ Damaged(s) \/ Len(d) + g.n = n \/ x + Len(d) + g.n >= l
  BY <1>3 DEF ReadingOk
<1> HIDE DEF v, e, n
<1>5. Len(d) \in Nat
  BY <1>4
<1>6. Len(d) <= n /\ (Damaged(s) \/ Len(d) = n \/ x + Len(d) >= Len(v))
  <2>1. Len(d) + g.n = Len(d) /\ x + Len(d) + g.n = x + Len(d)
    BY <1>2, <1>5
  <2> QED BY <1>1, <1>4, <2>1
<1>7. Part(d, v, x)
  <2>1. CASE d = <<>>
    <3>1. d \in Seq(Nat) /\ x + 0 <= Len(v) /\ Len(d) = 0
      BY <1>1, <1>2, <2>1
    <3> QED BY <1>2, <3>1 DEF Part
  <2> QED BY <1>4, <2>1
<1>8. TurnIsRead(v, j, x, e, d, Damaged(s))
  BY <1>1, <1>2, <1>6, <1>7 DEF TurnIsRead, n
<1> QED
  BY <1>8 DEF v, e

(* What a job should answer. *)
Answered(s, b, l, j, r) ==
  IF j.op = "none" THEN TRUE
  ELSE IF j.op = "read"
    THEN \/ r = M!Slice(Shown(s, b, l), j.pos, j.n)
         \/ Damaged(s) /\ IsPrefix(r, M!Slice(Shown(s, b, l), j.pos, j.n))
    ELSE EndRight(Shown(s, b, l), j, EndIn(j, l), r, Damaged(s))

LEMMA AnswersAre ==
  /\ WindowAnswers <=> Answered(source, base, limit, result.job, result.value)
  /\ WindowAnswers' <=> Answered(source', base', limit', result'.job, result'.value)
<1>1. WindowAnswers <=> Answered(source, base, limit, result.job, result.value)
  BY DEF WindowAnswers, Answered, ReadRight, FindRight, Occurrences, Occ, View, Shown, EndOf, EndIn, EndRight
<1>2. WindowAnswers' <=> Answered(source', base', limit', result'.job, result'.value)
  BY DEF WindowAnswers, Answered, ReadRight, FindRight, Occurrences, Occ, View, Shown, EndOf, EndIn, EndRight
<1> QED
  BY <1>1, <1>2

-----------------------------------------------------------------------------
(* The window. *)
JobOk(s, b, l, ph, j, x, la) ==
  /\ ph \in {"idle", "turn", "read", "fetch"}
  /\ ph = "idle" => la = None
  /\ ph # "idle" => j \in Jobs /\ (j.op # "read" => Searching(s, b, l, j, x, la))
  /\ ph = "turn" => j.op # "read"
  /\ ph \in {"read", "fetch"} /\ j.op # "read" => x < EndIn(j, l)

(* While a block is fetched, that block is what is read, or has been. *)
FetchOk(b, c, a, g, o) ==
  /\ g.n > 0 /\ g.pos \div Block \notin ToSet(o)
  /\ IF c # NoCall THEN c.off = BlockAt(b, g.pos \div Block) /\ c.want = Block
     ELSE a.off = BlockAt(b, g.pos \div Block) /\ a.want = Block

WindowInv ==
  /\ ReaderInv
  /\ Lies(source, base, limit)
  /\ BlocksOk(source, base, order, blocks)
  /\ GetOk(get)
  /\ JobOk(source, base, limit, phase, job, at, last)
  /\ phase \in {"read", "fetch"}
       => ReadingOk(source, base, limit, FromOf(job, at), AskedOf(job, at, limit), get, got)
  /\ phase = "fetch" => FetchOk(base, call, answer, get, order)
  /\ WindowAnswers

(* A step of the reader leaves the call as it is or answers it. *)
LEMMA ReaderStepAnswers ==
  ASSUME ReaderStep
  PROVE  IF call' # NoCall THEN call' = call
         ELSE answer'.off = call.off /\ answer'.want = call.want /\ call # NoCall
<1>1. (\E d : Return(d)) \/ call' = call
  BY Zenon DEF ReaderStep, Done, RawRead, SplitRead, ClusterRead, GrainRead, ChunkRead, DecryptRead, PlainRead,
         ExtendOrReturn, Extend
<1>2. call # NoCall
  BY DEF ReaderStep, Done, RawRead, SplitRead, ClusterRead, GrainRead, ChunkRead, DecryptRead, PlainRead,
         Reading, Busy
<1>3. ASSUME NEW d, Return(d)
      PROVE  call' = NoCall /\ answer'.off = call.off /\ answer'.want = call.want
  BY <1>3 DEF Return, Answers
<1> QED
  BY SMTT(30), <1>1, <1>2, <1>3

LEMMA ReaderStepInWindow ==
  ASSUME SplitsAreWhole, WindowInv, ReaderStep, UNCHANGED windowVars
  PROVE  WindowInv'
<1>1. ReaderInv' /\ source' = source
  BY ReaderStepKeeps DEF WindowInv
<1>2. /\ base' = base /\ limit' = limit /\ order' = order /\ blocks' = blocks /\ job' = job /\ phase' = phase
      /\ at' = at /\ last' = last /\ get' = get /\ got' = got /\ result' = result
  BY DEF windowVars
<1>3. phase = "fetch" => FetchOk(base, call', answer', get, order)
  BY ReaderStepAnswers DEF WindowInv, FetchOk
<1>4. WindowAnswers'
  BY <1>1, <1>2, AnswersAre DEF WindowInv
<1> QED
  BY <1>1, <1>2, <1>3, <1>4 DEF WindowInv

LEMMA WindowStutters ==
  ASSUME WindowInv, UNCHANGED <<vars, windowVars>>
  PROVE  WindowInv'
<1>1. ReaderInv' /\ source' = source /\ call' = call /\ answer' = answer
  BY ReaderStutters DEF WindowInv, vars
<1>2. /\ base' = base /\ limit' = limit /\ order' = order /\ blocks' = blocks /\ job' = job /\ phase' = phase
      /\ at' = at /\ last' = last /\ get' = get /\ got' = got /\ result' = result
  BY DEF windowVars
<1>3. WindowAnswers'
  BY <1>1, <1>2, AnswersAre DEF WindowInv
<1> QED
  BY <1>1, <1>2, <1>3 DEF WindowInv

(* A step that leaves the source and the blocks alone. *)
LEMMA JobStepKeeps ==
  ASSUME WindowInv, UNCHANGED <<vars, base, limit, order, blocks>>, GetOk(get'), phase' # "fetch",
         JobOk(source, base, limit, phase', job', at', last'),
         phase' = "read" => ReadingOk(source, base, limit, FromOf(job', at'), AskedOf(job', at', limit), get', got'),
         Answered(source, base, limit, result'.job, result'.value)
  PROVE  WindowInv'
<1>1. ReaderInv' /\ source' = source
  BY ReaderStutters DEF WindowInv
<1>2. base' = base /\ limit' = limit /\ order' = order /\ blocks' = blocks
  OBVIOUS
<1>3. WindowAnswers'
  BY <1>1, <1>2, AnswersAre
<1> QED
  BY <1>1, <1>2, <1>3 DEF WindowInv

LEMMA FinishKeeps ==
  ASSUME WindowInv, UNCHANGED <<vars, base, limit, order, blocks>>, NEW r, Finish(r),
         Answered(source, base, limit, job, r)
  PROVE  WindowInv'
<1>1. /\ result' = [job |-> job, value |-> r]
      /\ phase' = "idle" /\ last' = None /\ get' = NoGet
  BY DEF Finish
<1>2. JobOk(source, base, limit, phase', job', at', last')
  BY <1>1 DEF JobOk
<1>3. GetOk(get')
  BY <1>1 DEF GetOk, NoGet
<1>4. Answered(source, base, limit, result'.job, result'.value)
  BY <1>1
<1> QED
  BY <1>1, <1>2, <1>3, <1>4, JobStepKeeps

LEMMA WindowFacts ==
  ASSUME WindowInv
  PROVE  source \in Sources /\ Lies(source, base, limit) /\ limit \in Nat /\ base \in Nat
<1>1. source \in Sources /\ Lies(source, base, limit)
  BY DEF WindowInv, ReaderInv
<1> QED
  BY <1>1 DEF Lies

LEMMA ReadKeeps ==
  ASSUME NEW s \in Sources, NEW b, NEW l, Lies(s, b, l), NEW x \in Nat, NEW n \in Nat, NEW g,
         g = IF x >= l THEN NoGet ELSE [pos |-> x, n |-> Least(n, l - x)]
  PROVE  ReadingOk(s, b, l, x, n, g, <<>>) /\ GetOk(g)
<1>1. l \in Nat
  BY DEF Lies
<1>2. GetOk(g)
  <2>1. CASE x >= l
    BY <2>1 DEF GetOk, NoGet
  <2>2. CASE ~(x >= l)
    <3>1. Least(n, l - x) \in Nat
      BY <1>1, <2>2 DEF Least
    <3> QED BY <2>2, <3>1 DEF GetOk
  <2> QED BY <2>1, <2>2
<1> QED
  BY <1>1, <1>2, ReadBegins

LEMMA StartJobKeeps ==
  ASSUME WindowInv, StartJob
  PROVE  WindowInv'
<1>1. /\ phase = "idle" /\ job' \in Jobs /\ last' = last /\ result' = NoResult
      /\ UNCHANGED <<vars, base, limit, order, blocks>>
      /\ IF job'.op = "read" THEN Read(job'.pos, job'.n) /\ at' = at
         ELSE phase' = "turn" /\ at' = job'.start /\ get' = get /\ got' = got
  BY DEF StartJob
<1>2. source \in Sources /\ Lies(source, base, limit) /\ last = None /\ GetOk(get)
  BY <1>1, WindowFacts DEF WindowInv, JobOk
<1>3. Answered(source, base, limit, result'.job, result'.value)
  BY <1>1 DEF NoResult, NoJob, Answered
<1>4. CASE job'.op = "read"
  <2>1. Read(job'.pos, job'.n) /\ job'.pos \in Nat /\ job'.n \in Nat
    BY <1>1, <1>4, JobFacts
  <2>2. /\ get' = IF job'.pos >= limit THEN NoGet ELSE [pos |-> job'.pos, n |-> Least(job'.n, limit - job'.pos)]
        /\ got' = <<>> /\ phase' = "read"
    BY <2>1 DEF Read
  <2>3. ReadingOk(source, base, limit, job'.pos, job'.n, get', <<>>) /\ GetOk(get')
    BY <1>2, <2>1, <2>2, ReadKeeps
  <2>4. ReadingOk(source, base, limit, FromOf(job', at'), AskedOf(job', at', limit), get', got')
    BY <1>4, <2>2, <2>3 DEF FromOf, AskedOf
  <2>5. JobOk(source, base, limit, phase', job', at', last')
    BY <1>1, <1>4, <2>2 DEF JobOk
  <2> QED BY <1>1, <1>3, <2>2, <2>3, <2>4, <2>5, JobStepKeeps
<1>5. CASE job'.op # "read"
  <2>1. phase' = "turn" /\ at' = job'.start /\ get' = get
    BY <1>1, <1>5
  <2>2. Searching(source, base, limit, job', at', last')
    BY <1>1, <1>2, <1>5, <2>1, SearchBegins
  <2>3. JobOk(source, base, limit, phase', job', at', last')
    BY <1>1, <1>5, <2>1, <2>2 DEF JobOk
  <2> QED BY <1>1, <1>2, <1>3, <2>1, <2>3, JobStepKeeps
<1> QED
  BY <1>4, <1>5

LEMMA WantedIs ==
  ASSUME WindowInv, phase \in {"read", "fetch"}, get.n > 0
  PROVE  /\ get.pos \in Nat /\ Wanted \in Nat
         /\ BlockAt(base, Wanted) \in Nat /\ BlockAt(base, Wanted) <= source.size
<1> DEFINE q == (get.pos \div Block) * Block
           rel == get.pos % Block
<1>1. get.pos \in Nat /\ get.n \in Nat
  BY DEF WindowInv, GetOk
<1>2. source \in Sources /\ limit \in Nat /\ base \in Nat /\ (limit > 0 => base + limit <= source.size)
  BY WindowFacts DEF Lies
<1>3. source.size \in Nat
  BY <1>2, SourceFacts
<1>4. get.pos + get.n <= limit
  BY DEF WindowInv, ReadingOk
<1>5. q \in Nat /\ rel \in Nat /\ get.pos = q + rel
  BY <1>1, PosIsInBlock
<1>6. Wanted \in Nat
  BY <1>1, WindowAssumption DEF Wanted
<1>7. BlockAt(base, Wanted) = base + q
  BY DEF BlockAt, Wanted
<1> HIDE DEF q, rel
<1>8. base + q \in Nat /\ base + q <= source.size
  BY <1>1, <1>2, <1>3, <1>4, <1>5
<1> QED
  BY <1>1, <1>6, <1>7, <1>8

LEMMA FetchBlockKeeps ==
  ASSUME WindowInv, FetchBlock
  PROVE  WindowInv'
<1>1. /\ phase = "read" /\ get.n > 0 /\ Wanted \notin ToSet(order) /\ phase' = "fetch"
      /\ Pread(BlockAt(base, Wanted), Block)
      /\ base' = base /\ limit' = limit /\ order' = order /\ blocks' = blocks /\ job' = job
      /\ at' = at /\ last' = last /\ get' = get /\ got' = got /\ result' = result
  BY DEF FetchBlock, BlockAt
<1> DEFINE o == BlockAt(base, Wanted)
<1>2. o \in Nat /\ Block \in Nat \ {0}
  BY <1>1, WantedIs, WindowAssumption
<1> HIDE DEF o
<1>3. Pread(o, Block)
  BY <1>1 DEF o
<1>4. ReaderInv' /\ source' = source
  BY <1>2, <1>3, PreadKeeps DEF WindowInv
<1>5. IF call' # NoCall THEN call'.off = o /\ call'.want = Block
      ELSE answer'.off = o /\ answer'.want = Block
  BY <1>2, <1>3 DEF Pread, Answers, NoCall
<1>6. FetchOk(base, call', answer', get, order)
  BY <1>1, <1>5 DEF FetchOk, Wanted, o
<1>7. WindowAnswers'
  BY <1>1, <1>4, AnswersAre DEF WindowInv
<1>8. JobOk(source, base, limit, "fetch", job, at, last)
  BY <1>1 DEF WindowInv, JobOk
<1> QED
  BY <1>1, <1>4, <1>6, <1>7, <1>8 DEF WindowInv

LEMMA KeepBlockKeeps ==
  ASSUME WindowInv, KeepBlock
  PROVE  WindowInv'
<1>1. /\ phase = "fetch" /\ ~Busy /\ phase' = "read" /\ UNCHANGED vars
      /\ base' = base /\ limit' = limit /\ job' = job /\ at' = at /\ last' = last /\ get' = get /\ got' = got
      /\ result' = result
      /\ order' = Append(IF Evicted = {} THEN order ELSE Tail(order), Wanted)
      /\ blocks' = [i \in (DOMAIN blocks \ Evicted) \cup {Wanted} |-> IF i = Wanted THEN answer.data ELSE blocks[i]]
  BY DEF KeepBlock
<1>2. FetchOk(base, call, answer, get, order) /\ call = NoCall
  BY <1>1 DEF WindowInv, Busy
<1>3. get.n > 0 /\ Wanted \notin ToSet(order) /\ answer.off = BlockAt(base, Wanted) /\ answer.want = Block
  BY <1>2 DEF FetchOk, Wanted
<1>4. Wanted \in Nat /\ BlockAt(base, Wanted) \in Nat /\ BlockAt(base, Wanted) <= source.size
  BY <1>1, <1>3, WantedIs
<1>5. ReaderInv' /\ source' = source /\ source \in Sources /\ M!Right(answer) /\ answer.data \in Seq(Nat)
  BY <1>1, ReaderStutters DEF WindowInv, ReaderInv
<1>6. IsBlock(source, BlockAt(base, Wanted), answer.data)
  <2> DEFINE s == source
             x == BlockAt(base, Wanted)
             a == answer
             d == answer.data
  <2>1. /\ s \in Sources /\ s = source /\ x \in Nat /\ x <= s.size /\ a.off = x /\ a.want = Block
        /\ d \in Seq(Nat) /\ a.data = d /\ M!Right(a)
    BY <1>3, <1>4, <1>5
  <2> HIDE DEF s, x, a, d
  <2>2. IsBlock(s, x, d)
    BY <2>1, AnswerIsBlock
  <2> QED BY <2>2 DEF s, x, d
<1>7. BlocksOk(source, base, order', blocks')
  <2> DEFINE full == Len(order) >= MaxBlocks
             i == Wanted
             d == answer.data
             p == order'
             cl == blocks'
  <2>1. BlocksOk(source, base, order, blocks)
    BY DEF WindowInv
  <2>2. full \in BOOLEAN /\ (full => order # <<>>)
    BY WindowAssumption
  <2>3. Evicted = IF full THEN {Head(order)} ELSE {}
    BY DEF Evicted
  <2>4. /\ p = Append(IF full THEN Tail(order) ELSE order, i)
        /\ cl = [k \in (DOMAIN blocks \ Evicted) \cup {i} |-> IF k = i THEN d ELSE blocks[k]]
        /\ i \in Nat /\ i \notin ToSet(order) /\ IsBlock(source, BlockAt(base, i), d)
    BY <1>1, <1>3, <1>4, <1>6, <2>3
  <2> HIDE DEF full, i, d, p, cl
  <2>6. Replaces(order, blocks, i, d, full, p, cl)
    BY <2>2, <2>3, <2>4 DEF Replaces
  <2>5. BlocksOk(source, base, p, cl)
    BY <2>1, <2>4, <2>6, BlockIsKept
  <2> QED BY <2>5 DEF p, cl
<1>8. WindowAnswers'
  BY <1>1, <1>5, AnswersAre DEF WindowInv
<1>9. JobOk(source, base, limit, "read", job, at, last)
  BY <1>1 DEF WindowInv, JobOk
<1> QED
  BY <1>1, <1>5, <1>7, <1>8, <1>9 DEF WindowInv

LEMMA TakeBlockKeeps ==
  ASSUME WindowInv, TakeBlock
  PROVE  WindowInv'
<1> DEFINE have == blocks[Wanted]
           x == FromOf(job, at)
           n == AskedOf(job, at, limit)
<1>1. /\ phase = "read" /\ get.n > 0 /\ Wanted \in ToSet(order)
      /\ UNCHANGED <<vars, base, limit, order, blocks>>
      /\ job' = job /\ phase' = phase /\ at' = at /\ last' = last /\ result' = result
  BY DEF TakeBlock
<1>2. Took(source, base, limit, x, n, get, got, have, get', got')
  BY DEF TakeBlock, Took
<1>3. source \in Sources /\ Lies(source, base, limit) /\ GetOk(get) /\ ReadingOk(source, base, limit, x, n, get, got)
  BY <1>1, WindowFacts DEF WindowInv
<1>4. IsBlock(source, BlockAt(base, get.pos \div Block), have)
  BY <1>1, KeptIs DEF WindowInv, Wanted
<1>5. x \in Nat /\ n \in Nat
  <2>1. job \in Jobs /\ limit \in Nat /\ (job.op # "read" => at \in Nat /\ at < EndIn(job, limit))
    BY <1>1, WindowFacts DEF WindowInv, JobOk, Searching, SoFar
  <2> QED BY <2>1, AskedIs
<1> HIDE DEF have, x, n
<1>6. ReadingOk(source, base, limit, x, n, get', got') /\ GetOk(get')
  BY <1>1, <1>2, <1>3, <1>4, <1>5, TakeGoesOn
<1>7. JobOk(source, base, limit, phase', job', at', last')
  BY <1>1 DEF WindowInv
<1>8. Answered(source, base, limit, result'.job, result'.value)
  BY <1>1, AnswersAre DEF WindowInv
<1> QED
  BY <1>1, <1>6, <1>7, <1>8, JobStepKeeps DEF x, n

(* The search whose turn has been read. *)
LEMMA SearchFacts ==
  ASSUME WindowInv, phase # "idle", job.op # "read"
  PROVE  /\ job \in Jobs /\ IsSearch(job) /\ Searching(source, base, limit, job, at, last)
         /\ source \in Sources /\ Lies(source, base, limit)
         /\ Shown(source, base, limit) \in Seq(Nat) /\ EndIn(job, limit) \in Nat
         /\ SearchEnd = EndIn(job, limit) /\ at \in Nat /\ limit \in Nat
<1>1. job \in Jobs /\ Searching(source, base, limit, job, at, last)
  BY DEF WindowInv, JobOk
<1>2. source \in Sources /\ Lies(source, base, limit) /\ limit \in Nat
  BY WindowFacts
<1>3. Shown(source, base, limit) \in Seq(Nat)
  BY <1>2, ShownIs DEF IsShown
<1>4. EndIn(job, limit) \in Nat /\ IsSearch(job)
  BY <1>1, <1>2, EndFacts, JobFacts
<1>5. SearchEnd = EndIn(job, limit)
  BY DEF SearchEnd, EndIn
<1>6. at \in Nat
  BY <1>1 DEF Searching, SoFar
<1> QED
  BY <1>1, <1>2, <1>3, <1>4, <1>5, <1>6

LEMMA SearchAnswers ==
  ASSUME NEW j \in Jobs, j.op # "read", NEW s, NEW b, NEW l, NEW r,
         EndRight(Shown(s, b, l), j, EndIn(j, l), r, Damaged(s))
  PROVE  Answered(s, b, l, j, r)
BY JobFacts DEF Answered

LEMMA ReadEndKeeps ==
  ASSUME WindowInv, ReadEnd
  PROVE  WindowInv'
<1>1. /\ phase = "read" /\ get.n = 0 /\ job.op = "read" /\ Finish(got)
      /\ UNCHANGED <<vars, base, limit, order, blocks>>
  BY DEF ReadEnd, HaveRead
<1>2. job \in Jobs /\ source \in Sources /\ Lies(source, base, limit)
  BY <1>1, WindowFacts DEF WindowInv, JobOk
<1>3. job.pos \in Nat /\ job.n \in Nat
  BY <1>1, <1>2, JobFacts
<1>4. ReadingOk(source, base, limit, job.pos, job.n, get, got)
  BY <1>1 DEF WindowInv, FromOf, AskedOf
<1>5. \/ got = M!Slice(Shown(source, base, limit), job.pos, job.n)
      \/ Damaged(source) /\ IsPrefix(got, M!Slice(Shown(source, base, limit), job.pos, job.n))
  BY <1>1, <1>2, <1>3, <1>4, ReadEnds
<1>6. Answered(source, base, limit, job, got)
  BY <1>1, <1>5 DEF Answered
<1> QED
  BY <1>1, <1>6, FinishKeeps

LEMMA SearchTurnKeeps ==
  ASSUME WindowInv, SearchTurn
  PROVE  WindowInv'
<1>1. phase = "turn" /\ UNCHANGED <<vars, base, limit, order, blocks>>
  BY DEF SearchTurn
<1>2. job.op # "read" /\ phase # "idle"
  BY <1>1 DEF WindowInv, JobOk
<1>3. /\ job \in Jobs /\ IsSearch(job) /\ Searching(source, base, limit, job, at, last)
      /\ source \in Sources /\ Lies(source, base, limit)
      /\ Shown(source, base, limit) \in Seq(Nat) /\ EndIn(job, limit) \in Nat
      /\ SearchEnd = EndIn(job, limit) /\ at \in Nat /\ limit \in Nat
  BY <1>2, SearchFacts
<1>4. CASE at < SearchEnd
  <2>1. /\ Read(at, Turn(job.needle)) /\ job' = job /\ at' = at /\ last' = last /\ result' = result
    BY <1>4 DEF SearchTurn
  <2> DEFINE n == AskedOf(job, at, limit)
  <2>2. n = Turn(job.needle) /\ FromOf(job, at) = at
    BY <1>2, <1>3 DEF AskedOf, FromOf, Turn
  <2>3. n \in Nat
    BY <1>3, <1>4, AskedIs
  <2>4. /\ get' = IF at >= limit THEN NoGet ELSE [pos |-> at, n |-> Least(n, limit - at)]
        /\ got' = <<>> /\ phase' = "read"
    BY <2>1, <2>2 DEF Read
  <2> HIDE DEF n
  <2>5. ReadingOk(source, base, limit, at, n, get', <<>>) /\ GetOk(get')
    BY <1>3, <2>3, <2>4, ReadKeeps
  <2>6. ReadingOk(source, base, limit, FromOf(job', at'), AskedOf(job', at', limit), get', got')
    BY <2>1, <2>2, <2>4, <2>5 DEF n
  <2>7. JobOk(source, base, limit, phase', job', at', last')
    BY <1>2, <1>3, <1>4, <2>1, <2>4 DEF JobOk
  <2>8. Answered(source, base, limit, result'.job, result'.value)
    BY <2>1, AnswersAre DEF WindowInv
  <2> QED BY <1>1, <2>4, <2>5, <2>6, <2>7, <2>8, JobStepKeeps
<1>5. CASE ~(at < SearchEnd)
  <2>1. Finish(last)
    BY <1>5 DEF SearchTurn
  <2>2. EndIn(job, limit) <= at
    BY <1>3, <1>5
  <2>3. SoFar(Shown(source, base, limit), job, EndIn(job, limit), at, last, Damaged(source))
    BY <1>3 DEF Searching
  <2>4. EndRight(Shown(source, base, limit), job, EndIn(job, limit), last, Damaged(source))
    BY <1>3, <2>2, <2>3, PastTheEnd
  <2>5. Answered(source, base, limit, job, last)
    BY <1>2, <1>3, <2>4, SearchAnswers
  <2> QED BY <1>1, <2>1, <2>5, FinishKeeps
<1> QED
  BY <1>4, <1>5

(* After a turn that is over. *)
LEMMA NextTurnKeeps ==
  ASSUME WindowInv, UNCHANGED <<vars, base, limit, order, blocks>>, phase # "idle", job.op # "read", NextTurn,
         SoFar(Shown(source, base, limit), job, EndIn(job, limit), at + Step, last', Damaged(source))
  PROVE  WindowInv'
<1>1. at' = at + Step /\ phase' = "turn" /\ job' = job /\ get' = get /\ result' = result
  BY DEF NextTurn
<1>2. Searching(source, base, limit, job', at', last')
  BY <1>1 DEF Searching
<1>3. job \in Jobs /\ GetOk(get)
  BY DEF WindowInv, JobOk
<1>4. JobOk(source, base, limit, phase', job', at', last')
  BY <1>1, <1>2, <1>3 DEF JobOk
<1>5. Answered(source, base, limit, result'.job, result'.value)
  BY <1>1, AnswersAre DEF WindowInv
<1> QED
  BY <1>1, <1>3, <1>4, <1>5, JobStepKeeps

LEMMA TurnFacts ==
  ASSUME WindowInv, HaveRead, job.op # "read"
  PROVE  /\ TurnIsRead(Shown(source, base, limit), job, at, EndIn(job, limit), got, Damaged(source))
         /\ SoFar(Shown(source, base, limit), job, EndIn(job, limit), at, last, Damaged(source))
         /\ Inside = InsideOf(at, got, job.needle, EndIn(job, limit))
<1>1. phase = "read" /\ get.n = 0
  BY DEF HaveRead
<1>2. /\ job \in Jobs /\ Searching(source, base, limit, job, at, last)
      /\ source \in Sources /\ Lies(source, base, limit) /\ SearchEnd = EndIn(job, limit)
  BY <1>1, SearchFacts
<1>3. /\ ReadingOk(source, base, limit, FromOf(job, at), AskedOf(job, at, limit), get, got)
      /\ at < EndIn(job, limit)
  BY <1>1 DEF WindowInv, JobOk
<1>4. TurnIsRead(Shown(source, base, limit), job, at, EndIn(job, limit), got, Damaged(source))
  <2> DEFINE s == source
             b == base
             l == limit
             x == at
             la == last
             g == get
             d == got
             j == job
  <2>1. /\ s \in Sources /\ Lies(s, b, l) /\ j \in Jobs /\ j.op # "read" /\ Searching(s, b, l, j, x, la)
        /\ x < EndIn(j, l) /\ ReadingOk(s, b, l, FromOf(j, x), AskedOf(j, x, l), g, d) /\ g.n = 0
    BY <1>1, <1>2, <1>3
  <2> HIDE DEF s, b, l, x, la, g, d, j
  <2>2. TurnIsRead(Shown(s, b, l), j, x, EndIn(j, l), d, Damaged(s))
    BY <2>1, TurnIsOk
  <2> QED BY <2>2 DEF s, b, l, x, d, j
<1>5. Inside = InsideOf(at, got, job.needle, EndIn(job, limit))
  BY <1>2 DEF Inside, InsideOf
<1> QED
  BY <1>2, <1>4, <1>5 DEF Searching

LEMMA FindInKeeps ==
  ASSUME WindowInv, FindIn
  PROVE  WindowInv'
<1> DEFINE v == Shown(source, base, limit)
           e == EndIn(job, limit)
           damage == Damaged(source)
<1>1. HaveRead /\ phase # "idle" /\ job.op = "find" /\ UNCHANGED <<vars, base, limit, order, blocks>>
  BY DEF FindIn, HaveRead
<1>2. job \in Jobs /\ IsSearch(job) /\ v \in Seq(Nat) /\ e \in Nat
  BY <1>1, SearchFacts
<1>3. /\ TurnIsRead(v, job, at, e, got, damage) /\ SoFar(v, job, e, at, last, damage)
      /\ Inside = InsideOf(at, got, job.needle, e)
  BY <1>1, TurnFacts
<1>4. last = None
  BY <1>1, <1>3 DEF SoFar
<1>5. ASSUME NEW r, EndRight(v, job, e, r, damage), Finish(r) PROVE WindowInv'
  BY <1>1, <1>2, <1>5, SearchAnswers, FinishKeeps
<1> HIDE DEF v, e, damage
<1>6. CASE Len(got) < Len(job.needle)
  <2>1. Finish(last)
    BY <1>4, <1>6 DEF FindIn
  <2>2. EndRight(v, job, e, last, damage)
    BY <1>2, <1>3, <1>6, ShortTurn
  <2> QED BY <1>5, <2>1, <2>2
<1>7. CASE ~(Len(got) < Len(job.needle)) /\ Inside # {}
  <2>1. Finish(Min(Inside))
    BY <1>7 DEF FindIn
  <2>2. EndRight(v, job, e, Min(Inside), damage)
    BY <1>1, <1>2, <1>3, <1>7, FirstIsFound
  <2> QED BY <1>5, <2>1, <2>2
<1>8. CASE ~(Len(got) < Len(job.needle)) /\ Inside = {}
  <2>1. NextTurn /\ last' = last
    BY <1>8 DEF FindIn
  <2> DEFINE z == at + Step
  <2>2. z = at + Step
    OBVIOUS
  <2> HIDE DEF z
  <2>3. SoFar(v, job, e, z, IF InsideOf(at, got, job.needle, e) = {} THEN last
                            ELSE Max(InsideOf(at, got, job.needle, e)), damage)
    BY <1>2, <1>3, <1>8, <2>2, TurnIsOver
  <2>4. SoFar(v, job, e, at + Step, last', damage)
    BY <1>3, <1>8, <2>1, <2>2, <2>3
  <2> QED BY <1>1, <2>1, <2>4, NextTurnKeeps DEF v, e, damage
<1> QED
  BY <1>6, <1>7, <1>8

LEMMA FindLastInKeeps ==
  ASSUME WindowInv, FindLastIn
  PROVE  WindowInv'
<1> DEFINE v == Shown(source, base, limit)
           e == EndIn(job, limit)
           damage == Damaged(source)
<1>1. HaveRead /\ phase # "idle" /\ job.op = "find_last" /\ UNCHANGED <<vars, base, limit, order, blocks>>
  BY DEF FindLastIn, HaveRead
<1>2. job \in Jobs /\ IsSearch(job) /\ v \in Seq(Nat) /\ e \in Nat /\ job.op # "read" /\ job.op # "find"
  BY <1>1, SearchFacts
<1>3. /\ TurnIsRead(v, job, at, e, got, damage) /\ SoFar(v, job, e, at, last, damage)
      /\ Inside = InsideOf(at, got, job.needle, e)
  BY <1>1, TurnFacts
<1> HIDE DEF v, e, damage
<1>6. CASE Len(got) < Len(job.needle)
  <2>1. Finish(last)
    BY <1>6 DEF FindLastIn
  <2>2. EndRight(v, job, e, last, damage)
    BY <1>2, <1>3, <1>6, ShortTurn
  <2> QED BY <1>1, <1>2, <2>1, <2>2, SearchAnswers, FinishKeeps DEF v, e, damage
<1>7. CASE ~(Len(got) < Len(job.needle))
  <2>1. NextTurn /\ last' = IF Inside = {} THEN last ELSE Max(Inside)
    BY <1>7 DEF FindLastIn
  <2> DEFINE z == at + Step
  <2>2. z = at + Step
    OBVIOUS
  <2> HIDE DEF z
  <2>3. SoFar(v, job, e, z, IF InsideOf(at, got, job.needle, e) = {} THEN last
                            ELSE Max(InsideOf(at, got, job.needle, e)), damage)
    BY <1>2, <1>3, <2>2, TurnIsOver
  <2>4. SoFar(v, job, e, at + Step, last', damage)
    BY <1>3, <2>1, <2>2, <2>3
  <2> QED BY <1>1, <1>2, <2>1, <2>4, NextTurnKeeps DEF v, e, damage
<1> QED
  BY <1>6, <1>7

LEMMA WindowInitHolds ==
  ASSUME ReadersInit, WindowInit
  PROVE  WindowInv
<1>1. ReaderInv /\ source \in Sources
  BY ReaderInitHolds DEF ReaderInv
<1>2. /\ order = <<>> /\ blocks = <<>> /\ phase = "idle" /\ last = None /\ get = NoGet
      /\ result = NoResult
  BY DEF WindowInit
<1>3. PICK v \in Views :
         base = v.base /\ limit = Least(v.limit, IF source.size > v.base THEN source.size - v.base ELSE 0)
  BY DEF WindowInit
<1>4. Lies(source, base, limit)
  <2> DEFINE left == IF source.size > v.base THEN source.size - v.base ELSE 0
  <2>1. source.size \in Nat /\ v.base \in Nat /\ v.limit \in Nat
    BY <1>1, SourceFacts, ViewsAssumption
  <2>2. left \in Nat /\ (left > 0 => v.base + left = source.size)
    BY <2>1
  <2>3. limit = Least(v.limit, left)
    BY <1>3
  <2> HIDE DEF left
  <2>4. limit \in Nat /\ limit <= left
    BY <2>1, <2>2, <2>3 DEF Least
  <2>5. base \in Nat /\ (limit > 0 => base + limit <= source.size)
    BY <1>3, <2>1, <2>2, <2>4
  <2> QED BY <2>4, <2>5 DEF Lies
<1>5. BlocksOk(source, base, order, blocks)
  BY <1>2, NoBlocks
<1>6. GetOk(get) /\ JobOk(source, base, limit, phase, job, at, last)
  BY <1>2 DEF GetOk, NoGet, JobOk
<1>7. WindowAnswers
  <2>1. Answered(source, base, limit, result.job, result.value)
    BY <1>2 DEF NoResult, NoJob, Answered
  <2> QED BY <2>1, AnswersAre
<1> QED
  BY <1>1, <1>2, <1>4, <1>5, <1>6, <1>7 DEF WindowInv

(* Whatever was asked of a window before, whichever blocks it still keeps, *)
(* and whatever the container: a read of src/src/window.rs gives the bytes *)
(* of the view, a search the first or the last occurrence that lies wholly *)
(* inside its range, also one across two blocks or two turns, and finds    *)
(* nothing only where there is nothing; in an image that is damaged, what  *)
(* they give is still from the right place.                                *)
THEOREM WindowAnswersRightly == SplitsAreWhole /\ WindowSpec => []WindowAnswers
<1> SUFFICES ASSUME SplitsAreWhole
             PROVE  WindowSpec => []WindowAnswers
  OBVIOUS
<1>1. ReadersInit /\ WindowInit => WindowInv
  BY WindowInitHolds
<1>2. WindowInv /\ [WindowNext]_<<vars, windowVars>> => WindowInv'
  <2> SUFFICES ASSUME WindowInv, [WindowNext]_<<vars, windowVars>>
               PROVE  WindowInv'
    OBVIOUS
  <2>1. CASE ReaderStep /\ UNCHANGED windowVars
    BY <2>1, ReaderStepInWindow
  <2>2. CASE StartJob
    BY <2>2, StartJobKeeps
  <2>3. CASE FetchBlock
    BY <2>3, FetchBlockKeeps
  <2>4. CASE KeepBlock
    BY <2>4, KeepBlockKeeps
  <2>5. CASE TakeBlock
    BY <2>5, TakeBlockKeeps
  <2>6. CASE ReadEnd
    BY <2>6, ReadEndKeeps
  <2>7. CASE SearchTurn
    BY <2>7, SearchTurnKeeps
  <2>8. CASE FindIn
    BY <2>8, FindInKeeps
  <2>9. CASE FindLastIn
    BY <2>9, FindLastInKeeps
  <2>10. CASE UNCHANGED <<vars, windowVars>>
    BY <2>10, WindowStutters
  <2> QED BY <2>1, <2>2, <2>3, <2>4, <2>5, <2>6, <2>7, <2>8, <2>9, <2>10 DEF WindowNext, WindowStep
<1>3. WindowInv => WindowAnswers
  BY DEF WindowInv
<1> QED
  BY <1>1, <1>2, <1>3, PTL DEF WindowSpec

-----------------------------------------------------------------------------
(***************************************************************************)
(* Part 5.  What grep finds.                                               *)
(***************************************************************************)

(* Where a match may be said to be, with the patterns ps. *)
Spots(ps) == [off : Nat, end : Nat, pattern : DOMAIN ps]

(* A match of one of the patterns in v. *)
IsMatch(v, ps, m) ==
  m \in Spots(ps) /\ m.end = m.off + Len(ps[m.pattern]) /\ StandsAt(v, ps[m.pattern], m.off)

PatternsOk(ps) ==
  ps \in Seq(Seq(Nat)) /\ \A j \in DOMAIN ps : ps[j] \in Seq(Nat) /\ Len(ps[j]) \in Nat \ {0}

LEMMA QueryFacts ==
  ASSUME NEW q \in Queries
  PROVE  /\ q.regex \in BOOLEAN /\ q.max \in Nat /\ q.start \in Nat /\ q.length \in Nat
         /\ PatternsOk(q.patterns)
<1>1. /\ q.patterns \in Seq(Seq(Nat)) /\ q.regex \in BOOLEAN /\ q.max \in Nat /\ q.start \in Nat /\ q.length \in Nat
      /\ \A j \in DOMAIN q.patterns : q.patterns[j] # <<>>
  BY QueriesAssumption DEF IsQuery
<1>2. ASSUME NEW j \in DOMAIN q.patterns
      PROVE  q.patterns[j] \in Seq(Nat) /\ Len(q.patterns[j]) \in Nat \ {0}
  <2>1. q.patterns[j] \in Seq(Nat) /\ q.patterns[j] # <<>>
    BY <1>1
  <2> DEFINE w == q.patterns[j]
  <2> HIDE DEF w
  <2>2. w \in Seq(Nat) /\ w # <<>> => Len(w) \in Nat \ {0}
    OBVIOUS
  <2> QED BY <2>1, <2>2 DEF w
<1> QED
  BY <1>1, <1>2 DEF PatternsOk

(* The bytes from u to e of v are the needle. *)
Spells(v, w, u, e) == SubSeq(v, u, e) = w

LEMMA StandsIs ==
  ASSUME NEW v \in Seq(Nat), NEW w \in Seq(Nat), NEW i \in Nat, NEW e, e = i + Len(w), e <= Len(v),
         NEW u, u = i + 1
  PROVE  Spells(v, w, u, e) <=> StandsAt(v, w, i)
<1>1. i \in 0..(Len(v) - Len(w))
  OBVIOUS
<1>2. i \in FindSub(v, w) <=> SubSeq(v, i + 1, i + Len(w)) = w
  BY <1>1 DEF FindSub
<1> QED
  BY <1>2, FoundIs DEF Spells

LEMMA MatchesAre ==
  ASSUME query \in Queries, NEW v \in Seq(Nat)
  PROVE  \A m : m \in Matches(v) <=> IsMatch(v, query.patterns, m)
<1> DEFINE ps == query.patterns
<1>1. PatternsOk(ps) /\ Len(v) \in Nat
  BY QueryFacts
<1> SUFFICES ASSUME NEW m PROVE m \in Matches(v) <=> IsMatch(v, ps, m)
  OBVIOUS
<1>2. m \in Matches(v) <=> /\ m \in [off : 0..(Len(v) - 1), end : 1..Len(v), pattern : DOMAIN ps]
                           /\ m.end - m.off = Len(ps[m.pattern])
                           /\ SubSeq(v, m.off + 1, m.end) = ps[m.pattern]
  BY DEF Matches
<1> HIDE DEF ps
<1>3. ASSUME m \in [off : 0..(Len(v) - 1), end : 1..Len(v), pattern : DOMAIN ps],
             m.end - m.off = Len(ps[m.pattern])
      PROVE  SubSeq(v, m.off + 1, m.end) = ps[m.pattern] <=> IsMatch(v, ps, m)
  <2>1. /\ m \in Spots(ps) /\ m.off \in Nat /\ m.end \in Nat /\ m.end <= Len(v)
        /\ ps[m.pattern] \in Seq(Nat) /\ Len(ps[m.pattern]) \in Nat
    BY <1>1, <1>3 DEF Spots, PatternsOk
  <2>2. m.end = m.off + Len(ps[m.pattern])
    BY <1>3, <2>1
  <2>3. SubSeq(v, m.off + 1, m.end) = ps[m.pattern] <=> StandsAt(v, ps[m.pattern], m.off)
    <3> DEFINE i == m.off
               e == m.end
               u == i + 1
               w == ps[m.pattern]
    <3>1. i \in Nat /\ e <= Len(v) /\ w \in Seq(Nat) /\ e = i + Len(w)
      BY <2>1, <2>2
    <3>2. u = i + 1
      OBVIOUS
    <3> HIDE DEF i, e, u, w
    <3>3. Spells(v, w, u, e) <=> StandsAt(v, w, i)
      BY <3>1, <3>2, StandsIs
    <3> QED BY <3>3 DEF Spells, i, e, u, w
  <2> QED BY <2>1, <2>2, <2>3 DEF IsMatch
<1>4. ASSUME IsMatch(v, ps, m)
      PROVE  m \in [off : 0..(Len(v) - 1), end : 1..Len(v), pattern : DOMAIN ps] /\ m.end - m.off = Len(ps[m.pattern])
  <2>1. /\ m \in Spots(ps) /\ m.off \in Nat /\ m.end \in Nat /\ m.pattern \in DOMAIN ps
        /\ m.end = m.off + Len(ps[m.pattern]) /\ m.off + Len(ps[m.pattern]) <= Len(v)
    BY <1>4 DEF IsMatch, Spots, StandsAt
  <2>2. Len(ps[m.pattern]) \in Nat \ {0}
    BY <1>1, <2>1 DEF PatternsOk
  <2>3. m.off \in 0..(Len(v) - 1) /\ m.end \in 1..Len(v) /\ m.end - m.off = Len(ps[m.pattern])
    BY <1>1, <2>1, <2>2
  <2> QED BY <2>1, <2>3 DEF Spots
<1> QED
  BY <1>2, <1>3, <1>4 DEF ps

(* Of any matches there is one that comes first. *)
Places3 == [off : Nat, end : Nat, pattern : Nat]

LEMMA FirstIs ==
  ASSUME NEW T, T \subseteq Places3, T # {}
  PROVE  FirstOf(T) \in T /\ \A n \in T : FirstOf(T) = n \/ Before(FirstOf(T), n)
<1> DEFINE A == {m.off : m \in T}
<1>1. A \subseteq Nat /\ A # {}
  BY DEF Places3
<1>2. PICK x \in A : \A y \in A : x <= y
  <2> HIDE DEF A
  <2> QED BY <1>1, LeastElement
<1> DEFINE TA == {m \in T : m.off = x}
           B == {m.end : m \in TA}
<1>3. B \subseteq Nat /\ B # {}
  <2>1. TA # {}
    BY <1>2
  <2>2. TA \subseteq Places3
    OBVIOUS
  <2> HIDE DEF TA
  <2> QED BY <2>1, <2>2 DEF Places3
<1>4. PICK y \in B : \A z \in B : y <= z
  <2> HIDE DEF B
  <2> QED BY <1>3, LeastElement
<1> DEFINE TB == {m \in TA : m.end = y}
           C == {m.pattern : m \in TB}
<1>5. C \subseteq Nat /\ C # {}
  <2>1. TB # {}
    <3> HIDE DEF TA
    <3> QED BY <1>4
  <2>2. TB \subseteq Places3
    OBVIOUS
  <2> HIDE DEF TB
  <2> QED BY <2>1, <2>2 DEF Places3
<1>6. PICK z \in C : \A u \in C : z <= u
  <2> HIDE DEF C
  <2> QED BY <1>5, LeastElement
<1>7. PICK m \in T : m.off = x /\ m.end = y /\ m.pattern = z
  BY <1>6
<1>8. ASSUME NEW n \in T PROVE m = n \/ Before(m, n)
  <2>1. n \in Places3 /\ m \in Places3
    OBVIOUS
  <2>2. n.off \in Nat /\ n.end \in Nat /\ n.pattern \in Nat /\ m.off \in Nat /\ m.end \in Nat /\ m.pattern \in Nat
    BY <2>1 DEF Places3
  <2>3. m.off <= n.off
    BY <1>2, <1>7
  <2>4. n.off = m.off => m.end <= n.end
    <3>1. n.off = m.off => n \in TA
      BY <1>7
    <3>2. n \in TA => n.end \in B
      OBVIOUS
    <3> QED BY <3>1, <3>2, <1>4, <1>7
  <2>5. n.off = m.off /\ n.end = m.end => m.pattern <= n.pattern
    <3>1. n.off = m.off /\ n.end = m.end => n \in TB
      BY <1>7
    <3>2. n \in TB => n.pattern \in C
      OBVIOUS
    <3> QED BY <3>1, <3>2, <1>6, <1>7
  <2>6. n.off = m.off /\ n.end = m.end /\ n.pattern = m.pattern => n = m
    BY <2>1 DEF Places3
  <2> QED BY <2>2, <2>3, <2>4, <2>5, <2>6 DEF Before
<1> QED
  BY <1>7, <1>8 DEF FirstOf

-----------------------------------------------------------------------------
(* A buffer is searched from left to right. *)
MatchesAt(v, x, found) == IF query.regex THEN FindEach(v, x, found) ELSE FindIter(v, x, found)

Searched(f, v) ==
  /\ f[0] = {}
  /\ \A x \in 0..Len(v) : f[x] \subseteq Matches(v)
  /\ \A x \in 1..Len(v) : f[x] = f[x - 1] \cup MatchesAt(v, x, f[x - 1])

LEMMA MatchFacts ==
  ASSUME query \in Queries, NEW v \in Seq(Nat)
  PROVE  /\ Matches(v) \subseteq Places3
         /\ \A m \in Matches(v) : /\ m.off \in Nat /\ m.end \in Nat /\ m.pattern \in Nat
                                  /\ m.off < m.end /\ m.end <= Len(v)
                                  /\ m.pattern \in DOMAIN query.patterns
                                  /\ m.end = m.off + Len(query.patterns[m.pattern])
<1> DEFINE ps == query.patterns
<1>1. PatternsOk(ps) /\ Len(v) \in Nat
  BY QueryFacts
<1>2. \A m \in Matches(v) : IsMatch(v, ps, m)
  BY MatchesAre
<1> HIDE DEF ps
<1> SUFFICES ASSUME NEW m \in Matches(v)
             PROVE  /\ m \in Places3 /\ m.off \in Nat /\ m.end \in Nat /\ m.pattern \in Nat
                    /\ m.off < m.end /\ m.end <= Len(v)
                    /\ m.pattern \in DOMAIN ps /\ m.end = m.off + Len(ps[m.pattern])
  BY DEF ps
<1>3. m \in Spots(ps) /\ m.end = m.off + Len(ps[m.pattern]) /\ m.off + Len(ps[m.pattern]) <= Len(v)
  BY <1>2 DEF IsMatch, StandsAt
<1>4. m.off \in Nat /\ m.end \in Nat /\ m.pattern \in DOMAIN ps
  BY <1>3 DEF Spots
<1>5. Len(ps[m.pattern]) \in Nat \ {0} /\ DOMAIN ps \subseteq Nat
  BY SMTT(30), <1>1, <1>4 DEF PatternsOk
<1>6. m \in Places3
  BY <1>3, <1>5 DEF Spots, Places3
<1> QED
  BY <1>3, <1>4, <1>5, <1>6

LEMMA MatchesAtIs ==
  ASSUME query \in Queries, NEW v \in Seq(Nat), NEW x, NEW found
  PROVE  MatchesAt(v, x, found) \subseteq Matches(v)
<1>1. FindEach(v, x, found) \subseteq Matches(v)
  BY DEF FindEach
<1>2. FindIter(v, x, found) \subseteq Matches(v)
  <2> DEFINE ms == {m \in Matches(v) : m.end = x /\ \A n \in found : n.end <= m.off}
  <2>1. ms \subseteq Matches(v) /\ ms \subseteq Places3
    BY MatchFacts
  <2>2. FindIter(v, x, found) = IF ms = {} THEN {} ELSE {FirstOf(ms)}
    BY DEF FindIter
  <2> HIDE DEF ms
  <2>3. ms # {} => FirstOf(ms) \in ms
    BY <2>1, FirstIs
  <2> QED BY <2>1, <2>2, <2>3
<1> QED
  BY <1>1, <1>2 DEF MatchesAt

LEMMA FindAllLoop ==
  ASSUME query \in Queries, NEW v \in Seq(Nat)
  PROVE  \E f : Searched(f, v) /\ FindAll(v) = f[Len(v)]
<1> DEFINE n == Len(v)
           X == SUBSET Matches(v)
           Follows(f) == f = [x \in 0..n |->
                                IF x = 0 THEN {}
                                ELSE f[x - 1] \cup (IF query.regex THEN FindEach(v, x, f[x - 1])
                                                                     ELSE FindIter(v, x, f[x - 1]))]
           upTo == CHOOSE f : Follows(f)
           d == [y \in X \X (1..n) |-> y[1] \cup MatchesAt(v, y[2], y[1])]
<1>1. n \in Nat
  OBVIOUS
<1>2. d \in [X \X (1..n) -> X]
  <2> SUFFICES ASSUME NEW y \in X \X (1..n) PROVE y[1] \cup MatchesAt(v, y[2], y[1]) \in X
    OBVIOUS
  <2>1. y[1] \in X
    OBVIOUS
  <2> QED BY <2>1, MatchesAtIs
<1>3. PICK u : IsLoop(u, n, X, {}, d)
  <2>1. {} \in X
    OBVIOUS
  <2> HIDE DEF d, X, n
  <2> QED BY <1>1, <1>2, <2>1, LoopExists
<1>4. u \in [0..n -> X] /\ u = [k \in 0..n |-> IF k = 0 THEN {} ELSE d[<<u[k - 1], k>>]]
  BY <1>3 DEF IsLoop
<1>5. ASSUME NEW k \in 0..n, k # 0
      PROVE  d[<<u[k - 1], k>>] = u[k - 1] \cup (IF query.regex THEN FindEach(v, k, u[k - 1])
                                                                  ELSE FindIter(v, k, u[k - 1]))
  <2>1. k - 1 \in 0..n /\ k \in 1..n
    BY <1>1, <1>5
  <2>2. <<u[k - 1], k>> \in X \X (1..n)
    BY <2>1, <1>4
  <2> QED BY <2>2 DEF MatchesAt
<1>6. Follows(u)
  <2> HIDE DEF d, n, X
  <2> QED BY <1>4, <1>5
<1>7. Follows(upTo)
  <2> HIDE DEF Follows
  <2> QED BY <1>6
<1>8. FindAll(v) = upTo[n]
  BY DEF FindAll
<1> HIDE DEF upTo
<1>9. upTo[0] = {} /\ \A x \in 1..n : upTo[x] = upTo[x - 1] \cup MatchesAt(v, x, upTo[x - 1])
  <2>1. \A x \in 1..n : x \in 0..n /\ x # 0
    BY <1>1
  <2>2. 0 \in 0..n
    BY <1>1
  <2> HIDE DEF n
  <2> QED BY <1>7, <2>1, <2>2 DEF MatchesAt
<1> DEFINE S == {x \in 0..n : upTo[x] \subseteq Matches(v)}
<1>10. 0..n \subseteq S
  <2>1. 0 \in S
    BY <1>1, <1>9
  <2>2. ASSUME NEW x \in 0..(n - 1), x \in S PROVE x + 1 \in S
    <3>1. x + 1 \in 1..n /\ x + 1 \in 0..n /\ (x + 1) - 1 = x
      BY <1>1
    <3>2. upTo[x + 1] = upTo[x] \cup MatchesAt(v, x + 1, upTo[x])
      BY <1>9, <3>1
    <3> QED BY <2>2, <3>1, <3>2, MatchesAtIs
  <2> HIDE DEF S
  <2> QED BY <1>1, <2>1, <2>2, UpTo
<1>11. Searched(upTo, v)
  BY <1>9, <1>10 DEF Searched
<1> QED
  BY <1>8, <1>11

LEMMA RegexFinds ==
  ASSUME query \in Queries, NEW v \in Seq(Nat), query.regex, NEW f, Searched(f, v)
  PROVE  \A m \in Matches(v) : \E n \in f[Len(v)] : n.pattern = m.pattern /\ n.off <= m.off /\ m.off < n.end
<1> DEFINE len == Len(v)
           Behind(x) == \A n \in f[x] : n.off < x
           Holds(x) == \A m \in Matches(v) : m.off < x =>
                         \E n \in f[x] : n.pattern = m.pattern /\ n.off <= m.off /\ m.off < n.end
           S == {x \in 0..len : Behind(x) /\ Holds(x)}
<1>1. len \in Nat /\ \A m \in Matches(v) : m.off \in Nat /\ m.end \in Nat /\ m.off < m.end /\ m.end <= len
  BY MatchFacts
<1>2. f[0] = {} /\ \A x \in 1..len : f[x] = f[x - 1] \cup FindEach(v, x, f[x - 1])
  BY DEF Searched, MatchesAt
<1>3. \A x \in 0..len : f[x] \subseteq Matches(v)
  BY DEF Searched
<1> HIDE DEF len
<1>4. 0 \in S
  <2>1. Behind(0) /\ Holds(0)
    BY <1>1, <1>2
  <2> QED BY <1>1, <2>1
<1>5. ASSUME NEW x \in 0..(len - 1), x \in S PROVE x + 1 \in S
  <2> DEFINE y == x + 1
  <2>1. y \in 1..len /\ y \in 0..len /\ y - 1 = x /\ x \in Nat /\ x \in 0..len
    BY <1>1
  <2> HIDE DEF y
  <2>2. f[y] = f[x] \cup FindEach(v, y, f[x]) /\ f[x] \subseteq Matches(v)
    BY <1>2, <1>3, <2>1
  <2>3. \A n \in FindEach(v, y, f[x]) : n \in Matches(v) /\ n.off = x
    BY <2>1 DEF FindEach
  <2>4. Behind(y)
    <3> SUFFICES ASSUME NEW n \in f[y] PROVE n.off < y
      OBVIOUS
    <3>1. n \in f[x] => n.off < x /\ n.off \in Nat
      BY <1>1, <1>5, <2>2
    <3> QED BY <2>1, <2>2, <2>3, <3>1
  <2>5. Holds(y)
    <3> SUFFICES ASSUME NEW m \in Matches(v), m.off < y
                 PROVE  \E n \in f[y] : n.pattern = m.pattern /\ n.off <= m.off /\ m.off < n.end
      OBVIOUS
    <3>1. m.off \in Nat /\ m.end \in Nat /\ m.off < m.end
      BY <1>1
    <3>2. CASE m.off < x
      BY <1>5, <2>2, <3>2
    <3>3. CASE m.off = x
      <4>1. CASE m \in FindEach(v, y, f[x])
        BY <2>2, <3>1, <4>1
      <4>2. CASE m \notin FindEach(v, y, f[x])
        <5>1. PICK n \in f[x] : n.pattern = m.pattern /\ ~(n.end <= m.off)
          BY <2>1, <3>3, <4>2 DEF FindEach
        <5>2. n.off < x /\ n \in f[y] /\ n.off \in Nat /\ n.end \in Nat
          BY <1>1, <1>5, <2>2, <5>1
        <5> QED BY <3>1, <3>3, <5>1, <5>2, <2>1
      <4> QED BY <4>1, <4>2
    <3> QED BY <2>1, <3>1, <3>2, <3>3
  <2> HIDE DEF Behind, Holds
  <2> QED BY <2>1, <2>4, <2>5 DEF y
<1>6. 0..len \subseteq S
  <2> HIDE DEF S
  <2> QED BY <1>1, <1>4, <1>5, UpTo
<1>7. Holds(len)
  <2>1. len \in 0..len
    BY <1>1
  <2> HIDE DEF Holds, Behind
  <2> QED BY <1>6, <2>1
<1>8. \A m \in Matches(v) : m.off < len
  BY <1>1
<1> QED
  BY <1>7, <1>8 DEF len

LEMMA KeywordFinds ==
  ASSUME query \in Queries, NEW v \in Seq(Nat), ~query.regex, NEW f, Searched(f, v)
  PROVE  \A m \in Matches(v) : \E n \in f[Len(v)] : m.off < n.end /\ n.end <= m.end
<1> DEFINE len == Len(v)
           Behind(x) == \A n \in f[x] : n.end <= x
           Holds(x) == \A m \in Matches(v) : m.end <= x => \E n \in f[x] : m.off < n.end /\ n.end <= m.end
           S == {x \in 0..len : Behind(x) /\ Holds(x)}
<1>1. len \in Nat /\ \A m \in Matches(v) : m.off \in Nat /\ m.end \in Nat /\ m.off < m.end /\ m.end <= len
  BY MatchFacts
<1>2. f[0] = {} /\ \A x \in 1..len : f[x] = f[x - 1] \cup FindIter(v, x, f[x - 1])
  BY DEF Searched, MatchesAt
<1>3. \A x \in 0..len : f[x] \subseteq Matches(v)
  BY DEF Searched
<1> HIDE DEF len
<1>4. 0 \in S
  <2>1. Behind(0) /\ Holds(0)
    BY <1>1, <1>2
  <2> QED BY <1>1, <2>1
<1>5. ASSUME NEW x \in 0..(len - 1), x \in S PROVE x + 1 \in S
  <2> DEFINE y == x + 1
             ms == {m \in Matches(v) : m.end = y /\ \A n \in f[x] : n.end <= m.off}
  <2>1. y \in 1..len /\ y \in 0..len /\ y - 1 = x /\ x \in Nat /\ x \in 0..len
    BY <1>1
  <2> HIDE DEF y
  <2>2. f[y] = f[x] \cup FindIter(v, y, f[x]) /\ f[x] \subseteq Matches(v)
    BY <1>2, <1>3, <2>1
  <2>3. FindIter(v, y, f[x]) = IF ms = {} THEN {} ELSE {FirstOf(ms)}
    BY DEF FindIter
  <2>4. ms \subseteq Places3 /\ \A m \in ms : m \in Matches(v) /\ m.end = y
    BY MatchFacts
  <2>5. ms # {} => FirstOf(ms) \in ms
    <3> HIDE DEF ms
    <3> QED BY <2>4, FirstIs
  <2>6. Behind(y)
    <3> SUFFICES ASSUME NEW n \in f[y] PROVE n.end <= y
      OBVIOUS
    <3>1. n \in f[x] => n.end <= x /\ n.end \in Nat
      BY <1>1, <1>5, <2>2
    <3>2. n \notin f[x] => n \in ms
      <4> HIDE DEF ms
      <4> QED BY <2>2, <2>3, <2>5
    <3> QED BY <2>1, <2>4, <3>1, <3>2
  <2>7. Holds(y)
    <3> SUFFICES ASSUME NEW m \in Matches(v), m.end <= y
                 PROVE  \E n \in f[y] : m.off < n.end /\ n.end <= m.end
      OBVIOUS
    <3>1. m.off \in Nat /\ m.end \in Nat /\ m.off < m.end
      BY <1>1
    <3>2. CASE m.end <= x
      BY <1>5, <2>2, <3>2
    <3>3. CASE m.end = y
      <4>1. CASE m \in ms
        <5>1. FirstOf(ms) \in f[y] /\ FirstOf(ms).end = y
          <6> HIDE DEF ms
          <6> QED BY <2>2, <2>3, <2>4, <2>5, <4>1
        <5> HIDE DEF ms
        <5> QED BY <3>1, <3>3, <5>1
      <4>2. CASE m \notin ms
        <5>1. PICK n \in f[x] : ~(n.end <= m.off)
          BY <3>3, <4>2
        <5>2. n.end <= x /\ n \in f[y] /\ n.end \in Nat
          BY <1>1, <1>5, <2>2, <5>1
        <5> QED BY <3>1, <3>3, <5>1, <5>2, <2>1
      <4> QED BY <4>1, <4>2
    <3> QED BY <2>1, <3>1, <3>2, <3>3
  <2> HIDE DEF Behind, Holds
  <2> QED BY <2>1, <2>6, <2>7 DEF y
<1>6. 0..len \subseteq S
  <2> HIDE DEF S
  <2> QED BY <1>1, <1>4, <1>5, UpTo
<1>7. Holds(len)
  <2>1. len \in 0..len
    BY <1>1
  <2> HIDE DEF Holds, Behind
  <2> QED BY <1>6, <2>1
<1>8. \A m \in Matches(v) : m.end <= len
  BY <1>1
<1> QED
  BY <1>7, <1>8 DEF len

-----------------------------------------------------------------------------
(* The matches are put in order. *)
LEMMA MatchesAreFinite ==
  ASSUME query \in Queries, NEW v \in Seq(Nat)
  PROVE  IsFiniteSet(Matches(v))
<1> DEFINE S == Matches(v)
           ps == query.patterns
           T == (0..Len(v)) \X (1..Len(ps))
           f == [m \in S |-> <<m.off, m.pattern>>]
<1>1. PatternsOk(ps) /\ Len(v) \in Nat
  BY QueryFacts
<1>2. DOMAIN ps = 1..Len(ps) /\ Len(ps) \in Nat
  BY <1>1 DEF PatternsOk
<1>3. S \subseteq Places3 /\ \A m \in S : m.off \in 0..Len(v) /\ m.pattern \in 1..Len(ps) /\ m.end = m.off + Len(ps[m.pattern])
  BY <1>1, <1>2, MatchFacts
<1>4. IsFiniteSet(T)
  <2>1. IsFiniteSet(0..Len(v)) /\ IsFiniteSet(1..Len(ps))
    BY SMTT(30), <1>1, <1>2, FS_Interval
  <2> QED BY <2>1, FS_Product
<1> HIDE DEF S, ps
<1>5. f \in [S -> T]
  BY <1>3
<1>6. ASSUME NEW m \in S, NEW n \in S, f[m] = f[n] PROVE m = n
  <2>1. m.off = n.off /\ m.pattern = n.pattern
    BY <1>6
  <2>2. m.end = n.end
    BY <1>3, <2>1
  <2>3. m \in Places3 /\ n \in Places3
    BY <1>3
  <2> QED BY <2>1, <2>2, <2>3 DEF Places3
<1>7. f \in Injection(S, T)
  <2> HIDE DEF f, T
  <2> QED BY <1>5, <1>6 DEF Injection, IsInjective
<1>8. IsFiniteSet(S)
  <2> HIDE DEF f, T
  <2> QED BY <1>4, <1>7, FS_Injection
<1> QED
  BY <1>8 DEF S

IsOrder(s, S, n) == s \in [1..n -> S] /\ Ordered(s)

LEMMA OrderExists ==
  ASSUME NEW T, T \subseteq Places3, IsFiniteSet(T)
  PROVE  \E s : IsOrder(s, T, Cardinality(T))
<1> DEFINE n == Cardinality(T)
           Holds(k) == \A R \in SUBSET T : Cardinality(R) = k => \E s : IsOrder(s, R, k)
           S == {k \in 0..n : Holds(k)}
<1>1. n \in Nat
  BY FS_CardinalityType
<1> HIDE DEF n
<1>2. 0 \in S
  <2>1. Holds(0)
    <3> SUFFICES ASSUME NEW R \in SUBSET T PROVE \E s : IsOrder(s, R, 0)
      OBVIOUS
    <3> DEFINE s == [k \in 1..0 |-> k]
    <3>1. DOMAIN s = {} /\ s \in [1..0 -> R]
      OBVIOUS
    <3> HIDE DEF s
    <3> QED BY <3>1 DEF IsOrder, Ordered
  <2> QED BY <1>1, <2>1
<1>3. ASSUME NEW k \in 0..(n - 1), k \in S PROVE k + 1 \in S
  <2>1. k \in Nat /\ k + 1 \in 0..n
    BY <1>1
  <2>2. Holds(k + 1)
    <3> SUFFICES ASSUME NEW R \in SUBSET T, Cardinality(R) = k + 1
                 PROVE  \E s : IsOrder(s, R, k + 1)
      OBVIOUS
    <3>1. IsFiniteSet(R) /\ R \subseteq Places3
      BY FS_Subset
    <3>2. R # {}
      BY <2>1, FS_EmptySet
    <3> DEFINE m == FirstOf(R)
               Q == R \ {m}
    <3>3. m \in R /\ \A u \in R : m = u \/ Before(m, u)
      BY <3>1, <3>2, FirstIs
    <3> HIDE DEF m
    <3>4. Cardinality(Q) = k /\ Q \in SUBSET T
      <4>1. Cardinality(R \ {m}) = Cardinality(R) - 1
        BY <3>1, <3>3, FS_RemoveElement
      <4> QED BY <4>1, <2>1
    <3>5. \A u \in Q : u \in R /\ Before(m, u)
      BY <3>3
    <3>6. PICK t : IsOrder(t, Q, k)
      <4> HIDE DEF Q
      <4> QED BY <1>3, <3>4
    <3> HIDE DEF Q
    <3> DEFINE s == [j \in 1..(k + 1) |-> IF j = 1 THEN m ELSE t[j - 1]]
    <3>7. t \in [1..k -> Q] /\ \A j, i \in 1..k : j < i => Before(t[j], t[i])
      BY <3>6 DEF IsOrder, Ordered
    <3>8. ASSUME NEW j \in 1..(k + 1)
          PROVE  s[j] \in R /\ (j # 1 => j - 1 \in 1..k /\ s[j] = t[j - 1] /\ t[j - 1] \in Q)
      BY <2>1, <3>3, <3>5, <3>7
    <3>9. s \in [1..(k + 1) -> R] /\ s[1] = m
      BY <2>1, <3>8
    <3> HIDE DEF s
    <3>10. ASSUME NEW j \in 1..(k + 1), NEW i \in 1..(k + 1), j < i
           PROVE  Before(s[j], s[i])
      <4>1. i # 1 /\ i - 1 \in 1..k /\ s[i] = t[i - 1] /\ t[i - 1] \in Q
        BY <2>1, <3>8, <3>10
      <4>2. CASE j = 1
        BY <3>5, <3>9, <4>1, <4>2
      <4>3. CASE j # 1
        <5>1. j - 1 \in 1..k /\ s[j] = t[j - 1] /\ j - 1 < i - 1
          BY <2>1, <3>8, <3>10, <4>3
        <5> QED BY <3>7, <4>1, <5>1
      <4> QED BY <4>2, <4>3
    <3>11. Ordered(s)
      BY <3>9, <3>10 DEF Ordered
    <3> QED BY <3>9, <3>11 DEF IsOrder
  <2> HIDE DEF Holds
  <2> QED BY <2>1, <2>2
<1>4. 0..n \subseteq S
  <2> HIDE DEF S
  <2> QED BY <1>1, <1>2, <1>3, UpTo
<1>5. n \in S
  BY <1>1, <1>4
<1> QED
  BY <1>5 DEF n

(* s has the elements of S, in order. *)
Lists(s, S) ==
  s \in Seq(S) /\ Ordered(s) /\ \A m \in S : \E k \in DOMAIN s : s[k] = m

LEMMA SortedIs ==
  ASSUME NEW S, S \subseteq Places3, IsFiniteSet(S)
  PROVE  Lists(Sorted(S), S)
<1> DEFINE n == Cardinality(S)
           s == Sorted(S)
<1>1. n \in Nat
  BY FS_CardinalityType
<1>2. s \in [1..n -> S] /\ Ordered(s)
  <2>1. \E t : IsOrder(t, S, n)
    BY OrderExists
  <2>2. s = CHOOSE t \in [1..n -> S] : Ordered(t)
    BY DEF Sorted
  <2> HIDE DEF s, n
  <2> QED BY <2>1, <2>2 DEF IsOrder
<1> HIDE DEF s
<1>3. ASSUME NEW j \in 1..n, NEW k \in 1..n, s[j] = s[k] PROVE j = k
  <2> SUFFICES ASSUME j # k PROVE FALSE
    OBVIOUS
  <2>1. Before(s[j], s[k]) \/ Before(s[k], s[j])
    <3>1. j < k \/ k < j
      BY <1>1
    <3> QED BY <1>2, <3>1 DEF Ordered
  <2>2. s[j] \in Places3
    BY <1>2
  <2>3. s[j].off \in Nat /\ s[j].end \in Nat /\ s[j].pattern \in Nat
    BY <2>2 DEF Places3
  <2> QED BY <1>3, <2>1, <2>3 DEF Before
<1>4. s \in Injection(1..n, S)
  BY <1>2, <1>3 DEF Injection, IsInjective
<1>5. Cardinality(1..n) = n
  BY <1>1, FS_Interval
<1>6. s \in Surjection(1..n, S)
  BY <1>4, <1>5, FS_Injection DEF n
<1>7. s \in Seq(S) /\ DOMAIN s = 1..n
  <2> HIDE DEF n
  <2> QED BY <1>1, <1>2
<1> QED
  BY <1>2, <1>6, <1>7 DEF Lists, Surjection, s

-----------------------------------------------------------------------------
(* What is asked for in the media p, up to e; it is reported, or a pattern *)
(* that begins at x or behind it and ends no later is still to come.       *)
Asked(p, q, e, j, o) ==
  /\ q.start <= o /\ o < e /\ StandsAt(p, q.patterns[j], o)
  /\ q.regex \/ o + Len(q.patterns[j]) <= e

Reported(q, hs, j, o) ==
  \E k \in DOMAIN hs :
    IF q.regex THEN hs[k].pattern = j /\ hs[k].off <= o /\ o < hs[k].end
               ELSE o < hs[k].end /\ hs[k].end <= o + Len(q.patterns[j])

Deferred(p, q, x, j, o) ==
  /\ ~q.regex
  /\ \E i \in DOMAIN q.patterns, n \in Nat :
       x <= n /\ n + Len(q.patterns[i]) <= o + Len(q.patterns[j]) /\ StandsAt(p, q.patterns[i], n)

(* Nothing before x was missed. *)
Complete(p, q, e, hs, x) ==
  \A j \in DOMAIN q.patterns, o \in Nat :
    Asked(p, q, e, j, o) /\ o < x => Reported(q, hs, j, o) \/ Deferred(p, q, x, j, o)

HitsOk(p, q, hs) ==
  /\ hs \in Seq(Places3) /\ Ordered(hs)
  /\ \A k \in DOMAIN hs : IsMatch(p, q.patterns, hs[k])

(* What one buffer has. *)
FoundOk(v, r, s) ==
  /\ HitsOk(v, query, s) /\ \A k \in DOMAIN s : s[k].off < r
  /\ \A j \in DOMAIN query.patterns, o \in Nat :
       StandsAt(v, query.patterns[j], o) /\ o < r => Reported(query, s, j, o) \/ Deferred(v, query, r, j, o)

LEMMA FoundIsAll ==
  ASSUME query \in Queries, NEW v \in Seq(Nat)
  PROVE  FoundOk(v, Reportable(v), Found(v))
<1> DEFINE r == Reportable(v)
           C == FindAll(v)
           S == {m \in C : m.off < r}
           s == Found(v)
           ps == query.patterns
<1>1. PICK f : Searched(f, v) /\ C = f[Len(v)]
  BY FindAllLoop
<1>2. C \subseteq Matches(v)
  <2>1. Len(v) \in 0..Len(v)
    OBVIOUS
  <2> QED BY <1>1, <2>1 DEF Searched
<1>3. /\ query.regex \in BOOLEAN /\ PatternsOk(ps)
      /\ \A m \in C : IsMatch(v, ps, m) /\ m \in Places3 /\ m.off \in Nat /\ m.end \in Nat /\ m.end = m.off + Len(ps[m.pattern])
                      /\ m.pattern \in DOMAIN ps
  BY <1>2, QueryFacts, MatchesAre, MatchFacts
<1>4. r \in Nat
  BY GrepAssumption DEF Reportable, Least
<1>5. /\ query.regex => \A m \in Matches(v) : \E n \in C : n.pattern = m.pattern /\ n.off <= m.off /\ m.off < n.end
      /\ ~query.regex => \A m \in Matches(v) : \E n \in C : m.off < n.end /\ n.end <= m.end
  BY <1>1, RegexFinds, KeywordFinds
<1>6. S \subseteq Places3 /\ IsFiniteSet(S)
  <2>1. S \in SUBSET Matches(v)
    BY <1>2
  <2>2. S \subseteq Places3
    BY <1>3
  <2> HIDE DEF S
  <2> QED BY <2>1, <2>2, MatchesAreFinite, FS_Subset
<1>7. s = Sorted(S)
  BY DEF Found
<1>8. s \in Seq(S) /\ Ordered(s) /\ \A m \in S : \E k \in DOMAIN s : s[k] = m
  <2> HIDE DEF S, s
  <2> QED BY <1>6, <1>7, SortedIs DEF Lists
<1>9. \A k \in DOMAIN s : s[k] \in S
  <2> HIDE DEF S, s
  <2> QED BY <1>8
<1>10. s \in Seq(Places3)
  <2> HIDE DEF S, s
  <2> QED BY <1>6, <1>8
<1>11. HitsOk(v, query, s) /\ \A k \in DOMAIN s : s[k].off < r
  <2> HIDE DEF s, C, r
  <2> QED BY <1>3, <1>8, <1>9, <1>10 DEF HitsOk
<1>12. ASSUME NEW j \in DOMAIN ps, NEW o \in Nat, StandsAt(v, ps[j], o), o < r
       PROVE  Reported(query, s, j, o) \/ Deferred(v, query, r, j, o)
  <2> DEFINE m == [off |-> o, end |-> o + Len(ps[j]), pattern |-> j]
  <2>1. Len(ps[j]) \in Nat \ {0}
    BY <1>3 DEF PatternsOk
  <2>2. m \in Matches(v)
    <3>1. m \in Spots(ps) /\ m.off = o /\ m.end = o + Len(ps[j]) /\ m.pattern = j
      BY <2>1 DEF Spots
    <3>2. IsMatch(v, ps, m)
      BY <1>12, <3>1 DEF IsMatch
    <3> QED BY <3>2, MatchesAre
  <2>3. m.off = o /\ m.end = o + Len(ps[j]) /\ m.pattern = j
    OBVIOUS
  <2> HIDE DEF m
  <2>4. CASE query.regex
    <3>1. PICK n \in C : n.pattern = j /\ n.off <= o /\ o < n.end
      BY <1>5, <2>2, <2>3, <2>4
    <3>2. n \in S
      BY <1>3, <1>4, <1>12, <3>1
    <3>3. PICK k \in DOMAIN s : s[k] = n
      <4> HIDE DEF S, s
      <4> QED BY <1>8, <3>2
    <3> QED BY <2>4, <3>1, <3>3 DEF Reported
  <2>5. CASE ~query.regex
    <3>1. PICK n \in C : o < n.end /\ n.end <= o + Len(ps[j])
      BY <1>5, <2>2, <2>3, <2>5
    <3>2. CASE n.off < r
      <4>1. n \in S
        BY <3>1, <3>2
      <4>2. PICK k \in DOMAIN s : s[k] = n
        <5> HIDE DEF S, s
        <5> QED BY <1>8, <4>1
      <4> QED BY <2>5, <3>1, <4>2 DEF Reported
    <3>3. CASE ~(n.off < r)
      <4>1. /\ r <= n.off /\ n.off \in Nat /\ n.off + Len(ps[n.pattern]) <= o + Len(ps[j])
            /\ n.pattern \in DOMAIN ps /\ StandsAt(v, ps[n.pattern], n.off)
        BY <1>3, <1>4, <3>1, <3>3 DEF IsMatch
      <4> QED BY <2>5, <4>1 DEF Deferred
    <3> QED BY <3>2, <3>3
  <2> QED BY <1>3, <2>4, <2>5
<1> QED
  BY <1>11, <1>12 DEF FoundOk

-----------------------------------------------------------------------------
(* What a buffer that begins at x has is what the media has there. *)
Shifted(s, x) == [k \in DOMAIN s |-> [s[k] EXCEPT !.off = @ + x, !.end = @ + x]]

LEMMA ShiftedIs ==
  ASSUME NEW q \in Queries, NEW p \in Seq(Nat), NEW x \in Nat, NEW v, Part(v, p, x),
         NEW s, HitsOk(v, q, s)
  PROVE  /\ HitsOk(p, q, Shifted(s, x)) /\ DOMAIN Shifted(s, x) = DOMAIN s /\ Len(Shifted(s, x)) = Len(s)
         /\ \A k \in DOMAIN s : /\ Shifted(s, x)[k].off = s[k].off + x /\ Shifted(s, x)[k].end = s[k].end + x
                                /\ Shifted(s, x)[k].pattern = s[k].pattern
                                /\ s[k].off \in Nat /\ s[k].end \in Nat
<1> DEFINE t == Shifted(s, x)
           ps == q.patterns
<1>1. s \in Seq(Places3) /\ PatternsOk(ps) /\ v \in Seq(Nat)
  BY QueryFacts DEF HitsOk, Part
<1>2. ASSUME NEW k \in DOMAIN s
      PROVE  /\ t[k].off = s[k].off + x /\ t[k].end = s[k].end + x /\ t[k].pattern = s[k].pattern
             /\ s[k].off \in Nat /\ s[k].end \in Nat /\ t[k] \in Places3
             /\ IsMatch(p, ps, t[k])
  <2>1. s[k] \in Places3
    BY <1>1
  <2>2. t[k] = [s[k] EXCEPT !.off = @ + x, !.end = @ + x]
    BY DEF Shifted
  <2>3. t[k] = [off |-> s[k].off + x, end |-> s[k].end + x, pattern |-> s[k].pattern]
    BY <2>1, <2>2 DEF Places3
  <2>4. s[k].off \in Nat /\ s[k].end \in Nat /\ s[k].pattern \in Nat
    BY <2>1 DEF Places3
  <2>5. t[k].off = s[k].off + x /\ t[k].end = s[k].end + x /\ t[k].pattern = s[k].pattern
    BY <2>3
  <2>6. t[k] \in Places3
    BY <2>3, <2>4 DEF Places3
  <2>7. IsMatch(v, ps, s[k])
    BY DEF HitsOk
  <2> DEFINE w == ps[s[k].pattern]
  <2>8. s[k].pattern \in DOMAIN ps /\ s[k].end = s[k].off + Len(w) /\ StandsAt(v, w, s[k].off)
    BY <2>7 DEF IsMatch, Spots
  <2>9. w \in Seq(Nat) /\ Len(w) \in Nat
    BY <1>1, <2>8 DEF PatternsOk
  <2>10. StandsAt(p, w, t[k].off)
    <3>1. t[k].off = x + s[k].off /\ s[k].off + Len(w) <= Len(v)
      BY <2>4, <2>5, <2>8 DEF StandsAt
    <3> HIDE DEF w, t
    <3> QED BY <2>4, <2>8, <2>9, <3>1, StandsInPart
  <2>11. t[k].end = t[k].off + Len(w)
    BY <2>4, <2>5, <2>8, <2>9
  <2>12. t[k] \in Spots(ps)
    BY <2>3, <2>4, <2>8 DEF Spots
  <2>13. IsMatch(p, ps, t[k])
    BY <2>5, <2>10, <2>11, <2>12 DEF IsMatch
  <2> QED BY <2>4, <2>5, <2>6, <2>13
<1>3. DOMAIN t = DOMAIN s /\ Len(t) = Len(s) /\ t \in Seq(Places3)
  <2>1. DOMAIN s = 1..Len(s) /\ Len(s) \in Nat /\ DOMAIN t = DOMAIN s
    BY <1>1 DEF Shifted
  <2>2. t \in [1..Len(s) -> Places3]
    <3>1. t = [k \in 1..Len(s) |-> t[k]]
      BY <2>1 DEF Shifted
    <3> HIDE DEF t
    <3> QED BY <1>2, <2>1, <3>1
  <2> HIDE DEF t
  <2> QED BY <2>1, <2>2
<1>4. Ordered(t)
  <2> SUFFICES ASSUME NEW j \in DOMAIN s, NEW k \in DOMAIN s, j < k PROVE Before(t[j], t[k])
    BY <1>3 DEF Ordered
  <2>1. Before(s[j], s[k])
    BY DEF HitsOk, Ordered
  <2>2. /\ t[j].off = s[j].off + x /\ t[j].end = s[j].end + x /\ t[j].pattern = s[j].pattern
        /\ t[k].off = s[k].off + x /\ t[k].end = s[k].end + x /\ t[k].pattern = s[k].pattern
        /\ s[j].off \in Nat /\ s[k].off \in Nat /\ s[j].end \in Nat /\ s[k].end \in Nat
    BY <1>2
  <2> HIDE DEF t
  <2> QED BY <2>1, <2>2 DEF Before
<1>5. HitsOk(p, q, t)
  <2> HIDE DEF t
  <2> QED BY <1>2, <1>3, <1>4 DEF HitsOk
<1> QED
  BY <1>2, <1>3, <1>5

(* The buffer is long enough for what begins in its first r bytes. *)
LongEnough(v, p, x, e, want) ==
  /\ Len(v) = want \/ x + Len(v) = Len(p)
  /\ want = Least(ChunkLength(e - x), ChunkLength(Chunk))

LEMMA StandsInBuffer ==
  ASSUME NEW p \in Seq(Nat), NEW x \in Nat, NEW v, Part(v, p, x), NEW e \in Nat, x < e,
         NEW want, LongEnough(v, p, x, e, want),
         NEW w \in Seq(Nat), Len(w) <= Overlap + 1, NEW o \in Nat, o < Reportable(v), NEW y, y = x + o, y < e
  PROVE  StandsAt(p, w, y) => StandsAt(v, w, o)
<1> SUFFICES ASSUME StandsAt(p, w, y) PROVE StandsAt(v, w, o)
  OBVIOUS
<1>1. Len(v) \in Nat /\ Len(w) \in Nat /\ Len(p) \in Nat /\ Chunk \in Nat /\ Overlap \in Nat
  BY GrepAssumption DEF Part
<1>2. y + Len(w) <= Len(p)
  BY DEF StandsAt
<1>3. o < Chunk
  BY <1>1 DEF Reportable, Least
<1>4. want = (e - x) + Overlap \/ want = Chunk + Overlap
  BY <1>1 DEF LongEnough, Least, ChunkLength
<1>5. o + Len(w) <= Len(v)
  <2>1. CASE x + Len(v) = Len(p)
    BY <1>1, <1>2, <2>1
  <2>2. CASE Len(v) = want
    BY <1>1, <1>3, <1>4, <2>2
  <2> QED BY <2>1, <2>2 DEF LongEnough
<1> QED
  BY <1>5, StandsInPart

(* Of what begins in the chunk, what is not reported comes later. *)
LEMMA ChunkReports ==
  ASSUME query \in Queries, NEW p \in Seq(Nat), NEW x \in Nat, NEW v, Part(v, p, x), NEW e \in Nat, x < e,
         NEW want, LongEnough(v, p, x, e, want), PatternsFit,
         NEW s, FoundOk(v, Reportable(v), s), NEW y, y = x + Reportable(v),
         NEW j \in DOMAIN query.patterns, NEW o \in Nat, Asked(p, query, e, j, o), x <= o, o < y
  PROVE  Reported(query, Shifted(s, x), j, o) \/ Deferred(p, query, y, j, o)
<1> DEFINE ps == query.patterns
           r == Reportable(v)
           b == o - x
           t == Shifted(s, x)
<1>1. PatternsOk(ps) /\ r \in Nat /\ v \in Seq(Nat) /\ query.regex \in BOOLEAN
  BY QueryFacts, GrepAssumption DEF Part, Reportable, Least
<1>2. b \in Nat /\ b < r /\ o = x + b /\ o < e /\ StandsAt(p, ps[j], o)
  BY <1>1 DEF Asked
<1>3. ps[j] \in Seq(Nat) /\ Len(ps[j]) \in Nat /\ Len(ps[j]) <= Overlap + 1
  BY <1>1 DEF PatternsOk, PatternsFit
<1>4. HitsOk(v, query, s)
  BY DEF FoundOk
<1>5. /\ DOMAIN t = DOMAIN s
      /\ \A k \in DOMAIN s : /\ t[k].off = s[k].off + x /\ t[k].end = s[k].end + x /\ t[k].pattern = s[k].pattern
                             /\ s[k].off \in Nat /\ s[k].end \in Nat
  BY <1>4, ShiftedIs
<1> HIDE DEF b, t
<1>6. StandsAt(v, ps[j], b)
  BY <1>2, <1>3, StandsInBuffer
<1>7. Reported(query, s, j, b) \/ Deferred(v, query, r, j, b)
  BY <1>2, <1>6 DEF FoundOk
<1>8. CASE Reported(query, s, j, b)
  <2>1. PICK k \in DOMAIN s : IF query.regex THEN s[k].pattern = j /\ s[k].off <= b /\ b < s[k].end
                                             ELSE b < s[k].end /\ s[k].end <= b + Len(ps[j])
    BY <1>8 DEF Reported
  <2>2. IF query.regex THEN t[k].pattern = j /\ t[k].off <= o /\ o < t[k].end
                       ELSE o < t[k].end /\ t[k].end <= o + Len(ps[j])
    <3>1. /\ t[k].off = s[k].off + x /\ t[k].end = s[k].end + x /\ t[k].pattern = s[k].pattern
          /\ s[k].off \in Nat /\ s[k].end \in Nat
      BY <1>5
    <3>2. CASE query.regex
      <4>1. s[k].pattern = j /\ s[k].off <= b /\ b < s[k].end
        BY <2>1, <3>2
      <4> QED BY <1>2, <3>1, <3>2, <4>1
    <3>3. CASE ~query.regex
      <4>1. b < s[k].end /\ s[k].end <= b + Len(ps[j])
        BY <2>1, <3>3
      <4>2. o < t[k].end /\ t[k].end <= o + Len(ps[j])
        <5> DEFINE lj == Len(ps[j])
        <5>1. /\ x \in Nat /\ b \in Nat /\ lj \in Nat /\ o = x + b /\ s[k].end \in Nat
              /\ t[k].end = s[k].end + x /\ b < s[k].end /\ s[k].end <= b + lj
          BY <1>2, <1>3, <3>1, <4>1
        <5> HIDE DEF lj
        <5>2. o < t[k].end /\ t[k].end <= o + lj
          BY <5>1
        <5> QED BY <5>2 DEF lj
      <4> QED BY <3>3, <4>2
    <3> QED BY <1>1, <3>2, <3>3
  <2>3. Reported(query, t, j, o)
    BY <1>5, <2>2 DEF Reported
  <2> QED BY <2>3 DEF t
<1>9. CASE Deferred(v, query, r, j, b)
  <2>1. PICK i \in DOMAIN ps, n \in Nat : r <= n /\ n + Len(ps[i]) <= b + Len(ps[j]) /\ StandsAt(v, ps[i], n)
    BY <1>9 DEF Deferred
  <2>2. ps[i] \in Seq(Nat) /\ Len(ps[i]) \in Nat /\ n + Len(ps[i]) <= Len(v)
    BY <1>1, <2>1 DEF PatternsOk, StandsAt
  <2> DEFINE z == x + n
  <2>3. z \in Nat /\ y <= z /\ z + Len(ps[i]) <= o + Len(ps[j])
    <3> DEFINE li == Len(ps[i])
               lj == Len(ps[j])
    <3>1. /\ x \in Nat /\ r \in Nat /\ b \in Nat /\ n \in Nat /\ li \in Nat /\ lj \in Nat
          /\ y = x + r /\ o = x + b /\ r <= n /\ n + li <= b + lj
      BY <1>1, <1>2, <1>3, <2>1, <2>2
    <3> HIDE DEF li, lj, r
    <3>2. z \in Nat /\ y <= z /\ z + li <= o + lj
      BY <3>1
    <3> QED BY <3>2 DEF li, lj
  <2>4. z = x + n
    OBVIOUS
  <2> HIDE DEF z
  <2>5. StandsAt(p, ps[i], z)
    BY <2>1, <2>2, <2>4, StandsInPart
  <2>6. ~query.regex
    BY <1>9 DEF Deferred
  <2> QED BY <2>3, <2>5, <2>6 DEF Deferred
<1> QED
  BY <1>7, <1>8, <1>9

-----------------------------------------------------------------------------
(* The hits of a chunk come after those of the chunks before it. *)
LEMMA JoinedIs ==
  ASSUME NEW q, NEW p, NEW a, HitsOk(p, q, a), NEW b, HitsOk(p, q, b),
         NEW x \in Nat, \A k \in DOMAIN a : a[k].off < x, \A k \in DOMAIN b : x <= b[k].off
  PROVE  HitsOk(p, q, a \o b) /\ Len(a \o b) = Len(a) + Len(b)
<1> DEFINE c == a \o b
<1>1. a \in Seq(Places3) /\ b \in Seq(Places3)
  BY DEF HitsOk
<1>2. /\ c \in Seq(Places3) /\ Len(c) = Len(a) + Len(b) /\ Len(a) \in Nat /\ Len(b) \in Nat
      /\ DOMAIN c = 1..(Len(a) + Len(b)) /\ DOMAIN a = 1..Len(a) /\ DOMAIN b = 1..Len(b)
      /\ \A k \in DOMAIN c : c[k] = IF k <= Len(a) THEN a[k] ELSE b[k - Len(a)]
  BY <1>1
<1> HIDE DEF c
<1>3. ASSUME NEW k \in DOMAIN c
      PROVE  IF k <= Len(a) THEN k \in DOMAIN a /\ c[k] = a[k]
             ELSE k - Len(a) \in DOMAIN b /\ c[k] = b[k - Len(a)]
  BY <1>2
<1>4. ASSUME NEW k \in DOMAIN c PROVE IsMatch(p, q.patterns, c[k])
  BY <1>3 DEF HitsOk
<1>5. ASSUME NEW j \in DOMAIN c, NEW k \in DOMAIN c, j < k PROVE Before(c[j], c[k])
  <2>1. j \in Nat /\ k \in Nat
    BY <1>2
  <2>2. CASE k <= Len(a)
    <3>1. j \in DOMAIN a /\ k \in DOMAIN a /\ c[j] = a[j] /\ c[k] = a[k]
      BY <1>2, <1>3, <1>5, <2>1, <2>2
    <3> QED BY <1>5, <3>1 DEF HitsOk, Ordered
  <2>3. CASE ~(k <= Len(a)) /\ j <= Len(a)
    <3>1. j \in DOMAIN a /\ c[j] = a[j] /\ k - Len(a) \in DOMAIN b /\ c[k] = b[k - Len(a)]
      BY <1>3, <2>3
    <3>2. c[j].off < x /\ x <= c[k].off /\ c[j] \in Places3 /\ c[k] \in Places3
      BY <1>1, <3>1
    <3>3. c[j].off \in Nat /\ c[k].off \in Nat
      BY <3>2 DEF Places3
    <3> QED BY <3>2, <3>3 DEF Before
  <2>4. CASE ~(k <= Len(a)) /\ ~(j <= Len(a))
    <3>1. /\ j - Len(a) \in DOMAIN b /\ c[j] = b[j - Len(a)] /\ k - Len(a) \in DOMAIN b /\ c[k] = b[k - Len(a)]
          /\ j - Len(a) < k - Len(a)
      BY <1>2, <1>3, <1>5, <2>1, <2>4
    <3> QED BY <3>1 DEF HitsOk, Ordered
  <2> QED BY <2>2, <2>3, <2>4
<1>6. HitsOk(p, q, c)
  BY <1>2, <1>4, <1>5 DEF HitsOk, Ordered
<1> QED
  BY <1>2, <1>6 DEF c

LEMMA ReportedJoins ==
  ASSUME NEW q, NEW a \in Seq(Places3), NEW b \in Seq(Places3), NEW j, NEW o,
         Reported(q, a, j, o) \/ Reported(q, b, j, o)
  PROVE  Reported(q, a \o b, j, o)
<1> DEFINE c == a \o b
<1>1. /\ Len(a) \in Nat /\ Len(b) \in Nat
      /\ DOMAIN c = 1..(Len(a) + Len(b)) /\ DOMAIN a = 1..Len(a) /\ DOMAIN b = 1..Len(b)
      /\ \A k \in DOMAIN c : c[k] = IF k <= Len(a) THEN a[k] ELSE b[k - Len(a)]
  OBVIOUS
<1> HIDE DEF c
<1>2. ASSUME NEW k \in DOMAIN a PROVE k \in DOMAIN c /\ c[k] = a[k]
  BY <1>1
<1>3. ASSUME NEW k \in DOMAIN b PROVE \E m \in DOMAIN c : c[m] = b[k]
  <2>1. k + Len(a) \in DOMAIN c /\ ~(k + Len(a) <= Len(a)) /\ (k + Len(a)) - Len(a) = k
    BY <1>1
  <2>2. c[k + Len(a)] = b[k]
    BY <1>1, <2>1
  <2> QED BY <2>1, <2>2
<1>4. Reported(q, c, j, o)
  <2>1. CASE Reported(q, a, j, o)
    BY <1>2, <2>1 DEF Reported
  <2>2. CASE Reported(q, b, j, o)
    BY <1>3, <2>2 DEF Reported
  <2> QED BY <2>1, <2>2
<1> QED
  BY <1>4 DEF c

LEMMA JoinedHas ==
  ASSUME NEW a \in Seq(Places3), NEW b \in Seq(Places3), NEW k \in DOMAIN (a \o b)
  PROVE  (k \in DOMAIN a /\ (a \o b)[k] = a[k]) \/ \E m \in DOMAIN b : (a \o b)[k] = b[m]
<1>1. /\ Len(a) \in Nat /\ Len(b) \in Nat /\ DOMAIN a = 1..Len(a) /\ DOMAIN b = 1..Len(b)
      /\ k \in 1..(Len(a) + Len(b)) /\ (a \o b)[k] = IF k <= Len(a) THEN a[k] ELSE b[k - Len(a)]
  OBVIOUS
<1>2. CASE k <= Len(a)
  BY <1>1, <1>2
<1>3. CASE ~(k <= Len(a))
  <2>1. k - Len(a) \in DOMAIN b
    BY <1>1, <1>3
  <2> QED BY <1>1, <1>3, <2>1
<1> QED
  BY <1>2, <1>3

LEMMA FirstHitsOk ==
  ASSUME NEW q, NEW p, NEW b, HitsOk(p, q, b), NEW n \in Nat, n <= Len(b)
  PROVE  /\ HitsOk(p, q, SubSeq(b, 1, n)) /\ Len(SubSeq(b, 1, n)) = n
         /\ \A k \in DOMAIN SubSeq(b, 1, n) : k \in DOMAIN b /\ SubSeq(b, 1, n)[k] = b[k]
<1> DEFINE c == SubSeq(b, 1, n)
<1>1. b \in Seq(Places3)
  BY DEF HitsOk
<1>2. c \in Seq(Places3) /\ Len(c) = n /\ DOMAIN c = 1..n /\ DOMAIN b = 1..Len(b) /\ \A k \in 1..n : c[k] = b[k]
  BY <1>1
<1> HIDE DEF c
<1>3. \A k \in DOMAIN c : k \in DOMAIN b /\ c[k] = b[k]
  <2>1. Len(b) \in Nat
    BY <1>1
  <2> QED BY <1>2, <2>1
<1>4. HitsOk(p, q, c)
  BY <1>2, <1>3 DEF HitsOk, Ordered
<1> QED
  BY <1>2, <1>3, <1>4 DEF c

(* A chunk carries on what is known of those before it. *)
LEMMA CompleteGrows ==
  ASSUME NEW p, NEW q \in Queries, NEW e \in Nat, NEW x \in Nat, NEW y \in Nat, x <= y,
         NEW a \in Seq(Places3), NEW b \in Seq(Places3), Complete(p, q, e, a, x),
         \A j \in DOMAIN q.patterns, o \in Nat :
           Asked(p, q, e, j, o) /\ x <= o /\ o < y => Reported(q, b, j, o) \/ Deferred(p, q, y, j, o)
  PROVE  Complete(p, q, e, a \o b, y)
<1>1. PatternsOk(q.patterns) /\ q.start \in Nat
  BY QueryFacts
<1> SUFFICES ASSUME NEW j \in DOMAIN q.patterns, NEW o \in Nat, Asked(p, q, e, j, o), o < y
             PROVE  Reported(q, a \o b, j, o) \/ Deferred(p, q, y, j, o)
  BY DEF Complete
<1>2. CASE x <= o
  BY <1>2, ReportedJoins
<1>3. CASE ~(x <= o)
  <2>1. CASE Reported(q, a, j, o)
    BY <2>1, ReportedJoins
  <2>2. CASE Deferred(p, q, x, j, o)
    <3>1. PICK i \in DOMAIN q.patterns, n \in Nat :
            /\ ~q.regex /\ x <= n /\ n + Len(q.patterns[i]) <= o + Len(q.patterns[j])
            /\ StandsAt(p, q.patterns[i], n)
      BY <2>2 DEF Deferred
    <3>2. Len(q.patterns[i]) \in Nat \ {0} /\ Len(q.patterns[j]) \in Nat \ {0}
      BY <1>1 DEF PatternsOk
    <3>3. CASE y <= n
      BY <3>1, <3>3 DEF Deferred
    <3>4. CASE ~(y <= n)
      <4>1. o + Len(q.patterns[j]) <= e /\ q.start <= o
        BY <3>1 DEF Asked
      <4>2. n + Len(q.patterns[i]) <= e /\ n < e /\ q.start <= n /\ o <= n
        BY SMTT(30), <1>1, <1>3, <3>1, <3>2, <4>1
      <4>3. Asked(p, q, e, i, n)
        BY <3>1, <4>2 DEF Asked
      <4>4. CASE Reported(q, b, i, n)
        <5>1. PICK k \in DOMAIN b : n < b[k].end /\ b[k].end <= n + Len(q.patterns[i])
          BY <3>1, <4>4 DEF Reported
        <5>2. b[k] \in Places3
          OBVIOUS
        <5>5. b[k].end \in Nat
          BY <5>2 DEF Places3
        <5>3. o < b[k].end /\ b[k].end <= o + Len(q.patterns[j])
          BY SMTT(30), <3>1, <3>2, <4>2, <5>1, <5>5
        <5>4. Reported(q, b, j, o)
          BY <3>1, <5>3 DEF Reported
        <5> QED BY <5>4, ReportedJoins
      <4>5. CASE Deferred(p, q, y, i, n)
        <5>1. PICK h \in DOMAIN q.patterns, m \in Nat :
                /\ y <= m /\ m + Len(q.patterns[h]) <= n + Len(q.patterns[i]) /\ StandsAt(p, q.patterns[h], m)
          BY <4>5 DEF Deferred
        <5>2. Len(q.patterns[h]) \in Nat
          BY <1>1 DEF PatternsOk
        <5>3. m + Len(q.patterns[h]) <= o + Len(q.patterns[j])
          BY SMTT(30), <3>1, <3>2, <5>1, <5>2
        <5> QED BY <3>1, <5>1, <5>3 DEF Deferred
      <4> QED BY <3>1, <3>4, <4>3, <4>4, <4>5
    <3> QED BY <3>3, <3>4
  <2> QED BY <1>3, <2>1, <2>2 DEF Complete
<1> QED
  BY <1>2, <1>3

AllReported(p, q, e, hs) ==
  \A j \in DOMAIN q.patterns, o \in Nat : Asked(p, q, e, j, o) => Reported(q, hs, j, o)

LEMMA CompleteAtTheEnd ==
  ASSUME NEW p, NEW q \in Queries, NEW e \in Nat, NEW x \in Nat, e <= x, NEW hs, Complete(p, q, e, hs, x)
  PROVE  AllReported(p, q, e, hs)
<1>1. PatternsOk(q.patterns)
  BY QueryFacts
<1> SUFFICES ASSUME NEW j \in DOMAIN q.patterns, NEW o \in Nat, Asked(p, q, e, j, o), Deferred(p, q, x, j, o)
             PROVE  FALSE
  <2> SUFFICES ASSUME NEW j \in DOMAIN q.patterns, NEW o \in Nat, Asked(p, q, e, j, o)
               PROVE  Reported(q, hs, j, o)
    BY DEF AllReported
  <2>1. o < x
    BY DEF Asked
  <2> QED BY <2>1 DEF Complete
<1>2. PICK i \in DOMAIN q.patterns, n \in Nat :
        ~q.regex /\ x <= n /\ n + Len(q.patterns[i]) <= o + Len(q.patterns[j])
  BY DEF Deferred
<1>3. o + Len(q.patterns[j]) <= e
  BY <1>2 DEF Asked
<1>4. Len(q.patterns[i]) \in Nat \ {0} /\ Len(q.patterns[j]) \in Nat
  BY <1>1 DEF PatternsOk
<1> QED
  BY <1>2, <1>3, <1>4

-----------------------------------------------------------------------------
(* The search. *)
AskedEnd(q, s) == IF q.length > 0 THEN Least(q.start + q.length, s.size) ELSE s.size

WantOf(e, x) == Least(ChunkLength(e - x), ChunkLength(Chunk))

(* While a chunk is read, that chunk is what is read, or has been. *)
Awaits(c, a, x, n) ==
  IF c # NoCall THEN c.off = x /\ c.want = n ELSE a.off = x /\ a.want = n

Room(q, hs) == q.max = 0 \/ Len(hs) < q.max

GrepInv ==
  /\ ReaderInv
  /\ query \in Queries /\ gpos \in Nat /\ gphase \in {"read", "wait", "done"}
  /\ HitsOk(source.plain, query, hits) /\ (query.max > 0 => Len(hits) <= query.max)
  /\ gphase # "done" =>
       /\ \A k \in DOMAIN hits : hits[k].off < gpos
       /\ Room(query, hits)
       /\ Damaged(source) \/ Complete(source.plain, query, AskedEnd(query, source), hits, gpos)
  /\ gphase = "wait" =>
       /\ gpos < AskedEnd(query, source)
       /\ Awaits(call, answer, gpos, WantOf(AskedEnd(query, source), gpos))
  /\ gphase = "done" /\ ~Damaged(source) /\ Room(query, hits) =>
       AllReported(source.plain, query, AskedEnd(query, source), hits)

LEMMA EndIs ==
  ASSUME NEW q \in Queries, NEW s \in Sources
  PROVE  AskedEnd(q, s) \in Nat /\ AskedEnd(q, s) <= s.size
<1>1. q.start \in Nat /\ q.length \in Nat /\ s.size \in Nat
  BY QueryFacts, SourceFacts
<1> QED
  BY <1>1 DEF AskedEnd, Least

LEMMA WantIs ==
  ASSUME NEW e \in Nat, NEW x \in Nat, x < e
  PROVE  WantOf(e, x) \in Nat \ {0}
BY GrepAssumption DEF WantOf, Least, ChunkLength

LEMMA ReaderStepInGrep ==
  ASSUME SplitsAreWhole, GrepInv, ReaderStep, UNCHANGED grepVars
  PROVE  GrepInv'
<1>1. ReaderInv' /\ source' = source
  BY ReaderStepKeeps DEF GrepInv
<1>2. query' = query /\ gpos' = gpos /\ gphase' = gphase /\ hits' = hits
  BY DEF grepVars
<1>3. ASSUME NEW n, Awaits(call, answer, gpos, n) PROVE Awaits(call', answer', gpos, n)
  BY <1>3, ReaderStepAnswers DEF Awaits
<1> QED
  BY <1>1, <1>2, <1>3 DEF GrepInv

LEMMA GrepStutters ==
  ASSUME GrepInv, UNCHANGED <<vars, grepVars>>
  PROVE  GrepInv'
<1>1. ReaderInv' /\ source' = source /\ call' = call /\ answer' = answer
  BY ReaderStutters DEF GrepInv, vars
<1>2. query' = query /\ gpos' = gpos /\ gphase' = gphase /\ hits' = hits
  BY DEF grepVars
<1> QED
  BY <1>1, <1>2 DEF GrepInv

LEMMA GrepReadKeeps ==
  ASSUME GrepInv, GrepRead
  PROVE  GrepInv'
<1> DEFINE e == AskedEnd(query, source)
<1>1. /\ gphase = "read" /\ query' = query /\ gpos' = gpos /\ hits' = hits
      /\ query \in Queries /\ source \in Sources /\ gpos \in Nat
  BY DEF GrepRead, GrepInv, ReaderInv
<1>2. GrepEnd = e
  BY DEF GrepEnd, AskedEnd
<1>3. e \in Nat /\ e <= source.size /\ source.size \in Nat
  BY <1>1, EndIs, SourceFacts
<1>4. CASE gpos < e
  <2> DEFINE n == WantOf(e, gpos)
  <2>1. Pread(gpos, n) /\ gphase' = "wait"
    BY <1>1, <1>2, <1>4 DEF GrepRead, WantOf
  <2>2. n \in Nat \ {0}
    BY <1>1, <1>3, <1>4, WantIs
  <2> HIDE DEF n
  <2>3. ReaderInv' /\ source' = source
    BY <1>1, <2>1, <2>2, PreadKeeps DEF GrepInv
  <2>4. call' = [off |-> gpos, want |-> n, len |-> Least(n, source.size - gpos)]
    BY <1>1, <1>3, <1>4, <2>1, <2>2 DEF Pread
  <2>5. call' # NoCall
    BY <2>2, <2>4 DEF NoCall
  <2>6. Awaits(call', answer', gpos, n)
    BY <2>4, <2>5 DEF Awaits
  <2> HIDE DEF e
  <2> QED BY <1>1, <1>4, <2>1, <2>3, <2>6 DEF GrepInv, n, e
<1>5. CASE ~(gpos < e)
  <2>1. gphase' = "done" /\ UNCHANGED vars
    BY <1>2, <1>5 DEF GrepRead
  <2>2. ReaderInv' /\ source' = source
    BY <2>1, ReaderStutters DEF GrepInv
  <2>3. Damaged(source) \/ AllReported(source.plain, query, e, hits)
    <3>1. Damaged(source) \/ Complete(source.plain, query, e, hits, gpos)
      BY <1>1 DEF GrepInv
    <3>2. e <= gpos
      BY <1>1, <1>3, <1>5
    <3> HIDE DEF e
    <3> QED BY <1>1, <1>3, <3>1, <3>2, CompleteAtTheEnd
  <2> QED BY <1>1, <2>1, <2>2, <2>3 DEF GrepInv
<1> QED
  BY <1>4, <1>5

(* What a chunk has, when it has come. *)
ChunkOk(s, x, n, v) ==
  Part(v, s.plain, x) /\ n \in Nat \ {0} /\ (Damaged(s) \/ Len(v) = n \/ x + Len(v) = s.size)

WantedNow == WantOf(AskedEnd(query, source), gpos)

LEMMA ChunkAnswers ==
  ASSUME GrepInv, gphase = "wait", ~Busy
  PROVE  ChunkOk(source, gpos, WantedNow, answer.data)
<1> DEFINE e == AskedEnd(query, source)
<1>1. query \in Queries /\ source \in Sources /\ gpos \in Nat /\ gpos < e /\ M!Right(answer) /\ answer.data \in Seq(Nat)
  BY DEF GrepInv, ReaderInv
<1>2. e \in Nat /\ e <= source.size /\ source.size \in Nat
  BY <1>1, EndIs, SourceFacts
<1>3. answer.off = gpos /\ answer.want = WantedNow
  BY DEF GrepInv, Awaits, Busy, WantedNow
<1>4. WantedNow \in Nat \ {0}
  BY <1>1, <1>2, WantIs DEF WantedNow
<1>5. gpos <= source.size
  BY <1>1, <1>2
<1>6. AnswersWith(source, gpos, WantedNow, answer.data)
  <2> HIDE DEF e
  <2> QED BY <1>1, <1>3, <1>4, <1>5, AnswerIsPart
<1> QED
  BY <1>4, <1>6 DEF AnswersWith, ChunkOk

LEMMA ReportableIs ==
  ASSUME GrepInv, gphase = "wait", ~Busy
  PROVE  Reportable(answer.data) \in Nat
<1>1. answer.data \in Seq(Nat)
  BY DEF GrepInv, ReaderInv
<1> QED
  BY <1>1, GrepAssumption DEF Reportable, Least

(* What a chunk adds to the hits. *)
LEMMA ChunkHits ==
  ASSUME GrepInv, gphase = "wait", ~Busy, NEW s, s = Shifted(Found(answer.data), gpos),
         NEW y, y = gpos + Reportable(answer.data)
  PROVE  /\ HitsOk(source.plain, query, s) /\ Len(s) \in Nat /\ y \in Nat
         /\ \A k \in DOMAIN s : gpos <= s[k].off /\ s[k].off < y
<1> DEFINE e == AskedEnd(query, source)
           v == answer.data
           f == Found(v)
           r == Reportable(v)
           p == source.plain
<1>1. query \in Queries /\ source \in Sources /\ gpos \in Nat /\ p \in Seq(Nat)
  BY SourceFacts DEF GrepInv, ReaderInv
<1>2. Part(v, p, gpos) /\ v \in Seq(Nat)
  <2>1. ChunkOk(source, gpos, WantedNow, answer.data)
    BY ChunkAnswers
  <2> QED BY <2>1 DEF ChunkOk, Part
<1>3. r \in Nat
  BY <1>2, GrepAssumption DEF Reportable, Least
<1>4. FoundOk(v, r, f)
  BY <1>1, <1>2, FoundIsAll
<1>5. HitsOk(v, query, f) /\ \A k \in DOMAIN f : f[k].off < r
  BY <1>4 DEF FoundOk
<1> HIDE DEF v, f, r, p
<1>6. s = Shifted(f, gpos) /\ y = gpos + r
  BY DEF f, v, r
<1>7. /\ HitsOk(p, query, s) /\ DOMAIN s = DOMAIN f
      /\ \A k \in DOMAIN f : s[k].off = f[k].off + gpos /\ f[k].off \in Nat
  BY <1>1, <1>2, <1>5, <1>6, ShiftedIs
<1>8. Len(s) \in Nat
  <2>1. s \in Seq(Places3)
    BY <1>7 DEF HitsOk
  <2> QED BY <2>1
<1>9. \A k \in DOMAIN s : gpos <= s[k].off /\ s[k].off < y
  BY <1>1, <1>3, <1>5, <1>6, <1>7
<1> QED
  BY <1>1, <1>3, <1>6, <1>7, <1>8, <1>9 DEF p

LEMMA ChunkIsComplete ==
  ASSUME PatternsFit, GrepInv, gphase = "wait", ~Busy, ~Damaged(source),
         NEW e, e = AskedEnd(query, source), NEW p, p = source.plain,
         NEW s, s = Shifted(Found(answer.data), gpos), NEW y, y = gpos + Reportable(answer.data)
  PROVE  Complete(p, query, e, hits \o s, y)
<1> DEFINE v == answer.data
           f == Found(v)
           r == Reportable(v)
           n == WantOf(e, gpos)
<1>1. /\ query \in Queries /\ source \in Sources /\ gpos \in Nat /\ p \in Seq(Nat) /\ Len(p) = source.size
      /\ e \in Nat /\ gpos < e /\ Complete(p, query, e, hits, gpos)
  <2>1. query \in Queries /\ source \in Sources
    BY DEF GrepInv, ReaderInv
  <2> QED BY <2>1, SourceFacts, EndIs DEF GrepInv
<1>2. Part(v, p, gpos) /\ v \in Seq(Nat) /\ (Len(v) = n \/ gpos + Len(v) = source.size)
  <2>1. ChunkOk(source, gpos, WantedNow, answer.data)
    BY ChunkAnswers
  <2> QED BY <1>1, <2>1 DEF ChunkOk, Part, WantedNow
<1>3. r \in Nat
  BY <1>2, GrepAssumption DEF Reportable, Least
<1>4. FoundOk(v, r, f)
  BY <1>1, <1>2, FoundIsAll
<1>5. LongEnough(v, p, gpos, e, n)
  BY <1>1, <1>2 DEF LongEnough, WantOf
<1>6. hits \in Seq(Places3) /\ s \in Seq(Places3)
  BY ChunkHits DEF GrepInv, HitsOk
<1> HIDE DEF v, f, n
<1>7. s = Shifted(f, gpos) /\ y = gpos + Reportable(v)
  BY DEF f, v
<1>8. \A j \in DOMAIN query.patterns, o \in Nat :
        Asked(p, query, e, j, o) /\ gpos <= o /\ o < y => Reported(query, s, j, o) \/ Deferred(p, query, y, j, o)
  BY <1>1, <1>2, <1>4, <1>5, <1>7, ChunkReports
<1>9. y \in Nat /\ gpos <= y
  <2> HIDE DEF r
  <2> QED BY <1>1, <1>3, <1>7 DEF r
<1> QED
  BY <1>1, <1>6, <1>8, <1>9, CompleteGrows

LEMMA GrepChunkKeeps ==
  ASSUME PatternsFit, GrepInv, GrepChunk
  PROVE  GrepInv'
<1> DEFINE v == answer.data
           found == [k \in DOMAIN Found(v) |-> [Found(v)[k] EXCEPT !.off = @ + gpos, !.end = @ + gpos]]
           left == query.max - Len(hits)
           full == query.max > 0 /\ Len(found) >= left
           e == AskedEnd(query, source)
           p == source.plain
           y == gpos + Reportable(v)
<1>1. /\ gphase = "wait" /\ ~Busy /\ UNCHANGED vars /\ query' = query
      /\ hits' = hits \o (IF full THEN SubSeq(found, 1, left) ELSE found)
      /\ IF v = <<>> \/ full THEN gphase' = "done" /\ gpos' = gpos ELSE gphase' = "read" /\ gpos' = y
  BY ZenonT(60) DEF GrepChunk
<1>2. ReaderInv' /\ source' = source
  <2>1. ReaderInv /\ UNCHANGED vars
    BY ZenonT(40), <1>1 DEF GrepInv
  <2> HIDE DEF v, found, left, full, e, p, y
  <2> QED BY SMTT(30), <2>1, ReaderStutters
<1>3. /\ query \in Queries /\ source \in Sources /\ gpos \in Nat /\ HitsOk(p, query, hits) /\ Len(hits) \in Nat
      /\ (\A k \in DOMAIN hits : hits[k].off < gpos) /\ Room(query, hits) /\ gpos < e
  <2>1. HitsOk(p, query, hits) /\ hits \in Seq(Places3)
    BY DEF GrepInv, HitsOk
  <2>2. Len(hits) \in Nat
    BY <2>1
  <2> QED BY Zenon, <1>1, <2>1, <2>2 DEF GrepInv, ReaderInv
<1>4. query.max \in Nat /\ e \in Nat /\ e <= source.size /\ source.size \in Nat
  BY <1>3, QueryFacts, EndIs, SourceFacts
<1>5. found = Shifted(Found(v), gpos)
  BY DEF Shifted
<1> HIDE DEF found
<1>6. /\ HitsOk(p, query, found) /\ Len(found) \in Nat /\ y \in Nat
      /\ \A k \in DOMAIN found : gpos <= found[k].off /\ found[k].off < y
  BY <1>1, <1>5, ChunkHits
<1>7. CASE full
  <2> DEFINE t == SubSeq(found, 1, left)
  <2>1. left \in Nat /\ left <= Len(found)
    BY <1>3, <1>4, <1>6, <1>7 DEF Room
  <2>2. HitsOk(p, query, t) /\ Len(t) = left /\ \A k \in DOMAIN t : gpos <= t[k].off
    <3> HIDE DEF left
    <3>1. HitsOk(p, query, t) /\ Len(t) = left /\ \A k \in DOMAIN t : k \in DOMAIN found /\ t[k] = found[k]
      BY <1>6, <2>1, FirstHitsOk
    <3> QED BY <1>6, <3>1
  <2> HIDE DEF t
  <2>3. hits' = hits \o t /\ gphase' = "done" /\ gpos' = gpos
    BY <1>1, <1>7 DEF t
  <2>4. HitsOk(p, query, hits') /\ Len(hits') = Len(hits) + left
    <3> HIDE DEF p, left, full, e, y, v
    <3>1. /\ HitsOk(p, query, hits) /\ HitsOk(p, query, t) /\ gpos \in Nat
          /\ (\A k \in DOMAIN hits : hits[k].off < gpos) /\ \A k \in DOMAIN t : gpos <= t[k].off
      BY <1>3, <2>2
    <3>2. HitsOk(p, query, hits \o t) /\ Len(hits \o t) = Len(hits) + Len(t)
      BY <3>1, JoinedIs
    <3> QED BY <2>2, <2>3, <3>2
  <2>5. Len(hits') = query.max /\ query.max > 0
    BY <1>3, <1>4, <1>7, <2>4
  <2>6. ~Room(query, hits')
    BY <1>4, <2>5 DEF Room
  <2>7. Len(hits') <= query.max
    BY <1>4, <2>5
  <2>8. source.plain' = p /\ query' = query /\ gpos' = gpos /\ gphase' = "done"
    BY <1>1, <1>2, <2>3
  <2> HIDE DEF full, y, left, e, v
  <2> QED BY <1>2, <1>3, <2>4, <2>6, <2>7, <2>8 DEF GrepInv
<1>8. CASE ~full
  <2>1. hits' = hits \o found
    BY <1>1, <1>8
  <2>2. HitsOk(p, query, hits') /\ Len(hits') = Len(hits) + Len(found)
    BY <1>3, <1>6, <2>1, JoinedIs
  <2>3. Room(query, hits') /\ (query.max > 0 => Len(hits') <= query.max)
    BY <1>3, <1>4, <1>6, <1>8, <2>2 DEF Room
  <2>4. CASE v = <<>>
    <3>1. gphase' = "done" /\ gpos' = gpos
      BY <1>1, <2>4
    <3>2. Damaged(source)
      <4>1. ChunkOk(source, gpos, WantedNow, v)
        BY <1>1, ChunkAnswers
      <4>2. Len(v) = 0
        BY <2>4
      <4> HIDE DEF v, e
      <4> QED BY <1>3, <1>4, <4>1, <4>2 DEF ChunkOk
    <3> HIDE DEF full, y
    <3> QED BY <1>1, <1>2, <1>3, <2>2, <2>3, <3>1, <3>2 DEF GrepInv
  <2>5. CASE v # <<>>
    <3>1. gphase' = "read" /\ gpos' = y
      BY <1>1, <1>8, <2>5
    <3>2. Damaged(source) \/ Complete(p, query, e, hits', y)
      BY <1>1, <1>5, <2>1, ChunkIsComplete
    <3> HIDE DEF full, y
    <3>3. \A k \in DOMAIN hits' : hits'[k].off < y
      <4>1. hits \in Seq(Places3) /\ found \in Seq(Places3)
        BY <1>3, <1>6 DEF HitsOk
      <4>2. ASSUME NEW k \in DOMAIN hits
            PROVE  hits[k].off < y
        <5>1. hits[k].off < gpos /\ hits[k] \in Places3
          BY <1>3, <4>1
        <5>2. hits[k].off \in Nat
          BY <5>1 DEF Places3
        <5>3. gpos <= y
          <6>1. Reportable(v) \in Nat
            BY <1>1, ReportableIs
          <6> QED BY <1>3, <6>1 DEF y
        <5> QED BY <1>3, <1>6, <5>1, <5>2, <5>3
      <4>3. ASSUME NEW k \in DOMAIN hits'
            PROVE  hits'[k].off < y
        <5>1. (k \in DOMAIN hits /\ hits'[k] = hits[k]) \/ (\E m \in DOMAIN found : hits'[k] = found[m])
          BY <2>1, <4>1, JoinedHas
        <5> QED BY <1>6, <4>2, <5>1
      <4> QED BY <4>3
    <3> QED BY <1>1, <1>2, <1>3, <1>6, <2>2, <2>3, <3>1, <3>2, <3>3 DEF GrepInv
  <2> QED BY <2>4, <2>5
<1> QED
  BY SMTT(30), <1>7, <1>8

LEMMA GrepInitHolds ==
  ASSUME ReadersInit, GrepInit
  PROVE  GrepInv
<1> DEFINE e == AskedEnd(query, source)
           p == source.plain
<1>1. /\ query \in Queries /\ gpos = query.start /\ hits = <<>>
      /\ gphase = IF query.patterns = <<>> THEN "done" ELSE "read"
  BY DEF GrepInit
<1>2. ReaderInv
  BY ReaderInitHolds
<1>3. query.start \in Nat /\ query.max \in Nat /\ PatternsOk(query.patterns)
  BY <1>1, QueryFacts
<1>4. DOMAIN hits = {} /\ hits \in Seq(Places3) /\ Len(hits) = 0
  BY <1>1
<1>5. HitsOk(p, query, hits)
  BY <1>4 DEF HitsOk, Ordered
<1>6. Room(query, hits)
  BY <1>3, <1>4 DEF Room
<1>7. Complete(p, query, e, hits, gpos)
  <2> SUFFICES ASSUME NEW o \in Nat, query.start <= o, o < gpos PROVE FALSE
    BY DEF Complete, Asked
  <2> QED BY <1>1, <1>3
<1>8. query.patterns = <<>> => AllReported(p, query, e, hits)
  BY DEF AllReported
<1> HIDE DEF e, p
<1> QED
  BY <1>1, <1>2, <1>3, <1>4, <1>5, <1>6, <1>7, <1>8 DEF GrepInv, e, p

(* What a slice of the media shows. *)
LEMMA SliceIs ==
  ASSUME NEW p \in Seq(Nat), NEW w \in Seq(Nat), NEW o \in Nat, NEW n \in Nat \ {0}, n = Len(w)
  PROVE  M!Slice(p, o, n) = w <=> StandsAt(p, w, o)
<1> DEFINE e == o + n
           z == Len(p)
<1>1. z \in Nat /\ e \in Nat /\ e = o + Len(w)
  OBVIOUS
<1>2. CASE e <= z
  <2>1. Spells(p, w, o + 1, e) <=> StandsAt(p, w, o)
    <3> HIDE DEF e
    <3> QED BY <1>1, <1>2, StandsIs
  <2>2. M!Slice(p, o, n) = SubSeq(p, o + 1, e)
    <3>1. IF o + n < z THEN o + n = e ELSE z = e
      BY <1>1, <1>2
    <3> QED BY <3>1 DEF M!Slice
  <2> QED BY <2>1, <2>2 DEF Spells
<1>3. CASE ~(e <= z)
  <2>1. ~StandsAt(p, w, o)
    BY <1>1, <1>3 DEF StandsAt
  <2>2. M!Slice(p, o, n) = SubSeq(p, o + 1, z)
    <3>1. ~(o + n < z)
      BY <1>1, <1>3
    <3> QED BY <3>1 DEF M!Slice
  <2>3. Len(SubSeq(p, o + 1, z)) < n
    <3>1. Len(SubSeq(p, o + 1, z)) = IF o + 1 <= z THEN z - o ELSE 0
      OBVIOUS
    <3> HIDE DEF z
    <3> QED BY <1>1, <1>3, <3>1
  <2> QED BY <2>1, <2>2, <2>3
<1> QED
  BY <1>2, <1>3

LEMMA GrepInvFinds ==
  ASSUME GrepInv
  PROVE  GrepFinds
<1> DEFINE p == source.plain
           ps == query.patterns
           e == AskedEnd(query, source)
           Shows(o, w) == M!Slice(p, o, Len(w)) = w
<1>1. query \in Queries /\ source \in Sources /\ HitsOk(p, query, hits) /\ (query.max > 0 => Len(hits) <= query.max)
  BY DEF GrepInv, ReaderInv
<1>2. Contents(source) = p /\ p \in Seq(Nat) /\ GrepEnd = e /\ PatternsOk(ps) /\ query.start \in Nat /\ query.max \in Nat /\ e \in Nat
  BY <1>1, SourceFacts, QueryFacts, EndIs DEF Contents, GrepEnd, AskedEnd
<1>3. \A j \in DOMAIN ps, o \in Nat : Shows(o, ps[j]) <=> StandsAt(p, ps[j], o)
  <2> SUFFICES ASSUME NEW j \in DOMAIN ps, NEW o \in Nat
               PROVE  Shows(o, ps[j]) <=> StandsAt(p, ps[j], o)
    OBVIOUS
  <2> DEFINE w == ps[j]
             n == Len(w)
  <2>1. w \in Seq(Nat) /\ n \in Nat \ {0}
    BY <1>2 DEF PatternsOk
  <2> HIDE DEF w
  <2>2. M!Slice(p, o, n) = w <=> StandsAt(p, w, o)
    BY <1>2, <2>1, SliceIs
  <2> QED BY <2>2 DEF w
<1>4. \A k \in DOMAIN hits : IsMatch(p, ps, hits[k])
  BY <1>1 DEF HitsOk
<1>5. \A k \in DOMAIN hits : /\ hits[k] \in Spots(ps) /\ hits[k].off \in Nat /\ hits[k].end \in Nat
                             /\ hits[k].pattern \in DOMAIN ps /\ hits[k].off < hits[k].end
  <2> SUFFICES ASSUME NEW k \in DOMAIN hits
               PROVE  /\ hits[k] \in Spots(ps) /\ hits[k].off \in Nat /\ hits[k].end \in Nat
                      /\ hits[k].pattern \in DOMAIN ps /\ hits[k].off < hits[k].end
    OBVIOUS
  <2>1. hits[k] \in Spots(ps) /\ hits[k].end = hits[k].off + Len(ps[hits[k].pattern])
    BY <1>4 DEF IsMatch
  <2>2. hits[k].off \in Nat /\ hits[k].end \in Nat /\ hits[k].pattern \in DOMAIN ps
    BY <2>1 DEF Spots
  <2>3. Len(ps[hits[k].pattern]) \in Nat \ {0}
    BY <1>2, <2>2 DEF PatternsOk
  <2> QED BY <2>1, <2>2, <2>3
<1>6. \A k \in DOMAIN hits : Shows(hits[k].off, ps[hits[k].pattern])
  BY <1>3, <1>4, <1>5 DEF IsMatch
<1>7. ASSUME gphase = "done", ~Damaged(source), query.max = 0 \/ Len(hits) < query.max,
             NEW m \in Places, query.regex \/ m.off + Len(ps[m.pattern]) <= e
      PROVE  \E k \in DOMAIN hits : Overlaps(hits[k], m) /\ (query.regex => hits[k].pattern = m.pattern)
  <2>1. /\ m.off \in query.start..(GrepEnd - 1) /\ m.pattern \in DOMAIN ps
        /\ M!Slice(Contents(source), m.off, Len(ps[m.pattern])) = ps[m.pattern]
    BY DEF Places
  <2>2. m.off \in Nat /\ query.start <= m.off /\ m.off < e
    BY <1>2, <2>1
  <2>3. StandsAt(p, ps[m.pattern], m.off)
    BY <1>2, <1>3, <2>1, <2>2
  <2>4. Asked(p, query, e, m.pattern, m.off)
    BY <1>7, <2>2, <2>3 DEF Asked
  <2>5. AllReported(p, query, e, hits)
    BY <1>7 DEF GrepInv, Room
  <2>6. Reported(query, hits, m.pattern, m.off)
    BY <2>1, <2>2, <2>4, <2>5 DEF AllReported
  <2>7. Len(ps[m.pattern]) \in Nat \ {0}
    BY <1>2, <2>1 DEF PatternsOk
  <2>8. CASE query.regex
    <3>1. PICK k \in DOMAIN hits : hits[k].pattern = m.pattern /\ hits[k].off <= m.off /\ m.off < hits[k].end
      BY <2>6, <2>8 DEF Reported
    <3>2. hits[k].off < m.off + Len(ps[m.pattern])
      BY <1>5, <2>2, <2>7, <3>1
    <3> QED BY <3>1, <3>2 DEF Overlaps
  <2>9. CASE ~query.regex
    <3>1. PICK k \in DOMAIN hits : m.off < hits[k].end /\ hits[k].end <= m.off + Len(ps[m.pattern])
      BY <2>6, <2>9 DEF Reported
    <3>2. hits[k].off < m.off + Len(ps[m.pattern])
      BY <1>5, <2>2, <2>7, <3>1
    <3> QED BY <2>9, <3>1, <3>2 DEF Overlaps
  <2> QED BY <2>8, <2>9
<1>8. Ordered(hits)
  BY <1>1 DEF HitsOk
<1> QED
  BY <1>1, <1>2, <1>6, <1>7, <1>8 DEF GrepFinds

(* However a search is divided into chunks, and wherever a match lies, also  *)
(* across the boundary of two chunks: what src/src/grep.rs reports is where *)
(* its pattern is, in the order of the image and no more than was asked     *)
(* for, and a search of an undamaged image that comes to its end has a hit  *)
(* at or across every place in its range.  It is so for patterns the        *)
(* overlap of two chunks has room for; a longer one can be missed.          *)
THEOREM GrepFindsAll == SplitsAreWhole /\ PatternsFit /\ GrepSpec => []GrepFinds
<1> SUFFICES ASSUME SplitsAreWhole, PatternsFit
             PROVE  GrepSpec => []GrepFinds
  OBVIOUS
<1>1. ReadersInit /\ GrepInit => GrepInv
  BY GrepInitHolds
<1>2. GrepInv /\ [GrepNext]_<<vars, grepVars>> => GrepInv'
  <2> SUFFICES ASSUME GrepInv, [GrepNext]_<<vars, grepVars>>
               PROVE  GrepInv'
    OBVIOUS
  <2>1. CASE ReaderStep /\ UNCHANGED grepVars
    BY <2>1, ReaderStepInGrep
  <2>2. CASE GrepRead
    BY <2>2, GrepReadKeeps
  <2>3. CASE GrepChunk
    BY <2>3, GrepChunkKeeps
  <2>4. CASE UNCHANGED <<vars, grepVars>>
    BY <2>4, GrepStutters
  <2> QED BY <2>1, <2>2, <2>3, <2>4 DEF GrepNext, GrepStep
<1>3. GrepInv => GrepFinds
  BY GrepInvFinds
<1> QED
  BY <1>1, <1>2, <1>3, PTL DEF GrepSpec
=============================================================================
