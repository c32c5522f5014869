---------------------------- MODULE CarverProofs ----------------------------
(***************************************************************************)
(* Theorems about the sweep, for any source and any headers in it, chunks  *)
(* of any size, and any number of ranges: as long as the image and the     *)
(* ranges are Regular, a scan tries every header it should, and finds what *)
(* one pass over the source finds.                                         *)
(***************************************************************************)
EXTENDS Carver, Induction

-----------------------------------------------------------------------------
(***************************************************************************)
(* The invariant.                                                          *)
(***************************************************************************)
Scan == [image |-> image, ranges |-> ranges]

(* The end of what has been swept of the range, where the chunk is through. *)
Reach == MinOf(pos + (IF phase = "hits" THEN limit ELSE 0), ScanEnd)

(* Where the headers lie that are still to come: from here on. *)
Front == IF phase \in {"chunk", "hits"} THEN Reach
         ELSE IF at \in DOMAIN ranges THEN ScanStart ELSE Size

Waiting == {hits[k] : k \in DOMAIN hits}

Ahead(h) == Magic(h) >= Front \/ (phase = "hits" /\ h \in Waiting)

Carved == {h \in tried : Fits(h)}

(* A carve of the same range passes over the header. *)
Shadows(g, h) == Magic(g) < Magic(h) /\ ~Cut(ranges, Magic(g), Magic(h)) /\ Reaches(g, h)

Handled(h) ==
  \/ h.start % Align # 0
  \/ h \in tried
  \/ SkipCarved /\ \E g \in Carved : Shadows(g, h)

TypeInv ==
  /\ Scan \in Scans
  /\ phase \in {"range", "chunk", "hits", "end"}
  /\ at \in 1..(Len(ranges) + 1)
  /\ phase \in {"chunk", "hits"} => at \in DOMAIN ranges /\ pos >= ScanStart
  /\ phase = "hits" => pos < ScanEnd /\ limit > 0
  /\ phase = "end" => at \notin DOMAIN ranges
  /\ pos \in Nat /\ limit \in Nat /\ nextAllowed \in Nat
  /\ hits \in Seq(image)
  /\ tried \subseteq image

(* The hits of a chunk come in order, after all that was tried. *)
HitsInv ==
  phase = "hits" =>
    /\ \A k \in DOMAIN hits : pos <= Magic(hits[k]) /\ Magic(hits[k]) < pos + limit
    /\ \A j, k \in DOMAIN hits : j < k => Magic(hits[j]) < Magic(hits[k])
    /\ \A g \in tried, k \in DOMAIN hits : Magic(g) < Magic(hits[k])

TriedInv ==
  /\ \A h \in tried : h.start % Align = 0
  /\ \A h \in tried : Magic(h) < Front

(* nextAllowed is the end of the last validated carve of the range. *)
NextInv ==
  phase \in {"chunk", "hits"} =>
    /\ nextAllowed # ScanStart =>
         SkipCarved /\ \E g \in Carved : ScanStart <= Magic(g) /\ g.validated /\ nextAllowed = g.start + g.size
    /\ SkipCarved =>
         \A g \in Carved : ScanStart <= Magic(g) /\ g.validated => g.start + g.size <= nextAllowed

(* No carve of the range lies in the shadow of another. *)
ApartInv == SkipCarved => \A g, h \in Carved : ~Shadows(g, h)

RecordsInv ==
  records = IF phase = "end" THEN ContainmentFilter({Record(h) : h \in Carved}) ELSE {Record(h) : h \in Carved}

SweepInv ==
  /\ TypeInv /\ HitsInv /\ TriedInv /\ NextInv /\ ApartInv /\ RecordsInv
  /\ \A h \in image : Ahead(h) \/ Handled(h)

-----------------------------------------------------------------------------
(***************************************************************************)
(* What is known of the image and the ranges.                              *)
(***************************************************************************)
ScansAreRegular == \A s \in Scans : Regular(s)

HeaderOk(h) ==
  /\ h.start \in Nat /\ Magic(h) \in Nat /\ h.start <= Magic(h)
  /\ h.len \in Nat /\ 0 < h.len /\ h.len <= Overlap + 1 /\ Magic(h) + h.len <= Size
  /\ h.size \in Nat /\ h.validated \in BOOLEAN
  /\ h.back = 0 /\ (SkipBlank => h.zeros = 0)
  /\ h.off \in Nat /\ h.off <= Magic(h)

LEMMA ImageFacts ==
  ASSUME ScansAreRegular, Scan \in Scans
  PROVE  /\ \A h \in image : HeaderOk(h)
         /\ \A g, h \in image : Magic(g) < Magic(h) => Magic(g) + g.len <= h.start /\ g.start < h.start
         /\ \A g, h \in image : Magic(g) = Magic(h) => g = h
         /\ \A g, h \in image : g.start < h.start => Magic(g) < Magic(h)
         /\ \A g, h \in image : g.start = h.start => g = h
<1>1. image \subseteq Headers
  BY ScansAssumption DEF Scan
<1>2. Apart(image) /\ \A h \in image : Legible(h)
  BY DEF ScansAreRegular, Regular, Scan
<1>3. Size \in Nat /\ Overlap \in Nat
  BY SizeAssumption
<1>4. ASSUME NEW h \in image PROVE HeaderOk(h)
  <2>1. Legible(h) /\ h \in Headers
    BY <1>1, <1>2
  <2> QED BY <2>1, <1>3 DEF HeaderOk, Legible, Headers, Magic
<1>5. ASSUME NEW g \in image, NEW h \in image, g # h
      PROVE  Magic(g) + g.len - 1 < h.start \/ Magic(h) + h.len - 1 < g.start
  BY <1>2, <1>5 DEF Apart, FirstByte, LastByte
<1>6. ASSUME NEW g \in image, NEW h \in image
      PROVE  /\ Magic(g) < Magic(h) => Magic(g) + g.len <= h.start /\ g.start < h.start
             /\ Magic(g) = Magic(h) => g = h
             /\ g.start < h.start => Magic(g) < Magic(h)
             /\ g.start = h.start => g = h
  <2>1. HeaderOk(g) /\ HeaderOk(h)
    BY <1>4
  <2>2. g = h \/ Magic(g) + g.len - 1 < h.start \/ Magic(h) + h.len - 1 < g.start
    BY <1>5
  <2> QED BY <2>1, <2>2 DEF HeaderOk
<1> QED
  BY <1>4, <1>6

LEMMA RangeFacts ==
  ASSUME ScansAreRegular, Scan \in Scans
  PROVE  /\ Len(ranges) \in Nat \ {0} /\ DOMAIN ranges = 1..Len(ranges)
         /\ \A k \in DOMAIN ranges : /\ ranges[k][1] \in Nat /\ ranges[k][2] \in Nat
                                     /\ ranges[k][1] <= ranges[k][2] /\ ranges[k][2] <= Size
         /\ ranges[1][1] = 0 /\ ranges[Len(ranges)][2] = Size
         /\ \A k \in 1..(Len(ranges) - 1) : ranges[k][2] = ranges[k + 1][1]
         /\ \A j, k \in DOMAIN ranges : j < k => ranges[j][2] <= ranges[k][1]
<1>1. ranges \in Seq((0..Size) \X (0..Size)) /\ Size \in Nat
  BY ScansAssumption, SizeAssumption DEF Scan
<1>2. Divide(ranges)
  BY DEF ScansAreRegular, Regular, Scan
<1>3. Len(ranges) \in Nat \ {0} /\ DOMAIN ranges = 1..Len(ranges)
  BY <1>1, <1>2 DEF Divide
<1>4. ASSUME NEW k \in DOMAIN ranges
      PROVE  /\ ranges[k][1] \in Nat /\ ranges[k][2] \in Nat
             /\ ranges[k][1] <= ranges[k][2] /\ ranges[k][2] <= Size
  <2>1. ranges[k] \in (0..Size) \X (0..Size)
    BY <1>1
  <2>2. ranges[k][1] <= ranges[k][2]
    BY <1>2 DEF Divide
  <2> QED BY <2>1, <2>2, <1>1
<1>5. \A k \in 1..(Len(ranges) - 1) : ranges[k][2] = ranges[k + 1][1]
  BY <1>2 DEF Divide
<1> DEFINE n == Len(ranges)
           T == {d \in 0..n : \A j \in 1..n : j + 1 + d <= n => ranges[j][2] <= ranges[j + 1 + d][1]}
<1>6. 0..n \subseteq T
  <2>1. 0 \in T
    BY <1>3, <1>5, <1>4
  <2>2. ASSUME NEW d \in 0..(n - 1), d \in T PROVE d + 1 \in T
    <3>1. ASSUME NEW j \in 1..n, j + 1 + (d + 1) <= n
          PROVE  ranges[j][2] <= ranges[j + 1 + (d + 1)][1]
      <4>1. j + 1 + d \in 1..(n - 1) /\ j + 1 + d <= n /\ j + 1 + d + 1 = j + 1 + (d + 1)
        BY <3>1, <1>3
      <4>2. ranges[j][2] <= ranges[j + 1 + d][1]
        BY <2>2, <4>1
      <4>3. ranges[j + 1 + d][2] = ranges[j + 1 + (d + 1)][1]
        BY <4>1, <1>5
      <4>4. ranges[j + 1 + d][1] <= ranges[j + 1 + d][2]
        BY <4>1, <1>3, <1>4
      <4>5. ranges[j][2] \in Nat /\ ranges[j + 1 + d][1] \in Nat /\ ranges[j + 1 + d][2] \in Nat
        BY <4>1, <1>3, <1>4
      <4> QED BY <4>2, <4>3, <4>4, <4>5
    <3>2. d + 1 \in 0..n
      BY <1>3
    <3> QED BY <3>1, <3>2
  <2>3. n \in Nat
    BY <1>3
  <2> HIDE DEF T, n
  <2> QED BY <2>1, <2>2, <2>3, UpTo
<1>7. ASSUME NEW j \in DOMAIN ranges, NEW k \in DOMAIN ranges, j < k
      PROVE  ranges[j][2] <= ranges[k][1]
  <2>1. j \in 1..n /\ k \in 1..n /\ k - j - 1 \in 0..n /\ j + 1 + (k - j - 1) = k
    BY <1>3, <1>7
  <2>2. \E d \in 0..n : j + 1 + d = k
    BY <2>1
  <2>3. PICK d \in 0..n : j + 1 + d = k
    BY <2>2
  <2>4. d \in T
    BY <1>6
  <2>5. j + 1 + d <= n
    BY <2>1, <2>3
  <2>6. ranges[j][2] <= ranges[j + 1 + d][1]
    BY <2>1, <2>4, <2>5
  <2> QED BY <2>3, <2>6
<1> QED
  BY <1>2, <1>3, <1>4, <1>5, <1>7 DEF Divide

(* Two places of the range that is being swept, and one before it. *)
LEMMA CutFacts ==
  ASSUME ScansAreRegular, Scan \in Scans, at \in DOMAIN ranges, NEW x \in Nat, NEW y \in Nat
  PROVE  /\ x < ScanStart /\ ScanStart <= y => Cut(ranges, x, y)
         /\ ScanStart <= x /\ y < ScanEnd => ~Cut(ranges, x, y)
<1>1. x < ScanStart /\ ScanStart <= y => Cut(ranges, x, y)
  BY DEF Cut, ScanStart
<1>2. ASSUME ScanStart <= x, y < ScanEnd, NEW k \in DOMAIN ranges, x < ranges[k][1], ranges[k][1] <= y
      PROVE  FALSE
  <2>1. k \in Int /\ at \in Int /\ ranges[k][1] \in Nat /\ ranges[k][2] \in Nat
        /\ ranges[at][1] \in Nat /\ ranges[at][2] \in Nat
        /\ ranges[k][1] <= ranges[k][2] /\ ranges[at][1] <= ranges[at][2]
    BY RangeFacts
  <2>2. k < at => ranges[k][2] <= ranges[at][1]
    BY RangeFacts
  <2>3. at < k => ranges[at][2] <= ranges[k][1]
    BY RangeFacts
  <2>4. k = at => ranges[k][1] = ranges[at][1]
    OBVIOUS
  <2> QED BY <1>2, <2>1, <2>2, <2>3, <2>4 DEF ScanStart, ScanEnd
<1> QED
  BY <1>1, <1>2 DEF Cut

-----------------------------------------------------------------------------
(***************************************************************************)
(* What is found in a chunk.                                               *)
(***************************************************************************)
InChunk == phase = "chunk" /\ pos < ScanEnd

LEMMA LimitFacts ==
  ASSUME ScansAreRegular, TypeInv, InChunk
  PROVE  /\ BufEnd \in Nat /\ Limit \in Nat /\ pos < BufEnd /\ 0 < Limit
         /\ \A h \in image : Magic(h) < pos + Limit /\ Magic(h) < ScanEnd => Magic(h) + h.len <= BufEnd
<1>1. Scan \in Scans /\ at \in DOMAIN ranges /\ pos \in Nat
  BY DEF TypeInv, InChunk
<1>2. ScanEnd \in Nat /\ ScanEnd <= Size
  BY <1>1, RangeFacts DEF ScanEnd
<1>3. Size \in Nat /\ Overlap \in Nat /\ ChunkSize \in Nat \ {0} /\ pos < ScanEnd
  BY SizeAssumption DEF InChunk
<1>4. BufEnd \in Nat /\ pos < BufEnd /\ BufEnd <= Size
  BY <1>1, <1>2, <1>3 DEF BufEnd, MinOf
<1>5. Limit \in Nat /\ 0 < Limit /\ Limit <= ChunkSize
  BY <1>1, <1>3, <1>4 DEF Limit, MinOf
<1>6. ASSUME NEW h \in image, Magic(h) < pos + Limit, Magic(h) < ScanEnd
      PROVE  Magic(h) + h.len <= BufEnd
  <2>1. Magic(h) \in Nat /\ h.len \in Nat /\ h.len <= Overlap + 1 /\ Magic(h) + h.len <= Size
    BY <1>1, ImageFacts DEF HeaderOk
  <2> QED BY <2>1, <1>1, <1>2, <1>3, <1>5, <1>6 DEF BufEnd, MinOf
<1> QED
  BY <1>4, <1>5, <1>6

(* The matches that begin in the first n bytes of the chunk. *)
Begins(n) == {h \in image : pos <= Magic(h) /\ Magic(h) < pos + n /\ Magic(h) + h.len <= BufEnd}

InOrder(s) == \A j, k \in DOMAIN s : j < k => Magic(s[j]) < Magic(s[k])

Matched == [free : Nat, found : Seq(image)]

MatchedOk(m, n) ==
  /\ m \in Matched
  /\ {m.found[k] : k \in DOMAIN m.found} = Begins(n)
  /\ InOrder(m.found)
  /\ \A h \in image : pos + n <= Magic(h) => m.free <= Magic(h)

LEMMA AddMatchIs ==
  ASSUME ScansAreRegular, TypeInv, InChunk, NEW m \in Matched, NEW x \in Nat
  PROVE  /\ AddMatch(m, x) = m \/ x >= m.free
         /\ \A h \in image : Magic(h) = x /\ Magic(h) + h.len <= BufEnd /\ m.free <= x =>
              AddMatch(m, x) = [free |-> x + h.len, found |-> Append(m.found, h)]
         /\ (\A h \in image : ~(Magic(h) = x /\ Magic(h) + h.len <= BufEnd)) => AddMatch(m, x) = m
         /\ AddMatch(m, x) \in Matched
<1> DEFINE here == {h \in image : Magic(h) = x /\ Magic(h) + h.len <= BufEnd}
<1>1. Scan \in Scans
  BY DEF TypeInv
<1>2. m.free \in Nat /\ m.found \in Seq(image)
  BY DEF Matched
<1>3. here = {} \/ x < m.free => AddMatch(m, x) = m
  BY DEF AddMatch
<1>4. ASSUME NEW h \in here
      PROVE  Longest(here) = h
  <2>1. \A g \in here : g = h
    BY <1>1, <1>4, ImageFacts
  <2>2. h.len \in Nat
    BY <1>1, <1>4, ImageFacts DEF HeaderOk
  <2>3. \E u \in here : \A g \in here : g.len <= u.len
    <3>1. \A g \in here : g.len <= h.len
      BY <2>1, <2>2
    <3> QED BY <3>1
  <2> HIDE DEF here
  <2>4. Longest(here) \in here
    BY <2>3 DEF Longest
  <2> QED BY <2>1, <2>4
<1>5. ASSUME NEW h \in here, m.free <= x
      PROVE  AddMatch(m, x) = [free |-> x + h.len, found |-> Append(m.found, h)]
  <2>1. ~(here = {} \/ x < m.free)
    BY <1>2, <1>5
  <2>2. Longest(here) = h
    BY <1>4
  <2> QED BY <2>1, <2>2 DEF AddMatch
<1>6. AddMatch(m, x) \in Matched
  <2>1. CASE here = {} \/ x < m.free
    BY <2>1, <1>3
  <2>2. CASE ~(here = {} \/ x < m.free)
    <3>1. PICK h \in here : TRUE
      BY <2>2
    <3>2. AddMatch(m, x) = [free |-> x + h.len, found |-> Append(m.found, h)]
      BY <2>2, <1>2, <1>5
    <3>3. h \in image /\ x + h.len \in Nat
      BY <1>1, <3>1, ImageFacts DEF HeaderOk
    <3>4. Append(m.found, h) \in Seq(image)
      BY <3>3, <1>2
    <3> QED BY <3>2, <3>3, <3>4 DEF Matched
  <2> QED BY <2>1, <2>2
<1> QED
  BY <1>2, <1>3, <1>5, <1>6

LEMMA MatchedStep ==
  ASSUME ScansAreRegular, TypeInv, InChunk, NEW m, NEW n \in Nat, MatchedOk(m, n)
  PROVE  MatchedOk(AddMatch(m, pos + n), n + 1)
<1> DEFINE x == pos + n
           a == AddMatch(m, x)
<1>1. Scan \in Scans /\ pos \in Nat /\ x \in Nat /\ x = pos + n /\ pos + (n + 1) = x + 1
  BY DEF TypeInv
<1>2. m \in Matched /\ m.free \in Nat /\ m.found \in Seq(image)
  BY DEF MatchedOk, Matched
<1>3. {m.found[k] : k \in DOMAIN m.found} = Begins(n) /\ InOrder(m.found)
  BY DEF MatchedOk
<1>4. \A h \in image : x <= Magic(h) => m.free <= Magic(h)
  BY DEF MatchedOk
<1>5. a \in Matched
  BY <1>1, <1>2, AddMatchIs
<1>6. CASE \A h \in image : ~(Magic(h) = x /\ Magic(h) + h.len <= BufEnd)
  <2>1. a = m
    BY <1>1, <1>2, <1>6, AddMatchIs
  <2>2. \A h \in image : Magic(h) \in Nat
    BY <1>1, ImageFacts DEF HeaderOk
  <2>3. Begins(n + 1) = Begins(n)
    <3>1. ASSUME NEW h \in image, Magic(h) < pos + (n + 1), ~(Magic(h) < pos + n)
          PROVE  Magic(h) = x
      BY <3>1, <2>2, <1>1
    <3>2. ASSUME NEW h \in image, Magic(h) < pos + n
          PROVE  Magic(h) < pos + (n + 1)
      BY <3>2, <2>2, <1>1
    <3> QED BY <3>1, <3>2, <1>6 DEF Begins
  <2>4. \A h \in image : pos + (n + 1) <= Magic(h) => x <= Magic(h)
    BY <1>1, <2>2
  <2>5. MatchedOk(a, n + 1)
    <3> HIDE DEF a, x
    <3> QED BY <1>2, <1>3, <1>4, <2>1, <2>3, <2>4 DEF MatchedOk
  <2> QED BY <2>5
<1>7. CASE ~ \A h \in image : ~(Magic(h) = x /\ Magic(h) + h.len <= BufEnd)
  <2>1. PICK h \in image : Magic(h) = x /\ Magic(h) + h.len <= BufEnd
    BY <1>7
  <2>2. m.free <= x
    BY <2>1, <1>1, <1>4
  <2>3. a = [free |-> x + h.len, found |-> Append(m.found, h)]
    BY ZenonT(40), <1>1, <1>2, <2>1, <2>2, AddMatchIs
  <2>4. \A g \in image : Magic(g) \in Nat /\ g.len \in Nat
    BY <1>1, ImageFacts DEF HeaderOk
  <2>5. \A g \in image : Magic(g) = x => g = h
    BY <1>1, <2>1, ImageFacts
  <2>6. Begins(n + 1) = Begins(n) \cup {h}
    <3>1. ASSUME NEW g \in image PROVE Magic(g) < pos + (n + 1) <=> Magic(g) < pos + n \/ g = h
      BY <1>1, <2>1, <2>4, <2>5
    <3>2. pos <= Magic(h)
      BY <1>1, <2>1
    <3> QED BY <3>1, <3>2, <2>1 DEF Begins
  <2> DEFINE s == m.found
             t == Append(s, h)
  <2>7. s \in Seq(image) /\ Len(s) \in Nat /\ DOMAIN s = 1..Len(s)
    BY <1>2
  <2>8. Len(t) = Len(s) + 1 /\ DOMAIN t = 1..(Len(s) + 1) /\ t[Len(s) + 1] = h /\ \A k \in 1..Len(s) : t[k] = s[k]
    BY <2>7, <2>1
  <2>9. {t[k] : k \in DOMAIN t} = {s[k] : k \in DOMAIN s} \cup {h}
    <3>1. DOMAIN t = (DOMAIN s) \cup {Len(s) + 1}
      BY <2>7, <2>8
    <3> HIDE DEF t, s
    <3> QED BY <2>7, <2>8, <3>1
  <2>10. InOrder(t)
    <3>1. ASSUME NEW k \in DOMAIN s PROVE Magic(s[k]) < x
      <4>1. s[k] \in Begins(n)
        BY <1>3
      <4> QED BY <4>1, <1>1 DEF Begins
    <3>2. ASSUME NEW j \in DOMAIN t, NEW k \in DOMAIN t, j < k
          PROVE  Magic(t[j]) < Magic(t[k])
      <4>1. j \in DOMAIN s /\ t[j] = s[j]
        BY <2>7, <2>8, <3>2
      <4>2. CASE k \in DOMAIN s
        BY <4>1, <4>2, <2>7, <2>8, <3>2, <1>3 DEF InOrder
      <4>3. CASE k = Len(s) + 1
        BY <4>1, <4>3, <2>8, <3>1, <2>1
      <4> QED BY <4>2, <4>3, <2>7, <2>8
    <3> HIDE DEF t, s
    <3> QED BY <3>2 DEF InOrder
  <2>11. ASSUME NEW g \in image, pos + (n + 1) <= Magic(g)
         PROVE  x + h.len <= Magic(g)
    <3>1. Magic(h) < Magic(g)
      BY <2>1, <2>4, <2>11, <1>1
    <3>2. Magic(h) + h.len <= g.start /\ g.start <= Magic(g)
      BY <3>1, <1>1, ImageFacts DEF HeaderOk
    <3>3. g.start \in Nat
      BY <1>1, ImageFacts DEF HeaderOk
    <3> QED BY <3>2, <3>3, <2>1, <2>4, <1>1
  <2>12. a.free = x + h.len /\ a.found = t
    BY <2>3
  <2>13. {t[k] : k \in DOMAIN t} = Begins(n + 1)
    BY <2>9, <2>6, <1>3
  <2>14. MatchedOk(a, n + 1)
    <3> HIDE DEF a, t, x
    <3> QED BY <1>5, <2>10, <2>11, <2>12, <2>13 DEF MatchedOk
  <2> QED BY <2>14
<1> QED
  BY <1>6, <1>7

LEMMA FindIterIs ==
  ASSUME ScansAreRegular, TypeInv, InChunk, NEW n \in Nat
  PROVE  /\ FindIter(n) \in Seq(image)
         /\ {FindIter(n)[k] : k \in DOMAIN FindIter(n)} = Begins(n)
         /\ InOrder(FindIter(n))
<1> DEFINE none == [free |-> pos, found |-> <<>>]
           Follows(f) == f = [k \in 0..n |-> IF k = 0 THEN none ELSE AddMatch(f[k - 1], pos + k - 1)]
           after == CHOOSE f : Follows(f)
           d == [y \in Matched \X (1..n) |-> AddMatch(y[1], pos + y[2] - 1)]
<1>1. Scan \in Scans /\ pos \in Nat
  BY DEF TypeInv
<1>2. none \in Matched
  BY <1>1 DEF Matched
<1>3. d \in [Matched \X (1..n) -> Matched]
  <2> SUFFICES ASSUME NEW y \in Matched \X (1..n) PROVE AddMatch(y[1], pos + y[2] - 1) \in Matched
    OBVIOUS
  <2>1. y[1] \in Matched /\ y[2] \in 1..n
    OBVIOUS
  <2>2. pos + y[2] - 1 \in Nat
    BY <1>1, <2>1
  <2> QED BY <2>1, <2>2, AddMatchIs
<1>4. PICK u : IsLoop(u, n, Matched, none, d)
  <2> HIDE DEF d, none
  <2> QED BY <1>2, <1>3, LoopExists
<1>5. u \in [0..n -> Matched] /\ u = [k \in 0..n |-> IF k = 0 THEN none ELSE d[<<u[k - 1], k>>]]
  BY <1>4 DEF IsLoop
<1>6. Follows(u)
  <2>1. ASSUME NEW k \in 0..n, k # 0
        PROVE  d[<<u[k - 1], k>>] = AddMatch(u[k - 1], pos + k - 1)
    <3>1. k - 1 \in 0..n /\ k \in 1..n
      BY <2>1
    <3>2. <<u[k - 1], k>> \in Matched \X (1..n)
      BY <3>1, <1>5
    <3> QED BY <3>2
  <2> HIDE DEF d, none
  <2> QED BY <1>5, <2>1
<1>7. Follows(after)
  <2> HIDE DEF Follows
  <2> QED BY <1>6
<1>8. FindIter(n) = after[n].found
  BY DEF FindIter
<1> DEFINE S == {k \in 0..n : MatchedOk(after[k], k)}
<1>9. 0 \in S
  <2>1. after[0] = none
    <3> HIDE DEF after, none
    <3>1. 0 \in 0..n
      OBVIOUS
    <3> QED BY <1>7, <3>1
  <2>2. Begins(0) = {}
    <3>1. \A h \in image : Magic(h) \in Nat
      BY <1>1, ImageFacts DEF HeaderOk
    <3> QED BY <3>1, <1>1 DEF Begins
  <2>3. none.found = <<>> /\ none.free = pos
    OBVIOUS
  <2>4. {none.found[k] : k \in DOMAIN none.found} = {} /\ InOrder(none.found)
    BY <2>3 DEF InOrder
  <2>5. \A h \in image : pos + 0 <= Magic(h) => none.free <= Magic(h)
    BY <1>1, <2>3
  <2> HIDE DEF none, after
  <2> QED BY <1>2, <2>1, <2>2, <2>4, <2>5 DEF MatchedOk
<1>10. ASSUME NEW k \in 0..(n - 1), k \in S
       PROVE  k + 1 \in S
  <2>1. k + 1 \in 0..n /\ k + 1 # 0 /\ (k + 1) - 1 = k /\ pos + (k + 1) - 1 = pos + k /\ k \in Nat
    BY <1>1
  <2>2. after[k + 1] = AddMatch(after[(k + 1) - 1], pos + (k + 1) - 1)
    BY <2>1, <1>7
  <2>3. after[k + 1] = AddMatch(after[k], pos + k)
    <3> HIDE DEF after
    <3> QED BY <2>1, <2>2
  <2>4. MatchedOk(after[k], k)
    BY <1>10
  <2> HIDE DEF after
  <2>5. MatchedOk(AddMatch(after[k], pos + k), k + 1)
    BY <2>1, <2>4, MatchedStep
  <2> QED BY <2>1, <2>3, <2>5
<1>11. 0..n \subseteq S
  <2> HIDE DEF S
  <2> QED BY <1>9, <1>10, UpTo
<1>12. MatchedOk(after[n], n)
  BY <1>11
<1> HIDE DEF after
<1> QED
  BY <1>8, <1>12 DEF MatchedOk, Matched

-----------------------------------------------------------------------------
(***************************************************************************)
(* The steps.                                                              *)
(***************************************************************************)
(* What the steps leave of what has been said of a header. *)
LEMMA Unmoved ==
  ASSUME UNCHANGED <<image, ranges>>, tried \subseteq tried'
  PROVE  /\ Scan' = Scan
         /\ \A h \in Carved : h \in Carved'
         /\ \A g, h : Shadows(g, h)' <=> Shadows(g, h)
         /\ \A h : Handled(h) => Handled(h)'
<1>1. Scan' = Scan /\ \A h \in Carved : h \in Carved'
  BY DEF Scan, Carved
<1>2. \A g, h : Shadows(g, h)' <=> Shadows(g, h)
  BY DEF Shadows
<1> QED
  BY <1>1, <1>2 DEF Handled

(* Where nothing is tried, and no range or chunk begins. *)
LEMMA NothingTried ==
  ASSUME SweepInv, UNCHANGED <<image, ranges, at, tried, nextAllowed, records>>,
         TypeInv', HitsInv', Front <= Front', Front \in Nat, Front' \in Nat,
         phase \in {"chunk", "hits"} <=> phase' \in {"chunk", "hits"}, phase' # "end", phase # "end",
         \A h \in image : Ahead(h) => Ahead(h)' \/ Handled(h)
  PROVE  SweepInv'
<1>1. /\ Scan' = Scan /\ Carved' = Carved
      /\ \A g, h : Shadows(g, h)' <=> Shadows(g, h)
      /\ \A h : Handled(h) => Handled(h)'
  BY Unmoved DEF Carved
<1>2. TriedInv'
  <2>1. \A h \in tried : h.start % Align = 0 /\ Magic(h) < Front
    BY DEF SweepInv, TriedInv
  <2>2. ASSUME NEW h \in tried, Magic(h) < Front
        PROVE  Magic(h) < Front'
    <3>1. Magic(h) \in Int
      <4>1. h \in Headers
        BY ScansAssumption DEF SweepInv, TypeInv, Scan
      <4> QED BY <4>1 DEF Magic, Headers
    <3> QED BY <2>2, <3>1
  <2> QED BY <2>1, <2>2 DEF TriedInv
<1>3. NextInv'
  BY <1>1 DEF SweepInv, NextInv, ScanStart
<1>4. ApartInv'
  BY <1>1 DEF SweepInv, ApartInv
<1>5. RecordsInv'
  BY <1>1 DEF SweepInv, RecordsInv
<1>6. \A h \in image' : (Ahead(h) \/ Handled(h))'
  BY <1>1 DEF SweepInv
<1> QED
  BY <1>2, <1>3, <1>4, <1>5, <1>6 DEF SweepInv

LEMMA StartRangeKeeps ==
  ASSUME ScansAreRegular, SweepInv, StartRange
  PROVE  SweepInv'
<1>1. /\ Scan \in Scans /\ phase = "range" /\ at \in DOMAIN ranges /\ at \in 1..(Len(ranges) + 1)
      /\ pos \in Nat /\ limit \in Nat /\ hits \in Seq(image) /\ tried \subseteq image
  BY DEF SweepInv, TypeInv, StartRange
<1>2. /\ phase' = "chunk" /\ pos' = ScanStart /\ nextAllowed' = ScanStart
      /\ UNCHANGED <<image, ranges, at, limit, hits, records, tried>>
  BY DEF StartRange
<1>3. ScanStart \in Nat /\ ScanEnd \in Nat /\ ScanStart <= ScanEnd
  BY <1>1, RangeFacts DEF ScanStart, ScanEnd
<1>4. Front = ScanStart /\ Front' = ScanStart /\ ScanStart' = ScanStart /\ ScanEnd' = ScanEnd
  <2>1. ScanStart' = ScanStart /\ ScanEnd' = ScanEnd
    BY <1>2 DEF ScanStart, ScanEnd
  <2>2. Front = ScanStart
    BY <1>1 DEF Front
  <2>3. Front' = MinOf(ScanStart + 0, ScanEnd)
    BY <1>2, <2>1 DEF Front, Reach
  <2> QED BY <2>1, <2>2, <2>3, <1>3 DEF MinOf
<1>5. /\ Scan' = Scan /\ Carved' = Carved
      /\ \A g, h : Shadows(g, h)' <=> Shadows(g, h)
      /\ \A h : Handled(h) => Handled(h)'
  BY <1>2, Unmoved DEF Carved
<1>6. TypeInv'
  BY <1>1, <1>2, <1>3, <1>4, <1>5 DEF TypeInv
<1>7. HitsInv'
  BY <1>2 DEF HitsInv
<1>8. TriedInv'
  BY <1>2, <1>4 DEF SweepInv, TriedInv
<1>9. NextInv'
  <2>1. ASSUME NEW g \in Carved, ScanStart <= Magic(g)
        PROVE  FALSE
    <3>1. g \in image /\ Magic(g) < ScanStart
      BY <1>1, <1>4, <2>1 DEF Carved, SweepInv, TriedInv
    <3>2. Magic(g) \in Nat
      BY <1>1, <3>1, ImageFacts DEF HeaderOk
    <3> QED BY <2>1, <3>1, <3>2, <1>3
  <2> QED BY <2>1, <1>2, <1>4, <1>5 DEF NextInv
<1>10. ApartInv'
  BY <1>5 DEF SweepInv, ApartInv
<1>11. RecordsInv'
  BY <1>1, <1>2, <1>5 DEF SweepInv, RecordsInv
<1>12. ASSUME NEW h \in image' PROVE (Ahead(h) \/ Handled(h))'
  <2>1. Magic(h) >= Front \/ Handled(h)
    BY <1>1, <1>2 DEF SweepInv, Ahead
  <2> QED BY <2>1, <1>4, <1>5 DEF Ahead
<1> QED
  BY <1>6, <1>7, <1>8, <1>9, <1>10, <1>11, <1>12 DEF SweepInv

(* What is known while a range is swept. *)
LEMMA InRange ==
  ASSUME ScansAreRegular, SweepInv, phase \in {"chunk", "hits"}
  PROVE  /\ Scan \in Scans /\ at \in DOMAIN ranges /\ at \in Nat
         /\ pos \in Nat /\ limit \in Nat /\ nextAllowed \in Nat /\ hits \in Seq(image) /\ tried \subseteq image
         /\ ScanStart \in Nat /\ ScanEnd \in Nat /\ ScanStart <= pos /\ ScanStart <= ScanEnd /\ ScanEnd <= Size
         /\ Size \in Nat /\ Front \in Nat /\ Front = Reach
<1>1. /\ Scan \in Scans /\ at \in DOMAIN ranges /\ at \in 1..(Len(ranges) + 1)
      /\ pos \in Nat /\ limit \in Nat /\ nextAllowed \in Nat /\ hits \in Seq(image) /\ tried \subseteq image
      /\ pos >= ScanStart
  BY DEF SweepInv, TypeInv
<1>2. ScanStart \in Nat /\ ScanEnd \in Nat /\ ScanStart <= ScanEnd /\ ScanEnd <= Size
  BY <1>1, RangeFacts DEF ScanStart, ScanEnd
<1>3. Front = Reach
  BY DEF Front
<1>4. Reach \in Nat
  <2>1. pos + (IF phase = "hits" THEN limit ELSE 0) \in Nat
    BY <1>1
  <2> QED BY <2>1, <1>2 DEF Reach, MinOf
<1>5. at \in Nat
  BY <1>1, RangeFacts
<1> QED
  BY <1>1, <1>2, <1>3, <1>4, <1>5, SizeAssumption

LEMMA BlankChunkKeeps ==
  ASSUME ScansAreRegular, SweepInv, BlankChunk
  PROVE  SweepInv'
<1>1. /\ phase = "chunk" /\ pos < ScanEnd /\ SkipBlank /\ IsBlank(pos, pos + Limit)
      /\ pos' = pos + Limit
      /\ UNCHANGED <<image, ranges, phase, at, limit, hits, nextAllowed, records, tried>>
  BY DEF BlankChunk
<1>2. /\ Scan \in Scans /\ pos \in Nat /\ ScanStart \in Nat /\ ScanEnd \in Nat /\ ScanStart <= pos
      /\ Front \in Nat /\ Front = Reach
  BY <1>1, InRange
<1>3. Limit \in Nat /\ 0 < Limit
  <2>1. TypeInv /\ InChunk
    BY <1>1 DEF SweepInv, InChunk
  <2> QED BY <2>1, LimitFacts
<1>4. ScanStart' = ScanStart /\ ScanEnd' = ScanEnd /\ Scan' = Scan
  BY <1>1 DEF ScanStart, ScanEnd, Scan
<1>5. Front = pos
  <2>1. Front = MinOf(pos + 0, ScanEnd)
    BY <1>1, <1>2 DEF Reach
  <2> QED BY <2>1, <1>1, <1>2 DEF MinOf
<1>6. Front' = MinOf(pos + Limit, ScanEnd)
  <2>1. Front' = MinOf(pos' + 0, ScanEnd)
    BY <1>1, <1>4 DEF Front, Reach
  <2> QED BY <2>1, <1>1, <1>2, <1>3
<1>7. TypeInv'
  BY <1>1, <1>2, <1>3, <1>4 DEF SweepInv, TypeInv
<1>8. HitsInv'
  BY <1>1 DEF HitsInv
<1>9. Front' \in Nat /\ Front <= Front'
  BY <1>1, <1>2, <1>3, <1>5, <1>6 DEF MinOf
<1>10. ASSUME NEW h \in image, Ahead(h)
       PROVE  Ahead(h)'
  <2>1. Magic(h) >= pos /\ Magic(h) \in Nat /\ h.len \in Nat /\ 0 < h.len /\ h.zeros = 0
    BY <1>1, <1>2, <1>5, <1>10, ImageFacts DEF Ahead, HeaderOk
  <2>2. Magic(h) \in NonZero(h)
    BY <2>1 DEF NonZero
  <2>3. Magic(h) < pos \/ Magic(h) >= pos + Limit
    <3>1. IsBlank(pos, pos + Limit)
      BY <1>1
    <3> QED BY <2>2, <3>1 DEF IsBlank
  <2>4. Magic(h) >= pos + Limit
    BY <2>1, <2>3, <1>2, <1>3
  <2>5. Magic(h) >= Front'
    BY <2>1, <2>4, <1>2, <1>3, <1>6 DEF MinOf
  <2> QED BY <2>5 DEF Ahead
<1> QED
  BY <1>1, <1>2, <1>7, <1>8, <1>9, <1>10, NothingTried

LEMMA ReadChunkKeeps ==
  ASSUME ScansAreRegular, SweepInv, ReadChunk
  PROVE  SweepInv'
<1>1. /\ phase = "chunk" /\ pos < ScanEnd
      /\ limit' = Limit /\ hits' = OwnHits /\ phase' = "hits"
      /\ UNCHANGED <<image, ranges, at, pos, nextAllowed, records, tried>>
  BY DEF ReadChunk
<1>2. /\ Scan \in Scans /\ pos \in Nat /\ ScanStart \in Nat /\ ScanEnd \in Nat /\ ScanStart <= pos
      /\ Front \in Nat /\ Front = Reach
  BY <1>1, InRange
<1>3. TypeInv /\ InChunk
  BY <1>1 DEF SweepInv, InChunk
<1>4. /\ Limit \in Nat /\ 0 < Limit
      /\ \A h \in image : Magic(h) < pos + Limit /\ Magic(h) < ScanEnd => Magic(h) + h.len <= BufEnd
  BY <1>3, LimitFacts
<1>5. /\ hits' \in Seq(image)
      /\ {hits'[k] : k \in DOMAIN hits'} = Begins(Limit)
      /\ InOrder(hits')
  BY <1>1, <1>3, <1>4, FindIterIs DEF OwnHits
<1>6. ScanStart' = ScanStart /\ ScanEnd' = ScanEnd /\ Scan' = Scan
  BY <1>1 DEF ScanStart, ScanEnd, Scan
<1>7. Front = pos /\ Front' = MinOf(pos + Limit, ScanEnd)
  <2>1. Front = MinOf(pos + 0, ScanEnd)
    BY <1>1, <1>2 DEF Reach
  <2>2. Front' = MinOf(pos' + limit', ScanEnd)
    BY <1>1, <1>6 DEF Front, Reach
  <2> QED BY <2>1, <2>2, <1>1, <1>2 DEF MinOf
<1>8. TypeInv'
  BY <1>1, <1>2, <1>3, <1>4, <1>5, <1>6 DEF TypeInv
<1>9. ASSUME NEW k \in DOMAIN hits'
      PROVE  hits'[k] \in image /\ pos <= Magic(hits'[k]) /\ Magic(hits'[k]) < pos + Limit
  BY <1>5, <1>9 DEF Begins
<1>10. HitsInv'
  <2>1. ASSUME NEW g \in tried, NEW k \in DOMAIN hits'
        PROVE  Magic(g) < Magic(hits'[k])
    <3>1. g \in image /\ Magic(g) < pos
      BY <1>3, <1>7 DEF SweepInv, TypeInv, TriedInv
    <3>2. Magic(g) \in Nat /\ Magic(hits'[k]) \in Nat
      BY <1>2, <1>9, <3>1, ImageFacts DEF HeaderOk
    <3> QED BY <3>1, <3>2, <1>2, <1>9
  <2>2. \A j, k \in DOMAIN hits' : j < k => Magic(hits'[j]) < Magic(hits'[k])
    BY <1>5 DEF InOrder
  <2> QED BY <2>1, <2>2, <1>1, <1>9 DEF HitsInv, Magic
<1>11. Front' \in Nat /\ Front <= Front'
  BY <1>1, <1>2, <1>4, <1>7 DEF MinOf
<1>12. ASSUME NEW h \in image, Ahead(h)
       PROVE  Ahead(h)'
  <2>1. Magic(h) >= pos /\ Magic(h) \in Nat
    BY <1>1, <1>2, <1>7, <1>12, ImageFacts DEF Ahead, HeaderOk
  <2>2. CASE Magic(h) >= Front'
    BY <2>2 DEF Ahead
  <2>3. CASE Magic(h) < Front'
    <3>1. Magic(h) < pos + Limit /\ Magic(h) < ScanEnd
      BY <2>1, <2>3, <1>2, <1>4, <1>7 DEF MinOf
    <3>2. Magic(h) + h.len <= BufEnd
      BY <3>1, <1>4
    <3>3. h \in Begins(Limit)
      BY <2>1, <3>1, <3>2 DEF Begins
    <3>4. h \in Waiting'
      BY <3>3, <1>5 DEF Waiting
    <3> QED BY <3>4, <1>1 DEF Ahead
  <2> QED BY <2>1, <2>2, <2>3, <1>11
<1> QED
  BY <1>1, <1>2, <1>8, <1>10, <1>11, <1>12, NothingTried

LEMMA EndChunkKeeps ==
  ASSUME ScansAreRegular, SweepInv, EndChunk
  PROVE  SweepInv'
<1>1. /\ phase = "hits" /\ hits = <<>> /\ phase' = "chunk" /\ pos' = pos + limit
      /\ UNCHANGED <<image, ranges, at, limit, hits, nextAllowed, records, tried>>
  BY DEF EndChunk
<1>2. /\ Scan \in Scans /\ pos \in Nat /\ limit \in Nat /\ ScanStart \in Nat /\ ScanEnd \in Nat
      /\ ScanStart <= pos /\ Front \in Nat /\ Front = Reach
  BY <1>1, InRange
<1>3. ScanStart' = ScanStart /\ ScanEnd' = ScanEnd /\ Scan' = Scan
  BY <1>1 DEF ScanStart, ScanEnd, Scan
<1>4. Front' = Front
  <2>1. Front = MinOf(pos + limit, ScanEnd)
    BY <1>1, <1>2 DEF Reach
  <2>2. Front' = MinOf(pos' + 0, ScanEnd)
    BY <1>1, <1>3 DEF Front, Reach
  <2> QED BY <2>1, <2>2, <1>1, <1>2
<1>5. TypeInv'
  BY <1>1, <1>2, <1>3 DEF SweepInv, TypeInv
<1>6. HitsInv'
  BY <1>1 DEF HitsInv
<1>7. ASSUME NEW h \in image, Ahead(h)
      PROVE  Ahead(h)'
  <2>1. Waiting = {}
    BY <1>1 DEF Waiting
  <2> QED BY <2>1, <1>4, <1>7 DEF Ahead
<1> QED
  BY <1>1, <1>2, <1>4, <1>5, <1>6, <1>7, NothingTried

LEMMA EndRangeKeeps ==
  ASSUME ScansAreRegular, SweepInv, EndRange
  PROVE  SweepInv'
<1>1. /\ phase = "chunk" /\ (pos >= ScanEnd \/ BufEnd <= pos) /\ phase' = "range" /\ at' = at + 1
      /\ UNCHANGED <<image, ranges, pos, limit, hits, nextAllowed, records, tried>>
  BY DEF EndRange
<1>2. /\ Scan \in Scans /\ at \in DOMAIN ranges /\ at \in Nat /\ pos \in Nat
      /\ limit \in Nat /\ nextAllowed \in Nat /\ hits \in Seq(image) /\ tried \subseteq image
      /\ ScanEnd \in Nat /\ ScanEnd <= Size /\ Front \in Nat /\ Front = Reach
  BY <1>1, InRange
<1>3. pos >= ScanEnd
  <2>1. SUFFICES ASSUME pos < ScanEnd PROVE pos < BufEnd
    <3>1. ASSUME pos < BufEnd, BufEnd <= pos, BufEnd \in Nat PROVE FALSE
      BY <3>1, <1>2
    <3>2. pos < ScanEnd => BufEnd \in Nat
      BY <1>1, LimitFacts DEF SweepInv, InChunk
    <3> QED BY <3>1, <3>2, <1>1, <1>2
  <2> QED BY <2>1, <1>1, LimitFacts DEF SweepInv, InChunk
<1>4. Front = ScanEnd
  <2>1. Front = MinOf(pos + 0, ScanEnd)
    BY <1>1, <1>2 DEF Reach
  <2> QED BY <2>1, <1>2, <1>3 DEF MinOf
<1>5. Front' = ScanEnd
  <2>1. Len(ranges) \in Nat /\ DOMAIN ranges = 1..Len(ranges)
    BY <1>2, RangeFacts
  <2>2. Front' = IF at + 1 \in DOMAIN ranges THEN ranges[at + 1][1] ELSE Size
    BY <1>1 DEF Front, ScanStart
  <2>3. CASE at + 1 \in DOMAIN ranges
    <3>1. at \in 1..(Len(ranges) - 1)
      BY <1>2, <2>1, <2>3
    <3> QED BY <2>2, <2>3, <3>1, <1>2, RangeFacts DEF ScanEnd
  <2>4. CASE at + 1 \notin DOMAIN ranges
    <3>1. at = Len(ranges)
      BY <1>2, <2>1, <2>4
    <3> QED BY <2>2, <2>4, <3>1, <1>2, RangeFacts DEF ScanEnd
  <2> QED BY <2>3, <2>4
<1>6. Scan' = Scan /\ Carved' = Carved
      /\ (\A g, h : Shadows(g, h)' <=> Shadows(g, h))
      /\ \A h : Handled(h) => Handled(h)'
  BY <1>1, Unmoved DEF Carved
<1>7. TypeInv'
  <2>1. at' \in 1..(Len(ranges) + 1)
    <3>1. Len(ranges) \in Nat /\ DOMAIN ranges = 1..Len(ranges)
      BY <1>2, RangeFacts
    <3> QED BY <3>1, <1>1, <1>2
  <2> QED BY <2>1, <1>1, <1>2, <1>6 DEF TypeInv
<1>8. HitsInv' /\ NextInv'
  BY <1>1 DEF HitsInv, NextInv
<1>9. TriedInv'
  BY <1>1, <1>4, <1>5 DEF SweepInv, TriedInv
<1>10. ApartInv'
  BY <1>6 DEF SweepInv, ApartInv
<1>11. RecordsInv'
  BY <1>1, <1>6 DEF SweepInv, RecordsInv
<1>12. ASSUME NEW h \in image' PROVE (Ahead(h) \/ Handled(h))'
  <2>1. Magic(h) >= Front \/ Handled(h)
    BY <1>1 DEF SweepInv, Ahead
  <2> QED BY <2>1, <1>4, <1>5, <1>6 DEF Ahead
<1> QED
  BY <1>7, <1>8, <1>9, <1>10, <1>11, <1>12 DEF SweepInv

LEMMA FinishKeeps ==
  ASSUME ScansAreRegular, SweepInv, Finish
  PROVE  SweepInv'
<1>1. /\ phase = "range" /\ at \notin DOMAIN ranges /\ phase' = "end"
      /\ records' = ContainmentFilter(records)
      /\ UNCHANGED <<image, ranges, at, pos, limit, hits, nextAllowed, tried>>
  BY DEF Finish
<1>2. Front = Size /\ Front' = Size
  BY <1>1 DEF Front
<1>3. Scan' = Scan /\ Carved' = Carved
      /\ (\A g, h : Shadows(g, h)' <=> Shadows(g, h))
      /\ \A h : Handled(h) => Handled(h)'
  BY <1>1, Unmoved DEF Carved
<1>4. TypeInv'
  BY <1>1, <1>3 DEF SweepInv, TypeInv
<1>5. HitsInv' /\ NextInv'
  BY <1>1 DEF HitsInv, NextInv
<1>6. TriedInv'
  BY <1>1, <1>2 DEF SweepInv, TriedInv
<1>7. ApartInv'
  BY <1>3 DEF SweepInv, ApartInv
<1>8. RecordsInv'
  <2>1. records = {Record(h) : h \in Carved}
    BY <1>1 DEF SweepInv, RecordsInv
  <2> QED BY <2>1, <1>1, <1>3 DEF RecordsInv
<1>9. ASSUME NEW h \in image' PROVE (Ahead(h) \/ Handled(h))'
  <2>1. Magic(h) >= Front \/ Handled(h)
    BY <1>1 DEF SweepInv, Ahead
  <2> QED BY <2>1, <1>2, <1>3 DEF Ahead
<1> QED
  BY <1>4, <1>5, <1>6, <1>7, <1>8, <1>9 DEF SweepInv

(* What is known of the next hit, and of the state after it. *)
HitIs(h) ==
  /\ h = Head(hits) /\ h \in image /\ h \in Waiting
  /\ pos <= Magic(h) /\ Magic(h) < pos + limit
  /\ \A g \in tried : Magic(g) < Magic(h)
  /\ \A g \in Waiting : g = h \/ g \in {Tail(hits)[k] : k \in DOMAIN Tail(hits)}
  /\ \A k \in DOMAIN Tail(hits) : Tail(hits)[k] \in Waiting /\ Magic(h) < Magic(Tail(hits)[k])
  /\ \A j, k \in DOMAIN Tail(hits) : j < k => Magic(Tail(hits)[j]) < Magic(Tail(hits)[k])
  /\ Tail(hits) \in Seq(image)

LEMMA HitFacts ==
  ASSUME ScansAreRegular, SweepInv, phase = "hits", hits # <<>>
  PROVE  HitIs(Head(hits))
<1> DEFINE h == Head(hits)
           t == Tail(hits)
<1>1. hits \in Seq(image) /\ Len(hits) \in Nat /\ DOMAIN hits = 1..Len(hits) /\ 1 \in DOMAIN hits
  BY DEF SweepInv, TypeInv
<1>2. h = hits[1] /\ h \in image
  BY <1>1
<1>3. t \in Seq(image) /\ DOMAIN t = 1..(Len(hits) - 1) /\ \A k \in DOMAIN t : t[k] = hits[k + 1]
  BY <1>1
<1>4. /\ \A k \in DOMAIN hits : pos <= Magic(hits[k]) /\ Magic(hits[k]) < pos + limit
      /\ \A j, k \in DOMAIN hits : j < k => Magic(hits[j]) < Magic(hits[k])
      /\ \A g \in tried, k \in DOMAIN hits : Magic(g) < Magic(hits[k])
  BY DEF SweepInv, HitsInv
<1>5. \A g \in Waiting : g = h \/ g \in {t[k] : k \in DOMAIN t}
  <2> SUFFICES ASSUME NEW k \in DOMAIN hits, hits[k] # h
               PROVE  hits[k] \in {t[i] : i \in DOMAIN t}
    BY DEF Waiting
  <2>1. k # 1 /\ k - 1 \in DOMAIN t /\ (k - 1) + 1 = k
    BY <1>1, <1>2, <1>3
  <2>2. t[k - 1] = hits[(k - 1) + 1]
    BY <2>1, <1>3
  <2> HIDE DEF t
  <2> QED BY <2>1, <2>2
<1>6. \A k \in DOMAIN t : k + 1 \in DOMAIN hits /\ 1 < k + 1
  BY <1>1, <1>3
<1>7. \A k \in DOMAIN t : t[k] \in Waiting /\ Magic(h) < Magic(t[k])
  BY <1>1, <1>2, <1>3, <1>4, <1>6 DEF Waiting
<1>8. \A j, k \in DOMAIN t : j < k => Magic(t[j]) < Magic(t[k])
  <2>1. \A j, k \in DOMAIN t : j < k => j + 1 < k + 1
    BY <1>1, <1>3
  <2> HIDE DEF t
  <2> QED BY <2>1, <1>3, <1>4, <1>6
<1>9. h \in Waiting
  BY <1>1, <1>2 DEF Waiting
<1> HIDE DEF h, t
<1>10. h = Head(hits) /\ t = Tail(hits)
  BY DEF h, t
<1>11. HitIs(h)
  BY <1>1, <1>2, <1>3, <1>4, <1>5, <1>7, <1>8, <1>9, <1>10 DEF HitIs
<1> QED
  BY <1>10, <1>11

(* A hit that is passed over was dealt with, or belongs to a later range. *)
LEMMA PassedIsHandled ==
  ASSUME ScansAreRegular, SweepInv, phase = "hits", hits # <<>>, ~Tries(Head(hits))
  PROVE  Handled(Head(hits)) \/ Magic(Head(hits)) >= ScanEnd
<1> DEFINE h == Head(hits)
<1>1. HitIs(h)
  BY HitFacts
<1> SUFFICES ASSUME Magic(h) < ScanEnd, h.start % Align = 0
             PROVE  SkipCarved /\ \E g \in Carved : Shadows(g, h)
  <2>1. Magic(h) \in Nat /\ ScanEnd \in Nat
    BY <1>1, InRange, ImageFacts DEF HitIs, HeaderOk
  <2> QED BY <2>1 DEF Handled
<1>2. /\ Scan \in Scans /\ at \in DOMAIN ranges /\ pos \in Nat /\ nextAllowed \in Nat /\ tried \subseteq image
      /\ ScanStart \in Nat /\ ScanEnd \in Nat /\ ScanStart <= pos
  BY InRange
<1>3. h \in image /\ HeaderOk(h) /\ pos <= Magic(h)
  BY <1>1, <1>2, ImageFacts DEF HitIs
<1>4. h.start >= ScanStart
  <2>1. ~Cut(ranges, h.start, Magic(h))
    BY <1>2, <1>3 DEF ScansAreRegular, Regular, Scan
  <2>2. h.start < ScanStart /\ ScanStart <= Magic(h) => Cut(ranges, h.start, Magic(h))
    BY <1>2, <1>3, CutFacts DEF HeaderOk
  <2> QED BY <2>1, <2>2, <1>2, <1>3 DEF HeaderOk
<1>5. Magic(h) >= h.off /\ Magic(h) - pos >= h.back
  BY <1>2, <1>3 DEF HeaderOk
<1>6. PassedOver(h)
  BY <1>4, <1>5 DEF Tries
<1>7. SkipCarved /\ h.start < nextAllowed
  BY <1>6 DEF PassedOver
<1>8. nextAllowed # ScanStart
  BY <1>2, <1>3, <1>4, <1>7 DEF HeaderOk
<1>9. PICK g \in Carved : ScanStart <= Magic(g) /\ g.validated /\ nextAllowed = g.start + g.size
  BY <1>8 DEF SweepInv, NextInv
<1>10. g \in tried /\ g \in image /\ Magic(g) < Magic(h)
  BY <1>1, <1>2, <1>9 DEF HitIs, Carved
<1>11. Magic(g) \in Nat
  BY <1>2, <1>10, ImageFacts DEF HeaderOk
<1>12. ~Cut(ranges, Magic(g), Magic(h))
  BY <1>2, <1>3, <1>9, <1>11, CutFacts DEF HeaderOk
<1>13. Reaches(g, h)
  BY <1>7, <1>9 DEF Reaches
<1> QED
  BY <1>7, <1>9, <1>10, <1>12, <1>13 DEF Shadows

(* Each step over a hit leaves the rest of them. *)
LEMMA HitPassed ==
  ASSUME ScansAreRegular, SweepInv, phase = "hits", hits # <<>>, hits' = Tail(hits),
         UNCHANGED <<image, ranges, phase, at, pos, limit>>, tried' \subseteq tried \cup {Head(hits)},
         nextAllowed' \in Nat
  PROVE  /\ TypeInv' /\ HitsInv'
         /\ Front' = Front /\ ScanStart' = ScanStart /\ ScanEnd' = ScanEnd
         /\ \A h \in image : Ahead(h) => Ahead(h)' \/ h = Head(hits)
<1>1. HitIs(Head(hits))
  BY HitFacts
<1>2. Scan' = Scan /\ ScanStart' = ScanStart /\ ScanEnd' = ScanEnd
  BY DEF Scan, ScanStart, ScanEnd
<1>3. Front' = Front
  BY <1>2 DEF Front, Reach
<1>4. TypeInv'
  BY <1>1, <1>2 DEF SweepInv, TypeInv, HitIs
<1>5. HitsInv'
  <2>1. ASSUME NEW k \in DOMAIN hits'
        PROVE  pos <= Magic(hits'[k]) /\ Magic(hits'[k]) < pos + limit
    <3>1. hits'[k] \in Waiting
      BY <1>1, <2>1 DEF HitIs
    <3> QED BY <3>1 DEF Waiting, SweepInv, HitsInv
  <2>2. ASSUME NEW g \in tried', NEW k \in DOMAIN hits'
        PROVE  Magic(g) < Magic(hits'[k])
    <3>1. CASE g = Head(hits)
      BY <1>1, <2>2, <3>1 DEF HitIs
    <3>2. CASE g \in tried
      <4>1. hits'[k] \in Waiting
        BY <1>1, <2>2 DEF HitIs
      <4> QED BY <4>1, <3>2 DEF Waiting, SweepInv, HitsInv
    <3> QED BY <3>1, <3>2, <2>2
  <2>3. \A j, k \in DOMAIN hits' : j < k => Magic(hits'[j]) < Magic(hits'[k])
    BY <1>1 DEF HitIs
  <2> QED BY <2>1, <2>2, <2>3 DEF HitsInv, Magic
<1>6. ASSUME NEW h \in image, Ahead(h), h # Head(hits)
      PROVE  Ahead(h)'
  <2>1. CASE Magic(h) >= Front
    BY <2>1, <1>3 DEF Ahead
  <2>2. CASE h \in Waiting
    <3>1. h \in {hits'[k] : k \in DOMAIN hits'}
      BY <1>1, <1>6, <2>2 DEF HitIs
    <3> QED BY <3>1 DEF Ahead, Waiting
  <2> QED BY <1>6, <2>1, <2>2 DEF Ahead
<1> QED
  BY <1>2, <1>3, <1>4, <1>5, <1>6

LEMMA PassHitKeeps ==
  ASSUME ScansAreRegular, SweepInv, PassHit
  PROVE  SweepInv'
<1>1. /\ phase = "hits" /\ hits # <<>> /\ ~Tries(Head(hits)) /\ hits' = Tail(hits)
      /\ UNCHANGED <<image, ranges, phase, at, pos, limit, nextAllowed, records, tried>>
  BY DEF PassHit
<1>2. nextAllowed' \in Nat
  BY <1>1, InRange
<1>3. /\ TypeInv' /\ HitsInv' /\ Front' = Front
      /\ \A h \in image : Ahead(h) => Ahead(h)' \/ h = Head(hits)
  BY <1>1, <1>2, HitPassed
<1>4. Front \in Nat /\ Front = Reach /\ ScanEnd \in Nat /\ pos \in Nat /\ limit \in Nat /\ Scan \in Scans
  BY <1>1, InRange
<1>5. ASSUME NEW h \in image, Ahead(h) PROVE Ahead(h)' \/ Handled(h)
  <2>1. CASE h # Head(hits)
    BY <1>3, <1>5, <2>1
  <2>2. CASE h = Head(hits) /\ Magic(h) >= ScanEnd
    <3>1. Front <= ScanEnd
      BY <1>1, <1>4 DEF Reach, MinOf
    <3>2. Magic(h) \in Nat
      BY <1>4, ImageFacts DEF HeaderOk
    <3> QED BY <2>2, <3>1, <3>2, <1>3, <1>4 DEF Ahead
  <2>3. CASE h = Head(hits) /\ Handled(h)
    BY <2>3
  <2> QED BY <1>1, <2>1, <2>2, <2>3, PassedIsHandled
<1> QED
  BY <1>1, <1>3, <1>4, <1>5, NothingTried

(* A hit that is tried lies in the range, ahead of all that was tried, and *)
(* after the last validated carve.                                         *)
LEMMA TriedHit ==
  ASSUME ScansAreRegular, SweepInv, phase = "hits", hits # <<>>, Tries(Head(hits)), hits' = Tail(hits),
         UNCHANGED <<image, ranges, phase, at, pos, limit>>, tried' = tried \cup {Head(hits)},
         nextAllowed' \in Nat
  PROVE  /\ TypeInv' /\ HitsInv' /\ TriedInv'
         /\ ScanStart' = ScanStart /\ ScanEnd' = ScanEnd
         /\ ScanStart <= Magic(Head(hits))
         /\ SkipCarved => nextAllowed <= Head(hits).start
         /\ \A h \in image' : (Ahead(h) \/ Handled(h))'
<1> DEFINE u == Head(hits)
<1>1. HitIs(u)
  BY HitFacts
<1>2. /\ TypeInv' /\ HitsInv' /\ Front' = Front /\ ScanStart' = ScanStart /\ ScanEnd' = ScanEnd
      /\ \A h \in image : Ahead(h) => Ahead(h)' \/ h = Head(hits)
  BY HitPassed
<1>3. /\ Scan \in Scans /\ pos \in Nat /\ limit \in Nat /\ nextAllowed \in Nat /\ tried \subseteq image
      /\ ScanStart \in Nat /\ ScanEnd \in Nat /\ ScanStart <= pos /\ Front = Reach
  BY InRange
<1>4. u \in image /\ HeaderOk(u) /\ pos <= Magic(u) /\ Magic(u) < pos + limit
  BY <1>1, <1>3, ImageFacts DEF HitIs
<1>5. Magic(u) < ScanEnd /\ u.start % Align = 0 /\ ~PassedOver(u)
  BY DEF Tries
<1>6. TriedInv'
  <2>1. Magic(u) < Front
    BY <1>3, <1>4, <1>5 DEF Reach, MinOf, HeaderOk
  <2>2. \A h \in tried : h.start % Align = 0 /\ Magic(h) < Front
    BY DEF SweepInv, TriedInv
  <2>3. ASSUME NEW h \in tried' PROVE h.start % Align = 0 /\ Magic(h) < Front'
    BY <2>1, <2>2, <2>3, <1>2, <1>5
  <2> QED BY <2>3 DEF TriedInv, Magic
<1>7. ScanStart <= Magic(u) /\ (SkipCarved => nextAllowed <= u.start)
  BY <1>3, <1>4, <1>5 DEF PassedOver, HeaderOk
<1>8. ASSUME NEW h \in image PROVE Ahead(h)' \/ Handled(h)'
  <2>1. CASE h = u
    BY <2>1 DEF Handled
  <2>2. CASE Ahead(h) /\ h # u
    BY <2>2, <1>2
  <2>3. CASE Handled(h)
    BY <2>3, Unmoved
  <2> QED BY <2>1, <2>2, <2>3 DEF SweepInv
<1> QED
  BY <1>2, <1>6, <1>7, <1>8

LEMMA RefuseHitKeeps ==
  ASSUME ScansAreRegular, SweepInv, RefuseHit
  PROVE  SweepInv'
<1>1. /\ phase = "hits" /\ hits # <<>> /\ Tries(Head(hits)) /\ ~Fits(Head(hits)) /\ hits' = Tail(hits)
      /\ tried' = tried \cup {Head(hits)}
      /\ UNCHANGED <<image, ranges, phase, at, pos, limit, nextAllowed, records>>
  BY DEF RefuseHit
<1>2. nextAllowed' \in Nat
  BY <1>1, InRange
<1>3. /\ TypeInv' /\ HitsInv' /\ TriedInv' /\ ScanStart' = ScanStart
      /\ \A h \in image' : (Ahead(h) \/ Handled(h))'
  BY <1>1, <1>2, TriedHit
<1>4. Carved' = Carved
  BY <1>1 DEF Carved
<1>5. NextInv' /\ ApartInv' /\ RecordsInv'
  BY <1>1, <1>3, <1>4 DEF SweepInv, NextInv, ApartInv, RecordsInv, Shadows
<1> QED
  BY <1>3, <1>5 DEF SweepInv

LEMMA CarveHitKeeps ==
  ASSUME ScansAreRegular, SweepInv, CarveHit
  PROVE  SweepInv'
<1> DEFINE u == Head(hits)
<1>1. /\ phase = "hits" /\ hits # <<>> /\ Tries(u) /\ Fits(u) /\ hits' = Tail(hits)
      /\ tried' = tried \cup {u} /\ records' = records \cup {Record(u)} /\ SkipAhead(u)
      /\ UNCHANGED <<image, ranges, phase, at, pos, limit>>
  BY DEF CarveHit
<1>2. HitIs(u)
  BY <1>1, HitFacts
<1>3. /\ Scan \in Scans /\ at \in DOMAIN ranges /\ pos \in Nat /\ limit \in Nat /\ nextAllowed \in Nat
      /\ tried \subseteq image /\ ScanStart \in Nat /\ ScanEnd \in Nat /\ ScanStart <= pos
  BY <1>1, InRange
<1>4. u \in image /\ HeaderOk(u)
  BY <1>2, <1>3, ImageFacts DEF HitIs
<1>5. nextAllowed' = IF SkipCarved /\ u.validated THEN u.start + u.size ELSE nextAllowed
  BY <1>1 DEF SkipAhead
<1>6. nextAllowed' \in Nat
  BY <1>3, <1>4, <1>5 DEF HeaderOk
<1>7. /\ TypeInv' /\ HitsInv' /\ TriedInv' /\ ScanStart' = ScanStart /\ ScanStart <= Magic(u)
      /\ (SkipCarved => nextAllowed <= u.start)
      /\ \A h \in image' : (Ahead(h) \/ Handled(h))'
  BY <1>1, <1>6, TriedHit
<1>8. Carved' = Carved \cup {u} /\ Carved \subseteq tried
  BY <1>1 DEF Carved
<1>9. ASSUME NEW g \in Carved
      PROVE  /\ g \in image /\ HeaderOk(g) /\ Magic(g) < Magic(u)
             /\ SkipCarved /\ ScanStart <= Magic(g) /\ g.validated => g.start + g.size <= nextAllowed
  <2>1. g \in tried /\ g \in image
    BY <1>3, <1>8
  <2>2. HeaderOk(g) /\ Magic(g) < Magic(u)
    BY <2>1, <1>2, <1>3, ImageFacts DEF HitIs
  <2>3. SkipCarved /\ ScanStart <= Magic(g) /\ g.validated => g.start + g.size <= nextAllowed
    BY <1>1 DEF SweepInv, NextInv
  <2> QED BY <2>1, <2>2, <2>3
<1>10. NextInv'
  <2>1. CASE SkipCarved /\ u.validated
    <3>1. u \in Carved' /\ ScanStart' <= Magic(u) /\ u.validated /\ nextAllowed' = u.start + u.size
      BY <2>1, <1>5, <1>7, <1>8
    <3>2. ASSUME NEW g \in Carved', ScanStart' <= Magic(g), g.validated
          PROVE  g.start + g.size <= nextAllowed'
      <4>1. CASE g = u
        BY <4>1, <3>1, <1>6
      <4>2. CASE g \in Carved
        <5>1. g.start + g.size <= nextAllowed
          BY <4>2, <3>2, <2>1, <1>7, <1>9
        <5>2. g.start + g.size \in Nat
          BY <4>2, <1>9 DEF HeaderOk
        <5> QED BY <5>1, <5>2, <3>1, <2>1, <1>3, <1>4, <1>7 DEF HeaderOk
      <4> QED BY <4>1, <4>2, <3>2, <1>8
    <3> QED BY <3>1, <3>2, <2>1 DEF NextInv, Magic
  <2>2. CASE ~(SkipCarved /\ u.validated)
    <3>1. nextAllowed' = nextAllowed
      BY <2>2, <1>5
    <3>2. nextAllowed # ScanStart =>
            SkipCarved /\ \E g \in Carved : ScanStart <= Magic(g) /\ g.validated /\ nextAllowed = g.start + g.size
      BY <1>1 DEF SweepInv, NextInv
    <3>3. SkipCarved => \A g \in Carved' : ScanStart <= Magic(g) /\ g.validated => g.start + g.size <= nextAllowed
      BY <2>2, <1>8, <1>9
    <3> QED BY <3>1, <3>2, <3>3, <1>7, <1>8 DEF NextInv, Magic
  <2> QED BY <2>1, <2>2
<1>11. ApartInv'
  <2>1. ASSUME SkipCarved, NEW g \in Carved', NEW h \in Carved', Shadows(g, h)
        PROVE  FALSE
    <3>1. Magic(g) < Magic(h) /\ ~Cut(ranges, Magic(g), Magic(h)) /\ g.validated /\ h.start < g.start + g.size
      BY <2>1 DEF Shadows, Reaches
    <3>2. CASE g \in Carved /\ h \in Carved
      BY <3>2, <2>1 DEF SweepInv, ApartInv
    <3>3. CASE g \in Carved /\ h = u
      <4>1. HeaderOk(g) /\ (ScanStart <= Magic(g) => g.start + g.size <= nextAllowed)
        BY <3>1, <3>3, <2>1, <1>9
      <4>2. Magic(g) < ScanStart => Cut(ranges, Magic(g), Magic(h))
        BY <3>3, <4>1, <1>3, <1>4, <1>7, CutFacts DEF HeaderOk
      <4>3. ScanStart <= Magic(g)
        BY <3>1, <4>1, <4>2, <1>3 DEF HeaderOk
      <4>4. g.start + g.size <= nextAllowed /\ nextAllowed <= h.start
        BY <4>1, <4>3, <3>3, <2>1, <1>7
      <4> QED BY <3>1, <3>3, <4>1, <4>4, <1>3, <1>4 DEF HeaderOk
    <3>4. CASE g = u /\ h \in Carved
      BY <3>1, <3>4, <1>4, <1>9 DEF HeaderOk
    <3>5. CASE g = u /\ h = u
      BY <3>1, <3>5, <1>4 DEF HeaderOk
    <3> QED BY <3>2, <3>3, <3>4, <3>5, <2>1, <1>8
  <2>2. \A g, h : Shadows(g, h)' <=> Shadows(g, h)
    BY <1>1 DEF Shadows
  <2> QED BY <2>1, <2>2 DEF ApartInv
<1>12. RecordsInv'
  <2>1. records = {Record(h) : h \in Carved}
    BY <1>1 DEF SweepInv, RecordsInv
  <2>2. records' = {Record(h) : h \in Carved'}
    <3> HIDE DEF u
    <3> QED BY <2>1, <1>1, <1>8
  <2>3. phase' # "end"
    BY <1>1
  <2> QED BY <2>2, <2>3 DEF RecordsInv, Record
<1> QED
  BY <1>7, <1>10, <1>11, <1>12 DEF SweepInv

LEMMA InitIsSwept ==
  ASSUME ScansAreRegular, Init
  PROVE  SweepInv
<1>1. /\ Scan \in Scans /\ phase = "range" /\ at = 1 /\ pos = 0 /\ limit = 0 /\ hits = <<>>
      /\ nextAllowed = 0 /\ records = {} /\ tried = {}
  <2>1. PICK s \in Scans : image = s.image /\ ranges = s.ranges
    BY DEF Init
  <2>2. s = [image |-> s.image, ranges |-> s.ranges]
    BY ScansAssumption
  <2> QED BY <2>1, <2>2 DEF Init, Scan
<1>2. Len(ranges) \in Nat \ {0} /\ DOMAIN ranges = 1..Len(ranges) /\ ranges[1][1] = 0
  BY <1>1, RangeFacts
<1>3. TypeInv
  BY <1>1, <1>2 DEF TypeInv
<1>4. HitsInv /\ TriedInv /\ NextInv
  BY <1>1 DEF HitsInv, TriedInv, NextInv
<1>5. ApartInv /\ RecordsInv
  BY <1>1 DEF ApartInv, RecordsInv, Carved
<1>6. Front = 0
  BY <1>1, <1>2 DEF Front, ScanStart
<1>7. \A h \in image : Ahead(h)
  BY <1>1, <1>6, ImageFacts DEF Ahead, HeaderOk
<1> QED
  BY <1>3, <1>4, <1>5, <1>7 DEF SweepInv

LEMMA SweepIsInvariant ==
  ScansAreRegular /\ Spec => []SweepInv
<1> SUFFICES ASSUME ScansAreRegular
             PROVE  Spec => []SweepInv
  OBVIOUS
<1>1. Init => SweepInv
  BY InitIsSwept
<1>2. SweepInv /\ [Next]_vars => SweepInv'
  <2> SUFFICES ASSUME SweepInv, [Next]_vars
               PROVE  SweepInv'
    OBVIOUS
  <2>1. CASE StartRange
    BY <2>1, StartRangeKeeps
  <2>2. CASE BlankChunk
    BY <2>2, BlankChunkKeeps
  <2>3. CASE ReadChunk
    BY <2>3, ReadChunkKeeps
  <2>4. CASE PassHit
    BY <2>4, PassHitKeeps
  <2>5. CASE RefuseHit
    BY <2>5, RefuseHitKeeps
  <2>6. CASE CarveHit
    BY <2>6, CarveHitKeeps
  <2>7. CASE EndChunk
    BY <2>7, EndChunkKeeps
  <2>8. CASE EndRange
    BY <2>8, EndRangeKeeps
  <2>9. CASE Finish
    BY <2>9, FinishKeeps
  <2>10. CASE UNCHANGED vars
    <3>1. UNCHANGED <<image, ranges, phase, at, pos, limit, hits, nextAllowed, records, tried>>
      BY <2>10 DEF vars
    <3> QED BY <3>1 DEF SweepInv, TypeInv, HitsInv, TriedInv, NextInv, ApartInv, RecordsInv,
                        Ahead, Handled, Waiting, Carved, Shadows, Front, Reach, ScanStart, ScanEnd, Scan
  <2> QED BY <2>1, <2>2, <2>3, <2>4, <2>5, <2>6, <2>7, <2>8, <2>9, <2>10 DEF Next
<1> QED
  BY <1>1, <1>2, PTL DEF Spec

-----------------------------------------------------------------------------
(***************************************************************************)
(* What the filter leaves.                                                 *)
(***************************************************************************)
Carve == [offset : Nat, size : Nat, validated : BOOLEAN]

Covers(r, x) == r.validated /\ r.offset <= x /\ x < End(r)

(* What a validated record covers is covered after the filter, too: the    *)
(* longest of the first records to cover it is kept.                       *)
LEMMA FilterCovers ==
  ASSUME NEW R, R \subseteq Carve, NEW b \in Nat, \A r \in R : r.size <= b,
         NEW x \in Nat, NEW r0 \in R, Covers(r0, x)
  PROVE  \E r \in ContainmentFilter(R) : Covers(r, x)
<1> DEFINE V == {r \in R : Covers(r, x)}
           O == {r.offset : r \in V}
<1>1. \A r \in V : r \in R /\ r.offset \in Nat /\ r.size \in Nat /\ r.size <= b /\ Covers(r, x)
  BY DEF Carve
<1>2. V # {}
  BY <1>1
<1>3. \E o \in O : \A p \in O : o <= p
  <2>1. O \subseteq Nat /\ O # {}
    <3> HIDE DEF V
    <3> QED BY <1>1, <1>2
  <2> HIDE DEF O
  <2> QED BY <2>1, LeastElement
<1>4. PICK o \in O : \A p \in O : o <= p
  BY <1>3
<1> DEFINE L == {r.size : r \in {q \in V : q.offset = o}}
<1>5. \E n \in L : \A m \in L : m <= n
  <2>1. L \subseteq Int /\ L # {} /\ (\A n \in L : n <= b) /\ b \in Int
    <3>1. PICK r \in V : r.offset = o
      BY <1>4
    <3> HIDE DEF V
    <3> QED BY <1>1, <3>1
  <2> HIDE DEF L
  <2> QED BY <2>1, GreatestElement
<1>6. PICK n \in L : \A m \in L : m <= n
  BY <1>5
<1>7. PICK r \in V : r.offset = o /\ r.size = n
  BY <1>6
<1>8. ASSUME NEW q \in R, q.validated, Earlier(q, r), End(r) <= End(q)
      PROVE  FALSE
  <2>1. q.offset \in Nat /\ q.size \in Nat
    BY <1>8 DEF Carve
  <2>2. q.offset <= r.offset /\ r.offset <= x /\ x < End(r)
    BY <1>1, <1>7, <1>8, <2>1 DEF Earlier, Covers
  <2>3. End(q) \in Nat /\ End(r) \in Nat
    BY <2>1, <1>1, <1>7 DEF End
  <2>4. q \in V
    BY <2>1, <2>2, <2>3, <1>1, <1>7, <1>8 DEF Covers
  <2>5. o <= q.offset
    BY <2>4, <1>4
  <2>6. q.offset = o /\ q.size > r.size
    BY <2>1, <2>2, <2>5, <1>1, <1>7, <1>8 DEF Earlier
  <2>7. q.size \in L
    BY <2>4, <2>6
  <2>8. q.size <= n
    BY <2>7, <1>6
  <2> QED BY <2>1, <2>6, <2>8, <1>1, <1>7
<1>9. r \in ContainmentFilter(R)
  BY <1>7, <1>8 DEF ContainmentFilter
<1> QED
  BY <1>7, <1>9

(* "A header straddling a chunk boundary is still found": whatever the     *)
(* sizes of the chunks and the ranges, Carver::run of src/src/carver.rs    *)
(* hands every aligned header to its handler, or a validated carve that is *)
(* reported covers its start.  The scans are those in which no magic is    *)
(* cut off by the start of a range or by what counts as blank.             *)
THEOREM HeadersAreTried ==
  (\A s \in Scans : Regular(s)) /\ Spec => []EveryHeaderTried
<1> SUFFICES ASSUME \A s \in Scans : Regular(s)
             PROVE  Spec => []EveryHeaderTried
  OBVIOUS
<1>1. ScansAreRegular
  BY DEF ScansAreRegular
<1>2. SweepInv => EveryHeaderTried
  <2> SUFFICES ASSUME SweepInv, phase = "end",
                      NEW h \in image, h \notin tried, h.start % Align = 0
               PROVE  SkipCarved /\ CoveredStart(h)
    BY DEF EveryHeaderTried
  <2>1. Scan \in Scans /\ at \notin DOMAIN ranges /\ tried \subseteq image
    BY DEF SweepInv, TypeInv
  <2>2. Front = Size
    BY <2>1 DEF Front
  <2>3. HeaderOk(h) /\ Size \in Nat
    BY <1>1, <2>1, ImageFacts, SizeAssumption
  <2>4. ~Ahead(h)
    BY <2>2, <2>3 DEF Ahead, HeaderOk
  <2>5. Handled(h)
    BY <2>4 DEF SweepInv
  <2>6. PICK g \in Carved : SkipCarved /\ Shadows(g, h)
    BY <2>5 DEF Handled
  <2> DEFINE R == {Record(u) : u \in Carved}
  <2>7. records = ContainmentFilter(R)
    BY DEF SweepInv, RecordsInv
  <2>8. ASSUME NEW u \in Carved
        PROVE  Record(u) \in Carve /\ Record(u).size <= Size
    <3>1. u \in image /\ Fits(u)
      BY <2>1 DEF Carved
    <3>2. HeaderOk(u)
      BY <1>1, <2>1, <3>1, ImageFacts
    <3>3. u.size <= Size
      BY <2>3, <3>1, <3>2 DEF Fits, Cap, WindowEnd, HeaderOk
    <3> QED BY <3>2, <3>3 DEF Record, Carve, HeaderOk
  <2>9. Covers(Record(g), h.start)
    <3>1. g \in image /\ HeaderOk(g)
      BY <1>1, <2>1, ImageFacts DEF Carved
    <3>2. g.start < h.start
      BY <1>1, <2>1, <2>6, <3>1, ImageFacts DEF Shadows
    <3> QED BY <2>3, <2>6, <3>1, <3>2 DEF Covers, Record, End, Shadows, Reaches, HeaderOk
  <2>10. R \subseteq Carve /\ (\A r \in R : r.size <= Size) /\ Record(g) \in R
    BY <2>8
  <2> HIDE DEF R
  <2>11. \E r \in ContainmentFilter(R) : Covers(r, h.start)
    BY <2>3, <2>9, <2>10, FilterCovers DEF HeaderOk
  <2> QED BY <2>6, <2>7, <2>11 DEF CoveredStart, Covers
<1>3. Spec => []SweepInv
  BY <1>1, SweepIsInvariant
<1> QED
  BY <1>2, <1>3, PTL

-----------------------------------------------------------------------------
(***************************************************************************)
(* The single pass.                                                        *)
(***************************************************************************)
(* Before any place, a pass has carved what it should of the headers there.*)
Passed(f, n) ==
  \A x \in 0..n : f[x] = {h \in image : Magic(h) < x /\ Carves(h, f[Magic(h)])}

LEMMA OnePassLoop ==
  ASSUME ScansAreRegular, Scan \in Scans
  PROVE  \E f : Passed(f, Size) /\ OnePass = f[Size]
<1> DEFINE n == Size
           X == SUBSET image
           Turn(x, before) == before \cup {h \in image : Magic(h) = x - 1 /\ Carves(h, before)}
           Follows(f) == f = [x \in 0..n |->
                                IF x = 0 THEN {}
                                ELSE f[x - 1] \cup {h \in image : Magic(h) = x - 1 /\ Carves(h, f[x - 1])}]
           carved == CHOOSE f : Follows(f)
           d == [y \in X \X (1..n) |-> Turn(y[2], y[1])]
<1>1. n \in Nat /\ \A h \in image : Magic(h) \in Nat
  BY SizeAssumption, ImageFacts DEF HeaderOk
<1>2. d \in [X \X (1..n) -> X]
  <2> SUFFICES ASSUME NEW y \in X \X (1..n) PROVE Turn(y[2], y[1]) \in X
    OBVIOUS
  <2>1. y[1] \in X
    OBVIOUS
  <2> QED BY <2>1
<1>3. PICK u : IsLoop(u, n, X, {}, d)
  <2>1. {} \in X
    OBVIOUS
  <2> HIDE DEF d, X, n
  <2> QED BY <1>1, <1>2, <2>1, LoopExists
<1>4. u \in [0..n -> X] /\ u = [k \in 0..n |-> IF k = 0 THEN {} ELSE d[<<u[k - 1], k>>]]
  BY Zenon, <1>3 DEF IsLoop
<1>5. Follows(u)
  <2>1. ASSUME NEW k \in 0..n, k # 0
        PROVE  d[<<u[k - 1], k>>] = u[k - 1] \cup {h \in image : Magic(h) = k - 1 /\ Carves(h, u[k - 1])}
    <3>1. k - 1 \in 0..n /\ k \in 1..n
      BY <2>1, <1>1
    <3>2. <<u[k - 1], k>> \in X \X (1..n)
      BY <3>1, <1>4
    <3> QED BY <3>2
  <2> HIDE DEF d, n
  <2> QED BY <1>4, <2>1
<1>6. Follows(carved)
  <2> HIDE DEF Follows
  <2> QED BY <1>5
<1>7. OnePass = carved[n]
  BY DEF OnePass
<1> HIDE DEF carved
<1> DEFINE Holds(x) == carved[x] = {h \in image : Magic(h) < x /\ Carves(h, carved[Magic(h)])}
           S == {x \in 0..n : Holds(x)}
<1>8. 0 \in S
  <2>1. carved[0] = {}
    BY <1>1, <1>6
  <2>2. ~ \E h \in image : Magic(h) < 0
    BY <1>1
  <2> QED BY <2>1, <2>2, <1>1
<1>9. ASSUME NEW x \in 0..(n - 1), x \in S
      PROVE  x + 1 \in S
  <2>1. x + 1 \in 0..n /\ x + 1 # 0 /\ (x + 1) - 1 = x /\ x \in Nat
    BY <1>1
  <2>2. carved[x + 1] = carved[(x + 1) - 1] \cup {h \in image : Magic(h) = (x + 1) - 1 /\ Carves(h, carved[(x + 1) - 1])}
    BY <2>1, <1>6
  <2>3. carved[x + 1] = carved[x] \cup {h \in image : Magic(h) = x /\ Carves(h, carved[x])}
    BY <2>1, <2>2
  <2>4. carved[x] = {h \in image : Magic(h) < x /\ Carves(h, carved[Magic(h)])}
    BY <1>9
  <2>5. \A h \in image : Magic(h) < x + 1 <=> Magic(h) < x \/ Magic(h) = x
    BY <2>1, <1>1
  <2>6. Holds(x + 1)
    BY <2>3, <2>4, <2>5
  <2> HIDE DEF Holds
  <2> QED BY <2>1, <2>6
<1>10. 0..n \subseteq S
  <2> HIDE DEF S
  <2> QED BY <1>1, <1>8, <1>9, UpTo
<1>11. Passed(carved, n)
  BY <1>10 DEF Passed
<1> QED
  BY <1>7, <1>11

(* A header is carved in one pass if it can be and no carve before it, of  *)
(* that pass, reaches it.                                                  *)
LEMMA OnePassIs ==
  ASSUME ScansAreRegular, Scan \in Scans
  PROVE  /\ OnePass \subseteq image
         /\ \A h \in image : h \in OnePass <=>
              /\ h.start % Align = 0 /\ Fits(h)
              /\ SkipCarved => ~ \E g \in OnePass : Magic(g) < Magic(h) /\ Reaches(g, h)
<1>1. PICK f : Passed(f, Size) /\ OnePass = f[Size]
  BY OnePassLoop
<1>2. Size \in Nat /\ \A h \in image : Magic(h) \in Nat /\ Magic(h) < Size
  BY SizeAssumption, ImageFacts DEF HeaderOk
<1>3. OnePass = {h \in image : Magic(h) < Size /\ Carves(h, f[Magic(h)])}
  BY <1>1, <1>2 DEF Passed
<1>4. ASSUME NEW h \in image
      PROVE  f[Magic(h)] = {g \in OnePass : Magic(g) < Magic(h)}
  <2>1. f[Magic(h)] = {g \in image : Magic(g) < Magic(h) /\ Carves(g, f[Magic(g)])}
    BY <1>1, <1>2 DEF Passed
  <2> QED BY <2>1, <1>2, <1>3
<1>5. ASSUME NEW h \in image
      PROVE  h \in OnePass <=> Carves(h, {g \in OnePass : Magic(g) < Magic(h)})
  BY <1>2, <1>3, <1>4
<1>6. ASSUME NEW h \in image
      PROVE  Carves(h, {g \in OnePass : Magic(g) < Magic(h)}) <=>
              /\ h.start % Align = 0 /\ Fits(h)
              /\ SkipCarved => ~ \E g \in OnePass : Magic(g) < Magic(h) /\ Reaches(g, h)
  BY DEF Carves
<1> QED
  BY <1>3, <1>5, <1>6

(* What is known of the headers that were carved when the sweep is over. *)
SweptOut ==
  /\ Carved \subseteq image
  /\ \A h \in Carved : h.start % Align = 0 /\ Fits(h)
  /\ \A h \in image : h.start % Align = 0 /\ Fits(h) => h \in Carved \/ \E g \in Carved : Shadows(g, h)
  /\ \A g, h \in Carved : ~Shadows(g, h)

LEMMA SweptOutAtTheEnd ==
  ASSUME ScansAreRegular, SweepInv, SkipCarved, phase = "end"
  PROVE  SweptOut
<1>1. Scan \in Scans /\ at \notin DOMAIN ranges /\ tried \subseteq image
  BY DEF SweepInv, TypeInv
<1>2. Front = Size
  BY <1>1 DEF Front
<1>3. ASSUME NEW h \in image, h.start % Align = 0, Fits(h)
      PROVE  h \in Carved \/ \E g \in Carved : Shadows(g, h)
  <2>1. HeaderOk(h) /\ Size \in Nat
    BY <1>1, ImageFacts, SizeAssumption
  <2>2. ~Ahead(h)
    BY <1>2, <2>1 DEF Ahead, HeaderOk
  <2>3. Handled(h)
    BY <2>2 DEF SweepInv
  <2> QED BY <2>3, <1>3 DEF Handled, Carved
<1>4. \A h \in Carved : h \in image /\ h.start % Align = 0 /\ Fits(h)
  BY <1>1 DEF Carved, SweepInv, TriedInv
<1>5. \A g, h \in Carved : ~Shadows(g, h)
  BY DEF SweepInv, ApartInv
<1> QED
  BY <1>3, <1>4, <1>5 DEF SweptOut

ScansAreNested == \A s \in Scans : Nested(s)

LEMMA NestedFacts ==
  ASSUME ScansAreRegular, ScansAreNested, Scan \in Scans,
         NEW g \in image, NEW h \in image, Magic(g) < Magic(h), Reaches(g, h),
         Cut(ranges, Magic(g), Magic(h))
  PROVE  h.start + h.size <= g.start + g.size
<1>1. g.start < h.start
  BY ImageFacts
<1>2. Nested(Scan)
  BY DEF ScansAreNested
<1> QED
  BY <1>1, <1>2 DEF Nested, Scan

(* What one pass carves, the sweep carves. *)
LEMMA SweepCarvesThePass ==
  ASSUME ScansAreRegular, ScansAreNested, Scan \in Scans, SkipCarved, SweptOut
  PROVE  OnePass \subseteq Carved
<1> DEFINE Missed == OnePass \ Carved
           T == {Magic(h) : h \in Missed}
<1> SUFFICES ASSUME Missed # {} PROVE FALSE
  OBVIOUS
<1>1. /\ OnePass \subseteq image /\ Carved \subseteq image
      /\ \A h \in image : HeaderOk(h)
  BY OnePassIs, ImageFacts DEF SweptOut
<1>2. T \subseteq Nat /\ T # {}
  BY <1>1 DEF HeaderOk
<1>3. PICK x \in T : \A y \in T : x <= y
  <2> HIDE DEF T
  <2> QED BY <1>2, LeastElement
<1>4. PICK h \in Missed : Magic(h) = x
  BY <1>3
<1>5. \A g \in OnePass : Magic(g) < Magic(h) => g \in Carved
  <2> SUFFICES ASSUME NEW g \in OnePass, Magic(g) < Magic(h), g \notin Carved
               PROVE  FALSE
    OBVIOUS
  <2>1. Magic(g) \in T
    OBVIOUS
  <2>2. x <= Magic(g) /\ Magic(h) = x /\ g \in image /\ h \in image
    BY <2>1, <1>1, <1>3, <1>4
  <2>3. Magic(g) \in Nat /\ Magic(h) \in Nat
    BY <2>2, <1>1 DEF HeaderOk
  <2> QED BY <2>2, <2>3
<1>6. h \in image /\ h \in OnePass /\ h.start % Align = 0 /\ Fits(h)
      /\ ~ \E g \in OnePass : Magic(g) < Magic(h) /\ Reaches(g, h)
  BY <1>1, OnePassIs
<1>7. PICK g \in Carved : Shadows(g, h)
  BY <1>6 DEF SweptOut
<1>8. /\ g \in image /\ g.start % Align = 0 /\ Fits(g)
      /\ Magic(g) < Magic(h) /\ Reaches(g, h)
  BY <1>1, <1>7 DEF SweptOut, Shadows
<1>9. g \notin OnePass
  BY <1>6, <1>8
<1>10. PICK e \in OnePass : Magic(e) < Magic(g) /\ Reaches(e, g)
  BY <1>8, <1>9, OnePassIs
<1>11. e \in image /\ HeaderOk(e) /\ HeaderOk(g) /\ HeaderOk(h)
  BY <1>1, <1>6, <1>8
<1>12. Magic(e) < Magic(h)
  BY <1>8, <1>10, <1>11 DEF HeaderOk
<1>13. e \in Carved
  BY <1>5, <1>12
<1>14. Cut(ranges, Magic(e), Magic(g))
  BY <1>7, <1>10, <1>13 DEF SweptOut, Shadows
<1>15. g.start + g.size <= e.start + e.size
  BY <1>8, <1>10, <1>11, <1>14, NestedFacts
<1>16. Reaches(e, h)
  BY <1>8, <1>10, <1>11, <1>15 DEF Reaches, HeaderOk
<1> QED
  BY <1>6, <1>12, <1>16

(* What it carves besides lies inside what the pass has carved before. *)
LEMMA BesidesIsInside ==
  ASSUME ScansAreRegular, ScansAreNested, Scan \in Scans, SkipCarved, SweptOut,
         NEW h \in Carved, h \notin OnePass
  PROVE  \E e \in OnePass : /\ Magic(e) < Magic(h) /\ e.validated
                            /\ e.start < h.start /\ h.start + h.size <= e.start + e.size
<1>1. h \in image /\ h.start % Align = 0 /\ Fits(h)
  BY DEF SweptOut
<1>2. PICK e \in OnePass : Magic(e) < Magic(h) /\ Reaches(e, h)
  BY <1>1, OnePassIs
<1>3. e \in image /\ e \in Carved
  BY OnePassIs, SweepCarvesThePass
<1>4. Cut(ranges, Magic(e), Magic(h))
  BY <1>2, <1>3 DEF SweptOut, Shadows
<1>5. h.start + h.size <= e.start + e.size
  BY <1>1, <1>2, <1>3, <1>4, NestedFacts
<1>6. e.start < h.start
  BY <1>1, <1>2, <1>3, ImageFacts
<1> QED
  BY <1>2, <1>5, <1>6 DEF Reaches

(* However the source is cut into chunks and ranges, run_ranges of         *)
(* src/src/carver.rs returns the records of one pass over it in one piece: *)
(* a worker does not see what the others skip, and what it finds inside    *)
(* their carves is what containment_filter takes out again, nothing more.  *)
(* The scans are those of HeadersAreTried, where also no carve begins      *)
(* inside one of another range and ends after it.                          *)
THEOREM SweepIsOnePass ==
  (\A s \in Scans : Regular(s) /\ Nested(s)) /\ SkipCarved /\ Spec => []SameAsOnePass
<1> SUFFICES ASSUME \A s \in Scans : Regular(s) /\ Nested(s), SkipCarved
             PROVE  Spec => []SameAsOnePass
  OBVIOUS
<1>1. ScansAreRegular /\ ScansAreNested
  BY DEF ScansAreRegular, ScansAreNested
<1>2. SweepInv => SameAsOnePass
  <2> SUFFICES ASSUME SweepInv, phase = "end"
               PROVE  records = InOnePass
    BY DEF SameAsOnePass
  <2> DEFINE R == {Record(h) : h \in Carved}
  <2>1. records = ContainmentFilter(R)
    BY DEF SweepInv, RecordsInv
  <2>2. Scan \in Scans /\ SweptOut
    BY <1>1, SweptOutAtTheEnd DEF SweepInv, TypeInv
  <2>3. OnePass \subseteq Carved /\ Carved \subseteq image
    BY <1>1, <2>2, SweepCarvesThePass DEF SweptOut
  <2>4. \A h \in image : HeaderOk(h)
    BY <1>1, <2>2, ImageFacts
  <2>5. ASSUME NEW h \in Carved, Record(h) \in ContainmentFilter(R)
        PROVE  h \in OnePass
    <3> SUFFICES ASSUME h \notin OnePass PROVE FALSE
      OBVIOUS
    <3>1. PICK e \in OnePass : /\ Magic(e) < Magic(h) /\ e.validated
                               /\ e.start < h.start /\ h.start + h.size <= e.start + e.size
      BY <1>1, <2>2, BesidesIsInside
    <3>2. Record(e) \in R
      BY <2>3
    <3>3. Record(e).validated /\ Earlier(Record(e), Record(h)) /\ End(Record(h)) <= End(Record(e))
      BY <3>1 DEF Record, Earlier, End
    <3> QED BY <2>5, <3>2, <3>3 DEF ContainmentFilter
  <2>6. ASSUME NEW h \in OnePass
        PROVE  Record(h) \in ContainmentFilter(R)
    <3>1. h \in Carved /\ h \in image /\ HeaderOk(h)
      BY <2>3, <2>4
    <3>2. Fits(h) /\ ~ \E g \in OnePass : Magic(g) < Magic(h) /\ Reaches(g, h)
      BY <1>1, <2>2, <3>1, OnePassIs
    <3>3. h.size > 0
      BY <3>1, <3>2, SizeAssumption DEF Fits, HeaderOk
    <3>4. ASSUME NEW g \in Carved, g.validated, Earlier(Record(g), Record(h)), End(Record(h)) <= End(Record(g))
          PROVE  FALSE
      <4>1. g \in image /\ HeaderOk(g)
        BY <2>3, <2>4
      <4>2. g.start < h.start \/ (g.start = h.start /\ g.size > h.size)
        BY <3>4 DEF Earlier, Record
      <4>3. h.start + h.size <= g.start + g.size
        BY <3>4 DEF End, Record
      <4>4. g.start # h.start
        <5>1. g.start = h.start => g = h
          BY <1>1, <2>2, <3>1, <4>1, ImageFacts
        <5> QED BY <5>1, <4>2, <3>1 DEF HeaderOk
      <4>5. g.start < h.start
        BY <4>2, <4>4
      <4>6. Magic(g) < Magic(h)
        BY <1>1, <2>2, <3>1, <4>1, <4>5, ImageFacts
      <4>7. Reaches(g, h)
        BY <3>1, <3>3, <3>4, <4>1, <4>3 DEF Reaches, HeaderOk
      <4>8. g \notin OnePass
        BY <3>2, <4>6, <4>7
      <4>9. PICK e \in OnePass : /\ Magic(e) < Magic(g) /\ e.validated
                                 /\ e.start < g.start /\ g.start + g.size <= e.start + e.size
        BY <1>1, <2>2, <4>8, BesidesIsInside
      <4>10. e \in image /\ HeaderOk(e)
        BY <2>3, <2>4
      <4>11. Magic(e) < Magic(h)
        BY <4>6, <4>9, <4>10, <4>1, <3>1 DEF HeaderOk
      <4>12. Reaches(e, h)
        BY <3>1, <4>1, <4>7, <4>9, <4>10 DEF Reaches, HeaderOk
      <4> QED BY <3>2, <4>11, <4>12
    <3>5. ASSUME NEW q \in R, q.validated, Earlier(q, Record(h)), End(Record(h)) <= End(q)
          PROVE  FALSE
      <4>1. PICK g \in Carved : q = Record(g)
        OBVIOUS
      <4>2. g.validated
        BY <3>5, <4>1 DEF Record
      <4> QED BY <3>4, <3>5, <4>1, <4>2
    <3>6. Record(h) \in R
      BY <3>1
    <3> HIDE DEF R
    <3> QED BY <3>5, <3>6 DEF ContainmentFilter
  <2>7. ContainmentFilter(R) \subseteq R
    BY DEF ContainmentFilter
  <2>8. ContainmentFilter(R) = {Record(h) : h \in OnePass}
    BY <2>5, <2>6, <2>7
  <2> QED BY <2>1, <2>8 DEF InOnePass
<1>3. Spec => []SweepInv
  BY <1>1, SweepIsInvariant
<1> QED
  BY <1>2, <1>3, PTL
=============================================================================
