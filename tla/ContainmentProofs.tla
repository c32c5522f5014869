------------------------- MODULE ContainmentProofs --------------------------
(***************************************************************************)
(* Theorems about Containment, for records of any number, place and size.  *)
(* The filter compares a record with one number, covered.  The invariant   *)
(* says what that number stands for: the end of a kept validated record at *)
(* or before the place the loop has come to, and no less than the end of   *)
(* any validated record before that place.                                 *)
(***************************************************************************)
EXTENDS Containment, TLAPS

Filtering == {"filter", "dedupe", "end"}
Filtered  == {"dedupe", "end"}

(* The records the loop of the filter has dealt with. *)
Passed(i) == \E a \in Found : a < p /\ order[a] = i

Swallowed(i) == \E j \in Found : Swallows(j, i)

CoveredBy == covered # 0 =>
  \E j \in kept : Passed(j) /\ found[j].validated /\ End(j) = covered

CoversPassed == \A j \in Found : Passed(j) /\ found[j].validated => End(j) <= covered

InFilter ==
  phase = "filter" =>
    /\ CoveredBy
    /\ CoversPassed
    /\ \A i \in kept : Passed(i) /\ ~Swallowed(i)
    /\ \A i \in Found : Passed(i) /\ i \notin kept => \E j \in kept : Swallows(j, i)

Inductive ==
  /\ TypeOK
  /\ phase \in {"run_dedupe", "sort"} => kept = {} /\ covered = 0
  /\ phase = "sort" => p = 1
  /\ phase \in Filtering => Sorted(order)
  /\ InFilter
  /\ KeepsTheUncontained
  /\ DroppedIsInKept

-----------------------------------------------------------------------------
LEMMA FoundFacts ==
  ASSUME found \in Seq(Records)
  PROVE  /\ Found = 1..Len(found) /\ Len(found) \in Nat
         /\ \A i \in Found : /\ found[i].offset \in Nat /\ found[i].size \in Nat
                             /\ End(i) \in Nat /\ found[i].validated \in BOOLEAN
                             /\ found[i].sha \in Digests
<1>1. Found = 1..Len(found) /\ Len(found) \in Nat
  BY DEF Found
<1>2. \A i \in Found : found[i] \in Records
  BY <1>1
<1> QED
  BY <1>1, <1>2 DEF Records, End

(* Precedes is a strict order. *)
LEMMA PrecedesFacts ==
  ASSUME found \in Seq(Records)
  PROVE  \A i, j \in Found : Precedes(i, j) => ~Precedes(j, i)
BY FoundFacts DEF Precedes

LEMMA InitInductive == Init => Inductive
<1> SUFFICES ASSUME Init PROVE Inductive
  OBVIOUS
<1>1. found \in Seq(Records)
  BY InputsAssumption DEF Init
<1>2. TypeOK
  BY <1>1, FoundFacts DEF Init, TypeOK, NoOrigin
<1> QED
  BY <1>2 DEF Init, Inductive, InFilter, KeepsTheUncontained, DroppedIsInKept, Filtering

(* Marking a record leaves the filter's variables alone. *)
LEMMA MarkTypes ==
  ASSUME TypeOK, NEW i \in Found, Mark(i)
  PROVE  /\ first' \in [Digests -> Found \cup {0}] /\ dup' \in [Found -> Found \cup {0}]
         /\ path' \subseteq Found /\ files' \subseteq Found
BY FoundFacts DEF TypeOK, Mark

LEMMA StepTypes ==
  ASSUME Inductive, Next
  PROVE  TypeOK'
<1> USE FoundFacts DEF Inductive, TypeOK, Found
<1>1. CASE RunDedupe
  <2>1. p' \in 1..(Len(found) + 1) /\ UNCHANGED <<found, order, phase, covered, kept>>
    BY <1>1 DEF RunDedupe
  <2>2. Mark(p) /\ p \in Found
    BY <1>1 DEF RunDedupe
  <2> QED
    BY <2>1, <2>2, MarkTypes
<1>2. CASE RunDedupeDone
  BY <1>2 DEF RunDedupeDone, NoOrigin
<1>3. CASE Sort
  BY <1>3 DEF Sort
<1>4. CASE Drop
  BY SMTT(30), <1>4 DEF Drop
<1>5. CASE Push
  BY SMTT(30), <1>5 DEF Push, Cover
<1>6. CASE FilterDone
  BY <1>6 DEF FilterDone
<1>7. CASE Dedupe
  <2>1. p' \in 1..(Len(found) + 1) /\ UNCHANGED <<found, order, phase, covered, kept>>
    BY <1>7 DEF Dedupe
  <2>2. order[p] \in Found /\ (Mark(order[p]) \/ UNCHANGED <<first, dup, path, files>>)
    BY <1>7 DEF Dedupe
  <2> QED
    BY <2>1, <2>2, MarkTypes
<1>8. CASE DedupeDone
  BY <1>8 DEF DedupeDone
<1> QED
  BY <1>1, <1>2, <1>3, <1>4, <1>5, <1>6, <1>7, <1>8 DEF Next

(* What the filter's comparison decides: a record not passed yet ends      *)
(* inside what is covered exactly if some validated record swallows it.    *)
LEMMA InsideIsSwallowed ==
  ASSUME Inductive, phase = "filter", p \in Found
  PROVE  /\ Inside(order[p]) => \E j \in kept : Swallows(j, order[p])
         /\ Swallowed(order[p]) => Inside(order[p])
<1> USE FoundFacts DEF Inductive, TypeOK, InFilter, Filtering
<1> DEFINE i == order[p]
<1>1. i \in Found
  OBVIOUS
<1>2. ASSUME Inside(i) PROVE \E j \in kept : Swallows(j, i)
  <2>1. PICK j \in kept : Passed(j) /\ found[j].validated /\ End(j) = covered
    BY <1>2 DEF CoveredBy, Inside
  <2>2. Precedes(j, i)
    BY <2>1 DEF Passed, Sorted
  <2> QED
    BY <1>1, <1>2, <2>1, <2>2 DEF Inside, Swallows
<1>3. ASSUME NEW j \in Found, Swallows(j, i) PROVE Inside(i)
  <2>1. PICK b \in Found : order[b] = j
    BY DEF Sorted
  <2>2. Precedes(j, i) /\ ~Precedes(i, j)
    BY <1>1, <1>3, PrecedesFacts DEF Swallows
  <2>3. b < p
    <3>1. ~(p < b)
      BY <2>1, <2>2 DEF Sorted
    <3>2. b # p
      BY <2>1, <2>2
    <3> QED
      BY <3>1, <3>2
  <2>4. End(j) <= covered
    BY <1>3, <2>1, <2>3 DEF CoversPassed, Passed, Swallows
  <2> QED
    BY SMTT(30), <1>1, <1>3, <2>4 DEF Swallows, Inside
<1> QED
  BY <1>2, <1>3 DEF Swallowed

(* One more place passed: what Passed means after a step of the filter. *)
LEMMA PassedNext ==
  ASSUME Inductive, phase = "filter", p \in Found, p' = p + 1, UNCHANGED <<found, order>>
  PROVE  \A i \in Found : Passed(i)' <=> Passed(i) \/ i = order[p]
BY FoundFacts DEF Inductive, TypeOK, Passed, Found

LEMMA DropInductive ==
  ASSUME Inductive, Drop, TypeOK'
  PROVE  Inductive'
<1> USE DEF Drop
<1>1. UNCHANGED <<found, order, phase, covered, kept>> /\ p' = p + 1
  OBVIOUS
<1>2. \A i \in Found : Passed(i)' <=> Passed(i) \/ i = order[p]
  BY PassedNext
<1>3. order[p] \in Found /\ ~Passed(order[p])
  BY FoundFacts, PrecedesFacts DEF Inductive, TypeOK, Passed, Sorted, Filtering
<1>4. PICK j \in kept : Swallows(j, order[p])
  BY InsideIsSwallowed
<1> HIDE DEF Drop
<1>5. \A i, k \in Found : (Swallows(i, k)' <=> Swallows(i, k)) /\ End(i)' = End(i)
  BY <1>1 DEF Swallows, Precedes, End
<1>6. j \in Found /\ End(order[p]) <= End(j) /\ kept \subseteq Found /\ phase = "filter"
  BY <1>4, Drop DEF Swallows, Inductive, TypeOK, Drop
<1>7. CoveredBy'
  BY <1>1, <1>2, <1>5, <1>6 DEF Inductive, InFilter, CoveredBy
<1>8. CoversPassed'
  <2>1. End(j) <= covered /\ covered \in Nat
    BY <1>4, <1>6 DEF Inductive, InFilter, TypeOK, CoversPassed, Swallows
  <2>2. End(order[p]) <= covered
    BY <2>1, <1>3, <1>6, FoundFacts DEF Inductive, TypeOK
  <2> QED
    BY <1>1, <1>2, <1>3, <1>5, <1>6, <2>2 DEF Inductive, InFilter, CoversPassed, Found
<1>9. \A i \in kept : Passed(i)' /\ ~Swallowed(i)'
  BY <1>1, <1>2, <1>5, <1>6 DEF Inductive, InFilter, Swallowed, Found
<1>10. \A i \in Found : Passed(i)' /\ i \notin kept => \E h \in kept : Swallows(h, i)'
  BY <1>1, <1>2, <1>4, <1>5, <1>6 DEF Inductive, InFilter
<1>11. InFilter'
  BY <1>1, <1>7, <1>8, <1>9, <1>10 DEF InFilter, Found
<1>12. Sorted(order)'
  BY <1>1, <1>6 DEF Inductive, Sorted, Precedes, Found, Filtering
<1> QED
  BY <1>1, <1>6, <1>11, <1>12 DEF Inductive, KeepsTheUncontained, DroppedIsInKept

LEMMA PushInductive ==
  ASSUME Inductive, Push, TypeOK'
  PROVE  Inductive'
<1> USE DEF Push
<1>1. UNCHANGED <<found, order, phase>> /\ p' = p + 1 /\ kept' = kept \cup {order[p]}
  OBVIOUS
<1>2. covered' = IF found[order[p]].validated /\ End(order[p]) > covered
                  THEN End(order[p]) ELSE covered
  BY DEF Cover
<1>3. \A i \in Found : Passed(i)' <=> Passed(i) \/ i = order[p]
  BY PassedNext
<1>4. order[p] \in Found /\ phase = "filter" /\ kept \subseteq Found /\ covered \in Nat
  BY FoundFacts DEF Inductive, TypeOK, Found
<1>5. ~Swallowed(order[p])
  BY InsideIsSwallowed
<1> HIDE DEF Push
<1>6. \A i, k \in Found : (Swallows(i, k)' <=> Swallows(i, k)) /\ End(i)' = End(i) /\ End(i) \in Nat
  BY <1>1, FoundFacts DEF Swallows, Precedes, End, Inductive, TypeOK
<1>7. CoveredBy'
  <2>1. CASE found[order[p]].validated /\ End(order[p]) > covered
    BY <2>1, <1>1, <1>2, <1>3, <1>4, <1>6 DEF CoveredBy
  <2>2. CASE ~(found[order[p]].validated /\ End(order[p]) > covered)
    BY <2>2, <1>1, <1>2, <1>3, <1>4, <1>6 DEF CoveredBy, Inductive, InFilter
  <2> QED
    BY <2>1, <2>2
<1>8. CoversPassed'
  BY <1>1, <1>2, <1>3, <1>4, <1>6 DEF Inductive, InFilter, CoversPassed, Found
<1>9. \A i \in kept' : Passed(i)' /\ ~Swallowed(i)'
  BY <1>1, <1>3, <1>4, <1>5, <1>6 DEF Inductive, InFilter, Swallowed, Found
<1>10. \A i \in Found : Passed(i)' /\ i \notin kept' => \E h \in kept' : Swallows(h, i)'
  BY <1>1, <1>3, <1>4, <1>6 DEF Inductive, InFilter
<1>11. InFilter'
  BY <1>1, <1>7, <1>8, <1>9, <1>10 DEF InFilter, Found
<1>12. Sorted(order)'
  BY <1>1, <1>4 DEF Inductive, Sorted, Precedes, Found, Filtering
<1> QED
  BY <1>1, <1>4, <1>11, <1>12 DEF Inductive, KeepsTheUncontained, DroppedIsInKept

(* After the last place every record has been passed. *)
LEMMA FilterDoneInductive ==
  ASSUME Inductive, FilterDone, TypeOK'
  PROVE  Inductive'
<1>1. UNCHANGED <<found, order, kept>> /\ phase = "filter" /\ phase' \in Filtered
  BY DEF FilterDone, Filtered
<1>2. \A i \in Found : Passed(i)
  <2>1. Found = 1..Len(found) /\ Len(found) \in Nat
    BY FoundFacts DEF Inductive, TypeOK
  <2>2. p \in 1..(Len(found) + 1) /\ p \notin Found
    BY DEF FilterDone, Inductive, TypeOK
  <2>3. \A a \in Found : a < p
    BY <2>1, <2>2
  <2>4. \A i \in Found : \E a \in Found : order[a] = i
    BY <1>1 DEF Inductive, Sorted, Filtering
  <2> QED
    BY <2>3, <2>4 DEF Passed
<1>3. \A i \in Found \ kept : \E j \in kept : Swallows(j, i)
  BY <1>1, <1>2 DEF Inductive, InFilter
<1>4. kept \subseteq Found /\ \A i \in kept : ~Swallowed(i)
  BY <1>1 DEF Inductive, InFilter, TypeOK
<1>5. kept = {i \in Found : ~ \E j \in Found : Swallows(j, i)}
  BY <1>3, <1>4 DEF Swallowed
<1>6. KeepsTheUncontained' /\ DroppedIsInKept'
  BY <1>1, <1>3, <1>5 DEF KeepsTheUncontained, DroppedIsInKept, Swallows, Precedes, End, Found
<1>7. Sorted(order)'
  BY <1>1 DEF Inductive, Sorted, Precedes, Found, Filtering
<1> QED
  BY <1>1, <1>6, <1>7 DEF Inductive, InFilter, Filtered

LEMMA SortInductive ==
  ASSUME Inductive, Sort, TypeOK'
  PROVE  Inductive'
<1>1. UNCHANGED <<found, covered, kept, p>> /\ phase = "sort" /\ phase' = "filter" /\ p = 1
  BY DEF Sort, Inductive
<1>2. Sorted(order)'
  BY <1>1 DEF Sort, Sorted, Precedes, Found
<1>3. kept' = {} /\ covered' = 0 /\ p' = 1
  BY <1>1 DEF Inductive
<1>4. \A i : ~Passed(i)'
  BY SMTT(30), <1>3, FoundFacts DEF Passed, TypeOK
<1>5. InFilter'
  BY <1>3, <1>4 DEF InFilter, CoveredBy, CoversPassed
<1> QED
  BY <1>1, <1>2, <1>5 DEF Inductive, KeepsTheUncontained, DroppedIsInKept

(* Deduplication touches nothing the invariant is about. *)
LEMMA OtherInductive ==
  ASSUME Inductive, RunDedupe \/ RunDedupeDone \/ Dedupe \/ DedupeDone, TypeOK'
  PROVE  Inductive'
<1>1. UNCHANGED <<found, order, covered, kept>>
  BY DEF RunDedupe, RunDedupeDone, Dedupe, DedupeDone
<1>2. \/ phase = "run_dedupe" /\ phase' = "run_dedupe"
      \/ phase = "run_dedupe" /\ phase' = "sort" /\ p' = 1
      \/ phase \in Filtered /\ phase' \in Filtered
  BY DEF RunDedupe, RunDedupeDone, Dedupe, DedupeDone, Filtered
<1>3. Sorted(order)' <=> Sorted(order)
  BY <1>1 DEF Sorted, Precedes, Found
<1>4. \A i, k \in Found : Swallows(i, k)' <=> Swallows(i, k)
  BY <1>1 DEF Swallows, Precedes, End
<1>5. kept \subseteq Found
  BY DEF Inductive, TypeOK
<1>6. KeepsTheUncontained' /\ DroppedIsInKept'
  BY <1>1, <1>2, <1>4, <1>5
     DEF Inductive, KeepsTheUncontained, DroppedIsInKept, Filtered, Found
<1> QED
  BY <1>1, <1>2, <1>3, <1>6 DEF Inductive, InFilter, Filtered, Filtering

-----------------------------------------------------------------------------
THEOREM InductiveHolds == Spec => []Inductive
<1>1. Inductive /\ Next => Inductive'
  BY StepTypes, DropInductive, PushInductive, FilterDoneInductive, SortInductive,
     OtherInductive DEF Next
<1>2. Inductive /\ UNCHANGED vars => Inductive'
  <2> SUFFICES ASSUME Inductive, UNCHANGED vars PROVE Inductive'
    OBVIOUS
  <2>1. TypeOK' <=> TypeOK
    BY DEF TypeOK, Found, vars
  <2>2. Sorted(order)' <=> Sorted(order)
    BY DEF Sorted, Precedes, Found, vars
  <2>3. InFilter' <=> InFilter
    BY DEF InFilter, CoveredBy, CoversPassed, Swallowed, Passed, Swallows, Precedes, End, Found, vars
  <2>4. (KeepsTheUncontained' <=> KeepsTheUncontained) /\ (DroppedIsInKept' <=> DroppedIsInKept)
    BY DEF KeepsTheUncontained, DroppedIsInKept, Swallows, Precedes, End, Found, vars
  <2> QED
    BY <2>1, <2>2, <2>3, <2>4 DEF Inductive, vars
<1> QED
  BY InitInductive, <1>1, <1>2, PTL DEF Spec

(* The one-number filter of containment_filter drops exactly the records   *)
(* that lie inside a validated record before them, whatever the records.   *)
THEOREM FilterKeepsTheUncontained == Spec => []KeepsTheUncontained
BY InductiveHolds, PTL DEF Inductive

(* A dropped record always lies inside a validated record that was kept,   *)
(* so nothing is dropped on account of something itself dropped.           *)
THEOREM FilterDropsOnlyTheContained == Spec => []DroppedIsInKept
BY InductiveHolds, PTL DEF Inductive

-----------------------------------------------------------------------------
(* The files.  A record still names its file unless it was marked; its     *)
(* file is there as long as it does, and until the filter drops it.        *)

FilesFollow ==
  /\ phase \in {"run_dedupe", "sort"} => files = path
  /\ phase = "filter" => \A i \in Found : i \in files <=> i \in path /\ (Passed(i) => i \in kept)
  /\ phase \in Filtered => files = path \cap kept

(* Marking a record takes away its name and its file together.             *)
LEMMA MarkFiles ==
  ASSUME Inductive, NEW i, Mark(i)
  PROVE  \/ UNCHANGED <<path, files>>
         \/ path' = path \ {i} /\ files' = files \ {i}
         \/ path' = path /\ files' = files /\ i \notin path
BY DEF Mark

LEMMA StepFiles ==
  ASSUME Inductive, FilesFollow, Next
  PROVE  FilesFollow'
<1> USE FoundFacts DEF Inductive, TypeOK
<1>1. CASE RunDedupe
  <2>1. UNCHANGED phase /\ phase = "run_dedupe" /\ Mark(p)
    BY <1>1 DEF RunDedupe
  <2>2. files' = path'
    BY <2>1, MarkFiles DEF FilesFollow
  <2> QED
    BY <2>1, <2>2 DEF FilesFollow, Filtered
<1>2. CASE RunDedupeDone
  BY <1>2 DEF RunDedupeDone, FilesFollow, Filtered
<1>3. CASE Sort
  <2>1. UNCHANGED <<found, path, files>> /\ p' = 1 /\ phase' = "filter" /\ files = path
    BY <1>3 DEF Sort, FilesFollow
  <2>2. \A i \in Found : ~Passed(i)'
    BY <2>1 DEF Passed, Found
  <2> QED
    BY <2>1, <2>2 DEF FilesFollow, Filtered, Found
<1>4. CASE Drop
  <2>1. UNCHANGED <<found, order, phase, kept, path>> /\ phase = "filter" /\ p' = p + 1 /\ p \in Found
    BY <1>4 DEF Drop
  <2>2. \A i \in Found : Passed(i)' <=> Passed(i) \/ i = order[p]
    BY <2>1, PassedNext
  <2>3. \A i \in Found : i \in files' <=> i \in files /\ i # order[p]
    BY <1>4, <2>1 DEF Drop, FilesFollow
  <2>4. order[p] \notin kept
    <3>1. ~Passed(order[p]) /\ order[p] \in Found
      BY <2>1, PrecedesFacts DEF Passed, Sorted, Filtering
    <3> QED
      BY <2>1, <3>1 DEF InFilter
  <2> QED
    BY <2>1, <2>2, <2>3, <2>4 DEF FilesFollow, Filtered, Found
<1>5. CASE Push
  <2>1. UNCHANGED <<found, order, phase, path, files>> /\ phase = "filter" /\ p' = p + 1 /\ p \in Found
        /\ kept' = kept \cup {order[p]}
    BY <1>5 DEF Push
  <2>2. \A i \in Found : Passed(i)' <=> Passed(i) \/ i = order[p]
    BY <2>1, PassedNext
  <2>3. ~Passed(order[p])
    BY <2>1, PrecedesFacts DEF Passed, Sorted, Filtering
  <2> QED
    BY <2>1, <2>2, <2>3 DEF FilesFollow, Filtered, Found
<1>6. CASE FilterDone
  <2>1. UNCHANGED <<path, files, kept>> /\ phase = "filter" /\ phase' \in Filtered /\ p \notin Found
    BY <1>6 DEF FilterDone, Filtered
  <2>2. \A a \in Found : a < p
    BY <2>1
  <2>3. \A i \in Found : Passed(i)
    BY <2>1, <2>2 DEF Passed, Sorted, Filtering
  <2>4. files = path \cap kept
    BY <2>1, <2>3 DEF FilesFollow
  <2> QED
    BY <2>1, <2>4 DEF FilesFollow, Filtered
<1>7. CASE Dedupe
  <2>1. UNCHANGED <<phase, kept>> /\ phase = "dedupe"
    BY <1>7 DEF Dedupe
  <2>2. Mark(order[p]) \/ UNCHANGED <<path, files>>
    BY <1>7 DEF Dedupe
  <2>3. files' = path' \cap kept
    BY <2>1, <2>2, MarkFiles DEF FilesFollow, Filtered
  <2> QED
    BY <2>1, <2>3 DEF FilesFollow, Filtered
<1>8. CASE DedupeDone
  BY <1>8 DEF DedupeDone, FilesFollow, Filtered
<1> QED
  BY <1>1, <1>2, <1>3, <1>4, <1>5, <1>6, <1>7, <1>8 DEF Next

LEMMA StutterFiles == FilesFollow /\ UNCHANGED vars => FilesFollow'
BY DEF FilesFollow, Passed, Found, vars

LEMMA FilesFollowAlways == Spec => [](Inductive /\ FilesFollow)
<1>1. Init => FilesFollow
  BY DEF Init, FilesFollow, Filtered
<1> QED
  BY <1>1, StepFiles, StutterFiles, InductiveHolds, PTL DEF Spec

(* At the end the files on disk are those that the kept records name,      *)
(* whatever the records, and also after a run with one job that has marked *)
(* duplicates before the filter.                                           *)
THEOREM FilesOnDiskAreRecorded == Spec => []FilesAreRecorded
<1>1. FilesFollow => FilesAreRecorded
  BY DEF FilesFollow, FilesAreRecorded, Filtered
<1> QED
  BY <1>1, FilesFollowAlways, PTL

-----------------------------------------------------------------------------
(* The origins.  Where duplicates are looked for only after the filter,    *)
(* the first record of a digest was kept and is not marked itself, so      *)
(* nothing takes its file away.                                            *)

IsOrigin(i) ==
  /\ i \in kept /\ Passed(i)
  /\ ~DryRun => i \in path

OriginOf(d) == first[d] # 0 => IsOrigin(first[d]) /\ found[first[d]].sha = d

Unmarked == first = NoOrigin /\ dup = [i \in Found |-> 0] /\ path = IF DryRun THEN {} ELSE Found

Origins ==
  SerialInputs = {} =>
    /\ phase # "run_dedupe"
    /\ phase \in {"sort", "filter"} => Unmarked
    /\ phase = "dedupe" =>
         /\ \A d \in Digests : OriginOf(d)
         /\ \A i \in Found : i \in kept /\ ~Passed(i) => dup[i] = 0 /\ (~DryRun => i \in path)
    /\ phase \in Filtered => \A i \in kept : dup[i] # 0 =>
         /\ dup[i] \in kept /\ found[dup[i]].sha = found[i].sha
         /\ ~DryRun => dup[i] \in path
         /\ phase = "dedupe" => dup[i] = first[found[i].sha]

LEMMA DedupeOrigins ==
  ASSUME Inductive, Origins, Dedupe
  PROVE  Origins'
<1> SUFFICES ASSUME SerialInputs = {} PROVE Origins'
  BY DEF Origins
<1> USE FoundFacts DEF Inductive, TypeOK
<1> DEFINE o == order[p]
<1>1. UNCHANGED <<found, order, phase, kept>> /\ phase = "dedupe" /\ p' = p + 1 /\ p \in Found
  BY DEF Dedupe
<1>2. o \in Found /\ ~Passed(o)
  BY <1>1, PrecedesFacts DEF Passed, Sorted, Filtering
<1>3. \A i \in Found : Passed(i)' <=> Passed(i) \/ i = o
  BY <1>1 DEF Passed, Found
<1>4. \A i \in Found : found'[i] = found[i]
  BY <1>1
<1>5. CASE o \notin kept
  <2>1. UNCHANGED <<first, dup, path, files>>
    BY <1>5 DEF Dedupe
  <2> QED
    BY <1>1, <1>2, <1>3, <1>5, <2>1 DEF Origins, OriginOf, IsOrigin, Filtered, Found
<1>6. CASE o \in kept
  <2> DEFINE d == found[o].sha
  <2>1. Mark(o) /\ d \in Digests
    BY <1>2, <1>6 DEF Dedupe
  <2>2. dup[o] = 0 /\ (~DryRun => o \in path)
    BY <1>1, <1>2, <1>6 DEF Origins
  <2>3. CASE first[d] = 0
    <3>1. first' = [first EXCEPT ![d] = o] /\ UNCHANGED <<dup, path>>
      BY <2>1, <2>3 DEF Mark
    <3>2. ASSUME NEW e \in Digests PROVE OriginOf(e)'
      <4>1. OriginOf(e)
        BY <1>1 DEF Origins
      <4>2. CASE e = d
        <5>1. first'[e] = o
          BY <3>1, <4>2
        <5> QED
          BY <1>1, <1>2, <1>3, <1>6, <2>2, <3>1, <4>2, <5>1 DEF OriginOf, IsOrigin
      <4>3. CASE e # d
        <5>1. first'[e] = first[e] /\ first[e] \in Found \cup {0}
          BY <3>1, <4>3
        <5> HIDE DEF d
        <5> QED
          BY <1>1, <1>3, <3>1, <4>1, <5>1 DEF OriginOf, IsOrigin
      <4> QED
        BY <4>2, <4>3
    <3>3. \A i \in kept : dup[i] # 0 => dup[i] = first'[found[i].sha]
      BY <1>1, <1>2, <2>1, <2>3, <3>1 DEF Origins, Filtered
    <3>4. \A i \in Found : i \in kept /\ ~Passed(i)' => dup[i] = 0 /\ (~DryRun => i \in path)
      BY <1>1, <1>3 DEF Origins
    <3>5. \A i \in kept : dup[i] # 0 =>
            dup[i] \in kept /\ found[dup[i]].sha = found[i].sha /\ (~DryRun => dup[i] \in path)
      BY <1>1 DEF Origins, Filtered
    <3> HIDE DEF o, d
    <3> QED
      BY <1>1, <3>1, <3>2, <3>3, <3>4, <3>5 DEF Origins, Filtered, Found
  <2>4. CASE first[d] # 0
    <3>1. dup' = [dup EXCEPT ![o] = first[d]] /\ path' = path \ {o} /\ UNCHANGED first
      BY <2>1, <2>4 DEF Mark
    <3>2. \A e \in Digests : first[e] # 0 => first[e] # o /\ IsOrigin(first[e]) /\ found[first[e]].sha = e
      BY <1>1, <1>2 DEF Origins, OriginOf, IsOrigin
    <3>3. ASSUME NEW e \in Digests PROVE OriginOf(e)'
      <4>1. first[e] \in Found \cup {0} /\ first'[e] = first[e]
        BY <3>1
      <4> HIDE DEF o, d
      <4> QED
        BY <1>1, <1>3, <3>1, <3>2, <4>1 DEF OriginOf, IsOrigin
    <3>4. \A i \in kept : dup'[i] # 0 =>
            /\ dup'[i] = first[found[i].sha]
            /\ dup'[i] \in kept /\ found[dup'[i]].sha = found[i].sha
            /\ ~DryRun => dup'[i] \in path'
      <4> SUFFICES ASSUME NEW i \in kept, dup'[i] # 0
                   PROVE  /\ dup'[i] = first[found[i].sha]
                          /\ dup'[i] \in kept /\ found[dup'[i]].sha = found[i].sha
                          /\ ~DryRun => dup'[i] \in path'
        OBVIOUS
      <4>1. i \in Found /\ found[i].sha \in Digests
        OBVIOUS
      <4>2. dup'[i] = first[found[i].sha]
        BY <1>1, <1>2, <3>1, <4>1 DEF Origins, Filtered
      <4>3. IsOrigin(dup'[i]) /\ dup'[i] # o /\ found[dup'[i]].sha = found[i].sha
        BY <3>2, <4>1, <4>2
      <4> QED
        BY <3>1, <4>2, <4>3 DEF IsOrigin
    <3>5. \A i \in Found : i \in kept /\ ~Passed(i)' => dup'[i] = 0 /\ (~DryRun => i \in path')
      BY <1>1, <1>3, <3>1 DEF Origins
    <3> HIDE DEF o, d
    <3> QED
      BY <1>1, <3>1, <3>3, <3>4, <3>5 DEF Origins, Filtered, Found
  <2> QED
    BY <2>3, <2>4
<1> QED
  BY <1>5, <1>6

LEMMA StepOrigins ==
  ASSUME Inductive, Origins, Next
  PROVE  Origins'
<1> SUFFICES ASSUME SerialInputs = {} PROVE Origins'
  BY DEF Origins
<1> USE FoundFacts DEF Inductive, TypeOK
<1>1. CASE RunDedupe \/ RunDedupeDone
  BY <1>1 DEF Origins, RunDedupe, RunDedupeDone
<1>2. CASE Sort \/ Drop \/ Push
  <2>1. UNCHANGED <<found, first, dup, path>> /\ phase \in {"sort", "filter"} /\ phase' = "filter"
    BY <1>2 DEF Sort, Drop, Push
  <2> QED
    BY <2>1 DEF Origins, Unmarked, Filtered, Found
<1>3. CASE FilterDone
  <2>1. UNCHANGED <<found, first, dup, path, kept>> /\ phase = "filter" /\ phase' \in Filtered
    BY <1>3 DEF FilterDone, Filtered
  <2>2. \A d \in Digests : first[d] = 0
    BY <2>1 DEF Origins, Unmarked, NoOrigin
  <2>3. \A i \in Found : dup[i] = 0 /\ (~DryRun => i \in path)
    BY <2>1 DEF Origins, Unmarked
  <2> QED
    BY <2>1, <2>2, <2>3 DEF Origins, OriginOf, Filtered, Found
<1>4. CASE Dedupe
  BY <1>4, DedupeOrigins
<1>5. CASE DedupeDone
  BY <1>5 DEF DedupeDone, Origins, Filtered, Found
<1> QED
  BY <1>1, <1>2, <1>3, <1>4, <1>5 DEF Next

LEMMA StutterOrigins == Origins /\ UNCHANGED vars => Origins'
BY DEF Origins, Unmarked, OriginOf, IsOrigin, Passed, Found, vars

(* Where several workers hand in the records, a carve is deleted as a      *)
(* duplicate only of one that is kept, has the same bytes, and is still on *)
(* disk.                                                                   *)
THEOREM OriginsAreKept == Spec => [](SerialInputs = {} => OriginIsKept)
<1>1. Init => Origins
  BY DEF Init, Origins, Unmarked, Filtered
<1>2. Inductive /\ FilesFollow /\ Origins => (SerialInputs = {} => OriginIsKept)
  BY DEF Inductive, TypeOK, Origins, FilesFollow, OriginIsKept, Filtered
<1> QED
  BY <1>1, <1>2, StepOrigins, StutterOrigins, FilesFollowAlways, PTL DEF Spec
=============================================================================
