---------------------------- MODULE Containment -----------------------------
(***************************************************************************)
(* What becomes of the records once the workers are done: the two passes   *)
(* at the end of run_ranges and run_parallel in src/src/carver.rs, which   *)
(* also delete output files.  containment_filter sorts the records and     *)
(* drops those that lie inside an earlier validated carve; dedupe marks    *)
(* byte-identical carves and keeps one file of each.  A serial run has     *)
(* already deduplicated once, inside Carver::run, before the filter.       *)
(*                                                                         *)
(* A record is named by its position in `found`, the order in which the    *)
(* records were handed back; so is its output file.                        *)
(***************************************************************************)
EXTENDS Integers, Sequences, FiniteSets

CONSTANTS
  Inputs,       \* lists of records that several workers may hand back
  SerialInputs, \* lists that Carver::run may end with in a run with one job
  Digests,      \* the SHA-256 values in them
  Dedup,        \* --no-dedup was not given
  DryRun        \* nothing is written

Records == [offset : Nat, size : Nat, validated : BOOLEAN, sha : Digests]

ASSUME InputsAssumption == Inputs \cup SerialInputs \subseteq Seq(Records)
ASSUME FlagsAssumption  == Dedup \in BOOLEAN /\ DryRun \in BOOLEAN

VARIABLES
  found,     \* the records, as handed back
  order,     \* order[p]: the record in place p of the sorted list
  phase,     \* the loop being run
  p,         \* the place it has come to
  covered,   \* covered_end
  kept,      \* records containment_filter has pushed to its output
  first,     \* dedupe's map, from a digest to the record first seen with it
  dup,       \* dup[i]: the record i is marked a duplicate of, or 0
  path,      \* records that still name an output file
  files      \* output files on disk

vars == <<found, order, phase, p, covered, kept, first, dup, path, files>>

Found == DOMAIN found
End(i) == found[i].offset + found[i].size

(* sort_by_key on (offset, Reverse(size)); the sort is stable. *)
Precedes(i, j) ==
  \/ found[i].offset < found[j].offset
  \/ found[i].offset = found[j].offset /\ found[i].size > found[j].size
  \/ found[i].offset = found[j].offset /\ found[i].size = found[j].size /\ i < j

Sorted(q) ==
  /\ q \in [Found -> Found]
  /\ \A i \in Found : \E a \in Found : q[a] = i
  /\ \A a, b \in Found : a < b => Precedes(q[a], q[b])

NoOrigin == [d \in Digests |-> 0]

Init ==
  /\ \/ found \in Inputs /\ phase = "sort"
     \/ found \in SerialInputs /\ phase = IF Dedup THEN "run_dedupe" ELSE "sort"
  /\ order = [a \in Found |-> a]
  /\ p = 1
  /\ covered = 0
  /\ kept = {}
  /\ first = NoOrigin
  /\ dup = [i \in Found |-> 0]
  /\ path = IF DryRun THEN {} ELSE Found
  /\ files = IF DryRun THEN {} ELSE Found

(* The body of dedupe's loop for record i. *)
Mark(i) ==
  LET d == found[i].sha IN
  IF first[d] = 0
    THEN /\ first' = [first EXCEPT ![d] = i]
         /\ UNCHANGED <<dup, path, files>>
    ELSE /\ dup' = [dup EXCEPT ![i] = first[d]]
         /\ files' = IF i \in path THEN files \ {i} ELSE files
         /\ path' = path \ {i}
         /\ UNCHANGED first

(* Carver::run of a serial run: dedupe over the records as they were found.*)
RunDedupe ==
  /\ phase = "run_dedupe"
  /\ p \in Found
  /\ Mark(p)
  /\ p' = p + 1
  /\ UNCHANGED <<found, order, phase, covered, kept>>

RunDedupeDone ==
  /\ phase = "run_dedupe"
  /\ p \notin Found
  /\ phase' = "sort"
  /\ p' = 1
  /\ first' = NoOrigin
  /\ UNCHANGED <<found, order, covered, kept, dup, path, files>>

Sort ==
  /\ phase = "sort"
  /\ order' \in [Found -> Found]
  /\ Sorted(order')
  /\ phase' = "filter"
  /\ UNCHANGED <<found, p, covered, kept, first, dup, path, files>>

(* A definition whose name ends in Slip is the one after it with a         *)
(* plausible mistake; no specification uses it.                            *)
InsideSlip(i) == covered > 0 /\ found[i].offset < covered

Inside(i) == covered > 0 /\ End(i) <= covered

(* Drop a record that ends inside what is covered, and its file with it. *)
DropSlip ==
  /\ phase = "filter"
  /\ p \in Found
  /\ Inside(order[p])
  /\ p' = p + 1
  /\ UNCHANGED <<found, order, phase, covered, kept, first, dup, path, files>>

Drop ==
  /\ phase = "filter"
  /\ p \in Found
  /\ Inside(order[p])
  /\ files' = IF order[p] \in path THEN files \ {order[p]} ELSE files
  /\ p' = p + 1
  /\ UNCHANGED <<found, order, phase, covered, kept, first, dup, path>>

CoverSlip(i) == covered' = IF End(i) > covered THEN End(i) ELSE covered

Cover(i) == covered' = IF found[i].validated /\ End(i) > covered THEN End(i) ELSE covered

(* Push a record; a validated one extends what is covered. *)
Push ==
  /\ phase = "filter"
  /\ p \in Found
  /\ ~Inside(order[p])
  /\ Cover(order[p])
  /\ kept' = kept \cup {order[p]}
  /\ p' = p + 1
  /\ UNCHANGED <<found, order, phase, first, dup, path, files>>

FilterDone ==
  /\ phase = "filter"
  /\ p \notin Found
  /\ phase' = IF Dedup THEN "dedupe" ELSE "end"
  /\ p' = 1
  /\ UNCHANGED <<found, order, covered, kept, first, dup, path, files>>

(* dedupe over the filter's output. *)
DedupeSlip ==
  /\ phase = "dedupe"
  /\ p \in Found
  /\ Mark(order[p])
  /\ p' = p + 1
  /\ UNCHANGED <<found, order, phase, covered, kept>>

Dedupe ==
  /\ phase = "dedupe"
  /\ p \in Found
  /\ IF order[p] \in kept THEN Mark(order[p]) ELSE UNCHANGED <<first, dup, path, files>>
  /\ p' = p + 1
  /\ UNCHANGED <<found, order, phase, covered, kept>>

DedupeDone ==
  /\ phase = "dedupe"
  /\ p \notin Found
  /\ phase' = "end"
  /\ UNCHANGED <<found, order, p, covered, kept, first, dup, path, files>>

Next ==
  \/ RunDedupe \/ RunDedupeDone \/ Sort \/ Drop \/ Push \/ FilterDone
  \/ Dedupe \/ DedupeDone

Spec == Init /\ [][Next]_vars
-----------------------------------------------------------------------------
(* Properties. *)

TypeOK ==
  /\ found \in Seq(Records)
  /\ order \in [Found -> Found]
  /\ phase \in {"run_dedupe", "sort", "filter", "dedupe", "end"}
  /\ p \in 1..(Len(found) + 1)
  /\ covered \in Nat
  /\ kept \subseteq Found /\ path \subseteq Found /\ files \subseteq Found
  /\ first \in [Digests -> Found \cup {0}]
  /\ dup \in [Found -> Found \cup {0}]

(* Record i lies inside the validated record j, which comes before it. *)
Swallows(j, i) ==
  /\ Precedes(j, i)
  /\ found[j].validated
  /\ End(j) > 0
  /\ End(i) <= End(j)

(* "Drop carves that fall entirely inside an earlier validated carve"      *)
(* (carver.rs:511): the filter keeps one running end, and yet exactly the  *)
(* records inside a single validated carve before them are dropped.        *)
KeepsTheUncontained ==
  phase \in {"dedupe", "end"} =>
    kept = {i \in Found : ~ \E j \in Found : Swallows(j, i)}

(* What is dropped is still on record: it lies inside a validated carve    *)
(* that was kept, not one that was dropped in its turn.                    *)
DroppedIsInKept ==
  phase \in {"dedupe", "end"} =>
    \A i \in Found \ kept : \E j \in kept : Swallows(j, i)

(* At the end the output directory and the records agree: the files on     *)
(* disk are those the kept records name.                                   *)
FilesAreRecorded == phase = "end" => files = path \cap kept

(* "Mark byte-identical carves as duplicates of the first one seen,        *)
(* dropping the redundant copies from disk" (carver.rs:538): redundant     *)
(* means that the first one is still there, in the records and on disk.    *)
OriginIsKept ==
  phase = "end" =>
    \A i \in kept : dup[i] # 0 =>
      /\ dup[i] \in kept
      /\ found[dup[i]].sha = found[i].sha
      /\ ~DryRun => dup[i] \in files
=============================================================================
