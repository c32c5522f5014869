----------------------------- MODULE MCScanPool -----------------------------
(* Instances of ScanPool for TLC. *)
EXTENDS ScanPool, TLC

(* Ranges of unequal length, so a worker can be two ranges ahead. *)
MCHits == [i \in RangeIds |-> IF i = 0 THEN 2 ELSE 1]

OneHitEach == [i \in RangeIds |-> 1]

FirstUnreadable == {0}

Symmetry == Permutations(Workers)
=============================================================================
