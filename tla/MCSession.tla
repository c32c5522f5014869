----------------------------- MODULE MCSession ------------------------------
(* Instances of Session for TLC. *)
EXTENDS Session

C(img, i, n) == [image |-> img, range |-> i, n |-> n]

OneImage  == {"a"}
TwoRanges == {1, 2}

(* Two carves in each range: in the first, one inside the other; in the    *)
(* second, two of the same content.                                        *)
OneImageCarves == {C("a", 1, 1), C("a", 1, 2), C("a", 2, 3), C("a", 2, 4)}

HoldsInRange   == [c \in Carves |-> IF c.n = 1 THEN {d \in Carves : d.image = c.image /\ d.n = 2} ELSE {}]
ContentInRange == [c \in Carves |-> IF c.n = 4 THEN 3 ELSE c.n]

ASSUME LocalAssumption == Local

=============================================================================
