--------------------------- MODULE MCContainment ----------------------------
(* Instances of Containment for TLC: every list of up to three carves from *)
(* a small image, in any order.                                            *)
EXTENDS Containment

Carve == [offset : 0..2, size : 1..3, validated : BOOLEAN, sha : Digests]

SmallInputs == UNION {[1..n -> Carve] : n \in 0..3}

(* A run with one job finds its carves in the order of their offsets,      *)
(* where the magics are at the start of the files.                         *)
InOrder(s) == \A a, b \in DOMAIN s : a < b => s[a].offset < s[b].offset

OrderedInputs == {s \in SmallInputs : InOrder(s)}

(* With skip-ahead it has none that starts inside a validated one. *)
SkippingInputs ==
  {s \in OrderedInputs : \A a, b \in DOMAIN s :
     a < b /\ s[a].validated => s[b].offset >= s[a].offset + s[a].size}

=============================================================================
