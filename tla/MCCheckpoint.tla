---------------------------- MODULE MCCheckpoint ----------------------------
(* Instances of Checkpoint for TLC.  Twelve bytes in pieces of five leave  *)
(* a short last piece; twenty-four in pieces of twelve end each range at a *)
(* number of two digits, which a torn write can cut to one.                *)
EXTENDS Checkpoint

OneImage ==
  [sources |-> {"a"}, types |-> {"t"}, size |-> 12, chunk |-> 5, freshStarts |-> TRUE, torn |-> FALSE]

(* Attempts at one image, which may start afresh; attempts at two, with    *)
(* two type sets, that all resume on a disk that may cut any line short.   *)
AnyAttempts == {OneImage, [sources |-> {"a", "b"}, types |-> {"t", "u"}, size |-> 24, chunk |-> 12,
                           freshStarts |-> FALSE, torn |-> TRUE]}

TwoImages == {[OneImage EXCEPT !.sources = {"a", "b"}]}
=============================================================================
