------------------------------- MODULE Carver -------------------------------
(***************************************************************************)
(* The sweep of Carver::run in src/src/carver.rs over the byte ranges of a *)
(* scan, and what run_ranges makes of the records.                         *)
(*                                                                         *)
(* The source is read a chunk at a time, with an overlap, so that a magic  *)
(* cut by the end of a chunk is whole in one read.  A header that is found *)
(* is handed to its file type's handler; a validated carve moves           *)
(* next_allowed to its end, and what starts before that is skipped.  Each  *)
(* range starts afresh, and a carve may run past the end of its range, so  *)
(* the order in which ranges are scanned makes no difference here; the     *)
(* output limit, which does depend on it, is in ScanPool.                  *)
(*                                                                         *)
(* An image is the set of headers in it: where a file starts, how far its  *)
(* magic is from its start, and what the handler makes of it (Handlers has *)
(* the handlers).  Everything else in the image is zero.                   *)
(***************************************************************************)
EXTENDS Integers, FiniteSets, Sequences

CONSTANTS
  Scans,        \* what may be scanned: headers in the source, and a work list
  Size,         \* bytes in the source
  ChunkSize,    \* --chunk-size
  Overlap,      \* longest magic - 1 + 4
  SkipCarved,   \* --no-skip was not given
  SkipBlank,    \* --no-skip-blank was not given
  Align,        \* --align
  MinSize       \* --min-size

(* A header: the file starts at start and its magic of len bytes, the      *)
(* first zeros of them zero, at start + off.  The signature's precheck     *)
(* looks at the back bytes before the magic.  The handler finds size bytes *)
(* (0: it refuses) and validates them or not.                              *)
Headers == [start : Nat, off : Nat, len : Nat, zeros : Nat, back : Nat,
            size : Nat, validated : BOOLEAN]

(* A work list is made of consecutive ranges of the source. *)
ASSUME ScansAssumption  ==
  Scans \subseteq [image : SUBSET Headers, ranges : Seq((0..Size) \X (0..Size))]
ASSUME SizeAssumption   == /\ Size \in Nat /\ Overlap \in Nat /\ MinSize \in Nat
                           /\ ChunkSize \in Nat \ {0} /\ Align \in Nat \ {0}
ASSUME FlagsAssumption  == SkipCarved \in BOOLEAN /\ SkipBlank \in BOOLEAN

VARIABLES
  image,        \* the headers in the source
  ranges,       \* the work list
  phase,        \* "range", "chunk", "hits" or "end"
  at,           \* the range being scanned
  pos,          \* start of the chunk
  limit,        \* bytes of the chunk that are this read's own
  hits,         \* headers whose magic was matched in the chunk, still to try
  nextAllowed,  \* end of the last validated carve of this range
  records,      \* carves so far, of all ranges
  tried         \* history: headers whose handler was called

vars == <<image, ranges, phase, at, pos, limit, hits, nextAllowed, records, tried>>

MinOf(a, b) == IF a < b THEN a ELSE b

Magic(h) == h.start + h.off

ScanStart == ranges[at][1]
ScanEnd   == ranges[at][2]

(* sub.window_end = scan_end: a carve may use the rest of the source. *)
WindowEnd == Size

-----------------------------------------------------------------------------
(* pread(pos, want): the bytes of this read end here. *)
BufEnd == MinOf(pos + MinOf(ChunkSize + Overlap, ScanEnd - pos + Overlap), Size)

(* A definition whose name ends in Slip is the one after it with a         *)
(* plausible mistake; no specification uses it.                            *)
LimitSlip == BufEnd - pos

Limit == MinOf(BufEnd - pos, ChunkSize)

NonZero(h) == (Magic(h) + h.zeros)..(Magic(h) + h.len - 1)

IsBlank(from, to) == \A h \in image : \A i \in NonZero(h) : i < from \/ i >= to

(* find_iter over the buffer: the leftmost match, the longest there, then  *)
(* on from its end.  These are the matches that begin in the first n bytes *)
(* of it, and where the next may begin.                                    *)
Longest(hs) == CHOOSE h \in hs : \A g \in hs : g.len <= h.len

AddMatch(m, x) ==
  LET here == {h \in image : Magic(h) = x /\ Magic(h) + h.len <= BufEnd}
  IN  IF here = {} \/ x < m.free THEN m
      ELSE [free |-> x + Longest(here).len, found |-> Append(m.found, Longest(here))]

FindIter(n) ==
  LET after[k \in 0..n] ==
        IF k = 0 THEN [free |-> pos, found |-> <<>>] ELSE AddMatch(after[k - 1], pos + k - 1)
  IN  after[n].found

(* The hits that are this chunk's own. *)
OwnHits == FindIter(Limit)

-----------------------------------------------------------------------------
Init ==
  /\ \E s \in Scans : image = s.image /\ ranges = s.ranges
  /\ phase = "range"
  /\ at = 1
  /\ pos = 0 /\ limit = 0
  /\ hits = <<>>
  /\ nextAllowed = 0
  /\ records = {}
  /\ tried = {}

(* The next range, scanned by a Carver of its own. *)
StartRange ==
  /\ phase = "range"
  /\ at \in DOMAIN ranges
  /\ phase' = "chunk"
  /\ pos' = ScanStart
  /\ nextAllowed' = ScanStart
  /\ UNCHANGED <<image, ranges, at, limit, hits, records, tried>>

(* An all-zero chunk is not searched. *)
BlankChunk ==
  /\ phase = "chunk"
  /\ pos < ScanEnd /\ BufEnd > pos
  /\ SkipBlank /\ IsBlank(pos, pos + Limit)
  /\ pos' = pos + Limit
  /\ UNCHANGED <<image, ranges, phase, at, limit, hits, nextAllowed, records, tried>>

ReadChunk ==
  /\ phase = "chunk"
  /\ pos < ScanEnd /\ BufEnd > pos
  /\ ~(SkipBlank /\ IsBlank(pos, pos + Limit))
  /\ limit' = Limit
  /\ hits' = OwnHits
  /\ phase' = "hits"
  /\ UNCHANGED <<image, ranges, at, pos, nextAllowed, records, tried>>

PassedOver(h) == SkipCarved /\ h.start < nextAllowed

(* The guards before try_carve.  The precheck refuses a magic too close to *)
(* the start of the buffer for what it looks back at.                      *)
Tries(h) ==
  /\ Magic(h) >= h.off
  /\ h.start >= ScanStart /\ Magic(h) < ScanEnd
  /\ ~PassedOver(h)
  /\ h.start % Align = 0
  /\ Magic(h) - pos >= h.back

Cap(h) == WindowEnd - h.start

Fits(h) == h.size >= (IF MinSize > 1 THEN MinSize ELSE 1) /\ h.size <= Cap(h)

Record(h) == [offset |-> h.start, size |-> h.size, validated |-> h.validated]

End(r) == r.offset + r.size

PassHit ==
  /\ phase = "hits" /\ hits # <<>>
  /\ ~Tries(Head(hits))
  /\ hits' = Tail(hits)
  /\ UNCHANGED <<image, ranges, phase, at, pos, limit, nextAllowed, records, tried>>

(* try_carve returns None. *)
RefuseHit ==
  /\ phase = "hits" /\ hits # <<>>
  /\ Tries(Head(hits)) /\ ~Fits(Head(hits))
  /\ hits' = Tail(hits)
  /\ tried' = tried \cup {Head(hits)}
  /\ UNCHANGED <<image, ranges, phase, at, pos, limit, nextAllowed, records>>

SkipAhead(h) ==
  nextAllowed' = IF SkipCarved /\ h.validated THEN h.start + h.size ELSE nextAllowed

(* try_carve returns a record. *)
CarveHit ==
  /\ phase = "hits" /\ hits # <<>>
  /\ Tries(Head(hits)) /\ Fits(Head(hits))
  /\ hits' = Tail(hits)
  /\ tried' = tried \cup {Head(hits)}
  /\ records' = records \cup {Record(Head(hits))}
  /\ SkipAhead(Head(hits))
  /\ UNCHANGED <<image, ranges, phase, at, pos, limit>>

EndChunk ==
  /\ phase = "hits" /\ hits = <<>>
  /\ phase' = "chunk"
  /\ pos' = pos + limit
  /\ UNCHANGED <<image, ranges, at, limit, hits, nextAllowed, records, tried>>

EndRange ==
  /\ phase = "chunk"
  /\ pos >= ScanEnd \/ BufEnd <= pos
  /\ phase' = "range"
  /\ at' = at + 1
  /\ UNCHANGED <<image, ranges, pos, limit, hits, nextAllowed, records, tried>>

(* containment_filter keeps what no earlier validated record contains (the *)
(* module Containment has the loop, and shows that it does).               *)
Earlier(q, r) == q.offset < r.offset \/ (q.offset = r.offset /\ q.size > r.size)

ContainmentFilterSlip(recs) == recs

ContainmentFilter(recs) ==
  {r \in recs : ~ \E q \in recs : q.validated /\ Earlier(q, r) /\ End(r) <= End(q)}

Finish ==
  /\ phase = "range"
  /\ at \notin DOMAIN ranges
  /\ phase' = "end"
  /\ records' = ContainmentFilter(records)
  /\ UNCHANGED <<image, ranges, at, pos, limit, hits, nextAllowed, tried>>

Next ==
  \/ StartRange \/ BlankChunk \/ ReadChunk \/ PassHit \/ RefuseHit \/ CarveHit
  \/ EndChunk \/ EndRange \/ Finish

Spec == Init /\ [][Next]_vars
-----------------------------------------------------------------------------
(* What is asked of an image and of how it is cut, for every header to be  *)
(* found.  README.md, 4, says what becomes of the others.                  *)

FirstByte(h) == h.start
LastByte(h)  == Magic(h) + h.len - 1

(* No header overlaps another. *)
Apart(hs) ==
  \A g, h \in hs : g # h => LastByte(g) < FirstByte(h) \/ LastByte(h) < FirstByte(g)

(* A magic is no longer than the overlap allows and does not begin with    *)
(* what is taken for blank, and nothing before it is looked at.            *)
Legible(h) ==
  /\ h.len \in 1..(Overlap + 1) /\ Magic(h) + h.len <= Size
  /\ SkipBlank => h.zeros = 0
  /\ h.back = 0

(* The ranges divide the source. *)
Divide(rs) ==
  /\ rs # <<>> /\ rs[1][1] = 0 /\ rs[Len(rs)][2] = Size
  /\ \A k \in DOMAIN rs : rs[k][1] <= rs[k][2]
  /\ \A k \in 1..(Len(rs) - 1) : rs[k][2] = rs[k + 1][1]

(* A range begins after x and no later than y. *)
Cut(rs, x, y) == \E k \in DOMAIN rs : x < rs[k][1] /\ rs[k][1] <= y

Regular(s) ==
  /\ Apart(s.image) /\ (\A h \in s.image : Legible(h))
  /\ Divide(s.ranges)
  /\ \A h \in s.image : ~Cut(s.ranges, h.start, Magic(h))

(* g is validated and h begins before its end. *)
Reaches(g, h) == g.validated /\ h.start < g.start + g.size

(* What begins inside a carve of another range ends inside it. *)
Nested(s) ==
  \A g, h \in s.image :
    g.start < h.start /\ Reaches(g, h) /\ Cut(s.ranges, Magic(g), Magic(h))
      => h.start + h.size <= g.start + g.size
-----------------------------------------------------------------------------
(* Properties. *)

(* What a scan of the whole source in one range, without chunks, carves of *)
(* the headers whose magics lie before x: the reference the sweep is       *)
(* compared with.                                                          *)
Carves(h, before) ==
  /\ h.start % Align = 0 /\ Fits(h)
  /\ SkipCarved => ~ \E g \in before : Reaches(g, h)

OnePass ==
  LET carved[x \in 0..Size] ==
        IF x = 0 THEN {}
        ELSE carved[x - 1] \cup {h \in image : Magic(h) = x - 1 /\ Carves(h, carved[x - 1])}
  IN  carved[Size]

InOnePass == {Record(h) : h \in OnePass}

(* However the source is cut into chunks and ranges, the records are those *)
(* of one pass over it ("-j disagreed with a serial scan", tests/carve.rs:577).  *)
SameAsOnePass == phase = "end" => records = InOnePass

(* "A header straddling a chunk boundary is still found" (carver.rs:4):    *)
(* every aligned header reaches its handler, unless a validated carve      *)
(* covers its start.                                                       *)
CoveredStart(h) == \E r \in records : r.validated /\ r.offset <= h.start /\ h.start < End(r)

EveryHeaderTried ==
  phase = "end" =>
    \A h \in image : h \in tried \/ h.start % Align # 0 \/ (SkipCarved /\ CoveredStart(h))
=============================================================================
