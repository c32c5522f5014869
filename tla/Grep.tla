-------------------------------- MODULE Grep --------------------------------
(***************************************************************************)
(* src/src/grep.rs: the search for keywords over a range of a source.  The *)
(* source is read in chunks that overlap, and a chunk reports the matches  *)
(* that begin in it and not in its overlap.                                *)
(*                                                                         *)
(* A pattern is the bytes it matches: a literal in one of its encodings,   *)
(* or a regular expression that matches one string.                        *)
(***************************************************************************)
EXTENDS Readers, FiniteSets

CONSTANTS
  Queries,  \* what may be asked: [patterns, regex, max, start, length]
  Chunk,    \* bytes a chunk reports matches from (8 << 20)
  Overlap   \* bytes it reads beyond them (256; 64 << 10 for a regex)

ASSUME GrepAssumption == Chunk \in Nat \ {0} /\ Overlap \in Nat

(* An empty keyword is left out of the search; of regular expressions,     *)
(* those that match the empty string are not modelled.                     *)
IsQuery(q) ==
  /\ q \in [patterns : Seq(Seq(Nat)), regex : BOOLEAN, max : Nat, start : Nat, length : Nat]
  /\ \A k \in DOMAIN q.patterns : q.patterns[k] # <<>>

ASSUME QueriesAssumption == \A q \in Queries : IsQuery(q)

VARIABLES
  query,   \* the search
  gpos,    \* where its loop has come to
  gphase,  \* read, wait (for the chunk) or done
  hits     \* the hits it has reported: [off, end, pattern]

grepVars == <<query, gpos, gphase, hits>>

GrepInit ==
  /\ query \in Queries
  /\ gpos = query.start
  /\ gphase = IF query.patterns = <<>> THEN "done" ELSE "read"
  /\ hits = <<>>

GrepEnd ==
  IF query.length > 0 THEN Least(query.start + query.length, source.size) ELSE source.size

(* All matches of the patterns in a buffer. *)
Matches(buf) ==
  {m \in [off : 0..(Len(buf) - 1), end : 1..Len(buf), pattern : DOMAIN query.patterns] :
     /\ m.end - m.off = Len(query.patterns[m.pattern])
     /\ SubSeq(buf, m.off + 1, m.end) = query.patterns[m.pattern]}

Before(a, b) == \/ a.off < b.off
                \/ a.off = b.off /\ (a.end < b.end \/ (a.end = b.end /\ a.pattern < b.pattern))

FirstOf(ms) == CHOOSE m \in ms : \A n \in ms : m = n \/ Before(m, n)

(* AhoCorasick::find_iter: of the matches that end with byte x the         *)
(* longest, if it begins after those that were found before.               *)
FindIter(buf, x, found) ==
  LET ms == {m \in Matches(buf) : m.end = x /\ \A n \in found : n.end <= m.off}
  IN  IF ms = {} THEN {} ELSE {FirstOf(ms)}

(* regex: the matches that begin with byte x, of the patterns whose last   *)
(* match has ended there.                                                  *)
FindEach(buf, x, found) ==
  {m \in Matches(buf) :
     m.off = x - 1 /\ \A n \in found : n.pattern = m.pattern => n.end <= m.off}

(* What is found in a buffer, from left to right. *)
FindAll(buf) ==
  LET upTo[x \in 0..Len(buf)] ==
        IF x = 0 THEN {}
        ELSE upTo[x - 1] \cup (IF query.regex THEN FindEach(buf, x, upTo[x - 1])
                                             ELSE FindIter(buf, x, upTo[x - 1]))
  IN  upTo[Len(buf)]

(* sort_unstable of the matches of several regexes; those of find_iter     *)
(* come in this order.                                                     *)
Ordered(s) == \A j, k \in DOMAIN s : j < k => Before(s[j], s[k])

Sorted(ms) == CHOOSE s \in [1..Cardinality(ms) -> ms] : Ordered(s)

ChunkLengthSlip(n) == n

(* What is read for the chunk at gpos. *)
ChunkLength(n) == n + Overlap

GrepRead ==
  /\ gphase = "read"
  /\ IF gpos < GrepEnd
       THEN Pread(gpos, Least(ChunkLength(GrepEnd - gpos), ChunkLength(Chunk))) /\ gphase' = "wait"
       ELSE gphase' = "done" /\ UNCHANGED vars
  /\ UNCHANGED <<query, gpos, hits>>

ReportableSlip(buf) == Len(buf)

(* Matches that begin further on belong to the next chunk. *)
Reportable(buf) == Least(Len(buf), Chunk)

Found(buf) == Sorted({m \in FindAll(buf) : m.off < Reportable(buf)})

(* The hits of one chunk, up to the number asked for. *)
GrepChunk ==
  /\ gphase = "wait" /\ ~Busy
  /\ LET buf   == answer.data
         found == [k \in DOMAIN Found(buf) |->
                     [Found(buf)[k] EXCEPT !.off = @ + gpos, !.end = @ + gpos]]
         left  == query.max - Len(hits)
         full  == query.max > 0 /\ Len(found) >= left
     IN  /\ hits' = hits \o (IF full THEN SubSeq(found, 1, left) ELSE found)
         /\ IF buf = <<>> \/ full
              THEN gphase' = "done" /\ UNCHANGED gpos
              ELSE gphase' = "read" /\ gpos' = gpos + Reportable(buf)
  /\ UNCHANGED <<vars, query>>

GrepStep == GrepRead \/ GrepChunk

(* A search and the reader that answers it. *)
GrepNext == (ReaderStep /\ UNCHANGED grepVars) \/ GrepStep

GrepSpec == ReadersInit /\ GrepInit /\ [][GrepNext]_<<vars, grepVars>>
-----------------------------------------------------------------------------
(* What is read beyond a chunk holds the rest of any match. *)
PatternsFit ==
  \A q \in Queries : \A k \in DOMAIN q.patterns : Len(q.patterns[k]) <= Overlap + 1

(* The places where a pattern is, in what the search was asked to cover. *)
Places ==
  {m \in [off : query.start..(GrepEnd - 1), pattern : DOMAIN query.patterns] :
     LET p == query.patterns[m.pattern]
     IN  M!Slice(Contents(source), m.off, Len(p)) = p}

Overlaps(h, m) == h.off < m.off + Len(query.patterns[m.pattern]) /\ m.off < h.end

(* Every hit is where its pattern is, and no place is reported twice,      *)
(* however the chunks lie: the hits come in the order of the image.  A     *)
(* search that was let run to the end has a hit at or across every place   *)
(* in its range, one that lies across the boundary of two chunks too (for  *)
(* a regex, a hit of the same pattern).  A keyword across the end of the   *)
(* range is the exception: one inside it that begins behind the end takes  *)
(* its place, and is not reported.                                         *)
GrepFinds ==
  /\ \A k \in DOMAIN hits :
       LET p == query.patterns[hits[k].pattern]
       IN  M!Slice(Contents(source), hits[k].off, Len(p)) = p
  /\ Ordered(hits)
  /\ query.max > 0 => Len(hits) <= query.max
  /\ gphase = "done" /\ ~Damaged(source) /\ (query.max = 0 \/ Len(hits) < query.max) =>
       \A m \in Places :
         query.regex \/ m.off + Len(query.patterns[m.pattern]) <= GrepEnd =>
           \E k \in DOMAIN hits : Overlaps(hits[k], m) /\ (query.regex => hits[k].pattern = m.pattern)
=============================================================================
