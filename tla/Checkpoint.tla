----------------------------- MODULE Checkpoint -----------------------------
(***************************************************************************)
(* The state file that lets a scan be resumed: src/src/checkpoint.rs, with *)
(* plan_ranges of main.rs, which turns what is not done into work.         *)
(*                                                                         *)
(* The file is a sequence of lines: a fingerprint (source, size, types)    *)
(* and one line for each completed range.  It is only ever appended to, by *)
(* one run after another, until a run that completed everything removes    *)
(* it.  A run may be killed between two writes; where world.torn is TRUE the     *)
(* power may also fail, or the disk fill, in the middle of one, and leave  *)
(* the first bytes of a line.  What a torn line reads as, and what happens *)
(* to the next line written after it, depends on its text, so a line is    *)
(* kept as its tag, the value its text parses to, and whether it has its   *)
(* end of line.                                                            *)
(***************************************************************************)
EXTENDS Integers, FiniteSets, SequencesExt

CONSTANTS
  Worlds,  \* what the attempts may be made in, see below
  Jobs,    \* -j
  MaxRuns  \* bound: attempts made

(* A world has the images somebody may scan into this output directory and *)
(* the -t type sets in use, the bytes in an image, --chunk-size, whether a *)
(* run may ignore a state file that is there (no --resume), and whether a  *)
(* write can be cut short.  A source and a type set have a text; "?" is    *)
(* what stands for a text that is none of theirs.                          *)
ASSUME WorldsAssumption ==
  \A w \in Worlds :
    /\ w.size \in Nat /\ w.chunk \in Nat \ {0} /\ w.freshStarts \in BOOLEAN /\ w.torn \in BOOLEAN
    /\ {"", "?"} \cap (w.sources \cup w.types) = {}
ASSUME RunsAssumption == Jobs \in Nat \ {0} /\ MaxRuns \in Nat

VARIABLES
  world,     \* the one this is
  exists,    \* the state file exists
  lines,     \* its lines
  outcome,   \* of the latest attempt: "running", or how it ended
  fp,        \* its fingerprint
  done,      \* Checkpoint.done, merged and sorted
  plan,      \* ranges handed to run_ranges and not completed yet
  runs,      \* attempts made
  scanned    \* history: scanned[f] is the set of bytes scan f has finished

file == <<exists, lines>>
run  == <<outcome, fp, done, plan>>
vars == <<world, exists, lines, outcome, fp, done, plan, runs, scanned>>

Size == world.size

Fingerprints == [source : world.sources, size : {Size}, types : world.types]

Bytes(r) == {x \in 0..(Size - 1) : r[1] <= x /\ x < r[2]}

Covered(ranges) == UNION {Bytes(ranges[k]) : k \in DOMAIN ranges}

-----------------------------------------------------------------------------
(* merge: sort, then coalesce a range with the last one it touches. *)
Before(r, s) == r[1] < s[1] \/ (r[1] = s[1] /\ r[2] < s[2])

Extend(out, r) == [out EXCEPT ![Len(out)][2] = IF r[2] > @ THEN r[2] ELSE @]

(* Here and below a definition whose name ends in Slip is the one after it *)
(* with a plausible mistake; no specification uses it.                     *)
ApartSlip(out, r) == out = <<>> \/ r[1] >= Last(out)[2]

Apart(out, r) == out = <<>> \/ r[1] > Last(out)[2]

Coalesce(out, r) == IF Apart(out, r) THEN Append(out, r) ELSE Extend(out, r)

Place(ranges, i) ==
  Cardinality({j \in DOMAIN ranges : Before(ranges[j], ranges[i]) \/ (ranges[j] = ranges[i] /\ j <= i)})

Sorted(ranges) ==
  [k \in DOMAIN ranges |-> ranges[CHOOSE i \in DOMAIN ranges : Place(ranges, i) = k]]

Merge(ranges) ==
  LET upTo[k \in 0..Len(ranges)] ==
        IF k = 0 THEN <<>> ELSE Coalesce(upTo[k - 1], Sorted(ranges)[k])
  IN  upTo[Len(ranges)]

(* remaining: the loop carries the gaps found so far and the position up   *)
(* to which everything is done.                                            *)
SkipSlip(gaps, r, end) ==
  IF r[2] <= gaps.pos \/ r[1] >= end THEN gaps ELSE [gaps EXCEPT !.pos = r[2]]

Skip(gaps, r, end) ==
  IF r[2] <= gaps.pos \/ r[1] >= end THEN gaps
  ELSE [out |-> IF r[1] > gaps.pos
                  THEN Append(gaps.out, <<gaps.pos, IF r[1] < end THEN r[1] ELSE end>>)
                  ELSE gaps.out,
        pos |-> IF r[2] > gaps.pos THEN r[2] ELSE gaps.pos]

Remaining(ranges, start, end) ==
  LET upTo[k \in 0..Len(ranges)] ==
        IF k = 0 THEN [out |-> <<>>, pos |-> start] ELSE Skip(upTo[k - 1], ranges[k], end)
      gaps == upTo[Len(ranges)]
  IN  IF gaps.pos < end THEN Append(gaps.out, <<gaps.pos, end>>) ELSE gaps.out

(* plan_ranges: each gap cut into pieces of the target size. *)
Target(start, end) ==
  LET share == (end - start) \div (Jobs * 4) IN IF share > world.chunk THEN share ELSE world.chunk

PiecesSlip(r, target) ==
  LET stop(k) == r[1] + (k + 1) * target
  IN  {<<r[1] + k * target, stop(k)>> : k \in {k \in 0..Size : stop(k) <= r[2]}}

Pieces(r, target) ==
  LET stop(k) == IF r[1] + (k + 1) * target < r[2] THEN r[1] + (k + 1) * target ELSE r[2]
  IN  {<<r[1] + k * target, stop(k)>> : k \in {k \in 0..Size : r[1] + k * target < r[2]}}

PlanRanges(ranges, start, end) ==
  UNION {Pieces(r, Target(start, end)) : r \in ToSet(Remaining(ranges, start, end))}

(* bytes_done subtracts without a check; the release profile of Cargo.toml *)
(* turns an underflow into an abort.                                       *)
BytesDoneUnderflows(ranges) == \E k \in DOMAIN ranges : ranges[k][2] < ranges[k][1]

-----------------------------------------------------------------------------
(* Lines of the file. *)
Line(tag, val) == [tag |-> tag, val |-> val, eol |-> TRUE]

Encode(f) == <<Line("source", f.source), Line("size", f.size), Line("types", f.types)>>

(* What a value that does not parse counts as. *)
Unparsed(tag) == CASE tag = "size" -> 0 [] tag = "done" -> <<>> [] OTHER -> "?"

(* The numbers the first digits of n can be read as. *)
Truncations(n) == {n \div 10, n \div 100} \ {0}

(* What the first bytes of a line read as.  Without its whole tag it is    *)
(* ignored; a range cut inside its second number is a range that ends      *)
(* earlier.                                                                *)
Beginnings(l) ==
  LET cut(tag, val) == [tag |-> tag, val |-> val, eol |-> FALSE]
  IN  {cut("other", "?"), cut(l.tag, Unparsed(l.tag)), cut(l.tag, l.val)}
      \cup (IF l.tag = "size" THEN {cut("size", n) : n \in Truncations(l.val)} ELSE {})
      \cup (IF l.tag = "done" THEN {cut("done", <<l.val[1], n>>) : n \in Truncations(l.val[2])} ELSE {})

(* Appending after a line that has no end continues that line, whose value *)
(* then no longer parses.                                                  *)
Joined(l, next) == [tag |-> l.tag, val |-> Unparsed(l.tag), eol |-> next.eol]

AppendTo(old, new) ==
  IF old # <<>> /\ new # <<>> /\ ~Last(old).eol
    THEN Front(old) \o <<Joined(Last(old), Head(new))>> \o Tail(new)
    ELSE old \o new

(* A write of these lines cut short. *)
Cuts(new) ==
  {SubSeq(new, 1, k) : k \in 0..(Len(new) - 1)}
  \cup UNION {{Append(SubSeq(new, 1, k - 1), l) : l \in Beginnings(new[k])} : k \in 1..Len(new)}

(* Reading the file: the last value of each field wins, and every range    *)
(* that parses counts.                                                     *)
Field(tag, absent) ==
  LET found == {k \in DOMAIN lines : lines[k].tag = tag}
  IN  IF found = {} THEN absent ELSE lines[Max(found)].val

Seen == [source |-> Field("source", ""), size |-> Field("size", 0), types |-> Field("types", "")]

IsRange(l) == l.tag = "done" /\ l.val # <<>>

Parsed ==
  LET upTo[k \in 0..Len(lines)] ==
        IF k = 0 THEN <<>>
        ELSE IF IsRange(lines[k]) THEN Append(upTo[k - 1], lines[k].val) ELSE upTo[k - 1]
  IN  upTo[Len(lines)]

-----------------------------------------------------------------------------
Init ==
  /\ world \in Worlds
  /\ exists = FALSE /\ lines = <<>>
  /\ outcome = "none"
  /\ fp \in Fingerprints
  /\ done = <<>> /\ plan = {}
  /\ runs = 0
  /\ scanned = [f \in Fingerprints |-> {}]

Running == outcome = "running"

(* An attempt begins with f and reads the state file if told to resume. *)
Attempt(f, res) ==
  /\ ~Running
  /\ runs < MaxRuns
  /\ res \/ world.freshStarts \/ ~exists
  /\ runs' = runs + 1
  /\ fp' = f

Loads(res) == res /\ exists

Loaded(res) == IF Loads(res) THEN Parsed ELSE <<>>

RefusesSlip(f, res) == Loads(res) /\ (Seen.source # f.source \/ Seen.size # f.size)

Refuses(f, res) == Loads(res) /\ Seen # f

(* Checkpoint::open refuses a state file of another scan. *)
Refuse(f, res) ==
  /\ Attempt(f, res)
  /\ Refuses(f, res)
  /\ outcome' = "refused"
  /\ done' = <<>> /\ plan' = {}
  /\ UNCHANGED <<world, file, scanned>>

(* What open writes: a fingerprint, unless ranges were loaded. *)
OpenWrites(f, res) == IF Loaded(res) = <<>> THEN Encode(f) ELSE <<>>

(* Checkpoint::open, plan_ranges, and the report of what is already done.  *)
Open(f, res) ==
  /\ Attempt(f, res)
  /\ ~Refuses(f, res)
  /\ exists' = TRUE
  /\ lines' = AppendTo(lines, OpenWrites(f, res))
  /\ done' = Merge(Loaded(res))
  /\ IF res /\ BytesDoneUnderflows(done')
       THEN outcome' = "aborted" /\ plan' = {}
       ELSE outcome' = "running" /\ plan' = PlanRanges(done', 0, Size)
  /\ UNCHANGED <<world, scanned>>

(* The write in open is cut short.  It returns an error, if it returns. *)
TornOpen(f, res) ==
  /\ world.torn
  /\ Attempt(f, res)
  /\ ~Refuses(f, res)
  /\ exists' = TRUE
  /\ \E cut \in Cuts(OpenWrites(f, res)) : lines' = AppendTo(lines, cut)
  /\ outcome' = "killed"
  /\ done' = <<>> /\ plan' = {}
  /\ UNCHANGED <<world, scanned>>

(* complete: a worker finished range r. *)
InMemory(r) ==
  /\ Running
  /\ r \in plan
  /\ plan' = plan \ {r}
  /\ done' = Merge(Append(done, r))
  /\ scanned' = [scanned EXCEPT ![fp] = @ \cup Bytes(r)]
  /\ UNCHANGED <<world, exists, fp, runs>>

CompleteSlip(r) ==
  /\ InMemory(r)
  /\ lines' = AppendTo(lines, <<Line("done", Last(done'))>>)
  /\ UNCHANGED outcome

Complete(r) ==
  /\ InMemory(r)
  /\ lines' = AppendTo(lines, <<Line("done", r)>>)
  /\ UNCHANGED outcome

(* The write of complete is cut short by a full disk, and the run goes on. *)
ShortComplete(r) ==
  /\ world.torn
  /\ InMemory(r)
  /\ \E cut \in Cuts(<<Line("done", r)>>) : lines' = AppendTo(lines, cut)
  /\ UNCHANGED outcome

(* The run ends early: it is killed, or stops at its output limit.         *)
Leave ==
  /\ Running
  /\ outcome' = "killed"
  /\ plan' = {} /\ done' = <<>>
  /\ UNCHANGED <<world, file, fp, runs, scanned>>

(* finish: nothing remains, and the file is removed. *)
Finish ==
  /\ Running
  /\ Remaining(done, 0, Size) = <<>>
  /\ outcome' = "finished"
  /\ exists' = FALSE /\ lines' = <<>>
  /\ UNCHANGED <<world, fp, done, plan, runs, scanned>>

Next ==
  \/ \E f \in Fingerprints, res \in BOOLEAN : Refuse(f, res) \/ Open(f, res) \/ TornOpen(f, res)
  \/ \E r \in plan : Complete(r) \/ ShortComplete(r)
  \/ Leave
  \/ Finish

Spec == Init /\ [][Next]_vars
-----------------------------------------------------------------------------
(* Properties. *)

(* "Completed [start, end) ranges, merged and sorted" (checkpoint.rs:41):  *)
(* in order and apart, whatever order the workers finish in.               *)
Canonical ==
  Running => \A k \in 1..(Len(done) - 1) : done[k][2] < done[k + 1][1]

(* The work still planned and what is done divide the image: no byte is    *)
(* left out, none is scanned twice.                                        *)
PlanIsExact ==
  Running =>
    /\ \A r, s \in plan : r # s => Bytes(r) \cap Bytes(s) = {}
    /\ \A r \in plan : Bytes(r) # {} /\ Bytes(r) \cap Covered(done) = {}
    /\ (UNION {Bytes(r) : r \in plan}) \cup Covered(done) = 0..(Size - 1)

(* "A state file describing a different source, size or type set is        *)
(* refused rather than silently skipping ranges of the wrong image"        *)
(* (checkpoint.rs:53): a run skips only bytes that its own scan finished.  *)
SkippedWasScanned == Running => Covered(done) \subseteq scanned[fp]

(* Where every attempt resumes, that is so whatever the attempts before    *)
(* it were and wherever a write was cut short.                             *)
ResumedSkipsOwn == ~world.freshStarts => SkippedWasScanned

(* A kill right now would let the next attempt at this scan resume from    *)
(* where this one is, and never from further on than it got                *)
(* (checkpoint.rs:115, "Flushed immediately").                             *)
FileTracksMemory ==
  Running /\ ~world.torn => /\ Covered(done) \subseteq Covered(Merge(Parsed))
             /\ Covered(Merge(Parsed)) \subseteq scanned[fp]
             /\ Seen = fp

(* When the state file is removed the whole image has been scanned. *)
FinishedIsWhole == outcome = "finished" => scanned[fp] = 0..(Size - 1)

=============================================================================
