------------------------------ MODULE Session -------------------------------
(***************************************************************************)
(* Runs of `bcrumb-rs` over one output directory, from the first attempt   *)
(* to the one that finishes: the carving branch of run in src/src/main.rs, *)
(* with what it keeps on disk between attempts -- the state file, the      *)
(* carved files, carved.jsonl and manifest.json.                           *)
(*                                                                         *)
(* One range is carved at a time: ScanPool shows that the ranges of        *)
(* concurrent workers are recorded one by one, and Checkpoint has the text *)
(* of the state file, which is a fingerprint and a set of ranges here.     *)
(* Each image has its carves; a carve is [image, range, n], where n orders *)
(* the carves of all images and ranges by offset.                          *)
(***************************************************************************)
EXTENDS Integers, FiniteSets, FiniteSetsExt

CONSTANTS
  Images,       \* the sources that are scanned into this directory
  Ranges,       \* the work list of each
  Carves,       \* what is in the images
  Holds,        \* Holds[c]: the carves that lie inside c, if c is validated
  Content,      \* Content[c]: its SHA-256
  MayStop,      \* may --max-output stop a run in the middle of a range?
  MayDie,       \* may a run be killed?
  MayFail,      \* may writing a report (--csv, --html, ...) fail?
  FreshStarts,  \* may a run be started without --resume over a state file?
  StaleResume,  \* may --resume be given where no state file is left?
  MaxRuns,      \* bound: attempts made
  None

Carve == [image : Images, range : Ranges, n : Nat]

(* Contents of a manifest: entries for some carves, each perhaps a         *)
(* duplicate of another.                                                   *)
Manifests ==
  UNION {{{[carve |-> c, dup |-> dup[c]] : c \in s} : dup \in [s -> Carves \cup {None}]} :
           s \in SUBSET Carves}

ASSUME CarvesAssumption  == Carves \subseteq Carve
ASSUME HoldsAssumption   == /\ Holds \in [Carves -> SUBSET Carves]
                            /\ \A c \in Carves : \A d \in Holds[c] : c.image = d.image /\ c.n < d.n
ASSUME ContentAssumption == DOMAIN Content = Carves
ASSUME NoneAssumption    == /\ None \notin Ranges \cup [fp : Images, done : SUBSET Ranges]
                            /\ None \notin Manifests
ASSUME FlagsAssumption   == /\ {MayStop, MayDie, MayFail, FreshStarts, StaleResume} \subseteq BOOLEAN
                            /\ MaxRuns \in Nat

(* No carve is inside one of another range or has its content, and each is *)
(* at an offset of its own.  A scan looks for nested and repeated files    *)
(* among what it carved in this attempt, so a pair that two attempts share *)
(* out goes unnoticed; what is proved of the manifest is about the images  *)
(* without such a pair.                                                    *)
Local ==
  /\ \A b, c \in Carves : b.image = c.image /\ b.n = c.n => b = c
  /\ \A b \in Carves : \A c \in Holds[b] : c.range = b.range
  /\ \A b, c \in Carves : b.image = c.image /\ Content[b] = Content[c] => b.range = c.range

VARIABLES
  phase,      \* where the run is, or how the last one ended
  src,        \* the image being scanned
  resumed,    \* --resume was given
  todo,       \* ranges still to scan in this run
  now,        \* the range being recorded, or None
  recs,       \* records of this run
  entries,    \* what will be written to the manifest
  runs,       \* attempts made
  lost,       \* history: an attempt ended without writing its manifest
  state,      \* the state file: None, or its fingerprint and ranges
  disk,       \* carved files on disk
  stream,     \* carves in carved.jsonl
  manifest    \* manifest.json: None, or its entries

count   == <<runs, lost>>
durable == <<state, disk, stream, manifest>>
vars == <<phase, src, resumed, todo, now, recs, entries, count, state, disk, stream, manifest>>

In(img, i) == {c \in Carves : c.image = img /\ c.range = i}
Of(img)    == {c \in Carves : c.image = img}

-----------------------------------------------------------------------------
(* A definition whose name ends in Slip is the one after it with a         *)
(* plausible mistake; no specification uses it.                            *)

(* The end of run_ranges, on a set of records (Containment has the loops). *)
Uncontained(rs) == {c \in rs : ~ \E b \in rs : c \in Holds[b]}

Origin(c, rs) == CHOOSE b \in rs : /\ Content[b] = Content[c]
                                   /\ \A a \in rs : Content[a] = Content[c] => b.n <= a.n

Settled(rs) ==
  LET kept == Uncontained(rs)
      dup(c) == IF Origin(c, kept) = c THEN None ELSE Origin(c, kept)
  IN  {[carve |-> c, dup |-> dup(c)] : c \in kept}

DeletedSlip(rs) == (rs \ Uncontained(rs)) \cup {e.dup : e \in Settled(rs)}

Deleted(rs) == rs \ {e.carve : e \in {e \in Settled(rs) : e.dup = None}}

(* merge_with_existing: earlier records are added, unless this run has one *)
(* with the same offset and size.                                          *)
Merged(new, old) ==
  new \cup {e \in old : \A d \in new : d.carve.n # e.carve.n}

-----------------------------------------------------------------------------
Init ==
  /\ phase = "new"
  /\ src \in Images
  /\ resumed = FALSE
  /\ todo = {} /\ now = None
  /\ recs = {} /\ entries = {}
  /\ runs = 0 /\ lost = FALSE
  /\ state = None
  /\ disk = {} /\ stream = {}
  /\ manifest = None

Over == phase \in {"new", "written", "failed", "killed"}

(* Checkpoint::open refuses the state file of another scan; then the       *)
(* record stream is opened, appending on a resume and empty otherwise, and *)
(* what is not done is planned.                                            *)
DoneBefore(res) == IF res /\ state # None THEN state.done ELSE {}

OpensSlip(res) == stream' = {}

Opens(res) == stream' = IF res THEN stream ELSE {}

Start(img, res) ==
  /\ Over
  /\ runs < MaxRuns /\ runs' = runs + 1
  /\ lost' = (lost \/ phase \in {"failed", "killed"})
  /\ IF state = None THEN res => StaleResume ELSE res \/ FreshStarts
  /\ res /\ state # None => state.fp = img
  /\ src' = img /\ resumed' = res
  /\ state' = [fp |-> img, done |-> IF state = None THEN {} ELSE state.done]
  /\ Opens(res)
  /\ todo' = Ranges \ DoneBefore(res)
  /\ phase' = "scan" /\ now' = None
  /\ recs' = {} /\ entries' = {}
  /\ UNCHANGED <<disk, manifest>>

(* A worker carves the whole of range i. *)
CarveRange(i) ==
  /\ phase = "scan" /\ now = None
  /\ i \in todo
  /\ disk' = disk \cup In(src, i)
  /\ recs' = recs \cup In(src, i)
  /\ now' = i
  /\ UNCHANGED <<phase, src, resumed, todo, entries, count, state, stream, manifest>>

(* What the workers may have carved of the ranges still to scan, each from *)
(* its start, when they are stopped in the middle.                         *)
Begun == {p \in SUBSET {c \in Of(src) : c.range \in todo} :
            \A c \in p : \A d \in In(src, c.range) : d.n < c.n => d \in p}

(* The output limit is reached. *)
Cut ==
  /\ MayStop
  /\ phase = "scan" /\ now = None
  /\ \E part \in Begun : disk' = disk \cup part /\ recs' = recs \cup part
  /\ phase' = "settle"
  /\ UNCHANGED <<src, resumed, todo, now, entries, count, state, stream, manifest>>

(* The run is killed. *)
DieCarving ==
  /\ MayDie
  /\ phase = "scan" /\ now = None
  /\ \E part \in Begun : disk' = disk \cup part
  /\ phase' = "killed"
  /\ UNCHANGED <<src, resumed, todo, now, recs, entries, count, state, stream, manifest>>

StreamRange ==
  /\ phase = "scan" /\ now # None /\ now \in todo
  /\ stream' = stream \cup In(src, now)
  /\ todo' = todo \ {now}
  /\ UNCHANGED <<phase, src, resumed, now, recs, entries, count, state, disk, manifest>>

CompleteRange ==
  /\ phase = "scan" /\ now # None /\ now \notin todo
  /\ state' = [state EXCEPT !.done = @ \cup {now}]
  /\ now' = None
  /\ UNCHANGED <<phase, src, resumed, todo, recs, entries, count, disk, stream, manifest>>

AllScanned ==
  /\ phase = "scan" /\ now = None /\ todo = {}
  /\ phase' = "settle"
  /\ UNCHANGED <<src, resumed, todo, now, recs, entries, count, durable>>

(* containment_filter and dedupe, which delete files. *)
Settle ==
  /\ phase = "settle"
  /\ entries' = Settled(recs)
  /\ disk' = disk \ Deleted(recs)
  /\ phase' = "merge"
  /\ UNCHANGED <<src, resumed, todo, now, recs, count, state, stream, manifest>>

MergeSlip ==
  /\ phase = "merge"
  /\ phase' = "finish"
  /\ UNCHANGED <<src, resumed, todo, now, recs, entries, count, durable>>

Merge ==
  /\ phase = "merge"
  /\ entries' = IF resumed /\ manifest # None THEN Merged(entries, manifest) ELSE entries
  /\ phase' = "finish"
  /\ UNCHANGED <<src, resumed, todo, now, recs, count, durable>>

(* state.finish() if nothing remains. *)
Finish ==
  /\ phase = "finish"
  /\ state' = IF todo = {} THEN None ELSE state
  /\ phase' = "report"
  /\ UNCHANGED <<src, resumed, todo, now, recs, entries, count, disk, stream, manifest>>

(* A report that cannot be written ends the run, before the manifest. *)
ReportFails ==
  /\ MayFail
  /\ phase = "report"
  /\ phase' = "failed"
  /\ UNCHANGED <<src, resumed, todo, now, recs, entries, count, durable>>

(* The earlier manifest is truncated first, and what is written instead    *)
(* may be cut short; it does not parse then, and counts as none.           *)
TearManifest ==
  /\ MayFail \/ MayDie
  /\ phase = "report"
  /\ manifest' = None
  /\ phase' = "failed"
  /\ UNCHANGED <<src, resumed, todo, now, recs, entries, count, state, disk, stream>>

WriteManifest ==
  /\ phase = "report"
  /\ manifest' = entries
  /\ phase' = "written"
  /\ UNCHANGED <<src, resumed, todo, now, recs, entries, count, state, disk, stream>>

Kill ==
  /\ MayDie
  /\ ~Over
  /\ phase' = "killed"
  /\ UNCHANGED <<src, resumed, todo, now, recs, entries, count, durable>>

Next ==
  \/ \E img \in Images, res \in BOOLEAN : Start(img, res)
  \/ \E i \in Ranges : CarveRange(i)
  \/ Cut \/ DieCarving
  \/ StreamRange \/ CompleteRange \/ AllScanned \/ Settle \/ Merge \/ Finish
  \/ ReportFails \/ TearManifest \/ WriteManifest \/ Kill

Spec == Init /\ [][Next]_vars
-----------------------------------------------------------------------------
(* Properties. *)

Listed == IF manifest = None THEN {} ELSE {e.carve : e \in manifest}

Complete == phase = "written" /\ state = None

(* "Each record is written here as its range completes, flushed, so the    *)
(* answer survives a kill -9" (main.rs:2237): wherever this or an earlier  *)
(* attempt died, a carved file of a checkpointed range is described by     *)
(* carved.jsonl or the manifest.                                           *)
AccountedSomewhere ==
  state # None =>
    \A c \in disk : c.image = state.fp /\ c.range \in state.done => c \in stream \cup Listed

(* The file of every entry that is no duplicate is there, whatever earlier *)
(* attempts carved, deleted and carved again.                              *)
ListedFilesExist ==
  phase = "written" => \A e \in manifest : e.dup = None => e.carve \in disk

(* And the reverse, once the scan is complete and every attempt has        *)
(* written its manifest: each file on disk has an entry ("the manifest     *)
(* still describes everything written", README.md:648).                    *)
DiskIsListed == Complete /\ ~lost => disk \subseteq Listed

(* "Records from the earlier attempt are folded into the new manifest, so  *)
(* the result describes the whole image" (README.md:626).                  *)
WholeImageListed ==
  Complete /\ resumed =>
    \A c \in Of(src) : c \in Listed \/ \E b \in Of(src) : c \in Holds[b] /\ b \in Listed

(* "A resumed scan produces the same records as a single pass"             *)
(* (README.md:627), and does where each earlier attempt wrote its manifest.*)
SameAsSinglePass == Complete /\ ~lost => manifest = Settled(Of(src))
=============================================================================
