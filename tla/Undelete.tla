------------------------------ MODULE Undelete ------------------------------
(***************************************************************************)
(* What the undelete modes of bcrumb-rs have in common: a volume that is   *)
(* read and never written, a walk over its metadata, the paths of what was *)
(* found, and the files that come out of it.                               *)
(*                                                                         *)
(* A volume is a record of the structures its file system keeps, each of   *)
(* them what its parser reads from the bytes, and of its data as a         *)
(* sequence of cells.  It may be damaged in any way: a link may lead       *)
(* anywhere, also back.                                                    *)
(***************************************************************************)
EXTENDS Integers, FiniteSets, SequencesExt, FiniteSetsExt

CONSTANTS
  MaxDepth,  \* parents that are followed for a path (64)
  SweepRead  \* cells that a sweep of a volume reads at a time (8 MiB)

ASSUME UndeleteAssumption == MaxDepth \in Nat

ASSUME SweepAssumption == SweepRead \in Nat \ {0}

VARIABLES
  volume,  \* the volume, with its file system in volume.fs
  opts,    \* the options: dry (no files), live (files in use too)
  stage,   \* where the walk has come to
  at,      \* position in the table, the directory or the volume that is walked
  names,   \* record -> [name, parent], as far as it was found
  paths,   \* build_paths: the cache
  report,  \* the records it has produced, in order
  files,   \* the files it has written: path -> data
  lists    \* what lists the records: "manifest", "csv"

fixed   == <<volume, opts, lists>>  \* what a walk leaves alone
known   == <<at, names, paths>>
outVars == <<report, files>>

undeleteVars == <<fixed, stage, known, outVars>>

Nothing == -1  \* no cell, no record, no cluster

Least(a, b) == IF a < b THEN a ELSE b

Zeros(n) == [k \in 1..n |-> 0]

(* pread: at most n cells from cell o on. *)
Cells(o, n) ==
  IF n <= 0 THEN <<>> ELSE SubSeq(volume.cells, o + 1, Least(o + n, Len(volume.cells)))

(* Where a sweep of the volume stops.  A read begins inside the volume and *)
(* is tried to its end, which is the end of the source or what lies behind *)
(* the volume on the disk.                                                 *)
SweepEndSlip == Len(volume.cells)

SweepEnd ==
  LET reads == (volume.size + SweepRead - 1) \div SweepRead
  IN  Least(reads * SweepRead, Len(volume.cells))

(* The elements of s of which keep says so, in their order.                *)
Picked(s, keep) ==
  LET so[k \in 0..Len(s)] ==
        IF k = 0 THEN <<>> ELSE IF keep[k] THEN Append(so[k - 1], s[k]) ELSE so[k - 1]
  IN  so[Len(s)]

PadTo(s, n) == IF Len(s) < n THEN s \o Zeros(n - Len(s)) ELSE s

UndeleteInit ==
  /\ stage = "open" /\ at = 0
  /\ names = <<>> /\ paths = <<>> /\ report = <<>> /\ files = <<>> /\ lists = {}

-----------------------------------------------------------------------------
(* A path is a sequence of components: a name, with the stream and the     *)
(* record number that may be put after it.                                 *)
Component(name) == [name |-> name, stream |-> "", num |-> <<>>]

Directory(ns) == [k \in DOMAIN ns |-> Component(ns[k])]

Numbered(path, num) == [path EXCEPT ![Len(path)].num = <<num>>]

(* A file is in the way of a directory that would have its name.             *)
Blocked(path) == \E p \in DOMAIN files : Len(p) < Len(path) /\ IsPrefix(p, path)

Exists(path) == \E p \in DOMAIN files : IsPrefix(path, p)

(* Two records may claim one path: the second one is named by its number.  *)
FreeNameSlip(path, num) == path

FreeName(path, num) == IF Exists(path) THEN Numbered(path, num) ELSE path

Written(path, data) ==
  files' = [p \in DOMAIN files \cup {path} |-> IF p = path THEN data ELSE files[p]]

(* A record, and its file unless this is a dry run: it is left out where   *)
(* the file cannot be created.                                             *)
Emit(rec) ==
  IF opts.dry THEN report' = Append(report, [rec EXCEPT !.out = <<>>]) /\ UNCHANGED files
  ELSE IF Blocked(rec.out) THEN UNCHANGED outVars
  ELSE report' = Append(report, rec) /\ Written(rec.out, rec.data)

(* The mode writes the manifest, unless this is a dry run, and then the    *)
(* CSV; each of them may fail, which ends it.                              *)
List ==
  /\ stage = "done" /\ stage' = "listed"
  /\ LET due == IF opts.dry THEN <<"csv">> ELSE <<"manifest", "csv">>
     IN  \E n \in 0..Len(due) : lists' = ToSet(SubSeq(due, 1, n))
  /\ UNCHANGED <<volume, opts, known, outVars>>

-----------------------------------------------------------------------------
(* build_paths, in every mode the same walk up the parents: from each of   *)
(* the records, in whatever order the table of them has, until a path is   *)
(* known.  w says where the root is, what stands for an ancestry that is   *)
(* too deep or unknown, and which records cannot be the child of their     *)
(* parent.                                                                 *)
Climb(n, w) ==
  LET cached == [m \in DOMAIN paths \cup {w.root} |-> IF m \in DOMAIN paths THEN paths[m] ELSE <<>>]
      goes   == DOMAIN names \ (DOMAIN cached \cup w.cut)
      up     == [m \in {n, Nothing} \cup {names[r].parent : r \in DOMAIN names} |->
                   IF m \in goes THEN names[m].parent ELSE Nothing]
      climb[k \in 0..(MaxDepth + 1)] == IF k = 0 THEN n ELSE up[climb[k - 1]]
      tall == Min({k \in 1..(MaxDepth + 1) : climb[k] = Nothing} \cup {MaxDepth + 2})
      way == [k \in 1..tall |-> climb[k - 1]]
      top == Last(way)
      deep == top \notin DOMAIN cached /\ Len(way) > MaxDepth + 1
  IN  [way |-> way, cached |-> cached, deep |-> deep,
       start |-> IF top \in DOMAIN cached THEN cached[top]
                 ELSE IF deep THEN w.deep
                 ELSE IF top \notin DOMAIN names THEN w.orphan
                 ELSE <<"_parent_reused_", names[top].name>>]

(* What is known when the walk has come back: the path of everything on    *)
(* the way, of a record that is on it twice the longer one.  Where it was  *)
(* cut short, nothing is known of the record at which it was.              *)
ClimbedSlip(n, w) ==
  LET c       == Climb(n, w)
      path(k) == c.start \o [j \in 1..(Len(c.way) - k) |-> names[c.way[k + j - 1]].name]
  IN  [m \in DOMAIN c.cached \cup {n} |-> IF m = n THEN path(1) ELSE c.cached[m]]

Climbed(n, w) ==
  LET c        == Climb(n, w)
      path(k)  == c.start \o Reverse([j \in 1..(Len(c.way) - k) |-> names[c.way[k + j - 1]].name])
      first(m) == Min({k \in DOMAIN c.way : c.way[k] = m})
      new      == ToSet(IF c.deep THEN Front(c.way) ELSE c.way) \ DOMAIN c.cached
  IN  [m \in DOMAIN c.cached \cup new |-> IF m \in new THEN path(first(m)) ELSE c.cached[m]]

WalkPath(fs, w) ==
  /\ stage = "paths" /\ volume.fs = fs
  /\ \E n \in DOMAIN names \ DOMAIN paths : paths' = Climbed(n, w)
  /\ UNCHANGED <<fixed, stage, at, names, outVars>>

PathsKnown(fs) ==
  /\ stage = "paths" /\ volume.fs = fs
  /\ DOMAIN names \subseteq DOMAIN paths
  /\ stage' = "files"
  /\ at' = 0
  /\ UNCHANGED <<fixed, names, paths, outVars>>

PathOf(n) == IF n \in DOMAIN names THEN paths[n] ELSE <<>>

(* The first name that is found for a record stays. *)
Named(so, n, name, parent) == so @@ (n :> [name |-> name, parent |-> parent])

-----------------------------------------------------------------------------
(* read_file, read_fork, read_extents: the pieces of a file, one after the *)
(* other, padded to its size, and whether all of it came from the disk.    *)
(* A hole counts as missing, a piece that is not where the data has come   *)
(* to as well, and one of which nothing can be read is the last.           *)
Gather(pieces, size, Get(_, _)) ==
  LET step(got, p) ==
        LET want  == Least(p.len, size - Len(got.data))
            chunk == IF p.at = Nothing THEN Zeros(want) ELSE Get(p.at, want)
        IN  IF got.stop \/ want <= 0 THEN got
            ELSE [data |-> got.data \o chunk,
                  ok   |-> got.ok /\ p.at # Nothing /\ p.from \in {Nothing, Len(got.data)},
                  stop |-> chunk = <<>>]
      all == FoldLeft(step, [data |-> <<>>, ok |-> TRUE, stop |-> FALSE], pieces)
  IN  [data |-> PadTo(all.data, size), ok |-> all.ok /\ Len(all.data) = size]

-----------------------------------------------------------------------------
(* What tells the files of a mode apart where they claim one path: the     *)
(* number of the record, with the stream; in HFS+ it is not the whole id.  *)
KeyOf(id) ==
  CASE volume.fs = "ntfs" -> id [] volume.fs = "hfs" -> <<id[1], "">> [] OTHER -> <<id, "">>

KeysApart == \A j, k \in DOMAIN report : KeyOf(report[j].id) = KeyOf(report[k].id) => j = k

(* What is written for one file stays: no other file takes its path, only  *)
(* a later version of it, which HFS+ may have.  A manifest lists each of   *)
(* the files that are there, once, and no other.                           *)
NothingOverwritten ==
  /\ \A k \in DOMAIN report :
       report[k].out # <<>> =>
         /\ report[k].out \in DOMAIN files
         /\ \E j \in k..Len(report) :
              /\ KeyOf(report[j].id) = KeyOf(report[k].id) /\ report[j].out = report[k].out
              /\ files[report[k].out] = report[j].data
  /\ "manifest" \in lists =>
       /\ DOMAIN files = {report[k].out : k \in DOMAIN report}
       /\ KeysApart => Cardinality(DOMAIN files) = Len(report)

(* No file is reported twice, however often its record is met.             *)
ReportedOnce == \A j, k \in DOMAIN report : report[j].id = report[k].id => j = k
=============================================================================
