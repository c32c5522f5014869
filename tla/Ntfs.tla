-------------------------------- MODULE Ntfs --------------------------------
(***************************************************************************)
(* NTFS undelete: recover_reporting of src/src/ntfs.rs.  The master file   *)
(* table is walked twice: once for what paths are made of, once for the    *)
(* files.                                                                  *)
(*                                                                         *)
(* The table is kept in cells like everything else.  A record takes        *)
(* RecordSize cells <<"mft", number, part>> and reads back only if its     *)
(* parts are together and in order; volume.records has what is in it:      *)
(*   seq, used, dir, base, list  -- its header and $ATTRIBUTE_LIST         *)
(*   names    -- $FILE_NAME: [dos, name, parent, parentSeq]                *)
(*   streams  -- $DATA: [name, resident, content, mapped, runs, size,      *)
(*               coded]; mapped is FALSE where the runlist does not decode *)
(* A run is [lcn, count]; one with lcn Nothing is a hole.                  *)
(***************************************************************************)
EXTENDS Undelete

CONSTANTS
  RecordSize,  \* cells of a record
  Block,       \* cells that are read at a time
  ListCap      \* extension records that are followed (4096)

ASSUME NtfsAssumption ==
  RecordSize \in Nat \ {0} /\ Block \in Nat \ {0} /\ ListCap \in Nat

VARIABLES
  mft,      \* Volume::mft_runs
  cursor,   \* for_each_record: the run, what is done of it, the buffer, the number
  streams   \* pass two: the streams of the record that are still to come

ntfsVars == <<mft, cursor, streams>>

NoCursor == [run |-> 1, done |-> 0, at |-> 0, got |-> 0, num |-> 0]

NtfsInit == mft = <<>> /\ cursor = NoCursor /\ streams = <<>>

RunCells(r) == r.count * volume.cluster

(* fixup: the record kept in the cells from a on, if it is whole. *)
RecordAt(a) ==
  LET cells == a..(a + RecordSize - 1)
      whole == {n \in DOMAIN volume.records :
                  \A c \in cells : c \in DOMAIN volume.table /\ volume.table[c] = <<n, c - a>>}
  IN  IF a + RecordSize > Len(volume.cells) \/ whole = {} THEN Nothing ELSE Min(whole)

(* Volume::record: a record found by its number, through the runs. *)
Record(num) ==
  LET before(k) == FoldLeft(LAMBDA sum, r : sum + RunCells(r), 0, SubSeq(mft, 1, k - 1))
      pos       == num * RecordSize
      holding   == {k \in DOMAIN mft : before(k) <= pos /\ pos < before(k + 1)}
  IN  IF \A k \in holding : mft[k].lcn = Nothing THEN Nothing
      ELSE LET k == Min(holding) IN RecordAt(mft[k].lcn * volume.cluster + pos - before(k))

Content(r) == volume.records[r]

(* A Win32 name rather than the DOS alias. *)
BestName(ns) ==
  LET long == SelectSeq(ns, LAMBDA n : ~n.dos) IN Head(IF long = <<>> THEN ns ELSE long)

(* attributes_with_list: the record itself, then each extension record     *)
(* that its attribute list names, once.                                    *)
ExtendedSlip(r, num) == <<r>>

Extended(r, num) ==
  LET list  == Content(r).list
      refs  == Picked(list, [k \in DOMAIN list |->
                               list[k] # num /\ \A j \in 1..(k - 1) : list[j] # list[k]])
      parts == [k \in 1..Least(Len(refs), ListCap) |-> Record(refs[k])]
  IN  <<r>> \o Picked(parts, [k \in DOMAIN parts |-> parts[k] # Nothing])

(* parse_record_bytes: the slices of a stream, in the order they come in.  *)
(* The first one with a size gives it, and a slice that is mapped makes    *)
(* the stream one that is not resident.                                    *)
Joined(slices) ==
  [Head(slices) EXCEPT
     !.runs     = FlattenSeq([k \in DOMAIN slices |-> slices[k].runs]),
     !.mapped   = \E k \in DOMAIN slices : slices[k].mapped,
     !.resident = @ /\ \A k \in 2..Len(slices) : ~slices[k].mapped,
     !.size     = LET sized == SelectSeq(slices, LAMBDA s : s.size # 0)
                  IN  IF sized = <<>> THEN 0 ELSE sized[1].size]

Names(parts) == FlattenSeq([k \in DOMAIN parts |-> Content(parts[k]).names])

Streams(parts) ==
  LET slices  == FlattenSeq([k \in DOMAIN parts |-> Content(parts[k]).streams])
      firsts  == Picked(slices, [k \in DOMAIN slices |->
                                   \A j \in 1..(k - 1) : slices[j].name # slices[k].name])
      of(s)   == Picked(slices, [k \in DOMAIN slices |-> slices[k].name = s.name])
  IN  [k \in DOMAIN firsts |-> Joined(of(firsts[k]))]

-----------------------------------------------------------------------------
(* Volume::open: record 0 says where the table is. *)
NtfsOpen ==
  /\ stage = "open" /\ volume.fs = "ntfs"
  /\ LET zero == RecordAt(volume.mftLcn * volume.cluster)
         all  == IF zero = Nothing THEN <<>> ELSE Content(zero).streams
         data == {k \in DOMAIN all : all[k].name = "" /\ all[k].mapped}
     IN  IF data = {} \/ all[Max(data)].runs = <<>>
           THEN stage' = "failed" /\ UNCHANGED mft
           ELSE stage' = "names" /\ mft' = all[Max(data)].runs
  /\ UNCHANGED <<fixed, known, outVars, cursor, streams>>

Count == volume.mftSize \div RecordSize

(* for_each_record: the next run, once this one is used up. *)
InPass == volume.fs = "ntfs" /\ stage \in {"names", "files"} /\ streams = <<>>

Run == mft[cursor.run]

NoBuffer == cursor.at + RecordSize > cursor.got

NextRun == cursor' = [cursor EXCEPT !.run = @ + 1, !.done = 0, !.at = 0, !.got = 0]

SkipHole ==
  /\ InPass /\ cursor.run <= Len(mft) /\ Run.lcn = Nothing
  /\ cursor' = [cursor EXCEPT !.run = @ + 1, !.num = @ + (RunCells(Run) \div RecordSize)]
  /\ UNCHANGED <<fixed, known, stage, outVars, mft, streams>>

EndPass ==
  /\ stage' = IF stage = "names" THEN "paths" ELSE "done"
  /\ cursor' = NoCursor
  /\ UNCHANGED <<fixed, known, outVars, mft, streams>>

LastRun == InPass /\ cursor.run > Len(mft) /\ EndPass

(* A block of the run, from the end of the last whole record.  Nothing to  *)
(* read ends the pass, less than a record ends the run.                    *)
NoRecordSlip == FALSE

NoRecord == cursor.got > 0 /\ cursor.at = 0

ReadBlock ==
  /\ InPass /\ cursor.run <= Len(mft) /\ Run.lcn # Nothing /\ NoBuffer
  /\ LET done == cursor.done + cursor.at
         want == Least(Block, RunCells(Run) - done)
         got  == Len(Cells(Run.lcn * volume.cluster + done, want))
     IN  IF NoRecord \/ done >= RunCells(Run) \/ cursor.num >= Count
           THEN NextRun /\ UNCHANGED <<fixed, known, stage, outVars, mft, streams>>
           ELSE IF got = 0 THEN EndPass
           ELSE /\ cursor' = [cursor EXCEPT !.done = done, !.at = 0, !.got = got]
                /\ UNCHANGED <<fixed, known, stage, outVars, mft, streams>>

Here == RecordAt(Run.lcn * volume.cluster + cursor.done + cursor.at)

NextRecord == cursor' = [cursor EXCEPT !.at = @ + RecordSize, !.num = @ + 1]

TakeRecord == InPass /\ cursor.run <= Len(mft) /\ Run.lcn # Nothing /\ ~NoBuffer

(* The numbers run out inside a block. *)
PastTable ==
  /\ TakeRecord /\ cursor.num >= Count
  /\ NextRun
  /\ UNCHANGED <<fixed, known, stage, outVars, mft, streams>>

(* parse_path_info: the record's own names only, of no extension record. *)
NameRecord ==
  /\ stage = "names" /\ TakeRecord /\ cursor.num < Count
  /\ names' =
       IF Here = Nothing \/ Content(Here).base # 0 \/ Content(Here).names = <<>> THEN names
       ELSE LET name == BestName(Content(Here).names)
            IN  [n \in DOMAIN names \cup {cursor.num} |->
                   IF n # cursor.num THEN names[n]
                   ELSE [name |-> name.name, parent |-> name.parent,
                         parentSeq |-> name.parentSeq, seq |-> Content(Here).seq]]
  /\ NextRecord
  /\ UNCHANGED <<fixed, at, paths, stage, outVars, mft, streams>>

-----------------------------------------------------------------------------
(* build_paths: a parent that was given to another file since is not the  *)
(* parent of this one.                                                     *)
ReusedSlip == {}

Reused ==
  {n \in DOMAIN names : /\ names[n].parent \in DOMAIN names /\ names[n].parentSeq # 0
                        /\ names[names[n].parent].seq # names[n].parentSeq}

NtfsPath ==
  /\ WalkPath("ntfs", [root |-> 5, deep |-> <<"_deep_">>, orphan |-> <<"_orphan_">>, cut |-> Reused])
  /\ UNCHANGED ntfsVars

NtfsPathsKnown == PathsKnown("ntfs") /\ UNCHANGED ntfsVars

-----------------------------------------------------------------------------
(* Pass two: a record that is a file, and the ones that are not. *)
Wanted(r, num) ==
  LET c     == Content(r)
      parts == Extended(r, num)
  IN  /\ c.base = 0 /\ ~c.dir /\ Streams(parts) # <<>> /\ Names(parts) # <<>>
      /\ c.used => opts.live

FileRecord ==
  /\ stage = "files" /\ TakeRecord /\ cursor.num < Count
  /\ LET wanted == Here # Nothing /\ Wanted(Here, cursor.num)
     IN  IF wanted THEN streams' = Streams(Extended(Here, cursor.num)) /\ UNCHANGED cursor
         ELSE NextRecord /\ UNCHANGED streams
  /\ UNCHANGED <<fixed, known, stage, outVars, mft>>

(* recover_stream: what it refuses. *)
StreamSize(s) == IF s.resident THEN Len(s.content) ELSE s.size

Outside(s) == \E k \in DOMAIN s.runs :
                s.runs[k].lcn # Nothing /\ s.runs[k].lcn + s.runs[k].count > volume.clusters

Refused(s) ==
  \/ StreamSize(s) = 0
  \/ ~s.resident /\ (\/ ~s.mapped \/ s.coded
                     \/ \A k \in DOMAIN s.runs : s.runs[k].lcn = Nothing
                     \/ Outside(s))

(* What the runs give, up to the first cell that cannot be read. *)
ReadStream(s) ==
  LET take(got, r) == Least(RunCells(r), s.size - Len(got.data))
      step(got, r) ==
        LET cells == IF r.lcn = Nothing THEN Zeros(take(got, r))
                     ELSE Cells(r.lcn * volume.cluster, take(got, r))
        IN  IF got.broken THEN got
            ELSE [data |-> got.data \o cells, broken |-> Len(cells) < take(got, r)]
      all  == FoldLeft(step, [data |-> <<>>, broken |-> FALSE], s.runs)
  IN  IF s.resident THEN [data |-> s.content, whole |-> TRUE]
      ELSE [data |-> PadTo(all.data, s.size), whole |-> Len(all.data) = s.size]

(* Where it is written. *)
Label(path, stream) ==
  LET whole == Directory(<<"ntfs">> \o (IF path = <<>> /\ stream # "" THEN <<"">> ELSE path))
  IN  [whole EXCEPT ![Len(whole)].stream = stream]

StreamDone ==
  /\ streams' = Tail(streams)
  /\ IF Len(streams) = 1 THEN NextRecord ELSE UNCHANGED cursor

RecoverStream ==
  /\ volume.fs = "ntfs" /\ stage = "files" /\ streams # <<>>
  /\ LET s     == Head(streams)
         live  == Content(Here).used
         label == Label(PathOf(cursor.num), s.name)
         got   == IF opts.dry THEN [data |-> <<>>, whole |-> TRUE] ELSE ReadStream(s)
         rec   == [id |-> <<cursor.num, s.name>>, path |-> label,
                   out |-> FreeName(label, cursor.num), size |-> StreamSize(s),
                   data |-> got.data, validated |-> got.whole /\ ~live, deleted |-> ~live]
     IN  IF Refused(s) \/ (~opts.dry /\ rec.out = Directory(<<"ntfs">>)) THEN UNCHANGED outVars
         ELSE Emit(rec)
  /\ StreamDone
  /\ UNCHANGED <<fixed, known, stage, mft>>

(* run_ntfs, when the walk is over. *)
NtfsList == volume.fs = "ntfs" /\ List /\ UNCHANGED ntfsVars

NtfsStep ==
  \/ NtfsOpen \/ SkipHole \/ LastRun \/ ReadBlock \/ PastTable \/ NameRecord
  \/ NtfsPath \/ NtfsPathsKnown \/ FileRecord \/ RecoverStream \/ NtfsList

(* What a record may have in it, as far as its runs and its streams go.    *)
NtfsRuns == [lcn : Nat \cup {Nothing}, count : Nat]

NtfsStreams ==
  [name : STRING, resident : BOOLEAN, content : Seq(Int), mapped : BOOLEAN, runs : Seq(NtfsRuns),
   size : Nat, coded : BOOLEAN]

IsNtfs(v) ==
  /\ v.cluster \in Nat /\ DOMAIN v.records \subseteq Nat
  /\ \A n \in DOMAIN v.records :
       v.records[n].list \in Seq(Nat) /\ v.records[n].streams \in Seq(NtfsStreams)

NtfsSpec ==
  IsNtfs(volume) /\ UndeleteInit /\ NtfsInit /\ [][NtfsStep]_<<undeleteVars, ntfsVars>>
=============================================================================
