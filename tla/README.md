# A verification project for breadcrumb-rs

`bcrumb-rs` recovers files from disk images: it sweeps an image for the magic
bytes of 28 file types, carves what a handler accepts, removes what is nested
or duplicated, and writes a manifest. It can use several threads, stop at an
output limit, be killed, and be resumed. It also recovers deleted files from
what six file systems still know of them, and carves only the space that a
volume has as free. This directory models the part of it that decides what is
found and what is recorded, checks the models with TLC on small instances, and
proves the main results with TLAPS for all instances.

Paths below are relative to the repository (`src/` here stands for the whole
repository, so the Rust files are `src/src/*.rs`).

## 1. The system

| part | source | state it keeps | operations | model |
|---|---|---|---|---|
| scan pool | `carver.rs` `run_parallel`, `run_ranges`, `OutputBudget` | index of the next range, bytes written, stop flag, callback mutex, records per worker | take a range, carve, charge the budget, report, collect | `ScanPool`, `ScanLedger` |
| sweep of a range | `carver.rs` `Carver::run`, `try_carve` | position, `next_allowed`, records | read a chunk, skip a blank one, try a hit, skip ahead | `Carver` |
| end of a run | `carver.rs` `containment_filter`, `dedupe` | `covered_end`, first record of each digest, output files | sort, drop, push, mark | `Containment` |
| checkpoint | `checkpoint.rs`, `main.rs` `plan_ranges` | the state file, merged ranges | open, complete, remaining, finish | `Checkpoint` |
| an output directory | `main.rs` `run`, `stream_records`, `merge_with_existing`, `write_manifest` | state file, carved files, `carved.jsonl`, `manifest.json` | the attempts of a scan, from the first to the one that finishes | `Session` |
| sources | `reader.rs`, `images.rs`, `ewf.rs`, `Volume::read` of `bitlocker.rs` | chunk caches, tables | `pread`, `size` | `Media`, `Readers` |
| window | `window.rs` | cached blocks | `read`, `find`, `find_last` | `Window` |
| grep | `grep.rs` | position, hits | search by chunks | `Grep` |
| partitions, choice of a volume | `partition.rs`, `main.rs` `locate`, `ntfs_base`, `plan_unallocated`, `run_auto` | the table, the sectors the chain has been to | APM, GPT, MBR and its chain of extended records; which volume a mode takes | `Partition` |
| what the undelete modes share | `build_paths`, the output of `recover` in each | path cache, report, output files | climb to the root, name a file, write it, list it | `Undelete` |
| NTFS | `ntfs.rs` `recover_reporting` | cursor in the table, names, streams of a record | two passes over the table, extension records, streams | `Ntfs` |
| FAT, exFAT | `fat.rs` `recover` | stack of directories, long name so far, directories seen | walk the directories, read forward | `Fat` |
| ext2/3/4 | `ext4.rs` `recover` | names, then the inodes | directory slack, extent trees, indirect blocks | `Ext4` |
| HFS+ | `hfs.rs` `recover` | files of the catalog, files of the sweep | catalog, then every block | `Hfs` |
| APFS | `apfs.rs` `recover` | names, sizes, extents | every block that is a leaf | `Apfs` |
| unallocated space | `free_ranges` of `ntfs.rs`, `fat.rs`, `ext4.rs` | the free run it is in, free runs, ranges | walk the allocation map, join runs | `FreeSpace` |
| encryption | `bitlocker.rs`, `crypto.rs` | keys | unlock, decrypt sectors | not modelled (but for reading) |
| handlers | `handlers.rs`, `Signature::carve` of `signatures.rs` | position, furthest end, references followed | walk one file to its end, or refuse it | `Handlers`, `Containers` |
| signatures, validation | `signatures.rs`, `customsig.rs`, `validate.rs` | none | match a magic, check a carved file | an input of `Carver`; not modelled |
| output | `report.rs`, `json.rs`, `jsonin.rs`, `verify.rs`, `artifacts.rs` | none | format, read back | not modelled |

How they interact. `main.rs` opens a source, opens the checkpoint, turns what
is not done into a work list (`plan_ranges`) and calls `run_ranges` with a
callback. `run_ranges` starts the workers; each takes ranges from a shared
index and runs a `Carver` on each. A worker that finishes a range calls the
callback under a mutex, and the callback appends the records to
`carved.jsonl` and then the range to the state file. When the workers have
left, their records are filtered and deduplicated, which deletes files;
`main.rs` folds in the records of an earlier manifest if `--resume` was given,
removes the state file if nothing remains, and writes the reports and the
manifest. With `--unallocated` the work list is what `free_ranges` returns. The
undelete modes do not carve: `main.rs` finds the volume they are to read
(`locate`, `ntfs_base`) or, with `--auto`, every volume on the disk in turn,
and `recover` of its file system walks the metadata, builds the paths and writes
the files, after which `main.rs` writes the manifest and a CSV. Everything that looks at the image does so through
`Source::pread`; handlers put a `Window` between, whose cached blocks they
share from one call to the next, and grep reads in chunks of its own.

What is hard about it:

- threads: the queue, the output budget and the callback are shared, and the
  budget is read in several places and charged in another;
- crashes: four kinds of file are written at different moments, and a kill, a
  full disk or a power cut may come between any two writes, or inside one;
- attempts: a resumed scan starts from what the files say, and several
  attempts make one result;
- boundaries: an image is cut into chunks and ranges, and a file, a magic or a
  precheck may lie across any cut;
- order: workers finish in any order, and the filter deletes files on the
  strength of one running number;
- damage: the volumes that are undeleted are broken by definition. A parent, a
  chain, a tree, a boot record may lead back to where it came from or out of
  the volume, a table may be cut through a record, a directory entry or an old
  leaf may describe what is no longer there, and two records may claim one path.

What makes each part correct:

- pool: no range is carved twice or left out; the checkpoint never runs ahead
  of the scan or of `carved.jsonl`; complete files are always accounted for;
  the limit is passed by a bounded amount; the scan ends;
- sweep: cutting the image into chunks and ranges does not change the answer;
- handlers: what is called validated ends where the file ends, whatever is in it,
  after it, or cut off it; every walk over what the bytes say comes to an end;
- end of a run: exactly the contained carves are dropped, and what is deleted
  is still represented by something kept;
- checkpoint: what a resume skips was scanned, what it plans is the rest;
- sources: an answer is the slice of the media that was asked for, whatever
  container, cache or cipher is between, and is short only where the media ends
  or cannot be read; window and grep: what they search for is found wherever a
  block or chunk boundary falls, and found once;
- output directory: nothing that a resume skips is described nowhere, and the
  final manifest agrees with the disk and with a single pass;
- undelete: every walk ends; what is reported as validated is the file's data;
  no file is reported twice or left out; a path is the one the file had; no
  recovered file overwrites another; the volume that is read is the right one;
- unallocated space: every free cluster is carved, and clusters in use are read
  along only between runs that are close together.

`PROJECT.json` lists, under `hazards`, the lines where each of these can go
wrong and the properties that watch them.

## 2. The modules

`ScanLedger` is the abstract specification of the bookkeeping: a range gets
into the ledger in two writes, its records first and the range second, one
range at a time and each once.

`ScanPool` is the pool. One action is one step between two synchronisations of
a worker thread: `LoopTop` (budget test), `TakeRange` (`fetch_add` and
`ranges.get`), `StopSweep`/`ShortRead`/`EndSweep` (the three ways out of
`Carver::run`), `Reject`/`BeginCarve`/`FinishCarve`/`FailCarve` (`try_carve`),
`Withhold`/`Report` (the budget test after a range), `EnterCallback`,
`StreamRecords`, `CompleteRange` (the callback), `Collect`. `Kill` may come
between any two. What is on disk is `disk` (output files), `stream`
(`carved.jsonl`) and `done` (the state file). The sweep inside a range is
abstracted to how many candidates it has. It refines `ScanLedger` under the
mapping `LedgerStatus`.

`Carver` is the sweep itself, over an image given as a set of headers. An
action is a branch of `Carver::run`: `BlankChunk`, `ReadChunk`, `PassHit`,
`RefuseHit`, `CarveHit`, `EndChunk`, `EndRange`. `FindIter` is what the
Aho-Corasick automaton returns for a buffer (leftmost, longest, not
overlapping). A handler is data there: the size it finds and whether it
validates. `Handlers` and `Containers` are the handlers themselves, over a
window that is given as the structures in it, by position. An action is one turn
of the loop of one handler, or the whole of a handler that has no loop to speak
of. `Handlers` has those that go from one structure to the next (JPEG, PNG, GIF,
RTF, GZIP, MP4, MP3, OGG, FLAC, PSD), those that believe a length in the header
(`ReadHeader`, `Rar`, `Mkv`), and the analyst's own signatures (`Footer`).
`Containers` has those that follow references: TIFF, PDF, property lists, PE,
ELF, Mach-O, ICO, OLE (allocation table, directory, streams) and ZIP (members,
directory, end records, search). `MCDocuments` builds files from parts; where a
part lies follows from the lengths of those before it. `MCCarver` puts the sweep
and the handlers side by side: either runs, on an instance of its own.

`Containment` has the loops of `containment_filter` and `dedupe`, one
iteration per action, with the output files they delete. A run with one job
deduplicates inside `Carver::run` first, as the code does.

`Checkpoint` has the state file as its lines, in a world (`Worlds`) that says
which images there are, whether an attempt may start afresh and whether the disk
may cut a line short. A line keeps its tag, the value
its text parses to, and whether it has its end of line, which is what decides
how a torn line and the line after it read back. `Open` is `Checkpoint::open`
with the planning that follows; `Complete` and `ShortComplete` are one
completed range, written whole and cut short; `Leave` and `Finish` end an
attempt.

`Session` puts the attempts together: `Start`, the scan of a range and its two
records (`CarveRange`, `StreamRange`, `CompleteRange`), the output limit
(`Cut`), then `Settle` (filter and deduplication), `Merge`
(`merge_with_existing`), `Finish` (the state file is removed), the reports and
the manifest, and a kill or an error anywhere. It scans one range at a time,
which `ScanPool` justifies (the ledger has one range open at a time), and uses
of `Containment` what that module's theorems say about its loops.

`Media` is what a source of bytes promises: an answer is the slice that was
asked for, or the start of it where part of the media cannot be read.
`Readers` has `Source::pread` for each kind of source and shows that it
implements `Media`. `ImageFormats` says how each kind of container holds its
media, from its layout and not from how it is read; the proof about the readers
assumes it, and the sources of the run satisfy it. An action is one iteration of the loop of a `pread`
(`SplitRead`, `ClusterRead`, `GrainRead`, `ChunkRead`, `DecryptRead`,
`PlainRead`; `RawRead` is the whole of the raw reader's). The tables that
opening a container builds are part of the source, given in advance, together
with the media it was made from. A sector encrypted under a number is a value
that only the same number decrypts, so a wrong sector number shows. `Window`
and `Grep` are clients of `Readers`: each calls `Pread` and goes on when the
answer is there. `MCMedia` composes the three: a client is the direct reader,
a window or a grep.

`Undelete` has what the five file systems do alike: the volume and its data as a
sequence of cells (`Cells` is `pread`), `build_paths` as one climb per record
in any order (`WalkPath`), the naming and writing of a file (`FreeName`,
`Emit`), and the lists at the end (`List`). A volume is a record of the
structures of its file system as their parsers read them, so the bytes of a
header are data and the links between structures are control. Each file system
extends it with its own walk, whose actions are guarded by `volume.fs`:

- `Ntfs`: `for_each_record` block by block and run by run (`ReadBlock`,
  `SkipHole`, `NoRecord`, `PastTable`), once for the names (`NameRecord`) and
  once for the files (`FileRecord`, then `RecoverStream` for each stream).
  `Extended` is the attribute list, `Reused` the sequence number that says a
  parent is another file now.
- `Fat`: the stack of directories, a slot per action (`FatPiece`, `FatPass`,
  `FatFile`, `FatDir`), a directory per action in exFAT (`ExfatDir`), and the
  chains (`Chain`); then `FatRecover`.
- `Ext4`: `ExtNames` reads the directory blocks with their slack; `Extents`
  and `Blocks` are the two kinds of block map; `ExtFile` recovers an inode.
- `Hfs`: `HfsCatalog`, `HfsSweep`, `HfsFile`.
- `Apfs`: `ApfsBlock`, `ApfsFile`.

Both sweep as far as `SweepEnd`: the code reads 8 MiB at a time (`SweepRead` cells),
looks only between two reads whether the volume is over, and tries all of what a
read has, so the last one goes on into what lies behind the volume on the disk.

`Partition` is `partition.rs` (`TableOpen`, `MbrEntry`, `EbrRecord`) and the four
ways a volume is picked from what it returns (`PickNtfs`, `PickLocated`,
`PickUnallocated`, `PickAuto` with `RecoverOne`). `FreeSpace` is one bit of an
allocation map per action (`TakeBit`), the ends of a group and of the map, and
`AddRun`, one run of `ranges_from_free_clusters`. Each of these modules is a
specification of its own (`NtfsSpec` to `FreeSpec`), which the theorems are about;
`MCUndelete` puts them side by side: a volume decides which of them moves. What is
asked of every file system alike is stated in `Undelete` (`NothingOverwritten`,
`ReportedOnce`), what is asked of partitions and of maps in their own modules; what
needs the truth about a volume is in `MCUndelete`, where a volume is made together
with it.

`MC<module>` gives a module its constants for TLC. `<module>Proofs` has its
theorems (`MediaProofs` those of `Readers`, `Window` and `Grep`, `UndeleteProofs`
those of the five file systems, `Partition` and `FreeSpace`). `Induction` has what every
proof about a loop or a recursive function begins with. A definition whose name
ends in `Slip` is the definition after it with a plausible mistake. No
specification uses one: each shows that some property would notice.

Order of work: the bookkeeping first (pool, checkpoint, end of run, session),
because a mistake there loses evidence silently; then the sweep, what the sweep
reads through, and the walks that recover deleted files. What could be added, in
the order of what it would show:

1. the validation of what the handlers carve (`validate.rs`), as a second opinion
   on the same documents;
2. the tables the readers use, from their containers: the sections and chunk
   tables of an E01 set and the segments it is made of;
3. `$UsnJrnl` of NTFS (`--deleted-times`);
4. theorems: that the walks of the handlers stay in their window; that `Climbed`
   gives the same paths in whatever order the records are walked.

## 3. What is checked

| run | instance | properties |
|---|---|---|
| `pool_budget` | 2 workers, 3 ranges with 2, 1 and 1 candidates, carves of 1 or 2, limit 3 | `TypeOK`, `OneOwner`, `CheckpointedIsScanned`, `CheckpointedIsStreamed`, `OvershootBounded`, `NothingUnaccounted`, `AllRangesUnlessStopped`, `KeepsLedger` |
| `pool_faults` | 2 workers, 2 ranges, an unreadable range, any write may fail, fair threads | `WholeFilesCollected`, `ScanEnds` |
| `checkpoint_attempts` | two worlds: 12 bytes in pieces of 5, with and without `--resume`; 24 bytes in pieces of 12, two images, two type sets, any line may be cut. 3 attempts | `Canonical`, `PlanIsExact`, `FileTracksMemory`, `FinishedIsWhole`, `ResumedSkipsOwn` |
| `containment_passes` | every list of up to 3 carves in 5 bytes, 2 digests, and those of one worker | `KeepsTheUncontained`, `DroppedIsInKept`, `FilesAreRecorded`, `OriginIsKept` |
| `carver_scans` | 12 bytes read 5 at a time, up to 3 headers anywhere; one range, and two with carves that nest where they cross from one to the other; and 58 files of 29 formats, cut at every byte | `SameAsOnePass`, `EveryHeaderTried`, `EndsAreTrue`, `WalksEnd` |
| `session_attempts` | one image, 2 ranges of 2 carves, 3 attempts that may stop, fail or be killed | `AccountedSomewhere`, `ListedFilesExist`, `DiskIsListed`, `SameAsSinglePass` |
| `media_clients` | nine images of 6 to 10 bytes, two damaged; blocks, chunks, steps and overlaps of 2, caches of 2 | `WindowAnswers`, `GrepFinds`, `ReadsMedia`, `CallsReturn` |
| `undelete` | volumes of up to 21 cells: 36 NTFS, 48 FAT, 10 exFAT, 12 ext, 120 HFS+, 80 APFS, in four modes; 3072 disks; allocation maps of up to 12 clusters | `ValidatedIsRight`, `NothingOverwritten`, `ReportedOnce`, `FoundInPlace`, `PartitionsFound`, `VolumeTaken`, `FreeIsCarved`, `RangesAreApart`, `UndeleteEnds` |

Why the bounds are enough. Two workers and three ranges of unequal length let
one worker be two ranges ahead of the other, so the checkpoint sees ranges out
of order; a limit of 3 with carves of 2 is met in the middle of a range and
passed by both workers at once. In the checkpoint, a piece size that does not
divide the image leaves a short last piece, and numbers of two digits can be
cut to one, which is where a torn line becomes another range. Three attempts
are a scan, a resume, and a resume of the resume; in the second world every
attempt resumes, because a fresh start over the file of another image is the
finding `checkpoint_wrong_image`. Three carves are the least
for one to be inside the second and the second across the first. A source of
twelve bytes has three chunks, and every place of a two-byte magic relative to
two chunk boundaries and a range boundary occurs. The files of `MCDocuments` have
what could be taken for their end inside them (a thumbnail, a trailer byte in a
block, an unbalanced brace in the bytes of `\bin`) and after them (a second
file, a stray end record, a plist whose trailer agrees with itself but not with
its place), references forward, back, in a circle and out of the file, and there
are fragments and damaged ones. A file of up to 300 bytes is cut at every byte
from the fourth on, a longer one at every sector and at each of its last 70
bytes. `end` of a file says where it ends and `ends` where it still could once it
is cut; both are lengths of what it was built from, not what a handler returns.
The limits of the code are small ones here (`Buffer`, `Sanity`, `Eofs`,
`MiniCutoff`, `ManyFrames`, `MaxPages`), so that files are on either side of them;
`Unresolved` and `PlistBack` are larger than every file. In `Session` a range holds a
container with what it contains, and a pair of duplicates. The images of
`media_clients` have three or more units (segments, clusters, grains, chunks,
sectors) of two bytes with every kind of entry (stored, compressed,
unallocated, no table, an empty segment, a file that ends inside a unit), read
at every offset and in lengths that end inside, at and across a unit; caches of
two are full and evict; the patterns are longer than a step and share prefixes,
so they lie across turns, blocks and chunks.

Every volume of `undelete` is small enough to read whole and has each structure
of its file system in each state that the walk tells apart: a link that is
right, one to where it came from, one back, one to what is not there, and one
out of the volume; a table or a volume cut at and inside a structure; a name
taken by two files; a file that lies in one piece, in two, with a hole, with
part of it past the end. Behind some of the HFS+ and APFS volumes (12 cells) lies a
neighbour. `SweepRead` is 8, so the sweep ends at cell 16 or at the end of the disk.
One node or leaf of the neighbour is in its reach: it has a file under a path that
the volume has too, names for records that the volume has a name for and, in HFS+, a
record of the volume once more. Another is just out of its reach, and would change a
path or an extent if it were read. The four modes are the pairs of a dry run or not and
of files in use or not. `truth`, `where` and `expected` of a volume say what its
files hold, what paths they had, and which of them must be found. The NTFS table
lies in two runs with a hole between, and is read in blocks that are no multiple
of a record. The disks have two primary partitions and a chain of three
boot records that ends, goes on, leads back or leads to a sector that is none; a
file system that is detected at the start of the image or of a partition may not open;
the allocation maps have every pattern of bits in groups of up to seven. What the
instances leave out, because a property fails there and the code is the reason,
is said in section 4.

`SYMMETRY` is used for the workers in `pool_budget` only, where no liveness is
checked. `CHECK_DEADLOCK FALSE` is set in the runs whose programs end, which is
all but the two of `MCUndelete`. There a walk that has ended may stutter
(`Ended`), so a walk that stops anywhere else is a deadlock, and a stage that
takes more than `MaxSteps` (40) steps breaks `UndeleteEnds`; none of the instance
takes more than 25. Together the two say that every walk ends, on every volume
of the instance, without an assumption on fairness.

Fairness is used in three runs. In `pool_faults`: `WF_vars(alive /\ Step(w))` for each
worker. Worker threads are scheduled by the operating system and block only on
the callback mutex, whose holder never waits for anything; no worker needs
more than weak fairness, because the mutex is held for two steps and the queue
is finite. Nothing obliges the process to be killed or a write to fail. In
`media_clients`, a call that has begun goes on: the loops of `pread`, of a
window job and of a search are straight-line code of one thread. Nothing
obliges a caller to call again. In `carver_scans`, a handler that was called goes
on (`WF_allVars(Handle)`): it runs on the thread of its worker, takes no lock and
waits for nothing but `pread`.

## 4. Where the code and its documents disagree

Four runs show a disagreement (`findings` in `PROJECT.json`):

- `checkpoint_wrong_image`: without `--resume`, a state file that is there is
  appended to. Its ranges then belong to the earlier scan and its last
  fingerprint to the later one, and a resume of the later scan skips ranges
  that only the earlier one scanned.
- `session_lost`: an attempt that was killed wrote no manifest, and the next
  one folds in `manifest.json` only. The finished manifest lacks the records
  of the killed attempt's ranges, which are in `carved.jsonl`. If the kill
  comes after the last range, the resumed scan writes an empty manifest.
- `media_broken_split`: where a byte of a segment cannot be read, the split
  reader continues with the start of the next segment, as if it came right
  after; a short answer is meant to be the end. The raw and E01
  readers stop. (QCOW2 and VMDK fill the rest of the unit with zeros: the bytes
  after it stay in their places, but the answer does not show the damage.)
- `undelete_indirect`: a deleted ext2/3 file that has an indirect and a double
  indirect block comes back with the blocks of the double one first, and is
  reported as validated. The blocks are a stack, and the three pointers of the
  inode are pushed in the order in which they should be popped.

The models also reach the following, which have no run of their own. Each is
in the hazard list with its line, and is the reason for a condition in a
property or for what an instance leaves out.

- Pool: the limit is passed by carves in progress (`OvershootBounded` is the
  bound that holds; `written <= Limit` is not). With `WritesFail`, a partial
  file is left without a record, a failed last flush leaves a record of a file
  that is short, and a range is checkpointed although its lines never reached
  `carved.jsonl`. A range whose source stops answering is recorded as done.
- Checkpoint: the line after a torn one is lost with it; a range line cut in
  its second number may end before it starts, and `bytes_done` then aborts
  every resume (outcome `aborted`).
- Carver: a header is missed when its precheck looks back past the start of a
  chunk, when its magic begins with zeros at the end of a blank chunk, and
  when a range boundary lies between the start of the file and its magic
  (`Regular` excludes these). Two ranges keep a carve that begins inside a
  validated one of the other and ends after it, a single pass skips it (`Nested`
  excludes that). The instance is regular and nested, which TLC evaluates; without
  `Nested`, `SameAsOnePass` fails.
- Handlers: RTF is read 64 KiB at a time, and a backslash that is the last byte
  of a buffer does not escape the first of the next one, so a brace there is
  counted; the digits of a `\bin` that lies across the edge are cut short, and
  the raw bytes are counted as text. Either ends a whole file early or never, and
  the early end is validated. `EndsAreTrue` fails on such files; that of the
  instance has an escape and a `\bin` inside a buffer. MP4 goes on into the boxes
  of a file that follows immediately; OGG stops at the first page that ends one of
  several streams; FLAC goes up to the next FLAC and calls that validated (the
  instance has that one directly behind it); PSD reads the length of its fourth
  section from the pixels; an icon whose images are not in the order of its table
  is refused. The instance has none of the first three. A PDF with more than 32
  ends is kept up to one of the first 32, an OGG stream up to its page 1 000 001,
  both as validated; such files are in the instance as ones that may end there.
- Containment: with one job and `--no-skip`, a copy is deleted as a duplicate
  of a carve that the containment filter then drops and deletes. With
  `SerialInputs <- OrderedInputs` in place of `SkippingInputs`,
  `OriginIsKept` fails.
- Grep: a keyword that lies across the end of the region asked for is not reported
  where another keyword inside it begins behind that end: the second ends first, is
  what `find_iter` finds, and is cut off by `limit`. `GrepFinds` asks only for the
  keywords that end in the region; a regular expression is matched by itself and has
  no such exception. Hits that begin in the overlap past the end of the region asked for
  are reported as well. A pattern longer than the overlap and a byte can be missed
  where it lies across the boundary of two chunks (`PatternsFit`); the instances have none.
- BitLocker: sectors past the end of the source are zeros decrypted, not a
  short answer.
- Session: duplicates and containment are not looked for across attempts. If a
  carve of one range contains one of another, and an attempt was cut after the
  inner one was carved and before the outer one, the next attempt drops the inner
  one and deletes its file, and `merge_with_existing` takes its old record up
  again: the manifest lists a file that is gone (`ListedFilesExist` fails; the
  carves of the instance nest inside a range).
  `--resume` after a finished scan folds in whatever manifest is there, also
  that of another image; a report that cannot be written ends the run after
  the state file was removed and before the manifest is there.
- Undelete, all: a deleted file whose clusters belong to another file now is
  reported as validated if they can be read, so `ValidatedIsRight` is asked of
  data that is still there. A recovered file is in the way of a directory of
  the same name, and what is below it is left out without a word (`expected`
  is empty on such volumes). Beyond `MaxDepth` parents the paths depend on the
  order of a hash map; the paths of the instances are shorter.
- NTFS: a record that lies across two runs of the table shifts the numbers of
  those after it; extension records are joined in the order in which the
  attribute list has them, whatever their position in the file.
- FAT: a directory that two entries lead to reports its files twice (`up` is
  never 3), which is why `ReportedOnce` is no theorem of FAT.
- ext: `walk_extents` puts extents one after the other, whatever logical block
  they begin at.
- HFS+: of a record that is met with three sizes under one path, the second and the
  third are both named by its number (hfs.rs:562), so the third replaces the file of
  the second and the manifest lists both. `NothingOverwritten` lets a later version
  of the same record take its place, and nothing else; in the other modes the number
  in a name tells all files apart.
- HFS+: what the sweep finds in a dropped node counts as a live file when the
  node's own array lists it (swept records of the instance are not listed).
- APFS: the extents of two versions of one file are joined (the instance has
  one version of each).
- HFS+ and APFS: the sweep goes on past the end of the volume, by less than 8 MiB, and
  takes what lies there for the volume's own (`SweepEnd`; hfs.rs:360-384,
  apfs.rs:507-519), although README.md:283 says of APFS that every object found is a
  record of some past state of the container. Three things follow. A file that is found
  there is reported, in HFS+ with data read from this volume. A sound APFS leaf with an
  extent of the same id and logical address replaces the one of this container, and the
  file is reported as validated with data that was never its own: with
  `ApfsExtent(17, 0, 9, 2)` in leaf 513 of `ApfsVolume`, `ValidatedIsRight` fails. A name
  of a parent that is gone lengthens a path (`log` becomes `X/log`): with folder 77 in
  node 413 of `HfsVolume`, `FoundInPlace` fails. The neighbours in `undelete` have
  neither: their ids are others than those of the volume, and of its records they have
  only what the sweep must pass over. `FoundInPlace` asks what is lost or displaced,
  not what is found beyond.
- All file systems: a file whose own name is that of a numbered one (`f_mft7`)
  could be taken for it; numbers are kept apart from names here.
- Partitions: a GPT whose entries are cut off between the name and the end of
  an entry makes the parser panic; of volumes that are equally large `locate`
  takes the first and `largest_matching` the last, which is why `VolumeTaken`
  asks for a largest one.
- Unallocated: a FAT that cannot be read to its end, or a bitmap of ext that is
  short, leaves the open run open up to the end of the volume. In exFAT, a file
  without a chain has zeros in the table and counts as free.

## 5. What is proved

`ScanPoolProofs` proves, for any finite set of workers, any work list, any
number of candidates and any limit: type correctness, `OneOwner`,
`CheckpointedIsScanned`, `WholeFilesCollected`, `OvershootBounded`, that the
pool implements the ledger (`KeepsLedger`), and, where no write fails,
`CheckpointedIsStreamed`, `NothingUnaccounted` and `AllRangesUnlessStopped`. None of these is inductive alone. The strengthening
says, for each place a worker can be in, what is known there: a range that has
been taken is below the index and has one owner; a worker that is past the
budget test with a range to report has scanned it, even if the budget is spent
afterwards; the records of a range are those of its complete files until they
join the worker's own; the holder of the mutex is the one worker between
`stream` and `complete`. `OvershootBounded` needs a count: what has been
charged beyond the limit came from carves begun before it was reached, at most
one per worker. `NothingUnaccounted` needs to know of every file who has its
record (`Held`) or is writing it, and `AllRangesUnlessStopped` of every range
below the index whose hands it is in; that the budget is never given back
(`ExhaustedStays`) carries the latter past a worker that leaves early.

`ContainmentProofs` proves, for any list of carves: `KeepsTheUncontained`,
`DroppedIsInKept`, `FilesAreRecorded` and, where there is more than one job,
`OriginIsKept`. The code keeps one number, `covered`. The invariant says
what it stands for: it is the end of a kept validated record at or before the
place the loop has come to, and no less than the end of any validated record
before that place. The second half is what needs the argument: a validated
record that was dropped lay inside what was covered already. For the files,
`FilesFollow` says at each place of either loop which files are left, and
`Origins` that the first record of a digest has been passed when it becomes an
origin, so no later turn of the loop marks it and takes its file away. With one
job and `--no-skip` that is false (section 4), hence the condition.

`CheckpointProofs` proves, for any images, type sets, sizes, chunk sizes, numbers of
jobs and attempts, and with writes that may be cut short anywhere: `Canonical`
and `PlanIsExact` without a condition; `ResumedSkipsOwn` and, where every
attempt resumes (`OneScan`), `FinishedIsWhole` and `FileTracksMemory`. Three facts
about data carry it. `MergeKeeps`: `merge` puts the ranges in order and apart and
covers what they covered, also when a torn line has given it a range that ends
before it starts, which is why the invariant on `done` cannot ask that ranges be
proper. `RemainingIsTheRest`: the gaps are the complement. `PlanIsTheRest`: the
pieces of the gaps are disjoint, not empty, and are all of them; the last piece of
a gap is the argument, since a target need not divide it. For `ResumedSkipsOwn` the
invariant (`OwnInv`) speaks of the lines: whatever a line, whole or cut, reads as,
is a part of what the owner of the file has scanned, and the owner is the
fingerprint the file reads as, unless it is one nobody has. A line continued after a
torn one belongs to nobody, a range cut in its second number is part of the range.
`FileTracksMemory` needs in addition that where nothing is cut short the lines are
exactly the fingerprint and the completed ranges (`FileInv`).

`SessionProofs` proves `AccountedSomewhere` for any images, ranges, carves and
number of attempts, as long as no run is started afresh over a state file (the
finding `checkpoint_wrong_image` is what happens then). The strengthening is that
all carves of a range in the state file are in `carved.jsonl`, that the range being
recorded has its carves there once it is no longer to do, and that the state file of
a scan that is under way is its own.

The other three theorems are about the manifest: `ListedFilesExist`,
`SameAsSinglePass` (`ResumedIsSinglePass`, of one source) and `DiskIsListed` (of
one image). They have the condition `Local`: no carve lies inside one of another
range or has its content. Without it they are false, since a scan compares only what it
carved in one attempt (section 4); the instance satisfies it, and TLC evaluates that.
What a pass drops is then a matter of one range (`Top`, `Closed`), and the
invariants say of each range whose it is: in the records of this attempt, or in the
manifest as `Settled` would have it, or still to do.

`MediaProofs` proves that `Readers` implements `Media` (`ReadersReadTheMedia`): for any
image of any of the six kinds, of any size, cut in any way into segments,
clusters, grains, chunks or sectors, with any cache size, and for any sequence of
reads at any offset and length, an answer is the slice of the media that was
asked for, or the start of it where the image is damaged. It assumes of an image
that it holds its media (`FormatsAssumption`), and that segments of a split image
can be read (`SplitsAreWhole`): where they cannot, the property fails, which is
the finding `media_broken_split`. The invariant is that `out` is the part of the
media from the offset of the call to `pos`, and that a cached chunk is what
decoding it gives. Each reader then has to show of one turn of its loop that the
bytes it adds are the next ones (`Gives`): of a split image, that the segment the
loop is in is the one that holds `pos` (`SegmentInv`), which is what an unreadable
byte breaks; of a BitLocker volume, that the sectors of the relocated header and
those after it join without a gap.

It proves of `Window` that every fetch and every search answers rightly
(`WindowAnswersRightly`): for any block size and cache size, for any sequence of
jobs of which each may run into blocks that others have put into the cache or that
were evicted under it, a fetch is the slice asked for, `find` gives the first place
in its range where the needle is and `find_last` the last. The invariant has the
cache (a block kept is the slice of its source at its place), the block on its way
(the call and its answer are those of the block the job waits for, since one client
has the reader), what `read` has put together so far, and what the loop of a search
has ruled out: no place before the turn it has come to, or none behind it. That
consecutive turns overlap by the length of the needle less one is what carries this
over a turn.

It proves of `Grep` that it finds what it should (`GrepFindsAll`): for any chunks, any
overlap and any patterns it has room for (`PatternsFit`), keywords or regular
expressions, every hit is where its pattern is, the hits come in the order of the
image, no more of them than were asked for, and a search of an undamaged image that
comes to its end has a hit at or across every place in its range. `find_iter` gives
of the matches that overlap only one, so the invariant cannot say that each place
before the position of the loop has been reported. It says (`Complete`) that each has been
reported, or is `Deferred`: another keyword that ends no later begins at this
position or behind it, where the next chunk finds it or defers it in turn. At the end of the
range nothing is left that could begin there and end no later, which is where the
exception for keywords across the end comes from. What one buffer gives (`FoundIsAll`)
is proved of the loop of `FindAll` byte by byte.

`CarverProofs` proves, for any headers in an image of any size, chunks of any size
and any division into ranges: `HeadersAreTried` and `SweepIsOnePass`. The first has
the condition `Regular`, the second `Nested` as well and that carves are skipped
(section 4 has what happens otherwise). The invariant `SweepInv` gives every header
one of two places: it lies ahead (`Ahead`: behind the end of what was searched, or
among the hits of the chunk), or it has been dealt with (`Handled`: tried, not
aligned, or passed over for a carve of the same range). `NextInv` says what the one
number `next_allowed` stands for, the end of the last validated carve and no less
than that of any of the range, which is what needs that carves of a range do not
reach into each other (`ApartInv`). That a chunk's own hits are all the magics that
begin in it, also those that end in the overlap, is `FindIterIs`. At the end the
records are compared with those of one pass. What the pass carves the sweep has
carved: take the first header where that fails. The carve of its range that shadowed
it is then none of the pass, which skipped it for a carve of an earlier range; the two
nest, so the pass would have skipped the header as well. What the sweep carves besides
begins in a validated carve of the pass of an earlier range (`BesidesIsInside`), hence
ends in it, and the containment filter takes it out; it takes out nothing else, as no
carve of a pass lies inside another.

`UndeleteProofs` is about the five file systems, partitions and allocation maps.

`ExtIsKept`, `ApfsIsKept`, `HfsIsKept`, `NtfsIsKept` and `FatIsKept`: for any volume,
however damaged, `NothingOverwritten`, and but for FAT `ReportedOnce`. `FreeName` looks
only once: where the path is taken it adds the number of the record and does not look
again. So the theorem stands on the paths that are there already, not on the test. The invariant
(`Kept`) says of every path among the files whose it is: a path with a number belongs
to the one record that has it, and what is there is the data of the last
file reported with that path (`Follows`). A name that `FreeName` gives is then free, or is
that of the same record (`NameIsFree`). That the paths of `build_paths` are sequences
of names, however the parents lead back, is `WalkInv`, which rests on what one climb
returns. From there each mode has to show that it never comes back to what it
reported: ext goes through the inodes upward; APFS strikes an id from its list;
HFS+ has what it took up in `taken`; NTFS reads the numbers upward, also where the runs of
the table lead back (`IsBehind`), and the streams of one record have different names, also
after those of its extension records were joined to them (`StreamsAre`), which is the
longest part. Of an NTFS volume `NtfsSpec` assumes that its fields have their types
(`IsNtfs`); nothing is assumed of where they lead. TLC evaluates it on every volume of
the run (`NtfsVolumesAssumption`).

`AllPartitionsFound` and `VolumeIsRight`: for any disk (`IsDisk`: the entries of its
tables are numbers), `PartitionsFound` and `VolumeTaken`. What a chain of boot records
leads to is stated as the least set that has the first and the next of each of its own
(`Holds`), and what `parse_ebr` does as a loop with a set of sectors it has been to.
The invariant joins the two (`ChainReached`): every set that holds the chain has all
of the records it has been to, and they with the next one are such a set themselves, so
when the walk stops they are the least. The list has each of them once (`BeenTo`).
The limit of the loop is where the condition comes from: a chain with more than
`MaxLogical` partitions is not followed to its end. `VolumeTaken` says that the
whole image is taken where that is what the mode looks for (`WholeImage`), and a largest
partition where it is not. For it the
invariant says where `chosen` comes from and, of the sweep, that every volume before
`at` was tried.

`CarvedForEveryMap` and `ApartForEveryMap`, for any allocation map of any length in any
number of groups, of which any may be cut short or missing: every
cluster that is free in as much of the map as can be read is carved, and
the ranges are in order, further apart than what is read
along, and clear of every larger group without a bitmap. Both speak of the end, so
the strengthening says what holds on the way: the runs that were closed lie in
order and behind the walk (`RunsInOrder`, `Behind`); a free cluster is ahead of the
walk, in the open run, in a closed one, in a range, or past the volume
(`Accounted`); no run has a missing group in it (`RunsSpare`). The argument that
a join does not swallow a missing group is the last of these with the length of
the gap: a group longer than `MergeGap` that lay between two ranges would have
kept them apart.

`Induction` proves, from the library's facts about well-founded relations (`WFMin`,
`NatLessThanWellFounded`), that a set of numbers that is not empty has a least
element (`LeastElement`), from it induction over a set given as data
(`ForAllNat`) and that the recursive function a loop is written as exists and
satisfies its recursion (`LoopExists`). The library's theorems for this take an
operator as a parameter, which no installed back end can instantiate; these take a
set or a function, so they can be cited. That is why the loops of the modules that
are proved about (`Merge`, `Remaining`, `Parsed`, `Base`, `FindIter`, `FindAll`, `OnePass`, `Climb`,
`Picked`) are recursive functions and not folds or `SelectSeq`, and why `merge` sorts by counting the places (`Place`): `SortSeq` is
opaque to the provers.

The proofs assume only the named `ASSUME`s of the modules they are about, which TLC
evaluates in the runs.

Only model-checked: `ScanEnds`, `CallsReturn`, `WalksEnd` and `UndeleteEnds` (liveness
is beyond the prover, and the last is a bound on steps of the instance), and
`EndsAreTrue`, `ValidatedIsRight` and `FoundInPlace`. These three compare what
the code makes of a document or a volume with the truth that was given with it. A volume
is made from its truth in `MCUndelete`, a document in `MCDocuments`, so there is no
assumption on either from which the properties would follow for all of them.

## 6. What is not modelled

- The bytes of files. A carve is a size and a verdict, a digest is a value.
  Hashing, entropy, previews and names are left out.
- Of a handler, the choice of the extension and the checks of fields that decide
  nothing but whether this is such a file (`sound` stands for them); what inflates
  is said of a GZIP member, not computed. Limits that only files of a megabyte and
  more come up against are left out where they do not decide an end.
  `--zip-partial` is modelled and FALSE in the instance: what it keeps is a
  fragment by intention. Of the prechecks, only how far they look back, and of
  custom signatures not the parser of the rule file.
- The `halt` flag of `OutputBudget` (`--min-free`): nothing calls it.
- Progress output, and the options that only select what is shown.
- How a container is opened (its header and tables), the spooling of standard
  input (which is then a raw source), the ciphers of BitLocker and how its keys
  are found.
- What a regular expression matches: it stands for one string.
- The fields of partition entries and of file system structures: a structure is
  what its parser returns. Compression and encryption of NTFS streams only decide
  whether a stream is refused (`coded`).
- `$UsnJrnl` of NTFS: `extract` and `deletion_events`.
- `--min-size` and `--only-path` of the undelete modes, which leave files out.
- Validation of carves, artifacts, reports and manifest verification: pure
  functions of one file, and formatting.
- Memory ordering of the relaxed atomics: the flag and the counter of
  `OutputBudget` only grow, so a late view of them is an earlier one, and
  the model's interleavings contain a worker that has not looked yet.
