------------------------------ MODULE ScanPool ------------------------------
(***************************************************************************)
(* The worker pool of a scan: run_ranges in src/src/carver.rs, with the    *)
(* OutputBudget its workers share and the callback main.rs hands it.       *)
(*                                                                         *)
(* A set of long-lived workers takes byte ranges off a queue (an atomic    *)
(* index), carves each range, and reports a range that was scanned to its  *)
(* end through a callback under a mutex.  The callback appends the range's *)
(* records to carved.jsonl and then the range to the checkpoint file.  A   *)
(* range is its index; a candidate header of range i is <<i, k>>, and so   *)
(* are the record and the output file it may become.                       *)
(*                                                                         *)
(* The process may be killed between any two steps.  What is on disk then  *)
(* (disk, stream, done) is all that is left.                               *)
(***************************************************************************)
EXTENDS Integers, FiniteSets

CONSTANTS
  Workers,      \* the scan threads (opts.jobs of them)
  NumRanges,    \* length of the work list
  Hits,         \* Hits[i]: candidate headers in range i
  MaxCarve,     \* no carve is larger than this
  Limit,        \* --max-output; 0 is no limit
  Unreadable,   \* ranges in which a read of the source comes back empty
  WritesFail,   \* may a write fail (a full disk)?
  Nobody        \* the mutex is free

RangeIds == 0..(NumRanges - 1)

ASSUME WorkersAssumption   == IsFiniteSet(Workers) /\ Workers # {} /\ Nobody \notin Workers
ASSUME NumRangesAssumption == NumRanges \in Nat
ASSUME HitsAssumption      == Hits \in [RangeIds -> Nat]
ASSUME SizeAssumption      == MaxCarve \in Nat \ {0} /\ Limit \in Nat
ASSUME FaultAssumption     == Unreadable \subseteq RangeIds /\ WritesFail \in BOOLEAN

Candidates == UNION {{i} \X (0..(Hits[i] - 1)) : i \in RangeIds}

VARIABLES
  alive,      \* the process has not been killed
  next,       \* AtomicU64 next: the index of the next range to hand out
  written,    \* OutputBudget.written
  stop,       \* OutputBudget.stop
  pc,         \* pc[w]: where worker w is
  cur,        \* cur[w]: the range w took last
  size,       \* size[w]: length of the carve w is writing
  recs,       \* recs[w]: records of the range w is in
  mine,       \* mine[w]: records of the ranges w has finished with
  collected,  \* records handed back by workers that left
  lock,       \* holder of the on_range_done mutex
  tried,      \* tried[i]: candidates of range i dealt with so far
  disk,       \* disk[c]: the output file of candidate c
  stream,     \* records in carved.jsonl
  done        \* ranges in the checkpoint file

budget  == <<written, stop>>
durable == <<disk, stream, done>>
vars == <<alive, next, written, stop, pc, cur, size, recs, mine, collected,
          lock, tried, disk, stream, done>>

Labels == {"loop", "fetch", "sweep", "carve", "ranged", "report", "stream",
           "complete", "collect", "exit"}

TypeOK ==
  /\ alive \in BOOLEAN
  /\ next \in Nat
  /\ written \in Nat
  /\ stop \in BOOLEAN
  /\ pc \in [Workers -> Labels]
  /\ cur \in [Workers -> Int]
  /\ size \in [Workers -> 0..MaxCarve]
  /\ recs \in [Workers -> SUBSET Candidates]
  /\ mine \in [Workers -> SUBSET Candidates]
  /\ collected \subseteq Candidates
  /\ lock \in Workers \cup {Nobody}
  /\ tried \in [RangeIds -> Nat]
  /\ disk \in [Candidates -> {"none", "partial", "whole"}]
  /\ stream \subseteq Candidates
  /\ done \subseteq RangeIds

Init ==
  /\ alive = TRUE
  /\ next = 0
  /\ written = 0
  /\ stop = FALSE
  /\ pc = [w \in Workers |-> "loop"]
  /\ cur = [w \in Workers |-> -1]
  /\ size = [w \in Workers |-> 0]
  /\ recs = [w \in Workers |-> {}]
  /\ mine = [w \in Workers |-> {}]
  /\ collected = {}
  /\ lock = Nobody
  /\ tried = [i \in RangeIds |-> 0]
  /\ disk = [c \in Candidates |-> "none"]
  /\ stream = {}
  /\ done = {}

-----------------------------------------------------------------------------
(* OutputBudget.exhausted: true once the limit is reached, and remembered. *)
(* The flag only caches a comparison that stays true, since written never  *)
(* decreases, so its load, compare and store are one step here.            *)
ExhaustedSlip == stop

Exhausted == stop \/ (Limit > 0 /\ written >= Limit)

CheckBudget == stop' = Exhausted /\ UNCHANGED written

Goto(w, from, to) == pc[w] = from /\ pc' = [pc EXCEPT ![w] = to]

(* A definition whose name ends in Slip is its neighbour with one plausible*)
(* mistake in it.  No specification uses one; each is what some property   *)
(* has to catch.                                                           *)

-----------------------------------------------------------------------------
(* The worker's loop. *)

(* budget.exhausted() before a range is taken. *)
LoopTop(w) ==
  /\ Goto(w, "loop", IF Exhausted THEN "collect" ELSE "fetch")
  /\ CheckBudget
  /\ UNCHANGED <<alive, next, cur, size, recs, mine, collected, lock, tried, durable>>

(* The work list read past its end is the worker's sign to leave. *)
MoreRangesSlip == next < NumRanges - 1

MoreRanges == next < NumRanges

AdvanceSlip == next' \in {next, next + 1}

Advance == next' = next + 1

(* next.fetch_add(1), ranges.get(i), and a new Carver for the range. *)
TakeRange(w) ==
  /\ Goto(w, "fetch", IF MoreRanges THEN "sweep" ELSE "collect")
  /\ Advance
  /\ cur' = IF MoreRanges THEN [cur EXCEPT ![w] = next] ELSE cur
  /\ recs' = [recs EXCEPT ![w] = {}]
  /\ UNCHANGED <<alive, budget, size, mine, collected, lock, tried, durable>>

(* Carver::run leaves its loops because the budget ran out. *)
StopSweep(w) ==
  /\ Goto(w, "sweep", "ranged")
  /\ Exhausted
  /\ CheckBudget
  /\ UNCHANGED <<alive, next, cur, size, recs, mine, collected, lock, tried, durable>>

(* Carver::run leaves its loop because a read at pos came back empty. *)
ShortRead(w) ==
  /\ Goto(w, "sweep", "ranged")
  /\ ~Exhausted
  /\ cur[w] \in Unreadable
  /\ CheckBudget
  /\ UNCHANGED <<alive, next, cur, size, recs, mine, collected, lock, tried, durable>>

(* Carver::run reaches the end of the range. *)
EndSweep(w) ==
  /\ Goto(w, "sweep", "ranged")
  /\ ~Exhausted
  /\ tried[cur[w]] = Hits[cur[w]]
  /\ CheckBudget
  /\ UNCHANGED <<alive, next, cur, size, recs, mine, collected, lock, tried, durable>>

Candidate(w) == <<cur[w], tried[cur[w]]>>

NextCandidate(w) == tried' = [tried EXCEPT ![cur[w]] = @ + 1]

(* try_carve returns None before anything is written: the handler refused  *)
(* the candidate, or the size checks did.                                  *)
Reject(w) ==
  /\ Goto(w, "sweep", "sweep")
  /\ ~Exhausted
  /\ tried[cur[w]] < Hits[cur[w]]
  /\ CheckBudget
  /\ NextCandidate(w)
  /\ UNCHANGED <<alive, next, cur, size, recs, mine, collected, lock, durable>>

(* What passes the size checks before a carve is written. *)
CarveSizesSlip == 1..(MaxCarve + 1)

CarveSizes == 1..MaxCarve

(* try_carve creates the output file and starts copying into it. *)
BeginCarve(w) ==
  /\ Goto(w, "sweep", "carve")
  /\ ~Exhausted
  /\ tried[cur[w]] < Hits[cur[w]]
  /\ CheckBudget
  /\ \E n \in CarveSizes : size' = [size EXCEPT ![w] = n]
  /\ disk' = [disk EXCEPT ![Candidate(w)] = "partial"]
  /\ UNCHANGED <<alive, next, cur, recs, mine, collected, lock, tried, stream, done>>

(* The copy is complete: charge the budget and keep the record.  The       *)
(* result of the final flush is ignored, so on a full disk the record may  *)
(* stand for a file that is short.                                         *)
FinishCarve(w) ==
  /\ Goto(w, "carve", "sweep")
  /\ written' = written + size[w]
  /\ \E f \in IF WritesFail THEN {"whole", "partial"} ELSE {"whole"} :
        disk' = [disk EXCEPT ![Candidate(w)] = f]
  /\ recs' = [recs EXCEPT ![w] = @ \cup {Candidate(w)}]
  /\ size' = [size EXCEPT ![w] = 0]
  /\ NextCandidate(w)
  /\ UNCHANGED <<alive, next, stop, cur, mine, collected, lock, stream, done>>

(* write_all fails: try_carve returns None and leaves the file behind. *)
FailCarve(w) ==
  /\ WritesFail
  /\ Goto(w, "carve", "sweep")
  /\ size' = [size EXCEPT ![w] = 0]
  /\ NextCandidate(w)
  /\ UNCHANGED <<alive, next, budget, cur, recs, mine, collected, lock, durable>>

Keep(w) == mine' = [mine EXCEPT ![w] = @ \cup recs[w]]

(* After Carver::run, the budget is spent: the range may have been cut     *)
(* short, so it is not reported, but its records are kept.                 *)
WithholdSlip(w) ==
  /\ Goto(w, "ranged", "loop")
  /\ Exhausted
  /\ CheckBudget
  /\ UNCHANGED <<alive, next, cur, size, recs, mine, collected, lock, tried, durable>>

Withhold(w) ==
  /\ Goto(w, "ranged", "loop")
  /\ Exhausted
  /\ CheckBudget
  /\ Keep(w)
  /\ UNCHANGED <<alive, next, cur, size, recs, collected, lock, tried, durable>>

(* After Carver::run, the budget holds: the worker is going to report the  *)
(* range, even if another worker spends the budget while it waits its turn.*)
ReportSlip(w) ==
  /\ Goto(w, "ranged", "report")
  /\ CheckBudget
  /\ UNCHANGED <<alive, next, cur, size, recs, mine, collected, lock, tried, durable>>

Report(w) ==
  /\ Goto(w, "ranged", "report")
  /\ ~Exhausted
  /\ CheckBudget
  /\ UNCHANGED <<alive, next, cur, size, recs, mine, collected, lock, tried, durable>>

(* on_range_done.lock(): the callback runs in one worker at a time. *)
EnterCallbackSlip(w) ==
  /\ Goto(w, "report", "stream")
  /\ lock' = w
  /\ UNCHANGED <<alive, next, budget, cur, size, recs, mine, collected, tried, durable>>

EnterCallback(w) ==
  /\ Goto(w, "report", "stream")
  /\ lock = Nobody
  /\ lock' = w
  /\ UNCHANGED <<alive, next, budget, cur, size, recs, mine, collected, tried, durable>>

(* The callback, first half: stream_records.  A failed write is ignored, so *)
(* any part of the records may be missing.                                 *)
StreamRecordsSlip(w) ==
  /\ Goto(w, "stream", "complete")
  /\ done' = done \cup {cur[w]}
  /\ UNCHANGED <<alive, next, budget, cur, size, recs, mine, collected, lock,
                 tried, disk, stream>>

StreamRecords(w) ==
  /\ Goto(w, "stream", "complete")
  /\ \E lines \in IF WritesFail THEN SUBSET recs[w] ELSE {recs[w]} :
       stream' = stream \cup lines
  /\ UNCHANGED <<alive, next, budget, cur, size, recs, mine, collected, lock,
                 tried, disk, done>>

ReleaseSlip == UNCHANGED lock

Release == lock' = Nobody

(* The callback, second half: state.complete, whose failed write is        *)
(* ignored too; then the mutex is released and the records join the        *)
(* worker's own.                                                           *)
CompleteRange(w) ==
  /\ Goto(w, "complete", "loop")
  /\ done' \in IF WritesFail THEN {done, done \cup {cur[w]}} ELSE {done \cup {cur[w]}}
  /\ Release
  /\ Keep(w)
  /\ UNCHANGED <<alive, next, budget, cur, size, recs, collected, tried, disk, stream>>

(* collected.lock(), all.extend(mine). *)
Collect(w) ==
  /\ Goto(w, "collect", "exit")
  /\ collected' = collected \cup mine[w]
  /\ UNCHANGED <<alive, next, budget, cur, size, recs, mine, lock, tried, durable>>

(* The process is killed: nothing in memory survives. *)
Kill ==
  /\ alive
  /\ alive' = FALSE
  /\ UNCHANGED <<next, budget, pc, cur, size, recs, mine, collected, lock,
                 tried, durable>>

Step(w) ==
  \/ LoopTop(w)     \/ TakeRange(w)     \/ StopSweep(w)  \/ ShortRead(w)
  \/ EndSweep(w)    \/ Reject(w)        \/ BeginCarve(w) \/ FinishCarve(w)
  \/ FailCarve(w)   \/ Withhold(w)      \/ Report(w)     \/ EnterCallback(w)
  \/ StreamRecords(w) \/ CompleteRange(w) \/ Collect(w)

Joined == \A w \in Workers : pc[w] = "exit"

Next == Kill \/ (alive /\ \E w \in Workers : Step(w))

(* Threads are scheduled by the operating system: one that can take a step *)
(* takes one.  Nothing obliges the process to be killed.                   *)
Fairness == \A w \in Workers : WF_vars(alive /\ Step(w))

Spec     == Init /\ [][Next]_vars
FairSpec == Spec /\ Fairness
-----------------------------------------------------------------------------
(* Properties. *)

(* No two workers ever hold the same range: the shared index hands each    *)
(* one out once (carver.rs:605).                                           *)
OneOwner ==
  \A v, w \in Workers : v # w /\ cur[v] # -1 => cur[v] # cur[w]

(* A range in the checkpoint file was scanned to its end, however the      *)
(* budget ran out in other workers meanwhile; the one exception the code   *)
(* makes is a range whose source stopped answering (carver.rs:292, 621).   *)
CheckpointedIsScanned ==
  \A i \in done : tried[i] = Hits[i] \/ i \in Unreadable

(* A complete file of a checkpointed range has its line in carved.jsonl,   *)
(* in every state a kill can leave behind: "Each record is written here as *)
(* its range completes, flushed, so the answer survives a kill -9"         *)
(* (main.rs:2237).                                                         *)
CheckpointedIsStreamed ==
  \A c \in Candidates : c[1] \in done /\ disk[c] = "whole" => c \in stream

(* --max-output is a "hard ceiling on carved bytes" (README.md:647) only   *)
(* up to the carves in progress when it is met: each worker can be in the  *)
(* middle of one, so the output passes it by less than one carve each.     *)
OvershootBounded ==
  Limit > 0 => written < Limit + Cardinality(Workers) * MaxCarve

(* "The manifest still describes everything written" (README.md:648): once *)
(* every worker has left, each output file, whole or not, has a record.    *)
NothingUnaccounted ==
  Joined => \A c \in Candidates : disk[c] # "none" => c \in collected

(* The same for complete files only, which holds on a failing disk too:    *)
(* the records of a range the budget cut short are kept, although the      *)
(* range is not checkpointed (carver.rs:630).                              *)
WholeFilesCollected ==
  Joined => \A c \in Candidates : disk[c] = "whole" => c \in collected

(* Unless the budget stopped the scan, no range is left out of the         *)
(* checkpoint when the workers leave the queue (carver.rs:606).            *)
AllRangesUnlessStopped == Joined /\ ~Exhausted => done = RangeIds

(* The scan ends: neither the budget nor the mutex leaves a worker waiting *)
(* for ever.                                                               *)
ScanEnds == <>(Joined \/ ~alive)

(* The pool implements the ledger. *)
LedgerStatus ==
  [i \in RangeIds |->
     IF i \in done THEN "done"
     ELSE IF \E w \in Workers : pc[w] = "complete" /\ cur[w] = i
       THEN "streamed" ELSE "todo"]

Ledger == INSTANCE ScanLedger WITH Ids <- RangeIds, MayFail <- WritesFail, status <- LedgerStatus

KeepsLedger == Ledger!LedgerSpec
=============================================================================
