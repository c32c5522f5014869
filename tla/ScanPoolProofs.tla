--------------------------- MODULE ScanPoolProofs ---------------------------
(***************************************************************************)
(* Theorems about ScanPool, for any number of workers, ranges, candidates  *)
(* and for any limit.  Inductive is the strengthening they all rest on;    *)
(* its parts say who owns a range, who holds the mutex, how far an owner   *)
(* has got, and where the records of an owned range are.                   *)
(***************************************************************************)
EXTENDS ScanPool, FiniteSetTheorems, TLAPS

(* pc values at which a worker is busy with the range in cur. *)
Active == {"sweep", "carve", "ranged", "report", "stream", "complete"}

(* A range a worker has taken came off the queue and is its own; while the *)
(* worker is busy with it, it is not in the checkpoint file.               *)
Ownership ==
  /\ \A w \in Workers : cur[w] # -1 => cur[w] \in RangeIds /\ cur[w] < next
  /\ \A w \in Workers : pc[w] \in Active => cur[w] # -1 /\ cur[w] \notin done
  /\ \A i \in done : i < next
  /\ OneOwner

(* The mutex is held exactly by the worker inside the callback. *)
Mutex == \A w \in Workers : pc[w] \in {"stream", "complete"} <=> lock = w

Swept(i) == tried[i] = Hits[i] \/ i \in Unreadable

(* A worker past its sweep was stopped by the budget or got to the end of  *)
(* the range, and one about to report it or reporting it got to the end.   *)
Scanned ==
  /\ \A w \in Workers : pc[w] = "carve" => tried[cur[w]] < Hits[cur[w]]
  /\ \A w \in Workers : pc[w] = "ranged" => Exhausted \/ Swept(cur[w])
  /\ \A w \in Workers : pc[w] \in {"report", "stream", "complete"} => Swept(cur[w])
  /\ CheckpointedIsScanned

(* A complete file belongs to a range that was handed out; the owner of    *)
(* the range has its record, and past the first half of the callback so    *)
(* has carved.jsonl.                                                       *)
Recorded ==
  /\ \A c \in Candidates : disk[c] = "whole" => c[1] < next
  /\ \A c \in Candidates : \A w \in Workers :
       disk[c] = "whole" /\ pc[w] \in Active /\ cur[w] = c[1] => c \in recs[w]
  /\ ~WritesFail => \A w \in Workers : pc[w] = "complete" => recs[w] \subseteq stream
  /\ ~WritesFail => CheckpointedIsStreamed

Inductive == TypeOK /\ Ownership /\ Mutex /\ Scanned /\ Recorded

-----------------------------------------------------------------------------
(* Candidates are pairs of a range and the number of a candidate in it.    *)
LEMMA CandidateFacts ==
  /\ \A c \in Candidates : c \in RangeIds \X Nat
  /\ \A i \in RangeIds : \A k \in Nat : k < Hits[i] => <<i, k>> \in Candidates
BY HitsAssumption DEF Candidates, RangeIds

LEMMA RangeFacts == \A i \in RangeIds : i \in Int /\ i # -1 /\ i < NumRanges
BY NumRangesAssumption DEF RangeIds

LEMMA InitInductive == Init => Inductive
<1> SUFFICES ASSUME Init PROVE Inductive
  OBVIOUS
<1> USE RangeFacts, WorkersAssumption, SizeAssumption DEF Init
<1>1. TypeOK
  <2>1. alive \in BOOLEAN /\ next \in Nat /\ written \in Nat /\ stop \in BOOLEAN
    OBVIOUS
  <2>2. pc \in [Workers -> Labels] /\ lock \in Workers \cup {Nobody}
    BY DEF Labels
  <2>3. cur \in [Workers -> Int] /\ size \in [Workers -> 0..MaxCarve]
    OBVIOUS
  <2>4. recs \in [Workers -> SUBSET Candidates] /\ mine \in [Workers -> SUBSET Candidates]
    OBVIOUS
  <2>5. collected \subseteq Candidates /\ stream \subseteq Candidates /\ done \subseteq RangeIds
    OBVIOUS
  <2>6. tried \in [RangeIds -> Nat] /\ disk \in [Candidates -> {"none", "partial", "whole"}]
    OBVIOUS
  <2> QED
    BY <2>1, <2>2, <2>3, <2>4, <2>5, <2>6 DEF TypeOK
<1>2. Ownership
  BY DEF Ownership, OneOwner, Active
<1>3. Mutex
  BY DEF Mutex
<1>4. Scanned
  BY DEF Scanned, CheckpointedIsScanned
<1>5. Recorded
  BY CandidateFacts DEF Recorded, CheckpointedIsStreamed, Active
<1> QED
  BY <1>1, <1>2, <1>3, <1>4, <1>5 DEF Inductive

LEMMA LoopTopInductive ==
  ASSUME Inductive, NEW w \in Workers, LoopTop(w)
  PROVE  Inductive'
<1> USE RangeFacts, WorkersAssumption, SizeAssumption, NumRangesAssumption, HitsAssumption
    DEF Inductive, TypeOK, LoopTop, Goto, CheckBudget, Exhausted, durable
<1>1. TypeOK'
  BY CandidateFacts DEF Labels, Ownership, Active, Scanned
<1>2. Ownership'
  BY DEF Ownership, OneOwner, Active
<1>3. Mutex'
  BY DEF Mutex
<1>4. Scanned'
  BY DEF Scanned, CheckpointedIsScanned, Swept, Ownership, OneOwner, Active
<1>5. Recorded'
  BY CandidateFacts DEF Recorded, CheckpointedIsStreamed, Ownership, OneOwner, Active, Scanned
<1> QED
  BY <1>1, <1>2, <1>3, <1>4, <1>5

LEMMA TakeRangeInductive ==
  ASSUME Inductive, NEW w \in Workers, TakeRange(w)
  PROVE  Inductive'
<1> USE RangeFacts, WorkersAssumption, SizeAssumption, NumRangesAssumption, HitsAssumption
    DEF Inductive, TypeOK, TakeRange, MoreRanges, Advance, Goto, budget, durable
<1>1. TypeOK'
  <2>1. recs' \in [Workers -> SUBSET Candidates]
    OBVIOUS
  <2>2. pc' \in [Workers -> Labels]
    BY DEF Labels
  <2>3. cur' \in [Workers -> Int]
    OBVIOUS
  <2>4. next' \in Nat /\ lock' \in Workers \cup {Nobody}
    OBVIOUS
  <2>5. alive' \in BOOLEAN /\ stop' \in BOOLEAN /\ written' \in Nat
    OBVIOUS
  <2>6. size' \in [Workers -> 0..MaxCarve] /\ mine' \in [Workers -> SUBSET Candidates]
    OBVIOUS
  <2>7. collected' \subseteq Candidates /\ stream' \subseteq Candidates /\ done' \subseteq RangeIds
    OBVIOUS
  <2>8. tried' \in [RangeIds -> Nat] /\ disk' \in [Candidates -> {"none", "partial", "whole"}]
    OBVIOUS
  <2> QED
    BY <2>1, <2>2, <2>3, <2>4, <2>5, <2>6, <2>7, <2>8
<1>2. Ownership'
  <2>1. CASE ~MoreRanges
    BY <2>1 DEF Ownership, OneOwner, Active
  <2>2. CASE MoreRanges
    <3>1. next \in RangeIds /\ next # -1 /\ cur' = [cur EXCEPT ![w] = next]
      BY <2>2 DEF RangeIds
    <3>2. pc' = [pc EXCEPT ![w] = "sweep"] /\ next' = next + 1 /\ UNCHANGED done
      BY <2>2
    <3> QED
      BY <3>1, <3>2 DEF Ownership, OneOwner, Active
  <2> QED
    BY <2>1, <2>2
<1>3. Mutex'
  BY DEF Mutex
<1>4. Scanned'
  BY DEF Scanned, CheckpointedIsScanned, Swept, Ownership, OneOwner, Active, Exhausted
<1>5. Recorded'
  BY CandidateFacts DEF Recorded, CheckpointedIsStreamed, Ownership, OneOwner, Active, Scanned
<1> QED
  BY <1>1, <1>2, <1>3, <1>4, <1>5

LEMMA StopSweepInductive ==
  ASSUME Inductive, NEW w \in Workers, StopSweep(w)
  PROVE  Inductive'
<1> USE RangeFacts, WorkersAssumption, SizeAssumption, NumRangesAssumption, HitsAssumption
    DEF Inductive, TypeOK, StopSweep, Goto, CheckBudget, Exhausted, durable
<1>1. TypeOK'
  BY CandidateFacts DEF Labels, Ownership, Active, Scanned
<1>2. Ownership'
  BY DEF Ownership, OneOwner, Active
<1>3. Mutex'
  BY DEF Mutex
<1>4. Scanned'
  BY DEF Scanned, CheckpointedIsScanned, Swept, Ownership, OneOwner, Active
<1>5. Recorded'
  BY CandidateFacts DEF Recorded, CheckpointedIsStreamed, Ownership, OneOwner, Active, Scanned
<1> QED
  BY <1>1, <1>2, <1>3, <1>4, <1>5

LEMMA ShortReadInductive ==
  ASSUME Inductive, NEW w \in Workers, ShortRead(w)
  PROVE  Inductive'
<1> USE RangeFacts, WorkersAssumption, SizeAssumption, NumRangesAssumption, HitsAssumption
    DEF Inductive, TypeOK, ShortRead, Goto, CheckBudget, Exhausted, durable
<1>1. TypeOK'
  BY CandidateFacts DEF Labels, Ownership, Active, Scanned
<1>2. Ownership'
  BY DEF Ownership, OneOwner, Active
<1>3. Mutex'
  BY DEF Mutex
<1>4. Scanned'
  BY DEF Scanned, CheckpointedIsScanned, Swept, Ownership, OneOwner, Active
<1>5. Recorded'
  BY CandidateFacts DEF Recorded, CheckpointedIsStreamed, Ownership, OneOwner, Active, Scanned
<1> QED
  BY <1>1, <1>2, <1>3, <1>4, <1>5

LEMMA EndSweepInductive ==
  ASSUME Inductive, NEW w \in Workers, EndSweep(w)
  PROVE  Inductive'
<1> USE RangeFacts, WorkersAssumption, SizeAssumption, NumRangesAssumption, HitsAssumption
    DEF Inductive, TypeOK, EndSweep, Goto, CheckBudget, Exhausted, durable
<1>1. TypeOK'
  BY CandidateFacts DEF Labels, Ownership, Active, Scanned
<1>2. Ownership'
  BY DEF Ownership, OneOwner, Active
<1>3. Mutex'
  BY DEF Mutex
<1>4. Scanned'
  BY DEF Scanned, CheckpointedIsScanned, Swept, Ownership, OneOwner, Active
<1>5. Recorded'
  BY CandidateFacts DEF Recorded, CheckpointedIsStreamed, Ownership, OneOwner, Active, Scanned
<1> QED
  BY <1>1, <1>2, <1>3, <1>4, <1>5

LEMMA RejectInductive ==
  ASSUME Inductive, NEW w \in Workers, Reject(w)
  PROVE  Inductive'
<1> USE RangeFacts, WorkersAssumption, SizeAssumption, NumRangesAssumption, HitsAssumption
    DEF Inductive, TypeOK, Reject, Goto, CheckBudget, Exhausted, NextCandidate, durable
<1>1. TypeOK'
  BY CandidateFacts DEF Labels, Ownership, Active, Scanned
<1>2. Ownership'
  BY DEF Ownership, OneOwner, Active
<1>3. Mutex'
  BY DEF Mutex
<1>4. Scanned'
  BY DEF Scanned, CheckpointedIsScanned, Swept, Ownership, OneOwner, Active
<1>5. Recorded'
  BY CandidateFacts DEF Recorded, CheckpointedIsStreamed, Ownership, OneOwner, Active, Scanned
<1> QED
  BY <1>1, <1>2, <1>3, <1>4, <1>5

LEMMA BeginCarveInductive ==
  ASSUME Inductive, NEW w \in Workers, BeginCarve(w)
  PROVE  Inductive'
<1> USE RangeFacts, WorkersAssumption, SizeAssumption, NumRangesAssumption, HitsAssumption
    DEF Inductive, TypeOK, BeginCarve, CarveSizes, Goto, CheckBudget, Exhausted, Candidate, durable
<1>1. TypeOK'
  BY CandidateFacts DEF Labels, Ownership, Active, Scanned
<1>2. Ownership'
  BY DEF Ownership, OneOwner, Active
<1>3. Mutex'
  BY DEF Mutex
<1>4. Scanned'
  BY DEF Scanned, CheckpointedIsScanned, Swept, Ownership, OneOwner, Active
<1>5. Recorded'
  BY CandidateFacts DEF Recorded, CheckpointedIsStreamed, Ownership, OneOwner, Active, Scanned
<1> QED
  BY <1>1, <1>2, <1>3, <1>4, <1>5

LEMMA FinishCarveInductive ==
  ASSUME Inductive, NEW w \in Workers, FinishCarve(w)
  PROVE  Inductive'
<1> USE RangeFacts, WorkersAssumption, SizeAssumption, NumRangesAssumption, HitsAssumption
    DEF Inductive, TypeOK, FinishCarve, Goto, NextCandidate, Candidate, durable
<1>1. TypeOK'
  BY CandidateFacts DEF Labels, Ownership, Active, Scanned
<1>2. Ownership'
  BY DEF Ownership, OneOwner, Active
<1>3. Mutex'
  BY DEF Mutex
<1>4. Scanned'
  BY DEF Scanned, CheckpointedIsScanned, Swept, Ownership, OneOwner, Active, Exhausted
<1>5. Recorded'
  BY CandidateFacts DEF Recorded, CheckpointedIsStreamed, Ownership, OneOwner, Active, Scanned
<1> QED
  BY <1>1, <1>2, <1>3, <1>4, <1>5

LEMMA FailCarveInductive ==
  ASSUME Inductive, NEW w \in Workers, FailCarve(w)
  PROVE  Inductive'
<1> USE RangeFacts, WorkersAssumption, SizeAssumption, NumRangesAssumption, HitsAssumption
    DEF Inductive, TypeOK, FailCarve, Goto, budget, NextCandidate, durable
<1>1. TypeOK'
  BY CandidateFacts DEF Labels, Ownership, Active, Scanned
<1>2. Ownership'
  BY DEF Ownership, OneOwner, Active
<1>3. Mutex'
  BY DEF Mutex
<1>4. Scanned'
  BY DEF Scanned, CheckpointedIsScanned, Swept, Ownership, OneOwner, Active, Exhausted
<1>5. Recorded'
  BY CandidateFacts DEF Recorded, CheckpointedIsStreamed, Ownership, OneOwner, Active, Scanned
<1> QED
  BY <1>1, <1>2, <1>3, <1>4, <1>5

LEMMA WithholdInductive ==
  ASSUME Inductive, NEW w \in Workers, Withhold(w)
  PROVE  Inductive'
<1> USE RangeFacts, WorkersAssumption, SizeAssumption, NumRangesAssumption, HitsAssumption
    DEF Inductive, TypeOK, Withhold, Goto, CheckBudget, Exhausted, Keep, durable
<1>1. TypeOK'
  BY CandidateFacts DEF Labels, Ownership, Active, Scanned
<1>2. Ownership'
  BY DEF Ownership, OneOwner, Active
<1>3. Mutex'
  BY DEF Mutex
<1>4. Scanned'
  BY DEF Scanned, CheckpointedIsScanned, Swept, Ownership, OneOwner, Active
<1>5. Recorded'
  BY CandidateFacts DEF Recorded, CheckpointedIsStreamed, Ownership, OneOwner, Active, Scanned
<1> QED
  BY <1>1, <1>2, <1>3, <1>4, <1>5

LEMMA ReportInductive ==
  ASSUME Inductive, NEW w \in Workers, Report(w)
  PROVE  Inductive'
<1> USE RangeFacts, WorkersAssumption, SizeAssumption, NumRangesAssumption, HitsAssumption
    DEF Inductive, TypeOK, Report, Goto, CheckBudget, Exhausted, durable
<1>1. TypeOK'
  BY CandidateFacts DEF Labels, Ownership, Active, Scanned
<1>2. Ownership'
  BY DEF Ownership, OneOwner, Active
<1>3. Mutex'
  BY DEF Mutex
<1>4. Scanned'
  BY DEF Scanned, CheckpointedIsScanned, Swept, Ownership, OneOwner, Active
<1>5. Recorded'
  BY CandidateFacts DEF Recorded, CheckpointedIsStreamed, Ownership, OneOwner, Active, Scanned
<1> QED
  BY <1>1, <1>2, <1>3, <1>4, <1>5

LEMMA EnterCallbackInductive ==
  ASSUME Inductive, NEW w \in Workers, EnterCallback(w)
  PROVE  Inductive'
<1> USE RangeFacts, WorkersAssumption, SizeAssumption, NumRangesAssumption, HitsAssumption
    DEF Inductive, TypeOK, EnterCallback, Goto, budget, durable
<1>1. TypeOK'
  BY CandidateFacts DEF Labels, Ownership, Active, Scanned
<1>2. Ownership'
  BY DEF Ownership, OneOwner, Active
<1>3. Mutex'
  BY DEF Mutex
<1>4. Scanned'
  BY DEF Scanned, CheckpointedIsScanned, Swept, Ownership, OneOwner, Active, Exhausted
<1>5. Recorded'
  BY CandidateFacts DEF Recorded, CheckpointedIsStreamed, Ownership, OneOwner, Active, Scanned
<1> QED
  BY <1>1, <1>2, <1>3, <1>4, <1>5

LEMMA StreamRecordsInductive ==
  ASSUME Inductive, NEW w \in Workers, StreamRecords(w)
  PROVE  Inductive'
<1> USE RangeFacts, WorkersAssumption, SizeAssumption, NumRangesAssumption, HitsAssumption
    DEF Inductive, TypeOK, StreamRecords, Goto, budget, durable
<1>1. TypeOK'
  BY CandidateFacts DEF Labels, Ownership, Active, Scanned
<1>2. Ownership'
  BY DEF Ownership, OneOwner, Active
<1>3. Mutex'
  BY DEF Mutex
<1>4. Scanned'
  BY DEF Scanned, CheckpointedIsScanned, Swept, Ownership, OneOwner, Active, Exhausted
<1>5. Recorded'
  BY CandidateFacts DEF Recorded, CheckpointedIsStreamed, Ownership, OneOwner, Active, Scanned
<1> QED
  BY <1>1, <1>2, <1>3, <1>4, <1>5

LEMMA CompleteRangeInductive ==
  ASSUME Inductive, NEW w \in Workers, CompleteRange(w)
  PROVE  Inductive'
<1> USE RangeFacts, WorkersAssumption, SizeAssumption, NumRangesAssumption, HitsAssumption
    DEF Inductive, TypeOK, CompleteRange, Release, Keep, Goto, budget, durable
<1>1. TypeOK'
  BY CandidateFacts DEF Labels, Ownership, Active, Scanned
<1>2. Ownership'
  BY DEF Ownership, OneOwner, Active
<1>3. Mutex'
  BY DEF Mutex
<1>4. Scanned'
  BY DEF Scanned, CheckpointedIsScanned, Swept, Ownership, OneOwner, Active, Exhausted
<1>5. Recorded'
  BY CandidateFacts DEF Recorded, CheckpointedIsStreamed, Ownership, OneOwner, Active, Scanned
<1> QED
  BY <1>1, <1>2, <1>3, <1>4, <1>5

LEMMA CollectInductive ==
  ASSUME Inductive, NEW w \in Workers, Collect(w)
  PROVE  Inductive'
<1> USE RangeFacts, WorkersAssumption, SizeAssumption, NumRangesAssumption, HitsAssumption
    DEF Inductive, TypeOK, Collect, Goto, budget, durable
<1>1. TypeOK'
  BY CandidateFacts DEF Labels, Ownership, Active, Scanned
<1>2. Ownership'
  BY DEF Ownership, OneOwner, Active
<1>3. Mutex'
  BY DEF Mutex
<1>4. Scanned'
  BY DEF Scanned, CheckpointedIsScanned, Swept, Ownership, OneOwner, Active, Exhausted
<1>5. Recorded'
  BY CandidateFacts DEF Recorded, CheckpointedIsStreamed, Ownership, OneOwner, Active, Scanned
<1> QED
  BY <1>1, <1>2, <1>3, <1>4, <1>5

LEMMA StutterInductive == Inductive /\ (Kill \/ UNCHANGED vars) => Inductive'
BY DEF Inductive, TypeOK, Ownership, OneOwner, Mutex, Scanned, Swept, Exhausted,
       CheckpointedIsScanned, Recorded, CheckpointedIsStreamed, Kill, vars, budget, durable

LEMMA StepInductive == ASSUME Inductive, NEW w \in Workers, Step(w) PROVE Inductive'
BY LoopTopInductive, TakeRangeInductive, StopSweepInductive, ShortReadInductive,
   EndSweepInductive, RejectInductive, BeginCarveInductive, FinishCarveInductive,
   FailCarveInductive, WithholdInductive, ReportInductive, EnterCallbackInductive,
   StreamRecordsInductive, CompleteRangeInductive, CollectInductive DEF Step

-----------------------------------------------------------------------------
(* Every reachable state satisfies the strengthened invariant. *)
THEOREM InductiveHolds == Spec => []Inductive
<1>1. Inductive /\ [Next]_vars => Inductive'
  BY StutterInductive, StepInductive DEF Next
<1> QED
  BY InitInductive, <1>1, PTL DEF Spec

(* The variables keep their types: in particular a record always stands    *)
(* for a candidate of a range on the work list.                            *)
THEOREM TypeCorrect == Spec => []TypeOK
BY InductiveHolds, PTL DEF Inductive

(* No range is ever carved by two workers. *)
THEOREM RangesHaveOneOwner == Spec => []OneOwner
BY InductiveHolds, PTL DEF Inductive, Ownership

(* Whatever the interleaving of workers, budget and kill, a range in the   *)
(* checkpoint file was scanned to its end or met an unreadable part.       *)
THEOREM CheckpointIsScanned == Spec => []CheckpointedIsScanned
BY InductiveHolds, PTL DEF Inductive, Scanned

(* While writes succeed, wherever the run is killed, a complete file of a  *)
(* checkpointed range has its line in carved.jsonl.                        *)
THEOREM CheckpointIsStreamed == Spec => [](~WritesFail => CheckpointedIsStreamed)
BY InductiveHolds, PTL DEF Inductive, Recorded

-----------------------------------------------------------------------------
(* The pool implements the ledger.  Only the two halves of the callback    *)
(* change the status of a range; the mutex makes them a pair.              *)

InSecondHalf(w) == pc[w] = "complete"

LEMMA OtherStepsKeepStatus ==
  ASSUME Inductive, NEW w \in Workers, Step(w), ~StreamRecords(w), ~CompleteRange(w)
  PROVE  UNCHANGED LedgerStatus
<1>1. UNCHANGED done
  BY DEF Step, LoopTop, TakeRange, StopSweep, ShortRead, EndSweep, Reject, BeginCarve,
         FinishCarve, FailCarve, Withhold, Report, EnterCallback, Collect, durable
<1>2. \A v \in Workers : InSecondHalf(v)' <=> InSecondHalf(v)
  BY DEF Step, LoopTop, TakeRange, StopSweep, ShortRead, EndSweep, Reject, BeginCarve,
         FinishCarve, FailCarve, Withhold, Report, EnterCallback, Collect,
         Goto, InSecondHalf, Inductive, TypeOK
<1>3. \A v \in Workers : InSecondHalf(v) => cur'[v] = cur[v]
  BY DEF Step, LoopTop, TakeRange, StopSweep, ShortRead, EndSweep, Reject, BeginCarve,
         FinishCarve, FailCarve, Withhold, Report, EnterCallback, Collect,
         Goto, InSecondHalf, Inductive, TypeOK
<1> QED
  BY <1>1, <1>2, <1>3 DEF LedgerStatus, InSecondHalf

LEMMA StreamRecordsStreams ==
  ASSUME Inductive, NEW w \in Workers, StreamRecords(w)
  PROVE  Ledger!Stream(cur[w]) /\ cur[w] \in RangeIds
<1> USE DEF Inductive, TypeOK, StreamRecords, Goto
<1>1. cur[w] \in RangeIds /\ cur[w] \notin done
  BY DEF Ownership, Active
<1>2. \A v \in Workers : pc[v] # "complete"
  BY DEF Mutex
<1>3. \A i \in RangeIds : LedgerStatus[i] = IF i \in done THEN "done" ELSE "todo"
  BY <1>2 DEF LedgerStatus
<1>4. \A v \in Workers : pc'[v] = "complete" <=> v = w
  BY <1>2
<1>5. LedgerStatus' = [i \in RangeIds |-> IF i \in done THEN "done"
                                          ELSE IF i = cur[w] THEN "streamed" ELSE "todo"]
  BY <1>4 DEF LedgerStatus
<1>6. LedgerStatus = [i \in RangeIds |-> IF i \in done THEN "done" ELSE "todo"]
  BY <1>2 DEF LedgerStatus
<1>7. LedgerStatus' = [LedgerStatus EXCEPT ![cur[w]] = "streamed"]
  BY <1>1, <1>5, <1>6
<1> QED
  BY <1>1, <1>3, <1>7 DEF Ledger!Stream, Ledger!Settled

LEMMA CompleteRangeCheckpoints ==
  ASSUME Inductive, NEW w \in Workers, CompleteRange(w)
  PROVE  (Ledger!Checkpoint(cur[w]) \/ Ledger!Lose(cur[w])) /\ cur[w] \in RangeIds
<1> USE DEF Inductive, TypeOK, CompleteRange, Goto
<1>1. cur[w] \in RangeIds /\ cur[w] \notin done
  BY DEF Ownership, Active
<1>2. \A v \in Workers : pc[v] = "complete" <=> v = w
  BY DEF Mutex
<1>3. \A v \in Workers : pc'[v] # "complete"
  BY <1>2
<1>4. LedgerStatus = [i \in RangeIds |-> IF i \in done THEN "done"
                                         ELSE IF i = cur[w] THEN "streamed" ELSE "todo"]
  BY <1>2 DEF LedgerStatus
<1>5. LedgerStatus' = [i \in RangeIds |-> IF i \in done' THEN "done" ELSE "todo"]
  BY <1>3 DEF LedgerStatus
<1>6. CASE done' = done \cup {cur[w]}
  <2>1. LedgerStatus' = [LedgerStatus EXCEPT ![cur[w]] = "done"]
    BY <1>1, <1>4, <1>5, <1>6
  <2> QED
    BY <1>1, <1>4, <2>1 DEF Ledger!Checkpoint
<1>7. CASE done' = done /\ WritesFail
  <2>1. LedgerStatus' = [LedgerStatus EXCEPT ![cur[w]] = "todo"]
    BY <1>1, <1>4, <1>5, <1>7
  <2> QED
    BY <1>1, <1>4, <1>7, <2>1 DEF Ledger!Lose
<1> QED
  BY <1>6, <1>7

LEMMA StepKeepsLedger ==
  Inductive /\ [Next]_vars => [Ledger!LedgerNext]_LedgerStatus
<1> SUFFICES ASSUME Inductive, [Next]_vars PROVE [Ledger!LedgerNext]_LedgerStatus
  OBVIOUS
<1>1. CASE Kill \/ UNCHANGED vars
  BY <1>1 DEF Kill, vars, durable, LedgerStatus
<1>2. ASSUME NEW w \in Workers, StreamRecords(w) PROVE Ledger!LedgerNext
  BY <1>2, StreamRecordsStreams DEF Ledger!LedgerNext
<1>3. ASSUME NEW w \in Workers, CompleteRange(w) PROVE Ledger!LedgerNext
  BY <1>3, CompleteRangeCheckpoints DEF Ledger!LedgerNext
<1>4. ASSUME NEW w \in Workers, Step(w), ~StreamRecords(w), ~CompleteRange(w)
      PROVE  UNCHANGED LedgerStatus
  BY <1>4, OtherStepsKeepStatus
<1> QED
  BY <1>1, <1>2, <1>3, <1>4 DEF Next

LEMMA InitKeepsLedger == Init => Ledger!LedgerInit
BY DEF Init, Ledger!LedgerInit, LedgerStatus

(* However the workers interleave, the records of a range are written      *)
(* before the range, and no other range is written between the two.        *)
THEOREM PoolKeepsLedger == Spec => KeepsLedger
<1> QED
  BY InitKeepsLedger, StepKeepsLedger, InductiveHolds, PTL DEF Spec, KeepsLedger, Ledger!LedgerSpec

-----------------------------------------------------------------------------
(* The accounting at the end of a scan.  A complete file is always in the  *)
(* hands of somebody: its record is with the worker that carved it or has  *)
(* been handed back.                                                       *)

Held(c) ==
  \/ c \in collected
  \/ \E w \in Workers : c \in mine[w]
  \/ \E w \in Workers : pc[w] \in Active /\ c \in recs[w]

Handover ==
  /\ \A c \in Candidates : disk[c] = "whole" => Held(c)
  /\ \A w \in Workers : pc[w] = "exit" => mine[w] \subseteq collected

LEMMA InitHandover == Init => Handover
BY DEF Init, Handover

LEMMA StepHandover ==
  ASSUME Inductive, Handover, NEW w \in Workers, Step(w)
  PROVE  Handover'
<1> USE DEF Inductive, TypeOK, Handover, Held, Goto, durable
<1>1. CASE FinishCarve(w)
  <2>1. \A c \in Candidates : disk'[c] = "whole" => disk[c] = "whole" \/ c \in recs'[w]
    BY <1>1 DEF FinishCarve
  <2>2. pc'[w] = "sweep" /\ \A v \in Workers : recs[v] \subseteq recs'[v]
    BY <1>1 DEF FinishCarve
  <2>3. \A v \in Workers : pc[v] \in Active => pc'[v] \in Active
    BY <1>1 DEF FinishCarve, Active
  <2>4. UNCHANGED <<mine, collected>> /\ \A v \in Workers : pc'[v] = "exit" => pc[v] = "exit"
    BY <1>1 DEF FinishCarve
  <2>5. \A c \in Candidates : Held(c) => Held(c)'
    BY <2>2, <2>3, <2>4
  <2>6. \A c \in Candidates : c \in recs'[w] => Held(c)'
    BY <2>2 DEF Active
  <2> HIDE DEF Held
  <2> QED
    BY <2>1, <2>4, <2>5, <2>6
<1>2. CASE Withhold(w) \/ CompleteRange(w)
  <2>1. mine' = [mine EXCEPT ![w] = @ \cup recs[w]] /\ UNCHANGED <<recs, collected, disk>>
    BY <1>2 DEF Withhold, CompleteRange, Keep
  <2>2. \A v \in Workers : v # w => pc'[v] = pc[v]
    BY <1>2 DEF Withhold, CompleteRange
  <2>3. pc'[w] = "loop"
    BY <1>2 DEF Withhold, CompleteRange
  <2> QED
    BY <2>1, <2>2, <2>3
<1>3. CASE Collect(w)
  BY <1>3 DEF Collect, Active
<1>4. CASE TakeRange(w)
  <2>1. UNCHANGED <<mine, collected, disk>> /\ \A v \in Workers : v # w => recs'[v] = recs[v]
    BY <1>4 DEF TakeRange
  <2>2. pc[w] \notin Active /\ pc'[w] # "exit" /\ \A v \in Workers : v # w => pc'[v] = pc[v]
    BY <1>4 DEF TakeRange, Active
  <2> QED
    BY <2>1, <2>2
<1>5. CASE \/ LoopTop(w) \/ StopSweep(w) \/ ShortRead(w) \/ EndSweep(w) \/ Reject(w)
           \/ BeginCarve(w) \/ FailCarve(w) \/ Report(w) \/ EnterCallback(w)
           \/ StreamRecords(w)
  <2>1. UNCHANGED <<mine, collected, recs>>
    BY <1>5 DEF LoopTop, StopSweep, ShortRead, EndSweep, Reject, BeginCarve, FailCarve,
                Report, EnterCallback, StreamRecords
  <2>2. \A c \in Candidates : disk'[c] = "whole" => disk[c] = "whole"
    BY <1>5 DEF LoopTop, StopSweep, ShortRead, EndSweep, Reject, BeginCarve, FailCarve,
                Report, EnterCallback, StreamRecords
  <2>3. \A v \in Workers : /\ pc[v] \in Active => pc'[v] \in Active
                           /\ pc'[v] = "exit" => pc[v] = "exit"
    BY <1>5 DEF LoopTop, StopSweep, ShortRead, EndSweep, Reject, BeginCarve, FailCarve,
                Report, EnterCallback, StreamRecords, Active
  <2> QED
    BY <2>1, <2>2, <2>3
<1> QED
  BY <1>1, <1>2, <1>3, <1>4, <1>5 DEF Step

(* Once every worker has left, no complete file is without its record,     *)
(* even where the budget or a failing disk cut ranges short.               *)
THEOREM WholeFilesAreCollected == Spec => []WholeFilesCollected
<1>1. Inductive /\ Handover /\ [Next]_vars => Handover'
  <2>1. Handover /\ (Kill \/ UNCHANGED vars) => Handover'
    BY DEF Handover, Held, Kill, vars, durable
  <2> QED
    BY <2>1, StepHandover DEF Next
<1>2. Handover => WholeFilesCollected
  BY DEF Handover, Held, WholeFilesCollected, Joined, Active
<1> QED
  BY InitHandover, <1>1, <1>2, InductiveHolds, PTL DEF Spec

-----------------------------------------------------------------------------
(* The overshoot.  A worker starts a carve only below the limit, so what   *)
(* is written together with one largest carve for each worker in the       *)
(* middle of one stays below the limit plus one carve per worker.          *)

Carving == {w \in Workers : pc[w] = "carve"}

Room == Limit > 0 =>
  written + MaxCarve * Cardinality(Carving) < Limit + MaxCarve * Cardinality(Workers)

LEMMA CarvingFacts ==
  /\ IsFiniteSet(Carving) /\ Cardinality(Carving) \in Nat
  /\ Cardinality(Workers) \in Nat /\ Cardinality(Carving) <= Cardinality(Workers)
BY WorkersAssumption, FS_Subset, FS_CardinalityType DEF Carving

LEMMA ProductFacts ==
  ASSUME NEW m \in Nat, NEW a \in Nat, NEW b \in Nat, a <= b
  PROVE  m * a \in Nat /\ m * b \in Nat /\ m * a <= m * b /\ m * (b - 1) = m * b - m
OBVIOUS

LEMMA ChargeFacts ==
  ASSUME NEW old \in Nat, NEW new \in Nat, NEW m \in Nat, NEW before \in Nat,
         NEW bound \in Nat, new <= old + m, old + before < bound
  PROVE  new + (before - m) < bound
OBVIOUS

LEMMA InitRoom == Init /\ TypeOK => Room
<1> SUFFICES ASSUME Init, TypeOK, Limit > 0 PROVE Room
  BY DEF Room
<1>1. MaxCarve * Cardinality(Carving) <= MaxCarve * Cardinality(Workers)
      /\ MaxCarve * Cardinality(Carving) \in Nat /\ MaxCarve * Cardinality(Workers) \in Nat
  BY CarvingFacts, ProductFacts, SizeAssumption
<1> QED
  BY <1>1, SizeAssumption DEF Init, Room

LEMMA StepRoom ==
  ASSUME TypeOK, TypeOK', Room, NEW w \in Workers, Step(w)
  PROVE  Room'
<1> DEFINE Before == MaxCarve * Cardinality(Carving)
           After  == MaxCarve * Cardinality(Carving)'
           All    == MaxCarve * Cardinality(Workers)
<1>1. Cardinality(Carving)' \in Nat /\ Cardinality(Carving)' <= Cardinality(Workers)
  BY WorkersAssumption, FS_Subset, FS_CardinalityType DEF Carving
<1>2. Before \in Nat /\ After \in Nat /\ All \in Nat /\ After <= All
  BY <1>1, CarvingFacts, ProductFacts, SizeAssumption
<1>3. CASE BeginCarve(w)
  <2>1. Limit > 0 => written < Limit
    BY <1>3, SizeAssumption DEF BeginCarve, CarveSizes, Exhausted, TypeOK
  <2>2. written' = written
    BY <1>3 DEF BeginCarve, CheckBudget
  <2> HIDE DEF Before, After, All
  <2>3. Limit > 0 => written' + After < Limit + All
    BY <1>2, <2>1, <2>2, SizeAssumption DEF TypeOK
  <2> QED
    BY <2>3 DEF Room, After, All
<1>4. CASE FinishCarve(w) \/ FailCarve(w)
  <2>1. w \in Carving /\ Carving' = Carving \ {w}
    BY <1>4 DEF FinishCarve, FailCarve, Goto, Carving, TypeOK
  <2>2. Cardinality(Carving)' = Cardinality(Carving) - 1
    BY <2>1, CarvingFacts, FS_RemoveElement
  <2>3. After = Before - MaxCarve
    BY <2>2, CarvingFacts, ProductFacts, SizeAssumption
  <2>4. written' <= written + MaxCarve
    BY <1>4, SizeAssumption DEF FinishCarve, FailCarve, budget, TypeOK
  <2>5. written \in Nat /\ written' \in Nat /\ Limit + All \in Nat /\ MaxCarve \in Nat
    BY <1>2, SizeAssumption DEF TypeOK
  <2>6. ASSUME Limit > 0 PROVE written + Before < Limit + All
    BY <2>6 DEF Room
  <2>7. ASSUME Limit > 0 PROVE written' + (Before - MaxCarve) < Limit + All
    BY <1>2, <2>4, <2>5, <2>6, <2>7, ChargeFacts
  <2> QED
    BY <2>3, <2>7 DEF Room
<1>5. CASE ~BeginCarve(w) /\ ~FinishCarve(w) /\ ~FailCarve(w)
  <2>1. written' = written
    BY <1>5 DEF Step, LoopTop, TakeRange, StopSweep, ShortRead, EndSweep, Reject, Withhold,
                Report, EnterCallback, StreamRecords, CompleteRange, Collect, CheckBudget, budget
  <2>2. \A v \in Workers : pc'[v] = "carve" <=> pc[v] = "carve"
    BY <1>5 DEF Step, LoopTop, TakeRange, StopSweep, ShortRead, EndSweep, Reject, Withhold,
                Report, EnterCallback, StreamRecords, CompleteRange, Collect, Goto, TypeOK
  <2>3. Carving' = Carving
    BY <2>2 DEF Carving
  <2> QED
    BY <2>1, <2>3 DEF Room
<1> QED
  BY <1>3, <1>4, <1>5

(* Output passes --max-output by less than one carve per worker, for any   *)
(* number of workers and any interleaving of their carves.                 *)
THEOREM OvershootIsBounded == Spec => []OvershootBounded
<1>1. TypeOK /\ TypeOK' /\ Room /\ [Next]_vars => Room'
  <2>1. Room /\ (Kill \/ UNCHANGED vars) => Room'
    BY DEF Room, Carving, Kill, vars, budget
  <2> QED
    BY <2>1, StepRoom DEF Next
<1>2. TypeOK /\ Room => OvershootBounded
  <2> SUFFICES ASSUME TypeOK, Room, Limit > 0
               PROVE  written < Limit + Cardinality(Workers) * MaxCarve
    BY DEF OvershootBounded
  <2>1. MaxCarve * Cardinality(Carving) \in Nat /\ MaxCarve * Cardinality(Workers) \in Nat
    BY CarvingFacts, ProductFacts, SizeAssumption
  <2>2. MaxCarve * Cardinality(Workers) = Cardinality(Workers) * MaxCarve
    BY CarvingFacts, SizeAssumption
  <2> QED
    BY <2>1, <2>2, SizeAssumption DEF Room, TypeOK
<1> QED
  BY InitRoom, <1>1, <1>2, TypeCorrect, PTL DEF Spec

-----------------------------------------------------------------------------
(* Where no write fails, also a partial file is accounted for: the worker  *)
(* that writes it is in the middle of that carve.                          *)

Writes(w, c) == pc[w] = "carve" /\ Candidate(w) = c

Accounted ==
  ~WritesFail => \A c \in Candidates : disk[c] # "none" => Held(c) \/ \E w \in Workers : Writes(w, c)

LEMMA StepHeld ==
  ASSUME Inductive, NEW w \in Workers, Step(w), NEW c, Held(c)
  PROVE  Held(c)'
<1> USE DEF Inductive, TypeOK, Held, Goto, durable
<1>1. CASE Withhold(w) \/ CompleteRange(w)
  <2>1. mine' = [mine EXCEPT ![w] = @ \cup recs[w]] /\ UNCHANGED <<recs, collected>>
    BY <1>1 DEF Withhold, CompleteRange, Keep
  <2>2. \A v \in Workers : v # w => pc'[v] = pc[v]
    BY <1>1 DEF Withhold, CompleteRange
  <2> QED
    BY <2>1, <2>2
<1>2. CASE Collect(w)
  BY <1>2 DEF Collect, Active
<1>3. CASE TakeRange(w)
  <2>1. UNCHANGED <<mine, collected>> /\ \A v \in Workers : v # w => recs'[v] = recs[v]
    BY <1>3 DEF TakeRange
  <2>2. pc[w] \notin Active /\ \A v \in Workers : v # w => pc'[v] = pc[v]
    BY <1>3 DEF TakeRange, Active
  <2> QED
    BY <2>1, <2>2
<1>4. CASE \/ LoopTop(w) \/ StopSweep(w) \/ ShortRead(w) \/ EndSweep(w) \/ Reject(w)
           \/ BeginCarve(w) \/ FinishCarve(w) \/ FailCarve(w) \/ Report(w) \/ EnterCallback(w)
           \/ StreamRecords(w)
  <2>1. UNCHANGED <<mine, collected>> /\ \A v \in Workers : recs[v] \subseteq recs'[v]
    BY <1>4 DEF LoopTop, StopSweep, ShortRead, EndSweep, Reject, BeginCarve, FinishCarve,
                FailCarve, Report, EnterCallback, StreamRecords
  <2>2. \A v \in Workers : pc[v] \in Active => pc'[v] \in Active
    BY <1>4 DEF LoopTop, StopSweep, ShortRead, EndSweep, Reject, BeginCarve, FinishCarve,
                FailCarve, Report, EnterCallback, StreamRecords, Active
  <2> QED
    BY <2>1, <2>2
<1> QED
  BY <1>1, <1>2, <1>3, <1>4 DEF Step

(* No other worker's step changes what a worker in a carve is writing.     *)
LEMMA StepWrites ==
  ASSUME Inductive, NEW w \in Workers, Step(w), NEW v \in Workers, v # w, NEW c, Writes(v, c)
  PROVE  Writes(v, c)'
<1> USE DEF Inductive, TypeOK, Goto
<1>1. cur[v] # cur[w] /\ cur[v] \in RangeIds
  BY DEF Writes, Ownership, OneOwner, Active
<1>2. pc'[v] = pc[v]
  BY DEF Step, LoopTop, TakeRange, StopSweep, ShortRead, EndSweep, Reject, BeginCarve,
         FinishCarve, FailCarve, Withhold, Report, EnterCallback, StreamRecords, CompleteRange, Collect
<1>3. cur'[v] = cur[v]
  BY DEF Step, LoopTop, TakeRange, StopSweep, ShortRead, EndSweep, Reject, BeginCarve,
         FinishCarve, FailCarve, Withhold, Report, EnterCallback, StreamRecords, CompleteRange, Collect
<1>4. tried' = tried \/ tried' = [tried EXCEPT ![cur[w]] = @ + 1]
  BY DEF Step, LoopTop, TakeRange, StopSweep, ShortRead, EndSweep, Reject, BeginCarve,
         FinishCarve, FailCarve, Withhold, Report, EnterCallback, StreamRecords, CompleteRange, Collect,
         NextCandidate
<1>5. tried'[cur[v]] = tried[cur[v]]
  BY <1>1, <1>4
<1> QED
  BY <1>2, <1>3, <1>5 DEF Writes, Candidate

LEMMA StepAccounted ==
  ASSUME Inductive, Accounted, NEW w \in Workers, Step(w)
  PROVE  Accounted'
<1> SUFFICES ASSUME ~WritesFail, NEW c \in Candidates, disk'[c] # "none"
             PROVE  Held(c)' \/ \E v \in Workers : Writes(v, c)'
  BY DEF Accounted
<1> USE DEF Inductive, TypeOK, Goto
<1>1. CASE BeginCarve(w) /\ c = Candidate(w)
  BY <1>1 DEF BeginCarve, Writes, Candidate
<1>2. CASE FinishCarve(w) /\ c = Candidate(w)
  <2>1. c \in recs'[w] /\ pc'[w] \in Active
    BY <1>2 DEF FinishCarve, Active
  <2> QED
    BY <2>1 DEF Held
<1>3. CASE ~(BeginCarve(w) \/ FinishCarve(w)) \/ c # Candidate(w)
  <2>1. disk[c] # "none"
    BY <1>3 DEF Step, LoopTop, TakeRange, StopSweep, ShortRead, EndSweep, Reject, BeginCarve,
                FinishCarve, FailCarve, Withhold, Report, EnterCallback, StreamRecords,
                CompleteRange, Collect, durable
  <2>2. CASE Held(c)
    BY <2>2, StepHeld
  <2>3. ASSUME NEW v \in Workers, Writes(v, c), v # w PROVE Writes(v, c)'
    BY <2>3, StepWrites
  <2>4. ~Writes(w, c)
    BY <1>3 DEF Writes, Step, LoopTop, TakeRange, StopSweep, ShortRead, EndSweep, Reject, BeginCarve,
                FinishCarve, FailCarve, Withhold, Report, EnterCallback, StreamRecords,
                CompleteRange, Collect
  <2> QED
    BY <2>1, <2>2, <2>3, <2>4 DEF Accounted
<1> QED
  BY <1>1, <1>2, <1>3

(* On a disk that takes everything, once every worker has left, each       *)
(* output file, whole or not, has a record among those handed back.        *)
THEOREM EverythingIsAccounted == Spec => [](~WritesFail => NothingUnaccounted)
<1>1. Init => Accounted
  BY DEF Init, Accounted
<1>2. Inductive /\ Accounted /\ [Next]_vars => Accounted'
  <2>1. Accounted /\ (Kill \/ UNCHANGED vars) => Accounted'
    BY DEF Accounted, Held, Writes, Candidate, Kill, vars, durable
  <2> QED
    BY <2>1, StepAccounted DEF Next
<1>3. Inductive /\ Handover /\ [Next]_vars => Handover'
  <2>1. Handover /\ (Kill \/ UNCHANGED vars) => Handover'
    BY DEF Handover, Held, Kill, vars, durable
  <2> QED
    BY <2>1, StepHandover DEF Next
<1>4. Accounted /\ Handover => (~WritesFail => NothingUnaccounted)
  BY DEF Accounted, Handover, Held, Writes, NothingUnaccounted, Joined, Active
<1> QED
  BY InitHandover, <1>1, <1>2, <1>3, <1>4, InductiveHolds, PTL DEF Spec

-----------------------------------------------------------------------------
(* The queue.  A range that was handed out is checkpointed or in somebody's*)
(* hands, unless the budget is spent; a worker leaves because of one or    *)
(* the other.                                                              *)

InHand(i) == \E w \in Workers : pc[w] \in Active /\ cur[w] = i

Leaving == {"collect", "exit"}

HandedOut ==
  ~WritesFail =>
    /\ \A i \in RangeIds : i < next => i \in done \/ Exhausted \/ InHand(i)
    /\ \A w \in Workers : pc[w] \in Leaving => Exhausted \/ NumRanges <= next

(* The budget is never given back. *)
LEMMA ExhaustedStays ==
  ASSUME Inductive, NEW w \in Workers, Step(w), Exhausted
  PROVE  Exhausted'
<1> USE SizeAssumption DEF Inductive, TypeOK, Exhausted
<1>1. CASE FinishCarve(w)
  BY <1>1 DEF FinishCarve
<1>2. CASE ~FinishCarve(w)
  BY <1>2 DEF Step, LoopTop, TakeRange, StopSweep, ShortRead, EndSweep, Reject, BeginCarve,
              FailCarve, Withhold, Report, EnterCallback, StreamRecords, CompleteRange, Collect,
              CheckBudget, budget
<1> QED
  BY <1>1, <1>2

LEMMA StepHandedOut ==
  ASSUME Inductive, HandedOut, NEW w \in Workers, Step(w)
  PROVE  HandedOut'
<1> SUFFICES ASSUME ~WritesFail
             PROVE  /\ \A i \in RangeIds : i < next' => i \in done' \/ Exhausted' \/ InHand(i)'
                    /\ \A v \in Workers : pc'[v] \in Leaving => Exhausted' \/ NumRanges <= next'
  BY DEF HandedOut
<1> USE NumRangesAssumption DEF Inductive, TypeOK, Goto
<1>1. Exhausted => Exhausted'
  BY ExhaustedStays
<1>2. done \subseteq done' /\ next <= next'
  BY DEF Step, LoopTop, TakeRange, StopSweep, ShortRead, EndSweep, Reject, BeginCarve,
         FinishCarve, FailCarve, Withhold, Report, EnterCallback, StreamRecords, CompleteRange,
         Collect, Advance, durable
<1>3. CASE TakeRange(w)
  <2>1. \A v \in Workers : v # w => pc'[v] = pc[v] /\ cur'[v] = cur[v]
    BY <1>3 DEF TakeRange
  <2>2. pc[w] \notin Active \cup Leaving /\ next' = next + 1 /\ next \in Nat
    BY <1>3 DEF TakeRange, Advance, Active, Leaving
  <2>3. MoreRanges => pc'[w] = "sweep" /\ cur'[w] = next
    BY <1>3 DEF TakeRange
  <2>4. \A i : InHand(i) => InHand(i)'
    BY <2>1, <2>2 DEF InHand
  <2>5. ASSUME NEW i \in RangeIds, i < next' PROVE i \in done' \/ Exhausted' \/ InHand(i)'
    <3>1. CASE i < next
      BY <1>1, <1>2, <2>4, <3>1 DEF HandedOut
    <3>2. CASE ~(i < next)
      <4>1. i = next /\ MoreRanges
        BY <2>2, <2>5, <3>2 DEF MoreRanges, RangeIds
      <4> QED
        BY <2>3, <4>1 DEF InHand, Active
    <3> QED
      BY <3>1, <3>2
  <2>6. pc'[w] \in Leaving => NumRanges <= next'
    BY <2>2, <2>3 DEF MoreRanges, Leaving
  <2> QED
    BY <1>1, <1>2, <2>1, <2>2, <2>5, <2>6 DEF HandedOut
<1>4. CASE LoopTop(w)
  <2>1. UNCHANGED <<next, cur, done>> /\ pc[w] \notin Active /\ \A v \in Workers : v # w => pc'[v] = pc[v]
    BY <1>4 DEF LoopTop, durable, Active
  <2>2. pc'[w] \in Leaving => Exhausted'
    BY <1>1, <1>4 DEF LoopTop, Leaving
  <2>3. \A i : InHand(i) => InHand(i)'
    BY <2>1 DEF InHand
  <2> QED
    BY <1>1, <2>1, <2>2, <2>3 DEF HandedOut
<1>5. CASE Withhold(w)
  <2>1. Exhausted' /\ UNCHANGED next /\ pc'[w] = "loop" /\ \A v \in Workers : v # w => pc'[v] = pc[v]
    BY <1>1, <1>5 DEF Withhold
  <2> QED
    BY <2>1
<1>6. CASE CompleteRange(w)
  <2>1. UNCHANGED <<next, cur>> /\ pc'[w] = "loop" /\ \A v \in Workers : v # w => pc'[v] = pc[v]
    BY <1>6 DEF CompleteRange
  <2>2. done' = done \cup {cur[w]}
    BY <1>6 DEF CompleteRange
  <2>3. \A i : InHand(i) => InHand(i)' \/ i \in done'
    BY <2>1, <2>2 DEF InHand
  <2> QED
    BY <1>1, <1>2, <2>1, <2>3 DEF HandedOut, Leaving
<1>7. CASE \/ StopSweep(w) \/ ShortRead(w) \/ EndSweep(w) \/ Reject(w) \/ BeginCarve(w)
           \/ FinishCarve(w) \/ FailCarve(w) \/ Report(w) \/ EnterCallback(w)
           \/ StreamRecords(w) \/ Collect(w)
  <2>1. UNCHANGED <<next, cur, done>>
    BY <1>7 DEF StopSweep, ShortRead, EndSweep, Reject, BeginCarve, FinishCarve, FailCarve,
                Report, EnterCallback, StreamRecords, Collect, durable
  <2>2. \A v \in Workers : /\ pc[v] \in Active => pc'[v] \in Active
                           /\ pc'[v] \in Leaving => pc[v] \in Leaving
    BY <1>7 DEF StopSweep, ShortRead, EndSweep, Reject, BeginCarve, FinishCarve, FailCarve,
                Report, EnterCallback, StreamRecords, Collect, Active, Leaving
  <2>3. \A i : InHand(i) => InHand(i)'
    BY <2>1, <2>2 DEF InHand
  <2> QED
    BY <1>1, <2>1, <2>2, <2>3 DEF HandedOut
<1> QED
  BY <1>3, <1>4, <1>5, <1>6, <1>7 DEF Step

(* On a disk that takes everything, workers that have all left without     *)
(* the budget having run out have left no range out of the checkpoint.     *)
THEOREM NoRangeIsLeftOut == Spec => [](~WritesFail => AllRangesUnlessStopped)
<1>1. Init => HandedOut
  BY NumRangesAssumption DEF Init, HandedOut, RangeIds, Leaving
<1>2. Inductive /\ HandedOut /\ [Next]_vars => HandedOut'
  <2>1. HandedOut /\ (Kill \/ UNCHANGED vars) => HandedOut'
    BY DEF HandedOut, InHand, Exhausted, Kill, vars, budget, durable
  <2> QED
    BY <2>1, StepHandedOut DEF Next
<1>3. Inductive /\ HandedOut => (~WritesFail => AllRangesUnlessStopped)
  <2> SUFFICES ASSUME Inductive, HandedOut, ~WritesFail, Joined, ~Exhausted PROVE done = RangeIds
    BY DEF AllRangesUnlessStopped
  <2>1. PICK w \in Workers : TRUE
    BY WorkersAssumption
  <2>2. NumRanges <= next
    BY <2>1 DEF HandedOut, Joined, Leaving
  <2>3. \A i \in RangeIds : i < next /\ ~InHand(i)
    BY <2>2, NumRangesAssumption DEF RangeIds, InHand, Joined, Active, Inductive, TypeOK
  <2> QED
    BY <2>3 DEF HandedOut, Inductive, TypeOK
<1> QED
  BY <1>1, <1>2, <1>3, InductiveHolds, PTL DEF Spec
=============================================================================
