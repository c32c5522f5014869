------------------------------- MODULE Window -------------------------------
(***************************************************************************)
(* src/src/window.rs: the bounded, cached view of a source through which   *)
(* the handlers parse.  A job is one call of read, find or find_last; the  *)
(* view and its cache of blocks live on from one job to the next.          *)
(***************************************************************************)
EXTENDS Readers, FiniteSetsExt

CONSTANTS
  Views,      \* where a view may be opened: [base, limit]
  Jobs,       \* the calls that may be made
  Block,      \* bytes in a cache block (1 << 16)
  MaxBlocks,  \* blocks kept (64)
  Step        \* bytes a search advances by (1 << 20)

NoEnd == -1  \* find and find_last without an end
None  == -1  \* they found nothing

ASSUME WindowAssumption == Block \in Nat \ {0} /\ MaxBlocks \in Nat \ {0} /\ Step \in Nat \ {0}
ASSUME ViewsAssumption == \A v \in Views : v.base \in Nat /\ v.limit \in Nat
ASSUME JobsAssumption ==
  \A j \in Jobs : \/ j.op = "read" /\ j.pos \in Nat /\ j.n \in Nat
                  \/ /\ j.op \in {"find", "find_last"}
                     /\ j.needle \in Seq(Nat) \ {<<>>} /\ j.start \in Nat /\ j.end \in Nat \cup {NoEnd}

VARIABLES
  base, limit,  \* the view
  order,        \* the blocks kept, oldest first
  blocks,       \* their bytes
  job,          \* the job in progress
  phase,        \* idle, turn (of a search), read, or fetch (of a block)
  at,           \* find, find_last: the position their loop has come to
  last,         \* find_last: the latest occurrence
  get,          \* the read in progress: its next position and the bytes to come
  got,          \* what it has
  result        \* the latest result, with its job

windowVars == <<base, limit, order, blocks, job, phase, at, last, get, got, result>>

NoJob == [op |-> "none"]
NoGet == [pos |-> 0, n |-> 0]
NoResult == [job |-> NoJob, value |-> None]

(* Window::new: nothing past the end of the source. *)
WindowInit ==
  /\ \E v \in Views :
       /\ base = v.base
       /\ limit = Least(v.limit, IF source.size > v.base THEN source.size - v.base ELSE 0)
  /\ order = <<>> /\ blocks = <<>>
  /\ job = NoJob /\ phase = "idle" /\ at = 0 /\ last = None /\ get = NoGet /\ got = <<>>
  /\ result = NoResult

-----------------------------------------------------------------------------
(* read(p, n): nothing at or past the limit, and no more than it leaves. *)
Read(p, n) ==
  /\ get' = IF p >= limit THEN NoGet ELSE [pos |-> p, n |-> Least(n, limit - p)]
  /\ got' = <<>>
  /\ phase' = "read"

StartJob ==
  /\ phase = "idle"
  /\ job' \in Jobs
  /\ IF job'.op = "read"
       THEN Read(job'.pos, job'.n) /\ UNCHANGED at
       ELSE phase' = "turn" /\ at' = job'.start /\ UNCHANGED <<get, got>>
  /\ result' = NoResult
  /\ UNCHANGED <<vars, base, limit, order, blocks, last>>

Finish(r) ==
  /\ result' = [job |-> job, value |-> r]
  /\ job' = NoJob /\ phase' = "idle" /\ at' = 0 /\ last' = None /\ get' = NoGet /\ got' = <<>>

(* block: a block that is not kept is read, ... *)
Wanted == get.pos \div Block

FetchBlock ==
  /\ phase = "read" /\ get.n > 0 /\ Wanted \notin ToSet(order)
  /\ Pread(base + Wanted * Block, Block)
  /\ phase' = "fetch"
  /\ UNCHANGED <<base, limit, order, blocks, job, at, last, get, got, result>>

(* ... and takes the place of the oldest. *)
Evicted == IF Len(order) >= MaxBlocks THEN {Head(order)} ELSE {}

KeepBlock ==
  /\ phase = "fetch" /\ ~Busy
  /\ order' = Append(IF Evicted = {} THEN order ELSE Tail(order), Wanted)
  /\ blocks' = [i \in (DOMAIN blocks \ Evicted) \cup {Wanted} |->
                  IF i = Wanted THEN answer.data ELSE blocks[i]]
  /\ phase' = "read"
  /\ UNCHANGED <<vars, base, limit, job, at, last, get, got, result>>

(* One turn of read's loop; a block that ends too early ends it. *)
TakeBlock ==
  /\ phase = "read" /\ get.n > 0 /\ Wanted \in ToSet(order)
  /\ LET rel  == get.pos % Block
         have == blocks[Wanted]
         take == Least(get.n, Len(have) - rel)
     IN  IF take <= 0
           THEN get' = [get EXCEPT !.n = 0] /\ UNCHANGED got
           ELSE /\ got' = got \o SubSeq(have, rel + 1, rel + take)
                /\ get' = [pos |-> get.pos + take, n |-> get.n - take]
  /\ UNCHANGED <<vars, base, limit, order, blocks, job, phase, at, last, result>>

HaveRead == phase = "read" /\ get.n = 0

ReadEnd ==
  /\ HaveRead /\ job.op = "read"
  /\ Finish(got)
  /\ UNCHANGED <<vars, base, limit, order, blocks>>

-----------------------------------------------------------------------------
SearchEnd == IF job.end = NoEnd THEN limit ELSE Least(job.end, limit)

(* What one turn of a search reads: a step, and the rest of an occurrence  *)
(* that begins in it.                                                      *)
TurnSlip(needle) == Least(SearchEnd - at, Step)

Turn(needle) == Least(SearchEnd - at, Step) + Len(needle) - 1

SearchTurn ==
  /\ phase = "turn"
  /\ IF at < SearchEnd
       THEN Read(at, Turn(job.needle)) /\ UNCHANGED <<job, at, last, result>>
       ELSE Finish(last)
  /\ UNCHANGED <<vars, base, limit, order, blocks>>

(* find_sub: where the needle is in the hay. *)
FindSub(hay, needle) ==
  {i \in 0..(Len(hay) - Len(needle)) : SubSeq(hay, i + 1, i + Len(needle)) = needle}

(* Where it is in what was read, wholly before the end. *)
Inside == {at + i : i \in {k \in FindSub(got, job.needle) : at + k + Len(job.needle) <= SearchEnd}}

NextTurn ==
  /\ at' = at + Step /\ phase' = "turn"
  /\ UNCHANGED <<job, get, got, result>>

(* find stops at the first. *)
FindIn ==
  /\ HaveRead /\ job.op = "find"
  /\ IF Len(got) < Len(job.needle) THEN Finish(None)
     ELSE IF Inside # {} THEN Finish(Min(Inside))
     ELSE NextTurn /\ UNCHANGED last
  /\ UNCHANGED <<vars, base, limit, order, blocks>>

(* find_last goes on to the end. *)
FindLastIn ==
  /\ HaveRead /\ job.op = "find_last"
  /\ IF Len(got) < Len(job.needle) THEN Finish(last)
     ELSE NextTurn /\ last' = IF Inside = {} THEN last ELSE Max(Inside)
  /\ UNCHANGED <<vars, base, limit, order, blocks>>

WindowStep ==
  \/ StartJob \/ FetchBlock \/ KeepBlock \/ TakeBlock \/ ReadEnd
  \/ SearchTurn \/ FindIn \/ FindLastIn

(* A window and the reader that answers it. *)
WindowNext == (ReaderStep /\ UNCHANGED windowVars) \/ WindowStep

WindowSpec == ReadersInit /\ WindowInit /\ [][WindowNext]_<<vars, windowVars>>
-----------------------------------------------------------------------------
(* What the view is of. *)
View == M!Slice(Contents(source), base, limit)

Occurrences(needle, start, end) ==
  {i \in FindSub(View, needle) : start <= i /\ i + Len(needle) <= end}

EndOf(j) == IF j.end = NoEnd THEN limit ELSE Least(j.end, limit)

ReadRight(j, v) ==
  \/ v = M!Slice(View, j.pos, j.n)
  \/ Damaged(source) /\ IsPrefix(v, M!Slice(View, j.pos, j.n))

FindRight(j, v) ==
  LET occurrences == Occurrences(j.needle, j.start, EndOf(j))
      which(S)    == IF j.op = "find" THEN Min(S) ELSE Max(S)
  IN  IF v = None THEN occurrences = {} \/ Damaged(source)
      ELSE v \in occurrences /\ (v = which(occurrences) \/ Damaged(source))

(* Whatever was asked of the view before, and whichever blocks are still   *)
(* kept: read gives the bytes of the view at that place, short only at its *)
(* end or at damage; find and find_last give the first and the last        *)
(* occurrence wholly inside the range, also one that lies across the       *)
(* boundary of two blocks or of two turns, and None only if there is none. *)
WindowAnswers ==
  LET j == result.job
  IN  CASE j.op = "none" -> TRUE
        [] j.op = "read" -> ReadRight(j, result.value)
        [] OTHER         -> FindRight(j, result.value)
=============================================================================
