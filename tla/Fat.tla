-------------------------------- MODULE Fat ---------------------------------
(***************************************************************************)
(* FAT and exFAT undelete: recover of src/src/fat.rs.  Live directories    *)
(* are walked for the deleted entries in them, then each entry is read     *)
(* forward from its first cluster, since its chain is gone.                *)
(*                                                                         *)
(* A directory cluster holds PerCluster slots of 32 bytes: an end marker,  *)
(* a piece of a long name, a volume label, a file or a directory; in exFAT *)
(* a file or directory is a set of slots, the entry itself, its stream     *)
(* extension and the pieces of its name.  volume.root is the cluster of    *)
(* the root directory, or 0 where its slots are in volume.rootArea.        *)
(***************************************************************************)
EXTENDS Undelete

CONSTANTS
  PerCluster,  \* slots in a directory cluster
  MaxNest,     \* directories inside each other (32)
  MaxChain     \* clusters of a directory (4096)

ASSUME FatAssumption == PerCluster \in Nat \ {0} /\ MaxNest \in Nat /\ MaxChain \in Nat

VARIABLES
  queue,    \* directories to be read, the next one last: [clusters, slots, depth]
  slot,     \* position in the directory that is read now
  pieces,   \* FAT: the pieces of a long name seen before it
  seenDirs, \* directories that were queued (FAT) or read (exFAT)
  entries   \* the entries found, then those still to be recovered

fatVars == <<queue, slot, pieces, seenDirs, entries>>

FatInit == queue = <<>> /\ slot = 0 /\ pieces = <<>> /\ seenDirs = {} /\ entries = <<>>

Clusters == 2..(volume.clusters + 1)

(* read_dir_chain: the clusters of a directory, up to one it has seen, one *)
(* outside the volume or one that cannot be read.                          *)
StopsSlip(chain, c) == c \notin Clusters

Stops(chain, c) == c \notin Clusters \/ c \in ToSet(chain) \/ c \in volume.unreadable

Chain(start) ==
  LET chain[k \in 0..MaxChain] ==
        IF k = 0 THEN <<>>
        ELSE LET so   == chain[k - 1]
                 next == IF so = <<>> THEN start ELSE volume.fat[Last(so)]
             IN  IF Len(so) < k - 1 \/ Stops(so, next) THEN so ELSE Append(so, next)
  IN  chain[MaxChain]

Slots(chain) == FlattenSeq([k \in DOMAIN chain |-> volume.dirs[chain[k]]])

(* entry_offset: where slot i of a directory is on the volume. *)
EntryOffset(chain, i) ==
  IF chain = <<>> THEN i ELSE (chain[(i \div PerCluster) + 1] * PerCluster) + (i % PerCluster)

Dir(chain, slots, depth) == [chain |-> chain, slots |-> slots, depth |-> depth]

Exfat == volume.fs = "exfat"

(* The root directory: an area of its own, or a chain. *)
FatOpen ==
  /\ stage = "open" /\ volume.fs \in {"fat", "exfat"}
  /\ stage' = "walk"
  /\ IF Exfat THEN queue' = <<[cluster |-> volume.root, depth |-> 0]>> /\ seenDirs' = {}
     ELSE IF volume.root = 0 THEN queue' = <<Dir(<<>>, volume.rootArea, 0)>> /\ seenDirs' = {}
     ELSE /\ queue' = <<Dir(Chain(volume.root), Slots(Chain(volume.root)), 0)>>
          /\ seenDirs' = {volume.root}
  /\ UNCHANGED <<fixed, known, outVars, slot, pieces, entries>>

-----------------------------------------------------------------------------
(* walk_fat: one slot of the directory that was queued last.  Directories  *)
(* that are found go behind it and are read before the rest of the queue.  *)
Now == Last(queue)

Slot == Now.slots[slot + 1]

InFat == stage = "walk" /\ ~Exfat /\ queue # <<>> /\ slot < Len(Now.slots)

(* An entry, in the form of [name, deleted, start, size, offset]. *)
Found(name, s) ==
  entries' = Append(entries, [name |-> name, deleted |-> s.deleted, start |-> s.start,
                              size |-> s.size, offset |-> EntryOffset(Now.chain, slot)])

(* long_name: the pieces before the entry, last one first. *)
LongNameSlip(ps) == FlattenSeq(ps)

LongName(ps) == FlattenSeq(Reverse(ps))

FatPiece ==
  /\ InFat /\ Slot.slot = "piece"
  /\ pieces' = Append(pieces, Slot.text)
  /\ slot' = slot + 1
  /\ UNCHANGED <<fixed, known, stage, outVars, queue, seenDirs, entries>>

FatPass ==
  /\ InFat /\ Slot.slot \in {"end", "label"}
  /\ pieces' = <<>>
  /\ slot' = slot + 1
  /\ UNCHANGED <<fixed, known, stage, outVars, queue, seenDirs, entries>>

FatFile ==
  /\ InFat /\ Slot.slot = "file"
  /\ Found(IF LongName(pieces) = <<>> THEN Slot.name ELSE LongName(pieces), Slot)
  /\ pieces' = <<>>
  /\ slot' = slot + 1
  /\ UNCHANGED <<fixed, known, stage, outVars, queue, seenDirs>>

(* A directory waits behind the one that is being read, which the code has *)
(* popped: it goes on with its slots first.                                *)
FatDir ==
  /\ InFat /\ Slot.slot = "dir"
  /\ LET into == ~Slot.deleted /\ Slot.start >= 2 /\ Now.depth < MaxNest /\ Slot.start \notin seenDirs
         sub  == Chain(Slot.start)
     IN  /\ seenDirs' = IF into THEN seenDirs \cup {Slot.start} ELSE seenDirs
         /\ queue' = IF into /\ Slots(sub) # <<>>
                       THEN Front(queue) \o <<Dir(sub, Slots(sub), Now.depth + 1), Now>>
                       ELSE queue
  /\ pieces' = <<>>
  /\ slot' = slot + 1
  /\ UNCHANGED <<fixed, known, stage, outVars, entries>>

FatDirEnd ==
  /\ stage = "walk" /\ ~Exfat /\ queue # <<>> /\ slot = Len(Now.slots)
  /\ queue' = Front(queue) /\ slot' = 0 /\ pieces' = <<>>
  /\ UNCHANGED <<fixed, known, stage, outVars, seenDirs, entries>>

-----------------------------------------------------------------------------
(* walk_exfat: a directory is checked when its turn comes, and then read   *)
(* whole; its entries are sets of slots.                                   *)
Enter(d) == d.depth <= MaxNest /\ d.cluster >= 2 /\ d.cluster \notin seenDirs

(* The file entry at slot i, with what follows it. *)
EntryAt(slots, i) ==
  LET head    == slots[i]
      stream  == slots[i + 1]
      follow  == {j \in (i + 2)..Least(i + head.secondary, Len(slots)) :
                    \A k \in (i + 2)..j : slots[k].slot = "piece"}
      units   == FlattenSeq([k \in 1..Cardinality(follow) |-> slots[i + 1 + k].text])
  IN  [next    |-> i + 2 + Cardinality(follow),
       name    |-> SubSeq(units, 1, Least(stream.nameLen, Len(units))),
       deleted |-> head.deleted, dir |-> head.slot = "dir",
       start   |-> stream.start, size |-> stream.size]

IsEntry(slots, i) ==
  /\ slots[i].slot \in {"file", "dir"}
  /\ i < Len(slots) /\ slots[i + 1].slot = "stream"

(* The entries of a directory, up to its end marker. *)
EntriesOf(chain) ==
  LET slots == Slots(chain)
      scan[i \in 1..(Len(slots) + 2)] ==
        IF i > Len(slots) \/ slots[i].slot = "end" THEN <<>>
        ELSE IF ~IsEntry(slots, i) THEN scan[i + 1]
        ELSE LET e == EntryAt(slots, i)
             IN  <<[e EXCEPT !.next = EntryOffset(chain, i - 1)]>> \o scan[e.next]
  IN  scan[1]

ExfatDir ==
  /\ stage = "walk" /\ Exfat /\ queue # <<>>
  /\ LET d     == Last(queue)
         found == IF Enter(d) THEN EntriesOf(Chain(d.cluster)) ELSE <<>>
         dirs  == SelectSeq(found, LAMBDA e : e.dir /\ ~e.deleted /\ e.start >= 2)
         plain == SelectSeq(found, LAMBDA e : ~e.dir)
     IN  /\ queue' = Front(queue) \o [k \in DOMAIN dirs |-> [cluster |-> dirs[k].start, depth |-> d.depth + 1]]
         /\ seenDirs' = IF Enter(d) THEN seenDirs \cup {d.cluster} ELSE seenDirs
         /\ entries' = entries \o [k \in DOMAIN plain |->
              [name |-> IF plain[k].name = <<>> THEN <<"exfat", ToString(plain[k].start)>> ELSE plain[k].name,
               deleted |-> plain[k].deleted, start |-> plain[k].start, size |-> plain[k].size,
               offset |-> plain[k].next]]
  /\ UNCHANGED <<fixed, known, stage, outVars, slot, pieces>>

FatWalked ==
  /\ stage = "walk" /\ queue = <<>>
  /\ stage' = "files"
  /\ UNCHANGED <<fixed, known, outVars, fatVars>>

-----------------------------------------------------------------------------
(* read_contiguous: forward from the first cluster, to the end of the      *)
(* volume at most.                                                         *)
ReadContiguous(start, size) ==
  LET first == (start - 2) * volume.cluster
  IN  IF start < 2 \/ first >= volume.size THEN <<>>
      ELSE Cells(first, Least(size, volume.size - first))

Complete(data, size) == Len(data) = size

FatRecover ==
  /\ stage = "files" /\ volume.fs \in {"fat", "exfat"} /\ entries # <<>>
  /\ LET e    == Head(entries)
         data == ReadContiguous(e.start, e.size)
         name == IF e.name = <<>> THEN <<"file", ToString(e.start)>> ELSE e.name
         path == <<Component(volume.fs), Component(name)>>
         rec  == [id |-> e.offset, path |-> path, out |-> FreeName(path, e.offset),
                  size |-> Len(data), data |-> data,
                  validated |-> Complete(data, e.size), deleted |-> e.deleted]
     IN  IF (~e.deleted /\ ~opts.live) \/ e.size = 0 \/ data = <<>> THEN UNCHANGED outVars
         ELSE Emit(rec)
  /\ entries' = Tail(entries)
  /\ UNCHANGED <<fixed, known, stage, queue, slot, pieces, seenDirs>>

FatDone ==
  /\ stage = "files" /\ volume.fs \in {"fat", "exfat"} /\ entries = <<>>
  /\ stage' = "done"
  /\ UNCHANGED <<fixed, known, outVars, fatVars>>

(* run_fat, when the walk is over. *)
FatList == volume.fs \in {"fat", "exfat"} /\ List /\ UNCHANGED fatVars

FatStep ==
  \/ FatOpen \/ FatPiece \/ FatPass \/ FatFile \/ FatDir \/ FatDirEnd
  \/ ExfatDir \/ FatWalked \/ FatRecover \/ FatDone \/ FatList

FatSpec == UndeleteInit /\ FatInit /\ [][FatStep]_<<undeleteVars, fatVars>>
=============================================================================
