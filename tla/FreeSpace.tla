----------------------------- MODULE FreeSpace ------------------------------
(***************************************************************************)
(* --unallocated: the free clusters of an allocation map become the byte   *)
(* ranges that are carved.  free_ranges of src/src/ntfs.rs, fat.rs and     *)
(* ext4.rs, with ranges_from_free_clusters, which they share.              *)
(*                                                                         *)
(* The map is read in groups: the one bitmap of NTFS, a bitmap for each    *)
(* block group of ext, the blocks in which a FAT is read.  A group has a   *)
(* bit for each cluster that could be read of it, TRUE where the cluster   *)
(* is in use; none, where nothing could.  Positions are in clusters.       *)
(***************************************************************************)
EXTENDS Integers, Sequences

CONSTANT MergeGap  \* used clusters that are read along rather than skipped

ASSUME FreeAssumption == MergeGap \in Nat

VARIABLES
  mapOf,     \* "ntfs", "fat" or "ext"
  groups,    \* the allocation map: [first, want, bits]
  clusters,  \* the clusters the volume has
  volumeEnd, \* where the volume ends
  group,     \* the group that is looked at
  bit,       \* the next bit of it
  run,       \* run_start: where the free run it is in began, or NoRun
  freeRuns,  \* the free runs: [from, to]
  ranges,    \* the ranges made of them: [from, to]
  free       \* free_bytes

mapVars  == <<mapOf, groups, clusters, volumeEnd>>
walkVars == <<group, bit, run, freeRuns>>
freeVars == <<mapVars, walkVars, ranges, free>>

NoRun == -1

Group == [first : Nat, want : Nat \ {0}, bits : Seq(BOOLEAN)]

Smaller(a, b) == IF a < b THEN a ELSE b

Size(g) == Smaller(g.want, clusters - g.first)

(* Bits past the end of a group or of the volume are not clusters,         *)
(* whatever they say.                                                      *)
Counted(g) == Smaller(Len(g.bits), Size(g))

IsMissing(g) == mapOf = "ext" /\ g.bits = <<>>

(* The groups follow one another, from cluster 0 on or, with ext, 1.       *)
IsMap ==
  /\ mapOf \in {"ntfs", "fat", "ext"}
  /\ groups \in Seq(Group) /\ clusters \in Nat /\ volumeEnd \in Nat
  /\ mapOf = "ntfs" => Len(groups) = 1
  /\ \A j, k \in DOMAIN groups : j < k => groups[j].first + groups[j].want <= groups[k].first

FreeInit ==
  /\ group = 1 /\ bit = 0 /\ run = NoRun
  /\ freeRuns = <<>> /\ ranges = <<>> /\ free = 0

FreeRun(from, to) == [from |-> from, to |-> to]

(* The walk over the map stops after the last group, at one that is not on *)
(* the volume and, in a FAT, where it cannot be read.                      *)
Read(g) == g.first < clusters /\ ~(mapOf = "fat" /\ g.bits = <<>>)

Walked == ~(group \in DOMAIN groups /\ Read(groups[group]))

Current == groups[group]

Missing == ~Walked /\ IsMissing(Current)

(* One bit of the map. *)
TakeBit ==
  /\ ~Walked /\ ~Missing /\ bit < Counted(Current)
  /\ LET c    == Current.first + bit
         used == Current.bits[bit + 1]
     IN  /\ run' = IF used THEN NoRun ELSE IF run = NoRun THEN c ELSE run
         /\ freeRuns' = IF used /\ run # NoRun THEN Append(freeRuns, FreeRun(run, c)) ELSE freeRuns
  /\ bit' = bit + 1
  /\ UNCHANGED <<mapVars, group, ranges, free>>

NextGroup ==
  /\ ~Walked /\ ~Missing /\ bit >= Counted(Current)
  /\ group' = group + 1 /\ bit' = 0
  /\ UNCHANGED <<mapVars, run, freeRuns, ranges, free>>

(* A group of ext without its bitmap: what it has is taken as in use.      *)
MissingGroupSlip ==
  /\ Missing
  /\ group' = group + 1
  /\ UNCHANGED <<mapVars, bit, run, freeRuns, ranges, free>>

MissingGroup ==
  /\ Missing
  /\ freeRuns' = IF run = NoRun THEN freeRuns ELSE Append(freeRuns, FreeRun(run, Current.first))
  /\ run' = NoRun
  /\ group' = group + 1
  /\ UNCHANGED <<mapVars, bit, ranges, free>>

(* The run that is open at the end of the map: NTFS ends it there, the     *)
(* others at the end of the volume.                                        *)
CloseRunSlip ==
  /\ Walked /\ run # NoRun
  /\ run' = NoRun
  /\ UNCHANGED <<mapVars, group, bit, freeRuns, ranges, free>>

CloseRun ==
  /\ Walked /\ run # NoRun
  /\ LET last == IF mapOf = "ntfs" THEN groups[1].first + Counted(groups[1]) ELSE clusters
     IN  freeRuns' = Append(freeRuns, FreeRun(run, last))
  /\ run' = NoRun
  /\ UNCHANGED <<mapVars, group, bit, ranges, free>>

(* ranges_from_free_clusters: one run, put to the last range or after it.  *)
Joins(r) == ranges # <<>> /\ r.from - ranges[Len(ranges)].to <= MergeGap

AddRun ==
  /\ Walked /\ run = NoRun /\ freeRuns # <<>>
  /\ LET r == FreeRun(Head(freeRuns).from, Smaller(Head(freeRuns).to, volumeEnd))
     IN  IF r.to <= r.from THEN UNCHANGED <<ranges, free>>
         ELSE /\ ranges' = IF Joins(r) THEN [ranges EXCEPT ![Len(ranges)].to = r.to] ELSE Append(ranges, r)
              /\ free' = free + (r.to - r.from)
  /\ freeRuns' = Tail(freeRuns)
  /\ UNCHANGED <<mapVars, group, bit, run>>

FreeStep == TakeBit \/ NextGroup \/ MissingGroup \/ CloseRun \/ AddRun

Mapped == Walked /\ run = NoRun /\ freeRuns = <<>>

FreeSpec == IsMap /\ FreeInit /\ [][FreeStep]_freeVars

-----------------------------------------------------------------------------
(* What the map has of cluster c.                                          *)
Tells(g, c) == g.first <= c /\ c < g.first + Counted(g)

Reads(k) == \A j \in 1..k : Read(groups[j])

KnownFree(c) ==
  \E k \in DOMAIN groups : Reads(k) /\ Tells(groups[k], c) /\ ~groups[k].bits[c - groups[k].first + 1]

(* Every cluster that the map has as free, as far as it can be read and    *)
(* the volume goes, is carved.                                             *)
FreeIsCarved ==
  Mapped =>
    \A c \in 0..(volumeEnd - 1) :
      KnownFree(c) => \E k \in DOMAIN ranges : ranges[k].from <= c /\ c < ranges[k].to

(* The ranges are in order, none of them reaches past the volume, and      *)
(* between two of them there is more in use than is read along.  A group   *)
(* of ext of which there is no bitmap is not in any of them.               *)
RangesAreApart ==
  /\ \A k \in DOMAIN ranges : ranges[k].from < ranges[k].to /\ ranges[k].to <= volumeEnd
  /\ \A k \in 1..(Len(ranges) - 1) : ranges[k].to + MergeGap < ranges[k + 1].from
  /\ \A m \in DOMAIN groups :
       IsMissing(groups[m]) /\ groups[m].first < clusters /\ Size(groups[m]) > MergeGap =>
         \A k \in DOMAIN ranges :
           ranges[k].to <= groups[m].first \/ groups[m].first + Size(groups[m]) <= ranges[k].from
=============================================================================
