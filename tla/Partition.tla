----------------------------- MODULE Partition ------------------------------
(***************************************************************************)
(* The partition tables of a disk (src/src/partition.rs) and the volumes   *)
(* that the modes take from them (src/src/main.rs).                        *)
(*                                                                         *)
(* Here a volume is a disk, with fs "disk": signed (sector 0 ends in       *)
(* 55 AA), apm and gpt the entries of those tables, mbr the four entries   *)
(* of sector 0, ebrs the boot records of logical partitions, by sector,    *)
(* fsAt the file system that is detected at a sector, broken the sectors   *)
(* where it is detected and cannot be opened, and mode what it is asked    *)
(* for.  An entry is [type, lba, count], a boot record [entry, next].      *)
(***************************************************************************)
EXTENDS Undelete

CONSTANT MaxLogical  \* logical partitions of a chain (128)

ASSUME PartitionAssumption == MaxLogical \in Nat

VARIABLES
  parts,  \* the partitions found: [start, size, type]
  link,   \* parse_ebr: the chain that is followed, or NoLink
  chosen, \* the volumes taken: [start, fs]
  tried   \* run_auto: of these, by index, the ones that were recovered and
          \* the ones that were skipped

partitionVars == <<parts, link, chosen, tried>>

NoLink == [ext |-> 0, cur |-> 0, seen |-> {}, found |-> 0]

PartitionInit ==
  /\ parts = <<>> /\ link = NoLink /\ chosen = <<>>
  /\ tried = [recovered |-> {}, skipped |-> {}]

DetectFs(start) == IF start \in DOMAIN volume.fsAt THEN volume.fsAt[start] ELSE ""

Entry(e, base) == [start |-> base + e.lba, size |-> e.count, type |-> e.type]

Used(e) == e.type # "none" /\ e.lba # 0

(* parse_gpt, parse_apm: the entries up to the end of the table.           *)
UsedEntries == Picked(volume.gpt, [k \in DOMAIN volume.gpt |-> volume.gpt[k].type # "none"])

(* parse: a GUID table, if it has entries, goes before the four entries of *)
(* sector 0.                                                               *)
TableOpen ==
  /\ stage = "open" /\ volume.fs = "disk"
  /\ LET table == IF volume.signed THEN UsedEntries ELSE volume.apm
     IN  /\ parts' = [k \in DOMAIN table |-> Entry(table[k], 0)]
         /\ stage' = IF volume.signed /\ UsedEntries = <<>> THEN "mbr" ELSE "pick"
  /\ at' = 1
  /\ UNCHANGED <<fixed, names, paths, outVars, link, chosen, tried>>

(* parse_mbr: one of the four entries.                                     *)
MbrEntry ==
  /\ stage = "mbr" /\ link = NoLink /\ at <= 4
  /\ LET e == volume.mbr[at]
     IN  IF ~Used(e) THEN UNCHANGED <<parts, link>>
         ELSE IF e.type = "extended"
           THEN link' = [NoLink EXCEPT !.ext = e.lba, !.cur = e.lba] /\ UNCHANGED parts
         ELSE parts' = Append(parts, Entry(e, 0)) /\ UNCHANGED link
  /\ at' = at + 1
  /\ UNCHANGED <<fixed, stage, names, paths, outVars, chosen, tried>>

(* parse_ebr: one boot record of the chain, each of them once.             *)
ChainEndsSlip == link.cur = 0 \/ link.cur \notin DOMAIN volume.ebrs \/ link.found >= MaxLogical

ChainEnds ==
  \/ link.cur = 0 \/ link.cur \in link.seen
  \/ link.found >= MaxLogical \/ link.cur \notin DOMAIN volume.ebrs

NextLinkSlip(ebr) == link.cur + ebr.next

NextLink(ebr) == IF ebr.next = 0 THEN 0 ELSE link.ext + ebr.next

EbrRecord ==
  /\ stage = "mbr" /\ link # NoLink
  /\ IF ChainEnds THEN link' = NoLink /\ UNCHANGED parts
     ELSE LET ebr == volume.ebrs[link.cur]
          IN  /\ parts' = IF Used(ebr.entry) THEN Append(parts, Entry(ebr.entry, link.cur)) ELSE parts
              /\ link' = [link EXCEPT !.cur = NextLink(ebr), !.seen = @ \cup {link.cur},
                                      !.found = IF Used(ebr.entry) THEN @ + 1 ELSE @]
  /\ UNCHANGED <<fixed, known, stage, outVars, chosen, tried>>

MbrDone ==
  /\ stage = "mbr" /\ link = NoLink /\ at > 4
  /\ stage' = "pick"
  /\ UNCHANGED <<fixed, known, outVars, partitionVars>>

-----------------------------------------------------------------------------
Opens(start) == DetectFs(start) # "" /\ start \notin volume.broken

Matching(fss) == {k \in DOMAIN parts : DetectFs(parts[k].start) \in fss}

LargestOf(ks) == {k \in ks : \A j \in ks : parts[j].size <= parts[k].size}

(* largest_matching: the last one of the largest.                          *)
Largest(fss) == Max(LargestOf(Matching(fss)))

(* locate, in each of its modes: by size, the first one of the largest     *)
(* that can be opened.                                                     *)
Openable(fss) == {k \in Matching(fss) : Opens(parts[k].start)}

LocatedSlip(fss) == Min(LargestOf(Matching(fss)))

Located(fss) == Min(LargestOf(Openable(fss)))

Volume(start) == [start |-> start, fs |-> DetectFs(start)]

Choose(volumes, then) ==
  /\ chosen' = volumes
  /\ stage' = IF volumes = <<>> THEN "failed" ELSE then
  /\ at' = 0
  /\ UNCHANGED <<fixed, names, paths, outVars, parts, link, tried>>

One(start) == IF Opens(start) THEN <<Volume(start)>> ELSE <<>>

(* ntfs_base. *)
PickNtfs ==
  /\ stage = "pick" /\ volume.mode = "ntfs"
  /\ Choose(IF DetectFs(0) = "ntfs" THEN One(0)
            ELSE IF Matching({"ntfs"}) = {} THEN <<>>
            ELSE One(parts[Largest({"ntfs"})].start), "done")

(* locate of fat.rs, ext4.rs, hfs.rs and apfs.rs. *)
ModeFs ==
  [fat |-> {"fat", "exfat"}, ext4 |-> {"ext"}, hfs |-> {"hfs+"}, apfs |-> {"apfs"}]

PickLocated ==
  /\ stage = "pick" /\ volume.mode \in DOMAIN ModeFs
  /\ LET fss == ModeFs[volume.mode]
     IN  Choose(IF DetectFs(0) \in fss /\ Opens(0) THEN <<Volume(0)>>
                ELSE IF Openable(fss) = {} THEN <<>>
                ELSE <<Volume(parts[Located(fss)].start)>>, "done")

(* plan_unallocated: what is at the start of the image, whatever it is, or *)
(* the largest volume that has an allocation map.                          *)
HasMap == {"ntfs", "fat", "exfat", "ext"}

PickUnallocated ==
  /\ stage = "pick" /\ volume.mode = "unallocated"
  /\ Choose(IF DetectFs(0) # "" THEN (IF DetectFs(0) \in HasMap THEN One(0) ELSE <<>>)
            ELSE IF Matching(HasMap) = {} THEN <<>>
            ELSE One(parts[Largest(HasMap)].start), "done")

(* run_auto: the whole image if it is a volume, and every partition whose  *)
(* file system is detected or is what its type says.                       *)
ByType(type) ==
  CASE type = "apple-hfs" -> "hfs+" [] type = "apple-apfs" -> "apfs"
    [] type \in {"linux", "linux-fs", "linux-home"} -> "ext"
    [] type \in {"NTFS/exFAT", "basic-data"} -> "ntfs"
    [] type = "FAT32" -> "fat" [] OTHER -> ""

Meant(p) ==
  [start |-> p.start, fs |-> IF DetectFs(p.start) # "" THEN DetectFs(p.start) ELSE ByType(p.type)]

Targets ==
  LET meant == [k \in DOMAIN parts |-> Meant(parts[k])]
  IN  (IF DetectFs(0) # "" THEN <<Volume(0)>> ELSE <<>>)
        \o Picked(meant, [k \in DOMAIN parts |-> meant[k].fs # ""])

PickAuto ==
  /\ stage = "pick" /\ volume.mode = "auto"
  /\ Choose(Targets, "volumes")

(* recover_one: a volume that does not open, or that no mode is for, is    *)
(* noted and left; the sweep goes on with the next.                        *)
Supported == (UNION {ModeFs[mode] : mode \in DOMAIN ModeFs}) \cup {"ntfs"}

Recoverable(v) == v.fs \in Supported /\ Opens(v.start)

RecoverOneSlip ==
  /\ stage = "volumes" /\ at < Len(chosen)
  /\ LET v == chosen[at + 1]
     IN  IF Recoverable(v) THEN tried' = [tried EXCEPT !.recovered = @ \cup {at}] /\ at' = at + 1
         ELSE tried' = [tried EXCEPT !.skipped = @ \cup {at}] /\ at' = Len(chosen)
  /\ UNCHANGED <<fixed, stage, names, paths, outVars, parts, link, chosen>>

RecoverOne ==
  /\ stage = "volumes" /\ at < Len(chosen)
  /\ tried' = IF Recoverable(chosen[at + 1]) THEN [tried EXCEPT !.recovered = @ \cup {at}]
              ELSE [tried EXCEPT !.skipped = @ \cup {at}]
  /\ at' = at + 1
  /\ UNCHANGED <<fixed, stage, names, paths, outVars, parts, link, chosen>>

AutoDone ==
  /\ stage = "volumes" /\ at = Len(chosen)
  /\ stage' = "done"
  /\ UNCHANGED <<fixed, known, outVars, partitionVars>>

AutoList == volume.fs = "disk" /\ volume.mode = "auto" /\ List /\ UNCHANGED partitionVars

PartitionStep ==
  \/ TableOpen \/ MbrEntry \/ EbrRecord \/ MbrDone
  \/ PickNtfs \/ PickLocated \/ PickUnallocated \/ PickAuto \/ RecoverOne \/ AutoDone \/ AutoList

-----------------------------------------------------------------------------
(* What is known of a disk: the entries of its tables are numbers, boot    *)
(* records lie behind sector 0, and a mode is one of those there are.      *)
TableEntries == [type : STRING, lba : Nat, count : Nat]

IsDisk(v) ==
  /\ v.fs = "disk" /\ v.mode \in DOMAIN ModeFs \cup {"ntfs", "unallocated", "auto"}
  /\ v.gpt \in Seq(TableEntries) /\ v.apm \in Seq(TableEntries)
  /\ v.mbr \in [1..4 -> TableEntries]
  /\ IsFiniteSet(DOMAIN v.ebrs)
  /\ \A s \in DOMAIN v.ebrs :
       s \in Nat \ {0} /\ v.ebrs[s].entry \in TableEntries /\ v.ebrs[s].next \in Nat

PartitionSpec ==
  IsDisk(volume) /\ UndeleteInit /\ PartitionInit
    /\ [][PartitionStep]_<<undeleteVars, partitionVars>>

(* The boot records that the chain from sector ext leads to: the ones in   *)
(* every set that has the first and, of each of its own, the next.         *)
Holds(S, ext) ==
  /\ ext \in DOMAIN volume.ebrs => ext \in S
  /\ \A s \in S : volume.ebrs[s].next # 0 /\ ext + volume.ebrs[s].next \in DOMAIN volume.ebrs
                    => ext + volume.ebrs[s].next \in S

UsedOn(ext) ==
  {s \in DOMAIN volume.ebrs :
     Used(volume.ebrs[s].entry) /\ \A S \in SUBSET DOMAIN volume.ebrs : Holds(S, ext) => s \in S}

(* Where a partition is written down: <<k, 0>> is entry k of sector 0,     *)
(* <<k, s>> the entry of boot record s of the chain that entry k leads to. *)
Leads == {k \in 1..4 : Used(volume.mbr[k]) /\ volume.mbr[k].type = "extended"}

Spots ==
  ({k \in 1..4 : Used(volume.mbr[k])} \ Leads) \X {0}
    \cup {spot \in Leads \X DOMAIN volume.ebrs : spot[2] \in UsedOn(volume.mbr[spot[1]].lba)}

PartAt(spot) ==
  IF spot[2] = 0 THEN Entry(volume.mbr[spot[1]], 0)
  ELSE Entry(volume.ebrs[spot[2]].entry, spot[2])

(* Every partition of sector 0, and every logical one that a chain of at   *)
(* most MaxLogical of them leads to, is found, and found once: parse_mbr   *)
(* and parse_ebr, on a disk whose chain may loop, break off or lead back.  *)
PartitionsFound ==
  /\ volume.fs = "disk" /\ volume.signed /\ UsedEntries = <<>> /\ stage \notin {"open", "mbr"}
  /\ \A k \in Leads : Cardinality(UsedOn(volume.mbr[k].lba)) <= MaxLogical
  => {parts[k] : k \in DOMAIN parts} = {PartAt(spot) : spot \in Spots} /\ Len(parts) = Cardinality(Spots)

(* The volume a mode takes is the whole image, where that is one it can    *)
(* read, or a largest one of those it can; the sweep of the whole disk     *)
(* recovers every one, whatever failed before it.                          *)
Wants ==
  CASE volume.mode = "ntfs" -> {"ntfs"} [] volume.mode = "unallocated" -> HasMap [] OTHER -> ModeFs[volume.mode]

IsLargest(start, ks) ==
  \E j \in ks : parts[j].start = start /\ \A k \in ks : parts[k].size <= parts[j].size

WholeImage ==
  \/ volume.mode = "ntfs" /\ DetectFs(0) = "ntfs"
  \/ volume.mode = "unallocated" /\ DetectFs(0) # ""
  \/ volume.mode \in DOMAIN ModeFs /\ DetectFs(0) \in Wants /\ Opens(0)

TakesLargest ==
  /\ chosen # <<>> =>
       IF WholeImage THEN chosen[1].start = 0
       ELSE IsLargest(chosen[1].start,
                      IF volume.mode \in DOMAIN ModeFs THEN Openable(Wants) ELSE Matching(Wants))
  /\ chosen = <<>> /\ volume.mode \in DOMAIN ModeFs => Openable(Wants) = {}

RecoversAll ==
  \A k \in Openable(Supported) : \E i \in tried.recovered : chosen[i + 1].start = parts[k].start

VolumeTaken ==
  volume.fs = "disk" /\ stage \in {"done", "failed"} =>
    IF volume.mode = "auto" THEN RecoversAll ELSE TakesLargest
=============================================================================
