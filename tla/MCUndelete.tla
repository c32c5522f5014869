----------------------------- MODULE MCUndelete -----------------------------
(***************************************************************************)
(* The undelete modes, each on small volumes of its file system, with the  *)
(* partition tables and the allocation map beside them.  A volume comes    *)
(* with what is known of it: truth (file -> data), where (file -> path)    *)
(* and expected (the files that must be found).                            *)
(***************************************************************************)
EXTENDS Ntfs, Fat, Ext4, Hfs, Apfs, Partition, FreeSpace

CONSTANTS
  FileSystems,  \* the ones that are tried
  MaxSteps      \* steps that a stage of a walk may take

VARIABLE steps  \* the steps of the stage so far

(* None of a volume is damaged past the point that nothing is known of it. *)
Known(v, truth, where, expected) ==
  [truth |-> truth, where |-> where, expected |-> expected] @@ v

In(fs, ns) == Directory(<<fs>> \o ns)

-----------------------------------------------------------------------------
(* NTFS: eight records of two cells, in two runs of the table; the block   *)
(* that is read cuts through a record.  Record 1 is a directory and 2 a    *)
(* deleted file in it, of the same name as 7; 3 has its runs in extension  *)
(* record 4; 6 is in use and has a hole.                                   *)
NtfsName(name, parent, seq) == <<[dos |-> FALSE, name |-> name, parent |-> parent, parentSeq |-> seq]>>

NtfsData(name, runs, size) ==
  [name |-> name, resident |-> FALSE, content |-> <<>>, mapped |-> TRUE, runs |-> runs,
   size |-> size, coded |-> FALSE]

Runs(lcn, count) == [lcn |-> lcn, count |-> count]

NtfsRecord(used, dir, ns, ss) ==
  [seq |-> 1, used |-> used, dir |-> dir, base |-> 0, list |-> <<>>, names |-> ns, streams |-> ss]

TableRuns == <<Runs(0, 10), Runs(Nothing, 2), Runs(14, 6)>>

TableAt(n) == IF n < 5 THEN 2 * n ELSE 14 + 2 * (n - 6)

NtfsVolume(up, seq, aliased, far, len) ==
  LET records ==
        (0 :> NtfsRecord(TRUE, FALSE, NtfsName("$MFT", 5, 1), <<NtfsData("", TableRuns, 18)>>)) @@
        (1 :> NtfsRecord(TRUE, TRUE, NtfsName("A", up, 1), <<>>)) @@
        (2 :> NtfsRecord(FALSE, FALSE,
                (IF aliased THEN <<[dos |-> TRUE, name |-> "A~1", parent |-> 1, parentSeq |-> seq]>> ELSE <<>>)
                  \o NtfsName("f", 1, seq),
                <<NtfsData("", <<Runs(10, 1)>>, 1), NtfsData("s", <<Runs(far, 1)>>, 1)>>)) @@
        (3 :> [NtfsRecord(FALSE, FALSE, NtfsName("g", 5, 1), <<NtfsData("", <<Runs(11, 1)>>, 2)>>)
                 EXCEPT !.list = <<3, 4, 4>>]) @@
        (4 :> [NtfsRecord(FALSE, FALSE, <<>>, <<NtfsData("", <<Runs(13, 1)>>, 0)>>) EXCEPT !.base = 3]) @@
        (6 :> NtfsRecord(TRUE, FALSE, NtfsName("h", 1, 1),
                         <<NtfsData("", <<Runs(12, 1), Runs(Nothing, 1), Runs(10, 1)>>, 3)>>)) @@
        (7 :> NtfsRecord(FALSE, FALSE, NtfsName("f", 1, 1), <<NtfsData("", <<Runs(12, 1)>>, 1)>>)) @@
        (8 :> NtfsRecord(FALSE, FALSE, NtfsName("deep", 7, 1), <<NtfsData("", <<Runs(20, 1)>>, 1)>>))
      above == IF up = 5 THEN <<"A">> ELSE <<"_orphan_", "A">>
      file2 == IF seq = 1 THEN above \o <<"f">> ELSE <<"_parent_reused_", "f">>
  IN  Known([fs |-> "ntfs", cells |-> [c \in 1..len |-> 100 + c], cluster |-> 1, clusters |-> 21,
             mftLcn |-> 0, mftSize |-> 18, records |-> records,
             table |-> [c \in UNION {TableAt(n)..(TableAt(n) + 1) : n \in DOMAIN records} |->
                          LET n == CHOOSE m \in DOMAIN records : c \in TableAt(m)..(TableAt(m) + 1)
                          IN  <<n, c - TableAt(n)>>]],
            (<<2, "">> :> <<111>>) @@ (<<3, "">> :> <<112, 114>>) @@ (<<7, "">> :> <<113>>) @@
              (<<2, "s">> :> <<100 + far + 1>>) @@ (<<8, "">> :> <<121>>),
            IF up \in {1, 2} THEN <<>>
            ELSE (<<2, "">> :> In("ntfs", file2)) @@ (<<3, "">> :> In("ntfs", <<"g">>)) @@
                 (<<6, "">> :> In("ntfs", above \o <<"h">>)) @@ (<<7, "">> :> In("ntfs", above \o <<"f">>)),
            IF up = 2 THEN {} ELSE {<<2, "">>, <<3, "">>, <<7, "">>})

(* The parent of A: the root, a record that is gone, itself, its own file, *)
(* which is then in the way of the directory.                              *)
NtfsVolumes ==
  {NtfsVolume(up, seq, aliased, far, len) :
     up \in {5, 9, 1, 2}, seq \in {1, 2}, aliased \in BOOLEAN, far \in {20, 21}, len \in {21}}
    \cup {[NtfsVolume(5, 1, TRUE, 20, len) EXCEPT !.expected = {}] : len \in {13, 15, 19, 20}}

ASSUME NtfsVolumesAssumption == \A v \in NtfsVolumes : IsNtfs(v)

-----------------------------------------------------------------------------
(* FAT and exFAT: clusters of two cells and three slots.  The root         *)
(* directory is clusters 2 and 3, the one in it is cluster 4.              *)
End == [slot |-> "end"]

Piece(text) == [slot |-> "piece", text |-> <<text>>]

FatEntry(kind, name, deleted, start, size) ==
  [slot |-> kind, name |-> <<name>>, deleted |-> deleted, start |-> start, size |-> size]

FatSlots(up) ==
  (2 :> <<Piece("ng"), Piece("lo"), FatEntry("file", "LO~1", TRUE, 5, 2)>>) @@
  (3 :> <<FatEntry("dir", "SUB", FALSE, 4, 0), FatEntry("file", "F", TRUE, 6, 3), [slot |-> "label"]>>) @@
  (4 :> <<FatEntry("file", "G", FALSE, 5, 1), FatEntry("dir", "UP", FALSE, up, 0),
          FatEntry("file", "F", TRUE, 7, 2)>>)

ExfatSet(kind, deleted, start, size, text) ==
  <<[slot |-> kind, deleted |-> deleted, secondary |-> 2],
    [slot |-> "stream", nameLen |-> IF text = "" THEN 0 ELSE 1, start |-> start, size |-> size],
    IF text = "" THEN End ELSE Piece(text)>>

ExfatSlots(up) ==
  (2 :> ExfatSet("file", TRUE, 5, 2, "x")) @@ (3 :> ExfatSet("dir", FALSE, 4, 0, "sub")) @@
  (4 :> ExfatSet("dir", FALSE, up, 0, "up")) @@ (5 :> ExfatSet("file", TRUE, 7, 2, ""))

Empty == <<End, End, End>>

FatVolume(fs, root, next, up, len) ==
  LET fat   == (2 :> next) @@ (3 :> 99) @@ (4 :> IF fs = "exfat" THEN 5 ELSE 99)
      slots == IF fs = "exfat" THEN ExfatSlots(up) ELSE FatSlots(up)
      name(n) == <<Component(fs), Component(n)>>
  IN  Known([fs |-> fs, root |-> root, rootArea |-> slots[2] \o slots[3], clusters |-> 6, cluster |-> 2,
             size |-> 12, unreadable |-> {}, cells |-> [c \in 1..len |-> 200 + c],
             fat |-> fat @@ [c \in 2..7 |-> 0], dirs |-> slots @@ [c \in 2..7 |-> Empty]],
            IF fs = "exfat" THEN (6 :> <<207, 208>>) @@ (15 :> <<211, 212>>)
            ELSE (8 :> <<207, 208>>) @@ (2 :> <<207, 208>>) @@ (10 :> <<209, 210, 211>>)
                   @@ (4 :> <<209, 210, 211>>) @@ (14 :> <<211, 212>>),
            IF fs = "exfat" THEN (6 :> name(<<"x">>)) @@ (15 :> name(<<"exfat", "7">>))
            ELSE (8 :> name(<<"lo", "ng">>)) @@ (2 :> name(<<"lo", "ng">>)) @@ (10 :> name(<<"F">>))
                   @@ (14 :> name(<<"F">>)),
            IF next # 3 \/ len < 12 THEN {}
            ELSE IF fs = "exfat" THEN {6, 15} ELSE IF root = 0 THEN {2, 4, 14} ELSE {8, 10, 14})

(* A chain that ends, goes on, loops or leaves the volume; a directory     *)
(* that leads to its parent, to itself or to none.                         *)
FatVolumes ==
  {FatVolume("fat", root, next, up, len) : root \in {0, 2}, next \in {3, 99, 2, 8}, up \in {2, 4, 7}, len \in {11, 12}}

ExfatVolumes == {FatVolume("exfat", 2, next, up, 12) : next \in {3, 2}, up \in {1, 2, 3, 4, 7}}

-----------------------------------------------------------------------------
(* ext: blocks of one cell.  The root lists directory 3 and file 5, and in *)
(* the slack file 8 with the name of 5; 5 has an indirect block, 6 an      *)
(* extent tree, the map of 7 is gone and the one of 8 has a hole.          *)
ExtInode(kind, size, deleted, map, ptr) ==
  [kind |-> kind, size |-> size, deleted |-> deleted, map |-> map, ptr |-> ptr]

Leaf(exts) == [leaf |-> TRUE, extents |-> exts, children |-> <<>>]

Inner(children) == [leaf |-> FALSE, extents |-> <<>>, children |-> children]

Ext(phys, n) == [phys |-> phys, len |-> n]

ExtInodes(big) ==
  (2 :> ExtInode("dir", 1, FALSE, "pointers", <<2, 0, 0, 0, 0>>)) @@
  (3 :> ExtInode("dir", 1, FALSE, "extents", <<0, 0, 0, 0, 0>>)) @@
  (5 :> IF big THEN ExtInode("file", 6, TRUE, "pointers", <<6, 7, 4, 5, 0>>)
        ELSE ExtInode("file", 4, TRUE, "pointers", <<6, 7, 4, 0, 0>>)) @@
  (6 :> ExtInode("file", 3, TRUE, "extents", <<0, 0, 0, 0, 0>>)) @@
  (7 :> ExtInode("file", 3, TRUE, "extents", <<0, 0, 0, 0, 0>>)) @@
  (8 :> ExtInode("file", 2, TRUE, "pointers", <<10, 0, 0, 0, 0>>)) @@
  (9 :> ExtInode("file", 1, FALSE, "pointers", <<10, 0, 0, 0, 0>>))

Ent(ino, name) == [ino |-> ino, name |-> name]

ExtVolume(big, child, listed, len) ==
  Known([fs |-> "ext4", block |-> 1, blocks |-> 20, count |-> 9, first |-> 4, cells |-> [c \in 1..len |-> 300 + c - 1],
         inodes |-> ExtInodes(big),
         nodes |-> (-3 :> Leaf(<<Ext(3, 1)>>)) @@ (-6 :> Inner(<<child, 18>>)) @@
                   (17 :> Leaf(<<Ext(11, 1), Ext(0, 0), Ext(12, 1)>>)) @@ (18 :> Leaf(<<Ext(13, 1)>>)) @@
                   (19 :> Inner(<<19>>)),
         pointers |-> (4 :> <<8, 9>>) @@ (5 :> <<16, 0>>) @@ (16 :> <<14, 15>>),
         dirents |-> (302 :> <<Ent(listed, "A"), Ent(5, "f"), Ent(8, "f"), Ent(9, "l")>>) @@
                     (303 :> <<Ent(3, "B"), Ent(6, "g"), Ent(12, "x"), Ent(5, "late")>>)],
        (5 :> IF big THEN <<306, 307, 308, 309, 314, 315>> ELSE <<306, 307, 308, 309>>) @@
          (6 :> <<311, 312, 313>>) @@ (8 :> <<310, 999>>),
        IF listed # 3 THEN (5 :> In("ext4", <<"f">>))
        ELSE (5 :> In("ext4", <<"f">>)) @@ (6 :> In("ext4", <<"A", "g">>)) @@ (8 :> In("ext4", <<"f">>)),
        IF len < 20 THEN {} ELSE {5} \cup (IF child = 17 /\ listed = 3 THEN {6} ELSE {}))

ExtVolumes ==
  {ExtVolume(FALSE, child, listed, len) : child \in {17, 19, 1}, listed \in {3, 4}, len \in {13, 20}}

IndirectVolumes == {ExtVolume(TRUE, 17, 3, 20)}

-----------------------------------------------------------------------------
(* HFS+: blocks of one cell, a node in each.  Cells 1 and 2 are the        *)
(* catalog, 3 is a node the tree has dropped.  File 18 was deleted, 20 was *)
(* as well and grew before.  Behind the volume lie nodes of its neighbour, *)
(* 413 where the sweep still comes and 416 where it does not.              *)
HfsFolder(cnid, name, parent) ==
  [dir |-> TRUE, cnid |-> cnid, name |-> name, parent |-> parent, size |-> 0, extents |-> <<>>, listed |-> TRUE]

HfsEntry(cnid, name, parent, size, exts, listed) ==
  [dir |-> FALSE, cnid |-> cnid, name |-> name, parent |-> parent, size |-> size, extents |-> exts, listed |-> listed]

Blk(start, count) == [start |-> start, count |-> count]

HfsVolume(parent, exts, leaf, len) ==
  Known([fs |-> "hfs", block |-> 1, size |-> 12, catalog |-> <<Blk(1, 1), Blk(2, 2)>>, catalogSize |-> 2,
         cells |-> [c \in 1..len |-> 400 + c - 1],
         nodes |->
           (401 :> [leaf |-> TRUE, records |->
              <<HfsFolder(16, "A", parent), HfsEntry(17, "f", 16, 2, <<Blk(4, 2)>>, TRUE),
                HfsEntry(18, "g", 16, 3, exts, FALSE)>>]) @@
           (402 :> [leaf |-> TRUE, records |->
              <<HfsEntry(19, "g", 16, 1, <<Blk(9, 1)>>, FALSE),
                HfsEntry(17, "f", 16, 1, <<Blk(9, 1)>>, FALSE),
                HfsEntry(17, "f", 16, 4, <<Blk(4, 4)>>, FALSE)>>]) @@
           (403 :> [leaf |-> leaf, records |->
              <<HfsEntry(20, "log", 77, 1, <<Blk(10, 1)>>, FALSE), HfsEntry(17, "old", 2, 2, <<Blk(10, 2)>>, FALSE),
                HfsEntry(20, "log", 77, 2, <<Blk(10, 2)>>, FALSE)>>]) @@
           (413 :> [leaf |-> TRUE, records |->
              <<HfsFolder(30, "A", 2), HfsFolder(16, "Z", 2), HfsEntry(31, "f", 30, 1, <<Blk(5, 1)>>, FALSE),
                HfsEntry(18, "n", 30, 3, <<Blk(3, 3)>>, FALSE)>>]) @@
           (416 :> [leaf |-> TRUE, records |-> <<HfsFolder(77, "X", 2)>>])],
        (<<17, 2>> :> <<404, 405>>) @@ (<<17, 1>> :> <<409>>) @@ (<<18, 3>> :> <<406, 407, 408>>) @@
          (<<19, 1>> :> <<409>>) @@ (<<20, 1>> :> <<410>>) @@ (<<20, 2>> :> <<410, 411>>),
        IF parent \notin {2, 66} THEN <<>>
        ELSE (<<17, 2>> :> In("hfs", <<"A", "f">>)) @@ (<<18, 3>> :> In("hfs", <<"A", "g">>)) @@
             (<<19, 1>> :> In("hfs", <<"A", "g">>)) @@ (<<20, 2>> :> In("hfs", <<"log">>)),
        IF len < 12 \/ parent = 18 THEN {} ELSE {<<19, 1>>} \cup (IF Len(exts) = 2 /\ exts[2].start = 11 THEN {} ELSE {<<18, 3>>}) \cup (IF leaf THEN {<<20, 1>>, <<20, 2>>} ELSE {}))

HfsVolumes ==
  {HfsVolume(parent, exts, leaf, len) :
     parent \in {2, 66, 16, 18}, exts \in {<<Blk(6, 3)>>, <<Blk(6, 2), Blk(8, 2)>>, <<Blk(6, 1), Blk(11, 2)>>},
     leaf \in BOOLEAN, len \in {2, 8, 12, 14, 18}}

-----------------------------------------------------------------------------
(* APFS: three leaves, one of which is torn, and behind the container two  *)
(* of its neighbour: 513 where the sweep still comes, with files of other  *)
(* ids, and 516 where it does not.                                         *)
ApfsExtent(id, logical, phys, len) ==
  [kind |-> "extent", id |-> id, logical |-> logical, phys |-> phys, len |-> len]

ApfsInode(id, size) == [kind |-> "inode", id |-> id, size |-> size]

ApfsName(id, parent, name) == [kind |-> "name", id |-> id, parent |-> parent, name |-> name]

ApfsVolume(parent, size, phys, len) ==
  Known([fs |-> "apfs", size |-> 12, cells |-> [c \in 1..len |-> 500 + c - 1],
         leaves |->
           (501 :> [sound |-> TRUE, records |->
              <<ApfsName(16, parent, "A"), ApfsName(17, 16, "f"), ApfsInode(17, Nothing),
                ApfsExtent(17, 2, 6, 1), ApfsExtent(18, 0, 7, 2), ApfsExtent(19, 0, 8, 14)>>]) @@
           (502 :> [sound |-> FALSE, records |-> <<ApfsExtent(18, 0, 8, 2), ApfsName(17, 2, "torn")>>]) @@
           (503 :> [sound |-> TRUE, records |->
              <<ApfsInode(17, size), ApfsExtent(17, 0, phys, 2), ApfsName(18, 16, "f"),
                ApfsName(17, 2, "late"), ApfsExtent(20, 0, 10, 1)>>]) @@
           (513 :> [sound |-> TRUE, records |->
              <<ApfsName(30, 2, "A"), ApfsName(21, 30, "f"), ApfsName(18, 30, "n"), ApfsInode(21, 1),
                ApfsExtent(21, 0, 9, 2)>>]) @@
           (516 :> [sound |-> TRUE, records |-> <<ApfsExtent(18, 0, 9, 2)>>])],
        (17 :> <<504, 505, 506>>) @@ (18 :> <<507, 508>>) @@ (20 :> <<510>>),
        IF parent \in {16, 17} THEN <<>>
        ELSE (17 :> In("apfs", <<"A", "f">>)) @@
             (IF len < 4 THEN <<>> ELSE 18 :> In("apfs", <<"A", "f">>)),
        IF len < 12 \/ parent = 17 THEN {} ELSE {18} \cup (IF phys = 4 THEN {17} ELSE {}))

ApfsVolumes ==
  {ApfsVolume(parent, size, phys, len) :
     parent \in {2, 66, 16, 17}, size \in {3, Nothing}, phys \in {4, 0}, len \in {3, 7, 12, 14, 18}}

-----------------------------------------------------------------------------
(* Disks: two primary partitions and an extended one, whose chain of boot  *)
(* records at 40, 60 and 80 ends, loops or leads to a sector that is none. *)
Ebr(type, lba, count, next) == [entry |-> [type |-> type, lba |-> lba, count |-> count], next |-> next]

DiskEntry(type, lba, count) == [type |-> type, lba |-> lba, count |-> count]

Disk(mode, signed, gpt, next, type, size, whole, broken) ==
  Known([fs |-> "disk", mode |-> mode, signed |-> signed, cells |-> <<>>,
         apm |-> <<DiskEntry("apple-hfs", 4, 9)>>,
         gpt |-> IF gpt THEN <<DiskEntry("basic-data", 10, 6), DiskEntry("none", 0, 0), DiskEntry("linux-fs", 30, 6)>>
                 ELSE <<>>,
         mbr |-> <<DiskEntry("FAT32", 10, 2), DiskEntry("extended", 40, 60), DiskEntry("none", 7, 1),
                   DiskEntry("NTFS/exFAT", 20, 5)>>,
         ebrs |-> (40 :> Ebr("FAT32", 2, size, 20)) @@ (60 :> Ebr(type, 1, 5, next)) @@ (80 :> Ebr("linux", 3, 5, 0)),
         broken |-> broken,
         fsAt |-> (IF whole THEN 0 :> "ext" ELSE <<>>) @@ (10 :> "fat") @@ (20 :> "ntfs") @@ (42 :> "fat") @@
                  (61 :> "ntfs") @@ (30 :> "ext") @@ (4 :> "hfs+")],
        <<>>, <<>>, {})

Disks ==
  {Disk(mode, signed, gpt, next, type, size, whole, broken) :
     mode \in {"ntfs", "fat", "ext4", "hfs", "unallocated", "auto"}, signed \in BOOLEAN, gpt \in BOOLEAN,
     next \in {0, 20, 40, 50}, type \in {"none", "NTFS/exFAT"}, size \in {1, 7}, whole \in BOOLEAN,
     broken \in {{}, {42, 20}, {4, 10, 30}, {0, 42}}}

ASSUME DisksAssumption == \A disk \in Disks : IsDisk(disk)

(* Allocation maps: the bitmap of NTFS, of which some has bits for         *)
(* clusters that are not; two blocks of a FAT and three groups of ext, of  *)
(* which one is cut short or cannot be read.                               *)
Map(fs, groups_, n, past) ==
  Known([fs |-> "bitmap", cells |-> <<>>, mapOf |-> fs, groups |-> groups_, clusters |-> n, end |-> past],
        <<>>, <<>>, {})

Part(first, want, bits) == [first |-> first, want |-> want, bits |-> bits]

Bits(n) == [1..n -> BOOLEAN]

Bitmaps ==
  {Map("ntfs", <<Part(0, n, used)>>, n, n) : used \in Bits(7), n \in {5, 7, 8}}
    \cup {Map("fat", <<Part(0, 4, used), Part(4, 4, rest)>>, 7, past) :
            used \in Bits(4) \cup Bits(2), rest \in Bits(4) \cup {<<>>}, past \in {6, 7}}
    \cup {Map("ext", <<Part(1, 3, used), Part(4, 3, more), Part(7, 3, rest), Part(10, 3, rest)>>, 9, 9) :
            used \in Bits(3) \cup Bits(2), more \in Bits(3) \cup {<<>>}, rest \in Bits(3) \cup {<<>>}}

-----------------------------------------------------------------------------
VolumeInit ==
  \/ "ntfs" \in FileSystems /\ volume \in NtfsVolumes
  \/ "fat" \in FileSystems /\ volume \in FatVolumes
  \/ "exfat" \in FileSystems /\ volume \in ExfatVolumes
  \/ "ext4" \in FileSystems /\ volume \in ExtVolumes
  \/ "ext4_indirect" \in FileSystems /\ volume \in IndirectVolumes
  \/ "hfs" \in FileSystems /\ volume \in HfsVolumes
  \/ "apfs" \in FileSystems /\ volume \in ApfsVolumes
  \/ "disk" \in FileSystems /\ volume \in Disks
  \/ "bitmap" \in FileSystems /\ volume \in Bitmaps

Single == {"disk", "bitmap"}

MCInit ==
  /\ VolumeInit
  /\ opts \in {[dry |-> dry, live |-> live] : dry \in BOOLEAN, live \in BOOLEAN}
  /\ volume.fs \in Single => opts = [dry |-> FALSE, live |-> FALSE]
  /\ UndeleteInit /\ NtfsInit /\ FatInit /\ HfsInit /\ ApfsInit /\ PartitionInit /\ FreeInit
  /\ mapOf = IF volume.fs = "bitmap" THEN volume.mapOf ELSE ""
  /\ groups = IF volume.fs = "bitmap" THEN volume.groups ELSE <<>>
  /\ clusters = IF volume.fs = "bitmap" THEN volume.clusters ELSE 0
  /\ volumeEnd = IF volume.fs = "bitmap" THEN volume.end ELSE 0
  /\ steps = 0

Step ==
  \/ NtfsStep /\ UNCHANGED <<fatVars, hfsVars, apfsVars, partitionVars, freeVars>>
  \/ FatStep /\ UNCHANGED <<ntfsVars, hfsVars, apfsVars, partitionVars, freeVars>>
  \/ ExtStep /\ UNCHANGED <<ntfsVars, fatVars, hfsVars, apfsVars, partitionVars, freeVars>>
  \/ HfsStep /\ UNCHANGED <<ntfsVars, fatVars, apfsVars, partitionVars, freeVars>>
  \/ ApfsStep /\ UNCHANGED <<ntfsVars, fatVars, hfsVars, partitionVars, freeVars>>
  \/ PartitionStep /\ UNCHANGED <<ntfsVars, fatVars, hfsVars, apfsVars, freeVars>>
  \/ volume.fs = "bitmap" /\ FreeStep /\ UNCHANGED <<undeleteVars, ntfsVars, fatVars, hfsVars, apfsVars, partitionVars>>

allVars == <<undeleteVars, ntfsVars, fatVars, hfsVars, apfsVars, partitionVars, freeVars, steps>>

Ended ==
  \/ stage \in {"listed", "failed"}
  \/ volume.fs = "disk" /\ volume.mode # "auto" /\ stage = "done"
  \/ volume.fs = "bitmap" /\ Mapped

MCNext ==
  \/ Step /\ steps' = IF stage' = stage THEN steps + 1 ELSE 0
  \/ Ended /\ UNCHANGED allVars

MCSpec == MCInit /\ [][MCNext]_allVars

-----------------------------------------------------------------------------
(* A file that is reported as validated, of which the volume still has all *)
(* the data where its metadata say, has that data and no other.            *)
ValidatedIsRight ==
  \A k \in DOMAIN report :
    report[k].validated /\ report[k].out # <<>> /\ report[k].id \in DOMAIN volume.truth
      => report[k].data = volume.truth[report[k].id]

(* The files that the volume still has in full are all reported, and as    *)
(* validated.                                                              *)
AllFound ==
  stage = "done" =>
    volume.expected \subseteq {report[k].id : k \in {j \in DOMAIN report : report[j].validated}}

(* The path that is reported is the one the file had, whatever order the   *)
(* records were walked in; where an ancestor is gone, as much as is left.  *)
PathsAreTrue ==
  \A k \in DOMAIN report :
    report[k].id \in DOMAIN volume.where => report[k].path = volume.where[report[k].id]

(* Nothing of what the volume still has is lost on the way, and nothing    *)
(* comes back in another place: the whole files are found, each path that  *)
(* is reported is the one the file had.                                    *)
FoundInPlace == AllFound /\ PathsAreTrue

(* The walk ends on every volume, also where the links on it lead back: no *)
(* stage of it goes on for ever, and no stage comes twice.                 *)
UndeleteEnds == steps <= MaxSteps
=============================================================================
