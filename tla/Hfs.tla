-------------------------------- MODULE Hfs ---------------------------------
(***************************************************************************)
(* HFS+ undelete: recover of src/src/hfs.rs.  The nodes of the catalog     *)
(* file are read for records by their shape, which finds the ones a delete *)
(* took out of a node's record array as well; then every sector of the     *)
(* volume, and of what its last read has of the disk behind it, is tried   *)
(* as a leaf node of a catalog that was.                                   *)
(*                                                                         *)
(* A node is a cell; volume.nodes[cell] is [leaf, records], the records in *)
(* the order they lie in it: [dir, cnid, name, parent, size, extents,      *)
(* listed], with extents a sequence of [start, count] in blocks and listed *)
(* whether the node's own record array points at it.                       *)
(***************************************************************************)
EXTENDS Undelete

VARIABLES
  found,  \* the records of the catalog
  swept,  \* the records of the sweep of the volume
  todo,   \* the ones still to be recovered
  taken   \* seen: the files that were taken up, [cnid, size]

hfsVars == <<found, swept, todo, taken>>

HfsInit == found = <<>> /\ swept = <<>> /\ todo = <<>> /\ taken = {}

Node(cell) ==
  IF cell \in DOMAIN volume.nodes THEN volume.nodes[cell] ELSE [leaf |-> FALSE, records |-> <<>>]

(* read_fork: an extent that reaches past the volume is the last.          *)
InVolume(o, n) == IF o + n > volume.size THEN <<>> ELSE Cells(o, n)

Fork(extents, size) ==
  Gather([k \in DOMAIN extents |-> [at |-> extents[k].start * volume.block,
                                    len |-> extents[k].count * volume.block, from |-> Nothing]],
         size, InVolume)

Catalog == Fork(volume.catalog, volume.catalogSize).data

(* scan_node: the files in a node, and the names of files and folders.     *)
FilesIn(node) ==
  SelectSeq(node.records, LAMBDA r : ~r.dir /\ r.size \in 1..volume.size /\ r.extents # <<>>)

NamesIn(so, node) ==
  FoldLeft(LAMBDA ns, r : Named(ns, r.cnid, r.name, r.parent), so,
           SelectSeq(node.records,
                     LAMBDA r : r.dir \/ (r.size \in 1..volume.size /\ r.extents # <<>>)))

HfsOpen ==
  /\ stage = "open" /\ volume.fs = "hfs"
  /\ stage' = IF Catalog = <<>> THEN "failed" ELSE "catalog"
  /\ UNCHANGED <<fixed, known, outVars, hfsVars>>

HfsCatalog ==
  /\ stage = "catalog" /\ at < Len(Catalog)
  /\ LET node == Node(Catalog[at + 1])
     IN  names' = NamesIn(names, node) /\ found' = found \o FilesIn(node)
  /\ at' = at + 1
  /\ UNCHANGED <<fixed, stage, paths, outVars, swept, todo, taken>>

HfsCatalogRead ==
  /\ stage = "catalog" /\ at = Len(Catalog)
  /\ stage' = "sweep" /\ at' = 0
  /\ UNCHANGED <<fixed, names, paths, outVars, hfsVars>>

(* scan_volume: the records of a leaf node anywhere, except of a file that *)
(* the tree has, and each once.                                            *)
LiveCnids == {found[k].cnid : k \in {j \in DOMAIN found : found[j].listed}}

SameFile(e, f) == e.cnid = f.cnid /\ e.size = f.size

Fresh(so, node) ==
  FoldLeft(LAMBDA s, e : IF e.cnid \in LiveCnids \/ \E k \in DOMAIN s : SameFile(s[k], e) THEN s
                         ELSE Append(s, e),
           so, FilesIn(node))

HfsSweep ==
  /\ stage = "sweep" /\ at < SweepEnd
  /\ LET node == Node(volume.cells[at + 1])
     IN  IF node.leaf THEN names' = NamesIn(names, node) /\ swept' = Fresh(swept, node)
         ELSE UNCHANGED <<names, swept>>
  /\ at' = at + 1
  /\ UNCHANGED <<fixed, stage, paths, outVars, found, todo, taken>>

(* Deleted records first.                                                  *)
DeletedFirst(s) == SelectSeq(s, LAMBDA e : ~e.listed) \o SelectSeq(s, LAMBDA e : e.listed)

HfsSwept ==
  /\ stage = "sweep" /\ at = SweepEnd
  /\ stage' = "paths"
  /\ todo' = DeletedFirst(found \o swept)
  /\ UNCHANGED <<fixed, known, outVars, found, swept, taken>>

HfsPath ==
  /\ WalkPath("hfs", [root |-> 2, deep |-> <<>>, orphan |-> <<>>, cut |-> {}])
  /\ UNCHANGED hfsVars

HfsPathsKnown == PathsKnown("hfs") /\ UNCHANGED hfsVars

-----------------------------------------------------------------------------
Unlinked(e) == ~e.listed /\ e.cnid \notin LiveCnids

(* One record; a second one of the same file and size is passed over.      *)
HfsFile ==
  /\ stage = "files" /\ volume.fs = "hfs" /\ todo # <<>>
  /\ LET e    == Head(todo)
         got  == Fork(e.extents, e.size)
         path == PathOf(e.cnid)
         out  == Directory(<<"hfs">> \o (IF path = <<>> THEN <<"_orphans", ToString(e.cnid)>> ELSE path))
         id   == <<e.cnid, e.size>>
     IN  IF (Unlinked(e) \/ opts.live) /\ id \notin taken
           THEN /\ Emit([id |-> id, path |-> Directory(<<"hfs">> \o (IF path = <<>> THEN <<e.name>> ELSE path)),
                         out |-> FreeName(out, e.cnid), size |-> e.size, data |-> got.data,
                         validated |-> got.ok, deleted |-> Unlinked(e)])
                /\ taken' = taken \cup {id}
           ELSE UNCHANGED <<outVars, taken>>
  /\ todo' = Tail(todo)
  /\ UNCHANGED <<fixed, known, stage, found, swept>>

HfsDone ==
  /\ stage = "files" /\ volume.fs = "hfs" /\ todo = <<>>
  /\ stage' = "done"
  /\ UNCHANGED <<fixed, known, outVars, hfsVars>>

(* run_hfs, when the walk is over. *)
HfsList == volume.fs = "hfs" /\ List /\ UNCHANGED hfsVars

HfsStep ==
  \/ HfsOpen \/ HfsCatalog \/ HfsCatalogRead \/ HfsSweep \/ HfsSwept
  \/ HfsPath \/ HfsPathsKnown \/ HfsFile \/ HfsDone \/ HfsList

HfsSpec == UndeleteInit /\ HfsInit /\ [][HfsStep]_<<undeleteVars, hfsVars>>
=============================================================================
