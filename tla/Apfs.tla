-------------------------------- MODULE Apfs --------------------------------
(***************************************************************************)
(* APFS recovery: recover of src/src/apfs.rs.  Every block is tried as a   *)
(* leaf of a file system tree, also the ones behind the container that its *)
(* last read has, and the records of all of them, of any version of the    *)
(* tree, are joined by the id of the file.                                 *)
(*                                                                         *)
(* A block is a cell; volume.leaves[cell] is [sound, records], with sound  *)
(* whether the checksum agrees and a record one of                         *)
(*   [kind |-> "extent", id, logical, phys, len]  -- [kind |-> "inode", id, *)
(*   size] (Nothing where it has none)  -- [kind |-> "name", id, parent,   *)
(*   name]                                                                 *)
(***************************************************************************)
EXTENDS Undelete

VARIABLES
  sizes,    \* inodes: file -> size
  extents,  \* file -> where in the file -> [phys, len]
  ids       \* the files still to be recovered

apfsVars == <<sizes, extents, ids>>

ApfsInit == sizes = <<>> /\ extents = <<>> /\ ids = {}

ApfsOpen ==
  /\ stage = "open" /\ volume.fs = "apfs"
  /\ stage' = "blocks"
  /\ UNCHANGED <<fixed, known, outVars, apfsVars>>

-----------------------------------------------------------------------------
(* parse_leaf, decode_record: the first name and the first size known of a *)
(* file stay, of its extents the last one at a place.                      *)
SoundLeafSlip(cell) == cell \in DOMAIN volume.leaves

SoundLeaf(cell) == cell \in DOMAIN volume.leaves /\ volume.leaves[cell].sound

OfKind(records, kind) == SelectSeq(records, LAMBDA r : r.kind = kind)

WithExtent(so, r) ==
  IF r.len \notin 1..volume.size THEN so
  ELSE LET of == IF r.id \in DOMAIN so THEN so[r.id] ELSE <<>>
       IN  (r.id :> ((r.logical :> [phys |-> r.phys, len |-> r.len]) @@ of)) @@ so

ApfsBlock ==
  /\ stage = "blocks" /\ at < SweepEnd
  /\ LET cell    == volume.cells[at + 1]
         records == IF SoundLeaf(cell) THEN volume.leaves[cell].records ELSE <<>>
     IN  /\ names' = FoldLeft(LAMBDA so, r : Named(so, r.id, r.name, r.parent), names, OfKind(records, "name"))
         /\ sizes' = FoldLeft(LAMBDA so, r : IF r.size = Nothing THEN so ELSE so @@ (r.id :> r.size),
                              sizes, OfKind(records, "inode"))
         /\ extents' = FoldLeft(WithExtent, extents, OfKind(records, "extent"))
  /\ at' = at + 1
  /\ UNCHANGED <<fixed, stage, paths, outVars, ids>>

ApfsScanned ==
  /\ stage = "blocks" /\ at = SweepEnd
  /\ stage' = "paths"
  /\ ids' = DOMAIN extents
  /\ UNCHANGED <<fixed, known, outVars, sizes, extents>>

ApfsPath ==
  /\ WalkPath("apfs", [root |-> 2, deep |-> <<>>, orphan |-> <<>>, cut |-> {}])
  /\ UNCHANGED apfsVars

ApfsPathsKnown == PathsKnown("apfs") /\ UNCHANGED apfsVars

-----------------------------------------------------------------------------
(* The size in the inode, or what the extents cover.                       *)
SizeOf(id) ==
  IF id \in DOMAIN sizes THEN sizes[id]
  ELSE Max({l + extents[id][l].len : l \in DOMAIN extents[id]})

(* read_extents: in the order of their place in the file. *)
InOrder(exts) ==
  LET places == SetToSortSeq(DOMAIN exts, <)
  IN  [k \in DOMAIN places |->
         [at |-> IF exts[places[k]].phys = 0 THEN Nothing ELSE exts[places[k]].phys,
          len |-> exts[places[k]].len, from |-> places[k]]]

(* The full path, or the bare name where the ancestry is gone.             *)
BestPath(id) ==
  IF id \in DOMAIN names /\ PathOf(id) = <<>> THEN <<names[id].name>> ELSE PathOf(id)

(* The file with the smallest id of those that are left.                   *)
ApfsFile ==
  /\ stage = "files" /\ volume.fs = "apfs"
  /\ \E id \in ids :
       LET path == BestPath(id)
           got  == Gather(InOrder(extents[id]), SizeOf(id), Cells)
           out  == Directory(<<"apfs">> \o (IF path = <<>> THEN <<"_unnamed", ToString(id)>> ELSE path))
       IN  /\ \A other \in ids : id <= other
           /\ IF SizeOf(id) \notin 1..volume.size THEN UNCHANGED outVars
              ELSE Emit([id |-> id, path |-> Directory(<<"apfs">> \o path), out |-> FreeName(out, id),
                         size |-> SizeOf(id), data |-> got.data,
                         validated |-> got.ok /\ path # <<>>, deleted |-> TRUE])
           /\ ids' = ids \ {id}
  /\ UNCHANGED <<fixed, known, stage, sizes, extents>>

ApfsDone ==
  /\ stage = "files" /\ volume.fs = "apfs" /\ ids = {}
  /\ stage' = "done"
  /\ UNCHANGED <<fixed, known, outVars, apfsVars>>

(* run_apfs, when the walk is over. *)
ApfsList == volume.fs = "apfs" /\ List /\ UNCHANGED apfsVars

ApfsStep ==
  \/ ApfsOpen \/ ApfsBlock \/ ApfsScanned \/ ApfsPath \/ ApfsPathsKnown \/ ApfsFile \/ ApfsDone \/ ApfsList

ApfsSpec == UndeleteInit /\ ApfsInit /\ [][ApfsStep]_<<undeleteVars, apfsVars>>
=============================================================================
