-------------------------------- MODULE Ext4 --------------------------------
(***************************************************************************)
(* ext2/3/4 undelete: recover of src/src/ext4.rs.  Names come from the     *)
(* blocks of every directory, live entries and the ones left in the slack  *)
(* of a record, content from the block maps of the inodes.                 *)
(*                                                                         *)
(* volume.inodes has the inodes that can be read: [kind, size, deleted,    *)
(* map, ptr], with map one of "inline", "extents" and "pointers".  The     *)
(* root of an extent tree is volume.nodes[-ino], an inner node or a leaf   *)
(* is volume.nodes[block]: [leaf, extents, children], with an extent       *)
(* [phys, len].  volume.pointers[block] is what a block holds as pointers, *)
(* volume.dirents[cell] the entries in a directory's cell, in the order in *)
(* which they are met.                                                     *)
(***************************************************************************)
EXTENDS Undelete

CONSTANTS
  Direct,   \* pointers to data in an inode (12)
  MaxTree,  \* levels of an extent tree (5)
  MaxPops   \* indirect blocks that are expanded (65536)

ASSUME Ext4Assumption == Direct \in Nat /\ MaxTree \in Nat /\ MaxPops \in Nat

Inode(ino) == volume.inodes[ino]

Inodes == DOMAIN volume.inodes \cap 1..volume.count

(* Volume::block: block 0 is never one of a tree. *)
IsBlock(b) == b # 0 /\ b < volume.blocks

ExtRange(phys, n) ==
  [at |-> IF phys = 0 THEN Nothing ELSE phys * volume.block, len |-> n * volume.block,
   from |-> Nothing]

-----------------------------------------------------------------------------
(* walk_extents: the extents under a node, in order, and whether every     *)
(* node was there.                                                         *)
NoNode == [found |-> FALSE, ranges |-> <<>>, ok |-> FALSE]

Extents(root) ==
  LET walk[d \in 0..(MaxTree + 1), n \in DOMAIN volume.nodes] ==
        LET node   == volume.nodes[n]
            child(k) == LET c == node.children[k]
                        IN  IF IsBlock(c) /\ c \in DOMAIN volume.nodes THEN walk[d + 1, c] ELSE NoNode
            below  == [k \in DOMAIN node.children |-> child(k)]
            held   == SelectSeq(node.extents, LAMBDA e : e.len # 0)
        IN  IF d > MaxTree THEN NoNode
            ELSE IF node.leaf
              THEN [found |-> TRUE, ok |-> TRUE,
                    ranges |-> [k \in DOMAIN held |-> ExtRange(held[k].phys, held[k].len)]]
            ELSE [found |-> TRUE, ok |-> \A k \in DOMAIN below : below[k].found /\ below[k].ok,
                  ranges |-> FlattenSeq([k \in DOMAIN below |-> below[k].ranges])]
  IN  IF root \in DOMAIN volume.nodes THEN walk[0, root] ELSE NoNode

(* classic_map: the direct pointers, then a stack of indirect blocks from  *)
(* which the one that was put there last is expanded first.                *)
Pending(ptr) ==
  SelectSeq([k \in 1..3 |-> [block |-> ptr[Direct + k], level |-> k]], LAMBDA p : p.block # 0)

Expand(s, want) ==
  LET top  == Last(s.pending)
      kids == IF IsBlock(top.block) /\ top.block \in DOMAIN volume.pointers
                THEN volume.pointers[top.block] ELSE <<>>
      next == SelectSeq(kids, LAMBDA b : b # 0)
  IN  IF top.level = 1
        THEN [out |-> s.out \o SubSeq(kids, 1, Least(Len(kids), want - Len(s.out))),
              pending |-> Front(s.pending)]
        ELSE [out |-> s.out,
              pending |-> Front(s.pending) \o
                          Reverse([k \in DOMAIN next |-> [block |-> next[k], level |-> top.level - 1]])]

Blocks(ptr, want) ==
  LET map[k \in 0..MaxPops] ==
        IF k = 0 THEN [out |-> SubSeq(ptr, 1, Least(Direct, want)), pending |-> Pending(ptr)]
        ELSE LET s == map[k - 1]
             IN  IF s.pending = <<>> \/ Len(s.out) >= want THEN s ELSE Expand(s, want)
  IN  map[MaxPops].out

CeilDiv(a, b) == (a + b - 1) \div b

(* block_map: what is found of the file, or nothing at all.                *)
BlockMap(ino) ==
  LET i   == Inode(ino)
      out == Blocks(i.ptr, CeilDiv(i.size, volume.block))
  IN  CASE i.map = "inline"  -> NoNode
        [] i.map = "extents" -> LET e == Extents(0 - ino) IN [e EXCEPT !.found = @ /\ e.ranges # <<>>]
        [] OTHER -> [found |-> out # <<>>, ranges |-> [k \in DOMAIN out |-> ExtRange(out[k], 1)],
                     ok |-> \A k \in DOMAIN out : out[k] # 0]

ReadInode(ino) ==
  LET map == BlockMap(ino)
      got == Gather(map.ranges, Inode(ino).size, Cells)
  IN  [found |-> map.found, data |-> got.data, ok |-> map.ok /\ got.ok]

-----------------------------------------------------------------------------
ExtOpen ==
  /\ stage = "open" /\ volume.fs = "ext4"
  /\ stage' = "names" /\ at' = 2
  /\ UNCHANGED <<fixed, names, paths, outVars>>

(* directory_names: one inode, which may be a directory of at most 64      *)
(* blocks.                                                                 *)
IsDirectory(ino) ==
  /\ ino \in Inodes /\ Inode(ino).kind = "dir"
  /\ Inode(ino).size \in 1..(64 * volume.block) /\ ReadInode(ino).found

Dirents(data) ==
  FlattenSeq([k \in DOMAIN data |->
    IF data[k] \in DOMAIN volume.dirents THEN volume.dirents[data[k]] ELSE <<>>])

ExtNames ==
  /\ stage = "names" /\ volume.fs = "ext4" /\ at <= volume.count
  /\ names' =
       IF IsDirectory(at)
         THEN FoldLeft(LAMBDA so, e : IF e.ino \in 1..volume.count THEN Named(so, e.ino, e.name, at) ELSE so,
                       names, Dirents(ReadInode(at).data))
         ELSE names
  /\ at' = at + 1
  /\ UNCHANGED <<fixed, stage, paths, outVars>>

ExtNamed ==
  /\ stage = "names" /\ volume.fs = "ext4" /\ at > volume.count
  /\ stage' = "paths"
  /\ UNCHANGED <<fixed, known, outVars>>

ExtPath ==
  WalkPath("ext4", [root |-> 2, deep |-> <<"_deep_">>, orphan |-> <<"_orphan_">>, cut |-> {}])

ExtPathsKnown == PathsKnown("ext4")

-----------------------------------------------------------------------------
ExtWanted(ino) ==
  /\ ino \in Inodes /\ ino >= volume.first
  /\ Inode(ino).kind = "file" /\ Inode(ino).size > 0
  /\ Inode(ino).deleted \/ opts.live

Unplaced(path) == path = <<>> \/ path = <<"_orphan_">>

(* A file whose map was cleared is only counted. *)
ExtFile ==
  /\ stage = "files" /\ volume.fs = "ext4" /\ at < volume.count
  /\ LET ino  == at + 1
         path == PathOf(ino)
         got  == ReadInode(ino)
         out  == Directory(<<"ext4">> \o (IF Unplaced(path) THEN <<"_orphans", ToString(ino)>> ELSE path))
     IN  IF ~ExtWanted(ino) \/ ~got.found THEN UNCHANGED outVars
         ELSE Emit([id |-> ino, path |-> Directory(<<"ext4">> \o path), out |-> FreeName(out, ino),
                    size |-> Inode(ino).size, data |-> got.data,
                    validated |-> got.ok /\ ~Unplaced(path), deleted |-> Inode(ino).deleted])
  /\ at' = at + 1
  /\ UNCHANGED <<fixed, stage, names, paths>>

ExtDone ==
  /\ stage = "files" /\ volume.fs = "ext4" /\ at = volume.count
  /\ stage' = "done"
  /\ UNCHANGED <<fixed, known, outVars>>

(* run_ext4, when the walk is over. *)
ExtList == volume.fs = "ext4" /\ List

ExtStep ==
  \/ ExtOpen \/ ExtNames \/ ExtNamed \/ ExtPath \/ ExtPathsKnown \/ ExtFile \/ ExtDone \/ ExtList

ExtSpec == UndeleteInit /\ [][ExtStep]_undeleteVars
=============================================================================
