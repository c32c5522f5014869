---------------------------- MODULE ImageFormats ----------------------------
(***************************************************************************)
(* How each kind of image holds its media: what the theorems about the     *)
(* readers assume of a source, stated from the layout of the container and *)
(* not from the way it is read.  Whether the media can be read back is     *)
(* what is to be shown.  A raw image and an E01 may have parts that cannot *)
(* be read, and so may a segment of a split image.                         *)
(***************************************************************************)
EXTENDS Readers

IsFile(f) == f.bytes \in Seq(Nat) /\ f.bad \subseteq Nat

Whole(f) == IsFile(f) /\ f.bad = {}

(* n bytes at at are found at o in the file. *)
Stored(f, o, n, s, at) ==
  o \in Nat /\ o + n <= Len(f.bytes) /\ \A b \in 1..n : f.bytes[o + b] = s.plain[at + b]

HoldsRaw(s) == IsFile(s.file) /\ s.file.bytes = s.plain

HoldsSplit(s) ==
  /\ Len(s.segs) \in Nat /\ DOMAIN s.segs = 1..Len(s.segs) /\ \A i \in DOMAIN s.segs : IsFile(s.segs[i])
  /\ \E start \in [1..(Len(s.segs) + 1) -> 0..s.size] :
       /\ start[1] = 0 /\ start[Len(s.segs) + 1] = s.size
       /\ \A i \in DOMAIN s.segs :
            /\ start[i + 1] = start[i] + Len(s.segs[i].bytes)
            /\ Stored(s.segs[i], 0, Len(s.segs[i].bytes), s, start[i])

(* Byte b of the cluster or grain with entry e. *)
UnitByte(s, e, b) ==
  CASE e = 0 -> 0
    [] e < 0 -> s.packed[-e][b]
    [] e > 0 -> IF e + b <= Len(s.file.bytes) THEN s.file.bytes[e + b] ELSE 0

HoldsTables(s) ==
  LET unitOf(t, k) == (t - 1) * s.perTable + k - 1
  IN  /\ s.unit \in Nat \ {0} /\ s.perTable \in Nat \ {0} /\ Whole(s.file)
      /\ s.dir \in Seq(0..Len(s.tables)) /\ s.tables \in Seq([1..s.perTable -> Int])
      /\ s.packed \in Seq([1..s.unit -> Nat])
      /\ \A t \in DOMAIN s.tables : \A k \in 1..s.perTable :
           IF s.kind = "vmdk" THEN s.tables[t][k] >= 0 ELSE s.tables[t][k] >= -Len(s.packed)
      /\ \A t \in DOMAIN s.dir : \A k \in 1..s.perTable : \A b \in 1..s.unit :
           unitOf(t, k) * s.unit + b <= s.size =>
             s.plain[unitOf(t, k) * s.unit + b] =
               IF s.dir[t] = 0 THEN 0 ELSE UnitByte(s, s.tables[s.dir[t]][k], b)
      /\ \A at \in (Len(s.dir) * s.perTable * s.unit + 1)..s.size : s.plain[at] = 0

HoldsChunks(s) ==
  LET chunk(i) == (i - 1) * s.unit
      size(i)  == Least(s.unit, s.size - chunk(i))
  IN  /\ s.unit \in Nat \ {0}
      /\ Len(s.chunks) \in Nat /\ DOMAIN s.chunks = 1..Len(s.chunks)
      /\ chunk(Len(s.chunks)) < s.size /\ s.size <= chunk(Len(s.chunks) + 1)
      /\ \A i \in DOMAIN s.chunks :
           LET c == s.chunks[i]
           IN  IF c.compressed
                 THEN c.plain = SubSeq(s.plain, chunk(i) + 1, chunk(i) + size(i)) /\ c.decodes \in 0..size(i)
                 ELSE IsFile(s.files[c.segment]) /\ Stored(s.files[c.segment], c.offset, size(i), s, chunk(i))

(* Where sector n of a volume is kept in it: the first ones, the header,   *)
(* may have been moved.                                                    *)
Kept(v, n) ==
  IF v.headerSrc # 0 /\ n * v.sector < v.headerBytes
    THEN v.headerSrc + n * v.sector ELSE n * v.sector

(* A sector is encrypted for the place where it is kept. *)
HoldsVolumes(s) ==
  /\ Whole(s.file) /\ Len(s.file.bytes) = s.size /\ s.plain \in Seq(0..(Key - 1))
  /\ \A v \in s.volumes :
       /\ {v.base, v.headerBytes, v.headerSrc} \subseteq Nat /\ v.sector \in Nat \ {0}
       /\ v.base + v.size <= s.size
       /\ v.size \in Nat /\ v.size % v.sector = 0
       /\ \A n \in 0..v.size : n * v.sector < v.size =>
            /\ v.base + Kept(v, n) + v.sector <= s.size
            /\ \A b \in 1..v.sector :
                 s.file.bytes[v.base + Kept(v, n) + b] =
                   s.plain[v.base + n * v.sector + b] + Key * (Kept(v, n) \div v.sector + 1)
  /\ \A at \in 0..(s.size - 1) :
       (\A v \in s.volumes : ~(v.base <= at /\ at < v.base + v.size))
         => s.file.bytes[at + 1] = s.plain[at + 1]

ASSUME FormatsAssumption ==
  \A s \in Sources :
    /\ s.plain \in Seq(Nat) /\ Len(s.plain) = s.size
    /\ s.kind = "raw" => HoldsRaw(s)
    /\ s.kind = "split" => HoldsSplit(s)
    /\ s.kind \in {"qcow2", "vmdk"} => HoldsTables(s)
    /\ s.kind = "ewf" => HoldsChunks(s)
    /\ s.kind = "bitlocker" => HoldsVolumes(s)
=============================================================================
