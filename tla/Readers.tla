------------------------------ MODULE Readers -------------------------------
(***************************************************************************)
(* The sources a scan reads from: Source::pread in src/src/reader.rs and   *)
(* the readers behind it, in reader.rs (raw, BitLocker), images.rs (split  *)
(* raw, QCOW2, sparse VMDK) and ewf.rs (E01).  Each pread is a loop, one   *)
(* iteration to an action.                                                 *)
(*                                                                         *)
(* A source is a record of its kind, its size, the tables its reader has   *)
(* built when it was opened, and plain, the media it was made from.  A     *)
(* file is its bytes and the positions that cannot be read.                *)
(* A byte is a number below Key; encrypted for sector n it is a number     *)
(* from which only Decrypt(n, .) gets it back.                             *)
(***************************************************************************)
EXTENDS Integers, SequencesExt

CONSTANTS
  Sources,    \* the images that may be opened
  CacheSize,  \* decoded chunks a thread keeps (8)
  Key         \* more than any byte

Kinds == {"raw", "split", "qcow2", "vmdk", "ewf", "bitlocker"}

Least(a, b) == IF a < b THEN a ELSE b

ASSUME SourcesAssumption == \A s \in Sources : s.kind \in Kinds /\ s.size \in Nat \ {0}
ASSUME CacheAssumption   == CacheSize \in Nat \ {0} /\ Key \in Nat \ {0}

VARIABLES
  source,      \* the source that is open
  chunkCache,  \* decoded chunks, oldest first
  call,        \* the pread in progress: where, how much, and how much of it exists
  pos,         \* where its loop has come to
  seg,         \* split raw: the segment its loop has come to
  out,         \* what it has read
  answer       \* the latest answer

vars == <<source, chunkCache, call, pos, seg, out, answer>>

NoCall == [off |-> 0, want |-> 0, len |-> 0]
NoAnswer == [off |-> 0, want |-> 0, data |-> <<>>]

Busy == call # NoCall

Zeros(n) == [k \in 1..n |-> 0]

PadTo(s, n) == IF Len(s) < n THEN s \o Zeros(n - Len(s)) ELSE s

-----------------------------------------------------------------------------
(* read_at: up to n bytes of a file, stopping at what cannot be read.      *)
ReadAt(f, o, n) ==
  LET stops == {x \in f.bad : x >= o} \cup {Len(f.bytes)}
      stop  == CHOOSE x \in stops : \A y \in stops : x <= y
  IN  SubSeq(f.bytes, o + 1, Least(o + n, stop))

(* Split raw: where segment i starts in the joined image. *)
Base(s, i) ==
  LET total[k \in 0..Len(s.segs)] == IF k = 0 THEN 0 ELSE total[k - 1] + Len(s.segs[k].bytes)
  IN  total[i - 1]

(* QCOW2 and VMDK: the entry of a cluster or grain, through a directory of *)
(* tables; 0 is not allocated, a negative one compressed.                  *)
Entry(s, i) ==
  LET t == (i \div s.perTable) + 1
  IN  IF t \notin DOMAIN s.dir \/ s.dir[t] = 0 THEN 0
      ELSE s.tables[s.dir[t]][(i % s.perTable) + 1]

(* Qcow2Reader::cluster: a whole cluster, zeros where there is nothing. *)
Cluster(s, i) ==
  LET e == Entry(s, i)
  IN  CASE e = 0 -> Zeros(s.unit)
        [] e < 0 -> s.packed[-e]
        [] e > 0 -> PadTo(ReadAt(s.file, e, s.unit), s.unit)

(* A definition whose name ends in Slip is the one after it with a         *)
(* plausible mistake; no specification uses it.                            *)
WithinSlip(s, p) == 0

Within(s, p) == p % s.unit

(* VmdkReader::pread: the rest of a grain. *)
Grain(s, p, n) ==
  LET e    == Entry(s, p \div s.unit)
      take == Least(s.unit - Within(s, p), n)
  IN  IF e = 0 THEN Zeros(take) ELSE PadTo(ReadAt(s.file, e + Within(s, p), take), take)

(* EwfReader::decode_chunk: of a compressed chunk, as much as decompresses: *)
(* all, the start of one that is cut off, nothing of one that is corrupt.  *)
DecodeChunk(s, i) ==
  LET c == s.chunks[i]
  IN  IF c.compressed THEN SubSeq(c.plain, 1, c.decodes)
      ELSE ReadAt(s.files[c.segment], c.offset, s.unit)

(* Cipher::decrypt_sector, on a whole sector or what there is of it. *)
Encrypt(n, b) == b + Key * (n + 1)

Decrypt(n, ct) ==
  [k \in DOMAIN ct |-> IF ct[k] \div Key = n + 1 THEN ct[k] % Key ELSE Key]

(* The volume that holds position p. *)
Volumes(s, p) == {v \in s.volumes : v.base <= p /\ p < v.base + v.size}

RelocEnd(v) == IF v.headerSrc = 0 THEN 0 ELSE v.headerBytes

(* bitlocker::Volume::read: whole sectors, decrypted one by one.  Those of *)
(* the relocated header are read where they were moved to; the rest come   *)
(* from one read of the span.                                              *)
VolumeReadSlip(s, v, o, n) ==
  LET start  == o - (o % v.sector)
      count  == (o + n - start + v.sector - 1) \div v.sector
      at(k)  == start + k * v.sector
      span   == ReadAt(s.file, v.base + start, count * v.sector)
      ct(k)  == LET from == at(k) - start
                IN IF from + v.sector <= Len(span) THEN SubSeq(span, from + 1, from + v.sector)
                   ELSE Zeros(v.sector)
      plain  == [k \in 1..count |-> Decrypt(at(k - 1) \div v.sector, ct(k - 1))]
  IN  SubSeq(FlattenSeq(plain), o - start + 1, o - start + n)

VolumeRead(s, v, o, n) ==
  LET start  == o - (o % v.sector)
      count  == (o + n - start + v.sector - 1) \div v.sector
      at(k)  == start + k * v.sector
      reloc  == RelocEnd(v)
      from   == IF start > reloc THEN start ELSE reloc
      span   == ReadAt(s.file, v.base + from, start + count * v.sector - from)
      sector(k) ==
        IF at(k) < reloc
          THEN Decrypt((v.headerSrc + at(k)) \div v.sector,
                       ReadAt(s.file, v.base + v.headerSrc + at(k), v.sector))
          ELSE Decrypt(at(k) \div v.sector,
                       IF at(k) - from + v.sector <= Len(span)
                         THEN SubSeq(span, at(k) - from + 1, at(k) - from + v.sector)
                         ELSE Zeros(v.sector))
  IN  SubSeq(FlattenSeq([k \in 1..count |-> sector(k - 1)]), o - start + 1, o - start + n)

-----------------------------------------------------------------------------
ReadersInit ==
  /\ source \in Sources
  /\ chunkCache = <<>>
  /\ call = NoCall /\ pos = 0 /\ seg = 1 /\ out = <<>>
  /\ answer = NoAnswer

Answers(o, n, data) ==
  /\ answer' = [off |-> o, want |-> n, data |-> data]
  /\ call' = NoCall /\ pos' = 0 /\ seg' = 1 /\ out' = <<>>

(* pread(o, n) is called: nothing is read past the end, and no more than there is. *)
Pread(o, n) ==
  /\ ~Busy
  /\ IF o >= source.size \/ n = 0
       THEN Answers(o, n, <<>>)
       ELSE /\ call' = [off |-> o, want |-> n, len |-> Least(n, source.size - o)]
            /\ pos' = o /\ seg' = 1 /\ out' = <<>>
            /\ answer' = NoAnswer
  /\ UNCHANGED <<source, chunkCache>>

Reading(kind) == Busy /\ source.kind = kind /\ Len(out) < call.len

Need == call.len - Len(out)

Extend(bytes) ==
  /\ out' = out \o bytes
  /\ pos' = pos + Len(bytes)
  /\ UNCHANGED <<call, answer>>

Return(data) == Answers(call.off, call.want, data)

(* Nothing more can be read: the loop is left. *)
ExtendOrReturnSlip(bytes) == Extend(bytes) /\ UNCHANGED seg

ExtendOrReturn(bytes) ==
  IF bytes = <<>> THEN Return(out) ELSE Extend(bytes) /\ UNCHANGED seg

(* The loop ends because everything was read. *)
Done ==
  /\ Busy
  /\ Len(out) >= call.len \/ (source.kind = "split" /\ seg > Len(source.segs))
  /\ Return(out)
  /\ UNCHANGED <<source, chunkCache>>

RawRead ==
  /\ Reading("raw")
  /\ Return(ReadAt(source.file, pos, Need))
  /\ UNCHANGED <<source, chunkCache>>

(* SplitRawReader: one segment of the loop over all of them. *)
SplitRead ==
  /\ Reading("split") /\ seg <= Len(source.segs)
  /\ LET f     == source.segs[seg]
         start == Base(source, seg)
         local == IF pos > start THEN pos - start ELSE 0
         bytes == ReadAt(f, local, Least(Len(f.bytes) - local, Need))
     IN  IF pos >= start + Len(f.bytes)
           THEN seg' = seg + 1 /\ UNCHANGED <<call, pos, out, answer>>
           ELSE IF bytes = <<>> THEN Return(out) ELSE Extend(bytes) /\ seg' = seg + 1
  /\ UNCHANGED <<source, chunkCache>>

ClusterRead ==
  /\ Reading("qcow2")
  /\ LET from == Within(source, pos)
         cl   == Cluster(source, pos \div source.unit)
     IN  ExtendOrReturn(SubSeq(cl, from + 1, Least(Len(cl), from + Need)))
  /\ UNCHANGED <<source, chunkCache>>

GrainRead ==
  /\ Reading("vmdk")
  /\ ExtendOrReturn(Grain(source, pos, Need))
  /\ UNCHANGED <<source, chunkCache>>

(* chunk_bytes: a decoded chunk, from the cache if it is there. *)
CacheKeySlip(i) == i % CacheSize

CacheKey(i) == i

Cached(i) == {k \in DOMAIN chunkCache : chunkCache[k].key = CacheKey(i)}

ChunkBytes(i) ==
  IF Cached(i) # {} THEN chunkCache[CHOOSE k \in Cached(i) : TRUE].bytes ELSE DecodeChunk(source, i)

KeepChunk(i) ==
  chunkCache' =
    IF Cached(i) # {} THEN chunkCache
    ELSE Append(IF Len(chunkCache) >= CacheSize THEN Tail(chunkCache) ELSE chunkCache,
                [key |-> CacheKey(i), bytes |-> DecodeChunk(source, i)])

ChunkRead ==
  /\ Reading("ewf")
  /\ LET i    == (pos \div source.unit) + 1
         from == Within(source, pos)
     IN  IF i \notin DOMAIN source.chunks
           THEN Return(out) /\ UNCHANGED chunkCache
           ELSE /\ KeepChunk(i)
                /\ ExtendOrReturn(SubSeq(ChunkBytes(i), from + 1,
                                         Least(Len(ChunkBytes(i)), from + Need)))
  /\ UNCHANGED source

(* BitLockerDecrypting: the part of the read that lies in an unlocked      *)
(* volume, or the part up to the next volume.                              *)
VolumePart(v) == Least(Need, v.base + v.size - pos)

DecryptRead ==
  /\ Reading("bitlocker")
  /\ \E v \in Volumes(source, pos) :
       Extend(VolumeRead(source, v, pos - v.base, VolumePart(v)))
  /\ UNCHANGED <<source, chunkCache, seg>>

PlainRead ==
  /\ Reading("bitlocker") /\ Volumes(source, pos) = {}
  /\ LET ahead == {v.base : v \in {w \in source.volumes : w.base > pos}}
         next  == IF ahead = {} THEN pos + Need ELSE CHOOSE b \in ahead : \A c \in ahead : b <= c
     IN  ExtendOrReturn(ReadAt(source.file, pos, Least(Need, next - pos)))
  /\ UNCHANGED <<source, chunkCache>>

ReaderStep ==
  \/ Done \/ RawRead \/ SplitRead \/ ClusterRead \/ GrainRead \/ ChunkRead
  \/ DecryptRead \/ PlainRead

(* Anything may be asked of a source. *)
ReadersNext == ReaderStep \/ \E o, n \in Nat : Pread(o, n)

ReadersSpec == ReadersInit /\ [][ReadersNext]_vars
-----------------------------------------------------------------------------
(* What is in the container, and whether all of it can be read. *)
Contents(s) == s.plain

Damaged(s) == \/ s.kind = "raw" /\ s.file.bad # {}
              \/ s.kind = "split" /\ \E i \in DOMAIN s.segs : s.segs[i].bad # {}
              \/ s.kind = "ewf" /\ \E i \in DOMAIN s.chunks : Len(DecodeChunk(s, i)) < Least(s.unit, s.size - (i - 1) * s.unit)

(* Every reader answers with the slice of its media that was asked for,    *)
(* and stops early only where a part cannot be read.                       *)
M == INSTANCE Media WITH media <- Contents(source), damaged <- Damaged(source)

ReadsMedia == M!MediaSpec
=============================================================================
