------------------------------ MODULE Handlers ------------------------------
(***************************************************************************)
(* src/src/handlers.rs: how long the file is that begins here, and whether *)
(* it was parsed to its end.  A handler sees a window of the source that   *)
(* begins at the header.  This module has the handlers that walk a file    *)
(* from one structure to the next and those that believe its header;       *)
(* Containers has those that follow references.  An action is one turn of  *)
(* the loop of a handler.                                                  *)
(*                                                                         *)
(* A document is what the window shows: the structures in it, by the       *)
(* position of their first byte.  Everything else in it is zero.  Limits   *)
(* that only files of a megabyte and more come up against are left out,    *)
(* and so are the file's extension and the fields it is told by.           *)
(***************************************************************************)
EXTENDS Integers, FiniteSets, SequencesExt

CONSTANTS
  Documents,  \* what windows may show: [format, unit, limit], and for the properties end, ends
  Buffer,     \* bytes the RTF handler reads at a time (1 << 16)
  ManyFrames, \* frames that make sure of an MP3 stream (10)
  MaxPages    \* pages of an OGG stream (1000000)

ASSUME HandlerAssumption == /\ Buffer \in Nat \ {0} /\ ManyFrames \in Nat /\ MaxPages \in Nat
                            /\ \A d \in Documents : d.limit \in Nat

VARIABLES
  doc,      \* the document
  stage,    \* the handler and the loop it is in, or "done"
  here,     \* the position it has come to
  reach,    \* the furthest end so far, or the end of the buffer
  tally,    \* frames, boxes, pages, groups open
  seen,     \* references followed
  found,    \* OLE: the sectors that hold the allocation table
  verdict   \* the answer

handlerVars == <<doc, stage, here, reach, tally, seen, found, verdict>>

walkVars == <<doc, here, reach, tally, seen, found>>

Pending == [size |-> -1, validated |-> FALSE]

HandlerInit ==
  /\ doc \in Documents
  /\ stage = doc.format
  /\ here = 0 /\ reach = 0 /\ tally = 0
  /\ seen = {} /\ found = <<>>
  /\ verdict = Pending

-----------------------------------------------------------------------------
(* The window: exact(p, n) has its bytes, and one kind of structure is at  *)
(* p.                                                                      *)
Has(p, n) == p + n <= doc.limit

Unit(p) == doc.unit[p]

Is(kind, p) == p \in DOMAIN doc.unit /\ Unit(p).kind = kind

Least(a, b) == IF a < b THEN a ELSE b

(* find: the first occurrence in from..to - 1, or nothing; n is the bytes  *)
(* of what is searched for.                                                *)
Nowhere == -1

Occurrences(kind, n, from, to) ==
  {p \in DOMAIN doc.unit : Is(kind, p) /\ from <= p /\ p + n <= Least(to, doc.limit)}

Find(kind, n, from, to) ==
  LET all == Occurrences(kind, n, from, to) IN IF all = {} THEN Nowhere ELSE Min(all)

Carve(size, validated) ==
  /\ verdict' = [size |-> size, validated |-> validated]
  /\ stage' = "done"
  /\ UNCHANGED walkVars

Refused == [size |-> 0, validated |-> FALSE]

Refuse ==
  /\ verdict' = Refused
  /\ stage' = "done"
  /\ UNCHANGED walkVars

(* The handler goes on at p, in another of its loops or in the same one. *)
GoOn(next, p) ==
  /\ stage' = next /\ here' = p
  /\ UNCHANGED <<doc, seen, found, verdict>>

Turn(p) == GoOn(stage, p) /\ UNCHANGED <<reach, tally>>

Enter(next, p) == GoOn(next, p) /\ UNCHANGED <<reach, tally>>

Count(p) == GoOn(stage, p) /\ tally' = tally + 1 /\ UNCHANGED reach

-----------------------------------------------------------------------------
(* JPEG: segments, ... *)
JpegStart == stage = "jpg" /\ Enter("jpeg segments", 2)

JpegSegment ==
  /\ stage = "jpeg segments"
  /\ IF ~(Is("marker", here) /\ Has(here, 2)) THEN Refuse
     ELSE LET m == Unit(here)
          IN  CASE m.code = "end"                -> Carve(here + 2, TRUE)
                [] m.code \in {"bare", "restart"} -> Turn(here + 2)
                [] m.code = "fill"               -> Turn(here + 1)
                [] OTHER ->
                     IF ~Has(here, 4) \/ m.len < 2 THEN Refuse
                     ELSE Enter(IF m.code = "scan" THEN "jpeg scan" ELSE stage, here + 2 + m.len)

(* ... and what follows the start of a scan, up to the next real marker. *)
JpegScan ==
  /\ stage = "jpeg scan"
  /\ LET ff == Find("marker", 1, here, doc.limit)
     IN  IF ff = Nowhere \/ ~Has(ff, 2) THEN Refuse
         ELSE CASE Unit(ff).code = "end"                    -> Carve(ff + 2, TRUE)
                [] Unit(ff).code \in {"stuffed", "restart"} -> Turn(ff + 2)
                [] Unit(ff).code = "fill"                   -> Turn(ff + 1)
                [] OTHER                                    -> Enter("jpeg segments", ff)

PngStart == stage = "png" /\ Enter("png chunks", 8)

PngChunk ==
  /\ stage = "png chunks"
  /\ IF ~Has(here, 12) \/ ~Is("chunk", here) THEN Refuse
     ELSE LET next == here + 12 + Unit(here).len
          IN  CASE ~Has(next, 0)    -> Refuse
                [] Unit(here).last  -> Carve(next, TRUE)
                [] OTHER            -> Turn(next)

(* GIF: blocks, ... *)
GifStart ==
  /\ stage = "gif"
  /\ IF Has(0, 13) THEN Enter("gif blocks", 13 + Unit(0).table) ELSE Refuse

GifBlock ==
  /\ stage = "gif blocks"
  /\ CASE ~Has(here, 1)          -> Refuse
       [] Is("trailer", here)    -> Carve(here + 1, TRUE)
       [] Is("extension", here)  -> Enter("gif data", here + 2)
       [] Is("image", here) /\ Has(here + 1, 9)
                                 -> Enter("gif data", here + 11 + Unit(here).table)
       [] OTHER                  -> Refuse

(* ... and the sub-blocks of one, up to an empty one. *)
GifData ==
  /\ stage = "gif data"
  /\ CASE ~Has(here, 1)      -> Refuse
       [] Is("data", here)   -> Turn(here + 1 + Unit(here).size)
       [] OTHER              -> Enter("gif blocks", here + 1)

-----------------------------------------------------------------------------
(* RTF: read by the buffer; the group that is opened first ends the file.  *)
RtfStart == stage = "rtf" /\ IF Has(0, 5) THEN Enter("rtf buffer", 0) ELSE Refuse

RtfBuffer ==
  /\ stage = "rtf buffer"
  /\ IF ~Has(here, 1) THEN Refuse
     ELSE GoOn("rtf text", here) /\ reach' = Least(here + Buffer, doc.limit) /\ UNCHANGED tally

Number(digits) == FoldLeft(LAMBDA n, d : 10 * n + d, 0, digits)

(* \bin at p: its digits, as far as the 24 bytes looked at or the buffer   *)
(* show them, and where the bytes end that they count.                     *)
BinText(p)   == Least(24, reach - p)
BinDigits(p) == SubSeq(Unit(p).digits, 1, Least(Len(Unit(p).digits), BinText(p) - 4))
BinSpace(p)  == IF Unit(p).space /\ BinText(p) > 4 + Len(BinDigits(p)) THEN 1 ELSE 0
BinEnd(p)    == p + 4 + Len(BinDigits(p)) + BinSpace(p) + Number(BinDigits(p))

RtfText ==
  /\ stage = "rtf text"
  /\ LET signs == UNION {Occurrences(k, 1, here, reach) : k \in {"open", "close", "escape", "bin"}}
         p     == Min(signs)
     IN  IF signs = {} THEN Enter("rtf buffer", reach)
         ELSE CASE Is("open", p)                   -> Count(p + 1)
                [] Is("close", p) /\ tally = 1     -> Carve(p + 1, TRUE)
                [] Is("close", p) /\ tally # 1     ->
                     GoOn(stage, p + 1) /\ tally' = tally - 1 /\ UNCHANGED reach
                [] Is("bin", p) /\ BinDigits(p) # <<>> -> Enter("rtf buffer", BinEnd(p))
                [] OTHER                           -> Turn(p + 2)

-----------------------------------------------------------------------------
(* Streams of equal parts: the whole parts are the file.                   *)
KeepParts == IF here > 0 THEN Carve(here, TRUE) ELSE Refuse

(* GZIP: a member is a header, what inflates, and eight bytes. *)
GzipMember ==
  /\ stage = "gz"
  /\ LET m   == Unit(here)
         end == here + m.head + m.deflated + 8
     IN  IF ~Is("gzip", here) \/ ~Has(here, 10) \/ ~m.inflates \/ ~Has(end, 0) THEN KeepParts
         ELSE IF Is("gzip", end) /\ Has(end, 2) THEN Turn(end) ELSE Carve(end, TRUE)

(* MP4: boxes; one whose size is zero goes on to the end. *)
BoxSize ==
  IF Unit(here).size = 0 /\ ~Unit(here).large THEN doc.limit - here ELSE Unit(here).size

Mp4Box ==
  /\ stage = "mp4"
  /\ CASE ~Has(here, 8) \/ ~Is("box", here) ->
            IF tally < 2 THEN Refuse ELSE Carve(here, TRUE)
       [] OTHER ->
            IF (Unit(here).large /\ ~Has(here, 16)) \/ BoxSize < 8 \/ ~Has(here, BoxSize)
              THEN Refuse ELSE Count(here + BoxSize)

(* MP3: a tag, frames of one profile, and another tag. *)
Mp3Start ==
  /\ stage = "mp3"
  /\ IF Has(0, 10) THEN Enter("mp3 frames", 10 + Unit(0).size) ELSE Refuse

OfProfile(p) == Is("frame", p) /\ (tally > 0 => Unit(p).profile \in seen)

Mp3Ends(p) == IF tally < 1 THEN Refuse ELSE Carve(p, tally > ManyFrames)

Mp3Frame ==
  /\ stage = "mp3 frames"
  /\ CASE ~Has(here, 4) -> Mp3Ends(here)
       [] Has(here, 4) /\ ~OfProfile(here) ->
            Mp3Ends(IF Is("TAG", here) /\ Has(here, 128) THEN here + 128 ELSE here)
       [] Has(here, 4) /\ OfProfile(here) ->
            IF ~Has(here, Unit(here).len) THEN Mp3Ends(here)
            ELSE /\ stage' = stage /\ here' = here + Unit(here).len /\ tally' = tally + 1
                 /\ seen' = {Unit(here).profile}
                 /\ UNCHANGED <<doc, reach, found, verdict>>

(* OGG: pages, up to the last of a stream. *)
OggPage ==
  /\ stage = "ogg"
  /\ LET u    == Unit(here)
         next == here + 27 + u.segments + u.body
     IN  IF ~Is("page", here) \/ ~Has(here, 27) \/ ~Has(next, 0) THEN KeepParts
         ELSE IF u.last \/ tally + 1 > MaxPages THEN Carve(next, TRUE) ELSE Count(next)

(* FLAC: metadata blocks, and then up to the next file. *)
FlacStart == stage = "flac" /\ Enter("flac blocks", 4)

NextFile(magic, from) == Find(magic, 4, from, doc.limit)

FlacBlock ==
  /\ stage = "flac blocks"
  /\ LET len  == IF Is("meta", here) THEN Unit(here).len ELSE 0
         end  == here + 4 + len
         next == NextFile("flac file", end)
     IN  CASE ~Has(here, 4) -> Refuse
           [] Has(here, 4) /\ ~(Is("meta", here) /\ Unit(here).last) -> Turn(end)
           [] OTHER -> IF next = Nowhere THEN Carve(doc.limit, FALSE) ELSE Carve(next, TRUE)

(* PSD: four sections, and then up to the next file. *)
PsdStart == stage = "psd" /\ IF Has(0, 26) THEN Enter("psd sections", 26) ELSE Refuse

PsdSection ==
  /\ stage = "psd sections"
  /\ LET end  == here + 4 + (IF Is("section", here) /\ Has(here, 4) THEN Unit(here).len ELSE 0)
         next == NextFile("psd file", here)
     IN  CASE tally = 4            -> Carve(IF next = Nowhere THEN doc.limit ELSE next, FALSE)
           [] tally < 4 /\ ~Has(end, 0) -> Refuse
           [] tally < 4 /\ Has(end, 0)  -> Count(end)

-----------------------------------------------------------------------------
(* Files that say in their header how long they are.                       *)
HeaderBytes ==
  [bmp |-> 26, sevenz |-> 32, sqlite |-> 100, riff |-> 12, pst |-> 256, evtx |-> 48, hive |-> 48]

Claimed(h) ==
  CASE stage = "sevenz" -> 32 + h.off + h.size
    [] stage = "sqlite" -> h.page * h.pages
    [] stage = "riff"   -> h.size + 8
    [] stage = "evtx"   -> 4096 + h.chunks * 65536
    [] stage = "hive"   -> 4096 + h.bins
    [] OTHER            -> h.size

(* sound: its type and its other fields are those of such a file. *)
Plausible(h) ==
  /\ h.sound
  /\ stage = "bmp"    => 26 <= h.data /\ h.data <= h.size
  /\ stage = "sevenz" => h.size # 0
  /\ stage = "evtx"   => h.chunks \in 1..65536
  /\ stage = "hive"   => h.bins # 0

(* Kept as far as the window goes: an old database that leaves its pages   *)
(* uncounted, and a mail store whose size cannot be.                       *)
Unsized(h) ==
  \/ stage = "sqlite" /\ h.pages = 0
  \/ stage = "pst" /\ ~(h.floor <= h.size /\ Has(h.size, 0))

ReadHeader ==
  /\ stage \in DOMAIN HeaderBytes
  /\ CASE ~Has(0, HeaderBytes[stage]) \/ ~Plausible(Unit(0)) -> Refuse
       [] OTHER -> IF Unsized(Unit(0)) THEN Carve(doc.limit, FALSE)
                   ELSE IF ~Has(Claimed(Unit(0)), 0) THEN Refuse
                   ELSE Carve(Claimed(Unit(0)), TRUE)

(* RAR: no size to be had. *)
Rar == stage = "rar" /\ IF Has(0, 20) THEN Carve(doc.limit, FALSE) ELSE Refuse

(* Matroska: an EBML header, and a segment of a size or of none; vint is   *)
(* the bytes that its size takes.                                          *)
Mkv ==
  /\ stage = "mkv"
  /\ LET at  == 4 + Unit(0).vint + Unit(0).size
         s   == Unit(at)
         end == at + 4 + s.vint + s.size
     IN  CASE ~Has(4, Unit(0).vint) \/ ~Is("segment", at) \/ ~Has(at, 4) -> Refuse
           [] OTHER -> IF ~s.sized \/ ~Has(at + 4, s.vint) THEN Carve(doc.limit, FALSE)
                       ELSE IF Has(end, 0) THEN Carve(end, TRUE) ELSE Refuse

(* A signature of the analyst's own (--sig-file): up to its first footer,  *)
(* which is footer bytes long.                                             *)
Footer ==
  /\ stage = "custom"
  /\ LET spec == Unit(0)
         at   == Find("footer", spec.footer, spec.offset + 1, doc.limit)
     IN  CASE spec.footer # 0 /\ at # Nowhere -> Carve(at + spec.footer, TRUE)
           [] spec.footer = 0 \/ (at = Nowhere /\ spec.optional) -> Carve(doc.limit, FALSE)
           [] OTHER -> Refuse

WalkStep ==
  \/ JpegStart \/ JpegSegment \/ JpegScan \/ PngStart \/ PngChunk
  \/ GifStart \/ GifBlock \/ GifData \/ RtfStart \/ RtfBuffer \/ RtfText
  \/ GzipMember \/ Mp4Box \/ Mp3Start \/ Mp3Frame \/ OggPage
  \/ FlacStart \/ FlacBlock \/ PsdStart \/ PsdSection
  \/ ReadHeader \/ Rar \/ Mkv \/ Footer
=============================================================================
