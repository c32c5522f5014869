---------------------------- MODULE MCDocuments -----------------------------
(***************************************************************************)
(* Files of every type for the handlers, each whole, cut anywhere, and     *)
(* followed by something else; and fragments and damaged files.            *)
(***************************************************************************)
EXTENDS Integers, FiniteSets, SequencesExt, TLC

(* A stretch of bytes that begins with a structure, or with none. *)
Part(bytes, what) == [bytes |-> bytes, what |-> <<what>>]
Gap(bytes)        == [bytes |-> bytes, what |-> <<>>]

Length(parts) == FoldLeft(LAMBDA n, p : n + p.bytes, 0, parts)

Lay(parts) ==
  FoldLeft(LAMBDA a, p : [at |-> a.at + p.bytes,
                          unit |-> IF p.what = <<>> THEN a.unit ELSE a.unit @@ (a.at :> p.what[1])],
           [at |-> 0, unit |-> <<>>], parts).unit

(* A file, what follows it, and the other places where it could end. *)
File(format, parts, after, others) ==
  [format |-> format, unit |-> Lay(parts \o after), total |-> Length(parts \o after),
   end |-> Length(parts), ends |-> {Length(parts)} \cup others]

(* One that has no end that its handler could know, or only uncertain ones. *)
Endless(file, ends) == [file EXCEPT !.end = -1, !.ends = ends]

(* The windows on it: short files are cut everywhere. *)
Limits(d) ==
  IF d.total <= 300 THEN 4..d.total
  ELSE {4, 64, 511, 512, 1024, 1536, 2048, 3072} \cup ((d.total - 70)..d.total)

Windows(d) == {[format |-> d.format, unit |-> d.unit, limit |-> n, end |-> d.end, ends |-> d.ends] : n \in Limits(d)}

-----------------------------------------------------------------------------
Marker(code, len) == [kind |-> "marker", code |-> code, len |-> len]
Bare == Part(2, Marker("bare", 0))
Eoi  == Part(2, Marker("end", 0))
Fill == Part(1, Marker("fill", 0))

(* A segment with a thumbnail in it, two scans and a table between them. *)
Jpeg ==
  File("jpg",
       <<Bare, Part(4, Marker("segment", 7)), Bare, Eoi, Gap(1), Fill, Part(6, Marker("scan", 4)), Gap(1),
         Part(2, Marker("stuffed", 0)), Gap(1), Part(2, Marker("restart", 0)), Fill,
         Part(5, Marker("segment", 3)), Part(4, Marker("scan", 2)), Gap(2), Part(2, Marker("stuffed", 0)), Eoi>>,
       <<Gap(2), Bare, Eoi>>, {})

(* A scan that goes on into something else. *)
JpegLost ==
  Endless(File("jpg", <<Bare, Part(4, Marker("scan", 2)), Gap(3), Part(4, Marker("segment", 1)), Eoi>>, <<>>, {}), {})

Chunk(len, last) == Part(12 + len, [kind |-> "chunk", len |-> len, last |-> last])

Png == File("png", <<Gap(8), Chunk(13, FALSE), Chunk(2, FALSE), Chunk(0, TRUE)>>, <<Chunk(1, FALSE), Chunk(0, TRUE)>>, {})

PngLost == Endless(File("png", <<Gap(8), Chunk(13, FALSE), Gap(4), Chunk(0, TRUE)>>, <<>>, {}), {})

(* A trailer byte inside the data of a block ends nothing. *)
GifTrailer == Part(1, [kind |-> "trailer"])
GifBytes   == <<Part(2, [kind |-> "data", size |-> 2]), GifTrailer, Gap(1)>>

Gif ==
  File("gif",
       <<Part(19, [kind |-> "gif", table |-> 6]), Part(2, [kind |-> "extension"])>> \o GifBytes
         \o <<Part(14, [kind |-> "image", table |-> 3])>> \o GifBytes \o <<GifTrailer>>,
       <<GifTrailer>>, {})

Open == Part(1, [kind |-> "open"])
Shut == Part(1, [kind |-> "close"])
Esc  == Part(1, [kind |-> "escape"])
Bin(digits, bytes) == Part(bytes, [kind |-> "bin", digits |-> digits, space |-> TRUE])

(* An unbalanced brace in the bytes of \bin, an escaped one, and a group   *)
(* that goes on into the next buffer.                                      *)
Rtf ==
  File("rtf",
       <<Open, Esc, Gap(3), Bin(<<3>>, 6), Shut, Gap(2), Open, Esc, Shut, Gap(5), Shut, Gap(14), Open, Gap(3), Shut, Shut>>,
       <<Gap(2), Open, Shut>>, {})

Gzip(deflated, inflates) ==
  Part(20 + deflated, [kind |-> "gzip", head |-> 12, deflated |-> deflated, inflates |-> inflates])

Gz == File("gz", <<Gzip(3, TRUE), Gzip(2, TRUE)>>, <<Gzip(1, FALSE)>>, {23})

GzLost == Endless(File("gz", <<Gzip(3, FALSE)>>, <<Gzip(2, TRUE)>>, {}), {})

Box(size, large) == Part(size, [kind |-> "box", size |-> size, large |-> large])

Mp4 == File("mp4", <<Box(12, FALSE), Box(20, TRUE), Box(10, FALSE)>>, <<Gap(5)>>, {32})

Mp4One == Endless(File("mp4", <<Box(12, FALSE)>>, <<Gap(9)>>, {}), {})

Frame(profile) == Part(6, [kind |-> "frame", len |-> 6, profile |-> profile])

Mp3 ==
  File("mp3",
       <<Part(14, [kind |-> "id3", size |-> 4]), Frame(1), Frame(1), Frame(1), Frame(1), Part(128, [kind |-> "TAG"])>>,
       <<Frame(2), Frame(2)>>, {32, 38})

Page(last) == Part(32, [kind |-> "page", segments |-> 1, body |-> 4, last |-> last])

Ogg == File("ogg", <<Page(FALSE), Page(FALSE), Page(TRUE)>>, <<Page(FALSE)>>, {32, 64})

(* More pages than are looked at. *)
OggLong == Endless(File("ogg", [k \in 1..8 |-> Page(k = 8)], <<>>, {}), {32 * k : k \in 1..6})

Meta(len, last) == Part(4 + len, [kind |-> "meta", len |-> len, last |-> last])
FlacMagic == Part(4, [kind |-> "flac file"])

Flac == LET flac == <<FlacMagic, Meta(3, FALSE), Meta(2, TRUE), Gap(5)>>
        IN  Endless(File("flac", flac, <<FlacMagic, Meta(1, TRUE)>>, {}), {Length(flac)})

Section(len) == Part(4 + len, [kind |-> "section", len |-> len])

Psd == Endless(File("psd", <<Gap(26), Section(2), Section(0), Section(3), Section(1), Gap(5)>>,
                    <<Part(4, [kind |-> "psd file"])>>, {}), {})

-----------------------------------------------------------------------------
Header(bytes, fields) == Part(bytes, [kind |-> "header"] @@ fields)

Headed ==
  {File("bmp", <<Header(30, [sound |-> TRUE, size |-> 30, data |-> 28])>>, <<Gap(4)>>, {}),
   Endless(File("bmp", <<Header(30, [sound |-> FALSE, size |-> 30, data |-> 28])>>, <<>>, {}), {}),
   Endless(File("bmp", <<Header(30, [sound |-> TRUE, size |-> 30, data |-> 31])>>, <<>>, {}), {}),
   File("sevenz", <<Header(39, [sound |-> TRUE, off |-> 4, size |-> 3])>>, <<Gap(4)>>, {}),
   File("sqlite", <<Header(1024, [sound |-> TRUE, page |-> 512, pages |-> 2])>>, <<Gap(4)>>, {}),
   Endless(File("sqlite", <<Header(1024, [sound |-> TRUE, page |-> 512, pages |-> 0])>>, <<>>, {}), {}),
   File("riff", <<Header(18, [sound |-> TRUE, size |-> 10])>>, <<Gap(4)>>, {}),
   File("pst", <<Header(4200, [sound |-> TRUE, size |-> 4200, floor |-> 4096])>>, <<Gap(4)>>, {}),
   File("evtx", <<Header(69632, [sound |-> TRUE, chunks |-> 1])>>, <<Gap(4)>>, {}),
   File("hive", <<Header(4196, [sound |-> TRUE, bins |-> 100])>>, <<Gap(4)>>, {}),
   Endless(File("rar", <<Gap(30)>>, <<>>, {}), {})}

Mkv(sized) ==
  File("mkv", <<Header(8, [vint |-> 1, size |-> 3]),
                Part(11, [kind |-> "segment", vint |-> 1, size |-> 6, sized |-> sized])>>, <<Gap(4)>>, {})

Custom(footer, optional) ==
  File("custom", <<Header(12, [footer |-> footer, offset |-> 0, optional |-> optional]), Part(2, [kind |-> "footer"])>>,
       <<Gap(5), Part(2, [kind |-> "footer"])>>, {})

(* Two directories, the second before the first; strips past both. *)
Extent(from, len) == [from |-> from, len |-> len]

Tiff(back) ==
  File("tif",
       <<Header(20, [ifd |-> 40]),
         Part(20, [kind |-> "ifd", n |-> 1, next |-> back, extents |-> {Extent(64, 10)}]),
         Part(40, [kind |-> "ifd", n |-> 1, next |-> 20, extents |-> {Extent(58, 6), Extent(70, 10)}])>>,
       <<Gap(8)>>, {})

(* Two revisions, and then the end of something else. *)
Revision(eol, to) ==
  <<Part(4, [kind |-> "xref"]), Gap(3), Part(12, [kind |-> "startxref", to |-> to]), Part(5 + eol, [kind |-> "eof", eol |-> eol])>>

Stray == <<Gap(70), Part(6, [kind |-> "eof", eol |-> 1])>>

NextPdf == <<Part(8, [kind |-> "pdf file"]), Part(6, [kind |-> "obj"])>> \o Revision(1, 8)

Pdf ==
  LET first == <<Part(8, [kind |-> "pdf file"]), Part(6, [kind |-> "obj"])>> \o Revision(2, 14)
  IN  File("pdf", first \o Revision(1, Length(first)), Stray \o NextPdf,
           {Length(first) + k : k \in {-2, -1, 0}} \cup {Length(first) + 24})

(* More ends than are looked at: it could be cut after the third. *)
PdfLong ==
  LET first == <<Part(8, [kind |-> "pdf file"]), Part(6, [kind |-> "obj"])>>
      parts == first \o Revision(1, 8) \o Revision(1, 8) \o Revision(1, 8) \o Revision(1, 8)
  IN  Endless(File("pdf", parts, <<>>, {}), {14 + 25 * k + j : k \in 1..3, j \in {-1, 0}})

(* The reference of the only end leads nowhere. *)
PdfLost == Endless(File("pdf", <<Part(8, [kind |-> "pdf file"])>> \o Revision(1, 30), Stray, {}), {})

Plist ==
  File("plist",
       <<Part(20, [kind |-> "plist file"]), Gap(3), Part(32, [kind |-> "trailer", objects |-> 3, width |-> 1, table |-> 20])>>,
       <<Gap(6), Part(32, [kind |-> "trailer", objects |-> 3, width |-> 1, table |-> 20]),
         Part(20, [kind |-> "plist file"]), Part(32, [kind |-> "trailer", objects |-> 1, width |-> 1, table |-> 112])>>, {})

Pe ==
  File("pe",
       <<Header(64, [lfanew |-> 64]),
         Part(156, [kind |-> "coff", optional |-> 64, sections |-> 1, raw |-> {Extent(192, 20), Extent(0, 300)},
                    certificates |-> {Extent(212, 8)}])>>, <<Gap(6)>>, {})

ElfHeader(sections) ==
  Header(120, [head |-> 52, shoff |-> 100, sections |-> sections, shentsize |-> 10,
               phoff |-> 52, phentsize |-> 10, segments |-> {Extent(0, 80), Extent(80, 40)}])

Elf(sections) == File("elf", <<ElfHeader(sections)>>, <<Gap(6)>>, {})

Thin(sound) ==
  Part(60, [kind |-> "macho", head |-> 28, commands |-> 20, sound |-> sound, parts |-> {Extent(48, 12)}])

MachO == File("macho", <<Thin(TRUE)>>, <<Gap(6)>>, {})

Universal(sound) ==
  File("macho", <<Part(50, [kind |-> "universal", slices |-> {Extent(50, 60), Extent(110, 60)}]), Thin(TRUE), Thin(sound)>>,
       <<Gap(6)>>, {})

Ico(images) == File("ico", <<Header(55, [images |-> images])>>, <<Gap(6)>>, {})

-----------------------------------------------------------------------------
(* Sectors of 512 bytes: the allocation table, the directory with a stream *)
(* of three, that stream, a sector that lists more of the table, and more. *)
Directory(size) == Part(512, [kind |-> "directory", root |-> TRUE, streams |-> {[start |-> 2, size |-> size]}])

Table(next) == Part(512, [kind |-> "table", next |-> next])

Ole(difat, chain, size) ==
  File("ole",
       <<Header(512, [sector |-> 512, dir |-> 1, fats |-> <<0>>, difat |-> difat, difats |-> 1]),
         Table((0 :> -3) @@ (1 :> -2) @@ chain @@ (5 :> -4) @@ (6 :> -3)), Directory(size),
         Gap(512), Gap(512), Gap(512), Part(512, [kind |-> "difat", fats |-> <<6>>, next |-> 5]), Table(<<>>)>>,
       <<Gap(20)>>, {})

Chain    == (2 :> 3) @@ (3 :> 4) @@ (4 :> -2)
Looping  == (2 :> 3) @@ (3 :> 2) @@ (4 :> -2)
Straying == (2 :> 3) @@ (3 :> 40) @@ (4 :> -2)

Oles ==
  {Ole(5, Chain, 1400), Ole(-2, Looping, 1400),
   Endless(Ole(-2, Straying, 1400), {}), Endless(Ole(-2, Chain, 1600), {}),
   Ole(5, Straying, 500),
   Endless(Ole(5, (1 :> 1) @@ Chain, 1400), {4096})}

-----------------------------------------------------------------------------
Member(streamed, data) ==
  Part(33 + data, [kind |-> "member", streamed |-> streamed, zip64 |-> FALSE, names |-> 3, data |-> data])
Entry == Part(49, [kind |-> "entry", names |-> 3])
Eocd(directory, length) == Part(24, [kind |-> "eocd", comment |-> 2, directory |-> directory, length |-> length])

ZipTail(directory) == <<Entry, Entry, Eocd(directory, 98)>>

Two == <<Member(FALSE, 5), Member(FALSE, 4)>>

ZipWhole == File("zip", Two \o ZipTail(75), <<Gap(3), Member(FALSE, 1), Entry, Eocd(34, 49)>>, {})

(* From its second member on. *)
ZipMiddle == Endless(File("zip", Tail(Two) \o ZipTail(75), <<>>, {}), {})

(* Sizes after the data: the end record has to be looked for. *)
ZipStreamed == File("zip", <<Member(TRUE, 0), Gap(9), Member(TRUE, 0), Gap(4)>> \o ZipTail(79), <<Gap(3)>>, {})

(* A member too large to be walked past. *)
ZipLarge == File("zip", <<Member(FALSE, 5), Member(FALSE, 61)>> \o ZipTail(132), <<Gap(3)>>, {})

(* Cut, with another archive after it. *)
ZipCut == Endless(File("zip", <<Member(FALSE, 5), Gap(6)>> \o Two \o ZipTail(75), <<>>, {}), {})

(* With the records of zip64. *)
Zip64(from) ==
  <<Entry, Part(20, [kind |-> "eocd64", size |-> 8]), Part(20, [kind |-> "locator", declares |-> from]),
    Eocd(99999, 49)>>

ZipBig       == File("zip", Two \o Zip64(124), <<Gap(3)>>, {})
ZipBigMiddle == Endless(File("zip", Tail(Two) \o Zip64(124), <<>>, {}), {})

Files ==
  {Jpeg, JpegLost, Png, PngLost, Gif, Rtf, Gz, GzLost, Mp4, Mp4One, Mp3, Ogg, OggLong, Flac, Psd,
   Custom(2, TRUE), Custom(2, FALSE), Endless(Custom(0, FALSE), {}), Mkv(TRUE), Endless(Mkv(FALSE), {}),
   Tiff(0), Tiff(40), Pdf, PdfLong, PdfLost, Plist, Pe, Elf(2), Elf(0),
   MachO, Universal(TRUE), Endless(Universal(FALSE), {}),
   Ico(<<Extent(38, 10), Extent(50, 5)>>), Endless(Ico(<<Extent(48, 7), Extent(38, 10)>>), {}),
   ZipWhole, ZipMiddle, ZipStreamed, ZipLarge, ZipCut, ZipBig, ZipBigMiddle}
  \cup Headed \cup Oles

MCDocs == UNION {Windows(d) : d \in Files}
=============================================================================
