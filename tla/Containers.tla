----------------------------- MODULE Containers -----------------------------
(***************************************************************************)
(* The handlers of src/src/handlers.rs that follow references: a file of   *)
(* these ends where the last thing ends that anything in it points to, or  *)
(* where a record says that agrees with its own position.                  *)
(***************************************************************************)
EXTENDS Handlers

CONSTANTS
  Sanity,      \* largest member of a ZIP to trust a local header on (64 << 20)
  Unresolved,  \* how far past its members the end of a ZIP is looked for (16 << 20)
  ZipPartial,  \* --zip-partial was given
  PlistBack,   \* how far back from the horizon the end of a plist is looked for (1 << 20)
  Eofs,        \* ends of a PDF looked at (32)
  MiniCutoff   \* smallest stream of an OLE file with sectors of its own (4096)

ASSUME ContainerAssumption == /\ {Sanity, Unresolved, PlistBack, Eofs, MiniCutoff} \subseteq Nat
                              /\ ZipPartial \in BOOLEAN

Furthest(ends) == Max(ends \cup {0})

Ends(extents) == {e.from + e.len : e \in extents}

CarveTo(end) == IF Has(end, 0) THEN Carve(end, TRUE) ELSE Refuse

-----------------------------------------------------------------------------
(* TIFF: a chain of directories; n is the entries of one, extents what its *)
(* entries and strips point to.                                            *)
TiffStart ==
  /\ stage = "tif"
  /\ IF Has(0, 8) THEN GoOn("tiff chain", Unit(0).ifd) /\ reach' = 8 /\ UNCHANGED tally ELSE Refuse

(* A definition whose name ends in Slip is the one after it with a         *)
(* plausible mistake; no specification uses it.                            *)
TiffLastSlip == here = 0

TiffLast == here = 0 \/ here \in seen

TiffIfd ==
  /\ stage = "tiff chain" /\ ~TiffLast
  /\ LET ifd == Unit(here)
     IN  IF ~Is("ifd", here) \/ ~Has(here, 2 + ifd.n * 12 + 4) THEN Refuse
         ELSE /\ reach' = Furthest({reach, here + 2 + ifd.n * 12 + 4} \cup Ends(ifd.extents))
              /\ seen' = seen \cup {here}
              /\ here' = ifd.next
              /\ UNCHANGED <<doc, stage, tally, found, verdict>>

TiffEnd ==
  /\ stage = "tiff chain" /\ TiffLast
  /\ IF reach > 8 THEN CarveTo(reach) ELSE Refuse

-----------------------------------------------------------------------------
(* PDF: the last end, before the next file, whose startxref is right.      *)
PdfLimit == LET next == Find("pdf file", 5, 5, doc.limit)
            IN  IF next = Nowhere THEN doc.limit ELSE next

PdfEofs ==
  LET all == Occurrences("eof", 5, 0, PdfLimit)
  IN  {e \in all : Cardinality({g \in all : g <= e}) <= Eofs}

PdfConsistent(eof) ==
  LET at == Find("startxref", 9, eof - Least(eof, 64), eof)
      to == Unit(at).to
  IN  /\ at # Nowhere /\ to \in 1..(eof - 1)
      /\ Is("xref", to) \/ Occurrences("obj", 3, to, to + 15) # {}

(* With the end of the line it is on. *)
PdfEnd(eof) == Least(eof + 5 + Unit(eof).eol, doc.limit)

Pdf ==
  /\ stage = "pdf"
  /\ LET right == {e \in PdfEofs : PdfConsistent(e)}
     IN  CASE PdfEofs = {}               -> Refuse
           [] PdfEofs # {} /\ right = {} -> Carve(PdfEnd(Max(PdfEofs)), FALSE)
           [] right # {}                 -> Carve(PdfEnd(Max(right)), TRUE)

(* Binary plist: the furthest place before the next file where a trailer   *)
(* ends whose table of offsets ends at it.                                 *)
PlistHorizon == LET next == Find("plist file", 8, 8, doc.limit)
                IN  IF next = Nowhere THEN doc.limit ELSE next

Trailer(p) ==
  Is("trailer", p) /\ Unit(p).objects > 0 /\ Unit(p).table \in 8..(p - 1)
    /\ Unit(p).table + Unit(p).objects * Unit(p).width = p

Plist ==
  /\ stage = "plist"
  /\ LET floor    == Max({40, PlistHorizon - PlistBack})
         trailers == {p \in Occurrences("trailer", 32, 0, PlistHorizon) : Trailer(p) /\ p + 32 > floor}
     IN  IF trailers = {} THEN Refuse ELSE Carve(Max(trailers) + 32, TRUE)

-----------------------------------------------------------------------------
(* Executables and icons: the furthest end of the parts their tables name. *)
Pe ==
  /\ stage = "pe"
  /\ LET at    == Unit(0).lfanew
         pe    == Unit(at)
         table == at + 24 + pe.optional
         end   == table + pe.sections * 40
     IN  IF ~Has(0, 64) \/ ~Is("coff", at) \/ ~Has(end, 0) THEN Refuse
         ELSE CarveTo(Furthest({end} \cup Ends({e \in pe.raw : e.from # 0})
                                     \cup Ends({e \in pe.certificates : e.from # 0 /\ e.len # 0})))

(* The table of sections if there is one, or else the segments. *)
HasSections(h) == h.shoff # 0 /\ h.sections # 0

ElfEnd(h) ==
  IF HasSections(h) THEN h.shoff + h.sections * h.shentsize ELSE Furthest(Ends(h.segments))

Elf ==
  /\ stage = "elf"
  /\ LET h == Unit(0)
     IN  IF ~Has(0, h.head) \/ (~HasSections(h) /\ ~Has(h.phoff, Cardinality(h.segments) * h.phentsize))
            \/ ElfEnd(h) <= 52
           THEN Refuse ELSE CarveTo(ElfEnd(h))

(* A Mach-O image at base: its commands have to fill their table. *)
Thin(base) ==
  /\ Is("macho", base) /\ Has(base, 32)
  /\ Has(base + Unit(base).head, Unit(base).commands)
  /\ Unit(base).sound

ThinSize(base) == Furthest({Unit(base).head + Unit(base).commands} \cup Ends(Unit(base).parts))

(* A universal one: every slice is inside the window, and an image. *)
MachO ==
  /\ stage = "macho"
  /\ CASE Is("macho", 0) -> IF Thin(0) THEN CarveTo(ThinSize(0)) ELSE Refuse
       [] Is("universal", 0) ->
            LET slices == Unit(0).slices
            IN  IF ~Has(8, Cardinality(slices) * 20)
                   \/ \E s \in slices : ~Has(s.from, s.len) \/ ~Thin(s.from)
                  THEN Refuse ELSE Carve(Furthest(Ends(slices)), TRUE)

(* Icons: the images in order, none of them empty. *)
Ico ==
  /\ stage = "ico"
  /\ LET images == Unit(0).images
         table  == 6 + Len(images) * 16
         ends   == <<table>> \o [k \in DOMAIN images |-> images[k].from + images[k].len]
     IN  IF ~Has(0, 6) \/ ~Has(table, 0) \/ images = <<>>
            \/ \E k \in DOMAIN images : images[k].len = 0 \/ images[k].from < ends[k]
           THEN Refuse ELSE CarveTo(Last(ends))

-----------------------------------------------------------------------------
(* OLE: a file system in a file.  Sector s is the one after s others and   *)
(* the header.                                                             *)
Free == -1
EndOfChain == -2

Sector    == Unit(0).sector
At(s)     == (s + 1) * Sector
PerSector == Sector \div 4

HasSector(s) == Has(At(s), Sector)

OleStart ==
  /\ stage = "ole"
  /\ LET h == Unit(0)
     IN  IF ~Has(0, 512) \/ h.dir = Free \/ ~Is("directory", At(h.dir)) \/ ~Has(At(h.dir), 20)
              \/ ~Unit(At(h.dir)).root
           THEN Refuse
           ELSE /\ stage' = "ole difat" /\ here' = h.difat /\ found' = h.fats
                /\ UNCHANGED <<doc, reach, tally, seen, verdict>>

(* The sectors of the allocation table: those in the header, and a chain   *)
(* of sectors that list more.                                              *)
MaxHops == Least(Unit(0).difats + 4, doc.limit \div Sector + 1)

DifatLast == here \in {EndOfChain, Free} \cup seen \/ tally >= MaxHops

OleDifat ==
  /\ stage = "ole difat"
  /\ CASE DifatLast -> IF found = <<>> THEN Refuse ELSE Enter("ole table", here)
       [] ~DifatLast /\ ~HasSector(here) -> Refuse
       [] ~DifatLast /\ HasSector(here) ->
            LET d == Unit(At(here))
            IN  /\ found' = found \o d.fats
                /\ seen' = seen \cup {here}
                /\ here' = d.next
                /\ tally' = tally + 1
                /\ UNCHANGED <<doc, stage, reach, verdict>>

(* The allocation table: the successor of every sector in use. *)
InTable(s) == s \in 0..(Len(found) * PerSector - 1)

TableSector(s) == Unit(At(found[s \div PerSector + 1]))

NextSector(s) ==
  LET t == TableSector(s) IN IF s % PerSector \in DOMAIN t.next THEN t.next[s % PerSector] ELSE Free

Used == UNION {{(k - 1) * PerSector + i : i \in DOMAIN Unit(At(found[k])).next} : k \in DOMAIN found}

OleTable ==
  /\ stage = "ole table"
  /\ CASE \E k \in DOMAIN found : ~HasSector(found[k]) -> Refuse
       [] OTHER ->
            LET end == (Max(Used \cup {-1}) + 2) * Sector
            IN  IF Used = {} \/ ~Has(end, 0) THEN Refuse
                ELSE GoOn("ole streams", Unit(0).dir) /\ reach' = end /\ tally' = 0

(* Does every stream that the directory declares end inside the file?      *)
(* Each step of its chain is from a sector that is in the table and in the *)
(* file.                                                                   *)
Chained(s) == s >= 0 /\ InTable(s) /\ s < reach \div Sector

StreamFits(stream) ==
  /\ stream.size <= reach
  /\ LET want == (stream.size + Sector - 1) \div Sector
         step(s, k) == IF Chained(s) THEN NextSector(s) ELSE EndOfChain - 1
     IN  \A n \in 0..(want - 1) : Chained(FoldLeft(step, stream.start, [k \in 1..n |-> k]))

(* What a sector of the directory declares. *)
Declared(s) ==
  IF Is("directory", At(s)) THEN {d \in Unit(At(s)).streams : d.size >= MiniCutoff} ELSE {}

OleStreams ==
  /\ stage = "ole streams"
  /\ CASE here < 0 \/ here >= reach \div Sector \/ tally >= reach \div Sector -> Carve(reach, TRUE)
       [] OTHER ->
            IF ~HasSector(here) \/ ~InTable(here)
               \/ \E s \in Declared(here) : ~StreamFits(s)
              THEN Refuse
              ELSE GoOn(stage, NextSector(here)) /\ tally' = tally + 1 /\ UNCHANGED reach

-----------------------------------------------------------------------------
(* ZIP: members, ... *)
Unreadable(m) == m.streamed \/ m.zip64 \/ m.data > Sanity

ZipMember ==
  /\ stage = "zip"
  /\ LET m    == Unit(here)
         next == here + 30 + m.names + m.data
     IN  CASE ~Is("member", here) \/ ~Has(here, 30) ->
                GoOn(IF here > 0 /\ Is("entry", here) /\ Has(here, 4) THEN "zip directory" ELSE "zip search",
                     here)
                  /\ reach' = here /\ UNCHANGED tally
           [] OTHER -> IF Unreadable(m) \/ ~Has(next, 0)
                         THEN GoOn("zip search", here) /\ reach' = here /\ UNCHANGED tally
                         ELSE Turn(next)

(* ... the central directory after them (reach is where it begins), ... *)
ZipEntry ==
  /\ stage = "zip directory"
  /\ CASE ~Is("entry", here) \/ ~Has(here, 46)   -> Enter("zip records", here)
       [] OTHER -> IF Has(here + 46 + Unit(here).names, 0)
                     THEN Turn(here + 46 + Unit(here).names)
                     ELSE Enter("zip records", reach)

(* ... and the records at its end: those of zip64, if there are any, ... *)
Eocd64End(p)  == IF Has(p, 12) THEN p + 12 + Unit(p).size ELSE p
HasEocd64(p)  == Is("eocd64", p) /\ Has(p, 4)
HasLocator(p) == Is("locator", p) /\ Has(p, 4)

(* ... and the end record, which says where the directory is.  One that    *)
(* says otherwise is that of an archive this is the middle of.             *)
EocdAt(p) ==
  IF ~HasEocd64(p) THEN p
  ELSE IF HasLocator(Eocd64End(p)) THEN Eocd64End(p) + 20 ELSE Eocd64End(p)

StartsHereSlip(p) == TRUE

StartsHere(p) ==
  LET loc == Eocd64End(p)
  IN  IF HasEocd64(p) /\ HasLocator(loc) /\ Has(loc, 20)
        THEN Unit(loc).declares = p ELSE Unit(EocdAt(p)).directory = reach

EocdEnd(p) == p + 22 + Unit(p).comment

HasEocd(p) == Is("eocd", p) /\ Has(p, 22)

ZipRecords ==
  /\ stage = "zip records"
  /\ LET at     == EocdAt(here)
         failed == HasEocd(at) /\ ~StartsHere(here)
     IN  CASE HasEocd(at) /\ StartsHere(here) /\ Has(EocdEnd(at), 0) -> Carve(EocdEnd(at), TRUE)
           [] failed -> IF ZipPartial THEN Carve(Least(EocdEnd(at), doc.limit), FALSE) ELSE Refuse
           [] OTHER  -> GoOn("zip search", here)
                          /\ reach' = Least(IF at > reach THEN at ELSE reach, doc.limit) /\ UNCHANGED tally

(* Or else the first end record whose directory ends at it. *)
ZipSearch ==
  /\ stage = "zip search"
  /\ LET ends == {p \in Occurrences("eocd", 4, 0, reach + Unresolved) :
                    HasEocd(p) /\ Unit(p).directory + Unit(p).length = p /\ Has(EocdEnd(p), 0)}
         kept == Least(reach, Unresolved)
     IN  CASE ends # {} -> Carve(EocdEnd(Min(ends)), TRUE)
           [] ends = {} -> IF ZipPartial /\ kept # 0 THEN Carve(kept, FALSE) ELSE Refuse

ReferenceStep ==
  \/ TiffStart \/ TiffIfd \/ TiffEnd \/ Pdf \/ Plist \/ Pe \/ Elf \/ MachO \/ Ico
  \/ OleStart \/ OleDifat \/ OleTable \/ OleStreams
  \/ ZipMember \/ ZipEntry \/ ZipRecords \/ ZipSearch

HandlerStep == WalkStep \/ ReferenceStep
-----------------------------------------------------------------------------
(* Properties.  A document says where its file ends, or Nowhere if it does *)
(* not (a fragment, or one whose structures contradict each other), and    *)
(* all places where the file, cut, could still end: after a page, a box,   *)
(* a member.                                                               *)

(* "validated means the structure parsed cleanly to a definite end"        *)
(* (handlers.rs:4): a file that is whole in the window is carved to its    *)
(* last byte, whatever follows it and whatever is inside it; a cut one, a  *)
(* fragment or a damaged one is never validated but where it could end;    *)
(* and nothing past the window is claimed.                                 *)
EndsAreTrue ==
  stage = "done" =>
    /\ doc.end # Nowhere /\ doc.end <= doc.limit => verdict = [size |-> doc.end, validated |-> TRUE]
    /\ verdict.validated => verdict.size \in doc.ends
    /\ verdict.size <= doc.limit

(* Every handler comes to an answer, also where a chain leads back to      *)
(* where it has been ("reject cycles so a crafted chain cannot spin the    *)
(* loop", handlers.rs:639).                                                *)
WalksEnd == stage # "done" ~> stage = "done"
=============================================================================
