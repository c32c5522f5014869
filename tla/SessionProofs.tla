--------------------------- MODULE SessionProofs ----------------------------
(***************************************************************************)
(* Theorems about Session, for any number of images, ranges, carves and    *)
(* attempts, each of which may be stopped, fail or be killed anywhere.     *)
(***************************************************************************)
EXTENDS Session, Induction, TLAPS

(***************************************************************************)
(* Part 1.  What a checkpoint vouches for is on record: a range gets into  *)
(* the state file after its carves got into carved.jsonl, and an attempt   *)
(* that empties carved.jsonl begins with no range done.                    *)
(***************************************************************************)

StateOK == state = None \/ state \in [fp : Images, done : SUBSET Ranges]

(* The range being recorded; past the first half its carves are streamed. *)
Recording ==
  phase = "scan" =>
    /\ state # None /\ state.fp = src
    /\ todo \subseteq Ranges /\ now \in Ranges \cup {None}
    /\ now # None /\ now \notin todo => In(src, now) \subseteq stream

DoneIsStreamed == state # None => \A i \in state.done : In(state.fp, i) \subseteq stream

Inductive == StateOK /\ src \in Images /\ disk \subseteq Carves /\ Recording /\ DoneIsStreamed

LEMMA InitInductive == Init => Inductive
BY DEF Init, Inductive, StateOK, Recording, DoneIsStreamed

(* An attempt begins: it resumes, or there is no state file.               *)
LEMMA StartInductive ==
  ASSUME ~FreshStarts, Inductive, NEW img \in Images, NEW res \in BOOLEAN, Start(img, res)
  PROVE  Inductive'
<1> DEFINE doneBefore == IF state = None THEN {} ELSE state.done
<1>1. state' = [fp |-> img, done |-> doneBefore] /\ src' = img /\ now' = None
  BY DEF Start
<1>2. doneBefore \subseteq Ranges
  BY DEF Inductive, StateOK
<1>3. StateOK' /\ src' \in Images /\ disk' \subseteq Carves
  BY <1>1, <1>2 DEF StateOK, Start, Inductive
<1>4. todo' \subseteq Ranges
  BY DEF Start
<1>5. Recording'
  BY <1>1, <1>2, <1>4, NoneAssumption DEF Recording
<1>6. DoneIsStreamed'
  <2>1. CASE state = None
    BY <1>1, <2>1 DEF DoneIsStreamed
  <2>2. CASE state # None
    <3>1. res /\ state.fp = img /\ stream' = stream
      BY <2>2 DEF Start, Opens
    <3> QED
      BY <1>1, <2>2, <3>1 DEF Inductive, DoneIsStreamed, In
  <2> QED
    BY <2>1, <2>2
<1> QED
  BY <1>3, <1>5, <1>6 DEF Inductive

LEMMA StreamRangeInductive ==
  ASSUME Inductive, StreamRange
  PROVE  Inductive'
<1>1. UNCHANGED <<phase, src, now, state, disk>> /\ phase = "scan" /\ now \in todo
  BY DEF StreamRange
<1>2. stream' = stream \cup In(src, now) /\ todo' = todo \ {now}
  BY DEF StreamRange
<1>3. Recording'
  BY <1>1, <1>2 DEF Inductive, Recording, In
<1> QED
  BY <1>1, <1>2, <1>3 DEF Inductive, StateOK, DoneIsStreamed, In

LEMMA CompleteRangeInductive ==
  ASSUME Inductive, CompleteRange
  PROVE  Inductive'
<1>1. UNCHANGED <<phase, src, todo, disk, stream>> /\ now' = None
  BY DEF CompleteRange
<1>2. In(src, now) \subseteq stream /\ now \in Ranges
  BY DEF CompleteRange, Inductive, Recording
<1>3. state' = [state EXCEPT !.done = @ \cup {now}]
  BY DEF CompleteRange
<1>4. state \in [fp : Images, done : SUBSET Ranges] /\ state.fp = src
  BY DEF CompleteRange, Inductive, StateOK, Recording
<1>5. state'.fp = state.fp /\ state'.done = state.done \cup {now}
  BY <1>3, <1>4
<1>6. state' \in [fp : Images, done : SUBSET Ranges] /\ state' # None
  BY <1>2, <1>3, <1>4, NoneAssumption
<1>7. DoneIsStreamed'
  BY <1>1, <1>2, <1>4, <1>5, NoneAssumption DEF Inductive, DoneIsStreamed, In
<1>8. Recording'
  BY <1>1, <1>4, <1>5, <1>6 DEF Inductive, Recording, CompleteRange
<1> QED
  BY <1>1, <1>6, <1>7, <1>8 DEF Inductive, StateOK

(* Nothing else touches what is recorded, but for the end of a scan, which *)
(* removes the state file.                                                 *)
LEMMA OtherInductive ==
  ASSUME Inductive,
         \/ \E i \in Ranges : CarveRange(i)
         \/ Cut \/ DieCarving \/ AllScanned \/ Settle \/ Merge \/ Finish
         \/ ReportFails \/ TearManifest \/ WriteManifest \/ Kill
  PROVE  Inductive'
<1>1. CASE \E i \in Ranges : CarveRange(i)
  <2>1. PICK i \in Ranges : CarveRange(i)
    BY <1>1
  <2>2. UNCHANGED <<phase, src, todo, state, stream>> /\ now' = i /\ i \in todo
    BY <2>1 DEF CarveRange
  <2>3. disk' \subseteq Carves
    BY <2>1 DEF CarveRange, Inductive, In
  <2> QED
    BY <2>2, <2>3 DEF Inductive, StateOK, Recording, DoneIsStreamed, In
<1>2. CASE \/ Cut \/ DieCarving \/ AllScanned \/ Settle \/ Merge \/ Finish
           \/ ReportFails \/ TearManifest \/ WriteManifest \/ Kill
  <2>1. UNCHANGED <<src, stream>> /\ phase' # "scan"
    BY <1>2 DEF Cut, DieCarving, AllScanned, Settle, Merge, Finish, ReportFails,
                TearManifest, WriteManifest, Kill, durable
  <2>2. state' \in {state, None}
    BY <1>2 DEF Cut, DieCarving, AllScanned, Settle, Merge, Finish, ReportFails,
                TearManifest, WriteManifest, Kill, durable
  <2>3. disk' \subseteq Carves
    BY <1>2 DEF Cut, DieCarving, AllScanned, Settle, Merge, Finish, ReportFails,
                TearManifest, WriteManifest, Kill, durable, Inductive, Begun, Of
  <2> QED
    BY <2>1, <2>2, <2>3 DEF Inductive, StateOK, Recording, DoneIsStreamed, In
<1> QED
  BY <1>1, <1>2

LEMMA StepInductive == ~FreshStarts /\ Inductive /\ [Next]_vars => Inductive'
<1>1. Inductive /\ UNCHANGED vars => Inductive'
  BY DEF vars, count, Inductive, StateOK, Recording, DoneIsStreamed, In
<1> QED
  BY <1>1, StartInductive, StreamRangeInductive, CompleteRangeInductive, OtherInductive DEF Next

(* Wherever any attempt was killed, stopped or failed, a carved file of a  *)
(* checkpointed range is described in carved.jsonl, as long as no run is   *)
(* started afresh over the state file of another.                          *)
THEOREM NothingSkippedIsLost == Spec => [](~FreshStarts => AccountedSomewhere)
<1> DEFINE Invariant == ~FreshStarts => Inductive
<1>1. Inductive => AccountedSomewhere
  <2> SUFFICES ASSUME Inductive, state # None, NEW c \in disk,
                      c.image = state.fp, c.range \in state.done
               PROVE  c \in stream
    BY DEF AccountedSomewhere
  <2>1. c \in In(state.fp, c.range)
    BY DEF Inductive, In
  <2> QED
    BY <2>1 DEF Inductive, DoneIsStreamed
<1>2. Init => Invariant
  BY InitInductive
<1>3. Invariant /\ [Next]_vars => Invariant'
  BY StepInductive
<1>4. Invariant => (~FreshStarts => AccountedSomewhere)
  BY <1>1
<1> HIDE DEF Invariant
<1> QED
  BY <1>2, <1>3, <1>4, PTL DEF Spec

(***************************************************************************)
(* Part 2.  The manifest, where what one carve does to another stays       *)
(* within a range (Local).                                                 *)
(***************************************************************************)
(* The carves that no other holds, the first of each content, and the      *)
(* entry that one scan of the whole image gives each.                      *)
Top == {c \in Carves : \A b \in Carves : c \notin Holds[b]}

First(c) == Origin(c, {d \in Top : d.image = c.image})

Entry(c) == [carve |-> c, dup |-> IF First(c) = c THEN None ELSE First(c)]

Entries   == {Entry(c) : c \in Top}
From(img) == {Entry(c) : c \in Top \cap Of(img)}

(* Records of one image; with a carve, all that come before it in its      *)
(* range.                                                                  *)
Closed(img, rs) ==
  /\ rs \subseteq Of(img)
  /\ \A c \in rs : \A d \in In(img, c.range) : d.n < c.n => d \in rs

-----------------------------------------------------------------------------
LEMMA CarveFacts ==
  ASSUME NEW c \in Carves
  PROVE  c.n \in Nat /\ c.range \in Ranges /\ c.image \in Images
BY CarvesAssumption DEF Carve

(* A duplicate is traced to the first record of its content. *)
LEMMA OriginIs ==
  ASSUME NEW rs \in SUBSET Carves, NEW c \in rs
  PROVE  /\ Origin(c, rs) \in rs
         /\ Content[Origin(c, rs)] = Content[c]
         /\ \A a \in rs : Content[a] = Content[c] => Origin(c, rs).n <= a.n
<1> DEFINE Same == {a \in rs : Content[a] = Content[c]}
           Places == {a.n : a \in Same}
<1>1. Places \subseteq Nat /\ Places # {}
  BY CarveFacts
<1>2. PICK p \in Places : \A q \in Places : p <= q
  <2> HIDE DEF Places
  <2> QED BY <1>1, LeastElement
<1>3. PICK b \in Same : b.n = p
  BY <1>2
<1>4. \A a \in Same : b.n <= a.n
  BY <1>2, <1>3
<1>5. \E o \in rs : /\ Content[o] = Content[c]
                    /\ \A a \in rs : Content[a] = Content[c] => o.n <= a.n
  BY <1>4
<1> QED
  BY <1>5 DEF Origin

(* Tracing it among the records so far finds the same one as among all     *)
(* carves of the image.                                                    *)
LEMMA OriginIsFirst ==
  ASSUME Local, NEW img, NEW rs, Closed(img, rs), NEW c \in rs \cap Top
  PROVE  Origin(c, rs \cap Top) = First(c)
<1> DEFINE kept == rs \cap Top
           all  == {d \in Top : d.image = c.image}
           o    == Origin(c, kept)
           f    == Origin(c, all)
<1>1. rs \subseteq Carves /\ kept \subseteq all /\ all \subseteq Carves /\ c \in all /\ c \in kept
  BY DEF Closed, Of, Top
<1>2. o \in kept /\ Content[o] = Content[c] /\ \A a \in kept : Content[a] = Content[c] => o.n <= a.n
  <2> HIDE DEF kept
  <2> QED BY <1>1, OriginIs
<1>3. f \in all /\ Content[f] = Content[c] /\ \A a \in all : Content[a] = Content[c] => f.n <= a.n
  <2> HIDE DEF all
  <2> QED BY <1>1, OriginIs
<1> HIDE DEF o, f
<1>4. f.n <= o.n /\ o.n <= c.n /\ f.image = c.image /\ o.image = c.image /\ c.image = img
  BY <1>1, <1>2, <1>3 DEF Closed, Of
<1>5. f.n \in Nat /\ o.n \in Nat /\ c.n \in Nat
  BY <1>1, <1>2, <1>3, CarveFacts
<1>6. f.range = c.range
  BY <1>1, <1>3, <1>4 DEF Local
<1>7. f \in rs
  <2>1. CASE f.n = c.n
    BY <2>1, <1>1, <1>3, <1>4 DEF Local
  <2>2. CASE f.n < c.n
    <3>1. f \in In(img, c.range)
      BY <1>1, <1>3, <1>4, <1>6 DEF In
    <3> QED BY <2>2, <3>1 DEF Closed
  <2> QED BY <2>1, <2>2, <1>4, <1>5
<1>8. o.n <= f.n
  BY <1>2, <1>3, <1>7
<1>9. o = f
  <2>1. o.n = f.n
    BY <1>4, <1>5, <1>8
  <2> QED BY <2>1, <1>1, <1>2, <1>3, <1>4 DEF Local
<1> QED
  BY <1>9 DEF o, f, First

(* What the end of run_ranges makes of the records so far: the entries of  *)
(* a whole scan, for the carves that are among them.                       *)
LEMMA SettledIs ==
  ASSUME Local, NEW img, NEW rs, Closed(img, rs)
  PROVE  Settled(rs) = {Entry(c) : c \in rs \cap Top}
<1>1. rs \subseteq Carves
  BY DEF Closed, Of
<1>2. Uncontained(rs) = rs \cap Top
  <2>1. ASSUME NEW c \in rs, NEW b \in Carves, c \in Holds[b]
        PROVE  b \in rs
    <3>1. b.image = c.image /\ b.n < c.n /\ b.range = c.range
      BY <2>1, HoldsAssumption DEF Local
    <3>2. b \in In(img, c.range)
      BY <3>1 DEF In, Closed, Of
    <3> QED BY <3>1, <3>2 DEF Closed
  <2> QED
    BY <1>1, <2>1 DEF Uncontained, Top
<1> DEFINE made(c) == [carve |-> c, dup |-> IF Origin(c, rs \cap Top) = c
                                            THEN None ELSE Origin(c, rs \cap Top)]
<1>3. Settled(rs) = {made(c) : c \in rs \cap Top}
  BY <1>2 DEF Settled
<1>4. ASSUME NEW c \in rs \cap Top PROVE made(c) = Entry(c)
  BY OriginIsFirst DEF Entry
<1> HIDE DEF made
<1> QED
  BY <1>3, <1>4

(* It deletes no file whose entry says that it is the first of its kind,   *)
(* and every file that gets no entry.                                      *)
LEMMA DeletedIs ==
  ASSUME Local, NEW img, NEW rs, Closed(img, rs)
  PROVE  /\ \A e \in Entries : e.dup = None => e.carve \notin Deleted(rs)
         /\ rs \ Top \subseteq Deleted(rs)
<1>1. Settled(rs) = {Entry(c) : c \in rs \cap Top}
  BY SettledIs
<1>2. \A c : Entry(c).carve = c
  BY DEF Entry
<1>3. ASSUME NEW c \in Top, Entry(c).dup = None
      PROVE  c \notin Deleted(rs)
  <2> SUFFICES ASSUME c \in rs PROVE c \in {e.carve : e \in {e \in Settled(rs) : e.dup = None}}
    BY DEF Deleted
  <2>1. Entry(c) \in {e \in Settled(rs) : e.dup = None}
    BY <1>1, <1>3
  <2> QED BY <1>2, <2>1
<1>4. \A c \in rs \ Top : c \in Deleted(rs)
  BY <1>1, <1>2 DEF Deleted
<1> QED
  BY <1>2, <1>3, <1>4 DEF Entries

-----------------------------------------------------------------------------
(* The file of every entry that is no duplicate is on disk. *)
There(m) == m \subseteq Entries /\ \A e \in m : e.dup = None => e.carve \in disk

ListInv ==
  /\ phase \in {"scan", "settle"} => Closed(src, recs) /\ recs \subseteq disk
  /\ phase \in {"merge", "finish", "report"} => There(entries)
  /\ manifest # None => There(manifest)
  /\ phase = "written" => There(manifest)

(* An attempt that begins has no records. *)
LEMMA StartListed ==
  ASSUME ListInv, NEW img \in Images, NEW res \in BOOLEAN, Start(img, res)
  PROVE  ListInv'
<1>1. phase' = "scan" /\ recs' = {} /\ UNCHANGED <<disk, manifest>>
  BY DEF Start
<1> QED
  BY <1>1 DEF ListInv, There, Closed

(* Records and files are added, the records in the order of the range. *)
LEMMA CarveRangeListed ==
  ASSUME ListInv, NEW i \in Ranges, CarveRange(i)
  PROVE  ListInv'
<1>1. /\ disk' = disk \cup In(src, i) /\ recs' = recs \cup In(src, i)
      /\ phase = "scan" /\ UNCHANGED <<phase, src, entries, manifest>>
  BY DEF CarveRange
<1>2. Closed(src, recs')
  BY <1>1 DEF ListInv, Closed, In, Of
<1>3. recs' \subseteq disk' /\ (manifest # None => There(manifest)')
  BY <1>1 DEF ListInv, There
<1> QED
  BY <1>1, <1>2, <1>3 DEF ListInv

LEMMA CutListed ==
  ASSUME ListInv, Cut
  PROVE  ListInv'
<1>1. PICK part \in Begun : disk' = disk \cup part /\ recs' = recs \cup part
  BY DEF Cut
<1>2. phase = "scan" /\ phase' = "settle" /\ UNCHANGED <<src, entries, manifest>>
  BY DEF Cut
<1>3. Closed(src, recs')
  BY <1>1, <1>2 DEF ListInv, Closed, Begun, In, Of
<1>4. recs' \subseteq disk' /\ (manifest # None => There(manifest)')
  BY <1>1, <1>2 DEF ListInv, There
<1> QED
  BY <1>2, <1>3, <1>4 DEF ListInv

(* The files that are deleted are those of no entry, old or new. *)
LEMMA SettleListed ==
  ASSUME Local, ListInv, Settle
  PROVE  ListInv'
<1>1. /\ phase = "settle" /\ phase' = "merge" /\ UNCHANGED manifest
      /\ entries' = Settled(recs) /\ disk' = disk \ Deleted(recs)
  BY DEF Settle
<1>2. Closed(src, recs) /\ recs \subseteq disk
  BY <1>1 DEF ListInv
<1>3. Settled(recs) = {Entry(c) : c \in recs \cap Top}
  BY <1>2, SettledIs
<1>4. \A e \in Entries : e.dup = None => e.carve \notin Deleted(recs)
  BY <1>2, DeletedIs
<1>5. There(entries)'
  <2>1. entries' \subseteq Entries
    BY <1>1, <1>3 DEF Entries
  <2>2. ASSUME NEW e \in entries', e.dup = None PROVE e.carve \in disk'
    <3>1. e.carve \in recs
      BY <1>1, <1>3 DEF Entry
    <3> QED BY <1>1, <1>2, <1>4, <2>1, <2>2, <3>1
  <2> QED BY <2>1, <2>2 DEF There
<1>6. manifest # None => There(manifest)'
  BY <1>1, <1>4 DEF ListInv, There
<1> QED
  BY <1>1, <1>5, <1>6 DEF ListInv

(* The rest moves entries about, or only grows the disk. *)
LEMMA OtherListed ==
  ASSUME ListInv,
         \/ DieCarving \/ StreamRange \/ CompleteRange \/ AllScanned \/ Merge \/ Finish
         \/ ReportFails \/ TearManifest \/ WriteManifest \/ Kill
  PROVE  ListInv'
<1>1. CASE DieCarving
  <2>1. disk \subseteq disk' /\ phase' = "killed" /\ UNCHANGED manifest
    BY <1>1 DEF DieCarving
  <2> QED BY <2>1 DEF ListInv, There
<1>2. CASE StreamRange \/ CompleteRange \/ AllScanned
  <2>1. phase = "scan" /\ phase' \in {"scan", "settle"} /\ UNCHANGED <<src, recs, disk, manifest>>
    BY <1>2 DEF StreamRange, CompleteRange, AllScanned, durable
  <2> QED BY <2>1 DEF ListInv, There
<1>3. CASE Merge
  <2>1. phase = "merge" /\ phase' = "finish" /\ UNCHANGED <<disk, manifest>>
    BY <1>3 DEF Merge, durable
  <2>2. entries' \subseteq entries \cup (IF manifest # None THEN manifest ELSE {})
    BY <1>3 DEF Merge, Merged
  <2>3. There(entries)'
    BY <2>1, <2>2 DEF ListInv, There
  <2> QED BY <2>1, <2>3 DEF ListInv, There
<1>4. CASE Finish
  BY <1>4 DEF Finish, ListInv, There
<1>5. CASE WriteManifest
  BY <1>5 DEF WriteManifest, ListInv, There
<1>6. CASE ReportFails \/ TearManifest \/ Kill
  <2>1. phase' \in {"failed", "killed"} /\ disk' = disk /\ manifest' \in {manifest, None}
    BY <1>6 DEF ReportFails, TearManifest, Kill, durable
  <2> QED BY <2>1 DEF ListInv, There
<1> QED
  BY <1>1, <1>2, <1>3, <1>4, <1>5, <1>6

LEMMA StepListed == Local /\ ListInv /\ [Next]_vars => ListInv'
<1>1. ListInv /\ UNCHANGED vars => ListInv'
  BY DEF vars, count, ListInv, There
<1> QED
  BY <1>1, StartListed, CarveRangeListed, CutListed, SettleListed, OtherListed DEF Next

LEMMA AlwaysListed == Spec => [](Local => ListInv)
<1> DEFINE Inv == Local => ListInv
<1>1. Init => Inv
  BY DEF Init, ListInv, There
<1>2. Inv /\ [Next]_vars => Inv'
  BY StepListed
<1>3. Inv => (Local => ListInv)
  OBVIOUS
<1> HIDE DEF Inv
<1> QED
  BY <1>1, <1>2, <1>3, PTL DEF Spec

(* Whatever earlier attempts carved, deleted and carved again, and however *)
(* they ended: when a manifest has been written, the file of each entry    *)
(* that is no duplicate exists (the deletions of run_ranges, folded with   *)
(* merge_with_existing).                                                   *)
THEOREM ListedIsThere == Spec => [](Local => ListedFilesExist)
<1>1. ListInv => ListedFilesExist
  BY DEF ListInv, ListedFilesExist, There
<1> QED
  BY <1>1, AlwaysListed, PTL

-----------------------------------------------------------------------------
(***************************************************************************)
(* Part 3.  A scan in several attempts ends like one in a single pass,     *)
(* where every attempt wrote its manifest and none took up where another   *)
(* image's scan had left off.                                              *)
(***************************************************************************)
OneSource == ~FreshStarts /\ (StaleResume => \A a, b \in Images : a = b)

Kept == ~lost /\ phase \notin {"failed", "killed"}

(* The manifest that this attempt will fold in has the entry of c. *)
Had(c) == resumed /\ manifest # None /\ Entry(c) \in manifest

Covered(i) ==
  \A c \in In(src, i) \cap Top :
    CASE phase \in {"scan", "settle"}   -> c \in recs \/ Had(c)
      [] phase = "merge"                -> Entry(c) \in entries \/ Had(c)
      [] phase \in {"finish", "report"} -> Entry(c) \in entries

Busy == phase \in {"scan", "settle", "merge", "finish", "report"}

(* While an attempt runs: every range that is not left to scan, or is      *)
(* being recorded, is covered by its records and by what it resumes.       *)
BusyInv ==
  Busy =>
    /\ phase \in {"scan", "settle", "merge", "finish"} => state # None
    /\ state = None => todo = {}
    /\ state # None => state.done \cap todo = {}
    /\ phase \in {"scan", "settle", "merge"} /\ resumed /\ manifest # None => manifest \subseteq From(src)
    /\ phase \in {"merge", "finish", "report"} => entries \subseteq From(src)
    /\ \A i \in Ranges : i \notin todo \/ (phase = "scan" /\ i = now) => Covered(i)

(* Between attempts: the manifest has what the state file says is done. *)
RestInv ==
  /\ phase = "new" => state = None /\ manifest = None
  /\ phase = "written" =>
       /\ manifest # None /\ manifest \subseteq From(src)
       /\ \A c \in Of(src) \cap Top : state = None \/ c.range \in state.done => Entry(c) \in manifest

PassInv ==
  /\ state # None /\ phase # "new" => state.fp = src
  /\ BusyInv
  /\ RestInv

LEMMA EntriesTyped == Entries \subseteq [carve : Carves, dup : Carves \cup {None}]
<1>1. ASSUME NEW c \in Top
      PROVE  Entry(c) \in [carve : Carves, dup : Carves \cup {None}]
  <2>1. c \in {d \in Top : d.image = c.image} /\ {d \in Top : d.image = c.image} \in SUBSET Carves
    BY DEF Top
  <2>2. First(c) \in Carves
    BY <2>1, OriginIs DEF First
  <2> QED BY <2>1, <2>2 DEF Entry
<1> QED
  BY <1>1 DEF Entries

LEMMA EntriesAreAManifest ==
  ASSUME NEW m, m \subseteq Entries
  PROVE  m # None
<1> DEFINE s   == {e.carve : e \in m}
           dup == [c \in s |-> Entry(c).dup]
<1>1. \A e \in m : e = Entry(e.carve) /\ e.carve \in Carves /\ e.dup \in Carves \cup {None}
  BY EntriesTyped DEF Entries, Entry
<1>2. s \in SUBSET Carves /\ dup \in [s -> Carves \cup {None}]
  <2>1. \A c \in s : Entry(c) \in m
    BY <1>1
  <2> QED BY <1>1, <2>1
<1>3. \A c \in s : Entry(c) = [carve |-> c, dup |-> dup[c]]
  BY DEF Entry
<1>4. m = {[carve |-> c, dup |-> dup[c]] : c \in s}
  <2>1. \A e \in m : e.carve \in s /\ e = [carve |-> e.carve, dup |-> dup[e.carve]]
    BY <1>1, <1>3
  <2>2. \A c \in s : [carve |-> c, dup |-> dup[c]] \in m
    BY <1>1, <1>3
  <2> HIDE DEF s, dup
  <2> QED BY <2>1, <2>2
<1>5. m \in Manifests
  <2> HIDE DEF s, dup
  <2>1. m \in {{[carve |-> c, dup |-> d[c]] : c \in s} : d \in [s -> Carves \cup {None}]}
    BY <1>2, <1>4
  <2> QED BY <1>2, <2>1 DEF Manifests
<1> QED
  BY <1>5, NoneAssumption

LEMMA StartPasses ==
  ASSUME OneSource, Inductive, PassInv, Kept, Kept',
         NEW img \in Images, NEW res \in BOOLEAN, Start(img, res)
  PROVE  PassInv'
<1>1. /\ phase \in {"new", "written"} /\ phase' = "scan" /\ src' = img /\ resumed' = res
      /\ state' = [fp |-> img, done |-> IF state = None THEN {} ELSE state.done]
      /\ todo' = Ranges \ DoneBefore(res) /\ now' = None /\ recs' = {} /\ UNCHANGED manifest
  BY DEF Start, Over, Kept
<1>2. state' # None /\ state'.fp = img /\ state'.done = (IF state = None THEN {} ELSE state.done)
  <2>1. state = None \/ state.done \in SUBSET Ranges
    BY DEF Inductive, StateOK
  <2>2. state' \in [fp : Images, done : SUBSET Ranges]
    BY <1>1, <2>1
  <2> QED BY <1>1, <2>2, NoneAssumption
<1>3. state # None => res /\ state.fp = img /\ src = img /\ phase = "written"
  BY <1>1 DEF Start, OneSource, PassInv, RestInv
<1>4. state = None /\ res /\ phase = "written" => src = img
  BY DEF Start, OneSource, Inductive
<1>5. todo' = Ranges \ state'.done
  BY <1>1, <1>2, <1>3 DEF DoneBefore
<1>6. res /\ manifest # None => manifest \subseteq From(img)
  BY <1>1, <1>3, <1>4 DEF PassInv, RestInv
<1>7. ASSUME NEW i \in Ranges, i \notin todo' \/ i = now'
      PROVE  Covered(i)'
  <2>1. state # None /\ i \in state.done
    BY <1>1, <1>2, <1>5, <1>7, NoneAssumption
  <2>2. ASSUME NEW c \in In(img, i) \cap Top PROVE Entry(c) \in manifest
    <3>1. c \in Of(src) \cap Top /\ c.range \in state.done
      BY <1>3, <2>1 DEF In, Of
    <3> QED BY <1>3, <2>1, <3>1 DEF PassInv, RestInv
  <2>3. manifest # None
    BY <1>3, <2>1 DEF PassInv, RestInv
  <2> QED BY <1>1, <1>3, <2>1, <2>2, <2>3 DEF Covered, Had
<1>8. BusyInv'
  BY <1>1, <1>2, <1>5, <1>6, <1>7 DEF BusyInv
<1> QED
  BY <1>1, <1>2, <1>8 DEF PassInv, RestInv

LEMMA CarvePasses ==
  ASSUME PassInv, (\E i \in Ranges : CarveRange(i)) \/ Cut
  PROVE  PassInv'
<1>1. /\ phase = "scan" /\ now = None /\ phase' \in {"scan", "settle"} /\ recs \subseteq recs'
      /\ UNCHANGED <<src, resumed, todo, entries, state, manifest>>
  BY DEF CarveRange, Cut
<1>2. phase' = "scan" => now' \in Ranges /\ In(src, now') \subseteq recs'
  BY DEF CarveRange, Cut
<1>3. ASSUME NEW i \in Ranges, i \notin todo' \/ (phase' = "scan" /\ i = now') PROVE Covered(i)'
  BY <1>1, <1>2, <1>3 DEF PassInv, BusyInv, Busy, Covered, Had, In
<1>4. BusyInv'
  BY <1>1, <1>3 DEF PassInv, BusyInv, Busy
<1> QED
  BY <1>1, <1>4 DEF PassInv, RestInv

LEMMA RecordPasses ==
  ASSUME Inductive, PassInv, StreamRange \/ CompleteRange \/ AllScanned
  PROVE  PassInv'
<1>1. /\ phase = "scan" /\ phase' \in {"scan", "settle"}
      /\ UNCHANGED <<src, resumed, recs, entries, manifest>>
      /\ \A i \in Ranges : i \notin todo' \/ (phase' = "scan" /\ i = now')
                             => i \notin todo \/ i = now
  BY NoneAssumption DEF StreamRange, CompleteRange, AllScanned, durable
<1>2. state' # None /\ state'.fp = src /\ state'.done \cap todo' = {}
  <2>1. state # None /\ state \in [fp : Images, done : SUBSET Ranges] /\ state.fp = src
        /\ state.done \cap todo = {} /\ now \in Ranges \cup {None}
    BY <1>1 DEF Inductive, StateOK, Recording, PassInv, BusyInv, Busy
  <2>2. CASE CompleteRange
    <3>1. state' = [state EXCEPT !.done = @ \cup {now}] /\ todo' = todo /\ now \notin todo /\ now # None
      BY <2>2 DEF CompleteRange
    <3>2. state' \in [fp : Images, done : SUBSET Ranges]
      BY <2>1, <3>1
    <3>3. state'.fp = state.fp /\ state'.done = state.done \cup {now}
      BY <2>1, <3>1
    <3> QED BY <2>1, <3>1, <3>2, <3>3, NoneAssumption
  <2>3. CASE StreamRange \/ AllScanned
    <3>1. state' = state /\ todo' \subseteq todo
      BY <2>3 DEF StreamRange, AllScanned, durable
    <3> QED BY <2>1, <3>1
  <2> QED BY <2>2, <2>3
<1>3. ASSUME NEW i \in Ranges, i \notin todo' \/ (phase' = "scan" /\ i = now') PROVE Covered(i)'
  <2>1. Covered(i)
    BY <1>1, <1>3 DEF PassInv, BusyInv, Busy
  <2> QED BY <1>1, <2>1 DEF Covered, Had, In
<1>4. BusyInv'
  BY <1>1, <1>2, <1>3 DEF PassInv, BusyInv, Busy
<1> QED
  BY <1>1, <1>2, <1>4 DEF PassInv, RestInv

LEMMA SettlePasses ==
  ASSUME Local, ListInv, PassInv, Settle
  PROVE  PassInv'
<1>1. /\ phase = "settle" /\ phase' = "merge" /\ entries' = Settled(recs)
      /\ UNCHANGED <<src, resumed, todo, recs, state, manifest>>
  BY DEF Settle
<1>2. Closed(src, recs)
  BY <1>1 DEF ListInv
<1>3. entries' = {Entry(c) : c \in recs \cap Top}
  BY <1>1, <1>2, SettledIs
<1>4. entries' \subseteq From(src)
  BY <1>2, <1>3 DEF From, Closed
<1>5. ASSUME NEW i \in Ranges, i \notin todo PROVE Covered(i)'
  <2>1. Covered(i)
    BY <1>1, <1>5 DEF PassInv, BusyInv, Busy
  <2>2. ASSUME NEW c \in In(src, i) \cap Top PROVE Entry(c) \in entries' \/ Had(c)
    BY <1>1, <1>3, <2>1 DEF Covered
  <2> QED BY <1>1, <2>2 DEF Covered, Had, In
<1>6. BusyInv'
  BY <1>1, <1>4, <1>5 DEF PassInv, BusyInv, Busy
<1> QED
  BY <1>1, <1>6 DEF PassInv, RestInv

(* An entry of the manifest is dropped only for a new one of the same      *)
(* place, which is of the same carve.                                      *)
LEMMA MergedHasBoth ==
  ASSUME Local, NEW img, NEW new, NEW old, new \subseteq From(img), old \subseteq From(img),
         NEW c \in Carves, c.image = img, Entry(c) \in new \cup old
  PROVE  Entry(c) \in Merged(new, old)
<1>1. CASE Entry(c) \in new
  BY <1>1 DEF Merged
<1>2. CASE Entry(c) \in old /\ Entry(c) \notin new
  <2> SUFFICES ASSUME NEW d \in new, d.carve.n = Entry(c).carve.n PROVE FALSE
    BY <1>2 DEF Merged
  <2>1. PICK b \in Top \cap Of(img) : d = Entry(b)
    BY DEF From
  <2>2. d.carve = b /\ Entry(c).carve = c
    BY <2>1 DEF Entry
  <2>3. b = c
    BY <2>1, <2>2 DEF Local, Of
  <2> QED BY <1>2, <2>1, <2>3
<1> QED
  BY <1>1, <1>2

LEMMA MergePasses ==
  ASSUME Local, PassInv, Merge
  PROVE  PassInv'
<1>1. /\ phase = "merge" /\ phase' = "finish"
      /\ UNCHANGED <<src, resumed, todo, recs, state, manifest>>
      /\ entries' = IF resumed /\ manifest # None THEN Merged(entries, manifest) ELSE entries
  BY DEF Merge, durable
<1>2. entries \subseteq From(src) /\ (resumed /\ manifest # None => manifest \subseteq From(src))
  BY <1>1 DEF PassInv, BusyInv, Busy
<1>3. entries' \subseteq From(src)
  BY <1>1, <1>2 DEF Merged
<1>4. ASSUME NEW i \in Ranges, i \notin todo PROVE Covered(i)'
  <2>1. Covered(i)
    BY <1>1, <1>4 DEF PassInv, BusyInv, Busy
  <2>2. ASSUME NEW c \in In(src, i) \cap Top PROVE Entry(c) \in entries'
    <3>1. c \in Carves /\ c.image = src
      BY DEF In
    <3>2. Entry(c) \in entries \/ Had(c)
      BY <1>1, <2>1 DEF Covered
    <3>3. CASE resumed /\ manifest # None
      BY <1>1, <1>2, <3>1, <3>2, <3>3, MergedHasBoth DEF Had
    <3>4. CASE ~(resumed /\ manifest # None)
      BY <1>1, <3>2, <3>4 DEF Had
    <3> QED BY <3>3, <3>4
  <2> QED BY <1>1, <2>2 DEF Covered, In
<1>5. BusyInv'
  BY <1>1, <1>3, <1>4 DEF PassInv, BusyInv, Busy
<1> QED
  BY <1>1, <1>5 DEF PassInv, RestInv

LEMMA FinishPasses ==
  ASSUME PassInv, Finish
  PROVE  PassInv'
<1>1. /\ phase = "finish" /\ phase' = "report" /\ state' = IF todo = {} THEN None ELSE state
      /\ UNCHANGED <<src, resumed, todo, entries, manifest>>
  BY DEF Finish
<1>2. state # None /\ state.fp = src /\ state.done \cap todo = {} /\ entries \subseteq From(src)
  BY <1>1 DEF PassInv, BusyInv, Busy
<1>3. ASSUME NEW i \in Ranges, i \notin todo PROVE Covered(i)'
  <2>1. Covered(i)
    BY <1>1, <1>3 DEF PassInv, BusyInv, Busy
  <2> QED BY <1>1, <2>1 DEF Covered, In
<1>4. BusyInv'
  BY <1>1, <1>2, <1>3 DEF BusyInv, Busy
<1> QED
  BY <1>1, <1>2, <1>4 DEF PassInv, RestInv

LEMMA WritePasses ==
  ASSUME PassInv, WriteManifest
  PROVE  PassInv'
<1>1. /\ phase = "report" /\ phase' = "written" /\ manifest' = entries
      /\ UNCHANGED <<src, todo, state>>
  BY DEF WriteManifest
<1>2. entries \subseteq From(src)
  BY <1>1 DEF PassInv, BusyInv, Busy
<1>3. entries # None
  <2>1. entries \subseteq Entries
    BY <1>2 DEF From, Entries
  <2> QED BY <2>1, EntriesAreAManifest
<1>4. ASSUME NEW c \in Of(src) \cap Top, state = None \/ c.range \in state.done
      PROVE  Entry(c) \in entries
  <2>1. c \in In(src, c.range) \cap Top /\ c.range \in Ranges
    BY CarveFacts DEF Of, In
  <2>2. c.range \notin todo
    BY <1>1, <1>4 DEF PassInv, BusyInv, Busy
  <2>3. Covered(c.range)
    BY <1>1, <2>1, <2>2 DEF PassInv, BusyInv, Busy
  <2> QED BY <1>1, <2>1, <2>3 DEF Covered
<1>5. RestInv'
  <2>1. Of(src)' = Of(src) /\ From(src)' = From(src)
    BY <1>1 DEF Of, From
  <2> QED BY <1>1, <1>2, <1>3, <1>4, <2>1 DEF RestInv
<1> QED
  BY <1>1, <1>5 DEF PassInv, BusyInv, Busy

LEMMA StepPasses ==
  ASSUME Local, OneSource, Inductive, ListInv, Kept => PassInv, [Next]_vars
  PROVE  Kept' => PassInv'
<1> SUFFICES ASSUME Kept' PROVE PassInv'
  OBVIOUS
<1>1. CASE UNCHANGED vars
  <2>1. UNCHANGED <<phase, src, resumed, todo, now, recs, entries, lost, state, manifest>>
    BY <1>1 DEF vars, count
  <2>2. Kept /\ PassInv
    BY <2>1 DEF Kept
  <2>3. \A i : Covered(i)' <=> Covered(i)
    BY <2>1 DEF Covered, Had, In
  <2> QED BY <2>1, <2>2, <2>3 DEF PassInv, BusyInv, RestInv, Busy, Of, From
<1>2. CASE Next
  <2>1. Kept
    <3>1. ASSUME NEW img \in Images, NEW res \in BOOLEAN, Start(img, res) PROVE Kept
      BY <3>1 DEF Start, Kept
    <3>2. ASSUME NEW i \in Ranges, CarveRange(i) PROVE Kept
      BY <3>2 DEF CarveRange, Kept, count
    <3> QED
      BY <1>2, <3>1, <3>2 DEF Next, Kept, count, Cut, DieCarving, StreamRange, CompleteRange,
         AllScanned, Settle, Merge, Finish, ReportFails, TearManifest, WriteManifest, Kill
  <2>2. ~(DieCarving \/ ReportFails \/ TearManifest \/ Kill)
    BY DEF Kept, DieCarving, ReportFails, TearManifest, Kill
  <2> QED
    BY <1>2, <2>1, <2>2, StartPasses, CarvePasses, RecordPasses, SettlePasses, MergePasses,
       FinishPasses, WritePasses DEF Next
<1> QED
  BY <1>1, <1>2

(* What a completed scan in several attempts has written is what Settled   *)
(* makes of everything in the image: each range is covered by the attempt  *)
(* that carved it, by way of the manifest it wrote and the next folded in. *)
THEOREM ResumedIsSinglePass == Spec => [](Local /\ OneSource => SameAsSinglePass)
<1> DEFINE Inv == Local /\ OneSource => Inductive /\ ListInv /\ (Kept => PassInv)
<1>1. Init => Inv
  <2> SUFFICES ASSUME Init PROVE Inductive /\ ListInv /\ PassInv
    OBVIOUS
  <2>1. Inductive
    BY InitInductive
  <2>2. ListInv /\ PassInv
    BY DEF Init, ListInv, There, PassInv, BusyInv, Busy, RestInv
  <2> QED BY <2>1, <2>2
<1>2. Inv /\ [Next]_vars => Inv'
  BY StepInductive, StepListed, StepPasses DEF OneSource
<1>3. Inv => (Local /\ OneSource => SameAsSinglePass)
  <2> SUFFICES ASSUME Local, PassInv, phase = "written", state = None
               PROVE  manifest = Settled(Of(src))
    BY DEF SameAsSinglePass, Complete, Kept
  <2>1. manifest \subseteq From(src) /\ \A c \in Of(src) \cap Top : Entry(c) \in manifest
    BY DEF PassInv, RestInv
  <2>2. manifest = From(src)
    BY <2>1 DEF From
  <2>3. Closed(src, Of(src))
    BY DEF Closed, Of, In
  <2> QED BY <2>2, <2>3, SettledIs DEF From
<1> HIDE DEF Inv
<1> QED
  BY <1>1, <1>2, <1>3, PTL DEF Spec

-----------------------------------------------------------------------------
(* A file on disk that another holds is a record of this attempt still, to *)
(* be deleted when it settles.                                             *)
DiskInv == Kept => disk \subseteq Top \cup (IF phase \in {"scan", "settle"} THEN recs ELSE {})

LEMMA StepDisk == Local /\ ListInv /\ DiskInv /\ [Next]_vars => DiskInv'
<1> SUFFICES ASSUME Local, ListInv, DiskInv, [Next]_vars, Kept'
             PROVE  disk' \subseteq Top \cup (IF phase' \in {"scan", "settle"} THEN recs' ELSE {})
  BY DEF DiskInv
<1>1. ASSUME NEW img \in Images, NEW res \in BOOLEAN, Start(img, res) PROVE
      disk' \subseteq Top
  BY <1>1 DEF Start, Over, Kept, DiskInv
<1>2. CASE (\E i \in Ranges : CarveRange(i)) \/ Cut
  <2>1. \E part : disk' = disk \cup part /\ recs' = recs \cup part
    BY <1>2 DEF CarveRange, Cut
  <2>2. phase = "scan" /\ phase' \in {"scan", "settle"} /\ lost' = lost
    BY <1>2 DEF CarveRange, Cut, count
  <2> QED BY <2>1, <2>2 DEF DiskInv, Kept
<1>3. CASE Settle
  <2>1. phase = "settle" /\ disk' = disk \ Deleted(recs) /\ lost' = lost
    BY <1>3 DEF Settle, count
  <2>2. recs \ Top \subseteq Deleted(recs)
    BY <2>1, DeletedIs DEF ListInv
  <2> QED BY <2>1, <2>2 DEF DiskInv, Kept
<1>4. CASE StreamRange \/ CompleteRange \/ AllScanned
  BY <1>4 DEF StreamRange, CompleteRange, AllScanned, count, durable, DiskInv, Kept
<1>5. CASE Merge \/ Finish \/ WriteManifest
  BY <1>5 DEF Merge, Finish, WriteManifest, count, durable, DiskInv, Kept
<1>6. ~(DieCarving \/ ReportFails \/ TearManifest \/ Kill)
  BY DEF Kept, DieCarving, ReportFails, TearManifest, Kill
<1>7. CASE UNCHANGED vars
  BY <1>7 DEF vars, count, DiskInv, Kept
<1> QED
  BY <1>1, <1>2, <1>3, <1>4, <1>5, <1>6, <1>7 DEF Next

(* Where there is one image: when a completed scan has written its         *)
(* manifest, no file in the output directory is without an entry, unless   *)
(* an attempt ended without writing one.                                   *)
THEOREM DiskIsDescribed ==
  Spec => [](Local /\ ~FreshStarts /\ (\A a, b \in Images : a = b) => DiskIsListed)
<1> DEFINE Inv == Local => ListInv /\ DiskInv
<1>1. Init => Inv
  BY DEF Init, ListInv, There, DiskInv
<1>2. Inv /\ [Next]_vars => Inv'
  BY StepListed, StepDisk
<1>3. Spec => []Inv
  <2> HIDE DEF Inv
  <2> QED BY <1>1, <1>2, PTL DEF Spec
<1> DEFINE One  == ~FreshStarts /\ \A a, b \in Images : a = b
           Same == Local /\ OneSource => SameAsSinglePass
           Src  == ~FreshStarts => Inductive
<1>4. Spec => []Src
  <2>1. Init => Src
    BY InitInductive
  <2>2. Src /\ [Next]_vars => Src'
    BY StepInductive
  <2> HIDE DEF Src
  <2> QED BY <2>1, <2>2, PTL DEF Spec
<1>5. Inv /\ Same /\ Src => (Local /\ One => DiskIsListed)
  <2> SUFFICES ASSUME Local, One, DiskInv, SameAsSinglePass, Inductive, Complete, ~lost,
                      NEW c \in disk
               PROVE  c \in Listed
    BY DEF OneSource, DiskIsListed
  <2>1. c \in Top
    BY DEF DiskInv, Kept, Complete
  <2>2. c \in Of(src)
    BY <2>1, CarveFacts DEF Top, Of, Inductive
  <2>3. manifest = {Entry(d) : d \in Of(src) \cap Top}
    BY SettledIs DEF SameAsSinglePass, Closed, Of, In
  <2>4. Entry(c) \in manifest /\ Entry(c).carve = c
    BY <2>1, <2>2, <2>3 DEF Entry
  <2>5. manifest # None
    <3>1. manifest \subseteq Entries
      BY <2>3 DEF Entries
    <3> QED BY <3>1, EntriesAreAManifest
  <2> QED
    BY <2>4, <2>5 DEF Listed
<1> QED
  BY <1>3, <1>4, <1>5, ResumedIsSinglePass, PTL
=============================================================================
