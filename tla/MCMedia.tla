------------------------------ MODULE MCMedia -------------------------------
(***************************************************************************)
(* Small images in every container, read by one of their clients: directly *)
(* (as the scan and the file-system walks do), through a window, by grep.  *)
(***************************************************************************)
EXTENDS Window, Grep, ImageFormats, TLC

CONSTANT Container  \* "whole": those of WholeSources; "broken_split": the one with a bad segment

VARIABLE client

allVars == <<vars, windowVars, grepVars, client>>

File(bytes) == [bytes |-> bytes, bad |-> {}]

Text == <<1, 2, 1, 1, 2, 1>>

Raw(bad) == [kind |-> "raw", size |-> 6, plain |-> Text, file |-> [bytes |-> Text, bad |-> bad]]

Split(segs) == [kind |-> "split", size |-> 6, plain |-> Text, segs |-> segs]

WholeSplit  == Split(<<File(<<1>>), File(<<2, 1>>), File(<<>>), File(<<1, 2, 1>>)>>)
BrokenSplit == Split(<<File(<<1>>), [bytes |-> <<2, 1>>, bad |-> {1}], File(<<1, 2, 1>>)>>)

(* A cluster in place, one compressed, one unallocated, one in a table     *)
(* that is not there, and a file that ends within a cluster.               *)
Qcow2 ==
  [kind |-> "qcow2", size |-> 9, plain |-> <<1, 2, 1, 1, 2, 0, 0, 0, 0>>, unit |-> 2, perTable |-> 2,
   dir |-> <<2, 1>>, tables |-> <<<<3, 0>>, <<1, -1>>>>,
   packed |-> <<<<1, 1>>>>, file |-> File(<<9, 1, 2, 2>>)]

Vmdk ==
  [kind |-> "vmdk", size |-> 8, plain |-> <<2, 1, 0, 0, 0, 0, 1, 0>>, unit |-> 2, perTable |-> 2,
   dir |-> <<1, 2>>, tables |-> <<<<2, 0>>, <<0, 4>>>>,
   packed |-> <<>>, file |-> File(<<9, 9, 2, 1, 1>>)]

Chunk1(segment, offset) == [segment |-> segment, offset |-> offset, compressed |-> FALSE]
Packed(plain, decodes)  == [compressed |-> TRUE, plain |-> plain, decodes |-> decodes]

Ewf(decodes) ==
  [kind |-> "ewf", size |-> 7, plain |-> <<1, 2, 1, 1, 2, 1, 2>>, unit |-> 2,
   files  |-> <<File(<<9, 1, 2>>), File(<<2, 9>>)>>,
   chunks |-> <<Chunk1(1, 1), Packed(<<1, 1>>, 2), Packed(<<2, 1>>, decodes), Chunk1(2, 0)>>]

(* Two unlocked volumes side by side, one with its first sector moved to   *)
(* where its third is, between plain bytes.                                *)
BitLocker ==
  [kind |-> "bitlocker", size |-> 10, plain |-> <<1>> \o <<2, 1, 1, 2, 2, 1>> \o <<1, 2>> \o <<1>>,
   volumes |-> {[base |-> 1, size |-> 6, sector |-> 2, headerBytes |-> 2, headerSrc |-> 4],
                [base |-> 7, size |-> 2, sector |-> 2, headerBytes |-> 2, headerSrc |-> 0]},
   file |-> File(<<1>> \o <<9, 9>> \o <<Encrypt(1, 1), Encrypt(1, 2)>> \o <<Encrypt(2, 2), Encrypt(2, 1)>>
                 \o <<Encrypt(0, 1), Encrypt(0, 2)>> \o <<1>>)]

WholeSources ==
  {Raw({}), Raw({3}), WholeSplit, Qcow2, Vmdk, Ewf(2), Ewf(1), Ewf(0), BitLocker}

MCSources == IF Container = "whole" THEN WholeSources ELSE {BrokenSplit}

MCViews == {[base |-> 0, limit |-> 9], [base |-> 1, limit |-> 4]}

MCJobs ==
  {[op |-> "read", pos |-> p, n |-> n] : p \in {0, 1, 4}, n \in {0, 2, 4}} \cup
  {[op |-> op, needle |-> w, start |-> s, end |-> e] :
     op \in {"find", "find_last"}, w \in {<<1>>, <<1, 2>>, <<1, 1, 2>>}, s \in {0, 1}, e \in {NoEnd, 3}}

MCQueries ==
  {[patterns |-> ps, regex |-> r, max |-> m, start |-> s, length |-> n] :
     ps \in {<<>>, <<<<1, 2>>>>, <<<<1>>, <<1, 1>>>>, <<<<2, 1>>, <<1, 1>>, <<1, 2>>>>, <<<<2, 1, 1>>, <<1>>>>},
     r \in BOOLEAN, m \in {0, 2}, s \in {0, 1}, n \in {0, 2, 3}}

ASSUME PatternsFit

OneRead == \E o \in 0..(source.size + 1), n \in {0, 1, 2, 3, source.size} : Pread(o, n)

MCInit ==
  /\ ReadersInit /\ WindowInit /\ GrepInit
  /\ client \in {"direct", "window", "grep"}
  /\ client # "window" => base = 0
  /\ client # "grep" => query = [patterns |-> <<>>, regex |-> FALSE, max |-> 0, start |-> 0, length |-> 0]

Serve == ReaderStep /\ UNCHANGED <<windowVars, grepVars, client>>

Direct == client = "direct" /\ OneRead /\ UNCHANGED <<windowVars, grepVars, client>>

ViewStep == client = "window" /\ WindowStep /\ UNCHANGED <<grepVars, client>>

SearchStep == client = "grep" /\ GrepStep /\ UNCHANGED <<windowVars, client>>

MCNext == Serve \/ Direct \/ ViewStep \/ SearchStep

(* The threads that read run on; a caller need not call again. *)
MCSpec ==
  /\ MCInit /\ [][MCNext]_allVars
  /\ WF_allVars(Serve) /\ WF_allVars(SearchStep) /\ WF_allVars(ViewStep /\ phase # "idle")

(* Every read, window job and search comes back: no loop turns without     *)
(* getting on, not at the end of a segment, a truncated chunk or a block   *)
(* cut short by damage either.                                             *)
CallsReturn ==
  /\ Busy ~> ~Busy
  /\ phase # "idle" ~> phase = "idle"
  /\ client = "grep" ~> gphase = "done"
=============================================================================
