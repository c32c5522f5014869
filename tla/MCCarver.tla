------------------------------ MODULE MCCarver ------------------------------
(***************************************************************************)
(* The sweep, on sources of twelve bytes read five at a time, with up to   *)
(* three headers of two-byte magics at any place; and beside it what it    *)
(* hands a header to, the handlers, on the files of MCDocuments.           *)
(***************************************************************************)
EXTENDS Carver, Containers

D == INSTANCE MCDocuments

MCDocs == D!MCDocs

Header(start, off, zeros, back, size, validated) ==
  [start |-> start, off |-> off, len |-> 2, zeros |-> zeros, back |-> back,
   size |-> size, validated |-> validated]

OneRange  == <<<<0, 12>>>>
TwoRanges == <<<<0, 6>>, <<6, 12>>>>

UpToThree(hs) == {{}} \cup {{f, g, h} : f, g, h \in hs}

Plain == {Header(s, 0, 0, 0, n, v) : s \in 0..10, n \in {0, 3, 6}, v \in BOOLEAN}

(* As Plain, and headers whose magic is two bytes into the file. *)
Mixed == {Header(s, o, 0, 0, n, v) : s \in 0..8, o \in {0, 2}, n \in {0, 5}, v \in {TRUE}}

Images(hs) == {i \in UpToThree(hs) : Apart(i)}

(* One range with magics at and past the start of a file, and two with     *)
(* carves that nest where they cross from one to the other.                *)
MCScans ==
  {[image |-> i, ranges |-> OneRange] : i \in Images(Mixed)}
    \cup {s \in [image : Images(Plain) \cup Images(Mixed), ranges : {TwoRanges}] :
            Regular(s) /\ Nested(s)}

ASSUME \A s \in MCScans : Regular(s) /\ Nested(s)

-----------------------------------------------------------------------------
allVars == <<vars, handlerVars>>

(* Either side has nothing to do while the other is tried. *)
NoSource ==
  /\ image = {} /\ ranges = <<>> /\ phase = "end" /\ at = 1 /\ pos = 0 /\ limit = 0
  /\ hits = <<>> /\ nextAllowed = 0 /\ records = {} /\ tried = {}

NoWindow ==
  /\ doc = [format |-> "none", limit |-> 0, end |-> Nowhere, ends |-> {}]
  /\ stage = "done" /\ here = 0 /\ reach = 0 /\ tally = 0 /\ seen = {} /\ found = <<>>
  /\ verdict = Refused

MCInit == (Init /\ NoWindow) \/ (HandlerInit /\ NoSource)

Sweep  == Next /\ UNCHANGED handlerVars
Handle == HandlerStep /\ UNCHANGED vars

(* A handler runs until it returns. *)
MCSpec == MCInit /\ [][Sweep \/ Handle]_allVars /\ WF_allVars(Handle)
=============================================================================
