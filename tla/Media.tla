------------------------------- MODULE Media --------------------------------
(***************************************************************************)
(* What a source of bytes promises its callers, whatever container the     *)
(* bytes are kept in: "Read up to len bytes at offset.  A short result     *)
(* means EOF" (src/src/reader.rs:347), and "the same size/pread surface as *)
(* the raw reader" (src/src/images.rs:3).  An answer is the slice of the   *)
(* media that was asked for.  Where part of the media cannot be read, it   *)
(* may stop early, and what there is of it is still from the right place.  *)
(***************************************************************************)
EXTENDS SequencesExt, Integers

VARIABLES
  media,     \* the bytes
  damaged,   \* part of them cannot be read
  answer     \* the latest answer: what was asked for, and what came back

(* At most n bytes at offset o. *)
Slice(s, o, n) == SubSeq(s, o + 1, IF o + n < Len(s) THEN o + n ELSE Len(s))

Right(a) ==
  LET slice == Slice(media, a.off, a.want)
  IN  a.data = slice \/ (damaged /\ IsPrefix(a.data, slice))

MediaInit == answer.want = 0 /\ answer.data = <<>>

Read == Right(answer') /\ UNCHANGED <<media, damaged>>

MediaSpec == MediaInit /\ [][Read]_<<media, damaged, answer>>
=============================================================================
