----------------------------- MODULE SegmentPipe -----------------------------
(***************************************************************************)
(* What the live stream promises to the decoder, without a ring, a lock or *)
(* a refill: a bounded FIFO pipe of transport-stream bytes.                *)
(*                                                                         *)
(* Byte n of the session is written as the number n, so that a byte that   *)
(* is lost, repeated, overwritten or reordered on its way shows in what a  *)
(* read returns.  Whole segments are published, non-empty prefixes of the  *)
(* unread bytes are taken, and the end of the stream is reported only when *)
(* the pipe is closed and everything published has been taken: once closed *)
(* a pipe publishes nothing more, so the end is final.                     *)
(***************************************************************************)
EXTENDS Integers

CONSTANTS Capacity,       \* bytes the pipe may hold at any time
          SegmentLimit    \* the largest segment that may be published

VARIABLES published,      \* bytes published since the session began
          delivered,      \* bytes taken by the reader
          chunk,          \* what the last read that got bytes returned
          closed,         \* no further segment will be published
          ended           \* a read has reported the end of the stream

pvars == <<published, delivered, chunk, closed, ended>>

PipeInit ==
  /\ published = 0
  /\ delivered = 0
  /\ chunk = [i \in 1..0 |-> 0]
  /\ closed = FALSE
  /\ ended = FALSE

Publish ==
  /\ ~closed
  /\ \E size \in 1..SegmentLimit :
       /\ published + size - delivered <= Capacity
       /\ published' = published + size
  /\ UNCHANGED <<delivered, chunk, closed, ended>>

Take ==
  /\ \E n \in 1..(published - delivered) :
       /\ chunk' = [i \in 1..n |-> delivered + i - 1]
       /\ delivered' = delivered + n
  /\ UNCHANGED <<published, closed, ended>>

Close == ~closed /\ closed' = TRUE /\ UNCHANGED <<published, delivered, chunk, ended>>

End ==
  /\ closed
  /\ delivered = published
  /\ ended' = TRUE
  /\ UNCHANGED <<published, delivered, chunk, closed>>

PipeNext == Publish \/ Take \/ Close \/ End

PipeSpec == PipeInit /\ [][PipeNext]_pvars
=============================================================================
