--------------------------- MODULE StreamRingProofs ---------------------------
(***************************************************************************)
(* Theorems about StreamRing for every ring size, segment ceiling and set  *)
(* of buffer sizes: its types, the contents of the ring, and that a        *)
(* session implements the FIFO pipe of SegmentPipe.                        *)
(*                                                                         *)
(* RingInv is inductive.  Its hard cases are the two that move bytes:      *)
(* Commit, which copies a segment in two halves, and ReadChunk, which      *)
(* never crosses the end of the array.                                     *)
(***************************************************************************)
EXTENDS StreamRing, TLAPS

-----------------------------------------------------------------------------
(* Cursor arithmetic.                                                       *)

(* A cursor that moved by less than one lap wraps at most once.             *)
LEMMA WrapOnce ==
  ASSUME NEW x \in Nat, x < 2 * RingSize
  PROVE  x % RingSize = IF x < RingSize THEN x ELSE x - RingSize
  BY RingAssumption

LEMMA WrapInIndex ==
  ASSUME NEW x \in Int
  PROVE  x % RingSize \in Index
  BY RingAssumption DEF Index

(* A wrapped cursor moved on by y is the unwrapped one moved on by y.       *)
LEMMA WrapAdd ==
  ASSUME NEW x \in Index, NEW c \in 0..RingSize, NEW y \in 0..RingSize,
         c + y <= RingSize
  PROVE  (((x + c) % RingSize) + y) % RingSize = (x + (c + y)) % RingSize
  <1>1. RingSize \in Nat \ {0} /\ x \in Nat /\ x < RingSize
    BY RingAssumption DEF Index
  <1>2. (x + c) % RingSize = IF x + c < RingSize THEN x + c ELSE x + c - RingSize
    BY <1>1, WrapOnce
  <1>3. (x + (c + y)) % RingSize =
           IF x + (c + y) < RingSize THEN x + (c + y) ELSE x + (c + y) - RingSize
    BY <1>1, WrapOnce
  <1>4. CASE x + c < RingSize
    BY <1>1, <1>2, <1>4
  <1>5. CASE x + c >= RingSize
    <2>1. x + c - RingSize + y \in Nat /\ x + c - RingSize + y < RingSize
      BY <1>1, <1>5
    <2>2. (x + c - RingSize + y) % RingSize = x + c - RingSize + y
      BY <2>1, <1>1, WrapOnce
    <2> QED BY <1>1, <1>2, <1>3, <1>5, <2>2
  <1> QED BY <1>1, <1>4, <1>5

-----------------------------------------------------------------------------
LEMMA InitInv == Init => RingInv
  <1> SUFFICES ASSUME Init PROVE RingInv
    OBVIOUS
  <1>1. RingSize \in Nat \ {0} /\ 0 \in Index /\ SegmentLimit \in Nat
    BY RingAssumption DEF Index
  <1>2. TypeOK
    BY <1>1 DEF Init, TypeOK, None, Index
  <1>3. RingHoldsTheUnreadBytes /\ ring_write = (ring_read + ring_count) % RingSize
    BY <1>1, WrapOnce DEF Init, RingHoldsTheUnreadBytes
  <1>4. ThreadsAgree
    BY DEF Init, ThreadsAgree
  <1> QED BY <1>2, <1>3, <1>4 DEF RingInv

(* A commit keeps the unread bytes and appends the segment after them.      *)
LEMMA CommitInv == RingInv /\ Commit => RingInv'
  <1> SUFFICES ASSUME RingInv, Commit PROVE RingInv'
    OBVIOUS
  <1> USE DEF RingInv
  <1>0. RingSize \in Nat \ {0}
    BY RingAssumption
  <1>t. /\ ring_read \in Index /\ ring_write \in Index
        /\ ring_count \in 0..RingSize /\ ring_count \in Nat
        /\ pending \in Nat /\ pending > 0
        /\ ring_count + pending <= RingSize
        /\ bytes_written \in Nat /\ bytes_read \in Nat
        /\ ring_write = (ring_read + ring_count) % RingSize
    BY <1>0, RingAssumption DEF TypeOK, Commit, FreeSpace
  <1>f. /\ First \in Nat /\ First <= pending
        /\ First = IF pending < RingSize - ring_write THEN pending
                                                      ELSE RingSize - ring_write
    BY <1>0, <1>t DEF First, Index
  <1>1. TypeOK'
    <2>1. ring' \in [Index -> Int]
      BY <1>0, <1>t, <1>f DEF TypeOK, Commit, Copied, Index
    <2>2. ring_write' \in Index
      <3>1. ring_write + pending \in Int
        BY <1>0, <1>t DEF Index
      <3> QED BY <3>1, WrapInIndex DEF Commit
    <2> QED
      BY <2>1, <2>2, <1>0, <1>t, RingAssumption
         DEF TypeOK, Commit, flags, refill, consumer
  <1>2. ring_write' = (ring_read' + ring_count') % RingSize
    <2>1. ring_write' = (((ring_read + ring_count) % RingSize) + pending) % RingSize
      BY <1>t DEF Commit
    <2>2. pending \in 0..RingSize
      BY <1>0, <1>t
    <2> QED
      BY <1>t, <2>1, <2>2, WrapAdd DEF Commit
  <1>3. RingHoldsTheUnreadBytes'
    <2>1. ring_count' = bytes_written' - bytes_read'
      BY <1>t DEF Commit, RingHoldsTheUnreadBytes
    <2>2. ASSUME NEW k \in 0..(ring_count' - 1)
          PROVE  ring'[(ring_read' + k) % RingSize] = bytes_read' + k
      <3>k. k \in Nat /\ k < ring_count + pending /\ k < RingSize
        BY <1>0, <1>t DEF Commit
      <3> DEFINE at == (ring_read + k) % RingSize
      <3>1. at \in Index /\ ring_read \in Nat /\ ring_read < RingSize
        BY <1>0, <1>t, <3>k, WrapInIndex DEF Index
      <3>2. at = IF ring_read + k < RingSize THEN ring_read + k
                                            ELSE ring_read + k - RingSize
        BY <1>0, <3>k, <3>1, WrapOnce
      <3>3. ring_write = IF ring_read + ring_count < RingSize
                           THEN ring_read + ring_count
                           ELSE ring_read + ring_count - RingSize
        BY <1>0, <1>t, <3>1, WrapOnce
      <3>4. ring'[at] = Copied(at)
        BY <3>1 DEF Commit
      <3>5. CASE k < ring_count
        <4>1. ~(at >= ring_write /\ at < ring_write + First)
          BY <1>0, <1>t, <1>f, <3>k, <3>1, <3>2, <3>3, <3>5
        <4>2. ~(at < pending - First)
          BY <1>0, <1>t, <1>f, <3>k, <3>1, <3>2, <3>3, <3>5 DEF Index
        <4>3. Copied(at) = ring[at]
          BY <4>1, <4>2 DEF Copied
        <4>4. ring[at] = bytes_read + k
          BY <3>k, <3>5, <1>t DEF RingHoldsTheUnreadBytes
        <4> QED BY <3>4, <4>3, <4>4 DEF Commit
      <3>6. CASE k >= ring_count
        <4>1. bytes_written = bytes_read + ring_count
          BY <1>t DEF RingHoldsTheUnreadBytes
        <4>2. CASE k - ring_count < First
          <5>1. at = ring_write + (k - ring_count)
            BY <1>0, <1>t, <1>f, <3>k, <3>1, <3>2, <3>3, <3>6, <4>2 DEF Index
          <5>2. Copied(at) = bytes_written + (at - ring_write)
            BY <5>1, <1>f, <1>t, <3>k, <3>6, <4>2 DEF Copied, Index
          <5> QED BY <5>1, <5>2, <4>1, <3>4, <3>k, <1>t DEF Commit, Index
        <4>3. CASE k - ring_count >= First
          <5>1. /\ First = RingSize - ring_write
                /\ at = k - ring_count - First
            BY <1>0, <1>t, <1>f, <3>k, <3>1, <3>2, <3>3, <3>6, <4>3 DEF Index
          <5>2. at < pending - First /\ ~(at >= ring_write)
            BY <5>1, <1>0, <1>t, <1>f, <3>k, <3>1, <3>3, <3>6, <4>3 DEF Index
          <5>3. Copied(at) = bytes_written + First + at
            BY <5>2 DEF Copied
          <5> QED BY <5>1, <5>3, <4>1, <3>4, <3>k, <1>t, <1>f DEF Commit, Index
        <4> QED BY <4>2, <4>3, <3>k, <1>f, <1>t
      <3> QED BY <3>5, <3>6, <3>k, <1>t
    <2> QED BY <2>1, <2>2 DEF RingHoldsTheUnreadBytes
  <1>4. ThreadsAgree'
    BY <1>t DEF ThreadsAgree, Commit, flags, consumer
  <1> QED BY <1>1, <1>2, <1>3, <1>4

(* A read takes cells from ring_read up to the end of the array at most:    *)
(* the bytes are the next ones, and those left stay where they are.         *)
LEMMA ReadGetsNextBytes ==
  ASSUME RingInv, NEW buffer_size \in BufferSizes, ring_count > 0
  PROVE  LET n == ChunkSize(buffer_size)
         IN /\ n \in 1..ring_count
            /\ ring_read + n <= RingSize
            /\ \A i \in 1..n : ring[ring_read + i - 1] = bytes_read + i - 1
  <1> DEFINE n == ChunkSize(buffer_size)
  <1> USE DEF RingInv
  <1>1. /\ RingSize \in Nat \ {0} /\ buffer_size \in Nat \ {0}
        /\ ring_read \in Nat /\ ring_read < RingSize
        /\ ring_count \in Nat /\ bytes_read \in Nat
    BY RingAssumption DEF TypeOK, Index
  <1>2. n \in 1..ring_count /\ ring_read + n <= RingSize
    BY <1>1 DEF ChunkSize, MinOf
  <1>3. ASSUME NEW i \in 1..n
        PROVE  ring[ring_read + i - 1] = bytes_read + i - 1
    <2>1. i - 1 \in 0..(ring_count - 1) /\ ring_read + (i - 1) \in Nat
          /\ ring_read + (i - 1) < RingSize
      BY <1>1, <1>2
    <2>2. (ring_read + (i - 1)) % RingSize = ring_read + (i - 1)
      BY <1>1, <2>1, WrapOnce
    <2>3. ring[(ring_read + (i - 1)) % RingSize] = bytes_read + (i - 1)
      BY <2>1 DEF RingHoldsTheUnreadBytes
    <2> QED BY <2>2, <2>3, <1>1, <1>2
  <1> QED BY <1>2, <1>3

LEMMA ReadChunkInv == RingInv /\ ReadChunk => RingInv'
  <1> SUFFICES ASSUME RingInv, ReadChunk PROVE RingInv'
    OBVIOUS
  <1> USE DEF RingInv
  <1>1. PICK buffer_size \in BufferSizes :
           /\ ring_read' = (ring_read + ChunkSize(buffer_size)) % RingSize
           /\ ring_count' = ring_count - ChunkSize(buffer_size)
           /\ bytes_read' = bytes_read + ChunkSize(buffer_size)
    BY DEF ReadChunk
  <1> DEFINE n == ChunkSize(buffer_size)
  <1>2. n \in 1..ring_count
    BY ReadGetsNextBytes DEF ReadChunk
  <1> HIDE DEF n
  <1>3. /\ RingSize \in Nat \ {0} /\ ring_read \in Index
        /\ ring_count \in 0..RingSize /\ ring_count \in Nat
        /\ bytes_read \in Nat /\ bytes_written \in Nat /\ n \in Nat
    BY <1>2, RingAssumption DEF TypeOK
  <1>4. /\ ring_read' = (ring_read + n) % RingSize
        /\ ring_count' = ring_count - n
        /\ bytes_read' = bytes_read + n
        /\ ring' = ring /\ ring_write' = ring_write
        /\ bytes_written' = bytes_written
    BY <1>1 DEF n, ReadChunk
  <1>5. TypeOK'
    <2>1. ring_read' \in Index
      <3>1. ring_read + n \in Int
        BY <1>3 DEF Index
      <3> QED BY <3>1, <1>4, WrapInIndex
    <2>2. ring_count' \in 0..RingSize /\ bytes_read' \in Nat
      BY <1>2, <1>3, <1>4
    <2>3. rebuffering' \in BOOLEAN
      BY DEF ReadChunk, TypeOK
    <2> QED BY <2>1, <2>2, <2>3, <1>4 DEF TypeOK, ReadChunk, producer
  <1>6. ring_write' = (ring_read' + ring_count') % RingSize
    <2>1. /\ n \in 0..RingSize /\ ring_count - n \in 0..RingSize
          /\ n + (ring_count - n) <= RingSize
          /\ n + (ring_count - n) = ring_count
      BY <1>2, <1>3
    <2>2. (((ring_read + n) % RingSize) + (ring_count - n)) % RingSize
             = (ring_read + (n + (ring_count - n))) % RingSize
      BY <2>1, <1>3, WrapAdd
    <2> QED BY <2>1, <2>2, <1>4
  <1>7. RingHoldsTheUnreadBytes'
    <2>1. ring_count' = bytes_written' - bytes_read'
      BY <1>2, <1>3, <1>4 DEF RingHoldsTheUnreadBytes
    <2>2. ASSUME NEW k \in 0..(ring_count' - 1)
          PROVE  ring'[(ring_read' + k) % RingSize] = bytes_read' + k
      <3>1. /\ k \in Nat /\ n + k \in 0..(ring_count - 1)
            /\ n \in 0..RingSize /\ k \in 0..RingSize /\ n + k <= RingSize
        BY <1>2, <1>3, <1>4
      <3>2. (((ring_read + n) % RingSize) + k) % RingSize
               = (ring_read + (n + k)) % RingSize
        BY <3>1, <1>3, WrapAdd
      <3>3. ring[(ring_read + (n + k)) % RingSize] = bytes_read + (n + k)
        BY <3>1 DEF RingHoldsTheUnreadBytes
      <3> QED BY <3>1, <3>2, <3>3, <1>3, <1>4
    <2> QED BY <2>1, <2>2 DEF RingHoldsTheUnreadBytes
  <1>8. ThreadsAgree'
    BY DEF ThreadsAgree, ReadChunk, producer
  <1> QED BY <1>5, <1>6, <1>7, <1>8

(* The steps that move no bytes leave the ring as it is.                    *)
LEMMA CellsKept ==
  ASSUME RingInv, UNCHANGED cells
  PROVE  /\ RingHoldsTheUnreadBytes'
         /\ ring_write' = (ring_read' + ring_count') % RingSize
  BY DEF RingInv, RingHoldsTheUnreadBytes, cells

(* A failed try keeps the types of what it writes.                          *)
LEMMA FetchFailedTypes ==
  ASSUME TypeOK, FetchFailed
  PROVE  /\ stop_requested' \in BOOLEAN
         /\ pending' = 0
         /\ attempts' \in Nat
         /\ writer' \in {writer, "ended", "leaving", "poll"}
         /\ writer = "staging" => writer' \in {"staging", "ended"}
         /\ writer # "staging" => writer' \in {"leaving", "poll"}
  <1>1. stop_requested' \in BOOLEAN
    <2>1. CASE writer = "staging"
      BY <2>1 DEF FetchFailed
    <2>2. CASE writer # "staging"
      BY <2>2 DEF FetchFailed
    <2> QED BY <2>1, <2>2
  <1>2. attempts' \in Nat
    BY DEF FetchFailed, TypeOK
  <1>3. pending' = 0
    BY DEF FetchFailed
  <1>4. CASE writer = "staging"
    BY <1>1, <1>2, <1>3, <1>4 DEF FetchFailed
  <1>5. CASE writer # "staging"
    BY <1>1, <1>2, <1>3, <1>5 DEF FetchFailed
  <1> QED BY <1>1, <1>2, <1>3, <1>4, <1>5

LEMMA NextInv == RingInv /\ [Next]_vars => RingInv'
  <1> SUFFICES ASSUME RingInv, [Next]_vars PROVE RingInv'
    OBVIOUS
  <1>l. /\ SegmentLimit \in Nat /\ SegmentSizes \subseteq 1..SegmentLimit
        /\ MaxFailures \in Nat /\ RetryCount \in Nat
        /\ RecoveryTargets \subseteq Nat /\ 0 \in 0..SegmentLimit
    BY RingAssumption
  <1>k. ASSUME UNCHANGED cells, TypeOK', ThreadsAgree' PROVE RingInv'
    BY <1>k, CellsKept DEF RingInv
  <1>i. TypeOK /\ ThreadsAgree
    BY DEF RingInv
  <1>1. CASE Download
    BY <1>1, <1>i, <1>k, <1>l
       DEF Download, TypeOK, ThreadsAgree, cells, flags, refill, consumer
  <1>2. CASE DownloadFails
    BY <1>2, <1>i, <1>k, <1>l, FetchFailedTypes
       DEF DownloadFails, TypeOK, ThreadsAgree, cells, refill, consumer
  <1>3. CASE Boundary
    BY <1>3, <1>i, <1>k, <1>l
       DEF Boundary, TypeOK, ThreadsAgree, cells, refill, consumer
  <1>4. CASE Commit
    BY <1>4, CommitInv
  <1>5. CASE CommitRefused
    BY <1>5, <1>i, <1>k, <1>l, FetchFailedTypes
       DEF CommitRefused, TypeOK, ThreadsAgree, cells, refill, consumer
  <1>6. CASE CommitStopped
    BY <1>6, <1>i, <1>k, <1>l
       DEF CommitStopped, TypeOK, ThreadsAgree, cells, flags, refill, consumer
  <1>7a. CASE StartProducer
    BY <1>7a, <1>i, <1>k
       DEF StartProducer, TypeOK, ThreadsAgree, cells, refill, consumer
  <1>7b. CASE StartFails
    BY <1>7b, <1>i, <1>k
       DEF StartFails, TypeOK, ThreadsAgree, cells, refill, consumer
  <1>8. CASE PublishSession
    BY <1>8, <1>i, <1>k
       DEF PublishSession, TypeOK, ThreadsAgree, cells, refill, producer, consumer
  <1>9. CASE ProducerPoll \/ PlaylistDone \/ ProducerSeesStop
    BY <1>9, <1>i, <1>k
       DEF ProducerPoll, PlaylistDone, ProducerSeesStop, TypeOK, ThreadsAgree,
           cells, flags, refill, consumer
  <1>10. CASE ProducerExit
    BY <1>10, <1>i, <1>k
       DEF ProducerExit, TypeOK, ThreadsAgree, cells, refill, consumer
  <1>11. CASE RequestStop
    BY <1>11, <1>i, <1>k
       DEF RequestStop, TypeOK, ThreadsAgree, cells, refill, producer, consumer
  <1>12. CASE ReadCall
    BY <1>12, <1>i, <1>k
       DEF ReadCall, TypeOK, ThreadsAgree, cells, flags, refill, producer
  <1>13. CASE BeginRefill
    BY <1>13, <1>i, <1>k, <1>l
       DEF BeginRefill, TypeOK, ThreadsAgree, cells, producer, consumer
  <1>14. CASE ReadChunk
    BY <1>14, ReadChunkInv
  <1>15. CASE ReadEnd
    BY <1>15, <1>i, <1>k
       DEF ReadEnd, TypeOK, ThreadsAgree, cells, refill, producer
  <1>16. CASE Tick
    BY <1>16, <1>i, <1>k
       DEF Tick, TypeOK, ThreadsAgree, cells, flags, producer, consumer
  <1>17. CASE UNCHANGED vars
    BY <1>17, <1>i, <1>k
       DEF vars, TypeOK, ThreadsAgree, cells, flags, refill, producer, consumer
  <1> QED
    BY <1>1, <1>2, <1>3, <1>4, <1>5, <1>6, <1>7a, <1>7b, <1>8, <1>9, <1>10, <1>11,
       <1>12, <1>13, <1>14, <1>15, <1>16, <1>17 DEF Next

-----------------------------------------------------------------------------
THEOREM RingInvariant == Spec => []RingInv
  BY InitInv, NextInv, PTL DEF Spec

(* Whatever the threads of a session do, every variable keeps its type: the *)
(* cursors of stream_ring stay inside the array.                            *)
THEOREM TypeCorrect == Spec => []TypeOK
  <1>1. RingInv => TypeOK
    BY DEF RingInv
  <1> QED BY <1>1, RingInvariant, PTL

(* The unread part of the ring holds exactly the committed and unread bytes *)
(* in order: ring_commit_segment and miniiptv_live_stream_read never        *)
(* overwrite, lose, repeat or reorder a byte, for any ring and ceiling.     *)
THEOREM RingContents == Spec => []RingHoldsTheUnreadBytes
  <1>1. RingInv => RingHoldsTheUnreadBytes
    BY DEF RingInv
  <1> QED BY <1>1, RingInvariant, PTL

-----------------------------------------------------------------------------
(* Refinement: every step of a session is a step of the pipe or leaves the  *)
(* pipe as it is.                                                           *)

LEMMA PipeInitially == Init => Pipe!PipeInit
  BY DEF Init, Pipe!PipeInit, Closed, None

LEMMA CommitPublishes == RingInv /\ Commit => Pipe!Publish
  <1> SUFFICES ASSUME RingInv, Commit PROVE Pipe!Publish
    OBVIOUS
  <1>1. ~Closed /\ Closed' = Closed
    BY DEF Closed, Commit, flags, RingInv, ThreadsAgree
  <1>2. /\ pending \in 1..SegmentLimit
        /\ bytes_written + pending - bytes_read <= RingSize
    BY RingAssumption
       DEF RingInv, TypeOK, RingHoldsTheUnreadBytes, Commit, FreeSpace
  <1>3. bytes_written' = bytes_written + pending
    BY DEF Commit
  <1>4. UNCHANGED <<bytes_read, chunk, eof>>
    BY DEF Commit, consumer
  <1> QED BY <1>1, <1>2, <1>3, <1>4 DEF Pipe!Publish

LEMMA ReadTakes == RingInv /\ ReadChunk => Pipe!Take
  <1> SUFFICES ASSUME RingInv, ReadChunk PROVE Pipe!Take
    OBVIOUS
  <1>1. PICK buffer_size \in BufferSizes :
           /\ chunk' = [i \in 1..ChunkSize(buffer_size) |-> ring[ring_read + i - 1]]
           /\ bytes_read' = bytes_read + ChunkSize(buffer_size)
    BY DEF ReadChunk
  <1> DEFINE n == ChunkSize(buffer_size)
  <1>2. /\ n \in 1..ring_count
        /\ \A i \in 1..n : ring[ring_read + i - 1] = bytes_read + i - 1
    BY ReadGetsNextBytes DEF ReadChunk
  <1>3. ring_count = bytes_written - bytes_read
    BY DEF RingInv, RingHoldsTheUnreadBytes
  <1> HIDE DEF n
  <1>4. chunk' = [i \in 1..n |-> bytes_read + i - 1]
    BY <1>1, <1>2 DEF n
  <1>5. bytes_read' = bytes_read + n
    BY <1>1 DEF n
  <1>6. UNCHANGED <<bytes_written, Closed, eof>>
    BY DEF ReadChunk, Closed, producer
  <1> QED BY <1>2, <1>3, <1>4, <1>5, <1>6 DEF Pipe!Take

LEMMA ReadEndEnds == RingInv /\ ReadEnd => Pipe!End
  <1> SUFFICES ASSUME RingInv, ReadEnd PROVE Pipe!End
    OBVIOUS
  <1>1. Closed
    BY DEF ReadEnd, Finished, Closed, RingInv, ThreadsAgree, TypeOK
  <1>2. bytes_read = bytes_written
    BY DEF ReadEnd, RingInv, RingHoldsTheUnreadBytes, TypeOK
  <1>3. eof' = TRUE /\ UNCHANGED <<bytes_written, bytes_read, chunk, Closed>>
    BY DEF ReadEnd, Closed, cells, producer
  <1> QED BY <1>1, <1>2, <1>3 DEF Pipe!End

(* The other steps move no bytes; they may close the pipe, never reopen it. *)
LEMMA OthersClose ==
  ASSUME UNCHANGED <<bytes_written, bytes_read, chunk, eof>>, Closed => Closed'
  PROVE  Pipe!Close \/ UNCHANGED Pipe!pvars
  <1>1. CASE ~Closed /\ Closed'
    BY <1>1 DEF Pipe!Close, Closed
  <1>2. CASE Closed' = Closed
    BY <1>2 DEF Pipe!pvars
  <1> QED BY <1>1, <1>2 DEF Closed

LEMMA StepImplementsPipe == RingInv /\ [Next]_vars => [Pipe!PipeNext]_(Pipe!pvars)
  <1> SUFFICES ASSUME RingInv, [Next]_vars PROVE [Pipe!PipeNext]_(Pipe!pvars)
    OBVIOUS
  <1>k. ASSUME UNCHANGED <<bytes_written, bytes_read, chunk, eof>>, Closed => Closed'
        PROVE  [Pipe!PipeNext]_(Pipe!pvars)
    BY <1>k, OthersClose DEF Pipe!PipeNext
  <1>1. CASE Commit
    BY <1>1, CommitPublishes DEF Pipe!PipeNext
  <1>2. CASE ReadChunk
    BY <1>2, ReadTakes DEF Pipe!PipeNext
  <1>3. CASE ReadEnd
    BY <1>3, ReadEndEnds DEF Pipe!PipeNext
  <1>4. CASE Download \/ Boundary \/ CommitStopped
    BY <1>4, <1>k
       DEF Download, Boundary, CommitStopped, Closed, cells, flags, consumer
  <1>5. CASE DownloadFails \/ CommitRefused
    <2>1. UNCHANGED <<bytes_written, bytes_read, chunk, eof>>
      BY <1>5 DEF DownloadFails, CommitRefused, cells, consumer
    <2>2. ~Closed
      BY <1>5 DEF DownloadFails, CommitRefused, Closed, RingInv, TypeOK, ThreadsAgree
    <2> QED BY <2>1, <2>2, <1>k
  <1>6. CASE StartProducer \/ StartFails \/ PublishSession \/ ProducerPoll
             \/ PlaylistDone \/ ProducerSeesStop \/ ProducerExit \/ RequestStop
    BY <1>6, <1>k
       DEF StartProducer, StartFails, PublishSession, ProducerPoll, PlaylistDone,
           ProducerSeesStop, ProducerExit, RequestStop, Closed, cells, flags,
           producer, consumer
  <1>7. CASE ReadCall \/ BeginRefill \/ Tick \/ UNCHANGED vars
    BY <1>7, <1>k
       DEF ReadCall, BeginRefill, Tick, vars, Closed, cells, flags, producer, consumer
  <1> QED
    BY <1>1, <1>2, <1>3, <1>4, <1>5, <1>6, <1>7 DEF Next

(* A session of live_stream.c is a bounded FIFO pipe of whole segments: the *)
(* decoder reads consecutive bytes, nothing is published after the stream   *)
(* is finished, and end of stream is reported only after everything that    *)
(* was committed has been read, whatever the interleaving of threads.       *)
THEOREM RingImplementsPipe == Spec => ImplementsPipe
  BY PipeInitially, StepImplementsPipe, RingInvariant, PTL
     DEF Spec, ImplementsPipe, Pipe!PipeSpec
=============================================================================
