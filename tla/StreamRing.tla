------------------------------ MODULE StreamRing ------------------------------
(***************************************************************************)
(* One live-stream session of source/miniiptv/live_stream.c: the tune      *)
(* worker stages the initial segments, the producer thread commits whole   *)
(* segments into the ring, the decoder thread takes bytes out of it, and   *)
(* anyone may ask for a stop.  Every section the code runs under           *)
(* stream_lock is one action.                                              *)
(*                                                                         *)
(* Sizes are in units of the caller's choice (the run uses 512 KiB).  Byte n *)
(* of the session is the number n: ring cells hold the bytes themselves.   *)
(***************************************************************************)
EXTENDS Integers

CONSTANTS
  RingSize,          \* STREAM_RING_SIZE, 6 MiB
  SegmentLimit,      \* MINIIPTV_SEGMENT_LIMIT, 4 MiB
  SegmentSizes,      \* the sizes of the segments a broadcaster serves
  HighWater,         \* STREAM_HIGH_WATER_BYTES, 5 MiB
  RecoveryTargets,   \* the refill targets a recovery plan may set
  BufferSizes,       \* the buffer sizes a read may be called with
  InitialSegments,   \* STREAM_COLD_INITIAL_SEGMENTS, 2
  RetryCount,        \* STREAM_NETWORK_RETRY_COUNT, 2
  MaxFailures,       \* STREAM_MAX_CONSECUTIVE_PRODUCER_FAILURES, 3
  MaxBytes           \* bound of the model: bytes committed in one session

ASSUME RingAssumption ==
  /\ RingSize \in Nat \ {0}
  /\ SegmentLimit \in 1..RingSize
  /\ SegmentSizes \subseteq 1..SegmentLimit
  /\ HighWater \in 1..RingSize
  /\ RecoveryTargets \subseteq Nat \ {0}
  /\ BufferSizes \subseteq Nat \ {0}
  /\ InitialSegments \in Nat \ {0}
  /\ RetryCount \in Nat
  /\ MaxFailures \in Nat \ {0}
  /\ MaxBytes \in Nat

VARIABLES
  ring,              \* stream_ring, a byte (or None) per cell
  ring_read, ring_write, ring_count,
  bytes_written, bytes_read,
  stop_requested, producer_running, initialized, reader_started,
  rebuffering, rebuffer_target,
  deadline_passed,   \* osGetTime() >= stream.rebuffer_deadline_ms
  writer,            \* where the thread that commits segments is
  pending,           \* size of the downloaded segment it holds, 0 when none
  staged,            \* segments staged by the tune
  attempts,          \* failed tries: `retry' of the staging loop, then the
                     \* producer's consecutive_segment_failures
  reader,            \* the decoder thread: out of a read, or in its loop
  chunk,             \* what the last read that got bytes returned
  eof                \* a read has returned 0

cells    == <<ring, ring_read, ring_write, ring_count, bytes_written, bytes_read>>
flags    == <<stop_requested, producer_running, initialized, reader_started>>
refill   == <<rebuffering, rebuffer_target, deadline_passed>>
producer == <<writer, pending, staged, attempts>>
consumer == <<reader, chunk, eof>>
vars     == <<cells, flags, refill, producer, consumer>>

Index == 0..(RingSize - 1)
None == -1

Init ==
  /\ ring = [i \in Index |-> None]
  /\ ring_read = 0 /\ ring_write = 0 /\ ring_count = 0
  /\ bytes_written = 0 /\ bytes_read = 0
  /\ stop_requested = FALSE /\ producer_running = FALSE
  /\ initialized = FALSE /\ reader_started = FALSE
  /\ rebuffering = FALSE /\ rebuffer_target = 0 /\ deadline_passed = FALSE
  /\ writer = "staging" /\ pending = 0 /\ staged = 0 /\ attempts = 0
  /\ reader = "out" /\ chunk = [i \in 1..0 |-> None] /\ eof = FALSE

FreeSpace == RingSize - ring_count

-----------------------------------------------------------------------------
(* Downloads: stream_segment up to its ring_commit_segment call.            *)

(* network_stream_data returned a complete segment into segment_staging.    *)
Download ==
  /\ writer \in {"staging", "segment"}
  /\ pending = 0
  /\ writer = "staging" => staged < InitialSegments
  /\ ~stop_requested
  /\ \E size \in SegmentSizes :
       /\ bytes_written + size <= MaxBytes
       /\ pending' = size
  /\ UNCHANGED <<cells, flags, refill, writer, staged, attempts, consumer>>

(* A retryable SEGMENT_FETCH_FAILED, from the network or from a ring that   *)
(* has no room: the staging loop tries again RetryCount times and then      *)
(* fails the tune, which stops the session; the producer gives up at the    *)
(* MaxFailures-th failure in a row.                                         *)
FetchFailed ==
  /\ pending' = 0
  /\ IF writer = "staging"
       THEN /\ attempts' = IF attempts < RetryCount THEN attempts + 1 ELSE attempts
            /\ writer' = IF attempts < RetryCount THEN writer ELSE "ended"
            /\ stop_requested' = (attempts >= RetryCount)
       ELSE /\ attempts' = attempts + 1
            /\ stop_requested' = (stop_requested \/ attempts + 1 >= MaxFailures)
            /\ writer' = IF stop_requested' THEN "leaving" ELSE "poll"

DownloadFails ==
  /\ writer \in {"staging", "segment"}
  /\ pending = 0
  /\ writer = "staging" => staged < InitialSegments
  /\ ~stop_requested
  /\ FetchFailed
  /\ UNCHANGED <<cells, producer_running, initialized, reader_started, refill,
                 staged, consumer>>

(* A permanent failure: the body is not MPEG-TS, the mux fails, the segment *)
(* is over the ceiling, or the playlist shows a boundary.                   *)
Boundary ==
  /\ writer \in {"staging", "segment"}
  /\ pending = 0
  /\ stop_requested' = TRUE
  /\ writer' = IF writer = "staging" THEN "ended" ELSE "leaving"
  /\ UNCHANGED <<cells, producer_running, initialized, reader_started, refill,
                 pending, staged, attempts, consumer>>

-----------------------------------------------------------------------------
(* ring_commit_segment: one pass of its loop per action.                    *)

First == LET contiguous == RingSize - ring_write
         IN IF pending < contiguous THEN pending ELSE contiguous

(* Mutant of Copied: the second memcpy starts from `data', not `data + first'. *)
CopiedTwice(i) ==
  IF i >= ring_write /\ i < ring_write + First
    THEN bytes_written + (i - ring_write)
    ELSE IF i < pending - First THEN bytes_written + i ELSE ring[i]

(* Both memcpy calls: `First' bytes at ring_write, the rest at the start.   *)
Copied(i) ==
  IF i >= ring_write /\ i < ring_write + First
    THEN bytes_written + (i - ring_write)
    ELSE IF i < pending - First THEN bytes_written + First + i ELSE ring[i]

(* Mutant of Commit: the write cursor does not wrap.                        *)
CommitWithoutWrap ==
  /\ pending > 0 /\ ~stop_requested /\ FreeSpace >= pending
  /\ ring' = [i \in Index |-> Copied(i)]
  /\ ring_write' = ring_write + pending
  /\ ring_count' = ring_count + pending
  /\ bytes_written' = bytes_written + pending
  /\ pending' = 0 /\ attempts' = 0
  /\ staged' = IF writer = "staging" THEN staged + 1 ELSE staged
  /\ UNCHANGED <<ring_read, bytes_read, flags, refill, writer, consumer>>

(* Mutant of Commit: the stop is checked before the loop, not in it.        *)
CommitAfterStop ==
  /\ pending > 0 /\ FreeSpace >= pending
  /\ ring' = [i \in Index |-> Copied(i)]
  /\ ring_write' = (ring_write + pending) % RingSize
  /\ ring_count' = ring_count + pending
  /\ bytes_written' = bytes_written + pending
  /\ pending' = 0 /\ attempts' = 0
  /\ staged' = IF writer = "staging" THEN staged + 1 ELSE staged
  /\ UNCHANGED <<ring_read, bytes_read, flags, refill, writer, consumer>>

Commit ==
  /\ pending > 0
  /\ ~stop_requested
  /\ FreeSpace >= pending
  /\ ring' = [i \in Index |-> Copied(i)]
  /\ ring_write' = (ring_write + pending) % RingSize
  /\ ring_count' = ring_count + pending
  /\ bytes_written' = bytes_written + pending
  /\ pending' = 0
  /\ attempts' = 0
  /\ staged' = IF writer = "staging" THEN staged + 1 ELSE staged
  /\ UNCHANGED <<ring_read, bytes_read, flags, refill, writer, consumer>>

(* No room and nobody reading yet: fail cleanly instead of deadlocking.     *)
CommitRefused ==
  /\ pending > 0
  /\ ~stop_requested
  /\ FreeSpace < pending
  /\ ~reader_started
  /\ FetchFailed
  /\ UNCHANGED <<cells, producer_running, initialized, reader_started, refill,
                 staged, consumer>>

CommitStopped ==
  /\ pending > 0
  /\ stop_requested
  /\ pending' = 0
  /\ writer' = IF writer = "staging" THEN "ended" ELSE "leaving"
  /\ UNCHANGED <<cells, flags, refill, staged, attempts, consumer>>

-----------------------------------------------------------------------------
(* miniiptv_live_stream_start after staging, and the loop of producer_main. *)

(* The initial selection may be shorter than InitialSegments.               *)
StartProducer ==
  /\ writer = "staging"
  /\ pending = 0
  /\ staged > 0
  /\ ~stop_requested
  /\ producer_running' = TRUE
  /\ writer' = "poll"
  /\ attempts' = 0
  /\ UNCHANGED <<cells, stop_requested, initialized, reader_started, refill,
                 pending, staged, consumer>>

(* threadCreate failed: the tune fails and stops its session.               *)
StartFails ==
  /\ writer = "staging"
  /\ pending = 0
  /\ staged > 0
  /\ ~stop_requested
  /\ writer' = "ended"
  /\ stop_requested' = TRUE
  /\ UNCHANGED <<cells, producer_running, initialized, reader_started, refill,
                 pending, staged, attempts, consumer>>

(* After threadCreate: the session becomes readable, whatever the producer  *)
(* has done meanwhile.                                                      *)
PublishSession ==
  /\ writer \in {"poll", "segment", "leaving", "exited"}
  /\ ~initialized
  /\ initialized' = TRUE
  /\ UNCHANGED <<cells, stop_requested, producer_running, reader_started, refill,
                 producer, consumer>>

(* The top of the producer's loop: below the high-water mark a playlist is  *)
(* taken and its segments are tried.                                        *)
ProducerPoll ==
  /\ writer = "poll"
  /\ ~stop_requested
  /\ ring_count < HighWater
  /\ writer' = "segment"
  /\ UNCHANGED <<cells, flags, refill, pending, staged, attempts, consumer>>

PlaylistDone ==
  /\ writer = "segment"
  /\ pending = 0
  /\ ~stop_requested
  /\ writer' = "poll"
  /\ UNCHANGED <<cells, flags, refill, pending, staged, attempts, consumer>>

ProducerSeesStop ==
  /\ writer \in {"staging", "poll", "segment"}
  /\ pending = 0
  /\ stop_requested
  /\ writer' = IF writer = "staging" THEN "ended" ELSE "leaving"
  /\ UNCHANGED <<cells, flags, refill, pending, staged, attempts, consumer>>

ProducerExit ==
  /\ writer = "leaving"
  /\ writer' = "exited"
  /\ producer_running' = FALSE
  /\ UNCHANGED <<cells, stop_requested, initialized, reader_started, refill,
                 pending, staged, attempts, consumer>>

(* miniiptv_live_stream_request_stop, by the user, the player or a timeout. *)
RequestStop ==
  /\ ~stop_requested
  /\ stop_requested' = TRUE
  /\ UNCHANGED <<cells, producer_running, initialized, reader_started, refill,
                 producer, consumer>>

-----------------------------------------------------------------------------
(* miniiptv_live_stream_read: one pass of its loop per action.              *)

Finished == stop_requested \/ ~producer_running

ReadCall ==
  /\ reader = "out"
  /\ initialized
  /\ reader' = "in"
  /\ UNCHANGED <<cells, flags, refill, producer, chunk, eof>>

(* A real underrun: the ring is empty after bytes were read.                *)
BeginRefill ==
  /\ reader = "in"
  /\ bytes_read > 0 /\ ring_count = 0 /\ ~rebuffering /\ ~Finished
  /\ reader_started' = TRUE
  /\ rebuffering' = TRUE
  /\ \E target \in RecoveryTargets : rebuffer_target' = target
  /\ deadline_passed' = FALSE
  /\ UNCHANGED <<cells, stop_requested, producer_running, initialized, producer,
                 consumer>>

(* Mutant of LeavesRefill: a refill has no deadline.                        *)
LeavesRefillAtTarget == ring_count >= rebuffer_target

LeavesRefill ==
  \/ ring_count >= rebuffer_target
  \/ ring_count > 0 /\ deadline_passed

MinOf(a, b) == IF a < b THEN a ELSE b

ChunkSize(buffer_size) ==
  MinOf(MinOf(buffer_size, ring_count), RingSize - ring_read)

ReadChunk ==
  /\ reader = "in"
  /\ ring_count > 0
  /\ reader_started' = TRUE
  /\ rebuffering' = (rebuffering /\ ~LeavesRefill)
  /\ ~rebuffering' \/ Finished
  /\ \E buffer_size \in BufferSizes :
       LET n == ChunkSize(buffer_size)
       IN /\ chunk' = [i \in 1..n |-> ring[ring_read + i - 1]]
          /\ ring_read' = (ring_read + n) % RingSize
          /\ ring_count' = ring_count - n
          /\ bytes_read' = bytes_read + n
  /\ reader' = "out"
  /\ UNCHANGED <<ring, ring_write, bytes_written, stop_requested,
                 producer_running, initialized, rebuffer_target,
                 deadline_passed, producer, eof>>

ReadEnd ==
  /\ reader = "in"
  /\ Finished /\ ring_count = 0
  /\ reader_started' = TRUE
  /\ reader' = "out"
  /\ eof' = TRUE
  /\ UNCHANGED <<cells, stop_requested, producer_running, initialized, refill,
                 producer, chunk>>

(* The clock reaches the refill deadline, 2.5 to 8 seconds later.           *)
Tick ==
  /\ rebuffering
  /\ ~deadline_passed
  /\ deadline_passed' = TRUE
  /\ UNCHANGED <<cells, flags, rebuffering, rebuffer_target, producer, consumer>>

-----------------------------------------------------------------------------
CommitStep == Commit \/ CommitRefused \/ CommitStopped
ReadStep == BeginRefill \/ ReadChunk \/ ReadEnd

Next ==
  \/ Download \/ DownloadFails \/ Boundary
  \/ Commit \/ CommitRefused \/ CommitStopped
  \/ StartProducer \/ StartFails \/ PublishSession
  \/ ProducerPoll \/ PlaylistDone \/ ProducerSeesStop \/ ProducerExit
  \/ RequestStop
  \/ ReadCall \/ BeginRefill \/ ReadChunk \/ ReadEnd
  \/ Tick

Spec == Init /\ [][Next]_vars

(* The threads are scheduled and the clock advances; the decoder keeps      *)
(* calling read while it plays.  Nothing is assumed of the network, of the  *)
(* user or of the broadcaster.                                              *)
Fairness ==
  /\ WF_vars(CommitStep)
  /\ WF_vars(ReadCall)
  /\ WF_vars(ReadStep)
  /\ WF_vars(Tick)
  /\ WF_vars(ProducerExit)
  /\ WF_vars(PublishSession)

FairSpec == Spec /\ Fairness

-----------------------------------------------------------------------------
(* Properties.                                                              *)

(* Every variable of the session has its type, and the cursors stay in the  *)
(* ring whatever the threads do.                                            *)
TypeOK ==
  /\ ring \in [Index -> Int]
  /\ ring_read \in Index /\ ring_write \in Index /\ ring_count \in 0..RingSize
  /\ bytes_written \in Nat /\ bytes_read \in Nat
  /\ stop_requested \in BOOLEAN /\ producer_running \in BOOLEAN
  /\ initialized \in BOOLEAN /\ reader_started \in BOOLEAN
  /\ rebuffering \in BOOLEAN /\ rebuffer_target \in Nat
  /\ deadline_passed \in BOOLEAN
  /\ writer \in {"staging", "poll", "segment", "leaving", "exited", "ended"}
  /\ pending \in 0..SegmentLimit
  /\ staged \in Nat /\ attempts \in Nat
  /\ reader \in {"out", "in"}
  /\ eof \in BOOLEAN

(* The ring_count cells from ring_read on hold exactly the bytes that were  *)
(* committed and not yet read, in order, across any number of wraps: no     *)
(* commit overwrites an unread byte and no read moves past a committed one  *)
(* (ring_commit_segment against miniiptv_live_stream_read).                 *)
RingHoldsTheUnreadBytes ==
  /\ ring_count = bytes_written - bytes_read
  /\ \A k \in 0..(ring_count - 1) :
       ring[(ring_read + k) % RingSize] = bytes_read + k

(* The cursors agree with the count, and the flags with where the threads   *)
(* are: together with the types and the contents this is inductive.         *)
ThreadsAgree ==
  /\ pending > 0 => writer \in {"staging", "segment"}
  /\ producer_running <=> writer \in {"poll", "segment", "leaving"}
  /\ initialized => writer \notin {"staging", "ended"}
  /\ reader = "in" => initialized

RingInv ==
  /\ TypeOK
  /\ RingHoldsTheUnreadBytes
  /\ ring_write = (ring_read + ring_count) % RingSize
  /\ ThreadsAgree

(* The session implements the bounded FIFO pipe of SegmentPipe: reads return *)
(* consecutive bytes of whole published segments, nothing is published once *)
(* the stream is finished, and a read reports the end only after all of it. *)
Closed == stop_requested \/ writer \in {"exited", "ended"}

Pipe == INSTANCE SegmentPipe WITH
  Capacity <- RingSize, published <- bytes_written, delivered <- bytes_read,
  closed <- Closed, ended <- eof

ImplementsPipe == Pipe!PipeSpec

(* A commit that waits for room gets it, or the session ends: the producer  *)
(* is never left waiting for a reader that is itself waiting for a reserve  *)
(* the ring cannot reach (a 4 MiB segment does not fit behind a refill that *)
(* holds between 2 and 3 MiB).                                              *)
BlockedCommitEnds ==
  (pending > FreeSpace /\ reader_started) ~> (pending <= FreeSpace)

(* A reader held in a refill is released while there is data to give it.    *)
HeldReaderIsReleased ==
  (reader = "in" /\ rebuffering /\ ring_count > 0) ~> (reader = "out")
=============================================================================
