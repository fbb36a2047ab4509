------------------------------ MODULE HlsProducer ------------------------------
(***************************************************************************)
(* Which segments one session of live_stream.c commits, in which order:    *)
(* the start point a tune selects, the staging loop, the seed it leaves to *)
(* the producer, and the producer's pass over every playlist it fetches.   *)
(*                                                                         *)
(* Every fetch may return any playlist: the broadcaster moves on, skips,   *)
(* restarts, marks a discontinuity, or dates other segments than before.   *)
(***************************************************************************)
EXTENDS Integers, Sequences

CONSTANTS
  FirstSequence,     \* the lowest media sequence the broadcaster uses
  MaxSequence,       \* bound: the highest
  Window,            \* bound: segments a playlist lists (at most 8 are kept)
  AudioLead,         \* bound: how far the two live edges may be apart
  Lags,              \* startup lags the adaptive profile may ask for, 1..3
  InitialTargets,    \* STREAM_WARM_ and STREAM_COLD_INITIAL_SEGMENTS, 1 and 2
  MediaDates,        \* how a fetched media playlist may date its segments:
                     \* functions from sequences to seconds, or to None
  AudioDates,        \* the same for the audio playlist
  Tolerance,         \* matching_audio_segment pairs up to 2 seconds apart
  MaxFailures        \* STREAM_MAX_CONSECUTIVE_PRODUCER_FAILURES, 3

ASSUME ProducerAssumption ==
  /\ FirstSequence \in Nat /\ MaxSequence \in Nat
  /\ Window \in Nat \ {0}
  /\ AudioLead \in Nat
  /\ Lags \subseteq 1..3 /\ InitialTargets \subseteq 1..2
  /\ Tolerance \in Nat
  /\ MaxFailures \in Nat \ {0}

Sequences == FirstSequence..MaxSequence
None == -1

ASSUME DatesAssumption ==
  MediaDates \cup AudioDates \subseteq [Sequences -> Nat \cup {None}]

(* A parsed playlist: consecutive sequences, the one carrying the marker,   *)
(* and of each segment its EXT-X-PROGRAM-DATE-TIME, or None without the tag.*)
Windows == { w \in Sequences \X Sequences : w[1] <= w[2] /\ w[2] - w[1] < Window }

Playlists(Dates) ==
  UNION { { [lo |-> w[1], hi |-> w[2], marked |-> m, date |-> [s \in w[1]..w[2] |-> f[s]]] :
              m \in (w[1]..w[2]) \cup {None}, f \in Dates } : w \in Windows }

MediaPlaylists == Playlists(MediaDates)
AudioPlaylists == Playlists(AudioDates)

(* Without an audio rendition no date is read.                              *)
PlainPlaylists == Playlists({[s \in Sequences |-> None]})

NoPlaylist == [lo |-> 1, hi |-> 0, marked |-> None, date |-> <<>>]

Count(p) == p.hi - p.lo + 1

VARIABLES
  separate_audio,          \* the channel has an audio rendition
  phase,
  media, audio,            \* the playlists in hand (the seed, once staged)
  next, last,              \* the segment looked at, and the last one of this pass
  first,                   \* the start point
  last_sequence, last_audio_sequence,
  seeded,                  \* stream.producer_seed_available
  manifest_failures, segment_failures,
  stop_requested, last_error, boundary_reason,
  asked,                   \* history: the stop came from outside the producer
  log                      \* the last two segments committed, oldest first

window  == <<media, audio, next, last, first>>
outcome == <<stop_requested, last_error, boundary_reason, asked>>
vars    == <<separate_audio, phase, window, last_sequence, last_audio_sequence, seeded,
             manifest_failures, segment_failures, outcome, log>>

Init ==
  /\ separate_audio \in BOOLEAN
  /\ phase = "tune"
  /\ media = NoPlaylist /\ audio = NoPlaylist
  /\ next = 0 /\ last = 0 /\ first = 0
  /\ last_sequence = 0 /\ last_audio_sequence = 0
  /\ seeded = FALSE
  /\ manifest_failures = 0 /\ segment_failures = 0
  /\ stop_requested = FALSE /\ last_error = "none" /\ boundary_reason = "none"
  /\ asked = FALSE
  /\ log = <<>>

-----------------------------------------------------------------------------
(* matching_audio_segment: the dated audio segment nearest to a dated video *)
(* segment, when it is near enough; else by the distance from the live edge.*)

Delta(v, a) ==
  LET d == media.date[v] - audio.date[a] IN IF d < 0 THEN -d ELSE d

DatedAudio == { a \in audio.lo..audio.hi : audio.date[a] # None }

(* The first of the nearest ones: none when no audio segment is dated.      *)
Closest(v) ==
  { a \in DatedAudio :
      \A b \in DatedAudio :
        Delta(v, a) <= Delta(v, b) /\ (b < a => Delta(v, a) < Delta(v, b)) }

FromEdge(v) ==
  IF media.hi - v < Count(audio) THEN audio.hi - (media.hi - v) ELSE None

NearEnough(v) == { a \in Closest(v) : Delta(v, a) <= Tolerance }

MatchingAudio(v) ==
  IF media.date[v] = None THEN FromEdge(v)
  ELSE IF NearEnough(v) = {} THEN None ELSE CHOOSE a \in NearEnough(v) : TRUE

Audio(v) == IF separate_audio THEN MatchingAudio(v) ELSE 0

AudioMarked(v) == separate_audio /\ Audio(v) = audio.marked

-----------------------------------------------------------------------------
(* The start point: `first' lags the newest segment; a deeper start backs   *)
(* off to previous_safe at a marker; the selection stops at a marker.       *)

StartLag(requested_lag) ==
  IF requested_lag > Count(media) - 1 THEN Count(media) - 1 ELSE requested_lag

PreviousSafe == IF Count(media) > 1 THEN media.hi - 1 ELSE media.hi

StartPoint(requested_lag) ==
  LET deep == media.hi - StartLag(requested_lag)
  IN IF media.marked \in (deep + 1)..(PreviousSafe - 1) THEN PreviousSafe ELSE deep

MinOf(a, b) == IF a < b THEN a ELSE b

(* Mutant of LastSelected: the selection ignores the marker.                *)
LastSelectedAnyway(start, target) == MinOf(media.hi, start + target - 1)

LastSelected(start, target) ==
  LET end == MinOf(media.hi, start + target - 1)
  IN IF media.marked \in (start + 1)..end THEN media.marked - 1 ELSE end

-----------------------------------------------------------------------------
(* miniiptv_live_stream_start: playlists, selection, staging.               *)

Fetched ==
  \/ /\ separate_audio
     /\ media' \in MediaPlaylists
     /\ audio' \in AudioPlaylists
     /\ audio'.hi - media'.hi \in (-AudioLead)..AudioLead
  \/ /\ ~separate_audio
     /\ media' \in PlainPlaylists
     /\ audio' = NoPlaylist

TuneFetch ==
  /\ phase = "tune"
  /\ ~stop_requested
  /\ Fetched
  /\ phase' = "select"
  /\ UNCHANGED <<separate_audio, next, last, first, last_sequence, last_audio_sequence,
                 seeded, manifest_failures, segment_failures, outcome, log>>

Select ==
  /\ phase = "select"
  /\ \E requested_lag \in Lags, target \in InitialTargets :
       /\ first' = StartPoint(requested_lag)
       /\ next' = first'
       /\ last' = LastSelected(first', target)
  /\ phase' = "stage"
  /\ UNCHANGED <<separate_audio, media, audio, last_sequence, last_audio_sequence, seeded,
                 manifest_failures, segment_failures, outcome, log>>

(* stream_segment succeeded for segment v.                                  *)
Committed(v) ==
  /\ last_sequence' = v
  /\ last_audio_sequence' = IF separate_audio THEN Audio(v) ELSE last_audio_sequence
  /\ last_error' = "none"
  /\ LET segment == [video |-> v, audio |-> Audio(v),
                     marked |-> v = media.marked \/ AudioMarked(v)]
     IN log' = IF Len(log) = 2 THEN <<log[2], segment>> ELSE Append(log, segment)

StageSegment ==
  /\ phase = "stage"
  /\ ~stop_requested
  /\ next <= last
  /\ Audio(next) # None
  /\ next = first \/ ~AudioMarked(next)
  /\ Committed(next)
  /\ next' = next + 1
  /\ UNCHANGED <<separate_audio, phase, media, audio, last, first, seeded,
                 manifest_failures, segment_failures, stop_requested, boundary_reason, asked>>

(* Staging ends at the selection or at an audio marker; the playlists in    *)
(* hand become the producer's seed.                                         *)
StartProducer ==
  /\ phase = "stage"
  /\ ~stop_requested
  /\ \/ next > last
     \/ next \in (first + 1)..last /\ Audio(next) # None /\ AudioMarked(next)
  /\ seeded' = TRUE
  /\ phase' = "top"
  /\ next' = 0 /\ last' = 0 /\ first' = 0
  /\ UNCHANGED <<separate_audio, media, audio, last_sequence, last_audio_sequence,
                 manifest_failures, segment_failures, outcome, log>>

(* A playlist or a segment fails for good, no audio matches, or the tune is *)
(* cancelled or late: no producer is started.                               *)
TuneFails ==
  /\ phase \in {"tune", "stage"}
  /\ phase' = "failed"
  /\ media' = NoPlaylist /\ audio' = NoPlaylist
  /\ next' = 0 /\ last' = 0 /\ first' = 0
  /\ stop_requested' = TRUE
  /\ UNCHANGED <<separate_audio, last_sequence, last_audio_sequence,
                 seeded, manifest_failures, segment_failures, last_error,
                 boundary_reason, asked, log>>

-----------------------------------------------------------------------------
(* producer_main                                                            *)

TakeSeed ==
  /\ phase = "top"
  /\ ~stop_requested
  /\ seeded
  /\ seeded' = FALSE
  /\ phase' = "check"
  /\ UNCHANGED <<separate_audio, window, last_sequence, last_audio_sequence,
                 manifest_failures, segment_failures, outcome, log>>

Fetch ==
  /\ phase = "top"
  /\ ~stop_requested
  /\ ~seeded
  /\ Fetched
  /\ manifest_failures' = 0
  /\ phase' = "check"
  /\ UNCHANGED <<separate_audio, next, last, first, last_sequence, last_audio_sequence,
                 seeded, segment_failures, outcome, log>>

(* Mutant of FetchFails: the producer retries for ever.                     *)
FetchFailsForever ==
  /\ phase = "top" /\ ~stop_requested /\ ~seeded
  /\ manifest_failures' = manifest_failures + 1
  /\ manifest_failures <= MaxFailures
  /\ last_error' = "fetch"
  /\ UNCHANGED <<separate_audio, phase, window, last_sequence, last_audio_sequence, seeded,
                 segment_failures, stop_requested, boundary_reason, asked, log>>

(* The media or the audio playlist cannot be fetched or is not usable.      *)
FetchFails ==
  /\ phase = "top"
  /\ ~stop_requested
  /\ ~seeded
  /\ manifest_failures' = manifest_failures + 1
  /\ last_error' = "fetch"
  /\ stop_requested' = (manifest_failures + 1 >= MaxFailures)
  /\ UNCHANGED <<separate_audio, phase, window, last_sequence, last_audio_sequence, seeded,
                 segment_failures, boundary_reason,
                 asked, log>>

(* The playlists are locals of one pass of the producer's loop.             *)
PassEnds ==
  /\ media' = NoPlaylist /\ audio' = NoPlaylist
  /\ next' = 0 /\ last' = 0
  /\ UNCHANGED first

LeavePass == phase' = "top" /\ PassEnds

(* A stop that arrives inside fetch_playlist_url: the loop is left.         *)
FetchStopped ==
  /\ phase = "top"
  /\ asked
  /\ ~seeded
  /\ last_error' = "cancelled"
  /\ phase' = "stopped"
  /\ PassEnds
  /\ UNCHANGED <<separate_audio, last_sequence, last_audio_sequence, seeded,
                 manifest_failures, segment_failures, stop_requested,
                 boundary_reason, asked, log>>

(* Mutant of EndSession: the reason is not recorded.                        *)
EndSilently(error, reason) ==
  /\ stop_requested' = TRUE
  /\ last_error' = error
  /\ LeavePass
  /\ UNCHANGED <<boundary_reason, asked>>

(* A boundary ends the session: the decoder must be built anew.             *)
EndSession(error, reason) ==
  /\ stop_requested' = TRUE
  /\ last_error' = error
  /\ boundary_reason' = reason
  /\ LeavePass
  /\ UNCHANGED asked

Regressed == last_sequence > 0 /\ media.hi < last_sequence

CheckPlaylist ==
  /\ phase = "check"
  /\ IF Regressed
       THEN EndSession("discontinuity", "regression")
       ELSE /\ phase' = "scan"
            /\ next' = media.lo
            /\ last' = media.hi
            /\ UNCHANGED <<media, audio, first, outcome>>
  /\ UNCHANGED <<separate_audio, last_sequence, last_audio_sequence, seeded,
                 manifest_failures, segment_failures, log>>

(* Segments passed over without a look: already committed, without an audio *)
(* match, or with one that was committed before.                            *)
Skipped(v) ==
  \/ v <= last_sequence
  \/ separate_audio /\ (Audio(v) = None \/ Audio(v) <= last_audio_sequence)

Marked(v) == AudioMarked(v) \/ v = media.marked

(* Mutant of Gap: only the video sequence is checked.                       *)
VideoGap(v) == last_sequence > 0 /\ v > last_sequence + 1

(* Mutant of Gap: only the audio sequence is checked.                       *)
AudioGap(v) ==
  separate_audio /\ last_audio_sequence > 0 /\ Audio(v) > last_audio_sequence + 1

Gap(v) ==
  \/ separate_audio /\ last_audio_sequence > 0 /\ Audio(v) > last_audio_sequence + 1
  \/ last_sequence > 0 /\ v > last_sequence + 1

Scanning == phase = "scan" /\ ~stop_requested /\ next <= last

Skip ==
  /\ Scanning
  /\ Skipped(next)
  /\ next' = next + 1
  /\ UNCHANGED <<separate_audio, phase, media, audio, last, first, last_sequence,
                 last_audio_sequence, seeded, manifest_failures, segment_failures,
                 outcome, log>>

(* Mutant of StopAtBoundary: the loop is left, the session is not stopped.  *)
PassBoundary ==
  /\ Scanning /\ ~Skipped(next) /\ (Marked(next) \/ Gap(next))
  /\ last_error' = "discontinuity" /\ boundary_reason' = "discontinuity"
  /\ LeavePass
  /\ UNCHANGED <<separate_audio, last_sequence, last_audio_sequence, seeded,
                 manifest_failures, segment_failures, stop_requested, asked, log>>

(* Never splice non-contiguous segments into an initialized MVD session.    *)
StopAtBoundary ==
  /\ Scanning
  /\ ~Skipped(next)
  /\ Marked(next) \/ Gap(next)
  /\ EndSession("discontinuity", "discontinuity")
  /\ UNCHANGED <<separate_audio, last_sequence, last_audio_sequence, seeded,
                 manifest_failures, segment_failures, log>>

Commit ==
  /\ Scanning
  /\ ~Skipped(next) /\ ~Marked(next) /\ ~Gap(next)
  /\ Committed(next)
  /\ segment_failures' = 0
  /\ next' = next + 1
  /\ UNCHANGED <<separate_audio, phase, media, audio, last, first, seeded,
                 manifest_failures, stop_requested, boundary_reason, asked>>

Oversized ==
  /\ Scanning
  /\ ~Skipped(next) /\ ~Marked(next) /\ ~Gap(next)
  /\ EndSession("too_large", "oversized")
  /\ UNCHANGED <<separate_audio, last_sequence, last_audio_sequence, seeded,
                 manifest_failures, segment_failures, log>>

(* A retryable failure leaves the pass; a body that is not MPEG-TS, or one  *)
(* that cannot be muxed, stops the session.                                 *)
SegmentFails ==
  /\ Scanning
  /\ ~Skipped(next) /\ ~Marked(next) /\ ~Gap(next)
  /\ \/ /\ last_error' = "fetch"
        /\ segment_failures' = segment_failures + 1
        /\ stop_requested' = (segment_failures + 1 >= MaxFailures)
     \/ /\ last_error' = "not_ts"
        /\ stop_requested' = TRUE
        /\ UNCHANGED segment_failures
  /\ LeavePass
  /\ UNCHANGED <<separate_audio, last_sequence, last_audio_sequence, seeded,
                 manifest_failures, boundary_reason, asked, log>>

(* A stop that arrives inside stream_segment fails its download or commit.   *)
SegmentStopped ==
  /\ phase = "scan"
  /\ asked
  /\ next <= last
  /\ ~Skipped(next) /\ ~Marked(next) /\ ~Gap(next)
  /\ last_error' \in {"cancelled", "fetch"}
  /\ phase' = "stopped"
  /\ PassEnds
  /\ UNCHANGED <<separate_audio, last_sequence, last_audio_sequence, seeded,
                 manifest_failures, segment_failures, stop_requested,
                 boundary_reason, asked, log>>

PassDone ==
  /\ phase = "scan"
  /\ next > last
  /\ LeavePass
  /\ UNCHANGED <<separate_audio, last_sequence, last_audio_sequence, seeded,
                 manifest_failures, segment_failures, outcome, log>>

ProducerExit ==
  /\ phase \in {"top", "scan"}
  /\ stop_requested
  /\ phase' = "stopped"
  /\ PassEnds
  /\ UNCHANGED <<separate_audio, last_sequence, last_audio_sequence, seeded,
                 manifest_failures, segment_failures, outcome, log>>

(* Only a stop the user or the player asks for comes from outside.          *)
RequestStop ==
  /\ phase \notin {"failed", "stopped"}
  /\ ~stop_requested
  /\ stop_requested' = TRUE
  /\ asked' = TRUE
  /\ UNCHANGED <<separate_audio, phase, window, last_sequence, last_audio_sequence, seeded,
                 manifest_failures, segment_failures, last_error, boundary_reason, log>>

Next ==
  \/ TuneFetch \/ Select \/ StageSegment \/ StartProducer \/ TuneFails
  \/ TakeSeed \/ Fetch \/ FetchFails \/ FetchStopped \/ CheckPlaylist
  \/ Skip \/ StopAtBoundary \/ Commit \/ Oversized \/ SegmentFails
  \/ SegmentStopped \/ PassDone
  \/ ProducerExit \/ RequestStop

Spec == Init /\ [][Next]_vars

-----------------------------------------------------------------------------
(* Properties.                                                              *)

Errors == {"none", "fetch", "discontinuity", "too_large", "not_ts", "cancelled"}
Reasons == {"none", "regression", "discontinuity", "oversized"}

(* Types of the producer's state.                                           *)
TypeOK ==
  /\ separate_audio \in BOOLEAN
  /\ phase \in {"tune", "select", "stage", "top", "check", "scan", "stopped", "failed"}
  /\ media \in MediaPlaylists \cup PlainPlaylists \cup {NoPlaylist}
  /\ audio \in AudioPlaylists \cup {NoPlaylist}
  /\ next \in Nat /\ last \in Nat /\ first \in Nat
  /\ last_sequence \in Nat /\ last_audio_sequence \in Nat
  /\ seeded \in BOOLEAN
  /\ manifest_failures \in 0..MaxFailures /\ segment_failures \in 0..MaxFailures
  /\ stop_requested \in BOOLEAN /\ asked \in BOOLEAN
  /\ last_error \in Errors /\ boundary_reason \in Reasons
  /\ Len(log) \in 0..2

(* Never splice non-contiguous transport segments into one decoder session: *)
(* a committed segment follows the one committed before it, across staging, *)
(* the seed and every playlist fetched after it.                            *)
VideoContiguous == Len(log) = 2 => log[2].video = log[1].video + 1

(* The dates of the playlists in hand tell the audio segments of two video  *)
(* segments in a row apart: neither is dated; or both are, by more than     *)
(* twice the tolerance, and of the dated audio segments the later one has   *)
(* the later date, by more than that where another lies between them.       *)
SameCadence(v) ==
  \/ media.date[v - 1] = None /\ media.date[v] = None
  \/ /\ media.date[v - 1] # None /\ media.date[v] # None
     /\ LET gap == media.date[v] - media.date[v - 1]
        IN /\ gap > 2 * Tolerance
           /\ \A a, b \in DatedAudio : a < b =>
                /\ audio.date[a] < audio.date[b]
                /\ a + 1 < b => audio.date[b] - audio.date[a] > gap + 2 * Tolerance

(* The same for the audio segments muxed with them.  The producer checks    *)
(* the sequences and holds whatever the playlists date and however long     *)
(* their segments are; the staging loop does not, and holds for playlists   *)
(* of one cadence.                                                          *)
AudioContiguous ==
  [][log' # log /\ log # <<>> /\ separate_audio /\ (phase = "stage" => SameCadence(next))
       => log'[Len(log')].audio = log[Len(log)].audio + 1]_vars

(* A segment that carries a discontinuity is only ever the first of its     *)
(* session: a fresh decoder starts there, a running one never crosses it.   *)
NoMarkerSpliced == Len(log) = 2 => ~log[2].marked

(* A session that ends without being asked to says why, so that the app can *)
(* tell a boundary it may relock after from a failure.                      *)
EndsWithAReason ==
  phase = "stopped" /\ ~asked =>
    \/ boundary_reason # "none" /\ last_error \in {"discontinuity", "too_large"}
    \/ boundary_reason = "none" /\ last_error \in {"fetch", "not_ts"}

(* After a boundary nothing more is committed to the session.               *)
NothingAfterBoundary == [][boundary_reason # "none" => log' = log]_vars

(* A deeper start must not span a discontinuity (the comment at the start   *)
(* point of miniiptv_live_stream_start): no marker lies between the start   *)
(* and the segment it would back off to.                                    *)
DeeperStartSpansNoBoundary ==
  phase = "stage" /\ media.hi - first > 1 =>
    media.marked \notin (first + 1)..PreviousSafe

(* The tolerance of matching_audio_segment does not pair different          *)
(* segments: two video segments in a row are never given the same audio.    *)
NoAudioPairedTwice ==
  Len(log) = 2 /\ separate_audio => log[2].audio # log[1].audio
=============================================================================
