--------------------------- MODULE HlsProducerProofs ---------------------------
(***************************************************************************)
(* What a session commits, for playlists of any length, any lags and any   *)
(* limits: contiguous video, and no marker inside a decoder session.       *)
(***************************************************************************)
EXTENDS HlsProducer, TLAPS

(* The playlists a fetch may return.                                        *)
AnyPlaylist == MediaPlaylists \cup AudioPlaylists \cup PlainPlaylists

(* The log is a sequence of at most two segments.                           *)
LogShape == log \in Seq({log[i] : i \in DOMAIN log}) /\ Len(log) \in 0..2

Numbers ==
  /\ media \in AnyPlaylist \cup {NoPlaylist}
  /\ next \in Int /\ last \in Int /\ first \in Int /\ last_sequence \in Int

(* The staging loop walks the selection from the start point; the producer  *)
(* is only started with something committed.                                *)
StagingAgrees ==
  /\ phase \in {"tune", "select"} => log = <<>>
  /\ phase = "select" => media \in AnyPlaylist
  /\ phase = "stage" =>
       /\ media \in AnyPlaylist
       /\ first \in media.lo..media.hi /\ first <= last /\ last <= media.hi
       /\ next \in first..(last + 1)
       /\ log = <<>> <=> next = first
       /\ media.marked \notin (first + 1)..last
  /\ phase \in {"top", "check", "scan", "stopped"} => log # <<>>

MarkerInv == Numbers /\ LogShape /\ StagingAgrees /\ NoMarkerSpliced

(* The last committed segment is the one last_sequence names, and the one   *)
(* before `next' while the tune stages.                                     *)
SequenceAgrees ==
  /\ log # <<>> => last_sequence = log[Len(log)].video /\ last_sequence > 0
  /\ phase = "stage" /\ next > first => last_sequence = next - 1

SequenceInv == SequenceAgrees /\ VideoContiguous

-----------------------------------------------------------------------------
(* Sequences of at most two elements.                                       *)

LEMMA AppendToShort ==
  ASSUME NEW S, NEW s \in Seq(S), Len(s) \in 0..1, NEW e, NEW n, n = Append(s, e)
  PROVE  /\ n \in Seq({n[i] : i \in DOMAIN n}) /\ Len(n) = Len(s) + 1
         /\ n[Len(n)] = e /\ n # <<>>
         /\ \A i \in 1..Len(s) : n[i] = s[i]
<1>1. s \in Seq(S \cup {e})
  OBVIOUS
<1>2. n \in Seq(S \cup {e}) /\ Len(n) = Len(s) + 1 /\ n[Len(n)] = e
      /\ \A i \in 1..Len(s) : n[i] = s[i]
  BY <1>1
<1>3. n \in Seq({n[i] : i \in DOMAIN n})
  BY <1>2
<1> QED BY <1>2, <1>3

LEMMA PairIsSequence ==
  ASSUME NEW a, NEW b, NEW n, n = <<a, b>>
  PROVE  n \in Seq({n[i] : i \in DOMAIN n}) /\ Len(n) = 2 /\ n[1] = a /\ n[2] = b /\ n # <<>>
<1>1. n \in Seq({a, b}) /\ Len(n) = 2 /\ n[1] = a /\ n[2] = b
  OBVIOUS
<1> QED BY <1>1

(* What a commit does to the log.                                           *)
Entry(v) ==
  [video |-> v, audio |-> Audio(v), marked |-> v = media.marked \/ AudioMarked(v)]

LEMMA UnmarkedEntry ==
  ASSUME NEW v, v # media.marked, ~AudioMarked(v) PROVE ~Entry(v).marked
<1>1. Entry(v).marked = (v = media.marked \/ AudioMarked(v))
  BY DEF Entry
<1> QED BY <1>1

LEMMA CommittedLog ==
  ASSUME LogShape, NEW v, Committed(v)
  PROVE  /\ LogShape' /\ log' # <<>> /\ log'[Len(log')] = Entry(v)
         /\ log = <<>> => Len(log') = 1
         /\ log # <<>> => Len(log') = 2 /\ log'[1] = log[Len(log)] /\ log'[2] = Entry(v)
<1>1. CASE Len(log) = 2
  <2>1. log' = <<log[2], Entry(v)>>
    BY <1>1 DEF Committed, Entry
  <2> QED BY <1>1, <2>1, PairIsSequence DEF LogShape
<1>2. CASE Len(log) # 2
  <2>1. log' = Append(log, Entry(v)) /\ Len(log) \in 0..1
    BY <1>2 DEF Committed, Entry, LogShape
  <2>2. /\ LogShape' /\ Len(log') = Len(log) + 1 /\ log' # <<>> /\ log'[Len(log')] = Entry(v)
        /\ \A i \in 1..Len(log) : log'[i] = log[i]
    BY <2>1, AppendToShort DEF LogShape
  <2>3. log = <<>> <=> Len(log) = 0
    BY DEF LogShape
  <2> QED BY <2>1, <2>2, <2>3
<1> QED BY <1>1, <1>2

-----------------------------------------------------------------------------
(* The start point and the selection.                                       *)

LEMMA PlaylistBounds ==
  ASSUME NEW p \in AnyPlaylist
  PROVE  /\ p.lo \in Nat /\ p.hi \in Nat /\ p.lo <= p.hi /\ p.lo >= FirstSequence
         /\ p.marked \in Int
         /\ \A s \in p.lo..p.hi : p.date[s] \in Nat \cup {None}
<1>1. PICK Dates \in {MediaDates, AudioDates, {[s \in Sequences |-> None]}} : p \in Playlists(Dates)
  BY DEF AnyPlaylist, MediaPlaylists, AudioPlaylists, PlainPlaylists
<1>2. Dates \subseteq [Sequences -> Nat \cup {None}]
  BY <1>1, DatesAssumption
<1>3. PICK w \in Windows : \E m \in (w[1]..w[2]) \cup {None}, f \in Dates :
        p = [lo |-> w[1], hi |-> w[2], marked |-> m, date |-> [s \in w[1]..w[2] |-> f[s]]]
  <2> DEFINE Of(w) ==
        { [lo |-> w[1], hi |-> w[2], marked |-> m, date |-> [s \in w[1]..w[2] |-> f[s]]] :
            m \in (w[1]..w[2]) \cup {None}, f \in Dates }
  <2>1. p \in UNION { Of(w) : w \in Windows }
    BY <1>1 DEF Playlists
  <2> HIDE DEF Of
  <2>2. PICK w \in Windows : p \in Of(w)
    BY <2>1
  <2> QED BY <2>2 DEF Of
<1>4. PICK m \in (w[1]..w[2]) \cup {None}, f \in Dates :
        p = [lo |-> w[1], hi |-> w[2], marked |-> m, date |-> [s \in w[1]..w[2] |-> f[s]]]
  BY <1>3
<1>5. /\ w[1] \in Nat /\ w[2] \in Nat /\ w[1] <= w[2] /\ w[1] >= FirstSequence
      /\ w[2] <= MaxSequence
  BY <1>3, ProducerAssumption DEF Windows, Sequences
<1>6. \A s \in w[1]..w[2] : f[s] \in Nat \cup {None}
  BY <1>2, <1>4, <1>5, ProducerAssumption DEF Sequences
<1> QED BY <1>4, <1>5, <1>6 DEF None

LEMMA FetchedPlaylists ==
  ASSUME Fetched
  PROVE  /\ media' \in AnyPlaylist /\ media' \in MediaPlaylists \cup PlainPlaylists
         /\ audio' \in AudioPlaylists \cup {NoPlaylist}
         /\ separate_audio => audio' \in AnyPlaylist
BY DEF Fetched, AnyPlaylist

LEMMA NumbersOfMedia == Numbers => media.lo \in Int /\ media.hi \in Int /\ media.marked \in Int
BY PlaylistBounds DEF Numbers, NoPlaylist, None

LEMMA StartPointInPlaylist ==
  ASSUME media \in AnyPlaylist, NEW lag \in Lags
  PROVE  StartPoint(lag) \in media.lo..media.hi
<1>1. lag \in 1..3 /\ media.lo \in Nat /\ media.hi \in Nat /\ media.lo <= media.hi
  BY PlaylistBounds, ProducerAssumption
<1>2. media.hi - StartLag(lag) \in media.lo..media.hi
  BY <1>1 DEF StartLag, Count
<1>3. PreviousSafe \in media.lo..media.hi
  BY <1>1 DEF PreviousSafe, Count
<1> QED BY <1>2, <1>3 DEF StartPoint

LEMMA SelectionEnds ==
  ASSUME media \in AnyPlaylist, NEW start \in media.lo..media.hi, NEW target \in InitialTargets
  PROVE  /\ LastSelected(start, target) \in Int /\ start <= LastSelected(start, target)
         /\ LastSelected(start, target) <= media.hi
         /\ media.marked \notin (start + 1)..LastSelected(start, target)
<1>1. target \in 1..2 /\ media.lo \in Nat /\ media.hi \in Nat /\ media.marked \in Int
  BY PlaylistBounds, ProducerAssumption
<1> QED BY <1>1 DEF LastSelected, MinOf

-----------------------------------------------------------------------------
(* The steps.                                                               *)

LEMMA InitMarkers == Init => MarkerInv /\ SequenceInv
BY DEF Init, MarkerInv, SequenceInv, Numbers, LogShape, StagingAgrees, NoMarkerSpliced,
       SequenceAgrees, VideoContiguous

(* A pass of the producer, or the session, is left: nothing is staged.      *)
LEMMA PassLeft ==
  ASSUME MarkerInv, PassEnds, UNCHANGED <<last_sequence, log>>,
         phase \in {"top", "check", "scan"}, phase' \in {"top", "stopped"}
  PROVE  MarkerInv' /\ (SequenceInv => SequenceInv')
BY DEF MarkerInv, Numbers, LogShape, StagingAgrees, NoMarkerSpliced, PassEnds,
       SequenceInv, SequenceAgrees, VideoContiguous

LEMMA SelectStep ==
  ASSUME MarkerInv, Select
  PROVE  MarkerInv' /\ (SequenceInv => SequenceInv')
<1>1. PICK lag \in Lags, target \in InitialTargets :
        first' = StartPoint(lag) /\ next' = first' /\ last' = LastSelected(first', target)
  BY DEF Select
<1>2. media \in AnyPlaylist /\ log = <<>> /\ phase' = "stage"
      /\ UNCHANGED <<media, log, last_sequence>>
  BY DEF Select, MarkerInv, StagingAgrees
<1>3. first' \in media.lo..media.hi /\ media.lo \in Int /\ media.hi \in Int
  BY <1>1, <1>2, StartPointInPlaylist, PlaylistBounds
<1>4. last' \in Int /\ first' <= last' /\ last' <= media.hi
      /\ media.marked \notin (first' + 1)..last'
  BY <1>1, <1>2, <1>3, SelectionEnds
<1> QED BY <1>1, <1>2, <1>3, <1>4
        DEF MarkerInv, Numbers, LogShape, StagingAgrees, NoMarkerSpliced,
            SequenceInv, SequenceAgrees, VideoContiguous

LEMMA StageStep ==
  ASSUME MarkerInv, StageSegment
  PROVE  MarkerInv' /\ (FirstSequence > 0 /\ SequenceInv => SequenceInv')
<1>u. /\ phase = "stage" /\ phase' = "stage" /\ next <= last /\ next' = next + 1
      /\ next = first \/ ~AudioMarked(next)
      /\ Committed(next) /\ last_sequence' = next
      /\ UNCHANGED <<media, last, first>>
  BY DEF StageSegment, Committed
<1>1. /\ media \in AnyPlaylist /\ first \in media.lo..media.hi /\ next \in first..last
      /\ last <= media.hi
      /\ log = <<>> <=> next = first
      /\ media.marked \notin (first + 1)..last
      /\ next \in Int /\ last \in Int /\ first \in Int /\ media.lo >= FirstSequence
      /\ media.lo \in Nat
  BY <1>u, PlaylistBounds DEF MarkerInv, Numbers, StagingAgrees
<1>2. /\ LogShape' /\ log' # <<>> /\ log'[Len(log')] = Entry(next)
      /\ log = <<>> => Len(log') = 1
      /\ log # <<>> => Len(log') = 2 /\ log'[1] = log[Len(log)] /\ log'[2] = Entry(next)
  BY <1>u, CommittedLog DEF MarkerInv
<1>3. NoMarkerSpliced'
  <2>1. CASE log = <<>>
    BY <1>2, <2>1 DEF NoMarkerSpliced
  <2>2. CASE log # <<>>
    <3>1. next # media.marked /\ ~AudioMarked(next)
      BY <1>u, <1>1, <2>2
    <3> QED BY <1>2, <2>2, <3>1, UnmarkedEntry DEF NoMarkerSpliced
  <2> QED BY <2>1, <2>2
<1>4. Numbers' /\ StagingAgrees'
  BY <1>u, <1>1, <1>2 DEF MarkerInv, Numbers, StagingAgrees
<1>5. ASSUME FirstSequence > 0, SequenceInv PROVE SequenceInv'
  <2>1. next > 0
    BY <1>1, <1>5, ProducerAssumption
  <2>2. SequenceAgrees'
    BY <1>u, <1>1, <1>2, <2>1 DEF SequenceAgrees, Entry
  <2>3. VideoContiguous'
    BY <1>u, <1>1, <1>2, <1>5 DEF VideoContiguous, SequenceInv, SequenceAgrees, Entry
  <2> QED BY <2>2, <2>3 DEF SequenceInv
<1> QED BY <1>2, <1>3, <1>4, <1>5 DEF MarkerInv

LEMMA CommitStep ==
  ASSUME MarkerInv, Commit
  PROVE  MarkerInv' /\ (FirstSequence > 0 /\ SequenceInv => SequenceInv')
<1>u. /\ phase = "scan" /\ phase' = "scan" /\ next' = next + 1
      /\ ~Skipped(next) /\ ~Marked(next) /\ ~Gap(next)
      /\ Committed(next) /\ last_sequence' = next
      /\ UNCHANGED <<media, last, first>>
  BY DEF Commit, Committed, Scanning
<1>1. log # <<>> /\ next \in Int /\ last_sequence \in Int
  BY <1>u DEF MarkerInv, Numbers, StagingAgrees
<1>2. /\ LogShape' /\ log' # <<>> /\ log'[Len(log')] = Entry(next)
      /\ Len(log') = 2 /\ log'[1] = log[Len(log)] /\ log'[2] = Entry(next)
  BY <1>u, <1>1, CommittedLog DEF MarkerInv
<1>3. NoMarkerSpliced'
  BY <1>u, <1>2, UnmarkedEntry DEF NoMarkerSpliced, Marked
<1>4. Numbers' /\ StagingAgrees'
  BY <1>u, <1>1, <1>2 DEF MarkerInv, Numbers, StagingAgrees
<1>5. ASSUME SequenceInv PROVE SequenceInv'
  <2>1. last_sequence = log[Len(log)].video /\ last_sequence > 0
    BY <1>1, <1>5 DEF SequenceInv, SequenceAgrees
  <2>2. next = last_sequence + 1
    BY <1>u, <1>1, <2>1 DEF Skipped, Gap
  <2> QED BY <1>u, <1>1, <1>2, <2>1, <2>2 DEF SequenceInv, SequenceAgrees, VideoContiguous, Entry
<1> QED BY <1>2, <1>3, <1>4, <1>5 DEF MarkerInv

(* The other steps of the tune and of the producer commit nothing.          *)
LEMMA TuneStep ==
  ASSUME MarkerInv, TuneFetch \/ StartProducer \/ TuneFails
  PROVE  MarkerInv' /\ (SequenceInv => SequenceInv')
<1> USE DEF MarkerInv, Numbers, LogShape, StagingAgrees, NoMarkerSpliced,
            SequenceInv, SequenceAgrees, VideoContiguous
<1>1. CASE TuneFetch
  BY <1>1, FetchedPlaylists DEF TuneFetch
<1>2. CASE StartProducer
  BY <1>2 DEF StartProducer
<1>3. CASE TuneFails
  BY <1>3 DEF TuneFails
<1> QED BY <1>1, <1>2, <1>3

LEMMA PassStep ==
  ASSUME MarkerInv, \/ TakeSeed \/ Fetch \/ FetchFails \/ Skip \/ RequestStop
                    \/ UNCHANGED vars
  PROVE  MarkerInv' /\ (SequenceInv => SequenceInv')
<1> USE DEF MarkerInv, Numbers, LogShape, StagingAgrees, NoMarkerSpliced,
            SequenceInv, SequenceAgrees, VideoContiguous
<1>1. CASE TakeSeed
  BY <1>1 DEF TakeSeed, window
<1>2. CASE Fetch
  BY <1>2, FetchedPlaylists DEF Fetch
<1>3. CASE FetchFails
  BY <1>3 DEF FetchFails, window
<1>4. CASE Skip
  BY <1>4 DEF Skip, Scanning
<1>5. CASE RequestStop \/ UNCHANGED vars
  BY <1>5 DEF RequestStop, window, vars
<1> QED BY <1>1, <1>2, <1>3, <1>4, <1>5

LEMMA LeaveStep ==
  ASSUME MarkerInv, \/ FetchStopped \/ StopAtBoundary \/ Oversized \/ SegmentFails
                    \/ SegmentStopped \/ PassDone \/ ProducerExit
  PROVE  MarkerInv' /\ (SequenceInv => SequenceInv')
<1>1. /\ PassEnds /\ UNCHANGED <<last_sequence, log>>
      /\ phase \in {"top", "check", "scan"} /\ phase' \in {"top", "stopped"}
  BY DEF FetchStopped, StopAtBoundary, Oversized, SegmentFails, SegmentStopped, PassDone,
         ProducerExit, EndSession, LeavePass, Scanning
<1> QED BY <1>1, PassLeft

LEMMA CheckStep ==
  ASSUME MarkerInv, CheckPlaylist
  PROVE  MarkerInv' /\ (SequenceInv => SequenceInv')
<1>1. CASE Regressed
  BY <1>1, PassLeft DEF CheckPlaylist, EndSession, LeavePass
<1>2. CASE ~Regressed
  BY <1>2, NumbersOfMedia
     DEF CheckPlaylist, MarkerInv, Numbers, LogShape, StagingAgrees, NoMarkerSpliced,
         SequenceInv, SequenceAgrees, VideoContiguous
<1> QED BY <1>1, <1>2

LEMMA ProducerStep ==
  ASSUME MarkerInv, [Next]_vars
  PROVE  MarkerInv' /\ (FirstSequence > 0 /\ SequenceInv => SequenceInv')
BY SelectStep, StageStep, CommitStep, TuneStep, PassStep, LeaveStep, CheckStep DEF Next

-----------------------------------------------------------------------------
(* The theorems.                                                            *)

(* A segment that carries a discontinuity marker is only ever the first of  *)
(* its session, for any playlists the broadcaster serves: a running decoder *)
(* is never given one (the staging loop and producer_main).                 *)
THEOREM MarkersStartSessions == Spec => []NoMarkerSpliced
<1>1. Init => MarkerInv
  BY InitMarkers
<1>2. MarkerInv /\ [Next]_vars => MarkerInv'
  BY ProducerStep
<1>3. MarkerInv => NoMarkerSpliced
  BY DEF MarkerInv
<1> QED BY <1>1, <1>2, <1>3, PTL DEF Spec

(* Where media sequences start above zero, the video segments of a session  *)
(* are consecutive, across the staging, the seed and every playlist fetched *)
(* after it.  (From zero they are not: the gap check takes last_sequence 0  *)
(* for "nothing committed".)                                                *)
THEOREM VideoIsContiguous == Spec => [](FirstSequence > 0 => VideoContiguous)
<1> DEFINE Inv == MarkerInv /\ (FirstSequence > 0 => SequenceInv)
<1>1. Init => Inv
  BY InitMarkers
<1>2. Inv /\ [Next]_vars => Inv'
  BY ProducerStep
<1>3. Inv => (FirstSequence > 0 => VideoContiguous)
  BY DEF SequenceInv
<1> HIDE DEF Inv
<1> QED BY <1>1, <1>2, <1>3, PTL DEF Spec

-----------------------------------------------------------------------------
(* How a session ends.                                                      *)

Explained ==
  \/ boundary_reason # "none" /\ last_error \in {"discontinuity", "too_large"}
  \/ boundary_reason = "none" /\ last_error \in {"fetch", "not_ts"}

(* A boundary has stopped the session; a stop that is not explained by the  *)
(* error and the reason was asked for.                                      *)
EndInv ==
  /\ boundary_reason # "none" => stop_requested
  /\ asked => stop_requested
  /\ phase = "stopped" => stop_requested
  /\ stop_requested /\ phase # "failed" => asked \/ Explained

LEMMA EndSame ==
  ASSUME EndInv, UNCHANGED outcome,
         phase' = "stopped" => stop_requested, phase = "failed" => phase' = "failed"
  PROVE  EndInv'
BY DEF EndInv, Explained, outcome

LEMMA CommitKeepsEnd ==
  ASSUME EndInv, StageSegment \/ Commit PROVE EndInv'
<1>1. ~stop_requested /\ ~stop_requested' /\ ~asked' /\ boundary_reason' = "none"
      /\ phase' = phase /\ phase \in {"stage", "scan"}
  BY DEF EndInv, StageSegment, Commit, Committed, Scanning
<1> QED BY <1>1 DEF EndInv

LEMMA FailureEnds ==
  ASSUME EndInv, FetchFails \/ SegmentFails PROVE EndInv'
<1>1. ~asked /\ boundary_reason = "none" /\ UNCHANGED <<asked, boundary_reason>>
      /\ last_error' \in {"fetch", "not_ts"} /\ phase' = "top"
  BY DEF EndInv, FetchFails, SegmentFails, LeavePass, Scanning
<1> QED BY <1>1 DEF EndInv, Explained

LEMMA BoundaryEnds ==
  ASSUME EndInv, \/ StopAtBoundary \/ Oversized \/ (CheckPlaylist /\ Regressed)
  PROVE  EndInv'
<1>1. /\ stop_requested' = TRUE /\ phase' = "top" /\ boundary_reason' # "none"
      /\ last_error' \in {"discontinuity", "too_large"}
  BY DEF StopAtBoundary, Oversized, CheckPlaylist, EndSession, LeavePass
<1> QED BY <1>1 DEF EndInv, Explained

LEMMA AskedEnds ==
  ASSUME EndInv, FetchStopped \/ SegmentStopped \/ RequestStop PROVE EndInv'
<1>1. asked' /\ stop_requested' /\ boundary_reason' = boundary_reason
  BY DEF EndInv, FetchStopped, SegmentStopped, RequestStop
<1> QED BY <1>1 DEF EndInv

LEMMA TuneFailsEnds == EndInv /\ TuneFails => EndInv'
BY DEF EndInv, TuneFails

LEMMA OthersKeepEnd ==
  ASSUME EndInv, \/ TuneFetch \/ Select \/ StartProducer \/ TakeSeed \/ Fetch \/ Skip
                 \/ PassDone \/ ProducerExit \/ (CheckPlaylist /\ ~Regressed)
                 \/ UNCHANGED vars
  PROVE  EndInv'
<1>1. UNCHANGED outcome
  BY DEF TuneFetch, Select, StartProducer, TakeSeed, Fetch, Skip, PassDone, ProducerExit,
         CheckPlaylist, vars
<1>2. phase' = "stopped" => stop_requested
  BY DEF TuneFetch, Select, StartProducer, TakeSeed, Fetch, Skip, PassDone, ProducerExit,
         CheckPlaylist, vars, LeavePass, Scanning, EndInv
<1>3. phase = "failed" => phase' = "failed"
  BY DEF TuneFetch, Select, StartProducer, TakeSeed, Fetch, Skip, PassDone, ProducerExit,
         CheckPlaylist, vars, LeavePass, Scanning
<1> QED BY <1>1, <1>2, <1>3, EndSame

LEMMA EndStep == EndInv /\ [Next]_vars => EndInv'
BY CommitKeepsEnd, FailureEnds, BoundaryEnds, AskedEnds, TuneFailsEnds, OthersKeepEnd DEF Next

LEMMA EndHolds == Spec => []EndInv
<1>1. Init => EndInv
  BY DEF Init, EndInv
<1> QED BY <1>1, EndStep, PTL DEF Spec

(* A session that ends without being asked to leaves an error and a reason  *)
(* the relock decision of live_app.c can tell apart.                        *)
THEOREM SessionsEndWithAReason == Spec => []EndsWithAReason
<1>1. EndInv => EndsWithAReason
  BY DEF EndInv, Explained, EndsWithAReason
<1> QED BY <1>1, EndHolds, PTL

(* After a boundary the session commits nothing more, whichever loop of     *)
(* producer_main found it.                                                  *)
THEOREM BoundariesAreFinal == Spec => NothingAfterBoundary
<1>1. EndInv /\ [Next]_vars => [boundary_reason # "none" => log' = log]_vars
  <2> SUFFICES ASSUME EndInv, Next, boundary_reason # "none" PROVE log' = log
    OBVIOUS
  <2>1. ~StageSegment /\ ~Commit
    BY DEF EndInv, StageSegment, Commit, Scanning
  <2> QED BY <2>1
          DEF Next, TuneFetch, Select, StartProducer, TuneFails, TakeSeed, Fetch, FetchFails,
              FetchStopped, CheckPlaylist, Skip, StopAtBoundary, Oversized, SegmentFails,
              SegmentStopped, PassDone, ProducerExit, RequestStop
<1> QED BY <1>1, EndHolds, PTL DEF Spec, NothingAfterBoundary

-----------------------------------------------------------------------------
(* matching_audio_segment only returns segments the audio playlist lists.   *)

AudioListed == audio \in AnyPlaylist

LEMMA AudioIsListed ==
  ASSUME AudioListed, media \in AnyPlaylist, NEW v \in Int
  PROVE  /\ MatchingAudio(v) \in Nat \cup {None}
         /\ MatchingAudio(v) # None => MatchingAudio(v) >= FirstSequence
<1>1. /\ audio.lo \in Nat /\ audio.hi \in Nat /\ audio.lo >= FirstSequence
      /\ media.hi \in Nat /\ FirstSequence \in Nat
  BY PlaylistBounds, ProducerAssumption DEF AudioListed
<1>2. CASE media.date[v] = None
  BY <1>1, <1>2 DEF MatchingAudio, FromEdge, Count
<1>3. CASE media.date[v] # None
  <2>1. NearEnough(v) \subseteq audio.lo..audio.hi
    BY DEF NearEnough, Closest, DatedAudio
  <2>2. MatchingAudio(v) = None \/ MatchingAudio(v) \in NearEnough(v)
    BY <1>3 DEF MatchingAudio
  <2>3. CASE MatchingAudio(v) = None
    BY <2>3
  <2>4. CASE MatchingAudio(v) # None
    <3>1. MatchingAudio(v) \in audio.lo..audio.hi
      BY <2>1, <2>2, <2>4
    <3> QED BY <1>1, <3>1
  <2> QED BY <2>3, <2>4
<1> QED BY <1>2, <1>3

-----------------------------------------------------------------------------
(* Types.                                                                   *)

(* The playlists are in hand where the code looks at them, and a failure    *)
(* counter at its limit has stopped the session.                            *)
InHand == media \in AnyPlaylist /\ (separate_audio => audio \in AnyPlaylist)
ListsAgree ==
  /\ phase \in {"select", "stage", "check", "scan"} => InHand
  /\ phase = "top" /\ seeded => InHand
  /\ phase \in {"tune", "select", "stage", "check", "scan"} => ~seeded
CountersAgree ==
  ~stop_requested => manifest_failures < MaxFailures /\ segment_failures < MaxFailures

TypeInv == TypeOK /\ LogShape /\ ListsAgree /\ CountersAgree

LEMMA AudioTypes ==
  ASSUME TypeInv, InHand, NEW v \in Nat, separate_audio => Audio(v) # None
  PROVE  Audio(v) \in Nat /\ (separate_audio => Audio(v) >= FirstSequence)
<1>1. CASE separate_audio
  <2>1. AudioListed /\ media \in AnyPlaylist
    BY <1>1 DEF AudioListed, InHand, TypeInv, TypeOK, ListsAgree
  <2> QED BY <1>1, <2>1, AudioIsListed DEF Audio
<1>2. CASE ~separate_audio
  BY <1>2 DEF Audio
<1> QED BY <1>1, <1>2

LEMMA InitTyped == Init => TypeInv
<1> SUFFICES ASSUME Init PROVE TypeInv
  OBVIOUS
<1>1. separate_audio \in BOOLEAN
  BY DEF Init
<1>2. audio = NoPlaylist /\ media = NoPlaylist /\ Len(log) = 0
  BY DEF Init
<1>3. manifest_failures \in 0..MaxFailures /\ segment_failures \in 0..MaxFailures
      /\ CountersAgree
  BY ProducerAssumption DEF Init, CountersAgree
<1>4. LogShape
  BY DEF Init, LogShape
<1>5. ListsAgree
  BY <1>1 DEF Init, ListsAgree
<1>6. /\ phase = "tune" /\ next \in Nat /\ last \in Nat /\ first \in Nat
      /\ last_sequence \in Nat /\ last_audio_sequence \in Nat
      /\ Len(log) \in 0..2
  BY <1>4 DEF Init, LogShape
<1>7. /\ seeded \in BOOLEAN /\ stop_requested \in BOOLEAN /\ asked \in BOOLEAN
      /\ last_error \in Errors /\ boundary_reason \in Reasons
  BY DEF Init, Errors, Reasons
<1>8. TypeOK
  BY <1>1, <1>2, <1>3, <1>4, <1>6, <1>7 DEF TypeOK
<1> QED BY <1>3, <1>4, <1>5, <1>8 DEF TypeInv

(* A pass, or the session, is left: the playlists are dropped.              *)
LEMMA PassLeftTyped ==
  ASSUME TypeInv, PassEnds, UNCHANGED <<separate_audio, last_sequence, last_audio_sequence,
                                        manifest_failures, log>>,
         seeded' \in BOOLEAN, phase' = "top" => ~seeded',
         phase' \in {"top", "stopped"},
         segment_failures' \in 0..MaxFailures,
         stop_requested' \in BOOLEAN, asked' \in BOOLEAN,
         last_error' \in Errors, boundary_reason' \in Reasons,
         CountersAgree'
  PROVE  TypeInv'
BY DEF TypeInv, TypeOK, LogShape, ListsAgree, PassEnds

LEMMA TuneTyped == ASSUME TypeInv, TuneFetch \/ Fetch PROVE TypeInv'
<1>1. /\ media' \in AnyPlaylist /\ media' \in MediaPlaylists \cup PlainPlaylists
      /\ audio' \in AudioPlaylists \cup {NoPlaylist}
      /\ separate_audio => audio' \in AnyPlaylist
  BY FetchedPlaylists DEF TuneFetch, Fetch
<1>2. CASE TuneFetch
  BY <1>1, <1>2
     DEF TuneFetch, TypeInv, TypeOK, LogShape, ListsAgree, InHand, CountersAgree, outcome
<1>3. CASE Fetch
  BY <1>1, <1>3, ProducerAssumption
     DEF Fetch, TypeInv, TypeOK, LogShape, ListsAgree, InHand, CountersAgree, outcome
<1> QED BY <1>2, <1>3

LEMMA SelectTyped == ASSUME TypeInv, Select PROVE TypeInv'
<1>1. PICK lag \in Lags, target \in InitialTargets :
        first' = StartPoint(lag) /\ next' = first' /\ last' = LastSelected(first', target)
  BY DEF Select
<1>2. InHand /\ phase' = "stage"
      /\ UNCHANGED <<separate_audio, media, audio, last_sequence, last_audio_sequence, seeded,
                     manifest_failures, segment_failures, outcome, log>>
  BY DEF Select, TypeInv, ListsAgree
<1>3. first' \in media.lo..media.hi /\ media.lo \in Nat /\ media.hi \in Nat
  BY <1>1, <1>2, StartPointInPlaylist, PlaylistBounds DEF InHand
<1>4. last' \in Int /\ first' <= last'
  BY <1>1, <1>2, <1>3, SelectionEnds DEF InHand
<1>5. first' \in Nat /\ next' \in Nat /\ last' \in Nat
  BY <1>1, <1>3, <1>4
<1>6. InHand' /\ ~seeded
  BY <1>2 DEF InHand, Select, TypeInv, ListsAgree
<1> QED BY <1>2, <1>5, <1>6 DEF TypeInv, TypeOK, LogShape, ListsAgree, CountersAgree,
                                     outcome

LEMMA CommitTyped == ASSUME TypeInv, StageSegment \/ Commit PROVE TypeInv'
<1>1. /\ Committed(next) /\ next' = next + 1 /\ phase \in {"stage", "scan"}
      /\ UNCHANGED <<separate_audio, phase, media, audio, last, first, seeded, manifest_failures,
                     stop_requested, boundary_reason, asked>>
      /\ segment_failures' \in {segment_failures, 0}
      /\ separate_audio => Audio(next) # None
  BY DEF StageSegment, Commit, Scanning, Skipped
<1>2. InHand /\ next \in Nat
  BY <1>1 DEF TypeInv, TypeOK, ListsAgree
<1>3. Audio(next) \in Nat
  BY <1>1, <1>2, AudioTypes
<1>4. /\ last_sequence' \in Nat /\ last_audio_sequence' \in Nat /\ last_error' = "none"
  BY <1>1, <1>2, <1>3 DEF Committed, TypeInv, TypeOK
<1>5. LogShape'
  BY <1>1, CommittedLog DEF TypeInv
<1>6. segment_failures' \in 0..MaxFailures /\ CountersAgree'
  BY <1>1, ProducerAssumption DEF TypeInv, TypeOK, CountersAgree
<1> QED BY <1>1, <1>2, <1>4, <1>5, <1>6
        DEF TypeInv, TypeOK, LogShape, ListsAgree, InHand, Errors

(* The steps that leave the playlists alone or drop them.                   *)
LEMMA TuneEndsTyped == ASSUME TypeInv, StartProducer \/ TuneFails PROVE TypeInv'
<1>1. CASE StartProducer
  BY <1>1 DEF StartProducer, TypeInv, TypeOK, LogShape, ListsAgree, InHand, CountersAgree,
              outcome
<1>2. CASE TuneFails
  BY <1>2
     DEF TuneFails, TypeInv, TypeOK, LogShape, ListsAgree, CountersAgree
<1> QED BY <1>1, <1>2

LEMMA PassTyped ==
  ASSUME TypeInv, TakeSeed \/ Skip \/ RequestStop \/ UNCHANGED vars
  PROVE  TypeInv'
<1> USE DEF TypeInv, TypeOK, LogShape, ListsAgree, InHand, CountersAgree, outcome,
            window
<1>1. CASE TakeSeed
  BY <1>1 DEF TakeSeed
<1>2. CASE Skip
  BY <1>2 DEF Skip, Scanning
<1>3. CASE RequestStop
  BY <1>3 DEF RequestStop
<1>4. CASE UNCHANGED vars
  BY <1>4 DEF vars
<1> QED BY <1>1, <1>2, <1>3, <1>4

LEMMA FailsTyped == ASSUME TypeInv, FetchFails PROVE TypeInv'
<1>1. /\ manifest_failures' = manifest_failures + 1 /\ segment_failures' = segment_failures
      /\ manifest_failures \in 0..MaxFailures /\ manifest_failures < MaxFailures
      /\ segment_failures < MaxFailures /\ MaxFailures \in Nat \ {0}
  BY ProducerAssumption DEF FetchFails, TypeInv, TypeOK, CountersAgree
<1>a. stop_requested' = (manifest_failures + 1 >= MaxFailures)
  BY DEF FetchFails
<1>b. stop_requested' = TRUE \/ (manifest_failures + 1 < MaxFailures /\ stop_requested' = FALSE)
  <2>1. CASE manifest_failures + 1 >= MaxFailures
    BY <1>a, <2>1
  <2>2. CASE ~(manifest_failures + 1 >= MaxFailures)
    <3>1. manifest_failures + 1 < MaxFailures
      BY <1>1, <2>2
    <3> QED BY <1>a, <2>2, <3>1
  <2> QED BY <2>1, <2>2
<1>2. manifest_failures' \in 0..MaxFailures /\ CountersAgree'
  BY <1>1, <1>b DEF CountersAgree
<1>3. stop_requested' \in BOOLEAN
  BY <1>b
<1>4. last_error' \in Errors
  BY DEF FetchFails, Errors
<1> QED BY <1>2, <1>3, <1>4
        DEF FetchFails, TypeInv, TypeOK, LogShape, ListsAgree, InHand, window

LEMMA CheckTyped == ASSUME TypeInv, CheckPlaylist PROVE TypeInv'
<1>1. CASE Regressed
  <2>1. /\ PassEnds /\ phase' = "top" /\ ~seeded'
        /\ UNCHANGED <<separate_audio, last_sequence, last_audio_sequence, manifest_failures,
                       segment_failures, asked, log>>
        /\ stop_requested' = TRUE /\ last_error' = "discontinuity"
        /\ boundary_reason' = "regression"
    BY <1>1 DEF CheckPlaylist, EndSession, LeavePass, TypeInv, ListsAgree
  <2>2. /\ last_error' \in Errors /\ boundary_reason' \in Reasons /\ CountersAgree'
        /\ asked' \in BOOLEAN /\ segment_failures' \in 0..MaxFailures
        /\ stop_requested' \in BOOLEAN /\ seeded' \in BOOLEAN
        /\ phase' \in {"top", "stopped"}
    BY <2>1 DEF Errors, Reasons, CountersAgree, TypeInv, TypeOK, CheckPlaylist
  <2>3. UNCHANGED <<separate_audio, last_sequence, last_audio_sequence, manifest_failures, log>>
    BY <2>1
  <2> QED BY <2>1, <2>2, <2>3, PassLeftTyped
<1>2. CASE ~Regressed
  <2>1. InHand /\ media.lo \in Nat /\ media.hi \in Nat
    BY PlaylistBounds DEF CheckPlaylist, TypeInv, ListsAgree, InHand
  <2> QED BY <1>2, <2>1
          DEF CheckPlaylist, TypeInv, TypeOK, LogShape, ListsAgree, InHand, CountersAgree,
              outcome
<1> QED BY <1>1, <1>2

LEMMA ScanLeftTyped ==
  ASSUME TypeInv, StopAtBoundary \/ Oversized \/ SegmentStopped \/ PassDone \/ FetchStopped
                  \/ ProducerExit
  PROVE  TypeInv'
<1>1. /\ PassEnds /\ phase' \in {"top", "stopped"} /\ (phase' = "top" => ~seeded')
      /\ UNCHANGED <<separate_audio, last_sequence, last_audio_sequence, seeded, manifest_failures,
                     segment_failures, asked, log>>
  BY DEF StopAtBoundary, Oversized, SegmentStopped, PassDone, FetchStopped, ProducerExit,
         EndSession, LeavePass, Scanning, outcome, TypeInv, ListsAgree
<1>2. last_error' \in Errors /\ boundary_reason' \in Reasons
  BY DEF StopAtBoundary, Oversized, SegmentStopped, PassDone, FetchStopped, ProducerExit,
         EndSession, outcome, Errors, Reasons, TypeInv, TypeOK
<1>3. stop_requested' = TRUE \/ stop_requested' = stop_requested
  BY DEF StopAtBoundary, Oversized, SegmentStopped, PassDone, FetchStopped, ProducerExit,
         EndSession, outcome
<1>4. stop_requested' \in BOOLEAN /\ CountersAgree'
  BY <1>1, <1>3 DEF CountersAgree, TypeInv, TypeOK
<1>5. seeded' \in BOOLEAN /\ asked' \in BOOLEAN /\ segment_failures' \in 0..MaxFailures
  BY <1>1 DEF TypeInv, TypeOK
<1> QED BY <1>1, <1>2, <1>4, <1>5, PassLeftTyped

LEMMA SegmentFailsTyped == ASSUME TypeInv, SegmentFails PROVE TypeInv'
<1>1. /\ PassEnds /\ phase' = "top" /\ ~seeded' /\ ~stop_requested
      /\ UNCHANGED <<separate_audio, last_sequence, last_audio_sequence, seeded, manifest_failures,
                     boundary_reason, asked, log>>
      /\ last_error' \in {"fetch", "not_ts"}
  BY DEF SegmentFails, LeavePass, Scanning, TypeInv, ListsAgree
<1>2. manifest_failures < MaxFailures /\ segment_failures < MaxFailures
      /\ segment_failures \in 0..MaxFailures /\ MaxFailures \in Nat \ {0}
  BY <1>1, ProducerAssumption DEF TypeInv, TypeOK, CountersAgree
<1>3. \/ /\ segment_failures' = segment_failures + 1
         /\ stop_requested' = (segment_failures + 1 >= MaxFailures)
      \/ stop_requested' = TRUE /\ segment_failures' = segment_failures
  BY DEF SegmentFails
<1>4. \/ stop_requested' = TRUE /\ segment_failures' \in {segment_failures, segment_failures + 1}
      \/ /\ stop_requested' = FALSE /\ segment_failures + 1 < MaxFailures
         /\ segment_failures' = segment_failures + 1
  <2>1. CASE segment_failures + 1 >= MaxFailures
    BY <1>3, <2>1
  <2>2. CASE ~(segment_failures + 1 >= MaxFailures)
    <3>1. segment_failures + 1 < MaxFailures
      BY <1>2, <2>2
    <3> QED BY <1>3, <2>2, <3>1
  <2> QED BY <2>1, <2>2
<1>5. segment_failures' \in 0..MaxFailures /\ CountersAgree'
  BY <1>1, <1>2, <1>4 DEF CountersAgree
<1>7. stop_requested' \in BOOLEAN
  BY <1>4
<1>6. /\ last_error' \in Errors /\ boundary_reason' \in Reasons
      /\ seeded' \in BOOLEAN /\ asked' \in BOOLEAN
  BY <1>1 DEF TypeInv, TypeOK, Errors
<1> QED BY <1>1, <1>5, <1>6, <1>7, PassLeftTyped

LEMMA TypeStep == TypeInv /\ [Next]_vars => TypeInv'
BY TuneTyped, SelectTyped, CommitTyped, TuneEndsTyped, PassTyped, FailsTyped, CheckTyped,
   ScanLeftTyped, SegmentFailsTyped DEF Next

LEMMA TypeHolds == Spec => []TypeInv
<1> QED BY InitTyped, TypeStep, PTL DEF Spec

(* The producer's state keeps its types: no sequence number becomes the     *)
(* "no match" of matching_audio_segment, and neither failure counter passes *)
(* its limit.                                                               *)
THEOREM ProducerTypes == Spec => []TypeOK
<1>1. TypeInv => TypeOK
  BY DEF TypeInv
<1> QED BY <1>1, TypeHolds, PTL

-----------------------------------------------------------------------------
(* The audio segments.                                                      *)

(* Audio segment a is one matching_audio_segment may give video segment v.  *)
Matches(v, a) ==
  IF media.date[v] = None THEN a = FromEdge(v) /\ a # None ELSE a \in NearEnough(v)

(* The last committed audio segment is the one last_audio_sequence names,   *)
(* and while the tune stages it matches the segment before `next'.          *)
AudioAgrees ==
  separate_audio /\ log # <<>> =>
    /\ last_audio_sequence = log[Len(log)].audio
    /\ FirstSequence > 0 => last_audio_sequence > 0
    /\ phase = "stage" => Matches(next - 1, last_audio_sequence)

LEMMA AudioMatches ==
  ASSUME NEW v, MatchingAudio(v) # None PROVE Matches(v, MatchingAudio(v))
BY DEF MatchingAudio, Matches

(* Two video segments in a row of playlists of one cadence are given two    *)
(* audio segments in a row.                                                 *)
LEMMA MatchesFollow ==
  ASSUME media \in AnyPlaylist, audio \in AnyPlaylist, NEW v \in Int,
         v - 1 \in media.lo..media.hi, v \in media.lo..media.hi,
         SameCadence(v), NEW a, NEW b, Matches(v - 1, a), Matches(v, b)
  PROVE  b = a + 1
<1>1. /\ media.hi \in Int /\ audio.hi \in Int /\ audio.lo \in Int /\ Tolerance \in Nat
      /\ media.date[v - 1] \in Nat \cup {None} /\ media.date[v] \in Nat \cup {None}
  BY PlaylistBounds, ProducerAssumption
<1>2. CASE media.date[v - 1] = None /\ media.date[v] = None
  BY <1>1, <1>2 DEF Matches, FromEdge, Count
<1>3. CASE media.date[v - 1] # None /\ media.date[v] # None
  <2> DEFINE x == media.date[v - 1]
             y == media.date[v]
  <2>1. /\ a \in DatedAudio /\ Delta(v - 1, a) <= Tolerance
        /\ b \in DatedAudio /\ Delta(v, b) <= Tolerance
    BY <1>3 DEF Matches, NearEnough, Closest
  <2>2. /\ y - x > 2 * Tolerance
        /\ \A c, d \in DatedAudio : c < d =>
             /\ audio.date[c] < audio.date[d]
             /\ c + 1 < d => audio.date[d] - audio.date[c] > y - x + 2 * Tolerance
    BY <1>3 DEF SameCadence
  <2>3. /\ x \in Nat /\ y \in Nat /\ a \in Int /\ b \in Int
        /\ audio.date[a] \in Nat /\ audio.date[b] \in Nat
    BY <1>1, <1>3, <2>1, PlaylistBounds DEF DatedAudio
  <2>4. /\ x - audio.date[a] <= Tolerance /\ audio.date[a] - x <= Tolerance
        /\ y - audio.date[b] <= Tolerance /\ audio.date[b] - y <= Tolerance
    BY <1>1, <2>1, <2>3 DEF Delta
  <2> HIDE DEF x, y
  <2>5. ~(b <= a)
    <3>1. CASE b = a
      BY <1>1, <2>2, <2>3, <2>4, <3>1
    <3>2. CASE b < a
      <4>1. audio.date[b] < audio.date[a]
        BY <2>1, <2>2, <3>2
      <4> QED BY <1>1, <2>2, <2>3, <2>4, <4>1
    <3> QED BY <2>3, <3>1, <3>2
  <2>6. ~(a + 1 < b)
    <3>1. a + 1 < b => audio.date[b] - audio.date[a] > y - x + 2 * Tolerance
      BY <2>1, <2>2, <2>3
    <3> QED BY <1>1, <2>3, <2>4, <3>1
  <2> QED BY <2>3, <2>5, <2>6
<1> QED BY <1>2, <1>3 DEF SameCadence

LEMMA AudioSame ==
  ASSUME AudioAgrees, UNCHANGED <<separate_audio, last_audio_sequence, log>>,
         \/ phase' # "stage" \/ log = <<>>
         \/ UNCHANGED <<media, audio, next, phase>>
  PROVE  AudioAgrees'
BY DEF AudioAgrees, Matches, FromEdge, NearEnough, Closest, DatedAudio, Delta

(* A commit of the staging loop.                                            *)
LEMMA StageAudioStep ==
  ASSUME MarkerInv, TypeInv, AudioAgrees, StageSegment
  PROVE  /\ AudioAgrees'
         /\ log # <<>> /\ separate_audio /\ SameCadence(next) =>
              log'[Len(log')].audio = log[Len(log)].audio + 1
<1>u. /\ phase = "stage" /\ phase' = "stage" /\ next <= last /\ next' = next + 1
      /\ Audio(next) # None /\ Committed(next)
      /\ UNCHANGED <<separate_audio, media, audio, first>>
  BY DEF StageSegment
<1>1. /\ InHand /\ next \in Nat /\ first \in media.lo..media.hi /\ next >= first
      /\ last <= media.hi /\ last \in Nat
      /\ log = <<>> <=> next = first
      /\ media.lo \in Nat /\ media.hi \in Nat
  BY <1>u, PlaylistBounds DEF MarkerInv, StagingAgrees, TypeInv, TypeOK, ListsAgree, InHand
<1>2. log' # <<>> /\ log'[Len(log')].audio = Audio(next)
  <2>1. log' # <<>> /\ log'[Len(log')] = Entry(next)
    BY <1>u, CommittedLog DEF MarkerInv
  <2>2. Entry(next).audio = Audio(next)
    BY DEF Entry
  <2> QED BY <2>1, <2>2
<1> SUFFICES ASSUME separate_audio
             PROVE  /\ AudioAgrees'
                    /\ log # <<>> /\ SameCadence(next) =>
                         log'[Len(log')].audio = log[Len(log)].audio + 1
  BY <1>u DEF AudioAgrees
<1>3. /\ last_audio_sequence' = Audio(next) /\ Audio(next) \in Nat
      /\ Audio(next) >= FirstSequence /\ FirstSequence \in Nat
  BY <1>u, <1>1, AudioTypes, ProducerAssumption DEF Committed
<1>m. Audio(next) = MatchingAudio(next) /\ Matches(next, Audio(next))
  BY <1>u, AudioMatches DEF Audio
<1>4. Matches(next - 1, last_audio_sequence)'
  <2>1. next' - 1 = next /\ media' = media /\ audio' = audio
    BY <1>u, <1>1
  <2>2. Matches(next, last_audio_sequence')
    BY <1>m, <1>3
  <2> QED BY <2>1, <2>2 DEF Matches, FromEdge, NearEnough, Closest, DatedAudio, Delta
<1>5. AudioAgrees'
  BY <1>2, <1>3, <1>4 DEF AudioAgrees
<1>6. ASSUME log # <<>>, SameCadence(next)
      PROVE  log'[Len(log')].audio = log[Len(log)].audio + 1
  <2>1. /\ last_audio_sequence = log[Len(log)].audio
        /\ Matches(next - 1, last_audio_sequence)
    BY <1>u, <1>6 DEF AudioAgrees
  <2>2. /\ next - 1 \in media.lo..media.hi /\ next \in media.lo..media.hi
        /\ media \in AnyPlaylist /\ audio \in AnyPlaylist /\ next \in Int
    BY <1>u, <1>1, <1>6 DEF InHand
  <2>3. Audio(next) = last_audio_sequence + 1
    BY <1>m, <1>6, <2>1, <2>2, MatchesFollow
  <2> QED BY <1>2, <2>1, <2>3
<1> QED BY <1>5, <1>6

(* A commit of the producer: the sequences are compared, whatever matched.  *)
LEMMA CommitAudioStep ==
  ASSUME MarkerInv, TypeInv, AudioAgrees, Commit
  PROVE  /\ AudioAgrees'
         /\ FirstSequence > 0 /\ separate_audio =>
              log'[Len(log')].audio = log[Len(log)].audio + 1
<1>u. /\ phase = "scan" /\ phase' = "scan" /\ ~Skipped(next) /\ ~Gap(next)
      /\ Committed(next) /\ UNCHANGED separate_audio
  BY DEF Commit, Scanning
<1>1. log # <<>> /\ InHand /\ next \in Nat /\ last_audio_sequence \in Nat
  BY <1>u DEF MarkerInv, StagingAgrees, TypeInv, TypeOK, ListsAgree
<1>2. log' # <<>> /\ log'[Len(log')].audio = Audio(next)
  <2>1. log' # <<>> /\ log'[Len(log')] = Entry(next)
    BY <1>u, CommittedLog DEF MarkerInv
  <2>2. Entry(next).audio = Audio(next)
    BY DEF Entry
  <2> QED BY <2>1, <2>2
<1> SUFFICES ASSUME separate_audio
             PROVE  /\ AudioAgrees'
                    /\ FirstSequence > 0 => log'[Len(log')].audio = log[Len(log)].audio + 1
  BY <1>u DEF AudioAgrees
<1>3. /\ last_audio_sequence' = Audio(next) /\ Audio(next) \in Nat
      /\ Audio(next) > last_audio_sequence
  BY <1>u, <1>1, AudioTypes DEF Committed, Skipped
<1>4. /\ last_audio_sequence = log[Len(log)].audio
      /\ FirstSequence > 0 => last_audio_sequence > 0
  BY <1>1 DEF AudioAgrees
<1>5. FirstSequence > 0 => Audio(next) = last_audio_sequence + 1
  BY <1>u, <1>1, <1>3, <1>4 DEF Gap
<1>6. AudioAgrees'
  BY <1>u, <1>1, <1>2, <1>3 DEF AudioAgrees
<1> QED BY <1>2, <1>4, <1>5, <1>6

(* The other steps commit nothing.                                          *)
LEMMA AudioStep ==
  ASSUME MarkerInv, TypeInv, AudioAgrees, [Next]_vars
  PROVE  AudioAgrees' /\ (~StageSegment /\ ~Commit => log' = log)
<1>1. CASE UNCHANGED vars \/ RequestStop
  BY <1>1, AudioSame DEF vars, window, RequestStop
<1>2. CASE \/ TuneFetch \/ Select \/ StartProducer \/ TuneFails \/ TakeSeed \/ Fetch
           \/ FetchFails \/ FetchStopped \/ CheckPlaylist \/ Skip \/ StopAtBoundary
           \/ Oversized \/ SegmentFails \/ SegmentStopped \/ PassDone \/ ProducerExit
  <2>1. UNCHANGED <<separate_audio, last_audio_sequence, log>>
    BY <1>2 DEF TuneFetch, Select, StartProducer, TuneFails, TakeSeed, Fetch, FetchFails,
         FetchStopped, CheckPlaylist, Skip, StopAtBoundary, Oversized, SegmentFails,
         SegmentStopped, PassDone, ProducerExit
  <2>2. phase' # "stage" \/ log = <<>>
    BY <1>2 DEF TuneFetch, Select, StartProducer, TuneFails, TakeSeed, Fetch, FetchFails,
         FetchStopped, CheckPlaylist, Skip, StopAtBoundary, Oversized, SegmentFails,
         SegmentStopped, PassDone, ProducerExit, EndSession, LeavePass, Scanning,
         MarkerInv, StagingAgrees
  <2> QED BY <2>1, <2>2, AudioSame
<1> QED BY <1>1, <1>2, StageAudioStep, CommitAudioStep DEF Next

(* Where media sequences start above zero, the producer gives one decoder   *)
(* session consecutive audio segments, however the playlists it fetches     *)
(* date and cut their segments; the staging loop does where the dates of    *)
(* its two playlists keep one cadence.                                      *)
THEOREM AudioIsContiguous ==
  ASSUME FirstSequence > 0 PROVE Spec => AudioContiguous
<1> DEFINE Inv == MarkerInv /\ TypeInv /\ AudioAgrees
<1> DEFINE Goal ==
      log' # log /\ log # <<>> /\ separate_audio /\ (phase = "stage" => SameCadence(next))
        => log'[Len(log')].audio = log[Len(log)].audio + 1
<1>1. Init => Inv
  <2>1. Init => AudioAgrees
    BY DEF Init, AudioAgrees
  <2> QED BY <2>1, InitMarkers, InitTyped
<1>2. Inv /\ [Next]_vars => Inv'
  BY AudioStep, ProducerStep, TypeStep
<1>3. Inv /\ [Next]_vars => [Goal]_vars
  <2> SUFFICES ASSUME Inv, Next PROVE Goal
    OBVIOUS
  <2>1. CASE StageSegment
    <3>1. phase = "stage"
      BY <2>1 DEF StageSegment
    <3> QED BY <2>1, <3>1, StageAudioStep
  <2>2. CASE Commit
    BY <2>2, CommitAudioStep
  <2>3. CASE ~StageSegment /\ ~Commit
    BY <2>3, AudioStep
  <2> QED BY <2>1, <2>2, <2>3
<1> HIDE DEF Inv
<1> QED BY <1>1, <1>2, <1>3, PTL DEF Spec, AudioContiguous
=============================================================================
