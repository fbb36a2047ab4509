# RetroTuner3DS: specifications and proofs

RetroTuner3DS plays live HLS television on a New Nintendo 3DS. These modules
model the parts of it that are hardest to test on a desk: the live stream
(`live_stream.c`), a process-wide singleton that a tune worker starts, a producer
thread fills, FFmpeg's read callback drains, and anybody may stop; the controller
(`live_app.c`) whose HID, draw, worker and scanner threads meet over it; the
player's four threads (`video_player.c`) and the queues between them; and the
theme's two files on a card that loses power. Paths below are relative to the
repository's `src/`.

## 1. Inventory

The data path of a channel:

    channels.m3u -> scan worker -> deck -> tune worker -> HLS selection
      -> whole MPEG-TS segments -> 6 MiB ring (producer thread)
      -> miniiptv_live_stream_read (decode thread, FFmpeg AVIO) -> MVD -> draw

| component | state it keeps | operations | who meets there |
|---|---|---|---|
| segment ring and reader (`live_stream.c`) | `stream_ring`, cursors, `ring_count`, refill flag, target and deadline | `ring_commit_segment`, `miniiptv_live_stream_read` | tune worker, producer, decode thread, stoppers |
| session lifecycle (`live_stream.c`) | `starting/stopping/initialized`, generation, producer handle, cancel token, tune deadline; `stream_lock` and `stream_lifecycle_lock` | `start`, `request_stop`, `stop`, the producer's creation and join | tune worker, HID thread, main at exit, decode thread |
| HLS producer (`live_stream.c`, `hls.c`) | last video and audio sequence, seed playlists, failure counters, last error, boundary reason | start-point selection, staging, one pass per playlist | tune worker, then producer; the broadcaster moves on meanwhile |
| buffer shadow and adaptive profiles (`buffer_shadow.c`) | rate and jitter estimates, per-channel profiles | record a segment, plan a recovery, choose a startup lag | producer, tune |
| rendition cache and tune timeline (`live_stream.c`) | four renditions with a 60 s life; phases of the current tune | lookup, store, begin/complete a phase | tune worker, player, HID thread |
| live app controller (`live_app.c`) | `app` under `app.lock`: screen, queued tune, cancel and exit flags, worker handles, player return | HID commands, `worker_main`, `begin_player_handoff`, `reap_worker`, relocks, exit | HID, draw, tune worker, scan worker, player |
| manifest scan (`channel_scan.c`, `live_app.c`) | progress of the probe, stop flag, handle | start, stop and join | scan worker, tune worker |
| player (`video_player.c`) | decode, convert and draw threads, message queues, playback state | open, play, stop, return to the deck | its own threads, `live_app.c` |
| decoder wrapper (`system/util/decoder.c`) | packet cache, MVD and raw-image rings | read a packet, decode, get an image | read, decode and convert threads |
| queue, sync, speaker (`system/util/`) | message queues, recursive locks, condition variables, audio buffers | add, get, delete; lock, wait; add a buffer | all threads |
| theme and telemetry files | a primary and a backup preference; a capped log | load, save, append | power loss |
| network, parsers, menu, drawing, platform layers | | | |

Behaviours that are hard, with the lines where they bite, are the `hazards` of
`PROJECT.json`. In short: a global object that is wiped and used again under
threads that may still look at it; two waits (the reader's refill and the
producer's full ring) that can wait for each other; a stop that races a start, a
commit and a deadline; playlists that move, restart and disagree between two
fetches; sentinels and off-by-ones at their edges; and, in the controller, four
threads that each may ask for the next tune.

What makes each component correct:

- **ring**: no unread byte is overwritten, no byte is lost, repeated or handed
  out early, a session that has ended publishes nothing more, and no wait is for
  ever.
- **lifecycle**: a producer never outlives its session, a read never mixes two
  sessions, a stop leaves nothing behind, every call returns.
- **producer**: what one decoder session receives is contiguous in video and,
  where the staged dates tell the segments apart, in audio, crosses no marker, and an end that nobody asked for has a reason.
- **controller**: one worker at a time, a launch left to the reaper has a reaper, a
  playback's end is always noticed, an exit closes the network under nobody, and
  whatever was asked for ends.
- **player**: a file is closed only when every worker is quiet, one video packet is in
  flight, the picture on the screen is not overwritten, and opening, buffering
  and stopping do not hang.
- **queue**: a queue is freed only when nobody is inside, no receiver sleeps on a
  message, a deletion ends.
- **theme store**: whatever fails, a restart finds the old theme or the new one.

## 2. Modules and the code they model

### `StreamRing` (with `SegmentPipe`)

One session, byte for byte. A section under `stream_lock` is one action; sleeps
and downloads lie between actions. Byte *n* of a session is the number *n*, so a
byte that is lost, repeated or reordered shows in `chunk`, what a read returns.

- `Download`, `DownloadFails`, `Boundary`: `stream_segment` up to its commit.
  A failed try is counted as the staging loop counts it (`RetryCount`) or as
  `producer_main` does (`MaxFailures` in a row).
- `Commit`, `CommitRefused`, `CommitStopped`: the passes of
  `ring_commit_segment`. Both `memcpy` calls are in `Copied`. A pass that finds
  no room while a reader is active changes nothing and is a stutter.
- `StartProducer`, `StartFails`, `PublishSession`: the end of
  `miniiptv_live_stream_start`. `threadCreate` and the flag `initialized` are two
  sections, so the producer may run, and even exit, in between.
- `ProducerPoll`, `PlaylistDone`, `ProducerSeesStop`, `ProducerExit`: the
  producer's loop above its segments.
- `ReadCall`, `BeginRefill`, `ReadChunk`, `ReadEnd`: the passes of
  `miniiptv_live_stream_read`, with its refill after a real underrun.
  The target is any member of `RecoveryTargets`: the recovery plan of
  `buffer_shadow.c` is not computed here. `Tick` is its deadline.

`SegmentPipe` is what that promises to FFmpeg: a bounded FIFO pipe of whole
segments whose end is final. `ImplementsPipe` is the refinement
(`Pipe == INSTANCE SegmentPipe WITH ...`).

### `StreamLifecycle`

The functions `start`, `stop`, `stop_serialized` and `request_stop` for any set of
calling threads, with `stream_lifecycle_lock` held across a whole start or stop
and `stream_lock` taken section by section. `pc[t]` is the section caller `t` is
about to run, `after[t]` where `live_stream_stop_serialized` returns to (it is
called by stop, at the top of start, and when a tune fails). `WipeSession` and
`ResetSession` are the `memset`s of the global `stream`. `thread[g]` is the producer
thread of session `g`; it acts on whatever it finds in the global object, as
the code does, and it is a property, not an assumption, that it only ever
finds its own session. A ring byte is abstracted to the generation that
committed it. The decoder captures the generation at the start of a read and
may sleep over any number of stops and starts. The cancel token and the
30-second deadline may fire at any step.

### `HlsProducer`

Which segments are committed, in which order. `Select` is the start point
(startup lag, back-off at a marker, selection cut at a marker), `StageSegment` and
`StartProducer` the staging loop, `TakeSeed` the first pass over the playlist the
tune already had, then one pass per `Fetch`. `matching_audio_segment` is modelled
by what it computes: for a video segment that carries `EXT-X-PROGRAM-DATE-TIME`, the nearest
dated audio segment within `Tolerance`; for one that does not, the audio segment at equal
distance from the live edge. Every fetch may return any playlist of
consecutive sequences with at most one marker: sliding windows, jumps, restarts
and stalls are all included. Each segment of each fetched playlist has its own date or none
(`date`): `MediaDates` and `AudioDates` are the ways the two playlists may be dated, and
nothing ties the one to the other or to what an earlier fetch said. `log` keeps the last two committed segments.

These three look at the same code from three sides: `StreamRing` knows
sizes and time but not sequences, `HlsProducer` sequences but not bytes,
`StreamLifecycle` many sessions but only the owner of each byte. `StreamRing` is the
inside of one session of `StreamLifecycle`; a stop in the former is `TakeSession` or
`CallStop` in the latter.

### `LiveApp`

The controller. `app` is the fields of the global `app` that decide something; a
section under `app.lock` is one action, and the calls made outside the lock (stops,
joins, thread creation) lie between sections, in `ui[u].pc` and `wk[w].pc`.

- The two UI threads, `hid` and `draw`, share `reap_worker_if_finished` (`Reap`,
  `Reaped`), `update_player_return_locked` (`Return`) and
  `process_player_return_action` (`Process`, `Stopped`, `Cleaned`), as both hooks call
  them. `Launch`, `ScanJoined`, `CreateWorker` are `launch_tune_worker`.
- `WorkerBegin` to `WorkerTail` are `worker_main`, whose `miniiptv_live_stream_start` is the
  three steps of `StreamLifecycle` that matter here: the old session joined, a new one
  staged, or failed. `BeginHandoff` to `HandoffFailed` are `begin_player_handoff`, run by
  the worker or, on A, by the HID thread.
- `HidScan`, `HidHook`, `HidInterrupt` are the live-TV part of `Vid_hid`, with the drawer and
  with a B that stays held from one scan to the next; `HidReturns` to `HidIgnores` are
  the sections of `live_hid`.
- The player is its state, its command queue and its return generation. The decode
  thread publishes IDLE, then counts the return: two actions (`TakeAbort`,
  `CountReturn`). `StartupTimeout` is the watchdog, which may fire at any time of an
  opening; `ScanInit` to `ScanEnds` the scanner; `ExitBegins` to `ExitCloses` the exit.

`StreamJoined` is what `StreamLifecycle` proves of a stop: nobody stages and no
producer runs when it returns. A channel list is its number of sources that give a
channel (`Scans`); which channel is selected decides nothing here.

### `PlayerPipeline`

The decode thread D, the read thread R, the video decode thread V and the convert
thread C of `video_player.c`, over the five queues `queue.d/r/v/c/n`, with the HID and
draw threads as what they put into them. An iteration of a thread between two calls
that may wait is one action.

- D: `BeginPlay`, `Opened`, `Seek`, `Pause`, `Resume`; `BeginStop`, `AwaitWorker`, `CloseFile` are
  `Vid_abort_worker` for R, C, V in turn and the teardown after it; `Notified` the
  notifications; `Stalls`, `HandsOnVideo`, `HandsOnAudio` the parse section.
- R: `ReadPacket` into the packet cache, which may go on after a stop, out of the I/O buffer;
  `ReadEnds` is the end. V: `TakePacket`, then `Decode` again and again
  while the raw images are full; `BeginFlush`, `Flush` for a seek. C: `TakeImage`,
  `StoreTexture`, `SkipImage`, and the two reports that begin and end buffering.
- `dec` is the decoder wrapper's state by what it counts and refuses, `tex` the texture ring
  between C and the screen. `RestartThreshold` is the inherited setting, which
  `EffectiveThreshold` caps.

One packet gives one picture; pictures dropped and packets damaged after the first are
drawn from the budget of events, since any number of them is one more of the
same. Subtitles, software decoding, several tracks, local files and the audio kept
running over a picture stall are left out.

### `MsgQueue`

`Util_queue_create`, `_add`, `_get` and `_delete` with the two one-shot `LightEvent`s. A
section under `util_queue_mutex` is one action; a wait splits a call into `Add` and
`AddResumes` (`Get`, `GetResumes`), and `Wake`, `TimeOut` are the event's two ways out. A
signal sets the event whether or not anybody waits, a waiter takes it.

### `ThemeStore`

The picker of `theme_ui.c` and the save of `theme_store.c`, every file operation an
action that may fail, with a loss of power between any two. A file is what a
reader makes of it: a theme, or none. `before` is the card when the save began.

## 3. Runs

| run | states | what it shows |
|---|---|---|
| `ring` | 309,506 | contents and cursors, refinement of the pipe, and that neither a blocked commit nor a held reader waits for ever |
| `lifecycle` | 30,816 | no producer outlives its session, reads see one session, stops leave nothing, every call and every read returns |
| `producer` | 2,703,434 | contiguous video and audio, no marker crossed, a reason for every end, nothing after a boundary |
| `live_app` | 530,410 | one worker, no launch or playback forgotten, exit closes under nobody, every request ends |
| `player` | 685,532 | quiet teardown, one packet and one read request in flight, displayed picture kept, nothing waits for ever |
| `msg_queue` | 51,791 | nobody inside a freed queue, no lost wake-up, deletion ends |
| `theme_store` | 17,932 | a restart after any failure or loss of power finds the old theme or the new one |
| `sequence_zero` | violation | finding 1 |
| `deeper_start` | violation | finding 2 |
| `short_segments` | violation | finding 3 |
| `drawer_close` | violation | finding 4 |
| `seek_flush` | violation | finding 5 |

**Bounds.** *ring*: the unit is 512 KiB, so ring 12, ceiling 8, high-water mark 10 have
the code's proportions; sizes 1, 5 and 8 give a tiny segment, two that fit side
by side, and a ceiling-sized one that cannot share the ring with a refill; 16 units
wrap the ring and fill it again. Refill targets 1 and 6 are a trickle and
3 MiB; buffer sizes 3 and 8 stand for reads that do and do not reach the end of
the ring. One retry and two failures reach both sides of the limits. *lifecycle*: the
worker starts and stops, a second thread stops; three sessions are one to be
overlapped, one to overlap it and one after; a ring of two segments is empty,
partly and wholly full. *producer*: sequences 1..4 in windows of up to
four cover an overlap, an adjacent window, a gap and a regression; lags 1..3 and
targets 1, 2 are the code's; two consecutive failures stand for three. The tag is
on no video segment or on all but the fourth, so that playlists are dated, undated or dated in
part; the audio is undated, dated two seconds late, or in segments of four seconds
with the tag on every other one; each fetch is free to choose. A wider choice (the tag
on every video segment or on every other one, four-second audio with every tag; 6.8 million states)
holds as well and is too slow to keep. Without an audio rendition
dates are not read and left out. *Markers*: one per
playlist; several only end the session earlier. *live_app*: two events (keys that do
something, and failures of threads, network, stream and player) and, free of charge, B
opening the drawer, B held, and L or R on the error screen: enough for a key
during a hand-over, a fault during a return, an exit in any of them. Two sources are one to
be scanned before a tune and one after; one relock reaches both sides of the
limit. *player*: two playbacks, so that something of the first can be left for the
second; one event besides the plays (a seek, a return, a failure, an end of stream, a
shutdown); a cache of three packets is empty, below half, and full; three raw images and
two textures are the code's own numbers; a threshold of 48 is the inherited setting that
the comment at `video_player.c:4886` speaks of. The
safety properties also hold with three playbacks and two events (6.1 million states), checked
outside the runs. *msg_queue*: two senders and a receiver with a queue of
two and messages of two kinds see it empty, partly and wholly full, in every order with a
deletion; five calls fill the queue and leave callers asleep when it is deleted.
*theme_store*: three themes tell old, new and a third; eight events let a save fail at one
step, the console restart, and a second save follow.

**Fairness.** Threads are scheduled and the clock advances: WF on the producer's exit,
on the steps of a caller inside the lifecycle lock, on the passes of a commit and of
a read, and on deadlines. In the ring run the decoder keeps calling read,
as FFmpeg does while it plays. `SF` on `Lock`: the waiter on a `LightLock` that is
released again and again gets it. A tune or a producer's download is never
assumed to succeed; a tune is only assumed to notice its cancellation, as
`curl_should_cancel` runs in every transfer. Nothing is assumed of the user or
the broadcaster.

In *live_app* each thread is scheduled (WF per thread); faults, keys and the watchdog need
not come, and a producer is only sure to end when it is told to stop. In *player* each
thread is scheduled and the screen draws at least what the A/V gate lets through at
its strictest; `SF` on `HandsOnVideo` says that a stream which goes on carries a video
packet again and again. In *msg_queue* waits end (by the event or by their timeout) and the
deleter goes on. `theme_store` states none.

**Assumptions of the passing runs.** `SleepsOnlyOnEmpty` is about queues with one
receiver, which is how `video_player.c` uses them. `SaveAtomic` exempts a save
that could not read a whole primary (`Blind`): the code then writes the primary without a
backup. `Settles` exempts a playback after a seek, because of finding 5.
`QuietTeardown` leaves out the clear of the raw images and `NetworkClosed` a scanner
that another thread joins; both are described under the observations. `RequestsServed` says
that a queued channel is taken up, not that its tune succeeds: the network may fail it, or a
late stop; the L/R and drawer targets, which a playback return consumes, are not in `Owed`.

**Deadlock checking** is off where the system really stops: a session that has
ended, or callers that have used every generation of the bound.

### Findings

1. **Media sequence 0** (`sequence_zero`). `last_sequence > 0` means "something was
   committed", but 0 is also the first sequence of a playlist without
   `EXT-X-MEDIA-SEQUENCE` (`hls.c:454`). After segment 0 the gap check is off: the
   run commits 0 and then 2, against the comment at `live_stream.c:1327`.
2. **Deeper start** (`deeper_start`). The loop at `live_stream.c:1536` excludes the
   segment it backs off to, so a marker there is not seen. The tune starts before
   it and its producer ends the session at once, against the comment at line 1533.
3. **Two-second segments** (`short_segments`). With dated audio two seconds off, the
   staging loop pairs one audio segment with two video segments; the
   producer's own loop has a check (`live_stream.c:1297`) that staging lacks, and
   the comment at line 1040 says this does not happen.

4. **Closing the drawer** (`drawer_close`). The press of B that closes the channel drawer
   returns at `video_player.c:1373`; one scan later B is still held and the drawer is
   closed, so the condition at lines 1420-1424, which accepts a held B, asks for the deck and stops
   the stream. `README.md:38` promises to "open/close the channel drawer while
   video keeps playing".
5. **Seek with the raw images full** (`seek_flush`). V leaves its decode loop with the packet
   still in the decoder; the flush (`video_player.c:7875`) gets TRY_AGAIN at once, as the
   raw images are full, and ends. C clears the images, but
   `Util_decoder_ready_video_packet` refuses every later packet (`decoder.c:1592`) and
   each is skipped: the picture is frozen until another seek or a stop.

The passing run of `HlsProducer` uses sequences from 1. `AudioContiguous` is about every commit
of the producer, whatever the dates, and about those commits of the staging loop where the
playlists in hand keep one cadence (`SameCadence`): two video segments in a row both undated,
or both dated, more than twice the tolerance apart, with the audio dates in order.
Finding 3, and *mixed dates* below, are what happens there otherwise.

### Observations

Seen while modelling, not stated as runs, because no line of the repository promises
otherwise plainly enough or because what follows lies outside the models.

- *One curl handle* (`live_app.c:928`). `launch_scan_worker` looks at workers and flags, not at
  the stream: a scan may fetch while a producer that was told to stop still does.
  TLC also finds a scan beside a staging worker: an automatic relock leaves
  `launch_after_reap` behind, B is consumed by the old worker's tail, the deck is idle
  and a scan begins, then the reaper launches the relock whose cancel was consumed.
- *A cancel lost* (`live_app.c:892`). B during the hand-over sets `cancel_to_deck`; the worker's
  last section consumes it, the stopped stream fails to open, and the user
  sees the error screen. The same flag is what a playback return would have read.
- *Joins on the exit* (`live_app.c:1769`). A scanner whose handle the HID thread took is not joined
  by the exit; the network is closed while it may still fetch.
- *Mixed dates* (`live_stream.c:1566`). The date is tested per segment (line 1023). Where only the
  first segment of a playlist carries it and the audio live edge is one segment ahead, the
  staging loop pairs video 1 with audio 1 by date and video 2 with audio 3 by distance. It has no
  audio gap check (the producer's is at line 1309), and audio 2 is left out inside one decoder
  session, which the comments at lines 1327 and 1546 would not have. The root is that of
  finding 3. Without the antecedent `SameCadence`, `AudioContiguous` fails on either.
- *A late stop* (`live_app.c:1103`, 1315, 1330, 1364). A `request_stop` after the unlock, of a
  return or of a key (`HidStops`), may reach the session that a worker launched since has
  begun: the tune fails and shows an error.
- *An error that is none* (`live_stream.c:861`). A commit interrupted by the stop of an ordinary
  end leaves an error code; the deck shows it.
- *A clear after the abort* (`video_player.c:7890`). A flush that was under way forwards its
  CLEAR_CACHE to C, which has already answered its abort, so C may free raw images while D
  closes the file, against the order that the comments at lines 6764 and 7902 want.
- *A sender asleep beside a free place* (`queue.c:130`). With two senders one signal wakes one: the
  other sleeps until its timeout. It then succeeds.

## 4. Proofs

`StreamRingProofs`, for every ring size, ceiling, set of segment sizes, high-water
mark, set of targets and buffer sizes (`RingAssumption`: a ceiling within the ring, no
empty segment, no empty buffer):

- `RingInvariant`: `Spec => []RingInv`. Contents alone are not inductive: `RingInv`
  adds that the write cursor is the read cursor plus the count, modulo the size
  (else a commit could land on unread bytes), the types, and where the
  threads are. The work is modular arithmetic, in `WrapOnce`, `WrapInIndex`, `WrapAdd`:
  a commit writes cells disjoint from the unread ones (`CommitInv`), a read
  returns the next bytes (`ReadGetsNextBytes`).
- `TypeCorrect`, `RingContents`: the run's invariants, as consequences.
- `RingImplementsPipe`: `Spec => ImplementsPipe`, action by action
  (`CommitPublishes`, `ReadTakes`, `ReadEndEnds`, `OthersClose`).

`StreamLifecycleProofs`, for every set of starting and stopping threads, any number
of sessions and any room (`LifecycleAssumption`):

- `LifecycleInvariant`: `Spec => []LifecycleInv`. None of the properties is inductive
  by itself: that a wipe finds no live producer depends on a join, which depends on the
  handle taken, which depends on the lock. The strengthening is `LockExcludes` (who
  is inside), `SessionAgrees` (flags, generation and live threads), `HolderAt` (what the
  holder's step says of the session: after a take the one live producer is in
  its hands, after a join there is none, after create it is the new one) and
  `NobodyAgrees` (when the lock is free the producer is the published one).
- `LifecycleTypes`, `ProducersStayInTheirSession`, `RingIsOfItsSession`,
  `ReadersStayInOneGeneration`, `StopsLeaveNothing`: the run's invariants.

`HlsProducerProofs`, for any playlists, windows, dates, lags and limits
(`DatesAssumption`, that a date is a number or missing; `ProducerAssumption`: lags 1..3, one or two initial segments, as in the code):

- `MarkersStartSessions`: `Spec => []NoMarkerSpliced`. The strengthening `StagingAgrees`
  says where the staging loop is in its selection, that the selection holds no
  marker after its first segment (`SelectionEnds`), and that a producer is only
  started with something committed.
- `VideoIsContiguous`: `Spec => [](FirstSequence > 0 => VideoContiguous)`; the antecedent is
  exactly finding 1. `SequenceAgrees` ties `last_sequence` to the log.
- `SessionsEndWithAReason`, `BoundariesAreFinal`: from `EndInv`, that a boundary has
  stopped the session and that a stop is asked for or explained.

- `ProducerTypes`: `Spec => []TypeOK`, by `TypeInv`, which adds the shape of the log and where
  the producer is in its playlist.
- `AudioIsContiguous`: `AudioContiguous` under `FirstSequence > 0`, for every way of dating the
  two playlists at every fetch; the antecedent is finding 1. `AudioAgrees` ties
  `last_audio_sequence` to the log and, while the tune stages, to the segment before. A commit of
  the producer needs no more than its sequence checks (`CommitAudioStep`). One of the
  staging loop needs `SameCadence`: a match by date is within the tolerance, so two dated video
  segments in a row can only match two audio segments in a row (`MatchesFollow`).

`MsgQueueProofs`, for any finite set of threads, any capacity and any number of calls:

- `QueueInvariant`: `FreedUnused` is not inductive alone. `Counted` says that `reference_count` is
  the number of threads between the two sections of a call, `DeleterAgrees` that a
  deleter is at work exactly while the queue is marked, `Carries` that a sender which
  sleeps still has its event.
- `QueueTypes`, `NobodyUsesAFreedQueue`: the run's invariants, as consequences.
- `OneReceiverMissesNothing`: `SleepsOnlyOnEmpty` for one receiver and any number of senders.
  The property is about such queues only; with two receivers it is false, as the
  observation on senders shows for the other side.

`ThemeStoreProofs`, for any number of themes and of events:

- `StoreInvariant`: `CardInv` says, for each step of a save, which two files it may have
  left on the card, given the card it found; `PickerInv` ties what the screen shows and
  what Cancel goes back to to what a restart would load.
- `StoreTypes`, `RestartsShowTheTheme`: the run's invariants. `SavesAreAtomic`: the action
  property, step by step from `CardInv`.

`LiveAppProofs`, for any number of relocks, sources and events:

- `LiveInvariant`: `Spec => []LiveInv`, by seven parts. `WorkerInv`: a worker that runs is
  the one whose handle `app`, or the exit, holds; `ExitInv`: the exit flag is set exactly while
  the draw thread goes through the exit; `HandInv`: one hand-over is open at a time, and it has found
  the player free and no return counted; `ScanInv`: a scanner that runs has its handle in
  `scan` or in the hands of a thread that joins it; `ClosedInv`: what the exit has joined at
  each of its steps; `LaunchKept` and the types.
- `LiveTypes`, `NeverTwoWorkers`, `LaunchesAreKept`, `HandoversAreAwaited`, `ExitClosesLast`: the
  run's invariants. `LaunchKept` was once stated without the exit: with three
  events TLC finds an exit that takes the worker's handle and leaves the flag set,
  which nobody reads any more.

`PlayerPipelineProofs`, for any cache and raw images of three or more, two or more textures, any
threshold and any number of playbacks and events (`PlayerAssumption`):

- `PipelineInvariant`: `Spec => []PipelineInv`. For each of R, C and V, and each place of D
  (`ReadInv`, `ConvertInv`, `VideoInv`), it says what the worker may still do and which messages to and
  from it are in flight: before the abort, with the abort next in its queue, after the
  answer. What makes it inductive is order: what a worker sent before it took the abort stands
  before its answer in `queue.n` (`Before`), so D has read it all when it goes
  on. `DecodeInv` says which flags D has set, `TextureInv` that C stores only into a ring with
  another place free.
- `PlayerTypes`, `TeardownsAreQuiet`, `PacketsGoOneByOne`, `ReadsGoOneByOne`, `PictureOnScreenIsKept`: the
  run's invariants; the last needs the arithmetic of the texture ring (indices modulo
  `VIDEO_BUFFERS`).
- `TypeOK` does not bound the lengths of the queues. The bounds it once had (two or three
  messages) were those of the run: seeks and plays without end put more in flight.
  The code's own queues hold 100 and 200 messages.

Every invariant and every action property that a passing run checks is stated by one of
these theorems. What stays with TLC is liveness (`RequestsServed`, `DeleteEnds`, `Settles`,
and those of the ring and of the lifecycle), since fairness and `ENABLED` are out of the prover's
reach, and the five findings, which are counterexamples.

## 5. Not modelled, and the plan

Proofs that could follow: an abstract bounded buffer that `MsgQueue` implements, and an abstract
stop protocol (tell, await, release, for each worker) that `PlayerPipeline` implements, each
as a property of its run first; and `LiveApp` over the `StreamLifecycle` it now takes the
result of.

As models of their own:

1. `RenditionCache`, `TuneTimeline`: the small tables of `live_stream.c`, with clocks
   that step back and late completions. Neither decides what is played.
2. `BufferShadow`: the estimators with 32- and 64-bit arithmetic, against reference
   definitions over bounded inputs. Today `StreamRing` takes any target they could return.
3. `PlayerPipeline` composed with `StreamRing`: today R's reads succeed as long as the stream is
   not stopped.
4. The media-playlist parser's effect on sequences, markers and the newest eight
   segments.

Left out for good: rendering, fonts, layout, pixel conversion and the platform layer (no
state the stream depends on); the inherited file player's menus, settings, subtitles
and file browser; `sync.c` (a recursive lock, seen as a mutex), `speaker.c` (whose slots
follow the DSP), the telemetry log (one thread appends); the network stack beyond
its results; FFmpeg and MVD themselves (external); and the files the Makefile does
not build (`UNUSED_CFILES`, `Makefile:46`). Most of the tree by lines is vendored
headers (`library/include`), such unbuilt files and the settings screens
(`system/sem.c`): the modules map the code that coordinates the threads of live
playback, which is a small part of those lines.
