---------------------------- MODULE PlayerPipeline -----------------------------
(***************************************************************************)
(* The playback of one live stream by source/video_player.c: the decode    *)
(* thread (D), its workers for reading (R), hardware video decoding (V)    *)
(* and conversion (C), the command queue of each and D's notification      *)
(* queue, with the screen, the speaker and the user around them.  The      *)
(* decoder of source/system/util/decoder.c is one session in MVD mode.     *)
(*                                                                         *)
(* A packet, a raw image and a texture are counted, not named.  What only  *)
(* a local file reaches (explorer, several video tracks, software          *)
(* decoding, subtitles) is left out; so are queues that run full.          *)
(***************************************************************************)
EXTENDS Integers, Sequences

CONSTANTS
  MaxCache,          \* DEF_DECODER_MAX_CACHE_PACKETS
  MaxRaw,            \* raw images of the MVD session, three in the code
  VIDEO_BUFFERS,     \* textures
  MaxAudio,          \* speaker buffers that make the speaker full
  RestartThreshold,  \* restart_playback_threshold, 48 by default
  MaxPlays,          \* bound: playbacks
  MaxEvents          \* bound: what the user and the environment do

ASSUME PlayerAssumption ==
  /\ MaxCache \in Nat /\ MaxCache >= 3
  /\ MaxRaw \in Nat /\ MaxRaw >= 3
  /\ VIDEO_BUFFERS \in Nat /\ VIDEO_BUFFERS >= 2
  /\ MaxAudio \in Nat \ {0}
  /\ RestartThreshold \in Nat /\ MaxPlays \in Nat /\ MaxEvents \in Nat

VARIABLES
  player,    \* state, RESUME_LATER, force_initial_autoplay, is_eof
  queue,     \* the four command queues and the notification queue n
  d,         \* decode thread: where it is, its two flags, the command it ends with
  r,         \* read packet thread: where it is
  v,         \* decode video thread: where it is, live_decode_failed
  c,         \* convert thread: where it is, should_convert
  dec,       \* the decoder session
  tex,       \* next_store_index, next_draw_index, total_rendered_frames > 0, has_presented_frame
  audio,     \* buffers the speaker still has to play
  env        \* budget, return_requested, stream asked to stop, thread_run, history

vars == <<player, queue, d, r, v, c, dec, tex, audio, env>>

Parsing == {"playing", "seeking", "pause", "buffering"}
States == Parsing \cup {"idle", "prepare_seeking"}
Stoppers == {"abort", "next", "shutdown"}
Aborted == [r |-> "r_aborted", c |-> "c_aborted", v |-> "v_aborted"]

ClosedDecoder == [open |-> FALSE, cached |-> 0, given |-> FALSE, packet |-> FALSE,
                  raw |-> 0, poisoned |-> FALSE]
NoTexture == [store |-> 0, draw |-> 0, rendered |-> FALSE, presented |-> FALSE]

Init ==
  /\ player = [state |-> "idle", resume |-> FALSE, autoplay |-> FALSE, eof |-> FALSE]
  /\ queue = [d |-> <<>>, r |-> <<>>, v |-> <<>>, c |-> <<>>, n |-> <<>>]
  /\ d = [pc |-> "command", reading |-> FALSE, waiting |-> FALSE, ending |-> "none"]
  /\ r = "idle"
  /\ v = [pc |-> "idle", failed |-> FALSE]
  /\ c = [pc |-> "idle", convert |-> FALSE]
  /\ dec = ClosedDecoder /\ tex = NoTexture /\ audio = 0
  /\ env = [left |-> MaxEvents, plays |-> 0, return |-> FALSE, stop |-> FALSE, run |-> TRUE,
            shutdown |-> FALSE, sought |-> FALSE]

(* What a queue holds of some kind of message: any, or one at most.         *)
Some(s, E) == \E i \in DOMAIN s : s[i] \in E
Once(s, E) == \A i, j \in DOMAIN s : s[i] \in E /\ s[j] \in E => i = j

Queued(q, e) == Some(queue[q], {e})

(* Util_queue_add with the options the player uses.                         *)
Put(q, k, e) == [q EXCEPT ![k] = Append(@, e)]
PutFirst(q, k, e) == [q EXCEPT ![k] = <<e>> \o @]
PutOnce(q, k, e) == IF Some(q[k], {e}) THEN q ELSE Put(q, k, e)
Take(q, k) == [q EXCEPT ![k] = Tail(@)]

(* A user's or an environment's event uses up one unit of the budget.       *)
Pays == env.left > 0
Paid == [env EXCEPT !.left = @ - 1]

-----------------------------------------------------------------------------
(* The user, the host and the screen                                        *)

(* Vid_prepare_and_start_file, for a stream that has just been started.     *)
Play ==
  /\ env.plays < MaxPlays /\ ~env.shutdown
  /\ player.state = "idle" /\ ~Queued("d", "play")
  /\ player' = [player EXCEPT !.autoplay = TRUE]
  /\ env' = [env EXCEPT !.plays = @ + 1, !.return = FALSE, !.stop = FALSE]
  /\ queue' = Put(queue, "d", "play")
  /\ UNCHANGED <<d, r, v, c, dec, tex, audio>>

AbortFirst == IF Queued("d", "abort") THEN queue ELSE PutFirst(queue, "d", "abort")

(* B, L, R, a station of the drawer or a startup stage past its deadline.   *)
AskReturn ==
  /\ Pays /\ player.state # "idle" /\ ~env.return
  /\ env' = [Paid EXCEPT !.return = TRUE, !.stop = TRUE]
  /\ queue' = AbortFirst
  /\ UNCHANGED <<player, d, r, v, c, dec, tex, audio>>

(* Every scan keeps one abort queued until the player is idle.              *)
KeepAborting ==
  /\ env.return
  /\ IF player.state = "idle"
       THEN env' = [env EXCEPT !.return = FALSE] /\ UNCHANGED queue
       ELSE queue' = AbortFirst /\ UNCHANGED env
  /\ UNCHANGED <<player, d, r, v, c, dec, tex, audio>>

(* The full-screen play and pause key, by what the player is heading for;   *)
(* to undo a pause costs nothing.                                           *)
Toggle ==
  /\ ~env.return /\ player.state # "idle"
  /\ IF player.state = "playing" \/ (player.state # "pause" /\ player.resume)
       THEN Pays /\ queue' = PutOnce(queue, "d", "pause") /\ env' = Paid
       ELSE ~Queued("d", "resume") /\ queue' = Put(queue, "d", "resume") /\ UNCHANGED env
  /\ UNCHANGED <<player, d, r, v, c, dec, tex, audio>>

AskSeek ==
  /\ Pays /\ ~env.return /\ player.state # "idle"
  /\ queue' = Put(queue, "d", "seek")
  /\ env' = [Paid EXCEPT !.sought = TRUE]
  /\ UNCHANGED <<player, d, r, v, c, dec, tex, audio>>

(* Vid_exit_thread up to the joins.                                         *)
Shutdown ==
  /\ Pays /\ ~env.shutdown
  /\ env' = [Paid EXCEPT !.shutdown = TRUE, !.stop = TRUE]
  /\ queue' = PutFirst(queue, "d", "shutdown")
  /\ UNCHANGED <<player, d, r, v, c, dec, tex, audio>>

(* The part of Vid_main that turns to the next texture.  The A/V gate holds *)
(* back one that is early for the sound, but never the first of a playback. *)
Draw(early) ==
  /\ player.state = "playing" /\ tex.draw # tex.store
  /\ ~(early /\ tex.presented /\ audio > 0)
  /\ tex' = [tex EXCEPT !.draw = (@ + 1) % VIDEO_BUFFERS, !.presented = TRUE]
  /\ UNCHANGED <<player, queue, d, r, v, c, dec, audio, env>>

Speaker ==
  /\ player.state = "playing" /\ audio > 0
  /\ audio' = audio - 1
  /\ UNCHANGED <<player, queue, d, r, v, c, dec, tex, env>>

-----------------------------------------------------------------------------
(* The decode thread.  One iteration takes a command, then a notification,  *)
(* then parses a packet; a queue that is empty is passed over.              *)

AtCommand == d.pc = "command" /\ queue.d # <<>>
AtNotification ==
  /\ d.pc = "notify" \/ (d.pc = "command" /\ queue.d = <<>>)
  /\ queue.n # <<>>
AtParse ==
  \/ d.pc = "parse"
  \/ d.pc = "notify" /\ queue.n = <<>>
  \/ d.pc = "command" /\ queue.d = <<>> /\ queue.n = <<>>

Goes(pc) == d' = [d EXCEPT !.pc = pc]

(* Mutant of NotWaiting: the flag of the last playback is kept.             *)
StillWaiting == [d EXCEPT !.reading = FALSE]

(* D's two flags, cleared in its PLAY case.                                 *)
NotWaiting == [d EXCEPT !.reading = FALSE, !.waiting = FALSE]

(* PLAY: the state is PLAYING before the file is opened.                    *)
BeginPlay ==
  /\ AtCommand /\ Head(queue.d) = "play" /\ player.state = "idle"
  /\ queue' = Take(queue, "d")
  /\ player' = [player EXCEPT !.state = "playing", !.resume = FALSE, !.eof = FALSE]
  /\ d' = [NotWaiting EXCEPT !.pc = "opens"]
  /\ tex' = NoTexture
  /\ UNCHANGED <<r, v, c, dec, audio, env>>

Opened ==
  /\ d.pc = "opens"
  /\ dec' = [dec EXCEPT !.open = TRUE]
  /\ player' = IF Queued("d", "seek") THEN player
               ELSE [player EXCEPT !.state = "buffering", !.resume = TRUE]
  /\ queue' = Put(Put(queue, "r", "read"), "c", "convert")
  /\ d' = [d EXCEPT !.pc = "notify", !.reading = TRUE]
  /\ UNCHANGED <<r, v, c, tex, audio, env>>

(* The input does not open, or the file is open and MVD does not start.     *)
OpenFails ==
  /\ d.pc = "opens" /\ Pays
  /\ \E opened \in BOOLEAN : dec' = [dec EXCEPT !.open = opened]
  /\ queue' = PutFirst(queue, "d", "abort")
  /\ Goes("command") /\ env' = Paid
  /\ UNCHANGED <<player, r, v, c, tex, audio>>

Pause ==
  /\ AtCommand /\ Head(queue.d) = "pause"
  /\ queue' = Take(queue, "d") /\ Goes("notify")
  /\ player' =
       CASE player.state = "playing" -> [player EXCEPT !.state = "pause"]
         [] player.state \in {"idle", "pause"} -> player
         [] OTHER -> [player EXCEPT !.resume = FALSE]
  /\ UNCHANGED <<r, v, c, dec, tex, audio, env>>

Resume ==
  /\ AtCommand /\ Head(queue.d) = "resume"
  /\ queue' = Take(queue, "d") /\ Goes("notify")
  /\ player' =
       CASE player.state = "pause" -> [player EXCEPT !.state = "playing"]
         [] player.state \in {"idle", "playing"} -> player
         [] OTHER -> [player EXCEPT !.resume = TRUE]
  /\ UNCHANGED <<r, v, c, dec, tex, audio, env>>

Seek ==
  /\ AtCommand /\ Head(queue.d) = "seek"
  /\ Goes("notify")
  /\ CASE player.state = "idle" ->
            queue' = Take(queue, "d") /\ UNCHANGED <<player, audio>>
       [] player.state = "prepare_seeking" ->
            queue' = PutOnce(Take(queue, "d"), "d", "seek") /\ UNCHANGED <<player, audio>>
       [] OTHER ->
            /\ player' = [player EXCEPT !.state = "prepare_seeking", !.eof = FALSE,
                 !.resume = (player.state = "playing") \/ (@ /\ player.state # "pause")]
            /\ queue' = Put(Take(queue, "d"), "r", "seek")
            /\ audio' = 0
  /\ UNCHANGED <<r, v, c, dec, tex, env>>

(* PLAY_NEXT, ABORT and SHUTDOWN: an idle player has nothing to release.    *)
StopIdle ==
  /\ AtCommand /\ Head(queue.d) \in Stoppers /\ player.state = "idle"
  /\ queue' = Take(queue, "d")
  /\ player' = [player EXCEPT !.resume = FALSE]
  /\ LET last == Head(queue.d) = "shutdown" IN
       /\ Goes(IF last THEN "exited" ELSE "notify")
       /\ env' = [env EXCEPT !.run = @ /\ ~last]
  /\ UNCHANGED <<r, v, c, dec, tex, audio>>

(* Vid_abort_worker, worker by worker: the request goes to the front ...    *)
BeginStop ==
  /\ AtCommand /\ Head(queue.d) \in Stoppers /\ player.state # "idle"
  /\ queue' = PutFirst(Take(queue, "d"), "r", "abort")
  /\ d' = [d EXCEPT !.pc = "r", !.ending = Head(queue.d)]
  /\ env' = [env EXCEPT !.stop = TRUE]
  /\ UNCHANGED <<player, r, v, c, dec, tex, audio>>

(* Mutant of Answered: any notification will do.                            *)
AnsweredByAny(w) == TRUE

(* ... and every notification but the expected one is thrown away.          *)
Answered(w) == Head(queue.n) = Aborted[w]
AwaitWorker ==
  /\ d.pc \in {"r", "c", "v"} /\ queue.n # <<>>
  /\ LET rest == Take(queue, "n")
         next == [r |-> "c", c |-> "v", v |-> "closes"][d.pc] IN
       IF ~Answered(d.pc) THEN queue' = rest /\ UNCHANGED d
       ELSE /\ Goes(next)
            /\ queue' = IF next = "closes" THEN rest ELSE PutFirst(rest, next, "abort")
  /\ UNCHANGED <<player, r, v, c, dec, tex, audio, env>>

(* No answer within VID_WORKER_ABORT_TIMEOUT_MS, from a worker that is      *)
(* still inside a call: all threads leave their loops, and everything a     *)
(* worker may still use is kept.                                            *)
Busy == [r |-> r # "idle", v |-> v.pc # "idle", c |-> c.pc # "idle"]
AbortTimesOut ==
  /\ d.pc \in {"r", "c", "v"} /\ Busy[d.pc]
  /\ env' = [env EXCEPT !.run = FALSE, !.stop = TRUE]
  /\ player' = [player EXCEPT !.state = "idle"]
  /\ Goes("exited")
  /\ UNCHANGED <<queue, r, v, c, dec, tex, audio>>

(* Speaker, textures, decoder session and packet buffer are released.       *)
CloseFile ==
  /\ d.pc = "closes"
  /\ dec' = ClosedDecoder /\ audio' = 0
  /\ player' = [player EXCEPT !.state = "idle", !.resume = FALSE, !.autoplay = FALSE]
  /\ LET last == d.ending = "shutdown" IN
       /\ d' = [d EXCEPT !.pc = IF last THEN "exited" ELSE "notify", !.ending = "none"]
       /\ env' = [env EXCEPT !.run = @ /\ ~last]
  /\ UNCHANGED <<queue, r, v, c, tex>>

(* What a notification changes.  The flags belong to D alone.               *)
FinishBuffering ==
  IF player.state # "buffering" THEN player
  ELSE IF player.autoplay \/ player.resume
    THEN [player EXCEPT !.state = "playing", !.autoplay = FALSE, !.resume = FALSE]
    ELSE [player EXCEPT !.state = "pause"]

OutOfBuffer ==
  IF player.state \notin {"playing", "pause"} \/ (player.eof /\ dec.cached = 0) THEN player
  ELSE [player EXCEPT !.state = "buffering", !.resume = player.state = "playing"]

Notified ==
  /\ AtNotification
  /\ LET note == Head(queue.n)
         rest == Take(queue, "n")
         preparing == player.state = "prepare_seeking" IN
     /\ queue' = IF note = "sought" /\ preparing THEN Put(rest, "v", "clear") ELSE rest
     /\ \/ /\ note = "buffered" /\ player' = FinishBuffering
        \/ /\ note = "out_of_buffer" /\ player' = OutOfBuffer
        \/ /\ note = "read_eof" /\ player' = [player EXCEPT !.eof = TRUE]
        \/ /\ note = "cleared"
           /\ player' = IF preparing THEN [player EXCEPT !.state = "seeking"] ELSE player
        \/ /\ note \notin {"buffered", "out_of_buffer", "read_eof", "cleared"}
           /\ UNCHANGED player
     /\ d' = [d EXCEPT !.pc = "parse",
                       !.reading = @ /\ note \notin {"read_done", "read_eof"},
                       !.waiting = @ /\ note # "copied"]
  /\ UNCHANGED <<r, v, c, dec, tex, audio, env>>

(* Mutant of Asks: R is asked again while it still reads.                   *)
AsksAgain == dec.cached < MaxCache \div 2 /\ ~player.eof

(* The parse section: how far the pipeline is filled decides whether D asks *)
(* R for more, ends the buffering, waits, or hands on one packet.           *)
Asks == dec.cached < MaxCache \div 2 /\ ~d.reading /\ ~player.eof
Asked == IF Asks THEN Put(queue, "r", "read") ELSE queue
Consumed == dec.cached = 0 /\ player.eof
SpeakerFull == audio >= MaxAudio

(* Nothing to hand on: the stream is used up, V still has the last packet,  *)
(* the speaker is full or memory is short while raw images wait.            *)
Stalls ==
  /\ AtParse /\ player.state \in Parsing
  /\ \E low_memory \in BOOLEAN :
       LET full == ~d.waiting /\ (SpeakerFull \/ (low_memory /\ dec.raw > 0)) IN
       /\ Consumed \/ d.waiting \/ full \/ dec.cached = 0
       /\ queue' = CASE player.state = "buffering" /\ (Consumed \/ full) ->
                          Put(Asked, "n", "buffered")
                     [] Consumed /\ player.state # "buffering" /\ audio = 0 /\ dec.raw = 0 ->
                          Put(Asked, "d", "next")
                     [] OTHER -> Asked
  /\ d' = [d EXCEPT !.pc = "command", !.reading = @ \/ Asks]
  /\ UNCHANGED <<player, r, v, c, dec, tex, audio, env>>

CanHandOn ==
  AtParse /\ player.state \in Parsing /\ dec.cached > 0 /\ ~d.waiting /\ ~SpeakerFull

HandsOnVideo ==
  /\ CanHandOn
  /\ dec' = [dec EXCEPT !.cached = @ - 1, !.given = TRUE]
  /\ \E reached \in BOOLEAN :
       player' = IF player.state = "seeking" /\ reached
                   THEN [player EXCEPT !.state = "buffering"] ELSE player
  /\ queue' = Put(Asked, "v", "decode")
  /\ d' = [d EXCEPT !.pc = "command", !.reading = @ \/ Asks, !.waiting = TRUE]
  /\ UNCHANGED <<r, v, c, tex, audio, env>>

HandsOnAudio ==
  /\ CanHandOn
  /\ dec' = [dec EXCEPT !.cached = @ - 1]
  /\ audio' = IF player.state = "seeking" THEN audio ELSE audio + 1
  /\ queue' = Asked
  /\ d' = [d EXCEPT !.pc = "command", !.reading = @ \/ Asks]
  /\ UNCHANGED <<player, r, v, c, tex, env>>

NothingToParse ==
  /\ AtParse /\ player.state \notin Parsing
  /\ Goes("command")
  /\ UNCHANGED <<player, queue, r, v, c, dec, tex, audio, env>>

DecodeThread ==
  \/ BeginPlay \/ Opened \/ OpenFails \/ Pause \/ Resume \/ Seek
  \/ StopIdle \/ BeginStop \/ AwaitWorker \/ CloseFile
  \/ Notified \/ Stalls \/ HandsOnVideo \/ HandsOnAudio \/ NothingToParse

-----------------------------------------------------------------------------
(* The read packet thread                                                   *)

ReadCommand ==
  /\ env.run /\ r = "idle" /\ queue.r # <<>>
  /\ LET event == Head(queue.r) IN
     \/ /\ event = "abort"
        /\ queue' = Put([queue EXCEPT !.r = <<>>], "n", "r_aborted")
        /\ UNCHANGED r
     \/ /\ event # "abort"
        /\ queue' = Take(queue, "r")
        /\ r' = IF player.state = "idle" THEN r
                ELSE IF event = "read" THEN "reads" ELSE "seeks"
  /\ UNCHANGED <<player, d, v, c, dec, tex, audio, env>>

(* The ring of packets keeps one place unused.                              *)
CacheHasRoom == dec.cached + 1 < MaxCache

(* One av_read_frame that brought a packet: after a stop too, while the I/O *)
(* buffer still holds some.                                                 *)
ReadPacket ==
  /\ r = "reads" /\ CacheHasRoom
  /\ dec' = [dec EXCEPT !.cached = @ + 1]
  /\ IF dec.cached + 2 >= MaxCache \/ Queued("r", "seek") \/ Queued("r", "abort")
       THEN r' = "idle" /\ queue' = Put(queue, "n", "read_done")
       ELSE UNCHANGED <<r, queue>>
  /\ UNCHANGED <<player, d, v, c, tex, audio, env>>

(* The stream ends, or the stop of the live stream fails the read.          *)
ReadEnds ==
  /\ r = "reads" /\ (env.stop \/ Pays)
  /\ env' = IF env.stop THEN env ELSE Paid
  /\ queue' = Put(queue, "n", "read_eof") /\ r' = "idle"
  /\ UNCHANGED <<player, d, v, c, dec, tex, audio>>

(* Util_decoder_seek fails on a live stream; the cache is cleared anyway.   *)
SeekPackets ==
  /\ r = "seeks"
  /\ dec' = [dec EXCEPT !.cached = 0]
  /\ queue' = Put(queue, "n", "sought") /\ r' = "idle"
  /\ UNCHANGED <<player, d, v, c, tex, audio, env>>

ReadThread == ReadCommand \/ ReadPacket \/ (env.stop /\ ReadEnds) \/ SeekPackets

-----------------------------------------------------------------------------
(* The decode video thread                                                  *)

Interrupted == Queued("v", "clear") \/ Queued("v", "abort")

(* A fatal MVD result asks for the teardown unless one is under way.        *)
Fatal ==
  /\ v' = [pc |-> "idle", failed |-> TRUE]
  /\ LET spent == IF Pays THEN Paid ELSE env IN
     IF v.failed \/ env.return \/ Queued("v", "abort")
       THEN env' = spent /\ UNCHANGED queue
       ELSE /\ env' = [spent EXCEPT !.stop = TRUE, !.return = TRUE]
            /\ queue' = PutFirst(queue, "d", "abort")

(* Util_decoder_ready_video_packet, or the skip of a packet V cannot take.  *)
TakePacket ==
  /\ env.run /\ v.pc = "idle" /\ queue.v # <<>> /\ Head(queue.v) = "decode"
  /\ IF player.state = "idle"
       THEN queue' = Take(queue, "v") /\ UNCHANGED <<v, dec>>
       ELSE LET takes == ~v.failed /\ dec.given /\ ~dec.packet IN
            /\ queue' = Put(Take(queue, "v"), "n", "copied")
            /\ dec' = [dec EXCEPT !.given = FALSE, !.packet = @ \/ takes]
            /\ v' = [v EXCEPT !.pc = IF takes THEN "decodes" ELSE "idle"]
  /\ UNCHANGED <<player, d, r, c, tex, audio, env>>

(* Mutant of RawFull: the ring of raw images is filled to the last.         *)
RawFullLate == dec.raw >= MaxRaw

(* The ring of raw images keeps one place unused.                           *)
RawFull == dec.raw + 1 >= MaxRaw

(* One Util_decoder_mvd_decode: the packet waits for room, or gives a       *)
(* picture.  A packet that gives several is a packet more.                  *)
Outcome ==
  IF ~dec.packet \/ RawFull THEN <<"TRY_AGAIN", dec>>
  ELSE <<"SUCCESS", [dec EXCEPT !.raw = @ + 1, !.packet = FALSE]>>

Refused == [dec EXCEPT !.packet = FALSE]
Poisoned == [dec EXCEPT !.packet = FALSE, !.poisoned = TRUE]

Decode ==
  /\ v.pc = "decodes"
  /\ IF dec.poisoned THEN Fatal /\ UNCHANGED dec
     ELSE /\ dec' = Outcome[2]
          /\ v' = IF Outcome[1] = "SUCCESS" \/ Interrupted THEN [v EXCEPT !.pc = "idle"] ELSE v
          /\ UNCHANGED <<queue, env>>
  /\ UNCHANGED <<player, d, r, c, tex, audio>>

(* A damaged access unit, or one that gives no picture.                     *)
DecodeNeedsMore ==
  /\ v.pc = "decodes" /\ ~dec.poisoned /\ dec.packet /\ ~RawFull /\ Pays
  /\ dec' = Refused /\ v' = [v EXCEPT !.pc = "idle"] /\ env' = Paid
  /\ UNCHANGED <<player, queue, d, r, c, tex, audio>>

DecodeFails ==
  /\ v.pc = "decodes" /\ ~dec.poisoned /\ dec.packet /\ ~RawFull /\ Pays
  /\ dec' = Poisoned /\ Fatal
  /\ UNCHANGED <<player, d, r, c, tex, audio>>

(* CLEAR_CACHE: decode what the session holds, then pass the request on.    *)
BeginFlush ==
  /\ env.run /\ v.pc = "idle" /\ queue.v # <<>> /\ Head(queue.v) = "clear"
  /\ IF player.state = "idle" \/ ~v.failed
       THEN /\ queue' = Take(queue, "v")
            /\ v' = [v EXCEPT !.pc = IF player.state = "idle" THEN "idle" ELSE "flushes"]
       ELSE queue' = Put(Take(queue, "v"), "c", "clear") /\ UNCHANGED v
  /\ UNCHANGED <<player, d, r, c, dec, tex, audio, env>>

Flush ==
  /\ v.pc = "flushes"
  /\ \E o \in IF dec.poisoned THEN {<<"OTHER", dec>>}
              ELSE {Outcome} \cup (IF dec.packet /\ ~RawFull /\ Pays
                                    THEN {<<"OTHER", Refused>>, <<"OTHER", Poisoned>>} ELSE {}) :
       /\ dec' = o[2]
       /\ env' = IF o[1] = "OTHER" /\ ~dec.poisoned THEN Paid ELSE env
       /\ IF o[1] = "SUCCESS" THEN UNCHANGED <<v, queue>>
          ELSE v' = [v EXCEPT !.pc = "idle"] /\ queue' = Put(queue, "c", "clear")
  /\ UNCHANGED <<player, d, r, c, tex, audio>>

AbortVideo ==
  /\ env.run /\ v.pc = "idle" /\ queue.v # <<>> /\ Head(queue.v) = "abort"
  /\ queue' = Put([queue EXCEPT !.v = <<>>], "n", "v_aborted")
  /\ v' = [v EXCEPT !.failed = FALSE]
  /\ UNCHANGED <<player, d, r, c, dec, tex, audio, env>>

VideoThread ==
  TakePacket \/ Decode \/ BeginFlush \/ Flush \/ AbortVideo

-----------------------------------------------------------------------------
(* The convert thread                                                       *)

ConvertCommand ==
  /\ env.run /\ c.pc = "idle" /\ queue.c # <<>>
  /\ LET event == Head(queue.c) IN
     \/ /\ event = "abort"
        /\ queue' = Put([queue EXCEPT !.c = <<>>], "n", "c_aborted")
        /\ c' = [c EXCEPT !.convert = FALSE]
     \/ /\ event # "abort"
        /\ queue' = Take(queue, "c")
        /\ c' = IF player.state = "idle" THEN c
                ELSE IF event = "clear" THEN [c EXCEPT !.pc = "clears"]
                ELSE [c EXCEPT !.convert = TRUE]
  /\ UNCHANGED <<player, d, r, v, dec, tex, audio, env>>

ClearRawImages ==
  /\ c.pc = "clears"
  /\ dec' = IF dec.poisoned THEN dec ELSE [dec EXCEPT !.raw = 0]
  /\ queue' = Put(queue, "n", "cleared")
  /\ c' = [c EXCEPT !.pc = "idle"]
  /\ UNCHANGED <<player, d, r, v, tex, audio, env>>

Converting ==
  /\ env.run /\ c.pc = "idle" /\ c.convert
  /\ player.state \notin {"idle", "prepare_seeking"}

Pending == (tex.store + VIDEO_BUFFERS - tex.draw) % VIDEO_BUFFERS

(* Mutant of RingFull: all textures may wait to be drawn.                   *)
RingFullLate == Pending >= VIDEO_BUFFERS

RingFull == Pending + 1 >= VIDEO_BUFFERS
RunDry == ~player.eof /\ dec.raw = 0 /\ audio = 0

(* A frame the screen is too late for; before the first texture of a live   *)
(* stream there is no such frame.                                           *)
MayDrop == tex.rendered /\ Pays
(* ... and seeking shows none.                                              *)
SkipImage ==
  /\ Converting /\ dec.raw > 0
  /\ player.state = "seeking" \/ MayDrop
  /\ dec' = [dec EXCEPT !.raw = @ - 1]
  /\ env' = IF player.state = "seeking" THEN env ELSE Paid
  /\ UNCHANGED <<player, queue, d, r, v, c, tex, audio>>

ReportsOutOfBuffer ==
  /\ Converting /\ player.state = "playing" /\ RunDry
  /\ queue' = PutOnce(queue, "n", "out_of_buffer")
  /\ UNCHANGED <<player, d, r, v, c, dec, tex, audio, env>>

(* Util_decoder_mvd_get_image, then the texture is written.                 *)
TakeImage ==
  /\ Converting /\ player.state = "playing" /\ dec.raw > 0 /\ ~RingFull
  /\ dec' = [dec EXCEPT !.raw = @ - 1]
  /\ c' = [c EXCEPT !.pc = "stores"]
  /\ UNCHANGED <<player, queue, d, r, v, tex, audio, env>>

StoreTexture ==
  /\ c.pc = "stores"
  /\ c' = [c EXCEPT !.pc = "idle"]
  /\ tex' = [tex EXCEPT !.store = (@ + 1) % VIDEO_BUFFERS, !.rendered = TRUE]
  /\ UNCHANGED <<player, queue, d, r, v, dec, audio, env>>

(* Mutant of EffectiveThreshold: the setting is taken as it is.             *)
SetThreshold == RestartThreshold

(* Vid_get_effective_restart_threshold: MVD can queue MaxRaw - 1 images.    *)
EffectiveThreshold ==
  IF RestartThreshold = 0 \/ RestartThreshold > MaxRaw - 1 THEN MaxRaw - 1
  ELSE RestartThreshold
FirstTextureReady == ~env.return /\ ~tex.presented /\ tex.rendered

ReportsBuffered ==
  /\ Converting /\ player.state = "buffering"
  /\ FirstTextureReady \/ dec.raw >= EffectiveThreshold \/ SpeakerFull
  /\ queue' = PutOnce(queue, "n", "buffered")
  /\ UNCHANGED <<player, d, r, v, c, dec, tex, audio, env>>

ConvertThread ==
  ConvertCommand \/ ClearRawImages \/ ReportsOutOfBuffer \/ TakeImage \/ StoreTexture
  \/ ReportsBuffered \/ (player.state = "seeking" /\ SkipImage)

-----------------------------------------------------------------------------
Environment ==
  \/ Play \/ AskReturn \/ Toggle \/ AskSeek \/ Shutdown
  \/ OpenFails \/ AbortTimesOut \/ ReadEnds \/ DecodeNeedsMore \/ DecodeFails \/ SkipImage

Next ==
  \/ Environment \/ KeepAborting \/ (\E early \in BOOLEAN : Draw(early)) \/ Speaker
  \/ DecodeThread \/ ReadThread \/ VideoThread \/ ConvertThread

(* Every thread runs on; the stream carries packets as long as it is not    *)
(* stopped, and a video packet again and again.  The screen is only sure to *)
(* draw what the A/V gate lets through at its strictest.                    *)
Fairness ==
  /\ WF_vars(DecodeThread) /\ SF_vars(HandsOnVideo)
  /\ WF_vars(ReadThread)
  /\ WF_vars(VideoThread)
  /\ WF_vars(ConvertThread) /\ WF_vars(ConvertCommand)
  /\ WF_vars(KeepAborting) /\ WF_vars(Draw(TRUE)) /\ WF_vars(Speaker)

Spec == Init /\ [][Next]_vars /\ Fairness

-----------------------------------------------------------------------------
Requests == {"play", "pause", "resume", "seek"} \cup Stoppers
ReadRequests == {"read", "seek", "abort"}
VideoRequests == {"decode", "clear", "abort"}
ConvertRequests == {"convert", "clear", "abort"}
ReadAnswers == {"read_done", "read_eof"}
Notes ==
  ReadAnswers \cup {"r_aborted", "c_aborted", "v_aborted", "copied", "sought", "cleared",
                   "buffered", "out_of_buffer"}

Queues ==
  [d : Seq(Requests), r : Seq(ReadRequests), v : Seq(VideoRequests), c : Seq(ConvertRequests),
   n : Seq(Notes)]

PlayerData == [state : States, resume : BOOLEAN, autoplay : BOOLEAN, eof : BOOLEAN]

Loop == {"command", "notify", "parse"}
Decoding ==
  [pc : Loop \cup {"opens", "r", "c", "v", "closes", "exited"},
   reading : BOOLEAN, waiting : BOOLEAN, ending : Stoppers \cup {"none"}]

Decoders ==
  [open : BOOLEAN, cached : 0 .. MaxCache - 1, given : BOOLEAN, packet : BOOLEAN,
   raw : 0 .. MaxRaw - 1, poisoned : BOOLEAN]

Textures ==
  [store : 0 .. VIDEO_BUFFERS - 1, draw : 0 .. VIDEO_BUFFERS - 1,
   rendered : BOOLEAN, presented : BOOLEAN]

Environments ==
  [left : 0 .. MaxEvents, plays : 0 .. MaxPlays, return : BOOLEAN, stop : BOOLEAN,
   run : BOOLEAN, shutdown : BOOLEAN, sought : BOOLEAN]

(* Types, with the bounds the threads keep together: the packet cache and   *)
(* the raw images leave one place unused, the speaker gets no more than it  *)
(* takes, and every queue holds what its thread understands.                *)
TypeOK ==
  /\ player \in PlayerData
  /\ queue \in Queues
  /\ d \in Decoding
  /\ r \in {"idle", "reads", "seeks"}
  /\ v \in [pc : {"idle", "decodes", "flushes"}, failed : BOOLEAN]
  /\ c \in [pc : {"idle", "clears", "stores"}, convert : BOOLEAN]
  /\ dec \in Decoders
  /\ tex \in Textures
  /\ audio \in 0 .. MaxAudio
  /\ env \in Environments

(* When D releases the session, the textures and the packet buffer, no      *)
(* worker is inside a call that uses them, none has a command left that     *)
(* would start one, and C has stopped converting.  The clear of the raw     *)
(* images that a late V may have forwarded to C is left out: see the README.*)
QuietTeardown ==
  d.pc = "closes" => /\ r = "idle" /\ v.pc = "idle" /\ c.pc # "stores"
                     /\ ~c.convert /\ queue.v = <<>>

(* The loop of D with a file open.                                          *)
Playing == player.state # "idle" /\ d.pc \in Loop

(* is_waiting_video_decoder is exact: while a playback lasts, a packet is   *)
(* on its way to V, or V's answer on its way back, if and only if D waits.  *)
(* A stale answer would let D overwrite the packet V decodes; a lost one    *)
(* would stop the stream for good.                                          *)
OnePacketInFlight ==
  Playing =>
    LET sent == Some(queue.v, {"decode"})
        back == Some(queue.n, {"copied"})
    IN /\ d.waiting <=> sent \/ back
       /\ ~(sent /\ back)
       /\ Once(queue.v, {"decode"}) /\ Once(queue.n, {"copied"})

(* is_read_packet_thread_active is exact: while a playback lasts, R has been *)
(* asked for packets, is reading, or has answered, if and only if the flag   *)
(* is set, and only one of these.  A flag that outlives its answer would     *)
(* starve the playback; a request too many would have R read unasked.        *)
OneReadInFlight ==
  Playing =>
    LET asked == Some(queue.r, {"read"})
        reads == r = "reads"
        back == Some(queue.n, ReadAnswers)
    IN /\ d.reading <=> asked \/ reads \/ back
       /\ ~(asked /\ reads) /\ ~(asked /\ back) /\ ~(reads /\ back)
       /\ Once(queue.r, {"read"}) /\ Once(queue.n, ReadAnswers)

(* C never writes the texture that the screen shows.                        *)
Displayed == (tex.draw + VIDEO_BUFFERS - 1) % VIDEO_BUFFERS
DisplayedKept == c.pc = "stores" => tex.store # Displayed

(* "Flush the decoder": once C has cleared the raw images for a seek, the   *)
(* decoder holds no packet of the time before it.                           *)
FlushedBeforeSeeking ==
  player.state = "prepare_seeking" /\ Queued("n", "cleared") => ~dec.packet

(* A playback that opens, buffers or has been told to stop does not hang: it *)
(* comes to be idle, or, with no stop asked for, to be paused or to show a   *)
(* picture and play on.  So a stop gets through to every worker whatever it  *)
(* is doing, with no need for the time-out; the threshold that ends the      *)
(* buffering is one the raw images can reach; and the first texture, the     *)
(* buffering that waits for it and the speaker that holds D back do not wait *)
(* for each other.  After a seek it may not: see FlushedBeforeSeeking.       *)
Stopping ==
  d.pc \in {"r", "c", "v", "closes"} \/ \E e \in Stoppers : Queued("d", e)
Settled ==
  \/ player.state = "idle"
  \/ /\ ~Stopping
     /\ \/ player.state = "pause" \/ env.sought
        \/ tex.presented /\ player.state # "buffering"
Settles == (d.pc = "opens" \/ player.state = "buffering" \/ Stopping) ~> Settled
=============================================================================
