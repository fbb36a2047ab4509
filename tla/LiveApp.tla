-------------------------------- MODULE LiveApp --------------------------------
(***************************************************************************)
(* The controller of source/miniiptv/live_app.c.  Four threads meet in it: *)
(* the HID thread, the draw (main) thread, the worker that tunes, and the  *)
(* decode thread of the player that calls back.  A section under app.lock  *)
(* is one action; anything may happen between two sections.  A scan of the *)
(* HID thread or a frame of the draw thread whose sections find nothing to *)
(* do is a stutter, so each section that does something starts from idle.  *)
(*                                                                         *)
(* The stream (StreamLifecycle) and the player are seen through what the   *)
(* controller does to them.  Which channel is selected or tuned is left    *)
(* out, like texts, cursors and pages: no decision below depends on it.    *)
(***************************************************************************)
EXTENDS Integers, Sequences, FiniteSets

CONSTANTS
  Scans,             \* sources that give a channel when they are scanned
  AUTO_RELOCK_MAX_ATTEMPTS,   \* 2
  MaxEvents          \* bound: keys the app acts on (but B when it opens the
                     \* drawer, and L or R on the error screen), START, and
                     \* failures of threads, network, stream and player, together

UI == {"hid", "draw"}
Workers == {"w1", "w2"}     \* two identities: enough to see a second thread
NoWorker == "none"
Buttons == {"A", "B", "LR", "PAD"}

ASSUME LiveAppAssumption ==
  /\ AUTO_RELOCK_MAX_ATTEMPTS \in Nat
  /\ Scans \in Nat /\ MaxEvents \in Nat

VARIABLES
  app,      \* the fields of `app' that steer the controller
  stream,   \* the one stream session, and whether its producer thread runs
  player,   \* the player's state, command queue and whether its return
            \* generation has moved since the hand-over noted it
  wk,       \* the tune workers: pc and result
  ui,       \* per UI thread: pc and the locals it carries between sections
  scan,     \* the scanner: its handle, flags and thread
  env       \* the B button as the HID thread last saw it; events left

vars == <<app, stream, player, wk, ui, scan, env>>

NoStream == [phase |-> "none", stop |-> FALSE, producing |-> FALSE, error |-> "none"]

(* What a UI thread carries from one section to the next: the button it     *)
(* handles, the action a playback return asks for with what it found in the *)
(* stream, where to go on after a launch, and what it has to join.          *)
Idle == [pc |-> "idle", button |-> "none", act |-> "none", error |-> "none",
         unsafe |-> FALSE, then |-> "idle", joins |-> FALSE, worker |-> NoWorker]

Init ==
  /\ app = [state |-> "idle", worker |-> NoWorker, finished |-> FALSE, reaping |-> FALSE,
            launch_after_reap |-> FALSE, cancel_to_deck |-> FALSE,
            queued_tune |-> FALSE, cleanup |-> FALSE, awaiting |-> FALSE,
            step |-> FALSE, target |-> FALSE,
            switching |-> FALSE, unsafe |-> FALSE, relocks |-> 0,
            network_ready |-> FALSE, exit |-> FALSE]
  /\ stream = NoStream
  /\ player = [state |-> "idle", queue |-> <<>>, start_pending |-> FALSE,
               return_requested |-> FALSE, timed_out |-> FALSE, returned |-> FALSE,
               drawer |-> FALSE]
  /\ wk = [w \in Workers |-> [pc |-> "none", ok |-> FALSE]]
  /\ ui = [u \in UI |-> Idle]
  /\ scan = [thread |-> "init", handle |-> TRUE, finished |-> FALSE,
             stop |-> FALSE, complete |-> FALSE, left |-> Scans]
  /\ env = [b |-> "up", left |-> MaxEvents]

-----------------------------------------------------------------------------
(* Helpers of live_app.c and the calls it makes into the stream.            *)

(* set_status_locked *)
Status(a, s) == [a EXCEPT !.state = s, !.unsafe = FALSE]

ResetRelock(a) == [a EXCEPT !.relocks = 0]

DropIntent(a) == [a EXCEPT !.step = FALSE, !.target = FALSE, !.switching = FALSE]

(* The worker and the stream it stages give up when this holds.             *)
Interrupted == app.exit \/ app.cancel_to_deck \/ app.queued_tune

(* The tune of the selected channel, as every caller prepares it.           *)
Prepare(a) == Status(a, "loading")

(* Mutant of PrepareQueued: the request is still there for the next reaper. *)
PrepareQueuedAgain(a) == Prepare(a)

(* The reaper and the cleanup launch what A queued.                         *)
PrepareQueued(a) == Prepare([a EXCEPT !.queued_tune = FALSE])

(* A cancelled tune is over: the intent is consumed.                        *)
BackToDeck(a) == Status([a EXCEPT !.cancel_to_deck = FALSE, !.queued_tune = FALSE,
                                  !.step = FALSE, !.switching = FALSE], "idle")

WorkerKnown(a) == a.worker # NoWorker \/ a.reaping

(* miniiptv_live_stream_request_stop *)
RequestStop(s) == [s EXCEPT !.stop = @ \/ s.phase # "none"]

(* miniiptv_live_stream_stop returns: nobody stages, the producer has ended.*)
StreamJoined == stream.phase # "starting" /\ ~stream.producing

(* PLAYER_STATE_IDLE: also once a play request is taken and not begun, and  *)
(* when an abort is done and its return is not counted yet.                 *)
PlayerIdle == player.state \in {"idle", "taken", "back"}

(* DECODE_THREAD_ABORT_REQUEST to the front, unless it is queued already.   *)
AddAbort(p) ==
  [p EXCEPT !.queue = IF \E i \in DOMAIN @ : @[i] = "abort" THEN @
                      ELSE <<"abort">> \o @]

(* Something fails that need not.                                           *)
Fault == env.left > 0 /\ env' = [env EXCEPT !.left = @ - 1]

At(u, pc) == ui[u].pc = pc
Goto(u, pc) ==
  ui' = [ui EXCEPT ![u] = IF pc = "idle" THEN Idle ELSE [@ EXCEPT !.pc = pc]]

(* After a reap a scan with a button goes on to it (live_hid).              *)
AfterReap(u) == IF ui[u].button = "none" THEN "idle" ELSE "keys"

(* launch_tune_worker begins with stop_scan_worker, which detaches the      *)
(* scanner's handle under the lock; the join is outside.                    *)
Launch(u, then) ==
  /\ scan' = [scan EXCEPT !.stop = TRUE, !.handle = FALSE]
  /\ ui' = [ui EXCEPT ![u] = [Idle EXCEPT !.pc = "joinscan", !.joins = scan.handle,
                               !.then = then,
                               !.button = IF then = "keys" THEN ui[u].button ELSE "none"]]

-----------------------------------------------------------------------------
(* worker_main                                                              *)

WorkerGoto(w, pc) == wk' = [wk EXCEPT ![w].pc = pc]
Settle(w, ok) == wk' = [wk EXCEPT ![w].pc = "settle", ![w].ok = ok]

(* Reads the intent; brings the network up when it is not (network_init).   *)
WorkerBegin(w) ==
  /\ wk[w].pc = "begin"
  /\ \/ /\ ~Interrupted
        /\ app' = [app EXCEPT !.network_ready = TRUE] /\ UNCHANGED env
        /\ wk' = [wk EXCEPT ![w].pc = "check"]
     \/ /\ Interrupted
        /\ Settle(w, FALSE) /\ UNCHANGED <<app, env>>
     \/ /\ ~Interrupted /\ ~app.network_ready /\ Fault
        /\ Settle(w, FALSE) /\ UNCHANGED app
  /\ UNCHANGED <<stream, player, ui, scan>>

(* The intent again, then miniiptv_live_stream_start, which asks an old     *)
(* session to stop first.                                                   *)
WorkerCheck(w) ==
  /\ wk[w].pc = "check"
  /\ IF Interrupted THEN Settle(w, FALSE) /\ UNCHANGED stream
     ELSE WorkerGoto(w, "old") /\ stream' = RequestStop(stream)
  /\ UNCHANGED <<app, player, ui, scan, env>>

(* The old session is joined; tune_should_cancel is asked; a new one starts.*)
WorkerReset(w) ==
  /\ wk[w].pc = "old" /\ StreamJoined
  /\ IF Interrupted THEN Settle(w, FALSE) /\ stream' = NoStream
     ELSE /\ WorkerGoto(w, "staging")
          /\ stream' = [NoStream EXCEPT !.phase = "starting"]
  /\ UNCHANGED <<app, player, ui, scan, env>>

WorkerStaged(w) ==
  /\ wk[w].pc = "staging"
  /\ ~Interrupted /\ ~stream.stop
  /\ stream' = [stream EXCEPT !.phase = "live", !.producing = TRUE]
  /\ Settle(w, TRUE)
  /\ UNCHANGED <<app, player, ui, scan, env>>

(* Cancelled, timed out, refused by the network or by the parsers.          *)
WorkerFails(w) ==
  /\ wk[w].pc = "staging"
  /\ IF Interrupted \/ stream.stop THEN UNCHANGED env ELSE Fault
  /\ stream' = NoStream
  /\ Settle(w, FALSE)
  /\ UNCHANGED <<app, player, ui, scan>>

(* The section that turns the result and the latest intent into a state.    *)
WorkerSettle(w) ==
  /\ wk[w].pc = "settle"
  /\ app' = CASE app.exit -> DropIntent(app)
              [] ~app.exit /\ app.cancel_to_deck -> Status(DropIntent(app), "loading")
              [] ~app.exit /\ ~app.cancel_to_deck /\ app.queued_tune -> Status(app, "loading")
              [] ~Interrupted /\ wk[w].ok -> [app EXCEPT !.state = "ready"]
              [] ~Interrupted /\ ~wk[w].ok -> [DropIntent(app) EXCEPT !.state = "error"]
  /\ WorkerGoto(w, IF ~wk[w].ok THEN "tail" ELSE IF Interrupted THEN "stop" ELSE "handoff")
  /\ stream' = IF app.exit \/ (wk[w].ok /\ Interrupted) THEN RequestStop(stream) ELSE stream
  /\ UNCHANGED <<player, ui, scan, env>>

WorkerStop(w) ==
  /\ wk[w].pc = "stop" /\ StreamJoined
  /\ stream' = NoStream
  /\ WorkerGoto(w, "tail")
  /\ UNCHANGED <<app, player, ui, scan, env>>

(* The last section: the latest intent, then worker_finished.               *)
WorkerTail(w) ==
  /\ wk[w].pc = "tail"
  /\ LET b == IF ~app.exit /\ app.cancel_to_deck THEN BackToDeck(app)
              ELSE IF ~app.exit /\ app.queued_tune THEN Status(app, "loading")
              ELSE app
     IN app' = [b EXCEPT !.finished = TRUE]
  /\ wk' = [wk EXCEPT ![w] = [pc |-> "none", ok |-> FALSE]]
  /\ UNCHANGED <<stream, player, ui, scan, env>>

-----------------------------------------------------------------------------
(* begin_player_handoff, by the worker or by the HID thread (A on READY).   *)

(* The actor's pc before and after, whichever thread it is.                 *)
HandoffAt(x, pc) == IF x \in Workers THEN wk[x].pc = pc ELSE ui[x].pc = pc
HandoffGoto(x, pc) ==
  IF x \in Workers
    THEN WorkerGoto(x, IF pc = "end" THEN "tail" ELSE pc) /\ UNCHANGED ui
    ELSE Goto(x, IF pc = "end" THEN "idle" ELSE pc) /\ UNCHANGED wk

Actors == Workers \cup {"hid"}

(* Mutant of NoteReturns: a return of an earlier playback still counts.     *)
NoteReturnsLate == player

(* player_return_generation notes the player's counter.                     *)
NoteReturns == [player EXCEPT !.returned = FALSE]

BeginHandoff(x) ==
  /\ HandoffAt(x, "handoff")
  /\ IF app.exit \/ app.state # "ready" \/ app.awaiting
       THEN HandoffGoto(x, "end") /\ UNCHANGED <<app, player>>
       ELSE /\ HandoffGoto(x, "open")
            /\ app' = [app EXCEPT !.awaiting = TRUE]
            /\ player' = NoteReturns
  /\ UNCHANGED <<stream, scan, env>>

(* What Vid_prepare_file and Vid_reset_live_diagnostics clear.              *)
Opening == [player EXCEPT !.return_requested = FALSE, !.timed_out = FALSE,
                          !.drawer = FALSE]

(* Vid_prepare_and_start_file queues the play request; a full heap or a     *)
(* timeout of the queue fails it.                                           *)
OpenPlayer(x) ==
  /\ HandoffAt(x, "open")
  /\ \/ /\ PlayerIdle
        /\ player' = [Opening EXCEPT !.queue = Append(@, "play"), !.start_pending = TRUE]
        /\ HandoffGoto(x, "opened") /\ UNCHANGED <<stream, env>>
     \/ /\ IF PlayerIdle THEN Fault ELSE UNCHANGED env
        /\ player' = IF PlayerIdle THEN Opening ELSE player
        /\ stream' = RequestStop(stream)
        /\ HandoffGoto(x, "openstop")
  /\ UNCHANGED <<app, scan>>

HandoffDone(x) ==
  /\ HandoffAt(x, "opened")
  /\ app' = [app EXCEPT !.switching = FALSE]
  /\ HandoffGoto(x, "end")
  /\ UNCHANGED <<stream, player, scan, env>>

HandoffStops(x) ==
  /\ HandoffAt(x, "openstop") /\ StreamJoined
  /\ stream' = NoStream
  /\ HandoffGoto(x, "openfailed")
  /\ UNCHANGED <<app, player, scan, env>>

HandoffFailed(x) ==
  /\ HandoffAt(x, "openfailed")
  /\ app' = Status([DropIntent(app) EXCEPT !.awaiting = FALSE], "error")
  /\ HandoffGoto(x, "end")
  /\ UNCHANGED <<stream, player, scan, env>>

-----------------------------------------------------------------------------
(* reap_worker_if_finished                                                  *)

ReapNow == app.worker # NoWorker /\ app.finished /\ ~app.reaping
Detached(a) == [a EXCEPT !.worker = NoWorker, !.finished = FALSE, !.reaping = TRUE]

(* live_hid runs under an idle player with no start pending, live_draw      *)
(* under an idle one.                                                       *)
HookRuns(u) == PlayerIdle /\ ~app.exit /\ (u = "hid" => ~player.start_pending)

Reap(u) ==
  /\ At(u, "idle") /\ HookRuns(u) /\ ReapNow
  /\ app' = Detached(app)
  /\ Goto(u, "reaped")
  /\ UNCHANGED <<stream, player, wk, scan, env>>

(* Mutant of ReapEnds: the launch flag outlives the reaper.                 *)
ReapEndsOnly(a) == [a EXCEPT !.reaping = FALSE]

ReapEnds(a) == [a EXCEPT !.launch_after_reap = FALSE, !.reaping = FALSE]

(* After the join: who launches what was asked for in the meantime.         *)
Reaped(u) ==
  LET queued == ~app.exit /\ ~app.cleanup /\ app.queued_tune /\ ~app.cancel_to_deck
      cancelled == ~queued /\ ~app.exit /\ app.cancel_to_deck
      asked == ~queued /\ ~cancelled /\ ~app.exit /\ ~app.cleanup /\ app.launch_after_reap
      b == CASE queued -> PrepareQueued(app)
             [] cancelled -> BackToDeck(app)
             [] OTHER -> app
  IN /\ At(u, "reaped")
     /\ app' = ReapEnds(b)
     /\ IF queued \/ asked THEN Launch(u, AfterReap(u))
        ELSE Goto(u, AfterReap(u)) /\ UNCHANGED scan
     /\ UNCHANGED <<stream, player, wk, env>>

-----------------------------------------------------------------------------
(* launch_tune_worker                                                       *)

ScanJoined(u) ==
  /\ At(u, "joinscan")
  /\ ui[u].joins => scan.thread = "none"
  /\ scan' = [scan EXCEPT !.finished = FALSE]
  /\ ui' = [ui EXCEPT ![u].pc = "create", ![u].joins = FALSE]
  /\ UNCHANGED <<app, stream, player, wk, env>>

(* Mutant of MayCreate: a worker that is still known does not hinder.       *)
MayCreateAnyway == ~app.exit /\ ~app.reaping

MayCreate == ~app.exit /\ ~app.reaping /\ app.worker = NoWorker

CreateWorker(u) ==
  LET free == CHOOSE w \in Workers : wk[w].pc = "none" IN
  /\ At(u, "create")
  /\ \/ /\ ~MayCreate
        /\ app' = [app EXCEPT !.launch_after_reap = @ \/ (~app.exit /\ app.reaping)]
        /\ UNCHANGED <<wk, env>>
     \/ /\ MayCreate
        /\ app' = [app EXCEPT !.worker = free, !.finished = FALSE]
        /\ wk' = [wk EXCEPT ![free].pc = "begin"]
        /\ UNCHANGED env
     \/ /\ MayCreate /\ Fault                                  \* threadCreate
        /\ app' = Status([app EXCEPT !.step = FALSE, !.switching = FALSE, !.finished = FALSE],
                         "error")
        /\ UNCHANGED wk
  /\ ui' = [ui EXCEPT ![u] = [Idle EXCEPT !.pc = ui[u].then, !.button = ui[u].button]]
  /\ UNCHANGED <<stream, player, scan>>

-----------------------------------------------------------------------------
(* update_player_return_locked and process_player_return_action             *)

PlayerReturned(a) == a.awaiting /\ player.returned

WantsRetune(a) == ~a.cancel_to_deck /\ (a.target \/ a.step)

ReturnAction(a) ==
  IF ~PlayerReturned(a) THEN "none"
  ELSE IF WantsRetune(a) THEN "retune"
  ELSE IF a.cancel_to_deck THEN "deck" ELSE "stop"

UpdateReturn(a) ==
  LET back == [a EXCEPT !.awaiting = FALSE]
      retune == [Prepare(ResetRelock(back))
                   EXCEPT !.step = FALSE, !.target = FALSE, !.cancel_to_deck = FALSE,
                          !.queued_tune = FALSE,
                          !.launch_after_reap = @ \/ WorkerKnown(a)]
      stopped == [DropIntent(back) EXCEPT !.cancel_to_deck = FALSE, !.cleanup = TRUE]
  IN CASE ~PlayerReturned(a) -> a
       [] PlayerReturned(a) /\ WantsRetune(a) -> retune
       [] PlayerReturned(a) /\ ~WantsRetune(a) ->
            IF a.state # "error" THEN [stopped EXCEPT !.state = "idle"]
            ELSE IF a.cancel_to_deck THEN Status(stopped, "idle") ELSE stopped

(* update_player_return_locked of either thread, when it has an action.     *)
Return(u) ==
  /\ At(u, "idle") /\ HookRuns(u) /\ PlayerReturned(app)
  /\ app' = UpdateReturn(app)
  /\ ui' = [ui EXCEPT ![u] = [Idle EXCEPT !.pc = "process", !.act = ReturnAction(app)]]
  /\ UNCHANGED <<stream, player, wk, scan, env>>

Process(u) ==
  /\ At(u, "process")
  /\ stream' = RequestStop(stream)
  /\ IF ui[u].act = "retune" THEN Launch(u, "idle")
     ELSE /\ ui' = [ui EXCEPT ![u].pc = "stopping",
                      ![u].error = IF ui[u].act = "stop" THEN stream.error ELSE "none",
                      ![u].unsafe = ui[u].act = "stop" /\ app.unsafe]
          /\ UNCHANGED scan
  /\ UNCHANGED <<app, player, wk, env>>

Stopped(u) ==
  /\ At(u, "stopping") /\ StreamJoined
  /\ stream' = NoStream
  /\ Goto(u, "cleaned")
  /\ UNCHANGED <<app, player, wk, scan, env>>

(* With the stream gone: relock by itself, show the error, or launch what   *)
(* was queued.  The window of the relocks may have expired, or the clock    *)
(* may have stepped back behind its start.                                  *)
Cleaned(u) ==
  LET preserve == ui[u].error # "none" \/ ui[u].unsafe
      c == [app EXCEPT !.cleanup = FALSE]
      may_relock == /\ preserve /\ ~app.exit
                    /\ (ui[u].error = "recoverable" \/ ui[u].unsafe)
                    /\ ~app.cancel_to_deck /\ ~app.queued_tune
      e == IF preserve /\ ~app.exit /\ app.state # "error"
             THEN [c EXCEPT !.state = "error", !.unsafe = FALSE] ELSE c
      launch == ~app.exit /\ app.queued_tune /\ ~app.cancel_to_deck /\ ~WorkerKnown(app)
  IN /\ At(u, "cleaned")
     /\ \E expired \in BOOLEAN :
          LET n == IF expired THEN 0 ELSE app.relocks
              relock == may_relock /\ n < AUTO_RELOCK_MAX_ATTEMPTS
          IN /\ expired => may_relock
             /\ app' = IF relock
                         THEN [Prepare(c) EXCEPT !.relocks = n + 1,
                                 !.launch_after_reap = @ \/ WorkerKnown(app)]
                       ELSE IF launch
                         THEN PrepareQueued(e)
                       ELSE e
             /\ IF relock \/ launch THEN Launch(u, "idle")
                ELSE Goto(u, "idle") /\ UNCHANGED scan
     /\ UNCHANGED <<stream, player, wk, env>>

-----------------------------------------------------------------------------
(* Vid_hid and the hooks it calls: one scan of the HID thread per VBlank.   *)

Button == ui["hid"].button
Held == env.b # "up"

(* A requested return keeps an abort queued until the player is idle.       *)
KeepAborting(p) ==
  IF ~p.return_requested THEN p
  ELSE IF PlayerIdle THEN [p EXCEPT !.return_requested = FALSE] ELSE AddAbort(p)

(* An idle player leaves the scan to live_hid, which reaps first.           *)
Poll(p, b) ==
  LET hook == HookRuns("hid") /\ b # "none" IN
     /\ player' = KeepAborting(p)
     /\ app' = IF hook /\ ReapNow THEN Detached(app) ELSE app
     /\ ui' = [ui EXCEPT !["hid"] =
                 IF hook THEN [Idle EXCEPT !.pc = IF ReapNow THEN "reaped" ELSE "keys",
                                           !.button = b] ELSE Idle]

(* B opens and closes the drawer over a video; A tunes from it; L/R, and a  *)
(* B that is held or pressed over an idle player, reach the hook.           *)
HidScan ==
  /\ At("hid", "idle")
  /\ \E b \in Buttons \cup {"none"} \cup (IF Held THEN {"held"} ELSE {}) :
       LET toggles == ~PlayerIdle /\ b = "B"
           drawn == ~PlayerIdle /\ player.drawer
           hooks == \/ drawn /\ b = "A"
                    \/ ~PlayerIdle /\ ~drawn /\ b \in {"LR", "held"}
                    \/ PlayerIdle /\ stream.phase = "live" /\ b \in {"B", "held"}
           leaves == b = "LR" /\ app.state = "error" /\ PlayerIdle /\ ~app.awaiting
           counts == b \in Buttons /\ ~(toggles /\ ~drawn) /\ ~leaves
       IN /\ counts => env.left > 0
          /\ env' = [env EXCEPT
               !.left = @ - IF counts THEN 1 ELSE 0,
               !.b = CASE b = "held" -> @
                       [] b = "B" -> IF toggles /\ drawn THEN "closed" ELSE "down"
                       [] OTHER -> "up"]
          /\ IF hooks
               THEN /\ ui' = [ui EXCEPT !["hid"].pc = "hook", !["hid"].button = b]
                    /\ UNCHANGED <<app, player>>
             ELSE IF toggles \/ drawn
               THEN /\ player' = [player EXCEPT !.drawer = @ # toggles]
                    /\ UNCHANGED <<app, ui>>
             ELSE Poll(player, b)
  /\ UNCHANGED <<stream, wk, scan>>

(* player_channel_request, or A in the drawer (live_drawer_hid).            *)
HidHook ==
  /\ At("hid", "hook")
  /\ \/ /\ ui["hid"].button \in {"B", "held"}
        /\ app' = [DropIntent(app) EXCEPT !.cancel_to_deck = TRUE, !.queued_tune = FALSE]
        /\ Goto("hid", "interrupt")
     \/ /\ ui["hid"].button = "LR"
        /\ IF app.switching \/ app.step \/ app.target
             THEN UNCHANGED app
             ELSE /\ app' = [ResetRelock(app) EXCEPT !.cancel_to_deck = FALSE, !.step = TRUE,
                                                     !.switching = TRUE]
        /\ Goto("hid", "interrupt")
     \/ /\ ui["hid"].button = "A"
        /\ app' = [ResetRelock(app) EXCEPT !.cancel_to_deck = FALSE, !.step = FALSE,
                     !.queued_tune = FALSE, !.target = TRUE, !.switching = TRUE]
        /\ Goto("hid", "drawer")
  /\ UNCHANGED <<stream, player, wk, scan, env>>

(* The transfers are told to stop and the player to return.                 *)
HidInterrupt ==
  LET b == ui["hid"].button IN
  /\ At("hid", "interrupt")
  /\ stream' = RequestStop(stream)
  /\ Poll([player EXCEPT !.return_requested = ~PlayerIdle,
                         !.drawer = @ /\ b = "LR"], b)
  /\ UNCHANGED <<wk, scan, env>>

HidDrawerTunes ==
  /\ At("hid", "drawer")
  /\ stream' = RequestStop(stream)
  /\ player' = [player EXCEPT !.return_requested = TRUE, !.drawer = FALSE]
  /\ Goto("hid", "idle")
  /\ UNCHANGED <<app, wk, scan, env>>

-----------------------------------------------------------------------------
(* live_hid, after the reaper: one section under the lock.                  *)

Cancelled(a) == [DropIntent(a) EXCEPT !.cancel_to_deck = TRUE, !.queued_tune = FALSE]

(* Input on the error screen is latched while the player's return is due.   *)
Latches == app.awaiting /\ app.state = "error" /\ Button \in {"B", "LR"}
Latched ==
  IF ~Latches THEN app
  ELSE IF Button = "B" THEN Cancelled(app)
  ELSE [app EXCEPT !.cancel_to_deck = FALSE, !.target = FALSE, !.step = TRUE,
                   !.switching = TRUE]

HidReturns ==
  /\ At("hid", "keys")
  /\ app.exit \/ Latches \/ PlayerReturned(app)
  /\ IF app.exit
       THEN Goto("hid", "idle") /\ UNCHANGED app
       ELSE LET act == ReturnAction(Latched) IN
            /\ app' = UpdateReturn(Latched)
            /\ ui' = [ui EXCEPT !["hid"] = IF act = "none" THEN Idle
                                           ELSE [Idle EXCEPT !.pc = "process", !.act = act]]
  /\ UNCHANGED <<stream, player, wk, scan, env>>

(* The key itself, when none of these hold.  A stop it asks for, and the    *)
(* launch, come after the unlock.                                           *)
HidKey(k) ==
  /\ At("hid", "keys") /\ Button = k
  /\ ~app.exit /\ ~Latches /\ ~PlayerReturned(app)
  /\ UNCHANGED <<stream, player, wk, env>>

HidCancels ==
  /\ HidKey("B") /\ app.state = "loading"
  /\ app' = Cancelled(app)
  /\ Goto("hid", "stops")
  /\ UNCHANGED scan

HidQueues ==
  /\ HidKey("A") /\ app.state = "loading"
  /\ app' = [ResetRelock(app) EXCEPT !.switching = TRUE, !.cancel_to_deck = FALSE,
                                     !.queued_tune = TRUE]
  /\ Goto("hid", "stops")
  /\ UNCHANGED scan

HidClearsError ==
  /\ HidKey("B") /\ app.state = "error"
  /\ app' = Status([Cancelled(app) EXCEPT !.cancel_to_deck = WorkerKnown(app)], "idle")
  /\ Goto("hid", "stops")
  /\ UNCHANGED scan

HidErrorSwitches ==
  LET busy == WorkerKnown(app) \/ app.cleanup
      next == [ResetRelock(app) EXCEPT !.step = FALSE,
                                       !.cancel_to_deck = FALSE, !.switching = TRUE,
                                       !.queued_tune = busy]
  IN /\ HidKey("LR") /\ app.state = "error"
     /\ app' = IF busy THEN Status(next, "loading") ELSE Prepare(next)
     /\ IF busy THEN Goto("hid", "stops") /\ UNCHANGED scan ELSE Launch("hid", "idle")

HidBrowses ==
  /\ HidKey("PAD")
  /\ ~app.cleanup /\ ~WorkerKnown(app) /\ app.state # "loading"
  /\ app' = Status(app, "idle")
  /\ Goto("hid", "browses")
  /\ UNCHANGED scan

(* The stop reaches whatever session there is by then: the reaper may have  *)
(* launched a worker since the unlock.                                      *)
HidStops ==
  /\ At("hid", "stops") \/ At("hid", "browses")
  /\ stream' = RequestStop(stream)
  /\ Goto("hid", IF At("hid", "browses") THEN "padstop" ELSE "idle")
  /\ UNCHANGED <<app, player, wk, scan, env>>

HidBrowsed ==
  /\ At("hid", "padstop") /\ StreamJoined
  /\ stream' = NoStream
  /\ Goto("hid", "idle")
  /\ UNCHANGED <<app, player, wk, scan, env>>

HidWatches ==
  /\ HidKey("A") /\ app.state = "ready"
  /\ Goto("hid", "handoff")
  /\ UNCHANGED <<app, scan>>

(* prepare_selected_tune_locked: a reaped worker does not keep it waiting.  *)
HidTunes ==
  LET may == scan.left < Scans /\ app.worker = NoWorker /\ ~app.cleanup IN
  /\ HidKey("A") /\ app.state \in {"idle", "error"}
  /\ IF may THEN /\ app' = Prepare([ResetRelock(app) EXCEPT !.cancel_to_deck = FALSE,
                                                            !.queued_tune = FALSE])
                 /\ Launch("hid", "idle")
     ELSE Goto("hid", "idle") /\ UNCHANGED <<app, scan>>

HidIgnores ==
  /\ \E k \in {"none", "held", "B", "LR", "PAD"} : HidKey(k)
  /\ Button = "B" => app.state \in {"idle", "ready"}
  /\ Button = "LR" => app.state # "error"
  /\ Button = "PAD" => app.cleanup \/ WorkerKnown(app) \/ app.state = "loading"
  /\ Goto("hid", "idle")
  /\ UNCHANGED <<app, scan>>

-----------------------------------------------------------------------------
(* The draw thread: live_draw, and the startup watchdog of Vid_main.        *)

(* reap_scan_worker_if_finished                                             *)
ReapScan ==
  /\ At("draw", "idle") /\ HookRuns("draw") /\ scan.handle /\ scan.finished
  /\ scan' = [scan EXCEPT !.handle = FALSE, !.finished = FALSE]
  /\ UNCHANGED <<app, stream, player, wk, ui, env>>

(* launch_scan_worker; threadCreate may fail.                               *)
LaunchScan ==
  /\ At("draw", "idle") /\ HookRuns("draw")
  /\ ~scan.complete /\ ~scan.handle /\ scan.left > 0
  /\ ~WorkerKnown(app) /\ ~app.cleanup /\ ~app.awaiting /\ app.state = "idle"
  /\ LET clear == [scan EXCEPT !.stop = FALSE, !.finished = FALSE] IN
     \/ scan' = [clear EXCEPT !.thread = "init", !.handle = TRUE] /\ UNCHANGED env
     \/ scan' = clear /\ Fault
  /\ UNCHANGED <<app, stream, player, wk, ui>>

(* A phase of the start took too long.                                      *)
StartupTimeout ==
  /\ At("draw", "idle") /\ Fault
  /\ stream.phase = "live" /\ ~player.return_requested /\ ~player.timed_out
  /\ player.start_pending \/ player.state \in {"taken", "opening", "playing"}
  /\ stream' = RequestStop(stream)
  /\ player' = [player EXCEPT !.return_requested = TRUE, !.timed_out = TRUE,
                              !.drawer = FALSE]
  /\ Goto("draw", "timeout")
  /\ UNCHANGED <<app, wk, scan>>

(* player_error                                                             *)
PlayerError(a, unsafe) ==
  [a EXCEPT !.switching = @ /\ (a.step \/ a.target),
            !.state = IF unsafe THEN "loading" ELSE "error", !.unsafe = unsafe]

TimeoutReported ==
  /\ At("draw", "timeout")
  /\ app' = PlayerError(app, FALSE)
  /\ player' = AddAbort(player)
  /\ Goto("draw", "idle")
  /\ UNCHANGED <<stream, wk, scan, env>>

-----------------------------------------------------------------------------
(* The player's threads.                                                    *)

PlayerStep == UNCHANGED <<wk, ui, scan>>
Queued(e) == player.queue # <<>> /\ Head(player.queue) = e
Reads == player.state \in {"idle", "playing", "failed"}

TakePlay ==
  /\ Reads /\ Queued("play") /\ player.state # "playing"
  /\ player' = [player EXCEPT !.queue = Tail(@), !.start_pending = FALSE, !.state = "taken"]
  /\ UNCHANGED <<app, stream, env>> /\ PlayerStep

PlayerOpens ==
  /\ player.state \in {"taken", "opening"}
  /\ player' = [player EXCEPT !.state = IF @ = "taken" THEN "opening" ELSE "playing"]
  /\ UNCHANGED <<app, stream, env>> /\ PlayerStep

(* No data, a stopped stream, or something MVD will not decode.             *)
OpenFails ==
  /\ player.state = "opening"
  /\ IF stream.stop \/ stream.phase # "live" THEN UNCHANGED env ELSE Fault
  /\ player' = [player EXCEPT !.state = "failed", !.queue = <<"abort">> \o @,
                              !.drawer = @ /\ stream.phase # "live"]
  /\ app' = IF stream.phase = "live" THEN PlayerError(app, FALSE) ELSE app
  /\ UNCHANGED stream /\ PlayerStep

(* decode_video meets a fatal result, or a picture it must not touch.       *)
PlayerFails ==
  /\ player.state = "playing" /\ ~player.return_requested /\ Fault
  /\ stream' = RequestStop(stream)
  /\ player' = [player EXCEPT !.return_requested = TRUE, !.drawer = FALSE,
                              !.queue = <<"abort">> \o @]
  /\ \E unsafe \in BOOLEAN : app' = PlayerError(app, unsafe)
  /\ PlayerStep

(* The stream ended: nothing more will be produced.                         *)
PlayerEnds ==
  /\ player.state = "playing" /\ player.queue = <<>>
  /\ stream.stop \/ ~stream.producing
  /\ player' = [player EXCEPT !.queue = <<"abort">>]
  /\ UNCHANGED <<app, stream, env>> /\ PlayerStep

TakeAbort ==
  /\ Reads /\ Queued("abort")
  /\ IF player.state = "idle"
       THEN player' = [player EXCEPT !.queue = Tail(@)] /\ UNCHANGED stream
       ELSE /\ player' = [player EXCEPT !.queue = Tail(@), !.state = "back"]
            /\ stream' = IF stream.phase = "live" THEN RequestStop(stream) ELSE stream
  /\ UNCHANGED <<app, env>> /\ PlayerStep

(* IDLE is published before the return is counted.                          *)
CountReturn ==
  /\ player.state = "back"
  /\ player' = [player EXCEPT !.state = "idle", !.start_pending = FALSE,
                              !.returned = TRUE,
                              \* not read before Opening clears them anyway
                              !.drawer = FALSE, !.timed_out = FALSE]
  /\ UNCHANGED <<app, stream, env>> /\ PlayerStep

-----------------------------------------------------------------------------
(* The producer of the stream, and scan_worker_main.                        *)

(* A stop may interrupt a transfer or a commit, which leaves its error, as  *)
(* a failure does that ends the session.                                    *)
Produce ==
  /\ stream.producing
  /\ \/ /\ stream.stop
        /\ stream' = [stream EXCEPT !.producing = FALSE] /\ UNCHANGED env
     \/ /\ Fault
        /\ \E e \in {"recoverable", "fatal"} :
             stream' = [stream EXCEPT !.producing = FALSE, !.stop = TRUE, !.error = e]
  /\ UNCHANGED <<app, player, wk, ui, scan>>

ScanStopped == app.exit \/ scan.stop

ScanInit ==
  /\ scan.thread = "init"
  /\ LET skip == app.network_ready \/ ScanStopped IN
     \/ /\ scan' = [scan EXCEPT !.thread = "running"]
        /\ app' = [app EXCEPT !.network_ready = @ \/ ~skip]
        /\ UNCHANGED env
     \/ /\ ~skip /\ Fault
        /\ scan' = [scan EXCEPT !.thread = "running", !.complete = TRUE]
        /\ UNCHANGED app
  /\ UNCHANGED <<stream, player, wk, ui>>

(* Mutant of ScanNext: the index is not compared with the source count.     *)
ScanNextPastEnd ==
  /\ scan.thread = "running"
  /\ scan' = [scan EXCEPT !.thread =
                IF ScanStopped \/ ~app.network_ready THEN "ending" ELSE "fetching"]
  /\ UNCHANGED <<app, stream, player, wk, ui, env>>

ScanNext ==
  /\ scan.thread = "running"
  /\ scan' = IF ScanStopped \/ ~app.network_ready \/ scan.left = 0
               THEN [scan EXCEPT !.thread = "ending", !.complete = @ \/ scan.left = 0]
             ELSE [scan EXCEPT !.thread = "fetching"]
  /\ UNCHANGED <<app, stream, player, wk, ui, env>>

ScanFetched ==
  /\ scan.thread = "fetching"
  /\ scan' = IF ScanStopped THEN [scan EXCEPT !.thread = "ending"]
             ELSE [scan EXCEPT !.thread = "running", !.left = @ - 1,
                               !.complete = @ \/ scan.left = 1]
  /\ UNCHANGED <<app, stream, player, wk, ui, env>>

ScanEnds ==
  /\ scan.thread = "ending"
  /\ scan' = [scan EXCEPT !.thread = "none", !.finished = TRUE]
  /\ UNCHANGED <<app, stream, player, wk, ui, env>>

-----------------------------------------------------------------------------
(* MiniIptv_live_app_exit, on the draw thread.                              *)

ExitBegins ==
  /\ At("draw", "idle") /\ ~app.exit /\ Fault
  /\ app' = [DropIntent(app) EXCEPT !.exit = TRUE, !.worker = NoWorker]
  /\ scan' = [scan EXCEPT !.stop = TRUE, !.handle = FALSE]
  /\ ui' = [ui EXCEPT !["draw"].pc = "exit", !["draw"].joins = scan.handle,
                      !["draw"].worker = app.worker]
  /\ UNCHANGED <<stream, player, wk>>

ExitStops ==
  /\ At("draw", "exit")
  /\ stream' = RequestStop(stream)
  /\ Goto("draw", "exitjoin")
  /\ UNCHANGED <<app, player, wk, scan, env>>

(* Mutant of ThreadsJoined: the worker's handle is dropped, not joined.     *)
ScannerJoined == ui["draw"].joins => scan.thread = "none"

(* The threads whose handles it took have ended.                            *)
ThreadsJoined ==
  LET me == ui["draw"] IN
  /\ me.joins => scan.thread = "none"
  /\ me.worker # NoWorker => wk[me.worker].pc = "none"

(* They are joined, and the stream is stopped again.                        *)
ExitJoins ==
  /\ At("draw", "exitjoin") /\ ThreadsJoined
  /\ stream' = RequestStop(stream)
  /\ Goto("draw", "exitplayer")
  /\ UNCHANGED <<app, player, wk, scan, env>>

(* Vid_exit joins the player's threads, or gives up on them.                *)
ExitPlayer ==
  /\ At("draw", "exitplayer")
  /\ \/ /\ player' = [player EXCEPT !.state = "gone", !.queue = <<>>]
        /\ Goto("draw", "exitstream")
     \/ Goto("draw", "terminated") /\ UNCHANGED player
  /\ UNCHANGED <<app, stream, wk, scan, env>>

ExitCloses ==
  /\ At("draw", "exitstream") /\ StreamJoined
  /\ stream' = NoStream
  /\ app' = [app EXCEPT !.network_ready = FALSE]
  /\ Goto("draw", "closed")
  /\ UNCHANGED <<player, wk, scan, env>>

-----------------------------------------------------------------------------
WorkerStep(w) ==
  \/ WorkerBegin(w) \/ WorkerCheck(w) \/ WorkerReset(w) \/ WorkerStaged(w)
  \/ WorkerFails(w) \/ WorkerSettle(w) \/ WorkerStop(w) \/ WorkerTail(w)

HandoffStep(x) ==
  BeginHandoff(x) \/ OpenPlayer(x) \/ HandoffDone(x) \/ HandoffStops(x) \/ HandoffFailed(x)

UiStep(u) ==
  \/ Reap(u) \/ Reaped(u) \/ ScanJoined(u) \/ CreateWorker(u)
  \/ Return(u) \/ Process(u) \/ Stopped(u) \/ Cleaned(u)

HidStep ==
  \/ UiStep("hid") \/ HandoffStep("hid")
  \/ HidScan \/ HidHook \/ HidInterrupt \/ HidDrawerTunes
  \/ HidReturns \/ HidCancels \/ HidQueues \/ HidClearsError \/ HidErrorSwitches
  \/ HidBrowses \/ HidStops \/ HidBrowsed \/ HidWatches \/ HidTunes \/ HidIgnores

ExitStep == ExitStops \/ ExitJoins \/ ExitPlayer \/ ExitCloses

DrawStep == UiStep("draw") \/ ReapScan \/ LaunchScan \/ TimeoutReported \/ ExitStep

WorkersStep == \E w \in Workers : WorkerStep(w) \/ HandoffStep(w)

PlayStep ==
  TakePlay \/ PlayerOpens \/ OpenFails \/ PlayerEnds \/ TakeAbort \/ CountReturn

ScanStep == ScanInit \/ ScanNext \/ ScanFetched \/ ScanEnds

Next ==
  \/ HidStep \/ DrawStep \/ WorkersStep \/ PlayStep \/ ScanStep
  \/ Produce \/ PlayerFails \/ StartupTimeout \/ ExitBegins

(* Every thread is scheduled; failures, watchdogs and keys need not come.   *)
(* There is one worker at a time (OneWorker).                               *)
Fairness ==
  /\ WF_vars(HidStep) /\ WF_vars(DrawStep) /\ WF_vars(WorkersStep)
  /\ WF_vars(PlayStep) /\ WF_vars(ScanStep) /\ WF_vars(stream.stop /\ Produce)

Spec == Init /\ [][Next]_vars /\ Fairness

-----------------------------------------------------------------------------
(* Properties.                                                              *)

Apps ==
  [state : {"idle", "loading", "ready", "error"}, worker : Workers \cup {NoWorker},
   finished : BOOLEAN, reaping : BOOLEAN, launch_after_reap : BOOLEAN,
   cancel_to_deck : BOOLEAN, queued_tune : BOOLEAN, cleanup : BOOLEAN,
   awaiting : BOOLEAN, step : BOOLEAN, target : BOOLEAN, switching : BOOLEAN,
   unsafe : BOOLEAN, relocks : 0..AUTO_RELOCK_MAX_ATTEMPTS,
   network_ready : BOOLEAN, exit : BOOLEAN]

StreamErrors == {"none", "recoverable", "fatal"}

Streams ==
  [phase : {"none", "starting", "live"}, stop : BOOLEAN, producing : BOOLEAN,
   error : StreamErrors]

Players ==
  [state : {"idle", "taken", "opening", "playing", "failed", "back", "gone"},
   queue : Seq({"play", "abort"}), start_pending : BOOLEAN,
   return_requested : BOOLEAN, timed_out : BOOLEAN, returned : BOOLEAN,
   drawer : BOOLEAN]

HandoffPcs == {"handoff", "open", "opened", "openstop", "openfailed"}

WorkerStates ==
  [pc : {"none", "begin", "check", "old", "staging", "settle", "stop", "tail"}
          \cup HandoffPcs,
   ok : BOOLEAN]

ExitPcs == {"exit", "exitjoin", "exitplayer", "exitstream", "closed", "terminated"}

UiStates ==
  [pc : {"idle", "reaped", "joinscan", "create", "process", "stopping", "cleaned",
         "hook", "interrupt", "drawer", "keys", "stops", "browses", "padstop",
         "timeout"}
          \cup HandoffPcs \cup ExitPcs,
   button : Buttons \cup {"none", "held"},
   act : {"none", "retune", "deck", "stop"}, error : StreamErrors, unsafe : BOOLEAN,
   then : {"idle", "keys"}, joins : BOOLEAN, worker : Workers \cup {NoWorker}]

Scanners ==
  [thread : {"none", "init", "running", "fetching", "ending"}, handle : BOOLEAN,
   finished : BOOLEAN, stop : BOOLEAN, complete : BOOLEAN, left : 0..Scans]

(* The fields keep their ranges.                                            *)
TypeOK ==
  /\ app \in Apps
  /\ stream \in Streams
  /\ player \in Players
  /\ wk \in [Workers -> WorkerStates]
  /\ ui \in [UI -> UiStates]
  /\ scan \in Scanners
  /\ env \in [b : {"up", "down", "closed"}, left : 0..MaxEvents]

(* However the playback return, the reaper and the keys of two UI threads   *)
(* meet, there is never a second tune worker: the stream, the curl handle   *)
(* and app.worker have room for one.                                        *)
OneWorker ==
  \A v, w \in Workers : wk[v].pc # "none" /\ wk[w].pc # "none" => v = w

(* A launch that is left to the reaper has a reaper to come, or the exit,   *)
(* which takes the worker's handle over: the flag is never left behind for  *)
(* a later tune to trip over.                                               *)
LaunchKept == app.launch_after_reap => WorkerKnown(app) \/ app.exit

(* From the play request until its return is counted, the controller waits  *)
(* for that return: no playback ends without anybody noticing.              *)
HandoverAwaited ==
  player.start_pending \/ player.state \notin {"idle", "gone"} => app.awaiting \/ app.exit

(* When the exit has closed the network nothing uses it any more, but for a *)
(* scanner whose handle the HID thread took to join it first.               *)
NetworkClosed ==
  At("draw", "closed") =>
    /\ stream.phase = "none" /\ ~stream.producing
    /\ \A w \in Workers : wk[w].pc = "none"
    /\ scan.thread # "none" => At("hid", "joinscan") /\ ui["hid"].joins

(* Whatever order they come in, what was asked for is done in the end: a    *)
(* return that a key, the watchdog or a fatal picture asks for ends the     *)
(* playback, a channel picked during a tune or a cleanup is launched or     *)
(* replaced, and an exit joins its threads and closes the network, so that  *)
(* no two of the threads wait for each other.                               *)
Owed ==
  \/ player.return_requested /\ ~PlayerIdle /\ player.state # "gone"
  \/ app.queued_tune /\ ~app.exit
  \/ app.exit /\ ui["draw"].pc \notin {"closed", "terminated"}
RequestsServed == Owed ~> ~Owed

(* README.md:38: B "open/close the channel drawer while video keeps         *)
(* playing": the press that closes it is not a request to leave the video.  *)
DrawerCloses == ~(At("hid", "hook") /\ Button = "held" /\ env.b = "closed")
=============================================================================
