----------------------------- MODULE LiveAppProofs -----------------------------
(***************************************************************************)
(* What the controller's threads may not do to each other, for any number  *)
(* of sources, keys and failures and any number of relocks.                *)
(***************************************************************************)
EXTENDS LiveApp, TLAPS

-----------------------------------------------------------------------------
(* The fields of `app'.                                                     *)

(* An update that leaves the worker's handle alone, and asks the reaper for *)
(* a launch only where there is one to come.                                *)
KeepsWorker(a, b) ==
  /\ b \in Apps
  /\ b.worker = a.worker /\ b.finished = a.finished /\ b.reaping = a.reaping
  /\ b.exit = a.exit
  /\ b.launch_after_reap => a.launch_after_reap \/ WorkerKnown(a)

(* One that goes on waiting for a playback as before, too.                  *)
Quiet(a, b) == KeepsWorker(a, b) /\ b.awaiting = a.awaiting

AppStates == {"idle", "loading", "ready", "error"}

LEMMA QuietAgain ==
  ASSUME NEW a, NEW b, NEW c, Quiet(a, b), Quiet(b, c) PROVE Quiet(a, c)
BY DEF Quiet, KeepsWorker, WorkerKnown

LEMMA QuietSame == ASSUME NEW a \in Apps PROVE Quiet(a, a)
BY DEF Quiet, KeepsWorker

LEMMA QuietHelpers ==
  ASSUME NEW a \in Apps
  PROVE  /\ \A s \in AppStates : Quiet(a, Status(a, s))
         /\ Quiet(a, ResetRelock(a)) /\ Quiet(a, DropIntent(a))
         /\ Quiet(a, Prepare(a)) /\ Quiet(a, PrepareQueued(a))
         /\ Quiet(a, BackToDeck(a)) /\ Quiet(a, Cancelled(a))
         /\ \A unsafe \in BOOLEAN : Quiet(a, PlayerError(a, unsafe))
<1>1. ASSUME NEW b \in Apps, NEW s \in AppStates PROVE Quiet(b, Status(b, s))
  BY DEF Status, Quiet, KeepsWorker, Apps, AppStates
<1>2. Quiet(a, ResetRelock(a))
  BY LiveAppAssumption DEF ResetRelock, Quiet, KeepsWorker, Apps
<1>3. Quiet(a, DropIntent(a))
  BY DEF DropIntent, Quiet, KeepsWorker, Apps
<1>4. Quiet(a, Prepare(a))
  BY <1>1 DEF Prepare, AppStates
<1>5. Quiet(a, PrepareQueued(a))
  <2> DEFINE b == [a EXCEPT !.queued_tune = FALSE]
  <2>1. b \in Apps /\ Quiet(a, b)
    BY DEF Quiet, KeepsWorker, Apps
  <2>2. PrepareQueued(a) = Status(b, "loading")
    BY DEF PrepareQueued, Prepare
  <2> HIDE DEF b
  <2> QED BY <1>1, <2>1, <2>2, QuietAgain DEF AppStates
<1>6. Quiet(a, BackToDeck(a))
  <2> DEFINE b == [a EXCEPT !.cancel_to_deck = FALSE, !.queued_tune = FALSE,
                            !.step = FALSE, !.switching = FALSE]
  <2>1. Quiet(a, b)
    BY DEF Quiet, KeepsWorker, Apps
  <2> HIDE DEF b
  <2>2. Quiet(b, Status(b, "idle"))
    BY <1>1, <2>1 DEF Quiet, KeepsWorker, AppStates
  <2>3. BackToDeck(a) = Status(b, "idle")
    BY DEF BackToDeck, b
  <2> QED BY <2>1, <2>2, <2>3, QuietAgain
<1>7. Quiet(a, Cancelled(a))
  <2>1. DropIntent(a) \in Apps
    BY <1>3 DEF Quiet, KeepsWorker
  <2>2. Quiet(DropIntent(a), Cancelled(a))
    BY <2>1 DEF Cancelled, Quiet, KeepsWorker, Apps
  <2> QED BY <1>3, <2>2, QuietAgain
<1>8. ASSUME NEW unsafe \in BOOLEAN PROVE Quiet(a, PlayerError(a, unsafe))
  <2> DEFINE switching == a.switching /\ (a.step \/ a.target)
  <2>1. switching \in BOOLEAN
    OBVIOUS
  <2>2. \E s \in AppStates :
          PlayerError(a, unsafe) = [a EXCEPT !.switching = switching, !.state = s,
                                             !.unsafe = unsafe]
    BY DEF PlayerError, AppStates
  <2> HIDE DEF switching
  <2> QED BY <2>1, <2>2 DEF Quiet, KeepsWorker, Apps, AppStates
<1> QED BY <1>1, <1>2, <1>3, <1>4, <1>5, <1>6, <1>7, <1>8

(* One section of the controller that leaves them alone.                    *)
LEMMA QuietWorker ==
  ASSUME TypeOK, NEW w \in Workers, WorkerBegin(w) \/ WorkerSettle(w)
  PROVE  Quiet(app, app')
<1>1. app \in Apps
  BY DEF TypeOK
<1>2. CASE WorkerBegin(w)
  <2>1. app' = app \/ app' = [app EXCEPT !.network_ready = TRUE]
    BY <1>2 DEF WorkerBegin
  <2> QED BY <1>1, <2>1 DEF Quiet, KeepsWorker, Apps
<1>3. CASE WorkerSettle(w)
  <2> DEFINE d == DropIntent(app)
  <2>1. d \in Apps /\ Quiet(app, d)
    BY <1>1, QuietHelpers DEF Quiet, KeepsWorker
  <2>2. ASSUME NEW a \in Apps
        PROVE  /\ Quiet(a, Status(a, "loading"))
               /\ \A s \in AppStates : Quiet(a, [a EXCEPT !.state = s])
    BY QuietHelpers DEF Quiet, KeepsWorker, Apps, AppStates
  <2>3. \/ app' = d \/ app' = Status(d, "loading")
        \/ app' = Status(app, "loading") \/ app' = [app EXCEPT !.state = "ready"]
        \/ app' = [d EXCEPT !.state = "error"]
    BY <1>3 DEF WorkerSettle, Interrupted
  <2> HIDE DEF d
  <2>4. \E a \in {app, d} : app' = a \/ Quiet(a, app')
    BY <1>1, <2>1, <2>2, <2>3 DEF AppStates
  <2> QED BY <1>1, <2>1, <2>4, QuietAgain, QuietSame
<1> QED BY <1>2, <1>3

LEMMA QuietHid ==
  ASSUME TypeOK, \/ HidHook \/ HidCancels \/ HidQueues \/ HidClearsError \/ HidErrorSwitches
                 \/ HidBrowses \/ HidTunes
  PROVE  Quiet(app, app')
<1> DEFINE r == ResetRelock(app)
           k == Cancelled(app)
<1>1. app \in Apps /\ r \in Apps /\ Quiet(app, r) /\ k \in Apps /\ Quiet(app, k)
  BY QuietHelpers DEF TypeOK, Quiet, KeepsWorker
<1>2. Quiet(app, app)
  BY <1>1, QuietSame
<1>3. CASE HidHook
  <2> DEFINE steps == [r EXCEPT !.cancel_to_deck = FALSE, !.step = TRUE, !.switching = TRUE]
             tunes == [r EXCEPT !.cancel_to_deck = FALSE, !.step = FALSE,
                                !.queued_tune = FALSE, !.target = TRUE, !.switching = TRUE]
  <2>1. app' \in {k, app, steps, tunes}
    BY <1>3 DEF HidHook, Cancelled
  <2> HIDE DEF r, k
  <2>2. steps \in Apps
    BY <1>1 DEF Apps
  <2>3. tunes \in Apps
    <3> DEFINE t == [r EXCEPT !.cancel_to_deck = FALSE, !.step = FALSE,
                              !.queued_tune = FALSE]
    <3>1. t \in Apps
      BY <1>1 DEF Apps
    <3>2. tunes = [t EXCEPT !.target = TRUE, !.switching = TRUE]
      OBVIOUS
    <3> HIDE DEF t, tunes
    <3> QED BY <3>1, <3>2 DEF Apps
  <2>4. Quiet(r, steps)
    BY <1>1, <2>2 DEF Quiet, KeepsWorker, Apps
  <2>5. Quiet(r, tunes)
    BY <1>1, <2>3 DEF Quiet, KeepsWorker, Apps
  <2> HIDE DEF steps, tunes
  <2> QED BY <1>1, <1>2, <2>1, <2>4, <2>5, QuietAgain
<1>4. CASE HidCancels
  BY <1>1, <1>4 DEF HidCancels
<1>5. CASE HidQueues
  <2>1. app' = [r EXCEPT !.switching = TRUE, !.cancel_to_deck = FALSE, !.queued_tune = TRUE]
    BY <1>5 DEF HidQueues
  <2> HIDE DEF r
  <2>2. app' \in Apps
    BY <1>1, <2>1 DEF Apps
  <2>3. Quiet(r, app')
    BY <1>1, <2>1, <2>2 DEF Quiet, KeepsWorker, Apps
  <2> QED BY <1>1, <2>3, QuietAgain
<1>6. CASE HidClearsError
  <2> DEFINE known == WorkerKnown(app)
             c == [k EXCEPT !.cancel_to_deck = known]
  <2>1. app' = Status(c, "idle") /\ known \in BOOLEAN
    BY <1>6 DEF HidClearsError, WorkerKnown
  <2> HIDE DEF k, known
  <2>2. c \in Apps /\ Quiet(k, c)
    BY <1>1, <2>1 DEF Quiet, KeepsWorker, Apps
  <2>3. Quiet(c, Status(c, "idle"))
    BY <2>2, QuietHelpers DEF AppStates
  <2> HIDE DEF c
  <2> QED BY <1>1, <2>1, <2>2, <2>3, QuietAgain
<1>7. CASE HidErrorSwitches
  <2> DEFINE busy == WorkerKnown(app) \/ app.cleanup
             n == [r EXCEPT !.step = FALSE, !.cancel_to_deck = FALSE, !.switching = TRUE,
                            !.queued_tune = busy]
  <2>1. app' \in {Status(n, "loading"), Prepare(n)} /\ busy \in BOOLEAN
    BY <1>7 DEF HidErrorSwitches, WorkerKnown
  <2> HIDE DEF r, busy
  <2>a. n \in Apps
    BY <1>1, <2>1 DEF Apps
  <2>2. Quiet(r, n)
    BY <1>1, <2>a DEF Quiet, KeepsWorker, Apps
  <2>3. Quiet(n, Status(n, "loading")) /\ Quiet(n, Prepare(n))
    BY <2>a, QuietHelpers DEF AppStates
  <2> HIDE DEF n
  <2> QED BY <1>1, <2>1, <2>2, <2>3, QuietAgain
<1>8. CASE HidBrowses
  BY <1>1, <1>8, QuietHelpers DEF HidBrowses, AppStates
<1>9. CASE HidTunes
  <2> DEFINE t == [r EXCEPT !.cancel_to_deck = FALSE, !.queued_tune = FALSE]
  <2>1. app' \in {app, Prepare(t)}
    BY <1>9 DEF HidTunes
  <2> HIDE DEF r
  <2>2. t \in Apps /\ Quiet(r, t)
    BY <1>1 DEF Quiet, KeepsWorker, Apps
  <2>3. Quiet(t, Prepare(t))
    BY <2>2, QuietHelpers
  <2> HIDE DEF t
  <2> QED BY <1>1, <1>2, <2>1, <2>2, <2>3, QuietAgain
<1> QED BY <1>3, <1>4, <1>5, <1>6, <1>7, <1>8, <1>9

LEMMA QuietOthers ==
  ASSUME TypeOK, \/ TimeoutReported \/ OpenFails \/ PlayerFails \/ ScanInit \/ ExitCloses
                 \/ \E x \in Actors : HandoffDone(x)
  PROVE  Quiet(app, app')
<1>1. app \in Apps /\ Quiet(app, app)
  BY QuietSame DEF TypeOK
<1>2. CASE TimeoutReported \/ OpenFails \/ PlayerFails
  <2>1. \E unsafe \in BOOLEAN : app' \in {app, PlayerError(app, unsafe)}
    BY <1>2 DEF TimeoutReported, OpenFails, PlayerFails
  <2> QED BY <1>1, <2>1, QuietHelpers
<1>3. CASE ScanInit \/ ExitCloses \/ \E x \in Actors : HandoffDone(x)
  <2>1. \E b \in BOOLEAN : app' \in {app, [app EXCEPT !.network_ready = b],
                                     [app EXCEPT !.switching = FALSE]}
    <3>1. CASE ScanInit
      <4> DEFINE ready == app.network_ready \/ ~(app.network_ready \/ ScanStopped)
      <4>1. ready \in BOOLEAN
        OBVIOUS
      <4>2. app' = app \/ app' = [app EXCEPT !.network_ready = ready]
        BY <3>1 DEF ScanInit
      <4> QED BY <4>1, <4>2
    <3>2. CASE ExitCloses \/ \E x \in Actors : HandoffDone(x)
      BY <3>2 DEF ExitCloses, HandoffDone
    <3> QED BY <1>3, <3>1, <3>2
  <2> QED BY <1>1, <2>1 DEF Quiet, KeepsWorker, Apps
<1> QED BY <1>2, <1>3

-----------------------------------------------------------------------------
(* The sections that end or begin the wait for a playback.                  *)

LEMMA KeepsAgain ==
  ASSUME NEW a, NEW b, NEW c, KeepsWorker(a, b), KeepsWorker(b, c) PROVE KeepsWorker(a, c)
BY DEF KeepsWorker, WorkerKnown

(* update_player_return_locked.                                             *)
LEMMA ReturnUpdate ==
  ASSUME NEW a \in Apps
  PROVE  /\ KeepsWorker(a, UpdateReturn(a))
         /\ UpdateReturn(a).awaiting = IF PlayerReturned(a) THEN FALSE ELSE a.awaiting
<1>1. CASE ~PlayerReturned(a)
  BY <1>1, QuietSame DEF UpdateReturn, Quiet
<1>2. CASE PlayerReturned(a)
  <2> DEFINE back == [a EXCEPT !.awaiting = FALSE]
             d == DropIntent(back)
             p == Prepare(ResetRelock(back))
             known == WorkerKnown(a)
             q == [p EXCEPT !.step = FALSE, !.target = FALSE, !.cancel_to_deck = FALSE]
             retune == [q EXCEPT !.queued_tune = FALSE, !.launch_after_reap = @ \/ known]
             stopped == [d EXCEPT !.cancel_to_deck = FALSE, !.cleanup = TRUE]
  <2>1. back \in Apps /\ KeepsWorker(a, back) /\ back.awaiting = FALSE
    BY DEF KeepsWorker, Apps
  <2>2. ResetRelock(back) \in Apps /\ Quiet(back, ResetRelock(back)) /\ Quiet(back, d)
    BY <2>1, QuietHelpers DEF Quiet, KeepsWorker
  <2>3. Quiet(ResetRelock(back), p)
    BY <2>2, QuietHelpers
  <2>r. KeepsWorker(back, ResetRelock(back)) /\ KeepsWorker(ResetRelock(back), p)
    BY <2>2, <2>3 DEF Quiet
  <2>p. p \in Apps /\ p.awaiting = FALSE
    BY <2>1, <2>2, <2>3 DEF Quiet, KeepsWorker
  <2>4. KeepsWorker(a, p) /\ p \in Apps /\ p.awaiting = FALSE
    BY <2>1, <2>r, <2>p, KeepsAgain
  <2>5. KeepsWorker(a, d) /\ d \in Apps /\ d.awaiting = FALSE
    BY <2>1, <2>2, KeepsAgain DEF Quiet, KeepsWorker
  <2>6. UpdateReturn(a) = retune \/ \E s \in AppStates :
          UpdateReturn(a) \in {stopped, [stopped EXCEPT !.state = s], Status(stopped, s)}
    BY <1>2 DEF UpdateReturn, AppStates
  <2>7. known \in BOOLEAN
    BY DEF WorkerKnown
  <2> HIDE DEF back, d, p
  <2>8. q \in Apps /\ KeepsWorker(p, q) /\ q.awaiting = FALSE
    BY <2>4 DEF KeepsWorker, Apps
  <2> HIDE DEF q
  <2>9. retune \in Apps
    <3>1. (q.launch_after_reap \/ known) \in BOOLEAN
      OBVIOUS
    <3> HIDE DEF known
    <3> QED BY <2>8, <3>1 DEF Apps
  <2>10. KeepsWorker(a, q)
    BY <2>4, <2>8, KeepsAgain
  <2>11. KeepsWorker(a, retune) /\ retune.awaiting = FALSE
    BY <2>8, <2>9, <2>10 DEF KeepsWorker, Apps
  <2>12. stopped \in Apps /\ KeepsWorker(d, stopped) /\ stopped.awaiting = FALSE
    BY <2>5 DEF KeepsWorker, Apps
  <2>13. KeepsWorker(a, stopped)
    BY <2>5, <2>12, KeepsAgain
  <2> HIDE DEF retune, stopped
  <2>14. ASSUME NEW s \in AppStates
         PROVE  Quiet(stopped, [stopped EXCEPT !.state = s]) /\ Quiet(stopped, Status(stopped, s))
    <3>1. Quiet(stopped, [stopped EXCEPT !.state = s])
      BY <2>12 DEF Quiet, KeepsWorker, Apps, AppStates
    <3> QED BY <2>12, <3>1, QuietHelpers
  <2> QED BY <1>2, <2>6, <2>11, <2>12, <2>13, <2>14, KeepsAgain DEF Quiet
<1> QED BY <1>1, <1>2

LEMMA QuietLatched == ASSUME app \in Apps PROVE Quiet(app, Latched) /\ Latched \in Apps
<1> DEFINE s == [app EXCEPT !.cancel_to_deck = FALSE, !.target = FALSE, !.step = TRUE,
                            !.switching = TRUE]
<1>1. Latched \in {app, Cancelled(app), s}
  BY DEF Latched
<1>2. s \in Apps
  BY DEF Apps
<1>3. Quiet(app, s)
  BY <1>2 DEF Quiet, KeepsWorker, Apps
<1> HIDE DEF s
<1> QED BY <1>1, <1>3, QuietSame, QuietHelpers DEF Quiet, KeepsWorker

(* Either thread's return: the wait ends, or nothing about it changes.      *)
LEMMA ReturnEffect ==
  ASSUME TypeOK, HidReturns \/ \E u \in UI : Return(u)
  PROVE  /\ KeepsWorker(app, app')
         /\ \/ app'.awaiting = app.awaiting
            \/ PlayerReturned(app) /\ app'.awaiting = FALSE
<1>1. app \in Apps
  BY DEF TypeOK
<1>2. CASE \E u \in UI : Return(u)
  <2>1. app' = UpdateReturn(app)
    BY <1>2 DEF Return
  <2> QED BY <1>1, <2>1, ReturnUpdate
<1>3. CASE HidReturns
  <2>1. app' = app \/ app' = UpdateReturn(Latched)
    BY <1>3 DEF HidReturns
  <2>2. KeepsWorker(app, Latched) /\ Latched \in Apps /\ Latched.awaiting = app.awaiting
    BY <1>1, QuietLatched DEF Quiet
  <2>3. /\ KeepsWorker(Latched, UpdateReturn(Latched))
        /\ UpdateReturn(Latched).awaiting = IF PlayerReturned(Latched) THEN FALSE
                                            ELSE Latched.awaiting
    BY <2>2, ReturnUpdate
  <2>4. PlayerReturned(Latched) = PlayerReturned(app)
    BY <2>2 DEF PlayerReturned
  <2> QED BY <1>1, <2>1, <2>2, <2>3, <2>4, KeepsAgain, QuietSame DEF Quiet
<1> QED BY <1>2, <1>3

LEMMA HandoffEffect ==
  ASSUME TypeOK, NEW x \in Actors
  PROVE  /\ BeginHandoff(x) => KeepsWorker(app, app')
         /\ HandoffFailed(x) => KeepsWorker(app, app') /\ app'.awaiting = FALSE
<1>1. app \in Apps /\ KeepsWorker(app, app)
  BY QuietSame DEF TypeOK, Quiet
<1>2. ASSUME BeginHandoff(x) PROVE KeepsWorker(app, app')
  <2>1. app' \in {app, [app EXCEPT !.awaiting = TRUE]}
    BY <1>2 DEF BeginHandoff
  <2> QED BY <1>1, <2>1 DEF KeepsWorker, Apps
<1>3. ASSUME HandoffFailed(x) PROVE KeepsWorker(app, app') /\ app'.awaiting = FALSE
  <2> DEFINE d == DropIntent(app)
             e == [d EXCEPT !.awaiting = FALSE]
  <2>1. d \in Apps /\ KeepsWorker(app, d)
    BY <1>1, QuietHelpers DEF Quiet, KeepsWorker
  <2>2. app' = Status(e, "error")
    BY <1>3 DEF HandoffFailed
  <2> HIDE DEF d
  <2>3. e \in Apps /\ KeepsWorker(d, e) /\ e.awaiting = FALSE
    BY <2>1 DEF KeepsWorker, Apps
  <2>4. Quiet(e, Status(e, "error"))
    BY <2>3, QuietHelpers DEF AppStates
  <2> HIDE DEF e
  <2> QED BY <2>1, <2>2, <2>3, <2>4, KeepsAgain DEF Quiet
<1> QED BY <1>2, <1>3

(* What follows a cleanup: a relock, the queued tune, the error or nothing. *)
LEMMA QuietCleaned ==
  ASSUME TypeOK, NEW u \in UI, Cleaned(u) PROVE Quiet(app, app')
<1> DEFINE c == [app EXCEPT !.cleanup = FALSE]
           f == [c EXCEPT !.state = "error", !.unsafe = FALSE]
           p == Prepare(c)
           known == WorkerKnown(app)
           relock(n) == [p EXCEPT !.relocks = n + 1, !.launch_after_reap = @ \/ known]
<1>1. app \in Apps /\ app.relocks \in 0..AUTO_RELOCK_MAX_ATTEMPTS
  BY DEF TypeOK, Apps
<1>2. c \in Apps /\ Quiet(app, c)
  BY <1>1 DEF Quiet, KeepsWorker, Apps
<1>3. \/ \E n \in 0..AUTO_RELOCK_MAX_ATTEMPTS :
           n < AUTO_RELOCK_MAX_ATTEMPTS /\ app' = relock(n)
      \/ app' \in {c, f, PrepareQueued(c), PrepareQueued(f)}
  <2>1. PICK expired \in BOOLEAN :
          LET n == IF expired THEN 0 ELSE app.relocks IN
          \/ n < AUTO_RELOCK_MAX_ATTEMPTS /\ app' = relock(n)
          \/ app' \in {c, f, PrepareQueued(c), PrepareQueued(f)}
    BY DEF Cleaned
  <2> HIDE DEF c, f, p, known, relock
  <2> QED BY <1>1, <2>1, LiveAppAssumption
<1>4. Quiet(c, p) /\ p \in Apps /\ known \in BOOLEAN
  BY <1>2, QuietHelpers DEF WorkerKnown, Quiet, KeepsWorker
<1>5. Quiet(app, p)
  BY <1>2, <1>4, QuietAgain
<1> HIDE DEF c, p, known
<1>6. f \in Apps /\ Quiet(c, f)
  BY <1>2 DEF Quiet, KeepsWorker, Apps
<1> HIDE DEF f
<1>7. ASSUME NEW n \in 0..AUTO_RELOCK_MAX_ATTEMPTS, n < AUTO_RELOCK_MAX_ATTEMPTS
      PROVE  Quiet(app, relock(n))
  <2> DEFINE m == n + 1
  <2>1. m \in 0..AUTO_RELOCK_MAX_ATTEMPTS
    BY <1>7, LiveAppAssumption
  <2>2. (p.launch_after_reap \/ known) \in BOOLEAN
    OBVIOUS
  <2> HIDE DEF m
  <2>3. relock(n) \in Apps
    <3>1. relock(n) = [p EXCEPT !.relocks = m, !.launch_after_reap = @ \/ known]
      BY DEF m
    <3> HIDE DEF relock
    <3> QED BY <1>4, <2>1, <2>2, <3>1 DEF Apps
  <2> QED BY <1>4, <1>5, <2>3 DEF Quiet, KeepsWorker, Apps, known
<1> HIDE DEF relock
<1>8. Quiet(c, PrepareQueued(c)) /\ Quiet(f, PrepareQueued(f))
  BY <1>2, <1>6, QuietHelpers
<1> QED BY <1>2, <1>3, <1>6, <1>7, <1>8, QuietAgain

-----------------------------------------------------------------------------
(* The sections that take, give back or make the worker's handle.           *)

LEMMA DetachEffect ==
  ASSUME app \in Apps
  PROVE  LET a == Detached(app) IN
         /\ a \in Apps /\ a.worker = NoWorker /\ a.reaping = TRUE
         /\ a.launch_after_reap = app.launch_after_reap
         /\ a.exit = app.exit /\ a.awaiting = app.awaiting
BY DEF Detached, Apps

LEMMA ReapedEffect ==
  ASSUME TypeOK, NEW u \in UI, Reaped(u)
  PROVE  /\ app' \in Apps /\ app'.worker = app.worker /\ app'.finished = app.finished
         /\ ~app'.launch_after_reap
         /\ app'.exit = app.exit /\ app'.awaiting = app.awaiting
<1>1. app \in Apps
  BY DEF TypeOK
<1>2. PICK b : app' = ReapEnds(b) /\ b \in {app, PrepareQueued(app), BackToDeck(app)}
  BY DEF Reaped
<1>3. Quiet(app, b) /\ b \in Apps
  BY <1>1, <1>2, QuietSame, QuietHelpers DEF Quiet, KeepsWorker
<1> QED BY <1>2, <1>3 DEF Quiet, KeepsWorker, ReapEnds, Apps

LEMMA TailEffect ==
  ASSUME TypeOK, NEW w \in Workers, WorkerTail(w)
  PROVE  /\ app' \in Apps /\ app'.worker = app.worker /\ app'.finished
         /\ app'.reaping = app.reaping /\ app'.exit = app.exit
         /\ app'.awaiting = app.awaiting
         /\ app'.launch_after_reap => app.launch_after_reap \/ WorkerKnown(app)
<1>1. app \in Apps
  BY DEF TypeOK
<1>2. PICK b : /\ app' = [b EXCEPT !.finished = TRUE]
               /\ b \in {app, BackToDeck(app), Status(app, "loading")}
  BY DEF WorkerTail
<1>3. Quiet(app, b) /\ b \in Apps
  BY <1>1, <1>2, QuietSame, QuietHelpers DEF Quiet, KeepsWorker, AppStates
<1> QED BY <1>2, <1>3 DEF Quiet, KeepsWorker, Apps

LEMMA ExitEffect ==
  ASSUME TypeOK, ExitBegins
  PROVE  app' \in Apps /\ app'.worker = NoWorker /\ app'.exit = TRUE
<1> DEFINE d == DropIntent(app)
<1>1. d \in Apps
  BY QuietHelpers DEF TypeOK, Quiet, KeepsWorker
<1>2. app' = [d EXCEPT !.exit = TRUE, !.worker = NoWorker]
  BY DEF ExitBegins
<1> HIDE DEF d
<1> QED BY <1>1, <1>2 DEF Apps

Free == CHOOSE w \in Workers : wk[w].pc = "none"

(* The worker is only made where there is none; elsewhere the launch is     *)
(* left to the reaper, or given up.                                         *)
LEMMA CreateEffect ==
  ASSUME TypeOK, NEW u \in UI, CreateWorker(u), MayCreate => Free \in Workers
  PROVE  /\ app' \in Apps /\ app'.exit = app.exit /\ app'.awaiting = app.awaiting
         /\ app'.reaping = app.reaping
         /\ \/ /\ wk' = wk /\ app'.worker = app.worker
               /\ app'.finished = app.finished \/ app.worker = NoWorker
               /\ app'.launch_after_reap => app.launch_after_reap \/ app.reaping
            \/ /\ MayCreate
               /\ app'.worker = Free /\ ~app'.finished
               /\ wk' = [wk EXCEPT ![Free].pc = "begin"]
<1>1. app \in Apps
  BY DEF TypeOK
<1>2. CASE ~MayCreate /\ app' = [app EXCEPT !.launch_after_reap = @ \/ (~app.exit /\ app.reaping)]
           /\ wk' = wk
  <2> DEFINE launch == app.launch_after_reap \/ (~app.exit /\ app.reaping)
  <2>1. launch \in BOOLEAN /\ app' = [app EXCEPT !.launch_after_reap = launch]
    BY <1>2
  <2>2. launch => app.launch_after_reap \/ app.reaping
    OBVIOUS
  <2> HIDE DEF launch
  <2> QED BY <1>1, <1>2, <2>1, <2>2 DEF Apps
<1>3. CASE MayCreate /\ app' = [app EXCEPT !.worker = Free, !.finished = FALSE]
           /\ wk' = [wk EXCEPT ![Free].pc = "begin"]
  <2>1. app' \in Apps
    BY <1>1, <1>3 DEF Apps
  <2> QED BY <1>1, <1>3, <2>1 DEF Apps
<1>4. CASE /\ MayCreate /\ wk' = wk
           /\ app' = Status([app EXCEPT !.step = FALSE, !.switching = FALSE,
                                        !.finished = FALSE], "error")
  <2> DEFINE b == [app EXCEPT !.step = FALSE, !.switching = FALSE, !.finished = FALSE]
  <2>1. /\ b \in Apps /\ b.worker = app.worker /\ b.exit = app.exit
        /\ b.awaiting = app.awaiting /\ b.reaping = app.reaping
        /\ b.launch_after_reap = app.launch_after_reap
    BY <1>1 DEF Apps
  <2> HIDE DEF b
  <2>2. app' = Status(b, "error")
    BY <1>4 DEF b
  <2>3. Status(b, "error") \in Apps
    BY <2>1, QuietHelpers DEF Quiet, KeepsWorker, AppStates
  <2>4. /\ app'.worker = b.worker /\ app'.exit = b.exit /\ app'.awaiting = b.awaiting
        /\ app'.reaping = b.reaping /\ app'.launch_after_reap = b.launch_after_reap
    BY <2>1, <2>2 DEF Status, Apps
  <2>5. app.worker = NoWorker
    BY <1>4 DEF MayCreate
  <2> QED BY <1>4, <2>1, <2>2, <2>3, <2>4, <2>5
<1> QED BY <1>2, <1>3, <1>4 DEF CreateWorker, Free

-----------------------------------------------------------------------------
(* The sections of the threads.                                             *)

(* The HID thread's own.                                                    *)
HidSection ==
  \/ HidScan \/ HidHook \/ HidInterrupt \/ HidDrawerTunes
  \/ HidReturns \/ HidCancels \/ HidQueues \/ HidClearsError \/ HidErrorSwitches
  \/ HidBrowses \/ HidBrowsed \/ HidStops \/ HidWatches \/ HidTunes \/ HidIgnores

(* The draw thread's own.                                                   *)
DrawSection == ReapScan \/ LaunchScan \/ TimeoutReported \/ StartupTimeout

LEMMA NextSteps ==
  ASSUME [Next]_vars
  PROVE  \/ \E u \in UI : UiStep(u)
         \/ \E x \in Actors : HandoffStep(x)
         \/ \E w \in Workers : WorkerStep(w)
         \/ HidSection \/ DrawSection \/ ExitStep \/ ExitBegins
         \/ PlayStep \/ PlayerFails \/ ScanStep \/ Produce \/ UNCHANGED vars
<1>1. "hid" \in UI /\ "draw" \in UI /\ "hid" \in Actors /\ \A w \in Workers : w \in Actors
  BY DEF UI, Actors
<1> QED BY <1>1 DEF Next, HidStep, DrawStep, WorkersStep, HidSection, DrawSection

-----------------------------------------------------------------------------
(* Types: `app'.                                                            *)

(* Poll detaches a finished worker, or leaves `app' alone.                  *)
LEMMA PollEffect ==
  ASSUME TypeOK, HidScan \/ HidInterrupt
  PROVE  \/ app' = app
         \/ ReapNow /\ ~app.exit /\ app' = Detached(app)
BY DEF HidScan, HidInterrupt, Poll, HookRuns

(* The sections that may change `app'.                                      *)
AppStep ==
  \/ \E w \in Workers : WorkerBegin(w) \/ WorkerSettle(w) \/ WorkerTail(w)
  \/ \E x \in Actors : BeginHandoff(x) \/ HandoffDone(x) \/ HandoffFailed(x)
  \/ \E u \in UI : Reap(u) \/ Reaped(u) \/ CreateWorker(u) \/ Return(u) \/ Cleaned(u)
  \/ HidScan \/ HidInterrupt \/ HidReturns \/ HidHook \/ HidCancels \/ HidQueues
  \/ HidClearsError \/ HidErrorSwitches \/ HidBrowses \/ HidTunes
  \/ TimeoutReported \/ OpenFails \/ PlayerFails \/ ScanInit \/ ExitCloses \/ ExitBegins

LEMMA AppSteps == ASSUME [Next]_vars PROVE AppStep \/ app' = app
<1>1. ASSUME NEW u \in UI, UiStep(u) PROVE AppStep \/ app' = app
  BY <1>1 DEF UiStep, AppStep, ScanJoined, Process, Stopped
<1>2. ASSUME NEW x \in Actors, HandoffStep(x) PROVE AppStep \/ app' = app
  BY <1>2 DEF HandoffStep, AppStep, OpenPlayer, HandoffStops
<1>3. ASSUME NEW w \in Workers, WorkerStep(w) PROVE AppStep \/ app' = app
  BY <1>3 DEF WorkerStep, AppStep, WorkerCheck, WorkerReset, WorkerStaged, WorkerFails,
              WorkerStop
<1>4. ASSUME HidSection \/ DrawSection \/ ExitStep PROVE AppStep \/ app' = app
  BY <1>4 DEF HidSection, AppStep, HidDrawerTunes, HidBrowsed, HidStops, HidWatches, HidIgnores,
              DrawSection, ReapScan, LaunchScan, StartupTimeout, ExitStep, ExitStops, ExitJoins,
              ExitPlayer
<1>5. ASSUME PlayStep \/ PlayerFails \/ ScanStep \/ Produce \/ ExitBegins \/ UNCHANGED vars
      PROVE  AppStep \/ app' = app
  BY <1>5 DEF PlayStep, TakePlay, PlayerOpens, PlayerEnds, TakeAbort, CountReturn, ScanStep,
              ScanNext, ScanFetched, ScanEnds, Produce, AppStep, vars
<1> QED BY <1>1, <1>2, <1>3, <1>4, <1>5, NextSteps

LEMMA AppTyped ==
  ASSUME TypeOK, AppStep, \A u \in UI : CreateWorker(u) /\ MayCreate => Free \in Workers
  PROVE  app' \in Apps
<1>1. app \in Apps
  BY DEF TypeOK
<1>2. ASSUME NEW w \in Workers, WorkerBegin(w) \/ WorkerSettle(w) \/ WorkerTail(w)
      PROVE  app' \in Apps
  BY <1>2, QuietWorker, TailEffect DEF Quiet, KeepsWorker
<1>3. ASSUME NEW x \in Actors, BeginHandoff(x) \/ HandoffDone(x) \/ HandoffFailed(x)
      PROVE  app' \in Apps
  BY <1>3, HandoffEffect, QuietOthers DEF Quiet, KeepsWorker
<1>4. ASSUME NEW u \in UI, Reap(u) \/ Reaped(u) \/ CreateWorker(u) \/ Return(u) \/ Cleaned(u)
      PROVE  app' \in Apps
  <2>1. CASE Reap(u)
    BY <1>1, <2>1, DetachEffect DEF Reap
  <2>2. CASE Reaped(u) \/ CreateWorker(u)
    BY <2>2, ReapedEffect, CreateEffect
  <2>3. CASE Return(u) \/ Cleaned(u)
    BY <2>3, ReturnEffect, QuietCleaned DEF Quiet, KeepsWorker
  <2> QED BY <1>4, <2>1, <2>2, <2>3
<1>5. ASSUME HidScan \/ HidInterrupt PROVE app' \in Apps
  BY <1>1, <1>5, PollEffect, DetachEffect
<1>6. ASSUME HidReturns \/ ExitBegins PROVE app' \in Apps
  BY <1>6, ReturnEffect, ExitEffect DEF KeepsWorker
<1>7. ASSUME \/ HidHook \/ HidCancels \/ HidQueues \/ HidClearsError \/ HidErrorSwitches
             \/ HidBrowses \/ HidTunes
      PROVE  app' \in Apps
  BY <1>7, QuietHid DEF Quiet, KeepsWorker
<1>8. ASSUME TimeoutReported \/ OpenFails \/ PlayerFails \/ ScanInit \/ ExitCloses
      PROVE  app' \in Apps
  BY <1>8, QuietOthers DEF Quiet, KeepsWorker
<1> QED BY <1>2, <1>3, <1>4, <1>5, <1>6, <1>7, <1>8 DEF AppStep

-----------------------------------------------------------------------------
(* Types: the workers and the UI threads.                                   *)

UiPcs ==
  {"idle", "reaped", "joinscan", "create", "process", "stopping", "cleaned",
   "hook", "interrupt", "drawer", "keys", "stops", "browses", "padstop",
   "timeout"} \cup HandoffPcs \cup ExitPcs

(* Where both UI threads may be; where a hand-over counts on its player.    *)
CommonPcs == {"idle", "reaped", "joinscan", "create", "process", "stopping", "cleaned", "keys"}
OpeningPcs == {"open", "openstop", "openfailed"}

OnlyWorker(w) ==
  /\ wk' \in [Workers -> WorkerStates]
  /\ \A v \in Workers : v # w => wk'[v] = wk[v]

OnlyUi(u) ==
  /\ ui' \in [UI -> UiStates]
  /\ \A v \in UI : v # u => ui'[v] = ui[v]

LEMMA WorkerWk ==
  ASSUME TypeOK, NEW w \in Workers, WorkerStep(w)
  PROVE  OnlyWorker(w) /\ wk[w].pc # "none" /\ wk'[w].pc \notin OpeningPcs
<1>1. wk \in [Workers -> WorkerStates] /\ wk[w] \in WorkerStates
  BY DEF TypeOK
<1>2. \A pc \in {"check", "old", "staging", "stop", "tail", "handoff"} :
        WorkerGoto(w, pc) => OnlyWorker(w) /\ wk'[w].pc = pc
  BY <1>1 DEF WorkerGoto, OnlyWorker, WorkerStates, HandoffPcs
<1>3. ASSUME NEW ok \in BOOLEAN, Settle(w, ok)
      PROVE  OnlyWorker(w) /\ wk'[w].pc = "settle"
  <2> DEFINE r == [wk[w] EXCEPT !.pc = "settle", !.ok = ok]
  <2>1. r \in WorkerStates /\ r.pc = "settle"
    BY <1>1 DEF WorkerStates
  <2>2. wk' = [wk EXCEPT ![w] = r]
    BY <1>1, <1>3 DEF Settle, WorkerStates
  <2> HIDE DEF r
  <2> QED BY <1>1, <2>1, <2>2 DEF OnlyWorker
<1>4. CASE WorkerTail(w)
  BY <1>1, <1>4 DEF WorkerTail, OnlyWorker, WorkerStates, OpeningPcs
<1>5. CASE WorkerBegin(w)
  <2>1. WorkerGoto(w, "check") \/ Settle(w, FALSE)
    BY <1>5 DEF WorkerBegin, WorkerGoto
  <2> QED BY <1>2, <1>3, <1>5, <2>1 DEF WorkerBegin, OpeningPcs
<1>6. CASE WorkerCheck(w) \/ WorkerReset(w) \/ WorkerStaged(w) \/ WorkerFails(w)
  <2>1. WorkerGoto(w, "old") \/ WorkerGoto(w, "staging") \/ \E ok \in BOOLEAN : Settle(w, ok)
    BY <1>6 DEF WorkerCheck, WorkerReset, WorkerStaged, WorkerFails
  <2>2. wk[w].pc # "none"
    BY <1>6 DEF WorkerCheck, WorkerReset, WorkerStaged, WorkerFails
  <2> QED BY <1>2, <1>3, <2>1, <2>2 DEF OpeningPcs
<1>7. CASE WorkerSettle(w) \/ WorkerStop(w)
  <2>1. \E pc \in {"tail", "stop", "handoff"} : WorkerGoto(w, pc)
    BY <1>7 DEF WorkerSettle, WorkerStop
  <2>2. wk[w].pc # "none"
    BY <1>7 DEF WorkerSettle, WorkerStop
  <2> QED BY <1>2, <2>1, <2>2 DEF OpeningPcs
<1> QED BY <1>4, <1>5, <1>6, <1>7 DEF WorkerStep

LEMMA GotoEffect ==
  ASSUME TypeOK, NEW u \in UI, NEW pc \in UiPcs, Goto(u, pc)
  PROVE  /\ OnlyUi(u) /\ ui'[u].pc = pc
         /\ pc # "idle" => ui'[u].worker = ui[u].worker /\ ui'[u].joins = ui[u].joins
<1>1. ui \in [UI -> UiStates] /\ ui[u] \in UiStates /\ Idle \in UiStates /\ Idle.pc = "idle"
  BY DEF TypeOK, UiStates, Idle, Buttons, StreamErrors
<1>2. CASE pc = "idle"
  BY <1>1, <1>2 DEF Goto, OnlyUi
<1>3. CASE pc # "idle"
  <2> DEFINE r == [ui[u] EXCEPT !.pc = pc]
  <2>1. /\ r \in UiStates /\ r.pc = pc /\ r.worker = ui[u].worker /\ r.joins = ui[u].joins
    BY <1>1 DEF UiStates, UiPcs
  <2>2. ui' = [ui EXCEPT ![u] = r]
    BY <1>3 DEF Goto
  <2> HIDE DEF r
  <2> QED BY <1>1, <1>3, <2>1, <2>2 DEF OnlyUi
<1> QED BY <1>2, <1>3

LEMMA LaunchEffect ==
  ASSUME TypeOK, NEW u \in UI, NEW then \in {"idle", "keys"}, Launch(u, then)
  PROVE  /\ OnlyUi(u) /\ ui'[u].pc = "joinscan" /\ ui'[u].joins = scan.handle
         /\ scan' = [scan EXCEPT !.stop = TRUE, !.handle = FALSE]
<1> DEFINE button == IF then = "keys" THEN ui[u].button ELSE "none"
           r == [Idle EXCEPT !.pc = "joinscan", !.joins = scan.handle, !.then = then,
                             !.button = button]
<1>1. ui \in [UI -> UiStates] /\ ui[u] \in UiStates /\ scan.handle \in BOOLEAN
  BY DEF TypeOK, Scanners
<1>2. button \in Buttons \cup {"none", "held"}
  BY <1>1 DEF UiStates
<1>3. /\ ui' = [ui EXCEPT ![u] = r]
      /\ scan' = [scan EXCEPT !.stop = TRUE, !.handle = FALSE]
  BY DEF Launch
<1> HIDE DEF button
<1>4. r \in UiStates /\ r.pc = "joinscan" /\ r.joins = scan.handle
  BY <1>1, <1>2 DEF UiStates, Idle, StreamErrors
<1> HIDE DEF r
<1> QED BY <1>1, <1>3, <1>4 DEF OnlyUi

(* A record put in place of what the thread carried.                        *)
LEMMA UiReplaced ==
  ASSUME TypeOK, NEW u \in UI, NEW r \in UiStates, ui' = [ui EXCEPT ![u] = r]
  PROVE  OnlyUi(u) /\ ui'[u] = r
BY DEF TypeOK, OnlyUi

LEMMA AfterReapTyped == ASSUME NEW u \in UI PROVE AfterReap(u) \in {"idle", "keys"}
BY DEF AfterReap

LEMMA UiStepUi ==
  ASSUME TypeOK, NEW u \in UI, UiStep(u)
  PROVE  OnlyUi(u) /\ ui[u].pc \in CommonPcs /\ ui'[u].pc \in CommonPcs
<1> USE DEF At, CommonPcs
<1>1. ui \in [UI -> UiStates] /\ ui[u] \in UiStates
  BY DEF TypeOK
<1>2. ASSUME NEW pc \in CommonPcs, Goto(u, pc) PROVE OnlyUi(u) /\ ui'[u].pc \in CommonPcs
  BY <1>2, GotoEffect DEF UiPcs
<1>3. ASSUME NEW then \in {"idle", "keys"}, Launch(u, then)
      PROVE  OnlyUi(u) /\ ui'[u].pc \in CommonPcs
  BY <1>3, LaunchEffect
<1>4. CASE Reap(u) \/ Stopped(u)
  BY <1>2, <1>4 DEF Reap, Stopped
<1>5. CASE Reaped(u)
  <2>1. Launch(u, AfterReap(u)) \/ Goto(u, AfterReap(u))
    BY <1>5 DEF Reaped
  <2>2. ui[u].pc = "reaped"
    BY <1>5 DEF Reaped
  <2> QED BY <1>2, <1>3, <2>1, <2>2, AfterReapTyped
<1>6. CASE ScanJoined(u)
  <2> DEFINE r == [ui[u] EXCEPT !.pc = "create", !.joins = FALSE]
  <2>1. r \in UiStates /\ r.pc = "create"
    BY <1>1 DEF UiStates
  <2>2. ui' = [ui EXCEPT ![u] = r]
    BY <1>1, <1>6 DEF ScanJoined, UiStates
  <2> HIDE DEF r
  <2> QED BY <1>6, <2>1, <2>2, UiReplaced DEF ScanJoined
<1>7. CASE CreateWorker(u)
  <2> DEFINE r == [Idle EXCEPT !.pc = ui[u].then, !.button = ui[u].button]
  <2>1. r \in UiStates /\ r.pc \in {"idle", "keys"}
    BY <1>1 DEF UiStates, Idle, StreamErrors
  <2>2. ui' = [ui EXCEPT ![u] = r]
    BY <1>7 DEF CreateWorker
  <2> HIDE DEF r
  <2> QED BY <1>7, <2>1, <2>2, UiReplaced DEF CreateWorker
<1>8. CASE Return(u)
  <2> DEFINE act == ReturnAction(app)
             r == [Idle EXCEPT !.pc = "process", !.act = act]
  <2>1. act \in {"none", "retune", "deck", "stop"}
    BY DEF ReturnAction
  <2>2. ui' = [ui EXCEPT ![u] = r]
    BY <1>8 DEF Return
  <2> HIDE DEF act
  <2>3. r \in UiStates /\ r.pc = "process"
    BY <2>1 DEF UiStates, Idle, StreamErrors, Buttons
  <2> HIDE DEF r
  <2> QED BY <1>8, <2>2, <2>3, UiReplaced DEF Return
<1>9. CASE Process(u)
  <2> DEFINE error == IF ui[u].act = "stop" THEN stream.error ELSE "none"
             unsafe == ui[u].act = "stop" /\ app.unsafe
             r == [ui[u] EXCEPT !.pc = "stopping", !.error = error, !.unsafe = unsafe]
  <2>1. error \in StreamErrors /\ unsafe \in BOOLEAN
    BY DEF TypeOK, Streams, StreamErrors
  <2>2. Launch(u, "idle") \/ ui' = [ui EXCEPT ![u] = r]
    BY <1>1, <1>9 DEF Process, UiStates
  <2> HIDE DEF error, unsafe
  <2>3. r \in UiStates /\ r.pc = "stopping"
    BY <1>1, <2>1 DEF UiStates
  <2> HIDE DEF r
  <2> QED BY <1>3, <1>9, <2>2, <2>3, UiReplaced DEF Process
<1>10. CASE Cleaned(u)
  <2>1. Launch(u, "idle") \/ Goto(u, "idle")
    BY <1>10 DEF Cleaned
  <2> QED BY <1>2, <1>3, <1>10, <2>1 DEF Cleaned
<1> QED BY <1>4, <1>5, <1>6, <1>7, <1>8, <1>9, <1>10 DEF UiStep

LEMMA HidUi ==
  ASSUME TypeOK, HidSection
  PROVE  /\ OnlyUi("hid") /\ ui["hid"].pc \notin OpeningPcs /\ ui'["hid"].pc \notin OpeningPcs
         /\ ui["hid"].pc # "joinscan"
<1>1. ui \in [UI -> UiStates] /\ ui["hid"] \in UiStates /\ "hid" \in UI
  BY DEF TypeOK, UI
<1>2. ASSUME NEW pc \in UiPcs \ OpeningPcs, Goto("hid", pc)
      PROVE  OnlyUi("hid") /\ ui'["hid"].pc \notin OpeningPcs
  BY <1>1, <1>2, GotoEffect
<1>3. ASSUME NEW r \in UiStates, ui' = [ui EXCEPT !["hid"] = r], r.pc \notin OpeningPcs
      PROVE  OnlyUi("hid") /\ ui'["hid"].pc \notin OpeningPcs
  BY <1>1, <1>3, UiReplaced
<1>4. ASSUME NEW p, NEW b \in Buttons \cup {"none", "held"}, Poll(p, b)
      PROVE  OnlyUi("hid") /\ ui'["hid"].pc \notin OpeningPcs
  <2>1. \/ ui' = [ui EXCEPT !["hid"] = Idle]
        \/ \E pc \in {"reaped", "keys"} :
             ui' = [ui EXCEPT !["hid"] = [Idle EXCEPT !.pc = pc, !.button = b]]
    BY <1>4 DEF Poll
  <2>2. Idle \in UiStates /\ Idle.pc = "idle"
    BY DEF UiStates, Idle, StreamErrors, Buttons
  <2>3. ASSUME NEW pc \in {"reaped", "keys"}
        PROVE  LET r == [Idle EXCEPT !.pc = pc, !.button = b]
               IN  r \in UiStates /\ r.pc = pc
    BY <1>4, <2>2 DEF UiStates
  <2> QED BY <1>3, <2>1, <2>2, <2>3 DEF OpeningPcs
<1>5. ui["hid"].pc \in {"idle", "hook", "interrupt", "drawer", "keys", "stops", "browses",
                        "padstop"}
  BY DEF HidSection, HidScan, HidHook, HidInterrupt, HidDrawerTunes, HidReturns, HidCancels,
         HidQueues, HidClearsError, HidErrorSwitches, HidBrowses, HidBrowsed, HidStops, HidWatches,
         HidTunes, HidIgnores, HidKey, At
<1> SUFFICES OnlyUi("hid") /\ ui'["hid"].pc \notin OpeningPcs
  BY <1>5 DEF OpeningPcs
<1>6. CASE HidScan
  <2>1. PICK b \in Buttons \cup {"none", "held"} :
          \/ ui' = [ui EXCEPT !["hid"].pc = "hook", !["hid"].button = b]
          \/ ui' = ui
          \/ Poll(player, b)
    BY <1>6 DEF HidScan
  <2> DEFINE r == [ui["hid"] EXCEPT !.pc = "hook", !.button = b]
  <2>2. r \in UiStates /\ r.pc = "hook"
    BY <1>1 DEF UiStates
  <2>3. ui' = ui \/ Poll(player, b) \/ ui' = [ui EXCEPT !["hid"] = r]
    BY <1>1, <2>1 DEF UiStates
  <2> HIDE DEF r
  <2>4. "hook" \notin OpeningPcs
    BY DEF OpeningPcs
  <2>5. CASE ui' = ui
    BY <1>1, <1>5, <2>5 DEF OnlyUi, OpeningPcs
  <2> QED BY <1>3, <1>4, <2>2, <2>3, <2>4, <2>5
<1>7. CASE HidInterrupt
  <2>1. \E p : Poll(p, ui["hid"].button)
    BY <1>7 DEF HidInterrupt
  <2>2. ui["hid"].button \in Buttons \cup {"none", "held"}
    BY <1>1 DEF UiStates
  <2> QED BY <1>4, <2>1, <2>2
<1>8. CASE HidReturns
  <2>1. Goto("hid", "idle") \/ \E act \in {"none", "retune", "deck", "stop"} :
          ui' = [ui EXCEPT !["hid"] = IF act = "none" THEN Idle
                                      ELSE [Idle EXCEPT !.pc = "process", !.act = act]]
    BY <1>8 DEF HidReturns, ReturnAction
  <2>2. ASSUME NEW act \in {"none", "retune", "deck", "stop"}
        PROVE  LET r == IF act = "none" THEN Idle
                        ELSE [Idle EXCEPT !.pc = "process", !.act = act]
               IN  r \in UiStates /\ r.pc \notin OpeningPcs
    BY DEF UiStates, Idle, StreamErrors, Buttons, OpeningPcs
  <2> QED BY <1>2, <1>3, <2>1, <2>2 DEF UiPcs, OpeningPcs
<1>9. CASE HidErrorSwitches \/ HidTunes
  <2>1. Goto("hid", "idle") \/ Goto("hid", "stops") \/ Launch("hid", "idle")
    BY <1>9 DEF HidErrorSwitches, HidTunes
  <2>2. Launch("hid", "idle") => OnlyUi("hid") /\ ui'["hid"].pc = "joinscan"
    BY <1>1, LaunchEffect
  <2> QED BY <1>2, <2>1, <2>2 DEF UiPcs, OpeningPcs
<1>10. CASE \/ HidHook \/ HidDrawerTunes \/ HidCancels \/ HidQueues \/ HidClearsError
            \/ HidBrowses \/ HidBrowsed \/ HidStops \/ HidWatches \/ HidIgnores
  <2>1. \E pc \in {"idle", "interrupt", "drawer", "stops", "browses", "padstop", "handoff"} :
          Goto("hid", pc)
    BY <1>10 DEF HidHook, HidDrawerTunes, HidCancels, HidQueues, HidClearsError, HidBrowses,
                 HidBrowsed, HidStops, HidWatches, HidIgnores
  <2> QED BY <1>2, <2>1 DEF UiPcs, OpeningPcs, HandoffPcs
<1> QED BY <1>6, <1>7, <1>8, <1>9, <1>10 DEF HidSection

(* The steps of a hand-over, by whichever thread.                           *)
PcOf(x) == IF x \in Workers THEN wk[x].pc ELSE ui[x].pc

LEMMA HandoffMoves ==
  ASSUME TypeOK, NEW x \in Actors, NEW pc \in HandoffPcs \cup {"end"}, PcOf(x) \in HandoffPcs,
         HandoffGoto(x, pc)
  PROVE  /\ wk' \in [Workers -> WorkerStates] /\ ui' \in [UI -> UiStates]
         /\ \A y \in Actors : y # x => PcOf(y)' = PcOf(y)
         /\ PcOf(x)' = pc \/ (pc = "end" /\ PcOf(x)' \in {"tail", "idle"})
         /\ \A w \in Workers : wk'[w].pc # "none" => wk[w].pc # "none"
         /\ ui'["draw"] = ui["draw"]
         /\ ui["hid"].pc = "joinscan" => ui'["hid"] = ui["hid"]
<1>1. /\ ui \in [UI -> UiStates] /\ wk \in [Workers -> WorkerStates]
      /\ "hid" \notin Workers /\ "draw" \notin Workers /\ UI = {"hid", "draw"}
      /\ Actors = Workers \cup {"hid"} /\ "none" \notin HandoffPcs /\ "joinscan" \notin HandoffPcs
  BY DEF TypeOK, Workers, UI, Actors, HandoffPcs
<1>2. CASE x \in Workers
  <2> DEFINE q == IF pc = "end" THEN "tail" ELSE pc
             r == [wk[x] EXCEPT !.pc = q]
  <2>1. wk' = [wk EXCEPT ![x] = r] /\ ui' = ui
    BY <1>1, <1>2 DEF HandoffGoto, WorkerGoto
  <2>2. r \in WorkerStates /\ r.pc = q
    BY <1>1, <1>2 DEF WorkerStates, HandoffPcs
  <2>3. wk[x].pc # "none"
    BY <1>1, <1>2 DEF PcOf
  <2> HIDE DEF r
  <2>4. /\ wk' \in [Workers -> WorkerStates] /\ wk'[x].pc = q
        /\ \A w \in Workers : w # x => wk'[w] = wk[w]
    BY <1>1, <1>2, <2>1, <2>2
  <2>5. \A y \in Actors : y # x => PcOf(y)' = PcOf(y)
    BY <1>1, <1>2, <2>1, <2>4 DEF PcOf
  <2>6. PcOf(x)' = q
    BY <1>2, <2>4 DEF PcOf
  <2> QED BY <1>1, <2>1, <2>3, <2>4, <2>5, <2>6
<1>3. CASE x = "hid"
  <2> DEFINE q == IF pc = "end" THEN "idle" ELSE pc
  <2>1. Goto("hid", q) /\ wk' = wk /\ ui["hid"].pc \in HandoffPcs
    BY <1>1, <1>3 DEF HandoffGoto, PcOf
  <2>2. q \in UiPcs
    BY DEF UiPcs
  <2>3. OnlyUi("hid") /\ ui'["hid"].pc = q
    BY <1>1, <2>1, <2>2, GotoEffect
  <2>4. \A y \in Actors : y # x => PcOf(y)' = PcOf(y)
    BY <1>1, <1>3, <2>1 DEF PcOf
  <2>5. PcOf(x)' = q
    BY <1>1, <1>3, <2>3 DEF PcOf
  <2> QED BY <1>1, <2>1, <2>3, <2>4, <2>5 DEF OnlyUi
<1> QED BY <1>1, <1>2, <1>3

LEMMA HandoffStepMoves ==
  ASSUME NEW x \in Actors, HandoffStep(x)
  PROVE  /\ PcOf(x) \in HandoffPcs
         /\ \E pc \in HandoffPcs \cup {"end"} : HandoffGoto(x, pc)
BY DEF HandoffStep, BeginHandoff, OpenPlayer, HandoffDone, HandoffStops, HandoffFailed,
       HandoffAt, PcOf, HandoffPcs

LEMMA DrawUi ==
  ASSUME TypeOK, DrawSection
  PROVE  /\ OnlyUi("draw") /\ ui["draw"].pc \in {"idle", "timeout"}
         /\ ui'["draw"].pc \in {"idle", "timeout"}
<1>1. ui["draw"].pc \in {"idle", "timeout"} /\ ui \in [UI -> UiStates] /\ "draw" \in UI
  BY DEF TypeOK, DrawSection, ReapScan, LaunchScan, TimeoutReported, StartupTimeout, At, UI
<1>2. ui' = ui \/ Goto("draw", "idle") \/ Goto("draw", "timeout")
  BY DEF DrawSection, ReapScan, LaunchScan, TimeoutReported, StartupTimeout
<1>3. \A pc \in {"idle", "timeout"} : Goto("draw", pc) => OnlyUi("draw") /\ ui'["draw"].pc = pc
  BY <1>1, GotoEffect DEF UiPcs
<1> QED BY <1>1, <1>2, <1>3 DEF OnlyUi

LEMMA ExitUi ==
  ASSUME TypeOK, ExitStep
  PROVE  /\ OnlyUi("draw") /\ ui["draw"].pc \in ExitPcs /\ ui'["draw"].pc \in ExitPcs
         /\ ui'["draw"].worker = ui["draw"].worker /\ ui'["draw"].joins = ui["draw"].joins
<1>1. ui["draw"].pc \in ExitPcs
  BY DEF ExitStep, ExitStops, ExitJoins, ExitPlayer, ExitCloses, At, ExitPcs
<1>2. \E pc \in ExitPcs : Goto("draw", pc)
  BY DEF ExitStep, ExitStops, ExitJoins, ExitPlayer, ExitCloses, ExitPcs
<1>3. \A pc \in ExitPcs : pc \in UiPcs /\ pc # "idle"
  BY DEF ExitPcs, UiPcs
<1> QED BY <1>1, <1>2, <1>3, GotoEffect DEF UI

LEMMA ExitBeginsUi ==
  ASSUME TypeOK, ExitBegins
  PROVE  /\ OnlyUi("draw") /\ ui["draw"].pc = "idle" /\ ui'["draw"].pc = "exit"
         /\ ui'["draw"].worker = app.worker /\ ui'["draw"].joins = scan.handle
<1> DEFINE r == [ui["draw"] EXCEPT !.pc = "exit", !.joins = scan.handle, !.worker = app.worker]
<1>1. /\ ui \in [UI -> UiStates] /\ "draw" \in UI /\ ui["draw"] \in UiStates
      /\ scan.handle \in BOOLEAN /\ app.worker \in Workers \cup {NoWorker}
  BY DEF TypeOK, UI, Scanners, Apps
<1>2. /\ r \in UiStates /\ r.pc = "exit" /\ r.worker = app.worker /\ r.joins = scan.handle
  BY <1>1 DEF UiStates, ExitPcs
<1>3. ui' = [ui EXCEPT !["draw"] = r] /\ ui["draw"].pc = "idle"
  BY <1>1 DEF ExitBegins, At, UiStates
<1> HIDE DEF r
<1> QED BY <1>1, <1>2, <1>3, UiReplaced

-----------------------------------------------------------------------------
(* Types: the stream, the scanner and the events.                           *)

LEMMA StopTyped ==
  ASSUME NEW s \in Streams
  PROVE  /\ RequestStop(s) \in Streams
         /\ RequestStop(s).phase = s.phase /\ RequestStop(s).producing = s.producing
<1>1. (s.stop \/ s.phase # "none") \in BOOLEAN
  OBVIOUS
<1> QED BY <1>1 DEF RequestStop, Streams

(* A stream that is over stays over but for a worker that starts a new one. *)
StreamStep ==
  \/ stream' = stream \/ stream' = NoStream \/ stream' = RequestStop(stream)
  \/ \E w \in Workers : WorkerReset(w) \/ WorkerStaged(w)
  \/ Produce

LEMMA StreamSteps == ASSUME [Next]_vars PROVE StreamStep
<1>1. ASSUME NEW u \in UI, UiStep(u) PROVE StreamStep
  BY <1>1 DEF UiStep, StreamStep, Reap, Reaped, ScanJoined, CreateWorker, Return, Process,
              Stopped, Cleaned
<1>2. ASSUME NEW x \in Actors, HandoffStep(x) PROVE StreamStep
  BY <1>2 DEF HandoffStep, StreamStep, BeginHandoff, OpenPlayer, HandoffDone, HandoffStops,
              HandoffFailed
<1>3. ASSUME NEW w \in Workers, WorkerStep(w) PROVE StreamStep
  BY <1>3 DEF WorkerStep, StreamStep, WorkerBegin, WorkerCheck, WorkerFails, WorkerSettle,
              WorkerStop, WorkerTail
<1>4. ASSUME HidSection PROVE StreamStep
  BY <1>4 DEF HidSection, StreamStep, HidScan, HidHook, HidInterrupt, HidDrawerTunes,
              HidReturns, HidCancels, HidQueues, HidClearsError, HidErrorSwitches, HidBrowses,
              HidBrowsed, HidStops, HidWatches, HidTunes, HidIgnores, HidKey
<1>5. ASSUME \/ DrawSection \/ ExitStep \/ ExitBegins \/ PlayStep \/ PlayerFails \/ ScanStep
             \/ Produce \/ UNCHANGED vars
      PROVE  StreamStep
  BY <1>5 DEF DrawSection, ReapScan, LaunchScan, TimeoutReported, StartupTimeout, ExitStep,
              ExitStops, ExitJoins, ExitPlayer, ExitCloses, ExitBegins, PlayStep, TakePlay,
              PlayerOpens, OpenFails, PlayerEnds, TakeAbort, CountReturn, PlayerFails, ScanStep,
              ScanInit, ScanNext, ScanFetched, ScanEnds, StreamStep, vars
<1> QED BY <1>1, <1>2, <1>3, <1>4, <1>5, NextSteps

LEMMA StreamTyped ==
  ASSUME TypeOK, StreamStep PROVE stream' \in Streams
<1>1. stream \in Streams /\ NoStream \in Streams
  BY DEF TypeOK, NoStream, Streams, StreamErrors
<1>2. ASSUME NEW w \in Workers, WorkerReset(w) \/ WorkerStaged(w) PROVE stream' \in Streams
  <2>1. stream' \in {NoStream, [NoStream EXCEPT !.phase = "starting"],
                     [stream EXCEPT !.phase = "live", !.producing = TRUE]}
    BY <1>2 DEF WorkerReset, WorkerStaged
  <2>2. [NoStream EXCEPT !.phase = "starting"] \in Streams
    BY <1>1 DEF Streams
  <2>3. [stream EXCEPT !.phase = "live", !.producing = TRUE] \in Streams
    BY <1>1 DEF Streams
  <2> QED BY <1>1, <2>1, <2>2, <2>3
<1>3. ASSUME Produce PROVE stream' \in Streams
  <2>1. \/ stream' = [stream EXCEPT !.producing = FALSE]
        \/ \E e \in {"recoverable", "fatal"} :
             stream' = [stream EXCEPT !.producing = FALSE, !.stop = TRUE, !.error = e]
    BY <1>3 DEF Produce
  <2>2. [stream EXCEPT !.producing = FALSE] \in Streams
    BY <1>1 DEF Streams
  <2>3. ASSUME NEW e \in {"recoverable", "fatal"}
        PROVE  [stream EXCEPT !.producing = FALSE, !.stop = TRUE, !.error = e] \in Streams
    BY <1>1 DEF Streams, StreamErrors
  <2> QED BY <2>1, <2>2, <2>3
<1> QED BY <1>1, <1>2, <1>3, StopTyped DEF StreamStep

(* A fetch is only begun for a source that is left.                         *)
FetchBound == scan.thread = "fetching" => scan.left > 0

(* A launch takes the handle of the scanner, to join it.                    *)
Launched(u) == ui[u].pc # "joinscan" /\ \E then \in {"idle", "keys"} : Launch(u, then)

ScanChanges ==
  \/ scan' = scan \/ ExitBegins \/ (\E u \in UI : Launched(u) \/ ScanJoined(u))
  \/ ReapScan \/ LaunchScan \/ ScanStep

LEMMA ScanSteps == ASSUME [Next]_vars PROVE ScanChanges
<1>1. ASSUME NEW u \in UI, UiStep(u) PROVE ScanChanges
  <2>1. Reaped(u) => scan' = scan \/ Launched(u)
    BY AfterReapTyped DEF Reaped, At, Launched
  <2>2. Process(u) => scan' = scan \/ Launched(u)
    BY DEF Process, At, Launched
  <2>3. Cleaned(u) => scan' = scan \/ Launched(u)
    BY Zenon DEF Cleaned, At, Launched
  <2>4. Reap(u) \/ CreateWorker(u) \/ Return(u) \/ Stopped(u) => scan' = scan
    BY DEF Reap, CreateWorker, Return, Stopped
  <2> QED BY <1>1, <2>1, <2>2, <2>3, <2>4 DEF UiStep, ScanChanges
<1>2. ASSUME NEW x \in Actors, HandoffStep(x) PROVE ScanChanges
  BY <1>2 DEF HandoffStep, ScanChanges, BeginHandoff, OpenPlayer, HandoffDone, HandoffStops,
              HandoffFailed
<1>3. ASSUME NEW w \in Workers, WorkerStep(w) PROVE ScanChanges
  BY <1>3 DEF WorkerStep, ScanChanges, WorkerBegin, WorkerCheck, WorkerReset, WorkerStaged,
              WorkerFails, WorkerSettle, WorkerStop, WorkerTail
<1>4. ASSUME HidSection PROVE ScanChanges
  <2>1. HidErrorSwitches \/ HidTunes => scan' = scan \/ Launched("hid")
    BY DEF HidErrorSwitches, HidTunes, HidKey, At, Launched
  <2>2. HidScan \/ HidInterrupt => scan' = scan
    BY Zenon DEF HidScan, HidInterrupt
  <2>3. HidHook \/ HidDrawerTunes \/ HidReturns \/ HidBrowsed \/ HidStops => scan' = scan
    BY DEF HidHook, HidDrawerTunes, HidReturns, HidBrowsed, HidStops
  <2>4. HidCancels \/ HidQueues \/ HidClearsError \/ HidBrowses \/ HidWatches \/ HidIgnores
          => scan' = scan
    BY DEF HidCancels, HidQueues, HidClearsError, HidBrowses, HidWatches, HidIgnores
  <2> QED BY <1>4, <2>1, <2>2, <2>3, <2>4 DEF HidSection, ScanChanges, UI
<1>5. ASSUME \/ DrawSection \/ ExitStep \/ ExitBegins \/ PlayStep \/ PlayerFails \/ ScanStep
             \/ Produce \/ UNCHANGED vars
      PROVE  ScanChanges
  BY <1>5 DEF DrawSection, TimeoutReported, StartupTimeout, ExitStep, ExitStops, ExitJoins,
              ExitPlayer, ExitCloses, PlayStep, TakePlay, PlayerOpens, OpenFails,
              PlayerEnds, TakeAbort, CountReturn, PlayerFails, PlayerStep, Produce,
              ScanChanges, vars
<1> QED BY <1>1, <1>2, <1>3, <1>4, <1>5, NextSteps

LEMMA ScanTyped ==
  ASSUME TypeOK, FetchBound, ScanChanges
  PROVE  scan' \in Scanners /\ FetchBound'
<1>1. /\ scan \in Scanners /\ scan.left \in 0..Scans /\ Scans \in Nat
      /\ scan.complete \in BOOLEAN
  BY LiveAppAssumption DEF TypeOK, Scanners
<1>2. CASE scan' = scan \/ ExitBegins \/ \E u \in UI : Launched(u)
  <2>1. scan' = scan \/ scan' = [scan EXCEPT !.stop = TRUE, !.handle = FALSE]
    BY <1>2, Zenon DEF Launched, Launch, ExitBegins
  <2> QED BY <1>1, <2>1 DEF Scanners, FetchBound
<1>3. CASE (\E u \in UI : ScanJoined(u)) \/ ReapScan
  BY <1>1, <1>3 DEF ScanJoined, ReapScan, Scanners, FetchBound
<1>4. CASE LaunchScan
  <2> DEFINE clear == [scan EXCEPT !.stop = FALSE, !.finished = FALSE]
  <2>1. clear \in Scanners /\ clear.thread = scan.thread /\ clear.left = scan.left
    BY <1>1 DEF Scanners
  <2>2. scan' = clear \/ scan' = [clear EXCEPT !.thread = "init", !.handle = TRUE]
    BY <1>4 DEF LaunchScan
  <2> HIDE DEF clear
  <2> QED BY <1>1, <2>1, <2>2 DEF Scanners, FetchBound
<1>5. CASE ScanInit
  BY <1>1, <1>5 DEF ScanInit, Scanners, FetchBound
<1>6. CASE ScanNext
  <2> DEFINE complete == scan.complete \/ scan.left = 0
  <2>1. complete \in BOOLEAN
    BY <1>1
  <2>2. \/ scan' = [scan EXCEPT !.thread = "ending", !.complete = complete]
        \/ scan.left # 0 /\ scan' = [scan EXCEPT !.thread = "fetching"]
    BY <1>6 DEF ScanNext
  <2> HIDE DEF complete
  <2>3. CASE scan' = [scan EXCEPT !.thread = "ending", !.complete = complete]
    <3>1. scan' \in Scanners
      BY <1>1, <2>1, <2>3 DEF Scanners
    <3>2. scan'.thread = "ending"
      BY <1>1, <2>3 DEF Scanners
    <3> QED BY <3>1, <3>2 DEF FetchBound
  <2>4. CASE scan.left # 0 /\ scan' = [scan EXCEPT !.thread = "fetching"]
    BY <1>1, <2>4 DEF Scanners, FetchBound
  <2> QED BY <2>2, <2>3, <2>4
<1>7. CASE ScanFetched
  <2> DEFINE complete == scan.complete \/ scan.left = 1
             left == scan.left - 1
  <2>1. complete \in BOOLEAN /\ left \in 0..Scans
    BY <1>1, <1>7 DEF ScanFetched, FetchBound
  <2>2. \/ scan' = [scan EXCEPT !.thread = "ending"]
        \/ scan' = [scan EXCEPT !.thread = "running", !.left = left, !.complete = complete]
    BY <1>7 DEF ScanFetched
  <2> HIDE DEF complete, left
  <2>3. CASE scan' = [scan EXCEPT !.thread = "ending"]
    BY <1>1, <2>3 DEF Scanners, FetchBound
  <2>4. CASE scan' = [scan EXCEPT !.thread = "running", !.left = left, !.complete = complete]
    <3>1. scan' \in Scanners
      BY <1>1, <2>1, <2>4 DEF Scanners
    <3>2. scan'.thread = "running"
      BY <1>1, <2>4 DEF Scanners
    <3> QED BY <3>1, <3>2 DEF FetchBound
  <2> QED BY <2>2, <2>3, <2>4
<1>8. CASE ScanEnds
  BY <1>1, <1>8 DEF ScanEnds, Scanners, FetchBound
<1> QED BY <1>2, <1>3, <1>4, <1>5, <1>6, <1>7, <1>8 DEF ScanChanges, ScanStep

EnvStep == env' = env \/ Fault \/ HidScan

LEMMA EnvSteps == ASSUME [Next]_vars PROVE EnvStep
<1>1. ASSUME NEW u \in UI, UiStep(u) PROVE EnvStep
  <2>1. Cleaned(u) => env' = env
    BY Zenon DEF Cleaned
  <2> QED BY <1>1, <2>1 DEF UiStep, EnvStep, Reap, Reaped, ScanJoined, CreateWorker, Return,
                           Process, Stopped
<1>2. ASSUME NEW x \in Actors, HandoffStep(x) PROVE EnvStep
  BY <1>2 DEF HandoffStep, EnvStep, BeginHandoff, OpenPlayer, HandoffDone, HandoffStops,
              HandoffFailed
<1>3. ASSUME NEW w \in Workers, WorkerStep(w) PROVE EnvStep
  BY <1>3 DEF WorkerStep, EnvStep, WorkerBegin, WorkerCheck, WorkerReset, WorkerStaged,
              WorkerFails, WorkerSettle, WorkerStop, WorkerTail
<1>4. ASSUME HidSection PROVE EnvStep
  BY <1>4 DEF HidSection, EnvStep, HidHook, HidInterrupt, HidDrawerTunes, HidReturns, HidKey,
              HidCancels, HidQueues, HidClearsError, HidErrorSwitches, HidBrowses, HidBrowsed,
              HidStops, HidWatches, HidTunes, HidIgnores
<1>5. ASSUME \/ DrawSection \/ ExitStep \/ ExitBegins \/ PlayStep \/ PlayerFails \/ ScanStep
             \/ Produce \/ UNCHANGED vars
      PROVE  EnvStep
  BY <1>5 DEF DrawSection, ReapScan, LaunchScan, TimeoutReported, StartupTimeout, ExitStep,
              ExitStops, ExitJoins, ExitPlayer, ExitCloses, ExitBegins, PlayStep, TakePlay,
              PlayerOpens, OpenFails, PlayerEnds, TakeAbort, CountReturn, PlayerFails, Produce,
              ScanStep, ScanInit, ScanNext, ScanFetched, ScanEnds, EnvStep, vars
<1> QED BY <1>1, <1>2, <1>3, <1>4, <1>5, NextSteps

Envs == [b : {"up", "down", "closed"}, left : 0..MaxEvents]

LEMMA EnvTyped == ASSUME TypeOK, EnvStep PROVE env' \in Envs
<1>1. env \in Envs /\ env.left \in 0..MaxEvents /\ MaxEvents \in Nat
  BY LiveAppAssumption DEF TypeOK, Envs
<1>2. CASE Fault
  <2> DEFINE left == env.left - 1
  <2>1. left \in 0..MaxEvents /\ env' = [env EXCEPT !.left = left]
    BY <1>1, <1>2 DEF Fault
  <2> HIDE DEF left
  <2> QED BY <1>1, <2>1 DEF Envs
<1>3. CASE HidScan
  <2>1. \E n \in {0, 1}, b \in {"up", "down", "closed"} :
          /\ n = 1 => env.left > 0
          /\ env' = [env EXCEPT !.left = @ - n, !.b = b]
    <3> DEFINE counts(b) ==
          LET toggles == ~PlayerIdle /\ b = "B"
              drawn == ~PlayerIdle /\ player.drawer
              leaves == b = "LR" /\ app.state = "error" /\ PlayerIdle /\ ~app.awaiting
          IN b \in Buttons /\ ~(toggles /\ ~drawn) /\ ~leaves
        seen(b) == CASE b = "held" -> env.b
                     [] b = "B" -> IF ~PlayerIdle /\ b = "B" /\ ~PlayerIdle /\ player.drawer
                                     THEN "closed" ELSE "down"
                     [] OTHER -> "up"
    <3>1. PICK b \in Buttons \cup {"none", "held"} :
            /\ counts(b) => env.left > 0
            /\ env' = [env EXCEPT !.left = @ - IF counts(b) THEN 1 ELSE 0, !.b = seen(b)]
      BY <1>3 DEF HidScan
    <3>2. seen(b) \in {"up", "down", "closed"}
      BY <1>1 DEF Envs, Buttons
    <3> DEFINE n == IF counts(b) THEN 1 ELSE 0
    <3>3. n \in {0, 1} /\ (n = 1 => env.left > 0)
      BY <3>1
    <3>4. env' = [env EXCEPT !.left = @ - n, !.b = seen(b)]
      BY <3>1
    <3> HIDE DEF counts, seen, n
    <3> QED BY <3>2, <3>3, <3>4
  <2>2. PICK n \in {0, 1}, b \in {"up", "down", "closed"} :
          /\ n = 1 => env.left > 0
          /\ env' = [env EXCEPT !.left = @ - n, !.b = b]
    BY <2>1
  <2> DEFINE left == env.left - n
  <2>3. left \in 0..MaxEvents /\ env' = [env EXCEPT !.left = left, !.b = b]
    BY <1>1, <2>2
  <2> HIDE DEF left
  <2> QED BY <1>1, <2>3 DEF Envs
<1> QED BY <1>1, <1>2, <1>3 DEF EnvStep

-----------------------------------------------------------------------------
(* The player and its queue.                                                *)

(* No play request waits, or one at most.                                   *)
NoPlay(q) == \A i \in DOMAIN q : q[i] # "play"
OnePlay(q) == \A i, j \in DOMAIN q : q[i] = "play" /\ q[j] = "play" => i = j

Commands == {"play", "abort"}

LEMMA AbortAhead ==
  ASSUME NEW q \in Seq(Commands), NEW n, n = <<"abort">> \o q
  PROVE  /\ n \in Seq(Commands)
         /\ NoPlay(q) => NoPlay(n)
         /\ OnePlay(q) => OnePlay(n)
<1>1. /\ n \in Seq(Commands) /\ Len(n) = Len(q) + 1 /\ Len(q) \in Nat
      /\ n[1] = "abort" /\ \A i \in 2..Len(n) : n[i] = q[i - 1]
  BY DEF Commands
<1>2. /\ DOMAIN n = 1..(Len(q) + 1) /\ DOMAIN q = 1..Len(q)
      /\ \A i \in DOMAIN n : n[i] = "play" => i - 1 \in DOMAIN q /\ q[i - 1] = "play"
  BY <1>1
<1>3. NoPlay(q) => NoPlay(n)
  BY <1>2 DEF NoPlay
<1>4. OnePlay(q) => OnePlay(n)
  <2> SUFFICES ASSUME OnePlay(q), NEW i \in DOMAIN n, NEW j \in DOMAIN n,
                      n[i] = "play", n[j] = "play"
               PROVE  i = j
    BY DEF OnePlay
  <2>1. i - 1 = j - 1
    BY <1>2 DEF OnePlay
  <2> QED BY <1>2, <2>1
<1> QED BY <1>1, <1>3, <1>4

LEMMA PlayAsked ==
  ASSUME NEW q \in Seq(Commands), NoPlay(q), NEW n, n = Append(q, "play")
  PROVE  n \in Seq(Commands) /\ OnePlay(n)
<1>1. /\ n \in Seq(Commands) /\ Len(n) = Len(q) + 1 /\ Len(q) \in Nat
      /\ \A i \in 1..Len(q) : n[i] = q[i]
  BY DEF Commands
<1>2. \A i \in DOMAIN n : n[i] = "play" => i = Len(q) + 1
  BY <1>1 DEF NoPlay
<1> QED BY <1>1, <1>2 DEF OnePlay

LEMMA CommandTaken ==
  ASSUME NEW q \in Seq(Commands), q # <<>>, NEW n, n = Tail(q)
  PROVE  /\ n \in Seq(Commands)
         /\ NoPlay(q) => NoPlay(n)
         /\ OnePlay(q) => OnePlay(n)
         /\ OnePlay(q) /\ Head(q) = "play" => NoPlay(n)
<1>1. /\ n \in Seq(Commands) /\ Len(q) \in Nat \ {0} /\ Len(n) = Len(q) - 1
      /\ Head(q) = q[1] /\ \A i \in 1..Len(n) : n[i] = q[i + 1]
  BY DEF Commands
<1>2. /\ DOMAIN n = 1..(Len(q) - 1) /\ DOMAIN q = 1..Len(q) /\ 1 \in DOMAIN q
      /\ \A i \in DOMAIN n : n[i] = "play" => i + 1 \in DOMAIN q /\ q[i + 1] = "play"
  BY <1>1
<1>3. NoPlay(q) => NoPlay(n)
  BY <1>2 DEF NoPlay
<1>4. OnePlay(q) => OnePlay(n)
  <2> SUFFICES ASSUME OnePlay(q), NEW i \in DOMAIN n, NEW j \in DOMAIN n,
                      n[i] = "play", n[j] = "play"
               PROVE  i = j
    BY DEF OnePlay
  <2>1. i + 1 = j + 1
    BY <1>2 DEF OnePlay
  <2> QED BY <1>2, <2>1
<1>5. OnePlay(q) /\ Head(q) = "play" => NoPlay(n)
  <2> SUFFICES ASSUME OnePlay(q), q[1] = "play", NEW i \in DOMAIN n, n[i] = "play"
               PROVE  FALSE
    BY <1>1 DEF NoPlay
  <2>1. i + 1 = 1
    BY <1>2 DEF OnePlay
  <2> QED BY <1>2, <2>1
<1> QED BY <1>1, <1>3, <1>4, <1>5

(* The playback goes on as before; an abort may wait at the front.          *)
SamePlay(p, q) ==
  /\ q \in Players
  /\ q.state = p.state /\ q.start_pending = p.start_pending /\ q.returned = p.returned
  /\ q.queue = p.queue \/ q.queue = <<"abort">> \o p.queue

LEMMA SamePlayer == ASSUME NEW p \in Players PROVE SamePlay(p, p)
BY DEF SamePlay

LEMMA FlagsSame ==
  ASSUME NEW p \in Players, NEW b \in BOOLEAN, NEW c \in BOOLEAN
  PROVE  /\ SamePlay(p, [p EXCEPT !.drawer = b])
         /\ SamePlay(p, [p EXCEPT !.return_requested = c])
         /\ SamePlay(p, [p EXCEPT !.return_requested = c, !.drawer = b])
         /\ SamePlay(p, [p EXCEPT !.return_requested = c, !.timed_out = TRUE, !.drawer = b])
<1>1. /\ [p EXCEPT !.drawer = b] \in Players
      /\ [p EXCEPT !.return_requested = c] \in Players
  BY DEF Players
<1>2. [p EXCEPT !.return_requested = c, !.drawer = b] \in Players
  BY DEF Players
<1>3. [p EXCEPT !.return_requested = c, !.timed_out = TRUE, !.drawer = b] \in Players
  BY DEF Players
<1> QED BY <1>1, <1>2, <1>3 DEF SamePlay, Players

LEMMA AbortAdded ==
  ASSUME NEW p \in Players
  PROVE  /\ SamePlay(p, [p EXCEPT !.queue = <<"abort">> \o @])
         /\ SamePlay(p, AddAbort(p))
<1>1. p.queue \in Seq(Commands)
  BY DEF Players, Commands
<1> DEFINE n == <<"abort">> \o p.queue
<1>2. n \in Seq(Commands)
  BY <1>1, AbortAhead
<1>3. AddAbort(p) \in {[p EXCEPT !.queue = p.queue], [p EXCEPT !.queue = n]}
  BY DEF AddAbort
<1>4. [p EXCEPT !.queue = <<"abort">> \o @] = [p EXCEPT !.queue = n]
  OBVIOUS
<1>5. n = <<"abort">> \o p.queue
  OBVIOUS
<1> HIDE DEF n
<1>6. ASSUME NEW q \in Seq(Commands) PROVE [p EXCEPT !.queue = q] \in Players
  BY DEF Players, Commands
<1>7. [p EXCEPT !.queue = n] \in Players /\ [p EXCEPT !.queue = p.queue] \in Players
  BY <1>1, <1>2, <1>6
<1>8. SamePlay(p, [p EXCEPT !.queue = n]) /\ SamePlay(p, [p EXCEPT !.queue = p.queue])
  BY <1>5, <1>7 DEF SamePlay, Players
<1> QED BY <1>3, <1>4, <1>8

(* The sections that leave the playback as it is.                           *)
LEMMA PlayerLeft ==
  ASSUME TypeOK, \/ HidScan \/ HidInterrupt \/ HidDrawerTunes \/ StartupTimeout
                 \/ TimeoutReported
  PROVE  SamePlay(player, player')
<1>1. player \in Players
  BY DEF TypeOK
<1>2. ASSUME NEW p \in Players, NEW b, Poll(p, b) PROVE SamePlay(p, player')
  <2>1. player' \in {p, [p EXCEPT !.return_requested = FALSE], AddAbort(p)}
    BY <1>2 DEF Poll, KeepAborting
  <2> QED BY <1>2, <2>1, SamePlayer, FlagsSame, AbortAdded
<1>3. CASE HidScan
  <2>1. \/ player' = player
        \/ \E b \in BOOLEAN : player' = [player EXCEPT !.drawer = b]
        \/ \E b : Poll(player, b)
    <3>1. \E b \in Buttons \cup {"none"} \cup (IF Held THEN {"held"} ELSE {}) :
            \/ player' = player
            \/ player' = [player EXCEPT !.drawer = @ # (~PlayerIdle /\ b = "B")]
            \/ Poll(player, b)
      BY <1>3 DEF HidScan
    <3>2. \A c \in BOOLEAN : (player.drawer # c) \in BOOLEAN
      OBVIOUS
    <3> QED BY <3>1, <3>2
  <2> QED BY <1>1, <1>2, <2>1, SamePlayer, FlagsSame
<1>4. CASE HidInterrupt
  <2> DEFINE c == ~PlayerIdle
             b == player.drawer /\ ui["hid"].button = "LR"
             p == [player EXCEPT !.return_requested = c, !.drawer = b]
  <2>1. Poll(p, ui["hid"].button) /\ b \in BOOLEAN /\ c \in BOOLEAN
    BY <1>4 DEF HidInterrupt, PlayerIdle
  <2> HIDE DEF b, c
  <2>s. SamePlay(player, p)
    BY <1>1, <2>1, FlagsSame
  <2>2. SamePlay(player, p) /\ p \in Players
    BY <2>s DEF SamePlay
  <2>3. \/ player' \in {p, [p EXCEPT !.return_requested = FALSE]}
        \/ p.return_requested /\ player' = AddAbort(p)
    BY <2>1 DEF Poll, KeepAborting
  <2>4. p.queue = player.queue
    BY <1>1 DEF Players
  <2>5. SamePlay(p, player')
    BY <2>2, <2>3, SamePlayer, FlagsSame, AbortAdded
  <2> QED BY <2>2, <2>4, <2>5 DEF SamePlay
<1>5. CASE HidDrawerTunes \/ StartupTimeout
  <2>1. player' \in {[player EXCEPT !.return_requested = TRUE, !.drawer = FALSE],
                     [player EXCEPT !.return_requested = TRUE, !.timed_out = TRUE,
                                    !.drawer = FALSE]}
    BY <1>5 DEF HidDrawerTunes, StartupTimeout
  <2> QED BY <1>1, <2>1, FlagsSame
<1>6. CASE TimeoutReported
  BY <1>1, <1>6, AbortAdded DEF TimeoutReported
<1> QED BY <1>3, <1>4, <1>5, <1>6

LEMMA FailsSame == ASSUME TypeOK, PlayerFails \/ PlayerEnds PROVE SamePlay(player, player')
<1>1. player \in Players
  BY DEF TypeOK
<1>2. CASE PlayerFails
  <2> DEFINE p == [player EXCEPT !.return_requested = TRUE, !.drawer = FALSE]
  <2>1. p \in Players /\ SamePlay(player, p) /\ p.queue = player.queue
    <3>1. SamePlay(player, p)
      BY <1>1, FlagsSame
    <3> QED BY <1>1, <3>1 DEF SamePlay, Players
  <2>2. player' = [p EXCEPT !.queue = <<"abort">> \o @]
    BY <1>1, <1>2 DEF PlayerFails, Players
  <2> HIDE DEF p
  <2> QED BY <2>1, <2>2, AbortAdded DEF SamePlay
<1>3. CASE PlayerEnds
  <2>1. <<"abort">> = <<"abort">> \o <<>>
    OBVIOUS
  <2>2. player' = [player EXCEPT !.queue = <<"abort">> \o @]
    BY <1>1, <1>3, <2>1 DEF PlayerEnds
  <2> QED BY <1>1, <2>2, AbortAdded
<1> QED BY <1>2, <1>3

-----------------------------------------------------------------------------
(* The wait for a playback.                                                 *)

PlayerFree == player.state = "idle" /\ ~player.start_pending

(* Until the exit: a playback is waited for; only one hand-over is open, it *)
(* has found the player free and no return counted; a return is counted     *)
(* when the player is free; and a play request waits in the queue exactly   *)
(* while its start is pending.                                              *)
HandInv ==
  ~app.exit =>
    /\ ~PlayerFree => app.awaiting
    /\ \A x \in Actors : PcOf(x) \in OpeningPcs =>
         app.awaiting /\ PlayerFree /\ ~player.returned
    /\ \A x, y \in Actors : PcOf(x) \in OpeningPcs /\ PcOf(y) \in OpeningPcs => x = y
    /\ player.returned /\ app.awaiting => PlayerFree
    /\ player.start_pending => player.state = "idle"
    /\ ~player.start_pending => NoPlay(player.queue)
    /\ OnePlay(player.queue)

(* What a step that is none of the hand-over's does to the rest.            *)
Calm ==
  /\ app'.awaiting = app.awaiting /\ app'.exit = app.exit
  /\ \A x \in Actors : PcOf(x)' \in OpeningPcs => PcOf(x) \in OpeningPcs

LEMMA HandSame ==
  ASSUME TypeOK, HandInv, Calm, SamePlay(player, player') PROVE HandInv'
<1>1. player.queue \in Seq(Commands)
  BY DEF TypeOK, Players, Commands
<1>2. /\ NoPlay(player.queue) => NoPlay(player'.queue)
      /\ OnePlay(player.queue) => OnePlay(player'.queue)
  BY <1>1, AbortAhead DEF SamePlay
<1>3. PlayerFree' = PlayerFree
  BY DEF SamePlay, PlayerFree
<1> QED BY <1>2, <1>3 DEF HandInv, Calm, SamePlay

(* The playback itself.                                                     *)
LEMMA HandPlays ==
  ASSUME TypeOK, HandInv, Calm, TakePlay \/ PlayerOpens \/ OpenFails \/ TakeAbort \/ CountReturn
  PROVE  player' \in Players /\ HandInv'
<1>1. player \in Players /\ player.queue \in Seq(Commands)
  BY DEF TypeOK, Players, Commands
<1>2. CASE TakePlay
  <2> DEFINE q == Tail(player.queue)
  <2>1. player.queue # <<>> /\ Head(player.queue) = "play"
    BY <1>2 DEF TakePlay, Queued
  <2>2. /\ q \in Seq(Commands)
        /\ NoPlay(player.queue) => NoPlay(q)
        /\ OnePlay(player.queue) => OnePlay(q) /\ NoPlay(q)
    BY <1>1, <2>1, CommandTaken
  <2>3. player' = [player EXCEPT !.queue = q, !.start_pending = FALSE, !.state = "taken"]
    BY <1>2 DEF TakePlay
  <2>4. ~NoPlay(player.queue)
    BY <1>1, <2>1 DEF NoPlay, Commands
  <2> HIDE DEF q
  <2>5. player' \in Players
    BY <1>1, <2>2, <2>3 DEF Players, Commands
  <2>6. /\ player'.state = "taken" /\ ~player'.start_pending /\ player'.queue = q
        /\ player'.returned = player.returned
    BY <1>1, <2>3 DEF Players
  <2>7. ASSUME ~app.exit
        PROVE  /\ player.start_pending /\ app.awaiting /\ ~player.returned
               /\ \A x \in Actors : PcOf(x) \notin OpeningPcs
    BY <2>4, <2>7 DEF HandInv, PlayerFree
  <2> QED BY <2>2, <2>5, <2>6, <2>7 DEF HandInv, Calm, PlayerFree
<1>3. CASE PlayerOpens
  <2>1. /\ player' \in Players /\ player'.state \in {"opening", "playing"}
        /\ player'.start_pending = player.start_pending /\ player'.queue = player.queue
        /\ player'.returned = player.returned /\ player.state \in {"taken", "opening"}
    BY <1>1, <1>3 DEF PlayerOpens, Players
  <2> QED BY <2>1 DEF HandInv, Calm, PlayerFree
<1>4. CASE OpenFails
  <2> DEFINE q == <<"abort">> \o player.queue
             drawer == player.drawer /\ stream.phase # "live"
  <2>1. /\ q \in Seq(Commands)
        /\ NoPlay(player.queue) => NoPlay(q)
        /\ OnePlay(player.queue) => OnePlay(q)
    BY <1>1, AbortAhead
  <2>2. /\ player' = [player EXCEPT !.state = "failed", !.queue = q, !.drawer = drawer]
        /\ drawer \in BOOLEAN /\ player.state = "opening"
    BY <1>4 DEF OpenFails
  <2> HIDE DEF q, drawer
  <2>3. player' \in Players
    BY <1>1, <2>1, <2>2 DEF Players, Commands
  <2>4. /\ player'.state = "failed" /\ player'.start_pending = player.start_pending
        /\ player'.queue = q /\ player'.returned = player.returned
    BY <1>1, <2>2 DEF Players
  <2> QED BY <2>1, <2>2, <2>3, <2>4 DEF HandInv, Calm, PlayerFree
<1>5. CASE TakeAbort
  <2> DEFINE q == Tail(player.queue)
  <2>1. player.queue # <<>>
    BY <1>5 DEF TakeAbort, Queued
  <2>2. /\ q \in Seq(Commands)
        /\ NoPlay(player.queue) => NoPlay(q)
        /\ OnePlay(player.queue) => OnePlay(q)
    BY <1>1, <2>1, CommandTaken
  <2>3. \/ player' = [player EXCEPT !.queue = q] /\ player.state = "idle"
        \/ player' = [player EXCEPT !.queue = q, !.state = "back"] /\ player.state # "idle"
    BY <1>5 DEF TakeAbort
  <2> HIDE DEF q
  <2>4. player' \in Players
    BY <1>1, <2>2, <2>3 DEF Players, Commands
  <2>5. /\ player'.start_pending = player.start_pending /\ player'.queue = q
        /\ player'.returned = player.returned
        /\ player'.state = "idle" <=> player.state = "idle"
    BY <1>1, <2>3 DEF Players
  <2> QED BY <2>2, <2>4, <2>5 DEF HandInv, Calm, PlayerFree
<1>6. CASE CountReturn
  <2>1. player' = [player EXCEPT !.state = "idle", !.start_pending = FALSE, !.returned = TRUE,
                                 !.drawer = FALSE, !.timed_out = FALSE]
    BY <1>6 DEF CountReturn
  <2>2. player' \in Players
    BY <1>1, <2>1 DEF Players
  <2>3. /\ player'.state = "idle" /\ ~player'.start_pending
        /\ player'.queue = player.queue /\ player.state = "back"
    BY <1>1, <1>6, <2>1 DEF Players, CountReturn
  <2> QED BY <2>2, <2>3 DEF HandInv, Calm, PlayerFree
<1> QED BY <1>2, <1>3, <1>4, <1>5, <1>6

(* The hand-over.                                                           *)
LEMMA HandOpens ==
  ASSUME TypeOK, NEW x \in Actors, HandoffStep(x)
  PROVE  player' \in Players /\ (HandInv => HandInv')
<1>1. player \in Players /\ player.queue \in Seq(Commands)
  BY DEF TypeOK, Players, Commands
<1>m. PcOf(x) \in HandoffPcs /\ \E pc \in HandoffPcs \cup {"end"} : HandoffGoto(x, pc)
  BY HandoffStepMoves
<1>2. \A y \in Actors : y # x => PcOf(y)' = PcOf(y)
  BY <1>m, HandoffMoves
<1>3. ASSUME NEW pc \in HandoffPcs \cup {"end"}, HandoffGoto(x, pc)
      PROVE  PcOf(x)' = pc \/ (pc = "end" /\ PcOf(x)' \in {"tail", "idle"})
  BY <1>m, <1>3, HandoffMoves
<1>4. \A pc : HandoffAt(x, pc) <=> PcOf(x) = pc
  BY DEF HandoffAt, PcOf
<1>5. CASE BeginHandoff(x)
  <2>1. CASE HandoffGoto(x, "end") /\ UNCHANGED <<app, player>>
    <3>1. Calm
      BY <1>2, <1>3, <2>1 DEF Calm, OpeningPcs
    <3> QED BY <1>1, <2>1, <3>1, SamePlayer, HandSame
  <2>2. CASE /\ HandoffGoto(x, "open") /\ ~app.exit /\ ~app.awaiting
             /\ app' = [app EXCEPT !.awaiting = TRUE] /\ player' = NoteReturns
    <3>1. app'.awaiting = TRUE
      BY <2>2 DEF TypeOK, Apps
    <3>2. /\ player' \in Players /\ player'.state = player.state /\ ~player'.returned
          /\ player'.start_pending = player.start_pending /\ player'.queue = player.queue
      BY <1>1, <2>2 DEF NoteReturns, Players
    <3>3. ASSUME HandInv PROVE PlayerFree /\ \A y \in Actors : PcOf(y) \notin OpeningPcs
      BY <2>2, <3>3 DEF HandInv
    <3> QED BY <1>2, <2>2, <3>1, <3>2, <3>3 DEF HandInv, PlayerFree
  <2> QED BY <1>5, <2>1, <2>2 DEF BeginHandoff
<1>6. CASE OpenPlayer(x)
  <2>1. Opening \in Players /\ SamePlay(player, Opening) /\ Opening.queue = player.queue
    <3>1. Opening \in Players
      BY <1>1 DEF Opening, Players
    <3> QED BY <1>1, <3>1 DEF Opening, SamePlay, Players
  <2>2. PcOf(x) = "open" /\ app' = app
    BY <1>4, <1>6 DEF OpenPlayer
  <2>3. CASE HandoffGoto(x, "opened") /\ player' = [Opening EXCEPT !.queue = Append(@, "play"),
                                                                  !.start_pending = TRUE]
    <3> DEFINE q == Append(player.queue, "play")
    <3>1. q \in Seq(Commands) /\ (NoPlay(player.queue) => OnePlay(q))
      <4>1. q \in Seq(Commands)
        BY <1>1 DEF Commands
      <4> QED BY <1>1, <4>1, PlayAsked
    <3>2. player' = [Opening EXCEPT !.queue = q, !.start_pending = TRUE]
      BY <2>1, <2>3
    <3> HIDE DEF q
    <3>3. player' \in Players
      BY <2>1, <3>1, <3>2 DEF Players, Commands
    <3>4. /\ player'.state = player.state /\ player'.start_pending = TRUE
          /\ player'.queue = q /\ player'.returned = player.returned
      BY <2>1, <3>2 DEF Players, SamePlay
    <3>5. ASSUME HandInv, ~app.exit
          PROVE  /\ app.awaiting /\ PlayerFree /\ ~player.returned
                 /\ \A y \in Actors : PcOf(y) \in OpeningPcs => y = x
      BY <2>2, <3>5 DEF HandInv, OpeningPcs
    <3>6. \A y \in Actors : PcOf(y)' \in OpeningPcs => y # x /\ PcOf(y) \in OpeningPcs
      BY <1>2, <1>3, <2>3 DEF OpeningPcs, HandoffPcs
    <3> QED BY <2>2, <3>1, <3>3, <3>4, <3>5, <3>6 DEF HandInv, PlayerFree
  <2>4. CASE HandoffGoto(x, "openstop") /\ player' \in {Opening, player}
    <3>1. Calm
      BY <1>2, <2>2 DEF Calm, OpeningPcs
    <3>2. SamePlay(player, player') /\ player' \in Players
      BY <1>1, <2>1, <2>4, SamePlayer
    <3> QED BY <3>1, <3>2, HandSame
  <2> QED BY <1>6, <2>3, <2>4 DEF OpenPlayer
<1>7. CASE HandoffDone(x) \/ HandoffStops(x)
  <2>1. app'.awaiting = app.awaiting /\ app'.exit = app.exit /\ player' = player
    BY <1>7 DEF HandoffDone, HandoffStops, TypeOK, Apps
  <2>2. \/ PcOf(x)' \notin OpeningPcs
        \/ PcOf(x) \in OpeningPcs
    BY <1>3, <1>4, <1>7 DEF HandoffDone, HandoffStops, OpeningPcs
  <2>3. Calm
    BY <1>2, <2>1, <2>2 DEF Calm
  <2> QED BY <1>1, <2>1, <2>3, SamePlayer, HandSame
<1>8. CASE HandoffFailed(x)
  <2>1. app'.awaiting = FALSE /\ app'.exit = app.exit /\ player' = player
    BY <1>8, HandoffEffect DEF KeepsWorker, HandoffFailed
  <2>2. PcOf(x) \in OpeningPcs /\ PcOf(x)' \notin OpeningPcs
    BY <1>3, <1>4, <1>8 DEF HandoffFailed, OpeningPcs
  <2> QED BY <1>1, <1>2, <2>1, <2>2 DEF HandInv, PlayerFree
<1> QED BY <1>5, <1>6, <1>7, <1>8 DEF HandoffStep

(* A return.                                                                *)
LEMMA HandReturns ==
  ASSUME HandInv, player' = player, app'.exit = app.exit,
         \/ app'.awaiting = app.awaiting
         \/ PlayerReturned(app) /\ app'.awaiting = FALSE,
         \A x \in Actors : PcOf(x)' \in OpeningPcs => PcOf(x) \in OpeningPcs
  PROVE  HandInv'
BY DEF HandInv, PlayerReturned, PlayerFree

-----------------------------------------------------------------------------
(* The threads: who moves, and from where.                                  *)

(* A worker that runs is the one whose handle `app' or the exit holds.      *)
WorkerInv ==
  \A w \in Workers : wk[w].pc # "none" =>
    IF app.exit THEN ui["draw"].worker = w ELSE app.worker = w /\ ~app.finished

LEMMA FreeWorker ==
  ASSUME WorkerInv, MayCreate
  PROVE  Free \in Workers /\ \A w \in Workers : wk[w].pc = "none"
<1>1. \A w \in Workers : wk[w].pc = "none"
  BY DEF WorkerInv, MayCreate, Workers, NoWorker
<1>2. "w1" \in Workers
  BY DEF Workers
<1> QED BY <1>1, <1>2 DEF Free

LEMMA UnmovedThreads ==
  ASSUME [Next]_vars
  PROVE  /\ HidSection \/ DrawSection \/ ExitStep \/ ExitBegins => wk' = wk
         /\ PlayStep \/ PlayerFails \/ ScanStep \/ Produce \/ UNCHANGED vars => wk' = wk /\ ui' = ui
         /\ \A w \in Workers : WorkerStep(w) => ui' = ui
         /\ \A u \in UI : UiStep(u) => CreateWorker(u) \/ wk' = wk
<1>1. ASSUME HidSection PROVE wk' = wk
  <2>1. \A k : HidKey(k) => wk' = wk
    BY DEF HidKey
  <2>2. \/ HidScan \/ HidHook \/ HidInterrupt \/ HidDrawerTunes \/ HidReturns \/ HidBrowsed
        \/ HidStops
        => wk' = wk
    <3>1. HidScan \/ HidInterrupt => wk' = wk
      BY Zenon DEF HidScan, HidInterrupt
    <3>2. HidHook \/ HidDrawerTunes \/ HidReturns \/ HidBrowsed \/ HidStops => wk' = wk
      BY DEF HidHook, HidDrawerTunes, HidReturns, HidBrowsed, HidStops
    <3> QED BY <3>1, <3>2
  <2>3. \/ HidScan \/ HidHook \/ HidInterrupt \/ HidDrawerTunes \/ HidReturns \/ HidBrowsed
        \/ HidStops
        \/ \E k : HidKey(k)
    BY <1>1 DEF HidSection, HidCancels, HidQueues, HidClearsError, HidErrorSwitches, HidBrowses,
                HidWatches, HidTunes, HidIgnores
  <2> QED BY <2>1, <2>2, <2>3
<1>2. DrawSection \/ ExitStep \/ ExitBegins => wk' = wk
  BY DEF DrawSection, ReapScan, LaunchScan, TimeoutReported, StartupTimeout, ExitStep, ExitStops,
         ExitJoins, ExitPlayer, ExitCloses, ExitBegins
<1>3. PlayStep \/ PlayerFails \/ ScanStep \/ Produce \/ UNCHANGED vars => wk' = wk /\ ui' = ui
  BY DEF PlayStep, PlayerStep, TakePlay, PlayerOpens, OpenFails, PlayerEnds, TakeAbort,
         CountReturn, PlayerFails, ScanStep, ScanInit, ScanNext, ScanFetched, ScanEnds, Produce,
         vars
<1>4. ASSUME NEW w \in Workers, WorkerStep(w) PROVE ui' = ui
  BY <1>4 DEF WorkerStep, WorkerBegin, WorkerCheck, WorkerReset, WorkerStaged, WorkerFails,
              WorkerSettle, WorkerStop, WorkerTail
<1>5. ASSUME NEW u \in UI, UiStep(u) PROVE CreateWorker(u) \/ wk' = wk
  <2>1. Reap(u) \/ Reaped(u) \/ ScanJoined(u) \/ Return(u) => wk' = wk
    BY DEF Reap, Reaped, ScanJoined, Return
  <2>2. Process(u) \/ Stopped(u) => wk' = wk
    BY DEF Process, Stopped
  <2>3. Cleaned(u) => wk' = wk
    BY Zenon DEF Cleaned
  <2> QED BY <1>5, <2>1, <2>2, <2>3 DEF UiStep
<1> QED BY <1>1, <1>2, <1>3, <1>4, <1>5

LEMMA WorkersMove ==
  ASSUME TypeOK, WorkerInv, [Next]_vars
  PROVE  /\ wk' \in [Workers -> WorkerStates]
         /\ \/ \A w \in Workers : wk'[w].pc # "none" => wk[w].pc # "none"
            \/ \E u \in UI : CreateWorker(u) /\ MayCreate
<1>1. wk \in [Workers -> WorkerStates]
  BY DEF TypeOK
<1>2. CASE wk' = wk
  BY <1>1, <1>2
<1>3. ASSUME NEW u \in UI, CreateWorker(u), wk' # wk
      PROVE  wk' \in [Workers -> WorkerStates] /\ MayCreate
  <2>1. MayCreate /\ wk' = [wk EXCEPT ![Free].pc = "begin"]
    BY <1>3 DEF CreateWorker, Free
  <2>2. Free \in Workers
    BY <2>1, FreeWorker
  <2>3. wk' \in [Workers -> WorkerStates]
    BY <1>1, <2>1, <2>2 DEF WorkerStates
  <2> QED BY <2>1, <2>3
<1>4. ASSUME NEW w \in Workers, WorkerStep(w)
      PROVE  /\ wk' \in [Workers -> WorkerStates]
             /\ \A v \in Workers : wk'[v].pc # "none" => wk[v].pc # "none"
  BY <1>4, WorkerWk DEF OnlyWorker
<1>5. ASSUME NEW x \in Actors, HandoffStep(x)
      PROVE  /\ wk' \in [Workers -> WorkerStates]
             /\ \A v \in Workers : wk'[v].pc # "none" => wk[v].pc # "none"
  BY <1>5, HandoffStepMoves, HandoffMoves
<1>6. ASSUME NEW u \in UI, UiStep(u) PROVE CreateWorker(u) \/ wk' = wk
  BY <1>6, UnmovedThreads
<1>7. ASSUME \/ HidSection \/ DrawSection \/ ExitStep \/ ExitBegins
             \/ PlayStep \/ PlayerFails \/ ScanStep \/ Produce \/ UNCHANGED vars
      PROVE  wk' = wk
  BY <1>7, UnmovedThreads
<1> QED BY <1>2, <1>3, <1>4, <1>5, <1>6, <1>7, NextSteps

(* A thread that joins the scanner goes on only when it has ended, and the  *)
(* exit is begun and gone through only by the draw thread.                  *)
LEMMA UiMoves ==
  ASSUME TypeOK, [Next]_vars
  PROVE  /\ ui' \in [UI -> UiStates]
         /\ \A u \in UI : ui[u].pc = "joinscan" => ui'[u] = ui[u] \/ ScanJoined(u)
         /\ ui["draw"].pc \in ExitPcs => ui'["draw"] = ui["draw"] \/ ExitStep
         /\ ui["draw"].pc \notin ExitPcs => ui'["draw"].pc \notin ExitPcs \/ ExitBegins
<1> DEFINE G == /\ ui' \in [UI -> UiStates]
                /\ \A u \in UI : ui[u].pc = "joinscan" => ui'[u] = ui[u] \/ ScanJoined(u)
                /\ ui["draw"].pc \in ExitPcs => ui'["draw"] = ui["draw"] \/ ExitStep
                /\ ui["draw"].pc \notin ExitPcs => ui'["draw"].pc \notin ExitPcs \/ ExitBegins
<1>1. /\ ui \in [UI -> UiStates] /\ UI = {"hid", "draw"} /\ \A pc \in CommonPcs : pc \notin ExitPcs
      /\ "joinscan" \notin ExitPcs
  BY DEF TypeOK, UI, CommonPcs, ExitPcs
<1>2. CASE ui' = ui
  BY <1>1, <1>2
<1>3. ASSUME NEW u \in UI, UiStep(u) PROVE G
  <2>1. OnlyUi(u) /\ ui[u].pc \in CommonPcs /\ ui'[u].pc \in CommonPcs
    BY <1>3, UiStepUi
  <2>2. ui[u].pc = "joinscan" => ScanJoined(u)
    BY <1>3 DEF UiStep, At, Reap, Reaped, CreateWorker, Return, Process, Stopped, Cleaned
  <2> QED BY <1>1, <2>1, <2>2 DEF OnlyUi
<1>4. ASSUME NEW x \in Actors, HandoffStep(x) PROVE G
  <2>1. /\ ui' \in [UI -> UiStates] /\ ui'["draw"] = ui["draw"]
        /\ ui["hid"].pc = "joinscan" => ui'["hid"] = ui["hid"]
    BY <1>4, HandoffStepMoves, HandoffMoves
  <2> QED BY <1>1, <2>1
<1>5. ASSUME HidSection PROVE G
  BY <1>1, <1>5, HidUi DEF OnlyUi
<1>6. ASSUME DrawSection PROVE G
  <2>1. "idle" \notin ExitPcs /\ "timeout" \notin ExitPcs
    BY DEF ExitPcs
  <2> QED BY <1>1, <1>6, <2>1, DrawUi DEF OnlyUi
<1>7. ASSUME ExitStep PROVE G
  BY <1>1, <1>7, ExitUi DEF OnlyUi
<1>8. ASSUME ExitBegins PROVE G
  <2>1. "idle" \notin ExitPcs
    BY DEF ExitPcs
  <2> QED BY <1>1, <1>8, <2>1, ExitBeginsUi DEF OnlyUi
<1>9. ASSUME \/ \E w \in Workers : WorkerStep(w)
             \/ PlayStep \/ PlayerFails \/ ScanStep \/ Produce \/ UNCHANGED vars
      PROVE  ui' = ui
  BY <1>9, UnmovedThreads
<1> QED BY <1>2, <1>3, <1>4, <1>5, <1>6, <1>7, <1>8, <1>9, NextSteps

-----------------------------------------------------------------------------
(* One worker, one exit, one reaper.                                        *)

(* The exit is under way while the draw thread goes through it.             *)
ExitInv == app.exit <=> ui["draw"].pc \in ExitPcs

(* What a step does to `app', whatever the thread.                          *)
LEMMA AppEffects ==
  ASSUME TypeOK, [Next]_vars
  PROVE  \/ KeepsWorker(app, app')
         \/ ReapNow /\ ~app.exit /\ app' = Detached(app)
         \/ \E u \in UI : Reaped(u) \/ CreateWorker(u)
         \/ \E w \in Workers : WorkerTail(w)
         \/ ExitBegins
<1>1. app' = app => KeepsWorker(app, app')
  BY QuietSame DEF TypeOK, Quiet
<1>2. ASSUME NEW w \in Workers, WorkerBegin(w) \/ WorkerSettle(w)
      PROVE  KeepsWorker(app, app')
  BY <1>2, QuietWorker DEF Quiet
<1>3. ASSUME NEW x \in Actors, BeginHandoff(x) \/ HandoffDone(x) \/ HandoffFailed(x)
      PROVE  KeepsWorker(app, app')
  BY <1>3, HandoffEffect, QuietOthers DEF Quiet
<1>4. ASSUME NEW u \in UI, Return(u) \/ Cleaned(u)
      PROVE  KeepsWorker(app, app')
  BY <1>4, ReturnEffect, QuietCleaned DEF Quiet
<1>5. ASSUME NEW u \in UI, Reap(u) PROVE ReapNow /\ ~app.exit /\ app' = Detached(app)
  BY <1>5 DEF Reap, HookRuns
<1>6. ASSUME \/ HidReturns \/ HidHook \/ HidCancels \/ HidQueues
             \/ HidClearsError \/ HidErrorSwitches \/ HidBrowses \/ HidTunes
             \/ TimeoutReported \/ OpenFails \/ PlayerFails \/ ScanInit \/ ExitCloses
      PROVE  KeepsWorker(app, app')
  BY <1>6, ReturnEffect, QuietHid, QuietOthers DEF Quiet
<1> QED BY <1>1, <1>2, <1>3, <1>4, <1>5, <1>6, AppSteps, PollEffect DEF AppStep

LEMMA ExitNext ==
  ASSUME TypeOK, WorkerInv, ExitInv, [Next]_vars
  PROVE  /\ ExitInv'
         /\ app'.exit = app.exit \/ ExitBegins
<1>1. app'.exit = app.exit \/ ExitBegins
  <2>1. ReapNow /\ ~app.exit /\ app' = Detached(app) => app'.exit = app.exit
    BY DetachEffect DEF TypeOK
  <2>2. \A u \in UI : Reaped(u) \/ CreateWorker(u) => app'.exit = app.exit
    BY ReapedEffect, CreateEffect, FreeWorker
  <2>3. \A w \in Workers : WorkerTail(w) => app'.exit = app.exit
    BY TailEffect
  <2> QED BY <2>1, <2>2, <2>3, AppEffects DEF KeepsWorker
<1>2. ExitBegins => app'.exit = TRUE /\ ui'["draw"].pc = "exit"
  BY ExitEffect, ExitBeginsUi
<1>3. ExitStep => ui'["draw"].pc \in ExitPcs
  BY ExitUi
<1>4. "exit" \in ExitPcs
  BY DEF ExitPcs
<1> QED BY <1>1, <1>2, <1>3, <1>4, UiMoves DEF ExitInv

LEMMA WorkerNext ==
  ASSUME TypeOK, WorkerInv, ExitInv, [Next]_vars
  PROVE  WorkerInv'
<1> SUFFICES ASSUME NEW w \in Workers, wk'[w].pc # "none"
             PROVE  IF app'.exit THEN ui'["draw"].worker = w
                    ELSE app'.worker = w /\ ~app'.finished
  BY DEF WorkerInv
<1>0. ASSUME app.exit
      PROVE  app'.exit /\ ui'["draw"].worker = ui["draw"].worker
  <2>1. ExitStep => ui'["draw"].worker = ui["draw"].worker
    BY ExitUi
  <2>2. ~ExitBegins
    BY <1>0 DEF ExitBegins
  <2> QED BY <1>0, <2>1, <2>2, UiMoves, ExitNext DEF ExitInv
<1>x. app'.exit = app.exit \/ ExitBegins
  BY ExitNext
<1>1. NoWorker \notin Workers
  BY DEF NoWorker, Workers
<1>2. CASE \E u \in UI : CreateWorker(u) /\ MayCreate
  <2>1. PICK u \in UI : CreateWorker(u) /\ MayCreate
    BY <1>2
  <2>2. Free \in Workers /\ \A v \in Workers : wk[v].pc = "none"
    BY <2>1, FreeWorker
  <2>3. wk' # wk
    BY <2>2
  <2>4. /\ app'.worker = Free /\ ~app'.finished /\ wk' = [wk EXCEPT ![Free].pc = "begin"]
        /\ ~app'.exit
    BY <2>1, <2>2, <2>3, CreateEffect DEF MayCreate
  <2>5. w = Free
    BY <2>2, <2>4 DEF TypeOK
  <2> QED BY <2>4, <2>5
<1>3. CASE \A u \in UI : ~(CreateWorker(u) /\ MayCreate)
  <2>1. wk[w].pc # "none"
    BY <1>3, WorkersMove
  <2>2. CASE app.exit
    BY <1>0, <2>1, <2>2 DEF WorkerInv
  <2>3. CASE ~app.exit
    <3>1. app.worker = w /\ ~app.finished
      BY <2>1, <2>3 DEF WorkerInv
    <3>2. CASE ExitBegins
      BY <3>1, <3>2, ExitEffect, ExitBeginsUi
    <3>3. CASE ~ExitBegins
      <4> SUFFICES app'.worker = app.worker /\ app'.finished = app.finished
        BY <1>x, <2>3, <3>1, <3>3
      <4>1. CASE KeepsWorker(app, app')
        BY <4>1 DEF KeepsWorker
      <4>2. CASE ReapNow
        BY <3>1, <4>2 DEF ReapNow
      <4>3. CASE \E u \in UI : Reaped(u)
        BY <4>3, ReapedEffect
      <4>4. CASE \E u \in UI : CreateWorker(u)
        <5>1. PICK u \in UI : CreateWorker(u) /\ ~MayCreate
          BY <1>3, <4>4
        <5>2. app'.worker = app.worker /\ (app'.finished = app.finished \/ app.worker = NoWorker)
          BY <5>1, CreateEffect DEF TypeOK
        <5> QED BY <1>1, <3>1, <5>2
      <4>5. CASE \E v \in Workers : WorkerTail(v)
        <5>1. PICK v \in Workers : WorkerTail(v)
          BY <4>5
        <5>2. wk[v].pc # "none" /\ wk'[v].pc = "none"
          BY <5>1 DEF WorkerTail, TypeOK
        <5>3. v = w
          BY <2>3, <3>1, <5>2 DEF WorkerInv
        <5> QED BY <5>2, <5>3
      <4> QED BY <3>3, <4>1, <4>2, <4>3, <4>4, <4>5, AppEffects
    <3> QED BY <3>2, <3>3
  <2> QED BY <2>2, <2>3
<1> QED BY <1>2, <1>3

LEMMA LaunchNext ==
  ASSUME TypeOK, WorkerInv, ExitInv, LaunchKept, [Next]_vars
  PROVE  LaunchKept'
<1>1. NoWorker \notin Workers
  BY DEF NoWorker, Workers
<1>2. CASE KeepsWorker(app, app')
  BY <1>2 DEF KeepsWorker, LaunchKept, WorkerKnown
<1>3. CASE ReapNow /\ ~app.exit /\ app' = Detached(app)
  BY <1>3, DetachEffect DEF TypeOK, LaunchKept, WorkerKnown
<1>4. CASE \E u \in UI : Reaped(u)
  BY <1>4, ReapedEffect DEF LaunchKept
<1>5. ASSUME NEW u \in UI, CreateWorker(u) PROVE LaunchKept'
  <2>1. MayCreate => Free \in Workers
    BY FreeWorker
  <2> QED BY <1>1, <1>5, <2>1, CreateEffect DEF LaunchKept, WorkerKnown
<1>6. CASE \E w \in Workers : WorkerTail(w)
  BY <1>6, TailEffect DEF LaunchKept, WorkerKnown
<1>7. CASE ExitBegins
  BY <1>7, ExitEffect DEF LaunchKept
<1> QED BY <1>2, <1>3, <1>4, <1>5, <1>6, <1>7, AppEffects

-----------------------------------------------------------------------------
(* The scanner, and what is left when the exit has closed the network.      *)

Joins(u) == ui[u].pc = "joinscan" /\ ui[u].joins
ExitJoinsScan == ui["draw"].pc \in {"exit", "exitjoin"} /\ ui["draw"].joins

(* A scanner that runs can be found: its handle is there, or somebody has   *)
(* it to join it.                                                           *)
ScanInv ==
  /\ scan.thread # "none" =>
       scan.handle \/ ExitJoinsScan \/ \E u \in UI : Joins(u)
  /\ scan.finished => scan.thread = "none"
  /\ app.exit => ~scan.handle
  /\ FetchBound

(* The exit has joined what it could.                                       *)
Over == ui["draw"].pc \in {"exitplayer", "exitstream", "closed", "terminated"}

ClosedInv ==
  /\ Over => \A w \in Workers : wk[w].pc = "none"
  /\ Over /\ scan.thread # "none" => Joins("hid")
  /\ ui["draw"].pc = "closed" => stream.phase = "none" /\ ~stream.producing

(* What each section of the scanner does to its handle, flag and thread.    *)
LEMMA ScanEffect ==
  ASSUME TypeOK
  PROVE  /\ \A u \in UI : Launched(u) =>
              /\ ui'[u].pc = "joinscan" /\ ui'[u].joins = scan.handle /\ OnlyUi(u)
              /\ ui[u].pc # "joinscan"
              /\ scan'.thread = scan.thread /\ scan'.finished = scan.finished /\ ~scan'.handle
         /\ ExitBegins =>
              scan'.thread = scan.thread /\ scan'.finished = scan.finished /\ ~scan'.handle
         /\ \A u \in UI : ScanJoined(u) =>
              /\ scan'.thread = scan.thread /\ ~scan'.finished /\ scan'.handle = scan.handle
              /\ ui[u].joins => scan.thread = "none"
         /\ ReapScan => scan'.thread = scan.thread /\ scan.finished
                        /\ ~scan'.finished /\ ~scan'.handle
         /\ LaunchScan => /\ ~app.exit /\ ui' = ui /\ ~scan'.finished
                          /\ \/ scan'.handle
                             \/ scan'.thread = scan.thread /\ scan'.handle = scan.handle
         /\ ScanStep => /\ scan.thread # "none" /\ scan'.handle = scan.handle
                        /\ scan'.thread = "none" \/ scan'.finished = scan.finished
<1>1. scan \in Scanners
  BY DEF TypeOK
<1>2. ASSUME NEW u \in UI, Launched(u)
      PROVE  /\ ui'[u].pc = "joinscan" /\ ui'[u].joins = scan.handle /\ OnlyUi(u)
             /\ ui[u].pc # "joinscan"
             /\ scan'.thread = scan.thread /\ scan'.finished = scan.finished /\ ~scan'.handle
  <2>1. PICK then \in {"idle", "keys"} : Launch(u, then)
    BY <1>2 DEF Launched
  <2>2. ui[u].pc # "joinscan"
    BY <1>2 DEF Launched
  <2>3. scan' = [scan EXCEPT !.stop = TRUE, !.handle = FALSE]
    BY <2>1, LaunchEffect
  <2> QED BY <1>1, <2>1, <2>2, <2>3, LaunchEffect DEF Scanners
<1>3. ExitBegins => scan'.thread = scan.thread /\ scan'.finished = scan.finished /\ ~scan'.handle
  BY <1>1 DEF ExitBegins, Scanners
<1>4. ASSUME NEW u \in UI, ScanJoined(u)
      PROVE  /\ scan'.thread = scan.thread /\ ~scan'.finished /\ scan'.handle = scan.handle
             /\ ui[u].joins => scan.thread = "none"
  BY <1>1, <1>4 DEF ScanJoined, Scanners
<1>5. ReapScan => /\ scan'.thread = scan.thread /\ scan.finished
                  /\ ~scan'.finished /\ ~scan'.handle
  BY <1>1 DEF ReapScan, Scanners
<1>6. ASSUME LaunchScan
      PROVE  /\ ~app.exit /\ ui' = ui /\ ~scan'.finished
             /\ \/ scan'.handle
                \/ scan'.thread = scan.thread /\ scan'.handle = scan.handle
  <2> DEFINE clear == [scan EXCEPT !.stop = FALSE, !.finished = FALSE]
  <2>1. ~app.exit /\ ui' = ui
    BY <1>6 DEF LaunchScan, HookRuns
  <2>2. scan' = clear \/ scan' = [clear EXCEPT !.thread = "init", !.handle = TRUE]
    BY <1>6 DEF LaunchScan
  <2>3. /\ clear \in Scanners /\ clear.thread = scan.thread /\ clear.handle = scan.handle
        /\ ~clear.finished
    BY <1>1 DEF Scanners
  <2> HIDE DEF clear
  <2> QED BY <2>1, <2>2, <2>3 DEF Scanners
<1>7. ASSUME ScanStep
      PROVE  /\ scan.thread # "none" /\ scan'.handle = scan.handle
             /\ scan'.thread = "none" \/ scan'.finished = scan.finished
  BY <1>1, <1>7 DEF ScanStep, ScanInit, ScanNext, ScanFetched, ScanEnds, Scanners
<1> QED BY <1>2, <1>3, <1>4, <1>5, <1>6, <1>7

(* Whoever has the handle keeps it until the scanner has ended.             *)
LEMMA JoinKept ==
  ASSUME TypeOK, [Next]_vars, scan.thread # "none"
  PROVE  /\ \A u \in UI : Joins(u) => Joins(u)'
         /\ ExitJoinsScan => ExitJoinsScan'
<1>1. ASSUME NEW u \in UI, Joins(u) PROVE Joins(u)'
  <2>1. ScanJoined(u) => ~ui[u].joins
    BY DEF ScanJoined
  <2> QED BY <1>1, <2>1, UiMoves DEF Joins
<1>2. ASSUME ExitJoinsScan PROVE ExitJoinsScan'
  <2>1. ui'["draw"] = ui["draw"] \/ ExitStep
    BY <1>2, UiMoves DEF ExitJoinsScan, ExitPcs
  <2>2. ASSUME ExitStep
        PROVE  ui'["draw"].pc = "exitjoin" /\ ui'["draw"].joins = ui["draw"].joins
    <3>1. ExitStops
      BY <1>2, <2>2 DEF ExitStep, ExitJoins, ThreadsJoined, ExitPlayer, ExitCloses, At,
                        ExitJoinsScan
    <3>2. Goto("draw", "exitjoin") /\ "draw" \in UI /\ "exitjoin" \in UiPcs
      BY <3>1 DEF ExitStops, UI, UiPcs, ExitPcs
    <3> QED BY <2>2, <3>2, GotoEffect, ExitUi
  <2> QED BY <1>2, <2>1, <2>2 DEF ExitJoinsScan
<1> QED BY <1>1, <1>2

LEMMA ScanNextInv ==
  ASSUME TypeOK, WorkerInv, ExitInv, ScanInv, [Next]_vars
  PROVE  ScanInv'
<1>1. FetchBound'
  BY ScanSteps, ScanTyped DEF ScanInv
<1>2. /\ scan'.finished => scan'.thread = "none"
      /\ app'.exit => ~scan'.handle
  <2>1. app'.exit = app.exit \/ ExitBegins
    BY ExitNext
  <2> QED BY <2>1, ScanSteps, ScanEffect DEF ScanInv, ScanChanges
<1>3. ASSUME scan'.thread # "none"
      PROVE  scan'.handle \/ ExitJoinsScan' \/ \E u \in UI : Joins(u)'
  <2>1. scan.thread # "none" \/ LaunchScan
    BY <1>3, ScanSteps, ScanEffect DEF ScanChanges
  <2>2. CASE LaunchScan /\ scan.thread = "none"
    BY <1>3, <2>2, ScanEffect
  <2>3. CASE scan.thread # "none"
    <3>1. CASE ExitJoinsScan \/ \E u \in UI : Joins(u)
      BY <2>3, <3>1, JoinKept
    <3>2. CASE scan.handle
      <4>1. CASE \E u \in UI : Launched(u)
        BY <3>2, <4>1, ScanEffect DEF Joins
      <4>2. CASE ExitBegins
        BY <3>2, <4>2, ExitBeginsUi DEF ExitJoinsScan
      <4>3. CASE ReapScan
        BY <2>3, <4>3, ScanEffect DEF ScanInv
      <4>4. CASE scan' = scan \/ LaunchScan \/ ScanStep \/ \E u \in UI : ScanJoined(u)
        BY <3>2, <4>4, ScanEffect
      <4> QED BY <4>1, <4>2, <4>3, <4>4, ScanSteps DEF ScanChanges
    <3> QED BY <2>3, <3>1, <3>2 DEF ScanInv
  <2> QED BY <2>1, <2>2, <2>3
<1>4. (\E u \in UI : Joins(u)') => (\E u \in UI : Joins(u))'
  OBVIOUS
<1> QED BY <1>1, <1>2, <1>3, <1>4 DEF ScanInv

LEMMA ClosedNext ==
  ASSUME TypeOK, WorkerInv, ExitInv, ScanInv, ClosedInv, [Next]_vars
  PROVE  ClosedInv'
<1> DEFINE OverPcs == {"exitplayer", "exitstream", "closed", "terminated"}
<1>1. \A p \in OverPcs : p \in ExitPcs
  BY DEF ExitPcs
(* How the draw thread gets there.                                          *)
<1>2. ASSUME Over' PROVE Over \/ ExitJoins
  <2>1. ui'["draw"].pc \in OverPcs /\ ui'["draw"].pc \in ExitPcs /\ ui'["draw"].pc # "exit"
    BY <1>1, <1>2 DEF Over
  <2>2. ui'["draw"] = ui["draw"] \/ ExitStep
    BY <2>1, UiMoves, ExitBeginsUi
  <2>3. ASSUME ExitStops PROVE FALSE
    <3>1. Goto("draw", "exitjoin") /\ "draw" \in UI /\ "exitjoin" \in UiPcs
      BY <2>3 DEF ExitStops, UI, UiPcs, ExitPcs
    <3>2. ui'["draw"].pc = "exitjoin"
      BY <3>1, GotoEffect
    <3> QED BY <2>1, <3>2
  <2>4. ExitPlayer \/ ExitCloses => Over
    BY DEF ExitPlayer, ExitCloses, At, Over
  <2>5. ui'["draw"] = ui["draw"] => Over
    BY <2>1 DEF Over
  <2> QED BY <2>2, <2>3, <2>4, <2>5 DEF ExitStep
<1>3. Over => app.exit
  BY <1>1 DEF Over, ExitInv
<1>4. ASSUME Over' PROVE \A w \in Workers : wk'[w].pc = "none"
  <2>1. app.exit
    BY <1>2, <1>3, <1>4 DEF ExitInv, ExitJoins, At, ExitPcs
  <2>2. \A w \in Workers : wk'[w].pc # "none" => wk[w].pc # "none"
    BY <2>1, WorkersMove DEF MayCreate
  <2>3. ASSUME ExitJoins, NEW w \in Workers PROVE wk[w].pc = "none"
    <3>1. wk[w].pc # "none" => ui["draw"].worker = w
      BY <2>1 DEF WorkerInv
    <3>2. NoWorker # w
      BY DEF NoWorker, Workers
    <3> QED BY <2>3, <3>1, <3>2 DEF ExitJoins, ThreadsJoined
  <2> QED BY <1>2, <1>4, <2>2, <2>3 DEF ClosedInv
<1>5. ASSUME Over', scan'.thread # "none" PROVE Joins("hid")'
  <2>1. ~LaunchScan /\ scan.thread # "none"
    <3>1. app.exit
      BY <1>2, <1>3, <1>5 DEF ExitInv, ExitJoins, At, ExitPcs
    <3> QED BY <1>5, <3>1, ScanSteps, ScanEffect DEF ScanChanges
  <2>2. CASE Over
    BY <2>1, <2>2, JoinKept DEF ClosedInv, UI
  <2>3. CASE ExitJoins
    <3>1. ui["draw"].pc = "exitjoin" /\ ~ui["draw"].joins
      BY <2>1, <2>3 DEF ExitJoins, ThreadsJoined, At
    <3>2. app.exit
      BY <3>1 DEF ExitInv, ExitPcs
    <3>3. Joins("hid")
      BY <2>1, <3>1, <3>2 DEF ScanInv, ExitJoinsScan, Joins, UI
    <3> QED BY <2>1, <3>3, JoinKept DEF UI
  <2> QED BY <1>2, <1>5, <2>2, <2>3
<1>6. ASSUME ui'["draw"].pc = "closed" PROVE stream'.phase = "none" /\ ~stream'.producing
  <2>1. ui["draw"].pc \in ExitPcs
    BY <1>6, UiMoves, ExitBeginsUi DEF ExitPcs
  <2>2. CASE ui["draw"].pc = "closed"
    <3>1. stream \in Streams /\ stream.phase = "none" /\ ~stream.producing
      BY <2>2 DEF ClosedInv, TypeOK
    <3>2. \A w \in Workers : wk[w].pc = "none"
      BY <2>2 DEF ClosedInv, Over
    <3>3. \A w \in Workers : ~WorkerReset(w) /\ ~WorkerStaged(w)
      BY <3>2 DEF WorkerReset, WorkerStaged
    <3>4. ~Produce
      BY <3>1 DEF Produce
    <3> QED BY <3>1, <3>3, <3>4, StreamSteps, StopTyped DEF StreamStep, NoStream
  <2>3. CASE ui["draw"].pc # "closed"
    <3>1. ExitStep
      BY <1>6, <2>1, <2>3, UiMoves
    <3>2. "draw" \in UI /\ \A p \in ExitPcs : p \in UiPcs
      BY DEF UI, UiPcs
    <3>3. ASSUME NEW p \in ExitPcs, p # "closed" PROVE ~Goto("draw", p)
      BY <1>6, <3>2, <3>3, GotoEffect
    <3>4. ExitCloses
      BY <3>1, <3>3 DEF ExitStep, ExitStops, ExitJoins, ExitPlayer, ExitPcs
    <3> QED BY <3>4 DEF ExitCloses, NoStream
  <2> QED BY <2>2, <2>3
<1>7. Over' => \A w \in Workers : (wk[w].pc = "none")'
  BY <1>4
<1> QED BY <1>5, <1>6, <1>7 DEF ClosedInv

-----------------------------------------------------------------------------
(* The wait for a playback, over a whole step.                              *)

(* Only a hand-over opens a player.                                         *)
LEMMA OpeningKept ==
  ASSUME TypeOK, WorkerInv, [Next]_vars, NEW x \in Actors, PcOf(x)' \in OpeningPcs,
         \A y \in Actors : ~HandoffStep(y)
  PROVE  PcOf(x) \in OpeningPcs
<1>1. /\ "hid" \notin Workers /\ Actors = Workers \cup {"hid"} /\ UI = {"hid", "draw"}
      /\ \A pc \in CommonPcs : pc \notin OpeningPcs
      /\ "begin" \notin OpeningPcs
  BY DEF Workers, Actors, UI, CommonPcs, OpeningPcs
<1>2. CASE x \in Workers
  <2>1. wk'[x].pc \in OpeningPcs
    BY <1>2 DEF PcOf
  <2>2. ASSUME NEW w \in Workers, WorkerStep(w) PROVE wk'[x] = wk[x]
    BY <1>2, <2>1, <2>2, WorkerWk DEF OnlyWorker
  <2>3. ASSUME NEW u \in UI, CreateWorker(u) PROVE wk'[x] = wk[x]
    <3>1. wk' = wk \/ (MayCreate /\ wk' = [wk EXCEPT ![Free].pc = "begin"])
      BY <2>3, FreeWorker, CreateEffect
    <3>2. MayCreate => Free \in Workers
      BY FreeWorker
    <3> QED BY <1>1, <1>2, <2>1, <3>1, <3>2 DEF TypeOK, WorkerStates
  <2>4. wk'[x] = wk[x]
    BY <2>2, <2>3, NextSteps, UnmovedThreads
  <2> QED BY <1>2, <2>1, <2>4 DEF PcOf
<1>3. CASE x = "hid"
  <2>1. ui'["hid"].pc \in OpeningPcs
    BY <1>1, <1>3 DEF PcOf
  <2>2. ASSUME NEW u \in UI, UiStep(u) PROVE ui'["hid"] = ui["hid"]
    BY <1>1, <2>1, <2>2, UiStepUi DEF OnlyUi
  <2>3. ~HidSection
    BY <2>1, HidUi
  <2>4. DrawSection \/ ExitStep \/ ExitBegins => ui'["hid"] = ui["hid"]
    BY <1>1, DrawUi, ExitUi, ExitBeginsUi DEF OnlyUi
  <2>5. ui'["hid"] = ui["hid"]
    BY <2>2, <2>3, <2>4, NextSteps, UnmovedThreads
  <2> QED BY <1>1, <1>3, <2>1, <2>5 DEF PcOf
<1> QED BY <1>1, <1>2, <1>3

(* Only a hand-over, a return and the exit change whether one is waited for.*)
LEMMA AwaitingKept ==
  ASSUME TypeOK, WorkerInv, [Next]_vars, ~ExitBegins,
         \A x \in Actors : ~HandoffStep(x)
  PROVE  \/ app'.awaiting = app.awaiting
         \/ PlayerReturned(app) /\ app'.awaiting = FALSE /\ player' = player
<1>1. app \in Apps
  BY DEF TypeOK
<1>2. ASSUME NEW w \in Workers, WorkerBegin(w) \/ WorkerSettle(w) \/ WorkerTail(w)
      PROVE  app'.awaiting = app.awaiting
  BY <1>2, QuietWorker, TailEffect DEF Quiet
<1>3. ASSUME NEW u \in UI, Reap(u) \/ Reaped(u) \/ CreateWorker(u) \/ Cleaned(u)
      PROVE  app'.awaiting = app.awaiting
  <2>1. Reap(u) => app'.awaiting = app.awaiting
    BY <1>1, DetachEffect DEF Reap
  <2> QED BY <1>3, <2>1, ReapedEffect, CreateEffect, FreeWorker, QuietCleaned DEF Quiet
<1>4. HidScan \/ HidInterrupt => app'.awaiting = app.awaiting
  BY <1>1, PollEffect, DetachEffect
<1>5. \/ HidHook \/ HidCancels \/ HidQueues \/ HidClearsError \/ HidErrorSwitches
      \/ HidBrowses \/ HidTunes \/ TimeoutReported \/ OpenFails \/ PlayerFails \/ ScanInit
      \/ ExitCloses
      => app'.awaiting = app.awaiting
  BY QuietHid, QuietOthers DEF Quiet
<1>6. \A x \in Actors : ~BeginHandoff(x) /\ ~HandoffDone(x) /\ ~HandoffFailed(x)
  BY DEF HandoffStep
<1>7. HidReturns \/ (\E u \in UI : Return(u)) => player' = player
  BY DEF HidReturns, Return
<1> QED BY <1>2, <1>3, <1>4, <1>5, <1>6, <1>7, ReturnEffect, AppSteps DEF AppStep

(* The player's own steps apart, a section leaves the playback as it is.    *)
LEMMA PlayerKept ==
  ASSUME TypeOK, [Next]_vars, \A x \in Actors : ~HandoffStep(x)
  PROVE  \/ SamePlay(player, player')
         \/ TakePlay \/ PlayerOpens \/ OpenFails \/ TakeAbort \/ CountReturn \/ ExitPlayer
<1>1. player' = player => SamePlay(player, player')
  BY SamePlayer DEF TypeOK
<1>2. ASSUME NEW u \in UI, UiStep(u) PROVE player' = player
  <2>1. Cleaned(u) => player' = player
    BY Zenon DEF Cleaned
  <2> QED BY <1>2, <2>1 DEF UiStep, Reap, Reaped, ScanJoined, CreateWorker, Return, Process,
                            Stopped
<1>3. ASSUME NEW w \in Workers, WorkerStep(w) PROVE player' = player
  BY <1>3 DEF WorkerStep, WorkerBegin, WorkerCheck, WorkerReset, WorkerStaged, WorkerFails,
              WorkerSettle, WorkerStop, WorkerTail
<1>4. ASSUME HidSection PROVE SamePlay(player, player')
  <2>1. \A k : HidKey(k) => player' = player
    BY DEF HidKey
  <2>2. HidHook \/ HidReturns \/ HidBrowsed \/ HidStops => player' = player
    BY DEF HidHook, HidReturns, HidBrowsed, HidStops
  <2>3. \/ HidScan \/ HidInterrupt \/ HidDrawerTunes \/ HidHook \/ HidReturns \/ HidBrowsed
        \/ HidStops
        \/ \E k : HidKey(k)
    BY <1>4 DEF HidSection, HidCancels, HidQueues, HidClearsError, HidErrorSwitches, HidBrowses,
                HidWatches, HidTunes, HidIgnores
  <2> QED BY <1>1, <2>1, <2>2, <2>3, PlayerLeft
<1>5. ASSUME DrawSection PROVE SamePlay(player, player')
  <2>1. ReapScan \/ LaunchScan => player' = player
    BY DEF ReapScan, LaunchScan
  <2> QED BY <1>1, <1>5, <2>1, PlayerLeft DEF DrawSection
<1>6. ExitStep \/ ExitBegins => player' = player \/ ExitPlayer
  BY DEF ExitStep, ExitBegins, ExitStops, ExitJoins, ExitCloses
<1>7. PlayStep \/ PlayerFails
      => \/ SamePlay(player, player')
         \/ TakePlay \/ PlayerOpens \/ OpenFails \/ TakeAbort \/ CountReturn
  BY FailsSame DEF PlayStep
<1>8. ScanStep \/ Produce \/ UNCHANGED vars => player' = player
  BY DEF ScanStep, ScanInit, ScanNext, ScanFetched, ScanEnds, Produce, vars
<1> QED BY <1>1, <1>2, <1>3, <1>4, <1>5, <1>6, <1>7, <1>8, NextSteps

LEMMA HandNext ==
  ASSUME TypeOK, WorkerInv, ExitInv, HandInv, [Next]_vars
  PROVE  player' \in Players /\ HandInv'
<1>1. player \in Players
  BY DEF TypeOK
<1>2. CASE \E x \in Actors : HandoffStep(x)
  BY <1>2, HandOpens
<1>3. CASE ExitBegins
  BY <1>1, <1>3, ExitEffect DEF ExitBegins, HandInv
<1>4. CASE ExitPlayer
  <2>1. player' \in Players
    <3> DEFINE q == <<>>
    <3>1. q \in Seq({"play", "abort"})
      OBVIOUS
    <3>2. player' \in {player, [player EXCEPT !.state = "gone", !.queue = q]}
      BY <1>4 DEF ExitPlayer
    <3> HIDE DEF q
    <3> QED BY <1>1, <3>1, <3>2 DEF Players
  <2>2. app.exit /\ app' = app
    BY <1>4 DEF ExitPlayer, At, ExitInv, ExitPcs
  <2> QED BY <2>1, <2>2 DEF HandInv
<1>5. CASE ~ExitBegins /\ ~ExitPlayer /\ \A x \in Actors : ~HandoffStep(x)
  <2>1. app'.exit = app.exit
    BY <1>5, ExitNext
  <2>2. \A x \in Actors : PcOf(x)' \in OpeningPcs => PcOf(x) \in OpeningPcs
    BY <1>5, OpeningKept
  <2>3. CASE app'.awaiting = app.awaiting
    <3>1. Calm
      BY <2>1, <2>2, <2>3 DEF Calm
    <3>2. SamePlay(player, player') => player' \in Players
      BY DEF SamePlay
    <3> QED BY <1>5, <3>1, <3>2, PlayerKept, HandSame, HandPlays
  <2>4. CASE PlayerReturned(app) /\ app'.awaiting = FALSE /\ player' = player
    BY <1>1, <2>1, <2>2, <2>4, HandReturns
  <2> QED BY <1>5, <2>3, <2>4, AwaitingKept
<1> QED BY <1>2, <1>3, <1>4, <1>5

-----------------------------------------------------------------------------
(* The invariant, and what it says.                                         *)

LiveInv ==
  TypeOK /\ WorkerInv /\ ExitInv /\ LaunchKept /\ HandInv /\ ScanInv /\ ClosedInv

LEMMA LiveInit == Init => LiveInv
<1> SUFFICES ASSUME Init PROVE LiveInv
  OBVIOUS
<1>1. /\ AUTO_RELOCK_MAX_ATTEMPTS \in Nat /\ Scans \in Nat /\ MaxEvents \in Nat
  BY LiveAppAssumption
<1>2. Idle \in UiStates /\ Idle.pc = "idle" /\ Idle.worker = "none"
  BY DEF Idle, UiStates, StreamErrors, NoWorker
<1>3. /\ ui \in [UI -> UiStates] /\ \A u \in UI : ui[u].pc = "idle"
  BY <1>2 DEF Init
<1>4. wk \in [Workers -> WorkerStates] /\ \A w \in Workers : wk[w].pc = "none"
  BY DEF Init, WorkerStates
<1>5. app \in Apps /\ ~app.exit /\ ~app.launch_after_reap /\ ~app.awaiting
  BY <1>1 DEF Init, Apps, NoWorker
<1>6. stream \in Streams
  BY DEF Init, NoStream, Streams, StreamErrors
<1>7. player \in Players /\ player.queue = <<>> /\ player.state = "idle"
      /\ ~player.start_pending /\ ~player.returned
  <2> DEFINE q == <<>>
  <2>1. q \in Seq({"play", "abort"})
    OBVIOUS
  <2>2. player = [state |-> "idle", queue |-> q, start_pending |-> FALSE,
                  return_requested |-> FALSE, timed_out |-> FALSE, returned |-> FALSE,
                  drawer |-> FALSE]
    BY DEF Init
  <2>3. q = <<>>
    OBVIOUS
  <2> HIDE DEF q
  <2> QED BY <2>1, <2>2, <2>3 DEF Players
<1>8. scan \in Scanners /\ scan.thread = "init" /\ scan.handle /\ ~scan.finished
  BY <1>1 DEF Init, Scanners
<1>9. env \in [b : {"up", "down", "closed"}, left : 0..MaxEvents]
  BY <1>1 DEF Init
<1>10. TypeOK
  BY <1>3, <1>4, <1>5, <1>6, <1>7, <1>8, <1>9 DEF TypeOK
<1>11. "draw" \in UI /\ "hid" \notin Workers /\ "hid" \in UI /\ Actors = Workers \cup {"hid"}
  BY DEF UI, Workers, Actors
<1>12. HandInv
  <2>1. \A x \in Actors : PcOf(x) \notin OpeningPcs
    BY <1>3, <1>4, <1>11 DEF PcOf, OpeningPcs
  <2>2. NoPlay(player.queue) /\ OnePlay(player.queue)
    BY <1>7 DEF NoPlay, OnePlay
  <2> QED BY <1>5, <1>7, <2>1, <2>2 DEF HandInv, PlayerFree
<1>13. WorkerInv /\ ExitInv /\ LaunchKept
  BY <1>3, <1>4, <1>5, <1>11 DEF WorkerInv, ExitInv, ExitPcs, LaunchKept
<1>14. ScanInv /\ ClosedInv
  BY <1>3, <1>5, <1>8, <1>11 DEF ScanInv, FetchBound, ClosedInv, Over
<1> QED BY <1>10, <1>12, <1>13, <1>14 DEF LiveInv

LEMMA LiveNext == LiveInv /\ [Next]_vars => LiveInv'
<1> SUFFICES ASSUME LiveInv, [Next]_vars PROVE LiveInv'
  OBVIOUS
<1> USE DEF LiveInv
<1>1. app' \in Apps
  <2>1. \A u \in UI : CreateWorker(u) /\ MayCreate => Free \in Workers
    BY FreeWorker
  <2> QED BY <2>1, AppSteps, AppTyped DEF TypeOK
<1>2. stream' \in Streams
  BY StreamSteps, StreamTyped
<1>3. player' \in Players /\ HandInv'
  BY HandNext
<1>4. wk' \in [Workers -> WorkerStates]
  BY WorkersMove
<1>5. ui' \in [UI -> UiStates]
  BY UiMoves
<1>6. scan' \in Scanners
  BY ScanSteps, ScanTyped DEF ScanInv
<1>7. env' \in [b : {"up", "down", "closed"}, left : 0..MaxEvents]
  BY EnvSteps, EnvTyped DEF Envs
<1>8. TypeOK'
  BY <1>1, <1>2, <1>3, <1>4, <1>5, <1>6, <1>7 DEF TypeOK
<1>9. WorkerInv' /\ ExitInv' /\ LaunchKept'
  BY WorkerNext, ExitNext, LaunchNext
<1> QED BY <1>3, <1>8, <1>9, ScanNextInv, ClosedNext

(* The whole invariant, which the theorems below read off.                  *)
THEOREM LiveInvariant == Spec => []LiveInv
BY LiveInit, LiveNext, PTL DEF Spec

(* The fields of the controller, of its workers and UI threads, of the      *)
(* stream, the player, the scanner and the keys keep their ranges: the      *)
(* relock count its limit, the scanner's index the number of sources.       *)
THEOREM LiveTypes == Spec => []TypeOK
<1>1. LiveInv => TypeOK
  BY DEF LiveInv
<1> QED BY <1>1, LiveInvariant, PTL

(* However launches, reapers, returns and the exit meet, no second tune     *)
(* worker is ever started beside one that runs (launch_tune_worker).        *)
THEOREM NeverTwoWorkers == Spec => []OneWorker
<1>1. LiveInv => OneWorker
  BY DEF LiveInv, WorkerInv, OneWorker
<1> QED BY <1>1, LiveInvariant, PTL

(* launch_after_reap is only ever set while there is a reaper to come, and  *)
(* outlives neither it nor a new worker, unless the app is being left.      *)
THEOREM LaunchesAreKept == Spec => []LaunchKept
<1>1. LiveInv => LaunchKept
  BY DEF LiveInv
<1> QED BY <1>1, LiveInvariant, PTL

(* From the play request of a hand-over until the player's return has been  *)
(* counted, awaiting_player_return is set, unless the app is being left.    *)
THEOREM HandoversAreAwaited == Spec => []HandoverAwaited
<1>1. LiveInv => HandoverAwaited
  BY DEF LiveInv, HandInv, HandoverAwaited, PlayerFree
<1> QED BY <1>1, LiveInvariant, PTL

(* MiniIptv_live_app_exit closes the network when the stream is gone, its   *)
(* producer joined and no tune worker left; only a scanner that the HID     *)
(* thread is joining may still be there.                                    *)
THEOREM ExitClosesLast == Spec => []NetworkClosed
<1>1. LiveInv => NetworkClosed
  BY DEF LiveInv, ClosedInv, Over, Joins, NetworkClosed, At
<1> QED BY <1>1, LiveInvariant, PTL
=============================================================================
