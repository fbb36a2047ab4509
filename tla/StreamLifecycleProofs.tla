------------------------- MODULE StreamLifecycleProofs -------------------------
(***************************************************************************)
(* The invariants of StreamLifecycle, for any set of threads that start    *)
(* and stop sessions, any number of sessions and any room in the ring.     *)
(***************************************************************************)
EXTENDS StreamLifecycle, TLAPS

-----------------------------------------------------------------------------
(* Types, one group of variables at a time.                                 *)

LEMMA EmptyRing == <<>> \in Seq(Generations) /\ Len(<<>>) <= Room
BY LifecycleAssumption

LEMMA InitTypes == Init => TypeOK
<1> SUFFICES ASSUME Init PROVE TypeOK
  OBVIOUS
<1>1. CallersTyped
  BY DEF Init, CallersTyped, CallerSteps
<1>2. SessionTyped
  BY EmptyRing DEF Init, SessionTyped
<1>3. DecoderTyped
  BY DEF Init, DecoderTyped
<1> QED BY <1>1, <1>2, <1>3 DEF Init, TypeOK, ThreadStates

LEMMA CallersKept == CallersTyped /\ UNCHANGED locals => CallersTyped'
BY DEF CallersTyped, locals

LEMMA SessionKept == SessionTyped /\ UNCHANGED session => SessionTyped'
BY DEF SessionTyped, session

LEMMA DecoderKept == DecoderTyped /\ UNCHANGED decoder => DecoderTyped'
BY DEF DecoderTyped, decoder

(* A step of one caller that goes on to another of its steps.               *)
LEMMA CallerMoves ==
  ASSUME CallersTyped, NEW t \in Callers, NEW step \in CallerSteps, Goto(t, step),
         lifecycle_lock' \in Callers \cup {NoThread},
         call' \in [Callers -> {"start", "stop"}],
         after' \in [Callers -> {"unlock", "token"}],
         handle' \in [Callers -> {0} \cup Generations]
  PROVE  CallersTyped'
BY DEF CallersTyped, Goto

LEMMA AppendTypes ==
  ASSUME NEW u \in Seq(Generations), Len(u) < Room, NEW g \in Generations
  PROVE  Append(u, g) \in Seq(Generations) /\ Len(Append(u, g)) <= Room
BY LifecycleAssumption

LEMMA TailTypes ==
  ASSUME NEW u \in Seq(Generations), Len(u) <= Room, u # <<>>
  PROVE  /\ Tail(u) \in Seq(Generations) /\ Len(Tail(u)) <= Room
         /\ Head(u) \in Generations
BY LifecycleAssumption

(* The steps outside the session: lock, unlock, entering a call.            *)
LEMMA EnterTypes ==
  ASSUME TypeOK, NEW t \in Callers,
         CallStart(t) \/ CallStop(t) \/ Lock(t) \/ Unlock(t) \/ CheckToken(t)
  PROVE  TypeOK'
<1> USE CallersKept, SessionKept, DecoderKept DEF TypeOK
<1>s. {"lock", "take", "idle", "unlock", "reset"} \subseteq CallerSteps
  BY DEF CallerSteps
<1>1. CASE CallStart(t)
  BY <1>1, <1>s, CallerMoves DEF CallStart, CallersTyped
<1>2. CASE CallStop(t)
  <2>1. CallersTyped'
    BY <1>2, <1>s, CallerMoves DEF CallStop, CallersTyped
  <2>2. SessionTyped'
    BY <1>2 DEF CallStop, SessionTyped
  <2> QED BY <1>2, <2>1, <2>2 DEF CallStop
<1>3. CASE Lock(t)
  BY <1>3, <1>s, CallerMoves DEF Lock, CallersTyped
<1>4. CASE Unlock(t)
  BY <1>4, <1>s, CallerMoves DEF Unlock, CallersTyped
<1>5. CASE CheckToken(t)
  BY <1>5, <1>s, CallerMoves DEF CheckToken, CallersTyped
<1> QED BY <1>1, <1>2, <1>3, <1>4, <1>5

(* The steps of the two functions that change the session.                  *)
LEMMA SessionTypes ==
  ASSUME TypeOK, NEW t \in Callers,
         \/ TakeSession(t) \/ JoinProducer(t) \/ WipeSession(t) \/ ResetSession(t)
         \/ SeedProducer(t) \/ CreateFails(t) \/ PublishSession(t)
  PROVE  TypeOK'
<1> USE CallersKept, SessionKept, DecoderKept DEF TypeOK
<1>s. CallerSteps = {"idle", "lock", "take", "join", "wipe", "unlock", "token", "reset",
                     "tuning", "seed", "create", "publish"}
  BY DEF CallerSteps
<1>a. after[t] \in CallerSteps /\ producer \in {0} \cup Generations
  BY <1>s DEF CallersTyped, SessionTyped
<1>1. CASE TakeSession(t)
  <2>1. CallersTyped'
    BY <1>1, <1>s, <1>a, CallerMoves DEF TakeSession, CallersTyped
  <2>2. SessionTyped'
    BY <1>1 DEF TakeSession, SessionTyped, session
  <2> QED BY <1>1, <2>1, <2>2 DEF TakeSession
<1>2. CASE JoinProducer(t)
  BY <1>2, <1>s, CallerMoves DEF JoinProducer, CallersTyped
<1>3. CASE WipeSession(t)
  <2>1. CallersTyped'
    BY <1>3, <1>s, <1>a, CallerMoves DEF WipeSession, CallersTyped
  <2>2. SessionTyped'
    BY <1>3, EmptyRing DEF WipeSession, Wiped, SessionTyped
  <2> QED BY <1>3, <2>1, <2>2 DEF WipeSession
<1>4. CASE ResetSession(t)
  <2>1. CallersTyped'
    BY <1>4, <1>s, CallerMoves DEF ResetSession, CallersTyped
  <2>2. stream_generation + 1 \in Generations
    BY <1>4, LifecycleAssumption DEF ResetSession, Generations
  <2>3. SessionTyped'
    BY <1>4, <2>2, EmptyRing DEF ResetSession, Wiped, SessionTyped
  <2> QED BY <1>4, <2>1, <2>2, <2>3 DEF ResetSession
<1>5. CASE SeedProducer(t)
  <2>1. CallersTyped'
    BY <1>5, <1>s, CallerMoves DEF SeedProducer, CallersTyped
  <2>2. SessionTyped'
    BY <1>5 DEF SeedProducer, SessionTyped
  <2> QED BY <1>5, <2>1, <2>2 DEF SeedProducer
<1>6. CASE CreateFails(t)
  <2>1. CallersTyped'
    BY <1>6, <1>s, CallerMoves DEF CreateFails, CallersTyped
  <2>2. SessionTyped'
    BY <1>6 DEF CreateFails, SessionTyped
  <2> QED BY <1>6, <2>1, <2>2 DEF CreateFails
<1>7. CASE PublishSession(t)
  <2>1. CallersTyped'
    BY <1>7, <1>s, CallerMoves DEF PublishSession, CallersTyped
  <2>2. SessionTyped'
    BY <1>7 DEF PublishSession, SessionTyped
  <2> QED BY <1>7, <2>1, <2>2 DEF PublishSession
<1> QED BY <1>1, <1>2, <1>3, <1>4, <1>5, <1>6, <1>7

(* The steps of a tune.                                                     *)
LEMMA TuneTypes ==
  ASSUME TypeOK, SessionAgrees, HolderAgrees, NEW t \in Callers,
         Stage(t) \/ TuneFails(t) \/ TuneStaged(t) \/ CreateProducer(t)
  PROVE  TypeOK'
<1> USE CallersKept, SessionKept, DecoderKept DEF TypeOK
<1>s. {"take", "seed", "publish"} \subseteq CallerSteps
  BY DEF CallerSteps
<1>1. CASE Stage(t)
  <2>1. stream_generation \in Generations
    BY <1>1 DEF Stage, HolderAgrees, HolderAt, SessionAgrees, SessionExists
  <2>2. SessionTyped'
    BY <1>1, <2>1, AppendTypes DEF Stage, SessionTyped
  <2> QED BY <1>1, <2>2 DEF Stage
<1>2. CASE TuneFails(t)
  BY <1>2, <1>s, CallerMoves DEF TuneFails, CallersTyped
<1>3. CASE TuneStaged(t)
  BY <1>3, <1>s, CallerMoves DEF TuneStaged, CallersTyped
<1>4. CASE CreateProducer(t)
  <2>1. CallersTyped'
    BY <1>4, <1>s, CallerMoves DEF CreateProducer, CallersTyped
  <2>2. thread' \in [Generations -> ThreadStates]
    BY <1>4 DEF CreateProducer, ThreadStates
  <2> QED BY <1>4, <2>1, <2>2 DEF CreateProducer
<1> QED BY <1>1, <1>2, <1>3, <1>4

LEMMA ClockTypes == TypeOK /\ (CancelTune \/ TuneDeadline) => TypeOK'
<1> USE CallersKept, SessionKept, DecoderKept DEF TypeOK
<1>1. TypeOK /\ CancelTune => TypeOK'
  BY DEF CancelTune
<1>2. TypeOK /\ TuneDeadline => TypeOK'
  <2> SUFFICES ASSUME TypeOK, TuneDeadline PROVE TypeOK'
    OBVIOUS
  <2>1. SessionTyped'
    BY DEF TuneDeadline, SessionTyped
  <2> QED BY <2>1 DEF TuneDeadline
<1> QED BY <1>1, <1>2

LEMMA ProducerTypes ==
  ASSUME TypeOK, NEW g \in Generations,
         ProducerCommit(g) \/ ProducerGivesUp(g) \/ ProducerSeesStop(g) \/ ProducerExit(g)
  PROVE  TypeOK'
<1> USE CallersKept, SessionKept, DecoderKept DEF TypeOK
<1>1. CASE ProducerCommit(g)
  <2>1. SessionTyped'
    BY <1>1, AppendTypes DEF ProducerCommit, SessionTyped
  <2> QED BY <1>1, <2>1 DEF ProducerCommit
<1>2. CASE ProducerGivesUp(g)
  <2>1. SessionTyped' /\ thread' \in [Generations -> ThreadStates]
    BY <1>2 DEF ProducerGivesUp, SessionTyped, ThreadStates
  <2> QED BY <1>2, <2>1 DEF ProducerGivesUp
<1>3. CASE ProducerSeesStop(g)
  <2>1. thread' \in [Generations -> ThreadStates]
    BY <1>3 DEF ProducerSeesStop, ThreadStates
  <2> QED BY <1>3, <2>1 DEF ProducerSeesStop
<1>4. CASE ProducerExit(g)
  <2>1. SessionTyped' /\ thread' \in [Generations -> ThreadStates]
    BY <1>4 DEF ProducerExit, SessionTyped, ThreadStates
  <2> QED BY <1>4, <2>1 DEF ProducerExit
<1> QED BY <1>1, <1>2, <1>3, <1>4

LEMMA ReadTypes ==
  ASSUME TypeOK, ReadCall \/ ReadTakes \/ ReadEnds
  PROVE  TypeOK'
<1> USE CallersKept, SessionKept DEF TypeOK
<1>1. CASE ReadCall
  <2>1. DecoderTyped'
    BY <1>1 DEF ReadCall, DecoderTyped, SessionTyped
  <2> QED BY <1>1, <2>1 DEF ReadCall
<1>2. CASE ReadTakes
  <2>1. unread \in Seq(Generations) /\ Len(unread) <= Room
    BY DEF SessionTyped
  <2>2. SessionTyped'
    BY <1>2, <2>1, TailTypes DEF ReadTakes, SessionTyped
  <2>3. DecoderTyped'
    BY <1>2, <2>1, TailTypes DEF ReadTakes, DecoderTyped
  <2> QED BY <1>2, <2>2, <2>3 DEF ReadTakes
<1>3. CASE ReadEnds
  <2>1. DecoderTyped'
    BY <1>3 DEF ReadEnds, DecoderTyped
  <2> QED BY <1>3, <2>1 DEF ReadEnds
<1> QED BY <1>1, <1>2, <1>3

LEMMA NextTypes == TypeOK /\ SessionAgrees /\ HolderAgrees /\ [Next]_vars => TypeOK'
<1> SUFFICES ASSUME TypeOK, SessionAgrees, HolderAgrees, [Next]_vars PROVE TypeOK'
  OBVIOUS
<1>1. CASE UNCHANGED vars
  BY <1>1, CallersKept, SessionKept, DecoderKept DEF TypeOK, vars
<1> QED BY <1>1, EnterTypes, SessionTypes, TuneTypes, ClockTypes, ProducerTypes, ReadTypes
        DEF Next

-----------------------------------------------------------------------------
(* The lifecycle lock: one caller inside, the others wait or are idle.      *)

Inside(t) == pc[t] \notin {"idle", "lock"}

LEMMA Alone ==
  ASSUME LockExcludes, NEW t \in Callers, Inside(t), NEW u \in Callers, u # t
  PROVE  pc[u] \in {"idle", "lock"}
BY DEF LockExcludes, Inside

(* A caller that is inside and stays inside.                                *)
LEMMA StaysInside ==
  ASSUME CallersTyped, LockExcludes, NEW t \in Callers, Inside(t),
         NEW step \in CallerSteps \ {"idle", "lock"}, Goto(t, step),
         lifecycle_lock' = lifecycle_lock
  PROVE  LockExcludes'
BY DEF CallersTyped, LockExcludes, Inside, Goto

LEMMA LockStep == TypeOK /\ LockExcludes /\ [Next]_vars => LockExcludes'
<1> SUFFICES ASSUME TypeOK, LockExcludes, [Next]_vars PROVE LockExcludes'
  OBVIOUS
<1>t. CallersTyped
  BY DEF TypeOK
<1>1. CASE UNCHANGED locals
  BY <1>1 DEF LockExcludes, locals
<1>2. ASSUME NEW t \in Callers, CallStart(t) \/ CallStop(t) PROVE LockExcludes'
  BY <1>2, <1>t DEF CallStart, CallStop, LockExcludes, CallersTyped, Goto
<1>3. ASSUME NEW t \in Callers, Lock(t) PROVE LockExcludes'
  BY <1>3, <1>t, LifecycleAssumption DEF Lock, LockExcludes, CallersTyped, Goto
<1>4. ASSUME NEW t \in Callers, Unlock(t) PROVE LockExcludes'
  BY <1>4, <1>t, LifecycleAssumption DEF Unlock, LockExcludes, CallersTyped, Goto
<1>5. ASSUME NEW t \in Callers,
             \/ TakeSession(t) \/ JoinProducer(t) \/ WipeSession(t) \/ CheckToken(t)
             \/ ResetSession(t) \/ TuneFails(t) \/ TuneStaged(t) \/ SeedProducer(t)
             \/ CreateProducer(t) \/ CreateFails(t) \/ PublishSession(t)
      PROVE  LockExcludes'
  <2>1. after[t] \in CallerSteps \ {"idle", "lock"}
    BY <1>t DEF CallersTyped, CallerSteps
  <2>2. Inside(t) /\ lifecycle_lock' = lifecycle_lock
    BY <1>5 DEF TakeSession, JoinProducer, WipeSession, CheckToken, ResetSession,
       TuneFails, TuneStaged, SeedProducer, CreateProducer, CreateFails, PublishSession,
       Inside
  <2>3. PICK step \in CallerSteps \ {"idle", "lock"} : Goto(t, step)
    BY <1>5, <2>1 DEF TakeSession, JoinProducer, WipeSession, CheckToken, ResetSession,
       TuneFails, TuneStaged, SeedProducer, CreateProducer, CreateFails, PublishSession,
       CallerSteps
  <2> QED BY <1>t, <2>2, <2>3, StaysInside
<1>6. ASSUME NEW t \in Callers, Stage(t) PROVE LockExcludes'
  BY <1>1, <1>6 DEF Stage
<1>7. ASSUME NEW g \in Generations,
             ProducerCommit(g) \/ ProducerGivesUp(g) \/ ProducerSeesStop(g) \/ ProducerExit(g)
      PROVE  LockExcludes'
  BY <1>1, <1>7 DEF ProducerCommit, ProducerGivesUp, ProducerSeesStop, ProducerExit
<1>8. CASE CancelTune \/ TuneDeadline \/ ReadCall \/ ReadTakes \/ ReadEnds
  BY <1>1, <1>8 DEF CancelTune, TuneDeadline, ReadCall, ReadTakes, ReadEnds
<1> QED BY <1>1, <1>2, <1>3, <1>4, <1>5, <1>6, <1>7, <1>8 DEF Next, vars

-----------------------------------------------------------------------------
(* The invariant without the types and the lock.                            *)

Agrees ==
  /\ SessionAgrees /\ HolderAgrees /\ NobodyAgrees /\ RingBelongsToSession
  /\ (reader = "in" => got = 0) /\ ReadsOneGeneration

(* A step of the caller inside: what holds of the others does not change.   *)
LEMMA InsideStep ==
  ASSUME CallersTyped, LockExcludes, HolderAgrees, NEW t \in Callers, Inside(t),
         NEW step \in CallerSteps, Goto(t, step), call' = call,
         \A u \in Callers : u # t => after'[u] = after[u],
         HolderAt(t)'
  PROVE  HolderAgrees'
<1> SUFFICES ASSUME NEW u \in Callers PROVE HolderAt(u)'
  BY DEF HolderAgrees
<1>1. CASE u = t
  BY <1>1
<1>2. CASE u # t
  <2>1. pc[u] \in {"idle", "lock"} /\ pc'[u] = pc[u]
    BY <1>2, Alone DEF Goto, CallersTyped
  <2> QED BY <1>2, <2>1 DEF HolderAgrees, HolderAt
<1> QED BY <1>1, <1>2

(* While a caller is inside, the lock is not free.                          *)
LEMMA SomebodyInside ==
  ASSUME LockExcludes, NEW t \in Callers, Inside(t), lifecycle_lock' = lifecycle_lock
  PROVE  NobodyAgrees'
BY LifecycleAssumption DEF LockExcludes, Inside, NobodyAgrees

(* A step that leaves the callers, the session flags and the producer alone *)
(* and brings no thread to life.                                            *)
LEMMA ThreadsStep ==
  ASSUME HolderAgrees, NobodyAgrees, UNCHANGED <<locals, starting, producer>>,
         SessionExists' = SessionExists,
         \A g \in Generations : Live(g)' => Live(g)
  PROVE  HolderAgrees' /\ NobodyAgrees'
BY DEF HolderAgrees, HolderAt, NobodyAgrees, NoneLive, locals

-----------------------------------------------------------------------------
(* Entering and leaving a call.                                             *)

LEMMA CallAgrees ==
  ASSUME TypeOK, LockExcludes, Agrees, NEW t \in Callers, CallStart(t) \/ CallStop(t)
  PROVE  Agrees'
<1>t. CallersTyped
  BY DEF TypeOK
<1>u. /\ UNCHANGED <<lifecycle_lock, handle, starting, stopping, initialized, producer,
                     generation, stream_generation, unread, thread, reader, captured, got>>
      /\ Goto(t, "lock")
  BY DEF CallStart, CallStop, session, decoder
<1>1. HolderAgrees'
  <2> SUFFICES ASSUME NEW u \in Callers PROVE HolderAt(u)'
    BY DEF HolderAgrees
  <2>1. CASE u = t
    BY <1>t, <1>u, <2>1 DEF CallStart, CallStop, HolderAt, Goto, CallersTyped
  <2>2. CASE u # t
    <3>1. pc'[u] = pc[u] /\ call'[u] = call[u] /\ after'[u] = after[u]
      BY <1>t, <1>u, <2>2 DEF CallStart, CallStop, Goto, CallersTyped
    <3> QED BY <1>u, <3>1 DEF Agrees, HolderAgrees, HolderAt, SessionExists, NoneLive, Live
  <2> QED BY <2>1, <2>2
<1> QED BY <1>u, <1>1
        DEF Agrees, SessionAgrees, SessionExists, NobodyAgrees, RingBelongsToSession, Live,
            ReadsOneGeneration

LEMMA LockAgrees ==
  ASSUME TypeOK, LockExcludes, Agrees, NEW t \in Callers, Lock(t)
  PROVE  Agrees'
<1>t. CallersTyped
  BY DEF TypeOK
<1>u. /\ UNCHANGED <<call, after, handle, session, stream_generation, thread, decoder>>
      /\ Goto(t, "take") /\ lifecycle_lock = NoThread
  BY DEF Lock
<1>n. lifecycle_lock' # NoThread
  BY LifecycleAssumption DEF Lock
<1>1. HolderAgrees'
  <2> SUFFICES ASSUME NEW u \in Callers PROVE HolderAt(u)'
    BY DEF HolderAgrees
  <2>1. CASE u = t
    <3>1. pc'[t] = "take"
      BY <1>t, <1>u DEF Goto, CallersTyped
    <3>2. \A g \in Generations : Live(g)' => producer' = g
      BY <1>u DEF Agrees, NobodyAgrees, Live, session
    <3> QED BY <1>u, <2>1, <3>1, <3>2 DEF Agrees, HolderAgrees, HolderAt
  <2>2. CASE u # t
    <3>1. pc'[u] = pc[u]
      BY <1>t, <1>u, <2>2 DEF Goto, CallersTyped
    <3> QED BY <1>u, <3>1
            DEF Agrees, HolderAgrees, HolderAt, SessionExists, NoneLive, Live, session
  <2> QED BY <2>1, <2>2
<1> QED BY <1>u, <1>n, <1>1
        DEF Agrees, SessionAgrees, SessionExists, NobodyAgrees, RingBelongsToSession, Live,
            ReadsOneGeneration, session, decoder

LEMMA UnlockAgrees ==
  ASSUME TypeOK, LockExcludes, Agrees, NEW t \in Callers, Unlock(t)
  PROVE  Agrees'
<1>t. CallersTyped
  BY DEF TypeOK
<1>u. /\ UNCHANGED <<call, after, handle, session, stream_generation, thread, decoder>>
      /\ Goto(t, "idle") /\ pc[t] = "unlock"
  BY DEF Unlock
<1>1. HolderAt(t)'
  BY <1>t, <1>u DEF Agrees, HolderAgrees, HolderAt, Goto, CallersTyped
<1>2. HolderAgrees'
  BY <1>t, <1>u, <1>1, InsideStep DEF Agrees, Inside, CallerSteps
<1>3. NobodyAgrees'
  BY <1>u DEF Agrees, HolderAgrees, HolderAt, NobodyAgrees, Live, session
<1> QED BY <1>u, <1>2, <1>3
        DEF Agrees, SessionAgrees, SessionExists, RingBelongsToSession, Live,
            ReadsOneGeneration, session, decoder

-----------------------------------------------------------------------------
(* The steps inside the lock.                                               *)

LEMMA InsideAgrees ==
  ASSUME CallersTyped, LockExcludes, Agrees, NEW t \in Callers, Inside(t),
         NEW step \in CallerSteps, Goto(t, step), UNCHANGED <<lifecycle_lock, call, decoder>>,
         \A u \in Callers : u # t => after'[u] = after[u],
         HolderAt(t)', SessionAgrees', RingBelongsToSession'
  PROVE  Agrees'
<1>1. HolderAgrees'
  BY InsideStep DEF Agrees
<1>2. NobodyAgrees'
  BY SomebodyInside
<1> QED BY <1>1, <1>2 DEF Agrees, ReadsOneGeneration, decoder

(* The same when session, ring and threads stay as they are.                *)
LEMMA SessionStays ==
  ASSUME Agrees, UNCHANGED <<starting, stopping, initialized, generation,
                             stream_generation, unread, thread>>
  PROVE  SessionAgrees' /\ RingBelongsToSession' /\ SessionExists' = SessionExists
         /\ NoneLive' = NoneLive
BY DEF Agrees, SessionAgrees, RingBelongsToSession, SessionExists, NoneLive, Live

LEMMA TakeAgrees ==
  ASSUME TypeOK, LockExcludes, Agrees, NEW t \in Callers, TakeSession(t)
  PROVE  Agrees'
<1>t. CallersTyped /\ SessionTyped
  BY DEF TypeOK
<1>u. /\ pc[t] = "take" /\ Inside(t) /\ after' = after
      /\ UNCHANGED <<lifecycle_lock, call, decoder, stream_generation, thread>>
      /\ HolderAt(t)
  BY DEF TakeSession, Inside, Agrees, HolderAgrees
<1>1. CASE ~starting /\ ~initialized
  <2>1. UNCHANGED <<handle, session>> /\ Goto(t, after[t]) /\ ~SessionExists
    BY <1>1 DEF TakeSession, SessionExists
  <2>2. /\ SessionAgrees' /\ RingBelongsToSession' /\ ~SessionExists' /\ after[t] \in CallerSteps
        /\ pc'[t] = after[t] /\ after[t] \in {"token", "unlock"}
    BY <1>t, <1>u, <2>1, SessionStays DEF session, Goto, CallersTyped, CallerSteps
  <2>3. HolderAt(t)'
    BY <1>u, <2>1, <2>2 DEF HolderAt, Live, session
  <2> QED BY <1>t, <1>u, <2>1, <2>2, <2>3, InsideAgrees
<1>2. CASE ~(~starting /\ ~initialized)
  <2>1. /\ Goto(t, "join") /\ stopping' = TRUE /\ handle' = [handle EXCEPT ![t] = producer]
        /\ UNCHANGED <<starting, generation, unread>>
    BY <1>2 DEF TakeSession
  <2>2. pc'[t] = "join" /\ handle'[t] = producer /\ SessionExists /\ SessionExists'
    BY <1>2, <1>t, <2>1 DEF Goto, CallersTyped, SessionExists
  <2>3. SessionAgrees' /\ RingBelongsToSession'
    BY <1>u, <2>1, <2>2 DEF Agrees, SessionAgrees, RingBelongsToSession, Live
  <2>4. HolderAt(t)'
    BY <1>u, <2>1, <2>2 DEF HolderAt, Live
  <2> QED BY <1>t, <1>u, <2>1, <2>3, <2>4, InsideAgrees DEF CallerSteps
<1> QED BY <1>1, <1>2

LEMMA JoinAgrees ==
  ASSUME TypeOK, LockExcludes, Agrees, NEW t \in Callers, JoinProducer(t)
  PROVE  Agrees'
<1>t. CallersTyped
  BY DEF TypeOK
<1>u. /\ pc[t] = "join" /\ Inside(t) /\ Goto(t, "wipe") /\ HolderAt(t)
      /\ UNCHANGED <<lifecycle_lock, call, after, session, stream_generation, thread, decoder>>
  BY DEF JoinProducer, Inside, Agrees, HolderAgrees
<1>1. NoneLive'
  <2> SUFFICES ASSUME NEW g \in Generations, Live(g) PROVE FALSE
    BY <1>u DEF NoneLive, Live
  <2>1. handle[t] = g /\ g # 0
    BY <1>u, LifecycleAssumption DEF HolderAt, Generations
  <2> QED BY <2>1 DEF JoinProducer, Live
<1>2. pc'[t] = "wipe"
  BY <1>t, <1>u DEF Goto, CallersTyped
<1>3. HolderAt(t)'
  BY <1>u, <1>1, <1>2 DEF HolderAt
<1> QED BY <1>t, <1>u, <1>3, SessionStays, InsideAgrees DEF session, CallerSteps

LEMMA WipeAgrees ==
  ASSUME TypeOK, LockExcludes, Agrees, NEW t \in Callers, WipeSession(t)
  PROVE  Agrees'
<1>t. CallersTyped
  BY DEF TypeOK
<1>u. /\ pc[t] = "wipe" /\ Inside(t) /\ Goto(t, after[t]) /\ HolderAt(t)
      /\ ~SessionExists' /\ generation' = 0 /\ unread' = <<>>
      /\ UNCHANGED <<lifecycle_lock, call, after, stream_generation, thread, decoder>>
  BY DEF WipeSession, Wiped, Inside, Agrees, HolderAgrees, SessionExists
<1>1. NoneLive'
  BY <1>u DEF HolderAt, NoneLive, Live
<1>2. after[t] \in CallerSteps /\ pc'[t] = after[t] /\ after[t] \in {"token", "unlock"}
  BY <1>t, <1>u DEF Goto, CallersTyped, CallerSteps
<1>3. HolderAt(t)'
  BY <1>u, <1>1, <1>2 DEF HolderAt, NoneLive
<1>4. SessionAgrees' /\ RingBelongsToSession'
  BY <1>u, <1>1 DEF SessionAgrees, RingBelongsToSession, NoneLive
<1> QED BY <1>t, <1>u, <1>2, <1>3, <1>4, InsideAgrees

LEMMA TokenAgrees ==
  ASSUME TypeOK, LockExcludes, Agrees, NEW t \in Callers, CheckToken(t)
  PROVE  Agrees'
<1>t. CallersTyped
  BY DEF TypeOK
<1>u. /\ pc[t] = "token" /\ Inside(t) /\ HolderAt(t)
      /\ Goto(t, IF token THEN "unlock" ELSE "reset")
      /\ after' = [after EXCEPT ![t] = "unlock"]
      /\ UNCHANGED <<lifecycle_lock, call, session, stream_generation, thread, decoder>>
  BY DEF CheckToken, Inside, Agrees, HolderAgrees
<1>1. /\ pc'[t] \in {"unlock", "reset"} /\ after'[t] = "unlock"
      /\ \A v \in Callers : v # t => after'[v] = after[v]
  BY <1>t, <1>u DEF Goto, CallersTyped
<1>2. call[t] # "stop" /\ ~SessionExists
  BY <1>u DEF HolderAt
<1>3. \A g \in Generations : ~Live(g)
  BY <1>2, LifecycleAssumption DEF Agrees, SessionAgrees, Generations
<1>4. HolderAt(t)'
  BY <1>u, <1>1, <1>2, <1>3 DEF HolderAt, SessionExists, Live, session
<1>5. SessionAgrees' /\ RingBelongsToSession'
  BY <1>u, SessionStays DEF session
<1> QED BY <1>t, <1>u, <1>1, <1>4, <1>5, InsideAgrees DEF CallerSteps

LEMMA ResetAgrees ==
  ASSUME TypeOK, LockExcludes, Agrees, NEW t \in Callers, ResetSession(t)
  PROVE  Agrees'
<1>t. CallersTyped
  BY DEF TypeOK
<1>u. /\ pc[t] = "reset" /\ Inside(t) /\ Goto(t, "tuning") /\ HolderAt(t)
      /\ starting' = TRUE /\ generation' = stream_generation + 1
      /\ stream_generation' = stream_generation + 1 /\ unread' = <<>>
      /\ UNCHANGED <<lifecycle_lock, call, after, thread, decoder>>
  BY DEF ResetSession, Wiped, Inside, Agrees, HolderAgrees
<1>1. ~SessionExists /\ pc'[t] = "tuning" /\ call[t] # "stop"
  BY <1>t, <1>u DEF HolderAt, Goto, CallersTyped
<1>2. NoneLive'
  BY <1>u, <1>1, LifecycleAssumption DEF Agrees, SessionAgrees, NoneLive, Live, Generations
<1>3. stream_generation + 1 # 0
  BY LifecycleAssumption DEF TypeOK, Generations
<1>4. HolderAt(t)'
  BY <1>u, <1>1, <1>2 DEF HolderAt
<1>5. SessionAgrees' /\ RingBelongsToSession'
  BY <1>u, <1>2, <1>3 DEF SessionAgrees, RingBelongsToSession, SessionExists, NoneLive
<1> QED BY <1>t, <1>u, <1>4, <1>5, InsideAgrees DEF CallerSteps

(* Staging appends a segment of the session being started.                  *)
LEMMA StageAgrees ==
  ASSUME TypeOK, LockExcludes, Agrees, NEW t \in Callers, Stage(t)
  PROVE  Agrees'
<1>t. SessionTyped
  BY DEF TypeOK
<1>u. /\ starting /\ generation = stream_generation /\ generation # 0
      /\ unread' = Append(unread, stream_generation)
      /\ UNCHANGED <<locals, starting, stopping, initialized, producer, generation,
                     stream_generation, thread, decoder>>
  BY DEF Stage, Agrees, HolderAgrees, HolderAt, SessionAgrees, SessionExists
<1>1. SessionExists /\ SessionExists'
  BY <1>u DEF SessionExists
<1>2. RingBelongsToSession'
  BY <1>t, <1>u DEF Agrees, RingBelongsToSession, SessionTyped
<1>3. SessionAgrees'
  BY <1>u, <1>1 DEF Agrees, SessionAgrees, Live
<1>4. HolderAgrees' /\ NobodyAgrees'
  BY <1>u, <1>1, ThreadsStep DEF Agrees, Live
<1> QED BY <1>u, <1>2, <1>3, <1>4 DEF Agrees, ReadsOneGeneration, decoder

(* The steps of a start that leave the session and the threads alone.       *)
LEMMA QuietAgrees ==
  ASSUME TypeOK, LockExcludes, Agrees, NEW t \in Callers,
         TuneFails(t) \/ TuneStaged(t) \/ SeedProducer(t) \/ CreateFails(t)
  PROVE  Agrees'
<1>t. CallersTyped
  BY DEF TypeOK
<1>u. /\ pc[t] \in {"tuning", "create", "seed"} /\ Inside(t) /\ HolderAt(t)
      /\ UNCHANGED <<lifecycle_lock, call, after, handle, starting, stopping, initialized,
                     producer, generation, unread, stream_generation, thread, decoder>>
  BY DEF TuneFails, TuneStaged, SeedProducer, CreateFails, Inside, Agrees, HolderAgrees,
         session
<1>1. PICK step \in {"take", "seed", "create"} : Goto(t, step)
  BY DEF TuneFails, TuneStaged, SeedProducer, CreateFails
<1>2. pc'[t] = step /\ call[t] # "stop" /\ starting /\ NoneLive
  BY <1>t, <1>u, <1>1 DEF HolderAt, Goto, CallersTyped
<1>3. SessionAgrees' /\ RingBelongsToSession' /\ NoneLive'
  BY <1>u, <1>2, SessionStays
<1>4. HolderAt(t)'
  BY <1>u, <1>1, <1>2, <1>3 DEF HolderAt, NoneLive
<1> QED BY <1>t, <1>u, <1>1, <1>3, <1>4, InsideAgrees DEF CallerSteps

LEMMA CreateAgrees ==
  ASSUME TypeOK, LockExcludes, Agrees, NEW t \in Callers, CreateProducer(t)
  PROVE  Agrees'
<1>t. CallersTyped /\ thread \in [Generations -> ThreadStates]
  BY DEF TypeOK
<1>u. /\ pc[t] = "create" /\ Inside(t) /\ HolderAt(t) /\ Goto(t, "publish")
      /\ thread' = [thread EXCEPT ![stream_generation] = "running"]
      /\ UNCHANGED <<lifecycle_lock, call, after, handle, session, stream_generation, decoder>>
  BY DEF CreateProducer, Inside, Agrees, HolderAgrees
<1>1. pc'[t] = "publish" /\ call[t] # "stop" /\ starting /\ NoneLive
  BY <1>t, <1>u DEF HolderAt, Goto, CallersTyped
<1>2. HolderAt(t)'
  BY <1>u, <1>1 DEF HolderAt, session
<1>3. \A g \in Generations : Live(g)' => g = stream_generation
  BY <1>t, <1>u, <1>1 DEF NoneLive, Live
<1>4. SessionAgrees' /\ RingBelongsToSession'
  BY <1>u, <1>1, <1>3
     DEF Agrees, SessionAgrees, RingBelongsToSession, SessionExists, session
<1> QED BY <1>t, <1>u, <1>2, <1>4, InsideAgrees DEF CallerSteps

LEMMA PublishAgrees ==
  ASSUME TypeOK, LockExcludes, Agrees, NEW t \in Callers, PublishSession(t)
  PROVE  Agrees'
<1>t. CallersTyped
  BY DEF TypeOK
<1>u. /\ pc[t] = "publish" /\ Inside(t) /\ HolderAt(t) /\ Goto(t, "unlock")
      /\ producer' = stream_generation /\ initialized' = TRUE
      /\ UNCHANGED <<lifecycle_lock, call, after, handle, stopping, generation, unread,
                     stream_generation, thread, decoder>>
  BY DEF PublishSession, Inside, Agrees, HolderAgrees
<1>1. pc'[t] = "unlock" /\ call[t] # "stop" /\ SessionExists /\ SessionExists'
  BY <1>t, <1>u DEF HolderAt, Goto, CallersTyped, SessionExists
<1>2. \A g \in Generations : Live(g)' => g = stream_generation
  BY <1>u, <1>1 DEF Agrees, SessionAgrees, Live
<1>3. HolderAt(t)'
  BY <1>u, <1>1, <1>2 DEF HolderAt
<1>4. SessionAgrees' /\ RingBelongsToSession'
  BY <1>u, <1>1, <1>2 DEF Agrees, SessionAgrees, RingBelongsToSession
<1> QED BY <1>t, <1>u, <1>3, <1>4, InsideAgrees DEF CallerSteps

-----------------------------------------------------------------------------
(* The clock, the producer threads and the decoder.                         *)

LEMMA ClockAgrees == Agrees /\ (CancelTune \/ TuneDeadline \/ UNCHANGED vars) => Agrees'
<1> SUFFICES ASSUME Agrees, CancelTune \/ TuneDeadline \/ UNCHANGED vars PROVE Agrees'
  OBVIOUS
<1>u. UNCHANGED <<locals, starting, stopping, initialized, producer, generation, unread,
                  stream_generation, thread, decoder>>
  BY DEF CancelTune, TuneDeadline, vars, session
<1>1. SessionAgrees' /\ RingBelongsToSession' /\ SessionExists' = SessionExists
  BY <1>u, SessionStays
<1>2. HolderAgrees' /\ NobodyAgrees'
  BY <1>u, <1>1, ThreadsStep DEF Agrees, Live
<1> QED BY <1>u, <1>1, <1>2 DEF Agrees, ReadsOneGeneration, decoder

(* A live producer commits to the session it was created for.               *)
LEMMA CommitAgrees ==
  ASSUME TypeOK, Agrees, NEW g \in Generations, ProducerCommit(g)
  PROVE  Agrees'
<1>t. SessionTyped
  BY DEF TypeOK
<1>u. /\ unread' = Append(unread, g) /\ Live(g)
      /\ UNCHANGED <<locals, starting, stopping, initialized, producer, generation,
                     stream_generation, thread, decoder>>
  BY DEF ProducerCommit, Live
<1>1. g = generation /\ SessionExists
  BY <1>u, LifecycleAssumption DEF Agrees, SessionAgrees, Generations
<1>2. SessionExists'
  BY <1>u, <1>1 DEF SessionExists
<1>3. RingBelongsToSession'
  BY <1>t, <1>u, <1>1 DEF Agrees, RingBelongsToSession, SessionTyped
<1>4. SessionAgrees'
  BY <1>u, <1>1, <1>2 DEF Agrees, SessionAgrees, Live
<1>5. HolderAgrees' /\ NobodyAgrees'
  BY <1>u, <1>1, <1>2, ThreadsStep DEF Agrees, Live
<1> QED BY <1>u, <1>3, <1>4, <1>5 DEF Agrees, ReadsOneGeneration, decoder

LEMMA LeaveAgrees ==
  ASSUME TypeOK, Agrees, NEW g \in Generations,
         ProducerGivesUp(g) \/ ProducerSeesStop(g) \/ ProducerExit(g)
  PROVE  Agrees'
<1>t. thread \in [Generations -> ThreadStates]
  BY DEF TypeOK
<1>u. UNCHANGED <<locals, starting, stopping, initialized, producer, generation, unread,
                  stream_generation, decoder>>
  BY DEF ProducerGivesUp, ProducerSeesStop, ProducerExit, session
<1>1. \A h \in Generations : Live(h)' => Live(h)
  BY <1>t DEF ProducerGivesUp, ProducerSeesStop, ProducerExit, Live
<1>2. SessionExists' = SessionExists
  BY <1>u DEF SessionExists
<1>3. SessionAgrees' /\ RingBelongsToSession'
  BY <1>u, <1>1, <1>2 DEF Agrees, SessionAgrees, RingBelongsToSession
<1>4. HolderAgrees' /\ NobodyAgrees'
  BY <1>u, <1>1, <1>2, ThreadsStep DEF Agrees
<1> QED BY <1>u, <1>3, <1>4 DEF Agrees, ReadsOneGeneration, decoder

LEMMA ReadAgrees ==
  ASSUME TypeOK, Agrees, ReadCall \/ ReadTakes \/ ReadEnds
  PROVE  Agrees'
<1>t. unread \in Seq(Generations)
  BY DEF TypeOK, SessionTyped
<1>u. UNCHANGED <<locals, starting, stopping, initialized, producer, generation,
                  stream_generation, thread>>
  BY DEF ReadCall, ReadTakes, ReadEnds, session
<1>1. SessionExists' = SessionExists
  BY <1>u DEF SessionExists
<1>2. unread' = unread \/ (unread # <<>> /\ unread' = Tail(unread))
  BY DEF ReadCall, ReadTakes, ReadEnds, session
<1>3. RingBelongsToSession'
  BY <1>t, <1>u, <1>2 DEF Agrees, RingBelongsToSession
<1>4. SessionAgrees'
  BY <1>t, <1>u, <1>1, <1>2 DEF Agrees, SessionAgrees, Live
<1>5. HolderAgrees' /\ NobodyAgrees'
  BY <1>u, <1>1, ThreadsStep DEF Agrees, Live
<1>6. (reader = "in" => got = 0)' /\ ReadsOneGeneration'
  <2>1. CASE ReadCall
    BY <2>1 DEF ReadCall, ReadsOneGeneration
  <2>2. CASE ReadTakes
    <3>1. unread[1] = captured /\ got' = unread[1]
      BY <1>t, <2>2 DEF ReadTakes, Agrees, RingBelongsToSession
    <3> QED BY <2>2, <3>1 DEF ReadTakes, ReadsOneGeneration
  <2>3. CASE ReadEnds
    BY <2>3 DEF ReadEnds, ReadsOneGeneration, Agrees
  <2> QED BY <2>1, <2>2, <2>3
<1> QED BY <1>3, <1>4, <1>5, <1>6 DEF Agrees

LEMMA AgreesStep == TypeOK /\ LockExcludes /\ Agrees /\ [Next]_vars => Agrees'
<1> SUFFICES ASSUME TypeOK, LockExcludes, Agrees, [Next]_vars PROVE Agrees'
  OBVIOUS
<1> QED BY CallAgrees, LockAgrees, UnlockAgrees, TakeAgrees, JoinAgrees, WipeAgrees,
           TokenAgrees, ResetAgrees, StageAgrees, QuietAgrees, CreateAgrees, PublishAgrees,
           ClockAgrees, CommitAgrees, LeaveAgrees, ReadAgrees
        DEF Next

-----------------------------------------------------------------------------
(* The theorems.                                                            *)

LEMMA InitInvariant == Init => LifecycleInv
<1> SUFFICES ASSUME Init PROVE LifecycleInv
  OBVIOUS
<1>1. NoneLive /\ ~SessionExists
  BY DEF Init, NoneLive, Live, SessionExists
<1>2. LockExcludes
  BY LifecycleAssumption DEF Init, LockExcludes
<1>3. SessionAgrees /\ NobodyAgrees /\ RingBelongsToSession
  BY <1>1 DEF Init, SessionAgrees, NobodyAgrees, RingBelongsToSession, NoneLive
<1>4. HolderAgrees
  BY <1>1 DEF Init, HolderAgrees, HolderAt
<1> QED BY InitTypes, <1>2, <1>3, <1>4 DEF Init, LifecycleInv, ReadsOneGeneration

(* The inductive invariant of the session lifecycle: whatever threads start *)
(* and stop sessions, the lock of live_stream.c excludes and its holder's   *)
(* step says what is left of the session and of its producer.               *)
THEOREM LifecycleInvariant == Spec => []LifecycleInv
<1>1. LifecycleInv <=> TypeOK /\ LockExcludes /\ Agrees
  BY DEF LifecycleInv, Agrees
<1>2. LifecycleInv /\ [Next]_vars => LifecycleInv'
  BY NextTypes, LockStep, AgreesStep DEF LifecycleInv, Agrees
<1> QED BY InitInvariant, <1>2, PTL DEF Spec

(* The state of live_stream.c keeps its types, and the ring never holds     *)
(* more than its room.                                                      *)
THEOREM LifecycleTypes == Spec => []TypeOK
<1>1. LifecycleInv => TypeOK
  BY DEF LifecycleInv
<1> QED BY LifecycleInvariant, <1>1, PTL

(* `stream' is never wiped or started again under a live producer thread,   *)
(* and no two producer threads are alive at once.                           *)
THEOREM ProducersStayInTheirSession == Spec => []ProducerWithinItsSession
<1>1. LifecycleInv => ProducerWithinItsSession
  BY LifecycleAssumption
     DEF LifecycleInv, SessionAgrees, ProducerWithinItsSession, Live, Generations
<1> QED BY LifecycleInvariant, <1>1, PTL

(* What is left in the ring was committed by the session that owns it.      *)
THEOREM RingIsOfItsSession == Spec => []RingBelongsToSession
<1>1. LifecycleInv => RingBelongsToSession
  BY DEF LifecycleInv
<1> QED BY LifecycleInvariant, <1>1, PTL

(* A read returns bytes of the session it began in or none, whatever stops  *)
(* and starts happen while it waits.                                        *)
THEOREM ReadersStayInOneGeneration == Spec => []ReadsOneGeneration
<1>1. LifecycleInv => ReadsOneGeneration
  BY DEF LifecycleInv
<1> QED BY LifecycleInvariant, <1>1, PTL

(* When miniiptv_live_stream_stop returns there is no session, no unread    *)
(* byte and no producer thread.                                             *)
THEOREM StopsLeaveNothing == Spec => []StopLeavesNothing
<1>1. ASSUME LifecycleInv PROVE StopLeavesNothing
  <2> SUFFICES ASSUME NEW t \in Callers, pc[t] = "unlock", call[t] = "stop"
               PROVE  ~SessionExists /\ unread = <<>> /\ NoneLive
    BY DEF StopLeavesNothing, NoneLive, Live
  <2>1. ~SessionExists
    BY <1>1 DEF LifecycleInv, HolderAgrees, HolderAt
  <2> QED BY <1>1, <2>1, LifecycleAssumption
          DEF LifecycleInv, SessionAgrees, NoneLive, Generations
<1> QED BY LifecycleInvariant, <1>1, PTL
=============================================================================
