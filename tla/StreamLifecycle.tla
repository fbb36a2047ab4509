---------------------------- MODULE StreamLifecycle ----------------------------
(***************************************************************************)
(* Sessions of source/miniiptv/live_stream.c: threads start and stop them  *)
(* under stream_lifecycle_lock, the producer of a session is created and   *)
(* joined, the one global `stream' is wiped and used again, and a decoder  *)
(* thread may be inside a read all along.  A section under stream_lock is  *)
(* one action; what happens between two sections may interleave.           *)
(*                                                                         *)
(* A byte of the ring is the generation of the thread that committed it.   *)
(***************************************************************************)
EXTENDS Integers, Sequences

CONSTANTS
  Tuners,            \* threads that call miniiptv_live_stream_start
  Stoppers,          \* threads that call miniiptv_live_stream_stop
  NoThread,
  Room,              \* bound: segments the ring holds in this model
  MaxGeneration      \* bound: sessions started

Callers == Tuners \cup Stoppers
Generations == 1..MaxGeneration

ASSUME LifecycleAssumption ==
  /\ NoThread \notin Callers
  /\ Room \in Nat \ {0}
  /\ MaxGeneration \in Nat

VARIABLES
  lifecycle_lock,    \* the holder of stream_lifecycle_lock
  call, pc, after,   \* per caller: the function it is in, its step, where
  handle,            \* stop_serialized returns to, the producer it joins
  starting, stopping, initialized, stop_requested, producer_running,
  producer,          \* stream.producer: a generation, 0 for NULL
  generation,        \* stream.generation: 0 when wiped
  stream_generation, \* the counter that outlives the sessions
  initial_tune_active, initial_tune_timed_out,
  token,             \* should_cancel(cancel_userdata) of the tune under way
  unread,            \* the ring: generations of the unread segments
  thread,            \* per generation: state of its producer thread
  reader, captured,  \* the decoder thread, and the generation it captured
  got                \* the segment its last read took from, 0 when none

locals  == <<lifecycle_lock, call, pc, after, handle>>
session == <<starting, stopping, initialized, stop_requested, producer_running,
             producer, generation, initial_tune_active, initial_tune_timed_out,
             unread>>
decoder == <<reader, captured, got>>
vars    == <<locals, session, stream_generation, token, thread, decoder>>

Init ==
  /\ lifecycle_lock = NoThread
  /\ call = [t \in Callers |-> "stop"]
  /\ pc = [t \in Callers |-> "idle"]
  /\ after = [t \in Callers |-> "unlock"]
  /\ handle = [t \in Callers |-> 0]
  /\ starting = FALSE /\ stopping = FALSE /\ initialized = FALSE
  /\ stop_requested = FALSE /\ producer_running = FALSE
  /\ producer = 0 /\ generation = 0 /\ stream_generation = 0
  /\ initial_tune_active = FALSE /\ initial_tune_timed_out = FALSE
  /\ token = FALSE
  /\ unread = <<>>
  /\ thread = [g \in Generations |-> "none"]
  /\ reader = "out" /\ captured = 0 /\ got = 0

SessionExists == starting \/ stopping \/ initialized

Goto(t, step) == pc' = [pc EXCEPT ![t] = step]

-----------------------------------------------------------------------------
(* Entering and leaving the serialized section.                             *)

(* The app gives each tune a fresh cancellation token.                      *)
CallStart(t) ==
  /\ t \in Tuners
  /\ pc[t] = "idle"
  /\ stream_generation < MaxGeneration
  /\ token' = FALSE
  /\ call' = [call EXCEPT ![t] = "start"]
  /\ after' = [after EXCEPT ![t] = "token"]
  /\ Goto(t, "lock")
  /\ UNCHANGED <<lifecycle_lock, handle, session, stream_generation, thread, decoder>>

(* miniiptv_live_stream_stop wakes the transfers before it waits.           *)
CallStop(t) ==
  /\ t \in Stoppers
  /\ pc[t] = "idle"
  /\ stop_requested' = (stop_requested \/ SessionExists)
  /\ call' = [call EXCEPT ![t] = "stop"]
  /\ after' = [after EXCEPT ![t] = "unlock"]
  /\ Goto(t, "lock")
  /\ UNCHANGED <<lifecycle_lock, handle, starting, stopping, initialized,
                 producer_running, producer, generation, initial_tune_active,
                 initial_tune_timed_out, unread, stream_generation, token,
                 thread, decoder>>

(* Mutant of Lock: the lifecycle lock does not exclude.                     *)
LockShared(t) ==
  /\ pc[t] = "lock"
  /\ lifecycle_lock' = t
  /\ Goto(t, "take")
  /\ UNCHANGED <<call, after, handle, session, stream_generation, token, thread, decoder>>

Lock(t) ==
  /\ pc[t] = "lock"
  /\ lifecycle_lock = NoThread
  /\ lifecycle_lock' = t
  /\ Goto(t, "take")
  /\ UNCHANGED <<call, after, handle, session, stream_generation, token, thread, decoder>>

Unlock(t) ==
  /\ pc[t] = "unlock"
  /\ lifecycle_lock' = NoThread
  /\ Goto(t, "idle")
  /\ UNCHANGED <<call, after, handle, session, stream_generation, token, thread, decoder>>

-----------------------------------------------------------------------------
(* live_stream_stop_serialized                                              *)

(* Mutant of TakeSession: the stop is not published to the producer.        *)
TakeSilently(t) ==
  /\ pc[t] = "take" /\ ~stopping
  /\ IF ~starting /\ ~initialized
       THEN Goto(t, after[t]) /\ UNCHANGED <<handle, session>>
       ELSE /\ stopping' = TRUE /\ initialized' = FALSE
            /\ handle' = [handle EXCEPT ![t] = producer]
            /\ producer' = 0
            /\ Goto(t, "join")
            /\ UNCHANGED <<starting, stop_requested, producer_running, generation,
                           initial_tune_active, initial_tune_timed_out, unread>>
  /\ UNCHANGED <<lifecycle_lock, call, after, stream_generation, token, thread, decoder>>

(* Under stream_lock: wait while another stop is under way, return when     *)
(* there is no session, else take the handle of its producer.               *)
TakeSession(t) ==
  /\ pc[t] = "take"
  /\ ~stopping
  /\ IF ~starting /\ ~initialized
       THEN /\ Goto(t, after[t])
            /\ UNCHANGED <<handle, session>>
       ELSE /\ stopping' = TRUE
            /\ initialized' = FALSE
            /\ stop_requested' = TRUE
            /\ handle' = [handle EXCEPT ![t] = producer]
            /\ producer' = 0
            /\ Goto(t, "join")
            /\ UNCHANGED <<starting, producer_running, generation,
                           initial_tune_active, initial_tune_timed_out, unread>>
  /\ UNCHANGED <<lifecycle_lock, call, after, stream_generation, token, thread, decoder>>

(* Mutant of JoinProducer: the thread is not waited for.                    *)
DetachProducer(t) ==
  /\ pc[t] = "join"
  /\ handle' = [handle EXCEPT ![t] = 0]
  /\ Goto(t, "wipe")
  /\ UNCHANGED <<lifecycle_lock, call, after, session, stream_generation, token, thread,
                 decoder>>

JoinProducer(t) ==
  /\ pc[t] = "join"
  /\ handle[t] # 0 => thread[handle[t]] = "exited"
  /\ handle' = [handle EXCEPT ![t] = 0]
  /\ Goto(t, "wipe")
  /\ UNCHANGED <<lifecycle_lock, call, after, session, stream_generation, token, thread,
                 decoder>>

Wiped ==
  /\ stopping' = FALSE /\ initialized' = FALSE
  /\ stop_requested' = FALSE /\ producer_running' = FALSE
  /\ producer' = 0
  /\ initial_tune_timed_out' = FALSE
  /\ unread' = <<>>

(* memset(&stream, 0, sizeof(stream)) at the end of the stop.               *)
WipeSession(t) ==
  /\ pc[t] = "wipe"
  /\ Wiped
  /\ starting' = FALSE /\ generation' = 0 /\ initial_tune_active' = FALSE
  /\ Goto(t, after[t])
  /\ UNCHANGED <<lifecycle_lock, call, after, handle, stream_generation, token, thread,
                 decoder>>

-----------------------------------------------------------------------------
(* miniiptv_live_stream_start, once the old stream is gone.                 *)

CheckToken(t) ==
  /\ pc[t] = "token"
  /\ after' = [after EXCEPT ![t] = "unlock"]
  /\ Goto(t, IF token THEN "unlock" ELSE "reset")
  /\ UNCHANGED <<lifecycle_lock, call, handle, session, stream_generation, token, thread,
                 decoder>>

ResetSession(t) ==
  /\ pc[t] = "reset"
  /\ stream_generation < MaxGeneration
  /\ Wiped
  /\ stream_generation' = stream_generation + 1
  /\ generation' = stream_generation + 1
  /\ starting' = TRUE
  /\ initial_tune_active' = TRUE
  /\ Goto(t, "tuning")
  /\ UNCHANGED <<lifecycle_lock, call, after, handle, token, thread, decoder>>

Cancelled ==
  \/ stop_requested
  \/ initial_tune_active /\ (initial_tune_timed_out \/ token)

(* One more segment is staged into the ring.                                *)
Stage(t) ==
  /\ pc[t] = "tuning"
  /\ ~stop_requested
  /\ Len(unread) < Room
  /\ unread' = Append(unread, stream_generation)
  /\ UNCHANGED <<locals, starting, stopping, initialized, stop_requested,
                 producer_running, producer, generation, initial_tune_active,
                 initial_tune_timed_out, stream_generation, token, thread, decoder>>

(* The network, the playlist or the mux fails the tune, or a check of       *)
(* cancellation_result or of curl_should_cancel does.                       *)
TuneFails(t) ==
  /\ pc[t] = "tuning"
  /\ Goto(t, "take")
  /\ UNCHANGED <<lifecycle_lock, call, after, handle, session, stream_generation, token,
                 thread, decoder>>

TuneCancelled(t) == Cancelled /\ TuneFails(t)

(* The last cancellation_result before the producer is started.             *)
TuneStaged(t) ==
  /\ pc[t] = "tuning"
  /\ unread # <<>>
  /\ ~Cancelled
  /\ Goto(t, "seed")
  /\ UNCHANGED <<lifecycle_lock, call, after, handle, session, stream_generation, token,
                 thread, decoder>>

SeedProducer(t) ==
  /\ pc[t] = "seed"
  /\ initial_tune_active' = FALSE
  /\ producer_running' = TRUE
  /\ Goto(t, "create")
  /\ UNCHANGED <<lifecycle_lock, call, after, handle, starting, stopping, initialized,
                 stop_requested, producer, generation, initial_tune_timed_out,
                 unread, stream_generation, token, thread, decoder>>

CreateProducer(t) ==
  /\ pc[t] = "create"
  /\ thread' = [thread EXCEPT ![stream_generation] = "running"]
  /\ Goto(t, "publish")
  /\ UNCHANGED <<lifecycle_lock, call, after, handle, session, stream_generation, token,
                 decoder>>

CreateFails(t) ==
  /\ pc[t] = "create"
  /\ producer_running' = FALSE
  /\ Goto(t, "take")
  /\ UNCHANGED <<lifecycle_lock, call, after, handle, starting, stopping, initialized,
                 stop_requested, producer, generation, initial_tune_active,
                 initial_tune_timed_out, unread, stream_generation, token, thread,
                 decoder>>

PublishSession(t) ==
  /\ pc[t] = "publish"
  /\ producer' = stream_generation
  /\ starting' = FALSE
  /\ initialized' = TRUE
  /\ Goto(t, "unlock")
  /\ UNCHANGED <<lifecycle_lock, call, after, handle, stopping, stop_requested,
                 producer_running, generation, initial_tune_active,
                 initial_tune_timed_out, unread, stream_generation, token, thread,
                 decoder>>

(* The UI cancels the tune it launched; the clock reaches its deadline.     *)
CancelTune ==
  /\ \E t \in Tuners : pc[t] # "idle"
  /\ ~token
  /\ token' = TRUE
  /\ UNCHANGED <<locals, session, stream_generation, thread, decoder>>

TuneDeadline ==
  /\ initial_tune_active
  /\ ~initial_tune_timed_out
  /\ initial_tune_timed_out' = TRUE
  /\ UNCHANGED <<locals, starting, stopping, initialized, stop_requested,
                 producer_running, producer, generation, initial_tune_active,
                 unread, stream_generation, token, thread, decoder>>

-----------------------------------------------------------------------------
(* producer_main of generation g: whatever session it finds in `stream'.    *)

StopWasRequested == ~SessionExists \/ stop_requested

(* Mutant of ProducerCommit: the free space is not checked.                 *)
CommitAnyway(g) ==
  /\ thread[g] = "running"
  /\ ~stop_requested
  /\ unread' = Append(unread, g)
  /\ UNCHANGED <<locals, starting, stopping, initialized, stop_requested,
                 producer_running, producer, generation, initial_tune_active,
                 initial_tune_timed_out, stream_generation, token, thread, decoder>>

ProducerCommit(g) ==
  /\ thread[g] = "running"
  /\ ~stop_requested
  /\ Len(unread) < Room
  /\ unread' = Append(unread, g)
  /\ UNCHANGED <<locals, starting, stopping, initialized, stop_requested,
                 producer_running, producer, generation, initial_tune_active,
                 initial_tune_timed_out, stream_generation, token, thread, decoder>>

(* A boundary or the third failure in a row.                                *)
ProducerGivesUp(g) ==
  /\ thread[g] = "running"
  /\ stop_requested' = TRUE
  /\ thread' = [thread EXCEPT ![g] = "leaving"]
  /\ UNCHANGED <<locals, starting, stopping, initialized, producer_running,
                 producer, generation, initial_tune_active,
                 initial_tune_timed_out, unread, stream_generation, token, decoder>>

ProducerSeesStop(g) ==
  /\ thread[g] = "running"
  /\ StopWasRequested
  /\ thread' = [thread EXCEPT ![g] = "leaving"]
  /\ UNCHANGED <<locals, session, stream_generation, token, decoder>>

ProducerExit(g) ==
  /\ thread[g] = "leaving"
  /\ producer_running' = FALSE
  /\ thread' = [thread EXCEPT ![g] = "exited"]
  /\ UNCHANGED <<locals, starting, stopping, initialized, stop_requested, producer,
                 generation, initial_tune_active, initial_tune_timed_out, unread,
                 stream_generation, token, decoder>>

-----------------------------------------------------------------------------
(* miniiptv_live_stream_read                                                *)

ReadCall ==
  /\ reader = "out"
  /\ initialized
  /\ ~stopping
  /\ captured' = generation
  /\ got' = 0
  /\ reader' = "in"
  /\ UNCHANGED <<locals, session, stream_generation, token, thread>>

Finished == stop_requested \/ ~producer_running

(* Mutant of ReadTakes: the generation is not compared in the loop.         *)
ReadAnything ==
  /\ reader = "in" /\ unread # <<>>
  /\ got' = Head(unread) /\ reader' = "out"
  /\ unread' \in {unread, Tail(unread)}
  /\ UNCHANGED <<locals, starting, stopping, initialized, stop_requested,
                 producer_running, producer, generation, initial_tune_active,
                 initial_tune_timed_out, stream_generation, token, thread, captured>>

(* A read takes part of the oldest segment, or the rest of it.              *)
ReadTakes ==
  /\ reader = "in"
  /\ generation = captured
  /\ unread # <<>>
  /\ got' = Head(unread)
  /\ unread' \in {unread, Tail(unread)}
  /\ reader' = "out"
  /\ UNCHANGED <<locals, starting, stopping, initialized, stop_requested,
                 producer_running, producer, generation, initial_tune_active,
                 initial_tune_timed_out, stream_generation, token, thread, captured>>

(* Mutant of ReadEnds: a reader that waits does not notice a new session.   *)
WaitAcrossSessions ==
  /\ reader = "in" /\ Finished /\ unread = <<>>
  /\ reader' = "out"
  /\ UNCHANGED <<locals, session, stream_generation, token, thread, captured, got>>

ReadEnds ==
  /\ reader = "in"
  /\ \/ generation # captured
     \/ Finished /\ unread = <<>>
  /\ reader' = "out"
  /\ UNCHANGED <<locals, session, stream_generation, token, thread, captured, got>>

-----------------------------------------------------------------------------
StopStep(t) == TakeSession(t) \/ JoinProducer(t) \/ WipeSession(t) \/ Unlock(t)

StartStep(t) ==
  \/ CheckToken(t) \/ ResetSession(t) \/ TuneCancelled(t) \/ SeedProducer(t)
  \/ CreateProducer(t) \/ CreateFails(t) \/ PublishSession(t)

ProducerLeaves(g) == ProducerSeesStop(g) \/ ProducerExit(g)

Next ==
  \/ \E t \in Callers :
       \/ CallStart(t) \/ CallStop(t) \/ Lock(t)
       \/ TakeSession(t) \/ JoinProducer(t) \/ WipeSession(t) \/ Unlock(t)
       \/ CheckToken(t) \/ ResetSession(t)
       \/ Stage(t) \/ TuneFails(t) \/ TuneStaged(t)
       \/ SeedProducer(t) \/ CreateProducer(t) \/ CreateFails(t)
       \/ PublishSession(t)
  \/ CancelTune \/ TuneDeadline
  \/ \E g \in Generations :
       \/ ProducerCommit(g) \/ ProducerGivesUp(g)
       \/ ProducerSeesStop(g) \/ ProducerExit(g)
  \/ ReadCall \/ ReadTakes \/ ReadEnds

Spec == Init /\ [][Next]_vars

(* Every thread is scheduled; the clock reaches the deadline of a tune; a   *)
(* waiter on a LightLock that is released again and again gets it.  A tune  *)
(* is only assumed to end when it is cancelled or late.                     *)
Fairness ==
  /\ \A t \in Callers : WF_vars(StopStep(t)) /\ WF_vars(StartStep(t)) /\ SF_vars(Lock(t))
  /\ \A g \in Generations : WF_vars(ProducerLeaves(g))
  /\ WF_vars(TuneDeadline)
  /\ WF_vars(ReadTakes \/ ReadEnds)

FairSpec == Spec /\ Fairness

-----------------------------------------------------------------------------
(* Properties.                                                              *)

(* Types of the state of live_stream.c; the ring never holds more than fits.*)
CallerSteps == {"idle", "lock", "take", "join", "wipe", "unlock", "token", "reset",
                "tuning", "seed", "create", "publish"}

ThreadStates == {"none", "running", "leaving", "exited"}

CallersTyped ==
  /\ lifecycle_lock \in Callers \cup {NoThread}
  /\ call \in [Callers -> {"start", "stop"}]
  /\ pc \in [Callers -> CallerSteps]
  /\ after \in [Callers -> {"unlock", "token"}]
  /\ handle \in [Callers -> {0} \cup Generations]

SessionTyped ==
  /\ starting \in BOOLEAN /\ stopping \in BOOLEAN /\ initialized \in BOOLEAN
  /\ stop_requested \in BOOLEAN /\ producer_running \in BOOLEAN
  /\ producer \in {0} \cup Generations
  /\ generation \in {0} \cup Generations
  /\ initial_tune_active \in BOOLEAN /\ initial_tune_timed_out \in BOOLEAN
  /\ unread \in Seq(Generations) /\ Len(unread) <= Room

DecoderTyped ==
  reader \in {"out", "in"} /\ captured \in {0} \cup Generations
  /\ got \in {0} \cup Generations

TypeOK ==
  /\ CallersTyped /\ SessionTyped /\ DecoderTyped
  /\ stream_generation \in {0} \cup Generations
  /\ token \in BOOLEAN
  /\ thread \in [Generations -> ThreadStates]

(* A producer thread lives only inside the session it was created for: the  *)
(* global `stream' is never wiped or started again under a live producer,   *)
(* and no two producers are alive at once.                                  *)
ProducerWithinItsSession ==
  \A g \in Generations :
    thread[g] \in {"running", "leaving"} => generation = g /\ SessionExists

(* Everything in the ring was committed by the session that owns it.        *)
RingBelongsToSession ==
  \A i \in DOMAIN unread : unread[i] = generation

(* A read call returns only bytes of the session it found when it began,    *)
(* also when sessions are stopped and started while it waits.               *)
ReadsOneGeneration ==
  reader = "out" /\ got # 0 => got = captured

(* The steps taken inside stream_lifecycle_lock, and the strengthening that *)
(* makes the invariants above and below inductive: the lock excludes, the   *)
(* holder's step says what is left of the session, and the one producer     *)
(* thread alive is in `stream', in the holder's hands, or just created.     *)
Live(g) == thread[g] \in {"running", "leaving"}

NoneLive == \A g \in Generations : ~Live(g)

LockExcludes == \A t \in Callers : (pc[t] \notin {"idle", "lock"}) <=> lifecycle_lock = t

SessionAgrees ==
  /\ SessionExists => generation # 0 /\ generation = stream_generation
  /\ ~SessionExists => generation = 0 /\ unread = <<>>
  /\ \A g \in Generations : Live(g) => g = generation

HolderAt(t) ==
  /\ call[t] = "stop" =>
       /\ after[t] = "unlock"
       /\ pc[t] \in {"idle", "lock", "take", "join", "wipe", "unlock"}
  /\ pc[t] \in {"token", "reset"} => ~SessionExists
  /\ pc[t] \in {"tuning", "seed", "create"} => starting /\ NoneLive
  /\ pc[t] = "publish" => starting
  /\ pc[t] = "join" => \A g \in Generations : Live(g) => handle[t] = g
  /\ pc[t] = "wipe" => NoneLive
  /\ pc[t] \in {"take", "unlock"} => \A g \in Generations : Live(g) => producer = g
  /\ pc[t] = "unlock" /\ call[t] = "stop" => ~SessionExists

HolderAgrees == \A t \in Callers : HolderAt(t)

NobodyAgrees ==
  lifecycle_lock = NoThread => \A g \in Generations : Live(g) => producer = g

(* When a stop returns there is no session: a start that was under way has  *)
(* been waited for and undone, and none slipped in before the lock is freed.*)
StopLeavesNothing ==
  \A t \in Callers :
    pc[t] = "unlock" /\ call[t] = "stop" =>
      ~SessionExists /\ unread = <<>>
      /\ \A g \in Generations : thread[g] \notin {"running", "leaving"}

LifecycleInv ==
  /\ TypeOK /\ LockExcludes /\ SessionAgrees /\ HolderAgrees /\ NobodyAgrees
  /\ RingBelongsToSession
  /\ (reader = "in" => got = 0) /\ ReadsOneGeneration

(* Every call into the serialized section comes back: starts end by their   *)
(* deadline, stops by the exit of the producer they join.                   *)
CallsReturn == \A t \in Callers : (pc[t] # "idle") ~> (pc[t] = "idle")

(* A read that waits when its session is stopped comes back.                *)
ReadsReturnAfterStop ==
  (reader = "in" /\ (stop_requested \/ generation # captured)) ~> (reader = "out")
=============================================================================
