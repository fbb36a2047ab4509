------------------------------- MODULE MsgQueue --------------------------------
(***************************************************************************)
(* The event queue of source/system/util/queue.c: senders, receivers and a *)
(* thread that deletes the queue under them.  util_queue_mutex is held for *)
(* each section of a call and released while the call waits for one of the *)
(* queue's two one-shot LightEvents, so a section is one action.           *)
(*                                                                         *)
(* A payload is its event id: what add and get do with the data pointer is *)
(* the same for every one.                                                 *)
(***************************************************************************)
EXTENDS Integers, Sequences, FiniteSets

CONSTANTS
  Senders, Receivers,   \* threads, each in one call at a time
  Events,               \* event ids
  MaxItems,             \* queue->max_items
  MaxCalls              \* bound: calls to add

ASSUME MsgQueueAssumption ==
  /\ Senders \cap Receivers = {} /\ IsFiniteSet(Senders \cup Receivers)
  /\ MaxItems \in Nat \ {0} /\ MaxCalls \in Nat

Threads == Senders \cup Receivers
Calls == [pc : {"out", "waits", "woken"}, event : Events \cup {"none"},
          front : BOOLEAN, once : BOOLEAN]
NoCall == [pc |-> "out", event |-> "none", front |-> FALSE, once |-> FALSE]

VARIABLES
  items,      \* queue->event_id[0 .. next_index - 1]
  created,    \* queue->data and queue->event_id are allocated
  deleting, reference_count,
  signal,     \* receive_wait_event and send_wait_event are signalled
  call,       \* per thread: where it is in add or get, and its arguments
  deleter,    \* where Util_queue_delete is
  calls       \* calls to add so far

vars == <<items, created, deleting, reference_count, signal, call, deleter, calls>>

Init ==
  /\ items = <<>> /\ created = TRUE /\ deleting = FALSE /\ reference_count = 0
  /\ signal = [receive |-> FALSE, send |-> FALSE]
  /\ call = [t \in Threads |-> NoCall]
  /\ deleter = "out"
  /\ calls = 0

(* Mutant of Full: the place past the last one is used.                     *)
FullLate == Len(items) > MaxItems

Full == Len(items) >= MaxItems
Exists(e) == \E i \in DOMAIN items : items[i] = e

Leave(t) == call' = [call EXCEPT ![t] = NoCall]
Wait(t, c) == call' = [call EXCEPT ![t] = [c EXCEPT !.pc = "waits"]]

-----------------------------------------------------------------------------
(* Util_queue_add                                                           *)

(* Mutant of Added: the two events are mixed up.                            *)
AddedSwapped == [receive |-> FALSE, send |-> TRUE]

Added == [receive |-> TRUE, send |-> FALSE]

(* The part after the wait: a full queue fails the call, an event that is   *)
(* there already is not added again.                                        *)
Insert(c) ==
  IF Full \/ (c.once /\ Exists(c.event)) THEN UNCHANGED <<items, signal>>
  ELSE /\ items' = IF c.front THEN <<c.event>> \o items ELSE Append(items, c.event)
       /\ signal' = Added

Add(t) ==
  /\ t \in Senders /\ call[t].pc = "out" /\ calls < MaxCalls
  /\ created /\ ~deleting
  /\ calls' = calls + 1
  /\ \E e \in Events, front, once, waits \in BOOLEAN :
       LET c == [pc |-> "out", event |-> e, front |-> front, once |-> once] IN
       IF Full /\ waits
         THEN /\ Wait(t, c) /\ reference_count' = reference_count + 1
              /\ UNCHANGED <<items, signal>>
         ELSE Insert(c) /\ UNCHANGED <<call, reference_count>>
  /\ UNCHANGED <<created, deleting, deleter>>

AddResumes(t) ==
  /\ t \in Senders /\ call[t].pc = "woken"
  /\ reference_count' = reference_count - 1
  /\ IF deleting THEN UNCHANGED <<items, signal>> ELSE Insert(call[t])
  /\ Leave(t)
  /\ UNCHANGED <<created, deleting, deleter, calls>>

-----------------------------------------------------------------------------
(* Util_queue_get                                                           *)

TakeFirst ==
  IF items = <<>> THEN UNCHANGED <<items, signal>>
  ELSE items' = Tail(items) /\ signal' = [receive |-> FALSE, send |-> TRUE]

Get(t) ==
  /\ t \in Receivers /\ call[t].pc = "out"
  /\ created /\ ~deleting
  /\ IF items = <<>>
       THEN /\ Wait(t, NoCall) /\ reference_count' = reference_count + 1
            /\ UNCHANGED <<items, signal>>
       ELSE TakeFirst /\ UNCHANGED <<call, reference_count>>
  /\ UNCHANGED <<created, deleting, deleter, calls>>

GetResumes(t) ==
  /\ t \in Receivers /\ call[t].pc = "woken"
  /\ reference_count' = reference_count - 1
  /\ IF deleting THEN UNCHANGED <<items, signal>> ELSE TakeFirst
  /\ Leave(t)
  /\ UNCHANGED <<created, deleting, deleter, calls>>

-----------------------------------------------------------------------------
(* LightEvent_WaitTimeout on a one-shot event: a signal is consumed by the  *)
(* thread it wakes, and is kept for the next that comes to wait.            *)

EventOf(t) == IF t \in Senders THEN "send" ELSE "receive"

Wake(t) ==
  /\ call[t].pc = "waits" /\ signal[EventOf(t)]
  /\ signal' = [signal EXCEPT ![EventOf(t)] = FALSE]
  /\ call' = [call EXCEPT ![t].pc = "woken"]
  /\ UNCHANGED <<items, created, deleting, reference_count, deleter, calls>>

TimeOut(t) ==
  /\ call[t].pc = "waits"
  /\ call' = [call EXCEPT ![t].pc = "woken"]
  /\ UNCHANGED <<items, created, deleting, reference_count, signal, deleter, calls>>

-----------------------------------------------------------------------------
(* Util_queue_delete                                                        *)

DeleteBegins ==
  /\ deleter = "out" /\ created
  /\ deleter' = "deletes" /\ deleting' = TRUE
  /\ UNCHANGED <<items, created, reference_count, signal, call, calls>>

(* Mutant of DeletePokes: receivers are not woken.                          *)
DeletePokesSenders ==
  /\ deleter = "deletes" /\ reference_count > 0
  /\ signal' = [signal EXCEPT !.send = TRUE]
  /\ UNCHANGED <<items, created, deleting, reference_count, call, deleter, calls>>

(* While somebody is inside: let go of the lock and wake whoever waits.     *)
DeletePokes ==
  /\ deleter = "deletes" /\ reference_count > 0
  /\ signal' = [receive |-> TRUE, send |-> TRUE]
  /\ UNCHANGED <<items, created, deleting, reference_count, call, deleter, calls>>

(* Mutant of LastOneOut: the arrays are freed under whoever is inside.      *)
AnyTime == TRUE

LastOneOut == reference_count = 0

DeleteFrees ==
  /\ deleter = "deletes" /\ LastOneOut
  /\ items' = <<>> /\ created' = FALSE /\ deleting' = FALSE
  /\ signal' = [receive |-> FALSE, send |-> FALSE]
  /\ deleter' = "out"
  /\ UNCHANGED <<reference_count, call, calls>>

(* Util_queue_create, on a queue that is not there.                         *)
Create ==
  /\ ~created
  /\ created' = TRUE
  /\ UNCHANGED <<items, deleting, reference_count, signal, call, deleter, calls>>

-----------------------------------------------------------------------------
ThreadStep(t) == AddResumes(t) \/ GetResumes(t) \/ Wake(t)

Next ==
  \/ \E t \in Threads : Add(t) \/ Get(t) \/ ThreadStep(t) \/ TimeOut(t)
  \/ DeleteBegins \/ DeletePokes \/ DeleteFrees \/ Create

(* Threads inside a call and the deleter are scheduled, and a receiver      *)
(* comes back for more.  Waits need not time out: they may be long.         *)
Fairness ==
  /\ \A t \in Threads : WF_vars(ThreadStep(t))
  /\ \A t \in Receivers : WF_vars(Get(t))
  /\ WF_vars(DeletePokes) /\ WF_vars(DeleteFrees)

Spec == Init /\ [][Next]_vars /\ Fairness

-----------------------------------------------------------------------------
Inside == {t \in Threads : call[t].pc # "out"}

(* The queue never holds more than it was created for and counts the calls  *)
(* that are inside it.                                                      *)
TypeOK ==
  /\ items \in Seq(Events) /\ Len(items) <= MaxItems
  /\ created \in BOOLEAN /\ deleting \in BOOLEAN
  /\ reference_count \in 0..Cardinality(Threads)
  /\ signal \in [receive : BOOLEAN, send : BOOLEAN]
  /\ call \in [Threads -> Calls]
  /\ deleter \in {"out", "deletes"}
  /\ calls \in 0..MaxCalls

(* Util_queue_delete frees the arrays, and a later Util_queue_create        *)
(* allocates new ones, only when no thread is between the two sections of   *)
(* an add or a get: a woken thread would index arrays that are gone.        *)
FreedUnused == ~created => Inside = {}

(* No lost wake-up: a receiver never sleeps on a queue that holds an event  *)
(* unless the signal that will wake it is set.  The signal is one-shot, is  *)
(* cleared by every get and is set outside the wait, so this holds for a    *)
(* queue with one receiver, as all of the player's are.                     *)
SleepsOnlyOnEmpty ==
  ~deleting /\ items # <<>> /\ (\E t \in Receivers : call[t].pc = "waits") =>
    signal.receive \/ \E t \in Receivers : call[t].pc = "woken"

(* Util_queue_delete returns even when more threads sleep in the queue than *)
(* one poke of its two one-shot events can wake, and with no time-out.      *)
DeleteEnds == deleting ~> ~created
=============================================================================
