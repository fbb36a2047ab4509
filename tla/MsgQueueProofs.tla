----------------------------- MODULE MsgQueueProofs -----------------------------
(***************************************************************************)
(* The event queue for any number of threads, any capacity and any events: *)
(* its types, that its arrays are never freed under a thread that is still *)
(* inside a call, and that one receiver never sleeps beside an event.      *)
(*                                                                         *)
(* The first two need that reference_count is the number of threads that   *)
(* are between the two sections of a call: Counted.                        *)
(***************************************************************************)
EXTENDS MsgQueue, FiniteSetTheorems, TLAPS

(* A sender that waits carries an event of its own.                         *)
Carries == \A t \in Senders : call[t].pc # "out" => call[t].event \in Events

(* reference_count counts exactly the threads inside.                       *)
Counted == reference_count = Cardinality(Inside)

(* The deleter is at work while the queue is there and marked.              *)
DeleterAgrees == (deleting <=> deleter = "deletes") /\ (deleting => created)

QueueInv == TypeOK /\ Carries /\ Counted /\ DeleterAgrees /\ FreedUnused

-----------------------------------------------------------------------------
(* Threads that come in and go.                                             *)

LEMMA InsideIsFinite == IsFiniteSet(Inside) /\ Cardinality(Inside) \in 0..Cardinality(Threads)
<1>1. IsFiniteSet(Threads) /\ Inside \subseteq Threads
  BY MsgQueueAssumption DEF Threads, Inside
<1>2. IsFiniteSet(Inside) /\ Cardinality(Inside) <= Cardinality(Threads)
  BY <1>1, FS_Subset
<1>3. Cardinality(Inside) \in Nat /\ Cardinality(Threads) \in Nat
  BY <1>1, <1>2, FS_CardinalityType
<1> QED BY <1>2, <1>3

(* A call that begins to wait is one more inside.                           *)
LEMMA ComesIn ==
  ASSUME call \in [Threads -> Calls], NEW t \in Threads, call[t].pc = "out",
         NEW c \in Calls, Wait(t, c)
  PROVE  Inside' = Inside \cup {t} /\ t \notin Inside /\ call' \in [Threads -> Calls]
         /\ call'[t] = [c EXCEPT !.pc = "waits"]
         /\ \A u \in Threads \ {t} : call'[u] = call[u]
BY DEF Wait, Calls, Inside

(* A call that ends is one fewer.                                           *)
LEMMA GoesOut ==
  ASSUME call \in [Threads -> Calls], NEW t \in Threads, call[t].pc # "out", Leave(t)
  PROVE  Inside' = Inside \ {t} /\ t \in Inside /\ call' \in [Threads -> Calls]
         /\ call'[t] = NoCall
         /\ \A u \in Threads \ {t} : call'[u] = call[u]
BY DEF Leave, NoCall, Calls, Inside

LEMMA CountedIn ==
  ASSUME Counted, NEW t \in Threads, t \notin Inside, Inside' = Inside \cup {t},
         reference_count' = reference_count + 1
  PROVE  Counted' /\ reference_count' \in 0..Cardinality(Threads)
<1>1. Cardinality(Inside \cup {t}) = Cardinality(Inside) + 1
  BY InsideIsFinite, FS_AddElement
<1>2. Counted'
  BY <1>1 DEF Counted
<1>3. IsFiniteSet(Threads) /\ Inside \cup {t} \subseteq Threads
  BY MsgQueueAssumption DEF Threads, Inside
<1>4. Cardinality(Inside \cup {t}) <= Cardinality(Threads) /\ Cardinality(Threads) \in Nat
  BY <1>3, FS_Subset, FS_CardinalityType
<1> QED BY <1>1, <1>2, <1>4, InsideIsFinite DEF Counted

LEMMA CountedOut ==
  ASSUME Counted, NEW t \in Threads, t \in Inside, Inside' = Inside \ {t},
         reference_count' = reference_count - 1
  PROVE  Counted' /\ reference_count' \in 0..Cardinality(Threads)
<1>1. Cardinality(Inside \ {t}) = Cardinality(Inside) - 1 /\ Cardinality(Inside) > 0
  BY InsideIsFinite, FS_RemoveElement, FS_EmptySet
<1>2. Counted'
  BY <1>1 DEF Counted
<1>3. Cardinality(Threads) \in Nat
  BY MsgQueueAssumption, FS_CardinalityType DEF Threads
<1> QED BY <1>1, <1>2, <1>3, InsideIsFinite DEF Counted

(* A thread that is inside keeps its place when it wakes.                   *)
LEMMA WakesInside ==
  ASSUME call \in [Threads -> Calls], NEW t \in Threads, call[t].pc = "waits",
         call' = [call EXCEPT ![t].pc = "woken"]
  PROVE  Inside' = Inside /\ call' \in [Threads -> Calls]
         /\ call'[t] = [call[t] EXCEPT !.pc = "woken"]
         /\ \A u \in Threads \ {t} : call'[u] = call[u]
BY DEF Calls, Inside

-----------------------------------------------------------------------------
(* What a section does to the queue.                                        *)

QueueTyped ==
  /\ items \in Seq(Events) /\ Len(items) <= MaxItems
  /\ signal \in [receive : BOOLEAN, send : BOOLEAN]

LEMMA InsertTypes ==
  ASSUME QueueTyped, NEW c \in Calls, c.event \in Events, Insert(c)
  PROVE  QueueTyped'
<1>1. CASE UNCHANGED <<items, signal>>
  BY <1>1 DEF QueueTyped
<1>2. CASE ~UNCHANGED <<items, signal>>
  <2>1. /\ ~Full /\ signal' = [receive |-> TRUE, send |-> FALSE]
        /\ items' = IF c.front THEN <<c.event>> \o items ELSE Append(items, c.event)
    BY <1>2 DEF Insert, Added
  <2>2. Len(items) + 1 <= MaxItems
    BY <2>1, MsgQueueAssumption DEF Full, QueueTyped
  <2>3. <<c.event>> \o items \in Seq(Events) /\ Len(<<c.event>> \o items) = Len(items) + 1
    BY DEF QueueTyped
  <2>4. Append(items, c.event) \in Seq(Events) /\ Len(Append(items, c.event)) = Len(items) + 1
    BY DEF QueueTyped
  <2> QED BY <2>1, <2>2, <2>3, <2>4 DEF QueueTyped
<1> QED BY <1>1, <1>2

LEMMA TakeTypes == QueueTyped /\ TakeFirst => QueueTyped'
<1> SUFFICES ASSUME QueueTyped, TakeFirst PROVE QueueTyped'
  OBVIOUS
<1>1. CASE items = <<>>
  BY <1>1 DEF QueueTyped, TakeFirst
<1>2. CASE items # <<>>
  <2>1. items' = Tail(items) /\ signal' = [receive |-> FALSE, send |-> TRUE]
    BY <1>2 DEF TakeFirst
  <2>2. Tail(items) \in Seq(Events) /\ Len(Tail(items)) = Len(items) - 1
    BY <1>2 DEF QueueTyped
  <2>3. Len(items) - 1 <= MaxItems
    BY MsgQueueAssumption DEF QueueTyped
  <2> QED BY <2>1, <2>2, <2>3 DEF QueueTyped
<1> QED BY <1>1, <1>2

-----------------------------------------------------------------------------
(* The steps.                                                               *)

LEMMA InitQueue == Init => QueueInv
<1> SUFFICES ASSUME Init PROVE QueueInv
  OBVIOUS
<1>1. call = [t \in Threads |-> NoCall] /\ NoCall \in Calls /\ Inside = {}
  BY DEF Init, NoCall, Calls, Inside
<1>2. Cardinality(Inside) = 0
  BY <1>1, FS_EmptySet
<1>3. Cardinality(Threads) \in Nat
  BY MsgQueueAssumption, FS_CardinalityType DEF Threads
<1>4. items \in Seq(Events) /\ Len(items) = 0
  BY DEF Init
<1>5. TypeOK
  <2>1. call \in [Threads -> Calls]
    BY <1>1
  <2>2. Len(items) <= MaxItems /\ calls \in 0..MaxCalls
    BY <1>4, MsgQueueAssumption DEF Init
  <2>3. created \in BOOLEAN /\ deleting \in BOOLEAN
    BY Zenon DEF Init
  <2>4. signal \in [receive : BOOLEAN, send : BOOLEAN] /\ deleter \in {"out", "deletes"}
        /\ reference_count \in 0..Cardinality(Threads)
    BY <1>3 DEF Init
  <2> QED BY <1>4, <2>1, <2>2, <2>3, <2>4 DEF TypeOK
<1>6. Carries
  BY <1>1 DEF Carries, NoCall, Threads
<1> QED BY <1>1, <1>2, <1>5, <1>6
        DEF Init, QueueInv, Counted, DeleterAgrees, FreedUnused

(* What does not touch the calls keeps the count of them.                   *)
LEMMA CallsKept ==
  ASSUME UNCHANGED <<call, reference_count>>
  PROVE  /\ Inside' = Inside /\ (Carries => Carries') /\ (Counted => Counted')
<1>1. Inside' = Inside
  BY DEF Inside
<1> QED BY <1>1 DEF Carries, Counted

LEMMA AddStep ==
  ASSUME QueueInv, NEW t \in Threads, Add(t) PROVE QueueInv'
<1>1. /\ t \in Senders /\ call[t].pc = "out" /\ calls < MaxCalls /\ created /\ ~deleting
      /\ calls' = calls + 1
      /\ UNCHANGED <<created, deleting, deleter>>
  BY DEF Add
<1>2. PICK e \in Events, front, once, waits \in BOOLEAN :
        LET c == [pc |-> "out", event |-> e, front |-> front, once |-> once] IN
        IF Full /\ waits
          THEN /\ Wait(t, c) /\ reference_count' = reference_count + 1
               /\ UNCHANGED <<items, signal>>
          ELSE Insert(c) /\ UNCHANGED <<call, reference_count>>
  BY DEF Add
<1> DEFINE c == [pc |-> "out", event |-> e, front |-> front, once |-> once]
<1>3. c \in Calls /\ c.event = e /\ [c EXCEPT !.pc = "waits"].event = e
  BY DEF Calls
<1>4. calls' \in 0..MaxCalls
  BY <1>1, MsgQueueAssumption DEF QueueInv, TypeOK
<1> HIDE DEF c
<1>5. CASE Wait(t, c) /\ reference_count' = reference_count + 1 /\ UNCHANGED <<items, signal>>
  <2>1. /\ Inside' = Inside \cup {t} /\ t \notin Inside /\ call' \in [Threads -> Calls]
        /\ call'[t] = [c EXCEPT !.pc = "waits"]
        /\ \A u \in Threads \ {t} : call'[u] = call[u]
    BY <1>1, <1>3, <1>5, ComesIn DEF QueueInv, TypeOK
  <2>2. Counted' /\ reference_count' \in 0..Cardinality(Threads)
    BY <1>5, <2>1, CountedIn DEF QueueInv
  <2>3. Carries'
    BY <1>3, <2>1 DEF QueueInv, Carries, Threads
  <2> QED BY <1>1, <1>4, <1>5, <2>1, <2>2, <2>3
          DEF QueueInv, TypeOK, DeleterAgrees, FreedUnused
<1>6. CASE Insert(c) /\ UNCHANGED <<call, reference_count>>
  <2>1. QueueTyped'
    BY <1>3, <1>6, InsertTypes DEF QueueTyped, QueueInv, TypeOK
  <2>2. Carries' /\ Counted'
    BY <1>6, CallsKept DEF QueueInv
  <2> QED BY <1>1, <1>4, <1>6, <2>1, <2>2
          DEF QueueInv, TypeOK, QueueTyped, DeleterAgrees, FreedUnused
<1> QED BY <1>2, <1>5, <1>6 DEF c

LEMMA GetStep ==
  ASSUME QueueInv, NEW t \in Threads, Get(t) PROVE QueueInv'
<1>1. /\ t \in Receivers /\ t \notin Senders /\ call[t].pc = "out" /\ created /\ ~deleting
      /\ UNCHANGED <<created, deleting, deleter, calls>>
  BY MsgQueueAssumption DEF Get
<1>2. CASE items = <<>>
  <2>1. /\ Wait(t, NoCall) /\ reference_count' = reference_count + 1
        /\ UNCHANGED <<items, signal>>
    BY <1>2 DEF Get
  <2>2. NoCall \in Calls
    BY DEF NoCall, Calls
  <2>3. /\ Inside' = Inside \cup {t} /\ t \notin Inside /\ call' \in [Threads -> Calls]
        /\ \A u \in Threads \ {t} : call'[u] = call[u]
    BY <1>1, <2>1, <2>2, ComesIn DEF QueueInv, TypeOK
  <2>4. Counted' /\ reference_count' \in 0..Cardinality(Threads)
    BY <2>1, <2>3, CountedIn DEF QueueInv
  <2>5. Carries'
    BY <1>1, <2>3 DEF QueueInv, Carries, Threads
  <2> QED BY <1>1, <2>1, <2>3, <2>4, <2>5
          DEF QueueInv, TypeOK, DeleterAgrees, FreedUnused
<1>3. CASE items # <<>>
  <2>1. TakeFirst /\ UNCHANGED <<call, reference_count>>
    BY <1>3 DEF Get
  <2>2. QueueTyped'
    BY <2>1, TakeTypes DEF QueueTyped, QueueInv, TypeOK
  <2>3. Carries' /\ Counted'
    BY <2>1, CallsKept DEF QueueInv
  <2> QED BY <1>1, <2>1, <2>2, <2>3
          DEF QueueInv, TypeOK, QueueTyped, DeleterAgrees, FreedUnused
<1> QED BY <1>2, <1>3

LEMMA ResumeStep ==
  ASSUME QueueInv, NEW t \in Threads, AddResumes(t) \/ GetResumes(t) PROVE QueueInv'
<1>1. /\ call[t].pc = "woken" /\ reference_count' = reference_count - 1 /\ Leave(t)
      /\ UNCHANGED <<created, deleting, deleter, calls>>
  BY DEF AddResumes, GetResumes
<1>2. QueueTyped'
  <2>1. QueueTyped
    BY DEF QueueTyped, QueueInv, TypeOK
  <2>2. CASE UNCHANGED <<items, signal>>
    BY <2>1, <2>2 DEF QueueTyped
  <2>3. CASE TakeFirst
    BY <2>1, <2>3, TakeTypes
  <2>4. CASE Insert(call[t]) /\ t \in Senders
    <3>1. call[t] \in Calls /\ call[t].event \in Events
      BY <1>1, <2>4 DEF QueueInv, TypeOK, Carries
    <3> QED BY <2>1, <2>4, <3>1, InsertTypes
  <2> QED BY <2>2, <2>3, <2>4 DEF AddResumes, GetResumes
<1>3. /\ Inside' = Inside \ {t} /\ t \in Inside /\ call' \in [Threads -> Calls]
      /\ call'[t] = NoCall
      /\ \A u \in Threads \ {t} : call'[u] = call[u]
  BY <1>1, GoesOut DEF QueueInv, TypeOK
<1>4. Counted' /\ reference_count' \in 0..Cardinality(Threads)
  BY <1>1, <1>3, CountedOut DEF QueueInv
<1>5. Carries'
  BY <1>3 DEF QueueInv, Carries, Threads, NoCall
<1> QED BY <1>1, <1>2, <1>3, <1>4, <1>5
        DEF QueueInv, TypeOK, QueueTyped, DeleterAgrees, FreedUnused

LEMMA WakeStep ==
  ASSUME QueueInv, NEW t \in Threads, Wake(t) \/ TimeOut(t) PROVE QueueInv'
<1>1. /\ call[t].pc = "waits" /\ call' = [call EXCEPT ![t].pc = "woken"]
      /\ UNCHANGED <<items, created, deleting, reference_count, deleter, calls>>
      /\ signal' = signal \/ signal' = [signal EXCEPT ![EventOf(t)] = FALSE]
  BY DEF Wake, TimeOut
<1>2. /\ Inside' = Inside /\ call' \in [Threads -> Calls]
      /\ call'[t] = [call[t] EXCEPT !.pc = "woken"]
      /\ \A u \in Threads \ {t} : call'[u] = call[u]
  BY <1>1, WakesInside DEF QueueInv, TypeOK
<1>3. signal' \in [receive : BOOLEAN, send : BOOLEAN]
  BY <1>1 DEF QueueInv, TypeOK, EventOf
<1>4. Carries'
  BY <1>1, <1>2 DEF QueueInv, TypeOK, Carries, Threads, Calls
<1>5. Counted'
  BY <1>1, <1>2 DEF QueueInv, Counted
<1> QED BY <1>1, <1>2, <1>3, <1>4, <1>5 DEF QueueInv, TypeOK, DeleterAgrees, FreedUnused

(* The deleter frees the arrays only when the count, and so the set of the  *)
(* threads inside, is down to nothing.                                      *)
LEMMA DeleteStep ==
  ASSUME QueueInv, DeleteBegins \/ DeletePokes \/ DeleteFrees \/ Create PROVE QueueInv'
<1>1. UNCHANGED <<call, reference_count, calls>>
  BY DEF DeleteBegins, DeletePokes, DeleteFrees, Create
<1>2. Inside' = Inside /\ Carries' /\ Counted'
  BY <1>1, CallsKept DEF QueueInv
<1>3. CASE DeleteBegins \/ DeletePokes \/ Create
  <2>1. DeleterAgrees' /\ FreedUnused'
    BY <1>2, <1>3
       DEF DeleteBegins, DeletePokes, Create, QueueInv, TypeOK, DeleterAgrees, FreedUnused
  <2>2. TypeOK'
    <3>1. created' \in BOOLEAN /\ deleting' \in BOOLEAN
      BY <1>3, Zenon DEF DeleteBegins, DeletePokes, Create, QueueInv, TypeOK
    <3>2. /\ signal' = signal \/ signal' = [receive |-> TRUE, send |-> TRUE]
          /\ deleter' = deleter \/ deleter' = "deletes"
          /\ items' = items
      BY <1>3 DEF DeleteBegins, DeletePokes, Create
    <3>3. signal' \in [receive : BOOLEAN, send : BOOLEAN]
      <4>1. signal \in [receive : BOOLEAN, send : BOOLEAN]
        BY DEF QueueInv, TypeOK
      <4>2. [receive |-> TRUE, send |-> TRUE] \in [receive : BOOLEAN, send : BOOLEAN]
        OBVIOUS
      <4> QED BY <3>2, <4>1, <4>2
    <3> QED BY <1>1, <3>1, <3>2, <3>3 DEF QueueInv, TypeOK
  <2> QED BY <1>2, <2>1, <2>2 DEF QueueInv
<1>4. CASE DeleteFrees
  <2>1. Inside = {}
    BY <1>4, InsideIsFinite, FS_EmptySet DEF DeleteFrees, LastOneOut, QueueInv, Counted
  <2>2. items' \in Seq(Events) /\ Len(items') = 0
    BY <1>4 DEF DeleteFrees
  <2>3. DeleterAgrees' /\ FreedUnused'
    BY <1>2, <1>4, <2>1 DEF DeleteFrees, DeleterAgrees, FreedUnused
  <2>4. Len(items') <= MaxItems
    BY <2>2, MsgQueueAssumption
  <2>5. TypeOK'
    BY <1>1, <1>4, <2>2, <2>4 DEF DeleteFrees, QueueInv, TypeOK
  <2> QED BY <1>2, <2>3, <2>5 DEF QueueInv
<1> QED BY <1>3, <1>4

LEMMA QueueStep == QueueInv /\ [Next]_vars => QueueInv'
<1> SUFFICES ASSUME QueueInv, [Next]_vars PROVE QueueInv'
  OBVIOUS
<1>1. CASE UNCHANGED vars
  <2>1. Inside' = Inside
    BY <1>1 DEF vars, Inside
  <2> QED BY <1>1, <2>1 DEF vars, QueueInv, TypeOK, Carries, Counted, DeleterAgrees, FreedUnused
<1> QED BY <1>1, AddStep, GetStep, ResumeStep, WakeStep, DeleteStep DEF Next, ThreadStep

-----------------------------------------------------------------------------
(* The theorems.                                                            *)

(* The inductive invariant of the queue.                                    *)
THEOREM QueueInvariant == Spec => []QueueInv
BY InitQueue, QueueStep, PTL DEF Spec

(* The queue keeps its types: it never holds more events than it was        *)
(* created for, whoever adds, waits, times out and deletes.                 *)
THEOREM QueueTypes == Spec => []TypeOK
<1>1. QueueInv => TypeOK
  BY DEF QueueInv
<1> QED BY <1>1, QueueInvariant, PTL

(* Util_queue_delete never frees the arrays under a thread that is between  *)
(* the two sections of an add or a get, for any number of threads.          *)
THEOREM NobodyUsesAFreedQueue == Spec => []FreedUnused
<1>1. QueueInv => FreedUnused
  BY DEF QueueInv
<1> QED BY <1>1, QueueInvariant, PTL

(* With one receiver, as all queues of the player have, that receiver never *)
(* sleeps on a queue that holds an event unless it is about to be woken,    *)
(* for any number of senders.                                               *)
THEOREM OneReceiverMissesNothing ==
  ASSUME NEW r, Receivers = {r} PROVE Spec => []SleepsOnlyOnEmpty
<1> DEFINE Inv == QueueInv /\ SleepsOnlyOnEmpty
<1>r. r \in Threads /\ r \notin Senders
  BY MsgQueueAssumption DEF Threads
<1>1. Init => Inv
  BY InitQueue DEF Init, SleepsOnlyOnEmpty
<1>2. Inv /\ [Next]_vars => Inv'
  <2> SUFFICES ASSUME QueueInv, SleepsOnlyOnEmpty, [Next]_vars,
                      ~deleting', items' # <<>>, call'[r].pc = "waits"
               PROVE  signal'.receive
    BY QueueStep DEF SleepsOnlyOnEmpty
  <2>t. call \in [Threads -> Calls] /\ signal \in [receive : BOOLEAN, send : BOOLEAN]
    BY DEF QueueInv, TypeOK
  <2>1. ~deleting /\ items # <<>> /\ call[r].pc = "waits" => signal.receive
    BY DEF SleepsOnlyOnEmpty
  <2>2. CASE UNCHANGED vars
    BY <2>1, <2>2 DEF vars
  <2>3. ASSUME NEW t \in Threads, Add(t) PROVE signal'.receive
    BY <1>r, <2>t, <2>1, <2>3 DEF Add, Wait, Insert, Added
  <2>4. ASSUME NEW t \in Threads, Get(t) PROVE signal'.receive
    BY <1>r, <2>t, <2>1, <2>4 DEF Get, Wait, TakeFirst
  <2>5. ASSUME NEW t \in Threads, AddResumes(t) PROVE signal'.receive
    BY <1>r, <2>t, <2>1, <2>5 DEF AddResumes, Leave, NoCall, Insert, Added
  <2>6. ASSUME NEW t \in Threads, GetResumes(t) PROVE signal'.receive
    BY <1>r, <2>t, <2>1, <2>6 DEF GetResumes, Leave, NoCall, Threads
  <2>7. ASSUME NEW t \in Threads, Wake(t) \/ TimeOut(t) PROVE signal'.receive
    BY <1>r, <2>t, <2>1, <2>7 DEF Wake, TimeOut, EventOf, Threads, Calls
  <2>8. CASE DeleteBegins \/ DeletePokes \/ DeleteFrees \/ Create
    BY <2>1, <2>8 DEF DeleteBegins, DeletePokes, DeleteFrees, Create
  <2> QED BY <2>2, <2>3, <2>4, <2>5, <2>6, <2>7, <2>8 DEF Next, ThreadStep
<1>3. Inv => SleepsOnlyOnEmpty
  OBVIOUS
<1> HIDE DEF Inv
<1> QED BY <1>1, <1>2, <1>3, PTL DEF Spec
=============================================================================
