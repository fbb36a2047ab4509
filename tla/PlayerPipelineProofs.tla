------------------------- MODULE PlayerPipelineProofs -------------------------
(***************************************************************************)
(* The protocol of the player's threads, for every size of the packet      *)
(* cache, of the raw images, of the texture ring and of the speaker, and   *)
(* for any number of playbacks and of events.                              *)
(*                                                                         *)
(* The hard part is the stop: D asks R, then C, then V to abort and throws *)
(* away what it is told in the meantime.  PipelineInv says, for each       *)
(* worker and each place of D, what the worker may still do and which of   *)
(* its messages may still be in a queue.                                   *)
(***************************************************************************)
EXTENDS PlayerPipeline, SequenceTheorems, TLAPS

-----------------------------------------------------------------------------
(* The inductive invariant.                                                 *)

(* D has no file open, or is about to open one.                             *)
Stopped == d.pc = "opens" \/ (d.pc \in Loop /\ player.state = "idle")

ReadNotes == ReadAnswers \cup {"r_aborted"}
VideoNotes == {"copied", "v_aborted"}
ConvertNotes == {"c_aborted"}

(* What stands in s of the one kind stands before what there is of the other. *)
Before(s, A, B) == \A i, j \in DOMAIN s : s[i] \in A /\ s[j] \in B => i < j

(* An abort that its worker is to take next.                                *)
AbortIsNext(q) == q # <<>> /\ Head(q) = "abort"
OneAnswer(e) == Some(queue.n, {e}) /\ Once(queue.n, {e})

(* D reads no flag it has not set in this playback.                         *)
DecodeInv ==
  /\ d.pc \in {"opens", "r", "c", "v", "closes"} => player.state # "idle"
  /\ d.pc = "opens" => ~d.waiting /\ ~d.reading

(* R once it has answered the abort, and until it is asked again.           *)
ReadQuiet == r = "idle" /\ queue.r = <<>>

ReadInv ==
  /\ Stopped \/ d.pc \in {"c", "v", "closes"} =>
       ReadQuiet /\ ~Some(queue.n, ReadNotes)
  /\ d.pc = "r" =>
       \/ AbortIsNext(queue.r) /\ ~Some(queue.n, {"r_aborted"})
       \/ ReadQuiet /\ OneAnswer("r_aborted") /\ Before(queue.n, ReadAnswers, {"r_aborted"})
  /\ Playing => ~Some(queue.r, {"abort"}) /\ ~Some(queue.n, {"r_aborted"})
  /\ OneReadInFlight

(* C may have a late clear to do, but nothing else.                         *)
ConvertQuiet == c.pc # "stores" /\ ~c.convert /\ ~Some(queue.c, {"convert", "abort"})

ConvertInv ==
  /\ Stopped \/ d.pc \in {"v", "closes"} =>
       ConvertQuiet /\ ~Some(queue.n, {"c_aborted"})
  /\ d.pc = "c" =>
       \/ AbortIsNext(queue.c) /\ ~Some(queue.n, {"c_aborted"})
       \/ ConvertQuiet /\ OneAnswer("c_aborted")
  /\ Playing \/ d.pc = "r" => ~Some(queue.c, {"abort"}) /\ ~Some(queue.n, {"c_aborted"})

VideoQuiet == v.pc = "idle" /\ queue.v = <<>>

VideoInv ==
  /\ Stopped \/ d.pc = "closes" =>
       VideoQuiet /\ ~Some(queue.n, VideoNotes)
  /\ d.pc = "v" =>
       \/ AbortIsNext(queue.v) /\ ~Some(queue.n, {"v_aborted"})
       \/ VideoQuiet /\ OneAnswer("v_aborted") /\ Before(queue.n, {"copied"}, {"v_aborted"})
  /\ Playing \/ d.pc \in {"r", "c"} =>
       ~Some(queue.v, {"abort"}) /\ ~Some(queue.n, {"v_aborted"})
  /\ OnePacketInFlight

(* C writes a texture only with another one free.                           *)
TextureInv == c.pc = "stores" => ~RingFull

PipelineInv ==
  TypeOK /\ DecodeInv /\ ReadInv /\ ConvertInv /\ VideoInv /\ TextureInv

-----------------------------------------------------------------------------
(* What a queue holds after one Util_queue_add or Util_queue_get.           *)

LEMMA NothingInEmpty ==
  ASSUME NEW E
  PROVE  ~Some(<<>>, E) /\ Once(<<>>, E)
BY DEF Some, Once

LEMMA SomeAppended ==
  ASSUME NEW S, NEW s \in Seq(S), NEW e \in S, NEW E
  PROVE  Some(Append(s, e), E) <=> Some(s, E) \/ e \in E
BY DEF Some

LEMMA OnceAppended ==
  ASSUME NEW S, NEW s \in Seq(S), NEW e \in S, NEW E, Once(s, E), e \in E => ~Some(s, E)
  PROVE  Once(Append(s, e), E)
BY DEF Some, Once

LEMMA BeforeAppended ==
  ASSUME NEW S, NEW s \in Seq(S), NEW e \in S, NEW A, NEW B, Before(s, A, B), e \notin A
  PROVE  Before(Append(s, e), A, B)
BY DEF Before

LEMMA HeadAppended ==
  ASSUME NEW S, NEW s \in Seq(S), NEW e \in S
  PROVE  /\ Append(s, e) \in Seq(S)
         /\ Append(s, e) # <<>>
         /\ s # <<>> => Head(Append(s, e)) = Head(s)
<1>1. Append(s, e) \in Seq(S) /\ Len(Append(s, e)) = Len(s) + 1
  BY AppendProperties
<1>2. Append(s, e) # <<>>
  BY AppendProperties
<1>3. ASSUME s # <<>> PROVE Head(Append(s, e)) = Head(s)
  BY <1>3, HeadTailAppend
<1> QED BY <1>1, <1>2, <1>3

LEMMA SomeInTail ==
  ASSUME NEW S, NEW s \in Seq(S), s # <<>>, NEW E
  PROVE  Some(s, E) <=> Head(s) \in E \/ Some(Tail(s), E)
<1>1. /\ Len(s) \in Nat \ {0} /\ DOMAIN s = 1 .. Len(s)
      /\ Tail(s) \in Seq(S) /\ DOMAIN Tail(s) = 1 .. (Len(s) - 1)
      /\ \A i \in 1 .. (Len(s) - 1) : Tail(s)[i] = s[i + 1]
      /\ Head(s) = s[1]
  OBVIOUS
<1>2. ASSUME NEW i \in DOMAIN s, s[i] \in E, Head(s) \notin E PROVE Some(Tail(s), E)
  <2>1. i - 1 \in DOMAIN Tail(s)
    BY <1>1, <1>2
  <2>2. Tail(s)[i - 1] = s[i]
    BY <1>1, <2>1
  <2> QED BY <1>2, <2>1, <2>2 DEF Some
<1>3. ASSUME NEW i \in DOMAIN Tail(s), Tail(s)[i] \in E PROVE Some(s, E)
  <2>1. i + 1 \in DOMAIN s /\ s[i + 1] = Tail(s)[i]
    BY <1>1
  <2> QED BY <1>3, <2>1 DEF Some
<1>4. ASSUME Head(s) \in E PROVE Some(s, E)
  BY <1>1, <1>4 DEF Some
<1> QED BY <1>2, <1>3, <1>4 DEF Some

LEMMA OnceInTail ==
  ASSUME NEW S, NEW s \in Seq(S), s # <<>>, NEW E, Once(s, E)
  PROVE  Once(Tail(s), E) /\ (Head(s) \in E => ~Some(Tail(s), E))
BY DEF Some, Once

LEMMA BeforeInTail ==
  ASSUME NEW S, NEW s \in Seq(S), s # <<>>, NEW A, NEW B, Before(s, A, B)
  PROVE  Before(Tail(s), A, B) /\ (Head(s) \in B => ~Some(s, A))
BY DEF Some, Before

LEMMA PutInFront ==
  ASSUME NEW S, NEW s \in Seq(S), NEW e \in S
  PROVE  /\ <<e>> \o s \in Seq(S)
         /\ <<e>> \o s # <<>> /\ Head(<<e>> \o s) = e
         /\ \A E : Some(<<e>> \o s, E) <=> Some(s, E) \/ e \in E
<1> DEFINE t == <<e>> \o s
<1>1. /\ t \in Seq(S) /\ Len(t) = Len(s) + 1 /\ Len(s) \in Nat
      /\ \A i \in 1 .. Len(t) : t[i] = IF i = 1 THEN e ELSE s[i - 1]
  <2>1. <<e>> \in Seq(S) /\ Len(<<e>>) = 1 /\ <<e>>[1] = e
    OBVIOUS
  <2> QED BY <2>1, ConcatProperties
<1>2. DOMAIN t = 1 .. Len(t) /\ DOMAIN s = 1 .. Len(s)
  BY <1>1
<1> HIDE DEF t
<1>3. t # <<>> /\ Head(t) = e
  BY <1>1
<1>4. ASSUME NEW E PROVE Some(t, E) <=> Some(s, E) \/ e \in E
  <2>1. ASSUME NEW i \in DOMAIN t, t[i] \in E, e \notin E PROVE Some(s, E)
    <3>1. i - 1 \in DOMAIN s /\ s[i - 1] = t[i]
      BY <1>1, <1>2, <2>1
    <3> QED BY <2>1, <3>1 DEF Some
  <2>2. ASSUME NEW i \in DOMAIN s, s[i] \in E PROVE Some(t, E)
    <3>1. i + 1 \in DOMAIN t /\ t[i + 1] = s[i]
      BY <1>1, <1>2
    <3> QED BY <2>2, <3>1 DEF Some
  <2>3. ASSUME e \in E PROVE Some(t, E)
    BY <1>1, <1>2, <2>3 DEF Some
  <2> QED BY <2>1, <2>2, <2>3 DEF Some
<1> QED BY <1>1, <1>3, <1>4 DEF t

-----------------------------------------------------------------------------
(* Steps that leave a worker's part of the protocol alone.                  *)

(* What the notification queue holds of E, and in which order, is kept.     *)
SameNotes(E) ==
  /\ \A X \in SUBSET E : /\ Some(queue.n', X) <=> Some(queue.n, X)
                         /\ Once(queue.n, X) => Once(queue.n', X)
  /\ \A A, B \in SUBSET E : Before(queue.n, A, B) => Before(queue.n', A, B)

LEMMA NotesKept ==
  ASSUME NEW E, queue.n' = queue.n PROVE SameNotes(E)
BY DEF SameNotes

LEMMA NotesPut ==
  ASSUME NEW E, queue \in Queues, NEW e \in Notes \ E, queue.n' = Append(queue.n, e)
  PROVE  SameNotes(E)
<1>1. queue.n \in Seq(Notes) /\ e \in Notes
  BY DEF Queues
<1>2. ASSUME NEW X \in SUBSET E
      PROVE  /\ Some(queue.n', X) <=> Some(queue.n, X)
             /\ Once(queue.n, X) => Once(queue.n', X)
  <2>1. e \notin X
    BY <1>2
  <2> QED BY <1>1, <2>1, SomeAppended, OnceAppended
<1>3. ASSUME NEW A \in SUBSET E, NEW B \in SUBSET E, Before(queue.n, A, B)
      PROVE  Before(queue.n', A, B)
  <2>1. e \notin A
    BY <1>3
  <2> QED BY <1>1, <1>3, <2>1, BeforeAppended
<1> QED BY <1>2, <1>3 DEF SameNotes

LEMMA NotesTaken ==
  ASSUME NEW E, queue \in Queues, queue.n # <<>>, Head(queue.n) \notin E,
         queue.n' = Tail(queue.n)
  PROVE  SameNotes(E)
<1>1. queue.n \in Seq(Notes)
  BY DEF Queues
<1>2. ASSUME NEW X \in SUBSET E
      PROVE  /\ Some(queue.n', X) <=> Some(queue.n, X)
             /\ Once(queue.n, X) => Once(queue.n', X)
  <2>1. Head(queue.n) \notin X
    BY <1>2
  <2> QED BY <1>1, <2>1, SomeInTail, OnceInTail
<1>3. ASSUME NEW A \in SUBSET E, NEW B \in SUBSET E, Before(queue.n, A, B)
      PROVE  Before(queue.n', A, B)
  BY <1>1, <1>3, BeforeInTail
<1> QED BY <1>2, <1>3 DEF SameNotes

(* D stays where it is, or in its loop, and the playback lasts or does not. *)
KeepsPlace ==
  /\ d.pc' = d.pc \/ (d.pc \in Loop /\ d.pc' \in Loop)
  /\ player.state' = "idle" <=> player.state = "idle"

LEMMA PlaceKept ==
  ASSUME KeepsPlace
  PROVE  /\ Stopped' <=> Stopped
         /\ Playing' <=> Playing
         /\ \A e \in {"opens", "r", "c", "v", "closes"} : d.pc' = e <=> d.pc = e
BY DEF KeepsPlace, Stopped, Playing, Loop

LEMMA DecodeFrame ==
  ASSUME DecodeInv, KeepsPlace, d.reading' = d.reading \/ d.pc # "opens",
         d.waiting' = d.waiting \/ d.pc # "opens"
  PROVE  DecodeInv'
BY PlaceKept DEF DecodeInv, KeepsPlace, Loop

LEMMA ReadFrame ==
  ASSUME ReadInv, KeepsPlace, SameNotes(ReadNotes),
         d.reading' = d.reading, r' = r, queue.r' = queue.r
  PROVE  ReadInv'
<1>1. /\ Some(queue.n', ReadNotes) <=> Some(queue.n, ReadNotes)
      /\ Some(queue.n', ReadAnswers) <=> Some(queue.n, ReadAnswers)
      /\ Some(queue.n', {"r_aborted"}) <=> Some(queue.n, {"r_aborted"})
      /\ Once(queue.n, ReadAnswers) => Once(queue.n', ReadAnswers)
      /\ Once(queue.n, {"r_aborted"}) => Once(queue.n', {"r_aborted"})
      /\ Before(queue.n, ReadAnswers, {"r_aborted"})
           => Before(queue.n', ReadAnswers, {"r_aborted"})
  BY DEF SameNotes, ReadNotes
<1> QED BY <1>1, PlaceKept DEF ReadInv, ReadQuiet, AbortIsNext, OneAnswer, OneReadInFlight

LEMMA ConvertFrame ==
  ASSUME ConvertInv, KeepsPlace, SameNotes(ConvertNotes), c' = c, queue.c' = queue.c
  PROVE  ConvertInv'
<1>1. /\ Some(queue.n', {"c_aborted"}) <=> Some(queue.n, {"c_aborted"})
      /\ Once(queue.n, {"c_aborted"}) => Once(queue.n', {"c_aborted"})
  BY DEF SameNotes, ConvertNotes
<1> QED BY <1>1, PlaceKept DEF ConvertInv, ConvertQuiet, AbortIsNext, OneAnswer

LEMMA VideoFrame ==
  ASSUME VideoInv, KeepsPlace, SameNotes(VideoNotes),
         d.waiting' = d.waiting, v.pc' = v.pc, queue.v' = queue.v
  PROVE  VideoInv'
<1>1. /\ Some(queue.n', VideoNotes) <=> Some(queue.n, VideoNotes)
      /\ Some(queue.n', {"copied"}) <=> Some(queue.n, {"copied"})
      /\ Some(queue.n', {"v_aborted"}) <=> Some(queue.n, {"v_aborted"})
      /\ Once(queue.n, {"copied"}) => Once(queue.n', {"copied"})
      /\ Once(queue.n, {"v_aborted"}) => Once(queue.n', {"v_aborted"})
      /\ Before(queue.n, {"copied"}, {"v_aborted"})
           => Before(queue.n', {"copied"}, {"v_aborted"})
  BY DEF SameNotes, VideoNotes
<1> QED BY <1>1, PlaceKept DEF VideoInv, VideoQuiet, AbortIsNext, OneAnswer, OnePacketInFlight

(* All four parts, and what the steps of one thread leave of the others.    *)
Protocol == DecodeInv /\ ReadInv /\ ConvertInv /\ VideoInv

LEMMA ProtocolFrame ==
  ASSUME Protocol, KeepsPlace, \A E : SameNotes(E),
         d.reading' = d.reading, d.waiting' = d.waiting,
         r' = r, v.pc' = v.pc, c' = c,
         queue.r' = queue.r, queue.v' = queue.v, queue.c' = queue.c
  PROVE  Protocol'
BY DecodeFrame, ReadFrame, ConvertFrame, VideoFrame DEF Protocol

LEMMA ProtocolLeft ==
  ASSUME d.pc' = "exited" PROVE Protocol'
BY DEF Protocol, DecodeInv, ReadInv, ConvertInv, VideoInv, Stopped, Playing, Loop,
       OneReadInFlight, OnePacketInFlight

-----------------------------------------------------------------------------
(* The queues, taken together.                                              *)

LEMMA Typed ==
  ASSUME NEW q \in Queues
  PROVE  /\ q.d \in Seq(Requests) /\ q.r \in Seq(ReadRequests) /\ q.v \in Seq(VideoRequests)
         /\ q.c \in Seq(ConvertRequests) /\ q.n \in Seq(Notes)
BY DEF Queues

SameButD(p, q) == p \in Queues /\ p.r = q.r /\ p.v = q.v /\ p.c = q.c /\ p.n = q.n

LEMMA RequestPut ==
  ASSUME NEW q \in Queues, NEW e \in Requests
  PROVE  /\ SameButD(Put(q, "d", e), q) /\ SameButD(PutFirst(q, "d", e), q)
         /\ SameButD(PutOnce(q, "d", e), q)
<1>1. q.d \in Seq(Requests) /\ Append(q.d, e) \in Seq(Requests)
      /\ <<e>> \o q.d \in Seq(Requests)
  BY Typed, HeadAppended, PutInFront
<1>2. Put(q, "d", e) = [q EXCEPT !.d = Append(q.d, e)]
      /\ PutFirst(q, "d", e) = [q EXCEPT !.d = <<e>> \o q.d]
  BY DEF Put, PutFirst
<1>3. SameButD(Put(q, "d", e), q) /\ SameButD(PutFirst(q, "d", e), q)
  BY <1>1, <1>2 DEF SameButD, Queues
<1> QED BY <1>3 DEF PutOnce, SameButD

LEMMA RequestTaken ==
  ASSUME NEW q \in Queues, q.d # <<>>
  PROVE  SameButD(Take(q, "d"), q) /\ Head(q.d) \in Requests
<1>1. q.d \in Seq(Requests) /\ Tail(q.d) \in Seq(Requests) /\ Head(q.d) \in Requests
  BY Typed, HeadTailProperties
<1>2. Take(q, "d") = [q EXCEPT !.d = Tail(q.d)]
  BY DEF Take
<1> QED BY <1>1, <1>2 DEF SameButD, Queues

(* One worker's queue k, and the notification queue, appended to.           *)
LEMMA ReadPut ==
  ASSUME NEW q \in Queues, NEW e \in ReadRequests, NEW p, p = Put(q, "r", e)
  PROVE  /\ p \in Queues /\ p.r = Append(q.r, e)
         /\ p.d = q.d /\ p.v = q.v /\ p.c = q.c /\ p.n = q.n
<1>1. Append(q.r, e) \in Seq(ReadRequests)
  BY Typed, HeadAppended
<1>2. p = [q EXCEPT !.r = Append(q.r, e)]
  BY DEF Put
<1> QED BY <1>1, <1>2 DEF Queues

LEMMA VideoPut ==
  ASSUME NEW q \in Queues, NEW e \in VideoRequests, NEW p, p = Put(q, "v", e)
  PROVE  /\ p \in Queues /\ p.v = Append(q.v, e)
         /\ p.d = q.d /\ p.r = q.r /\ p.c = q.c /\ p.n = q.n
<1>1. Append(q.v, e) \in Seq(VideoRequests)
  BY Typed, HeadAppended
<1>2. p = [q EXCEPT !.v = Append(q.v, e)]
  BY DEF Put
<1> QED BY <1>1, <1>2 DEF Queues

LEMMA ConvertPut ==
  ASSUME NEW q \in Queues, NEW e \in ConvertRequests, NEW p, p = Put(q, "c", e)
  PROVE  /\ p \in Queues /\ p.c = Append(q.c, e)
         /\ p.d = q.d /\ p.r = q.r /\ p.v = q.v /\ p.n = q.n
<1>1. Append(q.c, e) \in Seq(ConvertRequests)
  BY Typed, HeadAppended
<1>2. p = [q EXCEPT !.c = Append(q.c, e)]
  BY DEF Put
<1> QED BY <1>1, <1>2 DEF Queues

LEMMA NotePut ==
  ASSUME NEW q \in Queues, NEW e \in Notes, NEW p, p = Put(q, "n", e)
  PROVE  /\ p \in Queues /\ p.n = Append(q.n, e)
         /\ p.d = q.d /\ p.r = q.r /\ p.v = q.v /\ p.c = q.c
<1>1. Append(q.n, e) \in Seq(Notes)
  BY Typed, HeadAppended
<1>2. p = [q EXCEPT !.n = Append(q.n, e)]
  BY DEF Put
<1> QED BY <1>1, <1>2 DEF Queues

LEMMA NoteTaken ==
  ASSUME NEW q \in Queues, q.n # <<>>, NEW p, p = Take(q, "n")
  PROVE  /\ p \in Queues /\ p.n = Tail(q.n) /\ Head(q.n) \in Notes
         /\ p.d = q.d /\ p.r = q.r /\ p.v = q.v /\ p.c = q.c
<1>1. Tail(q.n) \in Seq(Notes) /\ Head(q.n) \in Notes
  BY Typed, HeadTailProperties
<1>2. p = [q EXCEPT !.n = Tail(q.n)]
  BY DEF Take
<1> QED BY <1>1, <1>2 DEF Queues

(* A worker's queue with its first request taken off, or emptied.           *)
LEMMA ReadTaken ==
  ASSUME NEW q \in Queues, q.r # <<>>, NEW p, p = Take(q, "r")
  PROVE  /\ p \in Queues /\ p.r = Tail(q.r) /\ Head(q.r) \in ReadRequests
         /\ p.d = q.d /\ p.v = q.v /\ p.c = q.c /\ p.n = q.n
<1>1. Tail(q.r) \in Seq(ReadRequests) /\ Head(q.r) \in ReadRequests
  BY Typed, HeadTailProperties
<1>2. p = [q EXCEPT !.r = Tail(q.r)]
  BY DEF Take
<1> QED BY <1>1, <1>2 DEF Queues

LEMMA VideoTaken ==
  ASSUME NEW q \in Queues, q.v # <<>>, NEW p, p = Take(q, "v")
  PROVE  /\ p \in Queues /\ p.v = Tail(q.v) /\ Head(q.v) \in VideoRequests
         /\ p.d = q.d /\ p.r = q.r /\ p.c = q.c /\ p.n = q.n
<1>1. Tail(q.v) \in Seq(VideoRequests) /\ Head(q.v) \in VideoRequests
  BY Typed, HeadTailProperties
<1>2. p = [q EXCEPT !.v = Tail(q.v)]
  BY DEF Take
<1> QED BY <1>1, <1>2 DEF Queues

LEMMA ConvertTaken ==
  ASSUME NEW q \in Queues, q.c # <<>>, NEW p, p = Take(q, "c")
  PROVE  /\ p \in Queues /\ p.c = Tail(q.c) /\ Head(q.c) \in ConvertRequests
         /\ p.d = q.d /\ p.r = q.r /\ p.v = q.v /\ p.n = q.n
<1>1. Tail(q.c) \in Seq(ConvertRequests) /\ Head(q.c) \in ConvertRequests
  BY Typed, HeadTailProperties
<1>2. p = [q EXCEPT !.c = Tail(q.c)]
  BY DEF Take
<1> QED BY <1>1, <1>2 DEF Queues

LEMMA Emptied ==
  ASSUME NEW q \in Queues
  PROVE  /\ [q EXCEPT !.r = <<>>] \in Queues /\ [q EXCEPT !.v = <<>>] \in Queues
         /\ [q EXCEPT !.c = <<>>] \in Queues
<1>1. \A S : <<>> \in Seq(S)
  OBVIOUS
<1> DEFINE nothing == <<>>
<1>2. nothing \in Seq(ReadRequests) /\ nothing \in Seq(VideoRequests)
      /\ nothing \in Seq(ConvertRequests)
  BY <1>1
<1> HIDE DEF nothing
<1>3. /\ [q EXCEPT !.r = nothing] \in Queues /\ [q EXCEPT !.v = nothing] \in Queues
      /\ [q EXCEPT !.c = nothing] \in Queues
  BY <1>2 DEF Queues
<1> QED BY <1>3 DEF nothing

(* D's abort, put at the front of a worker's queue.                         *)
LEMMA AbortPut ==
  ASSUME NEW q \in Queues
  PROVE  /\ LET p == PutFirst(q, "r", "abort") IN
              /\ p \in Queues /\ AbortIsNext(p.r)
              /\ p.d = q.d /\ p.v = q.v /\ p.c = q.c /\ p.n = q.n
         /\ LET p == PutFirst(q, "c", "abort") IN
              /\ p \in Queues /\ AbortIsNext(p.c)
              /\ p.d = q.d /\ p.r = q.r /\ p.v = q.v /\ p.n = q.n
         /\ LET p == PutFirst(q, "v", "abort") IN
              /\ p \in Queues /\ AbortIsNext(p.v)
              /\ p.d = q.d /\ p.r = q.r /\ p.c = q.c /\ p.n = q.n
<1>1. /\ "abort" \in ReadRequests /\ "abort" \in VideoRequests /\ "abort" \in ConvertRequests
  BY DEF ReadRequests, VideoRequests, ConvertRequests
<1>2. /\ <<"abort">> \o q.r \in Seq(ReadRequests) /\ AbortIsNext(<<"abort">> \o q.r)
      /\ <<"abort">> \o q.v \in Seq(VideoRequests) /\ AbortIsNext(<<"abort">> \o q.v)
      /\ <<"abort">> \o q.c \in Seq(ConvertRequests) /\ AbortIsNext(<<"abort">> \o q.c)
  BY <1>1, Typed, PutInFront DEF AbortIsNext
<1>3. /\ PutFirst(q, "r", "abort") = [q EXCEPT !.r = <<"abort">> \o q.r]
      /\ PutFirst(q, "v", "abort") = [q EXCEPT !.v = <<"abort">> \o q.v]
      /\ PutFirst(q, "c", "abort") = [q EXCEPT !.c = <<"abort">> \o q.c]
  BY DEF PutFirst
<1> QED BY <1>2, <1>3 DEF Queues

-----------------------------------------------------------------------------
(* The user, the host and the screen: they only ask D for something.        *)

LEMMA Budget ==
  ASSUME env \in Environments, Pays PROVE Paid \in Environments
BY PlayerAssumption DEF Environments, Pays, Paid

LEMMA NextTexture ==
  ASSUME NEW i \in 0 .. VIDEO_BUFFERS - 1
  PROVE  /\ (i + 1) % VIDEO_BUFFERS \in 0 .. VIDEO_BUFFERS - 1
         /\ (i + 1) % VIDEO_BUFFERS = IF i + 1 = VIDEO_BUFFERS THEN 0 ELSE i + 1
<1>1. VIDEO_BUFFERS \in Nat \ {0} /\ i + 1 \in Nat /\ i + 1 <= VIDEO_BUFFERS
  BY PlayerAssumption
<1>2. CASE i + 1 = VIDEO_BUFFERS
  BY <1>1, <1>2
<1>3. CASE i + 1 < VIDEO_BUFFERS
  BY <1>1, <1>3
<1> QED BY <1>1, <1>2, <1>3

LEMMA AbortFirstTyped ==
  ASSUME queue \in Queues PROVE SameButD(AbortFirst, queue)
<1>1. "abort" \in Requests
  BY DEF Requests, Stoppers
<1> QED BY <1>1, RequestPut DEF AbortFirst, SameButD

(* A step that may change D's queue, the budget and the screen.             *)
Asking ==
  /\ SameButD(queue', queue) /\ env' \in Environments
  /\ player' \in PlayerData /\ player.state' = player.state
  /\ tex' \in Textures /\ audio' \in 0 .. MaxAudio
  /\ UNCHANGED <<d, r, v, c, dec>>

LEMMA AskingStep ==
  ASSUME TypeOK, Protocol, Asking PROVE TypeOK' /\ Protocol'
<1>1. TypeOK'
  BY DEF TypeOK, Asking, SameButD
<1>2. \A E : SameNotes(E)
  BY NotesKept DEF Asking, SameButD
<1>3. KeepsPlace /\ d.reading' = d.reading /\ d.waiting' = d.waiting
      /\ r' = r /\ v.pc' = v.pc /\ c' = c
      /\ queue.r' = queue.r /\ queue.v' = queue.v /\ queue.c' = queue.c
  BY DEF Asking, KeepsPlace, SameButD
<1> QED BY <1>1, <1>2, <1>3, ProtocolFrame

LEMMA UserAsks ==
  ASSUME TypeOK, Play \/ AskReturn \/ KeepAborting \/ Toggle \/ AskSeek \/ Shutdown
  PROVE  Asking
<1>1. /\ \A e \in {"play", "pause", "resume", "seek", "shutdown"} : e \in Requests
      /\ queue \in Queues /\ SameButD(queue, queue) /\ SameButD(AbortFirst, queue)
      /\ player \in PlayerData /\ env \in Environments
      /\ tex \in Textures /\ audio \in 0 .. MaxAudio
  BY AbortFirstTyped DEF Requests, Stoppers, TypeOK, SameButD
<1>2. CASE Play
  <2>1. SameButD(queue', queue)
    BY <1>1, <1>2, RequestPut DEF Play
  <2>2. env' \in Environments
    <3>1. env.plays \in 0 .. MaxPlays /\ env.plays < MaxPlays
      BY <1>1, <1>2 DEF Play, Environments
    <3> DEFINE count == env.plays + 1
    <3>2. count \in 0 .. MaxPlays
      BY <3>1, PlayerAssumption
    <3>3. env' = [env EXCEPT !.plays = count, !.return = FALSE, !.stop = FALSE]
      BY <1>2 DEF Play
    <3> HIDE DEF count
    <3> QED BY <1>1, <3>2, <3>3 DEF Environments
  <2>3. player' \in PlayerData /\ player.state' = player.state
    BY <1>1, <1>2 DEF Play, PlayerData
  <2> QED BY <1>1, <1>2, <2>1, <2>2, <2>3 DEF Play, Asking
<1>3. CASE AskReturn
  <2>1. env' \in Environments
    <3>1. Paid \in Environments /\ env' = [Paid EXCEPT !.return = TRUE, !.stop = TRUE]
      BY <1>1, <1>3, Budget DEF AskReturn
    <3> QED BY <3>1 DEF Environments
  <2> QED BY <1>1, <1>3, <2>1 DEF AskReturn, Asking
<1>4. CASE KeepAborting
  <2>1. env' \in Environments /\ (queue' = queue \/ queue' = AbortFirst)
    BY <1>1, <1>4 DEF KeepAborting, Environments
  <2> QED BY <1>1, <1>4, <2>1 DEF KeepAborting, Asking
<1>5. CASE Toggle
  <2>1. env' \in Environments
    BY <1>1, <1>5, Budget DEF Toggle
  <2>2. SameButD(queue', queue)
    BY <1>1, <1>5, RequestPut DEF Toggle
  <2> QED BY <1>1, <1>5, <2>1, <2>2 DEF Toggle, Asking
<1>6. CASE AskSeek
  <2>1. env' \in Environments
    <3>1. Paid \in Environments /\ env' = [Paid EXCEPT !.sought = TRUE]
      BY <1>1, <1>6, Budget DEF AskSeek
    <3> QED BY <3>1 DEF Environments
  <2>2. SameButD(queue', queue)
    BY <1>1, <1>6, RequestPut DEF AskSeek
  <2> QED BY <1>1, <1>6, <2>1, <2>2 DEF AskSeek, Asking
<1>7. CASE Shutdown
  <2>1. env' \in Environments
    <3>1. Paid \in Environments /\ env' = [Paid EXCEPT !.shutdown = TRUE, !.stop = TRUE]
      BY <1>1, <1>7, Budget DEF Shutdown
    <3> QED BY <3>1 DEF Environments
  <2>2. SameButD(queue', queue)
    BY <1>1, <1>7, RequestPut DEF Shutdown
  <2> QED BY <1>1, <1>7, <2>1, <2>2 DEF Shutdown, Asking
<1> QED BY <1>2, <1>3, <1>4, <1>5, <1>6, <1>7

LEMMA ScreenAsks ==
  ASSUME TypeOK, (\E early \in BOOLEAN : Draw(early)) \/ Speaker
  PROVE  Asking
<1>1. /\ queue \in Queues /\ SameButD(queue, queue)
      /\ player \in PlayerData /\ env \in Environments
      /\ tex \in Textures /\ audio \in 0 .. MaxAudio
  BY DEF TypeOK, SameButD
<1>2. CASE \E early \in BOOLEAN : Draw(early)
  <2>1. tex.draw \in 0 .. VIDEO_BUFFERS - 1
    BY <1>1 DEF Textures
  <2>2. tex' \in Textures
    BY <1>1, <1>2, <2>1, NextTexture DEF Draw, Textures
  <2> QED BY <1>1, <1>2, <2>2 DEF Draw, Asking
<1>3. CASE Speaker
  <2>1. audio' \in 0 .. MaxAudio
    BY <1>1, <1>3, PlayerAssumption DEF Speaker
  <2> QED BY <1>1, <1>3, <2>1 DEF Speaker, Asking
<1> QED BY <1>2, <1>3

-----------------------------------------------------------------------------
(* The decode thread: the commands that neither begin nor end a playback.   *)

LEMMA GoesTo ==
  ASSUME d \in Decoding, NEW pc \in Loop \cup {"r", "c", "v", "closes", "exited"}, Goes(pc)
  PROVE  /\ d' \in Decoding /\ d.pc' = pc
         /\ d.reading' = d.reading /\ d.waiting' = d.waiting
BY DEF Goes, Decoding

LEMMA CommandTaken ==
  ASSUME TypeOK, AtCommand
  PROVE  SameButD(Take(queue, "d"), queue) /\ d.pc \in Loop
BY RequestTaken DEF TypeOK, AtCommand, Loop

LEMMA ParseInLoop ==
  ASSUME AtParse \/ AtNotification PROVE d.pc \in Loop
BY DEF AtParse, AtNotification, Loop

(* D turns to its notifications, or to its commands, with the playback on.  *)
Turning ==
  /\ d.pc \in Loop
  /\ \E pc \in Loop : Goes(pc)
  /\ SameButD(queue', queue)
  /\ player' \in PlayerData /\ (player.state' = "idle" <=> player.state = "idle")
  /\ audio' \in 0 .. MaxAudio /\ env' \in Environments
  /\ UNCHANGED <<r, v, c, dec, tex>>

LEMMA TurningStep ==
  ASSUME TypeOK, Protocol, Turning PROVE TypeOK' /\ Protocol'
<1>1. /\ d' \in Decoding /\ d.pc' \in Loop
      /\ d.reading' = d.reading /\ d.waiting' = d.waiting
  BY GoesTo DEF Turning, TypeOK
<1>2. TypeOK'
  BY <1>1 DEF TypeOK, Turning, SameButD
<1>3. \A E : SameNotes(E)
  BY NotesKept DEF Turning, SameButD
<1>4. KeepsPlace /\ r' = r /\ v.pc' = v.pc /\ c' = c
      /\ queue.r' = queue.r /\ queue.v' = queue.v /\ queue.c' = queue.c
  BY <1>1 DEF Turning, KeepsPlace, SameButD
<1> QED BY <1>1, <1>2, <1>3, <1>4, ProtocolFrame

LEMMA ResumeTyped ==
  ASSUME player \in PlayerData
  PROVE  /\ \A s \in States : [player EXCEPT !.state = s] \in PlayerData
         /\ \A b \in BOOLEAN : [player EXCEPT !.resume = b] \in PlayerData
BY DEF PlayerData

LEMMA Turns ==
  ASSUME TypeOK,
         \/ Pause \/ Resume \/ NothingToParse
         \/ Seek /\ player.state \in {"idle", "prepare_seeking"}
         \/ StopIdle /\ Head(queue.d) # "shutdown"
  PROVE  Turning
<1>1. /\ queue \in Queues /\ SameButD(queue, queue)
      /\ player \in PlayerData /\ env \in Environments /\ audio \in 0 .. MaxAudio
      /\ "command" \in Loop /\ "notify" \in Loop
  BY DEF TypeOK, SameButD, Loop
<1>2. CASE Pause
  <2>1. player' \in PlayerData /\ (player.state' = "idle" <=> player.state = "idle")
    BY <1>1, <1>2 DEF Pause, PlayerData, States, Parsing
  <2> QED BY <1>1, <1>2, <2>1, CommandTaken DEF Pause, Turning
<1>3. CASE Resume
  <2>1. player' \in PlayerData /\ (player.state' = "idle" <=> player.state = "idle")
    BY <1>1, <1>3 DEF Resume, PlayerData, States, Parsing
  <2> QED BY <1>1, <1>3, <2>1, CommandTaken DEF Resume, Turning
<1>4. CASE NothingToParse
  BY <1>1, <1>4, ParseInLoop DEF NothingToParse, Turning
<1>5. CASE Seek /\ player.state \in {"idle", "prepare_seeking"}
  <2>1. SameButD(Take(queue, "d"), queue) /\ d.pc \in Loop
    BY <1>5, CommandTaken DEF Seek
  <2>2. "seek" \in Requests
    BY DEF Requests
  <2>3. SameButD(PutOnce(Take(queue, "d"), "d", "seek"), Take(queue, "d"))
    BY <2>1, <2>2, RequestPut DEF SameButD
  <2>4. SameButD(PutOnce(Take(queue, "d"), "d", "seek"), queue)
    BY <2>1, <2>3 DEF SameButD
  <2>5. SameButD(queue', queue) /\ UNCHANGED <<player, audio>>
    BY <1>5, <2>1, <2>4 DEF Seek
  <2> QED BY <1>1, <1>5, <2>1, <2>5 DEF Seek, Turning
<1>6. CASE StopIdle /\ Head(queue.d) # "shutdown"
  <2>1. player' \in PlayerData /\ player.state' = player.state
    BY <1>1, <1>6 DEF StopIdle, PlayerData
  <2>2. Goes("notify")
    BY <1>6 DEF StopIdle
  <2>3. env' \in Environments
    <3> DEFINE run == env.run /\ ~(Head(queue.d) = "shutdown")
    <3>1. env' = [env EXCEPT !.run = run] /\ run \in BOOLEAN
      BY <1>6 DEF StopIdle
    <3> HIDE DEF run
    <3> QED BY <1>1, <3>1 DEF Environments
  <2>4. UNCHANGED <<r, v, c, dec, tex, audio>> /\ SameButD(queue', queue) /\ d.pc \in Loop
    BY <1>6, CommandTaken DEF StopIdle
  <2> QED BY <1>1, <2>1, <2>2, <2>3, <2>4 DEF Turning
<1> QED BY <1>2, <1>3, <1>4, <1>5, <1>6

-----------------------------------------------------------------------------
(* The decode thread: how a playback begins and ends.                       *)

LEMMA RunTyped ==
  ASSUME env \in Environments, NEW b \in BOOLEAN
  PROVE  /\ [env EXCEPT !.run = b] \in Environments
         /\ [env EXCEPT !.stop = b] \in Environments
         /\ [env EXCEPT !.run = FALSE, !.stop = TRUE] \in Environments
BY DEF Environments

LEMMA LeaveStep ==
  ASSUME TypeOK, AbortTimesOut \/ (StopIdle /\ Head(queue.d) = "shutdown")
  PROVE  TypeOK' /\ Protocol'
<1>1. CASE AbortTimesOut
  <2>1. d' \in Decoding /\ d.pc' = "exited"
    BY <1>1, GoesTo DEF AbortTimesOut, TypeOK
  <2>2. player' \in PlayerData
    BY <1>1, ResumeTyped DEF AbortTimesOut, TypeOK, States
  <2>3. env' \in Environments
    BY <1>1, RunTyped DEF AbortTimesOut, TypeOK
  <2>4. TypeOK'
    BY <1>1, <2>1, <2>2, <2>3 DEF AbortTimesOut, TypeOK
  <2> QED BY <2>1, <2>4, ProtocolLeft
<1>2. CASE StopIdle /\ Head(queue.d) = "shutdown"
  <2>1. d' \in Decoding /\ d.pc' = "exited"
    BY <1>2, GoesTo DEF StopIdle, TypeOK
  <2>2. player' \in PlayerData
    BY <1>2, ResumeTyped DEF StopIdle, TypeOK
  <2>3. env' \in Environments
    <3> DEFINE run == env.run /\ ~(Head(queue.d) = "shutdown")
    <3>1. env' = [env EXCEPT !.run = run] /\ run \in BOOLEAN
      BY <1>2 DEF StopIdle
    <3> HIDE DEF run
    <3> QED BY <3>1, RunTyped DEF TypeOK
  <2>4. queue' \in Queues
    BY <1>2, CommandTaken DEF StopIdle, SameButD
  <2>5. TypeOK'
    BY <1>2, <2>1, <2>2, <2>3, <2>4 DEF StopIdle, TypeOK
  <2> QED BY <2>1, <2>5, ProtocolLeft
<1> QED BY <1>1, <1>2

LEMMA BeginPlayStep ==
  ASSUME TypeOK, Protocol, BeginPlay PROVE TypeOK' /\ Protocol'
<1>1. SameButD(queue', queue) /\ d.pc \in Loop /\ player.state = "idle"
  BY CommandTaken DEF BeginPlay
<1>2. d' \in Decoding /\ d.pc' = "opens" /\ ~d.reading' /\ ~d.waiting'
  BY DEF BeginPlay, NotWaiting, TypeOK, Decoding
<1>3. player' \in PlayerData /\ player.state' = "playing"
  BY DEF BeginPlay, TypeOK, PlayerData, States, Parsing
<1>4. tex' \in Textures
  BY PlayerAssumption DEF BeginPlay, NoTexture, Textures
<1>5. TypeOK'
  BY <1>1, <1>2, <1>3, <1>4 DEF BeginPlay, TypeOK, SameButD
<1>6. Stopped /\ Stopped' /\ ~Playing'
  BY <1>1, <1>2 DEF Stopped, Playing, Loop
<1>7. r' = r /\ v' = v /\ c' = c /\ queue.r' = queue.r /\ queue.v' = queue.v
      /\ queue.c' = queue.c /\ queue.n' = queue.n
  BY <1>1 DEF BeginPlay, SameButD
<1>8. DecodeInv'
  BY <1>2, <1>3 DEF DecodeInv
<1>9. ReadInv'
  BY <1>2, <1>6, <1>7 DEF Protocol, ReadInv, ReadQuiet, OneReadInFlight
<1>10. ConvertInv'
  BY <1>2, <1>6, <1>7 DEF Protocol, ConvertInv, ConvertQuiet
<1>11. VideoInv'
  BY <1>2, <1>6, <1>7 DEF Protocol, VideoInv, VideoQuiet, OnePacketInFlight
<1> QED BY <1>5, <1>8, <1>9, <1>10, <1>11 DEF Protocol

(* What a queue that holds nothing and takes one request holds.             *)
LEMMA FirstRequest ==
  ASSUME NEW S, NEW e \in S, NEW s, s = Append(<<>>, e)
  PROVE  \A E : (Some(s, E) <=> e \in E) /\ Once(s, E)
<1>1. <<>> \in Seq(S)
  OBVIOUS
<1> QED BY <1>1, NothingInEmpty, SomeAppended, OnceAppended

LEMMA OpenedStep ==
  ASSUME TypeOK, Protocol, Opened PROVE TypeOK' /\ Protocol'
<1> DEFINE asked == Put(queue, "r", "read")
<1>1. "read" \in ReadRequests /\ "convert" \in ConvertRequests /\ queue \in Queues
  BY DEF ReadRequests, ConvertRequests, TypeOK
<1>2. /\ asked \in Queues /\ asked.r = Append(queue.r, "read")
      /\ asked.v = queue.v /\ asked.c = queue.c /\ asked.n = queue.n
  BY <1>1, ReadPut
<1>3. queue' = Put(asked, "c", "convert")
  BY DEF Opened
<1> HIDE DEF asked
<1>4. /\ queue' \in Queues /\ queue.r' = Append(queue.r, "read") /\ queue.v' = queue.v
      /\ queue.c' = Append(queue.c, "convert") /\ queue.n' = queue.n
  BY <1>1, <1>2, <1>3, ConvertPut
<1>5. d' \in Decoding /\ d.pc' = "notify" /\ d.reading' /\ d.waiting' = d.waiting
  BY DEF Opened, TypeOK, Decoding, Loop
<1>6. player' \in PlayerData /\ player.state' # "idle"
  BY DEF Opened, TypeOK, PlayerData, States, Parsing, Protocol, DecodeInv
<1>7. dec' \in Decoders
  BY DEF Opened, TypeOK, Decoders
<1>8. TypeOK'
  BY <1>4, <1>5, <1>6, <1>7 DEF Opened, TypeOK
<1>9. Stopped /\ ~Stopped' /\ Playing' /\ ~d.waiting'
  BY <1>5, <1>6 DEF Opened, Stopped, Playing, Loop, Protocol, DecodeInv
<1>10. DecodeInv'
  BY <1>5 DEF DecodeInv
<1>11. /\ r = "idle" /\ queue.r = <<>> /\ ~Some(queue.n, ReadNotes)
       /\ v.pc = "idle" /\ queue.v = <<>> /\ ~Some(queue.n, VideoNotes)
       /\ ~Some(queue.c, {"abort"}) /\ ~Some(queue.n, {"c_aborted"})
  BY <1>9 DEF Protocol, ReadInv, ReadQuiet, VideoInv, VideoQuiet, ConvertInv, ConvertQuiet,
              Some
<1>12. ReadInv'
  <2>1. /\ Some(queue.r', {"read"}) /\ ~Some(queue.r', {"abort"}) /\ Once(queue.r', {"read"})
    BY <1>1, <1>4, <1>11, FirstRequest
  <2>2. /\ ~Some(queue.n', ReadAnswers) /\ ~Some(queue.n', {"r_aborted"})
        /\ Once(queue.n', ReadAnswers) /\ r' = "idle"
    BY <1>4, <1>11 DEF Opened, ReadNotes, Some, Once
  <2> QED BY <1>5, <1>9, <2>1, <2>2 DEF ReadInv, OneReadInFlight
<1>13. ConvertInv'
  <2>1. ~Some(queue.c', {"abort"})
    BY <1>1, <1>4, <1>11, Typed, SomeAppended
  <2> QED BY <1>4, <1>5, <1>9, <1>11, <2>1 DEF ConvertInv
<1>14. VideoInv'
  <2>1. /\ ~Some(queue.v', {"decode"}) /\ ~Some(queue.v', {"abort"})
        /\ Once(queue.v', {"decode"})
    BY <1>4, <1>11, NothingInEmpty
  <2>2. /\ ~Some(queue.n', {"copied"}) /\ ~Some(queue.n', {"v_aborted"})
        /\ Once(queue.n', {"copied"})
    BY <1>4, <1>11 DEF VideoNotes, Some, Once
  <2> QED BY <1>5, <1>9, <2>1, <2>2 DEF VideoInv, OnePacketInFlight
<1> QED BY <1>8, <1>10, <1>12, <1>13, <1>14 DEF Protocol

LEMMA OpenFailsStep ==
  ASSUME TypeOK, Protocol, OpenFails PROVE TypeOK' /\ Protocol'
<1>1. "abort" \in Requests /\ queue \in Queues
  BY DEF Requests, Stoppers, TypeOK
<1>2. SameButD(queue', queue)
  BY <1>1, RequestPut DEF OpenFails
<1>3. d' \in Decoding /\ d.pc' = "command" /\ d.reading' = d.reading /\ d.waiting' = d.waiting
  BY GoesTo DEF OpenFails, TypeOK, Loop
<1>4. dec' \in Decoders /\ env' \in Environments
  BY Budget DEF OpenFails, TypeOK, Decoders
<1>5. TypeOK'
  BY <1>2, <1>3, <1>4 DEF OpenFails, TypeOK, SameButD
<1>6. Stopped /\ ~Stopped' /\ Playing' /\ ~d.waiting' /\ ~d.reading'
  BY <1>3 DEF OpenFails, Stopped, Playing, Loop, Protocol, DecodeInv
<1>7. r' = r /\ v' = v /\ c' = c /\ queue.r' = queue.r /\ queue.v' = queue.v
      /\ queue.c' = queue.c /\ queue.n' = queue.n
  BY <1>2 DEF OpenFails, SameButD
<1>8. DecodeInv'
  BY <1>3 DEF DecodeInv
<1>9. ReadInv'
  <2>1. /\ r' = "idle" /\ queue.r' = <<>> /\ ~Some(queue.n', ReadNotes)
    BY <1>6, <1>7 DEF Protocol, ReadInv, ReadQuiet
  <2>2. /\ ~Some(queue.n', ReadAnswers) /\ ~Some(queue.n', {"r_aborted"})
        /\ Once(queue.n', ReadAnswers)
    BY <2>1 DEF ReadNotes, Some, Once
  <2>3. \A E : ~Some(queue.r', E) /\ Once(queue.r', E)
    BY <2>1, NothingInEmpty
  <2> QED BY <1>3, <1>6, <2>1, <2>2, <2>3 DEF ReadInv, OneReadInFlight
<1>10. ConvertInv'
  <2>1. ~Some(queue.c', {"abort"}) /\ ~Some(queue.n', {"c_aborted"})
    BY <1>6, <1>7 DEF Protocol, ConvertInv, ConvertQuiet, Some
  <2> QED BY <1>3, <1>6, <2>1 DEF ConvertInv
<1>11. VideoInv'
  <2>1. queue.v' = <<>> /\ ~Some(queue.n', VideoNotes)
    BY <1>6, <1>7 DEF Protocol, VideoInv, VideoQuiet
  <2>2. /\ ~Some(queue.n', {"copied"}) /\ ~Some(queue.n', {"v_aborted"})
        /\ Once(queue.n', {"copied"})
    BY <2>1 DEF VideoNotes, Some, Once
  <2>3. \A E : ~Some(queue.v', E) /\ Once(queue.v', E)
    BY <2>1, NothingInEmpty
  <2> QED BY <1>3, <1>6, <2>2, <2>3 DEF VideoInv, OnePacketInFlight
<1> QED BY <1>5, <1>8, <1>9, <1>10, <1>11 DEF Protocol

(* A request to R that is neither a read nor an abort.                      *)
LEMMA SeekStep ==
  ASSUME TypeOK, Protocol, Seek, player.state \notin {"idle", "prepare_seeking"}
  PROVE  TypeOK' /\ Protocol'
<1> DEFINE rest == Take(queue, "d")
<1>1. SameButD(rest, queue) /\ d.pc \in Loop
  BY CommandTaken DEF Seek
<1>2. "seek" \in ReadRequests /\ queue' = Put(rest, "r", "seek")
  BY DEF Seek, ReadRequests
<1> HIDE DEF rest
<1>3. /\ queue' \in Queues /\ queue.r' = Append(queue.r, "seek") /\ queue.v' = queue.v
      /\ queue.c' = queue.c /\ queue.n' = queue.n
  BY <1>1, <1>2, ReadPut DEF SameButD
<1>4. /\ d' \in Decoding /\ d.pc' = "notify"
      /\ d.reading' = d.reading /\ d.waiting' = d.waiting
  BY GoesTo DEF Seek, TypeOK, Loop
<1>5. player' \in PlayerData /\ player.state' # "idle"
  <2> DEFINE later == (player.state = "playing") \/ (player.resume /\ player.state # "pause")
  <2>1. player' = [player EXCEPT !.state = "prepare_seeking", !.eof = FALSE, !.resume = later]
    BY DEF Seek, TypeOK, PlayerData
  <2>2. later \in BOOLEAN
    OBVIOUS
  <2> HIDE DEF later
  <2> QED BY <2>1, <2>2 DEF TypeOK, PlayerData, States
<1>6. TypeOK'
  BY <1>3, <1>4, <1>5, PlayerAssumption DEF Seek, TypeOK
<1>7. KeepsPlace /\ Playing /\ Playing' /\ ~Stopped'
  BY <1>1, <1>4, <1>5 DEF KeepsPlace, Playing, Stopped, Loop
<1>8. r' = r /\ v.pc' = v.pc /\ c' = c /\ \A E : SameNotes(E)
  BY <1>3, NotesKept DEF Seek
<1>9. DecodeInv' /\ ConvertInv' /\ VideoInv'
  BY <1>3, <1>4, <1>7, <1>8, DecodeFrame, ConvertFrame, VideoFrame DEF Protocol
<1>10. ReadInv'
  <2>1. /\ Some(queue.r', {"read"}) <=> Some(queue.r, {"read"})
        /\ Some(queue.r', {"abort"}) <=> Some(queue.r, {"abort"})
        /\ Once(queue.r, {"read"}) => Once(queue.r', {"read"})
    <3>1. queue.r \in Seq(ReadRequests)
      BY Typed DEF TypeOK
    <3>2. "seek" \notin {"read"} /\ "seek" \notin {"abort"}
      OBVIOUS
    <3>3. \A E : Some(Append(queue.r, "seek"), E) <=> Some(queue.r, E) \/ "seek" \in E
      BY <1>2, <3>1, SomeAppended
    <3>4. Once(queue.r, {"read"}) => Once(Append(queue.r, "seek"), {"read"})
      BY <1>2, <3>1, <3>2, OnceAppended
    <3> QED BY <1>3, <3>2, <3>3, <3>4
  <2> QED BY <1>3, <1>4, <1>7, <1>8, <2>1 DEF Protocol, ReadInv, OneReadInFlight, Loop
<1> QED BY <1>6, <1>9, <1>10 DEF Protocol

LEMMA BeginStopStep ==
  ASSUME TypeOK, Protocol, BeginStop PROVE TypeOK' /\ Protocol'
<1> DEFINE rest == Take(queue, "d")
<1>1. SameButD(rest, queue) /\ d.pc \in Loop
  BY CommandTaken DEF BeginStop
<1>2. queue' = PutFirst(rest, "r", "abort") /\ player.state # "idle"
  BY DEF BeginStop
<1> HIDE DEF rest
<1>3. /\ queue' \in Queues /\ AbortIsNext(queue.r') /\ queue.v' = queue.v
      /\ queue.c' = queue.c /\ queue.n' = queue.n
  BY <1>1, <1>2, AbortPut DEF SameButD
<1>4. d' \in Decoding /\ d.pc' = "r"
  BY DEF BeginStop, TypeOK, Decoding
<1>5. env' \in Environments
  BY RunTyped DEF BeginStop, TypeOK
<1>6. TypeOK'
  BY <1>3, <1>4, <1>5 DEF BeginStop, TypeOK
<1>7. Playing /\ ~Playing' /\ ~Stopped' /\ player' = player /\ r' = r /\ v' = v /\ c' = c
  BY <1>1, <1>2, <1>4 DEF BeginStop, Playing, Stopped, Loop
<1>8. DecodeInv'
  BY <1>2, <1>4, <1>7 DEF DecodeInv
<1>9. ReadInv'
  BY <1>3, <1>4, <1>7 DEF Protocol, ReadInv, OneReadInFlight
<1>10. ConvertInv'
  BY <1>3, <1>4, <1>7 DEF Protocol, ConvertInv
<1>11. VideoInv'
  BY <1>3, <1>4, <1>7 DEF Protocol, VideoInv, OnePacketInFlight
<1> QED BY <1>6, <1>8, <1>9, <1>10, <1>11 DEF Protocol

(* The answer D waits for is the last it gets of that worker.               *)
LEMMA AnswerIsLast ==
  ASSUME queue \in Queues, queue.n # <<>>, queue.n' = Tail(queue.n),
         NEW e, Head(queue.n) = e, OneAnswer(e)
  PROVE  ~Some(queue.n', {e})
BY Typed, OnceInTail DEF OneAnswer

LEMMA AwaitWorkerStep ==
  ASSUME TypeOK, Protocol, AwaitWorker PROVE TypeOK' /\ Protocol'
<1> DEFINE rest == Take(queue, "n")
<1>1. queue \in Queues /\ queue.n # <<>> /\ d.pc \in {"r", "c", "v"}
  BY DEF AwaitWorker, TypeOK
<1>2. /\ rest \in Queues /\ rest.n = Tail(queue.n)
      /\ rest.d = queue.d /\ rest.r = queue.r /\ rest.v = queue.v /\ rest.c = queue.c
  BY <1>1, NoteTaken
<1>3. /\ ~Answered(d.pc) => queue' = rest /\ d' = d
      /\ Answered("r") /\ d.pc = "r" => Goes("c") /\ queue' = PutFirst(rest, "c", "abort")
      /\ Answered("c") /\ d.pc = "c" => Goes("v") /\ queue' = PutFirst(rest, "v", "abort")
      /\ Answered("v") /\ d.pc = "v" => Goes("closes") /\ queue' = rest
  BY <1>1 DEF AwaitWorker
<1>4. /\ Answered("r") <=> Head(queue.n) = "r_aborted"
      /\ Answered("c") <=> Head(queue.n) = "c_aborted"
      /\ Answered("v") <=> Head(queue.n) = "v_aborted"
  BY DEF Answered, Aborted
<1> HIDE DEF rest
<1>5. UNCHANGED <<player, r, v, c, dec, tex, audio, env>>
  BY DEF AwaitWorker
<1>6. queue.n' = Tail(queue.n) /\ queue' \in Queues
  BY <1>1, <1>2, <1>3, AbortPut
<1>7. /\ d' \in Decoding /\ d.reading' = d.reading /\ d.waiting' = d.waiting
      /\ Answered("r") /\ d.pc = "r" => d.pc' = "c"
      /\ Answered("c") /\ d.pc = "c" => d.pc' = "v"
      /\ Answered("v") /\ d.pc = "v" => d.pc' = "closes"
  BY <1>1, <1>3, GoesTo DEF TypeOK
<1>8. TypeOK'
  BY <1>5, <1>6, <1>7 DEF TypeOK
<1>9. ~Playing /\ ~Playing' /\ ~Stopped /\ ~Stopped' /\ player.state # "idle"
  BY <1>1, <1>3, <1>7 DEF Playing, Stopped, Loop, Protocol, DecodeInv
<1>10. \A E : Some(queue.n', E) => Some(queue.n, E)
  BY <1>1, <1>6, Typed, SomeInTail
<1>11. DecodeInv'
  BY <1>1, <1>3, <1>5, <1>7, <1>9 DEF DecodeInv
<1>12. CASE ~Answered(d.pc)
  <2>1. /\ d' = d /\ queue.r' = queue.r /\ queue.c' = queue.c /\ queue.v' = queue.v
    BY <1>2, <1>3, <1>12
  <2>2. ReadInv'
    <3>1. d.pc = "r" => Head(queue.n) \notin {"r_aborted"}
      BY <1>4, <1>12
    <3>2. d.pc = "r" /\ OneAnswer("r_aborted") => OneAnswer("r_aborted")'
      BY <1>1, <1>6, <3>1, Typed, SomeInTail, OnceInTail DEF OneAnswer
    <3>3. Before(queue.n, ReadAnswers, {"r_aborted"})
            => Before(queue.n', ReadAnswers, {"r_aborted"})
      BY <1>1, <1>6, Typed, BeforeInTail
    <3> QED BY <1>1, <1>5, <1>9, <1>10, <2>1, <3>2, <3>3
            DEF Protocol, ReadInv, ReadQuiet, OneReadInFlight
  <2>3. ConvertInv'
    <3>1. d.pc = "c" => Head(queue.n) \notin {"c_aborted"}
      BY <1>4, <1>12
    <3>2. d.pc = "c" /\ OneAnswer("c_aborted") => OneAnswer("c_aborted")'
      BY <1>1, <1>6, <3>1, Typed, SomeInTail, OnceInTail DEF OneAnswer
    <3> QED BY <1>1, <1>5, <1>9, <1>10, <2>1, <3>2 DEF Protocol, ConvertInv, ConvertQuiet
  <2>4. VideoInv'
    <3>1. d.pc = "v" => Head(queue.n) \notin {"v_aborted"}
      BY <1>4, <1>12
    <3>2. d.pc = "v" /\ OneAnswer("v_aborted") => OneAnswer("v_aborted")'
      BY <1>1, <1>6, <3>1, Typed, SomeInTail, OnceInTail DEF OneAnswer
    <3>3. Before(queue.n, {"copied"}, {"v_aborted"})
            => Before(queue.n', {"copied"}, {"v_aborted"})
      BY <1>1, <1>6, Typed, BeforeInTail
    <3> QED BY <1>1, <1>5, <1>9, <1>10, <2>1, <3>2, <3>3
            DEF Protocol, VideoInv, VideoQuiet, OnePacketInFlight
  <2> QED BY <1>8, <1>11, <2>2, <2>3, <2>4 DEF Protocol
<1>13. CASE d.pc = "r" /\ Answered("r")
  <2>1. /\ d.pc' = "c" /\ AbortIsNext(queue.c')
        /\ queue.r' = queue.r /\ queue.v' = queue.v
    BY <1>2, <1>3, <1>7, <1>13, AbortPut
  <2>2. Some(queue.n, {"r_aborted"})
    BY <1>1, <1>4, <1>13, Typed, SomeInTail
  <2>3. ReadQuiet /\ OneAnswer("r_aborted") /\ ~Some(queue.n, ReadAnswers)
    BY <1>1, <1>4, <1>13, <2>2, Typed, BeforeInTail DEF Protocol, ReadInv
  <2>4. ~Some(queue.n', ReadNotes)
    <3>1. ~Some(queue.n', {"r_aborted"}) /\ ~Some(queue.n', ReadAnswers)
      BY <1>1, <1>4, <1>6, <1>10, <1>13, <2>3, AnswerIsLast
    <3> QED BY <3>1 DEF Some, ReadNotes
  <2>5. ReadInv'
    BY <1>5, <1>9, <2>1, <2>3, <2>4 DEF ReadInv, ReadQuiet, OneReadInFlight
  <2>6. ConvertInv'
    BY <1>9, <1>10, <1>13, <2>1 DEF Protocol, ConvertInv
  <2>7. VideoInv'
    BY <1>9, <1>10, <1>13, <2>1 DEF Protocol, VideoInv, OnePacketInFlight
  <2> QED BY <1>8, <1>11, <2>5, <2>6, <2>7 DEF Protocol
<1>14. CASE d.pc = "c" /\ Answered("c")
  <2>1. /\ d.pc' = "v" /\ AbortIsNext(queue.v')
        /\ queue.r' = queue.r /\ queue.c' = queue.c
    BY <1>2, <1>3, <1>7, <1>14, AbortPut
  <2>2. Some(queue.n, {"c_aborted"})
    BY <1>1, <1>4, <1>14, Typed, SomeInTail
  <2>3. ConvertQuiet /\ ~Some(queue.n', {"c_aborted"})
    BY <1>1, <1>4, <1>6, <1>14, <2>2, AnswerIsLast DEF Protocol, ConvertInv
  <2>4. ReadInv'
    BY <1>5, <1>9, <1>10, <1>14, <2>1 DEF Protocol, ReadInv, ReadQuiet, OneReadInFlight
  <2>5. ConvertInv'
    BY <1>5, <1>9, <2>1, <2>3 DEF ConvertInv, ConvertQuiet
  <2>6. VideoInv'
    BY <1>9, <1>10, <1>14, <2>1 DEF Protocol, VideoInv, OnePacketInFlight
  <2> QED BY <1>8, <1>11, <2>4, <2>5, <2>6 DEF Protocol
<1>15. CASE d.pc = "v" /\ Answered("v")
  <2>1. /\ d.pc' = "closes"
        /\ queue.r' = queue.r /\ queue.c' = queue.c /\ queue.v' = queue.v
    BY <1>2, <1>3, <1>7, <1>15
  <2>2. Some(queue.n, {"v_aborted"})
    BY <1>1, <1>4, <1>15, Typed, SomeInTail
  <2>3. VideoQuiet /\ OneAnswer("v_aborted") /\ ~Some(queue.n, {"copied"})
    BY <1>1, <1>4, <1>15, <2>2, Typed, BeforeInTail DEF Protocol, VideoInv
  <2>4. ~Some(queue.n', VideoNotes)
    <3>1. ~Some(queue.n', {"v_aborted"}) /\ ~Some(queue.n', {"copied"})
      BY <1>1, <1>4, <1>6, <1>10, <1>15, <2>3, AnswerIsLast
    <3> QED BY <3>1 DEF Some, VideoNotes
  <2>5. ReadInv'
    BY <1>5, <1>9, <1>10, <1>15, <2>1 DEF Protocol, ReadInv, ReadQuiet, OneReadInFlight
  <2>6. ConvertInv'
    BY <1>5, <1>9, <1>10, <1>15, <2>1 DEF Protocol, ConvertInv, ConvertQuiet
  <2>7. VideoInv'
    BY <1>5, <1>9, <2>1, <2>3, <2>4 DEF VideoInv, VideoQuiet, OnePacketInFlight
  <2> QED BY <1>8, <1>11, <2>5, <2>6, <2>7 DEF Protocol
<1> QED BY <1>1, <1>12, <1>13, <1>14, <1>15

LEMMA CloseFileStep ==
  ASSUME TypeOK, Protocol, CloseFile PROVE TypeOK' /\ Protocol'
<1> DEFINE last == d.ending = "shutdown"
           next == IF last THEN "exited" ELSE "notify"
           run == env.run /\ ~last
<1>1. /\ d' = [d EXCEPT !.pc = next, !.ending = "none"] /\ next \in {"exited", "notify"}
      /\ env' = [env EXCEPT !.run = run] /\ run \in BOOLEAN
      /\ d.pc = "closes"
  BY DEF CloseFile
<1> HIDE DEF last, next, run
<1>2. d' \in Decoding /\ d.pc' \in {"exited", "notify"}
  BY <1>1 DEF TypeOK, Decoding, Loop
<1>3. player' \in PlayerData /\ player.state' = "idle"
  BY DEF CloseFile, TypeOK, PlayerData, States
<1>4. env' \in Environments
  BY <1>1, RunTyped DEF TypeOK
<1>5. dec' \in Decoders /\ audio' \in 0 .. MaxAudio
  BY PlayerAssumption DEF CloseFile, ClosedDecoder, Decoders
<1>6. TypeOK'
  BY <1>2, <1>3, <1>4, <1>5 DEF CloseFile, TypeOK
<1>7. ~Playing'
  BY <1>3 DEF Playing
<1>8. UNCHANGED <<queue, r, v, c, tex>>
  BY DEF CloseFile
<1>9. DecodeInv'
  BY <1>2 DEF DecodeInv
<1>10. ReadInv'
  BY <1>1, <1>2, <1>7, <1>8 DEF Protocol, ReadInv, ReadQuiet, OneReadInFlight
<1>11. ConvertInv'
  BY <1>1, <1>2, <1>7, <1>8 DEF Protocol, ConvertInv, ConvertQuiet
<1>12. VideoInv'
  BY <1>1, <1>2, <1>7, <1>8 DEF Protocol, VideoInv, VideoQuiet, OnePacketInFlight
<1> QED BY <1>6, <1>9, <1>10, <1>11, <1>12 DEF Protocol

-----------------------------------------------------------------------------
(* The decode thread: notifications and the parse section.                  *)

LEMMA AskedTyped ==
  ASSUME queue \in Queues
  PROVE  /\ Asked \in Queues /\ Asked.d = queue.d /\ Asked.v = queue.v
         /\ Asked.c = queue.c /\ Asked.n = queue.n
         /\ Asked.r = IF Asks THEN Append(queue.r, "read") ELSE queue.r
<1>1. "read" \in ReadRequests
  BY DEF ReadRequests
<1>2. CASE Asks
  BY <1>1, <1>2, ReadPut DEF Asked
<1>3. CASE ~Asks
  BY <1>3 DEF Asked
<1> QED BY <1>2, <1>3

(* D asks only with no request, read or answer under way.                   *)
LEMMA AsksOnce ==
  ASSUME TypeOK, ReadInv, Playing, KeepsPlace, SameNotes(ReadNotes), r' = r,
         d.reading' <=> d.reading \/ Asks, queue.r' = Asked.r
  PROVE  ReadInv'
<1>1. CASE ~Asks
  <2>1. (d.reading' <=> d.reading) /\ queue.r' = queue.r
    BY <1>1, AskedTyped DEF TypeOK
  <2>2. /\ Some(queue.n', ReadAnswers) <=> Some(queue.n, ReadAnswers)
        /\ Some(queue.n', {"r_aborted"}) <=> Some(queue.n, {"r_aborted"})
        /\ Once(queue.n, ReadAnswers) => Once(queue.n', ReadAnswers)
    BY DEF SameNotes, ReadNotes
  <2> QED BY <2>1, <2>2, PlaceKept DEF ReadInv, OneReadInFlight, Stopped, Playing, Loop
<1>2. CASE Asks
  <2>1. d.reading' /\ queue.r' = Append(queue.r, "read") /\ ~d.reading
    BY <1>2, AskedTyped DEF TypeOK, Asks
  <2>2. queue.r \in Seq(ReadRequests) /\ "read" \in ReadRequests
    BY Typed DEF TypeOK, ReadRequests
  <2>3. /\ ~Some(queue.r, {"read"}) /\ ~Some(queue.r, {"abort"}) /\ r # "reads"
        /\ ~Some(queue.n, ReadAnswers) /\ ~Some(queue.n, {"r_aborted"})
    BY <2>1 DEF ReadInv, OneReadInFlight
  <2>4. Once(queue.r, {"read"})
    BY DEF ReadInv, OneReadInFlight
  <2>5. \A E : Some(Append(queue.r, "read"), E) <=> Some(queue.r, E) \/ "read" \in E
    BY <2>2, SomeAppended
  <2>6. Once(Append(queue.r, "read"), {"read"})
    BY <2>2, <2>3, <2>4, OnceAppended
  <2>7. Some(queue.r', {"read"}) /\ ~Some(queue.r', {"abort"}) /\ Once(queue.r', {"read"})
    BY <2>1, <2>3, <2>5, <2>6
  <2>8. /\ ~Some(queue.n', ReadAnswers) /\ ~Some(queue.n', {"r_aborted"})
        /\ Once(queue.n', ReadAnswers)
    BY <2>3 DEF SameNotes, ReadNotes, Some, Once
  <2> QED BY <2>1, <2>3, <2>7, <2>8, PlaceKept
          DEF ReadInv, OneReadInFlight, Stopped, Playing, Loop
<1> QED BY <1>1, <1>2

LEMMA ParseTyped ==
  ASSUME TypeOK, AtParse, player.state \in Parsing,
         NEW waits, waits \in BOOLEAN,
         d' = [d EXCEPT !.pc = "command", !.reading = @ \/ Asks, !.waiting = waits]
  PROVE  /\ d' \in Decoding /\ d.pc' = "command"
         /\ (d.reading' <=> d.reading \/ Asks) /\ d.waiting' = waits
         /\ d.pc \in Loop /\ Playing
<1> DEFINE reads == d.reading \/ Asks
<1>1. d' = [d EXCEPT !.pc = "command", !.reading = reads, !.waiting = waits]
  BY DEF TypeOK, Decoding
<1>2. reads \in BOOLEAN /\ d \in Decoding
  BY DEF TypeOK
<1>3. d.pc \in Loop /\ Playing
  BY ParseInLoop DEF Playing, Parsing
<1> HIDE DEF reads
<1>4. d' \in Decoding /\ d.pc' = "command" /\ d.reading' = reads /\ d.waiting' = waits
  BY <1>1, <1>2 DEF Decoding, Loop
<1> QED BY <1>3, <1>4 DEF reads

LEMMA StallsStep ==
  ASSUME TypeOK, Protocol, Stalls PROVE TypeOK' /\ Protocol'
<1>1. /\ Asked \in Queues /\ Asked.d = queue.d /\ Asked.v = queue.v
      /\ Asked.c = queue.c /\ Asked.n = queue.n
  BY AskedTyped DEF TypeOK
<1>2. \/ queue' = Asked \/ queue' = Put(Asked, "n", "buffered")
      \/ queue' = Put(Asked, "d", "next")
  BY DEF Stalls
<1>3. "buffered" \in Notes \ (ReadNotes \cup VideoNotes \cup ConvertNotes)
      /\ "next" \in Requests
  BY DEF Notes, ReadNotes, ReadAnswers, VideoNotes, ConvertNotes, Requests, Stoppers
<1>4. /\ queue' \in Queues /\ queue.r' = Asked.r /\ queue.v' = queue.v /\ queue.c' = queue.c
      /\ queue.n' = queue.n \/ queue.n' = Append(queue.n, "buffered")
  <2>1. CASE queue' = Asked
    BY <1>1, <2>1
  <2>2. CASE queue' = Put(Asked, "n", "buffered")
    <3>1. "buffered" \in Notes
      BY <1>3
    <3> QED BY <1>1, <2>2, <3>1, NotePut
  <2>3. CASE queue' = Put(Asked, "d", "next")
    BY <1>1, <1>3, <2>3, RequestPut DEF SameButD
  <2> QED BY <1>2, <2>1, <2>2, <2>3
<1>5. d' = [d EXCEPT !.pc = "command", !.reading = @ \/ Asks, !.waiting = d.waiting]
  BY DEF Stalls, TypeOK, Decoding
<1>6. AtParse /\ player.state \in Parsing /\ UNCHANGED <<player, r, v, c, dec, tex, audio, env>>
  BY DEF Stalls
<1>7. d.waiting \in BOOLEAN
  BY DEF TypeOK, Decoding
<1>8. /\ d' \in Decoding /\ d.pc' = "command"
      /\ (d.reading' <=> d.reading \/ Asks) /\ d.waiting' = d.waiting
      /\ d.pc \in Loop /\ Playing
  BY <1>5, <1>6, <1>7, ParseTyped
<1>9. TypeOK'
  BY <1>4, <1>6, <1>8 DEF TypeOK
<1>10. SameNotes(ReadNotes) /\ SameNotes(VideoNotes) /\ SameNotes(ConvertNotes)
  BY <1>3, <1>4, NotesKept, NotesPut DEF TypeOK
<1>11. KeepsPlace
  BY <1>6, <1>8 DEF KeepsPlace, Loop
<1>12. DecodeInv' /\ ConvertInv' /\ VideoInv' /\ ReadInv'
  BY <1>4, <1>6, <1>8, <1>10, <1>11, DecodeFrame, ConvertFrame, VideoFrame, AsksOnce
     DEF Protocol, Loop
<1> QED BY <1>9, <1>12 DEF Protocol

LEMMA HandsOnAudioStep ==
  ASSUME TypeOK, Protocol, HandsOnAudio PROVE TypeOK' /\ Protocol'
<1>1. /\ queue' = Asked /\ UNCHANGED <<player, r, v, c, tex, env>>
      /\ CanHandOn /\ AtParse /\ player.state \in Parsing
  BY DEF HandsOnAudio, CanHandOn
<1>2. /\ queue' \in Queues /\ queue.r' = Asked.r /\ queue.v' = queue.v /\ queue.c' = queue.c
      /\ queue.n' = queue.n
  BY <1>1, AskedTyped DEF TypeOK
<1>3. d' = [d EXCEPT !.pc = "command", !.reading = @ \/ Asks, !.waiting = d.waiting]
  BY DEF HandsOnAudio, TypeOK, Decoding
<1>4. d.waiting \in BOOLEAN
  BY DEF TypeOK, Decoding
<1>5. /\ d' \in Decoding /\ d.pc' = "command"
      /\ (d.reading' <=> d.reading \/ Asks) /\ d.waiting' = d.waiting
      /\ d.pc \in Loop /\ Playing
  BY <1>1, <1>3, <1>4, ParseTyped
<1>6. dec' \in Decoders
  BY PlayerAssumption DEF HandsOnAudio, CanHandOn, TypeOK, Decoders
<1>7. audio' \in 0 .. MaxAudio
  BY PlayerAssumption DEF HandsOnAudio, CanHandOn, SpeakerFull, TypeOK
<1>8. TypeOK'
  BY <1>1, <1>2, <1>5, <1>6, <1>7 DEF TypeOK
<1>9. \A E : SameNotes(E)
  BY <1>2, NotesKept
<1>10. KeepsPlace
  BY <1>1, <1>5 DEF KeepsPlace, Loop
<1>11. DecodeInv' /\ ConvertInv' /\ VideoInv' /\ ReadInv'
  BY <1>1, <1>2, <1>5, <1>9, <1>10, DecodeFrame, ConvertFrame, VideoFrame, AsksOnce
     DEF Protocol, Loop
<1> QED BY <1>8, <1>11 DEF Protocol

LEMMA HandsOnVideoStep ==
  ASSUME TypeOK, Protocol, HandsOnVideo PROVE TypeOK' /\ Protocol'
<1>1. /\ queue' = Put(Asked, "v", "decode") /\ UNCHANGED <<r, v, c, tex, audio, env>>
      /\ CanHandOn /\ AtParse /\ player.state \in Parsing /\ ~d.waiting
  BY DEF HandsOnVideo, CanHandOn
<1>2. "decode" \in VideoRequests /\ queue.v \in Seq(VideoRequests)
  BY Typed DEF VideoRequests, TypeOK
<1>3. /\ queue' \in Queues /\ queue.r' = Asked.r /\ queue.v' = Append(queue.v, "decode")
      /\ queue.c' = queue.c /\ queue.n' = queue.n
  <2>1. /\ Asked \in Queues /\ Asked.v = queue.v /\ Asked.c = queue.c /\ Asked.n = queue.n
    BY AskedTyped DEF TypeOK
  <2> QED BY <1>1, <1>2, <2>1, VideoPut
<1>4. d' = [d EXCEPT !.pc = "command", !.reading = @ \/ Asks, !.waiting = TRUE]
  BY DEF HandsOnVideo
<1>5. /\ d' \in Decoding /\ d.pc' = "command"
      /\ (d.reading' <=> d.reading \/ Asks) /\ d.waiting'
      /\ d.pc \in Loop /\ Playing
  BY <1>1, <1>4, ParseTyped
<1>6. dec' \in Decoders
  <2> DEFINE left == dec.cached - 1
  <2>1. left \in 0 .. MaxCache - 1 /\ dec \in Decoders
    BY <1>1, PlayerAssumption DEF CanHandOn, TypeOK, Decoders
  <2>2. dec' = [dec EXCEPT !.cached = left, !.given = TRUE]
    BY DEF HandsOnVideo
  <2> HIDE DEF left
  <2> QED BY <2>1, <2>2 DEF Decoders
<1>7. player' \in PlayerData /\ player.state' # "idle" /\ player.state # "idle"
  BY <1>1 DEF HandsOnVideo, TypeOK, PlayerData, States, Parsing
<1>8. TypeOK'
  BY <1>1, <1>3, <1>5, <1>6, <1>7 DEF TypeOK
<1>9. \A E : SameNotes(E)
  BY <1>3, NotesKept
<1>10. KeepsPlace /\ Playing' /\ ~Stopped'
  BY <1>5, <1>7 DEF KeepsPlace, Playing, Stopped, Loop
<1>11. DecodeInv' /\ ConvertInv' /\ ReadInv'
  BY <1>1, <1>3, <1>5, <1>9, <1>10, DecodeFrame, ConvertFrame, AsksOnce DEF Protocol, Loop
<1>12. VideoInv'
  <2>1. /\ ~Some(queue.v, {"decode"}) /\ ~Some(queue.v, {"abort"})
        /\ Once(queue.v, {"decode"}) /\ Once(queue.n, {"copied"})
        /\ ~Some(queue.n, {"copied"}) /\ ~Some(queue.n, {"v_aborted"})
    BY <1>1, <1>5 DEF Protocol, VideoInv, OnePacketInFlight
  <2>2. \A E : Some(Append(queue.v, "decode"), E) <=> Some(queue.v, E) \/ "decode" \in E
    BY <1>2, SomeAppended
  <2>3. Once(Append(queue.v, "decode"), {"decode"})
    BY <1>2, <2>1, OnceAppended
  <2>4. /\ Some(queue.v', {"decode"}) /\ ~Some(queue.v', {"abort"})
        /\ Once(queue.v', {"decode"})
    BY <1>3, <2>1, <2>2, <2>3
  <2> QED BY <1>3, <1>5, <1>10, <2>1, <2>4 DEF VideoInv, OnePacketInFlight
<1> QED BY <1>8, <1>11, <1>12 DEF Protocol

LEMMA NotifiedTypes ==
  ASSUME TypeOK, Notified
  PROVE  /\ player' \in PlayerData /\ (player.state' = "idle" <=> player.state = "idle")
         /\ d' \in Decoding /\ d.pc' = "parse" /\ d.pc \in Loop
         /\ d.reading' <=> d.reading /\ Head(queue.n) \notin ReadAnswers
         /\ d.waiting' <=> d.waiting /\ Head(queue.n) # "copied"
         /\ UNCHANGED <<r, v, c, dec, tex, audio, env>>
<1>1. player \in PlayerData /\ d \in Decoding
  BY DEF TypeOK
<1>2. /\ FinishBuffering \in PlayerData
      /\ FinishBuffering.state = "idle" <=> player.state = "idle"
  BY <1>1 DEF FinishBuffering, PlayerData, States, Parsing
<1>3. /\ OutOfBuffer \in PlayerData
      /\ OutOfBuffer.state = "idle" <=> player.state = "idle"
  <2> DEFINE later == player.state = "playing"
  <2>1. \/ OutOfBuffer = player
        \/ /\ OutOfBuffer = [player EXCEPT !.state = "buffering", !.resume = later]
           /\ player.state \in {"playing", "pause"}
    BY <1>1 DEF OutOfBuffer, PlayerData
  <2>2. later \in BOOLEAN
    OBVIOUS
  <2> HIDE DEF later
  <2> QED BY <1>1, <2>1, <2>2 DEF PlayerData, States, Parsing
<1>4. player' \in {player, FinishBuffering, OutOfBuffer, [player EXCEPT !.eof = TRUE]}
      \/ (player.state = "prepare_seeking" /\ player' = [player EXCEPT !.state = "seeking"])
  BY DEF Notified
<1>5. player' \in PlayerData /\ (player.state' = "idle" <=> player.state = "idle")
  BY <1>1, <1>2, <1>3, <1>4 DEF PlayerData, States, Parsing
<1> DEFINE reads == d.reading /\ Head(queue.n) \notin {"read_done", "read_eof"}
           waits == d.waiting /\ Head(queue.n) # "copied"
<1>6. d' = [d EXCEPT !.pc = "parse", !.reading = reads, !.waiting = waits]
  BY <1>1 DEF Notified, Decoding
<1>7. reads \in BOOLEAN /\ waits \in BOOLEAN
  OBVIOUS
<1> HIDE DEF reads, waits
<1>8. d' \in Decoding /\ d.pc' = "parse" /\ d.reading' = reads /\ d.waiting' = waits
  BY <1>1, <1>6, <1>7 DEF Decoding, Loop
<1>9. d.pc \in Loop /\ UNCHANGED <<r, v, c, dec, tex, audio, env>>
  BY ParseInLoop DEF Notified
<1> QED BY <1>5, <1>8, <1>9 DEF reads, waits, ReadAnswers

LEMMA NotifiedQueues ==
  ASSUME TypeOK, Notified
  PROVE  /\ queue' \in Queues /\ queue.n # <<>> /\ queue.n' = Tail(queue.n)
         /\ queue.r' = queue.r /\ queue.c' = queue.c
         /\ \/ queue.v' = queue.v
            \/ /\ queue.v' = Append(queue.v, "clear")
               /\ Head(queue.n) = "sought" /\ player.state = "prepare_seeking"
<1> DEFINE rest == Take(queue, "n")
<1>1. queue.n # <<>> /\ queue \in Queues
  BY DEF Notified, AtNotification, TypeOK
<1>2. /\ rest \in Queues /\ rest.n = Tail(queue.n)
      /\ rest.d = queue.d /\ rest.r = queue.r /\ rest.v = queue.v /\ rest.c = queue.c
  BY <1>1, NoteTaken
<1>3. \/ queue' = rest
      \/ /\ queue' = Put(rest, "v", "clear")
         /\ Head(queue.n) = "sought" /\ player.state = "prepare_seeking"
  BY DEF Notified
<1>4. "clear" \in VideoRequests
  BY DEF VideoRequests
<1> HIDE DEF rest
<1>5. CASE queue' = rest
  BY <1>1, <1>2, <1>5
<1>6. CASE queue' # rest
  <2>1. queue' = Put(rest, "v", "clear")
    BY <1>3, <1>6
  <2>2. /\ queue' \in Queues /\ queue.v' = Append(queue.v, "clear") /\ queue.n' = Tail(queue.n)
        /\ queue.r' = queue.r /\ queue.c' = queue.c
    BY <1>2, <1>4, <2>1, VideoPut
  <2> QED BY <1>1, <1>3, <1>6, <2>2
<1> QED BY <1>5, <1>6

LEMMA NotifiedStep ==
  ASSUME TypeOK, Protocol, Notified PROVE TypeOK' /\ Protocol'
<1>1. /\ player' \in PlayerData /\ (player.state' = "idle" <=> player.state = "idle")
      /\ d' \in Decoding /\ d.pc' = "parse" /\ d.pc \in Loop
      /\ d.reading' <=> d.reading /\ Head(queue.n) \notin ReadAnswers
      /\ d.waiting' <=> d.waiting /\ Head(queue.n) # "copied"
      /\ UNCHANGED <<r, v, c, dec, tex, audio, env>>
  BY NotifiedTypes
<1>2. /\ queue' \in Queues /\ queue.n # <<>> /\ queue.n' = Tail(queue.n)
      /\ queue.r' = queue.r /\ queue.c' = queue.c
      /\ \/ queue.v' = queue.v
         \/ /\ queue.v' = Append(queue.v, "clear")
            /\ Head(queue.n) = "sought" /\ player.state = "prepare_seeking"
  BY NotifiedQueues
<1>3. TypeOK'
  BY <1>1, <1>2 DEF TypeOK
<1>4. KeepsPlace /\ (Stopped \/ Playing)
  BY <1>1 DEF KeepsPlace, Loop, Stopped, Playing
<1>5. \A E : Some(queue.n, E) <=> Head(queue.n) \in E \/ Some(queue.n', E)
  BY <1>2, Typed, SomeInTail DEF TypeOK
<1>6. \A E : Once(queue.n, E) => Once(queue.n', E) /\ (Head(queue.n) \in E => ~Some(queue.n', E))
  BY <1>2, Typed, OnceInTail DEF TypeOK
<1>7. queue \in Queues
  BY DEF TypeOK
<1>8. DecodeInv'
  BY <1>1, <1>4, DecodeFrame DEF Protocol, Loop
<1>9. ConvertInv'
  <2>1. Head(queue.n) \notin ConvertNotes
    BY <1>4, <1>5 DEF Protocol, ConvertInv, ConvertNotes
  <2> QED BY <1>1, <1>2, <1>4, <1>7, <2>1, NotesTaken, ConvertFrame DEF Protocol
<1>10. Head(queue.n) # "r_aborted" /\ Head(queue.n) # "v_aborted"
  <2>1. CASE Playing
    BY <1>5, <2>1 DEF Protocol, ReadInv, VideoInv
  <2>2. CASE Stopped
    BY <1>5, <2>2 DEF Protocol, ReadInv, VideoInv, ReadNotes, VideoNotes
  <2> QED BY <1>4, <2>1, <2>2
<1>11. ReadInv'
  <2>1. CASE Head(queue.n) \notin ReadAnswers
    <3>1. Head(queue.n) \notin ReadNotes
      BY <1>10, <2>1 DEF ReadNotes
    <3>2. SameNotes(ReadNotes) /\ r' = r /\ queue.r' = queue.r
      BY <1>1, <1>2, <1>7, <3>1, NotesTaken
    <3>3. d.reading' = d.reading
      BY <1>1, <2>1 DEF TypeOK, Decoding
    <3> QED BY <1>4, <3>2, <3>3, ReadFrame DEF Protocol
  <2>2. CASE Head(queue.n) \in ReadAnswers
    <3>1. Playing
      BY <1>4, <1>5, <2>2 DEF Protocol, ReadInv, ReadNotes
    <3>2. /\ Playing' /\ ~Stopped' /\ d.pc' = "parse"
      BY <1>1, <1>4, <3>1, PlaceKept DEF Stopped, Loop, Playing
    <3>3. Some(queue.n, ReadAnswers) /\ ~d.reading'
      BY <1>1, <1>5, <2>2
    <3>4. /\ ~Some(queue.r, {"read"}) /\ r # "reads" /\ Once(queue.r, {"read"})
          /\ Once(queue.n, ReadAnswers)
          /\ ~Some(queue.r, {"abort"}) /\ ~Some(queue.n, {"r_aborted"})
      BY <3>1, <3>3 DEF Protocol, ReadInv, OneReadInFlight
    <3>5. /\ ~Some(queue.n', ReadAnswers) /\ Once(queue.n', ReadAnswers)
          /\ ~Some(queue.n', {"r_aborted"})
      BY <1>5, <1>6, <2>2, <3>4
    <3> QED BY <1>1, <1>2, <3>2, <3>3, <3>4, <3>5 DEF ReadInv, OneReadInFlight
  <2> QED BY <2>1, <2>2
<1>12. VideoInv'
  <2>1. CASE Head(queue.n) = "copied"
    <3>1. Playing /\ queue.v' = queue.v
      BY <1>2, <1>4, <1>5, <2>1 DEF Protocol, VideoInv, VideoNotes
    <3>2. /\ Playing' /\ ~Stopped' /\ d.pc' = "parse"
      BY <1>1, <1>4, <3>1, PlaceKept DEF Stopped, Loop, Playing
    <3>3. Some(queue.n, {"copied"}) /\ ~d.waiting'
      BY <1>1, <1>5, <2>1
    <3>4. /\ ~Some(queue.v, {"decode"}) /\ Once(queue.v, {"decode"})
          /\ Once(queue.n, {"copied"})
          /\ ~Some(queue.v, {"abort"}) /\ ~Some(queue.n, {"v_aborted"})
      BY <3>1, <3>3 DEF Protocol, VideoInv, OnePacketInFlight
    <3>5. /\ ~Some(queue.n', {"copied"}) /\ Once(queue.n', {"copied"})
          /\ ~Some(queue.n', {"v_aborted"})
      BY <1>5, <1>6, <2>1, <3>4
    <3> QED BY <3>1, <3>2, <3>3, <3>4, <3>5 DEF VideoInv, OnePacketInFlight
  <2>2. CASE Head(queue.n) # "copied"
    <3>1. Head(queue.n) \notin VideoNotes
      BY <1>10, <2>2 DEF VideoNotes
    <3>2. SameNotes(VideoNotes) /\ v.pc' = v.pc
      BY <1>1, <1>2, <1>7, <3>1, NotesTaken
    <3>3. d.waiting' = d.waiting
      BY <1>1, <2>2 DEF TypeOK, Decoding
    <3>4. CASE queue.v' = queue.v
      BY <1>4, <3>2, <3>3, <3>4, VideoFrame DEF Protocol
    <3>5. CASE queue.v' = Append(queue.v, "clear") /\ player.state = "prepare_seeking"
      <4>1. Playing /\ Playing' /\ ~Stopped' /\ d.pc' = "parse"
        BY <1>1, <1>4, <3>5, PlaceKept DEF Stopped, Loop, Playing
      <4>2. queue.v \in Seq(VideoRequests) /\ "clear" \in VideoRequests
        BY <1>7, Typed DEF VideoRequests
      <4>3. /\ Some(queue.v', {"decode"}) <=> Some(queue.v, {"decode"})
            /\ Some(queue.v', {"abort"}) <=> Some(queue.v, {"abort"})
        BY <3>5, <4>2, SomeAppended
      <4>4. Once(queue.v, {"decode"}) => Once(queue.v', {"decode"})
        BY <3>5, <4>2, OnceAppended
      <4>5. /\ Some(queue.n', {"copied"}) <=> Some(queue.n, {"copied"})
            /\ Some(queue.n', {"v_aborted"}) <=> Some(queue.n, {"v_aborted"})
            /\ Once(queue.n, {"copied"}) => Once(queue.n', {"copied"})
        BY <3>2 DEF SameNotes, VideoNotes
      <4> QED BY <3>3, <4>1, <4>3, <4>4, <4>5 DEF Protocol, VideoInv, OnePacketInFlight
    <3> QED BY <1>2, <3>4, <3>5
  <2> QED BY <2>1, <2>2
<1> QED BY <1>3, <1>8, <1>9, <1>11, <1>12 DEF Protocol

-----------------------------------------------------------------------------
(* The read packet thread.                                                  *)

LEMMA PlaceSame ==
  ASSUME d' = d, player' = player
  PROVE  KeepsPlace /\ d.reading' = d.reading /\ d.waiting' = d.waiting
BY DEF KeepsPlace

(* A step of R concerns nobody but R and D.                                 *)
LEMMA ReadLeavesOthers ==
  ASSUME TypeOK, Protocol, UNCHANGED <<player, d, v, c>>,
         queue.v' = queue.v, queue.c' = queue.c,
         queue.n' = queue.n \/ \E e \in ReadNotes \cup {"sought"} : queue.n' = Append(queue.n, e)
  PROVE  DecodeInv' /\ ConvertInv' /\ VideoInv'
<1>1. SameNotes(ConvertNotes) /\ SameNotes(VideoNotes)
  <2>1. CASE queue.n' = queue.n
    BY <2>1, NotesKept
  <2>2. ASSUME NEW e \in ReadNotes \cup {"sought"}, queue.n' = Append(queue.n, e)
        PROVE  SameNotes(ConvertNotes) /\ SameNotes(VideoNotes)
    <3>1. e \in Notes \ ConvertNotes /\ e \in Notes \ VideoNotes
      BY DEF Notes, ReadNotes, ReadAnswers, ConvertNotes, VideoNotes
    <3> QED BY <2>2, <3>1, NotesPut DEF TypeOK
  <2> QED BY <2>1, <2>2
<1>2. v.pc' = v.pc /\ c' = c
  OBVIOUS
<1> QED BY <1>1, <1>2, PlaceSame, DecodeFrame, ConvertFrame, VideoFrame DEF Protocol

LEMMA ReadCommandStep ==
  ASSUME TypeOK, Protocol, ReadCommand PROVE TypeOK' /\ Protocol'
<1>1. /\ queue \in Queues /\ queue.r # <<>> /\ r = "idle"
      /\ queue.r \in Seq(ReadRequests) /\ queue.n \in Seq(Notes)
      /\ UNCHANGED <<player, d, v, c, dec, tex, audio, env>>
  BY Typed DEF ReadCommand, TypeOK
<1>2. \A E : Some(queue.r, E) <=> Head(queue.r) \in E \/ Some(Tail(queue.r), E)
  BY <1>1, SomeInTail
<1>3. KeepsPlace /\ (Playing' <=> Playing) /\ (Stopped' <=> Stopped) /\ d' = d
  BY <1>1, PlaceSame, PlaceKept
<1>4. ~Stopped /\ d.pc \notin {"c", "v", "closes"}
  BY <1>1 DEF Protocol, ReadInv, ReadQuiet
<1>5. d.pc = "r" => AbortIsNext(queue.r) /\ ~Some(queue.n, {"r_aborted"})
  BY <1>1 DEF Protocol, ReadInv, ReadQuiet
<1>6. CASE Head(queue.r) = "abort"
  <2> DEFINE rest == [queue EXCEPT !.r = <<>>]
  <2>1. /\ rest \in Queues /\ rest.r = <<>>
        /\ rest.v = queue.v /\ rest.c = queue.c /\ rest.n = queue.n
    BY <1>1, Emptied DEF Queues
  <2>2. queue' = Put(rest, "n", "r_aborted") /\ r' = r /\ "r_aborted" \in Notes
    BY <1>6 DEF ReadCommand, Notes
  <2> HIDE DEF rest
  <2>3. /\ queue' \in Queues /\ queue.n' = Append(queue.n, "r_aborted") /\ queue.r' = <<>>
        /\ queue.v' = queue.v /\ queue.c' = queue.c
    BY <2>1, <2>2, NotePut
  <2>4. TypeOK'
    BY <1>1, <2>2, <2>3 DEF TypeOK
  <2>5. DecodeInv' /\ ConvertInv' /\ VideoInv'
    BY <1>1, <2>3, ReadLeavesOthers DEF ReadNotes
  <2>6. ~Playing
    BY <1>2, <1>6 DEF Protocol, ReadInv
  <2>7. d.pc = "r" => OneAnswer("r_aborted")' /\ Before(queue.n', ReadAnswers, {"r_aborted"})
    <3>1. ASSUME ~Some(queue.n, {"r_aborted"})
          PROVE  /\ Once(queue.n, {"r_aborted"})
                 /\ Before(queue.n, ReadAnswers, {"r_aborted"})
      BY <3>1 DEF Some, Once, Before
    <3>2. "r_aborted" \notin ReadAnswers /\ "r_aborted" \in Notes
      BY DEF ReadAnswers, Notes
    <3>3. ASSUME ~Some(queue.n, {"r_aborted"})
          PROVE  /\ Some(queue.n', {"r_aborted"}) /\ Once(queue.n', {"r_aborted"})
                 /\ Before(queue.n', ReadAnswers, {"r_aborted"})
      <4>1. Some(queue.n', {"r_aborted"})
        BY <1>1, <2>3, <3>2, SomeAppended
      <4>2. Once(queue.n', {"r_aborted"})
        BY <1>1, <2>3, <3>1, <3>2, <3>3, OnceAppended
      <4>3. Before(queue.n', ReadAnswers, {"r_aborted"})
        BY <1>1, <2>3, <3>1, <3>2, <3>3, BeforeAppended
      <4> QED BY <4>1, <4>2, <4>3
    <3> QED BY <1>5, <3>3 DEF OneAnswer
  <2>8. ReadInv'
    BY <1>1, <1>3, <1>4, <2>2, <2>3, <2>6, <2>7 DEF ReadInv, ReadQuiet, OneReadInFlight
  <2> QED BY <2>4, <2>5, <2>8 DEF Protocol
<1>7. CASE Head(queue.r) # "abort"
  <2>1. queue' = Take(queue, "r")
        /\ r' = IF player.state = "idle" THEN r
                ELSE IF Head(queue.r) = "read" THEN "reads" ELSE "seeks"
    BY <1>7 DEF ReadCommand
  <2>2. /\ queue' \in Queues /\ queue.r' = Tail(queue.r) /\ Head(queue.r) \in ReadRequests
        /\ queue.n' = queue.n /\ queue.v' = queue.v /\ queue.c' = queue.c
    BY <1>1, <2>1, ReadTaken
  <2>3. TypeOK'
    BY <1>1, <2>1, <2>2 DEF TypeOK
  <2>4. DecodeInv' /\ ConvertInv' /\ VideoInv'
    BY <1>1, <2>2, ReadLeavesOthers
  <2>5. d.pc # "r"
    BY <1>5, <1>7 DEF AbortIsNext
  <2>6. CASE Playing
    <3>1. /\ ~Some(queue.r, {"abort"}) /\ ~Some(queue.n, {"r_aborted"})
          /\ Once(queue.r, {"read"}) /\ Once(queue.n, ReadAnswers)
          /\ d.reading <=> Some(queue.r, {"read"}) \/ Some(queue.n, ReadAnswers)
          /\ ~(Some(queue.r, {"read"}) /\ Some(queue.n, ReadAnswers))
      BY <1>1, <2>6 DEF Protocol, ReadInv, OneReadInFlight
    <3>2. r' = "reads" <=> Head(queue.r) = "read"
      BY <1>1, <2>1, <2>6 DEF Playing
    <3>3. /\ Once(queue.r', {"read"})
          /\ Head(queue.r) = "read" => ~Some(queue.r', {"read"})
      BY <1>1, <2>2, <3>1, OnceInTail
    <3>4. /\ ~Some(queue.r', {"abort"})
          /\ Some(queue.r, {"read"}) <=> Head(queue.r) = "read" \/ Some(queue.r', {"read"})
      BY <1>2, <2>2, <3>1
    <3>5. d.pc' \in Loop
      BY <1>3, <2>6 DEF Playing
    <3> QED BY <1>3, <1>4, <2>2, <2>3, <2>4, <2>6, <3>1, <3>2, <3>3, <3>4, <3>5
            DEF Protocol, ReadInv, OneReadInFlight, Loop
  <2>7. CASE ~Playing
    BY <1>3, <1>4, <2>3, <2>4, <2>5, <2>7 DEF Protocol, ReadInv, OneReadInFlight
  <2> QED BY <2>6, <2>7
<1> QED BY <1>6, <1>7

(* R answers what it was asked.                                             *)
LEMMA ReadAnswered ==
  ASSUME TypeOK, ReadInv, UNCHANGED <<player, d>>, r = "reads", r' = "idle",
         queue.r' = queue.r, NEW e \in ReadAnswers, queue.n' = Append(queue.n, e)
  PROVE  ReadInv'
<1>1. queue.n \in Seq(Notes) /\ e \in Notes /\ e \notin {"r_aborted"}
  BY Typed DEF TypeOK, Notes, ReadAnswers
<1>2. (Playing' <=> Playing) /\ (Stopped' <=> Stopped)
  BY PlaceSame, PlaceKept
<1>3. ~Stopped /\ d.pc \notin {"c", "v", "closes"}
  BY DEF ReadInv, ReadQuiet
<1>4. d.pc = "r" => AbortIsNext(queue.r) /\ ~Some(queue.n, {"r_aborted"})
  BY DEF ReadInv, ReadQuiet
<1>5. \A E : Some(queue.n', E) <=> Some(queue.n, E) \/ e \in E
  BY <1>1, SomeAppended
<1>6. CASE Playing
  <2>1. /\ ~Some(queue.r, {"abort"}) /\ ~Some(queue.n, {"r_aborted"})
        /\ Once(queue.r, {"read"}) /\ Once(queue.n, ReadAnswers) /\ d.reading
        /\ ~Some(queue.r, {"read"}) /\ ~Some(queue.n, ReadAnswers)
    BY <1>6 DEF ReadInv, OneReadInFlight
  <2>2. Once(queue.n', ReadAnswers)
    BY <1>1, <2>1, OnceAppended
  <2>3. Some(queue.n', ReadAnswers) /\ ~Some(queue.n', {"r_aborted"})
    BY <1>1, <1>5, <2>1
  <2>4. d.pc' \in Loop
    BY <1>6 DEF Playing
  <2> QED BY <1>2, <1>3, <1>6, <2>1, <2>2, <2>3, <2>4 DEF ReadInv, OneReadInFlight, Loop
<1>7. CASE ~Playing
  BY <1>1, <1>2, <1>3, <1>4, <1>5, <1>7 DEF ReadInv, OneReadInFlight
<1> QED BY <1>6, <1>7

LEMMA ReadsStep ==
  ASSUME TypeOK, Protocol, ReadPacket \/ ReadEnds PROVE TypeOK' /\ Protocol'
<1>1. queue \in Queues /\ "read_done" \in Notes /\ "read_eof" \in Notes
      /\ "read_done" \in ReadAnswers /\ "read_eof" \in ReadAnswers
  BY DEF TypeOK, Notes, ReadAnswers
<1>2. /\ UNCHANGED <<player, d, v, c, tex, audio>> /\ r = "reads"
      /\ \/ r' = r /\ queue' = queue
         \/ r' = "idle" /\ \E e \in ReadAnswers : queue' = Put(queue, "n", e)
  BY <1>1 DEF ReadPacket, ReadEnds
<1>3. dec' \in Decoders
  BY PlayerAssumption DEF TypeOK, ReadPacket, ReadEnds, CacheHasRoom, Decoders
<1>4. env' \in Environments
  BY Budget DEF TypeOK, ReadPacket, ReadEnds
<1>5. CASE r' = r /\ queue' = queue
  <2>1. TypeOK'
    BY <1>2, <1>3, <1>4, <1>5 DEF TypeOK
  <2>2. (\A E : SameNotes(E)) /\ queue.r' = queue.r /\ queue.v' = queue.v /\ queue.c' = queue.c
    BY <1>5, NotesKept
  <2>3. Protocol'
    BY <1>2, <1>5, <2>2, PlaceSame, ProtocolFrame
  <2> QED BY <2>1, <2>3
<1>6. ASSUME r' = "idle", NEW e \in ReadAnswers, queue' = Put(queue, "n", e)
      PROVE  TypeOK' /\ Protocol'
  <2>1. e \in Notes /\ e \in ReadNotes \cup {"sought"}
    BY DEF Notes, ReadNotes
  <2>2. /\ queue' \in Queues /\ queue.n' = Append(queue.n, e)
        /\ queue.r' = queue.r /\ queue.v' = queue.v /\ queue.c' = queue.c
    BY <1>1, <1>6, <2>1, NotePut
  <2>3. TypeOK'
    BY <1>2, <1>3, <1>4, <1>6, <2>2 DEF TypeOK
  <2>4. DecodeInv' /\ ConvertInv' /\ VideoInv'
    BY <1>2, <2>1, <2>2, ReadLeavesOthers
  <2>5. ReadInv'
    BY <1>2, <1>6, <2>2, ReadAnswered DEF Protocol
  <2> QED BY <2>3, <2>4, <2>5 DEF Protocol
<1> QED BY <1>2, <1>5, <1>6

LEMMA SeekPacketsStep ==
  ASSUME TypeOK, Protocol, SeekPackets PROVE TypeOK' /\ Protocol'
<1>1. queue \in Queues /\ "sought" \in Notes \ ReadNotes
  BY DEF TypeOK, Notes, ReadNotes, ReadAnswers
<1>2. /\ queue' \in Queues /\ queue.n' = Append(queue.n, "sought")
      /\ queue.r' = queue.r /\ queue.v' = queue.v /\ queue.c' = queue.c
  BY <1>1, NotePut DEF SeekPackets
<1>3. UNCHANGED <<player, d, v, c, tex, audio, env>> /\ r = "seeks" /\ r' = "idle"
  BY DEF SeekPackets
<1>4. dec' \in Decoders
  BY PlayerAssumption DEF SeekPackets, TypeOK, Decoders
<1>5. TypeOK'
  BY <1>2, <1>3, <1>4 DEF TypeOK
<1>6. DecodeInv' /\ ConvertInv' /\ VideoInv'
  BY <1>2, <1>3, ReadLeavesOthers
<1>7. ReadInv'
  <2>1. SameNotes(ReadNotes)
    BY <1>1, <1>2, NotesPut
  <2>2. /\ Some(queue.n', ReadAnswers) <=> Some(queue.n, ReadAnswers)
        /\ Some(queue.n', {"r_aborted"}) <=> Some(queue.n, {"r_aborted"})
        /\ Once(queue.n, ReadAnswers) => Once(queue.n', ReadAnswers)
    BY <2>1 DEF SameNotes, ReadNotes
  <2>3. ~Stopped /\ d.pc \notin {"c", "v", "closes"}
    BY <1>3 DEF Protocol, ReadInv, ReadQuiet
  <2>4. d.pc = "r" => AbortIsNext(queue.r) /\ ~Some(queue.n, {"r_aborted"})
    BY <1>3 DEF Protocol, ReadInv, ReadQuiet
  <2>5. (Playing' <=> Playing) /\ (Stopped' <=> Stopped)
    BY <1>3, PlaceSame, PlaceKept
  <2> QED BY <1>2, <1>3, <2>2, <2>3, <2>4, <2>5 DEF Protocol, ReadInv, OneReadInFlight
<1> QED BY <1>5, <1>6, <1>7 DEF Protocol

-----------------------------------------------------------------------------
(* The decode video thread.                                                 *)

(* Its steps concern R not at all, and C by a clear at most.                *)
LEMMA VideoLeavesOthers ==
  ASSUME TypeOK, Protocol, UNCHANGED <<player, d, r, c>>, queue.r' = queue.r,
         queue.c' = queue.c \/ queue.c' = Append(queue.c, "clear"),
         queue.n' = queue.n \/ \E e \in VideoNotes : queue.n' = Append(queue.n, e)
  PROVE  DecodeInv' /\ ReadInv' /\ ConvertInv'
<1>1. SameNotes(ConvertNotes) /\ SameNotes(ReadNotes)
  <2>1. CASE queue.n' = queue.n
    BY <2>1, NotesKept
  <2>2. ASSUME NEW e \in VideoNotes, queue.n' = Append(queue.n, e)
        PROVE  SameNotes(ConvertNotes) /\ SameNotes(ReadNotes)
    <3>1. e \in Notes \ ConvertNotes /\ e \in Notes \ ReadNotes
      BY DEF Notes, ReadNotes, ReadAnswers, ConvertNotes, VideoNotes
    <3> QED BY <2>2, <3>1, NotesPut DEF TypeOK
  <2> QED BY <2>1, <2>2
<1>2. c' = c /\ r' = r /\ KeepsPlace /\ d.reading' = d.reading /\ d.waiting' = d.waiting
  BY PlaceSame
<1>3. DecodeInv' /\ ReadInv'
  BY <1>1, <1>2, DecodeFrame, ReadFrame DEF Protocol
<1>4. CASE queue.c' = queue.c
  BY <1>1, <1>2, <1>3, <1>4, ConvertFrame DEF Protocol
<1>5. CASE queue.c' = Append(queue.c, "clear")
  <2>1. queue.c \in Seq(ConvertRequests) /\ "clear" \in ConvertRequests
    BY Typed DEF TypeOK, ConvertRequests
  <2>2. \A E : Some(queue.c', E) <=> Some(queue.c, E) \/ "clear" \in E
    BY <1>5, <2>1, SomeAppended
  <2>3. AbortIsNext(queue.c) => AbortIsNext(queue.c')
    BY <1>5, <2>1, HeadAppended DEF AbortIsNext
  <2>4. ConvertQuiet => ConvertQuiet'
    BY <1>2, <2>2 DEF ConvertQuiet
  <2>5. ~Some(queue.c, {"abort"}) => ~Some(queue.c', {"abort"})
    BY <2>2
  <2>6. /\ Some(queue.n', {"c_aborted"}) <=> Some(queue.n, {"c_aborted"})
        /\ OneAnswer("c_aborted") => OneAnswer("c_aborted")'
    BY <1>1 DEF SameNotes, ConvertNotes, OneAnswer
  <2>7. ConvertInv'
    BY <1>2, <2>3, <2>4, <2>5, <2>6, PlaceKept DEF Protocol, ConvertInv
  <2> QED BY <1>3, <2>7
<1> QED BY <1>4, <1>5

(* What V does to the session while it decodes or flushes.                  *)
LEMMA OutcomeTyped ==
  ASSUME dec \in Decoders
  PROVE  Outcome[2] \in Decoders /\ Refused \in Decoders /\ Poisoned \in Decoders
<1>1. Refused \in Decoders /\ Poisoned \in Decoders
  BY DEF Refused, Poisoned, Decoders
<1>2. CASE ~dec.packet \/ RawFull
  BY <1>1, <1>2 DEF Outcome
<1>3. CASE ~(~dec.packet \/ RawFull)
  <2> DEFINE more == dec.raw + 1
  <2>1. more \in 0 .. MaxRaw - 1
    BY <1>3, PlayerAssumption DEF RawFull, Decoders
  <2>2. Outcome[2] = [dec EXCEPT !.raw = more, !.packet = FALSE]
    BY <1>3 DEF Outcome
  <2> HIDE DEF more
  <2>3. Outcome[2] \in Decoders
    BY <2>1, <2>2 DEF Decoders
  <2> QED BY <1>1, <2>3
<1> QED BY <1>2, <1>3

LEMMA FatalTyped ==
  ASSUME TypeOK, Fatal
  PROVE  /\ v' \in [pc : {"idle", "decodes", "flushes"}, failed : BOOLEAN]
         /\ env' \in Environments /\ SameButD(queue', queue)
<1> DEFINE spent == IF Pays THEN Paid ELSE env
<1>1. spent \in Environments
  BY Budget DEF TypeOK
<1>2. /\ v' = [pc |-> "idle", failed |-> TRUE]
      /\ \/ env' = spent /\ queue' = queue
         \/ /\ env' = [spent EXCEPT !.stop = TRUE, !.return = TRUE]
            /\ queue' = PutFirst(queue, "d", "abort")
  BY DEF Fatal
<1> HIDE DEF spent
<1>3. env' \in Environments
  BY <1>1, <1>2 DEF Environments
<1>4. "abort" \in Requests /\ queue \in Queues
  BY DEF Requests, Stoppers, TypeOK
<1>5. SameButD(queue', queue)
  BY <1>2, <1>4, RequestPut DEF SameButD
<1> QED BY <1>2, <1>3, <1>5

(* V at work: nobody waits for it to be quiet.                              *)
LEMMA WorkingVideo ==
  ASSUME VideoInv, UNCHANGED <<player, d>>, v.pc # "idle",
         queue.v' = queue.v, queue.n' = queue.n
  PROVE  VideoInv'
<1>1. (Playing' <=> Playing) /\ (Stopped' <=> Stopped)
  BY PlaceSame, PlaceKept
<1>2. ~Stopped /\ d.pc # "closes"
  BY DEF VideoInv, VideoQuiet
<1>3. d.pc = "v" => AbortIsNext(queue.v) /\ ~Some(queue.n, {"v_aborted"})
  BY DEF VideoInv, VideoQuiet
<1> QED BY <1>1, <1>2, <1>3 DEF VideoInv, OnePacketInFlight

LEMMA DecodesStep ==
  ASSUME TypeOK, Protocol, Decode \/ DecodeNeedsMore \/ DecodeFails
  PROVE  TypeOK' /\ Protocol'
<1>1. UNCHANGED <<player, d, r, c, tex, audio>> /\ v.pc = "decodes"
  BY DEF Decode, DecodeNeedsMore, DecodeFails
<1>2. dec' \in {dec, Outcome[2], Refused, Poisoned}
  BY DEF Decode, DecodeNeedsMore, DecodeFails
<1>3. dec' \in Decoders
  BY <1>2, OutcomeTyped DEF TypeOK
<1>4. /\ v' \in [pc : {"idle", "decodes", "flushes"}, failed : BOOLEAN]
      /\ env' \in Environments /\ SameButD(queue', queue)
  <2>1. CASE Fatal
    BY <2>1, FatalTyped
  <2>2. CASE ~Fatal
    <3>1. v' = v \/ v' = [v EXCEPT !.pc = "idle"]
      BY <2>2 DEF Decode, DecodeNeedsMore, DecodeFails
    <3>2. queue' = queue /\ (env' = env \/ (Pays /\ env' = Paid))
      BY <2>2 DEF Decode, DecodeNeedsMore, DecodeFails
    <3> QED BY <3>1, <3>2, Budget DEF TypeOK, SameButD
  <2> QED BY <2>1, <2>2
<1>5. TypeOK'
  BY <1>1, <1>3, <1>4 DEF TypeOK, SameButD
<1>6. queue.r' = queue.r /\ queue.v' = queue.v /\ queue.c' = queue.c /\ queue.n' = queue.n
  BY <1>4 DEF SameButD
<1>7. DecodeInv' /\ ReadInv' /\ ConvertInv'
  BY <1>1, <1>6, VideoLeavesOthers
<1>8. VideoInv'
  BY <1>1, <1>6, WorkingVideo DEF Protocol
<1> QED BY <1>5, <1>7, <1>8 DEF Protocol

LEMMA FlushStep ==
  ASSUME TypeOK, Protocol, Flush PROVE TypeOK' /\ Protocol'
<1>1. /\ UNCHANGED <<player, d, r, c, tex, audio>> /\ v.pc = "flushes"
      /\ queue \in Queues /\ "clear" \in ConvertRequests
  BY DEF Flush, TypeOK, ConvertRequests
<1>2. PICK o \in IF dec.poisoned THEN {<<"OTHER", dec>>}
                 ELSE {Outcome} \cup (IF dec.packet /\ ~RawFull /\ Pays
                                       THEN {<<"OTHER", Refused>>, <<"OTHER", Poisoned>>} ELSE {}) :
           /\ dec' = o[2]
           /\ env' = IF o[1] = "OTHER" /\ ~dec.poisoned THEN Paid ELSE env
           /\ IF o[1] = "SUCCESS" THEN UNCHANGED <<v, queue>>
              ELSE v' = [v EXCEPT !.pc = "idle"] /\ queue' = Put(queue, "c", "clear")
  BY DEF Flush
<1>3. dec' \in Decoders
  <2>1. dec' \in {dec, Outcome[2], Refused, Poisoned}
    BY <1>2
  <2> QED BY <2>1, OutcomeTyped DEF TypeOK
<1>4. env' \in Environments
  <2>1. Outcome[1] # "OTHER"
    BY DEF Outcome
  <2>2. env' = env \/ (Pays /\ env' = Paid)
    BY <1>2, <2>1
  <2> QED BY <2>2, Budget DEF TypeOK
<1>5. /\ v' \in [pc : {"idle", "decodes", "flushes"}, failed : BOOLEAN]
      /\ queue' = queue \/ queue' = Put(queue, "c", "clear")
  BY <1>2 DEF TypeOK
<1>6. /\ queue' \in Queues /\ queue.r' = queue.r /\ queue.v' = queue.v /\ queue.n' = queue.n
      /\ queue.c' = queue.c \/ queue.c' = Append(queue.c, "clear")
  <2>1. CASE queue' = queue
    BY <1>1, <2>1
  <2>2. CASE queue' = Put(queue, "c", "clear")
    BY <1>1, <2>2, ConvertPut
  <2> QED BY <1>5, <2>1, <2>2
<1>7. TypeOK'
  BY <1>1, <1>3, <1>4, <1>5, <1>6 DEF TypeOK
<1>8. DecodeInv' /\ ReadInv' /\ ConvertInv'
  BY <1>1, <1>6, VideoLeavesOthers
<1>9. VideoInv'
  BY <1>1, <1>6, WorkingVideo DEF Protocol
<1> QED BY <1>7, <1>8, <1>9 DEF Protocol

(* V may take a request only when no abort is over.                         *)
LEMMA VideoMayTake ==
  ASSUME TypeOK, VideoInv, v.pc = "idle", queue.v # <<>>, UNCHANGED <<player, d>>
  PROVE  /\ ~Stopped /\ d.pc # "closes"
         /\ d.pc = "v" => AbortIsNext(queue.v) /\ ~Some(queue.n, {"v_aborted"})
         /\ \A E : Some(queue.v, E) <=> Head(queue.v) \in E \/ Some(Tail(queue.v), E)
         /\ (Playing' <=> Playing) /\ (Stopped' <=> Stopped)
<1>1. queue.v \in Seq(VideoRequests)
  BY Typed DEF TypeOK
<1> QED BY <1>1, SomeInTail, PlaceSame, PlaceKept DEF VideoInv, VideoQuiet

LEMMA BeginFlushStep ==
  ASSUME TypeOK, Protocol, BeginFlush PROVE TypeOK' /\ Protocol'
<1>1. /\ UNCHANGED <<player, d, r, c, dec, tex, audio, env>>
      /\ v.pc = "idle" /\ queue.v # <<>> /\ Head(queue.v) = "clear"
      /\ queue \in Queues /\ "clear" \in ConvertRequests
  BY DEF BeginFlush, TypeOK, ConvertRequests
<1> DEFINE rest == Take(queue, "v")
<1>2. /\ rest \in Queues /\ rest.v = Tail(queue.v)
      /\ rest.r = queue.r /\ rest.c = queue.c /\ rest.n = queue.n
  BY <1>1, VideoTaken
<1>3. \/ queue' = rest /\ (v' = [v EXCEPT !.pc = "idle"] \/ v' = [v EXCEPT !.pc = "flushes"])
      \/ queue' = Put(rest, "c", "clear") /\ v' = v
  BY DEF BeginFlush
<1> HIDE DEF rest
<1>4. /\ queue' \in Queues /\ queue.r' = queue.r /\ queue.v' = Tail(queue.v)
      /\ queue.n' = queue.n
      /\ queue.c' = queue.c \/ queue.c' = Append(queue.c, "clear")
  <2>1. CASE queue' = rest
    BY <1>2, <2>1
  <2>2. CASE queue' = Put(rest, "c", "clear")
    BY <1>1, <1>2, <2>2, ConvertPut
  <2> QED BY <1>3, <2>1, <2>2
<1>5. v' \in [pc : {"idle", "decodes", "flushes"}, failed : BOOLEAN]
  BY <1>3 DEF TypeOK
<1>6. TypeOK'
  BY <1>1, <1>4, <1>5 DEF TypeOK
<1>7. DecodeInv' /\ ReadInv' /\ ConvertInv'
  BY <1>1, <1>4, VideoLeavesOthers
<1>8. VideoInv'
  <2>1. /\ ~Stopped /\ d.pc # "closes" /\ d.pc # "v"
        /\ (Playing' <=> Playing) /\ (Stopped' <=> Stopped)
    BY <1>1, VideoMayTake DEF Protocol, AbortIsNext
  <2>2. \A E : Some(queue.v, E) <=> Head(queue.v) \in E \/ Some(queue.v', E)
    BY <1>1, <1>4, VideoMayTake DEF Protocol
  <2>3. Once(queue.v, {"decode"}) => Once(queue.v', {"decode"})
    BY <1>1, <1>4, Typed, OnceInTail
  <2>4. Some(queue.v', {"decode"}) <=> Some(queue.v, {"decode"})
    BY <1>1, <2>2
  <2>5. ~Some(queue.v, {"abort"}) => ~Some(queue.v', {"abort"})
    BY <2>2
  <2> QED BY <1>1, <1>4, <2>1, <2>3, <2>4, <2>5 DEF Protocol, VideoInv, OnePacketInFlight
<1> QED BY <1>6, <1>7, <1>8 DEF Protocol

LEMMA TakePacketStep ==
  ASSUME TypeOK, Protocol, TakePacket PROVE TypeOK' /\ Protocol'
<1>1. /\ UNCHANGED <<player, d, r, c, tex, audio, env>>
      /\ v.pc = "idle" /\ queue.v # <<>> /\ Head(queue.v) = "decode"
      /\ queue \in Queues /\ "copied" \in Notes
  BY DEF TakePacket, TypeOK, Notes
<1> DEFINE rest == Take(queue, "v")
           takes == ~v.failed /\ dec.given /\ ~dec.packet
           packet == dec.packet \/ takes
<1>2. /\ rest \in Queues /\ rest.v = Tail(queue.v)
      /\ rest.r = queue.r /\ rest.c = queue.c /\ rest.n = queue.n
  BY <1>1, VideoTaken
<1>3. IF player.state = "idle" THEN queue' = rest /\ v' = v /\ dec' = dec
      ELSE /\ queue' = Put(rest, "n", "copied")
           /\ dec' = [dec EXCEPT !.given = FALSE, !.packet = packet]
           /\ v' = [v EXCEPT !.pc = "decodes"] \/ v' = [v EXCEPT !.pc = "idle"]
  BY DEF TakePacket, TypeOK, Decoders
<1>4. packet \in BOOLEAN
  BY DEF TypeOK, Decoders
<1> HIDE DEF rest, packet
<1>5. /\ queue' \in Queues /\ queue.r' = queue.r /\ queue.v' = Tail(queue.v)
      /\ queue.c' = queue.c
      /\ IF player.state = "idle" THEN queue.n' = queue.n
         ELSE queue.n' = Append(queue.n, "copied")
  <2>1. CASE player.state = "idle"
    BY <1>2, <1>3, <2>1
  <2>2. CASE player.state # "idle"
    BY <1>1, <1>2, <1>3, <2>2, NotePut
  <2> QED BY <2>1, <2>2
<1>6. v' \in [pc : {"idle", "decodes", "flushes"}, failed : BOOLEAN]
  BY <1>3 DEF TypeOK
<1>7. dec' \in Decoders
  BY <1>3, <1>4 DEF TypeOK, Decoders
<1>8. TypeOK'
  BY <1>1, <1>5, <1>6, <1>7 DEF TypeOK
<1>9. DecodeInv' /\ ReadInv' /\ ConvertInv'
  BY <1>1, <1>5, VideoLeavesOthers DEF VideoNotes
<1>10. VideoInv'
  <2>1. /\ ~Stopped /\ d.pc # "closes" /\ d.pc # "v"
        /\ (Playing' <=> Playing) /\ (Stopped' <=> Stopped)
    BY <1>1, VideoMayTake DEF Protocol, AbortIsNext
  <2>2. \A E : Some(queue.v, E) <=> Head(queue.v) \in E \/ Some(queue.v', E)
    BY <1>1, <1>5, VideoMayTake DEF Protocol
  <2>3. ~Some(queue.v, {"abort"}) => ~Some(queue.v', {"abort"})
    BY <2>2
  <2>4. queue.n \in Seq(Notes)
    BY <1>1, Typed
  <2>5. ~Some(queue.n, {"v_aborted"}) => ~Some(queue.n', {"v_aborted"})
    <3>1. \A E : Some(Append(queue.n, "copied"), E) <=> Some(queue.n, E) \/ "copied" \in E
      BY <1>1, <2>4, SomeAppended
    <3> QED BY <1>5, <3>1
  <2>6. CASE Playing
    <3>1. /\ Once(queue.v, {"decode"}) /\ Once(queue.n, {"copied"}) /\ d.waiting
          /\ Some(queue.v, {"decode"}) /\ ~Some(queue.n, {"copied"})
      BY <1>1, <2>2, <2>6 DEF Protocol, VideoInv, OnePacketInFlight
    <3>2. /\ ~Some(queue.v', {"decode"}) /\ Once(queue.v', {"decode"})
      BY <1>1, <1>5, <3>1, Typed, OnceInTail
    <3>3. queue.n' = Append(queue.n, "copied")
      BY <1>5, <2>6 DEF Playing
    <3>4. Some(queue.n', {"copied"})
      BY <1>1, <2>4, <3>3, SomeAppended
    <3>5. Once(queue.n', {"copied"})
      BY <1>1, <2>4, <3>1, <3>3, OnceAppended
    <3> QED BY <1>1, <2>1, <2>3, <2>5, <2>6, <3>1, <3>2, <3>4, <3>5
            DEF Protocol, VideoInv, OnePacketInFlight
  <2>7. CASE ~Playing
    BY <1>1, <2>1, <2>3, <2>5, <2>7 DEF Protocol, VideoInv, OnePacketInFlight
  <2> QED BY <2>6, <2>7
<1> QED BY <1>8, <1>9, <1>10 DEF Protocol

LEMMA AbortVideoStep ==
  ASSUME TypeOK, Protocol, AbortVideo PROVE TypeOK' /\ Protocol'
<1>1. /\ UNCHANGED <<player, d, r, c, dec, tex, audio, env>>
      /\ v.pc = "idle" /\ queue.v # <<>> /\ Head(queue.v) = "abort"
      /\ queue \in Queues /\ "v_aborted" \in Notes /\ v' = [v EXCEPT !.failed = FALSE]
  BY DEF AbortVideo, TypeOK, Notes
<1> DEFINE rest == [queue EXCEPT !.v = <<>>]
<1>2. /\ rest \in Queues /\ rest.v = <<>>
      /\ rest.r = queue.r /\ rest.c = queue.c /\ rest.n = queue.n
  BY <1>1, Emptied DEF Queues
<1>3. queue' = Put(rest, "n", "v_aborted")
  BY DEF AbortVideo
<1> HIDE DEF rest
<1>4. /\ queue' \in Queues /\ queue.n' = Append(queue.n, "v_aborted") /\ queue.v' = <<>>
      /\ queue.r' = queue.r /\ queue.c' = queue.c
  BY <1>1, <1>2, <1>3, NotePut
<1>5. v' \in [pc : {"idle", "decodes", "flushes"}, failed : BOOLEAN] /\ v.pc' = "idle"
  BY <1>1 DEF TypeOK
<1>6. TypeOK'
  BY <1>1, <1>4, <1>5 DEF TypeOK
<1>7. DecodeInv' /\ ReadInv' /\ ConvertInv'
  BY <1>1, <1>4, VideoLeavesOthers DEF VideoNotes
<1>8. VideoInv'
  <2>1. /\ ~Stopped /\ d.pc # "closes" /\ (Playing' <=> Playing) /\ (Stopped' <=> Stopped)
        /\ d.pc = "v" => ~Some(queue.n, {"v_aborted"})
        /\ Some(queue.v, {"abort"})
    BY <1>1, VideoMayTake DEF Protocol
  <2>2. ~Playing /\ d.pc \notin {"r", "c"}
    BY <2>1 DEF Protocol, VideoInv
  <2>3. queue.n \in Seq(Notes)
    BY <1>1, Typed
  <2>4. ASSUME ~Some(queue.n, {"v_aborted"})
        PROVE  OneAnswer("v_aborted")' /\ Before(queue.n', {"copied"}, {"v_aborted"})
    <3>1. Once(queue.n, {"v_aborted"}) /\ Before(queue.n, {"copied"}, {"v_aborted"})
      BY <2>4 DEF Some, Once, Before
    <3>2. Some(queue.n', {"v_aborted"})
      BY <1>1, <1>4, <2>3, SomeAppended
    <3>3. Once(queue.n', {"v_aborted"})
      BY <1>1, <1>4, <2>3, <2>4, <3>1, OnceAppended
    <3>4. Before(queue.n', {"copied"}, {"v_aborted"})
      <4>1. "v_aborted" \notin {"copied"}
        OBVIOUS
      <4> QED BY <1>1, <1>4, <2>3, <3>1, <4>1, BeforeAppended
    <3> QED BY <3>2, <3>3, <3>4 DEF OneAnswer
  <2> QED BY <1>1, <1>4, <1>5, <2>1, <2>2, <2>4 DEF VideoInv, VideoQuiet, OnePacketInFlight
<1> QED BY <1>6, <1>7, <1>8 DEF Protocol

-----------------------------------------------------------------------------
(* The convert thread.                                                      *)

ConvertStates == [pc : {"idle", "clears", "stores"}, convert : BOOLEAN]

LEMMA ConvertLeavesOthers ==
  ASSUME TypeOK, Protocol, UNCHANGED <<player, d, r, v>>,
         queue.r' = queue.r, queue.v' = queue.v,
         queue.n' = queue.n
           \/ \E e \in {"c_aborted", "cleared", "out_of_buffer", "buffered"} :
                queue.n' = Append(queue.n, e)
  PROVE  DecodeInv' /\ ReadInv' /\ VideoInv'
<1>1. SameNotes(ReadNotes) /\ SameNotes(VideoNotes)
  <2>1. CASE queue.n' = queue.n
    BY <2>1, NotesKept
  <2>2. ASSUME NEW e \in {"c_aborted", "cleared", "out_of_buffer", "buffered"},
               queue.n' = Append(queue.n, e)
        PROVE  SameNotes(ReadNotes) /\ SameNotes(VideoNotes)
    <3>1. e \in Notes \ ReadNotes /\ e \in Notes \ VideoNotes
      BY DEF Notes, ReadNotes, ReadAnswers, VideoNotes
    <3> QED BY <2>2, <3>1, NotesPut DEF TypeOK
  <2> QED BY <2>1, <2>2
<1>2. v.pc' = v.pc /\ r' = r
  OBVIOUS
<1> QED BY <1>1, <1>2, PlaceSame, DecodeFrame, ReadFrame, VideoFrame DEF Protocol

(* C at work: a step that C takes only while nobody waits for it.           *)
LEMMA WorkingConvert ==
  ASSUME ConvertInv, UNCHANGED <<player, d>>, c.pc = "stores" \/ c.convert,
         queue.c' = queue.c, SameNotes(ConvertNotes)
  PROVE  ConvertInv'
<1>1. (Playing' <=> Playing) /\ (Stopped' <=> Stopped)
  BY PlaceSame, PlaceKept
<1>2. ~Stopped /\ d.pc \notin {"v", "closes"}
  BY DEF ConvertInv, ConvertQuiet
<1>3. d.pc = "c" => AbortIsNext(queue.c) /\ ~Some(queue.n, {"c_aborted"})
  BY DEF ConvertInv, ConvertQuiet
<1>4. Some(queue.n', {"c_aborted"}) <=> Some(queue.n, {"c_aborted"})
  BY DEF SameNotes, ConvertNotes
<1> QED BY <1>1, <1>2, <1>3, <1>4 DEF ConvertInv

LEMMA NotePutOnce ==
  ASSUME queue \in Queues, NEW e \in Notes, queue' = PutOnce(queue, "n", e)
  PROVE  /\ queue' \in Queues /\ (queue.n' = queue.n \/ queue.n' = Append(queue.n, e))
         /\ queue.r' = queue.r /\ queue.v' = queue.v /\ queue.c' = queue.c
<1>1. CASE queue' = queue
  BY <1>1
<1>2. CASE queue' = Put(queue, "n", e)
  BY <1>2, NotePut
<1> QED BY <1>1, <1>2 DEF PutOnce

LEMMA ConvertingStep ==
  ASSUME TypeOK, Protocol,
         SkipImage \/ ReportsOutOfBuffer \/ TakeImage \/ ReportsBuffered \/ StoreTexture
  PROVE  TypeOK' /\ Protocol'
<1>1. UNCHANGED <<player, d, r, v, audio>> /\ (c.pc = "stores" \/ c.convert)
  BY DEF SkipImage, ReportsOutOfBuffer, TakeImage, ReportsBuffered, StoreTexture, Converting
<1>2. dec' \in Decoders
  BY PlayerAssumption
     DEF SkipImage, ReportsOutOfBuffer, TakeImage, ReportsBuffered, StoreTexture, TypeOK, Decoders
<1>3. env' \in Environments
  BY Budget
     DEF SkipImage, ReportsOutOfBuffer, TakeImage, ReportsBuffered, StoreTexture, TypeOK, MayDrop
<1>4. c' \in ConvertStates
  BY DEF SkipImage, ReportsOutOfBuffer, TakeImage, ReportsBuffered, StoreTexture, TypeOK,
         ConvertStates
<1>5. tex' \in Textures
  <2>1. CASE tex' = tex
    BY <2>1 DEF TypeOK
  <2>2. CASE StoreTexture
    BY <2>2, NextTexture DEF StoreTexture, TypeOK, Textures
  <2> QED BY <2>1, <2>2 DEF SkipImage, ReportsOutOfBuffer, TakeImage, ReportsBuffered
<1>6. "out_of_buffer" \in Notes /\ "buffered" \in Notes /\ queue \in Queues
  BY DEF Notes, TypeOK
<1>7. \/ queue' = queue \/ queue' = PutOnce(queue, "n", "out_of_buffer")
      \/ queue' = PutOnce(queue, "n", "buffered")
  BY DEF SkipImage, ReportsOutOfBuffer, TakeImage, ReportsBuffered, StoreTexture
<1>8. /\ queue' \in Queues /\ queue.r' = queue.r /\ queue.v' = queue.v /\ queue.c' = queue.c
      /\ \/ queue.n' = queue.n \/ queue.n' = Append(queue.n, "out_of_buffer")
         \/ queue.n' = Append(queue.n, "buffered")
  <2>1. CASE queue' = queue
    BY <1>6, <2>1
  <2>2. CASE queue' = PutOnce(queue, "n", "out_of_buffer")
    BY <1>6, <2>2, NotePutOnce
  <2>3. CASE queue' = PutOnce(queue, "n", "buffered")
    BY <1>6, <2>3, NotePutOnce
  <2> QED BY <1>7, <2>1, <2>2, <2>3
<1>9. TypeOK'
  BY <1>1, <1>2, <1>3, <1>4, <1>5, <1>8 DEF TypeOK, ConvertStates
<1>10. DecodeInv' /\ ReadInv' /\ VideoInv'
  BY <1>1, <1>8, ConvertLeavesOthers
<1>11. SameNotes(ConvertNotes)
  <2>1. "out_of_buffer" \in Notes \ ConvertNotes /\ "buffered" \in Notes \ ConvertNotes
    BY <1>6 DEF ConvertNotes
  <2> QED BY <1>6, <1>8, <2>1, NotesKept, NotesPut
<1>12. ConvertInv'
  BY <1>1, <1>8, <1>11, WorkingConvert DEF Protocol
<1> QED BY <1>9, <1>10, <1>12 DEF Protocol

LEMMA ClearRawImagesStep ==
  ASSUME TypeOK, Protocol, ClearRawImages PROVE TypeOK' /\ Protocol'
<1>1. /\ UNCHANGED <<player, d, r, v, tex, audio, env>>
      /\ queue \in Queues /\ "cleared" \in Notes \ ConvertNotes
      /\ queue' = Put(queue, "n", "cleared")
  BY DEF ClearRawImages, TypeOK, Notes, ConvertNotes
<1>2. /\ queue' \in Queues /\ queue.n' = Append(queue.n, "cleared")
      /\ queue.r' = queue.r /\ queue.v' = queue.v /\ queue.c' = queue.c
  BY <1>1, NotePut
<1>3. dec' \in Decoders
  BY PlayerAssumption DEF ClearRawImages, TypeOK, Decoders
<1>4. c' \in ConvertStates /\ c.pc' = "idle" /\ c.convert' = c.convert /\ c.pc = "clears"
  BY DEF ClearRawImages, TypeOK, ConvertStates
<1>5. TypeOK'
  BY <1>1, <1>2, <1>3, <1>4 DEF TypeOK, ConvertStates
<1>6. DecodeInv' /\ ReadInv' /\ VideoInv'
  BY <1>1, <1>2, ConvertLeavesOthers
<1>7. ConvertInv'
  <2>1. SameNotes(ConvertNotes)
    BY <1>1, <1>2, NotesPut
  <2>2. /\ Some(queue.n', {"c_aborted"}) <=> Some(queue.n, {"c_aborted"})
        /\ Once(queue.n, {"c_aborted"}) => Once(queue.n', {"c_aborted"})
    BY <2>1 DEF SameNotes, ConvertNotes
  <2>3. (Playing' <=> Playing) /\ (Stopped' <=> Stopped)
    BY <1>1, PlaceSame, PlaceKept
  <2>4. ConvertQuiet => ConvertQuiet'
    BY <1>2, <1>4 DEF ConvertQuiet
  <2> QED BY <1>1, <1>2, <2>2, <2>3, <2>4 DEF Protocol, ConvertInv, OneAnswer
<1> QED BY <1>5, <1>6, <1>7 DEF Protocol

LEMMA ConvertCommandStep ==
  ASSUME TypeOK, Protocol, ConvertCommand PROVE TypeOK' /\ Protocol'
<1>1. /\ UNCHANGED <<player, d, r, v, dec, tex, audio, env>>
      /\ c.pc = "idle" /\ queue.c # <<>> /\ queue \in Queues
      /\ queue.c \in Seq(ConvertRequests) /\ queue.n \in Seq(Notes)
      /\ c \in ConvertStates
  BY Typed DEF ConvertCommand, TypeOK, ConvertStates
<1>2. \A E : Some(queue.c, E) <=> Head(queue.c) \in E \/ Some(Tail(queue.c), E)
  BY <1>1, SomeInTail
<1>3. (Playing' <=> Playing) /\ (Stopped' <=> Stopped)
  BY <1>1, PlaceSame, PlaceKept
<1>4. CASE Head(queue.c) = "abort"
  <2> DEFINE rest == [queue EXCEPT !.c = <<>>]
  <2>1. /\ rest \in Queues /\ rest.c = <<>>
        /\ rest.r = queue.r /\ rest.v = queue.v /\ rest.n = queue.n
    BY <1>1, Emptied DEF Queues
  <2>2. /\ queue' = Put(rest, "n", "c_aborted") /\ c' = [c EXCEPT !.convert = FALSE]
        /\ "c_aborted" \in Notes
    BY <1>4 DEF ConvertCommand, Notes
  <2> HIDE DEF rest
  <2>3. /\ queue' \in Queues /\ queue.n' = Append(queue.n, "c_aborted") /\ queue.c' = <<>>
        /\ queue.r' = queue.r /\ queue.v' = queue.v
    BY <2>1, <2>2, NotePut
  <2>4. c' \in ConvertStates /\ c.pc' = "idle" /\ ~c.convert'
    BY <1>1, <2>2 DEF ConvertStates
  <2>5. TypeOK'
    BY <1>1, <2>3, <2>4 DEF TypeOK, ConvertStates
  <2>6. DecodeInv' /\ ReadInv' /\ VideoInv'
    BY <1>1, <2>3, ConvertLeavesOthers
  <2>7. Some(queue.c, {"abort"}) /\ Some(queue.c, {"convert", "abort"})
    BY <1>2, <1>4
  <2>8. /\ ~Stopped /\ d.pc \notin {"v", "closes", "r"} /\ ~Playing
        /\ d.pc = "c" => ~Some(queue.n, {"c_aborted"})
    BY <2>7 DEF Protocol, ConvertInv, ConvertQuiet
  <2>9. ConvertQuiet'
    BY <2>3, <2>4, NothingInEmpty DEF ConvertQuiet
  <2>10. ASSUME ~Some(queue.n, {"c_aborted"}) PROVE OneAnswer("c_aborted")'
    <3>1. "c_aborted" \in Notes /\ queue.n \in Seq(Notes)
      BY <1>1, <2>2
    <3>2. Some(queue.n', {"c_aborted"})
      BY <2>3, <3>1, SomeAppended
    <3>3. Once(queue.n, {"c_aborted"})
      BY <2>10 DEF Some, Once
    <3>4. Once(queue.n', {"c_aborted"})
      BY <2>3, <2>10, <3>1, <3>3, OnceAppended
    <3> QED BY <3>2, <3>4 DEF OneAnswer
  <2>11. ConvertInv'
    BY <1>1, <1>3, <2>8, <2>9, <2>10 DEF ConvertInv
  <2> QED BY <2>5, <2>6, <2>11 DEF Protocol
<1>5. CASE Head(queue.c) # "abort"
  <2>1. /\ queue' = Take(queue, "c")
        /\ \/ c' = c
           \/ Head(queue.c) = "clear" /\ c' = [c EXCEPT !.pc = "clears"]
           \/ /\ Head(queue.c) # "clear" /\ player.state # "idle"
              /\ c' = [c EXCEPT !.convert = TRUE]
    BY <1>5 DEF ConvertCommand
  <2>2. /\ queue' \in Queues /\ queue.c' = Tail(queue.c) /\ Head(queue.c) \in ConvertRequests
        /\ queue.n' = queue.n /\ queue.r' = queue.r /\ queue.v' = queue.v
    BY <1>1, <2>1, ConvertTaken
  <2>3. c' \in ConvertStates
    BY <1>1, <2>1 DEF ConvertStates
  <2>4. TypeOK'
    BY <1>1, <2>2, <2>3 DEF TypeOK, ConvertStates
  <2>5. DecodeInv' /\ ReadInv' /\ VideoInv'
    BY <1>1, <2>2, ConvertLeavesOthers
  <2>6. ConvertQuiet => ConvertQuiet'
    <3>1. ~Some(queue.c, {"convert", "abort"})
            => Head(queue.c) = "clear" /\ ~Some(queue.c', {"convert", "abort"})
      BY <1>2, <2>2 DEF ConvertRequests
    <3>2. Head(queue.c) = "clear" /\ c.pc # "stores" /\ ~c.convert
            => c.pc' # "stores" /\ ~c.convert'
      BY <1>1, <2>1 DEF ConvertStates
    <3> QED BY <3>1, <3>2 DEF ConvertQuiet
  <2>7. ~AbortIsNext(queue.c)
    BY <1>5 DEF AbortIsNext
  <2>8. ~Some(queue.c, {"abort"}) => ~Some(queue.c', {"abort"})
    BY <1>2, <2>2
  <2>9. ConvertInv'
    BY <1>1, <1>3, <2>2, <2>6, <2>7, <2>8 DEF Protocol, ConvertInv, OneAnswer
  <2> QED BY <2>4, <2>5, <2>9 DEF Protocol
<1> QED BY <1>4, <1>5

-----------------------------------------------------------------------------
(* The texture ring.                                                        *)

LEMMA PendingTextures ==
  ASSUME NEW i \in 0 .. VIDEO_BUFFERS - 1, NEW j \in 0 .. VIDEO_BUFFERS - 1
  PROVE  (i + VIDEO_BUFFERS - j) % VIDEO_BUFFERS
           = IF i >= j THEN i - j ELSE i + VIDEO_BUFFERS - j
<1>1. VIDEO_BUFFERS \in Nat \ {0} /\ i \in Nat /\ j \in Nat
      /\ i < VIDEO_BUFFERS /\ j < VIDEO_BUFFERS
  BY PlayerAssumption
<1>2. CASE i >= j
  <2> DEFINE n == i - j
  <2>1. n \in Nat /\ n < VIDEO_BUFFERS /\ i + VIDEO_BUFFERS - j = n + VIDEO_BUFFERS
    BY <1>1, <1>2
  <2> HIDE DEF n
  <2>2. (n + VIDEO_BUFFERS) % VIDEO_BUFFERS = n
    BY <1>1, <2>1
  <2> QED BY <1>2, <2>1, <2>2 DEF n
<1>3. CASE i < j
  <2> DEFINE n == i + VIDEO_BUFFERS - j
  <2>1. n \in Nat /\ n < VIDEO_BUFFERS
    BY <1>1, <1>3
  <2> HIDE DEF n
  <2>2. n % VIDEO_BUFFERS = n
    BY <1>1, <2>1
  <2> QED BY <1>1, <1>3, <2>2 DEF n
<1> QED BY <1>1, <1>2, <1>3

(* One texture drawn is one fewer to draw.                                  *)
LEMMA OneFewer ==
  ASSUME NEW i \in 0 .. VIDEO_BUFFERS - 1, NEW j \in 0 .. VIDEO_BUFFERS - 1,
         NEW k \in 0 .. VIDEO_BUFFERS - 1,
         i # j, k = (j + 1) % VIDEO_BUFFERS
  PROVE  (i + VIDEO_BUFFERS - k) % VIDEO_BUFFERS
           = ((i + VIDEO_BUFFERS - j) % VIDEO_BUFFERS) - 1
<1>1. k = IF j + 1 = VIDEO_BUFFERS THEN 0 ELSE j + 1
  BY NextTexture
<1>2. /\ (i + VIDEO_BUFFERS - j) % VIDEO_BUFFERS
           = IF i >= j THEN i - j ELSE i + VIDEO_BUFFERS - j
      /\ (i + VIDEO_BUFFERS - k) % VIDEO_BUFFERS
           = IF i >= k THEN i - k ELSE i + VIDEO_BUFFERS - k
  BY PendingTextures
<1>3. VIDEO_BUFFERS \in Nat /\ i \in Nat /\ j \in Nat /\ k \in Nat
      /\ i < VIDEO_BUFFERS /\ j < VIDEO_BUFFERS
  BY PlayerAssumption
<1> DEFINE m == (i + VIDEO_BUFFERS - j) % VIDEO_BUFFERS
           n == (i + VIDEO_BUFFERS - k) % VIDEO_BUFFERS
<1>4. /\ m = IF i >= j THEN i - j ELSE i + VIDEO_BUFFERS - j
      /\ n = IF i >= k THEN i - k ELSE i + VIDEO_BUFFERS - k
  BY <1>2
<1> HIDE DEF m, n
<1>5. n = m - 1
  BY <1>1, <1>3, <1>4
<1> QED BY <1>5 DEF m, n

(* The screen makes room.                                                   *)
LEMMA DrawMakesRoom ==
  ASSUME TypeOK, ~RingFull, NEW early, Draw(early) PROVE ~RingFull'
<1>1. /\ tex.store \in 0 .. VIDEO_BUFFERS - 1 /\ tex.draw \in 0 .. VIDEO_BUFFERS - 1
      /\ tex.store' = tex.store /\ tex.draw' = (tex.draw + 1) % VIDEO_BUFFERS
      /\ tex.store # tex.draw
  BY DEF TypeOK, Textures, Draw
<1>2. tex.draw' \in 0 .. VIDEO_BUFFERS - 1
  BY <1>1, NextTexture
<1>3. Pending' = Pending - 1
  <2> DEFINE i == tex.store
             j == tex.draw
             k == tex.draw'
  <2>1. (i + VIDEO_BUFFERS - k) % VIDEO_BUFFERS
          = ((i + VIDEO_BUFFERS - j) % VIDEO_BUFFERS) - 1
    <3> HIDE DEF i, j, k
    <3>1. /\ i \in 0 .. VIDEO_BUFFERS - 1 /\ j \in 0 .. VIDEO_BUFFERS - 1
          /\ k \in 0 .. VIDEO_BUFFERS - 1 /\ i # j /\ k = (j + 1) % VIDEO_BUFFERS
      BY <1>1, <1>2 DEF i, j, k
    <3> QED BY <3>1, OneFewer
  <2> QED BY <1>1, <2>1 DEF Pending
<1>4. Pending \in Int
  BY <1>1, PlayerAssumption DEF Pending
<1>5. ~(Pending + 1 >= VIDEO_BUFFERS) /\ (RingFull' <=> Pending' + 1 >= VIDEO_BUFFERS)
  BY DEF RingFull
<1>6. VIDEO_BUFFERS \in Nat
  BY PlayerAssumption
<1> QED BY <1>3, <1>4, <1>5, <1>6

LEMMA TextureStep ==
  ASSUME TypeOK, ConvertInv, TextureInv, [Next]_vars PROVE TextureInv'
<1>1. ASSUME c' = c, tex' = tex PROVE TextureInv'
  BY <1>1 DEF TextureInv, RingFull, Pending
<1>2. ASSUME c.pc' # "stores" PROVE TextureInv'
  BY <1>2 DEF TextureInv
<1>3. ASSUME NEW early, Draw(early) PROVE TextureInv'
  <2>1. c' = c
    BY <1>3 DEF Draw
  <2> QED BY <1>3, <2>1, DrawMakesRoom DEF TextureInv
<1>4. ASSUME BeginPlay PROVE c.pc' # "stores"
  <2>1. Stopped /\ c' = c
    BY <1>4, CommandTaken DEF BeginPlay, Stopped
  <2> QED BY <2>1 DEF ConvertInv, ConvertQuiet
<1>5. ASSUME TakeImage PROVE TextureInv'
  BY <1>5 DEF TakeImage, TextureInv, RingFull, Pending
<1>6. ASSUME ClearRawImages \/ StoreTexture PROVE c.pc' # "stores"
  BY <1>6 DEF ClearRawImages, StoreTexture, TypeOK
<1>7. ASSUME ConvertCommand PROVE c.pc' # "stores"
  BY <1>7 DEF ConvertCommand, TypeOK
<1>8. ASSUME Play \/ AskReturn \/ Toggle \/ AskSeek \/ Shutdown \/ KeepAborting \/ Speaker
      PROVE c' = c /\ tex' = tex
  BY <1>8 DEF Play, AskReturn, Toggle, AskSeek, Shutdown, KeepAborting, Speaker
<1>9. ASSUME \/ OpenFails \/ Opened \/ Pause \/ Resume \/ Seek \/ StopIdle \/ BeginStop
             \/ AwaitWorker \/ AbortTimesOut \/ CloseFile
      PROVE c' = c /\ tex' = tex
  BY <1>9 DEF OpenFails, Opened, Pause, Resume, Seek, StopIdle, BeginStop, AwaitWorker,
              AbortTimesOut, CloseFile
<1>10. ASSUME Notified \/ Stalls \/ HandsOnVideo \/ HandsOnAudio \/ NothingToParse
       PROVE c' = c /\ tex' = tex
  BY <1>10 DEF Notified, Stalls, HandsOnVideo, HandsOnAudio, NothingToParse
<1>11. ASSUME ReadCommand \/ ReadPacket \/ ReadEnds \/ SeekPackets PROVE c' = c /\ tex' = tex
  BY <1>11 DEF ReadCommand, ReadPacket, ReadEnds, SeekPackets
<1>12. ASSUME \/ TakePacket \/ Decode \/ DecodeNeedsMore \/ DecodeFails \/ BeginFlush \/ Flush
              \/ AbortVideo
       PROVE c' = c /\ tex' = tex
  BY <1>12 DEF TakePacket, Decode, DecodeNeedsMore, DecodeFails, BeginFlush, Flush, AbortVideo
<1>13. ASSUME SkipImage \/ ReportsOutOfBuffer \/ ReportsBuffered PROVE c' = c /\ tex' = tex
  BY <1>13 DEF SkipImage, ReportsOutOfBuffer, ReportsBuffered
<1>14. ASSUME UNCHANGED vars PROVE c' = c /\ tex' = tex
  BY <1>14 DEF vars
<1> QED BY <1>1, <1>2, <1>3, <1>4, <1>5, <1>6, <1>7, <1>8, <1>9, <1>10, <1>11, <1>12, <1>13, <1>14
        DEF Next, Environment, DecodeThread, ReadThread, VideoThread, ConvertThread

-----------------------------------------------------------------------------
(* The theorems.                                                            *)

LEMMA InitPipeline == Init => PipelineInv
<1> SUFFICES ASSUME Init PROVE PipelineInv
  OBVIOUS
<1>1. \A E : ~Some(<<>>, E) /\ Once(<<>>, E)
  BY NothingInEmpty
<1>2. /\ queue.r = <<>> /\ queue.v = <<>> /\ queue.c = <<>> /\ queue.n = <<>>
      /\ r = "idle" /\ v.pc = "idle" /\ c.pc = "idle" /\ ~c.convert
      /\ player.state = "idle" /\ d.pc = "command"
  BY DEF Init
<1>3. queue \in Queues
  <2> DEFINE nothing == <<>>
  <2>1. \A S : nothing \in Seq(S)
    OBVIOUS
  <2>2. queue = [d |-> nothing, r |-> nothing, v |-> nothing, c |-> nothing, n |-> nothing]
    BY DEF Init
  <2> HIDE DEF nothing
  <2> QED BY <2>1, <2>2 DEF Queues
<1>4. TypeOK
  BY <1>3, PlayerAssumption
     DEF TypeOK, Init, PlayerData, States, Parsing, Decoding, Loop, Decoders, ClosedDecoder,
         Textures, NoTexture, Environments
<1>5. Stopped /\ ~Playing
  BY <1>2 DEF Stopped, Playing, Loop
<1>6. DecodeInv /\ TextureInv
  BY <1>2 DEF DecodeInv, TextureInv
<1>7. ReadInv /\ ConvertInv /\ VideoInv
  BY <1>1, <1>2, <1>5
     DEF ReadInv, ReadQuiet, OneReadInFlight, ConvertInv, ConvertQuiet, VideoInv, VideoQuiet,
         OnePacketInFlight
<1> QED BY <1>4, <1>6, <1>7 DEF PipelineInv

LEMMA PipelineStep == PipelineInv /\ [Next]_vars => PipelineInv'
<1> SUFFICES ASSUME PipelineInv, [Next]_vars PROVE PipelineInv'
  OBVIOUS
<1>1. TypeOK /\ Protocol /\ TextureInv
  BY DEF PipelineInv, Protocol
<1>2. TextureInv'
  BY <1>1, TextureStep DEF Protocol
<1>3. TypeOK' /\ Protocol'
  <2>1. CASE Play \/ AskReturn \/ KeepAborting \/ Toggle \/ AskSeek \/ Shutdown
    BY <1>1, <2>1, UserAsks, AskingStep
  <2>2. CASE (\E early \in BOOLEAN : Draw(early)) \/ Speaker
    BY <1>1, <2>2, ScreenAsks, AskingStep
  <2>3. CASE Pause \/ Resume \/ NothingToParse
    BY <1>1, <2>3, Turns, TurningStep
  <2>4. CASE Seek
    BY <1>1, <2>4, Turns, TurningStep, SeekStep
  <2>5. CASE StopIdle \/ AbortTimesOut
    BY <1>1, <2>5, Turns, TurningStep, LeaveStep
  <2>6. CASE BeginPlay \/ Opened \/ OpenFails \/ BeginStop \/ AwaitWorker \/ CloseFile
    BY <1>1, <2>6, BeginPlayStep, OpenedStep, OpenFailsStep, BeginStopStep, AwaitWorkerStep,
       CloseFileStep
  <2>7. CASE Notified \/ Stalls \/ HandsOnVideo \/ HandsOnAudio
    BY <1>1, <2>7, NotifiedStep, StallsStep, HandsOnVideoStep, HandsOnAudioStep
  <2>8. CASE ReadCommand \/ ReadPacket \/ ReadEnds \/ SeekPackets
    BY <1>1, <2>8, ReadCommandStep, ReadsStep, SeekPacketsStep
  <2>9. CASE TakePacket \/ Decode \/ DecodeNeedsMore \/ DecodeFails \/ BeginFlush \/ Flush
             \/ AbortVideo
    BY <1>1, <2>9, TakePacketStep, DecodesStep, BeginFlushStep, FlushStep, AbortVideoStep
  <2>10. CASE ConvertCommand \/ ClearRawImages \/ SkipImage \/ ReportsOutOfBuffer \/ TakeImage
              \/ StoreTexture \/ ReportsBuffered
    BY <1>1, <2>10, ConvertCommandStep, ClearRawImagesStep, ConvertingStep
  <2>11. CASE UNCHANGED vars
    <3>1. /\ UNCHANGED <<player, queue, d, r, v, c, dec, tex, audio, env>>
      BY <2>11 DEF vars
    <3>2. TypeOK'
      BY <1>1, <3>1 DEF TypeOK
    <3>3. \A E : SameNotes(E)
      BY <3>1, NotesKept
    <3> QED BY <1>1, <3>1, <3>2, <3>3, PlaceSame, ProtocolFrame
  <2> QED BY <2>1, <2>2, <2>3, <2>4, <2>5, <2>6, <2>7, <2>8, <2>9, <2>10, <2>11
          DEF Next, Environment, DecodeThread, ReadThread, VideoThread, ConvertThread
<1> QED BY <1>2, <1>3 DEF PipelineInv, Protocol

(* The inductive invariant: wherever D is, what each worker may still do    *)
(* and which of its messages are still on their way.                        *)
THEOREM PipelineInvariant == Spec => []PipelineInv
  BY InitPipeline, PipelineStep, PTL DEF Spec

(* The threads keep the types of what they share, every queue holds what    *)
(* its thread understands, and the packet cache, the raw images, the        *)
(* textures and the speaker stay within their sizes.                        *)
THEOREM PlayerTypes == Spec => []TypeOK
<1>1. PipelineInv => TypeOK
  BY DEF PipelineInv
<1> QED BY <1>1, PipelineInvariant, PTL

(* When D releases what a playback used, R, V and C are out of it and have  *)
(* nothing left to do that would lead them back.                            *)
THEOREM TeardownsAreQuiet == Spec => []QuietTeardown
<1>1. PipelineInv => QuietTeardown
  BY DEF PipelineInv, QuietTeardown, ReadInv, ReadQuiet, VideoInv, VideoQuiet, ConvertInv,
         ConvertQuiet
<1> QED BY <1>1, PipelineInvariant, PTL

(* D waits for V if and only if one packet is with V or one answer is on    *)
(* its way, whatever was aborted before.                                    *)
THEOREM PacketsGoOneByOne == Spec => []OnePacketInFlight
<1>1. PipelineInv => OnePacketInFlight
  BY DEF PipelineInv, VideoInv
<1> QED BY <1>1, PipelineInvariant, PTL

(* D takes R to be reading if and only if R was asked, reads or has just    *)
(* answered, and it never is two of these.                                  *)
THEOREM ReadsGoOneByOne == Spec => []OneReadInFlight
<1>1. PipelineInv => OneReadInFlight
  BY DEF PipelineInv, ReadInv
<1> QED BY <1>1, PipelineInvariant, PTL

(* C never writes the texture on the screen, however many there are.        *)
THEOREM PictureOnScreenIsKept == Spec => []DisplayedKept
<1>1. PipelineInv => DisplayedKept
  <2> SUFFICES ASSUME PipelineInv, c.pc = "stores" PROVE tex.store # Displayed
    BY DEF DisplayedKept
  <2>1. /\ tex.store \in 0 .. VIDEO_BUFFERS - 1 /\ tex.draw \in 0 .. VIDEO_BUFFERS - 1
        /\ ~RingFull
    BY DEF PipelineInv, TypeOK, Textures, TextureInv
  <2>2. Pending = IF tex.store >= tex.draw THEN tex.store - tex.draw
                  ELSE tex.store + VIDEO_BUFFERS - tex.draw
    BY <2>1, PendingTextures DEF Pending
  <2>3. Displayed = IF tex.draw >= 1 THEN tex.draw - 1 ELSE tex.draw + VIDEO_BUFFERS - 1
    <3>1. 1 \in 0 .. VIDEO_BUFFERS - 1
      BY PlayerAssumption
    <3> QED BY <2>1, <3>1, PendingTextures DEF Displayed
  <2> QED BY <2>1, <2>2, <2>3, PlayerAssumption DEF RingFull
<1> QED BY <1>1, PipelineInvariant, PTL
=============================================================================
