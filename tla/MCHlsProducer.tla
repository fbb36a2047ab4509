----------------------------- MODULE MCHlsProducer -----------------------------
(* Instances of HlsProducer: a few sequences, and the ways their playlists    *)
(* may be dated.                                                              *)
EXTENDS HlsProducer

Undated == [s \in Sequences |-> None]

(* Every segment is dated: the first sequence at `start', then every `step'.  *)
Every(start, step) == [s \in Sequences |-> start + step * (s - FirstSequence)]

(* Only the segments in S are dated.                                          *)
Only(S, dates) == [s \in Sequences |-> IF s \in S THEN dates[s] ELSE None]
Odd == { s \in Sequences : s % 2 = 1 }

(* Six-second segments: the tag on none, or on all but a fourth; the audio    *)
(* two seconds late, or in segments of four seconds of which every other one  *)
(* has the tag.                                                               *)
SixSeconds == {Undated, Only({1, 2, 3}, Every(0, 6))}
OtherAudio == {Undated, Every(2, 6), Only(Odd, Every(0, 4))}

(* Two-second segments.                                                       *)
TwoSeconds == {Undated, Every(0, 2), Every(2, 2)}
=============================================================================
