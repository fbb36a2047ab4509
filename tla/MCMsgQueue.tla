------------------------------- MODULE MCMsgQueue -------------------------------
(* Two senders and one receiver on a queue of two places. *)
EXTENDS MsgQueue
=============================================================================
