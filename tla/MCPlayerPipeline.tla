--------------------------- MODULE MCPlayerPipeline ----------------------------
(* Two playbacks, so that one can inherit from the other, and one event of  *)
(* the user, the stream or the decoder in the course of them.               *)
EXTENDS PlayerPipeline
=============================================================================
