----------------------------- MODULE MCStreamRing -----------------------------
(* Model-checking instance of StreamRing in units of 512 KiB: the ring, the     *)
(* ceiling and the high-water mark have the proportions of the code.          *)
EXTENDS StreamRing
=============================================================================
