------------------------------- MODULE MCLiveApp -------------------------------
(* The controller with two sources to scan and two events.                  *)
EXTENDS LiveApp
=============================================================================
