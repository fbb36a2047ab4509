--------------------------- MODULE MCStreamLifecycle ---------------------------
(* Instance of StreamLifecycle: the tune worker starts and stops sessions,    *)
(* another thread (the HID thread, or main on exit) stops them.               *)
EXTENDS StreamLifecycle
=============================================================================
