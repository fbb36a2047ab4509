----------------------------- MODULE MCThemeStore ------------------------------
(* Three themes, so that a third one can come back, and eight events.       *)
EXTENDS ThemeStore
=============================================================================
