--------------------------- MODULE MCInputButtons ---------------------------
(***************************************************************************)
(* Two keys, four packets of which two wait at most, and two sessions.     *)
(***************************************************************************)
EXTENDS InputButtons
=============================================================================
