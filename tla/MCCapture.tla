----------------------------- MODULE MCCapture ------------------------------
(***************************************************************************)
(* Two sessions, so that one can end and another come while the display is *)
(* held, a queue of one, that a second context overfills, and a display    *)
(* that is lost once.                                                      *)
(***************************************************************************)
EXTENDS Capture
=============================================================================
