-------------------------- MODULE MCStreamSession --------------------------
(***************************************************************************)
(* Two sessions, interchangeable, for the safety properties. The liveness  *)
(* properties are checked with one session, by MCSessionLife.              *)
(***************************************************************************)
EXTENDS StreamSession, TLC

Symmetry == Permutations(Sessions)
=============================================================================
