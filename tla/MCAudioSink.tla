----------------------------- MODULE MCAudioSink -----------------------------
(***************************************************************************)
(* Two sessions that ask for different layouts, with or without sound on   *)
(* the host, and overlap in any way or follow one another; with no sink    *)
(* configured or one that is not the default; and one fault at any point.  *)
(***************************************************************************)
EXTENDS AudioSink

CONSTANTS s1, s2, stereo, surround, speakers, cable
=============================================================================
