----------------------------- MODULE MCAppHost ------------------------------
(***************************************************************************)
(* A game with two preparation commands, detached if it exits at once, and *)
(* the desktop with one.                                                   *)
(***************************************************************************)
EXTENDS AppHost

MCApps == {1, 2}
MCPreps == 1 :> <<"both", "both">> @@ 2 :> <<"undo">>
MCCommands == {1}
MCMaxRequests == [https |-> 2, web |-> 1]

\* The properties say nothing once the code has lost track. For the liveness
\* property, whose goal such a state is, a behaviour that is cut there can
\* only be one that the property holds of.
Tracked == taint = {}
=============================================================================
