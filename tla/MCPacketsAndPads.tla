-------------------------- MODULE MCPacketsAndPads --------------------------
(***************************************************************************)
(* Two parts of input.cpp: three packets of any form in the packet queue,  *)
(* and two clients with one controller each and two slots. They have no    *)
(* variable in common and are run one at a time: each moves only while the *)
(* other is as it started, where nothing of it is due.                     *)
(***************************************************************************)
EXTENDS MCInputQueue, Gamepads

InputInit == QueueInit /\ Init

InputNext ==
    \/ Init /\ QueueNext /\ UNCHANGED vars
    \/ QueueInit /\ Next /\ UNCHANGED queueVars

InputSpec ==
    /\ InputInit
    /\ [][InputNext]_<<queueVars, vars>>
    /\ WF_vars(Worker)
=============================================================================
