--------------------------- MODULE MCSessionLife ---------------------------
(***************************************************************************)
(* How a session begins and how it ends: three launches and an             *)
(* announcement each in the RTSP server's slot, with all forms of the      *)
(* timer's race, and one session with both threads that reap. The two have *)
(* no variable in common and are run one at a time: half says of which the *)
(* behaviour is, and the other stays as it starts.                         *)
(***************************************************************************)
EXTENDS LaunchEvent, StreamSession

VARIABLE half

lifeVars == <<half, launchVars, vars>>

LifeInit == half \in {"launch", "session"} /\ LaunchInit /\ Init

LifeNext ==
    \/ half = "launch" /\ LaunchNext /\ UNCHANGED <<half, vars>>
    \/ half = "session" /\ Next /\ UNCHANGED <<half, launchVars>>

LifeSpec ==
    /\ LifeInit
    /\ [][LifeNext]_lifeVars
    /\ \/ half = "launch" /\ LaunchFairness
       \/ half = "session" /\ Fairness
=============================================================================
