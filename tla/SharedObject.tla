---------------------------- MODULE SharedObject ----------------------------
(***************************************************************************)
(* What shared_t of thread_safe.h promises to those who take references,   *)
(* whatever its count and its lock, and the program counters of those that *)
(* wait for it: one object at a time, that is made for the first of them   *)
(* and taken down after the last, and that nobody refers to while it is    *)
(* being made or taken down.                                               *)
(***************************************************************************)
CONSTANT Users      \* those that may hold a reference

VARIABLES
    object,         \* how far the object is
    users           \* those that hold a reference to it

vars == <<object, users>>

TypeOK ==
    /\ object \in {"none", "coming", "up", "going", "stuck"}
    /\ users \subseteq Users

Init == object = "none" /\ users = {}

Become(from, to) ==
    /\ object = from
    /\ object' = to

\* The first reference is asked for: the constructing callback runs ...
Construct == Become("none", "coming") /\ UNCHANGED users

\* ... and succeeds, after a while or within one step, ...
Constructed(u) ==
    /\ Become("coming", "up") \/ Become("none", "up")
    /\ users' = {u}

\* ... or fails, and there is no reference.
Refused == Become("coming", "none") /\ UNCHANGED users

Take(u) ==
    /\ Become("up", "up")
    /\ users' = users \cup {u}

\* The last reference is given up: the destroying callback runs ...
Give(u) ==
    /\ u \in users
    /\ users' = users \ {u}
    /\ Become("up", IF users' = {} THEN "going" ELSE "up")

\* ... to its end.
Destroyed == Become("going", "none") /\ UNCHANGED users

\* One of the callbacks never returns.
Stuck ==
    /\ Become("coming", "stuck") \/ Become("going", "stuck")
    /\ UNCHANGED users

\* The program is started anew.
Restart == object' = "none" /\ users' = {}

Next ==
    \/ Construct \/ Refused \/ Destroyed \/ Stuck \/ Restart
    \/ \E u \in Users : Constructed(u) \/ Take(u) \/ Give(u)

Spec == Init /\ [][Next]_vars

(* The object is up exactly while somebody refers to it.                   *)
UpWhileUsed == object = "up" <=> users # {}
=============================================================================
