------------------------------ MODULE TaskBoard ------------------------------
(***************************************************************************)
(* What a task pool promises the code that hands it tasks (task_pool.h,    *)
(* thread_pool.h), whatever its queues, ids, locks and wakeups: a task is  *)
(* run at most once, not before it is due, and never once a call of        *)
(* cancel() has returned true for it.                                      *)
(***************************************************************************)
EXTENDS Naturals

CONSTANTS
    Tasks,
    MaxTime         \* bound: the last instant of the clock

VARIABLES
    status,         \* what has become of each task
    due,            \* when a queued task may run, 0 for the others
    now             \* the steady clock

vars == <<status, due, now>>

Times == 0 .. MaxTime

TypeOK ==
    /\ status \in [Tasks -> {"new", "queued", "running", "done", "cancelled"}]
    /\ due \in [Tasks -> Times]
    /\ now \in Times

Init ==
    /\ status = [t \in Tasks |-> "new"]
    /\ due = [t \in Tasks |-> 0]
    /\ now = 0

Move(t, from, to, time) ==
    /\ status[t] = from
    /\ status' = [status EXCEPT ![t] = to]
    /\ due' = [due EXCEPT ![t] = time]
    /\ UNCHANGED now

Submit(t) == \E time \in Times : Move(t, "new", "queued", time)

Cancel(t) == Move(t, "queued", "cancelled", 0)

Begin(t) == due[t] <= now /\ Move(t, "queued", "running", 0)

Finish(t) == Move(t, "running", "done", 0)

Tick == now' \in Times /\ now' > now /\ UNCHANGED <<status, due>>

Next ==
    \/ Tick
    \/ \E t \in Tasks :
        Submit(t) \/ Cancel(t) \/ Begin(t) \/ Finish(t)

Spec == Init /\ [][Next]_vars
=============================================================================
