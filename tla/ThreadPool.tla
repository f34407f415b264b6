----------------------------- MODULE ThreadPool -----------------------------
(***************************************************************************)
(* The task pool (task_pool.h) with the workers of the thread pool         *)
(* (thread_pool.h): a FIFO of immediate tasks, a list of timed tasks with  *)
(* the soonest at its back, and workers that sleep on a condition variable *)
(* until a task is pushed, the pool is stopped or the soonest is due.      *)
(*                                                                         *)
(* Two mutexes: _task_mutex makes each operation on the lists one step;    *)
(* _lock, variable lock, is held by a worker from its look at ready() to   *)
(* its wait, and by push, pushDelayed and stop, but not by cancel, which   *)
(* comes straight from task_pool.h. delay() and pop(id) have no caller.    *)
(*                                                                         *)
(* The id of a task is the address of its object, so an address can come   *)
(* back as the id of a later task while a caller still has the first one.  *)
(***************************************************************************)
EXTENDS Naturals, FiniteSets, SequencesExt

CONSTANTS
    Tasks,          \* tasks pushed in a behaviour, each once
    Timed,          \* those pushed with pushDelayed
    Addresses,      \* where the allocator puts task objects
    Workers,        \* main.cpp starts one
    Delays,         \* bound: durations given to pushDelayed
    MaxTime,        \* bound: the last instant of the clock
    None

ASSUME PoolAssumption ==
    /\ Timed \subseteq Tasks
    /\ Delays \subseteq Nat
    /\ MaxTime \in Nat
    /\ None \notin Tasks \cup Addresses \cup Workers \cup (0 .. MaxTime)

VARIABLES
    now,            \* the steady clock
    tasks,          \* TaskPool::_tasks
    timers,         \* TaskPool::_timer_tasks, soonest last
    id,             \* the task_id_t the pusher of each task was given
    lock,           \* who holds ThreadPool::_lock between two steps
    continue,       \* ThreadPool::_continue
    pc,             \* where each worker is in _main
    job,            \* the task a worker has popped
    wake,           \* the time a waiting worker waits for, None: no limit
    done,           \* tasks that have run
    erased          \* tasks cancel() has removed

listVars   == <<tasks, timers>>
workerVars == <<lock, pc, job, wake>>
fateVars   == <<done, erased>>
vars       == <<now, listVars, id, continue, workerVars, fateVars>>

Times == 0 .. MaxTime

Timers == [due : Times, task : Tasks]

TypeOK ==
    /\ now \in Times
    /\ tasks \in Seq(Tasks)
    /\ timers \in Seq(Timers)
    /\ id \in [Tasks -> Addresses \cup {None}]
    /\ lock \in Workers \cup {None}
    /\ continue \in BOOLEAN
    /\ pc \in [Workers -> {"loop", "pop", "run", "lock", "ready", "wait",
                           "waiting", "drain", "drainrun", "ended"}]
    /\ job \in [Workers -> Tasks \cup {None}]
    /\ wake \in [Workers -> Times \cup {None}]
    /\ done \in SUBSET Tasks
    /\ erased \in SUBSET Tasks

Init ==
    /\ now = 0
    /\ tasks = <<>>
    /\ timers = <<>>
    /\ id = [t \in Tasks |-> None]
    /\ lock = None
    /\ continue = TRUE
    /\ pc = [w \in Workers |-> "loop"]
    /\ job = [w \in Workers |-> None]
    /\ wake = [w \in Workers |-> None]
    /\ done = {}
    /\ erased = {}

Goto(w, label) == pc' = [pc EXCEPT ![w] = label]

-----------------------------------------------------------------------------
(* Task objects: owned by a list, then by the worker that runs it.         *)

TimedTasks == {timers[i].task : i \in DOMAIN timers}

Queued == ToSet(tasks) \cup TimedTasks

Running == {job[w] : w \in Workers} \ {None}

(* make_unique puts the object where no live one is.                       *)
Allocate(t) ==
    \E a \in Addresses \ {id[u] : u \in Queued \cup Running} :
        id' = [id EXCEPT ![t] = a]

-----------------------------------------------------------------------------
(* Callers.                                                                *)

Waiting == {w \in Workers : pc[w] = "waiting"}

Awaken(W) ==
    /\ pc' = [w \in Workers |-> IF w \in W THEN "loop" ELSE pc[w]]
    /\ wake' = [w \in Workers |-> IF w \in W THEN None ELSE wake[w]]

NotifyOne == \/ \E w \in Waiting : Awaken({w})
             \/ Waiting = {} /\ UNCHANGED <<pc, wake>>

NotifyAll == Awaken(Waiting)

Push(t) ==
    /\ t \notin Timed
    /\ id[t] = None
    /\ lock = None
    /\ Allocate(t)
    /\ tasks' = Append(tasks, t)
    /\ NotifyOne
    /\ UNCHANGED <<now, timers, continue, lock, job, fateVars>>

(* The new timer goes before the first one that is due strictly earlier.   *)
Insert(list, timer) ==
    LET earlier == SelectInSeq(list, LAMBDA e : e.due < timer.due)
    IN  InsertAt(list, IF earlier = 0 THEN Len(list) + 1 ELSE earlier, timer)

(* Faulty variant: the overload for a ready-made pair, which notifies      *)
(* nobody.                                                                 *)
PushDelayedQuietly(t, d) ==
    /\ t \in Timed
    /\ id[t] = None
    /\ lock = None
    /\ now + d <= MaxTime
    /\ Allocate(t)
    /\ timers' = Insert(timers, [due |-> now + d, task |-> t])
    /\ UNCHANGED <<now, tasks, continue, workerVars, fateVars>>

PushDelayed(t, d) ==
    /\ t \in Timed
    /\ id[t] = None
    /\ lock = None
    /\ now + d <= MaxTime
    /\ Allocate(t)
    /\ timers' = Insert(timers, [due |-> now + d, task |-> t])
    /\ NotifyAll
    /\ UNCHANGED <<now, tasks, continue, lock, job, fateVars>>

(* Where a timer with this id is, 0 if there is none.                      *)
Find(a) == SelectInSeq(timers, LAMBDA e : id[e.task] = a)

(* cancel() erases the timer whose object is at the address its caller     *)
(* has, and returns false if the address is in no timer.                   *)
Cancel(t) ==
    /\ t \in Timed
    /\ id[t] # None
    /\ LET i == Find(id[t]) IN
        IF i = 0
        THEN UNCHANGED <<timers, erased>>
        ELSE /\ timers' = RemoveAt(timers, i)
             /\ erased' = erased \cup {timers[i].task}
    /\ UNCHANGED <<now, tasks, id, continue, workerVars, done>>

Stop ==
    /\ continue
    /\ lock = None
    /\ continue' = FALSE
    /\ NotifyAll
    /\ UNCHANGED <<now, listVars, id, lock, job, fateVars>>

-----------------------------------------------------------------------------
(* Workers.                                                                *)

(* Faulty variant: the timer at the back is taken without a look at the    *)
(* clock.                                                                  *)
TimerExists == timers # <<>>

TimerDue == timers # <<>> /\ Last(timers).due <= now

(* Faulty variant: the front of the queue is read and not popped.          *)
PopKeeps(w, found, otherwise) ==
    IF tasks # <<>>
    THEN /\ job' = [job EXCEPT ![w] = Head(tasks)]
         /\ Goto(w, found)
         /\ UNCHANGED listVars
    ELSE /\ Goto(w, otherwise)
         /\ UNCHANGED <<job, listVars>>

(* pop(): the oldest immediate task, else the timer at the back if due.    *)
Pop(w, found, otherwise) ==
    \/ /\ tasks # <<>>
       /\ job' = [job EXCEPT ![w] = Head(tasks)]
       /\ tasks' = Tail(tasks)
       /\ Goto(w, found)
       /\ UNCHANGED timers
    \/ /\ tasks = <<>>
       /\ TimerDue
       /\ job' = [job EXCEPT ![w] = Last(timers).task]
       /\ timers' = Front(timers)
       /\ Goto(w, found)
       /\ UNCHANGED tasks
    \/ /\ tasks = <<>>
       /\ ~TimerDue
       /\ Goto(w, otherwise)
       /\ UNCHANGED <<job, listVars>>

Loop(w) ==
    /\ pc[w] = "loop"
    /\ Goto(w, IF continue THEN "pop" ELSE "drain")
    /\ UNCHANGED <<now, listVars, id, continue, lock, job, wake, fateVars>>

PopNext(w) ==
    /\ pc[w] = "pop"
    /\ Pop(w, "run", "lock")
    /\ UNCHANGED <<now, id, continue, lock, wake, fateVars>>

(* The task runs to its end and its object is destroyed.                   *)
Run(w) ==
    /\ pc[w] \in {"run", "drainrun"}
    /\ done' = done \cup {job[w]}
    /\ job' = [job EXCEPT ![w] = None]
    /\ Goto(w, IF pc[w] = "run" THEN "loop" ELSE "drain")
    /\ UNCHANGED <<now, listVars, id, continue, lock, wake, erased>>

TakeLock(w) ==
    /\ pc[w] = "lock"
    /\ lock = None
    /\ lock' = w
    /\ Goto(w, "ready")
    /\ UNCHANGED <<now, listVars, id, continue, job, wake, fateVars>>

(* Faulty variant: the lock is given up between the look and the wait.     *)
CheckReadyUnlocked(w) ==
    /\ pc[w] = "ready"
    /\ lock' = None
    /\ Goto(w, IF tasks # <<>> \/ TimerDue THEN "loop"
               ELSE IF continue THEN "wait" ELSE "drain")
    /\ UNCHANGED <<now, listVars, id, continue, job, wake, fateVars>>

(* Under _lock: back to the loop if a task is ready, out of it if stopped. *)
CheckReady(w) ==
    /\ pc[w] = "ready"
    /\ \/ /\ tasks # <<>> \/ TimerDue
          /\ lock' = None
          /\ Goto(w, "loop")
       \/ /\ tasks = <<>> /\ ~TimerDue /\ ~continue
          /\ lock' = None
          /\ Goto(w, "drain")
       \/ /\ tasks = <<>> /\ ~TimerDue /\ continue
          /\ Goto(w, "wait")
          /\ UNCHANGED lock
    /\ UNCHANGED <<now, listVars, id, continue, job, wake, fateVars>>

(* next(), then the wait, which gives _lock up.                            *)
Wait(w) ==
    /\ pc[w] = "wait"
    /\ wake' = [wake EXCEPT
                    ![w] = IF timers = <<>> THEN None ELSE Last(timers).due]
    /\ lock' = None
    /\ Goto(w, "waiting")
    /\ UNCHANGED <<now, listVars, id, continue, job, fateVars>>

(* wait_until times out.                                                   *)
Wake(w) ==
    /\ pc[w] = "waiting"
    /\ wake[w] # None
    /\ wake[w] <= now
    /\ lock = None
    /\ Awaken({w})
    /\ UNCHANGED <<now, listVars, id, continue, lock, job, fateVars>>

(* Condition variables may wake up for nothing.                            *)
WakeSpuriously(w) ==
    /\ pc[w] = "waiting"
    /\ lock = None
    /\ Awaken({w})
    /\ UNCHANGED <<now, listVars, id, continue, lock, job, fateVars>>

(* "Execute remaining tasks": those that are ready, the others stay.       *)
Drain(w) ==
    /\ pc[w] = "drain"
    /\ Pop(w, "drainrun", "ended")
    /\ UNCHANGED <<now, id, continue, lock, wake, fateVars>>

Tick ==
    /\ now < MaxTime
    /\ now' = now + 1
    /\ UNCHANGED <<listVars, id, continue, workerVars, fateVars>>

WorkerStep(w) ==
    \/ Loop(w)
    \/ PopNext(w)
    \/ Run(w)
    \/ TakeLock(w)
    \/ CheckReady(w)
    \/ Wait(w)
    \/ Wake(w)
    \/ Drain(w)

Next ==
    \/ Tick
    \/ Stop
    \/ \E t \in Tasks : Push(t) \/ Cancel(t)
    \/ \E t \in Tasks, d \in Delays : PushDelayed(t, d)
    \/ \E w \in Workers : WorkerStep(w) \/ WakeSpuriously(w)

Spec == Init /\ [][Next]_vars

(* Workers are scheduled, tasks end, and the clock goes on.                *)
Fairness ==
    /\ WF_vars(Tick)
    /\ \A w \in Workers : WF_vars(WorkerStep(w))

FairSpec == Spec /\ Fairness

-----------------------------------------------------------------------------
(* Properties.                                                             *)

(* The task board the pool implements: where a task is tells its status.   *)
Status(t) ==
    CASE t \in Queued       -> "queued"
      [] t \in Running      -> "running"
      [] t \in done         -> "done"
      [] t \in erased       -> "cancelled"
      [] OTHER              -> "new"

DueTime(t) ==
    IF t \in TimedTasks
    THEN timers[SelectInSeq(timers, LAMBDA e : e.task = t)].due
    ELSE 0

Board == INSTANCE TaskBoard WITH
    status <- [t \in Tasks |-> Status(t)],
    due <- [t \in Tasks |-> DueTime(t)]

(* Whatever the interleaving of callers and workers, a task is run at most *)
(* once, never before its time, and not after cancel() removed it.         *)
ImplementsBoard == Board!Spec

(* A task is owned by one list or one worker, once, and no two live task   *)
(* objects have the same id.                                               *)
OneOwner ==
    /\ TypeOK
    /\ Len(tasks) = Cardinality(ToSet(tasks))
    /\ Len(timers) = Cardinality(TimedTasks)
    /\ ToSet(tasks) \cap TimedTasks = {}
    /\ Queued \cap Running = {}
    /\ \A v, w \in Workers : v # w => job[v] = None \/ job[v] # job[w]
    /\ \A t, u \in Queued \cup Running : t # u => id[t] # id[u]

(* A worker that sleeps has no reason not to: the pool goes on, no         *)
(* immediate task waits unless another worker is about to look for one,    *)
(* and it will wake up no later than the soonest timer is due.             *)
SleepsForAReason ==
    \A w \in Waiting :
        /\ continue
        /\ tasks # <<>> => \E v \in Workers : pc[v] \notin {"waiting", "wait"}
        /\ timers # <<>> => wake[w] # None /\ wake[w] <= Last(timers).due

(* Every task that becomes due while the pool is running is run or         *)
(* cancelled.                                                              *)
DueTaskRuns ==
    \A t \in Tasks :
        Status(t) = "queued" /\ DueTime(t) <= now /\ continue
            ~> Status(t) # "queued"
=============================================================================
