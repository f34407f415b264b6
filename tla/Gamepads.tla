------------------------------ MODULE Gamepads ------------------------------
(***************************************************************************)
(* The virtual gamepads of input.cpp. A client's input_t, with its pads,   *)
(* is retained when a session ends and taken up by the next one; ending    *)
(* the app destroys the pads whether or not a session goes on.             *)
(*                                                                         *)
(* Actors: the RTSP thread, which starts sessions; the threads that join   *)
(* them and end the app; the control thread, which queues packets; the     *)
(* pool's one worker, which takes timed tasks when none is queued (module  *)
(* ThreadPool). Of a pad's state only Back is kept, since holding Back is  *)
(* how Home is emulated. An input_t lives while the map, a session, a task *)
(* or a timer holds its shared_ptr; the last to let go runs ~gamepad_t.    *)
(* Packets that change Back or the mask are not batched (InputQueue).      *)
(***************************************************************************)
EXTENDS Integers, Sequences

CONSTANTS
    Clients,        \* paired clients: input_session_id
    Inputs,         \* input_t objects
    Controllers,    \* client-relative indices
    MaxGamepads,    \* platf::MAX_GAMEPADS
    MaxPackets,     \* bound: the packets clients send
    MaxSessions,    \* bound: the sessions that are started
    MaxTasks,       \* bound: the tasks in the pool before another is pushed
    None

ASSUME GamepadsAssumption ==
    /\ MaxGamepads \in Nat \ {0}
    /\ MaxPackets \in Nat
    /\ MaxSessions \in Nat
    /\ MaxTasks \in Nat
    /\ None \notin Inputs
    /\ None \notin 0 .. MaxGamepads

VARIABLES
    retained,       \* retained_input_state().inputs
    session,        \* session_t::input of the client's session
    open,           \* clients whose packets reach their session
    started,        \* how many sessions have been started
    sent,           \* how many packets have been sent
    queue,          \* tasks in the pool
    timer,          \* pads with a back_timeout_id: a Home is armed
    pad,            \* gamepad_t::id
    held,           \* BACK in gamepad_t::gamepad_state
    forcedUp,       \* gamepad_t::back_button_state is UP
    mask,           \* gamepadMask
    told            \* the pads the platform was told hold Back down

clientVars == <<open, started, sent>>
padVars    == <<pad, held, forcedUp>>
vars == <<retained, session, clientVars, queue, timer, padVars, mask, told>>

Slots == 0 .. MaxGamepads - 1

Each == Inputs \X Controllers

Packets ==
    [kind : {"arrival"}, inputs : {{i} : i \in Inputs}, ctrl : Controllers]
    \cup [kind : {"state"}, inputs : {{i} : i \in Inputs}, ctrl : Controllers,
          active : BOOLEAN, back : BOOLEAN]

Tasks ==
    Packets
    \cup [kind : {"reset", "rebind", "destroy"}, inputs : SUBSET Inputs]
    \cup [kind : {"free"}, inputs : {{}}, slots : SUBSET Slots]

TypeOK ==
    /\ retained \in [Clients -> Inputs \cup {None}]
    /\ session \in [Clients -> Inputs \cup {None}]
    /\ open \in SUBSET Clients
    /\ started \in 0 .. MaxSessions
    /\ sent \in 0 .. MaxPackets
    /\ queue \in Seq(Tasks)
    /\ timer \in SUBSET Each
    /\ pad \in [Each -> Slots \cup {None}]
    /\ held \in [Each -> BOOLEAN]
    /\ forcedUp \in [Each -> BOOLEAN]
    /\ mask \in SUBSET Slots
    /\ told \in SUBSET Slots

Init ==
    /\ retained = [c \in Clients |-> None]
    /\ session = [c \in Clients |-> None]
    /\ open = {}
    /\ started = 0
    /\ sent = 0
    /\ queue = <<>>
    /\ timer = {}
    /\ pad = [p \in Each |-> None]
    /\ held = [p \in Each |-> FALSE]
    /\ forcedUp = [p \in Each |-> FALSE]
    /\ mask = {}
    /\ told = {}

-----------------------------------------------------------------------------
(* Who holds an input_t, and what happens when nobody does any more.       *)

Held(q, map, sessions, timers) ==
    (UNION {q[n].inputs : n \in DOMAIN q})
    \cup {i \in Inputs : \E c \in Clients : i \in {map[c], sessions[c]}}
    \cup {p[1] : p \in timers}

Alive == Held(queue, retained, session, timer)

PadsOf(I, pads) == {pads[p] : p \in I \X Controllers} \ {None}

(* Faulty variant: destroying an input_t leaves its pads in use.           *)
SettleLeaks(q) == queue' = q

(* The queue after a step: ~gamepad_t of the input_t objects the step let  *)
(* go of pushes a task that frees their pads.                              *)
Settle(q) ==
    LET gone  == Alive \ Held(q, retained', session', timer')
        slots == PadsOf(gone, pad')
        free  == [kind |-> "free", inputs |-> {}, slots |-> slots]
    IN  queue' = IF slots = {} THEN q ELSE Append(q, free)

Lifecycle(kind, I) == [kind |-> kind, inputs |-> I]

Cleared(f, I, value) == [p \in Each |-> IF p[1] \in I THEN value ELSE f[p]]

-----------------------------------------------------------------------------
(* Sessions.                                                               *)

Room == Len(queue) < MaxTasks

(* alloc(): a client that was here before gets its input_t back.           *)
Start(c) ==
    /\ session[c] = None
    /\ Room
    /\ started < MaxSessions
    /\ started' = started + 1
    /\ open' = open \cup {c}
    /\ \/ /\ retained[c] # None
          /\ session' = [session EXCEPT ![c] = retained[c]]
          /\ queue' = Append(queue, Lifecycle("rebind", {retained[c]}))
          /\ UNCHANGED <<retained, padVars>>
       \/ /\ retained[c] = None
          /\ \E i \in Inputs \ Alive :
                /\ session' = [session EXCEPT ![c] = i]
                /\ retained' = [retained EXCEPT ![c] = i]
                /\ pad' = Cleared(pad, {i}, None)
                /\ held' = Cleared(held, {i}, FALSE)
                /\ forcedUp' = Cleared(forcedUp, {i}, FALSE)
          /\ UNCHANGED queue
    /\ UNCHANGED <<sent, timer, mask, told>>

Receive(c, p) ==
    /\ Room
    /\ c \in open
    /\ p.inputs = {session[c]}
    /\ sent < MaxPackets
    /\ sent' = sent + 1
    /\ queue' = Append(queue, p)
    /\ UNCHANGED <<retained, session, open, started, timer, padVars, mask,
                   told>>

(* join(): the control thread has let the session go; reset().             *)
Join(c) ==
    /\ Room
    /\ c \in open
    /\ open' = open \ {c}
    /\ queue' = Append(queue, Lifecycle("reset", {session[c]}))
    /\ UNCHANGED <<retained, session, started, sent, timer, padVars, mask,
                   told>>

(* The session's slot is erased, and session_t destroyed.                  *)
Erase(c) ==
    /\ session[c] # None
    /\ c \notin open
    /\ session' = [session EXCEPT ![c] = None]
    /\ UNCHANGED <<retained, clientVars, timer, padVars, mask, told>>
    /\ Settle(queue)

Terminated(C) == {retained[c] : c \in C} \ {None}

(* terminate_gamepads(), for every client or for one.                      *)
TerminateGamepads(C) ==
    /\ Room
    /\ Terminated(C) # {}
    /\ retained' = [c \in Clients |-> IF c \in C THEN None ELSE retained[c]]
    /\ queue' = Append(queue, Lifecycle("destroy", Terminated(C)))
    /\ UNCHANGED <<session, clientVars, timer, padVars, mask, told>>

-----------------------------------------------------------------------------
(* The worker. A task that is done lets go of its input_t.                 *)

task == Head(queue)

Take(kind) ==
    /\ queue # <<>>
    /\ task.kind = kind

Done == Settle(Tail(queue))

(* alloc_id: the lowest bit that is clear.                                 *)
AllocId(s) ==
    /\ s \in Slots \ mask
    /\ \A u \in Slots \ mask : s <= u

(* alloc_gamepad with success: the pad is plugged in, with Back up.        *)
Allocated(p, s) ==
    /\ pad[p] = None
    /\ AllocId(s)
    /\ pad' = [pad EXCEPT ![p] = s]
    /\ mask' = mask \cup {s}

(* Packets for pads there are already, or that cannot be plugged in: there *)
(* is no slot left, or the platform refuses.                               *)
Arrival ==
    /\ Take("arrival")
    /\ \E i \in task.inputs :
          \/ \E s \in Slots :
                /\ Allocated(<<i, task.ctrl>>, s)
                /\ told' = told \ {s}
          \/ UNCHANGED <<pad, mask, told>>
    /\ UNCHANGED <<retained, session, clientVars, timer, held, forcedUp>>
    /\ Done

(* What the packet's Back becomes while the home emulation holds it up.    *)
Effective(p, back) == back /\ ~forcedUp[p]

(* Pressing Back arms the timer of the home emulation, releasing it        *)
(* cancels the timer.                                                      *)
BackTimer(p, back) ==
    timer' = IF Effective(p, back) = held[p] THEN timer
             ELSE IF Effective(p, back) THEN timer \cup {p}
             ELSE timer \ {p}

Update(p, s, back) ==
    /\ BackTimer(p, back)
    /\ forcedUp' = [forcedUp EXCEPT ![p] = @ /\ back]
    /\ held' = [held EXCEPT ![p] = Effective(p, back)]
    /\ told' = IF Effective(p, back) THEN told \cup {s} ELSE told \ {s}

(* The controller is in the packet's mask: it is plugged in if it was not. *)
ActiveState ==
    /\ Take("state")
    /\ task.active
    /\ \E i \in task.inputs, s \in Slots :
          /\ \/ pad[<<i, task.ctrl>>] = s /\ UNCHANGED <<pad, mask>>
             \/ Allocated(<<i, task.ctrl>>, s)
          /\ Update(<<i, task.ctrl>>, s, task.back)
    /\ UNCHANGED <<retained, session, clientVars>>
    /\ Done

(* alloc_gamepad fails, or there is no pad to remove.                      *)
IdleState ==
    /\ Take("state")
    /\ \E i \in task.inputs : pad[<<i, task.ctrl>>] = None
    /\ UNCHANGED <<retained, session, clientVars, timer, padVars, mask, told>>
    /\ Done

(* The last packet of a controller. Its timer is not cancelled.            *)
RemovePad ==
    /\ Take("state")
    /\ ~task.active
    /\ \E i \in task.inputs :
          LET p == <<i, task.ctrl>> IN
          /\ pad[p] # None
          /\ pad' = [pad EXCEPT ![p] = None]
          /\ mask' = mask \ {pad[p]}
          /\ told' = told \ {pad[p]}
    /\ UNCHANGED <<retained, session, clientVars, timer, held, forcedUp>>
    /\ Done

(* Faulty variant: the timers of the home emulation go on.                 *)
ResetKeepsTimers(I) ==
    /\ held' = Cleared(held, I, FALSE)
    /\ forcedUp' = Cleared(forcedUp, I, FALSE)
    /\ told' = told \ PadsOf(I, pad)
    /\ UNCHANGED timer

Neutralize(I) ==
    /\ timer' = timer \ (I \X Controllers)
    /\ held' = Cleared(held, I, FALSE)
    /\ forcedUp' = Cleared(forcedUp, I, FALSE)
    /\ told' = told \ PadsOf(I, pad)

(* Faulty variant: the end of a session destroys the client's pads.        *)
ResetDestroysPads ==
    /\ Take("reset")
    /\ Neutralize(task.inputs)
    /\ pad' = Cleared(pad, task.inputs, None)
    /\ mask' = mask \ PadsOf(task.inputs, pad)
    /\ UNCHANGED <<retained, session, clientVars>>
    /\ Done

ResetGamepads ==
    /\ Take("reset")
    /\ Neutralize(task.inputs)
    /\ UNCHANGED <<retained, session, clientVars, pad, mask>>
    /\ Done

(* Faulty variant: the ids of destroyed pads stay in their input_t.        *)
DestroyKeepsIds ==
    /\ Take("destroy")
    /\ Neutralize(task.inputs)
    /\ mask' = mask \ PadsOf(task.inputs, pad)
    /\ UNCHANGED <<retained, session, clientVars, pad>>
    /\ Done

DestroyGamepads ==
    /\ Take("destroy")
    /\ Neutralize(task.inputs)
    /\ pad' = Cleared(pad, task.inputs, None)
    /\ mask' = mask \ PadsOf(task.inputs, pad)
    /\ UNCHANGED <<retained, session, clientVars>>
    /\ Done

(* The platform may have lost pads meanwhile.                              *)
RebindInput ==
    /\ Take("rebind")
    /\ \E lost \in SUBSET {p \in task.inputs \X Controllers : pad[p] # None} :
        /\ pad' = [p \in Each |-> IF p \in lost THEN None ELSE pad[p]]
        /\ mask' = mask \ {pad[p] : p \in lost}
        /\ UNCHANGED <<retained, session, clientVars, timer, held, forcedUp,
                       told>>
        /\ Done

FreePads ==
    /\ Take("free")
    /\ mask' = mask \ task.slots
    /\ told' = told \ task.slots
    /\ UNCHANGED <<retained, session, clientVars, timer, padVars>>
    /\ Done

(* Back has been held for back_button_timeout: Back is forced up, Home is  *)
(* pressed and released. gamepad_update ignores the id of a removed pad.   *)
Home(p) ==
    /\ queue = <<>>
    /\ p \in timer
    /\ timer' = timer \ {p}
    /\ forcedUp' = [forcedUp EXCEPT ![p] = TRUE]
    /\ held' = [held EXCEPT ![p] = FALSE]
    /\ told' = told \ {pad[p]}
    /\ UNCHANGED <<retained, session, clientVars, pad, mask>>
    /\ Settle(queue)

Worker ==
    \/ Arrival
    \/ ActiveState
    \/ IdleState
    \/ RemovePad
    \/ ResetGamepads
    \/ DestroyGamepads
    \/ RebindInput
    \/ FreePads

Next ==
    \/ \E c \in Clients : Start(c) \/ Join(c) \/ Erase(c)
    \/ \E c \in Clients, p \in Packets : Receive(c, p)
    \/ \E C \in {Clients} \cup {{c} : c \in Clients} : TerminateGamepads(C)
    \/ Worker
    \/ \E p \in Each : Home(p)

Spec == Init /\ [][Next]_vars

(* The pool's worker takes its tasks.                                      *)
FairSpec == Spec /\ WF_vars(Worker)

-----------------------------------------------------------------------------
(* Properties.                                                             *)

(* Who owns a slot: a pad of a living input_t, or a task that frees it.    *)
OwnedByPads == {p \in Each : p[1] \in Alive /\ pad[p] # None}

Frees == {n \in DOMAIN queue : queue[n].kind = "free"}

(* Each bit of gamepadMask has one owner, so that no slot leaks and none   *)
(* is freed twice or shared, whatever pauses, terminations, lost pads and  *)
(* destructors come in between.                                            *)
SlotsAccounted ==
    /\ TypeOK
    /\ mask = {pad[p] : p \in OwnedByPads}
                  \cup UNION {queue[n].slots : n \in Frees}
    /\ \A p, q \in OwnedByPads : pad[p] = pad[q] => p = q
    /\ \A m, n \in Frees : m # n => queue[m].slots \cap queue[n].slots = {}
    /\ \A p \in OwnedByPads, n \in Frees : pad[p] \notin queue[n].slots

(* A client is paused when it has pads and no session that feeds them,     *)
(* from the join of its last one on, for as long as it stays away.         *)
Paused(c) == retained[c] # None /\ c \notin open

(* Once the reset of a paused client has run its pads are neutral, and no  *)
(* Home is on its way, whatever other clients, terminations and lost pads  *)
(* there are until it comes back.                                          *)
NeutralWhenPaused ==
    queue = <<>> =>
        \A c \in Clients, k \in Controllers :
            Paused(c) =>
                LET p == <<retained[c], k>>
                IN  p \notin timer /\ pad[p] \notin told

(* A pause does not unplug the pads of a client whose app goes on: only    *)
(* its own packet or a failed rebind does.                                 *)
PadsSurvivePause ==
    [][\A c \in Clients, k \in Controllers :
          LET p == <<retained[c], k>> IN
          retained[c] # None /\ retained'[c] = retained[c] /\ pad[p] # None =>
              \/ pad'[p] = pad[p]
              \/ Head(queue).kind = "rebind"
              \/ Head(queue).kind = "state" /\ ~Head(queue).active]_vars

(* Once the app has ended and no client streams, every pad is unplugged,   *)
(* also those plugged in by packets that came after the termination.       *)
Deserted == \A c \in Clients : retained[c] = None /\ session[c] = None

PadsUnplugged == Deserted ~> mask = {} \/ ~Deserted
=============================================================================
