---------------------------- MODULE StreamSession ----------------------------
(***************************************************************************)
(* The life of a streaming session, from the RTSP ANNOUNCE that starts it  *)
(* to the join that reaps it, and of the broadcast context all sessions    *)
(* share (control, video, audio and receive threads, one ENet host).       *)
(*                                                                         *)
(* Actors:                                                                 *)
(*   "rtsp"   the RTSP thread: serves ANNOUNCE, then calls clear() or      *)
(*            clear(false), over and over;                                 *)
(*   "https"  a web server's thread: session_count, terminate_sessions,    *)
(*            terminate_sessions_by_cert, and the launch of an app;        *)
(*   control  controlBroadcastThread of the broadcast context;             *)
(*   the video and the audio thread of every session.                      *)
(* The rtsp and https actors run the same clear() loop under the lock of   *)
(* _session_slots, so their program counters share a function.             *)
(*                                                                         *)
(* A session's capture and its initial ping are one "running" stage of its *)
(* threads: either may fail on its own, both end once the session's        *)
(* shutdown event is raised.                                               *)
(***************************************************************************)
EXTENDS Naturals, FiniteSets

CONSTANTS
    Sessions,       \* the sessions announced in a behaviour, each once
    Streams,        \* bound: the threads of a session, "video" and "audio"
    Calls,          \* bound: what the web thread asks clear() for
    UintMod,        \* bound: running_sessions is unsigned, modulo 2^32
    None

Modes == {"all", "stopping", "cert"}

ASSUME SessionAssumption ==
    /\ IsFiniteSet(Sessions)
    /\ Streams # {}
    /\ Calls \subseteq Modes
    /\ None \notin Sessions \cup {"rtsp", "https"}
    /\ UintMod \in Nat
    /\ UintMod > Cardinality(Sessions) + 1

Reapers == {"rtsp", "https"}

VARIABLES
    pc,             \* program counters of the rtsp and https threads
    cur,            \* the session each of them works on
    todo,           \* clear(): slots its iterator has still to visit
    mode,           \* clear(): which slots it reaps
    announcing,     \* the session cmd_announce holds a shared_ptr to
    slots,          \* rtsp_server_t::_session_slots
    slotsLock,      \* who holds its lock
    life,           \* whether the session_t object exists
    state,          \* session_t::state
    shutdown,       \* session_t::shutdown_event is raised
    controlEnd,     \* session_t::controlEnd is raised
    thread,         \* the session's video and audio thread
    pingSet,        \* session_t::pingTimeout has been given a value
    peer,           \* session_t::control.peer is set
    hold,           \* session_t::broadcast_ref is not null
    running,        \* running_sessions
    streaming,      \* streaming_will_start ran more recently than _will_stop
    broadcast,      \* the shared broadcast context exists
    ending,         \* who runs end_broadcast, holding the shared_t lock
    broadcastShutdown,  \* the broadcast_shutdown event is raised
    control,        \* program counter of controlBroadcastThread
    listed,         \* control_server_t::_sessions
    scan,           \* sessions the control thread's pass has still to visit
    awaiting,       \* has_session_awaiting_peer
    app             \* proc.running() # 0

reaperVars  == <<pc, cur, todo, mode>>
slotVars    == <<slots, slotsLock>>
sessionVars == <<life, state, shutdown, controlEnd, thread, pingSet, peer, hold>>
countVars   == <<running, streaming>>
castVars    == <<broadcast, ending, broadcastShutdown>>
controlVars == <<control, listed, scan, awaiting>>

vars == <<reaperVars, announcing, slotVars, sessionVars, countVars, castVars,
          controlVars, app>>

StartPcs == {"insert", "ref", "push", "threads", "store", "count", "willstart",
             "respond", "remove", "peek"}

JoinPcs == {"join", "controlEnd", "uncount", "willstop", "erase"}

ClearPcs == {"lock", "pick"} \cup JoinPcs

TypeOK ==
    /\ pc \in [Reapers -> {"idle", "end"} \cup StartPcs \cup ClearPcs]
    /\ cur \in [Reapers -> Sessions \cup {None}]
    /\ todo \in [Reapers -> SUBSET Sessions]
    /\ mode \in [Reapers -> Modes]
    /\ announcing \in Sessions \cup {None}
    /\ slots \in SUBSET Sessions
    /\ slotsLock \in Reapers \cup {None}
    /\ life \in [Sessions -> {"unborn", "alive", "freed"}]
    /\ state \in [Sessions -> {"STOPPED", "STOPPING", "RUNNING"}]
    /\ shutdown \in [Sessions -> BOOLEAN]
    /\ controlEnd \in [Sessions -> BOOLEAN]
    /\ thread \in [Sessions -> [Streams -> {"none", "running", "ended"}]]
    /\ pingSet \in [Sessions -> BOOLEAN]
    /\ peer \in [Sessions -> BOOLEAN]
    /\ hold \in [Sessions -> BOOLEAN]
    /\ running \in 0 .. UintMod - 1
    /\ streaming \in BOOLEAN
    /\ broadcast \in BOOLEAN
    /\ ending \in Reapers \cup {None}
    /\ broadcastShutdown \in BOOLEAN
    /\ control \in {"none", "loop", "scan", "check", "iterate", "pop", "exit",
                   "done"}
    /\ listed \in SUBSET Sessions
    /\ scan \in SUBSET Sessions
    /\ awaiting \in BOOLEAN
    /\ app \in BOOLEAN

(* alloc leaves a session STOPPED, with nothing raised.                    *)
Init ==
    /\ pc = [t \in Reapers |-> "idle"]
    /\ cur = [t \in Reapers |-> None]
    /\ todo = [t \in Reapers |-> {}]
    /\ mode = [t \in Reapers |-> "stopping"]
    /\ announcing = None
    /\ slots = {}
    /\ slotsLock = None
    /\ life = [s \in Sessions |-> "unborn"]
    /\ state = [s \in Sessions |-> "STOPPED"]
    /\ shutdown = [s \in Sessions |-> FALSE]
    /\ controlEnd = [s \in Sessions |-> FALSE]
    /\ thread = [s \in Sessions |-> [k \in Streams |-> "none"]]
    /\ pingSet = [s \in Sessions |-> FALSE]
    /\ peer = [s \in Sessions |-> FALSE]
    /\ hold = [s \in Sessions |-> FALSE]
    /\ running = 0
    /\ streaming = FALSE
    /\ broadcast = FALSE
    /\ ending = None
    /\ broadcastShutdown = FALSE
    /\ control = "none"
    /\ listed = {}
    /\ scan = {}
    /\ awaiting = FALSE
    /\ app = FALSE

Goto(t, label) == pc' = [pc EXCEPT ![t] = label]

-----------------------------------------------------------------------------
(* stream::session::stop. Nothing in the code ever stores STARTING, so     *)
(* while_starting_do_nothing does not wait; the exchange fails unless the  *)
(* session is RUNNING and then nothing is raised.                          *)
Stop(s) ==
    IF state[s] = "RUNNING"
    THEN /\ state' = [state EXCEPT ![s] = "STOPPING"]
         /\ shutdown' = [shutdown EXCEPT ![s] = TRUE]
    ELSE UNCHANGED <<state, shutdown>>

(* The lock of control_server_t::_sessions is held during the control      *)
(* thread's pass over the list, and while get_session is blocked.          *)
ListLocked == control \in {"scan", "pop"}

(* A shared_t::ptr_t to the broadcast context: each session object has one *)
(* and so have its two threads while they run.                             *)
Referenced(h) ==
    \E s \in Sessions : h[s] \/ \E k \in Streams : thread[s][k] = "running"

(* ~session_t by thread t: the reference goes, and with the last one       *)
(* end_broadcast begins, under the shared_t lock. Otherwise t goes on.     *)
Destroy(t, s, label) ==
    LET h == [hold EXCEPT ![s] = FALSE] IN
    /\ life' = [life EXCEPT ![s] = "freed"]
    /\ hold' = h
    /\ IF broadcast /\ hold[s] /\ ~Referenced(h)
       THEN /\ ending' = t
            /\ broadcastShutdown' = TRUE
            /\ Goto(t, "end")
       ELSE /\ UNCHANGED <<ending, broadcastShutdown>>
            /\ Goto(t, label)

(* end_broadcast: queues and sockets are closed, then the four threads are *)
(* joined; the control thread is the one that may take its time.           *)
EndBroadcast(t) ==
    /\ pc[t] = "end"
    /\ control = "done"
    /\ broadcast' = FALSE
    /\ ending' = None
    /\ broadcastShutdown' = FALSE
    /\ control' = "none"
    /\ listed' = {}
    /\ Goto(t, IF slotsLock = t THEN "pick" ELSE "peek")
    /\ UNCHANGED <<cur, todo, mode, announcing, slotVars, sessionVars,
                   countVars, scan, awaiting, app>>

-----------------------------------------------------------------------------
(* The RTSP thread: cmd_announce, up to stream::session::start.            *)

(* An ANNOUNCE that passed its checks: session::alloc.                     *)
Alloc(s) ==
    /\ pc["rtsp"] = "idle"
    /\ life[s] = "unborn"
    /\ life' = [life EXCEPT ![s] = "alive"]
    /\ announcing' = s
    /\ Goto("rtsp", "insert")
    /\ UNCHANGED <<cur, todo, mode, slotVars, state, shutdown, controlEnd,
                   thread, pingSet, peer, hold, countVars, castVars,
                   controlVars, app>>

Insert ==
    /\ pc["rtsp"] = "insert"
    /\ slotsLock = None
    /\ slots' = slots \cup {announcing}
    /\ Goto("rtsp", "ref")
    /\ UNCHANGED <<cur, todo, mode, announcing, slotsLock, sessionVars,
                   countVars, castVars, controlVars, app>>

(* Faulty variant: the shared_t lock is not taken.                         *)
RefUnlocked ==
    /\ pc["rtsp"] = "ref"
    /\ \/ /\ broadcast
          /\ UNCHANGED <<broadcast, control>>
          /\ hold' = [hold EXCEPT ![announcing] = TRUE]
          /\ Goto("rtsp", "push")
       \/ /\ ~broadcast
          /\ broadcast' = TRUE
          /\ control' = "loop"
          /\ hold' = [hold EXCEPT ![announcing] = TRUE]
          /\ Goto("rtsp", "push")
    /\ UNCHANGED <<cur, todo, mode, announcing, slotVars, life, state, shutdown,
                   controlEnd, thread, pingSet, peer, countVars, ending,
                   broadcastShutdown, listed, scan, awaiting, app>>

(* broadcast.ref(): counts up, or runs start_broadcast, which can fail.    *)
Ref ==
    /\ pc["rtsp"] = "ref"
    /\ ending = None
    /\ \/ /\ broadcast
          /\ UNCHANGED <<broadcast, control>>
          /\ hold' = [hold EXCEPT ![announcing] = TRUE]
          /\ Goto("rtsp", "push")
       \/ /\ ~broadcast
          /\ broadcast' = TRUE
          /\ control' = "loop"
          /\ hold' = [hold EXCEPT ![announcing] = TRUE]
          /\ Goto("rtsp", "push")
       \/ /\ ~broadcast
          /\ UNCHANGED <<broadcast, control, hold>>
          /\ Goto("rtsp", "remove")
    /\ UNCHANGED <<cur, todo, mode, announcing, slotVars, life, state, shutdown,
                   controlEnd, thread, pingSet, peer, countVars, ending,
                   broadcastShutdown, listed, scan, awaiting, app>>

Push ==
    /\ pc["rtsp"] = "push"
    /\ ~ListLocked
    /\ listed' = listed \cup {announcing}
    /\ Goto("rtsp", "threads")
    /\ UNCHANGED <<cur, todo, mode, announcing, slotVars, sessionVars, countVars,
                   castVars, control, scan, awaiting, app>>

(* pingTimeout is set, the audio and the video thread are created.         *)
StartThreads ==
    /\ pc["rtsp"] = "threads"
    /\ pingSet' = [pingSet EXCEPT ![announcing] = TRUE]
    /\ thread' = [thread EXCEPT ![announcing] = [k \in Streams |-> "running"]]
    /\ Goto("rtsp", "store")
    /\ UNCHANGED <<cur, todo, mode, announcing, slotVars, life, state, shutdown,
                   controlEnd, peer, hold, countVars, castVars, controlVars,
                   app>>

StoreRunning ==
    /\ pc["rtsp"] = "store"
    /\ state' = [state EXCEPT ![announcing] = "RUNNING"]
    /\ Goto("rtsp", "count")
    /\ UNCHANGED <<cur, todo, mode, announcing, slotVars, life, shutdown,
                   controlEnd, thread, pingSet, peer, hold, countVars, castVars,
                   controlVars, app>>

(* ++running_sessions == 1                                                 *)
CountUp ==
    /\ pc["rtsp"] = "count"
    /\ running' = (running + 1) % UintMod
    /\ Goto("rtsp", IF running' = 1 THEN "willstart" ELSE "respond")
    /\ UNCHANGED <<cur, todo, mode, announcing, slotVars, sessionVars, streaming,
                   castVars, controlVars, app>>

StreamingWillStart ==
    /\ pc["rtsp"] = "willstart"
    /\ streaming' = TRUE
    /\ Goto("rtsp", "respond")
    /\ UNCHANGED <<cur, todo, mode, announcing, slotVars, sessionVars, running,
                   castVars, controlVars, app>>

(* start() failed: the session is taken out of the slots again.            *)
Remove ==
    /\ pc["rtsp"] = "remove"
    /\ slotsLock = None
    /\ slots' = slots \ {announcing}
    /\ Goto("rtsp", "respond")
    /\ UNCHANGED <<cur, todo, mode, announcing, slotsLock, sessionVars,
                   countVars, castVars, controlVars, app>>

(* cmd_announce returns: its shared_ptr was the last one if the session    *)
(* has left the slots meanwhile.                                           *)
Respond ==
    /\ pc["rtsp"] = "respond"
    /\ announcing' = None
    /\ IF announcing \in slots
       THEN /\ Goto("rtsp", "peek")
            /\ UNCHANGED <<life, hold, ending, broadcastShutdown>>
       ELSE Destroy("rtsp", announcing, "peek")
    /\ UNCHANGED <<cur, todo, mode, slotVars, state, shutdown, controlEnd, thread,
                   pingSet, peer, countVars, broadcast, controlVars, app>>

(* One pass of the RTSP thread's loop, after iterate() has served an       *)
(* ANNOUNCE or something of no effect here: clear() once the broadcast is  *)
(* shutting down, else clear(false).                                       *)
Peek ==
    /\ pc["rtsp"] \in {"idle", "peek"}
    /\ mode' = [mode EXCEPT !["rtsp"] =
                   IF broadcastShutdown THEN "all" ELSE "stopping"]
    /\ Goto("rtsp", "lock")
    /\ UNCHANGED <<cur, todo, announcing, slotVars, sessionVars, countVars,
                   castVars, controlVars, app>>

-----------------------------------------------------------------------------
(* A web server's thread calls one of the three.                           *)

(* session_count, terminate_sessions, terminate_sessions_by_cert           *)
Call(m) ==
    /\ pc["https"] = "idle"
    /\ mode' = [mode EXCEPT !["https"] = m]
    /\ Goto("https", "lock")
    /\ UNCHANGED <<cur, todo, announcing, slotVars, sessionVars, countVars,
                   castVars, controlVars, app>>

-----------------------------------------------------------------------------
(* clear, clear_by_cert, join: the rtsp and https actors alike.            *)

(* Faulty variant: clear() does not take the lock of the slots.            *)
LockUnguarded(t) ==
    /\ pc[t] = "lock"
    /\ slotsLock' = t
    /\ todo' = [todo EXCEPT ![t] = slots]
    /\ Goto(t, "pick")
    /\ UNCHANGED <<cur, mode, announcing, slots, sessionVars, countVars, castVars,
                   controlVars, app>>

Lock(t) ==
    /\ pc[t] = "lock"
    /\ slotsLock = None
    /\ slotsLock' = t
    /\ todo' = [todo EXCEPT ![t] = slots]
    /\ Goto(t, "pick")
    /\ UNCHANGED <<cur, mode, announcing, slots, sessionVars, countVars, castVars,
                   controlVars, app>>

(* The next slot: reaped, if clear() wants it, or passed over. Which       *)
(* sessions have the client's certificate is left open.                    *)
Wanted(t, s) == CASE mode[t] = "all" -> {TRUE}
                  [] mode[t] = "stopping" -> {state[s] = "STOPPING"}
                  [] mode[t] = "cert" -> BOOLEAN

Reap(t, s) ==
    /\ pc[t] = "pick"
    /\ s \in todo[t]
    /\ TRUE \in Wanted(t, s)
    /\ Stop(s)
    /\ todo' = [todo EXCEPT ![t] = @ \ {s}]
    /\ cur' = [cur EXCEPT ![t] = s]
    /\ Goto(t, "join")
    /\ UNCHANGED <<mode, announcing, slotVars, life, controlEnd, thread, pingSet,
                   peer, hold, countVars, castVars, controlVars, app>>

PassOver(t, s) ==
    /\ pc[t] = "pick"
    /\ s \in todo[t]
    /\ FALSE \in Wanted(t, s)
    /\ todo' = [todo EXCEPT ![t] = @ \ {s}]
    /\ UNCHANGED <<pc, cur, mode, announcing, slotVars, sessionVars, countVars,
                   castVars, controlVars, app>>

Unlock(t) ==
    /\ pc[t] = "pick"
    /\ todo[t] = {}
    /\ slotsLock' = None
    /\ mode' = [mode EXCEPT ![t] = "stopping"]
    /\ Goto(t, "idle")
    /\ UNCHANGED <<cur, todo, announcing, slots, sessionVars, countVars,
                   castVars, controlVars, app>>

(* videoThread.join, audioThread.join.                                     *)
JoinThreads(t) ==
    /\ pc[t] = "join"
    /\ \A k \in Streams : thread[cur[t]][k] = "ended"
    /\ Goto(t, "controlEnd")
    /\ UNCHANGED <<cur, todo, mode, announcing, slotVars, sessionVars, countVars,
                   castVars, controlVars, app>>

(* Joining a thread that was never created throws: the lock is released    *)
(* and the rest of the walk is abandoned.                                  *)
JoinThrows(t) ==
    /\ pc[t] = "join"
    /\ \E k \in Streams : thread[cur[t]][k] = "none"
    /\ slotsLock' = None
    /\ todo' = [todo EXCEPT ![t] = {}]
    /\ cur' = [cur EXCEPT ![t] = None]
    /\ mode' = [mode EXCEPT ![t] = "stopping"]
    /\ Goto(t, "idle")
    /\ UNCHANGED <<announcing, slots, sessionVars, countVars, castVars,
                   controlVars, app>>

(* controlEnd.view()                                                       *)
JoinControl(t) ==
    /\ pc[t] = "controlEnd"
    /\ controlEnd[cur[t]]
    /\ Goto(t, "uncount")
    /\ UNCHANGED <<cur, todo, mode, announcing, slotVars, sessionVars, countVars,
                   castVars, controlVars, app>>

(* Faulty variant: the counter is kept from falling below zero.            *)
CountDownClamped(t) ==
    /\ pc[t] = "uncount"
    /\ running' = IF running = 0 THEN 0 ELSE running - 1
    /\ Goto(t, IF running' = 0 THEN "willstop" ELSE "erase")
    /\ UNCHANGED <<cur, todo, mode, announcing, slotVars, sessionVars, streaming,
                   castVars, controlVars, app>>

(* --running_sessions == 0, on an unsigned counter                         *)
CountDown(t) ==
    /\ pc[t] = "uncount"
    /\ running' = (running + UintMod - 1) % UintMod
    /\ Goto(t, IF running' = 0 THEN "willstop" ELSE "erase")
    /\ UNCHANGED <<cur, todo, mode, announcing, slotVars, sessionVars, streaming,
                   castVars, controlVars, app>>

StreamingWillStop(t) ==
    /\ pc[t] = "willstop"
    /\ streaming' = FALSE
    /\ Goto(t, "erase")
    /\ UNCHANGED <<cur, todo, mode, announcing, slotVars, sessionVars, running,
                   castVars, controlVars, app>>

(* The slot's shared_ptr goes; cmd_announce may still hold another.        *)
Erase(t) ==
    /\ pc[t] = "erase"
    /\ slots' = slots \ {cur[t]}
    /\ cur' = [cur EXCEPT ![t] = None]
    /\ IF announcing = cur[t]
       THEN /\ Goto(t, "pick")
            /\ UNCHANGED <<life, hold, ending, broadcastShutdown>>
       ELSE Destroy(t, cur[t], "pick")
    /\ UNCHANGED <<todo, mode, announcing, slotsLock, state, shutdown, controlEnd,
                   thread, pingSet, peer, countVars, broadcast, controlVars,
                   app>>

-----------------------------------------------------------------------------
(* videoThread and audioThread: they end when the shutdown event is        *)
(* raised, or on their own (no ping in time, capture failed). The fail     *)
(* guard stops the session.                                                *)
ThreadEnds(s, k) ==
    /\ thread[s][k] = "running"
    /\ thread' = [thread EXCEPT ![s][k] = "ended"]
    /\ Stop(s)
    /\ UNCHANGED <<reaperVars, announcing, slotVars, life, controlEnd, pingSet,
                   peer, hold, countVars, castVars, controlVars, app>>

-----------------------------------------------------------------------------
(* controlBroadcastThread.                                                 *)

(* Faulty variant: the shutdown of the broadcast does not end the loop.    *)
ControlLoopForEver ==
    /\ control = "loop"
    /\ control' = "scan"
    /\ scan' = listed
    /\ UNCHANGED <<reaperVars, announcing, slotVars, sessionVars, countVars,
                   castVars, listed, awaiting, app>>

ControlLoop ==
    /\ control = "loop"
    /\ control' = IF broadcastShutdown THEN "exit" ELSE "scan"
    /\ scan' = IF broadcastShutdown THEN {} ELSE listed
    /\ UNCHANGED <<reaperVars, announcing, slotVars, sessionVars, countVars,
                   castVars, listed, awaiting, app>>

(* Faulty variant: a session let go stays in the list.                     *)
VisitKeepsListed(s) ==
    /\ control = "scan"
    /\ s \in scan
    /\ ~broadcastShutdown
    /\ scan' = scan \ {s}
    /\ \/ Stop(s)
       \/ pingSet[s] /\ UNCHANGED <<state, shutdown>>
    /\ IF state'[s] = "STOPPING"
       THEN /\ listed' = listed
            /\ controlEnd' = [controlEnd EXCEPT ![s] = TRUE]
            /\ peer' = [peer EXCEPT ![s] = FALSE]
            /\ UNCHANGED awaiting
       ELSE /\ awaiting' = (awaiting \/ ~peer[s])
            /\ UNCHANGED <<listed, controlEnd, peer>>
    /\ UNCHANGED <<reaperVars, announcing, slotVars, life, thread, pingSet, hold,
                   countVars, castVars, control, app>>

(* Faulty variant: a session leaves the list and nobody is told.           *)
VisitNoControlEnd(s) ==
    /\ control = "scan"
    /\ s \in scan
    /\ ~broadcastShutdown
    /\ scan' = scan \ {s}
    /\ \/ Stop(s)
       \/ pingSet[s] /\ UNCHANGED <<state, shutdown>>
    /\ IF state'[s] = "STOPPING"
       THEN /\ listed' = listed \ {s}
            /\ controlEnd' = controlEnd
            /\ peer' = [peer EXCEPT ![s] = FALSE]
            /\ UNCHANGED awaiting
       ELSE /\ awaiting' = (awaiting \/ ~peer[s])
            /\ UNCHANGED <<listed, controlEnd, peer>>
    /\ UNCHANGED <<reaperVars, announcing, slotVars, life, thread, pingSet, hold,
                   countVars, castVars, control, app>>

(* One session of the pass. Its ping timeout may have expired, and has if  *)
(* it has no value yet; a STOPPING session is let go, with controlEnd as   *)
(* the last access to it.                                                  *)
Visit(s) ==
    /\ control = "scan"
    /\ s \in scan
    /\ ~broadcastShutdown
    /\ scan' = scan \ {s}
    /\ \/ Stop(s)
       \/ pingSet[s] /\ UNCHANGED <<state, shutdown>>
    /\ IF state'[s] = "STOPPING"
       THEN /\ listed' = listed \ {s}
            /\ controlEnd' = [controlEnd EXCEPT ![s] = TRUE]
            /\ peer' = [peer EXCEPT ![s] = FALSE]
            /\ UNCHANGED awaiting
       ELSE /\ awaiting' = (awaiting \/ ~peer[s])
            /\ UNCHANGED <<listed, controlEnd, peer>>
    /\ UNCHANGED <<reaperVars, announcing, slotVars, life, thread, pingSet, hold,
                   countVars, castVars, control, app>>

(* The pass is over, or is broken off by the shutdown of the broadcast.    *)
ScanDone ==
    /\ control = "scan"
    /\ scan = {} \/ broadcastShutdown
    /\ scan' = {}
    /\ control' = "check"
    /\ UNCHANGED <<reaperVars, announcing, slotVars, sessionVars, countVars,
                   castVars, listed, awaiting, app>>

(* proc.running() == 0 and no session waits for its peer.                  *)
Check ==
    /\ control = "check"
    /\ control' = IF ~app /\ ~awaiting THEN "exit" ELSE "iterate"
    /\ awaiting' = FALSE
    /\ UNCHANGED <<reaperVars, announcing, slotVars, sessionVars, countVars,
                   castVars, listed, scan, app>>

(* get_session claims a waiting session for the peer that has connected.   *)
Claim ==
    \E s \in listed :
        /\ ~peer[s]
        /\ peer' = [peer EXCEPT ![s] = TRUE]

(* server->iterate: no event, a peer connects, or a peer disconnects.      *)
(* Before it claims the session get_session calls launch_session_clear,    *)
(* whose pop() blocks when the launch session has just expired (module     *)
(* LaunchEvent), with the list locked.                                     *)
Service ==
    /\ control = "iterate"
    /\ \/ control' = "loop" /\ UNCHANGED <<peer, state, shutdown>>
       \/ control' = "loop" /\ Claim /\ UNCHANGED <<state, shutdown>>
       \/ /\ \E s \in listed : ~peer[s]
          /\ control' = "pop"
          /\ UNCHANGED <<peer, state, shutdown>>
       \/ /\ \E s \in listed : peer[s] /\ Stop(s)
          /\ control' = "loop"
          /\ UNCHANGED peer
    /\ UNCHANGED <<reaperVars, announcing, slotVars, life, controlEnd, thread,
                   pingSet, hold, countVars, castVars, listed, scan, awaiting,
                   app>>

(* Only a later launch, which nobody need request, ends that pop().        *)
Popped ==
    /\ control = "pop"
    /\ control' = "loop"
    /\ Claim
    /\ UNCHANGED <<reaperVars, announcing, slotVars, life, state, shutdown,
                   controlEnd, thread, pingSet, hold, countVars, castVars,
                   listed, scan, awaiting, app>>

(* The way out: every session still listed is shut down and let go.        *)
ControlExit ==
    /\ control = "exit"
    /\ shutdown' = [s \in Sessions |-> shutdown[s] \/ s \in listed]
    /\ controlEnd' = [s \in Sessions |-> controlEnd[s] \/ s \in listed]
    /\ control' = "done"
    /\ UNCHANGED <<reaperVars, announcing, slotVars, life, state, thread, pingSet,
                   peer, hold, countVars, castVars, listed, scan, awaiting, app>>

-----------------------------------------------------------------------------
(* The rest of the program.                                                *)

(* The video or audio broadcast thread ends: shutdown_event->raise(true).  *)
BroadcastFails ==
    /\ broadcast
    /\ ~broadcastShutdown
    /\ broadcastShutdown' = TRUE
    /\ UNCHANGED <<reaperVars, announcing, slotVars, sessionVars, countVars,
                   broadcast, ending, controlVars, app>>

(* proc.execute and the app's end.                                         *)
AppChanges ==
    /\ app' = ~app
    /\ UNCHANGED <<reaperVars, announcing, slotVars, sessionVars, countVars,
                   castVars, controlVars>>

-----------------------------------------------------------------------------
Announce ==
    \/ \E s \in Sessions : Alloc(s)
    \/ Insert \/ Ref \/ Push \/ StartThreads \/ StoreRunning \/ CountUp
    \/ StreamingWillStart \/ Remove \/ Respond \/ Peek

Clear(t) ==
    \/ Lock(t) \/ Unlock(t) \/ JoinThreads(t) \/ JoinThrows(t) \/ JoinControl(t)
    \/ CountDown(t) \/ StreamingWillStop(t) \/ Erase(t) \/ EndBroadcast(t)
    \/ \E s \in Sessions : Reap(t, s) \/ PassOver(t, s)

Control ==
    \/ ControlLoop \/ ScanDone \/ Check \/ Service \/ ControlExit
    \/ \E s \in Sessions : Visit(s)

Next ==
    \/ Announce
    \/ \E m \in Calls : Call(m)
    \/ \E t \in Reapers : Clear(t)
    \/ \E s \in Sessions, k \in Streams : ThreadEnds(s, k)
    \/ Control \/ Popped
    \/ BroadcastFails
    \/ AppChanges

Spec == Init /\ [][Next]_vars

(* Threads get to run, but for a control thread that is blocked; a stream  *)
(* thread notices the shutdown event. A mutex that is free again and again *)
(* is got in the end: the control thread gives up the list's lock for the  *)
(* 150 ms of every server->iterate, and calls from the web are far apart.  *)
Fairness ==
    /\ SF_vars(Announce)
    /\ \A t \in Reapers : SF_vars(Clear(t))
    /\ WF_vars(Control)
    /\ \A s \in Sessions, k \in Streams :
          WF_vars(shutdown[s] /\ ThreadEnds(s, k))

FairSpec == Spec /\ Fairness

-----------------------------------------------------------------------------
(* Properties.                                                             *)

(* The control thread works on raw pointers: whatever its list holds while *)
(* it may still touch it has not been destroyed, although sessions are     *)
(* reaped by two other threads.                                            *)
ListedAreAlive ==
    control \in {"loop", "scan", "check", "iterate", "pop", "exit"} =>
        \A s \in listed : life[s] = "alive"

(* A destroyed session has no thread left that could use it.               *)
FreedIsQuiet ==
    \A s \in Sessions : life[s] = "freed" =>
        /\ \A k \in Streams : thread[s][k] # "running"
        /\ ~hold[s]

(* Nothing uses a destroyed session: no thread of its own runs, and the    *)
(* control thread does not have it on its list.                            *)
FreedIsUnused == ListedAreAlive /\ FreedIsQuiet

(* The broadcast context lives exactly as long as somebody refers to it or *)
(* is taking it down: it is neither used after its end nor left running.   *)
BroadcastIsReferenced == broadcast <=> Referenced(hold) \/ ending # None

(* How far the context is, and the sessions it is used for.                *)
Stage == IF ~broadcast THEN "none" ELSE IF ending # None THEN "going" ELSE "up"

Streaming ==
    {s \in Sessions : hold[s] \/ \E k \in Streams : thread[s][k] = "running"}

(* The context as its users see it.                                        *)
Cast == INSTANCE SharedObject WITH
    Users <- Sessions, object <- Stage, users <- Streaming

(* Sessions share the broadcast context as shared_t promises: it is made   *)
(* for the first, whichever threads destroy sessions it is taken down only *)
(* after the last, and an ANNOUNCE that comes meanwhile waits for its end. *)
SharesBroadcast == Cast!Spec

(* A session is reaped by one thread at a time, and still exists then.     *)
ReapedOnce ==
    \A t \in Reapers : cur[t] # None =>
        /\ life[cur[t]] = "alive"
        /\ cur[t] \in slots
        /\ \A u \in Reapers \ {t} : cur[u] # cur[t]

(* With both threads outside start() and clear(), running_sessions counts  *)
(* the sessions in the slots, whatever interleaving led there: the         *)
(* unsigned counter may wrap below zero, but only on its way.              *)
QuietCount ==
    (\A t \in Reapers : pc[t] = "idle") => running = Cardinality(slots)

(* A control thread that has gone, and with it whoever would raise         *)
(* controlEnd for a session it never let go.                               *)
Orphaned(s) == control = "done" /\ s \in listed /\ ~controlEnd[s]

(* A session that is joined without having been stopped: stop() found it   *)
(* not RUNNING yet.                                                        *)
JoinedRunning ==
    \E t \in Reapers : pc[t] \in JoinPcs /\ state[cur[t]] # "STOPPING"

(* The control thread blocks in session_clear, and no launch comes.        *)
Wedged == <>[](control = "pop")

(* A session that is stopping is reaped in the end, unless the control     *)
(* thread left without serving some session, is blocked for ever, or a     *)
(* session is being joined that stop() did not stop.                       *)
StoppingIsReaped ==
    \/ Wedged
    \/ \A s \in Sessions : state[s] = "STOPPING" ~>
           life[s] = "freed" \/ (\E r \in Sessions : Orphaned(r)) \/ JoinedRunning

(* end_broadcast joins its threads under the lock of the shared_t and, in  *)
(* clear(), under that of the slots: it comes back, unless the control     *)
(* thread, which it joins too, is blocked for ever.                        *)
BroadcastEnds == Wedged \/ (ending # None ~> ending = None)
=============================================================================
