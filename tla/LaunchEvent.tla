---------------------------- MODULE LaunchEvent ----------------------------
(***************************************************************************)
(* The one-slot mailbox that carries a launch session from the HTTPS       *)
(* server to the RTSP server (rtsp_server_t::launch_event), together with  *)
(* the expiry timer that empties it and the control thread that empties it *)
(* once the client's control stream is connected.                          *)
(*                                                                         *)
(* Three threads of the program act here:                                  *)
(*   https    nvhttp launch and resume call launch_session_raise;          *)
(*   rtsp     the asio loop: accepts sockets, runs the expiry handler;     *)
(*   control  stream::control_server_t::get_session calls                  *)
(*            launch_session_clear for the session a peer is matched to.   *)
(*                                                                         *)
(* Every access to the slot is one critical section of safe::event_t, so   *)
(* each is one action; the code between two accesses is where the others   *)
(* get in.                                                                 *)
(***************************************************************************)
EXTENDS Naturals, FiniteSets

CONSTANTS
    MaxLaunch,      \* bound: how many launch and resume requests arrive
    MaxAnnounce,    \* bound: ANNOUNCE requests served per launch session
    Empty

ASSUME LaunchAssumption ==
    /\ MaxLaunch \in Nat
    /\ MaxAnnounce \in Nat
    /\ Empty \notin Nat

(* Launch sessions are numbered by ++session_id_counter.                   *)
Launches == 1 .. MaxLaunch

VARIABLES
    slot,       \* launch_event._status: the pending launch session, or None
    launched,   \* session_id_counter
    https,      \* pc of the HTTPS thread inside session_raise
    timer,      \* session whose async_wait is armed on raised_timer, or None
    expired,    \* sessions whose handler asio has queued with no error code
    sockets,    \* sessions attached to an accepted, still open RTSP socket
    unmatched,  \* stream sessions without a control peer, per launch session
    announced,  \* ANNOUNCE requests served, per launch session
    clearer,    \* pc of the control thread inside session_clear
    clearing,   \* the id session_clear was called with
    viewed,     \* what its view(0s) returned
    taken       \* who emptied the slot of each session (history)

launchVars == <<slot, launched, https, timer, expired, sockets, unmatched,
                announced, clearer, clearing, viewed, taken>>

httpsVars   == <<launched, https>>
rtspVars    == <<expired, sockets, announced>>
clearVars   == <<clearer, clearing, viewed>>

LaunchTypeOK ==
    /\ slot \in Launches \cup {Empty}
    /\ launched \in 0 .. MaxLaunch
    /\ https \in {"idle", "raise", "arm"}
    /\ timer \in Launches \cup {Empty}
    /\ expired \in SUBSET Launches
    /\ sockets \in SUBSET Launches
    /\ unmatched \in [Launches -> 0 .. MaxAnnounce]
    /\ announced \in [Launches -> 0 .. MaxAnnounce]
    /\ clearer \in {"idle", "view", "cancel", "pop", "peer"}
    /\ clearing \in Launches \cup {Empty}
    /\ viewed \in Launches \cup {Empty}
    /\ taken \in [Launches -> {"nobody", "timer", "control"}]

LaunchInit ==
    /\ slot = Empty
    /\ launched = 0
    /\ https = "idle"
    /\ timer = Empty
    /\ expired = {}
    /\ sockets = {}
    /\ unmatched = [s \in Launches |-> 0]
    /\ announced = [s \in Launches |-> 0]
    /\ clearer = "idle"
    /\ clearing = Empty
    /\ viewed = Empty
    /\ taken = [s \in Launches |-> "nobody"]

-----------------------------------------------------------------------------
(* The HTTPS thread: make_launch_session, then session_raise.              *)

(* Faulty variant: the slot is not looked at before it is filled.          *)
RaiseViewUnguarded ==
    /\ https = "idle"
    /\ launched < MaxLaunch
    /\ launched' = launched + 1
    /\ https' = "raise"
    /\ UNCHANGED <<slot, timer, rtspVars, unmatched, clearVars, taken>>

(* launch_event.view(0s): a session still pending is not overwritten, the  *)
(* new one is dropped.                                                     *)
RaiseView ==
    /\ https = "idle"
    /\ launched < MaxLaunch
    /\ launched' = launched + 1
    /\ https' = IF slot = Empty THEN "raise" ELSE "idle"
    /\ UNCHANGED <<slot, timer, rtspVars, unmatched, clearVars, taken>>

(* launch_event.raise: event_t::raise replaces whatever _status holds.     *)
RaisePut ==
    /\ https = "raise"
    /\ slot' = launched
    /\ https' = "arm"
    /\ UNCHANGED <<launched, timer, rtspVars, unmatched, clearVars, taken>>

(* Faulty variant: expires_after without the async_wait.                   *)
RaiseArmNoWait ==
    /\ https = "arm"
    /\ timer' = Empty
    /\ https' = "idle"
    /\ UNCHANGED <<slot, launched, rtspVars, unmatched, clearVars, taken>>

(* raised_timer.expires_after aborts a wait still armed, async_wait arms   *)
(* the next. A handler that asio has already queued is out of its reach.   *)
RaiseArm ==
    /\ https = "arm"
    /\ timer' = launched
    /\ https' = "idle"
    /\ UNCHANGED <<slot, launched, rtspVars, unmatched, clearVars, taken>>

-----------------------------------------------------------------------------
(* The RTSP thread: asio's reactor, the timer handler, accepted sockets.   *)

(* asio collects the expired wait and queues its handler.                  *)
TimerExpires ==
    /\ timer # Empty
    /\ expired' = expired \cup {timer}
    /\ timer' = Empty
    /\ UNCHANGED <<slot, httpsVars, sockets, unmatched, announced, clearVars,
                   taken>>

(* The handler: launch_event.pop(0s), whichever session is there.          *)
TimerHandler(s) ==
    /\ s \in expired
    /\ expired' = expired \ {s}
    /\ slot' = Empty
    /\ taken' = IF slot = Empty THEN taken
                ELSE [taken EXCEPT ![slot] = "timer"]
    /\ UNCHANGED <<httpsVars, timer, sockets, unmatched, announced,
                   clearVars>>

(* handle_accept: the socket keeps a reference to the pending session; with *)
(* none pending it is closed at once.                                       *)
Accept ==
    /\ slot # Empty
    /\ sockets' = sockets \cup {slot}
    /\ UNCHANGED <<slot, httpsVars, timer, expired, unmatched, announced,
                   clearVars, taken>>

(* handle_msg answers the request and shuts the socket down. An ANNOUNCE   *)
(* leaves a stream session waiting for its control peer.                   *)
HandleMsg(s) ==
    /\ s \in sockets
    /\ sockets' = sockets \ {s}
    /\ \/ /\ announced[s] < MaxAnnounce
          /\ announced' = [announced EXCEPT ![s] = @ + 1]
          /\ unmatched' = [unmatched EXCEPT ![s] = @ + 1]
       \/ UNCHANGED <<announced, unmatched>>
    /\ UNCHANGED <<slot, httpsVars, timer, expired, clearVars, taken>>

-----------------------------------------------------------------------------
(* The control thread: get_session matched a peer to a waiting session.    *)

GetSession(s) ==
    /\ clearer = "idle"
    /\ unmatched[s] > 0
    /\ clearer' = "view"
    /\ clearing' = s
    /\ UNCHANGED <<slot, httpsVars, timer, rtspVars, unmatched, viewed, taken>>

(* Faulty variant: the ids are not compared.                               *)
ClearViewIdUnchecked ==
    /\ clearer = "view"
    /\ viewed' = slot
    /\ clearer' = IF slot # Empty THEN "cancel" ELSE "peer"
    /\ UNCHANGED <<slot, httpsVars, timer, rtspVars, unmatched, clearing,
                   taken>>

(* launch_event.view(0s): nothing pending, or another session's id, ends   *)
(* session_clear.                                                          *)
ClearView ==
    /\ clearer = "view"
    /\ viewed' = slot
    /\ clearer' = IF slot = clearing THEN "cancel" ELSE "peer"
    /\ UNCHANGED <<slot, httpsVars, timer, rtspVars, unmatched, clearing,
                   taken>>

(* Faulty variant: the timer is cancelled and the session left pending.    *)
ClearCancelNoPop ==
    /\ clearer = "cancel"
    /\ timer' = Empty
    /\ clearer' = "peer"
    /\ UNCHANGED <<slot, httpsVars, rtspVars, unmatched, clearing, viewed,
                   taken>>

(* raised_timer.cancel() aborts whatever wait is armed now.                *)
ClearCancel ==
    /\ clearer = "cancel"
    /\ timer' = Empty
    /\ clearer' = "pop"
    /\ UNCHANGED <<slot, httpsVars, rtspVars, unmatched, clearing, viewed,
                   taken>>

(* launch_event.pop() without a timeout: it waits until the slot is full.  *)
ClearPop ==
    /\ clearer = "pop"
    /\ slot # Empty
    /\ taken' = [taken EXCEPT ![slot] = "control"]
    /\ slot' = Empty
    /\ clearer' = "peer"
    /\ UNCHANGED <<httpsVars, timer, rtspVars, unmatched, clearing, viewed>>

(* Back in get_session: the peer is assigned, the session no longer waits. *)
AssignPeer ==
    /\ clearer = "peer"
    /\ unmatched' = [unmatched EXCEPT ![clearing] = @ - 1]
    /\ clearer' = "idle"
    /\ clearing' = Empty
    /\ viewed' = Empty
    /\ UNCHANGED <<slot, httpsVars, timer, rtspVars, taken>>

-----------------------------------------------------------------------------
Https == RaiseView \/ RaisePut \/ RaiseArm

Rtsp ==
    \/ TimerExpires
    \/ Accept
    \/ \E s \in Launches : TimerHandler(s) \/ HandleMsg(s)

ControlThread ==
    \/ ClearView
    \/ ClearCancel
    \/ ClearPop
    \/ AssignPeer
    \/ \E s \in Launches : GetSession(s)

LaunchNext == Https \/ Rtsp \/ ControlThread

LaunchSpec == LaunchInit /\ [][LaunchNext]_launchVars

(* A request in progress runs on, an armed timer expires and its handler   *)
(* is run; nothing obliges a client to connect or a user to launch.        *)
LaunchFairness ==
    /\ WF_launchVars(RaisePut \/ RaiseArm)
    /\ WF_launchVars(TimerExpires)
    /\ \A s \in Launches : WF_launchVars(TimerHandler(s))
    /\ WF_launchVars(ClearView \/ ClearCancel \/ ClearPop \/ AssignPeer)

LaunchFairSpec == LaunchSpec /\ LaunchFairness

-----------------------------------------------------------------------------
(* Properties.                                                             *)

(* "If a launch event is still pending, don't overwrite it": no step puts  *)
(* another session over a pending one, although session_raise looks at the *)
(* slot in one critical section and fills it in another.                   *)
NoOverwrite == [][slot # Empty => slot' \in {slot, Empty}]_launchVars

(* A launch session leaves the slot once: the expiry handler and the       *)
(* control thread never both account for it, and it never comes back.      *)
TakenForGood == [][\A s \in Launches : taken[s] # "nobody" =>
                        taken'[s] = taken[s] /\ slot' # s]_launchVars

(* The blocking pop() of session_clear finds the slot empty only if the    *)
(* expiry handler emptied it after session_clear had looked: a cancelled   *)
(* timer never leaves the control thread stuck.                            *)
StuckOnlyByExpiry ==
    clearer = "pop" /\ slot = Empty => taken[clearing] = "timer"

(* The session that session_clear has looked at and accepted is the one it *)
(* was called for, and it was pending: it is in the slot or has been taken *)
(* by the expiry handler, never silently replaced.                         *)
ViewedStillAccounted ==
    clearer \in {"cancel", "pop"} =>
        viewed = clearing /\ (slot = viewed \/ taken[viewed] = "timer")

(* A pending launch session does not stay pending for ever: it is taken by *)
(* the control thread or by the expiry handler. Without it no later launch *)
(* could be raised.                                                        *)
PendingLeaves == \A s \in Launches : slot = s ~> slot # s

(* A session in the slot always has someone who will take it: an armed     *)
(* wait, a queued handler, the HTTPS thread about to arm one, or the       *)
(* control thread about to pop.                                            *)
PendingIsCovered ==
    slot # Empty => \/ timer # Empty
                    \/ expired # {}
                    \/ https = "arm"
                    \/ clearer = "pop"
=============================================================================
