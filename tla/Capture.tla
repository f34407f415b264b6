------------------------------ MODULE Capture -------------------------------
(***************************************************************************)
(* One thread captures the display for all streams: captureThread and      *)
(* capture_async of video.cpp. The first session to ask for the context    *)
(* starts the thread, the last to let go ends and joins it, under the lock *)
(* of the shared_t. A session hands the thread its slot for images through *)
(* capture_ctx_queue and encodes, on a thread of its own, what it finds    *)
(* there, with a device made for the display it took from display_wp.      *)
(*                                                                         *)
(* When the display is lost the capture thread raises reinit_event, waits  *)
(* until nobody else holds the display, and makes a new one. Who holds it: *)
(* an encoder, an image of it that was not consumed, an encode session     *)
(* that is torn down in a detached thread.                                 *)
(*                                                                         *)
(* Three things the code does not guard against are kept in variables: an  *)
(* encoder that passed its look at reinit_event takes the display when the *)
(* wait is over (late); contexts are dropped by a full queue (dropped);    *)
(* an element that is not there is used (crashed): the first of no         *)
(* contexts when the display is reset, or what a queue that was stopped    *)
(* after peek() gives to pop().                                            *)
(***************************************************************************)
EXTENDS Integers, SequencesExt

CONSTANTS
    Sessions,       \* sessions, each of which calls capture_async once
    QueueSize,      \* max_elements of capture_ctx_queue
    AsyncTeardown,  \* the encoder's flag ASYNC_TEARDOWN
    MaxDisplays     \* bound: the displays that are opened

ASSUME CaptureAssumption ==
    /\ IsFiniteSet(Sessions)
    /\ QueueSize \in Nat \ {0}
    /\ AsyncTeardown \in BOOLEAN
    /\ MaxDisplays \in Nat

VARIABLES
    count,      \* shared_t::_count
    queue,      \* capture_ctx_queue: does it run, and its elements
    reinit,     \* reinit_event
    wp,         \* the display display_wp points to
    disp,       \* the capture thread's display
    opened,     \* displays opened so far
    ctxs,       \* capture_ctxs
    cpc,        \* where the capture thread is
    images,     \* a session's images event: does it run, and its image's display
    shutdown,   \* sessions whose shutdown event is raised
    device,     \* the display of a session's encode device
    first,      \* sessions that have encoded no frame yet: frame_nr = 1
    pc,         \* where a session's video thread is
    teardown,   \* displays of the encode sessions that are being torn down
    late,       \* displays that were taken after the wait for their release
    dropped,    \* sessions whose context a full queue lost
    crashed     \* capture_ctxs.front() of an empty vector, *pop() of nothing

captureVars == <<wp, disp, opened, ctxs, cpc>>
encodeVars  == <<shutdown, device, first, pc>>
vars == <<count, queue, reinit, captureVars, images, encodeVars, teardown,
          late, dropped, crashed>>

NoDisplay == 0
Displays == 1 .. MaxDisplays

Queued == ToSet(queue.items)
Active == {"loop", "lock", "device", "encode"}

TypeOK ==
    /\ count \in 0 .. Cardinality(Sessions)
    /\ queue \in [runs : BOOLEAN, items : Seq(Sessions)]
    /\ Len(queue.items) <= QueueSize
    /\ reinit \in BOOLEAN
    /\ {wp, disp} \subseteq Displays \cup {NoDisplay}
    /\ opened \in 0 .. MaxDisplays
    /\ ctxs \in SUBSET Sessions
    /\ cpc \in {"off", "initial", "open", "capture", "peek", "pop", "wait",
                "reset", "renew", "publish", "settle", "exit", "tell"}
    /\ images \in [Sessions -> [runs : BOOLEAN,
                                of : Displays \cup {NoDisplay}]]
    /\ shutdown \in SUBSET Sessions
    /\ device \in [Sessions -> Displays \cup {NoDisplay}]
    /\ first \in SUBSET Sessions
    /\ pc \in [Sessions -> Active \cup {"new", "raise", "check", "leave",
                                        "joining", "stop", "done"}]
    /\ teardown \in SUBSET Displays
    /\ late \in SUBSET Displays
    /\ dropped \in SUBSET Sessions
    /\ crashed \in BOOLEAN

Init ==
    /\ count = 0
    /\ queue = [runs |-> FALSE, items |-> <<>>]
    /\ reinit = FALSE
    /\ wp = NoDisplay
    /\ disp = NoDisplay
    /\ opened = 0
    /\ ctxs = {}
    /\ cpc = "off"
    /\ images = [s \in Sessions |-> [runs |-> TRUE, of |-> NoDisplay]]
    /\ shutdown = {}
    /\ device = [s \in Sessions |-> NoDisplay]
    /\ first = Sessions
    /\ pc = [s \in Sessions |-> "new"]
    /\ teardown = {}
    /\ late = {}
    /\ dropped = {}
    /\ crashed = FALSE

-----------------------------------------------------------------------------
(* The display's shared_ptr, besides the capture thread's own.             *)

\* An images event lives with its session and with those who list it.
Listed(s) == pc[s] # "done" \/ s \in ctxs \/ s \in Queued

HeldElsewhere(d) ==
    \/ d \in teardown
    \/ \E s \in Sessions :
           device[s] = d \/ (images[s].of = d /\ Listed(s))

Alive(d) == d # NoDisplay /\ (disp = d \/ HeldElsewhere(d))

-----------------------------------------------------------------------------
(* A session's video thread: capture_async()                               *)

\* end_capture_async() joins the capture thread with the lock held.
Unlocked == \A s \in Sessions : pc[s] # "joining"

Move(s, from, to) ==
    /\ ~crashed
    /\ pc[s] = from
    /\ pc' = [pc EXCEPT ![s] = to]

\* ref(); the first makes the context anew and starts the capture thread.
Ref(s) ==
    /\ Move(s, "new", "raise")
    /\ Unlocked
    /\ count' = count + 1
    /\ IF count = 0
       THEN /\ queue' = [runs |-> TRUE, items |-> <<>>]
            /\ reinit' = FALSE
            /\ wp' = NoDisplay
            /\ cpc' = "initial"
       ELSE UNCHANGED <<queue, reinit, wp, cpc>>
    /\ UNCHANGED <<disp, opened, ctxs, images, shutdown, device, first,
                   teardown, late, dropped, crashed>>

\* queue_t::raise(): nothing once it is stopped; a full queue is emptied.
Raise(s) ==
    /\ Move(s, "raise", "check")
    /\ IF ~queue.runs THEN UNCHANGED <<queue, dropped>>
       ELSE IF Len(queue.items) = QueueSize
       THEN /\ queue' = [queue EXCEPT !.items = <<s>>]
            /\ dropped' = dropped \cup Queued
       ELSE /\ queue' = [queue EXCEPT !.items = Append(@, s)]
            /\ UNCHANGED dropped
    /\ UNCHANGED <<count, reinit, captureVars, images, shutdown, device, first,
                   teardown, late, crashed>>

Check(s) ==
    /\ Move(s, "check", IF queue.runs THEN "loop" ELSE "leave")
    /\ UNCHANGED <<count, queue, reinit, captureVars, images, shutdown, device,
                   first, teardown, late, dropped, crashed>>

\* The loop's condition, and the look at reinit_event.
Loop(s) ==
    /\ IF s \in shutdown \/ ~images[s].runs THEN Move(s, "loop", "leave")
       ELSE Move(s, "loop", "lock") /\ ~reinit
    /\ UNCHANGED <<count, queue, reinit, captureVars, images, shutdown, device,
                   first, teardown, late, dropped, crashed>>

\* display_wp->lock(). The capture thread may have counted the holders.
LockDisplay(s) ==
    /\ Move(s, "lock", IF Alive(wp) THEN "device" ELSE "loop")
    /\ device' = [device EXCEPT ![s] = IF Alive(wp) THEN wp ELSE NoDisplay]
    /\ late' = IF Alive(wp) /\ cpc \in {"reset", "renew", "publish"}
               THEN late \cup {wp} ELSE late
    /\ UNCHANGED <<count, queue, reinit, captureVars, images, shutdown, first,
                   teardown, dropped, crashed>>

\* make_encode_device(): capture_async returns when there is none.
MakeDevice(s) ==
    /\ \/ Move(s, "device", "encode") /\ UNCHANGED device
       \/ /\ Move(s, "device", "leave")
          /\ device' = [device EXCEPT ![s] = NoDisplay]
    /\ UNCHANGED <<count, queue, reinit, captureVars, images, shutdown, first,
                   teardown, late, dropped, crashed>>

\* One pass of encode_run(): an image, if there is one, is converted, and a
\* frame encoded.
Encode(s) ==
    /\ Move(s, "encode", "encode")
    /\ s \notin shutdown /\ images[s].runs /\ (reinit => s \in first)
    /\ images' = [images EXCEPT ![s].of = NoDisplay]
    /\ first' = first \ {s}
    /\ UNCHANGED <<count, queue, reinit, captureVars, shutdown, device,
                   teardown, late, dropped, crashed>>

\* encode_run() returns, for a reason of its own or because it fails, with or
\* without an image taken; its session is destroyed here or in another thread.
EncodeEnds(s) ==
    /\ Move(s, "encode", "loop")
    /\ images' \in {images, [images EXCEPT ![s].of = NoDisplay]}
    /\ device' = [device EXCEPT ![s] = NoDisplay]
    /\ teardown' \in {teardown} \cup
           IF AsyncTeardown THEN {teardown \cup {device[s]}} ELSE {}
    /\ UNCHANGED <<count, queue, reinit, captureVars, shutdown, first, late,
                   dropped, crashed>>

TeardownDone ==
    /\ ~crashed
    /\ \E d \in teardown : teardown' = teardown \ {d}
    /\ UNCHANGED <<count, queue, reinit, captureVars, images, encodeVars, late,
                   dropped, crashed>>

\* Faulty variant: the last session does not stop the queue.
LeaveKeepsQueue(s) ==
    /\ Move(s, "leave", IF count = 1 THEN "joining" ELSE "stop")
    /\ Unlocked
    /\ count' = count - 1
    /\ UNCHANGED <<queue, reinit, captureVars, images, shutdown, device, first,
                   teardown, late, dropped, crashed>>

\* The reference goes before the fail guard runs: it was taken after it.
Leave(s) ==
    /\ Move(s, "leave", IF count = 1 THEN "joining" ELSE "stop")
    /\ Unlocked
    /\ count' = count - 1
    /\ queue' = IF count = 1 THEN [queue EXCEPT !.runs = FALSE] ELSE queue
    /\ UNCHANGED <<reinit, captureVars, images, shutdown, device, first,
                   teardown, late, dropped, crashed>>

Joined(s) ==
    /\ Move(s, "joining", "stop")
    /\ cpc = "off"
    /\ UNCHANGED <<count, queue, reinit, captureVars, images, shutdown, device,
                   first, teardown, late, dropped, crashed>>

StopImages(s) ==
    /\ Move(s, "stop", "done")
    /\ images' = [images EXCEPT ![s].runs = FALSE]
    /\ shutdown' = shutdown \cup {s}
    /\ UNCHANGED <<count, queue, reinit, captureVars, device, first, teardown,
                   late, dropped, crashed>>

\* The stream is stopped, while that still matters here.
Shutdown(s) ==
    /\ ~crashed
    /\ pc[s] \in Active \cup {"raise", "check"}
    /\ s \notin shutdown
    /\ shutdown' = shutdown \cup {s}
    /\ UNCHANGED <<count, queue, reinit, captureVars, images, device, first, pc,
                   teardown, late, dropped, crashed>>

-----------------------------------------------------------------------------
(* The capture thread                                                      *)

Step(from, to) ==
    /\ ~crashed
    /\ cpc = from
    /\ cpc' = to

PopInitial ==
    /\ IF queue.runs
       THEN /\ Step("initial", "open")
            /\ queue.items # <<>>
            /\ ctxs' = {Head(queue.items)}
            /\ queue' = [queue EXCEPT !.items = Tail(@)]
       ELSE Step("initial", "exit") /\ UNCHANGED <<ctxs, queue>>
    /\ UNCHANGED <<count, reinit, wp, disp, opened, images, encodeVars,
                   teardown, late, dropped, crashed>>

\* platf::display(): it may find none.
OpenDisplay ==
    /\ opened < MaxDisplays
    /\ disp' = opened + 1
    /\ opened' = opened + 1

Open ==
    /\ \/ Step("open", "capture") /\ OpenDisplay /\ wp' = disp'
       \/ Step("open", "exit") /\ UNCHANGED <<disp, opened, wp>>
    /\ UNCHANGED <<count, queue, reinit, ctxs, images, encodeVars, teardown,
                   late, dropped, crashed>>

Running == {s \in ctxs : images[s].runs}

\* push_captured_image_callback, with or without a frame, up to its look at
\* running() ...
Push ==
    /\ Step("capture", IF queue.runs THEN "peek" ELSE "exit")
    /\ \E frame \in BOOLEAN :
           images' = [s \in Sessions |->
               IF frame /\ s \in Running THEN [images[s] EXCEPT !.of = disp]
               ELSE images[s]]
    /\ ctxs' = Running
    /\ UNCHANGED <<count, queue, reinit, wp, disp, opened, encodeVars, teardown,
                   late, dropped, crashed>>

\* ... and its loop over the queue, whose condition is peek() ...
Peek ==
    /\ Step("peek", IF queue.runs /\ queue.items # <<>> THEN "pop"
                    ELSE "capture")
    /\ UNCHANGED <<count, queue, reinit, wp, disp, opened, ctxs, images,
                   encodeVars, teardown, late, dropped, crashed>>

\* ... and whose body uses what pop() returns: nothing, once the queue was
\* stopped since that look.
Pop ==
    /\ Step("pop", "peek")
    /\ IF queue.runs
       THEN /\ queue.items # <<>>
            /\ ctxs' = ctxs \cup {Head(queue.items)}
            /\ queue' = [queue EXCEPT !.items = Tail(@)]
            /\ UNCHANGED crashed
       ELSE crashed' = TRUE /\ UNCHANGED <<ctxs, queue>>
    /\ UNCHANGED <<count, reinit, wp, disp, opened, images, encodeVars,
                   teardown, late, dropped>>

CaptureFails ==
    /\ Step("capture", "exit")
    /\ UNCHANGED <<count, queue, reinit, wp, disp, opened, ctxs, images,
                   encodeVars, teardown, late, dropped, crashed>>

\* The display was lost, or another is asked for.
Reinit ==
    /\ Step("capture", "wait")
    /\ reinit' = TRUE
    /\ UNCHANGED <<count, queue, wp, disp, opened, ctxs, images, encodeVars,
                   teardown, late, dropped, crashed>>

\* Faulty variant: only encoders are waited for.
WaitForEncoders ==
    /\ IF \E s \in Sessions : device[s] = disp
       THEN /\ Step("wait", "wait")
            /\ ctxs' = Running
            /\ images' = [s \in Sessions |->
                   IF s \in Running THEN [images[s] EXCEPT !.of = NoDisplay]
                   ELSE images[s]]
       ELSE Step("wait", "reset") /\ UNCHANGED <<ctxs, images>>
    /\ UNCHANGED <<count, queue, reinit, wp, disp, opened, encodeVars, teardown,
                   late, dropped, crashed>>

Wait ==
    /\ IF HeldElsewhere(disp)
       THEN /\ Step("wait", "wait")
            /\ ctxs' = Running
            /\ images' = [s \in Sessions |->
                   IF s \in Running THEN [images[s] EXCEPT !.of = NoDisplay]
                   ELSE images[s]]
       ELSE Step("wait", "reset") /\ UNCHANGED <<ctxs, images>>
    /\ UNCHANGED <<count, queue, reinit, wp, disp, opened, encodeVars, teardown,
                   late, dropped, crashed>>

\* The loop that asks for a display as long as the queue runs.
Reset ==
    /\ IF queue.runs THEN Step("reset", "renew") /\ disp' = NoDisplay
       ELSE /\ Step("reset", IF disp = NoDisplay THEN "exit" ELSE "publish")
            /\ UNCHANGED disp
    /\ UNCHANGED <<count, queue, reinit, wp, opened, ctxs, images, encodeVars,
                   teardown, late, dropped, crashed>>

\* reset_display(), for the first context's configuration.
Renew ==
    /\ crashed' = (ctxs = {})
    /\ \/ Step("renew", "publish") /\ OpenDisplay
       \/ Step("renew", "reset") /\ UNCHANGED <<disp, opened>>
    /\ UNCHANGED <<count, queue, reinit, wp, ctxs, images, encodeVars, teardown,
                   late, dropped>>

Publish ==
    /\ Step("publish", "settle")
    /\ wp' = disp
    /\ UNCHANGED <<count, queue, reinit, disp, opened, ctxs, images, encodeVars,
                   teardown, late, dropped, crashed>>

Settle ==
    /\ Step("settle", IF queue.runs THEN "capture" ELSE "exit")
    /\ reinit' = FALSE
    /\ UNCHANGED <<count, queue, wp, disp, opened, ctxs, images, encodeVars,
                   teardown, late, dropped, crashed>>

\* The display goes before the fail guard runs, which stops the queue ...
Exit ==
    /\ Step("exit", "tell")
    /\ disp' = NoDisplay
    /\ queue' = [queue EXCEPT !.runs = FALSE]
    /\ UNCHANGED <<count, reinit, wp, opened, ctxs, images, encodeVars,
                   teardown, late, dropped, crashed>>

StopAll(told) ==
    images' = [s \in Sessions |->
        IF s \in told THEN [images[s] EXCEPT !.runs = FALSE] ELSE images[s]]

\* Faulty variant: contexts that are still queued are forgotten.
TellTaken ==
    /\ Step("tell", "off")
    /\ StopAll(ctxs)
    /\ ctxs' = {}
    /\ UNCHANGED <<count, queue, reinit, wp, disp, opened, encodeVars, teardown,
                   late, dropped, crashed>>

\* ... and then the images of every session that listens.
Tell ==
    /\ Step("tell", "off")
    /\ StopAll(ctxs \cup Queued)
    /\ ctxs' = {}
    /\ UNCHANGED <<count, queue, reinit, wp, disp, opened, encodeVars, teardown,
                   late, dropped, crashed>>

-----------------------------------------------------------------------------
SessionStep(s) ==
    \/ Raise(s) \/ Check(s) \/ Loop(s) \/ LockDisplay(s) \/ MakeDevice(s)
    \/ Encode(s) \/ Leave(s) \/ Joined(s) \/ StopImages(s)

CaptureStep ==
    \/ PopInitial \/ Open \/ Push \/ Peek \/ Pop \/ Wait \/ Reset \/ Renew
    \/ Publish \/ Settle \/ Exit \/ Tell

Next ==
    \/ \E s \in Sessions :
           Ref(s) \/ SessionStep(s) \/ EncodeEnds(s) \/ Shutdown(s)
    \/ CaptureStep \/ CaptureFails \/ Reinit
    \/ TeardownDone

Spec == Init /\ [][Next]_vars

\* What makes encode_run() leave its loop.
MustEnd(s) == s \in shutdown \/ ~images[s].runs \/ (reinit /\ s \notin first)

\* Threads go on; images->pop() has a timeout, the display calls back at
\* least that often. Nothing is assumed of an encode session that is torn
\* down in a thread of its own: "this thread may probably never exit".
FairSpec ==
    /\ Spec
    /\ \A s \in Sessions :
           WF_vars(SessionStep(s) \/ (MustEnd(s) /\ EncodeEnds(s)))
    /\ WF_vars(CaptureStep)

-----------------------------------------------------------------------------
(* Properties                                                              *)

\* An encoder is only ever given images of the display its device was made
\* for, across every reinitialization, unless it took that display late.
CurrentImages ==
    \A s \in Sessions :
        (pc[s] = "encode" /\ images[s].of # NoDisplay) =>
            images[s].of = device[s] \/ device[s] \in late

\* A lost display is replaced only when all encoders, images and teardowns
\* have let go of it, unless it was taken late.
NewDisplayAlone == cpc = "renew" => wp \in late \/ ~HeldElsewhere(wp)

\* The display that was lost and the one that replaces it do not mix.
DisplaysApart == TypeOK /\ CurrentImages /\ NewDisplayAlone

\* When the capture thread has ended, no session goes on that was not told:
\* whether its context was taken, still queued, or came too late.
ContextsTold ==
    cpc = "off" =>
        \A s \in Sessions \ dropped : pc[s] \in Active => ~images[s].runs

\* A session that is stopped ends, though it may have to end and join the
\* capture thread, and that may be waiting for a display.
SessionsEnd ==
    <>[](crashed \/ \A s \in shutdown : pc[s] = "done")

\* The capture thread's wait for a lost display is over some day: whoever
\* holds it lets go. encode_run() says that a teardown which never ends
\* "will allow streaming to continue without requiring a full restart": with
\* the display in its hands it does not, and this is violated.
WaitEnds == []<>(cpc # "wait")

\* A teardown that never ends has the lost display.
TeardownHangs == <>[](cpc = "wait" /\ disp \in teardown)

\* Sessions that have a reference to the capture context.
Holders == {s \in Sessions : pc[s] \in Active \cup {"raise", "check", "leave"}}

\* How far the context is, by its count and by what its lock is held for.
Stage == IF ~Unlocked THEN "going" ELSE IF count = 0 THEN "none" ELSE "up"

\* The context as its users see it.
Context == INSTANCE SharedObject WITH
    Users <- Sessions, object <- Stage, users <- Holders

\* Sessions share the capture thread as shared_t promises: the last to leave
\* ends it, and a session that comes meanwhile has a new one.
SharesCapture == Context!Spec

\* Neither the sessions nor the capture thread wait for ever, as long as the
\* process has not crashed and no teardown hangs with the lost display.
WaitsEnd == TeardownHangs \/ (SessionsEnd /\ WaitEnds)

=============================================================================
