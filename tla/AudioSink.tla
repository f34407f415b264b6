------------------------------- MODULE AudioSink -------------------------------
(***************************************************************************)
(* Audio on a Linux host: the audio threads of the sessions, in audio.cpp, *)
(* the audio context they share (a shared_t of thread_safe.h), and the     *)
(* PulseAudio controller in it, in platform/linux/audio.cpp. The first     *)
(* thread to take a reference constructs the context: it reads which sink  *)
(* is the default and adds its own null sinks. The first to come further   *)
(* makes the sink it wants to record the default one. Whoever gives up the *)
(* last reference makes the old one the default again and removes the null *)
(* sinks. Construction and destruction run under the context's lock, and   *)
(* wait for answers of the sound server.                                   *)
(*                                                                         *)
(* Null sinks outlive the program that added them. A sink removed while it *)
(* is the default leaves the choice to the server.                         *)
(*                                                                         *)
(* Variables for the properties: the default sink that the context found   *)
(* (origin), whether it is excused from being put back (touched), how many *)
(* null sinks a crash or a refused removal left (left), the sessions that  *)
(* opened their microphone before the first had set its sink (early).      *)
(***************************************************************************)
EXTENDS Integers, FiniteSets

CONSTANTS
    Sessions,
    Layouts,     \* channel layouts; a null sink is named for each
    Sinks,       \* the host's sinks, of which one is the default
    ConfigSinks, \* values of config::audio.sink to consider
    Statuses,    \* what mic->sample() returns on the platform
    QueueSize,   \* max_elements of the samples queue
    MaxStarts,   \* bound: audio threads that are started
    MaxFaults,   \* bound: crashes, losses of the server, picks of the user
    None         \* no sink, no thread

ASSUME AudioAssumption ==
    /\ IsFiniteSet(Sessions)
    /\ Layouts \cap Sinks = {}
    /\ Layouts \cap ConfigSinks = {}
    /\ Statuses \subseteq {"ok", "timeout", "reinit", "error"}
    /\ QueueSize \in Nat \ {0}
    /\ MaxStarts \in Nat
    /\ MaxFaults \in Nat
    /\ None \notin Sinks \cup Layouts \cup Sessions

VARIABLES
    conf,     \* config::audio.sink
    pa,       \* the sound server: default sink, null sinks of each name
    ctx,      \* audio_ctx_t, its count, and the server_t that is control
    lock,     \* who holds the context's lock
    pc,       \* where a session's audio thread is
    sink,     \* the sink it is about to set
    mic,      \* the sink whose monitor its microphone records
    samples,  \* its samples queue: length, whether it is not stopped
    enc,      \* its encodeThread
    packets,  \* the audio_packets queue of all sessions is not stopped
    shutdown, \* the shutdown events
    starts, faults,         \* for the bounds
    origin, touched, left, early    \* see above

ctxVars    == <<ctx, lock>>
encVars    == <<samples, enc, packets>>
countVars  == <<starts, faults>>
noteVars   == <<origin, touched, left, early>>
vars == <<conf, pa, ctxVars, pc, sink, mic, encVars, shutdown, countVars,
          noteVars>>

Own == Sinks \cup (ConfigSinks \ {None})

AnySink == Own \cup Layouts \cup {None}

\* Nothing in the buffer of the shared_t.
NoContext ==
    [count |-> 0, control |-> FALSE, good |-> FALSE, index |-> {},
     host |-> None, null |-> FALSE, flag |-> FALSE, restore |-> FALSE,
     requested |-> None]

Holding == {"select", "switch", "mic", "sample", "remic", "stop", "join",
            "wait", "release", "deaf"}
Locked  == {"connect", "info", "load", "restore", "unload", "hung"}

Contexts ==
    [count : 0 .. Cardinality(Sessions), control : BOOLEAN, good : BOOLEAN,
     index : SUBSET Layouts, host : AnySink, null : BOOLEAN,
     flag : BOOLEAN, restore : BOOLEAN, requested : AnySink]

Servers == [default : AnySink, loaded : [Layouts -> Nat]]

Queues == [len : 0 .. QueueSize, on : BOOLEAN]

TypeOK ==
    /\ conf \in ConfigSinks
    /\ pa \in Servers
    /\ ctx \in Contexts
    /\ ctx.restore => ctx.flag
    /\ lock \in Sessions \cup {None}
    /\ pc \in [Sessions -> {"idle", "ref"} \cup Holding \cup Locked]
    /\ sink \in [Sessions -> AnySink]
    /\ mic \in [Sessions -> AnySink]
    /\ samples \in [Sessions -> Queues]
    /\ enc \in [Sessions -> {"none", "runs", "ended"}]
    /\ packets \in BOOLEAN
    /\ shutdown \in [Sessions -> BOOLEAN]
    /\ starts \in 0 .. MaxStarts
    /\ faults \in 0 .. MaxFaults
    /\ origin \in AnySink
    /\ touched \in BOOLEAN
    /\ left \in [Layouts -> Nat]
    /\ early \subseteq Sessions

Init ==
    /\ conf \in ConfigSinks
    /\ \E d \in Sinks :
          pa = [default |-> d, loaded |-> [n \in Layouts |-> 0]]
    /\ ctx = NoContext
    /\ lock = None
    /\ pc = [s \in Sessions |-> "idle"]
    /\ sink = [s \in Sessions |-> None]
    /\ mic = [s \in Sessions |-> None]
    /\ samples = [s \in Sessions |-> [len |-> 0, on |-> FALSE]]
    /\ enc = [s \in Sessions |-> "none"]
    /\ packets = TRUE
    /\ shutdown = [s \in Sessions |-> FALSE]
    /\ starts = 0
    /\ faults = 0
    /\ origin = None
    /\ touched = TRUE
    /\ left = [n \in Layouts |-> 0]
    /\ early = {}

Goto(s, l) == pc' = [pc EXCEPT ![s] = l]

-----------------------------------------------------------------------------
(* Taking a reference: shared_t::ref(), start_audio_control()              *)

\* audioThread() calls capture().
Start(s) ==
    /\ pc[s] = "idle"
    /\ starts < MaxStarts
    /\ starts' = starts + 1
    /\ Goto(s, "ref")
    /\ UNCHANGED <<conf, pa, ctxVars, sink, mic, encVars, shutdown, faults,
                   noteVars>>

Ref(s) ==
    /\ pc[s] = "ref"
    /\ lock = None
    /\ IF ctx.count = 0
       THEN /\ lock' = s
            /\ Goto(s, "connect")
            /\ UNCHANGED ctx
       ELSE /\ ctx' = [ctx EXCEPT !.count = @ + 1]
            /\ Goto(s, "select")
            /\ UNCHANGED lock
    /\ UNCHANGED <<conf, pa, sink, mic, encVars, shutdown, countVars, noteVars>>

\* platf::audio_control(). A connection that cannot be begun leaves no
\* control. One that fails later has init() take the event "failed", and
\* ~server_t() waits for another that does not come.
Connect(s) ==
    /\ pc[s] = "connect"
    /\ \/ /\ ctx' = [ctx EXCEPT !.control = TRUE, !.good = TRUE]
          /\ Goto(s, "info")
          /\ UNCHANGED <<lock, faults>>
       \/ /\ ctx' = [ctx EXCEPT !.count = 1]
          /\ lock' = None
          /\ Goto(s, "select")
          /\ UNCHANGED faults
       \/ /\ faults < MaxFaults
          /\ faults' = faults + 1
          /\ Goto(s, "hung")
          /\ UNCHANGED <<ctx, lock>>
    /\ UNCHANGED <<conf, pa, sink, mic, encVars, shutdown, starts, noteVars>>

\* Faulty variant: null sinks are not looked for before they are added.
AdoptedNone == {}

\* Null sinks that the server has already are taken for one's own.
Adopted == {n \in Layouts : pa.loaded[n] > 0}

\* sink_info() lists the sinks and reads the default one. A list that the
\* server fails to give is taken for an empty one. Of two sinks of one name
\* one is found.
Info(s) ==
    /\ pc[s] = "info"
    /\ ctx.good
    /\ \E listed \in BOOLEAN :
          /\ listed \/ faults < MaxFaults
          /\ faults' = IF listed THEN faults ELSE faults + 1
          /\ ctx' = [ctx EXCEPT !.index = IF listed THEN Adopted ELSE {},
                                !.host = pa.default]
          /\ left' = IF listed
                     THEN [n \in Layouts |->
                              IF pa.loaded[n] > 0 THEN pa.loaded[n] - 1 ELSE 0]
                     ELSE left
    /\ origin' = pa.default
    /\ touched' = (pa.default \notin Sinks)
    /\ Goto(s, "load")
    /\ UNCHANGED <<conf, pa, lock, sink, mic, encVars, shutdown, starts, early>>

\* It fails when the connection is gone: control.reset().
InfoFails(s) ==
    /\ pc[s] = "info"
    /\ ~ctx.good
    /\ ctx' = [NoContext EXCEPT !.count = 1]
    /\ lock' = None
    /\ Goto(s, "select")
    /\ UNCHANGED <<conf, pa, sink, mic, encVars, shutdown, countVars, noteVars>>

\* The rest of sink_info(): load_null() for a layout that has no sink yet.
\* Nothing looks at whether the operation could be started.
LoadNull(s) ==
    /\ pc[s] = "load"
    /\ ctx.good \/ ctx.index = Layouts
    /\ \E tried \in SUBSET (Layouts \ ctx.index) :
          LET index == ctx.index \cup tried
          IN  /\ pa' = [pa EXCEPT !.loaded =
                           [n \in Layouts |->
                               IF n \in tried THEN @[n] + 1 ELSE @[n]]]
              /\ ctx' = [ctx EXCEPT !.index = index, !.count = 1,
                                    !.null = (index = Layouts)]
    /\ lock' = None
    /\ Goto(s, "select")
    /\ UNCHANGED <<conf, sink, mic, encVars, shutdown, countVars, noteVars>>

-----------------------------------------------------------------------------
(* One session's thread: capture()                                         *)

\* The virtual sink, the configured one or the host's, for a session that
\* asked for a layout and perhaps for sound on the host (HOST_AUDIO).
Selected(layout, hostAudio) ==
    LET own == IF conf # None THEN conf ELSE ctx.host
    IN  IF ctx.null /\ (~hostAudio \/ own = None) THEN layout ELSE own

\* init_failure_fg: the stream goes on without sound.
Fails(s) == Goto(s, "wait")

NoControl(s) ==
    /\ pc[s] = "select"
    /\ ~ctx.control
    /\ Fails(s)
    /\ UNCHANGED <<conf, pa, ctxVars, sink, mic, encVars, shutdown, countVars,
                   noteVars>>

\* Faulty variant: every session sets its sink.
SelectAlways(s) ==
    /\ pc[s] = "select"
    /\ ctx.control
    /\ \E layout \in Layouts, hostAudio \in BOOLEAN :
          LET k == Selected(layout, hostAudio)
          IN  /\ ctx' = [ctx EXCEPT !.flag = TRUE, !.restore = (ctx.host # k)]
              /\ sink' = [sink EXCEPT ![s] = IF ctx.host # k THEN k ELSE None]
              /\ Goto(s, IF ctx.host # k THEN "switch" ELSE "mic")
    /\ UNCHANGED <<conf, pa, lock, mic, encVars, shutdown, countVars, noteVars>>

\* sink_flag: only the first session may change the default sink.
Select(s) ==
    /\ pc[s] = "select"
    /\ ctx.control
    /\ \/ /\ ctx.flag
          /\ Goto(s, "mic")
          /\ UNCHANGED <<ctx, sink>>
       \/ /\ ~ctx.flag
          /\ \E layout \in Layouts, hostAudio \in BOOLEAN :
                LET k == Selected(layout, hostAudio)
                    differs == ctx.host # k
                IN  /\ ctx' = [ctx EXCEPT !.flag = TRUE, !.restore = differs]
                    /\ sink' = [sink EXCEPT ![s] = IF differs THEN k ELSE None]
                    /\ Goto(s, IF differs THEN "switch" ELSE "mic")
    /\ UNCHANGED <<conf, pa, lock, mic, encVars, shutdown, countVars, noteVars>>

\* set_sink(), as the first session calls it.
Switch(s) ==
    /\ pc[s] = "switch"
    /\ \/ /\ ctx.good
          /\ pa' = [pa EXCEPT !.default = sink[s]]
          /\ ctx' = [ctx EXCEPT !.requested = sink[s]]
          /\ Goto(s, "mic")
       \/ /\ Fails(s)
          /\ UNCHANGED <<pa, ctx>>
    /\ sink' = [sink EXCEPT ![s] = None]
    /\ UNCHANGED <<conf, lock, mic, encVars, shutdown, countVars, noteVars>>

\* server_t::microphone(): the configured sink, the one that was set last,
\* or the default one.
Source ==
    IF conf # None THEN conf
    ELSE IF ctx.requested # None THEN ctx.requested ELSE pa.default

\* It has a monitor to record.
HasMonitor(k) == k \in Own \/ (k \in Layouts /\ pa.loaded[k] > 0)

\* Another session has the flag and has not set its sink yet.
SwitchPending == \E t \in Sessions : pc[t] = "switch"

OpenMic(s) ==
    /\ pc[s] = "mic"
    /\ \/ /\ HasMonitor(Source)
          /\ mic' = [mic EXCEPT ![s] = Source]
          /\ samples' = [samples EXCEPT ![s] = [len |-> 0, on |-> TRUE]]
          /\ enc' = [enc EXCEPT ![s] = "runs"]
          /\ early' = IF SwitchPending THEN early \cup {s} ELSE early
          /\ Goto(s, "sample")
       \/ /\ Fails(s)
          /\ UNCHANGED <<mic, samples, enc, early>>
    /\ UNCHANGED <<conf, pa, ctxVars, sink, packets, shutdown, countVars,
                   origin, touched, left>>

\* queue_t::raise(): a full queue is cleared first.
Raised(q) ==
    IF ~q.on THEN q
    ELSE [q EXCEPT !.len = IF q.len = QueueSize THEN 1 ELSE q.len + 1]

\* One turn of the loop in capture().
Sample(s) ==
    /\ pc[s] = "sample"
    /\ ~shutdown[s]
    /\ \E status \in Statuses :
          /\ samples' = IF status = "ok"
                        THEN [samples EXCEPT ![s] = Raised(@)] ELSE samples
          /\ mic' = IF status = "reinit" THEN [mic EXCEPT ![s] = None]
                    ELSE mic
          /\ Goto(s, CASE status = "reinit" -> "remic"
                       [] status = "error"  -> "stop"
                       [] OTHER             -> "sample")
    /\ UNCHANGED <<conf, pa, ctxVars, sink, enc, packets, shutdown, countVars,
                   noteVars>>

ShutdownSeen(s) ==
    /\ pc[s] = "sample"
    /\ shutdown[s]
    /\ Goto(s, "stop")
    /\ UNCHANGED <<conf, pa, ctxVars, sink, mic, encVars, shutdown, countVars,
                   noteVars>>

\* The microphone is opened again until that works or the session ends;
\* the loop sees the shutdown either way.
Remic(s) ==
    /\ pc[s] = "remic"
    /\ \/ /\ HasMonitor(Source)
          /\ mic' = [mic EXCEPT ![s] = Source]
          /\ early' = IF SwitchPending THEN early \cup {s} ELSE early \ {s}
          /\ Goto(s, "sample")
       \/ /\ shutdown[s]
          /\ Goto(s, "sample")
          /\ UNCHANGED <<mic, early>>
    /\ UNCHANGED <<conf, pa, ctxVars, sink, encVars, shutdown, countVars,
                   origin, touched, left>>

\* Faulty variant: the encoder is joined first.
StopAfterJoin(s) ==
    /\ pc[s] = "stop"
    /\ enc[s] = "ended"
    /\ samples' = [samples EXCEPT ![s].on = FALSE]
    /\ Goto(s, "join")
    /\ UNCHANGED <<conf, pa, ctxVars, sink, mic, enc, packets, shutdown,
                   countVars, noteVars>>

\* The guard fg: samples->stop(), thread.join().
StopSamples(s) ==
    /\ pc[s] = "stop"
    /\ samples' = [samples EXCEPT ![s].on = FALSE]
    /\ Goto(s, "join")
    /\ UNCHANGED <<conf, pa, ctxVars, sink, mic, enc, packets, shutdown,
                   countVars, noteVars>>

Join(s) ==
    /\ pc[s] = "join"
    /\ enc[s] = "ended"
    /\ enc' = [enc EXCEPT ![s] = "none"]
    /\ samples' = [samples EXCEPT ![s] = [len |-> 0, on |-> FALSE]]
    /\ Goto(s, "wait")
    /\ UNCHANGED <<conf, pa, ctxVars, sink, mic, packets, shutdown, countVars,
                   noteVars>>

\* shutdown_event->view(), and the microphone is closed.
Wait(s) ==
    /\ pc[s] = "wait"
    /\ shutdown[s]
    /\ mic' = [mic EXCEPT ![s] = None]
    /\ early' = early \ {s}
    /\ Goto(s, "release")
    /\ UNCHANGED <<conf, pa, ctxVars, sink, encVars, shutdown, countVars,
                   origin, touched, left>>

-----------------------------------------------------------------------------
(* encodeThread()                                                          *)

Encode(s) ==
    /\ enc[s] = "runs"
    /\ samples[s].on
    /\ samples[s].len > 0
    /\ samples' = [samples EXCEPT ![s].len = @ - 1]
    /\ \/ UNCHANGED <<enc, packets>>
       \/ /\ packets' = FALSE
          /\ enc' = [enc EXCEPT ![s] = "ended"]
    /\ UNCHANGED <<conf, pa, ctxVars, pc, sink, mic, shutdown, countVars,
                   noteVars>>

EncodeEnds(s) ==
    /\ enc[s] = "runs"
    /\ ~samples[s].on
    /\ enc' = [enc EXCEPT ![s] = "ended"]
    /\ UNCHANGED <<conf, pa, ctxVars, pc, sink, mic, samples, packets,
                   shutdown, countVars, noteVars>>

-----------------------------------------------------------------------------
(* Giving it up: ptr_t::release(), stop_audio_control(), ~server_t()       *)

Finished(s) ==
    /\ Goto(s, "idle")
    /\ shutdown' = [shutdown EXCEPT ![s] = FALSE]

Release(s) ==
    /\ pc[s] = "release"
    /\ lock = None
    /\ ctx' = [ctx EXCEPT !.count = @ - 1]
    /\ IF ctx.count = 1
       THEN /\ lock' = s
            /\ Goto(s, "restore")
            /\ UNCHANGED shutdown
       ELSE /\ Finished(s)
            /\ UNCHANGED lock
    /\ UNCHANGED <<conf, pa, sink, mic, encVars, countVars, noteVars>>

\* The sink to make the default one again; "best effort".
Before == IF ctx.host # None THEN ctx.host ELSE conf

Restore(s) ==
    /\ pc[s] = "restore"
    /\ \/ /\ ctx.restore
          /\ Before # None
          /\ ctx.good
          /\ pa' = [pa EXCEPT !.default = Before]
          /\ ctx' = [ctx EXCEPT !.requested = Before]
          /\ UNCHANGED touched
       \/ /\ ctx.restore
          /\ touched' = TRUE
          /\ UNCHANGED <<pa, ctx>>
       \/ /\ ~ctx.restore
          /\ UNCHANGED <<pa, ctx, touched>>
    /\ Goto(s, "unload")
    /\ UNCHANGED <<conf, lock, sink, mic, encVars, shutdown, countVars,
                   origin, left, early>>

\* unload_null() for each null sink whose index is known. One the server
\* refuses stays. A default sink that goes makes the server choose another.
Unload(s) ==
    /\ pc[s] = "unload"
    /\ ctx.good
    /\ \E n \in ctx.index :
          /\ ctx' = [ctx EXCEPT !.index = @ \ {n}]
          /\ \/ /\ \E d \in Sinks \cup {None} :
                      pa' = [default |-> IF pa.default = n /\ pa.loaded[n] = 1
                                         THEN d ELSE pa.default,
                             loaded |-> [pa.loaded EXCEPT ![n] = @ - 1]]
                /\ UNCHANGED <<left, faults>>
             \/ /\ faults < MaxFaults
                /\ faults' = faults + 1
                /\ left' = [left EXCEPT ![n] = @ + 1]
                /\ UNCHANGED pa
    /\ UNCHANGED <<conf, lock, pc, sink, mic, encVars, shutdown, starts,
                   origin, touched, early>>

\* The rest of ~server_t(). A lost connection has its event waiting.
Disconnect(s) ==
    /\ pc[s] = "unload"
    /\ ctx.index = {}
    /\ ctx' = NoContext
    /\ lock' = None
    /\ Finished(s)
    /\ UNCHANGED <<conf, pa, sink, mic, encVars, countVars, noteVars>>

-----------------------------------------------------------------------------
(* Answers that never come                                                 *)

\* An operation that a lost connection did not begin, or took with it: its
\* alarm is waited for all the same, with a reference to the context (deaf)
\* or with its lock (hung).
Asking(s) ==
    \/ pc[s] \in {"info", "switch", "mic", "remic"}
    \/ pc[s] = "load" /\ ctx.index # Layouts
    \/ pc[s] = "restore" /\ ctx.restore /\ Before # None
    \/ pc[s] = "unload" /\ ctx.index # {}

Hangs(s) ==
    /\ Asking(s)
    /\ ~ctx.good
    /\ Goto(s, IF pc[s] \in Holding THEN "deaf" ELSE "hung")
    /\ UNCHANGED <<conf, pa, ctxVars, sink, mic, encVars, shutdown, countVars,
                   noteVars>>

-----------------------------------------------------------------------------
(* What is outside                                                         *)

\* session::stop() raises the event.
Stop(s) ==
    /\ pc[s] \in {"ref"} \cup Holding \cup Locked
    /\ shutdown' = [shutdown EXCEPT ![s] = TRUE]
    /\ UNCHANGED <<conf, pa, ctxVars, pc, sink, mic, encVars, countVars,
                   noteVars>>

\* The last stream has ended: the queue is gone with its holders.
NewQueue ==
    /\ \A s \in Sessions : pc[s] = "idle"
    /\ packets' = TRUE
    /\ UNCHANGED <<conf, pa, ctxVars, pc, sink, mic, samples, enc, shutdown,
                   countVars, noteVars>>

Fault ==
    /\ faults < MaxFaults
    /\ faults' = faults + 1

\* The user, or a device that goes, changes the default sink.
UserPicks ==
    /\ Fault
    /\ \E d \in Sinks \cup {None} : pa' = [pa EXCEPT !.default = d]
    /\ touched' = TRUE
    /\ UNCHANGED <<conf, ctxVars, pc, sink, mic, encVars, shutdown, starts,
                   origin, left, early>>

\* The sound server restarts, with none of our sinks.
ServerRestarts ==
    /\ Fault
    /\ \E d \in Sinks \cup {None} :
          pa' = [default |-> d, loaded |-> [n \in Layouts |-> 0]]
    /\ ctx' = [ctx EXCEPT !.good = FALSE]
    /\ touched' = TRUE
    /\ left' = [n \in Layouts |-> 0]
    /\ UNCHANGED <<conf, lock, pc, sink, mic, encVars, shutdown, starts,
                   origin, early>>

\* The program ends without its destructors, and is started again.
Crash ==
    /\ Fault
    /\ ctx' = NoContext
    /\ lock' = None
    /\ pc' = [s \in Sessions |-> "idle"]
    /\ sink' = [s \in Sessions |-> None]
    /\ mic' = [s \in Sessions |-> None]
    /\ samples' = [s \in Sessions |-> [len |-> 0, on |-> FALSE]]
    /\ enc' = [s \in Sessions |-> "none"]
    /\ packets' = TRUE
    /\ shutdown' = [s \in Sessions |-> FALSE]
    /\ touched' = TRUE
    /\ left' = pa.loaded
    /\ early' = {}
    /\ UNCHANGED <<conf, pa, starts, origin>>

-----------------------------------------------------------------------------
Takes(s) ==
    \/ Ref(s) \/ Connect(s) \/ Info(s) \/ InfoFails(s)
    \/ LoadNull(s)

Captures(s) ==
    \/ NoControl(s) \/ Select(s) \/ Switch(s) \/ OpenMic(s)
    \/ Sample(s) \/ ShutdownSeen(s) \/ Remic(s)
    \/ StopSamples(s) \/ Join(s) \/ Wait(s)

GivesUp(s) ==
    Release(s) \/ Restore(s) \/ Unload(s) \/ Disconnect(s)

Thread(s) == Takes(s) \/ Captures(s) \/ GivesUp(s) \/ Hangs(s)

Encoder(s) == Encode(s) \/ EncodeEnds(s)

Outside == NewQueue \/ UserPicks \/ ServerRestarts \/ Crash

Next ==
    \/ \E s \in Sessions :
          \/ Start(s) \/ Stop(s)
          \/ Thread(s) \/ Encoder(s)
    \/ Outside

Spec == Init /\ [][Next]_vars

\* Threads run, and the sound server answers unless the connection is lost.
\* Threads that are started are bounded in number, and so is the competition
\* for the lock.
Fairness == \A s \in Sessions : WF_vars(Thread(s)) /\ WF_vars(Encoder(s))

FairSpec == Spec /\ Fairness

-----------------------------------------------------------------------------
(* Properties                                                              *)

Idle == lock = None /\ ctx.count = 0

\* Once no stream uses the context, the sink that was the default when the
\* first came is the default again, whatever the streams asked for and
\* however they overlapped. Excused: picks of the user, a restart or a crash,
\* a request that the server refused, a host without a sink.
HostRestored == Idle /\ ~touched => pa.default = origin

\* The program's null sinks go with the context, also those that a run that
\* crashed left behind: they are found and not added twice.
NullsReclaimed == Idle => \A n \in Layouts : pa.loaded[n] <= left[n]

\* When the last stream has gone the host's audio is as it was.
HostAsBefore == HostRestored /\ NullsReclaimed

Holders == {s \in Sessions : pc[s] \in Holding}

\* The count of the shared_t is the number of threads between taking and
\* giving up their reference; it is zero while the context is constructed or
\* destroyed, which one thread at a time does, and never otherwise.
ContextHeld ==
    /\ ctx.count = Cardinality(Holders)
    /\ \A s \in Sessions : pc[s] \in Locked <=> lock = s
    /\ lock # None => Holders = {}

\* How far the context is, by its count and by what its lock is held for.
Stage ==
    IF lock = None THEN IF ctx.count = 0 THEN "none" ELSE "up"
    ELSE CASE pc[lock] \in {"connect", "info", "load"} -> "coming"
           [] pc[lock] \in {"restore", "unload"} -> "going"
           [] OTHER -> "stuck"

\* The context as its users see it.
Context == INSTANCE SharedObject WITH
    Users <- Sessions, object <- Stage, users <- Holders

\* Audio threads share the context as shared_t promises, though making and
\* taking it down waits for the sound server and may do so for ever.
SharesContext == Context!Spec

\* Without the user's doing, a session hears what the host plays, on the sink
\* the first session chose, whichever it wants itself; unless it opened its
\* microphone early or a sink is configured.
HearsTheHost ==
    \A s \in Sessions :
        /\ pc[s] = "sample" /\ mic[s] # None /\ s \notin early
        /\ conf = None /\ ~touched
        => mic[s] = pa.default

\* capture() does not return before the session is told to stop, whatever
\* fails: the stream goes on without sound (the thread's end stops it).
StreamsOn ==
    \A s \in Sessions :
        pc[s] \in {"release", "restore", "unload"} => shutdown[s]

\* A session that is told to stop ends its audio threads and gives up the
\* context. Excused is one that waits for ever for a sound server that is
\* lost, and every one where it is the thread with the lock that does.
ThreadsEnd ==
    \A s \in Sessions :
        shutdown[s] ~> \/ pc[s] \in {"idle", "deaf"}
                       \/ \E t \in Sessions : pc[t] = "hung"

=============================================================================
