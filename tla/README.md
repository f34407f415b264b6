# Solari in TLA+

Solari is a self-hosted game-stream host (a fork of Sunshine). This directory
holds TLA+ models of its concurrent core, TLC configurations that check them on
small instances, and TLAPS proofs of what matters most for every instance.
Paths below are relative to the repository; `rtsp.cpp` means `src/rtsp.cpp`.

## 1. Inventory of the system

A client (Moonlight) pairs and launches an app over HTTPS, negotiates a session
over RTSP, then opens an ENet control stream and sends UDP pings that tell the
host where video and audio go.

| Component | State | Operations | Threads and interactions |
|---|---|---|---|
| RTSP launch slot (`rtsp.cpp` 544-631, `thread_safe.h` event_t) | `launch_event` (one slot), `raised_timer` | `session_raise`, expiry handler, `handle_accept`, `session_clear` | filled by the HTTPS thread, viewed and expired by the RTSP thread, emptied by the control thread |
| Sessions and broadcast (`stream.cpp`, `rtsp.cpp` 637-716) | session state, shutdown and controlEnd events, two threads per session, `_session_slots`, `_sessions`, `_peer_to_session`, `running_sessions`, the `shared_t` broadcast context | `start`, `stop`, `join`, `clear`, `clear_by_cert`, control loop, `start_broadcast`, `end_broadcast` | RTSP thread, web threads, control, video, audio and receive threads |
| Ping routing (`stream.cpp` 1369-1462, 2019-2070) | registration queue, two routing maps, a message queue per waiting thread | `recv_ping`, `populate_peer_to_session`, receive handlers | stream threads register, the receive thread routes |
| RTSP connections (`rtsp.cpp` 160-444, 779-1330) | message buffer, read position, IV counter | encrypted and plaintext reads, ANNOUNCE and the other commands | RTSP thread |
| Thread-safe primitives (`thread_safe.h`, `sync.h`) | event status, bounded queue, alarm, reference counted `shared_t`, mail registry | raise, pop, view, stop, ref, release, post, cleanup | used by everything |
| Task pool, thread pool (`task_pool.h`, `thread_pool.h`) | immediate queue, timed list ordered by due time | push, pushDelayed, delay, cancel, pop, worker loop | workers, any pusher |
| Process lifecycle (`process.cpp`) | running app, preparation commands done so far, placebo flag | execute, running, terminate, refresh | web threads, control thread, join |
| HTTP server (`nvhttp.cpp`) | pairing sessions, paired clients, state file | pair phases, launch, resume, cancel, unpair | one HTTP and one HTTPS thread |
| Audio (`audio.cpp`), video (`video.cpp`) | encode sessions, sample queues, sink choice, capture thread and its list of encoders | capture, encode, reinitialise | session threads, capture threads |
| Input (`input.cpp`) | pressed keys, gamepad slots, queue of pending messages | passthrough, batching, repeat, reset | control thread, task pool |
| Web configuration (`confighttp.cpp`), display device, tray, UPnP, platform code | configuration file, display settings, OS handles | mostly single calls into the OS | own threads |

Hard behaviours, where the modules are aimed:

* three threads meet on the launch slot, with looks and actions in separate
  critical sections, and one of them blocks without a timeout;
* sessions are started by the RTSP thread, stopped by five kinds of actor and
  reaped by two, while the control thread walks raw pointers to them;
* the broadcast context is created and taken down by whoever gets the first and
  gives up the last reference, joining threads under a lock;
* a counter decides which callbacks run, and is changed apart from them;
* timed tasks are cancelled by ids that are addresses while a worker takes them;
* input packets are merged in a queue that one thread fills and another empties;
* input is reset by a joining thread while its packets wait in the pool, and
  pads outlive the session that plugged them in, but not the app;
* `proc_t` has no lock, and five threads ask it whether the app runs, an answer that
  cleans up; launch, resume and cancel act on what they saw several waits ago;
* one thread captures for all sessions and must not renew the display while an
  encoder, an image or a detached teardown holds it;
* the list of clients is kept in memory, in a file and in the certificate chain, the
  file is also that of the web password, and the process may end between any two writes;
* pings are routed by a thread that learns of routes through a bounded queue, and
  bounded queues drop everything when they are full;
* the first session decides where the host's sound goes, the last puts it back, and
  the sound server may refuse, restart or go away.

What makes each component correct: the launch slot is never overwritten and
never stays full; no thread touches a destroyed session, a stopping session is
reaped, the broadcast context lives as long as it is used, the callbacks match
the sessions; a timed task runs once, not before it is due, and never after it
was cancelled; batching hides nothing and loses no motion; nothing stays pressed after a session;
a pad's slot has one owner; each
preparation command that succeeded is undone once; the display and the default sink
are put back; the file of clients is what was acknowledged; a stream goes to the
endpoint its own client pinged from. The full list of hazards, each at its line and with
the properties aimed at it, is under `hazards` in `PROJECT.json`.

## 2. Modules

Each module has one action per critical section (or per step that other threads
can see), guarded as in the code. `map` in `PROJECT.json` names the lines of every
definition. The definitions that are named after an action with an error in it
(`RaiseViewUnguarded`, `PressKeyKeepsRepeat`, ...) are no part of any
specification: they are plausible bugs, and each property of a passing run fails with
one of them in place of the real action, so that none holds vacuously.

| Module | Code | State and actions |
|---|---|---|
| `LaunchEvent` | `rtsp.cpp` 544-631, `thread_safe.h` event_t, `stream.cpp` get_session | The slot and the timer. The HTTPS thread raises in three steps (`RaiseView`, `RaisePut`, `RaiseArm`), the control thread clears in three (`ClearView`, `ClearCancel`, `ClearPop`), the RTSP thread accepts (`Accept`), serves ANNOUNCE (`HandleMsg`) and runs the expiry handler, which asio may have queued before the timer was cancelled (`TimerExpires`, then `TimerHandler`). Where the handler has emptied the slot, `ClearPop` waits for the next launch, perhaps for ever. |
| `StreamSession` | `stream.cpp` start, stop, join, controlBroadcastThread, start_broadcast, end_broadcast; `rtsp.cpp` clear, clear_by_cert, session slots; `thread_safe.h` shared_t, event_t | An ANNOUNCE is a sequence `Alloc` ... `Respond`; `clear()` is `Lock`, a choice of slot, `Reap`, then the steps of `join()`, `Erase`, `Unlock`, with a program counter for each of the two threads that run it. `Visit`, `ScanDone`, `Check`, `Service`, `ControlExit` are the control thread's loop; a peer that connects (`Service`) is given to its session after `launch_session_clear`, where the thread may wait until a launch comes (`Popped`) or for ever. `BroadcastFails` stands for any broadcast thread that throws. |
| `ThreadPool` | `task_pool.h`, `thread_pool.h` | Both lists, the mutexes, the worker's `_main` by its steps between the locks, sleeping and spurious wakeups, ids that are reused addresses. |
| `SharedObject` | what `shared_t` (`thread_safe.h`) promises its users | The abstract specification of a shared context: made for the first reference, up while there are any, taken down after the last, with callbacks that may fail or never return. `StreamSession!Cast`, `Capture!Context` and `AudioSink!Context` are the refinement mappings. |
| `TaskBoard` | what the pool promises its callers | The abstract specification of the pool: each task is new, queued, running, done or cancelled. `ThreadPool!Board` is the refinement mapping. |
| `InputQueue` | `input.cpp` 1601-1995 (`passthrough`, `passthrough_next_message`, the `batch()` functions) | The session's queue, the packets as records of the fields that `batch()` compares and merges. |
| `InputButtons` | `input.cpp` buttons, keys, repeat, `reset()`, `reset_input_state` | What is tracked as pressed and what the platform was told, the pool's queue and timers for this input, the delayed release of the left button, the repeat of a key, sessions one after the other. `Arm` gives a timer an id that no task in the table or at work has: an address, which earlier ids that were never cleared may name too. |
| `Gamepads` | `input.cpp` retained inputs, gamepads, Home emulation, `terminate_gamepads`, `~gamepad_t` | Slots (`gamepadMask`), pads, their Back button and timer, the map of retained inputs; an `input_t` is destroyed when nothing refers to it any more (`Settle`). |
| `AppHost` | `process.cpp`; `nvhttp.cpp` serverinfo, launch, resume, cancel; `confighttp.cpp` apps and clients; `stream.cpp` join and the control thread's look at the app | `proc_t` and the undo commands owed; a call is a run of labelled steps with a small stack, on the HTTPS, web, control or RTSP thread. `Terminate` ... `Finish`, `Running`, `Find` ... `Spawn` are the functions of `proc_t`; `Launch` ... `Refuse`, `Resume` ... `Allow`, `Cancel` ... `CancelReverts` the requests. One session is reduced to what `AppHost` needs of it (`SessionStarts`, `Join` ... `Erase`), its peer's connection to the wait in `launch_session_clear` that may precede it (`PeerConnects`, `PopReturns`). |
| `Capture` | `video.cpp` captureThread, capture_async, encode_run, start/end_capture_async | The queue of contexts, the list the capture thread has, the display and all who hold it: devices, images, detached teardowns. `Push`, `Peek`, `Pop` are its look for new contexts; `Reinit`, `Wait`, `Reset`, `Renew`, `Publish`, `Settle` the steps of a reinitialisation. |
| `Clients` | `nvhttp.cpp` pairing, client list, save_state, load_state, certificate verification; `httpcommon.cpp` save_user_creds | Pairing sessions by id, the list, its file and `cert_chain` with the queue before it. The end of a pairing raises the certificate (`ClientPairingSecret`), appends to the list (`AddAuthorizedClient`), saves and removes its session (`RemoveSession`), one step each. A save, of the list or of the password (`SavePassword`), is three steps (`ReadFile`, `OpenFile`, `WriteFile`), each of which may be the last. `PinRemoves` is a PIN that meets a session out of phase, whose removed session `pin()` goes on to use: the process may go on or crash (`Crash`). |
| `PingRouting` | `stream.cpp` recv_ping, recvThread | Stream threads, `message_queue_queue`, both routing maps, the sockets and the endpoint variable their handlers share. |
| `AudioSink` | `audio.cpp`; `platform/linux/audio.cpp`; `thread_safe.h` shared_t | The sound server's default sink and modules, the shared context with its lock and count, each session's capture thread and encode thread with the queue in between. Every request that the code waits for may wait for ever when the connection is lost (`Asking`, `Hangs`). |

`StreamSession` has sessions join themselves through `input::reset()`, whose two
halves `InputButtons` and `Gamepads` model; `InputButtons` and `Gamepads` use the
pool through what `ThreadPool` shows of it (one worker takes queued tasks in order,
and due timed tasks when none is queued), and assume of batching what `InputQueue`
shows (presses and masks are not merged). `LaunchEvent` and `StreamSession` meet
in `get_session`, which `LaunchEvent` has as `GetSession` and the steps after it, and
`StreamSession` and `AppHost` as a connection that may first wait in `session_clear`: that
it can, and only behind the expiry handler, is what `LaunchEvent` shows.
`AppHost` takes from `StreamSession` that a stopped session is joined once, by whoever
gets there, and that `end_broadcast` joins the control thread; from `LaunchEvent`
that a raised launch session is taken or expires. `PingRouting` is what lies behind
the start of `StreamSession`'s stream threads, `Capture` and `AudioSink` what those
threads do until they end. The modules are separate because their product is out of
TLC's reach; each leaves what the others decide nondeterministic.

## 3. Runs

Ten runs that pass, and two in which TLC finds violated what a comment says of the code
(`motion_exact`, `wait_ends`; section 5). A module's type invariant (`TypeOK`;
`LaunchTypeOK`, `ButtonsTypeOK`, `QueueTypeOK` and `PairingTypeOK` where one module of
proofs is about several) is checked by its run, alone or as part of a property named
below, or proved (section 4). Symmetric sets are the sessions of `stream_session` and the
two legacy sessions of `ping_routing`; no liveness run uses symmetry. Every run has
`CHECK_DEADLOCK FALSE`, because its behaviours end: the requests, packets, sessions or
tasks it is given are used up, and one thread may really block for ever (`pop()` in
`session_clear`; `join()` when the control thread has gone; a wait for the sound server).
Where a thread must not block, a liveness property says so.

Two runs check two modules each. They have no variable in common and are run one at a
time, so that the states are those of the one and of the other, not their product. In
`MCSessionLife` the constant variable `half` says which of the two a behaviour is of, and
the fairness is that half's. In `MCPacketsAndPads` each module moves only while the other
is as it started; a behaviour that has begun with one stays with it but for returning to
that module's initial state, and the only fairness, of `Gamepads`' worker, is about steps
that are not enabled initially.

| Run | Bounds | What it shows |
|---|---|---|
| `session_life` | 3 launches, 1 ANNOUNCE each; or 1 session with 2 threads, all kinds of clear | The slot is never overwritten (`NoOverwrite`), a pending session always has somebody who will take it (`PendingIsCovered`) and does not stay (`PendingLeaves`); what `session_clear` has accepted goes to nobody but the expiry handler (`ViewedStillAccounted`). A stopping session is reaped (`StoppingIsReaped`) and `end_broadcast` returns (`BroadcastEnds`), unless the control thread waits for ever in `session_clear`; the former also unless that thread left a session behind or `join()` waits for one that was never stopped. |
| `stream_session` | 2 sessions, 2 threads each, all three kinds of clear, counter modulo 8; 2.2 M states | A destroyed session is neither on the control thread's list nor has a running thread or a reference (`FreedIsUnused`), one reaper per session, the broadcast context is a shared object of the sessions that use it (`SharesBroadcast`: none uses it while it is made or taken down, and it is not made twice), `running_sessions` is right when both threads are quiet, although it wraps in between. |
| `thread_pool` | 2 workers, 1 immediate and 2 timed tasks, 3 addresses, delays 0 and 2, instants 0 to 2 | The pool implements the task board; a task has one owner; no wakeup is missed; a due task runs. |
| `packets_and_pads` | 3 packets out of 30 forms, int16 scaled to 4 bits; or 2 clients, 2 inputs, 1 controller, 2 slots, 3 packets, 3 sessions, 3 queued tasks; %PP% | Batching hides no transition and does not reorder kinds (`OrderKept`), delivers the latest state last and loses motion only by whole wraparounds, where a sum overflows (`ContentKept`), strands no packet (`NothingStranded`). Every slot has one owner (`SlotsAccounted`), the pads of a client that is away are neutral (`NeutralWhenPaused`) but survive the pause (`PadsSurvivePause`), and all are unplugged after the app's end (`PadsUnplugged`). |
| `motion_exact` | 3 of the mouse and scroll packets of `packets_and_pads` | Violated: motion adds up to what was sent (`MotionExact`). |
| `input_buttons` | 2 keys, 4 packets, 2 of them queued, 2 sessions, 3 ids; %IB% | One repeat at a time (`OneRepeat`), no key stays down after a reset (`NoKeyLeftDown`), a delayed left release comes while the session lasts, unless a stale id of a repeat is its address (`LeftIsReleased`). |
| `app_host` | a game with two preparation commands that may detach, the desktop with one undo command, 2 HTTPS and 1 web request; %AH% | What `terminate()` has to undo is exactly what preparation did (`UndoAccounted`); an app that has ended or failed to start leaves no process, no placebo, no undo command and no changed display (`NothingLeftBehind`); `execute()` of a launch never ends an app (`LaunchEndsNoApp`); no session outlives its app, unless the control thread waits for ever in `session_clear` (`SessionEndsWithApp`). |
| `capture` | 2 sessions, a queue of 1, 2 displays, detached teardown; %CA% | A new display is made only when nobody holds the old one, and images are of the current display (`DisplaysApart`); the end of the capture thread reaches every context the queue has not dropped (`ContextsTold`); a shut down session ends, and so does the wait for the display, unless a detached teardown keeps that display for ever (`WaitsEnd`). |
| `wait_ends` | as `capture` | Violated: the wait for the display ends (`WaitEnds`). |
| `clients` | 2 clients, 2 ids, 2 pairing requests, 2 edits or passwords, 1 fault; %CL% | The file says what memory says whenever no request is under way (`FileIsCurrent`), the certificates a handshake accepts are those of the list and of the client being added (`ChainFollowsList`), a restart or a crash gives back what was acknowledged (`RestartKeepsList`): all three as long as one thread at a time is at the list and its file, and no write failed. No session waits for a PIN for ever (`PinsAnswer`). |
| `ping_routing` | 4 threads of 3 sessions, 2 of them legacy clients at one address, 3 pings, a queue of 4; 2.5 M states | A stream sends to the endpoint its own client pinged from (`RightEndpoint`), unless the receive of the other socket wrote `peer` before its ping was handled, or two legacy clients of one address ping at once; a waiting thread is routed or about to be, and a thread that is gone leaves no route (`RegistrationsKept`), but for the latter case and what a full queue dropped. |
| `audio_sink` | 2 sessions, 2 layouts, 1 sink, a configured sink or none, every outcome of a sample, 2 starts, 1 fault; %AS% | The host's default sink and its modules are as before when the last session has gone (`HostAsBefore`), sessions hear what the host plays unless they opened their microphone early (`HearsTheHost`), and audio threads that are told to stop end, unless one waits for ever for a lost sound server (`ThreadsEnd`). |

Why these bounds are enough. The races of `LaunchEvent` need a pending session, one that
replaces it after expiry, and one that is refused: three launches. Those of
`StreamSession` need a session being announced while another is reaped, by either of the
two threads that exist for it: two sessions, two reapers (a third session adds a waiting
slot and nothing that acts). In the pool the second worker is one more than `main.cpp`
starts; three tasks let one be taken while one is cancelled and one arrives, and with
three addresses an address comes back. Batching looks at two packets at a time with a
third in between; every pair of kinds and every field `batch()` tests is in the 30 forms.
In `InputButtons` four packets are two presses whose repeats follow each other and a click
whose delayed release takes the address of the first, and with three ids an address comes
back. Two sessions show a resume there, in `Gamepads` two clients the sharing of slots. In
`AppHost` the hazards are two threads in `proc_t` at once, of the four that exist, and a
request that acts on what an earlier one did: two HTTPS requests and one of the web. Its
run cuts behaviours where the code has lost track (`taint`, see below), of which the
properties say nothing. In `Capture` two contexts are one on the list and one in the
queue, two displays one reinitialisation, which every later one repeats. In `Clients` two
clients share an id or not, two edits meet each other and a pairing at the file, and the
fault is a failed write, a restart or a crash (what a restart gives after a failed write is
excused). In
`PingRouting` three pings are two at one socket and one at the other, as the shared
endpoint needs, and a queue of four overflows. In `AudioSink` the second start shows what
the first left behind. The proofs of section 4 remove the bounds from every invariant and
every safety property of actions that a run checks; only liveness rests on them. The
liveness properties of `StreamSession` are checked with one session: with two they take too
long to be run regularly.

### Fairness

* `LaunchEvent`: the HTTPS and control threads go on with a call they have begun, the
  timer expires, asio runs a queued handler. Nobody is obliged to launch or connect, so a
  `pop()` of an empty slot may wait for ever.
* `StreamSession`: weak fairness of the control thread, but for its wait in
  `launch_session_clear` (no launch need ever come, and `Wedged` then excuses what depends
  on it); strong fairness of the ANNOUNCE and `clear()` threads, since they wait for two
  mutexes that others take again and again: the control thread gives up the list's
  for the 150 ms of every `iterate`, web calls are far apart. A stream thread ends
  once its shutdown event is raised, as its loops test it on every pass; a driver
  that hangs is left out, and with it the task that ends the process 10 s after
  `join()` began (`stream.cpp:2160-2169`). A thread whose session nobody stops need not end.
* `ThreadPool`: a worker that can step does, and the clock advances to its bound.
  Wakeups are not fair but for the notify and the timeout that the code provides.
* `InputButtons`: workers take queued tasks; a timed task gets a turn strongly fairly,
  since the worker takes it only when the queue is empty, again and again.
* `Gamepads`: the worker takes queued tasks.
* `AppHost`: each thread goes on with what it is in, commands of the app list end
  (`exit_timeout` bounds the wait for an app), and a session whose peer does not come
  times out. No request need ever arrive, no app need ever exit, and no launch need end the
  control thread's wait in `launch_session_clear`.
* `Capture`: the capture thread and the sessions' threads go on, and an encoder leaves its
  loop when the loop's conditions say so: `images->pop()` has a timeout. Nobody need stop a
  session, lose a display or open one, and no detached teardown need end ("this thread may
  probably never exit", `video.cpp` 2379).
* `Clients`: the web thread goes on with a save, and someone types PINs as long as there
  is a pairing session. Clients need not go on pairing, nor answer in time.
* `AudioSink`: capture and encode threads go on. No session need be stopped; a lost sound
  server may leave a thread waiting for ever in any request that waits without a timeout,
  which `ThreadsEnd` excuses by name ("hung").

## 4. Proofs

The theorems hold for every value of the constants that the modules' assumptions admit
(`LaunchAssumption`, `PingAssumption`, `ClientsAssumption`, `SessionAssumption`,
`PoolAssumption`, `ButtonsAssumption`, `GamepadsAssumption`, `QueueAssumption`,
`AppHostAssumption`, `CaptureAssumption`, `AudioAssumption`). These are only that bounds
are numbers, that `None` and the tags of records differ from the other values, that queues
have room for one element, that sets of sessions are finite and, in `StreamSession`,
smaller than the counter's range, that a delta fits its width, and that app ids are
positive, which `execute()` relies on. Every theorem of the form `Spec => []P` rests on an
invariant of its module that TLC has checked too, on the instance of the module's run. The
theorems are in seven modules of proofs, and `FoldLemmas`; two of them have the proofs
about several models, which share no state.

`FoldLemmas`. `PingRouting` and `InputQueue` use folds over sequences (the registrations a
drain takes up; the packets a batch merges), and the library's induction theorems cannot
be instantiated here. So the module says what a left fold is without one: there is a
trace, a sequence of intermediate values that begins with the base and of which each
follows from the one before (`HasTrace`), and the fold is its last value (`FoldTrace`);
the fold of an appended sequence is a step more (`FoldPrefixes`). These, and that what
holds at the start of a trace and is kept by each of its steps holds at its end, come from
a set of numbers having a least element (`LeastNumber`), which follows from the library's
well-foundedness of `Nat`.

`SetupProofs`, the launch slot. `LaunchInv` adds to `LaunchTypeOK` what each thread knows
between its steps. `HttpsInv`: between its look and its put the HTTPS thread finds the
slot empty, for no one else fills it. `SlotInv`: only launched, untaken sessions are in
the slot. `ControlInv`: the control thread clears for a session that waits for a peer.
`ViewedStillAccounted` holds what it has accepted. `NoOverwrite` (`PendingNotOverwritten`)
and `TakenForGood` (`TakenOnce`) are action properties that follow from it step by step;
`PendingIsCovered` (`PendingCovered`) needs the invariant that a handler, a timer or a
thread is under way, and is proved on top.

`SetupProofs`, the pings. `Known` is what the routes will be once the registrations in the
queue are taken up; most of `PingInv` is about it, as taking them up leaves it as it is
(`PopulateEffect`) and a registration changes it at the thread's own keys (`RaiseKnown`),
unless a full queue drops some. `PingOwned` says that a key is routed to a thread that
uses it; `WaitingIsRouted` that a thread which waits has all its keys; `Leftovers` that a
key routed to a thread which waits no more is one whose every user the queue has dropped,
so that `emplace()`, which leaves a key that is taken, fails nobody else; `RivalsNoted`
that legacy sessions of one address which were heard at the same time are noted; and
`Meant` that what a thread was told, or will find in its queue, is its own endpoint, for
which `PingsKept` says what the sockets and the variable that both receives write may
hold. `RightEndpoint` and `RegistrationsKept` follow, for the threads they are about: where
the code does hand on another's endpoint (`crossed`, `rivals`) they say nothing.

`SetupProofs`, the clients. Unless two threads were at the list or its file at once
(`overlap`), `InStep` relates list, copies and file: one thread at a time (`OneAtATime`),
which is about to write the list as it is now (`WritesTheList`), also one that writes back
what it has read, to change the password, unless the file was behind; and a file that says
what it said until it is opened (`FileFollows`). `LoadsOnWeb` keeps a reload apart from the
other edits, `ListsAreLists` a file that names no clients from one that does; `AddsKnown`
says of a client whose certificate was raised and who is not on the list yet that it is
known, and `Tidy` bounds the chain of certificates and its queue by the list and that client. `FileIsCurrent`,
`ChainFollowsList` and the action property `RestartKeepsList` follow.

`StreamSessionProofs`. `ListedAreAlive` is far from inductive. A session leaves the slots
only through the last step of `join()`, which has seen `controlEnd` raised (`JoinInv`);
the control thread raises it for a session already off its list, or on its way out
(`ControlInv`). `LockInv` says who holds the lock of the slots, and so that one thread
works on a session (`ReapedOnce` follows). `StartInv` and `LifeInv` say how far `start()`
has come and that a session exists while the slots or `start()` refer to it. The hard case
is the session that the web thread reaps while the RTSP thread is still in `start()`:
`LeftInv` says that it is off the list too and has no running threads, so that the RTSP
thread may destroy it. `RefInv` ties the broadcast to the references that sessions hold
(`BroadcastLivesByReference`). With it each step is a step of `SharedObject` or leaves it
alone: threads run only for sessions that hold a reference (`StreamingHolds`), and whoever
destroys the last such session begins the end of the context (`CastGives`); so
`SharesBroadcast` (`BroadcastIsShared`). `SharedWhileUsed` is what that is good for: in
any implementation the object is up exactly while somebody refers to it.
`FreedIsUnused`, which the run checks, is `ListedAreAlive` and `FreedIsQuiet` together
(`FreedSessionIsUnused`). There is one lemma per part of the invariant (`TypeStep`,
`LockStep`, ..., `QuietStep`), each with a step per action of `Next`. `QuietCount` needs
the wrap in between: `CountInv` says that `running_sessions` is, modulo its range, the
number of sessions in the slots, less the one that `start()` has inserted and not counted
yet (`Uncounted`) and the one that `join()` has discounted and not erased (`Discounted`);
`OneJoin` gets from `LockInv` that there is at most one of the latter.

`ThreadPoolProofs`. `Owned` says that each task object is in one place of one list or with
one worker, that the timers are in order, and that no two live tasks have the same
address; `Settled` that what has run or was cancelled has no object left; `Guarded` that a
worker holds the lock from its look at the lists to its wait. So a push either is seen by
that look or finds the worker asleep and wakes it, and `SleepsForAReason` is inductive
with these. Where `Insert` puts a timer and what `Find` finds is read off the least index
that passes a test (`LeastPosition`), which like `FoldLemmas` rests on the natural
numbers being well-founded. `ImplementsBoard` is proved step by step: each action of the
pool is an action of `TaskBoard` under the mapping, or leaves the board alone; the guard
of the board's step (a task runs when it is due and was not cancelled) comes from `Owned`
and `Settled`.

`InputProofs`, buttons and keys. For one repeat at a time the invariant must know about
the id between a timer's arming and the store of that id (`RepeatInv`), in which an id that
was never cleared may name another task by now; for
`NoKeyLeftDown`, that the reset of a closed session is the last task queued, or has run
and left nothing pressed (`ResetInv`).

`InputProofs`, gamepads. An `input_t` lives as long as the map, a session, a timer or a
task has it, so every step may end some (`Settle`), whose slots then wait in a task of
their own. `Accounted` is `SlotsAccounted` of any living inputs, which lets the lemmas
follow it through the two halves of a step: what the handler does, and what settles then.
`OwnInputs` says that an input is of one client only, and retained while its session
lasts; `DestroysLetGo` that what a task will destroy is not retained any more, so that
pads in use are not given back; `PausesReset` that the reset of a client that is away is
the last task that has its input, or has run and left its pads neutral and without a timer:
in between, no packet can press anything that the reset does not see, and afterwards the
input gets none until the client is back. So `NeutralWhenPaused`, for the whole time.
`PadsSurvivePause` is an action property on top: only a removal, and the rebinding of a
pad, takes a pad from an input that stays.

`InputProofs`, the packet queue. A run of the worker's loop (`Drain`) is a fold of
`DrainOne` over the queue, and so a trace (`DrainTrace`). Along it the run is compared
with one that merges nothing and leaves all packets queued (`Faithful`): the stream of
what is delivered and still queued has the same order, for every device and of kinds
(`SameOrder`; a stream says the same if it does once stuttering is squeezed out, and
`SqueezeAppend` says how squeezing goes on at the end); the same latest state of every
device (`LatestIn`); and motion that differs by multiples of the range of a delta
(`MotionHeld`, with the arithmetic of `Wrap` from `ModUnique` and `WrapSum`). `Passes` is
what makes that so: whatever the loop has passed over is of the same kind and about other
devices, and never relative motion. What two packets may do to each other is in
`BatchedAlike`, `MergedAlike` and `PassedOver`, the only lemmas that look into the eight
batch functions. The invariant, `QueueInv`, says of the stream and what was received what
`Faithful` says of two runs; it needs besides that what is queued is in the order received
(`Embedded`), or a sum that overflows could not be traced to two packets that were
received, which is all that `MotionKept` excuses. `NothingStranded` is its count of tasks.

`AppHostProofs`. `Inv` first says what a stack can look like (`Shaped`): callers above
callers down to one that nobody called, and the two frames of `execute()` only for the
HTTPS thread with an app to start (`Executing`); `Looks` follows a launch through its look
for an app. On top of this, and for as long as the code itself has not lost track
(`taint`), come the parts about `proc_t`: one thread inside (`OneInside`), what each stage
of `execute()` and `terminate()` has reached (`Stages`), that without an app nothing is
left of one (`Clean`), which undo commands are owed (`Undone`), that an app a launch did
not find is still absent (`Absent`), and who is to revert the display (`Configured`: a
changed display belongs to an app that runs, or to a launch under way that reverts it or
starts one). Steps outside `proc_t` leave all of this alone (`Apart`, `ApartKeeps`);
inside it the thread is alone, so that its own step decides (`AloneBefore`, `EndsKnown`,
`ExecutesKnown`, `AloneAfter`). `UndoAccounted`, `NothingLeftBehind` and `LaunchEndsNoApp`
follow. Their `taint` is part of what they say: the code has no lock, and with two threads
inside they fail.

`CaptureProofs`. `OneContext` counts the sessions that refer to the capture context and
says when its thread is off. For `ContextsTold`, `Known` says that the thread has only
contexts that sessions have raised, and `KnownOrTold` that a session which goes on is on
the thread's list, in its queue, or was told; the end of the thread empties both into the
told. For `DisplaysApart`, `Published` says where the thread is with the display it has
published, `DevicesCurrent` and `ImagesCurrent` that encoders and images are of that
display, or of one taken `late`, and `GivenUp` that between the end of the wait and the
next display nobody holds the old one: what the loop over `use_count()` has seen stays
true. `SharesCapture`, that sessions share the capture context as a `SharedObject`, follows
from `OneContext` and `LastJoins`: while the thread is joined nobody has a reference.

`AudioSinkProofs`. `Inv` has eight parts. `ContextHeld` counts: the `shared_t`'s count is
the number of threads that hold a reference, and while one thread is inside its lock to
construct or destroy the context, nobody holds it; the steps that raise and lower the
count are the ones that add a thread to `Holders` or take it away. `Stages` says what a
stage of construction or destruction knows of the context; `IndexLoaded` that the null
sinks the context will unload are loaded, so that none is left but those the server would
not unload, or a run that crashed left (`Counted`); `Origin` that the host sink noted by
the context is the default that the first session found, for as long as nothing `touched`
it, and that `restore_sink` says whether it was replaced; `Chosen` that once `sink_flag`
is set, the first session's choice is the default or is about to be. `HearsTheHost` is
inductive on top of `Chosen`. `HostAsBefore` then follows in the idle states. There is one
lemma per action and group of parts; `StreamsOn` is inductive by itself. `SharesContext`,
that the audio context is a `SharedObject`, follows from `ContextHeld`: a thread that takes
the first reference constructs, one that finds another at the context joins it, and a
callback that waits for a lost server leaves the object stuck until a restart (`StageOf` and
`StageHeld` read the stage off the lock). TLC finds `SharesCapture` and `SharesContext` true
on their runs' instances; being proved, they are in no cfg.

Only model-checked: the liveness properties (`PendingLeaves`, `StoppingIsReaped`,
`BroadcastEnds`, `DueTaskRuns`, `LeftIsReleased`, `PadsUnplugged`, `SessionEndsWithApp`,
`WaitsEnd`, `PinsAnswer`, `ThreadsEnd`), which are out of the prover's reach. All the
other properties of the runs are proved.

## 5. What is abstracted, and what is not modelled

* Shutdown of the whole process (`server.stop()`, `mail::shutdown`) appears in no
  module; in `StreamSession`, `clear_by_cert` and the configuration server's calls run on
  the one web actor, "https". In `AppHost` the HTTPS and the web server have a thread each.
* In `StreamSession` a session's threads are one stage, from the initial ping to their end;
  whether a ping or a capture fails is nondeterministic. Packet queues, FEC, encryption
  and the contents of control messages are left out everywhere.
* An exception out of `join()` (`JoinThrows`) is caught by the web server library,
  modelled from how the code uses it.
* `Gamepads`: one session per client at a time, one task frees all slots of a
  destroyed input, and whether a pad can be rebound is nondeterministic.
* `InputButtons`: keyboard shortcuts, synthetic modifiers, Unicode text, and the
  configuration that switches devices off. Ids come back as in `ThreadPool`; the tasks of
  other parts of the program, whose addresses a stale id may name too, are not there.
* `ThreadPool`: `delay()`, `pop(task_id)` and `pushDelayed` of a ready-made pair have
  no caller and are left out, as are `start()` and `join()`.

* `AppHost`: the commands themselves, environment and app list; one session; whether an
  encoder is found or a client meets the encryption mode is nondeterministic. `taint` notes
  four events after which the code itself has lost track, and the properties hold up to
  them: two threads in `proc_t`, `refresh()` over an app in use, a resume whose
  app has ended since it was looked for, a launch of app 0. The display is the last thing
  it was asked to be; its retry scheduler and OS calls are a library.
* `Capture`: `captureThreadSync` (encoders without parallel encoding), display switching,
  the probing of encoders and encoding itself. `late`, `dropped` and `crashed` note what
  the code does not guard against, and the properties hold but for it.
* `Clients`: a PIN on standard input, FRESH_STATE, the lengths of salts and challenges;
  cryptography is whose secret a value was made of. `behind`, `overlap`, `lost`, `stale`
  note writes that failed, two threads at the list or its file, a full queue, certificates
  still queued when their client left; the properties say what holds but for these. The
  file is taken to be that of the password too, as it is unless the configuration names
  another (`config.cpp` 1702). `sunshine --creds` (`entry_handler.cpp` 43), another process
  that rewrites it, is left out.
* `PingRouting`: encryption of pings, ports beyond one per stream.
* `AudioSink`: the encoder, sample formats and the remaining platforms' audio; the holder of
  the context in `display_device.cpp` (Windows).
* Not modelled at all: RTSP framing and the commands before ANNOUNCE, touch and pen geometry,
  NVENC, tray, UPnP, mDNS, configuration, logging, entry and shutdown, all platform code
  but `linux/audio.cpp`, and of web authentication all but the writing of the password. It
  is I/O, parsing or sequential calls into libraries; what other components depend on of
  it is in the modules above.

Two comments that runs refute:

* `input.cpp` 1618, 1658, 1678: "Batching is safe as long as the result doesn't overflow a
  16-bit integer". The tests of `__builtin_add_overflow` (1619, 1622, 1659, 1679) are
  inverted: scrolls and moves whose sum fits are not merged, those that overflow are, and
  lose 2^16 each. `motion_exact` finds two such packets; `ContentKept` and its proof say what
  is left of the motion.
* `video.cpp` 2379: a detached encoder teardown "may probably never exit, but it will allow
  streaming to continue without requiring a full restart". It holds the display through its
  device, and after the next loss of the display the capture thread waits until nobody does
  (1715): in `wait_ends` that wait does not end.

Observed while modelling, and excused by name where a property would fail:

* `session_clear` looks at the slot and pops it without a timeout (`rtsp.cpp` 622, 628). If
  the expiry handler comes in between, the control thread waits there until the next launch,
  and for ever if there is none, holding the list of sessions; a session that is joined
  meanwhile waits for it, under the lock of the slots, and one whose app ends lives on.
  `ViewedStillAccounted` says that nothing else can come in between; `StoppingIsReaped`,
  `BroadcastEnds` and `SessionEndsWithApp` excuse a thread that waits for ever (`Wedged`).
* An expiry handler that asio queued before `expires_after` of a newer launch discards
  that newer launch when it runs. `PendingIsCovered` and the theorem `TakenOnce` hold with it.
* The control thread may leave, when no app runs, with a session just put on its list;
  `controlEnd` of that session is never raised. `StoppingIsReaped` excuses it
  (`Orphaned`).
* `stop()` replaces RUNNING only, and `start()` stores RUNNING last (`stream.cpp` 2148,
  2240): a `stop()` in between is lost, and `join()` waits for a session that runs on
  (`JoinedRunning`), until the watchdog of `join()` ends the process.
* `start()` and `join()` change `running_sessions` and then call the platform
  (`stream.cpp` 2202, comments at 2185 and 2242): with a last join and a first start
  overlapping, `streaming_will_stop` can be the last call while a session runs.
* `reset()` cancels the delayed release of the left button, and its loop skips the button
  because it is tracked as up (`input.cpp` 2063): it stays down on the host, although
  `reset_input_state` is to "reset all pressed input state" (2041). `LeftIsReleased` is
  about the time of the session.
* The removal of a controller leaves `back_timeout_id` armed (`input.cpp` 1514): a pad plugged in
  within the timeout gets a Home press without Back, against `docs/configuration.md` 476.
* `reset()` and the next press cancel by an id that nothing clears (`input.cpp` 1126, 2062);
  if the address was reused meanwhile, the cancel removes another task
  (`ThreadPool!Cancel`), in `InputButtons` the delayed release of the left button, which
  then stays down (`Aliased`).
* `input.cpp` 907 says that `mouse_left_button_timeout` can only be null when the last
  coordinates were absolute; a delayed release that fires after a relative move sets it
  to null all the same, so that the next release is delayed too.
* Closing an app from the web while the control thread's `running()` cleans up runs the undo
  commands twice and moves their iterator before its list; a detached app that was ended
  meanwhile can leave `running()` answering -1 for ever (`process.h` 118).
* `refresh()` (`process.cpp` 804) over a running app loses its undo commands and leaves its
  processes; a resume whose probe fails, or whose app has just ended, and a launch of app 0
  leave the display configured.
* After an encoder passed its look at `reinit_event` it can still lock the display that is
  being given up, against the comment at `video.cpp` 1712; when all contexts were erased during
  the wait, `capture_ctxs.front()` is taken of an empty vector (`video.cpp` 1749); the end of
  the last session between `peek()` and `pop()` has an empty optional dereferenced (1682);
  the 31st context in a row drops the 30 before it.
* The list of clients is shared by three threads without a lock, and its file by two. A
  change of the password that reads the file before a client is saved, and writes after it,
  puts back the list without that client (`httpcommon.cpp` 91, 102). A state file that was
  cut short is neither read nor written again; after a write that failed a restart forgets or
  revives a client. A certificate is raised before its client is on the list (`nvhttp.cpp` 603,
  349): an edit in between, behind a handshake, leaves a client on the list that no handshake
  knows; one still in the queue when its client is removed is accepted until the list is
  loaded again. `last_verified_client_cert` is of the last handshake, whichever request is
  being served (`nvhttp.cpp` 177).
* `pin()` goes on with a session that `getservercert()` has removed (`nvhttp.cpp` 800-807),
  which may crash the process; the response that waited there is dropped. `PinsAnswer` says
  that no session waits for ever, not that every client is answered.
* Both receives of `recvThread` write one variable, `peer` (`stream.cpp` 1381, 1456): a ping can be
  passed on with another's endpoint. Two legacy sessions behind one address share a route,
  and a full registration queue, which only a datagram empties, loses registrations.
* A second session may open its microphone before the first has switched the sink
  (`audio.cpp` 212); a switch that fails leaves `sink_flag` and `restore_sink` set; a
  user's own pick during a stream is undone at its end. Requests to the sound
  server wait for their answer without a timeout, most of them also when there is no request
  because the connection is lost: `load_null`, `unload_null`, the list of sinks, the names of
  the default sink and of a monitor that `microphone` asks for; `set_sink` when it is lost
  meanwhile, and the end of a failed connect (`linux/audio.cpp` 390, 411, 474, 543, 579, 644,
  669). Such a thread waits for ever, and where it makes or ends the context under its lock,
  so does every audio thread. After a crash the leftover null sink is taken
  for the host's sink. One packet that cannot be encoded stops the queue of all sessions
  (`audio.cpp` 144).

## 6. Plan

In this order; each module as parameters with assumptions, one action per operation,
and no recursive operator, so that it can be proved about.

1. RTSP connections: framing, the read position, encrypted messages and their counters,
   the commands before ANNOUNCE.
2. The packet queues between the session threads and the broadcast threads, with the raw
   session pointers they carry; sequence numbers and FEC blocks across the 16-bit
   wraparound as operators.
3. `captureThreadSync`, whose queue can stop under a session that waits to be joined.
4. Web configuration: login, CSRF tokens and their expiry.

Theorems next: for each new module what its run checks.
