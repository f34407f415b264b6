------------------------------ MODULE AppHost -------------------------------
(***************************************************************************)
(* The application that is streamed: proc_t of process.cpp, and those who  *)
(* start and end it. proc::proc is a global without a lock. Its callers    *)
(* are the HTTPS thread (serverinfo, launch, resume, cancel), the web      *)
(* thread (apps and clients), the control thread of the streams, which     *)
(* ends the sessions when no app runs, and whoever joins the last session. *)
(*                                                                         *)
(* A call is a run of labelled steps on the thread that makes it, so that  *)
(* two calls interleave where the code would block: a command that runs,   *)
(* the wait for an app to exit, the probing of encoders. `taint' notes the *)
(* events after which the code itself loses track: two threads inside      *)
(* proc_t, refresh() over an app in use, a resume whose app has ended      *)
(* since it was looked for, and a launch of no app at all.                 *)
(***************************************************************************)
EXTENDS Integers, SequencesExt

CONSTANTS
    Apps,               \* app ids
    Preps,              \* an app's prep_cmds: which of do and undo are given
    Commands,           \* apps with a cmd; the others are the desktop
    AutoDetach,         \* apps with auto_detach
    WaitAll,            \* apps with wait_all
    RevertOnDisconnect, \* config::video.dd.config_revert_on_disconnect
    MaxRequests         \* bound: how many requests each server thread serves

ASSUME AppHostAssumption ==
    /\ Apps \subseteq Nat \ {0}
    /\ Preps \in [Apps -> Seq({"both", "do", "undo"})]
    /\ Commands \subseteq Apps
    /\ AutoDetach \subseteq Commands
    /\ WaitAll \subseteq Commands
    /\ RevertOnDisconnect \in BOOLEAN
    /\ MaxRequests \in [{"https", "web"} -> Nat]

VARIABLES
    proc,       \* proc::proc
    owed,       \* undo commands due for what preparation has done
    display,    \* what the display device was last asked to be
    pending,    \* a launch session waits in launch_event
    sess,       \* the one streaming session
    pc,         \* where each thread is
    stack,      \* where its callers go on
    val,        \* what the last call returned to it
    request,    \* the HTTPS request: its app, and revert_display_configuration
    served,     \* how many requests each thread has begun
    taint,      \* see above
    crashed     \* _app_prep_it was used outside the list

threadVars == <<pc, stack, val>>
noteVars   == <<taint, crashed>>
reqVars    == <<request, served>>
vars == <<proc, owed, display, pending, sess, threadVars, reqVars, noteVars>>

Threads == {"https", "web", "control", "rtsp"}

NoApp == 0

PrepsOf(a) == IF a \in Apps THEN Preps[a] ELSE <<>>

\* The steps of execute() and terminate(): a thread there is inside proc_t.
InTerminate == {"wait", "undo", "undoing", "finish"}
InExecute == {"find", "prep", "spawn", "failed"}
Inside(t) == pc[t] \in InTerminate \cup InExecute

Labels ==
    InTerminate \cup InExecute
    \cup {"off", "idle", "terminate", "running", "zero", "count",
          "clear", "join", "joining", "joined", "erase"}
    \cup {"loop", "pop", "answer", "disabled", "counted", "found"}
    \cup {"launch", "launching", "probe", "begin", "executed", "refuse",
          "resume", "resuming", "reprobe", "allow", "cancel",
          "cancelling", "revert"}

TypeOK ==
    /\ proc \in [id : Apps \cup {0, -1}, app : Apps \cup {NoApp},
                 placebo : BOOLEAN, child : {"none", "up", "ok", "failed"},
                 group : BOOLEAN, it : Int]
    /\ owed \in SUBSET (Apps \X (Nat \ {0}))
    /\ display \in {"original", "changed"}
    /\ pending \in BOOLEAN
    /\ sess \in [state : {"none", "waiting", "running", "stopping", "joining"},
                 ended : BOOLEAN, awaited : BOOLEAN]
    /\ pc \in [Threads -> Labels]
    /\ stack \in [Threads -> Seq(Labels)]
    /\ val \in [Threads -> Apps \cup {0, 1, -1, 404}]
    /\ request \in [app : Apps \cup {NoApp}, revert : BOOLEAN]
    /\ served \in [{"https", "web"} -> Nat]
    /\ taint \subseteq {"overlap", "refresh", "late", "none"}
    /\ crashed \in BOOLEAN
    /\ taint = {} => proc.it \in 0 .. Len(PrepsOf(proc.app))

NoProc == [id |-> 0, app |-> NoApp, placebo |-> FALSE, child |-> "none",
           group |-> FALSE, it |-> 0]

NoRequest == [app |-> NoApp, revert |-> FALSE]

NoSession == [state |-> "none", ended |-> FALSE, awaited |-> FALSE]

Init ==
    /\ proc = NoProc
    /\ owed = {}
    /\ display = "original"
    /\ pending = FALSE
    /\ sess = NoSession
    /\ pc = [t \in Threads |-> IF t = "control" THEN "off" ELSE "idle"]
    /\ stack = [t \in Threads |-> <<>>]
    /\ val = [t \in Threads |-> 0]
    /\ request = NoRequest
    /\ served = [t \in {"https", "web"} |-> 0]
    /\ taint = {}
    /\ crashed = FALSE

-----------------------------------------------------------------------------
(* Calls and returns.                                                      *)

At(t, l) == ~crashed /\ pc[t] = l

\* A result is forgotten by a thread that has nothing to do.
Kept(l, v) == IF l \in {"idle", "loop", "off"} THEN 0 ELSE v

Goto(t, l) ==
    /\ pc' = [pc EXCEPT ![t] = l]
    /\ val' = [val EXCEPT ![t] = Kept(l, @)]
    /\ UNCHANGED stack

Enter(t, l, frames) ==
    /\ pc' = [pc EXCEPT ![t] = l]
    /\ stack' = [stack EXCEPT ![t] = frames \o @]
    /\ UNCHANGED val

Call(t, l, next) == Enter(t, l, <<next>>)

Return(t, v) ==
    /\ pc' = [pc EXCEPT ![t] = Head(stack[t])]
    /\ stack' = [stack EXCEPT ![t] = Tail(@)]
    /\ val' = [val EXCEPT ![t] = Kept(Head(stack[t]), v)]

Note(events) == taint' = taint \cup events

\* A thread that enters proc_t to change it while another is inside.
Overlap(t) == IF \E u \in Threads \ {t} : Inside(u) THEN {"overlap"} ELSE {}

-----------------------------------------------------------------------------
(* The display device: the retry scheduler behind it drops what it still   *)
(* tries when it is asked for something else.                              *)

Configure == display' = "changed"

Revert == display' = "original"

-----------------------------------------------------------------------------
(* terminate()                                                             *)

Terminate(t) ==
    /\ At(t, "terminate")
    /\ proc' = [proc EXCEPT !.placebo = FALSE]
    /\ Note(Overlap(t))
    /\ Goto(t, "wait")
    /\ UNCHANGED <<owed, display, pending, sess, reqVars, crashed>>

\* terminate_process_group() returned: the group exited, or was ended.
GroupEnded(t) ==
    /\ At(t, "wait")
    /\ proc' = [proc EXCEPT !.child = "none", !.group = FALSE]
    /\ Goto(t, "undo")
    /\ UNCHANGED <<owed, display, pending, sess, reqVars, noteVars>>

\* One pass of the loop up to child.wait(): the undo command is run.
BeginUndo(t) ==
    LET cmds == PrepsOf(proc.app) IN
    /\ At(t, "undo")
    /\ IF proc.it = 0 THEN Goto(t, "finish") ELSE Goto(t, "undoing")
    /\ crashed' = (proc.it \notin 0 .. Len(cmds))
    /\ owed' = IF ~crashed' /\ proc.it # 0 /\ cmds[proc.it] # "do"
               THEN owed \ {<<proc.app, proc.it>>}
               ELSE owed
    /\ UNCHANGED <<proc, display, pending, sess, reqVars, taint>>

EndUndo(t) ==
    /\ At(t, "undoing")
    /\ proc' = [proc EXCEPT !.it = @ - 1]
    /\ Goto(t, "undo")
    /\ UNCHANGED <<owed, display, pending, sess, reqVars, noteVars>>

Finish(t) ==
    /\ At(t, "finish")
    /\ IF proc.id > 0 THEN Revert ELSE UNCHANGED display
    /\ proc' = [proc EXCEPT !.id = -1]
    /\ Return(t, 0)
    /\ UNCHANGED <<owed, pending, sess, reqVars, noteVars>>

-----------------------------------------------------------------------------
(* running()                                                               *)

Lives ==
    \/ proc.placebo
    \/ proc.app \in WaitAll /\ proc.group
    \/ proc.child = "up"

\* auto_detach, exit code 0: whether it was within 5 seconds of the launch
\* is open.
MayDetach == ~Lives /\ proc.app \in AutoDetach /\ proc.child = "ok"

Running(t) ==
    /\ At(t, "running")
    /\ \/ /\ Lives
          /\ Return(t, proc.id)
          /\ UNCHANGED <<proc, taint>>
       \/ /\ MayDetach
          /\ proc' = [proc EXCEPT !.placebo = TRUE]
          /\ Return(t, proc.id)
          /\ Note(Overlap(t))
       \/ /\ ~Lives
          /\ IF proc.child = "none" THEN Return(t, 0)
             ELSE Call(t, "terminate", "zero")
          /\ UNCHANGED <<proc, taint>>
    /\ UNCHANGED <<owed, display, pending, sess, reqVars, crashed>>

\* The return after running() has cleaned up.
ReturnZero(t) ==
    /\ At(t, "zero")
    /\ Return(t, 0)
    /\ UNCHANGED <<proc, owed, display, pending, sess, reqVars, noteVars>>

-----------------------------------------------------------------------------
(* execute(), which the HTTPS thread calls; it begins with terminate().    *)

\* The app's id may be one that is not (or no longer) in the list.
Find(t) ==
    /\ At(t, "find")
    /\ \/ Return(t, 404) /\ UNCHANGED proc
       \/ /\ proc' = [proc EXCEPT !.id = request.app, !.app = request.app,
                                  !.it = 0]
          /\ Goto(t, "prep")
    /\ UNCHANGED <<owed, display, pending, sess, reqVars, noteVars>>

\* Faulty variant: _app_prep_it passes the command before it is known to
\* have succeeded.
PrepareEarly(t) ==
    LET cmds == PrepsOf(proc.app) IN
    /\ At(t, "prep")
    /\ proc.it \in 0 .. Len(cmds) - 1
    /\ proc' = [proc EXCEPT !.it = @ + 1]
    /\ \/ /\ owed' = IF cmds[proc.it + 1] = "do" THEN owed
                     ELSE owed \cup {<<proc.app, proc.it + 1>>}
          /\ Goto(t, "prep")
       \/ /\ cmds[proc.it + 1] # "undo"
          /\ Call(t, "terminate", "failed")
          /\ UNCHANGED owed
    /\ UNCHANGED <<display, pending, sess, reqVars, noteVars>>

\* A do command succeeds or there is none; or it fails, and the fail guard
\* takes back those before it.
Prepare(t) ==
    LET cmds == PrepsOf(proc.app) IN
    /\ At(t, "prep")
    /\ proc.it \in 0 .. Len(cmds) - 1
    /\ \/ /\ proc' = [proc EXCEPT !.it = @ + 1]
          /\ owed' = IF cmds[proc.it + 1] = "do" THEN owed
                     ELSE owed \cup {<<proc.app, proc.it + 1>>}
          /\ Goto(t, "prep")
       \/ /\ cmds[proc.it + 1] # "undo"
          /\ Call(t, "terminate", "failed")
          /\ UNCHANGED <<proc, owed>>
    /\ UNCHANGED <<display, pending, sess, reqVars, noteVars>>

Prepared(t) ==
    /\ At(t, "prep")
    /\ proc.it \notin 0 .. Len(PrepsOf(proc.app)) - 1
    /\ crashed' = (proc.it # Len(PrepsOf(proc.app)))
    /\ Goto(t, "spawn")
    /\ UNCHANGED <<proc, owed, display, pending, sess, reqVars, taint>>

Spawn(t) ==
    /\ At(t, "spawn")
    /\ \/ /\ proc.app \notin Commands
          /\ proc' = [proc EXCEPT !.placebo = TRUE]
          /\ Return(t, 0)
       \/ /\ proc.app \in Commands
          /\ proc' = [proc EXCEPT !.child = "up", !.group = TRUE]
          /\ Return(t, 0)
       \/ /\ proc.app \in Commands
          /\ Call(t, "terminate", "failed")
          /\ UNCHANGED proc
    /\ UNCHANGED <<owed, display, pending, sess, reqVars, noteVars>>

Failed(t) ==
    /\ At(t, "failed")
    /\ Return(t, -1)
    /\ UNCHANGED <<proc, owed, display, pending, sess, reqVars, noteVars>>

\* The app's first process exits; what it started may go on.
AppExits ==
    /\ ~crashed
    /\ proc.child = "up"
    /\ \E code \in {"ok", "failed"}, g \in BOOLEAN :
           proc' = [proc EXCEPT !.child = code, !.group = g]
    /\ UNCHANGED <<owed, display, pending, sess, threadVars, reqVars, noteVars>>

GroupExits ==
    /\ ~crashed
    /\ proc.group /\ proc.child # "up"
    /\ proc' = [proc EXCEPT !.group = FALSE]
    /\ UNCHANGED <<owed, display, pending, sess, threadVars, reqVars, noteVars>>

\* refresh(): proc is replaced by one that was made from the file.
Refresh(t) ==
    /\ proc' = NoProc
    /\ Note(Overlap(t) \cup IF proc.id > 0 THEN {"refresh"} ELSE {})
    /\ UNCHANGED <<owed, display, pending, sess, threadVars, request, crashed>>

-----------------------------------------------------------------------------
(* The session: its slot, its threads, and those who join it.              *)

SessionStarts ==
    /\ ~crashed
    /\ pending /\ sess.state = "none" /\ pc["control"] = "off"
    /\ pending' = FALSE
    /\ sess' = [sess EXCEPT !.state = "waiting"]
    /\ pc' = [pc EXCEPT !["control"] = "loop"]
    /\ UNCHANGED <<proc, owed, display, stack, val, reqVars, noteVars>>

LaunchExpires ==
    /\ ~crashed
    /\ pending
    /\ pending' = FALSE
    /\ UNCHANGED <<proc, owed, display, sess, threadVars, reqVars, noteVars>>

\* The client disconnects, or its pings time out.
SessionStops ==
    /\ ~crashed
    /\ sess.state \in {"waiting", "running"}
    /\ sess' = [sess EXCEPT !.state = "stopping"]
    /\ UNCHANGED <<proc, owed, display, pending, threadVars, reqVars, noteVars>>

\* session_count(), which first joins a session that is stopping.
Count(t) ==
    /\ At(t, "count")
    /\ sess.state # "joining"
    /\ IF sess.state = "stopping" THEN Call(t, "join", "count")
       ELSE Return(t, IF sess.state = "none" THEN 0 ELSE 1)
    /\ UNCHANGED <<proc, owed, display, pending, sess, reqVars, noteVars>>

\* clear(true) or clear_by_cert(): stops the session and joins it.
Clear(t) ==
    /\ At(t, "clear")
    /\ sess.state # "joining"
    /\ IF sess.state = "none" THEN Return(t, 0) /\ UNCHANGED sess
       ELSE Goto(t, "join") /\ sess' = [sess EXCEPT !.state = "stopping"]
    /\ UNCHANGED <<proc, owed, display, pending, reqVars, noteVars>>

Reap ==
    /\ At("rtsp", "idle")
    /\ sess.state = "stopping"
    /\ Call("rtsp", "join", "idle")
    /\ UNCHANGED <<proc, owed, display, pending, sess, reqVars, noteVars>>

\* The slots are locked: who comes second finds nothing left to join.
Join(t) ==
    /\ At(t, "join")
    /\ sess.state # "joining"
    /\ IF sess.state = "stopping"
       THEN Goto(t, "joining") /\ sess' = [sess EXCEPT !.state = "joining"]
       ELSE Return(t, 0) /\ UNCHANGED sess
    /\ UNCHANGED <<proc, owed, display, pending, reqVars, noteVars>>

\* controlEnd.view() returned; running_sessions is zero again.
LastSession(t) ==
    /\ At(t, "joining")
    /\ sess.ended
    /\ Call(t, "running", "joined")
    /\ UNCHANGED <<proc, owed, display, pending, sess, reqVars, noteVars>>

Joined(t) ==
    /\ At(t, "joined")
    /\ IF RevertOnDisconnect \/ val[t] = 0 THEN Revert ELSE UNCHANGED display
    /\ Goto(t, "erase")
    /\ UNCHANGED <<proc, owed, pending, sess, reqVars, noteVars>>

\* The last reference goes: end_broadcast() joins the control thread.
Erase(t) ==
    /\ At(t, "erase")
    /\ pc["control"] \in {"loop", "off"}
    /\ sess' = NoSession
    /\ pc' = [pc EXCEPT ![t] = Head(stack[t]), !["control"] = "off"]
    /\ stack' = [stack EXCEPT ![t] = Tail(@)]
    /\ UNCHANGED <<proc, owed, display, pending, val, reqVars, noteVars>>

-----------------------------------------------------------------------------
(* The control thread                                                      *)

\* get_session ends the wait for the peer. It has called
\* launch_session_clear, whose pop() blocks when the launch session has just
\* expired (module LaunchEvent).
PeerConnects ==
    /\ At("control", "loop")
    /\ sess.state = "waiting"
    /\ \/ sess' = [sess EXCEPT !.state = "running"] /\ UNCHANGED threadVars
       \/ Goto("control", "pop") /\ UNCHANGED sess
    /\ UNCHANGED <<proc, owed, display, pending, reqVars, noteVars>>

\* Only a later launch, which nobody need request, ends that pop().
PopReturns ==
    /\ At("control", "pop")
    /\ sess' = [sess EXCEPT !.state = IF @ = "waiting" THEN "running" ELSE @]
    /\ Goto("control", "loop")
    /\ UNCHANGED <<proc, owed, display, pending, reqVars, noteVars>>

\* One pass over the sessions.
Scan ==
    /\ At("control", "loop")
    /\ sess' = [sess EXCEPT
            !.ended = @ \/ sess.state \in {"stopping", "joining"},
            !.awaited = sess.state = "waiting"]
    /\ Call("control", "running", "answer")
    /\ UNCHANGED <<proc, owed, display, pending, reqVars, noteVars>>

\* Faulty variant: the thread leaves without letting go of the session.
AnswerKeepsSession ==
    /\ At("control", "answer")
    /\ Goto("control", IF val["control"] = 0 /\ ~sess.awaited THEN "off"
                       ELSE "loop")
    /\ UNCHANGED <<proc, owed, display, pending, sess, reqVars, noteVars>>

\* No app: the thread ends, and every session with it.
Answer ==
    /\ At("control", "answer")
    /\ IF val["control"] = 0 /\ ~sess.awaited
       THEN /\ sess' = [sess EXCEPT !.ended = TRUE,
                    !.state = IF @ = "joining" THEN @ ELSE "stopping"]
            /\ Goto("control", "off")
       ELSE Goto("control", "loop") /\ UNCHANGED sess
    /\ UNCHANGED <<proc, owed, display, pending, reqVars, noteVars>>

-----------------------------------------------------------------------------
(* Requests to the HTTPS server: serverinfo, launch, resume and cancel.    *)

Serve(t) ==
    /\ At(t, "idle")
    /\ served[t] < MaxRequests[t]
    /\ served' = [served EXCEPT ![t] = @ + 1]

Serverinfo ==
    /\ Serve("https")
    /\ Call("https", "running", "idle")
    /\ UNCHANGED <<proc, owed, display, pending, sess, request, noteVars>>

Launch ==
    /\ Serve("https")
    /\ \E a \in Apps \cup {NoApp} : request' = [app |-> a, revert |-> FALSE]
    /\ Call("https", "running", "launch")
    /\ UNCHANGED <<proc, owed, display, pending, sess, noteVars>>

\* Faulty variant: a launch takes over from the app that runs.
LaunchOverApp ==
    /\ At("https", "launch")
    /\ Call("https", "count", "launching")
    /\ UNCHANGED <<proc, owed, display, pending, sess, reqVars, noteVars>>

LaunchIfFree ==
    /\ At("https", "launch")
    /\ IF val["https"] > 0
       THEN Goto("https", "idle") /\ request' = NoRequest
       ELSE Call("https", "count", "launching") /\ UNCHANGED request
    /\ UNCHANGED <<proc, owed, display, pending, sess, served, noteVars>>

ConfigureToLaunch ==
    /\ At("https", "launching")
    /\ IF val["https"] = 0
       THEN /\ request' = [request EXCEPT !.revert = TRUE]
            /\ Configure
            /\ Goto("https", "probe")
       ELSE Goto("https", "begin") /\ UNCHANGED <<request, display>>
    /\ UNCHANGED <<proc, owed, pending, sess, served, noteVars>>

\* probe_encoders() finds an encoder or not.
Probe ==
    /\ At("https", "probe")
    /\ \E next \in {"begin", "refuse"} : Goto("https", next)
    /\ UNCHANGED <<proc, owed, display, pending, sess, reqVars, noteVars>>

\* The client may not meet encryption_mode.
Begin ==
    /\ At("https", "begin")
    /\ \/ Goto("https", "refuse")
       \/ request.app > 0 /\ Enter("https", "terminate", <<"find", "executed">>)
       \/ request.app = NoApp /\ Goto("https", "executed")
    /\ UNCHANGED <<proc, owed, display, pending, sess, reqVars, noteVars>>

\* execute() has failed; or the launch session is raised, unless one is
\* still pending.
Raise ==
    /\ At("https", "executed")
    /\ IF request.app > 0 /\ val["https"] # 0
       THEN Goto("https", "refuse") /\ UNCHANGED <<pending, request, taint>>
       ELSE /\ pending' = TRUE
            /\ Note(IF request.app = NoApp THEN {"none"} ELSE {})
            /\ request' = NoRequest
            /\ Goto("https", "idle")
    /\ UNCHANGED <<proc, owed, display, sess, served, crashed>>

\* Faulty variant: the fail guard does not revert.
RefuseKeepsDisplay ==
    /\ At("https", "refuse")
    /\ request' = NoRequest
    /\ Goto("https", "idle")
    /\ UNCHANGED <<proc, owed, display, pending, sess, served, noteVars>>

\* The fail guard of launch().
Refuse ==
    /\ At("https", "refuse")
    /\ IF request.revert THEN Revert ELSE UNCHANGED display
    /\ request' = NoRequest
    /\ Goto("https", "idle")
    /\ UNCHANGED <<proc, owed, pending, sess, served, noteVars>>

Resume ==
    /\ Serve("https")
    /\ Call("https", "running", "resume")
    /\ UNCHANGED <<proc, owed, display, pending, sess, request, noteVars>>

ResumeIfRunning ==
    /\ At("https", "resume")
    /\ IF val["https"] = 0 THEN Goto("https", "idle")
       ELSE Call("https", "count", "resuming")
    /\ UNCHANGED <<proc, owed, display, pending, sess, reqVars, noteVars>>

ConfigureToResume ==
    /\ At("https", "resuming")
    /\ IF val["https"] = 0
       THEN /\ Configure
            /\ Note(IF proc.id > 0 THEN {} ELSE {"late"})
            /\ Goto("https", "reprobe")
       ELSE Goto("https", "allow") /\ UNCHANGED <<display, taint>>
    /\ UNCHANGED <<proc, owed, pending, sess, reqVars, crashed>>

\* A resume that fails leaves the display to the app it found running.
Reprobe ==
    /\ At("https", "reprobe")
    /\ \E next \in {"allow", "idle"} : Goto("https", next)
    /\ UNCHANGED <<proc, owed, display, pending, sess, reqVars, noteVars>>

Allow ==
    /\ At("https", "allow")
    /\ pending' \in {pending, TRUE}
    /\ Goto("https", "idle")
    /\ UNCHANGED <<proc, owed, display, sess, reqVars, noteVars>>

Cancel ==
    /\ Serve("https")
    /\ Call("https", "clear", "cancel")
    /\ UNCHANGED <<proc, owed, display, pending, sess, request, noteVars>>

CancelApp ==
    /\ \/ At("https", "cancel") /\ Call("https", "running", "cancelling")
       \/ /\ At("https", "cancelling")
          /\ IF val["https"] > 0 THEN Call("https", "terminate", "revert")
             ELSE Goto("https", "revert")
    /\ UNCHANGED <<proc, owed, display, pending, sess, reqVars, noteVars>>

CancelReverts ==
    /\ At("https", "revert")
    /\ Revert
    /\ Goto("https", "idle")
    /\ UNCHANGED <<proc, owed, pending, sess, reqVars, noteVars>>

-----------------------------------------------------------------------------
(* Requests to the web server.                                             *)

\* closeApp; unpair of the last client; unpairAll.
CloseApp ==
    /\ Serve("web")
    /\ Call("web", "terminate", "idle")
    /\ UNCHANGED <<proc, owed, display, pending, sess, request, noteVars>>

\* saveApp and deleteApp.
SaveApps ==
    /\ Serve("web")
    /\ Refresh("web")

\* updateClient with enabled = false; the session may be another client's.
DisableClient ==
    /\ Serve("web")
    /\ \/ Call("web", "clear", "disabled")
       \/ Goto("web", "disabled")
    /\ UNCHANGED <<proc, owed, display, pending, sess, request, noteVars>>

DisabledEndsApp ==
    /\ \/ At("web", "disabled") /\ Call("web", "count", "counted")
       \/ /\ At("web", "counted")
          /\ IF val["web"] = 0 THEN Call("web", "running", "found")
             ELSE Goto("web", "idle")
       \/ /\ At("web", "found")
          /\ IF val["web"] > 0 THEN Call("web", "terminate", "idle")
             ELSE Goto("web", "idle")
    /\ UNCHANGED <<proc, owed, display, pending, sess, reqVars, noteVars>>

-----------------------------------------------------------------------------
Proceed(t) ==
    \/ Terminate(t) \/ GroupEnded(t) \/ BeginUndo(t) \/ EndUndo(t) \/ Finish(t)
    \/ Running(t) \/ ReturnZero(t)
    \/ Count(t) \/ Clear(t)
    \/ Join(t) \/ LastSession(t) \/ Joined(t) \/ Erase(t)

HttpsStep ==
    \/ Proceed("https")
    \/ Find("https") \/ Prepare("https")
    \/ Prepared("https") \/ Spawn("https") \/ Failed("https")
    \/ LaunchIfFree \/ ConfigureToLaunch \/ Probe \/ Begin
    \/ Raise \/ Refuse
    \/ ResumeIfRunning \/ ConfigureToResume \/ Reprobe \/ Allow
    \/ CancelApp \/ CancelReverts

WebStep == Proceed("web") \/ DisabledEndsApp

ControlStep == Proceed("control") \/ Scan \/ Answer

RtspStep == Proceed("rtsp") \/ Reap

Environment ==
    \/ AppExits \/ GroupExits
    \/ SessionStarts \/ LaunchExpires \/ SessionStops
    \/ PeerConnects \/ PopReturns
    \/ Serverinfo \/ Launch \/ Resume \/ Cancel
    \/ CloseApp \/ SaveApps \/ DisableClient

Next == HttpsStep \/ WebStep \/ ControlStep \/ RtspStep \/ Environment

Spec == Init /\ [][Next]_vars

\* Threads go on, but for a control thread that is blocked; commands end (an
\* exit_timeout bounds the wait for an app), and a session whose peer does
\* not come times out.
FairSpec ==
    /\ Spec
    /\ WF_vars(HttpsStep) /\ WF_vars(WebStep)
    /\ WF_vars(ControlStep) /\ WF_vars(RtspStep)
    /\ WF_vars(sess.state = "waiting" /\ SessionStops)

-----------------------------------------------------------------------------
(* Properties                                                              *)

\* Every preparation command that has succeeded is undone once, in reverse,
\* whichever command, the app or the client ends it: what is owed is always
\* what terminate() has yet to run.
OwedBy(a, n) == {<<a, i>> : i \in {j \in 1 .. n : PrepsOf(a)[j] # "do"}}

UndoAccounted ==
    /\ TypeOK
    /\ taint = {} =>
           owed = OwedBy(proc.app, IF \E t \in Threads : pc[t] = "undoing"
                                   THEN proc.it - 1 ELSE proc.it)

\* When proc_t says that no app is on, there is none: no process of it, no
\* placebo that would make running() answer, no command left to undo.
IdleIsClean ==
    (taint = {} /\ proc.id <= 0 /\ \A t \in Threads : ~Inside(t)) =>
        /\ ~proc.placebo
        /\ proc.child = "none"
        /\ owed = {}

\* With no app, no session, no launch that waits and no request under way
\* the display is as it was found.
DisplayRestored ==
    (/\ taint = {} /\ proc.id <= 0
     /\ sess.state = "none" /\ ~pending /\ pc["https"] = "idle") =>
        display = "original"

\* An app that has ended, or could not be started, leaves nothing behind.
NothingLeftBehind == IdleIsClean /\ DisplayRestored

\* A launch ends no app: the one it looked for long before is still absent
\* when execute() cleans up.
LaunchEndsNoApp ==
    (/\ taint = {}
     /\ pc["https"] = "terminate" /\ Head(stack["https"]) = "find") => ~Lives

\* The control thread blocks in session_clear, and no launch comes.
Wedged == <>[](pc["control"] = "pop")

\* A session does not outlive its app: it is ended, unless an app is there
\* again before the control thread has looked, or that thread is blocked for
\* ever.
SessionEndsWithApp ==
    \/ Wedged
    \/ (sess.state # "none" /\ proc.id <= 0) ~>
           (sess.state = "none" \/ proc.id > 0 \/ taint # {})

=============================================================================
