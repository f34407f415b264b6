----------------------------- MODULE InputQueue -----------------------------
(***************************************************************************)
(* A session's queue of input packets (input.cpp): the control thread      *)
(* appends a packet and pushes a task; the task, on the pool's worker,     *)
(* takes the packet at the front, merges later packets into it where the   *)
(* batch() functions allow, and passes it to the platform.                 *)
(*                                                                         *)
(* A packet is a record of the fields batch() looks at; "at" stands for    *)
(* the rest (position, axes, sensor reading), of which the latest wins.    *)
(***************************************************************************)
EXTENDS Integers, SequencesExt

CONSTANTS
    InputPackets,   \* bound: the packets a client sends
    MaxReceived,    \* bound: how many it sends
    Half            \* a delta is an int16 from -Half to Half - 1, Half = 2^15

RelativeKinds == {"rel", "scroll", "hscroll"}

Shorts == -Half .. Half - 1

RelativePackets ==
    [kind : {"rel"}, dx : Shorts, dy : Shorts]
    \cup [kind : {"scroll", "hscroll"}, dx : Shorts]

ASSUME QueueAssumption ==
    /\ MaxReceived \in Nat
    /\ Half \in Nat \ {0}
    /\ \A p \in InputPackets : p.kind \in RelativeKinds => p \in RelativePackets

VARIABLES
    inbox,          \* input_t::input_queue
    tasks,          \* passthrough_next_message tasks in the pool
    pushing,        \* passthrough() has appended and not yet pushed its task
    received,       \* all packets received, in order
    delivered       \* all packets passed to the platform, in order

queueVars == <<inbox, tasks, pushing, received, delivered>>

QueueTypeOK ==
    /\ \A p \in ToSet(inbox) : p \in InputPackets
    /\ tasks \in 0 .. MaxReceived
    /\ pushing \in BOOLEAN
    /\ received \in Seq(InputPackets)
    /\ Len(delivered) <= Len(received)

QueueInit ==
    /\ inbox = <<>>
    /\ tasks = 0
    /\ pushing = FALSE
    /\ received = <<>>
    /\ delivered = <<>>

-----------------------------------------------------------------------------
(* The batch() functions: the verdict on a later packet src, and what      *)
(* becomes of dest when src is merged into it.                             *)

(* __builtin_add_overflow into a short: what is stored, and the overflow.  *)
Wrap(n) == ((n + Half) % (2 * Half)) - Half

Overflows(a, b) == Wrap(a + b) # a + b

(* Only packets that move or hover are batched with one another.           *)
Moves(p) == p.event \in {"move", "hover"}

(* The relative packets are batched if every sum overflows: the test is    *)
(* !__builtin_add_overflow(...), against the comment above it.             *)
BatchRel(dest, src) ==
    IF Overflows(dest.dx, src.dx) /\ Overflows(dest.dy, src.dy)
    THEN "batched"
    ELSE "terminate_batch"

BatchScroll(dest, src) ==
    IF Overflows(dest.dx, src.dx) THEN "batched" ELSE "terminate_batch"

BatchAbs(dest, src) ==
    IF dest.size = src.size THEN "batched" ELSE "terminate_batch"

(* Faulty variant: a button change does not end the batch.                 *)
BatchPadButtons(dest, src) ==
    IF dest.mask # src.mask THEN "terminate_batch"
    ELSE IF dest.ctrl # src.ctrl THEN "not_batchable"
    ELSE "batched"

BatchPad(dest, src) ==
    IF dest.mask # src.mask THEN "terminate_batch"
    ELSE IF dest.ctrl # src.ctrl THEN "not_batchable"
    ELSE IF dest.buttons # src.buttons THEN "terminate_batch"
    ELSE "batched"

BatchTouch(dest, src) ==
    IF ~Moves(dest) \/ ~Moves(src) THEN "terminate_batch"
    ELSE IF dest.pointer # src.pointer THEN "not_batchable"
    ELSE IF dest.event # src.event THEN "terminate_batch"
    ELSE "batched"

BatchPen(dest, src) ==
    IF Moves(dest) /\ dest.event = src.event /\ dest.buttons = src.buttons
        /\ dest.tool = src.tool
    THEN "batched"
    ELSE "terminate_batch"

BatchPadTouch(dest, src) ==
    IF ~Moves(dest) THEN "terminate_batch"
    ELSE IF dest.ctrl # src.ctrl THEN "not_batchable"
    ELSE IF ~Moves(src) THEN "terminate_batch"
    ELSE IF dest.pointer # src.pointer THEN "not_batchable"
    ELSE IF dest.event # src.event THEN "terminate_batch"
    ELSE "batched"

BatchMotion(dest, src) ==
    IF dest.ctrl = src.ctrl /\ dest.sensor = src.sensor
    THEN "batched"
    ELSE "not_batchable"

Batch(dest, src) ==
    IF dest.kind # src.kind THEN "terminate_batch"
    ELSE CASE dest.kind = "rel"                   -> BatchRel(dest, src)
           [] dest.kind \in {"scroll", "hscroll"} -> BatchScroll(dest, src)
           [] dest.kind = "abs"                   -> BatchAbs(dest, src)
           [] dest.kind = "pad"                   -> BatchPad(dest, src)
           [] dest.kind = "touch"                 -> BatchTouch(dest, src)
           [] dest.kind = "pen"                   -> BatchPen(dest, src)
           [] dest.kind = "padtouch"              -> BatchPadTouch(dest, src)
           [] dest.kind = "motion"                -> BatchMotion(dest, src)
           [] OTHER                               -> "terminate_batch"

(* Faulty variant: the earlier position is kept.                           *)
MergeEarliest(dest, src) == dest

(* "Take the sum of deltas", or "Take the latest state".                   *)
Merge(dest, src) ==
    CASE dest.kind = "rel" ->
            [dest EXCEPT !.dx = Wrap(@ + src.dx), !.dy = Wrap(@ + src.dy)]
      [] dest.kind \in {"scroll", "hscroll"} ->
            [dest EXCEPT !.dx = Wrap(@ + src.dx)]
      [] OTHER -> src

(* The loop of passthrough_next_message over the packets behind the first: *)
(* the packet it sends, and the packets that stay queued.                  *)
DrainOne(s, p) ==
    CASE s.stopped \/ Batch(s.sent, p) = "not_batchable" ->
            [s EXCEPT !.kept = Append(@, p)]
      [] ~s.stopped /\ Batch(s.sent, p) = "batched" ->
            [s EXCEPT !.sent = Merge(@, p)]
      [] OTHER ->
            [s EXCEPT !.kept = Append(@, p), !.stopped = TRUE]

Drain(first, rest) ==
    FoldLeft(DrainOne, [sent |-> first, kept |-> <<>>, stopped |-> FALSE], rest)

-----------------------------------------------------------------------------
(* Control thread.                                                         *)

Passthrough(p) ==
    /\ ~pushing
    /\ Len(received) < MaxReceived
    /\ inbox' = Append(inbox, p)
    /\ received' = Append(received, p)
    /\ pushing' = TRUE
    /\ UNCHANGED <<tasks, delivered>>

(* Faulty variant: a task is pushed only for a queue that was empty.       *)
PushTaskOnce ==
    /\ pushing
    /\ pushing' = FALSE
    /\ tasks' = IF Len(inbox) <= 1 THEN tasks + 1 ELSE tasks
    /\ UNCHANGED <<inbox, received, delivered>>

PushTask ==
    /\ pushing
    /\ pushing' = FALSE
    /\ tasks' = tasks + 1
    /\ UNCHANGED <<inbox, received, delivered>>

(* Worker: one run of passthrough_next_message.                            *)
PassthroughNextMessage ==
    /\ tasks > 0
    /\ tasks' = tasks - 1
    /\ \/ /\ inbox = <<>>
          /\ UNCHANGED <<inbox, delivered>>
       \/ /\ inbox # <<>>
          /\ LET drained == Drain(Head(inbox), Tail(inbox)) IN
                /\ inbox' = drained.kept
                /\ delivered' = Append(delivered, drained.sent)
    /\ UNCHANGED <<pushing, received>>

QueueNext ==
    \/ \E p \in InputPackets : Passthrough(p)
    \/ PushTask
    \/ PassthroughNextMessage

QueueSpec == QueueInit /\ [][QueueNext]_queueVars

-----------------------------------------------------------------------------
(* Properties.                                                             *)

(* The packets that left the queue, then those still in it.                *)
Stream == delivered \o inbox

(* s without the elements that are <<>>, and then without those equal to   *)
(* the one before them.                                                    *)
Squeezed(r, x) ==
    IF x = <<>> \/ (r # <<>> /\ Last(r) = x) THEN r ELSE Append(r, x)

Squeeze(s) == FoldLeft(Squeezed, <<>>, s)

(* What a packet is about: a controller, a contact, a sensor, the mouse.   *)
Device(p) ==
    CASE p.kind = "pad"      -> <<p.kind, p.ctrl>>
      [] p.kind = "touch"    -> <<p.kind, p.pointer>>
      [] p.kind = "padtouch" -> <<p.kind, p.ctrl, p.pointer>>
      [] p.kind = "motion"   -> <<p.kind, p.ctrl, p.sensor>>
      [] OTHER               -> <<p.kind>>

Devices(s) == {Device(s[n]) : n \in DOMAIN s}

(* What a later packet may not silently change.                            *)
Mode(p) ==
    CASE p.kind = "pad" -> <<p.mask, p.buttons>>
      [] p.kind = "abs" -> <<p.size>>
      [] p.kind \in {"touch", "padtouch"} ->
            IF Moves(p) THEN <<p.event>> ELSE <<p.event, p.at>>
      [] p.kind = "pen" -> <<p.event, p.buttons, p.tool>>
      [] p.kind \in {"motion", "rel", "scroll", "hscroll"} -> <<>>
      [] OTHER -> <<p.at>>

(* The modes of device d along s, and <<>> for packets about others.       *)
Modes(d, s) ==
    [n \in DOMAIN s |-> IF Device(s[n]) = d THEN <<Mode(s[n])>> ELSE <<>>]

Kinds(s) == [n \in DOMAIN s |-> <<s[n].kind>>]

(* There is a task for every queued packet, so that none stays queued for  *)
(* ever, although one task may take many packets and leave later tasks     *)
(* with an empty queue.                                                    *)
NothingStranded ==
    /\ QueueTypeOK
    /\ Len(inbox) <= tasks + (IF pushing THEN 1 ELSE 0)

(* Batching never hides a transition: the button states of a controller,   *)
(* the downs and ups of a contact, the sizes of the absolute pointer reach *)
(* the platform in the order they were received, none of them missing.     *)
TransitionsKept ==
    \A d \in Devices(received) \cup Devices(Stream) :
        Squeeze(Modes(d, Stream)) = Squeeze(Modes(d, received))

(* Nothing overtakes input of another kind: a click or a key lands after   *)
(* the moves received before it, and before those received after it.       *)
KindsInOrder == Squeeze(Kinds(Stream)) = Squeeze(Kinds(received))

(* Batching changes no order that an application could see.                *)
OrderKept == TransitionsKept /\ KindsInOrder

(* The last packet about its device in s.                                  *)
IsLatest(s, n) ==
    \A m \in DOMAIN s : m > n => Device(s[m]) # Device(s[n])

(* The latest position, axes or reading of every device is the one that    *)
(* reaches the platform last.                                              *)
LatestKept ==
    \A n \in DOMAIN received :
        IsLatest(received, n) /\ received[n].kind \notin RelativeKinds =>
            \E k \in DOMAIN Stream :
                /\ IsLatest(Stream, k)
                /\ Device(Stream[k]) = Device(received[n])
                /\ Stream[k].at = received[n].at

(* How far a packet moves or scrolls.                                      *)
Delta(p) == IF p.kind \in RelativeKinds THEN p.dx ELSE 0

Deltas(s) == [n \in DOMAIN s |-> Delta(s[n])]

Plus(m, n) == m + n

Motion(s) == FoldLeft(Plus, 0, Deltas(s))

(* Two deltas that do not fit into one: the only ones the code adds up.    *)
SumOverflows ==
    \E m, n \in DOMAIN received :
        m # n /\ Overflows(Delta(received[m]), Delta(received[n]))

(* How far a movement or a scroll goes is the same at the platform as at   *)
(* the client: "Batching is safe as long as the result doesn't overflow a  *)
(* 16-bit integer". The code does not keep this: it batches deltas when    *)
(* their sum overflows, and only then.                                     *)
MotionExact == Motion(Stream) = Motion(received)

(* What the code keeps instead: all but the 2^16 that a sum of deltas      *)
(* overflows by, and everything when no two deltas overflow.               *)
MotionKept ==
    LET lost == Motion(received) - Motion(Stream)
    IN  /\ lost % (2 * Half) = 0
        /\ ~SumOverflows => lost = 0

(* What reaches the platform adds up to what was received, but for the     *)
(* multiples of 2^16 that batching relative motion loses.                  *)
ContentKept == LatestKept /\ MotionKept
=============================================================================
