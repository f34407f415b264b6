---------------------------- MODULE CaptureProofs ----------------------------
(***************************************************************************)
(* Proofs about Capture, for any number of sessions and displays and any   *)
(* queue: that no session is left behind by a capture thread that ends,    *)
(* and that a lost display and the one that replaces it do not mix.        *)
(***************************************************************************)
EXTENDS Capture, FiniteSetTheorems, SequenceTheorems, TLAPS

-----------------------------------------------------------------------------
(* The inductive invariant                                                 *)

\* The context is started by the first of them and ended by the last.
OneContext ==
    /\ count = Cardinality(Holders)
    /\ count = 0 /\ Unlocked => cpc = "off"
    /\ cpc \in {"initial", "off"} => ctxs = {}
    /\ cpc \in {"tell", "off"} => ~queue.runs

\* The capture thread only knows sessions that have handed it a context.
Known ==
    \A s \in Sessions :
        pc[s] \in {"new", "raise"} =>
            s \notin ctxs \cup Queued /\ images[s].of = NoDisplay

\* A session that goes on is known to the capture thread, or was told.
KnownOrTold ==
    \A s \in Sessions \ dropped :
        (pc[s] \in Active \/ (pc[s] = "check" /\ queue.runs)) =>
            \/ ~images[s].runs
            \/ cpc # "off" /\ s \in ctxs \cup Queued

\* Where the capture thread is, and the display it has published.
Published ==
    /\ cpc \in {"initial", "open"} => wp = NoDisplay
    /\ cpc \in {"capture", "peek", "pop", "wait", "settle"} => disp = wp
    /\ cpc \in {"capture", "peek", "pop", "wait", "reset", "renew", "publish",
               "settle"} => wp # NoDisplay
    /\ cpc = "publish" => disp # NoDisplay

\* A device is made for the published display, or the one published before
\* it, which was taken late.
DevicesCurrent ==
    \A s \in Sessions :
        /\ device[s] # NoDisplay <=> pc[s] \in {"device", "encode"}
        /\ device[s] \in {NoDisplay, wp} \cup late

\* So is an image, until the display is given up.
ImagesCurrent ==
    \A s \in Sessions :
        (pc[s] \notin {"stop", "done"} /\ images[s].of # NoDisplay) =>
            /\ images[s].of = wp
            /\ cpc \in {"capture", "peek", "pop", "wait", "exit", "tell", "off"}

\* From the end of the wait to the next display, the old one has no holder.
GivenUp ==
    cpc \in {"reset", "renew", "publish"} => wp \in late \/ ~HeldElsewhere(wp)

Inv ==
    /\ TypeOK
    /\ OneContext
    /\ Known
    /\ KnownOrTold
    /\ Published
    /\ DevicesCurrent
    /\ ImagesCurrent
    /\ GivenUp

-----------------------------------------------------------------------------
(* Sequences and types                                                     *)

LEMMA Appended ==
    ASSUME NEW S, NEW list \in Seq(S), NEW e \in S
    PROVE  /\ Append(list, e) \in Seq(S)
           /\ Len(Append(list, e)) = Len(list) + 1
           /\ ToSet(Append(list, e)) = ToSet(list) \cup {e}
<1>1. /\ Len(list) \in Nat /\ DOMAIN list = 1 .. Len(list)
      /\ DOMAIN Append(list, e) = 1 .. (Len(list) + 1)
      /\ Append(list, e)[Len(list) + 1] = e
      /\ \A i \in 1 .. Len(list) : Append(list, e)[i] = list[i]
  OBVIOUS
<1>2. e \in ToSet(Append(list, e))
  BY <1>1 DEF ToSet
<1>3. ToSet(list) \subseteq ToSet(Append(list, e))
  BY <1>1 DEF ToSet
<1>4. ToSet(Append(list, e)) \subseteq ToSet(list) \cup {e}
  BY <1>1 DEF ToSet
<1> QED
  BY <1>2, <1>3, <1>4

LEMMA Popped ==
    ASSUME NEW S, NEW list \in Seq(S), list # <<>>
    PROVE  /\ Tail(list) \in Seq(S) /\ Head(list) \in S
           /\ Len(Tail(list)) = Len(list) - 1
           /\ ToSet(list) = {Head(list)} \cup ToSet(Tail(list))
<1>1. /\ Len(list) \in Nat \ {0} /\ DOMAIN list = 1 .. Len(list)
      /\ DOMAIN Tail(list) = 1 .. (Len(list) - 1)
      /\ Head(list) = list[1]
      /\ \A i \in 1 .. (Len(list) - 1) : Tail(list)[i] = list[i + 1]
  OBVIOUS
<1>2. ToSet(Tail(list)) \subseteq ToSet(list) /\ Head(list) \in ToSet(list)
  BY <1>1 DEF ToSet
<1>3. ASSUME NEW e \in ToSet(list) PROVE e \in {Head(list)} \cup ToSet(Tail(list))
  <2>1. PICK i \in 1 .. Len(list) : e = list[i]
    BY <1>1 DEF ToSet
  <2>2. i # 1 => i - 1 \in 1 .. (Len(list) - 1) /\ list[i] = Tail(list)[i - 1]
    BY <1>1
  <2> QED
    BY <1>1, <2>1, <2>2 DEF ToSet
<1> QED
  BY <1>1, <1>2, <1>3

LEMMA ToSetTyped ==
    ASSUME NEW S, NEW list \in Seq(S)
    PROVE  ToSet(list) \subseteq S
BY DEF ToSet

\* Steps of one session that leave the capture thread and its queue alone.
Aside(s) ==
    \/ Check(s) \/ Loop(s) \/ LockDisplay(s) \/ MakeDevice(s) \/ Encode(s)
    \/ EncodeEnds(s) \/ Joined(s) \/ StopImages(s) \/ Shutdown(s)

\* Steps of the capture thread that leave the queue, the list of contexts and
\* the images alone.
Apart ==
    \/ Open \/ Peek \/ CaptureFails \/ Reinit \/ Reset \/ Renew \/ Publish \/ Settle

LEMMA StepKinds ==
    [Next]_vars =>
        \/ \E s \in Sessions : Ref(s) \/ Raise(s) \/ Leave(s) \/ Aside(s)
        \/ Apart \/ PopInitial \/ Pop \/ Push \/ Wait \/ Exit \/ Tell
        \/ TeardownDone \/ UNCHANGED vars
BY DEF Next, SessionStep, CaptureStep, Aside, Apart

LEMMA InitInv == Init => Inv
<1> SUFFICES ASSUME Init PROVE Inv
  OBVIOUS
<1>1. TypeOK
  <2>1. Cardinality(Sessions) \in Nat
    BY CaptureAssumption, FS_CardinalityType
  <2>2. count \in 0 .. Cardinality(Sessions) /\ opened \in 0 .. MaxDisplays
    BY <2>1, CaptureAssumption DEF Init
  <2>3. /\ queue \in [runs : BOOLEAN, items : Seq(Sessions)]
        /\ Len(queue.items) <= QueueSize
    BY CaptureAssumption DEF Init
  <2>4. /\ images \in [Sessions -> [runs : BOOLEAN,
                                    of : Displays \cup {NoDisplay}]]
        /\ device \in [Sessions -> Displays \cup {NoDisplay}]
    BY DEF Init
  <2>5. pc \in [Sessions -> Active \cup {"new", "raise", "check", "leave",
                                         "joining", "stop", "done"}]
    BY DEF Init
  <2> QED
    BY <2>2, <2>3, <2>4, <2>5 DEF Init, TypeOK
<1>2. OneContext
  <2>1. Holders = {}
    BY DEF Init, Holders, Active
  <2> QED
    BY <2>1, FS_EmptySet DEF Init, OneContext
<1>3. Known /\ KnownOrTold
  BY DEF Init, Known, KnownOrTold, Queued, ToSet, Active
<1>4. Published /\ DevicesCurrent /\ ImagesCurrent /\ GivenUp
  BY DEF Init, Published, DevicesCurrent, ImagesCurrent, GivenUp
<1> QED
  BY <1>1, <1>2, <1>3, <1>4 DEF Inv

(* What a step of one session leaves as it is.                             *)
LEMMA AsideKeeps ==
    ASSUME NEW s \in Sessions, Aside(s)
    PROVE  UNCHANGED <<count, queue, reinit, captureVars, dropped, crashed>>
BY DEF Aside, Check, Loop, LockDisplay, MakeDevice, Encode, EncodeEnds, Joined,
       StopImages, Shutdown

(* Where such a step takes the session.                                    *)
LEMMA AsideMoves ==
    ASSUME TypeOK, NEW s \in Sessions, Aside(s)
    PROVE  \E l \in Active \cup {"leave", "stop", "done", pc[s]} :
              /\ pc' = [pc EXCEPT ![s] = l]
              /\ pc[s] \notin {"new", "raise", "joining"} \/ l = pc[s] \/ cpc = "off"
              /\ pc[s] \in {"new", "joining", "stop", "done"} <=>
                     l \in {"new", "joining", "stop", "done"}
<1>1. pc = [pc EXCEPT ![s] = pc[s]]
  BY DEF TypeOK
<1>2. CASE Check(s) \/ Loop(s) \/ LockDisplay(s) \/ MakeDevice(s) \/ Encode(s)
  <2>1. \E l \in Active \cup {"leave"} :
           /\ pc' = [pc EXCEPT ![s] = l]
           /\ pc[s] \in Active \cup {"check"}
    BY <1>2 DEF Check, Loop, LockDisplay, MakeDevice, Encode, Move, Active
  <2> QED
    BY <2>1 DEF Active
<1>3. CASE EncodeEnds(s)
  BY <1>3 DEF EncodeEnds, Move, Active
<1>4. CASE Joined(s) \/ StopImages(s)
  BY <1>4 DEF Joined, StopImages, Move, Active
<1>5. CASE Shutdown(s)
  BY <1>1, <1>5 DEF Shutdown
<1> QED
  BY <1>2, <1>3, <1>4, <1>5 DEF Aside

(* What one does to the images, the devices and the teardowns.             *)
LEMMA AsideHolds ==
    ASSUME TypeOK, NEW s \in Sessions, Aside(s)
    PROVE  /\ \E runs \in BOOLEAN, of \in {images[s].of, NoDisplay} :
                 /\ images' = [images EXCEPT ![s] = [runs |-> runs, of |-> of]]
                 /\ images[s].runs => runs \/ pc[s] = "stop"
                 /\ runs => images[s].runs
           /\ \E d \in {device[s], NoDisplay} \cup IF Alive(wp) THEN {wp} ELSE {} :
                 device' = [device EXCEPT ![s] = d]
           /\ \/ teardown' = teardown
              \/ teardown' = teardown \cup {device[s]} /\ pc[s] = "encode"
           /\ \/ late' = late
              \/ late' = late \cup {wp} /\ Alive(wp)
<1>1. images[s] = [runs |-> images[s].runs, of |-> images[s].of]
  BY DEF TypeOK
<1>2. images = [images EXCEPT ![s] = [runs |-> images[s].runs, of |-> images[s].of]]
  BY <1>1 DEF TypeOK
<1>3. device = [device EXCEPT ![s] = device[s]]
  BY DEF TypeOK
<1>4. [images EXCEPT ![s].of = NoDisplay] =
         [images EXCEPT ![s] = [runs |-> images[s].runs, of |-> NoDisplay]]
  <2>1. [images[s] EXCEPT !.of = NoDisplay] =
            [runs |-> images[s].runs, of |-> NoDisplay]
    BY <1>1
  <2> QED
    BY <2>1
<1>5. [images EXCEPT ![s].runs = FALSE] =
         [images EXCEPT ![s] = [runs |-> FALSE, of |-> images[s].of]]
  <2> DEFINE r == images[s]
  <2>1. r = [runs |-> r.runs, of |-> r.of]
    BY <1>1
  <2> HIDE DEF r
  <2>2. [r EXCEPT !.runs = FALSE] = [runs |-> FALSE, of |-> r.of]
    <3>1. \A b : [r EXCEPT !.runs = b] = [runs |-> b, of |-> r.of]
      BY <2>1
    <3> QED
      BY <3>1, Zenon
  <2>3. [images EXCEPT ![s].runs = FALSE] =
            [images EXCEPT ![s] = [r EXCEPT !.runs = FALSE]]
    BY DEF r
  <2> QED
    BY <2>2, <2>3 DEF r
<1>6. images[s].runs \in BOOLEAN
  BY DEF TypeOK
<1>7. CASE Check(s) \/ Loop(s) \/ Joined(s) \/ Shutdown(s)
  <2>1. UNCHANGED <<images, device, teardown, late>>
    BY <1>7 DEF Check, Loop, Joined, Shutdown
  <2> QED
    BY <1>2, <1>3, <1>6, <2>1
<1>8. CASE LockDisplay(s)
  <2>1. UNCHANGED <<images, teardown>>
    BY <1>8 DEF LockDisplay
  <2>2. /\ device' = [device EXCEPT ![s] = IF Alive(wp) THEN wp ELSE NoDisplay]
        /\ late' = late \/ (late' = late \cup {wp} /\ Alive(wp))
    BY <1>8 DEF LockDisplay
  <2> QED
    BY <1>2, <1>6, <2>1, <2>2
<1>9. CASE MakeDevice(s)
  <2>1. UNCHANGED <<images, teardown, late>>
    BY <1>9 DEF MakeDevice
  <2>2. device' = device \/ device' = [device EXCEPT ![s] = NoDisplay]
    BY <1>9 DEF MakeDevice
  <2> QED
    BY <1>2, <1>3, <1>6, <2>1, <2>2
<1>10. CASE Encode(s)
  <2>1. UNCHANGED <<device, teardown, late>>
    BY <1>10 DEF Encode
  <2>2. images' = [images EXCEPT ![s].of = NoDisplay]
    BY <1>10 DEF Encode
  <2> QED
    BY <1>3, <1>4, <1>6, <2>1, <2>2
<1>11. CASE EncodeEnds(s)
  <2>1. /\ device' = [device EXCEPT ![s] = NoDisplay]
        /\ late' = late /\ pc[s] = "encode"
        /\ teardown' = teardown \/ teardown' = teardown \cup {device[s]}
    BY <1>11 DEF EncodeEnds, Move
  <2>2. images' = images \/ images' = [images EXCEPT ![s].of = NoDisplay]
    BY <1>11 DEF EncodeEnds
  <2> QED
    BY <1>2, <1>4, <1>6, <2>1, <2>2
<1>12. CASE StopImages(s)
  <2>1. UNCHANGED <<device, teardown, late>> /\ pc[s] = "stop"
    BY <1>12 DEF StopImages, Move
  <2>2. images' = [images EXCEPT ![s].runs = FALSE]
    BY <1>12 DEF StopImages
  <2> QED
    BY <1>3, <1>5, <1>6, <2>1, <2>2
<1> QED
  BY <1>7, <1>8, <1>9, <1>10, <1>11, <1>12 DEF Aside

-----------------------------------------------------------------------------
(* The context and its sessions                                            *)

LEMMA Counts ==
    ASSUME NEW H, H \subseteq Sessions
    PROVE  /\ IsFiniteSet(H) /\ Cardinality(H) \in 0 .. Cardinality(Sessions)
           /\ Cardinality(H) = 0 <=> H = {}
           /\ \A s \in Sessions \ H : Cardinality(H \cup {s}) = Cardinality(H) + 1
           /\ \A s \in H : Cardinality(H \ {s}) = Cardinality(H) - 1
<1>2. IsFiniteSet(H) /\ Cardinality(H) <= Cardinality(Sessions)
  BY CaptureAssumption, FS_Subset
<1>3. Cardinality(H) \in Nat /\ Cardinality(Sessions) \in Nat
  BY <1>2, CaptureAssumption, FS_CardinalityType
<1>4. Cardinality(H) = 0 <=> H = {}
  BY <1>2, FS_EmptySet
<1>5. \A s \in Sessions \ H : Cardinality(H \cup {s}) = Cardinality(H) + 1
  BY <1>2, FS_AddElement
<1>6. \A s \in H : Cardinality(H \ {s}) = Cardinality(H) - 1
  BY <1>2, FS_RemoveElement
<1> QED
  BY <1>2, <1>3, <1>4, <1>5, <1>6

\* The context has one holder more or less, or the same.
LEMMA ContextStep ==
    ASSUME TypeOK, OneContext, [Next]_vars
    PROVE  OneContext'
<1> USE DEF OneContext
<1>0. Holders \subseteq Sessions /\ count = Cardinality(Holders)
  BY DEF Holders
<1>1. ASSUME NEW s \in Sessions, Ref(s) PROVE OneContext'
  <2>1. /\ s \in Sessions \ Holders /\ Holders' = Holders \cup {s}
        /\ count' = count + 1
    BY <1>1 DEF Ref, Move, Holders, Active, TypeOK
  <2>2. count' = Cardinality(Holders') /\ count' # 0
    BY <1>0, <2>1, Counts
  <2>3. CASE count = 0
    <3>1. cpc = "off"
      BY <1>1, <2>3 DEF Ref
    <3>2. cpc' = "initial" /\ ctxs' = ctxs
      BY <1>1, <2>3 DEF Ref
    <3> QED
      BY <2>2, <3>1, <3>2
  <2>4. CASE count # 0
    BY <1>1, <2>2, <2>4 DEF Ref
  <2> QED
    BY <2>3, <2>4
<1>2. ASSUME NEW s \in Sessions, Leave(s) PROVE OneContext'
  <2>1. /\ s \in Holders /\ Holders' = Holders \ {s}
        /\ count' = count - 1
    BY <1>2 DEF Leave, Move, Holders, Active, TypeOK
  <2>2. count' = Cardinality(Holders') /\ count \in Nat
    <3>1. Cardinality(Holders \ {s}) = Cardinality(Holders) - 1
      BY <1>0, <2>1, Counts
    <3>2. count \in Nat
      BY DEF TypeOK
    <3> QED
      BY <1>0, <2>1, <3>1, <3>2
  <2>3. count' = 0 => ~Unlocked'
    <3>1. count' = 0 => count = 1
      BY <2>1, <2>2
    <3>2. count = 1 => pc'[s] = "joining"
      BY <1>2 DEF Leave, Move, TypeOK
    <3> QED
      BY <3>1, <3>2 DEF Unlocked
  <2>4. UNCHANGED <<cpc, ctxs>> /\ (queue'.runs => queue.runs)
    BY <1>2 DEF Leave, captureVars, TypeOK
  <2> QED
    BY <2>2, <2>3, <2>4
<1>3. ASSUME NEW s \in Sessions, Raise(s) PROVE OneContext'
  <2>1. Holders' = Holders /\ (Unlocked' => Unlocked)
    BY <1>3 DEF Raise, Move, Holders, Active, TypeOK, Unlocked
  <2>2. UNCHANGED <<count, cpc, ctxs>> /\ queue'.runs = queue.runs
    BY <1>3 DEF Raise, captureVars, TypeOK
  <2> QED
    BY <2>1, <2>2
<1>4. ASSUME NEW s \in Sessions, Aside(s) PROVE OneContext'
  <2>1. UNCHANGED <<count, cpc, ctxs, queue>>
    BY <1>4, AsideKeeps DEF captureVars
  <2>2. PICK l \in Active \cup {"leave", "stop", "done", pc[s]} :
              /\ pc' = [pc EXCEPT ![s] = l]
              /\ pc[s] \notin {"new", "raise", "joining"} \/ l = pc[s] \/ cpc = "off"
              /\ pc[s] \in {"new", "joining", "stop", "done"} <=>
                     l \in {"new", "joining", "stop", "done"}
    BY <1>4, AsideMoves
  <2>3. Holders' = Holders
    BY <2>2 DEF Holders, Active, TypeOK
  <2>4. Unlocked' => Unlocked \/ cpc = "off"
    BY <2>2 DEF Unlocked, TypeOK
  <2> QED
    BY <2>1, <2>3, <2>4
<1>5. CASE Apart \/ PopInitial \/ Pop \/ Push \/ Wait \/ Exit \/ Tell
  <2>1. UNCHANGED <<count, pc>>
    BY <1>5 DEF Apart, Open, Peek, CaptureFails, Reinit, Reset, Renew, Publish, Settle,
                PopInitial, Pop, Push, Wait, Exit, Tell, encodeVars
  <2>2. /\ cpc # "off" /\ cpc' # "initial"
        /\ cpc' = "off" => cpc = "tell"
        /\ cpc' = "tell" => cpc = "exit"
    BY <1>5 DEF Apart, Open, Peek, CaptureFails, Reinit, Reset, Renew, Publish, Settle,
                PopInitial, Pop, Push, Wait, Exit, Tell, Step
  <2>3. cpc' = "off" => ctxs' = {} /\ queue' = queue
    BY <1>5 DEF Apart, Open, Peek, CaptureFails, Reinit, Reset, Renew, Publish, Settle,
                PopInitial, Pop, Push, Wait, Exit, Tell, Step
  <2>4. cpc' = "tell" => ~queue'.runs
    BY <1>5 DEF Apart, Open, Peek, CaptureFails, Reinit, Reset, Renew, Publish, Settle,
                PopInitial, Pop, Push, Wait, Exit, Tell, Step, TypeOK
  <2>5. Holders' = Holders /\ Unlocked' = Unlocked
    BY <2>1 DEF Holders, Unlocked
  <2> QED
    BY <2>1, <2>2, <2>3, <2>4, <2>5
<1>6. CASE TeardownDone \/ UNCHANGED vars
  <2>1. UNCHANGED <<count, cpc, ctxs, queue, pc>>
    BY <1>6 DEF TeardownDone, vars, captureVars, encodeVars
  <2> QED
    BY <2>1 DEF Holders, Unlocked
<1> QED
  BY <1>1, <1>2, <1>3, <1>4, <1>5, <1>6, StepKinds

-----------------------------------------------------------------------------
(* Types                                                                   *)

LEMMA QueueTyped ==
    /\ <<>> \in Seq(Sessions) /\ Len(<<>>) <= QueueSize
    /\ \A s \in Sessions : <<s>> \in Seq(Sessions) /\ Len(<<s>>) <= QueueSize
<1>1. QueueSize \in Nat /\ QueueSize >= 1
  BY CaptureAssumption
<1>2. \A s \in Sessions : <<s>> \in Seq(Sessions) /\ Len(<<s>>) = 1
  OBVIOUS
<1>3. <<>> \in Seq(Sessions) /\ Len(<<>>) = 0
  OBVIOUS
<1> QED
  BY <1>1, <1>2, <1>3

LEMMA TypeStep ==
    ASSUME TypeOK, OneContext, DevicesCurrent, [Next]_vars
    PROVE  TypeOK'
<1>0. count' \in 0 .. Cardinality(Sessions)
  <2>1. Holders' \subseteq Sessions
    BY DEF Holders
  <2>2. count' = Cardinality(Holders')
    BY ContextStep DEF OneContext
  <2> QED
    BY <2>1, <2>2, Counts
<1> DEFINE Labels == Active \cup {"new", "raise", "check", "leave", "joining",
                                  "stop", "done"}
           Events == [runs : BOOLEAN, of : Displays \cup {NoDisplay}]
           Stops == {"off", "initial", "open", "capture", "peek", "pop", "wait",
                     "reset", "renew", "publish", "settle", "exit", "tell"}
<1>00. /\ pc \in [Sessions -> Labels] /\ images \in [Sessions -> Events]
       /\ cpc \in Stops
       /\ queue \in [runs : BOOLEAN, items : Seq(Sessions)]
       /\ Len(queue.items) <= QueueSize
       /\ QueueSize \in Nat \ {0}
  BY CaptureAssumption DEF TypeOK
<1> HIDE DEF Labels, Events, Stops
<1>1. ASSUME NEW s \in Sessions, Ref(s) PROVE TypeOK'
  <2>1. pc' \in [Sessions -> Labels]
    BY <1>00, <1>1 DEF Ref, Move, Labels
  <2>2. /\ queue' \in [runs : BOOLEAN, items : Seq(Sessions)]
        /\ Len(queue'.items) <= QueueSize
    <3>1. queue' = queue \/ queue' = [runs |-> TRUE, items |-> <<>>]
      BY <1>1 DEF Ref
    <3>2. <<>> \in Seq(Sessions) /\ Len(<<>>) <= QueueSize
      BY QueueTyped
    <3>3. CASE queue' = [runs |-> TRUE, items |-> <<>>]
      BY <3>2, <3>3
    <3> QED
      BY <1>00, <3>1, <3>3
  <2>3. cpc' \in Stops /\ reinit' \in BOOLEAN /\ wp' \in {wp, NoDisplay}
    BY <1>00, <1>1 DEF Ref, TypeOK, Stops
  <2> QED
    BY <1>0, <1>1, <2>1, <2>2, <2>3 DEF Ref, TypeOK, Labels, Stops
<1>2. ASSUME NEW s \in Sessions, Raise(s) PROVE TypeOK'
  <2>1. pc' \in [Sessions -> Labels]
    BY <1>00, <1>2 DEF Raise, Move, Labels
  <2>2. /\ queue' \in [runs : BOOLEAN, items : Seq(Sessions)]
        /\ Len(queue'.items) <= QueueSize
    <3>1. CASE ~queue.runs
      BY <1>00, <1>2, <3>1 DEF Raise
    <3>2. CASE queue.runs /\ Len(queue.items) = QueueSize
      <4>1. queue' = [queue EXCEPT !.items = <<s>>]
        BY <1>2, <3>2 DEF Raise
      <4>2. <<s>> \in Seq(Sessions) /\ Len(<<s>>) <= QueueSize
        BY QueueTyped
      <4>3. /\ queue' \in [runs : BOOLEAN, items : Seq(Sessions)]
            /\ queue'.items = <<s>>
        BY <1>00, <4>1, <4>2
      <4> QED
        BY <4>2, <4>3
    <3>3. CASE queue.runs /\ Len(queue.items) # QueueSize
      <4>1. queue' = [queue EXCEPT !.items = Append(queue.items, s)]
        BY <1>2, <3>3 DEF Raise
      <4>2. queue.items \in Seq(Sessions) /\ Len(queue.items) \in Nat
        BY <1>00
      <4>3. /\ Append(queue.items, s) \in Seq(Sessions)
            /\ Len(Append(queue.items, s)) = Len(queue.items) + 1
        BY <4>2
      <4>4. Len(queue.items) + 1 <= QueueSize
        BY <1>00, <3>3, <4>2
      <4>5. /\ queue' \in [runs : BOOLEAN, items : Seq(Sessions)]
            /\ queue'.items = Append(queue.items, s)
        BY <1>00, <4>1, <4>3
      <4> QED
        BY <4>3, <4>4, <4>5
    <3> QED
      BY <3>1, <3>2, <3>3
  <2>3. dropped' \in SUBSET Sessions
    <3>1. dropped' = dropped \/ dropped' = dropped \cup Queued
      BY <1>2 DEF Raise
    <3>2. Queued \subseteq Sessions
      BY <1>00 DEF Queued, ToSet
    <3> QED
      BY <3>1, <3>2 DEF TypeOK
  <2> QED
    BY <1>0, <1>2, <2>1, <2>2, <2>3
       DEF Raise, TypeOK, Labels, captureVars
<1>3. ASSUME NEW s \in Sessions, Leave(s) PROVE TypeOK'
  <2>1. pc' \in [Sessions -> Labels]
    BY <1>00, <1>3 DEF Leave, Move, Labels
  <2>2. /\ queue' \in [runs : BOOLEAN, items : Seq(Sessions)]
        /\ Len(queue'.items) <= QueueSize
    <3>1. queue' = queue \/ queue' = [queue EXCEPT !.runs = FALSE]
      BY <1>3 DEF Leave
    <3> QED
      BY <1>00, <3>1
  <2> QED
    BY <1>0, <1>3, <2>1, <2>2 DEF Leave, TypeOK, Labels, captureVars
<1>4. ASSUME NEW s \in Sessions, Aside(s) PROVE TypeOK'
  <2>1. pc' \in [Sessions -> Labels]
    <3>1. \E l \in Active \cup {"leave", "stop", "done", pc[s]} :
             pc' = [pc EXCEPT ![s] = l]
      BY <1>4, AsideMoves
    <3>2. pc[s] \in Labels
      BY <1>00
    <3> QED
      BY <1>00, <3>1, <3>2 DEF Labels
  <2>2. UNCHANGED <<queue, reinit, captureVars, dropped, crashed>>
    BY <1>4, AsideKeeps
  <2>3. wp \in Displays \cup {NoDisplay} /\ (Alive(wp) => wp \in Displays)
    BY DEF TypeOK, Alive
  <2>4. images' \in [Sessions -> Events]
    <3>1. PICK runs \in BOOLEAN, of \in {images[s].of, NoDisplay} :
             images' = [images EXCEPT ![s] = [runs |-> runs, of |-> of]]
      BY <1>4, AsideHolds
    <3>2. of \in Displays \cup {NoDisplay}
      BY DEF TypeOK
    <3> QED
      BY <1>00, <3>1, <3>2 DEF Events
  <2>5. device' \in [Sessions -> Displays \cup {NoDisplay}]
    <3>1. PICK d \in {device[s], NoDisplay} \cup IF Alive(wp) THEN {wp} ELSE {} :
             device' = [device EXCEPT ![s] = d]
      BY <1>4, AsideHolds
    <3>2. d \in Displays \cup {NoDisplay}
      BY <2>3 DEF TypeOK
    <3> QED
      BY <3>1, <3>2 DEF TypeOK
  <2>6. teardown' \in SUBSET Displays /\ late' \in SUBSET Displays
    <3>1. /\ \/ teardown' = teardown
             \/ teardown' = teardown \cup {device[s]} /\ pc[s] = "encode"
          /\ late' = late \/ (late' = late \cup {wp} /\ Alive(wp))
      BY <1>4, AsideHolds
    <3>2. pc[s] = "encode" => device[s] \in Displays
      BY DEF TypeOK, DevicesCurrent
    <3> QED
      BY <2>3, <3>1, <3>2 DEF TypeOK
  <2>7. shutdown' \in SUBSET Sessions /\ first' \in SUBSET Sessions
    BY <1>4 DEF Aside, Check, Loop, LockDisplay, MakeDevice, Encode, EncodeEnds,
                Joined, StopImages, Shutdown, TypeOK
  <2> QED
    BY <1>0, <2>1, <2>2, <2>4, <2>5, <2>6, <2>7
       DEF TypeOK, Labels, Events, captureVars
<1>5. CASE Apart
  <2>1. UNCHANGED <<queue, ctxs, images, encodeVars, teardown, late, dropped>>
    BY <1>5 DEF Apart, Open, Peek, CaptureFails, Reinit, Reset, Renew, Publish, Settle
  <2>2. cpc' \in Stops /\ reinit' \in BOOLEAN /\ crashed' \in BOOLEAN
    BY <1>5 DEF Apart, Open, Peek, CaptureFails, Reinit, Reset, Renew, Publish, Settle,
                Step, TypeOK, Stops
  <2>3. \/ OpenDisplay
        \/ disp' \in {disp, NoDisplay} /\ opened' = opened
    BY <1>5 DEF Apart, Open, Peek, CaptureFails, Reinit, Reset, Renew, Publish, Settle
  <2>4. opened' \in 0 .. MaxDisplays /\ disp' \in Displays \cup {NoDisplay}
    BY <2>3, CaptureAssumption DEF OpenDisplay, TypeOK, Displays
  <2>5. wp' \in {wp, disp, disp'}
    BY <1>5 DEF Apart, Open, Peek, CaptureFails, Reinit, Reset, Renew, Publish, Settle
  <2> QED
    BY <1>0, <2>1, <2>2, <2>4, <2>5 DEF TypeOK, Stops, encodeVars
<1>6. CASE PopInitial
  <2>1. /\ ctxs' \in SUBSET Sessions
        /\ queue' \in [runs : BOOLEAN, items : Seq(Sessions)]
        /\ Len(queue'.items) <= QueueSize
    <3>1. CASE queue.runs
      <4>1. /\ queue.items # <<>>
            /\ ctxs' = {Head(queue.items)}
            /\ queue' = [queue EXCEPT !.items = Tail(queue.items)]
        BY <1>6, <3>1 DEF PopInitial
      <4>2. /\ Tail(queue.items) \in Seq(Sessions)
            /\ Head(queue.items) \in Sessions
            /\ Len(Tail(queue.items)) = Len(queue.items) - 1
            /\ Len(queue.items) \in Nat
        BY <1>00, <4>1, Popped
      <4>3. Len(Tail(queue.items)) <= QueueSize
        BY <1>00, <4>2
      <4> QED
        BY <1>00, <4>1, <4>2, <4>3
    <3>2. CASE ~queue.runs
      BY <1>00, <1>6, <3>2 DEF PopInitial, TypeOK
    <3> QED
      BY <3>1, <3>2
  <2>2. cpc' \in Stops
    BY <1>6 DEF PopInitial, Step, Stops
  <2> QED
    BY <1>0, <1>6, <2>1, <2>2 DEF PopInitial, TypeOK, Stops, encodeVars
<1>7. CASE Push
  <2>1. images' \in [Sessions -> Events]
    <3>1. \A s \in Sessions : [images[s] EXCEPT !.of = disp] \in Events
      BY <1>00 DEF Events, TypeOK
    <3> QED
      BY <1>00, <1>7, <3>1 DEF Push
  <2>2. ctxs' \in SUBSET Sessions
    BY <1>7 DEF Push, Running, TypeOK
  <2>3. cpc' \in Stops
    BY <1>7 DEF Push, Step, Stops
  <2> QED
    BY <1>0, <1>7, <2>1, <2>2, <2>3 DEF Push, TypeOK, Stops, Events, encodeVars
<1>71. CASE Pop
  <2>1. /\ ctxs' \in SUBSET Sessions
        /\ queue' \in [runs : BOOLEAN, items : Seq(Sessions)]
        /\ Len(queue'.items) <= QueueSize
    <3>1. CASE queue.runs
      <4>1. /\ queue.items # <<>>
            /\ ctxs' = ctxs \cup {Head(queue.items)}
            /\ queue' = [queue EXCEPT !.items = Tail(queue.items)]
        BY <1>71, <3>1 DEF Pop
      <4>2. /\ Tail(queue.items) \in Seq(Sessions)
            /\ Head(queue.items) \in Sessions
            /\ Len(Tail(queue.items)) = Len(queue.items) - 1
            /\ Len(queue.items) \in Nat
        BY <1>00, <4>1, Popped
      <4>3. Len(Tail(queue.items)) <= QueueSize
        BY <1>00, <4>2
      <4>4. ctxs' \in SUBSET Sessions
        BY <4>1, <4>2 DEF TypeOK
      <4> QED
        BY <1>00, <4>1, <4>2, <4>3, <4>4
    <3>2. CASE ~queue.runs
      BY <1>00, <1>71, <3>2 DEF Pop, TypeOK
    <3> QED
      BY <3>1, <3>2
  <2>2. cpc' \in Stops /\ crashed' \in BOOLEAN
    BY <1>71 DEF Pop, Step, Stops, TypeOK
  <2> QED
    BY <1>0, <1>71, <2>1, <2>2 DEF Pop, TypeOK, Stops, encodeVars
<1>8. CASE Wait
  <2>1. images' \in [Sessions -> Events]
    <3>1. \A s \in Sessions : [images[s] EXCEPT !.of = NoDisplay] \in Events
      BY <1>00 DEF Events
    <3> QED
      BY <1>00, <1>8, <3>1 DEF Wait
  <2>2. ctxs' \in SUBSET Sessions
    BY <1>8 DEF Wait, Running, TypeOK
  <2>3. cpc' \in Stops
    BY <1>8 DEF Wait, Step, Stops
  <2> QED
    BY <1>0, <1>8, <2>1, <2>2, <2>3 DEF Wait, TypeOK, Stops, Events, encodeVars
<1>9. CASE Exit
  <2>1. /\ queue' \in [runs : BOOLEAN, items : Seq(Sessions)]
        /\ Len(queue'.items) <= QueueSize
    BY <1>00, <1>9 DEF Exit
  <2> QED
    BY <1>0, <1>9, <2>1 DEF Exit, Step, TypeOK, encodeVars
<1>10. CASE Tell
  <2>1. images' \in [Sessions -> Events]
    <3>1. \A s \in Sessions : [images[s] EXCEPT !.runs = FALSE] \in Events
      BY <1>00 DEF Events
    <3> QED
      BY <1>00, <1>10, <3>1 DEF Tell, StopAll
  <2> QED
    BY <1>0, <1>10, <2>1 DEF Tell, Step, TypeOK, Events, encodeVars
<1>11. CASE TeardownDone
  BY <1>0, <1>11 DEF TeardownDone, TypeOK, captureVars, encodeVars
<1>12. CASE UNCHANGED vars
  BY <1>12 DEF vars, TypeOK, captureVars, encodeVars
<1> QED
  BY <1>1, <1>2, <1>3, <1>4, <1>5, <1>6, <1>7, <1>71, <1>8, <1>9, <1>10, <1>11,
     <1>12, StepKinds

-----------------------------------------------------------------------------
(* Who is known to the capture thread                                      *)

\* Who is queued after a session has handed over its context.
LEMMA RaiseQueues ==
    ASSUME TypeOK, NEW s \in Sessions, Raise(s)
    PROVE  /\ queue'.runs = queue.runs
           /\ pc' = [pc EXCEPT ![s] = "check"] /\ pc[s] = "raise"
           /\ Queued' \subseteq Queued \cup {s}
           /\ Queued \ Queued' \subseteq dropped'
           /\ dropped \subseteq dropped'
           /\ queue.runs => s \in Queued'
<1>1. /\ queue \in [runs : BOOLEAN, items : Seq(Sessions)]
      /\ queue.items \in Seq(Sessions)
  BY DEF TypeOK
<1>2. pc' = [pc EXCEPT ![s] = "check"] /\ pc[s] = "raise"
  BY DEF Raise, Move
<1>3. CASE ~queue.runs
  BY <1>2, <1>3 DEF Raise, Queued
<1>4. CASE queue.runs /\ Len(queue.items) = QueueSize
  <2>1. queue' = [queue EXCEPT !.items = <<s>>] /\ dropped' = dropped \cup Queued
    BY <1>4 DEF Raise
  <2>2. queue'.runs = queue.runs /\ queue'.items = <<s>>
    BY <1>1, <2>1
  <2>3. ToSet(<<s>>) = {s}
    BY DEF ToSet
  <2> QED
    BY <1>2, <2>1, <2>2, <2>3 DEF Queued
<1>5. CASE queue.runs /\ Len(queue.items) # QueueSize
  <2>1. /\ queue' = [queue EXCEPT !.items = Append(queue.items, s)]
        /\ dropped' = dropped
    BY <1>5 DEF Raise
  <2>2. queue'.runs = queue.runs /\ queue'.items = Append(queue.items, s)
    BY <1>1, <2>1
  <2>3. ToSet(Append(queue.items, s)) = Queued \cup {s}
    BY <1>1, Appended DEF Queued
  <2> QED
    BY <1>2, <2>1, <2>2, <2>3 DEF Queued
<1> QED
  BY <1>3, <1>4, <1>5

\* Which contexts the capture thread knows after a step of its own.
LEMMA CaptureKnows ==
    ASSUME TypeOK, OneContext, Apart \/ PopInitial \/ Pop \/ Push \/ Wait \/ Exit
    PROVE  /\ ctxs' \cup Queued' \subseteq ctxs \cup Queued
           /\ \A s \in ctxs \cup Queued :
                 images[s].runs => s \in ctxs' \cup Queued'
           /\ queue'.runs => queue.runs
<1>1. /\ queue \in [runs : BOOLEAN, items : Seq(Sessions)]
      /\ queue.items \in Seq(Sessions)
  BY DEF TypeOK
<1>2. CASE Apart
  <2>1. UNCHANGED <<queue, ctxs>>
    BY <1>2 DEF Apart, Open, Peek, CaptureFails, Reinit, Reset, Renew, Publish, Settle
  <2> QED
    BY <2>1 DEF Queued
<1>3. CASE PopInitial
  <2>1. CASE queue.runs
    <3>1. /\ queue.items # <<>>
          /\ ctxs' = {Head(queue.items)}
          /\ queue' = [queue EXCEPT !.items = Tail(queue.items)]
          /\ ctxs = {}
      BY <1>3, <2>1 DEF PopInitial, Step, OneContext
    <3>2. queue'.items = Tail(queue.items)
      BY <1>1, <3>1
    <3>3. Queued = {Head(queue.items)} \cup ToSet(Tail(queue.items))
      BY <1>1, <3>1, Popped DEF Queued
    <3> QED
      BY <2>1, <3>1, <3>2, <3>3 DEF Queued
  <2>2. CASE ~queue.runs
    BY <1>3, <2>2 DEF PopInitial, Queued
  <2> QED
    BY <2>1, <2>2
<1>31. CASE Pop
  <2>1. CASE queue.runs
    <3>1. /\ queue.items # <<>>
          /\ ctxs' = ctxs \cup {Head(queue.items)}
          /\ queue' = [queue EXCEPT !.items = Tail(queue.items)]
      BY <1>31, <2>1 DEF Pop
    <3>2. queue'.items = Tail(queue.items)
      BY <1>1, <3>1
    <3>3. Queued = {Head(queue.items)} \cup ToSet(Tail(queue.items))
      BY <1>1, <3>1, Popped DEF Queued
    <3> QED
      BY <2>1, <3>1, <3>2, <3>3 DEF Queued
  <2>2. CASE ~queue.runs
    BY <1>31, <2>2 DEF Pop, Queued
  <2> QED
    BY <2>1, <2>2
<1>4. CASE Push
  <2>1. queue' = queue /\ ctxs' = Running
    BY <1>4 DEF Push
  <2> QED
    BY <2>1 DEF Running, Queued
<1>5. CASE Wait
  <2>1. queue' = queue /\ (ctxs' = ctxs \/ ctxs' = Running)
    BY <1>5 DEF Wait
  <2> QED
    BY <2>1 DEF Running, Queued
<1>6. CASE Exit
  <2>1. queue' = [queue EXCEPT !.runs = FALSE] /\ ctxs' = ctxs
    BY <1>6 DEF Exit
  <2>2. queue'.items = queue.items /\ ~queue'.runs
    BY <1>1, <2>1
  <2> QED
    BY <2>1, <2>2 DEF Queued
<1> QED
  BY <1>2, <1>3, <1>31, <1>4, <1>5, <1>6

\* What it does to the images: an image of its display, or none.
LEMMA CaptureImages ==
    ASSUME TypeOK, Apart \/ PopInitial \/ Pop \/ Push \/ Wait \/ Exit \/ Tell
    PROVE  \A s \in Sessions :
              /\ \/ images'[s].of \in {images[s].of, NoDisplay}
                 \/ /\ images'[s].of = disp
                    /\ cpc = "capture" /\ cpc' \in {"peek", "exit"}
              /\ images'[s].of = images[s].of \/ s \in ctxs
              /\ images'[s].runs => images[s].runs
              /\ images'[s].runs = images[s].runs \/ Tell
<1>0. images \in [Sessions -> [runs : BOOLEAN, of : Displays \cup {NoDisplay}]]
  BY DEF TypeOK
<1>1. CASE Apart \/ PopInitial \/ Pop \/ Exit
  <2>1. images' = images
    BY <1>1 DEF Apart, Open, Peek, CaptureFails, Reinit, Reset, Renew, Publish, Settle,
                PopInitial, Pop, Exit
  <2> QED
    BY <2>1
<1>2. CASE Push
  <2>1. /\ cpc = "capture" /\ cpc' \in {"peek", "exit"}
        /\ \E frame \in BOOLEAN : images' = [s \in Sessions |->
               IF frame /\ s \in Running THEN [images[s] EXCEPT !.of = disp]
               ELSE images[s]]
    BY <1>2 DEF Push, Step
  <2>2. \A s \in Sessions : /\ [images[s] EXCEPT !.of = disp].of = disp
                            /\ [images[s] EXCEPT !.of = disp].runs = images[s].runs
    BY <1>0
  <2> QED
    BY <2>1, <2>2 DEF Running
<1>3. CASE Wait
  <2>1. \/ images' = images
        \/ images' = [s \in Sessions |->
               IF s \in Running THEN [images[s] EXCEPT !.of = NoDisplay]
               ELSE images[s]]
    BY <1>3 DEF Wait
  <2>2. \A s \in Sessions :
           /\ [images[s] EXCEPT !.of = NoDisplay].of = NoDisplay
           /\ [images[s] EXCEPT !.of = NoDisplay].runs = images[s].runs
    BY <1>0
  <2> QED
    BY <2>1, <2>2 DEF Running
<1>4. CASE Tell
  <2>1. images' = [s \in Sessions |->
           IF s \in ctxs \cup Queued THEN [images[s] EXCEPT !.runs = FALSE]
           ELSE images[s]]
    BY <1>4 DEF Tell, StopAll
  <2>2. \A s \in Sessions :
           /\ [images[s] EXCEPT !.runs = FALSE].of = images[s].of
           /\ [images[s] EXCEPT !.runs = FALSE].runs = FALSE
    BY <1>0
  <2> QED
    BY <1>4, <2>1, <2>2
<1> QED
  BY <1>1, <1>2, <1>3, <1>4

LEMMA KnownStep ==
    ASSUME TypeOK, OneContext, Known, [Next]_vars
    PROVE  Known'
<1> USE DEF Known
<1>1. ASSUME NEW s \in Sessions, Ref(s) PROVE Known'
  <2>1. /\ pc' = [pc EXCEPT ![s] = "raise"] /\ pc[s] = "new"
        /\ UNCHANGED <<ctxs, images>>
    BY <1>1 DEF Ref, Move
  <2>2. Queued' \subseteq Queued
    BY <1>1 DEF Ref, Queued, ToSet
  <2> QED
    BY <2>1, <2>2 DEF TypeOK
<1>2. ASSUME NEW s \in Sessions, Raise(s) PROVE Known'
  <2>1. UNCHANGED <<ctxs, images>>
    BY <1>2 DEF Raise, captureVars
  <2>2. Queued' \subseteq Queued \cup {s} /\ pc' = [pc EXCEPT ![s] = "check"]
    BY <1>2, RaiseQueues
  <2> QED
    BY <2>1, <2>2 DEF TypeOK
<1>3. ASSUME NEW s \in Sessions, Leave(s) PROVE Known'
  <2>1. /\ \E l \in {"joining", "stop"} : pc' = [pc EXCEPT ![s] = l]
        /\ UNCHANGED <<ctxs, images>>
    BY <1>3 DEF Leave, Move, captureVars
  <2>2. queue'.items = queue.items
    BY <1>3 DEF Leave, TypeOK
  <2> QED
    BY <2>1, <2>2 DEF TypeOK, Queued
<1>4. ASSUME NEW s \in Sessions, Aside(s) PROVE Known'
  <2>1. UNCHANGED <<ctxs, Queued>>
    BY <1>4, AsideKeeps DEF captureVars, Queued
  <2>2. PICK l \in Active \cup {"leave", "stop", "done", pc[s]} :
           pc' = [pc EXCEPT ![s] = l]
    BY <1>4, AsideMoves
  <2>3. PICK runs \in BOOLEAN, of \in {images[s].of, NoDisplay} :
           images' = [images EXCEPT ![s] = [runs |-> runs, of |-> of]]
    BY <1>4, AsideHolds
  <2>4. \A u \in Sessions : pc'[u] \in {"new", "raise"} => pc'[u] = pc[u]
    BY <2>2 DEF TypeOK, Active
  <2>5. \A u \in Sessions : images'[u].of \in {images[u].of, NoDisplay}
    BY <2>3 DEF TypeOK
  <2> QED
    BY <2>1, <2>4, <2>5
<1>5. CASE Apart \/ PopInitial \/ Pop \/ Push \/ Wait \/ Exit \/ Tell
  <2>1. pc' = pc
    BY <1>5 DEF Apart, Open, Peek, CaptureFails, Reinit, Reset, Renew, Publish, Settle,
                PopInitial, Pop, Push, Wait, Exit, Tell, encodeVars
  <2>2. ctxs' \cup Queued' \subseteq ctxs \cup Queued
    <3>1. CASE Tell
      BY <3>1 DEF Tell, Queued
    <3>2. CASE ~Tell
      BY <1>5, <3>2, CaptureKnows
    <3> QED
      BY <3>1, <3>2
  <2>3. \A s \in Sessions : images'[s].of = images[s].of \/ s \in ctxs
    BY <1>5, CaptureImages
  <2> QED
    BY <2>1, <2>2, <2>3
<1>6. CASE TeardownDone \/ UNCHANGED vars
  <2>1. UNCHANGED <<ctxs, queue, pc, images>>
    BY <1>6 DEF TeardownDone, vars, captureVars, encodeVars
  <2> QED
    BY <2>1 DEF Queued
<1> QED
  BY <1>1, <1>2, <1>3, <1>4, <1>5, <1>6, StepKinds

LEMMA KnownOrToldStep ==
    ASSUME TypeOK, OneContext, Known, KnownOrTold, [Next]_vars
    PROVE  KnownOrTold'
<1> USE DEF KnownOrTold
<1>1. ASSUME NEW s \in Sessions, Ref(s) PROVE KnownOrTold'
  <2>1. /\ pc' = [pc EXCEPT ![s] = "raise"]
        /\ UNCHANGED <<ctxs, images, dropped>>
    BY <1>1 DEF Ref, Move
  <2>2. CASE count = 0
    <3>1. Holders = {}
      BY <2>2, Counts DEF OneContext, Holders
    <3>2. \A u \in Sessions : pc'[u] \notin Active \cup {"check"}
      BY <2>1, <3>1 DEF Holders, TypeOK, Active
    <3> QED
      BY <3>2
  <2>3. CASE count # 0
    <3>1. UNCHANGED <<queue, cpc>>
      BY <1>1, <2>3 DEF Ref
    <3> QED
      BY <2>1, <3>1 DEF TypeOK, Active, Queued
  <2> QED
    BY <2>2, <2>3
<1>2. ASSUME NEW s \in Sessions, Raise(s) PROVE KnownOrTold'
  <2>1. UNCHANGED <<ctxs, cpc, images>>
    BY <1>2 DEF Raise, captureVars
  <2>2. /\ queue'.runs = queue.runs
        /\ pc' = [pc EXCEPT ![s] = "check"] /\ pc[s] = "raise"
        /\ Queued \ Queued' \subseteq dropped'
        /\ dropped \subseteq dropped'
        /\ queue.runs => s \in Queued'
    BY <1>2, RaiseQueues
  <2>3. queue.runs => cpc # "off"
    BY DEF OneContext
  <2>4. \A u \in Sessions : u # s => pc'[u] = pc[u]
    BY <2>2 DEF TypeOK
  <2>5. pc'[s] = "check"
    BY <2>2 DEF TypeOK
  <2> QED
    BY <2>1, <2>2, <2>3, <2>4, <2>5 DEF Active
<1>3. ASSUME NEW s \in Sessions, Leave(s) PROVE KnownOrTold'
  <2>1. /\ \E l \in {"joining", "stop"} : pc' = [pc EXCEPT ![s] = l]
        /\ UNCHANGED <<ctxs, cpc, images, dropped>>
    BY <1>3 DEF Leave, Move, captureVars
  <2>2. queue'.items = queue.items /\ (queue'.runs => queue.runs)
    BY <1>3 DEF Leave, TypeOK
  <2> QED
    BY <2>1, <2>2 DEF TypeOK, Queued, Active
<1>4. ASSUME NEW s \in Sessions, Aside(s) PROVE KnownOrTold'
  <2>1. UNCHANGED <<queue, ctxs, cpc, dropped, Queued>>
    BY <1>4, AsideKeeps DEF captureVars, Queued
  <2>2. \A u \in Sessions :
           /\ pc'[u] \in Active =>
                  pc[u] \in Active \/ (pc[u] = "check" /\ queue.runs)
           /\ pc'[u] = "check" => pc[u] = "check"
    <3>1. CASE Check(s)
      BY <3>1 DEF Check, Move, TypeOK, Active
    <3>2. CASE Loop(s) \/ LockDisplay(s) \/ MakeDevice(s) \/ Encode(s) \/ EncodeEnds(s)
      BY <3>2 DEF Loop, LockDisplay, MakeDevice, Encode, EncodeEnds, Move, TypeOK, Active
    <3>3. CASE Joined(s) \/ StopImages(s) \/ Shutdown(s)
      BY <3>3 DEF Joined, StopImages, Shutdown, Move, TypeOK, Active
    <3> QED
      BY <1>4, <3>1, <3>2, <3>3 DEF Aside
  <2>3. PICK runs \in BOOLEAN, of \in {images[s].of, NoDisplay} :
           /\ images' = [images EXCEPT ![s] = [runs |-> runs, of |-> of]]
           /\ runs => images[s].runs
    BY <1>4, AsideHolds
  <2>4. \A u \in Sessions : images'[u].runs => images[u].runs
    BY <2>3 DEF TypeOK
  <2> QED
    BY <2>1, <2>2, <2>4
<1>5. CASE Apart \/ PopInitial \/ Pop \/ Push \/ Wait \/ Exit
  <2>1. UNCHANGED <<pc, dropped>>
    BY <1>5 DEF Apart, Open, Peek, CaptureFails, Reinit, Reset, Renew, Publish, Settle,
                PopInitial, Pop, Push, Wait, Exit, encodeVars
  <2>2. /\ \A s \in ctxs \cup Queued :
              images[s].runs => s \in ctxs' \cup Queued'
        /\ queue'.runs => queue.runs
    BY <1>5, CaptureKnows
  <2>3. \A s \in Sessions : images'[s].runs => images[s].runs
    BY <1>5, CaptureImages
  <2>4. cpc' # "off"
    BY <1>5 DEF Apart, Open, Peek, CaptureFails, Reinit, Reset, Renew, Publish, Settle,
                PopInitial, Pop, Push, Wait, Exit, Step
  <2> QED
    BY <2>1, <2>2, <2>3, <2>4
<1>6. CASE Tell
  <2>1. UNCHANGED <<pc, dropped, queue>>
    BY <1>6 DEF Tell, encodeVars
  <2>2. images' = [s \in Sessions |->
           IF s \in ctxs \cup Queued THEN [images[s] EXCEPT !.runs = FALSE]
           ELSE images[s]]
    BY <1>6 DEF Tell, StopAll
  <2>3. \A s \in Sessions :
           ~images[s].runs \/ s \in ctxs \cup Queued => ~images'[s].runs
    <3>1. \A s \in Sessions : ~[images[s] EXCEPT !.runs = FALSE].runs
      BY DEF TypeOK
    <3> QED
      BY <2>2, <3>1
  <2> QED
    BY <2>1, <2>3
<1>7. CASE TeardownDone \/ UNCHANGED vars
  <2>1. UNCHANGED <<ctxs, queue, cpc, pc, images, dropped>>
    BY <1>7 DEF TeardownDone, vars, captureVars, encodeVars
  <2> QED
    BY <2>1 DEF Queued
<1> QED
  BY <1>1, <1>2, <1>3, <1>4, <1>5, <1>6, <1>7, StepKinds

-----------------------------------------------------------------------------
(* The displays and who holds them                                         *)

\* Where the display that is published changes.
LEMMA PublishedStep ==
    ASSUME TypeOK, OneContext, Published, [Next]_vars
    PROVE  Published'
<1> USE DEF Published
<1>1. ASSUME NEW s \in Sessions, Ref(s) PROVE Published'
  <2>1. CASE count = 0
    BY <1>1, <2>1 DEF Ref
  <2>2. CASE count # 0
    BY <1>1, <2>2 DEF Ref
  <2> QED
    BY <2>1, <2>2
<1>2. ASSUME NEW s \in Sessions, Raise(s) \/ Leave(s) \/ Aside(s)
      PROVE  Published'
  <2>1. UNCHANGED <<cpc, wp, disp>>
    BY <1>2, AsideKeeps DEF Raise, Leave, captureVars
  <2> QED
    BY <2>1
<1>3. CASE Apart
  <2>1. CASE Open
    BY <2>1, CaptureAssumption DEF Open, OpenDisplay, Step, TypeOK, NoDisplay
  <2>2. CASE Peek \/ CaptureFails \/ Reinit
    BY <2>2 DEF Peek, CaptureFails, Reinit, Step
  <2>3. CASE Reset
    BY <2>3 DEF Reset, Step
  <2>4. CASE Renew
    BY <2>4, CaptureAssumption DEF Renew, OpenDisplay, Step, TypeOK, NoDisplay
  <2>5. CASE Publish \/ Settle
    BY <2>5 DEF Publish, Settle, Step
  <2> QED
    BY <1>3, <2>1, <2>2, <2>3, <2>4, <2>5 DEF Apart
<1>4. CASE PopInitial \/ Pop \/ Push \/ Wait \/ Exit \/ Tell
  <2>1. CASE PopInitial \/ Pop
    BY <2>1 DEF PopInitial, Pop, Step
  <2>2. CASE Push
    BY <2>2 DEF Push, Step
  <2>3. CASE Wait
    BY <2>3 DEF Wait, Step
  <2>4. CASE Exit \/ Tell
    BY <2>4 DEF Exit, Tell, Step
  <2> QED
    BY <1>4, <2>1, <2>2, <2>3, <2>4
<1>5. CASE TeardownDone \/ UNCHANGED vars
  BY <1>5 DEF TeardownDone, vars, captureVars
<1> QED
  BY <1>1, <1>2, <1>3, <1>4, <1>5, StepKinds

\* Only the first session and the capture thread change what is published.
LEMMA PublishedBy ==
    ASSUME [Next]_vars, wp' # wp
    PROVE  \/ Open \/ Publish
           \/ \E s \in Sessions : Ref(s) /\ count = 0 /\ wp' = NoDisplay
<1>1. \A s \in Sessions : Raise(s) \/ Leave(s) \/ Aside(s) => wp' = wp
  BY AsideKeeps DEF Raise, Leave, captureVars
<1>2. Apart => Open \/ Publish
  BY DEF Apart, Peek, CaptureFails, Reinit, Reset, Renew, Settle
<1>3. PopInitial \/ Pop \/ Push \/ Wait \/ Exit \/ Tell \/ TeardownDone \/ UNCHANGED vars
         => wp' = wp
  BY DEF PopInitial, Pop, Push, Wait, Exit, Tell, TeardownDone, vars, captureVars
<1>4. \A s \in Sessions : Ref(s) => count = 0 /\ wp' = NoDisplay
  BY DEF Ref
<1> QED
  BY <1>1, <1>2, <1>3, <1>4, StepKinds

\* Without a holder of the context nobody has a device.
LEMMA NoHolders ==
    ASSUME TypeOK, OneContext, DevicesCurrent, count = 0
    PROVE  \A s \in Sessions : device[s] = NoDisplay /\ s \notin Holders
<1>1. Holders = {}
  BY Counts DEF OneContext, Holders
<1> QED
  BY <1>1 DEF DevicesCurrent, Holders, Active

\* What the steps of a session do to its device.
LEMMA DevicesMove ==
    ASSUME TypeOK, DevicesCurrent, NEW s \in Sessions, Aside(s)
    PROVE  /\ \A u \in Sessions \ {s} : pc'[u] = pc[u] /\ device'[u] = device[u]
           /\ device'[s] # NoDisplay <=> pc'[s] \in {"device", "encode"}
           /\ device'[s] \in {device[s], NoDisplay} \/ (LockDisplay(s) /\ device'[s] = wp)
           /\ late \subseteq late'
<1> USE DEF DevicesCurrent, TypeOK
<1>1. CASE Check(s) \/ Loop(s) \/ Joined(s)
  BY <1>1 DEF Check, Loop, Joined, Move
<1>2. CASE StopImages(s) \/ Shutdown(s) \/ Encode(s)
  BY <1>2 DEF StopImages, Shutdown, Encode, Move
<1>3. CASE LockDisplay(s)
  BY <1>3 DEF LockDisplay, Move, Alive
<1>4. CASE MakeDevice(s) \/ EncodeEnds(s)
  BY <1>4 DEF MakeDevice, EncodeEnds, Move
<1> QED
  BY <1>1, <1>2, <1>3, <1>4 DEF Aside

LEMMA DevicesStep ==
    ASSUME TypeOK, OneContext, Published, DevicesCurrent, GivenUp, [Next]_vars
    PROVE  DevicesCurrent'
<1>1. ASSUME NEW s \in Sessions, Aside(s) PROVE DevicesCurrent'
  <2>1. wp' = wp
    BY <1>1, AsideKeeps DEF captureVars
  <2> QED
    BY <1>1, <2>1, DevicesMove DEF DevicesCurrent
<1>2. ASSUME \A s \in Sessions : ~Aside(s) PROVE DevicesCurrent'
  <2>1. device' = device /\ late' = late
    <3>1. \A s \in Sessions : Ref(s) \/ Raise(s) \/ Leave(s) =>
                                 device' = device /\ late' = late
      BY DEF Ref, Raise, Leave
    <3>2. Apart => device' = device /\ late' = late
      BY DEF Apart, Open, Peek, CaptureFails, Reinit, Reset, Renew, Publish, Settle,
             encodeVars
    <3>3. PopInitial \/ Pop \/ Push \/ Wait \/ Exit \/ Tell \/ TeardownDone
             \/ UNCHANGED vars => device' = device /\ late' = late
      BY DEF PopInitial, Pop, Push, Wait, Exit, Tell, TeardownDone, vars, encodeVars
    <3> QED
      BY <1>2, <3>1, <3>2, <3>3, StepKinds
  <2>2. \A s \in Sessions :
           pc'[s] \in {"device", "encode"} <=> pc[s] \in {"device", "encode"}
    <3>1. ASSUME NEW s \in Sessions, Ref(s) \/ Raise(s) \/ Leave(s)
          PROVE  \A u \in Sessions :
                    pc'[u] \in {"device", "encode"} <=> pc[u] \in {"device", "encode"}
      BY <3>1 DEF Ref, Raise, Leave, Move, TypeOK
    <3>2. Apart => pc' = pc
      BY DEF Apart, Open, Peek, CaptureFails, Reinit, Reset, Renew, Publish, Settle,
             encodeVars
    <3>3. PopInitial \/ Pop \/ Push \/ Wait \/ Exit \/ Tell \/ TeardownDone
             \/ UNCHANGED vars => pc' = pc
      BY DEF PopInitial, Pop, Push, Wait, Exit, Tell, TeardownDone, vars, encodeVars
    <3> QED
      BY <1>2, <3>1, <3>2, <3>3, StepKinds
  <2>3. CASE wp' = wp
    BY <2>1, <2>2, <2>3 DEF DevicesCurrent
  <2>4. CASE wp' # wp
    <3>1. \A s \in Sessions : device[s] \in {NoDisplay} \cup late
      <4>1. CASE Open
        <5>1. wp = NoDisplay
          BY <4>1 DEF Open, Step, Published
        <5> QED
          BY <5>1 DEF DevicesCurrent
      <4>2. CASE Publish
        <5>1. wp \in late \/ ~HeldElsewhere(wp)
          BY <4>2 DEF Publish, Step, GivenUp
        <5> QED
          BY <5>1 DEF DevicesCurrent, HeldElsewhere
      <4>3. CASE count = 0
        BY <4>3, NoHolders
      <4> QED
        BY <2>4, <4>1, <4>2, <4>3, PublishedBy
    <3> QED
      BY <2>1, <2>2, <3>1 DEF DevicesCurrent
  <2> QED
    BY <2>3, <2>4
<1> QED
  BY <1>1, <1>2

\* A session that is done is not listed again.
LEMMA ListedStep ==
    ASSUME TypeOK, OneContext, [Next]_vars
    PROVE  \A u \in Sessions : Listed(u)' => Listed(u)
<1>1. ASSUME NEW s \in Sessions, Ref(s) \/ Leave(s)
      PROVE  \A u \in Sessions : Listed(u)' => Listed(u)
  <2>1. /\ \E l \in {"raise", "joining", "stop"} : pc' = [pc EXCEPT ![s] = l]
        /\ pc[s] # "done"
        /\ ctxs' = ctxs
    BY <1>1 DEF Ref, Leave, Move, captureVars
  <2>2. Queued' \subseteq Queued
    <3>1. CASE Ref(s)
      BY <3>1 DEF Ref, Queued, ToSet
    <3>2. CASE Leave(s)
      <4>1. queue'.items = queue.items
        BY <3>2 DEF Leave, TypeOK
      <4> QED
        BY <4>1 DEF Queued
    <3> QED
      BY <1>1, <3>1, <3>2
  <2> QED
    BY <2>1, <2>2 DEF Listed, TypeOK
<1>2. ASSUME NEW s \in Sessions, Raise(s)
      PROVE  \A u \in Sessions : Listed(u)' => Listed(u)
  <2>1. ctxs' = ctxs
    BY <1>2 DEF Raise, captureVars
  <2>2. /\ pc' = [pc EXCEPT ![s] = "check"] /\ pc[s] = "raise"
        /\ Queued' \subseteq Queued \cup {s}
    BY <1>2, RaiseQueues
  <2> QED
    BY <2>1, <2>2 DEF Listed, TypeOK
<1>3. ASSUME NEW s \in Sessions, Aside(s)
      PROVE  \A u \in Sessions : Listed(u)' => Listed(u)
  <2>1. UNCHANGED <<ctxs, Queued>>
    BY <1>3, AsideKeeps DEF captureVars, Queued
  <2>2. \A u \in Sessions : pc'[u] # "done" => pc[u] # "done"
    <3>1. PICK l \in Active \cup {"leave", "stop", "done", pc[s]} :
             /\ pc' = [pc EXCEPT ![s] = l]
             /\ pc[s] \in {"new", "joining", "stop", "done"} <=>
                    l \in {"new", "joining", "stop", "done"}
      BY <1>3, AsideMoves
    <3>2. pc[s] = "done" => pc' = pc
      BY <1>3 DEF Aside, Check, Loop, LockDisplay, MakeDevice, Encode,
                  EncodeEnds, Joined, StopImages, Shutdown, Move, Active
    <3> QED
      BY <3>1, <3>2 DEF TypeOK
  <2> QED
    BY <2>1, <2>2 DEF Listed
<1>4. CASE Apart \/ PopInitial \/ Pop \/ Push \/ Wait \/ Exit \/ Tell
  <2>1. pc' = pc
    BY <1>4 DEF Apart, Open, Peek, CaptureFails, Reinit, Reset, Renew, Publish, Settle,
                PopInitial, Pop, Push, Wait, Exit, Tell, encodeVars
  <2>2. ctxs' \cup Queued' \subseteq ctxs \cup Queued
    <3>1. CASE Tell
      BY <3>1 DEF Tell, Queued
    <3>2. CASE ~Tell
      BY <1>4, <3>2, CaptureKnows
    <3> QED
      BY <3>1, <3>2
  <2> QED
    BY <2>1, <2>2 DEF Listed
<1>5. CASE TeardownDone \/ UNCHANGED vars
  <2>1. UNCHANGED <<ctxs, queue, pc>>
    BY <1>5 DEF TeardownDone, vars, captureVars, encodeVars
  <2> QED
    BY <2>1 DEF Listed, Queued
<1> QED
  BY <1>1, <1>2, <1>3, <1>4, <1>5, StepKinds

\* An image that a session has after a step it had before, unless it was
\* pushed by the capture thread, of the display it has published.
LEMMA ImagesMove ==
    ASSUME TypeOK, Published, [Next]_vars, NEW s \in Sessions,
           images'[s].of # NoDisplay
    PROVE  \/ images'[s].of = images[s].of
           \/ /\ Push /\ images'[s].of = wp
              /\ cpc = "capture" /\ cpc' \in {"peek", "exit"}
<1>1. ASSUME NEW u \in Sessions, Ref(u) \/ Raise(u) \/ Leave(u)
      PROVE  images'[s].of = images[s].of
  BY <1>1 DEF Ref, Raise, Leave
<1>2. ASSUME NEW u \in Sessions, Aside(u)
      PROVE  images'[s].of = images[s].of
  <2>1. PICK runs \in BOOLEAN, of \in {images[u].of, NoDisplay} :
           images' = [images EXCEPT ![u] = [runs |-> runs, of |-> of]]
    BY <1>2, AsideHolds
  <2> QED
    BY <2>1 DEF TypeOK
<1>3. CASE Apart \/ PopInitial \/ Pop \/ Push \/ Wait \/ Exit \/ Tell
  <2>1. \/ images'[s].of \in {images[s].of, NoDisplay}
        \/ /\ images'[s].of = disp
           /\ cpc = "capture" /\ cpc' \in {"peek", "exit"}
    BY <1>3, CaptureImages
  <2>2. CASE Push
    BY <2>1, <2>2 DEF Published
  <2>3. CASE ~Push
    <3>1. Apart \/ PopInitial \/ Pop \/ Exit \/ Tell => images'[s].of = images[s].of
      <4>1. [images[s] EXCEPT !.runs = FALSE].of = images[s].of
        BY DEF TypeOK
      <4>2. Tell => images'[s].of = images[s].of
        BY <4>1 DEF Tell, StopAll
      <4>3. Apart \/ PopInitial \/ Pop \/ Exit => images' = images
        BY DEF Apart, Open, Peek, CaptureFails, Reinit, Reset, Renew, Publish, Settle,
               PopInitial, Pop, Exit
      <4> QED
        BY <4>2, <4>3
    <3>2. CASE Wait
      <4>1. cpc = "wait"
        BY <3>2 DEF Wait, Step
      <4> QED
        BY <2>1, <4>1
    <3> QED
      BY <1>3, <2>3, <3>1, <3>2
  <2> QED
    BY <2>2, <2>3
<1>4. CASE TeardownDone \/ UNCHANGED vars
  BY <1>4 DEF TeardownDone, vars
<1> QED
  BY <1>1, <1>2, <1>3, <1>4, StepKinds

\* Sessions that have stopped listening, or are about to, stay so.
LEMMA StoppedStays ==
    ASSUME TypeOK, [Next]_vars
    PROVE  \A u \in Sessions : pc[u] \in {"stop", "done"} => pc'[u] \in {"stop", "done"}
<1>1. ASSUME NEW s \in Sessions, Ref(s) \/ Raise(s) \/ Leave(s) \/ Aside(s)
      PROVE  \A u \in Sessions : pc[u] \in {"stop", "done"} => pc'[u] \in {"stop", "done"}
  <2>1. Ref(s) \/ Raise(s) \/ Leave(s) =>
           \E l \in {"raise", "check", "joining", "stop"} :
               pc' = [pc EXCEPT ![s] = l] /\ pc[s] \notin {"stop", "done"}
    BY DEF Ref, Raise, Leave, Move
  <2>2. Aside(s) =>
           \E l \in Active \cup {"leave", "stop", "done", pc[s]} :
               /\ pc' = [pc EXCEPT ![s] = l]
               /\ pc[s] \in {"stop", "done"} => l \in {"stop", "done"}
    <3>1. CASE StopImages(s) \/ Shutdown(s)
      <4>1. pc = [pc EXCEPT ![s] = pc[s]]
        BY DEF TypeOK
      <4> QED
        BY <3>1, <4>1 DEF StopImages, Shutdown, Move
    <3>2. CASE Aside(s) /\ ~StopImages(s) /\ ~Shutdown(s)
      <4>1. pc[s] \notin {"stop", "done"}
        BY <3>2 DEF Aside, Check, Loop, LockDisplay, MakeDevice, Encode,
                    EncodeEnds, Joined, Move
      <4> QED
        BY <3>2, <4>1, AsideMoves
    <3> QED
      BY <3>1, <3>2
  <2> QED
    BY <1>1, <2>1, <2>2 DEF TypeOK
<1>2. CASE Apart \/ PopInitial \/ Pop \/ Push \/ Wait \/ Exit \/ Tell \/ TeardownDone
              \/ UNCHANGED vars
  BY <1>2 DEF Apart, Open, Peek, CaptureFails, Reinit, Reset, Renew, Publish, Settle,
              PopInitial, Pop, Push, Wait, Exit, Tell, TeardownDone, vars, encodeVars
<1> QED
  BY <1>1, <1>2, StepKinds

LEMMA ImagesStep ==
    ASSUME TypeOK, OneContext, Known, Published, ImagesCurrent, [Next]_vars
    PROVE  ImagesCurrent'
<1> SUFFICES ASSUME NEW s \in Sessions,
                    pc'[s] \notin {"stop", "done"}, images'[s].of # NoDisplay
             PROVE  /\ images'[s].of = wp'
                    /\ cpc' \in {"capture", "peek", "pop", "wait", "exit", "tell", "off"}
  BY DEF ImagesCurrent
<1>1. CASE Push /\ images'[s].of = wp /\ cpc' \in {"peek", "exit"}
  BY <1>1 DEF Push
<1>2. CASE images'[s].of = images[s].of
  <2>1. /\ pc[s] \notin {"stop", "done"}
        /\ images[s].of = wp
        /\ cpc \in {"capture", "peek", "pop", "wait", "exit", "tell", "off"}
    BY <1>2, StoppedStays DEF ImagesCurrent
  <2>2. ASSUME NEW u \in Sessions, Ref(u) PROVE count # 0
    <3>1. SUFFICES ASSUME count = 0 PROVE FALSE
      OBVIOUS
    <3>2. Holders = {}
      BY <3>1, Counts DEF OneContext, Holders
    <3>3. pc[s] # "joining"
      BY <2>2 DEF Ref, Unlocked
    <3>4. pc[s] \in {"new", "raise"}
      BY <2>1, <3>2, <3>3 DEF Holders, TypeOK
    <3> QED
      BY <1>2, <3>4 DEF Known
  <2>3. wp' = wp
    BY <2>1, <2>2, PublishedBy DEF Open, Publish, Step
  <2>4. cpc' \in {"capture", "peek", "pop", "wait", "exit", "tell", "off"}
    <3>1. ASSUME NEW u \in Sessions, Ref(u) \/ Raise(u) \/ Leave(u) \/ Aside(u)
          PROVE  cpc' = cpc
      BY <2>2, <3>1, AsideKeeps DEF Ref, Raise, Leave, captureVars
    <3>2. CASE Apart \/ PopInitial \/ Pop \/ Push \/ Exit \/ Tell
      BY <2>1, <3>2 DEF Apart, Open, Peek, CaptureFails, Reinit, Reset, Renew, Publish,
                        Settle, PopInitial, Pop, Push, Exit, Tell, Step
    <3>3. CASE Wait
      <4>1. cpc = "wait"
        BY <3>3 DEF Wait, Step
      <4>2. HeldElsewhere(disp)
        BY <1>2, <2>1, <4>1 DEF HeldElsewhere, Listed, Published
      <4> QED
        BY <3>3, <4>2 DEF Wait, Step
    <3>4. CASE TeardownDone \/ UNCHANGED vars
      BY <2>1, <3>4 DEF TeardownDone, vars, captureVars
    <3> QED
      BY <2>1, <3>1, <3>2, <3>3, <3>4, StepKinds
  <2> QED
    BY <1>2, <2>1, <2>3, <2>4
<1> QED
  BY <1>1, <1>2, ImagesMove

\* The devices, the teardowns and the displays taken late, whoever steps.
LEMMA HoldsMove ==
    ASSUME TypeOK, DevicesCurrent, [Next]_vars
    PROVE  /\ \A s \in Sessions :
                 \/ device'[s] \in {device[s], NoDisplay}
                 \/ /\ device'[s] = wp
                    /\ cpc \in {"reset", "renew", "publish"} => wp \in late'
           /\ \A d \in teardown' :
                 d \in teardown \/ \E s \in Sessions : device[s] = d
           /\ late \subseteq late'
<1>1. ASSUME NEW u \in Sessions, Aside(u)
      PROVE  /\ \A s \in Sessions :
                   \/ device'[s] \in {device[s], NoDisplay}
                   \/ /\ device'[s] = wp
                      /\ cpc \in {"reset", "renew", "publish"} => wp \in late'
             /\ \A d \in teardown' :
                   d \in teardown \/ \E s \in Sessions : device[s] = d
             /\ late \subseteq late'
  <2>1. LockDisplay(u) => \/ device'[u] = NoDisplay
                          \/ cpc \in {"reset", "renew", "publish"} => wp \in late'
    BY DEF LockDisplay, TypeOK
  <2>2. teardown' = teardown \/ teardown' = teardown \cup {device[u]}
    BY <1>1, AsideHolds
  <2> QED
    BY <1>1, <2>1, <2>2, DevicesMove
<1>2. ASSUME NEW u \in Sessions, Ref(u) \/ Raise(u) \/ Leave(u)
      PROVE  UNCHANGED <<device, teardown, late>>
  BY <1>2 DEF Ref, Raise, Leave
<1>3. Apart \/ PopInitial \/ Pop \/ Push \/ Wait \/ Exit \/ Tell \/ UNCHANGED vars
         => UNCHANGED <<device, teardown, late>>
  BY DEF Apart, Open, Peek, CaptureFails, Reinit, Reset, Renew, Publish, Settle,
         PopInitial, Pop, Push, Wait, Exit, Tell, encodeVars, vars
<1>4. TeardownDone => /\ UNCHANGED <<device, late>>
                      /\ teardown' \subseteq teardown
  BY DEF TeardownDone, encodeVars
<1> QED
  BY <1>1, <1>2, <1>3, <1>4, StepKinds

LEMMA GivenUpStep ==
    ASSUME TypeOK, OneContext, Published, DevicesCurrent, GivenUp, [Next]_vars
    PROVE  GivenUp'
<1> SUFFICES ASSUME cpc' \in {"reset", "renew", "publish"}, wp' \notin late'
             PROVE  ~HeldElsewhere(wp)'
  BY DEF GivenUp
<1>1. CASE cpc \notin {"reset", "renew", "publish"}
  <2>1. Wait /\ ~HeldElsewhere(disp)
    <3>1. ASSUME NEW u \in Sessions, Ref(u) \/ Raise(u) \/ Leave(u) \/ Aside(u)
          PROVE  FALSE
      BY <1>1, <3>1, AsideKeeps DEF Ref, Raise, Leave, captureVars
    <3>2. ~(Apart \/ PopInitial \/ Pop \/ Push \/ Exit \/ Tell)
      BY <1>1 DEF Apart, Open, Peek, CaptureFails, Reinit, Reset, Renew, Publish,
                  Settle, PopInitial, Pop, Push, Exit, Tell, Step
    <3>3. ~(TeardownDone \/ UNCHANGED vars)
      BY <1>1 DEF TeardownDone, vars, captureVars
    <3>4. Wait => ~HeldElsewhere(disp)
      BY DEF Wait, Step
    <3> QED
      BY <3>1, <3>2, <3>3, <3>4, StepKinds
  <2>2. /\ UNCHANGED <<ctxs, images, queue, wp, teardown, device, pc>>
        /\ disp = wp
    BY <2>1 DEF Wait, Step, encodeVars, Published
  <2>3. ~HeldElsewhere(wp)
    BY <2>1, <2>2
  <2> QED
    BY <2>2, <2>3 DEF HeldElsewhere, Listed, Queued
<1>2. CASE cpc \in {"reset", "renew", "publish"}
  <2>1. wp' = wp
    BY <1>2, PublishedBy DEF Open, Publish, Step, Ref
  <2>2. wp # NoDisplay /\ wp \notin late' /\ ~HeldElsewhere(wp)
    BY <1>2, <2>1, HoldsMove DEF Published, GivenUp
  <2>3. wp \notin teardown'
    BY <2>2, HoldsMove DEF HeldElsewhere
  <2>4. \A s \in Sessions : device'[s] # wp
    BY <1>2, <2>2, HoldsMove DEF HeldElsewhere
  <2>5. ASSUME NEW s \in Sessions, images'[s].of = wp, Listed(s)' PROVE FALSE
    <3>1. images[s].of = wp
      BY <1>2, <2>2, <2>5, ImagesMove
    <3> QED
      BY <2>2, <2>5, <3>1, ListedStep DEF HeldElsewhere
  <2> QED
    BY <2>1, <2>3, <2>4, <2>5 DEF HeldElsewhere
<1> QED
  BY <1>1, <1>2

-----------------------------------------------------------------------------
(* The theorems                                                            *)

LEMMA StepInv == Inv /\ [Next]_vars => Inv'
<1> SUFFICES ASSUME Inv, [Next]_vars PROVE Inv'
  OBVIOUS
<1> USE DEF Inv
<1>1. TypeOK' /\ OneContext'
  BY TypeStep, ContextStep
<1>2. Known' /\ KnownOrTold'
  BY KnownStep, KnownOrToldStep
<1>3. Published' /\ DevicesCurrent'
  BY PublishedStep, DevicesStep
<1>4. ImagesCurrent' /\ GivenUp'
  BY ImagesStep, GivenUpStep
<1> QED
  BY <1>1, <1>2, <1>3, <1>4

LEMMA SpecInv == Spec => []Inv
BY InitInv, StepInv, PTL DEF Spec

\* When the capture thread has ended, every session that still encodes or is
\* about to has been told, unless a full queue lost its context: whatever the
\* order in which sessions come and go and the display is lost.
THEOREM SessionsAreTold == Spec => []ContextsTold
<1>1. Inv => ContextsTold
  BY DEF Inv, KnownOrTold, ContextsTold
<1> QED
  BY <1>1, SpecInv, PTL

\* An encoder is never given an image of another display than its device was
\* made for, and a lost display is replaced only when nobody holds it, unless
\* it was taken after the capture thread had looked.
THEOREM LostDisplaysStayApart == Spec => []DisplaysApart
<1>1. Inv => CurrentImages
  BY DEF Inv, ImagesCurrent, DevicesCurrent, CurrentImages
<1>2. Inv => NewDisplayAlone
  BY DEF Inv, GivenUp, NewDisplayAlone
<1>3. Inv => DisplaysApart
  BY <1>1, <1>2 DEF Inv, DisplaysApart
<1> QED
  BY <1>3, SpecInv, PTL

-----------------------------------------------------------------------------
(* The context is a shared object                                          *)

(* While the capture thread is joined nobody has a reference.              *)
LastJoins == ~Unlocked => count = 0

LEMMA LastJoinsStep ==
    ASSUME TypeOK, LastJoins, [Next]_vars
    PROVE  LastJoins'
<1>1. ASSUME NEW s \in Sessions, Ref(s) PROVE LastJoins'
  BY <1>1 DEF Ref, Move, Unlocked, LastJoins, TypeOK
<1>2. ASSUME NEW s \in Sessions, Raise(s) PROVE LastJoins'
  BY <1>2 DEF Raise, Move, Unlocked, LastJoins, TypeOK
<1>3. ASSUME NEW s \in Sessions, Leave(s) PROVE LastJoins'
  BY <1>3 DEF Leave, Move, Unlocked, LastJoins, TypeOK
<1>4. ASSUME NEW s \in Sessions, Aside(s) PROVE LastJoins'
  <2>1. count' = count
    BY <1>4, AsideKeeps
  <2>2. \A t \in Sessions : pc'[t] = "joining" => pc[t] = "joining"
    BY <1>4, AsideMoves DEF TypeOK, Active
  <2> QED
    BY <2>1, <2>2 DEF Unlocked, LastJoins
<1>5. CASE \/ Apart \/ PopInitial \/ Pop \/ Push \/ Wait \/ Exit \/ Tell
           \/ TeardownDone \/ UNCHANGED vars
  <2>1. UNCHANGED <<count, pc>>
    BY <1>5 DEF Apart, Open, Peek, CaptureFails, Reinit, Reset, Renew, Publish, Settle,
                PopInitial, Pop, Push, Wait, Exit, Tell, TeardownDone, vars, encodeVars
  <2> QED
    BY <2>1 DEF Unlocked, LastJoins
<1> QED
  BY <1>1, <1>2, <1>3, <1>4, <1>5, StepKinds

(* A step that moves no session into or out of the context.                *)
LEMMA SharedStays ==
    ASSUME count' = count, Holders' = Holders, Unlocked' = Unlocked
    PROVE  UNCHANGED Context!vars
BY DEF Context!vars, Stage

(* Each step is one of the object's, or none.                              *)
LEMMA SharedStep ==
    ASSUME TypeOK, OneContext, LastJoins, [Next]_vars
    PROVE  [Context!Next]_Context!vars
<1>0. Holders \subseteq Sessions /\ count = Cardinality(Holders) /\ count \in Nat
  BY DEF Holders, OneContext, TypeOK
<1>1. ASSUME NEW s \in Sessions, Ref(s) PROVE [Context!Next]_Context!vars
  <2>1. /\ Holders' = Holders \cup {s}
        /\ count' = count + 1
        /\ Unlocked /\ Unlocked'
    BY <1>1 DEF Ref, Move, Holders, Active, TypeOK, Unlocked
  <2>2. Stage' = "up"
    BY <1>0, <2>1 DEF Stage
  <2>3. CASE count = 0
    <3>1. Stage = "none" /\ Holders' = {s}
      BY <1>0, <2>1, <2>3, Counts DEF Stage
    <3> QED
      BY <2>2, <3>1 DEF Context!Next, Context!Constructed, Context!Become
  <2>4. CASE count # 0
    <3>1. Stage = "up"
      BY <2>1, <2>4 DEF Stage
    <3> QED
      BY <2>1, <2>2, <3>1 DEF Context!Next, Context!Take, Context!Become
  <2> QED
    BY <2>3, <2>4
<1>2. ASSUME NEW s \in Sessions, Leave(s) PROVE [Context!Next]_Context!vars
  <2>1. /\ s \in Holders /\ Holders' = Holders \ {s}
        /\ count' = count - 1
        /\ Unlocked
    BY <1>2 DEF Leave, Move, Holders, Active, TypeOK
  <2>2. Holders' = {} <=> count = 1
    BY <1>0, <2>1, Counts
  <2>3. count # 0
    BY <1>0, <2>1, Counts
  <2>4. ~Unlocked' <=> count = 1
    BY <1>2 DEF Leave, Move, Unlocked, TypeOK
  <2>5. Stage = "up" /\ Stage' = IF count = 1 THEN "going" ELSE "up"
    BY <1>0, <2>1, <2>3, <2>4 DEF Stage
  <2> QED
    BY <2>1, <2>2, <2>5 DEF Context!Next, Context!Give, Context!Become
<1>3. ASSUME NEW s \in Sessions, Raise(s) PROVE [Context!Next]_Context!vars
  <2>1. count' = count /\ Holders' = Holders /\ Unlocked' = Unlocked
    BY <1>3 DEF Raise, Move, Holders, Active, TypeOK, Unlocked
  <2> QED
    BY <2>1, SharedStays
<1>4. ASSUME NEW s \in Sessions, Aside(s) PROVE [Context!Next]_Context!vars
  <2>1. count' = count
    BY <1>4, AsideKeeps
  <2>2. PICK l \in Active \cup {"leave", "stop", "done", pc[s]} :
              /\ pc' = [pc EXCEPT ![s] = l]
              /\ pc[s] \notin {"new", "raise", "joining"} \/ l = pc[s] \/ cpc = "off"
              /\ pc[s] \in {"new", "joining", "stop", "done"} <=>
                     l \in {"new", "joining", "stop", "done"}
    BY <1>4, AsideMoves
  <2>3. Holders' = Holders
    BY <2>2 DEF Holders, Active, TypeOK
  <2>4. CASE Unlocked' = Unlocked
    BY <2>1, <2>3, <2>4, SharedStays
  <2>5. CASE Unlocked' # Unlocked
    <3>1. ~Unlocked /\ Unlocked'
      BY <2>2, <2>5 DEF Unlocked, TypeOK, Active
    <3>2. Stage = "going" /\ Stage' = "none"
      BY <2>1, <3>1 DEF Stage, LastJoins
    <3> QED
      BY <2>3, <3>2 DEF Context!Next, Context!Destroyed, Context!Become
  <2> QED
    BY <2>4, <2>5
<1>5. CASE \/ Apart \/ PopInitial \/ Pop \/ Push \/ Wait \/ Exit \/ Tell
           \/ TeardownDone \/ UNCHANGED vars
  <2>1. UNCHANGED <<count, pc>>
    BY <1>5 DEF Apart, Open, Peek, CaptureFails, Reinit, Reset, Renew, Publish, Settle,
                PopInitial, Pop, Push, Wait, Exit, Tell, TeardownDone, vars, encodeVars
  <2> QED
    BY <2>1, SharedStays DEF Holders, Unlocked
<1> QED
  BY <1>1, <1>2, <1>3, <1>4, <1>5, StepKinds

(* The capture thread is shared as shared_t promises: the session that     *)
(* leaves last joins it, and one that comes meanwhile waits for that.      *)
THEOREM CaptureIsShared == Spec => SharesCapture
<1>1. Init => Context!Init /\ LastJoins
  BY DEF Init, Context!Init, Stage, Holders, Unlocked, Active, LastJoins
<1>2. Inv /\ LastJoins /\ [Next]_vars => LastJoins'
  BY LastJoinsStep DEF Inv
<1>3. Inv /\ LastJoins /\ [Next]_vars => [Context!Next]_Context!vars
  BY SharedStep DEF Inv
<1> QED
  BY <1>1, <1>2, <1>3, SpecInv, PTL DEF Spec, SharesCapture, Context!Spec

=============================================================================
