---------------------------- MODULE AudioSinkProofs ----------------------------
(***************************************************************************)
(* Proofs about AudioSink, for any sessions, layouts, sinks and faults.    *)
(***************************************************************************)
EXTENDS AudioSink, FiniteSetTheorems, TLAPS

-----------------------------------------------------------------------------
(* The inductive invariant                                                 *)

\* What the context holds where its lock is held.
Stages ==
    /\ Idle => ctx = NoContext
    /\ \A s \in Sessions :
          /\ pc[s] = "connect" => ctx = NoContext
          /\ pc[s] = "info" =>
                ctx.control /\ ~ctx.flag /\ ctx.index = {} /\ ctx.count = 0
                /\ ctx.requested = None
          /\ pc[s] = "load" => ctx.control /\ ~ctx.flag /\ ctx.requested = None
          /\ pc[s] = "switch" => ctx.control /\ ctx.restore
    /\ ctx.restore => ctx.control

\* A null sink whose index is known is there, as long as the server is.
IndexLoaded == ctx.good => \A n \in ctx.index : pa.loaded[n] > 0

\* Where the default sink may differ from the one the context found.
Changed ==
    /\ ctx.restore
    /\ \/ Holders # {}
       \/ \E s \in Sessions : pc[s] = "restore"

Origin ==
    ~touched =>
        /\ origin \in Sinks
        /\ ctx.control => ctx.good
        /\ pa.default = origin \/ Changed
        /\ ctx.control /\ (\A s \in Sessions : pc[s] # "info")
              => ctx.host = origin

\* Null sinks are one's own or left over.
Counted ==
    \A n \in Layouts :
        pa.loaded[n] <= left[n] + (IF n \in ctx.index THEN 1 ELSE 0)

\* Nobody records before the sink is chosen, nor while it is being set.
Chosen ==
    /\ ~ctx.flag => \A s \in Sessions : pc[s] \notin {"switch", "mic", "sample",
                                                      "remic", "stop", "join"}
    /\ \A s, t \in Sessions : pc[s] = "switch" /\ pc[t] = "switch" => s = t
    /\ \A s, t \in Sessions :
          pc[t] = "switch" /\ pc[s] = "sample" /\ mic[s] # None => s \in early
    /\ \A s \in Sessions : pc[s] = "remic" => mic[s] = None
    /\ conf = None /\ ~touched /\ ctx.requested # None
          => ctx.requested = pa.default

Inv ==
    /\ TypeOK
    /\ ContextHeld
    /\ Stages
    /\ IndexLoaded
    /\ Origin
    /\ Counted
    /\ Chosen
    /\ HearsTheHost

-----------------------------------------------------------------------------
(* Types and the context's count                                           *)

(* The holders are finitely many, which the count of none of them tells.   *)
LEMMA HoldersFinite ==
    /\ IsFiniteSet(Holders)
    /\ Cardinality(Holders) \in 0 .. Cardinality(Sessions)
    /\ Cardinality(Holders) = 0 <=> Holders = {}
<1>1. IsFiniteSet(Sessions) /\ Holders \subseteq Sessions
  BY AudioAssumption DEF Holders
<1>2. IsFiniteSet(Holders) /\ Cardinality(Holders) <= Cardinality(Sessions)
  BY <1>1, FS_Subset
<1>3. Cardinality(Holders) \in Nat /\ Cardinality(Sessions) \in Nat
  BY <1>1, <1>2, FS_CardinalityType
<1> QED
  BY <1>2, <1>3, FS_EmptySet

(* A thread that goes on holding, or on owning the lock, changes nothing.  *)
LEMMA StepInside ==
    ASSUME NEW s \in Sessions, NEW l, TypeOK, ContextHeld,
           Goto(s, l), lock' = lock, ctx'.count = ctx.count,
           \/ pc[s] \in Holding /\ l \in Holding
           \/ pc[s] \in Locked /\ l \in Locked
           \/ pc[s] \in {"idle", "ref"} /\ l \in {"idle", "ref"}
    PROVE  ContextHeld' /\ Holders' = Holders
<1> USE DEF TypeOK, Goto, Holding, Locked
<1>1. Holders' = Holders
  BY DEF Holders
<1>2. \A t \in Sessions : pc'[t] \in Locked <=> pc[t] \in Locked
  OBVIOUS
<1> QED
  BY <1>1, <1>2 DEF ContextHeld

(* A thread that comes to hold a reference adds one to the count.          *)
LEMMA StepIn ==
    ASSUME NEW s \in Sessions, NEW l \in Holding, TypeOK, ContextHeld,
           Goto(s, l), pc[s] \notin Holding, lock' = None,
           lock = None \/ lock = s, ctx'.count = ctx.count + 1
    PROVE  ContextHeld'
<1> USE DEF TypeOK, Goto, Holding, Locked
<1>1. Holders' = Holders \cup {s} /\ s \notin Holders
  BY DEF Holders
<1>2. Cardinality(Holders') = Cardinality(Holders) + 1
  BY <1>1, HoldersFinite, FS_AddElement
<1>3. \A t \in Sessions : pc'[t] \notin Locked
  BY AudioAssumption DEF ContextHeld
<1> QED
  BY <1>2, <1>3, AudioAssumption DEF ContextHeld

(* One that gives it up subtracts one; the last then has the lock.         *)
LEMMA StepOut ==
    ASSUME NEW s \in Sessions, NEW l \in {"idle", "restore"},
           TypeOK, ContextHeld, Goto(s, l), pc[s] = "release", lock = None,
           ctx'.count = ctx.count - 1,
           IF l = "restore" THEN lock' = s /\ ctx.count = 1
                            ELSE lock' = None
    PROVE  ContextHeld'
<1> USE DEF TypeOK, Goto, Holding, Locked
<1>1. Holders' = Holders \ {s} /\ s \in Holders
  BY DEF Holders
<1>2. Cardinality(Holders') = Cardinality(Holders) - 1 /\ IsFiniteSet(Holders')
  BY <1>1, HoldersFinite, FS_RemoveElement
<1>3. ctx.count = 1 => Holders' = {}
  BY <1>2, FS_EmptySet DEF ContextHeld
<1>4. \A t \in Sessions : pc'[t] \in Locked <=> t = s /\ l = "restore"
  BY AudioAssumption DEF ContextHeld
<1> QED
  BY <1>2, <1>3, <1>4, AudioAssumption DEF ContextHeld

(* Whatever leaves the threads alone, the lock and the count is harmless.  *)
LEMMA StepBeside ==
    ASSUME ContextHeld, pc' = pc, lock' = lock, ctx'.count = ctx.count
    PROVE  ContextHeld' /\ Holders' = Holders
BY DEF ContextHeld, Holders

(* The thread with the lock is alone with the context.                     *)
LEMMA LockedAlone ==
    ASSUME NEW s \in Sessions, TypeOK, ContextHeld, pc[s] \in Locked
    PROVE  /\ lock = s
           /\ Holders = {}
           /\ ctx.count = 0
           /\ \A t \in Sessions : pc[t] \in Locked => t = s
<1>1. lock = s /\ Holders = {}
  BY AudioAssumption DEF ContextHeld
<1> QED
  BY <1>1, HoldersFinite DEF ContextHeld

(* Construction and destruction leave a thread with the lock, a holder or  *)
(* nobody at all.                                                          *)
LEMMA StepLocked ==
    ASSUME NEW s \in Sessions, NEW l \in {"idle"} \cup Holding,
           TypeOK, ContextHeld, Goto(s, l), pc[s] \in Locked,
           lock' = None,
           ctx'.count = IF l = "idle" THEN 0 ELSE 1
    PROVE  ContextHeld'
<1>1. /\ lock = s /\ Holders = {} /\ ctx.count = 0
      /\ \A t \in Sessions : pc[t] \in Locked => t = s
  BY LockedAlone
<1>2. CASE l = "idle"
  <2>1. Holders' = {} /\ \A t \in Sessions : pc'[t] \notin Locked
    BY <1>1, <1>2 DEF Holders, Holding, Locked, Goto, TypeOK
  <2>2. Cardinality(Holders') = 0
    BY <2>1, FS_EmptySet
  <2> QED
    BY <1>2, <2>1, <2>2, AudioAssumption DEF ContextHeld
<1>3. CASE l # "idle"
  <2>1. ctx'.count = ctx.count + 1
    BY <1>1, <1>3
  <2>2. pc[s] \notin Holding
    BY DEF Holding, Locked
  <2> QED
    BY <1>1, <1>3, <2>1, <2>2, StepIn
<1> QED
  BY <1>2, <1>3

(* A thread that waits for ever leaves everything as it is.                *)
LEMMA HangsKeeps ==
    ASSUME NEW s \in Sessions, TypeOK, Hangs(s)
    PROVE  /\ UNCHANGED <<conf, pa, ctx, lock, sink, mic, samples, enc, packets,
                          shutdown, starts, faults, origin, touched, left, early>>
           /\ \/ pc[s] \in Holding /\ "deaf" \in Holding /\ Goto(s, "deaf")
              \/ pc[s] \in Locked /\ "hung" \in Locked /\ Goto(s, "hung")
           /\ ~ctx.good
           /\ pc[s] \in {"info", "load", "restore", "unload",
                         "switch", "mic", "remic"}
BY DEF Hangs, Asking, Holding, Locked, ctxVars, encVars, countVars, noteVars

(* Every step keeps the count.                                             *)
LEMMA HeldStep ==
    ASSUME TypeOK, ContextHeld, [Next]_vars
    PROVE  ContextHeld'
<1> USE AudioAssumption DEF Contexts
<1>1. ASSUME NEW s \in Sessions, Takes(s) PROVE ContextHeld'
  <2>1. CASE Ref(s)
    <3>1. CASE ctx.count = 0
      <4>1. Holders = {} /\ lock' = s /\ Goto(s, "connect") /\ ctx' = ctx
        BY <2>1, <3>1, HoldersFinite DEF Ref, ContextHeld
      <4>2. Holders' = {}
        BY <2>1, <4>1 DEF Ref, Holders, Holding, Goto, TypeOK
      <4>3. \A t \in Sessions : pc'[t] \in Locked <=> t = s
        BY <2>1, <4>1 DEF Ref, ContextHeld, Locked, Goto, TypeOK
      <4>4. Cardinality(Holders') = 0
        BY <4>2, FS_EmptySet
      <4> QED
        BY <3>1, <4>1, <4>2, <4>3, <4>4 DEF ContextHeld
    <3>2. CASE ctx.count # 0
      <4>1. /\ Goto(s, "select") /\ pc[s] \notin Holding /\ lock' = None
            /\ lock = None /\ ctx'.count = ctx.count + 1
        BY <2>1, <3>2 DEF Ref, Holding, TypeOK
      <4>2. "select" \in Holding
        BY DEF Holding
      <4> QED
        BY <4>1, <4>2, StepIn
    <3> QED
      BY <3>1, <3>2
  <2>2. CASE Connect(s)
    <3>1. CASE Goto(s, "select")
      <4>1. pc'[s] = "select"
        BY <3>1 DEF Goto, TypeOK
      <4>2. ~Goto(s, "info") /\ ~Goto(s, "hung")
        BY <4>1 DEF Goto, TypeOK
      <4>3. pc[s] = "connect" /\ lock' = None /\ ctx' = [ctx EXCEPT !.count = 1]
        BY <2>2, <4>2 DEF Connect
      <4>4. ctx'.count = 1
        BY <4>3 DEF TypeOK, Contexts
      <4>5. "select" \in Holding /\ pc[s] \in Locked
        BY <4>3 DEF Holding, Locked
      <4> QED
        BY <3>1, <4>3, <4>4, <4>5, StepLocked
    <3>2. ASSUME NEW l \in {"info", "hung"}, Goto(s, l) PROVE ContextHeld'
      <4>1. pc'[s] = l
        BY <3>2 DEF Goto, TypeOK
      <4>2. ~Goto(s, "select")
        BY <4>1 DEF Goto, TypeOK
      <4>3. /\ pc[s] = "connect" /\ lock' = lock
            /\ ctx' \in {[ctx EXCEPT !.control = TRUE, !.good = TRUE], ctx}
        BY <2>2, <4>2 DEF Connect
      <4>4. ctx'.count = ctx.count
        BY <4>3 DEF TypeOK, Contexts
      <4>5. l \in Locked /\ pc[s] \in Locked
        BY <4>3 DEF Locked
      <4> QED
        BY <3>2, <4>3, <4>4, <4>5, StepInside
    <3> QED
      BY <2>2, <3>1, <3>2 DEF Connect
  <2>3. CASE Info(s)
    BY <2>3, StepInside DEF Info, Locked, TypeOK
  <2>4. CASE InfoFails(s)
    BY <2>4, StepLocked DEF InfoFails, Locked, Holding, NoContext
  <2>5. CASE LoadNull(s)
    BY <2>5, StepLocked DEF LoadNull, Locked, Holding, TypeOK
  <2> QED
    BY <1>1, <2>1, <2>2, <2>3, <2>4, <2>5 DEF Takes
<1>2. ASSUME NEW s \in Sessions, Captures(s) PROVE ContextHeld'
  <2> USE DEF Holding, ctxVars
  <2>1. CASE NoControl(s)
    BY <2>1, StepInside DEF NoControl, Fails
  <2>2. CASE Select(s)
    <3>1. PICK l \in {"switch", "mic"} : Goto(s, l)
      BY <2>2 DEF Select
    <3>2. pc[s] = "select" /\ lock' = lock /\ ctx'.count = ctx.count
      BY <2>2 DEF Select, TypeOK
    <3> QED
      BY <3>1, <3>2, StepInside
  <2>3. CASE Switch(s)
    <3>1. PICK l \in {"mic", "wait"} : Goto(s, l)
      BY <2>3 DEF Switch, Fails
    <3>2. pc[s] = "switch" /\ lock' = lock /\ ctx'.count = ctx.count
      BY <2>3 DEF Switch, TypeOK
    <3> QED
      BY <3>1, <3>2, StepInside
  <2>4. CASE OpenMic(s)
    BY <2>4, StepInside DEF OpenMic, Fails
  <2>5. CASE Sample(s)
    <3>1. PICK l \in {"remic", "stop", "sample"} : Goto(s, l)
      BY <2>5 DEF Sample
    <3> QED
      BY <2>5, <3>1, StepInside DEF Sample
  <2>6. CASE ShutdownSeen(s)
    BY <2>6, StepInside DEF ShutdownSeen
  <2>7. CASE Remic(s)
    BY <2>7, StepInside DEF Remic
  <2>8. CASE StopSamples(s)
    BY <2>8, StepInside DEF StopSamples
  <2>9. CASE Join(s)
    BY <2>9, StepInside DEF Join
  <2>10. CASE Wait(s)
    BY <2>10, StepInside DEF Wait
  <2> QED
    BY <1>2, <2>1, <2>2, <2>3, <2>4, <2>5, <2>6, <2>7, <2>8, <2>9, <2>10
       DEF Captures
<1>3. ASSUME NEW s \in Sessions, GivesUp(s) PROVE ContextHeld'
  <2>1. CASE Release(s)
    BY <2>1, StepOut DEF Release, Finished, TypeOK
  <2>2. CASE Restore(s)
    BY <2>2, StepInside DEF Restore, Locked, TypeOK
  <2>3. CASE Unload(s)
    BY <2>3, StepBeside DEF Unload, TypeOK
  <2>4. CASE Disconnect(s)
    BY <2>4, StepLocked DEF Disconnect, Finished, Locked, NoContext
  <2> QED
    BY <1>3, <2>1, <2>2, <2>3, <2>4 DEF GivesUp
<1>4. ASSUME NEW s \in Sessions, Start(s) PROVE ContextHeld'
  BY <1>4, StepInside DEF Start, ctxVars
<1>5. ASSUME NEW s \in Sessions, Stop(s) \/ Encoder(s) PROVE ContextHeld'
  BY <1>5, StepBeside DEF Stop, Encoder, Encode, EncodeEnds, ctxVars
<1>6. CASE NewQueue \/ UserPicks \/ ServerRestarts
  BY <1>6, StepBeside DEF NewQueue, UserPicks, ServerRestarts, ctxVars, TypeOK
<1>7. CASE Crash
  <2>1. Holders' = {} /\ \A t \in Sessions : pc'[t] \notin Locked
    BY <1>7 DEF Crash, Holders, Holding, Locked
  <2>2. Cardinality(Holders') = 0
    BY <2>1, FS_EmptySet
  <2> QED
    BY <1>7, <2>1, <2>2 DEF Crash, ContextHeld, NoContext
<1>8. CASE UNCHANGED vars
  BY <1>8, StepBeside DEF vars, ctxVars
<1>9. ASSUME NEW s \in Sessions, Hangs(s) PROVE ContextHeld'
  <2>1. \E l : /\ Goto(s, l)
               /\ \/ pc[s] \in Holding /\ l \in Holding
                  \/ pc[s] \in Locked /\ l \in Locked
    BY <1>9, HangsKeeps
  <2> QED
    BY <1>9, <2>1, HangsKeeps, StepInside
<1> QED
  BY <1>1, <1>2, <1>3, <1>4, <1>5, <1>6, <1>7, <1>8, <1>9 DEF Next, Thread, Outside

(* Any number of sessions is at most the number of all.                    *)
LEMMA SomeSessions ==
    ASSUME NEW H, H \subseteq Sessions
    PROVE  Cardinality(H) \in 0 .. Cardinality(Sessions)
<1>1. IsFiniteSet(H) /\ Cardinality(H) <= Cardinality(Sessions)
  BY AudioAssumption, FS_Subset
<1> QED
  BY <1>1, AudioAssumption, FS_CardinalityType

(* What a session may want to record is a sink, or none.                   *)
LEMMA SinksTyped ==
    ASSUME TypeOK
    PROVE  /\ \A k \in Layouts, h \in BOOLEAN : Selected(k, h) \in AnySink
           /\ Source \in AnySink
           /\ Before \in AnySink
BY DEF TypeOK, Contexts, Servers, Selected, Source, Before, AnySink, Own

(* Every step keeps the types.                                             *)
LEMMA TypeStep ==
    ASSUME TypeOK, IndexLoaded, ContextHeld, ContextHeld', [Next]_vars
    PROVE  TypeOK'
<1> USE AudioAssumption DEF Holding, Locked
<1>1. ctx'.count \in 0 .. Cardinality(Sessions)
  <2>1. Holders' \subseteq Sessions
    BY DEF Holders
  <2> QED
    BY <2>1, SomeSessions DEF ContextHeld
<1>2. ASSUME NEW s \in Sessions, Takes(s) PROVE TypeOK'
  <2> USE DEF TypeOK, Goto, NoContext, ctxVars, encVars, countVars, noteVars
  <2>1. CASE Ref(s)
    BY <1>1, <2>1 DEF Ref, Contexts
  <2>2. CASE Connect(s)
    <3>0. ctx' \in {[ctx EXCEPT !.control = TRUE, !.good = TRUE],
                     [ctx EXCEPT !.count = 1], ctx}
      BY <2>2 DEF Connect
    <3> HIDE DEF TypeOK, Goto, NoContext, ctxVars, encVars, countVars, noteVars
    <3>a. ctx \in Contexts /\ (ctx.restore => ctx.flag)
      BY DEF TypeOK
    <3>1. ctx' \in Contexts
      <4>1. CASE ctx' = [ctx EXCEPT !.control = TRUE, !.good = TRUE]
        BY <3>a, <4>1 DEF Contexts
      <4>2. CASE ctx' = [ctx EXCEPT !.count = 1]
        <5>1. 1 \in 0 .. Cardinality(Sessions)
          BY <1>1, <3>a, <4>2 DEF Contexts
        <5> QED
          BY <3>a, <4>2, <5>1 DEF Contexts
      <4> QED
        BY <3>0, <3>a, <4>1, <4>2
    <3>2. ctx'.restore => ctx'.flag
      BY <3>0, <3>a DEF Contexts
    <3> USE DEF TypeOK, Goto, NoContext, ctxVars, encVars, countVars, noteVars
    <3>3. /\ lock' \in Sessions \cup {None}
          /\ faults' \in 0 .. MaxFaults
          /\ pc' \in [Sessions -> {"idle", "ref"} \cup Holding \cup Locked]
      BY <2>2 DEF Connect
    <3> QED
      BY <2>2, <3>1, <3>2, <3>3 DEF Connect
  <2>3. CASE Info(s)
    <3> USE DEF Contexts, Servers
    <3>1. PICK i \in SUBSET Layouts :
             ctx' = [ctx EXCEPT !.index = i, !.host = pa.default]
      BY <2>3 DEF Info, Adopted
    <3>5. ctx' \in Contexts
      BY <3>1
    <3>2. ctx'.restore => ctx'.flag
      BY <2>3 DEF Info
    <3>3. left' \in [Layouts -> Nat]
      BY <2>3 DEF Info
    <3>4. origin' \in AnySink /\ touched' \in BOOLEAN /\ faults' \in 0 .. MaxFaults
      BY <2>3 DEF Info
    <3> QED
      BY <2>3, <3>2, <3>3, <3>4, <3>5 DEF Info
  <2>4. CASE InfoFails(s)
    BY <1>1, <2>4 DEF InfoFails, Contexts, AnySink
  <2>5. CASE LoadNull(s)
    <3>1. PICK tried \in SUBSET (Layouts \ ctx.index) :
             LET index == ctx.index \cup tried
             IN  /\ pa' = [pa EXCEPT !.loaded =
                              [n \in Layouts |->
                                  IF n \in tried THEN @[n] + 1 ELSE @[n]]]
                 /\ ctx' = [ctx EXCEPT !.index = index, !.count = 1,
                                       !.null = (index = Layouts)]
      BY <2>5 DEF LoadNull
    <3>2. pa' \in Servers
      BY <3>1 DEF Servers
    <3>3. ctx' \in Contexts /\ (ctx'.restore => ctx'.flag)
      BY <1>1, <3>1 DEF Contexts
    <3> QED
      BY <2>5, <3>2, <3>3 DEF LoadNull
  <2> QED
    BY <1>2, <2>1, <2>2, <2>3, <2>4, <2>5 DEF Takes
<1>3. ASSUME NEW s \in Sessions, Captures(s) PROVE TypeOK'
  <2> USE DEF TypeOK, Goto, ctxVars, encVars, countVars, noteVars
  <2>1. CASE NoControl(s)
    BY <2>1 DEF NoControl, Fails
  <2>2. CASE Select(s)
    <3>1. CASE ~ctx.flag
      <4>1. PICK layout \in Layouts, hostAudio \in BOOLEAN :
               LET k == Selected(layout, hostAudio)
                   differs == ctx.host # k
               IN  /\ ctx' = [ctx EXCEPT !.flag = TRUE, !.restore = differs]
                   /\ sink' = [sink EXCEPT ![s] = IF differs THEN k ELSE None]
                   /\ Goto(s, IF differs THEN "switch" ELSE "mic")
        BY <2>2, <3>1 DEF Select
      <4>2. Selected(layout, hostAudio) \in AnySink /\ None \in AnySink
        BY SinksTyped DEF AnySink
      <4> HIDE DEF Goto
      <4>3. sink' \in [Sessions -> AnySink]
        BY <4>1, <4>2
      <4>4. pc' \in [Sessions -> {"idle", "ref"} \cup Holding \cup Locked]
        BY <4>1 DEF Goto
      <4>5. ctx' \in Contexts /\ (ctx'.restore => ctx'.flag)
        BY <4>1 DEF Contexts
      <4> QED
        BY <2>2, <4>3, <4>4, <4>5 DEF Select
    <3>2. CASE ctx.flag
      BY <2>2, <3>2 DEF Select
    <3> QED
      BY <3>1, <3>2
  <2>3. CASE Switch(s)
    <3>1. pa' \in Servers
      BY <2>3 DEF Switch, Servers
    <3>2. ctx' \in Contexts /\ (ctx'.restore => ctx'.flag)
      BY <2>3 DEF Switch, Contexts
    <3> QED
      BY <2>3, <3>1, <3>2 DEF Switch, Fails, AnySink
  <2>4. CASE OpenMic(s)
    <3>1. mic' \in [Sessions -> AnySink]
      BY <2>4, SinksTyped DEF OpenMic
    <3>2. pc' \in [Sessions -> {"idle", "ref"} \cup Holding \cup Locked]
      BY <2>4 DEF OpenMic, Fails
    <3>3. [len |-> 0, on |-> TRUE] \in Queues
      BY DEF Queues
    <3>4. samples' \in [Sessions -> Queues]
      <4>1. samples' = samples \/ samples' = [samples EXCEPT ![s] =
                                                  [len |-> 0, on |-> TRUE]]
        BY <2>4 DEF OpenMic
      <4>2. samples \in [Sessions -> Queues]
        OBVIOUS
      <4> HIDE DEF TypeOK
      <4> QED
        BY <3>3, <4>1, <4>2
    <3>5. early' \subseteq Sessions /\ enc' \in [Sessions -> {"none", "runs", "ended"}]
      BY <2>4 DEF OpenMic
    <3> QED
      BY <2>4, <3>1, <3>2, <3>4, <3>5 DEF OpenMic
  <2>5. CASE Sample(s)
    <3>1. Raised(samples[s]) \in Queues
      <4>1. samples[s] \in Queues
        OBVIOUS
      <4> HIDE DEF TypeOK
      <4> QED
        BY <4>1 DEF Raised, Queues
    <3> QED
      BY <2>5, <3>1 DEF Sample, AnySink
  <2>6. CASE ShutdownSeen(s)
    BY <2>6 DEF ShutdownSeen
  <2>7. CASE Remic(s)
    BY <2>7, SinksTyped DEF Remic
  <2>8. CASE StopSamples(s)
    <3>1. [samples[s] EXCEPT !.on = FALSE] \in Queues
      <4>1. samples[s] \in Queues
        OBVIOUS
      <4> HIDE DEF TypeOK
      <4> QED
        BY <4>1 DEF Queues
    <3> QED
      BY <2>8, <3>1 DEF StopSamples
  <2>9. CASE Join(s)
    <3>1. [len |-> 0, on |-> FALSE] \in Queues
      BY DEF Queues
    <3> QED
      BY <2>9, <3>1 DEF Join
  <2>10. CASE Wait(s)
    BY <2>10 DEF Wait, AnySink
  <2> QED
    BY <1>3, <2>1, <2>2, <2>3, <2>4, <2>5, <2>6, <2>7, <2>8, <2>9, <2>10
       DEF Captures
<1>4. ASSUME NEW s \in Sessions, GivesUp(s) PROVE TypeOK'
  <2> USE DEF TypeOK, Goto, ctxVars, encVars, countVars, noteVars
  <2>1. CASE Release(s)
    <3>1. ctx \in Contexts /\ (ctx.restore => ctx.flag)
      OBVIOUS
    <3>2. ctx' = [ctx EXCEPT !.count = @ - 1]
      BY <2>1 DEF Release
    <3>3. ctx' \in Contexts /\ (ctx'.restore => ctx'.flag)
      <4> HIDE DEF TypeOK, Goto, ctxVars, encVars, countVars, noteVars
      <4> DEFINE n == ctx'.count
      <4>1. ctx' = [ctx EXCEPT !.count = n] /\ n \in 0 .. Cardinality(Sessions)
        BY <1>1, <3>1, <3>2 DEF Contexts
      <4> HIDE DEF n
      <4> QED
        BY <3>1, <4>1 DEF Contexts
    <3>4. lock' \in Sessions \cup {None} /\ shutdown' \in [Sessions -> BOOLEAN]
      BY <2>1 DEF Release, Finished
    <3>5. pc' \in [Sessions -> {"idle", "ref"} \cup Holding \cup Locked]
      BY <2>1 DEF Release, Finished
    <3> QED
      BY <2>1, <3>3, <3>4, <3>5 DEF Release
  <2>2. CASE Restore(s)
    <3>1. pa' \in Servers
      BY <2>2, SinksTyped DEF Restore, Servers
    <3>2. ctx' \in Contexts /\ (ctx'.restore => ctx'.flag)
      BY <2>2, SinksTyped DEF Restore, Contexts
    <3> QED
      BY <2>2, <3>1, <3>2 DEF Restore
  <2>3. CASE Unload(s)
    <3>1. PICK n \in ctx.index :
             /\ ctx' = [ctx EXCEPT !.index = @ \ {n}]
             /\ \/ /\ \E d \in Sinks \cup {None} :
                         pa' = [default |-> IF pa.default = n /\ pa.loaded[n] = 1
                                            THEN d ELSE pa.default,
                                loaded |-> [pa.loaded EXCEPT ![n] = @ - 1]]
                   /\ UNCHANGED <<left, faults>>
                \/ /\ faults < MaxFaults
                   /\ faults' = faults + 1
                   /\ left' = [left EXCEPT ![n] = @ + 1]
                   /\ UNCHANGED pa
      BY <2>3 DEF Unload
    <3>2. pa.loaded[n] > 0 /\ n \in Layouts
      BY <2>3 DEF Unload, IndexLoaded, Contexts
    <3>3. pa' \in Servers
      BY <3>1, <3>2 DEF AnySink, Own, Servers
    <3>4. left' \in [Layouts -> Nat]
      BY <3>1, <3>2
    <3>5. ctx' \in Contexts /\ (ctx'.restore => ctx'.flag)
      BY <1>1, <3>1 DEF Contexts
    <3> QED
      BY <2>3, <3>3, <3>4, <3>5 DEF Unload
  <2>4. CASE Disconnect(s)
    <3>1. NoContext \in Contexts /\ ~NoContext.restore
      BY <1>1, <2>4 DEF Disconnect, NoContext, Contexts, AnySink
    <3> QED
      BY <2>4, <3>1 DEF Disconnect, Finished
  <2> QED
    BY <1>4, <2>1, <2>2, <2>3, <2>4 DEF GivesUp
<1>5. ASSUME NEW s \in Sessions, Start(s) \/ Stop(s) \/ Encoder(s)
      PROVE  TypeOK'
  <2> USE DEF TypeOK, Goto, ctxVars, encVars, countVars, noteVars
  <2>1. CASE Start(s)
    BY <2>1 DEF Start
  <2>2. CASE Stop(s)
    BY <2>2 DEF Stop
  <2>3. CASE Encode(s)
    <3>1. [samples[s] EXCEPT !.len = @ - 1] \in Queues
      BY <2>3 DEF Encode, Queues
    <3>2. samples' \in [Sessions -> Queues]
      BY <2>3, <3>1 DEF Encode
    <3> QED
      BY <2>3, <3>2 DEF Encode
  <2>4. CASE EncodeEnds(s)
    BY <2>4 DEF EncodeEnds
  <2> QED
    BY <1>5, <2>1, <2>2, <2>3, <2>4 DEF Encoder
<1>6. CASE Outside
  <2> USE DEF TypeOK, ctxVars, encVars, countVars, noteVars, Fault
  <2>1. CASE NewQueue
    BY <2>1 DEF NewQueue
  <2>2. CASE UserPicks
    BY <2>2 DEF UserPicks, Servers, AnySink, Own
  <2>3. CASE ServerRestarts
    <3>1. pa' \in Servers
      BY <2>3 DEF ServerRestarts, AnySink, Own, Servers
    <3>2. ctx' \in Contexts /\ (ctx'.restore => ctx'.flag)
      BY <2>3 DEF ServerRestarts, Contexts
    <3>3. left' \in [Layouts -> Nat]
      BY <2>3 DEF ServerRestarts
    <3> QED
      BY <2>3, <3>1, <3>2, <3>3 DEF ServerRestarts
  <2>4. CASE Crash
    <3>1. NoContext \in Contexts /\ ~NoContext.restore
      BY <1>1, <2>4 DEF Crash, NoContext, Contexts, AnySink
    <3>2. [len |-> 0, on |-> FALSE] \in Queues /\ pa.loaded \in [Layouts -> Nat]
      BY DEF Queues, Servers
    <3> HIDE DEF NoContext
    <3> QED
      BY <2>4, <3>1, <3>2 DEF Crash, AnySink
  <2> QED
    BY <1>6, <2>1, <2>2, <2>3, <2>4 DEF Outside
<1>7. CASE UNCHANGED vars
  BY <1>7 DEF vars, TypeOK, ctxVars, encVars, countVars, noteVars
<1>8. ASSUME NEW s \in Sessions, Hangs(s) PROVE TypeOK'
  BY <1>8, HangsKeeps DEF TypeOK, Goto
<1> QED
  BY <1>2, <1>3, <1>4, <1>5, <1>6, <1>7, <1>8 DEF Next, Thread

-----------------------------------------------------------------------------
(* What the context holds at each stage                                    *)

(* A thread whose step leaves the context alone and does not lead to where *)
(* something is known of it keeps what is known.                           *)
LEMMA StagesStay ==
    ASSUME NEW s \in Sessions, NEW l, TypeOK, Stages, ctx' = ctx,
           lock' = lock \/ lock' # None, pc' = pc \/ Goto(s, l),
           l \notin {"connect", "info", "load", "switch"}
    PROVE  Stages'
<1>1. Idle' => Idle
  BY DEF Idle
<1>2. ASSUME NEW t \in Sessions,
             pc'[t] \in {"connect", "info", "load", "switch"}
      PROVE  pc'[t] = pc[t]
  BY <1>2 DEF Goto, TypeOK
<1> QED
  BY <1>1, <1>2 DEF Stages

(* Every step keeps what is known of the context.                          *)
LEMMA StagesStep ==
    ASSUME TypeOK, ContextHeld, ContextHeld', Stages, [Next]_vars
    PROVE  Stages'
<1> USE AudioAssumption DEF TypeOK, Contexts
<1>1. ASSUME NEW s \in Sessions, Takes(s) PROVE Stages'
  <2>1. CASE Ref(s)
    <3>1. CASE ctx.count = 0
      BY <2>1, <3>1 DEF Ref, Stages, Idle, Goto
    <3>2. CASE ctx.count # 0
      BY <2>1, <3>2 DEF Ref, Stages, Idle, Goto, ContextHeld, Locked, NoContext
    <3> QED
      BY <3>1, <3>2
  <2> HIDE DEF TypeOK
  <2>2. ASSUME pc[s] \in Locked
        PROVE  /\ ctx.count = 0
               /\ lock = s
               /\ \A t \in Sessions : t # s =>
                     pc[t] \notin {"connect", "info", "load", "switch"}
    BY <2>2, LockedAlone DEF Locked, Holding, Holders
  <2> USE DEF TypeOK
  <2>3. CASE Connect(s)
    <3>1. ctx = NoContext /\ pc[s] \in Locked
      BY <2>3 DEF Connect, Stages, Locked
    <3>2. CASE Goto(s, "info") /\ ctx' = [ctx EXCEPT !.control = TRUE, !.good = TRUE]
      BY <2>2, <2>3, <3>1, <3>2 DEF Connect, Stages, Idle, Goto, NoContext
    <3>3. CASE Goto(s, "select") /\ ctx' = [ctx EXCEPT !.count = 1]
      BY <2>2, <2>3, <3>1, <3>3 DEF Connect, Stages, Idle, Goto, NoContext
    <3>4. CASE Goto(s, "hung") /\ ctx' = ctx /\ lock' = lock
      BY <2>3, <3>4, StagesStay
    <3> QED
      BY <2>3, <3>2, <3>3, <3>4 DEF Connect
  <2>4. CASE Info(s)
    <3>1. ctx.control /\ ~ctx.flag /\ ctx.requested = None /\ pc[s] \in Locked
      BY <2>4 DEF Info, Stages, Locked
    <3>2. /\ ctx'.control /\ ~ctx'.flag /\ ctx'.requested = None
          /\ ~ctx'.restore /\ lock' = lock /\ Goto(s, "load")
      BY <2>4, <3>1 DEF Info
    <3> QED
      BY <2>2, <3>1, <3>2 DEF Stages, Idle, Goto
  <2>5. CASE InfoFails(s)
    <3>1. pc[s] \in Locked
      BY <2>5 DEF InfoFails, Locked
    <3> QED
      BY <2>2, <2>5, <3>1 DEF InfoFails, Stages, Idle, Goto, NoContext
  <2>6. CASE LoadNull(s)
    <3>1. ctx.control /\ pc[s] \in Locked
      BY <2>6 DEF LoadNull, Stages, Locked
    <3>2. /\ ctx'.control /\ ctx'.count = 1 /\ lock' = None /\ Goto(s, "select")
      BY <2>6, <3>1 DEF LoadNull
    <3> QED
      BY <2>2, <3>1, <3>2 DEF Stages, Idle, Goto
  <2> QED
    BY <1>1, <2>1, <2>3, <2>4, <2>5, <2>6 DEF Takes
<1>2. ASSUME NEW s \in Sessions, Captures(s) PROVE Stages'
  <2> USE DEF ctxVars
  <2>1. CASE NoControl(s)
    BY <2>1, StagesStay DEF NoControl, Fails
  <2>2. CASE Select(s)
    <3>1. CASE ctx.flag
      BY <2>2, <3>1, StagesStay DEF Select
    <3>2. CASE ~ctx.flag
      <4>1. s \in Holders /\ ctx.count # 0
        BY <2>2, HoldersFinite DEF Select, Holders, Holding, ContextHeld
      <4>2. lock = None
        BY <4>1 DEF ContextHeld
      <4>3. PICK d \in BOOLEAN :
               /\ ctx' = [ctx EXCEPT !.flag = TRUE, !.restore = d]
               /\ Goto(s, IF d THEN "switch" ELSE "mic")
        BY <2>2, <3>2 DEF Select
      <4>4. \A t \in Sessions : pc[t] \notin {"connect", "info", "load", "switch"}
        BY <3>2, <4>2 DEF ContextHeld, Locked, Stages
      <4>5. ctx.control /\ lock' = lock
        BY <2>2 DEF Select
      <4> QED
        BY <4>1, <4>3, <4>4, <4>5 DEF Stages, Idle, Goto
    <3> QED
      BY <3>1, <3>2
  <2>3. CASE Switch(s)
    <3>1. s \in Holders /\ ctx.count # 0
      BY <2>3, HoldersFinite DEF Switch, Holders, Holding, ContextHeld
    <3>2. lock = None /\ lock' = None
      BY <2>3, <3>1 DEF ContextHeld, Switch
    <3>3. \A t \in Sessions : pc'[t] \notin {"connect", "info", "load"}
      BY <3>2 DEF ContextHeld, Locked
    <3>4. PICK l \in {"mic", "wait"} : Goto(s, l)
      BY <2>3 DEF Switch, Fails
    <3>5. PICK r \in AnySink : ctx' = [ctx EXCEPT !.requested = r]
      BY <2>3 DEF Switch
    <3> QED
      BY <3>1, <3>2, <3>3, <3>4, <3>5 DEF Stages, Idle, Goto
  <2>4. CASE OpenMic(s)
    BY <2>4, StagesStay DEF OpenMic, Fails
  <2>5. CASE Sample(s)
    <3>1. PICK l \in {"remic", "stop", "sample"} : Goto(s, l)
      BY <2>5 DEF Sample
    <3> QED
      BY <2>5, <3>1, StagesStay DEF Sample
  <2>6. CASE ShutdownSeen(s)
    BY <2>6, StagesStay DEF ShutdownSeen
  <2>7. CASE Remic(s)
    BY <2>7, StagesStay DEF Remic
  <2>8. CASE StopSamples(s)
    BY <2>8, StagesStay DEF StopSamples
  <2>9. CASE Join(s)
    BY <2>9, StagesStay DEF Join
  <2>10. CASE Wait(s)
    BY <2>10, StagesStay DEF Wait
  <2> QED
    BY <1>2, <2>1, <2>2, <2>3, <2>4, <2>5, <2>6, <2>7, <2>8, <2>9, <2>10
       DEF Captures
<1>3. ASSUME NEW s \in Sessions, GivesUp(s) PROVE Stages'
  <2>1. CASE Release(s)
    <3>1. /\ ctx' = [ctx EXCEPT !.count = @ - 1] /\ lock = None
          /\ ctx.count = 1 => lock' = s
      BY <2>1 DEF Release
    <3>2. s \in Holders /\ ctx.count # 0
      BY <2>1, HoldersFinite DEF Release, Holders, Holding, ContextHeld
    <3>3. \A t \in Sessions : pc[t] \notin {"connect", "info", "load"}
      BY <3>1 DEF ContextHeld, Locked
    <3>4. PICK l \in {"restore", "idle"} : Goto(s, l)
      BY <2>1 DEF Release, Finished
    <3>5. ~Idle'
      BY <3>1, <3>2 DEF Idle
    <3> QED
      BY <3>1, <3>3, <3>4, <3>5 DEF Stages, Goto
  <2>2. CASE Restore(s)
    <3>1. lock = s /\ Holders = {} /\ \A t \in Sessions : pc[t] \in Locked => t = s
      BY <2>2, LockedAlone DEF Restore, Locked
    <3>2. PICK r : ctx' = [ctx EXCEPT !.requested = r]
      BY <2>2 DEF Restore
    <3>3. \A t \in Sessions : pc'[t] \notin {"connect", "info", "load", "switch"}
      BY <2>2, <3>1 DEF Restore, Goto, Locked, Holders, Holding
    <3>4. lock' = s
      BY <2>2, <3>1 DEF Restore
    <3> QED
      BY <3>1, <3>2, <3>3, <3>4 DEF Stages, Idle
  <2>3. CASE Unload(s)
    <3>1. lock = s /\ Holders = {} /\ \A t \in Sessions : pc[t] \in Locked => t = s
      BY <2>3, LockedAlone DEF Unload, Locked
    <3>2. PICK i : ctx' = [ctx EXCEPT !.index = i]
      BY <2>3 DEF Unload
    <3>3. \A t \in Sessions : pc'[t] \notin {"connect", "info", "load", "switch"}
      BY <2>3, <3>1 DEF Unload, Locked, Holders, Holding
    <3>4. lock' = s
      BY <2>3, <3>1 DEF Unload
    <3> QED
      BY <3>1, <3>2, <3>3, <3>4 DEF Stages, Idle
  <2>4. CASE Disconnect(s)
    <3>1. Holders = {} /\ \A t \in Sessions : pc[t] \in Locked => t = s
      BY <2>4, LockedAlone DEF Disconnect, Locked
    <3>2. \A t \in Sessions : pc'[t] \notin {"connect", "info", "load", "switch"}
      BY <2>4, <3>1 DEF Disconnect, Finished, Goto, Locked, Holders, Holding
    <3> QED
      BY <2>4, <3>2 DEF Disconnect, Stages, NoContext
  <2> QED
    BY <1>3, <2>1, <2>2, <2>3, <2>4 DEF GivesUp
<1>4. ASSUME NEW s \in Sessions, Start(s) \/ Stop(s) \/ Encoder(s)
      PROVE  Stages'
  BY <1>4, StagesStay DEF Start, Stop, Encoder, Encode, EncodeEnds, ctxVars
<1>5. CASE ServerRestarts
  <2>1. ctx' = [ctx EXCEPT !.good = FALSE] /\ pc' = pc /\ lock' = lock
    BY <1>5 DEF ServerRestarts
  <2>2. ctx = NoContext => ctx' = NoContext
    <3>1. ctx = NoContext => ~ctx.good
      BY DEF NoContext
    <3>2. ~ctx.good => [ctx EXCEPT !.good = FALSE] = ctx
      OBVIOUS
    <3> QED
      BY <2>1, <3>1, <3>2
  <2> QED
    BY <2>1, <2>2 DEF Stages, Idle
<1>6. CASE Crash
  BY <1>6 DEF Crash, Stages, NoContext
<1>7. CASE NewQueue \/ UserPicks \/ UNCHANGED vars
  <2>1. ctx' = ctx /\ pc' = pc /\ lock' = lock
    BY <1>7 DEF NewQueue, UserPicks, vars, ctxVars
  <2> QED
    BY <2>1 DEF Stages, Idle
<1>8. ASSUME NEW s \in Sessions, Hangs(s) PROVE Stages'
  <2>1. PICK l \in {"deaf", "hung"} : Goto(s, l)
    BY <1>8, HangsKeeps
  <2> QED
    BY <1>8, <2>1, HangsKeeps, StagesStay
<1> QED
  BY <1>1, <1>2, <1>3, <1>4, <1>5, <1>6, <1>7, <1>8 DEF Next, Thread, Outside

-----------------------------------------------------------------------------
(* The null sinks                                                          *)

(* What does not touch the null sinks keeps both facts about them.         *)
LEMMA NullsStay ==
    ASSUME IndexLoaded, Counted, ctx'.index = ctx.index,
           ctx'.good = ctx.good \/ ~ctx'.good,
           pa'.loaded = pa.loaded, left' = left
    PROVE  IndexLoaded' /\ Counted'
BY DEF IndexLoaded, Counted

(* Every step keeps what is known of the null sinks.                       *)
LEMMA NullsStep ==
    ASSUME TypeOK, ContextHeld, Stages, IndexLoaded, Counted, [Next]_vars
    PROVE  IndexLoaded' /\ Counted'
<1> USE DEF TypeOK, Contexts, Servers, ctxVars, noteVars
<1>1. ASSUME NEW s \in Sessions, Takes(s) PROVE IndexLoaded' /\ Counted'
  <2>1. CASE Ref(s)
    BY <2>1, NullsStay DEF Ref
  <2>2. CASE Connect(s)
    <3>1. ctx.index = {}
      BY <2>2 DEF Connect, Stages, NoContext
    <3>2. ctx'.index = {} /\ pa' = pa /\ left' = left
      BY <2>2, <3>1 DEF Connect
    <3> QED
      BY <3>1, <3>2 DEF IndexLoaded, Counted
  <2>3. CASE Info(s)
    <3>1. ctx.index = {} /\ pa' = pa
      BY <2>3 DEF Info, Stages
    <3>2. CASE ctx'.index = {} /\ left' = left
      BY <3>1, <3>2 DEF IndexLoaded, Counted
    <3>3. CASE /\ ctx'.index = Adopted
               /\ left' = [n \in Layouts |->
                             IF pa.loaded[n] > 0 THEN pa.loaded[n] - 1 ELSE 0]
      <4>1. /\ \A n \in Layouts : n \in ctx'.index <=> pa.loaded[n] > 0
            /\ ctx'.index \subseteq Layouts
        BY <3>3 DEF Adopted
      <4>2. \A n \in Layouts :
               pa.loaded[n] <= left'[n] + (IF pa.loaded[n] > 0 THEN 1 ELSE 0)
        BY <3>3
      <4> QED
        BY <3>1, <4>1, <4>2 DEF IndexLoaded, Counted
    <3> QED
      BY <2>3, <3>2, <3>3 DEF Info
  <2>4. CASE InfoFails(s)
    <3>1. ctx.index = {}
      BY <2>4 DEF InfoFails, Stages
    <3>2. ctx'.index = {} /\ pa' = pa /\ left' = left
      BY <2>4, <3>1 DEF InfoFails, NoContext
    <3> QED
      BY <3>1, <3>2 DEF IndexLoaded, Counted
  <2>5. CASE LoadNull(s)
    <3>1. PICK tried \in SUBSET (Layouts \ ctx.index) :
             LET index == ctx.index \cup tried
             IN  /\ pa' = [pa EXCEPT !.loaded =
                              [n \in Layouts |->
                                  IF n \in tried THEN @[n] + 1 ELSE @[n]]]
                 /\ ctx' = [ctx EXCEPT !.index = index, !.count = 1,
                                       !.null = (index = Layouts)]
      BY <2>5 DEF LoadNull
    <3>2. /\ ctx'.index = ctx.index \cup tried
          /\ ctx'.good = ctx.good
          /\ left' = left
          /\ \A n \in Layouts : pa'.loaded[n] =
                IF n \in tried THEN pa.loaded[n] + 1 ELSE pa.loaded[n]
      BY <2>5, <3>1 DEF LoadNull
    <3>3. IndexLoaded'
      <4>1. \A n \in Layouts : pa.loaded[n] \in Nat
        BY DEF TypeOK, Servers
      <4>2. ctx.index \subseteq Layouts
        BY DEF TypeOK, Contexts
      <4> HIDE DEF TypeOK
      <4> QED
        BY <3>2, <4>1, <4>2 DEF IndexLoaded
    <3>4. Counted'
      <4>1. \A n \in Layouts : pa.loaded[n] \in Nat /\ left[n] \in Nat
        BY DEF TypeOK, Servers
      <4>2. ASSUME NEW n \in Layouts
            PROVE  pa'.loaded[n] <= left'[n] + (IF n \in ctx'.index THEN 1 ELSE 0)
        <5> HIDE DEF TypeOK
        <5>1. pa.loaded[n] <= left[n] + (IF n \in ctx.index THEN 1 ELSE 0)
          BY DEF Counted
        <5>2. n \in tried => n \notin ctx.index
          BY <3>1
        <5>3. CASE n \in tried
          BY <3>2, <4>1, <5>1, <5>2, <5>3
        <5>4. CASE n \notin tried
          BY <3>2, <4>1, <5>1, <5>4
        <5> QED
          BY <5>3, <5>4
      <4> QED
        BY <4>2 DEF Counted
    <3> HIDE DEF TypeOK
    <3> QED
      BY <3>3, <3>4
  <2> USE DEF TypeOK
  <2> QED
    BY <1>1, <2>1, <2>2, <2>3, <2>4, <2>5 DEF Takes
<1>2. ASSUME NEW s \in Sessions, Captures(s) PROVE IndexLoaded' /\ Counted'
  <2>1. CASE Select(s)
    BY <2>1, NullsStay DEF Select
  <2>2. CASE Switch(s)
    BY <2>2, NullsStay DEF Switch
  <2>3. CASE ~Select(s) /\ ~Switch(s)
    BY <1>2, <2>3, NullsStay DEF Captures, NoControl, OpenMic, Sample,
                                 ShutdownSeen, Remic, StopSamples, Join, Wait
  <2> QED
    BY <2>1, <2>2, <2>3
<1>3. ASSUME NEW s \in Sessions, GivesUp(s) PROVE IndexLoaded' /\ Counted'
  <2>1. CASE Release(s)
    BY <2>1, NullsStay DEF Release
  <2>2. CASE Restore(s)
    BY <2>2, NullsStay DEF Restore
  <2>3. CASE Unload(s)
    <3>1. PICK n \in ctx.index :
             /\ ctx' = [ctx EXCEPT !.index = @ \ {n}]
             /\ \/ /\ \E d \in Sinks \cup {None} :
                         pa' = [default |-> IF pa.default = n /\ pa.loaded[n] = 1
                                            THEN d ELSE pa.default,
                                loaded |-> [pa.loaded EXCEPT ![n] = @ - 1]]
                   /\ UNCHANGED <<left, faults>>
                \/ /\ faults < MaxFaults
                   /\ faults' = faults + 1
                   /\ left' = [left EXCEPT ![n] = @ + 1]
                   /\ UNCHANGED pa
      BY <2>3 DEF Unload
    <3>2. ctx'.index = ctx.index \ {n} /\ ctx'.good = ctx.good /\ n \in Layouts
      BY <3>1
    <3>3. CASE pa'.loaded = [pa.loaded EXCEPT ![n] = @ - 1] /\ left' = left
      BY <3>2, <3>3 DEF IndexLoaded, Counted
    <3>4. CASE pa' = pa /\ left' = [left EXCEPT ![n] = @ + 1]
      BY <3>2, <3>4 DEF IndexLoaded, Counted
    <3> QED
      BY <3>1, <3>3, <3>4
  <2>4. CASE Disconnect(s)
    BY <2>4, NullsStay DEF Disconnect, NoContext
  <2> QED
    BY <1>3, <2>1, <2>2, <2>3, <2>4 DEF GivesUp
<1>4. ASSUME NEW s \in Sessions, Start(s) \/ Stop(s) \/ Encoder(s)
      PROVE  IndexLoaded' /\ Counted'
  BY <1>4, NullsStay DEF Start, Stop, Encoder, Encode, EncodeEnds
<1>5. CASE ServerRestarts
  <2>1. /\ ~ctx'.good /\ ctx'.index = ctx.index
        /\ \A n \in Layouts : pa'.loaded[n] = 0 /\ left'[n] = 0
    BY <1>5 DEF ServerRestarts
  <2> QED
    BY <2>1 DEF IndexLoaded, Counted
<1>6. CASE Crash
  <2>1. /\ ~ctx'.good /\ ctx'.index = {} /\ left' = pa.loaded /\ pa' = pa
    BY <1>6 DEF Crash, NoContext
  <2> QED
    BY <2>1 DEF IndexLoaded, Counted
<1>7. CASE NewQueue \/ UserPicks \/ UNCHANGED vars
  BY <1>7, NullsStay DEF NewQueue, UserPicks, vars
<1>8. ASSUME NEW s \in Sessions, Hangs(s) PROVE IndexLoaded' /\ Counted'
  BY <1>8, HangsKeeps, NullsStay
<1> QED
  BY <1>1, <1>2, <1>3, <1>4, <1>5, <1>6, <1>7, <1>8 DEF Next, Thread, Outside

-----------------------------------------------------------------------------
(* The default sink                                                        *)

(* What touches neither the default sink nor what is known of it, and      *)
(* leaves somebody to restore it, keeps the fact about it.                 *)
LEMMA OriginStay ==
    ASSUME Origin, touched' = touched, origin' = origin,
           pa'.default = pa.default, ctx'.control = ctx.control,
           ctx'.host = ctx.host, ctx'.good = ctx.good, Changed => Changed',
           (\A t \in Sessions : pc'[t] # "info")
               => \A t \in Sessions : pc[t] # "info"
    PROVE  Origin'
BY DEF Origin

(* A thread that goes on holding leaves somebody to restore it.            *)
LEMMA OriginInside ==
    ASSUME NEW s \in Sessions, NEW l \in Holding, TypeOK, Origin,
           pc[s] \in Holding, Goto(s, l), touched' = touched,
           origin' = origin, pa'.default = pa.default,
           ctx'.control = ctx.control, ctx'.host = ctx.host,
           ctx'.good = ctx.good, ctx.restore => ctx'.restore
    PROVE  Origin'
<1> USE DEF TypeOK, Goto, Holding
<1>1. Holders' # {}
  BY DEF Holders
<1>2. Changed => Changed'
  BY <1>1 DEF Changed
<1>3. (\A t \in Sessions : pc'[t] # "info")
          => \A t \in Sessions : pc[t] # "info"
  OBVIOUS
<1> QED
  BY <1>2, <1>3, OriginStay

(* Every step keeps the fact.                                              *)
LEMMA OriginStep ==
    ASSUME TypeOK, ContextHeld, ContextHeld', Stages, Origin, [Next]_vars
    PROVE  Origin'
<1> USE AudioAssumption DEF TypeOK, Contexts, Servers, ctxVars, noteVars
<1>1. ASSUME NEW s \in Sessions, Takes(s) PROVE Origin'
  <2>1. CASE Ref(s)
    <3>1. CASE ctx.count = 0
      <4>1. ~Changed
        BY <2>1, <3>1 DEF Ref, Stages, Idle, NoContext, Changed
      <4> QED
        BY <2>1, <3>1, <4>1, OriginStay DEF Ref, Goto
    <3>2. CASE ctx.count # 0
      <4>1. s \in Holders'
        BY <2>1, <3>2 DEF Ref, Goto, Holders, Holding
      <4>2. Changed => Changed'
        BY <2>1, <3>2, <4>1 DEF Ref, Changed
      <4> QED
        BY <2>1, <3>2, <4>2, OriginStay DEF Ref, Goto
    <3> QED
      BY <3>1, <3>2
  <2> HIDE DEF TypeOK
  <2>2. ASSUME pc[s] \in Locked
        PROVE  \A t \in Sessions : t # s => pc[t] # "info"
    BY <2>2, LockedAlone DEF Locked
  <2> USE DEF TypeOK
  <2>3. CASE Connect(s)
    <3>1. ctx = NoContext /\ pc[s] = "connect"
      BY <2>3 DEF Connect, Stages
    <3>2. ~touched => pa.default = origin
      BY <3>1 DEF NoContext, Changed, Origin
    <3>3. CASE Goto(s, "info")
      BY <2>3, <3>1, <3>2, <3>3 DEF Connect, Origin, Goto
    <3>4. CASE ctx'.control = FALSE
      BY <2>3, <3>2, <3>4 DEF Connect, Origin
    <3> QED
      BY <2>3, <3>1, <3>3, <3>4 DEF Connect, NoContext
  <2>4. CASE Info(s)
    <3>1. /\ ctx'.host = pa.default /\ origin' = pa.default /\ pa' = pa
          /\ ctx'.good
          /\ touched' = (pa.default \notin Sinks)
      BY <2>4 DEF Info
    <3> QED
      BY <3>1 DEF Origin
  <2>5. CASE InfoFails(s)
    <3>1. ~Changed
      BY <2>5 DEF InfoFails, Stages, Changed
    <3>2. ~ctx'.control
      BY <2>5 DEF InfoFails, NoContext
    <3> QED
      BY <2>5, <3>1, <3>2 DEF InfoFails, Origin
  <2>6. CASE LoadNull(s)
    <3>1. ~Changed /\ pc[s] \in Locked /\ pc[s] # "info"
      BY <2>6 DEF LoadNull, Stages, Changed, Locked
    <3>2. \A t \in Sessions : pc[t] # "info"
      BY <2>2, <3>1
    <3>3. /\ ctx'.control = ctx.control /\ ctx'.host = ctx.host
          /\ ctx'.good = ctx.good /\ pa'.default = pa.default
          /\ touched' = touched /\ origin' = origin
      BY <2>6 DEF LoadNull
    <3> QED
      BY <3>1, <3>2, <3>3, OriginStay
  <2> QED
    BY <1>1, <2>1, <2>3, <2>4, <2>5, <2>6 DEF Takes
<1>2. ASSUME NEW s \in Sessions, Captures(s) PROVE Origin'
  <2> USE DEF Holding
  <2>1. CASE NoControl(s)
    BY <2>1, OriginInside DEF NoControl, Fails
  <2>2. CASE Select(s)
    <3>1. PICK l \in {"switch", "mic"} : Goto(s, l)
      BY <2>2 DEF Select
    <3>2. /\ pc[s] = "select" /\ ctx'.control = ctx.control
          /\ ctx'.host = ctx.host /\ ctx'.good = ctx.good
          /\ ctx.restore => ctx'.restore
          /\ touched' = touched /\ origin' = origin /\ pa' = pa
      BY <2>2 DEF Select
    <3> QED
      BY <3>1, <3>2, OriginInside
  <2>3. CASE Switch(s)
    <3>1. ctx.control /\ ctx.restore
      BY <2>3 DEF Switch, Stages
    <3>2. s \in Holders /\ s \in Holders'
      BY <2>3 DEF Switch, Fails, Goto, Holders
    <3>3. lock = None
      BY <3>2 DEF ContextHeld
    <3>4. \A t \in Sessions : pc[t] # "info"
      BY <3>3 DEF ContextHeld, Locked
    <3>5. ~touched => ctx.host = origin /\ origin \in Sinks /\ ctx.good
      BY <3>1, <3>4 DEF Origin
    <3>6. /\ ctx'.restore /\ ctx'.host = ctx.host
          /\ ctx'.control = ctx.control /\ ctx'.good = ctx.good
          /\ touched' = touched /\ origin' = origin
      <4>1. ctx' = ctx \/ ctx' = [ctx EXCEPT !.requested = sink[s]]
        BY <2>3 DEF Switch
      <4>2. touched' = touched /\ origin' = origin
        BY <2>3 DEF Switch
      <4>3. \A k : LET c == [ctx EXCEPT !.requested = k]
                   IN  /\ c.restore = ctx.restore /\ c.host = ctx.host
                       /\ c.control = ctx.control /\ c.good = ctx.good
        OBVIOUS
      <4>4. /\ ctx'.restore = ctx.restore /\ ctx'.host = ctx.host
            /\ ctx'.control = ctx.control /\ ctx'.good = ctx.good
        <5> HIDE DEF TypeOK
        <5> QED
          BY <4>1, <4>3, Zenon
      <4> QED
        BY <3>1, <4>2, <4>4, Zenon
    <3>7. Changed'
      BY <3>2, <3>6 DEF Changed
    <3> QED
      BY <3>5, <3>6, <3>7 DEF Origin
  <2>4. CASE OpenMic(s)
    BY <2>4, OriginInside DEF OpenMic, Fails
  <2>5. CASE Sample(s)
    <3>1. PICK l \in {"remic", "stop", "sample"} : Goto(s, l)
      BY <2>5 DEF Sample
    <3> QED
      BY <2>5, <3>1, OriginInside DEF Sample
  <2>6. CASE ShutdownSeen(s)
    BY <2>6, OriginInside DEF ShutdownSeen
  <2>7. CASE Remic(s)
    BY <2>7, OriginInside DEF Remic
  <2>8. CASE StopSamples(s)
    BY <2>8, OriginInside DEF StopSamples
  <2>9. CASE Join(s)
    BY <2>9, OriginInside DEF Join
  <2>10. CASE Wait(s)
    BY <2>10, OriginInside DEF Wait
  <2> QED
    BY <1>2, <2>1, <2>2, <2>3, <2>4, <2>5, <2>6, <2>7, <2>8, <2>9, <2>10
       DEF Captures
<1>3. ASSUME NEW s \in Sessions, GivesUp(s) PROVE Origin'
  <2> HIDE DEF TypeOK
  <2>1. ASSUME pc[s] \in Locked, pc[s] \notin {"restore", "info"}
        PROVE  ~Changed /\ \A t \in Sessions : pc[t] # "info"
    BY <2>1, LockedAlone DEF Locked, Changed
  <2> USE DEF TypeOK
  <2>2. CASE Release(s)
    <3>1. CASE ctx.count = 1
      <4>1. pc'[s] = "restore" /\ ctx'.restore = ctx.restore
        BY <2>2, <3>1 DEF Release, Goto
      <4>2. Changed => Changed'
        BY <4>1 DEF Changed
      <4> QED
        BY <2>2, <4>2, OriginStay DEF Release, Finished, Goto
    <3>2. CASE ctx.count # 1
      <4>1. ctx'.count # 0 /\ ctx'.restore = ctx.restore
        BY <2>2, <3>2 DEF Release
      <4>2. Holders' # {}
        BY <4>1, FS_EmptySet DEF ContextHeld
      <4>3. Changed => Changed'
        BY <4>1, <4>2 DEF Changed
      <4> QED
        BY <2>2, <4>3, OriginStay DEF Release, Finished, Goto
    <3> QED
      BY <3>1, <3>2
  <2>3. CASE Restore(s)
    <3>1. /\ \A t \in Sessions : pc[t] # "info"
          /\ Holders = {} /\ pc[s] = "restore"
      BY <2>3, LockedAlone DEF Restore, Locked
    <3>2. ctx.restore /\ ~touched => ctx.host = origin /\ origin # None
      BY <3>1 DEF Stages, Origin
    <3>3. ctx.control /\ ~touched => ctx.host = origin
      BY <3>1 DEF Origin
    <3>4. CASE ctx.restore /\ pa' = [pa EXCEPT !.default = Before]
                /\ ctx' = [ctx EXCEPT !.requested = Before] /\ touched' = touched
      <4>1. ~touched => Before = origin
        BY <3>2, <3>4 DEF Before
      <4> QED
        BY <2>3, <3>3, <3>4, <4>1 DEF Restore, Origin
    <3>5. CASE touched'
      BY <3>5 DEF Origin
    <3>6. CASE ~ctx.restore /\ pa' = pa /\ ctx' = ctx /\ touched' = touched
      BY <2>3, <3>3, <3>6 DEF Restore, Origin, Changed
    <3> QED
      BY <2>3, <3>4, <3>5, <3>6 DEF Restore
  <2>4. CASE Unload(s)
    <3>1. ~Changed /\ \A t \in Sessions : pc[t] # "info"
      BY <2>1, <2>4 DEF Unload, Locked
    <3>2. ~touched => pa.default = origin /\ origin \notin Layouts
      BY <3>1 DEF Origin
    <3>3. ~touched => pa'.default = pa.default
      BY <2>4, <3>2 DEF Unload
    <3>4. /\ ctx'.control = ctx.control /\ ctx'.host = ctx.host
          /\ ctx'.good = ctx.good /\ touched' = touched /\ origin' = origin
      BY <2>4 DEF Unload
    <3> QED
      BY <3>1, <3>2, <3>3, <3>4 DEF Origin
  <2>5. CASE Disconnect(s)
    <3>1. ~Changed
      BY <2>1, <2>5 DEF Disconnect, Locked
    <3> QED
      BY <2>5, <3>1 DEF Disconnect, NoContext, Origin
  <2> QED
    BY <1>3, <2>2, <2>3, <2>4, <2>5 DEF GivesUp
<1>4. ASSUME NEW s \in Sessions, Start(s) PROVE Origin'
  <2>1. Holders' = Holders
    BY <1>4 DEF Start, Goto, Holders, Holding
  <2>2. Changed => Changed'
    BY <1>4, <2>1 DEF Start, Goto, Changed
  <2> QED
    BY <1>4, <2>2, OriginStay DEF Start, Goto
<1>5. CASE ServerRestarts \/ UserPicks \/ Crash
  BY <1>5 DEF ServerRestarts, UserPicks, Crash, Origin
<1>6. ASSUME \/ NewQueue \/ UNCHANGED vars
             \/ \E s \in Sessions : Stop(s) \/ Encoder(s)
      PROVE  Origin'
  <2>1. /\ pc' = pc /\ ctx' = ctx /\ pa' = pa
        /\ touched' = touched /\ origin' = origin
    BY <1>6 DEF NewQueue, vars, Stop, Encoder, Encode, EncodeEnds
  <2> QED
    BY <2>1, OriginStay DEF Changed, Holders
<1>7. ASSUME NEW s \in Sessions, Hangs(s) PROVE Origin'
  <2>1. CASE pc[s] \in {"info", "restore"}
    <3>1. ctx.control \/ (~Changed /\ pc[s] # "info")
      BY <2>1, Zenon DEF Stages, Changed
    <3>2. CASE ctx.control
      BY <1>7, <3>2, HangsKeeps DEF Origin
    <3>3. CASE ~Changed /\ pc[s] # "info"
      BY <1>7, <3>3, HangsKeeps, OriginStay DEF Goto
    <3> QED
      BY <3>1, <3>2, <3>3
  <2>2. CASE pc[s] \in {"load", "unload"}
    <3>1. ~Changed
      BY <2>2, LockedAlone DEF Locked, Changed
    <3> QED
      BY <1>7, <2>2, <3>1, HangsKeeps, OriginStay DEF Goto
  <2>3. CASE pc[s] \in {"switch", "mic", "remic"}
    <3>1. pc[s] \in Holding /\ pc[s] \notin Locked
      BY <2>3 DEF Holding, Locked
    <3> QED
      BY <1>7, <3>1, HangsKeeps, OriginInside
  <2> QED
    BY <1>7, <2>1, <2>2, <2>3, HangsKeeps
<1> QED
  BY <1>1, <1>2, <1>3, <1>4, <1>5, <1>6, <1>7 DEF Next, Thread, Outside

-----------------------------------------------------------------------------
(* What the sessions hear                                                  *)

(* A step to where nothing is promised, of a thread that leaves the sinks, *)
(* the microphones and the flag alone, keeps the promises.                 *)
LEMMA HearStay ==
    ASSUME NEW s \in Sessions, NEW l, TypeOK, Chosen, HearsTheHost,
           pc' = pc \/ Goto(s, l),
           \/ l \notin {"switch", "mic", "sample", "remic", "stop", "join"}
           \/ l \in {"mic", "stop", "join"} /\ ctx.flag,
           ctx'.flag = ctx.flag, ctx'.requested = ctx.requested,
           pa'.default = pa.default, touched' = touched,
           mic' = mic, early' = early, conf' = conf
    PROVE  Chosen' /\ HearsTheHost'
<1> USE DEF TypeOK, Goto
<1>1. \A t \in Sessions :
         pc'[t] \in {"switch", "sample", "remic"} => pc'[t] = pc[t]
  OBVIOUS
<1>2. \A t \in Sessions :
         ~ctx'.flag => pc'[t] \notin {"switch", "mic", "sample", "remic",
                                     "stop", "join"}
  BY DEF Chosen
<1>3. Chosen'
  BY <1>1, <1>2 DEF Chosen
<1> QED
  BY <1>1, <1>3 DEF HearsTheHost

(* Where nobody records, little is promised.                               *)
LEMMA HearNone ==
    ASSUME \A t \in Sessions :
              pc'[t] \notin {"switch", "mic", "sample", "remic", "stop", "join"},
           conf' = None /\ ~touched' /\ ctx'.requested # None
               => ctx'.requested = pa'.default
    PROVE  Chosen' /\ HearsTheHost'
BY DEF Chosen, HearsTheHost

(* A thread with the lock moves on among those that do not record.         *)
LEMMA NoneRecords ==
    ASSUME NEW s \in Sessions, TypeOK, ContextHeld, pc[s] \in Locked,
           NEW l \in {"idle", "select"} \cup Locked, pc' = pc \/ Goto(s, l)
    PROVE  \A t \in Sessions :
              pc'[t] \notin {"switch", "mic", "sample", "remic", "stop", "join"}
<1>1. Holders = {}
  BY LockedAlone
<1> QED
  BY <1>1 DEF Holders, Holding, Locked, Goto, TypeOK

(* A microphone that opens while no sink is being set hears the default    *)
(* sink.                                                                   *)
LEMMA SourceIsDefault ==
    ASSUME TypeOK, Chosen, conf = None, ~touched
    PROVE  Source = pa.default
BY DEF Source, Chosen

(* Every step keeps what sessions hear.                                    *)
LEMMA HearStep ==
    ASSUME TypeOK, ContextHeld, Stages, Origin, Chosen, HearsTheHost,
           [Next]_vars
    PROVE  Chosen' /\ HearsTheHost'
<1> USE AudioAssumption DEF TypeOK, Contexts, Servers, ctxVars, noteVars
<1>1. ASSUME NEW s \in Sessions, Takes(s) PROVE Chosen' /\ HearsTheHost'
  <2>1. CASE Ref(s)
    <3>1. PICK l \in {"connect", "select"} : Goto(s, l)
      BY <2>1 DEF Ref
    <3> QED
      BY <2>1, <3>1, HearStay DEF Ref
  <2> HIDE DEF TypeOK
  <2>2. ASSUME NEW l \in {"idle", "select"} \cup Locked, pc[s] \in Locked,
               Goto(s, l), ctx'.requested = None
        PROVE  Chosen' /\ HearsTheHost'
    BY <2>2, NoneRecords, HearNone
  <2> USE DEF TypeOK
  <2>3. CASE Connect(s)
    <3>0. ctx.requested = None
      BY <2>3 DEF Connect, Stages, NoContext
    <3>1. ctx'.requested = None /\ pc[s] \in Locked
      <4>1. ctx' \in {ctx, [ctx EXCEPT !.control = TRUE, !.good = TRUE],
                     [ctx EXCEPT !.count = 1]}
        BY <2>3 DEF Connect
      <4>2. ctx'.requested = ctx.requested
        <5>1. /\ [ctx EXCEPT !.control = TRUE, !.good = TRUE].requested
                   = ctx.requested
              /\ [ctx EXCEPT !.count = 1].requested = ctx.requested
          OBVIOUS
        <5> HIDE DEF TypeOK
        <5> QED
          BY <4>1, <5>1
      <4>3. pc[s] \in Locked
        BY <2>3 DEF Connect, Locked
      <4> QED
        BY <3>0, <4>2, <4>3
    <3>2. PICK l \in {"info", "select", "hung"} : Goto(s, l)
      BY <2>3 DEF Connect
    <3>3. l \in {"idle", "select"} \cup Locked
      BY DEF Locked
    <3> HIDE DEF TypeOK
    <3> QED
      BY <2>2, <2>3, <3>1, <3>2, <3>3
  <2>4. CASE Info(s)
    <3>1. ctx'.requested = None /\ pc[s] \in Locked
      BY <2>4 DEF Info, Stages, Locked
    <3> QED
      BY <2>2, <2>4, <3>1 DEF Info, Locked
  <2>5. CASE InfoFails(s)
    BY <2>2, <2>5 DEF InfoFails, NoContext, Locked
  <2>6. CASE LoadNull(s)
    <3>1. ctx'.requested = None /\ pc[s] \in Locked
      BY <2>6 DEF LoadNull, Stages, Locked
    <3> QED
      BY <2>2, <2>6, <3>1 DEF LoadNull
  <2> QED
    BY <1>1, <2>1, <2>3, <2>4, <2>5, <2>6 DEF Takes
<1>2. ASSUME NEW s \in Sessions, Captures(s) PROVE Chosen' /\ HearsTheHost'
  <2>1. CASE NoControl(s)
    BY <2>1, HearStay DEF NoControl, Fails
  <2>2. CASE Select(s)
    <3>1. CASE ctx.flag
      BY <2>2, <3>1, HearStay DEF Select
    <3>2. CASE ~ctx.flag
      <4>1. \A t \in Sessions :
               pc[t] \notin {"switch", "mic", "sample", "remic", "stop", "join"}
        BY <3>2 DEF Chosen
      <4>2. PICK l \in {"switch", "mic"} : Goto(s, l)
        BY <2>2, <3>2 DEF Select
      <4>3. \A t \in Sessions :
               /\ pc'[t] \notin {"sample", "remic"}
               /\ pc'[t] = "switch" => t = s
        BY <4>1, <4>2 DEF Goto
      <4>4. /\ ctx'.flag /\ ctx'.requested = ctx.requested
            /\ pa' = pa /\ touched' = touched /\ conf' = conf
        BY <2>2, <3>2 DEF Select
      <4> QED
        BY <4>3, <4>4 DEF Chosen, HearsTheHost
    <3> QED
      BY <3>1, <3>2
  <2>3. CASE Switch(s)
    <3>1. CASE pa' = pa /\ ctx' = ctx /\ Fails(s)
      BY <2>3, <3>1, HearStay DEF Switch, Fails
    <3>2. CASE /\ pa' = [pa EXCEPT !.default = sink[s]]
               /\ ctx' = [ctx EXCEPT !.requested = sink[s]]
               /\ Goto(s, "mic")
      <4>1. \A t \in Sessions : pc'[t] # "switch"
        BY <2>3, <3>2 DEF Switch, Goto, Chosen
      <4>2. \A t \in Sessions :
               pc'[t] \in {"sample", "remic"} => pc[t] = pc'[t] /\ t # s
        BY <3>2 DEF Goto
      <4>3. \A t \in Sessions : pc'[t] = "sample" /\ mic[t] # None => t \in early
        BY <2>3, <4>2 DEF Switch, Chosen
      <4>4. /\ ctx'.flag /\ ctx'.requested = pa'.default
            /\ mic' = mic /\ early' = early
        BY <2>3, <3>2 DEF Switch, Chosen
      <4> QED
        BY <4>1, <4>2, <4>3, <4>4 DEF Chosen, HearsTheHost
    <3> QED
      BY <2>3, <3>1, <3>2 DEF Switch
  <2>4. ASSUME ctx.flag, mic' = [mic EXCEPT ![s] = Source], Goto(s, "sample"),
               SwitchPending => s \in early',
               \A t \in Sessions : t # s => (t \in early' <=> t \in early),
               pc[s] # "switch",
               UNCHANGED <<ctx, pa, touched, conf>>
        PROVE  Chosen' /\ HearsTheHost'
    <3>1. \A t \in Sessions : t # s => pc'[t] = pc[t] /\ mic'[t] = mic[t]
      BY <2>4 DEF Goto
    <3>2. pc'[s] = "sample" /\ mic'[s] = Source
      BY <2>4 DEF Goto
    <3>3. \A t \in Sessions : pc'[t] = "switch" => s \in early'
      BY <2>4, <3>1, <3>2 DEF SwitchPending
    <3>4. Chosen'
      BY <2>4, <3>1, <3>2, <3>3 DEF Chosen
    <3>5. conf = None /\ ~touched => mic'[s] = pa.default
      BY <3>2, SourceIsDefault
    <3> QED
      BY <2>4, <3>1, <3>4, <3>5 DEF HearsTheHost
  <2>5. CASE OpenMic(s)
    <3>1. CASE Fails(s) /\ UNCHANGED <<mic, samples, enc, early>>
      BY <2>5, <3>1, HearStay DEF OpenMic, Fails
    <3>2. CASE Goto(s, "sample")
      <4>1. ctx.flag /\ pc[s] # "switch"
        BY <2>5 DEF OpenMic, Chosen
      <4>2. /\ mic' = [mic EXCEPT ![s] = Source]
            /\ early' = IF SwitchPending THEN early \cup {s} ELSE early
        BY <2>5, <3>2 DEF OpenMic, Fails, Goto
      <4> QED
        BY <2>4, <2>5, <3>2, <4>1, <4>2 DEF OpenMic
    <3> QED
      BY <2>5, <3>1, <3>2 DEF OpenMic
  <2>6. CASE Sample(s)
    <3>1. ctx.flag
      BY <2>6 DEF Sample, Chosen
    <3>2. CASE mic' = mic /\ pc' = pc
      BY <2>6, <3>2, HearStay DEF Sample
    <3>3. CASE mic' = mic /\ Goto(s, "stop")
      BY <2>6, <3>1, <3>3, HearStay DEF Sample
    <3>4. CASE mic' = [mic EXCEPT ![s] = None] /\ Goto(s, "remic")
      <4>1. \A t \in Sessions : t # s => pc'[t] = pc[t] /\ mic'[t] = mic[t]
        BY <3>4 DEF Goto
      <4>2. pc'[s] = "remic" /\ mic'[s] = None
        BY <3>4 DEF Goto
      <4> QED
        BY <2>6, <3>1, <4>1, <4>2 DEF Sample, Chosen, HearsTheHost
    <3>5. [pc EXCEPT ![s] = "sample"] = pc
      BY <2>6 DEF Sample
    <3>6. PICK status \in Statuses :
             /\ mic' = IF status = "reinit" THEN [mic EXCEPT ![s] = None]
                       ELSE mic
             /\ Goto(s, CASE status = "reinit" -> "remic"
                          [] status = "error"  -> "stop"
                          [] OTHER             -> "sample")
      BY <2>6 DEF Sample
    <3> QED
      BY <3>2, <3>3, <3>4, <3>5, <3>6 DEF Goto
  <2>7. CASE ShutdownSeen(s)
    <3>1. ctx.flag
      BY <2>7 DEF ShutdownSeen, Chosen
    <3> QED
      BY <2>7, <3>1, HearStay DEF ShutdownSeen
  <2>8. CASE Remic(s)
    <3>1. ctx.flag /\ mic[s] = None /\ pc[s] = "remic"
      BY <2>8 DEF Remic, Chosen
    <3>2. CASE /\ mic' = [mic EXCEPT ![s] = Source]
               /\ early' = IF SwitchPending THEN early \cup {s} ELSE early \ {s}
               /\ Goto(s, "sample")
      BY <2>4, <2>8, <3>1, <3>2 DEF Remic
    <3>3. CASE Goto(s, "sample") /\ UNCHANGED <<mic, early>>
      <4>1. \A t \in Sessions : t # s => pc'[t] = pc[t]
        BY <3>3 DEF Goto
      <4>2. pc'[s] = "sample" /\ mic'[s] = None
        BY <3>1, <3>3 DEF Goto
      <4> QED
        BY <2>8, <3>1, <3>3, <4>1, <4>2 DEF Remic, Chosen, HearsTheHost
    <3> QED
      BY <2>8, <3>2, <3>3 DEF Remic
  <2>9. CASE StopSamples(s)
    <3>1. ctx.flag
      BY <2>9 DEF StopSamples, Chosen
    <3> QED
      BY <2>9, <3>1, HearStay DEF StopSamples
  <2>10. CASE Join(s)
    BY <2>10, HearStay DEF Join
  <2>11. CASE Wait(s)
    <3>1. \A t \in Sessions : t # s =>
             /\ pc'[t] = pc[t] /\ mic'[t] = mic[t]
             /\ t \in early' <=> t \in early
      BY <2>11 DEF Wait, Goto
    <3>2. pc'[s] = "release"
      BY <2>11 DEF Wait, Goto
    <3> QED
      BY <2>11, <3>1, <3>2 DEF Wait, Chosen, HearsTheHost
  <2> QED
    BY <1>2, <2>1, <2>2, <2>3, <2>5, <2>6, <2>7, <2>8, <2>9, <2>10, <2>11
       DEF Captures
<1>3. ASSUME NEW s \in Sessions, GivesUp(s) PROVE Chosen' /\ HearsTheHost'
  <2>1. CASE Release(s)
    <3>1. PICK l \in {"restore", "idle"} : Goto(s, l)
      BY <2>1 DEF Release, Finished
    <3> QED
      BY <2>1, <3>1, HearStay DEF Release
  <2>2. CASE Restore(s)
    <3>1. \A t \in Sessions :
             pc'[t] \notin {"switch", "mic", "sample", "remic", "stop", "join"}
      BY <2>2, NoneRecords DEF Restore, Locked
    <3>2. \/ ctx'.requested = pa'.default
          \/ touched'
          \/ UNCHANGED <<ctx, pa, touched, conf>>
      BY <2>2 DEF Restore
    <3> QED
      BY <3>1, <3>2, HearNone DEF Chosen
  <2>3. CASE Unload(s)
    <3>1. \A t \in Sessions :
             pc'[t] \notin {"switch", "mic", "sample", "remic", "stop", "join"}
      BY <2>3, NoneRecords DEF Unload, Locked
    <3>2. Holders = {} /\ \A t \in Sessions : pc[t] \in Locked => t = s
      BY <2>3, LockedAlone DEF Unload, Locked
    <3>3. ~Changed
      BY <2>3, <3>2 DEF Unload, Changed, Locked
    <3>4. ~touched => pa.default \notin Layouts
      BY <3>3 DEF Origin
    <3>5. ~touched => pa'.default = pa.default
      BY <2>3, <3>4 DEF Unload
    <3>6. ctx'.requested = ctx.requested /\ touched' = touched /\ conf' = conf
      BY <2>3 DEF Unload
    <3> QED
      BY <3>1, <3>5, <3>6, HearNone DEF Chosen
  <2>4. CASE Disconnect(s)
    <3>1. \A t \in Sessions :
             pc'[t] \notin {"switch", "mic", "sample", "remic", "stop", "join"}
      BY <2>4, NoneRecords DEF Disconnect, Finished, Locked
    <3> QED
      BY <2>4, <3>1, HearNone DEF Disconnect, NoContext
  <2> QED
    BY <1>3, <2>1, <2>2, <2>3, <2>4 DEF GivesUp
<1>4. ASSUME NEW s \in Sessions, Start(s) \/ Stop(s) \/ Encoder(s)
      PROVE  Chosen' /\ HearsTheHost'
  BY <1>4, HearStay DEF Start, Stop, Encoder, Encode, EncodeEnds
<1>5. CASE ServerRestarts \/ UserPicks
  <2>1. /\ touched' /\ pc' = pc /\ mic' = mic /\ early' = early
        /\ ctx'.flag = ctx.flag
    BY <1>5 DEF ServerRestarts, UserPicks
  <2> QED
    BY <2>1 DEF Chosen, HearsTheHost
<1>6. CASE Crash
  BY <1>6, HearNone DEF Crash, NoContext
<1>7. CASE NewQueue \/ UNCHANGED vars
  <2>1. UNCHANGED <<pc, ctx, pa, touched, mic, early, conf>>
    BY <1>7 DEF NewQueue, vars
  <2> QED
    BY <2>1 DEF Chosen, HearsTheHost
<1>8. ASSUME NEW s \in Sessions, Hangs(s) PROVE Chosen' /\ HearsTheHost'
  <2>1. PICK l \in {"deaf", "hung"} : Goto(s, l)
    BY <1>8, HangsKeeps
  <2> QED
    BY <1>8, <2>1, HangsKeeps, HearStay
<1> QED
  BY <1>1, <1>2, <1>3, <1>4, <1>5, <1>6, <1>7, <1>8 DEF Next, Thread, Outside

-----------------------------------------------------------------------------
(* The theorems                                                            *)

(* The invariant holds at first.                                           *)
LEMMA InitInv == Init => Inv
<1> SUFFICES ASSUME Init PROVE Inv
  OBVIOUS
<1> USE AudioAssumption DEF Init, NoContext
<1>1. Holders = {}
  BY DEF Holders, Holding
<1>2. ContextHeld
  BY <1>1, FS_EmptySet DEF ContextHeld, Locked
<1>3. NoContext \in Contexts /\ ~NoContext.restore
  <2>1. 0 \in 0 .. Cardinality(Sessions)
    BY SomeSessions
  <2> QED
    BY <2>1 DEF Contexts, AnySink
<1>4. [len |-> 0, on |-> FALSE] \in Queues /\ pa \in Servers
  BY DEF Queues, Servers, AnySink, Own
<1>5. TypeOK
  <2> HIDE DEF NoContext
  <2> QED
    BY <1>3, <1>4 DEF TypeOK, Locked, Holding, AnySink
<1>6. Stages /\ IndexLoaded /\ Counted
  BY DEF Stages, IndexLoaded, Counted
<1>7. Origin /\ Chosen /\ HearsTheHost
  BY DEF Origin, Chosen, HearsTheHost
<1> QED
  BY <1>2, <1>5, <1>6, <1>7 DEF Inv

(* Every step keeps the invariant.                                         *)
LEMMA NextInv == Inv /\ [Next]_vars => Inv'
<1> SUFFICES ASSUME Inv, [Next]_vars PROVE Inv'
  OBVIOUS
<1>1. TypeOK /\ ContextHeld /\ Stages /\ IndexLoaded /\ Origin /\ Counted
      /\ Chosen /\ HearsTheHost
  BY DEF Inv
<1>2. ContextHeld'
  BY <1>1, HeldStep
<1>3. TypeOK' /\ Stages'
  BY <1>1, <1>2, TypeStep, StagesStep
<1>4. IndexLoaded' /\ Counted'
  BY <1>1, NullsStep
<1>5. Origin' /\ Chosen' /\ HearsTheHost'
  BY <1>1, <1>2, OriginStep, HearStep
<1> QED
  BY <1>2, <1>3, <1>4, <1>5 DEF Inv

(* The invariant holds throughout.                                         *)
LEMMA SpecInv == Spec => []Inv
BY InitInv, NextInv, PTL DEF Spec

(* The variables keep their types: among them the count of the context,    *)
(* which never leaves its range, and the numbers of null sinks.            *)
THEOREM TypeCorrect == Spec => []TypeOK
BY SpecInv, PTL DEF Inv

(* The shared_t counts its holders, and one thread at a time constructs or *)
(* destroys the context, while nobody holds it.                            *)
THEOREM HeldByItsCount == Spec => []ContextHeld
BY SpecInv, PTL DEF Inv

(* Once nobody uses the context, the default sink is the one it was, and   *)
(* only the null sinks that could not be removed are left.                 *)
THEOREM HostIsRestored == Spec => []HostAsBefore
<1>1. Inv => HostAsBefore
  <2> SUFFICES ASSUME Inv PROVE HostAsBefore
    OBVIOUS
  <2> USE AudioAssumption DEF Inv
  <2>1. ASSUME Idle PROVE ctx.index = {} /\ ~Changed
    BY <2>1 DEF Stages, NoContext, Changed
  <2>2. HostRestored
    BY <2>1 DEF Origin, HostRestored
  <2>3. NullsReclaimed
    BY <2>1 DEF Counted, NullsReclaimed, TypeOK, Servers
  <2> QED
    BY <2>2, <2>3 DEF HostAsBefore
<1> QED
  BY <1>1, SpecInv, PTL

(* Sessions hear what the host plays.                                      *)
THEOREM SessionsHearTheHost == Spec => []HearsTheHost
BY SpecInv, PTL DEF Inv

(* A stream without sound waits for the session's end like any other.      *)
THEOREM StreamsGoOn == Spec => []StreamsOn
<1>1. Init => StreamsOn
  BY DEF Init, StreamsOn
<1>2. TypeOK /\ StreamsOn /\ [Next]_vars => StreamsOn'
  <2> SUFFICES ASSUME TypeOK, StreamsOn, [Next]_vars PROVE StreamsOn'
    OBVIOUS
  <2> USE DEF TypeOK, StreamsOn, Goto, ctxVars, encVars, countVars, noteVars
  <2>1. ASSUME NEW s \in Sessions, Takes(s) PROVE StreamsOn'
    BY <2>1 DEF Takes, Ref, Connect, Info, InfoFails, LoadNull
  <2>2. ASSUME NEW s \in Sessions, Captures(s) PROVE StreamsOn'
    <3>1. CASE Sample(s)
      BY <3>1 DEF Sample
    <3>2. CASE Wait(s)
      BY <3>2 DEF Wait
    <3> QED
      BY <2>2, <3>1, <3>2
         DEF Captures, NoControl, Select, Switch, OpenMic, ShutdownSeen,
             Remic, StopSamples, Join, Fails
  <2>3. ASSUME NEW s \in Sessions, GivesUp(s) PROVE StreamsOn'
    BY <2>3 DEF GivesUp, Release, Restore, Unload, Disconnect,
                Finished
  <2>4. ASSUME NEW s \in Sessions, Start(s) \/ Stop(s) \/ Encoder(s)
        PROVE  StreamsOn'
    BY <2>4 DEF Start, Stop, Encoder, Encode, EncodeEnds
  <2>5. CASE Outside \/ UNCHANGED vars
    BY <2>5 DEF Outside, NewQueue, UserPicks, ServerRestarts, Crash, vars
  <2>6. ASSUME NEW s \in Sessions, Hangs(s) PROVE StreamsOn'
    BY <2>6, HangsKeeps
  <2> QED
    BY <2>1, <2>2, <2>3, <2>4, <2>5, <2>6 DEF Next, Thread
<1> QED
  BY <1>1, <1>2, TypeCorrect, PTL DEF Spec

-----------------------------------------------------------------------------
(* The context is a shared object                                          *)

Makes == {"connect", "info", "load"}
Ends  == {"restore", "unload"}

(* What the lock is held for tells how far the object is.                  *)
LEMMA StageOf ==
    ASSUME NEW s \in Sessions, TypeOK, ContextHeld, pc[s] \in Locked
    PROVE  /\ lock = s /\ lock # None /\ Holders = {}
           /\ Stage = IF pc[s] \in Makes THEN "coming"
                      ELSE IF pc[s] \in Ends THEN "going" ELSE "stuck"
BY LockedAlone, AudioAssumption DEF Stage, Makes, Ends

(* With the lock free it is the count that does.                           *)
LEMMA StageFree ==
    ASSUME TypeOK, ContextHeld, lock = None
    PROVE  Stage = IF Holders = {} THEN "none" ELSE "up"
BY HoldersFinite DEF Stage, ContextHeld

(* A reference is only held while the lock is free and the object is up.   *)
LEMMA StageHeld ==
    ASSUME NEW s \in Holders, TypeOK, ContextHeld
    PROVE  lock = None /\ Stage = "up"
BY StageFree DEF ContextHeld

(* A thread that goes on as it was leaves the object as it was.            *)
LEMMA SharedInside ==
    ASSUME NEW s \in Sessions, NEW l, TypeOK, ContextHeld,
           Goto(s, l), lock' = lock, ctx'.count = ctx.count,
           \/ pc[s] \in Holding /\ l \in Holding
           \/ pc[s] \in Makes /\ l \in Makes
           \/ pc[s] \in Ends /\ l \in Ends
           \/ pc[s] \in {"idle", "ref"} /\ l \in {"idle", "ref"}
    PROVE  UNCHANGED Context!vars
<1>1. Holders' = Holders
  BY DEF Holders, Holding, Makes, Ends, Goto, TypeOK
<1>2. CASE lock = None
  BY <1>1, <1>2 DEF Context!vars, Stage
<1>3. CASE lock # None
  <2>1. lock \in Sessions /\ pc[lock] \in Locked
    BY <1>3 DEF TypeOK, ContextHeld
  <2>2. pc'[lock] = pc[lock] \/ (lock = s /\ pc'[lock] = l)
    BY <2>1 DEF Goto, TypeOK
  <2>3. Stage' = Stage
    BY <1>3, <2>1, <2>2 DEF Stage, Makes, Ends, Holding, Locked
  <2> QED
    BY <1>1, <2>3 DEF Context!vars
<1> QED
  BY <1>2, <1>3

(* So does what is done beside the threads.                                *)
LEMMA SharedBeside ==
    ASSUME pc' = pc, lock' = lock, ctx'.count = ctx.count
    PROVE  UNCHANGED Context!vars
BY DEF Context!vars, Stage, Holders

(* Whoever makes the context is the first to hold it.                      *)
LEMMA SharedMade ==
    ASSUME NEW s \in Sessions, TypeOK, ContextHeld, pc[s] \in Makes,
           Goto(s, "select"), lock' = None, ctx'.count = 1
    PROVE  Context!Constructed(s)
<1>1. Holders = {} /\ Stage = "coming"
  BY StageOf DEF Makes, Locked
<1>2. Holders' = {s}
  BY <1>1 DEF Holders, Holding, Goto, TypeOK
<1>3. Stage' = "up"
  BY DEF Stage
<1> QED
  BY <1>1, <1>2, <1>3 DEF Context!Constructed, Context!Become

(* A callback that waits for ever.                                         *)
LEMMA SharedStuck ==
    ASSUME NEW s \in Sessions, TypeOK, ContextHeld, pc[s] \in Makes \cup Ends,
           Goto(s, "hung"), lock' = lock
    PROVE  Context!Stuck
<1>1. lock = s /\ lock # None /\ Stage \in {"coming", "going"}
  BY StageOf DEF Makes, Ends, Locked
<1>2. Holders' = Holders
  BY DEF Holders, Holding, Makes, Ends, Goto, TypeOK
<1>3. Stage' = "stuck"
  BY <1>1 DEF Stage, Goto, TypeOK
<1> QED
  BY <1>1, <1>2, <1>3 DEF Context!Stuck, Context!Become

(* Each step of the audio threads is one of the object's, or none.         *)
LEMMA SharedStep ==
    ASSUME TypeOK, ContextHeld, ContextHeld', TypeOK', [Next]_vars
    PROVE  [Context!Next]_Context!vars
<1> USE DEF Contexts
<1>1. ASSUME NEW s \in Sessions, Takes(s)
      PROVE  [Context!Next]_Context!vars
  <2>1. CASE Ref(s)
    <3>1. pc[s] = "ref" /\ lock = None /\ s \notin Holders
      BY <2>1 DEF Ref, Holders, Holding
    <3>2. CASE ctx.count = 0
      <4>1. lock' = s /\ Goto(s, "connect") /\ s # None
        BY <2>1, <3>2, AudioAssumption DEF Ref
      <4>2. Holders' = Holders
        BY <3>1, <4>1 DEF Holders, Holding, Goto, TypeOK
      <4>3. Stage = "none" /\ Stage' = "coming"
        BY <3>1, <3>2, <4>1 DEF Stage, Goto, TypeOK
      <4> QED
        BY <4>2, <4>3
           DEF Context!Next, Context!Construct, Context!Become
    <3>3. CASE ctx.count # 0
      <4>1. lock' = None /\ Goto(s, "select") /\ ctx'.count = ctx.count + 1
        BY <2>1, <3>1, <3>3 DEF Ref, TypeOK
      <4>2. Holders' = Holders \cup {s}
        BY <4>1 DEF Holders, Holding, Goto, TypeOK
      <4>3. ctx.count \in Nat
        BY HoldersFinite DEF ContextHeld
      <4>4. Stage = "up" /\ Stage' = "up"
        BY <3>1, <3>3, <4>1, <4>3 DEF Stage
      <4> QED
        BY <4>2, <4>4 DEF Context!Next, Context!Take, Context!Become
    <3> QED
      BY <3>2, <3>3
  <2>2. CASE Connect(s)
    <3>1. pc[s] = "connect" /\ \E l \in {"info", "select", "hung"} : Goto(s, l)
      BY <2>2 DEF Connect
    <3>2. pc'[s] \in {"info", "select", "hung"} /\ Goto(s, pc'[s])
      BY <3>1 DEF Goto, TypeOK
    <3>3. CASE pc'[s] = "info"
      <4>1. lock' = lock /\ ctx'.count = ctx.count
        BY <2>2, <3>3 DEF Connect, Goto, TypeOK
      <4> QED
        BY <3>1, <3>2, <3>3, <4>1, SharedInside DEF Makes
    <3>4. CASE pc'[s] = "select"
      <4>1. lock' = None /\ ctx'.count = 1
        BY <2>2, <3>4 DEF Connect, Goto, TypeOK
      <4> QED
        BY <3>1, <3>2, <3>4, <4>1, SharedMade DEF Makes, Context!Next
    <3>5. CASE pc'[s] = "hung"
      <4>1. lock' = lock
        BY <2>2, <3>5 DEF Connect, Goto, TypeOK
      <4> QED
        BY <3>1, <3>2, <3>5, <4>1, SharedStuck DEF Makes, Context!Next
    <3> QED
      BY <3>2, <3>3, <3>4, <3>5
  <2>3. CASE Info(s)
    BY <2>3, SharedInside DEF Info, Makes, TypeOK
  <2>4. CASE InfoFails(s)
    BY <2>4, SharedMade DEF InfoFails, Makes, NoContext, Context!Next
  <2>5. CASE LoadNull(s)
    BY <2>5, SharedMade DEF LoadNull, Makes, TypeOK, Context!Next
  <2> QED
    BY <1>1, <2>1, <2>2, <2>3, <2>4, <2>5 DEF Takes
<1>2. ASSUME NEW s \in Sessions, Captures(s)
      PROVE  [Context!Next]_Context!vars
  <2>1. pc[s] \in Holding /\ lock' = lock /\ ctx'.count = ctx.count
    BY <1>2 DEF Captures, NoControl, Select, Switch, OpenMic, Sample,
                ShutdownSeen, Remic, StopSamples, Join, Wait, Holding, ctxVars,
                TypeOK
  <2>2. \E l \in Holding : Goto(s, l)
    BY <1>2 DEF Captures, NoControl, Select, Switch, OpenMic, Sample, Fails,
                ShutdownSeen, Remic, StopSamples, Join, Wait, Holding
  <2> QED
    BY <2>1, <2>2, SharedInside
<1>3. ASSUME NEW s \in Sessions, GivesUp(s)
      PROVE  [Context!Next]_Context!vars
  <2>1. CASE Release(s)
    <3>1. s \in Holders /\ lock = None /\ ctx'.count = ctx.count - 1
      BY <2>1 DEF Release, Holders, Holding, TypeOK
    <3>2. Stage = "up"
      BY <3>1, StageHeld
    <3>3. \E l \in {"idle", "restore"} : Goto(s, l)
      BY <2>1 DEF Release, Finished
    <3>4. Holders' = Holders \ {s}
      BY <3>3 DEF Holders, Holding, Goto, TypeOK
    <3>5. CASE ctx.count = 1
      <4>1. lock' = s /\ Goto(s, "restore") /\ s # None
        BY <2>1, <3>5, AudioAssumption DEF Release
      <4>2. Stage' = "going"
        BY <4>1 DEF Stage, Goto, TypeOK
      <4>3. Holders' = {}
        BY <4>1, AudioAssumption DEF ContextHeld
      <4> QED
        BY <3>1, <3>2, <3>4, <4>2, <4>3
           DEF Context!Next, Context!Give, Context!Become, Holders
    <3>6. CASE ctx.count # 1
      <4>1. lock' = None
        BY <2>1, <3>1, <3>6 DEF Release
      <4>2. ctx.count \in Nat /\ ctx.count - 1 # 0
        BY <3>6, HoldersFinite DEF ContextHeld
      <4>3. Stage' = "up"
        BY <3>1, <4>1, <4>2 DEF Stage
      <4>4. Holders' # {}
        BY <3>1, <4>2, FS_EmptySet DEF ContextHeld
      <4> QED
        BY <3>1, <3>2, <3>4, <4>3, <4>4
           DEF Context!Next, Context!Give, Context!Become, Holders
    <3> QED
      BY <3>5, <3>6
  <2>2. CASE Restore(s)
    BY <2>2, SharedInside DEF Restore, Ends, TypeOK
  <2>3. CASE Unload(s)
    BY <2>3, SharedBeside DEF Unload, TypeOK
  <2>4. CASE Disconnect(s)
    <3>1. /\ pc[s] = "unload" /\ Goto(s, "idle")
          /\ lock' = None /\ ctx'.count = 0
      BY <2>4 DEF Disconnect, Finished, NoContext
    <3>2. Stage = "going" /\ Stage' = "none"
      BY <3>1, StageOf DEF Stage, Makes, Ends, Locked
    <3>3. Holders' = Holders
      BY <3>1 DEF Holders, Holding, Goto, TypeOK
    <3> QED
      BY <3>2, <3>3 DEF Context!Next, Context!Destroyed, Context!Become
  <2> QED
    BY <1>3, <2>1, <2>2, <2>3, <2>4 DEF GivesUp
<1>4. ASSUME NEW s \in Sessions, Start(s)
      PROVE  [Context!Next]_Context!vars
  BY <1>4, SharedInside DEF Start, ctxVars
<1>5. ASSUME NEW s \in Sessions, Stop(s) \/ Encoder(s)
      PROVE  [Context!Next]_Context!vars
  BY <1>5, SharedBeside DEF Stop, Encoder, Encode, EncodeEnds, ctxVars
<1>6. CASE NewQueue \/ UserPicks \/ ServerRestarts
  BY <1>6, SharedBeside DEF NewQueue, UserPicks, ServerRestarts, ctxVars, TypeOK
<1>7. CASE Crash
  <2>1. Holders' = {} /\ Stage' = "none"
    BY <1>7 DEF Crash, Holders, Holding, Stage, NoContext
  <2> QED
    BY <2>1 DEF Context!Next, Context!Restart
<1>8. CASE UNCHANGED vars
  BY <1>8, SharedBeside DEF vars, ctxVars
<1>9. ASSUME NEW s \in Sessions, Hangs(s)
      PROVE  [Context!Next]_Context!vars
  <2>1. CASE pc[s] \in Holding
    <3>1. pc[s] \notin Locked
      BY <2>1 DEF Holding, Locked
    <3> QED
      BY <1>9, <3>1, HangsKeeps, SharedInside
  <2>2. CASE pc[s] \in Locked
    <3>1. pc[s] \in Makes \cup Ends /\ pc[s] \notin Holding
      BY <1>9, <2>2, HangsKeeps DEF Locked, Makes, Ends, Holding
    <3> QED
      BY <1>9, <3>1, HangsKeeps, SharedStuck DEF Context!Next
  <2> QED
    BY <1>9, <2>1, <2>2, HangsKeeps
<1> QED
  BY <1>1, <1>2, <1>3, <1>4, <1>5, <1>6, <1>7, <1>8, <1>9 DEF Next, Thread, Outside

(* The audio context is shared as shared_t promises, whatever the threads  *)
(* do, and although the sound server may be lost at any time.              *)
THEOREM ContextIsShared == Spec => SharesContext
<1>1. Init => Context!Init
  BY DEF Init, NoContext, Context!Init, Stage, Holders, Holding
<1>2. Inv /\ Inv' /\ [Next]_vars => [Context!Next]_Context!vars
  BY SharedStep DEF Inv
<1> QED
  BY <1>1, <1>2, SpecInv, PTL DEF Spec, SharesContext, Context!Spec
=============================================================================
