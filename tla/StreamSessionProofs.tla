------------------------- MODULE StreamSessionProofs -------------------------
(***************************************************************************)
(* Proofs about StreamSession, for any number of sessions and any mix of   *)
(* clear() calls from the web thread.                                      *)
(*                                                                         *)
(* Why no session is destroyed under the control thread's feet: a session  *)
(* leaves the slots only through the last step of join, which has seen its *)
(* controlEnd raised (JoinInv); the control thread raises controlEnd with  *)
(* the session already off its list, or on its way out (ControlInv); and a *)
(* session that start() still works on, when the web thread has reaped it, *)
(* is off the list too (LeftInv), so that the RTSP thread may destroy it.  *)
(***************************************************************************)
EXTENDS StreamSession, FiniteSetTheorems, TLAPS

Active == control \in {"loop", "scan", "check", "iterate", "pop", "exit"}

Announcing == StartPcs \ {"peek"}

(* The lock of the slots: who holds it, and what its holder works on.      *)
LockInv ==
    \A t \in Reapers :
        /\ pc[t] \in {"pick"} \cup JoinPcs => slotsLock = t
        /\ slotsLock = t => pc[t] \in {"pick", "end"} \cup JoinPcs
        /\ cur[t] # None <=> pc[t] \in JoinPcs
        /\ cur[t] # None => cur[t] \in slots /\ cur[t] \notin todo[t]
        /\ todo[t] # {} => slotsLock = t
        /\ todo[t] \subseteq slots
        /\ t = "https" /\ pc[t] = "end" => slotsLock = t

(* What start() has done so far for the session being announced.           *)
StartInv ==
    /\ pc["https"] \notin StartPcs
    /\ announcing # None <=> pc["rtsp"] \in Announcing
    /\ pc["rtsp"] = "insert" => announcing \notin slots
    /\ pc["rtsp"] \in {"ref", "push", "threads", "remove"} => announcing \in slots
    /\ pc["rtsp"] \in {"insert", "ref", "push", "remove"} =>
          announcing \notin listed /\ ~controlEnd[announcing]
    /\ pc["rtsp"] \in {"insert", "ref", "push", "threads", "remove"} =>
          \A k \in Streams : thread[announcing][k] = "none"
    /\ pc["rtsp"] \in {"push", "threads"} => hold[announcing]

(* A session exists while the slots or start() refer to it.                *)
LifeInv ==
    \A s \in Sessions :
        /\ life[s] = "alive" <=> s \in slots \/ s = announcing
        /\ life[s] = "unborn" =>
              /\ s \notin listed
              /\ ~controlEnd[s]
              /\ ~hold[s]
              /\ \A k \in Streams : thread[s][k] = "none"

(* What join has waited for.                                               *)
JoinInv ==
    \A t \in Reapers :
        /\ pc[t] \in JoinPcs \ {"join"} =>
              \A k \in Streams : thread[cur[t]][k] = "ended"
        /\ pc[t] \in {"uncount", "willstop", "erase"} => controlEnd[cur[t]]

(* A session reaped while start() works on it has been let go entirely.    *)
LeftInv ==
    announcing # None /\ announcing \notin slots =>
        /\ \A k \in Streams : thread[announcing][k] # "running"
        /\ Active => announcing \notin listed

(* The control thread exists with the broadcast context, and a session let *)
(* go is off its list.                                                     *)
ControlInv ==
    /\ broadcast <=> control # "none"
    /\ ~broadcast => listed = {}
    /\ scan \subseteq listed
    /\ scan # {} => control = "scan"
    /\ Active => \A s \in Sessions : controlEnd[s] => s \notin listed

(* References to the broadcast context, and the lock of its shared_t.      *)
RefInv ==
    /\ \A s \in Sessions : hold[s] => broadcast /\ ending = None
    /\ \A s \in Sessions, k \in Streams : thread[s][k] = "running" => hold[s]
    /\ broadcast /\ ending = None => \E s \in Sessions : hold[s]
    /\ ending # None => broadcast
    /\ \A t \in Reapers : pc[t] = "end" <=> ending = t

Inv ==
    /\ TypeOK
    /\ LockInv
    /\ StartInv
    /\ LifeInv
    /\ JoinInv
    /\ LeftInv
    /\ ControlInv
    /\ RefInv
    /\ ListedAreAlive
    /\ FreedIsQuiet

-----------------------------------------------------------------------------
(* stop() changes the state and the shutdown event within their types.     *)
LEMMA StopTypes ==
    ASSUME NEW s \in Sessions, TypeOK,
           Stop(s) \/ UNCHANGED <<state, shutdown>>
    PROVE  /\ state' \in [Sessions -> {"STOPPED", "STOPPING", "RUNNING"}]
           /\ shutdown' \in [Sessions -> BOOLEAN]
BY DEF Stop, TypeOK

(* Changing one flag of a session leaves a function of flags.              *)
LEMMA FlagTypes ==
    ASSUME NEW f \in [Sessions -> BOOLEAN], NEW g, NEW b \in BOOLEAN,
           g = f \/ \E s \in Sessions : g = [f EXCEPT ![s] = b]
    PROVE  g \in [Sessions -> BOOLEAN]
OBVIOUS

(* Destroying a session without running threads, the last one that holds   *)
(* Destroying a session changes its life to a value of the type.           *)
LEMMA LifeTypes ==
    ASSUME NEW x,
           life \in [Sessions -> {"unborn", "alive", "freed"}],
           life' = life \/ life' = [life EXCEPT ![x] = "freed"]
    PROVE  life' \in [Sessions -> {"unborn", "alive", "freed"}]
OBVIOUS

(* A session that is destroyed gives up its reference, and ends the        *)
(* broadcast context or not.                                               *)
LEMMA DestroyRef ==
    ASSUME NEW t \in Reapers, NEW s \in Sessions, NEW label,
           TypeOK, RefInv, pc[t] # "end", label # "end",
           \A k \in Streams : thread[s][k] # "running",
           Destroy(t, s, label), UNCHANGED <<broadcast, thread>>
    PROVE  RefInv'
<1> DEFINE h == [hold EXCEPT ![s] = FALSE]
<1> USE SessionAssumption DEF TypeOK, RefInv, Reapers
<1>1. /\ h \in [Sessions -> BOOLEAN]
      /\ ~h[s]
      /\ \A r \in Sessions : h[r] => hold[r]
      /\ hold' = h
  BY DEF Destroy
<1>2. CASE broadcast /\ hold[s] /\ ~Referenced(h)
  <2>1. \A r \in Sessions : ~h[r]
    BY <1>2 DEF Referenced
  <2>2. \A r \in Sessions, k \in Streams : thread[r][k] # "running"
    BY <1>2 DEF Referenced
  <2>3. ending' = t /\ pc' = [pc EXCEPT ![t] = "end"]
    BY <1>2 DEF Destroy, Goto
  <2>4. ending = None
    BY <1>2
  <2> QED
    BY <1>1, <1>2, <2>1, <2>2, <2>3, <2>4
<1>3. CASE ~(broadcast /\ hold[s] /\ ~Referenced(h))
  <2>1. ending' = ending /\ pc' = [pc EXCEPT ![t] = label]
    BY <1>3 DEF Destroy, Goto
  <2>2. \A r \in Sessions, k \in Streams : thread[r][k] = "running" => h[r]
    BY <1>1
  <2>3. broadcast /\ ending = None => \E r \in Sessions : h[r]
    <3>1. CASE hold[s]
      <4>1. Referenced(h)
        BY <1>3, <3>1
      <4> QED
        BY <4>1, <2>2 DEF Referenced
    <3>2. CASE ~hold[s]
      BY <3>2
    <3> QED
      BY <3>1, <3>2
  <2> HIDE DEF h
  <2> QED
    BY <1>1, <2>1, <2>2, <2>3
<1> QED
  BY <1>2, <1>3

(* Every step keeps the types.                                             *)
LEMMA TypeStep == Inv /\ [Next]_vars => TypeOK'
<1> SUFFICES ASSUME Inv, [Next]_vars PROVE TypeOK'
  OBVIOUS
<1> USE SessionAssumption
    DEF Inv, TypeOK, LockInv, StartInv, LifeInv,
        Goto, Active, Announcing, StartPcs, JoinPcs, ClearPcs, Reapers, Modes,
        reaperVars, slotVars, sessionVars, countVars, castVars, controlVars
<1>1. ASSUME NEW s \in Sessions, Alloc(s) PROVE TypeOK'
  BY <1>1 DEF Alloc
<1>2. CASE Insert
  BY <1>2 DEF Insert
<1>3. CASE Ref
  <2>1. hold' = hold \/ \E s \in Sessions : hold' = [hold EXCEPT ![s] = TRUE]
    BY <1>3 DEF Ref
  <2>2. hold' \in [Sessions -> BOOLEAN]
    BY <2>1, FlagTypes
  <2>3. broadcast' \in BOOLEAN
    BY <1>3 DEF Ref
  <2>4. control' = control \/ control' = "loop"
    BY <1>3 DEF Ref
  <2>5. pc' \in [Reapers -> {"idle", "end"} \cup StartPcs \cup ClearPcs]
    BY <1>3 DEF Ref
  <2> QED
    BY <1>3, <2>2, <2>3, <2>4, <2>5 DEF Ref
<1>4. CASE Push
  BY <1>4 DEF Push
<1>5. CASE StartThreads
  BY <1>5 DEF StartThreads
<1>6. CASE StoreRunning
  BY <1>6 DEF StoreRunning
<1>7. CASE CountUp
  BY <1>7 DEF CountUp
<1>8. CASE StreamingWillStart
  BY <1>8 DEF StreamingWillStart
<1>9. CASE Remove
  BY <1>9 DEF Remove
<1>10. CASE Respond
  <2>1. pc' \in [Reapers -> {"idle", "end"} \cup StartPcs \cup ClearPcs]
    BY <1>10 DEF Respond, Destroy
  <2>2. life' = life \/ life' = [life EXCEPT ![announcing] = "freed"]
    BY <1>10 DEF Respond, Destroy
  <2>3. hold' = hold \/ \E s \in Sessions : hold' = [hold EXCEPT ![s] = FALSE]
    BY <1>10 DEF Respond, Destroy
  <2>4. hold' \in [Sessions -> BOOLEAN]
    BY <2>3, FlagTypes
  <2>5. ending' \in Reapers \cup {None} /\ broadcastShutdown' \in BOOLEAN
    BY <1>10 DEF Respond, Destroy
  <2>6. announcing' \in Sessions \cup {None}
    BY <1>10 DEF Respond
  <2>7. life' \in [Sessions -> {"unborn", "alive", "freed"}]
    BY <2>2, LifeTypes
  <2>8. UNCHANGED <<cur, todo, mode, slotVars, state, shutdown, controlEnd, thread,
                    pingSet, peer, countVars, broadcast, controlVars, app>>
    BY <1>10 DEF Respond
  <2> HIDE DEF LockInv, StartInv, LifeInv, StartPcs, JoinPcs, ClearPcs
  <2> QED
    BY <2>1, <2>4, <2>5, <2>6, <2>7, <2>8
<1>11. CASE Peek
  BY <1>11 DEF Peek
<1>12. ASSUME NEW m \in Calls, Call(m) PROVE TypeOK'
  BY <1>12 DEF Call
<1>13. ASSUME NEW t \in Reapers, Lock(t) PROVE TypeOK'
  BY <1>13 DEF Lock
<1>14. ASSUME NEW t \in Reapers, Unlock(t) PROVE TypeOK'
  BY <1>14 DEF Unlock
<1>15. ASSUME NEW t \in Reapers, JoinThreads(t) PROVE TypeOK'
  BY <1>15 DEF JoinThreads
<1>16. ASSUME NEW t \in Reapers, JoinThrows(t) PROVE TypeOK'
  BY <1>16 DEF JoinThrows
<1>17. ASSUME NEW t \in Reapers, JoinControl(t) PROVE TypeOK'
  BY <1>17 DEF JoinControl
<1>18. ASSUME NEW t \in Reapers, CountDown(t) PROVE TypeOK'
  BY <1>18 DEF CountDown
<1>19. ASSUME NEW t \in Reapers, StreamingWillStop(t) PROVE TypeOK'
  <2>1. pc' \in [Reapers -> {"idle", "end"} \cup StartPcs \cup ClearPcs]
    BY <1>19 DEF StreamingWillStop
  <2>2. streaming' \in BOOLEAN
    BY <1>19 DEF StreamingWillStop
  <2>3. UNCHANGED <<cur, todo, mode, announcing, slotVars, sessionVars, running,
                    castVars, controlVars, app>>
    BY <1>19 DEF StreamingWillStop
  <2> HIDE DEF StartPcs, JoinPcs, ClearPcs
  <2> QED
    BY <2>1, <2>2, <2>3
<1>20. ASSUME NEW t \in Reapers, Erase(t) PROVE TypeOK'
  <2>1. pc' \in [Reapers -> {"idle", "end"} \cup StartPcs \cup ClearPcs]
    BY <1>20 DEF Erase, Destroy
  <2>2. life' = life \/ life' = [life EXCEPT ![cur[t]] = "freed"]
    BY <1>20 DEF Erase, Destroy
  <2>3. hold' = hold \/ \E s \in Sessions : hold' = [hold EXCEPT ![s] = FALSE]
    BY <1>20 DEF Erase, Destroy
  <2>4. hold' \in [Sessions -> BOOLEAN]
    BY <2>3, FlagTypes
  <2>5. ending' \in Reapers \cup {None} /\ broadcastShutdown' \in BOOLEAN
    BY <1>20 DEF Erase, Destroy
  <2>6. /\ cur' \in [Reapers -> Sessions \cup {None}]
        /\ todo' \in [Reapers -> SUBSET Sessions]
        /\ slots' \in SUBSET Sessions
    BY <1>20 DEF Erase
  <2>7. life' \in [Sessions -> {"unborn", "alive", "freed"}]
    BY <2>2, LifeTypes
  <2>8. UNCHANGED <<mode, announcing, slotsLock, state, shutdown, controlEnd, thread,
                    pingSet, peer, countVars, broadcast, controlVars, app>>
    BY <1>20 DEF Erase
  <2> HIDE DEF LockInv, StartInv, LifeInv, StartPcs, JoinPcs, ClearPcs
  <2> QED
    BY <2>1, <2>4, <2>5, <2>6, <2>7, <2>8
<1>21. ASSUME NEW t \in Reapers, EndBroadcast(t) PROVE TypeOK'
  BY <1>21 DEF EndBroadcast
<1>22. ASSUME NEW t \in Reapers, NEW s \in Sessions, Reap(t, s) PROVE TypeOK'
  <2>1. /\ state' \in [Sessions -> {"STOPPED", "STOPPING", "RUNNING"}]
        /\ shutdown' \in [Sessions -> BOOLEAN]
    BY <1>22, StopTypes DEF Reap
  <2>2. pc' \in [Reapers -> {"idle", "end"} \cup StartPcs \cup ClearPcs]
    BY <1>22 DEF Reap
  <2> QED
    BY <1>22, <2>1, <2>2 DEF Reap
<1>23. ASSUME NEW t \in Reapers, NEW s \in Sessions, PassOver(t, s) PROVE TypeOK'
  BY <1>23 DEF PassOver, Wanted
<1>24. ASSUME NEW s \in Sessions, NEW k \in Streams, ThreadEnds(s, k) PROVE TypeOK'
  <2>1. /\ state' \in [Sessions -> {"STOPPED", "STOPPING", "RUNNING"}]
        /\ shutdown' \in [Sessions -> BOOLEAN]
    BY <1>24, StopTypes DEF ThreadEnds
  <2>2. thread' \in [Sessions -> [Streams -> {"none", "running", "ended"}]]
    BY <1>24 DEF ThreadEnds
  <2> QED
    BY <1>24, <2>1, <2>2 DEF ThreadEnds
<1>25. CASE ControlLoop
  BY <1>25 DEF ControlLoop
<1>26. CASE ScanDone
  BY <1>26 DEF ScanDone
<1>27. CASE Check
  BY <1>27 DEF Check
<1>28. CASE Service
  <2>1. /\ state' \in [Sessions -> {"STOPPED", "STOPPING", "RUNNING"}]
        /\ shutdown' \in [Sessions -> BOOLEAN]
    <3>1. \/ UNCHANGED <<state, shutdown>>
          \/ \E s \in Sessions : Stop(s)
      BY <1>28 DEF Service
    <3>2. CASE UNCHANGED <<state, shutdown>>
      BY <3>2
    <3>3. ASSUME NEW s \in Sessions, Stop(s)
          PROVE  /\ state' \in [Sessions -> {"STOPPED", "STOPPING", "RUNNING"}]
                 /\ shutdown' \in [Sessions -> BOOLEAN]
      BY <3>3, StopTypes
    <3> QED
      BY <3>1, <3>2, <3>3
  <2>2. peer' = peer \/ \E s \in Sessions : peer' = [peer EXCEPT ![s] = TRUE]
    BY <1>28 DEF Service, Claim
  <2>3. peer' \in [Sessions -> BOOLEAN]
    BY <2>2, FlagTypes
  <2> QED
    BY <1>28, <2>1, <2>3 DEF Service
<1>29. CASE ControlExit
  BY <1>29 DEF ControlExit
<1>30. ASSUME NEW s \in Sessions, Visit(s) PROVE TypeOK'
  <2>1. /\ state' \in [Sessions -> {"STOPPED", "STOPPING", "RUNNING"}]
        /\ shutdown' \in [Sessions -> BOOLEAN]
    BY <1>30, StopTypes DEF Visit
  <2>2. /\ controlEnd' = controlEnd \/ controlEnd' = [controlEnd EXCEPT ![s] = TRUE]
        /\ peer' = peer \/ peer' = [peer EXCEPT ![s] = FALSE]
        /\ listed' \subseteq listed
        /\ awaiting' = awaiting \/ awaiting' = (awaiting \/ ~peer[s])
    BY <1>30 DEF Visit
  <2>3. controlEnd' \in [Sessions -> BOOLEAN]
    BY <2>2, FlagTypes
  <2>4. peer' \in [Sessions -> BOOLEAN]
    BY <2>2, FlagTypes
  <2>5. listed' \in SUBSET Sessions /\ awaiting' \in BOOLEAN
    BY <2>2
  <2> QED
    BY <1>30, <2>1, <2>3, <2>4, <2>5 DEF Visit
<1>31. CASE BroadcastFails
  BY <1>31 DEF BroadcastFails
<1>32. CASE AppChanges
  BY <1>32 DEF AppChanges
<1>33. CASE UNCHANGED vars
  BY <1>33 DEF vars
<1>34. CASE Popped
  <2>1. \E s \in Sessions : peer' = [peer EXCEPT ![s] = TRUE]
    BY <1>34 DEF Popped, Claim
  <2>2. peer' \in [Sessions -> BOOLEAN]
    BY <2>1, FlagTypes
  <2> QED
    BY <1>34, <2>2 DEF Popped
<1> HIDE DEF Inv, TypeOK
<1> QED
  BY <1>1, <1>2, <1>3, <1>4, <1>5, <1>6, <1>7, <1>8, <1>9, <1>10, <1>11,
     <1>12, <1>13, <1>14, <1>15, <1>16, <1>17, <1>18, <1>19, <1>20, <1>21,
     <1>22, <1>23, <1>24, <1>25, <1>26, <1>27, <1>28, <1>29, <1>30, <1>31,
     <1>32, <1>33, <1>34
     DEF Next, Announce, Clear, Control

(* Every step keeps what the lock of the slots protects.                   *)
LEMMA LockStep == Inv /\ [Next]_vars => LockInv'
<1> SUFFICES ASSUME Inv, [Next]_vars PROVE LockInv'
  OBVIOUS
<1> USE SessionAssumption
    DEF Inv, TypeOK, LockInv, StartInv, LifeInv, JoinInv, RefInv,
        Goto, Active, Announcing, StartPcs, JoinPcs, ClearPcs, Reapers, Modes,
        reaperVars, slotVars, sessionVars, countVars, castVars, controlVars
<1>1. ASSUME NEW s \in Sessions, Alloc(s) PROVE LockInv'
  BY <1>1 DEF Alloc
<1>2. CASE Insert
  BY <1>2 DEF Insert
<1>3. CASE Ref
  BY <1>3 DEF Ref
<1>4. CASE Push
  BY <1>4 DEF Push
<1>5. CASE StartThreads
  BY <1>5 DEF StartThreads
<1>6. CASE StoreRunning
  BY <1>6 DEF StoreRunning
<1>7. CASE CountUp
  BY <1>7 DEF CountUp
<1>8. CASE StreamingWillStart
  BY <1>8 DEF StreamingWillStart
<1>9. CASE Remove
  <2>1. \A u \in Reapers : cur[u] = None /\ todo[u] = {}
    BY <1>9 DEF Remove
  <2> QED
    BY <1>9, <2>1 DEF Remove
<1>10. CASE Respond
  BY <1>10 DEF Respond, Destroy
<1>11. CASE Peek
  BY <1>11 DEF Peek
<1>12. ASSUME NEW m \in Calls, Call(m) PROVE LockInv'
  BY <1>12 DEF Call
<1>13. ASSUME NEW t \in Reapers, Lock(t) PROVE LockInv'
  <2>1. \A u \in Reapers : cur[u] = None /\ todo[u] = {}
    BY <1>13 DEF Lock
  <2>2. \A u \in Reapers : pc[u] \notin {"pick"} \cup JoinPcs
    BY <1>13 DEF Lock
  <2>3. /\ pc' = [pc EXCEPT ![t] = "pick"]
        /\ cur' = cur
        /\ todo' = [todo EXCEPT ![t] = slots]
        /\ slots' = slots
        /\ slotsLock' = t
        /\ ~(t = "https" /\ pc'[t] = "end")
    BY <1>13 DEF Lock
  <2>4. SUFFICES ASSUME NEW u \in Reapers
                 PROVE  /\ pc'[u] \in {"pick"} \cup JoinPcs => slotsLock' = u
                        /\ slotsLock' = u => pc'[u] \in {"pick", "end"} \cup JoinPcs
                        /\ cur'[u] # None <=> pc'[u] \in JoinPcs
                        /\ cur'[u] # None => cur'[u] \in slots' /\ cur'[u] \notin todo'[u]
                        /\ todo'[u] # {} => slotsLock' = u
                        /\ todo'[u] \subseteq slots'
                        /\ u = "https" /\ pc'[u] = "end" => slotsLock' = u
    OBVIOUS
  <2>5. CASE u = t
    BY <2>1, <2>3, <2>5
  <2>6. CASE u # t
    <3>1. pc'[u] = pc[u] /\ todo'[u] = todo[u] /\ cur'[u] = None
      BY <2>1, <2>3, <2>6
    <3>2. ~(u = "https" /\ pc[u] = "end")
      BY <1>13 DEF Lock
    <3> QED
      BY <2>1, <2>2, <2>3, <2>6, <3>1, <3>2
  <2> QED
    BY <2>5, <2>6
<1>14. ASSUME NEW t \in Reapers, Unlock(t) PROVE LockInv'
  <2>1. slotsLock = t
    BY <1>14 DEF Unlock
  <2>2. \A u \in Reapers \ {t} : /\ pc[u] \notin {"pick"} \cup JoinPcs
                                 /\ cur[u] = None
                                 /\ todo[u] = {}
    BY <2>1
  <2>3. /\ pc' = [pc EXCEPT ![t] = "idle"]
        /\ cur' = cur
        /\ cur[t] = None
        /\ todo' = todo
        /\ todo[t] = {}
        /\ slots' = slots
        /\ slotsLock' = None
    BY <1>14 DEF Unlock
  <2> QED
    BY <2>1, <2>2, <2>3
<1>15. ASSUME NEW t \in Reapers, JoinThreads(t) PROVE LockInv'
  BY <1>15 DEF JoinThreads
<1>16. ASSUME NEW t \in Reapers, JoinThrows(t) PROVE LockInv'
  <2>1. slotsLock = t
    BY <1>16 DEF JoinThrows
  <2>2. \A u \in Reapers \ {t} : /\ pc[u] \notin {"pick"} \cup JoinPcs
                                 /\ cur[u] = None
                                 /\ todo[u] = {}
    BY <2>1
  <2>3. /\ pc' = [pc EXCEPT ![t] = "idle"]
        /\ cur' = [cur EXCEPT ![t] = None]
        /\ todo' = [todo EXCEPT ![t] = {}]
        /\ slots' = slots
        /\ slotsLock' = None
    BY <1>16 DEF JoinThrows
  <2> QED
    BY <2>1, <2>2, <2>3
<1>17. ASSUME NEW t \in Reapers, JoinControl(t) PROVE LockInv'
  BY <1>17 DEF JoinControl
<1>18. ASSUME NEW t \in Reapers, CountDown(t) PROVE LockInv'
  BY <1>18 DEF CountDown
<1>19. ASSUME NEW t \in Reapers, StreamingWillStop(t) PROVE LockInv'
  BY <1>19 DEF StreamingWillStop
<1>20. ASSUME NEW t \in Reapers, Erase(t) PROVE LockInv'
  BY <1>20 DEF Erase, Destroy
<1>21. ASSUME NEW t \in Reapers, EndBroadcast(t) PROVE LockInv'
  BY <1>21 DEF EndBroadcast
<1>22. ASSUME NEW t \in Reapers, NEW s \in Sessions, Reap(t, s) PROVE LockInv'
  BY <1>22 DEF Reap, Stop, Wanted
<1>23. ASSUME NEW t \in Reapers, NEW s \in Sessions, PassOver(t, s) PROVE LockInv'
  BY <1>23 DEF PassOver, Wanted
<1>24. ASSUME NEW s \in Sessions, NEW k \in Streams, ThreadEnds(s, k) PROVE LockInv'
  BY <1>24 DEF ThreadEnds, Stop
<1>25. CASE ControlLoop
  BY <1>25 DEF ControlLoop
<1>26. CASE ScanDone
  BY <1>26 DEF ScanDone
<1>27. CASE Check
  BY <1>27 DEF Check
<1>28. CASE Service
  BY <1>28 DEF Service, Claim, Stop
<1>29. CASE ControlExit
  BY <1>29 DEF ControlExit
<1>30. ASSUME NEW s \in Sessions, Visit(s) PROVE LockInv'
  BY <1>30 DEF Visit, Stop
<1>31. CASE BroadcastFails
  BY <1>31 DEF BroadcastFails
<1>32. CASE AppChanges
  BY <1>32 DEF AppChanges
<1>33. CASE UNCHANGED vars
  BY <1>33 DEF vars
<1>34. CASE Popped
  BY <1>34 DEF Popped, Claim
<1> QED
  BY <1>1, <1>2, <1>3, <1>4, <1>5, <1>6, <1>7, <1>8, <1>9, <1>10, <1>11,
     <1>12, <1>13, <1>14, <1>15, <1>16, <1>17, <1>18, <1>19, <1>20, <1>21,
     <1>22, <1>23, <1>24, <1>25, <1>26, <1>27, <1>28, <1>29, <1>30, <1>31,
     <1>32, <1>33, <1>34
     DEF Next, Announce, Clear, Control

(* Every step keeps what start() has done so far.                          *)
LEMMA StartStep == Inv /\ [Next]_vars => StartInv'
<1> SUFFICES ASSUME Inv, [Next]_vars PROVE StartInv'
  OBVIOUS
<1> USE SessionAssumption
    DEF Inv, TypeOK, StartInv, LockInv, LifeInv, JoinInv, ControlInv,
        Goto, Active, Announcing, StartPcs, JoinPcs, ClearPcs, Reapers, Modes,
        reaperVars, slotVars, sessionVars, countVars, castVars, controlVars
<1>1. ASSUME NEW s \in Sessions, Alloc(s) PROVE StartInv'
  BY <1>1 DEF Alloc
<1>2. CASE Insert
  BY <1>2 DEF Insert
<1>3. CASE Ref
  BY <1>3 DEF Ref
<1>4. CASE Push
  BY <1>4 DEF Push
<1>5. CASE StartThreads
  BY <1>5 DEF StartThreads
<1>6. CASE StoreRunning
  BY <1>6 DEF StoreRunning
<1>7. CASE CountUp
  BY <1>7 DEF CountUp
<1>8. CASE StreamingWillStart
  BY <1>8 DEF StreamingWillStart
<1>9. CASE Remove
  BY <1>9 DEF Remove
<1>10. CASE Respond
  BY <1>10 DEF Respond, Destroy
<1>11. CASE Peek
  BY <1>11 DEF Peek
<1>12. ASSUME NEW m \in Calls, Call(m) PROVE StartInv'
  BY <1>12 DEF Call
<1>13. ASSUME NEW t \in Reapers, Lock(t) PROVE StartInv'
  BY <1>13 DEF Lock
<1>14. ASSUME NEW t \in Reapers, Unlock(t) PROVE StartInv'
  BY <1>14 DEF Unlock
<1>15. ASSUME NEW t \in Reapers, JoinThreads(t) PROVE StartInv'
  BY <1>15 DEF JoinThreads
<1>16. ASSUME NEW t \in Reapers, JoinThrows(t) PROVE StartInv'
  BY <1>16 DEF JoinThrows
<1>17. ASSUME NEW t \in Reapers, JoinControl(t) PROVE StartInv'
  BY <1>17 DEF JoinControl
<1>18. ASSUME NEW t \in Reapers, CountDown(t) PROVE StartInv'
  BY <1>18 DEF CountDown
<1>19. ASSUME NEW t \in Reapers, StreamingWillStop(t) PROVE StartInv'
  BY <1>19 DEF StreamingWillStop
<1>20. ASSUME NEW t \in Reapers, Erase(t) PROVE StartInv'
  BY <1>20 DEF Erase, Destroy
<1>21. ASSUME NEW t \in Reapers, EndBroadcast(t) PROVE StartInv'
  BY <1>21 DEF EndBroadcast
<1>22. ASSUME NEW t \in Reapers, NEW s \in Sessions, Reap(t, s) PROVE StartInv'
  BY <1>22 DEF Reap, Stop, Wanted
<1>23. ASSUME NEW t \in Reapers, NEW s \in Sessions, PassOver(t, s) PROVE StartInv'
  BY <1>23 DEF PassOver, Wanted
<1>24. ASSUME NEW s \in Sessions, NEW k \in Streams, ThreadEnds(s, k) PROVE StartInv'
  BY <1>24 DEF ThreadEnds, Stop
<1>25. CASE ControlLoop
  BY <1>25 DEF ControlLoop
<1>26. CASE ScanDone
  BY <1>26 DEF ScanDone
<1>27. CASE Check
  BY <1>27 DEF Check
<1>28. CASE Service
  BY <1>28 DEF Service, Claim, Stop
<1>29. CASE ControlExit
  BY <1>29 DEF ControlExit
<1>30. ASSUME NEW s \in Sessions, Visit(s) PROVE StartInv'
  <2>1. s \in Sessions /\ s \in listed /\ listed' \subseteq listed
    BY <1>30 DEF Visit
  <2>2. \A r \in Sessions : (controlEnd'[r] <=> controlEnd[r]) \/ (r = s /\ controlEnd'[r])
    BY <1>30 DEF Visit
  <2>3. UNCHANGED <<pc, cur, announcing, slots, life, thread, hold>>
    BY <1>30 DEF Visit
  <2> QED
    BY <2>1, <2>2, <2>3
<1>31. CASE BroadcastFails
  BY <1>31 DEF BroadcastFails
<1>32. CASE AppChanges
  BY <1>32 DEF AppChanges
<1>33. CASE UNCHANGED vars
  BY <1>33 DEF vars
<1>34. CASE Popped
  BY <1>34 DEF Popped, Claim
<1> QED
  BY <1>1, <1>2, <1>3, <1>4, <1>5, <1>6, <1>7, <1>8, <1>9, <1>10, <1>11,
     <1>12, <1>13, <1>14, <1>15, <1>16, <1>17, <1>18, <1>19, <1>20, <1>21,
     <1>22, <1>23, <1>24, <1>25, <1>26, <1>27, <1>28, <1>29, <1>30, <1>31,
     <1>32, <1>33, <1>34
     DEF Next, Announce, Clear, Control

(* Every step keeps a session alive while it is referred to.               *)
LEMMA LifeStep == Inv /\ [Next]_vars => LifeInv'
<1> SUFFICES ASSUME Inv, [Next]_vars PROVE LifeInv'
  OBVIOUS
<1> USE SessionAssumption
    DEF Inv, TypeOK, LifeInv, StartInv, LockInv, RefInv, ControlInv, JoinInv,
        Goto, Active, Announcing, StartPcs, JoinPcs, ClearPcs, Reapers, Modes,
        reaperVars, slotVars, sessionVars, countVars, castVars, controlVars
<1>1. ASSUME NEW s \in Sessions, Alloc(s) PROVE LifeInv'
  BY <1>1 DEF Alloc
<1>2. CASE Insert
  BY <1>2 DEF Insert
<1>3. CASE Ref
  BY <1>3 DEF Ref
<1>4. CASE Push
  BY <1>4 DEF Push
<1>5. CASE StartThreads
  BY <1>5 DEF StartThreads
<1>6. CASE StoreRunning
  BY <1>6 DEF StoreRunning
<1>7. CASE CountUp
  BY <1>7 DEF CountUp
<1>8. CASE StreamingWillStart
  BY <1>8 DEF StreamingWillStart
<1>9. CASE Remove
  BY <1>9 DEF Remove
<1>10. CASE Respond
  BY <1>10 DEF Respond, Destroy
<1>11. CASE Peek
  BY <1>11 DEF Peek
<1>12. ASSUME NEW m \in Calls, Call(m) PROVE LifeInv'
  BY <1>12 DEF Call
<1>13. ASSUME NEW t \in Reapers, Lock(t) PROVE LifeInv'
  BY <1>13 DEF Lock
<1>14. ASSUME NEW t \in Reapers, Unlock(t) PROVE LifeInv'
  BY <1>14 DEF Unlock
<1>15. ASSUME NEW t \in Reapers, JoinThreads(t) PROVE LifeInv'
  BY <1>15 DEF JoinThreads
<1>16. ASSUME NEW t \in Reapers, JoinThrows(t) PROVE LifeInv'
  BY <1>16 DEF JoinThrows
<1>17. ASSUME NEW t \in Reapers, JoinControl(t) PROVE LifeInv'
  BY <1>17 DEF JoinControl
<1>18. ASSUME NEW t \in Reapers, CountDown(t) PROVE LifeInv'
  BY <1>18 DEF CountDown
<1>19. ASSUME NEW t \in Reapers, StreamingWillStop(t) PROVE LifeInv'
  BY <1>19 DEF StreamingWillStop
<1>20. ASSUME NEW t \in Reapers, Erase(t) PROVE LifeInv'
  BY <1>20 DEF Erase, Destroy
<1>21. ASSUME NEW t \in Reapers, EndBroadcast(t) PROVE LifeInv'
  BY <1>21 DEF EndBroadcast
<1>22. ASSUME NEW t \in Reapers, NEW s \in Sessions, Reap(t, s) PROVE LifeInv'
  BY <1>22 DEF Reap, Stop, Wanted
<1>23. ASSUME NEW t \in Reapers, NEW s \in Sessions, PassOver(t, s) PROVE LifeInv'
  BY <1>23 DEF PassOver, Wanted
<1>24. ASSUME NEW s \in Sessions, NEW k \in Streams, ThreadEnds(s, k) PROVE LifeInv'
  BY <1>24 DEF ThreadEnds, Stop
<1>25. CASE ControlLoop
  BY <1>25 DEF ControlLoop
<1>26. CASE ScanDone
  BY <1>26 DEF ScanDone
<1>27. CASE Check
  BY <1>27 DEF Check
<1>28. CASE Service
  BY <1>28 DEF Service, Claim, Stop
<1>29. CASE ControlExit
  BY <1>29 DEF ControlExit
<1>30. ASSUME NEW s \in Sessions, Visit(s) PROVE LifeInv'
  <2>1. s \in Sessions /\ s \in listed /\ listed' \subseteq listed
    BY <1>30 DEF Visit
  <2>2. \A r \in Sessions : (controlEnd'[r] <=> controlEnd[r]) \/ (r = s /\ controlEnd'[r])
    BY <1>30 DEF Visit
  <2>3. UNCHANGED <<pc, cur, announcing, slots, life, thread, hold>>
    BY <1>30 DEF Visit
  <2> QED
    BY <2>1, <2>2, <2>3
<1>31. CASE BroadcastFails
  BY <1>31 DEF BroadcastFails
<1>32. CASE AppChanges
  BY <1>32 DEF AppChanges
<1>33. CASE UNCHANGED vars
  BY <1>33 DEF vars
<1>34. CASE Popped
  BY <1>34 DEF Popped, Claim
<1> QED
  BY <1>1, <1>2, <1>3, <1>4, <1>5, <1>6, <1>7, <1>8, <1>9, <1>10, <1>11,
     <1>12, <1>13, <1>14, <1>15, <1>16, <1>17, <1>18, <1>19, <1>20, <1>21,
     <1>22, <1>23, <1>24, <1>25, <1>26, <1>27, <1>28, <1>29, <1>30, <1>31,
     <1>32, <1>33, <1>34
     DEF Next, Announce, Clear, Control

(* Every step keeps what join has waited for.                              *)
LEMMA JoinStep == Inv /\ [Next]_vars => JoinInv'
<1> SUFFICES ASSUME Inv, [Next]_vars PROVE JoinInv'
  OBVIOUS
<1> USE SessionAssumption
    DEF Inv, TypeOK, JoinInv, LockInv, StartInv, ControlInv,
        Goto, Active, Announcing, StartPcs, JoinPcs, ClearPcs, Reapers, Modes,
        reaperVars, slotVars, sessionVars, countVars, castVars, controlVars
<1>1. ASSUME NEW s \in Sessions, Alloc(s) PROVE JoinInv'
  BY <1>1 DEF Alloc
<1>2. CASE Insert
  BY <1>2 DEF Insert
<1>3. CASE Ref
  BY <1>3 DEF Ref
<1>4. CASE Push
  BY <1>4 DEF Push
<1>5. CASE StartThreads
  BY <1>5 DEF StartThreads
<1>6. CASE StoreRunning
  BY <1>6 DEF StoreRunning
<1>7. CASE CountUp
  BY <1>7 DEF CountUp
<1>8. CASE StreamingWillStart
  BY <1>8 DEF StreamingWillStart
<1>9. CASE Remove
  BY <1>9 DEF Remove
<1>10. CASE Respond
  BY <1>10 DEF Respond, Destroy
<1>11. CASE Peek
  BY <1>11 DEF Peek
<1>12. ASSUME NEW m \in Calls, Call(m) PROVE JoinInv'
  BY <1>12 DEF Call
<1>13. ASSUME NEW t \in Reapers, Lock(t) PROVE JoinInv'
  BY <1>13 DEF Lock
<1>14. ASSUME NEW t \in Reapers, Unlock(t) PROVE JoinInv'
  BY <1>14 DEF Unlock
<1>15. ASSUME NEW t \in Reapers, JoinThreads(t) PROVE JoinInv'
  BY <1>15 DEF JoinThreads
<1>16. ASSUME NEW t \in Reapers, JoinThrows(t) PROVE JoinInv'
  BY <1>16 DEF JoinThrows
<1>17. ASSUME NEW t \in Reapers, JoinControl(t) PROVE JoinInv'
  BY <1>17 DEF JoinControl
<1>18. ASSUME NEW t \in Reapers, CountDown(t) PROVE JoinInv'
  BY <1>18 DEF CountDown
<1>19. ASSUME NEW t \in Reapers, StreamingWillStop(t) PROVE JoinInv'
  BY <1>19 DEF StreamingWillStop
<1>20. ASSUME NEW t \in Reapers, Erase(t) PROVE JoinInv'
  BY <1>20 DEF Erase, Destroy
<1>21. ASSUME NEW t \in Reapers, EndBroadcast(t) PROVE JoinInv'
  BY <1>21 DEF EndBroadcast
<1>22. ASSUME NEW t \in Reapers, NEW s \in Sessions, Reap(t, s) PROVE JoinInv'
  BY <1>22 DEF Reap, Stop, Wanted
<1>23. ASSUME NEW t \in Reapers, NEW s \in Sessions, PassOver(t, s) PROVE JoinInv'
  BY <1>23 DEF PassOver, Wanted
<1>24. ASSUME NEW s \in Sessions, NEW k \in Streams, ThreadEnds(s, k) PROVE JoinInv'
  BY <1>24 DEF ThreadEnds, Stop
<1>25. CASE ControlLoop
  BY <1>25 DEF ControlLoop
<1>26. CASE ScanDone
  BY <1>26 DEF ScanDone
<1>27. CASE Check
  BY <1>27 DEF Check
<1>28. CASE Service
  BY <1>28 DEF Service, Claim, Stop
<1>29. CASE ControlExit
  BY <1>29 DEF ControlExit
<1>30. ASSUME NEW s \in Sessions, Visit(s) PROVE JoinInv'
  <2>1. s \in Sessions /\ s \in listed /\ listed' \subseteq listed
    BY <1>30 DEF Visit
  <2>2. \A r \in Sessions : (controlEnd'[r] <=> controlEnd[r]) \/ (r = s /\ controlEnd'[r])
    BY <1>30 DEF Visit
  <2>3. UNCHANGED <<pc, cur, announcing, slots, life, thread, hold>>
    BY <1>30 DEF Visit
  <2> QED
    BY <2>1, <2>2, <2>3
<1>31. CASE BroadcastFails
  BY <1>31 DEF BroadcastFails
<1>32. CASE AppChanges
  BY <1>32 DEF AppChanges
<1>33. CASE UNCHANGED vars
  BY <1>33 DEF vars
<1>34. CASE Popped
  BY <1>34 DEF Popped, Claim
<1> QED
  BY <1>1, <1>2, <1>3, <1>4, <1>5, <1>6, <1>7, <1>8, <1>9, <1>10, <1>11,
     <1>12, <1>13, <1>14, <1>15, <1>16, <1>17, <1>18, <1>19, <1>20, <1>21,
     <1>22, <1>23, <1>24, <1>25, <1>26, <1>27, <1>28, <1>29, <1>30, <1>31,
     <1>32, <1>33, <1>34
     DEF Next, Announce, Clear, Control

(* Every step keeps quiet a session reaped in the midst of start().        *)
LEMMA LeftStep == Inv /\ [Next]_vars => LeftInv'
<1> SUFFICES ASSUME Inv, [Next]_vars PROVE LeftInv'
  OBVIOUS
<1> USE SessionAssumption
    DEF Inv, TypeOK, LeftInv, StartInv, LockInv, JoinInv, ControlInv, LifeInv,
        Goto, Active, Announcing, StartPcs, JoinPcs, ClearPcs, Reapers, Modes,
        reaperVars, slotVars, sessionVars, countVars, castVars, controlVars
<1>1. ASSUME NEW s \in Sessions, Alloc(s) PROVE LeftInv'
  BY <1>1 DEF Alloc
<1>2. CASE Insert
  BY <1>2 DEF Insert
<1>3. CASE Ref
  BY <1>3 DEF Ref
<1>4. CASE Push
  BY <1>4 DEF Push
<1>5. CASE StartThreads
  BY <1>5 DEF StartThreads
<1>6. CASE StoreRunning
  BY <1>6 DEF StoreRunning
<1>7. CASE CountUp
  BY <1>7 DEF CountUp
<1>8. CASE StreamingWillStart
  BY <1>8 DEF StreamingWillStart
<1>9. CASE Remove
  BY <1>9 DEF Remove
<1>10. CASE Respond
  BY <1>10 DEF Respond, Destroy
<1>11. CASE Peek
  BY <1>11 DEF Peek
<1>12. ASSUME NEW m \in Calls, Call(m) PROVE LeftInv'
  BY <1>12 DEF Call
<1>13. ASSUME NEW t \in Reapers, Lock(t) PROVE LeftInv'
  BY <1>13 DEF Lock
<1>14. ASSUME NEW t \in Reapers, Unlock(t) PROVE LeftInv'
  BY <1>14 DEF Unlock
<1>15. ASSUME NEW t \in Reapers, JoinThreads(t) PROVE LeftInv'
  BY <1>15 DEF JoinThreads
<1>16. ASSUME NEW t \in Reapers, JoinThrows(t) PROVE LeftInv'
  BY <1>16 DEF JoinThrows
<1>17. ASSUME NEW t \in Reapers, JoinControl(t) PROVE LeftInv'
  BY <1>17 DEF JoinControl
<1>18. ASSUME NEW t \in Reapers, CountDown(t) PROVE LeftInv'
  BY <1>18 DEF CountDown
<1>19. ASSUME NEW t \in Reapers, StreamingWillStop(t) PROVE LeftInv'
  BY <1>19 DEF StreamingWillStop
<1>20. ASSUME NEW t \in Reapers, Erase(t) PROVE LeftInv'
  BY <1>20 DEF Erase, Destroy
<1>21. ASSUME NEW t \in Reapers, EndBroadcast(t) PROVE LeftInv'
  BY <1>21 DEF EndBroadcast
<1>22. ASSUME NEW t \in Reapers, NEW s \in Sessions, Reap(t, s) PROVE LeftInv'
  BY <1>22 DEF Reap, Stop, Wanted
<1>23. ASSUME NEW t \in Reapers, NEW s \in Sessions, PassOver(t, s) PROVE LeftInv'
  BY <1>23 DEF PassOver, Wanted
<1>24. ASSUME NEW s \in Sessions, NEW k \in Streams, ThreadEnds(s, k) PROVE LeftInv'
  BY <1>24 DEF ThreadEnds, Stop
<1>25. CASE ControlLoop
  BY <1>25 DEF ControlLoop
<1>26. CASE ScanDone
  BY <1>26 DEF ScanDone
<1>27. CASE Check
  BY <1>27 DEF Check
<1>28. CASE Service
  BY <1>28 DEF Service, Claim, Stop
<1>29. CASE ControlExit
  BY <1>29 DEF ControlExit
<1>30. ASSUME NEW s \in Sessions, Visit(s) PROVE LeftInv'
  BY <1>30 DEF Visit, Stop
<1>31. CASE BroadcastFails
  BY <1>31 DEF BroadcastFails
<1>32. CASE AppChanges
  BY <1>32 DEF AppChanges
<1>33. CASE UNCHANGED vars
  BY <1>33 DEF vars
<1>34. CASE Popped
  BY <1>34 DEF Popped, Claim
<1> QED
  BY <1>1, <1>2, <1>3, <1>4, <1>5, <1>6, <1>7, <1>8, <1>9, <1>10, <1>11,
     <1>12, <1>13, <1>14, <1>15, <1>16, <1>17, <1>18, <1>19, <1>20, <1>21,
     <1>22, <1>23, <1>24, <1>25, <1>26, <1>27, <1>28, <1>29, <1>30, <1>31,
     <1>32, <1>33, <1>34
     DEF Next, Announce, Clear, Control

(* Every step keeps the control thread and its list in line.               *)
LEMMA ControlStep == Inv /\ [Next]_vars => ControlInv'
<1> SUFFICES ASSUME Inv, [Next]_vars PROVE ControlInv'
  OBVIOUS
<1> USE SessionAssumption
    DEF Inv, TypeOK, ControlInv, StartInv, RefInv,
        Goto, Active, Announcing, StartPcs, JoinPcs, ClearPcs, Reapers, Modes,
        reaperVars, slotVars, sessionVars, countVars, castVars, controlVars
<1>1. ASSUME NEW s \in Sessions, Alloc(s) PROVE ControlInv'
  BY <1>1 DEF Alloc
<1>2. CASE Insert
  BY <1>2 DEF Insert
<1>3. CASE Ref
  BY <1>3 DEF Ref
<1>4. CASE Push
  BY <1>4 DEF Push
<1>5. CASE StartThreads
  BY <1>5 DEF StartThreads
<1>6. CASE StoreRunning
  BY <1>6 DEF StoreRunning
<1>7. CASE CountUp
  BY <1>7 DEF CountUp
<1>8. CASE StreamingWillStart
  BY <1>8 DEF StreamingWillStart
<1>9. CASE Remove
  BY <1>9 DEF Remove
<1>10. CASE Respond
  BY <1>10 DEF Respond, Destroy
<1>11. CASE Peek
  BY <1>11 DEF Peek
<1>12. ASSUME NEW m \in Calls, Call(m) PROVE ControlInv'
  BY <1>12 DEF Call
<1>13. ASSUME NEW t \in Reapers, Lock(t) PROVE ControlInv'
  BY <1>13 DEF Lock
<1>14. ASSUME NEW t \in Reapers, Unlock(t) PROVE ControlInv'
  BY <1>14 DEF Unlock
<1>15. ASSUME NEW t \in Reapers, JoinThreads(t) PROVE ControlInv'
  BY <1>15 DEF JoinThreads
<1>16. ASSUME NEW t \in Reapers, JoinThrows(t) PROVE ControlInv'
  BY <1>16 DEF JoinThrows
<1>17. ASSUME NEW t \in Reapers, JoinControl(t) PROVE ControlInv'
  BY <1>17 DEF JoinControl
<1>18. ASSUME NEW t \in Reapers, CountDown(t) PROVE ControlInv'
  BY <1>18 DEF CountDown
<1>19. ASSUME NEW t \in Reapers, StreamingWillStop(t) PROVE ControlInv'
  BY <1>19 DEF StreamingWillStop
<1>20. ASSUME NEW t \in Reapers, Erase(t) PROVE ControlInv'
  BY <1>20 DEF Erase, Destroy
<1>21. ASSUME NEW t \in Reapers, EndBroadcast(t) PROVE ControlInv'
  BY <1>21 DEF EndBroadcast
<1>22. ASSUME NEW t \in Reapers, NEW s \in Sessions, Reap(t, s) PROVE ControlInv'
  BY <1>22 DEF Reap, Stop, Wanted
<1>23. ASSUME NEW t \in Reapers, NEW s \in Sessions, PassOver(t, s) PROVE ControlInv'
  BY <1>23 DEF PassOver, Wanted
<1>24. ASSUME NEW s \in Sessions, NEW k \in Streams, ThreadEnds(s, k) PROVE ControlInv'
  BY <1>24 DEF ThreadEnds, Stop
<1>25. CASE ControlLoop
  BY <1>25 DEF ControlLoop
<1>26. CASE ScanDone
  BY <1>26 DEF ScanDone
<1>27. CASE Check
  BY <1>27 DEF Check
<1>28. CASE Service
  BY <1>28 DEF Service, Claim, Stop
<1>29. CASE ControlExit
  BY <1>29 DEF ControlExit
<1>30. ASSUME NEW s \in Sessions, Visit(s) PROVE ControlInv'
  BY <1>30 DEF Visit, Stop
<1>31. CASE BroadcastFails
  BY <1>31 DEF BroadcastFails
<1>32. CASE AppChanges
  BY <1>32 DEF AppChanges
<1>33. CASE UNCHANGED vars
  BY <1>33 DEF vars
<1>34. CASE Popped
  BY <1>34 DEF Popped, Claim
<1> QED
  BY <1>1, <1>2, <1>3, <1>4, <1>5, <1>6, <1>7, <1>8, <1>9, <1>10, <1>11,
     <1>12, <1>13, <1>14, <1>15, <1>16, <1>17, <1>18, <1>19, <1>20, <1>21,
     <1>22, <1>23, <1>24, <1>25, <1>26, <1>27, <1>28, <1>29, <1>30, <1>31,
     <1>32, <1>33, <1>34
     DEF Next, Announce, Clear, Control

(* Every step keeps the references to the broadcast context.               *)
LEMMA RefStep == Inv /\ [Next]_vars => RefInv'
<1> SUFFICES ASSUME Inv, [Next]_vars PROVE RefInv'
  OBVIOUS
<1> USE SessionAssumption
    DEF Inv, TypeOK, RefInv, LeftInv, JoinInv, StartInv, LockInv, LifeInv,
        Goto, Active, Announcing, StartPcs, JoinPcs, ClearPcs, Reapers, Modes,
        reaperVars, slotVars, sessionVars, countVars, castVars, controlVars
<1>1. ASSUME NEW s \in Sessions, Alloc(s) PROVE RefInv'
  BY <1>1 DEF Alloc
<1>2. CASE Insert
  BY <1>2 DEF Insert
<1>3. CASE Ref
  <2>1. CASE broadcast /\ hold' = [hold EXCEPT ![announcing] = TRUE]
    BY <1>3, <2>1 DEF Ref
  <2>2. CASE ~broadcast /\ broadcast' = TRUE /\ hold' = [hold EXCEPT ![announcing] = TRUE]
    <3>1. \A s \in Sessions : ~hold[s]
      BY <2>2
    <3>2. \A s \in Sessions, k \in Streams : thread[s][k] # "running"
      BY <3>1
    <3>3. /\ announcing \in Sessions
          /\ hold'[announcing]
          /\ ending = None
          /\ UNCHANGED <<thread, ending>>
      BY <1>3, <2>2 DEF Ref
    <3>4. \A t \in Reapers : pc'[t] = "end" <=> pc[t] = "end"
      BY <1>3 DEF Ref
    <3> QED
      BY <2>2, <3>1, <3>2, <3>3, <3>4
  <2>3. CASE UNCHANGED <<broadcast, hold>>
    BY <1>3, <2>3 DEF Ref
  <2> QED
    BY <1>3, <2>1, <2>2, <2>3 DEF Ref
<1>4. CASE Push
  BY <1>4 DEF Push
<1>5. CASE StartThreads
  BY <1>5 DEF StartThreads
<1>6. CASE StoreRunning
  BY <1>6 DEF StoreRunning
<1>7. CASE CountUp
  BY <1>7 DEF CountUp
<1>8. CASE StreamingWillStart
  BY <1>8 DEF StreamingWillStart
<1>9. CASE Remove
  BY <1>9 DEF Remove
<1>10. CASE Respond
  <2>1. CASE announcing \in slots
    BY <1>10, <2>1 DEF Respond
  <2>2. CASE announcing \notin slots
    <3>1. announcing \in Sessions /\ \A k \in Streams : thread[announcing][k] # "running"
      BY <1>10, <2>2 DEF Respond
    <3>2. /\ pc["rtsp"] # "end"
          /\ Destroy("rtsp", announcing, "peek")
          /\ UNCHANGED <<broadcast, thread>>
      BY <1>10, <2>2 DEF Respond
    <3>3. "rtsp" \in Reapers
      BY DEF Reapers
    <3> HIDE DEF TypeOK, RefInv, Reapers
    <3> QED
      BY <3>1, <3>2, <3>3, DestroyRef
  <2> QED
    BY <2>1, <2>2
<1>11. CASE Peek
  BY <1>11 DEF Peek
<1>12. ASSUME NEW m \in Calls, Call(m) PROVE RefInv'
  BY <1>12 DEF Call
<1>13. ASSUME NEW t \in Reapers, Lock(t) PROVE RefInv'
  BY <1>13 DEF Lock
<1>14. ASSUME NEW t \in Reapers, Unlock(t) PROVE RefInv'
  BY <1>14 DEF Unlock
<1>15. ASSUME NEW t \in Reapers, JoinThreads(t) PROVE RefInv'
  BY <1>15 DEF JoinThreads
<1>16. ASSUME NEW t \in Reapers, JoinThrows(t) PROVE RefInv'
  BY <1>16 DEF JoinThrows
<1>17. ASSUME NEW t \in Reapers, JoinControl(t) PROVE RefInv'
  BY <1>17 DEF JoinControl
<1>18. ASSUME NEW t \in Reapers, CountDown(t) PROVE RefInv'
  BY <1>18 DEF CountDown
<1>19. ASSUME NEW t \in Reapers, StreamingWillStop(t) PROVE RefInv'
  BY <1>19 DEF StreamingWillStop
<1>20. ASSUME NEW t \in Reapers, Erase(t) PROVE RefInv'
  <2>1. CASE announcing = cur[t]
    BY <1>20, <2>1 DEF Erase
  <2>2. CASE announcing # cur[t]
    <3>1. cur[t] \in Sessions /\ \A k \in Streams : thread[cur[t]][k] # "running"
      BY <1>20 DEF Erase
    <3>2. /\ pc[t] # "end"
          /\ Destroy(t, cur[t], "pick")
          /\ UNCHANGED <<broadcast, thread>>
      BY <1>20, <2>2 DEF Erase
    <3> HIDE DEF TypeOK, RefInv, Reapers
    <3> QED
      BY <3>1, <3>2, DestroyRef
  <2> QED
    BY <2>1, <2>2
<1>21. ASSUME NEW t \in Reapers, EndBroadcast(t) PROVE RefInv'
  BY <1>21 DEF EndBroadcast
<1>22. ASSUME NEW t \in Reapers, NEW s \in Sessions, Reap(t, s) PROVE RefInv'
  BY <1>22 DEF Reap, Stop, Wanted
<1>23. ASSUME NEW t \in Reapers, NEW s \in Sessions, PassOver(t, s) PROVE RefInv'
  BY <1>23 DEF PassOver, Wanted
<1>24. ASSUME NEW s \in Sessions, NEW k \in Streams, ThreadEnds(s, k) PROVE RefInv'
  BY <1>24 DEF ThreadEnds, Stop
<1>25. CASE ControlLoop
  BY <1>25 DEF ControlLoop
<1>26. CASE ScanDone
  BY <1>26 DEF ScanDone
<1>27. CASE Check
  BY <1>27 DEF Check
<1>28. CASE Service
  BY <1>28 DEF Service, Claim, Stop
<1>29. CASE ControlExit
  BY <1>29 DEF ControlExit
<1>30. ASSUME NEW s \in Sessions, Visit(s) PROVE RefInv'
  BY <1>30 DEF Visit, Stop
<1>31. CASE BroadcastFails
  BY <1>31 DEF BroadcastFails
<1>32. CASE AppChanges
  BY <1>32 DEF AppChanges
<1>33. CASE UNCHANGED vars
  BY <1>33 DEF vars
<1>34. CASE Popped
  BY <1>34 DEF Popped, Claim
<1> QED
  BY <1>1, <1>2, <1>3, <1>4, <1>5, <1>6, <1>7, <1>8, <1>9, <1>10, <1>11,
     <1>12, <1>13, <1>14, <1>15, <1>16, <1>17, <1>18, <1>19, <1>20, <1>21,
     <1>22, <1>23, <1>24, <1>25, <1>26, <1>27, <1>28, <1>29, <1>30, <1>31,
     <1>32, <1>33, <1>34
     DEF Next, Announce, Clear, Control

(* No step destroys a session on the list of the control thread.           *)
LEMMA AliveStep == Inv /\ [Next]_vars => ListedAreAlive'
<1> SUFFICES ASSUME Inv, [Next]_vars PROVE ListedAreAlive'
  OBVIOUS
<1> USE SessionAssumption
    DEF Inv, TypeOK, ListedAreAlive, LifeInv, StartInv, ControlInv, LeftInv, LockInv, JoinInv,
        Goto, Active, Announcing, StartPcs, JoinPcs, ClearPcs, Reapers, Modes,
        reaperVars, slotVars, sessionVars, countVars, castVars, controlVars
<1>1. ASSUME NEW s \in Sessions, Alloc(s) PROVE ListedAreAlive'
  BY <1>1 DEF Alloc
<1>2. CASE Insert
  BY <1>2 DEF Insert
<1>3. CASE Ref
  BY <1>3 DEF Ref
<1>4. CASE Push
  BY <1>4 DEF Push
<1>5. CASE StartThreads
  BY <1>5 DEF StartThreads
<1>6. CASE StoreRunning
  BY <1>6 DEF StoreRunning
<1>7. CASE CountUp
  BY <1>7 DEF CountUp
<1>8. CASE StreamingWillStart
  BY <1>8 DEF StreamingWillStart
<1>9. CASE Remove
  BY <1>9 DEF Remove
<1>10. CASE Respond
  BY <1>10 DEF Respond, Destroy
<1>11. CASE Peek
  BY <1>11 DEF Peek
<1>12. ASSUME NEW m \in Calls, Call(m) PROVE ListedAreAlive'
  BY <1>12 DEF Call
<1>13. ASSUME NEW t \in Reapers, Lock(t) PROVE ListedAreAlive'
  BY <1>13 DEF Lock
<1>14. ASSUME NEW t \in Reapers, Unlock(t) PROVE ListedAreAlive'
  BY <1>14 DEF Unlock
<1>15. ASSUME NEW t \in Reapers, JoinThreads(t) PROVE ListedAreAlive'
  BY <1>15 DEF JoinThreads
<1>16. ASSUME NEW t \in Reapers, JoinThrows(t) PROVE ListedAreAlive'
  BY <1>16 DEF JoinThrows
<1>17. ASSUME NEW t \in Reapers, JoinControl(t) PROVE ListedAreAlive'
  BY <1>17 DEF JoinControl
<1>18. ASSUME NEW t \in Reapers, CountDown(t) PROVE ListedAreAlive'
  BY <1>18 DEF CountDown
<1>19. ASSUME NEW t \in Reapers, StreamingWillStop(t) PROVE ListedAreAlive'
  BY <1>19 DEF StreamingWillStop
<1>20. ASSUME NEW t \in Reapers, Erase(t) PROVE ListedAreAlive'
  BY <1>20 DEF Erase, Destroy
<1>21. ASSUME NEW t \in Reapers, EndBroadcast(t) PROVE ListedAreAlive'
  BY <1>21 DEF EndBroadcast
<1>22. ASSUME NEW t \in Reapers, NEW s \in Sessions, Reap(t, s) PROVE ListedAreAlive'
  BY <1>22 DEF Reap, Stop, Wanted
<1>23. ASSUME NEW t \in Reapers, NEW s \in Sessions, PassOver(t, s) PROVE ListedAreAlive'
  BY <1>23 DEF PassOver, Wanted
<1>24. ASSUME NEW s \in Sessions, NEW k \in Streams, ThreadEnds(s, k) PROVE ListedAreAlive'
  BY <1>24 DEF ThreadEnds, Stop
<1>25. CASE ControlLoop
  BY <1>25 DEF ControlLoop
<1>26. CASE ScanDone
  BY <1>26 DEF ScanDone
<1>27. CASE Check
  BY <1>27 DEF Check
<1>28. CASE Service
  BY <1>28 DEF Service, Claim, Stop
<1>29. CASE ControlExit
  BY <1>29 DEF ControlExit
<1>30. ASSUME NEW s \in Sessions, Visit(s) PROVE ListedAreAlive'
  BY <1>30 DEF Visit, Stop
<1>31. CASE BroadcastFails
  BY <1>31 DEF BroadcastFails
<1>32. CASE AppChanges
  BY <1>32 DEF AppChanges
<1>33. CASE UNCHANGED vars
  BY <1>33 DEF vars
<1>34. CASE Popped
  BY <1>34 DEF Popped, Claim
<1> QED
  BY <1>1, <1>2, <1>3, <1>4, <1>5, <1>6, <1>7, <1>8, <1>9, <1>10, <1>11,
     <1>12, <1>13, <1>14, <1>15, <1>16, <1>17, <1>18, <1>19, <1>20, <1>21,
     <1>22, <1>23, <1>24, <1>25, <1>26, <1>27, <1>28, <1>29, <1>30, <1>31,
     <1>32, <1>33, <1>34
     DEF Next, Announce, Clear, Control

(* No step destroys a session with a running thread.                       *)
LEMMA QuietStep == Inv /\ [Next]_vars => FreedIsQuiet'
<1> SUFFICES ASSUME Inv, [Next]_vars PROVE FreedIsQuiet'
  OBVIOUS
<1> USE SessionAssumption
    DEF Inv, TypeOK, FreedIsQuiet, LifeInv, StartInv, LockInv, JoinInv, LeftInv, RefInv,
        Goto, Active, Announcing, StartPcs, JoinPcs, ClearPcs, Reapers, Modes,
        reaperVars, slotVars, sessionVars, countVars, castVars, controlVars
<1>1. ASSUME NEW s \in Sessions, Alloc(s) PROVE FreedIsQuiet'
  BY <1>1 DEF Alloc
<1>2. CASE Insert
  BY <1>2 DEF Insert
<1>3. CASE Ref
  BY <1>3 DEF Ref
<1>4. CASE Push
  BY <1>4 DEF Push
<1>5. CASE StartThreads
  BY <1>5 DEF StartThreads
<1>6. CASE StoreRunning
  BY <1>6 DEF StoreRunning
<1>7. CASE CountUp
  BY <1>7 DEF CountUp
<1>8. CASE StreamingWillStart
  BY <1>8 DEF StreamingWillStart
<1>9. CASE Remove
  BY <1>9 DEF Remove
<1>10. CASE Respond
  BY <1>10 DEF Respond, Destroy
<1>11. CASE Peek
  BY <1>11 DEF Peek
<1>12. ASSUME NEW m \in Calls, Call(m) PROVE FreedIsQuiet'
  BY <1>12 DEF Call
<1>13. ASSUME NEW t \in Reapers, Lock(t) PROVE FreedIsQuiet'
  BY <1>13 DEF Lock
<1>14. ASSUME NEW t \in Reapers, Unlock(t) PROVE FreedIsQuiet'
  BY <1>14 DEF Unlock
<1>15. ASSUME NEW t \in Reapers, JoinThreads(t) PROVE FreedIsQuiet'
  BY <1>15 DEF JoinThreads
<1>16. ASSUME NEW t \in Reapers, JoinThrows(t) PROVE FreedIsQuiet'
  BY <1>16 DEF JoinThrows
<1>17. ASSUME NEW t \in Reapers, JoinControl(t) PROVE FreedIsQuiet'
  BY <1>17 DEF JoinControl
<1>18. ASSUME NEW t \in Reapers, CountDown(t) PROVE FreedIsQuiet'
  BY <1>18 DEF CountDown
<1>19. ASSUME NEW t \in Reapers, StreamingWillStop(t) PROVE FreedIsQuiet'
  BY <1>19 DEF StreamingWillStop
<1>20. ASSUME NEW t \in Reapers, Erase(t) PROVE FreedIsQuiet'
  BY <1>20 DEF Erase, Destroy
<1>21. ASSUME NEW t \in Reapers, EndBroadcast(t) PROVE FreedIsQuiet'
  BY <1>21 DEF EndBroadcast
<1>22. ASSUME NEW t \in Reapers, NEW s \in Sessions, Reap(t, s) PROVE FreedIsQuiet'
  BY <1>22 DEF Reap, Stop, Wanted
<1>23. ASSUME NEW t \in Reapers, NEW s \in Sessions, PassOver(t, s) PROVE FreedIsQuiet'
  BY <1>23 DEF PassOver, Wanted
<1>24. ASSUME NEW s \in Sessions, NEW k \in Streams, ThreadEnds(s, k) PROVE FreedIsQuiet'
  BY <1>24 DEF ThreadEnds, Stop
<1>25. CASE ControlLoop
  BY <1>25 DEF ControlLoop
<1>26. CASE ScanDone
  BY <1>26 DEF ScanDone
<1>27. CASE Check
  BY <1>27 DEF Check
<1>28. CASE Service
  BY <1>28 DEF Service, Claim, Stop
<1>29. CASE ControlExit
  BY <1>29 DEF ControlExit
<1>30. ASSUME NEW s \in Sessions, Visit(s) PROVE FreedIsQuiet'
  BY <1>30 DEF Visit, Stop
<1>31. CASE BroadcastFails
  BY <1>31 DEF BroadcastFails
<1>32. CASE AppChanges
  BY <1>32 DEF AppChanges
<1>33. CASE UNCHANGED vars
  BY <1>33 DEF vars
<1>34. CASE Popped
  BY <1>34 DEF Popped, Claim
<1> QED
  BY <1>1, <1>2, <1>3, <1>4, <1>5, <1>6, <1>7, <1>8, <1>9, <1>10, <1>11,
     <1>12, <1>13, <1>14, <1>15, <1>16, <1>17, <1>18, <1>19, <1>20, <1>21,
     <1>22, <1>23, <1>24, <1>25, <1>26, <1>27, <1>28, <1>29, <1>30, <1>31,
     <1>32, <1>33, <1>34
     DEF Next, Announce, Clear, Control


-----------------------------------------------------------------------------
(* The initial states satisfy the invariant: no session is born.           *)
LEMMA InitInv == Init => Inv
<1> SUFFICES ASSUME Init PROVE Inv
  OBVIOUS
<1> USE SessionAssumption DEF Init
<1>1. TypeOK
  <2>1. 0 \in 0 .. UintMod - 1
    <3>1. Cardinality(Sessions) \in Nat
      BY FS_CardinalityType
    <3> QED
      BY <3>1
  <2> QED
    BY <2>1 DEF TypeOK, StartPcs, ClearPcs, JoinPcs, Reapers, Modes
<1>2. LockInv /\ StartInv /\ LifeInv /\ JoinInv
  BY DEF LockInv, StartInv, LifeInv, JoinInv, Announcing, StartPcs, JoinPcs, Reapers
<1>3. LeftInv /\ ControlInv /\ RefInv
  BY DEF LeftInv, ControlInv, RefInv, Active, Reapers
<1>4. ListedAreAlive /\ FreedIsQuiet
  BY DEF ListedAreAlive, FreedIsQuiet
<1> QED
  BY <1>1, <1>2, <1>3, <1>4 DEF Inv

(* Every step keeps the whole invariant.                                   *)
LEMMA NextInv == Inv /\ [Next]_vars => Inv'
BY TypeStep, LockStep, StartStep, LifeStep, JoinStep, LeftStep, ControlStep,
   RefStep, AliveStep, QuietStep DEF Inv

(* Inv holds in every reachable state.                                     *)
THEOREM SpecInv == Spec => []Inv
<1> QED
  BY InitInv, NextInv, PTL DEF Spec

(* Every variable keeps its type; running_sessions stays in the range of   *)
(* its unsigned type.                                                      *)
THEOREM TypeCorrect == Spec => []TypeOK
<1> QED
  BY SpecInv, PTL DEF Inv

(* The control thread never meets a destroyed session in its list.         *)
THEOREM ControlListIsAlive == Spec => []ListedAreAlive
<1> QED
  BY SpecInv, PTL DEF Inv

(* A destroyed session has no running thread and no reference left.        *)
THEOREM FreedSessionIsQuiet == Spec => []FreedIsQuiet
<1> QED
  BY SpecInv, PTL DEF Inv

(* Nothing uses a destroyed session.                                       *)
THEOREM FreedSessionIsUnused == Spec => []FreedIsUnused
<1>1. Inv => FreedIsUnused
  BY DEF Inv, FreedIsUnused
<1> QED
  BY <1>1, SpecInv, PTL

(* The RTSP thread and a web thread never reap the same session.           *)
THEOREM OneReaper == Spec => []ReapedOnce
<1>1. Inv => ReapedOnce
  BY SessionAssumption
     DEF Inv, TypeOK, LockInv, LifeInv, ReapedOnce, JoinPcs, Reapers
<1> QED
  BY <1>1, SpecInv, PTL

(* The broadcast context exists exactly while a session or a thread refers *)
(* to it or end_broadcast is at work.                                      *)
THEOREM BroadcastLivesByReference == Spec => []BroadcastIsReferenced
<1>1. Inv => BroadcastIsReferenced
  BY DEF Inv, RefInv, BroadcastIsReferenced, Referenced
<1> QED
  BY <1>1, SpecInv, PTL

-----------------------------------------------------------------------------
(* The broadcast context is a shared object                                *)

(* Threads run only for sessions that hold the context themselves.         *)
LEMMA StreamingHolds ==
    ASSUME RefInv
    PROVE  Streaming = {s \in Sessions : hold[s]}
BY DEF RefInv, Streaming

LEMMA StreamingHoldsNext ==
    ASSUME RefInv'
    PROVE  Streaming' = {s \in Sessions : hold'[s]}
BY DEF RefInv, Streaming

(* Who destroys a session gives up the reference it held, if it did.       *)
LEMMA CastGives ==
    ASSUME NEW t \in Reapers, NEW s \in Sessions, NEW label,
           TypeOK, RefInv, RefInv', Destroy(t, s, label), broadcast' = broadcast
    PROVE  [Cast!Next]_Cast!vars
<1>1. hold' = [hold EXCEPT ![s] = FALSE] /\ ending' \in {t, ending}
  BY DEF Destroy
<1>2. Streaming = {r \in Sessions : hold[r]}
  BY StreamingHolds
<1>3. Streaming' = {r \in Sessions : hold'[r]}
  BY StreamingHoldsNext
<1>4. Streaming' = Streaming \ {s}
  BY <1>1, <1>2, <1>3 DEF TypeOK
<1>5. CASE hold[s]
  <2>1. broadcast /\ ending = None /\ Stage = "up" /\ s \in Streaming
    BY <1>2, <1>5 DEF RefInv, Stage
  <2>2. Streaming' = {} <=> ending' # None
    BY <1>3, <2>1 DEF RefInv
  <2>3. Stage' = IF Streaming' = {} THEN "going" ELSE "up"
    BY <2>1, <2>2 DEF Stage
  <2> QED
    BY <1>4, <2>1, <2>3 DEF Cast!Next, Cast!Give, Cast!Become
<1>6. CASE ~hold[s]
  <2>1. ending' = ending
    BY <1>6 DEF Destroy
  <2>2. Streaming' = Streaming
    BY <1>2, <1>4, <1>6
  <2> QED
    BY <2>1, <2>2 DEF Cast!vars, Stage
<1> QED
  BY <1>5, <1>6

(* Each step is one of the object's, or none.                              *)
LEMMA CastStep ==
    ASSUME Inv, Inv', [Next]_vars
    PROVE  [Cast!Next]_Cast!vars
<1> USE SessionAssumption
    DEF Goto, reaperVars, slotVars, sessionVars, countVars, castVars, controlVars
<1>1. TypeOK /\ RefInv /\ RefInv'
  BY DEF Inv
<1>2. Streaming = {s \in Sessions : hold[s]}
  BY <1>1, StreamingHolds
<1>3. Streaming' = {s \in Sessions : hold'[s]}
  BY <1>1, StreamingHoldsNext
<1>4. CASE UNCHANGED <<hold, broadcast, ending>>
  BY <1>2, <1>3, <1>4 DEF Cast!vars, Stage
<1>5. CASE Ref
  <2>1. ending = None /\ ending' = None /\ announcing \in Sessions
    BY <1>5 DEF Ref, Inv, TypeOK, StartInv, Announcing, StartPcs
  <2>2. CASE hold' = [hold EXCEPT ![announcing] = TRUE] /\ broadcast
    <3>1. Streaming' = Streaming \cup {announcing}
      BY <1>1, <1>2, <1>3, <2>1, <2>2 DEF TypeOK
    <3>2. broadcast'
      BY <1>3, <2>1, <2>2, <1>1 DEF RefInv, TypeOK
    <3>3. Stage = "up" /\ Stage' = "up"
      BY <2>1, <2>2, <3>2 DEF Stage
    <3> QED
      BY <2>1, <3>1, <3>3 DEF Cast!Next, Cast!Take, Cast!Become
  <2>3. CASE hold' = [hold EXCEPT ![announcing] = TRUE] /\ ~broadcast
    <3>1. Streaming' = {announcing}
      BY <1>1, <1>3, <2>1, <2>3 DEF TypeOK, RefInv
    <3>2. broadcast'
      BY <1>1, <2>1, <2>3 DEF RefInv, TypeOK
    <3>3. Stage = "none" /\ Stage' = "up"
      BY <2>1, <2>3, <3>2 DEF Stage
    <3> QED
      BY <2>1, <3>1, <3>3 DEF Cast!Next, Cast!Constructed, Cast!Become
  <2>4. \/ hold' = [hold EXCEPT ![announcing] = TRUE]
        \/ UNCHANGED <<hold, broadcast, ending>>
    BY <1>5 DEF Ref
  <2> QED
    BY <1>4, <2>2, <2>3, <2>4
<1>6. CASE Respond
  <2>1. CASE announcing \in slots
    BY <1>4, <1>6, <2>1 DEF Respond
  <2>2. CASE announcing \notin slots
    <3>1. announcing \in Sessions
      BY <1>6 DEF Respond, Inv, TypeOK, StartInv, Announcing, StartPcs
    <3>2. Destroy("rtsp", announcing, "peek") /\ broadcast' = broadcast
      BY <1>6, <2>2 DEF Respond
    <3> QED
      BY <1>1, <3>1, <3>2, CastGives DEF Reapers
  <2> QED
    BY <2>1, <2>2
<1>7. ASSUME NEW t \in Reapers, Erase(t) PROVE [Cast!Next]_Cast!vars
  <2>1. CASE announcing = cur[t]
    BY <1>4, <1>7, <2>1 DEF Erase
  <2>2. CASE announcing # cur[t]
    <3>1. cur[t] \in Sessions
      BY <1>1, <1>7 DEF Erase, Inv, LockInv, JoinPcs, TypeOK
    <3>2. Destroy(t, cur[t], "pick") /\ broadcast' = broadcast
      BY <1>7, <2>2 DEF Erase
    <3> QED
      BY <1>1, <3>1, <3>2, CastGives
  <2> QED
    BY <2>1, <2>2
<1>8. ASSUME NEW t \in Reapers, EndBroadcast(t) PROVE [Cast!Next]_Cast!vars
  <2>1. /\ ending # None /\ broadcast
        /\ ending' = None /\ ~broadcast' /\ hold' = hold
    BY <1>1, <1>8 DEF EndBroadcast, RefInv, Reapers
  <2>2. Stage = "going" /\ Stage' = "none"
    BY <2>1 DEF Stage
  <2> QED
    BY <1>2, <1>3, <2>1, <2>2 DEF Cast!Next, Cast!Destroyed, Cast!Become
<1>9. CASE \/ \E s \in Sessions : Alloc(s)
           \/ Insert \/ Push \/ StartThreads \/ StoreRunning \/ CountUp
           \/ StreamingWillStart \/ Remove \/ Peek
           \/ \E m \in Calls : Call(m)
  BY <1>4, <1>9
     DEF Alloc, Insert, Push, StartThreads, StoreRunning, CountUp,
         StreamingWillStart, Remove, Peek, Call
<1>10. ASSUME NEW t \in Reapers,
              \/ Lock(t) \/ Unlock(t) \/ JoinThreads(t) \/ JoinThrows(t)
              \/ JoinControl(t) \/ CountDown(t) \/ StreamingWillStop(t)
              \/ \E s \in Sessions : Reap(t, s) \/ PassOver(t, s)
       PROVE  [Cast!Next]_Cast!vars
  BY <1>4, <1>10
     DEF Lock, Unlock, JoinThreads, JoinThrows, JoinControl, CountDown,
         StreamingWillStop, Reap, PassOver
<1>11. CASE \/ \E s \in Sessions, k \in Streams : ThreadEnds(s, k)
            \/ Control \/ Popped \/ BroadcastFails \/ AppChanges
            \/ UNCHANGED vars
  BY <1>4, <1>11
     DEF ThreadEnds, Control, ControlLoop, ScanDone, Check, Service,
         Popped, ControlExit, Visit, BroadcastFails, AppChanges, vars
<1> QED
  BY <1>5, <1>6, <1>7, <1>8, <1>9, <1>10, <1>11 DEF Next, Announce, Clear

(* Sessions share the broadcast context as shared_t promises: it is made   *)
(* for the first and taken down only after the last, by whichever thread   *)
(* destroys that one.                                                      *)
THEOREM BroadcastIsShared == Spec => SharesBroadcast
<1>1. Init => Cast!Init
  BY DEF Init, Cast!Init, Stage, Streaming
<1>2. Inv /\ Inv' /\ [Next]_vars => [Cast!Next]_Cast!vars
  BY CastStep
<1> QED
  BY <1>1, <1>2, SpecInv, PTL DEF Spec, SharesBroadcast, Cast!Spec

(* What any user of a shared_t may rely on: the object is up exactly while *)
(* somebody refers to it.                                                  *)
THEOREM SharedWhileUsed == Cast!Spec => []Cast!UpWhileUsed
<1> USE DEF Cast!UpWhileUsed
<1>1. Cast!Init => Cast!UpWhileUsed
  BY DEF Cast!Init
<1>2. Cast!UpWhileUsed /\ [Cast!Next]_Cast!vars => Cast!UpWhileUsed'
  BY DEF Cast!Next, Cast!vars, Cast!Construct, Cast!Constructed, Cast!Refused,
         Cast!Take, Cast!Give, Cast!Destroyed, Cast!Stuck, Cast!Restart,
         Cast!Become
<1> QED
  BY <1>1, <1>2, PTL DEF Cast!Spec

-----------------------------------------------------------------------------
(* The counter of running sessions                                         *)

(* A session in the slots, or that has left them, is still to be counted.  *)
Uncounted ==
    IF pc["rtsp"] \in {"ref", "push", "threads", "store", "count", "remove"}
    THEN 1 ELSE 0

(* A session that is no longer counted is still in the slots.              *)
Discounted == IF \E t \in Reapers : pc[t] \in {"willstop", "erase"} THEN 1 ELSE 0

(* The sessions that are counted: one fewer than none, when the web thread *)
(* has counted down what start() has still to count.                       *)
Counted == Cardinality(slots) - Uncounted - Discounted

(* The unsigned counter, which wraps.                                      *)
CountInv == running = IF Counted >= 0 THEN Counted ELSE Counted + UintMod

(* What is left of a number below the modulus.                             *)
LEMMA Remainder ==
    ASSUME NEW m \in Nat, NEW a \in 0 .. (m - 1)
    PROVE  a % m = a /\ (a + m) % m = a
<1>1. m > 0
  OBVIOUS
<1>2. ASSUME NEW b \in Nat, NEW q \in Int, NEW r \in 0 .. (m - 1),
             NEW k \in 0 .. 1, b = a + k * m, b = m * q + r
      PROVE  r = a
  <2>1. m * (q - k) = a - r
    BY <1>2
  <2>2. a - r < m /\ a - r > 0 - m
    BY <1>1
  <2>3. CASE q - k >= 1
    <3>1. m * (q - k) >= m
      BY <1>1, <2>3
    <3> QED
      BY <2>1, <2>2, <3>1
  <2>4. CASE q - k <= -1
    <3>1. m * (q - k) <= 0 - m
      BY <1>1, <2>4
    <3> QED
      BY <2>1, <2>2, <3>1
  <2>5. CASE q - k = 0
    BY <2>1, <2>5
  <2> QED
    BY <2>3, <2>4, <2>5
<1>3. \A b \in Nat : b = m * (b \div m) + (b % m) /\ b % m \in 0 .. (m - 1)
                        /\ b \div m \in Int
  BY <1>1
<1>4. a % m = a
  BY <1>2, <1>3
<1>5. (a + m) % m = a
  BY <1>2, <1>3
<1> QED
  BY <1>4, <1>5

(* Counts are small against the range of the counter.                      *)
LEMMA CountTyped ==
    ASSUME TypeOK
    PROVE  /\ IsFiniteSet(slots)
           /\ Cardinality(slots) \in 0 .. Cardinality(Sessions)
           /\ Cardinality(Sessions) \in Nat
           /\ Uncounted \in 0 .. 1 /\ Discounted \in 0 .. 1
           /\ Counted \in -2 .. (UintMod - 2)
<1>1. slots \subseteq Sessions
  BY DEF TypeOK
<1>2. /\ IsFiniteSet(slots) /\ Cardinality(slots) <= Cardinality(Sessions)
      /\ Cardinality(slots) \in Nat /\ Cardinality(Sessions) \in Nat
  BY <1>1, SessionAssumption, FS_Subset, FS_CardinalityType
<1>3. Uncounted \in 0 .. 1 /\ Discounted \in 0 .. 1
  BY DEF Uncounted, Discounted
<1> QED
  BY <1>2, <1>3, SessionAssumption DEF Counted

(* The arithmetic of the counter.                                          *)
LEMMA CountMoves ==
    ASSUME NEW n \in -2 .. (UintMod - 2), NEW r,
           r = IF n >= 0 THEN n ELSE n + UintMod
    PROVE  /\ (r + 1) % UintMod = IF n + 1 >= 0 THEN n + 1 ELSE n + 1 + UintMod
           /\ n >= -1 => (r + UintMod - 1) % UintMod =
                            IF n - 1 >= 0 THEN n - 1 ELSE n - 1 + UintMod
<1> DEFINE m == UintMod
<1>0. m \in Nat /\ m >= 2 /\ n \in Int
  <2>1. Cardinality(Sessions) \in Nat
    BY SessionAssumption, FS_CardinalityType
  <2> QED
    BY <2>1, SessionAssumption
<1>1. m = UintMod
  OBVIOUS
<1> HIDE DEF m
<1>2. CASE n >= 0
  <2>1. (n + 1) % m = n + 1
    BY <1>0, <1>1, <1>2, Remainder
  <2>2. n >= 1 => ((n - 1) + m) % m = n - 1
    BY <1>0, <1>1, Remainder
  <2>3. n = 0 => (m - 1) % m = m - 1
    BY <1>0, Remainder
  <2>4. r = n /\ r + m - 1 = (n - 1) + m
    BY <1>0, <1>1, <1>2
  <2> QED
    BY <1>0, <1>1, <1>2, <2>1, <2>2, <2>3, <2>4
<1>3. CASE n = -1
  <2>1. r = m - 1 /\ r + 1 = 0 + m /\ r + m - 1 = (m - 2) + m
    BY <1>0, <1>1, <1>3
  <2>2. (0 + m) % m = 0 /\ ((m - 2) + m) % m = m - 2
    <3>1. 0 \in 0 .. (m - 1) /\ m - 2 \in 0 .. (m - 1)
      BY <1>0
    <3> QED
      BY <1>0, <3>1, Remainder
  <2> QED
    BY <1>0, <1>1, <1>3, <2>1, <2>2
<1>4. CASE n = -2
  <2>1. r + 1 = m - 1 /\ (m - 1) % m = m - 1
    BY <1>0, <1>1, <1>4, Remainder
  <2> QED
    BY <1>0, <1>1, <1>4, <2>1
<1> QED
  BY <1>0, <1>2, <1>3, <1>4

(* One thread at a time is in join().                                      *)
LEMMA OneJoin ==
    ASSUME TypeOK, LockInv, NEW t \in Reapers, pc[t] \in JoinPcs
    PROVE  \A u \in Reapers : u # t => pc[u] \notin JoinPcs
BY SessionAssumption DEF LockInv, Reapers

(* Steps that neither count nor come past a point that counts.             *)
LEMMA CountKept ==
    ASSUME TypeOK, CountInv, UNCHANGED <<slots, running>>,
           pc'["rtsp"] \in {"ref", "push", "threads", "store", "count", "remove"}
              <=> pc["rtsp"] \in {"ref", "push", "threads", "store", "count",
                                  "remove"},
           (\E t \in Reapers : pc'[t] \in {"willstop", "erase"})
              <=> \E t \in Reapers : pc[t] \in {"willstop", "erase"}
    PROVE  CountInv'
BY DEF CountInv, Counted, Uncounted, Discounted

LEMMA CountStep == Inv /\ CountInv /\ [Next]_vars => CountInv'
<1> SUFFICES ASSUME Inv, CountInv, [Next]_vars PROVE CountInv'
  OBVIOUS
<1>0. TypeOK /\ LockInv /\ StartInv /\ TypeOK'
  BY TypeStep DEF Inv
<1>1. CASE Insert
  <2>1. /\ slots' = slots \cup {announcing} /\ announcing \in Sessions
        /\ announcing \notin slots
        /\ running' = running
        /\ pc' = [pc EXCEPT !["rtsp"] = "ref"] /\ pc["rtsp"] = "insert"
    BY <1>0, <1>1 DEF Insert, Goto, StartInv, countVars, TypeOK, Announcing, StartPcs
  <2>2. Cardinality(slots') = Cardinality(slots) + 1
    BY <1>0, <2>1, CountTyped, FS_AddElement
  <2>3. Uncounted = 0 /\ Uncounted' = 1 /\ Discounted' = Discounted
    BY <1>0, <2>1 DEF Uncounted, Discounted, TypeOK, Reapers
  <2>4. Counted' = Counted
    BY <1>0, <2>2, <2>3, CountTyped DEF Counted
  <2> QED
    BY <2>1, <2>4 DEF CountInv
<1>2. CASE Remove
  <2>1. /\ slots' = slots \ {announcing} /\ announcing \in slots
        /\ running' = running
        /\ pc' = [pc EXCEPT !["rtsp"] = "respond"] /\ pc["rtsp"] = "remove"
    BY <1>0, <1>2 DEF Remove, Goto, StartInv, countVars
  <2>2. Cardinality(slots') = Cardinality(slots) - 1
    BY <1>0, <2>1, CountTyped, FS_RemoveElement
  <2>3. Uncounted = 1 /\ Uncounted' = 0 /\ Discounted' = Discounted
    BY <1>0, <2>1 DEF Uncounted, Discounted, TypeOK, Reapers
  <2>4. Counted' = Counted
    BY <1>0, <2>2, <2>3, CountTyped DEF Counted
  <2> QED
    BY <2>1, <2>4 DEF CountInv
<1>3. CASE CountUp
  <2>1. /\ slots' = slots /\ running' = (running + 1) % UintMod
        /\ \E l \in {"willstart", "respond"} : pc' = [pc EXCEPT !["rtsp"] = l]
        /\ pc["rtsp"] = "count"
    BY <1>3 DEF CountUp, Goto, slotVars
  <2>2. Uncounted = 1 /\ Uncounted' = 0 /\ Discounted' = Discounted
    BY <1>0, <2>1 DEF Uncounted, Discounted, TypeOK, Reapers
  <2>3. Counted' = Counted + 1
    BY <1>0, <2>1, <2>2, CountTyped DEF Counted
  <2>4. running' = IF Counted + 1 >= 0 THEN Counted + 1 ELSE Counted + 1 + UintMod
    BY <1>0, <2>1, CountTyped, CountMoves DEF CountInv
  <2> QED
    BY <2>3, <2>4 DEF CountInv
<1>4. ASSUME NEW t \in Reapers, CountDown(t) PROVE CountInv'
  <2>1. /\ slots' = slots /\ running' = (running + UintMod - 1) % UintMod
        /\ \E l \in {"willstop", "erase"} : pc' = [pc EXCEPT ![t] = l]
        /\ pc[t] = "uncount"
    BY <1>4 DEF CountDown, Goto, slotVars
  <2>2. \A u \in Reapers : pc[u] \notin {"willstop", "erase"}
    BY <1>0, <2>1, OneJoin DEF JoinPcs
  <2>3. Uncounted' = Uncounted /\ Discounted = 0 /\ Discounted' = 1
    BY <1>0, <2>1, <2>2 DEF Uncounted, Discounted, TypeOK, Reapers
  <2>4. Counted' = Counted - 1 /\ Counted >= -1
    BY <1>0, <2>1, <2>3, CountTyped DEF Counted
  <2>5. running' = IF Counted - 1 >= 0 THEN Counted - 1 ELSE Counted - 1 + UintMod
    BY <1>0, <2>1, <2>4, CountTyped, CountMoves DEF CountInv
  <2> QED
    BY <2>4, <2>5 DEF CountInv
<1>5. ASSUME NEW t \in Reapers, Erase(t) PROVE CountInv'
  <2>1. /\ slots' = slots \ {cur[t]} /\ cur[t] \in slots
        /\ running' = running
        /\ pc[t] = "erase"
    BY <1>0, <1>5 DEF Erase, LockInv, JoinPcs, countVars
  <2>2. \E l \in {"pick", "end"} : pc' = [pc EXCEPT ![t] = l]
    BY <1>5 DEF Erase, Destroy, Goto
  <2>3. \A u \in Reapers : u # t => pc[u] \notin {"willstop", "erase"}
    BY <1>0, <2>1, OneJoin DEF JoinPcs
  <2>4. Uncounted' = Uncounted /\ Discounted = 1 /\ Discounted' = 0
    BY <1>0, <2>1, <2>2, <2>3 DEF Uncounted, Discounted, TypeOK, Reapers
  <2>5. Cardinality(slots') = Cardinality(slots) - 1
    BY <1>0, <2>1, CountTyped, FS_RemoveElement
  <2>6. Counted' = Counted
    BY <1>0, <2>4, <2>5, CountTyped DEF Counted
  <2> QED
    BY <2>1, <2>6 DEF CountInv
<1>6. ASSUME NEW t \in Reapers, NEW l, NEW k, pc' = [pc EXCEPT ![t] = l],
             pc[t] = k, UNCHANGED <<slots, running>>,
             \/ /\ k \in {"ref", "push", "threads", "store"}
                /\ l \in {"push", "threads", "store", "count", "remove"}
             \/ k = "willstop" /\ l = "erase"
             \/ /\ k \notin {"ref", "push", "threads", "store", "count", "remove",
                             "willstop", "erase"}
                /\ l \notin {"ref", "push", "threads", "store", "count", "remove",
                             "willstop", "erase"}
      PROVE  CountInv'
  <2>1. pc'["rtsp"] \in {"ref", "push", "threads", "store", "count", "remove"}
           <=> pc["rtsp"] \in {"ref", "push", "threads", "store", "count", "remove"}
    BY <1>0, <1>6 DEF TypeOK, Reapers
  <2>2. (\E u \in Reapers : pc'[u] \in {"willstop", "erase"})
           <=> \E u \in Reapers : pc[u] \in {"willstop", "erase"}
    BY <1>0, <1>6 DEF TypeOK
  <2> QED
    BY <1>0, <1>6, <2>1, <2>2, CountKept
<1>7. CASE Ref \/ Push \/ StartThreads \/ StoreRunning
  <2>1. /\ \E l \in {"push", "threads", "store", "count", "remove"} :
              pc' = [pc EXCEPT !["rtsp"] = l]
        /\ pc["rtsp"] \in {"ref", "push", "threads", "store"}
        /\ UNCHANGED <<slots, running>>
    BY <1>7 DEF Ref, Push, StartThreads, StoreRunning, Goto, slotVars, countVars
  <2> QED
    BY <1>6, <2>1 DEF Reapers
<1>8. CASE (\E s \in Sessions : Alloc(s)) \/ StreamingWillStart \/ Respond \/ Peek
  <2>1. /\ \E l \in {"insert", "respond", "peek", "end", "lock"} :
              pc' = [pc EXCEPT !["rtsp"] = l]
        /\ pc["rtsp"] \in {"idle", "willstart", "respond", "peek"}
        /\ UNCHANGED <<slots, running>>
    BY <1>8 DEF Alloc, StreamingWillStart, Respond, Destroy, Peek, Goto, slotVars,
                countVars
  <2> QED
    BY <1>6, <2>1 DEF Reapers
<1>9. ASSUME NEW m \in Calls, Call(m) PROVE CountInv'
  <2>1. /\ pc' = [pc EXCEPT !["https"] = "lock"] /\ pc["https"] = "idle"
        /\ UNCHANGED <<slots, running>>
    BY <1>9 DEF Call, Goto, slotVars, countVars
  <2> QED
    BY <1>6, <2>1 DEF Reapers
<1>10. ASSUME NEW t \in Reapers,
              \/ Lock(t) \/ Unlock(t) \/ JoinThreads(t) \/ JoinThrows(t)
              \/ JoinControl(t) \/ EndBroadcast(t) \/ StreamingWillStop(t)
              \/ \E s \in Sessions : Reap(t, s)
       PROVE  CountInv'
  <2>1. UNCHANGED <<slots, running>>
    BY <1>10 DEF Lock, Unlock, JoinThreads, JoinThrows, JoinControl, EndBroadcast,
                 StreamingWillStop, Reap, slotVars, countVars
  <2>2. CASE StreamingWillStop(t)
    <3>1. pc' = [pc EXCEPT ![t] = "erase"] /\ pc[t] = "willstop"
      BY <2>2 DEF StreamingWillStop, Goto
    <3> QED
      BY <1>6, <2>1, <3>1
  <2>3. CASE ~StreamingWillStop(t)
    <3>1. /\ \E l \in {"pick", "idle", "controlEnd", "uncount", "peek", "join"} :
                pc' = [pc EXCEPT ![t] = l]
          /\ pc[t] \in {"lock", "pick", "join", "controlEnd", "end"}
      BY <1>10, <2>3 DEF Lock, Unlock, JoinThreads, JoinThrows, JoinControl,
                         EndBroadcast, Reap, Goto
    <3> QED
      BY <1>6, <2>1, <3>1
  <2> QED
    BY <2>2, <2>3
<1>11. CASE \/ \E t \in Reapers, s \in Sessions : PassOver(t, s)
            \/ \E s \in Sessions, k \in Streams : ThreadEnds(s, k)
            \/ Control \/ Popped \/ BroadcastFails \/ AppChanges
            \/ UNCHANGED vars
  <2>1. UNCHANGED <<pc, slots, running>>
    BY <1>11 DEF PassOver, ThreadEnds, Control, ControlLoop, ScanDone, Check,
                 Service, Popped, ControlExit, Visit, BroadcastFails, AppChanges, vars,
                 reaperVars, slotVars, countVars
  <2> QED
    BY <1>0, <2>1, CountKept
<1>12. \/ Insert \/ Remove \/ CountUp
       \/ Ref \/ Push \/ StartThreads \/ StoreRunning
       \/ (\E s \in Sessions : Alloc(s)) \/ StreamingWillStart \/ Respond \/ Peek
       \/ \E m \in Calls : Call(m)
       \/ \E t \in Reapers :
             \/ CountDown(t) \/ Erase(t)
             \/ Lock(t) \/ Unlock(t) \/ JoinThreads(t) \/ JoinThrows(t)
             \/ JoinControl(t) \/ EndBroadcast(t) \/ StreamingWillStop(t)
             \/ \E s \in Sessions : Reap(t, s)
       \/ \E t \in Reapers, s \in Sessions : PassOver(t, s)
       \/ \E s \in Sessions, k \in Streams : ThreadEnds(s, k)
       \/ Control \/ Popped \/ BroadcastFails \/ AppChanges
            \/ UNCHANGED vars
  BY DEF Next, Announce, Clear
<1> QED
  BY <1>1, <1>2, <1>3, <1>4, <1>5, <1>7, <1>8, <1>9, <1>10, <1>11, <1>12

(* With both threads outside start() and clear(), running_sessions is the  *)
(* number of sessions in the slots, though the unsigned counter may have   *)
(* wrapped below zero in between.                                          *)
THEOREM CountsTheSlots == Spec => []QuietCount
<1>1. Init => CountInv
  <2> SUFFICES ASSUME Init PROVE CountInv
    OBVIOUS
  <2>1. Counted = 0
    BY FS_EmptySet DEF Init, Counted, Uncounted, Discounted, Reapers
  <2> QED
    BY <2>1 DEF CountInv, Init
<1>2. Inv /\ CountInv => QuietCount
  <2> SUFFICES ASSUME Inv, CountInv, \A t \in Reapers : pc[t] = "idle"
               PROVE  running = Cardinality(slots)
    BY DEF QuietCount
  <2>1. Uncounted = 0 /\ Discounted = 0
    BY DEF Uncounted, Discounted, Reapers
  <2> QED
    BY <2>1, CountTyped DEF Inv, CountInv, Counted
<1> QED
  BY <1>1, <1>2, CountStep, SpecInv, PTL DEF Spec

=============================================================================
