----------------------------- MODULE SetupProofs -----------------------------
(***************************************************************************)
(* Proofs about how a stream is set up, in three parts that share no       *)
(* state: the launch slot (LaunchEvent), for any number of launch and      *)
(* ANNOUNCE requests; the ping by which a stream learns where its client   *)
(* listens (PingRouting), for any sessions, addresses and queue size; and  *)
(* the clients that may ask for one (Clients), for any clients, ids, queue *)
(* and number of requests, edits, failed writes and restarts.              *)
(***************************************************************************)
EXTENDS LaunchEvent, PingRouting, Clients, FoldLemmas, SequenceTheorems, TLAPS

-----------------------------------------------------------------------------
(* The launch slot. LaunchInv is the inductive invariant: the typing, what *)
(* the HTTPS thread knows between its three steps, which sessions can be   *)
(* in the slot, and what the control thread knows between its view and its *)
(* pop.                                                                    *)

(* Between its view and its raise the HTTPS thread finds the slot empty,   *)
(* as it is the only one to fill it.                                       *)
HttpsInv ==
    /\ https \in {"raise", "arm"} => launched \in Launches
    /\ https = "raise" => slot = Empty /\ taken[launched] = "nobody"

(* Only launched sessions are in the slot, and none that was taken; one    *)
(* still to come has not been taken.                                       *)
SlotInv ==
    /\ slot # Empty => slot <= launched /\ taken[slot] = "nobody"
    /\ \A s \in Launches : s > launched => taken[s] = "nobody"

(* The control thread works for a session that waits for its peer.         *)
ControlInv ==
    /\ clearer = "idle" <=> clearing = Empty
    /\ clearing # Empty => unmatched[clearing] > 0
    /\ \A s \in Launches : unmatched[s] <= announced[s]

LaunchInv == LaunchTypeOK /\ HttpsInv /\ SlotInv /\ ControlInv /\ ViewedStillAccounted

-----------------------------------------------------------------------------
(* The initial states satisfy the invariant: the slot is empty.            *)
LEMMA LaunchInitInv == LaunchInit => LaunchInv
BY LaunchAssumption
   DEF LaunchInit, LaunchInv, LaunchTypeOK, HttpsInv, SlotInv, ControlInv, ViewedStillAccounted, Launches

(* Every step of the three threads keeps the invariant.                    *)
LEMMA LaunchNextInv == LaunchInv /\ [LaunchNext]_launchVars => LaunchInv'
<1> SUFFICES ASSUME LaunchInv, [LaunchNext]_launchVars PROVE LaunchInv'
  OBVIOUS
<1> USE LaunchAssumption
    DEF LaunchInv, LaunchTypeOK, HttpsInv, SlotInv, ControlInv, ViewedStillAccounted,
        Launches, httpsVars, rtspVars, clearVars
<1>1. CASE RaiseView
  BY <1>1 DEF RaiseView
<1>2. CASE RaisePut
  BY <1>2 DEF RaisePut
<1>3. CASE RaiseArm
  BY <1>3 DEF RaiseArm
<1>4. CASE TimerExpires
  BY <1>4 DEF TimerExpires
<1>5. ASSUME NEW s \in Launches, TimerHandler(s) PROVE LaunchInv'
  <2>1. LaunchTypeOK'
    BY <1>5 DEF TimerHandler
  <2>2. HttpsInv'
    BY <1>5 DEF TimerHandler
  <2>3. SlotInv'
    BY <1>5 DEF TimerHandler
  <2>4. ControlInv'
    BY <1>5 DEF TimerHandler
  <2>5. ViewedStillAccounted'
    BY <1>5 DEF TimerHandler
  <2> QED
    BY <2>1, <2>2, <2>3, <2>4, <2>5
<1>6. CASE Accept
  BY <1>6 DEF Accept
<1>7. ASSUME NEW s \in Launches, HandleMsg(s) PROVE LaunchInv'
  <2>a. CASE UNCHANGED <<announced, unmatched>>
    BY <1>7, <2>a DEF HandleMsg
  <2>b. CASE /\ announced[s] < MaxAnnounce
             /\ announced' = [announced EXCEPT ![s] = @ + 1]
             /\ unmatched' = [unmatched EXCEPT ![s] = @ + 1]
    <3>1. announced[s] + 1 \in 0 .. MaxAnnounce /\ unmatched[s] + 1 \in 0 .. MaxAnnounce
      BY <2>b
    <3>2. announced' \in [Launches -> 0 .. MaxAnnounce]
      BY <2>b, <3>1
    <3>3. unmatched' \in [Launches -> 0 .. MaxAnnounce]
      BY <2>b, <3>1
    <3>4. LaunchTypeOK'
      BY <1>7, <3>2, <3>3 DEF HandleMsg
    <3>5. \A r \in Launches : /\ unmatched'[r] <= announced'[r]
                              /\ unmatched'[r] >= unmatched[r]
      BY <2>b
    <3>6. ControlInv'
      <4>1. UNCHANGED <<clearer, clearing>>
        BY <1>7 DEF HandleMsg
      <4>2. clearing # Empty => unmatched'[clearing] > 0
        <5> HAVE clearing # Empty
        <5>1. clearing \in Launches /\ unmatched[clearing] > 0
          OBVIOUS
        <5>2. unmatched[clearing] \in Nat /\ unmatched'[clearing] \in Nat
          BY <5>1, <3>3
        <5> QED
          BY <5>1, <5>2, <3>5
      <4> QED
        BY <4>1, <4>2, <3>5
    <3>7. HttpsInv' /\ SlotInv' /\ ViewedStillAccounted'
      BY <1>7 DEF HandleMsg
    <3> QED
      BY <3>4, <3>6, <3>7
  <2> QED
    BY <1>7, <2>a, <2>b DEF HandleMsg
<1>8. ASSUME NEW s \in Launches, GetSession(s) PROVE LaunchInv'
  BY <1>8 DEF GetSession
<1>9. CASE ClearView
  BY <1>9 DEF ClearView
<1>10. CASE ClearCancel
  BY <1>10 DEF ClearCancel
<1>11. CASE ClearPop
  BY <1>11 DEF ClearPop
<1>12. CASE AssignPeer
  BY <1>12 DEF AssignPeer
<1>13. CASE UNCHANGED launchVars
  BY <1>13 DEF launchVars
<1> QED
  BY <1>1, <1>2, <1>3, <1>4, <1>5, <1>6, <1>7, <1>8, <1>9, <1>10, <1>11,
     <1>12, <1>13 DEF LaunchNext, Https, Rtsp, ControlThread

(* Inv holds in every reachable state.                                     *)
THEOREM LaunchSpecInv == LaunchSpec => []LaunchInv
<1> QED
  BY LaunchInitInv, LaunchNextInv, PTL DEF LaunchSpec

(* Every variable keeps its type: no counter of the model leaves its       *)
(* range, in particular no session is given more peers than it waits for.  *)
THEOREM LaunchTypeCorrect == LaunchSpec => []LaunchTypeOK
<1> QED
  BY LaunchSpecInv, PTL DEF LaunchInv

(* session_clear works on the session it viewed, or on one that the expiry *)
(* handler discarded: a launch from the HTTPS thread never takes its place *)
(* unnoticed.                                                              *)
THEOREM ViewedAccounted == LaunchSpec => []ViewedStillAccounted
<1> QED
  BY LaunchSpecInv, PTL DEF LaunchInv

(* The control thread is stuck in pop() only when the expiry handler was   *)
(* faster.                                                                 *)
THEOREM StuckByExpiry == LaunchSpec => []StuckOnlyByExpiry
<1>1. LaunchInv => StuckOnlyByExpiry
  BY DEF LaunchInv, LaunchTypeOK, ControlInv, ViewedStillAccounted, StuckOnlyByExpiry
<1> QED
  BY <1>1, LaunchSpecInv, PTL

(* session_raise, an unlocked test followed by an unconditional raise, does *)
(* not overwrite a pending launch session, since one thread alone raises.  *)
THEOREM PendingNotOverwritten == LaunchSpec => NoOverwrite
<1>1. LaunchInv /\ [LaunchNext]_launchVars => [slot # Empty => slot' \in {slot, Empty}]_launchVars
  BY DEF LaunchInv, HttpsInv, LaunchNext, Https, Rtsp, ControlThread, launchVars, httpsVars, rtspVars,
         clearVars, RaiseView, RaisePut, RaiseArm, TimerExpires, TimerHandler,
         Accept, HandleMsg, GetSession, ClearView, ClearCancel, ClearPop,
         AssignPeer
<1> QED
  BY <1>1, LaunchSpecInv, PTL DEF LaunchSpec, NoOverwrite

(* A pending launch session always has someone who will take it.           *)
THEOREM PendingCovered == LaunchSpec => []PendingIsCovered
<1>1. LaunchInit => PendingIsCovered
  BY DEF LaunchInit, PendingIsCovered
<1>2. LaunchInv /\ PendingIsCovered /\ [LaunchNext]_launchVars => PendingIsCovered'
  <2> SUFFICES ASSUME LaunchInv, PendingIsCovered, [LaunchNext]_launchVars PROVE PendingIsCovered'
    OBVIOUS
  <2> USE LaunchAssumption
      DEF LaunchInv, LaunchTypeOK, HttpsInv, PendingIsCovered, Launches, httpsVars,
          rtspVars, clearVars
  <2>1. CASE RaiseView
    BY <2>1 DEF RaiseView
  <2>2. CASE RaisePut
    BY <2>2 DEF RaisePut
  <2>3. CASE RaiseArm
    BY <2>3 DEF RaiseArm
  <2>4. CASE TimerExpires
    BY <2>4 DEF TimerExpires
  <2>5. ASSUME NEW s \in Launches, TimerHandler(s) PROVE PendingIsCovered'
    BY <2>5 DEF TimerHandler
  <2>6. CASE Accept
    BY <2>6 DEF Accept
  <2>7. ASSUME NEW s \in Launches, HandleMsg(s) PROVE PendingIsCovered'
    BY <2>7 DEF HandleMsg
  <2>8. ASSUME NEW s \in Launches, GetSession(s) PROVE PendingIsCovered'
    BY <2>8 DEF GetSession
  <2>9. CASE ClearView
    BY <2>9 DEF ClearView
  <2>10. CASE ClearCancel
    BY <2>10 DEF ClearCancel
  <2>11. CASE ClearPop
    BY <2>11 DEF ClearPop
  <2>12. CASE AssignPeer
    BY <2>12 DEF AssignPeer
  <2>13. CASE UNCHANGED launchVars
    BY <2>13 DEF launchVars
  <2> QED
    BY <2>1, <2>2, <2>3, <2>4, <2>5, <2>6, <2>7, <2>8, <2>9, <2>10, <2>11,
       <2>12, <2>13 DEF LaunchNext, Https, Rtsp, ControlThread
<1> QED
  BY <1>1, <1>2, LaunchSpecInv, PTL DEF LaunchSpec

(* A launch session leaves the slot once and for good.                     *)
THEOREM TakenOnce == LaunchSpec => TakenForGood
<1> DEFINE Step == \A s \in Launches : taken[s] # "nobody" =>
                      taken'[s] = taken[s] /\ slot' # s
<1>1. LaunchInv /\ [LaunchNext]_launchVars => [Step]_launchVars
  <2> SUFFICES ASSUME LaunchInv, [LaunchNext]_launchVars PROVE Step \/ UNCHANGED launchVars
    OBVIOUS
  <2> USE LaunchAssumption
      DEF LaunchInv, LaunchTypeOK, HttpsInv, SlotInv, Launches, httpsVars, rtspVars,
          clearVars
  <2>1. CASE RaiseView
    BY <2>1 DEF RaiseView
  <2>2. CASE RaisePut
    BY <2>2 DEF RaisePut
  <2>3. CASE RaiseArm
    BY <2>3 DEF RaiseArm
  <2>4. CASE TimerExpires
    BY <2>4 DEF TimerExpires
  <2>5. ASSUME NEW r \in Launches, TimerHandler(r) PROVE Step
    BY <2>5 DEF TimerHandler
  <2>6. CASE Accept
    BY <2>6 DEF Accept
  <2>7. ASSUME NEW r \in Launches, HandleMsg(r) PROVE Step
    BY <2>7 DEF HandleMsg
  <2>8. ASSUME NEW r \in Launches, GetSession(r) PROVE Step
    BY <2>8 DEF GetSession
  <2>9. CASE ClearView
    BY <2>9 DEF ClearView
  <2>10. CASE ClearCancel
    BY <2>10 DEF ClearCancel
  <2>11. CASE ClearPop
    BY <2>11 DEF ClearPop
  <2>12. CASE AssignPeer
    BY <2>12 DEF AssignPeer
  <2>13. CASE UNCHANGED launchVars
    BY <2>13
  <2> QED
    BY <2>1, <2>2, <2>3, <2>4, <2>5, <2>6, <2>7, <2>8, <2>9, <2>10, <2>11,
       <2>12, <2>13 DEF LaunchNext, Https, Rtsp, ControlThread
<1> QED
  BY <1>1, LaunchSpecInv, PTL DEF LaunchSpec, TakenForGood
-----------------------------------------------------------------------------
(* The registrations and the routes.                                       *)

Registration == [kind : Kinds, key : Keys, to : Threads \cup {None}]

Routes == [Kinds -> [Keys -> Threads \cup {None}]]

(* What taking up one registration does to a route.                        *)
LEMMA TakeUpOne ==
    ASSUME NEW r \in Routes, NEW reg \in Registration
    PROVE  /\ TakeUp(r, reg) \in Routes
           /\ \A k \in Kinds, key \in Keys :
                 TakeUp(r, reg)[k][key] =
                     IF reg.kind = k /\ reg.key = key
                     THEN IF reg.to = None THEN None
                          ELSE IF r[k][key] = None THEN reg.to ELSE r[k][key]
                     ELSE r[k][key]
<1>1. reg.kind \in Kinds /\ reg.key \in Keys /\ reg.to \in Threads \cup {None}
  BY DEF Registration
<1>2. ASSUME NEW v \in Threads \cup {None}
      PROVE  /\ [r EXCEPT ![reg.kind][reg.key] = v] \in Routes
             /\ \A k \in Kinds, key \in Keys :
                   [r EXCEPT ![reg.kind][reg.key] = v][k][key] =
                       IF reg.kind = k /\ reg.key = key THEN v ELSE r[k][key]
  BY <1>1 DEF Routes
<1>3. CASE reg.to = None
  BY <1>1, <1>2, <1>3 DEF TakeUp
<1>4. CASE reg.to # None /\ r[reg.kind][reg.key] = None
  BY <1>1, <1>2, <1>4 DEF TakeUp
<1>5. CASE reg.to # None /\ r[reg.kind][reg.key] # None
  BY <1>1, <1>5 DEF TakeUp
<1> QED
  BY <1>3, <1>4, <1>5

(* Taking up a queue, one registration after the other.                    *)
LEMMA TakeUpTrace ==
    ASSUME NEW r \in Routes, NEW q \in Seq(Registration)
    PROVE  \E e \in [0 .. Len(q) -> Routes] :
              /\ e[0] = r
              /\ \A m \in 1 .. Len(q) : e[m] = TakeUp(e[m - 1], q[m])
              /\ FoldLeft(TakeUp, r, q) = e[Len(q)]
<1> DEFINE n == Len(q)
           Chosen(f) == f = [s \in SUBSET (1 .. n) |->
                               IF s = {} THEN r
                               ELSE TakeUp(f[s \ {Max(s)}], q[Max(s)])]
           h == [p \in (1 .. n) \X Routes |-> TakeUp(p[2], q[p[1]])]
           f == CHOOSE g : Chosen(g)
           e == [m \in 0 .. n |-> f[1 .. m]]
<1>1. n \in Nat /\ DOMAIN q = 1 .. n /\ \A i \in 1 .. n : q[i] \in Registration
  OBVIOUS
<1>2. h \in [(1 .. n) \X Routes -> Routes]
  BY <1>1, TakeUpOne
<1>3. \E g : Chosen(g)
  <2> HIDE DEF n, h
  <2>1. PICK g \in [SUBSET (1 .. n) -> Routes] : Folds(g, n, r, h)
    BY <1>1, <1>2, FoldExists
  <2>2. ASSUME NEW s \in SUBSET (1 .. n), s # {}
        PROVE  h[<<Max(s), g[s \ {Max(s)}]>>] = TakeUp(g[s \ {Max(s)}], q[Max(s)])
    <3>1. Max(s) \in 1 .. n
      BY <1>1, <2>2, GreatestPosition
    <3>2. g[s \ {Max(s)}] \in Routes
      BY <2>1
    <3> QED
      BY <3>1, <3>2 DEF h
  <2>3. Chosen(g)
    BY <2>1, <2>2 DEF Folds
  <2> QED
    BY <2>3
<1>4. Chosen(f)
  BY <1>3
<1>5. FoldLeft(TakeUp, r, q) = f[1 .. n]
  BY <1>1 DEF FoldLeft, MapThenFoldSet
<1> HIDE DEF f, n
<1>6. f[{}] = r
  BY <1>4
<1>7. ASSUME NEW m \in 1 .. n
      PROVE  f[1 .. m] = TakeUp(f[1 .. (m - 1)], q[m])
  <2>1. Max(1 .. m) = m /\ (1 .. m) \ {m} = 1 .. (m - 1) /\ 1 .. m # {}
    BY <1>1, PrefixMax
  <2>2. 1 .. m \in SUBSET (1 .. n)
    BY <1>1
  <2> QED
    BY <1>4, <2>1, <2>2
<1>8. \A m \in 0 .. n : f[1 .. m] \in Routes
  <2>1. ASSUME NEW m \in 1 .. n, f[1 .. (m - 1)] \in Routes
        PROVE  f[1 .. m] = h[<<m, f[1 .. (m - 1)]>>]
    BY <1>7, <2>1
  <2> HIDE DEF h
  <2> QED
    BY <1>1, <1>2, <1>6, <2>1, FoldTrace, Zenon
<1>9. 1 .. 0 = {}
  OBVIOUS
<1>10. \A m \in 0 .. n : e[m] = f[1 .. m]
  OBVIOUS
<1>11. e \in [0 .. n -> Routes]
  BY <1>8
<1> HIDE DEF e
<1>12. e[0] = r /\ FoldLeft(TakeUp, r, q) = e[n]
  BY <1>1, <1>5, <1>6, <1>9, <1>10
<1>13. ASSUME NEW m \in 1 .. n PROVE e[m] = TakeUp(e[m - 1], q[m])
  <2>1. m \in 0 .. n /\ m - 1 \in 0 .. n
    BY <1>1
  <2> QED
    BY <1>7, <1>10, <2>1
<1> QED
  BY <1>11, <1>12, <1>13 DEF n

(* One more registration is taken up last.                                 *)
LEMMA TakeUpAppended ==
    ASSUME NEW r \in Routes, NEW q \in Seq(Registration),
           NEW reg \in Registration
    PROVE  /\ FoldLeft(TakeUp, r, q) \in Routes
           /\ FoldLeft(TakeUp, r, Append(q, reg))
                = TakeUp(FoldLeft(TakeUp, r, q), reg)
<1> DEFINE n == Len(q)
           Q == Append(q, reg)
<1>1. /\ n \in Nat /\ Q \in Seq(Registration) /\ Len(Q) = n + 1
      /\ Q[n + 1] = reg /\ \A m \in 1 .. n : Q[m] = q[m]
  OBVIOUS
<1>2. PICK e \in [0 .. n -> Routes] :
         /\ e[0] = r
         /\ \A m \in 1 .. n : e[m] = TakeUp(e[m - 1], q[m])
         /\ FoldLeft(TakeUp, r, q) = e[n]
  BY TakeUpTrace
<1> HIDE DEF n, Q
<1>3. PICK d \in [0 .. n + 1 -> Routes] :
         /\ d[0] = r
         /\ \A m \in 1 .. n + 1 : d[m] = TakeUp(d[m - 1], Q[m])
         /\ FoldLeft(TakeUp, r, Q) = d[n + 1]
  BY <1>1, TakeUpTrace
<1> DEFINE P == {m \in 0 .. n : d[m] = e[m]}
<1>4. 0 .. n \subseteq P
  <2>1. 0 \in P
    BY <1>1, <1>2, <1>3
  <2>2. ASSUME NEW m \in 1 .. n, m - 1 \in P PROVE m \in P
    <3>1. /\ m \in 1 .. n + 1 /\ d[m - 1] = e[m - 1] /\ Q[m] = q[m]
          /\ m \in 0 .. n
      BY <1>1, <2>2
    <3>2. d[m] = TakeUp(d[m - 1], Q[m])
      BY <1>3, <3>1
    <3>3. e[m] = TakeUp(e[m - 1], q[m])
      BY <1>2
    <3> QED
      BY <3>1, <3>2, <3>3
  <2> HIDE DEF P
  <2> QED
    BY <1>1, <2>1, <2>2, UpTo
<1>5. d[n] = e[n] /\ n + 1 \in 1 .. n + 1 /\ (n + 1) - 1 = n /\ n \in 0 .. n
  BY <1>1, <1>4
<1> QED
  BY <1>1, <1>2, <1>3, <1>5 DEF Q

LEMMA TakeUpTyped ==
    ASSUME NEW r \in Routes, NEW q \in Seq(Registration)
    PROVE  FoldLeft(TakeUp, r, q) \in Routes
<1>1. PICK e \in [0 .. Len(q) -> Routes] : FoldLeft(TakeUp, r, q) = e[Len(q)]
  BY TakeUpTrace
<1>2. Len(q) \in 0 .. Len(q)
  OBVIOUS
<1> QED
  BY <1>1, <1>2

(* Taking up nothing changes nothing.                                      *)
LEMMA TakeUpNothing ==
    ASSUME NEW r \in Routes
    PROVE  FoldLeft(TakeUp, r, <<>>) = r
<1>1. <<>> \in Seq(Registration) /\ Len(<<>>) = 0
  OBVIOUS
<1>2. PICK e \in [0 .. Len(<<>>) -> Routes] :
         e[0] = r /\ FoldLeft(TakeUp, r, <<>>) = e[Len(<<>>)]
  BY <1>1, TakeUpTrace, Zenon
<1> QED
  BY <1>1, <1>2

(* A route that changes while a queue is taken up has a registration in    *)
(* it; one that was there, the end of a registration; and a new one is a   *)
(* registration's.                                                         *)
LEMMA TakeUpTouches ==
    ASSUME NEW r \in Routes, NEW q \in Seq(Registration),
           NEW k \in Kinds, NEW key \in Keys, NEW v, v = r[k][key],
           NEW w, w = FoldLeft(TakeUp, r, q)[k][key]
    PROVE  /\ w # v => \E i \in DOMAIN q : q[i].kind = k /\ q[i].key = key
           /\ w # v /\ v # None => \E i \in DOMAIN q :
                 q[i].kind = k /\ q[i].key = key /\ q[i].to = None
           /\ w # v /\ w # None => \E i \in DOMAIN q :
                 q[i].kind = k /\ q[i].key = key /\ q[i].to = w
<1> DEFINE n == Len(q)
           On(i) == q[i].kind = k /\ q[i].key = key
<1>1. n \in Nat /\ DOMAIN q = 1 .. n /\ \A i \in 1 .. n : q[i] \in Registration
  OBVIOUS
<1>2. PICK e \in [0 .. n -> Routes] :
         /\ e[0] = r
         /\ \A m \in 1 .. n : e[m] = TakeUp(e[m - 1], q[m])
         /\ FoldLeft(TakeUp, r, q) = e[n]
  BY TakeUpTrace
<1> HIDE DEF n
<1> DEFINE At(m) == e[m][k][key]
           Some(m) == At(m) # v => \E i \in 1 .. m : On(i)
           Ended(m) == At(m) # v /\ v # None =>
                           \E i \in 1 .. m : On(i) /\ q[i].to = None
           Named(m) == At(m) # v /\ At(m) # None =>
                           \E i \in 1 .. m : On(i) /\ q[i].to = At(m)
           P == {m \in 0 .. n : Some(m) /\ Ended(m) /\ Named(m)}
<1>3. 0 \in P
  BY <1>1, <1>2
<1>4. ASSUME NEW m \in 1 .. n, m - 1 \in P PROVE m \in P
  <2>1. m - 1 \in 0 .. n /\ e[m - 1] \in Routes /\ q[m] \in Registration
    BY <1>1
  <2>2. At(m) = IF On(m)
                THEN IF q[m].to = None THEN None
                     ELSE IF At(m - 1) = None THEN q[m].to ELSE At(m - 1)
                ELSE At(m - 1)
    <3>1. e[m] = TakeUp(e[m - 1], q[m])
      BY <1>2
    <3> DEFINE x == e[m - 1]
               reg == q[m]
    <3>2. TakeUp(x, reg)[k][key]
            = IF reg.kind = k /\ reg.key = key
              THEN IF reg.to = None THEN None
                   ELSE IF x[k][key] = None THEN reg.to ELSE x[k][key]
              ELSE x[k][key]
      <4> HIDE DEF x, reg
      <4>1. x \in Routes /\ reg \in Registration
        BY <2>1 DEF x, reg
      <4> QED
        BY <4>1, TakeUpOne
    <3> QED
      BY <3>1, <3>2
  <2>3. Some(m - 1) /\ Ended(m - 1) /\ Named(m - 1)
    BY <1>4
  <2>4. m \in 1 .. m /\ \A i \in 1 .. (m - 1) : i \in 1 .. m
    BY <1>1
  <2>5. m \in 0 .. n
    BY <1>1
  <2> HIDE DEF On, At
  <2>6. Some(m)
    BY <2>2, <2>3, <2>4
  <2>7. Ended(m)
    BY <2>2, <2>3, <2>4
  <2>8. Named(m)
    BY <2>2, <2>3, <2>4
  <2> QED
    BY <2>5, <2>6, <2>7, <2>8
<1>5. 0 .. n \subseteq P
  <2> HIDE DEF P
  <2> QED
    BY <1>1, <1>3, <1>4, UpTo
<1>6. n \in P
  <2> HIDE DEF P
  <2> QED
    BY <1>1, <1>5
<1>7. w = At(n)
  BY <1>2
<1> HIDE DEF On, At
<1> QED
  BY <1>1, <1>6, <1>7 DEF On

-----------------------------------------------------------------------------
(* Registering and unregistering.                                          *)

LEMMA RaisedOne ==
    ASSUME NEW s \in Seq(Registration), NEW reg \in Registration
    PROVE  Raised(s, reg) \in Seq(Registration)
<1>1. <<reg>> \in Seq(Registration) /\ Append(s, reg) \in Seq(Registration)
  OBVIOUS
<1> QED
  BY <1>1 DEF Raised

(* Raising registrations, one after the other.                             *)
LEMMA RaisedTrace ==
    ASSUME NEW r \in Seq(Registration), NEW q \in Seq(Registration)
    PROVE  \E e \in [0 .. Len(q) -> Seq(Registration)] :
              /\ e[0] = r
              /\ \A m \in 1 .. Len(q) : e[m] = Raised(e[m - 1], q[m])
              /\ FoldLeft(Raised, r, q) = e[Len(q)]
<1> DEFINE n == Len(q)
           V == Seq(Registration)
           Chosen(f) == f = [s \in SUBSET (1 .. n) |->
                               IF s = {} THEN r
                               ELSE Raised(f[s \ {Max(s)}], q[Max(s)])]
           h == [p \in (1 .. n) \X V |-> Raised(p[2], q[p[1]])]
           f == CHOOSE g : Chosen(g)
           e == [m \in 0 .. n |-> f[1 .. m]]
<1>1. n \in Nat /\ DOMAIN q = 1 .. n /\ \A i \in 1 .. n : q[i] \in Registration
  OBVIOUS
<1>2. h \in [(1 .. n) \X V -> V]
  BY <1>1, RaisedOne
<1>3. \E g : Chosen(g)
  <2> HIDE DEF n, h, V
  <2>1. PICK g \in [SUBSET (1 .. n) -> V] : Folds(g, n, r, h)
    <3>1. r \in V
      BY DEF V
    <3> QED
      BY <1>1, <1>2, <3>1, FoldExists
  <2>2. ASSUME NEW s \in SUBSET (1 .. n), s # {}
        PROVE  h[<<Max(s), g[s \ {Max(s)}]>>] = Raised(g[s \ {Max(s)}], q[Max(s)])
    <3>1. Max(s) \in 1 .. n
      BY <1>1, <2>2, GreatestPosition
    <3>2. g[s \ {Max(s)}] \in V
      BY <2>1
    <3> QED
      BY <3>1, <3>2 DEF h
  <2>3. Chosen(g)
    BY <2>1, <2>2 DEF Folds
  <2> QED
    BY <2>3
<1>4. Chosen(f)
  BY <1>3
<1>5. FoldLeft(Raised, r, q) = f[1 .. n]
  BY <1>1 DEF FoldLeft, MapThenFoldSet
<1> HIDE DEF f, n
<1>6. f[{}] = r
  BY <1>4
<1>7. ASSUME NEW m \in 1 .. n
      PROVE  f[1 .. m] = Raised(f[1 .. (m - 1)], q[m])
  <2>1. Max(1 .. m) = m /\ (1 .. m) \ {m} = 1 .. (m - 1) /\ 1 .. m # {}
    BY <1>1, PrefixMax
  <2>2. 1 .. m \in SUBSET (1 .. n)
    BY <1>1
  <2> QED
    BY <1>4, <2>1, <2>2
<1>8. \A m \in 0 .. n : f[1 .. m] \in V
  <2>1. ASSUME NEW m \in 1 .. n, f[1 .. (m - 1)] \in V
        PROVE  f[1 .. m] = h[<<m, f[1 .. (m - 1)]>>]
    BY <1>7, <2>1
  <2>2. r \in V /\ f[{}] = r
    BY <1>6
  <2> HIDE DEF h, V
  <2> QED
    BY <1>1, <1>2, <2>1, <2>2, FoldTrace, Zenon
<1>9. 1 .. 0 = {}
  OBVIOUS
<1>10. \A m \in 0 .. n : e[m] = f[1 .. m]
  OBVIOUS
<1>11. e \in [0 .. n -> V]
  BY <1>8
<1> HIDE DEF e
<1>12. e[0] = r /\ FoldLeft(Raised, r, q) = e[n]
  BY <1>1, <1>5, <1>6, <1>9, <1>10
<1>13. ASSUME NEW m \in 1 .. n PROVE e[m] = Raised(e[m - 1], q[m])
  <2>1. m \in 0 .. n /\ m - 1 \in 0 .. n
    BY <1>1
  <2> QED
    BY <1>7, <1>10, <2>1
<1> QED
  BY <1>11, <1>12, <1>13 DEF n

(* A thread's registration under one key, or its end.                      *)
Entry(t, key, to) == [kind |-> t[2], key |-> key, to |-> to]

KeySet(t) == ToSet(KeysOf(t))

(* The threads that use a key for a kind of stream.                        *)
Users(k, key) == {t \in Threads : t[2] = k /\ key \in KeySet(t)}

(* A thread's keys: its session, and a legacy session's address.           *)
LEMMA KeysOfThread ==
    ASSUME NEW t \in Threads
    PROVE  /\ t[1] \in Sessions /\ t[2] \in Kinds /\ AddrOf[t[1]] \in Addrs
           /\ t[1] # AddrOf[t[1]]
           /\ KeySet(t) = IF t[1] \in Legacy THEN {AddrOf[t[1]], t[1]}
                          ELSE {t[1]}
           /\ KeySet(t) \subseteq Keys
           /\ \A key \in KeySet(t) \cap Sessions : key = t[1]
           /\ \A key \in KeySet(t) \cap Addrs :
                 key = AddrOf[t[1]] /\ t[1] \in Legacy
<1>1. t[1] \in Sessions /\ t[2] \in Kinds
  BY DEF Threads
<1>2. AddrOf[t[1]] \in Addrs /\ Sessions \cap Addrs = {}
  BY <1>1, PingAssumption
<1>3. t[1] \in Legacy => KeySet(t) = {AddrOf[t[1]], t[1]}
  <2> SUFFICES ASSUME t[1] \in Legacy PROVE KeySet(t) = {AddrOf[t[1]], t[1]}
    OBVIOUS
  <2>1. KeysOf(t) = <<AddrOf[t[1]], t[1]>>
    BY DEF KeysOf
  <2>2. DOMAIN KeysOf(t) = {1, 2}
    BY <2>1
  <2> QED
    BY <2>1, <2>2 DEF KeySet, ToSet
<1>4. t[1] \notin Legacy => KeySet(t) = {t[1]}
  <2> SUFFICES ASSUME t[1] \notin Legacy PROVE KeySet(t) = {t[1]}
    OBVIOUS
  <2>1. KeysOf(t) = <<t[1]>>
    BY DEF KeysOf
  <2>2. DOMAIN KeysOf(t) = {1}
    BY <2>1
  <2> QED
    BY <2>1, <2>2 DEF KeySet, ToSet
<1> QED
  BY <1>1, <1>2, <1>3, <1>4 DEF Keys

(* What a thread raises, and the queue it leaves: everything is there, or  *)
(* the queue was full at the last registration or at the one before it.    *)
LEMMA RaiseShape ==
    ASSUME NEW s \in Seq(Registration), Len(s) <= QueueSize,
           NEW t \in Threads, NEW to \in Threads \cup {None},
           NEW s2, s2 = FoldLeft(Raised, s, Regs(t, to)),
           NEW a, a = Entry(t, AddrOf[t[1]], to), NEW b, b = Entry(t, t[1], to)
    PROVE  /\ a \in Registration /\ b \in Registration
           /\ s2 \in Seq(Registration) /\ Len(s2) <= QueueSize
           /\ t[1] \in Legacy =>
                 /\ Regs(t, to) = <<a, b>>
                 /\ s2 \in {Append(Append(s, a), b), <<b>>, Append(<<a>>, b)}
           /\ t[1] \notin Legacy =>
                 /\ Regs(t, to) = <<b>>
                 /\ s2 \in {Append(s, b), <<b>>}
<1>1. a \in Registration /\ b \in Registration
  BY KeysOfThread DEF Entry, Registration, Keys
<1>2. QueueSize \in Nat \ {0} /\ Len(s) \in Nat
  BY PingAssumption
<1>3. ASSUME t[1] \in Legacy
      PROVE  /\ Regs(t, to) = <<a, b>>
             /\ s2 = Raised(Raised(s, a), b)
  <2>1. KeysOf(t) = <<AddrOf[t[1]], t[1]>> /\ DOMAIN KeysOf(t) = 1 .. 2
    BY <1>3 DEF KeysOf
  <2>2. Regs(t, to) = [i \in 1 .. 2 |-> IF i = 1 THEN a ELSE b]
    BY <2>1 DEF Regs, Entry
  <2>3. Regs(t, to) = <<a, b>>
    BY <2>2
  <2> DEFINE q == <<a, b>>
  <2>4. q \in Seq(Registration) /\ Len(q) = 2 /\ q[1] = a /\ q[2] = b
    BY <1>1
  <2>7. s2 = FoldLeft(Raised, s, q)
    BY <2>3
  <2> HIDE DEF q
  <2>5. PICK e \in [0 .. Len(q) -> Seq(Registration)] :
           /\ e[0] = s
           /\ \A m \in 1 .. Len(q) : e[m] = Raised(e[m - 1], q[m])
           /\ s2 = e[Len(q)]
    <3>1. q \in Seq(Registration)
      BY <2>4
    <3>2. \E e \in [0 .. Len(q) -> Seq(Registration)] :
             /\ e[0] = s
             /\ \A m \in 1 .. Len(q) : e[m] = Raised(e[m - 1], q[m])
             /\ FoldLeft(Raised, s, q) = e[Len(q)]
      BY <3>1, RaisedTrace, Zenon
    <3> QED
      BY <2>7, <3>2, Zenon
  <2>6. e[1] = Raised(e[0], a) /\ e[2] = Raised(e[1], b) /\ s2 = e[2]
    <3>1. e[1] = Raised(e[1 - 1], q[1]) /\ 1 - 1 = 0
      BY <2>4, <2>5
    <3>2. e[2] = Raised(e[2 - 1], q[2]) /\ 2 - 1 = 1
      BY <2>4, <2>5
    <3> QED
      BY <2>4, <2>5, <3>1, <3>2
  <2> QED
    BY <2>3, <2>5, <2>6
<1>4. ASSUME t[1] \notin Legacy
      PROVE  /\ Regs(t, to) = <<b>>
             /\ s2 = Raised(s, b)
  <2>1. KeysOf(t) = <<t[1]>> /\ DOMAIN KeysOf(t) = 1 .. 1
    BY <1>4 DEF KeysOf
  <2>2. Regs(t, to) = [i \in 1 .. 1 |-> b]
    BY <2>1 DEF Regs, Entry
  <2>3. Regs(t, to) = <<b>>
    BY <2>2
  <2> DEFINE q == <<b>>
  <2>4. q \in Seq(Registration) /\ Len(q) = 1 /\ q[1] = b
    BY <1>1
  <2>7. s2 = FoldLeft(Raised, s, q)
    BY <2>3
  <2> HIDE DEF q
  <2>5. PICK e \in [0 .. Len(q) -> Seq(Registration)] :
           /\ e[0] = s
           /\ \A m \in 1 .. Len(q) : e[m] = Raised(e[m - 1], q[m])
           /\ s2 = e[Len(q)]
    <3>1. q \in Seq(Registration)
      BY <2>4
    <3>2. \E e \in [0 .. Len(q) -> Seq(Registration)] :
             /\ e[0] = s
             /\ \A m \in 1 .. Len(q) : e[m] = Raised(e[m - 1], q[m])
             /\ FoldLeft(Raised, s, q) = e[Len(q)]
      BY <3>1, RaisedTrace, Zenon
    <3> QED
      BY <2>7, <3>2, Zenon
  <2>6. e[1] = Raised(e[1 - 1], q[1]) /\ 1 - 1 = 0
    BY <2>4, <2>5
  <2> QED
    BY <2>3, <2>4, <2>5, <2>6
<1>5. ASSUME NEW z \in Seq(Registration), Len(z) <= QueueSize,
             NEW reg \in Registration
      PROVE  /\ Raised(z, reg) \in {Append(z, reg), <<reg>>}
             /\ Raised(z, reg) \in Seq(Registration)
             /\ Len(Raised(z, reg)) <= QueueSize
  <2>1. /\ Append(z, reg) \in Seq(Registration) /\ <<reg>> \in Seq(Registration)
        /\ Len(Append(z, reg)) = Len(z) + 1 /\ Len(<<reg>>) = 1 /\ Len(z) \in Nat
    OBVIOUS
  <2>2. CASE Len(z) >= QueueSize
    <3>1. Raised(z, reg) = <<reg>>
      BY <2>2 DEF Raised
    <3>2. 1 <= QueueSize
      BY <1>2
    <3> QED
      BY <2>1, <3>1, <3>2
  <2>3. CASE ~ (Len(z) >= QueueSize)
    <3>1. Raised(z, reg) = Append(z, reg)
      BY <2>3 DEF Raised
    <3>2. Len(z) + 1 <= QueueSize
      BY <1>2, <2>1, <2>3
    <3> QED
      BY <2>1, <3>1, <3>2
  <2> QED
    BY <2>2, <2>3
<1>6. CASE t[1] \in Legacy
  <2>1. /\ Raised(s, a) \in {Append(s, a), <<a>>}
        /\ Raised(s, a) \in Seq(Registration) /\ Len(Raised(s, a)) <= QueueSize
    BY <1>1, <1>5
  <2>2. /\ s2 \in {Append(Raised(s, a), b), <<b>>}
        /\ s2 \in Seq(Registration) /\ Len(s2) <= QueueSize
    BY <1>1, <1>3, <1>5, <1>6, <2>1
  <2> QED
    BY <1>1, <1>3, <1>6, <2>1, <2>2
<1>7. CASE t[1] \notin Legacy
  BY <1>1, <1>4, <1>5, <1>7
<1> QED
  BY <1>6, <1>7

LEMMA EntryTyped ==
    ASSUME NEW t \in Threads, NEW key \in Keys, NEW to \in Threads \cup {None}
    PROVE  Entry(t, key, to) \in Registration
BY KeysOfThread DEF Entry, Registration

(* An element of a sequence that was appended to.                          *)
LEMMA Appended ==
    ASSUME NEW T, NEW z \in Seq(T), NEW x \in T, NEW q, q = Append(z, x),
           NEW n \in DOMAIN q
    PROVE  q[n] = x \/ (n \in DOMAIN z /\ q[n] = z[n])
<1>1. /\ Len(z) \in Nat /\ DOMAIN z = 1 .. Len(z)
      /\ DOMAIN q = 1 .. Len(z) + 1 /\ q[Len(z) + 1] = x
      /\ \A i \in 1 .. Len(z) : q[i] = z[i]
  OBVIOUS
<1> QED
  BY <1>1

(* Every entry of the queue that is left was there or is the thread's own. *)
LEMMA RaiseKeeps ==
    ASSUME NEW s \in Seq(Registration), Len(s) <= QueueSize,
           NEW t \in Threads, NEW to \in Threads \cup {None},
           NEW s2, s2 = FoldLeft(Raised, s, Regs(t, to)), NEW i \in DOMAIN s2
    PROVE  \/ \E j \in DOMAIN s : s2[i] = s[j]
           \/ \E key \in KeySet(t) : s2[i] = Entry(t, key, to)
<1> DEFINE a == Entry(t, AddrOf[t[1]], to)
           b == Entry(t, t[1], to)
           Own(reg) == \E key \in KeySet(t) : reg = Entry(t, key, to)
           Old(reg) == \E j \in DOMAIN s : reg = s[j]
<1>1. a \in Registration /\ b \in Registration
  BY KeysOfThread, EntryTyped DEF Keys
<1>2. Own(b) /\ (t[1] \in Legacy => Own(a))
  BY KeysOfThread
<1>3. ASSUME NEW reg \in Registration, NEW n \in DOMAIN <<reg>>
      PROVE  <<reg>>[n] = reg
  <2>1. DOMAIN <<reg>> = {1}
    OBVIOUS
  <2> QED
    BY <1>3, <2>1
<1>4. Append(s, a) \in Seq(Registration) /\ <<a>> \in Seq(Registration)
  BY <1>1
<1> HIDE DEF Own, a, b
<1>5. CASE t[1] \in Legacy
  <2>1. s2 \in {Append(Append(s, a), b), <<b>>, Append(<<a>>, b)}
    BY <1>5, RaiseShape DEF a, b
  <2>2. CASE s2 = Append(Append(s, a), b)
    <3> DEFINE z == Append(s, a)
    <3>0. z \in Seq(Registration) /\ s2 = Append(z, b)
      BY <1>4, <2>2
    <3>1. i \in DOMAIN z => z[i] = a \/ (i \in DOMAIN s /\ z[i] = s[i])
      BY <1>1, Appended
    <3> HIDE DEF z
    <3>2. s2[i] = b \/ (i \in DOMAIN z /\ s2[i] = z[i])
      BY <1>1, <3>0, Appended
    <3>3. s2[i] = b \/ s2[i] = a \/ Old(s2[i])
      BY <3>1, <3>2
    <3> QED
      BY <1>2, <1>5, <3>3 DEF Own
  <2>3. CASE s2 = <<b>>
    BY <1>1, <1>2, <1>3, <2>3 DEF Own
  <2>4. CASE s2 = Append(<<a>>, b)
    <3> DEFINE z == <<a>>
    <3>0. z \in Seq(Registration) /\ s2 = Append(z, b)
      BY <1>4, <2>4
    <3>1. i \in DOMAIN z => z[i] = a
      BY <1>1, <1>3
    <3> HIDE DEF z
    <3>2. s2[i] = b \/ (i \in DOMAIN z /\ s2[i] = z[i])
      BY <1>1, <3>0, Appended
    <3>3. s2[i] = b \/ s2[i] = a
      BY <3>1, <3>2
    <3> QED
      BY <1>2, <1>5, <3>3 DEF Own
  <2> QED
    BY <2>1, <2>2, <2>3, <2>4
<1>6. CASE t[1] \notin Legacy
  <2>1. s2 \in {Append(s, b), <<b>>}
    BY <1>6, RaiseShape DEF a, b
  <2>2. CASE s2 = Append(s, b)
    <3>1. s2[i] = b \/ Old(s2[i])
      BY <1>1, <2>2, Appended
    <3> QED
      BY <1>2, <3>1 DEF Own
  <2>3. CASE s2 = <<b>>
    BY <1>1, <1>2, <1>3, <2>3 DEF Own
  <2> QED
    BY <2>1, <2>2, <2>3
<1> QED
  BY <1>5, <1>6

(* What is known of a key after a registration, or the end of one.         *)
Taken(t, to, k, key, known) ==
    IF k = t[2] /\ key \in KeySet(t)
    THEN IF to = None THEN None ELSE IF known = None THEN to ELSE known
    ELSE known

(* Raising makes of what is known what taking up would make of it, except  *)
(* under keys all of whose users lost a registration.                      *)
LEMMA RaiseEffect ==
    ASSUME NEW r \in Routes, NEW s \in Seq(Registration), Len(s) <= QueueSize,
           NEW t \in Threads, NEW to \in {None, t},
           NEW s2, s2 = FoldLeft(Raised, s, Regs(t, to)), NEW D,
           NEW k \in Kinds, NEW key \in Keys,
           \A u \in Users(k, key) : \A reg \in ToSet(s \o Regs(t, to)) :
               reg.kind = k /\ reg.key = key /\ reg \notin ToSet(s2) => u \in D
    PROVE  \/ Users(k, key) \subseteq D
           \/ FoldLeft(TakeUp, r, s2)[k][key]
                = Taken(t, to, k, key, FoldLeft(TakeUp, r, s)[k][key])
<1> DEFINE a == Entry(t, AddrOf[t[1]], to)
           b == Entry(t, t[1], to)
           X == FoldLeft(TakeUp, r, s)
           On(reg) == reg.kind = k /\ reg.key = key
<1>1. SUFFICES ASSUME NEW u \in Users(k, key), u \notin D
               PROVE  FoldLeft(TakeUp, r, s2)[k][key]
                        = Taken(t, to, k, key, X[k][key])
  OBVIOUS
<1>2. /\ a \in Registration /\ b \in Registration
      /\ a.kind = t[2] /\ a.key = AddrOf[t[1]] /\ a.to = to
      /\ b.kind = t[2] /\ b.key = t[1] /\ b.to = to
      /\ to \in Threads \cup {None}
  BY KeysOfThread, EntryTyped DEF Entry, Keys
<1>3. KeySet(t) = IF t[1] \in Legacy THEN {AddrOf[t[1]], t[1]} ELSE {t[1]}
  BY KeysOfThread
<1>4. ASSUME NEW reg \in ToSet(s \o Regs(t, to)), On(reg)
      PROVE  reg \in ToSet(s2)
  BY <1>1, <1>4
<1>5. /\ t[1] \in Legacy =>
            /\ Regs(t, to) = <<a, b>>
            /\ s2 \in {Append(Append(s, a), b), <<b>>, Append(<<a>>, b)}
      /\ t[1] \notin Legacy =>
            /\ Regs(t, to) = <<b>>
            /\ s2 \in {Append(s, b), <<b>>}
  BY <1>2, RaiseShape
<1>6. a = Entry(t, AddrOf[t[1]], to) /\ b = Entry(t, t[1], to)
  OBVIOUS
<1> HIDE DEF a, b
<1>7. ASSUME NEW z \in Seq(Registration), NEW reg \in Registration
       PROVE  /\ FoldLeft(TakeUp, r, z) \in Routes
              /\ FoldLeft(TakeUp, r, Append(z, reg))
                   = TakeUp(FoldLeft(TakeUp, r, z), reg)
              /\ Append(z, reg) \in Seq(Registration)
  <2>1. Append(z, reg) \in Seq(Registration)
    OBVIOUS
  <2> QED
    BY <2>1, TakeUpAppended
(* The registrations in the queue, and what is raised.                     *)
<1>8. /\ \A i \in DOMAIN s : s[i] \in ToSet(s \o Regs(t, to))
      /\ b \in ToSet(s \o Regs(t, to))
      /\ t[1] \in Legacy => a \in ToSet(s \o Regs(t, to))
  <2> DEFINE q == Regs(t, to)
             z == s \o q
  <2>1. q \in Seq(Registration)
    <3>1. <<a, b>> \in Seq(Registration) /\ <<b>> \in Seq(Registration)
      BY <1>2
    <3> QED
      BY <1>5, <3>1
  <2>2. /\ t[1] \in Legacy => Len(q) = 2 /\ q[1] = a /\ q[2] = b
        /\ t[1] \notin Legacy => Len(q) = 1 /\ q[1] = b
    <3>1. /\ Len(<<a, b>>) = 2 /\ <<a, b>>[1] = a /\ <<a, b>>[2] = b
          /\ Len(<<b>>) = 1 /\ <<b>>[1] = b
      OBVIOUS
    <3> QED
      BY <1>5, <3>1
  <2> HIDE DEF q
  <2>3. /\ Len(s) \in Nat /\ DOMAIN s = 1 .. Len(s) /\ Len(q) \in Nat
        /\ DOMAIN z = 1 .. Len(s) + Len(q)
        /\ \A i \in 1 .. Len(s) : z[i] = s[i]
        /\ \A i \in 1 .. Len(q) : z[Len(s) + i] = q[i]
    BY <2>1
  <2> HIDE DEF z
  <2>4. ASSUME NEW i \in DOMAIN s PROVE s[i] \in ToSet(z)
    <3>1. i \in DOMAIN z /\ z[i] = s[i]
      BY <2>3
    <3> QED
      BY <3>1 DEF ToSet
  <2>5. ASSUME NEW i \in 1 .. Len(q) PROVE q[i] \in ToSet(z)
    <3>1. Len(s) + i \in DOMAIN z /\ z[Len(s) + i] = q[i]
      BY <2>3
    <3> QED
      BY <3>1 DEF ToSet
  <2>6. b \in ToSet(z) /\ (t[1] \in Legacy => a \in ToSet(z))
    <3>1. CASE t[1] \in Legacy
      <4>1. 1 \in 1 .. Len(q) /\ 2 \in 1 .. Len(q)
        BY <2>2, <3>1
      <4> QED
        BY <2>2, <2>5, <3>1, <4>1
    <3>2. CASE t[1] \notin Legacy
      <4>1. 1 \in 1 .. Len(q)
        BY <2>2, <3>2
      <4> QED
        BY <2>2, <2>5, <3>2, <4>1
    <3> QED
      BY <3>1, <3>2
  <2> QED
    BY <2>4, <2>6 DEF z, q
(* No registration was lost.                                               *)
<1>9. ASSUME NEW x \in Routes, t[1] \in Legacy
       PROVE  TakeUp(TakeUp(x, a), b)[k][key] = Taken(t, to, k, key, x[k][key])
  <2>1. /\ TakeUp(x, a) \in Routes
        /\ TakeUp(x, a)[k][key]
             = IF k = t[2] /\ key = AddrOf[t[1]]
               THEN Taken(t, to, k, key, x[k][key]) ELSE x[k][key]
    BY <1>2, <1>3, <1>9, TakeUpOne DEF Taken
  <2>2. TakeUp(TakeUp(x, a), b)[k][key]
          = IF k = t[2] /\ key = t[1]
            THEN IF to = None THEN None
                 ELSE IF TakeUp(x, a)[k][key] = None THEN to
                      ELSE TakeUp(x, a)[k][key]
            ELSE TakeUp(x, a)[k][key]
    BY <1>2, <2>1, TakeUpOne
  <2> QED
    BY <1>3, <1>9, <2>1, <2>2, KeysOfThread DEF Taken
<1>10. ASSUME t[1] \in Legacy, s2 = Append(Append(s, a), b)
      PROVE  FoldLeft(TakeUp, r, s2)[k][key] = Taken(t, to, k, key, X[k][key])
  <2>1. /\ X \in Routes /\ Append(s, a) \in Seq(Registration)
        /\ FoldLeft(TakeUp, r, Append(s, a)) = TakeUp(X, a)
    BY <1>2, <1>7
  <2>2. FoldLeft(TakeUp, r, s2) = TakeUp(TakeUp(X, a), b)
    BY <1>2, <1>10, <1>7, <2>1
  <2> HIDE DEF X
  <2> QED
    BY <1>10, <1>9, <2>1, <2>2
<1>11. ASSUME t[1] \notin Legacy, s2 = Append(s, b)
      PROVE  FoldLeft(TakeUp, r, s2)[k][key] = Taken(t, to, k, key, X[k][key])
  <2>1. X \in Routes /\ FoldLeft(TakeUp, r, s2) = TakeUp(X, b)
    BY <1>2, <1>11, <1>7
  <2> HIDE DEF X
  <2> QED
    BY <1>2, <1>3, <1>11, <2>1, TakeUpOne DEF Taken
(* All that is left is the thread's own.                                   *)
<1>12. ASSUME \A reg \in ToSet(s2) : reg = b \/ (reg = a /\ t[1] \in Legacy)
      PROVE  X[k][key] = r[k][key] \/ Taken(t, to, k, key, X[k][key])
                                        = Taken(t, to, k, key, r[k][key])
  <2>1. ASSUME NEW i \in DOMAIN s, On(s[i])
        PROVE  /\ k = t[2] /\ key \in KeySet(t)
               /\ s[i].to = to
    <3>1. s[i] \in ToSet(s2)
      BY <1>4, <1>8, <2>1
    <3>2. s[i] = b \/ (s[i] = a /\ t[1] \in Legacy)
      BY <1>12, <3>1
    <3> QED
      BY <1>2, <1>3, <2>1, <3>2
  <2>2. CASE X[k][key] # r[k][key]
    <3> DEFINE v == r[k][key]
               w == X[k][key]
    <3>1. /\ \E i \in DOMAIN s : On(s[i])
          /\ v # None => \E i \in DOMAIN s : On(s[i]) /\ s[i].to = None
          /\ w # None => \E i \in DOMAIN s : On(s[i]) /\ s[i].to = w
      BY <2>2, TakeUpTouches
    <3> HIDE DEF v, w, On
    <3>2. /\ k = t[2] /\ key \in KeySet(t)
          /\ v # None => to = None
          /\ w # None => to = w
      BY <2>1, <3>1
    <3>3. Taken(t, to, k, key, w) = Taken(t, to, k, key, v)
      BY <3>2 DEF Taken
    <3> QED
      BY <3>3 DEF v, w
  <2> QED
    BY <2>2
<1>13. ASSUME \A reg \in ToSet(s2) : reg = b \/ (reg = a /\ t[1] \in Legacy)
       PROVE  Taken(t, to, k, key, X[k][key]) = Taken(t, to, k, key, r[k][key])
  BY <1>12, <1>13
<1>14. ASSUME s2 = <<b>>
       PROVE  FoldLeft(TakeUp, r, s2)[k][key] = Taken(t, to, k, key, X[k][key])
  <2>1. ToSet(s2) = {b}
    <3>1. DOMAIN <<b>> = {1} /\ <<b>>[1] = b
      OBVIOUS
    <3> QED
      BY <1>14, <3>1 DEF ToSet
  <2>2. Taken(t, to, k, key, X[k][key]) = Taken(t, to, k, key, r[k][key])
    BY <1>13, <2>1
  <2>3. FoldLeft(TakeUp, r, s2)[k][key]
          = IF k = t[2] /\ key = t[1]
            THEN Taken(t, to, k, key, r[k][key]) ELSE r[k][key]
    <3> DEFINE z == <<>>
    <3>1. z \in Seq(Registration) /\ Append(z, b) = s2
      BY <1>14
    <3>2. FoldLeft(TakeUp, r, z) = r
      BY TakeUpNothing
    <3> HIDE DEF z
    <3>3. FoldLeft(TakeUp, r, s2) = TakeUp(r, b)
      BY <1>2, <1>7, <3>1, <3>2
    <3> QED
      BY <1>2, <1>3, <3>3, TakeUpOne DEF Taken
  <2>4. k = t[2] /\ key \in KeySet(t) => key = t[1]
    <3> SUFFICES ASSUME k = t[2], key \in KeySet(t), key # t[1] PROVE FALSE
      OBVIOUS
    <3>1. t[1] \in Legacy /\ key = AddrOf[t[1]]
      BY <1>3
    <3>2. a \in ToSet(s2)
      BY <1>2, <1>4, <1>8, <3>1
    <3> QED
      BY <1>2, <2>1, <3>1, <3>2
  <2> HIDE DEF X
  <2> QED
    BY <2>2, <2>3, <2>4 DEF Taken
<1>15. ASSUME t[1] \in Legacy, s2 = Append(<<a>>, b)
       PROVE  FoldLeft(TakeUp, r, s2)[k][key] = Taken(t, to, k, key, X[k][key])
  <2>1. \A reg \in ToSet(s2) : reg = b \/ reg = a
    <3> DEFINE z == <<a>>
    <3>1. z \in Seq(Registration) /\ DOMAIN z = {1} /\ z[1] = a
      BY <1>2
    <3>2. s2 = Append(z, b)
      BY <1>15
    <3> HIDE DEF z
    <3>3. ASSUME NEW i \in DOMAIN s2 PROVE s2[i] = b \/ s2[i] = a
      BY <1>2, <3>1, <3>2, Appended
    <3> QED
      BY <3>3 DEF ToSet
  <2>2. Taken(t, to, k, key, X[k][key]) = Taken(t, to, k, key, r[k][key])
    BY <1>13, <1>15, <2>1
  <2>3. FoldLeft(TakeUp, r, s2)[k][key] = Taken(t, to, k, key, r[k][key])
    <3>1. <<>> \in Seq(Registration) /\ Append(<<>>, a) = <<a>>
          /\ <<a>> \in Seq(Registration)
      BY <1>2
    <3>2. FoldLeft(TakeUp, r, <<a>>) = TakeUp(r, a)
      BY <1>2, <1>7, <3>1, TakeUpNothing
    <3>3. FoldLeft(TakeUp, r, s2) = TakeUp(TakeUp(r, a), b)
      BY <1>2, <1>15, <1>7, <3>1, <3>2
    <3> QED
      BY <1>2, <1>15, <3>3, <1>9
  <2> QED
    BY <2>2, <2>3
<1> QED
  BY <1>5, <1>10, <1>11, <1>14, <1>15

-----------------------------------------------------------------------------
(* The invariant of the ping routing.                                      *)

(* Routes, and registrations on their way, are of threads that use the key.*)
PingOwned ==
    /\ \A k \in Kinds, key \in Keys :
          routes[k][key] # None => routes[k][key] \in Users(k, key)
    /\ \A i \in DOMAIN regs :
          regs[i].to # None => regs[i].to \in Users(regs[i].kind, regs[i].key)

(* Datagrams are pings of threads of the socket's kind, and peer holds an  *)
(* endpoint while a handler is left to read it.                            *)
PingsKept ==
    /\ \A k \in Kinds : \A i \in DOMAIN sock[k] :
          \E t \in Threads : t[2] = k /\ sock[k][i] = Ping(t)
    /\ \A k \in Kinds : recv[k] # None =>
          /\ peer # None
          /\ \E t \in Threads : t[2] = k /\ recv[k] = Ping(t)

(* Legacy sessions at one address that may be heard at once are noted.     *)
RivalsNoted ==
    \A t \in Threads : Heard(t) => Rivals(t) \subseteq rivals

(* A route whose thread does not wait any more is one of those for which   *)
(* the end of a registration was lost: all who use the key are noted.      *)
Leftovers ==
    \A k \in Kinds, key \in Keys :
        Known[k][key] # None =>
            InPing(Known[k][key]) \/ Users(k, key) \subseteq dropped

(* What a thread has been told is its own endpoint.                        *)
Meant ==
    \A t \in Threads \ (crossed \cup rivals) :
        /\ endpoint[t] \in {None, t}
        /\ \A i \in DOMAIN inbox[t] : inbox[t][i] = t

PingInv ==
    /\ TypeOK /\ PingOwned /\ PingsKept /\ RivalsNoted
    /\ Leftovers /\ WaitingIsRouted /\ Meant

(* What is known is of threads that use the key.                           *)
LEMMA KnownOwned ==
    ASSUME TypeOK, PingOwned
    PROVE  /\ Known \in Routes
           /\ \A k \in Kinds, key \in Keys :
                 Known[k][key] # None => Known[k][key] \in Users(k, key)
<1>1. routes \in Routes /\ regs \in Seq(Registration)
  BY DEF TypeOK, Routes, Registration
<1>2. Known \in Routes
  BY <1>1, TakeUpTyped DEF Known
<1>3. ASSUME NEW k \in Kinds, NEW key \in Keys, Known[k][key] # None
      PROVE  Known[k][key] \in Users(k, key)
  <2> DEFINE v == routes[k][key]
             w == Known[k][key]
  <2>1. w = v \/ \E i \in DOMAIN regs :
                    regs[i].kind = k /\ regs[i].key = key /\ regs[i].to = w
    BY <1>1, <1>3, TakeUpTouches DEF Known
  <2> QED
    BY <1>3, <2>1 DEF PingOwned
<1> QED
  BY <1>2, <1>3

(* Taking up what is queued leaves what is known as it is.                 *)
LEMMA PopulateEffect ==
    ASSUME TypeOK, PingOwned, Populate
    PROVE  /\ routes' \in Routes /\ routes' = Known /\ regs' = <<>>
           /\ Known' = Known /\ PingOwned'
<1>1. Known \in Routes /\ \A k \in Kinds, key \in Keys :
         Known[k][key] # None => Known[k][key] \in Users(k, key)
  BY KnownOwned
<1>2. routes' = Known /\ regs' = <<>>
  BY DEF Populate, Known
<1>3. Known' = FoldLeft(TakeUp, Known, <<>>)
  BY <1>2 DEF Known
<1>4. Known' = Known
  BY <1>1, <1>3, TakeUpNothing
<1>5. PingOwned'
  BY <1>1, <1>2 DEF PingOwned
<1> QED
  BY <1>1, <1>2, <1>4, <1>5

(* What is known after a registration, or the end of one.                  *)
LEMMA RaiseKnown ==
    ASSUME TypeOK, PingOwned, NEW t \in Threads, NEW to \in {None, t},
           Raise(t, to), routes' = routes
    PROVE  /\ regs' \in Seq(Registration) /\ Len(regs') <= QueueSize
           /\ dropped \subseteq dropped' /\ dropped' \subseteq Threads
           /\ PingOwned'
           /\ \A k \in Kinds, key \in Keys :
                 \/ Users(k, key) \subseteq dropped'
                 \/ Known'[k][key] = Taken(t, to, k, key, Known[k][key])
<1>1. /\ routes \in Routes /\ regs \in Seq(Registration) /\ Len(regs) <= QueueSize
      /\ dropped \subseteq Threads
  BY DEF TypeOK, Routes, Registration
<1>2. to \in Threads \cup {None} /\ regs' = FoldLeft(Raised, regs, Regs(t, to))
  BY DEF Raise
<1>3. regs' \in Seq(Registration) /\ Len(regs') <= QueueSize
  BY <1>1, <1>2, RaiseShape
<1>4. dropped \subseteq dropped' /\ dropped' \subseteq Threads
  BY <1>1 DEF Raise
<1>5. PingOwned'
  <2>1. ASSUME NEW i \in DOMAIN regs', regs'[i].to # None
        PROVE  regs'[i].to \in Users(regs'[i].kind, regs'[i].key)
    <3>1. CASE \E j \in DOMAIN regs : regs'[i] = regs[j]
      BY <2>1, <3>1 DEF PingOwned
    <3>2. CASE \E key \in KeySet(t) : regs'[i] = Entry(t, key, to)
      BY <2>1, <3>2 DEF Entry, Users
    <3> QED
      BY <1>1, <1>2, <3>1, <3>2, RaiseKeeps
  <2> QED
    BY <2>1 DEF PingOwned
<1>6. ASSUME NEW k \in Kinds, NEW key \in Keys
      PROVE  \/ Users(k, key) \subseteq dropped'
             \/ Known'[k][key] = Taken(t, to, k, key, Known[k][key])
  <2>1. ASSUME NEW u \in Users(k, key), NEW reg \in ToSet(regs \o Regs(t, to)),
               reg.kind = k, reg.key = key, reg \notin ToSet(regs')
        PROVE  u \in dropped'
    BY <2>1 DEF Users, Raise, KeySet
  <2>2. Known' = FoldLeft(TakeUp, routes, regs')
    BY DEF Known
  <2>3. \/ Users(k, key) \subseteq dropped'
        \/ FoldLeft(TakeUp, routes, regs')[k][key]
             = Taken(t, to, k, key, FoldLeft(TakeUp, routes, regs)[k][key])
    BY <1>1, <1>2, <2>1, RaiseEffect
  <2> QED
    BY <2>2, <2>3 DEF Known
<1> QED
  BY <1>3, <1>4, <1>5, <1>6

(* Threads that share a key share the session, or an address as legacy.    *)
LEMMA SharedKey ==
    ASSUME NEW t \in Threads, NEW u \in Threads, NEW k \in Kinds,
           NEW key \in Keys, t \in Users(k, key), u \in Users(k, key), t # u
    PROVE  /\ u[2] = t[2] /\ {u[1], t[1]} \subseteq Legacy
           /\ AddrOf[u[1]] = AddrOf[t[1]]
<1>1. t[2] = k /\ u[2] = k /\ key \in KeySet(t) /\ key \in KeySet(u)
  BY DEF Users
<1>2. t[1] # u[1]
  BY <1>1 DEF Threads
<1>3. CASE key \in Sessions
  BY <1>1, <1>2, <1>3, KeysOfThread
<1>4. CASE key \in Addrs
  BY <1>1, <1>4, KeysOfThread
<1> QED
  BY <1>1, <1>3, <1>4 DEF Keys

LEMMA PingRegister ==
    ASSUME PingInv, NEW t \in Threads, Register(t)
    PROVE  PingInv'
<1>1. /\ pc[t] = "off" /\ pc' = [pc EXCEPT ![t] = "wait"] /\ Raise(t, t)
      /\ rivals' = IF Rivals(t) = {} THEN rivals ELSE rivals \cup Rivals(t) \cup {t}
      /\ inbox' = inbox /\ endpoint' = endpoint /\ routes' = routes
      /\ sock' = sock /\ recv' = recv /\ peer' = peer /\ pings' = pings
      /\ crossed' = crossed
  BY DEF Register, recvVars
<1>2. TypeOK /\ PingOwned
  BY DEF PingInv
<1>3. /\ regs' \in Seq(Registration) /\ Len(regs') <= QueueSize
      /\ dropped \subseteq dropped' /\ dropped' \subseteq Threads
      /\ PingOwned'
      /\ \A k \in Kinds, key \in Keys :
            \/ Users(k, key) \subseteq dropped'
            \/ Known'[k][key] = Taken(t, t, k, key, Known[k][key])
  BY <1>1, <1>2, RaiseKnown
<1>4. rivals \subseteq rivals' /\ rivals' \subseteq Threads
  BY <1>1, <1>2 DEF Rivals, TypeOK
<1>5. TypeOK'
  <2>1. pc' \in [Threads -> {"off", "wait", "leave", "streams", "gone"}]
    BY <1>1, <1>2 DEF TypeOK
  <2> QED
    BY <1>1, <1>2, <1>3, <1>4, <2>1 DEF TypeOK, Registration
<1>6. PingsKept'
  BY <1>1 DEF PingInv, PingsKept
<1>7. \A u \in Threads : pc'[u] = IF u = t THEN "wait" ELSE pc[u]
  BY <1>1, <1>2 DEF TypeOK
<1>8. RivalsNoted'
  <2>1. ASSUME NEW u \in Threads, u # t PROVE Heard(u)' <=> Heard(u)
    BY <1>1, <1>7, <2>1 DEF Heard
  <2>2. ASSUME NEW u \in Threads, Heard(u)', NEW x \in Rivals(u)' PROVE x \in rivals'
    <3>1. /\ x \in Threads /\ x # u /\ x[2] = u[2]
          /\ {x[1], u[1]} \subseteq Legacy /\ AddrOf[x[1]] = AddrOf[u[1]]
          /\ Heard(x)'
      BY <2>2 DEF Rivals
    <3>2. CASE u = t
      <4>1. x \in Rivals(t)
        BY <2>1, <3>1, <3>2 DEF Rivals
      <4> QED
        BY <1>1, <4>1
    <3>3. CASE x = t
      <4>1. u \in Rivals(t)
        BY <2>1, <2>2, <3>1, <3>3 DEF Rivals
      <4> QED
        BY <1>1, <3>3, <4>1
    <3>4. CASE u # t /\ x # t
      <4>1. Heard(u) /\ x \in Rivals(u)
        BY <2>1, <2>2, <3>1, <3>4 DEF Rivals
      <4> QED
        BY <1>4, <4>1 DEF PingInv, RivalsNoted
    <3> QED
      BY <3>2, <3>3, <3>4
  <2> QED
    BY <2>2 DEF RivalsNoted
<1>9. ASSUME NEW u \in Threads, InPing(u) PROVE InPing(u)'
  BY <1>7, <1>9 DEF InPing
<1>10. Leftovers'
  <2>1. ASSUME NEW k \in Kinds, NEW key \in Keys, Known'[k][key] # None
        PROVE  InPing(Known[k][key])' \/ Users(k, key) \subseteq dropped'
    <3>1. CASE Users(k, key) \subseteq dropped'
      BY <3>1
    <3>2. CASE Known'[k][key] = t
      BY <1>7, <3>2 DEF InPing
    <3>3. CASE Known'[k][key] = Known[k][key]
      <4>1. InPing(Known[k][key]) \/ Users(k, key) \subseteq dropped
        BY <2>1, <3>3 DEF PingInv, Leftovers
      <4>2. Known[k][key] \in Threads
        BY <1>2, <2>1, <3>3, KnownOwned DEF Users
      <4> QED
        BY <1>3, <1>7, <3>3, <4>1, <4>2 DEF InPing
    <3> QED
      BY <1>3, <3>1, <3>2, <3>3 DEF Taken
  <2> QED
    BY <2>1 DEF Leftovers
<1>11. WaitingIsRouted'
  <2>1. ASSUME NEW u \in Threads \ (dropped' \cup rivals'), pc'[u] = "wait",
               NEW key \in KeySet(u)
        PROVE  Known'[u[2]][key] = u
    <3>1. u[2] \in Kinds /\ key \in Keys /\ u \in Users(u[2], key)
      BY KeysOfThread DEF Users
    <3>2. Known'[u[2]][key] = Taken(t, t, u[2], key, Known[u[2]][key])
      BY <1>3, <3>1
    <3>3. CASE u # t
      <4>1. Known[u[2]][key] = u
        BY <1>3, <1>4, <1>7, <2>1, <3>3 DEF PingInv, WaitingIsRouted, KeySet
      <4>2. u # None /\ t # None
        BY PingAssumption
      <4> QED
        BY <3>2, <4>1, <4>2 DEF Taken
    <3>4. CASE u = t
      <4>1. SUFFICES Known[t[2]][key] \in {None, t}
        <5>1. t # None
          BY PingAssumption
        <5> QED
          BY <3>2, <3>4, <4>1, <5>1 DEF Taken
      <4>2. SUFFICES ASSUME NEW x, x = Known[t[2]][key], x # None, x # t
                     PROVE  FALSE
        OBVIOUS
      <4>3. x \in Threads /\ x \in Users(t[2], key)
        BY <1>2, <3>1, <3>4, <4>2, KnownOwned DEF Users
      <4>4. InPing(x)
        BY <1>3, <3>1, <3>4, <4>2 DEF PingInv, Leftovers
      <4>5. Heard(x)
        BY <4>4 DEF InPing, Heard
      <4>6. x \in Rivals(t)
        BY <3>1, <3>4, <4>2, <4>3, <4>5, SharedKey DEF Rivals
      <4> QED
        BY <1>1, <3>4, <4>6
    <3> QED
      BY <3>3, <3>4
  <2> QED
    BY <2>1 DEF WaitingIsRouted, KeySet
<1>12. Meant'
  BY <1>1, <1>4 DEF PingInv, Meant
<1> QED
  BY <1>3, <1>5, <1>6, <1>8, <1>10, <1>11, <1>12 DEF PingInv

(* Who is not heard before is not heard after: nothing new to note.        *)
LEMMA NothingNewHeard ==
    ASSUME RivalsNoted, \A u \in Threads : Heard(u)' => Heard(u),
           rivals' = rivals
    PROVE  RivalsNoted'
<1> SUFFICES ASSUME NEW u \in Threads, Heard(u)', NEW x \in Rivals(u)'
             PROVE  x \in rivals
  BY DEF RivalsNoted
<1>1. x \in Rivals(u) /\ Heard(u)
  BY DEF Rivals
<1> QED
  BY <1>1 DEF RivalsNoted

LEMMA PingUnregister ==
    ASSUME PingInv, NEW t \in Threads, Unregister(t)
    PROVE  PingInv'
<1> DEFINE next == IF endpoint[t] = None THEN "gone" ELSE "streams"
<1>1. /\ pc[t] = "leave" /\ pc' = [pc EXCEPT ![t] = next] /\ Raise(t, None)
      /\ inbox' = [inbox EXCEPT ![t] = <<>>]
      /\ rivals' = rivals /\ endpoint' = endpoint /\ routes' = routes
      /\ sock' = sock /\ recv' = recv /\ peer' = peer /\ pings' = pings
      /\ crossed' = crossed
  BY DEF Unregister, recvVars
<1>2. TypeOK /\ PingOwned
  BY DEF PingInv
<1>3. /\ regs' \in Seq(Registration) /\ Len(regs') <= QueueSize
      /\ dropped \subseteq dropped' /\ dropped' \subseteq Threads
      /\ PingOwned'
      /\ \A k \in Kinds, key \in Keys :
            \/ Users(k, key) \subseteq dropped'
            \/ Known'[k][key] = Taken(t, None, k, key, Known[k][key])
  BY <1>1, <1>2, RaiseKnown
<1>4. TypeOK'
  <2>1. pc' \in [Threads -> {"off", "wait", "leave", "streams", "gone"}]
    BY <1>1, <1>2 DEF TypeOK
  <2>2. inbox' \in [Threads -> Seq(Threads)]
    BY <1>1, <1>2 DEF TypeOK
  <2> QED
    BY <1>1, <1>2, <1>3, <2>1, <2>2 DEF TypeOK, Registration
<1>5. PingsKept'
  BY <1>1 DEF PingInv, PingsKept
<1>6. /\ \A u \in Threads : u # t => pc'[u] = pc[u] /\ inbox'[u] = inbox[u]
      /\ pc'[t] = next /\ inbox'[t] = <<>>
  BY <1>1, <1>2 DEF TypeOK
<1>7. RivalsNoted'
  <2>1. \A u \in Threads : Heard(u)' => Heard(u)
    BY <1>1, <1>6 DEF Heard
  <2> QED
    BY <1>1, <2>1, NothingNewHeard DEF PingInv
<1>8. Leftovers'
  <2>1. ASSUME NEW k \in Kinds, NEW key \in Keys, Known'[k][key] # None,
               ~ (Users(k, key) \subseteq dropped')
        PROVE  InPing(Known[k][key])'
    <3>1. /\ Known'[k][key] = Known[k][key]
          /\ ~ (k = t[2] /\ key \in KeySet(t))
      BY <1>3, <2>1 DEF Taken
    <3>2. Known[k][key] \in Users(k, key)
      BY <1>2, <2>1, <3>1, KnownOwned
    <3>3. InPing(Known[k][key])
      BY <1>3, <2>1, <3>1 DEF PingInv, Leftovers
    <3>4. Known[k][key] \in Threads /\ Known[k][key] # t
      BY <3>1, <3>2 DEF Users
    <3> QED
      BY <1>6, <3>1, <3>3, <3>4 DEF InPing
  <2> QED
    BY <2>1 DEF Leftovers
<1>9. WaitingIsRouted'
  <2>1. ASSUME NEW u \in Threads \ (dropped' \cup rivals'), pc'[u] = "wait",
               NEW key \in KeySet(u)
        PROVE  Known'[u[2]][key] = u
    <3>1. u[2] \in Kinds /\ key \in Keys /\ u \in Users(u[2], key)
      BY KeysOfThread DEF Users
    <3>2. Known'[u[2]][key] = Taken(t, None, u[2], key, Known[u[2]][key])
      BY <1>3, <3>1
    <3>3. u # t /\ pc[u] = "wait"
      BY <1>6, <2>1
    <3>4. Known[u[2]][key] = u
      BY <1>1, <1>3, <2>1, <3>3 DEF PingInv, WaitingIsRouted, KeySet
    <3>5. ~ (u[2] = t[2] /\ key \in KeySet(t))
      <4> SUFFICES ASSUME u[2] = t[2], key \in KeySet(t) PROVE FALSE
        OBVIOUS
      <4>1. t \in Users(u[2], key)
        BY DEF Users
      <4>2. Heard(u) /\ Heard(t)
        BY <1>1, <3>3 DEF Heard
      <4>3. u \in Rivals(t)
        BY <3>1, <3>3, <4>1, <4>2, SharedKey DEF Rivals
      <4>4. u \in rivals
        BY <4>2, <4>3 DEF PingInv, RivalsNoted
      <4> QED
        BY <1>1, <2>1, <4>4
    <3> QED
      BY <3>2, <3>4, <3>5 DEF Taken
  <2> QED
    BY <2>1 DEF WaitingIsRouted, KeySet
<1>10. Meant'
  BY <1>1, <1>6 DEF PingInv, Meant
<1> QED
  BY <1>3, <1>4, <1>5, <1>7, <1>8, <1>9, <1>10 DEF PingInv

(* A thread that takes a message, gives up waiting, or ends.               *)
LEMMA PingThread ==
    ASSUME PingInv, NEW t \in Threads, Pop(t) \/ Timeout(t) \/ End(t)
    PROVE  PingInv'
<1>1. /\ regs' = regs /\ routes' = routes /\ sock' = sock /\ recv' = recv
      /\ peer' = peer /\ pings' = pings /\ dropped' = dropped
      /\ rivals' = rivals /\ crossed' = crossed
  BY DEF Pop, Timeout, End, recvVars, noteVars
<1>2. TypeOK
  BY DEF PingInv
<1>3. /\ \A u \in Threads : u # t =>
            pc'[u] = pc[u] /\ inbox'[u] = inbox[u] /\ endpoint'[u] = endpoint[u]
      /\ InPing(t)' = InPing(t)
      /\ pc[t] \notin {"off", "gone"} /\ pc'[t] # "wait"
  BY <1>2 DEF Pop, Timeout, End, TypeOK, InPing
<1>4. TypeOK' /\ Meant'
  <2>1. CASE Pop(t)
    <3>1. /\ pc' = [pc EXCEPT ![t] = "leave"] /\ inbox[t] # <<>>
          /\ endpoint' = [endpoint EXCEPT ![t] = Head(inbox[t])]
          /\ inbox' = [inbox EXCEPT ![t] = Tail(@)]
      BY <2>1 DEF Pop
    <3>2. inbox[t] \in Seq(Threads)
      BY <1>2 DEF TypeOK
    <3>3. /\ Head(inbox[t]) \in Threads /\ Tail(inbox[t]) \in Seq(Threads)
          /\ 1 \in DOMAIN inbox[t] /\ Head(inbox[t]) = inbox[t][1]
          /\ \A i \in DOMAIN Tail(inbox[t]) :
                i + 1 \in DOMAIN inbox[t] /\ Tail(inbox[t])[i] = inbox[t][i + 1]
      BY <3>1, <3>2
    <3>4. TypeOK'
      <4>1. pc' \in [Threads -> {"off", "wait", "leave", "streams", "gone"}]
        BY <1>2, <3>1 DEF TypeOK
      <4>2. /\ endpoint' \in [Threads -> Threads \cup {None}]
            /\ inbox' \in [Threads -> Seq(Threads)]
        BY <1>2, <3>1, <3>3 DEF TypeOK
      <4> QED
        BY <1>1, <1>2, <4>1, <4>2 DEF TypeOK
    <3>5. endpoint'[t] = inbox[t][1] /\ inbox'[t] = Tail(inbox[t])
      BY <1>2, <3>1, <3>3 DEF TypeOK
    <3>6. ASSUME NEW u \in Threads \ (crossed \cup rivals)
          PROVE  /\ endpoint'[u] \in {None, u}
                 /\ \A i \in DOMAIN inbox'[u] : inbox'[u][i] = u
      <4>1. /\ endpoint[u] \in {None, u}
            /\ \A i \in DOMAIN inbox[u] : inbox[u][i] = u
        BY DEF PingInv, Meant
      <4>2. CASE u # t
        BY <1>3, <4>1, <4>2
      <4>3. CASE u = t
        <5>1. inbox[t][1] = t
          BY <3>3, <4>1, <4>3
        <5>2. \A i \in DOMAIN Tail(inbox[t]) : Tail(inbox[t])[i] = t
          BY <3>3, <4>1, <4>3
        <5> QED
          BY <3>5, <4>3, <5>1, <5>2
      <4> QED
        BY <4>2, <4>3
    <3>7. Meant'
      BY <1>1, <3>6 DEF Meant
    <3> QED
      BY <3>4, <3>7
  <2>2. CASE Timeout(t)
    BY <1>1, <1>2, <2>2 DEF Timeout, TypeOK, PingInv, Meant
  <2>3. CASE End(t)
    <3>1. TypeOK'
      BY <1>1, <1>2, <2>3 DEF End, TypeOK
    <3>2. endpoint'[t] = None /\ inbox' = inbox
      BY <1>2, <2>3 DEF End, TypeOK
    <3> QED
      BY <1>1, <1>3, <3>1, <3>2 DEF PingInv, Meant
  <2> QED
    BY <2>1, <2>2, <2>3
<1>5. Known' = Known /\ PingOwned' /\ PingsKept'
  BY <1>1 DEF Known, PingInv, PingOwned, PingsKept
<1>6. RivalsNoted'
  <2>1. \A u \in Threads : Heard(u)' => Heard(u)
    BY <1>1, <1>3 DEF Heard
  <2> QED
    BY <1>1, <2>1, NothingNewHeard DEF PingInv
<1>7. Leftovers'
  <2>1. ASSUME NEW k \in Kinds, NEW key \in Keys,
               NEW x, x = Known[k][key], x # None
        PROVE  InPing(x)' \/ Users(k, key) \subseteq dropped'
    <3>1. x \in Threads
      BY <1>2, <2>1, KnownOwned DEF PingInv, Users
    <3>2. InPing(x) \/ Users(k, key) \subseteq dropped
      BY <2>1 DEF PingInv, Leftovers
    <3> QED
      BY <1>1, <1>3, <3>1, <3>2 DEF InPing
  <2> QED
    BY <1>5, <2>1 DEF Leftovers
<1>8. WaitingIsRouted'
  BY <1>1, <1>3, <1>5 DEF PingInv, WaitingIsRouted
<1> QED
  BY <1>4, <1>5, <1>6, <1>7, <1>8 DEF PingInv

LEMMA PingSend ==
    ASSUME PingInv, NEW t \in Threads, Send(t)
    PROVE  PingInv'
<1>1. /\ pc[t] \notin {"off", "gone"} /\ pings < MaxPings
      /\ pings' = pings + 1
      /\ sock' = [sock EXCEPT ![t[2]] = Append(@, Ping(t))]
      /\ pc' = pc /\ inbox' = inbox /\ endpoint' = endpoint
      /\ regs' = regs /\ routes' = routes /\ recv' = recv /\ peer' = peer
      /\ dropped' = dropped /\ rivals' = rivals /\ crossed' = crossed
  BY DEF Send, threadVars, noteVars
<1>2. TypeOK
  BY DEF PingInv
<1>3. t[1] \in Sessions /\ t[2] \in Kinds
  BY DEF Threads
<1>4. Ping(t) \in Datagram
  BY <1>3 DEF Ping, Datagram
<1>5. sock[t[2]] \in Seq(Datagram)
  BY <1>2, <1>3 DEF TypeOK
<1>6. /\ \A k \in Kinds : k # t[2] => sock'[k] = sock[k]
      /\ sock'[t[2]] = Append(sock[t[2]], Ping(t))
  BY <1>1, <1>2, <1>3 DEF TypeOK
<1>7. \A k \in Kinds : \A i \in DOMAIN sock'[k] :
         \/ i \in DOMAIN sock[k] /\ sock'[k][i] = sock[k][i]
         \/ k = t[2] /\ sock'[k][i] = Ping(t)
  <2>1. ASSUME NEW i \in DOMAIN sock'[t[2]]
        PROVE  \/ i \in DOMAIN sock[t[2]] /\ sock'[t[2]][i] = sock[t[2]][i]
               \/ sock'[t[2]][i] = Ping(t)
    BY <1>4, <1>5, <1>6, Appended
  <2> QED
    BY <1>6, <2>1
<1>8. TypeOK'
  <2>1. sock' \in [Kinds -> Seq(Datagram)]
    <3> DEFINE z == Append(sock[t[2]], Ping(t))
    <3>1. z \in Seq(Datagram) /\ sock' = [sock EXCEPT ![t[2]] = z]
      BY <1>1, <1>4, <1>5
    <3> HIDE DEF z
    <3> QED
      BY <1>2, <3>1 DEF TypeOK
  <2>2. pings' \in 0 .. MaxPings
    BY <1>1, <1>2, PingAssumption DEF TypeOK
  <2> QED
    BY <1>1, <1>2, <2>1, <2>2 DEF TypeOK
<1>9. Known' = Known /\ PingOwned' /\ Leftovers' /\ WaitingIsRouted' /\ Meant'
  BY <1>1 DEF Known, PingInv, PingOwned, Leftovers, InPing, WaitingIsRouted, Meant
<1>10. PingsKept'
  BY <1>1, <1>3, <1>7 DEF PingInv, PingsKept
<1>11. RivalsNoted'
  <2>1. ASSUME NEW u \in Threads, Heard(u)' PROVE Heard(u)
    <3>1. u[2] \in Kinds
      BY DEF Threads
    <3>2. CASE Ping(u) \in ToSet(sock'[u[2]])
      <4>1. PICK i \in DOMAIN sock'[u[2]] : Ping(u) = sock'[u[2]][i]
        BY <3>2 DEF ToSet
      <4>2. Ping(u) = Ping(t) => u = t
        BY DEF Ping
      <4>3. u = t \/ Ping(u) \in ToSet(sock[u[2]])
        BY <1>7, <3>1, <4>1, <4>2 DEF ToSet
      <4> QED
        BY <1>1, <4>3 DEF Heard
    <3>3. CASE pc[u] \notin {"off", "gone"} \/ recv[u[2]] = Ping(u)
      BY <3>3 DEF Heard
    <3> QED
      BY <1>1, <2>1, <3>2, <3>3 DEF Heard
  <2> QED
    BY <1>1, <2>1, NothingNewHeard DEF PingInv
<1> QED
  BY <1>8, <1>9, <1>10, <1>11 DEF PingInv

(* The handler of a datagram. from is its sender, unless another receive   *)
(* has completed in between.                                               *)
LEMMA PingHandle ==
    ASSUME PingInv, NEW k \in Kinds, NEW u \in Threads, u[2] = k, Heard(u),
           NEW d, d = Ping(u), NEW from \in Threads, NEW rest \in Seq(Datagram),
           \A i \in DOMAIN rest : rest[i] \in ToSet(sock[k]),
           Handle(k, d, from, rest)
    PROVE  PingInv'
<1> DEFINE key == IF d.id = None THEN AddrOf[from[1]] ELSE d.id
           t == routes'[k][key]
<1>1. /\ Populate
      /\ IF t # None /\ pc[t] = "wait"
         THEN /\ inbox' = [inbox EXCEPT ![t] = Append(@, from)]
              /\ crossed' = IF from = d.from THEN crossed ELSE crossed \cup {t}
         ELSE inbox' = inbox /\ crossed' = crossed
      /\ IF rest = <<>>
         THEN /\ recv' = [recv EXCEPT ![k] = None]
              /\ sock' = [sock EXCEPT ![k] = <<>>]
              /\ peer' = IF \E j \in Kinds : recv'[j] # None THEN from ELSE None
         ELSE /\ recv' = [recv EXCEPT ![k] = Head(rest)]
              /\ sock' = [sock EXCEPT ![k] = Tail(rest)]
              /\ peer' = Head(rest).from
      /\ pc' = pc /\ endpoint' = endpoint /\ pings' = pings
      /\ dropped' = dropped /\ rivals' = rivals
  BY DEF Handle, Route
<1>2. TypeOK /\ PingOwned
  BY DEF PingInv
<1>3. /\ routes' \in Routes /\ routes' = Known /\ regs' = <<>>
      /\ Known' = Known /\ PingOwned'
  BY <1>1, <1>2, PopulateEffect
<1>4. /\ d \in Datagram /\ d.from = u
      /\ d.id = IF u[1] \in Legacy THEN None ELSE u[1]
  BY DEF Ping, Datagram, Threads
<1>5. key \in Keys /\ None \notin Threads /\ None \notin Sessions
  BY <1>4, PingAssumption DEF Threads, Datagram, Keys
<1>6. t # None => t \in Users(k, key) /\ t \in Threads
  BY <1>2, <1>3, <1>5, KnownOwned DEF Users
<1> HIDE DEF t, key
(* What is left at the socket.                                             *)
<1>7. /\ recv' \in [Kinds -> Datagram \cup {None}]
      /\ sock' \in [Kinds -> Seq(Datagram)]
      /\ peer' \in Threads \cup {None}
      /\ (\E j \in Kinds : recv'[j] # None) => peer' # None
      /\ \A j \in Kinds : j # k => recv'[j] = recv[j] /\ sock'[j] = sock[j]
      /\ recv'[k] # None => recv'[k] \in ToSet(sock[k])
      /\ ToSet(sock'[k]) \subseteq ToSet(sock[k])
  <2>1. CASE rest = <<>>
    <3>1. /\ recv' = [recv EXCEPT ![k] = None] /\ sock' = [sock EXCEPT ![k] = <<>>]
          /\ peer' = IF \E j \in Kinds : recv'[j] # None THEN from ELSE None
      BY <1>1, <2>1
    <3>2. sock'[k] = <<>> /\ recv'[k] = None
      BY <1>2, <3>1 DEF TypeOK
    <3>3. ToSet(sock'[k]) = {}
      BY <3>2 DEF ToSet
    <3> QED
      BY <1>2, <1>5, <3>1, <3>2, <3>3 DEF TypeOK
  <2>2. CASE rest # <<>>
    <3>1. /\ recv' = [recv EXCEPT ![k] = Head(rest)]
          /\ sock' = [sock EXCEPT ![k] = Tail(rest)]
          /\ peer' = Head(rest).from
      BY <1>1, <2>2
    <3>2. /\ Head(rest) \in Datagram /\ Tail(rest) \in Seq(Datagram)
          /\ 1 \in DOMAIN rest /\ Head(rest) = rest[1]
          /\ \A i \in DOMAIN Tail(rest) :
                i + 1 \in DOMAIN rest /\ Tail(rest)[i] = rest[i + 1]
      BY <2>2
    <3>3. Head(rest) \in ToSet(sock[k]) /\ Head(rest).from \in Threads
      BY <3>2 DEF Datagram
    <3>4. sock'[k] = Tail(rest) /\ recv'[k] = Head(rest)
      BY <1>2, <3>1 DEF TypeOK
    <3>5. ToSet(sock'[k]) \subseteq ToSet(sock[k])
      BY <3>2, <3>4 DEF ToSet
    <3>6. /\ recv' \in [Kinds -> Datagram \cup {None}]
          /\ sock' \in [Kinds -> Seq(Datagram)]
          /\ \A j \in Kinds : j # k => recv'[j] = recv[j] /\ sock'[j] = sock[j]
      BY <1>2, <3>1, <3>2 DEF TypeOK
    <3> QED
      BY <1>5, <3>1, <3>3, <3>4, <3>5, <3>6
  <2> QED
    BY <2>1, <2>2
<1>8. /\ inbox' \in [Threads -> Seq(Threads)] /\ crossed' \subseteq Threads
      /\ crossed \subseteq crossed'
      /\ \A x \in Threads : inbox'[x] = inbox[x] \/
            (/\ x = t /\ t # None /\ pc[t] = "wait"
             /\ inbox'[x] = Append(inbox[x], from)
             /\ from = u \/ t \in crossed')
  <2>1. CASE t # None /\ pc[t] = "wait"
    <3>1. /\ inbox' = [inbox EXCEPT ![t] = Append(@, from)]
          /\ crossed' = IF from = d.from THEN crossed ELSE crossed \cup {t}
          /\ t \in Threads
      BY <1>1, <1>6, <2>1
    <3>2. inbox[t] \in Seq(Threads) /\ Append(inbox[t], from) \in Seq(Threads)
      BY <1>2, <3>1 DEF TypeOK
    <3>3. inbox' \in [Threads -> Seq(Threads)]
      BY <1>2, <3>1, <3>2 DEF TypeOK
    <3>4. \A x \in Threads : inbox'[x] = IF x = t THEN Append(inbox[x], from)
                                         ELSE inbox[x]
      BY <1>2, <3>1 DEF TypeOK
    <3> QED
      BY <1>2, <1>4, <2>1, <3>1, <3>3, <3>4 DEF TypeOK
  <2>2. CASE ~ (t # None /\ pc[t] = "wait")
    BY <1>1, <1>2, <2>2 DEF TypeOK
  <2> QED
    BY <2>1, <2>2
<1>9. TypeOK'
  <2>1. /\ regs' \in Seq([kind : Kinds, key : Keys, to : Threads \cup {None}])
        /\ Len(regs') <= QueueSize
    BY <1>3, PingAssumption
  <2> QED
    BY <1>1, <1>2, <1>3, <1>7, <1>8, <2>1 DEF TypeOK, Routes
<1>10. PingsKept'
  <2>1. \A x \in ToSet(sock[k]) : \E v \in Threads : v[2] = k /\ x = Ping(v)
    BY DEF PingInv, PingsKept, ToSet
  <2>2. \A i \in DOMAIN sock'[k] : sock'[k][i] \in ToSet(sock[k])
    BY <1>7 DEF ToSet
  <2>3. ASSUME NEW j \in Kinds
        PROVE  /\ \A i \in DOMAIN sock'[j] :
                     \E v \in Threads : v[2] = j /\ sock'[j][i] = Ping(v)
               /\ recv'[j] # None =>
                     \E v \in Threads : v[2] = j /\ recv'[j] = Ping(v)
    <3>1. CASE j = k
      BY <1>7, <2>1, <2>2, <3>1
    <3>2. CASE j # k
      BY <1>7, <3>2 DEF PingInv, PingsKept
    <3> QED
      BY <3>1, <3>2
  <2> QED
    BY <1>7, <2>3 DEF PingsKept
<1>11. RivalsNoted'
  <2>1. ASSUME NEW x \in Threads, Heard(x)' PROVE Heard(x)
    <3>1. Ping(x) # None /\ x[2] \in Kinds
      <4>1. Ping(x) \in Datagram
        BY DEF Ping, Datagram, Threads
      <4> QED
        BY <4>1, PingAssumption DEF Threads
    <3>2. CASE x[2] = k
      BY <1>1, <1>7, <2>1, <3>1, <3>2 DEF Heard
    <3>3. CASE x[2] # k
      BY <1>1, <1>7, <2>1, <3>1, <3>3 DEF Heard
    <3> QED
      BY <3>2, <3>3
  <2> QED
    BY <1>1, <2>1, NothingNewHeard DEF PingInv
<1>12. Leftovers' /\ WaitingIsRouted'
  BY <1>1, <1>3 DEF PingInv, Leftovers, InPing, WaitingIsRouted
(* Who is told has the sender's key: it is the sender, or its rival.       *)
<1>13. ASSUME t # None, pc[t] = "wait", from = u, t \notin rivals
       PROVE  t = u
  <2>1. u \in Users(k, key)
    <3>1. CASE u[1] \in Legacy
      BY <1>4, <1>13, <3>1, KeysOfThread DEF Users, key
    <3>2. CASE u[1] \notin Legacy
      <4>1. key = u[1]
        BY <1>4, <1>5, <3>2 DEF key, Threads
      <4> QED
        BY <3>2, <4>1, KeysOfThread DEF Users
    <3> QED
      BY <3>1, <3>2
  <2>2. SUFFICES ASSUME t # u PROVE FALSE
    OBVIOUS
  <2>3. /\ t[2] = u[2] /\ {t[1], u[1]} \subseteq Legacy
        /\ AddrOf[t[1]] = AddrOf[u[1]]
    BY <1>5, <1>6, <1>13, <2>1, <2>2, SharedKey
  <2>4. Heard(t)
    BY <1>13 DEF Heard
  <2>5. t \in Rivals(u)
    BY <1>6, <1>13, <2>2, <2>3, <2>4 DEF Rivals
  <2> QED
    BY <1>13, <2>5 DEF PingInv, RivalsNoted
<1>14. Meant'
  <2>1. ASSUME NEW x \in Threads \ (crossed' \cup rivals'),
               NEW i \in DOMAIN inbox'[x]
        PROVE  inbox'[x][i] = x
    <3>1. \A j \in DOMAIN inbox[x] : inbox[x][j] = x
      BY <1>1, <1>8, <2>1 DEF PingInv, Meant
    <3>2. CASE inbox'[x] = inbox[x]
      BY <2>1, <3>1, <3>2
    <3>3. CASE /\ x = t /\ t # None /\ pc[t] = "wait"
               /\ inbox'[x] = Append(inbox[x], from) /\ from = u
      <4>1. from = x
        BY <1>1, <1>13, <2>1, <3>3
      <4>2. inbox[x] \in Seq(Threads)
        BY <1>2 DEF TypeOK
      <4> QED
        BY <2>1, <3>1, <3>3, <4>1, <4>2, Appended
    <3> QED
      BY <1>8, <2>1, <3>2, <3>3
  <2>2. \A x \in Threads \ (crossed' \cup rivals') : endpoint'[x] \in {None, x}
    BY <1>1, <1>8 DEF PingInv, Meant
  <2> QED
    BY <2>1, <2>2 DEF Meant
<1> QED
  BY <1>3, <1>9, <1>10, <1>11, <1>12, <1>14 DEF PingInv

-----------------------------------------------------------------------------
LEMMA PingInitInv == Init => PingInv
<1> SUFFICES ASSUME Init PROVE PingInv
  OBVIOUS
<1>1. TypeOK
  BY PingAssumption DEF Init, TypeOK
<1>2. PingOwned /\ PingsKept
  BY DEF Init, PingOwned, PingsKept
<1>3. \A u \in Threads : ~ Heard(u)
  <2> SUFFICES ASSUME NEW u \in Threads PROVE ~ Heard(u)
    OBVIOUS
  <2>1. u[2] \in Kinds /\ Ping(u) \in Datagram
    BY DEF Threads, Ping, Datagram
  <2>2. sock[u[2]] = <<>> /\ recv[u[2]] = None /\ pc[u] = "off" /\ Ping(u) # None
    BY <2>1, PingAssumption DEF Init
  <2>3. ToSet(sock[u[2]]) = {}
    BY <2>2 DEF ToSet
  <2> QED
    BY <2>2, <2>3 DEF Heard
<1>4. RivalsNoted
  BY <1>3 DEF RivalsNoted
<1>5. Known = routes
  <2>1. routes \in Routes /\ regs = <<>>
    BY <1>1 DEF Init, TypeOK, Routes
  <2> QED
    BY <2>1, TakeUpNothing DEF Known
<1>6. Leftovers
  BY <1>5 DEF Init, Leftovers
<1>7. WaitingIsRouted
  BY DEF Init, WaitingIsRouted
<1>8. Meant
  BY DEF Init, Meant
<1> QED
  BY <1>1, <1>2, <1>4, <1>6, <1>7, <1>8 DEF PingInv

LEMMA PingNextInv == PingInv /\ [Next]_vars => PingInv'
<1> SUFFICES ASSUME PingInv, [Next]_vars PROVE PingInv'
  OBVIOUS
<1>0. TypeOK /\ PingOwned
  BY DEF PingInv
<1>1. ASSUME NEW t \in Threads,
             \/ Register(t) \/ Pop(t) \/ Timeout(t) \/ Unregister(t) \/ End(t)
             \/ Send(t)
      PROVE  PingInv'
  BY <1>1, PingRegister, PingThread, PingUnregister, PingSend
<1>2. ASSUME NEW k \in Kinds, Receive(k) PROVE PingInv'
  <2>1. /\ sock[k] \in Seq(Datagram) /\ sock[k] # <<>>
        /\ Handle(k, Head(sock[k]), Head(sock[k]).from, Tail(sock[k]))
    BY <1>0, <1>2 DEF Receive, TypeOK
  <2>2. /\ Tail(sock[k]) \in Seq(Datagram)
        /\ 1 \in DOMAIN sock[k] /\ Head(sock[k]) = sock[k][1]
        /\ \A i \in DOMAIN Tail(sock[k]) :
              i + 1 \in DOMAIN sock[k] /\ Tail(sock[k])[i] = sock[k][i + 1]
    BY <2>1
  <2>3. \A i \in DOMAIN Tail(sock[k]) : Tail(sock[k])[i] \in ToSet(sock[k])
    BY <2>2 DEF ToSet
  <2>4. PICK u \in Threads : u[2] = k /\ Head(sock[k]) = Ping(u)
    BY <2>2 DEF PingInv, PingsKept
  <2>5. Heard(u) /\ Head(sock[k]).from = u
    BY <2>2, <2>4 DEF Heard, ToSet, Ping
  <2> QED
    BY <2>1, <2>2, <2>3, <2>4, <2>5, PingHandle
<1>3. ASSUME NEW k \in Kinds, Complete(k) PROVE PingInv'
  <2>1. recv[k] # None /\ Handle(k, recv[k], peer, sock[k])
    BY <1>3 DEF Complete
  <2>2. /\ sock[k] \in Seq(Datagram) /\ peer \in Threads
        /\ \A i \in DOMAIN sock[k] : sock[k][i] \in ToSet(sock[k])
    BY <1>0, <2>1 DEF TypeOK, PingInv, PingsKept, ToSet
  <2>3. PICK u \in Threads : u[2] = k /\ recv[k] = Ping(u)
    BY <2>1 DEF PingInv, PingsKept
  <2>4. Heard(u)
    BY <2>3 DEF Heard
  <2> QED
    BY <2>1, <2>2, <2>3, <2>4, PingHandle
<1>4. ASSUME NEW k \in Kinds, ReceiveFails(k) PROVE PingInv'
  <2>1. /\ Populate /\ pc' = pc /\ inbox' = inbox /\ endpoint' = endpoint
        /\ sock' = sock /\ recv' = recv /\ peer' = peer /\ pings' = pings
        /\ dropped' = dropped /\ rivals' = rivals /\ crossed' = crossed
    BY <1>4 DEF ReceiveFails, threadVars, noteVars
  <2>2. /\ routes' \in Routes /\ regs' = <<>> /\ Known' = Known /\ PingOwned'
    BY <1>0, <2>1, PopulateEffect
  <2>3. TypeOK'
    <3>1. /\ regs' \in Seq([kind : Kinds, key : Keys, to : Threads \cup {None}])
          /\ Len(regs') <= QueueSize
      BY <2>2, PingAssumption
    <3> QED
      BY <1>0, <2>1, <2>2, <3>1 DEF TypeOK, Routes
  <2> QED
    BY <2>1, <2>2, <2>3 DEF PingInv, PingsKept, RivalsNoted, Rivals, Heard,
       Leftovers, InPing, WaitingIsRouted, Meant
<1>5. CASE UNCHANGED vars
  <2>1. /\ pc' = pc /\ inbox' = inbox /\ endpoint' = endpoint /\ regs' = regs
        /\ routes' = routes /\ sock' = sock /\ recv' = recv /\ peer' = peer
        /\ pings' = pings
        /\ dropped' = dropped /\ rivals' = rivals /\ crossed' = crossed
    BY <1>5 DEF vars, threadVars, recvVars, noteVars
  <2> QED
    BY <2>1 DEF PingInv, TypeOK, PingOwned, PingsKept, RivalsNoted, Rivals,
       Heard, Leftovers, Known, InPing, WaitingIsRouted, Meant
<1> QED
  BY <1>1, <1>2, <1>3, <1>4, <1>5 DEF Next

(* What the registration queue, the routes and the threads have to do with *)
(* each other holds all the time.                                          *)
THEOREM PingSpecInv == Spec => []PingInv
<1>1. Init => PingInv
  BY PingInitInv
<1>2. PingInv /\ [Next]_vars => PingInv'
  BY PingNextInv
<1> QED
  BY <1>1, <1>2, PTL DEF Spec

(* Each stream sends to the endpoint its own client pinged from, but for   *)
(* those noted as crossed (both receives wrote peer before its handler     *)
(* ran) and as rivals (legacy clients heard at one address at once).       *)
THEOREM EndpointIsClients == Spec => []RightEndpoint
<1>1. PingInv => RightEndpoint
  BY DEF PingInv, RightEndpoint, Meant
<1> QED
  BY <1>1, PingSpecInv, PTL

(* Exactly those are registered who wait: across sessions that come and go *)
(* at one address, and for any size of the queue.                          *)
THEOREM RegisteredAreWaiting == Spec => []RegistrationsKept
<1>1. PingInv => NoLeftovers
  <2> SUFFICES ASSUME PingInv, NEW k \in Kinds, NEW key \in Keys,
                      NEW t, t = Known[k][key], t # None,
                      t \notin dropped \cup rivals
               PROVE  InPing(t)
    BY DEF NoLeftovers
  <2>1. t \in Users(k, key)
    BY KnownOwned DEF PingInv
  <2> QED
    BY <2>1 DEF PingInv, Leftovers
<1>2. PingInv => RegistrationsKept
  BY <1>1 DEF PingInv, RegistrationsKept
<1> QED
  BY <1>2, PingSpecInv, PTL

-----------------------------------------------------------------------------
(* The clients. First, sequences that lose or gain an element.             *)

(* What a list loses with an element.                                      *)
LEMMA Removed ==
    ASSUME NEW S, NEW s \in Seq(S), NEW i \in 1 .. Len(s)
    PROVE  /\ RemoveAt(s, i) \in Seq(S)
           /\ \A j \in 1 .. Len(RemoveAt(s, i)) :
                 \E k \in 1 .. Len(s) : RemoveAt(s, i)[j] = s[k]
<1> DEFINE before == SubSeq(s, 1, i - 1)
           after == SubSeq(s, i + 1, Len(s))
<1>1. Len(s) \in Nat /\ \A j \in 1 .. Len(s) : s[j] \in S
  OBVIOUS
<1>2. /\ before \in Seq(S) /\ Len(before) = i - 1
      /\ \A j \in 1 .. (i - 1) : before[j] = s[j]
  <2>1. \A j \in 1 .. (i - 1) : s[j] \in S
    BY <1>1
  <2> QED
    BY <1>1, <2>1, SubSeqProperties
<1>3. /\ after \in Seq(S) /\ Len(after) = Len(s) - i
      /\ \A j \in 1 .. (Len(s) - i) : after[j] = s[j + i]
  <2>1. \A j \in (i + 1) .. Len(s) : s[j] \in S
    BY <1>1
  <2> QED
    BY <1>1, <2>1, SubSeqProperties
<1> HIDE DEF before, after
<1>4. RemoveAt(s, i) = before \o after
  BY DEF RemoveAt, before, after
<1>5. /\ before \o after \in Seq(S)
      /\ Len(before \o after) = Len(before) + Len(after)
      /\ \A j \in 1 .. Len(before) + Len(after) : (before \o after)[j] =
            IF j <= Len(before) THEN before[j] ELSE after[j - Len(before)]
  BY <1>2, <1>3, ConcatProperties
<1>6. ASSUME NEW j \in 1 .. (Len(s) - 1)
      PROVE  \E k \in 1 .. Len(s) : (before \o after)[j] = s[k]
  <2>1. CASE j < i
    BY <1>1, <1>2, <1>3, <1>5, <2>1
  <2>2. CASE j >= i
    <3>1. (before \o after)[j] = after[j - (i - 1)]
      BY <1>1, <1>2, <1>3, <1>5, <2>2
    <3>2. /\ j - (i - 1) \in 1 .. (Len(s) - i)
          /\ (j - (i - 1)) + i \in 1 .. Len(s)
      BY <1>1, <2>2
    <3> QED
      BY <1>3, <3>1, <3>2
  <2>3. j < i \/ j >= i
    BY <1>1
  <2> QED
    BY <2>1, <2>2, <2>3
<1>7. Len(before \o after) = Len(s) - 1
  BY <1>1, <1>2, <1>3, <1>5
<1> QED
  BY <1>4, <1>5, <1>6, <1>7

(* A list with an element more.                                            *)
LEMMA ListExtended ==
    ASSUME NEW S, NEW s \in Seq(S), NEW e \in S
    PROVE  /\ Append(s, e) \in Seq(S)
           /\ Len(Append(s, e)) = Len(s) + 1
           /\ DOMAIN Append(s, e) = 1 .. (Len(s) + 1)
           /\ Append(s, e)[Len(s) + 1] = e
           /\ \A i \in 1 .. Len(s) : Append(s, e)[i] = s[i]
  OBVIOUS

-----------------------------------------------------------------------------
(* The file, the list in memory and the chain of certificates. PairingInv  *)
(* is the inductive invariant.                                             *)

\* Only requests of the web thread load the list again, and only the HTTP
\* thread adds a client.
LoadsOnWeb ==
    /\ saving["http"].then \in {"idle", "remove"}
    /\ stage["http"] # "load"
    /\ saving["web"].then \in {"idle", "load"}
    /\ stage["web"] \notin {"add", "remove"}
    /\ stage["web"] = "load" => saving["web"].then = "load"
    /\ stage["http"] = "idle" \/ adding \in [cert : Clients, id : Ids]

\* What is not a list is empty, and a thread that saves writes a list.
ListsAreLists ==
    /\ file.state = "none" => file.devices = <<>>
    /\ \A t \in Editors :
           /\ saving[t].state = "none" => saving[t].devices = <<>>
           /\ stage[t] = "save" => saving[t].state = "ok" /\ saving[t].list

\* A thread that is about to write has the list as it is now, be it that of
\* a file that was not behind.
WritesTheList ==
    \A t \in Editors :
        /\ (stage[t] \in {"write", "writing"} /\ (saving[t].list \/ ~behind)) =>
               saving[t].devices = devices
        /\ stage[t] = "writing" => file.state = "torn"

\* Until it is opened, the file says what it said before the request.
FileFollows ==
    /\ (\A t \in Editors : stage[t] \in {"idle", "add", "remove"}) =>
           acked = devices
    /\ (\E t \in Editors : stage[t] \in {"write", "writing"} /\ ~saving[t].list)
           => acked = devices
    /\ ~behind =>
        /\ (\A t \in Editors : stage[t] \in {"idle", "add", "load", "remove"}) =>
               file.state # "torn" /\ file.devices = devices
        /\ (\E t \in Editors : stage[t] \in {"save", "write"}) =>
               file.state # "torn" /\ file.devices = acked

OneAtATime == stage["http"] = "idle" \/ stage["web"] = "idle"

\* The list, its copies and the file, while one thread at a time edits it.
InStep == OneAtATime /\ WritesTheList /\ FileFollows

\* The certificate of the client that is being added is known.
AddsKnown ==
    (~overlap /\ stage["http"] = "add") =>
        adding.cert \in chain \cup ToSet(addCert) \cup lost

\* No certificate is left over where no load is to come.
Tidy ==
    (stage["web"] = "idle" \/ saving["web"].then = "idle") =>
        chain \cup ToSet(addCert) \subseteq Certs(devices) \cup stale \cup BeingAdded

PairingInv ==
    /\ PairingTypeOK
    /\ LoadsOnWeb
    /\ ListsAreLists
    /\ ~overlap => InStep /\ Tidy
    /\ AddsKnown
    /\ ListedKnown

-----------------------------------------------------------------------------
(* Types of the clients' variables                                         *)

(* A certificate that is queued, in whatever way.                          *)
LEMMA QueuedTyped ==
    ASSUME NEW queue \in Seq(Clients), Len(queue) <= MaxQueued, NEW c \in Clients
    PROVE  /\ Queued(queue, c) \in Seq(Clients)
           /\ Len(Queued(queue, c)) <= MaxQueued
           /\ c \in ToSet(Queued(queue, c))
           /\ ToSet(Queued(queue, c)) \subseteq ToSet(queue) \cup {c}
<1>1. MaxQueued \in Nat /\ MaxQueued >= 1 /\ Len(queue) \in Nat
  BY ClientsAssumption
<1>2. CASE Len(queue) = MaxQueued
  <2>1. Queued(queue, c) = <<c>>
    BY <1>2 DEF Queued
  <2> QED
    BY <1>1, <2>1 DEF ToSet
<1>3. CASE Len(queue) # MaxQueued
  <2>1. Queued(queue, c) = Append(queue, c)
    BY <1>3 DEF Queued
  <2>2. /\ Append(queue, c) \in Seq(Clients)
        /\ Len(Append(queue, c)) = Len(queue) + 1
        /\ DOMAIN Append(queue, c) = 1 .. (Len(queue) + 1)
        /\ Append(queue, c)[Len(queue) + 1] = c
        /\ \A i \in 1 .. Len(queue) : Append(queue, c)[i] = queue[i]
    BY ListExtended
  <2>3. c \in ToSet(Append(queue, c))
    BY <1>1, <2>2 DEF ToSet
  <2>4. ToSet(Append(queue, c)) \subseteq ToSet(queue) \cup {c}
    BY <1>1, <2>2 DEF ToSet
  <2> QED
    BY <1>1, <1>3, <2>1, <2>2, <2>3, <2>4
<1> QED
  BY <1>2, <1>3

(* The certificates on a list that is changed.                             *)
LEMMA CertsAppended ==
    ASSUME NEW list \in Seq(NamedCert), NEW e \in NamedCert
    PROVE  Certs(Append(list, e)) = Certs(list) \cup {e.cert}
<1>1. Len(list) \in Nat /\ DOMAIN list = 1 .. Len(list)
  OBVIOUS
<1>2. /\ DOMAIN Append(list, e) = 1 .. (Len(list) + 1)
      /\ Append(list, e)[Len(list) + 1] = e
      /\ \A i \in 1 .. Len(list) : Append(list, e)[i] = list[i]
  BY ListExtended
<1>3. \A i \in DOMAIN Append(list, e) :
         Append(list, e)[i].cert \in Certs(list) \cup {e.cert}
  BY <1>1, <1>2 DEF Certs
<1>4. \A i \in DOMAIN list : list[i].cert \in Certs(Append(list, e))
  BY <1>1, <1>2 DEF Certs
<1>5. e.cert \in Certs(Append(list, e))
  BY <1>1, <1>2 DEF Certs
<1> QED
  BY <1>3, <1>4, <1>5 DEF Certs

LEMMA CertsTyped ==
    ASSUME NEW list \in Seq(NamedCert)
    PROVE  Certs(list) \subseteq Clients
<1>1. \A i \in DOMAIN list : list[i] \in NamedCert
  OBVIOUS
<1>2. \A i \in DOMAIN list : list[i].cert \in Clients
  BY <1>1 DEF NamedCert
<1> QED
  BY <1>2 DEF Certs

LEMMA CertsRemoved ==
    ASSUME NEW list \in Seq(NamedCert), NEW i \in 1 .. Len(list)
    PROVE  Certs(RemoveAt(list, i)) \subseteq Certs(list)
<1>1. DOMAIN RemoveAt(list, i) = 1 .. Len(RemoveAt(list, i))
  BY Removed
<1>2. DOMAIN list = 1 .. Len(list)
  OBVIOUS
<1>3. \A j \in 1 .. Len(RemoveAt(list, i)) :
         \E k \in 1 .. Len(list) : RemoveAt(list, i)[j] = list[k]
  BY Removed
<1>4. \A j \in DOMAIN RemoveAt(list, i) :
         \E k \in DOMAIN list : RemoveAt(list, i)[j].cert = list[k].cert
  BY <1>1, <1>2, <1>3
<1>5. ASSUME NEW c \in Certs(RemoveAt(list, i)) PROVE c \in Certs(list)
  <2>1. PICK j \in DOMAIN RemoveAt(list, i) : c = RemoveAt(list, i)[j].cert
    BY Zenon DEF Certs
  <2>2. PICK k \in DOMAIN list : c = list[k].cert
    BY <1>4, <2>1
  <2> QED
    BY <2>2 DEF Certs
<1> QED
  BY <1>5

LEMMA CertsSwitched ==
    ASSUME NEW list \in Seq(NamedCert), NEW i \in DOMAIN list, NEW b \in BOOLEAN
    PROVE  /\ [list EXCEPT ![i].enabled = b] \in Seq(NamedCert)
           /\ Certs([list EXCEPT ![i].enabled = b]) = Certs(list)
<1> DEFINE new == [list EXCEPT ![i].enabled = b]
<1>1. Len(list) \in Nat /\ DOMAIN list = 1 .. Len(list)
  OBVIOUS
<1>2. \A j \in 1 .. Len(list) : list[j] \in NamedCert
  OBVIOUS
<1>3. new = [j \in 1 .. Len(list) |->
                IF j = i THEN [list[i] EXCEPT !.enabled = b] ELSE list[j]]
  BY <1>1
<1>4. \A j \in 1 .. Len(list) : new[j] \in NamedCert /\ new[j].cert = list[j].cert
  BY <1>1, <1>2 DEF NamedCert
<1> HIDE DEF new
<1>5. new \in Seq(NamedCert)
  <2>1. new \in [1 .. Len(list) -> NamedCert]
    BY <1>3, <1>4
  <2> QED
    BY <1>1, <2>1
<1>6. DOMAIN new = DOMAIN list
  BY <1>1, <1>3
<1>7. Certs(new) = Certs(list)
  BY <1>1, <1>4, <1>6 DEF Certs
<1> QED
  BY <1>5, <1>7 DEF new

LEMMA PairingInitInv == PairingInit => PairingInv
<1> SUFFICES ASSUME PairingInit PROVE PairingInv
  OBVIOUS
<1>1. PairingTypeOK
  <2>1. Len(addCert) <= MaxQueued
    BY ClientsAssumption DEF PairingInit
  <2>2. asks \in 0 .. MaxAsks /\ edits \in 0 .. MaxEdits /\ faults \in 0 .. MaxFaults
    BY ClientsAssumption DEF PairingInit
  <2>3. file \in [state : {"none", "torn", "ok"}, devices : Seq(NamedCert)]
    BY DEF PairingInit
  <2>4. saving \in [Editors -> Tree]
    BY DEF PairingInit, NoSave, Blank, Tree
  <2>5. pairing \in [Ids -> Session \cup {Nobody}]
    BY DEF PairingInit
  <2>6. stage \in [Editors -> Stages]
    BY DEF PairingInit, Stages
  <2>7. /\ devices \in Seq(NamedCert) /\ acked \in Seq(NamedCert)
        /\ addCert \in Seq(Clients)
    BY DEF PairingInit
  <2> QED
    BY <2>1, <2>2, <2>3, <2>4, <2>5, <2>6, <2>7 DEF PairingInit, PairingTypeOK
<1>2. LoadsOnWeb /\ ListsAreLists /\ OneAtATime /\ WritesTheList /\ FileFollows
  BY DEF PairingInit, LoadsOnWeb, ListsAreLists, OneAtATime, WritesTheList,
         FileFollows, Editors, NoSave, Blank
<1>3. Certs(devices) = {} /\ ToSet(addCert) = {} /\ chain = {}
  BY DEF PairingInit, Certs, ToSet
<1>4. AddsKnown
  BY DEF PairingInit, AddsKnown, Editors
<1> QED
  BY <1>1, <1>2, <1>3, <1>4
     DEF PairingInv, PairingInit, InStep, Tidy, ListedKnown

(* A thread goes on to save what it has changed.                           *)
LEMMA SaveTyped ==
    ASSUME PairingTypeOK, NEW t \in Editors,
           NEW then \in {"idle", "load", "remove"}, Save(t, then)
    PROVE  /\ stage' \in [Editors -> Stages]
           /\ saving' \in [Editors -> Tree]
           /\ overlap' \in BOOLEAN
           /\ acked' \in Seq(NamedCert)
<1>1. Blank(then) \in Tree
  BY DEF Blank, Tree
<1> QED
  BY <1>1 DEF Save, PairingTypeOK, Stages

LEMMA LoadTyped ==
    ASSUME PairingTypeOK, LoadList
    PROVE  /\ devices' \in Seq(NamedCert) /\ chain' \in SUBSET Clients
           /\ behind' \in BOOLEAN /\ lost' \in SUBSET Clients
<1>1. file.devices \in Seq(NamedCert)
  BY DEF PairingTypeOK
<1>2. Certs(file.devices) \subseteq Clients
  BY <1>1, CertsTyped
<1>3. devices' = file.devices /\ chain' = Certs(file.devices)
  BY DEF LoadList
<1>4. behind' = FALSE /\ lost' = {}
  BY DEF LoadList
<1> QED
  BY <1>1, <1>2, <1>3, <1>4

(* Pairing attempts stay what they are meant to be.                        *)
LEMMA PairingTyped ==
    ASSUME PairingTypeOK, NEW c \in Clients, NEW id \in Ids,
           \/ Ask(c, id) \/ Pin(c, id) \/ ServerChallengeResp(c, id)
           \/ ClientPairingSecret(c, id) \/ ClientChallenge(id) \/ PinRemoves(id)
    PROVE  pairing' \in [Ids -> Session \cup {Nobody}]
<1>1. pairing \in [Ids -> Session \cup {Nobody}]
  BY DEF PairingTypeOK
<1>2. CASE Ask(c, id)
  <2>1. \A i \in Ids : Void(pairing[i], c) \in Session \cup {Nobody}
    BY <1>1 DEF Void, Session
  <2>2. NewSession(c) \in Session
    BY DEF NewSession, Session, Phases
  <2>3. Paired(id) =>
            [Void(pairing[id], c) EXCEPT !.salt = c, !.waits = TRUE] \in Session
    BY <1>1 DEF Void, Session, Paired
  <2> QED
    BY <1>2, <2>1, <2>2, <2>3 DEF Ask
<1>3. CASE Pin(c, id)
  <2>1. pairing[id] \in Session
    BY <1>1, <1>3 DEF Pin, Paired
  <2> QED
    BY <1>1, <1>3, <2>1 DEF Pin, Session, Phases
<1>4. CASE ServerChallengeResp(c, id) \/ ClientChallenge(id)
  <2>1. pairing[id] \in Session
    BY <1>1, <1>4 DEF ServerChallengeResp, ClientChallenge, Phase, Paired
  <2>2. [pairing[id] EXCEPT !.phase = "CLIENTCHALLENGE"] \in Session
    BY <2>1 DEF Session, Phases
  <2>3. [pairing[id] EXCEPT !.phase = "SERVERCHALLENGERESP",
             !.hash = IF pairing[id].key = c THEN c ELSE Nobody] \in Session
    BY <2>1 DEF Session, Phases
  <2> QED
    BY <1>1, <1>4, <2>2, <2>3 DEF ServerChallengeResp, ClientChallenge, Phase
<1>5. CASE ClientPairingSecret(c, id)
  <2>1. pairing[id] \in Session
    BY <1>1, <1>5 DEF ClientPairingSecret, Paired
  <2>2. [pairing[id] EXCEPT !.phase = "CLIENTPAIRINGSECRET"] \in Session
    BY <2>1 DEF Session, Phases
  <2> QED
    BY <1>1, <1>5, <2>2 DEF ClientPairingSecret
<1>6. CASE PinRemoves(id)
  BY <1>1, <1>6 DEF PinRemoves
<1> QED
  BY <1>2, <1>3, <1>4, <1>5, <1>6

\* A verified client's certificate is queued.
Queues(c, id) ==
    /\ ClientPairingSecret(c, id)
    /\ addCert' = Queued(addCert, c)
    /\ lost' = lost \cup (ToSet(addCert) \ ToSet(addCert'))
    /\ adding' = [cert |-> c, id |-> id]
    /\ stage' = [stage EXCEPT !["http"] = "add"]
    /\ overlap' = (overlap \/ Busy("http"))

LEMMA PairingTypeStep ==
    PairingTypeOK /\ LoadsOnWeb /\ [PairingNext]_pairingVars => PairingTypeOK'
<1> SUFFICES ASSUME PairingTypeOK, LoadsOnWeb, [PairingNext]_pairingVars
             PROVE  PairingTypeOK'
  OBVIOUS
<1> USE DEF listVars, saveVars, givenUpVars, boundVars
<1>1. ASSUME NEW c \in Clients, NEW id \in Ids,
             \/ Ask(c, id) \/ Pin(c, id) \/ ServerChallengeResp(c, id)
             \/ ClientChallenge(id) \/ PinRemoves(id)
      PROVE  PairingTypeOK'
  <2>1. pairing' \in [Ids -> Session \cup {Nobody}]
    BY <1>1, PairingTyped
  <2>2. UNCHANGED <<listVars, saveVars, givenUpVars, edits, faults>>
    BY <1>1 DEF Ask, Pin, PinRemoves, ServerChallengeResp, ClientChallenge, Phase
  <2>3. asks' \in 0 .. MaxAsks
    <3>1. CASE Ask(c, id)
      <4>1. asks' = asks + 1 /\ asks < MaxAsks
        BY <3>1 DEF Ask
      <4>2. asks \in 0 .. MaxAsks /\ MaxAsks \in Nat
        BY ClientsAssumption DEF PairingTypeOK
      <4> QED
        BY <4>1, <4>2
    <3>2. CASE ~Ask(c, id)
      BY <1>1, <3>2 DEF Pin, PinRemoves, ServerChallengeResp, ClientChallenge,
                        Phase, PairingTypeOK
    <3> QED
      BY <3>1, <3>2
  <2> QED
    BY <2>1, <2>2, <2>3 DEF PairingTypeOK
<1>2. ASSUME NEW c \in Clients, NEW id \in Ids, ClientPairingSecret(c, id)
      PROVE  PairingTypeOK'
  <2>1. pairing' \in [Ids -> Session \cup {Nobody}]
    BY <1>2, PairingTyped
  <2>2. UNCHANGED <<devices, file, chain, saving, acked, behind, stale, asks,
                    edits, faults>>
    BY <1>2 DEF ClientPairingSecret
  <2>3. CASE UNCHANGED <<addCert, lost, adding, stage, overlap>>
    BY <2>1, <2>2, <2>3 DEF PairingTypeOK
  <2>4. CASE Queues(c, id)
    <3>1. addCert' \in Seq(Clients) /\ Len(addCert') <= MaxQueued
      BY <2>4, QueuedTyped DEF Queues, PairingTypeOK
    <3>2. lost' \in SUBSET Clients
      BY <2>4 DEF Queues, PairingTypeOK, ToSet
    <3>3. /\ stage' \in [Editors -> Stages] /\ overlap' \in BOOLEAN
          /\ adding' \in [cert : Clients, id : Ids]
      BY <2>4 DEF Queues, PairingTypeOK, Stages
    <3> QED
      BY <2>1, <2>2, <3>1, <3>2, <3>3 DEF PairingTypeOK
  <2> QED
    BY <1>2, <2>3, <2>4 DEF ClientPairingSecret, Queues
<1>21. CASE AddAuthorizedClient
  <2>1. UNCHANGED <<pairing, file, chain, addCert, behind, lost, asks, edits,
                    faults, adding>>
    BY <1>21 DEF AddAuthorizedClient, Save
  <2>2. devices' \in Seq(NamedCert)
    <3>1. [cert |-> adding.cert, enabled |-> TRUE] \in NamedCert
      BY <1>21 DEF AddAuthorizedClient, LoadsOnWeb, NamedCert
    <3> QED
      BY <1>21, <3>1, ListExtended DEF AddAuthorizedClient, PairingTypeOK
  <2>3. stale' \in SUBSET Clients
    BY <1>21 DEF AddAuthorizedClient, PairingTypeOK
  <2>4. /\ stage' \in [Editors -> Stages]
        /\ saving' \in [Editors -> Tree]
        /\ overlap' \in BOOLEAN
        /\ acked' \in Seq(NamedCert)
    BY <1>21, SaveTyped DEF AddAuthorizedClient, Editors
  <2> QED
    BY <2>1, <2>2, <2>3, <2>4 DEF PairingTypeOK
<1>22. CASE RemoveSession
  BY <1>22 DEF RemoveSession, PairingTypeOK, Stages
<1>23. CASE SavePassword
  <2>1. UNCHANGED <<pairing, file, devices, chain, addCert, adding, acked, behind,
                    lost, stale, asks, faults>>
    BY <1>23 DEF SavePassword, Edit
  <2>2. edits' \in 0 .. MaxEdits
    BY <1>23, ClientsAssumption DEF SavePassword, Edit, PairingTypeOK
  <2>3. stage' \in [Editors -> Stages] /\ overlap' \in BOOLEAN
    BY <1>23 DEF SavePassword, PairingTypeOK, Stages
  <2>4. saving' \in [Editors -> Tree]
    <3>1. [devices |-> file.devices, state |-> file.state, list |-> FALSE,
           then |-> "idle"] \in Tree
      BY <1>23 DEF SavePassword, PairingTypeOK, Tree
    <3> QED
      BY <1>23, <3>1 DEF SavePassword, PairingTypeOK
  <2> QED
    BY <2>1, <2>2, <2>3, <2>4 DEF PairingTypeOK
<1>3. ASSUME NEW t \in Editors, ReadFile(t) \/ OpenFile(t) \/ WriteFile(t)
      PROVE  PairingTypeOK'
  <2>1. Onward(t) \in {"idle", "load", "remove"}
    BY DEF PairingTypeOK, Onward, Tree
  <2>2. UNCHANGED <<pairing, devices, chain, addCert, adding, overlap, lost,
                    stale, asks, edits>>
    BY <1>3 DEF ReadFile, OpenFile, WriteFile
  <2>3. stage' \in [Editors -> Stages]
    BY <1>3, <2>1 DEF ReadFile, OpenFile, WriteFile, PairingTypeOK, Stages
  <2>4. acked' \in Seq(NamedCert) /\ behind' \in BOOLEAN
    BY <1>3 DEF ReadFile, OpenFile, WriteFile, Finish, PairingTypeOK
  <2>5. saving' \in [Editors -> Tree]
    <3>1. \/ saving' = saving
          \/ saving' = [saving EXCEPT ![t].devices = devices]
          \/ saving' = [saving EXCEPT ![t] = Blank(Onward(t))]
      BY <1>3 DEF ReadFile, OpenFile, WriteFile, Finish
    <3>2. /\ saving \in [Editors -> Tree]
          /\ devices \in Seq(NamedCert)
      BY DEF PairingTypeOK
    <3>3. Blank(Onward(t)) \in Tree
      BY <2>1 DEF Blank, Tree
    <3>4. [saving[t] EXCEPT !.devices = devices] \in Tree
      BY <3>2 DEF Tree
    <3> QED
      BY <3>1, <3>2, <3>3, <3>4
  <2>6. file' \in [state : {"none", "torn", "ok"}, devices : Seq(NamedCert)]
    <3>1. \/ file' = file
          \/ file' = [state |-> "torn", devices |-> <<>>]
          \/ file' = [state |-> saving[t].state, devices |-> saving[t].devices]
      BY <1>3 DEF ReadFile, OpenFile, WriteFile
    <3>2. saving[t].devices \in Seq(NamedCert) /\ saving[t].state \in {"none", "ok"}
      BY DEF PairingTypeOK, Tree
    <3>3. file \in [state : {"none", "torn", "ok"}, devices : Seq(NamedCert)]
      BY DEF PairingTypeOK
    <3>4. /\ [state |-> "torn", devices |-> <<>>] \in
                 [state : {"none", "torn", "ok"}, devices : Seq(NamedCert)]
          /\ [state |-> saving[t].state, devices |-> saving[t].devices] \in
                 [state : {"none", "torn", "ok"}, devices : Seq(NamedCert)]
      BY <3>2
    <3> QED
      BY <3>1, <3>3, <3>4
  <2>7. faults' \in 0 .. MaxFaults
    <3>1. CASE ReadFile(t)
      BY <3>1 DEF ReadFile, PairingTypeOK
    <3>2. CASE OpenFile(t) \/ WriteFile(t)
      <4>1. faults' = faults \/ (faults < MaxFaults /\ faults' = faults + 1)
        BY <3>2 DEF OpenFile, WriteFile
      <4>2. faults \in 0 .. MaxFaults /\ MaxFaults \in Nat
        BY ClientsAssumption DEF PairingTypeOK
      <4> QED
        BY <4>1, <4>2
    <3> QED
      BY <1>3, <3>1, <3>2
  <2> QED
    BY <2>2, <2>3, <2>4, <2>5, <2>6, <2>7 DEF PairingTypeOK
<1>4. CASE Load
  <2>1. UNCHANGED <<pairing, file, addCert, adding, saving, overlap, asks, edits,
                    faults>>
    BY <1>4 DEF Load
  <2>2. /\ devices' \in Seq(NamedCert) /\ chain' \in SUBSET Clients
        /\ behind' \in BOOLEAN /\ lost' \in SUBSET Clients
    <3>1. CASE LoadList
      BY <3>1, LoadTyped
    <3>2. CASE UNCHANGED <<devices, chain, behind, lost>>
      BY <3>2 DEF PairingTypeOK
    <3> QED
      BY <1>4, <3>1, <3>2 DEF Load
  <2>3. stage' \in [Editors -> Stages]
    BY <1>4 DEF Load, PairingTypeOK, Stages
  <2>4. acked' \in Seq(NamedCert)
    BY <1>4, <2>2 DEF Load
  <2>5. stale' \in SUBSET Clients
    BY <1>4, <2>2 DEF Load, PairingTypeOK, ToSet
  <2> QED
    BY <2>1, <2>2, <2>3, <2>4, <2>5 DEF PairingTypeOK
<1>5. ASSUME Unpair \/ UnpairAll \/ SetEnabled
      PROVE  PairingTypeOK'
  <2>1. UNCHANGED <<pairing, file, addCert, adding, behind, lost, asks, faults>>
    BY <1>5 DEF Unpair, UnpairAll, SetEnabled, Edit, Save
  <2>2. edits' \in 0 .. MaxEdits
    BY <1>5, ClientsAssumption DEF Unpair, UnpairAll, SetEnabled, Edit, PairingTypeOK
  <2>3. \E then \in {"idle", "load"} : Save("web", then)
    BY <1>5 DEF Unpair, UnpairAll, SetEnabled
  <2>4. /\ stage' \in [Editors -> Stages]
        /\ saving' \in [Editors -> Tree]
        /\ overlap' \in BOOLEAN
        /\ acked' \in Seq(NamedCert)
    BY <2>3, SaveTyped DEF Editors
  <2>5. devices' \in Seq(NamedCert)
    <3>1. CASE Unpair
      <4>1. PICK i \in 0 .. Len(devices) :
               devices' = IF i = 0 THEN devices ELSE RemoveAt(devices, i)
        BY <3>1 DEF Unpair
      <4>2. devices \in Seq(NamedCert) /\ Len(devices) \in Nat
        BY DEF PairingTypeOK
      <4>3. i # 0 => i \in 1 .. Len(devices)
        BY <4>2
      <4> QED
        BY <4>1, <4>2, <4>3, Removed
    <3>2. CASE UnpairAll
      BY <3>2 DEF UnpairAll
    <3>3. CASE SetEnabled
      <4>1. PICK i \in DOMAIN devices, enabled \in BOOLEAN :
               devices' = [devices EXCEPT ![i].enabled = enabled]
        BY <3>3 DEF SetEnabled
      <4>2. devices \in Seq(NamedCert)
        BY DEF PairingTypeOK
      <4> QED
        BY <4>1, <4>2, CertsSwitched
    <3> QED
      BY <1>5, <3>1, <3>2, <3>3
  <2>6. chain' \in SUBSET Clients /\ stale' \in SUBSET Clients
    BY <1>5 DEF Unpair, UnpairAll, SetEnabled, PairingTypeOK, ToSet
  <2> QED
    BY <2>1, <2>2, <2>4, <2>5, <2>6 DEF PairingTypeOK
<1>6. CASE Handshake
  <2>1. ToSet(addCert) \subseteq Clients
    BY DEF PairingTypeOK, ToSet
  <2>2. addCert' \in Seq(Clients) /\ Len(addCert') <= MaxQueued
    BY <1>6, ClientsAssumption DEF Handshake
  <2> QED
    BY <1>6, <2>1, <2>2 DEF Handshake, PairingTypeOK
<1>7. CASE StartAgain /\ faults' \in 0 .. MaxFaults
  <2>1. UNCHANGED <<file, asks, edits>>
    BY <1>7 DEF StartAgain
  <2>2. pairing' \in [Ids -> Session \cup {Nobody}]
    BY <1>7 DEF StartAgain
  <2>3. addCert' \in Seq(Clients) /\ Len(addCert') <= MaxQueued
    BY <1>7, ClientsAssumption DEF StartAgain
  <2>4. /\ stage' \in [Editors -> Stages]
        /\ saving' \in [Editors -> Tree]
        /\ adding' = Nobody
    BY <1>7 DEF StartAgain, NoSave, Blank, Stages, Tree
  <2>5. /\ devices' \in Seq(NamedCert) /\ chain' \in SUBSET Clients
        /\ behind' \in BOOLEAN /\ lost' \in SUBSET Clients
    <3>1. CASE LoadList
      BY <3>1, LoadTyped
    <3>2. CASE ~LoadList
      <4>1. /\ devices' = <<>> /\ chain' = {} /\ lost' = {}
            /\ behind' = (file.state = "torn")
        BY <1>7, <3>2 DEF StartAgain
      <4> QED
        BY <4>1
    <3> QED
      BY <3>1, <3>2
  <2>6. overlap' = FALSE /\ stale' = {} /\ acked' = devices'
    BY <1>7 DEF StartAgain
  <2> QED
    BY <1>7, <2>1, <2>2, <2>3, <2>4, <2>5, <2>6 DEF PairingTypeOK
<1>71. Restart \/ Crash => StartAgain /\ faults' \in 0 .. MaxFaults
  BY ClientsAssumption DEF Restart, Crash, PairingTypeOK
<1>8. CASE UNCHANGED pairingVars
  BY <1>8 DEF pairingVars, PairingTypeOK
<1>9. \/ \E c \in Clients, id \in Ids :
            Ask(c, id) \/ Pin(c, id) \/ ServerChallengeResp(c, id)
      \/ \E id \in Ids : ClientChallenge(id) \/ PinRemoves(id)
      \/ \E c \in Clients, id \in Ids : ClientPairingSecret(c, id)
      \/ \E t \in Editors : ReadFile(t) \/ OpenFile(t) \/ WriteFile(t)
      \/ Load \/ Unpair \/ UnpairAll \/ SetEnabled
      \/ AddAuthorizedClient \/ RemoveSession \/ SavePassword
      \/ Handshake \/ Restart \/ Crash \/ UNCHANGED pairingVars
  BY DEF PairingNext
<1>10. ASSUME NEW id \in Ids, ClientChallenge(id) \/ PinRemoves(id)
       PROVE  PairingTypeOK'
  <2>1. pairing[id].cert \in Clients
    BY <1>10 DEF ClientChallenge, Phase, PinRemoves, OutOfPhase, Paired,
                 PairingTypeOK, Session
  <2> QED
    BY <1>1, <1>10, <2>1
<1> QED
  BY <1>1, <1>2, <1>21, <1>22, <1>23, <1>3, <1>4, <1>5, <1>6, <1>7, <1>71, <1>8,
     <1>9, <1>10

-----------------------------------------------------------------------------
(* The steps, by what they do to the list                                  *)

\* Steps of pairing and others that leave the list and its copies alone.
Elsewhere == UNCHANGED <<listVars, saveVars, givenUpVars>>

\* The three kinds of edits and the end of pairing.
Edits == Unpair \/ UnpairAll \/ SetEnabled \/ AddAuthorizedClient

Queueing == \E c \in Clients, id \in Ids : Queues(c, id)

Saves == \E t \in Editors : ReadFile(t) \/ OpenFile(t) \/ WriteFile(t)

LEMMA StepKinds ==
    [PairingNext]_pairingVars =>
        \/ Elsewhere \/ Edits \/ Queueing \/ RemoveSession \/ SavePassword
        \/ Saves \/ Load \/ Handshake \/ StartAgain
<1> SUFFICES ASSUME [PairingNext]_pairingVars
             PROVE  \/ Elsewhere \/ Edits \/ Queueing \/ RemoveSession
                    \/ SavePassword \/ Saves \/ Load \/ Handshake
                    \/ StartAgain
  OBVIOUS
<1> USE DEF listVars, saveVars, givenUpVars
<1>1. ASSUME NEW c, NEW id, Ask(c, id) \/ Pin(c, id) \/ ServerChallengeResp(c, id)
                            \/ ClientChallenge(id) \/ PinRemoves(id)
      PROVE  Elsewhere
  BY <1>1 DEF Ask, Pin, PinRemoves, ServerChallengeResp, ClientChallenge, Phase,
              Elsewhere
<1>2. ASSUME NEW c \in Clients, NEW id \in Ids, ClientPairingSecret(c, id)
      PROVE  Elsewhere \/ Queueing
  BY <1>2 DEF ClientPairingSecret, Elsewhere, Queueing, Queues
<1>3. UNCHANGED pairingVars => Elsewhere
  BY DEF pairingVars, Elsewhere
<1>4. Unpair \/ UnpairAll \/ SetEnabled \/ AddAuthorizedClient => Edits
  BY DEF Edits
<1>41. Restart \/ Crash => StartAgain
  BY DEF Restart, Crash
<1>5. (\E t \in Editors : ReadFile(t) \/ OpenFile(t) \/ WriteFile(t)) => Saves
  BY DEF Saves
<1>6. \/ \E c \in Clients, id \in Ids :
            Ask(c, id) \/ Pin(c, id) \/ ServerChallengeResp(c, id)
      \/ \E id \in Ids : ClientChallenge(id) \/ PinRemoves(id)
      \/ \E c \in Clients, id \in Ids : ClientPairingSecret(c, id)
      \/ \E t \in Editors : ReadFile(t) \/ OpenFile(t) \/ WriteFile(t)
      \/ Load \/ Unpair \/ UnpairAll \/ SetEnabled
      \/ AddAuthorizedClient \/ RemoveSession \/ SavePassword
      \/ Handshake \/ Restart \/ Crash \/ UNCHANGED pairingVars
  BY DEF PairingNext
<1> QED
  BY <1>1, <1>2, <1>3, <1>4, <1>41, <1>5, <1>6

\* An edit is saved by the thread it is made on; the web thread loads.
LEMMA EditsSave ==
    ASSUME PairingTypeOK, Edits
    PROVE  /\ UNCHANGED <<file, behind>>
           /\ \E t \in Editors, then \in {"idle", "load", "remove"} :
                 /\ Save(t, then)
                 /\ \/ stage[t] = "idle" /\ t = "web" /\ then # "remove"
                    \/ stage[t] = "add" /\ t = "http" /\ then = "remove"
<1>1. CASE Unpair \/ UnpairAll \/ SetEnabled
  <2>1. UNCHANGED <<file, behind>> /\ stage["web"] = "idle"
    BY <1>1 DEF Unpair, UnpairAll, SetEnabled, Edit
  <2>2. \E then \in {"idle", "load"} : Save("web", then)
    BY <1>1 DEF Unpair, UnpairAll, SetEnabled
  <2> QED
    BY <2>1, <2>2 DEF Editors
<1>2. CASE AddAuthorizedClient
  BY <1>2 DEF AddAuthorizedClient, Editors
<1> QED
  BY <1>1, <1>2 DEF Edits

\* A request of the web thread ends with the load, the other's with the save.
LEMMA LoadsStep ==
    ASSUME PairingTypeOK, LoadsOnWeb, [PairingNext]_pairingVars
    PROVE  LoadsOnWeb'
<1> USE DEF LoadsOnWeb, PairingTypeOK, Editors
<1>1. CASE Elsewhere
  BY <1>1 DEF Elsewhere, saveVars
<1>2. CASE Edits
  <2>1. PICK t \in Editors, then \in {"idle", "load", "remove"} :
           /\ Save(t, then)
           /\ \/ stage[t] = "idle" /\ t = "web" /\ then # "remove"
              \/ stage[t] = "add" /\ t = "http" /\ then = "remove"
    BY <1>2, EditsSave
  <2> QED
    BY <2>1 DEF Save, Blank
<1>21. CASE Queueing
  BY <1>21 DEF Queueing, Queues, ClientPairingSecret
<1>22. CASE RemoveSession
  BY <1>22 DEF RemoveSession
<1>23. CASE SavePassword
  BY <1>23 DEF SavePassword
<1>3. CASE Saves
  <2>1. PICK t \in Editors : ReadFile(t) \/ OpenFile(t) \/ WriteFile(t)
    BY <1>3 DEF Saves
  <2>2. /\ saving'["http"].then = saving["http"].then
        /\ saving'["web"].then = saving["web"].then
    <3>1. \/ saving' = saving \/ saving' = [saving EXCEPT ![t].devices = devices]
          \/ saving' = [saving EXCEPT ![t] = Blank(Onward(t))]
      BY <2>1 DEF ReadFile, OpenFile, WriteFile, Finish
    <3>2. Blank(Onward(t)).then = saving[t].then
      BY DEF Blank, Onward
    <3>3. [saving[t] EXCEPT !.devices = devices].then = saving[t].then
      BY DEF Tree
    <3> QED
      BY <3>1, <3>2, <3>3
  <2>3. /\ \E l \in {"write", "writing", Onward(t)} :
              stage' = [stage EXCEPT ![t] = l]
        /\ stage[t] # "idle" /\ adding' = adding
    BY <2>1 DEF ReadFile, OpenFile, WriteFile
  <2> QED
    BY <2>2, <2>3 DEF Onward
<1>4. CASE Load
  BY <1>4 DEF Load
<1>5. CASE Handshake
  BY <1>5 DEF Handshake, saveVars
<1>6. CASE StartAgain
  <2>1. /\ stage' = [t \in Editors |-> "idle"]
        /\ saving' = [t \in Editors |-> NoSave]
    BY <1>6 DEF StartAgain
  <2>2. stage'["http"] = "idle" /\ stage'["web"] = "idle"
    BY <2>1
  <2>3. saving'["http"].then = "idle" /\ saving'["web"].then = "idle"
    BY <2>1 DEF NoSave, Blank
  <2> QED
    BY <2>2, <2>3
<1> QED
  BY <1>1, <1>2, <1>21, <1>22, <1>23, <1>3, <1>4, <1>5, <1>6, StepKinds

\* The file is without a list only as long as nothing was saved.
LEMMA ListsStep ==
    ASSUME PairingTypeOK, ListsAreLists, [PairingNext]_pairingVars
    PROVE  ListsAreLists'
<1> USE DEF ListsAreLists, PairingTypeOK
<1>1. CASE Elsewhere \/ Queueing \/ RemoveSession \/ Load \/ Handshake
  <2>1. UNCHANGED <<file, saving>>
    BY <1>1 DEF Elsewhere, Queueing, Queues, ClientPairingSecret, RemoveSession,
                Load, Handshake, listVars, saveVars
  <2>2. \A t \in Editors : stage'[t] = "save" => stage[t] = "save"
    BY <1>1 DEF Elsewhere, Queueing, Queues, RemoveSession, Load, Handshake, saveVars
  <2> QED
    BY <2>1, <2>2
<1>2. CASE Edits
  <2>1. PICK t \in Editors, then \in {"idle", "load", "remove"} : Save(t, then)
    BY <1>2, EditsSave
  <2>2. file' = file
    BY <1>2, EditsSave
  <2> QED
    BY <2>1, <2>2 DEF Save, Blank
<1>3. CASE SavePassword
  BY <1>3 DEF SavePassword, Edit
<1>4. CASE Saves
  <2>1. PICK t \in Editors : ReadFile(t) \/ OpenFile(t) \/ WriteFile(t)
    BY <1>4 DEF Saves
  <2>2. \/ file' = file
        \/ file' = [state |-> "torn", devices |-> <<>>]
        \/ file' = [state |-> saving[t].state, devices |-> saving[t].devices]
    BY <2>1 DEF ReadFile, OpenFile, WriteFile, listVars
  <2>3. \/ saving' = saving
        \/ stage[t] = "save" /\ saving' = [saving EXCEPT ![t].devices = devices]
        \/ saving' = [saving EXCEPT ![t] = Blank(Onward(t))]
    BY <2>1 DEF ReadFile, OpenFile, WriteFile, Finish
  <2>4. \E l \in {"write", "writing", Onward(t)} : stage' = [stage EXCEPT ![t] = l]
    BY <2>1 DEF ReadFile, OpenFile, WriteFile
  <2>5. \A u \in Editors : stage'[u] = "save" => u # t /\ stage[u] = "save"
    BY <2>4 DEF Onward, Tree
  <2>6. /\ Blank(Onward(t)).state = "ok"
        /\ stage[t] = "save" => [saving[t] EXCEPT !.devices = devices].state = "ok"
    BY DEF Blank, Tree
  <2>7. \A u \in Editors :
           /\ u # t => saving'[u] = saving[u]
           /\ saving'[u].state = "none" => saving'[u].devices = <<>>
    <3>1. \A u \in Editors : u # t => saving'[u] = saving[u]
      BY <2>3
    <3>2. \/ saving'[t] = saving[t]
          \/ stage[t] = "save" /\ saving'[t] = [saving[t] EXCEPT !.devices = devices]
          \/ saving'[t] = Blank(Onward(t))
      BY <2>3
    <3>3. saving'[t].state = "none" => saving'[t].devices = <<>>
      BY <2>6, <3>2
    <3> QED
      BY <3>1, <3>3
  <2> QED
    BY <2>2, <2>5, <2>7
<1>5. CASE StartAgain
  BY <1>5 DEF StartAgain, NoSave, Blank
<1> QED
  BY <1>1, <1>2, <1>3, <1>4, <1>5, StepKinds

-----------------------------------------------------------------------------
(* The certificates                                                        *)

(* What an edit does to what is known of the list.                         *)
LEMMA EditsKnown ==
    ASSUME PairingTypeOK, LoadsOnWeb, AddsKnown, Edits
    PROVE  /\ Certs(devices) \subseteq chain \cup ToSet(addCert) \cup lost =>
                  \/ Certs(devices') \subseteq chain' \cup ToSet(addCert') \cup lost'
                  \/ overlap'
           /\ chain \cup ToSet(addCert)
                  \subseteq Certs(devices) \cup stale \cup BeingAdded =>
                  \/ ~AddAuthorizedClient /\ stage["http"] = "add"
                  \/ chain' \cup ToSet(addCert') \subseteq Certs(devices') \cup stale'
                  \/ Save("web", "load")
<1> USE DEF BeingAdded
<1>1. CASE Unpair
  <2>1. PICK i \in 0 .. Len(devices) :
           devices' = IF i = 0 THEN devices ELSE RemoveAt(devices, i)
    BY <1>1 DEF Unpair
  <2>2. devices \in Seq(NamedCert) /\ Len(devices) \in Nat
    BY DEF PairingTypeOK
  <2>3. i # 0 => i \in 1 .. Len(devices)
    BY <2>2
  <2>4. Certs(devices') \subseteq Certs(devices)
    BY <2>1, <2>2, <2>3, CertsRemoved
  <2>5. UNCHANGED <<chain, addCert, lost>> /\ Save("web", "load")
    BY <1>1 DEF Unpair, Edit
  <2> QED
    BY <2>4, <2>5
<1>2. CASE UnpairAll
  <2>1. Certs(devices') = {}
    BY <1>2 DEF UnpairAll, Certs
  <2>2. chain' = {} /\ addCert' = addCert /\ stale' = stale \cup ToSet(addCert)
    BY <1>2 DEF UnpairAll, Edit
  <2> QED
    BY <2>1, <2>2
<1>3. CASE SetEnabled
  <2>1. PICK i \in DOMAIN devices, enabled \in BOOLEAN :
           devices' = [devices EXCEPT ![i].enabled = enabled]
    BY <1>3 DEF SetEnabled
  <2>2. devices \in Seq(NamedCert)
    BY DEF PairingTypeOK
  <2>3. Certs(devices') = Certs(devices)
    BY <2>1, <2>2, CertsSwitched
  <2>4. UNCHANGED <<chain, addCert, lost, stale>>
    BY <1>3 DEF SetEnabled, Edit
  <2>5. ~AddAuthorizedClient
    BY <1>3 DEF SetEnabled, Edit, AddAuthorizedClient, boundVars, PairingTypeOK
  <2> QED
    BY <2>3, <2>4, <2>5
<1>4. CASE AddAuthorizedClient
  <2>1. /\ stage["http"] = "add"
        /\ UNCHANGED <<chain, addCert, lost>>
        /\ devices' = Append(devices, [cert |-> adding.cert, enabled |-> TRUE])
        /\ stale' = stale \ {adding.cert}
    BY <1>4 DEF AddAuthorizedClient
  <2>2. adding.cert \in chain \cup ToSet(addCert) \cup lost \/ overlap
    BY <2>1 DEF AddsKnown
  <2>3. Certs(devices') = Certs(devices) \cup {adding.cert}
    <3>1. [cert |-> adding.cert, enabled |-> TRUE] \in NamedCert
      BY <2>1 DEF NamedCert, LoadsOnWeb
    <3> QED
      BY <2>1, <3>1, CertsAppended DEF PairingTypeOK
  <2>4. overlap => overlap'
    BY <1>4 DEF AddAuthorizedClient, Save
  <2> QED
    BY <2>1, <2>2, <2>3, <2>4
<1> QED
  BY <1>1, <1>2, <1>3, <1>4 DEF Edits

\* Queueing a certificate loses none of those that are known, unless noted.
LEMMA QueueingKnown ==
    ASSUME PairingTypeOK, NEW c \in Clients, NEW id \in Ids, Queues(c, id)
    PROVE  /\ UNCHANGED <<devices, chain, saving, stale>>
           /\ c \in ToSet(addCert') /\ adding'.cert = c
           /\ stage["http"] = "idle"
           /\ stage' = [stage EXCEPT !["http"] = "add"]
           /\ ToSet(addCert') \subseteq ToSet(addCert) \cup {c}
           /\ ToSet(addCert) \cup lost \subseteq ToSet(addCert') \cup lost'
           /\ ~overlap' => ~overlap
<1>1. /\ c \in ToSet(addCert')
      /\ ToSet(addCert') \subseteq ToSet(addCert) \cup {c}
  BY QueuedTyped DEF Queues, PairingTypeOK
<1> QED
  BY <1>1 DEF Queues, ClientPairingSecret

\* A certificate that was queued stays known while its client is added, as
\* long as no other thread edits the list.
LEMMA AddsStep ==
    ASSUME PairingTypeOK, LoadsOnWeb, AddsKnown, ~overlap => OneAtATime,
           [PairingNext]_pairingVars
    PROVE  AddsKnown'
<1> SUFFICES ASSUME ~overlap', stage'["http"] = "add"
             PROVE  (adding.cert \in chain \cup ToSet(addCert) \cup lost)'
  BY DEF AddsKnown
<1> USE DEF AddsKnown
<1>1. CASE Elsewhere
  BY <1>1 DEF Elsewhere, listVars, saveVars, givenUpVars
<1>2. CASE Edits
  <2>1. PICK t \in Editors, then \in {"idle", "load", "remove"} :
           /\ Save(t, then)
           /\ \/ stage[t] = "idle" /\ t = "web" /\ then # "remove"
              \/ stage[t] = "add" /\ t = "http" /\ then = "remove"
    BY <1>2, EditsSave
  <2>2. stage["http"] = "add" /\ t = "web"
    BY <2>1 DEF Save, PairingTypeOK, Editors
  <2> QED
    BY <2>1, <2>2 DEF Save, Busy, Editors
<1>3. CASE Queueing
  BY <1>3, QueueingKnown DEF Queueing
<1>4. CASE RemoveSession
  BY <1>4 DEF RemoveSession, PairingTypeOK, Editors
<1>5. CASE SavePassword \/ Saves
  <2>1. UNCHANGED <<chain, addCert, lost, adding>> /\ (~overlap' => ~overlap)
    <3>1. CASE SavePassword
      BY <3>1 DEF SavePassword, Edit
    <3>2. CASE Saves
      BY <3>2 DEF Saves, ReadFile, OpenFile, WriteFile, listVars
    <3> QED
      BY <1>5, <3>1, <3>2
  <2>2. stage["http"] = "add"
    BY <1>5 DEF SavePassword, Saves, ReadFile, OpenFile, WriteFile, Onward,
                LoadsOnWeb, PairingTypeOK, Editors
  <2> QED
    BY <2>1, <2>2
<1>6. CASE Load
  BY <1>6 DEF Load, OneAtATime, PairingTypeOK, Editors
<1>7. CASE Handshake
  BY <1>7 DEF Handshake, saveVars, givenUpVars
<1>8. CASE StartAgain
  BY <1>8 DEF StartAgain, Editors
<1> QED
  BY <1>1, <1>2, <1>3, <1>4, <1>5, <1>6, <1>7, <1>8, StepKinds

LEMMA ListedStep ==
    ASSUME PairingTypeOK, LoadsOnWeb, AddsKnown, ListedKnown,
           [PairingNext]_pairingVars
    PROVE  ListedKnown'
<1> USE DEF ListedKnown
<1>1. CASE Elsewhere
  BY <1>1 DEF Elsewhere, listVars, givenUpVars
<1>2. CASE Edits
  <2>1. ~overlap' => ~overlap
    BY <1>2, EditsSave DEF Save
  <2> QED
    BY <1>2, <2>1, EditsKnown
<1>21. CASE Queueing
  BY <1>21, QueueingKnown DEF Queueing
<1>22. CASE RemoveSession \/ SavePassword
  BY <1>22 DEF RemoveSession, SavePassword, Edit, listVars, givenUpVars
<1>3. CASE Saves
  BY <1>3 DEF Saves, ReadFile, OpenFile, WriteFile, listVars
<1>4. CASE Load
  <2>1. CASE LoadList
    BY <2>1 DEF LoadList
  <2>2. CASE ~LoadList
    BY <1>4, <2>2 DEF Load
  <2> QED
    BY <2>1, <2>2
<1>5. CASE Handshake
  BY <1>5 DEF Handshake, givenUpVars
<1>6. CASE StartAgain
  <2>1. CASE LoadList
    BY <2>1 DEF LoadList
  <2>2. CASE ~LoadList
    <3>1. devices' = <<>>
      BY <1>6, <2>2 DEF StartAgain
    <3> QED
      BY <3>1 DEF Certs
  <2> QED
    BY <2>1, <2>2
<1> QED
  BY <1>1, <1>2, <1>21, <1>22, <1>3, <1>4, <1>5, <1>6, StepKinds

LEMMA TidyStep ==
    ASSUME PairingTypeOK, LoadsOnWeb, AddsKnown, ~overlap => Tidy,
           ~overlap => OneAtATime, [PairingNext]_pairingVars
    PROVE  ~overlap' => Tidy'
<1> USE DEF Tidy, BeingAdded
<1>1. CASE Elsewhere
  BY <1>1 DEF Elsewhere, listVars, givenUpVars, saveVars
<1>2. CASE Edits
  <2>1. PICK t \in Editors, then \in {"idle", "load", "remove"} :
           /\ Save(t, then)
           /\ \/ stage[t] = "idle" /\ t = "web" /\ then # "remove"
              \/ stage[t] = "add" /\ t = "http" /\ then = "remove"
    BY <1>2, EditsSave
  <2>2. ~overlap' => ~overlap /\ ~Busy(t)
    BY <2>1 DEF Save
  <2>3. ~Busy(t) => /\ stage["web"] = "idle"
                    /\ AddAuthorizedClient \/ stage["http"] # "add"
    <3>1. t = "http" => AddAuthorizedClient
      BY <1>2, <2>1 DEF Edits, Unpair, UnpairAll, SetEnabled, Save, PairingTypeOK,
                        Editors
    <3> QED
      BY <2>1, <3>1 DEF Busy, Editors
  <2>4. Save("web", "load") => stage'["web"] # "idle" /\ saving'["web"].then = "load"
    BY DEF Save, PairingTypeOK, Editors, NoSave, Blank
  <2> QED
    BY <1>2, <2>2, <2>3, <2>4, EditsKnown
<1>21. CASE Queueing
  <2>1. PICK c \in Clients, id \in Ids : Queues(c, id)
    BY <1>21 DEF Queueing
  <2>2. /\ UNCHANGED <<devices, chain, saving, stale>>
        /\ stage'["web"] = stage["web"] /\ stage["http"] # "add"
        /\ stage'["http"] = "add" /\ adding'.cert = c
        /\ ToSet(addCert') \subseteq ToSet(addCert) \cup {c}
        /\ ~overlap' => ~overlap
    BY <2>1, QueueingKnown DEF PairingTypeOK, Editors
  <2> QED
    BY <2>2
<1>22. CASE RemoveSession
  BY <1>22 DEF RemoveSession, PairingTypeOK, Editors, listVars, givenUpVars
<1>23. CASE SavePassword
  <2>1. /\ UNCHANGED <<devices, chain, addCert, stale, adding>>
        /\ stage["web"] = "idle" /\ stage'["http"] = stage["http"]
        /\ ~overlap' => ~overlap
    BY <1>23 DEF SavePassword, Edit, PairingTypeOK, Editors
  <2> QED
    BY <2>1
<1>3. CASE Saves
  <2>1. PICK t \in Editors : ReadFile(t) \/ OpenFile(t) \/ WriteFile(t)
    BY <1>3 DEF Saves
  <2>2. UNCHANGED <<devices, chain, addCert, stale, overlap, adding>>
    BY <2>1 DEF ReadFile, OpenFile, WriteFile, listVars
  <2>3. saving'["web"].then = saving["web"].then
    <3>1. \/ saving' = saving \/ saving' = [saving EXCEPT ![t].devices = devices]
          \/ saving' = [saving EXCEPT ![t] = Blank(Onward(t))]
      BY <2>1 DEF ReadFile, OpenFile, WriteFile, Finish
    <3>2. Blank(Onward(t)).then = saving[t].then
      BY DEF Blank, Onward
    <3>3. [saving[t] EXCEPT !.devices = devices].then = saving[t].then
      BY DEF PairingTypeOK, Tree
    <3> QED
      BY <3>1, <3>2, <3>3 DEF PairingTypeOK, Editors
  <2>4. \E l \in {"write", "writing", Onward(t)} : stage' = [stage EXCEPT ![t] = l]
    BY <2>1 DEF ReadFile, OpenFile, WriteFile
  <2>5. stage'["web"] = "idle" => stage["web"] = "idle" \/ saving["web"].then = "idle"
    BY <2>4 DEF Onward, PairingTypeOK, Editors
  <2>6. stage["http"] # "add" \/ stage'["http"] = "add"
    BY <2>1 DEF ReadFile, OpenFile, WriteFile, PairingTypeOK, Editors
  <2> QED
    BY <2>2, <2>3, <2>5, <2>6
<1>4. CASE Load
  BY <1>4 DEF Load
<1>5. CASE Handshake
  <2>1. ToSet(addCert') = {}
    BY <1>5 DEF Handshake, ToSet
  <2> QED
    BY <1>5, <2>1 DEF Handshake, saveVars, givenUpVars
<1>6. CASE StartAgain
  <2>1. ToSet(addCert') = {}
    BY <1>6 DEF StartAgain, ToSet
  <2>2. chain' \subseteq Certs(devices')
    BY <1>6 DEF StartAgain, LoadList
  <2> QED
    BY <2>1, <2>2
<1> QED
  BY <1>1, <1>2, <1>21, <1>22, <1>23, <1>3, <1>4, <1>5, <1>6, StepKinds

-----------------------------------------------------------------------------
(* The file                                                                *)

(* An edit begins with the file and the list as they should be.            *)
LEMMA EditInStep ==
    ASSUME PairingTypeOK, ~overlap => InStep, Edits, ~overlap'
    PROVE  InStep'
<1>1. PICK t \in Editors, then \in {"idle", "load", "remove"} :
         /\ Save(t, then)
         /\ \/ stage[t] = "idle" /\ t = "web" /\ then # "remove"
            \/ stage[t] = "add" /\ t = "http" /\ then = "remove"
  BY EditsSave
<1>2. /\ ~overlap /\ UNCHANGED <<file, behind>>
      /\ \A u \in Editors \ {t} : stage[u] = "idle"
      /\ stage[t] \in {"idle", "add"}
  BY <1>1, EditsSave DEF Save, Busy
<1>3. /\ acked' = devices
      /\ ~behind => file.state # "torn" /\ file.devices = devices
  BY <1>1, <1>2 DEF InStep, FileFollows, Save
<1>4. stage' = [u \in Editors |-> IF u = t THEN "save" ELSE "idle"]
  BY <1>1, <1>2 DEF Save, PairingTypeOK
<1>5. OneAtATime'
  BY <1>4 DEF OneAtATime, Editors
<1>6. WritesTheList'
  BY <1>4 DEF WritesTheList
<1>7. FileFollows'
  <2>1. stage'[t] = "save" /\ \A u \in Editors : stage'[u] \in {"idle", "save"}
    BY <1>4
  <2> QED
    BY <1>2, <1>3, <2>1 DEF FileFollows
<1> QED
  BY <1>5, <1>6, <1>7 DEF InStep

(* The steps of a save, up to the write that fails or makes the file.      *)
LEMMA SaveInStep ==
    ASSUME PairingTypeOK, ListsAreLists, InStep, NEW t \in Editors,
           ReadFile(t) \/ OpenFile(t) \/ WriteFile(t)
    PROVE  InStep'
<1>1. /\ devices' = devices
      /\ \A u \in Editors \ {t} : stage[u] = "idle"
  BY DEF ReadFile, OpenFile, WriteFile, listVars, InStep, OneAtATime, Editors
<1>2. PICK l \in {"write", "writing", Onward(t)} :
         stage' = [u \in Editors |-> IF u = t THEN l ELSE "idle"]
  <2>1. PICK l \in {"write", "writing", Onward(t)} : stage' = [stage EXCEPT ![t] = l]
    BY DEF ReadFile, OpenFile, WriteFile
  <2> QED
    BY <1>1, <2>1 DEF PairingTypeOK
<1>3. stage'[t] = l /\ Onward(t) \in {"idle", "load", "remove"}
  BY <1>2 DEF PairingTypeOK, Onward, Tree
<1>4. OneAtATime'
  BY <1>2 DEF OneAtATime, Editors
<1>5. CASE ReadFile(t) /\ file.state # "torn"
  <2>1. /\ l = "write" /\ UNCHANGED <<behind, acked, file>>
        /\ saving' = [saving EXCEPT ![t].devices = devices]
        /\ stage[t] = "save"
    BY <1>3, <1>5 DEF ReadFile, listVars, PairingTypeOK
  <2>2. saving'[t].devices = devices /\ saving'[t].list
    BY <2>1 DEF PairingTypeOK, ListsAreLists, Tree
  <2>3. WritesTheList'
    BY <1>1, <1>2, <2>1, <2>2 DEF WritesTheList
  <2>4. FileFollows'
    BY <1>1, <1>2, <1>3, <2>1, <2>2 DEF FileFollows, InStep
  <2> QED
    BY <1>4, <2>3, <2>4 DEF InStep
<1>6. CASE OpenFile(t) /\ stage' = [stage EXCEPT ![t] = "writing"]
  <2>1. stage[t] = "write" /\ l = "writing"
    BY <1>3, <1>6 DEF OpenFile, PairingTypeOK
  <2>2. /\ saving' = saving /\ file'.state = "torn"
        /\ UNCHANGED <<behind, acked>>
    BY <1>3, <1>6, <2>1 DEF OpenFile
  <2>3. WritesTheList'
    BY <1>1, <1>2, <2>1, <2>2 DEF WritesTheList, InStep
  <2>4. FileFollows'
    BY <1>1, <1>2, <1>3, <2>1, <2>2 DEF FileFollows, InStep
  <2> QED
    BY <1>4, <2>3, <2>4 DEF InStep
<1>7. ASSUME l = Onward(t), Finish(t),
             ~behind' => file'.state # "torn" /\ file'.devices = devices
      PROVE  InStep'
  <2>1. acked' = IF l = "load" THEN acked ELSE devices
    BY <1>7 DEF Finish
  <2>2. \A u \in Editors : stage'[u] \in {"idle", "load", "remove"}
    BY <1>2, <1>3, <1>7
  <2>3. WritesTheList'
    BY <2>2 DEF WritesTheList
  <2>4. FileFollows'
    BY <1>1, <1>3, <1>7, <2>1, <2>2 DEF FileFollows
  <2> QED
    BY <1>4, <2>3, <2>4 DEF InStep
<1>8. CASE ReadFile(t) /\ file.state = "torn"
  <2>1. l = Onward(t) /\ Finish(t) /\ behind' = TRUE
    BY <1>3, <1>8 DEF ReadFile, PairingTypeOK
  <2> QED
    BY <1>7, <2>1
<1>9. CASE OpenFile(t) /\ stage' # [stage EXCEPT ![t] = "writing"]
  <2>1. /\ stage[t] = "write" /\ l = Onward(t) /\ Finish(t) /\ file' = file
        /\ behind' = (behind \/ saving[t].list)
    BY <1>3, <1>9 DEF OpenFile, PairingTypeOK
  <2>2. ~behind' => file.state # "torn" /\ file.devices = acked /\ acked = devices
    BY <2>1 DEF InStep, FileFollows
  <2> QED
    BY <1>7, <2>1, <2>2
<1>10. CASE WriteFile(t)
  <2>1. stage[t] = "writing" /\ l = Onward(t) /\ Finish(t)
    BY <1>3, <1>10 DEF WriteFile, PairingTypeOK
  <2>2. ~behind' => /\ saving[t].list \/ ~behind
                    /\ file' = [state |-> saving[t].state,
                                devices |-> saving[t].devices]
    BY <1>10 DEF WriteFile
  <2>3. saving[t].list \/ ~behind => saving[t].devices = devices
    BY <2>1 DEF InStep, WritesTheList
  <2>4. saving[t].state # "torn"
    BY DEF PairingTypeOK, Tree
  <2> QED
    BY <1>7, <2>1, <2>2, <2>3, <2>4
<1> QED
  BY <1>5, <1>6, <1>8, <1>9, <1>10

\* A change of the password begins with a file that says what it should.
LEMMA PasswordInStep ==
    ASSUME PairingTypeOK, ~overlap => InStep, SavePassword, ~overlap'
    PROVE  InStep'
<1>1. /\ ~overlap /\ \A t \in Editors : stage[t] = "idle"
      /\ UNCHANGED <<devices, file, acked, behind>>
  BY DEF SavePassword, Edit, Busy, Editors
<1>2. /\ acked = devices
      /\ ~behind => file.state # "torn" /\ file.devices = devices
  BY <1>1 DEF InStep, FileFollows
<1>3. stage' = [t \in Editors |-> IF t = "web" THEN "write" ELSE "idle"]
  BY <1>1 DEF SavePassword, PairingTypeOK
<1>4. saving'["web"].devices = file.devices /\ ~saving'["web"].list
  BY DEF SavePassword, PairingTypeOK, Editors
<1>5. OneAtATime'
  BY <1>3 DEF OneAtATime, Editors
<1>6. WritesTheList'
  BY <1>1, <1>2, <1>3, <1>4 DEF WritesTheList
<1>7. FileFollows'
  <2>1. stage'["web"] = "write" /\ "web" \in Editors
    BY <1>3 DEF Editors
  <2> QED
    BY <1>1, <1>2, <2>1 DEF FileFollows
<1> QED
  BY <1>5, <1>6, <1>7 DEF InStep

\* The HTTP thread begins to add a client, or has added it.
LEMMA AddInStep ==
    ASSUME PairingTypeOK, ~overlap => InStep, Queueing \/ RemoveSession, ~overlap'
    PROVE  InStep'
<1>1. PICK l \in {"idle", "add"} :
         /\ stage["http"] \in {"idle", "remove"}
         /\ stage' = [stage EXCEPT !["http"] = l]
         /\ ~overlap /\ UNCHANGED <<devices, file, acked, behind, saving>>
         /\ l = "idle" \/ stage["web"] = "idle"
  <2>1. CASE Queueing
    BY <2>1 DEF Queueing, Queues, ClientPairingSecret, Busy, Editors
  <2>2. CASE RemoveSession
    BY <2>2 DEF RemoveSession, listVars, givenUpVars
  <2> QED
    BY <2>1, <2>2
<1>2. stage'["http"] = l /\ stage'["web"] = stage["web"]
  BY <1>1 DEF PairingTypeOK, Editors
<1>3. InStep
  BY <1>1
<1>4. OneAtATime'
  BY <1>1, <1>2, <1>3 DEF InStep, OneAtATime
<1>5. WritesTheList'
  BY <1>1, <1>2, <1>3 DEF InStep, WritesTheList, Editors
<1>6. FileFollows'
  BY <1>1, <1>2, <1>3 DEF InStep, FileFollows, Editors
<1> QED
  BY <1>4, <1>5, <1>6 DEF InStep

(* The list is loaded again after a save, and by a process that starts.    *)
LEMMA LoadInStep ==
    ASSUME PairingTypeOK, InStep, Load
    PROVE  InStep'
<1>1. /\ stage["web"] = "load" /\ stage["http"] = "idle"
      /\ stage' = [stage EXCEPT !["web"] = "idle"]
  BY DEF Load, InStep, OneAtATime
<1>2. \A t \in Editors : stage'[t] = "idle"
  BY <1>1 DEF PairingTypeOK, Editors
<1>3. acked' = devices' /\ file' = file
  BY DEF Load
<1>4. ~behind => file.state # "torn" /\ file.devices = devices
  <2>1. \A t \in Editors : stage[t] \in {"idle", "load"}
    BY <1>1 DEF Editors
  <2> QED
    BY <2>1 DEF InStep, FileFollows
<1>5. ~behind' => file'.state # "torn" /\ file'.devices = devices'
  <2>1. CASE LoadList /\ file.state = "ok"
    BY <1>3, <2>1 DEF LoadList
  <2>2. CASE ~(LoadList /\ file.state = "ok")
    BY <1>3, <1>4, <2>2 DEF Load
  <2> QED
    BY <2>1, <2>2
<1> QED
  BY <1>2, <1>3, <1>5
     DEF InStep, OneAtATime, WritesTheList, FileFollows, Editors

LEMMA RestartInStep ==
    ASSUME PairingTypeOK, ListsAreLists, StartAgain
    PROVE  InStep'
<1>1. \A t \in Editors : stage'[t] = "idle"
  BY DEF StartAgain
<1>2. acked' = devices' /\ file' = file
  BY DEF StartAgain
<1>3. ~behind' => file'.state # "torn" /\ file'.devices = devices'
  <2>1. CASE LoadList /\ file.state = "ok"
    BY <1>2, <2>1 DEF LoadList
  <2>2. CASE ~(LoadList /\ file.state = "ok")
    BY <1>2, <2>2 DEF StartAgain, PairingTypeOK, ListsAreLists
  <2> QED
    BY <2>1, <2>2
<1> QED
  BY <1>1, <1>2, <1>3
     DEF InStep, OneAtATime, WritesTheList, FileFollows, Editors

-----------------------------------------------------------------------------
(* The theorems about the clients                                          *)

LEMMA PairingStepInv == PairingInv /\ [PairingNext]_pairingVars => PairingInv'
<1> SUFFICES ASSUME PairingInv, [PairingNext]_pairingVars PROVE PairingInv'
  OBVIOUS
<1>1. /\ PairingTypeOK /\ LoadsOnWeb /\ ListsAreLists /\ AddsKnown /\ ListedKnown
      /\ ~overlap => InStep
      /\ ~overlap => Tidy
      /\ ~overlap => OneAtATime
  BY DEF PairingInv, InStep
<1>2. /\ PairingTypeOK' /\ LoadsOnWeb' /\ ListsAreLists' /\ AddsKnown'
      /\ ListedKnown' /\ (~overlap' => Tidy')
  BY <1>1, PairingTypeStep, LoadsStep, ListsStep, AddsStep, ListedStep, TidyStep
<1>3. ASSUME ~overlap' PROVE InStep'
  <2>1. CASE Elsewhere \/ Handshake
    <3>1. UNCHANGED <<devices, file, stage, saving, acked, behind, overlap>>
      BY <2>1 DEF Elsewhere, Handshake, listVars, saveVars, givenUpVars
    <3> QED
      BY <1>1, <1>3, <3>1 DEF InStep, OneAtATime, WritesTheList, FileFollows
  <2>2. CASE Edits
    BY <1>1, <1>3, <2>2, EditInStep
  <2>3. CASE Queueing \/ RemoveSession
    BY <1>1, <1>3, <2>3, AddInStep
  <2>4. CASE SavePassword
    BY <1>1, <1>3, <2>4, PasswordInStep
  <2>5. CASE Saves
    <3>1. overlap' = overlap
      BY <2>5 DEF Saves, ReadFile, OpenFile, WriteFile
    <3> QED
      BY <1>1, <1>3, <2>5, <3>1, SaveInStep DEF Saves
  <2>6. CASE Load
    <3>1. overlap' = overlap
      BY <2>6 DEF Load
    <3> QED
      BY <1>1, <1>3, <2>6, <3>1, LoadInStep
  <2>7. CASE StartAgain
    BY <1>1, <2>7, RestartInStep
  <2> QED
    BY <2>1, <2>2, <2>3, <2>4, <2>5, <2>6, <2>7, StepKinds
<1> QED
  BY <1>2, <1>3 DEF PairingInv

LEMMA PairingSpecInv == PairingSpec => []PairingInv
<1> QED
  BY PairingInitInv, PairingStepInv, PTL DEF PairingSpec

(* Every variable of the pairing keeps its type: no client, session or     *)
(* thread is ever in a state the code does not know.                       *)
THEOREM PairingTypeCorrect == PairingSpec => []PairingTypeOK
<1>1. PairingInv => PairingTypeOK
  BY DEF PairingInv
<1> QED
  BY <1>1, PairingSpecInv, PTL

(* When no request is under way the file says what the list in memory      *)
(* says, whoever wrote it last: a change of the list, or of the password   *)
(* that is kept with it. Unless the last write of the list failed, or two  *)
(* threads were at the list or at its file.                                *)
THEOREM FileKeepsUp == PairingSpec => []FileIsCurrent
<1>1. PairingInv => FileIsCurrent
  <2> SUFFICES ASSUME PairingInv, Quiet, ~behind, ~overlap
               PROVE  file.state # "torn" /\ devices = file.devices
    BY DEF FileIsCurrent
  <2> QED
    BY DEF PairingInv, InStep, FileFollows, Quiet
<1> QED
  BY <1>1, PairingSpecInv, PTL

(* What a handshake knows follows the list, also between the queueing of a *)
(* certificate and the adding of its client: every client on it, and no    *)
(* other, but for those a full queue lost or an edit left in the queue, as *)
(* long as one thread at a time edits it.                                  *)
THEOREM HandshakesFollowTheList == PairingSpec => []ChainFollowsList
<1>1. PairingInv => ChainFollowsList
  BY DEF PairingInv, ChainFollowsList, UnlistedUnknown, Tidy
<1> QED
  BY <1>1, PairingSpecInv, PTL

(* A process that starts again, after whatever end, has the list as it was,*)
(* or as it was before the request that its end cut short, also when it is *)
(* the password that was being written. Not if the file was open for       *)
(* writing, the last write of the list failed, or two threads were at it.  *)
THEOREM RestartsKeepTheList == PairingSpec => RestartKeepsList
<1> DEFINE Keeps ==
       (Restart \/ Crash) /\ file.state # "torn" /\ ~behind /\ ~overlap =>
           devices' \in {devices, acked}
<1>1. PairingInv => Keeps
  <2> SUFFICES ASSUME PairingInv, Restart \/ Crash, file.state # "torn",
                      ~behind, ~overlap
               PROVE  devices' \in {devices, acked}
    OBVIOUS
  <2>1. devices' = file.devices
    BY DEF Restart, Crash, StartAgain, LoadList, PairingInv, PairingTypeOK,
           ListsAreLists
  <2>2. \/ \A t \in Editors : stage[t] \in {"idle", "add", "load", "remove"}
        \/ \E t \in Editors : stage[t] \in {"save", "write"}
    BY DEF PairingInv, PairingTypeOK, InStep, WritesTheList, Stages
  <2>3. file.devices \in {devices, acked}
    BY <2>2 DEF PairingInv, InStep, FileFollows
  <2> QED
    BY <2>1, <2>3
<1>2. PairingInv /\ [PairingNext]_pairingVars => [Keeps]_pairingVars
  BY <1>1
<1> QED
  BY <1>2, PairingSpecInv, PTL DEF PairingSpec, RestartKeepsList

=============================================================================
